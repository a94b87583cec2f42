---------------------------- MODULE MCSysvQueue -----------------------------
(***************************************************************************)
(* SysvQueue for TLC.                                                      *)
(***************************************************************************)
EXTENDS SysvQueue, TLC

CONSTANTS a, bb, ccc

MCMsg == {a, bb, ccc}
\* With a buffer_size of 2: a text that fits in it with its terminator, one that
\* fits without, one that does not.
MCMsgLen == (a :> 1) @@ (bb :> 2) @@ (ccc :> 3)

Symmetry == Permutations(Owner) \cup Permutations(Sender) \cup Permutations(Ino)
=============================================================================
