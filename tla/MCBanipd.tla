------------------------------ MODULE MCBanipd ------------------------------
(* Small instances of Banipd for TLC.                                      *)
EXTENDS Banipd, TLC

\* An address as long as a message may be, a text that parse_addr refuses, and
\* a text too long for the queue.
MCMsg == {"addr", "garbage", "toolong"}
MCMsgLen == [m \in MCMsg |-> CASE m = "addr" -> 2 [] m = "garbage" -> 1 [] m = "toolong" -> 3]

\* The texts that a queue takes.
MCTaken == {"addr", "garbage"}
MCTakenLen == [m \in MCTaken |-> MCMsgLen[m]]

Symmetry == Permutations(Owner) \cup Permutations(Sender)
=============================================================================
