---------------------------- MODULE MCPfEngine ------------------------------
(***************************************************************************)
(* PfEngine for TLC: IPv4 addresses of two bits, IPv6 addresses of two     *)
(* bytes of two bits.                                                      *)
(***************************************************************************)
EXTENDS PfEngine

\* Hosts of both families that share no bits, some, and all the bits but the last.
MCHost ==
  {[family |-> "v4", bits |-> b] : b \in {{0, 1}, {1}, {}}}
    \cup {[family |-> "v6", bits |-> b] : b \in {{}, {<<1, 0>>}, {<<1, 1>>}}}
=============================================================================
