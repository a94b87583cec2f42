----------------------------- MODULE BanService -----------------------------
(***************************************************************************)
(* What banip promises to a program that sends addresses, whatever queues, *)
(* signals and engines are made of.  A server is one run of the daemon.    *)
(*                                                                         *)
(* A server deals with the messages it accepted one at a time, in their    *)
(* order, each at most once, and only while it serves.  Dealing with a     *)
(* message bans its address or not (the engine may fail); nothing is       *)
(* banned that no server has dealt with, and no text that is no address.   *)
(* A server that is over serves no more, and the messages left are lost.   *)
(***************************************************************************)
EXTENDS Naturals, Sequences

CONSTANTS
  Server,  \* the servers
  Msg,     \* message texts
  Valid    \* those that are addresses

VARIABLES
  state,     \* of a server: "new", "serving" or "over"
  accepted,  \* the messages a server accepted, in order
  settled,   \* those it has dealt with, in order
  banned     \* the messages whose address is banned

vars == <<state, accepted, settled, banned>>

Init ==
  /\ state = [s \in Server |-> "new"]
  /\ accepted = [s \in Server |-> <<>>]
  /\ settled = [s \in Server |-> <<>>]
  /\ banned = {}

Serve(s) ==
  /\ state[s] = "new"
  /\ state' = [state EXCEPT ![s] = "serving"]
  /\ UNCHANGED <<accepted, settled, banned>>

Stop(s) ==
  /\ state[s] # "over"
  /\ state' = [state EXCEPT ![s] = "over"]
  /\ UNCHANGED <<accepted, settled, banned>>

Accept(s, m) ==
  /\ accepted' = [accepted EXCEPT ![s] = Append(@, m)]
  /\ UNCHANGED <<state, settled, banned>>

\* The oldest message a server has not dealt with.
Oldest(s) == accepted[s][Len(settled[s]) + 1]

Settle(s) ==
  /\ state[s] = "serving"
  /\ Len(settled[s]) < Len(accepted[s])
  /\ settled' = [settled EXCEPT ![s] = Append(@, Oldest(s))]
  /\ \/ UNCHANGED banned
     \/ Oldest(s) \in Valid /\ banned' = banned \cup {Oldest(s)}
  /\ UNCHANGED <<state, accepted>>

Next ==
  \E s \in Server :
    Serve(s) \/ Stop(s) \/ Settle(s) \/ \E m \in Msg : Accept(s, m)

Spec == Init /\ [][Next]_vars
=============================================================================
