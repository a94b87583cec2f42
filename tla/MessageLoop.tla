----------------------------- MODULE MessageLoop -----------------------------
(***************************************************************************)
(* The loop of banipd's main with parse_addr, parse_ulong (parse.c) and    *)
(* the error slot of queues/error.c: what happens to one message after     *)
(* another.                                                                *)
(*                                                                         *)
(* The error slot is main's "error" pointer, passed down as char **.  An   *)
(* error names the message it is about.  _error_set on a slot in use calls *)
(* free on the slot itself, a variable of main's frame: the behaviour is   *)
(* undefined, and is either an abort or an overwritten slot.               *)
(*                                                                         *)
(* Not here: failures of strdup, and an address too long for humanrepr,    *)
(* which no text inet_pton accepts is.                                     *)
(***************************************************************************)
EXTENDS Integers

CONSTANTS
  Prefixes,  \* values a prefix can be given
  ULongMax,  \* ULONG_MAX
  NoPrefix,  \* a message without '/'
  NoError,   \* a NULL error
  MaxMsgs    \* bound: messages received

ASSUME MessageLoopAssumption ==
  /\ Prefixes \subseteq 0..ULongMax
  /\ ULongMax \in Nat /\ ULongMax > 128
  /\ MaxMsgs \in Nat

VARIABLES
  pc,       \* the next step of the loop, or "aborted"
  n,        \* how many messages were received
  msg,      \* buffer: the message being handled
  prefix,   \* parse_addr's prefix
  addr,     \* parse_addr's result
  error,    \* the error slot
  handled   \* history: messages given to engine->handle

vars == <<pc, n, msg, prefix, addr, error, handled>>

\* A host is an IPv4 or an IPv6 address, a short form that only getaddrinfo
\* takes (as 10.1), or no address.  A number is its digits, followed by
\* something else, missing, or too large for an unsigned long.
Host == {"v4", "v6", "loose", "bad"}
Number ==
  [form : {"digits", "trailing"}, value : Prefixes]
    \cup {[form |-> "none", value |-> 0], [form |-> "overflow", value |-> ULongMax]}
Message == [host : Host, number : Number \cup {NoPrefix}]
Error == [of : 1..MaxMsgs, kind : {"receive", "number", "address", "engine"}]
NoAddr == [family |-> "none", netmask |-> 0]
Addr == {NoAddr} \cup [family : {"v4", "v6"}, netmask : 0..255]

TypeOK ==
  /\ pc \in {"receive", "number", "resolve", "convert", "plain", "handle", "log",
             "aborted"}
  /\ n \in 0..MaxMsgs
  /\ msg \in Message
  /\ prefix \in 0..ULongMax
  /\ addr \in Addr
  /\ error \in Error \cup {NoError}
  /\ handled \subseteq 1..MaxMsgs

Init ==
  /\ pc = "receive"
  /\ n = 0
  /\ msg = [host |-> "bad", number |-> NoPrefix]   \* calloc's empty text
  /\ prefix = 0
  /\ addr = NoAddr
  /\ error = NoError
  /\ handled = {}

\* set_generic_error and set_system_error for message k, then to label "to".
ErrorSet(k, kind, to) ==
  \/ /\ error' = [of |-> k, kind |-> kind]
     /\ pc' = to
  \/ /\ error # NoError
     /\ pc' = "aborted"
     /\ UNCHANGED error

\* queue_receive; parse_addr starts by clearing addr and looking for a '/'.
Receive ==
  /\ pc = "receive"
  /\ n < MaxMsgs
  /\ n' = n + 1
  /\ \/ /\ \E x \in Message :
             /\ msg' = x
             /\ pc' = IF x.number = NoPrefix THEN "plain" ELSE "number"
        /\ addr' = NoAddr
        /\ UNCHANGED error
     \/ /\ ErrorSet(n + 1, "receive", "log")
        /\ UNCHANGED <<msg, addr>>
  /\ UNCHANGED <<prefix, handled>>

\* parse_ulong's verdict.
Refused(x) == x.form # "digits" \/ x.value = 0

\* parse_ulong writes the value in every case; parse_addr ignores its verdict.
ParseNumber ==
  /\ pc = "number"
  /\ prefix' = msg.number.value
  /\ IF Refused(msg.number)
     THEN ErrorSet(n, "number", "resolve")
     ELSE pc' = "resolve" /\ UNCHANGED error
  /\ UNCHANGED <<n, msg, addr, handled>>

\* The family getaddrinfo finds; the short forms are IPv4.
FamilyOf(host) == IF host = "v6" THEN "v6" ELSE "v4"
Width(family) == IF family = "v6" THEN 128 ELSE 32

\* Variant: the prefix is compared with the length of an IPv6 address only.
ResolveHostWide ==
  /\ pc = "resolve"
  /\ IF msg.host = "bad" \/ prefix > 128
     THEN ErrorSet(n, "address", "log")
     ELSE pc' = "convert" /\ UNCHANGED error
  /\ UNCHANGED <<n, msg, prefix, addr, handled>>

\* getaddrinfo, then the length of the prefix.
ResolveHost ==
  /\ pc = "resolve"
  /\ IF msg.host = "bad" \/ prefix > Width(FamilyOf(msg.host))
     THEN ErrorSet(n, "address", "log")
     ELSE pc' = "convert" /\ UNCHANGED error
  /\ UNCHANGED <<n, msg, prefix, addr, handled>>

\* Variant: the result of inet_pton is not looked at.
ConvertUnchecked ==
  /\ pc = "convert"
  /\ addr' = [family |-> msg.host, netmask |-> prefix % 256]
  /\ pc' = "handle"
  /\ UNCHANGED <<n, msg, prefix, error, handled>>

\* inet_pton, which refuses the short forms.
Convert ==
  /\ pc = "convert"
  /\ IF msg.host = "loose"
     THEN /\ ErrorSet(n, "address", "log")
          /\ UNCHANGED addr
     ELSE /\ addr' = [family |-> msg.host, netmask |-> prefix % 256]
          /\ pc' = "handle"
          /\ UNCHANGED error
  /\ UNCHANGED <<n, msg, prefix, handled>>

\* The branch without '/'.
ConvertPlain ==
  /\ pc = "plain"
  /\ IF msg.host \in {"v4", "v6"}
     THEN /\ addr' = [family |-> msg.host, netmask |-> IF msg.host = "v4" THEN 32 ELSE 64]
          /\ pc' = "handle"
          /\ UNCHANGED error
     ELSE /\ ErrorSet(n, "address", "log")
          /\ UNCHANGED addr
  /\ UNCHANGED <<n, msg, prefix, handled>>

\* Variant: the engine goes on after a first error, to fail again.
HandleOnward ==
  /\ pc = "handle"
  /\ handled' = handled \cup {n}
  /\ \/ n \notin handled /\ pc' = "receive" /\ UNCHANGED error
     \/ ErrorSet(n, "engine", "log")
     \/ ErrorSet(n, "engine", "handle")
  /\ UNCHANGED <<n, msg, prefix, addr>>

\* engine->handle succeeds, fails and says why (pf), or just fails (ipset).
Handle ==
  /\ pc = "handle"
  /\ handled' = handled \cup {n}
  /\ \/ pc' = "receive" /\ UNCHANGED error
     \/ ErrorSet(n, "engine", "log")
     \/ pc' = "log" /\ UNCHANGED error
  /\ UNCHANGED <<n, msg, prefix, addr>>

\* Variant: the slot is not emptied.
LogKept ==
  /\ pc = "log"
  /\ pc' = "receive"
  /\ UNCHANGED <<n, msg, prefix, addr, error, handled>>

\* _verr and error_free.
Log ==
  /\ pc = "log"
  /\ pc' = "receive"
  /\ error' = NoError
  /\ UNCHANGED <<n, msg, prefix, addr, handled>>

Next ==
  \/ Receive
  \/ ParseNumber \/ ResolveHost \/ Convert \/ ConvertPlain
  \/ Handle
  \/ Log

Spec == Init /\ [][Next]_vars
-----------------------------------------------------------------------------
\* engine->handle gets the address of the message just received, with the
\* prefix it was given or the default one, never longer than the address:
\* nothing is left of an earlier message.  One check is passed around, that of
\* parse_ulong: a prefix it refuses (no digits, digits and something else, zero)
\* is used as strtoul read it, and only its error in the slot tells.
HandlesMessage ==
  pc = "handle" =>
    /\ msg.host \in {"v4", "v6"}
    /\ addr.family = msg.host
    /\ addr.netmask <= Width(msg.host)
    /\ addr.netmask = IF msg.number # NoPrefix THEN msg.number.value
                      ELSE IF msg.host = "v4" THEN 32 ELSE 64
    /\ msg.number # NoPrefix /\ Refused(msg.number) =>
         error = [of |-> n, kind |-> "number"]

\* An error that is set without stopping what it is about: a prefix that
\* parse_ulong refuses and parse_addr takes.
Unreported(e) == e.kind = "number" /\ e.of \in handled

\* When the loop of main() waits for a message the slot is empty, unless it holds
\* such an error.
SlotCause == pc = "receive" /\ error # NoError => Unreported(error)

\* Only such an error, or the prefix of the message in hand, makes _error_set
\* meet a slot in use: other messages leave the daemon running.
AbortCause ==
  pc = "aborted" => Unreported(error) \/ (error.kind = "number" /\ error.of = n)
=============================================================================
