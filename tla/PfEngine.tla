------------------------------ MODULE PfEngine ------------------------------
(***************************************************************************)
(* pf.c, the engine for PF: a ban adds a network to a table of the kernel, *)
(* then kills the states (live connections) of the network, while clients  *)
(* connect and the administrator edits the table.                          *)
(*                                                                         *)
(* An address is the set of the positions of its one bits, so & is         *)
(* intersection.  Positions count from the low end of the number for IPv4, *)
(* and are <<byte, position in the byte>> for IPv6, as pf.c builds masks.  *)
(* The code has 32 bits, and 16 bytes of 8 bits.  Byte orders are left     *)
(* out.                                                                    *)
(*                                                                         *)
(* PF itself (the table, the states, the two ioctls) is modelled from the  *)
(* way pf.c uses it.                                                       *)
(***************************************************************************)
EXTENDS Integers, FiniteSets

CONSTANTS
  V4Bits,      \* bits of an IPv4 address
  V6Bytes,     \* bytes of an IPv6 address
  ByteBits,    \* bits of a byte
  TableLimit,  \* networks the table has room for
  Host,        \* the addresses of the model: [family, bits]
  NoRequest    \* no request in hand

Position(family) ==
  IF family = "v4" THEN 0..V4Bits-1 ELSE (0..V6Bytes-1) \X (0..ByteBits-1)
Width(family) == Cardinality(Position(family))

ASSUME PfAssumption ==
  /\ V4Bits \in Nat /\ V6Bytes \in Nat /\ ByteBits \in Nat \ {0}
  /\ TableLimit \in Nat
  /\ \A h \in Host : h.family \in {"v4", "v6"} /\ h.bits \subseteq Position(h.family)

VARIABLES
  pc,       \* "closed", "idle", or the next ioctl or call of pf_handle
  request,  \* parsed_addr: the request in hand
  table,    \* the networks in the table
  states,   \* the hosts with live states
  unfinished  \* history: networks in the table whose last request failed, or was
              \* cut short by the end of the daemon

vars == <<pc, request, table, states, unfinished>>

\* The place of a bit in its address, from the first one on.
Place(family, k) ==
  IF family = "v4" THEN V4Bits - 1 - k ELSE k[1] * ByteBits + (ByteBits - 1 - k[2])

\* The network of a host, its other bits cleared, as parse_addr makes it.
NetOf(h, n) ==
  [family |-> h.family, prefix |-> n,
   bits |-> {k \in h.bits : Place(h.family, k) < n}]
Net == {NetOf(h, n) : h \in Host, n \in 0..V4Bits + V6Bytes * ByteBits}

\* What a prefix means.
Contains(t, h) == NetOf(h, t.prefix) = t

\* A request: the host as it was written (humanrepr), and the prefix.
Request ==
  {r \in [host : Host, prefix : 0..V4Bits + V6Bytes * ByteBits] :
     r.prefix <= Width(r.host.family)}

ASSUME RequestAssumption == NoRequest \notin Request

Blocked(h) == \E t \in table : Contains(t, h)

TypeOK ==
  /\ pc \in {"closed", "idle", "add", "resolve", "kill"}
  /\ request \in Request \cup {NoRequest}
  /\ table \subseteq Net /\ Cardinality(table) <= TableLimit
  /\ states \subseteq Host
  /\ unfinished \subseteq table

Init ==
  /\ pc = "closed"
  /\ request = NoRequest
  /\ table = {}
  /\ states \in SUBSET Host
  /\ unfinished = {}
-----------------------------------------------------------------------------
\* pf_open
Open ==
  /\ pc = "closed"
  /\ pc' = "idle"
  /\ UNCHANGED <<request, table, states, unfinished>>

\* pf_close, from cleanup
Close ==
  /\ pc = "idle"
  /\ pc' = "closed"
  /\ UNCHANGED <<request, table, states, unfinished>>

\* main calls pf_handle with an address from parse_addr.
Handle(r) ==
  /\ pc = "idle"
  /\ request' = r
  /\ pc' = "add"
  /\ UNCHANGED <<table, states, unfinished>>

\* The network of the request in hand.
InHand == NetOf(request.host, request.prefix)

\* pf_handle returns false: what it did before stays done.
Refuse ==
  /\ pc' = "idle"
  /\ request' = NoRequest
  /\ unfinished' = (unfinished \cup {InHand}) \cap table
  /\ UNCHANGED <<table, states>>

\* Variant: the table gets the host as it was written.
AddAddressUnmasked ==
  /\ pc = "add"
  /\ \/ /\ table' = table \cup {[family |-> request.host.family, prefix |-> request.prefix,
                                 bits |-> request.host.bits]}
        /\ Cardinality(table') <= TableLimit
        /\ pc' = "resolve"
        /\ UNCHANGED <<request, states, unfinished>>
     \/ Refuse

\* ioctl(DIOCRADDADDRS)
AddAddress ==
  /\ pc = "add"
  /\ \/ /\ table' = table \cup {InHand}
        /\ Cardinality(table') <= TableLimit
        /\ pc' = "resolve"
        /\ UNCHANGED <<request, states, unfinished>>
     \/ Refuse

\* getaddrinfo(parsed_addr.humanrepr)
Resolve ==
  /\ pc = "resolve"
  /\ \/ /\ pc' = "kill"
        /\ UNCHANGED <<request, table, states, unfinished>>
     \/ Refuse

\* 0xffffffffff << (32 - netmask), eight bits more than an address has, cut to
\* its width; all ones for a prefix of full length.
MaskV4(n) ==
  IF n < V4Bits
  THEN {k + (V4Bits - n) : k \in 0..V4Bits+7} \cap (0..V4Bits-1)
  ELSE 0..V4Bits-1

\* Variant: 0xff00 is shifted one bit less.
MaskV6Short(n) ==
  LET q == n \div ByteBits
      r == n % ByteBits
  IN IF n < V6Bytes * ByteBits
     THEN {k \in Position("v6") : k[1] < q}
            \cup IF r > 0 THEN {<<q, k>> : k \in {j - r + 1 : j \in ByteBits..2*ByteBits-1}
                                                   \cap (0..ByteBits-1)}
                 ELSE {}
     ELSE Position("v6")

\* q bytes of 0xff, then (0xff00 >> r) & 0xff if r is not 0.
MaskV6(n) ==
  LET q == n \div ByteBits
      r == n % ByteBits
  IN IF n < V6Bytes * ByteBits
     THEN {k \in Position("v6") : k[1] < q}
            \cup IF r > 0 THEN {<<q, k>> : k \in {j - r : j \in ByteBits..2*ByteBits-1}
                                                   \cap (0..ByteBits-1)}
                 ELSE {}
     ELSE Position("v6")

\* The hosts DIOCKILLSTATES matches: same family, same bits under the mask.
Matched(r) ==
  LET mask == IF r.host.family = "v4" THEN MaskV4(r.prefix) ELSE MaskV6(r.prefix)
  IN {h \in Host : h.family = r.host.family
                     /\ h.bits \cap mask = r.host.bits \cap mask}

\* Variant: the result of the ioctl is not looked at.
KillStatesUnchecked ==
  /\ pc = "kill"
  /\ states' \in {states, states \ Matched(request)}
  /\ pc' = "idle"
  /\ request' = NoRequest
  /\ unfinished' = unfinished \ {InHand}
  /\ UNCHANGED table

\* The loop over getaddrinfo's results: for a numeric host they differ in the
\* type of socket only, so the first one kills and the others are skipped.
KillStates ==
  /\ pc = "kill"
  /\ \/ /\ states' = states \ Matched(request)
        /\ pc' = "idle"
        /\ request' = NoRequest
        /\ unfinished' = unfinished \ {InHand}
        /\ UNCHANGED table
     \/ Refuse

\* A signal or a crash ends the daemon in pf_handle; the message is gone from
\* the queue.  A later daemon opens the engine again.
Die ==
  /\ pc \in {"add", "resolve", "kill"}
  /\ pc' = "closed"
  /\ request' = NoRequest
  /\ unfinished' = (unfinished \cup {InHand}) \cap table
  /\ UNCHANGED <<table, states>>
-----------------------------------------------------------------------------
\* A client connects unless it is blocked; an existing state needs no rule.
Connect(h) ==
  /\ h \notin states
  /\ ~Blocked(h)
  /\ states' = states \cup {h}
  /\ UNCHANGED <<pc, request, table, unfinished>>

\* A connection ends.
Disconnect(h) ==
  /\ h \in states
  /\ states' = states \ {h}
  /\ UNCHANGED <<pc, request, table, unfinished>>

\* The administrator takes a network out of the table.
Unban(t) ==
  /\ t \in table
  /\ table' = table \ {t}
  /\ unfinished' = unfinished \ {t}
  /\ UNCHANGED <<pc, request, states>>

Next ==
  \/ Open \/ Close
  \/ \E r \in Request : Handle(r)
  \/ AddAddress \/ Resolve \/ KillStates \/ Die
  \/ \E h \in Host : Connect(h) \/ Disconnect(h)
  \/ \E t \in table : Unban(t)

Spec == Init /\ [][Next]_vars
-----------------------------------------------------------------------------
\* A network in the table has no live states, unless pf_handle has it in hand,
\* told that it failed, or never came to its end: a client cannot slip in
\* between the two ioctls and keep its connection, and success means that the
\* ban is in force.
BanInForce ==
  \A t \in table \ unfinished :
    request = NoRequest \/ t # InHand => \A h \in states : ~Contains(t, h)

\* pf_handle kills the states of the network it was asked to ban and no other,
\* for every prefix of both families.
OnlyBannedKilled ==
  [][pc = "kill" /\ states' # states /\ pc' = "idle" =>
       states \ states' = {h \in states : Contains(InHand, h)}]_vars
=============================================================================
