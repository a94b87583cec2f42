------------------------------ MODULE PfProofs ------------------------------
(***************************************************************************)
(* Theorems about module PfEngine, for addresses of any width, any hosts   *)
(* and any size of the table.                                              *)
(*                                                                         *)
(* The masks that pf_handle builds select the bits of the prefix, so that  *)
(* the ioctl matches the hosts of the network and no other.  From this it  *)
(* follows that a ban that succeeded stays in force: a blocked host cannot *)
(* connect, and the states it had are gone.                                *)
(***************************************************************************)
EXTENDS PfEngine, FiniteSetTheorems, TLAPS
-----------------------------------------------------------------------------
(* Arithmetic.                                                             *)

\* Division with remainder.
LEMMA DivMod ==
  ASSUME NEW n \in Nat, NEW d \in Nat \ {0}
  PROVE  /\ n \div d \in Nat /\ n % d \in 0..d-1
         /\ n = (n \div d) * d + (n % d)
OBVIOUS

\* A multiple of d below another one is below it by d at least.
LEMMA Multiples ==
  ASSUME NEW p \in Nat, NEW q \in Nat, NEW d \in Nat, p < q
  PROVE  p * d + d <= q * d
<1>1. PICK e \in Nat : q = p + 1 + e
  <2>1. q - p - 1 \in Nat /\ q = p + 1 + (q - p - 1)
    OBVIOUS
  <2>2. QED
    BY <2>1, Zenon
<1>2. q * d = p * d + d + e * d
  BY <1>1
<1>3. e * d \in Nat /\ p * d \in Nat
  OBVIOUS
<1>4. QED
  BY <1>2, <1>3

\* Numbers in base d are ordered first by their multiple of d, then by the rest.
LEMMA BaseOrder ==
  ASSUME NEW d \in Nat \ {0}, NEW p \in Nat, NEW q \in Nat,
         NEW s \in 0..d-1, NEW r \in 0..d-1
  PROVE  p * d + s < q * d + r <=> p < q \/ (p = q /\ s < r)
<1>1. p * d \in Nat /\ q * d \in Nat
  OBVIOUS
<1>2. CASE p < q
  BY <1>1, <1>2, Multiples
<1>3. CASE q < p
  <2>1. q * d + d <= p * d
    BY <1>3, Multiples
  <2>2. QED
    BY <1>1, <1>3, <2>1
<1>4. CASE p = q
  BY <1>1, <1>4
<1>5. QED
  BY <1>2, <1>3, <1>4
-----------------------------------------------------------------------------
(* The masks.                                                              *)

\* 0xffffffffff << (32 - n), cut to an address, has the bits of the prefix.
LEMMA MaskV4Bits ==
  ASSUME NEW n \in Nat, NEW k \in Position("v4")
  PROVE  k \in MaskV4(n) <=> Place("v4", k) < n
<1>1. V4Bits \in Nat /\ k \in 0..V4Bits-1
  BY PfAssumption DEF Position
<1>2. CASE n < V4Bits
  <2>1. ASSUME V4Bits - n <= k PROVE k \in {j + (V4Bits - n) : j \in 0..V4Bits+7}
    <3>1. k - (V4Bits - n) \in 0..V4Bits+7 /\ k = (k - (V4Bits - n)) + (V4Bits - n)
      BY <1>1, <1>2, <2>1
    <3>2. QED
      BY <3>1
  <2>2. ASSUME k \in {j + (V4Bits - n) : j \in 0..V4Bits+7} PROVE V4Bits - n <= k
    BY <1>1, <1>2, <2>2
  <2>3. QED
    BY <1>1, <1>2, <2>1, <2>2 DEF MaskV4, Place
<1>3. CASE n >= V4Bits
  BY <1>1, <1>3 DEF MaskV4, Place
<1>4. QED
  BY <1>1, <1>2, <1>3

\* So have q bytes of ones, and 0xff00 >> r in the byte after them.
LEMMA MaskV6Bits ==
  ASSUME NEW n \in Nat, NEW k \in Position("v6")
  PROVE  k \in MaskV6(n) <=> Place("v6", k) < n
<1>1. V6Bytes \in Nat /\ ByteBits \in Nat \ {0}
  BY PfAssumption
<1>2. PICK x \in 0..V6Bytes-1, y \in 0..ByteBits-1 : k = <<x, y>>
  BY DEF Position
<1>3. Place("v6", k) = x * ByteBits + (ByteBits - 1 - y)
  BY <1>2 DEF Place
<1>4. PICK q \in Nat, r \in 0..ByteBits-1 :
        q = n \div ByteBits /\ r = n % ByteBits /\ n = q * ByteBits + r
  BY <1>1, DivMod, Zenon
<1>5. ByteBits - 1 - y \in 0..ByteBits-1 /\ x \in Nat
  BY <1>1
<1>6. Place("v6", k) < n <=> x < q \/ (x = q /\ ByteBits - 1 - y < r)
  BY <1>1, <1>3, <1>4, <1>5, BaseOrder
<1>7. CASE n < V6Bytes * ByteBits
  <2>1. y \in {j - r : j \in ByteBits..2*ByteBits-1} <=> ByteBits - 1 - y < r
    <3>1. ASSUME ByteBits - 1 - y < r PROVE y \in {j - r : j \in ByteBits..2*ByteBits-1}
      <4>1. y + r \in ByteBits..2*ByteBits-1 /\ y = (y + r) - r
        BY <1>1, <1>4, <3>1
      <4>2. QED
        BY <4>1
    <3>2. ASSUME y \in {j - r : j \in ByteBits..2*ByteBits-1} PROVE ByteBits - 1 - y < r
      BY <1>1, <1>4, <3>2
    <3>3. QED
      BY <3>1, <3>2
  <2>2. k \in {l \in Position("v6") : l[1] < q} <=> x < q
    BY <1>2
  <2>3. k \in {<<q, l>> : l \in {j - r : j \in ByteBits..2*ByteBits-1} \cap (0..ByteBits-1)}
          <=> x = q /\ y \in {j - r : j \in ByteBits..2*ByteBits-1}
    BY <1>2
  <2>4. r = 0 => ~(ByteBits - 1 - y < r)
    BY <1>1
  <2>5. r > 0 \/ r = 0
    BY <1>1, <1>4
  <2>6. QED
    BY <1>4, <1>6, <1>7, <2>1, <2>2, <2>3, <2>4, <2>5 DEF MaskV6
<1>8. CASE ~(n < V6Bytes * ByteBits)
  <2>1. x * ByteBits + ByteBits <= V6Bytes * ByteBits
    BY <1>1, <1>5, Multiples
  <2>2. Place("v6", k) < n
    <3>1. x * ByteBits \in Nat /\ V6Bytes * ByteBits \in Nat
      BY <1>1, <1>5
    <3>2. QED
      BY <1>1, <1>3, <1>5, <1>8, <2>1, <3>1
  <2>3. QED
    BY <1>8, <2>2 DEF MaskV6
<1>9. QED
  BY <1>7, <1>8
-----------------------------------------------------------------------------
(* The hosts of a network.                                                 *)

\* Under the mask of a prefix hosts are equal if they are in the same network.
LEMMA MatchedContained ==
  ASSUME NEW r \in Request
  PROVE  Matched(r) = {h \in Host : Contains(NetOf(r.host, r.prefix), h)}
<1> DEFINE mask == IF r.host.family = "v4" THEN MaskV4(r.prefix) ELSE MaskV6(r.prefix)
           Head(h) == {k \in h.bits : Place(h.family, k) < r.prefix}
<1>1. r.host \in Host /\ r.prefix \in Nat
  BY PfAssumption DEF Request
<1>2. ASSUME NEW h \in Host, h.family = r.host.family PROVE h.bits \cap mask = Head(h)
  <2>1. h.family \in {"v4", "v6"} /\ h.bits \subseteq Position(h.family)
    BY PfAssumption
  <2>2. ASSUME NEW k \in h.bits PROVE k \in mask <=> Place(h.family, k) < r.prefix
    <3>1. CASE h.family = "v4"
      BY <1>1, <1>2, <2>1, <3>1, MaskV4Bits
    <3>2. CASE h.family = "v6"
      BY <1>1, <1>2, <2>1, <3>2, MaskV6Bits
    <3>3. QED
      BY <2>1, <3>1, <3>2
  <2>3. QED
    BY <2>2
<1>3. ASSUME NEW h \in Host
      PROVE  Contains(NetOf(r.host, r.prefix), h)
               <=> h.family = r.host.family /\ Head(h) = Head(r.host)
  BY DEF Contains, NetOf
<1>4. ASSUME NEW h \in Host
      PROVE  h \in Matched(r) <=> Contains(NetOf(r.host, r.prefix), h)
  <2>1. h \in Matched(r)
          <=> h.family = r.host.family /\ h.bits \cap mask = r.host.bits \cap mask
    BY DEF Matched
  <2>2. r.host.bits \cap mask = Head(r.host)
    BY <1>1, <1>2
  <2>3. h.family = r.host.family => h.bits \cap mask = Head(h)
    BY <1>2
  <2>4. QED
    BY <1>3, <2>1, <2>2, <2>3
<1>5. Matched(r) \subseteq Host
  BY DEF Matched
<1>6. QED
  BY <1>4, <1>5
-----------------------------------------------------------------------------
(* The invariant.                                                          *)

\* pf_handle has a request in hand from its start to its end; states are those of
\* hosts.
Busy ==
  /\ \/ pc \in {"closed", "idle"} /\ request = NoRequest
     \/ pc \in {"add", "resolve", "kill"} /\ request \in Request
  /\ states \subseteq Host

Inv == Busy /\ BanInForce

\* Busy.
LEMMA BusyStep ==
  ASSUME Busy, [Next]_vars
  PROVE  Busy'
<1> USE RequestAssumption DEF Busy, Refuse
<1>1. CASE Open \/ Close \/ Die
  BY <1>1 DEF Open, Close, Die
<1>2. ASSUME NEW r \in Request, Handle(r) PROVE Busy'
  BY <1>2 DEF Handle
<1>3. CASE AddAddress
  BY <1>3 DEF AddAddress
<1>4. CASE Resolve
  BY <1>4 DEF Resolve
<1>5. CASE KillStates
  BY <1>5 DEF KillStates
<1>6. ASSUME NEW h \in Host, Connect(h) \/ Disconnect(h) PROVE Busy'
  BY <1>6 DEF Connect, Disconnect
<1>7. CASE UNCHANGED vars
  BY <1>7 DEF vars
<1>8. ASSUME NEW t \in table, Unban(t) PROVE Busy'
  BY <1>8 DEF Unban
<1>9. QED
  BY <1>1, <1>2, <1>3, <1>4, <1>5, <1>6, <1>7, <1>8, Zenon DEF Next

\* When pf_handle gives up, the network in hand is noted if it is in the table.
LEMMA GiveUp ==
  ASSUME Busy, BanInForce, pc \in {"add", "resolve", "kill"},
         unfinished' = (unfinished \cup {InHand}) \cap table, UNCHANGED <<table, states>>
  PROVE  BanInForce'
<1> SUFFICES ASSUME NEW t \in table' \ unfinished', NEW h \in states'
            PROVE  ~Contains(t, h)
  BY DEF BanInForce
<1>1. t \in table \ unfinished /\ t # InHand /\ h \in states
  OBVIOUS
<1>2. QED
  BY <1>1 DEF BanInForce

\* BanInForce.
LEMMA BanInForceStep ==
  ASSUME Busy, BanInForce, [Next]_vars
  PROVE  BanInForce'
<1>1. CASE Open \/ Close \/ UNCHANGED vars
  BY <1>1, Zenon DEF Open, Close, vars, BanInForce, InHand
<1>2. ASSUME NEW r \in Request, Handle(r) PROVE BanInForce'
  <2>1. request = NoRequest
    BY <1>2 DEF Handle, Busy
  <2>2. QED
    BY <1>2, <2>1, Zenon DEF Handle, BanInForce
<1>3. CASE Refuse /\ pc \in {"add", "resolve", "kill"}
  BY <1>3, GiveUp DEF Refuse
<1>4. CASE AddAddress
  <2>1. CASE table' = table \cup {InHand} /\ UNCHANGED <<request, states, unfinished>>
    <3>1. request # NoRequest
      BY <1>4, RequestAssumption DEF AddAddress, Busy
    <3>2. InHand' = InHand
      BY <2>1, Zenon DEF InHand
    <3>3. QED
      BY <2>1, <3>1, <3>2 DEF BanInForce
  <2>2. QED
    BY <1>3, <1>4, <2>1 DEF AddAddress
<1>5. CASE Resolve
  BY <1>3, <1>5 DEF Resolve, BanInForce, InHand
<1>6. CASE KillStates
  <2>1. CASE /\ states' = states \ Matched(request) /\ UNCHANGED table
             /\ unfinished' = unfinished \ {InHand}
    <3>1. request \in Request
      BY <1>6 DEF KillStates, Busy
    <3>2. \A h \in states' : ~Contains(InHand, h)
      BY <2>1, <3>1, MatchedContained DEF InHand, Busy
    <3>3. \A t \in table \ unfinished : t # InHand => \A h \in states' : ~Contains(t, h)
      BY <2>1 DEF BanInForce
    <3>4. QED
      BY <2>1, <3>2, <3>3, Zenon DEF BanInForce
  <2>2. QED
    BY <1>3, <1>6, <2>1 DEF KillStates
<1>7. CASE Die
  BY <1>7, GiveUp DEF Die
<1>8. ASSUME NEW h \in Host, Connect(h) PROVE BanInForce'
  BY <1>8 DEF Connect, Blocked, BanInForce, InHand
<1>9. ASSUME NEW h \in Host, Disconnect(h) PROVE BanInForce'
  BY <1>9 DEF Disconnect, BanInForce, InHand
<1>10. ASSUME NEW t \in table, Unban(t) PROVE BanInForce'
  BY <1>10 DEF Unban, BanInForce, InHand
<1>11. QED
  BY <1>1, <1>2, <1>4, <1>5, <1>6, <1>7, <1>8, <1>9, <1>10, Zenon DEF Next
-----------------------------------------------------------------------------
(* The theorems.                                                           *)

\* The invariant holds when the daemon starts and at every step.
THEOREM Invariance == Spec => []Inv
<1>1. Init => Inv
  BY DEF Init, Inv, Busy, BanInForce
<1>2. Inv /\ [Next]_vars => Inv'
  BY BusyStep, BanInForceStep DEF Inv
<1>3. QED
  BY <1>1, <1>2, PTL DEF Spec

\* A network that pf_handle banned with success has no live state, whoever
\* connects between its two ioctls, for any addresses and prefixes.
THEOREM BansInForce == Spec => []BanInForce
<1>1. Inv => BanInForce
  BY DEF Inv
<1>2. QED
  BY <1>1, Invariance, PTL

\* pf_handle kills the states of the network it bans and no other: its masks are
\* right for every width of an address and every prefix.
THEOREM KillsExact == Spec => OnlyBannedKilled
<1>1. Inv /\ [Next]_vars =>
        [pc = "kill" /\ states' # states /\ pc' = "idle" =>
           states \ states' = {h \in states : Contains(InHand, h)}]_vars
  <2> SUFFICES ASSUME Inv, Next, pc = "kill", states' # states, pc' = "idle"
              PROVE  states \ states' = {h \in states : Contains(InHand, h)}
    OBVIOUS
  <2>1. states' = states \ Matched(request)
    BY DEF Next, Open, Close, Handle, AddAddress, Resolve, KillStates, Refuse, Die,
           Connect, Disconnect, Unban
  <2>2. request \in Request /\ states \subseteq Host
    BY DEF Inv, Busy
  <2>3. QED
    BY <2>1, <2>2, MatchedContained DEF InHand
<1>2. QED
  BY <1>1, Invariance, PTL DEF Spec, OnlyBannedKilled

\* The variables keep their types: the table lists networks of hosts, cleared by
\* parse_addr, and never more of them than it has room for.
THEOREM TypeCorrect == Spec => []TypeOK
<1> DEFINE Types == Busy /\ TypeOK /\ IsFiniteSet(table)
<1>1. Init => Types
  <2> SUFFICES ASSUME Init PROVE Types
    OBVIOUS
  <2>1. IsFiniteSet(table) /\ Cardinality(table) = 0
    BY FS_EmptySet DEF Init
  <2>2. QED
    BY <2>1, PfAssumption DEF Init, Busy, TypeOK
<1>2. Types /\ [Next]_vars => Types'
  <2> SUFFICES ASSUME Types, [Next]_vars PROVE Types'
    OBVIOUS
  <2>1. Busy'
    BY BusyStep
  <2>2. /\ pc \in {"closed", "idle", "add", "resolve", "kill"}
        /\ request \in Request \cup {NoRequest}
        /\ table \subseteq Net /\ Cardinality(table) <= TableLimit
        /\ states \subseteq Host /\ unfinished \subseteq table /\ IsFiniteSet(table)
    BY DEF TypeOK
  <2>3. CASE table' = table /\ unfinished' \subseteq table
    BY <2>1, <2>2, <2>3 DEF Busy, TypeOK
  <2>4. CASE /\ AddAddress /\ table' = table \cup {InHand}
             /\ Cardinality(table') <= TableLimit /\ UNCHANGED unfinished
    <3>1. InHand \in Net
      BY <2>4 DEF AddAddress, Busy, InHand, Net, Request
    <3>2. IsFiniteSet(table')
      BY <2>2, <2>4, FS_AddElement
    <3>3. QED
      BY <2>1, <2>2, <2>4, <3>1, <3>2 DEF Busy, TypeOK
  <2>5. ASSUME NEW t \in table, Unban(t) PROVE Types'
    <3>1. table' = table \ {t} /\ unfinished' = unfinished \ {t}
      BY <2>5 DEF Unban
    <3>2. IsFiniteSet(table') /\ Cardinality(table') = Cardinality(table) - 1
      BY <2>2, <3>1, FS_RemoveElement
    <3>3. Cardinality(table) \in Nat
      BY <2>2, FS_CardinalityType
    <3>4. Cardinality(table') <= TableLimit
      BY <2>2, <3>2, <3>3, PfAssumption
    <3>5. QED
      BY <2>1, <2>2, <3>1, <3>2, <3>4 DEF Busy, TypeOK
  <2>6. CASE Open \/ Close \/ Resolve \/ KillStates \/ Die \/ UNCHANGED vars
    BY <2>2, <2>3, <2>6 DEF Open, Close, Resolve, KillStates, Refuse, Die, vars
  <2>7. CASE AddAddress
    BY <2>2, <2>3, <2>4, <2>7 DEF AddAddress, Refuse
  <2>8. CASE \E r \in Request : Handle(r)
    BY <2>2, <2>3, <2>8 DEF Handle
  <2>9. CASE \E h \in Host : Connect(h) \/ Disconnect(h)
    BY <2>2, <2>3, <2>9 DEF Connect, Disconnect
  <2>10. QED
    BY <2>5, <2>6, <2>7, <2>8, <2>9, Zenon DEF Next
<1>3. QED
  BY <1>1, <1>2, PTL DEF Spec
=============================================================================
