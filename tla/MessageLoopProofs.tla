-------------------------- MODULE MessageLoopProofs --------------------------
(***************************************************************************)
(* Theorems about module MessageLoop, for any prefixes, any ULONG_MAX an   *)
(* IPv6 prefix fits in, and any number of messages.                        *)
(*                                                                         *)
(* What parse_addr knows grows step by step (Parsed), and an error stays   *)
(* in the slot past its message only when it stopped nothing (Slot).       *)
(***************************************************************************)
EXTENDS MessageLoop, TLAPS

USE MessageLoopAssumption

\* What was established about the message at each step of parse_addr.
Parsed ==
  /\ pc \in {"number", "resolve", "convert", "plain", "handle"} => n \in 1..MaxMsgs
  /\ pc = "plain" => msg.number = NoPrefix
  /\ pc \in {"number", "resolve", "convert"} => msg.number \in Number /\ msg.number # NoPrefix
  /\ pc \in {"resolve", "convert"} =>
       /\ prefix = msg.number.value
       /\ Refused(msg.number) => error = [of |-> n, kind |-> "number"]
  /\ pc = "convert" => msg.host # "bad" /\ prefix <= Width(FamilyOf(msg.host))

\* An error that is in the slot while nothing has failed.
Harmless(e) == Unreported(e) \/ (e.kind = "number" /\ e.of = n)

\* What the error slot can hold at each step.
Slot ==
  /\ pc \in {"receive", "number", "plain"} /\ error # NoError => Unreported(error)
  /\ pc \in {"resolve", "convert", "handle"} /\ error # NoError => Harmless(error)
  /\ pc = "aborted" => Harmless(error)

IInv == TypeOK /\ Parsed /\ HandlesMessage /\ Slot

\* The conjuncts of the invariant hold initially.
LEMMA Start == Init => IInv
<1>1. SUFFICES ASSUME Init PROVE IInv
  OBVIOUS
<1>2. TypeOK
  BY <1>1 DEF Init, TypeOK, Message, Host, Error, Addr
<1>3. Parsed /\ HandlesMessage /\ Slot
  BY <1>1 DEF Init, Parsed, HandlesMessage, Slot, Unreported
<1>4. QED
  BY <1>2, <1>3 DEF IInv

\* _error_set leaves an error of the message in the slot, or the slot as it was.
LEMMA ErrorSetTyped ==
  ASSUME TypeOK, NEW k \in 1..MaxMsgs,
         NEW kind \in {"receive", "number", "address", "engine"}, NEW to,
         ErrorSet(k, kind, to)
  PROVE  /\ error' \in Error \cup {NoError}
         /\ \/ error' = [of |-> k, kind |-> kind] /\ pc' = to
            \/ error' = error /\ error # NoError /\ pc' = "aborted"
  BY DEF ErrorSet, TypeOK, Error

\* queue_receive.
LEMMA ReceiveStep == IInv /\ Receive => IInv'
<1>1. SUFFICES ASSUME IInv, Receive PROVE IInv'
  OBVIOUS
<1>2. /\ pc = "receive" /\ n' = n + 1 /\ n' \in 1..MaxMsgs
      /\ UNCHANGED <<prefix, handled>>
  BY <1>1 DEF Receive, IInv, TypeOK
<1>3. ASSUME NEW x \in Message, msg' = x,
             pc' = IF x.number = NoPrefix THEN "plain" ELSE "number",
             addr' = NoAddr, UNCHANGED error
      PROVE  IInv'
  <2>1. TypeOK'
    BY <1>1, <1>2, <1>3 DEF IInv, TypeOK, Addr
  <2>2. Parsed'
    BY <1>2, <1>3 DEF Parsed, Message
  <2>3. HandlesMessage' /\ Slot'
    BY <1>1, <1>2, <1>3 DEF IInv, HandlesMessage, Slot, Unreported
  <2>4. QED
    BY <2>1, <2>2, <2>3 DEF IInv
<1>4. ASSUME ErrorSet(n + 1, "receive", "log"), UNCHANGED <<msg, addr>>
      PROVE  IInv'
  <2>1. /\ error' \in Error \cup {NoError}
        /\ \/ pc' = "log"
           \/ error' = error /\ error # NoError /\ pc' = "aborted"
    BY <1>1, <1>2, <1>4, ErrorSetTyped DEF IInv, TypeOK
  <2>2. TypeOK'
    BY <1>1, <1>2, <1>4, <2>1 DEF IInv, TypeOK
  <2>3. Parsed' /\ HandlesMessage'
    BY <2>1 DEF Parsed, HandlesMessage
  <2>4. Slot'
    BY <1>1, <1>2, <2>1 DEF IInv, Slot, Unreported, Harmless
  <2>5. QED
    BY <2>2, <2>3, <2>4 DEF IInv
<1>5. QED
  BY <1>1, <1>3, <1>4 DEF Receive

\* parse_ulong, whose verdict is not looked at.
LEMMA ParseNumberStep == IInv /\ ParseNumber => IInv'
<1>1. SUFFICES ASSUME IInv, ParseNumber PROVE IInv'
  OBVIOUS
<1>2. /\ pc = "number" /\ prefix' = msg.number.value /\ n \in 1..MaxMsgs
      /\ UNCHANGED <<n, msg, addr, handled>>
      /\ msg.number \in Number /\ msg.number # NoPrefix
  BY <1>1 DEF ParseNumber, IInv, Parsed
<1>3. /\ error' \in Error \cup {NoError}
      /\ \/ error' = [of |-> n, kind |-> "number"] /\ pc' = "resolve"
         \/ ~Refused(msg.number) /\ error' = error /\ pc' = "resolve"
         \/ error' = error /\ error # NoError /\ pc' = "aborted"
  <2>1. CASE Refused(msg.number)
    BY <1>1, <1>2, <2>1, ErrorSetTyped DEF ParseNumber, IInv
  <2>2. CASE ~Refused(msg.number)
    BY <1>1, <2>2 DEF ParseNumber, IInv, TypeOK
  <2>3. QED
    BY <2>1, <2>2
<1>4. msg.number.value \in 0..ULongMax
  <2>1. CASE msg.number \in [form : {"digits", "trailing"}, value : Prefixes]
    BY <2>1
  <2>2. CASE msg.number = [form |-> "none", value |-> 0]
    BY <2>2
  <2>3. CASE msg.number = [form |-> "overflow", value |-> ULongMax]
    BY <2>3
  <2>4. QED
    BY <1>2, <2>1, <2>2, <2>3, Zenon DEF Number
<1>5. TypeOK'
  BY <1>1, <1>2, <1>3, <1>4 DEF IInv, TypeOK
<1>6. Parsed' /\ HandlesMessage'
  BY <1>2, <1>3 DEF Parsed, HandlesMessage, Refused
<1>7. Slot'
  BY <1>1, <1>2, <1>3 DEF IInv, Slot, Unreported, Harmless
<1>8. QED
  BY <1>5, <1>6, <1>7 DEF IInv

\* getaddrinfo and the length of the prefix.
LEMMA ResolveHostStep == IInv /\ ResolveHost => IInv'
<1>1. SUFFICES ASSUME IInv, ResolveHost PROVE IInv'
  OBVIOUS
<1>2. pc = "resolve" /\ n \in 1..MaxMsgs /\ UNCHANGED <<n, msg, prefix, addr, handled>>
  BY <1>1 DEF ResolveHost, IInv, Parsed
<1>3. CASE msg.host = "bad" \/ prefix > Width(FamilyOf(msg.host))
  <2>1. /\ error' \in Error \cup {NoError}
        /\ \/ pc' = "log"
           \/ error' = error /\ error # NoError /\ pc' = "aborted"
    BY <1>1, <1>2, <1>3, ErrorSetTyped DEF ResolveHost, IInv
  <2>2. TypeOK'
    BY <1>1, <1>2, <2>1 DEF IInv, TypeOK
  <2>3. Parsed' /\ HandlesMessage'
    BY <2>1 DEF Parsed, HandlesMessage
  <2>4. Slot'
    BY <1>1, <1>2, <2>1 DEF IInv, Slot, Unreported, Harmless
  <2>5. QED
    BY <2>2, <2>3, <2>4 DEF IInv
<1>4. CASE ~(msg.host = "bad" \/ prefix > Width(FamilyOf(msg.host)))
  <2>1. pc' = "convert" /\ UNCHANGED error
    BY <1>1, <1>4 DEF ResolveHost
  <2>2. prefix <= Width(FamilyOf(msg.host))
    BY <1>1, <1>4 DEF IInv, TypeOK, Width
  <2>3. TypeOK' /\ HandlesMessage'
    BY <1>1, <1>2, <2>1 DEF IInv, TypeOK, HandlesMessage
  <2>4. Parsed'
    BY <1>1, <1>2, <1>4, <2>1, <2>2 DEF IInv, Parsed, Refused
  <2>5. Slot'
    BY <1>1, <1>2, <2>1 DEF IInv, Slot, Unreported, Harmless
  <2>6. QED
    BY <2>3, <2>4, <2>5 DEF IInv
<1>5. QED
  BY <1>3, <1>4

\* inet_pton, on an address with a prefix.
LEMMA ConvertStep == IInv /\ Convert => IInv'
<1>1. SUFFICES ASSUME IInv, Convert PROVE IInv'
  OBVIOUS
<1>2. pc = "convert" /\ n \in 1..MaxMsgs /\ UNCHANGED <<n, msg, prefix, handled>>
  BY <1>1 DEF Convert, IInv, Parsed
<1>3. CASE msg.host = "loose"
  <2>1. /\ error' \in Error \cup {NoError} /\ addr' = addr
        /\ \/ pc' = "log"
           \/ error' = error /\ error # NoError /\ pc' = "aborted"
    BY <1>1, <1>2, <1>3, ErrorSetTyped DEF Convert, IInv
  <2>2. TypeOK'
    BY <1>1, <1>2, <2>1 DEF IInv, TypeOK
  <2>3. Parsed' /\ HandlesMessage'
    BY <2>1 DEF Parsed, HandlesMessage
  <2>4. Slot'
    BY <1>1, <1>2, <2>1 DEF IInv, Slot, Unreported, Harmless
  <2>5. QED
    BY <2>2, <2>3, <2>4 DEF IInv
<1>4. CASE msg.host # "loose"
  <2>1. /\ addr' = [family |-> msg.host, netmask |-> prefix % 256]
        /\ pc' = "handle" /\ UNCHANGED error
    BY <1>1, <1>4 DEF Convert
  <2>2. msg.host \in {"v4", "v6"}
    BY <1>1, <1>2, <1>4 DEF IInv, TypeOK, Parsed, Message, Host
  <2>3. prefix <= Width(msg.host) /\ prefix % 256 = prefix /\ prefix \in 0..255
    BY <1>1, <1>2, <2>2 DEF IInv, TypeOK, Parsed, Width, FamilyOf
  <2>4. addr' \in Addr
    BY <2>1, <2>2, <2>3 DEF Addr
  <2>5. TypeOK'
    BY <1>1, <1>2, <2>1, <2>4 DEF IInv, TypeOK
  <2>6. HandlesMessage'
    BY <1>1, <1>2, <2>1, <2>2, <2>3 DEF IInv, Parsed, HandlesMessage, Refused
  <2>7. Parsed'
    BY <1>2, <2>1 DEF Parsed
  <2>8. Slot'
    BY <1>1, <1>2, <2>1 DEF IInv, Slot, Unreported, Harmless
  <2>9. QED
    BY <2>5, <2>6, <2>7, <2>8 DEF IInv
<1>5. QED
  BY <1>3, <1>4

\* inet_pton, on an address without a prefix.
LEMMA ConvertPlainStep == IInv /\ ConvertPlain => IInv'
<1>1. SUFFICES ASSUME IInv, ConvertPlain PROVE IInv'
  OBVIOUS
<1>2. /\ pc = "plain" /\ n \in 1..MaxMsgs /\ msg.number = NoPrefix
      /\ UNCHANGED <<n, msg, prefix, handled>>
  BY <1>1 DEF ConvertPlain, IInv, Parsed
<1>3. CASE msg.host \notin {"v4", "v6"}
  <2>1. /\ error' \in Error \cup {NoError} /\ addr' = addr
        /\ \/ pc' = "log"
           \/ error' = error /\ error # NoError /\ pc' = "aborted"
    BY <1>1, <1>2, <1>3, ErrorSetTyped DEF ConvertPlain, IInv
  <2>2. TypeOK'
    BY <1>1, <1>2, <2>1 DEF IInv, TypeOK
  <2>3. Parsed' /\ HandlesMessage'
    BY <2>1 DEF Parsed, HandlesMessage
  <2>4. Slot'
    BY <1>1, <1>2, <2>1 DEF IInv, Slot, Unreported, Harmless
  <2>5. QED
    BY <2>2, <2>3, <2>4 DEF IInv
<1>4. CASE msg.host \in {"v4", "v6"}
  <2>1. /\ addr' = [family |-> msg.host, netmask |-> IF msg.host = "v4" THEN 32 ELSE 64]
        /\ pc' = "handle" /\ UNCHANGED error
    BY <1>1, <1>4 DEF ConvertPlain
  <2>2. addr' \in Addr
    BY <1>4, <2>1 DEF Addr
  <2>3. TypeOK'
    BY <1>1, <1>2, <2>1, <2>2 DEF IInv, TypeOK
  <2>4. HandlesMessage' /\ Parsed'
    BY <1>2, <1>4, <2>1 DEF HandlesMessage, Parsed, Width
  <2>5. Slot'
    BY <1>1, <1>2, <2>1 DEF IInv, Slot, Unreported, Harmless
  <2>6. QED
    BY <2>3, <2>4, <2>5 DEF IInv
<1>5. QED
  BY <1>3, <1>4

\* engine->handle.
LEMMA HandleStep == IInv /\ Handle => IInv'
<1>1. SUFFICES ASSUME IInv, Handle PROVE IInv'
  OBVIOUS
<1>2. /\ pc = "handle" /\ n \in 1..MaxMsgs /\ handled' = handled \cup {n}
      /\ UNCHANGED <<n, msg, prefix, addr>>
  BY <1>1 DEF Handle, IInv, Parsed
<1>3. /\ error' \in Error \cup {NoError}
      /\ \/ pc' = "log"
         \/ error' = error /\ pc' = "receive"
         \/ error' = error /\ error # NoError /\ pc' = "aborted"
  <2>1. CASE ErrorSet(n, "engine", "log")
    BY <1>1, <1>2, <2>1, ErrorSetTyped DEF IInv
  <2>2. CASE pc' \in {"receive", "log"} /\ UNCHANGED error
    BY <1>1, <2>2 DEF IInv, TypeOK
  <2>3. QED
    BY <1>1, <2>1, <2>2 DEF Handle
<1>4. TypeOK'
  BY <1>1, <1>2, <1>3 DEF IInv, TypeOK
<1>5. Parsed' /\ HandlesMessage'
  BY <1>3 DEF Parsed, HandlesMessage
<1>6. Slot'
  BY <1>1, <1>2, <1>3 DEF IInv, Slot, Unreported, Harmless
<1>7. QED
  BY <1>4, <1>5, <1>6 DEF IInv

\* The log and error_free.
LEMMA LogStep == IInv /\ Log => IInv'
<1>1. SUFFICES ASSUME IInv, Log PROVE IInv'
  OBVIOUS
<1>2. TypeOK'
  BY <1>1 DEF IInv, Log, TypeOK
<1>3. Parsed' /\ HandlesMessage' /\ Slot'
  BY <1>1 DEF Log, Parsed, HandlesMessage, Slot
<1>4. QED
  BY <1>2, <1>3 DEF IInv
-----------------------------------------------------------------------------
\* Every step of the loop and of parse_addr keeps the invariant.
THEOREM Invariance == Spec => []IInv
<1>1. IInv /\ UNCHANGED vars => IInv'
  BY DEF vars, IInv, TypeOK, Parsed, HandlesMessage, Refused, Slot, Unreported, Harmless
<1>2. IInv /\ [Next]_vars => IInv'
  BY <1>1, ReceiveStep, ParseNumberStep, ResolveHostStep, ConvertStep,
     ConvertPlainStep, HandleStep, LogStep DEF Next
<1>3. QED
  BY Start, <1>2, PTL DEF Spec

\* The types of the loop: the prefix keeps to unsigned long, the netmask of an
\* address to its uint8_t, and the slot to the errors of the code.
THEOREM TypeCorrect == Spec => []TypeOK
<1>1. IInv => TypeOK
  BY DEF IInv
<1>2. QED
  BY <1>1, Invariance, PTL

\* The engine is given what the message says, whatever came before it.
THEOREM MessageHandled == Spec => []HandlesMessage
<1>1. IInv => HandlesMessage
  BY DEF IInv
<1>2. QED
  BY <1>1, Invariance, PTL

\* The slot is in use between messages only for an error that stopped nothing.
THEOREM SlotEmptied == Spec => []SlotCause
<1>1. IInv => SlotCause
  BY DEF IInv, Slot, SlotCause
<1>2. QED
  BY <1>1, Invariance, PTL

\* _error_set aborts the daemon for such an error only.
THEOREM AbortsCaused == Spec => []AbortCause
<1>1. IInv => AbortCause
  BY DEF IInv, Slot, AbortCause, Harmless
<1>2. QED
  BY <1>1, Invariance, PTL
=============================================================================
