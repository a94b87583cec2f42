---------------------------- MODULE BanipdProofs ----------------------------
(***************************************************************************)
(* The theorems about module Banipd, for any number of daemons, clients    *)
(* and messages, and any value of the other constants: the invariant and   *)
(* what follows from it, and at the end the refinement of BanService.      *)
(***************************************************************************)
EXTENDS BanipdLifecycle

USE QueueAssumption, BanipdAssumption DEF Daemon, Client, Process
-----------------------------------------------------------------------------
(* The order of messages.                                                  *)

\* mq_receive moves the first message of a queue to the end of those taken.
LEMMA TakeHead ==
  ASSUME NEW S, NEW a \in Seq(S), NEW m \in Seq(S), m # <<>>
  PROVE  (a \o <<Head(m)>>) \o Tail(m) = (a \o <<>>) \o m
<1>1. Head(m) \in S /\ Tail(m) \in Seq(S) /\ <<Head(m)>> \in Seq(S)
  BY HeadTailProperties
<1>2. <<Head(m)>> \o Tail(m) = m
  BY <1>1
<1>3. (a \o <<Head(m)>>) \o Tail(m) = a \o (<<Head(m)>> \o Tail(m))
  BY <1>1, ConcatAssociative
<1>4. QED
  BY <1>2, <1>3, ConcatEmptySeq

\* mq_send puts a message after all that were sent before.
LEMMA AddLast ==
  ASSUME NEW S, NEW a \in Seq(S), NEW m \in Seq(S), NEW x \in S
  PROVE  a \o Append(m, x) = (a \o m) \o <<x>>
<1>1. <<x>> \in Seq(S) /\ Append(m, x) = m \o <<x>>
  BY AppendIsConcat
<1>2. QED
  BY <1>1, ConcatAssociative

\* Most steps of a daemon touch no message.
LEMMA QuietStep ==
  ASSUME NEW d \in Daemon,
         Start(d) \/ Step(d) \/ OnSignal(d) \/ Kill(d)
  PROVE  UNCHANGED <<msgs, cur, done, sent>> \/ OpenQueue(d)
         \/ Receive(d) \/ Parse(d) \/ HandleMessage(d)
<1> USE DEF msgVars, queueVars, kernelVars
<1>1. CASE Start(d)
  BY <1>1 DEF Start, QueueInit
<1>2. CASE ParseOptions(d)
  BY <1>2 DEF ParseOptions, QueueSetAttribute
<1>3. CASE WritePidfile(d)
  BY <1>3 DEF WritePidfile
<1>4. CASE SetGroup(d)
  BY <1>4 DEF SetGroup
<1>5. CASE OpenName(d)
  BY <1>5 DEF OpenName, QueueOpenName
<1>6. CASE OpenQueue(d)
  BY <1>6
<1>7. CASE SetUp(d)
  BY <1>7 DEF SetUp
<1>8. CASE DropPrivilege(d)
  BY <1>8 DEF DropPrivilege
<1>9. CASE Receive(d)
  BY <1>9
<1>10. CASE Parse(d)
  BY <1>10
<1>11. CASE HandleMessage(d)
  BY <1>11
<1>12. CASE CloseQueue(d)
  BY <1>12 DEF CloseQueue, QueueCloseMq
<1>13. CASE ClearDescriptor(d)
  BY <1>13 DEF ClearDescriptor, QueueCloseClear
<1>14. CASE UnlinkQueue(d)
  BY <1>14 DEF UnlinkQueue, QueueCloseUnlink
<1>15. CASE FreeQueue(d)
  BY <1>15 DEF FreeQueue, QueueCloseFree
<1>16. CASE RemovePidfile(d)
  BY <1>16 DEF RemovePidfile
<1>17. CASE End(d)
  BY <1>17 DEF End, Die, ProcessExit
<1>18. CASE OnSignal(d)
  BY <1>18 DEF OnSignal
<1>19. CASE Kill(d)
  BY <1>19 DEF Kill, Die, ProcessExit
<1>20. QED
  BY <1>1, <1>2, <1>3, <1>4, <1>5, <1>6, <1>7, <1>8, <1>9, <1>10, <1>11,
     <1>12, <1>13, <1>14, <1>15, <1>16, <1>17, <1>18, <1>19, Zenon
    DEF Step

\* InOrder, for the daemon that moves.
LEMMA OwnOrder ==
  ASSUME TypeOK, InHand, Lifecycle, InOrder, NEW d \in Daemon,
         Start(d) \/ Step(d) \/ OnSignal(d) \/ Kill(d)
  PROVE  ((done[d] \o cur[d]) \o msgs[d] = sent[d])'
<1>1. cur[d] \in Seq(Msg) /\ msgs[d] \in Seq(Msg) /\ done[d] \in Seq(Msg)
  BY DEF TypeOK, QueueTypeOK, MsgTypeOK
<1>2. (done[d] \o cur[d]) \o msgs[d] = sent[d]
  BY Zenon DEF InOrder
<1>3. CASE UNCHANGED <<msgs, cur, done, sent>>
  BY <1>2, <1>3, Zenon
<1>4. CASE OpenQueue(d)
  <2>1. msgs \in [Owner -> Seq(Msg)] /\ msgs[d] = <<>>
    BY <1>4 DEF OpenQueue, Lifecycle, HasQueue, BeforeOpen, TypeOK, QueueTypeOK
  <2>2. UNCHANGED <<msgs, cur, done, sent>>
    BY <1>4, <2>1 DEF OpenQueue, QueueOpenOwner, MqCreate, msgVars, queueVars, kernelVars
  <2>3. QED
    BY <1>2, <2>2, Zenon
<1>5. CASE Receive(d)
  <2>1. fd[d] = d /\ cur[d] = <<>> /\ msgs[d] # <<>>
    BY <1>5, Zenon DEF Receive, QueueReceive, Lifecycle, HasQueue, Open, LoopLabel,
                       InHand, DaemonInHand
  <2>2. (done[d] \o <<Head(msgs[d])>>) \o Tail(msgs[d]) = sent[d]
    BY ONLY <1>1, <1>2, <2>1, TakeHead, Zenon
  <2>3. /\ msgs \in [Owner -> Seq(Msg)]
        /\ cur \in [Process -> Seq(Msg)]
    BY DEF TypeOK, QueueTypeOK, MsgTypeOK
  <2>4. /\ done' = done /\ sent' = sent
        /\ cur'[d] = <<Head(msgs[d])>> /\ msgs'[d] = Tail(msgs[d])
    BY <1>5, <2>1, <2>3, Zenon DEF Receive, QueueReceive
  <2>5. QED
    BY <2>2, <2>4, Zenon
<1>6. ASSUME EndIteration(d), UNCHANGED <<msgs, sent>>
      PROVE  ((done[d] \o cur[d]) \o msgs[d] = sent[d])'
  <2>1. done \in [Daemon -> Seq(Msg)] /\ cur \in [Process -> Seq(Msg)]
    BY DEF TypeOK, MsgTypeOK
  <2>2. done'[d] = done[d] \o cur[d] /\ cur'[d] = <<>>
    BY <1>6, <2>1, Zenon DEF EndIteration
  <2>3. done[d] \o cur[d] \in Seq(Msg)
    BY ONLY <1>1, ConcatProperties, SMT
  <2>4. (done[d] \o cur[d]) \o <<>> = done[d] \o cur[d]
    BY ONLY <2>3, ConcatEmptySeq, Zenon
  <2>5. QED
    BY <1>2, <1>6, <2>2, <2>4, Zenon
<1>7. CASE Parse(d)
  BY <1>2, <1>6, <1>7, Zenon DEF Parse, queueVars, kernelVars
<1>8. CASE HandleMessage(d)
  BY <1>6, <1>8, Zenon DEF HandleMessage, queueVars, kernelVars
<1>9. QED
  BY <1>3, <1>4, <1>5, <1>7, <1>8, QuietStep, Zenon

\* InOrder, for the queue that a client sends to.
LEMMA SendOrder ==
  ASSUME TypeOK, InHand, InOrder, NEW c \in Client, Send(c)
  PROVE  InOrder'
<1> /\ cur \in [Process -> Seq(Msg)]
    /\ fd \in [Process -> Owner \cup {NoQueue}]
    /\ msgs \in [Owner -> Seq(Msg)]
    /\ sent \in [Daemon -> Seq(Msg)]
    /\ done \in [Daemon -> Seq(Msg)]
  BY DEF TypeOK, QueueTypeOK, MsgTypeOK
<1>1. PICK m \in Msg : cur[c] = <<m>>
  BY Zenon DEF Send, InHand, ClientInHand
<1>2. Head(cur[c]) = m /\ fd[c] \in Owner /\ c \notin Owner
  <2>1. fd[c] # NoQueue
    BY Zenon DEF Send, InHand, ClientInHand
  <2>2. QED
    BY <1>1, <2>1
<1>3. PICK k \in Owner : k = fd[c]
  BY <1>2
<1>4. (done[k] \o cur[k]) \o Append(msgs[k], m) = sent[k] \o <<m>>
  <2>1. (done[k] \o cur[k]) \o msgs[k] = sent[k]
    BY Zenon DEF InOrder
  <2>2. msgs[k] \in Seq(Msg) /\ done[k] \in Seq(Msg) /\ cur[k] \in Seq(Msg)
    OBVIOUS
  <2>3. PICK a \in Seq(Msg) : a = done[k] \o cur[k]
    <3>1. done[k] \o cur[k] \in Seq(Msg)
      BY ONLY <2>2, ConcatProperties, Zenon
    <3>2. QED
      BY ONLY <3>1, Zenon
  <2>4. a \o Append(msgs[k], m) = (a \o msgs[k]) \o <<m>>
    BY ONLY <2>2, a \in Seq(Msg), m \in Msg, AddLast, SMT
  <2>5. QED
    BY <2>1, <2>3, <2>4, Zenon
<1>5. \A d \in Daemon : cur'[d] = cur[d] /\ done'[d] = done[d]
  BY <1>2, Zenon DEF Send
<1>6. CASE QueueSend(c, m) /\ sent' = [sent EXCEPT ![k] = sent[k] \o cur[c]]
  BY <1>1, <1>2, <1>3, <1>4, <1>5, <1>6, Zenon DEF QueueSend, InOrder
<1>7. CASE QueueSendFails(c, m) /\ UNCHANGED sent
  BY <1>5, <1>7, Zenon DEF QueueSendFails, InOrder, queueVars, kernelVars
<1>8. QED
  BY <1>2, <1>3, <1>6, <1>7, Zenon DEF Send

\* InOrder.
LEMMA InOrderStep ==
  ASSUME TypeOK, InHand, Lifecycle, InOrder, [Next]_vars
  PROVE  InOrder'
<1>1. ASSUME NEW d \in Daemon, Start(d) \/ Step(d) \/ OnSignal(d) \/ Kill(d),
             NEW e \in Daemon
      PROVE  ((done[e] \o cur[e]) \o msgs[e] = sent[e])'
  <2>1. CASE e = d
    BY <1>1, <2>1, OwnOrder, Zenon
  <2>2. CASE e # d
    <3>1. SameDaemon(e) /\ SameMessages(e)
      BY <1>1, <2>2, DaemonFrame
    <3>2. QED
      BY <3>1, Zenon DEF InOrder, SameDaemon, SameProcess, SameMessages
  <2>3. QED
    BY <2>1, <2>2, Zenon
<1>2. ASSUME NEW c \in Client, Connect(c) \/ CallSend(c) \/ Disconnect(c),
             NEW d \in Daemon
      PROVE  ((done[d] \o cur[d]) \o msgs[d] = sent[d])'
  <2>1. SameDaemon(d)
    BY <1>2, ClientFrame, Zenon
  <2>2. UNCHANGED <<msgs, sent>>
    BY <1>2, Zenon DEF Connect, QueueOpenSender, CallSend, Disconnect, ProcessExit, msgVars,
                queueVars, kernelVars
  <2>3. QED
    BY <2>1, <2>2, Zenon DEF InOrder, SameDaemon, SameProcess
<1>3. CASE UNCHANGED vars
  BY <1>3, Zenon DEF vars, InOrder, msgVars, queueVars, kernelVars
<1>4. QED
  BY <1>1, <1>2, <1>3, SendOrder, Zenon DEF Next, InOrder
-----------------------------------------------------------------------------
(* The lengths of messages, and daemons that run one at a time.            *)

\* Fits, for the daemon that moves.
LEMMA OwnLengths ==
  ASSUME TypeOK, InHand, Lifecycle, Lengths, NEW d \in Daemon,
         Start(d) \/ Step(d) \/ OnSignal(d) \/ Kill(d)
  PROVE  Fits(d)'
<1> /\ pc \in [Process -> DaemonLabel \cup ClientLabel]
    /\ cur \in [Process -> Seq(Msg)]
    /\ fd \in [Process -> Owner \cup {NoQueue}]
    /\ msgs \in [Owner -> Seq(Msg)]
    /\ kattr \in [Owner -> Attributes]
    /\ attr \in [Process -> Attributes]
    /\ bufsize \in [Daemon -> Nat]
  BY Zenon DEF TypeOK, QueueTypeOK, ProcTypeOK, MsgTypeOK
<1> Fits(d)
  BY DEF Lengths
<1> USE DEF Fits, Goto, LoopLabel, procVars, msgVars, queueVars, kernelVars,
            handleVars
<1>1. CASE Start(d)
  BY <1>1 DEF Start, QueueInit
<1>2. CASE ParseOptions(d)
  BY <1>2 DEF ParseOptions, QueueSetAttribute
<1>3. CASE WritePidfile(d)
  BY <1>3 DEF WritePidfile
<1>4. CASE SetGroup(d)
  BY <1>4 DEF SetGroup
<1>5. CASE OpenName(d)
  BY <1>5 DEF OpenName, QueueOpenName
<1>6. CASE OpenQueue(d)
  BY <1>6 DEF OpenQueue, QueueOpenOwner, MqCreate
<1>7. CASE SetUp(d)
  BY <1>7 DEF SetUp, BufferSize
<1>8. CASE DropPrivilege(d)
  BY <1>8 DEF DropPrivilege
<1>9. CASE Receive(d)
  <2>1. fd[d] = d /\ msgs[d] # <<>>
    BY <1>9, Zenon DEF Receive, QueueReceive, Lifecycle, HasQueue, Open
  <2>2. Head(msgs[d]) = msgs[d][1] /\ Len(msgs[d]) \in Nat \ {0}
    BY <2>1
  <2>3. \A i \in 1..Len(Tail(msgs[d])) :
          Tail(msgs[d])[i] = msgs[d][i + 1] /\ i + 1 \in 1..Len(msgs[d])
    BY <2>1, <2>2
  <2>4. \A i \in 1..Len(Tail(msgs[d])) :
          MsgLen[Tail(msgs[d])[i]] <= kattr[d].msgsize
    BY <2>3, Zenon
  <2>5. MsgLen[Head(msgs[d])] <= kattr[d].msgsize
    BY <2>2
  <2>6. Head(<<Head(msgs[d])>>) = Head(msgs[d])
    OBVIOUS
  <2>7. msgs'[d] = Tail(msgs[d]) /\ cur'[d] = <<Head(msgs[d])>> /\ pc'[d] = "parse"
    BY <1>9, <2>1 DEF Receive, QueueReceive
  <2>8. UNCHANGED <<kattr, attr, bufsize>>
    BY <1>9 DEF Receive, QueueReceive
  <2>9. bufsize[d] = kattr[d].msgsize + 1
    BY <1>9 DEF Receive
  <2>10. QED
    BY <2>4, <2>5, <2>6, <2>7, <2>8, <2>9, Zenon
<1>10. CASE Parse(d)
  BY <1>10 DEF Parse, EndIteration
<1>11. CASE HandleMessage(d)
  BY <1>11 DEF HandleMessage, EndIteration
<1>12. CASE CloseQueue(d)
  BY <1>12 DEF CloseQueue, QueueCloseMq
<1>13. CASE ClearDescriptor(d)
  BY <1>13 DEF ClearDescriptor, QueueCloseClear
<1>14. CASE UnlinkQueue(d)
  BY <1>14 DEF UnlinkQueue, QueueCloseUnlink
<1>15. CASE FreeQueue(d)
  BY <1>15 DEF FreeQueue, QueueCloseFree
<1>16. CASE RemovePidfile(d)
  BY <1>16 DEF RemovePidfile
<1>17. CASE End(d)
  BY <1>17 DEF End, Die, ProcessExit
<1>18. CASE OnSignal(d)
  BY <1>18 DEF OnSignal, Live
<1>19. CASE Kill(d)
  BY <1>19 DEF Kill, Die, ProcessExit
<1>20. QED
  BY <1>1, <1>2, <1>3, <1>4, <1>5, <1>6, <1>7, <1>8, <1>9, <1>10, <1>11,
     <1>12, <1>13, <1>14, <1>15, <1>16, <1>17, <1>18, <1>19, Zenon
  DEF Step

\* Lengths.
LEMMA LengthsStep ==
  ASSUME TypeOK, InHand, Lifecycle, Lengths, [Next]_vars
  PROVE  Lengths'
<1>1. ASSUME NEW d \in Daemon, Start(d) \/ Step(d) \/ OnSignal(d) \/ Kill(d),
             NEW e \in Daemon
      PROVE  Fits(e)'
  <2>1. CASE e = d
    BY <1>1, <2>1, OwnLengths, Zenon
  <2>2. CASE e # d
    <3>1. SameDaemon(e) /\ SameMessages(e)
      BY <1>1, <2>2, DaemonFrame
    <3>2. QED
      BY <3>1, Zenon DEF Lengths, Fits, SameDaemon, SameProcess, SameMessages
  <2>3. QED
    BY <2>1, <2>2
<1>2. ASSUME NEW c \in Client, Connect(c) \/ CallSend(c) \/ Send(c) \/ Disconnect(c),
             NEW d \in Daemon
      PROVE  Fits(d)'
  <2>1. SameDaemon(d) /\ Fits(d)
    BY <1>2, ClientFrame DEF Lengths
  <2>2. CASE msgs'[d] = msgs[d]
    BY <2>1, <2>2, Zenon DEF Fits, SameDaemon, SameProcess
  <2>3. CASE msgs'[d] # msgs[d]
    <3> /\ msgs \in [Owner -> Seq(Msg)]
        /\ kattr \in [Owner -> Attributes]
      BY DEF TypeOK, QueueTypeOK
    <3>1. d = fd[c] /\ Send(c)
      BY <1>2, <2>3, ClientFrame, Zenon DEF SameMessages, Connect, QueueOpenSender, CallSend,
         Disconnect, ProcessExit, queueVars, kernelVars
    <3>2. PICK m \in Msg : cur[c] = <<m>>
      BY <3>1, Zenon DEF Send, InHand, ClientInHand
    <3>3. Head(cur[c]) = m
      BY <3>2
    <3>4. MsgLen[m] <= kattr[d].msgsize /\ msgs'[d] = Append(msgs[d], m)
      BY <2>3, <3>1, <3>3, Zenon DEF Send, QueueSend, QueueSendFails, queueVars, kernelVars
    <3>5. \A i \in 1..Len(Append(msgs[d], m)) :
            MsgLen[Append(msgs[d], m)[i]] <= kattr[d].msgsize
      <4>1. PICK q \in Seq(Msg) : q = msgs[d]
        OBVIOUS
      <4>2. \A i \in 1..Len(q) : MsgLen[q[i]] <= kattr[d].msgsize
        BY <2>1, <4>1 DEF Fits
      <4>3. \A i \in 1..Len(Append(q, m)) :
              \/ i \in 1..Len(q) /\ Append(q, m)[i] = q[i]
              \/ Append(q, m)[i] = m
        BY ONLY q \in Seq(Msg), m \in Msg, SMT
      <4>4. QED
        BY <3>4, <4>1, <4>2, <4>3, Zenon
    <3>6. QED
      BY <2>1, <3>4, <3>5, Zenon DEF Fits, SameDaemon, SameProcess
  <2>4. QED
    BY <2>2, <2>3
<1>3. CASE UNCHANGED vars
  BY <1>3, Zenon DEF vars, Lengths, Fits, procVars, msgVars, queueVars, kernelVars, handleVars
<1>4. QED
  BY <1>1, <1>2, <1>3 DEF Next, Lengths

\* Undisturbed, for the daemon that moves.
LEMMA OwnAlone ==
  ASSUME TypeOK, Alone, NEW d \in Daemon,
         Start(d) \/ Step(d) \/ OnSignal(d) \/ Kill(d)
  PROVE  Undisturbed(d)'
<1> /\ pc \in [Process -> DaemonLabel \cup ClientLabel]
    /\ pid \in [Daemon -> {"none", "named", "written"}]
  BY Zenon DEF TypeOK, QueueTypeOK, ProcTypeOK, MsgTypeOK
<1> Undisturbed(d)
  BY DEF Alone
<1> USE DEF Undisturbed, Live, Goto, Open, LoopLabel, CleanupLabel, FreeLabel, procVars,
            queueVars, kernelVars
<1>1. CASE Start(d)
  BY <1>1 DEF Start, QueueInit
<1>2. CASE ParseOptions(d)
  BY <1>2 DEF ParseOptions, QueueSetAttribute
<1>3. CASE WritePidfile(d)
  BY <1>3 DEF WritePidfile
<1>4. CASE SetGroup(d)
  BY <1>4 DEF SetGroup
<1>5. CASE OpenName(d)
  BY <1>5 DEF OpenName, QueueOpenName
<1>6. CASE OpenQueue(d)
  BY <1>6 DEF OpenQueue, QueueOpenOwner, MqCreate
<1>7. CASE SetUp(d)
  BY <1>7 DEF SetUp
<1>8. CASE DropPrivilege(d)
  BY <1>8 DEF DropPrivilege
<1>9. CASE Receive(d)
  BY <1>9, Zenon DEF Receive, QueueReceive
<1>10. CASE Parse(d)
  BY <1>10, Zenon DEF Parse, EndIteration
<1>11. CASE HandleMessage(d)
  BY <1>11 DEF HandleMessage, EndIteration
<1>12. CASE CloseQueue(d)
  BY <1>12 DEF CloseQueue, QueueCloseMq
<1>13. CASE ClearDescriptor(d)
  BY <1>13 DEF ClearDescriptor, QueueCloseClear
<1>14. CASE UnlinkQueue(d)
  BY <1>14 DEF UnlinkQueue, QueueCloseUnlink
<1>15. CASE FreeQueue(d)
  BY <1>15 DEF FreeQueue, QueueCloseFree
<1>16. CASE RemovePidfile(d)
  BY <1>16 DEF RemovePidfile
<1>17. CASE End(d)
  BY <1>17 DEF End, Die, ProcessExit
<1>18. CASE OnSignal(d)
  BY <1>18 DEF OnSignal
<1>19. CASE Kill(d)
  BY <1>19 DEF Kill, Die, ProcessExit
<1>20. QED
  BY <1>1, <1>2, <1>3, <1>4, <1>5, <1>6, <1>7, <1>8, <1>9, <1>10, <1>11,
     <1>12, <1>13, <1>14, <1>15, <1>16, <1>17, <1>18, <1>19, Zenon
  DEF Step

\* Alone, when no daemon is started while another is alive.
LEMMA AloneStep ==
  ASSUME ~Concurrent, TypeOK, Lifecycle, Alone, [Next]_vars
  PROVE  Alone'
<1>1. ASSUME NEW d \in Daemon, Start(d) \/ Step(d) \/ OnSignal(d) \/ Kill(d)
      PROVE  Alone'
  <2>1. Undisturbed(d)'
    BY <1>1, OwnAlone, Zenon
  <2>2. \A e \in Daemon \ {d} : ~Live(e)
    <3>1. CASE Start(d)
      BY <3>1 DEF Start
    <3>2. CASE Step(d) \/ OnSignal(d) \/ Kill(d)
      <4>1. Live(d)
        <5>1. CASE FreeQueue(d)
          BY <5>1 DEF FreeQueue, FreeLabel, Live
        <5>2. CASE OnSignal(d) \/ Kill(d)
          BY <5>2, Zenon DEF OnSignal, Kill
        <5>3. CASE Step(d) /\ ~FreeQueue(d)
          BY <5>3, Zenon DEF Step, ParseOptions, WritePidfile, SetGroup, OpenName,
             OpenQueue, SetUp, DropPrivilege, Receive, Parse, HandleMessage, CloseQueue,
             ClearDescriptor, UnlinkQueue, RemovePidfile, End, Live
        <5>4. QED
          BY <3>2, <5>1, <5>2, <5>3
      <4>2. QED
        BY <4>1 DEF Alone
    <3>3. QED
      BY <1>1, <3>1, <3>2
  <2>3. ASSUME NEW e \in Daemon \ {d} PROVE ~Live(e)' /\ Undisturbed(e)'
    <3>1. pc'[e] = pc[e] /\ pid'[e] = pid[e]
      BY <1>1, DaemonFrame, Zenon DEF SameDaemon, SameProcess
    <3>2. pc[e] \in {"unborn", "dead"} /\ pid[e] = "none"
      BY <2>2, Zenon DEF Alone, Undisturbed, Live
    <3>3. QED
      BY <3>1, <3>2, Zenon DEF Undisturbed, Live, Open, LoopLabel
  <2>4. QED
    BY <2>1, <2>3 DEF Alone
<1>2. ASSUME NEW c \in Client, Connect(c) \/ CallSend(c) \/ Send(c) \/ Disconnect(c)
      PROVE  Alone'
  <2>1. \A d \in Daemon : pc'[d] = pc[d] /\ pid'[d] = pid[d]
    BY <1>2, ClientFrame, Zenon DEF SameDaemon, SameProcess
  <2>2. link' = link /\ pidfile' = pidfile
    BY <1>2, ClientFrame, Zenon
  <2>3. QED
    BY <2>1, <2>2, Zenon DEF Alone, Undisturbed, Live
<1>3. CASE UNCHANGED vars
  BY <1>3, Zenon DEF vars, Alone, Undisturbed, Live, procVars, queueVars, kernelVars
<1>4. QED
  BY <1>1, <1>2, <1>3 DEF Next
-----------------------------------------------------------------------------
(* The theorems.                                                           *)

\* What holds in every state a set of daemons and clients can reach.
Inv == TypeOK /\ InHand /\ Lifecycle /\ Lengths /\ Removable /\ PidfileKnown
         /\ InOrder

\* The invariant holds before any process runs.
LEMMA InvInit == Init => Inv
<1> SUFFICES ASSUME Init PROVE Inv
  OBVIOUS
<1> USE DEF Init, QueueInitState
<1>1. TypeOK
  BY InitType
<1>2. InHand /\ Lifecycle
  BY DEF InHand, DaemonInHand, ClientInHand, Lifecycle, HasQueue, BeforeOpen, Open,
         StartLabel, LoopLabel, CleanupLabel, FreeLabel, DaemonLabel, ClientLabel
<1>3. Lengths
  <2>1. \A d \in Daemon : msgs[d] = <<>> /\ pc[d] = "unborn"
    OBVIOUS
  <2>2. 1..Len(<<>>) = {}
    OBVIOUS
  <2>3. QED
    BY <2>1, <2>2, Zenon DEF Lengths, Fits, LoopLabel
<1>4. Removable /\ PidfileKnown
  BY DEF Removable, CanRemove, PidfileKnown, KnowsPidfile
<1>5. InOrder
  BY ConcatEmptySeq, EmptySeq, Zenon DEF InOrder
<1>6. QED
  BY <1>1, <1>2, <1>3, <1>4, <1>5 DEF Inv

\* Every action of the daemons and of the clients keeps the invariant.
LEMMA InvStep == Inv /\ [Next]_vars => Inv'
<1> SUFFICES ASSUME Inv, [Next]_vars PROVE Inv'
  OBVIOUS
<1> TypeOK /\ InHand /\ Lifecycle /\ Lengths /\ Removable /\ PidfileKnown /\ InOrder
  BY DEF Inv
<1>1. TypeOK'
  <2>1. CASE UNCHANGED vars
    BY <2>1, UnchangedType DEF TypeOK, vars
  <2>2. CASE Next
    BY <2>2, StartUpType, LoopType, EndType, ClientType DEF Next, Step
  <2>3. QED
    BY <2>1, <2>2
<1>2. QED
  BY <1>1, InHandStep, LifecycleStep, LengthsStep, RemovableStep, PidfileKnownStep,
     InOrderStep DEF Inv

\* The inductive invariant holds, for any number of daemons and clients: the
\* theorems below follow from it.
THEOREM Invariance == Spec => []Inv
BY InvInit, InvStep, PTL DEF Spec

\* Every variable keeps its type, for any number of daemons and clients.
THEOREM TypeCorrect == Spec => []TypeOK
<1>1. Inv => TypeOK
  BY DEF Inv
<1>2. QED
  BY <1>1, Invariance, PTL

\* O_EXCL makes a daemon the only reader of its queue, whatever other daemons
\* do to the name.
THEOREM ReadersExclusive == Spec => []ExclusiveReader
<1>1. Inv => ExclusiveReader
  BY DEF Inv, Lifecycle, HasQueue, ExclusiveReader
<1>2. QED
  BY <1>1, Invariance, PTL

\* The messages of a queue go through the loop of its daemon in the order in
\* which they were sent, each at most once, none skipped.
THEOREM MessagesInOrder == Spec => []InOrder
<1>1. Inv => InOrder
  BY DEF Inv
<1>2. QED
  BY <1>1, Invariance, PTL

\* queue_receive never writes its terminator outside the buffer, for any
\* message size.
THEOREM ReceiveInBounds == Spec => []TerminatorInBounds
<1>1. Inv => TerminatorInBounds
  <2> SUFFICES ASSUME Inv, NEW d \in Daemon, pc[d] \in {"parse", "handle"}
              PROVE  MsgLen[Head(cur[d])] < bufsize[d]
    BY DEF TerminatorInBounds
  <2>1. PICK m \in Msg : cur[d] = <<m>>
    BY DEF Inv, InHand, DaemonInHand
  <2>2. Head(cur[d]) = m /\ MsgLen[m] \in Nat
    BY <2>1
  <2>3. kattr[d].msgsize \in Nat
    <3>1. kattr \in [Owner -> Attributes]
      BY DEF Inv, TypeOK, QueueTypeOK
    <3>2. QED
      BY <3>1 DEF Attributes
  <2>4. MsgLen[m] <= kattr[d].msgsize /\ bufsize[d] = kattr[d].msgsize + 1
    BY <2>2 DEF Inv, Lengths, Fits, LoopLabel
  <2>5. QED
    BY <2>2, <2>3, <2>4
<1>2. QED
  BY <1>1, Invariance, PTL

\* The only ways a queue outlives its daemon.
THEOREM StaleQueues == Spec => []StaleQueueCause
<1>1. Inv => StaleQueueCause
  BY Zenon DEF Inv, Removable, CanRemove, StaleQueueCause
<1>2. QED
  BY <1>1, Invariance, PTL

\* The only ways a pid file outlives its daemon.
THEOREM StalePidfiles == Spec => []StalePidfileCause
<1>1. Inv => StalePidfileCause
  BY Zenon DEF Inv, PidfileKnown, KnowsPidfile, StalePidfileCause
<1>2. QED
  BY <1>1, Invariance, PTL

\* With one daemon at a time, clients reach the daemon that serves and the pid
\* file names it.
THEOREM ServedAlone ==
  ASSUME ~Concurrent
  PROVE  Spec => [](ServingLinked /\ ServingPidfile)
<1>1. Init => Inv /\ Alone
  BY InvInit DEF Init, Alone, Undisturbed, Live, Open, LoopLabel
<1>2. Inv /\ Alone /\ [Next]_vars => (Inv /\ Alone)'
  BY InvStep, AloneStep DEF Inv
<1>3. Inv /\ Alone => ServingLinked /\ ServingPidfile
  BY DEF Alone, Undisturbed, ServingLinked, ServingPidfile, Serving, Open, LoopLabel,
         CleanupLabel, FreeLabel
<1>4. QED
  BY <1>1, <1>2, <1>3, PTL DEF Spec

\* With one daemon at a time, the pid file a daemon wrote names it as long as it
\* serves.
THEOREM PidfileAlone ==
  ASSUME ~Concurrent
  PROVE  Spec => []ServingPidfile
BY ServedAlone, PTL

-----------------------------------------------------------------------------
(* Daemons and clients of module Banipd implement module BanService, for   *)
(* any number of them: every step is a step of the service or no step.     *)
(*                                                                         *)
(* Only the end of an iteration of the loop needs the invariant: the       *)
(* message in the buffer is the oldest one that the daemon has not dealt   *)
(* with because of InOrder, and an address because of InHand.              *)

\* What BanService calls state.
States == [d \in Daemon |-> ServiceState(d)]

\* A step of one daemon changes the state of no other.
LEMMA StatesMove ==
  ASSUME TypeOK, NEW d \in Daemon,
         Start(d) \/ Step(d) \/ OnSignal(d) \/ Kill(d)
  PROVE  States' = [States EXCEPT ![d] = ServiceState(d)']
<1>1. ASSUME NEW e \in Daemon \ {d} PROVE ServiceState(e)' = ServiceState(e)
  <2>1. pc'[e] = pc[e]
    BY ProcessFrame DEF SameProcess
  <2>2. QED
    BY <2>1, Zenon DEF ServiceState
<1>2. QED
  BY <1>1, Zenon DEF States

\* A daemon begins to serve at most once, and never after its end.
LEMMA StatePath ==
  ASSUME TypeOK, Lifecycle, NEW d \in Daemon,
         Start(d) \/ Step(d) \/ OnSignal(d) \/ Kill(d)
  PROVE  \/ ServiceState(d)' = ServiceState(d)
         \/ ServiceState(d) = "new" /\ ServiceState(d)' = "serving"
         \/ ServiceState(d) # "over" /\ ServiceState(d)' = "over"
<1>1. pc \in [Process -> DaemonLabel \cup ClientLabel] /\ pc[d] \in DaemonLabel
  BY Zenon DEF TypeOK, ProcTypeOK, Lifecycle, HasQueue
<1> USE <1>1 DEF ServiceState, Goto, StartLabel, LoopLabel
<1>2. CASE Start(d)
  BY <1>2 DEF Start
<1>3. CASE ParseOptions(d)
  BY <1>3 DEF ParseOptions
<1>4. CASE WritePidfile(d)
  BY <1>4 DEF WritePidfile
<1>5. CASE SetGroup(d)
  BY <1>5 DEF SetGroup
<1>6. CASE OpenName(d)
  BY <1>6 DEF OpenName
<1>7. CASE OpenQueue(d)
  BY <1>7 DEF OpenQueue
<1>8. CASE SetUp(d)
  BY <1>8 DEF SetUp
<1>9. CASE DropPrivilege(d)
  BY <1>9 DEF DropPrivilege
<1>10. CASE Receive(d)
  BY <1>10 DEF Receive
<1>11. CASE Parse(d)
  BY <1>11, Zenon DEF Parse, EndIteration
<1>12. CASE HandleMessage(d)
  BY <1>12 DEF HandleMessage, EndIteration
<1>13. CASE CloseQueue(d) \/ ClearDescriptor(d)
  BY <1>13 DEF CloseQueue, ClearDescriptor
<1>14. CASE UnlinkQueue(d) \/ FreeQueue(d)
  BY <1>14, Zenon DEF UnlinkQueue, FreeQueue
<1>15. CASE RemovePidfile(d)
  BY <1>15 DEF RemovePidfile
<1>16. CASE End(d) \/ Kill(d) \/ OnSignal(d)
  BY <1>16 DEF End, Kill, Die, OnSignal, Live, DaemonLabel, CleanupLabel, FreeLabel
<1>17. QED
  BY <1>2, <1>3, <1>4, <1>5, <1>6, <1>7, <1>8, <1>9, <1>10, <1>11, <1>12, <1>13,
     <1>14, <1>15, <1>16, Zenon DEF Step

\* Only the end of an iteration settles a message.
LEMMA Unsettled ==
  ASSUME NEW d \in Daemon, Start(d) \/ Step(d) \/ OnSignal(d) \/ Kill(d)
  PROVE  \/ UNCHANGED <<sent, done, banned>>
         \/ /\ pc[d] \in {"parse", "handle"}
            /\ EndIteration(d) /\ UNCHANGED sent
            /\ \/ UNCHANGED banned
               \/ pc[d] = "handle" /\ banned' = banned \cup {Head(cur[d])}
<1> USE DEF msgVars
<1>1. CASE Start(d) \/ ParseOptions(d) \/ WritePidfile(d) \/ SetGroup(d) \/ OpenName(d)
  BY <1>1, Zenon DEF Start, ParseOptions, WritePidfile, SetGroup, OpenName
<1>2. CASE OpenQueue(d) \/ SetUp(d) \/ DropPrivilege(d) \/ Receive(d)
  BY <1>2, Zenon DEF OpenQueue, SetUp, DropPrivilege, Receive
<1>3. CASE Parse(d)
  BY <1>3, Zenon DEF Parse
<1>4. CASE HandleMessage(d)
  BY <1>4, Zenon DEF HandleMessage
<1>5. CASE CloseQueue(d) \/ ClearDescriptor(d) \/ UnlinkQueue(d) \/ FreeQueue(d)
  BY <1>5, Zenon DEF CloseQueue, ClearDescriptor, UnlinkQueue, FreeQueue
<1>6. CASE RemovePidfile(d) \/ End(d) \/ OnSignal(d) \/ Kill(d)
  BY <1>6, Zenon DEF RemovePidfile, End, OnSignal, Kill
<1>7. QED
  BY <1>1, <1>2, <1>3, <1>4, <1>5, <1>6, Zenon DEF Step

\* The element after a prefix of a sequence.
LEMMA AfterPrefix ==
  ASSUME NEW S, NEW a \in Seq(S), NEW x \in S, NEW b \in Seq(S)
  PROVE  /\ ((a \o <<x>>) \o b)[Len(a) + 1] = x
         /\ Len(a) < Len((a \o <<x>>) \o b)
         /\ a \o <<x>> = Append(a, x)
OBVIOUS

\* The end of an iteration settles the oldest message.
LEMMA EndSettles ==
  ASSUME Inv, NEW d \in Daemon, pc[d] \in {"parse", "handle"},
         EndIteration(d), UNCHANGED sent,
         \/ UNCHANGED banned
         \/ pc[d] = "handle" /\ banned' = banned \cup {Head(cur[d])},
         States' = States
  PROVE  Service!Settle(d)
<1>1. PICK m \in Msg : cur[d] = <<m>> /\ (pc[d] = "handle" => m \in Valid)
  BY DEF Inv, InHand, DaemonInHand
<1>2. done \in [Daemon -> Seq(Msg)] /\ msgs[d] \in Seq(Msg)
  BY DEF Inv, TypeOK, QueueTypeOK, MsgTypeOK
<1>3. (done[d] \o <<m>>) \o msgs[d] = sent[d]
  BY <1>1, Zenon DEF Inv, InOrder
<1>4. /\ sent[d][Len(done[d]) + 1] = m /\ Len(done[d]) < Len(sent[d])
      /\ done[d] \o <<m>> = Append(done[d], m)
  <2>1. done[d] \in Seq(Msg)
    BY <1>2
  <2>2. /\ ((done[d] \o <<m>>) \o msgs[d])[Len(done[d]) + 1] = m
        /\ Len(done[d]) < Len((done[d] \o <<m>>) \o msgs[d])
        /\ done[d] \o <<m>> = Append(done[d], m)
    BY ONLY <1>2, <2>1, m \in Msg, AfterPrefix, Zenon
  <2>3. QED
    BY ONLY <1>3, <2>2, Zenon
<1>5. done' = [done EXCEPT ![d] = Append(done[d], m)]
  BY <1>1, <1>4, Zenon DEF EndIteration
<1>6. ServiceState(d) = "serving"
  BY DEF ServiceState, StartLabel, LoopLabel
<1>7. Service!Oldest(d) = m
  BY <1>4 DEF Service!Oldest
<1>8. UNCHANGED banned \/ (m \in Valid /\ banned' = banned \cup {m})
  <2>1. Head(cur[d]) = m
    BY <1>1
  <2>2. \/ UNCHANGED banned
        \/ pc[d] = "handle" /\ banned' = banned \cup {Head(cur[d])}
    OBVIOUS
  <2>3. QED
    BY ONLY <1>1, <2>1, <2>2, Zenon
<1>9. QED
  BY <1>4, <1>5, <1>6, <1>7, <1>8 DEF Service!Settle, States
-----------------------------------------------------------------------------
(* Every step is one of the service, or none.                              *)

\* Before any process runs, every server is new.
LEMMA ServiceInit == Init => Service!Init
<1> SUFFICES ASSUME Init PROVE Service!Init
  OBVIOUS
<1>1. /\ sent = [d \in Daemon |-> <<>>] /\ done = [d \in Daemon |-> <<>>]
      /\ banned = {} /\ pc = [p \in Process |-> "unborn"]
  BY Zenon DEF Init
<1>2. \A d \in Daemon : ServiceState(d) = "new"
  BY <1>1, Zenon DEF ServiceState, StartLabel, LoopLabel
<1>3. QED
  BY <1>1, <1>2, Zenon DEF Service!Init

\* The steps of a daemon.
LEMMA DaemonServes ==
  ASSUME Inv, NEW d \in Daemon, Start(d) \/ Step(d) \/ OnSignal(d) \/ Kill(d)
  PROVE  Service!Next \/ UNCHANGED Service!vars
<1>1. States' = [States EXCEPT ![d] = ServiceState(d)']
  BY StatesMove DEF Inv
<1>2. States \in [Daemon -> {"new", "serving", "over"}]
  BY DEF States, ServiceState
<1>3. CASE UNCHANGED <<sent, done, banned>>
  <2>1. CASE ServiceState(d)' = ServiceState(d)
    <3>1. States' = States
      BY <1>1, <1>2, <2>1, Zenon DEF States
    <3>2. QED
      BY <1>3, <3>1, Zenon DEF Service!vars, States
  <2>2. CASE ServiceState(d) = "new" /\ ServiceState(d)' = "serving"
    <3>1. Service!Serve(d)
      BY <1>1, <1>3, <2>2, Zenon DEF Service!Serve, States
    <3>2. QED
      BY <3>1, Zenon DEF Service!Next
  <2>3. CASE ServiceState(d) # "over" /\ ServiceState(d)' = "over"
    <3>1. Service!Stop(d)
      BY <1>1, <1>3, <2>3, Zenon DEF Service!Stop, States
    <3>2. QED
      BY <3>1, Zenon DEF Service!Next
  <2>4. QED
    BY <2>1, <2>2, <2>3, StatePath, Zenon DEF Inv
<1>4. CASE /\ pc[d] \in {"parse", "handle"}
           /\ EndIteration(d) /\ UNCHANGED sent
           /\ \/ UNCHANGED banned
              \/ pc[d] = "handle" /\ banned' = banned \cup {Head(cur[d])}
  <2>1. pc'[d] = "receive"
    <3>1. pc \in [Process -> DaemonLabel \cup ClientLabel]
      BY DEF Inv, TypeOK, ProcTypeOK
    <3>2. QED
      BY <1>4, <3>1 DEF EndIteration, Goto
  <2>2. ServiceState(d)' = ServiceState(d)
    BY <1>4, <2>1 DEF ServiceState, StartLabel, LoopLabel
  <2>3. States' = States
    BY <1>1, <1>2, <2>2, Zenon DEF States
  <2>4. Service!Settle(d)
    BY <1>4, <2>3, EndSettles, Zenon
  <2>5. QED
    BY <2>4, Zenon DEF Service!Next
<1>5. QED
  BY <1>3, <1>4, Unsettled, Zenon

\* The steps of a client.
LEMMA ClientAsks ==
  ASSUME Inv, NEW c \in Client,
         Connect(c) \/ CallSend(c) \/ Send(c) \/ Disconnect(c)
  PROVE  Service!Next \/ UNCHANGED Service!vars
<1>1. States' = States
  <2>1. \A d \in Daemon : pc'[d] = pc[d]
    BY ClientFrame, Zenon DEF Inv, SameDaemon, SameProcess
  <2>2. \A d \in Daemon : ServiceState(d)' = ServiceState(d)
    BY <2>1 DEF ServiceState
  <2>3. QED
    BY <2>2, Zenon DEF States
<1>2. CASE UNCHANGED <<sent, done, banned>>
  BY <1>1, <1>2, Zenon DEF Service!vars, States
<1>3. CASE Send(c) /\ ~UNCHANGED sent
  <2>1. PICK m \in Msg : cur[c] = <<m>>
    BY <1>3, Zenon DEF Send, Inv, InHand, ClientInHand
  <2>2. fd[c] \in Daemon
    BY <1>3, Zenon DEF Send, Inv, InHand, ClientInHand, TypeOK, QueueTypeOK
  <2>3. sent \in [Daemon -> Seq(Msg)]
    BY DEF Inv, TypeOK, MsgTypeOK
  <2>4. sent[fd[c]] \o <<m>> = Append(sent[fd[c]], m)
    BY <2>2, <2>3
  <2>5. sent' = [sent EXCEPT ![fd[c]] = Append(sent[fd[c]], m)] /\ UNCHANGED <<done, banned>>
    BY <1>3, <2>1, <2>4, Zenon DEF Send
  <2>6. Service!Accept(fd[c], m)
    BY <1>1, <2>5, Zenon DEF Service!Accept, States
  <2>7. QED
    BY <2>1, <2>2, <2>6, Zenon DEF Service!Next
<1>4. QED
  BY <1>2, <1>3, Zenon DEF Connect, CallSend, Send, Disconnect, msgVars

\* Daemons and clients, started, signalled and killed in any order, are a
\* service in the sense of BanService: messages accepted by mq_send are dealt
\* with in order, each at most once, by a daemon in its loop, and only addresses
\* that were sent get banned.
THEOREM Implements == Spec => ServiceSpec
<1>1. Inv /\ [Next]_vars => [Service!Next]_(Service!vars)
  <2> SUFFICES ASSUME Inv, [Next]_vars
              PROVE  Service!Next \/ UNCHANGED Service!vars
    OBVIOUS
  <2>1. CASE UNCHANGED vars
    <3>1. UNCHANGED <<pc, sent, done, banned>>
      BY <2>1, Zenon DEF vars, msgVars
    <3>2. \A d \in Daemon : ServiceState(d)' = ServiceState(d)
      BY <3>1, Zenon DEF ServiceState
    <3>3. QED
      BY <3>1, <3>2, Zenon DEF Service!vars
  <2>2. CASE Next
    BY <2>2, DaemonServes, ClientAsks, Zenon DEF Next
  <2>3. QED
    BY <2>1, <2>2
<1>2. QED
  BY <1>1, ServiceInit, Invariance, PTL DEF Spec, ServiceSpec, Service!Spec
=============================================================================
