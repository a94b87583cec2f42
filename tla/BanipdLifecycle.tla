--------------------------- MODULE BanipdLifecycle ---------------------------
(***************************************************************************)
(* What a daemon holds at each point of main() and cleanup(): the parts    *)
(* InHand, Lifecycle, Removable and PidfileKnown of the invariant of       *)
(* module BanipdProofs.                                                    *)
(*                                                                         *)
(* Before that, every step keeps the types of the variables.               *)
(*                                                                         *)
(* A step of one process touches the state of that process and a few       *)
(* shared variables.  The frame lemmas say so once; the lemma of each part *)
(* of the invariant then has one step per action for the process that      *)
(* moves and a single one for all the others.                              *)
(***************************************************************************)
EXTENDS Banipd, SequenceTheorems, TLAPS

USE QueueAssumption, BanipdAssumption DEF Daemon, Client, Process
-----------------------------------------------------------------------------
(* Types: the operations of the queue library.                             *)

\* queue_init's attributes are numbers.
LEMMA DefaultAttributesType == DefaultAttributes \in Attributes
BY DEF DefaultAttributes, Attributes

\* queue_set_attribute leaves attributes that are numbers.
LEMMA SetAttributesType ==
  ASSUME attr \in [Process -> Attributes], NEW p \in Process,
         NEW b \in Nat, NEW s \in Nat
  PROVE  SetAttributes(p, b, s) \in Attributes
BY DEF SetAttributes, Attributes

\* Opening a queue keeps the types of the library and of the kernel.
LEMMA QueueOpenType ==
  ASSUME QueueTypeOK, NEW p \in Owner, NEW to,
         \/ \E ok \in BOOLEAN : QueueInit(p, ok)
         \/ \E b, s \in Nat : QueueSetAttribute(p, b, s)
         \/ QueueOpenName(p, to)
         \/ QueueOpenOwner(p, to)
  PROVE  QueueTypeOK'
<1> USE DEF QueueTypeOK, queueVars, kernelVars, handleVars
<1>1. ASSUME NEW ok \in BOOLEAN, QueueInit(p, ok) PROVE QueueTypeOK'
  BY <1>1, DefaultAttributesType DEF QueueInit
<1>2. ASSUME NEW b \in Nat, NEW s \in Nat, QueueSetAttribute(p, b, s)
      PROVE QueueTypeOK'
  BY <1>2, SetAttributesType DEF QueueSetAttribute
<1>3. CASE QueueOpenName(p, to)
  BY <1>3 DEF QueueOpenName
<1>4. CASE QueueOpenOwner(p, to)
  <2>1. CASE UNCHANGED queueVars
    BY <2>1
  <2>2. CASE /\ MqCreate(p) /\ mq' = mq \cup {p}
             /\ UNCHANGED <<ptr, filename, attr, lostname, lost>>
    <3>1. attr[p] \in Attributes /\ <<>> \in Seq(Msg)
      BY EmptySeq
    <3>2. QED
      BY <2>2, <3>1 DEF MqCreate
  <2>3. QED
    BY <1>4, <2>1, <2>2 DEF QueueOpenOwner
<1>5. QED
  BY <1>1, <1>2, <1>3, <1>4, Zenon

\* Sending and receiving keep them.
LEMMA QueueTransferType ==
  ASSUME QueueTypeOK, NEW p \in Process, NEW m \in Msg, NEW size,
         fd[p] # NoQueue, QueueReceive(p, size) \/ QueueSend(p, m)
  PROVE  QueueTypeOK'
<1>1. fd[p] \in Owner /\ msgs[fd[p]] \in Seq(Msg)
  BY DEF QueueTypeOK
<1>2. CASE QueueReceive(p, size)
  <2>1. Tail(msgs[fd[p]]) \in Seq(Msg)
    BY <1>1, <1>2, HeadTailProperties DEF QueueReceive
  <2>2. QED
    BY <1>1, <1>2, <2>1 DEF QueueReceive, QueueTypeOK, handleVars
<1>3. CASE QueueSend(p, m)
  <2>1. Append(msgs[fd[p]], m) \in Seq(Msg)
    BY <1>1, AppendProperties, Zenon
  <2>2. QED
    BY <1>1, <1>3, <2>1 DEF QueueSend, QueueTypeOK, handleVars
<1>4. QED
  BY <1>2, <1>3

\* Closing keeps them.
LEMMA QueueCloseType ==
  ASSUME QueueTypeOK, NEW p \in Process, NEW at, NEW to, NEW permitted,
         \/ QueueOpenSender(p) \/ QueueCloseMq(p, to) \/ QueueCloseClear(p)
         \/ QueueCloseUnlink(p, permitted, to) \/ QueueCloseFree(p, at, to)
         \/ ProcessExit(p)
  PROVE  QueueTypeOK'
<1> USE DEF QueueTypeOK, queueVars, kernelVars, handleVars
<1>1. CASE QueueOpenSender(p)
  BY <1>1 DEF QueueOpenSender
<1>2. CASE QueueCloseMq(p, to)
  BY <1>2, Zenon DEF QueueCloseMq
<1>3. CASE QueueCloseClear(p)
  BY <1>3 DEF QueueCloseClear
<1>4. CASE QueueCloseUnlink(p, permitted, to)
  BY <1>4 DEF QueueCloseUnlink
<1>5. CASE QueueCloseFree(p, at, to)
  BY <1>5 DEF QueueCloseFree
<1>6. CASE ProcessExit(p)
  BY <1>6, DefaultAttributesType DEF ProcessExit
<1>7. QED
  BY <1>1, <1>2, <1>3, <1>4, <1>5, <1>6
-----------------------------------------------------------------------------
(* Types: the daemon and the clients.                                      *)

\* Variables that do not change keep their types.
LEMMA UnchangedType ==
  /\ QueueTypeOK /\ UNCHANGED queueVars => QueueTypeOK'
  /\ ProcTypeOK /\ UNCHANGED <<pc, procVars>> => ProcTypeOK'
  /\ MsgTypeOK /\ UNCHANGED msgVars => MsgTypeOK'
<1>1. QueueTypeOK /\ UNCHANGED queueVars => QueueTypeOK'
  BY DEF QueueTypeOK, queueVars, kernelVars, handleVars
<1>2. ProcTypeOK /\ UNCHANGED <<pc, procVars>> => ProcTypeOK'
  BY DEF ProcTypeOK, procVars
<1>3. MsgTypeOK /\ UNCHANGED msgVars => MsgTypeOK'
  BY DEF MsgTypeOK, msgVars
<1>4. QED
  BY <1>1, <1>2, <1>3

\* A jump to a label keeps the rest of the process's state typed.
LEMMA GotoType ==
  ASSUME ProcTypeOK, NEW p \in Process, NEW to \in DaemonLabel \cup ClientLabel,
         Goto(p, to), UNCHANGED procVars
  PROVE  ProcTypeOK'
BY DEF ProcTypeOK, Goto, procVars

\* The types hold before any process runs.
LEMMA InitType == Init => TypeOK
<1> SUFFICES ASSUME Init PROVE TypeOK
  OBVIOUS
<1>1. QueueTypeOK
  BY DefaultAttributesType, EmptySeq DEF Init, QueueInitState, QueueTypeOK
<1>2. ProcTypeOK
  BY DEF Init, ProcTypeOK, DaemonLabel, Attributes
<1>3. MsgTypeOK
  BY EmptySeq DEF Init, MsgTypeOK
<1>4. QED
  BY <1>1, <1>2, <1>3 DEF TypeOK

\* The steps of start-up keep the types.
LEMMA StartUpType ==
  ASSUME TypeOK, NEW d \in Daemon,
         \/ Start(d) \/ ParseOptions(d) \/ WritePidfile(d) \/ SetGroup(d)
         \/ OpenName(d) \/ OpenQueue(d) \/ SetUp(d) \/ DropPrivilege(d)
  PROVE  TypeOK'
<1> QueueTypeOK /\ ProcTypeOK /\ MsgTypeOK
  BY DEF TypeOK
<1> USE DEF Goto, DaemonLabel, StartLabel, LoopLabel, CleanupLabel, FreeLabel
<1>1. CASE Start(d)
  <2>1. QueueTypeOK'
    BY <1>1, QueueOpenType DEF Start
  <2>2. ProcTypeOK'
    BY <1>1 DEF Start, ProcTypeOK
  <2>3. QED
    BY <1>1, <2>1, <2>2 DEF Start, TypeOK, MsgTypeOK, msgVars
<1>2. CASE ParseOptions(d)
  <2>1. PICK named \in WithPidfile, b \in Options \cup {0}, s \in Options \cup {0} :
          /\ pid' = [pid EXCEPT ![d] = IF named THEN "named" ELSE "none"]
          /\ asked' = [asked EXCEPT ![d] = [msgsize |-> b, maxmsg |-> s]]
          /\ QueueSetAttribute(d, b, s)
    BY <1>2, Zenon DEF ParseOptions
  <2>2. b \in Nat /\ s \in Nat
    OBVIOUS
  <2>3. QueueTypeOK'
    BY <2>1, <2>2, QueueOpenType
  <2>4. [msgsize |-> b, maxmsg |-> s] \in Attributes
    BY <2>2, Zenon DEF Attributes
  <2>5. ProcTypeOK'
    BY <1>2, <2>1, <2>4 DEF ParseOptions, ProcTypeOK
  <2>6. QED
    BY <1>2, <2>3, <2>5 DEF ParseOptions, TypeOK, MsgTypeOK, msgVars
<1>3. CASE WritePidfile(d)
  <2>1. ProcTypeOK'
    BY <1>3 DEF WritePidfile, ProcTypeOK
  <2>2. QED
    BY <1>3, <2>1, UnchangedType DEF WritePidfile, TypeOK
<1>4. CASE SetGroup(d)
  BY <1>4, GotoType, UnchangedType DEF SetGroup, TypeOK
<1>5. CASE OpenName(d)
  BY <1>5, GotoType, UnchangedType, QueueOpenType, Zenon DEF OpenName, TypeOK
<1>6. CASE OpenQueue(d)
  BY <1>6, GotoType, UnchangedType, QueueOpenType, Zenon DEF OpenQueue, TypeOK
<1>7. CASE SetUp(d)
  <2>1. attr \in [Process -> Attributes]
    BY DEF QueueTypeOK
  <2>2. BufferSize(d) \in Nat
    BY <2>1 DEF BufferSize, Attributes
  <2>3. ProcTypeOK'
    BY <1>7, <2>2 DEF SetUp, ProcTypeOK
  <2>4. QED
    BY <1>7, <2>3, UnchangedType DEF SetUp, TypeOK
<1>8. CASE DropPrivilege(d)
  <2>1. ProcTypeOK'
    BY <1>8 DEF DropPrivilege, ProcTypeOK
  <2>2. QED
    BY <1>8, <2>1, UnchangedType DEF DropPrivilege, TypeOK
<1>9. QED
  BY <1>1, <1>2, <1>3, <1>4, <1>5, <1>6, <1>7, <1>8

\* The steps of the loop keep the types.
LEMMA LoopType ==
  ASSUME TypeOK, InHand, NEW d \in Daemon,
         Receive(d) \/ Parse(d) \/ HandleMessage(d)
  PROVE  TypeOK'
<1> QueueTypeOK /\ ProcTypeOK /\ MsgTypeOK
  BY DEF TypeOK
<1> USE DEF Goto, DaemonLabel, StartLabel, LoopLabel, CleanupLabel, FreeLabel
<1>1. CASE Receive(d)
  <2>1. fd[d] \in Owner /\ msgs[fd[d]] \in Seq(Msg) /\ msgs[fd[d]] # <<>>
    BY <1>1, Zenon DEF Receive, QueueReceive, QueueTypeOK
  <2>2. Head(msgs[fd[d]]) \in Msg
    BY <2>1, HeadTailProperties
  <2>3. <<Head(msgs[fd[d]])>> \in Seq(Msg)
    BY <2>2
  <2>4. MsgTypeOK'
    BY <1>1, <2>3, Zenon DEF Receive, MsgTypeOK
  <2>5. QueueTypeOK'
    BY <1>1, <2>1, <2>2, QueueTransferType, Zenon DEF Receive
  <2>6. QED
    BY <1>1, <2>4, <2>5, GotoType, Zenon DEF Receive, TypeOK
<1>2. done[d] \o cur[d] \in Seq(Msg) /\ <<>> \in Seq(Msg)
  BY ConcatProperties, EmptySeq DEF MsgTypeOK
<1>3. CASE Parse(d)
  <2>1. MsgTypeOK'
    <3>1. CASE EndIteration(d)
      BY <1>2, <1>3, <3>1 DEF Parse, EndIteration, MsgTypeOK
    <3>2. CASE UNCHANGED <<cur, done>>
      BY <1>3, <3>2 DEF Parse, MsgTypeOK
    <3>3. QED
      BY <1>3, <3>1, <3>2, Zenon DEF Parse
  <2>2. Goto(d, "handle") \/ Goto(d, "receive")
    BY <1>3, Zenon DEF Parse, EndIteration
  <2>3. UNCHANGED <<queueVars, procVars>>
    BY <1>3 DEF Parse
  <2>4. QED
    BY <2>1, <2>2, <2>3, GotoType, UnchangedType DEF TypeOK
<1>4. CASE HandleMessage(d)
  <2>1. PICK m \in Valid : cur[d] = <<m>>
    BY <1>4 DEF HandleMessage, InHand, DaemonInHand
  <2>2. Head(cur[d]) = m
    BY <2>1
  <2>3. MsgTypeOK'
    BY <1>2, <1>4, <2>2, Zenon DEF HandleMessage, EndIteration, MsgTypeOK
  <2>4. QED
    BY <1>4, <2>3, GotoType, UnchangedType, Zenon DEF HandleMessage, EndIteration, TypeOK
<1>5. QED
  BY <1>1, <1>3, <1>4

\* cleanup(), signals and the end of a process keep the types.
LEMMA EndType ==
  ASSUME TypeOK, NEW d \in Daemon,
         \/ CloseQueue(d) \/ ClearDescriptor(d) \/ UnlinkQueue(d) \/ FreeQueue(d)
         \/ RemovePidfile(d) \/ End(d) \/ OnSignal(d) \/ Kill(d)
  PROVE  TypeOK'
<1> QueueTypeOK /\ ProcTypeOK /\ MsgTypeOK
  BY DEF TypeOK
<1> USE DEF Goto, DaemonLabel, StartLabel, LoopLabel, CleanupLabel, FreeLabel
<1>1. CASE CloseQueue(d)
  <2>1. ProcTypeOK'
    BY <1>1 DEF CloseQueue, ProcTypeOK
  <2>2. QED
    BY <1>1, <2>1, QueueCloseType, UnchangedType DEF CloseQueue, TypeOK
<1>2. CASE ClearDescriptor(d)
  BY <1>2, GotoType, UnchangedType, QueueCloseType, Zenon DEF ClearDescriptor, TypeOK
<1>3. CASE UnlinkQueue(d)
  BY <1>3, GotoType, UnchangedType, QueueCloseType, Zenon DEF UnlinkQueue, TypeOK
<1>4. CASE FreeQueue(d)
  BY <1>4, GotoType, UnchangedType, QueueCloseType, Zenon DEF FreeQueue, TypeOK
<1>5. CASE RemovePidfile(d)
  <2>1. ProcTypeOK'
    BY <1>5 DEF RemovePidfile, ProcTypeOK
  <2>2. QED
    BY <1>5, <2>1, UnchangedType, Zenon DEF RemovePidfile, TypeOK
<1>6. ASSUME Die(d), UNCHANGED <<pidfile, uid, interrupted, asked, msgVars>>,
             killed' \subseteq Daemon
      PROVE  TypeOK'
  <2>1. ProcTypeOK'
    BY <1>6 DEF Die, ProcTypeOK
  <2>2. QED
    BY <1>6, <2>1, UnchangedType, QueueCloseType DEF Die, TypeOK
<1>7. CASE End(d)
  BY <1>6, <1>7 DEF End, ProcTypeOK
<1>8. CASE Kill(d)
  BY <1>6, <1>8, Zenon DEF Kill, ProcTypeOK
<1>9. CASE OnSignal(d)
  <2>1. siglimit[d] \in {2, MaxSignals} /\ nsig[d] \in 0..MaxSignals
    BY DEF ProcTypeOK
  <2>2. nsig[d] + 1 \in 0..MaxSignals
    BY <1>9, <2>1 DEF OnSignal
  <2>3. ProcTypeOK'
    BY <1>9, <2>2 DEF OnSignal, ProcTypeOK
  <2>4. QED
    BY <1>9, <2>3, UnchangedType DEF OnSignal, TypeOK
<1>10. QED
  BY <1>1, <1>2, <1>3, <1>4, <1>5, <1>7, <1>8, <1>9

\* The clients keep the types.
LEMMA ClientType ==
  ASSUME TypeOK, InHand, NEW c \in Client,
         Connect(c) \/ CallSend(c) \/ Send(c) \/ Disconnect(c)
  PROVE  TypeOK'
<1> QueueTypeOK /\ ProcTypeOK /\ MsgTypeOK
  BY Zenon DEF TypeOK
<1> USE DEF ClientLabel
<1>1. CASE Connect(c)
  BY <1>1, GotoType, UnchangedType, QueueCloseType, Zenon DEF Connect, TypeOK
<1>2. CASE CallSend(c)
  <2>1. PICK m \in Msg : cur' = [cur EXCEPT ![c] = <<m>>]
    BY <1>2, Zenon DEF CallSend
  <2>2. <<m>> \in Seq(Msg)
    OBVIOUS
  <2>3. MsgTypeOK'
    BY <1>2, <2>1, <2>2, Zenon DEF CallSend, MsgTypeOK
  <2>4. QED
    BY <1>2, <2>3, GotoType, UnchangedType DEF CallSend, TypeOK
<1>3. CASE Send(c)
  <2>1. PICK m \in Msg : cur[c] = <<m>>
    BY <1>3 DEF Send, InHand, ClientInHand
  <2>2. Head(cur[c]) = m /\ fd[c] # NoQueue /\ fd[c] \in Owner
    <3>1. fd \in [Process -> Owner \cup {NoQueue}]
      BY Zenon DEF QueueTypeOK
    <3>2. fd[c] # NoQueue
      BY <1>3, Zenon DEF Send, InHand, ClientInHand
    <3>3. QED
      BY <2>1, <3>1, <3>2
  <2>3. sent[fd[c]] \o cur[c] \in Seq(Msg) /\ <<>> \in Seq(Msg)
    BY <2>2, ConcatProperties, EmptySeq DEF MsgTypeOK
  <2>4. MsgTypeOK'
    BY <1>3, <2>2, <2>3, Zenon DEF Send, MsgTypeOK
  <2>5. QueueTypeOK'
    BY <1>3, <2>2, QueueTransferType, UnchangedType, Zenon DEF Send, QueueSendFails
  <2>6. QED
    BY <1>3, <2>4, <2>5, GotoType, Zenon DEF Send, TypeOK
<1>4. CASE Disconnect(c)
  BY <1>4, GotoType, UnchangedType, QueueCloseType DEF Disconnect, TypeOK
<1>5. QED
  BY <1>1, <1>2, <1>3, <1>4

-----------------------------------------------------------------------------
(* What a step leaves alone.                                               *)

SameProcess(p) ==
  /\ pc'[p] = pc[p] /\ cur'[p] = cur[p] /\ fd'[p] = fd[p] /\ attr'[p] = attr[p]
  /\ p \in ptr' <=> p \in ptr
  /\ p \in mq' <=> p \in mq
  /\ p \in filename' <=> p \in filename
  /\ p \in lostname' <=> p \in lostname
  /\ p \in lost' <=> p \in lost

SameDaemon(d) ==
  /\ SameProcess(d)
  /\ pid'[d] = pid[d] /\ uid'[d] = uid[d] /\ bufsize'[d] = bufsize[d]
  /\ d \in killed' <=> d \in killed
  /\ d \in interrupted' <=> d \in interrupted
  /\ kattr'[d] = kattr[d] /\ done'[d] = done[d]

SameMessages(d) == msgs'[d] = msgs[d] /\ sent'[d] = sent[d]

\* A step of a daemon leaves every other process alone.
LEMMA ProcessFrame ==
  ASSUME TypeOK, NEW d \in Daemon, NEW p \in Process \ {d},
         Start(d) \/ Step(d) \/ OnSignal(d) \/ Kill(d)
  PROVE  SameProcess(p)
<1> /\ pc \in [Process -> DaemonLabel \cup ClientLabel]
    /\ fd \in [Process -> Owner \cup {NoQueue}]
    /\ cur \in [Process -> Seq(Msg)]
    /\ attr \in [Process -> Attributes]
  BY Zenon DEF TypeOK, QueueTypeOK, ProcTypeOK, MsgTypeOK
<1> USE DEF SameProcess, Goto, procVars, msgVars, queueVars, kernelVars,
            handleVars
<1>1. CASE Start(d)
  BY <1>1, Zenon DEF Start, QueueInit
<1>2. CASE ParseOptions(d)
  BY <1>2 DEF ParseOptions, QueueSetAttribute
<1>3. CASE WritePidfile(d)
  BY <1>3 DEF WritePidfile
<1>4. CASE SetGroup(d)
  BY <1>4 DEF SetGroup
<1>5. CASE OpenName(d)
  BY <1>5, Zenon DEF OpenName, QueueOpenName
<1>6. CASE OpenQueue(d)
  BY <1>6, Zenon DEF OpenQueue, QueueOpenOwner, MqCreate
<1>7. CASE SetUp(d)
  BY <1>7 DEF SetUp
<1>8. CASE DropPrivilege(d)
  BY <1>8, Zenon DEF DropPrivilege
<1>9. CASE Receive(d)
  BY <1>9, Zenon DEF Receive, QueueReceive
<1>10. CASE Parse(d)
  BY <1>10, Zenon DEF Parse, EndIteration
<1>11. CASE HandleMessage(d)
  BY <1>11, Zenon DEF HandleMessage, EndIteration
<1>12. CASE CloseQueue(d)
  BY <1>12 DEF CloseQueue, QueueCloseMq
<1>13. CASE ClearDescriptor(d)
  BY <1>13, Zenon DEF ClearDescriptor, QueueCloseClear
<1>14. CASE UnlinkQueue(d)
  BY <1>14, Zenon DEF UnlinkQueue, QueueCloseUnlink
<1>15. CASE FreeQueue(d)
  BY <1>15, Zenon DEF FreeQueue, QueueCloseFree
<1>16. CASE RemovePidfile(d)
  BY <1>16, Zenon DEF RemovePidfile
<1>17. CASE End(d)
  BY <1>17, Zenon DEF End, Die, ProcessExit
<1>18. CASE OnSignal(d)
  BY <1>18, Zenon DEF OnSignal
<1>19. CASE Kill(d)
  BY <1>19 DEF Kill, Die, ProcessExit
<1>20. QED
  BY <1>1, <1>2, <1>3, <1>4, <1>5, <1>6, <1>7, <1>8, <1>9, <1>10, <1>11,
     <1>12, <1>13, <1>14, <1>15, <1>16, <1>17, <1>18, <1>19, Zenon DEF Step

\* It leaves what the other daemons have besides.
LEMMA DaemonFrame ==
  ASSUME TypeOK, Lifecycle, NEW d \in Daemon, NEW e \in Daemon \ {d},
         Start(d) \/ Step(d) \/ OnSignal(d) \/ Kill(d)
  PROVE  SameDaemon(e) /\ SameMessages(e)
<1> /\ pid \in [Daemon -> {"none", "named", "written"}]
    /\ uid \in [Daemon -> {"start", "nobody"}]
    /\ bufsize \in [Daemon -> Nat]
    /\ kattr \in [Owner -> Attributes]
    /\ done \in [Daemon -> Seq(Msg)]
    /\ msgs \in [Owner -> Seq(Msg)]
  BY Zenon DEF TypeOK, QueueTypeOK, ProcTypeOK, MsgTypeOK
<1> SameProcess(e)
  BY ProcessFrame, Zenon
<1> USE DEF SameDaemon, SameMessages, procVars, msgVars, queueVars,
            kernelVars, handleVars
<1>1. CASE Start(d)
  BY <1>1, Zenon DEF Start, QueueInit
<1>2. CASE ParseOptions(d)
  BY <1>2, Zenon DEF ParseOptions, QueueSetAttribute
<1>3. CASE WritePidfile(d)
  BY <1>3, Zenon DEF WritePidfile
<1>4. CASE SetGroup(d)
  BY <1>4, Zenon DEF SetGroup
<1>5. CASE OpenName(d)
  BY <1>5, Zenon DEF OpenName, QueueOpenName
<1>6. CASE OpenQueue(d)
  BY <1>6, Zenon DEF OpenQueue, QueueOpenOwner, MqCreate
<1>7. CASE SetUp(d)
  BY <1>7, Zenon DEF SetUp
<1>8. CASE DropPrivilege(d)
  BY <1>8, Zenon DEF DropPrivilege
<1>9. CASE Receive(d)
  <2>1. fd[d] = d
    BY <1>9, Zenon DEF Receive, Lifecycle, HasQueue, Open, LoopLabel
  <2>2. QED
    BY <1>9, <2>1, Zenon DEF Receive, QueueReceive
<1>10. CASE Parse(d)
  BY <1>10, Zenon DEF Parse, EndIteration
<1>11. CASE HandleMessage(d)
  BY <1>11, Zenon DEF HandleMessage, EndIteration
<1>12. CASE CloseQueue(d)
  BY <1>12, Zenon DEF CloseQueue, QueueCloseMq
<1>13. CASE ClearDescriptor(d)
  BY <1>13, Zenon DEF ClearDescriptor, QueueCloseClear
<1>14. CASE UnlinkQueue(d)
  BY <1>14, Zenon DEF UnlinkQueue, QueueCloseUnlink
<1>15. CASE FreeQueue(d)
  BY <1>15, Zenon DEF FreeQueue, QueueCloseFree
<1>16. CASE RemovePidfile(d)
  BY <1>16, Zenon DEF RemovePidfile
<1>17. CASE End(d)
  BY <1>17, Zenon DEF End, Die, ProcessExit
<1>18. CASE OnSignal(d)
  BY <1>18, Zenon DEF OnSignal
<1>19. CASE Kill(d)
  BY <1>19 DEF Kill, Die, ProcessExit
<1>20. QED
  BY <1>1, <1>2, <1>3, <1>4, <1>5, <1>6, <1>7, <1>8, <1>9, <1>10, <1>11,
     <1>12, <1>13, <1>14, <1>15, <1>16, <1>17, <1>18, <1>19, Zenon DEF Step

\* It makes the name and the pid file refer to itself, to nothing, or to what
\* they referred to.
LEMMA SharedFrame ==
  ASSUME TypeOK, NEW d \in Daemon,
         Start(d) \/ Step(d) \/ OnSignal(d) \/ Kill(d)
  PROVE  link' \in {link, d, NoQueue} /\ pidfile' \in {pidfile, d, NoPid}
<1> USE DEF procVars, msgVars, queueVars, kernelVars, handleVars
<1>1. CASE Start(d)
  BY <1>1, Zenon DEF Start, QueueInit
<1>2. CASE ParseOptions(d)
  BY <1>2 DEF ParseOptions, QueueSetAttribute
<1>3. CASE WritePidfile(d)
  BY <1>3 DEF WritePidfile
<1>4. CASE SetGroup(d)
  BY <1>4 DEF SetGroup
<1>5. CASE OpenName(d)
  BY <1>5, Zenon DEF OpenName, QueueOpenName
<1>6. CASE OpenQueue(d)
  BY <1>6 DEF OpenQueue, QueueOpenOwner, MqCreate
<1>7. CASE SetUp(d)
  BY <1>7 DEF SetUp
<1>8. CASE DropPrivilege(d)
  BY <1>8, Zenon DEF DropPrivilege
<1>9. CASE Receive(d)
  BY <1>9, Zenon DEF Receive, QueueReceive
<1>10. CASE Parse(d)
  BY <1>10, Zenon DEF Parse, EndIteration
<1>11. CASE HandleMessage(d)
  BY <1>11, Zenon DEF HandleMessage, EndIteration
<1>12. CASE CloseQueue(d)
  BY <1>12, Zenon DEF CloseQueue, QueueCloseMq
<1>13. CASE ClearDescriptor(d)
  BY <1>13, Zenon DEF ClearDescriptor, QueueCloseClear
<1>14. CASE UnlinkQueue(d)
  BY <1>14 DEF UnlinkQueue, QueueCloseUnlink
<1>15. CASE FreeQueue(d)
  BY <1>15, Zenon DEF FreeQueue, QueueCloseFree
<1>16. CASE RemovePidfile(d)
  BY <1>16 DEF RemovePidfile
<1>17. CASE End(d)
  BY <1>17, Zenon DEF End, Die, ProcessExit
<1>18. CASE OnSignal(d)
  BY <1>18, Zenon DEF OnSignal
<1>19. CASE Kill(d)
  BY <1>19 DEF Kill, Die, ProcessExit
<1>20. QED
  BY <1>1, <1>2, <1>3, <1>4, <1>5, <1>6, <1>7, <1>8, <1>9, <1>10, <1>11,
     <1>12, <1>13, <1>14, <1>15, <1>16, <1>17, <1>18, <1>19, Zenon DEF Step

\* A step of a client leaves the daemons alone, and what it sends goes to the
\* queue it opened.
LEMMA ClientFrame ==
  ASSUME TypeOK, NEW c \in Client,
         Connect(c) \/ CallSend(c) \/ Send(c) \/ Disconnect(c)
  PROVE  /\ \A d \in Daemon : SameDaemon(d)
         /\ \A d \in Daemon \ {fd[c]} : SameMessages(d)
         /\ \A b \in Client \ {c} : SameProcess(b)
         /\ link' = link /\ pidfile' = pidfile /\ fd'[c] \in {fd[c], link, NoQueue}
<1> /\ pc \in [Process -> DaemonLabel \cup ClientLabel]
    /\ fd \in [Process -> Owner \cup {NoQueue}]
    /\ cur \in [Process -> Seq(Msg)]
    /\ attr \in [Process -> Attributes]
    /\ msgs \in [Owner -> Seq(Msg)]
    /\ sent \in [Daemon -> Seq(Msg)]
  BY Zenon DEF TypeOK, QueueTypeOK, ProcTypeOK, MsgTypeOK
<1> c \notin Owner
  OBVIOUS
<1> USE DEF SameProcess, SameDaemon, SameMessages, Goto, procVars, msgVars,
            queueVars, kernelVars, handleVars
<1>1. CASE Connect(c)
  BY <1>1, Zenon DEF Connect, QueueOpenSender
<1>2. CASE CallSend(c)
  BY <1>2, Zenon DEF CallSend
<1>3. CASE Send(c)
  <2>1. CASE QueueSend(c, Head(cur[c])) /\ sent' = [sent EXCEPT ![fd[c]] = @ \o cur[c]]
    BY <1>3, <2>1, Zenon DEF Send, QueueSend
  <2>2. CASE QueueSendFails(c, Head(cur[c])) /\ UNCHANGED sent
    BY <1>3, <2>2, Zenon DEF Send, QueueSendFails
  <2>3. QED
    BY <1>3, <2>1, <2>2, Zenon DEF Send
<1>4. CASE Disconnect(c)
  BY <1>4, Zenon DEF Disconnect, ProcessExit
<1>5. QED
  BY <1>1, <1>2, <1>3, <1>4, Zenon

-----------------------------------------------------------------------------
(* Each part of the inductive invariant, for the daemon that moves.        *)

\* DaemonInHand.
LEMMA OwnInHand ==
  ASSUME TypeOK, InHand, NEW d \in Daemon,
         Start(d) \/ Step(d) \/ OnSignal(d) \/ Kill(d)
  PROVE  DaemonInHand(d)'
<1> /\ pc \in [Process -> DaemonLabel \cup ClientLabel]
    /\ fd \in [Process -> Owner \cup {NoQueue}]
    /\ cur \in [Process -> Seq(Msg)]
    /\ msgs \in [Owner -> Seq(Msg)]
  BY Zenon DEF TypeOK, QueueTypeOK, ProcTypeOK, MsgTypeOK
<1> DaemonInHand(d)
  BY Zenon DEF InHand
<1> USE DEF DaemonInHand, Goto, BeforeOpen, msgVars
<1>1. CASE Start(d)
  BY <1>1, Zenon DEF Start, QueueInit
<1>2. CASE ParseOptions(d)
  BY <1>2 DEF ParseOptions, QueueSetAttribute
<1>3. CASE WritePidfile(d)
  BY <1>3 DEF WritePidfile
<1>4. CASE SetGroup(d)
  BY <1>4 DEF SetGroup
<1>5. CASE OpenName(d)
  BY <1>5, Zenon DEF OpenName, QueueOpenName
<1>6. CASE OpenQueue(d)
  BY <1>6, Zenon DEF OpenQueue, QueueOpenOwner, MqCreate
<1>7. CASE SetUp(d)
  BY <1>7, Zenon DEF SetUp
<1>8. CASE DropPrivilege(d)
  BY <1>8 DEF DropPrivilege
<1>9. CASE Receive(d)
  <2>1. fd[d] \in Owner /\ msgs[fd[d]] # <<>>
    BY <1>9, Zenon DEF Receive, QueueReceive
  <2>2. Head(msgs[fd[d]]) \in Msg
    BY <2>1, HeadTailProperties
  <2>3. QED
    BY <1>9, <2>2, Zenon DEF Receive
<1>10. CASE Parse(d)
  <2>1. PICK m \in Msg : cur[d] = <<m>>
    BY <1>10, Zenon DEF Parse
  <2>2. Head(cur[d]) = m
    BY <2>1
  <2>3. QED
    BY <1>10, <2>1, <2>2, Zenon DEF Parse, EndIteration
<1>11. CASE HandleMessage(d)
  BY <1>11, Zenon DEF HandleMessage, EndIteration
<1>12. CASE CloseQueue(d)
  BY <1>12, Zenon DEF CloseQueue, QueueCloseMq
<1>13. CASE ClearDescriptor(d)
  BY <1>13, Zenon DEF ClearDescriptor, QueueCloseClear
<1>14. CASE UnlinkQueue(d)
  BY <1>14, Zenon DEF UnlinkQueue, QueueCloseUnlink
<1>15. CASE FreeQueue(d)
  BY <1>15, Zenon DEF FreeQueue, QueueCloseFree
<1>16. CASE RemovePidfile(d)
  BY <1>16 DEF RemovePidfile
<1>17. CASE End(d)
  BY <1>17, Zenon DEF End, Die
<1>18. CASE OnSignal(d)
  BY <1>18, Zenon DEF OnSignal, Live
<1>19. CASE Kill(d)
  BY <1>19 DEF Kill, Die
<1>20. QED
  BY <1>1, <1>2, <1>3, <1>4, <1>5, <1>6, <1>7, <1>8, <1>9, <1>10, <1>11,
     <1>12, <1>13, <1>14, <1>15, <1>16, <1>17, <1>18, <1>19, Zenon DEF Step

\* HasQueue.
LEMMA OwnLifecycle ==
  ASSUME TypeOK, Lifecycle, NEW d \in Daemon,
         Start(d) \/ Step(d) \/ OnSignal(d) \/ Kill(d)
  PROVE  HasQueue(d)'
<1> /\ pc \in [Process -> DaemonLabel \cup ClientLabel]
    /\ fd \in [Process -> Owner \cup {NoQueue}]
    /\ link \in Owner \cup {NoQueue}
    /\ msgs \in [Owner -> Seq(Msg)]
  BY Zenon DEF TypeOK, QueueTypeOK, ProcTypeOK, MsgTypeOK
<1> HasQueue(d) /\ d \notin Client
  BY Zenon DEF Lifecycle
<1> USE DEF HasQueue, Goto, BeforeOpen, Open, DaemonLabel, StartLabel,
            LoopLabel, CleanupLabel, FreeLabel, ClientLabel, procVars, msgVars,
            queueVars, kernelVars, handleVars
<1>1. CASE Start(d)
  BY <1>1, Zenon DEF Start, QueueInit
<1>2. CASE ParseOptions(d)
  BY <1>2, Zenon DEF ParseOptions, QueueSetAttribute
<1>3. CASE WritePidfile(d)
  BY <1>3, Zenon DEF WritePidfile
<1>4. CASE SetGroup(d)
  <2>1. UNCHANGED <<queueVars, msgVars>> /\ pc[d] = "setgid" /\ pc'[d] \in {"qname", "close"}
    BY <1>4, Zenon DEF SetGroup
  <2>2. QED
    BY <2>1
<1>5. CASE OpenName(d)
  BY <1>5, Zenon DEF OpenName, QueueOpenName
<1>6. CASE OpenQueue(d)
  BY <1>6, Zenon DEF OpenQueue, QueueOpenOwner, MqCreate
<1>7. CASE SetUp(d)
  <2>1. UNCHANGED queueVars /\ pc[d] = "setup" /\ pc'[d] \in {"drop", "close"}
    BY <1>7, Zenon DEF SetUp
  <2>2. UNCHANGED msgVars
    BY <1>7, Zenon DEF SetUp
  <2>3. QED
    BY <2>1, <2>2
<1>8. CASE DropPrivilege(d)
  <2>1. UNCHANGED queueVars /\ pc[d] = "drop" /\ pc'[d] \in {"receive", "close"}
    BY <1>8, Zenon DEF DropPrivilege
  <2>2. UNCHANGED msgVars
    BY <1>8, Zenon DEF DropPrivilege
  <2>3. QED
    BY <2>1, <2>2
<1>9. CASE Receive(d)
  BY <1>9, Zenon DEF Receive, QueueReceive
<1>10. CASE Parse(d)
  <2>1. UNCHANGED queueVars /\ pc[d] = "parse" /\ pc'[d] \in {"handle", "receive"}
    BY <1>10, Zenon DEF Parse, EndIteration
  <2>2. QED
    BY <2>1
<1>11. CASE HandleMessage(d)
  BY <1>11, Zenon DEF HandleMessage, EndIteration
<1>12. CASE CloseQueue(d)
  BY <1>12, Zenon DEF CloseQueue, QueueCloseMq
<1>13. CASE ClearDescriptor(d)
  BY <1>13, Zenon DEF ClearDescriptor, QueueCloseClear
<1>14. CASE UnlinkQueue(d)
  BY <1>14, Zenon DEF UnlinkQueue, QueueCloseUnlink
<1>15. CASE FreeQueue(d)
  BY <1>15, Zenon DEF FreeQueue, QueueCloseFree
<1>16. CASE RemovePidfile(d)
  BY <1>16, Zenon DEF RemovePidfile
<1>17. CASE End(d)
  BY <1>17, Zenon DEF End, Die, ProcessExit
<1>18. CASE OnSignal(d)
  BY <1>18, Zenon DEF OnSignal
<1>19. CASE Kill(d)
  BY <1>19, Zenon DEF Kill, Die, ProcessExit
<1>20. QED
  BY <1>1, <1>2, <1>3, <1>4, <1>5, <1>6, <1>7, <1>8, <1>9, <1>10, <1>11,
     <1>12, <1>13, <1>14, <1>15, <1>16, <1>17, <1>18, <1>19, Zenon DEF Step

\* CanRemove.
LEMMA OwnRemovable ==
  ASSUME TypeOK, Lifecycle, Removable, NEW d \in Daemon,
         Start(d) \/ Step(d) \/ OnSignal(d) \/ Kill(d)
  PROVE  CanRemove(d)'
<1> /\ pc \in [Process -> DaemonLabel \cup ClientLabel]
    /\ fd \in [Process -> Owner \cup {NoQueue}]
    /\ link \in Owner \cup {NoQueue}
    /\ uid \in [Daemon -> {"start", "nobody"}]
  BY Zenon DEF TypeOK, QueueTypeOK, ProcTypeOK, MsgTypeOK
<1> HasQueue(d) /\ CanRemove(d)
  BY DEF Lifecycle, Removable
<1>0. ASSUME UNCHANGED <<link, fd, ptr, mq, filename, lost, lostname>>,
             pc[d] \in Open, pc'[d] \in Open \cup {"close"}
      PROVE  CanRemove(d)'
  <2>1. pc[d] \notin {"unborn", "dead"}
    BY <1>0 DEF Open, LoopLabel
  <2>2. pc'[d] \notin FreeLabel \cup {"unpid", "end", "dead"}
    BY <1>0 DEF Open, LoopLabel, FreeLabel
  <2>3. fd[d] # NoQueue
    BY <1>0 DEF HasQueue
  <2>4. QED
    BY <1>0, <2>1, <2>2, <2>3, Zenon DEF CanRemove, Live
<1> USE DEF HasQueue, CanRemove, Live, MayRemove, Goto, BeforeOpen, Open,
            DaemonLabel, StartLabel, LoopLabel, CleanupLabel, FreeLabel, ClientLabel,
            procVars, msgVars, queueVars, kernelVars, handleVars
<1>1. CASE Start(d)
  BY <1>1, Zenon DEF Start, QueueInit
<1>2. CASE ParseOptions(d)
  BY <1>2, Zenon DEF ParseOptions, QueueSetAttribute
<1>3. CASE WritePidfile(d)
  BY <1>3, Zenon DEF WritePidfile
<1>4. CASE SetGroup(d)
  BY <1>4, Zenon DEF SetGroup
<1>5. CASE OpenName(d)
  BY <1>5 DEF OpenName, QueueOpenName
<1>6. CASE OpenQueue(d)
  <2>1. d \in ptr /\ d \in filename
    BY <1>6, Zenon DEF OpenQueue
  <2>2. CASE QueueOpenOwner(d, "setup") /\ Goto(d, "setup")
    <3>1. pc'[d] = "setup" /\ UNCHANGED <<ptr, filename, lost, lostname>>
      BY <2>2, Zenon DEF QueueOpenOwner
    <3>2. d \notin lost \cup lostname
      BY <1>6, Zenon DEF OpenQueue
    <3>3. QED
      BY <2>1, <3>1, <3>2
  <2>3. CASE QueueOpenOwner(d, "close") /\ Goto(d, "close")
    BY <1>6, <2>3, Zenon DEF OpenQueue, QueueOpenOwner
  <2>4. QED
    BY <1>6, <2>2, <2>3, Zenon DEF OpenQueue
<1>7. CASE SetUp(d)
  <2>1. UNCHANGED <<link, fd, ptr, mq, filename, lost, lostname>>
    BY <1>7, Zenon DEF SetUp
  <2>2. pc[d] \in Open /\ pc'[d] \in Open \cup {"close"}
    BY <1>7, Zenon DEF SetUp
  <2>3. QED
    BY <1>0, <2>1, <2>2, Zenon
<1>8. CASE DropPrivilege(d)
  <2>1. UNCHANGED <<link, fd, ptr, mq, filename, lost, lostname>>
    BY <1>8, Zenon DEF DropPrivilege
  <2>2. pc[d] \in Open /\ pc'[d] \in Open \cup {"close"}
    BY <1>8, Zenon DEF DropPrivilege
  <2>3. QED
    BY <1>0, <2>1, <2>2, Zenon
<1>9. CASE Receive(d)
  <2>1. UNCHANGED <<link, fd, ptr, mq, filename, lost, lostname>>
    BY <1>9, Zenon DEF Receive, QueueReceive
  <2>2. pc[d] \in Open /\ pc'[d] \in Open \cup {"close"}
    BY <1>9, Zenon DEF Receive, QueueReceive
  <2>3. QED
    BY <1>0, <2>1, <2>2, Zenon
<1>10. CASE Parse(d)
  <2>1. UNCHANGED <<link, fd, ptr, mq, filename, lost, lostname>>
    BY <1>10, Zenon DEF Parse, EndIteration
  <2>2. pc[d] \in Open /\ pc'[d] \in Open \cup {"close"}
    BY <1>10, Zenon DEF Parse, EndIteration
  <2>3. QED
    BY <1>0, <2>1, <2>2, Zenon
<1>11. CASE HandleMessage(d)
  <2>1. UNCHANGED <<link, fd, ptr, mq, filename, lost, lostname>>
    BY <1>11, Zenon DEF HandleMessage, EndIteration
  <2>2. pc[d] \in Open /\ pc'[d] \in Open \cup {"close"}
    BY <1>11, Zenon DEF HandleMessage, EndIteration
  <2>3. QED
    BY <1>0, <2>1, <2>2, Zenon
<1>12. CASE CloseQueue(d)
  BY <1>12, Zenon DEF CloseQueue, QueueCloseMq
<1>13. CASE ClearDescriptor(d)
  BY <1>13, Zenon DEF ClearDescriptor, QueueCloseClear
<1>14. CASE UnlinkQueue(d)
  BY <1>14, Zenon DEF UnlinkQueue, QueueCloseUnlink
<1>15. CASE FreeQueue(d)
  BY <1>15, Zenon DEF FreeQueue, QueueCloseFree
<1>16. CASE RemovePidfile(d)
  BY <1>16, Zenon DEF RemovePidfile
<1>17. CASE End(d)
  BY <1>17, Zenon DEF End, Die, ProcessExit
<1>18. CASE OnSignal(d)
  BY <1>18, Zenon DEF OnSignal
<1>19. CASE Kill(d)
  BY <1>19, Zenon DEF Kill, Die, ProcessExit
<1>20. QED
  BY <1>1, <1>2, <1>3, <1>4, <1>5, <1>6, <1>7, <1>8, <1>9, <1>10, <1>11,
     <1>12, <1>13, <1>14, <1>15, <1>16, <1>17, <1>18, <1>19, Zenon DEF Step

\* KnowsPidfile.
LEMMA OwnPidfile ==
  ASSUME TypeOK, Lifecycle, PidfileKnown, NEW d \in Daemon,
         Start(d) \/ Step(d) \/ OnSignal(d) \/ Kill(d)
  PROVE  KnowsPidfile(d)'
<1> /\ pc \in [Process -> DaemonLabel \cup ClientLabel]
    /\ uid \in [Daemon -> {"start", "nobody"}]
    /\ pid \in [Daemon -> {"none", "named", "written"}]
    /\ pidfile \in Daemon \cup {NoPid}
  BY Zenon DEF TypeOK, QueueTypeOK, ProcTypeOK, MsgTypeOK
<1> KnowsPidfile(d)
  BY Zenon DEF PidfileKnown
<1> USE DEF KnowsPidfile, Live, MayRemove, Goto, procVars
<1>1. CASE Start(d)
  BY <1>1, Zenon DEF Start, QueueInit
<1>2. CASE ParseOptions(d)
  BY <1>2, Zenon DEF ParseOptions, QueueSetAttribute
<1>3. CASE WritePidfile(d)
  BY <1>3, Zenon DEF WritePidfile
<1>4. CASE SetGroup(d)
  BY <1>4, Zenon DEF SetGroup
<1>5. CASE OpenName(d)
  BY <1>5, Zenon DEF OpenName, QueueOpenName
<1>6. CASE OpenQueue(d)
  BY <1>6, Zenon DEF OpenQueue, QueueOpenOwner, MqCreate
<1>7. CASE SetUp(d)
  BY <1>7, Zenon DEF SetUp
<1>8. CASE DropPrivilege(d)
  BY <1>8 DEF DropPrivilege
<1>9. CASE Receive(d)
  BY <1>9, Zenon DEF Receive, QueueReceive
<1>10. CASE Parse(d)
  BY <1>10, Zenon DEF Parse, EndIteration
<1>11. CASE HandleMessage(d)
  BY <1>11, Zenon DEF HandleMessage, EndIteration
<1>12. CASE CloseQueue(d)
  BY <1>12 DEF CloseQueue, QueueCloseMq
<1>13. CASE ClearDescriptor(d)
  BY <1>13, Zenon DEF ClearDescriptor, QueueCloseClear
<1>14. CASE UnlinkQueue(d)
  BY <1>14, Zenon DEF UnlinkQueue, QueueCloseUnlink
<1>15. CASE FreeQueue(d)
  BY <1>15, Zenon DEF FreeQueue, QueueCloseFree
<1>16. CASE RemovePidfile(d)
  BY <1>16, Zenon DEF RemovePidfile
<1>17. CASE End(d)
  BY <1>17, Zenon DEF End, Die, ProcessExit
<1>18. CASE OnSignal(d)
  BY <1>18, Zenon DEF OnSignal
<1>19. CASE Kill(d)
  BY <1>19 DEF Kill, Die, ProcessExit
<1>20. QED
  BY <1>1, <1>2, <1>3, <1>4, <1>5, <1>6, <1>7, <1>8, <1>9, <1>10, <1>11,
     <1>12, <1>13, <1>14, <1>15, <1>16, <1>17, <1>18, <1>19, Zenon DEF Step
-----------------------------------------------------------------------------
(* Each part of the inductive invariant, for every process.                *)

\* InHand.
LEMMA InHandStep ==
  ASSUME TypeOK, InHand, Lifecycle, [Next]_vars
  PROVE  InHand'
<1>1. ASSUME NEW d \in Daemon, Start(d) \/ Step(d) \/ OnSignal(d) \/ Kill(d)
      PROVE  InHand'
  <2>1. DaemonInHand(d)'
    BY <1>1, OwnInHand, Zenon
  <2>2. ASSUME NEW e \in Daemon \ {d} PROVE DaemonInHand(e)'
    <3>1. SameProcess(e)
      BY <1>1, ProcessFrame, Zenon
    <3>2. QED
      BY <3>1 DEF InHand, DaemonInHand, SameProcess
  <2>3. ASSUME NEW c \in Client PROVE ClientInHand(c)'
    <3>1. SameProcess(c)
      BY <1>1, ProcessFrame
    <3>2. QED
      BY <3>1 DEF InHand, ClientInHand, SameProcess
  <2>4. QED
    BY <2>1, <2>2, <2>3 DEF InHand
<1>2. ASSUME NEW c \in Client, Connect(c) \/ CallSend(c) \/ Send(c) \/ Disconnect(c)
      PROVE  InHand'
  <2>1. \A d \in Daemon : SameProcess(d)
    BY <1>2, ClientFrame, Zenon DEF SameDaemon
  <2>2. \A b \in Client \ {c} : SameProcess(b)
    BY <1>2, ClientFrame, Zenon
  <2>3. ASSUME NEW d \in Daemon PROVE DaemonInHand(d)'
    BY <2>1, Zenon DEF InHand, DaemonInHand, SameProcess
  <2>4. ASSUME NEW b \in Client \ {c} PROVE ClientInHand(b)'
    BY <2>2, Zenon DEF InHand, ClientInHand, SameProcess
  <2>5. ClientInHand(c)'
    <3> /\ pc \in [Process -> DaemonLabel \cup ClientLabel]
        /\ cur \in [Process -> Seq(Msg)]
        /\ fd \in [Process -> Owner \cup {NoQueue}]
        /\ ClientInHand(c)
      BY Zenon DEF TypeOK, QueueTypeOK, ProcTypeOK, MsgTypeOK, InHand
    <3> USE DEF ClientInHand, ClientLabel, Goto, queueVars, kernelVars
    <3>1. CASE Connect(c)
      BY <3>1 DEF Connect, QueueOpenSender, msgVars
    <3>2. CASE CallSend(c)
      BY <3>2, Zenon DEF CallSend
    <3>3. CASE Send(c)
      BY <3>3, Zenon DEF Send, QueueSend, QueueSendFails
    <3>4. CASE Disconnect(c)
      BY <3>4, Zenon DEF Disconnect
    <3>5. QED
      BY <1>2, <3>1, <3>2, <3>3, <3>4, Zenon
  <2>6. QED
    BY <2>3, <2>4, <2>5, Zenon DEF InHand
<1>3. CASE UNCHANGED vars
  BY <1>3 DEF vars, InHand, DaemonInHand, ClientInHand, msgVars, queueVars, kernelVars
<1>4. QED
  BY <1>1, <1>2, <1>3 DEF Next

\* Lifecycle.
LEMMA LifecycleStep ==
  ASSUME TypeOK, InHand, Lifecycle, [Next]_vars
  PROVE  Lifecycle'
<1>1. ASSUME NEW d \in Daemon, Start(d) \/ Step(d) \/ OnSignal(d) \/ Kill(d)
      PROVE  Lifecycle'
  <2>1. HasQueue(d)'
    BY <1>1, OwnLifecycle, Zenon
  <2>2. ASSUME NEW e \in Daemon \ {d} PROVE HasQueue(e)'
    <3>1. SameDaemon(e) /\ SameMessages(e)
      BY <1>1, DaemonFrame, Zenon
    <3>2. \A c \in Client : fd'[c] = fd[c]
      BY <1>1, ProcessFrame DEF SameProcess
    <3>3. link' \in {link, d, NoQueue}
      BY <1>1, SharedFrame, Zenon
    <3>4. HasQueue(e) /\ link # e => link' # e
      BY <3>3 DEF HasQueue
    <3>5. HasQueue(e)
      BY DEF Lifecycle
    <3>6. QED
      BY <3>1, <3>2, <3>4, <3>5, Zenon DEF HasQueue, SameDaemon, SameProcess, SameMessages
  <2>3. QED
    BY <2>1, <2>2 DEF Lifecycle
<1>2. ASSUME NEW c \in Client, Connect(c) \/ CallSend(c) \/ Send(c) \/ Disconnect(c),
             NEW d \in Daemon
      PROVE  HasQueue(d)'
  <2>1. SameDaemon(d) /\ link' = link /\ fd'[c] \in {fd[c], link, NoQueue}
    BY <1>2, ClientFrame, Zenon
  <2>2. \A b \in Client \ {c} : fd'[b] = fd[b]
    BY <1>2, ClientFrame, Zenon DEF SameProcess
  <2>3. HasQueue(d)
    BY Zenon DEF Lifecycle
  <2>4. CASE pc[d] \in BeforeOpen
    <3>1. d # fd[c] /\ link # d /\ \A b \in Client : fd[b] # d
      BY <2>3, <2>4, Zenon DEF HasQueue
    <3>2. SameMessages(d)
      BY <1>2, <3>1, ClientFrame, Zenon
    <3>3. \A b \in Client : fd'[b] # d
      BY <2>1, <2>2, <3>1
    <3>4. QED
      BY <2>1, <2>3, <3>1, <3>2, <3>3, Zenon
      DEF HasQueue, SameDaemon, SameProcess, SameMessages
  <2>5. CASE pc[d] \notin BeforeOpen
    BY <2>1, <2>3, <2>5, Zenon DEF HasQueue, SameDaemon, SameProcess
  <2>6. QED
    BY <2>4, <2>5
<1>3. CASE UNCHANGED vars
  BY <1>3 DEF vars, Lifecycle, HasQueue, msgVars, queueVars, kernelVars, handleVars
<1>4. QED
  BY <1>1, <1>2, <1>3 DEF Next, Lifecycle

\* Removable.
LEMMA RemovableStep ==
  ASSUME TypeOK, Lifecycle, Removable, [Next]_vars
  PROVE  Removable'
<1>1. ASSUME NEW d \in Daemon, Start(d) \/ Step(d) \/ OnSignal(d) \/ Kill(d)
      PROVE  Removable'
  <2>1. CanRemove(d)'
    BY <1>1, OwnRemovable, Zenon
  <2>2. ASSUME NEW e \in Daemon \ {d} PROVE CanRemove(e)'
    <3>1. SameDaemon(e) /\ link' \in {link, d, NoQueue}
      BY <1>1, DaemonFrame, SharedFrame, Zenon
    <3>2. QED
      BY <3>1 DEF Removable, CanRemove, Live, SameDaemon, SameProcess
  <2>3. QED
    BY <2>1, <2>2 DEF Removable
<1>2. ASSUME NEW c \in Client, Connect(c) \/ CallSend(c) \/ Send(c) \/ Disconnect(c),
             NEW d \in Daemon
      PROVE  CanRemove(d)'
  <2>1. SameDaemon(d) /\ link' = link
    BY <1>2, ClientFrame, Zenon
  <2>2. QED
    BY <2>1, Zenon DEF Removable, CanRemove, Live, SameDaemon, SameProcess
<1>3. CASE UNCHANGED vars
  BY <1>3, Zenon DEF vars, Removable, CanRemove, Live, procVars, queueVars,
                        kernelVars, handleVars
<1>4. QED
  BY <1>1, <1>2, <1>3 DEF Next, Removable

\* PidfileKnown.
LEMMA PidfileKnownStep ==
  ASSUME TypeOK, Lifecycle, PidfileKnown, [Next]_vars
  PROVE  PidfileKnown'
<1>1. ASSUME NEW d \in Daemon, Start(d) \/ Step(d) \/ OnSignal(d) \/ Kill(d)
      PROVE  PidfileKnown'
  <2>1. KnowsPidfile(d)'
    BY <1>1, OwnPidfile, Zenon
  <2>2. ASSUME NEW e \in Daemon \ {d} PROVE KnowsPidfile(e)'
    <3>1. SameDaemon(e) /\ pidfile' \in {pidfile, d, NoPid}
      BY <1>1, DaemonFrame, SharedFrame, Zenon
    <3>2. QED
      BY <3>1 DEF PidfileKnown, KnowsPidfile, Live, SameDaemon, SameProcess
  <2>3. QED
    BY <2>1, <2>2 DEF PidfileKnown
<1>2. ASSUME NEW c \in Client, Connect(c) \/ CallSend(c) \/ Send(c) \/ Disconnect(c),
             NEW d \in Daemon
      PROVE  KnowsPidfile(d)'
  <2>1. SameDaemon(d) /\ pidfile' = pidfile
    BY <1>2, ClientFrame, Zenon
  <2>2. QED
    BY <2>1, Zenon DEF PidfileKnown, KnowsPidfile, Live, SameDaemon, SameProcess
<1>3. CASE UNCHANGED vars
  BY <1>3 DEF vars, PidfileKnown, KnowsPidfile, Live, procVars
<1>4. QED
  BY <1>1, <1>2, <1>3 DEF Next, PidfileKnown
=============================================================================
