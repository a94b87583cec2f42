----------------------------- MODULE PosixQueue -----------------------------
(***************************************************************************)
(* queues/posix.c, the message queue library of banip, over the kernel's   *)
(* POSIX message queues, for one queue name shared by every process.       *)
(*                                                                         *)
(* A process is one run of a program: a restarted daemon is another        *)
(* process.  A process opens a queue at most once, so the kernel queue     *)
(* that owner k creates is called k.                                       *)
(*                                                                         *)
(* The kernel's part (mq_open, mq_send, mq_receive, mq_close, mq_unlink)   *)
(* is modelled from the way posix.c uses it: creation with O_EXCL is       *)
(* atomic, a queue outlives its name while a descriptor is open, mq_send   *)
(* blocks on a full queue and mq_receive on an empty one.                  *)
(*                                                                         *)
(* Calls that several processes, or a signal, can interleave with are cut  *)
(* into steps.  A step takes the label "to" of the caller's next location  *)
(* and holds only when the code really goes there.                         *)
(***************************************************************************)
EXTENDS Integers, Sequences

CONSTANTS
  Owner,           \* processes that open the queue with QUEUE_FL_OWNER
  Sender,          \* processes that open it with QUEUE_FL_SENDER
  Msg,             \* message texts
  MsgLen,          \* their lengths
  DefaultMaxMsg,   \* mq_maxmsg set by queue_init (10 in the code)
  DefaultMsgSize,  \* mq_msgsize set by queue_init (1024 in the code)
  NoQueue          \* no kernel queue

ASSUME QueueAssumption ==
  /\ Owner \cap Sender = {}
  /\ NoQueue \notin Owner
  /\ MsgLen \in [Msg -> Nat]
  /\ DefaultMaxMsg \in Nat \ {0}
  /\ DefaultMsgSize \in Nat \ {0}

Process == Owner \cup Sender

Attributes == [msgsize : Nat, maxmsg : Nat]

VARIABLES
  link,      \* the kernel queue the name refers to
  msgs,      \* the messages in each kernel queue
  kattr,     \* the attributes of each kernel queue
  fd,        \* the kernel queue a process has a descriptor of
  ptr,       \* the processes that have a posix_queue_t
  mq,        \* those whose mq is a descriptor, not NOT_MQD_T
  filename,  \* those whose filename is not NULL
  attr,      \* the attr of each
  lostname,  \* those whose filename, not NULL, has been freed
  lost       \* those whose posix_queue_t has been freed, but not its pointer cleared

kernelVars == <<link, msgs, kattr, fd>>
handleVars == <<ptr, mq, filename, attr, lostname, lost>>
queueVars == <<kernelVars, handleVars>>

QueueTypeOK ==
  /\ link \in Owner \cup {NoQueue}
  /\ msgs \in [Owner -> Seq(Msg)]
  /\ kattr \in [Owner -> Attributes]
  /\ fd \in [Process -> Owner \cup {NoQueue}]
  /\ ptr \subseteq Process
  /\ mq \subseteq Process
  /\ filename \subseteq Process
  /\ attr \in [Process -> Attributes]
  /\ lostname \subseteq Process
  /\ lost \subseteq Process

\* The attributes queue_init sets.
DefaultAttributes == [msgsize |-> DefaultMsgSize, maxmsg |-> DefaultMaxMsg]

QueueInitState ==
  /\ link = NoQueue
  /\ msgs = [k \in Owner |-> <<>>]
  /\ kattr = [k \in Owner |-> DefaultAttributes]
  /\ fd = [p \in Process |-> NoQueue]
  /\ ptr = {}
  /\ mq = {}
  /\ filename = {}
  /\ attr = [p \in Process |-> DefaultAttributes]
  /\ lostname = {}
  /\ lost = {}
-----------------------------------------------------------------------------
\* queue_init: mq is NOT_MQD_T, filename NULL; malloc may fail.
QueueInit(p, ok) ==
  /\ ptr' = IF ok THEN ptr \cup {p} ELSE ptr
  /\ mq' = mq \ {p}
  /\ filename' = filename \ {p}
  /\ attr' = [attr EXCEPT ![p] = DefaultAttributes]
  /\ UNCHANGED <<kernelVars, lostname, lost>>

\* queue_set_attribute, called for each option that was given (0: it was not).
\* It is refused (QUEUE_ERR_NOT_OWNER) unless filename is set, which only
\* queue_open does.
SetAttributes(p, msgsize, maxmsg) ==
  [msgsize |-> IF p \in filename /\ msgsize > 0 THEN msgsize ELSE attr[p].msgsize,
   maxmsg |-> IF p \in filename /\ maxmsg > 0 THEN maxmsg ELSE attr[p].maxmsg]

QueueSetAttribute(p, msgsize, maxmsg) ==
  /\ attr' = [attr EXCEPT ![p] = SetAttributes(p, msgsize, maxmsg)]
  /\ UNCHANGED <<kernelVars, ptr, mq, filename, lostname, lost>>

\* Variant: the name is not kept.
QueueOpenNameLost(p, to) ==
  /\ to \in {"qopen", "close"}
  /\ UNCHANGED queueVars

\* queue_open for the owner, first half: strdup of the name, which may fail.
QueueOpenName(p, to) ==
  /\ \/ to = "qopen" /\ filename' = filename \cup {p}
     \/ to = "close" /\ UNCHANGED filename
  /\ UNCHANGED <<kernelVars, ptr, mq, attr, lostname, lost>>

\* Variant: mq_open without O_EXCL.
MqCreateOrOpen(p) ==
  /\ link' = IF link = NoQueue THEN p ELSE link
  /\ kattr' = IF link = NoQueue THEN [kattr EXCEPT ![p] = attr[p]] ELSE kattr
  /\ fd' = [fd EXCEPT ![p] = link']
  /\ UNCHANGED msgs

\* mq_open with O_CREAT | O_EXCL and the attributes of the handle.
MqCreate(p) ==
  /\ link = NoQueue
  /\ link' = p
  /\ msgs' = [msgs EXCEPT ![p] = <<>>]
  /\ kattr' = [kattr EXCEPT ![p] = attr[p]]
  /\ fd' = [fd EXCEPT ![p] = p]

\* Variant: a failure of mq_open goes unnoticed.
QueueOpenOwnerUnchecked(p, to) ==
  /\ to = "setup"
  /\ \/ MqCreate(p) /\ mq' = mq \cup {p} /\ UNCHANGED <<ptr, filename, attr, lostname, lost>>
     \/ UNCHANGED queueVars

\* queue_open for the owner, second half.  mq_open fails when the name exists,
\* and may fail for want of resources or of the kernel module; filename stays
\* set then.
QueueOpenOwner(p, to) ==
  \/ /\ to = "setup"
     /\ MqCreate(p)
     /\ mq' = mq \cup {p}
     /\ UNCHANGED <<ptr, filename, attr, lostname, lost>>
  \/ /\ to = "close"
     /\ UNCHANGED queueVars

\* queue_init and queue_open for a sender: mq_open with O_WRONLY, mq_getattr.
QueueOpenSender(p) ==
  /\ link # NoQueue
  /\ fd' = [fd EXCEPT ![p] = link]
  /\ ptr' = ptr \cup {p}
  /\ mq' = mq \cup {p}
  /\ attr' = [attr EXCEPT ![p] = kattr[link]]
  /\ UNCHANGED <<link, msgs, kattr, filename, lostname, lost>>

\* queue_receive, the mq_receive that returns a message: it wants a buffer no
\* smaller than the queue's messages.  The caller stores the message.
QueueReceive(p, size) ==
  /\ fd[p] # NoQueue
  /\ size >= kattr[fd[p]].msgsize
  /\ msgs[fd[p]] # <<>>
  /\ msgs' = [msgs EXCEPT ![fd[p]] = Tail(@)]
  /\ UNCHANGED <<link, kattr, fd, handleVars>>

\* Variant: a full queue drops the message.
QueueSendOrDrop(p, m) ==
  /\ MsgLen[m] <= kattr[fd[p]].msgsize
  /\ msgs' = IF Len(msgs[fd[p]]) < kattr[fd[p]].maxmsg
               THEN [msgs EXCEPT ![fd[p]] = Append(@, m)] ELSE msgs
  /\ UNCHANGED <<link, kattr, fd, handleVars>>

\* queue_send: mq_send waits for room, and refuses what is too long at once.
QueueSend(p, m) ==
  /\ MsgLen[m] <= kattr[fd[p]].msgsize
  /\ Len(msgs[fd[p]]) < kattr[fd[p]].maxmsg
  /\ msgs' = [msgs EXCEPT ![fd[p]] = Append(@, m)]
  /\ UNCHANGED <<link, kattr, fd, handleVars>>

QueueSendFails(p, m) ==
  /\ MsgLen[m] > kattr[fd[p]].msgsize
  /\ UNCHANGED queueVars
-----------------------------------------------------------------------------
\* Variant: mq_close is tried again for as long as it fails.
QueueCloseMqRetried(p, to) ==
  /\ \/ to = "unpid" /\ p \notin ptr /\ UNCHANGED fd
     \/ /\ to = "clear"
        /\ p \in ptr /\ p \in mq /\ fd[p] # NoQueue
        /\ fd' = [fd EXCEPT ![p] = NoQueue]
     \/ to = "unlink" /\ p \in ptr /\ p \notin mq /\ UNCHANGED fd
  /\ UNCHANGED <<link, msgs, kattr, handleVars>>

\* queue_close up to mq_close.  The pointer is NULL once the queue was closed;
\* mq_close fails (EBADF) when the descriptor is already closed.  What is read of
\* a posix_queue_t that was freed may be anything.
QueueCloseMq(p, to) ==
  /\ \/ /\ to = "unpid"
        /\ p \notin ptr \/ (p \in mq /\ fd[p] = NoQueue) \/ p \in lost
        /\ UNCHANGED fd
     \/ /\ to = "clear"
        /\ p \in ptr /\ p \in mq /\ fd[p] # NoQueue
        /\ fd' = [fd EXCEPT ![p] = NoQueue]
     \/ /\ to = "unlink"
        /\ p \in ptr /\ (p \notin mq \/ p \in lost)
        /\ UNCHANGED fd
  /\ UNCHANGED <<link, msgs, kattr, handleVars>>

\* q->mq = NOT_MQD_T, after mq_close.
QueueCloseClear(p) ==
  /\ mq' = mq \ {p}
  /\ UNCHANGED <<kernelVars, ptr, filename, attr, lostname, lost>>

\* mq_unlink, for whoever has filename set ("we are the owner").  It fails when
\* the name is gone or the caller may not remove it, and may fail when filename
\* was freed; queue_close then stops half way.
QueueCloseUnlink(p, permitted, to) ==
  /\ \/ /\ to = "free"
        /\ p \in filename \cup lost /\ link # NoQueue /\ permitted
        /\ link' = NoQueue
     \/ /\ to = "freeq"
        /\ p \notin filename \/ p \in lost
        /\ UNCHANGED link
     \/ /\ to = "unpid"
        /\ \/ p \in filename /\ (link = NoQueue \/ ~permitted)
           \/ p \in lostname \cup lost
        /\ UNCHANGED link
  /\ UNCHANGED <<msgs, kattr, fd, handleVars>>

\* The end of queue_close from label "at": filename is freed and cleared, then
\* the posix_queue_t and the caller's pointer.  To free one of them twice may end
\* the process, as Kill does in module Banipd.
QueueCloseFree(p, at, to) ==
  /\ \/ /\ at = "free" /\ to = "noname"
        /\ lostname' = lostname \cup {p}
        /\ UNCHANGED <<ptr, mq, filename, lost>>
     \/ /\ at = "noname" /\ to = "freeq"
        /\ filename' = filename \ {p} /\ lostname' = lostname \ {p}
        /\ UNCHANGED <<ptr, mq, lost>>
     \/ /\ at = "freeq" /\ to = "noqueue"
        /\ lost' = lost \cup {p}
        /\ UNCHANGED <<ptr, mq, filename, lostname>>
     \/ /\ at = "noqueue" /\ to = "unpid"
        /\ ptr' = ptr \ {p} /\ mq' = mq \ {p} /\ filename' = filename \ {p}
        /\ lostname' = lostname \ {p} /\ lost' = lost \ {p}
  /\ UNCHANGED <<kernelVars, attr>>

\* A process that ends loses its memory, and the kernel closes its descriptor.
\* The name stays.  A sender's queue_close, which never has a filename, does
\* the same.
ProcessExit(p) ==
  /\ fd' = [fd EXCEPT ![p] = NoQueue]
  /\ ptr' = ptr \ {p}
  /\ mq' = mq \ {p}
  /\ filename' = filename \ {p}
  /\ attr' = [attr EXCEPT ![p] = DefaultAttributes]
  /\ lostname' = lostname \ {p}
  /\ lost' = lost \ {p}
  /\ UNCHANGED <<link, msgs, kattr>>
=============================================================================
