----------------------------- MODULE SysvQueue ------------------------------
(***************************************************************************)
(* queues/systemv.c, the message queue library of banip where there is no  *)
(* POSIX one, used by daemons and senders under one queue name.            *)
(*                                                                         *)
(* The name is a key file: the owner creates it and writes a project id in *)
(* it, a sender reads the id back, and ftok makes the key of the kernel    *)
(* queue from the file's inode and the id.  A process is one run of a      *)
(* program, and the kernel queue that process k creates is called k.       *)
(*                                                                         *)
(* Senders are programs that use the library, and scripts that use         *)
(* clients/php/banip-client.php: those create the queue if there is none,  *)
(* and send texts without a terminator.                                    *)
(*                                                                         *)
(* queue_open and queue_close are cut where another process or a signal    *)
(* can come in between.  The kernel's part is modelled from the way the    *)
(* code uses it.  Not here: a queue name with an id of its own             *)
(* ("path:c"), for which the code leaves the file name unterminated, and   *)
(* Capsicum.                                                               *)
(***************************************************************************)
EXTENDS Integers, FiniteSets, Sequences, Functions

CONSTANTS
  Owner,       \* processes that open the queue with QUEUE_FL_OWNER
  Sender,      \* processes that open it with QUEUE_FL_SENDER
  Php,         \* senders that are PHP scripts
  Ino,         \* inodes of the file system
  Id, TheId,   \* what an int can hold, and the id owners write ('b')
  Msg,         \* message texts
  MsgLen,      \* their lengths
  QBytes,      \* msg_qbytes, the size of a kernel queue
  Share,       \* a message of the library takes 1/Share of it (8 in the code)
  Privileged,  \* daemons are started by root and drop their privileges
  MaxStops,    \* bound: places where signals meet a daemon
  MaxSent,     \* bound: messages sent
  Empty,       \* the content of a new file
  NoFile, NoQueue, Cut

Process == Owner \cup Sender

ASSUME SysvAssumption ==
  /\ Owner \cap Sender = {} /\ Php \subseteq Sender /\ NoQueue \notin Process
  /\ NoFile \notin Ino /\ Empty \notin Id /\ TheId \in Id
  /\ Cut \notin Msg /\ MsgLen \in [Msg -> Nat \ {0}]
  /\ QBytes \in Nat /\ Share \in Nat \ {0} /\ Privileged \in BOOLEAN
  /\ MaxStops \in Nat /\ MaxSent \in Nat

VARIABLES
  pc,        \* where each process is
  file,      \* the inode the name stands for
  maker,     \* history: the owner that created the file
  content,   \* the content of each inode
  queue,     \* kernel queues: "none", "linked" or "removed"
  key,       \* the key each kernel queue was created with
  msgs,      \* the messages in each kernel queue
  ino,       \* the inode each process opened
  id,        \* id in queue_open
  filename,  \* owners whose q->filename is set
  qid,       \* q->qid
  strlen,    \* where the string in q->buffer ends, 0 if that is not known
  dropped,   \* daemons that are no longer root
  stops,     \* history: where a signal or a failure of queue_open met a process
  sent, got  \* history: texts sent to a queue, and received by its owner

files == <<file, maker, content>>
kernel == <<queue, key, msgs>>
own == <<ino, id, filename, qid, dropped, strlen>>
history == <<sent, got>>
vars == <<pc, files, kernel, own, stops, history>>

\* q->buffer_size
BufferSize == QBytes \div Share
\* A message in a kernel queue: the text it is for, and the bytes it takes.
Message == [text : Msg, size : Nat]
Opening == {"start", "created", "written", "named", "msgget"}
Closing == {"close", "clear", "unlink", "free"}
Location ==
  Opening \cup Closing \cup
    {"opened", "read", "stat", "open", "ready", "end", "killed"}
Live == {p \in Process : pc[p] \notin {"end", "killed"}}

TypeOK ==
  /\ pc \in [Process -> Location]
  /\ file \in Ino \cup {NoFile}
  /\ maker \in Owner \cup {NoQueue}
  /\ content \in [Ino -> Id \cup {Empty}]
  /\ queue \in [Process -> {"none", "linked", "removed"}]
  /\ key \in [Process -> (Ino \cup {NoFile}) \X Id]
  /\ msgs \in [Process -> Seq(Message)]
  /\ ino \in [Process -> Ino \cup {NoFile}]
  /\ id \in [Process -> Id]
  /\ filename \subseteq Owner
  /\ qid \in [Process -> Process \cup {NoQueue}]
  /\ dropped \subseteq Owner
  /\ stops \in [Process -> SUBSET Location]
  /\ strlen \in [Owner -> Nat]
  /\ sent \in [Process -> Seq(Message)] /\ got \in [Owner -> Seq(Msg \cup {Cut})]

Init ==
  /\ pc = [p \in Process |-> "start"]
  /\ file = NoFile /\ maker = NoQueue
  /\ content = [i \in Ino |-> Empty]
  /\ queue = [p \in Process |-> "none"]
  /\ key = [p \in Process |-> <<NoFile, TheId>>]
  /\ msgs = [p \in Process |-> <<>>]
  /\ ino = [p \in Process |-> NoFile]
  /\ id = [p \in Process |-> TheId]
  /\ filename = {}
  /\ qid = [p \in Process |-> NoQueue]   \* queue_init
  /\ dropped = {}
  /\ stops = [p \in Process |-> {}]
  /\ strlen = [o \in Owner |-> 0]
  /\ sent = msgs /\ got = [o \in Owner |-> <<>>]

Goto(p, l) ==
  /\ pc' = [pc EXCEPT ![p] = l]
  /\ UNCHANGED stops

Stop(p, l) ==
  /\ pc' = [pc EXCEPT ![p] = l]
  /\ stops' = [stops EXCEPT ![p] = @ \cup {pc[p]}]

\* Where a failing queue_open leads: the daemon's main returns and atexit runs
\* cleanup; the sender's queue_close has nothing to remove.
Fail(p) == Stop(p, IF p \in Owner THEN "close" ELSE "end")
-----------------------------------------------------------------------------
\* Inodes no file and no open descriptor uses.
FreeIno ==
  Ino \ ({file} \cup {ino[p] : p \in {p \in Process :
                                      pc[p] \in {"opened", "created", "written"}}})

\* Variant: the name is noted before the file is known to be new.
CreateFileNamed(o) ==
  /\ pc[o] = "start"
  /\ filename' = filename \cup {o}
  /\ \/ /\ file = NoFile
        /\ \E i \in FreeIno :
             /\ file' = i
             /\ content' = [content EXCEPT ![i] = Empty]
             /\ ino' = [ino EXCEPT ![o] = i]
        /\ maker' = o
        /\ Goto(o, "created")
     \/ /\ file # NoFile
        /\ Fail(o)
        /\ UNCHANGED <<file, maker, content, ino>>
  /\ UNCHANGED <<kernel, id, qid, dropped, strlen, history>>

\* fopen(filename, "wx")
CreateFile(o) ==
  /\ pc[o] = "start"
  /\ \/ /\ file = NoFile
        /\ \E i \in FreeIno :
             /\ file' = i
             /\ content' = [content EXCEPT ![i] = Empty]
             /\ ino' = [ino EXCEPT ![o] = i]
        /\ maker' = o
        /\ Goto(o, "created")
     \/ /\ file # NoFile
        /\ Fail(o)
        /\ UNCHANGED <<file, maker, content, ino>>
  /\ UNCHANGED <<kernel, id, filename, qid, dropped, strlen, history>>

\* fwrite may fail, and the result of fflush is not looked at.
WriteId(o) ==
  /\ pc[o] = "created"
  /\ \/ /\ content' = [content EXCEPT ![ino[o]] = TheId]
        /\ Goto(o, "written")
     \/ /\ Goto(o, "written")
        /\ UNCHANGED content
     \/ /\ Fail(o)
        /\ UNCHANGED content
  /\ UNCHANGED <<file, maker, kernel, own, history>>

\* fclose, ftok, then q->filename = strdup(filename); ftok needs the file.
NameFile(o) ==
  /\ pc[o] = "written"
  /\ \/ /\ file # NoFile
        /\ ino' = [ino EXCEPT ![o] = file]
        /\ filename' = filename \cup {o}
        /\ Goto(o, "named")
     \/ /\ Fail(o)
        /\ UNCHANGED <<ino, filename>>
  /\ UNCHANGED <<files, kernel, id, qid, dropped, strlen, history>>

\* The queue msgget finds for a key.
Linked(k) == {q \in Process : queue[q] = "linked" /\ key[q] = k}

\* Variant: without IPC_EXCL's check.
CreateQueueAnyway(o) ==
  /\ pc[o] = "named"
  /\ queue' = [queue EXCEPT ![o] = "linked"]
  /\ key' = [key EXCEPT ![o] = <<ino[o], TheId>>]
  /\ Goto(o, "msgget")
  /\ UNCHANGED <<files, msgs, own, history>>

\* msgget(key, 0660 | IPC_CREAT | IPC_EXCL) in the kernel ...
CreateQueue(o) ==
  /\ pc[o] = "named"
  /\ LET k == <<ino[o], TheId>> IN
       \/ /\ Linked(k) = {}
          /\ queue' = [queue EXCEPT ![o] = "linked"]
          /\ key' = [key EXCEPT ![o] = k]
          /\ Goto(o, "msgget")
       \/ /\ Linked(k) # {}
          /\ Fail(o)
          /\ UNCHANGED <<queue, key>>
  /\ UNCHANGED <<files, msgs, own, history>>

\* ... and q->qid set from its result.
StoreQid(o) ==
  /\ pc[o] = "msgget"
  /\ qid' = [qid EXCEPT ![o] = o]
  /\ Goto(o, "stat")
  /\ UNCHANGED <<files, kernel, ino, id, filename, dropped, strlen, history>>
-----------------------------------------------------------------------------
\* fopen(filename, "r").  A script goes on without the file, with 0 for the id.
OpenFile(s) ==
  /\ pc[s] = "start"
  /\ \/ /\ file # NoFile
        /\ ino' = [ino EXCEPT ![s] = file]
        /\ Goto(s, "opened")
        /\ UNCHANGED id
     \/ /\ file = NoFile /\ s \notin Php
        /\ Fail(s)
        /\ UNCHANGED <<ino, id>>
     \/ /\ file = NoFile /\ s \in Php
        /\ \E x \in Id \ {TheId} : id' = [id EXCEPT ![s] = x]
        /\ Goto(s, "read")
        /\ UNCHANGED ino
  /\ UNCHANGED <<files, kernel, filename, qid, dropped, strlen, history>>

\* Variant: an empty file gives an empty id.
ReadIdEmpty(s) ==
  /\ pc[s] = "opened"
  /\ id' = [id EXCEPT ![s] = content[ino[s]]]
  /\ Goto(s, "read")
  /\ UNCHANGED <<files, kernel, ino, filename, qid, dropped, strlen, history>>

\* The test of fread's result is never true: from an empty file, id stays what
\* it was on the stack.  A script takes 0 for the id.
ReadId(s) ==
  /\ pc[s] = "opened"
  /\ id' \in {[id EXCEPT ![s] = x] : x \in
                IF content[ino[s]] # Empty THEN {content[ino[s]]}
                ELSE IF s \in Php THEN Id \ {TheId} ELSE Id}
  /\ Goto(s, "read")
  /\ UNCHANGED <<files, kernel, ino, filename, qid, dropped, strlen, history>>

\* ftok on the name as it is now: -1 without a file, whatever the id.
Ftok(s) == IF file = NoFile THEN <<NoFile, TheId>> ELSE <<file, id[s]>>

\* ftok, whose -1 ends the library's queue_open, then msgget(key, 0660); or
\* msg_get_queue, which a script calls with any key and which creates the queue if
\* there is none.
FindQueue(s) ==
  /\ pc[s] = "read"
  /\ \/ /\ file # NoFile \/ s \in Php
        /\ \E q \in Linked(Ftok(s)) : qid' = [qid EXCEPT ![s] = q]
        /\ Goto(s, IF s \in Php THEN "ready" ELSE "stat")
        /\ UNCHANGED <<queue, key>>
     \/ /\ Linked(Ftok(s)) = {} /\ s \in Php
        /\ queue' = [queue EXCEPT ![s] = "linked"]
        /\ key' = [key EXCEPT ![s] = Ftok(s)]
        /\ qid' = [qid EXCEPT ![s] = s]
        /\ Goto(s, "ready")
     \/ /\ file = NoFile \/ Linked(Ftok(s)) = {}
        /\ s \notin Php
        /\ Fail(s)
        /\ UNCHANGED <<queue, key, qid>>
  /\ UNCHANGED <<files, msgs, ino, id, filename, dropped, strlen, history>>

\* msgctl(IPC_STAT) needs the queue; malloc may fail.
Stat(p) ==
  /\ pc[p] = "stat"
  /\ \/ /\ queue[qid[p]] = "linked"
        /\ Goto(p, IF p \in Owner THEN "open" ELSE "ready")
     \/ Fail(p)
  /\ UNCHANGED <<files, kernel, own, history>>

\* engine->open, then setuid for a daemon started by root.
DropPrivilege(o) ==
  /\ pc[o] = "open"
  /\ \/ /\ dropped' = IF Privileged THEN dropped \cup {o} ELSE dropped
        /\ Goto(o, "ready")
     \/ Fail(o) /\ UNCHANGED dropped
  /\ UNCHANGED <<files, kernel, ino, id, filename, qid, strlen, history>>
-----------------------------------------------------------------------------
\* The bytes of a queue that are in use.
Used(q) == FoldFunction(+, 0, [i \in DOMAIN msgs[q] |-> msgs[q][i].size])

\* queue_send: strcpy, then msgsnd of buffer_size bytes, which waits for room
\* and fails once the queue is removed.  addAddress of a script: msg_send of the
\* bytes of the text, which fails when there is no room.
QueueSend(s, t) ==
  /\ pc[s] = "ready"
  /\ Len(sent[qid[s]]) < MaxSent
  /\ LET m == [text |-> t, size |-> IF s \in Php THEN MsgLen[t] ELSE BufferSize] IN
       \/ /\ queue[qid[s]] = "linked"
          /\ Used(qid[s]) + m.size <= QBytes
          /\ msgs' = [msgs EXCEPT ![qid[s]] = Append(@, m)]
          /\ sent' = [sent EXCEPT ![qid[s]] = Append(@, m)]
       \/ /\ queue[qid[s]] = "removed"
          /\ UNCHANGED <<msgs, sent>>
  /\ UNCHANGED <<pc, files, queue, key, own, stops, got>>

\* queue_close of a sender.
QueueClose(s) ==
  /\ pc[s] = "ready"
  /\ Goto(s, "end")
  /\ UNCHANGED <<files, kernel, own, history>>

\* Where the string in q->buffer ends after m came over an older one that ended
\* at e: without a terminator among its bytes, it runs on into the older one.
Ends(m, e) ==
  IF MsgLen[m.text] < m.size THEN {MsgLen[m.text]}
  ELSE IF e >= m.size THEN {e} ELSE {m.size, 0}

\* The text strcpy takes out of q->buffer.
Text(m, e) == IF e = MsgLen[m.text] /\ e <= m.size THEN m.text ELSE Cut

\* Variant: the newest message first.
QueueReceiveLast(o) ==
  /\ pc[o] = "ready"
  /\ msgs[o] # <<>>
  /\ LET m == msgs[o][Len(msgs[o])] IN
       \E e \in Ends(m, strlen[o]) :
         /\ strlen' = [strlen EXCEPT ![o] = e]
         /\ got' = [got EXCEPT ![o] = Append(@, Text(m, e))]
  /\ msgs' = [msgs EXCEPT ![o] = SubSeq(@, 1, Len(@) - 1)]
  /\ UNCHANGED <<pc, files, queue, key, ino, id, filename, qid, dropped, stops, sent>>

\* queue_receive: msgrcv into q->buffer, then strcpy to the caller's.
QueueReceive(o) ==
  /\ pc[o] = "ready"
  /\ msgs[o] # <<>>
  /\ LET m == Head(msgs[o]) IN
       \E e \in Ends(m, strlen[o]) :
         /\ strlen' = [strlen EXCEPT ![o] = e]
         /\ got' = [got EXCEPT ![o] = Append(@, Text(m, e))]
  /\ msgs' = [msgs EXCEPT ![o] = Tail(@)]
  /\ UNCHANGED <<pc, files, queue, key, ino, id, filename, qid, dropped, stops, sent>>
-----------------------------------------------------------------------------
\* Variant: the queue is left to the kernel.
RemoveQueueForgotten(o) ==
  /\ pc[o] = "close"
  /\ Goto(o, IF o \in filename THEN "clear" ELSE "end")
  /\ UNCHANGED <<files, kernel, own, history>>

\* queue_close of the owner, with msgctl(IPC_RMID): it needs the queue, and the
\* user that created it, and throws away the messages that nobody received.
RemoveQueue(o) ==
  /\ pc[o] = "close"
  /\ \/ o \notin filename /\ Goto(o, "end") /\ UNCHANGED <<queue, msgs>>
     \/ /\ o \in filename /\ qid[o] = NoQueue
        /\ Goto(o, "unlink")
        /\ UNCHANGED <<queue, msgs>>
     \/ /\ o \in filename /\ qid[o] # NoQueue
        /\ queue[o] = "linked" /\ o \notin dropped
        /\ queue' = [queue EXCEPT ![o] = "removed"]
        /\ msgs' = [msgs EXCEPT ![o] = <<>>]
        /\ Goto(o, "clear")
     \/ /\ o \in filename /\ qid[o] # NoQueue
        /\ queue[o] # "linked" \/ o \in dropped
        /\ Goto(o, "end")
        /\ UNCHANGED <<queue, msgs>>
  /\ UNCHANGED <<files, key, own, history>>

\* q->qid = -1
ClearQid(o) ==
  /\ pc[o] = "clear"
  /\ qid' = [qid EXCEPT ![o] = NoQueue]
  /\ Goto(o, "unlink")
  /\ UNCHANGED <<files, kernel, ino, id, filename, dropped, strlen, history>>

\* Variant: the key file is left behind.
UnlinkFileSkipped(o) ==
  /\ pc[o] = "unlink"
  /\ Goto(o, "free")
  /\ UNCHANGED <<files, kernel, own, history>>

\* unlink(q->filename)
UnlinkFile(o) ==
  /\ pc[o] = "unlink"
  /\ file' = NoFile
  /\ Goto(o, IF file = NoFile THEN "end" ELSE "free")
  /\ UNCHANGED <<maker, content, kernel, own, history>>

\* free(q->filename), the buffer and the queue, in one step: what a signal between
\* a free and the assignment after it does is the subject of module Programs, and
\* a crash there is Kill.
FreeQueue(o) ==
  /\ pc[o] = "free"
  /\ filename' = filename \ {o}
  /\ Goto(o, "end")
  /\ UNCHANGED <<files, kernel, ino, id, qid, dropped, strlen, history>>
-----------------------------------------------------------------------------
\* INT or TERM: on_signal runs cleanup and ends the process, wherever the
\* daemon is, its own cleanup included.
OnSignal(o) ==
  /\ o \in Live
  /\ Cardinality(stops[o]) < MaxStops
  /\ Stop(o, "close")
  /\ UNCHANGED <<files, kernel, own, history>>

\* KILL, or a crash.  A sender that is killed is one that takes no more steps.
Kill(o) ==
  /\ o \in Live
  /\ Goto(o, "killed")
  /\ filename' = filename \ {o}
  /\ qid' = [qid EXCEPT ![o] = NoQueue]
  /\ UNCHANGED <<files, kernel, ino, id, dropped, strlen, history>>

\* The administrator removes the file of a daemon that is gone.
RemoveStale ==
  /\ file # NoFile /\ maker \notin Live
  /\ file' = NoFile
  /\ UNCHANGED <<pc, maker, content, kernel, own, stops, history>>

Next ==
  \/ \E o \in Owner :
       \/ CreateFile(o) \/ WriteId(o) \/ NameFile(o)
       \/ CreateQueue(o) \/ StoreQid(o) \/ DropPrivilege(o)
       \/ QueueReceive(o)
       \/ RemoveQueue(o) \/ ClearQid(o) \/ UnlinkFile(o) \/ FreeQueue(o)
       \/ OnSignal(o) \/ Kill(o)
  \/ \E s \in Sender :
       \/ OpenFile(s) \/ ReadId(s) \/ FindQueue(s)
       \/ \E t \in Msg : QueueSend(s, t)
       \/ QueueClose(s)
  \/ \E p \in Process : Stat(p)
  \/ RemoveStale

Spec == Init /\ [][Next]_vars
-----------------------------------------------------------------------------
\* Where process p met a signal or a failure.
MetAt(p, places) == stops[p] \cap places # {}

\* Two signals ran p's cleanup twice, the second time after it had unlinked the
\* file and before it forgot the name.
UnlinksTwice(p) == MetAt(p, {"free"})

\* A daemon that serves keeps its key file and its queue, so that senders find
\* it: a second daemon under the same name fails without touching them.  Only
\* a cleanup that a signal interrupted can remove another daemon's file.
ServingIntact ==
  \A o \in Owner :
    pc[o] = "ready" =>
      /\ queue[o] = "linked"
      /\ \/ key[o] = <<file, TheId>>
         \/ \E p \in Owner : UnlinksTwice(p)

\* A daemon that ended without being killed leaves its key file behind only if
\* it was stopped before queue_open noted the name, could not remove the queue
\* as another user, or was interrupted in its cleanup.
StaleFileCause ==
  file # NoFile /\ pc[maker] = "end" =>
    \/ MetAt(maker, {"created", "written"})
    \/ maker \in dropped
    \/ MetAt(maker, {"clear"})

\* The same for the kernel queue: it stays behind only if the daemon was
\* stopped before it stored the identifier, or may not remove it.
StaleQueueCause ==
  \A o \in Owner :
    queue[o] = "linked" /\ pc[o] = "end" => o \in dropped \/ MetAt(o, {"msgget"})

\* While the daemon that made the key file serves, a sender that finds a queue
\* finds its queue: no queue a crash left behind has the same key, and a sender
\* that read the file too early finds none.
SendersFindServer ==
  [][\A s \in Sender :
       qid'[s] # qid[s] /\ pc[maker] = "ready" =>
         qid'[s] = maker \/ \E p \in Owner : UnlinksTwice(p)]_vars

\* Nothing is reordered, and nothing is lost unless the owner removes the queue
\* with the messages in it.  A text of the library that is shorter than buffer_size
\* arrives whole, whatever scripts sent before it: its terminator is among the
\* bytes that queue_send passes to msgsnd.
Delivered ==
  \A o \in Owner :
    /\ Len(got[o]) + Len(msgs[o]) <= Len(sent[o])
    /\ Len(got[o]) + Len(msgs[o]) = Len(sent[o]) \/ queue[o] = "removed"
    /\ \A i \in 1..Len(got[o]) :
         \/ got[o][i] = sent[o][i].text
         \/ got[o][i] = Cut /\ MsgLen[sent[o][i].text] >= sent[o][i].size
=============================================================================
