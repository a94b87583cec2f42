------------------------------- MODULE Banipd -------------------------------
(***************************************************************************)
(* The daemon (banipd.c) and the processes that send it addresses          *)
(* (clients/varnish4/vmod_msgsend.c, the queue calls of banip-cli.c), over *)
(* the queue library of module PosixQueue.                                 *)
(*                                                                         *)
(* Several daemons may be started with the same -q and -p; each goes       *)
(* through its start-up, serves messages, and ends through cleanup (a      *)
(* start-up failure, SIGINT or SIGTERM) or at once (SIGKILL, abort).       *)
(*                                                                         *)
(* pc[d] is where daemon d is in main() or, from "close" on, in cleanup(). *)
(* A signal handler runs cleanup() and then kills the process, so it never *)
(* gives control back to what it interrupted and no stack is needed: a     *)
(* second signal starts cleanup() again from whatever state the first run  *)
(* had reached.                                                            *)
(***************************************************************************)
EXTENDS PosixQueue

CONSTANTS
  Valid,           \* the messages parse_addr accepts
  Concurrent,      \* whether a daemon may be started while another is alive
  Privileged,      \* whether daemons are started by root
  DropPrivileges,  \* the drop_privileges flag of the engine
  Options,         \* values given to -b and to -s, 0 for none
  WithPidfile,     \* whether -p is given: TRUE, FALSE, or both cases
  NoPid,           \* the pid file does not exist
  MaxSent,         \* bound: messages sent to one queue
  MaxSignals       \* bound: signals a daemon gets in its life

ASSUME BanipdAssumption ==
  /\ Valid \subseteq Msg
  /\ Concurrent \in BOOLEAN
  /\ Privileged \in BOOLEAN
  /\ DropPrivileges \in BOOLEAN
  /\ Options \subseteq Nat
  /\ WithPidfile \subseteq BOOLEAN
  /\ NoPid \notin Owner
  /\ MaxSent \in Nat
  /\ MaxSignals \in Nat \ {0, 1}

Daemon == Owner
Client == Sender

VARIABLES
  pc,           \* location of every process
  pid,          \* pidfilename of a daemon: "none", "named", or "written" by it
  pidfile,      \* the daemon whose pid the pid file holds
  uid,          \* "start", the user that started it, or "nobody"
  siglimit,     \* how many signals may run on_signal one inside the other
  nsig,         \* signals delivered so far
  interrupted,  \* history: daemons that got a signal inside cleanup()
  killed,       \* history: daemons that ended without cleanup()
  asked,        \* history: the values of -b and -s
  bufsize,      \* size of the receive buffer, 0 when it is NULL
  cur,          \* message in a daemon's buffer, or being sent by a client
  sent,         \* history: messages mq_send accepted, per queue
  done,         \* history: messages whose iteration of the loop is over
  banned        \* messages whose address the firewall blocks

procVars == <<pid, pidfile, uid, siglimit, nsig, interrupted, killed, asked,
              bufsize>>
msgVars == <<cur, sent, done, banned>>
vars == <<queueVars, pc, procVars, msgVars>>

StartLabel == {"options", "pid", "setgid", "qname", "qopen", "setup", "drop"}
LoopLabel == {"receive", "parse", "handle"}
FreeLabel == {"free", "noname", "freeq", "noqueue"}
CleanupLabel == {"close", "clear", "unlink", "unpid", "end"} \cup FreeLabel
DaemonLabel == {"unborn", "dead"} \cup StartLabel \cup LoopLabel
                 \cup CleanupLabel
ClientLabel == {"unborn", "dead", "idle", "send"}

Live(p) == pc[p] \notin {"unborn", "dead"}
Serving(d) == pc[d] \in LoopLabel

ProcTypeOK ==
  /\ pc \in [Process -> DaemonLabel \cup ClientLabel]
  /\ pid \in [Daemon -> {"none", "named", "written"}]
  /\ pidfile \in Daemon \cup {NoPid}
  /\ uid \in [Daemon -> {"start", "nobody"}]
  /\ siglimit \in [Daemon -> {2, MaxSignals}]
  /\ nsig \in [Daemon -> 0..MaxSignals]
  /\ interrupted \subseteq Daemon
  /\ killed \subseteq Daemon
  /\ asked \in [Daemon -> Attributes]
  /\ bufsize \in [Daemon -> Nat]

MsgTypeOK ==
  /\ cur \in [Process -> Seq(Msg)]
  /\ sent \in [Daemon -> Seq(Msg)]
  /\ done \in [Daemon -> Seq(Msg)]
  /\ banned \subseteq Valid

TypeOK == QueueTypeOK /\ ProcTypeOK /\ MsgTypeOK

Init ==
  /\ QueueInitState
  /\ pc = [p \in Process |-> "unborn"]
  /\ pid = [d \in Daemon |-> "none"]
  /\ pidfile = NoPid
  /\ uid = [d \in Daemon |-> "start"]
  /\ siglimit = [d \in Daemon |-> 2]
  /\ nsig = [d \in Daemon |-> 0]
  /\ interrupted = {}
  /\ killed = {}
  /\ asked = [d \in Daemon |-> [msgsize |-> 0, maxmsg |-> 0]]
  /\ bufsize = [d \in Daemon |-> 0]
  /\ cur = [p \in Process |-> <<>>]
  /\ sent = [d \in Daemon |-> <<>>]
  /\ done = [d \in Daemon |-> <<>>]
  /\ banned = {}

Goto(p, to) == pc' = [pc EXCEPT ![p] = to]
-----------------------------------------------------------------------------
(* Start-up: main() up to the loop.                                        *)

\* exec, queue_init, atexit, sigaction.  atexit comes after queue_init, so a
\* failure of the latter runs no cleanup.  sa_flags is not initialised for
\* SIGINT and SIGTERM: with SA_NODEFER a signal can interrupt its own handler.
Start(d) ==
  /\ pc[d] = "unborn"
  /\ Concurrent \/ \A e \in Daemon : ~Live(e)
  /\ \E ok \in BOOLEAN, limit \in {2, MaxSignals} :
       /\ QueueInit(d, ok)
       /\ Goto(d, IF ok THEN "options" ELSE "dead")
       /\ siglimit' = [siglimit EXCEPT ![d] = IF ok THEN limit ELSE @]
  /\ UNCHANGED <<pid, pidfile, uid, nsig, interrupted, killed, asked, bufsize,
                 msgVars>>

\* The getopt loop and daemon().  A refused option ends the process through
\* exit(), before or after -p was seen.
ParseOptions(d) ==
  /\ pc[d] = "options"
  /\ \E named \in WithPidfile, b \in Options \cup {0}, s \in Options \cup {0} :
       /\ pid' = [pid EXCEPT ![d] = IF named THEN "named" ELSE "none"]
       /\ asked' = [asked EXCEPT ![d] = [msgsize |-> b, maxmsg |-> s]]
       /\ QueueSetAttribute(d, b, s)
  /\ Goto(d, "pid") \/ Goto(d, "close")
  /\ UNCHANGED <<pidfile, uid, siglimit, nsig, interrupted, killed, bufsize,
                 msgVars>>

\* Variant: the pid is added to a pid file that exists.
WritePidfileAppended(d) ==
  /\ pc[d] = "pid"
  /\ \/ /\ pid[d] = "named"
        /\ pidfile' = IF pidfile = NoPid THEN d ELSE pidfile
        /\ pid' = [pid EXCEPT ![d] = "written"]
     \/ UNCHANGED <<pid, pidfile>>
  /\ Goto(d, "setgid")
  /\ UNCHANGED <<queueVars, uid, siglimit, nsig, interrupted, killed, asked,
                 bufsize, msgVars>>

\* The pid file is overwritten, whatever it holds; a failure is only reported.
WritePidfile(d) ==
  /\ pc[d] = "pid"
  /\ \/ /\ pid[d] = "named"
        /\ pidfile' = d
        /\ pid' = [pid EXCEPT ![d] = "written"]
     \/ UNCHANGED <<pid, pidfile>>
  /\ Goto(d, "setgid")
  /\ UNCHANGED <<queueVars, uid, siglimit, nsig, interrupted, killed, asked,
                 bufsize, msgVars>>

SetGroup(d) ==
  /\ pc[d] = "setgid"
  /\ Goto(d, "qname") \/ Goto(d, "close")
  /\ UNCHANGED <<queueVars, procVars, msgVars>>

OpenName(d) ==
  /\ pc[d] = "qname"
  /\ \E to \in {"qopen", "close"} : QueueOpenName(d, to) /\ Goto(d, to)
  /\ UNCHANGED <<procVars, msgVars>>

OpenQueue(d) ==
  /\ pc[d] = "qopen"
  /\ \E to \in {"setup", "close"} : QueueOpenOwner(d, to) /\ Goto(d, to)
  /\ UNCHANGED <<procVars, msgVars>>

\* Variant: no room for the terminator.
BufferSizeExact(d) == attr[d].msgsize

\* queue_get_attribute and ++max_message_size: one more byte than a message.
BufferSize(d) == attr[d].msgsize + 1

\* calloc, which may fail, then engine->open, which may fail.
SetUp(d) ==
  /\ pc[d] = "setup"
  /\ \/ UNCHANGED bufsize /\ Goto(d, "close")
     \/ /\ bufsize' = [bufsize EXCEPT ![d] = BufferSize(d)]
        /\ Goto(d, "drop") \/ Goto(d, "close")
  /\ UNCHANGED <<queueVars, pid, pidfile, uid, siglimit, nsig, interrupted,
                 killed, asked, msgVars>>

\* setuid to nobody or daemon, for root and an engine that allows it.
DropPrivilege(d) ==
  /\ pc[d] = "drop"
  /\ \/ /\ Privileged /\ DropPrivileges
        /\ \/ uid' = [uid EXCEPT ![d] = "nobody"] /\ Goto(d, "receive")
           \/ UNCHANGED uid /\ Goto(d, "close")
     \/ /\ ~(Privileged /\ DropPrivileges)
        /\ UNCHANGED uid /\ Goto(d, "receive")
  /\ UNCHANGED <<queueVars, pid, pidfile, siglimit, nsig, interrupted, killed,
                 asked, bufsize, msgVars>>
-----------------------------------------------------------------------------
(* The loop: receive, parse, handle; a failure is logged and forgotten.    *)

\* queue_receive.  An mq_receive that fails is logged and called again, which is
\* no step here; module MessageLoop has it.
Receive(d) ==
  /\ pc[d] = "receive"
  /\ QueueReceive(d, bufsize[d])
  /\ cur' = [cur EXCEPT ![d] = <<Head(msgs[fd[d]])>>]
  /\ Goto(d, "parse")
  /\ UNCHANGED <<procVars, sent, done, banned>>

EndIteration(d) ==
  /\ done' = [done EXCEPT ![d] = @ \o cur[d]]
  /\ cur' = [cur EXCEPT ![d] = <<>>]
  /\ Goto(d, "receive")

\* Variant: the result of parse_addr is not looked at.
ParseUnchecked(d) ==
  /\ pc[d] = "parse"
  /\ Goto(d, "handle")
  /\ UNCHANGED <<queueVars, procVars, msgVars>>

\* Variant: a message that is not an address is tried again.
ParseRetried(d) ==
  /\ pc[d] = "parse"
  /\ Goto(d, IF Head(cur[d]) \in Valid THEN "handle" ELSE "parse")
  /\ UNCHANGED <<queueVars, procVars, msgVars>>

Parse(d) ==
  /\ pc[d] = "parse"
  /\ \/ /\ Head(cur[d]) \in Valid
        /\ Goto(d, "handle")
        /\ UNCHANGED <<cur, done>>
     \/ /\ Head(cur[d]) \notin Valid
        /\ EndIteration(d)
  /\ UNCHANGED <<queueVars, procVars, sent, banned>>

\* Variant: a failed call is repeated, though it may have banned the address.
HandleMessageAgain(d) ==
  /\ pc[d] = "handle"
  /\ banned' \in {banned, banned \cup {Head(cur[d])}}
  /\ EndIteration(d) \/ UNCHANGED <<pc, cur, done>>
  /\ UNCHANGED <<queueVars, procVars, sent>>

\* engine->handle: a failure may come before or after the address got into
\* the table.
HandleMessage(d) ==
  /\ pc[d] = "handle"
  /\ banned' \in {banned, banned \cup {Head(cur[d])}}
  /\ EndIteration(d)
  /\ UNCHANGED <<queueVars, procVars, sent>>
-----------------------------------------------------------------------------
(* cleanup(): reached by exit() through atexit, or from on_signal.         *)

\* The start of cleanup() frees the buffer and the engine's context, then
\* queue_close begins.
CloseQueue(d) ==
  /\ pc[d] = "close"
  /\ bufsize' = [bufsize EXCEPT ![d] = 0]
  /\ \E to \in {"clear", "unlink", "unpid"} : QueueCloseMq(d, to) /\ Goto(d, to)
  /\ UNCHANGED <<pid, pidfile, uid, siglimit, nsig, interrupted,
                 killed, asked, msgVars>>

ClearDescriptor(d) ==
  /\ pc[d] = "clear"
  /\ QueueCloseClear(d)
  /\ Goto(d, "unlink")
  /\ UNCHANGED <<procVars, msgVars>>

\* Only root and the user that created it may remove a queue or a pid file.
MayRemove(d) == uid[d] = "start"

UnlinkQueue(d) ==
  /\ pc[d] = "unlink"
  /\ \E to \in {"free", "freeq", "unpid"} :
       QueueCloseUnlink(d, MayRemove(d), to) /\ Goto(d, to)
  /\ UNCHANGED <<procVars, msgVars>>

FreeQueue(d) ==
  /\ pc[d] \in FreeLabel
  /\ \E to \in {"noname", "freeq", "noqueue", "unpid"} :
       QueueCloseFree(d, pc[d], to) /\ Goto(d, to)
  /\ UNCHANGED <<procVars, msgVars>>

\* Variant: cleanup() gives up when queue_close fails.
RemovePidfileIfClosed(d) ==
  /\ pc[d] = "unpid"
  /\ pidfile' = IF pid[d] # "none" /\ MayRemove(d) /\ d \notin ptr THEN NoPid
                 ELSE pidfile
  /\ Goto(d, "end")
  /\ UNCHANGED <<queueVars, pid, uid, siglimit, nsig, interrupted, killed,
                 asked, bufsize, msgVars>>

\* unlink(pidfilename) whoever wrote the file; pidfilename is left set.
RemovePidfile(d) ==
  /\ pc[d] = "unpid"
  /\ pidfile' = IF pid[d] # "none" /\ MayRemove(d) THEN NoPid ELSE pidfile
  /\ Goto(d, "end")
  /\ UNCHANGED <<queueVars, pid, uid, siglimit, nsig, interrupted, killed,
                 asked, bufsize, msgVars>>

\* The process and its memory are gone.
Die(d) ==
  /\ ProcessExit(d)
  /\ Goto(d, "dead")
  /\ pid' = [pid EXCEPT ![d] = "none"]
  /\ siglimit' = [siglimit EXCEPT ![d] = 2]
  /\ nsig' = [nsig EXCEPT ![d] = 0]
  /\ bufsize' = [bufsize EXCEPT ![d] = 0]

\* The end of exit(), or SIG_DFL and kill(getpid(), signo).
End(d) ==
  /\ pc[d] = "end"
  /\ Die(d)
  /\ UNCHANGED <<pidfile, uid, interrupted, killed, asked, msgVars>>
-----------------------------------------------------------------------------
(* What may happen to a daemon at any point.                               *)

\* SIGINT or SIGTERM: on_signal enters cleanup().
OnSignal(d) ==
  /\ Live(d)
  /\ nsig[d] < siglimit[d]
  /\ nsig' = [nsig EXCEPT ![d] = @ + 1]
  /\ interrupted' = IF pc[d] \in CleanupLabel THEN interrupted \cup {d}
                     ELSE interrupted
  /\ Goto(d, "close")
  /\ UNCHANGED <<queueVars, pid, pidfile, uid, siglimit, killed, asked, bufsize,
                 msgVars>>

\* SIGKILL, or an abort, or a crash in cleanup(): no cleanup.
Kill(d) ==
  /\ Live(d)
  /\ Die(d)
  /\ killed' = killed \cup {d}
  /\ UNCHANGED <<pidfile, uid, interrupted, asked, msgVars>>
-----------------------------------------------------------------------------
(* The clients.                                                            *)

\* vmod_mqueue__init: queue_init and queue_open; a failure closes the queue
\* and panics.
Connect(c) ==
  /\ pc[c] = "unborn"
  /\ \/ QueueOpenSender(c) /\ Goto(c, "idle")
     \/ UNCHANGED queueVars /\ Goto(c, "dead")
  /\ UNCHANGED <<procVars, msgVars>>

\* vmod_mqueue_sendmsg calls queue_send.
CallSend(c) ==
  /\ pc[c] = "idle"
  /\ Len(sent[fd[c]]) < MaxSent
  /\ \E m \in Msg : cur' = [cur EXCEPT ![c] = <<m>>]
  /\ Goto(c, "send")
  /\ UNCHANGED <<queueVars, procVars, sent, done, banned>>

\* queue_send returns.
Send(c) ==
  /\ pc[c] = "send"
  /\ \/ /\ QueueSend(c, Head(cur[c]))
        /\ sent' = [sent EXCEPT ![fd[c]] = @ \o cur[c]]
     \/ /\ QueueSendFails(c, Head(cur[c]))
        /\ UNCHANGED sent
  /\ cur' = [cur EXCEPT ![c] = <<>>]
  /\ Goto(c, "idle")
  /\ UNCHANGED <<procVars, done, banned>>

\* vmod_mqueue__fini.
Disconnect(c) ==
  /\ pc[c] = "idle"
  /\ ProcessExit(c)
  /\ Goto(c, "dead")
  /\ UNCHANGED <<procVars, msgVars>>
-----------------------------------------------------------------------------
\* What a daemon does by itself once started.
Step(d) ==
  \/ ParseOptions(d) \/ WritePidfile(d) \/ SetGroup(d) \/ OpenName(d)
  \/ OpenQueue(d) \/ SetUp(d) \/ DropPrivilege(d)
  \/ Receive(d) \/ Parse(d) \/ HandleMessage(d)
  \/ CloseQueue(d) \/ ClearDescriptor(d) \/ UnlinkQueue(d) \/ FreeQueue(d)
  \/ RemovePidfile(d) \/ End(d)

Next ==
  \/ \E d \in Daemon : Start(d) \/ Step(d) \/ OnSignal(d) \/ Kill(d)
  \/ \E c \in Client : Connect(c) \/ CallSend(c) \/ Send(c) \/ Disconnect(c)

Spec == Init /\ [][Next]_vars

\* The operating system runs a process that can run, so a daemon's own steps are
\* weakly fair; it gives room in a queue to the sender that waited longest, so
\* the return of mq_send is strongly fair.  Nobody has to start a daemon, send a
\* signal or call queue_send.
Fairness ==
  /\ \A d \in Daemon : WF_vars(Step(d))
  /\ \A c \in Client : SF_vars(Send(c))

FairSpec == Spec /\ Fairness
-----------------------------------------------------------------------------
(* Safety, for any number of daemons started in any order.                 *)

\* No two daemons ever read the same kernel queue, so no message is handled
\* twice or taken by the wrong daemon: queue_open creates with O_EXCL.
ExclusiveReader ==
  \A d, e \in Daemon : fd[d] # NoQueue /\ fd[d] = fd[e] => d = e

\* Every message mq_send accepted into a daemon's queue is still there, is the
\* one in the daemon's buffer, or went through the loop, in the order sent:
\* the loop of main() neither skips, nor repeats, nor reorders a message, and
\* the end of a daemon loses the one in its buffer and no other.
InOrder ==
  \A d \in Daemon : (done[d] \o cur[d]) \o msgs[d] = sent[d]

\* buffer[read] = '\0' in queue_receive stays inside the buffer that main()
\* allocated, for a message as long as the queue takes, and the buffer is not
\* freed while the loop uses it.
TerminatorInBounds ==
  \A d \in Daemon : pc[d] \in {"parse", "handle"} =>
                        MsgLen[Head(cur[d])] < bufsize[d]

\* A queue whose daemon is dead keeps its name only if the daemon was killed,
\* had given up the right to remove the queue (setuid before cleanup), or was
\* interrupted by a second signal inside cleanup().
StaleQueueCause ==
  \A d \in Daemon : link = d /\ pc[d] = "dead" =>
                        d \in killed \/ uid[d] = "nobody" \/ d \in interrupted

\* A pid file naming a dead daemon means it was killed, or had given up the
\* right to remove the file.  A second signal inside cleanup() does not matter.
StalePidfileCause ==
  \A d \in Daemon : pidfile = d /\ pc[d] = "dead" =>
                        d \in killed \/ uid[d] = "nobody"

(* Safety when one daemon is started at a time (~Concurrent).              *)

\* Clients that open the queue reach the daemon that serves: the name refers
\* to its queue as long as it is in its loop, whatever earlier daemons that
\* were killed or interrupted left behind.
ServingLinked == \A d \in Daemon : Serving(d) => link = d

\* The pid file a serving daemon wrote still names it.
ServingPidfile ==
  \A d \in Daemon : Serving(d) /\ pid[d] = "written" => pidfile = d

(* The invariants those rest on.                                           *)

BeforeOpen == {"unborn", "options", "pid", "setgid", "qname", "qopen"}
Open == {"setup", "drop"} \cup LoopLabel

\* A message being parsed or handled is in the buffer, and one being handled
\* was accepted by parse_addr; a client that sends has a message and a
\* descriptor.
DaemonInHand(d) ==
  /\ pc[d] \in {"parse", "handle"} =>
       \E m \in Msg : cur[d] = <<m>> /\ (pc[d] = "handle" => m \in Valid)
  /\ pc[d] \in BeforeOpen \cup {"setup", "drop", "receive"} => cur[d] = <<>>

ClientInHand(c) ==
  /\ pc[c] \in ClientLabel
  /\ pc[c] = "send" => \E m \in Msg : cur[c] = <<m>>
  /\ pc[c] \in {"idle", "send"} => fd[c] # NoQueue

InHand ==
  /\ \A d \in Daemon : DaemonInHand(d)
  /\ \A c \in Client : ClientInHand(c)

\* A daemon has a descriptor of its own queue or none; nobody knows its queue
\* before it is created; from then to cleanup() it holds everything it needs to
\* remove it.
HasQueue(d) ==
  /\ pc[d] \in DaemonLabel
  /\ fd[d] \in {NoQueue, d}
  /\ pc[d] \in BeforeOpen => /\ link # d /\ msgs[d] = <<>>
                             /\ sent[d] = <<>> /\ done[d] = <<>>
                             /\ \A c \in Client : fd[c] # d
  /\ pc[d] \in StartLabel \cup LoopLabel => d \in ptr
  /\ pc[d] \in {"unborn"} \cup StartLabel \cup LoopLabel => d \notin lost \cup lostname
  /\ pc[d] \in Open \cup {"qopen"} => d \in filename
  /\ pc[d] \in Open => fd[d] = d

Lifecycle == \A d \in Daemon : HasQueue(d)

\* The buffer of a serving daemon has one byte more than the longest message.
Fits(d) ==
  /\ \A i \in 1..Len(msgs[d]) : MsgLen[msgs[d][i]] <= kattr[d].msgsize
  /\ pc[d] = "setup" => attr[d] = kattr[d]
  /\ pc[d] \in {"drop"} \cup LoopLabel => bufsize[d] = kattr[d].msgsize + 1
  /\ pc[d] \in {"parse", "handle"} => MsgLen[Head(cur[d])] <= kattr[d].msgsize

Lengths == \A d \in Daemon : Fits(d)

\* As long as the name refers to the queue of a live daemon, the daemon can
\* still remove it, unless a signal came between mq_close and the assignment
\* that records it.
CanRemove(d) ==
  link = d =>
    /\ Live(d) => d \in ptr /\ d \in filename /\ d \notin lost \cup lostname
                    /\ pc[d] \notin FreeLabel
    /\ pc[d] = "close" /\ d \in mq /\ d \notin interrupted => fd[d] # NoQueue
    /\ pc[d] \in {"unpid", "end", "dead"} =>
         d \in killed \/ uid[d] = "nobody" \/ d \in interrupted

Removable == \A d \in Daemon : CanRemove(d)

\* As long as the pid file names a live daemon, the daemon knows its name.
KnowsPidfile(d) ==
  pidfile = d =>
    /\ pc[d] \notin {"unborn", "options", "pid"}
    /\ Live(d) => pid[d] # "none"
    /\ pc[d] = "end" => uid[d] = "nobody"
    /\ pc[d] = "dead" => d \in killed \/ uid[d] = "nobody"

PidfileKnown == \A d \in Daemon : KnowsPidfile(d)

\* With one daemon at a time, nobody takes the name or the pid file away.
Undisturbed(d) ==
  /\ ~Live(d) => pid[d] = "none"
  /\ pc[d] \in Open => link = d
  /\ pid[d] = "written" /\ pc[d] \notin CleanupLabel => pidfile = d

Alone ==
  /\ \A d, e \in Daemon : Live(d) /\ Live(e) => d = e
  /\ \A d \in Daemon : Undisturbed(d)

(* What comments and headers of the code say.                              *)

\* "we are the owner" (queues/posix.c): who removes the name in queue_close
\* created the queue the name refers to.
OnlyOwnerUnlinks ==
  [][\A d \in Daemon :
       pc[d] = "unlink" /\ pc'[d] = "free" /\ link' # link => link = d]_vars

\* The queue of a daemon has the size given by -b and -s (README.md, and
\* queue.h on attributes set before queue_open).
OptionsEffective ==
  \A d \in Daemon : link = d =>
     /\ asked[d].msgsize > 0 => kattr[d].msgsize = asked[d].msgsize
     /\ asked[d].maxmsg > 0 => kattr[d].maxmsg = asked[d].maxmsg
-----------------------------------------------------------------------------
(* Liveness, under Fairness.                                               *)

\* A daemon that began to stop ends: nothing in cleanup() waits, even when
\* signals interrupt it (tests/signals.sh).
StopCompletes == \A d \in Daemon : pc[d] = "close" ~> pc[d] = "dead"

\* The n-th message of a queue goes through the loop of its daemon, unless the
\* daemon stops serving: invalid addresses and engine failures do not stop it.
Drained ==
  \A d \in Daemon, n \in 1..MaxSent :
    Serving(d) /\ Len(sent[d]) >= n ~> ~Serving(d) \/ Len(done[d]) >= n

\* queue_send returns while the daemon whose queue the client opened serves,
\* even if the queue was full.
SendReturns ==
  \A c \in Client, d \in Daemon :
    pc[c] = "send" /\ fd[c] = d /\ Serving(d) ~> pc[c] # "send" \/ ~Serving(d)
-----------------------------------------------------------------------------
(* What the daemons promise to their clients.                              *)

ServiceState(d) ==
  CASE pc[d] \in {"unborn"} \cup StartLabel -> "new"
    [] pc[d] \in LoopLabel -> "serving"
    [] OTHER -> "over"

Service ==
  INSTANCE BanService WITH
    Server <- Daemon, state <- [d \in Daemon |-> ServiceState(d)],
    accepted <- sent, settled <- done

\* Daemons and clients together are such a service: what mq_send accepts is
\* dealt with in order, once, and only in the loop of main(), whatever signals,
\* kills, failed starts and stale queues there are.
ServiceSpec == Service!Spec
=============================================================================
