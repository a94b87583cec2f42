------------------------------ MODULE Programs ------------------------------
(***************************************************************************)
(* What one process of banipd holds in memory while signals come: its      *)
(* buffer, the context of its engine, the queue_t and the name in it, its  *)
(* log (banipd.c, queue_close); and pftest.c, which uses an engine for one *)
(* address.                                                                *)
(*                                                                         *)
(* INT and TERM run cleanup() from its start and never return; cleanup()   *)
(* and queue_close are cut between each free or fclose and the assignment  *)
(* that records it.  USR1 reopens the log and returns to what it           *)
(* interrupted.  Using memory or a stream that was given back is           *)
(* undefined: the process crashes, or goes on.                             *)
(*                                                                         *)
(* The kernel's queue and the pid file are in module Banipd.  System V's   *)
(* q->buffer is freed and cleared as the name is, and stands with it.      *)
(***************************************************************************)
EXTENDS Engines

CONSTANTS
  NoAddr,        \* no address in hand
  MaxSignals,    \* bound: INT and TERM
  MaxRotations   \* bound: rotations of the log

ASSUME ProgramsAssumption ==
  /\ MaxSignals \in Nat
  /\ MaxRotations \in Nat

VARIABLES
  program,  \* "banipd" or "pftest"
  pc,       \* the next step of main() or cleanup(), "dead" or "crashed"
  fatal,    \* whether main() ends after the error it reports
  usr1,     \* whether on_signal has still to replace a log it failed to reopen
  buffer,   \* "null", "heap" or "freed"
  queue,    \* the same of the queue_t
  qname,    \* the same of its filename
  err,      \* err_file: "null", "stderr", "file", "gone" (freopen failed) or
            \* "closed" by fclose
  named,    \* whether -l was given
  stream,   \* the log file the stream writes to
  current,  \* the log file that has the name, counted from 0
  shared,   \* whether any user may write to it
  seen,     \* history: the log file at the last USR1, or at fopen
  refused,  \* history: a log could not be opened though permissions allow it
  denied,   \* history: a log could not be opened because they do not
  uid,      \* "root" or "nobody"
  nsig,     \* INT and TERM received
  inside,   \* history: what the first untimely signal cut, a "window" of cleanup() or
            \* a "freopen", or "none"
  addr,     \* the address in hand
  reported  \* history: addresses for which engine->handle returned true

memVars == <<ctxt, buffer, queue, qname>>
logVars == <<named, stream, current, shared, seen, refused, denied>>
sigVars == <<usr1, uid, nsig, inside>>
runVars == <<program, fatal, addr, reported>>
vars == <<engineVars, memVars, pc, err, logVars, sigVars, runVars>>

CleanupLabel == {"free", "null", "close", "freectxt", "nullctxt", "queue", "freename",
                 "nullname", "freequeue", "nullqueue", "unpid", "fclose", "nulllog",
                 "end"}

\* Where memory or the log has been given back and this is not recorded yet.
Window == {"null", "nullctxt", "nullname", "nullqueue", "nulllog"}
Label == CleanupLabel \cup {"options", "qopen", "calloc", "open", "drop", "loop",
                            "handle", "head", "rest", "dead", "crashed"}

TypeOK ==
  /\ EnginesTypeOK
  /\ program \in {"banipd", "pftest"}
  /\ pc \in Label
  /\ fatal \in BOOLEAN /\ usr1 \in BOOLEAN /\ named \in BOOLEAN
  /\ shared \in BOOLEAN /\ refused \in BOOLEAN /\ denied \in BOOLEAN
  /\ inside \in {"none", "window", "freopen"}
  /\ buffer \in {"null", "heap", "freed"}
  /\ queue \in {"null", "heap", "freed"} /\ qname \in {"null", "heap", "freed"}
  /\ err \in {"null", "stderr", "file", "gone", "closed"}
  /\ stream \in 0..current /\ seen \in 0..current /\ current \in 0..MaxRotations
  /\ uid \in {"root", "nobody"}
  /\ nsig \in 0..MaxSignals
  /\ addr \in Addr \cup {NoAddr}
  /\ reported \subseteq Addr

\* queue_init comes before the options and the handlers.
Init ==
  /\ EnginesInit
  /\ program \in {"banipd", "pftest"}
  /\ pc = "options" /\ fatal = FALSE /\ usr1 = FALSE
  /\ buffer = "null" /\ qname = "null"
  /\ queue = IF program = "banipd" THEN "heap" ELSE "null"
  /\ err = "null" /\ named = FALSE /\ stream = 0 /\ current = 0 /\ seen = 0
  /\ shared \in BOOLEAN /\ refused = FALSE /\ denied = FALSE
  /\ uid = "root" /\ nsig = 0 /\ inside = "none"
  /\ addr = NoAddr /\ reported = {}

\* The process takes its next step: no handler is in the way.
At(label) == pc = label /\ ~usr1

\* What is undefined: to go on to label "to", or to crash.
Undefined(to) == pc' \in {to, "crashed"}
-----------------------------------------------------------------------------
(* Start-up.                                                               *)

\* -e, -l, and the errors that end the program: exit() runs cleanup().
ParseOptions ==
  /\ At("options")
  /\ engine' \in {e \in EngineName : Named(e)}
  /\ \/ /\ program = "banipd"
        /\ \/ named' = FALSE /\ UNCHANGED <<err, refused>>
           \/ named' = TRUE /\ err' = "file" /\ UNCHANGED refused
           \/ named' = TRUE /\ err' = "stderr" /\ refused' = TRUE
        /\ pc' \in {"qopen", "free"}
     \/ /\ program = "pftest"
        /\ pc' \in {"open", "close"}
        /\ UNCHANGED <<named, err, refused>>
  /\ UNCHANGED <<fits, sets, table, memVars, stream, current, shared, seen, denied,
                 sigVars, runVars>>

\* Up to queue_open: a failure, before or after the name is set, is reported, and
\* main() returns.
OpenQueue ==
  /\ At("qopen")
  /\ \/ qname' = "heap" /\ pc' = "calloc" /\ UNCHANGED fatal
     \/ qname' \in {"null", "heap"} /\ pc' = "head" /\ fatal' = TRUE
  /\ UNCHANGED <<engineVars, ctxt, buffer, queue, err, logVars, sigVars, program, addr,
                 reported>>

\* calloc: as above.
AllocateBuffer ==
  /\ At("calloc")
  /\ \/ buffer' = "heap" /\ pc' = "open" /\ UNCHANGED fatal
     \/ UNCHANGED buffer /\ pc' = "head" /\ fatal' = TRUE
  /\ UNCHANGED <<engineVars, ctxt, queue, qname, err, logVars, sigVars, program, addr, reported>>

Failed == IF program = "banipd" THEN "head" ELSE "close"

OpenEngine ==
  /\ At("open")
  /\ \/ /\ HasOpen
        /\ EngineOpen
        /\ IF ctxt' = "null" THEN pc' = Failed /\ fatal' = TRUE
           ELSE pc' = "drop" /\ UNCHANGED fatal
     \/ /\ ~HasOpen
        /\ pc' = "drop"
        /\ UNCHANGED <<engineVars, ctxt, fatal>>
  /\ UNCHANGED <<buffer, queue, qname, err, logVars, sigVars, program, addr, reported>>

DropPrivilege ==
  /\ At("drop")
  /\ \/ /\ program = "banipd" /\ DropPrivileges
        /\ \/ uid' = "nobody" /\ pc' = "loop" /\ UNCHANGED fatal
           \/ UNCHANGED uid /\ pc' = "head" /\ fatal' = TRUE
     \/ /\ ~(program = "banipd" /\ DropPrivileges)
        /\ pc' = "loop"
        /\ UNCHANGED <<uid, fatal>>
  /\ UNCHANGED <<engineVars, memVars, err, logVars, usr1, nsig, inside, program,
                 addr, reported>>
-----------------------------------------------------------------------------
(* The loop, and _verr.                                                    *)

\* queue_receive and parse_addr; pftest has an address of its own.
NextAddress ==
  /\ At("loop")
  /\ \/ \E a \in Addr : addr' = a /\ pc' = "handle"
     \/ pc' = Failed /\ UNCHANGED addr
  /\ UNCHANGED <<engineVars, memVars, err, logVars, sigVars, program, fatal,
                 reported>>

\* Variant: the address is noted after it was dropped.
HandleLate ==
  /\ At("handle")
  /\ \E ok \in BOOLEAN :
       /\ EngineHandle(addr, ok)
       /\ reported' = IF ok THEN reported \cup {NoAddr} ELSE reported
       /\ pc' = IF program = "pftest" THEN "close" ELSE IF ok THEN "loop" ELSE "head"
  /\ addr' = NoAddr
  /\ UNCHANGED <<buffer, queue, qname, err, logVars, sigVars, program, fatal>>

Handle ==
  /\ At("handle")
  /\ \E ok \in BOOLEAN :
       /\ EngineHandle(addr, ok)
       /\ reported' = IF ok THEN reported \cup {addr} ELSE reported
       /\ pc' = IF program = "pftest" THEN "close" ELSE IF ok THEN "loop" ELSE "head"
  /\ addr' = NoAddr
  /\ UNCHANGED <<buffer, queue, qname, err, logVars, sigVars, program, fatal>>

\* _verr looks at err_file once, and writes a record in several pieces.
LogHead ==
  /\ At("head")
  /\ err' = IF err = "null" THEN "stderr" ELSE err
  /\ pc' = "rest"
  /\ UNCHANGED <<engineVars, memVars, logVars, sigVars, runVars>>

LogRest ==
  /\ At("rest")
  /\ pc' = IF fatal THEN "free" ELSE "loop"
  /\ UNCHANGED <<engineVars, memVars, err, logVars, sigVars, runVars>>
-----------------------------------------------------------------------------
(* cleanup(), and the end of pftest.                                       *)

FreeBuffer ==
  /\ At("free")
  /\ \/ buffer = "null" /\ pc' = "close" /\ UNCHANGED buffer
     \/ buffer = "heap" /\ pc' = "null" /\ buffer' = "freed"
     \/ buffer = "freed" /\ Undefined("null") /\ UNCHANGED buffer
  /\ UNCHANGED <<engineVars, ctxt, queue, qname, err, logVars, sigVars, runVars>>

\* Variant: the pointer is kept.
NullBufferForgotten ==
  /\ At("null")
  /\ pc' = "close"
  /\ UNCHANGED <<engineVars, memVars, err, logVars, sigVars, runVars>>

NullBuffer ==
  /\ At("null")
  /\ buffer' = "null"
  /\ pc' = "close"
  /\ UNCHANGED <<engineVars, ctxt, queue, qname, err, logVars, sigVars, runVars>>

\* engine->close, for an engine that has one.
CloseContext ==
  /\ At("close")
  /\ \/ /\ ctxt = "null"
        /\ pc' = IF program = "pftest" THEN "dead" ELSE "queue"
     \/ /\ ctxt # "null"
        /\ IF HasClose /\ ctxt = "freed" THEN Undefined("freectxt") ELSE pc' = "freectxt"
  /\ UNCHANGED <<engineVars, memVars, err, logVars, sigVars, runVars>>

\* free(ctxt), whatever open returned.
FreeContext ==
  /\ At("freectxt")
  /\ LET to == IF program = "pftest" THEN "dead" ELSE "nullctxt"
     IN \/ ctxt = "heap" /\ pc' = to /\ ctxt' = "freed"
        \/ ctxt # "heap" /\ Undefined(to) /\ UNCHANGED ctxt
  /\ UNCHANGED <<engineVars, buffer, queue, qname, err, logVars, sigVars, runVars>>

NullContext ==
  /\ At("nullctxt")
  /\ ctxt' = "null"
  /\ pc' = "queue"
  /\ UNCHANGED <<engineVars, buffer, queue, qname, err, logVars, sigVars, runVars>>

\* queue_close.  It stops when mq_close or mq_unlink fail; what it reads of a
\* queue_t or of a name that was given back may be anything.
CloseQueue ==
  /\ At("queue")
  /\ \/ queue = "null" /\ pc' = "unpid"
     \/ /\ queue # "null"
        /\ \/ pc' = "unpid"
           \/ pc' = IF qname = "null" THEN "freequeue" ELSE "freename"
           \/ "freed" \in {queue, qname} /\ pc' \in {"freename", "freequeue", "crashed"}
  /\ UNCHANGED <<engineVars, memVars, err, logVars, sigVars, runVars>>

FreeName ==
  /\ At("freename")
  /\ \/ qname = "heap" /\ pc' = "nullname" /\ qname' = "freed"
     \/ qname # "heap" /\ Undefined("nullname") /\ UNCHANGED qname
  /\ UNCHANGED <<engineVars, ctxt, buffer, queue, err, logVars, sigVars, runVars>>

NullName ==
  /\ At("nullname")
  /\ qname' = "null"
  /\ pc' = "freequeue"
  /\ UNCHANGED <<engineVars, ctxt, buffer, queue, err, logVars, sigVars, runVars>>

FreeQueue ==
  /\ At("freequeue")
  /\ \/ queue = "heap" /\ pc' = "nullqueue" /\ queue' = "freed"
     \/ queue # "heap" /\ Undefined("nullqueue") /\ UNCHANGED queue
  /\ UNCHANGED <<engineVars, ctxt, buffer, qname, err, logVars, sigVars, runVars>>

NullQueue ==
  /\ At("nullqueue")
  /\ queue' = "null"
  /\ pc' = "unpid"
  /\ UNCHANGED <<engineVars, ctxt, buffer, qname, err, logVars, sigVars, runVars>>

\* A stream that fclose closed, or a freopen that failed.
Dead == err \in {"closed", "gone"}

\* unlink(pidfilename), which may fail and be reported in the log.
RemovePidfile ==
  /\ At("unpid")
  /\ \/ pc' = "fclose" /\ UNCHANGED err
     \/ /\ IF Dead THEN Undefined("fclose") ELSE pc' = "fclose"
        /\ err' = IF err = "null" THEN "stderr" ELSE err
  /\ UNCHANGED <<engineVars, memVars, logVars, sigVars, runVars>>

\* A log is closed, stderr is not; fileno and fclose of a dead stream may do
\* anything.
CloseLog ==
  /\ At("fclose")
  /\ \/ err = "file" /\ err' = "closed" /\ pc' = "nulllog"
     \/ Dead /\ pc' \in {"nulllog", "end", "crashed"} /\ UNCHANGED err
     \/ err \in {"null", "stderr"} /\ pc' = "end" /\ UNCHANGED err
  /\ UNCHANGED <<engineVars, memVars, logVars, sigVars, runVars>>

NullLog ==
  /\ At("nulllog")
  /\ err' = "null"
  /\ pc' = "end"
  /\ UNCHANGED <<engineVars, memVars, logVars, sigVars, runVars>>

End ==
  /\ At("end")
  /\ pc' = "dead"
  /\ UNCHANGED <<engineVars, memVars, err, logVars, sigVars, runVars>>
-----------------------------------------------------------------------------
(* Signals, and what happens outside the process.                          *)

Live == pc \notin {"dead", "crashed"}

\* Notes a signal that comes between two things that belong together.
Untimely(what) ==
  inside' = IF inside = "none" /\ (usr1 \/ pc \in Window) THEN what ELSE inside

\* on_signal for INT and TERM.
OnSignal ==
  /\ program = "banipd" /\ Live
  /\ nsig < MaxSignals
  /\ nsig' = nsig + 1
  /\ Untimely(IF usr1 THEN "freopen" ELSE "window")
  /\ pc' = "free"
  /\ usr1' = FALSE
  /\ UNCHANGED <<engineVars, memVars, err, logVars, uid, runVars>>

\* Rotation makes a new log file that only root may write to, or any user.
MayOpen == uid = "root" \/ shared

\* Variant: the log is not opened again.
OnUsr1Ignored ==
  /\ program = "banipd" /\ Live /\ err # "gone"
  /\ seen' = current
  /\ UNCHANGED <<engineVars, memVars, pc, err, named, stream, current, shared, refused,
                 denied, sigVars, runVars>>

\* on_signal for USR1, which is masked until it returns: freopen.  When it fails
\* the old file is closed too.
OnUsr1 ==
  /\ program = "banipd" /\ Live /\ err # "gone"
  /\ seen' = current
  /\ Untimely("window")
  /\ \/ /\ err = "file" /\ MayOpen
        /\ stream' = current
        /\ UNCHANGED <<pc, err, usr1, refused, denied>>
     \/ /\ err = "file"
        /\ err' = "gone" /\ usr1' = TRUE
        /\ refused' = (refused \/ MayOpen) /\ denied' = (denied \/ ~MayOpen)
        /\ UNCHANGED <<pc, stream>>
     \/ /\ err = "closed" /\ Undefined(pc)
        /\ UNCHANGED <<err, usr1, stream, refused, denied>>
     \/ /\ err \in {"null", "stderr"}
        /\ UNCHANGED <<pc, err, usr1, stream, refused, denied>>
  /\ UNCHANGED <<engineVars, memVars, named, current, shared, uid, nsig, runVars>>

\* Variant: err_file is left as freopen failed to make it.
ReplaceLogForgotten ==
  /\ usr1
  /\ usr1' = FALSE
  /\ UNCHANGED <<engineVars, memVars, pc, err, logVars, uid, nsig, inside, runVars>>

\* err_file = stderr, and a warning there.
ReplaceLog ==
  /\ usr1
  /\ usr1' = FALSE
  /\ err' = "stderr"
  /\ UNCHANGED <<engineVars, memVars, pc, logVars, uid, nsig, inside, runVars>>

\* newsyslog renames the log and creates another; a USR1 comes later.
Rotate ==
  /\ named /\ current < MaxRotations
  /\ current' = current + 1
  /\ shared' \in BOOLEAN
  /\ UNCHANGED <<engineVars, memVars, pc, err, named, stream, seen, refused,
                 denied, sigVars, runVars>>

\* The administrator creates a set (README.md); only ipset looks at sets.
CreateSet(family) ==
  /\ engine = "ipset"
  /\ sets' = sets \cup {family}
  /\ UNCHANGED <<engine, fits, table, memVars, pc, err, logVars, sigVars, runVars>>

Next ==
  \/ ParseOptions \/ OpenQueue \/ AllocateBuffer \/ OpenEngine \/ DropPrivilege
  \/ NextAddress \/ Handle \/ LogHead \/ LogRest
  \/ FreeBuffer \/ NullBuffer \/ CloseContext \/ FreeContext \/ NullContext
  \/ CloseQueue \/ FreeName \/ NullName \/ FreeQueue \/ NullQueue
  \/ RemovePidfile \/ CloseLog \/ NullLog \/ End
  \/ OnSignal \/ OnUsr1 \/ ReplaceLog \/ Rotate
  \/ \E f \in {"v4", "v6"} : CreateSet(f)

Spec == Init /\ [][Next]_vars
-----------------------------------------------------------------------------
\* A process crashes for what it did to its memory or its log only if a signal
\* came between a free or fclose of cleanup() or queue_close and the assignment
\* after it, or after a freopen that failed and before its result was stored, or
\* if the engine is ipset, whose context is no memory at all.  Signals at all
\* other places, in cleanup() and in a handler too, do no harm.
CrashCause == pc = "crashed" => inside # "none" \/ ctxt = "one"

\* _verr writes every piece of a record to an open stream, although it looks at
\* err_file once and USR1 may replace it between two pieces.
RecordWritten == pc = "rest" /\ ~usr1 => err \in {"stderr", "file"}

\* After a USR1 the records go to the log file of the last rotation (README.md,
\* "Rotating log"), unless on_signal once failed to open a log: because the daemon
\* had become nobody and the log of that time was not for everyone, or for another
\* reason.  A failure is for good, the next USR1 does not try again.
LogFollows ==
  Live /\ pc \notin CleanupLabel \cup {"options"} /\ named /\ seen = current /\ ~usr1 =>
    (err = "file" /\ stream = current) \/ refused \/ (denied /\ uid = "nobody")

\* When an engine says that an address is banned, the firewall lists it with its
\* prefix.  NPF and ipset list the address without it; iptables and dummy list
\* nothing; and a command that is too long counts as done.
SuccessListed ==
  \A a \in reported :
    \/ a \in table
    \/ engine \in {"npf", "ipset"} /\ a.net /\ HostOf(a) \in table
    \/ engine \in {"iptables", "dummy"}
    \/ engine = "ipset" /\ ~fits
=============================================================================
