----------------------------- MODULE SysvProofs -----------------------------
(***************************************************************************)
(* The theorems about module SysvQueue, for any number of daemons, senders *)
(* and signals, any inodes and any sizes.                                  *)
(*                                                                         *)
(* The invariant has a part about each daemon alone (Daemon), a part about *)
(* who may remove the key file (Stale, Held), a part about the keys of the *)
(* kernel queues (Keys), and a part about the messages in them (Ordered).  *)
(***************************************************************************)
EXTENDS SysvQueue, SequenceTheorems, TLAPS

Twice == \E p \in Owner : UnlinksTwice(p)

\* From the creation of the key file until the daemon stops.
Serving == {"named", "msgget", "stat", "open", "ready"}
Holding == {"created", "written"} \cup Serving

\* What a daemon knows of its file and its queue at each point of queue_open and
\* queue_close: the name from the moment ftok succeeded until it is freed, the
\* identifier once it is stored, until it is cleared.
Daemon(o) ==
  /\ pc[o] \notin {"opened", "read"}
  /\ pc[o] \in {"start", "created", "written"} => o \notin filename
  /\ pc[o] \in {"start", "created", "written", "named"} => queue[o] = "none"
  /\ pc[o] \in Serving \cup {"clear", "unlink", "free"} => o \in filename
  /\ qid[o] \in {NoQueue, o}
  /\ pc[o] \in {"stat", "open", "ready", "clear"} => qid[o] = o
  /\ pc[o] \in {"unlink", "free", "killed"} => qid[o] = NoQueue
  /\ pc[o] \in {"msgget", "stat", "open", "ready"} =>
       queue[o] = "linked" /\ key[o] = <<ino[o], TheId>>
  /\ qid[o] = o =>
       \/ queue[o] = "linked"
       \/ pc[o] = "clear" \/ MetAt(o, {"clear"})
  /\ queue[o] = "linked" =>
       \/ pc[o] \in {"msgget", "killed"} \/ MetAt(o, {"msgget"})
       \/ qid[o] = o /\ o \in filename /\ pc[o] \in {"stat", "open", "ready", "close"}
       \/ pc[o] = "end" /\ o \in dropped

\* A sender has a file open before it reads the id, and a queue once it is ready.
Client(s) ==
  /\ pc[s] \in {"start", "opened", "read", "stat", "ready", "end"}
  /\ pc[s] = "opened" => ino[s] \in Ino

\* The daemon that made the key file has not begun to forget it, unless it was
\* stopped too early to know the name, or gave up.
Remembers(o) ==
  /\ pc[o] \notin {"start", "free"}
  /\ pc[o] = "close" /\ o \notin filename => MetAt(o, {"created", "written"})
  /\ pc[o] = "end" =>
       \/ MetAt(o, {"created", "written"})
       \/ o \in dropped
       \/ MetAt(o, {"clear"})
Stale == file # NoFile => maker \in Owner /\ Remembers(maker)

\* As long as nobody unlinks twice, the file is that of the daemon that serves, and
\* a daemon that is to unlink the file is the one that made it.
Unlinking(o) == o \in filename /\ pc[o] \in {"close", "clear", "unlink"}
Holds(o) ==
  /\ pc[o] \in Holding => file = ino[o]
  /\ pc[o] \in Holding \/ Unlinking(o) => file # NoFile /\ maker = o
Held == Twice \/ \A o \in Owner : Holds(o)

\* No two queues the kernel knows have the same key.
Keys == \A p, q \in Process :
          queue[p] = "linked" /\ queue[q] = "linked" /\ key[p] = key[q] => p = q

\* What a daemon got is what was sent first, in this order.
Received(g, s) ==
  \A i \in 1..Len(g) :
    \/ g[i] = s[i].text
    \/ g[i] = Cut /\ MsgLen[s[i].text] >= s[i].size

\* What has been sent to a daemon's queue is what it got and then what is in the
\* queue; there is nothing in a queue that was removed.
InOrder(g, q, s) ==
  /\ Len(g) + Len(q) = Len(s)
  /\ \A i \in 1..Len(q) : q[i] = s[Len(g) + i]
  /\ Received(g, s)
Ordered(o) ==
  \/ queue[o] # "removed" /\ InOrder(got[o], msgs[o], sent[o])
  \/ /\ queue[o] = "removed" /\ msgs[o] = <<>>
     /\ Len(got[o]) <= Len(sent[o]) /\ Received(got[o], sent[o])

IInv ==
  /\ TypeOK
  /\ \A o \in Owner : Daemon(o)
  /\ \A s \in Sender : Client(s)
  /\ Stale /\ Held /\ Keys
  /\ \A o \in Owner : Ordered(o)
-----------------------------------------------------------------------------
(* What a step of one process does to the invariant.                       *)

\* What a step leaves alone of a process.
Same(p) ==
  /\ pc'[p] = pc[p] /\ ino'[p] = ino[p] /\ qid'[p] = qid[p]
  /\ queue'[p] = queue[p] /\ key'[p] = key[p] /\ stops'[p] = stops[p]
  /\ p \in filename' <=> p \in filename
  /\ p \in dropped' <=> p \in dropped

\* A daemon that a step leaves alone keeps its part of the invariant.
LEMMA SameDaemon ==
  ASSUME NEW o \in Owner, Same(o)
  PROVE  /\ Daemon(o) => Daemon(o)'
         /\ Remembers(o) => Remembers(o)'
         /\ UNCHANGED <<file, maker>> /\ Holds(o) => Holds(o)'
<1>1. \A S : MetAt(o, S)' <=> MetAt(o, S)
  BY DEF Same, MetAt
<1>2. Daemon(o) => Daemon(o)'
  BY <1>1 DEF Same, Daemon
<1>3. Remembers(o) => Remembers(o)'
  BY <1>1 DEF Same, Remembers
<1>4. UNCHANGED <<file, maker>> /\ Holds(o) => Holds(o)'
  BY DEF Same, Holds, Unlinking
<1>5. QED
  BY <1>2, <1>3, <1>4

\* A step that links no queue keeps the keys apart.
LEMMA KeysKept ==
  ASSUME Keys,
         \A p \in Process :
           queue'[p] = "linked" => queue[p] = "linked" /\ key'[p] = key[p]
  PROVE  Keys'
BY DEF Keys

\* So does msgget, which creates a queue for a key that no queue has.
LEMMA KeysCreated ==
  ASSUME Keys, NEW p \in Process, NEW k, Linked(k) = {}, key'[p] = k,
         \A q \in Process \ {p} : Same(q)
  PROVE  Keys'
BY DEF Keys, Linked, Same

\* What was unlinked twice stays so.
LEMMA TwiceStays ==
  ASSUME Twice, NEW p \in Process, stops[p] \subseteq stops'[p],
         \A q \in Process \ {p} : Same(q)
  PROVE  Twice'
BY DEF Twice, UnlinksTwice, MetAt, Same, Process

\* A step of a daemon that neither creates nor removes the key file, creates no
\* queue, and does not receive.
LEMMA OwnerStep ==
  ASSUME IInv, NEW o \in Owner, TypeOK', \A p \in Process \ {o} : Same(p),
         stops[o] \subseteq stops'[o],
         UNCHANGED <<file, maker, sent, got>>,
         \A p \in Process \ {o} : msgs'[p] = msgs[p],
         Daemon(o)', Ordered(o)',
         queue'[o] = "linked" => queue[o] = "linked" /\ key'[o] = key[o],
         pc'[o] \in Holding => pc[o] \in Holding /\ ino'[o] \in {ino[o], file},
         Unlinking(o)' => pc[o] \in Holding \/ Unlinking(o) \/ Twice',
         file # NoFile /\ maker = o /\ Remembers(o) => Remembers(o)'
  PROVE  IInv'
<1> o \in Process
  BY DEF Process
<1>1. \A p \in Owner : Daemon(p)'
  BY SameDaemon DEF IInv, Process
<1>2. \A s \in Sender : Client(s)'
  BY SysvAssumption DEF IInv, Same, Client, Process
<1>3. Stale'
  <2>1. CASE maker = o
    BY <2>1 DEF IInv, Stale
  <2>2. CASE maker # o
    BY <2>2, SameDaemon DEF IInv, Stale, Process
  <2>3. QED
    BY <2>1, <2>2
<1>4. Held'
  <2>1. SUFFICES ASSUME ~Twice', NEW p \in Owner
                 PROVE  Holds(p)'
    BY DEF Held
  <2>2. \A q \in Owner : Holds(q)
    BY <2>1, TwiceStays DEF IInv, Held
  <2>3. CASE p = o
    BY <2>1, <2>2, <2>3 DEF Holds
  <2>4. CASE p # o
    BY <2>2, <2>4, SameDaemon DEF Process
  <2>5. QED
    BY <2>3, <2>4
<1>5. Keys'
  BY KeysKept DEF IInv, Same
<1>6. ASSUME NEW p \in Owner PROVE Ordered(p)'
  <2>1. CASE p = o
    BY <2>1
  <2>2. CASE p # o
    <3>1. p \in Process \ {o} /\ Ordered(p)
      BY <2>2 DEF IInv, Process
    <3>2. queue'[p] = queue[p] /\ msgs'[p] = msgs[p]
      BY <3>1 DEF Same
    <3>3. QED
      BY <3>1, <3>2, Zenon DEF Ordered
  <2>3. QED
    BY <2>1, <2>2
<1>7. QED
  BY <1>1, <1>2, <1>3, <1>4, <1>5, <1>6 DEF IInv

\* The same of a step that leaves the queues alone.
LEMMA DaemonStep ==
  ASSUME IInv, NEW o \in Owner, TypeOK', \A p \in Process \ {o} : Same(p),
         stops[o] \subseteq stops'[o],
         UNCHANGED <<file, maker, queue, key, msgs, sent, got>>,
         Daemon(o)',
         pc'[o] \in Holding => pc[o] \in Holding /\ ino'[o] \in {ino[o], file},
         Unlinking(o)' => pc[o] \in Holding \/ Unlinking(o) \/ Twice',
         file # NoFile /\ maker = o /\ Remembers(o) => Remembers(o)'
  PROVE  IInv'
<1>1. Ordered(o)'
  BY Zenon DEF IInv, Ordered
<1>2. QED
  BY <1>1, OwnerStep

\* A step of a sender that neither creates a queue nor sends.
LEMMA SenderStep ==
  ASSUME IInv, NEW s \in Sender, TypeOK', \A p \in Process \ {s} : Same(p),
         stops[s] \subseteq stops'[s],
         UNCHANGED <<file, maker>>, Client(s)', Keys',
         \A o \in Owner : Ordered(o)'
  PROVE  IInv'
<1> s \in Process /\ Owner \subseteq Process \ {s}
  BY SysvAssumption DEF Process
<1>1. \A p \in Owner : Daemon(p)'
  BY SameDaemon DEF IInv
<1>2. \A r \in Sender : Client(r)'
  BY SysvAssumption DEF IInv, Same, Client, Process
<1>3. Stale'
  BY SameDaemon DEF IInv, Stale
<1>4. Held'
  BY SameDaemon, TwiceStays DEF IInv, Held
<1>5. QED
  BY <1>1, <1>2, <1>3, <1>4 DEF IInv
-----------------------------------------------------------------------------
(* How a process moves.                                                    *)

\* Without an incident, or with one that history notes.
Went(p, l) ==
  /\ pc'[p] = l
  /\ \A S : MetAt(p, S)' <=> MetAt(p, S)
Met(p, l) ==
  /\ pc'[p] = l
  /\ \A S : MetAt(p, S)' <=> MetAt(p, S) \/ pc[p] \in S

\* What Goto and Stop do to the process and to the others.
LEMMA GotoMoves ==
  ASSUME TypeOK, NEW p \in Process, NEW l \in Location, Goto(p, l)
  PROVE  /\ pc' \in [Process -> Location] /\ stops' \in [Process -> SUBSET Location]
         /\ Went(p, l) /\ stops[p] \subseteq stops'[p]
         /\ \A q \in Process \ {p} : pc'[q] = pc[q] /\ stops'[q] = stops[q]
BY DEF Goto, Went, MetAt, TypeOK

LEMMA StopMoves ==
  ASSUME TypeOK, NEW p \in Process, NEW l \in Location, Stop(p, l)
  PROVE  /\ pc' \in [Process -> Location] /\ stops' \in [Process -> SUBSET Location]
         /\ Met(p, l) /\ stops[p] \subseteq stops'[p]
         /\ \A q \in Process \ {p} : pc'[q] = pc[q] /\ stops'[q] = stops[q]
<1>1. pc' \in [Process -> Location] /\ pc'[p] = l /\ pc[p] \in Location
  BY DEF Stop, TypeOK
<1>2. stops'[p] = stops[p] \cup {pc[p]} /\ stops' \in [Process -> SUBSET Location]
  BY <1>1 DEF Stop, TypeOK
<1>3. \A q \in Process \ {p} : pc'[q] = pc[q] /\ stops'[q] = stops[q]
  BY DEF Stop, TypeOK
<1>4. \A S : MetAt(p, S)' <=> MetAt(p, S) \/ pc[p] \in S
  BY <1>2 DEF MetAt
<1>5. QED
  BY <1>1, <1>2, <1>3, <1>4 DEF Met

-----------------------------------------------------------------------------
(* queue_open of a daemon.                                                 *)

\* A daemon that fails to write the id leaves a file without noting its name.
LEMMA WriteIdKeeps ==
  ASSUME IInv, NEW o \in Owner, WriteId(o)
  PROVE  IInv'
<1> o \in Process /\ TypeOK /\ Daemon(o)
  BY DEF Process, IInv
<1>1. /\ pc' \in [Process -> Location] /\ stops' \in [Process -> SUBSET Location]
      /\ stops[o] \subseteq stops'[o]
      /\ \A p \in Process \ {o} : pc'[p] = pc[p] /\ stops'[p] = stops[p]
  <2>1. Goto(o, "written") \/ Stop(o, "close")
    BY Zenon DEF WriteId, Fail
  <2>2. QED
    BY <2>1, GotoMoves, StopMoves DEF Location, Opening, Closing
<1>2. /\ pc[o] = "created"
      /\ Went(o, "written") \/ Met(o, "close")
  BY GotoMoves, StopMoves, Zenon DEF WriteId, Fail, TypeOK, Location, Opening, Closing
<1>3. UNCHANGED <<file, maker, queue, key, msgs, ino, id, filename, qid, dropped,
                  strlen, sent, got>>
  BY DEF WriteId, files, kernel, own, history
<1>4. TypeOK'
  <2>1. content' \in [Ino -> Id \cup {Empty}]
    BY SysvAssumption DEF WriteId, TypeOK
  <2>2. QED
    BY <1>1, <1>3, <2>1 DEF TypeOK
<1>5. \A p \in Process \ {o} : Same(p)
  BY <1>1, <1>3 DEF WriteId, TypeOK, Same
<1>6. Daemon(o)'
  BY <1>2, <1>3 DEF Daemon, Serving, Went, Met
<1>7. /\ queue'[o] = "linked" => queue[o] = "linked" /\ key'[o] = key[o]
      /\ pc'[o] \in Holding => pc[o] \in Holding /\ ino'[o] \in {ino[o], file}
      /\ Unlinking(o)' => pc[o] \in Holding \/ Unlinking(o) \/ Twice'
  BY <1>2, <1>3 DEF Daemon, Serving, Holding, Unlinking, Went, Met
<1>8. file # NoFile /\ maker = o /\ Remembers(o) => Remembers(o)'
  BY <1>2, <1>3 DEF Daemon, Serving, Remembers, Went, Met
<1>9. QED
  BY <1>1, <1>3, <1>4, <1>5, <1>6, <1>7, <1>8, DaemonStep

\* ftok finds the file of the daemon itself, and the name is noted.
LEMMA NameFileKeeps ==
  ASSUME IInv, NEW o \in Owner, NameFile(o)
  PROVE  IInv'
<1> o \in Process /\ TypeOK /\ Daemon(o)
  BY DEF Process, IInv
<1>1. /\ pc' \in [Process -> Location] /\ stops' \in [Process -> SUBSET Location]
      /\ stops[o] \subseteq stops'[o]
      /\ \A p \in Process \ {o} : pc'[p] = pc[p] /\ stops'[p] = stops[p]
  <2>1. Goto(o, "named") \/ Stop(o, "close")
    BY DEF NameFile, Fail
  <2>2. QED
    BY <2>1, GotoMoves, StopMoves DEF Location, Opening, Closing
<1>2. /\ pc[o] = "written"
      /\ \/ Went(o, "named") /\ ino'[o] = file /\ o \in filename'
         \/ Met(o, "close") /\ ino'[o] = ino[o] /\ o \notin filename'
  BY GotoMoves, StopMoves, Zenon DEF NameFile, Fail, TypeOK, Location, Opening, Closing,
                              Daemon
<1>3. UNCHANGED <<file, maker, content, queue, key, msgs, id, qid, dropped,
                  strlen, sent, got>>
  BY DEF NameFile, files, kernel, own, history
<1>4. TypeOK'
  <2>1. ino' \in [Process -> Ino \cup {NoFile}] /\ filename' \subseteq Owner
    BY Zenon DEF NameFile, TypeOK
  <2>2. QED
    BY <1>1, <1>3, <2>1 DEF TypeOK
<1>5. \A p \in Process \ {o} : Same(p)
  BY <1>1, <1>3 DEF NameFile, TypeOK, Same
<1>6. Daemon(o)'
  BY <1>2, <1>3, Zenon DEF Daemon, Serving, Went, Met
<1>7. /\ queue'[o] = "linked" => queue[o] = "linked" /\ key'[o] = key[o]
      /\ pc'[o] \in Holding => pc[o] \in Holding /\ ino'[o] \in {ino[o], file}
      /\ Unlinking(o)' => pc[o] \in Holding \/ Unlinking(o) \/ Twice'
  BY <1>2, <1>3, Zenon DEF Daemon, Serving, Holding, Unlinking, Went, Met
<1>8. file # NoFile /\ maker = o /\ Remembers(o) => Remembers(o)'
  BY <1>2, <1>3, Zenon DEF Daemon, Serving, Remembers, Went, Met
<1>9. QED
  BY <1>1, <1>3, <1>4, <1>5, <1>6, <1>7, <1>8, DaemonStep, Zenon

\* The identifier is that of the daemon's own queue.
LEMMA StoreQidKeeps ==
  ASSUME IInv, NEW o \in Owner, StoreQid(o)
  PROVE  IInv'
<1> o \in Process /\ TypeOK /\ Daemon(o)
  BY DEF Process, IInv
<1>1. /\ pc' \in [Process -> Location] /\ stops' \in [Process -> SUBSET Location]
      /\ stops[o] \subseteq stops'[o]
      /\ \A p \in Process \ {o} : pc'[p] = pc[p] /\ stops'[p] = stops[p]
  <2>1. Goto(o, "stat")
    BY Zenon DEF StoreQid
  <2>2. QED
    BY <2>1, GotoMoves DEF Location, Opening, Closing
<1>2. pc[o] = "msgget" /\ Went(o, "stat") /\ qid'[o] = o
  BY GotoMoves DEF StoreQid, TypeOK, Location, Opening, Closing
<1>3. UNCHANGED <<file, maker, content, queue, key, msgs, ino, id, filename,
                  dropped, strlen, sent, got>>
  BY DEF StoreQid, files, kernel, own, history
<1>4. TypeOK'
  BY <1>1, <1>3, Zenon DEF StoreQid, TypeOK
<1>5. \A p \in Process \ {o} : Same(p)
  BY <1>1, <1>3 DEF StoreQid, TypeOK, Same
<1>6. Daemon(o)'
  BY <1>2, <1>3, Zenon DEF Daemon, Serving, Went
<1>7. /\ queue'[o] = "linked" => queue[o] = "linked" /\ key'[o] = key[o]
      /\ pc'[o] \in Holding => pc[o] \in Holding /\ ino'[o] \in {ino[o], file}
      /\ Unlinking(o)' => pc[o] \in Holding \/ Unlinking(o) \/ Twice'
  BY <1>2, <1>3 DEF Daemon, Serving, Holding, Unlinking, Went
<1>8. file # NoFile /\ maker = o /\ Remembers(o) => Remembers(o)'
  BY <1>2, <1>3, Zenon DEF Daemon, Serving, Remembers, Went
<1>9. QED
  BY <1>1, <1>3, <1>4, <1>5, <1>6, <1>7, <1>8, DaemonStep, Zenon

\* The daemon changes its user, or fails to open the engine.
LEMMA DropPrivilegeKeeps ==
  ASSUME IInv, NEW o \in Owner, DropPrivilege(o)
  PROVE  IInv'
<1> o \in Process /\ TypeOK /\ Daemon(o)
  BY DEF Process, IInv
<1>1. /\ pc' \in [Process -> Location] /\ stops' \in [Process -> SUBSET Location]
      /\ stops[o] \subseteq stops'[o]
      /\ \A p \in Process \ {o} : pc'[p] = pc[p] /\ stops'[p] = stops[p]
  <2>1. Goto(o, "ready") \/ Stop(o, "close")
    BY DEF DropPrivilege, Fail
  <2>2. QED
    BY <2>1, GotoMoves, StopMoves DEF Location, Opening, Closing
<1>2. /\ pc[o] = "open"
      /\ \/ Went(o, "ready")
         \/ Met(o, "close") /\ dropped' = dropped
  BY GotoMoves, StopMoves, Zenon DEF DropPrivilege, Fail, TypeOK, Location,
                                     Opening, Closing
<1>3. UNCHANGED <<file, maker, content, queue, key, msgs, ino, id, filename, qid,
                  strlen, sent, got>>
  BY DEF DropPrivilege, files, kernel, own, history
<1>4. TypeOK'
  BY <1>1, <1>3 DEF DropPrivilege, TypeOK
<1>5. \A p \in Process \ {o} : Same(p)
  BY <1>1, <1>3 DEF DropPrivilege, TypeOK, Same
<1>6. Daemon(o)'
  BY <1>2, <1>3, Zenon DEF Daemon, Serving, Went, Met
<1>7. /\ queue'[o] = "linked" => queue[o] = "linked" /\ key'[o] = key[o]
      /\ pc'[o] \in Holding => pc[o] \in Holding /\ ino'[o] \in {ino[o], file}
      /\ Unlinking(o)' => pc[o] \in Holding \/ Unlinking(o) \/ Twice'
  BY <1>2, <1>3, Zenon DEF Daemon, Serving, Holding, Unlinking, Went, Met
<1>8. file # NoFile /\ maker = o /\ Remembers(o) => Remembers(o)'
  BY <1>2, <1>3, Zenon DEF Daemon, Serving, Remembers, Went, Met
<1>9. QED
  BY <1>1, <1>3, <1>4, <1>5, <1>6, <1>7, <1>8, DaemonStep

-----------------------------------------------------------------------------
(* queue_close of a daemon.                                                *)

\* A part of a sum is no more than the sum.
LEMMA SumBounds ==
  ASSUME NEW a \in Nat, NEW b \in Nat, NEW c \in Nat, a + b = c
  PROVE  a <= c /\ a + b <= c
OBVIOUS

\* Only a daemon that changed its user, or was interrupted, gives up here.
LEMMA RemoveQueueKeeps ==
  ASSUME IInv, NEW o \in Owner, RemoveQueue(o)
  PROVE  IInv'
<1> o \in Process /\ TypeOK /\ Daemon(o)
  BY DEF Process, IInv
<1>1. /\ pc' \in [Process -> Location] /\ stops' \in [Process -> SUBSET Location]
      /\ stops[o] \subseteq stops'[o]
      /\ \A p \in Process \ {o} : pc'[p] = pc[p] /\ stops'[p] = stops[p]
  <2>1. Goto(o, "end") \/ Goto(o, "unlink") \/ Goto(o, "clear")
    BY Zenon DEF RemoveQueue
  <2>2. QED
    BY <2>1, GotoMoves DEF Location, Opening, Closing
<1>2. /\ pc[o] = "close"
      /\ \/ o \notin filename /\ Went(o, "end") /\ queue'[o] = queue[o]
         \/ o \in filename /\ qid[o] = NoQueue /\ Went(o, "unlink") /\ queue'[o] = queue[o]
         \/ /\ o \in filename /\ qid[o] = o /\ queue[o] = "linked" /\ o \notin dropped
            /\ Went(o, "clear") /\ queue'[o] = "removed"
         \/ /\ o \in filename /\ qid[o] = o /\ (queue[o] # "linked" \/ o \in dropped)
            /\ Went(o, "end") /\ queue'[o] = queue[o]
  <2>1. /\ Goto(o, "end") => Went(o, "end")
        /\ Goto(o, "unlink") => Went(o, "unlink")
        /\ Goto(o, "clear") => Went(o, "clear")
    BY GotoMoves DEF Location, Opening, Closing
  <2>2. [queue EXCEPT ![o] = "removed"][o] = "removed"
    BY DEF TypeOK
  <2>3. qid[o] \in {NoQueue, o}
    BY DEF Daemon
  <2>4. QED
    BY <2>1, <2>2, <2>3, Zenon DEF RemoveQueue
<1>3. UNCHANGED <<file, maker, content, key, ino, id, filename, qid,
                  dropped, strlen, sent, got>>
  BY DEF RemoveQueue, files, own, history
<1>a. \/ UNCHANGED <<queue, msgs>>
      \/ /\ queue[o] = "linked" /\ queue' = [queue EXCEPT ![o] = "removed"]
         /\ msgs' = [msgs EXCEPT ![o] = <<>>]
  BY Zenon DEF RemoveQueue
<1>4. TypeOK'
  <2>1. /\ queue' \in [Process -> {"none", "linked", "removed"}]
        /\ msgs' \in [Process -> Seq(Message)]
    <3>1. /\ queue \in [Process -> {"none", "linked", "removed"}]
          /\ msgs \in [Process -> Seq(Message)] /\ <<>> \in Seq(Message)
      BY EmptySeq, Zenon DEF TypeOK
    <3>2. QED
      BY <1>a, <3>1, Zenon
  <2>2. QED
    BY <1>1, <1>3, <2>1, Zenon DEF TypeOK
<1>5. \A p \in Process \ {o} : Same(p) /\ msgs'[p] = msgs[p]
  BY <1>1, <1>3, <1>a, Zenon DEF TypeOK, Same
<1>b. Ordered(o)'
  <2>1. Ordered(o)
    BY DEF IInv
  <2>2. CASE UNCHANGED <<queue, msgs>>
    BY <1>3, <2>1, <2>2, Zenon DEF Ordered
  <2>3. CASE /\ queue[o] = "linked" /\ queue' = [queue EXCEPT ![o] = "removed"]
             /\ msgs' = [msgs EXCEPT ![o] = <<>>]
    <3>1. queue'[o] = "removed" /\ msgs'[o] = <<>>
      BY <2>3, Zenon DEF TypeOK
    <3>2. InOrder(got[o], msgs[o], sent[o])
      BY <2>1, <2>3 DEF Ordered
    <3>3. Len(got[o]) \in Nat /\ Len(msgs[o]) \in Nat /\ Len(sent[o]) \in Nat
      <4>1. /\ got[o] \in Seq(Msg \cup {Cut}) /\ msgs[o] \in Seq(Message)
            /\ sent[o] \in Seq(Message)
        BY Zenon DEF TypeOK
      <4>2. QED
        BY <4>1, LenProperties
    <3>4. Len(got[o]) <= Len(sent[o]) /\ Received(got[o], sent[o])
      <4>1. Len(got[o]) + Len(msgs[o]) = Len(sent[o]) /\ Received(got[o], sent[o])
        BY <3>2, Zenon DEF InOrder
      <4>2. QED
        BY <3>3, <4>1, SumBounds, Zenon
    <3>5. QED
      BY <1>3, <3>1, <3>4, Zenon DEF Ordered
  <2>4. QED
    BY <1>a, <2>2, <2>3, Zenon
<1>6. Daemon(o)'
  BY <1>2, <1>3, SysvAssumption, Zenon DEF Daemon, Serving, Went
<1>7. /\ queue'[o] = "linked" => queue[o] = "linked" /\ key'[o] = key[o]
      /\ pc'[o] \in Holding => pc[o] \in Holding /\ ino'[o] \in {ino[o], file}
      /\ Unlinking(o)' => pc[o] \in Holding \/ Unlinking(o) \/ Twice'
  BY <1>2, <1>3, Zenon DEF Daemon, Serving, Holding, Unlinking, Went
<1>8. file # NoFile /\ maker = o /\ Remembers(o) => Remembers(o)'
  BY <1>2, <1>3, Zenon DEF Daemon, Serving, Remembers, Went
<1>9. QED
  BY <1>1, <1>3, <1>4, <1>5, <1>b, <1>6, <1>7, <1>8, OwnerStep, Zenon

\* The identifier is forgotten once its queue is removed.
LEMMA ClearQidKeeps ==
  ASSUME IInv, NEW o \in Owner, ClearQid(o)
  PROVE  IInv'
<1> o \in Process /\ TypeOK /\ Daemon(o)
  BY DEF Process, IInv
<1>1. /\ pc' \in [Process -> Location] /\ stops' \in [Process -> SUBSET Location]
      /\ stops[o] \subseteq stops'[o]
      /\ \A p \in Process \ {o} : pc'[p] = pc[p] /\ stops'[p] = stops[p]
  <2>1. Goto(o, "unlink")
    BY Zenon DEF ClearQid
  <2>2. QED
    BY <2>1, GotoMoves DEF Location, Opening, Closing
<1>2. pc[o] = "clear" /\ Went(o, "unlink") /\ qid'[o] = NoQueue
  BY GotoMoves DEF ClearQid, TypeOK, Location, Opening, Closing
<1>3. UNCHANGED <<file, maker, content, queue, key, msgs, ino, id, filename,
                  dropped, strlen, sent, got>>
  BY DEF ClearQid, files, kernel, own, history
<1>4. TypeOK'
  BY <1>1, <1>3 DEF ClearQid, TypeOK
<1>5. \A p \in Process \ {o} : Same(p)
  BY <1>1, <1>3 DEF ClearQid, TypeOK, Same
<1>6. Daemon(o)'
  BY <1>2, <1>3, SysvAssumption, Zenon DEF Daemon, Serving, Went
<1>7. /\ queue'[o] = "linked" => queue[o] = "linked" /\ key'[o] = key[o]
      /\ pc'[o] \in Holding => pc[o] \in Holding /\ ino'[o] \in {ino[o], file}
      /\ Unlinking(o)' => pc[o] \in Holding \/ Unlinking(o) \/ Twice'
  BY <1>2, <1>3 DEF Daemon, Serving, Holding, Unlinking, Went
<1>8. file # NoFile /\ maker = o /\ Remembers(o) => Remembers(o)'
  BY <1>2, <1>3, Zenon DEF Daemon, Serving, Remembers, Went
<1>9. QED
  BY <1>1, <1>3, <1>4, <1>5, <1>6, <1>7, <1>8, DaemonStep

\* The name is forgotten once its file is unlinked.
LEMMA FreeQueueKeeps ==
  ASSUME IInv, NEW o \in Owner, FreeQueue(o)
  PROVE  IInv'
<1> o \in Process /\ TypeOK /\ Daemon(o)
  BY DEF Process, IInv
<1>1. /\ pc' \in [Process -> Location] /\ stops' \in [Process -> SUBSET Location]
      /\ stops[o] \subseteq stops'[o]
      /\ \A p \in Process \ {o} : pc'[p] = pc[p] /\ stops'[p] = stops[p]
  <2>1. Goto(o, "end")
    BY Zenon DEF FreeQueue
  <2>2. QED
    BY <2>1, GotoMoves DEF Location, Opening, Closing
<1>2. pc[o] = "free" /\ Went(o, "end") /\ o \notin filename'
  BY GotoMoves DEF FreeQueue, TypeOK, Location, Opening, Closing
<1>3. UNCHANGED <<file, maker, content, queue, key, msgs, ino, id, qid, dropped,
                  strlen, sent, got>>
  BY Zenon DEF FreeQueue, files, kernel, own, history
<1>4. TypeOK'
  BY <1>1, <1>3 DEF FreeQueue, TypeOK
<1>5. \A p \in Process \ {o} : Same(p)
  BY <1>1, <1>3 DEF FreeQueue, TypeOK, Same
<1>6. Daemon(o)'
  BY <1>2, <1>3, Zenon DEF Daemon, Serving, Went
<1>7. /\ queue'[o] = "linked" => queue[o] = "linked" /\ key'[o] = key[o]
      /\ pc'[o] \in Holding => pc[o] \in Holding /\ ino'[o] \in {ino[o], file}
      /\ Unlinking(o)' => pc[o] \in Holding \/ Unlinking(o) \/ Twice'
  BY <1>2, <1>3 DEF Daemon, Serving, Holding, Unlinking, Went
<1>8. file # NoFile /\ maker = o /\ Remembers(o) => Remembers(o)'
  BY <1>2, <1>3, Zenon DEF Daemon, Serving, Remembers, Went
<1>9. QED
  BY <1>1, <1>3, <1>4, <1>5, <1>6, <1>7, <1>8, DaemonStep

\* A signal starts the cleanup, with what was noted until then.
LEMMA OnSignalKeeps ==
  ASSUME IInv, NEW o \in Owner, OnSignal(o)
  PROVE  IInv'
<1> o \in Process /\ TypeOK /\ Daemon(o)
  BY DEF Process, IInv
<1>1. /\ pc' \in [Process -> Location] /\ stops' \in [Process -> SUBSET Location]
      /\ stops[o] \subseteq stops'[o]
      /\ \A p \in Process \ {o} : pc'[p] = pc[p] /\ stops'[p] = stops[p]
  <2>1. Stop(o, "close")
    BY Zenon DEF OnSignal
  <2>2. QED
    BY <2>1, StopMoves DEF Location, Opening, Closing
<1>2. Met(o, "close") /\ pc[o] \notin {"end", "killed"} /\ pc[o] \in Location
  BY StopMoves, Zenon DEF OnSignal, TypeOK, Location, Opening, Closing, Live
<1>3. UNCHANGED <<file, maker, content, queue, key, msgs, ino, id, filename, qid,
                  dropped, strlen, sent, got>>
  BY DEF OnSignal, files, kernel, own, history
<1>4. TypeOK'
  BY <1>1, <1>3, Zenon DEF TypeOK
<1>5. \A p \in Process \ {o} : Same(p)
  BY <1>1, <1>3, Zenon DEF TypeOK, Same
<1>6. Daemon(o)'
  BY <1>2, <1>3, Zenon DEF Daemon, Serving, Met, Location, Opening, Closing
<1>7. /\ queue'[o] = "linked" => queue[o] = "linked" /\ key'[o] = key[o]
      /\ pc'[o] \in Holding => pc[o] \in Holding /\ ino'[o] \in {ino[o], file}
      /\ Unlinking(o)' => pc[o] \in Holding \/ Unlinking(o) \/ Twice'
  BY <1>2, <1>3, Zenon DEF Daemon, Serving, Holding, Unlinking, Met, Twice,
                    UnlinksTwice, Location, Opening, Closing
<1>8. file # NoFile /\ maker = o /\ Remembers(o) => Remembers(o)'
  BY <1>2, <1>3 DEF Daemon, Serving, Remembers, Met, Location, Opening, Closing
<1>9. QED
  BY <1>1, <1>3, <1>4, <1>5, <1>6, <1>7, <1>8, DaemonStep, Zenon

\* A daemon that is killed has nothing left to clean up.
LEMMA KillKeeps ==
  ASSUME IInv, NEW o \in Owner, Kill(o)
  PROVE  IInv'
<1> o \in Process /\ TypeOK /\ Daemon(o)
  BY DEF Process, IInv
<1>1. /\ pc' \in [Process -> Location] /\ stops' \in [Process -> SUBSET Location]
      /\ stops[o] \subseteq stops'[o]
      /\ \A p \in Process \ {o} : pc'[p] = pc[p] /\ stops'[p] = stops[p]
  <2>1. Goto(o, "killed")
    BY Zenon DEF Kill
  <2>2. QED
    BY <2>1, GotoMoves DEF Location, Opening, Closing
<1>2. Went(o, "killed") /\ qid'[o] = NoQueue /\ o \notin filename'
  BY GotoMoves, Zenon DEF Kill, TypeOK, Location, Opening, Closing
<1>3. UNCHANGED <<file, maker, content, queue, key, msgs, ino, id, dropped,
                  strlen, sent, got>>
  BY DEF Kill, files, kernel, own, history
<1>4. TypeOK'
  BY <1>1, <1>3, Zenon DEF Kill, TypeOK
<1>5. \A p \in Process \ {o} : Same(p)
  BY <1>1, <1>3, Zenon DEF Kill, TypeOK, Same
<1>6. Daemon(o)'
  BY <1>2, <1>3, SysvAssumption, Zenon DEF Daemon, Serving, Went
<1>7. /\ queue'[o] = "linked" => queue[o] = "linked" /\ key'[o] = key[o]
      /\ pc'[o] \in Holding => pc[o] \in Holding /\ ino'[o] \in {ino[o], file}
      /\ Unlinking(o)' => pc[o] \in Holding \/ Unlinking(o) \/ Twice'
  BY <1>2, <1>3, Zenon DEF Daemon, Serving, Holding, Unlinking, Went
<1>8. file # NoFile /\ maker = o /\ Remembers(o) => Remembers(o)'
  BY <1>2, <1>3 DEF Daemon, Serving, Remembers, Went
<1>9. QED
  BY <1>1, <1>3, <1>4, <1>5, <1>6, <1>7, <1>8, DaemonStep, Zenon

\* Where the file is unlinked, it is the daemon's own, unless it was unlinked twice.
LEMMA UnlinkFileKeeps ==
  ASSUME IInv, NEW o \in Owner, UnlinkFile(o)
  PROVE  IInv'
<1> o \in Process /\ TypeOK /\ Daemon(o)
  BY DEF Process, IInv
<1>1. /\ pc[o] = "unlink" /\ file' = NoFile
      /\ Went(o, "end") \/ Went(o, "free")
      /\ stops' = stops
      /\ pc' \in [Process -> Location] /\ \A p \in Process \ {o} : pc'[p] = pc[p]
  BY GotoMoves, Zenon DEF UnlinkFile, Goto, Location, Opening, Closing
<1>2. UNCHANGED <<maker, content, queue, key, msgs, ino, id, filename, qid, dropped,
                  strlen, sent, got>>
  BY DEF UnlinkFile, kernel, own, history
<1>3. TypeOK'
  BY <1>1, <1>2, Zenon DEF TypeOK
<1>4. \A p \in Process \ {o} : Same(p)
  BY <1>1, <1>2, Zenon DEF Same
<1>5. Daemon(o)'
  BY <1>1, <1>2, SysvAssumption DEF Daemon, Serving, Went
<1>6. \A p \in Owner : Daemon(p)'
  BY <1>4, <1>5, SameDaemon, Zenon DEF IInv, Process
<1>7. \A s \in Sender : Client(s)'
  BY <1>4, SysvAssumption DEF IInv, Same, Client, Process
<1>8. Stale'
  BY <1>1 DEF Stale
<1>9. Held'
  <2>1. SUFFICES ASSUME ~Twice, NEW p \in Owner
                 PROVE  Holds(p)'
    BY <1>1 DEF Held, Twice, UnlinksTwice, MetAt
  <2>2. \A q \in Owner : Holds(q)
    BY <2>1, Zenon DEF IInv, Held
  <2>3. maker = o
    BY <1>1, <2>2 DEF Holds, Unlinking, Daemon
  <2>4. CASE p = o
    BY <1>1, <2>4, Zenon DEF Holds, Holding, Serving, Unlinking, Went
  <2>5. CASE p # o
    <3>1. pc[p] \notin Holding /\ ~Unlinking(p)
      BY <2>2, <2>3, <2>5, Zenon DEF Holds
    <3>2. QED
      BY <1>4, <2>5, <3>1, Zenon DEF Holds, Unlinking, Same, Process
  <2>6. QED
    BY <2>4, <2>5, Zenon
<1>10. Keys' /\ \A p \in Owner : Ordered(p)'
  BY <1>2, Zenon DEF IInv, Keys, Ordered
<1>11. QED
  BY <1>3, <1>6, <1>7, <1>8, <1>9, <1>10 DEF IInv

\* The administrator removes no file of a daemon that lives.
LEMMA RemoveStaleKeeps ==
  ASSUME IInv, RemoveStale
  PROVE  IInv'
<1> TypeOK
  BY DEF IInv
<1>1. /\ file # NoFile /\ maker \notin Live /\ file' = NoFile
      /\ UNCHANGED <<pc, maker, content, queue, key, msgs, ino, id, filename, qid,
                     dropped, strlen, stops, sent, got>>
  BY DEF RemoveStale, kernel, own, history
<1>2. TypeOK'
  BY <1>1, Zenon DEF TypeOK
<1>3. \A p \in Process : Same(p)
  BY <1>1 DEF Same
<1>4. \A o \in Owner : Daemon(o)'
  BY <1>3, SameDaemon, Zenon DEF IInv, Process
<1>5. \A s \in Sender : Client(s)'
  BY <1>1, Zenon DEF IInv, Client
<1>6. Stale'
  BY <1>1 DEF Stale
<1>7. Held'
  <2>1. ASSUME NEW o \in Owner, Holds(o) PROVE Holds(o)'
    <3>1. pc[o] \in Holding \/ Unlinking(o) => maker = o /\ o \in Live
      BY <2>1 DEF Holds, Holding, Serving, Unlinking, Live, Process
    <3>2. QED
      BY <1>1, <3>1, Zenon DEF Holds, Unlinking
  <2>2. Twice => Twice'
    BY <1>1 DEF Twice, UnlinksTwice, MetAt
  <2>3. QED
    BY <2>1, <2>2 DEF IInv, Held
<1>8. Keys' /\ \A o \in Owner : Ordered(o)'
  BY <1>1, Zenon DEF IInv, Keys, Ordered
<1>9. QED
  BY <1>2, <1>4, <1>5, <1>6, <1>7, <1>8 DEF IInv

-----------------------------------------------------------------------------
(* The creation of the key file and of the queue.                          *)

\* A daemon that finds a key file fails with nothing to clean up.
LEMMA CreateFileFails ==
  ASSUME IInv, NEW o \in Owner, CreateFile(o), file # NoFile
  PROVE  IInv'
<1> o \in Process /\ TypeOK /\ Daemon(o)
  BY Zenon DEF Process, IInv
<1>1. /\ pc[o] = "start" /\ Met(o, "close") /\ stops[o] \subseteq stops'[o]
      /\ pc' \in [Process -> Location] /\ stops' \in [Process -> SUBSET Location]
      /\ \A p \in Process \ {o} : pc'[p] = pc[p] /\ stops'[p] = stops[p]
  BY StopMoves, Zenon DEF CreateFile, Fail, Location, Closing
<1>2. UNCHANGED <<file, maker, content, queue, key, msgs, ino, id, filename, qid,
                  dropped, strlen, sent, got>>
  BY Zenon DEF CreateFile, kernel, history
<1>3. TypeOK'
  BY <1>1, <1>2, Zenon DEF TypeOK
<1>4. \A p \in Process \ {o} : Same(p)
  BY <1>1, <1>2, Zenon DEF Same
<1>5. Daemon(o)'
  BY <1>1, <1>2, Zenon DEF Daemon, Serving, Met
<1>6. pc'[o] \notin Holding /\ ~Unlinking(o)'
  BY <1>1, <1>2, Zenon DEF Daemon, Holding, Serving, Unlinking, Met
<1>7. ~Remembers(o)
  BY <1>1 DEF Remembers
<1>8. QED
  BY <1>1, <1>2, <1>3, <1>4, <1>5, <1>6, <1>7, DaemonStep

\* A daemon that creates the file is the only one that has a part in it.
LEMMA CreateFileKeeps ==
  ASSUME IInv, NEW o \in Owner, CreateFile(o)
  PROVE  IInv'
<1> o \in Process /\ TypeOK /\ Daemon(o)
  BY DEF Process, IInv
<1> SUFFICES ASSUME file = NoFile PROVE IInv'
  BY CreateFileFails, Zenon
<1>1. /\ pc[o] = "start" /\ maker' = o /\ Went(o, "created") /\ stops' = stops
      /\ pc' \in [Process -> Location] /\ \A p \in Process \ {o} : pc'[p] = pc[p]
  BY GotoMoves DEF CreateFile, Goto, Location, Opening
<1>2. PICK i \in Ino : /\ file' = i /\ ino' = [ino EXCEPT ![o] = i]
                       /\ content' = [content EXCEPT ![i] = Empty]
  BY Zenon DEF CreateFile, FreeIno
<1>3. UNCHANGED <<queue, key, msgs, id, filename, qid, dropped, strlen, sent, got>>
  BY Zenon DEF CreateFile, kernel, history
<1>4. TypeOK'
  BY <1>1, <1>2, <1>3, Zenon DEF TypeOK
<1>5. ino'[o] = i /\ file' # NoFile /\ \A p \in Process \ {o} : Same(p)
  BY <1>1, <1>2, <1>3, SysvAssumption DEF Same, TypeOK
<1>6. Daemon(o)'
  BY <1>1, <1>3, <1>5, Zenon DEF Daemon, Serving, Went
<1>7. \A p \in Owner : Daemon(p)'
  BY <1>5, <1>6, SameDaemon, Zenon DEF IInv, Process
<1>8. \A s \in Sender : Client(s)'
  BY <1>5, SysvAssumption, Zenon DEF IInv, Same, Client, Process
<1>9. Stale'
  BY <1>1 DEF Stale, Remembers, Went
<1>10. Held'
  <2>1. SUFFICES ASSUME ~Twice, NEW p \in Owner
                 PROVE  Holds(p)'
    BY <1>1 DEF Held, Twice, UnlinksTwice, MetAt
  <2>2. CASE p = o
    BY <1>1, <1>2, <1>5, <2>2 DEF Holds
  <2>3. CASE p # o
    <3>1. pc[p] \notin Holding /\ ~Unlinking(p)
      BY <2>1, Zenon DEF IInv, Held, Holds
    <3>2. QED
      BY <1>5, <2>3, <3>1, Zenon DEF Holds, Unlinking, Same, Process
  <2>4. QED
    BY <2>2, <2>3, Zenon
<1>11. Keys' /\ \A p \in Owner : Ordered(p)'
  BY <1>3, Zenon DEF IInv, Keys, Ordered
<1>12. QED
  BY <1>4, <1>7, <1>8, <1>9, <1>10, <1>11 DEF IInv

\* An update keeps the type of a function of the processes.
LEMMA Update ==
  ASSUME NEW K, NEW f \in [Process -> K], NEW p, NEW x \in K
  PROVE  [f EXCEPT ![p] = x] \in [Process -> K]
BY Zenon

\* msgget links a queue under the key of the file, which no other queue has.
LEMMA CreateQueueKeeps ==
  ASSUME IInv, NEW o \in Owner, CreateQueue(o)
  PROVE  IInv'
<1> o \in Process /\ TypeOK /\ Daemon(o)
  BY DEF Process, IInv
<1> DEFINE k == <<ino[o], TheId>>
<1>1. /\ pc[o] = "named" /\ stops[o] \subseteq stops'[o]
      /\ pc' \in [Process -> Location] /\ stops' \in [Process -> SUBSET Location]
      /\ \A p \in Process \ {o} : pc'[p] = pc[p] /\ stops'[p] = stops[p]
      /\ \/ Went(o, "msgget") /\ queue' = [queue EXCEPT ![o] = "linked"]
            /\ key' = [key EXCEPT ![o] = k] /\ Linked(k) = {}
         \/ Met(o, "close") /\ UNCHANGED <<queue, key>>
  BY GotoMoves, StopMoves, Zenon DEF CreateQueue, Fail, Location, Opening, Closing
<1>2. UNCHANGED <<file, maker, content, msgs, ino, id, filename, qid, dropped,
                  strlen,
                  sent, got>>
  BY Zenon DEF CreateQueue, files, own, history
<1>3. TypeOK'
  <2>1. k \in (Ino \cup {NoFile}) \X Id
    BY SysvAssumption DEF TypeOK
  <2>2. /\ queue' \in [Process -> {"none", "linked", "removed"}]
        /\ key' \in [Process -> (Ino \cup {NoFile}) \X Id]
    <3>1. /\ queue \in [Process -> {"none", "linked", "removed"}]
          /\ key \in [Process -> (Ino \cup {NoFile}) \X Id]
      BY DEF TypeOK
    <3>2. [queue EXCEPT ![o] = "linked"] \in [Process -> {"none", "linked", "removed"}]
      BY <3>1, Update
    <3>3. [key EXCEPT ![o] = k] \in [Process -> (Ino \cup {NoFile}) \X Id]
      BY <2>1, <3>1, Update, Zenon
    <3>4. QED
      BY <1>1, <3>1, <3>2, <3>3, Zenon
  <2>3. QED
    BY <1>1, <1>2, <2>2, Zenon DEF TypeOK
<1>4. \A p \in Process \ {o} : Same(p)
  BY <1>1, <1>2 DEF TypeOK, Same
<1>5. \/ Went(o, "msgget") /\ queue'[o] = "linked" /\ key'[o] = k /\ Linked(k) = {}
      \/ Met(o, "close") /\ queue' = queue /\ key' = key
  BY <1>1, Zenon DEF TypeOK
<1>6. Daemon(o)'
  BY <1>1, <1>2, <1>5, Zenon DEF Daemon, Serving, Went, Met
<1>7. \A p \in Owner : Daemon(p)'
  BY <1>4, <1>6, SameDaemon DEF IInv, Process
<1>8. \A s \in Sender : Client(s)'
  BY <1>4, SysvAssumption DEF IInv, Same, Client, Process
<1>9. Stale'
  <2>1. o \in filename' /\ pc'[o] \in {"msgget", "close"}
    BY <1>1, <1>2, <1>5, Zenon DEF Daemon, Serving, Went, Met
  <2>2. Remembers(o)'
    BY <2>1 DEF Remembers
  <2>3. QED
    BY <1>2, <1>4, <2>2, SameDaemon DEF IInv, Stale, Process
<1>10. Held'
  <2>1. SUFFICES ASSUME ~Twice', NEW p \in Owner
                 PROVE  Holds(p)'
    BY DEF Held
  <2>2. \A q \in Owner : Holds(q)
    BY <1>1, <1>4, <2>1, TwiceStays, Zenon DEF IInv, Held
  <2>3. CASE p = o
    BY <1>1, <1>2, <2>2, <2>3, Zenon DEF Holds, Holding, Serving
  <2>4. CASE p # o
    BY <1>2, <1>4, <2>2, <2>4, SameDaemon DEF Process
  <2>5. QED
    BY <2>3, <2>4
<1>11. Keys'
  BY <1>4, <1>5, KeysCreated, KeysKept, Zenon DEF IInv
<1>12. ASSUME NEW p \in Owner PROVE Ordered(p)'
  <2>1. Ordered(p)
    BY DEF IInv
  <2>2. CASE queue'[p] = queue[p]
    BY <1>2, <2>1, <2>2, Zenon DEF Ordered
  <2>3. CASE p = o /\ queue[o] # "removed" /\ queue'[o] # "removed"
    BY <1>2, <2>1, <2>3, Zenon DEF Ordered
  <2>4. queue[o] = "none"
    BY <1>1, Zenon DEF Daemon
  <2>5. QED
    BY <1>4, <1>5, <2>2, <2>3, <2>4 DEF Same, Process
<1>13. QED
  BY <1>3, <1>7, <1>8, <1>9, <1>10, <1>11, <1>12 DEF IInv

\* msgctl(IPC_STAT), for a daemon and for a sender.
LEMMA StatKeeps ==
  ASSUME IInv, NEW p \in Process, Stat(p)
  PROVE  IInv'
<1> TypeOK
  BY DEF IInv
<1>1. /\ pc[p] = "stat" /\ stops[p] \subseteq stops'[p]
      /\ pc' \in [Process -> Location] /\ stops' \in [Process -> SUBSET Location]
      /\ \A q \in Process \ {p} : pc'[q] = pc[q] /\ stops'[q] = stops[q]
      /\ p \in Owner => Went(p, "open") \/ Met(p, "close")
      /\ p \notin Owner => pc'[p] \in {"ready", "end"}
  BY GotoMoves, StopMoves, Zenon DEF Stat, Fail, Went, Met, Location, Closing
<1>2. UNCHANGED <<file, maker, content, queue, key, msgs, ino, id, filename, qid,
                  dropped, strlen, sent, got>>
  BY Zenon DEF Stat, files, kernel, own, history
<1>3. TypeOK'
  BY <1>1, <1>2, Zenon DEF TypeOK
<1>4. \A q \in Process \ {p} : Same(q)
  BY <1>1, <1>2, Zenon DEF Same
<1>5. CASE p \in Owner
  <2>1. Daemon(p)
    BY <1>5 DEF IInv
  <2>2. Daemon(p)'
    BY <1>1, <1>2, <1>5, <2>1, Zenon DEF Daemon, Serving, Went, Met
  <2>3. /\ pc[p] \in Holding
        /\ Remembers(p) => Remembers(p)'
    BY <1>1, <1>2, <1>5, <2>1, Zenon DEF Daemon, Holding, Serving, Remembers,
                                         Went, Met
  <2>4. QED
    BY <1>1, <1>2, <1>3, <1>4, <1>5, <2>2, <2>3, DaemonStep, Zenon
<1>6. CASE p \in Sender
  <2>1. Client(p)'
    BY <1>1, <1>6, SysvAssumption, Zenon DEF Client
  <2>2. Keys' /\ \A o \in Owner : Ordered(o)'
    BY <1>2, Zenon DEF IInv, Keys, Ordered
  <2>3. QED
    BY <1>1, <1>2, <1>3, <1>4, <1>6, <2>1, <2>2, SenderStep, Zenon
<1>7. QED
  BY <1>5, <1>6 DEF Process

-----------------------------------------------------------------------------
(* The senders.                                                            *)

\* A sender opens the file the name stands for.
LEMMA OpenFileKeeps ==
  ASSUME IInv, NEW s \in Sender, OpenFile(s)
  PROVE  IInv'
<1> s \in Process /\ s \notin Owner /\ TypeOK
  BY SysvAssumption DEF Process, IInv
<1>1. /\ stops[s] \subseteq stops'[s]
      /\ pc' \in [Process -> Location] /\ stops' \in [Process -> SUBSET Location]
      /\ \A q \in Process \ {s} : pc'[q] = pc[q] /\ stops'[q] = stops[q]
      /\ \/ pc'[s] = "opened" /\ file # NoFile /\ ino' = [ino EXCEPT ![s] = file]
         \/ pc'[s] \in {"end", "read"} /\ ino' = ino
  BY GotoMoves, StopMoves, Zenon DEF OpenFile, Fail, Went, Met, Location
<1>2. UNCHANGED <<file, maker, content, queue, key, msgs, filename, qid, dropped,
                  strlen, sent, got>>
  BY DEF OpenFile, files, kernel, history
<1>3. TypeOK'
  <2>1. id' = id \/ \E x \in Id : id' = [id EXCEPT ![s] = x]
    BY Zenon DEF OpenFile
  <2>2. id' \in [Process -> Id]
    BY <2>1, Zenon DEF TypeOK
  <2>3. QED
    BY <1>1, <1>2, <2>2, Zenon DEF TypeOK
<1>4. \A q \in Process \ {s} : Same(q)
  BY <1>1, <1>2, Zenon DEF TypeOK, Same
<1>5. Client(s)'
  BY <1>1, Zenon DEF TypeOK, Client
<1>6. Keys' /\ \A o \in Owner : Ordered(o)'
  BY <1>2 DEF IInv, Keys, Ordered
<1>7. QED
  BY <1>1, <1>2, <1>3, <1>4, <1>5, <1>6, SenderStep, Zenon

\* Whatever it reads, or finds on its stack, is an id.
LEMMA ReadIdKeeps ==
  ASSUME IInv, NEW s \in Sender, ReadId(s)
  PROVE  IInv'
<1> s \in Process /\ TypeOK
  BY DEF Process, IInv
<1>1. /\ pc'[s] = "read" /\ stops' = stops /\ pc' \in [Process -> Location]
      /\ \A q \in Process \ {s} : pc'[q] = pc[q]
  BY GotoMoves, Zenon DEF ReadId, Goto, Went, Location
<1>2. id' \in [Process -> Id]
  <2>1. ino[s] \in Ino
    BY Zenon DEF ReadId, IInv, Client
  <2>2. content[ino[s]] \in Id \cup {Empty}
    BY <2>1, Zenon DEF TypeOK
  <2>3. PICK x \in Id : id' = [id EXCEPT ![s] = x]
    BY <2>2, Zenon DEF ReadId
  <2>4. QED
    BY <2>3 DEF TypeOK
<1>3. UNCHANGED <<file, maker, content, queue, key, msgs, ino, filename, qid,
                  dropped,
                  strlen, sent, got>>
  BY Zenon DEF ReadId, files, kernel, history
<1>4. TypeOK'
  BY <1>1, <1>2, <1>3, Zenon DEF TypeOK
<1>5. \A q \in Process \ {s} : Same(q)
  BY <1>1, <1>3 DEF Same
<1>6. Client(s)'
  BY <1>1, Zenon DEF Client
<1>7. Keys' /\ \A o \in Owner : Ordered(o)'
  BY <1>3, Zenon DEF IInv, Keys, Ordered
<1>8. QED
  BY <1>1, <1>3, <1>4, <1>5, <1>6, <1>7, SenderStep, Zenon

\* msgget without IPC_CREAT links nothing, and a script links a queue only under a
\* key that no queue has.
LEMMA FindQueueKeeps ==
  ASSUME IInv, NEW s \in Sender, FindQueue(s)
  PROVE  IInv'
<1> s \in Process /\ s \notin Owner /\ TypeOK
  BY SysvAssumption DEF Process, IInv
<1> DEFINE k == Ftok(s)
<1>1. /\ stops[s] \subseteq stops'[s]
      /\ pc' \in [Process -> Location] /\ stops' \in [Process -> SUBSET Location]
      /\ \A q \in Process \ {s} : pc'[q] = pc[q] /\ stops'[q] = stops[q]
      /\ pc'[s] \in {"ready", "stat", "end"}
  <2>1. Goto(s, "ready") \/ Goto(s, "stat") \/ Stop(s, "end")
    BY Zenon DEF FindQueue, Fail
  <2>2. QED
    BY <2>1, GotoMoves, StopMoves, Zenon DEF Went, Met, Location
<1>2. /\ \/ queue' = queue /\ key' = key
         \/ /\ queue' = [queue EXCEPT ![s] = "linked"]
            /\ key' = [key EXCEPT ![s] = k] /\ Linked(k) = {}
      /\ \/ qid' = qid
         \/ \E q \in Process : qid' = [qid EXCEPT ![s] = q]
  BY Zenon DEF FindQueue, Linked
<1>3. UNCHANGED <<file, maker, content, msgs, ino, id, filename, dropped, strlen,
                  sent,
                  got>>
  BY Zenon DEF FindQueue, files, history
<1>4. TypeOK'
  <2>1. k \in (Ino \cup {NoFile}) \X Id
    BY SysvAssumption DEF TypeOK, Ftok
  <2>2. /\ queue' \in [Process -> {"none", "linked", "removed"}]
        /\ key' \in [Process -> (Ino \cup {NoFile}) \X Id]
    <3>1. /\ queue \in [Process -> {"none", "linked", "removed"}]
          /\ key \in [Process -> (Ino \cup {NoFile}) \X Id]
      BY DEF TypeOK
    <3>2. [queue EXCEPT ![s] = "linked"] \in [Process -> {"none", "linked", "removed"}]
      BY <3>1, Update
    <3>3. [key EXCEPT ![s] = k] \in [Process -> (Ino \cup {NoFile}) \X Id]
      BY <2>1, <3>1, Update
    <3>4. QED
      BY <1>2, <3>1, <3>2, <3>3, Zenon
  <2>3. qid' \in [Process -> Process \cup {NoQueue}]
    <3>1. qid \in [Process -> Process \cup {NoQueue}]
      BY Zenon DEF TypeOK
    <3>2. QED
      BY <1>2, <3>1
  <2>4. QED
    BY <1>1, <1>3, <2>2, <2>3, Zenon DEF TypeOK
<1>5. \A q \in Process \ {s} : Same(q)
  BY <1>1, <1>2, <1>3 DEF TypeOK, Same
<1>6. Client(s)'
  BY <1>1 DEF Client
<1>7. Keys'
  <2>1. \/ queue' = queue /\ key' = key
        \/ key'[s] = k /\ Linked(k) = {}
    BY <1>2, Zenon DEF TypeOK
  <2>2. QED
    BY <1>5, <2>1, KeysCreated, KeysKept, Zenon DEF IInv
<1>8. ASSUME NEW o \in Owner PROVE Ordered(o)'
  <2>1. queue'[o] = queue[o] /\ Ordered(o)
    BY <1>5, Zenon DEF IInv, Same, Process
  <2>2. QED
    BY <1>3, <2>1, Zenon DEF Ordered
<1>9. QED
  BY <1>1, <1>3, <1>4, <1>5, <1>6, <1>7, <1>8, SenderStep, Zenon

\* queue_close of a sender changes nothing others see.
LEMMA QueueCloseKeeps ==
  ASSUME IInv, NEW s \in Sender, QueueClose(s)
  PROVE  IInv'
<1> s \in Process /\ TypeOK
  BY DEF Process, IInv
<1>1. /\ pc'[s] = "end" /\ stops' = stops /\ pc' \in [Process -> Location]
      /\ \A q \in Process \ {s} : pc'[q] = pc[q]
  BY GotoMoves, Zenon DEF QueueClose, Goto, Went, Location
<1>2. UNCHANGED <<file, maker, content, queue, key, msgs, ino, id, filename, qid,
                  dropped, strlen, sent, got>>
  BY Zenon DEF QueueClose, files, kernel, own, history
<1>3. TypeOK'
  BY <1>1, <1>2, Zenon DEF TypeOK
<1>4. \A q \in Process \ {s} : Same(q)
  BY <1>1, <1>2, Zenon DEF Same
<1>5. Client(s)'
  BY <1>1, Zenon DEF Client
<1>6. Keys' /\ \A o \in Owner : Ordered(o)'
  BY <1>2, Zenon DEF IInv, Keys, Ordered
<1>7. QED
  BY <1>1, <1>2, <1>3, <1>4, <1>5, <1>6, SenderStep, Zenon
-----------------------------------------------------------------------------
(* The messages.                                                           *)

\* A message that is appended to both keeps what was sent in order.
LEMMA SentInOrder ==
  ASSUME NEW g \in Seq(Msg \cup {Cut}), NEW q \in Seq(Message), NEW s \in Seq(Message),
         NEW m \in Message, InOrder(g, q, s)
  PROVE  InOrder(g, Append(q, m), Append(s, m))
<1> DEFINE r == Append(q, m)
<1> DEFINE u == Append(s, m)
<1>1. Len(g) \in Nat /\ Len(q) \in Nat /\ Len(s) \in Nat /\ Len(g) + Len(q) = Len(s)
  BY LenProperties, Zenon DEF InOrder
<1>2. /\ Len(r) = Len(q) + 1 /\ r[Len(q) + 1] = m
      /\ \A i \in 1..Len(q) : r[i] = q[i]
  BY AppendProperties
<1>3. /\ Len(u) = Len(s) + 1 /\ u[Len(s) + 1] = m
      /\ \A i \in 1..Len(s) : u[i] = s[i]
  BY AppendProperties
<1> HIDE DEF r, u
<1>4. ASSUME NEW i \in 1..Len(r) PROVE r[i] = u[Len(g) + i]
  <2>1. CASE i = Len(q) + 1
    BY <1>1, <1>2, <1>3, <2>1
  <2>2. CASE i \in 1..Len(q)
    <3>1. Len(g) + i \in 1..Len(s)
      BY <1>1, <2>2
    <3>2. r[i] = q[i] /\ u[Len(g) + i] = s[Len(g) + i] /\ q[i] = s[Len(g) + i]
      BY <1>2, <1>3, <2>2, <3>1, Zenon DEF InOrder
    <3>3. QED
      BY <3>2
  <2>3. QED
    BY <1>1, <1>2, <2>1, <2>2
<1>5. \A i \in 1..Len(g) : u[i] = s[i]
  BY <1>1, <1>3
<1>6. Len(g) + Len(r) = Len(u)
  <2>1. Len(r) = Len(q) + 1 /\ Len(u) = Len(s) + 1
    BY <1>2, <1>3
  <2>2. Len(g) + (Len(q) + 1) = Len(s) + 1
    BY <1>1
  <2>3. QED
    BY <2>1, <2>2, Zenon
<1>7. InOrder(g, r, u)
  BY <1>4, <1>5, <1>6, Zenon DEF InOrder, Received
<1>8. QED
  BY <1>7 DEF r, u

\* So does the oldest one that is taken, as a text that is its own, or is cut.
LEMMA ReceivedInOrder ==
  ASSUME NEW g \in Seq(Msg \cup {Cut}), NEW q \in Seq(Message), NEW s \in Seq(Message),
         InOrder(g, q, s), q # <<>>, NEW x \in Msg \cup {Cut},
         x = Head(q).text \/ (x = Cut /\ MsgLen[Head(q).text] >= Head(q).size)
  PROVE  InOrder(Append(g, x), Tail(q), s)
<1> DEFINE h == Append(g, x)
<1> DEFINE r == Tail(q)
<1>1. /\ Len(g) \in Nat /\ Len(q) \in Nat \ {0} /\ Len(s) \in Nat
      /\ Len(g) + Len(q) = Len(s)
  BY EmptySeq, LenProperties, Zenon DEF InOrder
<1>2. /\ Len(h) = Len(g) + 1 /\ h[Len(g) + 1] = x
      /\ \A i \in 1..Len(g) : h[i] = g[i]
  BY AppendProperties
<1>3. /\ Len(r) = Len(q) - 1
      /\ \A i \in 1..Len(r) : r[i] = q[i + 1]
  BY HeadTailProperties, Zenon
<1>4. Head(q) = s[Len(g) + 1]
  <2>1. Head(q) = q[1] /\ 1 \in 1..Len(q)
    BY <1>1, HeadTailProperties
  <2>2. QED
    BY <2>1 DEF InOrder
<1> HIDE DEF h, r
<1>5. ASSUME NEW i \in 1..Len(r) PROVE r[i] = s[Len(h) + i]
  <2>1. i + 1 \in 1..Len(q) /\ Len(h) + i = Len(g) + (i + 1)
    BY <1>1, <1>2, <1>3
  <2>2. q[i + 1] = s[Len(g) + (i + 1)]
    BY <2>1, Zenon DEF InOrder
  <2>3. QED
    BY <1>3, <2>1, <2>2, Zenon
<1>6. ASSUME NEW i \in 1..Len(h)
      PROVE  h[i] = s[i].text \/ (h[i] = Cut /\ MsgLen[s[i].text] >= s[i].size)
  <2>1. CASE i = Len(g) + 1
    BY <1>2, <1>4, <2>1, Zenon
  <2>2. CASE i \in 1..Len(g)
    BY <1>2, <2>2, Zenon DEF InOrder, Received
  <2>3. QED
    BY <1>1, <1>2, <2>1, <2>2
<1>7. Len(h) + Len(r) = Len(s)
  <2>1. Len(h) = Len(g) + 1 /\ Len(r) = Len(q) - 1
    BY <1>2, <1>3
  <2>2. (Len(g) + 1) + (Len(q) - 1) = Len(s)
    BY <1>1
  <2>3. QED
    BY <2>1, <2>2, Zenon
<1>8. InOrder(h, r, s)
  BY <1>5, <1>6, <1>7, Zenon DEF InOrder, Received
<1>9. QED
  BY <1>8, Zenon DEF h, r

\* What is sent comes last.
LEMMA QueueSendKeeps ==
  ASSUME IInv, NEW s \in Sender, NEW t \in Msg, QueueSend(s, t)
  PROVE  IInv'
<1> s \in Process /\ TypeOK
  BY Zenon DEF Process, IInv
<1> DEFINE m == [text |-> t, size |-> IF s \in Php THEN MsgLen[t] ELSE BufferSize]
<1> DEFINE q == qid[s]
<1>1. m \in Message
  <2>1. BufferSize \in Nat /\ MsgLen[t] \in Nat
    BY SysvAssumption DEF BufferSize
  <2>2. QED
    BY <2>1 DEF Message
<1> HIDE DEF m
<1>2. \/ /\ queue[q] = "linked"
         /\ msgs' = [msgs EXCEPT ![q] = Append(@, m)]
         /\ sent' = [sent EXCEPT ![q] = Append(@, m)]
      \/ UNCHANGED <<msgs, sent>>
  BY DEF QueueSend, m
<1>3. UNCHANGED <<pc, file, maker, content, queue, key, ino, id, filename, qid,
                  dropped,
                  strlen, stops, got>>
  BY Zenon DEF QueueSend, files, own
<1>4. msgs \in [Process -> Seq(Message)] /\ sent \in [Process -> Seq(Message)]
  BY Zenon DEF TypeOK
<1>5. ASSUME NEW p \in Process
      PROVE  \/ msgs'[p] = msgs[p] /\ sent'[p] = sent[p]
             \/ /\ queue[p] = "linked"
                /\ msgs'[p] = Append(msgs[p], m) /\ sent'[p] = Append(sent[p], m)
  BY <1>2, <1>4, Zenon
<1>6. TypeOK'
  <2>1. ASSUME NEW p \in Process PROVE msgs'[p] \in Seq(Message) /\ sent'[p] \in Seq(Message)
    <3>1. msgs[p] \in Seq(Message) /\ sent[p] \in Seq(Message)
      BY <1>4, Zenon
    <3>2. Append(msgs[p], m) \in Seq(Message) /\ Append(sent[p], m) \in Seq(Message)
      BY <1>1, <3>1, AppendProperties
    <3>3. QED
      BY <1>5, <3>1, <3>2, Zenon
  <2>2. msgs' \in [Process -> Seq(Message)] /\ sent' \in [Process -> Seq(Message)]
    BY <1>2, <1>4, <2>1, Zenon
  <2>3. QED
    BY <1>3, <2>2, Zenon DEF TypeOK
<1>7. \A p \in Process : Same(p)
  BY <1>3, Zenon DEF Same
<1>8. Client(s)' /\ Keys'
  BY <1>3, Zenon DEF IInv, Client, Keys
<1>9. ASSUME NEW o \in Owner PROVE Ordered(o)'
  <2>1. /\ o \in Process /\ Ordered(o) /\ got'[o] = got[o]
        /\ got[o] \in Seq(Msg \cup {Cut})
    BY <1>3, Zenon DEF Process, IInv, TypeOK
  <2>2. QED
    <3>1. CASE msgs'[o] = msgs[o] /\ sent'[o] = sent[o]
      BY <1>3, <2>1, <3>1, Zenon DEF Ordered
    <3>2. CASE /\ queue[o] = "linked"
               /\ msgs'[o] = Append(msgs[o], m) /\ sent'[o] = Append(sent[o], m)
      <4>1. queue[o] # "removed" /\ InOrder(got[o], msgs[o], sent[o])
        BY <2>1, <3>2 DEF Ordered
      <4>2. InOrder(got[o], Append(msgs[o], m), Append(sent[o], m))
        BY <1>1, <1>4, <2>1, <4>1, SentInOrder, Zenon
      <4>3. QED
        BY <1>3, <2>1, <3>2, <4>1, <4>2, Zenon DEF Ordered
    <3>3. QED
      BY <1>5, <2>1, <3>1, <3>2, Zenon
<1>10. QED
  BY <1>3, <1>6, <1>7, <1>8, <1>9, SenderStep, Zenon

\* What strcpy takes out of the buffer is the text, unless its terminator was not
\* among the bytes of the message.
LEMMA TextReceived ==
  ASSUME NEW m \in Message, NEW n \in Nat, NEW e \in Ends(m, n)
  PROVE  /\ e \in Nat
         /\ \/ Text(m, e) = m.text
            \/ Text(m, e) = Cut /\ MsgLen[m.text] >= m.size
<1>1. m.size \in Nat /\ MsgLen[m.text] \in Nat
  BY SysvAssumption, Zenon DEF Message
<1>2. QED
  BY <1>1 DEF Ends, Text

\* What is received is the oldest message of the queue.
LEMMA QueueReceiveKeeps ==
  ASSUME IInv, NEW o \in Owner, QueueReceive(o)
  PROVE  IInv'
<1> o \in Process /\ TypeOK
  BY Zenon DEF Process, IInv
<1> DEFINE m == Head(msgs[o])
<1>1. msgs[o] \in Seq(Message) /\ msgs[o] # <<>> /\ got[o] \in Seq(Msg \cup {Cut})
  BY DEF QueueReceive, TypeOK
<1>2. m \in Message /\ m = msgs[o][1]
  BY <1>1, HeadTailProperties
<1>3. PICK e \in Ends(m, strlen[o]) :
        /\ strlen' = [strlen EXCEPT ![o] = e]
        /\ got' = [got EXCEPT ![o] = Append(@, Text(m, e))]
  BY Zenon DEF QueueReceive
<1>4. /\ msgs' = [msgs EXCEPT ![o] = Tail(@)]
      /\ UNCHANGED <<pc, file, maker, content, queue, key, ino, id, filename, qid,
                     dropped, stops, sent>>
  BY Zenon DEF QueueReceive, files
<1> HIDE DEF m
<1> DEFINE x == Text(m, e)
<1>5. /\ e \in Nat /\ x \in Msg \cup {Cut}
      /\ x = m.text \/ (x = Cut /\ MsgLen[m.text] >= m.size)
  <2>1. strlen[o] \in Nat /\ m.text \in Msg
    BY <1>2, Zenon DEF TypeOK, Message
  <2>2. QED
    BY <1>2, <2>1, TextReceived, Zenon
<1> HIDE DEF x
<1>6. Tail(msgs[o]) \in Seq(Message)
  BY <1>1, HeadTailProperties, Zenon
<1>7. Append(got[o], x) \in Seq(Msg \cup {Cut})
  BY <1>1, <1>5, AppendProperties, Zenon
<1>8. /\ msgs' \in [Process -> Seq(Message)] /\ msgs'[o] = Tail(msgs[o])
      /\ \A p \in Owner \ {o} : msgs'[p] = msgs[p] /\ got'[p] = got[p]
      /\ got' \in [Owner -> Seq(Msg \cup {Cut})] /\ got'[o] = Append(got[o], x)
      /\ strlen' \in [Owner -> Nat]
  BY <1>3, <1>4, <1>5, <1>6, <1>7, Zenon DEF TypeOK, Process, x
<1>9. TypeOK'
  BY <1>4, <1>8, Zenon DEF TypeOK
<1>10. \A p \in Process : Same(p)
  BY <1>4 DEF Same
<1>11. Ordered(o)'
  <2>1. /\ sent[o] \in Seq(Message) /\ sent'[o] = sent[o]
        /\ queue[o] # "removed" /\ InOrder(got[o], msgs[o], sent[o])
    BY <1>1, <1>4, Zenon DEF IInv, TypeOK, Ordered
  <2>2. InOrder(Append(got[o], x), Tail(msgs[o]), sent[o])
    BY <1>1, <1>5, <2>1, ReceivedInOrder, Zenon DEF m
  <2>3. QED
    BY <1>4, <1>8, <2>1, <2>2, Zenon DEF Ordered
<1>12. ASSUME NEW p \in Owner PROVE Ordered(p)'
  BY <1>4, <1>8, <1>11, Zenon DEF IInv, Ordered
<1>13. (\A p \in Owner : Daemon(p)') /\ (\A s \in Sender : Client(s)')
  BY <1>4, <1>10, SameDaemon, Zenon DEF IInv, Client, Process
<1>14. Stale' /\ Keys'
  BY <1>4, <1>10, SameDaemon, Zenon DEF IInv, Stale, Keys, Process
<1>15. Held'
  BY <1>4, <1>10, SameDaemon, Zenon DEF IInv, Held, Twice, UnlinksTwice, MetAt, Process
<1>16. QED
  BY <1>9, <1>12, <1>13, <1>14, <1>15, Zenon DEF IInv

-----------------------------------------------------------------------------
(* The invariant, and what follows from it.                                *)

\* Before any process has started, there is neither a file nor a queue.
LEMMA InitInv == ASSUME Init PROVE IInv
<1>1. TypeOK
  <2>1. <<NoFile, TheId>> \in (Ino \cup {NoFile}) \X Id
    BY SysvAssumption
  <2>2. <<>> \in Seq(Message) /\ <<>> \in Seq(Msg \cup {Cut})
    BY EmptySeq
  <2>3. QED
    BY <2>1, <2>2, SysvAssumption DEF Init, TypeOK, Location, Opening
<1>2. \A o \in Owner : Daemon(o)
  BY SysvAssumption, Zenon DEF Init, Daemon, Serving, Process
<1>3. \A s \in Sender : Client(s)
  BY Zenon DEF Init, Client, Process
<1>4. Stale /\ Held /\ Keys
  <2>1. \A o \in Owner : Holds(o)
    BY DEF Init, Holds, Holding, Serving, Unlinking, Process
  <2>2. QED
    BY <2>1, Zenon DEF Init, Stale, Held, Keys
<1>5. ASSUME NEW o \in Owner PROVE Ordered(o)
  <2>1. got[o] = <<>> /\ msgs[o] = <<>> /\ sent[o] = <<>>
    BY DEF Init, Process
  <2>2. InOrder(<<>>, <<>>, <<>>)
    BY EmptySeq DEF InOrder, Received
  <2>3. queue[o] # "removed"
    BY DEF Init, Process
  <2>4. QED
    BY <2>1, <2>2, <2>3, Zenon DEF Ordered
<1>6. QED
  BY <1>1, <1>2, <1>3, <1>4, <1>5, Zenon DEF IInv

\* Every step keeps the invariant.
LEMMA NextInv == ASSUME IInv, [Next]_vars PROVE IInv'
<1>1. CASE \E o \in Owner : CreateFile(o) \/ WriteId(o) \/ NameFile(o) \/ CreateQueue(o)
  BY <1>1, CreateFileKeeps, WriteIdKeeps, NameFileKeeps, CreateQueueKeeps, Zenon
<1>2. CASE \E o \in Owner : StoreQid(o) \/ DropPrivilege(o) \/ QueueReceive(o)
  BY <1>2, StoreQidKeeps, DropPrivilegeKeeps, QueueReceiveKeeps
<1>3. CASE \E o \in Owner : RemoveQueue(o) \/ ClearQid(o) \/ UnlinkFile(o) \/ FreeQueue(o)
  BY <1>3, RemoveQueueKeeps, ClearQidKeeps, UnlinkFileKeeps, FreeQueueKeeps
<1>4. CASE \E o \in Owner : OnSignal(o) \/ Kill(o)
  BY <1>4, OnSignalKeeps, KillKeeps
<1>5. CASE \E s \in Sender : OpenFile(s) \/ ReadId(s) \/ FindQueue(s) \/ QueueClose(s)
  BY <1>5, OpenFileKeeps, ReadIdKeeps, FindQueueKeeps, QueueCloseKeeps, Zenon
<1>6. CASE \E s \in Sender : \E t \in Msg : QueueSend(s, t)
  BY <1>6, QueueSendKeeps
<1>7. CASE (\E p \in Process : Stat(p)) \/ RemoveStale
  BY <1>7, StatKeeps, RemoveStaleKeeps, Zenon
<1>8. CASE UNCHANGED vars
  <2>1. UNCHANGED <<pc, file, maker, content, queue, key, msgs, ino, id,
                    filename, qid,
                    dropped, strlen, stops, sent, got>>
    BY <1>8 DEF vars, files, kernel, own, history
  <2>2. TypeOK' /\ Keys' /\ (\A o \in Owner : Ordered(o)') /\ (\A s \in Sender : Client(s)')
    BY <2>1, Zenon DEF IInv, TypeOK, Keys, Ordered, Client
  <2>3. \A p \in Process : Same(p)
    BY <2>1, Zenon DEF Same
  <2>4. (\A o \in Owner : Daemon(o)') /\ Stale'
    BY <2>1, <2>3, SameDaemon DEF IInv, Stale, Process
  <2>5. Held'
    BY <2>1, <2>3, SameDaemon, Zenon DEF IInv, Held, Twice, UnlinksTwice, MetAt, Process
  <2>6. QED
    BY <2>2, <2>4, <2>5, Zenon DEF IInv
<1>9. QED
  BY <1>1, <1>2, <1>3, <1>4, <1>5, <1>6, <1>7, <1>8, Zenon DEF Next

\* The inductive invariant holds of the daemons and the senders of systemv.c,
\* whatever the order of their steps.
THEOREM Invariance == Spec => []IInv
BY InitInv, NextInv, PTL DEF Spec

\* The variables of queue_open, queue_close, queue_send and queue_receive, and the
\* kernel's, keep their types.
THEOREM TypeCorrect == Spec => []TypeOK
<1>1. IInv => TypeOK
  BY DEF IInv
<1>2. QED
  BY <1>1, Invariance, PTL

\* A daemon that serves has its queue under the key of its file: another queue_open
\* or queue_close removes neither, short of a cleanup that a signal interrupted.
THEOREM ServersIntact == Spec => []ServingIntact
<1>1. ASSUME IInv, NEW o \in Owner, pc[o] = "ready"
      PROVE  queue[o] = "linked" /\ (key[o] = <<file, TheId>> \/ Twice)
  <2>1. queue[o] = "linked" /\ key[o] = <<ino[o], TheId>>
    BY <1>1, Zenon DEF IInv, Daemon
  <2>2. Twice \/ file = ino[o]
    BY <1>1, Zenon DEF IInv, Held, Holds, Holding, Serving
  <2>3. QED
    BY <2>1, <2>2, Zenon
<1>2. IInv => ServingIntact
  BY <1>1, Zenon DEF ServingIntact, Twice
<1>3. QED
  BY <1>2, Invariance, PTL

\* queue_close unlinks the key file, but for the three causes named.
THEOREM FileLeftForCause == Spec => []StaleFileCause
<1>1. IInv => StaleFileCause
  BY DEF IInv, Stale, Remembers, StaleFileCause
<1>2. QED
  BY <1>1, Invariance, PTL

\* queue_close removes the kernel queue, but for the two causes named.
THEOREM QueueLeftForCause == Spec => []StaleQueueCause
<1>1. IInv => StaleQueueCause
  BY Zenon DEF IInv, Daemon, StaleQueueCause
<1>2. QED
  BY <1>1, Invariance, PTL

\* queue_receive gives what queue_send and the scripts sent, in their order, until
\* the queue is removed, and a text in full if its terminator was sent with it.
THEOREM MessagesDelivered == Spec => []Delivered
<1>1. IInv => Delivered
  <2>1. SUFFICES ASSUME IInv, NEW o \in Owner
                 PROVE  /\ Len(got[o]) + Len(msgs[o]) <= Len(sent[o])
                        /\ \/ Len(got[o]) + Len(msgs[o]) = Len(sent[o])
                           \/ queue[o] = "removed"
                        /\ Received(got[o], sent[o])
    BY Zenon DEF Delivered, Received
  <2>2. Len(got[o]) \in Nat /\ Len(msgs[o]) \in Nat /\ Len(sent[o]) \in Nat
    <3>1. /\ got[o] \in Seq(Msg \cup {Cut}) /\ msgs[o] \in Seq(Message)
          /\ sent[o] \in Seq(Message)
      BY <2>1, Zenon DEF IInv, TypeOK, Process
    <3>2. QED
      BY <3>1, LenProperties
  <2>3. CASE queue[o] # "removed" /\ InOrder(got[o], msgs[o], sent[o])
    <3>1. Len(got[o]) + Len(msgs[o]) = Len(sent[o]) /\ Received(got[o], sent[o])
      BY <2>3, Zenon DEF InOrder
    <3>2. QED
      BY <2>2, <3>1, SumBounds, Zenon
  <2>4. CASE /\ queue[o] = "removed" /\ msgs[o] = <<>>
             /\ Len(got[o]) <= Len(sent[o]) /\ Received(got[o], sent[o])
    BY <2>2, <2>4, EmptySeq
  <2>5. QED
    BY <2>1, <2>3, <2>4, Zenon DEF IInv, Ordered
<1>2. QED
  BY <1>1, Invariance, PTL

-----------------------------------------------------------------------------
(* Whom the senders find, where all of them use the library.               *)

\* Then the queues of the kernel are those of daemons, under the id they write.
LibraryKeys == \A p \in Process : queue[p] = "linked" => key[p][2] = TheId

LEMMA LibraryKeysKept ==
  ASSUME Php = {}, IInv, LibraryKeys, [Next]_vars
  PROVE  LibraryKeys'
<1> TypeOK
  BY DEF IInv
<1>1. CASE \E o \in Owner : CreateQueue(o)
  <2>1. PICK o \in Owner : CreateQueue(o)
    BY <1>1
  <2>2. \/ UNCHANGED <<queue, key>>
        \/ /\ queue' = [queue EXCEPT ![o] = "linked"]
           /\ key' = [key EXCEPT ![o] = <<ino[o], TheId>>]
    BY <2>1, Zenon DEF CreateQueue
  <2>3. <<ino[o], TheId>>[2] = TheId
    OBVIOUS
  <2>4. ASSUME NEW p \in Process
        PROVE  \/ queue'[p] = queue[p] /\ key'[p] = key[p]
               \/ key'[p] = <<ino[o], TheId>>
    BY <2>2, Zenon DEF TypeOK
  <2>5. QED
    BY <2>3, <2>4, Zenon DEF LibraryKeys
<1>2. CASE \E o \in Owner : RemoveQueue(o)
  BY <1>2 DEF RemoveQueue, TypeOK, LibraryKeys
<1>3. CASE UNCHANGED <<queue, key>>
  BY <1>3 DEF LibraryKeys
<1>4. ASSUME NEW o \in Owner,
             \/ CreateFile(o) \/ WriteId(o) \/ NameFile(o) \/ StoreQid(o) \/ DropPrivilege(o)
             \/ QueueReceive(o) \/ ClearQid(o) \/ UnlinkFile(o) \/ FreeQueue(o)
             \/ OnSignal(o) \/ Kill(o)
      PROVE  UNCHANGED <<queue, key>>
  BY <1>4, Zenon DEF CreateFile, WriteId, NameFile, StoreQid, DropPrivilege,
              QueueReceive, ClearQid,
       UnlinkFile, FreeQueue, OnSignal, Kill, kernel
<1>5. ASSUME NEW s \in Sender,
             \/ OpenFile(s) \/ ReadId(s) \/ FindQueue(s) \/ QueueClose(s)
             \/ \E t \in Msg : QueueSend(s, t)
      PROVE  UNCHANGED <<queue, key>>
  BY <1>5, Zenon DEF OpenFile, ReadId, FindQueue, QueueClose, QueueSend, kernel
<1>6. (\E p \in Process : Stat(p)) \/ RemoveStale \/ UNCHANGED vars =>
        UNCHANGED <<queue, key>>
  BY Zenon DEF Stat, RemoveStale, vars, kernel
<1>7. QED
  BY <1>1, <1>2, <1>3, <1>4, <1>5, <1>6, Zenon DEF Next

\* A sender's identifier is set by nothing but its own msgget.
LEMMA SenderQid ==
  ASSUME IInv, [Next]_vars, NEW s \in Sender, qid'[s] # qid[s]
  PROVE  FindQueue(s)
<1> TypeOK /\ s \notin Owner
  BY SysvAssumption, Zenon DEF IInv
<1>1. ASSUME NEW o \in Owner, StoreQid(o) \/ ClearQid(o) \/ Kill(o)
      PROVE  qid'[s] = qid[s]
  BY <1>1 DEF StoreQid, ClearQid, Kill, TypeOK, Process
<1>2. ASSUME NEW o \in Owner,
             \/ CreateFile(o) \/ WriteId(o) \/ NameFile(o) \/ CreateQueue(o)
             \/ DropPrivilege(o) \/ QueueReceive(o) \/ RemoveQueue(o) \/ UnlinkFile(o)
             \/ FreeQueue(o) \/ OnSignal(o)
      PROVE  qid' = qid
  BY <1>2, Zenon DEF CreateFile, WriteId, NameFile, CreateQueue, DropPrivilege,
              QueueReceive,
       RemoveQueue, UnlinkFile, FreeQueue, OnSignal, own
<1>3. ASSUME NEW r \in Sender, r # s, FindQueue(r)
      PROVE  qid'[s] = qid[s]
  BY <1>3 DEF FindQueue, TypeOK, Process
<1>4. ASSUME NEW r \in Sender,
             OpenFile(r) \/ ReadId(r) \/ QueueClose(r) \/ \E t \in Msg : QueueSend(r, t)
      PROVE  qid' = qid
  BY <1>4, Zenon DEF OpenFile, ReadId, QueueClose, QueueSend, own
<1>5. (\E p \in Process : Stat(p)) \/ RemoveStale \/ UNCHANGED vars => qid' = qid
  BY Zenon DEF Stat, RemoveStale, vars, own
<1>6. QED
  BY <1>1, <1>2, <1>3, <1>4, <1>5, Zenon DEF Next

\* The queue that msgget finds is that of the daemon that made the key file.
LEMMA FindsServer ==
  ASSUME Php = {}, IInv, LibraryKeys, NEW s \in Sender, FindQueue(s), qid'[s] # qid[s],
         pc[maker] = "ready"
  PROVE  qid'[s] = maker \/ Twice
<1> s \in Process /\ TypeOK
  BY DEF Process, IInv
<1>1. file # NoFile /\ \E q \in Linked(<<file, id[s]>>) : qid'[s] = q
  BY Zenon DEF FindQueue, Ftok, TypeOK
<1>2. PICK q \in Process : queue[q] = "linked" /\ key[q] = <<file,
                                                             id[s]>> /\ qid'[s] = q
  BY <1>1, Zenon DEF Linked
<1>3. key[q] = <<file, TheId>>
  BY <1>2 DEF LibraryKeys
<1>4. maker \in Owner /\ maker \in Process
  BY <1>1, Zenon DEF IInv, Stale, Process
<1>5. queue[maker] = "linked" /\ key[maker] = <<ino[maker], TheId>>
  BY <1>4, Zenon DEF IInv, Daemon
<1>6. Twice \/ file = ino[maker]
  BY <1>4, Zenon DEF IInv, Held, Holds, Holding, Serving
<1>7. QED
  BY <1>2, <1>3, <1>4, <1>5, <1>6, Zenon DEF IInv, Keys

\* While the daemon that made the key file serves, queue_open of a program that uses
\* the library gives it the daemon's queue, or none, unless a cleanup that a signal
\* interrupted unlinked the file twice.  A script may create a queue of its own under
\* another id, which no program of the library looks for: it is left out here.
THEOREM SendersServed ==
  ASSUME Php = {}
  PROVE  Spec => SendersFindServer
<1>1. Init => LibraryKeys
  BY DEF Init, LibraryKeys
<1>2. LibraryKeys /\ IInv /\ [Next]_vars => LibraryKeys'
  BY LibraryKeysKept, Zenon
<1>3. ASSUME IInv, LibraryKeys, [Next]_vars
      PROVE  \A s \in Sender :
               qid'[s] # qid[s] /\ pc[maker] = "ready" =>
                 qid'[s] = maker \/ \E p \in Owner : UnlinksTwice(p)
  BY <1>3, SenderQid, FindsServer, Zenon DEF Twice
<1>4. QED
  BY <1>1, <1>2, <1>3, Invariance, PTL DEF Spec, SendersFindServer
=============================================================================
