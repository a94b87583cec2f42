--------------------------- MODULE ProgramsProofs ---------------------------
(***************************************************************************)
(* Theorems about module Programs: for any number of signals and           *)
(* rotations of the log, whatever engines are compiled in.                 *)
(*                                                                         *)
(* The invariants say which pointer may refer to something that was given  *)
(* back, and where: only between a free or fclose and the assignment after *)
(* it, unless a signal came there.  What the firewall lists follows from   *)
(* the engine's being chosen before the first address.                     *)
(***************************************************************************)
EXTENDS Programs, TLAPS

\* What may be given back and not recorded.
Recorded ==
  /\ buffer = "freed" => pc = "null" \/ inside # "none"
  /\ ctxt = "freed" => pc = "nullctxt" \/ program = "pftest" \/ inside # "none"
  /\ queue = "freed" => pc = "nullqueue" \/ inside # "none"
  /\ qname = "freed" => pc = "nullname" \/ inside # "none"
  /\ err = "closed" => pc = "nulllog" \/ inside # "none"
  /\ err = "gone" => usr1 \/ inside # "none"
  /\ pc = "freectxt" => ctxt # "null"
  /\ pc = "freename" => qname # "null" \/ inside # "none"
  /\ pc \in {"freename", "nullname", "freequeue"} => queue # "null" \/ inside # "none"
  /\ pc = "crashed" => inside # "none" \/ ctxt = "one"

\* pftest has no queue and no log, and gives its context back once, at its end.
Once ==
  /\ program \in {"banipd", "pftest"}
  /\ ctxt \in {"null", "heap", "freed", "one"}
  /\ queue \in {"null", "heap", "freed"} /\ qname \in {"null", "heap", "freed"}
  /\ program = "pftest" =>
       /\ pc \notin {"head", "rest", "qopen", "calloc", "free", "null", "nullctxt",
                     "queue", "freename", "nullname", "freequeue", "nullqueue"}
       /\ ctxt = "freed" => pc = "dead"
       /\ ~named

\* Outside cleanup() the stream is open, or the handler is about to replace it.
Streaming ==
  /\ pc \notin CleanupLabel \cup {"dead", "crashed"} =>
       IF usr1 THEN err = "gone" ELSE err \in {"null", "stderr", "file"}
  /\ pc = "rest" /\ ~usr1 => err # "null"

\* The log is the file of the last USR1, or there is a reason.
Following ==
  /\ uid \in {"root", "nobody"}
  /\ usr1 => (denied /\ uid = "nobody") \/ refused
  /\ pc \notin CleanupLabel \cup {"options", "dead", "crashed"} /\ named /\ ~usr1 =>
       (err = "file" /\ stream = seen) \/ (denied /\ uid = "nobody") \/ refused
  /\ pc = "options" => ~named /\ err = "null" /\ stream = current /\ seen = current

\* The engine is chosen before the first address, and handle is given an address.
Given ==
  /\ pc = "options" => reported = {}
  /\ pc = "handle" => addr \in Addr

\* What a variable of type bool holds.
Flags ==
  /\ fatal \in BOOLEAN /\ usr1 \in BOOLEAN /\ named \in BOOLEAN
  /\ shared \in BOOLEAN /\ refused \in BOOLEAN /\ denied \in BOOLEAN

\* The values of the other variables of the process.
Values ==
  /\ program \in {"banipd", "pftest"}
  /\ pc \in Label
  /\ inside \in {"none", "window", "freopen"}
  /\ buffer \in {"null", "heap", "freed"}
  /\ queue \in {"null", "heap", "freed"} /\ qname \in {"null", "heap", "freed"}
  /\ err \in {"null", "stderr", "file", "gone", "closed"}
  /\ stream \in 0..current /\ seen \in 0..current /\ current \in 0..MaxRotations
  /\ uid \in {"root", "nobody"}
  /\ nsig \in 0..MaxSignals
  /\ addr \in Addr \cup {NoAddr}
  /\ reported \subseteq Addr
-----------------------------------------------------------------------------
\* Once.
LEMMA OnceStep ==
  ASSUME Once, [Next]_vars
  PROVE  Once'
<1> USE DEF At, memVars, logVars, sigVars, runVars, engineVars, Once
<1>1. CASE ParseOptions
  BY <1>1 DEF ParseOptions
<1>2. CASE OpenQueue
  BY <1>2 DEF OpenQueue
<1>3. CASE AllocateBuffer
  BY <1>3 DEF AllocateBuffer
<1>4. CASE OpenEngine
  BY <1>4 DEF OpenEngine, EngineOpen, IpsetOpen, DeviceOpen, Failed
<1>5. CASE DropPrivilege
  BY <1>5 DEF DropPrivilege
<1>6. CASE NextAddress
  BY <1>6 DEF NextAddress, Failed
<1>7. CASE Handle
  BY <1>7 DEF Handle, EngineHandle
<1>8. CASE LogHead
  BY <1>8 DEF LogHead
<1>9. CASE LogRest
  BY <1>9 DEF LogRest
<1>10. CASE FreeBuffer
  BY <1>10 DEF FreeBuffer, Undefined
<1>11. CASE NullBuffer
  BY <1>11 DEF NullBuffer
<1>12. CASE CloseContext
  BY <1>12 DEF CloseContext, Undefined
<1>13. CASE FreeContext
  BY <1>13 DEF FreeContext, Undefined
<1>14. CASE NullContext
  BY <1>14 DEF NullContext
<1>15. CASE CloseQueue
  BY <1>15 DEF CloseQueue
<1>16. CASE FreeName
  BY <1>16 DEF FreeName, Undefined
<1>17. CASE NullName
  BY <1>17 DEF NullName
<1>18. CASE FreeQueue
  BY <1>18 DEF FreeQueue, Undefined
<1>19. CASE NullQueue
  BY <1>19 DEF NullQueue
<1>20. CASE RemovePidfile
  BY <1>20 DEF RemovePidfile, Undefined, Dead
<1>21. CASE CloseLog
  BY <1>21 DEF CloseLog, Dead
<1>22. CASE NullLog
  BY <1>22 DEF NullLog
<1>23. CASE End
  BY <1>23 DEF End
<1>24. CASE OnSignal
  BY <1>24 DEF OnSignal, Untimely, Live
<1>25. CASE OnUsr1
  BY <1>25 DEF OnUsr1, Untimely, Live, MayOpen, Undefined
<1>26. CASE ReplaceLog
  BY <1>26 DEF ReplaceLog
<1>27. CASE Rotate
  BY <1>27 DEF Rotate
<1>28. CASE \E f \in {"v4", "v6"} : CreateSet(f)
  BY <1>28 DEF CreateSet
<1>29. CASE UNCHANGED vars
  BY <1>29 DEF vars
<1>30. QED
  BY <1>1, <1>2, <1>3, <1>4, <1>5, <1>6, <1>7, <1>8, <1>9, <1>10, <1>11, <1>12, <1>13,
     <1>14, <1>15, <1>16, <1>17, <1>18, <1>19, <1>20, <1>21, <1>22, <1>23, <1>24,
     <1>25, <1>26, <1>27, <1>28, <1>29, Zenon DEF Next

\* Recorded.
LEMMA RecordedStep ==
  ASSUME Once, Recorded, [Next]_vars
  PROVE  Recorded'
<1> USE DEF At, memVars, logVars, sigVars, runVars, engineVars, Once, Recorded, Window
<1>1. CASE ParseOptions
  BY <1>1 DEF ParseOptions
<1>2. CASE OpenQueue
  BY <1>2 DEF OpenQueue
<1>3. CASE AllocateBuffer
  BY <1>3 DEF AllocateBuffer
<1>4. CASE OpenEngine
  BY <1>4 DEF OpenEngine, EngineOpen, IpsetOpen, DeviceOpen, Failed
<1>5. CASE DropPrivilege
  BY <1>5 DEF DropPrivilege
<1>6. CASE NextAddress
  BY <1>6 DEF NextAddress, Failed
<1>7. CASE Handle
  BY <1>7 DEF Handle, EngineHandle
<1>8. CASE LogHead
  BY <1>8 DEF LogHead
<1>9. CASE LogRest
  BY <1>9 DEF LogRest
<1>10. CASE FreeBuffer
  BY <1>10 DEF FreeBuffer, Undefined
<1>11. CASE NullBuffer
  BY <1>11 DEF NullBuffer
<1>12. CASE CloseContext
  BY <1>12 DEF CloseContext, Undefined
<1>13. CASE FreeContext
  BY <1>13 DEF FreeContext, Undefined
<1>14. CASE NullContext
  BY <1>14 DEF NullContext
<1>15. CASE CloseQueue
  BY <1>15 DEF CloseQueue
<1>16. CASE FreeName
  BY <1>16 DEF FreeName, Undefined
<1>17. CASE NullName
  BY <1>17 DEF NullName
<1>18. CASE FreeQueue
  BY <1>18 DEF FreeQueue, Undefined
<1>19. CASE NullQueue
  BY <1>19 DEF NullQueue
<1>20. CASE RemovePidfile
  BY <1>20 DEF RemovePidfile, Undefined, Dead
<1>21. CASE CloseLog
  BY <1>21 DEF CloseLog, Dead
<1>22. CASE NullLog
  BY <1>22 DEF NullLog
<1>23. CASE End
  BY <1>23 DEF End
<1>24. CASE OnSignal
  BY <1>24, Zenon DEF OnSignal, Untimely, Live
<1>25. CASE OnUsr1
  BY <1>25, Zenon DEF OnUsr1, Untimely, Live, MayOpen, Undefined
<1>26. CASE ReplaceLog
  BY <1>26 DEF ReplaceLog
<1>27. CASE Rotate
  BY <1>27 DEF Rotate
<1>28. CASE \E f \in {"v4", "v6"} : CreateSet(f)
  BY <1>28 DEF CreateSet
<1>29. CASE UNCHANGED vars
  BY <1>29 DEF vars
<1>30. QED
  BY <1>1, <1>2, <1>3, <1>4, <1>5, <1>6, <1>7, <1>8, <1>9, <1>10, <1>11, <1>12, <1>13,
     <1>14, <1>15, <1>16, <1>17, <1>18, <1>19, <1>20, <1>21, <1>22, <1>23, <1>24,
     <1>25, <1>26, <1>27, <1>28, <1>29, Zenon DEF Next

\* Streaming.
LEMMA StreamingStep ==
  ASSUME Once, Streaming, [Next]_vars
  PROVE  Streaming'
<1> USE DEF At, memVars, logVars, sigVars, runVars, engineVars, Once, Streaming, CleanupLabel
<1>1. CASE ParseOptions
  BY <1>1 DEF ParseOptions
<1>2. CASE OpenQueue
  BY <1>2 DEF OpenQueue
<1>3. CASE AllocateBuffer
  BY <1>3 DEF AllocateBuffer
<1>4. CASE OpenEngine
  BY <1>4 DEF OpenEngine, EngineOpen, IpsetOpen, DeviceOpen, Failed
<1>5. CASE DropPrivilege
  BY <1>5 DEF DropPrivilege
<1>6. CASE NextAddress
  BY <1>6 DEF NextAddress, Failed
<1>7. CASE Handle
  BY <1>7 DEF Handle, EngineHandle
<1>8. CASE LogHead
  BY <1>8 DEF LogHead
<1>9. CASE LogRest
  BY <1>9 DEF LogRest
<1>10. CASE FreeBuffer
  BY <1>10 DEF FreeBuffer, Undefined
<1>11. CASE NullBuffer
  BY <1>11 DEF NullBuffer
<1>12. CASE CloseContext
  BY <1>12 DEF CloseContext, Undefined
<1>13. CASE FreeContext
  BY <1>13 DEF FreeContext, Undefined
<1>14. CASE NullContext
  BY <1>14 DEF NullContext
<1>15. CASE CloseQueue
  BY <1>15 DEF CloseQueue
<1>16. CASE FreeName
  BY <1>16 DEF FreeName, Undefined
<1>17. CASE NullName
  BY <1>17 DEF NullName
<1>18. CASE FreeQueue
  BY <1>18 DEF FreeQueue, Undefined
<1>19. CASE NullQueue
  BY <1>19 DEF NullQueue
<1>20. CASE RemovePidfile
  BY <1>20 DEF RemovePidfile, Undefined, Dead
<1>21. CASE CloseLog
  BY <1>21 DEF CloseLog, Dead
<1>22. CASE NullLog
  BY <1>22 DEF NullLog
<1>23. CASE End
  BY <1>23 DEF End
<1>24. CASE OnSignal
  BY <1>24 DEF OnSignal, Untimely, Live
<1>25. CASE OnUsr1
  BY <1>25 DEF OnUsr1, Untimely, Live, MayOpen, Undefined
<1>26. CASE ReplaceLog
  BY <1>26 DEF ReplaceLog
<1>27. CASE Rotate
  BY <1>27 DEF Rotate
<1>28. CASE \E f \in {"v4", "v6"} : CreateSet(f)
  BY <1>28 DEF CreateSet
<1>29. CASE UNCHANGED vars
  BY <1>29 DEF vars
<1>30. QED
  BY <1>1, <1>2, <1>3, <1>4, <1>5, <1>6, <1>7, <1>8, <1>9, <1>10, <1>11, <1>12, <1>13,
     <1>14, <1>15, <1>16, <1>17, <1>18, <1>19, <1>20, <1>21, <1>22, <1>23, <1>24,
     <1>25, <1>26, <1>27, <1>28, <1>29, Zenon DEF Next

\* Following.
LEMMA FollowingStep ==
  ASSUME Once, Streaming, Following, [Next]_vars
  PROVE  Following'
<1> USE DEF At, memVars, logVars, sigVars, runVars, engineVars, Once, Streaming,
            Following, CleanupLabel
<1>1. CASE ParseOptions
  BY <1>1 DEF ParseOptions
<1>2. CASE OpenQueue
  BY <1>2 DEF OpenQueue
<1>3. CASE AllocateBuffer
  BY <1>3 DEF AllocateBuffer
<1>4. CASE OpenEngine
  BY <1>4 DEF OpenEngine, EngineOpen, IpsetOpen, DeviceOpen, Failed
<1>5. CASE DropPrivilege
  BY <1>5 DEF DropPrivilege
<1>6. CASE NextAddress
  BY <1>6 DEF NextAddress, Failed
<1>7. CASE Handle
  BY <1>7 DEF Handle, EngineHandle
<1>8. CASE LogHead
  BY <1>8 DEF LogHead
<1>9. CASE LogRest
  BY <1>9 DEF LogRest
<1>10. CASE FreeBuffer
  BY <1>10 DEF FreeBuffer, Undefined
<1>11. CASE NullBuffer
  BY <1>11 DEF NullBuffer
<1>12. CASE CloseContext
  BY <1>12 DEF CloseContext, Undefined
<1>13. CASE FreeContext
  BY <1>13 DEF FreeContext, Undefined
<1>14. CASE NullContext
  BY <1>14 DEF NullContext
<1>15. CASE CloseQueue
  BY <1>15 DEF CloseQueue
<1>16. CASE FreeName
  BY <1>16 DEF FreeName, Undefined
<1>17. CASE NullName
  BY <1>17 DEF NullName
<1>18. CASE FreeQueue
  BY <1>18 DEF FreeQueue, Undefined
<1>19. CASE NullQueue
  BY <1>19 DEF NullQueue
<1>20. CASE RemovePidfile
  BY <1>20 DEF RemovePidfile, Undefined, Dead
<1>21. CASE CloseLog
  BY <1>21 DEF CloseLog, Dead
<1>22. CASE NullLog
  BY <1>22 DEF NullLog
<1>23. CASE End
  BY <1>23 DEF End
<1>24. CASE OnSignal
  BY <1>24 DEF OnSignal, Untimely, Live
<1>25. CASE OnUsr1
  <2>1. seen' = current /\ UNCHANGED <<named, current, uid>>
    BY <1>25 DEF OnUsr1
  <2>2. CASE /\ err = "file" /\ stream' = current
             /\ UNCHANGED <<pc, err, usr1, refused, denied>>
    BY <2>1, <2>2
  <2>3. CASE /\ err = "file" /\ err' = "gone" /\ usr1' = TRUE
             /\ refused' = (refused \/ MayOpen) /\ denied' = (denied \/ ~MayOpen)
             /\ UNCHANGED <<pc, stream>>
    <3>1. (denied' /\ uid' = "nobody") \/ refused'
      BY <2>1, <2>3, Zenon DEF MayOpen
    <3>2. QED
      BY <2>1, <2>3, <3>1, Zenon
  <2>4. CASE /\ err # "file" /\ UNCHANGED <<err, usr1, stream, refused, denied>>
             /\ pc' \in {pc, "crashed"}
    BY <2>1, <2>4
  <2>5. QED
    BY <1>25, <2>2, <2>3, <2>4, Zenon DEF OnUsr1, Undefined
<1>26. CASE ReplaceLog
  BY <1>26 DEF ReplaceLog
<1>27. CASE Rotate
  BY <1>27 DEF Rotate
<1>28. CASE \E f \in {"v4", "v6"} : CreateSet(f)
  BY <1>28 DEF CreateSet
<1>29. CASE UNCHANGED vars
  BY <1>29 DEF vars
<1>30. QED
  BY <1>1, <1>2, <1>3, <1>4, <1>5, <1>6, <1>7, <1>8, <1>9, <1>10, <1>11, <1>12, <1>13,
     <1>14, <1>15, <1>16, <1>17, <1>18, <1>19, <1>20, <1>21, <1>22, <1>23, <1>24,
     <1>25, <1>26, <1>27, <1>28, <1>29, Zenon DEF Next

\* Given.
LEMMA GivenStep ==
  ASSUME Given, [Next]_vars
  PROVE  Given'
<1> USE DEF At, memVars, logVars, sigVars, runVars, engineVars, Given, CleanupLabel
<1>1. CASE ParseOptions
  BY <1>1 DEF ParseOptions
<1>2. CASE OpenQueue
  BY <1>2 DEF OpenQueue
<1>3. CASE AllocateBuffer
  BY <1>3 DEF AllocateBuffer
<1>4. CASE OpenEngine
  BY <1>4 DEF OpenEngine, EngineOpen, IpsetOpen, DeviceOpen, Failed
<1>5. CASE DropPrivilege
  BY <1>5 DEF DropPrivilege
<1>6. CASE NextAddress
  BY <1>6 DEF NextAddress, Failed
<1>7. CASE Handle
  BY <1>7 DEF Handle, EngineHandle
<1>8. CASE LogHead
  BY <1>8 DEF LogHead
<1>9. CASE LogRest
  BY <1>9 DEF LogRest
<1>10. CASE FreeBuffer
  BY <1>10 DEF FreeBuffer, Undefined
<1>11. CASE NullBuffer
  BY <1>11 DEF NullBuffer
<1>12. CASE CloseContext
  BY <1>12 DEF CloseContext, Undefined
<1>13. CASE FreeContext
  BY <1>13 DEF FreeContext, Undefined
<1>14. CASE NullContext
  BY <1>14 DEF NullContext
<1>15. CASE CloseQueue
  BY <1>15 DEF CloseQueue
<1>16. CASE FreeName
  BY <1>16 DEF FreeName, Undefined
<1>17. CASE NullName
  BY <1>17 DEF NullName
<1>18. CASE FreeQueue
  BY <1>18 DEF FreeQueue, Undefined
<1>19. CASE NullQueue
  BY <1>19 DEF NullQueue
<1>20. CASE RemovePidfile
  BY <1>20 DEF RemovePidfile, Undefined, Dead
<1>21. CASE CloseLog
  BY <1>21 DEF CloseLog, Dead
<1>22. CASE NullLog
  BY <1>22 DEF NullLog
<1>23. CASE End
  BY <1>23 DEF End
<1>24. CASE OnSignal
  BY <1>24 DEF OnSignal, Untimely, Live
<1>25. CASE OnUsr1
  BY <1>25 DEF OnUsr1, Untimely, Live, MayOpen, Undefined
<1>26. CASE ReplaceLog
  BY <1>26 DEF ReplaceLog
<1>27. CASE Rotate
  BY <1>27 DEF Rotate
<1>28. CASE \E f \in {"v4", "v6"} : CreateSet(f)
  BY <1>28 DEF CreateSet
<1>29. CASE UNCHANGED vars
  BY <1>29 DEF vars
<1>30. QED
  BY <1>1, <1>2, <1>3, <1>4, <1>5, <1>6, <1>7, <1>8, <1>9, <1>10, <1>11, <1>12, <1>13,
     <1>14, <1>15, <1>16, <1>17, <1>18, <1>19, <1>20, <1>21, <1>22, <1>23, <1>24,
     <1>25, <1>26, <1>27, <1>28, <1>29, Zenon DEF Next

\* The types of the engine and of the firewall.
LEMMA EnginesStep ==
  ASSUME EnginesTypeOK, Given, [Next]_vars
  PROVE  EnginesTypeOK'
<1> USE DEF At, memVars, logVars, sigVars, runVars, engineVars, EnginesTypeOK, Given
<1>1. CASE ParseOptions
  BY <1>1, EnginesAssumption DEF ParseOptions, Named, EngineName
<1>2. CASE OpenQueue
  BY <1>2 DEF OpenQueue
<1>3. CASE AllocateBuffer
  BY <1>3 DEF AllocateBuffer
<1>4. CASE OpenEngine
  BY <1>4, Zenon DEF OpenEngine, EngineOpen, IpsetOpen, DeviceOpen, RunCommand
<1>5. CASE DropPrivilege
  BY <1>5 DEF DropPrivilege
<1>6. CASE NextAddress
  BY <1>6 DEF NextAddress, Failed
<1>7. CASE Handle
  <2>1. addr \in [family : {"v4", "v6"}, host : {a.host : a \in Addr}, net : BOOLEAN]
    BY <1>7, EnginesAssumption DEF Handle
  <2>2. table' \in {table, table \cup {addr}, table \cup {HostOf(addr)}}
    BY <1>7 DEF Handle, EngineHandle, IpsetHandle, IpsetAdd, RunCommand, IptablesHandle, NpfHandle,
                PfHandle, DummyHandle
  <2>3. UNCHANGED <<engine, ctxt, fits>> /\ sets' = sets
    BY <1>7 DEF Handle, EngineHandle, IpsetHandle, IpsetAdd, RunCommand, IptablesHandle, NpfHandle,
                PfHandle, DummyHandle
  <2>4. QED
    BY <2>1, <2>2, <2>3, Zenon DEF HostOf
<1>8. CASE LogHead
  BY <1>8 DEF LogHead
<1>9. CASE LogRest
  BY <1>9 DEF LogRest
<1>10. CASE FreeBuffer
  BY <1>10 DEF FreeBuffer, Undefined
<1>11. CASE NullBuffer
  BY <1>11 DEF NullBuffer
<1>12. CASE CloseContext
  BY <1>12 DEF CloseContext, Undefined
<1>13. CASE FreeContext
  BY <1>13 DEF FreeContext, Undefined
<1>14. CASE NullContext
  BY <1>14 DEF NullContext
<1>15. CASE CloseQueue
  BY <1>15 DEF CloseQueue
<1>16. CASE FreeName
  BY <1>16 DEF FreeName, Undefined
<1>17. CASE NullName
  BY <1>17 DEF NullName
<1>18. CASE FreeQueue
  BY <1>18 DEF FreeQueue, Undefined
<1>19. CASE NullQueue
  BY <1>19 DEF NullQueue
<1>20. CASE RemovePidfile
  BY <1>20 DEF RemovePidfile, Undefined, Dead
<1>21. CASE CloseLog
  BY <1>21 DEF CloseLog, Dead
<1>22. CASE NullLog
  BY <1>22 DEF NullLog
<1>23. CASE End
  BY <1>23 DEF End
<1>24. CASE OnSignal
  BY <1>24 DEF OnSignal, Untimely, Live
<1>25. CASE OnUsr1
  BY <1>25 DEF OnUsr1, Untimely, Live, MayOpen, Undefined
<1>26. CASE ReplaceLog
  BY <1>26 DEF ReplaceLog
<1>27. CASE Rotate
  BY <1>27 DEF Rotate
<1>28. CASE \E f \in {"v4", "v6"} : CreateSet(f)
  BY <1>28 DEF CreateSet
<1>29. CASE UNCHANGED vars
  BY <1>29 DEF vars
<1>30. QED
  BY <1>1, <1>2, <1>3, <1>4, <1>5, <1>6, <1>7, <1>8, <1>9, <1>10, <1>11, <1>12, <1>13,
     <1>14, <1>15, <1>16, <1>17, <1>18, <1>19, <1>20, <1>21, <1>22, <1>23, <1>24,
     <1>25, <1>26, <1>27, <1>28, <1>29, Zenon DEF Next

\* The flags.
LEMMA FlagsStep ==
  ASSUME Flags, [Next]_vars
  PROVE  Flags'
<1> USE DEF At, memVars, logVars, sigVars, runVars, engineVars, Flags
<1>1. CASE ParseOptions
  BY <1>1, Zenon DEF ParseOptions
<1>2. CASE OpenQueue
  BY <1>2, Zenon DEF OpenQueue
<1>3. CASE AllocateBuffer
  BY <1>3, Zenon DEF AllocateBuffer
<1>4. CASE OpenEngine
  BY <1>4, Zenon DEF OpenEngine, EngineOpen, IpsetOpen, DeviceOpen, Failed
<1>5. CASE DropPrivilege
  BY <1>5, Zenon DEF DropPrivilege
<1>6. CASE NextAddress
  BY <1>6, Zenon DEF NextAddress, Failed
<1>7. CASE Handle
  BY <1>7, Zenon DEF Handle, EngineHandle
<1>8. CASE LogHead
  BY <1>8, Zenon DEF LogHead
<1>9. CASE LogRest
  BY <1>9, Zenon DEF LogRest
<1>10. CASE FreeBuffer
  BY <1>10, Zenon DEF FreeBuffer, Undefined
<1>11. CASE NullBuffer
  BY <1>11, Zenon DEF NullBuffer
<1>12. CASE CloseContext
  BY <1>12, Zenon DEF CloseContext, Undefined
<1>13. CASE FreeContext
  BY <1>13, Zenon DEF FreeContext, Undefined
<1>14. CASE NullContext
  BY <1>14, Zenon DEF NullContext
<1>15. CASE CloseQueue
  BY <1>15, Zenon DEF CloseQueue
<1>16. CASE FreeName
  BY <1>16, Zenon DEF FreeName, Undefined
<1>17. CASE NullName
  BY <1>17, Zenon DEF NullName
<1>18. CASE FreeQueue
  BY <1>18, Zenon DEF FreeQueue, Undefined
<1>19. CASE NullQueue
  BY <1>19, Zenon DEF NullQueue
<1>20. CASE RemovePidfile
  BY <1>20, Zenon DEF RemovePidfile, Undefined, Dead
<1>21. CASE CloseLog
  BY <1>21, Zenon DEF CloseLog, Dead
<1>22. CASE NullLog
  BY <1>22, Zenon DEF NullLog
<1>23. CASE End
  BY <1>23, Zenon DEF End
<1>24. CASE OnSignal
  BY <1>24, Zenon DEF OnSignal, Untimely, Live
<1>25. CASE OnUsr1
  BY <1>25, Zenon DEF OnUsr1, Untimely, Live, MayOpen, Undefined
<1>26. CASE ReplaceLog
  BY <1>26, Zenon DEF ReplaceLog
<1>27. CASE Rotate
  BY <1>27, Zenon DEF Rotate
<1>28. CASE \E f \in {"v4", "v6"} : CreateSet(f)
  BY <1>28, Zenon DEF CreateSet
<1>29. CASE UNCHANGED vars
  BY <1>29, Zenon DEF vars
<1>30. QED
  BY <1>1, <1>2, <1>3, <1>4, <1>5, <1>6, <1>7, <1>8, <1>9, <1>10, <1>11, <1>12, <1>13,
     <1>14, <1>15, <1>16, <1>17, <1>18, <1>19, <1>20, <1>21, <1>22, <1>23, <1>24,
     <1>25, <1>26, <1>27, <1>28, <1>29, Zenon DEF Next

\* The other variables.
LEMMA ValuesStep ==
  ASSUME Values, Given, [Next]_vars
  PROVE  Values'
<1> USE ProgramsAssumption DEF At, memVars, logVars, sigVars, runVars, engineVars, Values,
            Given, Label, CleanupLabel, Window
<1>1. CASE ParseOptions
  BY <1>1 DEF ParseOptions
<1>2. CASE OpenQueue
  BY <1>2 DEF OpenQueue
<1>3. CASE AllocateBuffer
  BY <1>3 DEF AllocateBuffer
<1>4. CASE OpenEngine
  BY <1>4 DEF OpenEngine, EngineOpen, IpsetOpen, DeviceOpen, Failed
<1>5. CASE DropPrivilege
  BY <1>5 DEF DropPrivilege
<1>6. CASE NextAddress
  BY <1>6 DEF NextAddress, Failed
<1>7. CASE Handle
  BY <1>7 DEF Handle, EngineHandle
<1>8. CASE LogHead
  BY <1>8 DEF LogHead
<1>9. CASE LogRest
  BY <1>9 DEF LogRest
<1>10. CASE FreeBuffer
  BY <1>10 DEF FreeBuffer, Undefined
<1>11. CASE NullBuffer
  BY <1>11 DEF NullBuffer
<1>12. CASE CloseContext
  BY <1>12 DEF CloseContext, Undefined
<1>13. CASE FreeContext
  BY <1>13 DEF FreeContext, Undefined
<1>14. CASE NullContext
  BY <1>14 DEF NullContext
<1>15. CASE CloseQueue
  BY <1>15 DEF CloseQueue
<1>16. CASE FreeName
  BY <1>16 DEF FreeName, Undefined
<1>17. CASE NullName
  BY <1>17 DEF NullName
<1>18. CASE FreeQueue
  BY <1>18 DEF FreeQueue, Undefined
<1>19. CASE NullQueue
  BY <1>19 DEF NullQueue
<1>20. CASE RemovePidfile
  BY <1>20 DEF RemovePidfile, Undefined, Dead
<1>21. CASE CloseLog
  BY <1>21 DEF CloseLog, Dead
<1>22. CASE NullLog
  BY <1>22 DEF NullLog
<1>23. CASE End
  BY <1>23 DEF End
<1>24. CASE OnSignal
  BY <1>24 DEF OnSignal, Untimely, Live
<1>25. CASE OnUsr1
  BY <1>25 DEF OnUsr1, Untimely, Live, MayOpen, Undefined
<1>26. CASE ReplaceLog
  BY <1>26 DEF ReplaceLog
<1>27. CASE Rotate
  BY <1>27 DEF Rotate
<1>28. CASE \E f \in {"v4", "v6"} : CreateSet(f)
  BY <1>28 DEF CreateSet
<1>29. CASE UNCHANGED vars
  BY <1>29 DEF vars
<1>30. QED
  BY <1>1, <1>2, <1>3, <1>4, <1>5, <1>6, <1>7, <1>8, <1>9, <1>10, <1>11, <1>12, <1>13,
     <1>14, <1>15, <1>16, <1>17, <1>18, <1>19, <1>20, <1>21, <1>22, <1>23, <1>24,
     <1>25, <1>26, <1>27, <1>28, <1>29, Zenon DEF Next

\* SuccessListed.
LEMMA ListedStep ==
  ASSUME Given, SuccessListed, [Next]_vars
  PROVE  SuccessListed'
<1> USE DEF At, memVars, logVars, sigVars, runVars, engineVars, Given, SuccessListed
<1>1. CASE ParseOptions
  BY <1>1 DEF ParseOptions
<1>2. CASE OpenQueue
  BY <1>2 DEF OpenQueue
<1>3. CASE AllocateBuffer
  BY <1>3 DEF AllocateBuffer
<1>4. CASE OpenEngine
  BY <1>4 DEF OpenEngine, EngineOpen, IpsetOpen, DeviceOpen, RunCommand
<1>5. CASE DropPrivilege
  BY <1>5 DEF DropPrivilege
<1>6. CASE NextAddress
  BY <1>6 DEF NextAddress, Failed
<1>7. CASE Handle
  <2>1. PICK ok \in BOOLEAN :
          /\ EngineHandle(addr, ok)
          /\ reported' = IF ok THEN reported \cup {addr} ELSE reported
    BY <1>7 DEF Handle
  <2>2. UNCHANGED <<engine, fits>> /\ table \subseteq table'
    BY <2>1 DEF EngineHandle, IpsetHandle, IpsetAdd, RunCommand, IptablesHandle, NpfHandle, PfHandle,
                DummyHandle
  <2>3. addr \in [family : {"v4", "v6"}, host : {a.host : a \in Addr}, net : BOOLEAN]
    BY <1>7, EnginesAssumption DEF Handle
  <2>4. ~addr.net => HostOf(addr) = addr
    BY <2>3 DEF HostOf
  <2>5. ASSUME ok
        PROVE  \/ addr \in table' \/ (engine \in {"npf", "ipset"} /\ HostOf(addr) \in table')
               \/ engine \in {"iptables", "dummy"} \/ (engine = "ipset" /\ ~fits)
    <3>1. ASSUME IpsetHandle(addr, ok) PROVE HostOf(addr) \in table' \/ ~fits
      <4>1. PICK status \in {0, 1} :
              RunCommand(status, IpsetAdd(addr)) /\ ok = (status = 0)
        BY <3>1, Zenon DEF IpsetHandle
      <4>2. status = 0
        BY <2>5, <4>1, Zenon
      <4>3. ~fits \/ table' = table \cup {HostOf(addr)}
        BY <4>1, <4>2 DEF RunCommand, IpsetAdd
      <4>4. QED
        BY <4>3
    <3>2. engine = "pf" /\ PfHandle(addr, ok) => addr \in table'
      BY <2>5 DEF PfHandle
    <3>3. engine = "npf" /\ NpfHandle(addr, ok) => HostOf(addr) \in table'
      BY <2>5 DEF NpfHandle
    <3>4. QED
      BY <2>1, <3>1, <3>2, <3>3 DEF EngineHandle
  <2>6. QED
    BY <2>1, <2>2, <2>4, <2>5
<1>8. CASE LogHead
  BY <1>8 DEF LogHead
<1>9. CASE LogRest
  BY <1>9 DEF LogRest
<1>10. CASE FreeBuffer
  BY <1>10 DEF FreeBuffer, Undefined
<1>11. CASE NullBuffer
  BY <1>11 DEF NullBuffer
<1>12. CASE CloseContext
  BY <1>12 DEF CloseContext, Undefined
<1>13. CASE FreeContext
  BY <1>13 DEF FreeContext, Undefined
<1>14. CASE NullContext
  BY <1>14 DEF NullContext
<1>15. CASE CloseQueue
  BY <1>15 DEF CloseQueue
<1>16. CASE FreeName
  BY <1>16 DEF FreeName, Undefined
<1>17. CASE NullName
  BY <1>17 DEF NullName
<1>18. CASE FreeQueue
  BY <1>18 DEF FreeQueue, Undefined
<1>19. CASE NullQueue
  BY <1>19 DEF NullQueue
<1>20. CASE RemovePidfile
  BY <1>20 DEF RemovePidfile, Undefined, Dead
<1>21. CASE CloseLog
  BY <1>21 DEF CloseLog, Dead
<1>22. CASE NullLog
  BY <1>22 DEF NullLog
<1>23. CASE End
  BY <1>23 DEF End
<1>24. CASE OnSignal
  BY <1>24 DEF OnSignal, Untimely, Live
<1>25. CASE OnUsr1
  BY <1>25 DEF OnUsr1, Untimely, Live, MayOpen, Undefined
<1>26. CASE ReplaceLog
  BY <1>26 DEF ReplaceLog
<1>27. CASE Rotate
  BY <1>27 DEF Rotate
<1>28. CASE \E f \in {"v4", "v6"} : CreateSet(f)
  BY <1>28 DEF CreateSet
<1>29. CASE UNCHANGED vars
  BY <1>29 DEF vars
<1>30. QED
  BY <1>1, <1>2, <1>3, <1>4, <1>5, <1>6, <1>7, <1>8, <1>9, <1>10, <1>11, <1>12, <1>13,
     <1>14, <1>15, <1>16, <1>17, <1>18, <1>19, <1>20, <1>21, <1>22, <1>23, <1>24,
     <1>25, <1>26, <1>27, <1>28, <1>29, Zenon DEF Next
-----------------------------------------------------------------------------
(* The theorems.                                                           *)

Inv ==
  /\ EnginesTypeOK /\ Flags /\ Values
  /\ Once /\ Recorded /\ Streaming /\ Following
  /\ Given /\ SuccessListed

\* The invariant holds when a program starts and at every step.
THEOREM Invariance == Spec => []Inv
<1>1. Init => Inv
  <2>1. Init => EnginesTypeOK
    BY EnginesAssumption DEF Init, EnginesInit, EnginesTypeOK
  <2>2. Init => Flags
    BY Zenon DEF Init, Flags
  <2>3. Init => Values
    BY ProgramsAssumption DEF Init, Values, Label
  <2>4. Init => Once /\ Recorded /\ Streaming /\ Following
    BY DEF Init, EnginesInit, Once, Recorded, Streaming, Following, CleanupLabel
  <2>5. Init => Given /\ SuccessListed
    BY DEF Init, Given, SuccessListed
  <2>6. QED
    BY <2>1, <2>2, <2>3, <2>4, <2>5 DEF Inv
<1>2. Inv /\ [Next]_vars => Inv'
  BY EnginesStep, FlagsStep, ValuesStep, OnceStep, RecordedStep, StreamingStep,
     FollowingStep, GivenStep, ListedStep, Zenon DEF Inv
<1>3. QED
  BY <1>1, <1>2, PTL DEF Spec

\* Every variable of the process, of its engine and of the firewall keeps its type:
\* handle is never called without an address, and the stream is never a log file
\* newer than the one that has the name.
THEOREM TypeCorrect == Spec => []TypeOK
<1>1. Inv => TypeOK
  BY Zenon DEF Inv, TypeOK, Flags, Values
<1>2. QED
  BY <1>1, Invariance, PTL

\* Only a signal between a free or fclose of cleanup() or queue_close and the
\* assignment after it, an INT or TERM that leaves a failed freopen behind, or the
\* context of ipset, makes a process use what it gave back, however many signals
\* there are.
THEOREM CrashesCaused == Spec => []CrashCause
<1>1. Inv => CrashCause
  BY DEF Inv, Recorded, CrashCause
<1>2. QED
  BY <1>1, Invariance, PTL

\* _verr writes the rest of a record to an open stream, however often USR1 comes.
THEOREM RecordsWritten == Spec => []RecordWritten
<1>1. Inv => RecordWritten
  BY DEF Inv, Streaming, RecordWritten, CleanupLabel
<1>2. QED
  BY <1>1, Invariance, PTL

\* After USR1 the log is the new file, through any number of rotations, as long as
\* no freopen failed: for the permissions nobody lacks, or for another reason.
THEOREM LogsFollow == Spec => []LogFollows
<1>1. Inv => LogFollows
  BY DEF Inv, Following, LogFollows, Live
<1>2. QED
  BY <1>1, Invariance, PTL

\* When engine->handle returns true the firewall lists the network, for every list
\* of engines and every set of addresses; but NPF and ipset list its address
\* without the prefix, iptables and dummy nothing, and ipset nothing if the command
\* was too long.
THEOREM SuccessesListed == Spec => []SuccessListed
<1>1. Inv => SuccessListed
  BY DEF Inv
<1>2. QED
  BY <1>1, Invariance, PTL
=============================================================================
