------------------------ MODULE ThreadRecords_proofs ------------------------
(* Theorems about ThreadRecords.                                           *)
EXTENDS ThreadRecords, TLAPS

\* What the proofs use of the assumptions on the constants.
LEMMA ConstantFacts ==
  /\ Main \in Handle /\ NoHandle \notin Handle
  /\ MAX_THREAD_COUNT \in Nat /\ MAX_THREAD_COUNT > 0
  /\ 0 \in Slot /\ 0 \in Word /\ Value \subseteq Word /\ Slot \subseteq Word
  /\ Issued \subseteq Command
  BY HandleAssumption, CountAssumption, ValueAssumption, RomAssumption
  DEF HandleAssumption, CountAssumption, ValueAssumption, RomAssumption, Slot, Word

\* The numbers a scan runs through.
LEMMA NumberFacts ==
  /\ \A i \in Slot : i \in 0 .. MAX_THREAD_COUNT /\ i + 1 \in 0 .. MAX_THREAD_COUNT
  /\ \A i \in 0 .. MAX_THREAD_COUNT : i \in Slot \/ i = MAX_THREAD_COUNT
  /\ NoIndex \in 0 .. MAX_THREAD_COUNT
  BY ConstantFacts DEF Slot, NoIndex

\* The labels, as members of their sets.
LEMMA LabelFacts ==
  /\ "none" \in Pc /\ "born" \in Pc /\ "eval" \in Pc /\ "init_flag" \in Pc
  /\ "init_use" \in Pc /\ "init_handle" \in Pc /\ "scan" \in Pc /\ "fill" \in Pc
  /\ "spawn" \in Pc /\ "reply" \in Pc /\ "unclaim" \in Pc /\ "join_read" \in Pc
  /\ "join_call" \in Pc /\ "join_wait" \in Pc /\ "join_free" \in Pc
  /\ "join_result" \in Pc /\ "self_use" \in Pc /\ "self_cmp" \in Pc
  /\ "exited" \in Pc /\ "exiting" \in Pc
  /\ "OK" \in Status /\ "ERROR" \in Status /\ "CreateFailed" \in Status
  /\ "ThreadLimitReached" \in Status /\ "Deadlock" \in Status
  /\ "NotJoinable" \in Status /\ "NotFound" \in Status
  /\ "SELF" \in Command
  BY DEF Pc, Status, Command

USE ConstantFacts, NumberFacts, LabelFacts

\* The initial state has the type.
LEMMA InitTyped == Init => TypeOK /\ IndexOK
<1> SUFFICES ASSUME Init PROVE TypeOK /\ IndexOK
  OBVIOUS
<1> USE DEF Init
<1>1. RecordsType
  BY DEF RecordsType
<1>2. ThreadsType
  <2>1. pc \in [Handle -> Pc]
    OBVIOUS
  <2> QED
    BY <2>1 DEF ThreadsType
<1>3. PortsType
  BY DEF PortsType
<1>4. LocalsType
  BY DEF LocalsType
<1>5. HistoryType
  BY DEF HistoryType
<1>6. IndexOK
  BY DEF IndexOK
<1> QED
  BY <1>1, <1>2, <1>3, <1>4, <1>5, <1>6 DEF TypeOK

\* Every step keeps the type, and what a handler's locals hold where it uses
\* them.
LEMMA NextTyped == TypeOK /\ IndexOK /\ [Next]_vars => TypeOK' /\ IndexOK'
<1> SUFFICES ASSUME TypeOK, IndexOK, [Next]_vars PROVE TypeOK' /\ IndexOK'
  OBVIOUS
<1> USE DEF TypeOK, IndexOK
<1>1. ASSUME NEW h \in Handle, NEW c \in Issued, NEW t \in 0 .. MAX_THREAD_COUNT,
              Deo(h, c, t)
      PROVE  TypeOK' /\ IndexOK'
  <2> USE <1>1 DEF Deo, Enter, First, Goto, At, process, records, threads, ports, locals, history
  <2>1. RecordsType'
    BY DEF RecordsType
  <2>2. ThreadsType'
    BY DEF ThreadsType
  <2>3. PortsType'
    BY DEF PortsType
  <2>4. LocalsType'
    BY DEF LocalsType
  <2>5. HistoryType'
    BY DEF HistoryType
  <2>6. IndexOK'
    BY DEF ThreadsType, LocalsType
  <2> QED
    BY <2>1, <2>2, <2>3, <2>4, <2>5, <2>6
<1>2. ASSUME NEW h \in Handle, NEW v \in Value, WriteReturn(h, v)
      PROVE  TypeOK' /\ IndexOK'
  <2> USE <1>2 DEF WriteReturn, Goto, At, process, records, threads, ports, locals, history
  <2>1. RecordsType'
    BY DEF RecordsType
  <2>2. ThreadsType'
    BY DEF ThreadsType
  <2>3. PortsType'
    BY DEF PortsType
  <2>4. LocalsType'
    BY DEF LocalsType
  <2>5. HistoryType'
    BY DEF HistoryType
  <2>6. IndexOK'
    BY DEF ThreadsType, LocalsType
  <2> QED
    BY <2>1, <2>2, <2>3, <2>4, <2>5, <2>6
<1>3. ASSUME NEW h \in Handle, NEW v \in Value, Fill(h, v)
      PROVE  TypeOK' /\ IndexOK'
  <2> USE <1>3 DEF Fill, Goto, At, process, records, threads, ports, locals, history
  <2>1. RecordsType'
    BY DEF RecordsType, LocalsType
  <2>2. ThreadsType'
    BY DEF ThreadsType
  <2>3. PortsType'
    BY DEF PortsType
  <2>4. LocalsType'
    BY DEF LocalsType
  <2>5. HistoryType'
    BY DEF HistoryType
  <2>6. IndexOK'
    BY DEF ThreadsType, LocalsType
  <2> QED
    BY <2>1, <2>2, <2>3, <2>4, <2>5, <2>6
<1>4. ASSUME NEW h \in Handle, NEW c \in Handle, Spawn(h, c)
      PROVE  TypeOK' /\ IndexOK'
  <2> USE <1>4 DEF Spawn, Goto, At, process, records, threads, ports, locals, history
  <2>1. RecordsType'
    BY DEF RecordsType
  <2>2. ThreadsType'
    BY DEF ThreadsType, LocalsType
  <2>3. PortsType'
    BY DEF PortsType
  <2>4. LocalsType'
    BY DEF LocalsType
  <2>5. HistoryType'
    BY DEF HistoryType, LocalsType
  <2>6. IndexOK'
    BY DEF ThreadsType, LocalsType
  <2> QED
    BY <2>1, <2>2, <2>3, <2>4, <2>5, <2>6
<1>5. ASSUME NEW h \in Handle, WriteTlsShared(h)
      PROVE  TypeOK' /\ IndexOK'
  <2> USE <1>5 DEF WriteTlsShared, Goto, At, process, records, threads, ports, locals, history
  <2>1. RecordsType'
    BY DEF RecordsType
  <2>2. ThreadsType'
    BY DEF ThreadsType
  <2>3. PortsType'
    BY DEF PortsType
  <2>4. LocalsType'
    BY DEF LocalsType
  <2>5. HistoryType'
    BY DEF HistoryType
  <2>6. IndexOK'
    BY DEF ThreadsType, LocalsType
  <2> QED
    BY <2>1, <2>2, <2>3, <2>4, <2>5, <2>6
<1>6. ASSUME NEW h \in Handle, WorkerEnd(h)
      PROVE  TypeOK' /\ IndexOK'
  <2> USE <1>6 DEF WorkerEnd, Goto, At, process, records, threads, ports, locals, history
  <2>1. RecordsType'
    BY DEF RecordsType, ThreadsType, PortsType
  <2>2. ThreadsType'
    BY DEF ThreadsType
  <2>3. PortsType'
    BY DEF PortsType
  <2>4. LocalsType'
    BY DEF LocalsType
  <2>5. HistoryType'
    BY DEF HistoryType, PortsType
  <2>6. IndexOK'
    BY DEF ThreadsType, LocalsType
  <2> QED
    BY <2>1, <2>2, <2>3, <2>4, <2>5, <2>6
<1>7. ASSUME NEW h \in Handle, InitFlag(h)
      PROVE  TypeOK' /\ IndexOK'
  <2> USE <1>7 DEF InitFlag, Goto, At, process, records, threads, ports, locals, history
  <2>1. RecordsType'
    BY DEF RecordsType
  <2>2. ThreadsType'
    BY DEF ThreadsType
  <2>3. PortsType'
    BY DEF PortsType
  <2>4. LocalsType'
    BY DEF LocalsType
  <2>5. HistoryType'
    BY DEF HistoryType
  <2>6. IndexOK'
    BY DEF ThreadsType, LocalsType
  <2> QED
    BY <2>1, <2>2, <2>3, <2>4, <2>5, <2>6
<1>8. ASSUME NEW h \in Handle, InitUse(h)
      PROVE  TypeOK' /\ IndexOK'
  <2> USE <1>8 DEF InitUse, NoteFull, Goto, At, process, records, threads, ports, locals, history
  <2>1. RecordsType'
    BY DEF RecordsType
  <2>2. ThreadsType'
    BY DEF ThreadsType
  <2>3. PortsType'
    BY DEF PortsType
  <2>4. LocalsType'
    BY DEF LocalsType
  <2>5. HistoryType'
    BY DEF HistoryType
  <2>6. IndexOK'
    BY DEF ThreadsType, LocalsType
  <2> QED
    BY <2>1, <2>2, <2>3, <2>4, <2>5, <2>6
<1>9. ASSUME NEW h \in Handle, InitHandle(h)
      PROVE  TypeOK' /\ IndexOK'
  <2> USE <1>9 DEF InitHandle, Enter, First, Goto, At, process, records, threads, ports, locals, history
  <2>1. RecordsType'
    BY DEF RecordsType
  <2>2. ThreadsType'
    BY DEF ThreadsType
  <2>3. PortsType'
    BY DEF PortsType
  <2>4. LocalsType'
    BY DEF LocalsType
  <2>5. HistoryType'
    BY DEF HistoryType
  <2>6. IndexOK'
    BY DEF ThreadsType, LocalsType
  <2> QED
    BY <2>1, <2>2, <2>3, <2>4, <2>5, <2>6
<1>10. ASSUME NEW h \in Handle, ScanTake(h)
      PROVE  TypeOK' /\ IndexOK'
  <2> USE <1>10 DEF ScanTake, NoteFull, Goto, At, process, records, threads, ports, locals, history
  <2>1. RecordsType'
    BY DEF RecordsType
  <2>2. ThreadsType'
    BY DEF ThreadsType
  <2>3. PortsType'
    BY DEF PortsType
  <2>4. LocalsType'
    BY DEF LocalsType
  <2>5. HistoryType'
    BY DEF HistoryType
  <2>6. IndexOK'
    BY DEF ThreadsType, LocalsType
  <2> QED
    BY <2>1, <2>2, <2>3, <2>4, <2>5, <2>6
<1>11. ASSUME NEW h \in Handle, ScanSkip(h)
      PROVE  TypeOK' /\ IndexOK'
  <2> USE <1>11 DEF ScanSkip, Goto, At, process, records, threads, ports, locals, history
  <2>1. RecordsType'
    BY DEF RecordsType
  <2>2. ThreadsType'
    BY DEF ThreadsType
  <2>3. PortsType'
    BY DEF PortsType
  <2>4. LocalsType'
    BY DEF LocalsType
  <2>5. HistoryType'
    BY DEF HistoryType
  <2>6. IndexOK'
    BY DEF ThreadsType, LocalsType
  <2> QED
    BY <2>1, <2>2, <2>3, <2>4, <2>5, <2>6
<1>12. ASSUME NEW h \in Handle, ScanLimit(h)
      PROVE  TypeOK' /\ IndexOK'
  <2> USE <1>12 DEF ScanLimit, Reply, Return, Goto, At, process, records, threads, ports, locals, history
  <2>1. RecordsType'
    BY DEF RecordsType
  <2>2. ThreadsType'
    BY DEF ThreadsType
  <2>3. PortsType'
    BY DEF PortsType
  <2>4. LocalsType'
    BY DEF LocalsType
  <2>5. HistoryType'
    BY DEF HistoryType
  <2>6. IndexOK'
    BY DEF ThreadsType, LocalsType
  <2> QED
    BY <2>1, <2>2, <2>3, <2>4, <2>5, <2>6
<1>13. ASSUME NEW h \in Handle, CreateReply(h)
      PROVE  TypeOK' /\ IndexOK'
  <2> USE <1>13 DEF CreateReply, Reply, Return, Goto, At, process, records, threads, ports, locals, history
  <2>1. RecordsType'
    BY DEF RecordsType, LocalsType
  <2>2. ThreadsType'
    BY DEF ThreadsType
  <2>3. PortsType'
    BY DEF PortsType
  <2>4. LocalsType'
    BY DEF LocalsType
  <2>5. HistoryType'
    BY DEF HistoryType
  <2>6. IndexOK'
    BY DEF ThreadsType, LocalsType
  <2> QED
    BY <2>1, <2>2, <2>3, <2>4, <2>5, <2>6
<1>14. ASSUME NEW h \in Handle, SpawnFail(h)
      PROVE  TypeOK' /\ IndexOK'
  <2> USE <1>14 DEF SpawnFail, Goto, At, process, records, threads, ports, locals, history
  <2>1. RecordsType'
    BY DEF RecordsType
  <2>2. ThreadsType'
    BY DEF ThreadsType
  <2>3. PortsType'
    BY DEF PortsType
  <2>4. LocalsType'
    BY DEF LocalsType
  <2>5. HistoryType'
    BY DEF HistoryType
  <2>6. IndexOK'
    BY DEF ThreadsType, LocalsType
  <2> QED
    BY <2>1, <2>2, <2>3, <2>4, <2>5, <2>6
<1>15. ASSUME NEW h \in Handle, Unclaim(h)
      PROVE  TypeOK' /\ IndexOK'
  <2> USE <1>15 DEF Unclaim, Return, Goto, At, process, records, threads, ports, locals, history
  <2>1. RecordsType'
    BY DEF RecordsType
  <2>2. ThreadsType'
    BY DEF ThreadsType
  <2>3. PortsType'
    BY DEF PortsType
  <2>4. LocalsType'
    BY DEF LocalsType
  <2>5. HistoryType'
    BY DEF HistoryType
  <2>6. IndexOK'
    BY DEF ThreadsType, LocalsType
  <2> QED
    BY <2>1, <2>2, <2>3, <2>4, <2>5, <2>6
<1>16. ASSUME NEW h \in Handle, WorkerStart(h)
      PROVE  TypeOK' /\ IndexOK'
  <2> USE <1>16 DEF WorkerStart, Goto, At, process, records, threads, ports, locals, history
  <2>1. RecordsType'
    BY DEF RecordsType
  <2>2. ThreadsType'
    BY DEF ThreadsType
  <2>3. PortsType'
    BY DEF PortsType, RecordsType, ThreadsType
  <2>4. LocalsType'
    BY DEF LocalsType
  <2>5. HistoryType'
    BY DEF HistoryType
  <2>6. IndexOK'
    BY DEF ThreadsType, LocalsType
  <2> QED
    BY <2>1, <2>2, <2>3, <2>4, <2>5, <2>6
<1>17. ASSUME NEW h \in Handle, JoinNotFound(h)
      PROVE  TypeOK' /\ IndexOK'
  <2> USE <1>17 DEF JoinNotFound, Reply, Return, Goto, At, process, records, threads, ports, locals, history
  <2>1. RecordsType'
    BY DEF RecordsType
  <2>2. ThreadsType'
    BY DEF ThreadsType
  <2>3. PortsType'
    BY DEF PortsType
  <2>4. LocalsType'
    BY DEF LocalsType
  <2>5. HistoryType'
    BY DEF HistoryType
  <2>6. IndexOK'
    BY DEF ThreadsType, LocalsType
  <2> QED
    BY <2>1, <2>2, <2>3, <2>4, <2>5, <2>6
<1>18. ASSUME NEW h \in Handle, JoinRead(h)
      PROVE  TypeOK' /\ IndexOK'
  <2> USE <1>18 DEF JoinRead, Goto, At, process, records, threads, ports, locals, history
  <2>1. RecordsType'
    BY DEF RecordsType
  <2>2. ThreadsType'
    BY DEF ThreadsType
  <2>3. PortsType'
    BY DEF PortsType
  <2>4. LocalsType'
    BY DEF LocalsType, RecordsType
  <2>5. HistoryType'
    BY DEF HistoryType
  <2>6. IndexOK'
    BY DEF ThreadsType, LocalsType
  <2> QED
    BY <2>1, <2>2, <2>3, <2>4, <2>5, <2>6
<1>19. ASSUME NEW h \in Handle, JoinRefused(h)
      PROVE  TypeOK' /\ IndexOK'
  <2> USE <1>19 DEF JoinRefused, Reply, Return, JoinError, Goto, At, process, records, threads, ports, locals, history
  <2>1. RecordsType'
    BY DEF RecordsType
  <2>2. ThreadsType'
    BY DEF ThreadsType
  <2>3. PortsType'
    BY DEF PortsType
  <2>4. LocalsType'
    BY DEF LocalsType
  <2>5. HistoryType'
    BY DEF HistoryType
  <2>6. IndexOK'
    BY DEF ThreadsType, LocalsType
  <2> QED
    BY <2>1, <2>2, <2>3, <2>4, <2>5, <2>6
<1>20. ASSUME NEW h \in Handle, JoinCrash(h)
      PROVE  TypeOK' /\ IndexOK'
  <2> USE <1>20 DEF JoinCrash, Goto, At, process, records, threads, ports, locals, history
  <2>1. RecordsType'
    BY DEF RecordsType
  <2>2. ThreadsType'
    BY DEF ThreadsType
  <2>3. PortsType'
    BY DEF PortsType
  <2>4. LocalsType'
    BY DEF LocalsType
  <2>5. HistoryType'
    BY DEF HistoryType
  <2>6. IndexOK'
    BY DEF ThreadsType, LocalsType
  <2> QED
    BY <2>1, <2>2, <2>3, <2>4, <2>5, <2>6
<1>21. ASSUME NEW h \in Handle, JoinCall(h)
      PROVE  TypeOK' /\ IndexOK'
  <2> USE <1>21 DEF JoinCall, Goto, At, process, records, threads, ports, locals, history
  <2>1. RecordsType'
    BY DEF RecordsType
  <2>2. ThreadsType'
    BY DEF ThreadsType, LocalsType
  <2>3. PortsType'
    BY DEF PortsType
  <2>4. LocalsType'
    BY DEF LocalsType
  <2>5. HistoryType'
    BY DEF HistoryType
  <2>6. IndexOK'
    BY DEF ThreadsType, LocalsType, JoinError
  <2> QED
    BY <2>1, <2>2, <2>3, <2>4, <2>5, <2>6
<1>22. ASSUME NEW h \in Handle, JoinReturn(h)
      PROVE  TypeOK' /\ IndexOK'
  <2> USE <1>22 DEF JoinReturn, Goto, At, process, records, threads, ports, locals, history
  <2>1. RecordsType'
    BY DEF RecordsType
  <2>2. ThreadsType'
    BY DEF ThreadsType, LocalsType
  <2>3. PortsType'
    BY DEF PortsType
  <2>4. LocalsType'
    BY DEF LocalsType
  <2>5. HistoryType'
    BY DEF HistoryType
  <2>6. IndexOK'
    BY DEF ThreadsType, LocalsType
  <2> QED
    BY <2>1, <2>2, <2>3, <2>4, <2>5, <2>6
<1>23. ASSUME NEW h \in Handle, JoinFree(h)
      PROVE  TypeOK' /\ IndexOK'
  <2> USE <1>23 DEF JoinFree, Goto, At, process, records, threads, ports, locals, history
  <2>1. RecordsType'
    BY DEF RecordsType
  <2>2. ThreadsType'
    BY DEF ThreadsType
  <2>3. PortsType'
    BY DEF PortsType
  <2>4. LocalsType'
    BY DEF LocalsType
  <2>5. HistoryType'
    BY DEF HistoryType
  <2>6. IndexOK'
    BY DEF ThreadsType, LocalsType
  <2> QED
    BY <2>1, <2>2, <2>3, <2>4, <2>5, <2>6
<1>24. ASSUME NEW h \in Handle, JoinResult(h)
      PROVE  TypeOK' /\ IndexOK'
  <2> USE <1>24 DEF JoinResult, Reply, Return, Goto, At, process, records, threads, ports, locals, history
  <2>1. RecordsType'
    BY DEF RecordsType
  <2>2. ThreadsType'
    BY DEF ThreadsType
  <2>3. PortsType'
    BY DEF PortsType, RecordsType
  <2>4. LocalsType'
    BY DEF LocalsType
  <2>5. HistoryType'
    BY DEF HistoryType
  <2>6. IndexOK'
    BY DEF ThreadsType, LocalsType
  <2> QED
    BY <2>1, <2>2, <2>3, <2>4, <2>5, <2>6
<1>25. ASSUME NEW h \in Handle, SelfLoad(h)
      PROVE  TypeOK' /\ IndexOK'
  <2> USE <1>25 DEF SelfLoad, Goto, At, process, records, threads, ports, locals, history
  <2>1. RecordsType'
    BY DEF RecordsType
  <2>2. ThreadsType'
    BY DEF ThreadsType
  <2>3. PortsType'
    BY DEF PortsType
  <2>4. LocalsType'
    BY DEF LocalsType
  <2>5. HistoryType'
    BY DEF HistoryType
  <2>6. IndexOK'
    BY DEF ThreadsType, LocalsType
  <2> QED
    BY <2>1, <2>2, <2>3, <2>4, <2>5, <2>6
<1>26. ASSUME NEW h \in Handle, SelfFound(h)
      PROVE  TypeOK' /\ IndexOK'
  <2> USE <1>26 DEF SelfFound, SelfReply, Reply, Return, Goto, At, process, records, threads, ports, locals, history
  <2>1. RecordsType'
    BY DEF RecordsType
  <2>2. ThreadsType'
    BY DEF ThreadsType
  <2>3. PortsType'
    BY DEF PortsType
  <2>4. LocalsType'
    BY DEF LocalsType
  <2>5. HistoryType'
    BY DEF HistoryType
  <2>6. IndexOK'
    BY DEF ThreadsType, LocalsType
  <2> QED
    BY <2>1, <2>2, <2>3, <2>4, <2>5, <2>6
<1>27. ASSUME NEW h \in Handle, SelfOther(h)
      PROVE  TypeOK' /\ IndexOK'
  <2> USE <1>27 DEF SelfOther, Goto, At, process, records, threads, ports, locals, history
  <2>1. RecordsType'
    BY DEF RecordsType
  <2>2. ThreadsType'
    BY DEF ThreadsType
  <2>3. PortsType'
    BY DEF PortsType
  <2>4. LocalsType'
    BY DEF LocalsType
  <2>5. HistoryType'
    BY DEF HistoryType
  <2>6. IndexOK'
    BY DEF ThreadsType, LocalsType
  <2> QED
    BY <2>1, <2>2, <2>3, <2>4, <2>5, <2>6
<1>28. ASSUME NEW h \in Handle, SelfMissing(h)
      PROVE  TypeOK' /\ IndexOK'
  <2> USE <1>28 DEF SelfMissing, SelfReply, Reply, Return, Goto, At, process, records, threads, ports, locals, history
  <2>1. RecordsType'
    BY DEF RecordsType
  <2>2. ThreadsType'
    BY DEF ThreadsType
  <2>3. PortsType'
    <3>1. CASE cmd[h] = "TLS"
      BY <3>1 DEF PortsType
    <3>2. CASE cmd[h] # "TLS"
      BY <3>2 DEF PortsType
    <3> QED
      BY <3>1, <3>2
  <2>4. LocalsType'
    BY DEF LocalsType
  <2>5. HistoryType'
    BY DEF HistoryType
  <2>6. IndexOK'
    BY DEF ThreadsType, LocalsType
  <2> QED
    BY <2>1, <2>2, <2>3, <2>4, <2>5, <2>6
<1>29. ASSUME DestroyMutexes PROVE TypeOK' /\ IndexOK'
  <2> USE <1>29 DEF DestroyMutexes, Goto, At, process, records, threads, ports, locals, history
  <2>1. RecordsType'
    BY DEF RecordsType
  <2>2. ThreadsType'
    BY DEF ThreadsType
  <2>3. PortsType'
    BY DEF PortsType
  <2>4. LocalsType'
    BY DEF LocalsType
  <2>5. HistoryType'
    BY DEF HistoryType
  <2>6. IndexOK'
    BY DEF ThreadsType, LocalsType
  <2> QED
    BY <2>1, <2>2, <2>3, <2>4, <2>5, <2>6
<1>30. ASSUME ProcessExit PROVE TypeOK' /\ IndexOK'
  <2> USE <1>30 DEF ProcessExit, Goto, At, process, records, threads, ports, locals, history
  <2>1. RecordsType'
    BY DEF RecordsType
  <2>2. ThreadsType'
    BY DEF ThreadsType
  <2>3. PortsType'
    BY DEF PortsType
  <2>4. LocalsType'
    BY DEF LocalsType
  <2>5. HistoryType'
    BY DEF HistoryType
  <2>6. IndexOK'
    BY DEF ThreadsType, LocalsType
  <2> QED
    BY <2>1, <2>2, <2>3, <2>4, <2>5, <2>6
<1>31. CASE UNCHANGED vars
  BY <1>31 DEF vars, Goto, At, process, records, threads, ports, locals, history, RecordsType, ThreadsType, PortsType, LocalsType, HistoryType
<1> QED
  BY <1>1, <1>2, <1>3, <1>4, <1>5, <1>6, <1>7, <1>8, <1>9, <1>10, <1>11, <1>12, <1>13, <1>14, <1>15, <1>16, <1>17, <1>18, <1>19, <1>20, <1>21, <1>22, <1>23, <1>24, <1>25, <1>26, <1>27, <1>28, <1>29, <1>30, <1>31 DEF Next, Rom, Device

\* Every variable keeps its type in every behaviour.
THEOREM TypeSafe == Spec => []TypeOK
<1>1. Spec => [](TypeOK /\ IndexOK)
  BY InitTyped, NextTyped, PTL DEF Spec
<1> QED
  BY <1>1, PTL

-----------------------------------------------------------------------------
\* The exclusion invariant holds initially.
LEMMA InitExclusion == Init => Exclusion
<1> SUFFICES ASSUME Init PROVE Exclusion
  OBVIOUS
<1> USE DEF Init
<1>1. \A h \in Handle, r \in Role, i \in Slot : ~Owns(h, r, i)
  <2>1. \A h \in Handle : pc[h] = IF h = Main THEN "eval" ELSE "none"
    OBVIOUS
  <2> QED
    BY <2>1 DEF Owns, Role
<1>2. \A h \in Handle : ~Joining(h) /\ pc[h] \in {"eval", "none"}
  BY DEF Joining
<1>3. IdsUnique
  BY <1>2 DEF IdsUnique, Holds
<1>4. IdsNamed
  BY <1>2 DEF IdsNamed
<1>5. MainAlone
  <2>1. pc[Main] = "eval" /\ \A h \in Handle \ {Main} : pc[h] = "none"
    OBVIOUS
  <2> QED
    BY <1>1, <2>1 DEF MainAlone
<1>6. SlotExclusive
  BY <1>1 DEF SlotExclusive
<1>7. InUseIffOwned
  BY <1>1 DEF InUseIffOwned
<1> QED
  BY <1>3, <1>4, <1>5, <1>6, <1>7 DEF Exclusion

\* Every step of a ROM that joins an id once keeps it.
LEMMA NextExclusion ==
  ASSUME JoinOnce, TypeOK, IndexOK, Exclusion, [Next]_vars
  PROVE  Exclusion'
<1> USE DEF TypeOK, IndexOK, RecordsType, ThreadsType, LocalsType, Exclusion
<1>1. ASSUME NEW h \in Handle, NEW c \in Issued, NEW t \in 0 .. MAX_THREAD_COUNT,
              Deo(h, c, t)
      PROVE  Exclusion'
  <2> USE <1>1 DEF Deo, Enter, First, Goto, At, process, records, threads, ports, locals, history
  <2>1. IdsUnique'
    BY DEF IdsUnique, Holds, Joining
  <2>2. IdsNamed'
    BY DEF IdsNamed, Owns, Joining, Named
  <2>3. MainAlone'
    <3>1. \A g \in Handle, r \in Role : ~Owns(g, r, 0)'
      BY DEF MainAlone, Owns, Role
    <3>2. in_use[0] = 0 => h = Main /\ ~mutex_init_done
      BY DEF MainAlone
    <3> QED
      BY <3>1, <3>2 DEF MainAlone
  <2>4. SlotExclusive'
    BY DEF SlotExclusive, Owns, Role
  <2>5. InUseIffOwned'
    BY DEF InUseIffOwned, Owns, Role
  <2> QED
    BY <2>1, <2>2, <2>3, <2>4, <2>5
<1>2. ASSUME NEW h \in Handle, NEW v \in Value, WriteReturn(h, v)
      PROVE  Exclusion'
  <2> USE <1>2 DEF WriteReturn, Goto, At, process, records, threads, ports, locals, history
  <2>1. IdsUnique'
    BY DEF IdsUnique, Holds, Joining
  <2>2. IdsNamed'
    BY DEF IdsNamed, Owns, Joining, Named
  <2>3. MainAlone'
    BY DEF MainAlone, Owns, Role
  <2>4. SlotExclusive'
    BY DEF SlotExclusive, Owns, Role
  <2>5. InUseIffOwned'
    BY DEF InUseIffOwned, Owns, Role
  <2> QED
    BY <2>1, <2>2, <2>3, <2>4, <2>5
<1>3. ASSUME NEW h \in Handle, NEW v \in Value, Fill(h, v)
      PROVE  Exclusion'
  <2> USE <1>3 DEF Fill, Goto, At, process, records, threads, ports, locals, history
  <2>1. IdsUnique'
    BY DEF IdsUnique, Holds, Joining
  <2>2. IdsNamed'
    BY DEF IdsNamed, Owns, Joining, Named
  <2>3. MainAlone'
    BY DEF MainAlone, Owns, Role
  <2>4. SlotExclusive'
    BY DEF SlotExclusive, Owns, Role
  <2>5. InUseIffOwned'
    BY DEF InUseIffOwned, Owns, Role
  <2> QED
    BY <2>1, <2>2, <2>3, <2>4, <2>5
<1>4. ASSUME NEW h \in Handle, NEW c \in Handle, Spawn(h, c)
      PROVE  Exclusion'
  <2> USE <1>4 DEF Spawn, Goto, At, process, records, threads, ports, locals, history
  <2>a. c # h /\ c # Main /\ idx[h] \in Slot /\ Owns(h, "creator", idx[h])
    BY DEF MainAlone, Owns
  <2>b. \A g \in Handle, r \in Role, i \in Slot :
          Owns(g, r, i)' <=>
            \/ Owns(g, r, i) /\ ~(g = h /\ r = "creator")
            \/ g = c /\ r = "worker" /\ i = idx[h]
    BY <2>a DEF Owns, Role
  <2>c. \A g \in Handle, r \in Role : Owns(g, r, idx[h]) => g = h /\ r = "creator"
    BY <2>a DEF SlotExclusive, Role
  <2>d. \A g \in Handle, i \in Slot :
          /\ Joining(g)' <=> Joining(g)
          /\ Holds(g, i)' <=> Holds(g, i) \/ (g = h /\ i = idx[h])
    BY <2>a DEF Holds, Joining
  <2>e. \A i \in Slot : Named(i) => i # idx[h]
    BY <2>c DEF Named, Role
  <2>f. idx[h] \notin open /\ \A g \in Handle : ~Holds(g, idx[h])
    <3>1. \A g \in Handle : pc[g] = "reply" => idx[g] # idx[h]
      BY <2>c DEF IdsNamed, Role
    <3> QED
      BY <2>e, <3>1 DEF IdsNamed, Holds
  <2>1. IdsUnique'
    <3>1. \A g \in Handle, i \in open : ~Holds(g, i)'
      BY <2>d, <2>f DEF IdsUnique, HistoryType
    <3>2. \A f, g \in Handle, i \in Slot : Holds(f, i)' /\ Holds(g, i)' => f = g
      BY <2>d, <2>f DEF IdsUnique
    <3> QED
      BY <3>1, <3>2 DEF IdsUnique
  <2>2. IdsNamed'
    <3>1. \A i \in Slot : Named(i) => Named(i)'
      BY <2>a, <2>b, <2>e DEF Named, Role
    <3>2. \A i \in open' : Named(i)'
      BY <3>1 DEF IdsNamed, HistoryType
    <3>3. \A g \in Handle : Joining(g)' => idx'[g] \in Slot /\ Named(idx[g])'
      BY <2>d, <3>1 DEF IdsNamed
    <3>4. \A g \in Handle : pc'[g] = "reply" => Owns(jh[g], "worker", idx[g])'
      <4> SUFFICES ASSUME NEW g \in Handle, pc'[g] = "reply"
                   PROVE  Owns(jh[g], "worker", idx[g])'
        OBVIOUS
      <4>1. CASE g = h
        BY <2>a, <4>1 DEF Owns
      <4>2. CASE g # h
        <5>1. pc[g] = "reply" /\ jh'[g] = jh[g] /\ idx'[g] = idx[g] /\ jh[g] \in Handle
          BY <4>2
        <5>2. jh[g] # c /\ Owns(jh[g], "worker", idx[g])
          BY <5>1 DEF IdsNamed, Owns
        <5>3. pc'[jh[g]] # "none" /\ rec'[jh[g]] = idx[g] /\ jh[g] # Main
          BY <2>a, <5>1, <5>2 DEF Owns
        <5> QED
          BY <5>1, <5>3 DEF Owns
      <4> QED
        BY <4>1, <4>2
    <3>5. \A g \in Handle : pc'[g] \in {"join_call", "join_wait"} => jh'[g] = thread_handle'[idx'[g]]
      <4> SUFFICES ASSUME NEW g \in Handle, pc'[g] \in {"join_call", "join_wait"}
                   PROVE  jh'[g] = thread_handle'[idx'[g]]
        OBVIOUS
      <4>1. g # h /\ g # c /\ pc[g] \in {"join_call", "join_wait"} /\ cmd[g] = "JOIN"
        BY <2>a DEF IdsNamed
      <4>2. Joining(g)
        BY <4>1 DEF Joining
      <4>3. idx[g] # idx[h]
        BY <2>e, <4>2 DEF IdsNamed
      <4> QED
        BY <4>1, <4>3 DEF IdsNamed
    <3>6. \A g \in Handle : pc'[g] \in {"join_read", "join_call", "join_wait"} => cmd'[g] = "JOIN"
      BY <2>a DEF IdsNamed
    <3> QED
      BY ONLY <3>2, <3>3, <3>4, <3>5, <3>6 DEF IdsNamed
  <2>3. MainAlone'
    <3>1. in_use'[0] = 1 /\ pc'[Main] # "none"
      BY <2>a DEF MainAlone
    <3>2. idx[h] # 0
      BY <2>a DEF MainAlone, Role
    <3>3. \A g \in Handle, r \in Role : ~Owns(g, r, 0)'
      BY <2>b, <3>2 DEF MainAlone
    <3> QED
      BY <3>1, <3>3 DEF MainAlone
  <2>4. SlotExclusive'
    BY <2>a, <2>b, <2>c DEF SlotExclusive
  <2>5. InUseIffOwned'
    <3> SUFFICES ASSUME NEW i \in Slot \ {0}
                 PROVE  (in_use[i] = 1 <=> \E g \in Handle, r \in Role : Owns(g, r, i))'
      BY DEF InUseIffOwned
    <3>1. in_use[i] = 1 <=> \E g \in Handle, r \in Role : Owns(g, r, i)
      BY DEF InUseIffOwned
    <3>2. CASE i = idx[h]
      BY <2>a, <2>b, <3>1, <3>2 DEF Role
    <3>3. CASE i # idx[h]
      <4>1. \A g \in Handle, r \in Role : Owns(g, r, i)' <=> Owns(g, r, i)
        BY <2>b, <3>3 DEF Owns
      <4> QED
        BY <3>1, <4>1
    <3> QED
      BY <3>2, <3>3
  <2> QED
    BY <2>1, <2>2, <2>3, <2>4, <2>5
<1>5. ASSUME NEW h \in Handle, WriteTlsShared(h)
      PROVE  Exclusion'
  <2> USE <1>5 DEF WriteTlsShared, Goto, At, process, records, threads, ports, locals, history
  <2>1. IdsUnique'
    BY DEF IdsUnique, Holds, Joining
  <2>2. IdsNamed'
    BY DEF IdsNamed, Owns, Joining, Named
  <2>3. MainAlone'
    BY DEF MainAlone, Owns, Role
  <2>4. SlotExclusive'
    BY DEF SlotExclusive, Owns, Role
  <2>5. InUseIffOwned'
    BY DEF InUseIffOwned, Owns, Role
  <2> QED
    BY <2>1, <2>2, <2>3, <2>4, <2>5
<1>6. ASSUME NEW h \in Handle, WorkerEnd(h)
      PROVE  Exclusion'
  <2> USE <1>6 DEF WorkerEnd, Goto, At, process, records, threads, ports, locals, history
  <2>1. IdsUnique'
    BY DEF IdsUnique, Holds, Joining
  <2>2. IdsNamed'
    BY DEF IdsNamed, Owns, Joining, Named
  <2>3. MainAlone'
    BY DEF MainAlone, Owns, Role
  <2>4. SlotExclusive'
    BY DEF SlotExclusive, Owns, Role
  <2>5. InUseIffOwned'
    BY DEF InUseIffOwned, Owns, Role
  <2> QED
    BY <2>1, <2>2, <2>3, <2>4, <2>5
<1>7. ASSUME NEW h \in Handle, InitFlag(h)
      PROVE  Exclusion'
  <2> USE <1>7 DEF InitFlag, Goto, At, process, records, threads, ports, locals, history
  <2>1. IdsUnique'
    BY DEF IdsUnique, Holds, Joining
  <2>2. IdsNamed'
    BY DEF IdsNamed, Owns, Joining, Named
  <2>3. MainAlone'
    BY DEF MainAlone, Owns, Role
  <2>4. SlotExclusive'
    BY DEF SlotExclusive, Owns, Role
  <2>5. InUseIffOwned'
    BY DEF InUseIffOwned, Owns, Role
  <2> QED
    BY <2>1, <2>2, <2>3, <2>4, <2>5
<1>8. ASSUME NEW h \in Handle, InitUse(h)
      PROVE  Exclusion'
  <2> USE <1>8 DEF InitUse, NoteFull, Goto, At, process, records, threads, ports, locals, history
  <2>1. IdsUnique'
    BY DEF IdsUnique, Holds, Joining
  <2>2. IdsNamed'
    BY DEF IdsNamed, Owns, Joining, Named
  <2>3. MainAlone'
    <3>1. \A g \in Handle, r \in Role : Owns(g, r, 0)' <=> Owns(g, r, 0)
      BY DEF Owns, Role
    <3> QED
      BY <3>1 DEF MainAlone
  <2>4. SlotExclusive'
    BY DEF SlotExclusive, Owns, Role
  <2>5. InUseIffOwned'
    BY DEF InUseIffOwned, Owns, Role
  <2> QED
    BY <2>1, <2>2, <2>3, <2>4, <2>5
<1>9. ASSUME NEW h \in Handle, InitHandle(h)
      PROVE  Exclusion'
  <2> USE <1>9 DEF InitHandle, Enter, First, Goto, At, process, records, threads, ports, locals, history
  <2>1. IdsUnique'
    BY DEF IdsUnique, Holds, Joining
  <2>2. IdsNamed'
    <3>1. \A i \in Slot : Named(i) => i # 0
      BY DEF Named, MainAlone, Role
    <3>2. \A i \in Slot : Named(i) => Named(i)'
      BY <3>1 DEF Named, Owns
    <3>3. \A g \in Handle : Joining(g)' => Joining(g)
      BY DEF Joining
    <3>4. \A i \in open' : Named(i)'
      BY <3>2 DEF IdsNamed, HistoryType
    <3>5. \A g \in Handle : Joining(g)' => idx'[g] \in Slot /\ Named(idx[g])'
      BY <3>2, <3>3 DEF IdsNamed
    <3>6. \A g \in Handle : pc'[g] = "reply" => Owns(jh[g], "worker", idx[g])'
      BY DEF IdsNamed, Owns
    <3>7. \A g \in Handle : pc'[g] \in {"join_call", "join_wait"} => jh'[g] = thread_handle'[idx'[g]]
      <4>1. \A g \in Handle : pc[g] \in {"join_call", "join_wait"} => idx[g] # 0
        BY <3>1 DEF IdsNamed, Joining
      <4> QED
        BY <4>1 DEF IdsNamed
    <3>8. \A g \in Handle : pc'[g] \in {"join_read", "join_call", "join_wait"} => cmd'[g] = "JOIN"
      BY DEF IdsNamed
    <3> QED
      BY <3>4, <3>5, <3>6, <3>7, <3>8 DEF IdsNamed
  <2>3. MainAlone'
    BY DEF MainAlone, Owns, Role
  <2>4. SlotExclusive'
    BY DEF SlotExclusive, Owns, Role
  <2>5. InUseIffOwned'
    BY DEF InUseIffOwned, Owns, Role
  <2> QED
    BY <2>1, <2>2, <2>3, <2>4, <2>5
<1>10. ASSUME NEW h \in Handle, ScanTake(h)
      PROVE  Exclusion'
  <2> USE <1>10 DEF ScanTake, NoteFull, Goto, At, process, records, threads, ports, locals, history
  <2>a. \A g \in Handle, r \in Role, i \in Slot :
          Owns(g, r, i)' <=> Owns(g, r, i) \/ (g = h /\ r = "creator" /\ i = idx[h])
    BY DEF Owns, Role
  <2>b. idx[h] # 0 /\ \A g \in Handle, r \in Role : ~Owns(g, r, idx[h])
    BY DEF MainAlone, InUseIffOwned
  <2>1. IdsUnique'
    BY DEF IdsUnique, Holds, Joining
  <2>2. IdsNamed'
    BY DEF IdsNamed, Owns, Joining, Named
  <2>3. MainAlone'
    BY DEF MainAlone, Owns, Role
  <2>4. SlotExclusive'
    BY ONLY <2>a, <2>b, SlotExclusive DEF SlotExclusive
  <2>5. InUseIffOwned'
    BY <2>a, <2>b DEF InUseIffOwned, Role
  <2> QED
    BY <2>1, <2>2, <2>3, <2>4, <2>5
<1>11. ASSUME NEW h \in Handle, ScanSkip(h)
      PROVE  Exclusion'
  <2> USE <1>11 DEF ScanSkip, Goto, At, process, records, threads, ports, locals, history
  <2>1. IdsUnique'
    BY DEF IdsUnique, Holds, Joining
  <2>2. IdsNamed'
    BY DEF IdsNamed, Owns, Joining, Named
  <2>3. MainAlone'
    BY DEF MainAlone, Owns, Role
  <2>4. SlotExclusive'
    BY DEF SlotExclusive, Owns, Role
  <2>5. InUseIffOwned'
    BY DEF InUseIffOwned, Owns, Role
  <2> QED
    BY <2>1, <2>2, <2>3, <2>4, <2>5
<1>12. ASSUME NEW h \in Handle, ScanLimit(h)
      PROVE  Exclusion'
  <2> USE <1>12 DEF ScanLimit, Reply, Return, Goto, At, process, records, threads, ports, locals, history
  <2>1. IdsUnique'
    BY DEF IdsUnique, Holds, Joining
  <2>2. IdsNamed'
    BY DEF IdsNamed, Owns, Joining, Named
  <2>3. MainAlone'
    BY DEF MainAlone, Owns, Role
  <2>4. SlotExclusive'
    BY DEF SlotExclusive, Owns, Role
  <2>5. InUseIffOwned'
    BY DEF InUseIffOwned, Owns, Role
  <2> QED
    BY <2>1, <2>2, <2>3, <2>4, <2>5
<1>13. ASSUME NEW h \in Handle, CreateReply(h)
      PROVE  Exclusion'
  <2> USE <1>13 DEF CreateReply, Reply, Return, Goto, At, process, records, threads, ports, locals, history
  <2>1. IdsUnique'
    BY DEF IdsUnique, Holds, Joining
  <2>2. IdsNamed'
    <3>1. Owns(jh[h], "worker", idx[h]) /\ jh[h] \in Handle /\ idx[h] \in Slot
      BY DEF IdsNamed
    <3>2. \A g \in Handle, i \in Slot : Owns(g, "worker", i)' <=> Owns(g, "worker", i)
      BY DEF Owns
    <3>3. \A i \in Slot : Named(i) /\ i # idx[h] => Named(i)'
      BY <3>2 DEF Named
    <3>4. \A i \in Slot : i = idx[h] => Named(i)'
      <4> SUFFICES ASSUME NEW i \in Slot, i = idx[h] PROVE Named(i)'
        OBVIOUS
      <4>1. thread_handle'[i] = jh[h]
        BY <3>1
      <4>2. Owns(jh[h], "worker", i)
        BY <3>1
      <4>3. Owns(thread_handle[i], "worker", i)'
        BY <3>1, <4>1, <4>2 DEF Owns
      <4> QED
        BY <3>1, <4>1, <4>3 DEF Named
    <3>5. \A i \in open' : Named(i)'
      <4>1. open' = open \cup {idx[h]} /\ open \subseteq Slot
        BY DEF HistoryType
      <4>2. \A i \in open : Named(i)
        BY DEF IdsNamed
      <4> SUFFICES ASSUME NEW i \in open' PROVE Named(i)'
        OBVIOUS
      <4>3. CASE i = idx[h]
        BY <3>1, <3>4, <4>3
      <4>4. CASE i # idx[h]
        BY <3>3, <4>1, <4>2, <4>4
      <4> QED
        BY <4>3, <4>4
    <3>6. \A g \in Handle : Joining(g)' => idx'[g] \in Slot /\ Named(idx[g])'
      <4>1. Holds(h, idx[h])
        BY DEF Holds
      <4>2. \A g \in Handle : Joining(g) /\ g # h => idx[g] # idx[h]
        BY <3>1, <4>1 DEF IdsUnique, Holds
      <4> QED
        BY <3>3, <4>2 DEF IdsNamed, Joining
    <3>7. \A g \in Handle : pc'[g] = "reply" => Owns(jh[g], "worker", idx[g])'
      BY <3>2 DEF IdsNamed
    <3>8. \A g \in Handle : pc'[g] \in {"join_call", "join_wait"} => jh'[g] = thread_handle'[idx'[g]]
      <4>1. \A g \in Handle : g # h /\ pc[g] \in {"join_call", "join_wait"} => idx[g] # idx[h]
        BY <3>1 DEF IdsUnique, IdsNamed, Holds, Joining
      <4> QED
        BY <4>1 DEF IdsNamed
    <3>9. \A g \in Handle : pc'[g] \in {"join_read", "join_call", "join_wait"} => cmd'[g] = "JOIN"
      BY DEF IdsNamed
    <3> QED
      BY <3>5, <3>6, <3>7, <3>8, <3>9 DEF IdsNamed
  <2>3. MainAlone'
    BY DEF MainAlone, Owns, Role
  <2>4. SlotExclusive'
    BY DEF SlotExclusive, Owns, Role
  <2>5. InUseIffOwned'
    BY DEF InUseIffOwned, Owns, Role
  <2> QED
    BY <2>1, <2>2, <2>3, <2>4, <2>5
<1>14. ASSUME NEW h \in Handle, SpawnFail(h)
      PROVE  Exclusion'
  <2> USE <1>14 DEF SpawnFail, Goto, At, process, records, threads, ports, locals, history
  <2>1. IdsUnique'
    BY DEF IdsUnique, Holds, Joining
  <2>2. IdsNamed'
    BY DEF IdsNamed, Owns, Joining, Named
  <2>3. MainAlone'
    BY DEF MainAlone, Owns, Role
  <2>4. SlotExclusive'
    BY DEF SlotExclusive, Owns, Role
  <2>5. InUseIffOwned'
    BY DEF InUseIffOwned, Owns, Role
  <2> QED
    BY <2>1, <2>2, <2>3, <2>4, <2>5
<1>15. ASSUME NEW h \in Handle, Unclaim(h)
      PROVE  Exclusion'
  <2> USE <1>15 DEF Unclaim, Return, Goto, At, process, records, threads, ports, locals, history
  <2>a. idx[h] \in Slot /\ Owns(h, "creator", idx[h])
    BY DEF Owns
  <2>b. \A g \in Handle, r \in Role, i \in Slot :
          Owns(g, r, i)' <=> Owns(g, r, i) /\ ~(g = h /\ r = "creator")
    BY DEF Owns, Role
  <2>c. \A g \in Handle, r \in Role : Owns(g, r, idx[h]) => g = h /\ r = "creator"
    BY <2>a DEF SlotExclusive, Role
  <2>1. IdsUnique'
    BY DEF IdsUnique, Holds, Joining
  <2>2. IdsNamed'
    BY DEF IdsNamed, Owns, Joining, Named
  <2>3. MainAlone'
    BY DEF MainAlone, Owns, Role
  <2>4. SlotExclusive'
    BY DEF SlotExclusive, Owns, Role
  <2>5. InUseIffOwned'
    <3> SUFFICES ASSUME NEW i \in Slot \ {0}
                 PROVE  (in_use[i] = 1 <=> \E g \in Handle, r \in Role : Owns(g, r, i))'
      BY DEF InUseIffOwned
    <3>1. in_use[i] = 1 <=> \E g \in Handle, r \in Role : Owns(g, r, i)
      BY DEF InUseIffOwned
    <3>2. CASE i = idx[h]
      BY <2>a, <2>b, <2>c, <3>2
    <3>3. CASE i # idx[h]
      <4>1. \A g \in Handle, r \in Role : Owns(g, r, i)' <=> Owns(g, r, i)
        BY <2>b, <3>3 DEF Owns
      <4> QED
        BY <3>1, <3>3, <4>1
    <3> QED
      BY <3>2, <3>3
  <2> QED
    BY <2>1, <2>2, <2>3, <2>4, <2>5
<1>16. ASSUME NEW h \in Handle, WorkerStart(h)
      PROVE  Exclusion'
  <2> USE <1>16 DEF WorkerStart, Goto, At, process, records, threads, ports, locals, history
  <2>1. IdsUnique'
    BY DEF IdsUnique, Holds, Joining
  <2>2. IdsNamed'
    BY DEF IdsNamed, Owns, Joining, Named
  <2>3. MainAlone'
    BY DEF MainAlone, Owns, Role
  <2>4. SlotExclusive'
    BY DEF SlotExclusive, Owns, Role
  <2>5. InUseIffOwned'
    BY DEF InUseIffOwned, Owns, Role
  <2> QED
    BY <2>1, <2>2, <2>3, <2>4, <2>5
<1>17. ASSUME NEW h \in Handle, JoinNotFound(h)
      PROVE  Exclusion'
  <2> USE <1>17 DEF JoinNotFound, Reply, Return, Goto, At, process, records, threads, ports, locals, history
  <2>1. IdsUnique'
    BY DEF IdsUnique, Holds, Joining
  <2>2. IdsNamed'
    BY DEF IdsNamed, Owns, Joining, Named
  <2>3. MainAlone'
    BY DEF MainAlone, Owns, Role
  <2>4. SlotExclusive'
    BY DEF SlotExclusive, Owns, Role
  <2>5. InUseIffOwned'
    BY DEF InUseIffOwned, Owns, Role
  <2> QED
    BY <2>1, <2>2, <2>3, <2>4, <2>5
<1>18. ASSUME NEW h \in Handle, JoinRead(h)
      PROVE  Exclusion'
  <2> USE <1>18 DEF JoinRead, Goto, At, process, records, threads, ports, locals, history
  <2>1. IdsUnique'
    BY DEF IdsUnique, Holds, Joining
  <2>2. IdsNamed'
    BY DEF IdsNamed, Owns, Joining, Named
  <2>3. MainAlone'
    BY DEF MainAlone, Owns, Role
  <2>4. SlotExclusive'
    BY DEF SlotExclusive, Owns, Role
  <2>5. InUseIffOwned'
    BY DEF InUseIffOwned, Owns, Role
  <2> QED
    BY <2>1, <2>2, <2>3, <2>4, <2>5
<1>19. ASSUME NEW h \in Handle, JoinRefused(h)
      PROVE  Exclusion'
  <2> USE <1>19 DEF JoinRefused, Reply, Return, JoinError, Goto, At, process, records, threads, ports, locals, history
  <2>1. IdsUnique'
    <3>1. Joining(h) /\ Holds(h, idx[h]) /\ idx[h] \in Slot
      BY DEF IdsNamed, Holds, Joining
    <3>2. \A g \in Handle, i \in Slot : Holds(g, i)' <=> Holds(g, i) /\ g # h
      BY <3>1 DEF Holds, Joining
    <3> QED
      BY <3>1, <3>2 DEF IdsUnique, HistoryType
  <2>2. IdsNamed'
    BY DEF IdsNamed, Owns, Joining, Named
  <2>3. MainAlone'
    BY DEF MainAlone, Owns, Role
  <2>4. SlotExclusive'
    BY DEF SlotExclusive, Owns, Role
  <2>5. InUseIffOwned'
    BY DEF InUseIffOwned, Owns, Role
  <2> QED
    BY <2>1, <2>2, <2>3, <2>4, <2>5
<1>20. ASSUME NEW h \in Handle, JoinCrash(h)
      PROVE  Exclusion'
  <2> USE <1>20 DEF JoinCrash, Goto, At, process, records, threads, ports, locals, history
  <2>1. IdsUnique'
    BY DEF IdsUnique, Holds, Joining
  <2>2. IdsNamed'
    BY DEF IdsNamed, Owns, Joining, Named
  <2>3. MainAlone'
    BY DEF MainAlone, Owns, Role
  <2>4. SlotExclusive'
    BY DEF SlotExclusive, Owns, Role
  <2>5. InUseIffOwned'
    BY DEF InUseIffOwned, Owns, Role
  <2> QED
    BY <2>1, <2>2, <2>3, <2>4, <2>5
<1>21. ASSUME NEW h \in Handle, JoinCall(h)
      PROVE  Exclusion'
  <2> USE <1>21 DEF JoinCall, Goto, At, process, records, threads, ports, locals, history
  <2>1. IdsUnique'
    BY DEF IdsUnique, Holds, Joining
  <2>2. IdsNamed'
    BY DEF IdsNamed, Owns, Joining, Named
  <2>3. MainAlone'
    BY DEF MainAlone, Owns, Role
  <2>4. SlotExclusive'
    BY DEF SlotExclusive, Owns, Role
  <2>5. InUseIffOwned'
    BY DEF InUseIffOwned, Owns, Role
  <2> QED
    BY <2>1, <2>2, <2>3, <2>4, <2>5
<1>22. ASSUME NEW h \in Handle, JoinReturn(h)
      PROVE  Exclusion'
  <2> USE <1>22 DEF JoinReturn, Goto, At, process, records, threads, ports, locals, history
  <2> DEFINE c == jh[h]
  <2>a. /\ c \in Handle /\ c # h /\ idx[h] \in Slot /\ Joining(h)
        /\ c = thread_handle[idx[h]] /\ Owns(c, "worker", idx[h])
    BY DEF IdsNamed, Joining, Named
  <2>b. \A g \in Handle, r \in Role, i \in Slot :
          Owns(g, r, i)' <=>
            \/ Owns(g, r, i) /\ ~(g = c /\ r = "worker")
            \/ g = h /\ r = "joiner" /\ i = idx[h]
    BY <2>a DEF Owns, Role
  <2>c. \A g \in Handle, r \in Role : Owns(g, r, idx[h]) => g = c /\ r = "worker"
    BY <2>a DEF SlotExclusive, Role
  <2>d. \A g \in Handle, i \in Slot :
          /\ Joining(g)' <=> Joining(g) /\ g # h
          /\ Holds(g, i)' <=> Holds(g, i) /\ g # h
    BY <2>a DEF Holds, Joining
  <2>e. idx[h] \notin open /\ \A g \in Handle : g # h => ~Holds(g, idx[h])
    <3>1. Holds(h, idx[h])
      BY <2>a DEF Holds
    <3> QED
      BY <2>a, <3>1 DEF IdsUnique
  <2>f. \A i \in Slot : Named(i) /\ i # idx[h] => Named(i)'
    <3> SUFFICES ASSUME NEW i \in Slot, Named(i), i # idx[h] PROVE Named(i)'
      OBVIOUS
    <3>1. thread_handle[i] # c
      BY <2>a DEF Named, Owns
    <3> QED
      BY <3>1 DEF Named, Owns
  <2>1. IdsUnique'
    <3>1. \A g \in Handle, i \in open : ~Holds(g, i)'
      BY <2>d DEF IdsUnique, HistoryType
    <3>2. \A f, g \in Handle, i \in Slot : Holds(f, i)' /\ Holds(g, i)' => f = g
      BY <2>d DEF IdsUnique
    <3> QED
      BY <3>1, <3>2 DEF IdsUnique
  <2>2. IdsNamed'
    <3>1. \A i \in open' : Named(i)'
      BY <2>e, <2>f DEF IdsNamed, HistoryType
    <3>2. \A g \in Handle : Joining(g)' => idx'[g] \in Slot /\ Named(idx[g])'
      <4> SUFFICES ASSUME NEW g \in Handle, Joining(g), g # h
                   PROVE  idx'[g] \in Slot /\ Named(idx[g])'
        BY <2>d
      <4>1. idx[g] \in Slot /\ Named(idx[g]) /\ idx[g] # idx[h]
        BY <2>e DEF IdsNamed, Holds
      <4> QED
        BY <2>f, <4>1
    <3>3. \A g \in Handle : pc'[g] = "reply" => Owns(jh[g], "worker", idx[g])'
      <4> SUFFICES ASSUME NEW g \in Handle, pc'[g] = "reply"
                   PROVE  Owns(jh[g], "worker", idx[g])'
        OBVIOUS
      <4>1. /\ g # h /\ pc[g] = "reply" /\ idx[g] # idx[h] /\ jh'[g] = jh[g]
            /\ jh[g] \in Handle /\ Owns(jh[g], "worker", idx[g])
        BY <2>a, <2>e DEF IdsNamed, Holds
      <4>2. jh[g] # c
        BY <2>a, <4>1 DEF Owns
      <4> QED
        BY <2>a, <4>1, <4>2 DEF Owns
    <3>4. \A g \in Handle : pc'[g] \in {"join_call", "join_wait"} => jh'[g] = thread_handle'[idx'[g]]
      BY <2>a DEF IdsNamed
    <3>5. \A g \in Handle : pc'[g] \in {"join_read", "join_call", "join_wait"} => cmd'[g] = "JOIN"
      BY <2>a DEF IdsNamed
    <3> QED
      BY <3>1, <3>2, <3>3, <3>4, <3>5 DEF IdsNamed
  <2>3. MainAlone'
    <3>1. in_use[0] = 1
      BY DEF MainAlone
    <3>2. c # Main /\ idx[h] # 0
      BY <2>a DEF Owns, MainAlone, Role
    <3> QED
      BY <2>a, <2>b, <3>1, <3>2 DEF MainAlone
  <2>4. SlotExclusive'
    BY <2>a, <2>b, <2>c DEF SlotExclusive
  <2>5. InUseIffOwned'
    <3> SUFFICES ASSUME NEW i \in Slot \ {0}
                 PROVE  (in_use[i] = 1 <=> \E g \in Handle, r \in Role : Owns(g, r, i))'
      BY DEF InUseIffOwned
    <3>1. in_use[i] = 1 <=> \E g \in Handle, r \in Role : Owns(g, r, i)
      BY DEF InUseIffOwned
    <3>2. CASE i = idx[h]
      BY <2>a, <2>b, <3>1, <3>2 DEF Role
    <3>3. CASE i # idx[h]
      <4>1. \A g \in Handle, r \in Role : Owns(g, r, i)' <=> Owns(g, r, i)
        BY <2>a, <2>b, <3>3 DEF Owns
      <4> QED
        BY <3>1, <4>1
    <3> QED
      BY <3>2, <3>3
  <2> QED
    BY <2>1, <2>2, <2>3, <2>4, <2>5
<1>23. ASSUME NEW h \in Handle, JoinFree(h)
      PROVE  Exclusion'
  <2> USE <1>23 DEF JoinFree, Goto, At, process, records, threads, ports, locals, history
  <2>a. idx[h] \in Slot /\ Owns(h, "joiner", idx[h])
    BY DEF Owns
  <2>b. \A g \in Handle, r \in Role, i \in Slot :
          Owns(g, r, i)' <=> Owns(g, r, i) /\ ~(g = h /\ r = "joiner")
    BY DEF Owns, Role
  <2>c. \A g \in Handle, r \in Role : Owns(g, r, idx[h]) => g = h /\ r = "joiner"
    BY <2>a DEF SlotExclusive, Role
  <2>1. IdsUnique'
    BY DEF IdsUnique, Holds, Joining
  <2>2. IdsNamed'
    BY DEF IdsNamed, Owns, Joining, Named
  <2>3. MainAlone'
    BY DEF MainAlone, Owns, Role
  <2>4. SlotExclusive'
    BY DEF SlotExclusive, Owns, Role
  <2>5. InUseIffOwned'
    <3> SUFFICES ASSUME NEW i \in Slot \ {0}
                 PROVE  (in_use[i] = 1 <=> \E g \in Handle, r \in Role : Owns(g, r, i))'
      BY DEF InUseIffOwned
    <3>1. in_use[i] = 1 <=> \E g \in Handle, r \in Role : Owns(g, r, i)
      BY DEF InUseIffOwned
    <3>2. CASE i = idx[h]
      BY <2>a, <2>b, <2>c, <3>2
    <3>3. CASE i # idx[h]
      <4>1. \A g \in Handle, r \in Role : Owns(g, r, i)' <=> Owns(g, r, i)
        BY <2>b, <3>3 DEF Owns
      <4> QED
        BY <3>1, <3>3, <4>1
    <3> QED
      BY <3>2, <3>3
  <2> QED
    BY <2>1, <2>2, <2>3, <2>4, <2>5
<1>24. ASSUME NEW h \in Handle, JoinResult(h)
      PROVE  Exclusion'
  <2> USE <1>24 DEF JoinResult, Reply, Return, Goto, At, process, records, threads, ports, locals, history
  <2>1. IdsUnique'
    BY DEF IdsUnique, Holds, Joining
  <2>2. IdsNamed'
    BY DEF IdsNamed, Owns, Joining, Named
  <2>3. MainAlone'
    BY DEF MainAlone, Owns, Role
  <2>4. SlotExclusive'
    BY DEF SlotExclusive, Owns, Role
  <2>5. InUseIffOwned'
    BY DEF InUseIffOwned, Owns, Role
  <2> QED
    BY <2>1, <2>2, <2>3, <2>4, <2>5
<1>25. ASSUME NEW h \in Handle, SelfLoad(h)
      PROVE  Exclusion'
  <2> USE <1>25 DEF SelfLoad, Goto, At, process, records, threads, ports, locals, history
  <2>1. IdsUnique'
    BY DEF IdsUnique, Holds, Joining
  <2>2. IdsNamed'
    BY DEF IdsNamed, Owns, Joining, Named
  <2>3. MainAlone'
    <3>1. in_use[0] = 1
      BY DEF MainAlone
    <3> QED
      BY <3>1 DEF MainAlone, Owns, Role
  <2>4. SlotExclusive'
    BY DEF SlotExclusive, Owns, Role
  <2>5. InUseIffOwned'
    BY DEF InUseIffOwned, Owns, Role
  <2> QED
    BY <2>1, <2>2, <2>3, <2>4, <2>5
<1>26. ASSUME NEW h \in Handle, SelfFound(h)
      PROVE  Exclusion'
  <2> USE <1>26 DEF SelfFound, SelfReply, Reply, Return, Goto, At, process, records, threads, ports, locals, history
  <2>1. IdsUnique'
    BY DEF IdsUnique, Holds, Joining
  <2>2. IdsNamed'
    BY DEF IdsNamed, Owns, Joining, Named
  <2>3. MainAlone'
    BY DEF MainAlone, Owns, Role
  <2>4. SlotExclusive'
    BY DEF SlotExclusive, Owns, Role
  <2>5. InUseIffOwned'
    BY DEF InUseIffOwned, Owns, Role
  <2> QED
    BY <2>1, <2>2, <2>3, <2>4, <2>5
<1>27. ASSUME NEW h \in Handle, SelfOther(h)
      PROVE  Exclusion'
  <2> USE <1>27 DEF SelfOther, Goto, At, process, records, threads, ports, locals, history
  <2>1. IdsUnique'
    BY DEF IdsUnique, Holds, Joining
  <2>2. IdsNamed'
    BY DEF IdsNamed, Owns, Joining, Named
  <2>3. MainAlone'
    BY DEF MainAlone, Owns, Role
  <2>4. SlotExclusive'
    BY DEF SlotExclusive, Owns, Role
  <2>5. InUseIffOwned'
    BY DEF InUseIffOwned, Owns, Role
  <2> QED
    BY <2>1, <2>2, <2>3, <2>4, <2>5
<1>28. ASSUME NEW h \in Handle, SelfMissing(h)
      PROVE  Exclusion'
  <2> USE <1>28 DEF SelfMissing, SelfReply, Reply, Return, Goto, At, process, records, threads, ports, locals, history
  <2>1. IdsUnique'
    BY DEF IdsUnique, Holds, Joining
  <2>2. IdsNamed'
    BY DEF IdsNamed, Owns, Joining, Named
  <2>3. MainAlone'
    BY DEF MainAlone, Owns, Role
  <2>4. SlotExclusive'
    BY DEF SlotExclusive, Owns, Role
  <2>5. InUseIffOwned'
    BY DEF InUseIffOwned, Owns, Role
  <2> QED
    BY <2>1, <2>2, <2>3, <2>4, <2>5
<1>29. ASSUME DestroyMutexes PROVE Exclusion'
  <2> USE <1>29 DEF DestroyMutexes, Goto, At, process, records, threads, ports, locals, history
  <2>1. IdsUnique'
    BY DEF IdsUnique, Holds, Joining
  <2>2. IdsNamed'
    BY DEF IdsNamed, Owns, Joining, Named
  <2>3. MainAlone'
    BY DEF MainAlone, Owns, Role
  <2>4. SlotExclusive'
    BY DEF SlotExclusive, Owns, Role
  <2>5. InUseIffOwned'
    BY DEF InUseIffOwned, Owns, Role
  <2> QED
    BY <2>1, <2>2, <2>3, <2>4, <2>5
<1>30. ASSUME ProcessExit PROVE Exclusion'
  <2> USE <1>30 DEF ProcessExit, Goto, At, process, records, threads, ports, locals, history
  <2>1. IdsUnique'
    BY DEF IdsUnique, Holds, Joining
  <2>2. IdsNamed'
    BY DEF IdsNamed, Owns, Joining, Named
  <2>3. MainAlone'
    BY DEF MainAlone, Owns, Role
  <2>4. SlotExclusive'
    BY DEF SlotExclusive, Owns, Role
  <2>5. InUseIffOwned'
    BY DEF InUseIffOwned, Owns, Role
  <2> QED
    BY <2>1, <2>2, <2>3, <2>4, <2>5
<1>31. CASE UNCHANGED vars
  BY <1>31 DEF vars, Goto, At, process, records, threads, ports, locals, history, IdsUnique, IdsNamed, MainAlone, SlotExclusive, InUseIffOwned, Owns, Holds, Joining, Named
<1> QED
  BY <1>1, <1>2, <1>3, <1>4, <1>5, <1>6, <1>7, <1>8, <1>9, <1>10, <1>11, <1>12, <1>13, <1>14, <1>15, <1>16, <1>17, <1>18, <1>19, <1>20, <1>21, <1>22, <1>23, <1>24, <1>25, <1>26, <1>27, <1>28, <1>29, <1>30, <1>31 DEF Next, Rom, Device

\* With a ROM that joins an id once, no record ever has two owners, whoever
\* creates and joins and whenever main ends (threads.c:209 against 280, 317).
THEOREM OneOwner ==
  ASSUME JoinOnce
  PROVE  Spec => []SlotExclusive
<1> DEFINE Inv == TypeOK /\ IndexOK /\ Exclusion
<1>1. Init => Inv
  BY InitTyped, InitExclusion
<1>2. Inv /\ [Next]_vars => Inv'
  BY JoinOnce, NextTyped, NextExclusion
<1>3. Inv => SlotExclusive
  BY DEF Exclusion
<1> HIDE DEF Inv
<1> QED
  BY <1>1, <1>2, <1>3, PTL DEF Spec

\* With such a ROM a record other than main's is marked in use exactly while
\* somebody owns it: CREATE's error path and JOIN leak none and give none away
\* early (threads.c:209, 280, 317).
THEOREM NoLeak ==
  ASSUME JoinOnce
  PROVE  Spec => []InUseIffOwned
<1> DEFINE Inv == TypeOK /\ IndexOK /\ Exclusion
<1>1. Init => Inv
  BY InitTyped, InitExclusion
<1>2. Inv /\ [Next]_vars => Inv'
  BY JoinOnce, NextTyped, NextExclusion
<1>3. Inv => InUseIffOwned
  BY DEF Exclusion
<1> HIDE DEF Inv
<1> QED
  BY <1>1, <1>2, <1>3, PTL DEF Spec

-----------------------------------------------------------------------------
\* What a worker's record holds until the worker has read it.
ArgumentsKept ==
  \A h \in Handle :
    /\ pc[h] = "spawn" => arg[idx[h]] = param[h]
    /\ pc[h] = "born" => h # Main /\ arg[rec[h]] = given[h]

\* A thread that starts leaves its CREATE's arguments in its port.
StartsRight == \A h \in Handle : pc[h] = "born" /\ pc'[h] = "eval" => ret'[h] = given[h]

\* Because a record has one owner, nobody fills it while its creator is about to
\* start a thread with it or that thread has not read it.
LEMMA NextArguments ==
  ASSUME JoinOnce, TypeOK, IndexOK, Exclusion, ArgumentsKept, [Next]_vars
  PROVE  ArgumentsKept' /\ StartsRight
<1> USE DEF TypeOK, IndexOK, RecordsType, ThreadsType, PortsType, LocalsType, HistoryType,
            ArgumentsKept, StartsRight
<1>1. ASSUME NEW h \in Handle, NEW c \in Issued, NEW t \in 0 .. MAX_THREAD_COUNT,
              Deo(h, c, t)
      PROVE  ArgumentsKept' /\ StartsRight
  <2> USE <1>1 DEF Deo, Enter, First, Goto, At, process, records, threads, ports, locals, history
  <2> QED
    OBVIOUS
<1>2. ASSUME NEW h \in Handle, NEW v \in Value, WriteReturn(h, v)
      PROVE  ArgumentsKept' /\ StartsRight
  <2> USE <1>2 DEF WriteReturn, Goto, At, process, records, threads, ports, locals, history
  <2> QED
    OBVIOUS
<1>3. ASSUME NEW h \in Handle, NEW v \in Value, Fill(h, v)
      PROVE  ArgumentsKept' /\ StartsRight
  <2> USE <1>3 DEF Fill, Goto, At, process, records, threads, ports, locals, history
  <2>1. Owns(h, "creator", idx[h]) /\ idx[h] \in Slot
    BY DEF Owns
  <2>2. \A g \in Handle : pc[g] = "spawn" => idx[g] # idx[h]
    <3> SUFFICES ASSUME NEW g \in Handle, pc[g] = "spawn", idx[g] = idx[h] PROVE FALSE
      OBVIOUS
    <3>1. Owns(g, "creator", idx[h])
      BY DEF Owns
    <3> QED
      BY <2>1, <3>1 DEF Exclusion, SlotExclusive, Role
  <2>3. \A g \in Handle : pc[g] = "born" => rec[g] # idx[h]
    <3> SUFFICES ASSUME NEW g \in Handle, pc[g] = "born", rec[g] = idx[h] PROVE FALSE
      OBVIOUS
    <3>1. Owns(g, "worker", idx[h])
      BY DEF Owns
    <3> QED
      BY <2>1, <3>1 DEF Exclusion, SlotExclusive, Role
  <2> QED
    BY <2>1, <2>2, <2>3
<1>4. ASSUME NEW h \in Handle, NEW c \in Handle, Spawn(h, c)
      PROVE  ArgumentsKept' /\ StartsRight
  <2> USE <1>4 DEF Spawn, Goto, At, process, records, threads, ports, locals, history
  <2>1. c # h /\ c # Main /\ idx[h] \in Slot
    BY DEF Exclusion, MainAlone
  <2> QED
    BY <2>1
<1>5. ASSUME NEW h \in Handle, WriteTlsShared(h)
      PROVE  ArgumentsKept' /\ StartsRight
  <2> USE <1>5 DEF WriteTlsShared, Goto, At, process, records, threads, ports, locals, history
  <2> QED
    OBVIOUS
<1>6. ASSUME NEW h \in Handle, WorkerEnd(h)
      PROVE  ArgumentsKept' /\ StartsRight
  <2> USE <1>6 DEF WorkerEnd, Goto, At, process, records, threads, ports, locals, history
  <2> QED
    OBVIOUS
<1>7. ASSUME NEW h \in Handle, InitFlag(h)
      PROVE  ArgumentsKept' /\ StartsRight
  <2> USE <1>7 DEF InitFlag, Goto, At, process, records, threads, ports, locals, history
  <2> QED
    OBVIOUS
<1>8. ASSUME NEW h \in Handle, InitUse(h)
      PROVE  ArgumentsKept' /\ StartsRight
  <2> USE <1>8 DEF InitUse, NoteFull, Goto, At, process, records, threads, ports, locals, history
  <2> QED
    OBVIOUS
<1>9. ASSUME NEW h \in Handle, InitHandle(h)
      PROVE  ArgumentsKept' /\ StartsRight
  <2> USE <1>9 DEF InitHandle, Enter, First, Goto, At, process, records, threads, ports, locals, history
  <2> QED
    OBVIOUS
<1>10. ASSUME NEW h \in Handle, ScanTake(h)
      PROVE  ArgumentsKept' /\ StartsRight
  <2> USE <1>10 DEF ScanTake, NoteFull, Goto, At, process, records, threads, ports, locals, history
  <2> QED
    OBVIOUS
<1>11. ASSUME NEW h \in Handle, ScanSkip(h)
      PROVE  ArgumentsKept' /\ StartsRight
  <2> USE <1>11 DEF ScanSkip, Goto, At, process, records, threads, ports, locals, history
  <2> QED
    OBVIOUS
<1>12. ASSUME NEW h \in Handle, ScanLimit(h)
      PROVE  ArgumentsKept' /\ StartsRight
  <2> USE <1>12 DEF ScanLimit, Reply, Return, Goto, At, process, records, threads, ports, locals, history
  <2> QED
    OBVIOUS
<1>13. ASSUME NEW h \in Handle, CreateReply(h)
      PROVE  ArgumentsKept' /\ StartsRight
  <2> USE <1>13 DEF CreateReply, Reply, Return, Goto, At, process, records, threads, ports, locals, history
  <2> QED
    OBVIOUS
<1>14. ASSUME NEW h \in Handle, SpawnFail(h)
      PROVE  ArgumentsKept' /\ StartsRight
  <2> USE <1>14 DEF SpawnFail, Goto, At, process, records, threads, ports, locals, history
  <2> QED
    OBVIOUS
<1>15. ASSUME NEW h \in Handle, Unclaim(h)
      PROVE  ArgumentsKept' /\ StartsRight
  <2> USE <1>15 DEF Unclaim, Return, Goto, At, process, records, threads, ports, locals, history
  <2> QED
    OBVIOUS
<1>16. ASSUME NEW h \in Handle, WorkerStart(h)
      PROVE  ArgumentsKept' /\ StartsRight
  <2> USE <1>16 DEF WorkerStart, Goto, At, process, records, threads, ports, locals, history
  <2> QED
    OBVIOUS
<1>17. ASSUME NEW h \in Handle, JoinNotFound(h)
      PROVE  ArgumentsKept' /\ StartsRight
  <2> USE <1>17 DEF JoinNotFound, Reply, Return, Goto, At, process, records, threads, ports, locals, history
  <2> QED
    OBVIOUS
<1>18. ASSUME NEW h \in Handle, JoinRead(h)
      PROVE  ArgumentsKept' /\ StartsRight
  <2> USE <1>18 DEF JoinRead, Goto, At, process, records, threads, ports, locals, history
  <2> QED
    OBVIOUS
<1>19. ASSUME NEW h \in Handle, JoinRefused(h)
      PROVE  ArgumentsKept' /\ StartsRight
  <2> USE <1>19 DEF JoinRefused, Reply, Return, JoinError, Goto, At, process, records, threads, ports, locals, history
  <2> QED
    OBVIOUS
<1>20. ASSUME NEW h \in Handle, JoinCrash(h)
      PROVE  ArgumentsKept' /\ StartsRight
  <2> USE <1>20 DEF JoinCrash, Goto, At, process, records, threads, ports, locals, history
  <2> QED
    OBVIOUS
<1>21. ASSUME NEW h \in Handle, JoinCall(h)
      PROVE  ArgumentsKept' /\ StartsRight
  <2> USE <1>21 DEF JoinCall, Goto, At, process, records, threads, ports, locals, history
  <2> QED
    OBVIOUS
<1>22. ASSUME NEW h \in Handle, JoinReturn(h)
      PROVE  ArgumentsKept' /\ StartsRight
  <2> USE <1>22 DEF JoinReturn, Goto, At, process, records, threads, ports, locals, history
  <2>1. jh[h] \in Handle
    OBVIOUS
  <2> QED
    BY <2>1
<1>23. ASSUME NEW h \in Handle, JoinFree(h)
      PROVE  ArgumentsKept' /\ StartsRight
  <2> USE <1>23 DEF JoinFree, Goto, At, process, records, threads, ports, locals, history
  <2> QED
    OBVIOUS
<1>24. ASSUME NEW h \in Handle, JoinResult(h)
      PROVE  ArgumentsKept' /\ StartsRight
  <2> USE <1>24 DEF JoinResult, Reply, Return, Goto, At, process, records, threads, ports, locals, history
  <2> QED
    OBVIOUS
<1>25. ASSUME NEW h \in Handle, SelfLoad(h)
      PROVE  ArgumentsKept' /\ StartsRight
  <2> USE <1>25 DEF SelfLoad, Goto, At, process, records, threads, ports, locals, history
  <2>1. CASE in_use[idx[h]] = 1
    BY <2>1
  <2>2. CASE in_use[idx[h]] # 1
    BY <2>2
  <2> QED
    BY <2>1, <2>2
<1>26. ASSUME NEW h \in Handle, SelfFound(h)
      PROVE  ArgumentsKept' /\ StartsRight
  <2> USE <1>26 DEF SelfFound, SelfReply, Reply, Return, Goto, At, process, records, threads, ports, locals, history
  <2> QED
    OBVIOUS
<1>27. ASSUME NEW h \in Handle, SelfOther(h)
      PROVE  ArgumentsKept' /\ StartsRight
  <2> USE <1>27 DEF SelfOther, Goto, At, process, records, threads, ports, locals, history
  <2> QED
    OBVIOUS
<1>28. ASSUME NEW h \in Handle, SelfMissing(h)
      PROVE  ArgumentsKept' /\ StartsRight
  <2> USE <1>28 DEF SelfMissing, SelfReply, Reply, Return, Goto, At, process, records, threads, ports, locals, history
  <2> QED
    OBVIOUS
<1>29. ASSUME DestroyMutexes PROVE ArgumentsKept' /\ StartsRight
  <2> USE <1>29 DEF DestroyMutexes, Goto, At, process, records, threads, ports, locals, history
  <2> QED
    OBVIOUS
<1>30. ASSUME ProcessExit PROVE ArgumentsKept' /\ StartsRight
  <2> USE <1>30 DEF ProcessExit, Goto, At, process, records, threads, ports, locals, history
  <2> QED
    OBVIOUS
<1>31. CASE UNCHANGED vars
  BY <1>31 DEF vars, Goto, At, process, records, threads, ports, locals, history
<1> QED
  BY <1>1, <1>2, <1>3, <1>4, <1>5, <1>6, <1>7, <1>8, <1>9, <1>10, <1>11, <1>12, <1>13, <1>14, <1>15, <1>16, <1>17, <1>18, <1>19, <1>20, <1>21, <1>22, <1>23, <1>24, <1>25, <1>26, <1>27, <1>28, <1>29, <1>30, <1>31 DEF Next, Rom, Device

\* With a ROM that joins an id once, a worker starts with the arguments of the
\* CREATE that started it (threads.c:253-258, 217-229).
THEOREM OwnArguments ==
  ASSUME JoinOnce
  PROVE  Spec => WorkerGetsItsArguments
<1> DEFINE Inv == TypeOK /\ IndexOK /\ Exclusion /\ ArgumentsKept
<1>1. Init => Inv
  <2>1. Init => ArgumentsKept
    <3> SUFFICES ASSUME Init PROVE ArgumentsKept
      OBVIOUS
    <3>1. \A h \in Handle : pc[h] \in {"eval", "none"}
      BY DEF Init
    <3> QED
      BY <3>1 DEF ArgumentsKept
  <2> QED
    BY <2>1, InitTyped, InitExclusion
<1>2. Inv /\ [Next]_vars => Inv'
  BY JoinOnce, NextTyped, NextExclusion, NextArguments
<1>3. Inv /\ [Next]_vars => [StartsRight]_vars
  BY JoinOnce, NextArguments
<1> HIDE DEF Inv
<1> QED
  BY <1>1, <1>2, <1>3, PTL DEF Spec, WorkerGetsItsArguments, StartsRight

-----------------------------------------------------------------------------
(* Main's record.                                                          *)

\* Until main, at its end, calls destroy_mutexes: it is the thread that runs
\* initialize_mutexes, alone, and once it has marked record 0 no CREATE takes that
\* record and no JOIN that has its handle returns.
Initialising == ~mutex_init_done \/ pc[Main] \in {"init_use", "init_handle"}

MainPlaces ==
  /\ pc[Main] \notin {"none", "exited"}
  /\ pc[Main] = "init_flag" => ~mutex_init_done
  /\ ~mutex_init_done => pc[Main] \in {"eval", "init_flag"}
  /\ Initialising => \A h \in Handle \ {Main} : pc[h] = "none"
  /\ \A h \in Handle \ {Main} : pc[h] \notin {"init_flag", "init_use", "init_handle"}

MainMarked ==
  /\ pc[Main] = "init_handle" => in_use[0] = 1
  /\ ~Initialising => in_use[0] = 1 /\ thread_handle[0] = Main

NobodyTakesMains ==
  \A h \in Handle :
    /\ pc[h] \in {"fill", "spawn", "reply", "unclaim", "join_free"} => idx[h] # 0
    /\ pc[h] \in {"join_call", "join_wait"} /\ idx[h] = 0 => jh[h] = Main

MainInv == pc[Main] # "exiting" => MainPlaces /\ MainMarked /\ NobodyTakesMains

\* Main is alone when it starts.
LEMMA InitMain == Init => MainInv
<1> SUFFICES ASSUME Init PROVE MainInv
  OBVIOUS
<1>0. pc = [h \in Handle |-> IF h = Main THEN "eval" ELSE "none"]
  BY DEF Init
<1>1. pc[Main] = "eval" /\ \A h \in Handle : pc[h] \in {"eval", "none"}
  BY <1>0
<1>2. \A h \in Handle \ {Main} : pc[h] = "none"
  BY <1>0
<1>3. ~mutex_init_done
  BY DEF Init
<1> QED
  BY <1>1, <1>2, <1>3 DEF MainInv, MainPlaces, MainMarked, NobodyTakesMains, Initialising

\* Every step of any ROM keeps it.
LEMMA NextMain ==
  ASSUME TypeOK, IndexOK, MainInv, [Next]_vars
  PROVE  MainInv'
<1> USE DEF TypeOK, RecordsType, ThreadsType, LocalsType, MainInv, MainPlaces, MainMarked,
            NobodyTakesMains, Initialising
<1>1. ASSUME NEW h \in Handle, NEW c \in Issued, NEW t \in 0 .. MAX_THREAD_COUNT, Deo(h, c, t)
      PROVE  MainInv'
  BY <1>1 DEF Deo, Enter, First, Goto, At, process, records, threads, ports, locals, history
<1>2. ASSUME NEW h \in Handle, NEW v \in Value, WriteReturn(h, v)
      PROVE  MainInv'
  BY <1>2 DEF WriteReturn, Goto, At, process, records, threads, ports, locals, history
<1>3. ASSUME NEW h \in Handle, NEW v \in Value, Fill(h, v)
      PROVE  MainInv'
  BY <1>3 DEF Fill, Goto, At, process, records, threads, ports, locals, history
<1>4. ASSUME NEW h \in Handle, NEW c \in Handle, Spawn(h, c)
      PROVE  MainInv'
  BY <1>4 DEF Spawn, Goto, At, process, records, threads, ports, locals, history
<1>5. ASSUME NEW h \in Handle, WriteTlsShared(h)
      PROVE  MainInv'
  BY <1>5 DEF WriteTlsShared, Goto, At, process, records, threads, ports, locals, history
<1>6. ASSUME NEW h \in Handle, WorkerEnd(h)
      PROVE  MainInv'
  BY <1>6 DEF WorkerEnd, Goto, At, process, records, threads, ports, locals, history
<1>7. ASSUME NEW h \in Handle, InitFlag(h)
      PROVE  MainInv'
  BY <1>7 DEF InitFlag, Goto, At, process, records, threads, ports, locals, history
<1>8. ASSUME NEW h \in Handle, InitUse(h)
      PROVE  MainInv'
  BY <1>8 DEF InitUse, NoteFull, Goto, At, process, records, threads, ports, locals, history
<1>9. ASSUME NEW h \in Handle, InitHandle(h)
      PROVE  MainInv'
  BY <1>9 DEF InitHandle, Enter, First, Goto, At, process, records, threads, ports, locals, history
<1>10. ASSUME NEW h \in Handle, ScanTake(h)
      PROVE  MainInv'
  BY <1>10 DEF ScanTake, NoteFull, Goto, At, process, records, threads, ports, locals, history
<1>11. ASSUME NEW h \in Handle, ScanSkip(h)
      PROVE  MainInv'
  BY <1>11 DEF ScanSkip, Goto, At, process, records, threads, ports, locals, history
<1>12. ASSUME NEW h \in Handle, ScanLimit(h)
      PROVE  MainInv'
  BY <1>12 DEF ScanLimit, Reply, Return, Goto, At, process, records, threads, ports, locals, history
<1>13. ASSUME NEW h \in Handle, CreateReply(h)
      PROVE  MainInv'
  BY <1>13 DEF CreateReply, Reply, Return, Goto, At, process, records, threads, ports, locals, history
<1>14. ASSUME NEW h \in Handle, SpawnFail(h)
      PROVE  MainInv'
  BY <1>14 DEF SpawnFail, Goto, At, process, records, threads, ports, locals, history
<1>15. ASSUME NEW h \in Handle, Unclaim(h)
      PROVE  MainInv'
  BY <1>15 DEF Unclaim, Return, Goto, At, process, records, threads, ports, locals, history
<1>16. ASSUME NEW h \in Handle, WorkerStart(h)
      PROVE  MainInv'
  BY <1>16 DEF WorkerStart, Goto, At, process, records, threads, ports, locals, history
<1>17. ASSUME NEW h \in Handle, JoinNotFound(h)
      PROVE  MainInv'
  BY <1>17 DEF JoinNotFound, Reply, Return, Goto, At, process, records, threads, ports, locals, history
<1>18. ASSUME NEW h \in Handle, JoinRead(h)
      PROVE  MainInv'
  BY <1>18 DEF JoinRead, Goto, At, process, records, threads, ports, locals, history
<1>19. ASSUME NEW h \in Handle, JoinRefused(h)
      PROVE  MainInv'
  BY <1>19 DEF JoinRefused, Reply, Return, JoinError, Goto, At, process, records, threads, ports, locals, history
<1>20. ASSUME NEW h \in Handle, JoinCrash(h)
      PROVE  MainInv'
  BY <1>20 DEF JoinCrash, Goto, At, process, records, threads, ports, locals, history
<1>21. ASSUME NEW h \in Handle, JoinCall(h)
      PROVE  MainInv'
  BY <1>21 DEF JoinCall, Goto, At, process, records, threads, ports, locals, history
<1>22. ASSUME NEW h \in Handle, JoinReturn(h)
      PROVE  MainInv'
  BY <1>22 DEF JoinReturn, Goto, At, process, records, threads, ports, locals, history
<1>23. ASSUME NEW h \in Handle, JoinFree(h)
      PROVE  MainInv'
  BY <1>23 DEF JoinFree, Goto, At, process, records, threads, ports, locals, history
<1>24. ASSUME NEW h \in Handle, JoinResult(h)
      PROVE  MainInv'
  BY <1>24 DEF JoinResult, Reply, Return, Goto, At, process, records, threads, ports, locals, history
<1>25. ASSUME NEW h \in Handle, SelfLoad(h)
      PROVE  MainInv'
  BY <1>25 DEF SelfLoad, Goto, At, process, records, threads, ports, locals, history
<1>26. ASSUME NEW h \in Handle, SelfFound(h)
      PROVE  MainInv'
  BY <1>26 DEF SelfFound, SelfReply, Reply, Return, Goto, At, process, records, threads, ports, locals, history
<1>27. ASSUME NEW h \in Handle, SelfOther(h)
      PROVE  MainInv'
  BY <1>27 DEF SelfOther, Goto, At, process, records, threads, ports, locals, history
<1>28. ASSUME NEW h \in Handle, SelfMissing(h)
      PROVE  MainInv'
  BY <1>28 DEF SelfMissing, SelfReply, Reply, Return, Goto, At, process, records, threads, ports, locals, history
<1>29. ASSUME DestroyMutexes
      PROVE  MainInv'
  BY <1>29 DEF DestroyMutexes, Goto, At, process, records, threads, ports, locals, history
<1>30. ASSUME ProcessExit
      PROVE  MainInv'
  BY <1>30 DEF ProcessExit, Goto, At, process, records, threads, ports, locals, history
<1>31. CASE UNCHANGED vars
  BY <1>31 DEF vars, process, records, threads, ports, locals, history
<1> QED
  BY <1>1, <1>2, <1>3, <1>4, <1>5, <1>6, <1>7, <1>8, <1>9, <1>10, <1>11, <1>12, <1>13, <1>14, <1>15, <1>16, <1>17, <1>18, <1>19, <1>20, <1>21, <1>22, <1>23, <1>24, <1>25, <1>26, <1>27, <1>28, <1>29, <1>30, <1>31 DEF Next, Rom, Device

\* Once main has made its first call record 0 is main's until main ends, whatever
\* the ROM creates and joins, in whichever threads and however often, and whenever
\* the C library stores a new thread's handle (threads.c:182).
THEOREM MainKeepsItsRecord == Spec => []MainRecord
<1> DEFINE Inv == TypeOK /\ IndexOK /\ MainInv
<1>1. Init => Inv
  BY InitTyped, InitMain
<1>2. Inv /\ [Next]_vars => Inv'
  BY NextTyped, NextMain
<1>3. Inv => MainRecord
  BY DEF MainInv, MainMarked, MainRecord, Initialising
<1> HIDE DEF Inv
<1> QED
  BY <1>1, <1>2, <1>3, PTL DEF Spec

-----------------------------------------------------------------------------
(* One manager: only main creates and joins.                               *)

\* The places of a thread that serves CREATE or JOIN.
Managing == {"scan", "fill", "spawn", "reply", "unclaim", "join_read", "join_call",
             "join_wait", "join_free", "join_result"}

\* The workers serve neither.
OneManager ==
  \A h \in Handle \ {Main} : pc[h] \notin Managing /\ cmd[h] \notin {"CREATE", "JOIN"}

\* A scan for a free record starts at record 0, and has met none free so far.
ScanSoFar ==
  /\ pc[Main] \in {"init_flag", "init_use", "init_handle"} /\ cmd[Main] = "CREATE" => idx[Main] = 0
  /\ pc[Main] \in {"scan", "fill", "spawn"} => \A i \in Slot : i < idx[Main] => in_use[i] = 1
  /\ pc[Main] = "scan" /\ Full(in_use) => sawFull[Main]

\* A thread's outcome is in its record when it has ended, and stays there until
\* the JOIN that waited for it has answered it.
OutcomeKept ==
  /\ \A h \in Handle \ {Main} : pc[h] = "exited" => result_value[rec[h]] = outcome[h]
  /\ pc[Main] \in {"join_free", "join_result"} => result_value[idx[Main]] = expect[Main]
  /\ pc[Main] = "join_result" => idx[Main] # 0 /\ in_use[idx[Main]] = 0

Managed == OneManager /\ ScanSoFar /\ OutcomeKept

\* What main's steps answer.
Answered ==
  \A h \in Handle :
    /\ OutcomeAnswered(h)
    /\ pc[h] = "scan" /\ pc'[h] = "eval" => sawFull[h]

\* Initially nobody has been called.
LEMMA InitManaged == Init => Managed
<1> SUFFICES ASSUME Init PROVE Managed
  OBVIOUS
<1>0. pc = [h \in Handle |-> IF h = Main THEN "eval" ELSE "none"]
  BY DEF Init
<1>1. pc[Main] = "eval" /\ \A h \in Handle : pc[h] \in {"eval", "none"}
  BY <1>0
<1>2. \A h \in Handle : cmd[h] = "SELF"
  <2>1. cmd = [h \in Handle |-> "SELF"]
    BY DEF Init
  <2> QED
    BY <2>1
<1>3. \A h \in Handle \ {Main} : pc[h] = "none"
  BY <1>0
<1> QED
  BY <1>1, <1>2, <1>3 DEF Managed, OneManager, ScanSoFar, OutcomeKept, Managing

\* Every step keeps what main, alone, relies on, and main's answers are right.
LEMMA NextManaged ==
  ASSUME JoinOnce, Creators \subseteq {Main}, Joiners \subseteq {Main},
         TypeOK, IndexOK, Exclusion, Managed, [Next]_vars
  PROVE  Managed' /\ Answered
<1> USE DEF TypeOK, IndexOK, RecordsType, ThreadsType, PortsType, LocalsType, HistoryType,
            Managed, OneManager, Managing, ScanSoFar, OutcomeKept, Answered, OutcomeAnswered, Full
<1>1. ASSUME NEW h \in Handle, NEW c \in Issued, NEW t \in 0 .. MAX_THREAD_COUNT, Deo(h, c, t)
      PROVE  Managed' /\ Answered
  BY <1>1 DEF Deo, Enter, First, Goto, At, process, records, threads, ports, locals, history
<1>2. ASSUME NEW h \in Handle, NEW v \in Value, WriteReturn(h, v)
      PROVE  Managed' /\ Answered
  BY <1>2 DEF WriteReturn, Goto, At, process, records, threads, ports, locals, history
<1>3. ASSUME NEW h \in Handle, NEW v \in Value, Fill(h, v)
      PROVE  Managed' /\ Answered
  <2> USE <1>3 DEF Fill, Goto, At, process, records, threads, ports, locals, history
  <2>1. \A g \in Handle \ {Main} : pc[g] = "exited" => rec[g] # idx[h]
    <3> SUFFICES ASSUME NEW g \in Handle \ {Main}, pc[g] = "exited", rec[g] = idx[h] PROVE FALSE
      OBVIOUS
    <3>1. Owns(g, "worker", idx[h]) /\ Owns(h, "creator", idx[h]) /\ idx[h] \in Slot
      BY DEF Owns
    <3> QED
      BY <3>1 DEF Exclusion, SlotExclusive, Role
  <2>2. h = Main
    OBVIOUS
  <2> QED
    BY <2>1, <2>2
<1>4. ASSUME NEW h \in Handle, NEW c \in Handle, Spawn(h, c)
      PROVE  Managed' /\ Answered
  BY <1>4 DEF Spawn, Goto, At, process, records, threads, ports, locals, history
<1>5. ASSUME NEW h \in Handle, WriteTlsShared(h)
      PROVE  Managed' /\ Answered
  BY <1>5 DEF WriteTlsShared, Goto, At, process, records, threads, ports, locals, history
<1>6. ASSUME NEW h \in Handle, WorkerEnd(h)
      PROVE  Managed' /\ Answered
  <2> USE <1>6 DEF WorkerEnd, Goto, At, process, records, threads, ports, locals, history
  <2>1. Owns(h, "worker", rec[h]) /\ rec[h] \in Slot
    BY DEF Owns
  <2>2. \A g \in Handle \ {Main, h} : pc[g] = "exited" => rec[g] # rec[h]
    <3> SUFFICES ASSUME NEW g \in Handle \ {Main, h}, pc[g] = "exited", rec[g] = rec[h] PROVE FALSE
      OBVIOUS
    <3>1. Owns(g, "worker", rec[h])
      BY DEF Owns
    <3> QED
      BY <2>1, <3>1 DEF Exclusion, SlotExclusive, Role
  <2>3. pc[Main] = "join_free" => idx[Main] # rec[h]
    <3> SUFFICES ASSUME pc[Main] = "join_free", idx[Main] = rec[h] PROVE FALSE
      OBVIOUS
    <3>1. Owns(Main, "joiner", rec[h])
      BY DEF Owns
    <3> QED
      BY <2>1, <3>1 DEF Exclusion, SlotExclusive, Role
  <2>4. pc[Main] = "join_result" => idx[Main] # rec[h]
    <3>1. rec[h] # 0 => in_use[rec[h]] = 1
      BY <2>1 DEF Exclusion, InUseIffOwned, Role
    <3> QED
      BY <3>1
  <2> QED
    BY <2>1, <2>2, <2>3, <2>4
<1>7. ASSUME NEW h \in Handle, InitFlag(h)
      PROVE  Managed' /\ Answered
  BY <1>7 DEF InitFlag, Goto, At, process, records, threads, ports, locals, history
<1>8. ASSUME NEW h \in Handle, InitUse(h)
      PROVE  Managed' /\ Answered
  BY <1>8 DEF InitUse, NoteFull, Goto, At, process, records, threads, ports, locals, history
<1>9. ASSUME NEW h \in Handle, InitHandle(h)
      PROVE  Managed' /\ Answered
  <2> USE <1>9 DEF InitHandle, Enter, First, Goto, At, process, records, threads, ports, locals, history
  <2>1. OneManager'
    OBVIOUS
  <2>2. ScanSoFar'
    <3>1. CASE h = Main
      <4>1. \A i \in Slot : ~(i < 0)
        BY DEF Slot
      <4>2. pc'[Main] = "scan" => cmd[Main] = "CREATE" /\ idx[Main] = 0
        BY <3>1
      <4>3. pc'[Main] = First(cmd[Main]) /\ pc'[Main] \in {"scan", "join_read", "self_use"}
        BY <3>1
      <4>4. pc'[Main] = "scan" => sawFull'[Main] = Full(in_use)
        BY <3>1, <4>2
      <4>5. \A i \in Slot : pc'[Main] \in {"scan", "fill", "spawn"} /\ i < idx[Main] => FALSE
        BY <4>1, <4>2, <4>3
      <4> QED
        BY <3>1, <4>3, <4>4, <4>5
    <3>2. CASE h # Main
      BY <3>2
    <3> QED
      BY <3>1, <3>2
  <2>3. OutcomeKept' /\ Answered
    OBVIOUS
  <2> QED
    BY <2>1, <2>2, <2>3
<1>10. ASSUME NEW h \in Handle, ScanTake(h)
      PROVE  Managed' /\ Answered
  BY <1>10 DEF ScanTake, NoteFull, Goto, At, process, records, threads, ports, locals, history
<1>11. ASSUME NEW h \in Handle, ScanSkip(h)
      PROVE  Managed' /\ Answered
  <2> USE <1>11 DEF ScanSkip, Goto, At, process, records, threads, ports, locals, history
  <2>1. h = Main /\ \A i \in Slot : i < idx[h] + 1 => i < idx[h] \/ i = idx[h]
    BY DEF Slot
  <2> QED
    BY <2>1
<1>12. ASSUME NEW h \in Handle, ScanLimit(h)
      PROVE  Managed' /\ Answered
  BY <1>12 DEF ScanLimit, Reply, Return, Goto, At, process, records, threads, ports, locals, history
<1>13. ASSUME NEW h \in Handle, CreateReply(h)
      PROVE  Managed' /\ Answered
  BY <1>13 DEF CreateReply, Reply, Return, Goto, At, process, records, threads, ports, locals, history
<1>14. ASSUME NEW h \in Handle, SpawnFail(h)
      PROVE  Managed' /\ Answered
  BY <1>14 DEF SpawnFail, Goto, At, process, records, threads, ports, locals, history
<1>15. ASSUME NEW h \in Handle, Unclaim(h)
      PROVE  Managed' /\ Answered
  BY <1>15 DEF Unclaim, Return, Goto, At, process, records, threads, ports, locals, history
<1>16. ASSUME NEW h \in Handle, WorkerStart(h)
      PROVE  Managed' /\ Answered
  BY <1>16 DEF WorkerStart, Goto, At, process, records, threads, ports, locals, history
<1>17. ASSUME NEW h \in Handle, JoinNotFound(h)
      PROVE  Managed' /\ Answered
  BY <1>17 DEF JoinNotFound, Reply, Return, Goto, At, process, records, threads, ports, locals, history
<1>18. ASSUME NEW h \in Handle, JoinRead(h)
      PROVE  Managed' /\ Answered
  BY <1>18 DEF JoinRead, Goto, At, process, records, threads, ports, locals, history
<1>19. ASSUME NEW h \in Handle, JoinRefused(h)
      PROVE  Managed' /\ Answered
  BY <1>19 DEF JoinRefused, Reply, Return, JoinError, Goto, At, process, records, threads, ports, locals, history
<1>20. ASSUME NEW h \in Handle, JoinCrash(h)
      PROVE  Managed' /\ Answered
  BY <1>20 DEF JoinCrash, Goto, At, process, records, threads, ports, locals, history
<1>21. ASSUME NEW h \in Handle, JoinCall(h)
      PROVE  Managed' /\ Answered
  BY <1>21 DEF JoinCall, Goto, At, process, records, threads, ports, locals, history
<1>22. ASSUME NEW h \in Handle, JoinReturn(h)
      PROVE  Managed' /\ Answered
  <2> USE <1>22 DEF JoinReturn, Goto, At, process, records, threads, ports, locals, history
  <2>1. h = Main /\ cmd[h] = "JOIN" /\ Joining(h)
    BY DEF Exclusion, IdsNamed, Joining
  <2>2. Owns(jh[h], "worker", idx[h])
    BY <2>1 DEF Exclusion, IdsNamed, Named
  <2>3. jh[h] \in Handle \ {Main} /\ rec[jh[h]] = idx[h] /\ idx[h] \in Slot
    BY <2>2 DEF Owns
  <2>4. outcome[jh[h]] = result_value[idx[h]]
    BY <2>3
  <2>5. OneManager' /\ ScanSoFar' /\ Answered
    BY <2>1, <2>3
  <2>6. OutcomeKept'
    BY <2>1, <2>3, <2>4
  <2> QED
    BY <2>5, <2>6
<1>23. ASSUME NEW h \in Handle, JoinFree(h)
      PROVE  Managed' /\ Answered
  <2> USE <1>23 DEF JoinFree, Goto, At, process, records, threads, ports, locals, history
  <2>1. h = Main /\ Owns(h, "joiner", idx[h]) /\ idx[h] \in Slot
    BY DEF Owns
  <2>2. idx[h] # 0
    BY <2>1 DEF Exclusion, MainAlone, Role
  <2> QED
    BY <2>1, <2>2
<1>24. ASSUME NEW h \in Handle, JoinResult(h)
      PROVE  Managed' /\ Answered
  BY <1>24 DEF JoinResult, Reply, Return, Goto, At, process, records, threads, ports, locals, history
<1>25. ASSUME NEW h \in Handle, SelfLoad(h)
      PROVE  Managed' /\ Answered
  BY <1>25 DEF SelfLoad, Goto, At, process, records, threads, ports, locals, history
<1>26. ASSUME NEW h \in Handle, SelfFound(h)
      PROVE  Managed' /\ Answered
  BY <1>26 DEF SelfFound, SelfReply, Reply, Return, Goto, At, process, records, threads, ports, locals, history
<1>27. ASSUME NEW h \in Handle, SelfOther(h)
      PROVE  Managed' /\ Answered
  BY <1>27 DEF SelfOther, Goto, At, process, records, threads, ports, locals, history
<1>28. ASSUME NEW h \in Handle, SelfMissing(h)
      PROVE  Managed' /\ Answered
  BY <1>28 DEF SelfMissing, SelfReply, Reply, Return, Goto, At, process, records, threads, ports, locals, history
<1>29. ASSUME DestroyMutexes
      PROVE  Managed' /\ Answered
  BY <1>29 DEF DestroyMutexes, Goto, At, process, records, threads, ports, locals, history
<1>30. ASSUME ProcessExit
      PROVE  Managed' /\ Answered
  BY <1>30 DEF ProcessExit, Goto, At, process, records, threads, ports, locals, history
<1>31. CASE UNCHANGED vars
  BY <1>31 DEF vars, process, records, threads, ports, locals, history
<1> QED
  BY <1>1, <1>2, <1>3, <1>4, <1>5, <1>6, <1>7, <1>8, <1>9, <1>10, <1>11, <1>12, <1>13, <1>14, <1>15, <1>16, <1>17, <1>18, <1>19, <1>20, <1>21, <1>22, <1>23, <1>24, <1>25, <1>26, <1>27, <1>28, <1>29, <1>30, <1>31 DEF Next, Rom, Device

\* With a ROM that creates and joins in main only and joins an id once, main's
\* answers are right: a JOIN that succeeds answers the word the thread ended with,
\* and CREATE answers ThreadLimitReached only when all records were in use
\* (threads.c:209-215, 280-323).
THEOREM OneManagerIsAnswered ==
  ASSUME JoinOnce, Creators \subseteq {Main}, Joiners \subseteq {Main}
  PROVE  Spec => ManagerIsAnswered
<1> DEFINE Inv == TypeOK /\ IndexOK /\ Exclusion /\ Managed
<1>1. Init => Inv
  BY InitTyped, InitExclusion, InitManaged
<1>2. Inv /\ [Next]_vars => Inv'
  BY JoinOnce, NextTyped, NextExclusion, NextManaged
<1>3. Inv /\ [Next]_vars => [Answered]_vars
  BY JoinOnce, NextManaged
<1> HIDE DEF Inv
<1> QED
  BY <1>1, <1>2, <1>3, PTL DEF Spec, ManagerIsAnswered, Answered

\* The record a worker was started with has its handle, and no record before it
\* has, be it only left there by a thread that was joined.
Registered ==
  /\ rec[Main] = 0
  /\ \A h \in Handle \ {Main} : pc[h] # "none" =>
       /\ thread_handle[rec[h]] = h
       /\ \A i \in Slot : i < rec[h] => thread_handle[i] # h

\* So the search of SELF has not passed the caller's own record.
SearchSoFar ==
  \A h \in Handle :
    /\ pc[h] \in {"self_use", "self_cmp"} => idx[h] <= rec[h]
    /\ pc[h] \in {"init_flag", "init_use", "init_handle"} /\ cmd[h] \in {"SELF", "TLS"} => idx[h] = 0
    /\ pc[h] \in {"self_use", "self_cmp"} => cmd[h] \in {"SELF", "TLS"}

\* What SELF and the local-storage port answer.
SelfRight ==
  \A h \in Handle : pc[h] \in {"self_use", "self_cmp"} /\ pc'[h] = "eval"
       => IF cmd[h] = "TLS" THEN tls'[h] = rec[h]
          ELSE ret'[h] = rec[h] /\ err'[h] = "OK"

\* Main does not call destroy_mutexes before the process ends.
MainStays == pc[Main] # "exiting"

RecordsFound == MainStays /\ Registered /\ SearchSoFar

\* Initially there are no workers.
LEMMA InitRegistered == Init => RecordsFound
<1> SUFFICES ASSUME Init PROVE RecordsFound
  OBVIOUS
<1>0. pc = [h \in Handle |-> IF h = Main THEN "eval" ELSE "none"]
  BY DEF Init
<1>1. pc[Main] = "eval" /\ \A h \in Handle : pc[h] \in {"eval", "none"}
  BY <1>0
<1>2. rec[Main] = 0 /\ \A h \in Handle \ {Main} : pc[h] = "none"
  BY <1>0 DEF Init
<1> QED
  BY <1>1, <1>2 DEF RecordsFound, MainStays, Registered, SearchSoFar

\* A live worker's record is not record 0, and it is marked.
LEMMA LiveWorker ==
  ASSUME TypeOK, Exclusion, NEW h \in Handle \ {Main}, pc[h] # "none"
  PROVE  /\ Owns(h, "worker", rec[h])
         /\ rec[h] \in Slot \ {0}
         /\ in_use[rec[h]] = 1
<1>1. Owns(h, "worker", rec[h]) /\ rec[h] \in Slot
  BY DEF Owns, TypeOK, ThreadsType
<1>2. rec[h] # 0
  BY <1>1 DEF Exclusion, MainAlone, Role
<1> QED
  BY <1>1, <1>2 DEF Exclusion, InUseIffOwned, Role

\* The record of a thread in the search of SELF is the first that has its handle.
LEMMA OwnRecord ==
  ASSUME TypeOK, Exclusion, MainInv, RecordsFound,
         NEW h \in Handle, pc[h] \in {"self_use", "self_cmp"}
  PROVE  /\ rec[h] \in Slot /\ in_use[rec[h]] = 1 /\ thread_handle[rec[h]] = h
         /\ \A i \in Slot : i < rec[h] => thread_handle[i] # h
<1>1. CASE h = Main
  <2>1. in_use[0] = 1 /\ thread_handle[0] = Main
    BY <1>1 DEF RecordsFound, MainStays, MainInv, MainPlaces, MainMarked, Initialising
  <2>2. rec[h] = 0
    BY <1>1 DEF RecordsFound, Registered
  <2>3. \A i \in Slot : ~(i < 0)
    BY DEF Slot
  <2> QED
    BY <1>1, <2>1, <2>2, <2>3
<1>2. CASE h # Main
  <2>1. h \in Handle \ {Main} /\ pc[h] # "none"
    BY <1>2
  <2>2. rec[h] \in Slot /\ in_use[rec[h]] = 1
    BY ONLY <2>1, LiveWorker, TypeOK, Exclusion, Zenon
  <2> QED
    BY <2>1, <2>2 DEF RecordsFound, Registered
<1> QED
  BY <1>1, <1>2

\* Every step keeps it, and SELF answers the caller's own record.
LEMMA NextRegistered ==
  ASSUME JoinOnce, Creators \subseteq {Main}, Joiners \subseteq {Main},
         HandleStoredFirst, ~CallsDestroy,
         TypeOK, IndexOK, Exclusion, MainInv, Managed, RecordsFound, [Next]_vars
  PROVE  RecordsFound' /\ SelfRight
<1> USE DEF TypeOK, IndexOK, RecordsType, ThreadsType, PortsType, LocalsType,
            RecordsFound, MainStays, Registered, SearchSoFar, SelfRight
<1>1. ASSUME NEW h \in Handle, NEW c \in Issued, NEW t \in 0 .. MAX_THREAD_COUNT, Deo(h, c, t)
      PROVE  RecordsFound' /\ SelfRight
  <2> USE <1>1 DEF Deo, Enter, First, Goto, At, process, records, threads, ports, locals, history
  <2>1. \A g \in Handle : 0 <= rec[g]
    BY DEF Slot
  <2>2. c # "JOIN" => t = 0
    OBVIOUS
  <2>3. MainStays' /\ Registered' /\ SelfRight
    OBVIOUS
  <2>4. SearchSoFar'
    BY <2>1, <2>2 DEF Command
  <2> QED
    BY <2>3, <2>4
<1>2. ASSUME NEW h \in Handle, NEW v \in Value, WriteReturn(h, v)
      PROVE  RecordsFound' /\ SelfRight
  BY <1>2 DEF WriteReturn, Goto, At, process, records, threads, ports, locals, history
<1>3. ASSUME NEW h \in Handle, NEW v \in Value, Fill(h, v)
      PROVE  RecordsFound' /\ SelfRight
  BY <1>3 DEF Fill, Goto, At, process, records, threads, ports, locals, history
<1>4. ASSUME NEW h \in Handle, NEW c \in Handle, Spawn(h, c)
      PROVE  RecordsFound' /\ SelfRight
  <2> USE <1>4 DEF Spawn, Goto, At, process, records, threads, ports, locals, history
  <2>1. h = Main /\ c # Main /\ idx[h] \in Slot /\ thread_handle' = [thread_handle EXCEPT ![idx[h]] = c]
    BY DEF Managed, OneManager, Managing
  <2>2. \A g \in Handle \ {Main} : pc[g] # "none" => rec[g] # idx[h]
    <3> SUFFICES ASSUME NEW g \in Handle \ {Main}, pc[g] # "none", rec[g] = idx[h] PROVE FALSE
      OBVIOUS
    <3>1. Owns(g, "worker", idx[h]) /\ Owns(h, "creator", idx[h])
      BY DEF Owns
    <3> QED
      BY <2>1, <3>1 DEF Exclusion, SlotExclusive, Role
  <2>3. \A i \in Slot : i < idx[h] => thread_handle[i] # c
    <3> SUFFICES ASSUME NEW i \in Slot, i < idx[h] PROVE thread_handle[i] # c
      OBVIOUS
    <3>1. CASE i = 0
      BY <2>1, <3>1 DEF MainInv, MainPlaces, MainMarked, Initialising
    <3>2. CASE i # 0
      <4>1. in_use[i] = 1 /\ i # idx[h]
        BY <2>1 DEF Managed, ScanSoFar, Slot
      <4>2. PICK g \in Handle, r \in Role : Owns(g, r, i)
        BY <3>2, <4>1 DEF Exclusion, InUseIffOwned
      <4>3. r = "worker"
        BY <2>1, <4>1, <4>2 DEF Owns, Role, Managed, OneManager, Managing
      <4> QED
        BY <4>2, <4>3 DEF Owns
    <3> QED
      BY <3>1, <3>2
  <2>4. Registered'
    <3>1. rec'[Main] = 0
      BY <2>1
    <3> SUFFICES ASSUME NEW g \in Handle \ {Main}, pc'[g] # "none"
                 PROVE  /\ thread_handle'[rec'[g]] = g
                        /\ \A i \in Slot : i < rec'[g] => thread_handle'[i] # g
      BY <3>1
    <3>2. CASE g = c
      <4>1. rec'[g] = idx[h] /\ thread_handle'[idx[h]] = c
        BY <2>1, <3>2
      <4>2. \A i \in Slot : i < idx[h] => thread_handle'[i] # c
        BY <2>1, <2>3 DEF Slot
      <4> QED
        BY <3>2, <4>1, <4>2
    <3>3. CASE g # c
      <4>1. pc[g] # "none" /\ rec'[g] = rec[g] /\ rec[g] # idx[h]
        BY <2>1, <2>2, <3>3
      <4> QED
        BY <2>1, <3>3, <4>1
    <3> QED
      BY <3>2, <3>3
  <2>5. MainStays' /\ SearchSoFar' /\ SelfRight
    BY <2>1
  <2> QED
    BY <2>4, <2>5
<1>5. ASSUME NEW h \in Handle, WriteTlsShared(h)
      PROVE  RecordsFound' /\ SelfRight
  BY <1>5 DEF WriteTlsShared, Goto, At, process, records, threads, ports, locals, history
<1>6. ASSUME NEW h \in Handle, WorkerEnd(h)
      PROVE  RecordsFound' /\ SelfRight
  BY <1>6 DEF WorkerEnd, Goto, At, process, records, threads, ports, locals, history
<1>7. ASSUME NEW h \in Handle, InitFlag(h)
      PROVE  RecordsFound' /\ SelfRight
  BY <1>7 DEF InitFlag, Goto, At, process, records, threads, ports, locals, history
<1>8. ASSUME NEW h \in Handle, InitUse(h)
      PROVE  RecordsFound' /\ SelfRight
  BY <1>8 DEF InitUse, NoteFull, Goto, At, process, records, threads, ports, locals, history
<1>9. ASSUME NEW h \in Handle, InitHandle(h)
      PROVE  RecordsFound' /\ SelfRight
  <2> USE <1>9 DEF InitHandle, Enter, First, Goto, At, process, records, threads, ports, locals, history
  <2>1. h = Main /\ \A g \in Handle \ {Main} : pc[g] = "none"
    BY DEF MainInv, MainPlaces, Initialising
  <2>2. 0 <= rec[Main]
    OBVIOUS
  <2>3. MainStays' /\ Registered' /\ SelfRight
    BY <2>1
  <2>4. SearchSoFar'
    <3>1. pc' = [pc EXCEPT ![Main] = First(cmd[Main])] /\ idx' = idx /\ rec' = rec /\ cmd' = cmd
      BY <2>1
    <3>2. pc'[Main] = "self_use" => cmd[Main] \in {"SELF", "TLS"}
      BY <3>1 DEF Command
    <3> QED
      BY <2>1, <2>2, <3>1, <3>2
  <2> QED
    BY <2>3, <2>4
<1>10. ASSUME NEW h \in Handle, ScanTake(h)
      PROVE  RecordsFound' /\ SelfRight
  BY <1>10 DEF ScanTake, NoteFull, Goto, At, process, records, threads, ports, locals, history
<1>11. ASSUME NEW h \in Handle, ScanSkip(h)
      PROVE  RecordsFound' /\ SelfRight
  BY <1>11 DEF ScanSkip, Goto, At, process, records, threads, ports, locals, history
<1>12. ASSUME NEW h \in Handle, ScanLimit(h)
      PROVE  RecordsFound' /\ SelfRight
  BY <1>12 DEF ScanLimit, Reply, Return, Goto, At, process, records, threads, ports, locals, history
<1>13. ASSUME NEW h \in Handle, CreateReply(h)
      PROVE  RecordsFound' /\ SelfRight
  <2> USE <1>13 DEF CreateReply, Reply, Return, Goto, At, process, records, threads, ports, locals, history
  <2>1. h = Main /\ jh[h] \in Handle /\ Owns(jh[h], "worker", idx[h])
    BY DEF Managed, OneManager, Managing, Exclusion, IdsNamed
  <2>2. thread_handle[idx[h]] = jh[h]
    BY <2>1 DEF Owns
  <2>3. thread_handle' = thread_handle
    BY <2>2
  <2> QED
    BY <2>1, <2>3
<1>14. ASSUME NEW h \in Handle, SpawnFail(h)
      PROVE  RecordsFound' /\ SelfRight
  BY <1>14 DEF SpawnFail, Goto, At, process, records, threads, ports, locals, history
<1>15. ASSUME NEW h \in Handle, Unclaim(h)
      PROVE  RecordsFound' /\ SelfRight
  BY <1>15 DEF Unclaim, Return, Goto, At, process, records, threads, ports, locals, history
<1>16. ASSUME NEW h \in Handle, WorkerStart(h)
      PROVE  RecordsFound' /\ SelfRight
  BY <1>16 DEF WorkerStart, Goto, At, process, records, threads, ports, locals, history
<1>17. ASSUME NEW h \in Handle, JoinNotFound(h)
      PROVE  RecordsFound' /\ SelfRight
  BY <1>17 DEF JoinNotFound, Reply, Return, Goto, At, process, records, threads, ports, locals, history
<1>18. ASSUME NEW h \in Handle, JoinRead(h)
      PROVE  RecordsFound' /\ SelfRight
  BY <1>18 DEF JoinRead, Goto, At, process, records, threads, ports, locals, history
<1>19. ASSUME NEW h \in Handle, JoinRefused(h)
      PROVE  RecordsFound' /\ SelfRight
  BY <1>19 DEF JoinRefused, Reply, Return, JoinError, Goto, At, process, records, threads, ports, locals, history
<1>20. ASSUME NEW h \in Handle, JoinCrash(h)
      PROVE  RecordsFound' /\ SelfRight
  BY <1>20 DEF JoinCrash, Goto, At, process, records, threads, ports, locals, history
<1>21. ASSUME NEW h \in Handle, JoinCall(h)
      PROVE  RecordsFound' /\ SelfRight
  BY <1>21 DEF JoinCall, Goto, At, process, records, threads, ports, locals, history
<1>22. ASSUME NEW h \in Handle, JoinReturn(h)
      PROVE  RecordsFound' /\ SelfRight
  BY <1>22 DEF JoinReturn, Goto, At, process, records, threads, ports, locals, history
<1>23. ASSUME NEW h \in Handle, JoinFree(h)
      PROVE  RecordsFound' /\ SelfRight
  BY <1>23 DEF JoinFree, Goto, At, process, records, threads, ports, locals, history
<1>24. ASSUME NEW h \in Handle, JoinResult(h)
      PROVE  RecordsFound' /\ SelfRight
  BY <1>24 DEF JoinResult, Reply, Return, Goto, At, process, records, threads, ports, locals, history
<1>25. ASSUME NEW h \in Handle, SelfLoad(h)
      PROVE  RecordsFound' /\ SelfRight
  <2> USE <1>25 DEF SelfLoad, Goto, At, process, records, threads, ports, locals, history
  <2>1. rec[h] \in Slot /\ in_use[rec[h]] = 1 /\ thread_handle[rec[h]] = h
    BY OwnRecord
  <2>2. idx[h] # rec[h] => idx[h] + 1 <= rec[h]
    BY <2>1 DEF Slot
  <2> QED
    BY <2>1, <2>2
<1>26. ASSUME NEW h \in Handle, SelfFound(h)
      PROVE  RecordsFound' /\ SelfRight
  <2> USE <1>26 DEF SelfFound, SelfReply, Reply, Return, Goto, At, process, records, threads, ports, locals, history
  <2>1. idx[h] = rec[h]
    BY OwnRecord DEF Slot
  <2>2. idx[h] # NoIndex
    BY DEF Slot, NoIndex
  <2> QED
    BY <2>1, <2>2
<1>27. ASSUME NEW h \in Handle, SelfOther(h)
      PROVE  RecordsFound' /\ SelfRight
  <2> USE <1>27 DEF SelfOther, Goto, At, process, records, threads, ports, locals, history
  <2>1. rec[h] \in Slot /\ in_use[rec[h]] = 1 /\ thread_handle[rec[h]] = h
    BY OwnRecord
  <2>2. idx[h] # rec[h] => idx[h] + 1 <= rec[h]
    BY <2>1 DEF Slot
  <2> QED
    BY <2>1, <2>2
<1>28. ASSUME NEW h \in Handle, SelfMissing(h)
      PROVE  RecordsFound' /\ SelfRight
  BY <1>28 DEF SelfMissing, SelfReply, Reply, Return, Goto, At, process, records, threads, ports, locals, history
<1>29. ASSUME DestroyMutexes
      PROVE  RecordsFound' /\ SelfRight
  BY <1>29 DEF DestroyMutexes, Goto, At, process, records, threads, ports, locals, history
<1>30. ASSUME ProcessExit
      PROVE  RecordsFound' /\ SelfRight
  BY <1>30 DEF ProcessExit, Goto, At, process, records, threads, ports, locals, history
<1>31. CASE UNCHANGED vars
  BY <1>31 DEF vars, process, records, threads, ports, locals, history
<1> QED
  BY <1>1, <1>2, <1>3, <1>4, <1>5, <1>6, <1>7, <1>8, <1>9, <1>10, <1>11, <1>12, <1>13, <1>14, <1>15, <1>16, <1>17, <1>18, <1>19, <1>20, <1>21, <1>22, <1>23, <1>24, <1>25, <1>26, <1>27, <1>28, <1>29, <1>30, <1>31 DEF Next, Rom, Device

\* With a ROM that creates and joins in main only and joins an id once, when the C
\* library stores a new thread's handle before the thread runs and main does not
\* call destroy_mutexes, SELF and the local-storage port answer the record the
\* caller was started with: the handle of a joined thread, which stays in its
\* record, never lies before the record of the thread that has the handle now
\* (threads.c:186-197, 217-229).
THEOREM SelfFindsItsOwn ==
  ASSUME JoinOnce, Creators \subseteq {Main}, Joiners \subseteq {Main},
         HandleStoredFirst, ~CallsDestroy
  PROVE  Spec => SelfIsOwn
<1> DEFINE Inv == TypeOK /\ IndexOK /\ Exclusion /\ MainInv /\ Managed /\ RecordsFound
<1>1. Init => Inv
  BY InitTyped, InitExclusion, InitMain, InitManaged, InitRegistered
<1>2. Inv /\ [Next]_vars => Inv'
  BY JoinOnce, NextTyped, NextExclusion, NextMain, NextManaged, NextRegistered
<1>3. Inv /\ [Next]_vars => [SelfRight]_vars
  BY JoinOnce, NextRegistered
<1> HIDE DEF Inv
<1> QED
  BY <1>1, <1>2, <1>3, PTL DEF Spec, SelfIsOwn, SelfRight

=============================================================================
