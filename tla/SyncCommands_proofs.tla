------------------------ MODULE SyncCommands_proofs -------------------------
(***************************************************************************)
(* The deadline of COND_TIMEDWAIT is exact, and so a timed wait is neither *)
(* early nor refused; a thread knows which mutexes it has locked; and each *)
(* release of a barrier has one serial thread.                             *)
(* Proofs for every clock, timeout, ROM and set of threads and handles.    *)
(***************************************************************************)
EXTENDS SyncCommands, FiniteSetTheorems, TLAPS

\* The units of time are positive.
LEMMA UnitFacts ==
  /\ MS_PER_SEC \in Nat /\ MS_PER_SEC > 0
  /\ NS_PER_MS \in Nat /\ NS_PER_MS > 0
  /\ NS_PER_SEC \in Nat /\ NS_PER_SEC > 0
<1>1. ASSUME NEW a \in Nat, a > 0, NEW b \in Nat, b > 0
      PROVE  a * b \in Nat /\ a * b > 0
  BY <1>1, SMT
<1> QED
  BY <1>1, ClockAssumption DEF NS_PER_SEC

\* Division with remainder.
LEMMA DivMod ==
  ASSUME NEW n \in Nat, NEW d \in Nat, d > 0
  PROVE  /\ n \div d \in Nat /\ n % d \in Nat /\ n % d < d
         /\ n = d * (n \div d) + (n % d)
BY SMT

\* A product of a smaller factor stays a unit below.
LEMMA Scaled ==
  ASSUME NEW a \in Nat, NEW b \in Nat, NEW r \in Nat, r < a, b > 0
  PROVE  r * b \in Nat /\ r * b + b <= a * b
<1>1. PICK k \in Nat : a = r + 1 + k
  <2> WITNESS a - r - 1 \in Nat
  <2> QED
    BY SMT
<1>2. a * b = r * b + b + k * b /\ k * b \in Nat /\ r * b \in Nat
  BY <1>1, SMT
<1> QED
  BY <1>2, SMT

\* The stamp of a time is a number of nanoseconds.
LEMMA StampNat == ASSUME NEW d \in Time PROVE Stamp(d) \in Nat
BY UnitFacts, SMT DEF Time, Stamp

\* The deadline that COND_TIMEDWAIT computes is a timespec the library takes and
\* exactly the given number of milliseconds after the clock it read, whatever the
\* clock and the timeout (threads.c:679-684).
THEOREM DeadlineExact ==
  ASSUME NEW t \in Nat, NEW ms \in Nat
  PROVE  /\ Deadline(t, ms) \in Time
         /\ Valid(Deadline(t, ms))
         /\ Stamp(Deadline(t, ms)) = t + ms * NS_PER_MS
<1> DEFINE q  == t \div NS_PER_SEC
           r  == t % NS_PER_SEC
           mq == ms \div MS_PER_SEC
           mr == ms % MS_PER_SEC
           rest == mr * NS_PER_MS
<1>1. /\ q \in Nat /\ r \in Nat /\ r < NS_PER_SEC /\ t = NS_PER_SEC * q + r
      /\ mq \in Nat /\ mr \in Nat /\ mr < MS_PER_SEC /\ ms = MS_PER_SEC * mq + mr
  BY UnitFacts, DivMod
<1>2. rest \in Nat /\ rest < NS_PER_SEC
  BY <1>1, UnitFacts, Scaled DEF NS_PER_SEC
<1>3. ms * NS_PER_MS = NS_PER_SEC * mq + rest
  <2> HIDE DEF mq, mr
  <2>1. (MS_PER_SEC * mq + mr) * NS_PER_MS = (MS_PER_SEC * NS_PER_MS) * mq + mr * NS_PER_MS
    BY <1>1, UnitFacts, SMT
  <2> QED
    BY <2>1, <1>1 DEF NS_PER_SEC
<1>4. (q + mq) * NS_PER_SEC = NS_PER_SEC * q + NS_PER_SEC * mq
  <2> HIDE DEF q, mq
  <2> QED
    BY <1>1, UnitFacts, SMT
<1>5. (q + mq + 1) * NS_PER_SEC = NS_PER_SEC * q + NS_PER_SEC * mq + NS_PER_SEC
  <2> HIDE DEF q, mq
  <2> QED
    BY <1>1, UnitFacts, SMT
<1>6. /\ NS_PER_SEC * q \in Nat /\ NS_PER_SEC * mq \in Nat
  <2> HIDE DEF q, mq
  <2> QED
    BY <1>1, UnitFacts, SMT
<1>7. Deadline(t, ms) = IF r + rest >= NS_PER_SEC
                        THEN [sec |-> q + mq + 1, nsec |-> r + rest - NS_PER_SEC]
                        ELSE [sec |-> q + mq, nsec |-> r + rest]
  BY <1>1, UnitFacts, SMT DEF Deadline
<1> HIDE DEF q, r, mq, mr, rest
<1>8. CASE r + rest >= NS_PER_SEC
  <2>1. Deadline(t, ms).sec = q + mq + 1 /\ Deadline(t, ms).nsec = r + rest - NS_PER_SEC
        /\ Deadline(t, ms) = [sec |-> q + mq + 1, nsec |-> r + rest - NS_PER_SEC]
    BY <1>7, <1>8
  <2>2. r + rest - NS_PER_SEC \in Nat /\ r + rest - NS_PER_SEC < NS_PER_SEC
    BY <1>1, <1>2, <1>8, UnitFacts, SMT
  <2>3. (q + mq + 1) * NS_PER_SEC + (r + rest - NS_PER_SEC) = t + ms * NS_PER_MS
    BY <1>1, <1>2, <1>3, <1>5, <1>6, UnitFacts, SMT
  <2> QED
    BY <1>1, <2>1, <2>2, <2>3 DEF Time, Valid, Stamp
<1>9. CASE ~(r + rest >= NS_PER_SEC)
  <2>1. Deadline(t, ms).sec = q + mq /\ Deadline(t, ms).nsec = r + rest
        /\ Deadline(t, ms) = [sec |-> q + mq, nsec |-> r + rest]
    BY <1>7, <1>9
  <2>2. r + rest \in Nat /\ r + rest < NS_PER_SEC
    BY <1>1, <1>2, <1>9, UnitFacts, SMT
  <2>3. (q + mq) * NS_PER_SEC + (r + rest) = t + ms * NS_PER_MS
    BY <1>1, <1>2, <1>3, <1>4, <1>6, UnitFacts, SMT
  <2> QED
    BY <1>1, <2>1, <2>2, <2>3 DEF Time, Valid, Stamp
<1> QED
  BY <1>8, <1>9

-----------------------------------------------------------------------------
\* The types the timing argument needs.
TimeType ==
  /\ now \in Nat /\ arrived \in [Barrier -> SUBSET Thread]
  /\ pc \in [Thread -> Pc] /\ cmd \in [Thread -> Command \cup {"none"}]
  /\ a0 \in [Thread -> Id \cup {NoId}] /\ a2 \in [Thread -> Nat]
  /\ deadline \in [Thread -> Time] /\ called \in [Thread -> Nat]
  /\ r0 \in [Thread -> Id \cup 0 .. 3] /\ rom \in Programs

\* Which command a thread can be in at each place, and who waits at a barrier.
Places ==
  /\ \A h \in Thread :
       /\ pc[h] = "create" => cmd[h] \in Creates
       /\ pc[h] = "destroy" => cmd[h] \in Destroys
       /\ pc[h] = "clock" => cmd[h] = "COND_TIMEDWAIT"
       /\ pc[h] \in {"lookup_mutex", "asleep", "woken", "expired"} => cmd[h] \in Waits
       /\ pc[h] \in {"at_barrier", "serial", "plain"} => cmd[h] = "BARRIER_WAIT"
       /\ cmd[h] = "BARRIER_WAIT" => a0[h] \in Barrier
  /\ \A b \in Barrier : \A g \in arrived[b] : pc[g] = "at_barrier" /\ a0[g] = b

\* From the reading of the clock to the answer.
Timing ==
  \A h \in Thread :
    /\ cmd[h] = "COND_TIMEDWAIT" /\ pc[h] \in {"call", "asleep", "woken", "expired"}
         => deadline[h] = Deadline(called[h], a2[h])
    /\ pc[h] = "expired" => cmd[h] = "COND_TIMEDWAIT" /\ now >= Stamp(deadline[h])
    /\ pc[h] = "answered" /\ cmd[h] = "COND_TIMEDWAIT" /\ r0[h] = Timeout
         => now >= called[h] + a2[h] * NS_PER_MS

\* No timed wait goes from its call straight to an answer.
Taken == \A h \in Thread : Calls(h, "COND_TIMEDWAIT") => pc'[h] # "answered"

TimeInv == TimeType /\ Places /\ Timing

\* It holds initially.
LEMMA InitTime == Init => TimeInv
<1> SUFFICES ASSUME Init PROVE TimeInv
  OBVIOUS
<1>1. \A h \in Thread : pc[h] = "rom" /\ cmd[h] = "none"
  BY DEF Init
<1>2. TimeType
  BY DEF Init, TimeType, NoDeadline, Time, Pc
<1>3. Places
  BY <1>1 DEF Places, Init
<1>4. Timing
  BY <1>1 DEF Timing
<1> QED
  BY <1>2, <1>3, <1>4 DEF TimeInv

\* Every step keeps it, and no step refuses a timed wait.
LEMMA NextTime == TimeInv /\ [Next]_vars => TimeInv' /\ Taken
<1> SUFFICES ASSUME TimeInv, [Next]_vars PROVE TimeInv' /\ Taken
  OBVIOUS
<1> USE DEF TimeInv, TimeType
<1>1. ASSUME Tick PROVE TimeInv' /\ Taken
  <2> USE <1>1 DEF Tick, Calls, Answer, Goto, objects, call, ports, history
  <2>1. TimeType'
    BY DEF Pc
  <2>2. Places'
    BY DEF Places, Pc, Command, Creates, Destroys, OnMutex, Waits, Wakes
  <2>3. Timing'
    <3>1. ASSUME NEW h \in Thread
          PROVE  Stamp(deadline[h]) \in Nat /\ called[h] + a2[h] * NS_PER_MS \in Nat
      BY StampNat, UnitFacts, SMT
    <3> QED
      BY <3>1 DEF Timing
  <2>4. Taken
    BY DEF Taken, Places, Pc, Command, Creates, Destroys, OnMutex, Waits, Wakes
  <2> QED
    BY <2>1, <2>2, <2>3, <2>4
<1>2. ASSUME NEW h \in Thread, NEW c \in rom.commands, NEW x \in IdArg(c), NEW m \in MutexArg(h, c), NEW t \in NumberArg(c), Deo(h, c, x, m, t)
      PROVE  TimeInv' /\ Taken
  <2> USE <1>2 DEF Deo, Calls, Answer, Goto, objects, call, ports, history, IdArg, Kind, NumberArg
  <2>1. TimeType'
    <3>1. c \in Command /\ t \in Nat /\ x \in Id \cup {NoId}
      BY NumberAssumption, ProgramsAssumption DEF Id
    <3> QED
      BY <3>1 DEF Pc
  <2>2. Places'
    BY DEF Places, Pc, Command, Creates, Destroys, OnMutex, Waits, Wakes
  <2>3. Timing'
    BY DEF Places, Timing, Pc, Timeout, Command, Creates, Destroys, OnMutex, Waits, Wakes
  <2>4. Taken
    BY DEF Taken, Places, Pc, Command, Creates, Destroys, OnMutex, Waits, Wakes
  <2> QED
    BY <2>1, <2>2, <2>3, <2>4
<1>3. ASSUME NEW h \in Thread, Read(h)
      PROVE  TimeInv' /\ Taken
  <2> USE <1>3 DEF Read, Calls, Answer, Goto, objects, call, ports, history
  <2>1. TimeType'
    <3>1. NoDeadline \in Time
      BY DEF NoDeadline, Time
    <3> QED
      BY <3>1 DEF Pc
  <2>2. Places'
    BY DEF Places, Pc, Command, Creates, Destroys, OnMutex, Waits, Wakes
  <2>3. Timing'
    BY DEF Places, Timing, Pc, Timeout, Command, Creates, Destroys, OnMutex, Waits, Wakes
  <2>4. Taken
    BY DEF Taken, Places, Pc, Command, Creates, Destroys, OnMutex, Waits, Wakes
  <2> QED
    BY <2>1, <2>2, <2>3, <2>4
<1>4. ASSUME NEW h \in Thread, NEW x \in Id, Create(h, x)
      PROVE  TimeInv' /\ Taken
  <2> USE <1>4 DEF Create, Calls, Answer, Goto, objects, call, ports, history
  <2>1. TimeType'
    BY DEF Pc
  <2>2. Places'
    BY DEF Places, Pc, Command, Creates, Destroys, OnMutex, Waits, Wakes
  <2>3. Timing'
    BY DEF Places, Timing, Pc, Timeout, Command, Creates, Destroys, OnMutex, Waits, Wakes
  <2>4. Taken
    BY DEF Taken, Places, Pc, Command, Creates, Destroys, OnMutex, Waits, Wakes
  <2> QED
    BY <2>1, <2>2, <2>3, <2>4
<1>5. ASSUME NEW h \in Thread, Destroy(h)
      PROVE  TimeInv' /\ Taken
  <2> USE <1>5 DEF Destroy, Calls, Answer, Goto, objects, call, ports, history
  <2>1. TimeType'
    BY DEF Pc
  <2>2. Places'
    BY DEF Places, Pc, Command, Creates, Destroys, OnMutex, Waits, Wakes
  <2>3. Timing'
    BY DEF Places, Timing, Pc, Timeout, Command, Creates, Destroys, OnMutex, Waits, Wakes
  <2>4. Taken
    BY DEF Taken, Places, Pc, Command, Creates, Destroys, OnMutex, Waits, Wakes
  <2> QED
    BY <2>1, <2>2, <2>3, <2>4
<1>6. ASSUME NEW h \in Thread, Lookup(h)
      PROVE  TimeInv' /\ Taken
  <2> USE <1>6 DEF Lookup, Calls, Answer, Goto, objects, call, ports, history, AfterLookup, ErrorResult, InvalidArgs
  <2>1. TimeType'
    BY DEF Pc
  <2>2. Places'
    BY DEF Places, Pc, Command, Creates, Destroys, OnMutex, Waits, Wakes
  <2>3. Timing'
    BY DEF Places, Timing, Pc, Timeout, Command, Creates, Destroys, OnMutex, Waits, Wakes
  <2>4. Taken
    BY DEF Taken, Places, Pc, Command, Creates, Destroys, OnMutex, Waits, Wakes
  <2> QED
    BY <2>1, <2>2, <2>3, <2>4
<1>7. ASSUME NEW h \in Thread, LookupMutex(h)
      PROVE  TimeInv' /\ Taken
  <2> USE <1>7 DEF LookupMutex, Calls, Answer, Goto, objects, call, ports, history, ErrorResult, InvalidArgs
  <2>1. TimeType'
    BY DEF Pc
  <2>2. Places'
    BY DEF Places, Pc, Command, Creates, Destroys, OnMutex, Waits, Wakes
  <2>3. Timing'
    BY DEF Places, Timing, Pc, Timeout, Command, Creates, Destroys, OnMutex, Waits, Wakes
  <2>4. Taken
    BY DEF Taken, Places, Pc, Command, Creates, Destroys, OnMutex, Waits, Wakes
  <2> QED
    BY <2>1, <2>2, <2>3, <2>4
<1>8. ASSUME NEW h \in Thread, ReadClock(h)
      PROVE  TimeInv' /\ Taken
  <2> USE <1>8 DEF ReadClock, Calls, Answer, Goto, objects, call, ports, history
  <2>1. TimeType'
    BY DeadlineExact DEF Pc
  <2>2. Places'
    BY DEF Places, Pc, Command, Creates, Destroys, OnMutex, Waits, Wakes
  <2>3. Timing'
    BY DEF Places, Timing, Pc, Timeout, Command, Creates, Destroys, OnMutex, Waits, Wakes
  <2>4. Taken
    BY DEF Taken, Places, Pc, Command, Creates, Destroys, OnMutex, Waits, Wakes
  <2> QED
    BY <2>1, <2>2, <2>3, <2>4
<1>9. ASSUME NEW h \in Thread, Lock(h)
      PROVE  TimeInv' /\ Taken
  <2> USE <1>9 DEF Lock, Calls, Answer, Goto, objects, call, ports, history
  <2>1. TimeType'
    BY DEF Pc
  <2>2. Places'
    BY DEF Places, Pc, Command, Creates, Destroys, OnMutex, Waits, Wakes
  <2>3. Timing'
    BY DEF Places, Timing, Pc, Timeout, Command, Creates, Destroys, OnMutex, Waits, Wakes
  <2>4. Taken
    BY DEF Taken, Places, Pc, Command, Creates, Destroys, OnMutex, Waits, Wakes
  <2> QED
    BY <2>1, <2>2, <2>3, <2>4
<1>10. ASSUME NEW h \in Thread, Unlock(h)
      PROVE  TimeInv' /\ Taken
  <2> USE <1>10 DEF Unlock, Calls, Answer, Goto, objects, call, ports, history
  <2>1. TimeType'
    BY DEF Pc
  <2>2. Places'
    BY DEF Places, Pc, Command, Creates, Destroys, OnMutex, Waits, Wakes
  <2>3. Timing'
    BY DEF Places, Timing, Pc, Timeout, Command, Creates, Destroys, OnMutex, Waits, Wakes
  <2>4. Taken
    BY DEF Taken, Places, Pc, Command, Creates, Destroys, OnMutex, Waits, Wakes
  <2> QED
    BY <2>1, <2>2, <2>3, <2>4
<1>11. ASSUME NEW h \in Thread, TryLock(h)
      PROVE  TimeInv' /\ Taken
  <2> USE <1>11 DEF TryLock, Calls, Answer, Goto, objects, call, ports, history
  <2>1. TimeType'
    BY DEF Pc
  <2>2. Places'
    BY DEF Places, Pc, Command, Creates, Destroys, OnMutex, Waits, Wakes
  <2>3. Timing'
    BY DEF Places, Timing, Pc, Timeout, Command, Creates, Destroys, OnMutex, Waits, Wakes
  <2>4. Taken
    BY DEF Taken, Places, Pc, Command, Creates, Destroys, OnMutex, Waits, Wakes
  <2> QED
    BY <2>1, <2>2, <2>3, <2>4
<1>12. ASSUME NEW h \in Thread, Sleep(h)
      PROVE  TimeInv' /\ Taken
  <2> USE <1>12 DEF Sleep, Calls, Answer, Goto, objects, call, ports, history
  <2>1. TimeType'
    BY DEF Pc
  <2>2. Places'
    BY DEF Places, Pc, Command, Creates, Destroys, OnMutex, Waits, Wakes
  <2>3. Timing'
    BY DEF Places, Timing, Pc, Timeout, Command, Creates, Destroys, OnMutex, Waits, Wakes
  <2>4. Taken
    BY DEF Taken, Places, Pc, Command, Creates, Destroys, OnMutex, Waits, Wakes
  <2> QED
    BY <2>1, <2>2, <2>3, <2>4
<1>13. ASSUME NEW h \in Thread, Signal(h)
      PROVE  TimeInv' /\ Taken
  <2> USE <1>13 DEF Signal, Calls, Answer, Goto, objects, call, ports, history, Asleep
  <2>1. TimeType'
    BY DEF Pc
  <2>2. Places'
    BY DEF Places, Pc, Command, Creates, Destroys, OnMutex, Waits, Wakes
  <2>3. Timing'
    BY DEF Places, Timing, Pc, Timeout, Command, Creates, Destroys, OnMutex, Waits, Wakes
  <2>4. Taken
    BY DEF Taken, Places, Pc, Command, Creates, Destroys, OnMutex, Waits, Wakes
  <2> QED
    BY <2>1, <2>2, <2>3, <2>4
<1>14. ASSUME NEW h \in Thread, Broadcast(h)
      PROVE  TimeInv' /\ Taken
  <2> USE <1>14 DEF Broadcast, Calls, Answer, Goto, objects, call, ports, history, Asleep
  <2>1. TimeType'
    BY DEF Pc
  <2>2. Places'
    BY DEF Places, Pc, Command, Creates, Destroys, OnMutex, Waits, Wakes
  <2>3. Timing'
    BY DEF Places, Timing, Pc, Timeout, Command, Creates, Destroys, OnMutex, Waits, Wakes
  <2>4. Taken
    BY DEF Taken, Places, Pc, Command, Creates, Destroys, OnMutex, Waits, Wakes
  <2> QED
    BY <2>1, <2>2, <2>3, <2>4
<1>15. ASSUME NEW h \in Thread, Expire(h)
      PROVE  TimeInv' /\ Taken
  <2> USE <1>15 DEF Expire, Calls, Answer, Goto, objects, call, ports, history
  <2>1. TimeType'
    BY DEF Pc
  <2>2. Places'
    BY DEF Places, Pc, Command, Creates, Destroys, OnMutex, Waits, Wakes
  <2>3. Timing'
    BY DEF Places, Timing, Pc, Timeout, Command, Creates, Destroys, OnMutex, Waits, Wakes
  <2>4. Taken
    BY DEF Taken, Places, Pc, Command, Creates, Destroys, OnMutex, Waits, Wakes
  <2> QED
    BY <2>1, <2>2, <2>3, <2>4
<1>16. ASSUME NEW h \in Thread, WaitReturn(h)
      PROVE  TimeInv' /\ Taken
  <2> USE <1>16 DEF WaitReturn, Calls, Answer, Goto, objects, call, ports, history, Timeout, Signalled
  <2>1. TimeType'
    BY DEF Pc
  <2>2. Places'
    BY DEF Places, Pc, Command, Creates, Destroys, OnMutex, Waits, Wakes
  <2>3. Timing'
    BY DeadlineExact DEF Places, Timing, Pc, Timeout, Command, Creates, Destroys, OnMutex, Waits, Wakes
  <2>4. Taken
    BY DEF Taken, Places, Pc, Command, Creates, Destroys, OnMutex, Waits, Wakes
  <2> QED
    BY <2>1, <2>2, <2>3, <2>4
<1>17. ASSUME NEW h \in Thread, NEW s \in Thread, Arrive(h, s)
      PROVE  TimeInv' /\ Taken
  <2> USE <1>17 DEF Arrive, Calls, Answer, Goto, objects, call, ports, history
  <2>1. TimeType'
    BY DEF Pc
  <2>2. Places'
    <3> DEFINE b == a0[h]
               all == arrived[b] \cup {h}
    <3>1. /\ pc[h] = "call" /\ cmd[h] = "BARRIER_WAIT" /\ b \in Barrier
          /\ UNCHANGED <<cmd, a0>>
      BY DEF Places
    <3>2. \A g \in all : cmd[g] = "BARRIER_WAIT"
      BY <3>1 DEF Places
    <3>3. CASE Cardinality(all) < count[b]
      <4>1. pc' = [pc EXCEPT ![h] = "at_barrier"] /\ arrived' = [arrived EXCEPT ![b] = all]
        BY <3>3
      <4> QED
        BY <3>1, <3>2, <4>1 DEF Places, Pc, Creates, Destroys, Waits
    <3>4. CASE ~(Cardinality(all) < count[b])
      <4>1. /\ s \in all /\ arrived' = [arrived EXCEPT ![b] = {}]
            /\ pc' = [g \in Thread |-> IF g = s THEN "serial"
                                       ELSE IF g \in all THEN "plain" ELSE pc[g]]
        BY <3>4
      <4>2. \A x \in Barrier : \A g \in arrived'[x] : g \notin all
        BY <3>1, <4>1 DEF Places
      <4> QED
        BY <3>1, <3>2, <4>1, <4>2 DEF Places, Pc, Creates, Destroys, Waits
    <3> QED
      BY <3>3, <3>4
  <2>3. Timing'
    BY DEF Places, Timing, Pc, Timeout, Command, Creates, Destroys, OnMutex, Waits, Wakes
  <2>4. Taken
    BY DEF Taken, Places, Pc, Command, Creates, Destroys, OnMutex, Waits, Wakes
  <2> QED
    BY <2>1, <2>2, <2>3, <2>4
<1>18. ASSUME NEW h \in Thread, BarrierReturn(h)
      PROVE  TimeInv' /\ Taken
  <2> USE <1>18 DEF BarrierReturn, Calls, Answer, Goto, objects, call, ports, history
  <2>1. TimeType'
    BY DEF Pc
  <2>2. Places'
    BY DEF Places, Pc, Command, Creates, Destroys, OnMutex, Waits, Wakes
  <2>3. Timing'
    BY DEF Places, Timing, Pc, Timeout, Command, Creates, Destroys, OnMutex, Waits, Wakes
  <2>4. Taken
    BY DEF Taken, Places, Pc, Command, Creates, Destroys, OnMutex, Waits, Wakes
  <2> QED
    BY <2>1, <2>2, <2>3, <2>4
<1>19. ASSUME NEW h \in Thread, CreateFail(h)
      PROVE  TimeInv' /\ Taken
  <2> USE <1>19 DEF CreateFail, Calls, Answer, Goto, objects, call, ports, history
  <2>1. TimeType'
    BY DEF Pc
  <2>2. Places'
    BY DEF Places, Pc, Command, Creates, Destroys, OnMutex, Waits, Wakes
  <2>3. Timing'
    BY DEF Places, Timing, Pc, Timeout, Command, Creates, Destroys, OnMutex, Waits, Wakes
  <2>4. Taken
    BY DEF Taken, Places, Pc, Command, Creates, Destroys, OnMutex, Waits, Wakes
  <2> QED
    BY <2>1, <2>2, <2>3, <2>4
<1>20. ASSUME NEW h \in Thread, ReadClockFail(h)
      PROVE  TimeInv' /\ Taken
  <2> USE <1>20 DEF ReadClockFail, Calls, Answer, Goto, objects, call, ports, history, ClockFail
  <2>1. TimeType'
    BY DEF Pc
  <2>2. Places'
    BY DEF Places, Pc, Command, Creates, Destroys, OnMutex, Waits, Wakes
  <2>3. Timing'
    BY DEF Places, Timing, Pc, Timeout, Command, Creates, Destroys, OnMutex, Waits, Wakes
  <2>4. Taken
    BY DEF Taken, Places, Pc, Command, Creates, Destroys, OnMutex, Waits, Wakes
  <2> QED
    BY <2>1, <2>2, <2>3, <2>4
<1>21. ASSUME NEW h \in Thread, Refuse(h)
      PROVE  TimeInv' /\ Taken
  <2> USE <1>21 DEF Refuse, Calls, Answer, Goto, objects, call, ports, history, ErrorResult, InvalidArgs
  <2>1. TimeType'
    BY DEF Pc
  <2>2. Places'
    BY DEF Places, Pc, Command, Creates, Destroys, OnMutex, Waits, Wakes
  <2>3. Timing'
    BY DEF Places, Timing, Pc, Timeout, Command, Creates, Destroys, OnMutex, Waits, Wakes
  <2>4. Taken
    BY DeadlineExact DEF Taken, Timing
  <2> QED
    BY <2>1, <2>2, <2>3, <2>4
<1>22. ASSUME NEW h \in Thread, WakeSpuriously(h)
      PROVE  TimeInv' /\ Taken
  <2> USE <1>22 DEF WakeSpuriously, Calls, Answer, Goto, objects, call, ports, history
  <2>1. TimeType'
    BY DEF Pc
  <2>2. Places'
    BY DEF Places, Pc, Command, Creates, Destroys, OnMutex, Waits, Wakes
  <2>3. Timing'
    BY DEF Places, Timing, Pc, Timeout, Command, Creates, Destroys, OnMutex, Waits, Wakes
  <2>4. Taken
    BY DEF Taken, Places, Pc, Command, Creates, Destroys, OnMutex, Waits, Wakes
  <2> QED
    BY <2>1, <2>2, <2>3, <2>4
<1>23. CASE UNCHANGED vars
  BY <1>23 DEF vars, Calls, objects, call, ports, history, Places, Timing, Taken
<1> QED
  BY <1>1, <1>2, <1>3, <1>4, <1>5, <1>6, <1>7, <1>8, <1>9, <1>10, <1>11, <1>12, <1>13, <1>14, <1>15, <1>16, <1>17, <1>18, <1>19, <1>20, <1>21, <1>22, <1>23 DEF Next, Rom, Device, Hindrance

\* A timed wait does not answer Timeout before its milliseconds are over, whatever
\* the clock, the timeout and the other threads do.
THEOREM NeverEarly == Spec => []TimeoutNotEarly
<1>1. TimeInv => TimeoutNotEarly
  BY DEF TimeInv, Timing, TimeoutNotEarly
<1> QED
  BY InitTime, NextTime, <1>1, PTL DEF Spec

\* A timed wait whose handles were found is never refused for its deadline.
THEOREM NeverRefused == Spec => ValidHandlesAreTaken
<1>1. TimeInv /\ [Next]_vars => [Taken]_vars
  BY NextTime
<1>2. TimeInv /\ [Next]_vars => TimeInv'
  BY NextTime
<1> QED
  BY InitTime, <1>1, <1>2, PTL DEF Spec, ValidHandlesAreTaken, Taken
-----------------------------------------------------------------------------
(* The locks.                                                              *)

\* The types the argument about the locks needs.
LockType ==
  /\ owner \in [Mutex -> Thread \cup {NoThread}]
  /\ holds \in [Thread -> SUBSET Mutex]
  /\ a1 \in [Thread -> Mutex \cup {NoId}]
  /\ status \in [Thread -> {"OK", "ERROR", "InvalidAttributes", "SystemResources"}]
  /\ exists \cap Stray = {}

\* The handles a thread may use, and those a handler has found, name objects.
Uses ==
  \A h \in Thread :
    /\ holds[h] \subseteq exists
    /\ cmd[h] \in OnMutex => a0[h] \in Mutex
    /\ cmd[h] \in OnMutex /\ (pc[h] = "call" \/ (pc[h] = "answered" /\ status[h] = "OK"))
         => a0[h] \in exists
    /\ cmd[h] = "MUTEX_UNLOCK" => a0[h] \in holds[h] \cup Stray
    /\ cmd[h] \in Waits => a1[h] \in holds[h] \cup Stray
    /\ cmd[h] \in Waits /\ pc[h] \in {"clock", "call", "asleep", "woken", "expired"}
         => a1[h] \in holds[h]

\* What a thread is about to destroy nobody else uses or has locked.
Alone ==
  \A h, g \in Thread :
    pc[h] = "destroy" => /\ a0[h] \notin holds[g]
                         /\ g # h /\ pc[g] # "rom" => a0[g] # a0[h]

\* The mutexes a thread has locked, seen from its place: what it knew before its
\* command, less the mutex a sleeper has given back, or what the answer it is about
\* to read will tell it.
Has(h) ==
  IF pc[h] = "answered" THEN HoldsNow(h)
  ELSE IF pc[h] \in {"asleep", "woken", "expired"} THEN holds[h] \ {a1[h]}
  ELSE holds[h]

\* The library's owners are the threads that have the mutexes locked.
Owners == \A h \in Thread, m \in Mutex : owner[m] = h <=> m \in Has(h)

LockInv == LockType /\ Uses /\ Alone /\ Owners

\* It holds initially.
LEMMA InitLocks == Init => LockInv
<1> SUFFICES ASSUME Init PROVE LockInv
  OBVIOUS
<1>1. LockType
  BY DEF Init, LockType
<1>2. Uses /\ Alone
  BY DEF Init, Uses, Alone, OnMutex, Waits
<1>3. Owners
  BY ThreadAssumption DEF Init, Owners, Has
<1> QED
  BY <1>1, <1>2, <1>3 DEF LockInv

\* Every step keeps the argument about the locks.
LEMMA NextLocks == TimeInv /\ LockInv /\ [Next]_vars => LockInv'
<1> SUFFICES ASSUME TimeInv, LockInv, [Next]_vars PROVE LockInv'
  OBVIOUS
<1> USE ThreadAssumption, IdAssumption DEF LockInv, LockType, TimeInv, TimeType, objects, call, ports, history, Calls, Answer, Goto
<1>1. ASSUME Tick PROVE LockInv'
  <2> USE <1>1 DEF Tick
  <2>1. LockType'
    OBVIOUS
  <2>2. Uses'
    BY DEF Uses
  <2>3. Alone'
    BY DEF Alone
  <2>4. Owners'
    BY DEF Owners, Has, HoldsNow
  <2> QED
    BY <2>1, <2>2, <2>3, <2>4
<1>2. ASSUME NEW h \in Thread, NEW c \in rom.commands, NEW x \in IdArg(c),
             NEW m \in MutexArg(h, c), NEW t \in NumberArg(c), Deo(h, c, x, m, t)
      PROVE  LockInv'
  <2> USE <1>2 DEF Deo, IdArg, MutexArg, Kind, InUse, Doomed
  <2>1. LockType'
    OBVIOUS
  <2>2. Uses'
    BY DEF Uses, Places, OnMutex, Waits, Creates, Destroys
  <2>3. Alone'
    BY DEF Alone
  <2>4. Owners'
    BY DEF Owners, Has, HoldsNow
  <2> QED
    BY <2>1, <2>2, <2>3, <2>4
<1>3. ASSUME NEW h \in Thread, Read(h) PROVE LockInv'
  <2> USE <1>3 DEF Read
  <2>0. HoldsNow(h) \in SUBSET (Mutex \cap exists)
    BY DEF HoldsNow, Uses, OnMutex
  <2>1. LockType'
    BY <2>0
  <2>2. Uses'
    <3>1. /\ cmd' = [cmd EXCEPT ![h] = "none"] /\ pc' = [pc EXCEPT ![h] = "rom"]
          /\ holds' = [holds EXCEPT ![h] = HoldsNow(h)]
          /\ UNCHANGED exists
      OBVIOUS
    <3>2. \A g \in Thread \ {h} :
            /\ holds'[g] = holds[g] /\ cmd'[g] = cmd[g] /\ pc'[g] = pc[g]
            /\ a0'[g] = a0[g] /\ a1'[g] = a1[g] /\ status'[g] = status[g]
      OBVIOUS
    <3>3. cmd'[h] = "none" /\ holds'[h] \subseteq exists
      BY <2>0
    <3> QED
      BY <3>1, <3>2, <3>3 DEF Uses, OnMutex, Waits
  <2>3. Alone'
    BY DEF Alone, Uses, HoldsNow, OnMutex
  <2>4. Owners'
    BY DEF Owners, Has, HoldsNow
  <2> QED
    BY <2>1, <2>2, <2>3, <2>4
<1>4. ASSUME NEW h \in Thread, NEW x \in Id, Create(h, x) PROVE LockInv'
  <2> USE <1>4 DEF Create
  <2>1. LockType'
    OBVIOUS
  <2>2. Uses'
    BY DEF Uses, Places, OnMutex, Waits, Creates, Destroys
  <2>3. Alone'
    BY DEF Alone
  <2>4. Owners'
    BY DEF Owners, Uses, Alone, Has, HoldsNow, Places, Command, Creates, Destroys, OnMutex, Waits, Wakes
  <2> QED
    BY <2>1, <2>2, <2>3, <2>4
<1>5. ASSUME NEW h \in Thread, Destroy(h) PROVE LockInv'
  <2> USE <1>5 DEF Destroy
  <2>1. LockType'
    OBVIOUS
  <2>2. Uses'
    BY DEF Uses, Alone, Places, Command, Creates, Destroys, OnMutex, Waits, Wakes
  <2>3. Alone'
    BY DEF Alone
  <2>4. Owners'
    BY DEF Owners, Has, HoldsNow, Places, Creates, Destroys, Waits
  <2> QED
    BY <2>1, <2>2, <2>3, <2>4
<1>6. ASSUME NEW h \in Thread, Lookup(h) PROVE LockInv'
  <2> USE <1>6 DEF Lookup, AfterLookup, ErrorResult
  <2>1. LockType'
    OBVIOUS
  <2>2. Uses'
    BY DEF Uses
  <2>3. Alone'
    BY DEF Alone
  <2>4. Owners'
    BY DEF Owners, Has, HoldsNow
  <2> QED
    BY <2>1, <2>2, <2>3, <2>4
<1>7. ASSUME NEW h \in Thread, LookupMutex(h) PROVE LockInv'
  <2> USE <1>7 DEF LookupMutex, ErrorResult
  <2>1. LockType'
    OBVIOUS
  <2>2. Uses'
    BY DEF Uses, Places, OnMutex, Waits, Creates, Destroys
  <2>3. Alone'
    BY DEF Alone
  <2>4. Owners'
    BY DEF Owners, Has, HoldsNow
  <2> QED
    BY <2>1, <2>2, <2>3, <2>4
<1>8. ASSUME NEW h \in Thread, ReadClock(h) PROVE LockInv'
  <2> USE <1>8 DEF ReadClock
  <2>1. LockType'
    OBVIOUS
  <2>2. Uses'
    BY DEF Uses, Places, OnMutex, Waits, Creates, Destroys
  <2>3. Alone'
    BY DEF Alone
  <2>4. Owners'
    BY DEF Owners, Has, HoldsNow
  <2> QED
    BY <2>1, <2>2, <2>3, <2>4
<1>9. ASSUME NEW h \in Thread, Lock(h) PROVE LockInv'
  <2> USE <1>9 DEF Lock
  <2>1. LockType'
    OBVIOUS
  <2>2. Uses'
    BY DEF Uses
  <2>3. Alone'
    BY DEF Alone
  <2>4. Owners'
    BY DEF Owners, Has, HoldsNow
  <2> QED
    BY <2>1, <2>2, <2>3, <2>4
<1>10. ASSUME NEW h \in Thread, Unlock(h) PROVE LockInv'
  <2> USE <1>10 DEF Unlock
  <2>1. LockType'
    OBVIOUS
  <2>2. Uses'
    BY DEF Uses
  <2>3. Alone'
    BY DEF Alone
  <2>4. Owners'
    BY DEF Owners, Uses, Has, HoldsNow, OnMutex
  <2> QED
    BY <2>1, <2>2, <2>3, <2>4
<1>11. ASSUME NEW h \in Thread, TryLock(h) PROVE LockInv'
  <2> USE <1>11 DEF TryLock
  <2>1. LockType'
    OBVIOUS
  <2>2. Uses'
    BY DEF Uses
  <2>3. Alone'
    BY DEF Alone
  <2>4. Owners'
    BY DEF Owners, Has, HoldsNow
  <2> QED
    BY <2>1, <2>2, <2>3, <2>4
<1>12. ASSUME NEW h \in Thread, Sleep(h) PROVE LockInv'
  <2> USE <1>12 DEF Sleep
  <2>1. LockType'
    OBVIOUS
  <2>2. Uses'
    BY DEF Uses
  <2>3. Alone'
    BY DEF Alone
  <2>4. Owners'
    BY DEF Owners, Uses, Has, HoldsNow, OnMutex
  <2> QED
    BY <2>1, <2>2, <2>3, <2>4
<1>13. ASSUME NEW h \in Thread, Signal(h) PROVE LockInv'
  <2> USE <1>13 DEF Signal, Asleep
  <2>1. LockType'
    OBVIOUS
  <2>2. Uses'
    BY DEF Uses
  <2>3. Alone'
    BY DEF Alone
  <2>4. Owners'
    BY DEF Owners, Has, HoldsNow
  <2> QED
    BY <2>1, <2>2, <2>3, <2>4
<1>14. ASSUME NEW h \in Thread, Broadcast(h) PROVE LockInv'
  <2> USE <1>14 DEF Broadcast, Asleep
  <2>1. LockType'
    OBVIOUS
  <2>2. Uses'
    BY DEF Uses
  <2>3. Alone'
    BY DEF Alone
  <2>4. Owners'
    BY DEF Owners, Has, HoldsNow
  <2> QED
    BY <2>1, <2>2, <2>3, <2>4
<1>15. ASSUME NEW h \in Thread, Expire(h) PROVE LockInv'
  <2> USE <1>15 DEF Expire
  <2>1. LockType'
    OBVIOUS
  <2>2. Uses'
    BY DEF Uses
  <2>3. Alone'
    BY DEF Alone
  <2>4. Owners'
    BY DEF Owners, Has, HoldsNow
  <2> QED
    BY <2>1, <2>2, <2>3, <2>4
<1>16. ASSUME NEW h \in Thread, WaitReturn(h) PROVE LockInv'
  <2> USE <1>16 DEF WaitReturn
  <2>1. LockType'
    OBVIOUS
  <2>2. Uses'
    BY DEF Uses, Places, OnMutex, Waits, Creates, Destroys
  <2>3. Alone'
    BY DEF Alone
  <2>4. Owners'
    BY DEF Owners, Uses, Alone, Has, HoldsNow, Places, Command, Creates, Destroys, OnMutex, Waits, Wakes
  <2> QED
    BY <2>1, <2>2, <2>3, <2>4
<1>17. ASSUME NEW h \in Thread, NEW s \in Thread, Arrive(h, s) PROVE LockInv'
  <2> USE <1>17 DEF Arrive
  <2>1. LockType'
    OBVIOUS
  <2>2. Uses'
    BY DEF Uses
  <2>3. Alone'
    BY DEF Alone, Uses, HoldsNow, Places, Command, Creates, Destroys, OnMutex, Waits, Wakes
  <2>4. Owners'
    BY DEF Owners, Has, HoldsNow, Places, Creates, Destroys, Waits
  <2> QED
    BY <2>1, <2>2, <2>3, <2>4
<1>18. ASSUME NEW h \in Thread, BarrierReturn(h) PROVE LockInv'
  <2> USE <1>18 DEF BarrierReturn
  <2>1. LockType'
    OBVIOUS
  <2>2. Uses'
    BY DEF Uses, Places, OnMutex, Waits, Creates, Destroys
  <2>3. Alone'
    BY DEF Alone
  <2>4. Owners'
    BY DEF Owners, Has, HoldsNow, Places, Creates, Destroys, Waits
  <2> QED
    BY <2>1, <2>2, <2>3, <2>4
<1>19. ASSUME NEW h \in Thread, CreateFail(h) PROVE LockInv'
  <2> USE <1>19 DEF CreateFail
  <2>1. LockType'
    OBVIOUS
  <2>2. Uses'
    BY DEF Uses
  <2>3. Alone'
    BY DEF Alone
  <2>4. Owners'
    BY DEF Owners, Has, HoldsNow
  <2> QED
    BY <2>1, <2>2, <2>3, <2>4
<1>20. ASSUME NEW h \in Thread, ReadClockFail(h) PROVE LockInv'
  <2> USE <1>20 DEF ReadClockFail
  <2>1. LockType'
    OBVIOUS
  <2>2. Uses'
    BY DEF Uses
  <2>3. Alone'
    BY DEF Alone
  <2>4. Owners'
    BY DEF Owners, Has, HoldsNow
  <2> QED
    BY <2>1, <2>2, <2>3, <2>4
<1>21. ASSUME NEW h \in Thread, Refuse(h) PROVE LockInv'
  <2> USE <1>21 DEF Refuse, ErrorResult
  <2>1. LockType'
    OBVIOUS
  <2>2. Uses'
    BY DEF Uses
  <2>3. Alone'
    BY DEF Alone
  <2>4. Owners'
    BY DEF Owners, Has, HoldsNow
  <2> QED
    BY <2>1, <2>2, <2>3, <2>4
<1>22. ASSUME NEW h \in Thread, WakeSpuriously(h) PROVE LockInv'
  <2> USE <1>22 DEF WakeSpuriously
  <2>1. LockType'
    OBVIOUS
  <2>2. Uses'
    BY DEF Uses
  <2>3. Alone'
    BY DEF Alone
  <2>4. Owners'
    BY DEF Owners, Has, HoldsNow
  <2> QED
    BY <2>1, <2>2, <2>3, <2>4
<1>23. CASE UNCHANGED vars
  BY <1>23 DEF vars, Uses, Alone, Owners, Has, HoldsNow
<1> QED
  BY <1>1, <1>2, <1>3, <1>4, <1>5, <1>6, <1>7, <1>8, <1>9, <1>10, <1>11, <1>12, <1>13, <1>14, <1>15, <1>16, <1>17, <1>18, <1>19, <1>20, <1>21, <1>22, <1>23 DEF Next, Rom, Device, Hindrance

\* What LOCK, TRYLOCK, UNLOCK and the waits answer is all a thread needs to know which
\* mutexes it has locked, whatever the other threads do, refused calls, spurious
\* wake-ups and timeouts included; and a wait never returns without its mutex
\* (threads.c:453, 505, 601).
THEOREM KeepsLocks == Spec => []LocksKept
<1>1. TimeInv /\ LockInv => LocksKept
  <2> SUFFICES ASSUME LockInv PROVE LocksKept
    OBVIOUS
  <2>1. KnowsItsLocks
    BY DEF KnowsItsLocks, LockInv, LockType, Owners, Has
  <2>2. WaitKeepsMutex
    <3> SUFFICES ASSUME NEW h \in Thread, pc[h] = "answered", cmd[h] \in Waits,
                        a1[h] \in holds[h]
                 PROVE  owner[a1[h]] = h
      BY DEF WaitKeepsMutex
    <3>1. Has(h) = holds[h] /\ a1[h] \in Mutex
      BY DEF Has, HoldsNow, Waits, LockInv, LockType
    <3> QED
      BY <3>1 DEF LockInv, Owners
  <2> QED
    BY <2>1, <2>2 DEF LocksKept
<1>2. Init => TimeInv /\ LockInv
  BY InitTime, InitLocks
<1>3. TimeInv /\ LockInv /\ [Next]_vars => TimeInv' /\ LockInv'
  BY NextTime, NextLocks
<1> QED
  BY <1>1, <1>2, <1>3, PTL DEF Spec

-----------------------------------------------------------------------------
(* The barriers.                                                           *)

\* The types the other arguments did not need.
MeetType ==
  /\ exists \subseteq Id \ Stray
  /\ count \in [Barrier -> Nat] /\ round \in [Barrier -> 0 .. MaxRound]
  /\ now \in 0 .. MaxTime /\ called \in [Thread -> 0 .. MaxTime]
  /\ released \in [Thread -> 0 .. MaxRound]
  /\ seen \subseteq Barrier \X (1 .. MaxRound) \X Thread \X {0, 1}

\* A thread that came out of a release, and has not read its answer, is on the way
\* from the library to the ROM.
OnTheWay ==
  \A h \in Thread :
    /\ cmd[h] = "BARRIER_WAIT" /\ pc[h] \in {"call", "at_barrier"} => a0[h] \in exists
    /\ released[h] # 0 <=>
         cmd[h] = "BARRIER_WAIT" /\ (pc[h] \in {"serial", "plain"}
                                     \/ (pc[h] = "answered" /\ status[h] = "OK"))
    /\ released[h] # 0 => released[h] <= round[a0[h]]
    /\ released[h] # 0 /\ pc[h] = "answered" => r0[h] \in {0, 1}

\* Fewer threads than its count wait at a barrier.
Arrivals ==
  \A b \in Barrier : /\ IsFiniteSet(arrived[b])
                     /\ b \in exists => Cardinality(arrived[b]) < count[b]

\* What such a thread answers or will answer.
Says(h) == IF pc[h] = "answered" THEN r0[h] ELSE IF pc[h] = "serial" THEN 1 ELSE 0

Serial(h, s) == IF h = s THEN 1 ELSE 0

\* The threads in A came out of release n of barrier b, and s was the serial one:
\* those on the way are of A, and so are those that have read their answers.
ReleasedAs(b, n, A, s) ==
  /\ s \in A /\ IsFiniteSet(A) /\ Cardinality(A) = count[b]
  /\ \A h \in Thread : released[h] = n /\ a0[h] = b => h \in A /\ Says(h) = Serial(h, s)
  /\ \A h \in Thread, r \in {0, 1} : <<b, n, h, r>> \in seen => h \in A /\ r = Serial(h, s)

Rounds ==
  /\ \A b \in Barrier, n \in 1 .. MaxRound :
       n <= round[b] => \E A \in SUBSET Thread, s \in Thread : ReleasedAs(b, n, A, s)
  /\ \A b \in Barrier, n \in 1 .. MaxRound, h \in Thread, r \in {0, 1} :
       <<b, n, h, r>> \in seen => n <= round[b]
  /\ \A b \in Barrier : b \notin exists => round[b] = 0

MeetInv == MeetType /\ OnTheWay /\ Arrivals /\ Rounds

\* It holds initially.
LEMMA InitMeeting == Init => MeetInv
<1> SUFFICES ASSUME Init PROVE MeetInv
  OBVIOUS
<1>1. MeetType
  BY ClockAssumption DEF Init, MeetType
<1>2. OnTheWay
  BY DEF Init, OnTheWay
<1>3. Arrivals
  <2>1. exists = {} /\ \A b \in Barrier : arrived[b] = {}
    BY DEF Init
  <2> QED
    BY <2>1, FS_EmptySet DEF Arrivals
<1>4. Rounds
  <2>1. seen = {} /\ \A b \in Barrier : round[b] = 0
    BY DEF Init
  <2> QED
    BY <2>1, ClockAssumption DEF Rounds
<1> QED
  BY <1>1, <1>2, <1>3, <1>4 DEF MeetInv

\* A step that releases nobody, reads no answer and leaves the threads on the way
\* where they are keeps the account of the releases.
LEMMA SameRounds ==
  ASSUME Rounds, released' = released, seen' = seen, count' = count, round' = round,
         exists' = exists,
         \A g \in Thread : released[g] # 0 => a0'[g] = a0[g] /\ Says(g)' = Says(g)
  PROVE  Rounds'
<1>1. ASSUME NEW b \in Barrier, NEW n \in 1 .. MaxRound, NEW A, NEW s, ReleasedAs(b, n, A, s)
      PROVE  ReleasedAs(b, n, A, s)'
  <2>1. n # 0
    OBVIOUS
  <2> QED
    BY <1>1, <2>1 DEF ReleasedAs
<1> QED
  BY <1>1 DEF Rounds

\* Every step keeps the argument about the barriers.
LEMMA NextMeeting == TimeInv /\ LockInv /\ MeetInv /\ [Next]_vars => MeetInv'
<1> SUFFICES ASSUME TimeInv, LockInv, MeetInv, [Next]_vars PROVE MeetInv'
  OBVIOUS
<1> USE DEF TimeInv, TimeType, LockInv, LockType, MeetInv, MeetType, objects, call, ports,
            history, Calls, Answer, Goto
<1>1. ASSUME Tick PROVE MeetInv'
  <2> USE <1>1 DEF Tick
  <2>1. MeetType'
    BY ClockAssumption
  <2>2. OnTheWay'
    BY DEF OnTheWay
  <2>3. Arrivals'
    BY DEF Arrivals
  <2>4. Rounds'
    <3>1. \A g \in Thread : released[g] # 0 => a0'[g] = a0[g] /\ Says(g)' = Says(g)
      BY DEF OnTheWay, Says, Places
    <3> QED
      BY <3>1, SameRounds
  <2> QED
    BY <2>1, <2>2, <2>3, <2>4
<1>2. ASSUME NEW h \in Thread, NEW c \in rom.commands, NEW x \in IdArg(c),
             NEW m \in MutexArg(h, c), NEW t \in NumberArg(c), Deo(h, c, x, m, t)
      PROVE  MeetInv'
  <2> USE <1>2 DEF Deo
  <2>1. MeetType'
    OBVIOUS
  <2>2. OnTheWay'
    BY DEF OnTheWay, Places
  <2>3. Arrivals'
    BY DEF Arrivals
  <2>4. Rounds'
    <3>1. \A g \in Thread : released[g] # 0 => a0'[g] = a0[g] /\ Says(g)' = Says(g)
      BY DEF OnTheWay, Says, Places
    <3> QED
      BY <3>1, SameRounds
  <2> QED
    BY <2>1, <2>2, <2>3, <2>4
<1>3. ASSUME NEW h \in Thread, Read(h) PROVE MeetInv'
  <2> USE <1>3 DEF Read
  <2>a. ASSUME cmd[h] = "BARRIER_WAIT", status[h] = "OK"
        PROVE  /\ a0[h] \in Barrier /\ released[h] \in 1 .. MaxRound /\ r0[h] \in {0, 1}
               /\ released[h] <= round[a0[h]]
    <3>1. released[h] # 0
      BY <2>a DEF OnTheWay
    <3> QED
      BY <2>a, <3>1 DEF OnTheWay, Places
  <2>b. \A b \in Barrier, n \in 1 .. MaxRound, g \in Thread, r \in {0, 1} :
          <<b, n, g, r>> \in seen' =>
            \/ <<b, n, g, r>> \in seen
            \/ /\ b = a0[h] /\ n = released[h] /\ g = h /\ r = r0[h]
               /\ n <= round[b]
    <3>1. CASE cmd[h] = "BARRIER_WAIT" /\ status[h] = "OK"
      BY <2>a, <3>1
    <3>2. CASE ~(cmd[h] = "BARRIER_WAIT" /\ status[h] = "OK")
      BY <3>2
    <3> QED
      BY <3>1, <3>2
  <2>1. MeetType'
    <3>1. seen' \subseteq Barrier \X (1 .. MaxRound) \X Thread \X {0, 1}
      <4>1. CASE cmd[h] = "BARRIER_WAIT" /\ status[h] = "OK"
        BY <2>a, <4>1
      <4>2. CASE ~(cmd[h] = "BARRIER_WAIT" /\ status[h] = "OK")
        BY <4>2
      <4> QED
        BY <4>1, <4>2
    <3> QED
      BY <3>1, ClockAssumption
  <2>2. OnTheWay'
    BY DEF OnTheWay, Places
  <2>3. Arrivals'
    BY DEF Arrivals
  <2>4. Rounds'
    <3>1. /\ released' = [released EXCEPT ![h] = 0] /\ pc' = [pc EXCEPT ![h] = "rom"]
          /\ r0' = [r0 EXCEPT ![h] = 0] /\ a0' = [a0 EXCEPT ![h] = NoId]
          /\ pc[h] = "answered" /\ UNCHANGED <<exists, count, round>>
      OBVIOUS
    <3>2. ASSUME NEW b \in Barrier, NEW n \in 1 .. MaxRound, NEW A, NEW s,
                 ReleasedAs(b, n, A, s)
          PROVE  ReleasedAs(b, n, A, s)'
      <4>1. n # 0
        OBVIOUS
      <4>2. \A g \in Thread : released'[g] = n /\ a0'[g] = b => g \in A /\ Says(g)' = Serial(g, s)
        BY <3>1, <3>2, <4>1 DEF ReleasedAs, Says
      <4>3. \A g \in Thread, r \in {0, 1} : <<b, n, g, r>> \in seen' => g \in A /\ r = Serial(g, s)
        BY <2>b, <3>1, <3>2 DEF ReleasedAs, Says
      <4> QED
        BY <3>1, <3>2, <4>2, <4>3 DEF ReleasedAs
    <3>3. \A b \in Barrier, n \in 1 .. MaxRound, g \in Thread, r \in {0, 1} :
            <<b, n, g, r>> \in seen' => n <= round[b]
      BY <2>b DEF Rounds
    <3> QED
      BY ONLY Rounds, <3>1, <3>2, <3>3 DEF Rounds
  <2> QED
    BY <2>1, <2>2, <2>3, <2>4
<1>4. ASSUME NEW h \in Thread, NEW x \in Id, Create(h, x) PROVE MeetInv'
  <2> USE <1>4 DEF Create
  <2>a. released[h] = 0
    BY DEF OnTheWay, Places, Creates
  <2>b. ASSUME x \in Barrier
        PROVE  arrived[x] = {} /\ round[x] = 0 /\ count' = [count EXCEPT ![x] = a2[h]] /\ a2[h] > 0
    <3>1. cmd[h] = "BARRIER_CREATE"
      BY <2>b, TablesAssumption DEF Places, Creates, Kind, OnMutex
    <3>2. \A g \in arrived[x] : FALSE
      BY <2>b DEF Places, OnTheWay
    <3> QED
      BY <2>b, <3>1, <3>2 DEF Rounds
  <2>c. x \notin Barrier => count' = count
    OBVIOUS
  <2>1. MeetType'
    OBVIOUS
  <2>2. OnTheWay'
    BY <2>a DEF OnTheWay, Places, Creates
  <2>3. Arrivals'
    <3>1. CASE x \in Barrier
      <4>1. \A b \in Barrier : IsFiniteSet(arrived[b])
        BY DEF Arrivals
      <4>2. \A b \in Barrier : b \in exists' => Cardinality(arrived[b]) < count'[b]
        BY <2>b, <3>1, FS_EmptySet DEF Arrivals
      <4> QED
        BY <4>1, <4>2 DEF Arrivals
    <3>2. CASE x \notin Barrier
      BY <2>c, <3>2 DEF Arrivals
    <3> QED
      BY <3>1, <3>2
  <2>4. Rounds'
    <3>1. /\ UNCHANGED <<released, seen, round, a0>> /\ exists \subseteq exists'
          /\ \A g \in Thread : released[g] # 0 => Says(g)' = Says(g)
      BY <2>a DEF Says
    <3>2. \A b \in Barrier : round[b] # 0 => count'[b] = count[b]
      BY <2>b, <2>c
    <3>3. ASSUME NEW b \in Barrier, NEW n \in 1 .. MaxRound, n <= round[b], NEW A, NEW s,
                 ReleasedAs(b, n, A, s)
          PROVE  ReleasedAs(b, n, A, s)'
      <4>1. n # 0 /\ round[b] # 0
        BY <3>3
      <4> QED
        BY <3>1, <3>2, <3>3, <4>1 DEF ReleasedAs
    <3> QED
      BY ONLY Rounds, <3>1, <3>3 DEF Rounds
  <2> QED
    BY <2>1, <2>2, <2>3, <2>4
<1>5. ASSUME NEW h \in Thread, Destroy(h) PROVE MeetInv'
  <2> USE <1>5 DEF Destroy
  <2>a. released[h] = 0 /\ \A g \in Thread : released[g] # 0 => a0[g] # a0[h]
    <3>1. pc[h] = "destroy" /\ released[h] = 0
      BY DEF OnTheWay, Places, Destroys
    <3>2. \A g \in Thread : released[g] # 0 => g # h /\ pc[g] # "rom"
      BY <3>1 DEF OnTheWay
    <3>3. \A g \in Thread : g # h /\ pc[g] # "rom" => a0[g] # a0[h]
      BY ONLY <3>1, LockInv DEF LockInv, Alone
    <3> QED
      BY <3>1, <3>2, <3>3
  <2>b. /\ exists' = exists \ {a0[h]}
        /\ \A b \in Barrier : round'[b] = IF b = a0[h] THEN 0 ELSE round[b]
        /\ UNCHANGED <<released, count, a0, arrived>>
    OBVIOUS
  <2>1. MeetType'
    BY ClockAssumption
  <2>2. OnTheWay'
    <3>1. \A g \in Thread : g # h /\ cmd[g] = "BARRIER_WAIT" /\ pc[g] \in {"call", "at_barrier"}
                              => a0[g] # a0[h]
      BY DEF Alone
    <3>2. /\ pc' = [pc EXCEPT ![h] = "answered"] /\ cmd[h] # "BARRIER_WAIT"
          /\ UNCHANGED <<cmd, a0, r0>> /\ \A g \in Thread : g # h => status'[g] = status[g]
          /\ pc \in [Thread -> Pc]
      BY DEF Places, Destroys
    <3>3. \A g \in Thread : released[g] # 0 => a0[g] \in Barrier
      BY DEF OnTheWay, Places
    <3> QED
      BY ONLY <2>a, <2>b, <3>1, <3>2, <3>3, OnTheWay DEF OnTheWay
  <2>3. Arrivals'
    BY DEF Arrivals
  <2>4. Rounds'
    <3>1. \A g \in Thread : released[g] # 0 => Says(g)' = Says(g)
      BY <2>a DEF Says
    <3>2. \A b \in Barrier, n \in 1 .. MaxRound, g \in Thread, r \in {0, 1} :
            <<b, n, g, r>> \in seen' => <<b, n, g, r>> \in seen /\ b # a0[h]
      OBVIOUS
    <3>3. ASSUME NEW b \in Barrier, NEW n \in 1 .. MaxRound, NEW A, NEW s, ReleasedAs(b, n, A, s)
          PROVE  ReleasedAs(b, n, A, s)'
      <4>1. n # 0
        OBVIOUS
      <4> QED
        BY <2>b, <3>1, <3>2, <3>3, <4>1 DEF ReleasedAs
    <3>4. \A b \in Barrier, n \in 1 .. MaxRound : n <= round'[b] => n <= round[b]
      BY <2>b
    <3>5. \A b \in Barrier, n \in 1 .. MaxRound, g \in Thread, r \in {0, 1} :
            <<b, n, g, r>> \in seen' => n <= round'[b]
      BY <2>b, <3>2 DEF Rounds
    <3>6. \A b \in Barrier : b \notin exists' => round'[b] = 0
      BY <2>b DEF Rounds
    <3> QED
      BY ONLY Rounds, <3>3, <3>4, <3>5, <3>6 DEF Rounds
  <2> QED
    BY <2>1, <2>2, <2>3, <2>4
<1>6. ASSUME NEW h \in Thread, Lookup(h) PROVE MeetInv'
  <2> USE <1>6 DEF Lookup, AfterLookup
  <2>1. MeetType'
    OBVIOUS
  <2>2. OnTheWay'
    BY DEF OnTheWay, Places
  <2>3. Arrivals'
    BY DEF Arrivals
  <2>4. Rounds'
    <3>1. \A g \in Thread : released[g] # 0 => a0'[g] = a0[g] /\ Says(g)' = Says(g)
      BY DEF OnTheWay, Says, Places
    <3> QED
      BY <3>1, SameRounds
  <2> QED
    BY <2>1, <2>2, <2>3, <2>4
<1>7. ASSUME NEW h \in Thread, LookupMutex(h) PROVE MeetInv'
  <2> USE <1>7 DEF LookupMutex
  <2>1. MeetType'
    OBVIOUS
  <2>2. OnTheWay'
    BY DEF OnTheWay, Places, Waits
  <2>3. Arrivals'
    BY DEF Arrivals
  <2>4. Rounds'
    <3>1. \A g \in Thread : released[g] # 0 => a0'[g] = a0[g] /\ Says(g)' = Says(g)
      BY DEF OnTheWay, Says, Places
    <3> QED
      BY <3>1, SameRounds
  <2> QED
    BY <2>1, <2>2, <2>3, <2>4
<1>8. ASSUME NEW h \in Thread, ReadClock(h) PROVE MeetInv'
  <2> USE <1>8 DEF ReadClock
  <2>1. MeetType'
    OBVIOUS
  <2>2. OnTheWay'
    BY DEF OnTheWay, Places
  <2>3. Arrivals'
    BY DEF Arrivals
  <2>4. Rounds'
    <3>1. \A g \in Thread : released[g] # 0 => a0'[g] = a0[g] /\ Says(g)' = Says(g)
      BY DEF OnTheWay, Says, Places
    <3> QED
      BY <3>1, SameRounds
  <2> QED
    BY <2>1, <2>2, <2>3, <2>4
<1>9. ASSUME NEW h \in Thread, Lock(h) PROVE MeetInv'
  <2> USE <1>9 DEF Lock
  <2>1. MeetType'
    OBVIOUS
  <2>2. OnTheWay'
    BY DEF OnTheWay, Places
  <2>3. Arrivals'
    BY DEF Arrivals
  <2>4. Rounds'
    <3>1. \A g \in Thread : released[g] # 0 => a0'[g] = a0[g] /\ Says(g)' = Says(g)
      BY DEF OnTheWay, Says, Places
    <3> QED
      BY <3>1, SameRounds
  <2> QED
    BY <2>1, <2>2, <2>3, <2>4
<1>10. ASSUME NEW h \in Thread, Unlock(h) PROVE MeetInv'
  <2> USE <1>10 DEF Unlock
  <2>1. MeetType'
    OBVIOUS
  <2>2. OnTheWay'
    BY DEF OnTheWay, Places
  <2>3. Arrivals'
    BY DEF Arrivals
  <2>4. Rounds'
    <3>1. \A g \in Thread : released[g] # 0 => a0'[g] = a0[g] /\ Says(g)' = Says(g)
      BY DEF OnTheWay, Says, Places
    <3> QED
      BY <3>1, SameRounds
  <2> QED
    BY <2>1, <2>2, <2>3, <2>4
<1>11. ASSUME NEW h \in Thread, TryLock(h) PROVE MeetInv'
  <2> USE <1>11 DEF TryLock
  <2>1. MeetType'
    OBVIOUS
  <2>2. OnTheWay'
    BY DEF OnTheWay, Places
  <2>3. Arrivals'
    BY DEF Arrivals
  <2>4. Rounds'
    <3>1. \A g \in Thread : released[g] # 0 => a0'[g] = a0[g] /\ Says(g)' = Says(g)
      BY DEF OnTheWay, Says, Places
    <3> QED
      BY <3>1, SameRounds
  <2> QED
    BY <2>1, <2>2, <2>3, <2>4
<1>12. ASSUME NEW h \in Thread, Sleep(h) PROVE MeetInv'
  <2> USE <1>12 DEF Sleep
  <2>1. MeetType'
    OBVIOUS
  <2>2. OnTheWay'
    BY DEF OnTheWay, Places
  <2>3. Arrivals'
    BY DEF Arrivals
  <2>4. Rounds'
    <3>1. \A g \in Thread : released[g] # 0 => a0'[g] = a0[g] /\ Says(g)' = Says(g)
      BY DEF OnTheWay, Says, Places
    <3> QED
      BY <3>1, SameRounds
  <2> QED
    BY <2>1, <2>2, <2>3, <2>4
<1>13. ASSUME NEW h \in Thread, Signal(h) PROVE MeetInv'
  <2> USE <1>13 DEF Signal, Asleep
  <2>1. MeetType'
    OBVIOUS
  <2>2. OnTheWay'
    BY DEF OnTheWay, Places
  <2>3. Arrivals'
    BY DEF Arrivals
  <2>4. Rounds'
    <3>1. \A g \in Thread : released[g] # 0 => a0'[g] = a0[g] /\ Says(g)' = Says(g)
      BY DEF OnTheWay, Says, Places
    <3> QED
      BY <3>1, SameRounds
  <2> QED
    BY <2>1, <2>2, <2>3, <2>4
<1>14. ASSUME NEW h \in Thread, Broadcast(h) PROVE MeetInv'
  <2> USE <1>14 DEF Broadcast, Asleep
  <2>1. MeetType'
    OBVIOUS
  <2>2. OnTheWay'
    BY DEF OnTheWay, Places
  <2>3. Arrivals'
    BY DEF Arrivals
  <2>4. Rounds'
    <3>1. \A g \in Thread : released[g] # 0 => a0'[g] = a0[g] /\ Says(g)' = Says(g)
      BY DEF OnTheWay, Says, Places
    <3> QED
      BY <3>1, SameRounds
  <2> QED
    BY <2>1, <2>2, <2>3, <2>4
<1>15. ASSUME NEW h \in Thread, Expire(h) PROVE MeetInv'
  <2> USE <1>15 DEF Expire
  <2>1. MeetType'
    OBVIOUS
  <2>2. OnTheWay'
    BY DEF OnTheWay, Places
  <2>3. Arrivals'
    BY DEF Arrivals
  <2>4. Rounds'
    <3>1. \A g \in Thread : released[g] # 0 => a0'[g] = a0[g] /\ Says(g)' = Says(g)
      BY DEF OnTheWay, Says, Places
    <3> QED
      BY <3>1, SameRounds
  <2> QED
    BY <2>1, <2>2, <2>3, <2>4
<1>16. ASSUME NEW h \in Thread, WaitReturn(h) PROVE MeetInv'
  <2> USE <1>16 DEF WaitReturn
  <2>1. MeetType'
    OBVIOUS
  <2>2. OnTheWay'
    BY DEF OnTheWay, Places, Waits
  <2>3. Arrivals'
    BY DEF Arrivals
  <2>4. Rounds'
    <3>1. \A g \in Thread : released[g] # 0 => a0'[g] = a0[g] /\ Says(g)' = Says(g)
      BY DEF OnTheWay, Says, Places
    <3> QED
      BY <3>1, SameRounds
  <2> QED
    BY <2>1, <2>2, <2>3, <2>4
<1>17. ASSUME NEW h \in Thread, NEW s \in Thread, Arrive(h, s) PROVE MeetInv'
  <2> USE <1>17 DEF Arrive
  <2>a. a0[h] \in Barrier /\ a0[h] \in exists /\ cmd[h] = "BARRIER_WAIT" /\ released[h] = 0
    BY DEF Places, OnTheWay
  <2>1. PICK b \in Barrier : b = a0[h]
    BY <2>a
  <2>2. PICK all \in SUBSET Thread : all = arrived[b] \cup {h}
    BY <2>a
  <2>b. IsFiniteSet(all) /\ Cardinality(all) \in Nat /\ Cardinality(all) <= count[b]
    <3>1. IsFiniteSet(arrived[b]) /\ Cardinality(arrived[b]) < count[b]
      BY <2>a, <2>1 DEF Arrivals
    <3>2. /\ IsFiniteSet(arrived[b] \cup {h})
          /\ Cardinality(arrived[b] \cup {h}) =
               IF h \in arrived[b] THEN Cardinality(arrived[b]) ELSE Cardinality(arrived[b]) + 1
      BY ONLY <3>1, FS_AddElement
    <3>3. Cardinality(arrived[b]) \in Nat /\ count[b] \in Nat
      BY <3>1, FS_CardinalityType
    <3> QED
      BY ONLY <2>2, <3>1, <3>2, <3>3
  <2>c. \A g \in all : /\ g \in Thread /\ a0[g] = b /\ cmd[g] = "BARRIER_WAIT" /\ released[g] = 0
                       /\ pc[g] \in {"call", "at_barrier"}
    <3>1. \A g \in arrived[b] : g \in Thread /\ pc[g] = "at_barrier" /\ a0[g] = b
      BY DEF Places
    <3>2. \A g \in Thread : pc[g] = "at_barrier" => cmd[g] = "BARRIER_WAIT" /\ released[g] = 0
      BY DEF Places, OnTheWay
    <3>3. h \in Thread /\ pc[h] = "call"
      OBVIOUS
    <3> QED
      BY ONLY <2>a, <2>1, <2>2, <3>1, <3>2, <3>3
  <2>d. UNCHANGED <<exists, count, now, cmd, a0, r0, status, called, seen>>
    OBVIOUS
  <2>e. CASE Cardinality(all) < count[b]
    <3>1. /\ arrived' = [arrived EXCEPT ![b] = all] /\ pc' = [pc EXCEPT ![h] = "at_barrier"]
          /\ UNCHANGED <<round, released>>
      BY <2>1, <2>2, <2>e
    <3>2. MeetType'
      BY <2>d, <3>1
    <3>3. OnTheWay'
      BY <2>a, <2>d, <3>1 DEF OnTheWay
    <3>4. Arrivals'
      BY <2>a, <2>b, <2>d, <2>e, <3>1 DEF Arrivals
    <3>5. \A g \in Thread : released[g] # 0 => a0'[g] = a0[g] /\ Says(g)' = Says(g)
      BY <2>a, <2>d, <3>1 DEF Says
    <3>6. Rounds'
      BY <2>d, <3>1, <3>5, SameRounds
    <3> QED
      BY <3>2, <3>3, <3>4, <3>6
  <2>f. CASE ~(Cardinality(all) < count[b])
    <3>1. /\ s \in all /\ arrived' = [arrived EXCEPT ![b] = {}]
          /\ round' = [round EXCEPT ![b] = round[b] + 1] /\ round[b] < MaxRound
          /\ pc' = [g \in Thread |-> IF g = s THEN "serial" ELSE IF g \in all THEN "plain" ELSE pc[g]]
          /\ released' = [g \in Thread |-> IF g \in all THEN round[b] + 1 ELSE released[g]]
      BY <2>1, <2>2, <2>f
    <3>2. Cardinality(all) = count[b]
      <4>1. count[b] \in Nat
        OBVIOUS
      <4> QED
        BY ONLY <2>b, <2>f, <4>1
    <3>n. PICK last \in 1 .. MaxRound : last = round[b] + 1
      <4>1. round[b] \in Nat /\ MaxRound \in Nat
        BY ClockAssumption
      <4>2. round[b] + 1 \in 1 .. MaxRound
        BY ONLY <3>1, <4>1
      <4> QED
        BY <4>2
    <3>3. MeetType'
      BY <2>a, <2>d, <3>1, <3>n, ClockAssumption
    <3>4. \A g \in Thread :
            /\ g \in all => a0[g] = b /\ released'[g] = last /\ cmd[g] = "BARRIER_WAIT"
                            /\ pc'[g] = (IF g = s THEN "serial" ELSE "plain")
            /\ g \notin all => released'[g] = released[g] /\ pc'[g] = pc[g]
      BY ONLY <2>c, <3>1, <3>n
    <3>5. \A g \in Thread : Says(g)' = IF g \in all THEN Serial(g, s) ELSE Says(g)
      BY <2>d, <3>4 DEF Says, Serial
    <3>6. /\ round'[b] = last /\ last \in Nat /\ round[b] \in Nat /\ last = round[b] + 1
          /\ \A x \in Barrier : x # b => round'[x] = round[x]
      BY <2>a, <3>1, <3>n
    <3>7. OnTheWay'
      BY <2>d, <3>4, <3>6 DEF OnTheWay, Places
    <3>8. Arrivals'
      BY <2>a, <2>b, <2>d, <3>1, <3>2, FS_EmptySet DEF Arrivals
    <3>9. ReleasedAs(b, last, all, s)'
      <4>1. \A g \in Thread : released[g] = last /\ a0[g] = b => FALSE
        BY <3>6 DEF OnTheWay
      <4>2. \A g \in Thread : released'[g] = last /\ a0'[g] = b
                              => g \in all /\ Says(g)' = Serial(g, s)
        BY ONLY <2>d, <3>4, <3>5, <4>1
      <4>3. \A g \in Thread, r \in {0, 1} : <<b, last, g, r>> \notin seen
        <5>1. ~(last <= round[b])
          BY ONLY <3>6
        <5> QED
          BY ONLY <5>1, Rounds DEF Rounds
      <4>4. s \in all /\ IsFiniteSet(all) /\ Cardinality(all) = count[b]
        BY <2>b, <3>1, <3>2
      <4> QED
        BY ONLY <2>d, <4>2, <4>3, <4>4 DEF ReleasedAs
    <3>10. ASSUME NEW x \in Barrier, NEW n \in 1 .. MaxRound, n <= round[x], NEW A, NEW z,
                  ReleasedAs(x, n, A, z)
           PROVE  ReleasedAs(x, n, A, z)'
      <4>1. \A g \in Thread : released'[g] = n /\ a0'[g] = x => released[g] = n /\ g \notin all
        BY <2>d, <3>4, <3>6, <3>10
      <4>2. \A g \in Thread : released'[g] = n /\ a0'[g] = x => g \in A /\ Says(g)' = Serial(g, z)
        BY <2>d, <3>5, <3>10, <4>1 DEF ReleasedAs
      <4> QED
        BY <2>d, <3>10, <4>2 DEF ReleasedAs
    <3>11. Rounds'
      <4>1. ASSUME NEW x \in Barrier, NEW n \in 1 .. MaxRound, n <= round'[x]
            PROVE  \E A \in SUBSET Thread, z \in Thread : ReleasedAs(x, n, A, z)'
        <5>1. CASE x = b /\ n = last
          BY ONLY <3>1, <3>9, <5>1
        <5>2. CASE ~(x = b /\ n = last)
          <6>1. n <= round[x]
            BY ONLY <3>6, <4>1, <5>2
          <6> QED
            BY ONLY <3>10, <6>1, Rounds DEF Rounds
        <5> QED
          BY <5>1, <5>2
      <4>2. \A x \in Barrier : round[x] \in Nat /\ round[x] <= round'[x]
        BY <3>6
      <4>3. \A x \in Barrier, n \in 1 .. MaxRound, g \in Thread, r \in {0, 1} :
              <<x, n, g, r>> \in seen' => n <= round'[x]
        <5>1. \A x \in Barrier : round'[x] \in Nat
          BY <3>3 DEF MeetType
        <5> SUFFICES ASSUME NEW x \in Barrier, NEW n \in 1 .. MaxRound, NEW g \in Thread,
                            NEW r \in {0, 1}, <<x, n, g, r>> \in seen'
                     PROVE  n <= round'[x]
          OBVIOUS
        <5>2. n <= round[x]
          BY ONLY <2>d, <<x, n, g, r>> \in seen', Rounds DEF Rounds
        <5> QED
          BY ONLY <4>2, <5>1, <5>2
      <4>4. \A x \in Barrier : x \notin exists' => round'[x] = 0
        BY <2>a, <2>1, <2>d, <3>6 DEF Rounds
      <4> QED
        BY ONLY <4>1, <4>3, <4>4 DEF Rounds
    <3> QED
      BY <3>3, <3>7, <3>8, <3>11
  <2> QED
    BY <2>e, <2>f
<1>18. ASSUME NEW h \in Thread, BarrierReturn(h) PROVE MeetInv'
  <2> USE <1>18 DEF BarrierReturn
  <2>1. MeetType'
    OBVIOUS
  <2>2. OnTheWay'
    BY DEF OnTheWay, Places
  <2>3. Arrivals'
    BY DEF Arrivals
  <2>4. Rounds'
    <3>1. \A g \in Thread : released[g] # 0 => a0'[g] = a0[g] /\ Says(g)' = Says(g)
      BY DEF OnTheWay, Says, Places
    <3> QED
      BY <3>1, SameRounds
  <2> QED
    BY <2>1, <2>2, <2>3, <2>4
<1>19. ASSUME NEW h \in Thread, CreateFail(h) PROVE MeetInv'
  <2> USE <1>19 DEF CreateFail
  <2>1. MeetType'
    OBVIOUS
  <2>2. OnTheWay'
    BY DEF OnTheWay, Places
  <2>3. Arrivals'
    BY DEF Arrivals
  <2>4. Rounds'
    <3>1. \A g \in Thread : released[g] # 0 => a0'[g] = a0[g] /\ Says(g)' = Says(g)
      BY DEF OnTheWay, Says, Places
    <3> QED
      BY <3>1, SameRounds
  <2> QED
    BY <2>1, <2>2, <2>3, <2>4
<1>20. ASSUME NEW h \in Thread, ReadClockFail(h) PROVE MeetInv'
  <2> USE <1>20 DEF ReadClockFail
  <2>1. MeetType'
    OBVIOUS
  <2>2. OnTheWay'
    BY DEF OnTheWay, Places
  <2>3. Arrivals'
    BY DEF Arrivals
  <2>4. Rounds'
    <3>1. \A g \in Thread : released[g] # 0 => a0'[g] = a0[g] /\ Says(g)' = Says(g)
      BY DEF OnTheWay, Says, Places
    <3> QED
      BY <3>1, SameRounds
  <2> QED
    BY <2>1, <2>2, <2>3, <2>4
<1>21. ASSUME NEW h \in Thread, Refuse(h) PROVE MeetInv'
  <2> USE <1>21 DEF Refuse
  <2>1. MeetType'
    OBVIOUS
  <2>2. OnTheWay'
    BY DEF OnTheWay, Places
  <2>3. Arrivals'
    BY DEF Arrivals
  <2>4. Rounds'
    <3>1. \A g \in Thread : released[g] # 0 => a0'[g] = a0[g] /\ Says(g)' = Says(g)
      BY DEF OnTheWay, Says, Places
    <3> QED
      BY <3>1, SameRounds
  <2> QED
    BY <2>1, <2>2, <2>3, <2>4
<1>22. ASSUME NEW h \in Thread, WakeSpuriously(h) PROVE MeetInv'
  <2> USE <1>22 DEF WakeSpuriously
  <2>1. MeetType'
    OBVIOUS
  <2>2. OnTheWay'
    BY DEF OnTheWay, Places
  <2>3. Arrivals'
    BY DEF Arrivals
  <2>4. Rounds'
    <3>1. \A g \in Thread : released[g] # 0 => a0'[g] = a0[g] /\ Says(g)' = Says(g)
      BY DEF OnTheWay, Says, Places
    <3> QED
      BY <3>1, SameRounds
  <2> QED
    BY <2>1, <2>2, <2>3, <2>4
<1>23. CASE UNCHANGED vars
  <2>1. UNCHANGED <<exists, count, arrived, round, now, pc, cmd, a0, status, r0, called, released, seen>>
    BY ONLY <1>23 DEF vars, objects, call, ports, history
  <2>2. MeetType'
    BY ONLY <2>1, MeetInv DEF MeetInv, MeetType
  <2>3. OnTheWay'
    BY ONLY <2>1, MeetInv DEF MeetInv, OnTheWay
  <2>4. Arrivals'
    BY ONLY <2>1, MeetInv DEF MeetInv, Arrivals
  <2>5. \A g \in Thread : released[g] # 0 => a0'[g] = a0[g] /\ Says(g)' = Says(g)
    BY ONLY <2>1 DEF Says
  <2>6. Rounds'
    BY <2>1, <2>5, SameRounds
  <2> QED
    BY <2>2, <2>3, <2>4, <2>6
<1> QED
  BY <1>1, <1>2, <1>3, <1>4, <1>5, <1>6, <1>7, <1>8, <1>9, <1>10, <1>11, <1>12, <1>13, <1>14, <1>15, <1>16, <1>17, <1>18, <1>19, <1>20, <1>21, <1>22, <1>23 DEF Next, Rom, Device, Hindrance

\* The answers of release n of barrier b, and the serial ones among them.
Answers(b, n) == {e \in seen : e[1] = b /\ e[2] = n}
Serials(b, n) == {e \in Answers(b, n) : e[4] = 1}

\* The account of the releases gives each of them one serial answer.
LEMMA OneAnswerEach == MeetInv => OneSerial
<1> SUFFICES ASSUME MeetInv, NEW b \in Barrier, NEW n \in 1 .. MaxRound
             PROVE  /\ Cardinality(Answers(b, n)) <= count[b]
                    /\ Cardinality(Serials(b, n)) <= 1
                    /\ Cardinality(Answers(b, n)) = count[b] /\ Answers(b, n) # {}
                         => Cardinality(Serials(b, n)) = 1
  BY DEF OneSerial, Answers, Serials
<1> DEFINE answers == Answers(b, n)
           serials == Serials(b, n)
<1>1. count[b] \in Nat /\ seen \subseteq Barrier \X (1 .. MaxRound) \X Thread \X {0, 1}
  BY DEF MeetInv, MeetType
<1>2. CASE answers = {}
  <2>1. serials = {}
    BY <1>2 DEF Serials
  <2> QED
    BY ONLY <1>1, <1>2, <2>1, FS_EmptySet
<1>3. CASE answers # {}
  <2>1. \A e \in answers : /\ e = <<b, n, e[3], e[4]>> /\ e \in seen
                           /\ e[3] \in Thread /\ e[4] \in {0, 1}
    BY <1>1 DEF Answers
  <2>2. PICK A \in SUBSET Thread, s \in Thread : ReleasedAs(b, n, A, s)
    <3>1. PICK e \in answers : TRUE
      BY <1>3
    <3>2. n <= round[b]
      BY <2>1, <3>1 DEF MeetInv, Rounds
    <3> QED
      BY <3>2 DEF MeetInv, Rounds
  <2>3. \A e \in answers : e[3] \in A /\ e = <<b, n, e[3], Serial(e[3], s)>>
    <3>1. \A g \in Thread, r \in {0, 1} : <<b, n, g, r>> \in seen => g \in A /\ r = Serial(g, s)
      BY <2>2 DEF ReleasedAs
    <3> QED
      BY ONLY <2>1, <3>1
  <2>4. IsFiniteSet(A) /\ Cardinality(A) = count[b] /\ s \in A
    BY <2>2 DEF ReleasedAs
  <2> DEFINE f == [e \in answers |-> e[3]]
  <2>5. \A e \in serials : e = <<b, n, s, 1>>
    BY <2>3 DEF Serials, Serial
  <2>6. <<b, n, s, 1>> \in answers => <<b, n, s, 1>> \in serials
    BY DEF Serials
  <2> HIDE DEF answers, serials
  <2>7. f \in Injection(answers, A)
    BY <2>3 DEF Injection, IsInjective
  <2>8. IsFiniteSet(serials) /\ Cardinality(serials) <= 1
    <3>1. serials \in SUBSET {<<b, n, s, 1>>}
      BY <2>5
    <3>2. IsFiniteSet({<<b, n, s, 1>>}) /\ Cardinality({<<b, n, s, 1>>}) = 1
      BY FS_Singleton
    <3> QED
      BY ONLY <3>1, <3>2, FS_Subset
  <2>9. /\ Cardinality(answers) <= Cardinality(A)
        /\ Cardinality(answers) = Cardinality(A) => f \in Surjection(answers, A)
    <3> HIDE DEF f
    <3> QED
      BY <2>4, <2>7, FS_Injection
  <2>10. ASSUME Cardinality(answers) = count[b] PROVE Cardinality(serials) = 1
    <3>1. PICK e \in answers : f[e] = s
      BY <2>4, <2>9, <2>10 DEF Surjection
    <3>2. e = <<b, n, s, 1>>
      BY <2>3, <3>1 DEF Serial
    <3>3. serials = {<<b, n, s, 1>>}
      BY <2>5, <2>6, <3>1, <3>2
    <3> QED
      BY <3>3, FS_Singleton
  <2> QED
    BY ONLY <2>4, <2>8, <2>9, <2>10 DEF answers, serials
<1> QED
  BY <1>2, <1>3

\* Every variable keeps its type, and each release of a barrier is answered to as many
\* threads as its count at most, to exactly one of them as the serial one when all have
\* read their answers, in whatever order they read them and however many releases later
\* (threads.c:773, README.md:487).
THEOREM OneSerialAnswer == Spec => []Sound
<1>1. TimeInv /\ LockInv /\ MeetInv => Sound
  <2> SUFFICES ASSUME TimeInv, LockInv, MeetInv PROVE Sound
    OBVIOUS
  <2>1. TypeOK
    BY DEF TypeOK, TimeInv, TimeType, LockInv, LockType, MeetInv, MeetType
  <2> QED
    BY <2>1, OneAnswerEach DEF Sound
<1>2. Init => TimeInv /\ LockInv /\ MeetInv
  BY InitTime, InitLocks, InitMeeting
<1>3. TimeInv /\ LockInv /\ MeetInv /\ [Next]_vars => TimeInv' /\ LockInv' /\ MeetInv'
  BY NextTime, NextLocks, NextMeeting
<1> QED
  BY <1>1, <1>2, <1>3, PTL DEF Spec
=============================================================================
