---------------------------- MODULE SyncCommands ----------------------------
(***************************************************************************)
(* The commands of the Threads device on mutexes, conditions and barriers  *)
(* (threads_deo in devices/threads.c) on top of the C library's functions, *)
(* and what a ROM may conclude from their answers.                         *)
(*                                                                         *)
(* A handler looks its handles up, each in one atomic access to a table    *)
(* (HandleTable shows that it is one), calls the library with the pointers *)
(* it found, and translates the result to the ports.  The pointers are     *)
(* used after the table's lock is released: nothing but the ROM keeps the  *)
(* object alive, so the ROM of this module destroys only what no thread    *)
(* uses, unlocks only what it holds, and waits only on a mutex it holds    *)
(* (README.md:304).  An object is named by its handle.                     *)
(***************************************************************************)
EXTENDS Integers, FiniteSets

CONSTANTS
  Thread, NoThread,
  Mutex, Cond, Barrier,     \* the handles of each table
  Stray,                    \* handles no CREATE gives, that a ROM may still make up
  NoId,                     \* the content of an argument port not used
  Programs,                 \* the ROMs: the commands each issues, on which ids, in which threads
  Counts,                   \* the counts it gives BARRIER_CREATE
  Timeouts,                 \* the milliseconds it gives COND_TIMEDWAIT
  MS_PER_SEC, NS_PER_MS,    \* 1000 and 1000000 in the code
  MaxTime, MaxRound         \* bounds of the clock and of a barrier's releases

Id == Mutex \cup Cond \cup Barrier

Creates  == {"MUTEX_CREATE", "COND_CREATE", "BARRIER_CREATE"}
Destroys == {"MUTEX_DESTROY", "COND_DESTROY", "BARRIER_DESTROY"}
OnMutex  == {"MUTEX_LOCK", "MUTEX_UNLOCK", "MUTEX_TRYLOCK"}
Waits    == {"COND_WAIT", "COND_TIMEDWAIT"}
Wakes    == {"COND_SIGNAL", "COND_BROADCAST"}
Command  == Creates \cup Destroys \cup OnMutex \cup Waits \cup Wakes \cup {"BARRIER_WAIT"}

\* The table a command's first argument is looked up in.
Kind(c) ==
  IF c \in OnMutex \cup {"MUTEX_CREATE", "MUTEX_DESTROY"} THEN Mutex
  ELSE IF c \in {"BARRIER_CREATE", "BARRIER_DESTROY", "BARRIER_WAIT"} THEN Barrier
  ELSE Cond

ASSUME ThreadAssumption  == NoThread \notin Thread
ASSUME IdAssumption      == NoId \notin Id /\ Stray \subseteq Id
ASSUME ProgramsAssumption ==
  Programs \subseteq [commands : SUBSET Command, ids : SUBSET Id, threads : SUBSET Thread]
ASSUME TablesAssumption  == /\ Mutex \cap Cond = {} /\ Mutex \cap Barrier = {}
                            /\ Cond \cap Barrier = {}
ASSUME NumberAssumption  == Counts \subseteq Nat /\ Timeouts \subseteq Nat
ASSUME ClockAssumption   == /\ MS_PER_SEC \in Nat \ {0} /\ NS_PER_MS \in Nat \ {0}
                            /\ MaxTime \in Nat /\ MaxRound \in Nat

NS_PER_SEC == MS_PER_SEC * NS_PER_MS

\* CondTimedWaitResult
Signalled   == 0
Timeout     == 1
InvalidArgs == 2
ClockFail   == 3

VARIABLES
  exists,           \* the handles that name an object
  owner,            \* the thread that has a mutex locked
  count, arrived,   \* a barrier's count, and who waits at it
  round,            \* how often a barrier was released
  now,              \* the clock, in nanoseconds
  pc, cmd, a0, a1,  \* where a thread is, its command and the command's handles
  a2, deadline,     \* the timeout of COND_TIMEDWAIT and the struct timespec
  status, r0,       \* the thread's own ports THREAD_STATUS and RETURN
  rom,              \* the ROM
  holds,            \* history: the mutexes the ROM's thread knows it has locked
  called,           \* history: when COND_TIMEDWAIT read the clock
  released,         \* history: the release of the barrier a thread came out of
  seen              \* history: the answers of BARRIER_WAIT the ROM has read

objects == <<exists, owner, count, arrived, round>>
call    == <<cmd, a0, a1, a2>>
ports   == <<status, r0>>
history == <<rom, holds, called, released, seen>>
vars    == <<objects, now, pc, call, deadline, ports, history>>

NoDeadline == [sec |-> 0, nsec |-> 0]

Init ==
  /\ exists = {}
  /\ owner = [m \in Mutex |-> NoThread]
  /\ count = [b \in Barrier |-> 0] /\ arrived = [b \in Barrier |-> {}]
  /\ round = [b \in Barrier |-> 0]
  /\ now = 0
  /\ pc = [h \in Thread |-> "rom"]
  /\ cmd = [h \in Thread |-> "none"]
  /\ a0 = [h \in Thread |-> NoId] /\ a1 = [h \in Thread |-> NoId]
  /\ a2 = [h \in Thread |-> 0] /\ deadline = [h \in Thread |-> NoDeadline]
  /\ status = [h \in Thread |-> "OK"] /\ r0 = [h \in Thread |-> 0]
  /\ rom \in Programs
  /\ holds = [h \in Thread |-> {}]
  /\ called = [h \in Thread |-> 0]
  /\ released = [h \in Thread |-> 0]
  /\ seen = {}

Goto(h, l) == pc' = [pc EXCEPT ![h] = l]

\* The handler leaves a status, and a result or the old one, and returns.
Answer(h, s, r) ==
  /\ status' = [status EXCEPT ![h] = s]
  /\ r0' = [r0 EXCEPT ![h] = r]
  /\ Goto(h, "answered")

-----------------------------------------------------------------------------
(* The ROM.                                                                *)

\* A thread is in a command on id x, or has it locked.
InUse(x) == \/ \E h \in Thread : pc[h] # "rom" /\ x \in {a0[h], a1[h]}
            \/ \E h \in Thread : x \in holds[h]

\* A thread is about to destroy x.
Doomed(x) == \E h \in Thread : pc[h] = "destroy" /\ a0[h] = x

\* What a ROM puts in the argument ports for command c: the handle, the mutex of
\* a wait, the number.
IdArg(c)       == IF c \in Creates THEN {NoId} ELSE Kind(c) \cap rom.ids
MutexArg(h, c) == IF c \in Waits THEN holds[h] \cup (Stray \cap Mutex \cap rom.ids) ELSE {NoId}
NumberArg(c)   == IF c = "COND_TIMEDWAIT" THEN Timeouts
                  ELSE IF c = "BARRIER_CREATE" THEN Counts ELSE {0}

\* The ROM writes the command port with x, m and t in the argument ports.
Deo(h, c, x, m, t) ==
  /\ pc[h] = "rom"
  /\ c = "MUTEX_UNLOCK" => x \in holds[h] \cup Stray
  /\ IF c \in Destroys THEN ~InUse(x) ELSE ~Doomed(x)
  /\ cmd' = [cmd EXCEPT ![h] = c]
  /\ a0' = [a0 EXCEPT ![h] = x]
  /\ a1' = [a1 EXCEPT ![h] = m]
  /\ a2' = [a2 EXCEPT ![h] = t]
  /\ Goto(h, IF c \in Creates THEN "create" ELSE IF c \in Destroys THEN "destroy" ELSE "lookup")
  /\ UNCHANGED <<objects, now, deadline, ports, history>>

\* What a thread knows it has locked, once it has read the answer.
HoldsNow(h) ==
  IF status[h] # "OK" THEN holds[h]
  ELSE CASE cmd[h] = "MUTEX_LOCK"    -> holds[h] \cup {a0[h]}
         [] cmd[h] = "MUTEX_UNLOCK"  -> holds[h] \ {a0[h]}
         [] cmd[h] = "MUTEX_TRYLOCK" -> IF r0[h] = 1 THEN holds[h] \cup {a0[h]} ELSE holds[h]
         [] OTHER                    -> holds[h]

\* The ROM reads the ports.
Read(h) ==
  /\ pc[h] = "answered"
  /\ holds' = [holds EXCEPT ![h] = HoldsNow(h)]
  /\ seen' = IF cmd[h] = "BARRIER_WAIT" /\ status[h] = "OK"
             THEN seen \cup {<<a0[h], released[h], h, r0[h]>>} ELSE seen
  /\ released' = [released EXCEPT ![h] = 0]
  /\ called' = [called EXCEPT ![h] = 0]
  /\ cmd' = [cmd EXCEPT ![h] = "none"]
  /\ a0' = [a0 EXCEPT ![h] = NoId] /\ a1' = [a1 EXCEPT ![h] = NoId]
  /\ a2' = [a2 EXCEPT ![h] = 0]
  /\ deadline' = [deadline EXCEPT ![h] = NoDeadline]
  /\ status' = [status EXCEPT ![h] = "OK"] /\ r0' = [r0 EXCEPT ![h] = 0]
  /\ Goto(h, "rom")
  /\ UNCHANGED <<objects, now, rom>>

-----------------------------------------------------------------------------
(* CREATE and DESTROY.                                                     *)

\* A free slot of the table gets a new object; a barrier its count.
Create(h, x) ==
  /\ pc[h] = "create" /\ x \in (Kind(cmd[h]) \cap rom.ids) \ (exists \cup Stray)
  /\ cmd[h] = "BARRIER_CREATE" => a2[h] # 0
  /\ exists' = exists \cup {x}
  /\ owner' = IF x \in Mutex THEN [owner EXCEPT ![x] = NoThread] ELSE owner
  /\ count' = IF x \in Barrier THEN [count EXCEPT ![x] = a2[h]] ELSE count
  /\ Answer(h, "OK", x)
  /\ UNCHANGED <<arrived, round, now, call, deadline, history>>

\* A barrier for nobody is refused, anything else only for want of memory.
CreateFail(h) ==
  /\ pc[h] = "create"
  /\ Answer(h, IF cmd[h] = "BARRIER_CREATE" /\ a2[h] = 0
               THEN "InvalidAttributes" ELSE "SystemResources", 0)
  /\ UNCHANGED <<objects, now, call, deadline, history>>

Destroy(h) ==
  /\ pc[h] = "destroy"
  /\ Answer(h, IF a0[h] \in exists THEN "OK" ELSE "ERROR", r0[h])
  /\ exists' = exists \ {a0[h]}
  /\ round' = IF a0[h] \in Barrier THEN [round EXCEPT ![a0[h]] = 0] ELSE round
  /\ seen' = {e \in seen : e[1] # a0[h]}
  /\ UNCHANGED <<owner, count, arrived, now, call, deadline, rom, holds, called, released>>

-----------------------------------------------------------------------------
(* The look-ups that every other command starts with.                      *)

\* A wait's second argument is a mutex, and a timed one reads the clock.
AfterLookup(c) ==
  IF c \in Waits THEN "lookup_mutex" ELSE "call"

\* What the handler leaves in the return port with STATUS_ERROR.
ErrorResult(h) == IF cmd[h] = "COND_TIMEDWAIT" THEN InvalidArgs ELSE r0[h]

Lookup(h) ==
  /\ pc[h] = "lookup"
  /\ IF a0[h] \in exists
     THEN Goto(h, AfterLookup(cmd[h])) /\ UNCHANGED ports
     ELSE Answer(h, "ERROR", ErrorResult(h))
  /\ UNCHANGED <<objects, now, call, deadline, history>>

LookupMutex(h) ==
  /\ pc[h] = "lookup_mutex"
  /\ IF a1[h] \in exists
     THEN /\ Goto(h, IF cmd[h] = "COND_TIMEDWAIT" THEN "clock" ELSE "call")
          /\ UNCHANGED ports
     ELSE Answer(h, "ERROR", ErrorResult(h))
  /\ UNCHANGED <<objects, now, call, deadline, history>>

\* Mutant: the seconds are not carried.
Deadline_NoCarry(t, ms) ==
  [sec  |-> t \div NS_PER_SEC + ms \div MS_PER_SEC,
   nsec |-> (t % NS_PER_SEC) + (ms % MS_PER_SEC) * NS_PER_MS]

\* Mutant: the milliseconds are added as seconds.
Deadline_Seconds(t, ms) ==
  [sec |-> t \div NS_PER_SEC + ms, nsec |-> t % NS_PER_SEC]

\* Mutant: the nanoseconds go back, the seconds do not go on.
Deadline_Early(t, ms) ==
  [sec  |-> t \div NS_PER_SEC + ms \div MS_PER_SEC,
   nsec |-> ((t % NS_PER_SEC) + (ms % MS_PER_SEC) * NS_PER_MS) % NS_PER_SEC]

\* The absolute deadline: ms milliseconds after the time t.
Deadline(t, ms) ==
  LET sec  == t \div NS_PER_SEC + ms \div MS_PER_SEC
      nsec == (t % NS_PER_SEC) + (ms % MS_PER_SEC) * NS_PER_MS
  IN IF nsec >= NS_PER_SEC
     THEN [sec |-> sec + 1, nsec |-> nsec - NS_PER_SEC]
     ELSE [sec |-> sec, nsec |-> nsec]

ReadClock(h) ==
  /\ pc[h] = "clock"
  /\ deadline' = [deadline EXCEPT ![h] = Deadline(now, a2[h])]
  /\ called' = [called EXCEPT ![h] = now]
  /\ Goto(h, "call")
  /\ UNCHANGED <<objects, now, call, ports, rom, holds, released, seen>>

ReadClockFail(h) ==
  /\ pc[h] = "clock"
  /\ Answer(h, "ERROR", ClockFail)
  /\ UNCHANGED <<objects, now, call, deadline, history>>

-----------------------------------------------------------------------------
(* The calls of the C library, and what the handlers make of the results.  *)

\* A timespec the library takes.
Valid(d) == d.nsec < NS_PER_SEC

Stamp(d) == d.sec * NS_PER_SEC + d.nsec

\* The library refuses: a timed wait only for its deadline, the others for
\* reasons of their own.  The objects stay as they are.
Refuse(h) ==
  /\ pc[h] = "call"
  /\ cmd[h] = "COND_TIMEDWAIT" => ~Valid(deadline[h])
  /\ Answer(h, "ERROR", ErrorResult(h))
  /\ UNCHANGED <<objects, now, call, deadline, history>>

Calls(h, c) == pc[h] = "call" /\ cmd[h] = c

Lock(h) ==
  /\ Calls(h, "MUTEX_LOCK") /\ owner[a0[h]] = NoThread
  /\ owner' = [owner EXCEPT ![a0[h]] = h]
  /\ Answer(h, "OK", r0[h])
  /\ UNCHANGED <<exists, count, arrived, round, now, call, deadline, history>>

Unlock(h) ==
  /\ Calls(h, "MUTEX_UNLOCK")
  /\ owner' = [owner EXCEPT ![a0[h]] = NoThread]
  /\ Answer(h, "OK", r0[h])
  /\ UNCHANGED <<exists, count, arrived, round, now, call, deadline, history>>

\* Mutant: the handler does not tell EBUSY from 0.
TryLock_BusyIsOk(h) ==
  /\ Calls(h, "MUTEX_TRYLOCK")
  /\ owner' = IF owner[a0[h]] = NoThread THEN [owner EXCEPT ![a0[h]] = h] ELSE owner
  /\ Answer(h, "OK", 1)
  /\ UNCHANGED <<exists, count, arrived, round, now, call, deadline, history>>

\* EBUSY is success too: only the return port says that it was not acquired.
TryLock(h) ==
  /\ Calls(h, "MUTEX_TRYLOCK")
  /\ IF owner[a0[h]] = NoThread
     THEN owner' = [owner EXCEPT ![a0[h]] = h] /\ Answer(h, "OK", 1)
     ELSE UNCHANGED owner /\ Answer(h, "OK", 0)
  /\ UNCHANGED <<exists, count, arrived, round, now, call, deadline, history>>

\* pthread_cond_wait and pthread_cond_timedwait release the mutex and sleep in
\* one step.
Sleep(h) ==
  /\ Calls(h, cmd[h]) /\ cmd[h] \in Waits
  /\ cmd[h] = "COND_TIMEDWAIT" => Valid(deadline[h])
  /\ owner' = [owner EXCEPT ![a1[h]] = NoThread]
  /\ Goto(h, "asleep")
  /\ UNCHANGED <<exists, count, arrived, round, now, call, deadline, ports, history>>

Asleep(x) == {h \in Thread : pc[h] = "asleep" /\ a0[h] = x}

\* pthread_cond_signal wakes one thread, if there is one.
Signal(h) ==
  /\ Calls(h, "COND_SIGNAL")
  /\ status' = [status EXCEPT ![h] = "OK"]
  /\ IF Asleep(a0[h]) = {}
     THEN Goto(h, "answered")
     ELSE \E g \in Asleep(a0[h]) : pc' = [pc EXCEPT ![h] = "answered", ![g] = "woken"]
  /\ UNCHANGED <<objects, now, call, deadline, r0, history>>

Broadcast(h) ==
  /\ Calls(h, "COND_BROADCAST")
  /\ status' = [status EXCEPT ![h] = "OK"]
  /\ pc' = [g \in Thread |-> IF g = h THEN "answered"
                             ELSE IF g \in Asleep(a0[h]) THEN "woken" ELSE pc[g]]
  /\ UNCHANGED <<objects, now, call, deadline, r0, history>>

\* A thread may wake for no reason.
WakeSpuriously(h) ==
  /\ pc[h] = "asleep"
  /\ Goto(h, "woken")
  /\ UNCHANGED <<objects, now, call, deadline, ports, history>>

\* The deadline of a sleeping thread has come.
Expire(h) ==
  /\ pc[h] = "asleep" /\ cmd[h] = "COND_TIMEDWAIT" /\ now >= Stamp(deadline[h])
  /\ Goto(h, "expired")
  /\ UNCHANGED <<objects, now, call, deadline, ports, history>>

\* The wait returns with the mutex, whether it was woken or timed out.
WaitReturn(h) ==
  /\ pc[h] \in {"woken", "expired"} /\ owner[a1[h]] = NoThread
  /\ owner' = [owner EXCEPT ![a1[h]] = h]
  /\ Answer(h, "OK", IF cmd[h] = "COND_WAIT" THEN r0[h]
                     ELSE IF pc[h] = "expired" THEN Timeout ELSE Signalled)
  /\ UNCHANGED <<exists, count, arrived, round, now, call, deadline, history>>

\* A thread arrives at a barrier; when all have, the library releases them and
\* one, s, gets PTHREAD_BARRIER_SERIAL_THREAD.
Arrive(h, s) ==
  LET b == a0[h]
      all == arrived[b] \cup {h}
  IN /\ Calls(h, "BARRIER_WAIT") /\ round[b] < MaxRound
     /\ IF Cardinality(all) < count[b]
        THEN /\ s = h
             /\ arrived' = [arrived EXCEPT ![b] = all]
             /\ Goto(h, "at_barrier")
             /\ UNCHANGED <<round, released>>
        ELSE /\ s \in all
             /\ arrived' = [arrived EXCEPT ![b] = {}]
             /\ round' = [round EXCEPT ![b] = @ + 1]
             /\ pc' = [g \in Thread |-> IF g = s THEN "serial"
                                        ELSE IF g \in all THEN "plain" ELSE pc[g]]
             /\ released' = [g \in Thread |-> IF g \in all THEN round[b] + 1 ELSE released[g]]
     /\ UNCHANGED <<exists, owner, count, now, call, deadline, ports, rom, holds, called, seen>>

\* Mutant: any result but an error is answered as 0.
BarrierReturn_NoSerial(h) ==
  /\ pc[h] \in {"serial", "plain"}
  /\ Answer(h, "OK", 0)
  /\ UNCHANGED <<objects, now, call, deadline, history>>

BarrierReturn(h) ==
  /\ pc[h] \in {"serial", "plain"}
  /\ Answer(h, "OK", IF pc[h] = "serial" THEN 1 ELSE 0)
  /\ UNCHANGED <<objects, now, call, deadline, history>>

\* Only a timed wait looks at the clock.
Tick == /\ now < MaxTime /\ "COND_TIMEDWAIT" \in rom.commands
        /\ now' = now + 1
        /\ UNCHANGED <<objects, pc, call, deadline, ports, history>>

-----------------------------------------------------------------------------

Rom(h) ==
  \/ /\ pc[h] = "rom" /\ h \in rom.threads
     /\ \E c \in rom.commands : \E x \in IdArg(c), m \in MutexArg(h, c), t \in NumberArg(c) :
          Deo(h, c, x, m, t)
  \/ Read(h)

\* What a thread that runs does in the device.
Device(h) ==
  \/ \E x \in Id : Create(h, x)
  \/ Destroy(h)
  \/ Lookup(h) \/ LookupMutex(h) \/ ReadClock(h)
  \/ Lock(h) \/ Unlock(h) \/ TryLock(h)
  \/ Sleep(h) \/ Signal(h) \/ Broadcast(h) \/ Expire(h) \/ WaitReturn(h)
  \/ \E s \in Thread : Arrive(h, s)
  \/ BarrierReturn(h)

\* What the system may do to it.
Hindrance(h) == CreateFail(h) \/ ReadClockFail(h) \/ Refuse(h) \/ WakeSpuriously(h)

Next == Tick \/ \E h \in Thread : Rom(h) \/ Device(h) \/ Hindrance(h)

Spec == Init /\ [][Next]_vars

\* The operating system runs every thread that can take a step, and the clock
\* goes on.  No thread is owed a spurious wake-up.
FairSpec == Spec /\ WF_vars(Tick) /\ \A h \in Thread : WF_vars(Device(h))

-----------------------------------------------------------------------------
(* What the commands promise.                                              *)

Pc == {"rom", "create", "destroy", "lookup", "lookup_mutex", "clock", "call", "asleep",
       "woken", "expired", "at_barrier", "serial", "plain", "answered"}

Time == [sec : Nat, nsec : Nat]

\* Every variable keeps its type.
TypeOK ==
  /\ exists \subseteq Id \ Stray
  /\ owner \in [Mutex -> Thread \cup {NoThread}]
  /\ count \in [Barrier -> Nat] /\ arrived \in [Barrier -> SUBSET Thread]
  /\ round \in [Barrier -> 0 .. MaxRound]
  /\ now \in 0 .. MaxTime
  /\ pc \in [Thread -> Pc]
  /\ cmd \in [Thread -> Command \cup {"none"}]
  /\ a0 \in [Thread -> Id \cup {NoId}] /\ a1 \in [Thread -> Mutex \cup {NoId}]
  /\ a2 \in [Thread -> Nat] /\ deadline \in [Thread -> Time]
  /\ status \in [Thread -> {"OK", "ERROR", "InvalidAttributes", "SystemResources"}]
  /\ r0 \in [Thread -> Id \cup 0 .. 3]
  /\ rom \in Programs
  /\ holds \in [Thread -> SUBSET Mutex]
  /\ called \in [Thread -> 0 .. MaxTime]
  /\ released \in [Thread -> 0 .. MaxRound]
  /\ seen \subseteq Barrier \X (1 .. MaxRound) \X Thread \X {0, 1}

\* What a thread can conclude from the ports is true: between two commands it has
\* locked exactly the mutexes whose LOCK or TRYLOCK it saw succeed and that it did
\* not unlock since.  So two threads never believe to be in the same critical
\* section, and no mutex stays locked that nobody knows of (threads.c:453, 505).
KnowsItsLocks ==
  \A h \in Thread : pc[h] = "rom" => holds[h] = {m \in Mutex : owner[m] = h}

\* COND_WAIT and COND_TIMEDWAIT never return without the mutex the thread gave
\* them, signalled, timed out or refused (README.md:323, "re-acquired before
\* returning").
WaitKeepsMutex ==
  \A h \in Thread :
    pc[h] = "answered" /\ cmd[h] \in Waits /\ a1[h] \in holds[h] => owner[a1[h]] = h

\* A timed wait does not answer Timeout before its milliseconds are over
\* (threads.c:679-684).
TimeoutNotEarly ==
  \A h \in Thread :
    pc[h] = "answered" /\ cmd[h] = "COND_TIMEDWAIT" /\ r0[h] = Timeout
      => now >= called[h] + a2[h] * NS_PER_MS

\* Once its handles are found a timed wait is not refused: the deadline it computes
\* is one the library takes.
ValidHandlesAreTaken ==
  [][\A h \in Thread : Calls(h, "COND_TIMEDWAIT") => pc'[h] # "answered"]_vars

\* Each release of a barrier is answered to as many threads as its count, and to
\* exactly one of them as the serial one (README.md: "exactly one per barrier
\* release"), though the threads of one release read their answers when the next
\* one is under way.
OneSerial ==
  \A b \in Barrier, n \in 1 .. MaxRound :
    LET answers == {e \in seen : e[1] = b /\ e[2] = n}
        serials == {e \in answers : e[4] = 1}
    IN /\ Cardinality(answers) <= count[b]
       /\ Cardinality(serials) <= 1
       /\ Cardinality(answers) = count[b] /\ answers # {} => Cardinality(serials) = 1

\* The ports' types, and one serial answer to each release.
Sound == TypeOK /\ OneSerial

\* What LOCK, TRYLOCK and the waits tell a thread about its mutexes.
LocksKept == KnowsItsLocks /\ WaitKeepsMutex

\* A timed wait does not sleep for ever.
TimedWaitEnds ==
  \A h \in Thread :
    (pc[h] = "asleep" /\ cmd[h] = "COND_TIMEDWAIT" /\ called[h] + a2[h] * NS_PER_MS <= MaxTime)
      ~> pc[h] # "asleep"
=============================================================================
