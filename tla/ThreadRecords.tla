--------------------------- MODULE ThreadRecords ---------------------------
(***************************************************************************)
(* The thread records of the Threads device (src/devices/threads.c): the   *)
(* table thread_records[], the commands SELF, CREATE and JOIN, the port    *)
(* USELOCALSTORAGEINDEX, initialize_mutexes and destroy_mutexes.  Every    *)
(* thread of the process runs the same handlers on the shared records with *)
(* no lock but the atomic in_use flag; a step below is one access to the   *)
(* shared state, so that the handlers of two threads interleave the way    *)
(* the machine lets them.                                                  *)
(*                                                                         *)
(* A thread is named by its pthread_t.  pthread_create hands out a handle  *)
(* no existing thread has, so the handle of a joined thread comes back.    *)
(***************************************************************************)
EXTENDS Naturals

CONSTANTS
  Handle,             \* the pthread_t values
  Main,               \* the handle of the thread that runs main()
  NoHandle,           \* the zero thread_handle of a record never used
  MAX_THREAD_COUNT,   \* the number of records, 16 in the code
  Value,              \* the 16-bit words a ROM writes to a port
  Issued,             \* the commands the ROM issues
  Creators,           \* the threads in which the ROM issues CREATE
  Joiners,            \* the threads in which the ROM issues JOIN
  JoinOnce,           \* the ROM joins an id once per CREATE that returned it
  HandleStoredFirst,  \* pthread_create stores the handle before the thread runs
  CallsDestroy        \* main() calls destroy_mutexes: uxncli does, uxnemu not

Command == {"SELF", "CREATE", "JOIN", "TLS"}

Slot == 0 .. MAX_THREAD_COUNT - 1

\* The content of USELOCALSTORAGEINDEX when the thread was not found, (Uint8)-1.
NoIndex == MAX_THREAD_COUNT

ASSUME HandleAssumption == Main \in Handle /\ NoHandle \notin Handle
ASSUME CountAssumption  == MAX_THREAD_COUNT \in Nat \ {0}
ASSUME ValueAssumption  == Value \subseteq Nat
ASSUME RomAssumption    == /\ Issued \subseteq Command
                           /\ Creators \subseteq Handle
                           /\ Joiners \subseteq Handle
                           /\ JoinOnce \in BOOLEAN
ASSUME BuildAssumption  == HandleStoredFirst \in BOOLEAN /\ CallsDestroy \in BOOLEAN

VARIABLES
  alive,              \* the process has not ended
  mutex_init_done,
  in_use,             \* thread_records[i].in_use
  thread_handle,      \* thread_records[i].thread_handle
  arg,                \* thread_records[i].arg_0 and .arg_1, always used together
  result_value,       \* thread_records[i].result_value
  pc,                 \* where each thread is; "none" when there is no such thread
  rec,                \* the record a thread was started with (p_record)
  joiner,             \* who waits in pthread_join for a thread
  ret, err, tls,      \* the thread's own ports RETURN, THREAD_STATUS and
                      \* THREAD_USELOCALSTORAGEINDEX
  cmd, idx, jh, param,\* locals of a handler: the command, a record number, a handle,
                      \* the arguments of CREATE
  \* history, read by no guard but JoinOnce's:
  given,              \* the arguments of the CREATE that started a thread
  outcome,            \* the value a thread ended with
  expect,             \* the outcome of the thread that pthread_join returned for
  open,               \* ids returned by CREATE and not taken by a JOIN
  sawFull             \* all records were in use at a moment of the current scan

process == <<alive, mutex_init_done>>
records == <<in_use, thread_handle, arg, result_value>>
threads == <<rec, joiner>>
ports   == <<ret, err, tls>>
locals  == <<cmd, idx, jh, param>>
history == <<given, outcome, expect, open, sawFull>>
vars    == <<process, records, pc, threads, ports, locals, history>>

Init ==
  /\ alive = TRUE
  /\ mutex_init_done = FALSE
  /\ in_use = [i \in Slot |-> 0]
  /\ thread_handle = [i \in Slot |-> NoHandle]
  /\ arg = [i \in Slot |-> 0]
  /\ result_value = [i \in Slot |-> 0]
  /\ pc = [h \in Handle |-> IF h = Main THEN "eval" ELSE "none"]
  /\ rec = [h \in Handle |-> 0]
  /\ joiner = [h \in Handle |-> NoHandle]
  /\ ret = [h \in Handle |-> 0]
  /\ err = [h \in Handle |-> "OK"]
  /\ tls = [h \in Handle |-> 0]
  /\ cmd = [h \in Handle |-> "SELF"]
  /\ idx = [h \in Handle |-> 0]
  /\ jh = [h \in Handle |-> NoHandle]
  /\ param = [h \in Handle |-> 0]
  /\ given = [h \in Handle |-> 0]
  /\ outcome = [h \in Handle |-> 0]
  /\ expect = [h \in Handle |-> 0]
  /\ open = {}
  /\ sawFull = [h \in Handle |-> FALSE]

Goto(h, l) == pc' = [pc EXCEPT ![h] = l]

\* The handler returns to the ROM and its locals are gone.
Return(h) ==
  /\ Goto(h, "eval")
  /\ cmd' = [cmd EXCEPT ![h] = "SELF"]
  /\ idx' = [idx EXCEPT ![h] = 0]
  /\ jh' = [jh EXCEPT ![h] = NoHandle]
  /\ param' = [param EXCEPT ![h] = 0]

\* The ports the handler leaves its answer in.
Reply(h, e, r) ==
  /\ err' = [err EXCEPT ![h] = e]
  /\ ret' = [ret EXCEPT ![h] = r]

At(h, l) == alive /\ pc[h] = l

Full(use) == \A i \in Slot : use[i] = 1

\* History: a record was taken; the scans under way may have seen the table full.
NoteFull(use) ==
  sawFull' = [g \in Handle |-> pc'[g] = "scan" /\ (sawFull[g] \/ Full(use))]

-----------------------------------------------------------------------------
(* threads_deo: the prologue that every command shares.                    *)

First(c) == IF c = "CREATE" THEN "scan"
            ELSE IF c = "JOIN" THEN "join_read" ELSE "self_use"

\* Entering the switch: the scan of CREATE starts its history here.
Enter(h, c) ==
  /\ Goto(h, First(c))
  /\ sawFull' = [sawFull EXCEPT ![h] = c = "CREATE" /\ Full(in_use)]

\* The ROM writes the command port, or 0xff to USELOCALSTORAGEINDEX ("TLS").
\* t is the content of ARG_0 for JOIN: an id, or MAX_THREAD_COUNT for a larger word.
Deo(h, c, t) ==
  /\ At(h, "eval")
  /\ c = "CREATE" => h \in Creators
  /\ IF c = "JOIN" THEN h \in Joiners /\ (JoinOnce => t \in open) ELSE t = 0
  /\ cmd' = [cmd EXCEPT ![h] = c]
  /\ idx' = [idx EXCEPT ![h] = t]
  /\ open' = IF c = "JOIN" THEN open \ {t} ELSE open
  /\ IF mutex_init_done THEN Enter(h, c)
     ELSE Goto(h, "init_flag") /\ UNCHANGED sawFull
  /\ UNCHANGED <<process, records, threads, ports, jh, param, given, outcome, expect>>

\* initialize_mutexes, after its unsynchronised test of mutex_init_done.
InitFlag(h) ==
  /\ At(h, "init_flag")
  /\ mutex_init_done' = TRUE
  /\ Goto(h, "init_use")
  /\ UNCHANGED <<alive, records, threads, ports, locals, history>>

\* Mutant: main's record is not marked.
InitUse_NoMark(h) ==
  /\ At(h, "init_use")
  /\ Goto(h, "init_handle")
  /\ UNCHANGED <<process, records, threads, ports, locals, history>>

InitUse(h) ==
  /\ At(h, "init_use")
  /\ in_use' = [in_use EXCEPT ![0] = 1]
  /\ Goto(h, "init_handle")
  /\ NoteFull(in_use')
  /\ UNCHANGED <<process, thread_handle, arg, result_value, threads, ports,
                 locals, given, outcome, expect, open>>

InitHandle(h) ==
  /\ At(h, "init_handle")
  /\ thread_handle' = [thread_handle EXCEPT ![0] = h]
  /\ Enter(h, cmd[h])
  /\ UNCHANGED <<process, in_use, arg, result_value, threads, ports, locals,
                 given, outcome, expect, open>>

-----------------------------------------------------------------------------
(* CREATE: find_first_free_thread_num, then handle_create_command.         *)

\* Mutant: the flag is tested and not swapped.
ScanTake_LoadOnly(h) ==
  /\ At(h, "scan") /\ idx[h] \in Slot /\ in_use[idx[h]] = 0
  /\ Goto(h, "fill")
  /\ UNCHANGED <<process, records, threads, ports, locals, history>>

\* One iteration whose compare-and-swap finds the record free and takes it.
ScanTake(h) ==
  /\ At(h, "scan") /\ idx[h] \in Slot /\ in_use[idx[h]] = 0
  /\ in_use' = [in_use EXCEPT ![idx[h]] = 1]
  /\ Goto(h, "fill")
  /\ NoteFull(in_use')
  /\ UNCHANGED <<process, thread_handle, arg, result_value, threads, ports,
                 locals, given, outcome, expect, open>>

\* Mutant: the loop does not advance.
ScanSkip_Stuck(h) ==
  /\ At(h, "scan") /\ idx[h] \in Slot /\ in_use[idx[h]] = 1
  /\ UNCHANGED vars

\* Mutant: a weak compare-and-swap, which may fail on a free record.
ScanSkip_Weak(h) ==
  /\ At(h, "scan") /\ idx[h] \in Slot
  /\ idx' = [idx EXCEPT ![h] = @ + 1]
  /\ UNCHANGED <<process, records, pc, threads, ports, cmd, jh, param, history>>

ScanSkip(h) ==
  /\ At(h, "scan") /\ idx[h] \in Slot /\ in_use[idx[h]] = 1
  /\ idx' = [idx EXCEPT ![h] = @ + 1]
  /\ UNCHANGED <<process, records, pc, threads, ports, cmd, jh, param, history>>

\* Mutant: the loop's bound is one too large.
ScanLimit_OffByOne(h) ==
  /\ At(h, "scan") /\ idx[h] = MAX_THREAD_COUNT
  /\ idx' = [idx EXCEPT ![h] = @ + 1]
  /\ UNCHANGED <<process, records, pc, threads, ports, cmd, jh, param, history>>

ScanLimit(h) ==
  /\ At(h, "scan") /\ idx[h] = MAX_THREAD_COUNT
  /\ Reply(h, "ThreadLimitReached", ret[h])
  /\ Return(h)
  /\ sawFull' = [sawFull EXCEPT ![h] = FALSE]
  /\ UNCHANGED <<process, records, threads, tls, given, outcome, expect, open>>

\* Mutant: the arguments are not copied to the record.
Fill_NoArgument(h, a) ==
  /\ At(h, "fill")
  /\ result_value' = [result_value EXCEPT ![idx[h]] = 0]
  /\ param' = [param EXCEPT ![h] = a]
  /\ Goto(h, "spawn")
  /\ UNCHANGED <<process, in_use, thread_handle, arg, threads, ports, cmd, idx,
                 jh, history>>

Fill(h, a) ==
  /\ At(h, "fill")
  /\ arg' = [arg EXCEPT ![idx[h]] = a]
  /\ result_value' = [result_value EXCEPT ![idx[h]] = 0]
  /\ param' = [param EXCEPT ![h] = a]
  /\ Goto(h, "spawn")
  /\ UNCHANGED <<process, in_use, thread_handle, threads, ports, cmd, idx, jh, history>>

\* Mutant: pthread_create gets a local, copied to the record afterwards.
Spawn_HandleLate(h, c) ==
  /\ At(h, "spawn") /\ pc[c] = "none"
  /\ pc' = [pc EXCEPT ![h] = "reply", ![c] = "born"]
  /\ rec' = [rec EXCEPT ![c] = idx[h]]
  /\ jh' = [jh EXCEPT ![h] = c]
  /\ given' = [given EXCEPT ![c] = param[h]]
  /\ UNCHANGED <<process, records, joiner, ports, cmd, idx, param, outcome,
                 expect, open, sawFull>>

\* pthread_create starts thread c; whether the handle is in the record before
\* c runs is up to the C library.
Spawn(h, c) ==
  /\ At(h, "spawn") /\ pc[c] = "none"
  /\ pc' = [pc EXCEPT ![h] = "reply", ![c] = "born"]
  /\ rec' = [rec EXCEPT ![c] = idx[h]]
  /\ jh' = [jh EXCEPT ![h] = c]
  /\ thread_handle' = IF HandleStoredFirst
                      THEN [thread_handle EXCEPT ![idx[h]] = c]
                      ELSE thread_handle
  /\ given' = [given EXCEPT ![c] = param[h]]
  /\ UNCHANGED <<process, in_use, arg, result_value, joiner, ports, cmd, idx, param,
                 outcome, expect, open, sawFull>>

CreateReply(h) ==
  /\ At(h, "reply")
  /\ thread_handle' = [thread_handle EXCEPT ![idx[h]] = jh[h]]
  /\ Reply(h, "OK", idx[h])
  /\ Return(h)
  /\ open' = open \cup {idx[h]}
  /\ UNCHANGED <<process, in_use, arg, result_value, threads, tls, given,
                 outcome, expect, sawFull>>

\* Mutant: a failed CREATE keeps its record.
SpawnFail_Keeps(h) ==
  /\ At(h, "spawn")
  /\ Return(h)
  /\ err' = [err EXCEPT ![h] = "CreateFailed"]
  /\ UNCHANGED <<process, records, threads, ret, tls, history>>

\* pthread_create fails (EAGAIN, EINVAL or EPERM, told apart only by the code
\* in the status port); then the record is given back.
SpawnFail(h) ==
  /\ At(h, "spawn")
  /\ Goto(h, "unclaim")
  /\ err' = [err EXCEPT ![h] = "CreateFailed"]
  /\ UNCHANGED <<process, records, threads, ret, tls, locals, history>>

Unclaim(h) ==
  /\ At(h, "unclaim")
  /\ in_use' = [in_use EXCEPT ![idx[h]] = 0]
  /\ Return(h)
  /\ UNCHANGED <<process, thread_handle, arg, result_value, threads, ports,
                 history>>

-----------------------------------------------------------------------------
(* worker_thread_entry around uxn_eval, and the ROM's own steps.           *)

WorkerStart(h) ==
  /\ At(h, "born")
  /\ ret' = [ret EXCEPT ![h] = arg[rec[h]]]
  /\ Goto(h, "eval")
  /\ UNCHANGED <<process, records, threads, err, tls, locals, history>>

\* The ROM leaves a word in its RETURN port.
WriteReturn(h, v) ==
  /\ At(h, "eval")
  /\ ret' = [ret EXCEPT ![h] = v]
  /\ UNCHANGED <<process, records, pc, threads, err, tls, locals, history>>

\* The ROM selects the shared bank: the handler does nothing with a value that
\* is not 0xff, the byte just stays in the port.  That the handler, like every
\* other one, may initialise first is left to the others (InitFlag).
WriteTlsShared(h) ==
  /\ At(h, "eval")
  /\ tls' = [tls EXCEPT ![h] = 0]
  /\ UNCHANGED <<process, records, pc, threads, ret, err, locals, history>>

\* uxn_eval returns at BRK; the result is stored and the thread ends.  Its
\* thread-local machine goes with it: a new thread starts from a zeroed one.
WorkerEnd(h) ==
  /\ At(h, "eval") /\ h # Main
  /\ result_value' = [result_value EXCEPT ![rec[h]] = ret[h]]
  /\ outcome' = [outcome EXCEPT ![h] = ret[h]]
  /\ ret' = [ret EXCEPT ![h] = 0]
  /\ err' = [err EXCEPT ![h] = "OK"]
  /\ tls' = [tls EXCEPT ![h] = 0]
  /\ Goto(h, "exited")
  /\ UNCHANGED <<process, in_use, thread_handle, arg, threads, locals, given,
                 expect, open, sawFull>>

-----------------------------------------------------------------------------
(* JOIN: handle_join_command, with what pthread_join does (glibc).         *)

JoinNotFound(h) ==
  /\ At(h, "join_read") /\ idx[h] \notin Slot
  /\ Reply(h, "NotFound", ret[h])
  /\ Return(h)
  /\ UNCHANGED <<process, records, threads, tls, history>>

JoinRead(h) ==
  /\ At(h, "join_read") /\ idx[h] \in Slot
  /\ jh' = [jh EXCEPT ![h] = thread_handle[idx[h]]]
  /\ Goto(h, "join_call")
  /\ UNCHANGED <<process, records, threads, ports, cmd, idx, param, history>>

\* pthread_join refuses: the thread itself or one that waits for it (EDEADLK),
\* one that has a joiner (EINVAL), no such thread (ESRCH).
JoinError(h) ==
  IF jh[h] \notin Handle \/ pc[jh[h]] = "none" THEN "NotFound"
  ELSE IF jh[h] = h \/ joiner[h] = jh[h] THEN "Deadlock"
  ELSE IF joiner[jh[h]] # NoHandle THEN "NotJoinable"
  ELSE "OK"

JoinRefused(h) ==
  /\ At(h, "join_call") /\ JoinError(h) # "OK"
  /\ Reply(h, JoinError(h), ret[h])
  /\ Return(h)
  /\ open' = IF JoinOnce THEN open \cup {idx[h]} ELSE open
  /\ UNCHANGED <<process, records, threads, tls, given, outcome, expect, sawFull>>

\* A zero handle, or that of a thread already joined, is no thread at all, and
\* pthread_join of it is undefined: it may answer ESRCH (JoinRefused) or end the
\* process.
JoinCrash(h) ==
  /\ At(h, "join_call") /\ JoinError(h) = "NotFound"
  /\ alive' = FALSE
  /\ UNCHANGED <<mutex_init_done, records, pc, threads, ports, locals, history>>

JoinCall(h) ==
  /\ At(h, "join_call") /\ JoinError(h) = "OK"
  /\ joiner' = [joiner EXCEPT ![jh[h]] = h]
  /\ Goto(h, "join_wait")
  /\ UNCHANGED <<process, records, rec, ports, locals, history>>

\* pthread_join returns 0 and the handle names no thread any more.
JoinReturn(h) ==
  /\ At(h, "join_wait") /\ pc[jh[h]] = "exited"
  /\ pc' = [pc EXCEPT ![h] = "join_free", ![jh[h]] = "none"]
  /\ joiner' = [joiner EXCEPT ![jh[h]] = NoHandle]
  /\ rec' = [rec EXCEPT ![jh[h]] = 0]
  /\ err' = [err EXCEPT ![h] = "OK"]
  /\ expect' = [expect EXCEPT ![h] = outcome[jh[h]]]
  /\ outcome' = [outcome EXCEPT ![jh[h]] = 0]
  /\ given' = [given EXCEPT ![jh[h]] = 0]
  /\ jh' = [jh EXCEPT ![h] = NoHandle]
  /\ UNCHANGED <<process, records, ret, tls, cmd, idx, param, open, sawFull>>

\* Mutant: JOIN does not give the record back.
JoinFree_Keeps(h) ==
  /\ At(h, "join_free")
  /\ Goto(h, "join_result")
  /\ UNCHANGED <<process, records, threads, ports, locals, history>>

JoinFree(h) ==
  /\ At(h, "join_free")
  /\ in_use' = [in_use EXCEPT ![idx[h]] = 0]
  /\ Goto(h, "join_result")
  /\ UNCHANGED <<process, thread_handle, arg, result_value, threads, ports,
                 locals, history>>

JoinResult(h) ==
  /\ At(h, "join_result")
  /\ Reply(h, err[h], result_value[idx[h]])
  /\ Return(h)
  /\ expect' = [expect EXCEPT ![h] = 0]
  /\ UNCHANGED <<process, records, threads, tls, given, outcome, open, sawFull>>

-----------------------------------------------------------------------------
(* SELF and USELOCALSTORAGEINDEX: get_current_thread_num and its callers.  *)

\* What the two callers do with the number found, or with (Uint8)-1.
SelfReply(h, n) ==
  /\ IF cmd[h] = "TLS"
     THEN tls' = [tls EXCEPT ![h] = n] /\ UNCHANGED <<ret, err>>
     ELSE /\ IF n = NoIndex THEN Reply(h, "ERROR", 0) ELSE Reply(h, "OK", n)
          /\ UNCHANGED tls
  /\ Return(h)

SelfLoad(h) ==
  /\ At(h, "self_use") /\ idx[h] \in Slot
  /\ IF in_use[idx[h]] = 1
     THEN Goto(h, "self_cmp") /\ UNCHANGED idx
     ELSE idx' = [idx EXCEPT ![h] = @ + 1] /\ UNCHANGED pc
  /\ UNCHANGED <<process, records, threads, ports, cmd, jh, param, history>>

SelfFound(h) ==
  /\ At(h, "self_cmp") /\ thread_handle[idx[h]] = h
  /\ SelfReply(h, idx[h])
  /\ UNCHANGED <<process, records, threads, history>>

SelfOther(h) ==
  /\ At(h, "self_cmp") /\ thread_handle[idx[h]] # h
  /\ idx' = [idx EXCEPT ![h] = @ + 1]
  /\ Goto(h, "self_use")
  /\ UNCHANGED <<process, records, threads, ports, cmd, jh, param, history>>

SelfMissing(h) ==
  /\ At(h, "self_use") /\ idx[h] = MAX_THREAD_COUNT
  /\ SelfReply(h, NoIndex)
  /\ UNCHANGED <<process, records, threads, history>>

-----------------------------------------------------------------------------
(* The end of main().                                                      *)

\* destroy_mutexes, called by uxncli with the workers still running.
DestroyMutexes ==
  /\ At(Main, "eval") /\ CallsDestroy
  /\ mutex_init_done' = FALSE
  /\ Goto(Main, "exiting")
  /\ UNCHANGED <<alive, records, threads, ports, locals, history>>

ProcessExit ==
  /\ At(Main, IF CallsDestroy THEN "exiting" ELSE "eval")
  /\ alive' = FALSE
  /\ UNCHANGED <<mutex_init_done, records, pc, threads, ports, locals, history>>

-----------------------------------------------------------------------------

\* What the ROM decides to do next in thread h.
Rom(h) ==
  \/ \E c \in Issued, t \in 0 .. MAX_THREAD_COUNT : Deo(h, c, t)
  \/ \E v \in Value : WriteReturn(h, v)
  \/ WriteTlsShared(h)
  \/ WorkerEnd(h)

\* What the device does in thread h once it has been called.
Device(h) ==
  \/ InitFlag(h) \/ InitUse(h) \/ InitHandle(h)
  \/ ScanTake(h) \/ ScanSkip(h) \/ ScanLimit(h)
  \/ \E a \in Value : Fill(h, a)
  \/ \E c \in Handle : Spawn(h, c)
  \/ CreateReply(h) \/ SpawnFail(h) \/ Unclaim(h)
  \/ WorkerStart(h)
  \/ JoinNotFound(h) \/ JoinRead(h) \/ JoinRefused(h) \/ JoinCrash(h)
  \/ JoinCall(h) \/ JoinReturn(h) \/ JoinFree(h) \/ JoinResult(h)
  \/ SelfLoad(h) \/ SelfFound(h) \/ SelfOther(h) \/ SelfMissing(h)

Next ==
  \/ \E h \in Handle : Rom(h) \/ Device(h)
  \/ DestroyMutexes
  \/ ProcessExit

Spec == Init /\ [][Next]_vars

\* The operating system runs every thread that can take a step.
FairSpec == Spec /\ \A h \in Handle : WF_vars(Device(h))

-----------------------------------------------------------------------------
(* What the records promise.                                               *)

Pc == {"none", "born", "eval", "init_flag", "init_use", "init_handle",
       "scan", "fill", "spawn", "reply", "unclaim", "join_read", "join_call",
       "join_wait", "join_free", "join_result", "self_use", "self_cmp",
       "exited", "exiting"}

Status == {"OK", "ERROR", "CreateFailed", "ThreadLimitReached", "Deadlock",
           "NotJoinable", "NotFound"}

\* A port or record word: a word of the ROM, zero, or a thread id.
Word == Value \cup Slot

RecordsType ==
  /\ in_use \in [Slot -> {0, 1}]
  /\ thread_handle \in [Slot -> Handle \cup {NoHandle}]
  /\ arg \in [Slot -> Word] /\ result_value \in [Slot -> Word]

ThreadsType ==
  /\ alive \in BOOLEAN /\ mutex_init_done \in BOOLEAN
  /\ pc \in [Handle -> Pc] /\ rec \in [Handle -> Slot]
  /\ joiner \in [Handle -> Handle \cup {NoHandle}]

PortsType ==
  /\ ret \in [Handle -> Word] /\ err \in [Handle -> Status]
  /\ tls \in [Handle -> 0 .. MAX_THREAD_COUNT]

LocalsType ==
  /\ cmd \in [Handle -> Command] /\ idx \in [Handle -> 0 .. MAX_THREAD_COUNT]
  /\ jh \in [Handle -> Handle \cup {NoHandle}] /\ param \in [Handle -> Word]

HistoryType ==
  /\ given \in [Handle -> Word] /\ outcome \in [Handle -> Word]
  /\ expect \in [Handle -> Word]
  /\ open \subseteq Slot /\ sawFull \in [Handle -> BOOLEAN]

\* Every variable keeps its type.
TypeOK == RecordsType /\ ThreadsType /\ PortsType /\ LocalsType /\ HistoryType

\* Who is responsible for record i, and as what: the creator that took it and
\* has not started a thread with it, the worker started with it, the joiner about
\* to give it back.
Role == {"creator", "worker", "joiner"}

Owns(h, r, i) ==
  \/ r = "creator" /\ pc[h] \in {"fill", "spawn", "unclaim"} /\ idx[h] = i
  \/ r = "worker"  /\ h # Main /\ pc[h] # "none" /\ rec[h] = i
  \/ r = "joiner"  /\ pc[h] = "join_free" /\ idx[h] = i

\* A record never has two owners, so no two threads run on one record and no
\* CREATE takes a record some thread still uses (threads.c:209 against 280, 317).
SlotExclusive ==
  \A i \in Slot, g, h \in Handle, r, s \in Role :
    Owns(g, r, i) /\ Owns(h, s, i) => g = h /\ r = s

\* A record other than main's is marked in use exactly while somebody owns it:
\* no record leaks when CREATE fails or a thread is joined, and none is given
\* away early.
InUseIffOwned ==
  \A i \in Slot \ {0} : in_use[i] = 1 <=> \E h \in Handle, r \in Role : Owns(h, r, i)

\* Once main has made its first call, record 0 is main's and stays so whatever
\* ids the ROM joins (threads.c:182, "first record is main thread"), until main
\* ends: destroy_mutexes has the next command of a worker still running take
\* record 0 for its own.
MainRecord ==
  mutex_init_done /\ pc[Main] \notin {"init_use", "init_handle", "exiting"}
    => in_use[0] = 1 /\ thread_handle[0] = Main

\* A worker starts with the arguments of the CREATE that started it, however
\* many CREATEs and JOINs run beside it.
WorkerGetsItsArguments ==
  [][\A h \in Handle : pc[h] = "born" /\ pc'[h] = "eval" => ret'[h] = given[h]]_vars

\* SELF and the local-storage port answer the record the calling thread was
\* started with, and never fail.
SelfIsOwn ==
  [][\A h \in Handle : pc[h] \in {"self_use", "self_cmp"} /\ pc'[h] = "eval"
       => IF cmd[h] = "TLS" THEN tls'[h] = rec[h]
          ELSE ret'[h] = rec[h] /\ err'[h] = "OK"]_vars

\* A JOIN that succeeds answers the word the joined thread ended with.
OutcomeAnswered(h) == pc[h] = "join_result" /\ pc'[h] = "eval" => ret'[h] = expect[h]

JoinAnswersOutcome == [][\A h \in Handle : OutcomeAnswered(h)]_vars

\* While one thread creates and joins, its answers are right: a JOIN that succeeds
\* answers the outcome, and a CREATE answers ThreadLimitReached only if at some
\* moment of the call every record was in use (README.md:91, "all 16 slots in
\* use").  A scan that runs beside a JOIN and another CREATE can miss the free
\* record behind it.
ManagerIsAnswered ==
  [][\A h \in Handle :
       /\ OutcomeAnswered(h)
       /\ pc[h] = "scan" /\ pc'[h] = "eval" => sawFull[h]]_vars

\* A JOIN whose thread has ended gives the record back.
JoinedRecordReturns ==
  \A h \in Handle, i \in Slot :
    (pc[h] = "join_wait" /\ idx[h] = i /\ pc[jh[h]] = "exited")
      ~> (in_use[i] = 0 \/ ~alive)

\* Every command returns to the ROM, but a JOIN that waits for a thread that
\* does not end.
CommandsReturn ==
  \A h \in Handle :
    (pc[h] \notin {"none", "eval", "exited", "exiting", "join_wait"})
      ~> (pc[h] \in {"eval", "join_wait"} \/ ~alive)

-----------------------------------------------------------------------------
(* What makes SlotExclusive and InUseIffOwned inductive when the ROM joins   *)
(* an id once: the id of a live worker is in exactly one place, with the     *)
(* creator that is about to answer it, in the ROM, or with one joiner.       *)

\* A handler that has an index or a thread handle has a proper one.
IndexOK ==
  \A h \in Handle :
    /\ pc[h] \in {"fill", "spawn", "reply", "unclaim", "join_call", "join_wait",
                  "join_free", "join_result", "self_cmp"} => idx[h] \in Slot
    /\ pc[h] \in {"reply", "join_wait"} => jh[h] \in Handle

Joining(h) ==
  /\ cmd[h] = "JOIN"
  /\ pc[h] \in {"init_flag", "init_use", "init_handle", "join_read", "join_call", "join_wait"}

\* The handler of h has the id i of a worker.
Holds(h, i) == idx[h] = i /\ (Joining(h) \/ pc[h] = "reply")

\* The record of i names the worker that runs on it.
Named(i) == thread_handle[i] \in Handle /\ Owns(thread_handle[i], "worker", i)

IdsUnique ==
  /\ \A h \in Handle, i \in open : ~Holds(h, i)
  /\ \A g, h \in Handle, i \in Slot : Holds(g, i) /\ Holds(h, i) => g = h

IdsNamed ==
  /\ \A i \in open : Named(i)
  /\ \A h \in Handle : Joining(h) => idx[h] \in Slot /\ Named(idx[h])
  /\ \A h \in Handle : pc[h] = "reply" => Owns(jh[h], "worker", idx[h])
  /\ \A h \in Handle : pc[h] \in {"join_call", "join_wait"} => jh[h] = thread_handle[idx[h]]
  /\ \A h \in Handle : pc[h] \in {"join_read", "join_call", "join_wait"} => cmd[h] = "JOIN"

\* Record 0 belongs to no worker, and until it is marked main is alone.
MainAlone ==
  /\ \A h \in Handle, r \in Role : ~Owns(h, r, 0)
  /\ pc[Main] # "none"
  /\ in_use[0] = 0 =>
       /\ \A h \in Handle \ {Main} : pc[h] = "none"
       /\ pc[Main] \in {"eval", "init_flag", "init_use", "exiting"}
       /\ mutex_init_done => pc[Main] = "init_use"

Exclusion == /\ IdsUnique /\ IdsNamed /\ MainAlone
             /\ SlotExclusive /\ InUseIffOwned
=============================================================================
