---------------------------- MODULE HandleTable -----------------------------
(***************************************************************************)
(* The handle tables of the Threads device: utils/mutex_array_list.c, and  *)
(* cond_array_list.c and barrier_array_list.c, which are the same code for *)
(* another type, with the flag, the first initialisation and the CREATE    *)
(* and DESTROY commands of devices/threads.c around them.                  *)
(*                                                                         *)
(* A table grows by doubling and is protected by its own lock.  Every      *)
(* access to the table's memory is a step, so that leaving the lock out    *)
(* anywhere shows.  What the object is (mutex, condition or barrier) does  *)
(* not matter here: it is a piece of memory with an identity.              *)
(***************************************************************************)
EXTENDS Naturals

CONSTANTS
  Proc,             \* the threads
  NoProc,           \* nobody: the table's lock is free
  Object,           \* the objects malloc can return
  NULL, Garbage,    \* the null pointer, and the content of memory never written
  InitialCapacity,  \* the slots of a new table, 16 in the code
  MaxCapacity,      \* the slots realloc finds memory for
  HANDLE_MAX,       \* MT_HANDLE_MAX, 65535 in the code
  Starter,          \* the threads whose command may be the table's first use
  StrayHandle       \* handles the ROM makes up

ASSUME ProcAssumption     == NoProc \notin Proc /\ Starter \subseteq Proc
ASSUME PointerAssumption  == /\ NULL \notin Object /\ Garbage \notin Object
                             /\ NULL # Garbage
ASSUME CapacityAssumption == /\ InitialCapacity \in Nat \ {0}
                             /\ MaxCapacity \in Nat
                             /\ InitialCapacity <= MaxCapacity
                             /\ HANDLE_MAX \in Nat
ASSUME StrayAssumption    == StrayHandle \subseteq Nat

Operation == {"init", "create", "destroy", "get"}

Pointer == Object \cup {NULL, Garbage}
Index   == 0 .. MaxCapacity - 1

\* The error results are the numbers above the last valid handle.
NO_MEMORY  == HANDLE_MAX + 1
INIT_FAIL  == HANDLE_MAX + 2
BAD_HANDLE == HANDLE_MAX + 3

VARIABLES
  initialized,      \* the flag mutex_table_initialized of threads.c
  lock,             \* t->lock: its holder
  slots, capacity,  \* t->slots, as long as t->capacity
  heap,             \* the objects allocated
  pc, op, arg,      \* where a thread is, the call it is in, its handle argument
  idx, obj,         \* locals: a slot number and a pointer
  res,              \* what the table function returns
  issued            \* history: <<handle, object>> answered by CREATE, not destroyed

table  == <<initialized, slots, capacity>>
locals == <<op, arg, idx, obj>>
vars   == <<table, lock, heap, pc, locals, res, issued>>

Init ==
  /\ initialized = FALSE
  /\ lock = NoProc
  /\ slots = [i \in {} |-> NULL] /\ capacity = 0
  /\ heap = {}
  /\ pc = [p \in Proc |-> "idle"]
  /\ op = [p \in Proc |-> "idle"] /\ arg = [p \in Proc |-> 0]
  /\ idx = [p \in Proc |-> 0] /\ obj = [p \in Proc |-> NULL]
  /\ res = [p \in Proc |-> NULL]
  /\ issued = {}

Goto(p, l) == pc' = [pc EXCEPT ![p] = l]

\* The table function has its result and goes to unlock.
Settle(p, r) ==
  /\ Goto(p, "release")
  /\ res' = [res EXCEPT ![p] = r]

IssuedHandles == {b[1] : b \in issued}

-----------------------------------------------------------------------------
(* The commands of threads_deo.                                            *)

\* The ROM calls.  It gives DESTROY an id that CREATE gave it, or one it made
\* up that CREATE never gives.  "init" is the call of mutex_table_init from
\* initialize_mutexes that the process's first command makes, whatever it is;
\* the other two tables have none.
Deo(p, o, h) ==
  /\ pc[p] = "idle"
  /\ initialized \/ p \in Starter
  /\ o = "destroy" => h \in IssuedHandles \cup StrayHandle
  /\ o = "init" => p \in Starter
  /\ o \in {"init", "create"} => h = 0
  /\ op' = [op EXCEPT ![p] = o]
  /\ arg' = [arg EXCEPT ![p] = h]
  /\ issued' = IF o = "destroy" THEN {b \in issued : b[1] # h} ELSE issued
  /\ Goto(p, "check")
  /\ UNCHANGED <<table, lock, heap, idx, obj, res>>

\* The test of the flag.  A CREATE that finds it unset initialises the table,
\* any other command fails.
Check(p) ==
  /\ pc[p] = "check"
  /\ IF initialized
     THEN Goto(p, IF op[p] = "init" THEN "reply" ELSE "acquire") /\ UNCHANGED res
     ELSE IF op[p] \in {"init", "create"} THEN Goto(p, "init_lock") /\ UNCHANGED res
     ELSE /\ Goto(p, "reply")
          /\ res' = [res EXCEPT ![p] = IF op[p] = "get" THEN NULL ELSE BAD_HANDLE]
  /\ UNCHANGED <<table, lock, heap, locals, issued>>

Succeeded(p) == CASE op[p] = "create"  -> res[p] <= HANDLE_MAX
                  [] op[p] = "destroy" -> res[p] = 0
                  [] OTHER             -> res[p] # NULL

\* The status port tells the ROM whether the command succeeded, the return port
\* the handle; then the handler returns.
Reply(p) ==
  /\ pc[p] = "reply"
  /\ issued' = IF op[p] = "create" /\ Succeeded(p)
               THEN issued \cup {<<res[p], obj[p]>>} ELSE issued
  /\ op' = [op EXCEPT ![p] = "idle"]
  /\ arg' = [arg EXCEPT ![p] = 0]
  /\ idx' = [idx EXCEPT ![p] = 0]
  /\ obj' = [obj EXCEPT ![p] = NULL]
  /\ res' = [res EXCEPT ![p] = NULL]
  /\ Goto(p, "idle")
  /\ UNCHANGED <<table, lock, heap>>

-----------------------------------------------------------------------------
(* mutex_table_init and its caller.                                        *)

\* pthread_mutex_init makes the lock a free one, whatever it was.
InitLock(p) ==
  /\ pc[p] = "init_lock"
  /\ lock' = NoProc
  /\ Goto(p, "init_slots")
  /\ UNCHANGED <<table, heap, locals, res, issued>>

\* malloc of the slots: their content is whatever the memory held.
InitSlots(p) ==
  /\ pc[p] = "init_slots"
  /\ slots' = [i \in 0 .. InitialCapacity - 1 |-> Garbage]
  /\ capacity' = InitialCapacity
  /\ Goto(p, "init_clear")
  /\ UNCHANGED <<initialized, lock, heap, locals, res, issued>>

\* pthread_mutex_init or malloc fails: the command does, and the next one may
\* try again.
InitFail(p) ==
  /\ pc[p] \in {"init_lock", "init_slots"}
  /\ res' = [res EXCEPT ![p] = NO_MEMORY]
  /\ Goto(p, "reply")
  /\ UNCHANGED <<table, lock, heap, locals, issued>>

InitClear(p) ==
  /\ pc[p] = "init_clear"
  /\ slots' = [i \in DOMAIN slots |-> NULL]
  /\ Goto(p, "init_set")
  /\ UNCHANGED <<initialized, capacity, lock, heap, locals, res, issued>>

InitSet(p) ==
  /\ pc[p] = "init_set"
  /\ initialized' = TRUE
  /\ Goto(p, IF op[p] = "init" THEN "reply" ELSE "acquire")
  /\ UNCHANGED <<slots, capacity, lock, heap, locals, res, issued>>

-----------------------------------------------------------------------------
(* The table functions, each between a lock and an unlock of t->lock.      *)

First(o) == CASE o = "create" -> "find" [] o = "destroy" -> "test" [] OTHER -> "read"

Acquire(p) ==
  /\ pc[p] = "acquire" /\ lock = NoProc
  /\ lock' = p
  /\ Goto(p, First(op[p]))
  /\ UNCHANGED <<table, heap, locals, res, issued>>

Release(p) ==
  /\ pc[p] = "release"
  /\ lock' = NoProc
  /\ Goto(p, "reply")
  /\ UNCHANGED <<table, heap, locals, res, issued>>

FreeSlots == {i \in DOMAIN slots : slots[i] = NULL}

\* The loop over the slots stops at the first null one, and an object is
\* allocated and initialised for it.
Find(p, i, o) ==
  /\ pc[p] = "find"
  /\ i \in FreeSlots /\ \A j \in FreeSlots : i <= j
  /\ o \notin heap
  /\ heap' = heap \cup {o}
  /\ idx' = [idx EXCEPT ![p] = i]
  /\ obj' = [obj EXCEPT ![p] = o]
  /\ Goto(p, "store")
  /\ UNCHANGED <<table, lock, op, arg, res, issued>>

\* malloc, or the init function of the object, fails.
FindFail(p, e) ==
  /\ pc[p] = "find" /\ FreeSlots # {}
  /\ Settle(p, e)
  /\ UNCHANGED <<table, lock, heap, locals, issued>>

Store(p) ==
  /\ pc[p] = "store"
  /\ slots' = [slots EXCEPT ![idx[p]] = obj[p]]
  /\ Settle(p, idx[p])
  /\ UNCHANGED <<initialized, capacity, lock, heap, locals, issued>>

\* Mutant: malloc in place of realloc, the old slots are not copied.
Grow_NoCopy(p) ==
  /\ pc[p] = "find" /\ FreeSlots = {}
  /\ capacity * 2 <= MaxCapacity
  /\ slots' = [i \in 0 .. capacity * 2 - 1 |-> Garbage]
  /\ capacity' = capacity * 2
  /\ idx' = [idx EXCEPT ![p] = capacity]
  /\ Goto(p, "grow_clear")
  /\ UNCHANGED <<initialized, lock, heap, op, arg, obj, res, issued>>

\* No null slot: realloc to twice the size.
Grow(p) ==
  /\ pc[p] = "find" /\ FreeSlots = {}
  /\ capacity * 2 <= MaxCapacity
  /\ slots' = [i \in 0 .. capacity * 2 - 1 |-> IF i < capacity THEN slots[i] ELSE Garbage]
  /\ capacity' = capacity * 2
  /\ idx' = [idx EXCEPT ![p] = capacity]
  /\ Goto(p, "grow_clear")
  /\ UNCHANGED <<initialized, lock, heap, op, arg, obj, res, issued>>

GrowFail(p) ==
  /\ pc[p] = "find" /\ FreeSlots = {}
  /\ Settle(p, NO_MEMORY)
  /\ UNCHANGED <<table, lock, heap, locals, issued>>

\* Mutant: the loop starts one slot too far.
GrowClear_OffByOne(p) ==
  /\ pc[p] = "grow_clear"
  /\ slots' = [i \in DOMAIN slots |-> IF i <= idx[p] THEN slots[i] ELSE NULL]
  /\ Goto(p, "find")
  /\ UNCHANGED <<initialized, capacity, lock, heap, locals, res, issued>>

\* The new slots are cleared, then the function calls itself.
GrowClear(p) ==
  /\ pc[p] = "grow_clear"
  /\ slots' = [i \in DOMAIN slots |-> IF i < idx[p] THEN slots[i] ELSE NULL]
  /\ Goto(p, "find")
  /\ UNCHANGED <<initialized, capacity, lock, heap, locals, res, issued>>

\* Mutant: the error path returns without the unlock.
TestBad_NoUnlock(p) ==
  /\ pc[p] = "test"
  /\ arg[p] < capacity => slots[arg[p]] = NULL
  /\ res' = [res EXCEPT ![p] = BAD_HANDLE]
  /\ Goto(p, "reply")
  /\ UNCHANGED <<table, lock, heap, locals, issued>>

TestBad(p) ==
  /\ pc[p] = "test"
  /\ arg[p] < capacity => slots[arg[p]] = NULL
  /\ Settle(p, BAD_HANDLE)
  /\ UNCHANGED <<table, lock, heap, locals, issued>>

\* pthread_mutex_destroy, whose result nobody looks at, and free.
Free(p) ==
  /\ pc[p] = "test"
  /\ arg[p] < capacity /\ slots[arg[p]] # NULL
  /\ heap' = heap \ {slots[arg[p]]}
  /\ Goto(p, "clear")
  /\ UNCHANGED <<table, lock, locals, res, issued>>

Clear(p) ==
  /\ pc[p] = "clear"
  /\ slots' = [slots EXCEPT ![arg[p]] = NULL]
  /\ Settle(p, 0)
  /\ UNCHANGED <<initialized, capacity, lock, heap, locals, issued>>

Read(p) ==
  /\ pc[p] = "read"
  /\ Settle(p, IF arg[p] < capacity THEN slots[arg[p]] ELSE NULL)
  /\ UNCHANGED <<table, lock, heap, locals, issued>>

-----------------------------------------------------------------------------

Step(p) ==
  \/ Check(p) \/ Reply(p)
  \/ InitLock(p) \/ InitSlots(p) \/ InitFail(p) \/ InitClear(p) \/ InitSet(p)
  \/ Acquire(p) \/ Release(p)
  \/ \E i \in Index, o \in Object : Find(p, i, o)
  \/ \E e \in {NO_MEMORY, INIT_FAIL} : FindFail(p, e)
  \/ Store(p) \/ Grow(p) \/ GrowFail(p) \/ GrowClear(p)
  \/ TestBad(p) \/ Free(p) \/ Clear(p) \/ Read(p)

Call(p) == \E o \in Operation, h \in 0 .. HANDLE_MAX : Deo(p, o, h)

Next == \E p \in Proc : Call(p) \/ Step(p)

Spec == Init /\ [][Next]_vars

\* The operating system runs every thread that can take a step.
FairSpec == Spec /\ \A p \in Proc : WF_vars(Step(p))

-----------------------------------------------------------------------------
(* What the table promises.                                                *)

Pc == {"idle", "check", "reply", "init_lock", "init_slots", "init_clear",
       "init_set", "acquire", "release", "find", "store", "grow_clear", "test",
       "clear", "read"}

\* Every variable keeps its type.
TypeOK ==
  /\ initialized \in BOOLEAN
  /\ lock \in Proc \cup {NoProc}
  /\ capacity \in 0 .. MaxCapacity
  /\ slots \in [0 .. capacity - 1 -> Pointer]
  /\ heap \subseteq Object
  /\ pc \in [Proc -> Pc]
  /\ op \in [Proc -> Operation \cup {"idle"}]
  /\ arg \in [Proc -> Nat] /\ idx \in [Proc -> Nat]
  /\ obj \in [Proc -> Object \cup {NULL}]
  /\ res \in [Proc -> Pointer \cup Nat]
  /\ issued \subseteq Nat \X Object

\* An id that CREATE answered, and that no DESTROY was called with, names the
\* object that CREATE allocated, whatever the others create, destroy or grow.
IssuedBound ==
  \A b \in issued : b[1] < capacity /\ slots[b[1]] = b[2] /\ b[2] \in heap

\* Two CREATEs never answer with the same id while it is in use.
IssuedDistinct ==
  \A p \in Proc : pc[p] = "reply" /\ op[p] = "create" /\ Succeeded(p)
    => res[p] \notin IssuedHandles

\* No object is allocated without being in the table, and none is in it twice:
\* a CREATE that fails leaves nothing behind.
NoOrphan ==
  \A o \in heap :
    \/ \E p \in Proc : pc[p] = "store" /\ obj[p] = o
    \/ \E i \in DOMAIN slots : slots[i] = o /\ \A j \in DOMAIN slots : slots[j] = o => j = i

\* The types, and the three facts a CREATE and a DESTROY must keep together.
Sound == TypeOK /\ IssuedBound /\ IssuedDistinct /\ NoOrphan

\* The registry's state: the objects in the slots, the calls of the commands (init is
\* none of its), and an answer from where the table function has settled it.
TableBinding == [i \in Index |-> IF i < capacity /\ slots[i] \in Object THEN slots[i] ELSE NULL]
TableOp      == [p \in Proc |-> IF op[p] = "init" THEN "idle"
                                ELSE IF pc[p] \in {"release", "reply"} THEN "done"
                                ELSE op[p]]
TableRes     == [p \in Proc |-> IF op[p] = "init" THEN NULL ELSE res[p]]

\* The table implements the atomic registry: a call takes effect when it
\* settles its result.
Registry == INSTANCE HandleRegistry WITH
  Handle  <- Index,
  Word    <- 0 .. HANDLE_MAX,
  Error   <- {NO_MEMORY, INIT_FAIL, BAD_HANDLE},
  binding <- TableBinding,
  op      <- TableOp,
  res     <- TableRes

RegistrySpec == Registry!Spec

\* A command that has got the lock gives it back and returns, on every path
\* through the table functions: nobody waits for ever on a lock left behind.
HolderReturns == \A p \in Proc : lock = p ~> pc[p] = "idle"
=============================================================================
