------------------------- MODULE HandleTable_proofs -------------------------
(***************************************************************************)
(* Proofs about HandleTable, for any number of threads, objects and slots: *)
(* the table implements HandleRegistry, and a handle names the object that *)
(* CREATE made for it.  Both need that one thread at a time can make a     *)
(* table's first use.                                                      *)
(***************************************************************************)
EXTENDS HandleTable, FiniteSetTheorems, TLAPS

-----------------------------------------------------------------------------
(* The assumptions of the theorems about the ROM.                          *)

\* One thread makes the table's first use: nothing in the device sees to it.
SingleStarter == \A p, q \in Starter : p = q

\* The handles that the ROM makes up are none that CREATE gives: CREATE gives the
\* lowest free one, and there are so many objects.
StrayNeverGiven ==
  IsFiniteSet(Object) /\ \A h \in StrayHandle : Cardinality(Object) <= h

-----------------------------------------------------------------------------
(* The inductive invariant.                                                *)

\* Where a thread has the table's lock, and where it initialises the table.
Inside   == {"find", "store", "grow_clear", "test", "clear", "read", "release"}
Starting == {"init_lock", "init_slots", "init_clear", "init_set"}

\* A thread is inside if and only if it has the lock, it is there for its call, and
\* the table is initialised before anybody is.
Control ==
  \A p \in Proc :
    /\ pc[p] = "idle" <=> op[p] = "idle"
    /\ pc[p] = "idle" => arg[p] = 0 /\ res[p] = NULL
    /\ op[p] = "init" => arg[p] = 0
    /\ pc[p] \in Inside <=> lock = p
    /\ ~initialized => /\ pc[p] = "idle" \/ p \in Starter
                       /\ pc[p] \notin Inside \cup {"acquire"}
    /\ pc[p] \in Starting => ~initialized /\ op[p] \in {"init", "create"}
    /\ pc[p] \in Inside \cup {"acquire"} => op[p] # "init"
    /\ pc[p] \in {"find", "store", "grow_clear"} => op[p] = "create"
    /\ pc[p] \in {"test", "clear"} => op[p] = "destroy"
    /\ pc[p] = "read" => op[p] = "get"

\* What CREATE has to answer is a number, and with a handle it has an object.
Answering ==
  \A p \in Proc : op[p] = "create" /\ pc[p] \in {"release", "reply"} =>
    res[p] \in Nat /\ (Succeeded(p) => obj[p] \in Object)

\* A slot that was never written is seen by nobody but the thread that will.
NoGarbage ==
  \A i \in DOMAIN slots :
    slots[i] = Garbage => ~initialized \/ \E p \in Proc : pc[p] = "grow_clear" /\ idx[p] <= i

\* A table that nobody has initialised has no object.
Empty ==
  ~initialized => \A i \in DOMAIN slots :
    /\ slots[i] \notin Object
    /\ (\E p \in Proc : pc[p] = "init_set") => slots[i] = NULL

\* A table that grows is full below the new slots.
Growing ==
  \A p \in Proc : pc[p] = "grow_clear" => \A i \in DOMAIN slots :
    /\ i < idx[p] => slots[i] \in Object
    /\ i >= idx[p] => slots[i] = Garbage

\* No object is in two slots.
Distinct ==
  \A i, j \in DOMAIN slots : slots[i] \in Object /\ slots[i] = slots[j] => i = j

\* What is in a slot is allocated, or freed by the thread that clears the slot.
Allocated ==
  \A i \in DOMAIN slots : slots[i] \in Object =>
    slots[i] \in heap \/ \E p \in Proc : pc[p] = "clear" /\ arg[p] = i

\* A thread about to store an object has the lowest free slot, and an object that is
\* in no slot.
Storing ==
  \A p \in Proc : pc[p] = "store" =>
    /\ idx[p] \in DOMAIN slots /\ slots[idx[p]] = NULL
    /\ \A j \in DOMAIN slots : j < idx[p] => slots[j] # NULL
    /\ obj[p] \in heap /\ \A j \in DOMAIN slots : slots[j] # obj[p]

\* A thread about to clear a slot has freed what is in it.
Clearing ==
  \A p \in Proc : pc[p] = "clear" =>
    arg[p] \in DOMAIN slots /\ slots[arg[p]] \in Object /\ slots[arg[p]] \notin heap

Memory == /\ NoGarbage /\ Empty /\ Growing /\ Distinct
          /\ Allocated /\ Storing /\ Clearing /\ NoOrphan

TableInv == TypeOK /\ Control /\ Answering /\ Memory

\* Two threads whose call is between: CREATE has bound a handle and not answered,
\* DESTROY has been called with one and not freed the slot.
Granting(p)   == op[p] = "create" /\ pc[p] \in {"release", "reply"} /\ Succeeded(p)
Destroying(p) == op[p] = "destroy" /\ pc[p] \in {"check", "acquire", "test", "clear"}

Bound(h, o) == h \in DOMAIN slots /\ slots[h] = o /\ o \in Object

\* The handle that p has to answer is bound to its object, and nobody else has it.
GrantedAlone(p) ==
  /\ Bound(res[p], obj[p]) /\ res[p] \notin IssuedHandles
  /\ \A q \in Proc : Destroying(q) => arg[q] # res[p]
  /\ \A q \in Proc : Granting(q) /\ res[q] = res[p] => q = p

\* The handle that p has to free is bound, and nobody else has it.
DestroyedAlone(p) ==
  /\ arg[p] \in DOMAIN slots /\ slots[arg[p]] \in Object
  /\ arg[p] \notin IssuedHandles
  /\ \A q \in Proc : Destroying(q) /\ arg[q] = arg[p] => q = p

\* A handle is issued, or one CREATE has it to answer, or one DESTROY to free; it is
\* bound meanwhile, which a made-up one never is.
Given ==
  /\ \A b \in issued : Bound(b[1], b[2])
  /\ \A h \in StrayHandle : h \in DOMAIN slots => slots[h] \notin Object
  /\ \A p \in Proc : Granting(p) => GrantedAlone(p)
  /\ \A p \in Proc : Destroying(p) => arg[p] \in StrayHandle \/ DestroyedAlone(p)
-----------------------------------------------------------------------------
(* The types and the lock.                                                 *)

\* The assumptions on the constants.
LEMMA Sizes ==
  /\ InitialCapacity \in Nat /\ InitialCapacity > 0 /\ MaxCapacity \in Nat
  /\ InitialCapacity <= MaxCapacity /\ HANDLE_MAX \in Nat
  /\ NULL \notin Object /\ Garbage \notin Object /\ NULL # Garbage /\ NoProc \notin Proc
BY CapacityAssumption, PointerAssumption, ProcAssumption

\* One thread is inside, and one initialises, before anybody is inside.
LEMMA Alone ==
  ASSUME TypeOK, Control, SingleStarter, NEW p \in Proc, NEW q \in Proc
  PROVE  /\ pc[p] \in Inside => initialized /\ (pc[q] \in Inside => p = q)
         /\ pc[p] \in Starting => ~initialized /\ pc[q] \notin Inside
         /\ pc[p] \in Starting /\ pc[q] \in Starting => p = q
BY DEF Control, SingleStarter, Starting, Inside, TypeOK

\* Every step keeps the types.
LEMMA TypesStep ==
  ASSUME TableInv, Next
  PROVE  TypeOK'
<1> USE DEF TableInv
<1> PICK p \in Proc : Call(p) \/ Step(p)
  BY DEF Next
<1> USE DEF TypeOK, vars, table, locals, Goto, Settle, Pointer, Pc
<1>1. ASSUME NEW o \in Operation, NEW h \in 0 .. HANDLE_MAX, Deo(p, o, h) PROVE TypeOK'
  BY <1>1, Sizes DEF Deo
<1>2. CASE Check(p)
  <2>1. pc' \in [Proc -> Pc] /\ res' \in [Proc -> Pointer \cup Nat]
    <3>1. BAD_HANDLE \in Nat
      BY Sizes DEF BAD_HANDLE
    <3> HIDE DEF Pointer
    <3>2. NULL \in Pointer
      BY DEF Pointer
    <3>3. CASE initialized
      BY <1>2, <3>3 DEF Check
    <3>4. CASE ~initialized
      <4> DEFINE r == IF op[p] = "get" THEN NULL ELSE BAD_HANDLE
      <4>1. r \in Pointer \cup Nat
        BY <3>1, <3>2
      <4> HIDE DEF r
      <4>2. res' = res \/ res' = [res EXCEPT ![p] = r]
        BY <1>2, <3>4 DEF Check, r
      <4>3. pc' \in [Proc -> Pc]
        BY <1>2, <3>4 DEF Check
      <4> QED
        BY <4>1, <4>2, <4>3
    <3> QED
      BY <3>3, <3>4
  <2> QED
    BY <1>2, <2>1 DEF Check
<1>3. CASE Reply(p)
  <2>1. issued' \subseteq Nat \X Object
    BY <1>3, Sizes DEF Reply, Answering
  <2> QED
    BY <1>3, <2>1 DEF Reply
<1>4. CASE InitLock(p)
  BY <1>4 DEF InitLock
<1>5. CASE InitSlots(p)
  BY <1>5, Sizes DEF InitSlots
<1>6. CASE InitFail(p)
  BY <1>6, Sizes DEF InitFail, NO_MEMORY
<1>7. CASE InitClear(p)
  BY <1>7 DEF InitClear
<1>8. CASE InitSet(p)
  BY <1>8 DEF InitSet
<1>9. CASE Acquire(p)
  BY <1>9 DEF Acquire, First
<1>10. CASE Release(p)
  BY <1>10 DEF Release
<1>11. ASSUME NEW i \in Index, NEW o \in Object, Find(p, i, o) PROVE TypeOK'
  BY <1>11, Sizes DEF Find, Index
<1>12. ASSUME NEW e \in {NO_MEMORY, INIT_FAIL}, FindFail(p, e) PROVE TypeOK'
  BY <1>12, Sizes DEF FindFail, NO_MEMORY, INIT_FAIL
<1>13. CASE Store(p)
  BY <1>13 DEF Store
<1>14. CASE Grow(p)
  BY <1>14, Sizes DEF Grow
<1>15. CASE GrowFail(p)
  BY <1>15, Sizes DEF GrowFail, NO_MEMORY
<1>16. CASE GrowClear(p)
  BY <1>16 DEF GrowClear
<1>17. CASE TestBad(p)
  BY <1>17, Sizes DEF TestBad, BAD_HANDLE
<1>18. CASE Free(p)
  BY <1>18 DEF Free
<1>19. CASE Clear(p)
  BY <1>19 DEF Clear
<1>20. CASE Read(p)
  BY <1>20 DEF Read
<1> QED
  BY <1>1, <1>2, <1>3, <1>4, <1>5, <1>6, <1>7, <1>8, <1>9, <1>10, <1>11, <1>12, <1>13,
     <1>14, <1>15, <1>16, <1>17, <1>18, <1>19, <1>20 DEF Call, Step

\* Every step keeps the lock.
LEMMA ControlStep ==
  ASSUME TableInv, Next, SingleStarter
  PROVE  Control'
<1> USE DEF TableInv
<1> TypeOK'
  BY TypesStep
<1> PICK p \in Proc : Call(p) \/ Step(p)
  BY DEF Next
<1> \A q \in Proc : /\ pc[p] \in Inside /\ pc[q] \in Inside => p = q
                    /\ pc[p] \in Starting => pc[q] \notin Inside
                    /\ pc[p] \in Starting /\ pc[q] \in Starting => p = q
  BY Alone
<1> NoProc \notin Proc
  BY Sizes
<1> USE DEF TypeOK, Control, vars, table, locals, Goto, Settle, Inside, Starting, Operation
<1>1. ASSUME NEW o \in Operation, NEW h \in 0 .. HANDLE_MAX, Deo(p, o, h) PROVE Control'
  BY <1>1 DEF Deo
<1>2. CASE Check(p)
  BY <1>2 DEF Check
<1>3. CASE Reply(p)
  BY <1>3 DEF Reply
<1>4. CASE InitLock(p)
  BY <1>4 DEF InitLock
<1>5. CASE InitSlots(p)
  BY <1>5 DEF InitSlots
<1>6. CASE InitFail(p)
  BY <1>6 DEF InitFail
<1>7. CASE InitClear(p)
  BY <1>7 DEF InitClear
<1>8. CASE InitSet(p)
  BY <1>8 DEF InitSet
<1>9. CASE Acquire(p)
  BY <1>9 DEF Acquire, First
<1>10. CASE Release(p)
  BY <1>10 DEF Release
<1>11. ASSUME NEW i \in Index, NEW o \in Object, Find(p, i, o) PROVE Control'
  BY <1>11 DEF Find
<1>12. ASSUME NEW e \in {NO_MEMORY, INIT_FAIL}, FindFail(p, e) PROVE Control'
  BY <1>12 DEF FindFail
<1>13. CASE Store(p)
  BY <1>13 DEF Store
<1>14. CASE Grow(p)
  BY <1>14 DEF Grow
<1>15. CASE GrowFail(p)
  BY <1>15 DEF GrowFail
<1>16. CASE GrowClear(p)
  BY <1>16 DEF GrowClear
<1>17. CASE TestBad(p)
  BY <1>17 DEF TestBad
<1>18. CASE Free(p)
  BY <1>18 DEF Free
<1>19. CASE Clear(p)
  BY <1>19 DEF Clear
<1>20. CASE Read(p)
  BY <1>20 DEF Read
<1> QED
  BY <1>1, <1>2, <1>3, <1>4, <1>5, <1>6, <1>7, <1>8, <1>9, <1>10, <1>11, <1>12, <1>13,
     <1>14, <1>15, <1>16, <1>17, <1>18, <1>19, <1>20 DEF Call, Step
-----------------------------------------------------------------------------
(* The memory.                                                             *)

\* Every step keeps what CREATE is about to answer.
LEMMA AnsweringStep ==
  ASSUME TableInv, Next
  PROVE  Answering'
<1> USE DEF TableInv
<1> TypeOK'
  BY TypesStep
<1> PICK p \in Proc : Call(p) \/ Step(p)
  BY DEF Next
<1>a. /\ NO_MEMORY \in Nat /\ INIT_FAIL \in Nat /\ ~(NO_MEMORY <= HANDLE_MAX)
      /\ ~(INIT_FAIL <= HANDLE_MAX)
  BY Sizes DEF NO_MEMORY, INIT_FAIL
<1> USE DEF TypeOK, Answering, Succeeded, vars, table, locals, Goto, Settle, Operation
<1>1. ASSUME NEW o \in Operation, NEW h \in 0 .. HANDLE_MAX, Deo(p, o, h) PROVE Answering'
  BY <1>1 DEF Deo
<1>2. CASE Check(p)
  BY <1>2 DEF Check
<1>3. CASE Reply(p)
  BY <1>3 DEF Reply
<1>4. CASE InitLock(p) \/ InitSlots(p) \/ InitClear(p) \/ InitSet(p)
  <2>1. op' = op /\ obj' = obj /\ res' = res /\ (op[p] = "create" => pc'[p] \notin {"release", "reply"})
    BY <1>4 DEF InitLock, InitSlots, InitClear, InitSet
  <2>2. \A q \in Proc \ {p} : pc'[q] = pc[q]
    BY <1>4 DEF InitLock, InitSlots, InitClear, InitSet
  <2> QED
    BY <2>1, <2>2
<1>5. CASE InitFail(p)
  BY <1>5, <1>a DEF InitFail
<1>6. CASE Acquire(p) \/ Release(p)
  BY <1>6 DEF Acquire, Release, First
<1>7. ASSUME NEW i \in Index, NEW o \in Object, Find(p, i, o) PROVE Answering'
  BY <1>7 DEF Find
<1>8. ASSUME NEW e \in {NO_MEMORY, INIT_FAIL}, FindFail(p, e) PROVE Answering'
  BY <1>8, <1>a DEF FindFail
<1>9. CASE Store(p)
  <2>1. obj[p] \in Object
    BY <1>9 DEF Store, Memory, Storing
  <2> QED
    BY <1>9, <2>1 DEF Store
<1>10. CASE Grow(p) \/ GrowClear(p)
  BY <1>10 DEF Grow, GrowClear
<1>11. CASE GrowFail(p)
  BY <1>11, <1>a DEF GrowFail
<1>12. CASE TestBad(p) \/ Free(p) \/ Clear(p) \/ Read(p)
  <2>1. op[p] # "create" /\ op' = op /\ obj' = obj
    BY <1>12 DEF TestBad, Free, Clear, Read, Control
  <2>2. \A q \in Proc \ {p} : pc'[q] = pc[q] /\ res'[q] = res[q]
    BY <1>12 DEF TestBad, Free, Clear, Read
  <2> QED
    BY <2>1, <2>2
<1> QED
  BY <1>1, <1>2, <1>3, <1>4, <1>5, <1>6, <1>7, <1>8, <1>9, <1>10, <1>11, <1>12
     DEF Call, Step

\* Where a fact about the memory depends on a thread.
Busy == {"init_set", "grow_clear", "store", "clear"}

\* A step that changes neither the memory nor who is busy with it keeps these facts.
LEMMA MemoryKept ==
  ASSUME TableInv, TypeOK', UNCHANGED <<table, heap>>,
         \A q \in Proc :
           \/ pc[q] \notin Busy /\ pc'[q] \notin Busy
           \/ pc'[q] = pc[q] /\ idx'[q] = idx[q] /\ obj'[q] = obj[q] /\ arg'[q] = arg[q]
  PROVE  Memory'
<1> USE DEF TableInv, Memory, table, Busy
<1>1. initialized' = initialized /\ slots' = slots /\ heap' = heap
  OBVIOUS
<1>2. NoGarbage' /\ Empty' /\ Distinct'
  BY <1>1 DEF NoGarbage, Empty, Distinct
<1>3. Growing' /\ Clearing'
  BY <1>1 DEF Growing, Clearing
<1>4. Allocated'
  BY <1>1 DEF Allocated
<1>5. Storing'
  BY <1>1 DEF Storing
<1>6. NoOrphan'
  BY <1>1 DEF NoOrphan
<1> QED
  BY <1>2, <1>3, <1>4, <1>5, <1>6

\* Whoever has the lock is alone with the slots.
LEMMA AloneInside ==
  ASSUME TableInv, SingleStarter, NEW p \in Proc, pc[p] \in Inside
  PROVE  /\ lock = p /\ initialized
         /\ \A q \in Proc \ {p} : pc[q] \notin Inside /\ pc[q] \notin Busy
         /\ pc[p] # "grow_clear" => \A i \in DOMAIN slots : slots[i] \in Object \cup {NULL}
         /\ pc[p] # "clear" => \A i \in DOMAIN slots : slots[i] \in Object => slots[i] \in heap
<1> USE DEF TableInv
<1>1. lock = p /\ initialized
  BY Alone DEF Control
<1>2. \A q \in Proc \ {p} : pc[q] \notin Inside /\ pc[q] \notin Busy
  BY Alone, <1>1 DEF Control, Inside, Starting, Busy
<1>3. pc[p] # "grow_clear" => \A i \in DOMAIN slots : slots[i] \in Object \cup {NULL}
  BY <1>1, <1>2 DEF Memory, NoGarbage, TypeOK, Pointer, Busy
<1>4. pc[p] # "clear" => \A i \in DOMAIN slots : slots[i] \in Object => slots[i] \in heap
  BY <1>1, <1>2 DEF Memory, Allocated, Busy
<1> QED
  BY <1>1, <1>2, <1>3, <1>4

\* Nothing is allocated before the table is initialised.
LEMMA NothingYet ==
  ASSUME TableInv, ~initialized
  PROVE  heap = {} /\ \A i \in DOMAIN slots : slots[i] \notin Object
<1> USE DEF TableInv
<1>1. \A i \in DOMAIN slots : slots[i] \notin Object
  BY DEF Memory, Empty
<1>2. \A p \in Proc : pc[p] # "store"
  BY DEF Control, Inside
<1>3. heap \subseteq Object
  BY DEF TypeOK
<1>4. ASSUME NEW o \in heap PROVE FALSE
  BY <1>1, <1>2, <1>3, <1>4 DEF Memory, NoOrphan
<1> QED
  BY <1>1, <1>4

\* Every step keeps the facts about the memory.
LEMMA MemoryStep ==
  ASSUME TableInv, Next, SingleStarter
  PROVE  Memory'
<1> USE DEF TableInv
<1> TypeOK'
  BY TypesStep
<1> PICK p \in Proc : Call(p) \/ Step(p)
  BY DEF Next
<1>a. pc[p] \in Starting => /\ ~initialized
                            /\ \A q \in Proc : pc[q] \notin Inside
                            /\ \A q \in Proc \ {p} : pc[q] \notin Starting
  BY Alone
<1>b. ASSUME pc[p] \in Inside
      PROVE  /\ lock = p /\ initialized
             /\ \A q \in Proc \ {p} : pc[q] \notin Inside /\ pc[q] \notin Busy
             /\ pc[p] # "grow_clear" => \A i \in DOMAIN slots : slots[i] \in Object \cup {NULL}
             /\ pc[p] # "clear" => \A i \in DOMAIN slots : slots[i] \in Object => slots[i] \in heap
  BY <1>b, AloneInside
<1> NULL \notin Object /\ Garbage \notin Object /\ NULL # Garbage
  BY Sizes
<1> USE DEF TypeOK, vars, table, locals, Goto, Settle
<1>1. ASSUME NEW o \in Operation, NEW h \in 0 .. HANDLE_MAX, Deo(p, o, h) PROVE Memory'
  BY <1>1, MemoryKept DEF Deo, Busy
<1>2. CASE Check(p) \/ Reply(p) \/ InitLock(p) \/ InitFail(p)
  <2>1. UNCHANGED <<table, heap>>
    BY <1>2 DEF Check, Reply, InitLock, InitFail
  <2>2. pc[p] \notin Busy /\ pc'[p] \notin Busy
    BY <1>2 DEF Check, Reply, InitLock, InitFail, Busy
  <2>3. \A q \in Proc \ {p} :
          pc'[q] = pc[q] /\ idx'[q] = idx[q] /\ obj'[q] = obj[q] /\ arg'[q] = arg[q]
    BY <1>2 DEF Check, Reply, InitLock, InitFail
  <2> QED
    BY <2>1, <2>2, <2>3, MemoryKept
<1>3. CASE Acquire(p) \/ Release(p) \/ GrowFail(p) \/ TestBad(p) \/ Read(p)
  <2>1. UNCHANGED <<table, heap>>
    BY <1>3 DEF Acquire, Release, GrowFail, TestBad, Read
  <2>2. pc[p] \notin Busy /\ pc'[p] \notin Busy
    BY <1>3 DEF Acquire, Release, GrowFail, TestBad, Read, Busy, First
  <2>3. \A q \in Proc \ {p} :
          pc'[q] = pc[q] /\ idx'[q] = idx[q] /\ obj'[q] = obj[q] /\ arg'[q] = arg[q]
    BY <1>3 DEF Acquire, Release, GrowFail, TestBad, Read
  <2> QED
    BY <2>1, <2>2, <2>3, MemoryKept
<1>4. ASSUME NEW e \in {NO_MEMORY, INIT_FAIL}, FindFail(p, e) PROVE Memory'
  BY <1>4, MemoryKept DEF FindFail, Busy
<1>5. CASE InitSlots(p)
  <2>1. \A q \in Proc : pc[q] \notin Busy /\ pc'[q] \notin Busy
    BY <1>5, <1>a DEF InitSlots, Starting, Inside, Busy
  <2>2. ~initialized' /\ heap' = heap /\ \A i \in DOMAIN slots' : slots'[i] = Garbage
    BY <1>5, <1>a DEF InitSlots, Starting
  <2>3. heap = {}
    BY <1>5, <1>a, NothingYet DEF InitSlots, Starting
  <2>4. NoGarbage' /\ Empty'
    BY <2>1, <2>2 DEF NoGarbage, Empty, Busy
  <2>5. Growing' /\ Storing' /\ Clearing' /\ NoOrphan'
    BY <2>1, <2>2, <2>3 DEF Growing, Storing, Clearing, NoOrphan, Busy
  <2>6. Distinct' /\ Allocated'
    BY <2>2 DEF Distinct, Allocated
  <2> QED
    BY <2>4, <2>5, <2>6 DEF Memory
<1>6. CASE InitClear(p)
  <2>1. /\ \A q \in Proc \ {p} : pc[q] \notin Busy /\ pc'[q] = pc[q]
        /\ pc'[p] = "init_set"
    BY <1>6, <1>a DEF InitClear, Starting, Inside, Busy
  <2>2. ~initialized' /\ heap' = heap /\ \A i \in DOMAIN slots' : slots'[i] = NULL
    BY <1>6, <1>a DEF InitClear, Starting
  <2>3. heap = {}
    BY <1>6, <1>a, NothingYet DEF InitClear, Starting
  <2>4. NoGarbage' /\ Empty'
    BY <2>1, <2>2 DEF NoGarbage, Empty
  <2>5. \A q \in Proc : pc'[q] \notin {"grow_clear", "store", "clear"}
    BY <2>1 DEF Busy
  <2>6. Growing' /\ Storing' /\ Clearing' /\ NoOrphan'
    BY <2>2, <2>3, <2>5 DEF Growing, Storing, Clearing, NoOrphan
  <2>7. Distinct' /\ Allocated'
    BY <2>2 DEF Distinct, Allocated
  <2> QED
    BY <2>4, <2>6, <2>7 DEF Memory
<1>7. CASE InitSet(p)
  <2>1. /\ \A q \in Proc \ {p} : pc[q] \notin Busy /\ pc'[q] = pc[q]
        /\ pc'[p] \notin Busy
    BY <1>7, <1>a DEF InitSet, Starting, Inside, Busy
  <2>2. heap' = heap /\ slots' = slots /\ \A i \in DOMAIN slots : slots[i] = NULL
    BY <1>7, <1>a DEF InitSet, Starting, Memory, Empty
  <2>3. heap = {}
    BY <1>7, <1>a, NothingYet DEF InitSet, Starting
  <2>4. NoGarbage' /\ Empty'
    BY <2>1, <2>2 DEF NoGarbage, Empty
  <2>5. \A q \in Proc : pc'[q] \notin {"grow_clear", "store", "clear"}
    BY <2>1 DEF Busy
  <2>6. Growing' /\ Storing' /\ Clearing' /\ NoOrphan'
    BY <2>2, <2>3, <2>5 DEF Growing, Storing, Clearing, NoOrphan
  <2>7. Distinct' /\ Allocated'
    BY <2>2 DEF Distinct, Allocated
  <2> QED
    BY <2>4, <2>6, <2>7 DEF Memory
<1>8. ASSUME NEW i \in Index, NEW o \in Object, Find(p, i, o) PROVE Memory'
  <2>1. /\ pc[p] = "find" /\ pc'[p] = "store" /\ idx'[p] = i /\ obj'[p] = o
        /\ slots' = slots /\ initialized /\ initialized' /\ heap' = heap \cup {o} /\ o \notin heap
        /\ i \in DOMAIN slots /\ slots[i] = NULL
        /\ \A j \in DOMAIN slots : j < i => slots[j] # NULL
    BY <1>8, <1>b DEF Find, FreeSlots, Inside, Index
  <2>2. \A q \in Proc \ {p} : pc[q] \notin Busy /\ pc'[q] \notin Busy
    BY <1>8, <1>b, <2>1 DEF Find, Inside
  <2>3. \A j \in DOMAIN slots : slots[j] # Garbage /\ slots[j] # o
    BY <1>b, <2>1 DEF Inside
  <2>4. NoGarbage' /\ Empty' /\ Growing' /\ Distinct' /\ Clearing'
    BY <2>1, <2>2, <2>3 DEF NoGarbage, Empty, Growing, Distinct, Clearing, Memory, Busy
  <2>5. Allocated'
    BY <1>b, <2>1 DEF Allocated, Inside
  <2>6. Storing'
    BY <2>1, <2>2, <2>3 DEF Storing, Busy
  <2>7. NoOrphan'
    <3> SUFFICES ASSUME NEW x \in heap, x # o
                 PROVE  \E j \in DOMAIN slots : slots[j] = x /\ \A k \in DOMAIN slots : slots[k] = x => k = j
      BY <2>1 DEF NoOrphan
    <3> QED
      BY <2>1, <2>2 DEF NoOrphan, Memory, Busy
  <2> QED
    BY <2>4, <2>5, <2>6, <2>7 DEF Memory
<1>9. CASE Store(p)
  <2>1. /\ pc[p] = "store" /\ pc'[p] = "release" /\ idx' = idx /\ obj' = obj
        /\ slots' = [slots EXCEPT ![idx[p]] = obj[p]] /\ initialized' /\ heap' = heap
    BY <1>9, <1>b DEF Store, Inside
  <2>2. \A q \in Proc : q # p => pc[q] \notin Busy /\ pc'[q] \notin Busy
    BY <1>9, <1>b, <2>1 DEF Store, Inside
  <2>3. \A q \in Proc : pc'[q] \notin Busy
    BY <2>1, <2>2 DEF Busy
  <2>4. /\ idx[p] \in DOMAIN slots /\ slots[idx[p]] = NULL /\ obj[p] \in heap
        /\ \A j \in DOMAIN slots : slots[j] # obj[p]
    BY <2>1 DEF Memory, Storing
  <2>5. \A j \in DOMAIN slots : slots[j] \in Object \cup {NULL} /\ (slots[j] \in Object => slots[j] \in heap)
    BY <1>b, <2>1 DEF Inside
  <2>6. NoGarbage' /\ Empty' /\ Growing' /\ Clearing' /\ Storing'
    BY <2>1, <2>3, <2>4, <2>5 DEF NoGarbage, Empty, Growing, Storing, Clearing, Busy
  <2>7. Distinct'
    BY <2>1, <2>4, <2>5 DEF Distinct, Memory
  <2>8. Allocated'
    BY <2>1, <2>4, <2>5 DEF Allocated
  <2>9. NoOrphan'
    <3> SUFFICES ASSUME NEW o \in heap
                 PROVE  \E i \in DOMAIN slots' : slots'[i] = o /\ \A j \in DOMAIN slots' : slots'[j] = o => j = i
      BY <2>1 DEF NoOrphan
    <3>1. CASE o = obj[p]
      BY <3>1, <2>1, <2>4
    <3>2. CASE o # obj[p]
      <4>1. PICK i \in DOMAIN slots : slots[i] = o /\ \A j \in DOMAIN slots : slots[j] = o => j = i
        BY <3>2, <2>1, <2>2 DEF Memory, NoOrphan, Busy
      <4>2. i # idx[p] /\ DOMAIN slots' = DOMAIN slots
        BY <2>1, <2>4, <4>1
      <4>3. \A j \in DOMAIN slots : slots'[j] = IF j = idx[p] THEN obj[p] ELSE slots[j]
        BY <2>1
      <4> QED
        BY <3>2, <4>1, <4>2, <4>3
    <3> QED
      BY <3>1, <3>2
  <2> QED
    BY <2>6, <2>7, <2>8, <2>9 DEF Memory
<1>10. CASE Grow(p)
  <2>1. /\ pc[p] = "find" /\ pc'[p] = "grow_clear" /\ initialized' /\ heap' = heap
        /\ capacity \in Nat /\ capacity' = 2 * capacity /\ idx'[p] = capacity
        /\ DOMAIN slots = 0 .. capacity - 1 /\ DOMAIN slots' = 0 .. capacity' - 1
        /\ \A i \in DOMAIN slots' : slots'[i] = IF i < capacity THEN slots[i] ELSE Garbage
        /\ \A i \in DOMAIN slots : slots[i] # NULL
    BY <1>10, <1>b DEF Grow, FreeSlots, Inside
  <2>2. \A q \in Proc \ {p} : pc[q] \notin Busy /\ pc'[q] \notin Busy
    BY <1>10, <1>b, <2>1 DEF Grow, Inside
  <2>3. \A i \in DOMAIN slots : /\ slots[i] \in Object /\ slots[i] \in heap
                                /\ i < capacity /\ i \in DOMAIN slots' /\ slots'[i] = slots[i]
    <3>1. \A i \in DOMAIN slots : slots[i] \in Object /\ slots[i] \in heap
      BY <1>b, <2>1 DEF Inside
    <3> HIDE DEF TypeOK
    <3> QED
      BY <2>1, <3>1
  <2>4. \A i \in DOMAIN slots' \ DOMAIN slots : i >= capacity /\ slots'[i] = Garbage
    BY <2>1
  <2> heap \subseteq Object
    OBVIOUS
  <2> HIDE DEF TypeOK
  <2>5. NoGarbage' /\ Empty' /\ Growing'
    BY <2>1, <2>2, <2>3, <2>4 DEF NoGarbage, Empty, Growing, Busy
  <2>6. Distinct' /\ Allocated'
    <3>1. \A i \in DOMAIN slots' : slots'[i] \in Object => i \in DOMAIN slots
      BY <2>4
    <3>2. Distinct'
      BY <3>1, <2>3 DEF Distinct, Memory
    <3>3. Allocated'
      BY <3>1, <2>1, <2>3 DEF Allocated
    <3> QED
      BY <3>2, <3>3
  <2>7. Storing' /\ Clearing'
    BY <2>1, <2>2 DEF Storing, Clearing, Busy
  <2>8. NoOrphan'
    <3> SUFFICES ASSUME NEW o \in heap
                 PROVE  \E i \in DOMAIN slots' : slots'[i] = o /\ \A j \in DOMAIN slots' : slots'[j] = o => j = i
      BY <2>1 DEF NoOrphan
    <3>1. PICK i \in DOMAIN slots : slots[i] = o /\ \A j \in DOMAIN slots : slots[j] = o => j = i
      BY <2>1, <2>2 DEF Memory, NoOrphan, Busy
    <3>2. o # Garbage
      OBVIOUS
    <3> QED
      BY <3>1, <3>2, <2>3, <2>4
  <2> QED
    BY <2>5, <2>6, <2>7, <2>8 DEF Memory
<1>11. CASE GrowClear(p)
  <2>1. /\ pc[p] = "grow_clear" /\ pc'[p] = "find" /\ initialized /\ initialized' /\ heap' = heap
        /\ DOMAIN slots' = DOMAIN slots
        /\ \A i \in DOMAIN slots : slots'[i] = IF i < idx[p] THEN slots[i] ELSE NULL
    BY <1>11, <1>b DEF GrowClear, Inside
  <2>2. \A q \in Proc : q # p => pc[q] \notin Busy /\ pc'[q] = pc[q]
    BY <1>11, <1>b, <2>1 DEF GrowClear, Inside
  <2>3. \A q \in Proc : pc'[q] \notin Busy
    BY <2>1, <2>2 DEF Busy
  <2>4. \A i \in DOMAIN slots : \/ slots'[i] = slots[i] /\ slots[i] \in Object
                                \/ slots'[i] = NULL /\ slots[i] = Garbage
    <3>1. idx[p] \in Nat /\ \A i \in DOMAIN slots : i \in Nat
      OBVIOUS
    <3> HIDE DEF TypeOK
    <3> QED
      BY <2>1, <3>1 DEF Memory, Growing
  <2> heap \subseteq Object
    OBVIOUS
  <2> HIDE DEF TypeOK
  <2>5. NoGarbage' /\ Empty'
    BY <2>1, <2>4 DEF NoGarbage, Empty
  <2>9. Growing' /\ Storing' /\ Clearing'
    BY <2>3 DEF Growing, Storing, Clearing, Busy
  <2>6. Distinct'
    BY <2>1, <2>4 DEF Distinct, Memory
  <2>7. Allocated'
    BY <1>b, <2>1, <2>4 DEF Allocated, Inside
  <2>8. NoOrphan'
    <3> SUFFICES ASSUME NEW o \in heap
                 PROVE  \E i \in DOMAIN slots' : slots'[i] = o /\ \A j \in DOMAIN slots' : slots'[j] = o => j = i
      BY <2>1 DEF NoOrphan
    <3>1. PICK i \in DOMAIN slots : slots[i] = o /\ \A j \in DOMAIN slots : slots[j] = o => j = i
      BY <2>1, <2>2 DEF Memory, NoOrphan, Busy
    <3> QED
      BY <3>1, <2>1, <2>4
  <2> QED
    BY <2>5, <2>6, <2>7, <2>8, <2>9 DEF Memory
<1>12. CASE Free(p)
  <2>1. /\ pc[p] = "test" /\ pc'[p] = "clear" /\ initialized /\ initialized' /\ slots' = slots
        /\ arg' = arg /\ arg[p] \in DOMAIN slots /\ slots[arg[p]] # NULL
        /\ heap' = heap \ {slots[arg[p]]}
    BY <1>12, <1>b DEF Free, Inside
  <2>2. \A q \in Proc \ {p} : pc[q] \notin Busy /\ pc'[q] \notin Busy
    BY <1>12, <1>b, <2>1 DEF Free, Inside
  <2>3. \A i \in DOMAIN slots : slots[i] \in Object \cup {NULL} /\ (slots[i] \in Object => slots[i] \in heap)
    BY <1>b, <2>1 DEF Inside
  <2>4. NoGarbage' /\ Empty' /\ Growing' /\ Distinct' /\ Clearing'
    BY <2>1, <2>2, <2>3 DEF NoGarbage, Empty, Growing, Distinct, Clearing, Memory, Busy
  <2>5. Allocated'
    BY <2>1, <2>3 DEF Allocated, Distinct, Memory
  <2>6. Storing'
    BY <2>1, <2>2 DEF Storing, Busy
  <2>7. NoOrphan'
    <3> SUFFICES ASSUME NEW o \in heap'
                 PROVE  \E i \in DOMAIN slots : slots[i] = o /\ \A j \in DOMAIN slots : slots[j] = o => j = i
      BY <2>1 DEF NoOrphan
    <3> QED
      BY <2>1, <2>2 DEF NoOrphan, Memory, Busy
  <2> QED
    BY <2>4, <2>5, <2>6, <2>7 DEF Memory
<1>13. CASE Clear(p)
  <2>1. /\ pc[p] = "clear" /\ pc'[p] = "release" /\ initialized /\ initialized' /\ heap' = heap
        /\ slots' = [slots EXCEPT ![arg[p]] = NULL]
    BY <1>13, <1>b DEF Clear, Inside
  <2>2. \A q \in Proc : q # p => pc[q] \notin Busy /\ pc'[q] = pc[q]
    BY <1>13, <1>b, <2>1 DEF Clear, Inside
  <2>3. \A q \in Proc : pc'[q] \notin Busy
    BY <2>1, <2>2 DEF Busy
  <2>4. \A i \in DOMAIN slots : slots[i] \in Object \cup {NULL}
    BY <1>b, <2>1 DEF Inside
  <2>5. arg[p] \in DOMAIN slots /\ slots[arg[p]] \in Object /\ slots[arg[p]] \notin heap
    BY <2>1 DEF Memory, Clearing
  <2>6. NoGarbage' /\ Empty' /\ Growing' /\ Storing' /\ Clearing'
    BY <2>1, <2>3, <2>4 DEF NoGarbage, Empty, Growing, Storing, Clearing, Busy
  <2>7. Distinct'
    BY <2>1 DEF Distinct, Memory
  <2>8. Allocated'
    BY <2>1, <2>2 DEF Allocated, Memory, Busy
  <2>9. NoOrphan'
    <3> SUFFICES ASSUME NEW o \in heap
                 PROVE  \E i \in DOMAIN slots' : slots'[i] = o /\ \A j \in DOMAIN slots' : slots'[j] = o => j = i
      BY <2>1 DEF NoOrphan
    <3>1. PICK i \in DOMAIN slots : slots[i] = o /\ \A j \in DOMAIN slots : slots[j] = o => j = i
      BY <2>1, <2>2 DEF Memory, NoOrphan, Busy
    <3>2. i # arg[p] /\ o # NULL /\ DOMAIN slots' = DOMAIN slots
      BY <3>1, <2>1, <2>5
    <3>3. \A j \in DOMAIN slots : slots'[j] = IF j = arg[p] THEN NULL ELSE slots[j]
      BY <2>1
    <3> QED
      BY <3>1, <3>2, <3>3
  <2> QED
    BY <2>6, <2>7, <2>8, <2>9 DEF Memory
<1> QED
  BY <1>1, <1>2, <1>3, <1>4, <1>5, <1>6, <1>7, <1>8, <1>9, <1>10, <1>11, <1>12, <1>13
     DEF Call, Step
-----------------------------------------------------------------------------
(* The handles.                                                            *)

\* CREATE gives a handle below the number of objects: the slots before it hold
\* different ones.
LEMMA LowestSlot ==
  ASSUME TableInv, StrayNeverGiven, SingleStarter, NEW p \in Proc, pc[p] = "store"
  PROVE  idx[p] \notin StrayHandle
<1> USE DEF TableInv
<1> DEFINE n == idx[p]
           f == [j \in 0 .. n |-> IF j = n THEN obj[p] ELSE slots[j]]
<1>1. /\ n \in Nat /\ n < capacity /\ obj[p] \in Object
      /\ \A j \in 0 .. n - 1 : /\ j \in DOMAIN slots /\ slots[j] # NULL
                               /\ slots[j] \in Object \cup {NULL} /\ slots[j] # obj[p]
  <2>1. n \in DOMAIN slots /\ obj[p] \in heap /\ \A j \in DOMAIN slots : j < n => slots[j] # NULL
    BY DEF Memory, Storing
  <2>2. \A j \in DOMAIN slots : slots[j] # obj[p] /\ slots[j] \in Object \cup {NULL}
    BY AloneInside DEF Memory, Storing, Inside
  <2>3. DOMAIN slots = 0 .. capacity - 1 /\ capacity \in Nat /\ heap \subseteq Object
    BY DEF TypeOK
  <2> HIDE DEF n
  <2> QED
    BY <2>1, <2>2, <2>3
<1>2. \A j, k \in 0 .. n - 1 : slots[j] = slots[k] => j = k
  BY <1>1 DEF Memory, Distinct
<1> HIDE DEF n
<1>3. f \in Injection(0 .. n, Object)
  <2>1. f \in [0 .. n -> Object]
    BY <1>1
  <2>2. \A j, k \in 0 .. n : f[j] = f[k] => j = k
    BY <1>1, <1>2
  <2> QED
    BY <2>1, <2>2 DEF Injection, IsInjective
<1>4. Cardinality(0 .. n) <= Cardinality(Object)
  BY <1>3, FS_Injection DEF StrayNeverGiven
<1>5. Cardinality(0 .. n) = n + 1
  BY <1>1, FS_Interval
<1>6. Cardinality(Object) \in Nat
  BY FS_CardinalityType DEF StrayNeverGiven
<1> QED
  BY <1>1, <1>4, <1>5, <1>6, StrayAssumption DEF StrayNeverGiven, n

\* A step after which nobody has a handle who had not, and every object is where it
\* was, keeps who has which.
LEMMA GivenKept ==
  ASSUME TypeOK, Given, issued' = issued,
         \A i \in DOMAIN slots : slots[i] \in Object => i \in DOMAIN slots' /\ slots'[i] = slots[i],
         \A i \in DOMAIN slots' : slots'[i] \in Object => i \in DOMAIN slots /\ slots[i] \in Object,
         \A q \in Proc : Granting(q)' => Granting(q) /\ res'[q] = res[q] /\ obj'[q] = obj[q],
         \A q \in Proc : Destroying(q)' => Destroying(q) /\ arg'[q] = arg[q]
  PROVE  Given'
<1>1. \A h, o : Bound(h, o) => Bound(h, o)'
  BY DEF Bound
<1>2. IssuedHandles' = IssuedHandles
  BY DEF IssuedHandles
<1>3. \A b \in issued' : Bound(b[1], b[2])'
  BY <1>1 DEF Given
<1>4. \A h \in StrayHandle : h \in DOMAIN slots' => slots'[h] \notin Object
  BY DEF Given
<1>5. ASSUME NEW q \in Proc, Granting(q)' PROVE GrantedAlone(q)'
  <2>1. Granting(q) /\ res'[q] = res[q] /\ obj'[q] = obj[q] /\ GrantedAlone(q)
    BY <1>5 DEF Given
  <2>2. (Bound(res[q], obj[q]) /\ res[q] \notin IssuedHandles)'
    BY <1>1, <1>2, <2>1 DEF GrantedAlone
  <2> QED
    BY <2>1, <2>2 DEF GrantedAlone
<1>6. ASSUME NEW q \in Proc, Destroying(q)' PROVE arg'[q] \in StrayHandle \/ DestroyedAlone(q)'
  <2>1. Destroying(q) /\ arg'[q] = arg[q] /\ (arg[q] \in StrayHandle \/ DestroyedAlone(q))
    BY <1>6 DEF Given
  <2>2. CASE DestroyedAlone(q)
    BY <1>2, <2>1, <2>2 DEF DestroyedAlone
  <2> QED
    BY <2>1, <2>2
<1> QED
  BY <1>3, <1>4, <1>5, <1>6 DEF Given

\* Every step keeps who has which handle.
LEMMA GivenStep ==
  ASSUME TableInv, Given, Next, SingleStarter, StrayNeverGiven
  PROVE  Given'
<1> USE DEF TableInv
<1> TypeOK' /\ Control' /\ Memory'
  BY TypesStep, ControlStep, MemoryStep
<1> PICK p \in Proc : Call(p) \/ Step(p)
  BY DEF Next
<1>a. pc[p] \in Starting => ~initialized
  BY Alone
<1>b. ASSUME pc[p] \in Inside
      PROVE  /\ \A q \in Proc \ {p} : pc[q] \notin Inside
             /\ pc[p] # "grow_clear" => \A i \in DOMAIN slots : slots[i] \in Object \cup {NULL}
  BY <1>b, AloneInside
<1>c. /\ NO_MEMORY \in Nat /\ INIT_FAIL \in Nat /\ ~(NO_MEMORY <= HANDLE_MAX)
      /\ ~(INIT_FAIL <= HANDLE_MAX)
  BY Sizes DEF NO_MEMORY, INIT_FAIL
<1> NULL \notin Object /\ Garbage \notin Object /\ NULL # Garbage
  BY Sizes
<1> USE DEF vars, table, locals, Goto, Settle
<1>1. CASE Check(p) \/ InitLock(p) \/ InitFail(p) \/ InitSet(p) \/ Acquire(p) \/ Release(p)
  <2>1. issued' = issued /\ slots' = slots /\ obj' = obj /\ arg' = arg /\ op' = op
    BY <1>1 DEF Check, InitLock, InitFail, InitSet, Acquire, Release
  <2>2. \A q \in Proc : Granting(q)' => Granting(q) /\ res'[q] = res[q]
    <3>1. \A q \in Proc \ {p} : pc'[q] = pc[q] /\ res'[q] = res[q]
      BY <1>1 DEF Check, InitLock, InitFail, InitSet, Acquire, Release, TypeOK
    <3>2. \A q \in Proc \ {p} : Granting(q)' => Granting(q)
      BY <2>1, <3>1 DEF Granting, Succeeded
    <3>3. CASE Check(p) \/ InitLock(p) \/ InitSet(p) \/ Acquire(p)
      <4>1. op[p] = "create" => pc'[p] \notin {"release", "reply"}
        BY <3>3 DEF Check, InitLock, InitSet, Acquire, First, TypeOK
      <4> QED
        BY <2>1, <3>1, <3>2, <4>1 DEF Granting
    <3>4. CASE InitFail(p)
      BY <2>1, <3>1, <3>2, <3>4, <1>c DEF InitFail, Granting, Succeeded, TypeOK
    <3>5. CASE Release(p)
      BY <2>1, <3>1, <3>2, <3>5 DEF Release, Granting, Succeeded, TypeOK
    <3> QED
      BY <1>1, <3>3, <3>4, <3>5
  <2>3. \A q \in Proc : Destroying(q)' => Destroying(q)
    BY <1>1 DEF Check, InitLock, InitFail, InitSet, Acquire, Release, Destroying, Control,
       Starting, TypeOK, First
  <2> QED
    BY <2>1, <2>2, <2>3, GivenKept
<1>2. CASE InitSlots(p) \/ InitClear(p)
  <2>1. issued' = issued /\ obj' = obj /\ arg' = arg /\ op' = op /\ res' = res
    BY <1>2 DEF InitSlots, InitClear
  <2>2. (\A i \in DOMAIN slots : slots[i] \notin Object) /\ \A i \in DOMAIN slots' : slots'[i] \notin Object
    BY <1>2, <1>a DEF InitSlots, InitClear, Starting, Memory, Empty
  <2>3. \A q \in Proc : Granting(q)' => Granting(q)
    BY <1>2 DEF InitSlots, InitClear, Granting, Succeeded, TypeOK
  <2>4. \A q \in Proc : Destroying(q)' => Destroying(q)
    BY <1>2 DEF InitSlots, InitClear, Destroying, TypeOK
  <2> QED
    BY <2>1, <2>2, <2>3, <2>4, GivenKept
<1>3. CASE GrowFail(p) \/ TestBad(p) \/ Free(p) \/ Read(p)
  <2>1. issued' = issued /\ slots' = slots /\ obj' = obj /\ arg' = arg /\ op' = op
    BY <1>3 DEF GrowFail, TestBad, Free, Read
  <2>2. \A q \in Proc : Granting(q)' => Granting(q) /\ res'[q] = res[q]
    <3>1. \A q \in Proc \ {p} : pc'[q] = pc[q] /\ res'[q] = res[q]
      BY <1>3 DEF GrowFail, TestBad, Free, Read, TypeOK
    <3>2. \A q \in Proc \ {p} : Granting(q)' => Granting(q)
      BY <2>1, <3>1 DEF Granting, Succeeded
    <3>3. CASE GrowFail(p)
      BY <2>1, <3>1, <3>2, <3>3, <1>c DEF GrowFail, Granting, Succeeded, TypeOK
    <3>4. CASE TestBad(p) \/ Free(p) \/ Read(p)
      <4>1. op[p] # "create"
        BY <3>4 DEF TestBad, Free, Read, Control
      <4> QED
        BY <2>1, <3>1, <3>2, <4>1 DEF Granting
    <3> QED
      BY <1>3, <3>3, <3>4
  <2>3. \A q \in Proc : Destroying(q)' => Destroying(q)
    BY <1>3 DEF GrowFail, TestBad, Free, Read, Destroying, TypeOK
  <2> QED
    BY <2>1, <2>2, <2>3, GivenKept
<1>4. ASSUME NEW i \in Index, NEW o \in Object, Find(p, i, o) PROVE Given'
  <2>1. issued' = issued /\ slots' = slots /\ arg' = arg /\ op' = op /\ res' = res
    BY <1>4 DEF Find
  <2>2. \A q \in Proc : Granting(q)' => Granting(q) /\ obj'[q] = obj[q]
    BY <1>4 DEF Find, Granting, Succeeded, TypeOK
  <2>3. \A q \in Proc : Destroying(q)' => Destroying(q)
    BY <1>4 DEF Find, Destroying, TypeOK
  <2> QED
    BY <2>1, <2>2, <2>3, GivenKept
<1>5. ASSUME NEW e \in {NO_MEMORY, INIT_FAIL}, FindFail(p, e) PROVE Given'
  <2>1. issued' = issued /\ slots' = slots /\ arg' = arg /\ op' = op /\ obj' = obj
    BY <1>5 DEF FindFail
  <2>2. \A q \in Proc : Granting(q)' => Granting(q) /\ res'[q] = res[q]
    BY <1>5, <1>c DEF FindFail, Granting, Succeeded, TypeOK
  <2>3. \A q \in Proc : Destroying(q)' => Destroying(q)
    BY <1>5 DEF FindFail, Destroying, TypeOK
  <2> QED
    BY <2>1, <2>2, <2>3, GivenKept
<1>6. CASE Grow(p) \/ GrowClear(p)
  <2>1. issued' = issued /\ arg' = arg /\ op' = op /\ res' = res /\ obj' = obj
    BY <1>6 DEF Grow, GrowClear
  <2>2. \A i \in DOMAIN slots : slots[i] \in Object => i \in DOMAIN slots' /\ slots'[i] = slots[i]
    BY <1>6 DEF Grow, GrowClear, TypeOK, Memory, Growing
  <2>3. \A i \in DOMAIN slots' : slots'[i] \in Object => i \in DOMAIN slots /\ slots[i] \in Object
    BY <1>6 DEF Grow, GrowClear, TypeOK
  <2>4. \A q \in Proc : Granting(q)' => Granting(q)
    BY <1>6 DEF Grow, GrowClear, Granting, Succeeded, TypeOK
  <2>5. \A q \in Proc : Destroying(q)' => Destroying(q)
    BY <1>6 DEF Grow, GrowClear, Destroying, TypeOK
  <2> QED
    BY <2>1, <2>2, <2>3, <2>4, <2>5, GivenKept
<1>7. ASSUME NEW o \in Operation, NEW h \in 0 .. HANDLE_MAX, Deo(p, o, h) PROVE Given'
  <2>1. /\ pc[p] = "idle" /\ slots' = slots /\ res' = res /\ obj' = obj
        /\ op' = [op EXCEPT ![p] = o] /\ arg' = [arg EXCEPT ![p] = h] /\ pc' = [pc EXCEPT ![p] = "check"]
        /\ o = "destroy" => h \in IssuedHandles \cup StrayHandle
    BY <1>7 DEF Deo
  <2>2. /\ issued' \subseteq issued /\ IssuedHandles' \subseteq IssuedHandles
        /\ o = "destroy" => h \notin IssuedHandles'
    BY <1>7 DEF Deo, IssuedHandles
  <2>3. \A q \in Proc : Granting(q)' <=> Granting(q) /\ q # p
    BY <2>1 DEF Granting, Succeeded, TypeOK
  <2>4. \A q \in Proc \ {p} : (Destroying(q)' <=> Destroying(q)) /\ arg'[q] = arg[q]
    BY <2>1 DEF Destroying, TypeOK
  <2>5. (Destroying(p)' <=> o = "destroy") /\ arg'[p] = h /\ ~Destroying(p)
    BY <2>1 DEF Destroying, TypeOK
  <2>6. h \in IssuedHandles => h \in DOMAIN slots /\ slots[h] \in Object
    BY DEF Given, IssuedHandles, Bound
  <2>7. \A b \in issued' : Bound(b[1], b[2])'
    BY <2>1, <2>2 DEF Given, Bound
  <2>8. \A s \in StrayHandle : s \in DOMAIN slots' => slots'[s] \notin Object
    BY <2>1 DEF Given
  <2>9. ASSUME NEW q \in Proc, Granting(q)' PROVE GrantedAlone(q)'
    <3>1. Granting(q) /\ GrantedAlone(q)
      BY <2>3, <2>9 DEF Given
    <3>2. res[q] \notin StrayHandle
      BY <3>1 DEF Given, GrantedAlone, Bound
    <3>3. (Bound(res[q], obj[q]) /\ res[q] \notin IssuedHandles)'
      BY <2>1, <2>2, <3>1 DEF GrantedAlone, Bound
    <3>4. \A r \in Proc : Destroying(r)' => arg'[r] # res'[q]
      BY <2>1, <2>4, <2>5, <3>1, <3>2 DEF GrantedAlone
    <3>5. \A r \in Proc : Granting(r)' /\ res'[r] = res'[q] => r = q
      BY <2>1, <2>3, <3>1 DEF GrantedAlone
    <3> QED
      BY <3>3, <3>4, <3>5 DEF GrantedAlone
  <2>10. ASSUME NEW q \in Proc, Destroying(q)' PROVE arg'[q] \in StrayHandle \/ DestroyedAlone(q)'
    <3>1. CASE q = p
      <4>1. CASE h \in StrayHandle
        BY <2>5, <3>1, <4>1
      <4>2. CASE h \notin StrayHandle
        <5>1. h \in IssuedHandles
          BY <2>1, <2>5, <2>10, <3>1, <4>2
        <5>2. \A r \in Proc : Destroying(r)' /\ arg'[r] = h => r = p
          BY <2>4, <4>2, <5>1 DEF Given, DestroyedAlone
        <5> QED
          BY <2>1, <2>2, <2>5, <2>6, <2>10, <3>1, <5>1, <5>2 DEF DestroyedAlone
      <4> QED
        BY <4>1, <4>2
    <3>2. CASE q # p
      <4>1. Destroying(q) /\ arg'[q] = arg[q] /\ (arg[q] \in StrayHandle \/ DestroyedAlone(q))
        BY <2>4, <2>10, <3>2 DEF Given
      <4>2. CASE arg[q] \notin StrayHandle /\ DestroyedAlone(q)
        <5>1. \A r \in Proc : Destroying(r)' /\ arg'[r] = arg'[q] => r = q
          BY <2>1, <2>4, <2>5, <4>1, <4>2 DEF DestroyedAlone
        <5> QED
          BY <2>1, <2>2, <4>1, <4>2, <5>1 DEF DestroyedAlone
      <4> QED
        BY <4>1, <4>2
    <3> QED
      BY <3>1, <3>2
  <2> QED
    BY <2>7, <2>8, <2>9, <2>10 DEF Given
<1>8. CASE Reply(p)
  <2>1. /\ slots' = slots /\ pc' = [pc EXCEPT ![p] = "idle"] /\ op' = [op EXCEPT ![p] = "idle"]
        /\ \A q \in Proc \ {p} : res'[q] = res[q] /\ obj'[q] = obj[q] /\ arg'[q] = arg[q]
    BY <1>8 DEF Reply
  <2>2. /\ Granting(p) => issued' = issued \cup {<<res[p], obj[p]>>}
        /\ ~Granting(p) => issued' = issued
    BY <1>8 DEF Reply, Granting
  <2>3. \A q \in Proc : Granting(q)' <=> Granting(q) /\ q # p
    BY <2>1 DEF Granting, Succeeded, TypeOK
  <2>4. \A q \in Proc : Destroying(q)' <=> Destroying(q) /\ q # p
    BY <1>8, <2>1 DEF Destroying, TypeOK, Reply
  <2>5. /\ Granting(p) => IssuedHandles' = IssuedHandles \cup {res[p]}
        /\ ~Granting(p) => IssuedHandles' = IssuedHandles
    <3> DEFINE b == <<res[p], obj[p]>>
    <3>1. b[1] = res[p]
      OBVIOUS
    <3>2. (Granting(p) => issued' = issued \cup {b}) /\ (~Granting(p) => issued' = issued)
      BY <2>2
    <3> HIDE DEF b
    <3> QED
      BY <3>1, <3>2, Zenon DEF IssuedHandles
  <2>6. \A h, o : Bound(h, o)' <=> Bound(h, o)
    BY <2>1 DEF Bound
  <2>7. \A b \in issued' : Bound(b[1], b[2])'
    BY <2>2, <2>6 DEF Given, GrantedAlone
  <2>8. \A s \in StrayHandle : s \in DOMAIN slots' => slots'[s] \notin Object
    BY <2>1 DEF Given
  <2>9. ASSUME NEW q \in Proc, Granting(q)' PROVE GrantedAlone(q)'
    <3>1. q # p /\ Granting(q) /\ GrantedAlone(q) /\ (Granting(p) => res[q] # res[p])
      BY <2>3, <2>9 DEF Given, GrantedAlone
    <3>2. (Bound(res[q], obj[q]) /\ res[q] \notin IssuedHandles)'
      BY <2>1, <2>5, <2>6, <3>1 DEF GrantedAlone
    <3>3. \A r \in Proc : Destroying(r)' => arg'[r] # res'[q]
      BY <2>1, <2>4, <3>1 DEF GrantedAlone
    <3>4. \A r \in Proc : Granting(r)' /\ res'[r] = res'[q] => r = q
      BY <2>1, <2>3, <3>1 DEF GrantedAlone
    <3> QED
      BY <3>2, <3>3, <3>4 DEF GrantedAlone
  <2>10. ASSUME NEW q \in Proc, Destroying(q)' PROVE arg'[q] \in StrayHandle \/ DestroyedAlone(q)'
    <3>1. q # p /\ Destroying(q) /\ arg'[q] = arg[q] /\ (arg[q] \in StrayHandle \/ DestroyedAlone(q))
      BY <2>1, <2>4, <2>10 DEF Given
    <3>2. Granting(p) => arg[q] # res[p]
      BY <3>1 DEF Given, GrantedAlone
    <3>3. CASE DestroyedAlone(q)
      <4>1. \A r \in Proc : Destroying(r)' /\ arg'[r] = arg'[q] => r = q
        BY <2>1, <2>4, <3>1, <3>3 DEF DestroyedAlone
      <4> QED
        BY <2>1, <2>5, <3>1, <3>2, <3>3, <4>1 DEF DestroyedAlone
    <3> QED
      BY <3>1, <3>3
  <2> QED
    BY <2>7, <2>8, <2>9, <2>10 DEF Given
<1>9. CASE Store(p)
  <2> DEFINE n == idx[p]
  <2>1. /\ pc[p] = "store" /\ op[p] = "create" /\ pc' = [pc EXCEPT ![p] = "release"]
        /\ slots' = [slots EXCEPT ![n] = obj[p]] /\ res' = [res EXCEPT ![p] = n]
        /\ op' = op /\ arg' = arg /\ obj' = obj /\ issued' = issued
    BY <1>9 DEF Store, Control
  <2>2. n \in DOMAIN slots /\ slots[n] = NULL /\ n \notin StrayHandle /\ obj[p] \in Object
    BY <2>1, LowestSlot DEF Memory, Storing, TypeOK
  <2> HIDE DEF n
  <2>3. IssuedHandles' = IssuedHandles /\ n \notin IssuedHandles
    BY <2>1, <2>2 DEF IssuedHandles, Given, Bound
  <2>4. \A h, o : Bound(h, o) => Bound(h, o)' /\ h # n
    BY <2>1, <2>2 DEF Bound
  <2>5. \A q \in Proc : q # p => (Granting(q)' <=> Granting(q)) /\ res'[q] = res[q]
    BY <2>1 DEF Granting, Succeeded, TypeOK
  <2>6. \A q \in Proc : Destroying(q)' => Destroying(q)
    BY <2>1 DEF Destroying, TypeOK
  <2>7. \A q \in Proc : Destroying(q) => arg[q] # n
    BY <2>2 DEF Given, DestroyedAlone
  <2>8. res'[p] = n /\ \A q \in Proc : q # p /\ Granting(q) => res[q] # n
    BY <2>1, <2>4 DEF TypeOK, Given, GrantedAlone
  <2>9. \A b \in issued' : Bound(b[1], b[2])'
    BY <2>1, <2>4 DEF Given
  <2>10. \A s \in StrayHandle : s \in DOMAIN slots' => slots'[s] \notin Object
    BY <2>1, <2>2 DEF Given
  <2>11. ASSUME NEW q \in Proc, Granting(q)' PROVE GrantedAlone(q)'
    <3>1. CASE q = p
      <4>1. (Bound(res[p], obj[p]))'
        BY <2>1, <2>2, <2>8 DEF Bound
      <4> QED
        BY <2>1, <2>3, <2>5, <2>6, <2>7, <2>8, <3>1, <4>1 DEF GrantedAlone
    <3>2. CASE q # p
      <4>1. Granting(q) /\ GrantedAlone(q) /\ res'[q] = res[q]
        BY <2>5, <2>11, <3>2 DEF Given
      <4>2. (Bound(res[q], obj[q]))' /\ res[q] # n
        BY <2>1, <2>4, <4>1 DEF GrantedAlone
      <4>3. \A r \in Proc : Granting(r)' /\ res'[r] = res'[q] => r = q
        BY <2>5, <2>8, <4>1, <4>2 DEF GrantedAlone
      <4> QED
        BY <2>1, <2>3, <2>6, <4>1, <4>2, <4>3 DEF GrantedAlone
    <3> QED
      BY <3>1, <3>2
  <2>12. ASSUME NEW q \in Proc, Destroying(q)' PROVE arg'[q] \in StrayHandle \/ DestroyedAlone(q)'
    <3>1. Destroying(q) /\ (arg[q] \in StrayHandle \/ DestroyedAlone(q))
      BY <2>6, <2>12 DEF Given
    <3>2. CASE DestroyedAlone(q)
      BY <2>1, <2>3, <2>6, <2>7, <3>1, <3>2 DEF DestroyedAlone
    <3> QED
      BY <2>1, <3>1, <3>2
  <2> QED
    BY <2>9, <2>10, <2>11, <2>12 DEF Given
<1>10. CASE Clear(p)
  <2> DEFINE n == arg[p]
  <2>1. /\ pc[p] = "clear" /\ op[p] = "destroy" /\ pc' = [pc EXCEPT ![p] = "release"]
        /\ slots' = [slots EXCEPT ![n] = NULL]
        /\ op' = op /\ arg' = arg /\ obj' = obj /\ issued' = issued
        /\ \A q \in Proc \ {p} : res'[q] = res[q]
    BY <1>10 DEF Clear, Control
  <2>2. Destroying(p) /\ n \notin StrayHandle /\ DestroyedAlone(p)
    BY <2>1 DEF Given, Destroying, Memory, Clearing
  <2>3. IssuedHandles' = IssuedHandles /\ n \notin IssuedHandles
    BY <2>1, <2>2 DEF IssuedHandles, DestroyedAlone
  <2>4. \A q \in Proc : Granting(q)' <=> Granting(q)
    BY <2>1 DEF Granting, Succeeded, TypeOK
  <2>5. \A q \in Proc : Destroying(q)' <=> Destroying(q) /\ q # p
    BY <2>1 DEF Destroying, TypeOK
  <2>6. \A q \in Proc : Destroying(q) /\ q # p => arg[q] # n
    BY <2>2 DEF DestroyedAlone
  <2>7. \A q \in Proc : Granting(q) => q # p /\ res[q] # n
    BY <2>1, <2>2 DEF Given, GrantedAlone, Granting
  <2> HIDE DEF n
  <2>8. \A h, o : Bound(h, o) /\ h # n => Bound(h, o)'
    BY <2>1 DEF Bound
  <2>9. \A b \in issued' : Bound(b[1], b[2])'
    BY <2>1, <2>3, <2>8 DEF Given, IssuedHandles
  <2>10. \A s \in StrayHandle : s \in DOMAIN slots' => slots'[s] \notin Object
    BY <2>1 DEF Given
  <2>11. ASSUME NEW q \in Proc, Granting(q)' PROVE GrantedAlone(q)'
    <3>1. Granting(q) /\ GrantedAlone(q) /\ res'[q] = res[q] /\ res[q] # n
      BY <2>1, <2>4, <2>7, <2>11 DEF Given
    <3>2. (Bound(res[q], obj[q]))'
      BY <2>1, <2>8, <3>1 DEF GrantedAlone
    <3> QED
      BY <2>1, <2>3, <2>4, <2>5, <2>7, <3>1, <3>2 DEF GrantedAlone
  <2>12. ASSUME NEW q \in Proc, Destroying(q)' PROVE arg'[q] \in StrayHandle \/ DestroyedAlone(q)'
    <3>1. Destroying(q) /\ arg[q] # n /\ (arg[q] \in StrayHandle \/ DestroyedAlone(q))
      BY <2>5, <2>6, <2>12 DEF Given
    <3>2. CASE DestroyedAlone(q)
      BY <2>1, <2>3, <2>5, <3>1, <3>2 DEF DestroyedAlone
    <3> QED
      BY <2>1, <3>1, <3>2
  <2> QED
    BY <2>9, <2>10, <2>11, <2>12 DEF Given
<1> QED
  BY <1>1, <1>2, <1>3, <1>4, <1>5, <1>6, <1>7, <1>8, <1>9, <1>10
     DEF Call, Step
-----------------------------------------------------------------------------
(* The theorems.                                                           *)

\* The table is in order at the beginning.
LEMMA Begins == Init => TableInv /\ Given
<1> SUFFICES ASSUME Init PROVE TableInv /\ Given
  OBVIOUS
<1> USE Sizes DEF Init
<1>1. TypeOK
  <2>1. slots \in [0 .. capacity - 1 -> Pointer]
    <3>1. 0 .. capacity - 1 = {}
      OBVIOUS
    <3> QED
      BY <3>1
  <2>2. res \in [Proc -> Pointer \cup Nat]
    BY DEF Pointer
  <2>3. capacity \in 0 .. MaxCapacity /\ issued \subseteq Nat \X Object /\ lock \in Proc \cup {NoProc}
    OBVIOUS
  <2>4. /\ pc \in [Proc -> Pc] /\ op \in [Proc -> Operation \cup {"idle"}]
        /\ arg \in [Proc -> Nat] /\ idx \in [Proc -> Nat] /\ obj \in [Proc -> Object \cup {NULL}]
    BY DEF Pc
  <2> QED
    BY <2>1, <2>2, <2>3, <2>4 DEF TypeOK
<1>2. Control /\ Answering
  BY DEF Control, Answering, Inside, Starting
<1>3. DOMAIN slots = {}
  OBVIOUS
<1>4. Memory
  BY <1>3 DEF Memory, NoGarbage, Empty, Growing, Distinct, Allocated, Storing, Clearing, NoOrphan
<1>5. Given
  BY <1>3 DEF Given, Granting, Destroying
<1> QED
  BY <1>1, <1>2, <1>4, <1>5 DEF TableInv

\* A step keeps it in order, and so does a stutter.
LEMMA TableStep ==
  ASSUME SingleStarter, TableInv, [Next]_vars
  PROVE  TableInv'
<1>1. CASE Next
  BY <1>1, TypesStep, ControlStep, AnsweringStep, MemoryStep DEF TableInv
<1>2. CASE UNCHANGED vars
  <2> USE <1>2 DEF TableInv, vars, table, locals
  <2>1. TypeOK'
    BY DEF TypeOK
  <2>2. Control' /\ Answering'
    BY DEF Control, Answering, Succeeded
  <2>3. Memory'
    BY <2>1, MemoryKept
  <2> QED
    BY <2>1, <2>2, <2>3
<1> QED
  BY <1>1, <1>2

\* An id that CREATE answered names the object it made until a DESTROY is called with it,
\* no two CREATEs give one id, no object is lost or in two slots, and the types are kept:
\* for any number of threads, objects and slots, if one thread makes the first use and
\* the ids the ROM makes up are none that CREATE gives (HandleTable's Sound).
THEOREM TableSound ==
  ASSUME SingleStarter, StrayNeverGiven
  PROVE  Spec => []Sound
<1>1. TableInv /\ Given /\ [Next]_vars => TableInv' /\ Given'
  <2> SUFFICES ASSUME TableInv, Given, [Next]_vars PROVE TableInv' /\ Given'
    OBVIOUS
  <2>1. CASE Next
    BY <2>1, TableStep, GivenStep
  <2>2. CASE UNCHANGED vars
    BY <2>2, TableStep DEF Given, GrantedAlone, DestroyedAlone, Granting, Destroying, Succeeded,
       Bound, IssuedHandles, vars, table, locals
  <2> QED
    BY <2>1, <2>2
<1>2. TableInv /\ Given => Sound
  <2> SUFFICES ASSUME TableInv, Given PROVE Sound
    OBVIOUS
  <2>1. ASSUME NEW b \in issued PROVE b[1] < capacity /\ slots[b[1]] = b[2] /\ b[2] \in heap
    <3>1. b[1] \in DOMAIN slots /\ slots[b[1]] = b[2] /\ b[2] \in Object
      BY <2>1 DEF Given, Bound
    <3>2. ASSUME NEW p \in Proc, pc[p] = "clear", arg[p] = b[1] PROVE FALSE
      BY <2>1, <3>1, <3>2 DEF Given, Destroying, DestroyedAlone, IssuedHandles, TableInv, Control
    <3> QED
      BY <3>1, <3>2 DEF TableInv, TypeOK, Memory, Allocated
  <2>2. IssuedDistinct
    BY DEF IssuedDistinct, Given, Granting, GrantedAlone
  <2> QED
    BY <2>1, <2>2 DEF Sound, TableInv, Memory, IssuedBound
<1> QED
  BY <1>1, <1>2, Begins, PTL DEF Spec

\* The registry's state at its beginning.
LEMMA RegistryBegins == Init => Registry!Init
<1> SUFFICES ASSUME Init PROVE Registry!Init
  OBVIOUS
<1>1. TableBinding = [i \in Index |-> NULL]
  BY Sizes DEF Init, TableBinding, Index
<1>2. TableOp = [p \in Proc |-> "idle"] /\ TableRes = [p \in Proc |-> NULL]
  BY DEF Init, TableOp, TableRes
<1> QED
  BY <1>1, <1>2 DEF Init, Registry!Init

\* The slots are numbered by indices.
Numbered ==
  /\ DOMAIN slots = 0 .. capacity - 1 /\ capacity \in 0 .. MaxCapacity /\ MaxCapacity \in Nat
  /\ \A i \in DOMAIN slots : i \in Index /\ i < capacity
  /\ \A i \in Index : i \in DOMAIN slots <=> i < capacity

\* The types say so.
LEMMA SlotNumbers == TypeOK => Numbered
<1> SUFFICES ASSUME TypeOK PROVE Numbered
  OBVIOUS
<1>1. DOMAIN slots = 0 .. capacity - 1 /\ capacity \in 0 .. MaxCapacity /\ MaxCapacity \in Nat
  BY Sizes DEF TypeOK
<1>2. \A i : i \in Index <=> i \in Nat /\ i < MaxCapacity
  BY <1>1 DEF Index
<1>3. \A i : i \in DOMAIN slots <=> i \in Nat /\ i < capacity
  BY <1>1
<1> QED
  BY <1>1, <1>2, <1>3 DEF Numbered

\* A step that changes no slot that matters, nor a thread's call.
LEMMA RegistryStutters ==
  ASSUME TableBinding' = TableBinding, arg' = arg, TypeOK,
         \A q \in Proc : TableOp'[q] = TableOp[q] /\ TableRes'[q] = TableRes[q]
  PROVE  UNCHANGED Registry!vars
BY DEF Registry!vars, TableOp, TableRes

\* A step of p alone that settles its answer.
LEMMA RegistrySettles ==
  ASSUME TypeOK, TypeOK', NEW p \in Proc, NEW o \in {"create", "destroy", "get"}, NEW r, op[p] = o,
         pc[p] \notin {"release", "reply"}, pc'[p] \in {"release", "reply"}, op' = op, arg' = arg,
         res' = [res EXCEPT ![p] = r], \A q \in Proc \ {p} : pc'[q] = pc[q]
  PROVE  Registry!Effect(p, o, r)
<1>1. TableOp[p] = o
  BY DEF TableOp
<1>2. TableOp' = [TableOp EXCEPT ![p] = "done"]
  BY DEF TableOp
<1>3. TableRes' = [TableRes EXCEPT ![p] = r]
  BY DEF TableRes, TypeOK
<1> QED
  BY <1>1, <1>2, <1>3 DEF Registry!Effect

\* Every step of the table is one of the registry, or none.
LEMMA RegistryStep ==
  ASSUME SingleStarter, TableInv, [Next]_vars
  PROVE  Registry!Next \/ UNCHANGED Registry!vars
<1> USE DEF TableInv
<1> TableInv'
  BY TableStep
<1>1. CASE UNCHANGED vars
  BY <1>1 DEF vars, table, locals, Registry!vars, TableBinding, TableOp, TableRes
<1>2. ASSUME NEW p \in Proc, Call(p) \/ Step(p)
      PROVE  Registry!Next \/ UNCHANGED Registry!vars
  <2>a. /\ DOMAIN slots = 0 .. capacity - 1 /\ capacity \in 0 .. MaxCapacity /\ MaxCapacity \in Nat
        /\ \A i \in DOMAIN slots : i \in Index /\ i < capacity
        /\ \A i \in Index : i \in DOMAIN slots <=> i < capacity
    BY SlotNumbers DEF Numbered
  <2>b. \A i \in Index : TableBinding[i] = IF i \in DOMAIN slots /\ slots[i] \in Object THEN slots[i] ELSE NULL
    BY <2>a DEF TableBinding
  <2>c. slots' = slots /\ capacity' = capacity => TableBinding' = TableBinding
    BY DEF TableBinding
  <2>d. ~initialized => \A i \in Index : TableBinding[i] = NULL
    BY <2>b DEF Memory, Empty
  <2>e. pc[p] \in Inside => /\ \A q \in Proc \ {p} : pc[q] \notin Inside
                            /\ pc[p] # "grow_clear" =>
                                 \A i \in DOMAIN slots : slots[i] \in Object \cup {NULL}
    BY <1>2, AloneInside
  <2>f. /\ NULL \notin Object /\ Garbage \notin Object /\ NULL # Garbage
        /\ {NO_MEMORY, INIT_FAIL, BAD_HANDLE} \subseteq Nat
    BY Sizes DEF NO_MEMORY, INIT_FAIL, BAD_HANDLE
  <2> USE <1>2 DEF vars, table, locals, Goto, Settle
  <2>1. ASSUME NEW o \in Operation, NEW h \in 0 .. HANDLE_MAX, Deo(p, o, h)
        PROVE  Registry!Next \/ UNCHANGED Registry!vars
    <3>1. /\ pc[p] = "idle" /\ op[p] = "idle" /\ arg[p] = 0 /\ res[p] = NULL /\ res' = res
          /\ op' = [op EXCEPT ![p] = o] /\ arg' = [arg EXCEPT ![p] = h] /\ pc' = [pc EXCEPT ![p] = "check"]
          /\ o = "init" => h = 0
      BY <2>1 DEF Deo, Control
    <3>2. TableBinding' = TableBinding /\ TableRes' = TableRes
      BY <2>1, <2>c, <3>1 DEF Deo, TableRes, TypeOK
    <3>3. CASE o = "init"
      <4>1. arg' = arg /\ \A q \in Proc : TableOp'[q] = TableOp[q]
        BY <3>1, <3>3 DEF TableOp, TypeOK
      <4> QED
        BY <3>2, <4>1, RegistryStutters
    <3>4. CASE o # "init"
      <4>1. TableOp[p] = "idle" /\ TableOp' = [TableOp EXCEPT ![p] = o]
        BY <3>1, <3>4 DEF TableOp, TypeOK
      <4>2. o \in Registry!Op
        BY <3>4 DEF Registry!Op, Operation
      <4>3. Registry!Call(p, o, h)
        BY <3>1, <3>2, <4>1 DEF Registry!Call
      <4> QED
        BY <4>2, <4>3 DEF Registry!Next
    <3> QED
      BY <3>3, <3>4
  <2>2. CASE Check(p)
    <3>1. /\ pc[p] = "check" /\ op' = op /\ arg' = arg /\ TableBinding' = TableBinding
          /\ \A q \in Proc \ {p} : pc'[q] = pc[q]
      BY <2>2, <2>c DEF Check, TypeOK
    <3>2. CASE initialized \/ op[p] \in {"init", "create"}
      <4>1. res' = res /\ (op[p] # "init" => pc'[p] \notin {"release", "reply"})
        BY <2>2, <3>2 DEF Check, TypeOK
      <4>2. \A q \in Proc : TableOp'[q] = TableOp[q] /\ TableRes'[q] = TableRes[q]
        BY <3>1, <4>1 DEF TableOp, TableRes
      <4> QED
        BY <3>1, <4>2, RegistryStutters
    <3>3. CASE ~initialized /\ op[p] \notin {"init", "create"}
      <4>1. op[p] \in {"destroy", "get"}
        BY <3>1, <3>3 DEF Control, TypeOK, Operation
      <4>2. /\ pc'[p] = "reply" /\ op[p] = "destroy" => res' = [res EXCEPT ![p] = BAD_HANDLE]
            /\ op[p] = "get" => res' = [res EXCEPT ![p] = NULL]
        BY <2>2, <3>3 DEF Check, TypeOK
      <4>3. pc'[p] = "reply"
        BY <2>2, <3>3 DEF Check, TypeOK
      <4>4. CASE op[p] = "destroy"
        <5>1. Registry!Effect(p, "destroy", BAD_HANDLE)
          BY <3>1, <4>2, <4>3, <4>4, RegistrySettles
        <5> QED
          BY <2>d, <3>1, <3>3, <5>1 DEF Registry!Next, Registry!DestroyFail
      <4>5. CASE op[p] = "get"
        <5>1. Registry!Effect(p, "get", NULL)
          BY <3>1, <4>2, <4>3, <4>5, RegistrySettles
        <5>2. (IF arg[p] \in Index THEN TableBinding[arg[p]] ELSE NULL) = NULL
          BY <2>d, <3>3
        <5> QED
          BY <3>1, <5>1, <5>2 DEF Registry!Next, Registry!Get
      <4> QED
        BY <4>1, <4>4, <4>5
    <3> QED
      BY <3>2, <3>3
  <2>3. CASE Reply(p)
    <3>1. /\ pc[p] = "reply" /\ op[p] # "idle" /\ TableBinding' = TableBinding
          /\ op' = [op EXCEPT ![p] = "idle"] /\ arg' = [arg EXCEPT ![p] = 0]
          /\ res' = [res EXCEPT ![p] = NULL] /\ pc' = [pc EXCEPT ![p] = "idle"]
      BY <2>3, <2>c DEF Reply, Control
    <3>2. CASE op[p] = "init"
      <4>1. arg[p] = 0
        BY <3>1, <3>2 DEF Control
      <4>2. arg' = arg /\ \A q \in Proc : TableOp'[q] = TableOp[q] /\ TableRes'[q] = TableRes[q]
        BY <3>1, <3>2, <4>1 DEF TableOp, TableRes, TypeOK
      <4> QED
        BY <3>1, <4>2, RegistryStutters
    <3>3. CASE op[p] # "init"
      <4>1. TableOp[p] = "done" /\ TableOp' = [TableOp EXCEPT ![p] = "idle"]
        BY <3>1, <3>3 DEF TableOp, TypeOK
      <4>2. TableRes' = [TableRes EXCEPT ![p] = NULL]
        BY <3>1, <3>3 DEF TableRes, TypeOK
      <4> QED
        BY <3>1, <4>1, <4>2 DEF Registry!Next, Registry!Return
    <3> QED
      BY <3>2, <3>3
  <2>4. CASE InitLock(p) \/ InitSet(p) \/ Acquire(p) \/ Release(p) \/ Free(p)
    <3>1. op' = op /\ arg' = arg /\ res' = res /\ TableBinding' = TableBinding
      BY <2>4, <2>c DEF InitLock, InitSet, Acquire, Release, Free
    <3>2. \A q \in Proc : op[q] # "init" =>
            (pc'[q] \in {"release", "reply"} <=> pc[q] \in {"release", "reply"})
      BY <2>4 DEF InitLock, InitSet, Acquire, Release, Free, First, TypeOK
    <3>3. \A q \in Proc : TableOp'[q] = TableOp[q] /\ TableRes'[q] = TableRes[q]
      BY <3>1, <3>2 DEF TableOp, TableRes
    <3> QED
      BY <3>1, <3>3, RegistryStutters
  <2>5. CASE InitSlots(p) \/ InitClear(p)
    <3>1. op' = op /\ arg' = arg /\ res' = res
      BY <2>5 DEF InitSlots, InitClear
    <3>2. \A q \in Proc : pc'[q] \in {"release", "reply"} <=> pc[q] \in {"release", "reply"}
      BY <2>5 DEF InitSlots, InitClear, TypeOK
    <3>3. \A q \in Proc : TableOp'[q] = TableOp[q] /\ TableRes'[q] = TableRes[q]
      BY <3>1, <3>2 DEF TableOp, TableRes
    <3>4. ~initialized /\ \A i \in DOMAIN slots' : slots'[i] \notin Object
      BY <2>5, <2>f DEF InitSlots, InitClear, Control, Starting
    <3>5. \A i \in Index : i < capacity' => i \in DOMAIN slots'
      <4>1. Numbered'
        BY SlotNumbers, PTL
      <4> QED
        BY <4>1 DEF Numbered
    <3>6. TableBinding' = [i \in Index |-> NULL]
      BY <3>4, <3>5 DEF TableBinding
    <3>7. TableBinding = [i \in Index |-> NULL]
      BY <2>d, <3>4 DEF TableBinding
    <3> QED
      BY <3>1, <3>3, <3>6, <3>7, RegistryStutters
  <2>6. CASE InitFail(p)
    <3>1. /\ pc[p] \in {"init_lock", "init_slots"} /\ pc'[p] = "reply" /\ op' = op /\ arg' = arg
          /\ TableBinding' = TableBinding /\ res' = [res EXCEPT ![p] = NO_MEMORY]
          /\ \A q \in Proc \ {p} : pc'[q] = pc[q]
      BY <2>6, <2>c DEF InitFail, TypeOK
    <3>2. CASE op[p] = "init"
      <4>1. \A q \in Proc : TableOp'[q] = TableOp[q] /\ TableRes'[q] = TableRes[q]
        BY <3>1, <3>2 DEF TableOp, TableRes, TypeOK
      <4> QED
        BY <3>1, <4>1, RegistryStutters
    <3>3. CASE op[p] # "init"
      <4>1. op[p] = "create"
        BY <3>1, <3>3 DEF Control, Starting
      <4>2. Registry!Effect(p, "create", NO_MEMORY)
        BY <3>1, <4>1, RegistrySettles
      <4> QED
        BY <3>1, <4>2 DEF Registry!Next, Registry!CreateFail
    <3> QED
      BY <3>2, <3>3
  <2>7. ASSUME NEW i \in Index, NEW o \in Object, Find(p, i, o)
        PROVE  Registry!Next \/ UNCHANGED Registry!vars
    <3>1. op' = op /\ arg' = arg /\ res' = res /\ TableBinding' = TableBinding
      BY <2>7, <2>c DEF Find
    <3>2. \A q \in Proc : pc'[q] \in {"release", "reply"} <=> pc[q] \in {"release", "reply"}
      BY <2>7 DEF Find, TypeOK
    <3>3. \A q \in Proc : TableOp'[q] = TableOp[q] /\ TableRes'[q] = TableRes[q]
      BY <3>1, <3>2 DEF TableOp, TableRes
    <3> QED
      BY <3>1, <3>3, RegistryStutters
  <2>8. CASE GrowFail(p) \/ \E e \in {NO_MEMORY, INIT_FAIL} : FindFail(p, e)
    <3>1. PICK e \in {NO_MEMORY, INIT_FAIL} :
            /\ pc[p] = "find" /\ pc'[p] = "release" /\ op' = op /\ arg' = arg
            /\ TableBinding' = TableBinding /\ res' = [res EXCEPT ![p] = e]
            /\ \A q \in Proc \ {p} : pc'[q] = pc[q]
      BY <2>8, <2>c DEF GrowFail, FindFail, TypeOK
    <3>2. Registry!Effect(p, "create", e)
      BY <3>1, RegistrySettles DEF Control
    <3> QED
      BY <3>1, <3>2 DEF Registry!Next, Registry!CreateFail
  <2>9. CASE Store(p)
    <3> DEFINE n == idx[p]
    <3>1. /\ pc[p] = "store" /\ pc'[p] = "release" /\ op' = op /\ arg' = arg /\ op[p] = "create"
          /\ res' = [res EXCEPT ![p] = n] /\ slots' = [slots EXCEPT ![n] = obj[p]]
          /\ capacity' = capacity /\ \A q \in Proc \ {p} : pc'[q] = pc[q]
      BY <2>9 DEF Store, TypeOK, Control
    <3>2. /\ n \in DOMAIN slots /\ n \in Index /\ slots[n] = NULL /\ obj[p] \in Object
          /\ \A j \in DOMAIN slots : (j < n => slots[j] # NULL) /\ slots[j] # obj[p]
      BY <2>a, <3>1 DEF Memory, Storing, TypeOK
    <3> HIDE DEF n
    <3>3. Registry!Effect(p, "create", n)
      BY <3>1, RegistrySettles
    <3>4. TableBinding[n] = NULL
      BY <2>b, <2>f, <3>2
    <3>5. \A g \in 0 .. n - 1 : TableBinding[g] # NULL
      <4>1. \A g \in 0 .. n - 1 : g \in DOMAIN slots /\ g \in Index /\ g < n
        BY <2>a, <3>2
      <4>2. \A g \in DOMAIN slots : slots[g] \in Object \cup {NULL}
        BY <2>e, <3>1 DEF Inside
      <4> QED
        BY <2>b, <2>f, <3>2, <4>1, <4>2
    <3>6. \A g \in Index : TableBinding[g] # obj[p]
      BY <2>b, <2>f, <3>2
    <3>7. TableBinding' = [TableBinding EXCEPT ![n] = obj[p]]
      BY <2>a, <3>1, <3>2 DEF TableBinding
    <3>8. Registry!Create(p)
      BY <3>2, <3>3, <3>4, <3>5, <3>6, <3>7 DEF Registry!Create
    <3> QED
      BY <3>8 DEF Registry!Next
  <2>10. CASE Grow(p)
    <3>1. op' = op /\ arg' = arg /\ res' = res /\ pc[p] = "find"
      BY <2>10 DEF Grow
    <3>2. \A q \in Proc : pc'[q] \in {"release", "reply"} <=> pc[q] \in {"release", "reply"}
      BY <2>10 DEF Grow, TypeOK
    <3>3. \A q \in Proc : TableOp'[q] = TableOp[q] /\ TableRes'[q] = TableRes[q]
      BY <3>1, <3>2 DEF TableOp, TableRes
    <3>4. /\ capacity' = capacity * 2
          /\ slots' = [i \in 0 .. capacity * 2 - 1 |-> IF i < capacity THEN slots[i] ELSE Garbage]
      BY <2>10 DEF Grow
    <3>5. ASSUME NEW i \in Index
          PROVE  TableBinding'[i] = TableBinding[i]
      BY <2>a, <2>f, <3>4, <3>5 DEF TableBinding, Index
    <3>6. TableBinding' = TableBinding
      BY <3>5 DEF TableBinding
    <3> QED
      BY <3>1, <3>3, <3>6, RegistryStutters
  <2>11. CASE GrowClear(p)
    <3>1. op' = op /\ arg' = arg /\ res' = res /\ pc[p] = "grow_clear" /\ capacity' = capacity
      BY <2>11 DEF GrowClear
    <3>2. \A q \in Proc : pc'[q] \in {"release", "reply"} <=> pc[q] \in {"release", "reply"}
      BY <2>11 DEF GrowClear, TypeOK
    <3>3. \A q \in Proc : TableOp'[q] = TableOp[q] /\ TableRes'[q] = TableRes[q]
      BY <3>1, <3>2 DEF TableOp, TableRes
    <3>4. \A i \in DOMAIN slots : \/ slots'[i] = slots[i]
                                  \/ slots'[i] \notin Object /\ slots[i] \notin Object
      <4>1. idx[p] \in Nat /\ \A i \in DOMAIN slots : i \in Nat
        BY <2>a DEF TypeOK
      <4>2. \A i \in DOMAIN slots : slots'[i] = IF i < idx[p] THEN slots[i] ELSE NULL
        BY <2>11 DEF GrowClear
      <4>3. \A i \in DOMAIN slots : i >= idx[p] => slots[i] = Garbage
        BY <3>1 DEF Memory, Growing
      <4> QED
        BY <2>f, <4>1, <4>2, <4>3
    <3>5. TableBinding' = TableBinding
      BY <2>a, <3>1, <3>4 DEF TableBinding
    <3> QED
      BY <3>1, <3>3, <3>5, RegistryStutters
  <2>12. CASE TestBad(p)
    <3>1. /\ pc[p] = "test" /\ pc'[p] = "release" /\ op' = op /\ arg' = arg /\ op[p] = "destroy"
          /\ TableBinding' = TableBinding /\ res' = [res EXCEPT ![p] = BAD_HANDLE]
          /\ \A q \in Proc \ {p} : pc'[q] = pc[q]
      BY <2>12, <2>c DEF TestBad, TypeOK, Control
    <3>2. Registry!Effect(p, "destroy", BAD_HANDLE)
      BY <3>1, RegistrySettles
    <3>3. arg[p] \in Index => TableBinding[arg[p]] = NULL
      BY <2>12, <2>a, <2>b, <2>f DEF TestBad
    <3> QED
      BY <3>1, <3>2, <3>3 DEF Registry!Next, Registry!DestroyFail
  <2>13. CASE Clear(p)
    <3> DEFINE n == arg[p]
    <3>1. /\ pc[p] = "clear" /\ pc'[p] = "release" /\ op' = op /\ arg' = arg /\ op[p] = "destroy"
          /\ res' = [res EXCEPT ![p] = 0] /\ slots' = [slots EXCEPT ![n] = NULL]
          /\ capacity' = capacity /\ \A q \in Proc \ {p} : pc'[q] = pc[q]
      BY <2>13 DEF Clear, TypeOK, Control
    <3>2. n \in DOMAIN slots /\ n \in Index /\ slots[n] \in Object
      BY <2>a, <3>1 DEF Memory, Clearing
    <3>3. Registry!Effect(p, "destroy", 0)
      BY <3>1, RegistrySettles
    <3>4. TableBinding[n] # NULL
      BY <2>b, <2>f, <3>2
    <3>5. TableBinding' = [TableBinding EXCEPT ![n] = NULL]
      <4> HIDE DEF n
      <4> QED
        BY <2>a, <2>f, <3>1, <3>2 DEF TableBinding
    <3> QED
      BY <3>2, <3>3, <3>4, <3>5 DEF Registry!Next, Registry!Destroy
  <2>14. CASE Read(p)
    <3> DEFINE r == IF arg[p] < capacity THEN slots[arg[p]] ELSE NULL
    <3>1. /\ pc[p] = "read" /\ pc'[p] = "release" /\ op' = op /\ arg' = arg /\ op[p] = "get"
          /\ TableBinding' = TableBinding /\ res' = [res EXCEPT ![p] = r]
          /\ \A q \in Proc \ {p} : pc'[q] = pc[q]
      BY <2>14, <2>c DEF Read, TypeOK, Control
    <3>2. r = IF arg[p] \in Index THEN TableBinding[arg[p]] ELSE NULL
      <4>1. arg[p] \in Nat /\ (arg[p] < capacity => arg[p] \in DOMAIN slots)
        BY <2>a DEF TypeOK
      <4>2. \A i \in DOMAIN slots : slots[i] \in Object \cup {NULL}
        BY <2>e, <3>1 DEF Inside
      <4> QED
        BY <2>a, <2>b, <4>1, <4>2
    <3> HIDE DEF r
    <3>3. Registry!Effect(p, "get", r)
      BY <3>1, RegistrySettles
    <3> QED
      BY <3>1, <3>2, <3>3 DEF Registry!Next, Registry!Get
  <2> QED
    BY <2>1, <2>2, <2>3, <2>4, <2>5, <2>6, <2>7, <2>8, <2>9, <2>10, <2>11, <2>12, <2>13, <2>14
       DEF Call, Step
<1> QED
  BY <1>1, <1>2 DEF Next

\* The table implements the atomic registry, for any number of threads, objects and
\* slots, if one thread makes the first use: whatever the others do, each call takes
\* effect at one instant (HandleTable's RegistrySpec).
THEOREM ImplementsRegistry ==
  ASSUME SingleStarter
  PROVE  Spec => RegistrySpec
<1>1. TableInv /\ [Next]_vars => TableInv'
  BY TableStep
<1>2. TableInv /\ [Next]_vars => [Registry!Next]_(Registry!vars)
  BY RegistryStep
<1> QED
  BY <1>1, <1>2, Begins, RegistryBegins, PTL DEF Spec, RegistrySpec, Registry!Spec
=============================================================================
