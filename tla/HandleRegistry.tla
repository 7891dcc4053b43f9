--------------------------- MODULE HandleRegistry ---------------------------
(* What a handle table promises to its callers: a registry that binds small  *)
(* numbers to live objects (the contract in utils/mutex_array_list.h,        *)
(* utils/cond_array_list.h and utils/barrier_array_list.h).  Every call      *)
(* takes effect at one instant; HandleTable implements it.                   *)
EXTENDS Naturals

CONSTANTS
  Proc,      \* the threads that call the table
  Handle,    \* the numbers, 0 .. n
  Word,      \* the numbers a caller can pass
  Object,    \* the objects an allocation can return
  NULL,      \* the null pointer
  Error      \* the MT_ERR_* values

VARIABLES
  binding,   \* the object of each handle
  op,        \* the call a thread is in: "done" once it has taken effect
  arg,       \* the handle it was called with
  res        \* what it returns

vars == <<binding, op, arg, res>>

Op == {"create", "destroy", "get"}

Init ==
  /\ binding = [h \in Handle |-> NULL]
  /\ op = [p \in Proc |-> "idle"]
  /\ arg = [p \in Proc |-> 0]
  /\ res = [p \in Proc |-> NULL]

Call(p, o, h) ==
  /\ op[p] = "idle"
  /\ op' = [op EXCEPT ![p] = o]
  /\ arg' = [arg EXCEPT ![p] = h]
  /\ UNCHANGED <<binding, res>>

\* The instant at which p's call o takes effect and its answer r is settled.
Effect(p, o, r) ==
  /\ op[p] = o
  /\ op' = [op EXCEPT ![p] = "done"]
  /\ res' = [res EXCEPT ![p] = r]
  /\ UNCHANGED arg

\* The lowest free handle is bound to an object no other handle has.
Create(p) ==
  \E h \in Handle, o \in Object :
    /\ binding[h] = NULL /\ \A g \in 0 .. h - 1 : binding[g] # NULL
    /\ \A g \in Handle : binding[g] # o
    /\ binding' = [binding EXCEPT ![h] = o]
    /\ Effect(p, "create", h)

CreateFail(p) == (\E e \in Error : Effect(p, "create", e)) /\ UNCHANGED binding

\* A bound handle is free again.
Destroy(p) ==
  /\ arg[p] \in Handle /\ binding[arg[p]] # NULL
  /\ binding' = [binding EXCEPT ![arg[p]] = NULL]
  /\ Effect(p, "destroy", 0)

DestroyFail(p) ==
  /\ arg[p] \in Handle => binding[arg[p]] = NULL
  /\ \E e \in Error : Effect(p, "destroy", e)
  /\ UNCHANGED binding

Get(p) ==
  /\ Effect(p, "get", IF arg[p] \in Handle THEN binding[arg[p]] ELSE NULL)
  /\ UNCHANGED binding

Return(p) ==
  /\ op[p] = "done"
  /\ op' = [op EXCEPT ![p] = "idle"]
  /\ arg' = [arg EXCEPT ![p] = 0]
  /\ res' = [res EXCEPT ![p] = NULL]
  /\ UNCHANGED binding

Next ==
  \E p \in Proc :
    \/ \E o \in Op, h \in Word : Call(p, o, h)
    \/ Create(p) \/ CreateFail(p) \/ Destroy(p) \/ DestroyFail(p) \/ Get(p)
    \/ Return(p)

Spec == Init /\ [][Next]_vars
=============================================================================
