--------------------------- MODULE MCSyncCommands ---------------------------
(* Instances of SyncCommands for TLC.                                       *)
EXTENDS SyncCommands, TLC

CONSTANTS t1, t2, t3          \* threads
CONSTANTS m1, m2, m3, c1, b1  \* three mutexes, a condition and a barrier

ThreeThreads == {t1, t2, t3}
ThreeMutexes == {m1, m2, m3}
OneCond      == {c1}
OneBarrier   == {b1}
StrayMutex   == {m3}

SomeCounts   == {0, 2, 3}
SomeTimeouts == {0, 1, 3}

\* Two threads lock two mutexes and wait, and make up a handle.
Locking == [threads |-> {t1, t2}, ids |-> {m1, m2, m3, c1},
            commands |-> {"MUTEX_CREATE", "MUTEX_DESTROY", "MUTEX_LOCK", "MUTEX_UNLOCK",
                          "MUTEX_TRYLOCK", "COND_CREATE", "COND_WAIT", "COND_SIGNAL"}]
\* Three threads share a mutex and a condition.
Sharing == [threads |-> {t1, t2, t3}, ids |-> {m1, c1},
            commands |-> {"MUTEX_CREATE", "MUTEX_LOCK", "MUTEX_UNLOCK", "MUTEX_TRYLOCK",
                          "COND_CREATE", "COND_WAIT", "COND_BROADCAST"}]
\* Two threads wait for a time.
Timed   == [threads |-> {t1, t2}, ids |-> {m1, c1},
            commands |-> {"MUTEX_CREATE", "MUTEX_LOCK", "MUTEX_UNLOCK", "COND_CREATE",
                          "COND_DESTROY", "COND_TIMEDWAIT", "COND_SIGNAL", "COND_BROADCAST"}]
\* Three threads meet.
Meeting == [threads |-> {t1, t2, t3}, ids |-> {b1},
            commands |-> {"BARRIER_CREATE", "BARRIER_DESTROY", "BARRIER_WAIT"}]

AllPrograms == {Locking, Sharing, Timed, Meeting}
=============================================================================
