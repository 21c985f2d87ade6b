-------------------------------- MODULE RwLock --------------------------------
(* SharedMutex over a pthread_rwlock_t (log4cplus,                             *)
(* ThirdParty/include/log4cplus/thread/impl/syncprims-pthreads.h): what a      *)
(* reader-writer lock promises, whichever way it is built.                     *)

CONSTANTS Threads

VARIABLE holds   \* holds[t]: what a thread has: "none", "read" or "write"

Having(what) == {t \in Threads : holds[t] = what}

Init == holds = [t \in Threads |-> "none"]

(* pthread_rwlock_rdlock: 0 is the lock; on EAGAIN the loop goes round; any    *)
(* other result is thrown, and the thread has nothing.                         *)
rdlock(t) ==
    /\ holds[t] = "none" /\ Having("write") = {}
    /\ holds' = [holds EXCEPT ![t] = "read"]

wrlock(t) ==
    /\ holds[t] = "none" /\ Having("write") = {} /\ Having("read") = {}
    /\ holds' = [holds EXCEPT ![t] = "write"]

rdunlock(t) == holds[t] = "read" /\ holds' = [holds EXCEPT ![t] = "none"]

wrunlock(t) == holds[t] = "write" /\ holds' = [holds EXCEPT ![t] = "none"]

Next == \E t \in Threads : rdlock(t) \/ wrlock(t) \/ rdunlock(t) \/ wrunlock(t)

Spec == Init /\ [][Next]_holds
=============================================================================
