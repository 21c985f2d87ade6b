------------------------------ MODULE Syncprims ------------------------------
(* The synchronisation primitives of log4cplus that the program's log calls    *)
(* go through (ThirdParty/include/log4cplus/thread): the reader-writer lock    *)
(* SharedMutex built from two semaphores and three mutexes                     *)
(* (impl/syncprims-pmsm.h), the semaphore and the manual reset event over      *)
(* POSIX threads (impl/syncprims-pthreads.h, impl/syncprims-cxx11.h) and the   *)
(* FairMutex.  Any thread may call any of them; a lock that was taken is given *)
(* back by the thread that took it, as the guards of syncprims.h do.           *)
EXTENDS Naturals, FiniteSets

CONSTANTS
    Threads,     \* the threads that use one SharedMutex, FairMutex and event
    NULL,        \* no thread
    MaxThrows,   \* bound: how many calls of sem_wait fail
    MaxSignals   \* bound: how many times the event is signalled

ASSUME SyncAssumption ==
    /\ IsFiniteSet(Threads) /\ NULL \notin Threads
    /\ MaxThrows \in Nat
    /\ MaxSignals \in Nat

VARIABLES
    mutex,         \* who holds m1, m2 and m3
    val,           \* the semaphores r and w, and the one of the FairMutex
    reader_count, writer_count,
    signaled, sigcount,
    prev,          \* prev_count of a thread in wait() or timed_wait()
    pc,            \* where a thread is in the call it makes
    throws         \* how many calls of sem_wait have failed

lockVars == <<mutex, val, reader_count, writer_count, throws>>
eventVars == <<signaled, sigcount, prev>>
vars == <<lockVars, eventVars, pc>>

Go(t, here, there) == pc[t] = here /\ pc' = [pc EXCEPT ![t] = there]

(* Semaphore(max, initial): sem_init gives max units, lock() takes them down   *)
(* to the initial value.                                                       *)
Semaphore(max, initial) ==
    LET limited == IF initial < max THEN initial ELSE max
    IN  max - (max - limited)

Init ==
    /\ mutex = [m \in {"m1", "m2", "m3"} |-> NULL]
    /\ val = [s \in {"r", "w", "fair"} |-> Semaphore(1, 1)]
    /\ reader_count = 0 /\ writer_count = 0
    /\ signaled = FALSE /\ sigcount = 0
    /\ prev = [t \in Threads |-> 0]
    /\ pc = [t \in Threads |-> "idle"]
    /\ throws = 0

(* MutexGuard: the constructor takes the mutex, the destructors of a scope     *)
(* give back those of the scope.                                               *)
Guard(m, t) == mutex[m] = NULL /\ mutex' = [mutex EXCEPT ![m] = t]
Unguard(ms) == mutex' = [m \in DOMAIN mutex |-> IF m \in ms THEN NULL ELSE mutex[m]]

(* What Semaphore::lock and Semaphore::unlock make of the semaphores.          *)
Down(s, v) == [v EXCEPT ![s] = @ - 1]
Up(s, v) == [v EXCEPT ![s] = @ + 1]

(* sem_wait returns an error (a signal interrupted it) and lock() throws; the  *)
(* wait may be interrupted whether a unit is there or not.                     *)
Interrupted == throws < MaxThrows /\ throws' = throws + 1

-----------------------------------------------------------------------------
(* SharedMutex::rdlock.  The three guards are in scope until its end: m3 lets  *)
(* one reader at a time wait for r, m1 guards reader_count.                    *)
rdlock(t) ==
    Go(t, "idle", "rd_m3") /\ UNCHANGED <<lockVars, eventVars>>

rdlockM3(t) ==
    /\ Go(t, "rd_m3", "rd_r")
    /\ Guard("m3", t)
    /\ UNCHANGED <<val, reader_count, writer_count, throws, eventVars>>

rdlockR(t) ==
    /\ UNCHANGED <<reader_count, writer_count, eventVars>>
    /\ \/ /\ Go(t, "rd_r", "rd_m1")
          /\ val["r"] > 0
          /\ val' = Down("r", val)
          /\ UNCHANGED <<mutex, throws>>
       \/ /\ Go(t, "rd_r", "idle")
          /\ Interrupted
          /\ Unguard({"m3"})
          /\ UNCHANGED val

rdlockM1(t) ==
    /\ mutex["m1"] = NULL
    /\ UNCHANGED <<writer_count, throws, eventVars>>
    /\ IF reader_count + 1 = 1
       THEN Go(t, "rd_m1", "rd_w") /\ Guard("m1", t) /\ UNCHANGED <<val, reader_count>>
       ELSE /\ Go(t, "rd_m1", "reading")
            /\ reader_count' = reader_count + 1
            /\ val' = Up("r", val)
            /\ Unguard({"m3"})

rdlockW(t) ==
    /\ UNCHANGED <<writer_count, eventVars>>
    /\ Unguard({"m1", "m3"})
    /\ \/ /\ Go(t, "rd_w", "reading")
          /\ val["w"] > 0
          /\ val' = Up("r", Down("w", val))
          /\ reader_count' = reader_count + 1
          /\ UNCHANGED throws
       \/ /\ Go(t, "rd_w", "idle")
          /\ Interrupted
          /\ val' = Up("r", val)
          /\ UNCHANGED reader_count

Bug_rdunlock(t) ==
    /\ Go(t, "reading", "idle")
    /\ mutex["m1"] = NULL
    /\ val' = Up("w", val)
    /\ reader_count' = reader_count - 1
    /\ UNCHANGED <<mutex, writer_count, throws, eventVars>>

(* SharedMutex::rdunlock: the last reader lets the writers in.                 *)
rdunlock(t) ==
    /\ Go(t, "reading", "idle")
    /\ mutex["m1"] = NULL
    /\ val' = IF reader_count - 1 = 0 THEN Up("w", val) ELSE val
    /\ reader_count' = reader_count - 1
    /\ UNCHANGED <<mutex, writer_count, throws, eventVars>>

(* SharedMutex::wrlock: the first writer keeps new readers out with r, then    *)
(* each writer takes w.                                                        *)
wrlock(t) ==
    Go(t, "idle", "wr_m2") /\ UNCHANGED <<lockVars, eventVars>>

wrlockM2(t) ==
    /\ mutex["m2"] = NULL
    /\ UNCHANGED <<val, reader_count, throws, eventVars>>
    /\ IF writer_count + 1 = 1
       THEN Go(t, "wr_m2", "wr_r") /\ Guard("m2", t) /\ UNCHANGED writer_count
       ELSE Go(t, "wr_m2", "wr_w") /\ writer_count' = writer_count + 1 /\ UNCHANGED mutex

wrlockR(t) ==
    /\ UNCHANGED <<reader_count, eventVars>>
    /\ Unguard({"m2"})
    /\ \/ /\ Go(t, "wr_r", "wr_w")
          /\ val["r"] > 0
          /\ val' = Down("r", val)
          /\ writer_count' = writer_count + 1
          /\ UNCHANGED throws
       \/ /\ Go(t, "wr_r", "idle")
          /\ Interrupted
          /\ UNCHANGED <<val, writer_count>>

wrlockW(t) ==
    /\ UNCHANGED <<mutex, reader_count, writer_count, eventVars>>
    /\ \/ /\ Go(t, "wr_w", "writing")
          /\ val["w"] > 0
          /\ val' = Down("w", val)
          /\ UNCHANGED throws
       \/ /\ Go(t, "wr_w", "wr_catch")
          /\ Interrupted
          /\ UNCHANGED val

(* The handler of wrlock takes the writer out of writer_count, and leaves r    *)
(* as it is.                                                                   *)
wrlockCatch(t) ==
    /\ Go(t, "wr_catch", "idle")
    /\ mutex["m2"] = NULL
    /\ writer_count' = writer_count - 1
    /\ UNCHANGED <<mutex, val, reader_count, throws, eventVars>>

(* SharedMutex::wrunlock: w first, then the count; the last writer lets the    *)
(* readers in.                                                                 *)
wrunlock(t) ==
    /\ Go(t, "writing", "wr_exit")
    /\ val' = Up("w", val)
    /\ UNCHANGED <<mutex, reader_count, writer_count, throws, eventVars>>

wrunlockM2(t) ==
    /\ Go(t, "wr_exit", "idle")
    /\ mutex["m2"] = NULL
    /\ val' = IF writer_count - 1 = 0 THEN Up("r", val) ELSE val
    /\ writer_count' = writer_count - 1
    /\ UNCHANGED <<mutex, reader_count, throws, eventVars>>

-----------------------------------------------------------------------------
(* FairMutex: a semaphore with one unit.                                       *)
fairLock(t) ==
    /\ Go(t, "idle", "owning")
    /\ val["fair"] > 0
    /\ val' = Down("fair", val)
    /\ UNCHANGED <<mutex, reader_count, writer_count, throws, eventVars>>

fairUnlock(t) ==
    /\ Go(t, "owning", "idle")
    /\ val' = Up("fair", val)
    /\ UNCHANGED <<mutex, reader_count, writer_count, throws, eventVars>>

-----------------------------------------------------------------------------
(* ManualResetEvent: wait and timed_wait return at once when the event is      *)
(* signalled, else sleep until sigcount is another than it was.                *)
signal(t) ==
    /\ pc[t] = "idle"
    /\ sigcount < MaxSignals
    /\ signaled' = TRUE
    /\ sigcount' = sigcount + 1
    /\ UNCHANGED <<prev, pc, lockVars>>

reset(t) ==
    /\ pc[t] = "idle"
    /\ signaled' = FALSE
    /\ UNCHANGED <<sigcount, prev, pc, lockVars>>

wait(t) ==
    /\ ~signaled
    /\ Go(t, "idle", "waiting")
    /\ prev' = [prev EXCEPT ![t] = sigcount]
    /\ UNCHANGED <<signaled, sigcount, lockVars>>

timed_wait(t) ==
    /\ ~signaled
    /\ Go(t, "idle", "timed_waiting")
    /\ prev' = [prev EXCEPT ![t] = sigcount]
    /\ UNCHANGED <<signaled, sigcount, lockVars>>

Bug_wake(t) ==
    /\ signaled
    /\ \E here \in {"waiting", "timed_waiting"} : Go(t, here, "idle")
    /\ prev' = [prev EXCEPT ![t] = 0]
    /\ UNCHANGED <<signaled, sigcount, lockVars>>

(* The loop of either: a thread that finds the count it came with sleeps on.   *)
wake(t) ==
    /\ prev[t] # sigcount
    /\ \E here \in {"waiting", "timed_waiting"} : Go(t, here, "idle")
    /\ prev' = [prev EXCEPT ![t] = 0]
    /\ UNCHANGED <<signaled, sigcount, lockVars>>

(* ETIMEDOUT: timed_wait returns false without another look at the count.      *)
timeout(t) ==
    /\ Go(t, "timed_waiting", "idle")
    /\ prev' = [prev EXCEPT ![t] = 0]
    /\ UNCHANGED <<signaled, sigcount, lockVars>>

-----------------------------------------------------------------------------
(* The calls of the public classes, and what a thread does inside one.         *)
sharedMutexCalls(t) == rdlock(t) \/ wrlock(t)
eventCalls(t) == signal(t) \/ reset(t) \/ wait(t) \/ timed_wait(t)

rdlockStep(t) == rdlockM3(t) \/ rdlockR(t) \/ rdlockM1(t) \/ rdlockW(t)
wrlockStep(t) == wrlockM2(t) \/ wrlockR(t) \/ wrlockW(t) \/ wrlockCatch(t)
unlockStep(t) == rdunlock(t) \/ wrunlock(t) \/ wrunlockM2(t) \/ fairUnlock(t)

Next ==
    \E t \in Threads :
        \/ sharedMutexCalls(t) \/ fairLock(t) \/ eventCalls(t)
        \/ rdlockStep(t) \/ wrlockStep(t) \/ unlockStep(t)
        \/ wake(t) \/ timeout(t)

Spec == Init /\ [][Next]_vars

(* Who is inside a lock leaves it, a woken thread runs, and a mutex or a       *)
(* semaphore that is free again and again is not kept from one thread for      *)
(* ever.  Nobody has to call anything.                                         *)
Fairness ==
    \A t \in Threads :
        /\ WF_vars(unlockStep(t)) /\ WF_vars(wake(t))
        /\ SF_vars(rdlockStep(t)) /\ SF_vars(wrlockStep(t))

FairSpec == Spec /\ Fairness

-----------------------------------------------------------------------------
TypeOK ==
    /\ mutex \in [{"m1", "m2", "m3"} -> Threads \cup {NULL}]
    /\ val \in [{"r", "w", "fair"} -> {0, 1}]
    /\ reader_count \in 0 .. Cardinality(Threads)
    /\ writer_count \in 0 .. Cardinality(Threads)
    /\ signaled \in BOOLEAN /\ sigcount \in 0 .. MaxSignals
    /\ prev \in [Threads -> 0 .. MaxSignals]
    /\ throws \in 0 .. MaxThrows

(* A thread has the shared lock from the end of rdlock to rdunlock, the        *)
(* exclusive one from the end of wrlock to the w.unlock() of wrunlock.         *)
Holds(label) ==
    CASE label = "reading" -> "read"
      [] label = "writing" -> "write"
      [] OTHER -> "none"

Rw == INSTANCE RwLock WITH holds <- [t \in Threads |-> Holds(pc[t])]

(* The lock of impl/syncprims-pmsm.h, in all its steps and with calls of       *)
(* sem_wait that fail at any of them, does what the lock over pthread_rwlock_t *)
(* (impl/syncprims-pthreads.h) does: a writer is alone, readers share.         *)
ImplementsRwLock == Rw!Spec

(* A wrlock that failed alone: r stays taken, by nobody.                       *)
Stranded ==
    /\ val["r"] = 0 /\ writer_count = 0
    /\ \A t \in Threads : pc[t] \notin {"rd_m1", "rd_w"}

(* A call of wrlock comes to an end unless a failed wrlock has left the        *)
(* semaphore r taken, a call of rdlock unless that or writers that never stop  *)
(* coming; and a thread that slept in wait() when the event was signalled      *)
(* wakes, even if the event is reset before it runs.                           *)
CallsReturn ==
    \A t \in Threads :
        /\ pc[t] = "wr_m2" ~> (pc[t] \in {"writing", "idle"} \/ Stranded)
        /\ \/ pc[t] = "rd_m3" ~> pc[t] \in {"reading", "idle"}
           \/ []<>(writer_count > 0)
           \/ <>[]Stranded
        /\ (pc[t] = "waiting" /\ prev[t] # sigcount) ~> pc[t] = "idle"
=============================================================================
