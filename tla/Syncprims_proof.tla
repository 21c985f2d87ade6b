---------------------------- MODULE Syncprims_proof ----------------------------
(***************************************************************************)
(* Proofs about Syncprims for any finite set of threads and any number of  *)
(* calls of sem_wait that fail: the counts of SharedMutex are those of its *)
(* readers and writers, its semaphores stay binary, and the lock implements *)
(* RwLock.                                                                  *)
(***************************************************************************)
EXTENDS Syncprims, FiniteSetTheorems, TLAPS

USE SyncAssumption

(* Where a thread is inside rdlock or wrlock past its first mutex, or has     *)
(* the lock; and everywhere else.                                            *)
LockLabels == {"rd_r", "rd_m1", "rd_w", "reading", "wr_r", "wr_w", "wr_catch", "writing", "wr_exit"}
Labels == LockLabels \cup {"idle", "rd_m3", "wr_m2", "owning", "waiting", "timed_waiting"}

Reading == {t \in Threads : pc[t] = "reading"}
Writers == {t \in Threads : pc[t] \in {"wr_w", "wr_catch", "writing", "wr_exit"}}

(* All that does not concern the SharedMutex beyond a call of it.            *)
otherStep(t) ==
  \/ sharedMutexCalls(t) \/ fairLock(t) \/ eventCalls(t) \/ fairUnlock(t)
  \/ wake(t) \/ timeout(t)

LEMMA NextCases ==
  ASSUME Next, NEW P,
         \A t \in Threads : otherStep(t) => P,
         \A t \in Threads : rdlockM3(t) => P,
         \A t \in Threads : rdlockR(t) => P,
         \A t \in Threads : rdlockM1(t) => P,
         \A t \in Threads : rdlockW(t) => P,
         \A t \in Threads : rdunlock(t) => P,
         \A t \in Threads : wrlockM2(t) => P,
         \A t \in Threads : wrlockR(t) => P,
         \A t \in Threads : wrlockW(t) => P,
         \A t \in Threads : wrlockCatch(t) => P,
         \A t \in Threads : wrunlock(t) => P,
         \A t \in Threads : wrunlockM2(t) => P
  PROVE  P
BY DEF Next, otherStep, rdlockStep, wrlockStep, unlockStep

-----------------------------------------------------------------------------
(* The inductive invariant, in parts.                                        *)

(* The variables have their types; how large the counts are follows below.    *)
Types ==
  /\ mutex \in [{"m1", "m2", "m3"} -> Threads \cup {NULL}]
  /\ val \in [{"r", "w", "fair"} -> Nat]
  /\ reader_count \in Nat /\ writer_count \in Nat
  /\ signaled \in BOOLEAN /\ sigcount \in 0 .. MaxSignals
  /\ prev \in [Threads -> 0 .. MaxSignals]
  /\ throws \in 0 .. MaxThrows
  /\ pc \in [Threads -> Labels]

(* Each mutex is held by the thread that is where the code holds it.         *)
MutexInv ==
  \A t \in Threads :
    /\ mutex["m1"] = t <=> pc[t] = "rd_w"
    /\ mutex["m2"] = t <=> pc[t] = "wr_r"
    /\ mutex["m3"] = t <=> pc[t] \in {"rd_r", "rd_m1", "rd_w"}

CountInv ==
  /\ reader_count = Cardinality(Reading)
  /\ writer_count = Cardinality(Writers)

(* w belongs to one writer, or to the readers together, or is free.          *)
WInv ==
  /\ val["w"] <= 1
  /\ val["w"] = 1 <=> Reading = {} /\ \A t \in Threads : pc[t] # "writing"
  /\ \A t \in Threads : pc[t] = "writing" => Reading = {}
  /\ \A t, u \in Threads : pc[t] = "writing" /\ pc[u] = "writing" => t = u

(* r belongs to the reader on its way in, or to the writers together - or to  *)
(* nobody, once a wrlock has failed.                                         *)
RInv ==
  /\ val["r"] <= 1
  /\ val["r"] = 1 => writer_count = 0 /\ \A t \in Threads : pc[t] \notin {"rd_m1", "rd_w"}
  /\ writer_count > 0 => \A t \in Threads : pc[t] \notin {"rd_m1", "rd_w"}

(* FairMutex has one owner at most.                                          *)
FairInv ==
  /\ val["fair"] <= 1
  /\ val["fair"] = 1 <=> \A t \in Threads : pc[t] # "owning"
  /\ \A t, u \in Threads : pc[t] = "owning" /\ pc[u] = "owning" => t = u

IInv == Types /\ MutexInv /\ CountInv /\ WInv /\ RInv /\ FairInv

-----------------------------------------------------------------------------
LEMMA TypesStep == ASSUME IInv, Next PROVE Types'
<1> USE DEF Go, Guard, Unguard, Up, Down, Interrupted, lockVars, eventVars
<1>a. Types /\ MutexInv
  BY DEF IInv
<1>0. ASSUME NEW t \in Threads, otherStep(t) PROVE Types'
  <2> USE <1>a DEF Types, Labels, LockLabels
  <2>1. CASE sharedMutexCalls(t)
    BY <2>1 DEF sharedMutexCalls, rdlock, wrlock
  <2>2. CASE fairLock(t)
    BY <2>2 DEF fairLock
  <2>3. CASE eventCalls(t)
    <3>1. CASE signal(t)
      BY <3>1 DEF signal
    <3>2. CASE reset(t)
      BY <3>2 DEF reset
    <3>3. CASE wait(t)
      BY <3>3 DEF wait
    <3>4. CASE timed_wait(t)
      BY <3>4 DEF timed_wait
    <3> QED BY <2>3, <3>1, <3>2, <3>3, <3>4 DEF eventCalls
  <2>4. CASE fairUnlock(t)
    BY <2>4 DEF fairUnlock
  <2>5. CASE wake(t) \/ timeout(t)
    BY <2>5 DEF wake, timeout
  <2> QED BY <1>0, <2>1, <2>2, <2>3, <2>4, <2>5 DEF otherStep
<1> USE <1>a DEF Types, Labels, LockLabels
<1>1. ASSUME NEW t \in Threads, rdlockM3(t) PROVE Types'
  BY <1>1 DEF rdlockM3
<1>2. ASSUME NEW t \in Threads, rdlockR(t) PROVE Types'
  BY <1>2 DEF rdlockR
<1>3. ASSUME NEW t \in Threads, rdlockM1(t) PROVE Types'
  BY <1>3 DEF rdlockM1
<1>4. ASSUME NEW t \in Threads, rdlockW(t) PROVE Types'
  BY <1>4 DEF rdlockW
<1>b. \A t \in Threads :
        /\ pc[t] = "reading" => reader_count - 1 \in Nat
        /\ pc[t] \in {"wr_catch", "wr_exit"} => writer_count - 1 \in Nat
  <2> SUFFICES ASSUME NEW t \in Threads
               PROVE  /\ pc[t] = "reading" => reader_count - 1 \in Nat
                      /\ pc[t] \in {"wr_catch", "wr_exit"} => writer_count - 1 \in Nat
    OBVIOUS
  <2>1. IsFiniteSet(Reading) /\ IsFiniteSet(Writers)
    BY FS_Subset DEF Reading, Writers
  <2>2. pc[t] = "reading" => Reading # {}
    BY DEF Reading
  <2>3. pc[t] \in {"wr_catch", "wr_exit"} => Writers # {}
    BY DEF Writers
  <2>4. /\ Reading # {} => reader_count # 0
        /\ Writers # {} => writer_count # 0
    BY <2>1, FS_EmptySet DEF IInv, CountInv
  <2> QED BY <2>2, <2>3, <2>4
<1>5. ASSUME NEW t \in Threads, rdunlock(t) PROVE Types'
  BY <1>5, <1>b DEF rdunlock
<1>6. ASSUME NEW t \in Threads, wrlockM2(t) PROVE Types'
  BY <1>6 DEF wrlockM2
<1>7. ASSUME NEW t \in Threads, wrlockR(t) PROVE Types'
  BY <1>7 DEF wrlockR
<1>8. ASSUME NEW t \in Threads, wrlockW(t) PROVE Types'
  BY <1>8 DEF wrlockW
<1>9. ASSUME NEW t \in Threads, wrlockCatch(t) PROVE Types'
  BY <1>9, <1>b DEF wrlockCatch
<1>10. ASSUME NEW t \in Threads, wrunlock(t) PROVE Types'
  BY <1>10 DEF wrunlock
<1>11. ASSUME NEW t \in Threads, wrunlockM2(t) PROVE Types'
  BY <1>11, <1>b DEF wrunlockM2
<1> HIDE <1>a DEF Types
<1> QED
  BY <1>0, <1>1, <1>2, <1>3, <1>4, <1>5, <1>6, <1>7, <1>8, <1>9, <1>10, <1>11, NextCases

(* The other calls leave what the SharedMutex consists of as it is.          *)
LEMMA OtherFrame ==
  ASSUME Types, NEW t \in Threads, otherStep(t)
  PROVE  /\ UNCHANGED <<mutex, reader_count, writer_count>>
         /\ val'["r"] = val["r"] /\ val'["w"] = val["w"]
         /\ \A u \in Threads : pc[u] \in LockLabels \/ pc'[u] \in LockLabels => pc'[u] = pc[u]
<1> USE DEF Types, LockLabels, Go, Up, Down, lockVars, eventVars
<1>1. CASE sharedMutexCalls(t)
  BY <1>1 DEF sharedMutexCalls, rdlock, wrlock
<1>2. CASE fairLock(t) \/ fairUnlock(t)
  BY <1>2 DEF fairLock, fairUnlock
<1>3. CASE eventCalls(t)
  BY <1>3 DEF eventCalls, signal, reset, wait, timed_wait
<1>4. CASE wake(t) \/ timeout(t)
  BY <1>4 DEF wake, timeout
<1> QED BY <1>1, <1>2, <1>3, <1>4 DEF otherStep

LEMMA MutexStep == ASSUME IInv, Next PROVE MutexInv'
<1> Types /\ MutexInv
  BY DEF IInv
<1>0. ASSUME NEW t \in Threads, otherStep(t) PROVE MutexInv'
  BY <1>0, OtherFrame DEF MutexInv, LockLabels
<1> USE DEF MutexInv, Types, Go, Guard, Unguard
<1>1. ASSUME NEW t \in Threads, rdlockM3(t) PROVE MutexInv'
  BY <1>1 DEF rdlockM3
<1>2. ASSUME NEW t \in Threads, rdlockR(t) PROVE MutexInv'
  BY <1>2 DEF rdlockR
<1>3. ASSUME NEW t \in Threads, rdlockM1(t) PROVE MutexInv'
  BY <1>3 DEF rdlockM1
<1>4. ASSUME NEW t \in Threads, rdlockW(t) PROVE MutexInv'
  BY <1>4 DEF rdlockW
<1>5. ASSUME NEW t \in Threads, rdunlock(t) PROVE MutexInv'
  BY <1>5 DEF rdunlock
<1>6. ASSUME NEW t \in Threads, wrlockM2(t) PROVE MutexInv'
  BY <1>6 DEF wrlockM2
<1>7. ASSUME NEW t \in Threads, wrlockR(t) PROVE MutexInv'
  BY <1>7 DEF wrlockR
<1>8. ASSUME NEW t \in Threads, wrlockW(t) PROVE MutexInv'
  BY <1>8 DEF wrlockW
<1>9. ASSUME NEW t \in Threads, wrlockCatch(t) PROVE MutexInv'
  BY <1>9 DEF wrlockCatch
<1>10. ASSUME NEW t \in Threads, wrunlock(t) PROVE MutexInv'
  BY <1>10 DEF wrunlock
<1>11. ASSUME NEW t \in Threads, wrunlockM2(t) PROVE MutexInv'
  BY <1>11 DEF wrunlockM2
<1> HIDE DEF MutexInv
<1> QED
  BY <1>0, <1>1, <1>2, <1>3, <1>4, <1>5, <1>6, <1>7, <1>8, <1>9, <1>10, <1>11, NextCases

(* A thread comes to a set of threads that are at some labels, or goes.       *)
LEMMA Finite == IsFiniteSet(Reading) /\ IsFiniteSet(Writers)
BY FS_Subset DEF Reading, Writers

LEMMA CountStep == ASSUME IInv, Next PROVE CountInv'
<1>a. Types /\ CountInv
  BY DEF IInv
<1>0. ASSUME NEW t \in Threads, otherStep(t) PROVE CountInv'
  <2>1. Reading' = Reading /\ Writers' = Writers
    BY <1>0, <1>a, OtherFrame DEF Reading, Writers, LockLabels
  <2> QED BY <1>0, <1>a, <2>1, OtherFrame DEF CountInv
(* The steps at which neither set changes.                                   *)
<1>b. ASSUME NEW t \in Threads,
             rdlockM3(t) \/ rdlockR(t) \/ wrlockW(t) \/ wrunlock(t)
      PROVE  CountInv'
  <2>1. Reading' = Reading
    BY <1>b, <1>a DEF Types, Go, Reading, rdlockM3, rdlockR, wrlockW, wrunlock
  <2>2. Writers' = Writers
    BY <1>b, <1>a DEF Types, Go, Writers, rdlockM3, rdlockR, wrlockW, wrunlock
  <2>3. UNCHANGED <<reader_count, writer_count>>
    BY <1>b DEF rdlockM3, rdlockR, wrlockW, wrunlock
  <2> QED BY <1>a, <2>1, <2>2, <2>3 DEF CountInv
<1>3. ASSUME NEW t \in Threads, rdlockM1(t) \/ rdlockW(t) PROVE CountInv'
  <2>1. Writers' = Writers /\ writer_count' = writer_count
    BY <1>3, <1>a DEF Types, Go, Writers, rdlockM1, rdlockW
  <2>2. \/ reader_count' = reader_count /\ Reading' = Reading
        \/ /\ reader_count' = reader_count + 1
           /\ Reading' = Reading \cup {t} /\ t \notin Reading
    BY <1>3, <1>a DEF Types, Go, Reading, rdlockM1, rdlockW
  <2> QED BY <1>a, <2>1, <2>2, Finite, FS_AddElement DEF CountInv
<1>5. ASSUME NEW t \in Threads, rdunlock(t) PROVE CountInv'
  <2>1. Writers' = Writers /\ writer_count' = writer_count
    BY <1>5, <1>a DEF Types, Go, Writers, rdunlock
  <2>2. reader_count' = reader_count - 1 /\ Reading' = Reading \ {t} /\ t \in Reading
    BY <1>5, <1>a DEF Types, Go, Reading, rdunlock
  <2> QED BY <1>a, <2>1, <2>2, Finite, FS_RemoveElement DEF CountInv
<1>6. ASSUME NEW t \in Threads, wrlockM2(t) \/ wrlockR(t) PROVE CountInv'
  <2>1. Reading' = Reading /\ reader_count' = reader_count
    BY <1>6, <1>a DEF Types, Go, Reading, wrlockM2, wrlockR
  <2>2. \/ writer_count' = writer_count /\ Writers' = Writers
        \/ /\ writer_count' = writer_count + 1
           /\ Writers' = Writers \cup {t} /\ t \notin Writers
    BY <1>6, <1>a DEF Types, Go, Writers, wrlockM2, wrlockR
  <2> QED BY <1>a, <2>1, <2>2, Finite, FS_AddElement DEF CountInv
<1>9. ASSUME NEW t \in Threads, wrlockCatch(t) \/ wrunlockM2(t) PROVE CountInv'
  <2>1. Reading' = Reading /\ reader_count' = reader_count
    BY <1>9, <1>a DEF Types, Go, Reading, wrlockCatch, wrunlockM2
  <2>2. writer_count' = writer_count - 1 /\ Writers' = Writers \ {t} /\ t \in Writers
    BY <1>9, <1>a DEF Types, Go, Writers, wrlockCatch, wrunlockM2
  <2> QED BY <1>a, <2>1, <2>2, Finite, FS_RemoveElement DEF CountInv
<1> QED
  BY <1>0, <1>b, <1>3, <1>5, <1>6, <1>9, NextCases

(* What the counts say of the threads.                                       *)
LEMMA Counts ==
  ASSUME IInv
  PROVE  /\ reader_count = 0 <=> Reading = {}
         /\ writer_count = 0 <=> Writers = {}
         /\ reader_count = 1 <=> \E t : Reading = {t}
<1>1. /\ reader_count = Cardinality(Reading) /\ writer_count = Cardinality(Writers)
  BY DEF IInv, CountInv
<1>2. /\ Cardinality(Reading) = 0 <=> Reading = {}
      /\ Cardinality(Writers) = 0 <=> Writers = {}
  BY Finite, FS_EmptySet
<1>3. Cardinality(Reading) = 1 <=> \E t : Reading = {t}
  BY Finite, FS_Singleton
<1> QED BY <1>1, <1>2, <1>3

LEMMA WStep == ASSUME IInv, Next PROVE WInv'
<1>a. Types /\ WInv
  BY DEF IInv
<1>0. ASSUME NEW t \in Threads, otherStep(t) PROVE WInv'
  <2>1. Reading' = Reading /\ \A u \in Threads : pc'[u] = "writing" <=> pc[u] = "writing"
    BY <1>0, <1>a, OtherFrame DEF Reading, LockLabels
  <2> QED BY <1>0, <1>a, <2>1, OtherFrame DEF WInv
(* The steps that neither set the lock nor give it back.                     *)
<1>b. ASSUME NEW t \in Threads,
             \/ rdlockM3(t) \/ rdlockR(t) \/ wrlockM2(t) \/ wrlockR(t)
             \/ wrlockCatch(t) \/ wrunlockM2(t)
      PROVE  WInv'
  <2>1. /\ \A u \in Threads : pc'[u] = "writing" <=> pc[u] = "writing"
        /\ \A u \in Threads : pc'[u] = "reading" <=> pc[u] = "reading"
    BY <1>b, <1>a
       DEF Types, Go, rdlockM3, rdlockR, wrlockM2, wrlockR, wrlockCatch, wrunlockM2
  <2>2. val'["w"] = val["w"]
    BY <1>b, <1>a
       DEF Types, Down, Up, rdlockM3, rdlockR, wrlockM2, wrlockR, wrlockCatch, wrunlockM2
  <2>3. Reading' = Reading
    BY <2>1 DEF Reading
  <2> QED BY <1>a, <2>1, <2>2, <2>3 DEF WInv
<1>3. ASSUME NEW t \in Threads, rdlockM1(t) PROVE WInv'
  <2>1. CASE reader_count + 1 = 1
    <3>1. Reading' = Reading /\ val' = val
      BY <1>3, <1>a, <2>1 DEF Types, Go, rdlockM1, Reading
    <3>2. \A u \in Threads : pc'[u] = "writing" <=> pc[u] = "writing"
      BY <1>3, <1>a, <2>1 DEF Types, Go, rdlockM1
    <3> QED BY <1>a, <3>1, <3>2 DEF WInv
  <2>2. CASE reader_count + 1 # 1
    <3>1. Reading # {}
      BY <1>a, <2>2, Counts DEF Types
    <3>2. Reading' = Reading \cup {t} /\ val'["w"] = val["w"]
      BY <1>3, <1>a, <2>2 DEF Types, Go, rdlockM1, Reading, Up
    <3>3. \A u \in Threads : pc'[u] = "writing" <=> pc[u] = "writing"
      BY <1>3, <1>a, <2>2 DEF Types, Go, rdlockM1
    <3> QED BY <1>a, <3>1, <3>2, <3>3 DEF WInv
  <2> QED BY <2>1, <2>2
<1>4. ASSUME NEW t \in Threads, rdlockW(t) PROVE WInv'
  <2>1. \A u \in Threads : pc'[u] = "writing" <=> pc[u] = "writing"
    BY <1>4, <1>a DEF Types, Go, rdlockW
  <2>2. \/ Reading' = Reading /\ val'["w"] = val["w"]
        \/ Reading' = Reading \cup {t} /\ val["w"] > 0 /\ val'["w"] = val["w"] - 1
    BY <1>4, <1>a DEF Types, Go, rdlockW, Reading, Up, Down
  <2> QED BY <1>a, <2>1, <2>2 DEF WInv, Types
<1>5. ASSUME NEW t \in Threads, rdunlock(t) PROVE WInv'
  <2>1. \A u \in Threads : pc'[u] = "writing" <=> pc[u] = "writing"
    BY <1>5, <1>a DEF Types, Go, rdunlock
  <2>2. t \in Reading /\ Reading' = Reading \ {t}
    BY <1>5, <1>a DEF Types, Go, rdunlock, Reading
  <2>3. val["w"] = 0 /\ \A u \in Threads : pc[u] # "writing"
    BY <1>a, <2>2 DEF WInv, Types
  <2>4. CASE reader_count = 1
    <3>1. Reading' = {}
      BY <2>2, <2>4, Counts
    <3>2. val'["w"] = 1
      BY <1>5, <1>a, <2>3, <2>4 DEF rdunlock, Up, Types
    <3> QED BY <2>1, <2>3, <3>1, <3>2 DEF WInv
  <2>5. CASE reader_count # 1
    <3>1. Reading' # {}
      BY <2>2, <2>5, Counts
    <3>2. val' = val
      BY <1>5, <1>a, <2>5 DEF rdunlock, Types
    <3> QED BY <2>1, <2>3, <3>1, <3>2 DEF WInv
  <2> QED BY <2>4, <2>5
<1>8. ASSUME NEW t \in Threads, wrlockW(t) PROVE WInv'
  <2>1. Reading' = Reading
    BY <1>8, <1>a DEF Types, Go, wrlockW, Reading
  <2>2. \/ /\ val' = val
           /\ \A u \in Threads : pc'[u] = "writing" <=> pc[u] = "writing"
        \/ /\ val["w"] > 0 /\ val'["w"] = val["w"] - 1
           /\ \A u \in Threads : pc'[u] = "writing" <=> pc[u] = "writing" \/ u = t
    BY <1>8, <1>a DEF Types, Go, wrlockW, Down
  <2> QED BY <1>a, <2>1, <2>2 DEF WInv, Types
<1>10. ASSUME NEW t \in Threads, wrunlock(t) PROVE WInv'
  <2>1. Reading' = Reading
    BY <1>10, <1>a DEF Types, Go, wrunlock, Reading
  <2>2. /\ pc[t] = "writing" /\ val'["w"] = val["w"] + 1
        /\ \A u \in Threads : pc'[u] = "writing" <=> pc[u] = "writing" /\ u # t
    BY <1>10, <1>a DEF Types, Go, wrunlock, Up
  <2> QED BY <1>a, <2>1, <2>2 DEF WInv, Types
<1> QED
  BY <1>0, <1>b, <1>3, <1>4, <1>5, <1>8, <1>10, NextCases

LEMMA RStep == ASSUME IInv, Next PROVE RInv'
<1>a. Types /\ MutexInv /\ RInv
  BY DEF IInv
<1>u. \A t, u \in Threads :
         pc[t] \in {"rd_m1", "rd_w"} /\ pc[u] \in {"rd_m1", "rd_w"} => t = u
  BY <1>a DEF MutexInv
<1>w. \A t \in Threads : pc[t] \in {"wr_catch", "wr_exit"} => writer_count > 0
  BY <1>a, Counts DEF Writers, Types
<1>0. ASSUME NEW t \in Threads, otherStep(t) PROVE RInv'
  BY <1>0, <1>a, OtherFrame DEF RInv, LockLabels
<1> USE <1>a DEF RInv, Types, Go, Up, Down
(* The steps that leave r, writer_count and the entering reader as they are.  *)
<1>b. ASSUME NEW t \in Threads, rdlockM3(t) \/ rdunlock(t) \/ wrlockW(t) \/ wrunlock(t)
      PROVE  RInv'
  BY <1>b DEF rdlockM3, rdunlock, wrlockW, wrunlock
<1>2. ASSUME NEW t \in Threads, rdlockR(t) PROVE RInv'
  BY <1>2 DEF rdlockR
<1>3. ASSUME NEW t \in Threads, rdlockM1(t) PROVE RInv'
  BY <1>3, <1>u DEF rdlockM1
<1>4. ASSUME NEW t \in Threads, rdlockW(t) PROVE RInv'
  BY <1>4, <1>u DEF rdlockW
<1>6. ASSUME NEW t \in Threads, wrlockM2(t) PROVE RInv'
  BY <1>6 DEF wrlockM2
<1>7. ASSUME NEW t \in Threads, wrlockR(t) PROVE RInv'
  BY <1>7 DEF wrlockR
<1>9. ASSUME NEW t \in Threads, wrlockCatch(t) PROVE RInv'
  BY <1>9, <1>w DEF wrlockCatch
<1>11. ASSUME NEW t \in Threads, wrunlockM2(t) PROVE RInv'
  BY <1>11, <1>w DEF wrunlockM2
<1> HIDE <1>a DEF RInv
<1> QED
  BY <1>0, <1>b, <1>2, <1>3, <1>4, <1>6, <1>7, <1>9, <1>11, NextCases

(* The steps inside SharedMutex do not concern FairMutex.                     *)
LEMMA FairStep == ASSUME IInv, Next PROVE FairInv'
<1>a. Types /\ FairInv
  BY DEF IInv
<1> DEFINE Same == /\ val'["fair"] = val["fair"]
                   /\ \A t \in Threads : pc'[t] = "owning" <=> pc[t] = "owning"
<1>s. Same => FairInv'
  BY <1>a DEF FairInv
<1> USE <1>a DEF Types, Go, Up, Down
<1>1. ASSUME NEW t \in Threads, fairLock(t) PROVE FairInv'
  BY <1>1 DEF fairLock, FairInv
<1>2. ASSUME NEW t \in Threads, fairUnlock(t) PROVE FairInv'
  BY <1>2 DEF fairUnlock, FairInv
<1>3. ASSUME NEW t \in Threads, sharedMutexCalls(t) \/ eventCalls(t) \/ wake(t) \/ timeout(t)
      PROVE  Same
  BY <1>3 DEF sharedMutexCalls, rdlock, wrlock, eventCalls, signal, reset, wait, timed_wait,
              wake, timeout, lockVars, eventVars
<1>4. ASSUME NEW t \in Threads,
             rdlockM3(t) \/ rdlockR(t) \/ rdlockM1(t) \/ rdlockW(t) \/ rdunlock(t)
      PROVE  Same
  BY <1>4 DEF rdlockM3, rdlockR, rdlockM1, rdlockW, rdunlock
<1>5. ASSUME NEW t \in Threads,
             \/ wrlockM2(t) \/ wrlockR(t) \/ wrlockW(t) \/ wrlockCatch(t)
             \/ wrunlock(t) \/ wrunlockM2(t)
      PROVE  Same
  BY <1>5 DEF wrlockM2, wrlockR, wrlockW, wrlockCatch, wrunlock, wrunlockM2
<1> HIDE <1>a DEF Same
<1>o. ASSUME NEW t \in Threads, otherStep(t) PROVE FairInv'
  BY <1>o, <1>s, <1>1, <1>2, <1>3 DEF otherStep
<1> QED BY <1>o, <1>s, <1>4, <1>5, NextCases

-----------------------------------------------------------------------------
LEMMA InitInv == Init => IInv
<1> SUFFICES ASSUME Init PROVE IInv
  OBVIOUS
<1> USE DEF Init
<1>1. Semaphore(1, 1) = 1
  BY DEF Semaphore
<1>2. Types
  <2>1. val \in [{"r", "w", "fair"} -> Nat]
    BY <1>1
  <2>2. mutex \in [{"m1", "m2", "m3"} -> Threads \cup {NULL}]
    OBVIOUS
  <2>3. pc \in [Threads -> Labels]
    BY DEF Labels
  <2>4. prev \in [Threads -> 0 .. MaxSignals]
    OBVIOUS
  <2>5. sigcount \in 0 .. MaxSignals /\ throws \in 0 .. MaxThrows
    BY DEF SyncAssumption
  <2>7. signaled \in BOOLEAN
    OBVIOUS
  <2>6. reader_count \in Nat /\ writer_count \in Nat
    OBVIOUS
  <2> HIDE DEF Init
  <2> QED BY <2>1, <2>2, <2>3, <2>4, <2>5, <2>6, <2>7 DEF Types
<1>3. Reading = {} /\ Writers = {}
  BY DEF Reading, Writers
<1>4. CountInv
  BY <1>3, FS_EmptySet DEF CountInv
<1>5. MutexInv
  BY DEF MutexInv
<1>6. WInv /\ RInv /\ FairInv
  BY <1>1, <1>3 DEF WInv, RInv, FairInv
<1> QED BY <1>2, <1>4, <1>5, <1>6 DEF IInv

LEMMA StepInv == IInv /\ [Next]_vars => IInv'
<1> SUFFICES ASSUME IInv, [Next]_vars PROVE IInv'
  OBVIOUS
<1>1. CASE Next
  BY <1>1, TypesStep, MutexStep, CountStep, WStep, RStep, FairStep DEF IInv
<1>2. CASE UNCHANGED vars
  BY <1>2 DEF vars, lockVars, eventVars, IInv, Types, MutexInv, CountInv, WInv, RInv, FairInv,
              Reading, Writers
<1> QED BY <1>1, <1>2

(* The counts, the semaphores and the mutexes of the lock say at every moment *)
(* who is where inside it, sem_wait failing or not.                          *)
THEOREM Invariance == Spec => []IInv
BY InitInv, StepInv, PTL DEF Spec

LEMMA CountBounds ==
  ASSUME IInv
  PROVE  /\ reader_count \in 0 .. Cardinality(Threads)
         /\ writer_count \in 0 .. Cardinality(Threads)
<1>1. Cardinality(Reading) <= Cardinality(Threads) /\ Cardinality(Writers) <= Cardinality(Threads)
  BY FS_Subset DEF Reading, Writers
<1> QED BY <1>1, FS_CardinalityType DEF IInv, CountInv, Types

(* The values every variable keeps; the semaphores never have a second unit,  *)
(* which unlock() would give them, and no count falls below zero or above the *)
(* number of threads.                                                        *)
THEOREM TypeCorrect == Spec => []TypeOK
<1>1. IInv => TypeOK
  BY CountBounds DEF IInv, Types, WInv, RInv, FairInv, TypeOK
<1> QED BY <1>1, Invariance, PTL

-----------------------------------------------------------------------------
(* The refinement: what every thread has, as RwLock sees it.                  *)
holds == [t \in Threads |-> Holds(pc[t])]

(* A writer excludes readers and other writers.                              *)
LEMMA Exclusion ==
  ASSUME IInv
  PROVE  /\ val["w"] > 0 => Rw!Having("read") = {} /\ Rw!Having("write") = {}
         /\ reader_count > 0 => Rw!Having("write") = {}
<1> USE DEF Rw!Having, Holds
<1>1. /\ Rw!Having("read") = Reading
      /\ \A t \in Threads : t \in Rw!Having("write") <=> pc[t] = "writing"
      /\ Rw!Having("write") \subseteq Threads
  BY DEF Reading
<1>2. Types /\ WInv
  BY DEF IInv
<1>3. val["w"] > 0 => val["w"] = 1
  BY <1>2 DEF Types, WInv
<1>4. reader_count > 0 => Reading # {}
  BY <1>2, Counts DEF Types
<1> HIDE DEF Rw!Having
<1> QED BY <1>1, <1>2, <1>3, <1>4 DEF WInv

LEMMA InitRefines == Init => Rw!Init
BY DEF Init, Rw!Init, Holds

LEMMA StepRefines == IInv /\ [Next]_vars => [Rw!Next]_holds
<1> SUFFICES ASSUME IInv, [Next]_vars PROVE Rw!Next \/ holds' = holds
  BY DEF holds
<1>a. Types
  BY DEF IInv
<1> DEFINE Same == \A t \in Threads : Holds(pc'[t]) = Holds(pc[t])
           Becomes(t, has) == holds' = [holds EXCEPT ![t] = has]
<1>s. Same => holds' = holds
  BY DEF holds
<1>p. ASSUME NEW t \in Threads, NEW here, NEW there, Go(t, here, there)
      PROVE  Becomes(t, Holds(there)) /\ holds[t] = Holds(here)
  BY <1>a, <1>p DEF Types, Go, holds
<1>0. ASSUME NEW t \in Threads, otherStep(t) PROVE Same
  <2> SUFFICES ASSUME NEW u \in Threads PROVE Holds(pc'[u]) = Holds(pc[u])
    OBVIOUS
  <2>1. pc[u] \in {"reading", "writing"} \/ pc'[u] \in {"reading", "writing"} => pc'[u] = pc[u]
    BY <1>0, <1>a, OtherFrame DEF LockLabels
  <2> QED BY <2>1 DEF Holds
(* The steps inside rdlock and wrlock, and those that end in an exception.    *)
<1>b. ASSUME NEW t \in Threads,
             \/ rdlockM3(t) \/ rdlockR(t) \/ wrlockM2(t) \/ wrlockR(t)
             \/ wrlockCatch(t) \/ wrunlockM2(t)
      PROVE  Same
  <2> SUFFICES ASSUME NEW u \in Threads PROVE Holds(pc'[u]) = Holds(pc[u])
    OBVIOUS
  <2>1. pc[u] \in {"reading", "writing"} \/ pc'[u] \in {"reading", "writing"} => pc'[u] = pc[u]
    BY <1>b, <1>a
       DEF Types, Go, rdlockM3, rdlockR, wrlockM2, wrlockR, wrlockCatch, wrunlockM2
  <2> QED BY <2>1 DEF Holds
<1> HIDE DEF Same, Becomes
<1>3. ASSUME NEW t \in Threads, rdlockM1(t) PROVE Rw!Next \/ holds' = holds
  <2>1. CASE reader_count + 1 = 1
    <3>1. Becomes(t, "none") /\ holds[t] = "none"
      BY <1>3, <1>p, <2>1 DEF rdlockM1, Holds
    <3> QED BY <3>1 DEF Becomes, holds
  <2>2. CASE reader_count + 1 # 1
    <3>1. Becomes(t, "read") /\ holds[t] = "none"
      BY <1>3, <1>p, <2>2 DEF rdlockM1, Holds
    <3>2. Rw!Having("write") = {}
      BY <1>a, <2>2, Exclusion DEF Types
    <3>3. Rw!rdlock(t)
      BY <3>1, <3>2 DEF Becomes, holds, Rw!rdlock
    <3> QED BY <3>3 DEF Rw!Next
  <2> QED BY <2>1, <2>2
<1>4. ASSUME NEW t \in Threads, rdlockW(t) PROVE Rw!Next \/ holds' = holds
  <2>1. CASE Go(t, "rd_w", "idle")
    <3>1. Becomes(t, "none") /\ holds[t] = "none"
      BY <1>p, <2>1 DEF Holds
    <3> QED BY <3>1 DEF Becomes, holds
  <2>2. CASE Go(t, "rd_w", "reading") /\ val["w"] > 0
    <3>1. Becomes(t, "read") /\ holds[t] = "none"
      BY <1>p, <2>2 DEF Holds
    <3>2. Rw!rdlock(t)
      BY <2>2, <3>1, Exclusion DEF Becomes, holds, Rw!rdlock
    <3> QED BY <3>2 DEF Rw!Next
  <2> QED BY <1>4, <2>1, <2>2 DEF rdlockW
<1>5. ASSUME NEW t \in Threads, rdunlock(t) PROVE Rw!Next
  <2>1. Becomes(t, "none") /\ holds[t] = "read"
    BY <1>5, <1>p DEF rdunlock, Holds
  <2>2. Rw!rdunlock(t)
    BY <2>1 DEF Becomes, holds, Rw!rdunlock
  <2> QED BY <2>2 DEF Rw!Next
<1>8. ASSUME NEW t \in Threads, wrlockW(t) PROVE Rw!Next \/ holds' = holds
  <2>1. CASE Go(t, "wr_w", "wr_catch")
    <3>1. Becomes(t, "none") /\ holds[t] = "none"
      BY <1>p, <2>1 DEF Holds
    <3> QED BY <3>1 DEF Becomes, holds
  <2>2. CASE Go(t, "wr_w", "writing") /\ val["w"] > 0
    <3>1. Becomes(t, "write") /\ holds[t] = "none"
      BY <1>p, <2>2 DEF Holds
    <3>2. Rw!wrlock(t)
      BY <2>2, <3>1, Exclusion DEF Becomes, holds, Rw!wrlock
    <3> QED BY <3>2 DEF Rw!Next
  <2> QED BY <1>8, <2>1, <2>2 DEF wrlockW
<1>10. ASSUME NEW t \in Threads, wrunlock(t) PROVE Rw!Next
  <2>1. Becomes(t, "none") /\ holds[t] = "write"
    BY <1>10, <1>p DEF wrunlock, Holds
  <2>2. Rw!wrunlock(t)
    BY <2>1 DEF Becomes, holds, Rw!wrunlock
  <2> QED BY <2>2 DEF Rw!Next
<1>c. CASE Next
  BY <1>c, <1>s, <1>0, <1>b, <1>3, <1>4, <1>5, <1>8, <1>10, NextCases
<1>d. CASE UNCHANGED vars
  BY <1>d DEF vars, holds
<1> QED BY <1>c, <1>d

(* SharedMutex built from semaphores and mutexes (impl/syncprims-pmsm.h)      *)
(* gives what the one over pthread_rwlock_t gives: a writer is alone, readers  *)
(* share, however many threads there are and wherever sem_wait fails.          *)
THEOREM LockRefines == Spec => ImplementsRwLock
BY Invariance, InitRefines, StepRefines, PTL DEF Spec, ImplementsRwLock, Rw!Spec, holds
=============================================================================
