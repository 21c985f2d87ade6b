-------------------------- MODULE NDTaskThreadManager --------------------------
(***************************************************************************)
(* The task threads and their manager (NDThread, NDTaskThread,             *)
(* NDTaskThreadManager).  Each thread has a queue of requests of its own;  *)
(* the manager picks the thread by a hash of the client's id.  A thread    *)
(* takes requests in batches, answers each through the net service, and    *)
(* looks at its exit flag between two batches.                             *)
(*                                                                         *)
(* Which callback a request leads to, and the text of the reply, are left  *)
(* out here: every branch of disposeOperateData ends in one sendMessage.   *)
(* The critical sections of m_DataLock do not block and are single steps.  *)
(* Callers are not constrained beyond what init() and the net service      *)
(* force: requests may arrive while the threads are being stopped.         *)
(***************************************************************************)
EXTENDS Naturals, SequencesExt

CONSTANTS
  TaskThreadNum,  \* task_thread_num of the configuration
  BatchMax,       \* requests per call of disposeOperateData (100)
  QueueMax,       \* bound: requests waiting in one thread
  Msgs,           \* requests; the same one may arrive again and again
  NoMsg,          \* none of them
  Clients,
  ClientOf,       \* the client that sends a request
  Hashes          \* what bkdr_hash may return for the id of a client

ASSUME TaskAssumption ==
  /\ TaskThreadNum \in Nat \ {0}
  /\ BatchMax \in Nat \ {0}
  /\ QueueMax \in Nat \ {0}
  /\ NoMsg \notin Msgs
  /\ ClientOf \in [Msgs -> Clients]
  /\ Hashes \in [Clients -> (SUBSET Nat) \ {{}}]

TaskThreads == 0 .. TaskThreadNum - 1

VARIABLES
  mgr,                 \* the controlling thread: init, serving, stopping, stopped
  created,             \* size of m_NDTaskThreadPtrVec
  stopped,             \* how many threads stopAllTaskThread has told to stop
  m_pNDNetService,     \* NDPluginManagerGlobal has created the net service
  pNDNetService,       \* function static of disposeOperateData: unset, NULL, service
  crashed,             \* a member function was called on NULL: no more steps
  m_bExit,
  m_recvMsgList,
  nOperatorDataCount,
  msg,                 \* the local variable of disposeOperateData
  pc                   \* where each thread is

ctlVars    == <<mgr, created, stopped, m_pNDNetService>>
threadVars == <<m_bExit, m_recvMsgList, nOperatorDataCount, msg, pc>>
vars       == <<ctlVars, pNDNetService, crashed, threadVars>>

Running == {"enter", "dispose", "process", "free", "quit"}

Init ==
  /\ mgr = "init" /\ created = 0 /\ stopped = 0
  /\ m_pNDNetService = FALSE /\ pNDNetService = "unset" /\ crashed = FALSE
  /\ m_bExit = [i \in TaskThreads |-> TRUE]
  /\ m_recvMsgList = [i \in TaskThreads |-> <<>>]
  /\ nOperatorDataCount = [i \in TaskThreads |-> 0]
  /\ msg = [i \in TaskThreads |-> NoMsg]
  /\ pc = [i \in TaskThreads |-> "new"]

Alive == ~crashed /\ UNCHANGED crashed

-----------------------------------------------------------------------------
(* The controlling thread.                                                   *)

(* One round of the loop of init(); how soon the new thread runs is open, the *)
(* sleep(100) after it guarantees nothing.                                   *)
init ==
  /\ Alive
  /\ mgr = "init" /\ created < TaskThreadNum
  /\ created' = created + 1
  /\ pc' = [pc EXCEPT ![created] = "run"]
  /\ UNCHANGED <<mgr, stopped, m_pNDNetService, pNDNetService,
                 m_bExit, m_recvMsgList, nOperatorDataCount, msg>>

newNetService ==
  /\ Alive
  /\ mgr = "init" /\ created = TaskThreadNum
  /\ m_pNDNetService' = TRUE
  /\ mgr' = "serving"
  /\ UNCHANGED <<created, stopped, pNDNetService, threadVars>>

stopAllTaskThread ==
  /\ Alive
  /\ mgr = "serving"
  /\ mgr' = "stopping"
  /\ UNCHANGED <<created, stopped, m_pNDNetService, pNDNetService, threadVars>>

(* stop() of the next thread in the vector.                                  *)
stop ==
  /\ Alive
  /\ mgr = "stopping"
  /\ m_bExit' = [m_bExit EXCEPT ![stopped] = TRUE]
  /\ stopped' = stopped + 1
  /\ mgr' = IF stopped + 1 = TaskThreadNum THEN "stopped" ELSE mgr
  /\ UNCHANGED <<created, m_pNDNetService, pNDNetService,
                 m_recvMsgList, nOperatorDataCount, msg, pc>>

-----------------------------------------------------------------------------
(* The dispatch thread of the net service: onRecvMessage.                    *)

Bug_nSelect(m) == TaskThreads

nSelect(m) == {h % TaskThreadNum : h \in Hashes[ClientOf[m]]}

insertOperateData(m) ==
  /\ Alive
  /\ m_pNDNetService
  /\ \E i \in nSelect(m) :
       /\ Len(m_recvMsgList[i]) < QueueMax
       /\ m_recvMsgList' = [m_recvMsgList EXCEPT ![i] = Append(@, m)]
  /\ UNCHANGED <<ctlVars, pNDNetService, m_bExit, nOperatorDataCount, msg, pc>>

-----------------------------------------------------------------------------
(* A task thread.                                                            *)

Goto(i, label) == pc' = [pc EXCEPT ![i] = label]

run(i) ==
  /\ Alive
  /\ pc[i] = "run"
  /\ m_bExit' = [m_bExit EXCEPT ![i] = FALSE]
  /\ Goto(i, "enter")
  /\ UNCHANGED <<ctlVars, pNDNetService, m_recvMsgList, nOperatorDataCount, msg>>

Bug_enterDispose(i) ==
  /\ Alive
  /\ pc[i] = "enter"
  /\ pNDNetService' = IF pNDNetService # "unset" THEN pNDNetService
                      ELSE IF m_pNDNetService THEN "service" ELSE "NULL"
  /\ Goto(i, "dispose")
  /\ UNCHANGED <<ctlVars, m_bExit, m_recvMsgList, nOperatorDataCount, msg>>

(* Entering disposeOperateData: whichever thread is first initialises the     *)
(* function static, for all threads and for good.                            *)
enterDispose(i) ==
  /\ Alive
  /\ pc[i] = "enter"
  /\ pNDNetService' = IF pNDNetService # "unset" THEN pNDNetService
                      ELSE IF m_pNDNetService THEN "service" ELSE "NULL"
  /\ nOperatorDataCount' = [nOperatorDataCount EXCEPT ![i] = 0]
  /\ Goto(i, "dispose")
  /\ UNCHANGED <<ctlVars, m_bExit, m_recvMsgList, msg>>

Bug_disposeDone(i) ==
  /\ Alive
  /\ pc[i] = "dispose"
  /\ m_recvMsgList[i] = <<>>
  /\ Goto(i, "quit")
  /\ UNCHANGED <<ctlVars, pNDNetService, m_bExit, m_recvMsgList,
                 nOperatorDataCount, msg>>

(* The batch is over: BatchMax requests were handled, or none is left.        *)
disposeDone(i) ==
  /\ Alive
  /\ pc[i] = "dispose"
  /\ nOperatorDataCount[i] = BatchMax \/ m_recvMsgList[i] = <<>>
  /\ Goto(i, "quit")
  /\ UNCHANGED <<ctlVars, pNDNetService, m_bExit, m_recvMsgList,
                 nOperatorDataCount, msg>>

Bug_disposeTake(i) ==
  LET last == Len(m_recvMsgList[i]) IN
  /\ Alive
  /\ pc[i] = "dispose"
  /\ nOperatorDataCount[i] < BatchMax /\ m_recvMsgList[i] # <<>>
  /\ nOperatorDataCount' = [nOperatorDataCount EXCEPT ![i] = @ + 1]
  /\ msg' = [msg EXCEPT ![i] = m_recvMsgList[i][last]]
  /\ m_recvMsgList' = [m_recvMsgList EXCEPT ![i] = SubSeq(@, 1, last - 1)]
  /\ Goto(i, "process")
  /\ UNCHANGED <<ctlVars, pNDNetService, m_bExit>>

disposeTake(i) ==
  /\ Alive
  /\ pc[i] = "dispose"
  /\ nOperatorDataCount[i] < BatchMax /\ m_recvMsgList[i] # <<>>
  /\ nOperatorDataCount' = [nOperatorDataCount EXCEPT ![i] = @ + 1]
  /\ msg' = [msg EXCEPT ![i] = Head(m_recvMsgList[i])]
  /\ m_recvMsgList' = [m_recvMsgList EXCEPT ![i] = Tail(@)]
  /\ Goto(i, "process")
  /\ UNCHANGED <<ctlVars, pNDNetService, m_bExit>>

(* The callback has returned; its reply goes to the service captured on the   *)
(* first entry.  On NULL, sendMessage reads m_pImpl of a null object.         *)
reply(i) ==
  /\ ~crashed
  /\ pc[i] = "process"
  /\ IF pNDNetService = "NULL"
     THEN crashed' = TRUE /\ UNCHANGED pc
     ELSE UNCHANGED crashed /\ Goto(i, "free")
  /\ UNCHANGED <<ctlVars, pNDNetService, m_bExit, m_recvMsgList, nOperatorDataCount, msg>>

free(i) ==
  /\ Alive
  /\ pc[i] = "free"
  /\ msg' = [msg EXCEPT ![i] = NoMsg]
  /\ Goto(i, "dispose")
  /\ UNCHANGED <<ctlVars, pNDNetService, m_bExit, m_recvMsgList, nOperatorDataCount>>

(* Between two batches: leave, or sleep m_nSleepMSTime and go on.             *)
isQuitThread(i) ==
  /\ Alive
  /\ pc[i] = "quit"
  /\ Goto(i, IF m_bExit[i] THEN "exited" ELSE "enter")
  /\ UNCHANGED <<ctlVars, pNDNetService, m_bExit, m_recvMsgList,
                 nOperatorDataCount, msg>>

threadStep(i) == \/ run(i) \/ enterDispose(i) \/ disposeDone(i) \/ disposeTake(i)
                 \/ reply(i) \/ free(i) \/ isQuitThread(i)

Next ==
  \/ init \/ newNetService \/ stopAllTaskThread \/ stop
  \/ \E m \in Msgs : insertOperateData(m)
  \/ \E i \in TaskThreads : threadStep(i)

Spec == Init /\ [][Next]_vars

(* The scheduler runs every task thread, and lets a loop over the threads     *)
(* finish; nothing forces requests to come, or to stop coming.                *)
Fairness ==
  /\ \A i \in TaskThreads : WF_vars(threadStep(i))
  /\ WF_vars(init \/ newNetService \/ stop)

FairSpec == Spec /\ Fairness

-----------------------------------------------------------------------------
(* Properties                                                                *)

(* Every variable has its type.                                              *)
TypeOK ==
  /\ mgr \in {"init", "serving", "stopping", "stopped"}
  /\ created \in 0..TaskThreadNum /\ stopped \in 0..TaskThreadNum
  /\ m_pNDNetService \in BOOLEAN /\ crashed \in BOOLEAN
  /\ pNDNetService \in {"unset", "NULL", "service"}
  /\ m_bExit \in [TaskThreads -> BOOLEAN]
  /\ m_recvMsgList \in [TaskThreads -> Seq(Msgs)]
  /\ nOperatorDataCount \in [TaskThreads -> 0..BatchMax]
  /\ msg \in [TaskThreads -> Msgs \cup {NoMsg}]
  /\ pc \in [TaskThreads -> Running \cup {"new", "run", "exited"}]

(* A task thread leaves run() only when it was told to stop: the exit flag    *)
(* that the constructor sets never reaches isQuitThread (NDTaskThread.cpp:12, *)
(* 41, 48; the flag is written by two threads without a lock).               *)
ExitOnlyWhenStopped ==
  \A i \in TaskThreads : pc[i] = "exited" => i < stopped

(* A request in a thread's hand is the one that was first in its queue, and   *)
(* is answered before the next one: the task threads implement one FIFO queue *)
(* per thread (lines 80-81, 114-168).                                        *)
InHand(i) == IF pc[i] = "process" THEN <<msg[i]>> ELSE <<>>

PerThread == INSTANCE FifoQueues WITH
  Keys <- TaskThreads, waiting <- [i \in TaskThreads |-> InHand(i) \o m_recvMsgList[i]]
ThreadOrder == PerThread!Spec

(* A thread that is told to stop while it runs does stop, however fast new    *)
(* requests come in: the batch limit gets it back to the exit flag (lines     *)
(* 43-50, 104-112: "return beyond some number, so that a lot of data does not *)
(* keep the loop busy").                                                     *)
StopNoticed ==
  \A i \in TaskThreads :
    (m_bExit[i] /\ pc[i] \in Running) ~> (pc[i] = "exited" \/ crashed)

(* While the service runs, no thread lets its queue wait for ever (lines      *)
(* 43-54, 106-122).                                                          *)
QueueServed ==
  \A i \in TaskThreads :
    (mgr = "serving" /\ m_recvMsgList[i] # <<>>)
      ~> (pc[i] = "process" \/ mgr # "serving" \/ crashed)

(* ZMQService.h:15, "forwards the responses of the business code": no task    *)
(* thread answers through a service that does not exist.                     *)
ReplyHasService == ~crashed
=============================================================================
