---------------------- MODULE NDTaskThreadManager_proof ----------------------
(***************************************************************************)
(* Proofs about NDTaskThreadManager for any number of task threads, any    *)
(* batch limit and any queue bound: types, that no thread ends unless told *)
(* to stop, and that every thread implements a FIFO queue.                 *)
(***************************************************************************)
EXTENDS NDTaskThreadManager, TLAPS

LEMMA NextCases ==
  ASSUME Next, NEW P,
         init => P, newNetService => P, stopAllTaskThread => P, stop => P,
         \A m \in Msgs : insertOperateData(m) => P,
         \A i \in TaskThreads : run(i) => P,
         \A i \in TaskThreads : enterDispose(i) => P,
         \A i \in TaskThreads : disposeDone(i) => P,
         \A i \in TaskThreads : disposeTake(i) => P,
         \A i \in TaskThreads : reply(i) => P,
         \A i \in TaskThreads : free(i) => P,
         \A i \in TaskThreads : isQuitThread(i) => P
  PROVE  P
BY DEF Next, threadStep

(* The type invariant needs to know that stopAllTaskThread is not past the    *)
(* end of the vector while it is at work; the order, that a thread with a     *)
(* request in hand has a real one and that init() starts each thread once.   *)
TypeInv == /\ TypeOK
           /\ mgr = "stopping" => stopped < TaskThreadNum
           /\ mgr \in {"init", "serving"} => stopped = 0
           /\ \A i \in TaskThreads : pc[i] = "process" => msg[i] \in Msgs
           /\ \A i \in TaskThreads : i >= created => pc[i] = "new"

(* The flag that the constructor set is gone before the loop is entered, so   *)
(* a running thread that finds it set has been told to stop.                 *)
ExitInv == /\ \A i \in TaskThreads : m_bExit[i] /\ pc[i] \in Running => i < stopped
           /\ ExitOnlyWhenStopped

LEMMA TypeInit == Init => TypeInv
<1> SUFFICES ASSUME Init PROVE TypeInv
  OBVIOUS
<1> USE TaskAssumption DEF Init
<1>1. m_recvMsgList \in [TaskThreads -> Seq(Msgs)]
  OBVIOUS
<1>2. created \in 0..TaskThreadNum /\ stopped \in 0..TaskThreadNum /\ stopped < TaskThreadNum
  OBVIOUS
<1>3. nOperatorDataCount \in [TaskThreads -> 0..BatchMax]
  OBVIOUS
<1>4. /\ m_bExit \in [TaskThreads -> BOOLEAN]
      /\ msg \in [TaskThreads -> Msgs \cup {NoMsg}]
      /\ pc \in [TaskThreads -> Running \cup {"new", "run", "exited"}]
      /\ \A i \in TaskThreads : pc[i] = "new"
  BY DEF Running
<1> QED
  BY <1>1, <1>2, <1>3, <1>4 DEF TypeInv, TypeOK

LEMMA TypeStep == TypeInv /\ [Next]_vars => TypeInv'
<1> SUFFICES ASSUME TypeInv, Next PROVE TypeInv'
  BY DEF TypeInv, TypeOK, vars, ctlVars, threadVars
<1> USE TaskAssumption DEF TypeInv, TypeOK, TaskThreads, Running, Alive, Goto, ctlVars, threadVars
<1>1. ASSUME init PROVE TypeInv'
  BY <1>1 DEF init
<1>2. ASSUME newNetService PROVE TypeInv'
  BY <1>2 DEF newNetService
<1>3. ASSUME stopAllTaskThread PROVE TypeInv'
  BY <1>3 DEF stopAllTaskThread
<1>4. ASSUME stop PROVE TypeInv'
  BY <1>4 DEF stop
<1>5. ASSUME NEW m \in Msgs, insertOperateData(m) PROVE TypeInv'
  <2> HIDE DEF TypeInv, TypeOK
  <2>1. PICK i \in nSelect(m) : m_recvMsgList' = [m_recvMsgList EXCEPT ![i] = Append(@, m)]
    BY <1>5 DEF insertOperateData
  <2>2. UNCHANGED <<mgr, created, stopped, m_pNDNetService, crashed, pNDNetService,
                  m_bExit, nOperatorDataCount, msg, pc>>
    BY <1>5 DEF insertOperateData
  <2>3. Append(m_recvMsgList[i], m) \in Seq(Msgs) \/ i \notin TaskThreads
    BY DEF TypeInv, TypeOK
  <2>4. m_recvMsgList' \in [TaskThreads -> Seq(Msgs)]
    BY <2>1, <2>3 DEF TypeInv, TypeOK
  <2> QED
    BY <2>2, <2>4 DEF TypeInv, TypeOK
<1>6. ASSUME NEW i \in TaskThreads, run(i) PROVE TypeInv'
  BY <1>6 DEF run
<1>7. ASSUME NEW i \in TaskThreads, enterDispose(i) PROVE TypeInv'
  BY <1>7 DEF enterDispose
<1>8. ASSUME NEW i \in TaskThreads, disposeDone(i) PROVE TypeInv'
  BY <1>8 DEF disposeDone
<1>9. ASSUME NEW i \in TaskThreads, disposeTake(i) PROVE TypeInv'
  <2> HIDE DEF TypeInv, TypeOK, Running
  <2>1. /\ m_recvMsgList[i] \in Seq(Msgs) /\ m_recvMsgList[i] # <<>>
        /\ nOperatorDataCount[i] \in 0..BatchMax /\ nOperatorDataCount[i] < BatchMax
        /\ pc[i] = "dispose"
    BY <1>9 DEF disposeTake, TypeInv, TypeOK
  <2>2. /\ msg' = [msg EXCEPT ![i] = Head(m_recvMsgList[i])]
        /\ m_recvMsgList' = [m_recvMsgList EXCEPT ![i] = Tail(m_recvMsgList[i])]
        /\ nOperatorDataCount' = [nOperatorDataCount EXCEPT ![i] = nOperatorDataCount[i] + 1]
        /\ pc' = [pc EXCEPT ![i] = "process"]
        /\ UNCHANGED <<mgr, created, stopped, m_pNDNetService, crashed, pNDNetService, m_bExit>>
    BY <1>9 DEF disposeTake
  <2>3. Head(m_recvMsgList[i]) \in Msgs /\ Tail(m_recvMsgList[i]) \in Seq(Msgs)
    BY <2>1
  <2>4. /\ msg' \in [TaskThreads -> Msgs \cup {NoMsg}]
        /\ m_recvMsgList' \in [TaskThreads -> Seq(Msgs)]
    BY <2>2, <2>3 DEF TypeInv, TypeOK
  <2>5. nOperatorDataCount' \in [TaskThreads -> 0..BatchMax]
    BY <2>1, <2>2 DEF TypeInv, TypeOK
  <2>6. pc' \in [TaskThreads -> Running \cup {"new", "run", "exited"}]
    BY <2>2 DEF TypeInv, TypeOK, Running
  <2>7. \A j \in TaskThreads : pc'[j] = "process" => msg'[j] \in Msgs
    BY <2>2, <2>3 DEF TypeInv, TypeOK
  <2>8. \A j \in TaskThreads : j >= created => pc'[j] = "new"
    BY <2>1, <2>2 DEF TypeInv, TypeOK
  <2> QED
    BY <2>2, <2>4, <2>5, <2>6, <2>7, <2>8 DEF TypeInv, TypeOK
<1>10. ASSUME NEW i \in TaskThreads, reply(i) PROVE TypeInv'
  BY <1>10 DEF reply
<1>11. ASSUME NEW i \in TaskThreads, free(i) PROVE TypeInv'
  BY <1>11 DEF free
<1>12. ASSUME NEW i \in TaskThreads, isQuitThread(i) PROVE TypeInv'
  BY <1>12 DEF isQuitThread
<1> HIDE DEF TypeInv
<1> QED
  BY <1>1, <1>2, <1>3, <1>4, <1>5, <1>6, <1>7, <1>8, <1>9, <1>10, <1>11, <1>12, NextCases

LEMMA TypeInvariance == Spec => []TypeInv
BY TypeInit, TypeStep, PTL DEF Spec

(* Every variable keeps its type.                                            *)
THEOREM TypeCorrect == Spec => []TypeOK
<1>1. TypeInv => TypeOK
  BY DEF TypeInv
<1> QED
  BY TypeInvariance, <1>1, PTL

-----------------------------------------------------------------------------
LEMMA ExitStep == TypeInv /\ ExitInv /\ [Next]_vars => ExitInv'
<1> SUFFICES ASSUME TypeInv, ExitInv, Next PROVE ExitInv'
  BY DEF ExitInv, ExitOnlyWhenStopped, vars, ctlVars, threadVars
<1> USE TaskAssumption DEF ExitInv, ExitOnlyWhenStopped, TypeInv, TypeOK, TaskThreads, Running,
                          Alive, Goto, ctlVars, threadVars
<1>1. ASSUME init PROVE ExitInv'
  BY <1>1 DEF init
<1>2. ASSUME newNetService PROVE ExitInv'
  BY <1>2 DEF newNetService
<1>3. ASSUME stopAllTaskThread PROVE ExitInv'
  BY <1>3 DEF stopAllTaskThread
<1>4. ASSUME stop PROVE ExitInv'
  BY <1>4 DEF stop
<1>5. ASSUME NEW m \in Msgs, insertOperateData(m) PROVE ExitInv'
  BY <1>5 DEF insertOperateData, nSelect
<1>6. ASSUME NEW i \in TaskThreads, run(i) PROVE ExitInv'
  BY <1>6 DEF run
<1>7. ASSUME NEW i \in TaskThreads, enterDispose(i) PROVE ExitInv'
  BY <1>7 DEF enterDispose
<1>8. ASSUME NEW i \in TaskThreads, disposeDone(i) PROVE ExitInv'
  BY <1>8 DEF disposeDone
<1>9. ASSUME NEW i \in TaskThreads, disposeTake(i) PROVE ExitInv'
  BY <1>9 DEF disposeTake
<1>10. ASSUME NEW i \in TaskThreads, reply(i) PROVE ExitInv'
  BY <1>10 DEF reply
<1>11. ASSUME NEW i \in TaskThreads, free(i) PROVE ExitInv'
  BY <1>11 DEF free
<1>12. ASSUME NEW i \in TaskThreads, isQuitThread(i) PROVE ExitInv'
  BY <1>12 DEF isQuitThread
<1> HIDE DEF ExitInv
<1> QED
  BY <1>1, <1>2, <1>3, <1>4, <1>5, <1>6, <1>7, <1>8, <1>9, <1>10, <1>11, <1>12, NextCases

(* No task thread ends unless it was told to.                                *)
THEOREM ExitSafe == Spec => []ExitOnlyWhenStopped
<1>1. Init => ExitInv
  BY DEF Init, ExitInv, ExitOnlyWhenStopped, Running
<1>2. ExitInv => ExitOnlyWhenStopped
  BY DEF ExitInv
<1> QED
  BY <1>1, <1>2, TypeInvariance, ExitStep, PTL DEF Spec

-----------------------------------------------------------------------------
(* The refinement: each step of a task thread is a step of its queue.        *)

Waiting == [i \in TaskThreads |-> InHand(i) \o m_recvMsgList[i]]

(* Steps that move no request, seen from the queues.                         *)
LEMMA Unmoved ==
  ASSUME m_recvMsgList' = m_recvMsgList, msg' = msg,
         \A i \in TaskThreads : pc'[i] = "process" <=> pc[i] = "process"
  PROVE  Waiting' = Waiting
BY DEF Waiting, InHand

LEMMA MovedInto ==
  ASSUME TypeInv, NEW m \in Msgs, NEW i \in TaskThreads,
         m_recvMsgList' = [m_recvMsgList EXCEPT ![i] = Append(@, m)],
         msg' = msg, pc' = pc
  PROVE  Waiting' = [Waiting EXCEPT ![i] = Append(@, m)]
<1> USE DEF TypeInv, TypeOK
<1>1. \A j \in TaskThreads : InHand(j) \in Seq(Msgs) /\ InHand(j)' = InHand(j)
  BY DEF InHand
<1>2. m_recvMsgList[i] \in Seq(Msgs)
  OBVIOUS
<1>3. InHand(i) \o Append(m_recvMsgList[i], m) = Append(InHand(i) \o m_recvMsgList[i], m)
  BY <1>1, <1>2
<1>4. m_recvMsgList'[i] = Append(m_recvMsgList[i], m)
      /\ \A j \in TaskThreads \ {i} : m_recvMsgList'[j] = m_recvMsgList[j]
  OBVIOUS
<1> QED
  BY <1>1, <1>3, <1>4 DEF Waiting

LEMMA Taken ==
  ASSUME TypeInv, NEW i \in TaskThreads, disposeTake(i)
  PROVE  Waiting' = Waiting
<1> USE DEF TypeInv, TypeOK, disposeTake, Goto
<1>1. ASSUME NEW j \in TaskThreads, j # i
      PROVE  InHand(j)' = InHand(j) /\ m_recvMsgList'[j] = m_recvMsgList[j]
  BY <1>1 DEF InHand
<1>2. InHand(i) = <<>> /\ InHand(i)' = <<Head(m_recvMsgList[i])>>
      /\ m_recvMsgList'[i] = Tail(m_recvMsgList[i])
  BY DEF InHand
<1>3. m_recvMsgList[i] \in Seq(Msgs) /\ m_recvMsgList[i] # <<>>
  OBVIOUS
<1>4. <<Head(m_recvMsgList[i])>> \o Tail(m_recvMsgList[i]) = <<>> \o m_recvMsgList[i]
  BY <1>3
<1> QED
  BY <1>1, <1>2, <1>4 DEF Waiting

LEMMA Answered ==
  ASSUME TypeInv, NEW i \in TaskThreads, reply(i), pc' # pc
  PROVE  PerThread!Get(i)
<1> USE DEF TypeInv, TypeOK, reply, Goto
<1>1. ASSUME NEW j \in TaskThreads, j # i
      PROVE  InHand(j)' = InHand(j) /\ m_recvMsgList'[j] = m_recvMsgList[j]
  BY <1>1 DEF InHand, threadVars
<1>2. InHand(i) = <<msg[i]>> /\ InHand(i)' = <<>> /\ m_recvMsgList' = m_recvMsgList
  BY DEF InHand
<1>3. m_recvMsgList[i] \in Seq(Msgs) /\ msg[i] \in Msgs
  OBVIOUS
<1>4. /\ <<msg[i]>> \o m_recvMsgList[i] # <<>>
      /\ Tail(<<msg[i]>> \o m_recvMsgList[i]) = <<>> \o m_recvMsgList[i]
  BY <1>3
<1>5. Waiting' = [Waiting EXCEPT ![i] = Tail(@)]
  BY <1>1, <1>2, <1>4 DEF Waiting
<1> QED
  BY <1>2, <1>4, <1>5 DEF PerThread!Get, Waiting

LEMMA OrderStep == TypeInv /\ [Next]_vars => [PerThread!Next]_Waiting
<1> DEFINE P == [PerThread!Next]_Waiting
<1> SUFFICES ASSUME TypeInv, Next PROVE P
  BY DEF Waiting, InHand, vars, ctlVars, threadVars
<1> USE DEF Alive, Goto, ctlVars, threadVars
<1>1. Waiting' = Waiting => P
  OBVIOUS
<1>2. init => P
  <2> SUFFICES ASSUME init PROVE Waiting' = Waiting
    BY <1>1
  <2> QED
    <3>1. created \in TaskThreads /\ pc[created] = "new"
      BY TaskAssumption DEF init, TypeInv, TypeOK, TaskThreads
    <3>2. \A i \in TaskThreads : pc'[i] = "process" <=> pc[i] = "process"
      BY <3>1 DEF init, TypeInv, TypeOK
    <3> QED BY <3>2, Unmoved DEF init
<1>3. newNetService \/ stopAllTaskThread \/ stop => P
  BY <1>1, Unmoved DEF newNetService, stopAllTaskThread, stop
<1>4. ASSUME NEW m \in Msgs, insertOperateData(m) PROVE P
  <2>1. PICK i \in nSelect(m) : m_recvMsgList' = [m_recvMsgList EXCEPT ![i] = Append(@, m)]
    BY <1>4 DEF insertOperateData
  <2>2. i \in TaskThreads
    BY TaskAssumption DEF nSelect, TaskThreads
  <2>3. PerThread!Put(i, m)
    BY <1>4, <2>1, <2>2, MovedInto DEF insertOperateData, PerThread!Put, Waiting
  <2> QED
    BY <2>2, <2>3 DEF PerThread!Next
<1>5. ASSUME NEW i \in TaskThreads,
             run(i) \/ enterDispose(i) \/ disposeDone(i) \/ isQuitThread(i)
      PROVE  P
  BY <1>1, <1>5, Unmoved
     DEF run, enterDispose, disposeDone, isQuitThread, TypeInv, TypeOK
<1>6. ASSUME NEW i \in TaskThreads, disposeTake(i) PROVE P
  BY <1>1, <1>6, Taken
<1>7. ASSUME NEW i \in TaskThreads, reply(i) PROVE P
  <2>1. CASE pc' = pc
    BY <1>1, <1>7, <2>1, Unmoved DEF reply
  <2>2. CASE pc' # pc
    BY <1>7, <2>2, Answered DEF PerThread!Next
  <2> QED BY <2>1, <2>2
<1>8. ASSUME NEW i \in TaskThreads, free(i) PROVE P
  <2>1. m_recvMsgList' = m_recvMsgList /\ \A j \in TaskThreads : InHand(j)' = InHand(j)
    BY <1>8 DEF free, InHand, TypeInv, TypeOK
  <2> QED
    BY <1>1, <2>1 DEF Waiting
<1> QED
  BY <1>2, <1>3, <1>4, <1>5, <1>6, <1>7, <1>8, NextCases

(* Every task thread implements a FIFO queue of requests.                    *)
THEOREM ThreadsImplementQueues == Spec => ThreadOrder
<1>1. Init => PerThread!Init
  BY DEF Init, PerThread!Init, InHand
<1> QED
  BY <1>1, TypeInvariance, OrderStep, PTL DEF Spec, ThreadOrder, PerThread!Spec, Waiting
=============================================================================
