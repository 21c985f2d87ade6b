------------------------- MODULE ZMQServiceImpl_proof -------------------------
(***************************************************************************)
(* Proofs about ZMQServiceImpl for any number of task threads and requests *)
(* and any capacity of the event pipe.  IInv is shown inductive in three   *)
(* parts: the types, the structure (who may be where, which sockets are    *)
(* open), and the bookkeeping of replies and wake-ups.                     *)
(***************************************************************************)
EXTENDS ZMQServiceImpl, FiniteSetTheorems, TLAPS

USE ServiceAssumption DEF Threads, NULL, Handles

(* Every action of Next, with the thread it belongs to: the case split that  *)
(* all three step proofs share.                                              *)
LEMMA NextCases ==
  ASSUME Next, NEW P,
         start => P, stop => P, stopJoin => P, stopClose => P,
         \A t \in {Ctl, Disp} : startBound(t) => P,
         \A t \in {Ctl, Disp} : startFailed(t) => P,
         \A t \in {Ctl, Disp} : startAbandon(t) => P,
         \A t \in Workers \cup {Ctl} : pushLock(t) => P,
         \A t \in Workers \cup {Ctl} : pushEvent(t) => P,
         dispatchCheck => P, dispatchRestart => P, dispatchPollFails => P,
         dispatchPoll => P, dispatchEvent => P, sendMessage => P,
         \A m \in Msgs : recvMessage(m) => P,
         \A m \in Msgs : clientRequest(m) => P,
         \A w \in Workers : \A m \in Msgs : Answer(w, m) => P
  PROVE  P
BY DEF Next, CtlStep, DispStep, WorkerStep

-----------------------------------------------------------------------------
LEMMA TypeInit == Init => TypeOK
<1> SUFFICES ASSUME Init PROVE TypeOK
  OBVIOUS
<1>1. /\ m_sendMsgList \in Seq(Msgs) /\ accepted \in Seq(Msgs) /\ sent \in Seq(Msgs)
      /\ inbox \in Seq(Msgs)
  BY DEF Init
<1>2. events \in [Handles -> 0..PipeCap]
  BY DEF Init
<1>3. pc \in [Threads -> Labels]
  BY DEF Init, Labels
<1>4. opens \in 0..MaxOpens /\ pollErrors \in 0..MaxPollErrors
  BY DEF Init
<1>5. revents \in [in : BOOLEAN, ev : BOOLEAN]
  BY DEF Init
<1>6. handle \in Handles \cup {NULL} /\ sendSock \in Handles \cup {NULL}
  BY DEF Init
<1>7. open \subseteq Handles /\ wired \subseteq Handles
      /\ requested \subseteq Msgs /\ delivered \subseteq Msgs
  BY DEF Init
<1>8. m_started \in BOOLEAN /\ occurException \in BOOLEAN
      /\ m_pZmqPushMutex \in Threads \cup {None}
  BY DEF Init
<1> QED
  BY <1>1, <1>2, <1>3, <1>4, <1>5, <1>6, <1>7, <1>8 DEF TypeOK

LEMMA TypeOpen == ASSUME TypeOK, NEW t \in {Ctl, Disp}, startOpen(t) PROVE TypeOK'
<1> USE DEF startOpen, Goto, ctlVars, pushVars, dispVars, msgVars
<1>1. opens' \in 0..MaxOpens /\ opens + 1 \in Handles
  BY DEF TypeOK
<1>2. handle' \in Handles \cup {NULL} /\ sendSock' \in Handles \cup {NULL}
  BY <1>1 DEF TypeOK
<1>3. open' \subseteq Handles /\ wired' \subseteq Handles
  BY <1>1 DEF TypeOK
<1>4. pc' \in [Threads -> Labels]
  BY DEF TypeOK, Labels
<1> QED
  BY <1>1, <1>2, <1>3, <1>4 DEF TypeOK

LEMMA TypeRunning == ASSUME TypeOK, NEW t \in {Ctl, Disp}, startRunning(t) PROVE TypeOK'
BY DEF TypeOK, startRunning, startReturn, Goto, Labels, ctlVars, pushVars, dispVars, msgVars

LEMMA TypeClose ==
  ASSUME TypeOK, closeHandle
  PROVE  /\ open' \subseteq Handles /\ handle' \in Handles \cup {NULL}
         /\ events' \in [Handles -> 0..PipeCap] /\ inbox' \in Seq(Msgs)
         /\ UNCHANGED <<m_started, opens, wired, m_pZmqPushMutex, sendSock>>
BY DEF TypeOK, closeHandle

LEMMA TypeStep == TypeOK /\ [Next]_vars => TypeOK'
<1> SUFFICES ASSUME TypeOK, Next PROVE TypeOK'
  BY DEF TypeOK, vars, ctlVars, pushVars, dispVars, msgVars
<1> USE DEF TypeOK, Labels, Goto, ctlVars, pushVars, dispVars, msgVars
<1>1. ASSUME start PROVE TypeOK'
  BY <1>1, TypeOpen, TypeRunning DEF start
<1>2. ASSUME stop PROVE TypeOK'
  BY <1>2 DEF stop
<1>3. ASSUME stopJoin PROVE TypeOK'
  BY <1>3 DEF stopJoin
<1>4. ASSUME stopClose PROVE TypeOK'
  BY <1>4, TypeClose DEF stopClose
<1>5. ASSUME NEW t \in {Ctl, Disp}, startBound(t) PROVE TypeOK'
  BY <1>5 DEF startBound
<1>6. ASSUME NEW t \in {Ctl, Disp}, startFailed(t) PROVE TypeOK'
  BY <1>6 DEF startFailed
<1>7. ASSUME NEW t \in {Ctl, Disp}, startAbandon(t) PROVE TypeOK'
  BY <1>7, TypeClose DEF startAbandon, startReturn
<1>8. ASSUME NEW t \in Workers \cup {Ctl}, pushLock(t) PROVE TypeOK'
  <2>1. m_pZmqPushMutex' \in Threads \cup {None} /\ sendSock' \in Handles \cup {NULL}
    BY <1>8 DEF pushLock
  <2>2. pc' \in [Threads -> Labels]
    BY <1>8 DEF pushLock
  <2> QED
    BY <1>8, <2>1, <2>2 DEF pushLock
<1>9. ASSUME NEW t \in Workers \cup {Ctl}, pushEvent(t) PROVE TypeOK'
  BY <1>9 DEF pushEvent
<1>10. ASSUME dispatchCheck PROVE TypeOK'
  BY <1>10 DEF dispatchCheck
<1>11. ASSUME dispatchRestart PROVE TypeOK'
  BY <1>11, TypeOpen, TypeRunning DEF dispatchRestart
<1>12. ASSUME dispatchPollFails PROVE TypeOK'
  BY <1>12 DEF dispatchPollFails
<1>13. ASSUME dispatchPoll PROVE TypeOK'
  BY <1>13 DEF dispatchPoll
<1>14. ASSUME dispatchEvent PROVE TypeOK'
  <2>1. events' \in [Handles -> 0..PipeCap]
    <3>1. CASE handle \in Handles
      BY <1>14, <3>1 DEF dispatchEvent
    <3>2. CASE handle \notin Handles
      BY <1>14, <3>2 DEF dispatchEvent
    <3> QED BY <3>1, <3>2
  <2> QED
    BY <1>14, <2>1 DEF dispatchEvent
<1>15. ASSUME sendMessage PROVE TypeOK'
  <2>1. sent' \in Seq(Msgs) /\ m_sendMsgList' \in Seq(Msgs)
    <3>1. CASE m_sendMsgList = <<>>
      BY <1>15, <3>1 DEF sendMessage
    <3>2. CASE m_sendMsgList # <<>>
      <4>1. Head(m_sendMsgList) \in Msgs /\ Tail(m_sendMsgList) \in Seq(Msgs)
        BY <3>2
      <4>2. Append(sent, Head(m_sendMsgList)) \in Seq(Msgs)
        BY <4>1
      <4> QED BY <1>15, <3>2, <4>1, <4>2 DEF sendMessage
    <3> QED BY <3>1, <3>2
  <2> QED
    BY <1>15, <2>1 DEF sendMessage
<1>16. ASSUME NEW m \in Msgs, recvMessage(m) PROVE TypeOK'
  BY <1>16 DEF recvMessage
<1>17. ASSUME NEW m \in Msgs, clientRequest(m) PROVE TypeOK'
  BY <1>17 DEF clientRequest
<1>18. ASSUME NEW w \in Workers, NEW m \in Msgs, Answer(w, m) PROVE TypeOK'
  BY <1>18 DEF Answer, sendMessageQueue
<1> HIDE DEF TypeOK
<1> QED
  BY <1>1, <1>2, <1>3, <1>4, <1>5, <1>6, <1>7, <1>8, <1>9, <1>10, <1>11,
     <1>12, <1>13, <1>14, <1>15, <1>16, <1>17, <1>18, NextCases

(* Every variable keeps its type.                                            *)
THEOREM TypeCorrect == Spec => []TypeOK
BY TypeInit, TypeStep, PTL DEF Spec

-----------------------------------------------------------------------------
LEMMA MutexStep == TypeOK /\ MutexInv /\ PhaseInv /\ [Next]_vars => MutexInv'
<1> SUFFICES ASSUME TypeOK /\ MutexInv /\ PhaseInv, Next PROVE MutexInv'
  BY DEF MutexInv, vars, ctlVars, pushVars, dispVars, msgVars
<1> USE DEF MutexInv, TypeOK, Goto, ctlVars, pushVars, dispVars, msgVars
<1>1. ASSUME start PROVE MutexInv'
  BY <1>1 DEF start, startRunning, startOpen, startReturn
<1>2. ASSUME stop PROVE MutexInv'
  BY <1>2 DEF stop
<1>3. ASSUME stopJoin PROVE MutexInv'
  BY <1>3 DEF stopJoin
<1>4. ASSUME stopClose PROVE MutexInv'
  BY <1>4 DEF stopClose, closeHandle
<1>5. ASSUME NEW t \in {Ctl, Disp}, startBound(t) PROVE MutexInv'
  <2>1. CASE pc[Disp] = "none"
    <3>1. pc[t] = "bind" /\ pc' = [pc EXCEPT ![t] = "idle", ![Disp] = "check"]
      BY <1>5, <2>1 DEF startBound
    <3>2. \A u \in Threads : pc'[u] = "push" <=> pc[u] = "push"
      BY <3>1, <2>1
    <3> QED BY <1>5, <3>2 DEF startBound
  <2>2. CASE pc[Disp] # "none"
    <3>1. pc[t] = "bind" /\ pc' = [pc EXCEPT ![Disp] = "terminate"]
      BY <1>5, <2>2 DEF startBound
    <3>2. pc[Disp] # "push"
      BY DEF PhaseInv, Loop
    <3>3. \A u \in Threads : pc'[u] = "push" <=> pc[u] = "push"
      BY <3>1, <3>2
    <3> QED BY <1>5, <3>3 DEF startBound
  <2> QED BY <2>1, <2>2
<1>6. ASSUME NEW t \in {Ctl, Disp}, startFailed(t) PROVE MutexInv'
  BY <1>6 DEF startFailed
<1>7. ASSUME NEW t \in {Ctl, Disp}, startAbandon(t) PROVE MutexInv'
  BY <1>7 DEF startAbandon, startReturn, closeHandle
<1>8. ASSUME NEW t \in Workers \cup {Ctl}, pushLock(t) PROVE MutexInv'
  BY <1>8 DEF pushLock
<1>9. ASSUME NEW t \in Workers \cup {Ctl}, pushEvent(t) PROVE MutexInv'
  BY <1>9 DEF pushEvent
<1>10. ASSUME dispatchCheck PROVE MutexInv'
  BY <1>10 DEF dispatchCheck
<1>11. ASSUME dispatchRestart PROVE MutexInv'
  BY <1>11 DEF dispatchRestart, startRunning, startOpen, startReturn
<1>12. ASSUME dispatchPollFails PROVE MutexInv'
  BY <1>12 DEF dispatchPollFails
<1>13. ASSUME dispatchPoll PROVE MutexInv'
  BY <1>13 DEF dispatchPoll
<1>14. ASSUME dispatchEvent PROVE MutexInv'
  BY <1>14 DEF dispatchEvent
<1>15. ASSUME sendMessage PROVE MutexInv'
  BY <1>15 DEF sendMessage
<1>16. ASSUME NEW m \in Msgs, recvMessage(m) PROVE MutexInv'
  BY <1>16 DEF recvMessage
<1>17. ASSUME NEW m \in Msgs, clientRequest(m) PROVE MutexInv'
  BY <1>17 DEF clientRequest
<1>18. ASSUME NEW w \in Workers, NEW m \in Msgs, Answer(w, m) PROVE MutexInv'
  BY <1>18 DEF Answer, sendMessageQueue
<1> HIDE DEF MutexInv
<1> QED
  BY <1>1, <1>2, <1>3, <1>4, <1>5, <1>6, <1>7, <1>8, <1>9,
     <1>10, <1>11, <1>12, <1>13, <1>14, <1>15, <1>16, <1>17, <1>18, NextCases

(* The dispatch thread's own start() never gets past zmq_bind.               *)
LEMMA OnlyCtlBinds ==
  ASSUME DispatchInv, NEW t \in {Ctl, Disp}, startBound(t)
  PROVE  t = Ctl
BY DEF DispatchInv, startBound

LEMMA PhaseStep ==
  TypeOK /\ MutexInv /\ PhaseInv /\ SocketInv /\ DispatchInv /\ [Next]_vars => PhaseInv'
<1> SUFFICES ASSUME TypeOK /\ MutexInv /\ PhaseInv /\ SocketInv /\ DispatchInv, Next PROVE PhaseInv'
  BY DEF PhaseInv, vars, ctlVars, pushVars, dispVars, msgVars
<1> USE DEF PhaseInv, TypeOK, Loop, Goto, ctlVars, pushVars, dispVars, msgVars
<1>1. ASSUME start PROVE PhaseInv'
  <2>1. CASE startRunning(Ctl)
    BY <2>1, <1>1 DEF start, startRunning, startReturn
  <2>2. CASE startOpen(Ctl)
    BY <2>2, <1>1 DEF start, startOpen
  <2> QED BY <1>1, <2>1, <2>2 DEF start
<1>2. ASSUME stop PROVE PhaseInv'
  BY <1>2 DEF stop
<1>3. ASSUME stopJoin PROVE PhaseInv'
  BY <1>3 DEF stopJoin
<1>4. ASSUME stopClose PROVE PhaseInv'
  BY <1>4 DEF stopClose, closeHandle
<1>5. ASSUME NEW t \in {Ctl, Disp}, startBound(t) PROVE PhaseInv'
  <2>1. t = Ctl
    BY <1>5, OnlyCtlBinds
  <2>2. pc[Disp] = "none"
    BY <1>5, <2>1 DEF startBound
  <2> QED BY <1>5, <2>1, <2>2 DEF startBound
<1>6. ASSUME NEW t \in {Ctl, Disp}, startFailed(t) PROVE PhaseInv'
  BY <1>6 DEF startFailed
<1>7. ASSUME NEW t \in {Ctl, Disp}, startAbandon(t) PROVE PhaseInv'
  BY <1>7 DEF startAbandon, startReturn, closeHandle
<1>8. ASSUME NEW t \in Workers \cup {Ctl}, pushLock(t) PROVE PhaseInv'
  BY <1>8 DEF pushLock
<1>9. ASSUME NEW t \in Workers \cup {Ctl}, pushEvent(t) PROVE PhaseInv'
  BY <1>9 DEF pushEvent
<1>10. ASSUME dispatchCheck PROVE PhaseInv'
  BY <1>10 DEF dispatchCheck
<1>11. ASSUME dispatchRestart PROVE PhaseInv'
  <2>1. CASE startRunning(Disp)
    BY <2>1, <1>11 DEF dispatchRestart, startRunning, startReturn
  <2>2. CASE startOpen(Disp)
    BY <2>2, <1>11 DEF dispatchRestart, startOpen
  <2> QED BY <1>11, <2>1, <2>2 DEF dispatchRestart
<1>12. ASSUME dispatchPollFails PROVE PhaseInv'
  BY <1>12 DEF dispatchPollFails
<1>13. ASSUME dispatchPoll PROVE PhaseInv'
  BY <1>13 DEF dispatchPoll
<1>14. ASSUME dispatchEvent PROVE PhaseInv'
  BY <1>14 DEF dispatchEvent
<1>15. ASSUME sendMessage PROVE PhaseInv'
  BY <1>15 DEF sendMessage
<1>16. ASSUME NEW m \in Msgs, recvMessage(m) PROVE PhaseInv'
  BY <1>16 DEF recvMessage
<1>17. ASSUME NEW m \in Msgs, clientRequest(m) PROVE PhaseInv'
  BY <1>17 DEF clientRequest
<1>18. ASSUME NEW w \in Workers, NEW m \in Msgs, Answer(w, m) PROVE PhaseInv'
  BY <1>18 DEF Answer, sendMessageQueue
<1> HIDE DEF PhaseInv, TypeOK
<1> QED
  BY <1>1, <1>2, <1>3, <1>4, <1>5, <1>6, <1>7, <1>8, <1>9,
     <1>10, <1>11, <1>12, <1>13, <1>14, <1>15, <1>16, <1>17, <1>18, NextCases

LEMMA SocketOpen ==
  ASSUME TypeOK, SocketInv, NEW t \in {Ctl, Disp}, startOpen(t)
  PROVE  SocketInv'
<1>1. opens \in Nat /\ opens' = opens + 1 /\ open' = open \cup {opens + 1}
  BY DEF startOpen, TypeOK
<1>2. open' \subseteq 1..opens'
  BY <1>1 DEF SocketInv
<1>3. handle' \in open'
  BY DEF startOpen
<1>4. m_pZmqPushMutex' = m_pZmqPushMutex /\ sendSock' = sendSock
  BY DEF startOpen, pushVars
<1> QED BY <1>1, <1>2, <1>3, <1>4 DEF SocketInv

LEMMA SocketStep ==
  TypeOK /\ MutexInv /\ PhaseInv /\ SocketInv /\ DispatchInv /\ [Next]_vars => SocketInv'
<1> SUFFICES ASSUME TypeOK /\ MutexInv /\ PhaseInv /\ SocketInv /\ DispatchInv, Next
             PROVE  SocketInv'
  BY DEF SocketInv, vars, ctlVars, pushVars, dispVars, msgVars
<1> USE DEF SocketInv, TypeOK, MutexInv, Goto, ctlVars, pushVars, dispVars, msgVars
<1>1. ASSUME start PROVE SocketInv'
  <2>1. CASE startRunning(Ctl)
    BY <2>1 DEF startRunning
  <2>2. CASE startOpen(Ctl)
    BY <2>2, SocketOpen
  <2> QED BY <1>1, <2>1, <2>2 DEF start
<1>2. ASSUME stop PROVE SocketInv'
  BY <1>2 DEF stop
<1>3. ASSUME stopJoin PROVE SocketInv'
  BY <1>3 DEF stopJoin
<1>4. ASSUME stopClose PROVE SocketInv'
  BY <1>4 DEF stopClose, closeHandle
<1>5. ASSUME NEW t \in {Ctl, Disp}, startBound(t) PROVE SocketInv'
  BY <1>5 DEF startBound
<1>6. ASSUME NEW t \in {Ctl, Disp}, startFailed(t) PROVE SocketInv'
  BY <1>6 DEF startFailed
<1>7. ASSUME NEW t \in {Ctl, Disp}, startAbandon(t) PROVE SocketInv'
  BY <1>7 DEF startAbandon, startReturn, closeHandle
<1>8. ASSUME NEW t \in Workers \cup {Ctl}, pushLock(t) PROVE SocketInv'
  BY <1>8 DEF pushLock
<1>9. ASSUME NEW t \in Workers \cup {Ctl}, pushEvent(t) PROVE SocketInv'
  BY <1>9 DEF pushEvent
<1>10. ASSUME dispatchCheck PROVE SocketInv'
  BY <1>10 DEF dispatchCheck
<1>11. ASSUME dispatchRestart PROVE SocketInv'
  <2>1. CASE startRunning(Disp)
    BY <2>1 DEF startRunning
  <2>2. CASE startOpen(Disp)
    BY <2>2, SocketOpen
  <2> QED BY <1>11, <2>1, <2>2 DEF dispatchRestart
<1>12. ASSUME dispatchPollFails PROVE SocketInv'
  BY <1>12 DEF dispatchPollFails
<1>13. ASSUME dispatchPoll PROVE SocketInv'
  BY <1>13 DEF dispatchPoll
<1>14. ASSUME dispatchEvent PROVE SocketInv'
  BY <1>14 DEF dispatchEvent
<1>15. ASSUME sendMessage PROVE SocketInv'
  BY <1>15 DEF sendMessage
<1>16. ASSUME NEW m \in Msgs, recvMessage(m) PROVE SocketInv'
  BY <1>16 DEF recvMessage
<1>17. ASSUME NEW m \in Msgs, clientRequest(m) PROVE SocketInv'
  BY <1>17 DEF clientRequest
<1>18. ASSUME NEW w \in Workers, NEW m \in Msgs, Answer(w, m) PROVE SocketInv'
  BY <1>18 DEF Answer, sendMessageQueue
<1> HIDE DEF SocketInv
<1> QED
  BY <1>1, <1>2, <1>3, <1>4, <1>5, <1>6, <1>7, <1>8, <1>9,
     <1>10, <1>11, <1>12, <1>13, <1>14, <1>15, <1>16, <1>17, <1>18, NextCases

LEMMA DispatchStep ==
  TypeOK /\ MutexInv /\ PhaseInv /\ SocketInv /\ DispatchInv /\ [Next]_vars => DispatchInv'
<1> SUFFICES ASSUME TypeOK /\ MutexInv /\ PhaseInv /\ SocketInv /\ DispatchInv, Next
             PROVE  DispatchInv'
  BY DEF DispatchInv, vars, ctlVars, pushVars, dispVars, msgVars
<1> USE DEF DispatchInv, TypeOK, PhaseInv, SocketInv, Loop, Goto,
           ctlVars, pushVars, dispVars, msgVars
<1>1. ASSUME start PROVE DispatchInv'
  BY <1>1 DEF start, startRunning, startOpen, startReturn
<1>2. ASSUME stop PROVE DispatchInv'
  BY <1>2 DEF stop
<1>3. ASSUME stopJoin PROVE DispatchInv'
  BY <1>3 DEF stopJoin
<1>4. ASSUME stopClose PROVE DispatchInv'
  BY <1>4 DEF stopClose, closeHandle
<1>5. ASSUME NEW t \in {Ctl, Disp}, startBound(t) PROVE DispatchInv'
  BY <1>5 DEF startBound
<1>6. ASSUME NEW t \in {Ctl, Disp}, startFailed(t) PROVE DispatchInv'
  BY <1>6 DEF startFailed
<1>7. ASSUME NEW t \in {Ctl, Disp}, startAbandon(t) PROVE DispatchInv'
  BY <1>7 DEF startAbandon, startReturn, closeHandle
<1>8. ASSUME NEW t \in Workers \cup {Ctl}, pushLock(t) PROVE DispatchInv'
  BY <1>8 DEF pushLock
<1>9. ASSUME NEW t \in Workers \cup {Ctl}, pushEvent(t) PROVE DispatchInv'
  BY <1>9 DEF pushEvent
<1>10. ASSUME dispatchCheck PROVE DispatchInv'
  BY <1>10 DEF dispatchCheck
<1>11. ASSUME dispatchRestart PROVE DispatchInv'
  BY <1>11 DEF dispatchRestart, startRunning, startOpen, startReturn
<1>12. ASSUME dispatchPollFails PROVE DispatchInv'
  BY <1>12 DEF dispatchPollFails
<1>13. ASSUME dispatchPoll PROVE DispatchInv'
  BY <1>13 DEF dispatchPoll
<1>14. ASSUME dispatchEvent PROVE DispatchInv'
  BY <1>14 DEF dispatchEvent
<1>15. ASSUME sendMessage PROVE DispatchInv'
  BY <1>15 DEF sendMessage
<1>16. ASSUME NEW m \in Msgs, recvMessage(m) PROVE DispatchInv'
  BY <1>16 DEF recvMessage
<1>17. ASSUME NEW m \in Msgs, clientRequest(m) PROVE DispatchInv'
  <2>1. inbox \in Seq(Msgs) /\ inbox' = Append(inbox, m)
    BY <1>17 DEF clientRequest
  <2>2. inbox' # <<>>
    BY <2>1
  <2> QED BY <1>17, <2>2 DEF clientRequest
<1>18. ASSUME NEW w \in Workers, NEW m \in Msgs, Answer(w, m) PROVE DispatchInv'
  BY <1>18 DEF Answer, sendMessageQueue
<1> HIDE DEF DispatchInv
<1> QED
  BY <1>1, <1>2, <1>3, <1>4, <1>5, <1>6, <1>7, <1>8, <1>9,
     <1>10, <1>11, <1>12, <1>13, <1>14, <1>15, <1>16, <1>17, <1>18, NextCases

-----------------------------------------------------------------------------
LEMMA FirstStep ==
  TypeOK /\ MutexInv /\ PhaseInv /\ SocketInv /\ DispatchInv /\ FirstInv /\ [Next]_vars => FirstInv'
<1> SUFFICES ASSUME TypeOK /\ MutexInv /\ PhaseInv /\ SocketInv /\ DispatchInv /\ FirstInv, Next
             PROVE  FirstInv'
  BY DEF FirstInv, vars, ctlVars, pushVars, dispVars, msgVars
<1> USE DEF FirstInv, TypeOK, MutexInv, PhaseInv, SocketInv, DispatchInv, Loop, Goto,
           ctlVars, pushVars, dispVars, msgVars
<1>1. ASSUME start PROVE FirstInv'
  BY <1>1 DEF start, startRunning, startOpen, startReturn
<1>2. ASSUME stop PROVE FirstInv'
  BY <1>2 DEF stop
<1>3. ASSUME stopJoin PROVE FirstInv'
  BY <1>3 DEF stopJoin
<1>4. ASSUME stopClose PROVE FirstInv'
  BY <1>4 DEF stopClose, closeHandle
<1>5. ASSUME NEW t \in {Ctl, Disp}, startBound(t) PROVE FirstInv'
  BY <1>5 DEF startBound
<1>6. ASSUME NEW t \in {Ctl, Disp}, startFailed(t) PROVE FirstInv'
  BY <1>6 DEF startFailed
<1>7. ASSUME NEW t \in {Ctl, Disp}, startAbandon(t) PROVE FirstInv'
  BY <1>7 DEF startAbandon, startReturn, closeHandle
<1>8. ASSUME NEW t \in Workers \cup {Ctl}, pushLock(t) PROVE FirstInv'
  BY <1>8 DEF pushLock
<1>9. ASSUME NEW t \in Workers \cup {Ctl}, pushEvent(t) PROVE FirstInv'
  BY <1>9 DEF pushEvent
<1>10. ASSUME dispatchCheck PROVE FirstInv'
  BY <1>10 DEF dispatchCheck
<1>11. ASSUME dispatchRestart PROVE FirstInv'
  BY <1>11 DEF dispatchRestart, startRunning, startOpen, startReturn
<1>12. ASSUME dispatchPollFails PROVE FirstInv'
  BY <1>12 DEF dispatchPollFails
<1>13. ASSUME dispatchPoll PROVE FirstInv'
  BY <1>13 DEF dispatchPoll
<1>14. ASSUME dispatchEvent PROVE FirstInv'
  BY <1>14 DEF dispatchEvent
<1>15. ASSUME sendMessage PROVE FirstInv'
  BY <1>15 DEF sendMessage
<1>16. ASSUME NEW m \in Msgs, recvMessage(m) PROVE FirstInv'
  BY <1>16 DEF recvMessage
<1>17. ASSUME NEW m \in Msgs, clientRequest(m) PROVE FirstInv'
  BY <1>17 DEF clientRequest
<1>18. ASSUME NEW w \in Workers, NEW m \in Msgs, Answer(w, m) PROVE FirstInv'
  BY <1>18 DEF Answer, sendMessageQueue
<1> HIDE DEF FirstInv
<1> QED
  BY <1>1, <1>2, <1>3, <1>4, <1>5, <1>6, <1>7, <1>8, <1>9,
     <1>10, <1>11, <1>12, <1>13, <1>14, <1>15, <1>16, <1>17, <1>18, NextCases

(* The sequence facts behind RepliesConserved.                               *)
LEMMA QueueOne ==
  ASSUME NEW s \in Seq(Msgs), NEW q \in Seq(Msgs), NEW m \in Msgs
  PROVE  Append(s \o q, m) = s \o Append(q, m)
OBVIOUS

LEMMA MoveHead ==
  ASSUME NEW S, NEW s \in Seq(S), NEW q \in Seq(S), q # <<>>
  PROVE  Append(s, Head(q)) \o Tail(q) = s \o q
OBVIOUS

LEMMA ConservedStep == TypeOK /\ RepliesConserved /\ [Next]_vars => RepliesConserved'
<1> SUFFICES ASSUME TypeOK /\ RepliesConserved, Next PROVE RepliesConserved'
  BY DEF RepliesConserved, vars, ctlVars, pushVars, dispVars, msgVars
<1> USE DEF RepliesConserved, Goto, ctlVars, pushVars, dispVars, msgVars
<1>1. ASSUME start PROVE RepliesConserved'
  BY <1>1 DEF start, startRunning, startOpen, startReturn
<1>2. ASSUME stop PROVE RepliesConserved'
  BY <1>2 DEF stop
<1>3. ASSUME stopJoin PROVE RepliesConserved'
  BY <1>3 DEF stopJoin
<1>4. ASSUME stopClose PROVE RepliesConserved'
  BY <1>4 DEF stopClose, closeHandle
<1>5. ASSUME NEW t \in {Ctl, Disp}, startBound(t) PROVE RepliesConserved'
  BY <1>5 DEF startBound
<1>6. ASSUME NEW t \in {Ctl, Disp}, startFailed(t) PROVE RepliesConserved'
  BY <1>6 DEF startFailed
<1>7. ASSUME NEW t \in {Ctl, Disp}, startAbandon(t) PROVE RepliesConserved'
  BY <1>7 DEF startAbandon, startReturn, closeHandle
<1>8. ASSUME NEW t \in Workers \cup {Ctl}, pushLock(t) PROVE RepliesConserved'
  BY <1>8 DEF pushLock
<1>9. ASSUME NEW t \in Workers \cup {Ctl}, pushEvent(t) PROVE RepliesConserved'
  BY <1>9 DEF pushEvent
<1>10. ASSUME dispatchCheck PROVE RepliesConserved'
  BY <1>10 DEF dispatchCheck
<1>11. ASSUME dispatchRestart PROVE RepliesConserved'
  BY <1>11 DEF dispatchRestart, startRunning, startOpen, startReturn
<1>12. ASSUME dispatchPollFails PROVE RepliesConserved'
  BY <1>12 DEF dispatchPollFails
<1>13. ASSUME dispatchPoll PROVE RepliesConserved'
  BY <1>13 DEF dispatchPoll
<1>14. ASSUME dispatchEvent PROVE RepliesConserved'
  BY <1>14 DEF dispatchEvent
<1>15. ASSUME sendMessage PROVE RepliesConserved'
  <2>1. CASE m_sendMsgList = <<>>
    BY <1>15, <2>1 DEF sendMessage
  <2>2. CASE m_sendMsgList # <<>>
    <3>1. sent \in Seq(Msgs) /\ m_sendMsgList \in Seq(Msgs)
      BY DEF TypeOK
    <3>2. sent' \o m_sendMsgList' = sent \o m_sendMsgList
      BY <1>15, <2>2, <3>1, MoveHead DEF sendMessage
    <3> QED BY <1>15, <3>2 DEF sendMessage
  <2> QED BY <2>1, <2>2
<1>16. ASSUME NEW m \in Msgs, recvMessage(m) PROVE RepliesConserved'
  BY <1>16 DEF recvMessage
<1>17. ASSUME NEW m \in Msgs, clientRequest(m) PROVE RepliesConserved'
  BY <1>17 DEF clientRequest
<1>18. ASSUME NEW w \in Workers, NEW m \in Msgs, Answer(w, m) PROVE RepliesConserved'
  <2>1. accepted' = Append(accepted, m) /\ m_sendMsgList' = Append(m_sendMsgList, m)
        /\ sent' = sent
    BY <1>18 DEF Answer, sendMessageQueue
  <2>2. sent \in Seq(Msgs) /\ m_sendMsgList \in Seq(Msgs)
    BY DEF TypeOK
  <2>3. Append(sent \o m_sendMsgList, m) = sent \o Append(m_sendMsgList, m)
    BY <2>2, QueueOne, Zenon
  <2> QED BY <2>1, <2>3
<1> HIDE DEF RepliesConserved
<1> QED
  BY <1>1, <1>2, <1>3, <1>4, <1>5, <1>6, <1>7, <1>8, <1>9,
     <1>10, <1>11, <1>12, <1>13, <1>14, <1>15, <1>16, <1>17, <1>18, NextCases

(* Counting the senders: a finite set, which grows or shrinks by one.         *)
LEMMA PushingFinite == IsFiniteSet(Pushing) /\ Cardinality(Pushing) \in Nat
BY FS_Subset, FS_CardinalityType DEF Pushing

(* A step that leaves the queue and the workers alone and takes no event.     *)
LEMMA WakeSame ==
  ASSUME TypeOK, WakeupCovered,
         m_sendMsgList' = m_sendMsgList,
         \A w \in Workers : pc'[w] \in {"lock", "push"} <=> pc[w] \in {"lock", "push"},
         pc[Disp] = "reply" => pc'[Disp] = "reply",
         opens' = 1 /\ handle' = 1 =>
           /\ opens = 1 /\ handle = 1
           /\ events'[1] \in Nat /\ events'[1] >= events[1]
  PROVE  WakeupCovered'
<1>1. Pushing' = Pushing
  BY DEF Pushing
<1>2. Cardinality(Pushing) \in Nat
  BY PushingFinite
<1>3. 1 \in Handles /\ events[1] \in Nat /\ Len(m_sendMsgList) \in Nat
  BY DEF TypeOK
<1> SUFFICES ASSUME opens' = 1, handle' = 1
             PROVE  Len(m_sendMsgList) <=
                      events'[1] + Cardinality(Pushing)
                        + (IF pc'[Disp] = "reply" THEN 1 ELSE 0)
  BY <1>1 DEF WakeupCovered
<1>4. Len(m_sendMsgList) <=
        events[1] + Cardinality(Pushing) + (IF pc[Disp] = "reply" THEN 1 ELSE 0)
  BY DEF WakeupCovered
<1> QED
  BY <1>2, <1>3, <1>4

(* The first open finds an empty queue; a later one is not about generation 1.*)
LEMMA WakeOpen ==
  ASSUME TypeOK, TypeOK', FirstInv, NEW t \in {Ctl, Disp}, startOpen(t)
  PROVE  WakeupCovered'
<1>1. CASE opens = 0
  <2>1. m_sendMsgList' = <<>>
    BY <1>1 DEF FirstInv, startOpen, msgVars
  <2>2. 1 \in Handles /\ events'[1] \in Nat
    BY DEF TypeOK
  <2>3. Pushing' \subseteq Workers
    BY DEF Pushing
  <2>4. Cardinality(Pushing') \in Nat
    BY <2>3, FS_Subset, FS_CardinalityType
  <2> QED
    BY <2>1, <2>2, <2>4 DEF WakeupCovered
<1>2. CASE opens # 0
  BY <1>2 DEF startOpen, WakeupCovered, TypeOK
<1> QED
  BY <1>1, <1>2

LEMMA WakeStep ==
  TypeOK /\ MutexInv /\ PhaseInv /\ SocketInv /\ DispatchInv /\ FirstInv
    /\ WakeupCovered /\ TypeOK' /\ [Next]_vars => WakeupCovered'
<1> SUFFICES ASSUME TypeOK /\ MutexInv /\ PhaseInv /\ SocketInv /\ DispatchInv /\ FirstInv
                  /\ WakeupCovered /\ TypeOK', Next
             PROVE  WakeupCovered'
  BY DEF WakeupCovered, Pushing, vars, ctlVars, pushVars, dispVars, msgVars
<1> USE DEF TypeOK, Goto, ctlVars, pushVars, dispVars, msgVars
<1>1. ASSUME start PROVE WakeupCovered'
  <2>1. CASE startRunning(Ctl)
    BY <2>1, <1>1, WakeSame DEF start, startRunning, startReturn
  <2>2. CASE startOpen(Ctl)
    BY <2>2, WakeOpen
  <2> QED BY <1>1, <2>1, <2>2 DEF start
<1>2. ASSUME stop PROVE WakeupCovered'
  BY <1>2, WakeSame DEF stop
<1>3. ASSUME stopJoin PROVE WakeupCovered'
  BY <1>3, WakeSame DEF stopJoin
<1>4. ASSUME stopClose PROVE WakeupCovered'
  BY <1>4 DEF stopClose, closeHandle, WakeupCovered
<1>5. ASSUME NEW t \in {Ctl, Disp}, startBound(t) PROVE WakeupCovered'
  <2>1. t = Ctl /\ pc[Disp] = "none"
    BY <1>5, OnlyCtlBinds DEF PhaseInv, startBound
  <2>2. \A w \in Workers : pc'[w] = pc[w]
    BY <1>5, <2>1 DEF startBound
  <2>3. opens' = opens /\ handle' = handle /\ events' = events /\ m_sendMsgList' = m_sendMsgList
    BY <1>5 DEF startBound
  <2>4. opens = 1 => events[1] \in Nat
    OBVIOUS
  <2> QED BY <2>1, <2>2, <2>3, <2>4, WakeSame
<1>6. ASSUME NEW t \in {Ctl, Disp}, startFailed(t) PROVE WakeupCovered'
  BY <1>6, WakeSame DEF startFailed
<1>7. ASSUME NEW t \in {Ctl, Disp}, startAbandon(t) PROVE WakeupCovered'
  BY <1>7 DEF startAbandon, closeHandle, WakeupCovered
<1>8. ASSUME NEW t \in Workers \cup {Ctl}, pushLock(t) PROVE WakeupCovered'
  BY <1>8, WakeSame DEF pushLock
<1>9. ASSUME NEW t \in Workers \cup {Ctl}, pushEvent(t) PROVE WakeupCovered'
  <2>1. CASE t = Ctl
    <3>1. opens' = opens /\ handle' = handle /\ m_sendMsgList' = m_sendMsgList
          /\ \A u \in Workers \cup {Disp} : pc'[u] = pc[u]
      BY <1>9, <2>1 DEF pushEvent
    <3>2. ASSUME opens = 1 PROVE events'[1] \in Nat /\ events'[1] >= events[1]
      <4>1. 1 \in Handles /\ events[1] \in Nat
        BY <3>2
      <4>2. events'[1] = events[1] \/ events'[1] = events[1] + 1
        BY <1>9, <4>1 DEF pushEvent
      <4> QED BY <4>1, <4>2
    <3> QED BY <3>1, <3>2, WakeSame
  <2>2. CASE t \in Workers
    <3> SUFFICES ASSUME opens = 1, handle = 1
                 PROVE  WakeupCovered'
      BY <1>9 DEF pushEvent, WakeupCovered
    <3>1. sendSock = 1 /\ events'[1] = events[1] + 1 /\ 1 \in Handles /\ events[1] \in Nat
      BY <1>9, <2>2 DEF pushEvent, FirstInv
    <3>2. Pushing' = Pushing \ {t} /\ t \in Pushing
      BY <1>9, <2>2 DEF pushEvent, Pushing
    <3>3. Cardinality(Pushing') = Cardinality(Pushing) - 1
      BY <3>2, PushingFinite, FS_RemoveElement
    <3>4. pc'[Disp] = pc[Disp] /\ m_sendMsgList' = m_sendMsgList
      BY <1>9, <2>2 DEF pushEvent
    <3> QED
      BY <3>1, <3>3, <3>4, PushingFinite DEF WakeupCovered
  <2> QED BY <2>1, <2>2
<1>10. ASSUME dispatchCheck PROVE WakeupCovered'
  BY <1>10, WakeSame DEF dispatchCheck
<1>11. ASSUME dispatchRestart PROVE WakeupCovered'
  <2>1. CASE startRunning(Disp)
    BY <2>1, <1>11, WakeSame DEF dispatchRestart, startRunning, startReturn
  <2>2. CASE startOpen(Disp)
    BY <2>2, WakeOpen
  <2> QED BY <1>11, <2>1, <2>2 DEF dispatchRestart
<1>12. ASSUME dispatchPollFails PROVE WakeupCovered'
  BY <1>12, WakeSame DEF dispatchPollFails
<1>13. ASSUME dispatchPoll PROVE WakeupCovered'
  BY <1>13, WakeSame DEF dispatchPoll
<1>14. ASSUME dispatchEvent PROVE WakeupCovered'
  <2> SUFFICES ASSUME opens = 1, handle = 1
               PROVE  WakeupCovered'
    BY <1>14 DEF dispatchEvent, WakeupCovered
  <2>1. events'[1] = events[1] - 1 /\ events[1] \in Nat
    BY <1>14 DEF dispatchEvent
  <2>2. pc[Disp] = "event" /\ pc'[Disp] = "reply" /\ m_sendMsgList' = m_sendMsgList
    BY <1>14 DEF dispatchEvent
  <2>3. Pushing' = Pushing
    BY <1>14 DEF dispatchEvent, Pushing
  <2> QED
    BY <2>1, <2>2, <2>3, PushingFinite DEF WakeupCovered
<1>15. ASSUME sendMessage PROVE WakeupCovered'
  <2> SUFFICES ASSUME opens = 1, handle = 1
               PROVE  WakeupCovered'
    BY <1>15 DEF sendMessage, WakeupCovered
  <2>1. events' = events /\ events[1] \in Nat
    <3>1. events' = events
      BY <1>15 DEF sendMessage
    <3>2. 1 \in Handles
      OBVIOUS
    <3> QED BY <3>1, <3>2
  <2>2. pc[Disp] = "reply" /\ pc'[Disp] = "check"
    BY <1>15 DEF sendMessage
  <2>3. Pushing' = Pushing
    BY <1>15 DEF sendMessage, Pushing
  <2>4. \/ Len(m_sendMsgList') = 0
        \/ Len(m_sendMsgList') = Len(m_sendMsgList) - 1 /\ Len(m_sendMsgList) \in Nat
    BY <1>15 DEF sendMessage
  <2> QED
    BY <2>1, <2>2, <2>3, <2>4, PushingFinite DEF WakeupCovered
<1>16. ASSUME NEW m \in Msgs, recvMessage(m) PROVE WakeupCovered'
  BY <1>16, WakeSame DEF recvMessage
<1>17. ASSUME NEW m \in Msgs, clientRequest(m) PROVE WakeupCovered'
  BY <1>17, WakeSame DEF clientRequest
<1>18. ASSUME NEW w \in Workers, NEW m \in Msgs, Answer(w, m) PROVE WakeupCovered'
  <2> SUFFICES ASSUME opens = 1, handle = 1
               PROVE  WakeupCovered'
    BY <1>18 DEF Answer, sendMessageQueue, WakeupCovered
  <2>1. events' = events /\ pc'[Disp] = pc[Disp] /\ 1 \in Handles /\ events[1] \in Nat
    BY <1>18 DEF Answer, sendMessageQueue
  <2>2. Len(m_sendMsgList') = Len(m_sendMsgList) + 1 /\ Len(m_sendMsgList) \in Nat
    BY <1>18 DEF Answer, sendMessageQueue
  <2>3. Pushing' = Pushing \cup {w} /\ w \notin Pushing
    BY <1>18 DEF Answer, sendMessageQueue, Pushing
  <2>4. Cardinality(Pushing') = Cardinality(Pushing) + 1
    BY <2>3, PushingFinite, FS_AddElement
  <2> QED
    BY <2>1, <2>2, <2>4, PushingFinite DEF WakeupCovered
<1> QED
  BY <1>1, <1>2, <1>3, <1>4, <1>5, <1>6, <1>7, <1>8, <1>9,
     <1>10, <1>11, <1>12, <1>13, <1>14, <1>15, <1>16, <1>17, <1>18, NextCases

-----------------------------------------------------------------------------
LEMMA InvInit == Init => IInv
<1> SUFFICES ASSUME Init PROVE IInv
  OBVIOUS
<1>1. MutexInv /\ PhaseInv /\ SocketInv /\ DispatchInv
  BY DEF Init, MutexInv, PhaseInv, SocketInv, DispatchInv, Loop
<1>2. FirstInv /\ RepliesConserved /\ WakeupCovered
  BY DEF Init, FirstInv, RepliesConserved, WakeupCovered
<1> QED
  BY <1>1, <1>2, TypeInit DEF IInv

LEMMA InvStep == IInv /\ [Next]_vars => IInv'
BY TypeStep, MutexStep, PhaseStep, SocketStep, DispatchStep, FirstStep, ConservedStep, WakeStep
   DEF IInv

(* IInv is inductive: it holds in every reachable state.                     *)
THEOREM Invariance == Spec => []IInv
BY InvInit, InvStep, PTL DEF Spec

(* zmq_send never runs on a closed socket.                                   *)
THEOREM PushOnOpen == Spec => []PushNeverOnClosed
<1>1. IInv => PushNeverOnClosed
  BY DEF IInv, MutexInv, SocketInv, PushNeverOnClosed
<1> QED
  BY Invariance, <1>1, PTL

(* The dispatch loop uses open and bound sockets only (lines 246-267).         *)
THEOREM DispatchSafe == Spec => []DispatchSocketsValid
<1>1. IInv => DispatchSocketsValid
  BY DEF IInv, PhaseInv, DispatchInv, Loop, DispatchSocketsValid
<1> QED
  BY Invariance, <1>1, PTL

(* Each blocking receive of the dispatch loop finds its message, whatever      *)
(* other threads did since zmq_poll (lines 251-267).                          *)
THEOREM ReceivesNeverBlock == Spec => []DispatchNeverBlocks
<1>1. IInv => DispatchNeverBlocks
  BY DEF IInv, DispatchInv, DispatchNeverBlocks
<1> QED
  BY Invariance, <1>1, PTL

(* m_dispatchThread is never assigned while it is joinable, not even by the    *)
(* thread's own start() after a failed poll (lines 69-74, 92, 242).           *)
THEOREM NeverTerminates == Spec => []NoTerminate
<1>1. IInv => NoTerminate
  BY DEF IInv, PhaseInv, Loop, NoTerminate
<1> QED
  BY Invariance, <1>1, PTL

(* Replies are conserved, in order.                                          *)
THEOREM RepliesInOrder == Spec => []RepliesConserved
<1>1. IInv => RepliesConserved
  BY DEF IInv
<1> QED
  BY Invariance, <1>1, PTL

(* No wake-up is lost.                                                       *)
THEOREM NoLostWakeup == Spec => []WakeupCovered
<1>1. IInv => WakeupCovered
  BY DEF IInv
<1> QED
  BY Invariance, <1>1, PTL

(* Once stop() has returned nothing is sent, and onRecvMessage is not called:  *)
(* the dispatch thread is gone.                                              *)
THEOREM Silence == Spec => SilentAfterStop
<1>1. IInv /\ [Next]_vars =>
        [pc[Ctl] = "idle" /\ ~m_started => UNCHANGED <<sent, delivered>>]_vars
  <2> SUFFICES ASSUME IInv, Next, pc[Ctl] = "idle", ~m_started
               PROVE  UNCHANGED <<sent, delivered>>
    OBVIOUS
  <2>1. pc[Disp] = "none"
    BY DEF IInv, PhaseInv
  <2> DEFINE Silent == UNCHANGED <<sent, delivered>>
  <2> USE DEF ctlVars, pushVars, dispVars, msgVars
  <2>2. start => Silent
    BY DEF start, startRunning, startOpen
  <2>3. stop \/ stopJoin \/ stopClose => Silent
    BY DEF stop, stopJoin, stopClose
  <2>4. \A t \in {Ctl, Disp} : startBound(t) \/ startFailed(t) \/ startAbandon(t) => Silent
    BY DEF startBound, startFailed, startAbandon
  <2>5. \A t \in Workers \cup {Ctl} : pushLock(t) \/ pushEvent(t) => Silent
    BY DEF pushLock, pushEvent
  <2>6. ~(dispatchCheck \/ dispatchRestart \/ dispatchPollFails \/ dispatchPoll
            \/ dispatchEvent \/ sendMessage \/ \E m \in Msgs : recvMessage(m))
    BY <2>1 DEF dispatchCheck, dispatchRestart, dispatchPollFails, dispatchPoll,
                dispatchEvent, sendMessage, recvMessage
  <2>7. \A m \in Msgs : clientRequest(m) \/ (\E w \in Workers : Answer(w, m)) => Silent
    BY DEF clientRequest, Answer, sendMessageQueue
  <2> QED
    BY <2>2, <2>3, <2>4, <2>5, <2>6, <2>7, NextCases
<1> QED
  BY Invariance, <1>1, PTL DEF Spec, SilentAfterStop
=============================================================================
