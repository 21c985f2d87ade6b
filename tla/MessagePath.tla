------------------------------ MODULE MessagePath ------------------------------
(***************************************************************************)
(* The running program, from main(): NDPluginManagerGlobal::init() creates *)
(* the task threads and then the net service, loop() never returns.  A     *)
(* request travels from the ROUTER through the dispatch thread to a task   *)
(* thread, its reply back through m_sendMsgList and the event pipe.        *)
(*                                                                         *)
(* NDTaskThreadManager and ZMQServiceImpl are composed: recvMessage calls  *)
(* insertOperateData, and the reply of a task thread is sendMessage of the *)
(* service, in which that thread is a worker.                              *)
(***************************************************************************)
EXTENDS Naturals, FiniteSets, SequencesExt

CONSTANTS
  TaskThreadNum, BatchMax, QueueMax, Msgs, NoMsg, Clients, ClientOf, Hashes,
  Ctl,            \* the thread that runs main()
  Disp, None, PipeCap, MaxOpens, MaxPollErrors

VARIABLES
  mgr, created, stopped, m_pNDNetService, pNDNetService, crashed,
  m_bExit, m_recvMsgList, nOperatorDataCount, msg, taskPc,
  m_started, m_sendMsgList, m_pZmqPushMutex, handle, opens, open, wired, events,
  sendSock, occurException, revents, pollErrors, zmqPc,
  requested, inbox, delivered, accepted, sent

T == INSTANCE NDTaskThreadManager WITH pc <- taskPc
Z == INSTANCE ZMQServiceImpl WITH Workers <- T!TaskThreads, pc <- zmqPc

(* What the two parts assume of their parameters; and as a request is sent at *)
(* most once here, all of them fit in any one queue: QueueMax holds nothing   *)
(* back.  MaxOpens keeps one generation of sockets for start().              *)
ASSUME PathAssumption ==
  /\ T!TaskAssumption
  /\ Z!ServiceAssumption
  /\ Cardinality(Msgs) <= QueueMax
  /\ MaxOpens > 1

taskVars == <<mgr, created, stopped, m_pNDNetService, pNDNetService, crashed,
              m_bExit, m_recvMsgList, nOperatorDataCount, msg, taskPc>>
zmqVars  == <<m_started, m_sendMsgList, m_pZmqPushMutex, handle, opens, open, wired,
              events, sendSock, occurException, revents, pollErrors, zmqPc,
              requested, inbox, delivered, accepted, sent>>
vars     == <<taskVars, zmqVars>>

Init == T!Init /\ Z!Init

-----------------------------------------------------------------------------
(* main(): init() runs to its end, then loop().                              *)

InTasks == UNCHANGED zmqVars
InService == ~crashed /\ UNCHANGED taskVars

startTaskThread == T!init /\ InTasks
newNetService   == T!newNetService /\ InTasks
startService    == m_pNDNetService /\ opens = 0 /\ Z!start /\ InService

mainStep == \/ startTaskThread \/ newNetService \/ startService
            \/ InService /\ (Z!startBound(Ctl) \/ Z!startFailed(Ctl) \/ Z!startAbandon(Ctl))

-----------------------------------------------------------------------------
(* The dispatch thread: onRecvMessage is called from recvMessage.            *)

onRecvMessage(m) == Z!recvMessage(m) /\ T!insertOperateData(m)

dispatchStep ==
  \/ InService /\ (Z!dispatchCheck \/ Z!dispatchRestart \/ Z!dispatchPoll)
  \/ InService /\ (Z!dispatchEvent \/ Z!sendMessage)
  \/ \E m \in Msgs : onRecvMessage(m)

-----------------------------------------------------------------------------
(* A task thread: sendMessage of the service is part of its reply.           *)

Bug_replyMessage(i) == T!reply(i) /\ UNCHANGED zmqVars

Bug_replyTwice(i) ==
  /\ ~crashed
  /\ taskPc[i] = "process" /\ pNDNetService = "service"
  /\ Z!sendMessageQueue(i, msg[i])
  /\ UNCHANGED taskVars

replyMessage(i) ==
  /\ T!reply(i)
  /\ IF crashed' THEN UNCHANGED zmqVars ELSE Z!sendMessageQueue(i, msg[i])

(* The rest of disposeOperateData runs when sendMessage has returned.        *)
returned(i) == zmqPc[i] = "idle" /\ T!free(i) /\ InTasks

taskStep(i) ==
  \/ InTasks /\ (T!run(i) \/ T!enterDispose(i) \/ T!isQuitThread(i))
  \/ InTasks /\ (T!disposeDone(i) \/ T!disposeTake(i))
  \/ replyMessage(i)
  \/ InService /\ (Z!pushLock(i) \/ Z!pushEvent(i))
  \/ returned(i)

-----------------------------------------------------------------------------
Next ==
  \/ mainStep
  \/ dispatchStep
  \/ InService /\ Z!dispatchPollFails
  \/ \E i \in T!TaskThreads : taskStep(i)
  \/ \E m \in Msgs : InService /\ Z!clientRequest(m)

Spec == Init /\ [][Next]_vars

(* Every thread of the program that can run does; clients and failing polls   *)
(* are free.                                                                 *)
Fairness ==
  /\ WF_vars(mainStep)
  /\ WF_vars(dispatchStep)
  /\ \A i \in T!TaskThreads : WF_vars(taskStep(i))

FairSpec == Spec /\ Fairness

-----------------------------------------------------------------------------
(* Properties                                                                *)

(* The service sees only steps of its own specification, which discharges     *)
(* what it assumes of its callers: the task threads answer the requests they  *)
(* were handed, each once.                                                   *)
ServiceContract == Z!Spec

(* Every request is in exactly one place - waiting in the ROUTER, in the      *)
(* queue of one task thread or in its hand, in m_sendMsgList, or answered -   *)
(* whatever the threads do in between: none is lost, none answered twice.     *)
Router  == TaskThreadNum
Replies == TaskThreadNum + 1
Outside == TaskThreadNum + 2
Places  == T!TaskThreads \cup {Router, Replies, Outside}

held == [p \in Places |->
          CASE p \in T!TaskThreads -> T!InHand(p) \o m_recvMsgList[p]
            [] p = Router          -> inbox
            [] p = Replies         -> m_sendMsgList
            [] p = Outside         -> sent]

InOnePlace(q, requests) ==
  /\ \A p \in DOMAIN q : \A k \in DOMAIN q[p] : q[p][k] \in requests
  /\ \A m \in requests : \E p \in DOMAIN q : \E k \in DOMAIN q[p] : q[p][k] = m
  /\ \A p1, p2 \in DOMAIN q : \A k1 \in DOMAIN q[p1], k2 \in DOMAIN q[p2] :
       q[p1][k1] = q[p2][k2] => p1 = p2 /\ k1 = k2

OnePlace == InOnePlace(held, requested)

(* The requests of client c in s, in their order.                            *)
OfClient(c, s) ==
  LET of[n \in 0..Len(s)] ==
        IF n = 0 THEN <<>>
        ELSE IF ClientOf[s[n]] = c THEN Append(of[n - 1], s[n]) ELSE of[n - 1]
  IN of[Len(s)]

(* A client whose id has a stable hash gets its replies in the order of its   *)
(* requests, across the ROUTER, the pool of task threads, the shared list of  *)
(* replies and the event pipe.                                               *)
OnTheWay == m_sendMsgList \o FlattenSeq([n \in 1..TaskThreadNum |-> held[n - 1]]) \o inbox
Stable == {c \in Clients : \E h \in Hashes[c] : Hashes[c] = {h}}
PerClient == INSTANCE FifoQueues WITH
  Keys <- Stable,
  waiting <- [c \in Stable |-> OfClient(c, OnTheWay)]
ReplyOrder == PerClient!Spec

(* Every request is answered, also when the event pipe is full most of the    *)
(* time: the task threads may block on it, but never the thread that drains   *)
(* it.  (Unless the program crashes or zmq_poll fails.)                      *)
Answered ==
  \A m \in Msgs : (m \in requested) ~> (m \in Range(sent) \/ crashed \/ occurException)
=============================================================================
