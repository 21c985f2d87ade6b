--------------------------- MODULE MessagePath_proof ---------------------------
(***************************************************************************)
(* Proofs about MessagePath: the composition takes only steps of its two   *)
(* parts, so what is proved of each part holds of the whole program; every *)
(* request is in exactly one place, and the replies of a client leave in   *)
(* the order of its requests.                                              *)
(***************************************************************************)
EXTENDS MessagePath, SequenceTheorems, WellFoundedInduction, TLAPS

TP == INSTANCE NDTaskThreadManager_proof WITH pc <- taskPc
ZP == INSTANCE ZMQServiceImpl_proof WITH Workers <- T!TaskThreads, pc <- zmqPc

-----------------------------------------------------------------------------
(* The parts as MessagePath names them and as their proofs name them.        *)

LEMMA TaskAssumptionHolds == TP!TaskAssumption
BY PathAssumption DEF T!TaskAssumption, TP!TaskAssumption

LEMMA ServiceAssumptionHolds == ZP!ServiceAssumption
BY PathAssumption DEF Z!ServiceAssumption, ZP!ServiceAssumption, Z!IsFiniteSet, ZP!IsFiniteSet

LEMMA TaskNext == [T!Next]_(T!vars) => [TP!Next]_(TP!vars)
BY DEF T!vars, TP!vars, T!ctlVars, TP!ctlVars, T!threadVars, TP!threadVars,
       T!Next, TP!Next, T!threadStep, TP!threadStep, T!TaskThreads, TP!TaskThreads,
       T!init, TP!init, T!newNetService, TP!newNetService,
       T!stopAllTaskThread, TP!stopAllTaskThread, T!stop, TP!stop,
       T!insertOperateData, TP!insertOperateData, T!nSelect, TP!nSelect,
       T!run, TP!run, T!enterDispose, TP!enterDispose, T!disposeDone, TP!disposeDone,
       T!disposeTake, TP!disposeTake, T!reply, TP!reply, T!free, TP!free,
       T!isQuitThread, TP!isQuitThread, T!Alive, TP!Alive, T!Goto, TP!Goto

LEMMA ServiceNext == [Z!Next]_(Z!vars) => [ZP!Next]_(ZP!vars)
BY DEF Z!vars, ZP!vars, Z!ctlVars, ZP!ctlVars, Z!pushVars, ZP!pushVars, Z!dispVars, ZP!dispVars,
       Z!msgVars, ZP!msgVars, Z!Goto, ZP!Goto, Z!Handles, ZP!Handles, Z!NULL, ZP!NULL,
       Z!Next, ZP!Next, Z!CtlStep, ZP!CtlStep, Z!DispStep, ZP!DispStep,
       Z!WorkerStep, ZP!WorkerStep, Z!start, ZP!start, Z!stop, ZP!stop,
       Z!startRunning, ZP!startRunning, Z!startOpen, ZP!startOpen,
       Z!startReturn, ZP!startReturn, Z!startBound, ZP!startBound,
       Z!startFailed, ZP!startFailed, Z!startAbandon, ZP!startAbandon,
       Z!closeHandle, ZP!closeHandle, Z!pushLock, ZP!pushLock, Z!pushEvent, ZP!pushEvent,
       Z!stopJoin, ZP!stopJoin, Z!stopClose, ZP!stopClose,
       Z!dispatchCheck, ZP!dispatchCheck, Z!dispatchRestart, ZP!dispatchRestart,
       Z!dispatchPollFails, ZP!dispatchPollFails, Z!dispatchPoll, ZP!dispatchPoll,
       Z!dispatchEvent, ZP!dispatchEvent, Z!sendMessage, ZP!sendMessage,
       Z!recvMessage, ZP!recvMessage, Z!clientRequest, ZP!clientRequest,
       Z!Answer, ZP!Answer, Z!sendMessageQueue, ZP!sendMessageQueue, Z!Range, ZP!Range

-----------------------------------------------------------------------------
(* Sequences whose entries are all different, and stay so when an entry is    *)
(* added or moved from the front of one to the end of another.               *)

LEMMA Arrives ==
  ASSUME NEW P, NEW q \in [P -> Seq(Msgs)], NEW R, InOnePlace(q, R),
         NEW p \in P, NEW m \in Msgs, m \notin R
  PROVE  InOnePlace([q EXCEPT ![p] = Append(@, m)], R \cup {m})
<1> DEFINE r == [q EXCEPT ![p] = Append(@, m)]
<1>1. /\ DOMAIN r = P /\ DOMAIN q = P
      /\ DOMAIN r[p] = DOMAIN q[p] \cup {Len(q[p]) + 1}
      /\ Len(q[p]) + 1 \notin DOMAIN q[p]
      /\ \A k \in DOMAIN q[p] : r[p][k] = q[p][k]
      /\ r[p][Len(q[p]) + 1] = m
      /\ \A o \in P \ {p} : r[o] = q[o]
  OBVIOUS
<1>2. \A o \in P : \A k \in DOMAIN q[o] : q[o][k] \in R /\ q[o][k] # m
  BY <1>1 DEF InOnePlace
<1> HIDE DEF r
<1>3. /\ \A o \in P : \A k \in DOMAIN r[o] : r[o][k] \in R \cup {m}
      /\ \A x \in R \cup {m} : \E o \in P : \E k \in DOMAIN r[o] : r[o][k] = x
  <2>1. \A o \in P : \A k \in DOMAIN q[o] : k \in DOMAIN r[o] /\ r[o][k] = q[o][k]
    BY <1>1
  <2>2. \A o \in P : \A k \in DOMAIN r[o] : r[o][k] \in R \cup {m}
    BY <1>1, <1>2
  <2>3. \A x \in R : \E o \in P : \E k \in DOMAIN r[o] : r[o][k] = x
    BY <1>1, <2>1 DEF InOnePlace
  <2> QED BY <1>1, <2>2, <2>3
<1>4. ASSUME NEW o1 \in P, NEW o2 \in P, NEW k1 \in DOMAIN r[o1], NEW k2 \in DOMAIN r[o2],
             r[o1][k1] = r[o2][k2]
      PROVE  o1 = o2 /\ k1 = k2
  <2>1. \A p1, p2 \in P : \A j1 \in DOMAIN q[p1], j2 \in DOMAIN q[p2] :
          q[p1][j1] = q[p2][j2] => p1 = p2 /\ j1 = j2
    BY <1>1 DEF InOnePlace
  <2>2. \A o \in P : \A k \in DOMAIN r[o] :
          \/ k \in DOMAIN q[o] /\ r[o][k] = q[o][k]
          \/ o = p /\ k = Len(q[p]) + 1 /\ r[o][k] = m
    BY <1>1
  <2> QED BY <1>2, <1>4, <2>1, <2>2
<1> QED
  BY <1>1, <1>3, <1>4 DEF InOnePlace, r

LEMMA Moves ==
  ASSUME NEW P, NEW q \in [P -> Seq(Msgs)], NEW R, InOnePlace(q, R),
         NEW a \in P, NEW b \in P, a # b, q[a] # <<>>
  PROVE  InOnePlace([q EXCEPT ![a] = Tail(@), ![b] = Append(@, Head(q[a]))], R)
<1> DEFINE r == [q EXCEPT ![a] = Tail(@), ![b] = Append(@, Head(q[a]))]
           n == Len(q[a])
           l == Len(q[b]) + 1
<1>1. /\ DOMAIN r = P /\ DOMAIN q = P
      /\ r[a] = Tail(q[a]) /\ r[b] = Append(q[b], Head(q[a]))
      /\ \A o \in P \ {a, b} : r[o] = q[o]
  OBVIOUS
<1>2. /\ n \in Nat \ {0} /\ l \in Nat \ {0}
      /\ q[a] \in Seq(Msgs) /\ q[b] \in Seq(Msgs)
      /\ DOMAIN q[a] = 1..n /\ DOMAIN q[b] = 1..(l - 1)
  OBVIOUS
<1>3. /\ DOMAIN r[a] = 1..(n - 1)
      /\ \A k \in 1..(n - 1) : k + 1 \in 1..n /\ r[a][k] = q[a][k + 1]
  <2>1. \A k \in 1..(n - 1) : k + 1 \in 1..n
    BY <1>2
  <2>2. DOMAIN Tail(q[a]) = 1..(n - 1) /\ \A k \in 1..(n - 1) : Tail(q[a])[k] = q[a][k + 1]
    BY <1>2
  <2> QED BY <1>1, <2>1, <2>2
<1>4. /\ DOMAIN r[b] = 1..l
      /\ \A k \in 1..(l - 1) : r[b][k] = q[b][k]
      /\ r[b][l] = q[a][1]
  BY <1>1, <1>2
<1> HIDE DEF r, n, l
<1> DEFINE At(o, k) == IF o = a THEN <<a, k + 1>>
                       ELSE IF o = b /\ k = l THEN <<a, 1>> ELSE <<o, k>>
<1>5. ASSUME NEW o \in P, NEW k \in DOMAIN r[o]
      PROVE  \E p \in P : \E j \in DOMAIN q[p] : At(o, k) = <<p, j>> /\ r[o][k] = q[p][j]
  <2>1. CASE o = a
    BY <1>2, <1>3, <2>1
  <2>2. CASE o = b /\ k = l
    BY <1>2, <1>4, <2>2
  <2>3. CASE o = b /\ k # l
    BY <1>2, <1>4, <2>3
  <2>4. CASE o \notin {a, b}
    BY <1>1, <2>4
  <2> QED BY <2>1, <2>2, <2>3, <2>4
<1>6. ASSUME NEW p \in P, NEW j \in DOMAIN q[p]
      PROVE  \E o \in P : \E k \in DOMAIN r[o] : r[o][k] = q[p][j]
  <2>1. CASE p = a /\ j = 1
    BY <1>2, <1>4, <2>1
  <2>2. CASE p = a /\ j # 1
    <3>1. j - 1 \in 1..(n - 1) /\ (j - 1) + 1 = j
      BY <1>2, <2>2
    <3> QED BY <1>3, <2>2, <3>1
  <2>3. CASE p = b
    BY <1>2, <1>4, <2>3
  <2>4. CASE p \notin {a, b}
    BY <1>1, <2>4
  <2> QED BY <2>1, <2>2, <2>3, <2>4
<1> HIDE DEF At
<1>7. /\ \A o \in P : \A k \in DOMAIN r[o] : r[o][k] \in R
      /\ \A x \in R : \E o \in P : \E k \in DOMAIN r[o] : r[o][k] = x
  <2>1. /\ \A p \in P : \A j \in DOMAIN q[p] : q[p][j] \in R
        /\ \A x \in R : \E p \in P : \E j \in DOMAIN q[p] : q[p][j] = x
    BY <1>1 DEF InOnePlace
  <2>2. \A o \in P : \A k \in DOMAIN r[o] : \E p \in P : \E j \in DOMAIN q[p] : r[o][k] = q[p][j]
    BY <1>5
  <2>3. \A o \in P : \A k \in DOMAIN r[o] : r[o][k] \in R
    BY <2>1, <2>2
  <2>4. \A x \in R : \E o \in P : \E k \in DOMAIN r[o] : r[o][k] = x
    <3> SUFFICES ASSUME NEW x \in R PROVE \E o \in P : \E k \in DOMAIN r[o] : r[o][k] = x
      OBVIOUS
    <3>1. PICK p \in P : \E j \in DOMAIN q[p] : q[p][j] = x
      BY <2>1
    <3>2. PICK j \in DOMAIN q[p] : q[p][j] = x
      BY <3>1
    <3> QED BY <1>6, <3>1, <3>2
  <2> QED BY <2>3, <2>4
<1>8. ASSUME NEW o1 \in P, NEW o2 \in P, NEW k1 \in DOMAIN r[o1], NEW k2 \in DOMAIN r[o2],
             r[o1][k1] = r[o2][k2]
      PROVE  o1 = o2 /\ k1 = k2
  <2>1. At(o1, k1) = At(o2, k2)
    <3>1. PICK p1 \in P : \E j \in DOMAIN q[p1] : At(o1, k1) = <<p1, j>> /\ r[o1][k1] = q[p1][j]
      BY <1>5
    <3>2. PICK p2 \in P : \E j \in DOMAIN q[p2] : At(o2, k2) = <<p2, j>> /\ r[o2][k2] = q[p2][j]
      BY <1>5
    <3>3. PICK j1 \in DOMAIN q[p1] : At(o1, k1) = <<p1, j1>> /\ r[o1][k1] = q[p1][j1]
      BY <3>1
    <3>4. PICK j2 \in DOMAIN q[p2] : At(o2, k2) = <<p2, j2>> /\ r[o2][k2] = q[p2][j2]
      BY <3>2
    <3>5. p1 = p2 /\ j1 = j2
      <4>1. \A i1, i2 \in P : \A l1 \in DOMAIN q[i1], l2 \in DOMAIN q[i2] :
              q[i1][l1] = q[i2][l2] => i1 = i2 /\ l1 = l2
        BY <1>1 DEF InOnePlace
      <4>2. q[p1][j1] = q[p2][j2]
        BY <1>8, <3>3, <3>4
      <4> QED BY <3>1, <3>2, <3>3, <3>4, <4>1, <4>2
    <3> QED BY <3>3, <3>4, <3>5
  <2>2. o1 = a => k1 \in 1..(n - 1)
    BY <1>3
  <2>3. o2 = a => k2 \in 1..(n - 1)
    BY <1>3
  <2>4. o1 = a <=> o2 = a
    <3>1. \A k \in 1..(n - 1) : k + 1 # 1
      BY <1>2
    <3> QED BY <2>1, <2>2, <2>3, <3>1 DEF At
  <2>5. \A i, j \in 1..(n - 1) : i + 1 = j + 1 => i = j
    BY <1>2
  <2> QED BY <2>1, <2>2, <2>3, <2>4, <2>5 DEF At
<1> QED
  BY <1>1, <1>7, <1>8 DEF InOnePlace, r

-----------------------------------------------------------------------------
(* Each part sees only steps of its own specification.                       *)

LEMMA NextCases ==
  ASSUME Next, NEW P,
         T!init /\ InTasks => P, T!newNetService /\ InTasks => P,
         \A i \in T!TaskThreads : T!run(i) /\ InTasks => P,
         \A i \in T!TaskThreads : T!enterDispose(i) /\ InTasks => P,
         \A i \in T!TaskThreads : T!isQuitThread(i) /\ InTasks => P,
         \A i \in T!TaskThreads : T!disposeDone(i) /\ InTasks => P,
         \A i \in T!TaskThreads : T!disposeTake(i) /\ InTasks => P,
         \A i \in T!TaskThreads : T!free(i) /\ InTasks => P,
         \A i \in T!TaskThreads : replyMessage(i) => P,
         \A m \in Msgs : onRecvMessage(m) => P,
         startService => P,
         Z!startBound(Ctl) /\ InService => P,
         Z!startFailed(Ctl) /\ InService => P,
         Z!startAbandon(Ctl) /\ InService => P,
         Z!dispatchCheck /\ InService => P, Z!dispatchRestart /\ InService => P,
         Z!dispatchPoll /\ InService => P, Z!dispatchPollFails /\ InService => P,
         Z!dispatchEvent /\ InService => P, Z!sendMessage /\ InService => P,
         \A i \in T!TaskThreads : Z!pushLock(i) /\ InService => P,
         \A i \in T!TaskThreads : Z!pushEvent(i) /\ InService => P,
         \A m \in Msgs : Z!clientRequest(m) /\ InService => P
  PROVE  P
BY DEF Next, mainStep, startTaskThread, newNetService, dispatchStep, taskStep, returned

LEMMA TasksStep == [Next]_vars => [T!Next]_(T!vars)
<1> DEFINE P == [T!Next]_(T!vars)
<1>1. UNCHANGED taskVars => P
  BY DEF taskVars, T!vars, T!ctlVars, T!threadVars
<1>2. InService => P
  BY <1>1 DEF InService
<1>3. T!init \/ T!newNetService => P
  BY DEF T!Next
<1>4. \A m \in Msgs : onRecvMessage(m) => P
  BY DEF onRecvMessage, T!Next
<1>5. \A i \in T!TaskThreads : T!threadStep(i) => P
  BY DEF T!Next
<1>6. \A i \in T!TaskThreads : replyMessage(i) => T!reply(i)
  BY DEF replyMessage
<1> SUFFICES ASSUME Next PROVE P
  BY <1>1 DEF vars
<1> HIDE DEF P
<1> QED
  BY <1>2, <1>3, <1>4, <1>5, <1>6, NextCases DEF T!threadStep, startService

-----------------------------------------------------------------------------
(* The service answers what it was asked, once.  For that the invariants of   *)
(* both parts are needed, that every request is in one place, and two more:   *)
(* the task threads hold what onRecvMessage gave them, and no client is       *)
(* served before start() has succeeded.                                      *)

HandedOver ==
  \A i \in T!TaskThreads : \A k \in DOMAIN held[i] : held[i][k] \in delivered

EarlyInv ==
  /\ zmqPc[Ctl] \in {"idle", "bind", "startFailed"}
  /\ opens = 0 \/ zmqPc[Ctl] # "idle" => wired = {} /\ requested = {}
  /\ zmqPc[Ctl] # "idle" => opens # 0

(* A request waits at a thread its client's hash may select.                  *)
RightThread ==
  \A i \in T!TaskThreads : \A k \in DOMAIN held[i] : i \in T!nSelect(held[i][k])

PathInv == TP!TypeInv /\ ZP!IInv /\ OnePlace /\ HandedOver /\ RightThread /\ EarlyInv

TaskLabels == TP!Running \cup {"new", "run", "exited"}

(* What the rest needs of the invariants of the parts.                       *)
Shapes ==
  /\ m_recvMsgList \in [T!TaskThreads -> Seq(Msgs)]
  /\ taskPc \in [T!TaskThreads -> TaskLabels] /\ DOMAIN msg = T!TaskThreads
  /\ \A i \in T!TaskThreads : taskPc[i] = "process" => msg[i] \in Msgs
  /\ inbox \in Seq(Msgs) /\ m_sendMsgList \in Seq(Msgs) /\ sent \in Seq(Msgs)
  /\ zmqPc \in [T!TaskThreads \cup {Ctl, Disp} -> ZP!Labels]
  /\ accepted = sent \o m_sendMsgList
  /\ handle \in open \/ handle = 0
  /\ zmqPc[Ctl] \in {"bind", "startFailed"} => zmqPc[Disp] = "none"
  /\ opens \in Nat /\ created \in Nat
  /\ \A i \in T!TaskThreads : i >= created => taskPc[i] = "new"

LEMMA ShapesHold == PathInv => Shapes
<1> SUFFICES ASSUME PathInv PROVE Shapes
  OBVIOUS
<1>1. /\ m_recvMsgList \in [T!TaskThreads -> Seq(Msgs)]
      /\ taskPc \in [T!TaskThreads -> TaskLabels] /\ DOMAIN msg = T!TaskThreads
      /\ \A i \in T!TaskThreads : taskPc[i] = "process" => msg[i] \in Msgs
      /\ created \in Nat
      /\ \A i \in T!TaskThreads : i >= created => taskPc[i] = "new"
  <2> USE DEF PathInv, TP!TypeInv, TP!TypeOK
  <2>1. TP!TaskThreads = T!TaskThreads
    BY DEF TP!TaskThreads, T!TaskThreads
  <2>3. taskPc \in [T!TaskThreads -> TaskLabels]
    BY <2>1 DEF TaskLabels
  <2>4. created \in Nat
    OBVIOUS
  <2>5. m_recvMsgList \in [T!TaskThreads -> Seq(Msgs)] /\ DOMAIN msg = T!TaskThreads
    BY <2>1
  <2>6. \A i \in T!TaskThreads : taskPc[i] = "process" => msg[i] \in Msgs
    BY <2>1
  <2>7. \A i \in T!TaskThreads : i >= created => taskPc[i] = "new"
    BY <2>1
  <2> QED BY <2>3, <2>4, <2>5, <2>6, <2>7
<1>2. /\ inbox \in Seq(Msgs) /\ m_sendMsgList \in Seq(Msgs) /\ sent \in Seq(Msgs)
      /\ zmqPc \in [T!TaskThreads \cup {Ctl, Disp} -> ZP!Labels]
      /\ opens \in Nat
  <2> USE DEF PathInv, ZP!IInv, ZP!TypeOK
  <2>1. ZP!Threads = T!TaskThreads \cup {Ctl, Disp}
    BY DEF ZP!Threads
  <2>3. zmqPc \in [T!TaskThreads \cup {Ctl, Disp} -> ZP!Labels]
    BY <2>1
  <2>4. opens \in Nat
    OBVIOUS
  <2>5. inbox \in Seq(Msgs) /\ m_sendMsgList \in Seq(Msgs) /\ sent \in Seq(Msgs)
    OBVIOUS
  <2> QED BY <2>3, <2>4, <2>5
<1>3. accepted = sent \o m_sendMsgList
  BY DEF PathInv, ZP!IInv, ZP!RepliesConserved
<1>4. handle \in open \/ handle = 0
  BY DEF PathInv, ZP!IInv, ZP!SocketInv, ZP!NULL
<1>5. zmqPc[Ctl] \in {"bind", "startFailed"} => zmqPc[Disp] = "none"
  BY DEF PathInv, ZP!IInv, ZP!PhaseInv
<1> QED
  BY <1>1, <1>2, <1>3, <1>4, <1>5 DEF Shapes

LEMMA Apart ==
  /\ T!TaskThreads \subseteq Places /\ {Router, Replies, Outside} \subseteq Places
  /\ {Router, Replies, Outside} \cap T!TaskThreads = {}
  /\ Router # Replies /\ Router # Outside /\ Replies # Outside
  /\ Ctl # Disp /\ Ctl \notin T!TaskThreads /\ Disp \notin T!TaskThreads
<1>1. TaskThreadNum \in Nat /\ T!TaskThreads = 0 .. TaskThreadNum - 1
  BY PathAssumption DEF T!TaskAssumption, T!TaskThreads
<1>2. Ctl # Disp /\ Ctl \notin T!TaskThreads /\ Disp \notin T!TaskThreads
  BY PathAssumption DEF Z!ServiceAssumption
<1> QED
  BY <1>1, <1>2 DEF Places, Router, Replies, Outside

LEMMA HeldIs ==
  /\ DOMAIN held = Places
  /\ \A i \in T!TaskThreads : held[i] = T!InHand(i) \o m_recvMsgList[i]
  /\ held[Router] = inbox /\ held[Replies] = m_sendMsgList /\ held[Outside] = sent
BY Apart DEF held

LEMMA HeldIsNext ==
  /\ DOMAIN held' = Places
  /\ \A i \in T!TaskThreads : held'[i] = T!InHand(i)' \o m_recvMsgList'[i]
  /\ held'[Router] = inbox' /\ held'[Replies] = m_sendMsgList' /\ held'[Outside] = sent'
BY Apart DEF held

LEMMA HeldType == Shapes => held \in [Places -> Seq(Msgs)]
<1> SUFFICES ASSUME Shapes PROVE held \in [Places -> Seq(Msgs)]
  OBVIOUS
<1>1. \A i \in T!TaskThreads : T!InHand(i) \in Seq(Msgs)
  BY DEF Shapes, T!InHand
<1>2. \A i \in T!TaskThreads : held[i] \in Seq(Msgs)
  <2> SUFFICES ASSUME NEW i \in T!TaskThreads PROVE held[i] \in Seq(Msgs)
    OBVIOUS
  <2>1. T!InHand(i) \in Seq(Msgs) /\ m_recvMsgList[i] \in Seq(Msgs)
    BY <1>1 DEF Shapes
  <2>2. T!InHand(i) \o m_recvMsgList[i] \in Seq(Msgs)
    BY <2>1
  <2> QED BY <2>2, HeldIs
<1>3. \A p \in Places : held[p] \in Seq(Msgs)
  BY <1>2, HeldIs DEF Shapes, Places
<1> QED
  BY <1>3, HeldIs DEF held

(* The request in a thread's hand was handed over and is not answered.       *)
LEMMA HandIsOpen ==
  ASSUME PathInv, NEW i \in T!TaskThreads, taskPc[i] = "process"
  PROVE  msg[i] \in Msgs /\ msg[i] \in delivered /\ msg[i] \notin Z!Range(accepted)
<1>1. Shapes
  BY ShapesHold
<1>2. held[i] = <<msg[i]>> \o m_recvMsgList[i] /\ msg[i] \in Msgs /\ m_recvMsgList[i] \in Seq(Msgs)
  BY <1>1, HeldIs DEF Shapes, T!InHand
<1>3. 1 \in DOMAIN held[i] /\ held[i][1] = msg[i]
  BY <1>2
<1>4. msg[i] \in delivered
  BY <1>3 DEF PathInv, HandedOver
<1>5. \A p \in {Replies, Outside} : \A k \in DOMAIN held[p] : held[p][k] # msg[i]
  BY <1>3, Apart, HeldIs DEF PathInv, OnePlace, InOnePlace
<1>6. \A k \in DOMAIN accepted : accepted[k] # msg[i]
  <2>1. /\ accepted = sent \o m_sendMsgList
        /\ sent \in Seq(Msgs) /\ m_sendMsgList \in Seq(Msgs)
    BY <1>1 DEF Shapes
  <2>2. ASSUME NEW k \in DOMAIN accepted
        PROVE  \/ k \in DOMAIN sent /\ accepted[k] = sent[k]
               \/ k - Len(sent) \in DOMAIN m_sendMsgList
                    /\ accepted[k] = m_sendMsgList[k - Len(sent)]
    BY <2>1
  <2> QED
    BY <1>5, <2>2, HeldIs
<1> QED
  BY <1>2, <1>4, <1>6 DEF Z!Range

LEMMA ServiceStep == PathInv /\ [Next]_vars => [Z!Next]_(Z!vars)
<1> DEFINE P == [Z!Next]_(Z!vars)
<1>1. UNCHANGED zmqVars => P
  BY DEF zmqVars, Z!vars, Z!ctlVars, Z!pushVars, Z!dispVars, Z!msgVars
<1>2. InTasks => P
  BY <1>1 DEF InTasks
<1>3. Z!start \/ Z!CtlStep \/ Z!DispStep \/ Z!dispatchPollFails => P
  BY DEF Z!Next
<1>4. \A i \in T!TaskThreads : Z!pushLock(i) \/ Z!pushEvent(i) => P
  BY DEF Z!Next, Z!WorkerStep
<1>5. \A m \in Msgs : Z!clientRequest(m) => P
  BY DEF Z!Next
<1> SUFFICES ASSUME PathInv, Next PROVE P
  BY <1>1 DEF vars
<1>6. ASSUME NEW i \in T!TaskThreads, replyMessage(i) PROVE P
  <2>1. CASE crashed'
    BY <1>1, <1>6, <2>1 DEF replyMessage
  <2>2. CASE ~crashed'
    <3>1. taskPc[i] = "process" /\ Z!sendMessageQueue(i, msg[i])
      BY <1>6, <2>2 DEF replyMessage, T!reply
    <3>2. Z!Answer(i, msg[i]) /\ msg[i] \in Msgs
      BY <3>1, HandIsOpen DEF Z!Answer
    <3> QED BY <3>2 DEF Z!Next
  <2> QED BY <2>1, <2>2
<1> HIDE DEF P
<1> QED
  BY <1>2, <1>3, <1>4, <1>5, <1>6, NextCases
     DEF startService, onRecvMessage, Z!CtlStep, Z!DispStep

-----------------------------------------------------------------------------
LEMMA EarlyStep == PathInv /\ [Next]_vars => EarlyInv'
<1> DEFINE P == EarlyInv'
<1> SUFFICES ASSUME PathInv, Next PROVE P
  BY DEF PathInv, EarlyInv, vars, zmqVars
<1> USE DEF EarlyInv, Shapes, Z!Goto
<1>1. EarlyInv /\ Shapes /\ Ctl # Disp /\ Ctl \notin T!TaskThreads
  BY ShapesHold, Apart DEF PathInv
<1>2. zmqPc'[Ctl] = zmqPc[Ctl] /\ UNCHANGED <<opens, wired, requested>> => P
  BY <1>1
<1>3. InTasks => P
  BY <1>2 DEF InTasks, zmqVars
<1>4. ASSUME NEW i \in T!TaskThreads, replyMessage(i) PROVE P
  BY <1>1, <1>2, <1>4 DEF replyMessage, zmqVars, Z!sendMessageQueue, Z!ctlVars
<1>5. ASSUME NEW m \in Msgs, onRecvMessage(m) PROVE P
  BY <1>1, <1>2, <1>5 DEF onRecvMessage, Z!recvMessage, Z!ctlVars
<1>6. ASSUME startService PROVE P
  <2>1. CASE Z!startRunning(Ctl)
    BY <1>1, <2>1 DEF Z!startRunning, Z!startReturn, Z!ctlVars, Z!msgVars
  <2>2. CASE Z!startOpen(Ctl)
    BY <1>1, <1>6, <2>2 DEF startService, Z!startOpen, Z!msgVars
  <2> QED BY <1>6, <2>1, <2>2 DEF startService, Z!start
<1>7. ASSUME Z!startBound(Ctl) PROVE P
  BY <1>1, <1>7 DEF Z!startBound, Z!msgVars
<1>8. ASSUME Z!startFailed(Ctl) PROVE P
  BY <1>1, <1>8 DEF Z!startFailed, Z!ctlVars, Z!msgVars
<1>9. ASSUME Z!startAbandon(Ctl) PROVE P
  BY <1>1, <1>9 DEF Z!startAbandon, Z!closeHandle, Z!startReturn
<1>10. ASSUME Z!dispatchCheck \/ Z!dispatchPoll \/ Z!dispatchPollFails PROVE P
  BY <1>1, <1>2, <1>10
     DEF Z!dispatchCheck, Z!dispatchPoll, Z!dispatchPollFails, Z!ctlVars, Z!msgVars
<1>11. ASSUME Z!dispatchEvent \/ Z!sendMessage PROVE P
  BY <1>1, <1>2, <1>11 DEF Z!dispatchEvent, Z!sendMessage, Z!ctlVars, Z!msgVars
<1>12. ASSUME Z!dispatchRestart PROVE P
  <2>1. CASE Z!startRunning(Disp)
    BY <1>1, <1>2, <2>1 DEF Z!startRunning, Z!startReturn, Z!ctlVars, Z!msgVars
  <2>2. CASE Z!startOpen(Disp)
    BY <1>1, <2>2 DEF Z!startOpen, Z!msgVars
  <2> QED BY <1>12, <2>1, <2>2 DEF Z!dispatchRestart
<1>13. ASSUME NEW i \in T!TaskThreads, Z!pushLock(i) \/ Z!pushEvent(i) PROVE P
  BY <1>1, <1>2, <1>13 DEF Z!pushLock, Z!pushEvent, Z!ctlVars, Z!msgVars
<1>14. ASSUME NEW m \in Msgs, Z!clientRequest(m) PROVE P
  BY <1>1, <1>14 DEF Z!clientRequest, Z!ctlVars
<1> HIDE DEF P
<1> QED
  BY <1>3, <1>4, <1>5, <1>6, <1>7, <1>8, <1>9, <1>10, <1>11, <1>12, <1>13, <1>14, NextCases

-----------------------------------------------------------------------------
(* Where the requests are, before and after each step.                       *)

LEMMA Stay ==
  ASSUME inbox' = inbox, m_sendMsgList' = m_sendMsgList, sent' = sent,
         \A i \in T!TaskThreads :
           T!InHand(i)' \o m_recvMsgList'[i] = T!InHand(i) \o m_recvMsgList[i]
  PROVE  held' = held
<1>1. \A p \in Places : held'[p] = held[p]
  BY HeldIs, HeldIsNext DEF Places
<1> DEFINE S == {held[p] : p \in Places}
<1>2. \A p \in Places : held[p] \in S /\ held'[p] \in S
  BY <1>1
<1> HIDE DEF S
<1>3. held \in [Places -> S]
  BY <1>2, HeldIs DEF held
<1>4. held' \in [Places -> S]
  BY <1>2, HeldIsNext DEF held
<1> QED
  BY <1>1, <1>3, <1>4

LEMMA StayOutside ==
  ASSUME m_recvMsgList' = m_recvMsgList,
         \A i \in T!TaskThreads : T!InHand(i)' = T!InHand(i), InTasks
  PROVE  held' = held
BY Stay DEF InTasks, zmqVars

LEMMA StayInside ==
  ASSUME inbox' = inbox, m_sendMsgList' = m_sendMsgList, sent' = sent, InService
  PROVE  held' = held
BY Stay DEF InService, taskVars, T!InHand

(* Two functions over the places are equal when they agree at each of them.  *)
LEMMA HeldEquals ==
  ASSUME NEW g \in [Places -> Seq(Msgs)],
         \A i \in T!TaskThreads : T!InHand(i)' \o m_recvMsgList'[i] = g[i],
         inbox' = g[Router], m_sendMsgList' = g[Replies], sent' = g[Outside]
  PROVE  held' = g
<1>1. \A p \in Places : held'[p] = g[p] /\ held'[p] \in Seq(Msgs)
  BY HeldIsNext DEF Places
<1>2. held' \in [Places -> Seq(Msgs)]
  BY <1>1, HeldIsNext DEF held
<1> QED
  BY <1>1, <1>2

LEMMA MovedIn ==
  ASSUME PathInv, NEW m \in Msgs, onRecvMessage(m)
  PROVE  \E i \in T!TaskThreads :
           /\ i \in T!nSelect(m) /\ held[Router] # <<>> /\ m = Head(held[Router])
           /\ held' = [held EXCEPT ![Router] = Tail(@), ![i] = Append(@, m)]
<1>1. Shapes /\ held \in [Places -> Seq(Msgs)]
  BY ShapesHold, HeldType
<1>2. PICK i \in T!nSelect(m) : m_recvMsgList' = [m_recvMsgList EXCEPT ![i] = Append(@, m)]
  BY DEF onRecvMessage, T!insertOperateData
<1>3. i \in T!TaskThreads
  BY PathAssumption DEF T!TaskAssumption, T!nSelect, T!TaskThreads
<1>4. inbox # <<>> /\ m = Head(inbox) /\ inbox' = Tail(inbox)
      /\ UNCHANGED <<m_sendMsgList, sent, msg, taskPc>>
  BY DEF onRecvMessage, Z!recvMessage, T!insertOperateData
<1> DEFINE g == [held EXCEPT ![Router] = Tail(@), ![i] = Append(@, m)]
<1>5. /\ g[Router] = Tail(held[Router]) /\ g[i] = Append(held[i], m)
      /\ \A p \in Places \ {Router, i} : g[p] = held[p]
  BY <1>1, <1>3, Apart
<1>6. g \in [Places -> Seq(Msgs)]
  <2>1. held[Router] # <<>> /\ held[Router] \in Seq(Msgs) /\ held[i] \in Seq(Msgs)
    BY <1>1, <1>3, <1>4, Apart, HeldIs
  <2>2. Tail(held[Router]) \in Seq(Msgs) /\ Append(held[i], m) \in Seq(Msgs)
    BY <2>1
  <2> QED BY <1>1, <2>2
<1> HIDE DEF g
<1>7. \A j \in T!TaskThreads : T!InHand(j)' = T!InHand(j) /\ T!InHand(j) \in Seq(Msgs)
  BY <1>1, <1>4 DEF T!InHand, Shapes
<1>8. \A j \in T!TaskThreads : T!InHand(j)' \o m_recvMsgList'[j] = g[j]
  <2> SUFFICES ASSUME NEW j \in T!TaskThreads PROVE T!InHand(j)' \o m_recvMsgList'[j] = g[j]
    OBVIOUS
  <2>1. CASE j = i
    <3>1. m_recvMsgList'[i] = Append(m_recvMsgList[i], m) /\ m_recvMsgList[i] \in Seq(Msgs)
      BY <1>1, <1>2, <1>3 DEF Shapes
    <3>2. T!InHand(i) \o Append(m_recvMsgList[i], m) = Append(T!InHand(i) \o m_recvMsgList[i], m)
      BY <1>3, <1>7, <3>1
    <3> QED BY <1>3, <1>5, <1>7, <2>1, <3>1, <3>2, HeldIs
  <2>2. CASE j # i
    <3>1. m_recvMsgList'[j] = m_recvMsgList[j]
      BY <1>1, <1>2, <2>2 DEF Shapes
    <3> QED BY <1>5, <1>7, <2>2, <3>1, Apart, HeldIs
  <2> QED BY <2>1, <2>2
<1>9. inbox' = g[Router] /\ m_sendMsgList' = g[Replies] /\ sent' = g[Outside]
  BY <1>3, <1>4, <1>5, Apart, HeldIs
<1> QED
  BY <1>3, <1>4, <1>6, <1>8, <1>9, HeldIs, HeldEquals DEF g

LEMMA MovedOut ==
  ASSUME PathInv, NEW i \in T!TaskThreads, replyMessage(i), ~crashed'
  PROVE  /\ held[i] # <<>>
         /\ held' = [held EXCEPT ![i] = Tail(@), ![Replies] = Append(@, Head(held[i]))]
<1>1. Shapes /\ held \in [Places -> Seq(Msgs)]
  BY ShapesHold, HeldType
<1>2. /\ taskPc[i] = "process" /\ taskPc' = [taskPc EXCEPT ![i] = "free"]
      /\ UNCHANGED <<msg, m_recvMsgList>>
      /\ m_sendMsgList' = Append(m_sendMsgList, msg[i])
      /\ UNCHANGED <<inbox, sent>>
  BY DEF replyMessage, T!reply, T!Goto, Z!sendMessageQueue
<1>3. /\ held[i] = <<msg[i]>> \o m_recvMsgList[i]
      /\ m_recvMsgList[i] \in Seq(Msgs) /\ msg[i] \in Msgs
  BY <1>1, <1>2, HeldIs DEF Shapes, T!InHand
<1>4. /\ held[i] # <<>> /\ Head(held[i]) = msg[i]
      /\ Tail(held[i]) = <<>> \o m_recvMsgList[i] /\ Tail(held[i]) \in Seq(Msgs)
  BY <1>3
<1> DEFINE g == [held EXCEPT ![i] = Tail(@), ![Replies] = Append(@, Head(held[i]))]
<1>5. /\ g[i] = Tail(held[i]) /\ g[Replies] = Append(held[Replies], msg[i])
      /\ \A p \in Places \ {Replies, i} : g[p] = held[p]
  BY <1>1, <1>4, Apart
<1>6. g \in [Places -> Seq(Msgs)]
  <2>1. Append(held[Replies], Head(held[i])) \in Seq(Msgs)
    BY <1>1, <1>3, <1>4, Apart
  <2> QED BY <1>1, <1>4, <2>1
<1> HIDE DEF g
<1>7. \A j \in T!TaskThreads : T!InHand(j)' \o m_recvMsgList'[j] = g[j]
  <2> SUFFICES ASSUME NEW j \in T!TaskThreads PROVE T!InHand(j)' \o m_recvMsgList'[j] = g[j]
    OBVIOUS
  <2>1. CASE j = i
    <3>1. T!InHand(i)' = <<>>
      BY <1>1, <1>2 DEF T!InHand, Shapes
    <3> QED BY <1>2, <1>4, <1>5, <2>1, <3>1
  <2>2. CASE j # i
    <3>1. T!InHand(j)' = T!InHand(j)
      BY <1>1, <1>2, <2>2 DEF T!InHand, Shapes
    <3> QED BY <1>2, <1>5, <2>2, <3>1, Apart, HeldIs
  <2> QED BY <2>1, <2>2
<1>8. inbox' = g[Router] /\ m_sendMsgList' = g[Replies] /\ sent' = g[Outside]
  BY <1>2, <1>5, Apart, HeldIs
<1> QED
  BY <1>4, <1>6, <1>7, <1>8, HeldEquals DEF g

LEMMA MovedAway ==
  ASSUME PathInv, Z!sendMessage, InService, m_sendMsgList # <<>>
  PROVE  /\ held[Replies] # <<>>
         /\ held' = [held EXCEPT ![Replies] = Tail(@),
                                 ![Outside] = Append(@, Head(held[Replies]))]
<1>1. Shapes /\ held \in [Places -> Seq(Msgs)]
  BY ShapesHold, HeldType
<1>2. /\ sent' = Append(sent, Head(m_sendMsgList)) /\ m_sendMsgList' = Tail(m_sendMsgList)
      /\ UNCHANGED <<inbox, m_recvMsgList, msg, taskPc>>
  BY DEF Z!sendMessage, InService, taskVars
<1>3. /\ m_sendMsgList \in Seq(Msgs) /\ sent \in Seq(Msgs)
      /\ Tail(m_sendMsgList) \in Seq(Msgs) /\ Append(sent, Head(m_sendMsgList)) \in Seq(Msgs)
  BY <1>1 DEF Shapes
<1> DEFINE g == [held EXCEPT ![Replies] = Tail(@), ![Outside] = Append(@, Head(held[Replies]))]
<1>4. /\ g[Replies] = m_sendMsgList' /\ g[Outside] = sent'
      /\ \A p \in Places \ {Replies, Outside} : g[p] = held[p]
  BY <1>1, <1>2, Apart, HeldIs
<1>5. g \in [Places -> Seq(Msgs)]
  BY <1>1, <1>3, HeldIs
<1> HIDE DEF g
<1>6. \A j \in T!TaskThreads : T!InHand(j)' \o m_recvMsgList'[j] = g[j]
  BY <1>2, <1>4, Apart, HeldIs DEF T!InHand
<1>7. inbox' = g[Router]
  BY <1>2, <1>4, Apart, HeldIs
<1> QED
  BY <1>4, <1>5, <1>6, <1>7, HeldIs, HeldEquals DEF g

LEMMA Added ==
  ASSUME PathInv, NEW m \in Msgs, Z!clientRequest(m), InService
  PROVE  held' = [held EXCEPT ![Router] = Append(@, m)]
<1>1. Shapes /\ held \in [Places -> Seq(Msgs)]
  BY ShapesHold, HeldType
<1>2. inbox' = Append(inbox, m) /\ UNCHANGED <<m_sendMsgList, sent, m_recvMsgList, msg, taskPc>>
  BY DEF Z!clientRequest, InService, taskVars
<1> DEFINE g == [held EXCEPT ![Router] = Append(@, m)]
<1>3. g[Router] = inbox' /\ \A p \in Places \ {Router} : g[p] = held[p]
  BY <1>1, <1>2, Apart, HeldIs
<1>4. g \in [Places -> Seq(Msgs)]
  <2>1. Append(held[Router], m) \in Seq(Msgs)
    BY <1>1, Apart
  <2> QED BY <1>1, <2>1
<1> HIDE DEF g
<1>5. \A j \in T!TaskThreads : T!InHand(j)' \o m_recvMsgList'[j] = g[j]
  BY <1>2, <1>3, Apart, HeldIs DEF T!InHand
<1>6. m_sendMsgList' = g[Replies] /\ sent' = g[Outside]
  BY <1>2, <1>3, Apart, HeldIs
<1> QED
  BY <1>3, <1>4, <1>5, <1>6, HeldEquals DEF g

LEMMA Taken ==
  ASSUME PathInv, NEW i \in T!TaskThreads, T!disposeTake(i), InTasks
  PROVE  held' = held
<1>1. Shapes
  BY ShapesHold
<1>2. /\ taskPc[i] = "dispose" /\ taskPc' = [taskPc EXCEPT ![i] = "process"]
      /\ msg' = [msg EXCEPT ![i] = Head(m_recvMsgList[i])]
      /\ m_recvMsgList' = [m_recvMsgList EXCEPT ![i] = Tail(@)]
      /\ m_recvMsgList[i] # <<>>
  BY DEF T!disposeTake, T!Goto
<1>3. ASSUME NEW j \in T!TaskThreads
      PROVE  T!InHand(j)' \o m_recvMsgList'[j] = T!InHand(j) \o m_recvMsgList[j]
  <2>1. CASE j = i
    <3>1. T!InHand(i) = <<>> /\ T!InHand(i)' = <<Head(m_recvMsgList[i])>>
      BY <1>1, <1>2 DEF T!InHand, Shapes
    <3>2. m_recvMsgList[i] \in Seq(Msgs) /\ m_recvMsgList'[i] = Tail(m_recvMsgList[i])
      BY <1>1, <1>2 DEF Shapes
    <3>3. <<Head(m_recvMsgList[i])>> \o Tail(m_recvMsgList[i]) = <<>> \o m_recvMsgList[i]
      BY <1>2, <3>2
    <3> QED BY <2>1, <3>1, <3>2, <3>3
  <2>2. CASE j # i
    BY <1>1, <1>2, <2>2 DEF T!InHand, Shapes
  <2> QED BY <2>1, <2>2
<1> QED
  BY <1>3, Stay DEF InTasks, zmqVars

(* Nothing is lost when start() gives up: nobody was served yet.             *)
LEMMA NothingLost ==
  ASSUME PathInv, Z!startAbandon(Ctl), InService
  PROVE  held' = held
<1>1. Shapes
  BY ShapesHold
<1>2. requested = {}
  BY DEF Z!startAbandon, PathInv, EarlyInv
<1>3. DOMAIN inbox = {}
  BY <1>2, Apart, HeldIs DEF PathInv, OnePlace, InOnePlace
<1>4. inbox = <<>>
  BY <1>1, <1>3 DEF Shapes
<1>5. inbox' = inbox /\ m_sendMsgList' = m_sendMsgList /\ sent' = sent
  BY <1>4 DEF Z!startAbandon, Z!closeHandle
<1> QED
  BY <1>5, StayInside

(* What a step does to the places of requests: nothing, or the first request   *)
(* of one goes to the end of another, or a new one comes to the ROUTER.       *)
Passes(a, b) ==
  /\ held[a] # <<>>
  /\ held' = [held EXCEPT ![a] = Tail(@), ![b] = Append(@, Head(held[a]))]

(* No request moves; one comes to the ROUTER; the dispatch thread hands the   *)
(* first of the ROUTER to a thread; a thread answers; a reply is sent.        *)
Stays == held' = held /\ requested' = requested /\ delivered' = delivered

Comes(m) ==
  /\ held' = [held EXCEPT ![Router] = Append(@, m)]
  /\ m \notin requested /\ requested' = requested \cup {m} /\ delivered' = delivered

GoesToThread(i) ==
  /\ Passes(Router, i) /\ i \in T!nSelect(Head(held[Router]))
  /\ requested' = requested /\ delivered' = delivered \cup {Head(held[Router])}

IsAnswered(i) == Passes(i, Replies) /\ requested' = requested /\ delivered' = delivered

IsSent == Passes(Replies, Outside) /\ requested' = requested /\ delivered' = delivered

Flows ==
  \/ Stays \/ IsSent \/ \E m \in Msgs : Comes(m)
  \/ \E i \in T!TaskThreads : GoesToThread(i) \/ IsAnswered(i)

(* Every step moves requests in one of the ways of Flows.                    *)
LEMMA FlowStep == PathInv /\ [Next]_vars => Flows
<1> DEFINE P == Flows
<1> SUFFICES ASSUME PathInv, [Next]_vars PROVE P
  OBVIOUS
<1>0. Shapes
  BY ShapesHold
<1>1. held' = held /\ requested' = requested /\ delivered' = delivered => P
  BY DEF Flows, Stays
<1>2. InTasks => requested' = requested /\ delivered' = delivered
  BY DEF InTasks, zmqVars
<1>3. CASE UNCHANGED vars
  <2>1. UNCHANGED zmqVars /\ UNCHANGED taskVars
    BY <1>3 DEF vars
  <2>2. m_recvMsgList' = m_recvMsgList /\ \A i \in T!TaskThreads : T!InHand(i)' = T!InHand(i)
    BY <2>1 DEF taskVars, T!InHand
  <2> QED BY <1>1, <1>2, <2>1, <2>2, StayOutside DEF InTasks
<1>4. ASSUME T!init, InTasks PROVE P
  <2>1. m_recvMsgList' = m_recvMsgList /\ \A i \in T!TaskThreads : T!InHand(i)' = T!InHand(i)
    <3>1. created \in T!TaskThreads
      BY <1>0, <1>4, PathAssumption DEF T!init, Shapes, T!TaskThreads, T!TaskAssumption
    <3>2. taskPc[created] = "new"
      BY <1>0, <3>1, PathAssumption DEF Shapes, T!TaskThreads, T!TaskAssumption
    <3> QED BY <1>0, <1>4, <3>2 DEF T!init, T!InHand, Shapes
  <2> QED BY <1>1, <1>2, <1>4, <2>1, StayOutside
<1>5. ASSUME T!newNetService, InTasks PROVE P
  BY <1>1, <1>2, <1>5, StayOutside DEF T!newNetService, T!threadVars, T!InHand
<1>6. ASSUME NEW i \in T!TaskThreads, InTasks,
             T!run(i) \/ T!enterDispose(i) \/ T!isQuitThread(i) \/ T!disposeDone(i)
      PROVE  P
  <2>1. /\ taskPc[i] # "process" /\ taskPc'[i] # "process" /\ msg' = msg
        /\ m_recvMsgList' = m_recvMsgList
        /\ \A j \in T!TaskThreads \ {i} : taskPc'[j] = taskPc[j]
    BY <1>0, <1>6 DEF T!run, T!enterDispose, T!isQuitThread, T!disposeDone, T!Goto, Shapes
  <2>2. \A j \in T!TaskThreads : T!InHand(j)' = T!InHand(j)
    BY <2>1 DEF T!InHand
  <2> QED BY <1>1, <1>2, <1>6, <2>1, <2>2, StayOutside
<1>7. ASSUME NEW i \in T!TaskThreads, InTasks, T!free(i) PROVE P
  <2>1. m_recvMsgList' = m_recvMsgList /\ \A j \in T!TaskThreads : T!InHand(j)' = T!InHand(j)
    BY <1>0, <1>7 DEF T!free, T!Goto, T!InHand, Shapes
  <2> QED BY <1>1, <1>2, <1>7, <2>1, StayOutside
<1>8. ASSUME NEW i \in T!TaskThreads, InTasks, T!disposeTake(i) PROVE P
  BY <1>1, <1>2, <1>8, Taken
<1>9. ASSUME NEW i \in T!TaskThreads, replyMessage(i) PROVE P
  <2>1. CASE crashed'
    <3>1. InTasks /\ m_recvMsgList' = m_recvMsgList /\ msg' = msg /\ taskPc' = taskPc
      BY <1>9, <2>1 DEF replyMessage, T!reply, InTasks
    <3> QED BY <1>1, <1>2, <3>1, StayOutside DEF T!InHand
  <2>2. CASE ~crashed'
    <3>1. requested' = requested /\ delivered' = delivered
      BY <1>9, <2>2 DEF replyMessage, Z!sendMessageQueue
    <3>2. Passes(i, Replies)
      BY <1>9, <2>2, MovedOut DEF Passes
    <3> QED BY <3>1, <3>2 DEF Flows, IsAnswered
  <2> QED BY <2>1, <2>2
<1>10. ASSUME NEW m \in Msgs, onRecvMessage(m) PROVE P
  <2>1. requested' = requested /\ delivered' = delivered \cup {m}
    BY <1>10 DEF onRecvMessage, Z!recvMessage
  <2>2. PICK i \in T!TaskThreads :
          /\ i \in T!nSelect(m) /\ held[Router] # <<>> /\ m = Head(held[Router])
          /\ held' = [held EXCEPT ![Router] = Tail(@), ![i] = Append(@, m)]
    BY <1>10, MovedIn
  <2>3. GoesToThread(i)
    BY <2>1, <2>2 DEF GoesToThread, Passes
  <2> QED BY <2>3 DEF Flows
<1>11. ASSUME startService PROVE P
  <2>1. InService /\ UNCHANGED <<requested, inbox, delivered, accepted, sent, m_sendMsgList>>
    BY <1>11 DEF startService, Z!start, Z!startRunning, Z!startOpen, Z!msgVars
  <2> QED BY <1>1, <2>1, StayInside
<1>12. ASSUME Z!startBound(Ctl) \/ Z!startFailed(Ctl), InService PROVE P
  BY <1>1, <1>12, StayInside DEF Z!startBound, Z!startFailed, Z!msgVars
<1>13. ASSUME Z!startAbandon(Ctl), InService PROVE P
  BY <1>1, <1>13, NothingLost DEF Z!startAbandon
<1>14. ASSUME InService, Z!dispatchCheck \/ Z!dispatchPoll \/ Z!dispatchPollFails
                          \/ Z!dispatchEvent \/ Z!dispatchRestart
       PROVE  P
  BY <1>1, <1>14, StayInside
     DEF Z!dispatchCheck, Z!dispatchPoll, Z!dispatchPollFails, Z!dispatchEvent,
         Z!dispatchRestart, Z!startRunning, Z!startOpen, Z!msgVars
<1>15. ASSUME InService, Z!sendMessage PROVE P
  <2>1. requested' = requested /\ delivered' = delivered /\ inbox' = inbox
    BY <1>15 DEF Z!sendMessage
  <2>2. CASE m_sendMsgList = <<>>
    BY <1>1, <1>15, <2>1, <2>2, StayInside DEF Z!sendMessage
  <2>3. CASE m_sendMsgList # <<>>
    <3>1. Passes(Replies, Outside)
      BY <1>15, <2>3, MovedAway DEF Passes
    <3> QED BY <2>1, <3>1 DEF Flows, IsSent
  <2> QED BY <2>2, <2>3
<1>16. ASSUME NEW i \in T!TaskThreads, InService, Z!pushLock(i) \/ Z!pushEvent(i) PROVE P
  BY <1>1, <1>16, StayInside DEF Z!pushLock, Z!pushEvent, Z!msgVars
<1>17. ASSUME NEW m \in Msgs, InService, Z!clientRequest(m) PROVE P
  <2>1. m \notin requested /\ requested' = requested \cup {m} /\ delivered' = delivered
    BY <1>17 DEF Z!clientRequest
  <2>2. held' = [held EXCEPT ![Router] = Append(@, m)]
    BY <1>17, Added
  <2> QED BY <1>17, <2>1, <2>2 DEF Flows, Comes
<1> HIDE DEF P
<1> QED
  BY <1>3, <1>4, <1>5, <1>6, <1>7, <1>8, <1>9, <1>10, <1>11, <1>12, <1>13, <1>14, <1>15, <1>16,
     <1>17, NextCases

(* Entries of a sequence whose first goes away, or that gets another at its end. *)
LEMMA TailEntries ==
  ASSUME NEW s \in Seq(Msgs), s # <<>>, NEW k \in DOMAIN Tail(s)
  PROVE  k + 1 \in DOMAIN s /\ Tail(s)[k] = s[k + 1]
OBVIOUS

LEMMA AppendEntries ==
  ASSUME NEW s \in Seq(Msgs), NEW m \in Msgs, NEW k \in DOMAIN Append(s, m)
  PROVE  (k \in DOMAIN s /\ Append(s, m)[k] = s[k]) \/ Append(s, m)[k] = m
OBVIOUS

(* No step of Flows puts a request in two places or in the wrong thread.     *)
LEMMA HeldStep == PathInv /\ [Next]_vars => OnePlace' /\ HandedOver' /\ RightThread'
<1> DEFINE P == OnePlace' /\ HandedOver' /\ RightThread'
<1> SUFFICES ASSUME PathInv, Flows PROVE P
  BY FlowStep
<1>1. held \in [Places -> Seq(Msgs)] /\ OnePlace /\ HandedOver /\ RightThread
  BY ShapesHold, HeldType DEF PathInv
<1>2. ASSUME Stays PROVE P
  BY <1>1, <1>2 DEF Stays, OnePlace, InOnePlace, HandedOver, RightThread, T!nSelect
<1>3. (\A j \in T!TaskThreads : held'[j] = held[j]) /\ delivered' = delivered
        => HandedOver' /\ RightThread'
  BY <1>1 DEF HandedOver, RightThread, T!nSelect
<1>4. ASSUME IsSent PROVE P
  <2>1. InOnePlace(held', requested)
    BY <1>1, <1>4, Apart, Moves DEF IsSent, Passes, OnePlace
  <2>2. \A j \in T!TaskThreads : held'[j] = held[j]
    BY <1>1, <1>4, Apart DEF IsSent, Passes
  <2> QED BY <1>3, <1>4, <2>1, <2>2 DEF IsSent, OnePlace, InOnePlace
<1>5. ASSUME NEW m \in Msgs, Comes(m) PROVE P
  <2>1. InOnePlace(held', requested')
    BY <1>1, <1>5, Apart, Arrives DEF Comes, OnePlace
  <2>2. \A j \in T!TaskThreads : held'[j] = held[j]
    BY <1>1, <1>5, Apart DEF Comes
  <2> QED BY <1>3, <1>5, <2>1, <2>2 DEF Comes, OnePlace, InOnePlace
<1>6. ASSUME NEW i \in T!TaskThreads, GoesToThread(i) PROVE P
  <2> DEFINE m == Head(held[Router])
  <2>1. i \in Places /\ Router \in Places /\ i # Router
    BY Apart
  <2>2. InOnePlace(held', requested)
    BY <1>1, <1>6, <2>1, Moves DEF GoesToThread, Passes, OnePlace
  <2>3. /\ held[i] \in Seq(Msgs) /\ m \in Msgs
        /\ held'[i] = Append(held[i], m) /\ \A j \in T!TaskThreads \ {i} : held'[j] = held[j]
    BY <1>1, <1>6, <2>1, Apart DEF GoesToThread, Passes
  <2>4. i \in T!nSelect(m) /\ delivered' = delivered \cup {m} /\ requested' = requested
    BY <1>6 DEF GoesToThread
  <2> HIDE DEF m
  <2>5. ASSUME NEW j \in T!TaskThreads, NEW k \in DOMAIN held'[j]
        PROVE  held'[j][k] \in delivered' /\ j \in T!nSelect(held'[j][k])
    <3>1. CASE j # i
      BY <1>1, <2>3, <2>4, <2>5, <3>1 DEF HandedOver, RightThread
    <3>2. CASE j = i
      <4>1. k \in DOMAIN Append(held[i], m)
        BY <2>3, <2>5, <3>2
      <4>2. \/ k \in DOMAIN held[i] /\ held'[i][k] = held[i][k]
            \/ held'[i][k] = m
        BY <2>3, <4>1, AppendEntries
      <4> QED BY <1>1, <2>4, <3>2, <4>2 DEF HandedOver, RightThread
    <3> QED BY <3>1, <3>2
  <2>6. HandedOver' /\ RightThread'
    BY <2>5 DEF HandedOver, RightThread, T!nSelect
  <2> QED BY <2>2, <2>4, <2>6 DEF OnePlace, InOnePlace
<1>7. ASSUME NEW i \in T!TaskThreads, IsAnswered(i) PROVE P
  <2>1. i \in Places /\ Replies \in Places /\ i # Replies
    BY Apart
  <2>2. InOnePlace(held', requested)
    BY <1>1, <1>7, <2>1, Moves DEF IsAnswered, Passes, OnePlace
  <2>3. /\ held[i] \in Seq(Msgs) /\ held[i] # <<>>
        /\ held'[i] = Tail(held[i]) /\ \A j \in T!TaskThreads \ {i} : held'[j] = held[j]
    BY <1>1, <1>7, <2>1, Apart DEF IsAnswered, Passes
  <2>4. ASSUME NEW j \in T!TaskThreads, NEW k \in DOMAIN held'[j]
        PROVE  held'[j][k] \in delivered /\ j \in T!nSelect(held'[j][k])
    <3>1. CASE j # i
      BY <1>1, <2>3, <2>4, <3>1 DEF HandedOver, RightThread
    <3>2. CASE j = i
      <4>1. k + 1 \in DOMAIN held[i] /\ held'[i][k] = held[i][k + 1]
        BY <2>3, <2>4, <3>2, TailEntries
      <4> QED BY <1>1, <3>2, <4>1 DEF HandedOver, RightThread
    <3> QED BY <3>1, <3>2
  <2>5. HandedOver' /\ RightThread'
    BY <1>7, <2>4 DEF IsAnswered, HandedOver, RightThread, T!nSelect
  <2> QED BY <1>7, <2>2, <2>5 DEF IsAnswered, OnePlace, InOnePlace
<1> HIDE DEF P
<1> QED BY <1>2, <1>4, <1>5, <1>6, <1>7 DEF Flows

-----------------------------------------------------------------------------
LEMMA PartsInit == Init => T!Init /\ TP!Init /\ Z!Init /\ ZP!Init
BY DEF Init, T!Init, TP!Init, T!TaskThreads, TP!TaskThreads,
       Z!Init, ZP!Init, Z!NULL, ZP!NULL, Z!Handles, ZP!Handles, Z!Threads, ZP!Threads

LEMMA PathInit == Init => PathInv
<1> SUFFICES ASSUME Init PROVE PathInv
  OBVIOUS
<1>1. TP!TypeInv
  BY PartsInit, TaskAssumptionHolds, TP!TypeInit
<1>2. ZP!IInv
  BY PartsInit, ServiceAssumptionHolds, ZP!InvInit
<1>3. EarlyInv
  BY Apart DEF Init, Z!Init, EarlyInv, Z!Threads
<1>4. \A i \in T!TaskThreads : held[i] = <<>>
  <2>1. \A i \in T!TaskThreads : T!InHand(i) = <<>> /\ m_recvMsgList[i] = <<>>
    BY DEF Init, T!Init, T!InHand
  <2> QED BY <2>1, HeldIs
<1>5. requested = {} /\ held[Router] = <<>> /\ held[Replies] = <<>> /\ held[Outside] = <<>>
  BY HeldIs DEF Init, Z!Init
<1>6. \A p \in DOMAIN held : DOMAIN held[p] = {}
  BY <1>4, <1>5, HeldIs DEF Places
<1>7. OnePlace /\ HandedOver /\ RightThread
  BY <1>4, <1>5, <1>6 DEF OnePlace, InOnePlace, HandedOver, RightThread
<1> QED
  BY <1>1, <1>2, <1>3, <1>7 DEF PathInv

LEMMA PathStep == PathInv /\ [Next]_vars => PathInv'
<1> SUFFICES ASSUME PathInv, [Next]_vars PROVE PathInv'
  OBVIOUS
<1>1. TP!TypeInv'
  BY TasksStep, TaskNext, TaskAssumptionHolds, TP!TypeStep DEF PathInv
<1>2. ZP!IInv'
  BY ServiceStep, ServiceNext, ServiceAssumptionHolds, ZP!InvStep DEF PathInv
<1> QED
  BY <1>1, <1>2, EarlyStep, HeldStep DEF PathInv

(* PathInv is inductive: it holds in every state of the whole program.       *)
THEOREM Invariance == Spec => []PathInv
BY PathInit, PathStep, PTL DEF Spec

(* No request is lost and none is answered twice, however the threads of the  *)
(* program interleave.                                                       *)
THEOREM EveryRequestInOnePlace == Spec => []OnePlace
<1>1. PathInv => OnePlace
  BY DEF PathInv
<1> QED
  BY Invariance, <1>1, PTL

(* The program drives the service only by steps of its specification: the     *)
(* task threads answer requests they were handed, each once.                 *)
THEOREM ServiceImplemented == Spec => ServiceContract
BY PartsInit, ServiceStep, Invariance, PTL DEF Spec, ServiceContract, Z!Spec

-----------------------------------------------------------------------------
(* What was proved of the parts therefore holds of the program.              *)

(* Replies leave in the order they were accepted, none lost or doubled; the   *)
(* dispatch thread never uses a socket that is not open, never blocks outside *)
(* zmq_poll, is never reassigned while it runs.                              *)
THEOREM ServiceSafe ==
  Spec => [](/\ Z!RepliesConserved /\ Z!PushNeverOnClosed /\ Z!DispatchSocketsValid
             /\ Z!DispatchNeverBlocks /\ Z!NoTerminate)
<1>1. ZP!IInv => /\ Z!RepliesConserved /\ Z!PushNeverOnClosed /\ Z!DispatchSocketsValid
                 /\ Z!DispatchNeverBlocks /\ Z!NoTerminate
  <2> SUFFICES ASSUME ZP!IInv
               PROVE  /\ Z!RepliesConserved /\ Z!PushNeverOnClosed /\ Z!DispatchSocketsValid
                      /\ Z!DispatchNeverBlocks /\ Z!NoTerminate
    OBVIOUS
  <2>1. Z!RepliesConserved
    BY DEF ZP!IInv, ZP!RepliesConserved, Z!RepliesConserved
  <2>2. Z!PushNeverOnClosed
    BY Apart, ServiceAssumptionHolds
       DEF ZP!IInv, ZP!MutexInv, ZP!SocketInv, Z!PushNeverOnClosed, Z!Threads, ZP!Threads,
           Z!NULL, ZP!NULL, ZP!ServiceAssumption
  <2>3. Z!DispatchSocketsValid
    BY DEF ZP!IInv, ZP!DispatchInv, ZP!Loop, Z!DispatchSocketsValid
  <2>4. Z!DispatchNeverBlocks
    BY DEF ZP!IInv, ZP!DispatchInv, Z!DispatchNeverBlocks
  <2>5. Z!NoTerminate
    BY DEF ZP!IInv, ZP!PhaseInv, ZP!Loop, Z!NoTerminate
  <2> QED BY <2>1, <2>2, <2>3, <2>4, <2>5
<1>2. PathInv => ZP!IInv
  BY DEF PathInv
<1> QED
  BY Invariance, <1>1, <1>2, PTL

(* Every task thread answers the requests of its queue in their order.       *)
THEOREM ThreadsSafe == Spec => T!ThreadOrder
<1>1. Spec => TP!Spec
  BY PartsInit, TasksStep, TaskNext, PTL DEF Spec, TP!Spec
<1>2. TP!Spec => TP!ThreadOrder
  BY TaskAssumptionHolds, TP!ThreadsImplementQueues
<1>3. TP!ThreadOrder => T!ThreadOrder
  <2>1. TP!PerThread!Init => T!PerThread!Init
    BY DEF TP!PerThread!Init, T!PerThread!Init, TP!InHand, T!InHand, TP!TaskThreads, T!TaskThreads
  <2>2. [TP!PerThread!Next]_[i \in TP!TaskThreads |-> TP!InHand(i) \o m_recvMsgList[i]]
          => [T!PerThread!Next]_[i \in T!TaskThreads |-> T!InHand(i) \o m_recvMsgList[i]]
    BY DEF TP!PerThread!Next, T!PerThread!Next, TP!PerThread!Put, T!PerThread!Put,
           TP!PerThread!Get, T!PerThread!Get, TP!InHand, T!InHand, TP!TaskThreads, T!TaskThreads
  <2> QED
    BY <2>1, <2>2, PTL DEF TP!ThreadOrder, T!ThreadOrder, TP!PerThread!Spec, T!PerThread!Spec
<1> QED
  BY <1>1, <1>2, <1>3

-----------------------------------------------------------------------------
(* The requests of one client in a sequence, which OfClient builds by recursion. *)

(* A set of naturals that holds 0 and each successor of an element is Nat.     *)
LEMMA NatSetInduction ==
  ASSUME NEW S, 0 \in S, \A n \in Nat : n \in S => n + 1 \in S
  PROVE  \A n \in Nat : n \in S
<1> DEFINE R == OpToRel(<, Nat)
           others == Nat \ S
<1>1. \A x, y \in Nat : <<x, y>> \in R <=> x < y
  BY DEF OpToRel
<1>2. IsWellFoundedOn(R, Nat)
  BY NatLessThanWellFounded, Zenon
<1> HIDE DEF R
<1>3. SUFFICES ASSUME others # {} PROVE FALSE
  OBVIOUS
<1>4. PICK n \in others : \A y \in others : ~ (<<y, n>> \in R)
  BY <1>2, <1>3, WFMin, Zenon
<1>5. n \in Nat /\ n # 0
  BY <1>4
<1>6. n - 1 \in Nat /\ <<n - 1, n>> \in R
  BY <1>1, <1>5
<1>7. n - 1 \in S
  BY <1>4, <1>6
<1> QED BY <1>4, <1>5, <1>6, <1>7

(* g is the recursive function on 0 .. n with base b and step F.               *)
Approximates(g, n, X, b, F) ==
  /\ g \in [0 .. n -> X] /\ g[0] = b
  /\ \A k \in 0 .. n - 1 : g[k + 1] = F[k][g[k]]

(* Two approximations agree where both are defined.                           *)
Agree(g, h, m, n) == \A k \in Nat : k <= m /\ k <= n => g[k] = h[k]

(* The recursion leaves no choice.                                             *)
LEMMA ApproximationsAgree ==
  ASSUME NEW X, NEW b \in X, NEW F \in [Nat -> [X -> X]], NEW m \in Nat, NEW n \in Nat,
         NEW g, Approximates(g, m, X, b, F), NEW h, Approximates(h, n, X, b, F)
  PROVE  Agree(g, h, m, n)
<1> USE DEF Agree
<1> DEFINE S == {k \in Nat : k <= m /\ k <= n => g[k] = h[k]}
<1>1. 0 \in S
  BY DEF Approximates
<1>2. ASSUME NEW k \in Nat, k \in S PROVE k + 1 \in S
  <2>1. SUFFICES ASSUME k + 1 <= m, k + 1 <= n PROVE g[k + 1] = h[k + 1]
    OBVIOUS
  <2>2. k \in 0 .. m - 1 /\ k \in 0 .. n - 1 /\ g[k] = h[k]
    BY <1>2, <2>1
  <2> QED BY <2>2 DEF Approximates
<1> HIDE DEF S
<1>3. \A k \in Nat : k \in S
  BY <1>1, <1>2, NatSetInduction
<1> QED BY <1>3 DEF S

(* There is one of every length.                                              *)
LEMMA ApproximationsExist ==
  ASSUME NEW X, NEW b \in X, NEW F \in [Nat -> [X -> X]]
  PROVE  \A n \in Nat : \E g : Approximates(g, n, X, b, F)
<1> DEFINE S == {n \in Nat : \E g : Approximates(g, n, X, b, F)}
<1>1. 0 \in S
  <2> DEFINE g == [k \in 0 .. 0 |-> b]
  <2>1. Approximates(g, 0, X, b, F)
    BY DEF Approximates
  <2> QED BY <2>1
<1>2. ASSUME NEW n \in Nat, n \in S PROVE n + 1 \in S
  <2>1. PICK g : Approximates(g, n, X, b, F)
    BY <1>2
  <2> DEFINE h == [k \in 0 .. n + 1 |-> IF k <= n THEN g[k] ELSE F[n][g[n]]]
  <2>2. \A k \in 0 .. n : g[k] \in X
    BY <2>1 DEF Approximates
  <2>3. F[n][g[n]] \in X
    BY <2>2
  <2>4. h \in [0 .. n + 1 -> X] /\ h[0] = b
    BY <2>1, <2>2, <2>3 DEF Approximates
  <2>5. ASSUME NEW k \in 0 .. n PROVE h[k + 1] = F[k][h[k]]
    <3>1. h[k] = g[k]
      OBVIOUS
    <3>2. CASE k = n
      BY <3>1, <3>2
    <3>3. CASE k # n
      <4>1. k \in 0 .. n - 1 /\ h[k + 1] = g[k + 1]
        BY <3>3
      <4> QED BY <2>1, <3>1, <4>1 DEF Approximates
    <3> QED BY <3>2, <3>3
  <2> HIDE DEF h
  <2>6. (n + 1) - 1 = n
    OBVIOUS
  <2>7. Approximates(h, n + 1, X, b, F)
    BY <2>4, <2>5, <2>6 DEF Approximates
  <2> QED BY <2>7
<1> HIDE DEF S
<1>3. \A n \in Nat : n \in S
  BY <1>1, <1>2, NatSetInduction
<1> QED BY <1>3 DEF S


(* What OfClient does with each entry of a sequence.                           *)
Chooses(c, s) ==
  [k \in Nat |-> [q \in Seq(Msgs) |->
    IF k + 1 \in DOMAIN s /\ ClientOf[s[k + 1]] = c THEN Append(q, s[k + 1]) ELSE q]]

(* Chooses(c, s)[k] maps a sequence of requests to one, by its definition.    *)
LEMMA ChoosesType ==
  ASSUME NEW s \in Seq(Msgs), NEW c
  PROVE  /\ Chooses(c, s) \in [Nat -> [Seq(Msgs) -> Seq(Msgs)]]
         /\ \A k \in Nat : \A q \in Seq(Msgs) : Chooses(c, s)[k][q] =
              IF k + 1 \in DOMAIN s /\ ClientOf[s[k + 1]] = c THEN Append(q, s[k + 1]) ELSE q
<1>1. ASSUME NEW k \in Nat, NEW q \in Seq(Msgs), k + 1 \in DOMAIN s
      PROVE  Append(q, s[k + 1]) \in Seq(Msgs)
  <2>1. s[k + 1] \in Msgs
    BY <1>1
  <2> QED BY <2>1
<1> QED BY <1>1 DEF Chooses

(* OfClient unfolds: the empty choice, then the last request taken or left.  *)
LEMMA OfClientIs ==
  ASSUME NEW s \in Seq(Msgs), NEW c
  PROVE  \E g : /\ Approximates(g, Len(s), Seq(Msgs), <<>>, Chooses(c, s))
                /\ OfClient(c, s) = g[Len(s)]
<1> DEFINE F == Chooses(c, s)
           X == Seq(Msgs)
           L == Len(s)
           D(of, n) == IF n = 0 THEN <<>>
                       ELSE IF ClientOf[s[n]] = c THEN Append(of[n - 1], s[n]) ELSE of[n - 1]
           G(of) == of = [n \in 0..L |-> D(of, n)]
           of == CHOOSE f : G(f)
<1>1. L \in Nat /\ DOMAIN s = 1..L /\ <<>> \in X
  OBVIOUS
<1>2. /\ F \in [Nat -> [X -> X]]
      /\ \A k \in Nat : \A q \in X : F[k][q] =
           IF k + 1 \in DOMAIN s /\ ClientOf[s[k + 1]] = c THEN Append(q, s[k + 1]) ELSE q
  BY ChoosesType
<1> HIDE DEF F
<1>3. PICK g : Approximates(g, L, X, <<>>, F)
  BY <1>1, <1>2, ApproximationsExist
<1>4. /\ g \in [0..L -> X] /\ g[0] = <<>>
      /\ \A k \in 0..L - 1 : g[k + 1] = F[k][g[k]]
  BY <1>3 DEF Approximates
<1>5. ASSUME NEW n \in 0..L PROVE g[n] = D(g, n)
  <2>1. CASE n = 0
    BY <1>4, <2>1
  <2>2. CASE n # 0
    <3>1. n - 1 \in 0..L - 1 /\ n - 1 \in Nat /\ (n - 1) + 1 = n /\ n \in DOMAIN s
      BY <1>1, <2>2
    <3>2. g[n - 1] \in X
      BY <1>4, <3>1
    <3>3. g[n] = F[n - 1][g[n - 1]]
      BY <1>4, <3>1
    <3>4. F[n - 1][g[n - 1]] = IF ClientOf[s[n]] = c THEN Append(g[n - 1], s[n]) ELSE g[n - 1]
      BY <1>2, <3>1, <3>2
    <3> QED BY <2>2, <3>3, <3>4
  <2> QED BY <2>1, <2>2
<1>6. G(g)
  <2>1. g = [n \in 0..L |-> g[n]]
    BY <1>4
  <2>2. [n \in 0..L |-> g[n]] = [n \in 0..L |-> D(g, n)]
    BY <1>5, Zenon
  <2> QED BY <2>1, <2>2
<1> HIDE DEF D
<1>7. G(of)
  BY <1>6, Zenon
<1>8. OfClient(c, s) = of[L]
  BY DEF OfClient, D
<1> HIDE DEF of
<1>9. \A n \in 0..L : of[n] = D(of, n)
  BY <1>7
<1>10. of[0] = <<>>
  BY <1>1, <1>9 DEF D
<1>11. ASSUME NEW k \in 0..L - 1, of[k] \in X PROVE of[k + 1] = F[k][of[k]] /\ of[k + 1] \in X
  <2>1. k \in Nat /\ k + 1 \in 0..L /\ k + 1 # 0 /\ (k + 1) - 1 = k /\ k + 1 \in DOMAIN s
    BY <1>1
  <2>2. of[k + 1] = IF ClientOf[s[k + 1]] = c THEN Append(of[k], s[k + 1]) ELSE of[k]
    BY <1>9, <2>1 DEF D
  <2>3. F[k][of[k]] = IF ClientOf[s[k + 1]] = c THEN Append(of[k], s[k + 1]) ELSE of[k]
    BY <1>2, <1>11, <2>1
  <2>4. F[k][of[k]] \in X
    BY <1>2, <1>11, <2>1
  <2> QED BY <2>2, <2>3, <2>4
<1>12. \A k \in 0..L : of[k] \in X
  <2> DEFINE S == {n \in Nat : n <= L => of[n] \in X}
  <2>1. 0 \in S
    BY <1>1, <1>10
  <2>2. ASSUME NEW n \in Nat, n \in S PROVE n + 1 \in S
    <3>1. CASE n + 1 <= L
      <4>1. n \in 0..L - 1 /\ of[n] \in X
        BY <1>1, <2>2, <3>1
      <4> QED BY <1>11, <4>1
    <3> QED BY <3>1
  <2> HIDE DEF S
  <2>3. \A n \in Nat : n \in S
    BY <2>1, <2>2, NatSetInduction
  <2> QED BY <1>1, <2>3 DEF S
<1>13. Approximates(of, L, X, <<>>, F)
  <2>1. of \in [0..L -> X]
    BY <1>7, <1>12
  <2>2. ASSUME NEW k \in 0..L - 1 PROVE of[k + 1] = F[k][of[k]]
    <3>1. k \in 0..L
      BY <1>1
    <3> QED BY <1>11, <1>12, <3>1
  <2> QED BY <1>10, <2>1, <2>2 DEF Approximates
<1> QED BY <1>8, <1>13 DEF F

(* OfClient returns a sequence of requests.                                  *)
LEMMA OfClientType ==
  ASSUME NEW s \in Seq(Msgs), NEW c
  PROVE  OfClient(c, s) \in Seq(Msgs)
<1>1. PICK g : /\ Approximates(g, Len(s), Seq(Msgs), <<>>, Chooses(c, s))
               /\ OfClient(c, s) = g[Len(s)]
  BY OfClientIs
<1>2. Len(s) \in 0..Len(s) /\ g \in [0..Len(s) -> Seq(Msgs)]
  BY <1>1 DEF Approximates
<1> QED BY <1>1, <1>2

(* A sequence in which m comes last.                                           *)
LEMMA OfClientAppend ==
  ASSUME NEW s \in Seq(Msgs), NEW m \in Msgs, NEW c
  PROVE  OfClient(c, Append(s, m)) =
           IF ClientOf[m] = c THEN Append(OfClient(c, s), m) ELSE OfClient(c, s)
<1> DEFINE X == Seq(Msgs)
           L == Len(s)
           t == Append(s, m)
<1>1. /\ L \in Nat /\ DOMAIN s = 1..L /\ <<>> \in X
      /\ t \in X /\ Len(t) = L + 1 /\ DOMAIN t = 1..L + 1 /\ t[L + 1] = m
      /\ \A k \in 1..L : t[k] = s[k]
  OBVIOUS
<1> HIDE DEF t
<1>2. PICK g : Approximates(g, L, X, <<>>, Chooses(c, s)) /\ OfClient(c, s) = g[L]
  BY OfClientIs
<1>3. PICK h : Approximates(h, L + 1, X, <<>>, Chooses(c, t)) /\ OfClient(c, t) = h[L + 1]
  BY <1>1, OfClientIs
<1>4. /\ Chooses(c, t) \in [Nat -> [X -> X]]
      /\ \A k \in Nat : \A q \in X : Chooses(c, t)[k][q] =
           IF k + 1 \in DOMAIN t /\ ClientOf[t[k + 1]] = c THEN Append(q, t[k + 1]) ELSE q
  BY <1>1, ChoosesType
<1>5. /\ Chooses(c, s) \in [Nat -> [X -> X]]
      /\ \A k \in Nat : \A q \in X : Chooses(c, s)[k][q] =
           IF k + 1 \in DOMAIN s /\ ClientOf[s[k + 1]] = c THEN Append(q, s[k + 1]) ELSE q
  BY ChoosesType
<1>6. /\ g \in [0..L -> X] /\ g[0] = <<>>
      /\ \A k \in 0..L - 1 : g[k + 1] = Chooses(c, s)[k][g[k]]
  BY <1>2 DEF Approximates
<1>7. Approximates(g, L, X, <<>>, Chooses(c, t))
  <2>1. ASSUME NEW k \in 0..L - 1 PROVE g[k + 1] = Chooses(c, t)[k][g[k]]
    <3>1. k \in Nat /\ k \in 0..L /\ k + 1 \in 1..L /\ k + 1 \in DOMAIN t /\ k + 1 \in DOMAIN s
      BY <1>1
    <3>2. g[k] \in X /\ t[k + 1] = s[k + 1]
      BY <1>1, <1>6, <3>1
    <3>3. Chooses(c, t)[k][g[k]] =
            IF ClientOf[t[k + 1]] = c THEN Append(g[k], t[k + 1]) ELSE g[k]
      BY <1>4, <3>1, <3>2
    <3>4. Chooses(c, s)[k][g[k]] =
            IF ClientOf[s[k + 1]] = c THEN Append(g[k], s[k + 1]) ELSE g[k]
      BY <1>5, <3>1, <3>2
    <3> QED BY <1>6, <3>2, <3>3, <3>4
  <2> QED BY <1>6, <2>1 DEF Approximates
<1>8. g[L] = h[L] /\ g[L] \in X
  <2>1. L <= L /\ L <= L + 1 /\ L + 1 \in Nat /\ L \in 0..L
    BY <1>1
  <2>2. \A k \in Nat : k <= L /\ k <= L + 1 => g[k] = h[k]
    <3> DEFINE F == Chooses(c, t)
               M == L + 1
               b == <<>>
    <3>1. L \in Nat /\ M \in Nat /\ b \in X /\ F \in [Nat -> [X -> X]]
      BY <1>1, <1>4
    <3>2. Approximates(g, L, X, b, F) /\ Approximates(h, M, X, b, F)
      BY <1>3, <1>7
    <3> HIDE DEF L, M, X, F, b
    <3>3. Agree(g, h, L, M)
      BY <3>1, <3>2, ApproximationsAgree
    <3> QED BY <3>3 DEF M, Agree
  <2> QED BY <1>1, <1>6, <2>1, <2>2
<1>9. h[L + 1] = Chooses(c, t)[L][h[L]]
  <2>1. L \in 0..(L + 1) - 1
    BY <1>1
  <2> QED BY <1>3, <2>1 DEF Approximates
<1>10. Chooses(c, t)[L][h[L]] = IF ClientOf[m] = c THEN Append(h[L], m) ELSE h[L]
  <2>1. L + 1 \in DOMAIN t
    BY <1>1
  <2> QED BY <1>1, <1>4, <1>8, <2>1
<1> QED BY <1>2, <1>3, <1>8, <1>9, <1>10 DEF t

(* Nothing is chosen from the empty sequence.                                *)
LEMMA OfClientEmpty ==
  ASSUME NEW c
  PROVE  OfClient(c, <<>>) = <<>>
<1>1. <<>> \in Seq(Msgs) /\ Len(<<>>) = 0
  OBVIOUS
<1>2. PICK g : /\ Approximates(g, 0, Seq(Msgs), <<>>, Chooses(c, <<>>))
               /\ OfClient(c, <<>>) = g[0]
  BY <1>1, OfClientIs
<1> QED BY <1>2 DEF Approximates

(* Appending to a joined sequence is appending to its second part.           *)
LEMMA AppendConcat ==
  ASSUME NEW s \in Seq(Msgs), NEW t \in Seq(Msgs), NEW m \in Msgs
  PROVE  Append(s \o t, m) = s \o Append(t, m)
OBVIOUS

(* The two parts of a sequence, one after the other.                           *)
LEMMA OfClientConcat ==
  ASSUME NEW s \in Seq(Msgs), NEW t \in Seq(Msgs), NEW c
  PROVE  OfClient(c, s \o t) = OfClient(c, s) \o OfClient(c, t)
<1> DEFINE S == {n \in Nat : \A u \in Seq(Msgs) :
                   Len(u) = n => OfClient(c, s \o u) = OfClient(c, s) \o OfClient(c, u)}
<1>1. 0 \in S
  <2>1. ASSUME NEW u \in Seq(Msgs), Len(u) = 0
        PROVE  OfClient(c, s \o u) = OfClient(c, s) \o OfClient(c, u)
    <3>1. u = <<>> /\ s \o u = s
      BY <2>1, EmptySeq
    <3>2. OfClient(c, s) \in Seq(Msgs)
      BY OfClientType
    <3> QED BY <3>1, <3>2, OfClientEmpty, ConcatEmptySeq
  <2> QED BY <2>1
<1>2. ASSUME NEW n \in Nat, n \in S PROVE n + 1 \in S
  <2>1. ASSUME NEW u \in Seq(Msgs), Len(u) = n + 1
        PROVE  OfClient(c, s \o u) = OfClient(c, s) \o OfClient(c, u)
    <3> DEFINE v == SubSeq(u, 1, n)
               m == u[n + 1]
    <3>1. v \in Seq(Msgs) /\ m \in Msgs /\ u = Append(v, m) /\ Len(v) = n
      BY <1>2, <2>1
    <3> HIDE DEF v, m
    <3>2. s \o u = Append(s \o v, m) /\ s \o v \in Seq(Msgs)
      BY <3>1
    <3>3. OfClient(c, s \o v) = OfClient(c, s) \o OfClient(c, v)
      BY <1>2, <3>1
    <3>4. OfClient(c, s \o u) = IF ClientOf[m] = c THEN Append(OfClient(c, s \o v), m)
                                                   ELSE OfClient(c, s \o v)
      <4> DEFINE w == s \o v
      <4>1. w \in Seq(Msgs) /\ m \in Msgs /\ s \o u = Append(w, m)
        BY <3>1, <3>2
      <4> HIDE DEF w
      <4>2. OfClient(c, Append(w, m)) =
              IF ClientOf[m] = c THEN Append(OfClient(c, w), m) ELSE OfClient(c, w)
        BY <4>1, OfClientAppend
      <4> QED BY <4>1, <4>2, Zenon DEF w
    <3>5. OfClient(c, u) = IF ClientOf[m] = c THEN Append(OfClient(c, v), m) ELSE OfClient(c, v)
      BY <3>1, OfClientAppend
    <3>6. OfClient(c, s) \in Seq(Msgs) /\ OfClient(c, v) \in Seq(Msgs)
      BY <3>1, OfClientType
    <3>7. Append(OfClient(c, s) \o OfClient(c, v), m) = OfClient(c, s) \o Append(OfClient(c, v), m)
      BY <3>1, <3>6, AppendConcat
    <3> QED BY <3>3, <3>4, <3>5, <3>7
  <2> QED BY <2>1
<1> HIDE DEF S
<1>3. \A n \in Nat : n \in S
  BY <1>1, <1>2, NatSetInduction
<1> QED BY <1>3 DEF S

(* A sequence without entries of c.                                            *)
LEMMA OfClientNone ==
  ASSUME NEW s \in Seq(Msgs), NEW c, \A k \in DOMAIN s : ClientOf[s[k]] # c
  PROVE  OfClient(c, s) = <<>>
<1> DEFINE S == {n \in Nat : \A u \in Seq(Msgs) :
                   Len(u) = n /\ (\A k \in DOMAIN u : ClientOf[u[k]] # c)
                     => OfClient(c, u) = <<>>}
<1>1. 0 \in S
  BY OfClientEmpty, EmptySeq
<1>2. ASSUME NEW n \in Nat, n \in S PROVE n + 1 \in S
  <2>1. ASSUME NEW u \in Seq(Msgs), Len(u) = n + 1, \A k \in DOMAIN u : ClientOf[u[k]] # c
        PROVE  OfClient(c, u) = <<>>
    <3> DEFINE v == SubSeq(u, 1, n)
               m == u[n + 1]
    <3>1. v \in Seq(Msgs) /\ m \in Msgs /\ u = Append(v, m) /\ Len(v) = n
      BY <1>2, <2>1
    <3>2. ClientOf[m] # c /\ \A k \in DOMAIN v : ClientOf[v[k]] # c
      BY <2>1
    <3> HIDE DEF v, m
    <3> QED BY <1>2, <3>1, <3>2, OfClientAppend
  <2> QED BY <2>1
<1> HIDE DEF S
<1>3. \A n \in Nat : n \in S
  BY <1>1, <1>2, NatSetInduction
<1> QED BY <1>3 DEF S

(* A sequence and its first entry.                                             *)
LEMMA OfClientHead ==
  ASSUME NEW s \in Seq(Msgs), s # <<>>, NEW c
  PROVE  OfClient(c, s) = IF ClientOf[Head(s)] = c THEN <<Head(s)>> \o OfClient(c, Tail(s))
                                                   ELSE OfClient(c, Tail(s))
<1> DEFINE h == Head(s)
           r == Tail(s)
           f == <<h>>
<1>1. h \in Msgs /\ r \in Seq(Msgs) /\ s = <<h>> \o r
  OBVIOUS
<1> HIDE DEF h, r
<1>2. f = Append(<<>>, h) /\ <<>> \in Seq(Msgs) /\ f \in Seq(Msgs)
  BY <1>1
<1>3. OfClient(c, Append(<<>>, h)) =
        IF ClientOf[h] = c THEN Append(OfClient(c, <<>>), h) ELSE OfClient(c, <<>>)
  BY <1>1, <1>2, OfClientAppend
<1>4. OfClient(c, f) = IF ClientOf[h] = c THEN f ELSE <<>>
  BY <1>2, <1>3, OfClientEmpty
<1>5. s = f \o r
  BY <1>1
<1> HIDE DEF f
<1>6. OfClient(c, s) = OfClient(c, f) \o OfClient(c, r)
  <2>1. OfClient(c, f \o r) = OfClient(c, f) \o OfClient(c, r)
    <3>1. f \in Seq(Msgs) /\ r \in Seq(Msgs)
      BY <1>1, <1>2
    <3> QED BY <3>1, OfClientConcat
  <2> QED BY <1>5, <2>1, Zenon
<1>7. OfClient(c, r) \in Seq(Msgs)
  BY <1>1, OfClientType
<1>8. <<>> \o OfClient(c, r) = OfClient(c, r)
  BY <1>7
<1> QED BY <1>4, <1>6, <1>8 DEF h, r, f

(* What FlattenSeq does with each sequence of q.                               *)
Joins(q) ==
  [k \in Nat |-> [u \in Seq(Msgs) |-> IF k + 1 \in DOMAIN q THEN u \o q[k + 1] ELSE u]]

(* One step of flattening yields a sequence of requests.                     *)
LEMMA JoinsType ==
  ASSUME NEW N \in Nat, NEW q \in [1..N -> Seq(Msgs)]
  PROVE  /\ Joins(q) \in [Nat -> [Seq(Msgs) -> Seq(Msgs)]]
         /\ \A k \in Nat : \A u \in Seq(Msgs) :
              Joins(q)[k][u] = IF k + 1 \in 1..N THEN u \o q[k + 1] ELSE u
<1>1. ASSUME NEW k \in Nat, NEW u \in Seq(Msgs), k + 1 \in 1..N
      PROVE  u \o q[k + 1] \in Seq(Msgs)
  <2>1. q[k + 1] \in Seq(Msgs)
    BY <1>1
  <2> QED BY <2>1
<1> QED BY <1>1 DEF Joins

(* FlattenSeq unfolds: the empty sequence, then one more part at the end.    *)
LEMMA FlattenIs ==
  ASSUME NEW N \in Nat \ {0}, NEW q \in [1..N -> Seq(Msgs)]
  PROVE  \E g : /\ Approximates(g, N, Seq(Msgs), <<>>, Joins(q))
                /\ FlattenSeq(q) = g[N]
<1> DEFINE F == Joins(q)
           X == Seq(Msgs)
           L == Len(q)
           D(flatten, i) == IF i = 1 THEN q[i] ELSE flatten[i - 1] \o q[i]
           G(flatten) == flatten = [i \in 1..L |-> D(flatten, i)]
           flatten == CHOOSE f : G(f)
<1>1. L = N /\ L # 0 /\ N \in Nat /\ <<>> \in X
  OBVIOUS
<1>2. /\ F \in [Nat -> [X -> X]]
      /\ \A k \in Nat : \A u \in X : F[k][u] = IF k + 1 \in 1..N THEN u \o q[k + 1] ELSE u
  BY JoinsType
<1> HIDE DEF F, L
<1>3. PICK g : Approximates(g, N, X, <<>>, F)
  BY <1>1, <1>2, ApproximationsExist
<1>4. /\ g \in [0..N -> X] /\ g[0] = <<>>
      /\ \A k \in 0..N - 1 : g[k + 1] = F[k][g[k]]
  BY <1>3 DEF Approximates
<1> DEFINE e == [i \in 1..N |-> g[i]]
<1>5. ASSUME NEW i \in 1..N PROVE g[i] = D(e, i)
  <2>1. i - 1 \in 0..N - 1 /\ i - 1 \in Nat /\ (i - 1) + 1 = i /\ q[i] \in X
    OBVIOUS
  <2>2. g[i - 1] \in X
    BY <1>4, <2>1
  <2>3. g[i] = F[i - 1][g[i - 1]]
    BY <1>4, <2>1
  <2>4. F[i - 1][g[i - 1]] = g[i - 1] \o q[i]
    BY <1>2, <2>1, <2>2
  <2>5. CASE i = 1
    <3>1. g[i - 1] = <<>>
      BY <1>4, <2>5
    <3>2. <<>> \o q[i] = q[i]
      BY <2>1
    <3> QED BY <2>3, <2>4, <2>5, <3>1, <3>2
  <2>6. CASE i # 1
    <3>1. i - 1 \in 1..N
      BY <2>6
    <3> QED BY <2>3, <2>4, <2>6, <3>1
  <2> QED BY <2>5, <2>6
<1>6. G(e)
  <2>1. e = [i \in 1..N |-> D(e, i)]
    <3>1. \A i \in 1..N : g[i] = D(e, i)
      BY <1>5
    <3> HIDE DEF D
    <3> QED BY <3>1, Zenon
  <2> QED BY <1>1, <2>1
<1> HIDE DEF D
<1>7. G(flatten)
  BY <1>6, Zenon
<1>8. FlattenSeq(q) = flatten[N]
  BY <1>1 DEF FlattenSeq, D, L
<1> HIDE DEF flatten
<1>9. \A i \in 1..N : flatten[i] = D(flatten, i)
  BY <1>1, <1>7
<1> DEFINE h == [k \in 0..N |-> IF k = 0 THEN <<>> ELSE flatten[k]]
<1>10. ASSUME NEW k \in 0..N - 1, h[k] \in X PROVE h[k + 1] = F[k][h[k]] /\ h[k + 1] \in X
  <2>1. k \in Nat /\ k \in 0..N /\ k + 1 \in 1..N /\ k + 1 \in 0..N /\ k + 1 # 0 /\ (k + 1) - 1 = k
    OBVIOUS
  <2>2. F[k][h[k]] = h[k] \o q[k + 1] /\ F[k][h[k]] \in X
    <3>1. h[k] \in X /\ q[k + 1] \in X
      BY <1>10, <2>1
    <3> HIDE DEF h
    <3>2. F[k][h[k]] = h[k] \o q[k + 1]
      BY <1>2, <2>1, <3>1
    <3>3. h[k] \o q[k + 1] \in X
      BY <3>1
    <3> QED BY <3>2, <3>3
  <2>3. h[k + 1] = flatten[k + 1]
    BY <2>1
  <2>4. h[k + 1] = h[k] \o q[k + 1]
    <3>1. CASE k = 0
      <4>1. flatten[k + 1] = q[k + 1]
        BY <1>9, <2>1, <3>1 DEF D
      <4>2. h[k] = <<>> /\ q[k + 1] \in X
        BY <2>1, <3>1
      <4>3. <<>> \o q[k + 1] = q[k + 1]
        BY <4>2
      <4> QED BY <2>3, <4>1, <4>2, <4>3
    <3>2. CASE k # 0
      <4>0. k + 1 # 1
        BY <2>1, <3>2
      <4>1. flatten[k + 1] = flatten[k] \o q[k + 1]
        BY <1>9, <2>1, <4>0 DEF D
      <4>2. h[k] = flatten[k]
        BY <2>1, <3>2
      <4> QED BY <2>3, <4>1, <4>2
    <3> QED BY <3>1, <3>2
  <2> QED BY <2>2, <2>4
<1>11. h[0] = <<>> /\ h[N] = flatten[N] /\ h = [k \in 0..N |-> h[k]]
  BY <1>1
<1> HIDE DEF h
<1>12. \A k \in 0..N : h[k] \in X
  <2> DEFINE S == {n \in Nat : n <= N => h[n] \in X}
  <2>1. 0 \in S
    BY <1>1, <1>11
  <2>2. ASSUME NEW n \in Nat, n \in S PROVE n + 1 \in S
    <3>1. CASE n + 1 <= N
      <4>1. n \in 0..N - 1 /\ h[n] \in X
        BY <1>1, <2>2, <3>1
      <4> QED BY <1>10, <4>1
    <3> QED BY <3>1
  <2> HIDE DEF S
  <2>3. \A n \in Nat : n \in S
    BY <2>1, <2>2, NatSetInduction
  <2> QED BY <1>1, <2>3 DEF S
<1>13. Approximates(h, N, X, <<>>, F)
  <2>1. h \in [0..N -> X]
    BY <1>11, <1>12
  <2>2. ASSUME NEW k \in 0..N - 1 PROVE h[k + 1] = F[k][h[k]]
    <3>1. k \in 0..N
      BY <1>1
    <3> QED BY <1>10, <1>12, <3>1
  <2> QED BY <1>11, <2>1, <2>2 DEF Approximates
<1> QED BY <1>8, <1>11, <1>13 DEF F

(* One sequence alone has entries of c.                                        *)
OnlyAt(t, N, q, c) == \A n \in 1..N \ {t} : OfClient(c, q[n]) = <<>>

(* What is chosen from the sequences one after another is what is chosen from  *)
(* the one that has entries of c.                                            *)
LEMMA OfClientFlatten ==
  ASSUME NEW N \in Nat \ {0}, NEW q \in [1..N -> Seq(Msgs)], NEW c, NEW t \in 1..N,
         OnlyAt(t, N, q, c)
  PROVE  /\ FlattenSeq(q) \in Seq(Msgs)
         /\ OfClient(c, FlattenSeq(q)) = OfClient(c, q[t])
<1> USE DEF OnlyAt
<1> DEFINE X == Seq(Msgs)
<1>1. PICK g : Approximates(g, N, X, <<>>, Joins(q)) /\ FlattenSeq(q) = g[N]
  BY FlattenIs
<1>2. /\ g \in [0..N -> X] /\ g[0] = <<>>
      /\ \A k \in 0..N - 1 : g[k + 1] = Joins(q)[k][g[k]]
  BY <1>1 DEF Approximates
<1>3. \A k \in Nat : \A u \in X : Joins(q)[k][u] = IF k + 1 \in 1..N THEN u \o q[k + 1] ELSE u
  BY JoinsType
<1> DEFINE S == {n \in Nat : n <= N =>
                   OfClient(c, g[n]) = IF t <= n THEN OfClient(c, q[t]) ELSE <<>>}
<1>4. 0 \in S
  BY <1>2, OfClientEmpty
<1>5. ASSUME NEW n \in Nat, n \in S, n + 1 <= N
      PROVE  OfClient(c, g[n + 1]) = IF t <= n + 1 THEN OfClient(c, q[t]) ELSE <<>>
  <2> DEFINE u == g[n]
             v == q[n + 1]
  <2>1. n \in 0..N - 1 /\ n + 1 \in 1..N /\ n <= N /\ u \in X /\ v \in X
    BY <1>2, <1>5
  <2>2. g[n + 1] = u \o v
    BY <1>2, <1>3, <2>1
  <2>3. OfClient(c, u) = IF t <= n THEN OfClient(c, q[t]) ELSE <<>>
    BY <1>5, <2>1
  <2>4. n + 1 # t => OfClient(c, v) = <<>>
    BY <2>1
  <2>5. n + 1 = t => OfClient(c, v) = OfClient(c, q[t])
    OBVIOUS
  <2> HIDE DEF u, v
  <2>6. OfClient(c, u \o v) = OfClient(c, u) \o OfClient(c, v)
    BY <2>1, OfClientConcat
  <2>7. OfClient(c, u) \in X /\ OfClient(c, v) \in X
    BY <2>1, OfClientType
  <2>8. \A w \in X : <<>> \o w = w /\ w \o <<>> = w
    OBVIOUS
  <2>9. CASE t <= n
    BY <2>2, <2>3, <2>4, <2>6, <2>7, <2>8, <2>9
  <2>10. CASE t = n + 1
    BY <2>2, <2>3, <2>5, <2>6, <2>7, <2>8, <2>10
  <2>11. CASE n + 1 < t
    BY <2>2, <2>3, <2>4, <2>6, <2>7, <2>8, <2>11, OfClientEmpty
  <2> QED BY <2>9, <2>10, <2>11
<1>6. ASSUME NEW n \in Nat, n \in S PROVE n + 1 \in S
  BY <1>5, <1>6
<1>7. \A n \in Nat : n \in S
  <2> HIDE DEF S
  <2> QED BY <1>4, <1>6, NatSetInduction
<1>8. N \in Nat /\ N <= N /\ t <= N /\ N \in 0..N
  OBVIOUS
<1>9. OfClient(c, g[N]) = OfClient(c, q[t])
  BY <1>7, <1>8
<1> QED BY <1>1, <1>2, <1>8, <1>9

-----------------------------------------------------------------------------
(* The one thread that serves a client whose hash is stable.                   *)
ThreadOf(c) == (CHOOSE h \in Hashes[c] : TRUE) % TaskThreadNum

(* On the way, the requests of such a client are replies, or wait at that      *)
(* thread, or in the ROUTER.                                                 *)
Line(q, c) ==
  (OfClient(c, q[Replies]) \o OfClient(c, q[ThreadOf(c)])) \o OfClient(c, q[Router])

(* A stable client has one thread, the only one nSelect yields for it.       *)
LEMMA ThreadOfStable ==
  ASSUME NEW c \in Stable
  PROVE  /\ c \in Clients /\ ThreadOf(c) \in T!TaskThreads
         /\ \A m \in Msgs : ClientOf[m] = c => T!nSelect(m) = {ThreadOf(c)}
<1>1. PICK h \in Hashes[c] : c \in Clients /\ Hashes[c] = {h}
  BY DEF Stable
<1>2. h \in Nat /\ TaskThreadNum \in Nat \ {0}
  BY <1>1, PathAssumption DEF T!TaskAssumption
<1>3. ThreadOf(c) = h % TaskThreadNum
  BY <1>1 DEF ThreadOf
<1>4. h % TaskThreadNum \in T!TaskThreads
  BY <1>2 DEF T!TaskThreads
<1>5. ASSUME NEW m \in Msgs, ClientOf[m] = c PROVE T!nSelect(m) = {ThreadOf(c)}
  BY <1>1, <1>3, <1>5 DEF T!nSelect
<1> QED BY <1>1, <1>3, <1>4, <1>5

(* The same is true of any family q of sequences in which requests wait at the *)
(* thread their hash selects.                                                *)
LEMMA LineIs ==
  ASSUME NEW c \in Stable, NEW q \in [Places -> Seq(Msgs)],
         \A i \in T!TaskThreads : \A k \in DOMAIN q[i] : i \in T!nSelect(q[i][k])
  PROVE  OfClient(c, q[Replies] \o FlattenSeq([n \in 1..TaskThreadNum |-> q[n - 1]]) \o q[Router])
           = Line(q, c)
<1> DEFINE N == TaskThreadNum
           p == [n \in 1..N |-> q[n - 1]]
           t == ThreadOf(c) + 1
           f == FlattenSeq(p)
<1>1. N \in Nat \ {0} /\ T!TaskThreads = 0..N - 1
  BY PathAssumption DEF T!TaskAssumption, T!TaskThreads
<1>2. /\ ThreadOf(c) \in T!TaskThreads
      /\ \A m \in Msgs : ClientOf[m] = c => T!nSelect(m) = {ThreadOf(c)}
  BY ThreadOfStable
<1>3. t \in 1..N /\ t - 1 = ThreadOf(c)
  BY <1>1, <1>2
<1>4. \A n \in 1..N : n - 1 \in T!TaskThreads /\ n - 1 \in Places
  BY <1>1, Apart
<1>5. p \in [1..N -> Seq(Msgs)] /\ \A n \in 1..N : p[n] = q[n - 1]
  BY <1>4
<1>6. p[t] = q[ThreadOf(c)]
  BY <1>3, <1>5
<1> HIDE DEF p, t, N
<1>7. ASSUME NEW n \in 1..N, n # t PROVE OfClient(c, p[n]) = <<>>
  <2>1. n - 1 # ThreadOf(c)
    BY <1>1, <1>3, <1>7
  <2>2. ASSUME NEW k \in DOMAIN q[n - 1] PROVE ClientOf[q[n - 1][k]] # c
    <3>1. n - 1 \in T!nSelect(q[n - 1][k]) /\ q[n - 1][k] \in Msgs
      BY <1>4, <1>7, <2>2
    <3> QED BY <1>2, <2>1, <3>1
  <2>3. p[n] \in Seq(Msgs) /\ p[n] = q[n - 1]
    BY <1>5, <1>7
  <2> QED BY <2>2, <2>3, OfClientNone
<1>8. f \in Seq(Msgs) /\ OfClient(c, f) = OfClient(c, q[ThreadOf(c)])
  <2>1. OnlyAt(t, N, p, c)
    BY <1>7 DEF OnlyAt
  <2>2. N \in Nat \ {0} /\ p \in [1..N -> Seq(Msgs)] /\ t \in 1..N
    BY <1>1, <1>3, <1>5
  <2>3. FlattenSeq(p) \in Seq(Msgs) /\ OfClient(c, FlattenSeq(p)) = OfClient(c, p[t])
    BY <2>1, <2>2, OfClientFlatten
  <2> QED BY <1>6, <2>3
<1> HIDE DEF f
<1>9. q[Replies] \in Seq(Msgs) /\ q[Router] \in Seq(Msgs) /\ q[Replies] \o f \in Seq(Msgs)
  BY <1>8, Apart
<1>10. OfClient(c, q[Replies] \o f) = OfClient(c, q[Replies]) \o OfClient(c, f)
  BY <1>8, <1>9, OfClientConcat
<1>11. OfClient(c, (q[Replies] \o f) \o q[Router]) =
         OfClient(c, q[Replies] \o f) \o OfClient(c, q[Router])
  BY <1>9, OfClientConcat
<1> QED BY <1>8, <1>10, <1>11 DEF Line, f, p, N

(* The lines of the stable clients, and what ReplyOrder sees of them.         *)
line == [c \in Stable |-> Line(held, c)]
waiting == [c \in Stable |-> OfClient(c, OnTheWay)]

InLine == waiting = line

(* What waits of each client, as ReplyOrder sees it, is its line.            *)
LEMMA WaitingIs == PathInv => InLine
<1> SUFFICES ASSUME PathInv PROVE waiting = line
  BY DEF InLine
<1>1. held \in [Places -> Seq(Msgs)] /\ RightThread
  BY ShapesHold, HeldType DEF PathInv
<1>2. OnTheWay =
        held[Replies] \o FlattenSeq([n \in 1..TaskThreadNum |-> held[n - 1]]) \o held[Router]
  BY HeldIs DEF OnTheWay
<1>3. ASSUME NEW c \in Stable PROVE OfClient(c, OnTheWay) = Line(held, c)
  BY <1>1, <1>2, <1>3, LineIs DEF RightThread
<1> QED BY <1>3, Zenon DEF waiting, line

(* Joining sequences of requests is associative.                               *)
Rejoins(x, y, z) == (x \o y) \o z = x \o (y \o z)

LEMMA Associative == \A x, y, z \in Seq(Msgs) : Rejoins(x, y, z)
BY ConcatAssociative DEF Rejoins

(* A request at the end of one of two or three joined sequences stands between  *)
(* them; a request before the first of them is before them all.               *)
AfterFirst(r, s, m)     == Append(r, m) \o s = r \o (<<m>> \o s)
AfterSecond(r, s, t, m) == (r \o Append(s, m)) \o t = (r \o s) \o (<<m>> \o t)
BeforeAll(r, s, t, m)   == ((<<m>> \o r) \o s) \o t = <<m>> \o ((r \o s) \o t)

LEMMA Joining ==
  ASSUME NEW r \in Seq(Msgs), NEW s \in Seq(Msgs), NEW t \in Seq(Msgs), NEW m \in Msgs
  PROVE  AfterFirst(r, s, m) /\ AfterSecond(r, s, t, m) /\ BeforeAll(r, s, t, m)
<1> DEFINE f == <<m>>
<1>1. f \in Seq(Msgs) /\ Append(r, m) = r \o f /\ Append(s, m) = s \o f
  OBVIOUS
<1> HIDE DEF f
<1>2. r \o s \in Seq(Msgs) /\ f \o r \in Seq(Msgs)
  BY <1>1
<1>3. (r \o f) \o s = r \o (f \o s)
  <2>1. Rejoins(r, f, s)
    BY <1>1, Associative
  <2> QED BY <2>1, Zenon DEF Rejoins
<1>4. (r \o (s \o f)) \o t = (r \o s) \o (f \o t)
  <2>1. Rejoins(r, s, f) /\ Rejoins(r \o s, f, t)
    BY <1>1, <1>2, Associative
  <2> QED BY <2>1, Zenon DEF Rejoins
<1>5. ((f \o r) \o s) \o t = f \o ((r \o s) \o t)
  <2>1. Rejoins(f, r, s) /\ Rejoins(f, r \o s, t)
    BY <1>1, <1>2, Associative
  <2> QED BY <2>1, Zenon DEF Rejoins
<1>6. AfterFirst(r, s, m)
  BY <1>1, <1>3, Zenon DEF AfterFirst, f
<1>7. AfterSecond(r, s, t, m)
  BY <1>1, <1>4, Zenon DEF AfterSecond, f
<1>8. BeforeAll(r, s, t, m)
  BY <1>5, Zenon DEF BeforeAll, f
<1> QED BY <1>6, <1>7, <1>8

(* The three parts of a line, and the line, are sequences of requests.       *)
LEMMA LineType ==
  ASSUME NEW c \in Stable, NEW q \in [Places -> Seq(Msgs)]
  PROVE  /\ OfClient(c, q[Replies]) \in Seq(Msgs) /\ OfClient(c, q[Router]) \in Seq(Msgs)
         /\ OfClient(c, q[ThreadOf(c)]) \in Seq(Msgs) /\ Line(q, c) \in Seq(Msgs)
<1>1. ThreadOf(c) \in Places /\ Replies \in Places /\ Router \in Places
  BY Apart, ThreadOfStable
<1>2. /\ OfClient(c, q[Replies]) \in Seq(Msgs) /\ OfClient(c, q[Router]) \in Seq(Msgs)
      /\ OfClient(c, q[ThreadOf(c)]) \in Seq(Msgs)
  BY <1>1, OfClientType
<1>3. \A x, y \in Seq(Msgs) : x \o y \in Seq(Msgs)
  BY ConcatProperties
<1> QED BY <1>2, <1>3 DEF Line

(* A new request is the last of its client's.                                  *)
LEMMA ComesLast ==
  ASSUME held \in [Places -> Seq(Msgs)], NEW m \in Msgs, Comes(m), NEW c \in Stable
  PROVE  Line(held', c) = IF ClientOf[m] = c THEN Append(Line(held, c), m) ELSE Line(held, c)
<1> DEFINE a == OfClient(c, held[Replies])
           b == OfClient(c, held[ThreadOf(c)])
           d == OfClient(c, held[Router])
<1>1. /\ held'[Router] = Append(held[Router], m) /\ held[Router] \in Seq(Msgs)
      /\ held'[Replies] = held[Replies] /\ held'[ThreadOf(c)] = held[ThreadOf(c)]
  BY Apart, ThreadOfStable DEF Comes
<1>2. OfClient(c, held'[Router]) = IF ClientOf[m] = c THEN Append(d, m) ELSE d
  <2> DEFINE r == held[Router]
  <2>1. OfClient(c, Append(r, m)) = IF ClientOf[m] = c THEN Append(OfClient(c, r), m)
                                                       ELSE OfClient(c, r)
    <3> HIDE DEF r
    <3>1. r \in Seq(Msgs)
      BY <1>1 DEF r
    <3> QED BY <3>1, OfClientAppend
  <2> QED BY <1>1, <2>1
<1>3. a \in Seq(Msgs) /\ b \in Seq(Msgs) /\ d \in Seq(Msgs)
  BY LineType
<1>4. Line(held, c) = (a \o b) \o d
  BY DEF Line
<1>5. Line(held', c) = (a \o b) \o (IF ClientOf[m] = c THEN Append(d, m) ELSE d)
  BY <1>1, <1>2 DEF Line
<1> HIDE DEF a, b, d
<1>6. a \o b \in Seq(Msgs)
  BY <1>3, ConcatProperties
<1>7. Append((a \o b) \o d, m) = (a \o b) \o Append(d, m)
  BY <1>3, <1>6, AppendConcat
<1> QED BY <1>4, <1>5, <1>7

(* A request that is handed to its thread stays where it is in the line.     *)
LEMMA HandedInLine ==
  ASSUME held \in [Places -> Seq(Msgs)], NEW i \in T!TaskThreads, GoesToThread(i), NEW c \in Stable
  PROVE  Line(held', c) = Line(held, c)
<1> DEFINE m == Head(held[Router])
           a == OfClient(c, held[Replies])
           b == OfClient(c, held[ThreadOf(c)])
           d == OfClient(c, Tail(held[Router]))
<1>1. /\ held[Router] \in Seq(Msgs) /\ held[Router] # <<>>
      /\ m \in Msgs /\ Tail(held[Router]) \in Seq(Msgs)
      /\ held'[Router] = Tail(held[Router]) /\ held'[Replies] = held[Replies]
      /\ held'[ThreadOf(c)] = IF ThreadOf(c) = i THEN Append(held[i], m) ELSE held[ThreadOf(c)]
      /\ held[ThreadOf(c)] \in Seq(Msgs)
  BY Apart, ThreadOfStable DEF GoesToThread, Passes
<1>2. ClientOf[m] = c => ThreadOf(c) = i
  BY <1>1, ThreadOfStable DEF GoesToThread
<1>3. OfClient(c, held[Router]) = IF ClientOf[m] = c THEN <<m>> \o d ELSE d
  BY <1>1, OfClientHead
<1>4. OfClient(c, held'[ThreadOf(c)]) = IF ClientOf[m] = c THEN Append(b, m) ELSE b
  <2> DEFINE r == held[ThreadOf(c)]
  <2>1. OfClient(c, Append(r, m)) = IF ClientOf[m] = c THEN Append(OfClient(c, r), m)
                                                       ELSE OfClient(c, r)
    <3>1. r \in Seq(Msgs) /\ m \in Msgs
      BY <1>1
    <3> HIDE DEF r, m
    <3> QED BY <3>1, OfClientAppend
  <2> QED BY <1>1, <1>2, <2>1
<1>5. a \in Seq(Msgs) /\ b \in Seq(Msgs) /\ d \in Seq(Msgs)
  BY <1>1, LineType, OfClientType
<1>6. Line(held, c) = (a \o b) \o (IF ClientOf[m] = c THEN <<m>> \o d ELSE d)
  BY <1>3 DEF Line
<1>7. Line(held', c) = (a \o (IF ClientOf[m] = c THEN Append(b, m) ELSE b)) \o d
  BY <1>1, <1>4 DEF Line
<1> HIDE DEF a, b, d
<1>8. m \in Msgs
  BY <1>1
<1> HIDE DEF m
<1>9. (a \o Append(b, m)) \o d = (a \o b) \o (<<m>> \o d)
  <2>1. AfterSecond(a, b, d, m)
    BY <1>5, <1>8, Joining
  <2> QED BY <2>1, Zenon DEF AfterSecond
<1>10. CASE ClientOf[m] = c
  BY <1>6, <1>7, <1>9, <1>10, Zenon
<1>11. CASE ClientOf[m] # c
  BY <1>6, <1>7, <1>11, Zenon
<1> QED BY <1>10, <1>11

(* So does one whose reply is queued.                                          *)
LEMMA AnsweredInLine ==
  ASSUME held \in [Places -> Seq(Msgs)], RightThread,
         NEW i \in T!TaskThreads, IsAnswered(i), NEW c \in Stable
  PROVE  Line(held', c) = Line(held, c)
<1> DEFINE m == Head(held[i])
           a == OfClient(c, held[Replies])
           b == OfClient(c, held'[ThreadOf(c)])
           d == OfClient(c, held[Router])
<1>1. /\ held[i] \in Seq(Msgs) /\ held[i] # <<>> /\ m \in Msgs /\ m = held[i][1]
      /\ 1 \in DOMAIN held[i] /\ Tail(held[i]) \in Seq(Msgs)
      /\ held'[Router] = held[Router]
      /\ held'[Replies] = Append(held[Replies], m) /\ held[Replies] \in Seq(Msgs)
      /\ held'[ThreadOf(c)] = IF ThreadOf(c) = i THEN Tail(held[i]) ELSE held[ThreadOf(c)]
      /\ held[ThreadOf(c)] \in Seq(Msgs)
  <2>1. /\ held[i] \in Seq(Msgs) /\ held[i] # <<>> /\ held[Replies] \in Seq(Msgs)
        /\ held[ThreadOf(c)] \in Seq(Msgs)
    BY Apart, ThreadOfStable DEF IsAnswered, Passes
  <2>2. m \in Msgs /\ m = held[i][1] /\ 1 \in DOMAIN held[i] /\ Tail(held[i]) \in Seq(Msgs)
    BY <2>1
  <2>3. /\ i \in Places /\ Replies \in Places /\ Router \in Places /\ ThreadOf(c) \in Places
        /\ i # Replies /\ i # Router /\ Router # Replies
        /\ ThreadOf(c) # Replies /\ ThreadOf(c) # Router
    BY Apart, ThreadOfStable
  <2>4. held' = [held EXCEPT ![i] = Tail(@), ![Replies] = Append(@, m)]
    BY DEF IsAnswered, Passes
  <2> HIDE DEF m
  <2>5. /\ held'[Router] = held[Router] /\ held'[Replies] = Append(held[Replies], m)
        /\ held'[ThreadOf(c)] = IF ThreadOf(c) = i THEN Tail(held[i]) ELSE held[ThreadOf(c)]
    BY <2>3, <2>4
  <2> QED BY <2>1, <2>2, <2>5
<1>2. ClientOf[m] = c => ThreadOf(c) = i
  <2>1. i \in T!nSelect(m)
    BY <1>1 DEF RightThread
  <2> QED BY <1>1, <2>1, ThreadOfStable
<1>3. OfClient(c, held[i]) = IF ClientOf[m] = c THEN <<m>> \o OfClient(c, Tail(held[i]))
                                                ELSE OfClient(c, Tail(held[i]))
  BY <1>1, OfClientHead
<1>4. OfClient(c, held[ThreadOf(c)]) = IF ClientOf[m] = c THEN <<m>> \o b ELSE b
  BY <1>1, <1>2, <1>3
<1>5. OfClient(c, held'[Replies]) = IF ClientOf[m] = c THEN Append(a, m) ELSE a
  <2> DEFINE r == held[Replies]
  <2>1. OfClient(c, Append(r, m)) = IF ClientOf[m] = c THEN Append(OfClient(c, r), m)
                                                       ELSE OfClient(c, r)
    <3>1. r \in Seq(Msgs) /\ m \in Msgs
      BY <1>1
    <3> HIDE DEF r, m
    <3> QED BY <3>1, OfClientAppend
  <2> QED BY <1>1, <2>1
<1>6. a \in Seq(Msgs) /\ b \in Seq(Msgs) /\ d \in Seq(Msgs)
  <2>1. held'[ThreadOf(c)] \in Seq(Msgs)
    BY <1>1
  <2> QED BY <2>1, LineType, OfClientType
<1>7. Line(held, c) = (a \o (IF ClientOf[m] = c THEN <<m>> \o b ELSE b)) \o d
  BY <1>4 DEF Line
<1>8. Line(held', c) = ((IF ClientOf[m] = c THEN Append(a, m) ELSE a) \o b) \o d
  BY <1>1, <1>5 DEF Line
<1> HIDE DEF a, b, d
<1>9. m \in Msgs
  BY <1>1
<1> HIDE DEF m
<1>10. Append(a, m) \o b = a \o (<<m>> \o b)
  <2>1. AfterFirst(a, b, m)
    BY <1>6, <1>9, Joining
  <2> QED BY <2>1, Zenon DEF AfterFirst
<1>11. CASE ClientOf[m] = c
  BY <1>7, <1>8, <1>10, <1>11, Zenon
<1>12. CASE ClientOf[m] # c
  BY <1>7, <1>8, <1>12, Zenon
<1> QED BY <1>11, <1>12

(* A reply that leaves was the first of its client's.                          *)
LEMMA SentFirst ==
  ASSUME held \in [Places -> Seq(Msgs)], IsSent, NEW c \in Stable
  PROVE  IF ClientOf[Head(held[Replies])] = c
         THEN Line(held, c) # <<>> /\ Line(held', c) = Tail(Line(held, c))
         ELSE Line(held', c) = Line(held, c)
<1> DEFINE m == Head(held[Replies])
           a == OfClient(c, Tail(held[Replies]))
           b == OfClient(c, held[ThreadOf(c)])
           d == OfClient(c, held[Router])
<1>1. /\ held[Replies] \in Seq(Msgs) /\ held[Replies] # <<>>
      /\ m \in Msgs /\ Tail(held[Replies]) \in Seq(Msgs)
      /\ held'[Replies] = Tail(held[Replies])
      /\ held'[Router] = held[Router] /\ held'[ThreadOf(c)] = held[ThreadOf(c)]
  BY Apart, ThreadOfStable DEF IsSent, Passes
<1>2. OfClient(c, held[Replies]) = IF ClientOf[m] = c THEN <<m>> \o a ELSE a
  BY <1>1, OfClientHead
<1>3. a \in Seq(Msgs) /\ b \in Seq(Msgs) /\ d \in Seq(Msgs)
  BY <1>1, LineType, OfClientType
<1>4. Line(held, c) = ((IF ClientOf[m] = c THEN <<m>> \o a ELSE a) \o b) \o d
  BY <1>2 DEF Line
<1>5. Line(held', c) = (a \o b) \o d
  BY <1>1 DEF Line
<1> HIDE DEF a, b, d
<1>6. ((<<m>> \o a) \o b) \o d = <<m>> \o ((a \o b) \o d)
  <2>1. m \in Msgs
    BY <1>1
  <2> HIDE DEF m
  <2>2. BeforeAll(a, b, d, m)
    BY <1>3, <2>1, Joining
  <2> QED BY <2>2, Zenon DEF BeforeAll
<1>7. (a \o b) \o d \in Seq(Msgs)
  BY <1>3, ConcatProperties
<1>8. <<m>> \o ((a \o b) \o d) # <<>> /\ Tail(<<m>> \o ((a \o b) \o d)) = (a \o b) \o d
  <2> DEFINE e == (a \o b) \o d
  <2>1. e \in Seq(Msgs)
    BY <1>7
  <2> HIDE DEF e
  <2>2. <<m>> \o e # <<>> /\ Tail(<<m>> \o e) = e
    BY <1>1, <2>1
  <2> QED BY <2>2 DEF e
<1> QED BY <1>4, <1>5, <1>6, <1>8

(* So the lines are queues.                                                    *)
LineNext ==
  \E k \in Stable : \/ line[k] # <<>> /\ line' = [line EXCEPT ![k] = Tail(@)]
                    \/ \E m \in Msgs : line' = [line EXCEPT ![k] = Append(@, m)]

(* Every step of the program is a step of the lines, or leaves them.         *)
LEMMA LineStep == PathInv /\ [Next]_vars => LineNext \/ line' = line
<1> SUFFICES ASSUME PathInv, Flows PROVE LineNext \/ line' = line
  BY FlowStep
<1>1. held \in [Places -> Seq(Msgs)] /\ RightThread
  BY ShapesHold, HeldType DEF PathInv
<1>2. (\A c \in Stable : Line(held', c) = Line(held, c)) => line' = line
  BY DEF line
<1>3. CASE Stays
  BY <1>3 DEF Stays, line
<1>4. ASSUME NEW m \in Msgs, Comes(m) PROVE LineNext \/ line' = line
  <2>1. \A c \in Stable : Line(held', c) =
          IF ClientOf[m] = c THEN Append(Line(held, c), m) ELSE Line(held, c)
    BY <1>1, <1>4, ComesLast
  <2>2. CASE ClientOf[m] \in Stable
    <3>1. line' = [line EXCEPT ![ClientOf[m]] = Append(@, m)]
      BY <2>1, <2>2 DEF line
    <3> QED BY <2>2, <3>1 DEF LineNext
  <2>3. CASE ClientOf[m] \notin Stable
    BY <1>2, <2>1, <2>3
  <2> QED BY <2>2, <2>3
<1>5. ASSUME NEW i \in T!TaskThreads, GoesToThread(i) \/ IsAnswered(i) PROVE line' = line
  BY <1>1, <1>2, <1>5, HandedInLine, AnsweredInLine
<1>6. CASE IsSent
  <2> DEFINE m == Head(held[Replies])
  <2>1. \A c \in Stable : IF ClientOf[m] = c
                          THEN Line(held, c) # <<>> /\ Line(held', c) = Tail(Line(held, c))
                          ELSE Line(held', c) = Line(held, c)
    BY <1>1, <1>6, SentFirst
  <2> HIDE DEF m
  <2>2. CASE ClientOf[m] \in Stable
    <3>1. line' = [line EXCEPT ![ClientOf[m]] = Tail(@)] /\ line[ClientOf[m]] # <<>>
      BY <2>1, <2>2 DEF line
    <3> QED BY <2>2, <3>1 DEF LineNext
  <2>3. CASE ClientOf[m] \notin Stable
    BY <1>2, <2>1, <2>3
  <2> QED BY <2>2, <2>3
<1> QED BY <1>3, <1>4, <1>5, <1>6 DEF Flows

(* The lines start empty.                                                    *)
LEMMA LineInit == Init => PerClient!Init
<1> SUFFICES ASSUME Init PROVE PerClient!Init
  OBVIOUS
<1>1. InLine
  BY PathInit, WaitingIs
<1>2. held[Router] = <<>> /\ held[Replies] = <<>> /\ \A i \in T!TaskThreads : held[i] = <<>>
  <2>1. \A i \in T!TaskThreads : T!InHand(i) = <<>> /\ m_recvMsgList[i] = <<>>
    BY DEF Init, T!Init, T!InHand
  <2>2. inbox = <<>> /\ m_sendMsgList = <<>>
    BY DEF Init, Z!Init
  <2> QED BY <2>1, <2>2, HeldIs
<1>3. ASSUME NEW c \in Stable PROVE Line(held, c) = <<>>
  <2>1. held[ThreadOf(c)] = <<>>
    BY <1>2, ThreadOfStable
  <2>2. (<<>> \o <<>>) \o <<>> = <<>>
    OBVIOUS
  <2> QED BY <1>2, <2>1, <2>2, OfClientEmpty DEF Line
<1>4. waiting = [c \in Stable |-> <<>>]
  BY <1>1, <1>3 DEF InLine, line
<1> QED BY <1>4 DEF PerClient!Init, waiting

(* A client whose id has a stable hash gets its replies in the order of its  *)
(* requests, through the ROUTER, the pool of task threads, the shared list of   *)
(* replies and the event pipe.                                                *)
THEOREM RepliesInRequestOrder == Spec => ReplyOrder
<1>1. InLine /\ InLine' /\ (LineNext \/ line' = line)
        => [PerClient!Next]_[c \in Stable |-> OfClient(c, OnTheWay)]
  BY DEF InLine, LineNext, waiting, PerClient!Next, PerClient!Get, PerClient!Put
<1> QED BY Invariance, WaitingIs, LineStep, LineInit, <1>1, PTL
        DEF Spec, ReplyOrder, PerClient!Spec
=============================================================================
