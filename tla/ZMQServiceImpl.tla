---------------------------- MODULE ZMQServiceImpl ----------------------------
(***************************************************************************)
(* The network service: one dispatch thread owns a ROUTER socket (requests *)
(* in, replies out) and the PULL end of an in-process event pipe; any      *)
(* number of task threads hand it replies through a mutex-protected list   *)
(* and wake it with one event per reply on the PUSH end; a controlling     *)
(* thread starts and stops the service.                                    *)
(*                                                                         *)
(* The three sockets and their context live and die together, so one       *)
(* number - the how-manieth start() opened them - stands for the four      *)
(* m_zmq* members.  Critical sections of m_pSendMsgMutex never block and   *)
(* are single steps; m_pZmqPushMutex is held across zmq_send, which blocks *)
(* on a full or unconnected pipe, and is explicit.                         *)
(***************************************************************************)
EXTENDS Naturals, Sequences, FiniteSets, Functions

CONSTANTS
  Workers,        \* the task threads, callers of sendMessage(remoteId, ...)
  Ctl,            \* the thread that calls start() and stop()
  Disp,           \* the thread that runs dispatchLoop()
  None,           \* the owner of a free mutex
  Msgs,           \* the requests; the reply to m is called m as well
  PipeCap,        \* high-water mark of the event pipe (2 * 1000 in libzmq)
  MaxOpens,       \* bound: how often start() gets as far as opening sockets
  MaxPollErrors   \* bound: how often zmq_poll returns -1

ASSUME ServiceAssumption ==
  /\ IsFiniteSet(Workers)
  /\ Ctl \notin Workers /\ Disp \notin Workers /\ Ctl # Disp
  /\ None \notin Workers \cup {Ctl, Disp}
  /\ PipeCap \in Nat \ {0}
  /\ MaxOpens \in Nat \ {0}
  /\ MaxPollErrors \in Nat

Threads == Workers \cup {Ctl, Disp}
NULL    == 0
Handles == 1..MaxOpens

Labels == { "idle",                                       \* Workers, Ctl
            "lock", "push",                               \* event on its way
            "bind", "startFailed",                        \* inside start()
            "join", "close",                              \* inside stop()
            "none", "exited", "terminate",                \* Disp is no thread
            "check", "restart", "poll", "recv", "event", "reply" }

VARIABLES
  m_started,        \* the service is meant to run
  m_sendMsgList,    \* replies queued for the dispatch thread
  m_pZmqPushMutex,  \* its owner, or None
  handle,           \* the m_zmq* members: NULL, or the generation they hold
  opens,            \* generations opened so far
  open,             \* generations not closed with zmq_close
  wired,            \* generations whose PUSH end was connected
  events,           \* events in the pipe of each generation
  sendSock,         \* the socket the owner of m_pZmqPushMutex passed to zmq_send
  occurException,   \* local of dispatchLoop
  revents,          \* what the last zmq_poll reported: [in, ev]
  pollErrors,       \* how often zmq_poll failed
  pc,               \* where each thread is
  requested,        \* history: requests sent by the clients
  inbox,            \* requests waiting in the ROUTER socket
  delivered,        \* history: requests handed to onRecvMessage
  accepted,         \* history: replies in the order sendMessage queued them
  sent              \* history: replies in the order they left the ROUTER

ctlVars  == <<m_started, handle, opens, open, wired>>
pushVars == <<m_pZmqPushMutex, sendSock, events>>
dispVars == <<occurException, revents, pollErrors>>
msgVars  == <<requested, inbox, delivered, accepted, sent, m_sendMsgList>>
vars     == <<ctlVars, pushVars, dispVars, msgVars, pc>>

Goto(t, label) == pc' = [pc EXCEPT ![t] = label]

Init ==
  /\ m_started = FALSE /\ handle = NULL /\ opens = 0 /\ open = {} /\ wired = {}
  /\ m_pZmqPushMutex = None /\ sendSock = NULL
  /\ events = [h \in Handles |-> 0]
  /\ occurException = FALSE /\ pollErrors = 0
  /\ revents = [in |-> FALSE, ev |-> FALSE]
  /\ requested = {} /\ inbox = <<>> /\ delivered = {}
  /\ m_sendMsgList = <<>> /\ accepted = <<>> /\ sent = <<>>
  /\ pc = [t \in Threads |-> IF t = Disp THEN "none" ELSE "idle"]

-----------------------------------------------------------------------------
(* start(), called by Ctl through the interface or by Disp after a failed    *)
(* zmq_poll.  What the caller does with the result is in startReturn.        *)

startReturn(t, ok) ==
  /\ occurException' = IF t = Disp THEN ~ok ELSE occurException
  /\ Goto(t, IF t = Disp THEN "check" ELSE "idle")

startRunning(t) ==
  /\ m_started
  /\ startReturn(t, FALSE)
  /\ UNCHANGED <<ctlVars, pushVars, msgVars, revents, pollErrors>>

Bug_startOpen(t) ==
  /\ ~m_started
  /\ opens < MaxOpens
  /\ opens' = opens + 1
  /\ handle' = opens + 1
  /\ open' = (open \ {handle}) \cup {opens + 1}
  /\ Goto(t, "bind")
  /\ UNCHANGED <<m_started, wired, pushVars, dispVars, msgVars>>

startOpen(t) ==
  /\ ~m_started
  /\ opens < MaxOpens
  /\ opens' = opens + 1
  /\ handle' = opens + 1
  /\ open' = open \cup {opens + 1}
  /\ Goto(t, "bind")
  /\ UNCHANGED <<m_started, wired, pushVars, dispVars, msgVars>>

(* zmq_bind of the ROUTER succeeds only when no socket of this process is    *)
(* still bound to the address.  Assigning m_dispatchThread while it is       *)
(* joinable is std::terminate.                                               *)
startBound(t) ==
  /\ pc[t] = "bind"
  /\ open = {handle}
  /\ wired' = wired \cup {handle}
  /\ m_started' = TRUE
  /\ IF pc[Disp] = "none"
     THEN pc' = [pc EXCEPT ![t] = "idle", ![Disp] = "check"]
     ELSE Goto(Disp, "terminate")
  /\ occurException' = FALSE
  /\ UNCHANGED <<handle, opens, open, pushVars, revents, pollErrors, msgVars>>

startFailed(t) ==
  /\ pc[t] = "bind"
  /\ Goto(t, "startFailed")
  /\ UNCHANGED <<ctlVars, pushVars, dispVars, msgVars>>

Bug_closeHandle ==
  /\ open' = open \ {handle}
  /\ events' = [h \in Handles |-> IF h = handle THEN 0 ELSE events[h]]
  /\ handle' = NULL
  /\ inbox' = <<>>
  /\ UNCHANGED <<m_started, opens, wired, m_pZmqPushMutex, sendSock>>

(* What was waiting in the closed sockets is gone.                           *)
closeHandle ==
  /\ m_pZmqPushMutex = None
  /\ open' = open \ {handle}
  /\ events' = [h \in Handles |-> IF h = handle THEN 0 ELSE events[h]]
  /\ handle' = NULL
  /\ inbox' = <<>>
  /\ UNCHANGED <<m_started, opens, wired, m_pZmqPushMutex, sendSock>>

startAbandon(t) ==
  /\ pc[t] = "startFailed"
  /\ closeHandle
  /\ startReturn(t, FALSE)
  /\ UNCHANGED <<revents, pollErrors, requested, delivered, accepted, sent, m_sendMsgList>>

(* MaxOpens keeps one generation for the dispatch thread's own start().      *)
start ==
  /\ pc[Ctl] = "idle"
  /\ startRunning(Ctl) \/ (opens + 1 < MaxOpens /\ startOpen(Ctl))

-----------------------------------------------------------------------------
(* Waking the dispatch thread: GuardLock, then a blocking zmq_send.          *)

pushLock(t) ==
  /\ pc[t] = "lock"
  /\ m_pZmqPushMutex = None
  /\ m_pZmqPushMutex' = t
  /\ sendSock' = handle
  /\ Goto(t, "push")
  /\ UNCHANGED <<ctlVars, events, dispVars, msgVars>>

(* zmq_send on a NULL socket fails at once and its result is ignored.        *)
pushEvent(t) ==
  /\ pc[t] = "push"
  /\ \/ sendSock = NULL /\ UNCHANGED events
     \/ /\ sendSock \in wired
        /\ events[sendSock] < PipeCap
        /\ events' = [events EXCEPT ![sendSock] = @ + 1]
  /\ m_pZmqPushMutex' = None
  /\ sendSock' = NULL
  /\ Goto(t, IF t = Ctl THEN "join" ELSE "idle")
  /\ UNCHANGED <<ctlVars, dispVars, msgVars>>

-----------------------------------------------------------------------------
(* stop(): clear the flag, push a wake-up event, join, close.                *)

Bug_stop ==
  /\ pc[Ctl] = "idle"
  /\ m_started
  /\ m_started' = FALSE
  /\ Goto(Ctl, "join")
  /\ UNCHANGED <<handle, opens, open, wired, pushVars, dispVars, msgVars>>

stop ==
  /\ pc[Ctl] = "idle"
  /\ m_started
  /\ m_started' = FALSE
  /\ Goto(Ctl, "lock")
  /\ UNCHANGED <<handle, opens, open, wired, pushVars, dispVars, msgVars>>

Bug_stopJoin ==
  /\ pc[Ctl] = "join"
  /\ Goto(Ctl, "close")
  /\ UNCHANGED <<ctlVars, pushVars, dispVars, msgVars>>

stopJoin ==
  /\ pc[Ctl] = "join"
  /\ pc[Disp] = "exited"
  /\ pc' = [pc EXCEPT ![Ctl] = "close", ![Disp] = "none"]
  /\ UNCHANGED <<ctlVars, pushVars, dispVars, msgVars>>

stopClose ==
  /\ pc[Ctl] = "close"
  /\ closeHandle
  /\ Goto(Ctl, "idle")
  /\ UNCHANGED <<dispVars, requested, delivered, accepted, sent, m_sendMsgList>>

-----------------------------------------------------------------------------
(* sendMessage(remoteId, ...), called by a task thread.                      *)

Bug_sendMessageQueue(w, m) ==
  /\ pc[w] = "idle"
  /\ m_sendMsgList' = Append(m_sendMsgList, m)
  /\ accepted' = Append(accepted, m)
  /\ Goto(w, IF m_sendMsgList = <<>> THEN "lock" ELSE "idle")
  /\ UNCHANGED <<ctlVars, pushVars, dispVars, requested, inbox, delivered, sent>>

Bug_sendMessageDirect(w, m) ==
  /\ pc[w] = "idle"
  /\ accepted' = Append(accepted, m)
  /\ sent' = Append(sent, m)
  /\ UNCHANGED <<ctlVars, pushVars, dispVars, requested, inbox, delivered, m_sendMsgList, pc>>

sendMessageQueue(w, m) ==
  /\ pc[w] = "idle"
  /\ m_sendMsgList' = Append(m_sendMsgList, m)
  /\ accepted' = Append(accepted, m)
  /\ Goto(w, "lock")
  /\ UNCHANGED <<ctlVars, pushVars, dispVars, requested, inbox, delivered, sent>>

-----------------------------------------------------------------------------
(* dispatchLoop()                                                            *)

dispatchCheck ==
  /\ pc[Disp] = "check"
  /\ Goto(Disp, IF ~m_started THEN "exited"
                ELSE IF occurException THEN "restart" ELSE "poll")
  /\ UNCHANGED <<ctlVars, pushVars, dispVars, msgVars>>

dispatchRestart ==
  /\ pc[Disp] = "restart"
  /\ startRunning(Disp) \/ startOpen(Disp)

dispatchPollFails ==
  /\ pc[Disp] = "poll"
  /\ pollErrors < MaxPollErrors
  /\ pollErrors' = pollErrors + 1
  /\ occurException' = TRUE
  /\ Goto(Disp, "check")
  /\ UNCHANGED <<ctlVars, pushVars, revents, msgVars>>

(* zmq_poll without timeout returns once at least one socket is readable.    *)
dispatchPoll ==
  /\ pc[Disp] = "poll"
  /\ revents' = [in |-> inbox # <<>>, ev |-> events[handle] > 0]
  /\ revents'.in \/ revents'.ev
  /\ Goto(Disp, IF revents'.in THEN "recv" ELSE "event")
  /\ UNCHANGED <<ctlVars, pushVars, occurException, pollErrors, msgVars>>

Bug_recvMessage(m) ==
  /\ pc[Disp] = "recv"
  /\ inbox # <<>> /\ m = Head(inbox)
  /\ inbox' = Tail(inbox)
  /\ delivered' = delivered \cup {m}
  /\ Goto(Disp, "event")
  /\ UNCHANGED <<ctlVars, pushVars, dispVars, requested, accepted, sent, m_sendMsgList>>

(* recvMessage(): all frames of a request arrive together; onRecvMessage     *)
(* only copies it.                                                           *)
recvMessage(m) ==
  /\ pc[Disp] = "recv"
  /\ inbox # <<>> /\ m = Head(inbox)
  /\ inbox' = Tail(inbox)
  /\ delivered' = delivered \cup {m}
  /\ Goto(Disp, IF revents.ev THEN "event" ELSE "check")
  /\ UNCHANGED <<ctlVars, pushVars, dispVars, requested, accepted, sent, m_sendMsgList>>

dispatchEvent ==
  /\ pc[Disp] = "event"
  /\ events[handle] > 0
  /\ events' = [events EXCEPT ![handle] = @ - 1]
  /\ Goto(Disp, "reply")
  /\ UNCHANGED <<ctlVars, m_pZmqPushMutex, sendSock, dispVars, msgVars>>

Bug_sendMessage ==
  /\ pc[Disp] = "reply"
  /\ IF m_sendMsgList = <<>>
     THEN UNCHANGED <<sent, m_sendMsgList>>
     ELSE LET last == Len(m_sendMsgList) IN
          /\ sent' = Append(sent, m_sendMsgList[last])
          /\ m_sendMsgList' = SubSeq(m_sendMsgList, 1, last - 1)
  /\ Goto(Disp, "check")
  /\ UNCHANGED <<ctlVars, pushVars, dispVars, requested, inbox, delivered, accepted>>

(* sendMessage(): one queued reply, if there is one, leaves the ROUTER.      *)
sendMessage ==
  /\ pc[Disp] = "reply"
  /\ IF m_sendMsgList = <<>>
     THEN UNCHANGED <<sent, m_sendMsgList>>
     ELSE /\ sent' = Append(sent, Head(m_sendMsgList))
          /\ m_sendMsgList' = Tail(m_sendMsgList)
  /\ Goto(Disp, "check")
  /\ UNCHANGED <<ctlVars, pushVars, dispVars, requested, inbox, delivered, accepted>>

-----------------------------------------------------------------------------
(* Environment: a client's request reaches the ROUTER.                       *)
clientRequest(m) ==
  /\ handle \in wired /\ handle \in open
  /\ m \notin requested
  /\ requested' = requested \cup {m}
  /\ inbox' = Append(inbox, m)
  /\ UNCHANGED <<ctlVars, pushVars, dispVars, delivered, accepted, sent, m_sendMsgList, pc>>

(* Environment: a task thread answers a request it was handed, once.         *)
Answer(w, m) ==
  /\ m \in delivered
  /\ m \notin Range(accepted)
  /\ sendMessageQueue(w, m)

CtlStep  == \/ startBound(Ctl) \/ startFailed(Ctl) \/ startAbandon(Ctl)
            \/ pushLock(Ctl) \/ pushEvent(Ctl) \/ stopJoin \/ stopClose
DispStep == \/ dispatchCheck \/ dispatchRestart
            \/ startBound(Disp) \/ startFailed(Disp) \/ startAbandon(Disp)
            \/ dispatchPoll \/ dispatchEvent \/ sendMessage
            \/ \E m \in Msgs : recvMessage(m)
WorkerStep(w) == pushLock(w) \/ pushEvent(w)

Next ==
  \/ start \/ stop
  \/ CtlStep
  \/ DispStep \/ dispatchPollFails
  \/ \E w \in Workers : WorkerStep(w) \/ \E m \in Msgs : Answer(w, m)
  \/ \E m \in Msgs : clientRequest(m)

Spec == Init /\ [][Next]_vars

(* The scheduler runs every thread that can run; clients, callers of start   *)
(* and stop, task threads deciding to answer and failures are free.          *)
Fairness ==
  /\ WF_vars(CtlStep)
  /\ WF_vars(DispStep)
  /\ \A w \in Workers : WF_vars(WorkerStep(w))

FairSpec == Spec /\ Fairness

-----------------------------------------------------------------------------
(* Properties                                                                *)

(* Every variable has its type; the replies are among the requests that were *)
(* handed to onRecvMessage, because the task threads answer nothing else.    *)
TypeOK ==
  /\ m_started \in BOOLEAN
  /\ m_sendMsgList \in Seq(Msgs) /\ accepted \in Seq(Msgs) /\ sent \in Seq(Msgs)
  /\ inbox \in Seq(Msgs)
  /\ requested \subseteq Msgs /\ delivered \subseteq Msgs
  /\ m_pZmqPushMutex \in Threads \cup {None}
  /\ handle \in Handles \cup {NULL}
  /\ sendSock \in Handles \cup {NULL}
  /\ opens \in 0..MaxOpens
  /\ open \subseteq Handles /\ wired \subseteq Handles
  /\ events \in [Handles -> 0..PipeCap]
  /\ occurException \in BOOLEAN
  /\ revents \in [in : BOOLEAN, ev : BOOLEAN]
  /\ pollErrors \in 0..MaxPollErrors
  /\ pc \in [Threads -> Labels]

(* zmq_send never runs on a socket that closeHandle() has closed: the mutex   *)
(* it shares with closeHandle() covers the read of m_zmqPushEvent and the     *)
(* (possibly long) blocking send together (lines 109-114, 122, 158-162).      *)
PushNeverOnClosed ==
  \A t \in Threads : pc[t] = "push" /\ sendSock # NULL => sendSock \in open

(* The dispatch loop uses m_zmqTransData and m_zmqPullEvent without a lock;   *)
(* they are open and bound whenever it does, because only stop() after the    *)
(* join, or the loop itself, closes them (lines 115-117, 246-267).            *)
DispatchSocketsValid ==
  pc[Disp] \in {"poll", "recv", "event", "reply"} => handle \in open \cap wired

(* Replies leave in the order they were queued, and between the two calls of  *)
(* sendMessage every reply is in exactly one place - none lost, none sent     *)
(* twice - whatever start, stop and failed polls do in between (lines 153-154,*)
(* 170-201).                                                                  *)
RepliesConserved == accepted = sent \o m_sendMsgList

(* No lost wake-up: as long as the first generation of sockets lives, each    *)
(* queued reply is matched by an event in the pipe, by a sender about to push *)
(* one or by the dispatch thread already in sendMessage() (lines 138-162,     *)
(* 263-267: one event, one reply).                                            *)
Pushing == {w \in Workers : pc[w] \in {"lock", "push"}}
WakeupCovered ==
  opens = 1 /\ handle = 1 =>
    Len(m_sendMsgList) <=
      events[1] + Cardinality(Pushing) + (IF pc[Disp] = "reply" THEN 1 ELSE 0)

(* The dispatch thread only makes a blocking receive call when the message is *)
(* there, so it is never stuck outside zmq_poll: what zmq_poll reported still *)
(* holds when the second receive runs (lines 251-267).                        *)
DispatchNeverBlocks ==
  /\ pc[Disp] = "recv" => inbox # <<>>
  /\ pc[Disp] = "event" => events[handle] > 0

(* m_dispatchThread is never assigned while it is joinable, although start()  *)
(* runs in that very thread after a failed poll: the thread's own start()     *)
(* meets its still bound address first (lines 69-74, 92, 242).                *)
NoTerminate == pc[Disp] # "terminate"

(* Once stop() has returned, until the next start(), no reply leaves and      *)
(* onRecvMessage is not called (ZMQService.h:25; the join in line 115).       *)
SilentAfterStop ==
  [][pc[Ctl] = "idle" /\ ~m_started => UNCHANGED <<sent, delivered>>]_vars

(* stop() returns: the event it pushes gets the dispatch thread out of        *)
(* zmq_poll, and the loop sees the cleared flag (lines 107-115, 236), also    *)
(* while it restarts after a failed poll.  All that can keep stop() is a      *)
(* zmq_send, under m_pZmqPushMutex, into a pipe that is full or not connected *)
(* and that nobody reads any more.                                           *)
SendBlocked ==
  /\ m_pZmqPushMutex # None /\ sendSock # NULL
  /\ sendSock \notin wired \/ events[sendSock] = PipeCap
StopReturns ==
  \/ (pc[Ctl] \in {"lock", "push", "join", "close"}) ~> (pc[Ctl] = "idle")
  \/ <>[]SendBlocked

(* The log line of ZMQServiceImpl.cpp:239, "re-start after 1 second": a       *)
(* failed poll is recovered from, unless the service is stopped.              *)
ExceptionRecovered == occurException ~> (~occurException \/ ~m_started)

-----------------------------------------------------------------------------
(* The inductive strengthening of the safety properties.                     *)

Loop == {"check", "restart", "poll", "recv", "event", "reply"}

MutexInv == \A t \in Threads : m_pZmqPushMutex = t <=> pc[t] = "push"

(* Which phases of the controlling and the dispatch thread can coincide.      *)
PhaseInv ==
  /\ pc[Ctl] \in {"idle", "lock", "push", "bind", "startFailed", "join", "close"}
  /\ pc[Disp] \in Loop \cup {"none", "exited", "bind", "startFailed"}
  /\ \A w \in Workers : pc[w] \in {"idle", "lock", "push"}
  /\ m_started => pc[Ctl] = "idle" /\ pc[Disp] \in Loop
  /\ pc[Ctl] = "idle" /\ ~m_started => pc[Disp] = "none"
  /\ pc[Ctl] \in {"bind", "startFailed", "close"} => pc[Disp] = "none"
  /\ pc[Ctl] \in {"lock", "push", "join"} => pc[Disp] # "none"

SocketInv ==
  /\ open \subseteq 1..opens
  /\ handle # NULL => handle \in open
  /\ m_pZmqPushMutex # None /\ sendSock # NULL => sendSock \in open

(* A restart leaves the generation it replaces open, so it cannot bind.       *)
DispatchInv ==
  /\ pc[Disp] \in Loop \ {"check"} => handle \in open \cap wired
  /\ m_started => handle \in open \cap wired
  /\ pc[Disp] = "bind" => \E g \in open : g # handle
  /\ pc[Disp] = "recv" => inbox # <<>> /\ (revents.ev => events[handle] > 0)
  /\ pc[Disp] = "event" => events[handle] > 0

(* While the first generation lives, every event goes to its pipe.            *)
FirstInv ==
  /\ opens = 0 => /\ delivered = {} /\ m_sendMsgList = <<>>
                  /\ \A w \in Workers : pc[w] = "idle"
  /\ opens = 1 /\ handle = 1 => \A w \in Workers : pc[w] = "push" => sendSock = 1

(* The conjunction that every step preserves (start to dispatchLoop, lines    *)
(* 51-271); the properties above follow from it.                              *)
IInv == /\ TypeOK /\ MutexInv /\ PhaseInv /\ SocketInv /\ DispatchInv
        /\ FirstInv /\ RepliesConserved /\ WakeupCovered
=============================================================================
