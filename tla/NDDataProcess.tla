----------------------------- MODULE NDDataProcess -----------------------------
(***************************************************************************)
(* The registry of callbacks (NDDataProcess) and its use by the task       *)
(* threads (NDTaskThread::disposeOperateData).  Plugins register under a   *)
(* method id a record that names two functions of theirs: pProcess answers *)
(* a request, pFunFree frees the answer.  A task thread looks the record up *)
(* and keeps the pointer while it calls the one, sends, and calls the other. *)
(*                                                                         *)
(* The map has no lock, and plugin code runs on any thread.  An access of  *)
(* the map takes time: a thread at a label of Readers or Writers is inside *)
(* it.  A record is an address; freeing one leaves its content, which the  *)
(* next malloc may overwrite.                                              *)
(***************************************************************************)
EXTENDS Naturals, FiniteSets

CONSTANTS
  Tasks,        \* bound: the task threads there may be
  Main,         \* the thread that loads the plugins
  Plugins,      \* whose functions a record names
  MethodIds,
  FunctionTypes, \* a subset of the values of eFunctionType
  Addresses,    \* bound: records allocated at a time
  NULL,
  MayCall       \* entries of the plugins' table that plugin code may call while
                \* so many task threads run: an obligation of the plugins

Threads == Tasks \cup {Main}

(* Another plugin's record may follow at the same address: what tells two     *)
(* records apart is who registered them, and as what.                        *)
Records == [method_id : MethodIds, type : FunctionTypes, plugin : Plugins]

ASSUME RegistryAssumption ==
  /\ IsFiniteSet(Tasks) /\ Main \notin Tasks /\ IsFiniteSet(Plugins)
  /\ DOMAIN MayCall = 0 .. Cardinality(Tasks)
  /\ NULL \notin Addresses \cup Plugins \cup Records

VARIABLES
  m_CallBackMap,  \* method id -> address of a record, or NULL
  record,         \* what the memory at an address holds
  live,           \* the addresses that are allocated
  m_TaskThreadVec, \* the task threads there are
  pc,             \* where each thread is
  arg,            \* the method id (or new record) a thread is busy with
  pBase,          \* local of disposeOperateData: the record looked up
  szRet           \* who the answer belongs to: a plugin, the configuration, NULL

registryVars == <<m_CallBackMap, record, live, m_TaskThreadVec>>
threadVars   == <<pc, arg, pBase, szRet>>

Readers == {"lookup", "isExist"}
Writers == {"insert", "erase"}
(* Where plugin code runs: in a callback, or in init_, execute_ and uninit_.  *)
InPlugin == {"callback", "plugin"}

Home(t) == IF t = Main THEN "plugin" ELSE "callback"

Goto(t, label) == pc' = [pc EXCEPT ![t] = label]

RegistryInit ==
  /\ m_CallBackMap = [i \in MethodIds |-> NULL]
  /\ record = [a \in Addresses |-> NULL]
  /\ live = {}
  /\ m_TaskThreadVec = {}
  /\ pc = [t \in Threads |-> "idle"]
  /\ arg = [t \in Threads |-> NULL]
  /\ pBase = [t \in Tasks |-> NULL]
  /\ szRet = [t \in Tasks |-> NULL]

-----------------------------------------------------------------------------
(* The functions of the table that plugins are given, and what each entry     *)
(* holds: createInfoForPluginLibrary.                                        *)

table == [pRegDataProcess |-> "regDataProcess",
          pUnRegDataProcess |-> "unRegDataProcess",
          pGetPluginDataProcessBase |-> "unRegDataProcess"]

Allowed(t, entry) ==
  pc[t] \in InPlugin /\ entry \in MayCall[Cardinality(m_TaskThreadVec)]

(* A call with a valid record: isValidPluginDataProcessBase holds.            *)
register(t, r) ==
  /\ Allowed(t, "pRegDataProcess")
  /\ arg' = [arg EXCEPT ![t] = r]
  /\ Goto(t, "isExist")
  /\ UNCHANGED <<registryVars, pBase, szRet>>

Bug_isExist(t) ==
  /\ pc[t] = "isExist"
  /\ \E a \in Addresses \ live :
       /\ live' = live \cup {a}
       /\ record' = [record EXCEPT ![a] = arg[t]]
       /\ arg' = [arg EXCEPT ![t] = a]
  /\ Goto(t, "insert")
  /\ UNCHANGED <<m_CallBackMap, m_TaskThreadVec, pBase, szRet>>

(* The id is free, and malloc finds memory: it may fail, too.                 *)
isExist(t) ==
  /\ pc[t] = "isExist"
  /\ \/ /\ m_CallBackMap[arg[t].method_id] = NULL
        /\ \E a \in Addresses \ live :
             /\ live' = live \cup {a}
             /\ record' = [record EXCEPT ![a] = arg[t]]
             /\ arg' = [arg EXCEPT ![t] = a]
        /\ Goto(t, "insert")
     \/ /\ arg' = [arg EXCEPT ![t] = NULL]
        /\ Goto(t, Home(t))
        /\ UNCHANGED <<live, record>>
  /\ UNCHANGED <<m_CallBackMap, m_TaskThreadVec, pBase, szRet>>

(* std::map::insert keeps the entry that is there.                            *)
insert(t) ==
  LET id == record[arg[t]].method_id IN
  /\ pc[t] = "insert"
  /\ m_CallBackMap' = IF m_CallBackMap[id] = NULL
                      THEN [m_CallBackMap EXCEPT ![id] = arg[t]] ELSE m_CallBackMap
  /\ arg' = [arg EXCEPT ![t] = NULL]
  /\ Goto(t, Home(t))
  /\ UNCHANGED <<record, live, m_TaskThreadVec, pBase, szRet>>

(* Through either entry that holds unRegDataProcess: the record is freed      *)
(* first and its entry erased after; without an entry nothing happens.       *)
unregister(t, entry, id) ==
  /\ Allowed(t, entry) /\ table[entry] = "unRegDataProcess"
  /\ m_CallBackMap[id] # NULL
  /\ live' = live \ {m_CallBackMap[id]}
  /\ arg' = [arg EXCEPT ![t] = id]
  /\ Goto(t, "erase")
  /\ UNCHANGED <<m_CallBackMap, record, m_TaskThreadVec, pBase, szRet>>

erase(t) ==
  /\ pc[t] = "erase"
  /\ m_CallBackMap' = [m_CallBackMap EXCEPT ![arg[t]] = NULL]
  /\ arg' = [arg EXCEPT ![t] = NULL]
  /\ Goto(t, Home(t))
  /\ UNCHANGED <<record, live, m_TaskThreadVec, pBase, szRet>>

(* What code of plugin p may do through its table on thread t.                *)
tableCall(t, p) ==
  \/ \E r \in Records : r.plugin = p /\ register(t, r)
  \/ isExist(t) \/ insert(t)
  \/ \E entry \in DOMAIN table, id \in MethodIds : unregister(t, entry, id)
  \/ erase(t)

-----------------------------------------------------------------------------
(* One request in disposeOperateData.                                        *)

(* parse and get of the method: without one, an answer of the configuration.  *)
badRequest(t) ==
  /\ pc[t] = "idle"
  /\ szRet' = [szRet EXCEPT ![t] = "config"]
  /\ Goto(t, "send")
  /\ UNCHANGED <<registryVars, arg, pBase>>

request(t, id) ==
  /\ pc[t] = "idle"
  /\ arg' = [arg EXCEPT ![t] = id]
  /\ Goto(t, "lookup")
  /\ UNCHANGED <<registryVars, pBase, szRet>>

Served(a) == a # NULL /\ record[a].type = "Outer"

lookup(t) ==
  LET a == m_CallBackMap[arg[t]] IN
  /\ pc[t] = "lookup"
  /\ IF Served(a)
     THEN pBase' = [pBase EXCEPT ![t] = a] /\ UNCHANGED szRet /\ Goto(t, "process")
     ELSE szRet' = [szRet EXCEPT ![t] = "config"] /\ UNCHANGED pBase /\ Goto(t, "send")
  /\ arg' = [arg EXCEPT ![t] = NULL]
  /\ UNCHANGED registryVars

(* pProcess runs, and may call entries of the table before it returns.        *)
process(t) ==
  /\ pc[t] = "process"
  /\ szRet' = [szRet EXCEPT ![t] = record[pBase[t]].plugin]
  /\ Goto(t, "callback")
  /\ UNCHANGED <<registryVars, arg, pBase>>

return(t) ==
  /\ pc[t] = "callback"
  /\ Goto(t, "send")
  /\ UNCHANGED <<registryVars, arg, pBase, szRet>>

(* sendMessage copies the answer, pFunFree frees it: never one of the         *)
(* configuration's texts, which pBase = NULL marks.                          *)
sendMessage(t) ==
  /\ pc[t] = "send"
  /\ Goto(t, IF pBase[t] = NULL THEN "idle" ELSE "release")
  /\ szRet' = IF pBase[t] = NULL THEN [szRet EXCEPT ![t] = NULL] ELSE szRet
  /\ UNCHANGED <<registryVars, arg, pBase>>

pFunFree(t) ==
  /\ pc[t] = "release"
  /\ pBase' = [pBase EXCEPT ![t] = NULL]
  /\ szRet' = [szRet EXCEPT ![t] = NULL]
  /\ Goto(t, "idle")
  /\ UNCHANGED <<registryVars, arg>>

taskStep(t) ==
  \/ badRequest(t)
  \/ \E id \in MethodIds : request(t, id)
  \/ lookup(t) \/ process(t) \/ return(t) \/ sendMessage(t) \/ pFunFree(t)
  \/ \E p \in Plugins : szRet[t] = p /\ tableCall(t, p)

-----------------------------------------------------------------------------
(* Properties                                                                *)

(* Every variable has its type, and the locals of a thread are what the code  *)
(* that follows expects: nothing is left over from the request before.       *)
RegistryTypeOK ==
  /\ m_CallBackMap \in [MethodIds -> Addresses \cup {NULL}]
  /\ record \in [Addresses -> Records \cup {NULL}]
  /\ live \in SUBSET Addresses /\ m_TaskThreadVec \in SUBSET Tasks
  /\ \A t \in Threads :
       \/ pc[t] = "isExist" /\ arg[t] \in Records
       \/ pc[t] = "insert" /\ arg[t] \in Addresses
       \/ pc[t] \in {"erase", "lookup"} /\ arg[t] \in MethodIds
       \/ pc[t] \in InPlugin \cup {"idle", "process", "send", "release"} /\ arg[t] = NULL
  /\ \A t \in Tasks :
       \/ pc[t] \in {"idle", "lookup"} /\ pBase[t] = NULL /\ szRet[t] = NULL
       \/ pc[t] = "process" /\ pBase[t] \in Addresses /\ szRet[t] = NULL
       \/ pc[t] = "send" /\ pBase[t] = NULL /\ szRet[t] = "config"
       \/ pc[t] \notin {"idle", "lookup", "process"} /\ pBase[t] \in Addresses
          /\ szRet[t] \in Plugins

(* An entry of the map leads to an allocated record for its own id (except    *)
(* while the thread that unregisters it is between free and erase, lines     *)
(* 79-81), and every allocated record is in the map or about to be inserted: *)
(* none is lost by a refused or repeated registration (lines 48-71).         *)
Erasing(id) == \E t \in Threads : pc[t] = "erase" /\ arg[t] = id
Inserting(a) == \E t \in Threads : pc[t] = "insert" /\ arg[t] = a
RecordsOwned ==
  /\ \A id \in MethodIds : m_CallBackMap[id] # NULL /\ ~Erasing(id) =>
       m_CallBackMap[id] \in live /\ record[m_CallBackMap[id]].method_id = id
  /\ \A a \in live : Inserting(a) \/ m_CallBackMap[record[a].method_id] = a

(* What every step of every thread preserves, refused and repeated calls of   *)
(* the table included (NDDataProcess.cpp:27-84).                             *)
RegistryInv == RegistryTypeOK /\ RecordsOwned

(* No thread reads or changes the std::map while another one changes it.      *)
NoMapRace ==
  \A t, u \in Threads :
    t # u /\ pc[t] \in Writers => pc[u] \notin Readers \cup Writers
=============================================================================
