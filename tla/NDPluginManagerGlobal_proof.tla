---------------------- MODULE NDPluginManagerGlobal_proof ----------------------
(***************************************************************************)
(* Proofs about NDPluginManagerGlobal and the registry NDDataProcess, for   *)
(* any plugins, files, method ids and task threads.                        *)
(*                                                                         *)
(* The map of the registry has no lock.  What keeps it whole is when plugin *)
(* code calls the table: PluginObligation says when it may.                *)
(***************************************************************************)
EXTENDS NDPluginManagerGlobal, FiniteSetTheorems, SequenceTheorems, TLAPS

(* Callbacks call the table only where there is a single task thread.  Nothing *)
(* in the program makes them: plugins that register in init_ or execute_ and  *)
(* unregister in uninit_ meet it.                                            *)
PluginObligation == \A n \in 2 .. Cardinality(Tasks) : MayCall[n] = {}

-----------------------------------------------------------------------------
(* The inductive invariant of the registry, in parts.                        *)

Labels == {"idle", "plugin", "callback", "isExist", "insert", "erase",
           "lookup", "process", "send", "release"}
Phases == PluginPhases \cup {"initLog", "loadConfig", "getFiles", "sortPlugin",
                             "load", "running", "exit"}

Types ==
  /\ pc \in [Threads -> Labels]
  /\ arg \in [Threads -> Records \cup Addresses \cup MethodIds \cup {NULL}]
  /\ pBase \in [Tasks -> Addresses \cup {NULL}]
  /\ szRet \in [Tasks -> Plugins \cup {"config", NULL}]
  /\ \A a \in live : record[a] \in Records

(* Who runs when, and where plugin code does: on Main in the phases of a       *)
(* plugin function, on task threads once they run, and inside the table on    *)
(* one thread at a time.                                                     *)
Where ==
  /\ phase \in Phases
  /\ phase \in PluginPhases <=> pc[Main] # "idle"
  /\ pc[Main] \in {"idle", "plugin", "isExist", "insert", "erase"}
  /\ m_TaskThreadVec # {} => phase = "running"
  /\ \A t \in Tasks :
       /\ pc[t] # "idle" => t \in m_TaskThreadVec
       /\ pc[t] \in {"isExist", "insert", "erase"} => m_TaskThreadVec = {t}
       /\ pc[t] # "plugin"

(* What a thread inside insert or erase relies on.                           *)
Pending ==
  \A t \in Threads :
    /\ pc[t] = "insert" => arg[t] \in live /\ m_CallBackMap[record[arg[t]].method_id] = NULL
    /\ pc[t] = "erase"  => m_CallBackMap[arg[t]] # NULL /\ m_CallBackMap[arg[t]] \notin live

(* The record that process reads was not freed since the lookup.              *)
InUse == \A t \in Tasks : pc[t] = "process" => pBase[t] \in live

RInv == RegistryTypeOK /\ Types /\ Where /\ Pending /\ RecordsOwned /\ InUse

(* A thread that changes the map, or is about to, is the only one that runs.  *)
Busy == {"isExist", "insert", "erase"}
LEMMA Alone ==
  ASSUME Where, NEW t \in Threads, NEW u \in Threads, t # u, pc[t] \in Busy
  PROVE  pc[u] = "idle"
<1>1. CASE t = Main
  <2>1. m_TaskThreadVec = {}
    BY <1>1 DEF Where, Busy, PluginPhases
  <2> QED BY <1>1, <2>1 DEF Where, Threads
<1>2. CASE t \in Tasks
  <2>1. m_TaskThreadVec = {t}
    BY <1>2 DEF Where, Busy
  <2> QED BY <1>2, <2>1 DEF Where, Threads, PluginPhases
<1> QED BY <1>1, <1>2 DEF Threads

(* A task thread that may call the table runs alone.                          *)
LEMMA AllowedToTask ==
  ASSUME RegistryAssumption, PluginObligation, RegistryTypeOK,
         NEW t \in m_TaskThreadVec, NEW entry, Allowed(t, entry)
  PROVE  m_TaskThreadVec = {t}
<1> DEFINE n == Cardinality(m_TaskThreadVec)
<1>1. m_TaskThreadVec \subseteq Tasks /\ IsFiniteSet(Tasks)
  BY DEF RegistryTypeOK, RegistryAssumption
<1>2. IsFiniteSet(m_TaskThreadVec) /\ n <= Cardinality(Tasks)
  BY <1>1, FS_Subset
<1>3. n \in Nat /\ Cardinality(Tasks) \in Nat
  BY <1>1, <1>2, FS_CardinalityType
<1>4. n # 0
  BY <1>2, FS_EmptySet
<1>5. n = 1
  BY <1>2, <1>3, <1>4 DEF PluginObligation, Allowed
<1>6. \E u : m_TaskThreadVec = {u}
  BY <1>2, <1>5, FS_Singleton
<1> QED BY <1>6

-----------------------------------------------------------------------------
LEMMA InitRegistry == ASSUME RegistryAssumption, Init PROVE RInv
<1> USE DEF Init, RegistryInit, Threads
<1>1. RegistryTypeOK
  BY DEF RegistryTypeOK, InPlugin
<1>2. Types
  BY DEF Types, Labels
<1>3. Where
  BY DEF Where, Phases, PluginPhases
<1>4. Pending /\ RecordsOwned /\ InUse
  BY DEF Pending, RecordsOwned, InUse, Erasing, Inserting
<1> QED BY <1>1, <1>2, <1>3, <1>4 DEF RInv

-----------------------------------------------------------------------------
(* The calls of the table, by Main in a plugin function or by a task thread.   *)
Caller(t) == (t = Main /\ phase \in PluginPhases) \/ t \in m_TaskThreadVec

LEMMA RegisterStep ==
  ASSUME RegistryAssumption, PluginObligation, RInv, NEW t \in Threads, Caller(t),
         NEW r \in Records, register(t, r), UNCHANGED phase
  PROVE  RInv'
<1>a. Types /\ Where /\ RegistryTypeOK /\ Pending /\ RecordsOwned /\ InUse
  BY DEF RInv
<1>b. /\ pc[t] \in InPlugin /\ pc' = [pc EXCEPT ![t] = "isExist"]
      /\ arg' = [arg EXCEPT ![t] = r]
      /\ UNCHANGED <<m_CallBackMap, record, live, m_TaskThreadVec, pBase, szRet>>
  BY DEF register, Allowed, Goto, registryVars
<1>c. t \in m_TaskThreadVec => m_TaskThreadVec = {t}
  BY <1>a, AllowedToTask DEF register
<1> USE <1>b DEF Threads, InPlugin
<1>1. Types'
  BY <1>a DEF Types, Labels
<1>2. RegistryTypeOK'
  BY <1>a, RegistryAssumption DEF RegistryTypeOK, Types, RegistryAssumption
<1>3. Where'
  BY <1>a, <1>c, RegistryAssumption DEF Where, Types, Caller, PluginPhases, RegistryAssumption
<1>4. Pending'
  BY <1>a DEF Pending, Types
<1>5. RecordsOwned'
  BY <1>a DEF RecordsOwned, Erasing, Inserting, Types
<1>6. InUse'
  BY <1>a DEF InUse
<1> QED BY <1>1, <1>2, <1>3, <1>4, <1>5, <1>6 DEF RInv

LEMMA IsExistStep ==
  ASSUME RegistryAssumption, RInv, NEW t \in Threads, Caller(t),
         isExist(t), UNCHANGED phase
  PROVE  RInv'
<1>a. Types /\ Where /\ RegistryTypeOK /\ Pending /\ RecordsOwned /\ InUse
  BY DEF RInv
<1>b. pc[t] = "isExist" /\ UNCHANGED <<m_CallBackMap, m_TaskThreadVec, pBase, szRet>>
  BY DEF isExist
<1>c. \A u \in Threads : u # t => pc[u] = "idle"
  BY <1>a, <1>b, Alone DEF Busy
<1>d. arg[t] \in Records
  BY <1>a, <1>b DEF RegistryTypeOK, InPlugin
<1>e. arg[t].method_id \in MethodIds
  BY <1>d DEF Records
<1> USE DEF Threads, InPlugin, Home, Goto
<1>1. CASE /\ m_CallBackMap[arg[t].method_id] = NULL
           /\ \E a \in Addresses \ live :
                /\ live' = live \cup {a}
                /\ record' = [record EXCEPT ![a] = arg[t]]
                /\ arg' = [arg EXCEPT ![t] = a]
           /\ Goto(t, "insert")
  <2>1. PICK a \in Addresses \ live : /\ live' = live \cup {a}
                                      /\ record' = [record EXCEPT ![a] = arg[t]]
                                      /\ arg' = [arg EXCEPT ![t] = a]
    BY <1>1
  <2>2. pc' = [pc EXCEPT ![t] = "insert"]
    BY <1>1
  <2> USE <2>1, <2>2, <1>b
  <2>3. Types'
    BY <1>a, <1>d DEF Types, Labels, RegistryTypeOK
  <2>4. RegistryTypeOK'
    BY <1>a, <1>d DEF RegistryTypeOK, Types
  <2>5. Where'
    BY <1>a DEF Where, Types, Caller, PluginPhases
  <2>6. Pending'
    BY <1>a, <1>c, <1>1 DEF Pending, Types, RegistryTypeOK
  <2>7. RecordsOwned'
    <3>1. ASSUME NEW id \in MethodIds, m_CallBackMap[id] # NULL
          PROVE  m_CallBackMap[id] \in live /\ record[m_CallBackMap[id]].method_id = id
      BY <1>a, <1>c, <3>1 DEF RecordsOwned, Erasing
    <3>2. \A id \in MethodIds : m_CallBackMap[id] # NULL =>
             m_CallBackMap[id] \in live' /\ record'[m_CallBackMap[id]].method_id = id
      BY <1>a, <3>1 DEF RegistryTypeOK
    <3>3. Inserting(a)'
      BY <1>a DEF Inserting, Types
    <3>4. \A x \in live : ~Inserting(x)
      BY <1>a, <1>c, <1>d, RegistryAssumption DEF Inserting, RegistryTypeOK
    <3>5. \A x \in live : m_CallBackMap[record'[x].method_id] = x
      BY <1>a, <3>4 DEF RecordsOwned, RegistryTypeOK
    <3> QED BY <3>2, <3>3, <3>5 DEF RecordsOwned
  <2>8. InUse'
    BY <1>a DEF InUse, RegistryTypeOK
  <2> QED BY <2>3, <2>4, <2>5, <2>6, <2>7, <2>8 DEF RInv
<1>2. CASE /\ arg' = [arg EXCEPT ![t] = NULL]
           /\ Goto(t, Home(t))
           /\ UNCHANGED <<live, record>>
  <2> USE <1>2, <1>b
  <2>3. Types'
    BY <1>a DEF Types, Labels, RegistryTypeOK
  <2>4. RegistryTypeOK'
    BY <1>a DEF RegistryTypeOK, Types
  <2>5. Where'
    BY <1>a, RegistryAssumption DEF Where, Types, Caller, PluginPhases, RegistryAssumption
  <2>6. Pending'
    BY <1>a DEF Pending, Types, RegistryTypeOK
  <2>7. RecordsOwned'
    BY <1>a DEF RecordsOwned, Types, Erasing, Inserting
  <2>8. InUse'
    BY <1>a DEF InUse, RegistryTypeOK
  <2> QED BY <2>3, <2>4, <2>5, <2>6, <2>7, <2>8 DEF RInv
<1> QED BY <1>1, <1>2 DEF isExist

LEMMA InsertStep ==
  ASSUME RegistryAssumption, RInv, NEW t \in Threads, Caller(t),
         insert(t), UNCHANGED phase
  PROVE  RInv'
<1>a. Types /\ Where /\ RegistryTypeOK /\ Pending /\ RecordsOwned /\ InUse
  BY DEF RInv
<1> DEFINE a == arg[t]
           id == record[a].method_id
<1>b. /\ pc[t] = "insert" /\ pc' = [pc EXCEPT ![t] = Home(t)]
      /\ arg' = [arg EXCEPT ![t] = NULL]
      /\ UNCHANGED <<record, live, m_TaskThreadVec, pBase, szRet>>
  BY DEF insert, Goto
<1>c. \A u \in Threads : u # t => pc[u] = "idle"
  BY <1>a, <1>b, Alone DEF Busy
<1>d. a \in live /\ a \in Addresses /\ record[a] \in Records /\ m_CallBackMap[id] = NULL
  BY <1>a, <1>b DEF Pending, Types, RegistryTypeOK
<1>e. id \in MethodIds
  BY <1>d DEF Records
<1>f. m_CallBackMap' = [m_CallBackMap EXCEPT ![id] = a]
  BY <1>d DEF insert
<1> HIDE DEF a, id
<1> USE <1>b, <1>f DEF Threads, InPlugin, Home
<1>1. Types'
  BY <1>a DEF Types, Labels
<1>2. RegistryTypeOK'
  BY <1>a, <1>d, <1>e DEF RegistryTypeOK, Types
<1>3. Where'
  BY <1>a, RegistryAssumption DEF Where, Types, Caller, PluginPhases, RegistryAssumption
<1>4. Pending'
  BY <1>a, <1>c DEF Pending, Types
<1>5. RecordsOwned'
  <2>1. \A i \in MethodIds : ~Erasing(i)' /\ ~Erasing(i)
    BY <1>a, <1>c DEF Erasing, Types
  <2>2. \A x \in live : Inserting(x) => x = a
    BY <1>a, <1>c DEF Inserting, a
  <2> QED BY <1>a, <1>d, <1>e, <2>1, <2>2 DEF RecordsOwned, RegistryTypeOK, id
<1>6. InUse'
  BY <1>a DEF InUse
<1> QED BY <1>1, <1>2, <1>3, <1>4, <1>5, <1>6 DEF RInv

(* Whoever comes here runs alone, and has left process behind.                *)
LEMMA UnregisterStep ==
  ASSUME RegistryAssumption, PluginObligation, RInv, NEW t \in Threads, Caller(t),
         NEW entry \in DOMAIN table, NEW id \in MethodIds, unregister(t, entry, id),
         UNCHANGED phase
  PROVE  RInv'
<1>a. Types /\ Where /\ RegistryTypeOK /\ Pending /\ RecordsOwned /\ InUse
  BY DEF RInv
<1> DEFINE a == m_CallBackMap[id]
<1>b. /\ pc[t] \in InPlugin /\ pc' = [pc EXCEPT ![t] = "erase"]
      /\ a # NULL /\ live' = live \ {a}
      /\ arg' = [arg EXCEPT ![t] = id]
      /\ UNCHANGED <<m_CallBackMap, record, m_TaskThreadVec, pBase, szRet>>
  BY DEF unregister, Allowed, Goto
<1>c. t \in m_TaskThreadVec => m_TaskThreadVec = {t}
  BY <1>a, AllowedToTask DEF unregister
<1>d. \A v \in Threads : v # t => pc[v] = "idle"
  BY <1>a, <1>b, <1>c, RegistryAssumption
     DEF Where, Caller, Threads, InPlugin, PluginPhases, RegistryAssumption, RegistryTypeOK
<1>e. a \in live /\ a \in Addresses /\ record[a].method_id = id
  BY <1>a, <1>b, <1>c, <1>d DEF RecordsOwned, Erasing, RegistryTypeOK, Threads, InPlugin
<1> HIDE DEF a
<1> USE <1>b, <1>c DEF Threads, InPlugin
<1>1. Types'
  BY <1>a DEF Types, Labels
<1>2. RegistryTypeOK'
  BY <1>a, RegistryAssumption DEF RegistryTypeOK, Types, RegistryAssumption
<1>3. Where'
  BY <1>a, RegistryAssumption DEF Where, Types, Caller, PluginPhases, RegistryAssumption
<1>4. Pending'
  BY <1>a, <1>d DEF Pending, Types, a
<1>5. RecordsOwned'
  <2>1. Erasing(id)' /\ \A i \in MethodIds : ~Erasing(i)
    BY <1>a, <1>d DEF Erasing, Types
  <2>2. \A x \in live : ~Inserting(x)
    BY <1>a, <1>d DEF Inserting
  <2>3. \A x \in live' : m_CallBackMap[record[x].method_id] = x
    BY <1>a, <2>2 DEF RecordsOwned
  <2>4. \A i \in MethodIds : m_CallBackMap[i] # NULL /\ i # id =>
           m_CallBackMap[i] \in live' /\ record[m_CallBackMap[i]].method_id = i
    BY <1>a, <1>e, <2>1 DEF RecordsOwned
  <2> QED BY <2>1, <2>3, <2>4 DEF RecordsOwned
<1>6. InUse'
  BY <1>d DEF InUse
<1> QED BY <1>1, <1>2, <1>3, <1>4, <1>5, <1>6 DEF RInv

LEMMA EraseStep ==
  ASSUME RegistryAssumption, RInv, NEW t \in Threads, Caller(t), erase(t), UNCHANGED phase
  PROVE  RInv'
<1>a. Types /\ Where /\ RegistryTypeOK /\ Pending /\ RecordsOwned /\ InUse
  BY DEF RInv
<1> DEFINE id == arg[t]
<1>b. /\ pc[t] = "erase" /\ pc' = [pc EXCEPT ![t] = Home(t)]
      /\ m_CallBackMap' = [m_CallBackMap EXCEPT ![id] = NULL]
      /\ arg' = [arg EXCEPT ![t] = NULL]
      /\ UNCHANGED <<record, live, m_TaskThreadVec, pBase, szRet>>
  BY DEF erase, Goto
<1>c. \A u \in Threads : u # t => pc[u] = "idle"
  BY <1>a, <1>b, Alone DEF Busy
<1>d. id \in MethodIds /\ m_CallBackMap[id] # NULL /\ m_CallBackMap[id] \notin live
  BY <1>a, <1>b DEF Pending, RegistryTypeOK, InPlugin
<1> HIDE DEF id
<1> USE <1>b DEF Threads, InPlugin, Home
<1>1. Types'
  BY <1>a DEF Types, Labels
<1>2. RegistryTypeOK'
  BY <1>a, <1>d DEF RegistryTypeOK, Types
<1>3. Where'
  BY <1>a, RegistryAssumption DEF Where, Types, Caller, PluginPhases, RegistryAssumption
<1>4. Pending'
  BY <1>a, <1>c DEF Pending, Types
<1>5. RecordsOwned'
  <2>1. \A i \in MethodIds : Erasing(i) => i = id
    BY <1>a, <1>c DEF Erasing, id
  <2>2. \A x \in live : ~Inserting(x)
    BY <1>a, <1>c DEF Inserting
  <2> QED BY <1>a, <1>d, <2>1, <2>2 DEF RecordsOwned, RegistryTypeOK
<1>6. InUse'
  BY <1>a DEF InUse
<1> QED BY <1>1, <1>2, <1>3, <1>4, <1>5, <1>6 DEF RInv

LEMMA TableStep ==
  ASSUME RegistryAssumption, PluginObligation, RInv, NEW t \in Threads, Caller(t),
         NEW p, tableCall(t, p), UNCHANGED phase
  PROVE  RInv'
BY RegisterStep, IsExistStep, InsertStep, UnregisterStep, EraseStep DEF tableCall

-----------------------------------------------------------------------------
(* A task thread with a request, outside the table.                          *)
LEMMA RequestStep ==
  ASSUME RegistryAssumption, RInv, NEW t \in m_TaskThreadVec, UNCHANGED phase,
         \/ badRequest(t) \/ \E id \in MethodIds : request(t, id)
         \/ return(t) \/ sendMessage(t) \/ pFunFree(t)
  PROVE  RInv'
<1>a. Types /\ Where /\ RegistryTypeOK /\ Pending /\ RecordsOwned /\ InUse
  BY DEF RInv
<1>b. t \in Tasks /\ t # Main /\ UNCHANGED registryVars
  BY <1>a, RegistryAssumption DEF RegistryTypeOK, RegistryAssumption,
     badRequest, request, return, sendMessage, pFunFree
<1> USE <1>b DEF Threads, InPlugin, Goto, registryVars, badRequest, request, return,
                 sendMessage, pFunFree
<1>1. Types'
  BY <1>a DEF Types, Labels
<1>2. RegistryTypeOK'
  BY <1>a DEF RegistryTypeOK, Types
<1>3. Where'
  BY <1>a DEF Where, Types, PluginPhases
<1>c. \A u \in Threads : /\ pc[u] \in Busy <=> pc'[u] \in Busy
                         /\ pc[u] \in Busy => pc'[u] = pc[u] /\ arg'[u] = arg[u]
  BY <1>a DEF Types, Busy
<1>4. Pending'
  BY <1>a, <1>c DEF Pending, Busy
<1>5. RecordsOwned'
  BY <1>a, <1>c DEF RecordsOwned, Erasing, Inserting, Busy
<1>6. InUse'
  BY <1>a DEF InUse, Types, RegistryTypeOK
<1> QED BY <1>1, <1>2, <1>3, <1>4, <1>5, <1>6 DEF RInv

LEMMA LookupStep ==
  ASSUME RegistryAssumption, RInv, NEW t \in m_TaskThreadVec, UNCHANGED phase,
         lookup(t) \/ process(t)
  PROVE  RInv'
<1>a. Types /\ Where /\ RegistryTypeOK /\ Pending /\ RecordsOwned /\ InUse
  BY DEF RInv
<1>b. t \in Tasks /\ t # Main /\ UNCHANGED registryVars
  BY <1>a, RegistryAssumption DEF RegistryTypeOK, RegistryAssumption, lookup, process
<1>d. pc[t] = "lookup" /\ m_CallBackMap[arg[t]] # NULL =>
        m_CallBackMap[arg[t]] \in live /\ m_CallBackMap[arg[t]] \in Addresses
  <2>1. \A u \in Threads : pc[t] = "lookup" => pc[u] # "erase"
    BY <1>a, <1>b, Alone DEF Busy, Threads
  <2> QED BY <1>a, <1>b, <2>1 DEF RecordsOwned, Erasing, RegistryTypeOK, Threads, InPlugin
<1>e. pc[t] = "process" => record[pBase[t]].plugin \in Plugins
  <2>1. pc[t] = "process" => pBase[t] \in live
    BY <1>a, <1>b, RegistryAssumption
       DEF RegistryTypeOK, InUse, RegistryAssumption
  <2> QED BY <1>a, <2>1 DEF Types, Records
<1> USE <1>b DEF Threads, InPlugin, Goto, registryVars, Served
<1>1. Types'
  BY <1>a, <1>d, <1>e DEF Types, Labels, lookup, process
<1>2. RegistryTypeOK'
  BY <1>a, <1>d, <1>e DEF RegistryTypeOK, Types, lookup, process
<1>3. Where'
  BY <1>a DEF Where, Types, PluginPhases, lookup, process
<1>c. \A u \in Threads : /\ pc[u] \in Busy <=> pc'[u] \in Busy
                         /\ pc[u] \in Busy => pc'[u] = pc[u] /\ arg'[u] = arg[u]
  BY <1>a DEF Types, Busy, lookup, process
<1>4. Pending'
  BY <1>a, <1>c DEF Pending, Busy
<1>5. RecordsOwned'
  BY <1>a, <1>c DEF RecordsOwned, Erasing, Inserting, Busy
<1>6. InUse'
  BY <1>a, <1>d DEF InUse, Types, RegistryTypeOK, lookup, process
<1> QED BY <1>1, <1>2, <1>3, <1>4, <1>5, <1>6 DEF RInv

-----------------------------------------------------------------------------
(* The start of the program moves Main between idle and plugin, and touches    *)
(* nothing of the registry.                                                  *)
LEMMA MainMoves ==
  ASSUME RegistryAssumption, RInv, UNCHANGED <<registryVars, arg, pBase, szRet>>,
         phase \notin PluginPhases \/ pc[Main] = "plugin", phase # "running",
         \/ phase' \in Phases \ PluginPhases /\ pc' = [pc EXCEPT ![Main] = "idle"]
         \/ phase' \in PluginPhases /\ pc' = [pc EXCEPT ![Main] = "plugin"]
  PROVE  RInv'
<1>a. Types /\ Where /\ RegistryTypeOK /\ Pending /\ RecordsOwned /\ InUse
  BY DEF RInv
<1>b. pc[Main] \in {"idle", "plugin"} /\ Main \notin Tasks /\ m_TaskThreadVec = {}
  BY <1>a, RegistryAssumption DEF Where, RegistryAssumption, PluginPhases
<1>c. /\ \A u \in Tasks : pc'[u] = pc[u]
      /\ pc'[Main] \in {"idle", "plugin"}
      /\ phase' \in PluginPhases <=> pc'[Main] # "idle"
      /\ pc' \in [Threads -> Labels] /\ phase' \in Phases
  BY <1>a, <1>b DEF Types, Threads, Labels, Phases, PluginPhases
<1> USE DEF Threads, registryVars
<1>1. Types'
  BY <1>a, <1>c DEF Types
<1>2. RegistryTypeOK'
  BY <1>a, <1>b, <1>c DEF RegistryTypeOK, InPlugin
<1>3. Where'
  BY <1>a, <1>b, <1>c DEF Where
<1>4. Pending'
  BY <1>a, <1>c DEF Pending
<1>5. RecordsOwned'
  BY <1>a, <1>b, <1>c DEF RecordsOwned, Erasing, Inserting
<1>6. InUse'
  BY <1>a, <1>c DEF InUse
<1> QED BY <1>1, <1>2, <1>3, <1>4, <1>5, <1>6 DEF RInv

(* A step of init itself, up to the start of the task threads.                *)
mainStep ==
  \/ initLog \/ loadConfig \/ getFilesByDirectory \/ sortPlugin \/ initLibrary
  \/ initReturns \/ executeReturnsTrue \/ executeReturnsFalse \/ uninitReturns

LEMMA MainFrame ==
  ASSUME mainStep, RInv
  PROVE  /\ UNCHANGED <<registryVars, arg, pBase, szRet>>
         /\ phase \notin PluginPhases \/ pc[Main] = "plugin"
         /\ phase # "running"
         /\ \/ phase' \in Phases \ PluginPhases /\ pc' = [pc EXCEPT ![Main] = "idle"]
            \/ phase' \in PluginPhases /\ pc' = [pc EXCEPT ![Main] = "plugin"]
<1>a. Types /\ Where
  BY DEF RInv
<1>b. phase \notin PluginPhases => pc = [pc EXCEPT ![Main] = "idle"]
  BY <1>a DEF Types, Where
<1> USE <1>a, <1>b DEF Phases, PluginPhases, fail, delete, call, Goto
<1>1. CASE initLog
  BY <1>1 DEF initLog, threadVars
<1>2. CASE loadConfig
  BY <1>2 DEF loadConfig, threadVars
<1>3. CASE getFilesByDirectory
  BY <1>3 DEF getFilesByDirectory, threadVars
<1>4. CASE sortPlugin
  BY <1>4 DEF sortPlugin, threadVars
<1>5. CASE initLibrary
  BY <1>5 DEF initLibrary
<1>6. CASE initReturns
  BY <1>6 DEF initReturns
<1>7. CASE executeReturnsTrue
  BY <1>7 DEF executeReturnsTrue
<1>8. CASE executeReturnsFalse
  BY <1>8 DEF executeReturnsFalse
<1>9. CASE uninitReturns
  BY <1>9 DEF uninitReturns
<1> QED BY <1>1, <1>2, <1>3, <1>4, <1>5, <1>6, <1>7, <1>8, <1>9 DEF mainStep

LEMMA ServiceStep ==
  ASSUME RInv, startService
  PROVE  RInv'
<1>a. Types /\ Where /\ RegistryTypeOK /\ Pending /\ RecordsOwned /\ InUse
  BY DEF RInv
<1>b. /\ UNCHANGED <<m_CallBackMap, record, live, threadVars>>
      /\ phase = "load" /\ m_TaskThreadVec' \subseteq Tasks
      /\ \/ phase' = "running"
         \/ phase' = "exit" /\ UNCHANGED m_TaskThreadVec
  BY <1>a DEF startService, fail, RegistryTypeOK
<1>c. \A u \in Tasks : pc[u] = "idle"
  BY <1>a, <1>b DEF Where
<1> USE <1>b DEF threadVars
<1>1. Types'
  BY <1>a DEF Types
<1>2. RegistryTypeOK'
  BY <1>a DEF RegistryTypeOK
<1>3. Where'
  BY <1>a, <1>c DEF Where, PluginPhases, Phases
<1>4. Pending'
  BY <1>a DEF Pending
<1>5. RecordsOwned'
  BY <1>a DEF RecordsOwned, Erasing, Inserting
<1>6. InUse'
  BY <1>a DEF InUse
<1> QED BY <1>1, <1>2, <1>3, <1>4, <1>5, <1>6 DEF RInv

LEMMA RegistryStep ==
  ASSUME RegistryAssumption, PluginObligation, RInv, [Next]_vars
  PROVE  RInv'
<1>1. CASE mainStep
  BY <1>1, MainFrame, MainMoves
<1>2. CASE startService
  BY <1>2, ServiceStep
<1>3. CASE pluginCalls
  <2>1. Caller(Main) /\ Main \in Threads /\ tableCall(Main, file) /\ UNCHANGED phase
    BY <1>3 DEF pluginCalls, Caller, Threads, startVars
  <2> QED BY <2>1, TableStep
<1>4. CASE serve
  <2>1. PICK t \in m_TaskThreadVec : taskStep(t)
    BY <1>4 DEF serve
  <2>2. UNCHANGED phase /\ t \in Threads /\ Caller(t)
    BY <1>4 DEF serve, startVars, Caller, Threads, RInv, RegistryTypeOK
  <2>3. CASE \E p \in Plugins : tableCall(t, p)
    BY <2>2, <2>3, TableStep
  <2>4. CASE lookup(t) \/ process(t)
    BY <2>2, <2>4, LookupStep
  <2>5. CASE \/ badRequest(t) \/ \E id \in MethodIds : request(t, id)
             \/ return(t) \/ sendMessage(t) \/ pFunFree(t)
    BY <2>2, <2>5, RequestStep
  <2> QED BY <2>1, <2>3, <2>4, <2>5 DEF taskStep
<1>5. CASE UNCHANGED vars
  BY <1>5 DEF vars, startVars, registryVars, threadVars, RInv, RegistryTypeOK, Types, Where,
              Pending, RecordsOwned, InUse, Erasing, Inserting
<1> QED BY <1>1, <1>2, <1>3, <1>4, <1>5 DEF Next, mainStep

LEMMA RegistryInvariance == ASSUME PluginObligation PROVE Spec => []RInv
<1>1. Init => RInv
  BY InitRegistry, RegistryAssumption
<1>2. RInv /\ [Next]_vars => RInv'
  BY RegistryStep, RegistryAssumption
<1> QED BY <1>1, <1>2, PTL DEF Spec

(* With plugins that keep PluginObligation, whatever they register and refuse, *)
(* in any order and on any number of task threads: every entry of the map     *)
(* leads to an allocated record of its own id and no record is lost.          *)
THEOREM RegistrySafe == ASSUME PluginObligation PROVE Spec => []RegistryInv
<1>1. RInv => RegistryInv
  BY DEF RInv, RegistryInv
<1> QED BY <1>1, RegistryInvariance, PTL

(* Under the same obligation the std::map, which has no lock, is never read    *)
(* nor changed by one thread while another changes it.                       *)
THEOREM MapNotRaced == ASSUME PluginObligation PROVE Spec => []NoMapRace
<1>1. RInv => NoMapRace
  BY Alone DEF RInv, NoMapRace, Busy, Readers, Writers
<1> QED BY <1>1, RegistryInvariance, PTL

-----------------------------------------------------------------------------
(* The start of the program.  Its inductive invariant needs nothing of the     *)
(* registry, nor of PluginObligation.                                        *)

LEMMA SetToSeqsProperties ==
  ASSUME NEW S, IsFiniteSet(S), NEW s \in SetToSeqs(S)
  PROVE  s \in Seq(S) /\ IsInjective(s) /\ ToSet(s) = S
<1> DEFINE n == Cardinality(S)
<1>1. n \in Nat
  BY FS_CardinalityType
<1>2. s \in [1 .. n -> S] /\ \A i, j \in 1 .. n : i # j => s[i] # s[j]
  BY DEF SetToSeqs
<1>3. s \in Injection(1 .. n, S)
  BY <1>2 DEF Injection, IsInjective
<1>4. Cardinality(1 .. n) = n
  BY <1>1, FS_Interval
<1>5. s \in Surjection(1 .. n, S)
  BY <1>3, <1>4, FS_Injection
<1>6. \A x \in S : \E i \in 1 .. n : s[i] = x
  BY <1>5 DEF Surjection
<1>7. s \in Seq(S)
  BY <1>1, <1>2
<1> HIDE DEF n
<1> QED BY <1>2, <1>6, <1>7 DEF IsInjective, ToSet

(* The list that the libraries are loaded from: each file once, those of       *)
(* plugin_order first.                                                       *)
Listing ==
  /\ filesSortVec \in Seq(Files) /\ IsInjective(filesSortVec) /\ ToSet(filesSortVec) = Files
  /\ Len(plugin_order) <= Len(filesSortVec)
  /\ \A k \in 1 .. Len(plugin_order) : plugin_order[k] = filesSortVec[k]

LEMMA SortedIsListing ==
  ASSUME RegistryAssumption,
         NEW order \in Seq(Files \cup {Missing}), NEW all \in SetToSeqs(Files),
         InListing(order, all), NEW vec \in sorted(order, all)
  PROVE  /\ vec \in Seq(Files) /\ IsInjective(vec) /\ ToSet(vec) = Files
         /\ Len(order) <= Len(vec) /\ \A k \in 1 .. Len(order) : order[k] = vec[k]
<1> DEFINE S == Files \ ToSet(order)
<1>1. IsFiniteSet(Files) /\ IsFiniteSet(S)
  BY FS_Subset DEF RegistryAssumption, Files
<1>2. ToSet(all) = Files
  BY <1>1, SetToSeqsProperties
<1>3. ToSet(order) \subseteq Files /\ IsInjective(order)
  BY <1>2 DEF InListing
<1>4. PICK rest \in SetToSeqs(S) : vec = order \o rest
  BY <1>2 DEF sorted, Left
<1>5. rest \in Seq(S) /\ IsInjective(rest) /\ ToSet(rest) = S
  BY <1>1, SetToSeqsProperties
<1>6. order \in Seq(Files)
  <2>1. \A k \in 1 .. Len(order) : order[k] \in Files
    BY <1>3 DEF ToSet
  <2> QED BY <2>1
<1>7. vec \in Seq(Files)
  BY <1>4, <1>5, <1>6
<1>8. /\ Len(vec) = Len(order) + Len(rest)
      /\ \A k \in 1 .. Len(order) : vec[k] = order[k]
      /\ \A k \in Len(order) + 1 .. Len(vec) :
           k - Len(order) \in 1 .. Len(rest) /\ vec[k] = rest[k - Len(order)]
  BY <1>4, <1>5, <1>6
<1>9. IsInjective(vec)
  <2> SUFFICES ASSUME NEW i \in 1 .. Len(vec), NEW j \in 1 .. Len(vec), vec[i] = vec[j]
               PROVE  i = j
    BY <1>7 DEF IsInjective
  <2>1. \A k \in 1 .. Len(order) : order[k] \in ToSet(order)
    BY DEF ToSet
  <2>2. \A k \in 1 .. Len(rest) : rest[k] \notin ToSet(order)
    BY <1>5
  <2>3. CASE i <= Len(order) /\ j <= Len(order)
    <3>1. order[i] = order[j] /\ i \in DOMAIN order /\ j \in DOMAIN order
      BY <1>6, <1>8, <2>3
    <3> QED BY <1>3, <3>1 DEF IsInjective
  <2>4. CASE i > Len(order) /\ j > Len(order)
    <3>1. /\ rest[i - Len(order)] = rest[j - Len(order)]
          /\ i - Len(order) \in DOMAIN rest /\ j - Len(order) \in DOMAIN rest
      BY <1>5, <1>6, <1>8, <2>4
    <3>2. i - Len(order) = j - Len(order)
      BY <1>5, <3>1 DEF IsInjective
    <3> QED BY <1>6, <3>2
  <2>5. CASE i <= Len(order) /\ j > Len(order)
    <3>1. i \in 1 .. Len(order) /\ j \in Len(order) + 1 .. Len(vec)
      BY <1>6, <1>7, <2>5
    <3> QED BY <1>8, <2>1, <2>2, <3>1
  <2>6. CASE i > Len(order) /\ j <= Len(order)
    <3>1. j \in 1 .. Len(order) /\ i \in Len(order) + 1 .. Len(vec)
      BY <1>6, <1>7, <2>6
    <3> QED BY <1>8, <2>1, <2>2, <3>1
  <2> QED BY <1>6, <2>3, <2>4, <2>5, <2>6
<1>10. ToSet(vec) = Files
  <2>1. ASSUME NEW f \in Files PROVE f \in ToSet(vec)
    <3>1. CASE f \in ToSet(order)
      <4>1. PICK k \in 1 .. Len(order) : order[k] = f
        BY <1>6, <3>1 DEF ToSet
      <4>2. k \in DOMAIN vec /\ vec[k] = f
        BY <1>5, <1>6, <1>7, <1>8, <4>1
      <4> QED BY <4>2 DEF ToSet
    <3>2. CASE f \in ToSet(rest)
      <4>1. PICK k \in 1 .. Len(rest) : rest[k] = f
        BY <1>5, <3>2 DEF ToSet
      <4>2. Len(order) + k \in DOMAIN vec /\ vec[Len(order) + k] = f
        BY <1>4, <1>5, <1>6, <1>7, <1>8, <4>1
      <4> QED BY <4>2 DEF ToSet
    <3> QED BY <1>5, <3>1, <3>2
  <2>2. ToSet(vec) \subseteq Files
    BY <1>7 DEF ToSet
  <2> QED BY <2>1, <2>2
<1> QED BY <1>5, <1>6, <1>7, <1>8, <1>9, <1>10

-----------------------------------------------------------------------------
(* The inductive invariant of the start, in parts.                           *)
StartTypes ==
  /\ phase \in Phases
  /\ plugin_order \in Seq(Files \cup {Missing})
  /\ current \in Nat \ {0}
  /\ calls \in Seq(Files \X PluginPhases)
  /\ m_NDPluginLibraryLoadMap \in [{NameOf[f] : f \in Files} -> Files \cup {NULL}]

(* Nothing is loaded before the list is complete.                            *)
ListInv ==
  /\ \/ Listing
     \/ calls = <<>> /\ current = 1 /\ phase \notin PluginPhases \cup {"load", "running"}
  /\ phase \in {"initLog", "loadConfig", "getFiles", "sortPlugin"} => calls = <<>> /\ current = 1
  /\ phase \in {"getFiles", "sortPlugin"} => filesSortVec = plugin_order
  /\ phase = "sortPlugin" => allFilesVec \in SetToSeqs(Files)

(* The files before the current one have executed; of the current one, the     *)
(* functions up to the phase were called, and of the others none.              *)
CallsInv ==
  /\ \A j \in 1 .. Len(calls) :
       \E n \in 1 .. Len(filesSortVec) : /\ calls[j][1] = filesSortVec[n] /\ n <= current
                                         /\ phase = "load" => n < current
  /\ \A n \in 1 .. current - 1 : /\ n <= Len(filesSortVec)
                                 /\ Called(filesSortVec[n], "init_")
                                 /\ Called(filesSortVec[n], "execute_")
  /\ phase \in PluginPhases => current <= Len(filesSortVec)
  /\ phase = "execute_" => Called(file, "execute_")
  /\ phase \in {"init_", "execute_"} => Called(file, "init_")
  /\ phase = "uninit_" => Called(file, "uninit_")
  /\ phase = "running" => current > Len(filesSortVec)

(* uninit_ is the last call there is.                                        *)
UninitInv ==
  \A j \in 1 .. Len(calls) :
    calls[j][2] = "uninit_" => j = Len(calls) /\ phase \in {"uninit_", "exit"}

(* At the exit, a library that has started was executed, or given its uninit_. *)
ExitInv ==
  phase = "exit" => \A f \in Files : Called(f, "init_") =>
    Called(f, "uninit_") \/ \E n \in 1 .. current - 1 : filesSortVec[n] = f

(* The map owns the libraries that have executed: all, if no two files have    *)
(* the same name without its suffix.                                         *)
DistinctNames == \A f, g \in Files : NameOf[f] = NameOf[g] => f = g
MapInv ==
  /\ \A name \in DOMAIN m_NDPluginLibraryLoadMap :
       m_NDPluginLibraryLoadMap[name] # NULL =>
         \E n \in 1 .. current - 1 : /\ m_NDPluginLibraryLoadMap[name] = filesSortVec[n]
                                     /\ NameOf[filesSortVec[n]] = name
  /\ DistinctNames => \A n \in 1 .. current - 1 :
       m_NDPluginLibraryLoadMap[NameOf[filesSortVec[n]]] = filesSortVec[n]

SInv == /\ StartTypes /\ ListInv /\ CallsInv /\ UninitInv /\ ExitInv /\ MapInv
        /\ LoadedInOrder

LEMMA InitStart == ASSUME Init PROVE SInv
<1> USE DEF Init
<1>1. StartTypes
  BY DEF StartTypes, Phases
<1>2. ListInv
  BY DEF ListInv, PluginPhases
<1>3. CallsInv
  BY DEF CallsInv, PluginPhases
<1>4. UninitInv /\ ExitInv /\ MapInv
  BY DEF UninitInv, ExitInv, MapInv
<1>5. LoadedInOrder
  BY DEF LoadedInOrder
<1> QED BY <1>1, <1>2, <1>3, <1>4, <1>5 DEF SInv

(* The steps up to the list.                                                 *)
LEMMA EarlyStep ==
  ASSUME RegistryAssumption, SInv,
         initLog \/ loadConfig \/ getFilesByDirectory \/ sortPlugin
  PROVE  SInv'
<1>a. StartTypes /\ ListInv /\ calls = <<>> /\ current = 1 /\ LoadedInOrder /\ MapInv
  BY DEF SInv, ListInv, initLog, loadConfig, getFilesByDirectory, sortPlugin
<1>b. UNCHANGED <<current, m_NDPluginLibraryLoadMap, calls>>
  BY DEF initLog, loadConfig, getFilesByDirectory, sortPlugin
<1>c. /\ phase \notin PluginPhases \cup {"load", "running"}
      /\ phase' \notin PluginPhases \cup {"running"}
      /\ phase' \in Phases
  BY DEF initLog, loadConfig, getFilesByDirectory, sortPlugin, fail, PluginPhases, Phases
<1>1. StartTypes'
  <2>1. plugin_order' \in Seq(Files \cup {Missing})
    <3>1. CASE loadConfig
      <4>1. plugin_order' = plugin_order \/ plugin_order' \in Orders
        BY <3>1 DEF loadConfig
      <4>2. Orders \subseteq Seq(Files \cup {Missing})
        <5> SUFFICES ASSUME NEW m \in 0 .. 2, NEW o \in [1 .. m -> Files \cup {Missing}]
                     PROVE  o \in Seq(Files \cup {Missing})
          BY DEF Orders, BoundedSeq, SeqOf
        <5> QED BY IsASeq
      <4> QED BY <1>a, <4>1, <4>2 DEF StartTypes
    <3>2. CASE ~loadConfig
      BY <1>a, <3>2 DEF StartTypes, initLog, getFilesByDirectory, sortPlugin
    <3> QED BY <3>1, <3>2
  <2> QED BY <1>a, <1>b, <1>c, <2>1 DEF StartTypes
<1>2. ListInv'
  <2>1. CASE initLog
    BY <1>a, <1>b, <1>c, <2>1 DEF initLog, fail, ListInv
  <2>2. CASE loadConfig
    BY <1>a, <1>b, <1>c, <2>2 DEF loadConfig, fail, ListInv
  <2>3. CASE getFilesByDirectory
    BY <1>a, <1>b, <1>c, <2>3 DEF getFilesByDirectory, fail, ListInv
  <2>4. CASE sortPlugin
    <3>1. filesSortVec = plugin_order /\ allFilesVec \in SetToSeqs(Files) /\ phase = "sortPlugin"
      BY <1>a, <2>4 DEF sortPlugin, ListInv
    <3>2. CASE InListing(filesSortVec, allFilesVec)
      <4>1. filesSortVec' \in sorted(plugin_order, allFilesVec) /\ phase' = "load"
            /\ UNCHANGED plugin_order
        BY <2>4, <3>1, <3>2 DEF sortPlugin
      <4>2. Listing'
        BY <1>a, <3>1, <3>2, <4>1, SortedIsListing DEF Listing, StartTypes
      <4> QED BY <1>b, <4>1, <4>2 DEF ListInv
    <3>3. CASE ~InListing(filesSortVec, allFilesVec)
      BY <1>a, <1>b, <1>c, <2>4, <3>3 DEF sortPlugin, fail, ListInv
    <3> QED BY <3>2, <3>3
  <2> QED BY <2>1, <2>2, <2>3, <2>4
<1>3. CallsInv'
  BY <1>a, <1>b, <1>c DEF CallsInv, PluginPhases
<1>4. UninitInv' /\ ExitInv'
  BY <1>a, <1>b DEF UninitInv, ExitInv, Called
<1>5. MapInv'
  BY <1>a, <1>b DEF MapInv
<1>6. LoadedInOrder'
  BY <1>a, <1>b DEF LoadedInOrder
<1> QED BY <1>1, <1>2, <1>3, <1>4, <1>5, <1>6 DEF SInv

(* A function of the current library is called.                              *)
LEMMA CallStep ==
  ASSUME SInv, NEW function \in PluginPhases, call(function),
         UNCHANGED <<plugin_order, filesSortVec, current, m_NDPluginLibraryLoadMap>>,
         current <= Len(filesSortVec),
         \/ phase = "load" /\ function \in {"init_", "uninit_"}
         \/ phase = "init_" /\ function = "execute_"
         \/ phase \in {"init_", "execute_"} /\ function = "uninit_"
  PROVE  SInv'
<1>a. /\ StartTypes /\ Listing /\ CallsInv /\ UninitInv /\ ExitInv /\ MapInv /\ LoadedInOrder
  BY DEF SInv, ListInv, PluginPhases
<1>b. current \in 1 .. Len(filesSortVec) /\ file \in Files
  BY <1>a DEF StartTypes, Listing, file
<1>0. PICK n \in Nat, f0 \in Files : n = Len(calls) /\ f0 = file
  BY <1>a, <1>b DEF StartTypes
<1>c. phase' = function /\ calls' = Append(calls, <<f0, function>>) /\ file' = file
  BY <1>0 DEF call, file
<1>d. /\ Len(calls') = n + 1
      /\ \A j \in 1 .. n : calls'[j] = calls[j]
      /\ calls'[n + 1] = <<f0, function>>
      /\ calls' \in Seq(Files \X PluginPhases)
  BY <1>a, <1>0, <1>c DEF StartTypes
<1>e. \A f, g : Called(f, g)' <=> Called(f, g) \/ (f = f0 /\ g = function)
  <2> SUFFICES ASSUME NEW f, NEW g
               PROVE  Called(f, g)' <=> Called(f, g) \/ (f = f0 /\ g = function)
    OBVIOUS
  <2>1. DOMAIN calls = 1 .. n /\ DOMAIN calls' = 1 .. n + 1
    BY <1>a, <1>0, <1>d DEF StartTypes
  <2>2. \A i \in 1 .. n + 1 : i \in 1 .. n \/ i = n + 1
    BY <1>0
  <2>3. \A i \in 1 .. n : i \in 1 .. n + 1
    BY <1>0
  <2>4. Called(f, g)' => Called(f, g) \/ (f = f0 /\ g = function)
    BY <1>d, <2>1, <2>2 DEF Called
  <2>5. Called(f, g) => Called(f, g)'
    BY <1>d, <2>1, <2>3 DEF Called
  <2>6. f = f0 /\ g = function => Called(f, g)'
    BY <1>0, <1>d, <2>1 DEF Called
  <2> QED BY <2>4, <2>5, <2>6
<1>f. \A j \in 1 .. n : calls[j][2] # "uninit_"
  BY <1>a, <1>0 DEF UninitInv
<1>1. StartTypes'
  BY <1>a, <1>c, <1>d DEF StartTypes, Phases
<1>2. ListInv'
  BY <1>a, <1>c DEF ListInv, Listing, PluginPhases
<1>3. CallsInv'
  <2>1. ASSUME NEW j \in 1 .. Len(calls')
        PROVE  \E k \in 1 .. Len(filesSortVec) : calls'[j][1] = filesSortVec[k] /\ k <= current
    <3>1. CASE j \in 1 .. n
      BY <1>a, <1>0, <1>d, <3>1 DEF CallsInv
    <3>2. CASE j = n + 1
      <4>1. calls'[j][1] = filesSortVec[current] /\ current <= current
        BY <1>b, <1>0, <1>d, <3>2 DEF file
      <4> QED BY <1>b, <4>1
    <3> QED BY <1>d, <3>1, <3>2
  <2>2. phase' # "load" /\ phase' # "running" /\ phase' \in PluginPhases
    BY <1>c DEF PluginPhases
  <2>3. \A k \in 1 .. current - 1 : /\ k <= Len(filesSortVec)
                                    /\ Called(filesSortVec[k], "init_")'
                                    /\ Called(filesSortVec[k], "execute_")'
    BY <1>a, <1>e DEF CallsInv
  <2>4. /\ phase' = "execute_" => Called(f0, "execute_")'
        /\ phase' \in {"init_", "execute_"} => Called(f0, "init_")'
        /\ phase' = "uninit_" => Called(f0, "uninit_")'
    BY <1>a, <1>0, <1>c, <1>e DEF CallsInv
  <2> QED BY <1>b, <1>0, <1>c, <2>1, <2>2, <2>3, <2>4 DEF CallsInv
<1>4. UninitInv'
  BY <1>0, <1>c, <1>d, <1>f DEF UninitInv
<1>5. ExitInv' /\ MapInv'
  BY <1>a, <1>c DEF ExitInv, MapInv, PluginPhases
<1>6. LoadedInOrder'
  <2>1. \A f, m : m \in 0 .. n => (Started(f, m)' <=> Started(f, m))
    <3> SUFFICES ASSUME NEW f, NEW m \in 0 .. n PROVE Started(f, m)' <=> Started(f, m)
      OBVIOUS
    <3>1. \A i \in 1 .. m : calls'[i] = calls[i]
      BY <1>0, <1>d
    <3> QED BY <3>1 DEF Started
  <2>2. DOMAIN calls = 1 .. n /\ DOMAIN calls' = 1 .. n + 1
    BY <1>a, <1>0, <1>d DEF StartTypes
  <2> DEFINE Before(f, m) == /\ ~Started(f, m)
                             /\ \A k \in DOMAIN plugin_order :
                                  plugin_order[k] = f \/ Started(plugin_order[k], m)
                                    \/ \E l \in 1 .. k - 1 : plugin_order[l] = f
  <2>3. \A f, m : m \in 0 .. n => (Before(f, m)' <=> Before(f, m))
    <3> SUFFICES ASSUME NEW f, NEW m \in 0 .. n
                 PROVE  Before(f, m)' <=> Before(f, m)
      OBVIOUS
    <3>1. \A k \in DOMAIN plugin_order :
            Started(plugin_order[k], m)' <=> Started(plugin_order[k], m)
      BY <2>1
    <3> QED BY <2>1, <3>1
  <2>4. \A j \in 1 .. n : calls[j][2] = "init_" => Before(calls[j][1], j - 1)
    BY <1>a, <2>2 DEF LoadedInOrder
  <2>5. function = "init_" => Before(f0, n)
    <3> SUFFICES ASSUME function = "init_" PROVE Before(f0, n)
      OBVIOUS
    <3>1. phase = "load"
      OBVIOUS
    <3>2. ASSUME Started(f0, n) PROVE FALSE
      <4>1. PICK j \in 1 .. n : calls[j] = <<f0, "init_">>
        BY <3>2 DEF Started
      <4>2. PICK k \in 1 .. Len(filesSortVec) : f0 = filesSortVec[k] /\ k < current
        BY <1>a, <1>0, <3>1, <4>1 DEF CallsInv
      <4>3. filesSortVec[k] = filesSortVec[current]
        BY <1>0, <4>2 DEF file
      <4>4. DOMAIN filesSortVec = 1 .. Len(filesSortVec)
        BY <1>a DEF Listing
      <4>5. k = current
        BY <1>a, <1>b, <4>3, <4>4 DEF Listing, IsInjective
      <4> QED BY <1>b, <4>2, <4>5
    <3>3. ASSUME NEW k \in DOMAIN plugin_order
          PROVE  plugin_order[k] = f0 \/ Started(plugin_order[k], n)
                   \/ \E l \in 1 .. k - 1 : plugin_order[l] = f0
      <4>0. k \in 1 .. Len(plugin_order) /\ plugin_order[k] = filesSortVec[k]
        BY <1>a DEF StartTypes, Listing
      <4>1. CASE k < current
        <5>1. Called(filesSortVec[k], "init_")
          BY <1>a, <1>b, <4>0, <4>1 DEF CallsInv
        <5> QED BY <2>2, <4>0, <5>1 DEF Called, Started
      <4>2. CASE k = current
        BY <1>0, <4>0, <4>2 DEF file
      <4>3. CASE k > current
        <5>1. current \in 1 .. k - 1 /\ current \in 1 .. Len(plugin_order)
          BY <1>a, <1>b, <4>0, <4>3 DEF StartTypes
        <5>2. plugin_order[current] = f0
          BY <1>a, <1>0, <5>1 DEF Listing, file
        <5> QED BY <5>1, <5>2
      <4> QED BY <1>b, <4>0, <4>1, <4>2, <4>3
    <3> QED BY <3>2, <3>3
  <2>6. ASSUME NEW j \in DOMAIN calls', calls'[j][2] = "init_",
               NEW f, f = calls'[j][1]
        PROVE  Before(f, j - 1)'
    <3>1. CASE j \in 1 .. n
      <4>1. Before(f, j - 1)
        BY <1>d, <2>4, <2>6, <3>1
      <4> QED BY <2>3, <3>1, <4>1
    <3>2. CASE j = n + 1
      <4>1. f = f0 /\ function = "init_" /\ j - 1 = n /\ n \in 0 .. n
        BY <1>d, <2>6, <3>2
      <4>2. Before(f0, n)'
        BY <2>3, <2>5, <4>1
      <4> QED BY <4>1, <4>2
    <3> QED BY <2>2, <3>1, <3>2
  <2>7. \A j \in DOMAIN calls' : \A f :
          calls'[j][2] = "init_" /\ f = calls'[j][1] => Before(f, j - 1)'
    BY <2>6
  <2> QED BY <2>7 DEF LoadedInOrder
<1> QED BY <1>1, <1>2, <1>3, <1>4, <1>5, <1>6 DEF SInv

(* init returns false with a library that did not come so far as init_, or     *)
(* after its uninit_, or with all of them executed.                           *)
LEMMA FailStep ==
  ASSUME SInv, phase \in {"load", "uninit_"}, fail,
         UNCHANGED <<plugin_order, filesSortVec, current, m_NDPluginLibraryLoadMap, calls>>
  PROVE  SInv'
<1>a. StartTypes /\ Listing /\ CallsInv /\ UninitInv /\ MapInv /\ LoadedInOrder
  BY DEF SInv, ListInv, PluginPhases
<1>b. phase' = "exit" /\ UNCHANGED file
  BY DEF fail, file
<1>1. StartTypes' /\ ListInv' /\ LoadedInOrder'
  <2>1. StartTypes'
    BY <1>a, <1>b DEF StartTypes, Phases
  <2>2. ListInv'
    BY <1>a, <1>b DEF ListInv, Listing
  <2>3. LoadedInOrder'
    BY <1>a DEF LoadedInOrder, Started
  <2> QED BY <2>1, <2>2, <2>3
<1>c. \A f, g : Called(f, g)' <=> Called(f, g)
  BY DEF Called
<1>2. CallsInv'
  BY <1>a, <1>b, <1>c DEF CallsInv, PluginPhases
<1>3. UninitInv' /\ MapInv'
  BY <1>a, <1>b DEF UninitInv, MapInv
<1>4. ExitInv'
  <2> SUFFICES ASSUME NEW f \in Files, Called(f, "init_")
               PROVE  Called(f, "uninit_") \/ \E n \in 1 .. current - 1 : filesSortVec[n] = f
    BY <1>c DEF ExitInv
  <2>1. PICK j \in 1 .. Len(calls) : calls[j] = <<f, "init_">>
    BY <1>a DEF Called, StartTypes
  <2>2. PICK n \in 1 .. Len(filesSortVec) :
           f = filesSortVec[n] /\ n <= current /\ (phase = "load" => n < current)
    BY <1>a, <2>1 DEF CallsInv
  <2>3. CASE n < current
    BY <1>a, <2>2, <2>3 DEF StartTypes
  <2>4. CASE n = current
    BY <1>a, <2>2, <2>4 DEF CallsInv, file
  <2> QED BY <1>a, <2>2, <2>3, <2>4 DEF StartTypes
<1> QED BY <1>1, <1>2, <1>3, <1>4 DEF SInv

LEMMA ExecutedStep ==
  ASSUME RegistryAssumption, SInv, executeReturnsTrue
  PROVE  SInv'
<1> DEFINE name == NameOf[file]
<1>a. /\ StartTypes /\ Listing /\ CallsInv /\ UninitInv /\ MapInv /\ LoadedInOrder
      /\ phase = "execute_"
  BY DEF SInv, ListInv, PluginPhases, executeReturnsTrue
<1>b. /\ phase' = "load" /\ current' = current + 1
      /\ UNCHANGED <<plugin_order, filesSortVec, calls>>
      /\ m_NDPluginLibraryLoadMap' =
           IF m_NDPluginLibraryLoadMap[name] = NULL
           THEN [m_NDPluginLibraryLoadMap EXCEPT ![name] = file]
           ELSE m_NDPluginLibraryLoadMap
  BY DEF executeReturnsTrue
<1>c. current \in 1 .. Len(filesSortVec) /\ file \in Files /\ file = filesSortVec[current]
  BY <1>a DEF CallsInv, StartTypes, PluginPhases, Listing, file
<1>d. \A f, g : Called(f, g)' <=> Called(f, g)
  BY <1>b DEF Called
<1>e. \A k \in 1 .. current : k \in 1 .. current - 1 \/ k = current
  BY <1>c
<1>f. current' - 1 = current /\ \A k \in 1 .. current - 1 : k \in 1 .. current
  BY <1>b, <1>c
<1>1. StartTypes'
  <2>1. m_NDPluginLibraryLoadMap' \in [{NameOf[f] : f \in Files} -> Files \cup {NULL}]
    BY <1>a, <1>b, <1>c DEF StartTypes
  <2> QED BY <1>a, <1>b, <1>c, <2>1 DEF StartTypes, Phases
<1> HIDE DEF name
<1>2. ListInv' /\ LoadedInOrder'
  <2>1. Listing'
    BY <1>a, <1>b DEF Listing
  <2> QED BY <1>a, <1>b, <2>1 DEF ListInv, LoadedInOrder, Started
<1>3. CallsInv'
  <2>1. \A j \in 1 .. Len(calls) :
          \E n \in 1 .. Len(filesSortVec) :
             calls[j][1] = filesSortVec[n] /\ n <= current + 1 /\ n < current + 1
    <3> TAKE j \in 1 .. Len(calls)
    <3>1. PICK n \in 1 .. Len(filesSortVec) : calls[j][1] = filesSortVec[n] /\ n <= current
      BY <1>a DEF CallsInv
    <3>2. n <= current + 1 /\ n < current + 1
      BY <1>c, <3>1
    <3> QED BY <3>1, <3>2
  <2>2. \A n \in 1 .. current : /\ n <= Len(filesSortVec)
                                /\ Called(filesSortVec[n], "init_")
                                /\ Called(filesSortVec[n], "execute_")
    BY <1>a, <1>c, <1>e DEF CallsInv
  <2>3. \A n \in 1 .. current' - 1 : /\ n <= Len(filesSortVec)
                                     /\ Called(filesSortVec[n], "init_")'
                                     /\ Called(filesSortVec[n], "execute_")'
    BY <1>b, <1>d, <1>f, <2>2
  <2> QED BY <1>b, <2>1, <2>3 DEF CallsInv, PluginPhases
<1>4. UninitInv' /\ ExitInv'
  BY <1>a, <1>b DEF UninitInv, ExitInv
<1>5. MapInv'
  <2>0. name \in {NameOf[f] : f \in Files}
    BY <1>c DEF name
  <2>1. ASSUME NEW x \in DOMAIN m_NDPluginLibraryLoadMap', m_NDPluginLibraryLoadMap'[x] # NULL
        PROVE  \E n \in 1 .. current : /\ m_NDPluginLibraryLoadMap'[x] = filesSortVec[n]
                                       /\ NameOf[filesSortVec[n]] = x
    <3>1. CASE m_NDPluginLibraryLoadMap'[x] = m_NDPluginLibraryLoadMap[x]
      BY <1>a, <1>b, <1>f, <2>1, <3>1 DEF MapInv, StartTypes
    <3>2. CASE x = name /\ m_NDPluginLibraryLoadMap'[x] = file
      BY <1>c, <3>2 DEF name
    <3> QED BY <1>a, <1>b, <2>0, <3>1, <3>2 DEF StartTypes
  <2>2. ASSUME DistinctNames, NEW n \in 1 .. current
        PROVE  m_NDPluginLibraryLoadMap'[NameOf[filesSortVec[n]]] = filesSortVec[n]
    <3>1. CASE n \in 1 .. current - 1
      <4>1. m_NDPluginLibraryLoadMap[NameOf[filesSortVec[n]]] = filesSortVec[n]
        BY <1>a, <2>2, <3>1 DEF MapInv
      <4>2. filesSortVec[n] \in Files /\ filesSortVec[n] # NULL
        BY <1>a, <1>c, <3>1, RegistryAssumption DEF Listing, RegistryAssumption, Files
      <4>3. NameOf[filesSortVec[n]] \in {NameOf[f] : f \in Files}
        BY <4>2
      <4> QED BY <1>a, <1>b, <2>0, <4>1, <4>2, <4>3 DEF StartTypes
    <3>2. CASE n = current
      <4>1. ASSUME m_NDPluginLibraryLoadMap[name] # NULL PROVE FALSE
        <5>1. PICK k \in 1 .. current - 1 : /\ m_NDPluginLibraryLoadMap[name] = filesSortVec[k]
                                            /\ NameOf[filesSortVec[k]] = name
          BY <1>a, <2>0, <4>1 DEF MapInv, StartTypes
        <5>2. k \in 1 .. Len(filesSortVec) /\ filesSortVec[k] \in Files
          BY <1>a, <1>c DEF Listing
        <5>3. filesSortVec[k] = filesSortVec[current]
          BY <1>c, <2>2, <5>1, <5>2 DEF DistinctNames, name
        <5>4. DOMAIN filesSortVec = 1 .. Len(filesSortVec)
          BY <1>a DEF Listing
        <5>5. k = current
          BY <1>a, <1>c, <5>2, <5>3, <5>4 DEF Listing, IsInjective
        <5> QED BY <1>c, <5>5
      <4> QED BY <1>a, <1>b, <1>c, <2>0, <3>2, <4>1 DEF StartTypes, name
    <3> QED BY <1>e, <3>1, <3>2
  <2>3. UNCHANGED DistinctNames
    BY DEF DistinctNames
  <2> QED BY <1>b, <1>f, <2>1, <2>2, <2>3 DEF MapInv
<1> QED BY <1>1, <1>2, <1>3, <1>4, <1>5 DEF SInv

LEMMA RunningStep ==
  ASSUME SInv, startService, phase' = "running"
  PROVE  SInv'
<1>a. StartTypes /\ Listing /\ CallsInv /\ UninitInv /\ MapInv /\ LoadedInOrder
  BY DEF SInv, ListInv, startService
<1>b. /\ phase = "load" /\ current > Len(filesSortVec)
      /\ UNCHANGED <<plugin_order, filesSortVec, current, m_NDPluginLibraryLoadMap, calls>>
  BY DEF startService
<1>c. \A f, g : Called(f, g)' <=> Called(f, g)
  BY <1>b DEF Called
<1>1. StartTypes'
  BY <1>a, <1>b DEF StartTypes, Phases, PluginPhases
<1>d. ListInv'
  BY <1>a, <1>b DEF ListInv, Listing
<1>e. LoadedInOrder'
  BY <1>a, <1>b DEF LoadedInOrder, Started
<1>2. CallsInv'
  BY <1>a, <1>b, <1>c DEF CallsInv, PluginPhases
<1>3. UninitInv' /\ ExitInv' /\ MapInv'
  BY <1>a, <1>b DEF UninitInv, ExitInv, MapInv
<1> QED BY <1>1, <1>d, <1>e, <1>2, <1>3 DEF SInv

LEMMA StartStep == ASSUME RegistryAssumption, SInv, [Next]_vars PROVE SInv'
<1>1. CASE initLog \/ loadConfig \/ getFilesByDirectory \/ sortPlugin
  BY <1>1, EarlyStep
<1>2. CASE initLibrary
  <2>1. PICK found \in Found : IF "execute_" \in found THEN call("init_") ELSE delete(found)
    BY <1>2 DEF initLibrary
  <2>2. /\ phase = "load" /\ current <= Len(filesSortVec)
        /\ UNCHANGED <<plugin_order, filesSortVec, current, m_NDPluginLibraryLoadMap>>
    BY <1>2 DEF initLibrary
  <2>3. CASE call("init_")
    BY <2>2, <2>3, CallStep DEF PluginPhases
  <2>4. CASE call("uninit_")
    BY <2>2, <2>4, CallStep DEF PluginPhases
  <2>5. CASE fail /\ UNCHANGED calls
    BY <2>2, <2>5, FailStep
  <2> QED BY <2>1, <2>3, <2>4, <2>5 DEF delete
<1>3. CASE initReturns
  <2>1. /\ phase = "init_" /\ current <= Len(filesSortVec)
        /\ UNCHANGED <<plugin_order, filesSortVec, current, m_NDPluginLibraryLoadMap>>
    BY <1>3 DEF initReturns, SInv, CallsInv, PluginPhases
  <2>2. call("execute_") \/ call("uninit_")
    BY <1>3 DEF initReturns, delete
  <2> QED BY <2>1, <2>2, CallStep DEF PluginPhases
<1>4. CASE executeReturnsTrue
  BY <1>4, ExecutedStep
<1>5. CASE executeReturnsFalse
  <2>1. /\ phase = "execute_" /\ current <= Len(filesSortVec) /\ call("uninit_")
        /\ UNCHANGED <<plugin_order, filesSortVec, current, m_NDPluginLibraryLoadMap>>
    BY <1>5 DEF executeReturnsFalse, delete, SInv, CallsInv, PluginPhases
  <2> QED BY <2>1, CallStep DEF PluginPhases
<1>6. CASE uninitReturns
  BY <1>6, FailStep DEF uninitReturns
<1>7. CASE startService
  <2>1. CASE phase' = "running"
    BY <1>7, <2>1, RunningStep
  <2>2. CASE fail
    BY <1>7, <2>2, FailStep DEF startService
  <2> QED BY <1>7, <2>1, <2>2 DEF startService
<1>8. CASE UNCHANGED startVars
  <2>1. StartTypes' /\ ListInv'
    BY <1>8 DEF startVars, SInv, StartTypes, ListInv, Listing
  <2>2. CallsInv'
    BY <1>8 DEF startVars, SInv, CallsInv, Called, file
  <2>3. UninitInv' /\ ExitInv' /\ MapInv'
    BY <1>8 DEF startVars, SInv, UninitInv, ExitInv, MapInv, Called, DistinctNames
  <2>4. LoadedInOrder'
    BY <1>8 DEF startVars, SInv, LoadedInOrder, Started
  <2> QED BY <2>1, <2>2, <2>3, <2>4 DEF SInv
<1> QED
  BY <1>1, <1>2, <1>3, <1>4, <1>5, <1>6, <1>7, <1>8 DEF Next, pluginCalls, serve, vars

LEMMA StartInvariance == Spec => []SInv
<1>1. Init => SInv
  BY InitStart
<1>2. SInv /\ [Next]_vars => SInv'
  BY StartStep, RegistryAssumption
<1> QED BY <1>1, <1>2, PTL DEF Spec

(* Whatever files there are and whatever plugin_order says: no library is      *)
(* started twice, and none before those that the order has before it.         *)
THEOREM LoadOrder == Spec => []LoadedInOrder
<1>1. SInv => LoadedInOrder
  BY DEF SInv
<1> QED BY <1>1, StartInvariance, PTL

(* Where no two files have the same name without its suffix: nothing is        *)
(* called of a library after its uninit_, one that has started is owned by    *)
(* the map at the exit or was given its uninit_, and no request is served     *)
(* before every library has executed.  (Of two files with the same name, the  *)
(* second object is in no map.)                                              *)
THEOREM LifeCycleHolds == ASSUME DistinctNames PROVE Spec => []LifeCycle
<1>1. ASSUME SInv PROVE LifeCycle
  <2>a. StartTypes /\ ListInv /\ CallsInv /\ UninitInv /\ ExitInv /\ MapInv
    BY <1>1 DEF SInv
  <2>b. DOMAIN calls = 1 .. Len(calls) /\ Len(calls) \in Nat
    BY <2>a DEF StartTypes
  <2>1. \A i \in DOMAIN calls : calls[i][2] = "uninit_" =>
          \A j \in i + 1 .. Len(calls) : calls[j][1] # calls[i][1]
    <3>1. \A i \in DOMAIN calls : calls[i][2] = "uninit_" => i = Len(calls)
      BY <2>a, <2>b DEF UninitInv
    <3>2. Len(calls) + 1 .. Len(calls) = {}
      BY <2>b
    <3> QED BY <3>1, <3>2
  <2>2. phase = "exit" => \A f \in Files : Called(f, "init_") =>
          Called(f, "uninit_") \/ m_NDPluginLibraryLoadMap[NameOf[f]] = f
    BY <2>a DEF ExitInv, MapInv
  <2>3. ASSUME phase = "running", NEW f \in Files
        PROVE  Called(f, "execute_") /\ ~Called(f, "uninit_")
    <3>1. PICK n \in DOMAIN filesSortVec : filesSortVec[n] = f
      BY <2>a, <2>3 DEF ListInv, Listing, ToSet
    <3>2. n \in 1 .. current - 1
      BY <2>a, <2>3 DEF CallsInv, StartTypes, ListInv, Listing
    <3>3. ~Called(f, "uninit_")
      BY <2>a, <2>b, <2>3 DEF Called, UninitInv
    <3> QED BY <2>a, <3>1, <3>2, <3>3 DEF CallsInv
  <2> QED BY <2>1, <2>2, <2>3 DEF LifeCycle
<1> QED BY <1>1, StartInvariance, PTL
=============================================================================
