------------------------- MODULE NDPluginManagerGlobal -------------------------
(***************************************************************************)
(* The start of the program (NDPluginManagerGlobal::init, called by main):  *)
(* read the configuration, order the files of the plugin directory, load    *)
(* each as a plugin, then start the task threads and the net service, from  *)
(* which moment requests arrive.  A plugin is an NDPluginLibraryLoad, an    *)
(* NDDynamicLoad: dlopen, three symbols, init_, execute_; the destructor of *)
(* a failed one calls uninit_ and dlclose.  Plugin code may call the table  *)
(* of NDDataProcess whenever it runs.                                      *)
(***************************************************************************)
EXTENDS NDDataProcess, Sequences, SequencesExt

CONSTANTS
  Missing,    \* a name in plugin_order that no file has
  NameOf      \* file -> library name: getLibNameNoSuffix of it

VARIABLES
  phase,         \* how far init has come, and which plugin function runs
  plugin_order,  \* of the configuration
  filesSortVec,  \* the files in the order they are loaded
  allFilesVec,   \* local of init: what the plugin directory holds
  current,       \* index of the file that is being loaded
  m_NDPluginLibraryLoadMap,
  calls          \* history: the plugin functions called so far

startVars == <<phase, plugin_order, filesSortVec, allFilesVec, current,
               m_NDPluginLibraryLoadMap, calls>>
vars == <<startVars, registryVars, threadVars>>

Files == Plugins
PluginPhases == {"init_", "execute_", "uninit_"}
file == filesSortVec[current]

Called(f, function) == \E i \in DOMAIN calls : calls[i] = <<f, function>>

Init ==
  /\ RegistryInit
  /\ phase = "initLog"
  /\ plugin_order = <<>>
  /\ filesSortVec = <<>>
  /\ allFilesVec = <<>>
  /\ current = 1
  /\ m_NDPluginLibraryLoadMap = [n \in {NameOf[f] : f \in Files} |-> NULL]
  /\ calls = <<>>

(* A failure anywhere makes init return false and main return 1: the process  *)
(* ends as it is, without releaseInstance.                                   *)
fail == phase' = "exit"

(* The log is configured; the pool, the registry and the table follow.        *)
initLog ==
  /\ phase = "initLog"
  /\ phase' = "loadConfig" \/ fail
  /\ UNCHANGED <<plugin_order, filesSortVec, allFilesVec, current,
                 m_NDPluginLibraryLoadMap, calls, registryVars, threadVars>>

(* Any plugin_order of at most this many entries: file names, or others.      *)
Orders == BoundedSeq(Files \cup {Missing}, 2)

(* No file, no JSON or a section that is missing is a failure.                *)
loadConfig ==
  /\ phase = "loadConfig"
  /\ \/ \E order \in Orders : plugin_order' = order /\ filesSortVec' = order
       /\ phase' = "getFiles"
     \/ fail /\ UNCHANGED <<plugin_order, filesSortVec>>
  /\ UNCHANGED <<allFilesVec, current, m_NDPluginLibraryLoadMap, calls,
                 registryVars, threadVars>>

(* readdir lists everything in the directory but "." and "..", in any order.  *)
getFilesByDirectory ==
  /\ phase = "getFiles"
  /\ \/ allFilesVec' \in SetToSeqs(Files) /\ phase' = "sortPlugin"
     \/ fail /\ UNCHANGED allFilesVec
  /\ UNCHANGED <<plugin_order, filesSortVec, current, m_NDPluginLibraryLoadMap, calls,
                 registryVars, threadVars>>

(* Each name of the order is looked up in, and erased from, the listing.      *)
InListing(order, all) == ToSet(order) \subseteq ToSet(all) /\ IsInjective(order)

Bug_sorted(order, all) == {order \o all}

(* What is left follows the order, as it stood in the listing (there is one   *)
(* such sequence).                                                           *)
Left(order, all) ==
  {rest \in SetToSeqs(ToSet(all) \ ToSet(order)) :
     \A i, j \in DOMAIN rest : i < j =>
       \E k, l \in DOMAIN all : k < l /\ all[k] = rest[i] /\ all[l] = rest[j]}

sorted(order, all) == {order \o rest : rest \in Left(order, all)}

sortPlugin ==
  /\ phase = "sortPlugin"
  /\ IF InListing(filesSortVec, allFilesVec)
     THEN phase' = "load" /\ filesSortVec' \in sorted(filesSortVec, allFilesVec)
     ELSE fail /\ UNCHANGED filesSortVec
  /\ allFilesVec' = <<>>
  /\ UNCHANGED <<plugin_order, current, m_NDPluginLibraryLoadMap, calls,
                 registryVars, threadVars>>

(* Calls a function of the current library, which then runs on Main.          *)
call(function) ==
  /\ phase' = function
  /\ calls' = Append(calls, <<file, function>>)
  /\ Goto(Main, "plugin")

(* delete of an object whose init returned false: the uninit_ it found is     *)
(* called, dlclose follows, and init of the program fails.                   *)
delete(found) ==
  IF "uninit_" \in found THEN call("uninit_") ELSE fail /\ UNCHANGED <<calls, pc>>

(* load takes the symbols in this order, up to the first that is missing.     *)
(* Without execute_, uninit_ is called although init_ was not.               *)
Found == {{}, {"init_"}, {"init_", "uninit_"}, {"init_", "uninit_", "execute_"}}

(* getLibNameNoSuffix, dlopen (which finds nothing when it fails), load.      *)
initLibrary ==
  /\ phase = "load" /\ current <= Len(filesSortVec)
  /\ \E found \in Found :
       IF "execute_" \in found THEN call("init_") ELSE delete(found)
  /\ UNCHANGED <<plugin_order, filesSortVec, allFilesVec, current,
                 m_NDPluginLibraryLoadMap, registryVars, arg, pBase, szRet>>

(* The answer of init_ is no JSON, lacks the configured section or has 0 in   *)
(* it: the object is deleted.                                                *)
initReturns ==
  /\ phase = "init_" /\ pc[Main] = "plugin"
  /\ call("execute_") \/ delete({"uninit_"})
  /\ UNCHANGED <<plugin_order, filesSortVec, allFilesVec, current, m_NDPluginLibraryLoadMap,
                 registryVars, arg, pBase, szRet>>

(* insert keeps an entry of the same name; the object is then in no map.      *)
executeReturnsTrue ==
  LET name == NameOf[file] IN
  /\ phase = "execute_" /\ pc[Main] = "plugin"
  /\ m_NDPluginLibraryLoadMap' =
       IF m_NDPluginLibraryLoadMap[name] = NULL
       THEN [m_NDPluginLibraryLoadMap EXCEPT ![name] = file]
       ELSE m_NDPluginLibraryLoadMap
  /\ phase' = "load" /\ current' = current + 1
  /\ Goto(Main, "idle")
  /\ UNCHANGED <<plugin_order, filesSortVec, allFilesVec, calls, registryVars, arg,
                 pBase, szRet>>

Bug_executeReturnsFalse ==
  /\ phase = "execute_" /\ pc[Main] = "plugin"
  /\ fail /\ Goto(Main, "idle")
  /\ UNCHANGED <<plugin_order, filesSortVec, allFilesVec, current, m_NDPluginLibraryLoadMap, calls,
                 registryVars, arg, pBase, szRet>>

executeReturnsFalse ==
  /\ phase = "execute_" /\ pc[Main] = "plugin"
  /\ delete({"uninit_"})
  /\ UNCHANGED <<plugin_order, filesSortVec, allFilesVec, current, m_NDPluginLibraryLoadMap,
                 registryVars, arg, pBase, szRet>>

uninitReturns ==
  /\ phase = "uninit_" /\ pc[Main] = "plugin"
  /\ fail /\ Goto(Main, "idle")
  /\ UNCHANGED <<plugin_order, filesSortVec, allFilesVec, current, m_NDPluginLibraryLoadMap, calls,
                 registryVars, arg, pBase, szRet>>

(* A plugin function, while it runs, may call the table.                      *)
pluginCalls ==
  /\ phase \in PluginPhases
  /\ tableCall(Main, file)
  /\ UNCHANGED startVars

(* After the last library: task_thread_num task threads, at least one, then   *)
(* the net service; both may fail to start.  Main sleeps in loop() from then. *)
startService ==
  /\ phase = "load" /\ current > Len(filesSortVec)
  /\ \/ phase' = "running" /\ m_TaskThreadVec' \in (SUBSET Tasks) \ {{}}
     \/ fail /\ UNCHANGED m_TaskThreadVec
  /\ UNCHANGED <<plugin_order, filesSortVec, allFilesVec, current, m_NDPluginLibraryLoadMap, calls,
                 m_CallBackMap, record, live, threadVars>>

Bug_serve ==
  /\ phase \in PluginPhases \cup {"load", "running"}
  /\ \E t \in Tasks : taskStep(t)
  /\ UNCHANGED startVars

serve ==
  /\ phase = "running"
  /\ \E t \in m_TaskThreadVec : taskStep(t)
  /\ UNCHANGED startVars

Next ==
  \/ initLog \/ loadConfig \/ getFilesByDirectory \/ sortPlugin \/ initLibrary
  \/ initReturns
  \/ executeReturnsTrue \/ executeReturnsFalse \/ uninitReturns
  \/ pluginCalls \/ startService \/ serve

Spec == Init /\ [][Next]_vars

-----------------------------------------------------------------------------
(* Properties                                                                *)

(* sortPlugin (NDPluginManagerGlobal.cpp:356-382): no library is started twice, *)
(* and before one is, those that plugin_order has before it were - all of      *)
(* plugin_order before one that it does not name.                            *)
Started(f, n) == \E i \in 1 .. n : calls[i] = <<f, "init_">>
LoadedInOrder ==
  \A n \in DOMAIN calls : calls[n][2] = "init_" =>
    LET f == calls[n][1] IN
    /\ ~Started(f, n - 1)
    /\ \A k \in DOMAIN plugin_order :
         plugin_order[k] = f \/ Started(plugin_order[k], n - 1)
           \/ \E l \in 1 .. k - 1 : plugin_order[l] = f

(* Of a library that has started, uninit_ is called at most once and nothing  *)
(* after it; at the exit it was called or the map owns the library; and when  *)
(* requests are served every file is a plugin that has executed and was not   *)
(* given its uninit_, so that no callback of a library that failed is called *)
(* (NDPluginLibraryLoad.cpp:20-24, NDPluginManagerGlobal.cpp:134-166).       *)
LifeCycle ==
  /\ \A i \in DOMAIN calls : calls[i][2] = "uninit_" =>
       \A j \in i + 1 .. Len(calls) : calls[j][1] # calls[i][1]
  /\ phase = "exit" => \A f \in Files : Called(f, "init_") =>
       Called(f, "uninit_") \/ m_NDPluginLibraryLoadMap[NameOf[f]] = f
  /\ phase = "running" =>
       \A f \in Files : Called(f, "execute_") /\ ~Called(f, "uninit_")
=============================================================================
