----------------------------- MODULE ConfigSync -----------------------------
(***************************************************************************)
(* The agent configurations of one Agent Core process: the directories     *)
(* under configs/agents, ConfigManager's cache of them, the watcher that   *)
(* polls them, the candidates of the AgentRouter that its events keep, and *)
(* in dual mode the rows of agent_configs.  A configuration is a version   *)
(* of what its files say, agent.yaml and those it includes; the time of    *)
(* agent.yaml, the only one looked at, is the version it was written as,   *)
(* unless it was moved or copied with an older one or an included file was *)
(* edited.                                                                 *)
(***************************************************************************)
EXTENDS Naturals, FiniteSets

CONSTANTS ConfigIds, MaxEdits

ASSUME ConfigAssumption == IsFiniteSet(ConfigIds) /\ MaxEdits \in Nat

VARIABLES
    configMode, \* CONFIG_MODE, without "database"
    edits,      \* versions so far, capped by MaxEdits
    files,      \* directory of an agent
    phase,      \* of the process: "down", "syncing" in initialize, "up"
    watching,   \* the watcher has taken its snapshot
    mtimes,     \* _file_mtimes; 0 is a missing key, here and below
    configs,    \* _configs
    candidates, \* AgentRouter._candidates
    dbRows,       \* agent_configs
    handlers,   \* tasks of _handle_config_change
    saves,      \* save_config and delete_config waiting for the database
    unseen      \* history: agents with a change the watcher cannot notice

configVars == <<configMode, edits, files, phase, watching, mtimes, configs, candidates,
                dbRows, handlers, saves, unseen>>

Contents == {"ok", "refused", "unparsable"} \* refused by ConfigValidator
NoDirectory == [is |-> "none", ver |-> 0, mtime |-> 0, content |-> "ok"]
NoYaml == [is |-> "dir", ver |-> 0, mtime |-> 0, content |-> "ok"]
Yaml(v, t, c) == [is |-> "yaml", ver |-> v, mtime |-> t, content |-> c]
NoRow == [ver |-> 0, deleted |-> FALSE]
NoConfigs == [a \in ConfigIds |-> 0]

ConfigInit ==
    /\ configMode \in {"file_system", "dual"} /\ edits = 0
    /\ files = [a \in ConfigIds |-> NoDirectory]
    /\ phase = "down" /\ watching = FALSE
    /\ mtimes = NoConfigs /\ configs = NoConfigs /\ candidates = NoConfigs
    /\ dbRows = [a \in ConfigIds |-> NoRow]
    /\ handlers = {} /\ saves = {} /\ unseen = {}

-----------------------------------------------------------------------------
YamlTimes == [a \in ConfigIds |-> files[a].mtime]
Loads(a) == files[a].is = "yaml" /\ files[a].content # "unparsable"

\* _save_to_db and file_to_db: neither takes is_deleted back.
Upsert(a, v) == [dbRows EXCEPT ![a].ver = v]

\* initialize: reload_all, which does not validate; the watcher's task is made.
InitializeConfigs ==
    /\ phase = "down"
    /\ configs' = [a \in ConfigIds |-> IF Loads(a) THEN files[a].ver ELSE 0]
    /\ IF configMode = "dual" THEN phase' = "syncing" /\ UNCHANGED candidates
       ELSE phase' = "up" /\ candidates' = configs'
    /\ UNCHANGED <<configMode, edits, files, watching, mtimes, dbRows, handlers, saves, unseen>>

\* sync_all_files_to_db is done; the lifespan gives the router its candidates.
SyncAll ==
    /\ phase = "syncing" /\ phase' = "up"
    /\ dbRows' = [a \in ConfigIds |-> IF Loads(a) THEN Upsert(a, files[a].ver)[a] ELSE dbRows[a]]
    /\ candidates' = configs
    /\ UNCHANGED <<configMode, edits, files, watching, mtimes, configs, handlers, saves, unseen>>

\* _watch_loop starts: the snapshot.
TakeSnapshot ==
    /\ phase # "down" /\ ~watching /\ watching' = TRUE
    /\ mtimes' = YamlTimes
    /\ UNCHANGED <<configMode, edits, files, phase, configs, candidates, dbRows, handlers, saves, unseen>>

\* The process ends; another starts.
StopConfigs ==
    /\ phase = "up" /\ phase' = "down" /\ watching' = FALSE
    /\ mtimes' = NoConfigs /\ configs' = NoConfigs /\ candidates' = NoConfigs
    /\ handlers' = {} /\ saves' = {} /\ unseen' = {}
    /\ UNCHANGED <<configMode, edits, files, dbRows>>

\* The next poll makes an event of the files f of an agent.
Noticed(a, f) == watching /\ IF f.is = "yaml" THEN f.mtime > mtimes[a] ELSE mtimes[a] # 0

\* An operator edits agent.yaml, or a file it includes, which leaves its time alone, or
\* puts another agent.yaml in its place, whose time may be older; or removes it, or the
\* directory.
EditFiles(a) ==
    /\ \/ edits < MaxEdits /\ edits' = edits + 1
          /\ \E c \in Contents, t \in 1..(edits + 1) : files' = [files EXCEPT ![a] = Yaml(edits + 1, t, c)]
       \/ files[a].is # "none" /\ UNCHANGED edits
          /\ \E f \in {NoDirectory, NoYaml} : files' = [files EXCEPT ![a] = f]
    /\ unseen' = IF phase # "down" /\ ~Noticed(a, files'[a]) THEN unseen \union {a} ELSE unseen
    /\ UNCHANGED <<configMode, phase, watching, mtimes, configs, candidates, dbRows, handlers, saves>>

-----------------------------------------------------------------------------
\* Mutant: a file the snapshot does not know of is not a change.
ModifiedOnly(a) ==
    CASE files[a].is = "yaml" /\ mtimes[a] # 0 /\ files[a].mtime > mtimes[a] -> "updated"
      [] files[a].is = "none" /\ mtimes[a] # 0 -> "deleted"
      [] OTHER -> "same"

\* _check_file_changes: the event for an agent.
ChangeOf(a) ==
    CASE files[a].is = "yaml" /\ files[a].mtime > mtimes[a] ->
            IF mtimes[a] = 0 THEN "created" ELSE "updated"
      [] files[a].is = "none" /\ mtimes[a] # 0 -> "deleted"
      [] OTHER -> "same"

\* _check_for_changes: each event makes a task, which starts before the next poll.
Poll ==
    LET changed == {a \in ConfigIds : ChangeOf(a) # "same"} IN
    /\ phase # "down" /\ watching
    /\ mtimes # YamlTimes /\ \A h \in handlers : h.pc # "start"
    /\ mtimes' = YamlTimes
    /\ handlers' = handlers \union {[agent |-> a, change |-> ChangeOf(a), pc |-> "start", ver |-> 0] : a \in changed}
    /\ unseen' = (unseen \ changed) \union {a \in ConfigIds : files[a].is = "dir" /\ mtimes[a] # 0}
    /\ UNCHANGED <<configMode, edits, files, phase, watching, configs, candidates, dbRows, saves>>

\* The callback of the lifespan, which it registers when initialize has returned.
TellRouter(a, v) ==
    candidates' = IF phase = "up" THEN [candidates EXCEPT ![a] = v] ELSE candidates

\* _handle_config_change: a deletion; or the file is loaded and validated, and waits for
\* file_to_db in dual mode.
HandleDeleted(h) ==
    /\ h.pc = "start" /\ h.change = "deleted"
    /\ configs' = [configs EXCEPT ![h.agent] = 0]
    /\ TellRouter(h.agent, 0)
    /\ handlers' = handlers \ {h}
    /\ UNCHANGED <<configMode, edits, files, phase, watching, mtimes, dbRows, saves, unseen>>

HandleChanged(h) ==
    LET f == files[h.agent] IN
    /\ h.pc = "start" /\ h.change # "deleted"
    /\ IF ~(f.is = "yaml" /\ f.content = "ok")
       THEN handlers' = handlers \ {h} /\ UNCHANGED <<configs, candidates>>
       ELSE /\ configs' = [configs EXCEPT ![h.agent] = f.ver]
            /\ IF configMode = "dual"
               THEN /\ handlers' = (handlers \ {h}) \union {[h EXCEPT !.pc = "file_to_db", !.ver = f.ver]}
                    /\ UNCHANGED candidates
               ELSE handlers' = handlers \ {h} /\ TellRouter(h.agent, f.ver)
    /\ UNCHANGED <<configMode, edits, files, phase, watching, mtimes, dbRows, saves, unseen>>

\* file_to_db is done, or the database has failed and the router is not told.
HandlerSynced(h) ==
    /\ h.pc = "file_to_db"
    /\ \/ dbRows' = Upsert(h.agent, h.ver) /\ TellRouter(h.agent, h.ver)
       \/ UNCHANGED <<dbRows, candidates>>
    /\ handlers' = handlers \ {h}
    /\ UNCHANGED <<configMode, edits, files, phase, watching, mtimes, configs, saves, unseen>>

-----------------------------------------------------------------------------
\* get_config of an agent that is not cached: what loads is cached, unvalidated.
GetConfig(a) ==
    /\ phase = "up" /\ configs[a] = 0 /\ Loads(a)
    /\ configs' = [configs EXCEPT ![a] = files[a].ver]
    /\ UNCHANGED <<configMode, edits, files, phase, watching, mtimes, candidates, dbRows, handlers, saves, unseen>>

\* The cache after save_config, and after delete_config with v = 0.
Cached(a, v) == [configs EXCEPT ![a] = v]

\* PUT changes the object of the instance in place, which the cache or the router may
\* hold too: version v shows in them at once.
InPlace(held, a, v) == IF held[a] = 0 THEN {held} ELSE {held, [held EXCEPT ![a] = v]}

\* save_config of a valid configuration, by POST or PUT; the database is awaited in dual
\* mode.
SaveConfig(a) ==
    /\ phase = "up" /\ edits < MaxEdits /\ edits' = edits + 1
    /\ files' = [files EXCEPT ![a] = Yaml(edits + 1, edits + 1, "ok")]
    /\ unseen' = IF watching THEN unseen ELSE unseen \union {a}
    /\ candidates' \in InPlace(candidates, a, edits + 1)
    /\ IF configMode = "dual"
       THEN /\ saves' = saves \union {[agent |-> a, ver |-> edits + 1]}
            /\ configs' \in InPlace(configs, a, edits + 1)
       ELSE configs' = Cached(a, edits + 1) /\ UNCHANGED saves
    /\ UNCHANGED <<configMode, phase, watching, mtimes, dbRows, handlers>>

\* PUT of a configuration that the validator refuses, after it has been changed: the
\* files stay, and the watcher has nothing to notice.
RefuseUpdate(a) ==
    /\ phase = "up" /\ edits < MaxEdits /\ edits' = edits + 1
    /\ configs' \in InPlace(configs, a, edits + 1)
    /\ candidates' \in InPlace(candidates, a, edits + 1)
    /\ unseen' = unseen \union {a}
    /\ UNCHANGED <<configMode, files, phase, watching, mtimes, dbRows, handlers, saves>>

\* delete_config, of an agent that has an instance.
DeleteConfig(a) ==
    /\ phase = "up"
    /\ files' = [files EXCEPT ![a] = NoDirectory]
    /\ unseen' = IF watching THEN unseen ELSE unseen \union {a}
    /\ IF configMode = "dual"
       THEN saves' = saves \union {[agent |-> a, ver |-> 0]} /\ UNCHANGED configs
       ELSE configs' = Cached(a, 0) /\ UNCHANGED saves
    /\ UNCHANGED <<configMode, edits, phase, watching, mtimes, candidates, dbRows, handlers>>

\* The database has answered, or has failed: then the cache is not changed either.
SaveSynced(s) ==
    /\ \/ /\ dbRows' = IF s.ver # 0 THEN Upsert(s.agent, s.ver)
                     ELSE [dbRows EXCEPT ![s.agent].deleted = @ \/ dbRows[s.agent].ver # 0]
          /\ configs' = Cached(s.agent, s.ver)
       \/ UNCHANGED <<dbRows, configs>>
    /\ saves' = saves \ {s}
    /\ UNCHANGED <<configMode, edits, files, phase, watching, mtimes, candidates, handlers, unseen>>

ConfigNext ==
    \/ InitializeConfigs \/ SyncAll \/ TakeSnapshot \/ StopConfigs \/ Poll
    \/ \E a \in ConfigIds : \/ EditFiles(a) \/ GetConfig(a) \/ SaveConfig(a)
                           \/ RefuseUpdate(a) \/ DeleteConfig(a)
    \/ \E h \in handlers : HandleDeleted(h) \/ HandleChanged(h) \/ HandlerSynced(h)
    \/ \E s \in saves : SaveSynced(s)

ConfigSpec == ConfigInit /\ [][ConfigNext]_configVars

-----------------------------------------------------------------------------
Versions == 0..MaxEdits

ConfigTypeOK ==
    /\ configMode \in {"file_system", "dual"} /\ edits \in Versions
    /\ files \in [ConfigIds -> [is : {"none", "dir", "yaml"}, ver : Versions,
                             mtime : Versions, content : Contents]]
    /\ phase \in {"down", "syncing", "up"} /\ watching \in BOOLEAN
    /\ mtimes \in [ConfigIds -> Versions] /\ configs \in [ConfigIds -> Versions]
    /\ candidates \in [ConfigIds -> Versions]
    /\ dbRows \in [ConfigIds -> [ver : Versions, deleted : BOOLEAN]]
    /\ handlers \subseteq [agent : ConfigIds, change : {"created", "updated", "deleted"},
                           pc : {"start", "file_to_db"}, ver : Versions]
    /\ saves \subseteq [agent : ConfigIds, ver : Versions] /\ unseen \subseteq ConfigIds

\* The watcher has compared the files as they are, and what it found is handled.
ConfigSettled ==
    phase = "up" /\ watching /\ handlers = {} /\ saves = {} /\ mtimes = YamlTimes

\* In file_system mode, when the watcher has nothing left to do, the cache and the router
\* have what is on disk: an agent with a valid file is routed to under that version and
\* one whose directory is gone is not, whatever was edited, saved, deleted and looked up
\* in between.  The exceptions are what the watcher, which compares the times of the
\* agent.yaml files, cannot notice (history variable unseen), until it notices a later
\* change of the agent: a change before its snapshot, an agent.yaml removed without its
\* directory or with it between two polls, one put back with an older time, an edit of an
\* included file, and a PUT that was refused after it had changed the shared object.
RouterFollowsFiles ==
    (configMode = "file_system" /\ ConfigSettled) =>
        \A a \in ConfigIds \ unseen :
            /\ (files[a].is = "yaml" /\ files[a].content = "ok") =>
                  configs[a] = files[a].ver /\ candidates[a] = files[a].ver
            /\ files[a].is = "none" => configs[a] = 0 /\ candidates[a] = 0

\* "In DUAL mode the file system is the source and changes are synchronised to the
\* database" (config_manager/manager.py:6): when nothing is left to do, an agent with a
\* valid file has a row that is not deleted.
RowsFollowFiles ==
    (configMode = "dual" /\ ConfigSettled) =>
        \A a \in ConfigIds \ unseen :
            (files[a].is = "yaml" /\ files[a].content = "ok") => ~dbRows[a].deleted

=============================================================================
