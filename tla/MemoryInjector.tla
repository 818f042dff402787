--------------------------- MODULE MemoryInjector ---------------------------
(***************************************************************************)
(* What the runs of one agent are told: its static memory, files that      *)
(* operators edit and StaticMemoryLoader caches by modification time, and  *)
(* a dynamic memory, looked up by two searches of the index while it is    *)
(* promoted or deleted and written back after the run.  Loading blocks the *)
(* process, so that one run at a time shows everything the cache can meet; *)
(* MemoryStore has the stores.  The other memories are those that come     *)
(* before this one among the top_k.                                        *)
(***************************************************************************)
EXTENDS Naturals, FiniteSets, FiniteSetsExt

CONSTANTS Files,    \* agent-memory.yaml, personality.md, facts/*.yaml
          Entry,    \* agent-memory.yaml
          MaxWrites \* bound: writes of the files

ASSUME InjectorAssumption == IsFiniteSet(Files) /\ Entry \in Files /\ MaxWrites \in Nat

VARIABLES
    disk,   \* content and mtime of each file
    writes, \* writes so far; content and clock
    cache,  \* _cache of the agent
    run,    \* the run: where it is, what it has read and found
    place,  \* the scope of the memory in the index
    hidden, \* history: a change that the latest mtime does not show
    unread, \* history: the files that the load of the cache could not read
    due,    \* history: the memory has been the session's all through the lookup
    missed  \* history: lookups that did not find it for all that

injectorVars == <<disk, writes, cache, run, place, hidden, unread, due, missed>>

Missing == [ver |-> 0, mtime |-> 0]
NoText == [f \in Files |-> 0]
NotCached == [is |-> FALSE, content |-> NoText, mtime |-> 0]
IdleRun == [pc |-> "idle", todo |-> {}, seen |-> {}, content |-> NoText, found |-> FALSE, full |-> FALSE]

InjectorInit ==
    /\ disk = [f \in Files |-> Missing] /\ writes = 0
    /\ cache = NotCached /\ run = IdleRun
    /\ place = "none" /\ hidden = FALSE /\ unread = {} /\ due = FALSE /\ missed = 0

-----------------------------------------------------------------------------
OnDisk == {f \in Files : disk[f].ver # 0}

\* Mutant: only agent-memory.yaml is watched.
EntryChange(files) == disk[Entry].mtime

\* _max_mtime of the files that are still there.
LatestChange(files) == Max({0} \union {disk[f].mtime : f \in files})

\* The files change: written, or replaced by an older copy with its older mtime, or
\* removed.  What a running load has read already, it does not read again.
ChangeFile(f) ==
    /\ \/ writes < MaxWrites /\ writes' = writes + 1
          /\ \E t \in 1..(writes + 1) : disk' = [disk EXCEPT ![f] = [ver |-> writes + 1, mtime |-> t]]
       \/ f \in OnDisk /\ disk' = [disk EXCEPT ![f] = Missing] /\ UNCHANGED writes
    /\ hidden' = (hidden \/ disk'[f].mtime <= cache.mtime
                         \/ (run.pc = "reading" /\ f \notin run.todo))
    /\ UNCHANGED <<cache, run, place, unread, due, missed>>

ForgetCache == cache' = NotCached /\ hidden' = FALSE /\ unread' = {}

\* invalidate: meant for a reload of the configuration, though nothing calls it.
InvalidateStatic ==
    /\ run.pc # "reading" /\ cache.is /\ ForgetCache
    /\ UNCHANGED <<disk, writes, run, place, due, missed>>

\* check_and_reload
Outdated == OnDisk = {} \/ LatestChange(OnDisk) > cache.mtime

\* before_agent_run, _load_static: what is cached and not outdated is told; otherwise the
\* files are read again.  static_enabled may be off.
BeforeAgentRun ==
    /\ run.pc = "idle"
    /\ \/ run' = [IdleRun EXCEPT !.pc = "lookup"] /\ UNCHANGED <<cache, hidden, unread>>
       \/ /\ cache.is /\ ~Outdated
          /\ run' = [IdleRun EXCEPT !.pc = "lookup", !.content = cache.content]
          /\ UNCHANGED <<cache, hidden, unread>>
       \/ /\ ~cache.is \/ Outdated
          /\ ForgetCache
          /\ run' = [IdleRun EXCEPT !.pc = "reading", !.todo = OnDisk, !.seen = OnDisk]
    /\ UNCHANGED <<disk, writes, place, due, missed>>

\* _load_from_disk: the files one by one.  One that is gone has no text, and one that
\* cannot be read (OSError) none either; its mtime counts all the same.
ReadFile(f) ==
    /\ run.pc = "reading" /\ f \in run.todo
    /\ \/ run' = [run EXCEPT !.todo = @ \ {f}, !.content[f] = disk[f].ver] /\ UNCHANGED unread
       \/ run' = [run EXCEPT !.todo = @ \ {f}] /\ unread' = unread \union {f}
    /\ UNCHANGED <<disk, writes, cache, place, hidden, due, missed>>

\* What is no text raises, and _load_static goes on without any; nothing is cached.
LoadRaises ==
    /\ run.pc = "reading" /\ run.todo # {}
    /\ run' = [IdleRun EXCEPT !.pc = "lookup"]
    /\ UNCHANGED <<disk, writes, cache, place, hidden, unread, due, missed>>

\* Their latest mtime afterwards; an error when all of them have gone is caught.
StatFiles ==
    /\ run.pc = "reading" /\ run.todo = {}
    /\ IF run.seen # {} /\ run.seen \intersect OnDisk = {}
       THEN /\ run' = [IdleRun EXCEPT !.pc = "lookup"]
            /\ UNCHANGED cache
       ELSE /\ run' = [IdleRun EXCEPT !.pc = "lookup", !.content = run.content]
            /\ cache' = [is |-> TRUE, content |-> run.content,
                         mtime |-> LatestChange(run.seen \intersect OnDisk)]
    /\ UNCHANGED <<disk, writes, place, hidden, unread, due, missed>>

-----------------------------------------------------------------------------
\* retrieve_dynamic_memory: the embedding of the query, then a search of the scope "user"
\* and one of the scope "session".  Each may fail, which costs what it would have found;
\* dynamic_enabled may be off, the query blank.
BeginLookup ==
    /\ run.pc = "lookup"
    /\ \/ run' = [run EXCEPT !.pc = "users"] /\ due' = (place \in {"user", "session"})
       \/ run' = [run EXCEPT !.pc = "running"] /\ due' = FALSE
    /\ UNCHANGED <<disk, writes, cache, place, hidden, unread, missed>>

\* Mutant: every search has the filter of the first.
UserScope(scope) == place = "user"

Matches(scope) == place = scope

\* top_k of a search, by similarity, and of what both have found, by composite score:
\* the memory may come after top_k others.
Cut(hit) == {[found |-> hit, full |-> FALSE], [found |-> FALSE, full |-> TRUE]}

SearchFails(next) == run' = [run EXCEPT !.pc = next] /\ due' = FALSE /\ UNCHANGED missed

SearchUser ==
    /\ run.pc = "users"
    /\ \/ \E c \in Cut(Matches("user")) :
              run' = [run EXCEPT !.pc = "sessions", !.found = c.found, !.full = c.full]
          /\ UNCHANGED <<due, missed>>
       \/ SearchFails("sessions")
    /\ UNCHANGED <<disk, writes, cache, place, hidden, unread>>

SearchSession ==
    /\ run.pc = "sessions"
    /\ \/ /\ \E c \in Cut(run.found \/ Matches("session")) :
                run' = [run EXCEPT !.pc = "running", !.found = c.found, !.full = @ \/ c.full]
          /\ missed' = IF due /\ ~run'.found /\ ~run'.full THEN Min({2, missed + 1}) ELSE missed
          /\ UNCHANGED due
       \/ SearchFails("running")
    /\ UNCHANGED <<disk, writes, cache, place, hidden, unread>>

\* after_agent_run: unless there is no answer or write_back is off, an LLM extracts what
\* is worth remembering ...
AfterAgentRun ==
    /\ run.pc = "running"
    /\ \/ run' = [IdleRun EXCEPT !.pc = "extracting"]
       \/ run' = IdleRun
    /\ due' = FALSE
    /\ UNCHANGED <<disk, writes, cache, place, hidden, unread, missed>>

\* ... unless the LLM fails, or nothing it answers can be parsed ...
Extracted == {"none", "session", "user"}

\* ... and write_extracted_memories writes it for the session, or for the user where the
\* run has no session, unless its importance is 0.3 or less.
ExtractMemories ==
    /\ run.pc = "extracting" /\ run' = IdleRun
    /\ IF place = "none" THEN place' \in Extracted ELSE UNCHANGED place
    /\ UNCHANGED <<disk, writes, cache, hidden, unread, due, missed>>

\* Another session of the user writes it, its importance promotes it, or it is deleted;
\* the next one is another memory.
MoveMemory ==
    /\ place' \in (CASE place = "none" -> {"other"}
                     [] place = "user" -> {"none"}
                     [] OTHER -> {"user", "none"})
    /\ due' = (due /\ place' # "none")
    /\ missed' = IF place' = "none" THEN 0 ELSE missed
    /\ UNCHANGED <<disk, writes, cache, run, hidden, unread>>

InjectorNext ==
    \/ \E f \in Files : ChangeFile(f) \/ ReadFile(f)
    \/ InvalidateStatic \/ BeforeAgentRun \/ LoadRaises \/ StatFiles
    \/ BeginLookup \/ SearchUser \/ SearchSession \/ AfterAgentRun \/ ExtractMemories \/ MoveMemory

InjectorSpec == InjectorInit /\ [][InjectorNext]_injectorVars

-----------------------------------------------------------------------------
InjectorTypeOK ==
    /\ disk \in [Files -> [ver : Nat, mtime : Nat]] /\ writes \in 0..MaxWrites
    /\ cache \in [is : BOOLEAN, content : [Files -> Nat], mtime : Nat]
    /\ run \in [pc : {"idle", "reading", "lookup", "users", "sessions", "running", "extracting"},
                todo : SUBSET Files, seen : SUBSET Files, content : [Files -> Nat],
                found : BOOLEAN, full : BOOLEAN]
    /\ place \in {"none", "other", "session", "user"}
    /\ hidden \in BOOLEAN /\ unread \subseteq Files /\ due \in BOOLEAN /\ missed \in 0..2

\* "If any file has changed since the last load, the cache is invalidated": what the
\* loader holds and takes for current is what the files hold, unless one of them was
\* removed, was replaced by an older copy, or changed between its reading and the look at
\* its mtime; those changes the comparison of mtimes cannot see.  A file that could not
\* be read when the cache was loaded has no text there until some file changes.
CacheFollowsFiles ==
    cache.is /\ ~Outdated /\ ~hidden =>
        cache.content = [f \in Files |-> IF f \in unread THEN 0 ELSE disk[f].ver]

\* Of the lookups of a session whose searches answer and find fewer than top_k others, one
\* at most fails to tell a memory that is the session's, or the user's, all the time: the
\* one in the middle of which the memory is promoted, after the search that would find it
\* as the user's and before the one that would find it as the session's.
MissedAtMostOnce == missed <= 1
=============================================================================
