--------------------------- MODULE ServicesProofs ---------------------------
(***************************************************************************)
(* Theorems about the push scheduler, the dynamic memories and the agent   *)
(* runtime, for every value of their constants.                            *)
(***************************************************************************)
EXTENDS PushScheduler, MemoryStore, MemoryInjector, AgentRuntime, FiniteSetTheorems, TLAPS

-----------------------------------------------------------------------------
(* Push: the table and the jobs.                                           *)

PushSchedule == [there : BOOLEAN, agent : Agents, enabled : BOOLEAN, cron : Crons]
Tables == [schedules : [ScheduleIds -> PushSchedule], jobs : SUBSET ScheduleIds]

\* The jobs of a table are its enabled schedules, for an id or for all of them.
MatchingAt(t, s) == s \in t.jobs <=> t.schedules[s].there /\ t.schedules[s].enabled
Matching(t) == \A s \in ScheduleIds : MatchingAt(t, s)

LEMMA AbsentSchedule == Absent \in PushSchedule /\ ~Absent.there
  BY DEF Absent, PushSchedule, Agents, Crons

\* add_schedule makes a table match at the id, and leaves the other ids alone: where it
\* replaces a schedule by an enabled one, and where the id is new.
LEMMA AddMatches ==
    ASSUME NEW t \in Tables, NEW s \in ScheduleIds, NEW new \in PushSchedule,
           \A q \in ScheduleIds \ {s} : MatchingAt(t, q), new.there,
           IF t.schedules[s].there THEN new.enabled ELSE s \notin t.jobs
    PROVE  /\ AddSchedule(t, s, new) \in Tables /\ Matching(AddSchedule(t, s, new))
           /\ \A q \in ScheduleIds \ {s} : AddSchedule(t, s, new).schedules[q] = t.schedules[q]
<1> DEFINE r == IF t.schedules[s].there THEN RemoveSchedule([t EXCEPT !.schedules[s] = new], s) ELSE t
<1> DEFINE Kept(x) == \A q \in ScheduleIds \ {s} : x.schedules[q] = t.schedules[q]
<1>1. r \in Tables /\ ~r.schedules[s].there /\ Matching(r) /\ Kept(r)
  <2>1. CASE ~t.schedules[s].there
    BY <2>1 DEF Matching, MatchingAt
  <2>2. CASE t.schedules[s].there
    <3> DEFINE u == [t EXCEPT !.schedules[s] = new]
    <3>1. u = [schedules |-> [t.schedules EXCEPT ![s] = new], jobs |-> t.jobs]
      BY DEF Tables
    <3>2. r = [schedules |-> [u.schedules EXCEPT ![s] = Absent], jobs |-> t.jobs \ {s}]
      BY <2>2, <3>1 DEF RemoveSchedule, Tables
    <3> QED
      BY <3>1, <3>2, AbsentSchedule DEF Tables, Matching, MatchingAt
  <2> QED
    BY <2>1, <2>2
<1> DEFINE a == AddSchedule(t, s, new)
<1>2. CASE ~new.enabled
  <2>1. a = [schedules |-> [r.schedules EXCEPT ![s] = new], jobs |-> r.jobs]
    BY <1>1, <1>2 DEF AddSchedule, Tables
  <2> QED
    BY <1>1, <1>2, <2>1 DEF Tables, Matching, MatchingAt
<1>3. CASE new.enabled /\ new.cron = "valid" /\ scheduler = "started"
  <2>1. a = [schedules |-> [r.schedules EXCEPT ![s] = new], jobs |-> r.jobs \union {s}]
    BY <1>1, <1>3 DEF AddSchedule, Tables
  <2>2. a \in Tables
    BY <1>1, <2>1 DEF Tables
  <2>3. MatchingAt(a, s)
    BY <1>1, <1>3, <2>1 DEF Tables, MatchingAt
  <2>4. \A q \in ScheduleIds \ {s} : MatchingAt(a, q) /\ a.schedules[q] = t.schedules[q]
    BY <1>1, <2>1 DEF Tables, Matching, MatchingAt
  <2> QED
    BY <2>2, <2>3, <2>4 DEF Matching
<1>4. CASE new.enabled /\ ~(new.cron = "valid" /\ scheduler = "started")
  BY <1>1, <1>4 DEF AddSchedule
<1> QED
  BY <1>2, <1>3, <1>4 DEF PushSchedule

\* Ids that were not handed out have no schedule: a new one never meets an old one.
Fresh == \A s \in ScheduleIds : s > lastId => ~schedules[s].there

PushIInv == PushTypeOK /\ JobsMatchTable /\ Fresh

LEMMA PushTable ==
    ASSUME PushTypeOK
    PROVE  Table \in Tables /\ (JobsMatchTable <=> Matching(Table))
<1>1. schedules \in [ScheduleIds -> PushSchedule] /\ jobs \subseteq ScheduleIds
  BY DEF PushTypeOK, PushSchedule
<1>2. Table.schedules = schedules /\ Table.jobs = jobs /\ Table \in Tables
  BY <1>1 DEF Table, Tables
<1>3. Matching(Table) <=> \A s \in ScheduleIds : s \in jobs <=> schedules[s].there /\ schedules[s].enabled
  BY <1>2 DEF Matching, MatchingAt
<1> QED
  BY <1>1, <1>2, <1>3 DEF JobsMatchTable

\* What SetTable leaves is what the table says.
LEMMA TableSet ==
    ASSUME NEW t \in Tables, SetTable(t), Matching(t)
    PROVE  /\ schedules' \in [ScheduleIds -> PushSchedule] /\ jobs' \subseteq ScheduleIds
           /\ JobsMatchTable'
  BY DEF SetTable, Matching, MatchingAt, Tables, JobsMatchTable

LEMMA NewScheduleType ==
    ASSUME NEW a \in Agents, NEW on \in BOOLEAN, NEW cron \in Crons
    PROVE  NewSchedule(a, on, cron) \in PushSchedule /\ NewSchedule(a, on, cron).there
  BY DEF NewSchedule, PushSchedule

LEMMA PushInitial == PushInit => PushIInv
<1> SUFFICES ASSUME PushInit PROVE PushIInv
  OBVIOUS
<1>1. schedules \in [ScheduleIds -> PushSchedule] /\ \A s \in ScheduleIds : ~schedules[s].there
  BY AbsentSchedule DEF PushInit
<1>2. jobs = {} /\ runs = {} /\ lastId \in 0..MaxSchedules
  BY PushAssumption DEF PushInit
<1> QED
  BY <1>1, <1>2 DEF PushInit, PushIInv, PushTypeOK, JobsMatchTable, Fresh, PushSchedule

LEMMA PushStep == PushIInv /\ [PushNext]_pushVars => PushIInv'
<1> SUFFICES ASSUME PushIInv, [PushNext]_pushVars PROVE PushIInv'
  OBVIOUS
<1> USE PushAssumption
<1>0. /\ PushTypeOK /\ JobsMatchTable /\ Fresh
      /\ Table \in Tables /\ Matching(Table) /\ lastId \in Nat
      /\ schedules \in [ScheduleIds -> PushSchedule]
  BY PushTable DEF PushIInv, PushTypeOK, PushSchedule
\* A step that only adds a new schedule to a table that matches and is fresh.
<1> DEFINE Adds(t) == \E a \in Agents, on \in BOOLEAN, cron \in Crons :
                          SetTable(AddSchedule(t, lastId + 1, NewSchedule(a, on, cron)))
<1>a. ASSUME NEW t \in Tables, Matching(t), \A s \in ScheduleIds : s > lastId => ~t.schedules[s].there,
             lastId < MaxSchedules, lastId' = lastId + 1, Adds(t)
      PROVE  /\ schedules' \in [ScheduleIds -> PushSchedule] /\ jobs' \subseteq ScheduleIds
             /\ lastId' \in 0..MaxSchedules /\ JobsMatchTable' /\ Fresh'
  <2>1. PICK a \in Agents, on \in BOOLEAN, cron \in Crons :
            SetTable(AddSchedule(t, lastId + 1, NewSchedule(a, on, cron)))
    BY <1>a
  <2> DEFINE n == lastId + 1
  <2> DEFINE new == NewSchedule(a, on, cron)
  <2> DEFINE x == AddSchedule(t, n, new)
  <2>2. n \in ScheduleIds /\ ~t.schedules[n].there /\ n \notin t.jobs
    BY <1>a, <1>0 DEF ScheduleIds, Matching, MatchingAt
  <2>3. x \in Tables /\ Matching(x) /\ \A q \in ScheduleIds \ {n} : x.schedules[q] = t.schedules[q]
    BY <2>2, <1>a, AddMatches, NewScheduleType DEF Matching
  <2>4. schedules' = x.schedules
    BY <2>1 DEF SetTable
  <2>5. Fresh'
    BY <1>a, <1>0, <2>3, <2>4 DEF Fresh, ScheduleIds
  <2> QED
    BY <1>a, <1>0, <2>1, <2>3, <2>5, TableSet
<1>1. CASE CreateSchedule
  BY <1>1, <1>0, <1>a DEF CreateSchedule, PushIInv, PushTypeOK, PushSchedule, Fresh, Table
<1>2. ASSUME NEW s \in ScheduleIds, DeleteSchedule(s) PROVE PushIInv'
  <2> DEFINE t == RemoveSchedule(Table, s)
  <2>1. t = [schedules |-> [schedules EXCEPT ![s] = Absent],
             jobs |-> IF schedules[s].enabled THEN jobs \ {s} ELSE jobs]
    BY DEF RemoveSchedule, Table
  <2>2. t \in Tables /\ Matching(t)
    BY <2>1, <1>0, AbsentSchedule DEF Tables, Matching, MatchingAt, Table
  <2>3. Fresh'
    BY <1>2, <1>0, <2>1, AbsentSchedule DEF DeleteSchedule, SetTable, Fresh
  <2> QED
    BY <1>2, <1>0, <2>2, <2>3, TableSet DEF DeleteSchedule, PushIInv, PushTypeOK, PushSchedule
<1>3. ASSUME NEW s \in ScheduleIds, NEW on \in BOOLEAN, UpdateScheduleStatus(s, on) PROVE PushIInv'
  <2> DEFINE t == StatusUpdated(s, on)
  <2> DEFINE new == [schedules[s] EXCEPT !.enabled = on]
  <2>1. schedules[s].there /\ SetTable(t) /\ UNCHANGED <<scheduler, lastId, runs, tokenCached, tokenGranted>>
    BY <1>3 DEF UpdateScheduleStatus
  <2>2. new \in PushSchedule /\ new.there /\ new.enabled = on
    BY <1>0, <2>1 DEF PushSchedule
  <2>3. t \in Tables /\ Matching(t) /\ \A q \in ScheduleIds \ {s} : t.schedules[q] = schedules[q]
    <3>1. CASE on
      <4> DEFINE u == [Table EXCEPT !.schedules[s] = new]
      <4>1. u = [schedules |-> [schedules EXCEPT ![s] = new], jobs |-> jobs]
        BY DEF Table
      <4>2. u \in Tables /\ u.schedules[s] = new
        BY <4>1, <1>0, <2>2 DEF Tables, Table
      <4>4. \A q \in ScheduleIds \ {s} : MatchingAt(u, q) /\ u.schedules[q] = schedules[q]
        BY <4>1, <1>0 DEF Tables, Matching, MatchingAt, Table
      <4>3. t = AddSchedule(u, s, new)
        BY <3>1 DEF StatusUpdated
      <4> HIDE DEF u, new, t
      <4>5. /\ AddSchedule(u, s, new) \in Tables /\ Matching(AddSchedule(u, s, new))
            /\ \A q \in ScheduleIds \ {s} : AddSchedule(u, s, new).schedules[q] = u.schedules[q]
        BY <4>2, <4>4, <3>1, <2>2, AddMatches
      <4> QED
        BY <4>3, <4>4, <4>5
    <3>2. CASE ~on
      <4>1. t = [schedules |-> [schedules EXCEPT ![s] = new], jobs |-> jobs \ {s}]
        BY <3>2 DEF StatusUpdated
      <4> QED
        BY <4>1, <1>0, <2>2, <3>2 DEF Tables, Matching, MatchingAt, Table
    <3> QED
      BY <3>1, <3>2
  <2>4. Fresh'
    BY <1>0, <2>1, <2>3 DEF SetTable, Fresh
  <2> QED
    BY <1>0, <2>1, <2>3, <2>4, TableSet DEF PushIInv, PushTypeOK, PushSchedule
<1>4. ASSUME NEW a \in Agents, SyncFromAgentConfig(a) PROVE PushIInv'
  <2> DEFINE t == [schedules |-> [s \in ScheduleIds |->
                        IF schedules[s].agent = a THEN Absent ELSE schedules[s]],
                   jobs |-> jobs \ {s \in ScheduleIds : schedules[s].agent = a /\ schedules[s].enabled}]
  <2>1. t \in Tables /\ Matching(t) /\ \A s \in ScheduleIds : s > lastId => ~t.schedules[s].there
    BY <1>0, AbsentSchedule DEF Tables, Matching, MatchingAt, Table, Fresh
  <2>2. UNCHANGED <<scheduler, runs, tokenCached, tokenGranted>>
    BY <1>4 DEF SyncFromAgentConfig
  <2>3. CASE SetTable(t) /\ UNCHANGED lastId
    <3>1. Fresh'
      BY <2>3, <2>1 DEF SetTable, Fresh
    <3> QED
      BY <1>0, <2>1, <2>2, <2>3, <3>1, TableSet DEF PushIInv, PushTypeOK, PushSchedule
  <2>4. CASE lastId < MaxSchedules /\ lastId' = lastId + 1
             /\ \E on \in BOOLEAN, cron \in Crons :
                    SetTable(AddSchedule(t, lastId + 1, NewSchedule(a, on, cron)))
    <3>1. Adds(t)
      BY <2>4
    <3> QED
      BY <1>0, <1>a, <2>1, <2>2, <2>4, <3>1 DEF PushIInv, PushTypeOK, PushSchedule
  <2> QED
    BY <1>4, <2>3, <2>4 DEF SyncFromAgentConfig
<1>5. CASE StartScheduler
  BY <1>5, <1>0 DEF StartScheduler, PushIInv, PushTypeOK, JobsMatchTable, Fresh
<1>6. CASE StopScheduler
  BY <1>6, <1>0, AbsentSchedule DEF StopScheduler, PushIInv, PushTypeOK, PushSchedule, JobsMatchTable, Fresh
<1>7. ASSUME NEW s \in ScheduleIds, ExecutePush(s) PROVE PushIInv'
  BY <1>7, <1>0 DEF ExecutePush, PushIInv, PushTypeOK, JobsMatchTable, Fresh
<1>8. ASSUME NEW r \in runs, SendPush(r) PROVE PushIInv'
  BY <1>8, <1>0 DEF SendPush, PostMessage, RefreshRaises, PushIInv, PushTypeOK, JobsMatchTable, Fresh
<1>9. CASE UNCHANGED pushVars
  BY <1>9, <1>0 DEF pushVars, PushIInv, PushTypeOK, JobsMatchTable, Fresh
<1> QED
  BY <1>1, <1>2, <1>3, <1>4, <1>5, <1>6, <1>7, <1>8, <1>9 DEF PushNext

\* For any number of schedules and users: the table of schedules and the jobs of
\* APScheduler agree (push/scheduler.py).
THEOREM JobsMatch == PushSpec => []JobsMatchTable
<1>1. PushIInv => JobsMatchTable
  BY DEF PushIInv
<1> QED
  BY <1>1, PushInitial, PushStep, PTL DEF PushSpec

-----------------------------------------------------------------------------
(* Memories: what the index shows, and to whom.                            *)

\* A point has the scope its memory was written with, or belongs to the user if it was
\* promoted, which only important ones are.
PointsScoped ==
    \A m \in Memories :
        /\ writing[m] \in {"no", "embed"} => index[m] = Nowhere /\ deleting[m].at = "none"
        /\ index[m] \in {UserLevel, Nowhere, origin[m]}
        /\ index[m] = UserLevel => origin[m] = UserLevel \/ m \in important

MemoryIInv ==
    /\ MemoryTypeOK /\ PointsScoped /\ StoredIsFound
    /\ promoting \subseteq important

LEMMA MemoryInitial == MemoryInit => MemoryIInv
<1> SUFFICES ASSUME MemoryInit PROVE MemoryIInv
  OBVIOUS
<1>1. NoDeletion \in Deletion /\ NoDeletion.at = "none" /\ \A m \in Memories : m \in DeleteTasks
  BY DEF NoDeletion, Deletion, DeleteTasks
<1>2. MemoryTypeOK
  BY <1>1 DEF MemoryInit, MemoryTypeOK, UserLevel
<1> HIDE DEF NoDeletion
<1>3. PointsScoped
  BY <1>1, MemoryAssumption DEF MemoryInit, PointsScoped, UserLevel, Nowhere
<1> QED
  BY <1>2, <1>3 DEF MemoryInit, MemoryIInv, StoredIsFound

LEMMA MemoryStep == MemoryIInv /\ [MemoryNext]_memoryVars => MemoryIInv'
<1> SUFFICES ASSUME MemoryIInv, [MemoryNext]_memoryVars PROVE MemoryIInv'
  OBVIOUS
<1> USE MemoryAssumption
<1>0. /\ MemoryTypeOK /\ PointsScoped /\ StoredIsFound /\ promoting \subseteq important
      /\ Nowhere # UserLevel /\ \A s \in Sessions : s # Nowhere /\ s # UserLevel
      /\ NoDeletion \in Deletion
  BY DEF MemoryIInv, Nowhere, UserLevel, Sessions, NoDeletion, Deletion
<1>1. ASSUME NEW m \in Memories, NEW s \in Sessions \union {UserLevel}, NEW high \in BOOLEAN,
             InsertRow(m, s, high)
      PROVE  MemoryIInv'
  BY <1>0, <1>1 DEF InsertRow, MemoryIInv, MemoryTypeOK, PointsScoped, StoredIsFound
<1>2. ASSUME NEW m \in Memories, UpsertPoint(m) PROVE MemoryIInv'
  <2> DEFINE d == [deleting[m] EXCEPT !.at = "count"]
  <2>0. /\ m \in DeleteTasks /\ d \in Deletion /\ d.at = "count" /\ deleting[m].at = "none"
        /\ [deleting EXCEPT ![m].at = "count"] = [deleting EXCEPT ![m] = d]
    <3>1. m \in DeleteTasks /\ writing[m] = "embed"
      BY <1>2 DEF UpsertPoint, DeleteTasks
    <3>2. deleting[m] \in Deletion /\ deleting[m].at = "none"
      BY <1>0, <3>1 DEF MemoryTypeOK, PointsScoped
    <3>3. d \in Deletion /\ d.at = "count"
      BY <3>2 DEF Deletion
    <3>4. [deleting EXCEPT ![m].at = "count"] = [deleting EXCEPT ![m] = d]
      OBVIOUS
    <3> QED
      BY <3>1, <3>2, <3>3, <3>4
  <2> HIDE DEF d
  <2>4. /\ deleting' \in [DeleteTasks -> Deletion]
        /\ \A q \in DeleteTasks : q # m => deleting'[q] = deleting[q]
    BY <1>0, <1>2, <2>0 DEF UpsertPoint, MemoryTypeOK
  <2>5. /\ rows' = rows /\ origin' = origin /\ important' = important
        /\ rowScope' = rowScope /\ promoting' = promoting /\ cutShort' = cutShort
        /\ \/ index' = [index EXCEPT ![m] = origin[m]] /\ writing' = [writing EXCEPT ![m] = "indexed"]
           \/ index' = index /\ writing' = [writing EXCEPT ![m] = "unindexed"]
    BY <1>2 DEF UpsertPoint
  <2>1. MemoryTypeOK'
    BY <1>0, <2>4, <2>5 DEF MemoryTypeOK
  <2>2. PointsScoped'
    BY <1>0, <2>0, <2>4, <2>5 DEF MemoryTypeOK, PointsScoped, DeleteTasks
  <2>3. StoredIsFound'
    <3> SUFFICES ASSUME NEW k \in Memories, k \in rows, writing'[k] = "indexed", index'[k] = Nowhere,
                        k \notin cutShort
                 PROVE  \E t \in DeleteTasks : deleting'[t].at = "rows" /\ k \in deleting'[t].ids
      BY <1>0, <2>5 DEF StoredIsFound, MemoryTypeOK
    <3>1. k # m /\ writing[k] = "indexed" /\ index[k] = Nowhere
      BY <1>0, <2>5 DEF MemoryTypeOK
    <3>2. PICK t \in DeleteTasks : deleting[t].at = "rows" /\ k \in deleting[t].ids
      BY <1>0, <3>1 DEF StoredIsFound
    <3> QED
      BY <2>0, <2>4, <3>2
  <2> QED
    BY <1>0, <2>1, <2>2, <2>3, <2>5 DEF MemoryIInv
<1>3. ASSUME NEW t \in DeleteTasks,
             UNCHANGED <<rows, origin, important, rowScope, index, writing, promoting, cutShort>>,
             NEW d \in Deletion, deleting[t].at # "rows", deleting' = [deleting EXCEPT ![t] = d],
             deleting[t].at # "none" \/ t = Housekeeping
      PROVE  MemoryIInv'
  <2>1. deleting' \in [DeleteTasks -> Deletion] /\ \A q \in DeleteTasks : q # t => deleting'[q] = deleting[q]
    BY <1>0, <1>3 DEF MemoryTypeOK
  <2>2. \A m \in Memories : m \in DeleteTasks /\ m # Housekeeping
    BY DEF DeleteTasks, Memories, Housekeeping
  <2>3. PointsScoped'
    BY <1>0, <1>3, <2>1, <2>2 DEF PointsScoped
  <2>4. StoredIsFound'
    BY <1>0, <1>3, <2>1 DEF StoredIsFound
  <2>5. MemoryTypeOK'
    BY <1>0, <1>3, <2>1 DEF MemoryTypeOK
  <2> QED
    BY <1>0, <1>3, <2>3, <2>4, <2>5 DEF MemoryIInv
<1>4. ASSUME NEW t \in DeleteTasks, CountRows(t) PROVE MemoryIInv'
  <2> DEFINE total == Cardinality(rows)
  <2>1. total \in Nat
    <3>1. IsFiniteSet(Memories)
      BY FS_Interval DEF Memories
    <3>2. IsFiniteSet(rows)
      BY <1>0, <3>1, FS_Subset DEF MemoryTypeOK
    <3> QED
      BY <3>2, FS_CardinalityType
  <2>2. PICK d \in Deletion : deleting' = [deleting EXCEPT ![t] = d]
    <3>1. CASE total <= MaxPerUser
      BY <1>0, <1>4, <3>1 DEF CountRows
    <3>2. CASE ~(total <= MaxPerUser)
      <4>1. total - MaxPerUser \in Nat
        BY <2>1, <3>2
      <4> HIDE DEF total
      <4>2. [at |-> "choose", excess |-> total - MaxPerUser, ids |-> {}] \in Deletion
        BY <4>1 DEF Deletion
      <4> QED
        BY <1>4, <3>2, <4>2 DEF CountRows, total
    <3> QED
      BY <3>1, <3>2
  <2> QED
    BY <1>3, <1>4, <2>2 DEF CountRows
<1>5. ASSUME NEW t \in DeleteTasks, ChooseVictims(t) PROVE MemoryIInv'
  <2>1. Lowest(deleting[t].excess) \subseteq Memories
    BY <1>0 DEF MemoryTypeOK, Lowest
  <2>2. PICK d \in Deletion : deleting' = [deleting EXCEPT ![t] = d]
    BY <1>0, <1>5, <2>1 DEF ChooseVictims, Deletion
  <2> QED
    BY <1>3, <1>5, <2>2 DEF ChooseVictims
<1>6. ASSUME NEW t \in DeleteTasks, DeletePoints(t) PROVE MemoryIInv'
  <2>1. MemoryTypeOK'
    BY <1>0, <1>6 DEF DeletePoints, MemoryTypeOK, Deletion
  <2>2. PointsScoped'
    BY <1>0, <1>6 DEF DeletePoints, MemoryTypeOK, PointsScoped
  <2>3. deleting'[t].at = "rows" /\ deleting'[t].ids = deleting[t].ids
    BY <1>0, <1>6 DEF DeletePoints, MemoryTypeOK, Deletion
  <2>4. \A q \in DeleteTasks : deleting[q].at = "rows" => deleting'[q] = deleting[q]
    BY <1>0, <1>6 DEF DeletePoints, MemoryTypeOK
  <2>5. StoredIsFound'
    BY <1>0, <1>6, <2>3, <2>4 DEF DeletePoints, MemoryTypeOK, StoredIsFound
  <2> QED
    BY <1>0, <1>6, <2>1, <2>2, <2>5 DEF DeletePoints, MemoryIInv
<1>7. ASSUME NEW t \in DeleteTasks, DeleteRows(t) PROVE MemoryIInv'
  <2>1. \A q \in DeleteTasks \ {t} : deleting'[q] = deleting[q]
    BY <1>0, <1>7 DEF DeleteRows, MemoryTypeOK
  <2>2. /\ rows' = rows \ deleting[t].ids /\ cutShort' = cutShort \intersect rows'
        /\ UNCHANGED <<origin, important, rowScope, index, writing, promoting>>
    BY <1>7 DEF DeleteRows, RowsLeft
  <2>3. StoredIsFound'
    BY <1>0, <2>1, <2>2 DEF StoredIsFound
  <2>4. MemoryTypeOK' /\ PointsScoped'
    BY <1>0, <1>7, <2>2 DEF DeleteRows, MemoryTypeOK, PointsScoped
  <2> QED
    BY <1>0, <2>2, <2>3, <2>4 DEF MemoryIInv
<1>7a. ASSUME NEW t \in DeleteTasks, DeletionStops(t) PROVE MemoryIInv'
  <2>1. /\ deleting' = [deleting EXCEPT ![t] = NoDeletion] /\ NoDeletion.at = "none"
        /\ UNCHANGED <<rows, origin, important, rowScope, index, writing, promoting>>
    BY <1>7a DEF DeletionStops, NoDeletion
  <2>2. /\ deleting' \in [DeleteTasks -> Deletion]
        /\ \A q \in DeleteTasks \ {t} : deleting'[q] = deleting[q]
        /\ \A q \in DeleteTasks : deleting[q].at = "none" => deleting'[q].at = "none"
    BY <1>0, <2>1 DEF MemoryTypeOK
  <2>3. /\ cutShort' \subseteq Memories /\ cutShort \subseteq cutShort'
        /\ deleting[t].at = "rows" => deleting[t].ids \intersect rows \subseteq cutShort'
    <3>1. deleting[t].ids \subseteq Memories /\ cutShort \subseteq Memories
      BY <1>0 DEF MemoryTypeOK, Deletion
    <3> QED
      BY <1>7a, <3>1 DEF DeletionStops
  <2>4. StoredIsFound'
    BY <1>0, <2>1, <2>2, <2>3 DEF StoredIsFound
  <2>5. MemoryTypeOK'
    BY <1>0, <2>1, <2>2, <2>3 DEF MemoryTypeOK
  <2>6. PointsScoped'
    BY <1>0, <2>1, <2>2 DEF PointsScoped, DeleteTasks
  <2> QED
    BY <1>0, <2>1, <2>4, <2>5, <2>6 DEF MemoryIInv
<1>8. ASSUME NEW ids \in SUBSET Memories, StartDeletion(ids) PROVE MemoryIInv'
  <2> DEFINE d == [at |-> "points", excess |-> 0, ids |-> ids]
  <2>1. d \in Deletion /\ Housekeeping \in DeleteTasks
    BY DEF Deletion, DeleteTasks
  <2> QED
    BY <1>3, <1>8, <2>1 DEF StartDeletion
<1>9. ASSUME EnforceAll PROVE MemoryIInv'
  <2> DEFINE d == [deleting[Housekeeping] EXCEPT !.at = "count"]
  <2>1. d \in Deletion /\ Housekeeping \in DeleteTasks
    BY <1>0 DEF MemoryTypeOK, Deletion, DeleteTasks
  <2>2. deleting' = [deleting EXCEPT ![Housekeeping] = d]
    BY <1>9 DEF EnforceAll
  <2> QED
    BY <1>3, <1>9, <2>1, <2>2 DEF EnforceAll
<1>10. ASSUME PromoteRows PROVE MemoryIInv'
  <2>1. Promotable \subseteq important /\ Promotable \subseteq Memories
    BY <1>0 DEF Promotable, MemoryTypeOK
  <2> QED
    BY <1>0, <1>10, <2>1 DEF PromoteRows, MemoryIInv, MemoryTypeOK, PointsScoped, StoredIsFound
<1>11. ASSUME PromotePoints PROVE MemoryIInv'
  <2>1. MemoryTypeOK' /\ PointsScoped' /\ StoredIsFound'
    BY <1>0, <1>11 DEF PromotePoints, MemoryTypeOK, PointsScoped, StoredIsFound
  <2> QED
    BY <1>0, <1>11, <2>1 DEF PromotePoints, MemoryIInv
<1>12. CASE UNCHANGED memoryVars
  BY <1>0, <1>12 DEF memoryVars, MemoryIInv, MemoryTypeOK, PointsScoped, StoredIsFound
<1>13. rows \subseteq Memories
  BY <1>0 DEF MemoryTypeOK
<1> QED
  BY <1>1, <1>2, <1>4, <1>5, <1>6, <1>7, <1>7a, <1>8, <1>9, <1>10, <1>11, <1>12, <1>13
  DEF MemoryNext, ForgetExpired, CleanupSession, DeleteMemory

\* For any number of memories and sessions and any capacity: a session is told only
\* memories of its own, of the user, or important ones (retrieve_dynamic_memory).
THEOREM Isolated == MemorySpec => []SessionIsolation
<1>1. MemoryIInv => SessionIsolation
  BY MemoryAssumption
  DEF MemoryIInv, PointsScoped, SessionIsolation, Retrievable, Sessions, NewSession, Nowhere, UserLevel
<1> QED
  BY <1>1, MemoryInitial, MemoryStep, PTL DEF MemorySpec

\* For any number of memories and concurrent evictions, expiries, promotions and
\* deletions: a memory that both stores have taken stays in the index as long as its row
\* stays, unless a deletion that chose it is between the two stores or has ended there.
THEOREM Found == MemorySpec => []StoredIsFound
<1>1. MemoryIInv => StoredIsFound
  BY DEF MemoryIInv
<1> QED
  BY <1>1, MemoryInitial, MemoryStep, PTL DEF MemorySpec
-----------------------------------------------------------------------------
(* The turns of a runtime and its MCP managers.                            *)

\* Managers are connected one after the other.
FirstOnes == \E n \in 0..MaxManagers : \A m \in ManagerIds : managers[m].is # "none" <=> m <= n

Connected(m) == m \in ManagerIds => managers[m].is # "none"

\* A manager with tools is closed only by shutdown: the one a turn closes has none.
ClosedByShutdown ==
    /\ \A m \in ManagerIds : /\ managers[m].is = "none" => ~managers[m].tools
                             /\ (managers[m].is = "closed" /\ managers[m].tools) => managers[m].outlived
    /\ shutting # 0 => managers[shutting].outlived
    /\ \A t \in Turns : At(t, "closing") => ~HasTools(turnRuns[t].mcp)

References ==
    Connected(mcp) /\ Connected(shutting) /\ \A t \in Turns : Connected(turnRuns[t].mcp)

SaysDone == \A t \in Turns : turnRuns[t].done = IF At(t, "ended") THEN 1 ELSE 0

RuntimeIInv == RuntimeTypeOK /\ FirstOnes /\ References /\ ClosedByShutdown /\ SaysDone

Managers == [is : {"none", "open", "closed"}, tools : BOOLEAN, outlived : BOOLEAN]
TurnRun == [pc : {"idle", "closing", "connecting", "streaming", "ended"},
            mcp : 0..MaxManagers, error : BOOLEAN, done : 0..1]

LEMMA LastIsLast ==
    ASSUME FirstOnes, NEW n \in 0..MaxManagers, n = LastManager, MaxManagers \in Nat
    PROVE  \A m \in ManagerIds : managers[m].is # "none" <=> m <= n
<1>1. PICK k \in 0..MaxManagers : \A m \in ManagerIds : managers[m].is # "none" <=> m <= k
  BY DEF FirstOnes
<1>2. {m \in ManagerIds : managers[m].is # "none"} = 1..k
  BY <1>1 DEF ManagerIds
<1>3. Cardinality(1..k) = k
  BY FS_Interval
<1> QED
  BY <1>1, <1>2, <1>3 DEF LastManager

LEMMA LastInRange == ASSUME FirstOnes, MaxManagers \in Nat PROVE LastManager \in 0..MaxManagers
<1>1. PICK k \in 0..MaxManagers : \A m \in ManagerIds : managers[m].is # "none" <=> m <= k
  BY DEF FirstOnes
<1>2. {m \in ManagerIds : managers[m].is # "none"} = 1..k
  BY <1>1 DEF ManagerIds
<1>3. Cardinality(1..k) = k
  BY FS_Interval
<1> QED
  BY <1>2, <1>3 DEF LastManager

\* What becomes of the record of a run is one again.
LEMMA RunFields ==
    ASSUME NEW r \in TurnRun
    PROVE  /\ \A x \in {"idle", "closing", "connecting", "streaming", "ended"} : [r EXCEPT !.pc = x] \in TurnRun
           /\ \A x \in 0..MaxManagers : [r EXCEPT !.mcp = x] \in TurnRun
           /\ \A x \in BOOLEAN : [r EXCEPT !.error = x] \in TurnRun
           /\ \A x \in 0..1 : [r EXCEPT !.done = x] \in TurnRun
  BY DEF TurnRun

LEMMA RunMoved ==
    ASSUME NEW r \in TurnRun, NEW pc \in {"closing", "connecting", "streaming", "ended"}, NEW m \in 0..MaxManagers
    PROVE  [r EXCEPT !.pc = pc, !.mcp = m] \in TurnRun
<1> DEFINE a == [r EXCEPT !.pc = pc]
<1>1. a \in TurnRun
  BY RunFields
<1> HIDE DEF a
<1>2. [a EXCEPT !.mcp = m] \in TurnRun
  BY <1>1, RunFields
<1> QED
  BY <1>2 DEF a

LEMMA RunEnded ==
    ASSUME NEW r \in TurnRun, r.done = 0, 0 \in 0..MaxManagers
    PROVE  /\ [r EXCEPT !.pc = "ended", !.mcp = 0, !.done = r.done + 1] \in TurnRun
           /\ [r EXCEPT !.pc = "ended", !.mcp = 0, !.error = TRUE, !.done = r.done + 1] \in TurnRun
<1> DEFINE a == [r EXCEPT !.pc = "ended", !.mcp = 0]
<1> DEFINE b == [a EXCEPT !.error = TRUE]
<1>1. a \in TurnRun
  BY RunMoved
<1> HIDE DEF a
<1>2. b \in TurnRun
  BY <1>1, RunFields
<1> HIDE DEF b
<1>4. r.done + 1 = 1 /\ 1 \in 0..1
  OBVIOUS
<1>3. [a EXCEPT !.done = 1] \in TurnRun /\ [b EXCEPT !.done = 1] \in TurnRun
  BY <1>1, <1>2, <1>4, RunFields
<1> QED
  BY <1>3, <1>4, Zenon DEF a, b

LEMMA RuntimeInitial == RuntimeInit => RuntimeIInv
<1> SUFFICES ASSUME RuntimeInit PROVE RuntimeIInv
  OBVIOUS
<1>1. /\ managers \in [ManagerIds -> Managers] /\ turnRuns \in [Turns -> TurnRun]
      /\ \A m \in ManagerIds : managers[m].is = "none" /\ ~managers[m].tools
      /\ \A t \in Turns : turnRuns[t].pc = "idle" /\ turnRuns[t].mcp = 0 /\ turnRuns[t].done = 0
  BY RuntimeAssumption DEF RuntimeInit, NoManager, NoRun, Managers, TurnRun
<1>2. RuntimeTypeOK
  BY <1>1, RuntimeAssumption DEF RuntimeInit, RuntimeTypeOK, Managers, TurnRun
<1>3. FirstOnes
  BY <1>1, RuntimeAssumption DEF FirstOnes, ManagerIds
<1> QED
  BY <1>1, <1>2, <1>3
  DEF RuntimeInit, RuntimeIInv, References, Connected, ClosedByShutdown, SaysDone, At, ManagerIds

LEMMA RuntimeStep == RuntimeIInv /\ [RuntimeNext]_runtimeVars => RuntimeIInv'
<1> SUFFICES ASSUME RuntimeIInv, [RuntimeNext]_runtimeVars PROVE RuntimeIInv'
  OBVIOUS
<1> USE RuntimeAssumption
<1>0. /\ RuntimeTypeOK /\ FirstOnes /\ References /\ ClosedByShutdown /\ SaysDone
      /\ managers \in [ManagerIds -> Managers] /\ turnRuns \in [Turns -> TurnRun]
      /\ 0 \in 0..MaxManagers
  BY DEF RuntimeIInv, RuntimeTypeOK, Managers, TurnRun
\* A step of one turn that leaves the managers alone.
<1>a. ASSUME NEW t \in Turns, NEW became \in TurnRun, Become(t, became),
             UNCHANGED <<gatewaySet, shutting, mcp, managers>>,
             Connected(became.mcp), became.pc = "closing" => ~HasTools(became.mcp),
             became.done = IF became.pc = "ended" THEN 1 ELSE 0
      PROVE  RuntimeIInv'
  <2>1. /\ turnRuns' \in [Turns -> TurnRun] /\ turnRuns'[t] = became
        /\ \A u \in Turns : u # t => turnRuns'[u] = turnRuns[u]
    BY <1>a, <1>0 DEF Become
  <2>2. RuntimeTypeOK'
    BY <1>a, <1>0, <2>1 DEF RuntimeTypeOK, TurnRun
  <2>3. FirstOnes' /\ References' /\ SaysDone'
    BY <1>a, <1>0, <2>1 DEF FirstOnes, References, Connected, SaysDone, At
  <2>4. ClosedByShutdown'
    BY <1>a, <1>0, <2>1 DEF ClosedByShutdown, At, HasTools
  <2> QED
    BY <2>2, <2>3, <2>4 DEF RuntimeIInv
\* Closing a manager that has no tools or that shutdown has taken.
<1>b. ASSUME NEW m \in 0..MaxManagers, managers' = Close(m), m # 0 => managers[m].is # "none",
             HasTools(m) => managers[m].outlived
      PROVE  /\ managers' \in [ManagerIds -> Managers] /\ FirstOnes'
             /\ \A k \in ManagerIds : /\ managers'[k].tools = managers[k].tools
                                      /\ managers'[k].outlived = managers[k].outlived
                                      /\ managers'[k].is = "none" <=> managers[k].is = "none"
                                      /\ managers'[k].is = "closed" => managers[k].is = "closed" \/ k = m
  <2>1. CASE m = 0
    BY <1>b, <1>0, <2>1 DEF Close, FirstOnes
  <2>2. CASE m # 0
    <3>1. m \in ManagerIds
      BY <2>2 DEF ManagerIds
    <3>2. managers' = [managers EXCEPT ![m] = [managers[m] EXCEPT !.is = "closed"]]
      BY <1>b, <2>2 DEF Close
    <3>3. [managers[m] EXCEPT !.is = "closed"] \in Managers
      BY <1>0, <3>1 DEF Managers
    <3>4. managers' \in [ManagerIds -> Managers]
      BY <1>0, <3>1, <3>2, <3>3
    <3>5. \A k \in ManagerIds : /\ managers'[k].tools = managers[k].tools
                                /\ managers'[k].outlived = managers[k].outlived
                                /\ managers'[k].is = IF k = m THEN "closed" ELSE managers[k].is
      BY <1>0, <3>1, <3>2 DEF Managers
    <3>6. FirstOnes'
      BY <1>0, <1>b, <2>2, <3>1, <3>5 DEF FirstOnes
    <3> QED
      BY <1>b, <2>2, <3>4, <3>5, <3>6
  <2> QED
    BY <2>1, <2>2
<1>1. ASSUME NEW t \in Turns, Run(t) PROVE RuntimeIInv'
  <2> DEFINE became == CASE ~gatewaySet -> [NoRun EXCEPT !.pc = "ended", !.error = TRUE, !.done = 1]
                      [] gatewaySet /\ HasTools(mcp) -> [NoRun EXCEPT !.pc = "streaming", !.mcp = mcp]
                      [] OTHER -> [NoRun EXCEPT !.pc = IF mcp = 0 THEN "connecting" ELSE "closing", !.mcp = mcp]
  <2>1. Become(t, became) /\ UNCHANGED <<gatewaySet, shutting, mcp, managers>>
    BY <1>1 DEF Run
  <2> HIDE DEF became
  <2>2. /\ became \in TurnRun /\ Connected(became.mcp) /\ (became.pc = "closing" => ~HasTools(became.mcp))
        /\ became.done = IF became.pc = "ended" THEN 1 ELSE 0
    <3>1. NoRun \in TurnRun /\ NoRun.mcp = 0 /\ NoRun.done = 0
      BY <1>0 DEF NoRun, TurnRun
    <3>2. mcp \in 0..MaxManagers /\ Connected(mcp) /\ Connected(0)
      BY <1>0 DEF RuntimeTypeOK, References, Connected, ManagerIds
    <3> HIDE DEF NoRun
    <3>3. CASE ~gatewaySet
      <4> DEFINE a == [NoRun EXCEPT !.pc = "ended"]
      <4> DEFINE b == [a EXCEPT !.error = TRUE]
      <4>1. a \in TurnRun
        BY <3>1, RunFields
      <4> HIDE DEF a
      <4>2. b \in TurnRun
        BY <4>1, RunFields
      <4>3. became = [b EXCEPT !.done = 1]
        BY <3>3 DEF became, a
      <4>4. b.mcp = 0
        BY <3>1, <4>1 DEF a, TurnRun
      <4> HIDE DEF b
      <4>5. became \in TurnRun /\ became.done = 1 /\ became.mcp = 0 /\ became.pc = b.pc
        BY <4>2, <4>3, <4>4, RunFields DEF TurnRun
      <4>6. b.pc = "ended"
        BY <3>1, <4>1 DEF a, b, TurnRun
      <4> QED
        BY <3>2, <4>5, <4>6
    <3>4. CASE gatewaySet /\ HasTools(mcp)
      <4>1. became = [NoRun EXCEPT !.pc = "streaming", !.mcp = mcp]
        BY <3>4 DEF became
      <4> QED
        BY <3>1, <3>2, <4>1, RunMoved DEF TurnRun
    <3>5. CASE gatewaySet /\ ~HasTools(mcp)
      <4>1. became = [NoRun EXCEPT !.pc = IF mcp = 0 THEN "connecting" ELSE "closing", !.mcp = mcp]
        BY <3>5 DEF became
      <4> QED
        BY <3>1, <3>2, <3>5, <4>1, RunMoved DEF TurnRun
    <3> QED
      BY <1>0, <3>3, <3>4, <3>5 DEF RuntimeTypeOK
  <2> QED
    BY <1>a, <2>1, <2>2 DEF became
<1>2. ASSUME NEW t \in Turns, CloseStale(t) PROVE RuntimeIInv'
  <2> DEFINE became == [turnRuns[t] EXCEPT !.pc = "connecting", !.mcp = 0]
  <2> DEFINE m == turnRuns[t].mcp
  <2>1. /\ managers' = Close(m) /\ turnRuns' = [turnRuns EXCEPT ![t] = became]
        /\ turnRuns[t].pc = "closing" /\ UNCHANGED <<gatewaySet, shutting, mcp>>
    BY <1>2 DEF CloseStale, StaleManager, Become, At
  <2>2. m \in 0..MaxManagers /\ ~HasTools(m) /\ (m # 0 => managers[m].is # "none")
    BY <1>0, <2>1 DEF ClosedByShutdown, References, Connected, TurnRun, At, ManagerIds
  <2>3. /\ managers' \in [ManagerIds -> Managers] /\ FirstOnes'
        /\ \A k \in ManagerIds : /\ managers'[k].tools = managers[k].tools
                                 /\ managers'[k].outlived = managers[k].outlived
                                 /\ managers'[k].is = "none" <=> managers[k].is = "none"
                                 /\ managers'[k].is = "closed" => managers[k].is = "closed" \/ k = m
    BY <1>b, <2>1, <2>2
  <2>9. turnRuns[t] \in TurnRun /\ turnRuns[t].done = 0
    BY <1>0, <2>1 DEF SaysDone, At
  <2>4. became \in TurnRun /\ became.pc = "connecting" /\ became.mcp = 0 /\ became.done = 0
    <3>1. became \in TurnRun
      BY <1>0, <2>9, RunMoved
    <3> QED
      BY <2>9, <3>1 DEF TurnRun
  <2> HIDE DEF became
  <2>5. /\ turnRuns' \in [Turns -> TurnRun] /\ turnRuns'[t] = became
        /\ \A u \in Turns : u # t => turnRuns'[u] = turnRuns[u]
    BY <1>0, <2>1, <2>4
  <2>6. RuntimeTypeOK'
    BY <1>0, <2>1, <2>3, <2>5 DEF RuntimeTypeOK, TurnRun, Managers
  <2>7. References' /\ SaysDone'
    BY <1>0, <2>1, <2>3, <2>4, <2>5 DEF References, Connected, SaysDone, At, ManagerIds
  <2>8. ClosedByShutdown'
    <3>1. \A k \in ManagerIds : /\ managers'[k].is = "none" => ~managers'[k].tools
                                /\ (managers'[k].is = "closed" /\ managers'[k].tools) => managers'[k].outlived
      BY <1>0, <2>2, <2>3 DEF ClosedByShutdown, HasTools, ManagerIds
    <3>2. shutting' # 0 => managers'[shutting'].outlived
      BY <1>0, <2>1, <2>3 DEF ClosedByShutdown, RuntimeTypeOK, ManagerIds
    <3>3. \A u \in Turns : At(u, "closing")' => ~HasTools(turnRuns[u].mcp)'
      <4> SUFFICES ASSUME NEW u \in Turns, turnRuns'[u].pc = "closing" 
                   PROVE turnRuns'[u].mcp # 0 => ~managers'[turnRuns'[u].mcp].tools
        BY DEF At, HasTools
      <4>1. u # t /\ turnRuns'[u] = turnRuns[u] /\ turnRuns[u] \in TurnRun
        BY <1>0, <2>3, <2>4, <2>5
      <4>2. turnRuns[u].mcp \in 0..MaxManagers /\ ~HasTools(turnRuns[u].mcp)
        BY <1>0, <4>1 DEF ClosedByShutdown, At, TurnRun
      <4> QED
        BY <1>0, <4>1, <4>2, <2>3, <2>4, <2>5 DEF HasTools, References, Connected, ManagerIds
    <3> QED
      BY <3>1, <3>2, <3>3 DEF ClosedByShutdown
  <2> QED
    BY <2>3, <2>6, <2>7, <2>8 DEF RuntimeIInv
<1>3. ASSUME NEW t \in Turns, ConnectManager(t) PROVE RuntimeIInv'
  <2> DEFINE n == LastManager + 1
  <2> DEFINE became == [turnRuns[t] EXCEPT !.pc = "streaming", !.mcp = n]
  <2>1. PICK tools \in BOOLEAN :
            managers' = [managers EXCEPT ![n] = [is |-> "open", tools |-> tools, outlived |-> FALSE]]
    BY <1>3 DEF ConnectManager
  <2> DEFINE new == [is |-> "open", tools |-> tools, outlived |-> FALSE]
  <2>2. /\ mcp' = n /\ turnRuns' = [turnRuns EXCEPT ![t] = became] /\ turnRuns[t].pc = "connecting"
        /\ UNCHANGED <<gatewaySet, shutting>> /\ LastManager < MaxManagers
    BY <1>3 DEF ConnectManager, Become, At
  <2>3. LastManager \in 0..MaxManagers /\ \A m \in ManagerIds : managers[m].is # "none" <=> m <= LastManager
    BY <1>0, LastInRange, LastIsLast
  <2>4. n \in ManagerIds /\ managers[n].is = "none" /\ n \in 1..MaxManagers
    BY <2>2, <2>3 DEF ManagerIds
  <2>13. turnRuns[t] \in TurnRun /\ turnRuns[t].done = 0
    BY <1>0, <2>2 DEF SaysDone, At
  <2>14. n \in 0..MaxManagers
    BY <2>4
  <2> HIDE DEF n
  <2>5. became \in TurnRun /\ became.pc = "streaming" /\ became.mcp = n /\ became.done = 0
    <3>1. became \in TurnRun
      BY <2>13, <2>14, RunMoved
    <3> QED
      BY <2>13, <3>1 DEF TurnRun
  <2>6. new \in Managers /\ new.is = "open" /\ ~new.outlived
    BY DEF Managers
  <2>11. \A m \in ManagerIds : m <= n <=> (m <= LastManager \/ m = n)
    BY <2>3 DEF ManagerIds, n
  <2> HIDE DEF n, became, new
  <2>7. /\ turnRuns' \in [Turns -> TurnRun] /\ turnRuns'[t] = became
        /\ \A u \in Turns : u # t => turnRuns'[u] = turnRuns[u]
        /\ managers' \in [ManagerIds -> Managers] /\ managers'[n] = new
        /\ \A m \in ManagerIds : m # n => managers'[m] = managers[m]
    BY <1>0, <2>1, <2>2, <2>4, <2>5, <2>6 DEF new
  <2>8. RuntimeTypeOK'
    BY <1>0, <2>2, <2>4, <2>7 DEF RuntimeTypeOK, TurnRun, Managers
  <2>9. FirstOnes'
    <3>1. \A m \in ManagerIds : managers'[m].is # "none" <=> m <= n
      BY <2>3, <2>4, <2>6, <2>7, <2>11
    <3> QED
      BY <2>14, <3>1 DEF FirstOnes
  <2>10. References' /\ SaysDone'
    BY <1>0, <2>2, <2>4, <2>5, <2>6, <2>7 DEF References, Connected, SaysDone, At
  <2>12. ClosedByShutdown'
    <3>1. \A k \in ManagerIds : /\ managers'[k].is = "none" => ~managers'[k].tools
                                /\ (managers'[k].is = "closed" /\ managers'[k].tools) => managers'[k].outlived
      BY <1>0, <2>6, <2>7 DEF ClosedByShutdown
    <3>2. shutting' # 0 => managers'[shutting'].outlived
      BY <1>0, <2>2, <2>4, <2>7 DEF ClosedByShutdown, RuntimeTypeOK, References, Connected, ManagerIds
    <3>3. \A u \in Turns : At(u, "closing")' => ~HasTools(turnRuns[u].mcp)'
      <4> SUFFICES ASSUME NEW u \in Turns, turnRuns'[u].pc = "closing" 
                   PROVE turnRuns'[u].mcp # 0 => ~managers'[turnRuns'[u].mcp].tools
        BY DEF At, HasTools
      <4>1. u # t /\ turnRuns'[u] = turnRuns[u] /\ turnRuns[u] \in TurnRun
        BY <1>0, <2>4, <2>5, <2>7
      <4>2. turnRuns[u].mcp \in 0..MaxManagers /\ ~HasTools(turnRuns[u].mcp)
        BY <1>0, <4>1 DEF ClosedByShutdown, At, TurnRun
      <4> QED
        BY <1>0, <4>1, <4>2, <2>4, <2>5, <2>7 DEF HasTools, References, Connected, ManagerIds
    <3> QED
      BY <3>1, <3>2, <3>3 DEF ClosedByShutdown
  <2> QED
    BY <2>8, <2>9, <2>10, <2>12 DEF RuntimeIInv
<1>4. ASSUME NEW t \in Turns, EngineEvent(t) PROVE RuntimeIInv'
  <2>1. PICK e \in BOOLEAN : Become(t, [turnRuns[t] EXCEPT !.error = turnRuns[t].error \/ e])
    BY <1>4 DEF EngineEvent
  <2> DEFINE became == [turnRuns[t] EXCEPT !.error = turnRuns[t].error \/ e]
  <2>3. /\ turnRuns[t] \in TurnRun /\ turnRuns[t].pc = "streaming" /\ turnRuns[t].done = 0
        /\ Connected(turnRuns[t].mcp)
    BY <1>0, <1>4 DEF EngineEvent, At, References, SaysDone
  <2>2. /\ became \in TurnRun /\ Connected(became.mcp) /\ became.pc = "streaming" /\ became.done = 0
    BY <2>3 DEF TurnRun
  <2>4. Become(t, became) /\ UNCHANGED <<gatewaySet, shutting, mcp, managers>>
    BY <1>4, <2>1 DEF EngineEvent
  <2> HIDE DEF became
  <2> QED
    BY <1>a, <2>2, <2>4
<1>5. ASSUME NEW t \in Turns, EngineEnds(t) PROVE RuntimeIInv'
  <2> DEFINE became == [turnRuns[t] EXCEPT !.pc = "ended", !.mcp = 0, !.done = turnRuns[t].done + 1]
  <2>1. turnRuns[t] \in TurnRun /\ turnRuns[t].done = 0 /\ Connected(0) /\ 0 \in 0..MaxManagers
    BY <1>0, <1>5 DEF EngineEnds, At, SaysDone, Connected, ManagerIds
  <2>2. became \in TurnRun /\ Connected(became.mcp) /\ became.pc = "ended" /\ became.done = 1
    <3>1. became \in TurnRun
      BY <2>1, RunEnded
    <3> QED
      BY <2>1, <3>1 DEF TurnRun
  <2> HIDE DEF became
  <2> QED
    BY <1>a, <1>5, <2>2 DEF EngineEnds, became
<1>6. ASSUME NEW t \in Turns, RunRaises(t) PROVE RuntimeIInv'
  <2> DEFINE became == [turnRuns[t] EXCEPT !.pc = "ended", !.mcp = 0, !.error = TRUE, !.done = turnRuns[t].done + 1]
  <2>1. turnRuns[t] \in TurnRun /\ turnRuns[t].done = 0 /\ Connected(0) /\ 0 \in 0..MaxManagers
    BY <1>0, <1>6 DEF RunRaises, At, SaysDone, Connected, ManagerIds
  <2>2. became \in TurnRun /\ Connected(became.mcp) /\ became.pc = "ended" /\ became.done = 1
    <3>1. became \in TurnRun
      BY <2>1, RunEnded
    <3> QED
      BY <2>1, <3>1 DEF TurnRun
  <2> HIDE DEF became
  <2> QED
    BY <1>a, <1>6, <2>2 DEF RunRaises, became
<1>7. ASSUME NEW t \in Turns, DropRun(t) PROVE RuntimeIInv'
  <2>1. NoRun \in TurnRun /\ Connected(NoRun.mcp) /\ NoRun.pc = "idle" /\ NoRun.done = 0
    BY DEF NoRun, TurnRun, Connected, ManagerIds
  <2> QED
    BY <1>a, <1>7, <2>1 DEF DropRun
<1>8. CASE Shutdown
  <2> DEFINE new == [managers[mcp] EXCEPT !.outlived = TRUE]
  <2>1. /\ mcp \in ManagerIds /\ shutting' = mcp /\ managers' = [managers EXCEPT ![mcp] = new]
        /\ UNCHANGED <<gatewaySet, mcp, turnRuns>>
    BY <1>0, <1>8 DEF Shutdown, RuntimeTypeOK, ManagerIds
  <2>2. /\ new \in Managers /\ new.is = managers[mcp].is /\ new.tools = managers[mcp].tools
        /\ new.outlived = TRUE
    BY <1>0, <2>1 DEF Managers
  <2> HIDE DEF new
  <2>3. /\ managers' \in [ManagerIds -> Managers] /\ managers'[mcp] = new
        /\ \A m \in ManagerIds : m # mcp => managers'[m] = managers[m]
    BY <1>0, <2>1, <2>2
  <2>4. RuntimeTypeOK'
    BY <1>0, <2>1, <2>3 DEF RuntimeTypeOK, Managers
  <2>5. FirstOnes' /\ References' /\ SaysDone'
    BY <1>0, <2>1, <2>2, <2>3 DEF FirstOnes, References, Connected, SaysDone, At
  <2>6. ClosedByShutdown'
    BY <1>0, <2>1, <2>2, <2>3 DEF ClosedByShutdown, At, HasTools, TurnRun, ManagerIds
  <2> QED
    BY <2>4, <2>5, <2>6 DEF RuntimeIInv
<1>9. CASE ShutDown
  <2>1. /\ shutting \in ManagerIds /\ shutting' = 0 /\ managers' = Close(shutting) /\ mcp' = 0
        /\ UNCHANGED <<gatewaySet, turnRuns>>
    BY <1>0, <1>9 DEF ShutDown, RuntimeTypeOK, ManagerIds
  <2>2. shutting \in 0..MaxManagers /\ managers[shutting].outlived /\ managers[shutting].is # "none"
    BY <1>0, <2>1 DEF RuntimeTypeOK, ClosedByShutdown, References, Connected, ManagerIds
  <2>3. /\ managers' \in [ManagerIds -> Managers] /\ FirstOnes'
        /\ \A k \in ManagerIds : /\ managers'[k].tools = managers[k].tools
                                 /\ managers'[k].outlived = managers[k].outlived
                                 /\ managers'[k].is = "none" <=> managers[k].is = "none"
                                 /\ managers'[k].is = "closed" => managers[k].is = "closed" \/ k = shutting
    BY <1>b, <2>1, <2>2
  <2>4. RuntimeTypeOK'
    BY <1>0, <2>1, <2>3 DEF RuntimeTypeOK, Managers
  <2>5. References' /\ SaysDone'
    BY <1>0, <2>1, <2>3 DEF References, Connected, SaysDone, At, ManagerIds
  <2>6. ClosedByShutdown'
    <3>1. \A k \in ManagerIds : /\ managers'[k].is = "none" => ~managers'[k].tools
                                /\ (managers'[k].is = "closed" /\ managers'[k].tools) => managers'[k].outlived
      BY <1>0, <2>2, <2>3 DEF ClosedByShutdown
    <3>2. \A u \in Turns : At(u, "closing") => ~HasTools(turnRuns[u].mcp)'
      BY <1>0, <2>1, <2>3 DEF ClosedByShutdown, HasTools, TurnRun, ManagerIds
    <3> QED
      BY <2>1, <3>1, <3>2 DEF ClosedByShutdown, At
  <2> QED
    BY <2>3, <2>4, <2>5, <2>6 DEF RuntimeIInv
<1>11. ASSUME NEW t \in Turns, RunRefused(t) PROVE RuntimeIInv'
  <2>1. NoRun \in TurnRun /\ Connected(NoRun.mcp) /\ NoRun.pc = "idle" /\ NoRun.done = 0
    BY DEF NoRun, TurnRun, Connected, ManagerIds
  <2> QED
    BY <1>a, <1>11, <2>1 DEF RunRefused
<1>12. CASE WireManager
  <2> DEFINE n == LastManager + 1
  <2>1. PICK tools \in BOOLEAN :
            managers' = [managers EXCEPT ![n] = [is |-> "open", tools |-> tools, outlived |-> FALSE]]
    BY <1>12 DEF WireManager
  <2> DEFINE new == [is |-> "open", tools |-> tools, outlived |-> FALSE]
  <2>2. mcp' = n /\ UNCHANGED <<gatewaySet, shutting, turnRuns>> /\ LastManager < MaxManagers
    BY <1>12 DEF WireManager
  <2>3. LastManager \in 0..MaxManagers /\ \A m \in ManagerIds : managers[m].is # "none" <=> m <= LastManager
    BY <1>0, LastInRange, LastIsLast
  <2>4. n \in ManagerIds /\ managers[n].is = "none" /\ n \in 1..MaxManagers /\ n \in 0..MaxManagers
    BY <2>2, <2>3 DEF ManagerIds
  <2>5. \A m \in ManagerIds : m <= n <=> (m <= LastManager \/ m = n)
    BY <2>3 DEF ManagerIds
  <2>6. new \in Managers /\ new.is = "open" /\ ~new.outlived
    BY DEF Managers
  <2> HIDE DEF n, new
  <2>7. /\ managers' \in [ManagerIds -> Managers] /\ managers'[n] = new
        /\ \A m \in ManagerIds : m # n => managers'[m] = managers[m]
    BY <1>0, <2>1, <2>4, <2>6 DEF new
  <2>8. RuntimeTypeOK'
    BY <1>0, <2>2, <2>4, <2>7 DEF RuntimeTypeOK, TurnRun, Managers
  <2>9. FirstOnes'
    <3>1. \A m \in ManagerIds : managers'[m].is # "none" <=> m <= n
      BY <2>3, <2>4, <2>5, <2>6, <2>7
    <3> QED
      BY <2>4, <3>1 DEF FirstOnes
  <2>10. References' /\ SaysDone'
    BY <1>0, <2>2, <2>4, <2>6, <2>7 DEF References, Connected, SaysDone, At
  <2>11. ClosedByShutdown'
    <3>1. \A k \in ManagerIds : /\ managers'[k].is = "none" => ~managers'[k].tools
                                /\ (managers'[k].is = "closed" /\ managers'[k].tools) => managers'[k].outlived
      BY <1>0, <2>6, <2>7 DEF ClosedByShutdown
    <3>2. shutting' # 0 => managers'[shutting'].outlived
      BY <1>0, <2>2, <2>4, <2>7 DEF ClosedByShutdown, RuntimeTypeOK, References, Connected, ManagerIds
    <3>3. ASSUME NEW u \in Turns, turnRuns[u].pc = "closing", turnRuns[u].mcp # 0
          PROVE  ~managers'[turnRuns[u].mcp].tools
      <4>1. turnRuns[u].mcp \in ManagerIds /\ ~managers[turnRuns[u].mcp].tools /\ managers[turnRuns[u].mcp].is # "none"
        BY <1>0, <3>3 DEF ClosedByShutdown, References, Connected, At, HasTools, TurnRun, ManagerIds
      <4> QED
        BY <2>4, <2>7, <4>1
    <3>4. \A u \in Turns : At(u, "closing")' => ~HasTools(turnRuns[u].mcp)'
      BY <2>2, <3>3 DEF At, HasTools
    <3> QED
      BY <3>1, <3>2, <3>4 DEF ClosedByShutdown
  <2> QED
    BY <2>8, <2>9, <2>10, <2>11 DEF RuntimeIInv
<1>10. CASE UNCHANGED runtimeVars
  BY <1>0, <1>10 DEF runtimeVars, RuntimeIInv, RuntimeTypeOK, FirstOnes, References, Connected,
                     ClosedByShutdown, SaysDone, At, HasTools
<1> QED
  BY <1>1, <1>2, <1>3, <1>4, <1>5, <1>6, <1>7, <1>8, <1>9, <1>10, <1>11, <1>12 DEF RuntimeNext

\* For any number of turns and managers: no turn takes the tools of another away, and
\* each run that came as far as the MCP manager said done once (runtime/openharness.py).
THEOREM ToolsKept == RuntimeSpec => []ToolsStayOpen
<1>1. RuntimeIInv => ToolsStayOpen
  BY DEF RuntimeIInv, RuntimeTypeOK, ClosedByShutdown, SaysDone, ToolsStayOpen, HasTools, At, ManagerIds
<1> QED
  BY <1>1, RuntimeInitial, RuntimeStep, PTL DEF RuntimeSpec

-----------------------------------------------------------------------------
(* The memories of a turn.                                                 *)

\* A finite set of numbers has a greatest one: the least counterexample, in the strict
\* subset ordering, would have one without an element of it.
LEMMA GreatestOf ==
    ASSUME NEW S \in SUBSET Nat, IsFiniteSet(S), S # {}
    PROVE  \E x \in S : \A y \in S : x >= y
<1> DEFINE Bad == {U \in FiniteSubsetsOf(S) : U # {} /\ ~ \E x \in U : \A y \in U : x >= y}
<1>1. CASE Bad = {}
  <2>1. S \in FiniteSubsetsOf(S)
    BY DEF FiniteSubsetsOf
  <2> QED
    BY <1>1, <2>1
<1>2. CASE Bad # {}
  <2>1. IsWellFoundedOn(StrictSubsetOrdering(S), FiniteSubsetsOf(S))
    BY FS_StrictSubsetOrderingWellFounded
  <2>2. PICK U \in Bad : \A V \in Bad : ~ (<<V, U>> \in StrictSubsetOrdering(S))
    <3> HIDE DEF Bad
    <3>1. Bad \subseteq FiniteSubsetsOf(S)
      BY DEF Bad
    <3> QED
      BY <1>2, <2>1, <3>1, WFMin
  <2>3. U \in SUBSET S /\ IsFiniteSet(U) /\ U # {}
    BY DEF FiniteSubsetsOf
  <2>4. PICK x \in U : TRUE
    BY <2>3
  <2> DEFINE V == U \ {x}
  <2>5. V \in FiniteSubsetsOf(S) /\ <<V, U>> \in StrictSubsetOrdering(S)
    BY <2>3, <2>4, FS_RemoveElement DEF FiniteSubsetsOf, StrictSubsetOrdering
  <2>6. V = {} \/ \E m \in V : \A y \in V : m >= y
    BY <2>2, <2>5
  <2>7. \E m \in U : \A y \in U : m >= y
    <3>1. CASE V = {}
      BY <2>3, <2>4, <3>1
    <3>2. ASSUME NEW m \in V, \A y \in V : m >= y PROVE \E n \in U : \A y \in U : n >= y
      <4>1. CASE m >= x
        BY <2>3, <2>4, <3>2, <4>1
      <4>2. CASE x >= m
        BY <2>3, <2>4, <3>2, <4>2
      <4> QED
        BY <2>3, <2>4, <4>1, <4>2
    <3> QED
      BY <2>6, <3>1, <3>2
  <2> QED
    BY <2>2, <2>7
<1> QED
  BY <1>1, <1>2

LEMMA MaxIsGreatest ==
    ASSUME NEW S \in SUBSET Nat, IsFiniteSet(S), S # {}
    PROVE  Max(S) \in S /\ \A y \in S : y <= Max(S)
  BY GreatestOf DEF Max

FileState == [ver : Nat, mtime : Nat]
RunState == [pc : {"idle", "reading", "lookup", "users", "sessions", "running", "extracting"},
             todo : SUBSET Files, seen : SUBSET Files, content : [Files -> Nat],
             found : BOOLEAN, full : BOOLEAN]

\* What is told of a file whose reading may have failed.
ReadAs(f) == IF f \in unread THEN 0 ELSE disk[f].ver
CacheState == [is : BOOLEAN, content : [Files -> Nat], mtime : Nat]

\* What is gone has no mtime, and no mtime is later than the last write.
DiskFits == \A f \in Files : disk[f].mtime <= MaxWrites /\ (disk[f].ver = 0 => disk[f].mtime = 0)

\* A text that a file no longer has shows in its mtime ...
CacheFits == cache.is /\ ~hidden =>
    \A f \in Files : cache.content[f] = ReadAs(f) \/ disk[f].mtime > cache.mtime

\* ... and what a load has read is what the files still hold.
LoadFits == run.pc = "reading" /\ ~hidden =>
    \A f \in Files \ run.todo : run.content[f] = ReadAs(f)

\* Only a load reads, and what it has not come to has no text so far.
ReadFits == run.pc = "reading" =>
    ~cache.is /\ unread \intersect run.todo = {} /\ \A f \in run.todo : run.content[f] = 0

\* A memory that a lookup has missed is the user's by now; one that is due and that the
\* first search has not found, is found by the second or was promoted in between.
LookupFits ==
    /\ missed <= 1 /\ (missed = 1 => place = "user")
    /\ due => run.pc \in {"users", "sessions", "running"} /\ place \in {"user", "session"}
    /\ due /\ run.pc = "sessions" => run.found \/ run.full \/ place = "session" \/ missed = 0

InjectorIInv == InjectorTypeOK /\ DiskFits /\ CacheFits /\ LoadFits /\ ReadFits /\ LookupFits

LEMMA InjectorValues ==
    /\ Missing \in FileState /\ Missing.ver = 0 /\ Missing.mtime = 0
    /\ NoText \in [Files -> Nat] /\ (\A f \in Files : NoText[f] = 0)
    /\ NotCached \in CacheState /\ ~NotCached.is
    /\ IdleRun \in RunState /\ IdleRun.pc = "idle" /\ IdleRun.content = NoText
  BY DEF Missing, NoText, NotCached, IdleRun, FileState, CacheState, RunState

LEMMA LatestOf ==
    ASSUME NEW fs \in SUBSET Files, disk \in [Files -> FileState], DiskFits
    PROVE  LatestChange(fs) \in Nat /\ \A f \in fs : disk[f].mtime <= LatestChange(fs)
<1> DEFINE S == {0} \union {disk[f].mtime : f \in fs}
<1>1. S \in SUBSET Nat /\ S # {} /\ \A x \in S : x <= MaxWrites
  BY InjectorAssumption DEF FileState, DiskFits
<1>2. IsFiniteSet(S)
  BY <1>1, InjectorAssumption, FS_BoundedSetOfNaturals
<1>3. Max(S) \in S /\ \A y \in S : y <= Max(S)
  BY <1>1, <1>2, MaxIsGreatest
<1>4. LatestChange(fs) = Max(S)
  BY DEF LatestChange
<1> HIDE DEF S
<1>5. \A f \in fs : disk[f].mtime \in S
  BY DEF S
<1> QED
  BY <1>1, <1>3, <1>4, <1>5

LEMMA CutOf ==
    ASSUME NEW hit \in BOOLEAN, NEW c \in Cut(hit)
    PROVE  c.found \in BOOLEAN /\ c.full \in BOOLEAN /\ (hit => c.found \/ c.full)
<1>1. CASE c = [found |-> hit, full |-> FALSE]
  <2>1. c.found = hit /\ c.full = FALSE
    BY <1>1
  <2> QED
    BY <2>1, Zenon
<1>2. CASE c = [found |-> FALSE, full |-> TRUE]
  <2>1. c.found = FALSE /\ c.full = TRUE
    BY <1>2
  <2> QED
    BY <2>1, Zenon
<1> QED
  BY <1>1, <1>2 DEF Cut

LEMMA InjectorTypes ==
    InjectorTypeOK <=>
        /\ disk \in [Files -> FileState] /\ writes \in 0..MaxWrites /\ cache \in CacheState /\ run \in RunState
        /\ place \in {"none", "other", "session", "user"}
        /\ hidden \in BOOLEAN /\ unread \subseteq Files /\ due \in BOOLEAN /\ missed \in 0..2
  BY DEF InjectorTypeOK, FileState, CacheState, RunState

LEMMA InjectorInitial == InjectorInit => InjectorIInv
<1> SUFFICES ASSUME InjectorInit PROVE InjectorIInv
  OBVIOUS
<1>1. /\ disk \in [Files -> FileState] /\ (\A f \in Files : disk[f] = Missing) /\ writes = 0
      /\ cache = NotCached /\ run = IdleRun /\ place = "none"
      /\ hidden = FALSE /\ unread = {} /\ due = FALSE /\ missed = 0
  BY InjectorValues DEF InjectorInit
<1>2. InjectorTypeOK
  <2>1. hidden \in BOOLEAN /\ due \in BOOLEAN
    BY <1>1
  <2>2. writes \in 0..MaxWrites /\ missed \in 0..2 /\ unread \subseteq Files
    BY <1>1, InjectorAssumption
  <2> QED
    BY <1>1, <2>1, <2>2, InjectorValues, InjectorTypes
<1>3. DiskFits
  BY <1>1, InjectorValues, InjectorAssumption DEF DiskFits
<1> QED
  BY <1>1, <1>2, <1>3, InjectorValues DEF InjectorIInv, CacheFits, LoadFits, ReadFits, LookupFits

LEMMA InjectorStep == InjectorIInv /\ [InjectorNext]_injectorVars => InjectorIInv'
<1> SUFFICES ASSUME InjectorIInv, [InjectorNext]_injectorVars PROVE InjectorIInv'
  OBVIOUS
<1>0. /\ disk \in [Files -> FileState] /\ writes \in 0..MaxWrites /\ cache \in CacheState /\ run \in RunState
      /\ place \in {"none", "other", "session", "user"}
      /\ hidden \in BOOLEAN /\ unread \subseteq Files /\ due \in BOOLEAN /\ missed \in 0..2
      /\ DiskFits /\ CacheFits /\ LoadFits /\ ReadFits /\ LookupFits
  BY InjectorTypes DEF InjectorIInv
<1>m. MaxWrites \in Nat /\ OnDisk \subseteq Files
  BY InjectorAssumption DEF OnDisk
\* A step that leaves the files and the cache alone, of a run that is not reading.
<1>a. ASSUME UNCHANGED <<disk, writes, cache, hidden, unread>>, run' \in RunState, run'.pc # "reading",
             place' \in {"none", "other", "session", "user"}, due' \in BOOLEAN, missed' \in 0..2, LookupFits'
      PROVE  InjectorIInv'
  <2>1. DiskFits' /\ CacheFits' /\ LoadFits' /\ ReadFits'
    BY <1>0, <1>a DEF DiskFits, CacheFits, LoadFits, ReadFits, ReadAs
  <2> QED
    BY <1>0, <1>a, <2>1 DEF InjectorIInv, InjectorTypeOK, FileState, CacheState, RunState
\* A step of a run that is not looking anything up leaves the lookup's history alone.
<1>b. ASSUME run.pc \notin {"users", "sessions", "running"}, UNCHANGED <<place, due, missed>>
      PROVE  LookupFits'
  BY <1>0, <1>b DEF LookupFits
<1>1. ASSUME NEW f \in Files, ChangeFile(f) PROVE InjectorIInv'
  <2>1. /\ UNCHANGED <<cache, run, place, unread, due, missed>>
        /\ hidden' = (hidden \/ disk'[f].mtime <= cache.mtime \/ (run.pc = "reading" /\ f \notin run.todo))
    BY <1>1 DEF ChangeFile
  <2>2. /\ writes' \in 0..MaxWrites /\ disk' \in [Files -> FileState] /\ disk'[f].mtime <= MaxWrites
        /\ (disk'[f].ver = 0 => disk'[f].mtime = 0) /\ \A g \in Files \ {f} : disk'[g] = disk[g]
    <3>1. CASE writes < MaxWrites /\ writes' = writes + 1
      <4>1. PICK t \in 1..(writes + 1) : disk' = [disk EXCEPT ![f] = [ver |-> writes + 1, mtime |-> t]]
        BY <1>0, <1>1, <3>1 DEF ChangeFile
      <4>2. [ver |-> writes + 1, mtime |-> t] \in FileState
        BY <1>0, <1>m, <3>1 DEF FileState
      <4>3. disk'[f] = [ver |-> writes + 1, mtime |-> t]
        BY <1>0, <4>1
      <4>4. writes + 1 # 0 /\ t <= MaxWrites
        BY <1>0, <1>m, <3>1
      <4> QED
        BY <1>0, <1>m, <3>1, <4>1, <4>2, <4>3, <4>4
    <3>2. CASE disk' = [disk EXCEPT ![f] = Missing] /\ writes' = writes
      BY <1>0, <1>m, <3>2, InjectorValues
    <3> QED
      BY <1>1, <3>1, <3>2 DEF ChangeFile
  <2>3. DiskFits'
    BY <1>0, <2>2 DEF DiskFits
  <2>4. CacheFits'
    <3> SUFFICES ASSUME cache.is, ~hidden', NEW g \in Files
                 PROVE  cache.content[g] = ReadAs(g)' \/ disk'[g].mtime > cache.mtime
      BY <2>1 DEF CacheFits
    <3>1. CASE g = f
      BY <1>0, <2>1, <2>2, <3>1 DEF FileState, CacheState
    <3>2. CASE g # f
      BY <1>0, <2>1, <2>2, <3>2 DEF CacheFits, ReadAs
    <3> QED
      BY <3>1, <3>2
  <2>5. LoadFits' /\ ReadFits' /\ LookupFits'
    BY <1>0, <2>1, <2>2 DEF LoadFits, ReadFits, ReadAs, LookupFits
  <2>6. hidden' \in BOOLEAN
    BY <2>1
  <2> QED
    BY <1>0, <2>1, <2>2, <2>3, <2>4, <2>5, <2>6
       DEF InjectorIInv, InjectorTypeOK, FileState, CacheState, RunState
<1>2. ASSUME NEW f \in Files, ReadFile(f) PROVE InjectorIInv'
  <2> DEFINE u == [run EXCEPT !.todo = @ \ {f}]
             r == [run EXCEPT !.todo = @ \ {f}, !.content[f] = disk[f].ver]
  <2>1. /\ run.pc = "reading" /\ f \in run.todo
        /\ (run' = r /\ UNCHANGED unread) \/ (run' = u /\ unread' = unread \union {f})
        /\ UNCHANGED <<disk, writes, cache, place, hidden, due, missed>>
    BY <1>2 DEF ReadFile
  <2>2. disk[f].ver \in Nat
    BY <1>0 DEF FileState
  <2>3. u \in RunState /\ u.pc = run.pc /\ u.todo = run.todo \ {f} /\ u.content = run.content
    BY <1>0 DEF RunState
  <2>r. r = [u EXCEPT !.content[f] = disk[f].ver]
    BY Zenon
  <2> HIDE DEF u, r
  <2>4. r \in RunState /\ r.pc = run.pc /\ r.todo = run.todo \ {f}
        /\ r.content = [run.content EXCEPT ![f] = disk[f].ver]
    BY <1>0, <2>2, <2>3, <2>r DEF RunState
  <2>5. run.content \in [Files -> Nat] /\ run.content[f] = 0 /\ f \notin unread
    BY <1>0, <2>1 DEF RunState, ReadFits
  <2>6. /\ run' \in RunState /\ run'.pc = "reading" /\ run'.todo = run.todo \ {f}
        /\ \A g \in Files \ {f} : run'.content[g] = run.content[g] /\ ReadAs(g)' = ReadAs(g)
        /\ run'.content[f] = ReadAs(f)' /\ unread' \subseteq Files
    <3>1. CASE run' = r /\ UNCHANGED unread
      BY <1>0, <2>1, <2>4, <2>5, <3>1 DEF ReadAs
    <3>2. CASE run' = u /\ unread' = unread \union {f}
      BY <1>0, <2>1, <2>3, <2>5, <3>2 DEF ReadAs
    <3> QED
      BY <2>1, <3>1, <3>2
  <2>7. LoadFits'
    <3> SUFFICES ASSUME ~hidden', NEW g \in Files \ run'.todo PROVE run'.content[g] = ReadAs(g)'
      BY DEF LoadFits
    <3> QED
      BY <1>0, <2>1, <2>6 DEF LoadFits
  <2>8. ReadFits'
    BY <1>0, <2>1, <2>6 DEF ReadFits, RunState
  <2>9. ~cache.is
    BY <1>0, <2>1 DEF ReadFits
  <2>10. DiskFits' /\ CacheFits' /\ LookupFits'
    BY <1>0, <1>b, <2>1, <2>9 DEF DiskFits, CacheFits
  <2> QED
    BY <1>0, <2>1, <2>6, <2>7, <2>8, <2>10 DEF InjectorIInv, InjectorTypeOK, FileState, CacheState, RunState
<1>3. CASE InvalidateStatic
  BY <1>0, <1>3, InjectorValues DEF InvalidateStatic, ForgetCache, InjectorIInv, InjectorTypeOK, DiskFits, CacheFits,
        LoadFits, ReadFits, LookupFits, FileState, CacheState, RunState
<1>4. CASE BeforeAgentRun
  <2>0. /\ run.pc = "idle" /\ LookupFits' /\ UNCHANGED <<disk, writes, place, due, missed>>
    BY <1>0, <1>4, <1>b DEF BeforeAgentRun, RunState
  <2>1. CASE run' = [IdleRun EXCEPT !.pc = "lookup"] /\ UNCHANGED <<cache, hidden, unread>>
    <3>1. run' \in RunState /\ run'.pc = "lookup"
      BY <2>1, InjectorValues DEF RunState
    <3> QED
      BY <1>0, <1>a, <2>0, <2>1, <3>1
  <2>2. CASE run' = [IdleRun EXCEPT !.pc = "lookup", !.content = cache.content] /\ UNCHANGED <<cache, hidden, unread>>
    <3>1. run' \in RunState /\ run'.pc = "lookup"
      BY <1>0, <2>2, InjectorValues DEF RunState, CacheState
    <3> QED
      BY <1>0, <1>a, <2>0, <2>2, <3>1
  <2>3. CASE /\ ForgetCache
             /\ run' = [IdleRun EXCEPT !.pc = "reading", !.todo = OnDisk, !.seen = OnDisk]
    <3>1. run' = [pc |-> "reading", todo |-> OnDisk, seen |-> OnDisk, content |-> NoText,
                  found |-> FALSE, full |-> FALSE]
      BY <2>3 DEF IdleRun
    <3>2. run' \in RunState
      BY <3>1, <1>m, InjectorValues DEF RunState
    <3>3. cache' = NotCached /\ hidden' = FALSE /\ unread' = {}
      BY <2>3 DEF ForgetCache
    <3>4. LoadFits' /\ ReadFits'
      BY <1>0, <1>m, <2>0, <3>1, <3>3, InjectorValues DEF LoadFits, ReadFits, ReadAs, OnDisk
    <3>5. DiskFits' /\ CacheFits'
      BY <1>0, <2>0, <3>3, InjectorValues DEF DiskFits, CacheFits
    <3> QED
      BY <1>0, <2>0, <3>2, <3>3, <3>4, <3>5, InjectorValues
         DEF InjectorIInv, InjectorTypeOK, FileState, CacheState, RunState
  <2> QED
    BY <1>4, <2>1, <2>2, <2>3 DEF BeforeAgentRun
<1>12. CASE LoadRaises
  <2>1. run' = [IdleRun EXCEPT !.pc = "lookup"] /\ LookupFits'
        /\ UNCHANGED <<disk, writes, cache, place, hidden, unread, due, missed>>
    BY <1>0, <1>b, <1>12 DEF LoadRaises, RunState
  <2>2. run' \in RunState /\ run'.pc = "lookup"
    BY <2>1, InjectorValues DEF RunState
  <2> QED
    BY <1>0, <1>a, <2>1, <2>2
<1>5. CASE StatFiles
  <2>0. /\ run.pc = "reading" /\ run.todo = {} /\ LookupFits'
        /\ UNCHANGED <<disk, writes, place, hidden, unread, due, missed>>
    BY <1>0, <1>5, <1>b DEF StatFiles, RunState
  <2>1. CASE run.seen # {} /\ run.seen \intersect OnDisk = {}
    <3>1. run' = [IdleRun EXCEPT !.pc = "lookup"] /\ UNCHANGED cache
      BY <1>5, <2>1 DEF StatFiles
    <3>2. run' \in RunState /\ run'.pc = "lookup"
      BY <3>1, InjectorValues DEF RunState
    <3> QED
      BY <1>0, <1>a, <2>0, <3>1, <3>2
  <2>2. CASE ~(run.seen # {} /\ run.seen \intersect OnDisk = {})
    <3> DEFINE last == LatestChange(run.seen \intersect OnDisk)
    <3>1. /\ run' = [IdleRun EXCEPT !.pc = "lookup", !.content = run.content]
          /\ cache' = [is |-> TRUE, content |-> run.content, mtime |-> last]
      BY <1>5, <2>2 DEF StatFiles
    <3>2. last \in Nat
      BY <1>0, <1>m, LatestOf
    <3>3. run.content \in [Files -> Nat]
      BY <1>0 DEF RunState
    <3> HIDE DEF last
    <3>4. cache' \in CacheState /\ cache'.content = run.content
      BY <3>1, <3>2, <3>3 DEF CacheState
    <3>5. run' \in RunState /\ run'.pc = "lookup"
      BY <3>1, <3>3, InjectorValues DEF RunState
    <3>6. CacheFits'
      BY <1>0, <2>0, <3>4 DEF LoadFits, CacheFits, ReadAs
    <3>7. DiskFits' /\ LoadFits' /\ ReadFits'
      BY <1>0, <2>0, <3>5 DEF DiskFits, LoadFits, ReadFits
    <3> QED
      BY <1>0, <2>0, <3>4, <3>5, <3>6, <3>7 DEF InjectorIInv, InjectorTypeOK, FileState, CacheState, RunState
  <2> QED
    BY <2>1, <2>2
<1>6. CASE BeginLookup
  <2>1. ASSUME NEW pc \in {"users", "running"}, run' = [run EXCEPT !.pc = pc]
        PROVE  run' \in RunState /\ run'.pc = pc
    BY <1>0, <2>1 DEF RunState
  <2>2. UNCHANGED <<disk, writes, cache, place, hidden, unread, missed>>
    BY <1>6 DEF BeginLookup
  <2>3. CASE run' = [run EXCEPT !.pc = "users"] /\ due' = (place \in {"user", "session"})
    <3>1. due' \in BOOLEAN /\ (due' => place \in {"user", "session"})
      <4>1. (place \in {"user", "session"}) \in BOOLEAN
        OBVIOUS
      <4> QED
        BY <2>3, <4>1, Zenon
    <3>2. run' \in RunState /\ run'.pc = "users"
      BY <2>1, <2>3
    <3>3. LookupFits'
      BY <1>0, <2>2, <3>1, <3>2 DEF LookupFits
    <3> QED
      BY <1>0, <1>a, <2>2, <3>1, <3>2, <3>3
  <2>4. CASE run' = [run EXCEPT !.pc = "running"] /\ due' = FALSE
    <3>1. run' \in RunState /\ run'.pc = "running"
      BY <2>1, <2>4
    <3> QED
      BY <1>0, <1>a, <2>2, <2>4, <3>1 DEF LookupFits
  <2> QED
    BY <1>6, <2>3, <2>4 DEF BeginLookup
\* A search that fails leaves nothing due.
<1>c. ASSUME NEW pc \in {"sessions", "running"}, SearchFails(pc), UNCHANGED <<disk, writes, cache, place, hidden, unread>>
      PROVE  InjectorIInv'
  <2>1. run' \in RunState /\ run'.pc = pc /\ due' = FALSE /\ missed' = missed
    BY <1>0, <1>c DEF SearchFails, RunState
  <2> QED
    BY <1>0, <1>a, <1>c, <2>1 DEF LookupFits
<1>7. CASE SearchUser
  <2>1. run.pc = "users" /\ UNCHANGED <<disk, writes, cache, place, hidden, unread>>
    BY <1>7 DEF SearchUser
  <2>2. ASSUME NEW c \in Cut(Matches("user")),
               run' = [run EXCEPT !.pc = "sessions", !.found = c.found, !.full = c.full], UNCHANGED <<due, missed>>
        PROVE  InjectorIInv'
    <3>1. /\ c.found \in BOOLEAN /\ c.full \in BOOLEAN /\ (place = "user" => c.found \/ c.full)
      <4>1. Matches("user") \in BOOLEAN /\ Matches("user") = (place = "user")
        BY Zenon DEF Matches
      <4> QED
        BY <2>2, <4>1, CutOf
    <3>2. run' \in RunState /\ run'.pc = "sessions" /\ run'.found = c.found /\ run'.full = c.full
      BY <1>0, <2>2, <3>1 DEF RunState
    <3>3. LookupFits'
      BY <1>0, <2>1, <2>2, <3>1, <3>2 DEF LookupFits
    <3> QED
      BY <1>0, <1>a, <2>1, <2>2, <3>2, <3>3
  <2> QED
    BY <1>7, <1>c, <2>1, <2>2 DEF SearchUser
<1>8. CASE SearchSession
  <2>1. run.pc = "sessions" /\ UNCHANGED <<disk, writes, cache, place, hidden, unread>>
    BY <1>8 DEF SearchSession
  <2>2. ASSUME NEW c \in Cut(run.found \/ Matches("session")),
               run' = [run EXCEPT !.pc = "running", !.found = c.found, !.full = @ \/ c.full],
               missed' = IF due /\ ~run'.found /\ ~run'.full THEN Min({2, missed + 1}) ELSE missed,
               UNCHANGED due
        PROVE  InjectorIInv'
    <3>1. run.found \in BOOLEAN /\ run.full \in BOOLEAN
      BY <1>0 DEF RunState
    <3>2. /\ c.found \in BOOLEAN /\ c.full \in BOOLEAN /\ (run.found \/ place = "session" => c.found \/ c.full)
      <4>1. Matches("session") \in BOOLEAN /\ Matches("session") = (place = "session")
        BY Zenon DEF Matches
      <4>2. (run.found \/ Matches("session")) \in BOOLEAN
        BY <3>1, <4>1
      <4> QED
        BY <2>2, <4>1, <4>2, CutOf
    <3>3. (run.full \/ c.full) \in BOOLEAN
      BY <3>1, <3>2
    <3>4. run' \in RunState /\ run'.pc = "running" /\ run'.found = c.found /\ run'.full = (run.full \/ c.full)
      BY <1>0, <2>2, <3>2, <3>3 DEF RunState
    <3>5. missed' \in 0..2 /\ LookupFits'
      <4>1. CASE due /\ ~run'.found /\ ~run'.full
        <5>1. missed = 0 /\ place = "user"
          BY <1>0, <2>1, <3>1, <3>2, <3>4, <4>1 DEF LookupFits
        <5>2. missed' = Min({2, 1})
          BY <2>2, <4>1, <5>1
        <5>3. Min({2, 1}) = 1
          BY DEF Min
        <5> QED
          BY <1>0, <2>1, <2>2, <3>4, <5>1, <5>2, <5>3 DEF LookupFits
      <4>2. CASE ~(due /\ ~run'.found /\ ~run'.full)
        <5>1. missed' = missed
          BY <2>2, <4>2
        <5> QED
          BY <1>0, <2>1, <2>2, <3>4, <5>1 DEF LookupFits
      <4> QED
        BY <4>1, <4>2
    <3> QED
      BY <1>0, <1>a, <2>1, <2>2, <3>4, <3>5
  <2> QED
    BY <1>8, <1>c, <2>1, <2>2 DEF SearchSession
<1>9. CASE AfterAgentRun
  <2>1. run' \in RunState /\ run'.pc \in {"idle", "extracting"}
    BY <1>9, InjectorValues DEF AfterAgentRun, RunState
  <2> QED
    BY <1>0, <1>9, <1>a, <2>1 DEF AfterAgentRun, LookupFits
<1>10. CASE ExtractMemories
  <2>1. /\ ~due /\ place' \in {"none", "other", "session", "user"} /\ run' = IdleRun
        /\ (place' = place \/ place = "none")
    BY <1>0, <1>10 DEF ExtractMemories, LookupFits, Extracted
  <2> QED
    BY <1>0, <1>10, <1>a, <2>1, InjectorValues DEF ExtractMemories, LookupFits
<1>11. CASE MoveMemory
  <2>1. place' \in {"none", "other", "user"} /\ (due' => due /\ place' # "none") /\ due' \in BOOLEAN
        /\ missed' = IF place' = "none" THEN 0 ELSE missed
    BY <1>0, <1>11 DEF MoveMemory
  <2>2. LookupFits'
    BY <1>0, <1>11, <2>1 DEF MoveMemory, LookupFits
  <2> QED
    BY <1>0, <1>11, <2>1, <2>2 DEF MoveMemory, InjectorIInv, InjectorTypeOK, DiskFits, CacheFits, LoadFits, ReadFits,
          ReadAs, FileState, CacheState, RunState
<1>13. CASE UNCHANGED injectorVars
  BY <1>0, <1>13 DEF injectorVars, InjectorIInv, InjectorTypeOK, DiskFits, CacheFits, LoadFits, ReadFits, ReadAs,
        LookupFits, FileState, CacheState, RunState
<1> QED
  BY <1>1, <1>2, <1>3, <1>4, <1>5, <1>6, <1>7, <1>8, <1>9, <1>10, <1>11, <1>12, <1>13 DEF InjectorNext

\* What the loader takes for current is what the files hold, but for the changes that
\* mtimes cannot show and for the text of files that could not be read
\* (memory/static_loader.py).
THEOREM CacheCurrent == InjectorSpec => []CacheFollowsFiles
<1>1. InjectorIInv => CacheFollowsFiles
  <2> SUFFICES ASSUME InjectorIInv, cache.is, ~Outdated, ~hidden PROVE cache.content = [f \in Files |-> ReadAs(f)]
    BY DEF CacheFollowsFiles, ReadAs
  <2>1. disk \in [Files -> FileState] /\ cache \in CacheState /\ DiskFits /\ OnDisk \subseteq Files
    BY DEF InjectorIInv, InjectorTypeOK, FileState, CacheState, OnDisk
  <2>2. LatestChange(OnDisk) \in Nat /\ \A f \in OnDisk : disk[f].mtime <= LatestChange(OnDisk)
    BY <2>1, LatestOf
  <2>3. cache.mtime \in Nat /\ LatestChange(OnDisk) <= cache.mtime
    BY <2>1, <2>2 DEF Outdated, CacheState
  <2>4. ASSUME NEW f \in Files PROVE disk[f].mtime <= cache.mtime
    <3>1. disk[f].mtime \in Nat
      BY <2>1 DEF FileState
    <3>2. CASE f \in OnDisk
      BY <2>2, <2>3, <3>1, <3>2
    <3>3. CASE f \notin OnDisk
      BY <2>1, <2>3, <3>3 DEF OnDisk, DiskFits
    <3> QED
      BY <3>2, <3>3
  <2>5. ASSUME NEW f \in Files PROVE cache.content[f] = ReadAs(f)
    <3>1. disk[f].mtime \in Nat /\ cache.mtime \in Nat
      BY <2>1 DEF FileState, CacheState
    <3> QED
      BY <2>4, <3>1 DEF InjectorIInv, CacheFits
  <2> QED
    BY <2>1, <2>5 DEF CacheState
<1> QED
  BY InjectorInitial, InjectorStep, <1>1, PTL DEF InjectorSpec

\* A promotion hides a memory from one lookup of its session at most: what a lookup has
\* missed is the user's from then on, and the next lookup finds it (memory/manager.py).
THEOREM MissedOnce == InjectorSpec => []MissedAtMostOnce
<1>1. InjectorIInv => MissedAtMostOnce
  BY DEF InjectorIInv, LookupFits, MissedAtMostOnce
<1> QED
  BY InjectorInitial, InjectorStep, <1>1, PTL DEF InjectorSpec

=============================================================================
