--------------------------- MODULE PushScheduler ---------------------------
(***************************************************************************)
(* The push service of one Agent Core process: the table of schedules and  *)
(* the jobs of APScheduler beside it (push/scheduler.py), the runs that    *)
(* send to one user after the other, and the access token of WeCom         *)
(* (push/wecom_pusher.py).  Both are in memory: a restart forgets them.    *)
(***************************************************************************)
EXTENDS Naturals, FiniteSets

CONSTANTS MaxSchedules,  \* bound: schedule ids handed out, in order
          MaxRuns,       \* bound: runs at once
          Targets        \* users a schedule may be addressed to

ASSUME PushAssumption == MaxSchedules \in Nat /\ MaxRuns \in Nat /\ IsFiniteSet(Targets)

ScheduleIds == 1..MaxSchedules
Crons == {"valid", "notFiveFields", "refused"}  \* refused: CronTrigger raises ValueError

VARIABLES
    scheduler,   \* of the process: "new", then "started" or, if start raised, "failed"
    schedules,   \* _schedules: what is stored under an id, or absent
    jobs,        \* ids of the jobs of APScheduler
    lastId,      \* ids handed out so far
    runs,        \* executions under way: their schedule and the users still to be sent to
    tokenCached, \* _token_cache holds a token
    tokenGranted \* WeCom has answered a gettoken request with a token

pushVars == <<scheduler, schedules, jobs, lastId, runs, tokenCached, tokenGranted>>

Absent == [there |-> FALSE, agent |-> "a", enabled |-> FALSE, cron |-> "valid"]
Agents == {"a", "b"}

PushInit ==
    /\ scheduler = "new"
    /\ schedules = [s \in ScheduleIds |-> Absent] /\ jobs = {} /\ lastId = 0
    /\ runs = {} /\ tokenCached = FALSE /\ tokenGranted = FALSE

-----------------------------------------------------------------------------
(* The table and the jobs, as a value the methods transform.               *)
Table == [schedules |-> schedules, jobs |-> jobs]
SetTable(t) == schedules' = t.schedules /\ jobs' = t.jobs

\* remove_schedule: the job goes with the schedule if the schedule is enabled.
RemoveSchedule(t, s) ==
    [schedules |-> [t.schedules EXCEPT ![s] = Absent],
     jobs |-> IF t.schedules[s].enabled THEN t.jobs \ {s} ELSE t.jobs]

\* add_schedule: an existing id is removed first (it is the same object, so with the new
\* value of enabled); a cron expression is looked at only when the schedule is enabled.
\* Of a scheduler that does not run add_job returns a pending job without next_run_time,
\* reading which raises AttributeError before the schedule is stored.
AddSchedule(t, s, new) ==
    LET r == IF t.schedules[s].there THEN RemoveSchedule([t EXCEPT !.schedules[s] = new], s) ELSE t IN
    CASE ~new.enabled -> [r EXCEPT !.schedules[s] = new]
      [] new.enabled /\ new.cron = "valid" /\ scheduler = "started" ->
            [schedules |-> [r.schedules EXCEPT ![s] = new], jobs |-> r.jobs \union {s}]
      [] OTHER -> r

NewSchedule(a, on, cron) == [there |-> TRUE, agent |-> a, enabled |-> on, cron |-> cron]

\* POST /push/schedules.
CreateSchedule ==
    /\ scheduler # "new" /\ lastId < MaxSchedules /\ lastId' = lastId + 1
    /\ \E a \in Agents, on \in BOOLEAN, cron \in Crons :
          SetTable(AddSchedule(Table, lastId + 1, NewSchedule(a, on, cron)))
    /\ UNCHANGED <<scheduler, runs, tokenCached, tokenGranted>>

\* DELETE /push/schedules/{id}; runs of it go on.
DeleteSchedule(s) ==
    /\ schedules[s].there
    /\ SetTable(RemoveSchedule(Table, s))
    /\ UNCHANGED <<scheduler, lastId, runs, tokenCached, tokenGranted>>

\* Mutant: a schedule that is disabled keeps its job.
OnlyFlagged(s, on) ==
    LET new == [schedules[s] EXCEPT !.enabled = on] IN
    IF on THEN AddSchedule([Table EXCEPT !.schedules[s] = new], s, new)
    ELSE [schedules |-> [schedules EXCEPT ![s] = new], jobs |-> jobs]

\* update_schedule_status: enabled by adding it again, disabled by removing its job.
StatusUpdated(s, on) ==
    LET new == [schedules[s] EXCEPT !.enabled = on] IN
    IF on THEN AddSchedule([Table EXCEPT !.schedules[s] = new], s, new)
    ELSE [schedules |-> [schedules EXCEPT ![s] = new], jobs |-> jobs \ {s}]

UpdateScheduleStatus(s, on) ==
    /\ schedules[s].there
    /\ SetTable(StatusUpdated(s, on))
    /\ UNCHANGED <<scheduler, lastId, runs, tokenCached, tokenGranted>>

\* sync_from_agent_config: the schedules of an agent are replaced by those of its
\* configuration, of which there is none, or one.
SyncFromAgentConfig(a) ==
    LET cleared == [schedules |-> [s \in ScheduleIds |->
                        IF schedules[s].agent = a THEN Absent ELSE schedules[s]],
                    jobs |-> jobs \ {s \in ScheduleIds : schedules[s].agent = a /\ schedules[s].enabled}]
    IN  /\ scheduler # "new"
        /\ \/ SetTable(cleared) /\ UNCHANGED lastId
           \/ /\ lastId < MaxSchedules /\ lastId' = lastId + 1
              /\ \E on \in BOOLEAN, cron \in Crons :
                    SetTable(AddSchedule(cleared, lastId + 1, NewSchedule(a, on, cron)))
        /\ UNCHANGED <<scheduler, runs, tokenCached, tokenGranted>>

-----------------------------------------------------------------------------
\* start, by the lifespan before any request, which only logs an exception of it.
StartScheduler ==
    /\ scheduler = "new" /\ scheduler' \in {"started", "failed"}
    /\ UNCHANGED <<schedules, jobs, lastId, runs, tokenCached, tokenGranted>>

\* stop, if it was started: the process ends, with its table, and another one comes.
StopScheduler ==
    /\ scheduler # "new" /\ scheduler' = "new" /\ jobs' = {}
    /\ schedules' = [s \in ScheduleIds |-> Absent]
    /\ runs' = {} /\ tokenCached' = FALSE /\ tokenGranted' = FALSE
    /\ UNCHANGED lastId

\* _execute_scheduled_push, by a job or by POST .../execute: it is counted, its templates
\* are rendered, which may raise, and the users are sent to in turn.
ExecutePush(s) ==
    /\ s \in jobs \/ schedules[s].there
    /\ schedules[s].there /\ schedules[s].enabled
    /\ Cardinality(runs) < MaxRuns
    /\ \E to \in SUBSET Targets :
          runs' = runs \union {[schedule |-> s, to |-> IF to = {} THEN {"@all"} ELSE to]}
    /\ UNCHANGED <<scheduler, schedules, jobs, lastId, tokenCached, tokenGranted>>

\* _get_access_token adds two datetimes to compute expires_at: whatever WeCom has
\* granted, TypeError is raised and the cache is not assigned.
RefreshRaises(granted) == tokenCached

\* _send_message: without a cached token one is asked for, and granted or not.
PostMessage(granted) ==
    /\ tokenGranted' = (tokenGranted \/ (~tokenCached /\ granted))
    /\ tokenCached' = RefreshRaises(granted)

\* send_push_message for the next user of a run, and POST /push/send (a run of one):
\* without a cached token one is asked for; what fails is FAILED and the run goes on.
SendPush(r) ==
    /\ r \in runs
    /\ \E u \in r.to, granted \in BOOLEAN :
          /\ PostMessage(granted)
          /\ runs' = (runs \ {r}) \union IF r.to = {u} THEN {} ELSE {[r EXCEPT !.to = @ \ {u}]}
    /\ UNCHANGED <<scheduler, schedules, jobs, lastId>>

PushNext ==
    \/ CreateSchedule \/ StartScheduler \/ StopScheduler
    \/ \E s \in ScheduleIds : \/ DeleteSchedule(s) \/ ExecutePush(s)
                              \/ \E on \in BOOLEAN : UpdateScheduleStatus(s, on)
    \/ \E a \in Agents : SyncFromAgentConfig(a)
    \/ \E r \in runs : SendPush(r)

PushSpec == PushInit /\ [][PushNext]_pushVars

-----------------------------------------------------------------------------
PushTypeOK ==
    /\ scheduler \in {"new", "started", "failed"} /\ lastId \in 0..MaxSchedules
    /\ schedules \in [ScheduleIds -> [there : BOOLEAN, agent : Agents, enabled : BOOLEAN, cron : Crons]]
    /\ jobs \subseteq ScheduleIds
    /\ runs \subseteq [schedule : ScheduleIds, to : SUBSET (Targets \union {"@all"})]
    /\ tokenCached \in BOOLEAN /\ tokenGranted \in BOOLEAN

\* APScheduler fires what the table calls enabled and nothing else: through creation,
\* deletion, disabling, enabling again and synchronisation, with expressions that are
\* refused half-way and a scheduler that could not be started, no job outlives its
\* schedule and no enabled schedule is silent.
JobsMatchTable ==
    jobs = {s \in ScheduleIds : schedules[s].there /\ schedules[s].enabled}

\* "Caches the token and refreshes it when it expires" (wecom_pusher.py:91): once WeCom
\* has granted a token it is cached.
GrantedIsCached == tokenGranted => tokenCached

=============================================================================
