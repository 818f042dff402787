--------------------------- MODULE SkillRegistry ---------------------------
(***************************************************************************)
(* The skills of the Agent Core processes (skills/registry.py): what each  *)
(* has in memory, the metadata in Redis that get_async falls back on, and  *)
(* the points of the Qdrant index the retrievers search, which all share.  *)
(* Redis and Qdrant are awaited, so operations overlap; they may fail,     *)
(* which is only logged; and no process tells the others what it changed.  *)
(***************************************************************************)
EXTENDS Naturals, FiniteSets

CONSTANTS SkillIds, SkillTasks, SkillWorkers

ASSUME SkillAssumption ==
    IsFiniteSet(SkillIds) /\ IsFiniteSet(SkillTasks) /\ IsFiniteSet(SkillWorkers) /\ SkillWorkers # {}

SkillStatus == {"active", "inactive"}
MaybeSkill == SkillStatus \union {"none"}

VARIABLES
    skills,   \* _skills of a process: the status of a registered skill
    meta,     \* skill:meta:{id} in Redis
    points,   \* payload status of the skill's point in Qdrant
    skillOps, \* the operations under way
    owner,    \* history: the process that last registered or unregistered a skill
    marred    \* history: skills whose last operations went past each other, or half-way

skillVars == <<skills, meta, points, skillOps, owner, marred>>

NoOp == [pc |-> "idle", at |-> "none", skill |-> "none", value |-> "none", then |-> "done"]

SkillsInit ==
    /\ meta = [s \in SkillIds |-> "none"] /\ points = meta
    /\ skills = [w \in SkillWorkers |-> meta]
    /\ skillOps = [t \in SkillTasks |-> NoOp]
    /\ owner = [s \in SkillIds |-> CHOOSE w \in SkillWorkers : TRUE] \* no change so far
    /\ marred = {}

-----------------------------------------------------------------------------
\* What the last change of a skill left in the process that made it.
Latest(s) == skills[owner[s]][s]
Busy(s) == \E t \in SkillTasks : skillOps[t].skill = s
StartOp(t, w, s, pc, value, then) ==
    /\ skillOps[t].pc = "idle"
    /\ skillOps' = [skillOps EXCEPT ![t] =
                       [pc |-> pc, at |-> w, skill |-> s, value |-> value, then |-> then]]
StepOp(t, pc) == skillOps' = [skillOps EXCEPT ![t] = IF pc = "done" THEN NoOp ELSE [@ EXCEPT !.pc = pc]]
SetSkill(w, s, v) == skills' = [skills EXCEPT ![w][s] = v]

\* A change of a skill starts over what other operations have left; what writes it again
\* in a process that has another version than the last change does not.
Changes(w, s) ==
    /\ owner' = [owner EXCEPT ![s] = w]
    /\ marred' = IF Busy(s) THEN marred \union {s} ELSE marred \ {s}
Rewrites(s, outdated) ==
    /\ UNCHANGED owner
    /\ marred' = IF Busy(s) \/ outdated THEN marred \union {s} ELSE marred

\* register: by a package at start, POST, PUT, enable, disable and MCP discovery.
Register(t, w, s) ==
    /\ \E v \in SkillStatus : SetSkill(w, s, v) /\ StartOp(t, w, s, "embed", v, "setMeta")
    /\ Changes(w, s)
    /\ UNCHANGED <<meta, points>>

\* unregister, of a skill that is registered.
Unregister(t, w, s) ==
    /\ skills[w][s] # "none" /\ SetSkill(w, s, "none")
    /\ StartOp(t, w, s, "deletePoint", "none", "done")
    /\ Changes(w, s)
    /\ UNCHANGED <<meta, points>>

\* reindex_all, for one of the skills that were active when it began.
Reindex(t, w, s) ==
    /\ skills[w][s] = "active" /\ StartOp(t, w, s, "embed", "active", "done")
    /\ Rewrites(s, skills[w][s] # Latest(s))
    /\ UNCHANGED <<skills, meta, points>>

\* load_full of a skill in memory, whose metadata it then caches; otherwise get_async
\* reads Redis.
LoadFull(t, w, s) ==
    /\ StartOp(t, w, s, IF skills[w][s] = "none" THEN "gotMeta" ELSE "keepMeta",
               IF skills[w][s] = "none" THEN meta[s] ELSE skills[w][s], "done")
    /\ Rewrites(s, skills[w][s] \notin {"none", Latest(s)})
    /\ UNCHANGED <<skills, meta, points>>

-----------------------------------------------------------------------------
\* index_skill: the embedding, without which it returns; the payload is made after it,
\* of an object another operation may have changed.
Embed(t) ==
    LET op == skillOps[t] IN
    /\ op.pc = "embed"
    /\ \/ \E v \in {op.value, skills[op.at][op.skill]} \ {"none"} :
             skillOps' = [skillOps EXCEPT ![t].pc = "upsert", ![t].value = v]
          /\ UNCHANGED marred
       \/ StepOp(t, op.then) /\ marred' = marred \union {op.skill}
    /\ UNCHANGED <<skills, meta, points, owner>>

\* A store answers, or fails, which is logged; what follows goes on.
StoreStep(t, pc, next) ==
    /\ skillOps[t].pc = pc /\ StepOp(t, next)
    /\ UNCHANGED <<skills, owner>>

UpsertSkill(t) ==
    LET op == skillOps[t] IN
    /\ StoreStep(t, "upsert", op.then) /\ UNCHANGED meta
    /\ \/ points' = [points EXCEPT ![op.skill] = op.value] /\ UNCHANGED marred
       \/ UNCHANGED points /\ marred' = marred \union {op.skill}

\* The cache: set_skill, then invalidate_skill, in one try block.
SetMeta(t) ==
    LET op == skillOps[t] IN
    /\ UNCHANGED points
    /\ \/ StoreStep(t, "setMeta", "invalidate") /\ meta' = [meta EXCEPT ![op.skill] = op.value]
          /\ UNCHANGED marred
       \/ StoreStep(t, "setMeta", "done") /\ UNCHANGED meta /\ marred' = marred \union {op.skill}

DeletePoint(t) ==
    LET op == skillOps[t] IN
    /\ StoreStep(t, "deletePoint", "invalidate") /\ UNCHANGED meta
    /\ \/ points' = [points EXCEPT ![op.skill] = "none"] /\ UNCHANGED marred
       \/ UNCHANGED points /\ marred' = marred \union {op.skill}

\* Mutant: invalidate_skill leaves the metadata alone.
FrequencyOnly(s) == meta

InvalidateSkill(s) == [meta EXCEPT ![s] = "none"]

Invalidate(t) ==
    LET op == skillOps[t] IN
    /\ StoreStep(t, "invalidate", "done") /\ UNCHANGED points
    /\ \/ meta' = InvalidateSkill(op.skill) /\ UNCHANGED marred
       \/ UNCHANGED meta /\ marred' = marred \union {op.skill}

\* load_full's set_skill, a failure of which leaves what was there.
KeepMeta(t) ==
    LET op == skillOps[t] IN
    /\ StoreStep(t, "keepMeta", "done") /\ UNCHANGED <<points, marred>>
    /\ meta' \in {meta, [meta EXCEPT ![op.skill] = op.value]}

\* get_async has its answer: what was cached is registered again.
GotMeta(t) ==
    LET op == skillOps[t] IN
    /\ op.pc = "gotMeta"
    /\ IF op.value = "none" THEN UNCHANGED skills ELSE SetSkill(op.at, op.skill, op.value)
    /\ StepOp(t, "done") /\ UNCHANGED <<meta, points, owner, marred>>

ExpireMeta(s) ==
    /\ meta[s] # "none" /\ meta' = [meta EXCEPT ![s] = "none"]
    /\ UNCHANGED <<skills, points, skillOps, owner, marred>>

\* A process restarts: Redis and Qdrant keep what they have.
RestartSkills(w) ==
    /\ skills' = [skills EXCEPT ![w] = [s \in SkillIds |-> "none"]]
    /\ skillOps' = [t \in SkillTasks |-> IF skillOps[t].at = w THEN NoOp ELSE skillOps[t]]
    /\ marred' = marred \union {s \in SkillIds :
                     owner[s] = w \/ \E t \in SkillTasks : skillOps[t].at = w /\ skillOps[t].skill = s}
    /\ UNCHANGED <<meta, points, owner>>

SkillsNext ==
    \/ \E w \in SkillWorkers : RestartSkills(w)
    \/ \E s \in SkillIds : ExpireMeta(s)
    \/ \E t \in SkillTasks :
          \/ Embed(t) \/ UpsertSkill(t) \/ SetMeta(t) \/ DeletePoint(t) \/ Invalidate(t)
          \/ KeepMeta(t) \/ GotMeta(t)
          \/ \E w \in SkillWorkers, s \in SkillIds :
                Register(t, w, s) \/ Unregister(t, w, s) \/ Reindex(t, w, s) \/ LoadFull(t, w, s)

SkillsSpec == SkillsInit /\ [][SkillsNext]_skillVars

-----------------------------------------------------------------------------
SkillsTypeOK ==
    /\ skills \in [SkillWorkers -> [SkillIds -> MaybeSkill]] /\ meta \in [SkillIds -> MaybeSkill]
    /\ points \in [SkillIds -> MaybeSkill] /\ owner \in [SkillIds -> SkillWorkers]
    /\ marred \subseteq SkillIds
    /\ \A t \in SkillTasks : skillOps[t].value \in MaybeSkill

\* When nothing is under way for a skill, what all processes share has what the last
\* change of it left in the process that made it: the index has the point of what is
\* registered, and what was unregistered is neither found by a search of any process nor
\* brought back out of Redis.  Other processes keep in memory what they had.  History
\* variable marred has the exceptions: operations on one skill that overlapped, a store
\* that failed (register and unregister only log it), a restart of the process, or in
\* the middle of an operation, and a reindex or load_full in a process with another
\* version; the next register or unregister that meets none of these mends the stores.
StoresAgree ==
    \A s \in SkillIds \ marred :
        ~Busy(s) => points[s] = Latest(s) /\ (Latest(s) = "none" => meta[s] = "none")

=============================================================================
