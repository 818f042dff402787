----------------------------- MODULE MemoryStore -----------------------------
(***************************************************************************)
(* The dynamic memories of one agent and user (memory/manager.py): rows in *)
(* PostgreSQL and points in the Qdrant index, written, evicted, expired,   *)
(* promoted and deleted by tasks that interleave at every await.  Qdrant   *)
(* and the embedding service may fail; their errors are logged only.       *)
(***************************************************************************)
EXTENDS Naturals, FiniteSets

CONSTANTS MaxMemories,  \* bound: memories written, in the order of created_at
          MaxPerUser,   \* AGENT_MEMORY_MAX_PER_USER
          MaxSessions,  \* sessions that write memories
          QdrantFails   \* whether Qdrant may fail; the code handles it

ASSUME MemoryAssumption ==
    MaxMemories \in Nat /\ MaxPerUser \in Nat /\ MaxSessions \in Nat /\ QdrantFails \in BOOLEAN

Memories == 1..MaxMemories
UserLevel == 0                       \* session_id IS NULL, scope "user"
Sessions == 1..MaxSessions
Nowhere == MaxSessions + 1
NewSession == MaxSessions + 2        \* a session that has written nothing
Housekeeping == 0
DeleteTasks == Memories \union {Housekeeping}

VARIABLES
    rows,      \* the ids in the table agent_memory
    origin,    \* the session_id a memory was written with
    important, \* memories of importance 0.8 or more
    rowScope,  \* session_id of a row
    index,     \* scope and session_id of a point, or Nowhere
    writing,   \* how far write_dynamic_memory of a memory is
    deleting,  \* the eviction of each write, and one deletion of another kind
    promoting, \* rows promoted whose points are not updated yet
    cutShort   \* chosen for a deletion that ended between the index and the table

memoryVars == <<rows, origin, important, rowScope, index, writing, deleting, promoting, cutShort>>

NoDeletion == [at |-> "none", excess |-> 0, ids |-> {}]

MemoryInit ==
    /\ rows = {} /\ important = {} /\ promoting = {} /\ cutShort = {}
    /\ origin = [m \in Memories |-> UserLevel]
    /\ rowScope = [m \in Memories |-> UserLevel]
    /\ index = [m \in Memories |-> Nowhere]
    /\ writing = [m \in Memories |-> "no"]
    /\ deleting = [t \in DeleteTasks |-> NoDeletion]

-----------------------------------------------------------------------------
\* write_dynamic_memory: the row is committed first.
InsertRow(m, s, high) ==
    /\ writing[m] = "no" /\ \A n \in Memories : n < m => writing[n] # "no"
    /\ rows' = rows \union {m}
    /\ origin' = [origin EXCEPT ![m] = s] /\ rowScope' = [rowScope EXCEPT ![m] = s]
    /\ important' = IF high THEN important \union {m} ELSE important
    /\ writing' = [writing EXCEPT ![m] = "embed"]
    /\ UNCHANGED <<index, deleting, promoting, cutShort>>

\* The embedding and the upsert of the point, with the session_id of the call.  Without
\* an embedding the call returns; a failed upsert is logged and it goes on.
UpsertPoint(m) ==
    /\ writing[m] = "embed"
    /\ \/ /\ index' = [index EXCEPT ![m] = origin[m]]
          /\ writing' = [writing EXCEPT ![m] = "indexed"]
          /\ deleting' = [deleting EXCEPT ![m].at = "count"]
       \/ /\ QdrantFails
          /\ writing' = [writing EXCEPT ![m] = "unindexed"]
          /\ deleting' \in {deleting, [deleting EXCEPT ![m].at = "count"]}
          /\ UNCHANGED index
    /\ UNCHANGED <<rows, origin, important, rowScope, promoting, cutShort>>

-----------------------------------------------------------------------------
\* _enforce_capacity: the rows are counted, and another statement of the transaction
\* chooses the lowest of them by importance and age.
Rank(m) == IF m \in important THEN MaxMemories + m ELSE m

Lowest(n) == {m \in rows : Cardinality({k \in rows : Rank(k) < Rank(m)}) < n}

CountRows(t) ==
    LET total == Cardinality(rows) IN
    /\ deleting[t].at = "count"
    /\ deleting' = [deleting EXCEPT ![t] =
           IF total <= MaxPerUser THEN NoDeletion
           ELSE [at |-> "choose", excess |-> total - MaxPerUser, ids |-> {}]]
    /\ UNCHANGED <<rows, origin, important, rowScope, index, writing, promoting, cutShort>>

ChooseVictims(t) ==
    LET victims == Lowest(deleting[t].excess) IN
    /\ deleting[t].at = "choose"
    /\ deleting' = [deleting EXCEPT ![t] =
           IF victims = {} THEN NoDeletion ELSE [at |-> "points", excess |-> 0, ids |-> victims]]
    /\ UNCHANGED <<rows, origin, important, rowScope, index, writing, promoting, cutShort>>

\* The ids go from the index, or the error is logged ...
DeletePoints(t) ==
    /\ deleting[t].at = "points"
    /\ \/ index' = [m \in Memories |-> IF m \in deleting[t].ids THEN Nowhere ELSE index[m]]
       \/ QdrantFails /\ UNCHANGED index
    /\ deleting' = [deleting EXCEPT ![t].at = "rows"]
    /\ UNCHANGED <<rows, origin, important, rowScope, writing, promoting, cutShort>>

\* Mutant: the deletion in the table finds nothing.
NoneLeft(t) == rows

RowsLeft(t) == rows \ deleting[t].ids

\* ... and then from the table.
DeleteRows(t) ==
    /\ deleting[t].at = "rows"
    /\ rows' = RowsLeft(t) /\ cutShort' = cutShort \intersect rows'
    /\ deleting' = [deleting EXCEPT ![t] = NoDeletion]
    /\ UNCHANGED <<origin, important, rowScope, index, writing, promoting>>

\* A statement of PostgreSQL raises, or the process ends: what is gone from the index
\* may stay in the table, and nothing comes back to it.
DeletionStops(t) ==
    /\ deleting[t].at # "none"
    /\ deleting' = [deleting EXCEPT ![t] = NoDeletion]
    /\ cutShort' = IF deleting[t].at = "rows" THEN cutShort \union (deleting[t].ids \intersect rows) ELSE cutShort
    /\ UNCHANGED <<rows, origin, important, rowScope, index, writing, promoting>>

\* The ids another operation has selected: _forget_expired (any may have expired),
\* cleanup_session (those of the session that are no summaries), delete_memory.
StartDeletion(ids) ==
    /\ deleting[Housekeeping].at = "none" /\ ids # {}
    /\ deleting' = [deleting EXCEPT ![Housekeeping] = [at |-> "points", excess |-> 0, ids |-> ids]]
    /\ UNCHANGED <<rows, origin, important, rowScope, index, writing, promoting, cutShort>>

ForgetExpired == \E ids \in SUBSET rows : StartDeletion(ids)

CleanupSession(s) == \E ids \in SUBSET {m \in rows : rowScope[m] = s} : StartDeletion(ids)

DeleteMemory(m) == writing[m] # "no" /\ StartDeletion({m})

\* _enforce_capacity_all of the forget cycle.
EnforceAll ==
    /\ deleting[Housekeeping].at = "none" /\ rows # {}
    /\ deleting' = [deleting EXCEPT ![Housekeeping].at = "count"]
    /\ UNCHANGED <<rows, origin, important, rowScope, index, writing, promoting, cutShort>>

-----------------------------------------------------------------------------
\* Mutant: all memories of a session are promoted, whatever their importance.
AllOfSession == {m \in rows : rowScope[m] # UserLevel}

\* _promote_session_memories: what is important becomes a memory of the user, in the
\* table and then in the index, where it may have no point or the update may fail.
Promotable == {m \in rows : rowScope[m] # UserLevel /\ m \in important}

PromoteRows ==
    /\ promoting = {} /\ Promotable # {}
    /\ promoting' = Promotable
    /\ rowScope' = [m \in Memories |-> IF m \in Promotable THEN UserLevel ELSE rowScope[m]]
    /\ UNCHANGED <<rows, origin, important, index, writing, deleting, cutShort>>

PromotePoints ==
    /\ promoting # {} /\ promoting' = {}
    /\ \/ index' = [m \in Memories |->
              IF m \in promoting /\ index[m] # Nowhere THEN UserLevel ELSE index[m]]
       \/ QdrantFails /\ UNCHANGED index
    /\ UNCHANGED <<rows, origin, important, rowScope, writing, deleting, cutShort>>

\* retrieve_dynamic_memory: what the two searches of a session can return, those of
\* the scope "user" and those of the session itself.
Retrievable(s) == {m \in Memories : index[m] \in {UserLevel, s}}

MemoryNext ==
    \/ \E m \in Memories : \/ UpsertPoint(m) \/ DeleteMemory(m)
                           \/ \E s \in Sessions \union {UserLevel}, high \in BOOLEAN : InsertRow(m, s, high)
    \/ \E t \in DeleteTasks : CountRows(t) \/ ChooseVictims(t) \/ DeletePoints(t) \/ DeleteRows(t)
                            \/ DeletionStops(t)
    \/ ForgetExpired \/ EnforceAll \/ PromoteRows \/ PromotePoints
    \/ \E s \in Sessions : CleanupSession(s)

MemorySpec == MemoryInit /\ [][MemoryNext]_memoryVars

-----------------------------------------------------------------------------
Deletion == [at : {"none", "count", "choose", "points", "rows"}, excess : Nat, ids : SUBSET Memories]

MemoryTypeOK ==
    /\ rows \subseteq Memories /\ important \subseteq Memories /\ promoting \subseteq Memories
    /\ cutShort \subseteq Memories
    /\ origin \in [Memories -> Sessions \union {UserLevel}]
    /\ rowScope \in [Memories -> Sessions \union {UserLevel}]
    /\ index \in [Memories -> Sessions \union {UserLevel, Nowhere}]
    /\ writing \in [Memories -> {"no", "embed", "indexed", "unindexed"}]
    /\ deleting \in [DeleteTasks -> Deletion]

\* A session is told its own memories, those of the user and the important ones of other
\* sessions, and no other: neither promotions that fail half-way nor a point that is
\* written after its row was promoted open a session to the others ("strictly isolated").
SessionIsolation ==
    \A s \in Sessions \union {NewSession} : \A m \in Retrievable(s) :
        origin[m] \in {UserLevel, s} \/ m \in important

\* A memory that has been written to both stores can be found as long as its row is
\* there: evictions, expiry and promotions that run into each other never hide one that
\* none of them has chosen to delete.  One that was chosen is hidden while its deletion is
\* between the two stores, and for good when the deletion ends there (manager.py deletes
\* the points first, and no later step looks for rows without a point).
StoredIsFound ==
    \A m \in rows : writing[m] = "indexed" =>
        \/ index[m] # Nowhere
        \/ \E t \in DeleteTasks : deleting[t].at = "rows" /\ m \in deleting[t].ids
        \/ m \in cutShort

\* "Deletes a memory from PostgreSQL and Qdrant": what is found has a row.
FoundIsStored == \A s \in Sessions : Retrievable(s) \subseteq rows

=============================================================================
