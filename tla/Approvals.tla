------------------------------ MODULE Approvals ------------------------------
(***************************************************************************)
(* Human approvals: the ApprovalManager and its store in memory, one in    *)
(* each Agent Core process, the REST routes of push.py that reach one of   *)
(* the processes, and the approval store of the browsers.  The methods of  *)
(* the store hold an asyncio lock across no await, and the manager awaits  *)
(* nothing else between them: each request is one step of its process.     *)
(***************************************************************************)
EXTENDS Naturals, Sequences, FiniteSets

CONSTANTS Workers,          \* Agent Core processes
          Tabs,             \* browser tabs that are open
          TabUser,          \* the user logged in in a tab
          MaxPendingPerUser,\* HITL_MAX_PENDING_PER_USER
          MaxApprovals,     \* bound: approvals created
          MaxResponses      \* bound: responses sent

ASSUME ApprovalsAssumption ==
    /\ IsFiniteSet(Workers) /\ DOMAIN TabUser = Tabs
    /\ MaxPendingPerUser \in Nat /\ MaxApprovals \in Nat /\ MaxResponses \in Nat

Approvers == {TabUser[t] : t \in Tabs}
Decisions == {"approved", "rejected"}
Status == Decisions \union {"pending", "timeout"}

VARIABLES
    approvals,   \* every ApprovalRecord so far, with its process; alive until that process ends
    shown,       \* approvalStore of a tab: shown[t][a] is a status, or "absent"
    cards,       \* the cards in the chat of a tab: "pending" while the approval is in
                 \* chatStore.pendingApprovals, then "finished"
    responses,   \* the POST .../respond requests so far
    fetched      \* fetchApprovals of a tab, and the list it was answered

approvalVars == <<approvals, shown, cards, responses, fetched>>

Ids == 1..MaxApprovals
Nothing == [a \in Ids |-> "absent"]
NoCards == [a \in Ids |-> "none"]

ApprovalsInit ==
    /\ approvals = <<>> /\ responses = <<>>
    /\ shown = [t \in Tabs |-> Nothing]
    /\ cards = [t \in Tabs |-> NoCards]
    /\ fetched = [t \in Tabs |-> [at |-> "idle", list |-> Nothing]]

\* list_by_user: the records of one process.
ListByUser(w, u, statuses) ==
    {a \in 1..Len(approvals) : approvals[a].alive /\ approvals[a].worker = w
                               /\ approvals[a].user = u /\ approvals[a].status \in statuses}

-----------------------------------------------------------------------------
BelowLimit(w, u) == Cardinality(ListByUser(w, u, {"pending"})) < MaxPendingPerUser

\* create_approval, refused above the limit; the approval.request event reaches a tab
\* of the user or none (addApproval, addPendingApproval).
CreateApproval(w, u) ==
    LET a == Len(approvals) + 1 IN
    /\ a <= MaxApprovals /\ BelowLimit(w, u)
    /\ approvals' = Append(approvals, [worker |-> w, user |-> u, status |-> "pending",
                                       alive |-> TRUE])
    /\ \E ts \in {{}} \union {{t} : t \in {s \in Tabs : TabUser[s] = u}} :
          /\ shown' = [t \in Tabs |-> IF t \in ts THEN [shown[t] EXCEPT ![a] = "pending"] ELSE shown[t]]
          /\ cards' = [t \in Tabs |-> IF t \in ts THEN [cards[t] EXCEPT ![a] = "pending"] ELSE cards[t]]
    /\ UNCHANGED <<responses, fetched>>

\* check_timeouts / cleanup_expired on the records of one process: those pending for
\* longer than their timeout_seconds, which any of them may be, have timed out.
CleanupExpired(w, rs, expired) ==
    [a \in 1..Len(rs) |->
        IF rs[a].alive /\ rs[a].worker = w /\ a \in expired /\ rs[a].status = "pending"
        THEN [rs[a] EXCEPT !.status = "timeout"] ELSE rs[a]]

\* A process ends and starts again with an empty store, on which the lifespan of
\* main.py runs the only check_timeouts.
WorkerRestart(w) ==
    /\ \E a \in 1..Len(approvals) : approvals[a].worker = w /\ approvals[a].alive
    /\ approvals' = CleanupExpired(w, [a \in 1..Len(approvals) |->
                        [approvals[a] EXCEPT !.alive = @ /\ approvals[a].worker # w]], Ids)
    /\ UNCHANGED <<shown, cards, responses, fetched>>

-----------------------------------------------------------------------------
\* The user decides: in the card, which first removes the approval from the pending
\* ones of the chat (respondToApproval; the Gateway drops its frame, which has no
\* content) and is finished from then on, whatever becomes of the request; or in the
\* approval centre.
Decide(t, a, d) ==
    /\ Len(responses) < MaxResponses
    /\ \/ cards[t][a] = "pending" /\ cards' = [cards EXCEPT ![t][a] = "finished"]
       \/ shown[t][a] = "pending" /\ UNCHANGED cards
    /\ responses' = Append(responses, [tab |-> t, id |-> a, decision |-> d, at |-> "sent"])
    /\ UNCHANGED <<approvals, shown, fetched>>

\* respond_to_approval and update_status: only a pending record is changed.
UpdateStatus(a, d) == [approvals EXCEPT ![a].status = IF @ = "pending" THEN d ELSE @]

\* POST .../respond reaches one of the processes: unknown there (404), another user's
\* (400), or answered with the record, whatever its status is.
Respond(r, w) ==
    LET q == responses[r]
        known == approvals[q.id].alive /\ approvals[q.id].worker = w
        allowed == known /\ approvals[q.id].user = TabUser[q.tab]
    IN  /\ q.at = "sent"
        /\ approvals' = IF allowed THEN UpdateStatus(q.id, q.decision) ELSE approvals
        /\ responses' = [responses EXCEPT ![r].at = IF allowed THEN "ok" ELSE "failed"]
        /\ UNCHANGED <<shown, cards, fetched>>

\* Mutant: the page shows the decision whether or not it was accepted.
ShowDecision(q) ==
    [shown EXCEPT ![q.tab][q.id] = IF @ = "absent" THEN @ ELSE q.decision]

\* updateApprovalStatus after a successful response, with the decision that was sent.
UpdateShown(q) ==
    [shown EXCEPT ![q.tab][q.id] = IF @ = "absent" \/ q.at # "ok" THEN @ ELSE q.decision]

\* The answer reaches respondApproval of the store, or is lost.
RespondAnswered(r) ==
    LET q == responses[r] IN
    /\ q.at \in {"ok", "failed"}
    /\ \/ shown' = UpdateShown(q)
       \/ UNCHANGED shown
    /\ responses' = [responses EXCEPT ![r].at = "done"]
    /\ UNCHANGED <<approvals, cards, fetched>>

\* The chat goes to another session (clearMessages), and its cards with it.
LeaveSession(t) ==
    /\ cards[t] # NoCards
    /\ cards' = [cards EXCEPT ![t] = NoCards]
    /\ UNCHANGED <<approvals, shown, responses, fetched>>

-----------------------------------------------------------------------------
\* fetchApprovals, at the load of a page and by the poll of useApproval: one of the
\* processes lists what it has (GET /push/approvals).
Fetch(t, w) ==
    /\ fetched[t].at = "idle"
    /\ fetched' = [fetched EXCEPT ![t] = [at |-> "answered", list |->
          [a \in Ids |-> IF a \in ListByUser(w, TabUser[t], Status) THEN approvals[a].status ELSE "absent"]]]
    /\ UNCHANGED <<approvals, shown, cards, responses>>

\* The list replaces what the tab had, also what a response has changed meanwhile.
FetchAnswered(t) ==
    /\ fetched[t].at = "answered"
    /\ fetched' = [fetched EXCEPT ![t] = [at |-> "idle", list |-> Nothing]]
    /\ \/ shown' = [shown EXCEPT ![t] = fetched[t].list]
       \/ UNCHANGED shown
    /\ UNCHANGED <<approvals, cards, responses>>

ApprovalsNext ==
    \/ \E w \in Workers : WorkerRestart(w) \/ \E u \in Approvers : CreateApproval(w, u)
    \/ \E a \in Ids, t \in Tabs, d \in Decisions : Decide(t, a, d)
    \/ \E r \in 1..Len(responses) : RespondAnswered(r) \/ \E w \in Workers : Respond(r, w)
    \/ \E t \in Tabs : LeaveSession(t) \/ FetchAnswered(t) \/ \E w \in Workers : Fetch(t, w)

ApprovalsSpec == ApprovalsInit /\ [][ApprovalsNext]_approvalVars

-----------------------------------------------------------------------------
ApprovalRecord == [worker : Workers, user : Approvers, status : Status,
                   alive : BOOLEAN]
Response == [tab : Tabs, id : Ids, decision : Decisions, at : {"sent", "ok", "failed", "done"}]
View == [Ids -> Status \union {"absent"}]
CardView == [Ids -> {"none", "pending", "finished"}]

ApprovalsTypeOK ==
    /\ approvals \in Seq(ApprovalRecord) /\ Len(approvals) <= MaxApprovals
    /\ shown \in [Tabs -> View]
    /\ cards \in [Tabs -> CardView]
    /\ responses \in Seq(Response)
    /\ fetched \in [Tabs -> [at : {"idle", "answered"}, list : View]]

\* A decision is taken once: what one response has decided, no other response (from
\* another tab, or sent twice) and no time-out changes (update_status, cleanup_expired).
DecidedOnce ==
    [][\A a \in 1..Len(approvals) :
          approvals[a].status # "pending" => approvals'[a].status = approvals[a].status]_approvalVars

\* The user of a tab has answered an approval there.
AnsweredIn(t, a) ==
    \E r \in 1..Len(responses) : responses[r].tab = t /\ responses[r].id = a

\* A tab shows an approval as approved, rejected or timed out only when its process has
\* resolved it: neither a failed response nor an old list that arrives late can make an
\* undecided one look decided (respondApproval, fetchApprovals).  That is the approval
\* store.  The card in the chat is not held to it: it says "finished" from the click on
\* (ApprovalCard.tsx, useChat.ts), whether or not the request succeeds, and so promises
\* only that the user of that tab has answered, though no process may have heard of it.
ShownIsResolved ==
    \A t \in Tabs : \A a \in 1..Len(approvals) :
        /\ shown[t][a] \notin {"pending", "absent"} => approvals[a].status # "pending"
        /\ cards[t][a] = "finished" => AnsweredIn(t, a)

=============================================================================
