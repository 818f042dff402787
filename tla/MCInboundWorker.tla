-------------------------- MODULE MCInboundWorker --------------------------
(* Instances of InboundWorker for TLC: two processes for two messages of   *)
(* one session, or one process that works on these and on a message of     *)
(* another session, so that a task may hold one of two permits while it    *)
(* waits for a lock and a third task waits for a permit.                   *)
EXTENDS InboundWorker, TLC

CONSTANTS w1, w2, m1, m2, m3, s1, s2

VARIABLE crew \* the processes that are started

TwoSessions == m1 :> s1 @@ m2 :> s1 @@ m3 :> s2
OneStream == m1 :> 1 @@ m2 :> 1 @@ m3 :> 1

MCvars == <<vars, crew>>

MCInit == Init /\ crew \in {{w1}, {w1, w2}}

\* Two processes have two messages, and the first of them may stop (they are
\* alike); one process has three, and is not stopped.
MCNext ==
    /\ Next
    /\ UNCHANGED crew
    /\ \A w \in Workers \ crew : loop'[w] = "off"
    /\ IF crew = Workers THEN stage'[m3] = "unsent" /\ (loop[w2] = "off" \/ loop'[w2] # "off")
       ELSE halts' = 0

\* Fairness of InboundWorker, for the processes that are started.
MCFairness ==
    /\ \A w \in Workers :
        /\ WF_MCvars(w \in crew /\ Consume(w) /\ UNCHANGED crew)
        /\ WF_MCvars(AcquirePermit(w) /\ UNCHANGED crew)
        /\ \A s \in Sessions : WF_MCvars(AcquireSession(w, s) /\ UNCHANGED crew)
    /\ \A m \in Messages : WF_MCvars(Handle(m) /\ UNCHANGED crew)

MCSpec == MCInit /\ [][MCNext]_MCvars /\ MCFairness
=============================================================================
