--------------------------- MODULE MCSessionStore ---------------------------
(* Two messages of the stream and a posted one.  The turns of one process   *)
(* follow each other (Together), those of two processes need not (Apart).   *)
EXTENDS SessionStore, TLC

CONSTANTS t1, t2, r1, p1, p2, a1, a2

MCTurns == {t1, t2}
MCRequests == {r1}
MCProcs == {p1, p2}
MCAgents == {a1, a2}
Together == t1 :> p1 @@ t2 :> p1
Apart == t1 :> p1 @@ t2 :> p2
Alike == Permutations(MCAgents)
=============================================================================
