--------------------------- MODULE MCInboundTurns ---------------------------
(* An instance of InboundTurns for TLC: two messages of one session and    *)
(* two blank ones of another, interchangeable each.                        *)
EXTENDS InboundTurns, TLC

CONSTANTS m1, m2, m3, m4, s1, s2

ChatSession == m1 :> s1 @@ m2 :> s1 @@ m3 :> s2 @@ m4 :> s2
OneStream == m1 :> 1 @@ m2 :> 1 @@ m3 :> 1 @@ m4 :> 1
Interchangeable == Permutations({m1, m2}) \cup Permutations({m3, m4})
=============================================================================
