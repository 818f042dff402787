------------------------- MODULE MCWecomBotAdapter -------------------------
(* Instances of WecomBotAdapter for TLC: two messages of one chat, one of  *)
(* another.                                                                *)
EXTENDS WecomBotAdapter, TLC

CONSTANTS m1, m2, m3, s1, s2

Chats == m1 :> s1 @@ m2 :> s1 @@ m3 :> s2
=============================================================================
