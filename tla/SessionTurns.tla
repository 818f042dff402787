---------------------------- MODULE SessionTurns ----------------------------
(***************************************************************************)
(* What the inbound worker promises about a conversation: a session has at *)
(* most one open turn, a turn asks at most once and is answered at most    *)
(* once, right after its question, and no message has a second turn.       *)
(***************************************************************************)
EXTENDS Integers, Sequences

CONSTANTS Sessions, Messages, None

VARIABLES
    speaker,   \* speaker[s]: the message whose turn is open in s, or None
    transcript \* transcript[s]: the messages stored in session s

Entry(who, m) == [who |-> who, msg |-> m]
Said(m) == \E s \in Sessions : \E i \in DOMAIN transcript[s] : transcript[s][i].msg = m
Say(s, who) == transcript' = [transcript EXCEPT ![s] = Append(@, Entry(who, speaker[s]))]

Init ==
    /\ speaker = [s \in Sessions |-> None]
    /\ transcript = [s \in Sessions |-> <<>>]

Open(s, m) ==
    /\ speaker[s] = None
    /\ ~ Said(m)
    /\ speaker' = [speaker EXCEPT ![s] = m]
    /\ UNCHANGED transcript

Ask(s) ==
    /\ speaker[s] # None
    /\ ~ Said(speaker[s])
    /\ Say(s, "user")
    /\ UNCHANGED speaker

Answer(s) ==
    /\ speaker[s] # None
    /\ transcript[s] # <<>>
    /\ transcript[s][Len(transcript[s])] = Entry("user", speaker[s])
    /\ Say(s, "assistant")
    /\ UNCHANGED speaker

\* A turn ends; when the process stops, all of them do.
Close(S) ==
    /\ \A s \in S : speaker[s] # None
    /\ speaker' = [s \in Sessions |-> IF s \in S THEN None ELSE speaker[s]]
    /\ UNCHANGED transcript

Next ==
    \/ \E s \in Sessions : Ask(s) \/ Answer(s)
    \/ \E s \in Sessions, m \in Messages : Open(s, m)
    \/ \E S \in SUBSET Sessions : Close(S)

Spec == Init /\ [][Next]_<<speaker, transcript>>

-----------------------------------------------------------------------------
(* Every answer follows the question it answers, with nothing in between,  *)
(* and no question is stored twice: what session.get_messages() hands to   *)
(* the model is a well-formed conversation.                                *)
Conversation ==
    \A s \in Sessions : \A i \in DOMAIN transcript[s] :
        LET e == transcript[s][i] IN
        /\ e.who = "assistant" => i > 1 /\ transcript[s][i - 1] = Entry("user", e.msg)
        /\ e.who = "user" => \A j \in DOMAIN transcript[s] : transcript[s][j] = e => i = j
=============================================================================
