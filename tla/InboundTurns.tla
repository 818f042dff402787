---------------------------- MODULE InboundTurns ----------------------------
(***************************************************************************)
(* One Agent Core process implements SessionTurns: the open turn of a      *)
(* session is the task that holds its lock.                                *)
(***************************************************************************)
EXTENDS InboundWorker

CONSTANT Process

ASSUME OneProcess == Workers = {Process}

Turns == INSTANCE SessionTurns WITH speaker <- lockOwner[Process]

(* Where one process serves the streams it keeps the conversation of every *)
(* session well-formed, across failures, timeouts and restarts.            *)
ImplementsTurns == Turns!Spec

(* What session.get_messages() hands to the model where one process serves *)
(* the streams: every answer right after the question it answers, and no   *)
(* question twice.  Of several processes, which docker starts, it is not   *)
(* true: their locks do not know of each other (SerialAcrossProcesses).    *)
WellFormedChat == Turns!Conversation
=============================================================================
