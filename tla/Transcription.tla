--------------------------- MODULE Transcription ---------------------------
(***************************************************************************)
(* What the pipeline is promised of a transcription: a task that comes to  *)
(* one result, taken once; a provider that detects the end of a turn may   *)
(* announce it, but only while its task runs, and never that of another    *)
(* turn.  VoicePipeline is built on this promise; SttTurn implements it.   *)
(***************************************************************************)
CONSTANT Detecting  \* the providers that detect the end of a turn

VARIABLES
    provider,   \* the provider in use
    task,       \* none, running, or what the task came to
    endOfTurn   \* on_end_of_turn has been called in this turn

Results == {"text", "silence", "failed"}

Init == task = "none" /\ endOfTurn = FALSE

Starts ==
    /\ task = "none"
    /\ task' = "running"
    /\ UNCHANGED endOfTurn

Announces ==
    /\ task = "running"
    /\ provider \in Detecting
    /\ endOfTurn' = TRUE
    /\ task' \in Results \cup {"running"}

ComesTo ==
    /\ task = "running"
    /\ task' \in Results
    /\ UNCHANGED endOfTurn

\* The pipeline gives the turn up: the task is over before it goes on.
Abandoned ==
    /\ task = "running"
    /\ task' = "none" /\ endOfTurn' = FALSE

Taken ==
    /\ task \in Results
    /\ task' = "none" /\ endOfTurn' = FALSE

Next == (Starts \/ Announces \/ ComesTo \/ Abandoned \/ Taken) /\ UNCHANGED provider

Spec == Init /\ [][Next]_<<provider, task, endOfTurn>>
=============================================================================
