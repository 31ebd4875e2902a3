-------------------------------- MODULE Talk --------------------------------
(***************************************************************************)
(* What a realtime conversation promises the pipeline, and the pipeline in *)
(* return: its player starts only between the opening and the closing, it  *)
(* comes to one end, which may be a failure, and once closed it is silent; *)
(* none is opened after one that failed.  RealtimeSession implements one   *)
(* such conversation, VoicePipeline goes through them one after another.   *)
(***************************************************************************)
VARIABLES
    phase,     \* none; open; or over, when it has ended and is not closed
    sounding,  \* its player plays
    failed     \* a conversation has failed, in this process

Init == phase \in {"none", "open"} /\ sounding = FALSE /\ failed = FALSE

Opens ==
    /\ phase = "none" /\ ~failed
    /\ phase' = "open"
    /\ UNCHANGED <<sounding, failed>>

\* The factory raises.
OpenFails ==
    /\ phase = "none"
    /\ failed' = TRUE
    /\ UNCHANGED <<phase, sounding>>

Starts ==
    /\ phase # "none"
    /\ sounding' = TRUE
    /\ UNCHANGED <<phase, failed>>

\* Drained or cut, and a player that was abandoned plays to its end.
Stops ==
    /\ sounding' = FALSE
    /\ UNCHANGED <<phase, failed>>

Ends ==
    /\ phase = "open"
    /\ phase' = "over" /\ failed' \in BOOLEAN
    /\ UNCHANGED sounding

Closes ==
    /\ phase = "over"
    /\ phase' = "none" /\ sounding' = FALSE
    /\ UNCHANGED failed

\* The pipeline waits no longer for the session to close.
Abandoned ==
    /\ phase = "over"
    /\ phase' = "none"
    /\ UNCHANGED <<sounding, failed>>

\* A new process, after the audio device was lost.
Restarted ==
    /\ phase = "none"
    /\ sounding' = FALSE /\ failed' = FALSE
    /\ UNCHANGED phase

Next == Opens \/ OpenFails \/ Starts \/ Stops \/ Ends \/ Closes \/ Abandoned \/ Restarted

Spec == Init /\ [][Next]_<<phase, sounding, failed>>
=============================================================================
