------------------------------ MODULE AudioGate ------------------------------
(***************************************************************************)
(* What audio_busy tells the pipeline of the controller's audio lane: the  *)
(* gate closes with the command that is accepted, stays closed while it is *)
(* owed or heard, and opens again after the sound.  BodyController         *)
(* implements this module, with its queue, its round-trips and its         *)
(* handles; the lane of VoicePipeline is made of its steps.                *)
(***************************************************************************)
EXTENDS Integers

VARIABLES
    reliable,   \* no reply is lost, and no estimate is short; fixed for a run
    owed,       \* audio commands accepted that have no handle yet
    playing,    \* the playback; "starting" is before its handle exists
    busy        \* audio_busy

Closed == owed > 0 \/ playing # "none"

Init == reliable \in BOOLEAN /\ owed = 0 /\ playing = "none" /\ busy = FALSE

\* A command for the lane is accepted, whatever it is doing.
Accepted ==
    /\ owed' = owed + 1
    /\ UNCHANGED playing

\* Commands that never sound: the pop throws them away (superseded, past their
\* deadline, or marked by interrupt() earlier on), or their call fails.
Discarded(n) ==
    /\ playing = "none"
    /\ n \in 1..owed
    /\ owed' = owed - n
    /\ UNCHANGED playing

\* The rabbit sounds before the controller has the reply to its request.
SoundStarts ==
    /\ owed > 0 /\ playing = "none"
    /\ playing' = "starting"
    /\ UNCHANGED owed

\* The reply; a short sound is over by then.
HandleSet ==
    /\ playing = "starting"
    /\ owed' = owed - 1
    /\ playing' \in {"sounding", "guard"}

\* A local playback begins with its handle; others may be discarded on the way.
PlaysAtOnce(n) ==
    /\ playing = "none"
    /\ n \in 1..owed
    /\ owed' = owed - n
    /\ playing' = "sounding"

\* The sound is over, which the controller does not know yet.
SoundEnds ==
    /\ playing = "sounding"
    /\ playing' = "guard"
    /\ UNCHANGED owed

GuardEnds ==
    /\ playing = "guard"
    /\ playing' = "none"
    /\ UNCHANGED owed

\* The playback raises, and the audio loop is over.
Sticks ==
    /\ playing = "sounding"
    /\ playing' = "stuck"
    /\ UNCHANGED owed

\* Otherwise the gate may open on a rabbit that sounds.
OpensEarly ==
    /\ ~reliable
    /\ \/ playing = "starting" /\ owed' = owed - 1
       \/ playing = "sounding" /\ UNCHANGED owed
    /\ playing' = "none"

Step ==
    \/ Accepted
    \/ \E n \in 1..owed : Discarded(n) \/ PlaysAtOnce(n)
    \/ SoundStarts \/ HandleSet \/ SoundEnds \/ GuardEnds \/ Sticks
    \/ OpensEarly

Next == Step /\ busy' = Closed' /\ UNCHANGED reliable

Spec == Init /\ [][Next]_<<reliable, owed, playing, busy>>
=============================================================================
