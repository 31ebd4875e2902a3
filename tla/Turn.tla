-------------------------------- MODULE Turn --------------------------------
(***************************************************************************)
(* A turn from the wake word to the reply, and the next one: the           *)
(* transcription of SttTurn, and the agent of AgentLoop for a transcript   *)
(* that is not empty (VoicePipeline._handle_wake()).  The history is what  *)
(* one turn leaves to the next.                                            *)
(***************************************************************************)
EXTENDS SttTurn, AgentLoop

vars == <<sttVars, agentVars>>

Init == SttInit /\ AgentInit

Wakes == phase = "idle" /\ Starts /\ UNCHANGED agentVars

\* With the local endpointing the result is awaited once the stream is closed.
ResultTaken ==
    /\ stt \in Results
    /\ recording => primary \in Detecting
    /\ Over

\* The transcript goes to the agent.
Answers == stt = "text" /\ ResultTaken /\ Handles

\* Nothing was said, or an exception was handled: the wake word is armed again.
Rearms ==
    /\ stt = "silence" \/ (stt = "failed" /\ primary \notin Detecting)
    /\ ResultTaken
    /\ UNCHANGED agentVars

\* With Flux the failure ends the pipeline and the process; systemd starts it
\* again, with a history of nothing.
Restarts ==
    /\ stt = "failed" /\ primary \in Detecting
    /\ ResultTaken
    /\ history' = <<>> /\ refused' = 0
    /\ UNCHANGED <<phase, round, response, words, voice, queued, outcome, offered>>

\* The agent has returned; what it leaves to the next turn is the history.
Returned == Leaves /\ UNCHANGED sttVars

Next ==
    \/ Wakes \/ Answers \/ Rearms \/ Restarts \/ Returned
    \/ SttStep /\ UNCHANGED agentVars
    \/ AgentStep /\ UNCHANGED sttVars

Spec == Init /\ [][Next]_vars

\* Requests, responses and closings have timeouts; the tasks are scheduled; the
\* VAD gives every utterance an end and Flux a deadline.  A wake word is owed by
\* nobody, nor is another frame or another message.
FairSpec ==
    /\ Spec
    /\ WF_vars((TimesOut \/ Returns \/ DrainPulls \/ DrainEnds \/ PostAnswers) /\ UNCHANGED agentVars)
    /\ WF_vars((Closes \/ NobodySpeaks \/ Abandons) /\ UNCHANGED agentVars)
    /\ WF_vars(Answers \/ Rearms \/ Restarts \/ Returned)
    /\ WF_vars(AgentStep /\ UNCHANGED sttVars)
-----------------------------------------------------------------------------
TypeOK == SttTypeOK /\ AgentTypeOK

\* Every turn comes to an end and the wake word is armed again, whatever fails
\* and whatever the model keeps calling ("Every failure path stops cleanly",
\* agent.py:6).
TurnEnds == stt # "none" ~> stt = "none" /\ phase = "idle"
=============================================================================
