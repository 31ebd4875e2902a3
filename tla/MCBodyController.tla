-------------------------- MODULE MCBodyController --------------------------
(***************************************************************************)
(* Small instances of BodyController for TLC: the rabbit's ears and one    *)
(* LED, two positions each, and a few of the calls the pipeline and the    *)
(* agent make, at the priorities and with the kinds of deadline they use.  *)
(***************************************************************************)
EXTENDS BodyController, TLC

MCParts == {"ears", "nose"}
MCValues == {0, 1}

Call(kind, target, priority, ttl) ==
    [kind |-> kind, target |-> target, pulse |-> FALSE, priority |-> priority, ttl |-> ttl]

\* DOA_REFLEX = 1, AGENT_EXPRESSION = 2, USER_SPEECH_SYNC = 3.
TurnEars == Call("ears", "ears" :> 1, 1, Never)
RestEars == Call("ears", "ears" :> 0, 2, 1)
PulseNose == [Call("leds", "nose" :> 1, 2, 0) EXCEPT !.pulse = TRUE]
NoseOff == Call("raw", "nose" :> 0, 2, 1)
PlayReply == Call("play", <<>>, 2, Never)
WakeBeep == Call("play", <<>>, 3, 0)
SayHello == Call("say", <<>>, 2, Never)

MCRequests == {TurnEars, RestEars, PulseNose, NoseOff, PlayReply, WakeBeep, SayHello}

Running(local, calls, wrong) == [localAudio |-> local, callers |-> calls, faults |-> wrong]

\* The rabbit plays and the network fails in every way; audio is local and its
\* device fails too; and with nothing but refusals, what the body and the
\* controller believe of each other.
MCRuns == {
    Running(FALSE, {TurnEars, WakeBeep, SayHello}, {"refused", "lost", "estimate"}),
    Running(TRUE, {TurnEars, WakeBeep, SayHello}, FaultKinds),
    Running(FALSE, {TurnEars, RestEars, NoseOff, PlayReply}, {"refused"}),
    Running(TRUE, {TurnEars, RestEars, PulseNose, PlayReply}, {"refused"}) }

\* Audio is local, and its device fails.
DeviceRuns == { Running(TRUE, {RestEars, PlayReply}, {"device"}) }
=============================================================================
