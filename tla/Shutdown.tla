------------------------------ MODULE Shutdown ------------------------------
(***************************************************************************)
(* brain/rabbit_brain/runtime.py, run(): how the runtime stops.  The first *)
(* interrupt, or the end of the pipeline, starts a teardown of steps in    *)
(* order, each under a timeout; a later interrupt is to force the exit.    *)
(* Then run() returns, and asyncio.run() cancels what is left and awaits   *)
(* it.                                                                     *)
(*                                                                         *)
(* A cancellation is an exception in a task, and a task may swallow it: so *)
(* do the pipeline where it settles, and the audio loop while it awaits a  *)
(* local playback.  asyncio.wait_for() cancels a task whose time is over   *)
(* and awaits its end, however long that takes.                            *)
(***************************************************************************)
EXTENDS Integers

CONSTANTS
    Backends,      \* who plays: "rabbit", "local" (audio_out.backend)
    MaxAudio,      \* bound: utterances submitted and not yet played
    MaxInterrupts  \* bound: interrupts

ASSUME ShutdownAssumption ==
    /\ Backends \subseteq {"rabbit", "local"}
    /\ MaxAudio \in Nat
    /\ MaxInterrupts \in Nat

VARIABLES
    backend,    \* the audio backend in use
    pipeline,   \* where VoicePipeline.run() is
    turn,       \* the task of _handle_wake() that processes a transcript runs
    lane,       \* where BodyController._audio_loop() is
    audio,      \* the utterances in its queue
    interrupts, \* SIGINT and SIGTERM received
    stop,       \* the event stop
    force,      \* the event force_stop
    at,         \* 0 before the teardown, a step of it, or beyond
    expired     \* the timeout of the step has passed

signals == <<interrupts, stop, force>>
vars == <<backend, pipeline, turn, lane, audio, signals, at, expired>>

\* The steps of _teardown(): pipeline_task, pipeline.aclose, events_task,
\* controller_task, listener.stop, speech.aclose, llm.aclose.
PipelineStep == 1
FeedbackStep == 2
ControllerStep == 4
ListenerStep == 5
LastStep == 7
TeardownSteps == PipelineStep..LastStep
\* run() leaves the adapter's block; asyncio.run() awaits the tasks; the end.
Leaving == 8
Collecting == 9
Exited == 10

Init ==
    /\ backend \in Backends
    /\ pipeline = "listening" /\ turn = FALSE
    /\ lane = "waiting" /\ audio = 0
    /\ interrupts = 0 /\ stop = FALSE /\ force = FALSE
    /\ at = 0 /\ expired = FALSE

-----------------------------------------------------------------------------
\* The pipeline and its turn

PipelineUnchanged == UNCHANGED <<backend, lane, audio, signals, at, expired>>

Wakes ==
    /\ pipeline = "listening"
    /\ pipeline' = "recording"
    /\ UNCHANGED turn
    /\ PipelineUnchanged

\* A transcription that is given up, a feedback or a conversation's cleanup is
\* awaited with CancelledError suppressed.
Settles ==
    /\ pipeline = "recording"
    /\ pipeline' = "settling"
    /\ UNCHANGED turn
    /\ PipelineUnchanged

\* How a turn goes on from there: rearmed, or with a transcript.
GoesOn ==
    \/ pipeline' = "listening" /\ UNCHANGED turn
    \/ pipeline' = "processing" /\ turn' = TRUE

Settled ==
    /\ pipeline = "settling"
    /\ GoesOn
    /\ PipelineUnchanged

\* Whoever has been cancelled while draining has left the turn to itself.
Submits ==
    /\ turn
    /\ audio < MaxAudio
    /\ audio' = audio + 1
    /\ UNCHANGED <<backend, pipeline, turn, lane, signals, at, expired>>

TurnEnds ==
    /\ turn
    /\ turn' = FALSE
    /\ pipeline' = IF pipeline = "processing" THEN "listening" ELSE pipeline
    /\ PipelineUnchanged

\* The capture ends, or an exception leaves run(): the done callback sets stop.
PipelineEnds ==
    /\ pipeline # "ended"
    /\ pipeline' = "ended"
    /\ stop' = TRUE
    /\ UNCHANGED <<backend, turn, lane, audio, interrupts, force, at, expired>>

\* pipeline_task.cancel(): swallowed where CancelledError is suppressed.
PipelineCancelled ==
    IF pipeline = "settling"
    THEN GoesOn /\ UNCHANGED stop
    ELSE pipeline' = "ended" /\ stop' = TRUE /\ UNCHANGED turn

-----------------------------------------------------------------------------
\* The audio lane

LaneUnchanged == UNCHANGED <<backend, pipeline, turn, signals, at, expired>>

\* A local playback is a task: it sounds once it has been created.
Playing == IF backend = "local" THEN "sounding" ELSE "calling"

Pops ==
    /\ lane = "waiting" /\ audio > 0
    /\ lane' = Playing
    /\ audio' = audio - 1
    /\ LaneUnchanged

CallReturns ==
    /\ lane = "calling"
    /\ lane' \in {"sounding", "waiting"}
    /\ UNCHANGED audio
    /\ LaneUnchanged

SoundEnds ==
    /\ lane = "sounding"
    /\ lane' = "waiting"
    /\ UNCHANGED audio
    /\ LaneUnchanged

\* (mutant) the next utterance is taken from a queue that may be empty.
LaneCancelledBlindly ==
    IF lane = "sounding" /\ backend = "local"
    THEN lane' = "sounding" /\ audio' = audio - 1
    ELSE lane' = "ended" /\ UNCHANGED audio
\* The loop is cancelled.  LocalPlaybackHandle.wait_finished() suppresses it, and
\* the loop goes on with the next utterance.
LaneCancelled ==
    IF lane = "sounding" /\ backend = "local"
    THEN IF audio > 0 THEN lane' = "sounding" /\ audio' = audio - 1
                      ELSE lane' = "waiting" /\ UNCHANGED audio
    ELSE lane' = "ended" /\ UNCHANGED audio

-----------------------------------------------------------------------------
\* The signals and the teardown

\* (mutant) every interrupt is the first.
OnSignalAgain == stop' = TRUE /\ UNCHANGED force
OnSignal ==
    IF stop THEN force' = TRUE /\ UNCHANGED stop
            ELSE stop' = TRUE /\ UNCHANGED force

Interrupt ==
    /\ at # Exited
    /\ interrupts < MaxInterrupts
    /\ interrupts' = interrupts + 1
    /\ OnSignal
    /\ UNCHANGED <<backend, pipeline, turn, lane, audio, at, expired>>

Begins ==
    /\ stop /\ at = 0
    /\ at' = PipelineStep
    /\ PipelineCancelled
    /\ UNCHANGED <<backend, lane, audio, interrupts, force, expired>>

\* (mutant) a task that does not end in time is left behind.
StepOverOrExpired == at = PipelineStep => pipeline = "ended" \/ expired
\* What a step awaits is over, in time or because it was cancelled.  The
\* controller's gather() ends with the first of its loops, and the motion loop
\* ends when it is cancelled.
StepOver == at = PipelineStep => pipeline = "ended"

\* Past FeedbackStep the events and the controller are cancelled.
StepEnds ==
    /\ at \in TeardownSteps
    /\ StepOver
    /\ at' = at + 1 /\ expired' = FALSE
    /\ IF at = FeedbackStep THEN LaneCancelled ELSE UNCHANGED <<lane, audio>>
    /\ UNCHANGED <<backend, pipeline, turn, signals>>

\* A timeout is for what is not over.
Expires == ~StepOver

StepExpires ==
    /\ at \in TeardownSteps /\ ~expired
    /\ Expires
    /\ expired' = TRUE
    /\ PipelineCancelled
    /\ UNCHANGED <<backend, lane, audio, interrupts, force, at>>

\* os._exit() while the teardown is not done.
ForcedExit ==
    /\ force /\ at \in TeardownSteps
    /\ at' = Exited
    /\ UNCHANGED <<backend, pipeline, turn, lane, audio, signals, expired>>

\* The adapter is closed and run() returns: asyncio.run() cancels every task.
Leaves ==
    /\ at = Leaving
    /\ at' = Collecting
    /\ turn' = FALSE
    /\ LaneCancelled
    /\ UNCHANGED <<backend, pipeline, signals, expired>>

Exits ==
    /\ at = Collecting
    /\ lane = "ended"
    /\ at' = Exited
    /\ UNCHANGED <<backend, pipeline, turn, lane, audio, signals, expired>>

-----------------------------------------------------------------------------
Alive == at # Exited

Input == Wakes \/ Settles \/ Settled \/ Submits \/ TurnEnds \/ PipelineEnds
Lane == Pops \/ CallReturns \/ SoundEnds
Teardown == Begins \/ StepEnds \/ StepExpires \/ ForcedExit \/ Leaves \/ Exits

Next == Interrupt \/ (Alive /\ (Input \/ Lane)) \/ Teardown

Spec == Init /\ [][Next]_vars

\* Tasks are scheduled, what is called returns, sounds end and timeouts pass.
\* Nobody owes an interrupt or a wake word.
FairSpec ==
    /\ Spec
    /\ WF_vars(Alive /\ TurnEnds)
    /\ WF_vars(Alive /\ Lane)
    /\ WF_vars(Teardown)
    /\ WF_vars(ForcedExit)

TypeOK ==
    /\ backend \in Backends
    /\ pipeline \in {"listening", "recording", "settling", "processing", "ended"}
    /\ turn \in BOOLEAN
    /\ lane \in {"waiting", "calling", "sounding", "ended"}
    /\ audio \in 0..MaxAudio
    /\ interrupts \in 0..MaxInterrupts
    /\ stop \in BOOLEAN /\ force \in BOOLEAN
    /\ at \in 0..Exited
    /\ expired \in BOOLEAN
-----------------------------------------------------------------------------
\* Properties

\* "ordered teardown: stop input, then body, then servers/sessions"
\* (runtime.py:381): a pipeline that swallows its cancellation keeps the body
\* alive, it is not left behind to submit to a body that is gone; and with the
\* rabbit's own playback the audio loop is over before the servers are closed,
\* although a turn that lost its pipeline may still be submitting a reply.
TeardownInOrder ==
    /\ at \in (FeedbackStep + 1)..Collecting => pipeline = "ended"
    /\ at \in ListenerStep..Collecting /\ backend = "rabbit" => lane = "ended"

\* A stop leads to the end of the process, whatever is queued, called or played
\* and whoever swallows a cancellation once ("bounded so a stuck one can't block
\* the rest", runtime.py:56), except in two ways: the pipeline swallows its
\* second cancellation and nobody interrupts again, or the audio loop swallows
\* its second one and waits for an utterance that nobody will submit.
ShutdownEnds ==
    stop ~> \/ at = Exited
            \/ [](at = PipelineStep /\ expired /\ interrupts < 2)
            \/ [](at = Collecting /\ backend = "local" /\ lane = "waiting")

\* "stopping (interrupt again to force-quit)" (runtime.py:369): whenever they
\* come, two interrupts are enough.
InterruptAgainQuits == interrupts >= 2 ~> at = Exited
=============================================================================
