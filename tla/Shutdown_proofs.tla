-------------------------- MODULE Shutdown_proofs --------------------------
(***************************************************************************)
(* Proofs about Shutdown, for any number of utterances and interrupts: the *)
(* typing, the order of the teardown, that interrupts are noticed, and     *)
(* that what asyncio.run() is left to await runs down.                     *)
(***************************************************************************)
EXTENDS Shutdown, TLAPS

\* TypeOK in two parts, since the events are Booleans and the rest is not.
Flags == turn \in BOOLEAN /\ stop \in BOOLEAN /\ force \in BOOLEAN /\ expired \in BOOLEAN

Places ==
    /\ backend \in Backends
    /\ pipeline \in {"listening", "recording", "settling", "processing", "ended"}
    /\ lane \in {"waiting", "calling", "sounding", "ended"}
    /\ audio \in 0..MaxAudio
    /\ interrupts \in 0..MaxInterrupts
    /\ at \in 0..Exited

\* What each step of the teardown leaves behind it: past the first the pipeline
\* has ended, whatever it swallowed, and past the third the rabbit's audio loop.
Behind ==
    /\ at \in FeedbackStep..Collecting => pipeline = "ended"
    /\ at \in (FeedbackStep + 1)..Collecting /\ backend = "rabbit" => lane = "ended"

IInv == Flags /\ Places /\ Behind

USE DEF PipelineStep, FeedbackStep, ControllerStep, ListenerStep, LastStep,
        TeardownSteps, Leaving, Collecting, Exited

-----------------------------------------------------------------------------
LEMMA InitInv == Init => IInv
<1> SUFFICES ASSUME Init PROVE IInv
  OBVIOUS
<1>1. Flags
  BY DEF Init, Flags
<1>2. Places
  BY ShutdownAssumption DEF Init, Places
<1>3. Behind
  BY DEF Init, Behind
<1> QED
  BY <1>1, <1>2, <1>3 DEF IInv

-----------------------------------------------------------------------------
\* Every step keeps the events Boolean.
LEMMA FlagsKept ==
    ASSUME Flags, Next
    PROVE  Flags'
<1> USE DEF Flags, signals
<1>1. CASE Interrupt
  BY <1>1 DEF Interrupt, OnSignal
<1>2. CASE Input
  BY <1>2 DEF Input, Wakes, Settles, Settled, GoesOn, Submits, TurnEnds, PipelineEnds,
              PipelineUnchanged
<1>3. CASE Lane
  BY <1>3 DEF Lane, Pops, CallReturns, SoundEnds, LaneUnchanged
<1>4. CASE Teardown
  BY <1>4 DEF Teardown, Begins, StepEnds, StepExpires, ForcedExit, Leaves, Exits,
              PipelineCancelled, GoesOn
<1> QED
  BY <1>1, <1>2, <1>3, <1>4 DEF Next

\* A pipeline that is cancelled goes on or ends, and an end is an end.
LEMMA CancelledPipeline ==
    ASSUME Places, PipelineCancelled
    PROVE  /\ pipeline' \in {"listening", "recording", "settling", "processing", "ended"}
           /\ pipeline = "ended" => pipeline' = "ended"
BY DEF Places, PipelineCancelled, GoesOn

\* A lane that is cancelled takes an utterance only where there is one; the
\* rabbit's own ends.
LEMMA CancelledLane ==
    ASSUME Places, LaneCancelled
    PROVE  /\ lane' \in {"waiting", "calling", "sounding", "ended"}
           /\ audio' \in 0..MaxAudio
           /\ backend # "local" \/ lane = "ended" => lane' = "ended"
BY ShutdownAssumption DEF Places, LaneCancelled

-----------------------------------------------------------------------------
\* The pipeline, its turn and the audio lane leave the teardown where it is.
LEMMA InputInv == ASSUME Places, Behind, Input PROVE Places' /\ Behind'
<1> USE ShutdownAssumption DEF Places, Behind, PipelineUnchanged, signals
<1>1. CASE Wakes
  BY <1>1 DEF Wakes
<1>2. CASE Settles
  BY <1>2 DEF Settles
<1>3. CASE Settled
  BY <1>3 DEF Settled, GoesOn
<1>4. CASE Submits
  BY <1>4 DEF Submits
<1>5. CASE TurnEnds
  BY <1>5 DEF TurnEnds
<1>6. CASE PipelineEnds
  BY <1>6 DEF PipelineEnds
<1> QED
  BY <1>1, <1>2, <1>3, <1>4, <1>5, <1>6 DEF Input

LEMMA LaneInv == ASSUME Places, Behind, Lane PROVE Places' /\ Behind'
<1> USE ShutdownAssumption DEF Places, Behind, LaneUnchanged, signals
<1>1. CASE Pops
  BY <1>1 DEF Pops, Playing
<1>2. CASE CallReturns
  BY <1>2 DEF CallReturns
<1>3. CASE SoundEnds
  BY <1>3 DEF SoundEnds
<1> QED
  BY <1>1, <1>2, <1>3 DEF Lane

LEMMA InterruptInv == ASSUME Places, Behind, Interrupt PROVE Places' /\ Behind'
BY ShutdownAssumption DEF Places, Behind, Interrupt

\* A step is left only when what it awaits is over.
LEMMA StepEndsInv == ASSUME Places, Behind, StepEnds PROVE Places' /\ Behind'
<1>1. /\ at \in PipelineStep..LastStep /\ at' = at + 1
      /\ pipeline' = pipeline /\ backend' = backend /\ interrupts' = interrupts
  BY DEF StepEnds, signals
<1>2. at' \in FeedbackStep..Leaving /\ pipeline = "ended"
  BY <1>1 DEF StepEnds, StepOver, Behind
<1>3. CASE at = FeedbackStep
  <2>1. LaneCancelled
    BY <1>3 DEF StepEnds
  <2> QED
    BY <1>1, <1>2, <1>3, <2>1, CancelledLane DEF Places, Behind
<1>4. CASE at # FeedbackStep
  <2>1. lane' = lane /\ audio' = audio
    BY <1>4 DEF StepEnds
  <2> QED
    BY <1>1, <1>2, <1>4, <2>1 DEF Places, Behind
<1> QED
  BY <1>3, <1>4

LEMMA TeardownInv == ASSUME Places, Behind, Teardown PROVE Places' /\ Behind'
<1>1. CASE Begins
  <2>1. at = 0 /\ at' = PipelineStep
    BY <1>1 DEF Begins
  <2> QED
    BY <1>1, <2>1, CancelledPipeline DEF Places, Behind, Begins
<1>2. CASE StepEnds
  BY <1>2, StepEndsInv
<1>3. CASE StepExpires
  BY <1>3, CancelledPipeline DEF Places, Behind, StepExpires
<1>4. CASE ForcedExit
  BY <1>4 DEF Places, Behind, ForcedExit, signals
<1>5. CASE Leaves
  <2>1. LaneCancelled /\ at = Leaving /\ at' = Collecting /\ interrupts' = interrupts
        /\ pipeline' = pipeline /\ backend' = backend
    BY <1>5 DEF Leaves, signals
  <2> QED
    BY <2>1, CancelledLane DEF Places, Behind
<1>6. CASE Exits
  BY <1>6 DEF Places, Behind, Exits, signals
<1> QED
  BY <1>1, <1>2, <1>3, <1>4, <1>5, <1>6 DEF Teardown

LEMMA NextInv == IInv /\ [Next]_vars => IInv'
<1> SUFFICES ASSUME IInv, [Next]_vars PROVE IInv'
  OBVIOUS
<1>1. CASE Next
  BY <1>1, FlagsKept, InterruptInv, InputInv, LaneInv, TeardownInv DEF Next, IInv
<1>2. CASE UNCHANGED vars
  BY <1>2 DEF IInv, Flags, Places, Behind, vars, signals
<1> QED
  BY <1>1, <1>2

\* The inductive invariant holds in every behaviour, with every swallowed
\* cancellation, for any number of utterances and interrupts.
THEOREM Invariance == Spec => []IInv
BY InitInv, NextInv, PTL DEF Spec

\* The variables keep their types.
THEOREM TypeCorrect == Spec => []TypeOK
<1>1. IInv => TypeOK
  BY DEF IInv, Flags, Places, TypeOK
<1> QED
  BY Invariance, <1>1, PTL

\* The servers are never closed before the rabbit's audio loop is over, nor the
\* body before the pipeline (runtime.py, _teardown()).
THEOREM OrderIsKept == Spec => []TeardownInOrder
<1>1. IInv => TeardownInOrder
  BY DEF IInv, Places, Behind, TeardownInOrder
<1> QED
  BY Invariance, <1>1, PTL

-----------------------------------------------------------------------------
\* The signals

\* The first interrupt stops, and a later one forces, whatever the teardown does.
Heard == /\ interrupts >= 1 => stop
         /\ interrupts >= 2 => force

LEMMA HeardStep == ASSUME IInv, Heard, [Next]_vars PROVE Heard'
<1>1. interrupts \in Nat
  BY ShutdownAssumption DEF IInv, Places
<1>2. CASE Interrupt
  <2>1. interrupts' = interrupts + 1 /\ OnSignal
    BY <1>2 DEF Interrupt
  <2>2. CASE stop
    BY <2>1, <2>2 DEF OnSignal, Heard
  <2>3. CASE ~stop
    <3>1. ~(interrupts >= 1)
      BY <2>3 DEF Heard
    <3>2. stop' /\ ~(interrupts' >= 2)
      BY <1>1, <2>1, <2>3, <3>1 DEF OnSignal
    <3> QED
      BY <3>2 DEF Heard
  <2> QED
    BY <2>2, <2>3
<1>3. ASSUME UNCHANGED <<interrupts, force>>, stop => stop'
      PROVE  Heard'
  BY <1>3 DEF Heard
<1>4. CASE Input \/ Lane \/ UNCHANGED vars
  <2>1. UNCHANGED <<interrupts, force>> /\ (stop => stop')
    BY <1>4 DEF Input, Wakes, Settles, Settled, GoesOn, Submits, TurnEnds, PipelineEnds,
                PipelineUnchanged, Lane, Pops, CallReturns, SoundEnds, LaneUnchanged,
                vars, signals
  <2> QED
    BY <1>3, <2>1
<1>5. CASE Teardown
  <2>1. UNCHANGED <<interrupts, force>> /\ (stop => stop')
    BY <1>5 DEF Teardown, Begins, StepEnds, StepExpires, ForcedExit, Leaves, Exits,
                PipelineCancelled, GoesOn, signals
  <2> QED
    BY <1>3, <2>1
<1> QED
  BY <1>2, <1>4, <1>5 DEF Next

\* A second interrupt is noticed whenever it comes (runtime.py, _on_signal()): when two
\* do not end the process, as shutdown_stuck finds, it is that nobody watches the event.
THEOREM SecondInterruptForces == Spec => [](interrupts >= 2 => stop /\ force)
<1>1. Init => Heard
  BY DEF Init, Heard
<1>2. IInv /\ Heard => (interrupts >= 2 => stop /\ force)
  <2> SUFFICES ASSUME IInv, Heard, interrupts >= 2 PROVE stop /\ force
    OBVIOUS
  <2>1. interrupts \in Nat
    BY ShutdownAssumption DEF IInv, Places
  <2>2. interrupts >= 1
    BY <2>1
  <2> QED
    BY <2>2 DEF Heard
<1> QED
  BY <1>1, <1>2, HeardStep, Invariance, PTL DEF Spec

-----------------------------------------------------------------------------
\* What asyncio.run() awaits

\* Nobody is left who submits.
Alone == at = Collecting => ~turn /\ pipeline = "ended"

LEMMA AloneStep == ASSUME IInv, Alone, [Next]_vars PROVE Alone'
<1>1. ASSUME UNCHANGED <<turn, pipeline>>, at' = Collecting => at = Collecting
      PROVE  Alone'
  BY <1>1 DEF Alone
<1>2. CASE Interrupt \/ Lane \/ ForcedExit \/ Exits \/ UNCHANGED vars
  <2>1. UNCHANGED <<turn, pipeline>> /\ (at' = Collecting => at = Collecting)
    BY <1>2 DEF Interrupt, Lane, Pops, CallReturns, SoundEnds, LaneUnchanged, ForcedExit,
                Exits, vars
  <2> QED
    BY <1>1, <2>1
<1>3. CASE Input
  BY <1>3 DEF Input, Wakes, Settles, Settled, GoesOn, Submits, TurnEnds, PipelineEnds,
              PipelineUnchanged, Alone
<1>4. CASE Begins \/ StepEnds \/ StepExpires
  <2>1. at' # Collecting
    BY <1>4 DEF Begins, StepEnds, StepExpires
  <2> QED
    BY <2>1 DEF Alone
<1>5. CASE Leaves
  <2>1. ~turn' /\ pipeline' = pipeline /\ at = Leaving
    BY <1>5 DEF Leaves
  <2>2. pipeline = "ended"
    BY <2>1 DEF IInv, Behind
  <2> QED
    BY <2>1, <2>2 DEF Alone
<1> QED
  BY <1>2, <1>3, <1>4, <1>5 DEF Next, Teardown

\* What the audio loop still has to do: a call, its sound, and as much for each
\* utterance in its queue.
Stations == IF lane = "calling" THEN 2 ELSE IF lane = "sounding" THEN 1 ELSE 0
Left == 3 * audio + Stations

LEMMA LaneGetsOn ==
    ASSUME Places, Lane
    PROVE  Left' < Left
<1>1. audio \in Nat
  BY ShutdownAssumption DEF Places
<1>2. CASE Pops
  <2>1. audio' = audio - 1 /\ Stations = 0
    BY <1>2 DEF Pops, Stations
  <2>2. Stations' = 1 \/ Stations' = 2
    BY <1>2 DEF Pops, Playing, Stations
  <2> QED
    BY <1>1, <2>1, <2>2 DEF Left
<1>3. CASE CallReturns
  <2>1. audio' = audio /\ Stations = 2
    BY <1>3 DEF CallReturns, Stations
  <2>2. Stations' = 0 \/ Stations' = 1
    BY <1>3 DEF CallReturns, Stations
  <2> QED
    BY <1>1, <2>1, <2>2 DEF Left
<1>4. CASE SoundEnds
  <2>1. audio' = audio /\ Stations = 1 /\ Stations' = 0
    BY <1>4 DEF SoundEnds, Stations
  <2> QED
    BY <1>1, <2>1 DEF Left
<1> QED
  BY <1>2, <1>3, <1>4 DEF Lane

\* While asyncio.run() awaits the audio loop nothing is added to what it has to do and
\* every step takes something away, or is one more interrupt, of which there are
\* finitely many, or the end: it ends, or is left waiting for an utterance.
RunsDown ==
    [][at = Collecting => \/ at' = Exited /\ lane = "ended"
                          \/ at' = Collecting /\ Left' < Left
                          \/ at' = Collecting /\ Left' = Left /\ interrupts' > interrupts]_vars
THEOREM LeftoverRunsDown == Spec => [](Left \in Nat) /\ RunsDown
<1>1. Init => Alone
  BY DEF Init, Alone
<1>2. IInv => Left \in Nat
  <2> SUFFICES ASSUME IInv PROVE Left \in Nat
    OBVIOUS
  <2>1. audio \in Nat /\ Stations \in Nat
    BY ShutdownAssumption DEF IInv, Places, Stations
  <2> QED
    BY <2>1 DEF Left
<1>3. IInv /\ Alone /\ [Next]_vars =>
          [at = Collecting => \/ at' = Exited /\ lane = "ended"
                              \/ at' = Collecting /\ Left' < Left
                              \/ at' = Collecting /\ Left' = Left /\ interrupts' > interrupts]_vars
  <2> SUFFICES ASSUME IInv, Alone, Next, at = Collecting
               PROVE  \/ at' = Exited /\ lane = "ended"
                      \/ at' = Collecting /\ Left' < Left
                      \/ at' = Collecting /\ Left' = Left /\ interrupts' > interrupts
    OBVIOUS
  <2>1. ~turn /\ pipeline = "ended"
    BY DEF Alone
  <2>2. ~Input
    BY <2>1 DEF Input, Wakes, Settles, Settled, Submits, TurnEnds, PipelineEnds
  <2>3. CASE Interrupt
    <3>1. interrupts' = interrupts + 1 /\ UNCHANGED <<at, lane, audio>>
      BY <2>3 DEF Interrupt
    <3>2. interrupts' > interrupts
      BY <3>1, ShutdownAssumption DEF IInv, Places
    <3> QED
      BY <3>1, <3>2 DEF Left, Stations
  <2>4. CASE Lane
    BY <2>4, LaneGetsOn DEF IInv, Lane, Pops, CallReturns, SoundEnds, LaneUnchanged
  <2>5. CASE Teardown
    BY <2>5 DEF Teardown, Begins, StepEnds, StepExpires, ForcedExit, Leaves, Exits
  <2> QED
    BY <2>2, <2>3, <2>4, <2>5 DEF Next
<1> QED
  BY <1>1, <1>2, <1>3, AloneStep, Invariance, PTL DEF Spec, RunsDown
=============================================================================
