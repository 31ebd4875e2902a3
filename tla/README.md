# A verification project for nabaztag-ai

TLA+ models of the runtime that gives a Nabaztag rabbit a voice
(`src/brain`, `src/deploy`), checked with TLC on small instances, with theorems
proved by TLAPS for every value of their constants. Paths below are relative to
`src/brain/rabbit_brain/` unless they begin with `src/`.

## 1. The system

### 1.1 Components

| Component | State it keeps | Operations | Interacts through |
|---|---|---|---|
| Body controller `body/controller.py` | two priority heaps, `_dropped`, `_latest` (coalescing), the idle counter and event, a wake-up event per lane, the tracked body state, `_audio_inflight`, `_current_playback` | `submit`, `interrupt`, `wait_idle`, `run` (`_motion_loop`, `_audio_loop`), `audio_busy` | called by pipeline, agent, feedback tasks, TTS; calls the adapter or the local player |
| Adapter and playback `body/ojn_adapter.py`, `audio/output.py` | `_http_lock`, one timed handle or one local playback task | `set_ears`, `set_leds`, `play_chor`, `play_audio`, `say`, handles' `wait_finished`, `cancel` | HTTP to OpenJabNab, which gives no playback events; a local device that does |
| Streaming player `audio/streaming.py` | buffer, consumed frames, playing and drain state, generation, device latency | `write`, `stop`, `reset_position`, `has_unplayed_audio`, `played_ms`, `aclose`, the callback | PortAudio's thread calls `_callback`; events go to the loop by `call_soon_threadsafe` |
| Realtime session `llm/realtime.py` | response/item ids, audio per item, last activity, hang-up flag | `run` (the reader), `pump_microphone`, `converse`, `_barge_in`, `aclose` | WebSocket to the model; the player; UX callbacks |
| Voice pipeline `audio/pipeline.py` | wake state, realtime_failed, `_SpeakingState`, feedback tasks | `run`, `_handle_wake`, `_handle_wake_realtime`, the drains, feedback loops | owns the capture iterator; awaits STT, agent; submits to the controller; reads `audio_busy` |
| Recovery watchdog `src/deploy/rabbit_recovery.py` | last restart, restart count, give-up time | `gather_signals`, `decide`, `execute`, `run_loop` | reads `iw`, the access log, `ss`; restarts hostapd |
| Capture `audio/capture.py` | bounded queue, drop counter | callback, `frames` | PortAudio's thread to the pipeline |
| STT `stt/*` | a turn's audio queue, provider state | `transcribe` | WebSocket providers, a fallback chain |
| Agent loop `llm/agent.py`, `llm/tools.py` | the history | `handle`, `_run_rounds`, `_trim` | the model's API, the controller, TTS |
| TTS `tts/*` | MP3 files served over HTTP | `speak`, purge | submits `PlayAudioCommand`s |
| Runtime `runtime.py` | the tasks | start-up, ordered bounded teardown | creates everything |
| Wake, VAD, direction `audio/{wake,vad,doa}.py` | filters, hysteresis | `feed`, `estimate` | called per frame |
| Choreographies, events listener, mock, MCP server, OpenJabNab scripts | little or none | encoding, forwarding | the controller's `submit` |

### 1.2 What is hard, and what makes a component correct

* **Body controller.** Everything is on one asyncio loop, so a step is what a
  coroutine does between two awaits; the difficulty is what happens *at* the
  awaits. An entry can be superseded, expired, dropped by an interrupt, redundant,
  refused, or executed, and each of those paths must count it as finished exactly
  once. A command that has been popped and does not play yet is in no queue and
  in no handle. Correct: the counter is exact, no wake-up is lost, each lane
  serves in order, one at a time, nothing dropped is played, and the half-duplex
  gate is closed from `submit()` to the end of the sound.
* **Streaming player and realtime session.** PortAudio's thread consumes frames
  between any two reads of the loop. What the buffer holds, what the device
  holds and what the server believes are three different things. Correct:
  nothing audible is un-interruptible, what the model is told was heard was
  heard, and the indicators follow the speaker.
* **Recovery watchdog.** Three readings at three instants, any of which can fail;
  a policy of ages and counts carried through expiry, holds and crashes.
  Correct: a healthy rabbit is left alone, restarts are bounded, and an
  outage that a restart heals is healed.
* **Voice pipeline.** One owner of the capture iterator hands it to a turn or a
  conversation and must get back to the wake word on every path, without
  hearing the rabbit and without arming a rabbit that cannot speak.
* **Transcription.** A provider consumes frames while it fails; its fallback hears only
  what was kept of them. Its sender is a task of its own, and cancelling it may end the stream
  under the fallback. Correct: one result per turn, an end of turn that is never that of
  another, and no frame lost between the provider that fails and its fallback.
* **Agent loop.** The history is what one turn leaves to the next, and a provider refuses
  one whose calls have no results. Correct: the history stays whole through failures,
  rounds and trimming, and what the model said is spoken.
* **Shutdown.** A cancellation is an exception that a task may swallow, and
  `asyncio.wait_for` awaits the task it has cancelled. Correct: an order that is
  kept, and an end.

## 2. The plan

In order, the most important behaviour first.

1. `CommandLane`, `BodyController` and their proofs. *(done)*
2. `RabbitRecovery` and its proofs. *(done)*
3. `StreamingPlayer`, `RealtimeSession` and their proofs. *(done)*
4. `VoicePipeline`, with the realtime branch and an abstract audio lane, and its proofs;
   the recorder's limits are part of it. *(done)*
5. `Transcription`, what a transcription promises the pipeline; `SttTurn`, which implements
   it; and the proof. *(done)*
6. `AgentLoop`: rounds, tool calls, the history and its trimming, the reply and its
   voices; `Turn`, which composes it with `SttTurn`; and the proofs. *(done)*
7. `Shutdown`: the runtime's bounded teardown over the tasks it cancels, and its
   proofs. *(done)*
8. `AudioGate`: the half-duplex gate between the controller and the pipeline, stated once, so
   that `VoicePipeline` is built from its steps and `BodyController` shown to implement it; and
   `TranscriptionUsed`, the pipeline's side of `Transcription`. *(done)*
9. `Talk`: what a realtime conversation is to the pipeline, implemented by `RealtimeSession`
   (`TalkImplemented`) and kept to by `VoicePipeline` (`TalkUsed`). *(done)*
10. Left: `Shutdown` has a pipeline of its own, smaller than `VoicePipeline`, and no theorem
   relates the two.

## 3. The modules

### 3.1 CommandLane and BodyController

`CommandLane` is what a caller is promised of a lane: commands are accepted
under growing tickets, discarded or served, one at a time, the best first.
`BodyController` is the controller and what it drives. Its state is the
controller's (the comment beside each variable names the attribute), the two
places where the loops can be suspended (`motionAt`, `audioAt`), and the body itself
(`shown`, `speaker`), which the program cannot see. `Submit`, `Interrupt`, the
pops (`MotionNothing`, `MotionSuppress`, `MotionStart`, `AudioNothing`,
`AudioStart`, `AudioStartLocal`) and the replies are the code between two awaits. A pop
is one step, because `_pop_live` does not await: `FirstLive` is what it returns,
`PassedOver` what it throws away on the way. The lock of the adapter is the
value `"lock"` of a loop's place. A request is two steps, the body obeying and
the reply, so that a reply can be lost.

A behaviour is one run of the program, chosen in `Init` from `Runs`: which backend plays
(`localAudio`), which calls are made (`callers`), and what goes wrong (`faults`): `refused` (a
call fails before the body obeys), `lost` (after), `device` (a local playback raises), `estimate`
(the timed handle ends before the rabbit is silent). None of the three changes in a run. A
property that needs replies to arrive or devices to work says so itself: `HalfDuplex` and
`BeliefSound` are of the runs without the faults they name, and so are `GateReopensInTime` and
`IdleReturns`.

`MotionLane` and `AudioLane` are instances of CommandLane: the queue is the heap
without the dropped entries, serving is the round-trip of a gesture, and for
audio everything from the pop to the end of the playback.

`AudioGate` is what `audio_busy` tells the pipeline of all this: how many commands are accepted
and have no handle (`owed`), and how far the playback is (`playing`). `Gate` is its instance,
where `Owed` counts the whole heap, the entries that `interrupt()` has marked and no pop has thrown
away included, and the one being sent, as `audio_busy` does; `Playing` looks at the handle and at
the speaker. Commands can be discarded several at once (a pop
passes over all that expired), a local playback begins with its handle, and one that raises
stays (`Sticks`). `reliable` is FALSE when a reply can be lost or an estimate be short: then, and
only then, the gate may open early (`OpensEarly`).

A deadline is checked when the command is popped, and the adapter's lock is awaited after that:
behind a slow request of the other lane a command is sent past its deadline, against the word of
`controller.py:14` ("dropped, never fired late"). `LateByOneRequest` is what does hold: a command
that is sent late waited for the lock, and nothing else is sent before it. The property
bounds the delay, it does not forbid it.

### 3.2 StreamingPlayer and RealtimeSession

`StreamingPlayer` holds the player's variables and an operator per method;
`RealtimeSession` extends it with the session, the two tasks and the server.
The unit of time is the period of PortAudio's callback. `handed` is the device:
how many frames of each item it had been given k periods ago, so that what has been
heard is `handed[Latency]`; the program cannot see it. Where a handler takes the
player's lock several times without awaiting in between (write after reset, the
reading of `played_ms` before `stop()`), each is a step, and `LoopFree` keeps the
other coroutines out; the callback runs at any of these points. Between the callback's
locked part and its `_emit()` lies a state of its own (`emitting`).

Faults: `late` (deltas of a cancelled response), `send`, `fatal`, `preempt` (the
loop gets to run between the callback's lock and its `_emit`), `mic` (the capture is stopped, and
the pump returns "exhausted").

`Latency` is both what the player reads from the stream (`_latency_s`) and what the device holds. A
device that holds more than it reports is not modelled, nor one that reports nothing, for
which the code assumes a buffer of its own (`AssumedBuffer`, with a `Latency` of 0) when it judges
whether anything is audible and none when it counts what was heard: for such a device
`TruncateIsHonest` says nothing.

`_generation` needs no variable: every step that bumps it clears the buffer under
the same lock, and `write()` tags with the current one. Positions are in frames,
and the code's milliseconds are a multiple of them; the resampler's delay of a few
samples is left out. An open response and the user's speech follow the protocol
(`generating`, `userTalks`): the server cancels its response when it reports speech.
Only the server's turn detection is modelled (the runtime offers no other).

`Talk` is what the pipeline sees of all this: a conversation that is open, over and closed, a player
that sounds or does not, and a failure. `TalkImplemented` maps `pumpAt`, `playing` and the outcome to
it. A closing that is abandoned, or that loses the audio device, is `VoicePipeline`'s to take
(`Abandoned`, and its faults `hang` and `device`): here the socket and the device close.

### 3.3 RabbitRecovery

The watchdog's loop with its readings as separate steps, the rabbit, the access point
and the sockets moving between them. Times are kept as ages that stop at the
threshold they are compared with, which is all `decide()` distinguishes. `recent`,
`forgot` and `joined` are history, for the properties only. Not modelled: jumps
of the wall clock (the code uses `time.time()`), parsing, and the time the commands
take (seconds against thresholds of minutes).

A reading fails (and then says nothing), or is wrong (`Reads`). That of the log is wrong both
ways: `last_http_age()` goes back to the rotated logs when the end of the current one has no
request of the rabbit's, so that a rabbit that has just talked may be taken for a silent one.

After giving up the code starts the count again with each hold, so that the cap is that of a hold
(`HourlyBudget`). Its comments and a test promise a single retry: `RabbitRetries` adds to the
watchdog a history variable, whether it has given up in this outage, and states that
promise (`RetriesOncePerHold`), which the run `recovery_retry` refutes.

### 3.4 VoicePipeline

`at` is the place of `run()`: `idle` (the detector), `listening` and `awaiting` (the recording
and the transcript it waits for), `settling` (the feedback being awaited), `processing`,
`playing` and `flushing` (the three drains), and `opening` to `closing` for a conversation.
`dead` is the end of `run()`, after which systemd restarts the process (`Restart`). The
transcription, the feedback task and the task that answers the transcript step on
their own.

The unit of time is a captured block, and `elapsed` counts blocks since the deadline
in force was set. A pipeline that is pulling keeps up with the microphone (`Hear` waits
until the queue is empty); one that awaits anything else lets the queue fill, and
then lose its oldest block (`Pushed`). This is an assumption about the event loop: taking a
queued block costs no time that counts. The code's deadlines are of the wall clock, looked at
between two pulls, and a flush that is held up for more than its 80 ms
(`FLUSH_TIMEOUT_S`) arms the detector with blocks of the turn still queued, of the 300 that
fit. `FreshEars`, `DeafToItself` and the theorems about them rest on the loop being faster than that. A captured block carries whether the rabbit's
voice is in it and during what it was captured; `heard` says what the last block went to.

The controller's audio lane is `AudioGate`, reliable: each action of the lane is a step
of that module with what it means for the room. On the rabbit's own speaker a sound starts before
its handle exists and the timed handle outlasts it by a guard (`quiet`); a local playback begins and
ends with its handle, and only a local one sticks. The two exceptions of the controller (a
reply that is lost, an estimate that is short) are left to `BodyController`. A session's player may
sound as long as its device is open, while the socket is being closed too. The LEDs are what
the last choreography submitted leaves them at, as the controller serves one lane in order.
A realtime runtime plays locally (the configuration is refused otherwise). When a session cannot
be opened, the awaits of closing what it had opened are one step with the failure (`OpenFails`).

One path contradicts a comment, without a run of its own: a session that fails to open and loses
the audio device while it closes what it had opened raises inside the factory, where it is taken
for a failed session, and the wake word is armed on a dead backend, which `pipeline.py:385` ("NEVER
re-arm on a dead audio backend") excludes. `ArmedIsClean` speaks of the losses of a teardown;
`DeadBackendTakesTwoFaults` proves that nothing less than both faults arms a dead rabbit.

Faults: `stt` (a transcription raises, its fallback's too), `stuck` (the gate never opens
again), `session`, `device` (the audio device is not released) and `hang` (closing a
session exceeds its ceiling).

`TypeOK` bounds what the recorder has emitted by the larger of `_max_chunks` and the pre-roll
with two chunks: the limit is looked at after a chunk of speech, not after the pre-roll.

What the pipeline asks of a transcription (`SttEndsTurn`, `SttReturns`, `SttFails`) is the
promise of `Transcription`: it may fail even after it has announced the end of the turn, as
a provider whose closing outlasts its timeout leaves the rest to the fallback. `Promise` maps the
pipeline to that module; `TranscriptionUsed` says that what the pipeline does with a
transcription is allowed there, and `TranscriptionImplemented` of `SttTurn` that what a
transcription does is. In the same way `TalkUsed` maps its conversations to `Talk`, which
`RealtimeSession` implements: `TalkStarts` and `TalkEnds` are what the whole player comes down to.

### 3.5 Transcription and SttTurn

`SttTurn` is one call of `transcribe()`: the pipeline that feeds the stream and closes it
(`Feeds`, `Closes`, `NobodySpeaks`, `Abandons`), the queue of `_open_chunk_stream()`, the tee of
the fallback, the receiving loop and the sender's task, and the buffered provider that drains the
rest and posts it. Frames are numbers, so that what a provider was given can be
compared with what was fed. Flux detects the end of a turn, nova-3 does not; the
local profile is a buffered provider alone. Audio formats, the text of transcripts and the
fields of messages are left out; of a message the model keeps whether it can be read,
whether it is recognised (`SchemaThreshold` unrecognised ones before the first
recognised one are an error) and whether it has words or an end of turn.

Faults: `connect`, `send`, `message`, `drop`, `buffered`.

A stream that breaks is modelled where the code breaks it: cancelling a sender that awaits a
chunk ends the generator it awaits, cancelling one that sends does not. `deepgram.py:74` does not
await the sender it cancels; the model has it end at once, as the socket and the session are
closed, with awaits, before the exception reaches the fallback.

`UtteranceKept` is what holds of every failure: the frames the tee and the drain have kept and those
still queued are the utterance, in order and without a gap, and the rest is withheld from a buffered
provider only behind Flux (the drain is left out, `fallback.py:57-60`) or after the stream
broke. `FallbackHearsAll` is what `fallback.py:4` and `:58` promise: where the stream is going to
be closed the fallback is asked with all of it. The run `turn_fallback` refutes it: nova-3 fails
mostly while its sender awaits a chunk, the drain then finds a stream that has ended, and the
fallback is asked about the words spoken so far.

### 3.6 AgentLoop and Turn

`AgentLoop` is `handle()`: a request per round, the tools a response calls, the results, and
the reply synthesized and queued in one or two parts by the voice and its fallback. Of a message
it keeps what a provider checks, how many calls an assistant turn makes and how many results
a tool turn carries. Arguments are whatever JSON the model sent, which need not be an object.
`Accepted` is the provider's view of a history. What the tools submit to the body is the input of
`BodyController`.

`SilentOnlyIfWordless` counts the words of the responses that were executed: their text, or
the first `express` with a reply. The words of an `express` in the response that
runs out of rounds, and those of a second `express`, are lost, and nothing in the
repository says otherwise.

`Turn` composes the two: a wake word, a transcription, an agent for a transcript that is not
empty, and what that leaves to the next turn. A failed transcription ends the
process when the provider does the endpointing, which empties the history.

Faults: `provider` (a request fails), `voice` (a voice cannot synthesize).

### 3.7 Shutdown

`at` is the step of the teardown (the seven of `_teardown()`, named at their use), `Leaving` when
`run()` returns, `Collecting` while `asyncio.run()` cancels what is left and awaits it. The
pipeline and the audio lane are reduced to where a cancellation finds them:
`PipelineCancelled` and `LaneCancelled` are what it does there. `settling` are the places of the
pipeline where `CancelledError` is suppressed; a lane that awaits a local playback swallows it
too, and goes on with the next utterance. A second interrupt sets `force`, which only the
teardown watches.

Two things its comments say of a task that ignores its cancellation are not so, and have no run of
their own. `wait_for` awaits the task that it has cancelled, so that a step is over only when its
task is: a task "ignoring cancellation" does hold up the rest (`runtime.py:56`, `:382-384`), which
is why `TeardownInOrder` holds. And a pipeline that swallows its second cancellation waits in the
first step until somebody interrupts again, the first of the two exceptions that `ShutdownEnds`
names. The second is what `shutdown_stuck` shows.

## 4. What is checked

| Run | Question | Result |
|---|---|---|
| `body` | Four kinds of run, with every fault or with refusals only: `IdleExact`, `NoLostWakeup`, `HalfDuplex`, `BeliefSound`, `LateByOneRequest`, both lanes implement CommandLane, and `audio_busy` implements AudioGate; under fairness `GateReopensInTime`, `IdleReturns` | holds |
| `body_wedge` | Does the gate reopen when a local playback raises? | violated: the audio loop is over |
| `recovery_faults` | With readings that fail or are wrong, restarts that fail and crashes: `HourlyBudget`, `CooldownKept`, `NeverDisturbs`; under fairness `Heals` | holds |
| `recovery_retry` | Is a restart after giving up the only one of its hold? | violated: the hold ends with a fresh state |
| `realtime` | A conversation with failing sends, a breaking socket and a capture that stops: `TruncateIsHonest`, `DrainedIsSilence`, `NothingAudibleIgnored`, `UserHasTheFloor`, `SpeakingFollowsPlayer`; under fairness `FailureEndsIt` | holds |
| `realtime_idle` | Does the idle timeout wait for the playback? | violated: it counts from the last server event |
| `voice` | Turns and conversations with every fault: `DeafToItself`, `FreshEars`, `ArmedIsClean` (after a lost device too), and `TranscriptionUsed`; under fairness `Rearms`, `ListensAgain` | holds |
| `turn` | Turn after turn with every profile and every fault: `HistoryIsWhole`, `RefusedOnlySoOften`, `SilentOnlyIfWordless`, `UtteranceKept`, and SttTurn implements Transcription; under fairness `TurnEnds` | holds |
| `turn_fallback` | Is a fallback asked with the whole utterance, where the stream is going to be closed? | violated: the cancelled sender takes the stream with it |
| `turn_poison` | Is every turn's history acceptable for the next? | violated: out of rounds, a call is left without a result |
| `shutdown` | Interrupts at any moment: `TeardownInOrder`; under fairness `ShutdownEnds` | holds |
| `shutdown_stuck` | Do two interrupts end the process? | violated: the audio loop swallows a second cancellation, and nobody watches `force` any more |

The runs that pass check the type invariants as well. The six violations are disagreements between
the code and what its own comments say; PROJECT.json quotes them under `findings`.

`SpeakingFollowsPlayer` is checked without the fault `preempt`: if the callback's
thread is preempted between its lock and its `_emit`, a cut and a start can
reach the loop in the wrong order, and the indicator stays on. Only the
operating system decides how often that happens.

### Bounds

* Body: three submits (`MaxSubmits`), the smallest number with an entry being
  executed, one superseded or dropped, and one left to order against; one tick of the clock,
  so that a deadline of 0 or 1 is met or missed. Seven requests (`MCRequests`) between them have each
  kind of command, coalescing, a pulse (`PulseNose`), the three priorities the callers use, in
  both lanes, and deadlines; each of the four kinds of run has three or four of them. Two parts with
  two values each suffice to have belief and body disagree on one and agree on the other.
* Realtime: two items, so that a reset of the position happens; ten frames in
  deltas of five and blocks of two, so that the last block of a delta is filled in
  part; a latency of two periods above a debounce of one, the case in
  which the two windows of the code differ.
* Recovery: thresholds of 2 (staleness, cooldown), a cap of 2 and a hold of 7, longer
  than a burst of restarts, as in the default policy. There is no bound on the
  number of turns: ages saturate.

* Voice: five configurations, among them both ways of endpointing, with and without the beep,
  both backends, and realtime with each fallback. A queue of three blocks overflows and a
  flush of two does not empty it in one pull; a guard of two is the least for which
  a block that began in the sound is complete before the gate opens; a turn's
  limit of three and an utterance of at most three blocks let each way to end a recording
  happen before the others.
* Turn: two frames, so that a failure can fall between them; a threshold of two
  unrecognised messages; a history of two turns, so that trimming happens and an exchange
  that is refused has a whole one before or after it; one tool round, so that a turn
  may run out of rounds; eight responses (`MCResponses`), one for each way of having words or
  not. There is no bound on the number of turns.
* Shutdown: a reply in two parts (`MaxAudio`), the case in which a cancelled lane finds
  another utterance; three interrupts, one more than the code distinguishes.

The conversation and the shutdown end, so their runs do not check for deadlock; every
other run does.

### Fairness

* Body (`FairSpec`): asyncio runs every ready coroutine (weak fairness of each loop's
  step), a request is answered or times out (aiohttp's timeout), audio ends. Callers
  and the clock owe nothing.
* Realtime: the callback's thread, the loop's handlers and the microphone go on. The server
  and the user owe nothing.
* Recovery: the loop turns, and the clock ticks in between; `Tick` needs
  strong fairness, since it is disabled while a turn is under way.

* Voice: the microphone delivers, the loop runs what is ready, playbacks end, the agent's calls
  have timeouts, a transcription answers once its turn has ended or its stream is closed
  (before, it owes nothing), and systemd restarts. The user and the model owe nothing.
* Turn: requests, responses and the closing of a socket have timeouts, tasks are scheduled, the
  VAD gives every utterance an end (a limit of its length) and the pipeline gives Flux a
  deadline. Nobody owes a wake word, a further frame or a further message.
* Shutdown: tasks are scheduled, what is called returns, sounds end, timeouts pass, and
  the forced exit, which waits for an event that stays set, is taken. Nobody owes an
  interrupt.

## 5. What is proved

Every theorem is for arbitrary constants satisfying the named assumptions of its module
(`ConstantsAssumption`, `PlayerAssumption`, `SessionAssumption`, `PolicyAssumption`,
`PipelineAssumption`, `SttAssumption`, `AgentAssumption`, `ShutdownAssumption`): any number of
requests, parts and values, any block, latency and debounce, any policy, any limits of the
pipeline and the recorder, any script of the model.

* **`BodyController_proofs`.** `IInv` is TypeOK, NoLostWakeup and IdleExact with
  `QueuesOK` (sequence numbers tell the entries apart and are below the next, each
  heap holds its own kinds) and `LoopsOK` (a loop's place says what it holds, and what is
  being executed is in no queue). Without them IdleExact is not inductive: its count is
  a cardinality, and removing an entry from a set counts one less only if it was
  there, and once. Hence `TypeCorrect`, `IdleIsExact`, `NoWakeupIsLost`, `GateHasNoGap`.
* **`BodyLanes_proofs`.** Refinement of CommandLane by each lane: initial states map
  to initial states and every step to a step or a stutter. The heart is
  `FirstBeforeRest`, that what `_pop_live` leaves comes after what it returns, from the
  order being total on the queued entries. `NothingIsServedTwice` is read off that refinement: a
  sequence number that has left the lanes is never in one again. `TransportIsShared` says of the
  adapter's lock that a lane waits for it only while the other's request is out. `GateRefinement` refines AudioGate, with every
  fault: `Owed` is the cardinality of the unheard entries (`UnheardIs`), so that each step
  is shown to take away as many of them as it discards or serves (`OwedLess`), and the
  gate is closed exactly when something is owed or plays (`BusyIs`). `NoSelfHearing` and
  `SuppressionIsSound` are of the runs without the faults the properties name (`FaultsFixed`: a run
  keeps its faults), `LateByOneRequestAtMost` of every run: `FiresInTime` goes through the
  actions that put a command into `Fired`, and the lock passes to the loop that waits for it.
  `OnlyTheDeviceEndsIt` gives the cause of what `body_wedge` finds: refused calls and lost replies
  never end the audio loop, a local playback that raises does, and for good.
* **`RealtimeSession_proofs`.** `IInv` is TypeOK with `Accounted` (what the buffer and
  the counter hold belongs to the item the playback is accounted against),
  `DeviceFlows` (what the device was given k periods ago is what it has now less at most k
  blocks), `Silences` (an age of silence is that many periods in which nothing was
  handed over) and `Read` (what a barge-in has read stays true until it is sent). Then
  `TruncatesAreHonest`: consumed frames less the latency's worth of blocks are at most what
  was heard of the item, and what is heard only grows. `DrainedMeansSilence` and
  `NothingAudibleIsIgnored` follow from Silences, since both windows are at least the latency.
  With every fault on. `FloorIsTheUsers` assumes that no delta of a cancelled response arrives late
  (`Floor`: while the user talks no response is under way and none is being written), and
  `IndicatorIsRight` that the callback is not preempted before its `_emit` (`Announced`: the
  last event on its way, or else the indicator, says whether the player is playing).
  `ConversationEndsWell` and `TalkRefinement` are what the pipeline rests on: a failed reader's error is
  the outcome whichever task ends first, and the session is one conversation of `Talk`, silent
  once closed.
* **`RabbitRecovery_proofs`.** `IInv` is TypeOK with `StateCounts` (what the carried state
  says of the restarts of the last hold) and `SeenIsTrue` (a reading of "not associated" is
  right until the rabbit joins). `RestartsAreBounded`, `CooldownIsKept`, `HealthyUndisturbed`.
  `RestartIsNear` bounds the other way: `Delay`, how far away the state carried puts the next
  restart, is at most a cooldown and a hold, is not put off while nothing is restarted, shrinks
  with the clock wherever `decide()` says to wait, and where it does not, the signals of an
  outage restart hostapd or begin the hold. It assumes a cap of at least one restart.

* **`VoicePipeline_proofs`.** `IInv` is TypeOK in parts with `Counts` (a recording that goes on
  has reached none of the recorder's limits), `Tasks` (each task belongs to a place, the LEDs to a
  task), `Flushing` (outside a turn the queue holds nothing of one; a flush that has
  heard a block has at most one queued), `Hushed` and `Quiet` (with its own speaker, once the gate has been
  open for long enough to complete a block, nothing queued has the rabbit's voice in it).
  Neither `FreshEars` nor `DeafToItself` is inductive alone: they speak of the block just fed,
  and what matters is the queue it came from. `ShapeStep` reduces every step to four kinds, and
  the invariants of the queue are proved of those. Hence `RabbitIgnoresItself`, `EarsAreFresh`
  and `NothingIsLeftOver`, with every fault on; the guard of at least two
  blocks is the assumption that `DeafToItself` rests on. `PromiseIsUsed` refines Transcription
  from the side of its caller; with `PromiseIsKept` it closes the argument for the pipeline's use
  of its transcriptions. `WaitsAreBounded` is the part of `Rearms` that is safety: where the
  microphone is awaited the deadline in force has not passed. It is stated of an empty queue, as what
  has piled up in it is read after the deadline too. From `Losses`
  (no conversation after a failed one, and only an opening that fails goes on without its
  device) come `FailureIsForGood` and `DeadBackendTakesTwoFaults`: the comment of `pipeline.py:385` is true as soon as no session
  fails, or none that fails loses the device. `TalkIsUsed` rests on `Losses` too:
  no conversation is opened after one that failed.
* **`SttTurn_proofs`.** `IInv` is its TypeOK with what the stream holds in each place: the
  frames consumed and those queued are those fed, in order, unless the stream is broken. Hence
  `NoFrameIsLost`, with every provider and fault, and `PromiseIsKept`, the refinement of Transcription: each step of
  `SttTurn` and of the turn around it starts, announces, ends, abandons or takes the task, or
  leaves it alone.
* **`AgentLoop_proofs`.** Over `Turn`, so that a history passes from turn to turn. The history
  is inductively a sequence of exchanges whose calls are answered, except the last of an exchange;
  trimming cuts at a user's turn and keeps it so. `RefusalsAreBounded` counts the user turns
  after an unanswered call, which every refused turn adds to and trimming limits. `PoisonIsExhaustion` gives the
  cause of what `turn_poison` finds: of all ways a turn can end, only running out of rounds
  with calls pending leaves a history that is refused. `Counted` finds the round
  of a turn in the number of messages since its transcript, so that the history itself shows that the
  rounds were used up (`Exhausted`), and still does after it was trimmed.
* **`Shutdown_proofs`.** `IInv` is TypeOK with what each step of the teardown has seen end.
  `OrderIsKept` rests on `asyncio.wait_for` awaiting the task it cancelled. `SecondInterruptForces`
  gives the cause of what `shutdown_stuck` finds: the second interrupt is always noticed, and where
  it ends nothing, nobody watches it any more. `LeftoverRunsDown` shows that what the audio loop has
  left to do while `asyncio.run()` awaits it only decreases.

Each `IInv` was checked by TLC as an invariant before it was proved, and so were `TalkImplemented`
and `TalkUsed` as properties of the runs `realtime` and `voice`, which the table of section 4 leaves
out: what is proved needs no run.

Only model-checked: the liveness properties (`GateReopensInTime`, `IdleReturns`, `Heals`,
`FailureEndsIt`, `Rearms`, `ListensAgain`, `TurnEnds`, `ShutdownEnds`); TLAPS does not prove
liveness under fairness. Of four of them the part that is safety is proved: a measure that the steps
decrease (`RestartIsNear` for `Heals`, `LeftoverRunsDown` for `ShutdownEnds`), a deadline that is
not waited past (`WaitsAreBounded` for `Rearms`), and an end that is the right one
(`ConversationEndsWell` for `FailureEndsIt`). What is missing is that the steps are taken, which
is the fairness of section 4. Every safety property of the runs that pass is proved.

## 6. What is not modelled, and why

* The MP3 server of the TTS and its purge: files and their ages, no ordering with the rest
  but that a file outlives its playback, which the model cannot time.
* The validation of tools' arguments beyond their being an object, and the
  text of what a tool returns; the encoding of what a tool submits.
* The services behind the providers, and the LEDs after a shutdown: the teardown does not
  put them off. systemd's `TimeoutStopSec` kills a process that hangs in `Collecting`.
* Formats: choreographies, URLs, MP3, base64, resampling, log parsing. No state and no
  ordering depends on them.
* Signal processing: wake-word scores, VAD probabilities, direction estimates.
* Of the voice pipeline: the choice among feedback choreographies and the direction of
  arrival; a microphone that stalls. Four behaviours its properties step around, and
  PROJECT.json lists among the hazards: a transcription that fails ends the process
  when the provider does the endpointing; a local beep that sticks holds the local endpointing, whose
  loop has no deadline; nothing is flushed after a conversation; and a capture that
  stalls is waited for without a limit.
* OpenJabNab, the firmware of the rabbit, the cloud services: only what the
  code sees of them, marked external in the map.
* Scripts for benchmarks, training and installation.
