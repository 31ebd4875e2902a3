--------------------------- MODULE VoicePipeline ---------------------------
(***************************************************************************)
(* brain/rabbit_brain/audio/pipeline.py: the one consumer of the           *)
(* microphone.  run() listens for the wake word, records a turn, has it    *)
(* answered, drains what the microphone heard meanwhile and arms the       *)
(* detector again; in realtime mode a wake opens a conversation instead.   *)
(*                                                                         *)
(* Around it: the capture queue, the transcription, the LISTENING feedback *)
(* and the agent's turn, each a task of its own; and the controller's      *)
(* audio lane, reduced to what audio_busy tells of it (BodyController is   *)
(* the lane itself).                                                       *)
(*                                                                         *)
(* The unit of time is a captured block.  A pipeline that is pulling keeps *)
(* up with the microphone: it takes what is queued before the next block   *)
(* is complete, so that no deadline passes, and no flush stops, with       *)
(* blocks in the queue.  The code's deadlines are of the wall clock, and   *)
(* an event loop held up longer than FLUSH_TIMEOUT_S is not modelled.  A   *)
(* pipeline that awaits something else lets the queue fill, and past       *)
(* Capacity lose its oldest block.                                         *)
(***************************************************************************)
EXTENDS Integers, Sequences

CONSTANTS
    Configs,      \* the configurations of the runtime
    Faults,       \* what can go wrong, see FaultKinds
    Capacity,     \* queue_blocks
    Guard,        \* blocks in PLAYBACK_GUARD_S, on the rabbit's backend
    TurnLimit,    \* blocks in turn_timeout_s
    DrainLimit,   \* blocks in PLAYING_DRAIN_TIMEOUT_S
    FlushBlocks,  \* blocks in FLUSH_TIMEOUT_S
    PreRoll,      \* _pre_roll_max
    StartLimit,   \* _timeout_chunks
    SilenceLimit, \* _silence_chunks
    MaxChunks     \* _max_chunks

\* stt: a transcription raises, its fallback's too; stuck: audio_busy never goes
\* down again; session: a conversation fails; device: the audio device is not
\* released; hang: closing a session exceeds its ceiling.
FaultKinds == {"stt", "stuck", "session", "device", "hang"}

Config == [provider: BOOLEAN,   \* detects_end_of_turn, as opposed to the local VAD
           realtime: BOOLEAN, indicator: BOOLEAN, beep: BOOLEAN,
           local: BOOLEAN]      \* audio_out.backend

ASSUME PipelineAssumption ==
    /\ Configs \subseteq {c \in Config : c.realtime => c.local}
    /\ Faults \subseteq FaultKinds
    /\ Capacity \in Nat \ {0}
    /\ FlushBlocks \in Nat \ {0}
    /\ {TurnLimit, DrainLimit, PreRoll} \subseteq Nat
    /\ {StartLimit, SilenceLimit, MaxChunks} \subseteq Nat \ {0}
    /\ Guard \in Nat \ {0, 1}

VARIABLES
    config,         \* what the runtime read at its start
    at,             \* where run() is
    captured,       \* AlsaCapture's queue, oldest first
    elapsed,        \* blocks since the deadline in force was set
    recorder,       \* the UtteranceRecorder
    stt,            \* the transcription's task
    outcome,        \* what _record_and_transcribe came to
    endOfSpeech,    \* end_of_speech.is_set()
    feedback,       \* the feedback task
    leds,           \* lit: an indicator was the last submitted, off: its terminator
    agent,          \* the task that has the transcript answered
    realtimeFailed, \* realtime_failed
    owed,           \* audio commands accepted that have no handle yet
    playing,        \* the playback; "starting" is before its handle exists
    quiet,          \* blocks since the rabbit fell silent, in its guard
    talking,        \* the realtime player sounds
    tail,           \* the block being captured has the rabbit's voice in it
    device,         \* the audio device, and when it was lost
    heard           \* what the last block went to, as a set of at most one

audio == <<owed, playing, quiet>>
room == <<talking, tail, device>>
turn == <<recorder, stt, outcome, endOfSpeech, feedback, agent>>
vars == <<config, at, captured, elapsed, turn, leds, realtimeFailed, audio, room, heard>>

Waiting == {"awaiting", "settling"}
Turn == {"listening", "processing", "playing", "flushing"} \cup Waiting
Conversation == {"opening", "conversing", "unwinding", "closing"}
Pulling == {"idle", "listening", "processing", "playing", "flushing", "conversing"}

Block == [voice: BOOLEAN, during: {"idle", "turn", "conversation"}]

Lower(a, b) == IF a <= b THEN a ELSE b
Higher(a, b) == IF a >= b THEN a ELSE b
Horizon == Higher(FlushBlocks, Higher(TurnLimit, DrainLimit) + 1)

\* (mutant) only a playback the controller knows of counts.
GatedByHandle == playing \in {"sounding", "guard", "stuck"}
\* _gated(), which is the controller's audio_busy.
Gated == owed > 0 \/ playing # "none"

Gate == INSTANCE AudioGate WITH reliable <- TRUE, busy <- Gated

FreshRecorder == [speaking |-> FALSE, waited |-> 0, silence |-> 0, emitted |-> 0]

Init ==
    /\ config \in Configs
    /\ at = "idle"
    /\ captured = <<>>
    /\ elapsed = 0
    /\ recorder = FreshRecorder
    /\ stt = "none" /\ outcome = "none" /\ endOfSpeech = FALSE
    /\ feedback = "none" /\ leds = "off" /\ agent = "none"
    /\ realtimeFailed = FALSE
    /\ owed = 0 /\ playing = "none" /\ quiet = 0
    /\ talking = FALSE /\ tail = FALSE /\ device = "fine"
    /\ heard = {}

-----------------------------------------------------------------------------
\* The microphone, and the controller's audio lane

Phase == IF at \in Turn THEN "turn"
         ELSE IF at \in Conversation THEN "conversation" ELSE "idle"

\* (mutant) no block makes room.
PushedUnbounded(queue, block) == Append(queue, block)
\* _push(): the oldest block makes room.
Pushed(queue, block) ==
    Append(IF Len(queue) = Capacity THEN Tail(queue) ELSE queue, block)

\* The next block is complete.  A pipeline that pulls has taken those before it.
Hear ==
    /\ at # "dead"
    /\ at \in Pulling => captured = <<>>
    /\ captured' = Pushed(captured, [voice |-> tail, during |-> Phase])
    /\ tail' = (playing \in {"starting", "sounding"} \/ talking)
    /\ quiet' = IF playing = "guard" THEN Lower(quiet + 1, Guard) ELSE quiet
    /\ elapsed' = Lower(elapsed + 1, Horizon)
    /\ heard' = {}
    /\ UNCHANGED <<config, at, turn, leds, realtimeFailed, owed, playing, talking, device>>

\* The lane takes the steps of AudioGate.  The rabbit's sound is in the room from
\* its first step on; its own speaker has a guard of so many blocks after it.
SoundStarts ==
    /\ ~config.local
    /\ Gate!SoundStarts
    /\ tail' = TRUE
    /\ UNCHANGED <<quiet, talking, device>>

HandleSet ==
    /\ Gate!HandleSet
    /\ quiet' = 0
    /\ UNCHANGED room

PlaysAtOnce(n) ==
    /\ config.local
    /\ Gate!PlaysAtOnce(n)
    /\ tail' = TRUE
    /\ UNCHANGED <<quiet, talking, device>>

Discarded(n) ==
    /\ Gate!Discarded(n)
    /\ UNCHANGED <<quiet, room>>

SoundEnds ==
    /\ Gate!SoundEnds
    /\ quiet' = 0
    /\ UNCHANGED room

\* A local handle ends with its playback, a timed one outlasts it by the guard.
GuardEnds ==
    /\ config.local \/ quiet = Guard
    /\ Gate!GuardEnds
    /\ UNCHANGED <<quiet, room>>

\* The audio loop is over (BodyController's AudioLoopDies).
GateSticks ==
    /\ "stuck" \in Faults
    /\ config.local
    /\ Gate!Sticks
    /\ UNCHANGED <<quiet, room>>

AudioLane ==
    \/ SoundStarts \/ HandleSet \/ SoundEnds \/ GuardEnds
    \/ \E n \in 1..owed : PlaysAtOnce(n) \/ Discarded(n)

OutsideAudio == <<config, at, captured, elapsed, turn, leds, realtimeFailed, heard>>

-----------------------------------------------------------------------------
\* run(): one pull of the microphone, and what is done with the block

Pull == captured # <<>> /\ captured' = Tail(captured)
Feed(listener) == heard' = {[to |-> listener, block |-> Head(captured)]}
Discard == heard' = {}

IdleUnchanged == UNCHANGED <<config, at, elapsed, turn, leds, realtimeFailed, audio, room>>

\* While the gate holds the detector is reset and the block discarded.
IdleDiscards == at = "idle" /\ Pull /\ Gated /\ Discard /\ IdleUnchanged

IdleListens == at = "idle" /\ Pull /\ ~Gated /\ Feed("detector") /\ IdleUnchanged

Conversational == config.realtime /\ ~realtimeFailed

\* _handle_wake(): the beep is submitted, the feedback spawned, the
\* transcription started, and the recording begins.
WakesToTurn ==
    /\ at = "idle" /\ Pull /\ ~Gated /\ Feed("detector")
    /\ ~Conversational
    /\ at' = "listening"
    /\ IF config.beep THEN Gate!Accepted ELSE UNCHANGED owed
    /\ stt' = "running" /\ outcome' = "none"
    /\ recorder' = FreshRecorder
    /\ endOfSpeech' = FALSE /\ feedback' = "spawned"
    /\ elapsed' = 0
    /\ UNCHANGED <<config, agent, leds, realtimeFailed, playing, quiet, room>>

-----------------------------------------------------------------------------
\* _record_provider_endpointed(): the loop's conditions are read after a pull

\* (mutant) a task that failed is not done.
SttReturned == stt \in {"text", "silence"}
\* stt_task.done()
SttOver == stt \in {"text", "silence", "failed"}

\* Outside the gate a block goes to the transcription.
Record == IF Gated THEN Discard ELSE Feed("stt")

\* (mutant) a turn that is given up leaves its task running.
RecordedUncancelled(result) ==
    /\ at' = "settling"
    /\ outcome' = result
    /\ stt' = IF result = "text" THEN "none" ELSE stt
    /\ endOfSpeech' = TRUE
\* The recording is over with this outcome, and its task has been awaited or
\* cancelled; next is awaiting the feedback.
Recorded(result) ==
    /\ at' = "settling"
    /\ outcome' = result
    /\ stt' = "none"
    /\ endOfSpeech' = TRUE

ProviderPulls == at = "listening" /\ config.provider /\ Pull /\ Record
RecordingUnchanged == UNCHANGED <<config, elapsed, feedback, agent, leds, realtimeFailed, audio, room>>

TooLate == elapsed > TurnLimit

ProviderListens ==
    /\ ProviderPulls
    /\ ~SttOver /\ ~TooLate
    /\ UNCHANGED <<at, recorder, stt, outcome, endOfSpeech>>
    /\ RecordingUnchanged

ProviderAbandons ==
    /\ ProviderPulls
    /\ ~SttOver /\ TooLate
    /\ Recorded("silence")
    /\ UNCHANGED recorder
    /\ RecordingUnchanged

\* A task that failed is awaited once more by the handler, and raises again.
ProviderAnswers ==
    /\ ProviderPulls
    /\ SttOver
    /\ Recorded(IF stt = "failed" THEN "raised" ELSE stt)
    /\ UNCHANGED recorder
    /\ RecordingUnchanged

-----------------------------------------------------------------------------
\* _record_vad_endpointed(), with the UtteranceRecorder

\* _process(): the recorder after a chunk.
Processed(r, isSpeech) ==
    IF ~r.speaking
    THEN IF isSpeech
         THEN [r EXCEPT !.speaking = TRUE, !.emitted = Lower(r.waited, PreRoll) + 1]
         ELSE [r EXCEPT !.waited = @ + 1]
    ELSE [r EXCEPT !.emitted = @ + 1, !.silence = IF isSpeech THEN 0 ELSE @ + 1]

NobodySpoke(r, isSpeech) == ~r.speaking /\ ~isSpeech /\ r.waited + 1 >= StartLimit
UtteranceOver(r, isSpeech) ==
    /\ r.speaking
    /\ \/ ~isSpeech /\ r.silence + 1 >= SilenceLimit
       \/ r.emitted + 1 >= MaxChunks

VadPulls == at = "listening" /\ ~config.provider /\ Pull

\* The recorder is not shown a block that is discarded.
VadDiscards ==
    /\ VadPulls /\ Gated /\ Discard
    /\ UNCHANGED <<at, recorder, stt, outcome, endOfSpeech>>
    /\ RecordingUnchanged

VadListens(isSpeech) ==
    /\ VadPulls /\ ~Gated /\ Feed("stt")
    /\ ~NobodySpoke(recorder, isSpeech) /\ ~UtteranceOver(recorder, isSpeech)
    /\ recorder' = Processed(recorder, isSpeech)
    /\ UNCHANGED <<at, stt, outcome, endOfSpeech>>
    /\ RecordingUnchanged

VadGivesUp ==
    /\ VadPulls /\ ~Gated /\ Feed("stt")
    /\ NobodySpoke(recorder, FALSE)
    /\ recorder' = Processed(recorder, FALSE)
    /\ Recorded("silence")
    /\ RecordingUnchanged

\* The stream is closed, and its transcript awaited with the microphone unread.
VadCloses(isSpeech) ==
    /\ VadPulls /\ ~Gated /\ Feed("stt")
    /\ UtteranceOver(recorder, isSpeech)
    /\ recorder' = Processed(recorder, isSpeech)
    /\ at' = "awaiting"
    /\ endOfSpeech' = TRUE
    /\ stt' = IF stt = "running" THEN "closed" ELSE stt
    /\ UNCHANGED outcome
    /\ RecordingUnchanged

\* Here the exception is handled: the turn is over, the pipeline is not.
FailureIsSilence == IF stt = "failed" THEN "silence" ELSE stt

VadAnswered ==
    /\ at = "awaiting"
    /\ SttOver
    /\ Recorded(FailureIsSilence)
    /\ UNCHANGED <<captured, heard, recorder>>
    /\ RecordingUnchanged

-----------------------------------------------------------------------------
\* The transcription's task, and the feedback's

SttUnchanged == UNCHANGED <<config, at, captured, elapsed, recorder, outcome, feedback,
                            agent, leds, realtimeFailed, audio, room, heard>>

\* on_end_of_turn() comes before the provider's socket is closed.
SttEndsTurn ==
    /\ config.provider
    /\ stt = "running"
    /\ stt' = "ended" /\ endOfSpeech' = TRUE
    /\ SttUnchanged

\* A socket that closes early returns what was heard so far.
SttReturns(result) ==
    /\ stt \in {"running", "ended", "closed"}
    /\ stt' = result
    /\ UNCHANGED endOfSpeech
    /\ SttUnchanged

\* A provider whose closing outlasts the timeout leaves it to the fallback, even
\* after the end of the turn.
SttFails ==
    /\ "stt" \in Faults
    /\ stt \in {"running", "ended", "closed"}
    /\ stt' = "failed"
    /\ UNCHANGED endOfSpeech
    /\ SttUnchanged

FeedbackUnchanged == UNCHANGED <<config, at, captured, elapsed, recorder, stt, outcome,
                                 endOfSpeech, agent, realtimeFailed, audio, room, heard>>

\* _listening_feedback(): the acknowledgement, then a reading and a
\* choreography in turn until the end of speech.
FeedbackAcks ==
    /\ feedback = "spawned" /\ ~endOfSpeech
    /\ leds' = "lit" /\ feedback' = "waiting"
    /\ FeedbackUnchanged

FeedbackReads ==
    /\ feedback = "waiting" /\ ~endOfSpeech
    /\ feedback' = "reading"
    /\ UNCHANGED leds
    /\ FeedbackUnchanged

FeedbackShows ==
    /\ feedback = "reading" /\ ~endOfSpeech
    /\ leds' = "lit" /\ feedback' = "waiting"
    /\ FeedbackUnchanged

\* (mutant) what is shown is not cleared when the feedback stops.
LeavesShown == leds' = leds
\* The finally clause.
ClearsShown == leds' = "off"

FeedbackStops ==
    /\ feedback \in {"spawned", "waiting", "reading"}
    /\ endOfSpeech
    /\ ClearsShown
    /\ feedback' = "over"
    /\ FeedbackUnchanged

-----------------------------------------------------------------------------
\* _handle_wake() from the transcript to REARMED

\* Once the feedback has stopped: an exception ends run(), a transcript is
\* answered, and without one only the flush remains.
Settled ==
    /\ at = "settling"
    /\ feedback = "over"
    /\ feedback' = "none"
    /\ at' = IF outcome = "raised" THEN "dead"
             ELSE IF outcome = "text" THEN "processing" ELSE "flushing"
    /\ agent' = IF outcome = "text" THEN "thinking" ELSE "none"
    /\ elapsed' = 0
    /\ UNCHANGED <<config, captured, recorder, stt, outcome, endOfSpeech, leds,
                   realtimeFailed, audio, room, heard>>

AgentUnchanged == UNCHANGED <<config, at, captured, elapsed, recorder, stt, outcome,
                              endOfSpeech, feedback, realtimeFailed, playing, quiet, room, heard>>

\* Speaker.speak(): the first sentence, then the rest of them.
AgentSpeaks ==
    /\ agent = "thinking"
    /\ Gate!Accepted
    /\ agent' = "synthesizing"
    /\ UNCHANGED leds
    /\ AgentUnchanged

Answered == IF config.indicator THEN "answered" ELSE "done"

AgentSpeaksRest ==
    /\ agent = "synthesizing"
    /\ Gate!Accepted
    /\ agent' = Answered
    /\ UNCHANGED leds
    /\ AgentUnchanged

\* Nothing to say, nothing more, or an error: handle() never raises.
AgentReturns ==
    /\ agent \in {"thinking", "synthesizing"}
    /\ agent' = Answered
    /\ UNCHANGED <<owed, leds>>
    /\ AgentUnchanged

\* _process_transcript(): the indicator pulses until the reply is playing, or
\* for so long after it was queued, and then clears its LEDs.
IndicatorPulses ==
    /\ config.indicator
    /\ agent \in {"thinking", "synthesizing", "answered"}
    /\ leds' = "lit"
    /\ UNCHANGED <<agent, owed>>
    /\ AgentUnchanged

IndicatorStops ==
    /\ agent = "answered"
    /\ agent' = "done"
    /\ leds' = "off"
    /\ UNCHANGED owed
    /\ AgentUnchanged

TurnUnchanged == UNCHANGED <<config, recorder, stt, outcome, endOfSpeech, feedback, leds,
                             realtimeFailed, audio, room>>

\* (mutant) a gate that stays closed holds the drain for ever.
HeldByGate == Gated
\* The gate is waited for, within a limit.
Held == Gated /\ elapsed <= DrainLimit

\* _drain_frames(), and the first look of _drain_while_gated().
ProcessingDrains ==
    /\ at = "processing" /\ Pull /\ Discard
    /\ IF agent # "done"
       THEN UNCHANGED <<at, agent, elapsed>>
       ELSE /\ at' = IF Gated THEN "playing" ELSE "flushing"
            /\ agent' = "none"
            /\ elapsed' = 0
    /\ TurnUnchanged

PlayingDrains ==
    /\ at = "playing" /\ Pull /\ Discard
    /\ IF Held THEN UNCHANGED <<at, elapsed>>
               ELSE at' = "flushing" /\ elapsed' = 0
    /\ UNCHANGED agent
    /\ TurnUnchanged

\* (mutant) one pull is taken to be enough.
FlushedOnce == TRUE
\* The deadline has passed between two pulls, the queue being empty by then: taking
\* a queued block costs no time that counts against the 80 ms.
Flushed == elapsed >= FlushBlocks

\* _flush_residual(), and the reset of the detector when it is over.
Flushes ==
    /\ at = "flushing" /\ Pull /\ Discard
    /\ at' = IF Flushed THEN "idle" ELSE "flushing"
    /\ UNCHANGED <<agent, elapsed>>
    /\ TurnUnchanged

-----------------------------------------------------------------------------
\* _handle_wake_realtime()

ConversationUnchanged == UNCHANGED <<config, elapsed, recorder, stt, outcome, endOfSpeech,
                                     agent, audio>>

WakesToConversation ==
    /\ at = "idle" /\ Pull /\ ~Gated /\ Feed("detector")
    /\ Conversational
    /\ at' = "opening"
    /\ feedback' = "ux"
    /\ UNCHANGED <<leds, realtimeFailed, room>>
    /\ ConversationUnchanged

\* _realtime_feedback() submits a choreography per transition.
UxShows ==
    /\ feedback = "ux"
    /\ leds' = "lit"
    /\ UNCHANGED <<at, captured, heard, feedback, realtimeFailed, room>>
    /\ ConversationUnchanged

Opens ==
    /\ at = "opening"
    /\ at' = "conversing"
    /\ UNCHANGED <<captured, heard, feedback, leds, realtimeFailed, room>>
    /\ ConversationUnchanged

\* The terminator is the last choreography, above the cosmetic ones.
Terminated == leds' = "off" /\ feedback' = "none"

\* The factory raises.  It has closed what it had opened, and if that lost the
\* audio device the exception that says so is handled like any other.  The awaits
\* of that closing are one step here: the microphone is unread and the detector
\* unarmed throughout, as they are at "opening".
OpenFails ==
    /\ "session" \in Faults
    /\ at = "opening"
    /\ realtimeFailed' = TRUE
    /\ device' \in {device} \cup IF "device" \in Faults THEN {"lost opening"} ELSE {}
    /\ at' = "idle"
    /\ Terminated
    /\ UNCHANGED <<captured, heard, talking, tail>>
    /\ ConversationUnchanged

\* The player is part of RealtimeSession; here it sounds or does not, to the end of
\* what it was given before the conversation ended.
TalkStarts ==
    /\ at \in {"conversing", "unwinding", "closing"} /\ ~talking
    /\ talking' = TRUE /\ tail' = TRUE
    /\ UNCHANGED <<at, captured, heard, feedback, leds, realtimeFailed, device>>
    /\ ConversationUnchanged

TalkEnds ==
    /\ talking
    /\ talking' = FALSE
    /\ UNCHANGED <<at, captured, heard, feedback, leds, realtimeFailed, tail, device>>
    /\ ConversationUnchanged

\* The conversation is full-duplex: every block goes to the model.
Converses ==
    /\ at = "conversing" /\ Pull /\ Feed("model")
    /\ UNCHANGED <<at, feedback, leds, realtimeFailed, room>>
    /\ ConversationUnchanged

\* Idle timeout, hang-up or failure, each seen between two blocks.
ConversationEnds(failed) ==
    /\ failed => "session" \in Faults
    /\ at = "conversing" /\ Pull /\ Feed("model")
    /\ at' = "unwinding"
    /\ realtimeFailed' = (realtimeFailed \/ failed)
    /\ UNCHANGED <<feedback, leds, room>>
    /\ ConversationUnchanged

FeedbackCancelled ==
    /\ at = "unwinding"
    /\ at' = "closing"
    /\ feedback' = "none"
    /\ UNCHANGED <<captured, heard, leds, realtimeFailed, room>>
    /\ ConversationUnchanged

\* session.aclose(): the socket first, then the player.
SessionCloses ==
    /\ at = "closing"
    /\ talking' = FALSE
    /\ at' = "idle"
    /\ Terminated
    /\ UNCHANGED <<captured, heard, realtimeFailed, tail, device>>
    /\ ConversationUnchanged

\* AudioBackendUnrecoverable is raised again once the LEDs are off, and ends run().
SessionLosesDevice ==
    /\ "device" \in Faults
    /\ at = "closing"
    /\ device' = "lost closing"
    /\ talking' = FALSE
    /\ at' = "dead"
    /\ Terminated
    /\ UNCHANGED <<captured, heard, realtimeFailed, tail>>
    /\ ConversationUnchanged

\* The teardown is abandoned at its ceiling; the player may sound on.
SessionAbandoned ==
    /\ "hang" \in Faults
    /\ at = "closing"
    /\ at' = "idle"
    /\ Terminated
    /\ UNCHANGED <<captured, heard, realtimeFailed, room>>
    /\ ConversationUnchanged

\* The end of run() stops the runtime, and systemd starts it again.
Restart ==
    /\ at = "dead"
    /\ at' = "idle"
    /\ captured' = <<>> /\ elapsed' = 0
    /\ recorder' = FreshRecorder
    /\ stt' = "none" /\ outcome' = "none" /\ endOfSpeech' = FALSE
    /\ feedback' = "none" /\ leds' = "off" /\ agent' = "none"
    /\ realtimeFailed' = FALSE
    /\ owed' = 0 /\ playing' = "none" /\ quiet' = 0
    /\ talking' = FALSE /\ tail' = FALSE /\ device' = "fine"
    /\ heard' = {}
    /\ UNCHANGED config

-----------------------------------------------------------------------------
\* The specification

AudioStep == AudioLane /\ UNCHANGED OutsideAudio

Transcription ==
    \/ SttEndsTurn
    \/ \E result \in {"text", "silence"} : SttReturns(result)
    \/ SttFails

Feedback == FeedbackAcks \/ FeedbackReads \/ FeedbackShows \/ FeedbackStops

Agent == AgentSpeaks \/ AgentSpeaksRest \/ AgentReturns \/ IndicatorStops

Recording ==
    \/ ProviderListens \/ ProviderAbandons \/ ProviderAnswers
    \/ VadDiscards \/ VadGivesUp \/ VadAnswered
    \/ \E isSpeech \in BOOLEAN : VadListens(isSpeech) \/ VadCloses(isSpeech)

Run ==
    \/ IdleDiscards \/ IdleListens \/ WakesToTurn \/ WakesToConversation
    \/ Recording
    \/ Settled \/ ProcessingDrains \/ PlayingDrains \/ Flushes
    \/ Opens \/ OpenFails
    \/ Converses \/ \E failed \in BOOLEAN : ConversationEnds(failed)
    \/ FeedbackCancelled \/ SessionCloses \/ SessionLosesDevice \/ SessionAbandoned

Next ==
    \/ Hear
    \/ AudioStep
    \/ GateSticks /\ UNCHANGED OutsideAudio
    \/ Run
    \/ Transcription
    \/ Feedback
    \/ Agent
    \/ IndicatorPulses
    \/ UxShows
    \/ TalkStarts
    \/ TalkEnds
    \/ Restart

Spec == Init /\ [][Next]_vars

\* The microphone delivers, the event loop runs what is ready, playbacks end,
\* the agent's calls have timeouts, and so has a transcription, which answers
\* once its turn is over; before that it owes nothing, nor do the user and the
\* model.  systemd restarts the process.
Fairness ==
    /\ WF_vars(Hear)
    /\ WF_vars(AudioStep)
    /\ WF_vars(Run)
    /\ WF_vars(Feedback)
    /\ WF_vars(Agent)
    /\ WF_vars(stt \in {"ended", "closed"} /\ Transcription)
    /\ WF_vars(Restart)

FairSpec == Spec /\ Fairness

-----------------------------------------------------------------------------
\* Properties

\* The places, the tasks and what they hold are those of the code.
TypeOK ==
    /\ config \in Configs
    /\ at \in {"idle", "dead"} \cup Turn \cup Conversation
    /\ captured \in Seq(Block) /\ Len(captured) <= Capacity
    /\ elapsed \in 0..Horizon
    /\ recorder \in [speaking: BOOLEAN, waited: 0..StartLimit,
                     silence: 0..SilenceLimit, emitted: 0..Higher(MaxChunks, PreRoll + 2)]
    /\ stt \in {"none", "running", "ended", "closed", "text", "silence", "failed"}
    /\ outcome \in {"none", "text", "silence", "raised"}
    /\ endOfSpeech \in BOOLEAN
    /\ feedback \in {"none", "spawned", "waiting", "reading", "over", "ux"}
    /\ leds \in {"off", "lit"}
    /\ agent \in {"none", "thinking", "synthesizing", "answered", "done"}
    /\ realtimeFailed \in BOOLEAN
    /\ owed \in Nat
    /\ playing \in {"none", "starting", "sounding", "guard", "stuck"}
    /\ quiet \in 0..Guard
    /\ talking \in BOOLEAN /\ tail \in BOOLEAN
    /\ device \in {"fine", "lost opening", "lost closing"}
    /\ heard \subseteq [to: {"detector", "stt", "model"}, block: Block]

\* With the rabbit's own speaker, no block with its voice in it reaches the
\* detector or the transcription: the beep, a reply in two parts and a drain
\* cut short by its limit included.
DeafToItself ==
    ~config.local => \A h \in heard : ~h.block.voice

\* The detector is never shown a block captured during a turn: whatever was
\* queued while the turn awaited something has been flushed before it is armed.
FreshEars ==
    \A h \in heard : h.to = "detector" => h.block.during # "turn"

\* Whatever path led back to the wake word, its tasks are over, the last
\* choreography submitted has put the LEDs off, and no conversation's teardown
\* has lost the audio device in this process.
ArmedIsClean ==
    at = "idle" => /\ leds = "off"
                   /\ feedback = "none" /\ stt = "none" /\ agent = "none"
                   /\ device # "lost closing"

\* The pipeline keeps its side of what SttTurn promises: a transcription is started
\* once the last is over, its result taken once, and its task cancelled when the
\* turn is given up; the end of a turn is announced while its own task runs.
Task == IF stt \in {"ended", "closed"} THEN "running" ELSE stt
EndOfTurn == config.provider /\ stt # "none" /\ endOfSpeech
Promise == INSTANCE Transcription WITH
    Detecting <- {TRUE}, provider <- config.provider, task <- Task, endOfTurn <- EndOfTurn
TranscriptionUsed == Promise!Spec

\* It goes through its conversations as RealtimeSession has them, one after another,
\* and opens none after one that failed.
TalkPhase == IF at = "conversing" THEN "open"
             ELSE IF at \in {"unwinding", "closing"} THEN "over" ELSE "none"
Session == INSTANCE Talk WITH
    phase <- TalkPhase, sounding <- talking, failed <- realtimeFailed
TalkUsed == Session!Spec

\* The wake word is never armed on a dead audio backend (pipeline.py:385-388).
NeverArmedOnDeadBackend == at = "idle" => device = "fine"

\* A turn, an opening or a teardown leads back to the wake word, even if the gate is
\* stuck and the provider never answers.  (A local beep that sticks would hold the
\* local endpointing, whose loop has no deadline.)
BeepMayHold == config.local /\ config.beep /\ ~config.provider
Rearms ==
    at \in (Turn \cup Conversation) \ {"conversing"} /\ ~BeepMayHold
        ~> at \in {"idle", "conversing"}

\* Unless the gate is stuck or a conversation goes on, the rabbit listens for its
\* wake word again and again: nothing leaves it armed and deaf.
ListensAgain ==
    \/ <>(playing = "stuck")
    \/ <>[](at = "conversing")
    \/ []<>(at = "idle" /\ ~Gated)
=============================================================================
