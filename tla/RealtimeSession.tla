-------------------------- MODULE RealtimeSession --------------------------
(***************************************************************************)
(* brain/rabbit_brain/llm/realtime.py: one full-duplex conversation, from  *)
(* connect() to aclose(), with its player (StreamingPlayer) and the UX     *)
(* state the callbacks flip (_SpeakingState of audio/pipeline.py).         *)
(*                                                                         *)
(* Two tasks share the loop: run(), which handles the server's events one  *)
(* after another, and the microphone pump.  PortAudio's thread runs beside *)
(* them: where a handler takes the player's lock several times between two *)
(* awaits, each time is a step, and the loop is not free meanwhile.        *)
(* The server sends what the protocol allows, in order; after it reports   *)
(* the user's speech its response is cancelled.                            *)
(***************************************************************************)
EXTENDS StreamingPlayer

CONSTANTS
    Sizes,        \* frames of an audio delta
    IdleTimeout,  \* idle_timeout_s, in periods
    Faults,       \* what can go wrong, see below
    MaxFrames     \* bound: frames the server sends in the conversation

\* late: a delta of a cancelled response arrives after speech_started; send: a
\* send fails; fatal: an error event, or the socket breaks; preempt: the loop
\* runs between the callback's lock and its _emit(); mic: the capture is stopped.
FaultKinds == {"late", "send", "fatal", "preempt", "mic"}

ASSUME SessionAssumption ==
    /\ Sizes \subseteq Nat \ {0}
    /\ IdleTimeout \in Nat
    /\ Faults \subseteq FaultKinds
    /\ MaxFrames \in Nat

NoItem == 0

VARIABLES
    serverItem,         \* the server: the item it generates or generated last
    generating,         \* the server: a response is under way
    userTalks,          \* the server: its VAD hears the user
    sent,               \* the server: frames sent so far
    responseActive,     \* _server_response_active
    currentItem,        \* _current_item
    playbackItem,       \* _playback_item
    itemAudio,          \* _item_audio_ms, in frames
    quietFor,           \* the age of last_activity
    endedByModel,       \* ended_by_model
    eventsAt,           \* where run() is; "ready" waits for a message
    incoming,           \* the frames of the delta being handled
    toTell,             \* played_ms as _barge_in read it
    wasCut,             \* history: a barge-in has cut what the device still holds
    userSpeaking,       \* _SpeakingState.user_speaking
    assistantSpeaking,  \* _SpeakingState.assistant_speaking
    pumpAt,             \* where pump_microphone(), then converse(), is
    outcome             \* why the conversation ended

server == <<serverItem, generating, userTalks, sent>>
session == <<responseActive, currentItem, playbackItem, itemAudio, endedByModel>>
handler == <<eventsAt, incoming, toTell, wasCut>>
ux == <<userSpeaking, assistantSpeaking>>
pump == <<pumpAt, outcome>>
vars == <<player, server, session, quietFor, handler, ux, pump>>

Init ==
    /\ PlayerInit
    /\ serverItem = NoItem /\ generating = FALSE /\ userTalks = FALSE
    /\ sent = 0
    /\ responseActive = FALSE
    /\ currentItem = NoItem /\ playbackItem = NoItem /\ itemAudio = 0
    /\ quietFor = 0 /\ endedByModel = FALSE
    /\ eventsAt = "ready" /\ incoming = 0 /\ toTell = 0
    /\ wasCut = FALSE
    /\ userSpeaking = FALSE /\ assistantSpeaking = FALSE
    /\ pumpAt = "frame" /\ outcome = "none"

\* No handler is between two awaits.
LoopFree == eventsAt \notin {"writing", "reading", "stopping"}
\* The callback may be preempted by the loop only where that is modelled.
NotPreempting == "preempt" \in Faults \/ emitting = "nothing"

-----------------------------------------------------------------------------
\* PortAudio's thread, and the callbacks it posted

Period ==
    /\ pumpAt # "closed"
    /\ Callback
    /\ quietFor' = Aged(quietFor, IdleTimeout + 1)
    /\ wasCut' = (wasCut /\ Filled = 0)
    /\ UNCHANGED <<server, session, eventsAt, incoming, toTell, ux, pump>>

Emits == /\ Emit
         /\ UNCHANGED <<server, session, quietFor, handler, ux, pump>>

\* on_playback_started(), on_playback_drained(), on_playback_cut()
PlaybackEvent ==
    /\ LoopFree /\ NotPreempting
    /\ posted # <<>>
    /\ posted' = Tail(posted)
    /\ assistantSpeaking' = (Head(posted) = "started")
    /\ UNCHANGED <<pending, consumed, sinceConsumed, playing, dryFor, emitting, handed,
                   server, session, quietFor, handler, userSpeaking, pump>>

-----------------------------------------------------------------------------
\* run(): the server's events.  Each is conversation, hence activity.

Receives == eventsAt = "ready" /\ LoopFree /\ NotPreempting /\ quietFor' = 0

\* response.output_item.added: of a new response, or a sibling in this one.
ItemAdded ==
    /\ Receives
    /\ ~userTalks
    /\ serverItem + 1 \in Items
    /\ serverItem' = serverItem + 1 /\ generating' = TRUE
    /\ currentItem' = serverItem + 1
    /\ UNCHANGED <<player, userTalks, sent, responseActive, playbackItem,
                   itemAudio, endedByModel, handler, ux, pump>>

\* The delta belongs to an item the playback is not accounted against.
NewItem == serverItem # playbackItem

\* _on_audio_delta(), up to the write: a new item restarts the position, and a
\* new response gives the floor to the rabbit.
AudioDelta(n) ==
    /\ Receives
    /\ serverItem # NoItem
    /\ \/ generating
       \/ "late" \in Faults /\ userTalks
    /\ sent + n <= MaxFrames
    /\ sent' = sent + n
    /\ incoming' = n /\ eventsAt' = "writing"
    /\ responseActive' = TRUE
    /\ userSpeaking' = (userSpeaking /\ responseActive)
    /\ IF NewItem
       THEN /\ playbackItem' = serverItem /\ currentItem' = serverItem
            /\ itemAudio' = 0
            /\ ResetPosition
       ELSE UNCHANGED <<playbackItem, currentItem, itemAudio, player>>
    /\ UNCHANGED <<serverItem, generating, userTalks, endedByModel, toTell, wasCut,
                   assistantSpeaking, pump>>

DeltaWritten ==
    /\ eventsAt = "writing" /\ NotPreempting
    /\ Write(serverItem, incoming)
    /\ itemAudio' = itemAudio + incoming
    /\ eventsAt' = "ready" /\ incoming' = 0
    /\ UNCHANGED <<server, responseActive, currentItem, playbackItem, endedByModel, quietFor,
                   toTell, wasCut, ux, pump>>

\* response.done
ResponseDone ==
    /\ Receives
    /\ generating
    /\ generating' = FALSE /\ responseActive' = FALSE
    /\ UNCHANGED <<player, serverItem, userTalks, sent, currentItem, playbackItem,
                   itemAudio, endedByModel, handler, ux, pump>>

SpeechStopped ==
    /\ Receives
    /\ userTalks
    /\ userTalks' = FALSE /\ userSpeaking' = FALSE
    /\ UNCHANGED <<player, serverItem, generating, sent, session, handler,
                   assistantSpeaking, pump>>

\* The model calls end_conversation.
ModelHangsUp ==
    /\ Receives
    /\ generating
    /\ endedByModel' = TRUE
    /\ UNCHANGED <<player, server, responseActive, currentItem, playbackItem, itemAudio,
                   handler, ux, pump>>

\* (mutant) as it was before the hardware round: judged by the server alone.
ServerBusy == responseActive
\* There is something to interrupt.
Interruptible == responseActive \/ HasUnplayedAudio

\* input_audio_buffer.speech_started, and _barge_in() up to its decision.  The
\* server cancels the response by itself.
SpeechStarted ==
    /\ Receives
    /\ ~userTalks
    /\ userTalks' = TRUE /\ generating' = FALSE
    /\ userSpeaking' = TRUE
    /\ eventsAt' = IF Interruptible THEN "reading" ELSE "ready"
    /\ UNCHANGED <<player, serverItem, sent, session, incoming, toTell, wasCut,
                   assistantSpeaking, pump>>

ReadPlayed ==
    /\ eventsAt = "reading" /\ NotPreempting
    /\ toTell' = Lower(Played, itemAudio)
    /\ eventsAt' = "stopping"
    /\ UNCHANGED <<player, server, session, quietFor, incoming, wasCut, ux, pump>>

BackToListening == userSpeaking' = TRUE /\ assistantSpeaking' = FALSE

\* The speaker is cut; the truncate is sent only if there is one to send.
CutSpeaker ==
    /\ eventsAt = "stopping" /\ NotPreempting
    /\ CutPlayback /\ sinceConsumed' = None
    /\ wasCut' = TRUE
    /\ responseActive' = FALSE
    /\ IF playbackItem # NoItem /\ toTell > 0
       THEN eventsAt' = "telling" /\ UNCHANGED <<toTell, ux>>
       ELSE eventsAt' = "ready" /\ toTell' = 0 /\ BackToListening
    /\ UNCHANGED <<server, currentItem, playbackItem, itemAudio, endedByModel, quietFor,
                   incoming, pump>>

\* conversation.item.truncate is sent, or fails, which is suppressed.
Truncate ==
    /\ eventsAt = "telling" /\ LoopFree /\ NotPreempting
    /\ eventsAt' = "ready" /\ toTell' = 0
    /\ BackToListening
    /\ UNCHANGED <<player, server, session, quietFor, incoming, wasCut, pump>>

\* The reader ends: a fatal error or a broken socket raises, a close does not.
ReaderEnds ==
    /\ eventsAt = "ready" /\ NotPreempting
    /\ \/ eventsAt' = "done"
       \/ "fatal" \in Faults /\ eventsAt' = "failed"
    /\ UNCHANGED <<player, server, session, quietFor, incoming, toTell, wasCut, ux, pump>>

-----------------------------------------------------------------------------
\* pump_microphone() and converse()

\* (mutant) converse() returns what the pump says without asking the reader.
ReasonAlone(reason) == reason
\* What converse() returns or raises when the pump sees that the reader is over.
OutcomeOf(reason) == IF eventsAt = "failed" THEN "error" ELSE reason

ReaderOver == eventsAt \in {"done", "failed"}

\* converse() cancels the reader, wherever it waits, before anything else runs.
ConverseEnds(result) ==
    /\ pumpAt' = "ended" /\ outcome' = result
    /\ eventsAt' = IF ReaderOver THEN eventsAt ELSE "cancelled"

FrameArrives ==
    /\ pumpAt = "frame" /\ LoopFree /\ NotPreempting
    /\ pumpAt' = "send"
    /\ UNCHANGED <<player, server, session, quietFor, handler, ux, outcome>>

\* A send can fail, and on a closed socket it does: the pump raises.
FrameFails ==
    /\ pumpAt = "send" /\ LoopFree /\ NotPreempting
    /\ ReaderOver \/ "send" \in Faults
    /\ ConverseEnds("error")
    /\ UNCHANGED <<player, server, session, quietFor, incoming, toTell, wasCut, ux>>

\* The frame is sent, and the exit conditions are checked before the next.
FrameSent ==
    /\ pumpAt = "send" /\ LoopFree /\ NotPreempting
    /\ IF ReaderOver THEN ConverseEnds(OutcomeOf("stopped"))
       ELSE IF endedByModel THEN ConverseEnds("hangup")
       ELSE IF quietFor > IdleTimeout THEN ConverseEnds("idle")
       ELSE pumpAt' = "frame" /\ UNCHANGED <<eventsAt, outcome>>
    /\ UNCHANGED <<player, server, session, quietFor, incoming, toTell, wasCut, ux>>

\* The capture's generator is exhausted; a failure of the reader still counts.
MicrophoneEnds ==
    /\ "mic" \in Faults
    /\ pumpAt = "frame" /\ LoopFree /\ NotPreempting
    /\ ConverseEnds(OutcomeOf("exhausted"))
    /\ UNCHANGED <<player, server, session, quietFor, incoming, toTell, wasCut, ux>>

\* aclose(): the player is cut and its device closed.
Close ==
    /\ pumpAt = "ended" /\ emitting = "nothing"
    /\ pumpAt' = "closed"
    /\ CutPlayback /\ UNCHANGED sinceConsumed
    /\ UNCHANGED <<server, session, quietFor, handler, ux, outcome>>

-----------------------------------------------------------------------------
ServerEvent == \/ ItemAdded \/ \E n \in Sizes : AudioDelta(n)
               \/ ResponseDone \/ SpeechStarted \/ SpeechStopped \/ ModelHangsUp

BargeIn == ReadPlayed \/ CutSpeaker \/ Truncate
Pump == FrameArrives \/ FrameFails \/ FrameSent \/ MicrophoneEnds \/ Close

Next == \/ Period \/ Emits \/ PlaybackEvent
        \/ ServerEvent \/ DeltaWritten \/ BargeIn \/ ReaderEnds
        \/ Pump

Spec == Init /\ [][Next]_vars

\* Threads, tasks and the microphone go on; the server and the user owe nothing.
FairSpec == /\ Spec
            /\ WF_vars(Period \/ Emits)
            /\ WF_vars(PlaybackEvent)
            /\ WF_vars(DeltaWritten)
            /\ WF_vars(BargeIn)
            /\ WF_vars(Pump)
-----------------------------------------------------------------------------
\* Properties

TypeOK ==
    /\ PlayerTypeOK
    /\ serverItem \in Items \cup {NoItem}
    /\ generating \in BOOLEAN /\ userTalks \in BOOLEAN
    /\ sent \in 0..MaxFrames
    /\ responseActive \in BOOLEAN
    /\ currentItem \in Items \cup {NoItem} /\ playbackItem \in Items \cup {NoItem}
    /\ itemAudio \in Nat
    /\ quietFor \in Nat /\ endedByModel \in BOOLEAN
    /\ eventsAt \in {"ready", "writing", "reading", "stopping", "telling",
                     "done", "failed", "cancelled"}
    /\ incoming \in Nat /\ toTell \in Nat
    /\ userSpeaking \in BOOLEAN /\ assistantSpeaking \in BOOLEAN
    /\ pumpAt \in {"frame", "send", "ended", "closed"}
    /\ outcome \in {"none", "stopped", "hangup", "idle", "exhausted", "error"}

\* "tell the model exactly how far it got" (realtime.py:412): what a truncate
\* claims was heard of an item has been heard of that item, whatever the
\* callback does between the reads, and whatever items came before.
TruncateIsHonest ==
    eventsAt = "telling" =>
        playbackItem # NoItem /\ toTell <= Heard(playbackItem) /\ toTell <= itemAudio

\* The player reports the end of the playback only when the device has played
\* out everything it was handed: playback_drained means silence.
DrainedIsSilence == emitting = "drained" => DeviceDry

\* A barge-in is ignored only when the room is silent, or goes silent because
\* an earlier barge-in has cut the playback ("the bug that made barge-in
\* silently do nothing", streaming.py:342): what is still in the buffer or in
\* the device can be interrupted.
NothingAudibleIgnored ==
    [][SpeechStarted /\ ~Interruptible => DeviceDry \/ wasCut]_vars

\* While the user has the floor nothing of the interrupted reply is left to be
\* played.
UserHasTheFloor ==
    userTalks /\ eventsAt \notin {"reading", "stopping"} => pending = <<>>

\* "`assistant_speaking` must follow the SPEAKER" (streaming.py:157): when no
\* event is on its way, the UX and the player agree.
SpeakingFollowsPlayer ==
    posted = <<>> /\ emitting = "nothing" /\ LoopFree => assistantSpeaking = playing

\* The conversation "ends on this much true silence (neither side speaking)"
\* (pipeline.py:74), and not while a reply is played that the server has long
\* completed.
IdleMeansSilence ==
    [][outcome # "idle" /\ outcome' = "idle" => ~playing \/ generating]_vars

\* A reader that has failed ends the conversation, and with an error ("a broken
\* realtime session must never leave the rabbit mute", realtime.py:512).
FailureEndsIt == eventsAt = "failed" ~> outcome = "error"

\* To the pipeline this is one conversation, that sounds between its opening and its
\* closing, fails or not when it ends, and is silent once closed.
Phase == IF pumpAt = "ended" THEN "over" ELSE IF pumpAt = "closed" THEN "none" ELSE "open"
Conversation == INSTANCE Talk WITH
    phase <- Phase, sounding <- playing, failed <- outcome = "error"
TalkImplemented == Conversation!Spec
-----------------------------------------------------------------------------
\* The inductive invariant of the proofs.

\* What the buffer and the counter hold belongs to the item they are accounted
\* against, which cannot change between the reset and the write.
Accounted ==
    /\ \A j \in 1..Len(pending) : pending[j] = playbackItem
    /\ consumed > 0 => playbackItem # NoItem
    /\ eventsAt = "writing" => serverItem = playbackItem /\ playbackItem # NoItem /\ incoming > 0

\* The device plays a block per period: what it was handed k periods ago is
\* what it has now, less k blocks at most.
DeviceFlows ==
    /\ \A k \in 1..Latency, i \in Items : handed[k][i] <= handed[k - 1][i]
    /\ playbackItem # NoItem =>
           \A k \in 0..Latency : consumed <= handed[k][playbackItem] + k * Block

\* An age of silence is so many periods in which nothing was handed over.
SilentFor(age) == \A k \in 0..Latency : k <= age => handed[k] = handed[0]
Silences == /\ dryFor # None => SilentFor(dryFor)
            /\ sinceConsumed # None => SilentFor(sinceConsumed)
            /\ emitting = "drained" => SilentFor(Latency)
            /\ sinceConsumed = None =>
                   \/ SilentFor(Latency)
                   \/ wasCut \/ pending # <<>>
                   \/ eventsAt = "writing" \/ pumpAt = "closed"
            /\ pumpAt \in {"ended", "closed"} => eventsAt \in {"done", "failed", "cancelled"}

\* What _barge_in() has read stays true.
Read == /\ eventsAt \in {"stopping", "telling"} =>
               /\ toTell <= itemAudio
               /\ playbackItem # NoItem => toTell <= Heard(playbackItem)
        /\ eventsAt = "telling" => playbackItem # NoItem

IInv == TypeOK /\ Accounted /\ DeviceFlows /\ Silences /\ Read

\* ... when no delta of a cancelled response arrives late,
Floor == /\ userTalks => ~generating /\ eventsAt # "writing"
         /\ UserHasTheFloor

\* ... and when the callback is not preempted: the last event on its way, or
\* else the UX, says whether the player is playing.
Announced ==
    /\ emitting # "nothing" => (playing <=> emitting = "started")
    /\ emitting = "nothing" /\ posted # <<>> => (playing <=> posted[Len(posted)] = "started")
    /\ emitting = "nothing" /\ posted = <<>> => (playing <=> assistantSpeaking)
    /\ eventsAt = "telling" => ~playing /\ pending = <<>> /\ emitting # "started"
=============================================================================
