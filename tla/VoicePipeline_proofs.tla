------------------------ MODULE VoicePipeline_proofs ------------------------
(***************************************************************************)
(* Proofs about the voice pipeline, for any configurations, any limits and *)
(* any faults: its typing, that the rabbit does not hear itself, that the  *)
(* wake word is armed with fresh ears and with nothing left of the turn,   *)
(* that a transcription is used as Transcription promises it, that every   *)
(* wait is bounded, and that a conversation fails once.                    *)
(***************************************************************************)
EXTENDS VoicePipeline, TLAPS, SequenceTheorems

\* TypeOK in parts, since the flags are Booleans and the rest is not.
Flags ==
    /\ endOfSpeech \in BOOLEAN /\ realtimeFailed \in BOOLEAN
    /\ talking \in BOOLEAN /\ tail \in BOOLEAN

Places ==
    /\ config \in Configs
    /\ at \in {"idle", "dead"} \cup Turn \cup Conversation
    /\ stt \in {"none", "running", "ended", "closed", "text", "silence", "failed"}
    /\ outcome \in {"none", "text", "silence", "raised"}
    /\ feedback \in {"none", "spawned", "waiting", "reading", "over", "ux"}
    /\ leds \in {"off", "lit"}
    /\ agent \in {"none", "thinking", "synthesizing", "answered", "done"}
    /\ device \in {"fine", "lost opening", "lost closing"}

Sounding == playing \in {"none", "starting", "sounding", "guard", "stuck"}

Ages == elapsed \in 0..Horizon /\ owed \in Nat /\ quiet \in 0..Guard

Blocks ==
    /\ captured \in Seq(Block) /\ Len(captured) <= Capacity
    /\ heard \subseteq [to: {"detector", "stt", "model"}, block: Block]

\* A recording that goes on has reached none of the recorder's limits.
Within(r) ==
    /\ r \in [speaking: BOOLEAN, waited: Nat, silence: Nat, emitted: Nat]
    /\ r.waited <= StartLimit /\ r.silence <= SilenceLimit
    /\ r.emitted <= MaxChunks \/ r.emitted <= PreRoll + 2

GoesOn(r) ==
    /\ ~r.speaking => r.waited < StartLimit
    /\ r.silence < SilenceLimit
    /\ r.emitted < MaxChunks \/ r.emitted <= PreRoll + 1

Counts == Within(recorder) /\ (at = "listening" => GoesOn(recorder))

\* A sound that starts is owed still, and what settles has an outcome.
Owing == playing = "starting" => owed > 0
Settling == at = "settling" => outcome # "none"

\* Each task belongs to a place, and the LEDs to a task.
Tasks ==
    /\ stt # "none" => at \in {"listening", "awaiting"}
    /\ agent # "none" => at = "processing"
    /\ feedback \in {"spawned", "waiting", "reading", "over"} =>
           at \in {"listening", "awaiting", "settling"}
    /\ feedback = "ux" => at \in Conversation
    /\ leds = "lit" => \/ feedback \in {"spawned", "waiting", "reading", "ux"}
                       \/ agent \in {"thinking", "synthesizing", "answered"} /\ config.indicator
                       \/ at \in {"unwinding", "closing"}
    /\ device = "lost closing" => at = "dead"

\* What was captured during a turn is flushed with it: the flush is over once a
\* block has been heard in it, which takes an empty queue.
NoTurn(q) == \A i \in 1..Len(q) : q[i].during # "turn"

Flushing ==
    /\ at \in {"idle"} \cup Conversation => NoTurn(captured)
    /\ at = "flushing" /\ elapsed > 0 => Len(captured) <= 1

\* With the rabbit's own speaker, an open gate means that the rabbit has been
\* silent for as long as it takes to complete a block that began in the sound.
Silent(blocks) == playing = "none" \/ (playing = "guard" /\ quiet >= blocks)
NoVoice(q) == \A i \in 1..Len(q) : ~q[i].voice

Apart == ~config.local => at \notin Conversation /\ ~talking
Hushed == ~config.local /\ Silent(1) => ~tail
Quiet == ~config.local /\ at \in {"idle", "listening"} /\ Silent(2) => NoVoice(captured)

IInv ==
    /\ Flags /\ Places /\ Sounding /\ Ages /\ Blocks /\ Counts
    /\ Owing /\ Settling /\ Tasks /\ Flushing
    /\ Apart /\ Hushed /\ Quiet /\ FreshEars /\ DeafToItself

USE DEF Turn, Waiting, Conversation

-----------------------------------------------------------------------------
\* The queue

LEMMA Pulled ==
    ASSUME NEW q \in Seq(Block), q # <<>>
    PROVE  /\ Head(q) \in Block /\ Tail(q) \in Seq(Block) /\ Len(Tail(q)) = Len(q) - 1
           /\ NoTurn(q) => NoTurn(Tail(q)) /\ Head(q).during # "turn"
           /\ NoVoice(q) => NoVoice(Tail(q)) /\ ~Head(q).voice
           /\ Len(q) <= 1 => NoTurn(Tail(q)) /\ NoVoice(Tail(q))
<1>1. /\ Head(q) \in Block /\ Tail(q) \in Seq(Block) /\ Len(Tail(q)) = Len(q) - 1
      /\ \A i \in 1..Len(Tail(q)) : Tail(q)[i] = q[i + 1]
  BY HeadTailProperties
<1>2. Len(q) \in Nat \ {0} /\ Head(q) = q[1] /\ 1 \in 1..Len(q)
  BY EmptySeq
<1>3. \A i \in 1..Len(Tail(q)) : i + 1 \in 1..Len(q)
  BY <1>1, <1>2
<1>4. Len(q) <= 1 => 1..Len(Tail(q)) = {}
  BY <1>1, <1>2
<1>5. NoTurn(q) => NoTurn(Tail(q)) /\ Head(q).during # "turn"
  BY <1>1, <1>2, <1>3 DEF NoTurn
<1>6. NoVoice(q) => NoVoice(Tail(q)) /\ ~Head(q).voice
  BY <1>1, <1>2, <1>3 DEF NoVoice
<1>7. Len(q) <= 1 => NoTurn(Tail(q)) /\ NoVoice(Tail(q))
  BY <1>4 DEF NoTurn, NoVoice
<1> QED
  BY <1>1, <1>5, <1>6, <1>7

LEMMA PushedIs ==
    ASSUME NEW q \in Seq(Block), Len(q) <= Capacity, NEW b \in Block
    PROVE  /\ Pushed(q, b) \in Seq(Block) /\ Len(Pushed(q, b)) <= Capacity
           /\ NoTurn(q) /\ b.during # "turn" => NoTurn(Pushed(q, b))
           /\ q = <<>> => /\ Len(Pushed(q, b)) = 1
                          /\ ~b.voice => NoVoice(Pushed(q, b))
<1> DEFINE t == IF Len(q) = Capacity THEN Tail(q) ELSE q
<1>1. Capacity \in Nat /\ Capacity > 0 /\ Len(q) \in Nat
  BY PipelineAssumption, LenProperties
<1>2. t \in Seq(Block) /\ Len(t) < Capacity /\ (NoTurn(q) => NoTurn(t))
  <2>1. CASE Len(q) = Capacity
    <3>1. q # <<>>
      BY <1>1, <2>1, EmptySeq
    <3> QED
      BY <1>1, <2>1, <3>1, Pulled
  <2>2. CASE Len(q) # Capacity
    BY <1>1, <2>2
  <2> QED
    BY <2>1, <2>2
<1>3. q = <<>> => t = <<>> /\ Len(t) = 0
  BY <1>1, EmptySeq
<1> DEFINE p == Append(t, b)
<1>4. p = Pushed(q, b)
  BY DEF Pushed
<1> HIDE DEF t
<1>5. /\ p \in Seq(Block) /\ Len(p) = Len(t) + 1 /\ Len(t) \in Nat
      /\ p[Len(t) + 1] = b /\ \A i \in 1..Len(t) : p[i] = t[i]
  BY <1>2, AppendProperties, LenProperties
<1> HIDE DEF p
<1>6. ASSUME NEW i \in 1..Len(p) PROVE p[i] = b \/ (i \in 1..Len(t) /\ p[i] = t[i])
  <2>1. i = Len(t) + 1 \/ i \in 1..Len(t)
    BY <1>5
  <2> QED
    BY <1>5, <2>1
<1>7. Len(p) <= Capacity
  BY <1>1, <1>2, <1>5
<1>8. NoTurn(q) /\ b.during # "turn" => NoTurn(p)
  BY <1>2, <1>6 DEF NoTurn
<1>9. q = <<>> => Len(p) = 1
  BY <1>3, <1>5
<1>10. q = <<>> /\ ~b.voice => NoVoice(p)
  <2>1. SUFFICES ASSUME q = <<>>, ~b.voice, NEW i \in 1..Len(p) PROVE ~p[i].voice
    BY DEF NoVoice
  <2>2. 1..Len(t) = {}
    BY <1>3, <2>1
  <2> QED
    BY <1>6, <2>1, <2>2
<1> QED
  BY <1>4, <1>5, <1>7, <1>8, <1>9, <1>10

-----------------------------------------------------------------------------
\* The steps

\* The lane leaves alone what is not sound.
LEMMA LaneKeeps ==
    ASSUME AudioLane \/ GateSticks
    PROVE  UNCHANGED <<talking, device>> /\ (tail' = tail \/ tail' = TRUE)
<1>1. CASE \E n \in 1..owed : PlaysAtOnce(n) \/ Discarded(n)
  BY <1>1 DEF PlaysAtOnce, Discarded, room
<1>2. CASE SoundStarts \/ HandleSet \/ SoundEnds \/ GuardEnds \/ GateSticks
  BY <1>2 DEF SoundStarts, HandleSet, SoundEnds, GuardEnds, GateSticks, room
<1> QED
  BY <1>1, <1>2 DEF AudioLane

LEMMA AgesAre ==
    /\ 0 \in 0..Horizon /\ 0 \in 0..Guard /\ Guard \in Nat /\ Guard >= 2
    /\ \A e \in 0..Horizon : Lower(e + 1, Horizon) \in 0..Horizon
    /\ \A e \in 0..Guard : Lower(e + 1, Guard) \in 0..Guard
<1>1. /\ FlushBlocks \in Nat /\ TurnLimit \in Nat /\ DrainLimit \in Nat
      /\ Guard \in Nat /\ Guard >= 2
  BY PipelineAssumption
<1>2. Horizon \in Nat
  BY <1>1 DEF Horizon, Higher
<1> QED
  BY <1>1, <1>2 DEF Lower

\* The lane's own variables keep their types, and what starts stays owed.
LEMMA LaneTypes ==
    ASSUME Sounding, Ages, Owing, AudioLane \/ GateSticks
    PROVE  Sounding' /\ owed' \in Nat /\ quiet' \in 0..Guard /\ Owing'
<1>1. owed \in Nat /\ quiet \in 0..Guard /\ 0 \in 0..Guard /\ (playing = "starting" => owed > 0)
  BY AgesAre DEF Ages, Owing
<1>2. CASE \E n \in 1..owed : PlaysAtOnce(n) \/ Discarded(n)
  BY <1>1, <1>2 DEF PlaysAtOnce, Discarded, Gate!PlaysAtOnce, Gate!Discarded, Sounding, Owing
<1>3. CASE SoundStarts
  BY <1>1, <1>3 DEF SoundStarts, Gate!SoundStarts, Sounding, Owing
<1>4. CASE HandleSet
  BY <1>1, <1>4 DEF HandleSet, Gate!HandleSet, Sounding, Owing
<1>5. CASE SoundEnds
  BY <1>1, <1>5 DEF SoundEnds, Gate!SoundEnds, Sounding, Owing
<1>6. CASE GuardEnds \/ GateSticks
  BY <1>1, <1>6 DEF GuardEnds, GateSticks, Gate!GuardEnds, Gate!Sticks, Sounding, Owing
<1> QED
  BY <1>2, <1>3, <1>4, <1>5, <1>6 DEF AudioLane

\* The flags stay Booleans.
LEMMA FlagsStep == ASSUME IInv, [Next]_vars PROVE Flags'
<1> USE DEF IInv, Flags
<1>1. CASE UNCHANGED vars
  BY <1>1 DEF vars, audio, room, turn
<1>2. CASE Hear
  BY <1>2 DEF Hear, turn
<1>3. CASE (AudioLane \/ GateSticks) /\ UNCHANGED OutsideAudio
  BY <1>3, LaneKeeps DEF OutsideAudio, turn
<1>4. CASE IdleDiscards \/ IdleListens
  BY <1>4 DEF IdleDiscards, IdleListens, IdleUnchanged, Pull, Feed, Discard, turn, audio, room
<1>5. CASE WakesToTurn
  BY <1>5 DEF WakesToTurn, Pull, Feed, FreshRecorder, room
<1>6. CASE ProviderListens \/ ProviderAbandons \/ ProviderAnswers
  BY <1>6 DEF ProviderListens, ProviderAbandons, ProviderAnswers, ProviderPulls, Recorded, Record, Pull,
      Feed, Discard, SttOver, RecordingUnchanged, audio, room
<1>7. CASE VadDiscards \/ VadGivesUp \/ VadAnswered
  BY <1>7 DEF VadDiscards, VadGivesUp, VadAnswered, VadPulls, Recorded, Pull, Feed, Discard, SttOver,
      FailureIsSilence, RecordingUnchanged, audio, room
<1>8. CASE \E isSpeech \in BOOLEAN : VadListens(isSpeech) \/ VadCloses(isSpeech)
  BY <1>8 DEF VadListens, VadCloses, VadPulls, Pull, Feed, RecordingUnchanged, audio, room
<1>9. CASE Transcription
  BY <1>9 DEF Transcription, SttEndsTurn, SttReturns, SttFails, SttUnchanged, audio, room
<1>10. CASE Feedback
  BY <1>10 DEF Feedback, FeedbackAcks, FeedbackReads, FeedbackShows, FeedbackStops, ClearsShown,
      FeedbackUnchanged, audio, room
<1>11. CASE Settled
  BY <1>11 DEF Settled, audio, room
<1>12. CASE Agent \/ IndicatorPulses
  BY <1>12 DEF Agent, AgentSpeaks, AgentSpeaksRest, AgentReturns, IndicatorStops, IndicatorPulses,
      Answered, AgentUnchanged, room
<1>13. CASE ProcessingDrains \/ PlayingDrains \/ Flushes
  BY <1>13 DEF ProcessingDrains, PlayingDrains, Flushes, Pull, Discard, TurnUnchanged, audio, room
<1>14. CASE \/ WakesToConversation \/ UxShows \/ Opens \/ OpenFails
           \/ TalkStarts \/ TalkEnds
  BY <1>14 DEF WakesToConversation, UxShows, Opens, OpenFails, TalkStarts, TalkEnds, Terminated, Pull,
      Feed, Conversational, ConversationUnchanged, audio, room
<1>15. CASE \/ Converses \/ \E failed \in BOOLEAN : ConversationEnds(failed)
           \/ FeedbackCancelled \/ SessionCloses \/ SessionLosesDevice \/ SessionAbandoned
  BY <1>15 DEF Converses, ConversationEnds, FeedbackCancelled, SessionCloses, SessionLosesDevice,
      SessionAbandoned, Terminated, Pull, Feed, ConversationUnchanged, audio,
      room
<1>16. CASE Restart
  BY <1>16 DEF Restart, FreshRecorder
<1> QED
  BY <1>1, <1>2, <1>3, <1>4, <1>5, <1>6, <1>7, <1>8, <1>9, <1>10, <1>11, <1>12, <1>13, <1>14,
     <1>15, <1>16
     DEF Next, AudioStep, Run, Recording

\* No task outlives its place.
LEMMA TasksStep == ASSUME IInv, [Next]_vars PROVE Tasks'
<1> USE DEF IInv, Places, Settling, Tasks
<1>1. CASE UNCHANGED vars
  BY <1>1 DEF vars, audio, room, turn
<1>2. CASE Hear
  BY <1>2 DEF Hear, turn
<1>3. CASE (AudioLane \/ GateSticks) /\ UNCHANGED OutsideAudio
  BY <1>3, LaneKeeps DEF OutsideAudio, turn
<1>4. CASE IdleDiscards \/ IdleListens
  BY <1>4 DEF IdleDiscards, IdleListens, IdleUnchanged, Pull, Feed, Discard, turn, audio, room
<1>5. CASE WakesToTurn
  BY <1>5 DEF WakesToTurn, Pull, Feed, FreshRecorder, room
<1>6. CASE ProviderListens \/ ProviderAbandons \/ ProviderAnswers
  BY <1>6 DEF ProviderListens, ProviderAbandons, ProviderAnswers, ProviderPulls, Recorded, Record, Pull,
      Feed, Discard, SttOver, RecordingUnchanged, audio, room
<1>7. CASE VadDiscards \/ VadGivesUp \/ VadAnswered
  BY <1>7 DEF VadDiscards, VadGivesUp, VadAnswered, VadPulls, Recorded, Pull, Feed, Discard, SttOver,
      FailureIsSilence, RecordingUnchanged, audio, room
<1>8. CASE \E isSpeech \in BOOLEAN : VadListens(isSpeech) \/ VadCloses(isSpeech)
  BY <1>8 DEF VadListens, VadCloses, VadPulls, Pull, Feed, RecordingUnchanged, audio, room
<1>9. CASE Transcription
  BY <1>9 DEF Transcription, SttEndsTurn, SttReturns, SttFails, SttUnchanged, audio, room
<1>10. CASE Feedback
  BY <1>10 DEF Feedback, FeedbackAcks, FeedbackReads, FeedbackShows, FeedbackStops, ClearsShown,
      FeedbackUnchanged, audio, room
<1>11. CASE Settled
  BY <1>11 DEF Settled, audio, room
<1>12. CASE Agent \/ IndicatorPulses
  BY <1>12 DEF Agent, AgentSpeaks, AgentSpeaksRest, AgentReturns, IndicatorStops, IndicatorPulses,
      Answered, AgentUnchanged, room
<1>13. CASE ProcessingDrains \/ PlayingDrains \/ Flushes
  BY <1>13 DEF ProcessingDrains, PlayingDrains, Flushes, Pull, Discard, TurnUnchanged, audio, room
<1>14. CASE \/ WakesToConversation \/ UxShows \/ Opens \/ OpenFails
           \/ TalkStarts \/ TalkEnds
  BY <1>14 DEF WakesToConversation, UxShows, Opens, OpenFails, TalkStarts, TalkEnds, Terminated, Pull,
      Feed, Conversational, ConversationUnchanged, audio, room
<1>15. CASE \/ Converses \/ \E failed \in BOOLEAN : ConversationEnds(failed)
           \/ FeedbackCancelled \/ SessionCloses \/ SessionLosesDevice \/ SessionAbandoned
  BY <1>15 DEF Converses, ConversationEnds, FeedbackCancelled, SessionCloses, SessionLosesDevice,
      SessionAbandoned, Terminated, Pull, Feed, ConversationUnchanged, audio,
      room
<1>16. CASE Restart
  BY <1>16 DEF Restart, FreshRecorder
<1> QED
  BY <1>1, <1>2, <1>3, <1>4, <1>5, <1>6, <1>7, <1>8, <1>9, <1>10, <1>11, <1>12, <1>13, <1>14,
     <1>15, <1>16
     DEF Next, AudioStep, Run, Recording

LEMMA PlacesKept ==
    ASSUME Places, UNCHANGED <<config, at, stt, outcome, feedback, leds, agent, device>>
    PROVE  Places'
<1>1. config' \in Configs /\ (at \in {"idle", "dead"} \cup Turn \cup Conversation)'
  BY DEF Places
<1>2. stt' \in {"none", "running", "ended", "closed", "text", "silence", "failed"}
  BY DEF Places
<1>3. outcome' \in {"none", "text", "silence", "raised"} /\ leds' \in {"off", "lit"}
  BY DEF Places
<1>4. feedback' \in {"none", "spawned", "waiting", "reading", "over", "ux"}
  BY DEF Places
<1>5. agent' \in {"none", "thinking", "synthesizing", "answered", "done"}
  BY DEF Places
<1>6. device' \in {"fine", "lost opening", "lost closing"}
  BY DEF Places
<1> QED
  BY <1>1, <1>2, <1>3, <1>4, <1>5, <1>6 DEF Places

\* The places are those of the code.
LEMMA PlacesStep == ASSUME IInv, [Next]_vars PROVE Places'
<1> USE DEF IInv, Places
<1>1. CASE UNCHANGED vars
  <2>1. UNCHANGED <<config, at, stt, outcome, feedback, leds, agent, device>>
    BY <1>1 DEF vars, audio, room, turn
  <2> QED
    BY <2>1, PlacesKept
<1>2. CASE Hear
  <2>1. UNCHANGED <<config, at, stt, outcome, feedback, leds, agent, device>>
    BY <1>2 DEF Hear, turn
  <2> QED
    BY <2>1, PlacesKept
<1>3. CASE (AudioLane \/ GateSticks) /\ UNCHANGED OutsideAudio
  <2>1. UNCHANGED <<config, at, stt, outcome, feedback, leds, agent, device>>
    BY <1>3, LaneKeeps DEF OutsideAudio, turn
  <2> QED
    BY <2>1, PlacesKept
<1>4. CASE IdleDiscards \/ IdleListens
  <2>1. UNCHANGED <<config, at, stt, outcome, feedback, leds, agent, device>>
    BY <1>4 DEF IdleDiscards, IdleListens, IdleUnchanged, Pull, Feed, Discard, turn, audio, room
  <2> QED
    BY <2>1, PlacesKept
<1>5. CASE WakesToTurn
  BY <1>5 DEF WakesToTurn, Pull, Feed, FreshRecorder, room
<1>6. CASE ProviderListens \/ ProviderAbandons \/ ProviderAnswers
  BY <1>6 DEF ProviderListens, ProviderAbandons, ProviderAnswers, ProviderPulls, Recorded, Record, Pull,
      Feed, Discard, SttOver, RecordingUnchanged, audio, room
<1>7. CASE VadDiscards \/ VadGivesUp \/ VadAnswered
  BY <1>7 DEF VadDiscards, VadGivesUp, VadAnswered, VadPulls, Recorded, Pull, Feed, Discard, SttOver,
      FailureIsSilence, RecordingUnchanged, audio, room
<1>8. CASE \E isSpeech \in BOOLEAN : VadListens(isSpeech) \/ VadCloses(isSpeech)
  BY <1>8 DEF VadListens, VadCloses, VadPulls, Pull, Feed, RecordingUnchanged, audio, room
<1>9. CASE Transcription
  BY <1>9 DEF Transcription, SttEndsTurn, SttReturns, SttFails, SttUnchanged, audio, room
<1>10. CASE Feedback
  BY <1>10 DEF Feedback, FeedbackAcks, FeedbackReads, FeedbackShows, FeedbackStops, ClearsShown,
      FeedbackUnchanged, audio, room
<1>11. CASE Settled
  BY <1>11 DEF Settled, audio, room
<1>12. CASE Agent \/ IndicatorPulses
  BY <1>12 DEF Agent, AgentSpeaks, AgentSpeaksRest, AgentReturns, IndicatorStops, IndicatorPulses,
      Answered, AgentUnchanged, room
<1>13. CASE ProcessingDrains \/ PlayingDrains \/ Flushes
  BY <1>13 DEF ProcessingDrains, PlayingDrains, Flushes, Pull, Discard, TurnUnchanged, audio, room
<1>14. CASE \/ WakesToConversation \/ UxShows \/ Opens \/ OpenFails
           \/ TalkStarts \/ TalkEnds
  BY <1>14 DEF WakesToConversation, UxShows, Opens, OpenFails, TalkStarts, TalkEnds, Terminated, Pull,
      Feed, Conversational, ConversationUnchanged, audio, room
<1>15. CASE \/ Converses \/ \E failed \in BOOLEAN : ConversationEnds(failed)
           \/ FeedbackCancelled \/ SessionCloses \/ SessionLosesDevice \/ SessionAbandoned
  BY <1>15 DEF Converses, ConversationEnds, FeedbackCancelled, SessionCloses, SessionLosesDevice,
      SessionAbandoned, Terminated, Pull, Feed, ConversationUnchanged, audio,
      room
<1>16. CASE Restart
  BY <1>16 DEF Restart, FreshRecorder
<1> QED
  BY <1>1, <1>2, <1>3, <1>4, <1>5, <1>6, <1>7, <1>8, <1>9, <1>10, <1>11, <1>12, <1>13, <1>14,
     <1>15, <1>16
     DEF Next, AudioStep, Run, Recording

\* The playback is in one of its states.
LEMMA SoundingStep == ASSUME IInv, [Next]_vars PROVE Sounding'
<1> USE DEF IInv, Sounding
<1>1. CASE UNCHANGED vars
  BY <1>1 DEF vars, audio, room, turn
<1>2. CASE Hear
  BY <1>2 DEF Hear, turn
<1>3. CASE (AudioLane \/ GateSticks) /\ UNCHANGED OutsideAudio
  BY <1>3, LaneTypes
<1>4. CASE IdleDiscards \/ IdleListens
  BY <1>4 DEF IdleDiscards, IdleListens, IdleUnchanged, Pull, Feed, Discard, turn, audio, room
<1>5. CASE WakesToTurn
  BY <1>5 DEF WakesToTurn, Pull, Feed, FreshRecorder, room
<1>6. CASE ProviderListens \/ ProviderAbandons \/ ProviderAnswers
  BY <1>6 DEF ProviderListens, ProviderAbandons, ProviderAnswers, ProviderPulls, Recorded, Record, Pull,
      Feed, Discard, SttOver, RecordingUnchanged, audio, room
<1>7. CASE VadDiscards \/ VadGivesUp \/ VadAnswered
  BY <1>7 DEF VadDiscards, VadGivesUp, VadAnswered, VadPulls, Recorded, Pull, Feed, Discard, SttOver,
      FailureIsSilence, RecordingUnchanged, audio, room
<1>8. CASE \E isSpeech \in BOOLEAN : VadListens(isSpeech) \/ VadCloses(isSpeech)
  BY <1>8 DEF VadListens, VadCloses, VadPulls, Pull, Feed, RecordingUnchanged, audio, room
<1>9. CASE Transcription
  BY <1>9 DEF Transcription, SttEndsTurn, SttReturns, SttFails, SttUnchanged, audio, room
<1>10. CASE Feedback
  BY <1>10 DEF Feedback, FeedbackAcks, FeedbackReads, FeedbackShows, FeedbackStops, ClearsShown,
      FeedbackUnchanged, audio, room
<1>11. CASE Settled
  BY <1>11 DEF Settled, audio, room
<1>12. CASE Agent \/ IndicatorPulses
  BY <1>12 DEF Agent, AgentSpeaks, AgentSpeaksRest, AgentReturns, IndicatorStops, IndicatorPulses,
      Answered, AgentUnchanged, room
<1>13. CASE ProcessingDrains \/ PlayingDrains \/ Flushes
  BY <1>13 DEF ProcessingDrains, PlayingDrains, Flushes, Pull, Discard, TurnUnchanged, audio, room
<1>14. CASE \/ WakesToConversation \/ UxShows \/ Opens \/ OpenFails
           \/ TalkStarts \/ TalkEnds
  BY <1>14 DEF WakesToConversation, UxShows, Opens, OpenFails, TalkStarts, TalkEnds, Terminated, Pull,
      Feed, Conversational, ConversationUnchanged, audio, room
<1>15. CASE \/ Converses \/ \E failed \in BOOLEAN : ConversationEnds(failed)
           \/ FeedbackCancelled \/ SessionCloses \/ SessionLosesDevice \/ SessionAbandoned
  BY <1>15 DEF Converses, ConversationEnds, FeedbackCancelled, SessionCloses, SessionLosesDevice,
      SessionAbandoned, Terminated, Pull, Feed, ConversationUnchanged, audio,
      room
<1>16. CASE Restart
  BY <1>16 DEF Restart, FreshRecorder
<1> QED
  BY <1>1, <1>2, <1>3, <1>4, <1>5, <1>6, <1>7, <1>8, <1>9, <1>10, <1>11, <1>12, <1>13, <1>14,
     <1>15, <1>16
     DEF Next, AudioStep, Run, Recording

\* Ages and counters keep their ranges.
LEMMA AgesStep == ASSUME IInv, [Next]_vars PROVE Ages'
<1> USE DEF IInv, Ages, Owing
<1>1. CASE UNCHANGED vars
  BY <1>1 DEF vars, audio, room, turn
<1>2. CASE Hear
  BY <1>2, AgesAre DEF Hear, turn
<1>3. CASE (AudioLane \/ GateSticks) /\ UNCHANGED OutsideAudio
  <2>1. elapsed' = elapsed
    BY <1>3 DEF OutsideAudio
  <2>2. owed' \in Nat /\ quiet' \in 0..Guard
    BY <1>3, LaneTypes
  <2> QED
    BY <2>1, <2>2
<1>4. CASE IdleDiscards \/ IdleListens
  BY <1>4 DEF IdleDiscards, IdleListens, IdleUnchanged, Pull, Feed, Discard, turn, audio, room
<1>5. CASE WakesToTurn
  <2>1. elapsed' = 0 /\ quiet' = quiet /\ (owed' = owed + 1 \/ owed' = owed)
    BY <1>5 DEF WakesToTurn, Gate!Accepted
  <2> QED
    BY <2>1, AgesAre
<1>6. CASE ProviderListens \/ ProviderAbandons \/ ProviderAnswers
  BY <1>6 DEF ProviderListens, ProviderAbandons, ProviderAnswers, ProviderPulls, Recorded, Record, Pull,
      Feed, Discard, SttOver, RecordingUnchanged, audio, room
<1>7. CASE VadDiscards \/ VadGivesUp \/ VadAnswered
  BY <1>7 DEF VadDiscards, VadGivesUp, VadAnswered, VadPulls, Recorded, Pull, Feed, Discard, SttOver,
      FailureIsSilence, RecordingUnchanged, audio, room
<1>8. CASE \E isSpeech \in BOOLEAN : VadListens(isSpeech) \/ VadCloses(isSpeech)
  BY <1>8 DEF VadListens, VadCloses, VadPulls, Pull, Feed, RecordingUnchanged, audio, room
<1>9. CASE Transcription
  BY <1>9 DEF Transcription, SttEndsTurn, SttReturns, SttFails, SttUnchanged, audio, room
<1>10. CASE Feedback
  <2>1. UNCHANGED <<elapsed, owed, quiet>>
    BY <1>10 DEF Feedback, FeedbackAcks, FeedbackReads, FeedbackShows, FeedbackStops, ClearsShown,
        FeedbackUnchanged, audio, room
  <2> QED
    BY <2>1
<1>11. CASE Settled
  BY <1>11, AgesAre DEF Settled, audio, room
<1>12. CASE Agent \/ IndicatorPulses
  BY <1>12 DEF Agent, Gate!Accepted, AgentSpeaks, AgentSpeaksRest, AgentReturns, IndicatorStops, IndicatorPulses,
      Answered, AgentUnchanged, room
<1>13. CASE ProcessingDrains \/ PlayingDrains \/ Flushes
  BY <1>13, AgesAre DEF ProcessingDrains, PlayingDrains, Flushes, Pull, Discard, TurnUnchanged, audio, room
<1>14. CASE \/ WakesToConversation \/ UxShows \/ Opens \/ OpenFails
           \/ TalkStarts \/ TalkEnds
  BY <1>14 DEF WakesToConversation, UxShows, Opens, OpenFails, TalkStarts, TalkEnds, Terminated, Pull,
      Feed, Conversational, ConversationUnchanged, audio, room
<1>15. CASE \/ Converses \/ \E failed \in BOOLEAN : ConversationEnds(failed)
           \/ FeedbackCancelled \/ SessionCloses \/ SessionLosesDevice \/ SessionAbandoned
  BY <1>15 DEF Converses, ConversationEnds, FeedbackCancelled, SessionCloses, SessionLosesDevice,
      SessionAbandoned, Terminated, Pull, Feed, ConversationUnchanged, audio,
      room
<1>16. CASE Restart
  BY <1>16, AgesAre DEF Restart, FreshRecorder
<1> QED
  BY <1>1, <1>2, <1>3, <1>4, <1>5, <1>6, <1>7, <1>8, <1>9, <1>10, <1>11, <1>12, <1>13, <1>14,
     <1>15, <1>16
     DEF Next, AudioStep, Run, Recording

LEMMA OwingKept == ASSUME Owing, UNCHANGED <<playing, owed>> PROVE Owing'
  BY DEF Owing

\* A sound that starts is owed.
LEMMA OwingStep == ASSUME IInv, [Next]_vars PROVE Owing'
<1> USE DEF IInv, Sounding, Ages, Owing
<1>1. CASE UNCHANGED vars
  BY <1>1 DEF vars, audio, room, turn
<1>2. CASE Hear
  BY <1>2 DEF Hear, turn
<1>3. CASE (AudioLane \/ GateSticks) /\ UNCHANGED OutsideAudio
  BY <1>3, LaneTypes
<1>4. CASE IdleDiscards \/ IdleListens
  <2>1. UNCHANGED <<playing, owed>>
    BY <1>4 DEF IdleDiscards, IdleListens, IdleUnchanged, Pull, Feed, Discard, turn, audio, room
  <2> QED
    BY <2>1, OwingKept
<1>5. CASE WakesToTurn
  BY <1>5 DEF WakesToTurn, Gate!Accepted, Pull, Feed, FreshRecorder, room
<1>6. CASE ProviderListens \/ ProviderAbandons \/ ProviderAnswers
  BY <1>6 DEF ProviderListens, ProviderAbandons, ProviderAnswers, ProviderPulls, Recorded, Record, Pull,
      Feed, Discard, SttOver, RecordingUnchanged, audio, room
<1>7. CASE VadDiscards \/ VadGivesUp \/ VadAnswered
  BY <1>7 DEF VadDiscards, VadGivesUp, VadAnswered, VadPulls, Recorded, Pull, Feed, Discard, SttOver,
      FailureIsSilence, RecordingUnchanged, audio, room
<1>8. CASE \E isSpeech \in BOOLEAN : VadListens(isSpeech) \/ VadCloses(isSpeech)
  BY <1>8 DEF VadListens, VadCloses, VadPulls, Pull, Feed, RecordingUnchanged, audio, room
<1>9. CASE Transcription
  BY <1>9 DEF Transcription, SttEndsTurn, SttReturns, SttFails, SttUnchanged, audio, room
<1>10. CASE Feedback
  <2>1. UNCHANGED <<playing, owed>>
    BY <1>10 DEF Feedback, FeedbackAcks, FeedbackReads, FeedbackShows, FeedbackStops, ClearsShown,
        FeedbackUnchanged, audio, room
  <2> QED
    BY <2>1, OwingKept
<1>11. CASE Settled
  <2>1. UNCHANGED <<playing, owed>>
    BY <1>11 DEF Settled, audio, room
  <2> QED
    BY <2>1, OwingKept
<1>12. CASE Agent \/ IndicatorPulses
  BY <1>12 DEF Agent, Gate!Accepted, AgentSpeaks, AgentSpeaksRest, AgentReturns, IndicatorStops, IndicatorPulses,
      Answered, AgentUnchanged, room
<1>13. CASE ProcessingDrains \/ PlayingDrains \/ Flushes
  BY <1>13 DEF ProcessingDrains, PlayingDrains, Flushes, Pull, Discard, TurnUnchanged, audio, room
<1>14. CASE \/ WakesToConversation \/ UxShows \/ Opens \/ OpenFails
           \/ TalkStarts \/ TalkEnds
  BY <1>14 DEF WakesToConversation, UxShows, Opens, OpenFails, TalkStarts, TalkEnds, Terminated, Pull,
      Feed, Conversational, ConversationUnchanged, audio, room
<1>15. CASE \/ Converses \/ \E failed \in BOOLEAN : ConversationEnds(failed)
           \/ FeedbackCancelled \/ SessionCloses \/ SessionLosesDevice \/ SessionAbandoned
  BY <1>15 DEF Converses, ConversationEnds, FeedbackCancelled, SessionCloses, SessionLosesDevice,
      SessionAbandoned, Terminated, Pull, Feed, ConversationUnchanged, audio,
      room
<1>16. CASE Restart
  BY <1>16 DEF Restart, FreshRecorder
<1> QED
  BY <1>1, <1>2, <1>3, <1>4, <1>5, <1>6, <1>7, <1>8, <1>9, <1>10, <1>11, <1>12, <1>13, <1>14,
     <1>15, <1>16
     DEF Next, AudioStep, Run, Recording

\* A turn that settles has an outcome.
LEMMA SettlingStep == ASSUME IInv, [Next]_vars PROVE Settling'
<1> USE DEF IInv, Places, Settling
<1>1. CASE UNCHANGED vars
  BY <1>1 DEF vars, audio, room, turn
<1>2. CASE Hear
  BY <1>2 DEF Hear, turn
<1>3. CASE (AudioLane \/ GateSticks) /\ UNCHANGED OutsideAudio
  BY <1>3, LaneKeeps DEF OutsideAudio, turn
<1>4. CASE IdleDiscards \/ IdleListens
  BY <1>4 DEF IdleDiscards, IdleListens, IdleUnchanged, Pull, Feed, Discard, turn, audio, room
<1>5. CASE WakesToTurn
  BY <1>5 DEF WakesToTurn, Pull, Feed, FreshRecorder, room
<1>6. CASE ProviderListens \/ ProviderAbandons \/ ProviderAnswers
  BY <1>6 DEF ProviderListens, ProviderAbandons, ProviderAnswers, ProviderPulls, Recorded, Record, Pull,
      Feed, Discard, SttOver, RecordingUnchanged, audio, room
<1>7. CASE VadDiscards \/ VadGivesUp \/ VadAnswered
  BY <1>7 DEF VadDiscards, VadGivesUp, VadAnswered, VadPulls, Recorded, Pull, Feed, Discard, SttOver,
      FailureIsSilence, RecordingUnchanged, audio, room
<1>8. CASE \E isSpeech \in BOOLEAN : VadListens(isSpeech) \/ VadCloses(isSpeech)
  BY <1>8 DEF VadListens, VadCloses, VadPulls, Pull, Feed, RecordingUnchanged, audio, room
<1>9. CASE Transcription
  BY <1>9 DEF Transcription, SttEndsTurn, SttReturns, SttFails, SttUnchanged, audio, room
<1>10. CASE Feedback
  BY <1>10 DEF Feedback, FeedbackAcks, FeedbackReads, FeedbackShows, FeedbackStops, ClearsShown,
      FeedbackUnchanged, audio, room
<1>11. CASE Settled
  BY <1>11 DEF Settled, audio, room
<1>12. CASE Agent \/ IndicatorPulses
  BY <1>12 DEF Agent, AgentSpeaks, AgentSpeaksRest, AgentReturns, IndicatorStops, IndicatorPulses,
      Answered, AgentUnchanged, room
<1>13. CASE ProcessingDrains \/ PlayingDrains \/ Flushes
  BY <1>13 DEF ProcessingDrains, PlayingDrains, Flushes, Pull, Discard, TurnUnchanged, audio, room
<1>14. CASE \/ WakesToConversation \/ UxShows \/ Opens \/ OpenFails
           \/ TalkStarts \/ TalkEnds
  BY <1>14 DEF WakesToConversation, UxShows, Opens, OpenFails, TalkStarts, TalkEnds, Terminated, Pull,
      Feed, Conversational, ConversationUnchanged, audio, room
<1>15. CASE \/ Converses \/ \E failed \in BOOLEAN : ConversationEnds(failed)
           \/ FeedbackCancelled \/ SessionCloses \/ SessionLosesDevice \/ SessionAbandoned
  BY <1>15 DEF Converses, ConversationEnds, FeedbackCancelled, SessionCloses, SessionLosesDevice,
      SessionAbandoned, Terminated, Pull, Feed, ConversationUnchanged, audio,
      room
<1>16. CASE Restart
  BY <1>16 DEF Restart, FreshRecorder
<1> QED
  BY <1>1, <1>2, <1>3, <1>4, <1>5, <1>6, <1>7, <1>8, <1>9, <1>10, <1>11, <1>12, <1>13, <1>14,
     <1>15, <1>16
     DEF Next, AudioStep, Run, Recording

\* A runtime with the rabbit's own speaker holds no conversations.
LEMMA ApartStep == ASSUME IInv, [Next]_vars PROVE Apart'
<1> USE DEF IInv, Apart
<1>1. CASE UNCHANGED vars
  BY <1>1 DEF vars, audio, room, turn
<1>2. CASE Hear
  BY <1>2 DEF Hear, turn
<1>3. CASE (AudioLane \/ GateSticks) /\ UNCHANGED OutsideAudio
  BY <1>3, LaneKeeps DEF OutsideAudio, turn
<1>4. CASE IdleDiscards \/ IdleListens
  BY <1>4 DEF IdleDiscards, IdleListens, IdleUnchanged, Pull, Feed, Discard, turn, audio, room
<1>5. CASE WakesToTurn
  BY <1>5 DEF WakesToTurn, Pull, Feed, FreshRecorder, room
<1>6. CASE ProviderListens \/ ProviderAbandons \/ ProviderAnswers
  BY <1>6 DEF ProviderListens, ProviderAbandons, ProviderAnswers, ProviderPulls, Recorded, Record, Pull,
      Feed, Discard, SttOver, RecordingUnchanged, audio, room
<1>7. CASE VadDiscards \/ VadGivesUp \/ VadAnswered
  BY <1>7 DEF VadDiscards, VadGivesUp, VadAnswered, VadPulls, Recorded, Pull, Feed, Discard, SttOver,
      FailureIsSilence, RecordingUnchanged, audio, room
<1>8. CASE \E isSpeech \in BOOLEAN : VadListens(isSpeech) \/ VadCloses(isSpeech)
  BY <1>8 DEF VadListens, VadCloses, VadPulls, Pull, Feed, RecordingUnchanged, audio, room
<1>9. CASE Transcription
  BY <1>9 DEF Transcription, SttEndsTurn, SttReturns, SttFails, SttUnchanged, audio, room
<1>10. CASE Feedback
  <2>1. UNCHANGED <<config, at, talking>>
    BY <1>10 DEF Feedback, FeedbackAcks, FeedbackReads, FeedbackShows, FeedbackStops, ClearsShown,
        FeedbackUnchanged, audio, room
  <2> QED
    BY <2>1
<1>11. CASE Settled
  BY <1>11 DEF Settled, audio, room
<1>12. CASE Agent \/ IndicatorPulses
  BY <1>12 DEF Agent, AgentSpeaks, AgentSpeaksRest, AgentReturns, IndicatorStops, IndicatorPulses,
      Answered, AgentUnchanged, room
<1>13. CASE ProcessingDrains \/ PlayingDrains \/ Flushes
  BY <1>13 DEF ProcessingDrains, PlayingDrains, Flushes, Pull, Discard, TurnUnchanged, audio, room
<1>14. CASE \/ WakesToConversation \/ UxShows \/ Opens \/ OpenFails
           \/ TalkStarts \/ TalkEnds
  BY <1>14, PipelineAssumption DEF WakesToConversation, UxShows, Opens, OpenFails, TalkStarts, TalkEnds, Terminated, Pull,
      Feed, Conversational, ConversationUnchanged, audio, room, Places
<1>15. CASE \/ Converses \/ \E failed \in BOOLEAN : ConversationEnds(failed)
           \/ FeedbackCancelled \/ SessionCloses \/ SessionLosesDevice \/ SessionAbandoned
  BY <1>15 DEF Converses, ConversationEnds, FeedbackCancelled, SessionCloses, SessionLosesDevice,
      SessionAbandoned, Terminated, Pull, Feed, ConversationUnchanged, audio,
      room
<1>16. CASE Restart
  BY <1>16 DEF Restart, FreshRecorder
<1> QED
  BY <1>1, <1>2, <1>3, <1>4, <1>5, <1>6, <1>7, <1>8, <1>9, <1>10, <1>11, <1>12, <1>13, <1>14,
     <1>15, <1>16
     DEF Next, AudioStep, Run, Recording

LEMMA LimitsAre ==
    /\ StartLimit \in Nat \ {0} /\ SilenceLimit \in Nat \ {0}
    /\ MaxChunks \in Nat \ {0} /\ PreRoll \in Nat
  BY PipelineAssumption

LEMMA FreshIs == Within(FreshRecorder) /\ GoesOn(FreshRecorder)
  BY LimitsAre DEF FreshRecorder, Within, GoesOn

LEMMA ProcessedIs ==
    ASSUME NEW r, Within(r), GoesOn(r), NEW isSpeech \in BOOLEAN
    PROVE  /\ Within(Processed(r, isSpeech))
           /\ ~NobodySpoke(r, isSpeech) /\ ~UtteranceOver(r, isSpeech)
                  => GoesOn(Processed(r, isSpeech))
<1>1. /\ r.speaking \in BOOLEAN /\ r.waited \in Nat /\ r.silence \in Nat /\ r.emitted \in Nat
      /\ r = [speaking |-> r.speaking, waited |-> r.waited,
              silence |-> r.silence, emitted |-> r.emitted]
  BY DEF Within
<1>2. CASE ~r.speaking /\ isSpeech
  <2>1. Processed(r, isSpeech) = [speaking |-> TRUE, waited |-> r.waited, silence |-> r.silence,
                                  emitted |-> Lower(r.waited, PreRoll) + 1]
    BY <1>1, <1>2 DEF Processed
  <2>2. Lower(r.waited, PreRoll) \in Nat /\ Lower(r.waited, PreRoll) <= PreRoll
    BY <1>1, LimitsAre DEF Lower
  <2> QED
    BY <1>1, <2>1, <2>2, LimitsAre DEF Within, GoesOn
<1>3. CASE ~r.speaking /\ ~isSpeech
  <2>1. Processed(r, isSpeech) = [speaking |-> FALSE, waited |-> r.waited + 1,
                                  silence |-> r.silence, emitted |-> r.emitted]
    BY <1>1, <1>3 DEF Processed
  <2> QED
    BY <1>1, <1>3, <2>1, LimitsAre DEF Within, GoesOn, NobodySpoke
<1>4. CASE r.speaking
  <2> DEFINE n == IF isSpeech THEN 0 ELSE r.silence + 1
  <2>1. Processed(r, isSpeech) = [speaking |-> TRUE, waited |-> r.waited,
                                  silence |-> n, emitted |-> r.emitted + 1]
    BY <1>1, <1>4 DEF Processed
  <2>2. n \in Nat /\ n <= SilenceLimit
    BY <1>1, LimitsAre DEF GoesOn
  <2>3. ~UtteranceOver(r, isSpeech) => n < SilenceLimit /\ r.emitted + 1 < MaxChunks
    BY <1>1, <1>4, LimitsAre DEF UtteranceOver
  <2> HIDE DEF n
  <2> QED
    BY <1>1, <2>1, <2>2, <2>3, LimitsAre DEF Within, GoesOn
<1> QED
  BY <1>1, <1>2, <1>3, <1>4

LEMMA CountsKept ==
    ASSUME Counts, recorder' = recorder, at' = "listening" => at = "listening"
    PROVE  Counts'
  BY DEF Counts

\* The recorder stays within its limits.
LEMMA CountsStep == ASSUME IInv, [Next]_vars PROVE Counts'
<1> USE DEF IInv
<1>1. CASE UNCHANGED vars
  <2>1. recorder' = recorder /\ (at' = "listening" => at = "listening")
    BY <1>1 DEF vars, audio, room, turn
  <2> QED
    BY <2>1, CountsKept
<1>2. CASE Hear
  <2>1. recorder' = recorder /\ (at' = "listening" => at = "listening")
    BY <1>2 DEF Hear, turn
  <2> QED
    BY <2>1, CountsKept
<1>3. CASE (AudioLane \/ GateSticks) /\ UNCHANGED OutsideAudio
  <2>1. recorder' = recorder /\ (at' = "listening" => at = "listening")
    BY <1>3, LaneKeeps DEF OutsideAudio, turn
  <2> QED
    BY <2>1, CountsKept
<1>4. CASE IdleDiscards \/ IdleListens
  <2>1. recorder' = recorder /\ (at' = "listening" => at = "listening")
    BY <1>4 DEF IdleDiscards, IdleListens, IdleUnchanged, Pull, Feed, Discard, turn, audio, room
  <2> QED
    BY <2>1, CountsKept
<1>5. CASE WakesToTurn
  <2>1. recorder' = FreshRecorder
    BY <1>5 DEF WakesToTurn
  <2> QED
    BY <2>1, FreshIs DEF Counts
<1>6. CASE ProviderListens \/ ProviderAbandons \/ ProviderAnswers
  <2>1. recorder' = recorder /\ (at' = "listening" => at = "listening")
    BY <1>6 DEF ProviderListens, ProviderAbandons, ProviderAnswers, ProviderPulls, Recorded, Record,
        Pull, Feed, Discard, SttOver, RecordingUnchanged, audio, room
  <2> QED
    BY <2>1, CountsKept
<1>7. CASE VadDiscards \/ VadGivesUp \/ VadAnswered
  <2>1. CASE VadGivesUp
    <3>1. /\ at = "listening" /\ at' = "settling"
          /\ recorder' = Processed(recorder, FALSE)
      BY <2>1 DEF VadGivesUp, VadPulls, Recorded
    <3> QED
      BY <3>1, ProcessedIs DEF Counts
  <2>2. CASE VadDiscards \/ VadAnswered
    <3>1. recorder' = recorder /\ (at' = "listening" => at = "listening")
      BY <2>2 DEF VadDiscards, VadAnswered, VadPulls, Recorded
    <3> QED
      BY <3>1, CountsKept
  <2> QED
    BY <1>7, <2>1, <2>2
<1>8. CASE \E isSpeech \in BOOLEAN : VadListens(isSpeech) \/ VadCloses(isSpeech)
  <2>1. PICK isSpeech \in BOOLEAN : VadListens(isSpeech) \/ VadCloses(isSpeech)
    BY <1>8
  <2>2. /\ at = "listening" /\ recorder' = Processed(recorder, isSpeech)
        /\ \/ at' = "awaiting"
           \/ ~NobodySpoke(recorder, isSpeech) /\ ~UtteranceOver(recorder, isSpeech)
    BY <2>1 DEF VadListens, VadCloses, VadPulls
  <2> QED
    BY <2>2, ProcessedIs DEF Counts
<1>9. CASE Transcription
  <2>1. recorder' = recorder /\ (at' = "listening" => at = "listening")
    BY <1>9 DEF Transcription, SttEndsTurn, SttReturns, SttFails, SttUnchanged, audio, room
  <2> QED
    BY <2>1, CountsKept
<1>10. CASE Feedback
  <2>1. recorder' = recorder /\ (at' = "listening" => at = "listening")
    BY <1>10 DEF Feedback, FeedbackAcks, FeedbackReads, FeedbackShows, FeedbackStops, ClearsShown,
        FeedbackUnchanged, audio, room
  <2> QED
    BY <2>1, CountsKept
<1>11. CASE Settled
  <2>1. recorder' = recorder /\ (at' = "listening" => at = "listening")
    BY <1>11 DEF Settled, audio, room
  <2> QED
    BY <2>1, CountsKept
<1>12. CASE Agent \/ IndicatorPulses
  <2>1. recorder' = recorder /\ (at' = "listening" => at = "listening")
    BY <1>12 DEF Agent, AgentSpeaks, AgentSpeaksRest, AgentReturns, IndicatorStops, IndicatorPulses,
        Answered, AgentUnchanged, room
  <2> QED
    BY <2>1, CountsKept
<1>13. CASE ProcessingDrains \/ PlayingDrains \/ Flushes
  <2>1. recorder' = recorder /\ (at' = "listening" => at = "listening")
    BY <1>13 DEF ProcessingDrains, PlayingDrains, Flushes, Pull, Discard, TurnUnchanged, audio, room
  <2> QED
    BY <2>1, CountsKept
<1>14. CASE \/ WakesToConversation \/ UxShows \/ Opens \/ OpenFails
           \/ TalkStarts \/ TalkEnds
  <2>1. recorder' = recorder /\ (at' = "listening" => at = "listening")
    BY <1>14 DEF WakesToConversation, UxShows, Opens, OpenFails, TalkStarts, TalkEnds, Terminated, Pull,
        Feed, Conversational, ConversationUnchanged, audio, room
  <2> QED
    BY <2>1, CountsKept
<1>15. CASE \/ Converses \/ \E failed \in BOOLEAN : ConversationEnds(failed)
           \/ FeedbackCancelled \/ SessionCloses \/ SessionLosesDevice \/ SessionAbandoned
  <2>1. recorder' = recorder /\ (at' = "listening" => at = "listening")
    BY <1>15 DEF Converses, ConversationEnds, FeedbackCancelled, SessionCloses, SessionLosesDevice,
        SessionAbandoned, Terminated, Pull, Feed, ConversationUnchanged, audio,
        room
  <2> QED
    BY <2>1, CountsKept
<1>16. CASE Restart
  <2>1. recorder' = FreshRecorder
    BY <1>16 DEF Restart
  <2> QED
    BY <2>1, FreshIs DEF Counts
<1> QED
  BY <1>1, <1>2, <1>3, <1>4, <1>5, <1>6, <1>7, <1>8, <1>9, <1>10, <1>11, <1>12, <1>13, <1>14,
     <1>15, <1>16
     DEF Next, AudioStep, Run, Recording

-----------------------------------------------------------------------------
\* The queue and the sound

\* The pulls, and whom they feed.
Armed == {"idle"} \cup Conversation

Pulls ==
    /\ Pull
    /\ \/ Discard
       \/ at = "idle" /\ ~Gated /\ Feed("detector")
       \/ at = "listening" /\ ~Gated /\ Feed("stt")
       \/ at = "conversing" /\ Feed("model")

Other ==
    /\ UNCHANGED <<config, playing, quiet>>
    /\ tail' = tail \/ at \in Conversation
    /\ UNCHANGED <<captured, heard>> \/ Pulls
    /\ at' \in Armed => at \in Armed \/ (at = "flushing" /\ Flushed /\ Pull)
    /\ at' = "listening" => at \in {"idle", "listening"}
    /\ at' = "flushing" => elapsed' = 0 \/ (at = "flushing" /\ elapsed' = elapsed)

Lane == (AudioLane \/ GateSticks) /\ UNCHANGED OutsideAudio
Shape == Hear \/ Restart \/ Lane \/ Other

\* What a step does with the queue and the sound.
LEMMA ShapeStep == ASSUME IInv, [Next]_vars PROVE Shape
<1> USE DEF IInv, Places, Shape, Other, Pulls, Armed
<1>1. CASE UNCHANGED vars
  BY <1>1 DEF vars, audio, room, turn
<1>2. CASE Hear
  BY <1>2
<1>3. CASE (AudioLane \/ GateSticks) /\ UNCHANGED OutsideAudio
  BY <1>3 DEF Lane
<1>4. CASE IdleDiscards \/ IdleListens
  BY <1>4 DEF IdleDiscards, IdleListens, IdleUnchanged, Pull, Feed, Discard, turn, audio, room
<1>5. CASE WakesToTurn
  BY <1>5 DEF WakesToTurn, Pull, Feed, FreshRecorder, room
<1>6. CASE ProviderListens \/ ProviderAbandons \/ ProviderAnswers
  BY <1>6 DEF ProviderListens, ProviderAbandons, ProviderAnswers, ProviderPulls, Recorded, Record, Pull,
      Feed, Discard, SttOver, RecordingUnchanged, audio, room
<1>7. CASE VadDiscards \/ VadGivesUp \/ VadAnswered
  BY <1>7 DEF VadDiscards, VadGivesUp, VadAnswered, VadPulls, Recorded, Pull, Feed, Discard, SttOver,
      FailureIsSilence, RecordingUnchanged, audio, room
<1>8. CASE \E isSpeech \in BOOLEAN : VadListens(isSpeech) \/ VadCloses(isSpeech)
  BY <1>8 DEF VadListens, VadCloses, VadPulls, Pull, Feed, RecordingUnchanged, audio, room
<1>9. CASE Transcription
  BY <1>9 DEF Transcription, SttEndsTurn, SttReturns, SttFails, SttUnchanged, audio, room
<1>10. CASE Feedback
  BY <1>10 DEF Feedback, FeedbackAcks, FeedbackReads, FeedbackShows, FeedbackStops, ClearsShown,
      FeedbackUnchanged, audio, room
<1>11. CASE Settled
  BY <1>11 DEF Settled, audio, room
<1>12. CASE Agent \/ IndicatorPulses
  BY <1>12 DEF Agent, AgentSpeaks, AgentSpeaksRest, AgentReturns, IndicatorStops, IndicatorPulses,
      Answered, AgentUnchanged, room
<1>13. CASE ProcessingDrains \/ PlayingDrains \/ Flushes
  BY <1>13 DEF ProcessingDrains, PlayingDrains, Flushes, Pull, Discard, TurnUnchanged, audio, room
<1>14. CASE \/ WakesToConversation \/ UxShows \/ Opens \/ OpenFails
           \/ TalkStarts \/ TalkEnds
  BY <1>14 DEF WakesToConversation, UxShows, Opens, OpenFails, TalkStarts, TalkEnds, Terminated, Pull,
      Feed, Conversational, ConversationUnchanged, audio, room
<1>15. CASE \/ Converses \/ \E failed \in BOOLEAN : ConversationEnds(failed)
           \/ FeedbackCancelled \/ SessionCloses \/ SessionLosesDevice \/ SessionAbandoned
  BY <1>15 DEF Converses, ConversationEnds, FeedbackCancelled, SessionCloses, SessionLosesDevice,
      SessionAbandoned, Terminated, Pull, Feed, ConversationUnchanged, audio,
      room
<1>16. CASE Restart
  BY <1>16
<1> QED
  BY <1>1, <1>2, <1>3, <1>4, <1>5, <1>6, <1>7, <1>8, <1>9, <1>10, <1>11, <1>12, <1>13, <1>14,
     <1>15, <1>16
     DEF Next, AudioStep, Run, Recording

LEMMA BlocksStep == ASSUME IInv, Shape PROVE Blocks'
<1>1. Blocks /\ (tail \in BOOLEAN) /\ Capacity \in Nat
  BY PipelineAssumption DEF IInv, Flags
<1>2. CASE UNCHANGED <<captured, heard>>
  BY <1>1, <1>2 DEF Blocks
<1>3. CASE Hear
  <2> DEFINE b == [voice |-> tail, during |-> Phase]
  <2>1. b \in Block
    BY <1>1 DEF Block, Phase
  <2>2. captured' = Pushed(captured, b) /\ heard' = {}
    BY <1>3 DEF Hear
  <2> HIDE DEF b
  <2> QED
    BY <1>1, <2>1, <2>2, PushedIs DEF Blocks
<1>4. CASE Restart
  <2>1. captured' = <<>> /\ heard' = {} /\ Len(captured') = 0
    BY <1>4 DEF Restart
  <2>2. captured' \in Seq(Block)
    BY <2>1
  <2> QED
    BY <1>1, <2>1, <2>2 DEF Blocks
<1>5. CASE Pulls
  <2>1. captured # <<>> /\ captured' = Tail(captured) /\ captured \in Seq(Block)
    BY <1>1, <1>5 DEF Pulls, Pull, Blocks
  <2>2. /\ Head(captured) \in Block /\ Tail(captured) \in Seq(Block)
        /\ Len(Tail(captured)) = Len(captured) - 1 /\ Len(captured) \in Nat
    BY <2>1, Pulled, LenProperties
  <2>3. heard' \subseteq [to: {"detector", "stt", "model"}, block: Block]
    BY <1>5, <2>2 DEF Pulls, Discard, Feed
  <2>4. Len(captured') <= Capacity
    BY <1>1, <2>1, <2>2 DEF Blocks
  <2> QED
    BY <2>1, <2>2, <2>3, <2>4 DEF Blocks
<1> QED
  BY <1>2, <1>3, <1>4, <1>5 DEF Shape, Other, Lane, OutsideAudio

\* What a step of the lane leaves alone, and the silence it can only break.
LEMMA LaneIs ==
    ASSUME IInv, Lane
    PROVE  /\ UNCHANGED <<config, at, captured, elapsed, heard>>
           /\ ~config.local /\ Silent(2)' => Silent(2)
           /\ ~config.local /\ Silent(1)' => Silent(1) /\ tail' = tail
<1>1. UNCHANGED <<config, at, captured, elapsed, heard>>
  BY DEF Lane, OutsideAudio
<1>2. Guard \in Nat /\ Guard >= 2 /\ quiet \in Nat
  BY AgesAre DEF IInv, Ages
<1>3. CASE \E n \in 1..owed : PlaysAtOnce(n) \/ Discarded(n)
  BY <1>1, <1>3 DEF PlaysAtOnce, Discarded, Gate!Discarded, Silent, room
<1>4. CASE SoundStarts
  BY <1>1, <1>4 DEF SoundStarts, Gate!SoundStarts, Silent
<1>5. CASE HandleSet \/ SoundEnds
  BY <1>1, <1>5 DEF HandleSet, SoundEnds, Gate!HandleSet, Gate!SoundEnds, Silent, room
<1>6. CASE GuardEnds \/ GateSticks
  BY <1>1, <1>2, <1>6 DEF GuardEnds, GateSticks, Gate!GuardEnds, Silent, room
<1> QED
  BY <1>1, <1>3, <1>4, <1>5, <1>6 DEF Lane, AudioLane

LEMMA HeardBlock == ASSUME IInv PROVE [voice |-> tail, during |-> Phase] \in Block
  BY DEF IInv, Flags, Block, Phase

\* The silence that a new block adds to.
LEMMA HearIs ==
    ASSUME IInv, Hear
    PROVE  /\ UNCHANGED <<config, at, playing>> /\ heard' = {}
           /\ Silent(2)' => Silent(1)
           /\ ~config.local /\ Silent(1)' => ~tail'
           /\ captured' = Pushed(captured, [voice |-> tail, during |-> Phase])
           /\ at \in Pulling => captured = <<>>
<1>1. /\ UNCHANGED <<config, at, playing>> /\ heard' = {}
      /\ captured' = Pushed(captured, [voice |-> tail, during |-> Phase])
      /\ at \in Pulling => captured = <<>>
      /\ tail' = (playing \in {"starting", "sounding"} \/ talking)
      /\ quiet' = IF playing = "guard" THEN Lower(quiet + 1, Guard) ELSE quiet
  BY DEF Hear
<1>2. Guard \in Nat /\ Guard >= 2 /\ quiet \in Nat
  BY AgesAre DEF IInv, Ages
<1>3. Silent(2)' => Silent(1)
  BY <1>1, <1>2 DEF Silent, Lower
<1>4. ~config.local /\ Silent(1)' => ~tail'
  BY <1>1 DEF IInv, Apart, Silent
<1> QED
  BY <1>1, <1>3, <1>4

LEMMA HushedStep == ASSUME IInv, Shape PROVE Hushed'
<1>1. SUFFICES ASSUME ~config'.local, Silent(1)' PROVE ~tail'
  BY DEF Hushed
<1>2. CASE Hear
  BY <1>1, <1>2, HearIs
<1>3. CASE Restart
  BY <1>3 DEF Restart
<1>4. CASE Lane
  BY <1>1, <1>4, LaneIs DEF IInv, Hushed
<1>5. CASE Other
  BY <1>1, <1>5 DEF Other, IInv, Hushed, Apart, Silent
<1> QED
  BY <1>2, <1>3, <1>4, <1>5 DEF Shape

LEMMA FlushIsOver ==
    ASSUME IInv, at = "flushing", Flushed, Pull
    PROVE  NoTurn(captured') /\ NoVoice(captured')
<1>1. FlushBlocks \in Nat \ {0} /\ elapsed \in Nat
  BY PipelineAssumption, AgesAre DEF IInv, Ages
<1>2. elapsed > 0
  BY <1>1 DEF Flushed
<1>3. Len(captured) <= 1
  BY <1>2 DEF IInv, Flushing
<1> QED
  BY <1>3, Pulled DEF Pull, IInv, Blocks

LEMMA EmptyIs == NoTurn(<<>>) /\ NoVoice(<<>>) /\ Len(<<>>) = 0
  BY DEF NoTurn, NoVoice

LEMMA FlushingStep == ASSUME IInv, Shape PROVE Flushing'
<1>1. Blocks /\ Flushing /\ (tail \in BOOLEAN) /\ elapsed \in Nat
  BY AgesAre DEF IInv, Flags, Ages
<1>2. CASE Hear
  <2> DEFINE b == [voice |-> tail, during |-> Phase]
  <2>1. b \in Block /\ (at \in {"idle"} \cup Conversation => b.during # "turn")
    BY <1>1 DEF Block, Phase
  <2>2. captured' = Pushed(captured, b) /\ at' = at /\ (at \in Pulling => captured = <<>>)
    BY <1>2, HearIs
  <2> HIDE DEF b
  <2>3. at \in {"idle"} \cup Conversation => NoTurn(captured')
    BY <1>1, <2>1, <2>2, PushedIs DEF Blocks, Flushing
  <2>4. at = "flushing" => Len(captured') = 1
    BY <1>1, <2>1, <2>2, PushedIs DEF Blocks, Pulling
  <2>5. at' = at
    BY <2>2
  <2>6. at' \in {"idle"} \cup Conversation => NoTurn(captured')
    BY <2>3, <2>5
  <2>7. at' = "flushing" => Len(captured') <= 1
    <3>1. SUFFICES ASSUME at' = "flushing" PROVE Len(captured') <= 1
      OBVIOUS
    <3>2. Len(captured') = 1
      BY <2>4, <2>5, <3>1
    <3> QED
      BY ONLY <3>2
  <2> QED
    BY ONLY <2>6, <2>7 DEF Flushing
<1>3. CASE Restart
  BY <1>3, EmptyIs DEF Restart, Flushing
<1>4. CASE Lane
  BY <1>1, <1>4, LaneIs DEF Flushing
<1>5. CASE Other
  <2>1. CASE Pull
    <3>1. captured # <<>> /\ captured' = Tail(captured) /\ captured \in Seq(Block)
      BY <1>1, <2>1 DEF Pull, Blocks
    <3>2. at' \in {"idle"} \cup Conversation => NoTurn(captured')
      <4>1. SUFFICES ASSUME at' \in {"idle"} \cup Conversation PROVE NoTurn(captured')
        OBVIOUS
      <4>2. CASE at \in {"idle"} \cup Conversation
        BY <1>1, <3>1, <4>2, Pulled DEF Flushing
      <4>3. CASE at = "flushing" /\ Flushed
        BY <2>1, <4>3, FlushIsOver
      <4> QED
        BY <1>5, <4>1, <4>2, <4>3 DEF Other, Armed
    <3>3. ASSUME at' = "flushing", elapsed' > 0 PROVE Len(captured') <= 1
      <4>1. at = "flushing" /\ elapsed > 0
        BY <1>5, <3>3 DEF Other
      <4>2. Len(captured) <= 1 /\ Len(captured) \in Nat /\ Len(captured') = Len(captured) - 1
        BY <1>1, <3>1, <4>1, Pulled, LenProperties DEF Flushing
      <4> QED
        BY <4>2
    <3> QED
      BY <3>2, <3>3 DEF Flushing
  <2>2. CASE UNCHANGED <<captured, heard>> /\ ~Pull
    <3>1. at' \in {"idle"} \cup Conversation => at \in {"idle"} \cup Conversation
      BY <1>5, <2>2 DEF Other, Armed
    <3>2. at' = "flushing" /\ elapsed' > 0 => at = "flushing" /\ elapsed > 0
      BY <1>5 DEF Other
    <3> QED
      BY <1>1, <2>2, <3>1, <3>2 DEF Flushing
  <2> QED
    BY <1>5, <2>1, <2>2 DEF Other, Pulls
<1> QED
  BY <1>2, <1>3, <1>4, <1>5 DEF Shape

LEMMA QuietStep == ASSUME IInv, Shape PROVE Quiet'
<1>1. Blocks /\ (tail \in BOOLEAN) /\ Quiet /\ Hushed /\ Apart
  BY DEF IInv, Flags
<1>2. SUFFICES ASSUME ~config'.local, at' \in {"idle", "listening"}, Silent(2)'
               PROVE  NoVoice(captured')
  BY DEF Quiet
<1>3. CASE Hear
  <2> DEFINE b == [voice |-> tail, during |-> Phase]
  <2>1. b \in Block /\ b.voice = tail
    BY <1>1 DEF Block, Phase
  <2>2. captured' = Pushed(captured, b) /\ captured = <<>> /\ ~tail
    BY <1>1, <1>2, <1>3, HearIs DEF Pulling, Hushed
  <2> HIDE DEF b
  <2>3. captured \in Seq(Block) /\ Len(captured) <= Capacity
    BY <1>1 DEF Blocks
  <2> QED
    BY <2>1, <2>2, <2>3, PushedIs
<1>4. CASE Restart
  BY <1>4, EmptyIs DEF Restart
<1>5. CASE Lane
  BY <1>1, <1>2, <1>5, LaneIs DEF Quiet
<1>6. CASE Other
  <2>1. ~config.local /\ Silent(2)
    BY <1>2, <1>6 DEF Other, Silent
  <2>2. CASE at = "flushing" /\ Flushed /\ Pull
    BY <2>2, FlushIsOver
  <2>3. CASE at \in {"idle", "listening"}
    <3>1. NoVoice(captured)
      BY <1>1, <2>1, <2>3 DEF Quiet
    <3>2. CASE Pull
      BY <1>1, <3>1, <3>2, Pulled DEF Pull, Blocks
    <3>3. CASE captured' = captured
      BY <3>1, <3>3
    <3> QED
      BY <1>6, <3>2, <3>3 DEF Other, Pulls
  <2> QED
    BY <1>1, <1>2, <1>6, <2>1, <2>2, <2>3 DEF Other, Armed, Apart
<1> QED
  BY <1>3, <1>4, <1>5, <1>6 DEF Shape

\* A block is fed on from a queue that holds only such blocks.
LEMMA HeardStep == ASSUME IInv, Shape PROVE FreshEars' /\ DeafToItself'
<1>1. /\ FreshEars /\ DeafToItself /\ Flushing /\ Quiet /\ Apart /\ Blocks
      /\ owed \in Nat
  BY DEF IInv, Ages
<1>2. CASE Hear \/ Restart
  <2>1. heard' = {}
    BY <1>2, HearIs DEF Restart
  <2> QED
    BY <2>1 DEF FreshEars, DeafToItself
<1>3. CASE UNCHANGED <<config, heard>>
  BY <1>1, <1>3 DEF FreshEars, DeafToItself
<1>4. CASE Pulls /\ config' = config
  <2>1. captured # <<>> /\ captured \in Seq(Block)
    BY <1>1, <1>4 DEF Pulls, Pull, Blocks
  <2>2. at = "idle" => Head(captured).during # "turn"
    BY <1>1, <2>1, Pulled DEF Flushing
  <2>3. ~config.local /\ at \in {"idle", "listening"} /\ ~Gated => ~Head(captured).voice
    BY <1>1, <2>1, Pulled DEF Quiet, Gated, Silent
  <2>4. ~config.local => at # "conversing"
    BY <1>1 DEF Apart
  <2>5. FreshEars'
    BY <1>4, <2>2 DEF FreshEars, Pulls, Discard, Feed
  <2>6. DeafToItself'
    BY <1>4, <2>3, <2>4 DEF DeafToItself, Pulls, Discard, Feed
  <2> QED
    BY <2>5, <2>6
<1> QED
  BY <1>2, <1>3, <1>4, LaneIs DEF Shape, Other

-----------------------------------------------------------------------------
\* The theorems

LEMMA Initially == ASSUME Init PROVE IInv
<1> USE DEF Init
<1>1. Flags /\ Places /\ Sounding
  <2>1. Flags
    BY DEF Flags
  <2>2. Places
    BY DEF Places
  <2> QED
    BY <2>1, <2>2 DEF Sounding
<1>2. Ages
  BY AgesAre DEF Ages
<1>3. Blocks
  <2>1. captured \in Seq(Block) /\ Len(captured) = 0 /\ Capacity \in Nat
    BY EmptyIs, PipelineAssumption
  <2> QED
    BY <2>1 DEF Blocks
<1>4. Counts
  BY FreshIs DEF Counts
<1>5. Owing /\ Settling /\ Tasks /\ Apart
  BY DEF Owing, Settling, Tasks, Apart
<1>6. Flushing /\ Hushed /\ Quiet
  BY EmptyIs DEF Flushing, Hushed, Quiet
<1>7. FreshEars /\ DeafToItself
  BY DEF FreshEars, DeafToItself
<1> QED
  BY <1>1, <1>2, <1>3, <1>4, <1>5, <1>6, <1>7 DEF IInv

\* The invariant is inductive.
THEOREM Invariance == Spec => []IInv
<1>1. Init => IInv
  BY Initially
<1>2. IInv /\ [Next]_vars => IInv'
  <2>1. SUFFICES ASSUME IInv, [Next]_vars PROVE IInv'
    OBVIOUS
  <2>2. Shape
    BY <2>1, ShapeStep
  <2>3. Flags' /\ Places' /\ Sounding' /\ Ages' /\ Counts'
    BY <2>1, FlagsStep, PlacesStep, SoundingStep, AgesStep, CountsStep
  <2>4. Owing' /\ Settling' /\ Tasks' /\ Apart'
    BY <2>1, OwingStep, SettlingStep, TasksStep, ApartStep
  <2>5. Blocks' /\ Flushing' /\ Hushed' /\ Quiet' /\ FreshEars' /\ DeafToItself'
    BY <2>1, <2>2, BlocksStep, FlushingStep, HushedStep, QuietStep, HeardStep
  <2> QED
    BY <2>3, <2>4, <2>5 DEF IInv
<1> QED
  BY <1>1, <1>2, PTL DEF Spec

\* Every variable stays within its type: the queue within its capacity and the
\* recorder within the limits of an utterance (_push, _process).
THEOREM TypeCorrect == Spec => []TypeOK
<1>1. IInv => TypeOK
  <2>1. SUFFICES ASSUME IInv PROVE TypeOK
    OBVIOUS
  <2>2. recorder \in [speaking: BOOLEAN, waited: 0..StartLimit, silence: 0..SilenceLimit,
                      emitted: 0..Higher(MaxChunks, PreRoll + 2)]
    <3>1. /\ recorder \in [speaking: BOOLEAN, waited: Nat, silence: Nat, emitted: Nat]
          /\ recorder.waited <= StartLimit /\ recorder.silence <= SilenceLimit
          /\ recorder.emitted <= MaxChunks \/ recorder.emitted <= PreRoll + 2
      BY <2>1 DEF IInv, Counts, Within
    <3>2. /\ recorder.waited \in 0..StartLimit /\ recorder.silence \in 0..SilenceLimit
          /\ recorder.emitted \in 0..Higher(MaxChunks, PreRoll + 2)
      BY <3>1, LimitsAre DEF Higher
    <3> QED
      BY <3>1, <3>2
  <2>3. Flags /\ Places /\ Sounding /\ Ages /\ Blocks
    BY <2>1 DEF IInv
  <2>4. /\ config \in Configs
        /\ at \in {"idle", "dead"} \cup Turn \cup Conversation
        /\ stt \in {"none", "running", "ended", "closed", "text", "silence", "failed"}
        /\ outcome \in {"none", "text", "silence", "raised"}
    BY <2>3 DEF Places
  <2>5. /\ feedback \in {"none", "spawned", "waiting", "reading", "over", "ux"}
        /\ leds \in {"off", "lit"}
        /\ agent \in {"none", "thinking", "synthesizing", "answered", "done"}
        /\ device \in {"fine", "lost opening", "lost closing"}
    BY <2>3 DEF Places
  <2>6. /\ playing \in {"none", "starting", "sounding", "guard", "stuck"}
        /\ elapsed \in 0..Horizon /\ owed \in Nat /\ quiet \in 0..Guard
    BY <2>3 DEF Sounding, Ages
  <2>7. /\ endOfSpeech \in BOOLEAN /\ realtimeFailed \in BOOLEAN
        /\ talking \in BOOLEAN /\ tail \in BOOLEAN
    BY <2>3 DEF Flags
  <2>8. /\ captured \in Seq(Block) /\ Len(captured) <= Capacity
        /\ heard \subseteq [to: {"detector", "stt", "model"}, block: Block]
    BY <2>3 DEF Blocks
  <2> HIDE DEF Turn, Waiting, Conversation
  <2> QED
    BY ONLY <2>2, <2>4, <2>5, <2>6, <2>7, <2>8 DEF TypeOK, Turn, Waiting, Conversation
<1> QED
  BY <1>1, Invariance, PTL

\* With its own speaker the rabbit neither wakes itself up nor transcribes itself
\* (_gated, and the guard of the timed handle).
THEOREM RabbitIgnoresItself == Spec => []DeafToItself
<1>1. IInv => DeafToItself
  BY DEF IInv
<1> QED
  BY <1>1, Invariance, PTL

\* The detector never sees what was captured during a turn (_flush_residual).
THEOREM EarsAreFresh == Spec => []FreshEars
<1>1. IInv => FreshEars
  BY DEF IInv
<1> QED
  BY <1>1, Invariance, PTL

\* Every way back to the wake word has ended its tasks and put the LEDs off, and
\* none is a teardown that lost the audio device.
THEOREM NothingIsLeftOver == Spec => []ArmedIsClean
<1>1. IInv => ArmedIsClean
  BY DEF IInv, Places, Tasks, ArmedIsClean
<1> QED
  BY <1>1, Invariance, PTL

-----------------------------------------------------------------------------
\* The transcription, as Transcription promises it

Live == {"running", "ended", "closed"}
Final == {"text", "silence", "failed"}

\* What a step may do to the transcription's task and to end_of_speech.
SttShape ==
    /\ config' = config
    /\ \/ UNCHANGED <<stt, endOfSpeech>>
       \/ stt = "none" /\ stt' = "running" /\ endOfSpeech' = FALSE
       \/ config.provider /\ stt = "running" /\ stt' = "ended" /\ endOfSpeech' = TRUE
       \/ stt \in Live /\ stt' \in Final /\ endOfSpeech' = endOfSpeech
       \/ ~config.provider /\ stt' = (IF stt = "running" THEN "closed" ELSE stt)
       \/ stt' = "none"

LEMMA SttSteps == ASSUME IInv, [Next]_vars PROVE SttShape
<1> USE DEF SttShape
<1>1. CASE UNCHANGED vars
  BY <1>1 DEF vars, turn
<1>2. CASE Hear
  BY <1>2 DEF Hear, turn
<1>3. CASE (AudioLane \/ GateSticks) /\ UNCHANGED OutsideAudio
  BY <1>3 DEF OutsideAudio, turn
<1>4. CASE IdleDiscards \/ IdleListens
  BY <1>4 DEF IdleDiscards, IdleListens, IdleUnchanged, turn
<1>5. CASE WakesToTurn
  BY <1>5 DEF WakesToTurn, IInv, Tasks
<1>6. CASE ProviderListens \/ ProviderAbandons \/ ProviderAnswers
  BY <1>6 DEF ProviderListens, ProviderAbandons, ProviderAnswers, Recorded, RecordingUnchanged
<1>7. CASE VadDiscards \/ VadGivesUp \/ VadAnswered
  BY <1>7 DEF VadDiscards, VadGivesUp, VadAnswered, Recorded, RecordingUnchanged
<1>8. CASE \E isSpeech \in BOOLEAN : VadListens(isSpeech) \/ VadCloses(isSpeech)
  BY <1>8 DEF VadListens, VadCloses, VadPulls, RecordingUnchanged
<1>9. CASE Transcription
  BY <1>9 DEF Transcription, SttEndsTurn, SttReturns, SttFails, SttUnchanged, Live, Final
<1>10. CASE Feedback
  BY <1>10 DEF Feedback, FeedbackAcks, FeedbackReads, FeedbackShows, FeedbackStops, FeedbackUnchanged
<1>11. CASE Settled
  BY <1>11 DEF Settled
<1>12. CASE Agent \/ IndicatorPulses
  BY <1>12 DEF Agent, AgentSpeaks, AgentSpeaksRest, AgentReturns, IndicatorStops, IndicatorPulses,
      AgentUnchanged
<1>13. CASE ProcessingDrains \/ PlayingDrains \/ Flushes
  BY <1>13 DEF ProcessingDrains, PlayingDrains, Flushes, TurnUnchanged
<1>14. CASE \/ WakesToConversation \/ UxShows \/ Opens \/ OpenFails
           \/ TalkStarts \/ TalkEnds
  BY <1>14 DEF WakesToConversation, UxShows, Opens, OpenFails, TalkStarts, TalkEnds,
      ConversationUnchanged
<1>15. CASE \/ Converses \/ \E failed \in BOOLEAN : ConversationEnds(failed)
           \/ FeedbackCancelled \/ SessionCloses \/ SessionLosesDevice \/ SessionAbandoned
  BY <1>15 DEF Converses, ConversationEnds, FeedbackCancelled, SessionCloses, SessionLosesDevice,
      SessionAbandoned, ConversationUnchanged
<1>16. CASE Restart
  BY <1>16 DEF Restart
<1> QED
  BY <1>1, <1>2, <1>3, <1>4, <1>5, <1>6, <1>7, <1>8, <1>9, <1>10, <1>11, <1>12, <1>13, <1>14,
     <1>15, <1>16
     DEF Next, AudioStep, Run, Recording

LEMMA PromiseStep ==
    ASSUME Places, SttShape
    PROVE  Promise!Next \/ UNCHANGED <<config.provider, Task, EndOfTurn>>
<1> USE DEF Live, Final
<1>1. config' = config /\ config.provider \in BOOLEAN /\ stt \in {"none"} \cup Live \cup Final
  BY PipelineAssumption DEF Places, SttShape, Config
<1>2. CASE UNCHANGED <<stt, endOfSpeech>>
  BY <1>1, <1>2 DEF Task, EndOfTurn
<1>3. CASE stt = "none" /\ stt' = "running" /\ endOfSpeech' = FALSE
  <2>1. Task = "none" /\ Task' = "running" /\ EndOfTurn = FALSE /\ EndOfTurn' = FALSE
    BY <1>3 DEF Task, EndOfTurn
  <2> QED
    BY <1>1, <2>1 DEF Promise!Next, Promise!Starts
<1>4. CASE config.provider /\ stt = "running" /\ stt' = "ended" /\ endOfSpeech' = TRUE
  <2>1. Task = "running" /\ Task' = "running" /\ EndOfTurn' = TRUE /\ config.provider = TRUE
    BY <1>1, <1>4 DEF Task, EndOfTurn
  <2> QED
    BY <1>1, <2>1 DEF Promise!Next, Promise!Announces, Promise!Results
<1>5. CASE stt \in Live /\ stt' \in Final /\ endOfSpeech' = endOfSpeech
  <2>1. Task = "running" /\ Task' \in Final /\ EndOfTurn' = EndOfTurn
    BY <1>1, <1>5 DEF Task, EndOfTurn
  <2> QED
    BY <1>1, <2>1 DEF Promise!Next, Promise!ComesTo, Promise!Results
<1>6. CASE ~config.provider /\ stt' = (IF stt = "running" THEN "closed" ELSE stt)
  BY <1>1, <1>6 DEF Task, EndOfTurn
<1>7. CASE stt' = "none"
  <2>1. Task' = "none" /\ EndOfTurn' = FALSE
    BY <1>7 DEF Task, EndOfTurn
  <2>2. CASE stt \in Live
    <3>1. Task = "running"
      BY <2>2 DEF Task
    <3> QED
      BY <1>1, <2>1, <3>1 DEF Promise!Next, Promise!Abandoned
  <2>3. CASE stt \in Final
    <3>1. Task \in Final
      BY <2>3 DEF Task
    <3> QED
      BY <1>1, <2>1, <3>1 DEF Promise!Next, Promise!Taken, Promise!Results
  <2>4. CASE stt = "none"
    BY <1>1, <2>1, <2>4 DEF Task, EndOfTurn
  <2> QED
    BY <1>1, <2>2, <2>3, <2>4
<1> QED
  BY <1>2, <1>3, <1>4, <1>5, <1>6, <1>7 DEF SttShape

\* The pipeline starts, gives up and takes its transcriptions as Transcription has
\* it, through every fault and restart (_record_and_transcribe).
THEOREM PromiseIsUsed == Spec => TranscriptionUsed
<1>1. Init => Promise!Init
  BY DEF Init, Promise!Init, Task, EndOfTurn
<1>2. IInv /\ [Next]_vars => [Promise!Next]_<<config.provider, Task, EndOfTurn>>
  BY SttSteps, PromiseStep DEF IInv
<1> QED
  BY <1>1, <1>2, Invariance, PTL DEF Spec, TranscriptionUsed, Promise!Spec

-----------------------------------------------------------------------------
\* The time a turn takes

\* A step stops a clock, lets it run where it is, or is taken in time.
TimeShape ==
    \/ Hear
    \/ elapsed' = 0
    \/ /\ elapsed' = elapsed /\ config' = config
       /\ \/ UNCHANGED <<at, captured>>
          \/ at' \notin {"playing", "listening", "flushing"}
          \/ /\ at' = at
             /\ at = "playing" => elapsed <= DrainLimit
             /\ at = "listening" /\ config.provider => ~(elapsed > TurnLimit)
             /\ at = "flushing" => ~(elapsed >= FlushBlocks)

LEMMA TimeSteps == ASSUME IInv, [Next]_vars PROVE TimeShape
<1> USE DEF TimeShape, Places
<1>1. CASE UNCHANGED vars
  BY <1>1 DEF vars
<1>2. CASE Hear
  BY <1>2
<1>3. CASE (AudioLane \/ GateSticks) /\ UNCHANGED OutsideAudio
  BY <1>3 DEF OutsideAudio
<1>4. CASE IdleDiscards \/ IdleListens
  BY <1>4 DEF IdleDiscards, IdleListens, IdleUnchanged
<1>5. CASE WakesToTurn
  BY <1>5 DEF WakesToTurn
<1>6. CASE ProviderListens \/ ProviderAbandons \/ ProviderAnswers
  BY <1>6 DEF ProviderListens, ProviderAbandons, ProviderAnswers, ProviderPulls, Recorded, TooLate,
      RecordingUnchanged
<1>7. CASE VadDiscards \/ VadGivesUp \/ VadAnswered
  BY <1>7 DEF VadDiscards, VadGivesUp, VadAnswered, VadPulls, Recorded, RecordingUnchanged
<1>8. CASE \E isSpeech \in BOOLEAN : VadListens(isSpeech) \/ VadCloses(isSpeech)
  BY <1>8 DEF VadListens, VadCloses, VadPulls, RecordingUnchanged
<1>9. CASE Transcription
  BY <1>9 DEF Transcription, SttEndsTurn, SttReturns, SttFails, SttUnchanged
<1>10. CASE Feedback
  BY <1>10 DEF Feedback, FeedbackAcks, FeedbackReads, FeedbackShows, FeedbackStops, FeedbackUnchanged
<1>11. CASE Settled
  BY <1>11 DEF Settled
<1>12. CASE Agent \/ IndicatorPulses
  BY <1>12 DEF Agent, AgentSpeaks, AgentSpeaksRest, AgentReturns, IndicatorStops, IndicatorPulses,
      AgentUnchanged
<1>13. CASE ProcessingDrains \/ PlayingDrains \/ Flushes
  BY <1>13 DEF ProcessingDrains, PlayingDrains, Flushes, Held, Flushed, TurnUnchanged
<1>14. CASE \/ WakesToConversation \/ UxShows \/ Opens \/ OpenFails
           \/ TalkStarts \/ TalkEnds
  BY <1>14 DEF WakesToConversation, UxShows, Opens, OpenFails, TalkStarts, TalkEnds,
      ConversationUnchanged
<1>15. CASE \/ Converses \/ \E failed \in BOOLEAN : ConversationEnds(failed)
           \/ FeedbackCancelled \/ SessionCloses \/ SessionLosesDevice \/ SessionAbandoned
  BY <1>15 DEF Converses, ConversationEnds, FeedbackCancelled, SessionCloses, SessionLosesDevice,
      SessionAbandoned, ConversationUnchanged
<1>16. CASE Restart
  BY <1>16 DEF Restart
<1> QED
  BY <1>1, <1>2, <1>3, <1>4, <1>5, <1>6, <1>7, <1>8, <1>9, <1>10, <1>11, <1>12, <1>13, <1>14,
     <1>15, <1>16
     DEF Next, AudioStep, Run, Recording

\* Where the microphone is awaited the deadline in force has not passed yet.
InTime ==
    captured = <<>> =>
        /\ at = "playing" => elapsed <= DrainLimit
        /\ at = "listening" /\ config.provider => elapsed <= TurnLimit
        /\ at = "flushing" => elapsed < FlushBlocks

LEMMA InTimeStep == ASSUME IInv, InTime, [Next]_vars PROVE InTime'
<1>1. /\ DrainLimit \in Nat /\ TurnLimit \in Nat /\ FlushBlocks \in Nat \ {0}
      /\ elapsed \in Nat
  BY PipelineAssumption, AgesAre DEF IInv, Ages
<1>2. CASE Hear
  <2>1. at' = at /\ (at \in Pulling => captured = <<>>)
    BY <1>2, HearIs
  <2>2. captured = <<>> => Len(captured') = 1
    BY <1>2, HearIs, HeardBlock, PushedIs DEF IInv, Blocks
  <2> QED
    BY <2>1, <2>2 DEF InTime, Pulling
<1>3. CASE elapsed' = 0
  BY <1>1, <1>3 DEF InTime
<1>4. CASE TimeShape /\ ~Hear /\ elapsed' # 0
  BY <1>1, <1>4 DEF TimeShape, InTime
<1> QED
  BY <1>2, <1>3, <1>4, TimeSteps

\* Whatever the provider, the agent's reply and the gate do, a pipeline that has read
\* all that was captured is within turn_timeout_s of a recording that the provider
\* ends, PLAYING_DRAIN_TIMEOUT_S of a drain and FLUSH_TIMEOUT_S of the flush.
THEOREM WaitsAreBounded == Spec => []InTime
<1>1. Init => InTime
  BY DEF Init, InTime
<1>2. IInv /\ InTime /\ [Next]_vars => InTime'
  BY InTimeStep
<1> QED
  BY <1>1, <1>2, Invariance, PTL DEF Spec

-----------------------------------------------------------------------------
\* What a failed conversation leaves

\* A failure is for good, and only an opening that fails leaves a process that goes
\* on without its audio device.
Losses ==
    /\ realtimeFailed => at \notin {"opening", "conversing"}
    /\ device = "lost opening" => /\ realtimeFailed /\ at \notin Conversation
                                  /\ "session" \in Faults /\ "device" \in Faults

\* Only the steps of a conversation, and a restart, concern one.
Aside == /\ UNCHANGED <<realtimeFailed, device, talking>>
         /\ at' = at \/ {at, at'} \cap Conversation = {}

ConversationStep ==
    \/ WakesToConversation \/ UxShows \/ Opens \/ OpenFails
    \/ TalkStarts \/ TalkEnds
    \/ Converses \/ \E failed \in BOOLEAN : ConversationEnds(failed)
    \/ FeedbackCancelled \/ SessionCloses \/ SessionLosesDevice \/ SessionAbandoned

LEMMA ConversationSteps ==
    ASSUME IInv, [Next]_vars
    PROVE  Aside \/ ConversationStep \/ Restart
<1> USE DEF Aside
<1>1. CASE UNCHANGED vars
  BY <1>1 DEF vars, turn, room
<1>2. CASE Hear
  BY <1>2 DEF Hear
<1>3. CASE (AudioLane \/ GateSticks) /\ UNCHANGED OutsideAudio
  BY <1>3, LaneKeeps DEF OutsideAudio
<1>4. CASE IdleDiscards \/ IdleListens
  BY <1>4 DEF IdleDiscards, IdleListens, IdleUnchanged, room
<1>5. CASE WakesToTurn
  BY <1>5 DEF WakesToTurn, room
<1>6. CASE ProviderListens \/ ProviderAbandons \/ ProviderAnswers
  BY <1>6
     DEF ProviderListens, ProviderAbandons, ProviderAnswers, ProviderPulls, Recorded,
         RecordingUnchanged, room
<1>7. CASE VadDiscards \/ VadGivesUp \/ VadAnswered
  BY <1>7
     DEF VadDiscards, VadGivesUp, VadAnswered, VadPulls, Recorded, RecordingUnchanged, room
<1>8. CASE \E isSpeech \in BOOLEAN : VadListens(isSpeech) \/ VadCloses(isSpeech)
  BY <1>8 DEF VadListens, VadCloses, VadPulls, RecordingUnchanged, room
<1>9. CASE Transcription
  BY <1>9 DEF Transcription, SttEndsTurn, SttReturns, SttFails, SttUnchanged, room
<1>10. CASE Feedback
  BY <1>10
     DEF Feedback, FeedbackAcks, FeedbackReads, FeedbackShows, FeedbackStops,
         FeedbackUnchanged, room
<1>11. CASE Settled
  BY <1>11 DEF Settled, room
<1>12. CASE Agent \/ IndicatorPulses
  BY <1>12
     DEF Agent, AgentSpeaks, AgentSpeaksRest, AgentReturns, IndicatorStops, IndicatorPulses,
         AgentUnchanged, room
<1>13. CASE ProcessingDrains \/ PlayingDrains \/ Flushes
  BY <1>13 DEF ProcessingDrains, PlayingDrains, Flushes, TurnUnchanged, room
<1> QED
  BY <1>1, <1>2, <1>3, <1>4, <1>5, <1>6, <1>7, <1>8, <1>9, <1>10, <1>11, <1>12, <1>13
     DEF Next, AudioStep, Run, Recording, ConversationStep

LEMMA LossesStep == ASSUME IInv, Losses, [Next]_vars PROVE Losses'
<1>1. CASE Aside
  <2>1. UNCHANGED <<realtimeFailed, device>> /\ (at' = at \/ at' \notin Conversation)
    BY <1>1 DEF Aside
  <2> QED
    BY <2>1 DEF Losses
<1>2. CASE WakesToConversation \/ Opens
  <2>1. UNCHANGED <<realtimeFailed, device>> /\ ~realtimeFailed
    BY <1>2 DEF WakesToConversation, Opens, Conversational, Losses, room
  <2> QED
    BY <2>1 DEF Losses
<1>3. CASE OpenFails
  BY <1>3 DEF OpenFails, Losses
<1>4. CASE UxShows \/ TalkStarts \/ TalkEnds \/ Converses
  <2>1. UNCHANGED <<realtimeFailed, device, at>>
    BY <1>4 DEF UxShows, TalkStarts, TalkEnds, Converses, room
  <2> QED
    BY <2>1 DEF Losses
<1>5. CASE \E failed \in BOOLEAN : ConversationEnds(failed)
  BY <1>5 DEF ConversationEnds, Losses, room
<1>6. CASE FeedbackCancelled \/ SessionCloses \/ SessionAbandoned
  BY <1>6 DEF FeedbackCancelled, SessionCloses, SessionAbandoned, Losses, room
<1>7. CASE SessionLosesDevice \/ Restart
  BY <1>7 DEF SessionLosesDevice, Restart, Losses
<1> QED
  BY <1>1, <1>2, <1>3, <1>4, <1>5, <1>6, <1>7, ConversationSteps DEF ConversationStep

THEOREM LossesInvariance == Spec => []Losses
<1>1. Init => Losses
  BY DEF Init, Losses
<1>2. IInv /\ Losses /\ [Next]_vars => Losses'
  BY LossesStep
<1> QED
  BY <1>1, <1>2, Invariance, PTL DEF Spec

\* "Every later wake takes the turn-based path" (pipeline.py:348): once a conversation
\* has failed none is opened, and none is under way on a device that was lost.
LaterWakesAreTurns ==
    /\ realtimeFailed => at \notin {"opening", "conversing"}
    /\ device # "fine" => at \notin Conversation
THEOREM FailureIsForGood == Spec => []LaterWakesAreTurns
<1>1. IInv /\ Losses => LaterWakesAreTurns
  BY DEF IInv, Places, Tasks, Losses, LaterWakesAreTurns
<1> QED
  BY <1>1, Invariance, LossesInvariance, PTL

\* What run() says of the dead backend (pipeline.py:385-388) is true where no
\* session fails to open, and where none that fails takes the device with it.
THEOREM DeadBackendTakesTwoFaults ==
    ASSUME "session" \notin Faults \/ "device" \notin Faults
    PROVE  Spec => []NeverArmedOnDeadBackend
<1>1. IInv /\ Losses => NeverArmedOnDeadBackend
  BY DEF IInv, Places, Tasks, Losses, NeverArmedOnDeadBackend
<1> QED
  BY <1>1, Invariance, LossesInvariance, PTL

-----------------------------------------------------------------------------
\* Every step of the pipeline is one of Talk, or leaves the conversations alone.
LEMMA TalkStep ==
    ASSUME IInv, Losses, [Next]_vars
    PROVE  [Session!Next]_<<TalkPhase, talking, realtimeFailed>>
<1> USE DEF TalkPhase
<1>1. CASE Aside
  BY <1>1 DEF Aside
<1>2. CASE WakesToConversation \/ UxShows \/ Converses \/ FeedbackCancelled
  BY <1>2 DEF WakesToConversation, UxShows, Converses, FeedbackCancelled, room
<1>3. CASE Opens
  <2>1. Session!Opens
    BY <1>3 DEF Opens, Losses, room, Session!Opens
  <2> QED
    BY <2>1 DEF Session!Next
<1>4. CASE OpenFails
  <2>1. Session!OpenFails
    BY <1>4 DEF OpenFails, Session!OpenFails
  <2> QED
    BY <2>1 DEF Session!Next
<1>5. CASE TalkStarts
  <2>1. Session!Starts
    BY <1>5 DEF TalkStarts, Session!Starts
  <2> QED
    BY <2>1 DEF Session!Next
<1>6. CASE TalkEnds
  <2>1. Session!Stops
    BY <1>6 DEF TalkEnds, Session!Stops
  <2> QED
    BY <2>1 DEF Session!Next
<1>7. CASE \E failed \in BOOLEAN : ConversationEnds(failed)
  <2>1. realtimeFailed' \in BOOLEAN
    BY FlagsStep DEF Flags
  <2>2. Session!Ends
    BY <1>7, <2>1 DEF ConversationEnds, room, Session!Ends
  <2> QED
    BY <2>2 DEF Session!Next
<1>8. CASE SessionCloses \/ SessionLosesDevice
  <2>1. Session!Closes
    BY <1>8 DEF SessionCloses, SessionLosesDevice, Session!Closes
  <2> QED
    BY <2>1 DEF Session!Next
<1>9. CASE SessionAbandoned
  <2>1. Session!Abandoned
    BY <1>9 DEF SessionAbandoned, room, Session!Abandoned
  <2> QED
    BY <2>1 DEF Session!Next
<1>10. CASE Restart
  <2>1. Session!Restarted
    BY <1>10 DEF Restart, Session!Restarted
  <2> QED
    BY <2>1 DEF Session!Next
<1> QED
  BY <1>1, <1>2, <1>3, <1>4, <1>5, <1>6, <1>7, <1>8, <1>9, <1>10, ConversationSteps
     DEF ConversationStep

\* The pipeline takes its conversations as RealtimeSession has them (TalkRefinement),
\* one after another, and opens none after one that failed.
THEOREM TalkIsUsed == Spec => TalkUsed
<1>1. Init => Session!Init
  BY DEF Init, TalkPhase, Session!Init
<1>2. IInv /\ Losses /\ [Next]_vars => [Session!Next]_<<TalkPhase, talking, realtimeFailed>>
  BY TalkStep
<1> QED
  BY <1>1, <1>2, Invariance, LossesInvariance, PTL DEF Spec, TalkUsed, Session!Spec
=============================================================================
