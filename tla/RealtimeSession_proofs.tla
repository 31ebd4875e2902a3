---------------------- MODULE RealtimeSession_proofs ----------------------
(***************************************************************************)
(* Proofs about RealtimeSession, for every block, latency and debounce,    *)
(* every set of items and sizes of deltas, and every fault unless a        *)
(* theorem says otherwise.                                                 *)
(***************************************************************************)
EXTENDS RealtimeSession, TLAPS, FiniteSetTheorems, SequenceTheorems

USE DEF None, NoItem

-----------------------------------------------------------------------------
\* The player's operators

\* A callback takes a block, or what there is, and counts each frame once.
LEMMA FilledFacts ==
    ASSUME PlayerTypeOK
    PROVE  /\ Filled \in Nat
           /\ Filled <= Block /\ Filled <= Len(pending)
           /\ Len(pending) \in Nat
           /\ Filled = 0 <=> pending = <<>>
<1>1. pending \in Seq(Items) /\ Len(pending) \in Nat
  BY LenProperties DEF PlayerTypeOK
<1>2. pending = <<>> <=> Len(pending) = 0
  BY <1>1, EmptySeq
<1> QED
  BY <1>1, <1>2, PlayerAssumption DEF Filled, Lower

LEMMA TakenFacts ==
    ASSUME PlayerTypeOK, NEW i
    PROVE  /\ Taken(i) \in Nat
           /\ Filled = 0 => Taken(i) = 0
           /\ (\A j \in 1..Len(pending) : pending[j] = i) => Taken(i) = Filled
<1> DEFINE S == {j \in 1..Filled : pending[j] = i}
<1>1. Filled \in Nat /\ Filled <= Len(pending) /\ Len(pending) \in Nat
  BY FilledFacts
<1>2. IsFiniteSet(1..Filled) /\ Cardinality(1..Filled) = Filled
  BY <1>1, FS_Interval
<1>3. IsFiniteSet(S) /\ Cardinality(S) \in Nat
  BY <1>2, FS_Subset, FS_CardinalityType
<1>4. ASSUME Filled = 0 PROVE Cardinality(S) = 0
  <2>1. S = {}
    BY <1>4
  <2> QED
    BY <2>1, FS_EmptySet
<1>5. ASSUME \A j \in 1..Len(pending) : pending[j] = i PROVE S = 1..Filled
  BY <1>5, <1>1
<1> QED
  BY <1>2, <1>3, <1>4, <1>5 DEF Taken

LEMMA CallbackType ==
    ASSUME PlayerTypeOK, Callback
    PROVE  PlayerTypeOK'
<1>1. /\ Filled \in Nat /\ Filled <= Len(pending)
      /\ Len(pending) \in Nat /\ pending \in Seq(Items)
  BY FilledFacts DEF PlayerTypeOK
<1>2. pending' \in Seq(Items)
  <2>1. \A j \in (Filled + 1)..Len(pending) : pending[j] \in Items
    BY <1>1, ElementOfSeq
  <2>2. SubSeq(pending, Filled + 1, Len(pending)) \in Seq(Items)
    BY <2>1, <1>1, SubSeqProperties
  <2> QED
    BY <2>2 DEF Callback
<1>3. consumed' \in Nat
  BY <1>1 DEF Callback, PlayerTypeOK
<1>4. sinceConsumed' \in Nat \cup {None}
  BY PlayerAssumption DEF Callback, PlayerTypeOK, Aged, DeviceBuffer
<1>5. playing' \in BOOLEAN
  BY DEF Callback
<1>6. dryFor' \in Nat \cup {None}
  BY PlayerAssumption DEF Callback, PlayerTypeOK, Aged, DrainWindow
<1>7. emitting' \in {"nothing", "started", "drained"}
  BY DEF Callback
<1>8. posted' \in Seq({"started", "drained", "cut"})
  BY DEF Callback, PlayerTypeOK
<1>9. handed' \in [0..Latency -> [Items -> Nat]]
  <2>1. \A i \in Items : Taken(i) \in Nat
    BY TakenFacts
  <2>2. handed \in [0..Latency -> [Items -> Nat]] /\ 0 \in 0..Latency /\ Latency \in Nat
    BY PlayerAssumption DEF PlayerTypeOK
  <2>3. [i \in Items |-> handed[0][i] + Taken(i)] \in [Items -> Nat]
    BY <2>1, <2>2
  <2>4. \A k \in 0..Latency : k # 0 => k - 1 \in 0..Latency
    BY <2>2
  <2> QED
    BY <2>2, <2>3, <2>4 DEF Callback
<1> QED
  BY <1>2, <1>3, <1>4, <1>5, <1>6, <1>7, <1>8, <1>9 DEF PlayerTypeOK

LEMMA EmitType ==
    ASSUME PlayerTypeOK, Emit
    PROVE  PlayerTypeOK'
<1>1. posted' \in Seq({"started", "drained", "cut"})
  BY AppendProperties DEF Emit, PlayerTypeOK
<1> QED
  BY <1>1 DEF Emit, PlayerTypeOK

\* What write() appends is a sequence of frames of the item.
LEMMA FramesFacts ==
    ASSUME NEW i \in Items, NEW n \in Nat
    PROVE  /\ [j \in 1..n |-> i] \in Seq(Items)
           /\ Len([j \in 1..n |-> i]) = n
           /\ \A j \in 1..n : [k \in 1..n |-> i][j] = i
<1>1. [j \in 1..n |-> i] \in [1..n -> Items]
  OBVIOUS
<1>2. [j \in 1..n |-> i] \in Seq(Items)
  BY <1>1, SMT
<1>3. DOMAIN [j \in 1..n |-> i] = 1..n
  OBVIOUS
<1> QED
  BY <1>2, <1>3, LenProperties, SMT

LEMMA WriteFacts ==
    ASSUME PlayerTypeOK, NEW i \in Items, NEW n \in Nat, Write(i, n)
    PROVE  /\ PlayerTypeOK'
           /\ Len(pending') = Len(pending) + n
           /\ \A j \in 1..Len(pending') :
                  pending'[j] = IF j <= Len(pending) THEN pending[j] ELSE i
<1> DEFINE s == [j \in 1..n |-> i]
<1>1. s \in Seq(Items) /\ Len(s) = n /\ \A j \in 1..n : s[j] = i
  BY FramesFacts
<1>2. pending \in Seq(Items) /\ Len(pending) \in Nat
  BY LenProperties DEF PlayerTypeOK
<1> HIDE DEF s
<1>3. /\ pending \o s \in Seq(Items)
      /\ Len(pending \o s) = Len(pending) + n
      /\ \A j \in 1..(Len(pending) + n) :
             (pending \o s)[j] = IF j <= Len(pending) THEN pending[j] ELSE s[j - Len(pending)]
  BY <1>1, <1>2, ConcatProperties
<1>4. pending' = pending \o s
  BY DEF Write, s
<1>5. PlayerTypeOK'
  BY <1>3, <1>4 DEF Write, PlayerTypeOK
<1> QED
  BY <1>1, <1>2, <1>3, <1>4, <1>5

LEMMA ResetType ==
    ASSUME PlayerTypeOK, ResetPosition
    PROVE  PlayerTypeOK' /\ pending' = <<>>
<1>1. <<>> \in Seq(Items)
  BY EmptySeq
<1> QED
  BY <1>1 DEF ResetPosition, PlayerTypeOK

LEMMA CutType ==
    ASSUME PlayerTypeOK, CutPlayback, sinceConsumed' \in {None, sinceConsumed}
    PROVE  PlayerTypeOK' /\ pending' = <<>>
<1>1. <<>> \in Seq(Items)
  BY EmptySeq
<1>2. posted' \in Seq({"started", "drained", "cut"})
  BY AppendProperties DEF CutPlayback, PlayerTypeOK
<1> QED
  BY <1>1, <1>2 DEF CutPlayback, PlayerTypeOK

LEMMA PlayerUnchangedType ==
    ASSUME PlayerTypeOK, UNCHANGED player
    PROVE  PlayerTypeOK'
BY DEF player, PlayerTypeOK
-----------------------------------------------------------------------------
\* What each action does to the player

\* The actions that leave the player alone, and what they all keep.
Elsewhere == \/ ItemAdded \/ ResponseDone \/ SpeechStarted \/ SpeechStopped \/ ModelHangsUp
             \/ ReadPlayed \/ Truncate \/ ReaderEnds
             \/ FrameArrives \/ FrameFails \/ FrameSent \/ MicrophoneEnds \/ UNCHANGED vars

LEMMA PlayerSteps ==
    ASSUME [Next]_vars
    PROVE  \/ Period
           \/ Emits
           \/ PlaybackEvent
           \/ \E n \in Sizes : AudioDelta(n)
           \/ DeltaWritten
           \/ CutSpeaker
           \/ Close
           \/ UNCHANGED player /\ Elsewhere
<1> USE DEF Next, Elsewhere
<1>1. CASE UNCHANGED vars
  BY <1>1 DEF vars
<1>2. CASE ServerEvent
  BY <1>2 DEF ServerEvent, ItemAdded, ResponseDone, SpeechStarted, SpeechStopped, ModelHangsUp
<1>3. CASE BargeIn
  BY <1>3 DEF BargeIn, ReadPlayed, Truncate
<1>4. CASE Pump
  BY <1>4 DEF Pump, FrameArrives, FrameFails, FrameSent, MicrophoneEnds
<1>5. CASE ReaderEnds
  BY <1>5 DEF ReaderEnds
<1> QED
  BY <1>1, <1>2, <1>3, <1>4, <1>5

LEMMA PlayerType ==
    ASSUME TypeOK, Accounted, [Next]_vars
    PROVE  PlayerTypeOK'
<1>0. PlayerTypeOK
  BY DEF TypeOK
<1>1. CASE Period
  BY <1>0, <1>1, CallbackType DEF Period
<1>2. CASE Emits
  BY <1>0, <1>2, EmitType DEF Emits
<1>3. CASE PlaybackEvent
  <2>1. Tail(posted) \in Seq({"started", "drained", "cut"})
    BY <1>0, <1>3, HeadTailProperties DEF PlaybackEvent, PlayerTypeOK
  <2> QED
    BY <1>0, <1>3, <2>1 DEF PlaybackEvent, PlayerTypeOK
<1>4. ASSUME NEW n \in Sizes, AudioDelta(n) PROVE PlayerTypeOK'
  <2>1. CASE NewItem
    BY <1>0, <1>4, <2>1, ResetType DEF AudioDelta
  <2>2. CASE ~NewItem
    BY <1>0, <1>4, <2>2, PlayerUnchangedType DEF AudioDelta
  <2> QED
    BY <2>1, <2>2
<1>5. CASE DeltaWritten
  <2>1. serverItem \in Items
    BY <1>5 DEF DeltaWritten, Accounted, TypeOK
  <2>2. Write(serverItem, incoming) /\ incoming \in Nat
    BY <1>5 DEF DeltaWritten, TypeOK
  <2> QED
    BY <1>0, <2>1, <2>2, WriteFacts
<1>6. CASE CutSpeaker
  BY <1>0, <1>6, CutType DEF CutSpeaker
<1>7. CASE Close
  BY <1>0, <1>7, CutType DEF Close
<1>8. CASE UNCHANGED player
  BY <1>0, <1>8, PlayerUnchangedType
<1> QED
  BY <1>1, <1>2, <1>3, <1>4, <1>5, <1>6, <1>7, <1>8, PlayerSteps

SessionTypeOK ==
    /\ serverItem \in Items \cup {NoItem}
    /\ generating \in BOOLEAN /\ userTalks \in BOOLEAN
    /\ sent \in 0..MaxFrames
    /\ responseActive \in BOOLEAN
    /\ currentItem \in Items \cup {NoItem} /\ playbackItem \in Items \cup {NoItem}
    /\ itemAudio \in Nat
    /\ quietFor \in Nat /\ endedByModel \in BOOLEAN

TasksTypeOK ==
    /\ eventsAt \in {"ready", "writing", "reading", "stopping", "telling",
                     "done", "failed", "cancelled"}
    /\ incoming \in Nat /\ toTell \in Nat
    /\ userSpeaking \in BOOLEAN /\ assistantSpeaking \in BOOLEAN
    /\ pumpAt \in {"frame", "send", "ended", "closed"}
    /\ outcome \in {"none", "stopped", "hangup", "idle", "exhausted", "error"}

LEMMA TypeParts == TypeOK <=> PlayerTypeOK /\ SessionTypeOK /\ TasksTypeOK
BY DEF TypeOK, SessionTypeOK, TasksTypeOK

LEMMA SessionType ==
    ASSUME TypeOK, [Next]_vars
    PROVE  SessionTypeOK'
<1> USE DEF SessionTypeOK
<1>0. SessionTypeOK
  BY TypeParts
<1>1. CASE Period
  <2>1. quietFor' \in Nat
    BY <1>0, <1>1, SessionAssumption DEF Period, Aged
  <2> QED
    BY <1>0, <1>1, <2>1 DEF Period, server, session
<1>2. CASE Emits
  BY <1>0, <1>2 DEF Emits, server, session
<1>3. CASE PlaybackEvent
  BY <1>0, <1>3 DEF PlaybackEvent, server, session
<1>4. ASSUME NEW n \in Sizes, AudioDelta(n) PROVE SessionTypeOK'
  <2>1. sent' \in 0..MaxFrames
    BY <1>0, <1>4, SessionAssumption DEF AudioDelta
  <2>2. quietFor' = 0
    BY <1>4 DEF AudioDelta, Receives
  <2>3. CASE NewItem
    BY <1>0, <1>4, <2>1, <2>2, <2>3 DEF AudioDelta
  <2>4. CASE ~NewItem
    BY <1>0, <1>4, <2>1, <2>2, <2>4 DEF AudioDelta
  <2> QED
    BY <2>3, <2>4
<1>5. CASE DeltaWritten
  <2>1. itemAudio' \in Nat
    BY <1>0, <1>5 DEF DeltaWritten, TypeOK
  <2> QED
    BY <1>0, <1>5, <2>1 DEF DeltaWritten, server
<1>6. CASE CutSpeaker
  BY <1>0, <1>6 DEF CutSpeaker, server
<1>7. CASE Close
  BY <1>0, <1>7 DEF Close, server, session
<1>8. CASE ItemAdded
  BY <1>0, <1>8 DEF ItemAdded, Receives
<1>9. CASE ResponseDone
  BY <1>0, <1>9 DEF ResponseDone, Receives
<1>10. CASE SpeechStarted
  BY <1>0, <1>10 DEF SpeechStarted, Receives, session
<1>11. CASE SpeechStopped
  BY <1>0, <1>11 DEF SpeechStopped, Receives, session
<1>12. CASE ModelHangsUp
  BY <1>0, <1>12 DEF ModelHangsUp, Receives, server
<1>13. CASE ReadPlayed \/ Truncate \/ ReaderEnds
  BY <1>0, <1>13 DEF ReadPlayed, Truncate, ReaderEnds, server, session
<1>14. CASE FrameArrives \/ FrameFails \/ FrameSent \/ MicrophoneEnds \/ UNCHANGED vars
  BY <1>0, <1>14 DEF FrameArrives, FrameFails, FrameSent, MicrophoneEnds, vars, server, session
<1> QED
  BY <1>1, <1>2, <1>3, <1>4, <1>5, <1>6, <1>7, <1>8, <1>9, <1>10, <1>11, <1>12,
     <1>13, <1>14, PlayerSteps DEF Elsewhere

LEMMA TasksType ==
    ASSUME TypeOK, [Next]_vars
    PROVE  TasksTypeOK'
<1> USE DEF TasksTypeOK
<1>0. TasksTypeOK
  BY TypeParts
<1>1. CASE Period \/ Emits
  BY <1>0, <1>1 DEF Period, Emits, handler, ux, pump
<1>3. CASE PlaybackEvent
  BY <1>0, <1>3 DEF PlaybackEvent, handler, pump
<1>4. ASSUME NEW n \in Sizes, AudioDelta(n) PROVE TasksTypeOK'
  BY <1>0, <1>4, SessionAssumption DEF AudioDelta, pump
<1>5. CASE DeltaWritten
  BY <1>0, <1>5 DEF DeltaWritten, ux, pump
<1>6. CASE CutSpeaker
  <2>1. userSpeaking' \in BOOLEAN /\ assistantSpeaking' \in BOOLEAN
    BY <1>0, <1>6, Zenon DEF CutSpeaker, BackToListening, ux
  <2>2. eventsAt' \in {"ready", "telling"} /\ toTell' \in Nat
    BY <1>0, <1>6 DEF CutSpeaker
  <2> QED
    BY <1>0, <1>6, <2>1, <2>2 DEF CutSpeaker, pump
<1>7. CASE Close
  BY <1>0, <1>7 DEF Close, handler, ux
<1>8. CASE ItemAdded \/ ResponseDone \/ ModelHangsUp \/ SpeechStopped \/ SpeechStarted
  BY <1>0, <1>8 DEF ItemAdded, ResponseDone, ModelHangsUp, SpeechStopped, SpeechStarted,
       handler, ux, pump
<1>9. CASE ReadPlayed
  <2>1. toTell' \in Nat
    <3>1. Played \in Nat
      BY PlayerAssumption DEF Played, TypeOK, PlayerTypeOK
    <3> QED
      BY <3>1, <1>9 DEF ReadPlayed, Lower, TypeOK
  <2> QED
    BY <1>0, <1>9, <2>1 DEF ReadPlayed, ux, pump
<1>10. CASE Truncate \/ ReaderEnds
  <2>1. userSpeaking' \in BOOLEAN /\ assistantSpeaking' \in BOOLEAN
    BY <1>0, <1>10, Zenon DEF Truncate, ReaderEnds, BackToListening, ux
  <2>2. eventsAt' \in {"ready", "done", "failed"} /\ toTell' \in Nat
    BY <1>0, <1>10 DEF Truncate, ReaderEnds
  <2> QED
    BY <1>0, <1>10, <2>1, <2>2 DEF Truncate, ReaderEnds, pump
<1>11. CASE FrameArrives \/ FrameFails \/ FrameSent \/ MicrophoneEnds \/ UNCHANGED vars
  BY <1>0, <1>11 DEF FrameArrives, FrameFails, FrameSent, MicrophoneEnds, ConverseEnds, OutcomeOf,
       ReaderOver,
       vars, handler, ux, pump
<1> QED
  BY <1>1, <1>3, <1>4, <1>5, <1>6, <1>7, <1>8, <1>9, <1>10, <1>11, PlayerSteps DEF Elsewhere

LEMMA TypeStep ==
    ASSUME TypeOK, Accounted, [Next]_vars
    PROVE  TypeOK'
<1>1. TypeOK' <=> PlayerTypeOK' /\ SessionTypeOK' /\ TasksTypeOK'
  BY DEF TypeOK, SessionTypeOK, TasksTypeOK
<1> QED
  BY <1>1, PlayerType, SessionType, TasksType

-----------------------------------------------------------------------------
\* The buffer holds frames of the item it is accounted against

LEMMA AccountedStep ==
    ASSUME TypeOK, Accounted, [Next]_vars
    PROVE  Accounted'
<1> USE DEF Accounted
<1>0. PlayerTypeOK /\ pending \in Seq(Items) /\ Len(pending) \in Nat
  BY FilledFacts DEF TypeOK, PlayerTypeOK
<1>1. CASE Period
  <2>1. Filled \in Nat /\ Filled <= Len(pending) /\ (Filled = 0 <=> pending = <<>>)
    BY <1>0, FilledFacts
  <2>2. /\ Len(pending') = Len(pending) - Filled
        /\ \A j \in 1..Len(pending') : pending'[j] = pending[Filled + j]
    <3>1. \A j \in (Filled + 1)..Len(pending) : pending[j] \in Items
      BY <1>0, <2>1, ElementOfSeq
    <3>2. pending' = SubSeq(pending, Filled + 1, Len(pending))
      BY <1>1 DEF Period, Callback
    <3> QED
      BY <3>1, <3>2, <1>0, <2>1, SubSeqProperties
  <2>3. \A j \in 1..Len(pending') : pending'[j] = playbackItem
    BY <2>1, <2>2, <1>0
  <2>4. UNCHANGED <<playbackItem, serverItem, eventsAt, incoming>>
    BY <1>1 DEF Period, session, server
  <2>5. Filled > 0 => playbackItem # NoItem
    <3> SUFFICES ASSUME Filled > 0 PROVE playbackItem # NoItem
      OBVIOUS
    <3>1. 1 \in 1..Len(pending)
      BY <1>0, <2>1
    <3>2. pending[1] \in Items /\ pending[1] = playbackItem
      BY <3>1, <1>0, ElementOfSeq
    <3> QED
      BY <3>2, PlayerAssumption
  <2>6. consumed' > 0 => playbackItem # NoItem
    BY <1>1, <2>1, <2>5 DEF Period, Callback, TypeOK, PlayerTypeOK
  <2> QED
    BY <2>3, <2>4, <2>6
<1>2. CASE Emits
  BY <1>2 DEF Emits, Emit, session, server, handler
<1>3. CASE PlaybackEvent
  BY <1>3 DEF PlaybackEvent, session, server, handler
<1>4. ASSUME NEW n \in Sizes, AudioDelta(n) PROVE Accounted'
  <2>1. serverItem # NoItem /\ serverItem' = serverItem /\ incoming' > 0
    BY <1>4, SessionAssumption DEF AudioDelta
  <2>2. CASE NewItem
    <3>1. Len(pending') = 0
      BY <1>4, <2>2, EmptySeq DEF AudioDelta, ResetPosition
    <3> QED
      BY <1>4, <2>1, <2>2, <3>1 DEF AudioDelta, ResetPosition
  <2>3. CASE ~NewItem
    BY <1>4, <2>1, <2>3 DEF AudioDelta, NewItem, player
  <2> QED
    BY <2>2, <2>3
<1>5. CASE DeltaWritten
  <2>1. serverItem \in Items /\ serverItem = playbackItem /\ incoming \in Nat
    BY <1>5 DEF DeltaWritten, TypeOK
  <2>2. Write(serverItem, incoming)
    BY <1>5 DEF DeltaWritten
  <2>3. \A j \in 1..Len(pending') :
            pending'[j] = IF j <= Len(pending) THEN pending[j] ELSE serverItem
    BY <1>0, <2>1, <2>2, WriteFacts
  <2>4. Len(pending') = Len(pending) + incoming
    BY <1>0, <2>1, <2>2, WriteFacts
  <2>5. \A j \in 1..Len(pending') : pending'[j] = playbackItem
    BY <1>0, <2>1, <2>3, <2>4
  <2> QED
    BY <1>5, <2>5 DEF DeltaWritten, Write
<1>6. CASE CutSpeaker
  <2>1. Len(pending') = 0
    BY <1>6, EmptySeq DEF CutSpeaker, CutPlayback
  <2> QED
    BY <1>6, <2>1 DEF CutSpeaker, CutPlayback
<1>7. CASE Close
  <2>1. Len(pending') = 0
    BY <1>7, EmptySeq DEF Close, CutPlayback
  <2> QED
    BY <1>7, <2>1 DEF Close, CutPlayback, session, server, handler
<1>8. CASE UNCHANGED player /\ Elsewhere
  <2>1. UNCHANGED <<pending, consumed, playbackItem>>
    BY <1>8 DEF Elsewhere, player, session, ItemAdded, ResponseDone, SpeechStarted, SpeechStopped,
         ModelHangsUp, ReadPlayed, Truncate, ReaderEnds, FrameArrives, FrameFails, FrameSent,
         MicrophoneEnds, vars
  <2>2. eventsAt' = "writing" =>
            eventsAt = "writing" /\ UNCHANGED <<serverItem, incoming>>
    BY <1>8 DEF Elsewhere, server, handler, ItemAdded, Receives, ResponseDone, SpeechStarted, SpeechStopped,
         ModelHangsUp, ReadPlayed, Truncate, ReaderEnds, FrameArrives, FrameFails, FrameSent,
         MicrophoneEnds, ConverseEnds, vars
  <2> QED
    BY <2>1, <2>2
<1> QED
  BY <1>1, <1>2, <1>3, <1>4, <1>5, <1>6, <1>7, <1>8, PlayerSteps

-----------------------------------------------------------------------------
\* The device

\* The steps that leave the device alone.
LEMMA HandedUnchanged ==
    ASSUME [Next]_vars
    PROVE  Period \/ UNCHANGED handed
BY PlayerSteps DEF Emits, Emit, PlaybackEvent, AudioDelta, ResetPosition, DeltaWritten, Write,
   CutSpeaker, Close, CutPlayback, player

LEMMA DeviceFlowsStep ==
    ASSUME TypeOK, Accounted, DeviceFlows, [Next]_vars
    PROVE  DeviceFlows'
<1>0. /\ handed \in [0..Latency -> [Items -> Nat]] /\ consumed \in Nat
      /\ Latency \in Nat /\ Block \in Nat
      /\ PlayerTypeOK /\ playbackItem \in Items \cup {NoItem}
  BY PlayerAssumption DEF TypeOK, PlayerTypeOK
<1>1. CASE Period
  <2> DEFINE t == [i \in Items |-> Taken(i)]
  <2>1. \A i \in Items : t[i] \in Nat
    BY <1>0, TakenFacts
  <2>2. /\ Filled \in Nat /\ Filled <= Block
        /\ playbackItem # NoItem => t[playbackItem] = Filled
    BY <1>0, FilledFacts, TakenFacts DEF Accounted
  <2>3. handed' = [k \in 0..Latency |->
                     IF k = 0 THEN [i \in Items |-> handed[0][i] + t[i]] ELSE handed[k - 1]]
    BY <1>1 DEF Period, Callback
  <2>4. consumed' = consumed + Filled /\ playbackItem' = playbackItem
    BY <1>1 DEF Period, Callback, session
  <2> HIDE DEF t
  <2>5. /\ handed'[0] = [i \in Items |-> handed[0][i] + t[i]]
        /\ \A k \in 1..Latency : handed'[k] = handed[k - 1] /\ k - 1 \in 0..Latency
    BY <2>3, <1>0
  <2>6. ASSUME NEW k \in 1..Latency, NEW i \in Items
        PROVE  handed'[k][i] <= handed'[k - 1][i]
    <3>1. CASE k = 1
      <4>1. handed[0][i] \in Nat /\ t[i] \in Nat
        BY <1>0, <2>1
      <4>2. handed'[0][i] = handed[0][i] + t[i]
        BY <2>5
      <4> QED
        BY <3>1, <2>5, <4>1, <4>2
    <3>2. CASE k # 1
      <4>1. k - 1 \in 1..Latency
        BY <3>2, <1>0
      <4>2. handed[k - 1][i] <= handed[k - 1 - 1][i]
        BY <4>1 DEF DeviceFlows
      <4> QED
        BY <2>5, <4>1, <4>2
    <3> QED
      BY <3>1, <3>2
  <2>7. ASSUME playbackItem # NoItem, NEW k \in 0..Latency
        PROVE  consumed' <= handed'[k][playbackItem] + k * Block
    <3>1. playbackItem \in Items
      BY <2>7, <1>0
    <3>2. CASE k = 0
      <4>1. handed'[0][playbackItem] = handed[0][playbackItem] + t[playbackItem]
        BY <2>5, <3>1
      <4>2. consumed <= handed[0][playbackItem] + 0 * Block /\ 0 \in 0..Latency
        BY <2>7, <1>0 DEF DeviceFlows
      <4>3. handed[0][playbackItem] \in Nat
        BY <1>0, <3>1, <4>2
      <4> QED
        BY <3>2, <4>1, <4>2, <4>3, <2>2, <2>4, <2>7, <1>0
    <3>3. CASE k # 0
      <4>1. k - 1 \in 0..Latency /\ k \in 1..Latency
        BY <3>3, <1>0
      <4>2. consumed <= handed[k - 1][playbackItem] + (k - 1) * Block
        BY <2>7, <4>1 DEF DeviceFlows
      <4>3. handed[k - 1][playbackItem] \in Nat /\ handed'[k] = handed[k - 1]
        BY <1>0, <3>1, <4>1, <2>5
      <4>4. (k - 1) * Block + Block = k * Block /\ k * Block \in Nat /\ (k - 1) * Block \in Nat
        BY <1>0, <4>1
      <4> QED
        BY <4>2, <4>3, <4>4, <2>2, <2>4, <1>0
    <3> QED
      BY <3>2, <3>3
  <2> QED
    BY <2>4, <2>6, <2>7 DEF DeviceFlows
<1>2. CASE ~Period
  <2>0. UNCHANGED handed
    BY <1>2, HandedUnchanged
  <2>1. \/ UNCHANGED <<consumed, playbackItem>>
        \/ consumed' = 0 /\ playbackItem' \in Items
    <3>1. ASSUME NEW n \in Sizes, AudioDelta(n)
          PROVE  \/ UNCHANGED <<consumed, playbackItem>>
                 \/ consumed' = 0 /\ playbackItem' \in Items
      BY <3>1 DEF AudioDelta, ResetPosition, TypeOK, player
    <3>2. CASE Emits \/ PlaybackEvent \/ DeltaWritten \/ CutSpeaker \/ Close
      BY <3>2 DEF Emits, Emit, PlaybackEvent, DeltaWritten, Write, CutSpeaker, Close,
           CutPlayback, session
    <3>3. CASE UNCHANGED player /\ Elsewhere
      BY <3>3 DEF Elsewhere, player, session, ItemAdded, ResponseDone, SpeechStarted, SpeechStopped,
           ModelHangsUp, ReadPlayed, Truncate, ReaderEnds, FrameArrives, FrameFails,
           FrameSent, MicrophoneEnds, vars
    <3> QED
      BY <1>2, <3>1, <3>2, <3>3, PlayerSteps
  <2>2. CASE UNCHANGED <<consumed, playbackItem>>
    BY <2>0, <2>2 DEF DeviceFlows
  <2>3. CASE consumed' = 0 /\ playbackItem' \in Items
    <3>1. \A k \in 0..Latency : handed[k][playbackItem'] \in Nat /\ k * Block \in Nat
      BY <1>0, <2>3
    <3> QED
      BY <2>0, <2>3, <3>1 DEF DeviceFlows
  <2> QED
    BY <2>1, <2>2, <2>3
<1> QED
  BY <1>1, <1>2

\* A period in which nothing is handed over lengthens the silence.
LEMMA SilenceGrows ==
    ASSUME PlayerTypeOK, Callback, Filled = 0, NEW a \in Nat, SilentFor(a)
    PROVE  SilentFor(a + 1)' /\ SilentFor(a)'
<1>0. handed \in [0..Latency -> [Items -> Nat]] /\ Latency \in Nat
  BY PlayerAssumption DEF PlayerTypeOK
<1>1. handed'[0] = handed[0]
  <2>1. \A i \in Items : Taken(i) = 0 /\ handed[0][i] \in Nat
    BY TakenFacts, <1>0
  <2>2. handed'[0] = [i \in Items |-> handed[0][i] + Taken(i)]
    BY <1>0 DEF Callback
  <2>3. [i \in Items |-> handed[0][i] + Taken(i)] = [i \in Items |-> handed[0][i]]
    BY <2>1
  <2> QED
    BY <2>2, <2>3, <1>0
<1>2. \A k \in 1..Latency : handed'[k] = handed[k - 1] /\ k - 1 \in 0..Latency
  BY <1>0 DEF Callback
<1>3. ASSUME NEW k \in 0..Latency, k <= a + 1 PROVE handed'[k] = handed'[0]
  <2>1. CASE k = 0
    BY <2>1
  <2>2. CASE k # 0
    <3>1. k \in 1..Latency /\ k - 1 <= a
      BY <2>2, <1>3, <1>0
    <3> QED
      BY <3>1, <1>1, <1>2 DEF SilentFor
  <2> QED
    BY <2>1, <2>2
<1> QED
  BY <1>3, <1>0 DEF SilentFor

LEMMA SilenceAges ==
    ASSUME PlayerTypeOK, Callback, Filled = 0,
           NEW a \in Nat, SilentFor(a), NEW limit \in Nat, Latency <= limit
    PROVE  /\ Aged(a, limit) \in Nat
           /\ SilentFor(Aged(a, limit))'
<1>1. Aged(a, limit) \in Nat /\ (Aged(a, limit) = a + 1 \/ Aged(a, limit) = a)
  BY DEF Aged
<1> QED
  BY <1>1, SilenceGrows

\* A silence as long as the latency is silence.
LEMMA LongSilence ==
    ASSUME NEW a \in Nat, SilentFor(a), a >= Latency
    PROVE  SilentFor(Latency)
BY PlayerAssumption DEF SilentFor

LEMMA SilencesPeriod ==
    ASSUME TypeOK, Silences, Period
    PROVE  Silences'
<1>0. /\ PlayerTypeOK /\ Latency \in Nat /\ DrainWindow \in Nat /\ DeviceBuffer \in Nat
      /\ Latency <= DrainWindow /\ Latency <= DeviceBuffer
      /\ dryFor \in Nat \cup {None} /\ sinceConsumed \in Nat \cup {None}
  BY PlayerAssumption DEF TypeOK, PlayerTypeOK, DrainWindow, DeviceBuffer
<1>1. Callback /\ Filled \in Nat /\ (Filled = 0 <=> pending = <<>>) /\ emitting = "nothing"
  BY <1>0, FilledFacts DEF Period, Callback
<1>2. /\ wasCut' = (wasCut /\ Filled = 0)
      /\ UNCHANGED <<eventsAt, pumpAt>> /\ pumpAt # "closed"
  BY DEF Period, pump
<1>3. SilentFor(0)'
  BY <1>0 DEF SilentFor
<1>4. ASSUME dryFor' # None PROVE (SilentFor(dryFor))'
  <2>1. CASE Filled = 0 /\ dryFor # None /\ dryFor' = Aged(dryFor, DrainWindow)
    <3>1. PICK a \in Nat : a = dryFor
      BY <1>0, <2>1
    <3>2. SilentFor(a)
      BY <3>1, <2>1 DEF Silences
    <3>3. SilentFor(Aged(a, DrainWindow))' /\ Aged(a, DrainWindow) \in Nat
      BY <1>0, <1>1, <2>1, <3>2, SilenceAges
    <3>4. dryFor' = Aged(a, DrainWindow)
      BY <2>1, <3>1
    <3> HIDE DEF Aged
    <3> QED
      BY <3>3, <3>4 DEF SilentFor
  <2>2. CASE dryFor' = 0
    BY <1>3, <2>2 DEF SilentFor
  <2> QED
    BY <1>1, <1>4, <2>1, <2>2 DEF Callback
<1>5. ASSUME sinceConsumed' # None PROVE (SilentFor(sinceConsumed))'
  <2>1. CASE Filled = 0 /\ sinceConsumed # None
    <3>1. PICK a \in Nat : a = sinceConsumed
      BY <1>0, <2>1
    <3>2. SilentFor(a)
      BY <3>1, <2>1 DEF Silences
    <3>3. SilentFor(Aged(a, DeviceBuffer))' /\ Aged(a, DeviceBuffer) \in Nat
      BY <1>0, <1>1, <2>1, <3>2, SilenceAges
    <3>4. sinceConsumed' = Aged(a, DeviceBuffer)
      BY <1>1, <2>1, <3>1 DEF Callback
    <3> QED
      BY <3>3, <3>4 DEF SilentFor
  <2>2. CASE sinceConsumed' = 0
    BY <1>3, <2>2 DEF SilentFor
  <2> QED
    BY <1>1, <1>5, <2>1, <2>2 DEF Callback, Aged
<1>6. ASSUME emitting' = "drained" PROVE SilentFor(Latency)'
  <2>1. Drains
    BY <1>1, <1>6 DEF Callback
  <2>2. PICK a \in Nat : a = dryFor
    BY <1>0, <2>1 DEF Drains
  <2>3. SilentFor(a) /\ Filled = 0 /\ a + 1 >= Latency
    BY <1>0, <2>1, <2>2 DEF Drains, Silences
  <2>4. SilentFor(a + 1)'
    BY <1>0, <1>1, <2>3, SilenceGrows
  <2> QED
    BY <1>0, <2>3, <2>4 DEF SilentFor
<1>7. ASSUME sinceConsumed' = None
      PROVE  \/ SilentFor(Latency)' \/ wasCut' \/ pending' # <<>>
             \/ eventsAt' = "writing" \/ pumpAt' = "closed"
  <2>1. Filled = 0 /\ sinceConsumed = None
    BY <1>0, <1>1, <1>7 DEF Callback, Aged, None
  <2>2. \/ SilentFor(Latency) \/ wasCut \/ eventsAt = "writing"
    BY <1>1, <1>2, <2>1 DEF Silences
  <2>3. CASE SilentFor(Latency)
    BY <1>0, <1>1, <2>1, <2>3, SilenceGrows
  <2> QED
    BY <1>2, <2>1, <2>2, <2>3
<1>8. pumpAt' \in {"ended", "closed"} => eventsAt' \in {"done", "failed", "cancelled"}
  BY <1>2 DEF Silences
<1> QED
  BY <1>4, <1>5, <1>6, <1>7, <1>8 DEF Silences

\* What the other steps do to the things a silence is known from.
Cuts ==
    /\ sinceConsumed' = None /\ sinceConsumed # None => wasCut' \/ eventsAt' = "writing"
    /\ wasCut => wasCut'
    /\ pending # <<>> =>
           pending' # <<>> \/ wasCut' \/ eventsAt' = "writing" \/ pumpAt' = "closed"
    /\ eventsAt = "writing" => eventsAt' = "writing" \/ pending' # <<>>
    /\ pumpAt = "closed" => pumpAt' = "closed"
    /\ pumpAt' \in {"ended", "closed"} => eventsAt' \in {"done", "failed", "cancelled"}

LEMMA SilencesElse ==
    ASSUME TypeOK, Accounted, Silences, [Next]_vars, ~Period
    PROVE  Silences'
<1>0. UNCHANGED handed /\ \A a \in Nat : SilentFor(a) => SilentFor(a)'
  BY HandedUnchanged DEF SilentFor
<1>1. /\ pending \in Seq(Items) /\ Latency \in Nat
      /\ dryFor \in Nat \cup {None} /\ sinceConsumed \in Nat \cup {None}
  BY PlayerAssumption DEF TypeOK, PlayerTypeOK
<1>2. /\ dryFor' \in {dryFor, None}
      /\ emitting' \in {emitting, "nothing"}
      /\ sinceConsumed' # None => sinceConsumed' = sinceConsumed
  BY PlayerSteps DEF Emits, Emit, PlaybackEvent, AudioDelta, ResetPosition, DeltaWritten,
     Write, CutSpeaker, Close, CutPlayback, player
<1>3. Cuts
  <2>1. CASE Emits \/ PlaybackEvent
    BY <2>1 DEF Cuts, Emits, Emit, PlaybackEvent, handler, pump, LoopFree, Silences
  <2>2. ASSUME NEW n \in Sizes, AudioDelta(n) PROVE Cuts
    BY <2>2 DEF Cuts, AudioDelta, Receives, pump, Silences
  <2>3. CASE DeltaWritten
    <3>1. incoming > 0 /\ incoming \in Nat /\ serverItem \in Items
      BY <2>3 DEF DeltaWritten, Accounted, TypeOK
    <3>5. PlayerTypeOK /\ Write(serverItem, incoming)
      BY <2>3 DEF DeltaWritten, TypeOK
    <3>2. Len(pending') = Len(pending) + incoming
      BY <3>1, <3>5, WriteFacts
    <3>3. Len(pending') # 0
      <4>1. Len(pending) \in Nat
        BY <1>1, LenProperties
      <4> QED
        BY <3>1, <3>2, <4>1
    <3>4. pending' # <<>>
      BY <3>3, EmptySeq
    <3> QED
      BY <2>3, <3>4 DEF Cuts, DeltaWritten, Write, pump, Silences
  <2>4. CASE CutSpeaker
    BY <2>4 DEF Cuts, CutSpeaker, pump, Silences
  <2>5. CASE Close
    BY <2>5 DEF Cuts, Close, handler, Silences
  <2>6. CASE UNCHANGED player /\ Elsewhere
    <3>1. CASE FrameArrives \/ FrameFails \/ FrameSent \/ MicrophoneEnds
      BY <2>6, <3>1 DEF Cuts, FrameArrives, FrameFails, FrameSent, MicrophoneEnds,
           ConverseEnds, ReaderOver, LoopFree, Silences, player, handler
    <3>2. CASE ~(FrameArrives \/ FrameFails \/ FrameSent \/ MicrophoneEnds)
      BY <2>6, <3>2 DEF Cuts, Elsewhere, player, pump, handler, Silences, ItemAdded, Receives,
           ResponseDone, SpeechStarted, SpeechStopped, ModelHangsUp, ReadPlayed, Truncate,
           ReaderEnds, LoopFree, vars
    <3> QED
      BY <3>1, <3>2
  <2> QED
    BY <2>1, <2>2, <2>3, <2>4, <2>5, <2>6, PlayerSteps
<1>4. ASSUME dryFor' # None PROVE (SilentFor(dryFor))'
  BY <1>0, <1>2, <1>4 DEF Silences, SilentFor
<1>5. ASSUME sinceConsumed' # None PROVE (SilentFor(sinceConsumed))'
  BY <1>0, <1>2, <1>5 DEF Silences, SilentFor
<1>6. emitting' = "drained" => SilentFor(Latency)'
  BY <1>0, <1>1, <1>2 DEF Silences
<1>7. ASSUME sinceConsumed' = None
      PROVE  \/ SilentFor(Latency)' \/ wasCut' \/ pending' # <<>>
             \/ eventsAt' = "writing" \/ pumpAt' = "closed"
  BY <1>0, <1>1, <1>3, <1>7 DEF Silences, Cuts
<1> QED
  BY <1>3, <1>4, <1>5, <1>6, <1>7 DEF Silences, Cuts

LEMMA SilencesStep ==
    ASSUME TypeOK, Accounted, Silences, [Next]_vars
    PROVE  Silences'
BY SilencesPeriod, SilencesElse

-----------------------------------------------------------------------------
\* The barge-in

\* What has been heard stays heard.
LEMMA HeardGrows ==
    ASSUME PlayerTypeOK, DeviceFlows, Callback, NEW i \in Items
    PROVE  handed[Latency][i] <= handed'[Latency][i]
<1>0. handed \in [0..Latency -> [Items -> Nat]] /\ Latency \in Nat
  BY PlayerAssumption DEF PlayerTypeOK
<1>1. handed' = [k \in 0..Latency |->
                    IF k = 0 THEN [j \in Items |-> handed[0][j] + Taken(j)] ELSE handed[k - 1]]
  BY DEF Callback
<1>2. CASE Latency = 0
  <2>1. handed'[0][i] = handed[0][i] + Taken(i)
    BY <1>0, <1>1
  <2>2. Taken(i) \in Nat /\ handed[0][i] \in Nat
    BY <1>0, TakenFacts
  <2> QED
    BY <1>2, <2>1, <2>2
<1>3. CASE Latency # 0
  <2>1. Latency \in 1..Latency /\ handed'[Latency] = handed[Latency - 1]
    BY <1>0, <1>1, <1>3
  <2> QED
    BY <2>1 DEF DeviceFlows
<1> QED
  BY <1>2, <1>3

\* played_ms never exceeds what has been heard of the item.
LEMMA PlayedIsHeard ==
    ASSUME TypeOK, DeviceFlows, playbackItem # NoItem
    PROVE  Played \in Nat /\ Played <= Heard(playbackItem)
<1>a. Latency \in Nat /\ Latency \in 0..Latency /\ Latency * Block \in Nat
  BY PlayerAssumption
<1>b. /\ playbackItem \in Items /\ consumed \in Nat
      /\ handed \in [0..Latency -> [Items -> Nat]]
  BY DEF TypeOK, PlayerTypeOK
<1>1. /\ Latency \in Nat /\ Latency \in 0..Latency /\ Latency * Block \in Nat
      /\ consumed \in Nat /\ handed[Latency][playbackItem] \in Nat
  BY <1>a, <1>b
<1>2. consumed <= handed[Latency][playbackItem] + Latency * Block
  BY <1>1 DEF DeviceFlows
<1> QED
  BY <1>1, <1>2 DEF Played, Heard

LEMMA ReadStep ==
    ASSUME TypeOK, DeviceFlows, Read, [Next]_vars
    PROVE  Read'
<1>a. /\ PlayerTypeOK /\ playbackItem \in Items \cup {NoItem} /\ toTell \in Nat
      /\ itemAudio \in Nat
  BY DEF TypeOK
<1>b. Latency \in 0..Latency
  BY PlayerAssumption
<1>c. consumed \in Nat /\ handed \in [0..Latency -> [Items -> Nat]]
  BY <1>a DEF PlayerTypeOK
<1>d. \A i \in Items : handed[Latency][i] \in Nat
  BY <1>b, <1>c
<1>0. /\ PlayerTypeOK /\ playbackItem \in Items \cup {NoItem} /\ toTell \in Nat
      /\ Latency \in 0..Latency /\ itemAudio \in Nat /\ consumed \in Nat
      /\ \A i \in Items : handed[Latency][i] \in Nat
  BY <1>a, <1>b, <1>c, <1>d
<1>1. CASE Period
  <2>1. Callback /\ UNCHANGED <<eventsAt, toTell, itemAudio, playbackItem>>
    BY <1>1 DEF Period, session
  <2>2. PlayerTypeOK'
    BY <1>0, <2>1, CallbackType
  <2>3. \A i \in Items : handed'[Latency][i] \in Nat
    BY <2>2, <1>0 DEF PlayerTypeOK
  <2>4. playbackItem # NoItem => handed[Latency][playbackItem] <= handed'[Latency][playbackItem]
    BY <1>0, <2>1, HeardGrows
  <2> QED
    BY <1>0, <2>1, <2>3, <2>4 DEF Read, Heard
<1>2. CASE ReadPlayed
  <2>1. /\ toTell' = Lower(Played, itemAudio) /\ eventsAt' = "stopping"
        /\ UNCHANGED <<handed, itemAudio, playbackItem>>
    BY <1>2 DEF ReadPlayed, player, session
  <2>2. Latency * Block \in Nat
    BY PlayerAssumption
  <2>3. Played \in Nat
    BY <1>0, <2>2 DEF Played
  <2>4. playbackItem # NoItem => Played <= Heard(playbackItem) /\ Heard(playbackItem) \in Nat
    BY <1>0, PlayedIsHeard DEF Heard
  <2>5. toTell' <= itemAudio /\ toTell' <= Played /\ toTell' \in Nat
    BY <1>0, <2>1, <2>3 DEF Lower
  <2>6. playbackItem # NoItem => toTell' <= Heard(playbackItem)
    BY <2>3, <2>4, <2>5
  <2> QED
    BY <2>1, <2>5, <2>6 DEF Read, Heard
<1>3. CASE CutSpeaker
  BY <1>3 DEF CutSpeaker, CutPlayback, Read, Heard
<1>4. ASSUME NEW n \in Sizes, AudioDelta(n) PROVE Read'
  BY <1>4 DEF AudioDelta, Read
<1>5. CASE DeltaWritten
  BY <1>5 DEF DeltaWritten, Read
<1>6. CASE Emits \/ PlaybackEvent \/ Close
  BY <1>6 DEF Emits, Emit, PlaybackEvent, Close, CutPlayback, session, handler, Read, Heard
<1>7. CASE UNCHANGED player /\ Elsewhere /\ ~ReadPlayed
  <2>1. UNCHANGED <<handed, itemAudio, playbackItem>>
    BY <1>7 DEF Elsewhere, player, session, ItemAdded, ResponseDone, SpeechStarted, SpeechStopped,
         ModelHangsUp, Truncate, ReaderEnds, FrameArrives, FrameFails, FrameSent, MicrophoneEnds, vars
  <2>2. eventsAt' \in {"stopping", "telling"} => UNCHANGED <<eventsAt, toTell>>
    BY <1>7 DEF Elsewhere, handler, ItemAdded, Receives, ResponseDone, SpeechStarted, SpeechStopped,
         ModelHangsUp, Truncate, ReaderEnds, FrameArrives, FrameFails, FrameSent, MicrophoneEnds,
         ConverseEnds, vars
  <2> QED
    BY <2>1, <2>2 DEF Read, Heard
<1> QED
  BY <1>1, <1>2, <1>3, <1>4, <1>5, <1>6, <1>7, PlayerSteps

-----------------------------------------------------------------------------
\* The theorems

\* The invariant holds when the conversation is opened.
THEOREM InitInv == Init => IInv
<1> SUFFICES ASSUME Init PROVE IInv
  OBVIOUS
<1>1. Latency \in Nat /\ pending = <<>>
  BY PlayerAssumption DEF Init, PlayerInit
<1>2. PlayerTypeOK
  <2>1. <<>> \in Seq(Items) /\ <<>> \in Seq({"started", "drained", "cut"})
    OBVIOUS
  <2>2. handed \in [0..Latency -> [Items -> Nat]]
    BY DEF Init, PlayerInit
  <2> QED
    BY <2>1, <2>2 DEF Init, PlayerInit, PlayerTypeOK
<1>3. TypeOK
  <2>1. sent \in 0..MaxFrames
    BY SessionAssumption DEF Init
  <2> QED
    BY <1>2, <2>1 DEF Init, TypeOK
<1>4. Accounted
  <2>1. Len(pending) = 0
    BY <1>1, EmptySeq
  <2> QED
    BY <2>1 DEF Init, PlayerInit, Accounted
<1>5. DeviceFlows /\ Silences /\ Read
  BY <1>1 DEF Init, PlayerInit, DeviceFlows, Silences, SilentFor, Read
<1> QED
  BY <1>3, <1>4, <1>5 DEF IInv

\* Every step of the code keeps it.
THEOREM NextInv == IInv /\ [Next]_vars => IInv'
BY TypeStep, AccountedStep, DeviceFlowsStep, SilencesStep, ReadStep DEF IInv

THEOREM Invariance == Spec => []IInv
BY InitInv, NextInv, PTL DEF Spec

\* The variables keep their types, the buffer and the device's among them.
THEOREM TypeCorrect == Spec => []TypeOK
<1>1. IInv => TypeOK
  BY DEF IInv
<1> QED
  BY <1>1, Invariance, PTL

\* _barge_in() never tells the model that more of an item was heard than the
\* device had played of that item, however the callback's thread moves between
\* its reads, and with any fault.
THEOREM TruncatesAreHonest == Spec => []TruncateIsHonest
<1>1. IInv => TruncateIsHonest
  BY DEF IInv, Read, TruncateIsHonest
<1> QED
  BY <1>1, Invariance, PTL

\* "drained" is emitted by _note_fill() only when the device is dry, whatever
\* its latency and the debounce.
THEOREM DrainedMeansSilence == Spec => []DrainedIsSilence
<1>1. IInv => DrainedIsSilence
  BY PlayerAssumption DEF IInv, Silences, SilentFor, DrainedIsSilence, DeviceDry
<1> QED
  BY <1>1, Invariance, PTL

\* _barge_in() finds nothing to interrupt only when the device is dry, or is
\* playing out what a barge-in has cut.
THEOREM NothingAudibleIsIgnored == Spec => NothingAudibleIgnored
<1>1. IInv /\ [Next]_vars => [SpeechStarted /\ ~Interruptible => DeviceDry \/ wasCut]_vars
  <2> SUFFICES ASSUME IInv, SpeechStarted, ~Interruptible, ~wasCut PROVE DeviceDry
    BY DEF NothingAudibleIgnored
  <2>1. pending = <<>> /\ eventsAt = "ready"
    BY DEF Interruptible, HasUnplayedAudio, SpeechStarted, Receives
  <2>2. Latency \in Nat /\ Latency <= DeviceBuffer /\ DeviceBuffer \in Nat
        /\ sinceConsumed \in Nat \cup {None}
    BY PlayerAssumption DEF DeviceBuffer, IInv, TypeOK, PlayerTypeOK
  <2>3. CASE sinceConsumed = None
    <3>1. SilentFor(Latency) \/ pumpAt = "closed"
      BY <2>1, <2>3 DEF IInv, Silences
    <3>2. pumpAt # "closed"
      BY <2>1 DEF IInv, Silences
    <3> QED
      BY <2>2, <3>1, <3>2 DEF SilentFor, DeviceDry
  <2>4. CASE sinceConsumed # None
    <3>1. sinceConsumed >= DeviceBuffer /\ SilentFor(sinceConsumed)
      BY <2>2, <2>4 DEF Interruptible, HasUnplayedAudio, IInv, Silences
    <3> QED
      BY <2>2, <2>4, <3>1 DEF SilentFor, DeviceDry
  <2> QED
    BY <2>3, <2>4
<1> QED
  BY <1>1, Invariance, PTL DEF Spec, NothingAudibleIgnored

-----------------------------------------------------------------------------
\* The floor, when no delta of a cancelled response arrives late

\* A buffer that is empty gives the callback nothing.
LEMMA EmptyPeriod ==
    ASSUME PlayerTypeOK, pending = <<>>, Callback
    PROVE  pending' = <<>> /\ Filled = 0
<1>1. Filled = 0 /\ Len(pending) = 0
  BY FilledFacts
<1>2. SubSeq(pending, 1, 0) = <<>>
  BY <1>1, SubSeqProperties DEF PlayerTypeOK
<1> QED
  BY <1>1, <1>2 DEF Callback

LEMMA FloorStep ==
    ASSUME "late" \notin Faults, TypeOK, Floor, [Next]_vars
    PROVE  Floor'
<1> USE DEF Floor, UserHasTheFloor
<1>0. PlayerTypeOK
  BY DEF TypeOK
<1>1. CASE Period
  <2>1. UNCHANGED <<userTalks, generating, eventsAt>> /\ Callback
    BY <1>1 DEF Period, server
  <2> QED
    BY <1>0, <2>1, EmptyPeriod
<1>2. CASE Emits \/ PlaybackEvent
  BY <1>2 DEF Emits, Emit, PlaybackEvent, server, handler
<1>3. CASE \E n \in Sizes : AudioDelta(n)
  BY <1>3 DEF AudioDelta, Receives
<1>4. CASE DeltaWritten
  BY <1>4 DEF DeltaWritten, server
<1>5. CASE CutSpeaker \/ Close
  BY <1>5 DEF CutSpeaker, Close, CutPlayback, server, handler
<1>6. CASE ItemAdded
  BY <1>6 DEF ItemAdded, handler
<1>7. CASE SpeechStarted
  <2>1. pending' = pending /\ generating' = FALSE /\ eventsAt' \in {"ready", "reading"}
    BY <1>7 DEF SpeechStarted, player
  <2>2. eventsAt' = "ready" => pending = <<>>
    BY <1>7 DEF SpeechStarted, Interruptible, HasUnplayedAudio
  <2> QED
    BY <2>1, <2>2
<1>8. CASE ResponseDone \/ SpeechStopped \/ ModelHangsUp
  BY <1>8 DEF ResponseDone, SpeechStopped, ModelHangsUp, player, server, handler
<1>9. CASE ReadPlayed \/ Truncate \/ ReaderEnds
  BY <1>9 DEF ReadPlayed, Truncate, ReaderEnds, player, server
<1>10. CASE FrameArrives \/ FrameFails \/ FrameSent \/ MicrophoneEnds
  BY <1>10 DEF FrameArrives, FrameFails, FrameSent, MicrophoneEnds, ConverseEnds, LoopFree,
       player, server, handler
<1>11. CASE UNCHANGED vars
  BY <1>11 DEF vars, player, server, handler
<1> QED
  BY <1>1, <1>2, <1>3, <1>4, <1>5, <1>6, <1>7, <1>8, <1>9, <1>10, <1>11, PlayerSteps DEF Elsewhere

\* While the user talks, _barge_in() being over, nothing is left to be played,
\* if the server sends no delta of a response it has cancelled.
THEOREM FloorIsTheUsers ==
    ASSUME "late" \notin Faults
    PROVE  Spec => []UserHasTheFloor
<1>1. Init => Floor
  BY DEF Init, PlayerInit, Floor, UserHasTheFloor
<1>2. TypeOK /\ Floor /\ [Next]_vars => Floor'
  BY FloorStep
<1>3. Floor => UserHasTheFloor
  BY DEF Floor
<1> QED
  BY <1>1, <1>2, <1>3, TypeCorrect, PTL DEF Spec

-----------------------------------------------------------------------------
\* The indicator, when the callback is not preempted between lock and emission

\* A playback event that is last on its way, and what follows it.
LEMMA LastPosted ==
    ASSUME PlayerTypeOK
    PROVE  /\ \A e \in {"started", "drained", "cut"} :
                  /\ Append(posted, e) # <<>>
                  /\ Append(posted, e)[Len(Append(posted, e))] = e
           /\ posted # <<>> =>
                  \/ Tail(posted) = <<>> /\ Head(posted) = posted[Len(posted)]
                  \/ Tail(posted) # <<>> /\ Tail(posted)[Len(Tail(posted))] = posted[Len(posted)]
<1>1. posted \in Seq({"started", "drained", "cut"}) /\ Len(posted) \in Nat
  BY LenProperties DEF PlayerTypeOK
<1>2. ASSUME NEW e \in {"started", "drained", "cut"}
      PROVE  Append(posted, e) # <<>> /\ Append(posted, e)[Len(Append(posted, e))] = e
  BY <1>1, <1>2, AppendProperties
<1>3. ASSUME posted # <<>>
      PROVE  \/ Tail(posted) = <<>> /\ Head(posted) = posted[Len(posted)]
             \/ Tail(posted) # <<>> /\ Tail(posted)[Len(Tail(posted))] = posted[Len(posted)]
  <2>1. /\ Tail(posted) \in Seq({"started", "drained", "cut"})
        /\ Len(Tail(posted)) = Len(posted) - 1
        /\ \A i \in 1..Len(Tail(posted)) : Tail(posted)[i] = posted[i + 1]
    BY <1>1, <1>3, HeadTailProperties
  <2>2. Head(posted) = posted[1] /\ Len(posted) >= 1
    BY <1>1, <1>3, EmptySeq
  <2>3. CASE Len(posted) = 1
    <3>1. Len(Tail(posted)) = 0
      BY <2>1, <2>3
    <3>2. Tail(posted) = <<>>
      BY <2>1, <3>1, EmptySeq
    <3> QED
      BY <2>2, <2>3, <3>2
  <2>4. CASE Len(posted) > 1
    <3>1. Len(Tail(posted)) \in 1..Len(Tail(posted))
      BY <1>1, <2>1, <2>4
    <3> QED
      BY <1>1, <2>1, <3>1, <2>4, EmptySeq
  <2> QED
    BY <1>1, <2>2, <2>3, <2>4
<1> QED
  BY <1>2, <1>3

LEMMA AnnouncedStep ==
    ASSUME "preempt" \notin Faults, TypeOK, Announced, [Next]_vars
    PROVE  Announced'
<1> USE DEF Announced
<1>0. PlayerTypeOK /\ playing \in BOOLEAN /\ assistantSpeaking \in BOOLEAN
  BY DEF TypeOK, PlayerTypeOK
<1>1. CASE Period
  <2>1. /\ UNCHANGED <<eventsAt, assistantSpeaking, posted>> /\ Callback
        /\ emitting = "nothing"
    BY <1>1 DEF Period, Callback, ux
  <2>2. Filled \in Nat
    BY <1>0, FilledFacts
  <2>3. eventsAt = "telling" => pending' = <<>> /\ Filled = 0
    BY <1>0, <2>1, EmptyPeriod
  <2>4. CASE Starts
    <3>1. Filled # 0 /\ Filled > 0
      BY <2>2, <2>4 DEF Starts
    <3>2. emitting' = "started" /\ playing' = TRUE
      BY <2>1, <2>4, <3>1 DEF Callback, Drains
    <3> QED
      BY <2>1, <2>3, <3>1, <3>2
  <2>5. CASE Drains
    BY <2>1, <2>3, <2>5 DEF Callback, Starts, Drains
  <2>6. CASE ~Starts /\ ~Drains
    <3>1. emitting' = "nothing" /\ (playing' <=> playing)
      BY <1>0, <2>1, <2>2, <2>6 DEF Callback, Starts
    <3> QED
      BY <2>1, <2>3, <3>1
  <2> QED
    BY <2>4, <2>5, <2>6
<1>2. CASE Emits
  BY <1>0, <1>2, LastPosted DEF Emits, Emit, PlayerTypeOK, ux, handler
<1>3. CASE PlaybackEvent
  BY <1>0, <1>3, LastPosted DEF PlaybackEvent, NotPreempting, handler
<1>4. CASE \E n \in Sizes : AudioDelta(n)
  <2>1. /\ UNCHANGED <<playing, emitting, posted, assistantSpeaking>>
        /\ eventsAt' = "writing"
    BY <1>4 DEF AudioDelta, ResetPosition, player
  <2> QED
    BY <2>1
<1>5. CASE DeltaWritten
  <2>1. /\ UNCHANGED <<playing, emitting, posted, assistantSpeaking>>
        /\ eventsAt' = "ready"
    BY <1>5 DEF DeltaWritten, Write, ux
  <2> QED
    BY <2>1
<1>6. CASE CutSpeaker
  <2>1. /\ emitting = "nothing" /\ emitting' = "nothing"
        /\ pending' = <<>> /\ playing' = FALSE
        /\ posted' = IF playing THEN Append(posted, "cut") ELSE posted
    BY <1>6 DEF CutSpeaker, CutPlayback, NotPreempting
  <2>2. assistantSpeaking' = FALSE \/ assistantSpeaking' = assistantSpeaking
    BY <1>6 DEF CutSpeaker, BackToListening, ux
  <2>3. CASE playing
    BY <1>0, <2>1, <2>3, LastPosted
  <2>4. CASE ~playing
    BY <1>0, <2>1, <2>2, <2>4
  <2> QED
    BY <2>3, <2>4
<1>7. CASE Close
  <2>1. /\ emitting = "nothing" /\ emitting' = "nothing"
        /\ pending' = <<>> /\ playing' = FALSE
        /\ posted' = IF playing THEN Append(posted, "cut") ELSE posted
        /\ assistantSpeaking' = assistantSpeaking
    BY <1>7 DEF Close, CutPlayback, ux
  <2>2. CASE playing
    BY <1>0, <2>1, <2>2, LastPosted
  <2>3. CASE ~playing
    BY <1>0, <2>1, <2>3
  <2> QED
    BY <2>2, <2>3
<1>8. CASE Truncate
  BY <1>8 DEF Truncate, BackToListening, NotPreempting, player
<1>9. CASE /\ UNCHANGED <<player, assistantSpeaking>>
           /\ eventsAt' = "telling" => eventsAt = "telling"
  BY <1>9 DEF player
<1>10. CASE UNCHANGED player /\ Elsewhere /\ ~Truncate
  <2>1. CASE ItemAdded \/ ResponseDone \/ SpeechStarted \/ SpeechStopped \/ ModelHangsUp
    BY <1>9, <1>10, <2>1
       DEF ItemAdded, ResponseDone, SpeechStarted, SpeechStopped, ModelHangsUp, ux, handler
  <2>2. CASE ReadPlayed \/ ReaderEnds
    BY <1>9, <1>10, <2>2 DEF ReadPlayed, ReaderEnds, ux
  <2>3. CASE FrameArrives \/ FrameFails \/ FrameSent \/ MicrophoneEnds
    BY <1>9, <1>10, <2>3 DEF FrameArrives, FrameFails, FrameSent, MicrophoneEnds,
         ConverseEnds, ux, handler
  <2>4. CASE UNCHANGED vars
    BY <1>9, <2>4 DEF vars, ux, handler
  <2> QED
    BY <1>10, <2>1, <2>2, <2>3, <2>4 DEF Elsewhere
<1> QED
  BY <1>1, <1>2, <1>3, <1>4, <1>5, <1>6, <1>7, <1>8, <1>10, PlayerSteps

\* Once every playback event has been handled the speaking indicator agrees
\* with the player, if the loop never runs between the callback's lock and its
\* _emit().
THEOREM IndicatorIsRight ==
    ASSUME "preempt" \notin Faults
    PROVE  Spec => []SpeakingFollowsPlayer
<1>1. Init => Announced
  BY DEF Init, PlayerInit, Announced
<1>2. TypeOK /\ Announced /\ [Next]_vars => Announced'
  BY AnnouncedStep
<1>3. TypeOK /\ Announced => SpeakingFollowsPlayer
  BY DEF TypeOK, PlayerTypeOK, Announced, SpeakingFollowsPlayer
<1> QED
  BY <1>1, <1>2, <1>3, TypeCorrect, PTL DEF Spec

-----------------------------------------------------------------------------
\* How a conversation ends

\* A reader's failure is not lost on the pump that ends first, and a session that is
\* closed has nothing left to play.
EndsWell ==
    /\ pumpAt \in {"ended", "closed"} /\ eventsAt = "failed" => outcome = "error"
    /\ pumpAt = "closed" => pending = <<>> /\ ~playing /\ emitting = "nothing"
    /\ pumpAt \in {"ended", "closed"} <=> outcome # "none"

\* The pump is over only when the reader is.
LEMMA OverIs ==
    ASSUME IInv, pumpAt \in {"ended", "closed"}
    PROVE  ReaderOver \/ eventsAt = "cancelled"
BY DEF IInv, Silences, ReaderOver

LEMMA EndsWellStep == ASSUME IInv, EndsWell, [Next]_vars PROVE EndsWell'
<1>1. CASE Period
  BY <1>1 DEF Period, EndsWell, pump
<1>2. CASE Emits
  BY <1>2 DEF Emits, Emit, EndsWell, handler, pump
<1>3. CASE PlaybackEvent \/ ReadPlayed \/ Truncate
  BY <1>3, OverIs
     DEF PlaybackEvent, ReadPlayed, Truncate, ReaderOver, EndsWell, player, handler, pump
<1>4. CASE ServerEvent \/ DeltaWritten \/ CutSpeaker \/ ReaderEnds
  <2>1. pumpAt \notin {"ended", "closed"} /\ UNCHANGED pump
    BY <1>4, OverIs
       DEF ServerEvent, ItemAdded, AudioDelta, ResponseDone, SpeechStarted, SpeechStopped,
           ModelHangsUp, Receives, DeltaWritten, CutSpeaker, ReaderEnds, ReaderOver, pump
  <2> QED
    BY <2>1 DEF EndsWell, pump
<1>5. CASE FrameArrives
  BY <1>5 DEF FrameArrives, EndsWell, handler
<1>6. CASE FrameFails
  BY <1>6 DEF FrameFails, ConverseEnds, EndsWell
<1>7. CASE FrameSent
  <2>1. CASE ReaderOver
    BY <1>7, <2>1 DEF FrameSent, ConverseEnds, OutcomeOf, ReaderOver, EndsWell
  <2>2. CASE ~ReaderOver
    BY <1>7, <2>2 DEF FrameSent, ConverseEnds, ReaderOver, EndsWell
  <2> QED
    BY <2>1, <2>2
<1>10. CASE MicrophoneEnds
  BY <1>10 DEF MicrophoneEnds, ConverseEnds, OutcomeOf, ReaderOver, EndsWell
<1>8. CASE Close
  BY <1>8 DEF Close, CutPlayback, EndsWell, handler
<1>9. CASE UNCHANGED vars
  BY <1>9 DEF vars, EndsWell, player, handler, pump
<1> QED
  BY <1>1, <1>2, <1>3, <1>4, <1>5, <1>6, <1>7, <1>8, <1>9, <1>10 DEF Next, BargeIn, Pump

\* Whichever of its tasks ends first, converse() raises when the reader has failed
\* (realtime.py:524), and aclose() leaves a player that is empty and stays so, with
\* every fault: what VoicePipeline takes for granted after a conversation.
THEOREM ConversationEndsWell == Spec => []EndsWell
<1>1. Init => EndsWell
  BY DEF Init, PlayerInit, EndsWell
<1> QED
  BY <1>1, EndsWellStep, Invariance, PTL DEF Spec

-----------------------------------------------------------------------------
\* What the conversation is to the pipeline

LEMMA TalkStep ==
    ASSUME IInv, [Next]_vars
    PROVE  [Conversation!Next]_<<Phase, playing, outcome = "error">>
<1> USE DEF Phase
<1>1. pumpAt \in {"frame", "send", "ended", "closed"} /\ playing \in BOOLEAN /\ playing' \in BOOLEAN
  BY NextInv DEF IInv, TypeOK, PlayerTypeOK
<1>2. CASE Period
  <2>1. UNCHANGED pump /\ Phase # "none"
    BY <1>1, <1>2 DEF Period
  <2>2. playing' = playing \/ playing' = TRUE \/ playing' = FALSE
    BY <1>1
  <2>3. CASE playing' = playing
    BY <2>1, <2>3 DEF pump
  <2>4. CASE playing' = TRUE
    BY <2>1, <2>4 DEF pump, Conversation!Starts, Conversation!Next
  <2>5. CASE playing' = FALSE
    BY <2>1, <2>5 DEF pump, Conversation!Stops, Conversation!Next
  <2> QED
    BY <2>2, <2>3, <2>4, <2>5
<1>3. CASE Emits \/ PlaybackEvent \/ ServerEvent \/ DeltaWritten \/ ReaderEnds
  <2>1. UNCHANGED <<playing, pump>>
    BY <1>3 DEF Emits, Emit, PlaybackEvent, ServerEvent, ItemAdded, AudioDelta, ResetPosition,
                ResponseDone, SpeechStarted, SpeechStopped, ModelHangsUp, DeltaWritten, Write,
                ReaderEnds, player
  <2> QED
    BY <2>1 DEF pump
<1>4. CASE BargeIn
  <2>1. UNCHANGED pump /\ (playing' = playing \/ playing' = FALSE)
    BY <1>4 DEF BargeIn, ReadPlayed, CutSpeaker, Truncate, CutPlayback, player
  <2> QED
    BY <2>1 DEF pump, Conversation!Stops, Conversation!Next
<1>5. CASE FrameArrives \/ FrameFails \/ FrameSent \/ MicrophoneEnds
  <2>1. UNCHANGED playing /\ pumpAt \in {"frame", "send"}
    BY <1>5 DEF FrameArrives, FrameFails, FrameSent, MicrophoneEnds, player
  <2>2. \/ pumpAt' \in {"frame", "send"} /\ UNCHANGED outcome
        \/ pumpAt' = "ended"
    BY <1>5 DEF FrameArrives, FrameFails, FrameSent, MicrophoneEnds, ConverseEnds
  <2>3. (outcome = "error")' \in BOOLEAN
    OBVIOUS
  <2> QED
    BY <2>1, <2>2, <2>3 DEF Conversation!Ends, Conversation!Next
<1>6. CASE Close
  <2>1. Conversation!Closes
    BY <1>6 DEF Close, CutPlayback, Conversation!Closes
  <2> QED
    BY <2>1 DEF Conversation!Next
<1>7. CASE UNCHANGED vars
  BY <1>7 DEF vars, player, pump
<1> QED
  BY <1>2, <1>3, <1>4, <1>5, <1>6, <1>7 DEF Next, Pump

\* With every fault the session is one conversation of those VoicePipeline goes
\* through: from connect() to aclose(), in one piece, with one end, and silent then.
THEOREM TalkRefinement == Spec => TalkImplemented
<1>1. Init => Conversation!Init
  BY DEF Init, PlayerInit, Phase, Conversation!Init
<1>2. IInv /\ [Next]_vars => [Conversation!Next]_<<Phase, playing, outcome = "error">>
  BY TalkStep
<1> QED
  BY <1>1, <1>2, Invariance, PTL DEF Spec, TalkImplemented, Conversation!Spec
=============================================================================
