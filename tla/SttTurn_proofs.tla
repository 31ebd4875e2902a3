--------------------------- MODULE SttTurn_proofs ---------------------------
(***************************************************************************)
(* Proofs about the transcription of a turn, for any number of frames and  *)
(* any threshold: its typing, that no frame is lost before a fallback, and *)
(* that it keeps the promise the pipeline is built on.                     *)
(***************************************************************************)
EXTENDS Turn, TLAPS, SequenceTheorems

Kinds == {"flux", "nova", "local"}

\* SttTypeOK in two parts, since the flags are Booleans and the rest is not.
Flags ==
    recording \in BOOLEAN /\ partial \in BOOLEAN /\ known \in BOOLEAN /\ endOfTurn \in BOOLEAN

Places ==
    /\ primary \in Primaries
    /\ stt \in {"none"} \cup Transcribing \cup Results
    /\ fed \in 0..Frames
    /\ queue \in Seq(0..Frames)
    /\ stream \in {"open", "ended", "broken"}
    /\ buffered \in Seq(1..Frames)
    /\ sender \in {"none", "pulling", "sending", "failed", "done"}
    /\ unknown \in 0..SchemaThreshold

\* Between turns nothing is left; a sender is a receiver's.
Tasks ==
    /\ stt = "none" => ~recording /\ ~endOfTurn /\ fed = 0 /\ stream = "open"
    /\ sender # "none" => stt = "receiving"

\* The stream has been told its end, and nobody has read it yet.
Marks == IF ~recording /\ stt # "none" /\ stream # "ended" THEN 1 ELSE 0

\* What has been fed is what the tee has kept, in order, and then the queue.
Chunks ==
    /\ Len(buffered) <= fed
    /\ \A i \in 1..Len(buffered) : buffered[i] = i
    /\ Len(queue) = (fed - Len(buffered)) + Marks
    /\ \A i \in 1..Len(queue) :
           queue[i] = IF i <= fed - Len(buffered) THEN Len(buffered) + i ELSE Close

\* A stream that has ended was closed and read; a drain goes on until then.
Ended ==
    /\ stream = "ended" => ~recording /\ Len(buffered) = fed
    /\ stt = "posting" /\ primary \notin Detecting => stream # "open"

IInv == Flags /\ Places /\ Tasks /\ Chunks /\ Ended

USE DEF Close, Results, Streaming, Transcribing, Detecting, chunks, wire

-----------------------------------------------------------------------------
\* The chunk stream

\* A step that leaves the chunks alone, and closes or ends nothing.
LEMMA ChunksStay ==
    ASSUME Chunks, fed' = fed, queue' = queue, buffered' = buffered, recording' = recording,
           stt = "none" <=> stt' = "none", stream = "ended" <=> stream' = "ended"
    PROVE  Chunks'
BY DEF Chunks, Marks

\* A frame is fed.
LEMMA OneMoreFed ==
    ASSUME Places, Tasks, Chunks, Ended, Feeds
    PROVE  queue' \in Seq(0..Frames) /\ fed' \in 0..Frames /\ Chunks'
<1>1. /\ fed' = fed + 1 /\ queue' = Append(queue, fed + 1) /\ fed < Frames
      /\ buffered' = buffered /\ recording /\ recording' = recording
  BY DEF Feeds
<1>2. /\ fed \in Nat /\ fed + 1 \in 0..Frames /\ Len(buffered) \in Nat /\ Len(queue) \in Nat
      /\ Frames \in Nat
  BY <1>1, SttAssumption DEF Places
<1>3. /\ Len(queue') = Len(queue) + 1 /\ queue' \in Seq(0..Frames)
      /\ queue'[Len(queue) + 1] = fed + 1
      /\ \A i \in 1..Len(queue) : queue'[i] = queue[i]
  BY <1>1, <1>2, AppendProperties DEF Places
<1>4. Marks = 0 /\ Marks' = 0
  BY <1>1 DEF Marks
<1>5. Len(queue) = fed - Len(buffered) /\ Len(buffered) <= fed
  BY <1>2, <1>4 DEF Chunks
<1>6. \A i \in 1..Len(queue') :
          queue'[i] = IF i <= fed' - Len(buffered') THEN Len(buffered') + i ELSE Close
  <2> SUFFICES ASSUME NEW i \in 1..Len(queue')
               PROVE  queue'[i] = IF i <= fed' - Len(buffered') THEN Len(buffered') + i ELSE Close
    OBVIOUS
  <2> DEFINE n == Len(buffered)
  <2>0. Len(buffered') = n /\ n \in Nat /\ i \in Nat /\ i <= fed' - n
    BY <1>1, <1>2, <1>3, <1>5
  <2>1. CASE i \in 1..Len(queue)
    <3>1. queue[i] = IF i <= fed - n THEN n + i ELSE Close
      BY <2>1 DEF Chunks
    <3> QED
      BY <1>2, <1>3, <1>5, <2>0, <2>1, <3>1
  <2>2. CASE i = Len(queue) + 1
    BY <1>2, <1>3, <1>5, <2>0, <2>2
  <2> QED
    BY <1>2, <1>3, <2>1, <2>2
<1>7. /\ Len(buffered') <= fed'
      /\ Len(queue') = (fed' - Len(buffered')) + Marks'
  BY <1>1, <1>2, <1>3, <1>4, <1>5
<1>8. \A i \in 1..Len(buffered') : buffered'[i] = i
  BY <1>1 DEF Chunks
<1> QED
  BY <1>1, <1>2, <1>3, <1>6, <1>7, <1>8 DEF Chunks

\* The stream is closed behind what is queued.
LEMMA ClosedBehind ==
    ASSUME Places, Tasks, Chunks, Ended, Closes
    PROVE  queue' \in Seq(0..Frames) /\ Chunks'
<1>1. /\ queue' = Append(queue, Close) /\ fed' = fed /\ buffered' = buffered
      /\ recording /\ ~recording' /\ stt' = stt /\ stream' = stream
  BY DEF Closes
<1>2. /\ fed \in Nat /\ Len(buffered) \in Nat /\ Len(queue) \in Nat /\ Frames \in Nat
      /\ 0 \in 0..Frames
  BY SttAssumption DEF Places
<1>3. /\ Len(queue') = Len(queue) + 1 /\ queue' \in Seq(0..Frames)
      /\ queue'[Len(queue) + 1] = Close
      /\ \A i \in 1..Len(queue) : queue'[i] = queue[i]
  BY <1>1, <1>2, AppendProperties DEF Places
<1>4. Marks = 0 /\ Marks' = 1
  BY <1>1 DEF Marks, Tasks, Ended
<1> QED
  BY <1>1, <1>2, <1>3, <1>4 DEF Chunks

\* A chunk is kept as it leaves the queue, by the tee or by the drain.
LEMMA OneMoreKept ==
    ASSUME Places, Chunks, Ended,
           queue # <<>>, Head(queue) # Close, queue' = Tail(queue),
           buffered' = Append(buffered, Head(queue)),
           fed' = fed, recording' = recording, stt' = stt, stream' = stream
    PROVE  queue' \in Seq(0..Frames) /\ buffered' \in Seq(1..Frames) /\ Chunks'
<1> DEFINE k == Len(buffered)
<1>1. fed \in 0..Frames /\ k \in Nat /\ Len(queue) \in Nat /\ Frames \in Nat
  BY SttAssumption DEF Places
<1>2. /\ Len(queue) >= 1 /\ Len(queue') = Len(queue) - 1 /\ queue' \in Seq(0..Frames)
      /\ Head(queue) = queue[1]
      /\ \A i \in 1..Len(queue') : queue'[i] = queue[i + 1]
  BY <1>1, HeadTailProperties DEF Places
<1>3. 1 <= fed - k /\ queue[1] = k + 1
  BY <1>1, <1>2 DEF Chunks
<1>4. k + 1 \in 1..Frames
  BY <1>1, <1>3
<1>5. /\ buffered' \in Seq(1..Frames) /\ Len(buffered') = k + 1 /\ buffered'[k + 1] = k + 1
      /\ \A i \in 1..k : buffered'[i] = buffered[i]
  BY <1>2, <1>3, <1>4, AppendProperties DEF Places
<1>6. Marks' = Marks /\ Marks \in {0, 1}
  BY DEF Marks
<1>7. \A i \in 1..Len(buffered') : buffered'[i] = i
  BY <1>1, <1>5 DEF Chunks
<1>8. \A i \in 1..Len(queue') :
          queue'[i] = IF i <= fed' - Len(buffered') THEN Len(buffered') + i ELSE Close
  <2> SUFFICES ASSUME NEW i \in 1..Len(queue')
               PROVE  queue'[i] = IF i <= fed - (k + 1) THEN (k + 1) + i ELSE Close
    BY <1>5
  <2>1. i + 1 \in 1..Len(queue)
    BY <1>1, <1>2
  <2>2. queue'[i] = IF i + 1 <= fed - k THEN k + (i + 1) ELSE Close
    BY <1>2, <2>1 DEF Chunks
  <2> QED
    BY <1>1, <2>1, <2>2
<1>9. /\ Len(buffered') <= fed'
      /\ Len(queue') = (fed' - Len(buffered')) + Marks'
  <2>1. Len(queue) = (fed - k) + Marks
    BY DEF Chunks
  <2> QED
    BY <1>1, <1>2, <1>3, <1>5, <1>6, <2>1
<1> QED
  BY <1>2, <1>5, <1>7, <1>8, <1>9 DEF Chunks

\* Of a stream that has ended nothing is queued.
LEMMA EndedIsEmpty ==
    ASSUME Places, Chunks, Ended, stream = "ended"
    PROVE  queue = <<>>
<1>1. Marks = 0 /\ Len(buffered) = fed /\ fed \in Nat
  BY SttAssumption DEF Marks, Ended, Places
<1>2. Len(queue) = 0
  BY <1>1 DEF Chunks
<1> QED
  BY <1>2, EmptySeq DEF Places

\* The end is read when everything before it has been kept.
LEMMA EndIsRead ==
    ASSUME Places, Chunks, Ended, stt # "none", stt' # "none",
           queue # <<>>, Head(queue) = Close, queue' = Tail(queue), stream' = "ended",
           fed' = fed, recording' = recording, buffered' = buffered
    PROVE  /\ queue' \in Seq(0..Frames) /\ Chunks'
           /\ ~recording' /\ Len(buffered') = fed'
<1>1. fed \in 0..Frames /\ Len(buffered) \in Nat /\ Len(queue) \in Nat /\ Frames \in Nat
  BY SttAssumption DEF Places
<1>2. /\ Len(queue) >= 1 /\ Len(queue') = Len(queue) - 1 /\ queue' \in Seq(0..Frames)
      /\ queue[1] = 0
  BY <1>1, HeadTailProperties DEF Places
<1>3. ~(1 <= fed - Len(buffered))
  BY <1>1, <1>2 DEF Chunks
<1>4. fed = Len(buffered)
  BY <1>1, <1>3 DEF Chunks
<1>5. Marks = 1 /\ Len(queue) = 1
  BY <1>1, <1>2, <1>4 DEF Chunks, Marks
<1>6. ~recording /\ Marks' = 0
  BY <1>5 DEF Marks
<1>7. Len(queue') = 0
  BY <1>2, <1>5
<1> QED
  BY <1>1, <1>2, <1>4, <1>6, <1>7 DEF Chunks

-----------------------------------------------------------------------------
\* The steps of a transcription

\* What most steps do: the chunks stay, the transcription goes on or has its
\* result, and an open stream may be broken.
WireOnly ==
    /\ UNCHANGED <<primary, recording, fed, queue, buffered>>
    /\ stt # "none" /\ stt' \in Transcribing \cup Results
    /\ stream' = stream \/ (stream = "open" /\ stream' = "broken")
    /\ stt' = "posting" => stt = "posting" \/ primary \in Detecting
    /\ sender' \in {"none", "pulling", "sending", "failed", "done"}
    /\ sender' # "none" => stt' = "receiving"
    /\ unknown' \in 0..SchemaThreshold

LEMMA WireOnlyInv ==
    ASSUME Places, Tasks, Chunks, Ended, WireOnly
    PROVE  Places' /\ Tasks' /\ Chunks' /\ Ended'
<1>1. Places'
  BY DEF WireOnly, Places
<1>2. Tasks'
  BY DEF WireOnly, Tasks
<1>3. Chunks'
  BY ChunksStay DEF WireOnly
<1>4. Ended'
  BY DEF WireOnly, Ended
<1> QED
  BY <1>1, <1>2, <1>3, <1>4

\* A primary that fails goes to the drain or, with Flux, straight to the post.
LEMMA PrimaryFailsIsWire ==
    ASSUME Places, Tasks, PrimaryFails, stt \in Streaming
    PROVE  WireOnly
BY DEF Places, PrimaryFails, SenderCancelled, ReceiverUnchanged, WireOnly

LEMMA ReceivedIsWire ==
    ASSUME Places, Tasks, Received, ReceiverUnchanged, unknown' = unknown, stt = "receiving"
    PROVE  WireOnly
BY DEF Places, Received, SenderCancelled, ReceiverUnchanged, WireOnly

\* The receiver, and a sender that sends, leave the chunks alone.
Wire == \/ Connects \/ ConnectFails \/ TimesOut \/ ReceiverFails
        \/ Hears \/ HearsUnknown \/ FluxEndsTurn \/ NovaDone \/ SocketDrops
        \/ Returns \/ PostAnswers \/ PostFails \/ SenderSends

LEMMA WireIsWireOnly ==
    ASSUME Places, Tasks, Wire
    PROVE  WireOnly
<1>1. CASE Connects
  BY <1>1 DEF Connects, Places, Tasks, WireOnly
<1>2. CASE ConnectFails \/ TimesOut \/ ReceiverFails
  BY <1>2, PrimaryFailsIsWire DEF ConnectFails, TimesOut, ReceiverFails
<1>3. CASE Hears
  BY <1>3 DEF Hears, ReceiverUnchanged, Places, Tasks, WireOnly
<1>4. CASE HearsUnknown
  <2>1. CASE PrimaryFails
    BY <1>4, <2>1, PrimaryFailsIsWire DEF HearsUnknown, Receiving
  <2>2. CASE ~PrimaryFails
    <3>1. /\ stt = "receiving" /\ stt' = stt /\ stream' = stream /\ sender' = sender
          /\ ReceiverUnchanged
          /\ unknown' = IF known THEN unknown ELSE unknown + 1
          /\ known \/ ~(unknown + 1 >= SchemaThreshold)
      BY <1>4, <2>2 DEF HearsUnknown, Receiving
    <3>2. unknown' \in 0..SchemaThreshold
      BY <3>1, SttAssumption DEF Places
    <3> QED
      BY <3>1, <3>2 DEF ReceiverUnchanged, Places, Tasks, WireOnly
  <2> QED
    BY <2>1, <2>2
<1>5. CASE FluxEndsTurn
  BY <1>5, ReceivedIsWire DEF FluxEndsTurn, Receiving
<1>6. CASE NovaDone
  BY <1>6, ReceivedIsWire DEF NovaDone, Receiving
<1>7. CASE SocketDrops
  BY <1>7, ReceivedIsWire, PrimaryFailsIsWire DEF SocketDrops
<1>8. CASE Returns
  BY <1>8 DEF Returns, Places, Tasks, WireOnly
<1>9. CASE PostAnswers \/ PostFails
  BY <1>9 DEF PostAnswers, PostFails, Places, Tasks, WireOnly
<1>10. CASE SenderSends
  BY <1>10 DEF SenderSends, Sent, SenderUnchanged, Places, Tasks, WireOnly
<1> QED
  BY <1>1, <1>2, <1>3, <1>4, <1>5, <1>6, <1>7, <1>8, <1>9, <1>10 DEF Wire

-----------------------------------------------------------------------------
\* The steps of a turn

Keeps == Places' /\ Tasks' /\ Chunks' /\ Ended'

LEMMA SendingInv == ASSUME Places, Tasks, Chunks, Ended, SenderPulls \/ SenderEnds PROVE Keeps
<1>1. CASE SenderPulls
  <2>1. /\ queue # <<>> /\ Head(queue) # Close /\ queue' = Tail(queue)
        /\ buffered' = Append(buffered, Head(queue))
        /\ fed' = fed /\ recording' = recording /\ stt' = stt /\ stream' = stream
        /\ primary' = primary /\ unknown' = unknown /\ sender = "pulling" /\ sender' = "sending"
    BY <1>1 DEF SenderPulls, SenderUnchanged
  <2>2. queue' \in Seq(0..Frames) /\ buffered' \in Seq(1..Frames) /\ Chunks'
    BY <2>1, OneMoreKept
  <2>3. Places' /\ Tasks'
    BY <2>1, <2>2 DEF Places, Tasks
  <2>4. Ended'
    <3>1. stream # "ended" /\ stt = "receiving"
      BY <2>1, EndedIsEmpty DEF Tasks
    <3> QED
      BY <2>1, <3>1 DEF Ended
  <2> QED
    BY <2>2, <2>3, <2>4 DEF Keeps
<1>2. CASE SenderEnds
  <2>1. /\ queue # <<>> /\ Head(queue) = Close /\ queue' = Tail(queue) /\ stream' = "ended"
        /\ fed' = fed /\ recording' = recording /\ stt' = stt /\ buffered' = buffered
        /\ primary' = primary /\ unknown' = unknown
        /\ sender = "pulling" /\ sender' \in {"done", "failed"}
    BY <1>2 DEF SenderEnds, SenderUnchanged, Sent
  <2>2. stt = "receiving"
    BY <2>1 DEF Tasks
  <2>3. queue' \in Seq(0..Frames) /\ Chunks' /\ ~recording' /\ Len(buffered') = fed'
    BY <2>1, <2>2, EndIsRead
  <2> QED
    BY <2>1, <2>2, <2>3 DEF Places, Tasks, Ended, Keeps
<1> QED
  BY <1>1, <1>2

LEMMA DrainingInv == ASSUME Places, Tasks, Chunks, Ended, DrainPulls \/ DrainEnds PROVE Keeps
<1>1. CASE DrainPulls
  <2>1. /\ queue # <<>> /\ Head(queue) # Close /\ queue' = Tail(queue)
        /\ buffered' = Append(buffered, Head(queue))
        /\ fed' = fed /\ recording' = recording /\ stt' = stt /\ stream' = stream
        /\ primary' = primary /\ unknown' = unknown /\ sender' = sender
        /\ stt = "draining" /\ stream = "open"
    BY <1>1 DEF DrainPulls, Drained
  <2>2. queue' \in Seq(0..Frames) /\ buffered' \in Seq(1..Frames) /\ Chunks'
    BY <2>1, OneMoreKept
  <2> QED
    BY <2>1, <2>2 DEF Places, Tasks, Ended, Keeps
<1>2. CASE DrainEnds /\ stream = "open"
  <2>1. /\ queue # <<>> /\ Head(queue) = Close /\ queue' = Tail(queue) /\ stream' = "ended"
        /\ fed' = fed /\ recording' = recording /\ buffered' = buffered
        /\ primary' = primary /\ unknown' = unknown /\ sender' = sender
        /\ stt = "draining" /\ stt' = "posting"
    BY <1>2 DEF DrainEnds, StreamOver, Drained
  <2>2. queue' \in Seq(0..Frames) /\ Chunks' /\ ~recording' /\ Len(buffered') = fed'
    BY <2>1, EndIsRead
  <2> QED
    BY <2>1, <2>2 DEF Places, Tasks, Ended, Keeps
<1>3. CASE DrainEnds /\ stream # "open"
  <2>1. /\ queue' = queue /\ stream' = stream /\ fed' = fed /\ recording' = recording
        /\ buffered' = buffered /\ primary' = primary /\ unknown' = unknown /\ sender' = sender
        /\ stt = "draining" /\ stt' = "posting"
    BY <1>3 DEF DrainEnds, Drained
  <2>2. Chunks'
    BY <2>1, ChunksStay
  <2> QED
    BY <1>3, <2>1, <2>2 DEF Places, Tasks, Ended, Keeps
<1> QED
  BY <1>1, <1>2, <1>3

\* A turn that is over leaves nothing.
LEMMA OverInv == ASSUME Places, Over PROVE Keeps
<1>1. /\ primary' = primary /\ stt' = "none" /\ recording' = FALSE /\ fed' = 0 /\ queue' = <<>>
      /\ stream' = "open" /\ buffered' = <<>> /\ sender' = "none" /\ unknown' = 0
      /\ endOfTurn' = FALSE
  BY DEF Over
<1>2. Places'
  BY <1>1, SttAssumption DEF Places
<1>3. Tasks' /\ Ended'
  BY <1>1 DEF Tasks, Ended
<1>4. Len(buffered') = 0 /\ Len(queue') = 0 /\ Marks' = 0 /\ 1..0 = {}
  BY <1>1 DEF Marks
<1>5. Len(buffered') <= fed' /\ Len(queue') = (fed' - Len(buffered')) + Marks'
  <2>1. fed' = 0
    BY <1>1
  <2> QED
    BY <1>4, <2>1
<1>6. 1..Len(buffered') = {} /\ 1..Len(queue') = {}
  BY <1>4
<1>7. Chunks'
  BY <1>5, <1>6 DEF Chunks
<1> QED
  BY <1>2, <1>3, <1>7 DEF Keeps

LEMMA FeedingInv ==
    ASSUME Places, Tasks, Chunks, Ended, Starts \/ Feeding
    PROVE  Keeps
<1>1. CASE Starts
  <2>1. /\ primary' = primary /\ stt = "none" /\ stt' \in {"draining", "connecting"}
        /\ recording' = TRUE /\ fed' = fed /\ queue' = queue /\ stream' = stream
        /\ buffered' = buffered /\ sender' = sender /\ unknown' = unknown
    BY <1>1 DEF Starts
  <2>2. sender = "none" /\ stream = "open"
    BY <2>1 DEF Tasks
  <2>3. Marks' = Marks
    BY <2>1 DEF Marks
  <2> QED
    BY <2>1, <2>2, <2>3 DEF Places, Tasks, Ended, Chunks, Keeps
<1>2. CASE Feeds
  <2>1. /\ primary' = primary /\ stt' = stt /\ recording /\ recording' = recording
        /\ stream' = stream /\ buffered' = buffered /\ sender' = sender /\ unknown' = unknown
        /\ endOfTurn' = endOfTurn
    BY <1>2 DEF Feeds
  <2>2. queue' \in Seq(0..Frames) /\ fed' \in 0..Frames /\ Chunks'
    BY <1>2, OneMoreFed
  <2> QED
    BY <2>1, <2>2 DEF Places, Tasks, Ended, Keeps
<1>3. CASE Closes
  <2>1. /\ primary' = primary /\ stt' = stt /\ recording /\ ~recording' /\ fed' = fed
        /\ stream' = stream /\ buffered' = buffered /\ sender' = sender /\ unknown' = unknown
        /\ endOfTurn' = endOfTurn
    BY <1>3 DEF Closes
  <2>2. queue' \in Seq(0..Frames) /\ Chunks'
    BY <1>3, ClosedBehind
  <2> QED
    BY <2>1, <2>2 DEF Places, Tasks, Ended, Keeps
<1>4. CASE NobodySpeaks \/ Abandons
  BY <1>4, OverInv DEF NobodySpeaks, Abandons
<1> QED
  BY <1>1, <1>2, <1>3, <1>4 DEF Feeding

-----------------------------------------------------------------------------
\* The flags

LEMMA FlagsKept ==
    ASSUME Flags, Starts \/ SttStep \/ Over
    PROVE  Flags'
<1> USE DEF Flags
<1>1. CASE Starts
  BY <1>1 DEF Starts
<1>2. CASE Over
  BY <1>2 DEF Over
<1>3. CASE Feeding
  BY <1>2, <1>3 DEF Feeding, Feeds, Closes, NobodySpeaks, Abandons, Over
<1>4. CASE Sending
  BY <1>4 DEF Sending, SenderPulls, SenderSends, SenderEnds, SenderUnchanged
<1>5. CASE Answering
  <2> USE DEF ReceiverUnchanged, Received, PrimaryFails, Drained
  <2>1. CASE Connects \/ ConnectFails \/ TimesOut \/ ReceiverFails
    BY <2>1 DEF Connects, ConnectFails, TimesOut, ReceiverFails
  <2>2. CASE Hears \/ HearsUnknown
    BY <2>2 DEF Hears, HearsUnknown
  <2>3. CASE FluxEndsTurn \/ NovaDone \/ SocketDrops
    BY <2>3 DEF FluxEndsTurn, NovaDone, SocketDrops
  <2>4. CASE Returns \/ DrainPulls \/ DrainEnds
    BY <2>4 DEF Returns, DrainPulls, DrainEnds
  <2>5. CASE PostAnswers \/ PostFails
    BY <2>5 DEF PostAnswers, PostFails
  <2> QED
    BY <1>5, <2>1, <2>2, <2>3, <2>4, <2>5 DEF Answering
<1> QED
  BY <1>1, <1>2, <1>3, <1>4, <1>5 DEF SttStep

-----------------------------------------------------------------------------
LEMMA InitInv == Init => IInv
<1> SUFFICES ASSUME SttInit PROVE IInv
  BY DEF Init
<1>0. /\ primary \in Primaries /\ stt = "none" /\ recording = FALSE /\ endOfTurn = FALSE
      /\ fed = 0 /\ queue = <<>> /\ stream = "open" /\ buffered = <<>> /\ sender = "none"
      /\ partial = FALSE /\ known = FALSE /\ unknown = 0
  BY DEF SttInit, Idle
<1>1. Flags
  BY <1>0 DEF Flags
<1>2. Places
  BY <1>0, SttAssumption DEF Places
<1>3. Tasks /\ Ended
  BY <1>0 DEF Tasks, Ended
<1>4. Len(buffered) = 0 /\ Len(queue) = 0 /\ Marks = 0 /\ 1..0 = {}
  BY <1>0 DEF Marks
<1>5. Len(buffered) <= fed /\ Len(queue) = (fed - Len(buffered)) + Marks
  <2>1. fed = 0
    BY <1>0
  <2> QED
    BY <1>4, <2>1
<1>6. 1..Len(buffered) = {} /\ 1..Len(queue) = {}
  BY <1>4
<1>7. Chunks
  BY <1>5, <1>6 DEF Chunks
<1> QED
  BY <1>1, <1>2, <1>3, <1>7 DEF IInv

\* What a step of Turn is to the transcription.
LEMMA NextIsOfStt ==
    ASSUME Next
    PROVE  Starts \/ SttStep \/ Over \/ UNCHANGED sttVars
BY DEF Next, Wakes, Answers, Rearms, Restarts, ResultTaken, Returned

LEMMA NextInv == IInv /\ [Next]_vars => IInv'
<1> SUFFICES ASSUME IInv, [Next]_vars PROVE IInv'
  OBVIOUS
<1> USE DEF IInv
<1>1. CASE Starts \/ SttStep \/ Over
  <2>1. Flags'
    BY <1>1, FlagsKept
  <2>2. CASE Starts \/ Feeding
    BY <2>1, <2>2, FeedingInv DEF Keeps
  <2>3. CASE Over
    BY <2>1, <2>3, OverInv DEF Keeps
  <2>4. CASE SenderPulls \/ SenderEnds
    BY <2>1, <2>4, SendingInv DEF Keeps
  <2>5. CASE DrainPulls \/ DrainEnds
    BY <2>1, <2>5, DrainingInv DEF Keeps
  <2>6. CASE Wire
    BY <2>1, <2>6, WireIsWireOnly, WireOnlyInv
  <2> QED
    BY <1>1, <2>2, <2>3, <2>4, <2>5, <2>6 DEF SttStep, Feeding, Sending, Answering, Wire
<1>2. CASE UNCHANGED sttVars
  BY <1>2 DEF Flags, Places, Tasks, Chunks, Marks, Ended, sttVars
<1>3. CASE UNCHANGED vars
  BY <1>2, <1>3 DEF vars
<1> QED
  BY <1>1, <1>2, <1>3, NextIsOfStt

\* The inductive invariant holds in every behaviour, with every profile and
\* fault, for any number of frames and any threshold.
THEOREM Invariance == Spec => []IInv
BY InitInv, NextInv, PTL DEF Spec

\* The variables of a transcription keep their types.
THEOREM SttTypeCorrect == Spec => []SttTypeOK
<1>1. IInv => SttTypeOK
  BY DEF IInv, Flags, Places, SttTypeOK
<1> QED
  BY Invariance, <1>1, PTL

\* No frame of an utterance is lost or repeated on the way through the tee, the
\* queue and the drain, and what a fallback may lack is what is still queued behind
\* Flux or behind a broken stream (fallback.py, _fallback_after_primary()).
THEOREM NoFrameIsLost == Spec => []UtteranceKept
<1>1. IInv => UtteranceKept
  <2> SUFFICES ASSUME IInv PROVE UtteranceKept
    OBVIOUS
  <2>1. fed \in Nat /\ Len(buffered) \in Nat /\ Marks \in {0, 1}
    BY SttAssumption DEF IInv, Places, Marks
  <2>2. \A i \in 1..(fed - Len(buffered)) : i <= Len(queue) /\ queue[i] = Len(buffered) + i
    <3> SUFFICES ASSUME NEW i \in 1..(fed - Len(buffered))
                 PROVE  i <= Len(queue) /\ queue[i] = Len(buffered) + i
      OBVIOUS
    <3>1. Len(queue) = (fed - Len(buffered)) + Marks
      BY DEF IInv, Chunks
    <3>2. i \in 1..Len(queue) /\ i <= fed - Len(buffered)
      BY <2>1, <3>1
    <3> QED
      BY <3>2 DEF IInv, Chunks
  <2>3. stt = "posting" /\ primary \notin Detecting /\ stream # "broken" =>
            ~recording /\ Len(buffered) = fed
    BY DEF IInv, Ended, Places
  <2>4. \A i \in 1..Len(buffered) : buffered[i] = i
    BY DEF IInv, Chunks
  <2>5. stt = "posting" /\ (recording \/ Len(buffered) < fed) =>
            primary \in Detecting \/ stream = "broken"
    <3>1. CASE Len(buffered) = fed
      BY <2>1, <2>3, <3>1
    <3>2. CASE Len(buffered) # fed
      BY <2>3, <3>2
    <3> QED
      BY <3>1, <3>2
  <2> QED
    BY <2>2, <2>4, <2>5 DEF UtteranceKept
<1> QED
  BY Invariance, <1>1, PTL

-----------------------------------------------------------------------------
\* The promise to the pipeline

LEMMA InitPromise == Init => Promise!Init
BY DEF Init, SttInit, Idle, Promise!Init, Task

LEMMA StepPromise == ASSUME IInv, [Next]_vars PROVE [Promise!Next]_<<primary, Task, endOfTurn>>
<1> USE DEF Task, Promise!Next, Promise!Starts, Promise!Announces, Promise!ComesTo,
        Promise!Abandoned, Promise!Taken, Promise!Results
<1>1. CASE UNCHANGED sttVars
  BY <1>1 DEF sttVars
<1>2. CASE Starts
  BY <1>2 DEF Starts
<1>3. CASE Over
  <2>1. CASE stt = "none"
    BY <1>3, <2>1 DEF Over, IInv, Flags, Tasks
  <2>2. CASE stt # "none"
    BY <1>3, <2>2 DEF Over, IInv, Places
  <2> QED
    BY <2>1, <2>2
<1>4. CASE Feeds \/ Closes \/ Sending
  BY <1>4 DEF Feeds, Closes, Sending, SenderPulls, SenderSends, SenderEnds, SenderUnchanged
<1>5. CASE Connects \/ Hears \/ NovaDone \/ DrainPulls \/ DrainEnds
  BY <1>5 DEF Connects, Hears, NovaDone, DrainPulls, DrainEnds, Receiving, Received,
              ReceiverUnchanged, Drained
<1>6. CASE ConnectFails \/ TimesOut \/ ReceiverFails \/ HearsUnknown \/ SocketDrops
  BY <1>6 DEF ConnectFails, TimesOut, ReceiverFails, HearsUnknown, SocketDrops, Receiving,
              PrimaryFails, Received, ReceiverUnchanged
<1>7. CASE FluxEndsTurn
  BY <1>7 DEF FluxEndsTurn, Receiving, Received, ReceiverUnchanged
<1>8. CASE Returns \/ PostFails
  BY <1>8 DEF Returns, PostFails
<1>9. CASE PostAnswers
  BY <1>9 DEF PostAnswers, IInv, Flags
<1> QED
  BY <1>1, <1>2, <1>3, <1>4, <1>5, <1>6, <1>7, <1>8, <1>9, NextIsOfStt
     DEF SttStep, Feeding, NobodySpeaks, Abandons, Answering, vars

\* A transcription keeps its promise to the pipeline: one result, taken once,
\* and no end of a turn from another turn (base.py, STTProvider).
THEOREM PromiseIsKept == Spec => TranscriptionImplemented
<1>1. IInv /\ [Next]_vars => [Promise!Next]_<<primary, Task, endOfTurn>>
  BY StepPromise
<1> QED
  BY Invariance, InitPromise, <1>1, PTL DEF Spec, TranscriptionImplemented, Promise!Spec
=============================================================================
