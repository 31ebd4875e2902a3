------------------------------ MODULE SttTurn ------------------------------
(***************************************************************************)
(* brain/rabbit_brain/stt: one transcription, from the frames that the     *)
(* pipeline feeds to the transcript.  A streaming provider (Flux, nova-3)  *)
(* sends them while it receives; when it fails a buffered one (Whisper)    *)
(* transcribes what was teed meanwhile, and, where the stream is going to  *)
(* be closed, the rest of it.  The local profile is a buffered provider    *)
(* alone.                                                                  *)
(*                                                                         *)
(* The sender is a task of its own: cancelling it while it awaits a chunk  *)
(* ends the generator it awaits, cancelling it while it sends does not.    *)
(***************************************************************************)
EXTENDS Integers, Sequences

CONSTANTS
    Primaries,       \* the profiles: "flux", "nova", "local"
    Frames,          \* frames a turn is fed at most
    SchemaThreshold, \* SCHEMA_MISMATCH_THRESHOLD
    SttFaults        \* what can go wrong, see below

\* connect: no connection; send: a send fails; message: a message that cannot be
\* read; drop: the socket closes early; buffered: the buffered provider fails.
SttFaultKinds == {"connect", "send", "message", "drop", "buffered"}

ASSUME SttAssumption ==
    /\ Primaries \subseteq {"flux", "nova", "local"}
    /\ Frames \in Nat \ {0}
    /\ SchemaThreshold \in Nat \ {0}
    /\ SttFaults \subseteq SttFaultKinds

VARIABLES
    primary,    \* the profile in use
    stt,        \* where transcribe() is, or its result
    recording,  \* the pipeline may still feed or close the stream
    fed,        \* the number of frames fed
    queue,      \* the queue of _open_chunk_stream(), frames by number
    stream,     \* its generator: open, ended by _CLOSE, or broken by a cancel
    buffered,   \* what the tee has kept, or the drain
    sender,     \* the sender's task
    partial,    \* the primary has a transcript so far
    known,      \* a TurnInfo has been recognised
    unknown,    \* messages that were not
    endOfTurn   \* on_end_of_turn has been called

wire == <<sender, partial, known, unknown>>
chunks == <<fed, queue, stream, buffered>>
sttVars == <<primary, stt, recording, chunks, wire, endOfTurn>>

Close == 0
Results == {"text", "silence", "failed"}
Streaming == {"connecting", "receiving", "closing"}
Transcribing == Streaming \cup {"draining", "posting"}
Detecting == {"flux"}

\* No turn: nothing of the last one is left.
Idle ==
    /\ stt = "none" /\ recording = FALSE
    /\ fed = 0 /\ queue = <<>> /\ stream = "open" /\ buffered = <<>>
    /\ sender = "none" /\ partial = FALSE /\ known = FALSE /\ unknown = 0
    /\ endOfTurn = FALSE

SttInit == primary \in Primaries /\ Idle

-----------------------------------------------------------------------------
\* The pipeline's side: _record_provider_endpointed(), _record_vad_endpointed()

\* The task is created and the recording begins; the local profile drains.
Starts ==
    /\ stt = "none"
    /\ stt' = IF primary = "local" THEN "draining" ELSE "connecting"
    /\ recording' = TRUE
    /\ UNCHANGED <<primary, chunks, wire, endOfTurn>>

\* (mutant) the end of the last turn is that of the next as well.
OverForGood ==
    /\ stt' = "none" /\ recording' = FALSE
    /\ fed' = 0 /\ queue' = <<>> /\ stream' = "open" /\ buffered' = <<>>
    /\ sender' = "none" /\ partial' = FALSE /\ known' = FALSE /\ unknown' = 0
    /\ UNCHANGED <<primary, endOfTurn>>
\* The turn leaves nothing behind: its task is done or has been awaited, and the
\* queue, the tee and the event are of this turn alone.
Over ==
    /\ stt' = "none" /\ recording' = FALSE
    /\ fed' = 0 /\ queue' = <<>> /\ stream' = "open" /\ buffered' = <<>>
    /\ sender' = "none" /\ partial' = FALSE /\ known' = FALSE /\ unknown' = 0
    /\ endOfTurn' = FALSE
    /\ UNCHANGED primary

\* Flux is fed until its task is done, the others until the VAD is content.
Feeds ==
    /\ recording /\ fed < Frames
    /\ primary \in Detecting => stt \in Transcribing
    /\ fed' = fed + 1
    /\ queue' = Append(queue, fed + 1)
    /\ UNCHANGED <<primary, stt, recording, stream, buffered, wire, endOfTurn>>

\* The utterance is over for the VAD; with Flux, only when the capture ends.
Closes ==
    /\ recording
    /\ IF primary \in Detecting THEN stt \in Transcribing ELSE fed > 0
    /\ recording' = FALSE
    /\ queue' = Append(queue, Close)
    /\ UNCHANGED <<primary, stt, fed, stream, buffered, wire, endOfTurn>>

\* Nobody spoke: the task is cancelled, and awaited.
NobodySpeaks ==
    /\ recording
    /\ primary \notin Detecting /\ fed = 0
    /\ Over

\* Past turn_timeout_s: the task is cancelled, and awaited.
Abandons ==
    /\ recording
    /\ primary \in Detecting /\ stt \in Transcribing
    /\ Over

-----------------------------------------------------------------------------
\* The connection, and the sender's task

Connects ==
    /\ stt = "connecting"
    /\ stt' = "receiving"
    /\ sender' = "pulling"
    /\ UNCHANGED <<primary, recording, chunks, partial, known, unknown, endOfTurn>>

\* sender.cancel(): a generator that is being awaited ends with it.  Nobody awaits
\* the sender, but the socket and the session are closed, with awaits, before
\* anything else happens to the chunks, and it is over by then.
SenderCancelled ==
    /\ sender' = "none"
    /\ stream' = IF sender = "pulling" /\ stream = "open" THEN "broken" ELSE stream

SenderUnchanged == UNCHANGED <<primary, stt, recording, fed, partial, known, unknown, endOfTurn>>

\* (mutant) a chunk is kept once it has been sent.
SenderPullsOnly ==
    /\ sender = "pulling"
    /\ queue # <<>> /\ Head(queue) # Close
    /\ queue' = Tail(queue)
    /\ sender' = "sending"
    /\ UNCHANGED <<stream, buffered>>
    /\ SenderUnchanged
\* The tee keeps a chunk before it hands it over.
SenderPulls ==
    /\ sender = "pulling"
    /\ queue # <<>> /\ Head(queue) # Close
    /\ queue' = Tail(queue)
    /\ buffered' = Append(buffered, Head(queue))
    /\ sender' = "sending"
    /\ UNCHANGED stream
    /\ SenderUnchanged

\* A send that fails ends the task, and nobody looks at it.
Sent(then) == {then} \cup (IF "send" \in SttFaults THEN {"failed"} ELSE {})

SenderSends ==
    /\ sender = "sending"
    /\ sender' \in Sent("pulling")
    /\ UNCHANGED <<queue, stream, buffered>>
    /\ SenderUnchanged

\* The stream ends; nova-3 is told so.
SenderEnds ==
    /\ sender = "pulling"
    /\ queue # <<>> /\ Head(queue) = Close
    /\ queue' = Tail(queue)
    /\ stream' = "ended"
    /\ sender' \in Sent("done")
    /\ UNCHANGED buffered
    /\ SenderUnchanged

-----------------------------------------------------------------------------
\* The receiver: _receive() of Flux and of nova-3

ReceiverUnchanged == UNCHANGED <<primary, recording, fed, queue, buffered>>

\* _receive() returns, the sender is cancelled and the socket closed.
Received ==
    /\ stt' = "closing"
    /\ SenderCancelled

\* The exception reaches FallbackSTT: the buffered provider is asked, after the
\* rest of the stream where the stream is going to be closed.
PrimaryFails ==
    /\ stt' = IF primary \in Detecting THEN "posting" ELSE "draining"
    /\ SenderCancelled
    /\ UNCHANGED <<partial, known, unknown, endOfTurn>>
    /\ ReceiverUnchanged

ConnectFails ==
    /\ "connect" \in SttFaults
    /\ stt = "connecting"
    /\ PrimaryFails

\* asyncio.timeout() covers the connection, the reception and the closing.
TimesOut ==
    /\ stt \in Streaming
    /\ PrimaryFails

ReceiverFails ==
    /\ "message" \in SttFaults
    /\ stt = "receiving"
    /\ PrimaryFails

Receiving(provider) == primary = provider /\ stt = "receiving"

\* A TurnInfo that does not end the turn; a Results of nova-3.
Hears ==
    /\ stt = "receiving"
    /\ partial' \in {partial, TRUE}
    /\ known' = (primary = "flux")
    /\ UNCHANGED <<stt, stream, sender, unknown, endOfTurn>>
    /\ ReceiverUnchanged

\* A message that is no TurnInfo: too many, and none that is, are a mismatch.
HearsUnknown ==
    /\ "message" \in SttFaults
    /\ Receiving("flux")
    /\ IF ~known /\ unknown + 1 >= SchemaThreshold
       THEN PrimaryFails
       ELSE /\ unknown' = IF known THEN unknown ELSE unknown + 1
            /\ UNCHANGED <<stt, stream, sender, partial, known, endOfTurn>>
            /\ ReceiverUnchanged

FluxEndsTurn ==
    /\ Receiving("flux")
    /\ endOfTurn' = TRUE
    /\ partial' \in {partial, TRUE} /\ known' = TRUE
    /\ Received
    /\ UNCHANGED unknown
    /\ ReceiverUnchanged

\* Metadata: nova-3 has processed the stream it was told the end of.
NovaDone ==
    /\ Receiving("nova")
    /\ sender = "done"
    /\ Received
    /\ UNCHANGED <<partial, known, unknown, endOfTurn>>
    /\ ReceiverUnchanged

\* The socket closes early: what was heard so far is the result, unless Flux
\* has sent nothing but what was not recognised.
SocketDrops ==
    /\ "drop" \in SttFaults
    /\ stt = "receiving"
    /\ IF primary = "flux" /\ ~known /\ unknown > 0
       THEN PrimaryFails
       ELSE /\ Received
            /\ UNCHANGED <<partial, known, unknown, endOfTurn>>
            /\ ReceiverUnchanged

Returns ==
    /\ stt = "closing"
    /\ stt' = IF partial THEN "text" ELSE "silence"
    /\ UNCHANGED <<primary, recording, chunks, wire, endOfTurn>>

-----------------------------------------------------------------------------
\* The buffered provider

Drained == UNCHANGED <<primary, recording, fed, wire, endOfTurn>>

DrainPulls ==
    /\ stt = "draining" /\ stream = "open"
    /\ queue # <<>> /\ Head(queue) # Close
    /\ queue' = Tail(queue)
    /\ buffered' = Append(buffered, Head(queue))
    /\ UNCHANGED <<stt, stream>>
    /\ Drained

\* (mutant) the end of the stream is only ever read from the queue.
CloseIsNext == queue # <<>> /\ Head(queue) = Close
\* A generator that has ended, or was broken, ends the drain at once.
StreamOver == stream # "open" \/ (queue # <<>> /\ Head(queue) = Close)

DrainEnds ==
    /\ stt = "draining"
    /\ StreamOver
    /\ stt' = "posting"
    /\ stream' = IF stream = "open" THEN "ended" ELSE stream
    /\ queue' = IF stream = "open" THEN Tail(queue) ELSE queue
    /\ UNCHANGED buffered
    /\ Drained

\* Its result is the end of a turn that the primary was to end.
PostAnswers ==
    /\ stt = "posting"
    /\ stt' \in {"text", "silence"}
    /\ endOfTurn' = (endOfTurn \/ primary \in Detecting)
    /\ UNCHANGED <<primary, recording, chunks, wire>>

PostFails ==
    /\ "buffered" \in SttFaults
    /\ stt = "posting"
    /\ stt' = "failed"
    /\ UNCHANGED <<primary, recording, chunks, wire, endOfTurn>>

-----------------------------------------------------------------------------
Feeding == Feeds \/ Closes \/ NobodySpeaks \/ Abandons

Sending == SenderPulls \/ SenderSends \/ SenderEnds

Answering == \/ Connects \/ ConnectFails \/ TimesOut \/ ReceiverFails
             \/ Hears \/ HearsUnknown \/ FluxEndsTurn \/ NovaDone \/ SocketDrops
             \/ Returns \/ DrainPulls \/ DrainEnds \/ PostAnswers \/ PostFails

SttStep == Feeding \/ Sending \/ Answering

SttTypeOK ==
    /\ primary \in Primaries
    /\ stt \in {"none"} \cup Transcribing \cup Results
    /\ recording \in BOOLEAN
    /\ fed \in 0..Frames
    /\ queue \in Seq(0..Frames)
    /\ stream \in {"open", "ended", "broken"}
    /\ buffered \in Seq(1..Frames)
    /\ sender \in {"none", "pulling", "sending", "failed", "done"}
    /\ partial \in BOOLEAN /\ known \in BOOLEAN
    /\ unknown \in 0..SchemaThreshold
    /\ endOfTurn \in BOOLEAN
-----------------------------------------------------------------------------
\* Properties

\* Whatever fails and whenever, nothing that was fed is lost, repeated or out
\* of order: the tee and the drain have kept the utterance from its first frame,
\* and the queue holds the rest.  A buffered provider that is asked lacks that
\* rest only behind Flux, where the drain is left out on purpose, or where the
\* cancelled sender has ended the stream under the drain (fallback.py:39-64).
UtteranceKept ==
    /\ \A i \in 1..Len(buffered) : buffered[i] = i
    /\ \A i \in 1..(fed - Len(buffered)) : i <= Len(queue) /\ queue[i] = Len(buffered) + i
    /\ stt = "posting" /\ (recording \/ Len(buffered) < fed) =>
           primary \in Detecting \/ stream = "broken"

\* "on failure the fallback gets the complete utterance" (fallback.py:3): where
\* the stream is going to be closed, it is asked with every frame, up to the last.
\* A sender that awaits a chunk when the primary fails takes the rest with it.
FallbackHearsAll ==
    stt = "posting" /\ primary \notin Detecting => ~recording /\ Len(buffered) = fed

\* The promise to the pipeline, see Transcription.
Task == IF stt \in Transcribing THEN "running" ELSE stt
Promise == INSTANCE Transcription WITH provider <- primary, task <- Task
TranscriptionImplemented == Promise!Spec
=============================================================================
