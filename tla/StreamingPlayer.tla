-------------------------- MODULE StreamingPlayer --------------------------
(***************************************************************************)
(* brain/rabbit_brain/audio/streaming.py: the player of realtime mode.     *)
(* PortAudio's own thread pulls one block per period out of a buffer that  *)
(* the event loop fills; what it hands over is heard a device latency      *)
(* later.  The operators below are the player's methods, for the module    *)
(* that calls them, each with what it does to the player's variables.      *)
(*                                                                         *)
(* A period of the callback is the unit of time.  The buffer is a sequence *)
(* of frames, each named by the item of the reply it belongs to.  Every    *)
(* step that bumps _generation clears the buffer under the same lock, and  *)
(* write() tags with the current one, so that an entry of another          *)
(* generation never exists and generations need no variable.               *)
(***************************************************************************)
EXTENDS Integers, Sequences, FiniteSets

CONSTANTS
    Items,          \* the items of the replies, by number
    Block,          \* frames the device pulls per period
    Latency,        \* the device's latency, in periods (_latency_s)
    AssumedBuffer,  \* _ASSUMED_DEVICE_BUFFER_MS, in periods
    Debounce        \* _DRAIN_DEBOUNCE_S, in periods

ASSUME PlayerAssumption ==
    /\ Items \subseteq Nat \ {0}
    /\ Block \in Nat \ {0}
    /\ Latency \in Nat
    /\ AssumedBuffer \in Nat
    /\ Debounce \in Nat

None == -1

VARIABLES
    pending,        \* _pending: the frames queued, oldest first
    consumed,       \* _consumed_frames
    sinceConsumed,  \* the age of _last_consumed_at, or None
    playing,        \* _playing
    dryFor,         \* the age of _dry_since, or None
    emitting,       \* what the callback is about to _emit(), outside the lock
    posted,         \* the callbacks handed to the loop, oldest first
    handed          \* the device: handed[k][i] frames of i were handed over
                    \* up to k periods ago

player == <<pending, consumed, sinceConsumed, playing, dryFor, emitting, posted, handed>>

Lower(a, b) == IF a <= b THEN a ELSE b
DrainWindow == IF Latency >= Debounce THEN Latency ELSE Debounce
DeviceBuffer == IF Latency > 0 THEN Latency ELSE AssumedBuffer

\* An age grows up to the limit it is compared with.
Aged(age, limit) == IF age = None \/ age >= limit THEN age ELSE age + 1

\* What the room has heard of item i, and whether the device has run dry.  The
\* latency start() reads is taken to be the device's own: one that holds more than
\* it reports, or reports none and holds some, is not modelled.
Heard(i) == handed[Latency][i]
DeviceDry == handed[Latency] = handed[0]

PlayerInit ==
    /\ pending = <<>>
    /\ consumed = 0
    /\ sinceConsumed = None
    /\ playing = FALSE
    /\ dryFor = None
    /\ emitting = "nothing"
    /\ posted = <<>>
    /\ handed = [k \in 0..Latency |-> [i \in Items |-> 0]]

-----------------------------------------------------------------------------
\* PortAudio's thread

Filled == Lower(Block, Len(pending))
Taken(i) == Cardinality({j \in 1..Filled : pending[j] = i})

\* (mutant) the window of _note_fill forgets the device's own latency.
DrainsAtOnce == Filled = 0 /\ dryFor # None /\ playing /\ dryFor + 1 >= Debounce
Starts == Filled > 0 /\ ~playing
Drains == Filled = 0 /\ dryFor # None /\ playing /\ dryFor + 1 >= DrainWindow

\* _callback(), its locked part: one period passes.
Callback ==
    /\ emitting = "nothing"
    /\ pending' = SubSeq(pending, Filled + 1, Len(pending))
    /\ consumed' = consumed + Filled
    /\ sinceConsumed' = IF Filled > 0 THEN 0 ELSE Aged(sinceConsumed, DeviceBuffer)
    /\ playing' = ((playing \/ Filled > 0) /\ ~Drains)
    /\ dryFor' = IF Filled = Block \/ Drains THEN None
                 ELSE IF Filled > 0 \/ dryFor = None THEN 0
                 ELSE Aged(dryFor, DrainWindow)
    /\ emitting' = IF Starts THEN "started" ELSE IF Drains THEN "drained" ELSE "nothing"
    /\ handed' = [k \in 0..Latency |->
                     IF k = 0 THEN [i \in Items |-> handed[0][i] + Taken(i)]
                              ELSE handed[k - 1]]
    /\ UNCHANGED posted

\* _callback(), after the lock: call_soon_threadsafe().
Emit == /\ emitting # "nothing"
        /\ posted' = Append(posted, emitting)
        /\ emitting' = "nothing"
        /\ UNCHANGED <<pending, consumed, sinceConsumed, playing, dryFor, handed>>

-----------------------------------------------------------------------------
\* Called on the event loop

\* write() of n frames of item i.
Write(i, n) == /\ pending' = pending \o [j \in 1..n |-> i]
               /\ UNCHANGED <<consumed, sinceConsumed, playing, dryFor, emitting, posted, handed>>

\* (mutant) a new item makes the speaking indicator flap.
ResetAndFallSilent ==
    /\ pending' = <<>> /\ consumed' = 0
    /\ sinceConsumed' = None /\ dryFor' = None
    /\ playing' = FALSE
    /\ UNCHANGED <<emitting, posted, handed>>
ResetPosition ==
    /\ pending' = <<>> /\ consumed' = 0
    /\ sinceConsumed' = None /\ dryFor' = None
    /\ UNCHANGED <<playing, emitting, posted, handed>>

\* stop(), and the first part of aclose(), but for the age of the last frame.
CutPlayback ==
    /\ pending' = <<>>
    /\ playing' = FALSE /\ dryFor' = None
    /\ posted' = IF playing THEN Append(posted, "cut") ELSE posted
    /\ UNCHANGED <<consumed, emitting, handed>>

\* (mutant) only the buffer counts, not what the device still holds.
BufferedOnly == pending # <<>>
HasUnplayedAudio == \/ pending # <<>>
                    \/ sinceConsumed # None /\ sinceConsumed < DeviceBuffer

\* (mutant) what was handed over is taken for what was heard.
PlayedIncludingDevice == consumed
\* (mutant) the clamp at zero is missing.
PlayedUnclamped == consumed - Latency * Block
\* played_ms, in frames.
Played == IF consumed > Latency * Block THEN consumed - Latency * Block ELSE 0
-----------------------------------------------------------------------------
PlayerTypeOK ==
    /\ pending \in Seq(Items)
    /\ consumed \in Nat
    /\ sinceConsumed \in Nat \cup {None}
    /\ playing \in BOOLEAN
    /\ dryFor \in Nat \cup {None}
    /\ emitting \in {"nothing", "started", "drained"}
    /\ posted \in Seq({"started", "drained", "cut"})
    /\ handed \in [0..Latency -> [Items -> Nat]]
=============================================================================
