--------------------------- MODULE BodyController ---------------------------
(***************************************************************************)
(* brain/rabbit_brain/body/controller.py: the single owner of the body.    *)
(* submit() and interrupt() are called by the pipeline, the agent and the  *)
(* feedback tasks; two consumer loops, one for gestures and one for audio, *)
(* drain two priority queues into the OpenJabNab adapter (whose lock lets  *)
(* one HTTP request through at a time) or, for audio, into a local device. *)
(*                                                                         *)
(* Everything runs on one asyncio loop, so an action is what a coroutine   *)
(* does between two awaits.  The loops return to their top in a step of    *)
(* their own, which only adds interleavings.                               *)
(***************************************************************************)
EXTENDS Integers, FiniteSets

CONSTANTS
    Parts,      \* what a command can move or light: "ears" and the LEDs
    Values,     \* positions and colours
    Unknown,    \* the tracked value of a part nobody has commanded yet
    Requests,   \* the calls to submit()
    Runs,       \* the runs of the program: each has its backend for audio,
                \* its callers and what goes wrong around it
    Below,      \* the argument of interrupt()
    MaxSubmits, \* bound: calls to submit()
    MaxTime     \* bound: ticks of the clock

Never == -1     \* no deadline

Kinds == {"ears", "leds", "raw", "play", "say"}   \* raw: chor, sleep, wake
Coalescable == {"ears", "leds"}
AudioKinds == {"play", "say"}

\* A target assigns values to some of the parts; the others are untouched.
Targets == UNION {[S -> Values] : S \in SUBSET Parts}

\* refused: a call fails before it reaches the body; lost: the body obeys but
\* the reply does not arrive; device: a local playback task raises; estimate:
\* the rabbit may still be talking when the timed estimate is up.
FaultKinds == {"refused", "lost", "device", "estimate"}

ASSUME ConstantsAssumption ==
    /\ Requests \subseteq [kind: Kinds, target: Targets, pulse: BOOLEAN,
                           priority: Nat, ttl: Nat \cup {Never}]
    /\ Runs \subseteq [localAudio: BOOLEAN, callers: SUBSET Requests,
                       faults: SUBSET FaultKinds]
    /\ Below \in Nat
    /\ MaxSubmits \in Nat
    /\ MaxTime \in Nat
    /\ Unknown \notin Values

VARIABLES
    now,             \* time.monotonic()
    localAudio,      \* _audio_player is not None; fixed for a run
    callers,         \* the calls to submit() of this run
    faults,          \* what can go wrong in this run
    nextSeq,         \* _seq
    motionHeap,      \* _motion_heap, as a set
    audioPending,    \* _audio_pending, as a set
    motionReady,     \* _motion_ready.is_set()
    audioReady,      \* _audio_ready.is_set()
    dropped,         \* _dropped
    latest,          \* _latest; 0 where the dict has no key
    outstanding,     \* _outstanding
    idle,            \* _idle.is_set()
    believed,        \* _state.ears and _state.leds
    motionAt,        \* where _motion_loop is suspended
    moving,          \* the entry it is executing, as a set of at most one
    motionApplied,   \* the body has obeyed the request in flight
    audioAt,         \* where _audio_loop is suspended
    sending,         \* the audio entry in its adapter round-trip
    audioApplied,    \* the body has obeyed the request in flight
    audioInflight,   \* _audio_inflight
    currentPlayback, \* _current_playback, as a set of at most one handle
    shown,           \* the body: what each part really shows
    speaker          \* the body: the audio entries that are sounding

clock == <<now, localAudio, callers, faults>>
queues == <<nextSeq, motionHeap, audioPending, dropped, latest>>
events == <<motionReady, audioReady>>
accounts == <<outstanding, idle>>
motionLoop == <<motionAt, moving, motionApplied, believed>>
audioLoop == <<audioAt, sending, audioApplied, audioInflight, currentPlayback>>
body == <<shown, speaker>>
vars == <<clock, queues, events, accounts, motionLoop, audioLoop, body>>

-----------------------------------------------------------------------------
\* Entries and the queues

\* The _Entry that submit() makes of request r under sequence number s at t.
EntryOf(r, s, t) ==
    [seq |-> s, kind |-> r.kind, target |-> r.target, pulse |-> r.pulse,
     priority |-> r.priority,
     deadline |-> IF r.ttl = Never THEN Never ELSE t + r.ttl]

Entry == {EntryOf(r, s, t) : r \in Requests, s \in 1..MaxSubmits, t \in 0..MaxTime}

Priorities == {r.priority : r \in Requests}
CoalescingKeys == Coalescable \X Priorities
KeyOf(e) == <<e.kind, e.priority>>

\* (mutant) first come, first served.
EarlierBySeq(e, f) == e.seq < f.seq

\* _Entry.__lt__
Earlier(e, f) == \/ e.priority > f.priority
                 \/ e.priority = f.priority /\ e.seq < f.seq

Superseded(e) == e.kind \in Coalescable /\ latest[KeyOf(e)] # e.seq
\* (mutant) the deadline is compared one tick too late.
ExpiredLate(e) == e.deadline # Never /\ now > e.deadline + 1
Expired(e) == e.deadline # Never /\ now > e.deadline
\* (mutant) the set of dropped entries is not consulted.
LiveEvenDropped(e) == ~Superseded(e) /\ ~Expired(e)
Live(e) == e.seq \notin dropped /\ ~Superseded(e) /\ ~Expired(e)

\* What _pop_live(heap) returns, as a set of at most one entry, and the
\* entries it pops and throws away on the way there.
LiveIn(heap) == {e \in heap : Live(e)}
FirstLive(heap) == {e \in LiveIn(heap) : \A f \in LiveIn(heap) \ {e} : Earlier(e, f)}
PassedOver(heap) == {f \in heap : \A e \in LiveIn(heap) : Earlier(f, e)}
\* Each of these is finished, except those interrupt() has finished already.
\* (mutant) an entry that interrupt() finished is finished again when it is popped.
FinishedTwice(heap) == PassedOver(heap)
\* (mutant) an expired entry is dropped without being finished.
ExpiredUnfinished(heap) ==
    {f \in PassedOver(heap) : f.seq \notin dropped /\ ~Expired(f)}
FinishedByPop(heap) == {f \in PassedOver(heap) : f.seq \notin dropped}
Seqs(S) == {e.seq : e \in S}

\* _finish_one(), n times.
FinishMany(n) == /\ outstanding' = outstanding - n
                 /\ idle' = (idle \/ (n > 0 /\ outstanding = n))

\* dict.update(): the target's parts over the old ones.
Overlay(old, target) ==
    [p \in Parts |-> IF p \in DOMAIN target THEN target[p] ELSE old[p]]

-----------------------------------------------------------------------------
Init ==
    /\ now = 0
    /\ \E run \in Runs : /\ localAudio = run.localAudio
                         /\ callers = run.callers
                         /\ faults = run.faults
    /\ nextSeq = 1
    /\ motionHeap = {} /\ audioPending = {}
    /\ motionReady = FALSE /\ audioReady = FALSE
    /\ dropped = {}
    /\ latest = [k \in CoalescingKeys |-> 0]
    /\ outstanding = 0 /\ idle = TRUE
    /\ believed = [p \in Parts |-> Unknown]
    /\ motionAt = "top" /\ moving = {} /\ motionApplied = FALSE
    /\ audioAt = "top" /\ sending = {} /\ audioApplied = FALSE
    /\ audioInflight = FALSE
    /\ currentPlayback = {}
    /\ shown \in [Parts -> Values]
    /\ speaker = {}

Tick == /\ now < MaxTime
        /\ now' = now + 1
        /\ UNCHANGED <<localAudio, callers, faults, queues, events, accounts,
                        motionLoop, audioLoop, body>>

-----------------------------------------------------------------------------
\* The public operations

Submit(r) ==
    LET e == EntryOf(r, nextSeq, now) IN
    /\ r \in callers
    /\ nextSeq <= MaxSubmits
    /\ nextSeq' = nextSeq + 1
    /\ latest' = IF r.kind \in Coalescable
                 THEN [latest EXCEPT ![KeyOf(e)] = e.seq]
                 ELSE latest
    /\ outstanding' = outstanding + 1
    /\ idle' = FALSE
    /\ IF r.kind \in AudioKinds
       THEN /\ audioPending' = audioPending \cup {e}
            /\ audioReady' = TRUE
            /\ UNCHANGED <<motionHeap, motionReady>>
       ELSE /\ motionHeap' = motionHeap \cup {e}
            /\ motionReady' = TRUE
            /\ UNCHANGED <<audioPending, audioReady>>
    /\ UNCHANGED <<clock, dropped, motionLoop, audioLoop, body>>

\* (mutant) a second interrupt() drops the same entries again.
InterruptedAgain == {e \in motionHeap \cup audioPending : e.priority < Below}

\* The entries interrupt() drops.
Interrupted == {e \in motionHeap \cup audioPending :
                   e.priority < Below /\ e.seq \notin dropped}

\* The cancel() that interrupt() schedules for a local playback makes its task
\* end early, which PlaybackEnds allows at any moment; an OJN handle cannot be
\* cancelled.
Interrupt ==
    /\ dropped' = dropped \cup Seqs(Interrupted)
    /\ FinishMany(Cardinality(Interrupted))
    /\ UNCHANGED <<clock, nextSeq, motionHeap, audioPending, latest, events,
                   motionLoop, audioLoop, body>>

\* (mutant) as it was before the hardware round: blind to the round-trip.
AudioBusyBlind == \/ audioPending # {}
                  \/ \E h \in currentPlayback :
                         ~(h.device = "timed" /\ h.status = "done")
AudioBusy == \/ audioPending # {}
             \/ audioInflight
             \/ \E h \in currentPlayback :
                    ~(h.device = "timed" /\ h.status = "done")

-----------------------------------------------------------------------------
\* _motion_loop and _execute_motion

\* Every part of the target is already believed to show it.
AlreadyShown(e) == \A p \in DOMAIN e.target : believed[p] = e.target[p]

Redundant(e) == \/ e.kind = "ears" /\ AlreadyShown(e)
                \/ e.kind = "leds" /\ AlreadyShown(e) /\ ~e.pulse

\* _pop_live returned None.
MotionNothing ==
    /\ motionAt = "top" /\ motionReady
    /\ LiveIn(motionHeap) = {}
    /\ motionReady' = FALSE
    /\ motionHeap' = {}
    /\ dropped' = dropped \ Seqs(motionHeap)
    /\ FinishMany(Cardinality(FinishedByPop(motionHeap)))
    /\ UNCHANGED <<clock, nextSeq, audioPending, latest, audioReady,
                   motionLoop, audioLoop, body>>

\* A redundant command is finished on the spot.
MotionSuppress(e) ==
    /\ motionAt = "top" /\ motionReady
    /\ e \in FirstLive(motionHeap)
    /\ Redundant(e)
    /\ motionHeap' = motionHeap \ (PassedOver(motionHeap) \cup {e})
    /\ dropped' = dropped \ Seqs(PassedOver(motionHeap))
    /\ FinishMany(Cardinality(FinishedByPop(motionHeap)) + 1)
    /\ UNCHANGED <<clock, nextSeq, audioPending, latest, events,
                   motionLoop, audioLoop, body>>

\* The adapter call begins: its request goes out, or waits for _http_lock.
MotionStart(e) ==
    /\ motionAt = "top" /\ motionReady
    /\ e \in FirstLive(motionHeap)
    /\ ~Redundant(e)
    /\ motionHeap' = motionHeap \ (PassedOver(motionHeap) \cup {e})
    /\ dropped' = dropped \ Seqs(PassedOver(motionHeap))
    /\ FinishMany(Cardinality(FinishedByPop(motionHeap)))
    /\ moving' = {e}
    /\ motionAt' = IF audioAt = "http" THEN "lock" ELSE "http"
    /\ motionApplied' = FALSE
    /\ UNCHANGED <<clock, nextSeq, audioPending, latest, events, believed,
                   audioLoop, body>>

\* The body obeys the request.
BodyMoves ==
    /\ motionAt = "http" /\ ~motionApplied
    /\ motionApplied' = TRUE
    /\ \E e \in moving : shown' = Overlay(shown, e.target)
    /\ UNCHANGED <<clock, queues, events, accounts, motionAt, moving, believed,
                   audioLoop, speaker>>

\* asyncio.Lock is fair: it passes to the loop that waits for it.
HandLockToAudio == audioAt' = IF audioAt = "lock" THEN "http" ELSE audioAt
HandLockToMotion == motionAt' = IF motionAt = "lock" THEN "http" ELSE motionAt

\* The reply arrives; only now is the tracked state updated.
MotionReply ==
    /\ motionAt = "http" /\ motionApplied
    /\ \E e \in moving :
           believed' = IF e.kind \in Coalescable
                       THEN Overlay(believed, e.target) ELSE believed
    /\ motionAt' = "top" /\ moving' = {} /\ motionApplied' = FALSE
    /\ HandLockToAudio
    /\ FinishMany(1)
    /\ UNCHANGED <<clock, queues, events, sending, audioApplied, audioInflight,
                   currentPlayback, body>>

\* (mutant) the tracked state is updated even when the call raised.
MotionFailsBelieving ==
    /\ motionAt = "http"
    /\ IF motionApplied THEN "lost" \in faults ELSE "refused" \in faults
    /\ \E e \in moving : believed' = Overlay(believed, e.target)
    /\ motionAt' = "top" /\ moving' = {} /\ motionApplied' = FALSE
    /\ HandLockToAudio
    /\ FinishMany(1)
    /\ UNCHANGED <<clock, queues, events, sending, audioApplied, audioInflight,
                   currentPlayback, body>>

\* The adapter call raises: logged, and the command is finished all the same.
MotionFails ==
    /\ motionAt = "http"
    /\ IF motionApplied THEN "lost" \in faults ELSE "refused" \in faults
    /\ motionAt' = "top" /\ moving' = {} /\ motionApplied' = FALSE
    /\ HandLockToAudio
    /\ FinishMany(1)
    /\ UNCHANGED <<clock, queues, events, believed, sending, audioApplied,
                   audioInflight, currentPlayback, body>>

-----------------------------------------------------------------------------
\* _audio_loop

Handle == [entry: Entry, device: {"timed", "local"}, status: {"on", "done", "failed"}]

\* (mutant) the event is cleared once the playback is over.
AudioClearsAndSleeps(h) ==
    /\ audioAt = "top" /\ audioReady
    /\ h \in currentPlayback /\ h.status = "done"
    /\ currentPlayback' = {}
    /\ audioReady' = FALSE
    /\ UNCHANGED <<clock, queues, motionReady, accounts, motionLoop, audioAt,
                   sending, audioApplied, audioInflight, body>>

\* wait_finished() returned.
AudioClears(h) ==
    /\ audioAt = "top" /\ audioReady
    /\ h \in currentPlayback /\ h.status = "done"
    /\ currentPlayback' = {}
    /\ UNCHANGED <<clock, queues, events, accounts, motionLoop, audioAt,
                   sending, audioApplied, audioInflight, body>>

\* wait_finished() raised what the playback task raised; nothing catches it,
\* so the loop is over (and run() with it), the handle still in place.
AudioLoopDies(h) ==
    /\ audioAt = "top" /\ audioReady
    /\ h \in currentPlayback /\ h.status = "failed"
    /\ audioAt' = "dead"
    /\ UNCHANGED <<clock, queues, events, accounts, motionLoop,
                   sending, audioApplied, audioInflight, currentPlayback, body>>

\* _pop_live returned None.
AudioNothing ==
    /\ audioAt = "top" /\ audioReady /\ currentPlayback = {}
    /\ LiveIn(audioPending) = {}
    /\ audioReady' = FALSE
    /\ audioPending' = {}
    /\ dropped' = dropped \ Seqs(audioPending)
    /\ FinishMany(Cardinality(FinishedByPop(audioPending)))
    /\ UNCHANGED <<clock, nextSeq, motionHeap, latest, motionReady,
                   motionLoop, audioLoop, body>>

\* (mutant) the next utterance does not wait for the current one.
PopAudioAtOnce(e) ==
    /\ audioAt = "top" /\ audioReady
    /\ e \in FirstLive(audioPending)
    /\ audioPending' = audioPending \ (PassedOver(audioPending) \cup {e})
    /\ dropped' = dropped \ Seqs(PassedOver(audioPending))

PopAudio(e) ==
    /\ audioAt = "top" /\ audioReady /\ currentPlayback = {}
    /\ e \in FirstLive(audioPending)
    /\ audioPending' = audioPending \ (PassedOver(audioPending) \cup {e})
    /\ dropped' = dropped \ Seqs(PassedOver(audioPending))

Locally(e) == localAudio /\ e.kind = "play"

\* LocalAudioPlayer.play_audio() awaits nothing: a missing file raises, or the
\* playback task is under way, within the step.
AudioStartLocal(e) ==
    /\ PopAudio(e)
    /\ Locally(e)
    /\ FinishMany(Cardinality(FinishedByPop(audioPending)) + 1)
    /\ \/ /\ "refused" \in faults
          /\ UNCHANGED <<currentPlayback, speaker>>
       \/ /\ currentPlayback' = {[entry |-> e, device |-> "local", status |-> "on"]}
          /\ speaker' = speaker \cup {e}
    /\ UNCHANGED <<clock, nextSeq, motionHeap, latest, events, motionLoop,
                   audioAt, sending, audioApplied, audioInflight, shown>>

\* The adapter's play_audio() or say() begins.
AudioStart(e) ==
    /\ PopAudio(e)
    /\ ~Locally(e)
    /\ FinishMany(Cardinality(FinishedByPop(audioPending)))
    /\ sending' = {e}
    /\ audioInflight' = TRUE
    /\ audioApplied' = FALSE
    /\ audioAt' = IF motionAt = "http" THEN "lock" ELSE "http"
    /\ UNCHANGED <<clock, nextSeq, motionHeap, latest, events, motionLoop,
                   currentPlayback, body>>

\* The rabbit starts to fetch and play.
RabbitSpeaks ==
    /\ audioAt = "http" /\ ~audioApplied
    /\ audioApplied' = TRUE
    /\ speaker' = speaker \cup sending
    /\ UNCHANGED <<clock, queues, events, accounts, motionLoop, audioAt, sending,
                   audioInflight, currentPlayback, shown>>

AudioReply ==
    /\ audioAt = "http" /\ audioApplied
    /\ currentPlayback' = {[entry |-> e, device |-> "timed", status |-> "on"] : e \in sending}
    /\ audioAt' = "top" /\ sending' = {} /\ audioApplied' = FALSE
    /\ audioInflight' = FALSE
    /\ HandLockToMotion
    /\ FinishMany(1)
    /\ UNCHANGED <<clock, queues, events, moving, motionApplied, believed, body>>

\* (mutant) the flag is reset only on success.
AudioFailsInflight ==
    /\ audioAt = "http"
    /\ IF audioApplied THEN "lost" \in faults ELSE "refused" \in faults
    /\ audioAt' = "top" /\ sending' = {} /\ audioApplied' = FALSE
    /\ HandLockToMotion
    /\ FinishMany(1)
    /\ UNCHANGED <<clock, queues, events, moving, motionApplied, believed,
                   audioInflight, currentPlayback, body>>

AudioFails ==
    /\ audioAt = "http"
    /\ IF audioApplied THEN "lost" \in faults ELSE "refused" \in faults
    /\ audioAt' = "top" /\ sending' = {} /\ audioApplied' = FALSE
    /\ audioInflight' = FALSE
    /\ HandLockToMotion
    /\ FinishMany(1)
    /\ UNCHANGED <<clock, queues, events, moving, motionApplied, believed,
                   currentPlayback, body>>

-----------------------------------------------------------------------------
\* Playback

\* The rabbit falls silent; no callback tells the program.
RabbitQuiet(e) ==
    /\ e \in speaker
    /\ \A h \in currentPlayback : h.entry = e => h.device = "timed"
    /\ speaker' = speaker \ {e}
    /\ UNCHANGED <<clock, queues, events, accounts, motionLoop, audioLoop, shown>>

\* TimedPlaybackHandle._run_timer: the estimate plus the guard has elapsed.
TimerFires(h) ==
    /\ h \in currentPlayback /\ h.device = "timed" /\ h.status = "on"
    /\ "estimate" \in faults \/ h.entry \notin speaker
    /\ currentPlayback' = {[h EXCEPT !.status = "done"]}
    /\ UNCHANGED <<clock, queues, events, accounts, motionLoop, audioAt, sending,
                   audioApplied, audioInflight, body>>

\* LocalAudioPlayer._play: to the end of the files, or until cancelled, or
\* with an exception from the device or the decoder.
PlaybackEnds(h, outcome) ==
    /\ h \in currentPlayback /\ h.device = "local" /\ h.status = "on"
    /\ outcome = "failed" => "device" \in faults
    /\ currentPlayback' = {[h EXCEPT !.status = outcome]}
    /\ speaker' = speaker \ {h.entry}
    /\ UNCHANGED <<clock, queues, events, accounts, motionLoop, audioAt, sending,
                   audioApplied, audioInflight, shown>>

-----------------------------------------------------------------------------
MotionLoop == \/ MotionNothing
              \/ \E e \in motionHeap : MotionSuppress(e) \/ MotionStart(e)

AudioLoop == \/ AudioNothing
             \/ \E h \in currentPlayback : AudioClears(h) \/ AudioLoopDies(h)
             \/ \E e \in audioPending : AudioStartLocal(e) \/ AudioStart(e)

PlaybackOver == \/ \E h \in currentPlayback : TimerFires(h)
                \/ \E h \in currentPlayback, o \in {"done", "failed"} : PlaybackEnds(h, o)

Next == \/ Tick
        \/ \E r \in Requests : Submit(r)
        \/ Interrupt
        \/ MotionLoop
        \/ BodyMoves \/ MotionReply \/ MotionFails
        \/ AudioLoop
        \/ RabbitSpeaks \/ AudioReply \/ AudioFails
        \/ \E e \in speaker : RabbitQuiet(e)
        \/ PlaybackOver

Spec == Init /\ [][Next]_vars

\* The event loop runs every ready coroutine, and the request a loop awaits is
\* answered or times out; audio ends.  Callers and the clock owe nothing.
Fairness == /\ WF_vars(MotionLoop \/ BodyMoves \/ MotionReply \/ MotionFails)
            /\ WF_vars(AudioLoop \/ RabbitSpeaks \/ AudioReply \/ AudioFails)
            /\ WF_vars(\E e \in speaker : RabbitQuiet(e))
            /\ WF_vars(PlaybackOver)

FairSpec == Spec /\ Fairness
-----------------------------------------------------------------------------
\* Properties

TypeOK ==
    /\ now \in 0..MaxTime
    /\ localAudio \in BOOLEAN /\ callers \subseteq Requests /\ faults \subseteq FaultKinds
    /\ nextSeq \in 1..(MaxSubmits + 1)
    /\ motionHeap \subseteq Entry /\ audioPending \subseteq Entry
    /\ motionReady \in BOOLEAN /\ audioReady \in BOOLEAN
    /\ dropped \subseteq 1..MaxSubmits
    /\ latest \in [CoalescingKeys -> 0..MaxSubmits]
    /\ outstanding \in Nat /\ idle \in BOOLEAN
    /\ believed \in [Parts -> Values \cup {Unknown}]
    /\ motionAt \in {"top", "lock", "http"}
    /\ moving \subseteq Entry /\ motionApplied \in BOOLEAN
    /\ audioAt \in {"top", "lock", "http", "dead"}
    /\ sending \subseteq Entry /\ audioApplied \in BOOLEAN
    /\ audioInflight \in BOOLEAN
    /\ currentPlayback \subseteq Handle
    /\ shown \in [Parts -> Values]
    /\ speaker \subseteq Entry

\* wait_idle() is exact: the counter is the number of commands accepted and
\* neither executed nor dropped, and the event is set just when there are none,
\* however submits, interrupts, coalescing, deadlines and failures interleave
\* (an entry that interrupt() finished must not be finished again when popped).
Unfinished == {e \in motionHeap \cup audioPending : e.seq \notin dropped}
                  \cup moving \cup sending
IdleExact == /\ outstanding = Cardinality(Unfinished)
             /\ idle <=> Unfinished = {}

\* Neither loop sleeps on its event while it has work: something queued, a
\* request in flight, or a playback it has yet to clear.
NoLostWakeup ==
    /\ motionHeap # {} => motionReady
    /\ audioPending \cup sending # {} \/ currentPlayback # {} => audioReady

\* The audio commands the controller is serving, from the pop to the end of
\* the playback.
AudioServing == sending \cup {h.entry : h \in {g \in currentPlayback : g.status = "on"}}

MotionLane == INSTANCE CommandLane WITH
                  Entries <- Entry,
                  queued <- {e \in motionHeap : e.seq \notin dropped},
                  serving <- moving,
                  ticket <- nextSeq

AudioLane == INSTANCE CommandLane WITH
                 Entries <- Entry,
                 queued <- {e \in audioPending : e.seq \notin dropped},
                 serving <- AudioServing,
                 ticket <- nextSeq

\* Each lane keeps the promise of CommandLane: one command at a time, in
\* priority order, none twice and none that interrupt() dropped.
MotionLaneImplemented == MotionLane!Spec
AudioLaneImplemented == AudioLane!Spec

\* What AudioGate tells of the commands without a handle, those that
\* interrupt() marked and no pop has thrown away yet included, and of the playback.
Owed == Cardinality(audioPending \cup sending)

HandleTells(h) ==
    IF h.status = "failed" THEN "stuck"
    ELSE IF h.status = "done" THEN IF h.device = "local" THEN "guard" ELSE "none"
    ELSE IF h.device = "local" \/ h.entry \in speaker THEN "sounding" ELSE "guard"

Playing ==
    IF audioApplied THEN "starting"
    ELSE IF currentPlayback = {} THEN "none"
    ELSE HandleTells(CHOOSE h \in currentPlayback : TRUE)

Gate == INSTANCE AudioGate WITH
            reliable <- faults \cap {"lost", "estimate"} = {},
            owed <- Owed,
            playing <- Playing,
            busy <- AudioBusy

\* audio_busy is what the pipeline takes it for: closed from submit() until the
\* command is discarded or its sound (estimated to be) over, open otherwise, with
\* no gap on the way (the round-trip between the pop and the handle once was one).
AudioGateImplemented == Gate!Spec

\* From submit() until the playback is over or the command dropped the half-duplex
\* gate is closed.
GateCovers == {e \in audioPending : e.seq \notin dropped} \cup AudioServing # {}
                  => AudioBusy

\* Whatever is sounding is the one command the audio lane is serving, and the
\* gate knows: the microphone never hears the rabbit.  Needs replies that are
\* not lost and estimates that are long enough.
HalfDuplex == faults \cap {"lost", "estimate"} = {} =>
                  /\ speaker \subseteq AudioServing
                  /\ speaker # {} => AudioBusy

\* What the controller believes a part shows is what it shows, unless a raw
\* choreography can move that part; so a suppressed command was redundant.
\* Needs replies that are not lost.
RawParts == UNION {DOMAIN r.target : r \in {q \in Requests : q.kind = "raw"}}
BeliefSound == "lost" \notin faults /\ motionAt # "http" =>
                   \A p \in Parts \ RawParts : believed[p] \in {Unknown, shown[p]}

\* The commands that have reached a body: their request is out, or they play.
Fired == (IF motionAt = "http" THEN moving ELSE {})
             \cup (IF audioAt = "http" THEN sending ELSE {})
             \cup {h.entry : h \in currentPlayback}

\* The commands popped in time whose request waits for the transport.
AwaitsLock == (IF motionAt = "lock" THEN moving ELSE {})
                  \cup (IF audioAt = "lock" THEN sending ELSE {})

\* "commands past their deadline are dropped, never fired late"
\* (controller.py:14), except one that waits for the other loop's request: the
\* deadline is not looked at again behind _http_lock.  It is late by that one
\* request only, as nothing else fires before it.
LateByOneRequest ==
    [][/\ \A e \in Fired' \ Fired :
              e.deadline # Never /\ now > e.deadline => e \in AwaitsLock
       /\ AwaitsLock # {} => Fired' \ Fired \subseteq AwaitsLock]_vars

\* Once the callers pause, the gate reopens ("a stuck audio_busy can never
\* wedge the pipeline forever", pipeline.py:610) ...
GateReopens == AudioBusy ~> ~AudioBusy

\* ... at least as long as no local playback raises, and then wait_idle()
\* returns, whatever calls fail, go unanswered or are superseded.
GateReopensInTime == "device" \notin faults => GateReopens
IdleReturns == "device" \notin faults => (~idle ~> idle)
-----------------------------------------------------------------------------
\* The inductive invariant of the proofs: what the loops' control states say
\* of the other variables, and that sequence numbers tell entries apart.

Queued == motionHeap \cup audioPending

QueuesOK ==
    /\ IsFiniteSet(Queued)
    /\ \A e \in motionHeap : e.kind \notin AudioKinds
    /\ \A e \in audioPending : e.kind \in AudioKinds
    /\ \A e, f \in Queued : e.seq = f.seq => e = f
    /\ \A e \in Queued : e.seq < nextSeq
    /\ \A n \in dropped : n < nextSeq

LoopsOK ==
    /\ \/ motionAt = "top" /\ moving = {}
       \/ motionAt # "top" /\ \E e \in Entry : moving = {e}
    /\ \/ audioAt \notin {"lock", "http"} /\ sending = {}
       \/ audioAt \in {"lock", "http"} /\ \E e \in Entry : sending = {e}
    /\ audioInflight <=> sending # {}
    /\ currentPlayback = {} \/ \E h \in Handle : currentPlayback = {h}
    /\ sending # {} => currentPlayback = {}
    /\ \A e \in moving : e.kind \notin AudioKinds /\ e.seq < nextSeq
    /\ \A e \in sending : e.kind \in AudioKinds /\ e.seq < nextSeq
    /\ \A e \in moving \cup sending : e \notin Queued

IInv == TypeOK /\ QueuesOK /\ LoopsOK /\ NoLostWakeup /\ IdleExact
=============================================================================
