----------------------- MODULE BodyController_proofs -----------------------
(***************************************************************************)
(* Proofs about BodyController, for every value of its constants: the      *)
(* inductive invariant, the exactness of wait_idle(), the absence of lost  *)
(* wakeups, and a half-duplex gate without a gap.                          *)
(***************************************************************************)
EXTENDS BodyController, FiniteSetTheorems, TLAPS

\* What a popped entry is: alive, and ahead of everything left in the heap.
LEMMA PopFacts ==
    ASSUME TypeOK, NEW heap \in SUBSET Entry, NEW e \in FirstLive(heap)
    PROVE  /\ e \in heap
           /\ e.seq \notin dropped
           /\ e \notin PassedOver(heap)
           /\ PassedOver(heap) \subseteq heap
<1>1. e \in heap /\ e.seq \notin dropped
  BY DEF FirstLive, LiveIn, Live
<1>2. e \in LiveIn(heap)
  BY DEF FirstLive
<1>3. e.priority \in Nat /\ e.seq \in Nat
  BY <1>1, ConstantsAssumption DEF Entry, EntryOf
<1>4. ~Earlier(e, e)
  BY <1>3 DEF Earlier
<1> QED
  BY <1>1, <1>2, <1>4 DEF PassedOver

LEMMA EntryFields ==
    ASSUME NEW e \in Entry
    PROVE  /\ e.seq \in 1..MaxSubmits
           /\ e.priority \in Nat
           /\ e.kind \in Kinds
           /\ e.target \in Targets
           /\ e.deadline \in Nat \cup {Never}
BY ConstantsAssumption DEF Entry, EntryOf

\* Submitting makes an entry.
LEMMA NewEntry ==
    ASSUME TypeOK, NEW r \in Requests, nextSeq <= MaxSubmits
    PROVE  /\ EntryOf(r, nextSeq, now) \in Entry
           /\ EntryOf(r, nextSeq, now).seq = nextSeq
           /\ EntryOf(r, nextSeq, now).kind = r.kind
           /\ EntryOf(r, nextSeq, now).priority = r.priority
<1>1. nextSeq \in 1..MaxSubmits /\ now \in 0..MaxTime
  BY ConstantsAssumption DEF TypeOK
<1> QED
  BY <1>1 DEF Entry, EntryOf

LEMMA FiniteUnfinished ==
    ASSUME QueuesOK, LoopsOK
    PROVE  IsFiniteSet(Unfinished)
<1>1. IsFiniteSet({e \in Queued : e.seq \notin dropped})
  BY FS_Subset DEF QueuesOK
<1>2. IsFiniteSet(moving)
  <2>1. moving = {} \/ \E e \in Entry : moving = {e}
    BY DEF LoopsOK
  <2> QED
    BY <2>1, FS_EmptySet, FS_Singleton, Zenon
<1>3. IsFiniteSet(sending)
  <2>1. sending = {} \/ \E e \in Entry : sending = {e}
    BY DEF LoopsOK
  <2> QED
    BY <2>1, FS_EmptySet, FS_Singleton, Zenon
<1> QED
  BY <1>1, <1>2, <1>3, FS_Union DEF Unfinished, Queued

\* Finishing a set F of unfinished commands, each once, keeps the count exact.
LEMMA FinishExact ==
    ASSUME QueuesOK, LoopsOK, IdleExact,
           NEW F \in SUBSET Unfinished,
           FinishMany(Cardinality(F)),
           Unfinished' = Unfinished \ F
    PROVE  IdleExact' /\ outstanding' \in Nat /\ idle' \in BOOLEAN
<1>1. IsFiniteSet(Unfinished)
  BY FiniteUnfinished
<1>2. IsFiniteSet(F) /\ Cardinality(F) <= Cardinality(Unfinished)
      /\ (Cardinality(Unfinished) = Cardinality(F) => Unfinished = F)
  BY <1>1, FS_Subset
<1>3. /\ IsFiniteSet(Unfinished \ F)
      /\ Cardinality(Unfinished \ F) = Cardinality(Unfinished) - Cardinality(Unfinished \cap F)
  BY <1>1, <1>2, FS_Difference
<1>4. Unfinished \cap F = F
  OBVIOUS
<1>5. Cardinality(F) \in Nat /\ Cardinality(Unfinished) \in Nat
      /\ Cardinality(Unfinished \ F) \in Nat
  BY <1>1, <1>2, <1>3, FS_CardinalityType
<1>6. (Cardinality(F) = 0 <=> F = {}) /\ (Cardinality(Unfinished \ F) = 0 <=> Unfinished \ F = {})
  BY <1>2, <1>3, FS_EmptySet
<1>7. outstanding' = Cardinality(Unfinished')
  BY <1>3, <1>4 DEF IdleExact, FinishMany
<1>8. idle' <=> Unfinished' = {}
  <2>1. CASE F = {}
    BY <2>1, <1>6 DEF IdleExact, FinishMany
  <2>2. CASE F # {}
    <3>1. ~idle
      BY <2>2 DEF IdleExact
    <3>4. outstanding = Cardinality(Unfinished) /\ Cardinality(F) > 0
      BY <2>2, <1>5, <1>6 DEF IdleExact
    <3>5. idle' = (idle \/ (Cardinality(F) > 0 /\ outstanding = Cardinality(F)))
      BY DEF FinishMany
    <3>2. idle' <=> Cardinality(Unfinished) = Cardinality(F)
      BY <3>1, <3>4, <3>5, Zenon
    <3>3. Unfinished \ F = {} <=> Unfinished = F
      OBVIOUS
    <3> QED
      BY <3>2, <3>3, <1>2
  <2> QED
    BY <2>1, <2>2
<1>9. outstanding' \in Nat
  BY <1>3, <1>5, <1>7
<1>10. idle' \in BOOLEAN
  BY DEF FinishMany
<1> QED
  BY <1>7, <1>8, <1>9, <1>10 DEF IdleExact

\* Popping P forgets the drop marks of P and of nobody else: sequence numbers
\* are unique.
LEMMA DroppedAfterPop ==
    ASSUME QueuesOK, NEW P \in SUBSET Queued, dropped' = dropped \ Seqs(P)
    PROVE  \A x \in Queued \ P : x.seq \in dropped' <=> x.seq \in dropped
BY DEF QueuesOK, Seqs

\* Queues that only shrink keep QueuesOK.
LEMMA QueuesShrink ==
    ASSUME QueuesOK,
           motionHeap' \subseteq motionHeap, audioPending' \subseteq audioPending,
           nextSeq' = nextSeq, \A n \in dropped' : n < nextSeq
    PROVE  QueuesOK'
<1>1. Queued' \subseteq Queued
  BY DEF Queued
<1>2. IsFiniteSet(Queued')
  BY <1>1, FS_Subset DEF QueuesOK
<1> QED
  BY <1>1, <1>2 DEF QueuesOK

-----------------------------------------------------------------------------
\* Each conjunct of the invariant, over the actions that leave the queues alone.

THEOREM InitInv == Init => IInv
<1> SUFFICES ASSUME Init PROVE IInv
  OBVIOUS
<1>1. TypeOK
  <2>1. 0 \in 0..MaxTime /\ 1 \in 1..(MaxSubmits + 1) /\ 0 \in 0..MaxSubmits
    BY ConstantsAssumption
  <2>2. latest \in [CoalescingKeys -> 0..MaxSubmits]
    BY <2>1 DEF Init
  <2>3. believed \in [Parts -> Values \cup {Unknown}] /\ shown \in [Parts -> Values]
    BY DEF Init
  <2>4. localAudio \in BOOLEAN /\ callers \subseteq Requests /\ faults \subseteq FaultKinds
    BY ConstantsAssumption DEF Init
  <2> QED
    BY <2>1, <2>2, <2>3, <2>4 DEF Init, TypeOK
<1>2. QueuesOK
  BY FS_EmptySet DEF Init, QueuesOK, Queued
<1>3. LoopsOK
  BY DEF Init, LoopsOK, Queued
<1>4. NoLostWakeup
  BY DEF Init, NoLostWakeup
<1>5. IdleExact
  <2>1. Unfinished = {}
    BY DEF Init, Unfinished
  <2> QED
    BY <2>1, FS_EmptySet DEF Init, IdleExact
<1> QED
  BY <1>1, <1>2, <1>3, <1>4, <1>5 DEF IInv

\* The actions that touch neither the queues, nor the count, nor what the
\* loops are executing.
Quiet == Tick \/ BodyMoves \/ RabbitSpeaks \/ (\E e \in speaker : RabbitQuiet(e))
             \/ (\E h \in currentPlayback : AudioClears(h) \/ AudioLoopDies(h))
             \/ PlaybackOver

LEMMA QuietType == IInv /\ Quiet => TypeOK'
<1> SUFFICES ASSUME IInv, Quiet PROVE TypeOK'
  OBVIOUS
<1> USE DEF IInv
<1>1. CASE Tick
  BY <1>1, ConstantsAssumption
     DEF Tick, TypeOK, queues, events, accounts, motionLoop, audioLoop, body
<1>2. CASE BodyMoves
  <2> USE <1>2 DEF BodyMoves
  <2>1. PICK e \in moving : shown' = Overlay(shown, e.target)
    OBVIOUS
  <2>2. e.target \in Targets
    BY EntryFields DEF TypeOK
  <2>3. shown' \in [Parts -> Values]
    BY <2>1, <2>2 DEF TypeOK, Overlay, Targets
  <2> QED
    BY <2>3 DEF TypeOK, clock, queues, events, accounts, audioLoop
<1>3. CASE RabbitSpeaks
  BY <1>3 DEF RabbitSpeaks, TypeOK, clock, queues, events, accounts, motionLoop
<1>4. CASE \E e \in speaker : RabbitQuiet(e)
  BY <1>4 DEF RabbitQuiet, TypeOK, clock, queues, events, accounts, motionLoop, audioLoop
<1>5. ASSUME NEW h \in currentPlayback, AudioClears(h) \/ AudioLoopDies(h)
      PROVE  TypeOK'
  BY <1>5 DEF AudioClears, AudioLoopDies, TypeOK, clock, queues, events, accounts,
              motionLoop, body
<1>6. ASSUME NEW h \in currentPlayback, TimerFires(h)
      PROVE  TypeOK'
  <2>1. [h EXCEPT !.status = "done"] \in Handle
    BY DEF TypeOK, Handle
  <2> QED
    BY <1>6, <2>1 DEF TimerFires, TypeOK, clock, queues, events, accounts, motionLoop, body
<1>7. ASSUME NEW h \in currentPlayback, NEW o \in {"done", "failed"}, PlaybackEnds(h, o)
      PROVE  TypeOK'
  <2>1. [h EXCEPT !.status = o] \in Handle
    BY DEF TypeOK, Handle
  <2> QED
    BY <1>7, <2>1 DEF PlaybackEnds, TypeOK, clock, queues, events, accounts, motionLoop
<1> QED
  BY <1>1, <1>2, <1>3, <1>4, <1>5, <1>6, <1>7 DEF Quiet, PlaybackOver

LEMMA QuietRest == IInv /\ Quiet => QueuesOK' /\ LoopsOK' /\ NoLostWakeup' /\ IdleExact'
<1> SUFFICES ASSUME IInv, Quiet
             PROVE  QueuesOK' /\ LoopsOK' /\ NoLostWakeup' /\ IdleExact'
  OBVIOUS
<1> USE DEF IInv
<1>1. /\ UNCHANGED <<queues, events, accounts, motionAt, moving, sending, audioInflight>>
      /\ audioAt' = audioAt \/ (audioAt = "top" /\ audioAt' = "dead")
      /\ \/ currentPlayback' = currentPlayback \/ currentPlayback' = {}
         \/ currentPlayback # {} /\ \E h \in Handle : currentPlayback' = {h}
  <2>1. CASE Tick \/ BodyMoves \/ RabbitSpeaks \/ \E e \in speaker : RabbitQuiet(e)
    BY <2>1 DEF Tick, BodyMoves, RabbitSpeaks, RabbitQuiet, queues, events, accounts,
                motionLoop, audioLoop
  <2>2. CASE \E h \in currentPlayback : AudioClears(h) \/ AudioLoopDies(h)
    BY <2>2 DEF AudioClears, AudioLoopDies, queues, events, accounts, motionLoop, audioLoop
  <2>3. ASSUME NEW h \in currentPlayback, NEW o \in {"done", "failed"},
               TimerFires(h) \/ PlaybackEnds(h, o)
        PROVE  /\ UNCHANGED <<queues, events, accounts, motionAt, moving, sending,
                              audioInflight, audioAt>>
               /\ currentPlayback # {} /\ \E g \in Handle : currentPlayback' = {g}
    <3>1. [h EXCEPT !.status = "done"] \in Handle /\ [h EXCEPT !.status = o] \in Handle
      BY DEF TypeOK, Handle
    <3> QED
      BY <2>3, <3>1 DEF TimerFires, PlaybackEnds, queues, events, accounts, motionLoop,
                        audioLoop
  <2> QED
    BY <2>1, <2>2, <2>3 DEF Quiet, PlaybackOver
<1>2. QueuesOK'
  BY <1>1 DEF QueuesOK, Queued, queues
<1>3. LoopsOK'
  BY <1>1 DEF LoopsOK, Queued, queues
<1>4. NoLostWakeup'
  BY <1>1 DEF NoLostWakeup, queues, events
<1>5. Unfinished' = Unfinished
  BY <1>1 DEF Unfinished, queues
<1>6. IdleExact'
  BY <1>1, <1>5 DEF IdleExact, accounts
<1> QED
  BY <1>2, <1>3, <1>4, <1>6

-----------------------------------------------------------------------------
\* The callers

LEMMA SubmitInv ==
    ASSUME IInv, NEW r \in Requests, Submit(r)
    PROVE  IInv'
<1> DEFINE e == EntryOf(r, nextSeq, now)
<1> USE DEF IInv
<1>1. /\ e \in Entry /\ e.seq = nextSeq /\ e.kind = r.kind /\ e.priority = r.priority
      /\ nextSeq \in 1..MaxSubmits
  BY NewEntry, ConstantsAssumption DEF Submit, TypeOK
<1>2. /\ IsFiniteSet(Queued \cup {e})
      /\ Queued' = Queued \cup {e}
  BY FS_AddElement DEF Submit, QueuesOK, Queued
<1>3. \A f \in Queued \cup moving \cup sending : f.seq < nextSeq
  BY DEF QueuesOK, LoopsOK
<1>4. e \notin Queued \cup moving \cup sending
  BY <1>1, <1>3
<1>5. TypeOK'
  <2>1. latest' \in [CoalescingKeys -> 0..MaxSubmits]
    <3>1. KeyOf(e) = <<e.kind, r.priority>>
      BY <1>1 DEF KeyOf
    <3>2. e.seq \in 0..MaxSubmits
      BY <1>1, ConstantsAssumption
    <3> QED
      BY <3>1, <3>2 DEF Submit, TypeOK
  <2>2. outstanding' \in Nat /\ nextSeq' \in 1..(MaxSubmits + 1)
    BY <1>1, ConstantsAssumption DEF Submit, TypeOK
  <2> QED
    BY <1>1, <2>1, <2>2 DEF Submit, TypeOK, clock, motionLoop, audioLoop, body
<1>6. QueuesOK'
  <2>1. nextSeq' = nextSeq + 1 /\ dropped' = dropped /\ nextSeq \in Nat
    BY <1>1 DEF Submit
  <2>2. \A f, g \in Queued' : f.seq = g.seq => f = g
    BY <1>1, <1>2, <1>3 DEF QueuesOK
  <2>3. \A f \in Queued' : f.seq \in Nat
    BY <1>1, <1>2, EntryFields DEF TypeOK, Queued
  <2>4. \A f \in Queued' : f.seq < nextSeq'
    BY <1>1, <1>2, <1>3, <2>1, <2>3
  <2>5. \A n \in dropped' : n < nextSeq'
    BY <2>1, ConstantsAssumption DEF QueuesOK, TypeOK
  <2>6. /\ \A f \in motionHeap' : f.kind \notin AudioKinds
        /\ \A f \in audioPending' : f.kind \in AudioKinds
    BY <1>1 DEF Submit, QueuesOK
  <2> QED
    BY <1>2, <2>2, <2>4, <2>5, <2>6 DEF QueuesOK
<1>7. LoopsOK'
  <2>1. \A f \in moving \cup sending : f.seq < nextSeq + 1 /\ f \notin Queued'
    <3>1. \A f \in moving \cup sending : f.seq \in Nat
      BY EntryFields DEF TypeOK
    <3> QED
      BY <1>1, <1>2, <1>3, <1>4, <3>1 DEF LoopsOK
  <2> QED
    BY <2>1 DEF Submit, LoopsOK, motionLoop, audioLoop
<1>8. NoLostWakeup'
  BY DEF Submit, NoLostWakeup, audioLoop
<1>9. IdleExact'
  <2>1. e.seq \notin dropped
    BY <1>1 DEF QueuesOK
  <2>2. Unfinished' = Unfinished \cup {e}
    BY <1>2, <2>1 DEF Submit, Unfinished, Queued, motionLoop, audioLoop
  <2>3. e \notin Unfinished
    BY <1>4 DEF Unfinished, Queued
  <2>4. IsFiniteSet(Unfinished)
    BY FiniteUnfinished
  <2>5. Cardinality(Unfinished') = Cardinality(Unfinished) + 1
    BY <2>2, <2>3, <2>4, FS_AddElement
  <2> QED
    BY <2>2, <2>5 DEF Submit, IdleExact
<1> QED
  BY <1>5, <1>6, <1>7, <1>8, <1>9

LEMMA InterruptInv == IInv /\ Interrupt => IInv'
<1> SUFFICES ASSUME IInv, Interrupt PROVE IInv'
  OBVIOUS
<1> USE DEF IInv
<1>1. Interrupted \subseteq Unfinished /\ Interrupted \subseteq Queued
  BY DEF Interrupted, Unfinished, Queued
<1>2. dropped' \subseteq 1..MaxSubmits /\ \A n \in dropped' : n < nextSeq
  <2>1. \A e \in Interrupted : e.seq \in 1..MaxSubmits /\ e.seq < nextSeq
    <3>1. \A e \in Queued : e \in Entry
      BY DEF TypeOK, Queued
    <3> QED
      BY <1>1, <3>1, EntryFields DEF QueuesOK
  <2> QED
    BY <2>1 DEF Interrupt, TypeOK, QueuesOK, Seqs
<1>3. Unfinished' = Unfinished \ Interrupted
  <2>1. \A x \in Queued : x.seq \in dropped' <=> (x.seq \in dropped \/ x \in Interrupted)
    BY <1>1 DEF Interrupt, QueuesOK, Seqs
  <2>2. \A x \in moving \cup sending : x \notin Interrupted
    BY <1>1 DEF LoopsOK
  <2> QED
    BY <2>1, <2>2 DEF Interrupt, Unfinished, Queued, motionLoop, audioLoop
<1>4. IdleExact' /\ outstanding' \in Nat /\ idle' \in BOOLEAN
  BY <1>1, <1>3, FinishExact DEF Interrupt
<1>5. TypeOK'
  BY <1>2, <1>4 DEF Interrupt, TypeOK, clock, events, motionLoop, audioLoop, body
<1>6. QueuesOK'
  BY <1>2, QueuesShrink DEF Interrupt
<1>7. LoopsOK'
  BY DEF Interrupt, LoopsOK, Queued, motionLoop, audioLoop
<1>8. NoLostWakeup'
  BY DEF Interrupt, NoLostWakeup, events, audioLoop
<1> QED
  BY <1>4, <1>5, <1>6, <1>7, <1>8

-----------------------------------------------------------------------------
\* The loops take entries off their heaps.

\* Removing G from a queue, of which P was passed over, the rest of G being
\* alive: what is left unfinished.
LEMMA UnfinishedAfterPop ==
    ASSUME IInv, NEW P \in SUBSET Queued, NEW G \in SUBSET Queued, P \subseteq G,
           dropped' = dropped \ Seqs(P), Queued' = Queued \ G
    PROVE  {x \in Queued' : x.seq \notin dropped'} =
               {x \in Queued : x.seq \notin dropped} \ G
<1>1. \A x \in Queued \ P : x.seq \in dropped' <=> x.seq \in dropped
  BY DroppedAfterPop DEF IInv
<1> QED
  BY <1>1

LEMMA MotionNothingInv == IInv /\ MotionNothing => IInv'
<1> SUFFICES ASSUME IInv, MotionNothing PROVE IInv'
  OBVIOUS
<1> USE DEF IInv
<1>1. PassedOver(motionHeap) = motionHeap
  BY DEF MotionNothing, PassedOver
<1>2. {x \in Queued' : x.seq \notin dropped'} = {x \in Queued : x.seq \notin dropped} \ motionHeap
  <2>1. Queued' = Queued \ motionHeap
    BY DEF MotionNothing, Queued, QueuesOK
  <2> QED
    BY <2>1, UnfinishedAfterPop DEF MotionNothing, Queued
<1>3. Unfinished' = Unfinished \ FinishedByPop(motionHeap)
  BY <1>1, <1>2 DEF MotionNothing, Unfinished, FinishedByPop, Queued, LoopsOK, motionLoop,
                    audioLoop
<1>4. FinishedByPop(motionHeap) \subseteq Unfinished
  BY <1>1 DEF FinishedByPop, Unfinished
<1>5. IdleExact' /\ outstanding' \in Nat /\ idle' \in BOOLEAN
  BY <1>3, <1>4, FinishExact DEF MotionNothing
<1>6. TypeOK'
  BY <1>5 DEF MotionNothing, TypeOK, clock, motionLoop, audioLoop, body
<1>7. QueuesOK'
  BY QueuesShrink DEF MotionNothing, QueuesOK
<1>8. LoopsOK'
  BY DEF MotionNothing, LoopsOK, Queued, motionLoop, audioLoop
<1>9. NoLostWakeup'
  BY DEF MotionNothing, NoLostWakeup, audioLoop
<1> QED
  BY <1>5, <1>6, <1>7, <1>8, <1>9

LEMMA AudioNothingInv == IInv /\ AudioNothing => IInv'
<1> SUFFICES ASSUME IInv, AudioNothing PROVE IInv'
  OBVIOUS
<1> USE DEF IInv
<1>1. PassedOver(audioPending) = audioPending
  BY DEF AudioNothing, PassedOver
<1>2. {x \in Queued' : x.seq \notin dropped'} = {x \in Queued : x.seq \notin dropped} \ audioPending
  <2>1. Queued' = Queued \ audioPending
    BY DEF AudioNothing, Queued, QueuesOK
  <2> QED
    BY <2>1, UnfinishedAfterPop DEF AudioNothing, Queued
<1>3. Unfinished' = Unfinished \ FinishedByPop(audioPending)
  BY <1>1, <1>2 DEF AudioNothing, Unfinished, FinishedByPop, Queued, LoopsOK, motionLoop,
                    audioLoop
<1>4. FinishedByPop(audioPending) \subseteq Unfinished
  BY <1>1 DEF FinishedByPop, Unfinished
<1>5. IdleExact' /\ outstanding' \in Nat /\ idle' \in BOOLEAN
  BY <1>3, <1>4, FinishExact DEF AudioNothing
<1>6. TypeOK'
  BY <1>5 DEF AudioNothing, TypeOK, clock, motionLoop, audioLoop, body
<1>7. QueuesOK'
  BY QueuesShrink DEF AudioNothing, QueuesOK
<1>8. LoopsOK'
  BY DEF AudioNothing, LoopsOK, Queued, motionLoop, audioLoop
<1>9. NoLostWakeup'
  BY DEF AudioNothing, NoLostWakeup, LoopsOK, audioLoop
<1> QED
  BY <1>5, <1>6, <1>7, <1>8, <1>9

LEMMA MotionSuppressInv ==
    ASSUME IInv, NEW e \in motionHeap, MotionSuppress(e)
    PROVE  IInv'
<1> USE DEF IInv
<1> DEFINE P == PassedOver(motionHeap)
           F == FinishedByPop(motionHeap)
<1>1. e.seq \notin dropped /\ e \notin P /\ P \subseteq motionHeap
  BY PopFacts DEF MotionSuppress, TypeOK
<1>2. {x \in Queued' : x.seq \notin dropped'} = {x \in Queued : x.seq \notin dropped} \ (P \cup {e})
  <2>1. Queued' = Queued \ (P \cup {e})
    BY <1>1 DEF MotionSuppress, Queued, QueuesOK
  <2>2. P \in SUBSET Queued /\ P \cup {e} \in SUBSET Queued /\ P \subseteq P \cup {e}
    BY <1>1 DEF Queued
  <2>3. dropped' = dropped \ Seqs(P)
    BY DEF MotionSuppress
  <2> HIDE DEF P
  <2> QED
    BY <2>1, <2>2, <2>3, UnfinishedAfterPop
<1>3. Unfinished' = Unfinished \ (F \cup {e})
  BY <1>1, <1>2 DEF MotionSuppress, Unfinished, FinishedByPop, Queued, LoopsOK, motionLoop,
                    audioLoop
<1>4. F \cup {e} \subseteq Unfinished /\ e \notin F
  BY <1>1 DEF FinishedByPop, Unfinished
<1>5. Cardinality(F \cup {e}) = Cardinality(F) + 1
  <2>1. IsFiniteSet(F)
    BY <1>4, FiniteUnfinished, FS_Subset
  <2> QED
    BY <1>4, <2>1, FS_AddElement
<1>6. IdleExact' /\ outstanding' \in Nat /\ idle' \in BOOLEAN
  BY <1>3, <1>4, <1>5, FinishExact DEF MotionSuppress
<1>7. TypeOK'
  BY <1>6 DEF MotionSuppress, TypeOK, clock, events, motionLoop, audioLoop, body
<1>8. QueuesOK'
  BY QueuesShrink DEF MotionSuppress, QueuesOK
<1>9. LoopsOK'
  BY DEF MotionSuppress, LoopsOK, Queued, motionLoop, audioLoop
<1>10. NoLostWakeup'
  BY DEF MotionSuppress, NoLostWakeup, events, audioLoop
<1> QED
  BY <1>6, <1>7, <1>8, <1>9, <1>10

LEMMA MotionStartInv ==
    ASSUME IInv, NEW e \in motionHeap, MotionStart(e)
    PROVE  IInv'
<1> USE DEF IInv
<1> DEFINE P == PassedOver(motionHeap)
           F == FinishedByPop(motionHeap)
<1>1. e.seq \notin dropped /\ e \notin P /\ P \subseteq motionHeap /\ e \in Entry
  BY PopFacts DEF MotionStart, TypeOK
<1>2. {x \in Queued' : x.seq \notin dropped'} = {x \in Queued : x.seq \notin dropped} \ (P \cup {e})
  <2>1. Queued' = Queued \ (P \cup {e})
    BY <1>1 DEF MotionStart, Queued, QueuesOK
  <2>2. P \in SUBSET Queued /\ P \cup {e} \in SUBSET Queued /\ P \subseteq P \cup {e}
    BY <1>1 DEF Queued
  <2>3. dropped' = dropped \ Seqs(P)
    BY DEF MotionStart
  <2> HIDE DEF P
  <2> QED
    BY <2>1, <2>2, <2>3, UnfinishedAfterPop
<1>3. moving = {} /\ moving' = {e} /\ sending' = sending /\ motionAt' \in {"lock", "http"}
  BY DEF MotionStart, LoopsOK, audioLoop
<1>4. F \subseteq Unfinished /\ e \notin F
  BY <1>1 DEF FinishedByPop, Unfinished
<1>5. Unfinished' = Unfinished \ F
  <2>1. \A x \in moving \cup sending : x \notin F /\ x # e
    BY <1>1 DEF LoopsOK, FinishedByPop, Queued
  <2> QED
    BY <1>1, <1>2, <1>3, <1>4, <2>1 DEF Unfinished, FinishedByPop, Queued
<1>6. IdleExact' /\ outstanding' \in Nat /\ idle' \in BOOLEAN
  BY <1>4, <1>5, FinishExact DEF MotionStart
<1>7. TypeOK'
  BY <1>1, <1>3, <1>6 DEF MotionStart, TypeOK, clock, events, audioLoop, body
<1>8. QueuesOK'
  BY QueuesShrink DEF MotionStart, QueuesOK
<1>9. LoopsOK'
  <2>1. e.kind \notin AudioKinds /\ e.seq < nextSeq /\ e \notin Queued'
    BY <1>1 DEF MotionStart, QueuesOK, Queued
  <2>2. Queued' \subseteq Queued
    BY DEF MotionStart, Queued
  <2> QED
    BY <1>1, <1>3, <2>1, <2>2 DEF MotionStart, LoopsOK, audioLoop
<1>10. NoLostWakeup'
  BY DEF MotionStart, NoLostWakeup, events, audioLoop
<1> QED
  BY <1>6, <1>7, <1>8, <1>9, <1>10

LEMMA AudioStartLocalInv ==
    ASSUME IInv, NEW e \in audioPending, AudioStartLocal(e)
    PROVE  IInv'
<1> USE DEF IInv
<1> DEFINE P == PassedOver(audioPending)
           F == FinishedByPop(audioPending)
           handle == [entry |-> e, device |-> "local", status |-> "on"]
<1>1. e.seq \notin dropped /\ e \notin P /\ P \subseteq audioPending /\ e \in Entry
  BY PopFacts DEF AudioStartLocal, PopAudio, TypeOK
<1>2. {x \in Queued' : x.seq \notin dropped'} = {x \in Queued : x.seq \notin dropped} \ (P \cup {e})
  <2>1. Queued' = Queued \ (P \cup {e})
    BY <1>1 DEF AudioStartLocal, PopAudio, Queued, QueuesOK
  <2>2. P \in SUBSET Queued /\ P \cup {e} \in SUBSET Queued /\ P \subseteq P \cup {e}
    BY <1>1 DEF Queued
  <2>3. dropped' = dropped \ Seqs(P)
    BY DEF AudioStartLocal, PopAudio
  <2> HIDE DEF P
  <2> QED
    BY <2>1, <2>2, <2>3, UnfinishedAfterPop
<1>3. Unfinished' = Unfinished \ (F \cup {e})
  BY <1>1, <1>2 DEF AudioStartLocal, Unfinished, FinishedByPop, Queued, LoopsOK, motionLoop
<1>4. F \cup {e} \subseteq Unfinished /\ e \notin F
  BY <1>1 DEF FinishedByPop, Unfinished
<1>5. Cardinality(F \cup {e}) = Cardinality(F) + 1
  <2>1. IsFiniteSet(F)
    BY <1>4, FiniteUnfinished, FS_Subset
  <2> QED
    BY <1>4, <2>1, FS_AddElement
<1>6. IdleExact' /\ outstanding' \in Nat /\ idle' \in BOOLEAN
  BY <1>3, <1>4, <1>5, FinishExact DEF AudioStartLocal
<1>7. /\ sending = {} /\ sending' = {} /\ audioAt' = "top"
      /\ currentPlayback' = {} \/ currentPlayback' = {handle}
      /\ handle \in Handle
  BY <1>1 DEF AudioStartLocal, PopAudio, LoopsOK, Handle
<1>8. TypeOK'
  BY <1>1, <1>6, <1>7
     DEF AudioStartLocal, PopAudio, TypeOK, clock, events, motionLoop
<1>9. QueuesOK'
  BY QueuesShrink DEF AudioStartLocal, PopAudio, QueuesOK
<1>10. LoopsOK'
  BY <1>7 DEF AudioStartLocal, PopAudio, LoopsOK, Queued, motionLoop
<1>11. NoLostWakeup'
  BY DEF AudioStartLocal, PopAudio, NoLostWakeup, events
<1> QED
  BY <1>6, <1>8, <1>9, <1>10, <1>11

LEMMA AudioStartInv ==
    ASSUME IInv, NEW e \in audioPending, AudioStart(e)
    PROVE  IInv'
<1> USE DEF IInv
<1> DEFINE P == PassedOver(audioPending)
           F == FinishedByPop(audioPending)
<1>1. e.seq \notin dropped /\ e \notin P /\ P \subseteq audioPending /\ e \in Entry
  BY PopFacts DEF AudioStart, PopAudio, TypeOK
<1>2. {x \in Queued' : x.seq \notin dropped'} = {x \in Queued : x.seq \notin dropped} \ (P \cup {e})
  <2>1. Queued' = Queued \ (P \cup {e})
    BY <1>1 DEF AudioStart, PopAudio, Queued, QueuesOK
  <2>2. P \in SUBSET Queued /\ P \cup {e} \in SUBSET Queued /\ P \subseteq P \cup {e}
    BY <1>1 DEF Queued
  <2>3. dropped' = dropped \ Seqs(P)
    BY DEF AudioStart, PopAudio
  <2> HIDE DEF P
  <2> QED
    BY <2>1, <2>2, <2>3, UnfinishedAfterPop
<1>3. sending = {} /\ sending' = {e} /\ moving' = moving /\ audioAt' \in {"lock", "http"}
  BY DEF AudioStart, PopAudio, LoopsOK, motionLoop
<1>4. F \subseteq Unfinished /\ e \notin F
  BY <1>1 DEF FinishedByPop, Unfinished
<1>5. Unfinished' = Unfinished \ F
  <2>1. \A x \in moving \cup sending : x \notin F /\ x # e
    BY <1>1 DEF LoopsOK, FinishedByPop, Queued
  <2> QED
    BY <1>1, <1>2, <1>3, <1>4, <2>1 DEF Unfinished, FinishedByPop, Queued
<1>6. IdleExact' /\ outstanding' \in Nat /\ idle' \in BOOLEAN
  BY <1>4, <1>5, FinishExact DEF AudioStart
<1>7. TypeOK'
  BY <1>1, <1>3, <1>6 DEF AudioStart, PopAudio, TypeOK, clock, events, motionLoop, body
<1>8. QueuesOK'
  BY QueuesShrink DEF AudioStart, PopAudio, QueuesOK
<1>9. LoopsOK'
  <2>1. e.kind \in AudioKinds /\ e.seq < nextSeq /\ e \notin Queued'
    BY <1>1 DEF AudioStart, PopAudio, QueuesOK, Queued
  <2>2. Queued' \subseteq Queued
    BY DEF AudioStart, PopAudio, Queued
  <2> QED
    BY <1>1, <1>3, <2>1, <2>2 DEF AudioStart, PopAudio, LoopsOK, motionLoop
<1>10. NoLostWakeup'
  BY DEF AudioStart, PopAudio, NoLostWakeup, events
<1> QED
  BY <1>6, <1>7, <1>8, <1>9, <1>10

-----------------------------------------------------------------------------
\* The adapter answers.

LEMMA MotionAnswerInv == IInv /\ (MotionReply \/ MotionFails) => IInv'
<1> SUFFICES ASSUME IInv, MotionReply \/ MotionFails PROVE IInv'
  OBVIOUS
<1> USE DEF IInv
<1>1. /\ UNCHANGED <<clock, queues, events, sending, audioApplied, audioInflight,
                     currentPlayback, body>>
      /\ motionAt' = "top" /\ moving' = {} /\ motionApplied' = FALSE
      /\ HandLockToAudio /\ FinishMany(1)
  BY DEF MotionReply, MotionFails
<1>2. PICK e \in Entry : moving = {e}
  BY DEF MotionReply, MotionFails, LoopsOK
<1>3. moving \subseteq Unfinished /\ Cardinality(moving) = 1
  BY <1>2, FS_Singleton DEF Unfinished
<1>4. Unfinished' = Unfinished \ moving
  <2>1. e \notin Queued /\ e \notin sending
    BY <1>2 DEF LoopsOK
  <2> QED
    BY <1>1, <1>2, <2>1 DEF Unfinished, queues, Queued
<1>5. IdleExact' /\ outstanding' \in Nat /\ idle' \in BOOLEAN
  BY <1>1, <1>3, <1>4, FinishExact
<1>6. believed' \in [Parts -> Values \cup {Unknown}]
  <2>1. CASE MotionReply
    <3>1. believed' = IF e.kind \in Coalescable THEN Overlay(believed, e.target) ELSE believed
      BY <1>2, <2>1 DEF MotionReply
    <3>2. e.target \in Targets
      BY EntryFields
    <3> QED
      BY <3>1, <3>2 DEF TypeOK, Overlay, Targets
  <2>2. CASE MotionFails
    BY <2>2 DEF MotionFails, TypeOK
  <2> QED
    BY <2>1, <2>2
<1>7. TypeOK'
  BY <1>1, <1>5, <1>6 DEF HandLockToAudio, TypeOK, clock, queues, events, body
<1>8. QueuesOK'
  BY <1>1, QueuesShrink DEF queues, QueuesOK
<1>9. LoopsOK'
  BY <1>1 DEF HandLockToAudio, LoopsOK, queues, Queued
<1>10. NoLostWakeup'
  BY <1>1 DEF NoLostWakeup, queues, events
<1> QED
  BY <1>5, <1>7, <1>8, <1>9, <1>10

LEMMA AudioAnswerInv == IInv /\ (AudioReply \/ AudioFails) => IInv'
<1> SUFFICES ASSUME IInv, AudioReply \/ AudioFails PROVE IInv'
  OBVIOUS
<1> USE DEF IInv
<1>1. /\ UNCHANGED <<clock, queues, events, moving, motionApplied, believed, body>>
      /\ audioAt' = "top" /\ sending' = {} /\ audioApplied' = FALSE
      /\ audioInflight' = FALSE
      /\ HandLockToMotion /\ FinishMany(1)
  BY DEF AudioReply, AudioFails
<1>2. PICK e \in Entry : sending = {e}
  BY DEF AudioReply, AudioFails, LoopsOK
<1>3. sending \subseteq Unfinished /\ Cardinality(sending) = 1
  BY <1>2, FS_Singleton DEF Unfinished
<1>4. Unfinished' = Unfinished \ sending
  <2>1. e \notin Queued /\ e \notin moving
    BY <1>2 DEF LoopsOK
  <2> QED
    BY <1>1, <1>2, <2>1 DEF Unfinished, queues, Queued
<1>5. IdleExact' /\ outstanding' \in Nat /\ idle' \in BOOLEAN
  BY <1>1, <1>3, <1>4, FinishExact
<1>6. currentPlayback' = {} \/ \E h \in Handle : currentPlayback' = {h}
  <2>1. CASE AudioReply
    <3>1. [entry |-> e, device |-> "timed", status |-> "on"] \in Handle
      BY DEF Handle
    <3> QED
      BY <1>2, <2>1, <3>1 DEF AudioReply
  <2>2. CASE AudioFails
    BY <2>2 DEF AudioFails, LoopsOK
  <2> QED
    BY <2>1, <2>2
<1>7. TypeOK'
  BY <1>1, <1>5, <1>6 DEF HandLockToMotion, TypeOK, clock, queues, events, body
<1>8. QueuesOK'
  BY <1>1, QueuesShrink DEF queues, QueuesOK
<1>9. LoopsOK'
  BY <1>1, <1>6 DEF HandLockToMotion, LoopsOK, queues, Queued
<1>10. NoLostWakeup'
  <2>1. audioReady
    BY <1>2 DEF NoLostWakeup, LoopsOK
  <2> QED
    BY <1>1, <2>1 DEF NoLostWakeup, queues, events
<1> QED
  BY <1>5, <1>7, <1>8, <1>9, <1>10

-----------------------------------------------------------------------------
\* The invariant is inductive.

THEOREM NextInv == IInv /\ [Next]_vars => IInv'
<1> SUFFICES ASSUME IInv, [Next]_vars PROVE IInv'
  OBVIOUS
<1>1. CASE \E r \in Requests : Submit(r)
  BY <1>1, SubmitInv
<1>2. CASE Interrupt
  BY <1>2, InterruptInv
<1>3. CASE MotionLoop
  BY <1>3, MotionNothingInv, MotionSuppressInv, MotionStartInv DEF MotionLoop
<1>4. CASE MotionReply \/ MotionFails
  BY <1>4, MotionAnswerInv
<1>5. CASE AudioNothing \/ \E e \in audioPending : AudioStartLocal(e) \/ AudioStart(e)
  BY <1>5, AudioNothingInv, AudioStartLocalInv, AudioStartInv
<1>6. CASE AudioReply \/ AudioFails
  BY <1>6, AudioAnswerInv
<1>7. CASE Quiet
  BY <1>7, QuietType, QuietRest DEF IInv
<1>8. CASE UNCHANGED vars
  <2> USE <1>8 DEF vars, clock, queues, events, accounts, motionLoop, audioLoop, body
  <2>1. TypeOK'
    BY DEF IInv, TypeOK
  <2>2. QueuesOK' /\ LoopsOK'
    BY DEF IInv, QueuesOK, LoopsOK, Queued
  <2>3. NoLostWakeup' /\ IdleExact'
    BY DEF IInv, NoLostWakeup, IdleExact, Unfinished
  <2> QED
    BY <2>1, <2>2, <2>3 DEF IInv
<1> QED
  BY <1>1, <1>2, <1>3, <1>4, <1>5, <1>6, <1>7, <1>8 DEF Next, AudioLoop, Quiet

THEOREM Invariance == Spec => []IInv
BY InitInv, NextInv, PTL DEF Spec

\* The variables keep their types.
THEOREM TypeCorrect == Spec => []TypeOK
<1>1. IInv => TypeOK
  BY DEF IInv
<1> QED
  BY <1>1, Invariance, PTL

\* wait_idle() neither returns early nor hangs: the count and the event are
\* exact, whatever is submitted, interrupted, coalesced, expired or refused.
THEOREM IdleIsExact == Spec => []IdleExact
<1>1. IInv => IdleExact
  BY DEF IInv
<1> QED
  BY <1>1, Invariance, PTL

\* No loop sleeps while it has work.
THEOREM NoWakeupIsLost == Spec => []NoLostWakeup
<1>1. IInv => NoLostWakeup
  BY DEF IInv
<1> QED
  BY <1>1, Invariance, PTL

\* audio_busy covers an audio command from submit() to the end of its playback
\* with no gap, even when calls fail or the audio loop is dead.
THEOREM GateHasNoGap == Spec => []GateCovers
<1>1. IInv => GateCovers
  <2> SUFFICES ASSUME IInv PROVE GateCovers
    OBVIOUS
  <2>1. CASE \E e \in audioPending : e.seq \notin dropped
    BY <2>1 DEF GateCovers, AudioBusy
  <2>2. CASE sending # {}
    BY <2>2 DEF IInv, LoopsOK, GateCovers, AudioBusy
  <2>3. CASE \E h \in currentPlayback : h.status = "on"
    BY <2>3 DEF GateCovers, AudioBusy
  <2> QED
    BY <2>1, <2>2, <2>3 DEF GateCovers, AudioServing
<1> QED
  BY <1>1, Invariance, PTL
=============================================================================
