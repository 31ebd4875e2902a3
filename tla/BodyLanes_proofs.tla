-------------------------- MODULE BodyLanes_proofs --------------------------
(***************************************************************************)
(* BodyController implements CommandLane twice, for every value of its     *)
(* constants: both lanes start empty and every step is a step of the lane  *)
(* or leaves it unchanged; and it is the gate of AudioGate, with every     *)
(* fault.  Then what holds when no reply is lost: the microphone never     *)
(* hears the rabbit, the tracked state is the body's, and with local audio *)
(* nothing is fired past its deadline.                                     *)
(***************************************************************************)
EXTENDS BodyController_proofs

MotionQueued == {e \in motionHeap : e.seq \notin dropped}
AudioQueued == {e \in audioPending : e.seq \notin dropped}

LEMMA TotalOrder ==
    ASSUME IInv, NEW e \in Queued, NEW f \in Queued
    PROVE  /\ e # f => Earlier(e, f) \/ Earlier(f, e)
           /\ ~(Earlier(e, f) /\ Earlier(f, e))
<1>1. e \in Entry /\ f \in Entry /\ (e.seq = f.seq => e = f)
  BY DEF IInv, TypeOK, QueuesOK, Queued
<1> QED
  BY <1>1, EntryFields DEF Earlier

LEMMA OrderTransitive ==
    ASSUME NEW e \in Entry, NEW f \in Entry, NEW g \in Entry,
           Earlier(e, f), Earlier(f, g)
    PROVE  Earlier(e, g)
BY EntryFields DEF Earlier

\* _pop_live leaves only entries that the one it returns goes before.
LEMMA FirstBeforeRest ==
    ASSUME IInv, NEW heap \in SUBSET Queued, NEW e \in FirstLive(heap),
           NEW f \in heap, f \notin PassedOver(heap), f # e
    PROVE  Earlier(e, f)
<1>1. PICK g \in LiveIn(heap) : ~Earlier(f, g)
  BY DEF PassedOver
<1>2. e \in heap /\ g \in heap /\ e \in Entry /\ f \in Entry /\ g \in Entry
  BY <1>1 DEF FirstLive, LiveIn, IInv, TypeOK, Queued
<1>3. CASE g = e
  BY <1>1, <1>2, <1>3, TotalOrder
<1>4. CASE g # e
  <2>1. Earlier(e, g)
    BY <1>1, <1>4 DEF FirstLive
  <2>2. CASE f = g
    BY <2>1, <2>2
  <2>3. CASE f # g
    <3>1. Earlier(g, f)
      BY <1>1, <1>2, <2>3, TotalOrder
    <3> QED
      BY <1>2, <2>1, <3>1, OrderTransitive
  <2> QED
    BY <2>2, <2>3
<1> QED
  BY <1>3, <1>4

\* Popping from one heap: what is left of the live queue.
LEMMA LaneAfterPop ==
    ASSUME IInv, NEW heap \in SUBSET Queued, NEW P \in SUBSET Queued, NEW G,
           P \cap heap \subseteq G, dropped' = dropped \ Seqs(P)
    PROVE  {x \in heap \ G : x.seq \notin dropped'} = {x \in heap : x.seq \notin dropped} \ G
<1>1. \A x \in Queued \ P : x.seq \in dropped' <=> x.seq \in dropped
  BY DroppedAfterPop DEF IInv
<1> QED
  BY <1>1

-----------------------------------------------------------------------------
\* The motion lane

LEMMA MotionLaneInit == Init => MotionLane!Init
BY DEF Init, MotionLane!Init

LEMMA MotionDiscard ==
    ASSUME NEW S \in SUBSET MotionQueued, MotionLane!Discard(S)
    PROVE  MotionLane!Next
BY Zenon DEF MotionLane!Next, MotionQueued

LEMMA MotionServe ==
    ASSUME NEW e \in MotionQueued, NEW S \in SUBSET MotionQueued, MotionLane!Serve(e, S)
    PROVE  MotionLane!Next
BY Zenon DEF MotionLane!Next, MotionQueued

LEMMA MotionLaneStep == IInv /\ [Next]_vars => [MotionLane!Next]_(MotionLane!lane)
<1> SUFFICES ASSUME IInv, [Next]_vars
             PROVE  MotionLane!Next \/ UNCHANGED <<MotionQueued, moving, nextSeq>>
  BY DEF MotionLane!lane, MotionQueued
<1> USE DEF IInv
<1>1. ASSUME NEW r \in Requests, Submit(r)
      PROVE  MotionLane!Next
  <2> DEFINE e == EntryOf(r, nextSeq, now)
  <2>1. e \in Entry /\ e.seq = nextSeq /\ nextSeq \notin dropped
    <3>1. e \in Entry /\ e.seq = nextSeq
      BY <1>1, NewEntry DEF Submit
    <3>2. nextSeq \notin dropped
      BY ConstantsAssumption DEF QueuesOK, TypeOK
    <3> QED
      BY <3>1, <3>2
  <2>2. CASE r.kind \in AudioKinds
    <3>1. MotionLane!AcceptElsewhere
      BY <1>1, <2>2 DEF Submit, MotionLane!AcceptElsewhere, motionLoop
    <3> QED
      BY <3>1 DEF MotionLane!Next
  <2>3. CASE r.kind \notin AudioKinds
    <3>1. MotionQueued' = MotionQueued \cup {e}
      BY <1>1, <2>1, <2>3 DEF Submit, MotionQueued
    <3>2. PICK x : x = e
      OBVIOUS
    <3>3. x \in Entry /\ MotionLane!Accept(x)
      BY <1>1, <2>1, <3>1, <3>2 DEF Submit, MotionLane!Accept, MotionQueued, motionLoop
    <3> QED
      BY <3>3, Zenon DEF MotionLane!Next
  <2> QED
    BY <2>2, <2>3
<1>2. CASE Interrupt
  <2>1. MotionQueued' = MotionQueued \ Interrupted
    BY <1>2 DEF Interrupt, MotionQueued, Interrupted, QueuesOK, Seqs, Queued
  <2>2. MotionQueued' = MotionQueued \ (Interrupted \cap MotionQueued)
    BY <2>1
  <2>3. PICK S : S = Interrupted \cap MotionQueued
    OBVIOUS
  <2>4. S \in SUBSET MotionQueued /\ MotionLane!Discard(S)
    BY <1>2, <2>2, <2>3 DEF MotionLane!Discard, MotionQueued, Interrupt, motionLoop
  <2> QED
    BY <2>4, MotionDiscard, Zenon
<1>3. CASE MotionNothing
  <2>1. PICK S : S = MotionQueued
    OBVIOUS
  <2>2. S \in SUBSET MotionQueued /\ MotionLane!Discard(S)
    BY <1>3, <2>1 DEF MotionNothing, MotionLane!Discard, MotionQueued, motionLoop
  <2> QED
    BY <2>2, MotionDiscard, Zenon
<1>4. ASSUME NEW e \in motionHeap, MotionSuppress(e)
      PROVE  MotionLane!Next
  <2> DEFINE P == PassedOver(motionHeap)
  <2>1. P \subseteq motionHeap
    BY DEF PassedOver
  <2>2. MotionQueued' = MotionQueued \ (P \cup {e})
    BY <1>4, <2>1, LaneAfterPop DEF MotionSuppress, MotionQueued, Queued
  <2>3. PICK S : S = (P \cup {e}) \cap MotionQueued
    OBVIOUS
  <2>4. S \in SUBSET MotionQueued /\ MotionLane!Discard(S)
    BY <1>4, <2>2, <2>3 DEF MotionSuppress, MotionLane!Discard, MotionQueued, motionLoop
  <2> QED
    BY <2>4, MotionDiscard, Zenon
<1>5. ASSUME NEW e \in motionHeap, MotionStart(e)
      PROVE  MotionLane!Next
  <2> DEFINE P == PassedOver(motionHeap)
  <2> PICK S : S = P \cap MotionQueued
    OBVIOUS
  <2>1. P \subseteq motionHeap /\ e \notin P /\ e \in MotionQueued
    BY <1>5, PopFacts DEF MotionStart, TypeOK, PassedOver, MotionQueued
  <2>2. MotionQueued' = MotionQueued \ (P \cup {e})
    BY <1>5, <2>1, LaneAfterPop DEF MotionStart, MotionQueued, Queued
  <2>3. /\ MotionQueued' = MotionQueued \ (S \cup {e})
        /\ e \in MotionQueued \ S
        /\ S \in SUBSET MotionQueued
    BY <2>1, <2>2
  <2>4. \A f \in MotionQueued' : Earlier(e, f)
    BY <1>5, <2>2, FirstBeforeRest DEF MotionStart, MotionQueued, Queued
  <2>5. moving = {} /\ moving' = {e} /\ nextSeq' = nextSeq
    BY <1>5 DEF MotionStart, LoopsOK
  <2>6. MotionLane!Serve(e, S)
    BY <2>3, <2>4, <2>5 DEF MotionLane!Serve, MotionLane!Before, Earlier, MotionQueued
  <2> QED
    BY <2>1, <2>3, <2>6, MotionServe, Zenon
<1>6. CASE MotionReply \/ MotionFails
  <2>1. MotionLane!Finish
    BY <1>6 DEF MotionReply, MotionFails, MotionLane!Finish, LoopsOK, queues
  <2> QED
    BY <2>1 DEF MotionLane!Next
<1>7. CASE AudioNothing
  <2>1. \A x \in Queued \ audioPending : x.seq \in dropped' <=> x.seq \in dropped
    BY <1>7, DroppedAfterPop DEF AudioNothing, Queued
  <2>2. motionHeap \subseteq Queued \ audioPending
    BY DEF QueuesOK, Queued
  <2>3. MotionQueued' = MotionQueued
    BY <1>7, <2>1, <2>2 DEF AudioNothing, MotionQueued
  <2> QED
    BY <1>7, <2>3 DEF AudioNothing, motionLoop
<1>8. ASSUME NEW e \in audioPending, AudioStartLocal(e) \/ AudioStart(e)
      PROVE  UNCHANGED <<MotionQueued, moving, nextSeq>>
  <2>2. PassedOver(audioPending) \in SUBSET Queued /\ PassedOver(audioPending) \subseteq audioPending
    BY DEF PassedOver, Queued
  <2>3. dropped' = dropped \ Seqs(PassedOver(audioPending)) /\ motionHeap' = motionHeap
    BY <1>8 DEF AudioStartLocal, AudioStart, PopAudio
  <2>4. \A x \in motionHeap : x \in Queued \ PassedOver(audioPending)
    BY <2>2 DEF QueuesOK, Queued
  <2>5. \A x \in motionHeap : x.seq \in dropped' <=> x.seq \in dropped
    BY <2>2, <2>3, <2>4, DroppedAfterPop
  <2>1. MotionQueued' = MotionQueued
    BY <2>3, <2>5 DEF MotionQueued
  <2> QED
    BY <1>8, <2>1 DEF AudioStartLocal, AudioStart, motionLoop
<1>9. CASE Quiet \/ AudioReply \/ AudioFails \/ UNCHANGED vars
  BY <1>9 DEF Quiet, PlaybackOver, Tick, BodyMoves, RabbitSpeaks, RabbitQuiet, AudioClears,
              AudioLoopDies, TimerFires, PlaybackEnds, AudioReply, AudioFails,
              MotionQueued, vars, queues, motionLoop
<1> QED
  BY <1>1, <1>2, <1>3, <1>4, <1>5, <1>6, <1>7, <1>8, <1>9
     DEF Next, MotionLoop, AudioLoop, Quiet

\* Gestures are served one at a time, by priority and then by age, none twice
\* and none that an interrupt dropped.
THEOREM MotionLaneRefinement == Spec => MotionLaneImplemented
BY MotionLaneInit, MotionLaneStep, Invariance, PTL DEF Spec, MotionLane!Spec, MotionLaneImplemented

-----------------------------------------------------------------------------
\* The audio lane

LEMMA AudioDiscard ==
    ASSUME NEW S \in SUBSET AudioQueued, AudioLane!Discard(S)
    PROVE  AudioLane!Next
BY Zenon DEF AudioLane!Next, AudioQueued

LEMMA AudioServe ==
    ASSUME NEW e \in AudioQueued, NEW S \in SUBSET AudioQueued, AudioLane!Serve(e, S)
    PROVE  AudioLane!Next
BY Zenon DEF AudioLane!Next, AudioQueued

\* What a pop from the audio heap does to the queue.
LEMMA AudioPopQueue ==
    ASSUME IInv, NEW e \in audioPending, PopAudio(e)
    PROVE  /\ e \in AudioQueued /\ e \notin PassedOver(audioPending)
           /\ AudioQueued' = AudioQueued \ (PassedOver(audioPending) \cup {e})
           /\ \A f \in AudioQueued' : Earlier(e, f)
           /\ AudioServing = {}
<1> DEFINE P == PassedOver(audioPending)
<1> USE DEF IInv
<1>1. P \subseteq audioPending /\ e \notin P /\ e \in AudioQueued
  BY PopFacts DEF PopAudio, TypeOK, PassedOver, AudioQueued
<1>2. AudioQueued' = AudioQueued \ (P \cup {e})
  BY <1>1, LaneAfterPop DEF PopAudio, AudioQueued, Queued
<1>3. \A f \in AudioQueued' : Earlier(e, f)
  BY <1>2, FirstBeforeRest DEF PopAudio, AudioQueued, Queued
<1>4. AudioServing = {}
  BY DEF PopAudio, AudioServing, LoopsOK
<1> QED
  BY <1>1, <1>2, <1>3, <1>4

\* A single handle in play is what the lane serves.
LEMMA ServingHandle ==
    ASSUME NEW h, h.status = "on", currentPlayback' = {h}, sending' = {}
    PROVE  AudioServing' = {h.entry}
BY DEF AudioServing

LEMMA AudioLaneInit == Init => AudioLane!Init
BY DEF Init, AudioLane!Init, AudioServing

LEMMA AudioLaneStep == IInv /\ [Next]_vars => [AudioLane!Next]_(AudioLane!lane)
<1> SUFFICES ASSUME IInv, [Next]_vars
             PROVE  AudioLane!Next \/ UNCHANGED <<AudioQueued, AudioServing, nextSeq>>
  BY DEF AudioLane!lane, AudioQueued
<1> USE DEF IInv
<1>1. ASSUME NEW r \in Requests, Submit(r)
      PROVE  AudioLane!Next
  <2> DEFINE e == EntryOf(r, nextSeq, now)
  <2>1. e \in Entry /\ e.seq = nextSeq /\ nextSeq \notin dropped
    <3>1. e \in Entry /\ e.seq = nextSeq
      BY <1>1, NewEntry DEF Submit
    <3>2. nextSeq \notin dropped
      BY ConstantsAssumption DEF QueuesOK, TypeOK
    <3> QED
      BY <3>1, <3>2
  <2>2. AudioServing' = AudioServing
    BY <1>1 DEF Submit, AudioServing, audioLoop
  <2>3. CASE r.kind \notin AudioKinds
    <3>1. AudioLane!AcceptElsewhere
      BY <1>1, <2>2, <2>3 DEF Submit, AudioLane!AcceptElsewhere
    <3> QED
      BY <3>1 DEF AudioLane!Next
  <2>4. CASE r.kind \in AudioKinds
    <3>1. AudioQueued' = AudioQueued \cup {e}
      BY <1>1, <2>1, <2>4 DEF Submit, AudioQueued
    <3>2. PICK x : x = e
      OBVIOUS
    <3>3. x \in Entry /\ AudioLane!Accept(x)
      BY <1>1, <2>1, <2>2, <3>1, <3>2 DEF Submit, AudioLane!Accept, AudioQueued
    <3> QED
      BY <3>3, Zenon DEF AudioLane!Next
  <2> QED
    BY <2>3, <2>4
<1>2. CASE Interrupt
  <2>1. AudioQueued' = AudioQueued \ Interrupted
    BY <1>2 DEF Interrupt, AudioQueued, Interrupted, QueuesOK, Seqs, Queued
  <2>2. AudioServing' = AudioServing /\ nextSeq' = nextSeq
    BY <1>2 DEF Interrupt, AudioServing, audioLoop
  <2>3. PICK S : S = Interrupted \cap AudioQueued
    OBVIOUS
  <2>4. S \in SUBSET AudioQueued /\ AudioLane!Discard(S)
    BY <2>1, <2>2, <2>3 DEF AudioLane!Discard, AudioQueued
  <2> QED
    BY <2>4, AudioDiscard, Zenon
<1>3. CASE AudioNothing
  <2>1. PICK S : S = AudioQueued
    OBVIOUS
  <2>2. AudioQueued' = {} /\ AudioServing' = AudioServing /\ nextSeq' = nextSeq
    BY <1>3 DEF AudioNothing, AudioQueued, AudioServing, audioLoop
  <2>3. S \in SUBSET AudioQueued /\ AudioLane!Discard(S)
    BY <2>1, <2>2 DEF AudioLane!Discard, AudioQueued
  <2> QED
    BY <2>3, AudioDiscard, Zenon
<1>4. ASSUME NEW e \in audioPending, AudioStartLocal(e)
      PROVE  AudioLane!Next
  <2> DEFINE P == PassedOver(audioPending)
  <2>1. /\ e \in AudioQueued /\ e \notin P
        /\ AudioQueued' = AudioQueued \ (P \cup {e})
        /\ \A f \in AudioQueued' : Earlier(e, f)
        /\ AudioServing = {}
        /\ nextSeq' = nextSeq
    BY <1>4, AudioPopQueue DEF AudioStartLocal
  <2>2. CASE currentPlayback' = currentPlayback   \* the file is missing
    <3>1. AudioServing' = AudioServing
      BY <1>4, <2>2 DEF AudioStartLocal, AudioServing
    <3>2. PICK S : S = (P \cup {e}) \cap AudioQueued
      OBVIOUS
    <3>3. S \in SUBSET AudioQueued /\ AudioLane!Discard(S)
      BY <2>1, <3>1, <3>2 DEF AudioLane!Discard, AudioQueued
    <3> QED
      BY <3>3, AudioDiscard, Zenon
  <2>3. CASE currentPlayback' = {[entry |-> e, device |-> "local", status |-> "on"]}
    <3>1. AudioServing' = {e}
      <4>1. sending' = {}
        BY <1>4 DEF AudioStartLocal, PopAudio, LoopsOK
      <4>2. PICK h : h = [entry |-> e, device |-> "local", status |-> "on"]
        OBVIOUS
      <4> QED
        BY <2>3, <4>1, <4>2, ServingHandle
    <3>2. PICK S : S = P \cap AudioQueued
      OBVIOUS
    <3>3. S \in SUBSET AudioQueued /\ AudioLane!Serve(e, S)
      BY <2>1, <3>1, <3>2 DEF AudioLane!Serve, AudioLane!Before, Earlier, AudioQueued
    <3> QED
      BY <2>1, <3>3, AudioServe, Zenon
  <2> QED
    BY <1>4, <2>2, <2>3 DEF AudioStartLocal
<1>5. ASSUME NEW e \in audioPending, AudioStart(e)
      PROVE  AudioLane!Next
  <2> DEFINE P == PassedOver(audioPending)
  <2>1. /\ e \in AudioQueued /\ e \notin P
        /\ AudioQueued' = AudioQueued \ (P \cup {e})
        /\ \A f \in AudioQueued' : Earlier(e, f)
        /\ AudioServing = {}
        /\ nextSeq' = nextSeq
    BY <1>5, AudioPopQueue DEF AudioStart
  <2>2. AudioServing' = {e}
    BY <1>5 DEF AudioStart, PopAudio, AudioServing
  <2>3. PICK S : S = P \cap AudioQueued
    OBVIOUS
  <2>4. S \in SUBSET AudioQueued /\ AudioLane!Serve(e, S)
    BY <2>1, <2>2, <2>3 DEF AudioLane!Serve, AudioLane!Before, Earlier, AudioQueued
  <2> QED
    BY <2>1, <2>4, AudioServe, Zenon
<1>6. CASE AudioReply
  <2>1. PICK e \in Entry : sending = {e} /\ sending' = {} /\ currentPlayback = {}
    BY <1>6 DEF AudioReply, LoopsOK
  <2>2. currentPlayback' = {[entry |-> e, device |-> "timed", status |-> "on"]}
    BY <1>6, <2>1 DEF AudioReply
  <2>3. PICK h : h = [entry |-> e, device |-> "timed", status |-> "on"]
    OBVIOUS
  <2>4. AudioServing = {e} /\ AudioServing' = {e}
    <3>1. AudioServing = {e}
      BY <2>1 DEF AudioServing
    <3>2. AudioServing' = {e}
      BY <2>1, <2>2, <2>3, ServingHandle
    <3> QED
      BY <3>1, <3>2
  <2>5. AudioServing' = AudioServing
    BY <2>4
  <2> QED
    BY <1>6, <2>5 DEF AudioReply, AudioQueued, queues
<1>7. CASE AudioFails
  <2>1. sending # {} /\ currentPlayback = {}
    BY <1>7 DEF AudioFails, LoopsOK
  <2>2. AudioLane!Finish
    BY <1>7, <2>1 DEF AudioFails, AudioLane!Finish, AudioServing, queues
  <2> QED
    BY <2>2 DEF AudioLane!Next
<1>8. ASSUME NEW h \in currentPlayback, NEW o \in {"done", "failed"},
             TimerFires(h) \/ PlaybackEnds(h, o)
      PROVE  AudioLane!Next
  <2>1. sending = {} /\ h.status = "on" /\ sending' = {} /\ UNCHANGED queues
    BY <1>8 DEF TimerFires, PlaybackEnds, LoopsOK
  <2>2. \A g \in currentPlayback' : g.status \in {"done", "failed"}
    <3>1. h \in Handle
      BY DEF TypeOK
    <3> QED
      BY <1>8, <3>1 DEF TimerFires, PlaybackEnds, Handle
  <2>3. AudioServing # {} /\ AudioServing' = {}
    BY <2>1, <2>2 DEF AudioServing
  <2>4. AudioLane!Finish
    BY <2>1, <2>3 DEF AudioLane!Finish, queues
  <2> QED
    BY <2>4 DEF AudioLane!Next
<1>9. ASSUME NEW h \in currentPlayback, AudioClears(h) \/ AudioLoopDies(h)
      PROVE  UNCHANGED <<AudioQueued, AudioServing, nextSeq>>
  BY <1>9 DEF AudioClears, AudioLoopDies, AudioQueued, AudioServing, queues, LoopsOK
<1>10. CASE MotionNothing
  <2>1. \A x \in Queued \ motionHeap : x.seq \in dropped' <=> x.seq \in dropped
    BY <1>10, DroppedAfterPop DEF MotionNothing, Queued
  <2>2. audioPending \subseteq Queued \ motionHeap
    BY DEF QueuesOK, Queued
  <2>3. AudioQueued' = AudioQueued
    BY <1>10, <2>1, <2>2 DEF MotionNothing, AudioQueued
  <2> QED
    BY <1>10, <2>3 DEF MotionNothing, AudioServing, audioLoop
<1>11. ASSUME NEW e \in motionHeap, MotionSuppress(e) \/ MotionStart(e)
       PROVE  UNCHANGED <<AudioQueued, AudioServing, nextSeq>>
  <2>1. PassedOver(motionHeap) \in SUBSET Queued /\ PassedOver(motionHeap) \subseteq motionHeap
    BY DEF PassedOver, Queued
  <2>2. dropped' = dropped \ Seqs(PassedOver(motionHeap)) /\ audioPending' = audioPending
    BY <1>11 DEF MotionSuppress, MotionStart
  <2>3. \A x \in audioPending : x \in Queued \ PassedOver(motionHeap)
    BY <2>1 DEF QueuesOK, Queued
  <2>4. \A x \in audioPending : x.seq \in dropped' <=> x.seq \in dropped
    BY <2>1, <2>2, <2>3, DroppedAfterPop
  <2>5. AudioQueued' = AudioQueued
    BY <2>2, <2>4 DEF AudioQueued
  <2> QED
    BY <1>11, <2>5 DEF MotionSuppress, MotionStart, AudioServing, audioLoop
<1>12. CASE \/ Tick \/ BodyMoves \/ RabbitSpeaks \/ MotionReply \/ MotionFails
            \/ \E e \in speaker : RabbitQuiet(e)
            \/ UNCHANGED vars
  BY <1>12 DEF Tick, BodyMoves, RabbitSpeaks, RabbitQuiet, MotionReply, MotionFails,
               AudioQueued, AudioServing, vars, queues, audioLoop
<1> QED
  BY <1>1, <1>2, <1>3, <1>4, <1>5, <1>6, <1>7, <1>8, <1>9, <1>10, <1>11, <1>12
     DEF Next, MotionLoop, AudioLoop, PlaybackOver

\* Utterances are served one at a time, by priority and then by age, none twice
\* and none that an interrupt dropped.
THEOREM AudioLaneRefinement == Spec => AudioLaneImplemented
BY AudioLaneInit, AudioLaneStep, Invariance, PTL DEF Spec, AudioLane!Spec, AudioLaneImplemented

-----------------------------------------------------------------------------
\* What the lanes promise together: a command is executed once at most, and never
\* after it was dropped.

InLanes == MotionQueued \cup moving \cup AudioQueued \cup AudioServing

\* What a step of the abstract lane may bring in.
LEMMA MotionBrings ==
    ASSUME [MotionLane!Next]_(MotionLane!lane)
    PROVE  /\ moving' \subseteq moving \cup MotionQueued
           /\ \A e \in MotionQueued' \cup moving' :
                  e \in MotionQueued \cup moving \/ e.seq = nextSeq
           /\ nextSeq' \in {nextSeq, nextSeq + 1}
<1>1. ASSUME NEW e \in Entry, MotionLane!Accept(e)
      PROVE  /\ moving' = moving /\ MotionQueued' = MotionQueued \cup {e}
             /\ e.seq = nextSeq /\ nextSeq' = nextSeq + 1
  BY <1>1 DEF MotionLane!Accept, MotionQueued
<1>2. ASSUME NEW e \in MotionQueued, NEW S \in SUBSET MotionQueued, MotionLane!Serve(e, S)
      PROVE  moving' = {e} /\ MotionQueued' \subseteq MotionQueued /\ nextSeq' = nextSeq
  BY <1>2 DEF MotionLane!Serve, MotionQueued
<1>3. ASSUME \/ MotionLane!AcceptElsewhere \/ MotionLane!Finish
             \/ \E S \in SUBSET MotionQueued : MotionLane!Discard(S)
             \/ UNCHANGED MotionLane!lane
      PROVE  /\ moving' \subseteq moving /\ MotionQueued' \subseteq MotionQueued
             /\ nextSeq' \in {nextSeq, nextSeq + 1}
  BY <1>3 DEF MotionLane!AcceptElsewhere, MotionLane!Finish, MotionLane!Discard,
              MotionLane!lane, MotionQueued
<1>4. \/ \E e \in Entry : MotionLane!Accept(e)
      \/ \E e \in MotionQueued, S \in SUBSET MotionQueued : MotionLane!Serve(e, S)
      \/ MotionLane!AcceptElsewhere \/ MotionLane!Finish
      \/ \E S \in SUBSET MotionQueued : MotionLane!Discard(S)
      \/ UNCHANGED MotionLane!lane
  BY DEF MotionLane!Next, MotionQueued
<1> QED
  BY <1>1, <1>2, <1>3, <1>4

LEMMA AudioBrings ==
    ASSUME [AudioLane!Next]_(AudioLane!lane)
    PROVE  /\ AudioServing' \subseteq AudioServing \cup AudioQueued
           /\ \A e \in AudioQueued' \cup AudioServing' :
                  e \in AudioQueued \cup AudioServing \/ e.seq = nextSeq
<1>1. ASSUME NEW e \in Entry, AudioLane!Accept(e)
      PROVE  /\ AudioServing' = AudioServing /\ AudioQueued' = AudioQueued \cup {e}
             /\ e.seq = nextSeq
  BY <1>1 DEF AudioLane!Accept, AudioQueued
<1>2. ASSUME NEW e \in AudioQueued, NEW S \in SUBSET AudioQueued, AudioLane!Serve(e, S)
      PROVE  AudioServing' = {e} /\ AudioQueued' \subseteq AudioQueued
  BY <1>2 DEF AudioLane!Serve, AudioQueued
<1>3. ASSUME \/ AudioLane!AcceptElsewhere \/ AudioLane!Finish
             \/ \E S \in SUBSET AudioQueued : AudioLane!Discard(S)
             \/ UNCHANGED AudioLane!lane
      PROVE  AudioServing' \subseteq AudioServing /\ AudioQueued' \subseteq AudioQueued
  BY <1>3 DEF AudioLane!AcceptElsewhere, AudioLane!Finish, AudioLane!Discard,
              AudioLane!lane, AudioQueued
<1>4. \/ \E e \in Entry : AudioLane!Accept(e)
      \/ \E e \in AudioQueued, S \in SUBSET AudioQueued : AudioLane!Serve(e, S)
      \/ AudioLane!AcceptElsewhere \/ AudioLane!Finish
      \/ \E S \in SUBSET AudioQueued : AudioLane!Discard(S)
      \/ UNCHANGED AudioLane!lane
  BY DEF AudioLane!Next, AudioQueued
<1> QED
  BY <1>1, <1>2, <1>3, <1>4

\* What has left the lanes, played, dropped, expired or failed, never comes back, and
\* what a lane begins to execute was queued and not dropped (ARCHITECTURE.md, 6.4).
FinishedForGood ==
    [][/\ \A e \in Entry : e.seq < nextSeq /\ e \notin InLanes =>
              e.seq < nextSeq' /\ e \notin InLanes'
       /\ moving' \ moving \subseteq MotionQueued
       /\ AudioServing' \ AudioServing \subseteq AudioQueued]_vars
THEOREM NothingIsServedTwice == Spec => FinishedForGood
<1>1. IInv /\ [Next]_vars =>
          [/\ \A e \in Entry : e.seq < nextSeq /\ e \notin InLanes =>
                  e.seq < nextSeq' /\ e \notin InLanes'
           /\ moving' \ moving \subseteq MotionQueued
           /\ AudioServing' \ AudioServing \subseteq AudioQueued]_vars
  <2> SUFFICES ASSUME IInv, [Next]_vars
               PROVE  /\ \A e \in Entry : e.seq < nextSeq /\ e \notin InLanes =>
                             e.seq < nextSeq' /\ e \notin InLanes'
                      /\ moving' \ moving \subseteq MotionQueued
                      /\ AudioServing' \ AudioServing \subseteq AudioQueued
    OBVIOUS
  <2>1. /\ moving' \subseteq moving \cup MotionQueued
        /\ \A e \in MotionQueued' \cup moving' :
               e \in MotionQueued \cup moving \/ e.seq = nextSeq
        /\ nextSeq' \in {nextSeq, nextSeq + 1}
    BY MotionLaneStep, MotionBrings
  <2>2. /\ AudioServing' \subseteq AudioServing \cup AudioQueued
        /\ \A e \in AudioQueued' \cup AudioServing' :
               e \in AudioQueued \cup AudioServing \/ e.seq = nextSeq
    BY AudioLaneStep, AudioBrings
  <2>3. nextSeq \in Nat /\ \A e \in Entry : e.seq \in Nat
    BY ConstantsAssumption, EntryFields DEF IInv, TypeOK
  <2>4. ASSUME NEW e \in Entry, e.seq < nextSeq, e \notin InLanes
        PROVE  e.seq < nextSeq' /\ e \notin InLanes'
    <3>1. e.seq # nextSeq /\ e.seq < nextSeq'
      BY <2>1, <2>3, <2>4
    <3> QED
      BY <2>1, <2>2, <2>4, <3>1 DEF InLanes
  <2> QED
    BY <2>1, <2>2, <2>4
<1> QED
  BY <1>1, Invariance, PTL DEF Spec, FinishedForGood

-----------------------------------------------------------------------------
\* What the lanes share: the transport and its lock (ojn_adapter.py:103).

\* One request is out at a time, and whoever waits for the lock waits for the other
\* lane's request: a lock that nobody holds is handed on to nobody.
LockIsHeld ==
    /\ ~(motionAt = "http" /\ audioAt = "http")
    /\ motionAt = "lock" => audioAt = "http"
    /\ audioAt = "lock" => motionAt = "http"

LEMMA LockStep == ASSUME IInv, LockIsHeld, [Next]_vars PROVE LockIsHeld'
<1>1. ASSUME NEW e, MotionStart(e) \/ AudioStart(e)
      PROVE  LockIsHeld'
  BY <1>1 DEF MotionStart, AudioStart, PopAudio, LockIsHeld, motionLoop, audioLoop
<1>2. CASE MotionReply \/ MotionFails
  BY <1>2 DEF MotionReply, MotionFails, HandLockToAudio, LockIsHeld
<1>3. CASE AudioReply \/ AudioFails
  BY <1>3 DEF AudioReply, AudioFails, HandLockToMotion, LockIsHeld
<1>4. ASSUME NEW h, AudioLoopDies(h)
      PROVE  LockIsHeld'
  BY <1>4 DEF AudioLoopDies, LockIsHeld, motionLoop
<1>5. CASE \/ \E r \in Requests : Submit(r)
           \/ Tick \/ Interrupt \/ MotionNothing \/ BodyMoves \/ AudioNothing \/ RabbitSpeaks
           \/ (\E e \in speaker : RabbitQuiet(e))
           \/ UNCHANGED vars
  BY <1>5 DEF Submit, Tick, Interrupt, MotionNothing, BodyMoves, AudioNothing, RabbitSpeaks,
              RabbitQuiet, vars, LockIsHeld, motionLoop, audioLoop
<1>6. ASSUME NEW e, MotionSuppress(e) \/ AudioStartLocal(e)
      PROVE  LockIsHeld'
  BY <1>6 DEF MotionSuppress, AudioStartLocal, LockIsHeld, motionLoop, audioLoop
<1>7. ASSUME NEW h, NEW o, AudioClears(h) \/ TimerFires(h) \/ PlaybackEnds(h, o)
      PROVE  LockIsHeld'
  BY <1>7 DEF AudioClears, TimerFires, PlaybackEnds, LockIsHeld, motionLoop
<1> QED
  BY <1>1, <1>2, <1>3, <1>4, <1>5, <1>6, <1>7
     DEF Next, MotionLoop, AudioLoop, PlaybackOver

\* The lanes share the transport without two requests at once and without a lane
\* that waits for a lock nobody will release, whatever fails.
THEOREM TransportIsShared == Spec => []LockIsHeld
<1>1. Init => LockIsHeld
  BY DEF Init, LockIsHeld
<1> QED
  BY <1>1, LockStep, Invariance, PTL DEF Spec

-----------------------------------------------------------------------------
\* What ends the audio lane

DeviceFails ==
    /\ \A h \in currentPlayback :
           /\ h.device = "local" => localAudio
           /\ h.status = "failed" => h.device = "local" /\ "device" \in faults
    /\ audioAt = "dead" => \E h \in currentPlayback : h.status = "failed"

LEMMA DeviceFailsKept ==
    ASSUME DeviceFails, UNCHANGED <<localAudio, faults, currentPlayback>>,
           audioAt' = audioAt \/ audioAt' # "dead"
    PROVE  DeviceFails'
BY DEF DeviceFails

LEMMA DeviceStep ==
    ASSUME IInv, DeviceFails, [Next]_vars
    PROVE  DeviceFails' /\ (audioAt = "dead" => audioAt' = "dead")
<1>1. ASSUME NEW e \in motionHeap, MotionSuppress(e) \/ MotionStart(e)
      PROVE  DeviceFails' /\ audioAt' = audioAt
  BY <1>1, DeviceFailsKept DEF MotionSuppress, MotionStart, clock, audioLoop
<1>2. CASE MotionReply \/ MotionFails
  <2>1. DeviceFails'
    BY <1>2, DeviceFailsKept DEF MotionReply, MotionFails, HandLockToAudio, clock
  <2>2. audioAt = "dead" => audioAt' = "dead"
    BY <1>2 DEF MotionReply, MotionFails, HandLockToAudio
  <2> QED
    BY <2>1, <2>2
<1>3. ASSUME \/ \E r \in Requests : Submit(r)
             \/ Tick \/ Interrupt \/ MotionNothing \/ BodyMoves \/ AudioNothing \/ RabbitSpeaks
             \/ (\E e \in speaker : RabbitQuiet(e))
             \/ UNCHANGED vars
      PROVE  DeviceFails' /\ audioAt' = audioAt
  <2>1. UNCHANGED <<localAudio, faults, currentPlayback, audioAt>>
    BY <1>3 DEF Submit, Tick, Interrupt, MotionNothing, BodyMoves, AudioNothing, RabbitSpeaks,
                RabbitQuiet, vars, clock, audioLoop
  <2> QED
    BY <2>1, DeviceFailsKept
<1>4. ASSUME NEW e \in audioPending, AudioStartLocal(e)
      PROVE  DeviceFails' /\ audioAt # "dead"
  <2>1. audioAt = "top" /\ audioAt' = "top" /\ localAudio /\ localAudio' /\ faults' = faults
    BY <1>4 DEF AudioStartLocal, PopAudio, Locally, clock
  <2>2. CASE UNCHANGED <<currentPlayback, speaker>>
    BY <2>1, <2>2 DEF DeviceFails
  <2>3. CASE currentPlayback' = {[entry |-> e, device |-> "local", status |-> "on"]}
    BY <2>1, <2>3 DEF DeviceFails
  <2> QED
    BY <1>4, <2>1, <2>2, <2>3 DEF AudioStartLocal
<1>5. ASSUME NEW e \in audioPending, AudioStart(e)
      PROVE  DeviceFails' /\ audioAt # "dead"
  BY <1>5, DeviceFailsKept DEF AudioStart, PopAudio, clock
<1>6. ASSUME AudioReply
      PROVE  DeviceFails' /\ audioAt # "dead"
  BY <1>6 DEF AudioReply, DeviceFails, clock
<1>7. ASSUME AudioFails
      PROVE  DeviceFails' /\ audioAt # "dead"
  BY <1>7, DeviceFailsKept DEF AudioFails, clock
<1>8. ASSUME NEW h \in currentPlayback, AudioClears(h) \/ AudioLoopDies(h)
      PROVE  DeviceFails' /\ audioAt # "dead"
  BY <1>8 DEF AudioClears, AudioLoopDies, DeviceFails, clock
<1>9. ASSUME NEW h \in currentPlayback, NEW o \in {"done", "failed"},
             TimerFires(h) \/ PlaybackEnds(h, o)
      PROVE  DeviceFails' /\ audioAt # "dead" /\ audioAt' = audioAt
  <2>1. currentPlayback = {h} /\ h \in Handle /\ h.status = "on"
    BY <1>9 DEF TimerFires, PlaybackEnds, IInv, LoopsOK
  <2>2. audioAt # "dead" /\ audioAt' = audioAt /\ localAudio' = localAudio /\ faults' = faults
    BY <1>9, <2>1 DEF DeviceFails, TimerFires, PlaybackEnds, clock
  <2>3. CASE TimerFires(h)
    BY <2>1, <2>2, <2>3 DEF TimerFires, DeviceFails, Handle
  <2>4. CASE PlaybackEnds(h, o)
    BY <2>1, <2>2, <2>4 DEF PlaybackEnds, DeviceFails, Handle
  <2> QED
    BY <1>9, <2>2, <2>3, <2>4
<1> QED
  BY <1>1, <1>2, <1>3, <1>4, <1>5, <1>6, <1>7, <1>8, <1>9
     DEF Next, MotionLoop, AudioLoop, PlaybackOver

\* Only a local playback that raised ends the audio loop (no refused call and no lost
\* reply does), and then the gate is closed for good, as nothing starts it again.
OnlyTheDevice == audioAt = "dead" => localAudio /\ "device" \in faults /\ AudioBusy
THEOREM OnlyTheDeviceEndsIt ==
    Spec => []OnlyTheDevice /\ [][audioAt = "dead" => audioAt' = "dead"]_vars
<1>1. Init => DeviceFails
  BY DEF Init, DeviceFails
<1>2. IInv /\ DeviceFails /\ [Next]_vars =>
          DeviceFails' /\ [audioAt = "dead" => audioAt' = "dead"]_vars
  BY DeviceStep
<1>3. IInv /\ DeviceFails => OnlyTheDevice
  BY DEF DeviceFails, OnlyTheDevice, AudioBusy
<1> QED
  BY <1>1, <1>2, <1>3, Invariance, PTL DEF Spec

-----------------------------------------------------------------------------
\* The gate, with every fault.

\* What the gate counts: the commands without a handle.
Unheard == audioPending \cup sending

Applied == audioApplied => audioAt = "http"

LEMMA UnheardIs ==
    ASSUME IInv
    PROVE  /\ IsFiniteSet(Unheard) /\ Owed = Cardinality(Unheard) /\ Owed \in Nat
           /\ Owed = 0 <=> Unheard = {}
           /\ audioPending \cap sending = {}
<1> USE DEF IInv
<1>1. IsFiniteSet(audioPending)
  BY FS_Subset DEF QueuesOK, Queued
<1>2. IsFiniteSet(sending)
  <2>1. sending = {} \/ \E e \in Entry : sending = {e}
    BY DEF LoopsOK
  <2> QED
    BY <2>1, FS_EmptySet, FS_Singleton, Zenon
<1>3. IsFiniteSet(Unheard)
  BY <1>1, <1>2, FS_Union DEF Unheard
<1>4. Owed = Cardinality(Unheard)
  BY DEF Owed, Unheard
<1>5. audioPending \cap sending = {}
  BY DEF LoopsOK, Queued
<1> QED
  BY <1>3, <1>4, <1>5, FS_CardinalityType, FS_EmptySet

LEMMA OwedKept == ASSUME Unheard' = Unheard PROVE Owed' = Owed
BY DEF Owed, Unheard

LEMMA OwedMore ==
    ASSUME IInv, NEW e, e \notin Unheard, Unheard' = Unheard \cup {e}
    PROVE  Owed' = Owed + 1
<1>1. IsFiniteSet(Unheard) /\ Owed = Cardinality(Unheard)
  BY UnheardIs
<1>2. Cardinality(Unheard \cup {e}) = Cardinality(Unheard) + 1
  BY <1>1, FS_AddElement
<1> QED
  BY <1>1, <1>2 DEF Owed, Unheard

LEMMA OwedLess ==
    ASSUME IInv, NEW S \in SUBSET Unheard, S # {}, Unheard' = Unheard \ S
    PROVE  Cardinality(S) \in 1..Owed /\ Owed' = Owed - Cardinality(S)
<1>1. IsFiniteSet(Unheard) /\ Owed = Cardinality(Unheard) /\ Owed \in Nat
  BY UnheardIs
<1>2. IsFiniteSet(S) /\ Cardinality(S) <= Cardinality(Unheard)
  BY <1>1, FS_Subset
<1>3. Cardinality(S) \in Nat /\ Cardinality(S) # 0
  BY <1>2, FS_CardinalityType, FS_EmptySet
<1>4. Cardinality(Unheard \ S) = Cardinality(Unheard) - Cardinality(Unheard \cap S)
  BY <1>1, FS_Difference
<1>5. Unheard \cap S = S /\ Owed' = Cardinality(Unheard \ S)
  BY DEF Owed, Unheard
<1>6. Owed' = Owed - Cardinality(S)
  BY <1>1, <1>4, <1>5
<1> QED
  BY <1>1, <1>2, <1>3, <1>6

\* What a single handle tells, before and after a step.
LEMMA PlayingIs ==
    /\ audioApplied => Playing = "starting"
    /\ ~audioApplied /\ currentPlayback = {} => Playing = "none"
    /\ \A h : ~audioApplied /\ currentPlayback = {h} => Playing = HandleTells(h)
BY DEF Playing

LEMMA PlayingBecomes ==
    /\ audioApplied' => Playing' = "starting"
    /\ ~audioApplied' /\ currentPlayback' = {} => Playing' = "none"
    /\ \A h : ~audioApplied' /\ currentPlayback' = {h} => Playing' = HandleTells(h)'
BY DEF Playing

LEMMA PlayingKept ==
    ASSUME UNCHANGED <<audioApplied, currentPlayback, speaker>>
    PROVE  Playing' = Playing
BY DEF Playing, HandleTells

\* audio_busy, written without the handle, and as the gate has it.
LEMMA BusyIs == IInv /\ Applied => (AudioBusy <=> Gate!Closed)
<1> SUFFICES ASSUME IInv, Applied PROVE AudioBusy <=> Gate!Closed
  OBVIOUS
<1> USE DEF IInv
<1>1. Owed \in Nat /\ (Owed > 0 <=> audioPending # {} \/ audioInflight)
  BY UnheardIs DEF LoopsOK, Unheard
<1>2. audioApplied => audioInflight
  BY DEF Applied, LoopsOK
<1>3. CASE currentPlayback = {}
  <2>1. AudioBusy <=> audioPending # {} \/ audioInflight
    BY <1>3 DEF AudioBusy
  <2>2. audioApplied \/ Playing = "none"
    BY <1>3, PlayingIs
  <2> QED
    BY <1>1, <1>2, <2>1, <2>2 DEF Gate!Closed
<1>4. CASE currentPlayback # {}
  <2>1. PICK h \in Handle : currentPlayback = {h}
    BY <1>4 DEF LoopsOK
  <2>2. ~audioApplied
    BY <1>2, <1>4 DEF LoopsOK
  <2>3. Playing = HandleTells(h)
    BY <2>1, <2>2, PlayingIs
  <2>4. Playing # "none" <=> ~(h.device = "timed" /\ h.status = "done")
    BY <2>3 DEF HandleTells, Handle
  <2>5. AudioBusy <=> audioPending # {} \/ audioInflight \/ ~(h.device = "timed" /\ h.status = "done")
    BY <2>1 DEF AudioBusy
  <2> QED
    BY <1>1, <2>4, <2>5 DEF Gate!Closed
<1> QED
  BY <1>3, <1>4

LEMMA AppliedStep == IInv /\ Applied /\ [Next]_vars => Applied'
<1> SUFFICES ASSUME IInv, Applied, [Next]_vars PROVE Applied'
  OBVIOUS
<1> USE DEF Applied
<1>1. CASE MotionReply \/ MotionFails
  BY <1>1 DEF MotionReply, MotionFails, HandLockToAudio
<1>2. CASE AudioReply \/ AudioFails \/ RabbitSpeaks
  BY <1>2 DEF AudioReply, AudioFails, RabbitSpeaks
<1>3. ASSUME NEW e \in audioPending, AudioStartLocal(e) \/ AudioStart(e)
      PROVE  Applied'
  BY <1>3 DEF AudioStartLocal, AudioStart, PopAudio
<1>4. ASSUME NEW h \in currentPlayback, NEW o \in {"done", "failed"},
             AudioClears(h) \/ AudioLoopDies(h) \/ TimerFires(h) \/ PlaybackEnds(h, o)
      PROVE  Applied'
  BY <1>4 DEF AudioClears, AudioLoopDies, TimerFires, PlaybackEnds
<1>5. CASE \/ Tick \/ Interrupt \/ MotionNothing \/ BodyMoves \/ AudioNothing
           \/ (\E r \in Requests : Submit(r))
           \/ (\E e \in motionHeap : MotionSuppress(e) \/ MotionStart(e))
           \/ (\E e \in speaker : RabbitQuiet(e))
           \/ UNCHANGED vars
  BY <1>5 DEF Tick, Interrupt, MotionNothing, BodyMoves, AudioNothing, Submit, MotionSuppress,
              MotionStart, RabbitQuiet, vars, audioLoop
<1> QED
  BY <1>1, <1>2, <1>3, <1>4, <1>5 DEF Next, MotionLoop, AudioLoop, PlaybackOver

LEMMA GateDiscards ==
    ASSUME IInv, NEW S \in SUBSET Unheard, Unheard' = Unheard \ S,
           Playing = "none", Playing' = "none"
    PROVE  Gate!Step \/ UNCHANGED <<Owed, Playing>>
<1>1. CASE S = {}
  BY <1>1, OwedKept
<1>2. CASE S # {}
  <2>1. PICK n : n = Cardinality(S)
    OBVIOUS
  <2>2. n \in 1..Owed /\ Gate!Discarded(n)
    BY <1>2, <2>1, OwedLess DEF Gate!Discarded
  <2> QED
    BY <2>2, Zenon DEF Gate!Step
<1> QED
  BY <1>1, <1>2

\* A pop that starts a playback at once, or none.
LEMMA GatePlays ==
    ASSUME IInv, NEW S \in SUBSET Unheard, S # {}, Unheard' = Unheard \ S,
           Playing = "none", Playing' = "sounding"
    PROVE  Gate!Step
<1>1. PICK n : n = Cardinality(S)
  OBVIOUS
<1>2. n \in 1..Owed /\ Gate!PlaysAtOnce(n)
  BY <1>1, OwedLess DEF Gate!PlaysAtOnce
<1> QED
  BY <1>2, Zenon DEF Gate!Step

\* Nothing sounds that the loop has a handle for while it pops.
LEMMA GatePops ==
    ASSUME IInv, Applied, NEW e \in audioPending, PopAudio(e)
    PROVE  /\ Playing = "none" /\ ~audioApplied /\ sending = {}
           /\ PassedOver(audioPending) \subseteq audioPending /\ e \notin PassedOver(audioPending)
           /\ audioPending' = audioPending \ (PassedOver(audioPending) \cup {e})
<1>1. ~audioApplied /\ currentPlayback = {} /\ sending = {}
  BY DEF PopAudio, Applied, IInv, LoopsOK
<1>2. Playing = "none"
  BY <1>1, PlayingIs
<1>3. PassedOver(audioPending) \subseteq audioPending /\ e \notin PassedOver(audioPending)
  BY AudioPopQueue DEF PassedOver
<1> QED
  BY <1>1, <1>2, <1>3 DEF PopAudio

LEMMA GateStep ==
    ASSUME IInv, Applied, [Next]_vars
    PROVE  Gate!Step \/ UNCHANGED <<Owed, Playing>>
<1> USE DEF IInv
<1>1. ASSUME NEW r \in Requests, Submit(r)
      PROVE  Gate!Step \/ UNCHANGED <<Owed, Playing>>
  <2>1. PICK e : e = EntryOf(r, nextSeq, now)
    OBVIOUS
  <2>2. Playing' = Playing /\ sending' = sending
    BY <1>1, PlayingKept DEF Submit, audioLoop, body
  <2>3. CASE r.kind \notin AudioKinds
    BY <1>1, <2>2, <2>3, OwedKept DEF Submit, Unheard
  <2>4. CASE r.kind \in AudioKinds
    <3>1. e.seq = nextSeq
      BY <1>1, <2>1, NewEntry DEF Submit
    <3>2. nextSeq \in Nat /\ \A f \in Unheard : f.seq < nextSeq
      BY DEF TypeOK, QueuesOK, Queued, LoopsOK, Unheard
    <3>3. e \notin Unheard
      BY <3>1, <3>2
    <3>4. Unheard' = Unheard \cup {e}
      BY <1>1, <2>1, <2>2, <2>4 DEF Submit, Unheard
    <3>5. Gate!Accepted
      BY <2>2, <3>3, <3>4, OwedMore DEF Gate!Accepted
    <3> QED
      BY <3>5 DEF Gate!Step
  <2> QED
    BY <2>3, <2>4
<1>2. CASE AudioNothing
  <2>1. ~audioApplied /\ ~audioApplied' /\ currentPlayback' = {} /\ currentPlayback = {}
    BY <1>2 DEF AudioNothing, audioLoop, Applied
  <2>2. Playing = "none" /\ Playing' = "none"
    BY <2>1, PlayingIs, PlayingBecomes
  <2>3. PICK S \in SUBSET Unheard : S = audioPending
    BY DEF Unheard
  <2>4. Unheard' = Unheard \ S
    BY <1>2, <2>3, UnheardIs DEF AudioNothing, audioLoop, Unheard
  <2> QED
    BY <2>2, <2>4, GateDiscards
<1>3. ASSUME NEW e \in audioPending, AudioStartLocal(e)
      PROVE  Gate!Step \/ UNCHANGED <<Owed, Playing>>
  <2>1. PopAudio(e) /\ ~audioApplied'
    BY <1>3 DEF AudioStartLocal, PopAudio, Applied
  <2>2. PICK S \in SUBSET Unheard : S = PassedOver(audioPending) \cup {e}
    BY <2>1, GatePops DEF Unheard
  <2>3. /\ Playing = "none" /\ S # {} /\ sending = {} /\ sending' = {}
        /\ Unheard' = Unheard \ S
    BY <1>3, <2>1, <2>2, GatePops DEF AudioStartLocal, Unheard
  <2>4. CASE currentPlayback' = currentPlayback   \* the file is missing
    <3>1. Playing' = "none"
      BY <2>1, <2>4, PlayingBecomes DEF PopAudio
    <3> QED
      BY <2>3, <3>1, GateDiscards
  <2>5. CASE currentPlayback' = {[entry |-> e, device |-> "local", status |-> "on"]}
    <3>1. PICK h : h = [entry |-> e, device |-> "local", status |-> "on"]
      OBVIOUS
    <3>2. Playing' = "sounding"
      BY <2>1, <2>5, <3>1, PlayingBecomes DEF HandleTells
    <3> QED
      BY <2>3, <3>2, GatePlays
  <2> QED
    BY <1>3, <2>4, <2>5 DEF AudioStartLocal
<1>4. ASSUME NEW e \in audioPending, AudioStart(e)
      PROVE  Gate!Step \/ UNCHANGED <<Owed, Playing>>
  <2>1. PopAudio(e) /\ ~audioApplied' /\ sending' = {e} /\ currentPlayback' = {}
    BY <1>4 DEF AudioStart, PopAudio
  <2>2. PICK S \in SUBSET Unheard : S = PassedOver(audioPending)
    BY <2>1, GatePops DEF Unheard
  <2>3. Playing = "none" /\ Unheard' = Unheard \ S
    BY <2>1, <2>2, GatePops DEF Unheard
  <2>4. Playing' = "none"
    BY <2>1, PlayingBecomes
  <2> QED
    BY <2>3, <2>4, GateDiscards
<1>5. CASE RabbitSpeaks
  <2>1. sending # {} /\ currentPlayback = {} /\ ~audioApplied /\ audioApplied'
    BY <1>5 DEF RabbitSpeaks, LoopsOK
  <2>2. Owed > 0 /\ Owed' = Owed
    BY <1>5, <2>1, UnheardIs, OwedKept DEF RabbitSpeaks, queues, Unheard
  <2>3. Gate!SoundStarts
    BY <2>1, <2>2, PlayingIs, PlayingBecomes DEF Gate!SoundStarts
  <2> QED
    BY <2>3 DEF Gate!Step
<1>6. CASE AudioReply
  <2>1. PICK e \in Entry : sending = {e} /\ sending' = {} /\ ~audioApplied' /\ audioApplied
    BY <1>6 DEF AudioReply, LoopsOK
  <2>2. PICK h : h = [entry |-> e, device |-> "timed", status |-> "on"]
    OBVIOUS
  <2>3. currentPlayback' = {h}
    BY <1>6, <2>1, <2>2 DEF AudioReply
  <2>4. Playing = "starting" /\ Playing' \in {"sounding", "guard"}
    BY <2>1, <2>2, <2>3, PlayingIs, PlayingBecomes DEF HandleTells
  <2>5. Unheard' = Unheard \ {e} /\ {e} \in SUBSET Unheard
    BY <1>6, <2>1, UnheardIs DEF AudioReply, queues, Unheard
  <2>6. Owed' = Owed - 1
    BY <2>5, OwedLess, FS_Singleton
  <2>7. Gate!HandleSet
    BY <2>4, <2>6 DEF Gate!HandleSet
  <2> QED
    BY <2>7 DEF Gate!Step
<1>7. CASE AudioFails
  <2>1. PICK e \in Entry : sending = {e} /\ sending' = {} /\ ~audioApplied'
    BY <1>7 DEF AudioFails, LoopsOK
  <2>2. currentPlayback = {} /\ currentPlayback' = {}
    BY <1>7, <2>1 DEF AudioFails, LoopsOK
  <2>3. Playing' = "none"
    BY <2>1, <2>2, PlayingBecomes
  <2>4. Unheard' = Unheard \ {e} /\ {e} \in SUBSET Unheard
    BY <1>7, <2>1, UnheardIs DEF AudioFails, queues, Unheard
  <2>5. CASE audioApplied     \* the reply is lost
    <3>1. Owed' = Owed - 1 /\ Playing = "starting"
      BY <2>4, <2>5, OwedLess, FS_Singleton, PlayingIs
    <3>2. "lost" \in faults
      BY <1>7, <2>5 DEF AudioFails
    <3>3. Gate!OpensEarly
      BY <2>3, <3>1, <3>2 DEF Gate!OpensEarly
    <3> QED
      BY <3>3 DEF Gate!Step
  <2>6. CASE ~audioApplied
    <3>1. Playing = "none"
      BY <2>2, <2>6, PlayingIs
    <3> QED
      BY <2>3, <2>4, <3>1, GateDiscards
  <2> QED
    BY <2>5, <2>6
<1>8. ASSUME NEW e \in speaker, RabbitQuiet(e)
      PROVE  Gate!Step \/ UNCHANGED <<Owed, Playing>>
  <2>1. /\ Owed' = Owed
        /\ UNCHANGED <<audioApplied, currentPlayback>> /\ speaker' = speaker \ {e}
    BY <1>8, OwedKept DEF RabbitQuiet, queues, audioLoop, Unheard
  <2>2. CASE audioApplied \/ currentPlayback = {}
    BY <2>1, <2>2, PlayingIs, PlayingBecomes
  <2>3. CASE ~audioApplied /\ currentPlayback # {}
    <3>1. PICK h \in Handle : currentPlayback = {h}
      BY <2>3 DEF LoopsOK
    <3>2. Playing = HandleTells(h) /\ Playing' = HandleTells(h)'
      BY <2>1, <2>3, <3>1, PlayingIs, PlayingBecomes
    <3>3. CASE h.entry = e /\ h.status = "on"
      <4>1. h.device = "timed"
        BY <1>8, <3>1, <3>3 DEF RabbitQuiet
      <4>2. Playing = "sounding" /\ Playing' = "guard"
        BY <2>1, <3>2, <3>3, <4>1 DEF HandleTells
      <4>3. Gate!SoundEnds
        BY <2>1, <4>2 DEF Gate!SoundEnds
      <4> QED
        BY <4>3 DEF Gate!Step
    <3>4. CASE h.entry # e \/ h.status # "on"
      <4>1. HandleTells(h)' = HandleTells(h)
        BY <2>1, <3>4 DEF HandleTells, Handle
      <4> QED
        BY <2>1, <3>2, <4>1
    <3> QED
      BY <3>3, <3>4
  <2> QED
    BY <2>2, <2>3
<1>9. ASSUME NEW h \in currentPlayback, AudioClears(h)
      PROVE  Gate!Step \/ UNCHANGED <<Owed, Playing>>
  <2>1. currentPlayback = {h} /\ currentPlayback' = {} /\ ~audioApplied /\ ~audioApplied'
    BY <1>9 DEF AudioClears, LoopsOK, Applied
  <2>2. Owed' = Owed
    BY <1>9, OwedKept DEF AudioClears, queues, Unheard
  <2>3. Playing \in {"guard", "none"} /\ Playing' = "none"
    BY <1>9, <2>1, PlayingIs, PlayingBecomes DEF AudioClears, HandleTells
  <2>4. CASE Playing = "guard"
    <3>1. Gate!GuardEnds
      BY <2>2, <2>3, <2>4 DEF Gate!GuardEnds
    <3> QED
      BY <3>1 DEF Gate!Step
  <2> QED
    BY <2>2, <2>3, <2>4
<1>10. ASSUME NEW h \in currentPlayback, TimerFires(h)
       PROVE  Gate!Step \/ UNCHANGED <<Owed, Playing>>
  <2>1. PICK g : g = [h EXCEPT !.status = "done"]
    OBVIOUS
  <2>2. h \in Handle /\ currentPlayback = {h} /\ currentPlayback' = {g} /\ ~audioApplied /\ ~audioApplied'
    BY <1>10, <2>1 DEF TimerFires, LoopsOK, TypeOK, Applied
  <2>3. g.status = "done" /\ g.device = "timed"
    BY <1>10, <2>1, <2>2 DEF TimerFires, Handle
  <2>4. Owed' = Owed
    BY <1>10, OwedKept DEF TimerFires, queues, Unheard
  <2>5. Playing' = "none"
    BY <2>2, <2>3, PlayingBecomes DEF HandleTells
  <2>6. Playing = IF h.entry \in speaker THEN "sounding" ELSE "guard"
    BY <1>10, <2>2, PlayingIs DEF TimerFires, HandleTells
  <2>7. CASE h.entry \in speaker     \* the estimate is short
    <3>1. Gate!OpensEarly
      BY <1>10, <2>4, <2>5, <2>6, <2>7 DEF TimerFires, Gate!OpensEarly
    <3> QED
      BY <3>1 DEF Gate!Step
  <2>8. CASE h.entry \notin speaker
    <3>1. Gate!GuardEnds
      BY <2>4, <2>5, <2>6, <2>8 DEF Gate!GuardEnds
    <3> QED
      BY <3>1 DEF Gate!Step
  <2> QED
    BY <2>7, <2>8
<1>11. ASSUME NEW h \in currentPlayback, NEW o \in {"done", "failed"}, PlaybackEnds(h, o)
       PROVE  Gate!Step \/ UNCHANGED <<Owed, Playing>>
  <2>1. PICK g : g = [h EXCEPT !.status = o]
    OBVIOUS
  <2>2. h \in Handle /\ currentPlayback = {h} /\ currentPlayback' = {g} /\ ~audioApplied /\ ~audioApplied'
    BY <1>11, <2>1 DEF PlaybackEnds, LoopsOK, TypeOK, Applied
  <2>3. g.status = o /\ g.device = "local"
    BY <1>11, <2>1, <2>2 DEF PlaybackEnds, Handle
  <2>4. Owed' = Owed
    BY <1>11, OwedKept DEF PlaybackEnds, queues, Unheard
  <2>5. Playing = "sounding"
    BY <1>11, <2>2, PlayingIs DEF PlaybackEnds, HandleTells
  <2>6. Playing' = IF o = "failed" THEN "stuck" ELSE "guard"
    BY <2>2, <2>3, PlayingBecomes DEF HandleTells
  <2>7. Gate!SoundEnds \/ Gate!Sticks
    BY <2>4, <2>5, <2>6 DEF Gate!SoundEnds, Gate!Sticks
  <2> QED
    BY <2>7 DEF Gate!Step
<1>12. CASE \/ Tick \/ Interrupt \/ MotionNothing \/ BodyMoves \/ MotionReply \/ MotionFails
            \/ (\E e \in motionHeap : MotionSuppress(e) \/ MotionStart(e))
            \/ (\E h \in currentPlayback : AudioLoopDies(h))
            \/ UNCHANGED vars
  <2>1. UNCHANGED <<audioPending, sending, audioApplied, currentPlayback, speaker>>
    BY <1>12 DEF Tick, Interrupt, MotionNothing, BodyMoves, MotionReply, MotionFails,
                 MotionSuppress, MotionStart, AudioLoopDies, vars, queues, audioLoop, body
  <2> QED
    BY <2>1, OwedKept, PlayingKept DEF Unheard
<1> QED
  BY <1>1, <1>2, <1>3, <1>4, <1>5, <1>6, <1>7, <1>8, <1>9, <1>10, <1>11, <1>12
     DEF Next, MotionLoop, AudioLoop, PlaybackOver

LEMMA FaultsFixed == [Next]_vars => UNCHANGED <<localAudio, callers, faults>>
BY DEF Next, vars, clock, Tick, Submit, Interrupt, MotionLoop, MotionNothing,
       MotionSuppress, MotionStart, BodyMoves, MotionReply, MotionFails, AudioLoop,
       AudioNothing, AudioClears, AudioLoopDies, AudioStartLocal, AudioStart, RabbitSpeaks,
       AudioReply, AudioFails, RabbitQuiet, PlaybackOver, TimerFires, PlaybackEnds

LEMMA GateInit == Init => Gate!Init
<1> SUFFICES ASSUME Init PROVE Gate!Init
  OBVIOUS
<1>1. Owed = 0
  BY FS_EmptySet DEF Init, Owed
<1>2. Playing = "none" /\ ~AudioBusy
  BY PlayingIs DEF Init, AudioBusy
<1>3. AudioBusy = FALSE
  BY <1>2 DEF AudioBusy
<1> QED
  BY <1>1, <1>2, <1>3 DEF Gate!Init

\* audio_busy closes with submit(), opens when no command is owed and none plays, and
\* between the two moves only as AudioGate lets it: with every fault, and never
\* early unless a reply may be lost or an estimate be short.
THEOREM GateRefinement == Spec => AudioGateImplemented
<1>1. Init => Applied
  BY DEF Init, Applied
<1>2. (AudioBusy <=> Gate!Closed)' /\ (AudioBusy <=> Gate!Closed)
          /\ (Gate!Step \/ UNCHANGED <<Owed, Playing>>) /\ faults' = faults
              => [Gate!Next]_<<faults \cap {"lost", "estimate"} = {}, Owed, Playing, AudioBusy>>
  BY DEF Gate!Next, Gate!Closed, AudioBusy
<1>3. IInv /\ Applied /\ [Next]_vars =>
          (Gate!Step \/ UNCHANGED <<Owed, Playing>>) /\ faults' = faults
  BY GateStep, FaultsFixed
<1> QED
  BY <1>1, <1>2, <1>3, GateInit, BusyIs, AppliedStep, Invariance, PTL
     DEF Spec, Gate!Spec, AudioGateImplemented

-----------------------------------------------------------------------------
\* The half-duplex gate, where replies are not lost and estimates suffice.

\* HalfDuplex with the reason it lasts: a request the body has not obeyed yet
\* has made no sound.
SpeakerInv == /\ speaker \subseteq AudioServing
              /\ ~audioApplied => speaker \cap sending = {}

RepliesAndEstimatesHold == faults \cap {"lost", "estimate"} = {}

LEMMA SpeakerStep ==
    ASSUME RepliesAndEstimatesHold, IInv, SpeakerInv, [Next]_vars
    PROVE  SpeakerInv'
<1> USE DEF IInv
<1>1. ASSUME NEW r \in Requests, Submit(r)
      PROVE  SpeakerInv'
  BY <1>1 DEF Submit, SpeakerInv, AudioServing, audioLoop, body
<1>2. CASE Tick \/ Interrupt \/ MotionNothing \/ BodyMoves \/ MotionReply \/ MotionFails
           \/ AudioNothing \/ UNCHANGED vars
  BY <1>2 DEF Tick, Interrupt, MotionNothing, BodyMoves, MotionReply, MotionFails,
              AudioNothing, vars, SpeakerInv, AudioServing, audioLoop, body
<1>3. ASSUME NEW e \in motionHeap, MotionSuppress(e) \/ MotionStart(e)
      PROVE  SpeakerInv'
  BY <1>3 DEF MotionSuppress, MotionStart, SpeakerInv, AudioServing, audioLoop, body
<1>4. ASSUME NEW e \in audioPending, AudioStartLocal(e)
      PROVE  SpeakerInv'
  <2>1. AudioServing = {} /\ speaker = {} /\ sending' = {}
    BY <1>4, AudioPopQueue DEF AudioStartLocal, PopAudio, LoopsOK, SpeakerInv
  <2>2. CASE UNCHANGED <<currentPlayback, speaker>>
    BY <2>1, <2>2 DEF SpeakerInv
  <2>3. CASE /\ currentPlayback' = {[entry |-> e, device |-> "local", status |-> "on"]}
             /\ speaker' = speaker \cup {e}
    <3>1. PICK h : h = [entry |-> e, device |-> "local", status |-> "on"]
      OBVIOUS
    <3>2. AudioServing' = {e}
      BY <2>1, <2>3, <3>1, ServingHandle
    <3> QED
      BY <2>1, <2>3, <3>2 DEF SpeakerInv
  <2> QED
    BY <1>4, <2>2, <2>3 DEF AudioStartLocal
<1>5. ASSUME NEW e \in audioPending, AudioStart(e)
      PROVE  SpeakerInv'
  <2>1. AudioServing = {} /\ speaker = {}
    BY <1>5, AudioPopQueue DEF AudioStart, SpeakerInv
  <2> QED
    BY <1>5, <2>1 DEF AudioStart, SpeakerInv, body
<1>6. CASE RabbitSpeaks
  BY <1>6 DEF RabbitSpeaks, SpeakerInv, AudioServing
<1>7. CASE AudioReply
  <2>1. PICK e \in Entry : sending = {e} /\ sending' = {} /\ currentPlayback = {}
    BY <1>7 DEF AudioReply, LoopsOK
  <2>2. PICK h : h = [entry |-> e, device |-> "timed", status |-> "on"]
    OBVIOUS
  <2>3. AudioServing = {e}
    BY <2>1 DEF AudioServing
  <2>4. AudioServing' = {e}
    BY <1>7, <2>1, <2>2, ServingHandle DEF AudioReply
  <2> QED
    BY <1>7, <2>1, <2>3, <2>4 DEF AudioReply, SpeakerInv, body
<1>8. CASE AudioFails
  <2>1. ~audioApplied /\ currentPlayback = {} /\ sending # {}
    BY <1>8 DEF AudioFails, LoopsOK, RepliesAndEstimatesHold
  <2>2. speaker = {}
    BY <2>1 DEF SpeakerInv, AudioServing
  <2> QED
    BY <1>8, <2>2 DEF AudioFails, SpeakerInv, body
<1>9. ASSUME NEW e \in speaker, RabbitQuiet(e)
      PROVE  SpeakerInv'
  BY <1>9 DEF RabbitQuiet, SpeakerInv, AudioServing, audioLoop
<1>10. ASSUME NEW h \in currentPlayback, AudioClears(h) \/ AudioLoopDies(h)
       PROVE  SpeakerInv'
  BY <1>10 DEF AudioClears, AudioLoopDies, SpeakerInv, AudioServing, LoopsOK, body
<1>11. ASSUME NEW h \in currentPlayback, TimerFires(h)
       PROVE  SpeakerInv'
  <2>1. currentPlayback = {h} /\ sending = {} /\ sending' = {}
    BY <1>11 DEF TimerFires, LoopsOK
  <2>2. speaker = {}
    BY <1>11, <2>1 DEF TimerFires, SpeakerInv, AudioServing, RepliesAndEstimatesHold
  <2> QED
    BY <1>11, <2>1, <2>2 DEF TimerFires, SpeakerInv, body
<1>12. ASSUME NEW h \in currentPlayback, NEW o \in {"done", "failed"}, PlaybackEnds(h, o)
       PROVE  SpeakerInv'
  <2>1. currentPlayback = {h} /\ sending = {} /\ sending' = {}
    BY <1>12 DEF PlaybackEnds, LoopsOK
  <2>2. speaker' = {}
    BY <1>12, <2>1 DEF PlaybackEnds, SpeakerInv, AudioServing
  <2> QED
    BY <2>1, <2>2 DEF SpeakerInv
<1> QED
  BY <1>1, <1>2, <1>3, <1>4, <1>5, <1>6, <1>7, <1>8, <1>9, <1>10, <1>11, <1>12
     DEF Next, MotionLoop, AudioLoop, PlaybackOver

\* The microphone never hears the rabbit: whatever is sounding is the command
\* in service, and audio_busy says so, unless a reply may be lost or an estimate short.
THEOREM NoSelfHearing == Spec => []HalfDuplex
<1> DEFINE Holds == RepliesAndEstimatesHold => SpeakerInv
<1>1. Init => Holds
  BY DEF Init, SpeakerInv
<1>2. IInv /\ Holds /\ [Next]_vars => Holds'
  <2>1. [Next]_vars => (RepliesAndEstimatesHold' => RepliesAndEstimatesHold)
    BY FaultsFixed DEF RepliesAndEstimatesHold
  <2> QED
    BY <2>1, SpeakerStep
<1>3. IInv /\ Holds => HalfDuplex
  <2> SUFFICES ASSUME IInv, SpeakerInv, speaker # {} PROVE AudioBusy
    BY DEF HalfDuplex, SpeakerInv, RepliesAndEstimatesHold
  <2>1. sending # {} \/ \E h \in currentPlayback : h.status = "on"
    BY DEF SpeakerInv, AudioServing
  <2> QED
    BY <2>1 DEF IInv, LoopsOK, AudioBusy
<1> HIDE DEF Holds
<1> QED
  BY <1>1, <1>2, <1>3, Invariance, PTL DEF Spec

-----------------------------------------------------------------------------
\* The tracked state, where replies are not lost.

\* BeliefSound, and what it is while a request is out: the parts the body has
\* been moved to show the target, the others are as believed.
BeliefInv ==
    /\ motionAt # "http" => ~motionApplied
    /\ \A p \in Parts \ RawParts :
           \/ believed[p] \in {Unknown, shown[p]}
           \/ motionApplied /\ \E e \in moving : p \in DOMAIN e.target
    /\ motionApplied => \A e \in moving : \A p \in (DOMAIN e.target) \cap Parts :
                            shown[p] = e.target[p]

LEMMA RawTarget ==
    ASSUME NEW e \in Entry, e.kind = "raw"
    PROVE  DOMAIN e.target \subseteq RawParts
<1>1. PICK r \in Requests : r.kind = e.kind /\ r.target = e.target
  BY DEF Entry, EntryOf
<1> QED
  BY <1>1 DEF RawParts

LEMMA BeliefStep ==
    ASSUME "lost" \notin faults, IInv, BeliefInv, [Next]_vars
    PROVE  BeliefInv'
<1> USE DEF IInv
<1>1. ASSUME NEW e \in motionHeap, MotionStart(e)
      PROVE  BeliefInv'
  <2>1. ~motionApplied
    BY <1>1 DEF MotionStart, BeliefInv
  <2> QED
    BY <1>1, <2>1 DEF MotionStart, BeliefInv, body
<1>2. CASE BodyMoves
  <2>1. PICK e \in Entry : moving = {e}
    BY <1>2 DEF BodyMoves, LoopsOK
  <2>2. shown' = Overlay(shown, e.target) /\ moving' = {e} /\ motionApplied'
        /\ UNCHANGED <<believed, motionAt>> /\ motionAt = "http" /\ ~motionApplied
    BY <1>2, <2>1 DEF BodyMoves
  <2>3. \A p \in Parts : shown'[p] = IF p \in DOMAIN e.target THEN e.target[p] ELSE shown[p]
    BY <2>2 DEF Overlay
  <2> QED
    BY <2>1, <2>2, <2>3 DEF BeliefInv
<1>3. CASE MotionReply
  <2>1. PICK e \in Entry : moving = {e}
    BY <1>3 DEF MotionReply, LoopsOK
  <2>2. /\ believed' = IF e.kind \in Coalescable THEN Overlay(believed, e.target) ELSE believed
        /\ shown' = shown /\ motionApplied /\ ~motionApplied' /\ moving' = {}
    BY <1>3, <2>1 DEF MotionReply, body
  <2>3. \A p \in Parts : p \in DOMAIN e.target => shown[p] = e.target[p]
    BY <2>1, <2>2 DEF BeliefInv
  <2>4. \A p \in Parts \ RawParts : believed'[p] \in {Unknown, shown[p]}
    <3>1. CASE e.kind \in Coalescable
      <4>1. \A p \in Parts : believed'[p] =
                IF p \in DOMAIN e.target THEN e.target[p] ELSE believed[p]
        BY <2>2, <3>1 DEF Overlay
      <4> QED
        BY <2>1, <2>3, <4>1 DEF BeliefInv
    <3>2. CASE e.kind \notin Coalescable
      <4>1. e.kind = "raw"
        BY <2>1, <3>2, EntryFields DEF LoopsOK, Kinds, Coalescable, AudioKinds
      <4>2. \A p \in Parts \ RawParts : p \notin DOMAIN e.target
        BY <4>1, RawTarget
      <4> QED
        BY <2>1, <2>2, <3>2, <4>2 DEF BeliefInv
    <3> QED
      BY <3>1, <3>2
  <2> QED
    BY <2>2, <2>4 DEF BeliefInv
<1>4. CASE MotionFails
  <2>1. ~motionApplied
    BY <1>4 DEF MotionFails
  <2> QED
    BY <1>4, <2>1 DEF MotionFails, BeliefInv, body
<1>5. ASSUME NEW e \in audioPending, AudioStartLocal(e)
      PROVE  BeliefInv'
  BY <1>5 DEF AudioStartLocal, BeliefInv, motionLoop
<1>6. ASSUME NEW e \in audioPending, AudioStart(e)
      PROVE  BeliefInv'
  BY <1>6 DEF AudioStart, BeliefInv, motionLoop, body
<1>7. CASE AudioReply \/ AudioFails
  BY <1>7 DEF AudioReply, AudioFails, HandLockToMotion, BeliefInv, body
<1>8. CASE \/ \E r \in Requests : Submit(r)
           \/ Tick \/ Interrupt \/ MotionNothing \/ AudioNothing \/ RabbitSpeaks
           \/ UNCHANGED vars
  BY <1>8 DEF Submit, Tick, Interrupt, MotionNothing, AudioNothing, RabbitSpeaks, vars,
              BeliefInv, motionLoop, body
<1>9. ASSUME NEW e \in motionHeap, MotionSuppress(e)
      PROVE  BeliefInv'
  BY <1>9 DEF MotionSuppress, BeliefInv, motionLoop, body
<1>10. CASE \E e \in speaker : RabbitQuiet(e)
  BY <1>10 DEF RabbitQuiet, BeliefInv, motionLoop
<1>11. ASSUME NEW h \in currentPlayback, NEW o \in {"done", "failed"},
              AudioClears(h) \/ AudioLoopDies(h) \/ TimerFires(h) \/ PlaybackEnds(h, o)
       PROVE  BeliefInv'
  BY <1>11 DEF AudioClears, AudioLoopDies, TimerFires, PlaybackEnds, BeliefInv, motionLoop,
               body
<1> QED
  BY <1>1, <1>2, <1>3, <1>4, <1>5, <1>6, <1>7, <1>8, <1>9, <1>10, <1>11
     DEF Next, MotionLoop, AudioLoop, PlaybackOver

\* A command is suppressed only where the body already shows its target, on
\* every part that no raw choreography can move, unless a reply may be lost.
THEOREM SuppressionIsSound == Spec => []BeliefSound
<1> DEFINE Holds == "lost" \notin faults => BeliefInv
<1>1. Init => Holds
  BY DEF Init, BeliefInv
<1>2. IInv /\ Holds /\ [Next]_vars => Holds'
  BY BeliefStep, FaultsFixed
<1>3. Holds => BeliefSound
  BY DEF BeliefInv, BeliefSound
<1> HIDE DEF Holds
<1> QED
  BY <1>1, <1>2, <1>3, Invariance, PTL DEF Spec

-----------------------------------------------------------------------------
\* Deadlines

\* How a step fires the command e: at its pop, or from the transport's lock.
FiresInTime(e) ==
    /\ e.deadline # Never /\ now > e.deadline => e \in AwaitsLock
    /\ AwaitsLock # {} => e \in AwaitsLock

\* Whoever waits for the lock waits for the other loop's request.
LEMMA LockOfTheOther ==
    ASSUME IInv, LockIsHeld
    PROVE  /\ motionAt = "lock" => audioAt = "http"
           /\ audioAt = "lock" => motionAt = "http"
BY DEF LockIsHeld

LEMMA FiredStep ==
    ASSUME IInv, LockIsHeld, [Next]_vars, NEW e \in Fired' \ Fired
    PROVE  FiresInTime(e)
<1> USE DEF IInv
<1>1. now \in Nat
  BY DEF TypeOK
<1>2. ASSUME NEW f \in motionHeap, MotionStart(f)
      PROVE  FiresInTime(e)
  <2>1. e = f /\ audioAt # "http"
    BY <1>2 DEF MotionStart, Fired, audioLoop
  <2>2. ~Expired(f) /\ f.deadline \in Nat \cup {Never}
    BY <1>2, EntryFields DEF MotionStart, FirstLive, LiveIn, Live, TypeOK
  <2>3. AwaitsLock = {}
    BY <1>2, <2>1, LockOfTheOther DEF MotionStart, AwaitsLock
  <2> QED
    BY <1>1, <2>1, <2>2, <2>3 DEF Expired, FiresInTime
<1>3. ASSUME NEW f \in audioPending, AudioStartLocal(f) \/ AudioStart(f), e = f
      PROVE  e.deadline # Never => now <= e.deadline
  <2>1. ~Expired(f) /\ f.deadline \in Nat \cup {Never}
    BY <1>3, EntryFields DEF AudioStart, AudioStartLocal, PopAudio, FirstLive, LiveIn, Live, TypeOK
  <2> QED
    BY <1>1, <1>3, <2>1 DEF Expired
<1>4. ASSUME NEW f \in audioPending, AudioStartLocal(f) \/ AudioStart(f)
      PROVE  FiresInTime(e)
  <2>1. e = f
    BY <1>4 DEF AudioStartLocal, AudioStart, PopAudio, Fired, motionLoop
  <2>2. audioAt = "top"
    BY <1>4 DEF AudioStartLocal, AudioStart, PopAudio
  <2>3. AwaitsLock = {}
    BY <2>2, LockOfTheOther DEF AwaitsLock
  <2>4. e.deadline # Never => now <= e.deadline
    BY <1>3, <1>4, <2>1
  <2>5. e.deadline \in Nat \cup {Never}
    BY <1>4, <2>1, EntryFields DEF TypeOK
  <2> QED
    BY <1>1, <2>3, <2>4, <2>5 DEF FiresInTime
<1>5. CASE MotionReply \/ MotionFails      \* the lock passes to the audio loop
  <2>1. e \in sending /\ audioAt = "lock"
    BY <1>5 DEF MotionReply, MotionFails, HandLockToAudio, Fired
  <2> QED
    BY <2>1 DEF AwaitsLock, FiresInTime
<1>6. CASE AudioReply \/ AudioFails        \* the lock passes to the motion loop
  <2>1. e \in moving /\ motionAt = "lock"
    BY <1>6 DEF AudioReply, AudioFails, HandLockToMotion, Fired, LoopsOK
  <2> QED
    BY <2>1 DEF AwaitsLock, FiresInTime
<1>7. ASSUME NEW h \in currentPlayback, NEW o \in {"done", "failed"},
             TimerFires(h) \/ PlaybackEnds(h, o)
      PROVE  FALSE
  <2>1. h \in Handle
    BY DEF TypeOK
  <2>2. \A g \in currentPlayback' : g.entry = h.entry
    BY <1>7, <2>1 DEF TimerFires, PlaybackEnds, Handle
  <2>3. UNCHANGED <<moving, motionAt, sending, audioAt>>
    BY <1>7 DEF TimerFires, PlaybackEnds, motionLoop
  <2> QED
    BY <2>2, <2>3 DEF Fired
<1>8. CASE \/ \E r \in Requests : Submit(r)
           \/ Tick \/ Interrupt \/ MotionNothing \/ BodyMoves \/ AudioNothing \/ RabbitSpeaks
           \/ (\E f \in speaker : RabbitQuiet(f))
           \/ (\E f \in motionHeap : MotionSuppress(f))
           \/ (\E h \in currentPlayback : AudioClears(h) \/ AudioLoopDies(h))
           \/ UNCHANGED vars
  BY <1>8 DEF Submit, Tick, Interrupt, MotionNothing, BodyMoves, AudioNothing,
              RabbitSpeaks, RabbitQuiet, MotionSuppress, AudioClears, AudioLoopDies, vars,
              Fired, motionLoop, audioLoop
<1> QED
  BY <1>2, <1>4, <1>5, <1>6, <1>7, <1>8 DEF Next, MotionLoop, AudioLoop, PlaybackOver

\* A command fires past its deadline only when it was popped in time and waited
\* for one request of the other loop, and nothing fires before it meanwhile.
THEOREM LateByOneRequestAtMost == Spec => LateByOneRequest
<1>1. IInv /\ LockIsHeld /\ [Next]_vars =>
          [/\ \A e \in Fired' \ Fired :
                  e.deadline # Never /\ now > e.deadline => e \in AwaitsLock
           /\ AwaitsLock # {} => Fired' \ Fired \subseteq AwaitsLock]_vars
  BY FiredStep DEF FiresInTime
<1> QED
  BY <1>1, TransportIsShared, Invariance, PTL DEF Spec, LateByOneRequest
=============================================================================
