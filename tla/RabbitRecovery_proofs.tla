----------------------- MODULE RabbitRecovery_proofs -----------------------
(***************************************************************************)
(* Proofs about RabbitRecovery, for every policy: the typing, the rates of *)
(* restarts within an outage and the rabbit that is left in peace all      *)
(* follow from one inductive invariant, IInv.                              *)
(***************************************************************************)
EXTENDS RabbitRecovery, TLAPS, FiniteSetTheorems

USE DEF None

\* The ages recorded are finitely many.
LEMMA RecentIsFinite ==
    ASSUME NEW S, S \subseteq 0..(Hold - 1)
    PROVE  IsFiniteSet(S)
<1>1. Hold - 1 \in Int
  BY PolicyAssumption
<1>2. IsFiniteSet(0..(Hold - 1))
  BY <1>1, FS_Interval
<1> QED
  BY <1>2, FS_Subset

\* When the clock ticks no restart is added to those of the last Hold.
LEMMA AgeingAddsNothing ==
    ASSUME NEW S, S \subseteq 0..(Hold - 1),
           NEW T, T = {a + 1 : a \in {b \in S : b + 1 < Hold}}
    PROVE  /\ T \subseteq 0..(Hold - 1)
           /\ Cardinality(T) <= Cardinality(S)
<1> DEFINE K == {b \in S : b + 1 < Hold}
<1>1. IsFiniteSet(S) /\ IsFiniteSet(K)
  BY RecentIsFinite
<1>2. Cardinality(K) <= Cardinality(S) /\ Cardinality(K) \in Nat /\ Cardinality(S) \in Nat
  BY <1>1, FS_Subset, FS_CardinalityType
<1> DEFINE f == [b \in K |-> b + 1]
<1>3. f \in Surjection(K, T)
  BY DEF Surjection
<1>4. IsFiniteSet(T) /\ Cardinality(T) <= Cardinality(K)
  BY <1>1, <1>3, FS_Surjection
<1>5. T \subseteq 0..(Hold - 1)
  BY PolicyAssumption
<1>6. Cardinality(T) \in Nat
  BY <1>4, FS_CardinalityType
<1> QED
  BY <1>2, <1>4, <1>5, <1>6

\* One restart more is one more to count.
LEMMA RestartAddsOne ==
    ASSUME NEW S, S \subseteq 0..(Hold - 1)
    PROVE  /\ S \cup {0} \subseteq 0..(Hold - 1)
           /\ Cardinality(S \cup {0}) <= Cardinality(S) + 1
           /\ Cardinality(S) \in Nat
<1>1. IsFiniteSet(S) /\ Cardinality(S) \in Nat
  BY RecentIsFinite, FS_CardinalityType
<1>2. Cardinality(S \cup {0}) = IF 0 \in S THEN Cardinality(S) ELSE Cardinality(S) + 1
  BY <1>1, FS_AddElement
<1> QED
  BY <1>1, <1>2, PolicyAssumption

LEMMA FreshIsState == Fresh \in States /\ Unread \in Signals
BY PolicyAssumption DEF Fresh, States, Unread, Signals

-----------------------------------------------------------------------------
\* The invariant holds initially.
THEOREM InitInv == Init => IInv
<1> SUFFICES ASSUME Init PROVE IInv
  OBVIOUS
<1>1. TypeOK
  BY FreshIsState DEF Init, TypeOK
<1>2. StateCounts
  BY FS_EmptySet DEF Init, StateCounts, Fresh
<1>3. SeenIsTrue
  BY DEF Init, SeenIsTrue, Unread
<1> QED
  BY <1>1, <1>2, <1>3 DEF IInv

\* What a tick does to the ages.
LEMMA TickInv == IInv /\ Tick => IInv'
<1> SUFFICES ASSUME IInv, Tick PROVE IInv'
  OBVIOUS
<1> USE DEF IInv
<1>1. /\ recent' \subseteq 0..(Hold - 1)
      /\ Cardinality(recent') <= Cardinality(recent)
  BY AgeingAddsNothing DEF Tick, TypeOK
<1>2. Cardinality(recent) \in Nat /\ Cardinality(recent') \in Nat
  BY <1>1, RecentIsFinite, FS_CardinalityType DEF TypeOK
<1>3. /\ state' \in States
      /\ state'.restarts = state.restarts
      /\ state'.sinceRestart = Older(state.sinceRestart, Cooldown)
      /\ state'.sinceGiveUp = Older(state.sinceGiveUp, Hold)
  <2>1. /\ Older(state.sinceRestart, Cooldown) \in 0..Cooldown \cup {None}
        /\ Older(state.sinceGiveUp, Hold) \in 0..Hold \cup {None}
    BY PolicyAssumption DEF TypeOK, States, Older
  <2>2. state.restarts \in 0..MaxRestarts
    BY DEF TypeOK, States
  <2> QED
    BY <2>1, <2>2 DEF Tick, States
<1>4. TypeOK'
  <2>1. httpAge' \in 0..HttpStale
    BY PolicyAssumption DEF Tick, TypeOK, Older
  <2> QED
    BY <1>1, <1>3, <2>1 DEF Tick, TypeOK
<1>5. StateCounts'
  <2> SUFFICES ASSUME ~forgot PROVE StateCounts'
    BY DEF Tick, StateCounts
  <2>1. IF state'.sinceGiveUp = None
        THEN Cardinality(recent') <= state'.restarts
        ELSE /\ Cardinality(recent') <= MaxRestarts
             /\ \A a \in recent' : a > state'.sinceGiveUp
    BY <1>1, <1>2, <1>3, PolicyAssumption DEF Tick, StateCounts, TypeOK, Older, States
  <2>2. IF state'.sinceRestart = None
        THEN recent' = {}
        ELSE \A a \in recent' : a >= state'.sinceRestart
    BY <1>3, PolicyAssumption DEF Tick, StateCounts, TypeOK, Older, States
  <2> QED
    BY <2>1, <2>2 DEF StateCounts
<1>6. SeenIsTrue'
  BY DEF Tick, SeenIsTrue
<1> QED
  BY <1>4, <1>5, <1>6

\* The world changes nothing that the watchdog carries.
LEMMA WorldInv == IInv /\ World => IInv'
<1> SUFFICES ASSUME IInv, World PROVE IInv'
  OBVIOUS
<1> USE DEF IInv, program
<1>1. TypeOK'
  <2>1. httpAge' \in 0..HttpStale
    BY PolicyAssumption DEF TypeOK, World, RabbitTalks, RabbitJoins, RabbitLeaves,
       RabbitSwitched, NetworkVanishes, SessionCloses
  <2> QED
    BY <2>1 DEF TypeOK, World, RabbitTalks, RabbitJoins, RabbitLeaves,
       RabbitSwitched, NetworkVanishes, SessionCloses
<1>2. UNCHANGED <<state, recent, forgot>>
  BY DEF World, RabbitTalks, RabbitJoins, RabbitLeaves, RabbitSwitched,
     NetworkVanishes, SessionCloses
<1>3. StateCounts'
  BY <1>2 DEF StateCounts
<1>4. SeenIsTrue'
  BY DEF TypeOK, SeenIsTrue, World, RabbitTalks, RabbitJoins, RabbitLeaves,
     RabbitSwitched, NetworkVanishes, SessionCloses
<1> QED
  BY <1>1, <1>3, <1>4

\* Gathering the signals.
LEMMA GatherInv == IInv /\ (ReadStations \/ ReadLog \/ ReadSockets) => IInv'
<1> SUFFICES ASSUME IInv, ReadStations \/ ReadLog \/ ReadSockets PROVE IInv'
  OBVIOUS
<1> USE DEF IInv, world, history
<1>1. CASE ReadStations
  <2>1. PICK a \in Reads("iw", IF associated THEN "yes" ELSE "no", "unknown") :
            seen' = [seen EXCEPT !.associated = a]
    BY <1>1 DEF ReadStations
  <2>2. a \in {"yes", "no", "unknown"} /\ (a = "no" => ~associated)
    BY DEF Reads
  <2>3. seen' \in Signals /\ seen'.associated = a
    <3>1. seen \in Signals
      BY DEF TypeOK
    <3> QED
      BY <2>1, <2>2, <3>1 DEF Signals
  <2>4. TypeOK'
    BY <1>1, <2>3 DEF ReadStations, TypeOK
  <2> QED
    BY <1>1, <2>2, <2>3, <2>4 DEF ReadStations, StateCounts, SeenIsTrue
<1>2. CASE ReadLog
  <2>1. PICK old \in Reads("log", httpAge >= HttpStale, httpAge < HttpStale) :
            seen' = [seen EXCEPT !.httpOld = old]
    BY <1>2 DEF ReadLog
  <2>2. (httpAge >= HttpStale) \in BOOLEAN /\ (httpAge < HttpStale) \in BOOLEAN
    BY PolicyAssumption, SMT DEF TypeOK
  <2>3. old \in BOOLEAN
    BY <2>2, Zenon DEF Reads
  <2>4. seen' \in Signals /\ seen'.associated = seen.associated
    BY <2>1, <2>3 DEF TypeOK, Signals
  <2>5. TypeOK'
    BY <1>2, <2>4 DEF ReadLog, TypeOK
  <2> QED
    BY <1>2, <2>4, <2>5 DEF ReadLog, StateCounts, SeenIsTrue
<1>3. CASE ReadSockets
  <2>1. PICK s \in BOOLEAN : seen' = [seen EXCEPT !.socket = s]
    BY <1>3 DEF ReadSockets, Reads, TypeOK
  <2>2. seen' \in Signals /\ seen'.associated = seen.associated
    BY <2>1 DEF TypeOK, Signals
  <2>3. TypeOK'
    BY <1>3, <2>2 DEF ReadSockets, TypeOK
  <2> QED
    BY <1>3, <2>2, <2>3 DEF ReadSockets, StateCounts, SeenIsTrue
<1> QED
  BY <1>1, <1>2, <1>3

\* The state that decide() goes on with keeps its type, and its account of the
\* restarts is that of a watchdog that has not given up.
LEMMA CarriedCounts ==
    ASSUME IInv, ~Holding
    PROVE  /\ Carried \in [sinceRestart: 0..Cooldown \cup {None},
                           restarts: 0..MaxRestarts, sinceGiveUp: {None}]
           /\ Carried \in States
           /\ ~forgot => /\ Cardinality(recent) <= Carried.restarts
                         /\ IF Carried.sinceRestart = None
                            THEN recent = {}
                            ELSE \A a \in recent : a >= Carried.sinceRestart
<1> USE DEF IInv
<1>1. CASE state.sinceGiveUp = None
  BY <1>1 DEF Carried, TypeOK, StateCounts, States
<1>2. CASE state.sinceGiveUp # None
  <2>1. state.sinceGiveUp = Hold
    BY <1>2, PolicyAssumption DEF Holding, TypeOK, States
  <2>2. ~forgot => recent = {}
    BY <1>2, <2>1, PolicyAssumption DEF StateCounts, TypeOK, States
  <2> QED
    BY <1>2, <2>2, FS_EmptySet, FreshIsState DEF Carried, Fresh, States
<1> QED
  BY <1>1, <1>2

\* A decision and what it orders.
LEMMA DecideInv ==
    IInv /\ (SeesHealthy \/ StandsPat \/ Holds \/ CoolsDown \/ GivesUp \/ Restarts)
        => IInv'
<1> SUFFICES ASSUME IInv, SeesHealthy \/ StandsPat \/ Holds \/ CoolsDown \/ GivesUp \/ Restarts
             PROVE  IInv'
  OBVIOUS
<1>0. at' = "asleep" /\ seen' = Unread /\ SeenIsTrue'
  BY DEF SeesHealthy, StandsPat, Holds, CoolsDown, GivesUp, Restarts, Decided,
     SeenIsTrue, Unread
<1>1. CASE SeesHealthy
  <2>1. UNCHANGED <<world, joined>> /\ state' = Fresh /\ recent' = {}
        /\ forgot' = FALSE
    BY <1>1 DEF SeesHealthy
  <2>2. TypeOK'
    BY <1>0, <2>1, FreshIsState DEF IInv, TypeOK, world
  <2>3. StateCounts'
    BY <2>1, FS_EmptySet, PolicyAssumption DEF StateCounts, Fresh
  <2> QED
    BY <1>0, <2>2, <2>3 DEF IInv
<1>2. CASE StandsPat \/ Holds
  BY <1>0, <1>2, FreshIsState
     DEF StandsPat, Holds, IInv, TypeOK, StateCounts, world, history
<1>3. CASE CoolsDown
  <2>1. UNCHANGED <<world, history>> /\ state' = Carried
    BY <1>3 DEF CoolsDown
  <2>2. TypeOK'
    BY <1>0, <1>3, <2>1, CarriedCounts, FreshIsState
       DEF CoolsDown, IInv, TypeOK, world, history
  <2>3. StateCounts'
    BY <1>3, <2>1, CarriedCounts DEF CoolsDown, StateCounts, history
  <2> QED
    BY <1>0, <2>2, <2>3 DEF IInv
<1>4. CASE GivesUp
  <2>1. /\ UNCHANGED <<world, recent, forgot, joined>>
        /\ state' = [Carried EXCEPT !.sinceGiveUp = 0]
    BY <1>4 DEF GivesUp, history
  <2>2. TypeOK'
    <3>1. state' \in States
      BY <1>4, <2>1, CarriedCounts, PolicyAssumption DEF GivesUp, States
    <3> QED
      BY <1>0, <2>1, <3>1, FreshIsState DEF IInv, TypeOK, world
  <2>3. ~forgot => \A a \in recent : a > 0
    BY <1>4, CarriedCounts, PolicyAssumption DEF GivesUp, CoolingDown, IInv, TypeOK
  <2>4. Cardinality(recent) \in Nat
    BY RecentIsFinite, FS_CardinalityType DEF IInv, TypeOK
  <2>5. StateCounts'
    BY <1>4, <2>1, <2>3, <2>4, CarriedCounts, PolicyAssumption DEF GivesUp, StateCounts
  <2> QED
    BY <1>0, <2>2, <2>5 DEF IInv
<1>5. CASE Restarts
  <2>1. /\ UNCHANGED <<forgot, joined>> /\ recent' = recent \cup {0}
        /\ state' = [sinceRestart |-> 0, restarts |-> Carried.restarts + 1,
                     sinceGiveUp |-> Carried.sinceGiveUp]
        /\ ~Holding /\ ~CapReached
    BY <1>5 DEF Restarts
  <2>2. Carried.restarts + 1 \in 0..MaxRestarts
    BY <2>1, CarriedCounts, PolicyAssumption DEF CapReached
  <2>3. /\ recent' \subseteq 0..(Hold - 1)
        /\ Cardinality(recent') <= Cardinality(recent) + 1
        /\ Cardinality(recent) \in Nat
    BY <2>1, RestartAddsOne DEF IInv, TypeOK
  <2>4. TypeOK'
    <3>1. state' \in States
      BY <2>1, <2>2, CarriedCounts, PolicyAssumption DEF States
    <3> QED
      BY <1>0, <1>5, <2>1, <2>3, <3>1, FreshIsState
         DEF Restarts, RestartHostapd, IInv, TypeOK, world
  <2>5. Cardinality(recent') \in Nat
    BY <2>3, RecentIsFinite, FS_CardinalityType
  <2>6. /\ state'.sinceGiveUp = None /\ state'.sinceRestart = 0
        /\ state'.restarts = Carried.restarts + 1
        /\ Carried.restarts \in Nat
    BY <2>1, CarriedCounts
  <2>7. StateCounts'
    BY <2>1, <2>3, <2>5, <2>6, CarriedCounts, PolicyAssumption DEF StateCounts, IInv, TypeOK, States
  <2> QED
    BY <1>0, <2>4, <2>7 DEF IInv
<1> QED
  BY <1>1, <1>2, <1>3, <1>4, <1>5

\* Every step preserves the invariant.
THEOREM NextInv == IInv /\ [Next]_vars => IInv'
<1> SUFFICES ASSUME IInv, [Next]_vars PROVE IInv'
  OBVIOUS
<1>1. CASE Tick
  BY <1>1, TickInv
<1>2. CASE World
  BY <1>2, WorldInv
<1>3. CASE Turn
  BY <1>3, GatherInv, DecideInv DEF Turn
<1>4. CASE Crash
  BY <1>4, FreshIsState
     DEF Crash, IInv, TypeOK, Unread, StateCounts, SeenIsTrue, world
<1>5. CASE UNCHANGED vars
  BY <1>5 DEF vars, world, history, IInv, TypeOK, StateCounts, SeenIsTrue
<1> QED
  BY <1>1, <1>2, <1>3, <1>4, <1>5 DEF Next

THEOREM Invariance == Spec => []IInv
BY InitInv, NextInv, PTL DEF Spec

\* Every variable keeps its type: the count never passes the cap.
THEOREM TypeCorrect == Spec => []TypeOK
<1>1. IInv => TypeOK
  BY DEF IInv
<1> QED
  BY <1>1, Invariance, PTL

\* Within an outage and a life of the watchdog no Hold sees more restarts than
\* the cap, whatever the policy, the readings and the rabbit.
THEOREM RestartsAreBounded == Spec => []HourlyBudget
<1>1. IInv => HourlyBudget
  <2> SUFFICES ASSUME IInv, ~forgot PROVE Cardinality(recent) <= MaxRestarts
    BY DEF HourlyBudget
  <2>1. Cardinality(recent) \in Nat
    BY RecentIsFinite, FS_CardinalityType DEF IInv, TypeOK
  <2> QED
    BY <2>1, PolicyAssumption DEF IInv, TypeOK, StateCounts, States
<1> QED
  BY <1>1, Invariance, PTL

\* The cooldown is kept even where the hold has cleared last_restart_at.
THEOREM CooldownIsKept == Spec => CooldownKept
<1>1. IInv /\ Restarts /\ ~forgot => \A a \in recent : a >= Cooldown
  <2> SUFFICES ASSUME IInv, Restarts, ~forgot, NEW a \in recent PROVE a >= Cooldown
    OBVIOUS
  <2>1. ~Holding /\ ~CoolingDown
    BY DEF Restarts
  <2> QED
    BY <2>1, CarriedCounts, PolicyAssumption DEF CoolingDown, IInv, TypeOK
<1> QED
  BY <1>1, Invariance, PTL DEF CooldownKept

\* hostapd is never restarted under a rabbit that stayed associated.
THEOREM HealthyUndisturbed == Spec => NeverDisturbs
<1>1. IInv /\ Restarts => ~associated \/ joined
  BY DEF IInv, SeenIsTrue, Restarts, Coincide
<1> QED
  BY <1>1, Invariance, PTL DEF NeverDisturbs

-----------------------------------------------------------------------------
\* How far away the next restart is, as the state carried has it: the rest of the
\* hold, or of the cooldown, and if the cap is reached a hold that has yet to begin.
Cooling == IF state.sinceRestart = None THEN 0 ELSE Cooldown - state.sinceRestart
Delay ==
    IF state.sinceGiveUp # None THEN Hold - state.sinceGiveUp
    ELSE IF state.restarts < MaxRestarts THEN Cooling ELSE Cooling + Hold + 1

Waiting == Holding \/ CoolingDown

LEMMA DelayIs ==
    ASSUME IInv
    PROVE  /\ Cooling \in 0..Cooldown
           /\ Delay \in 0..(Cooldown + Hold + 1)
BY PolicyAssumption DEF IInv, TypeOK, States, Cooling, Delay

LEMMA TickNears ==
    ASSUME IInv, Tick
    PROVE  Delay' <= Delay /\ (Waiting => Delay' < Delay)
<1>1. /\ state.sinceRestart \in 0..Cooldown \cup {None}
      /\ state.restarts \in 0..MaxRestarts
      /\ state.sinceGiveUp \in 0..Hold \cup {None}
  BY DEF IInv, TypeOK, States
<1>2. /\ state'.sinceRestart = Older(state.sinceRestart, Cooldown)
      /\ state'.restarts = state.restarts
      /\ state'.sinceGiveUp = Older(state.sinceGiveUp, Hold)
  BY DEF Tick
<1>3. CASE state.sinceGiveUp # None
  <2>1. /\ Delay = Hold - state.sinceGiveUp
        /\ Delay' = Hold - state'.sinceGiveUp
    BY <1>1, <1>2, <1>3, PolicyAssumption DEF Delay, Older
  <2>2. Waiting => state.sinceGiveUp < Hold
    BY <1>3 DEF Waiting, Holding, CoolingDown, Carried, Fresh
  <2> QED
    BY <1>1, <1>2, <1>3, <2>1, <2>2, PolicyAssumption DEF Older
<1>4. CASE state.sinceGiveUp = None
  <2>1. state'.sinceGiveUp = None
    BY <1>2, <1>4 DEF Older
  <2>2. Waiting => state.sinceRestart # None /\ state.sinceRestart < Cooldown
    BY <1>4 DEF Waiting, Holding, CoolingDown, Carried
  <2>3. /\ Cooling \in Int /\ Cooling' \in Int
        /\ Cooling' <= Cooling
        /\ Waiting => Cooling' < Cooling
    BY <1>1, <1>2, <2>2, PolicyAssumption DEF Cooling, Older
  <2> QED
    BY <1>1, <1>2, <1>4, <2>1, <2>3, PolicyAssumption DEF Delay
<1> QED
  BY <1>3, <1>4

LEMMA DecisionNears ==
    ASSUME IInv, MaxRestarts > 0,
           SeesHealthy \/ StandsPat \/ Holds \/ CoolsDown \/ GivesUp
    PROVE  Delay' <= Delay /\ (Coincide /\ ~Waiting => Delay' < Delay)
<1>1. Delay \in Nat
  BY DelayIs, PolicyAssumption
<1>2. CASE SeesHealthy
  <2>1. Delay' = 0
    BY <1>2 DEF SeesHealthy, Fresh, Delay, Cooling
  <2> QED
    BY <1>1, <1>2, <2>1 DEF SeesHealthy, Coincide
<1>3. CASE StandsPat \/ Holds
  <2>1. Delay' = Delay /\ ~(Coincide /\ ~Waiting)
    BY <1>3 DEF StandsPat, Holds, Delay, Cooling, Waiting
  <2> QED
    BY <1>1, <2>1
<1>4. CASE CoolsDown
  <2>1. state' = state
    BY <1>4 DEF CoolsDown, CoolingDown, Carried, Fresh
  <2>2. Delay' = Delay /\ Waiting
    BY <1>4, <2>1 DEF CoolsDown, Delay, Cooling, Waiting
  <2> QED
    BY <1>1, <2>2
<1>5. CASE GivesUp
  <2>1. state.sinceGiveUp = None /\ Carried = state
    BY <1>5, PolicyAssumption DEF GivesUp, CapReached, Carried, Fresh
  <2>2. Delay = Cooling + Hold + 1
    BY <1>5, <2>1, PolicyAssumption DEF GivesUp, CapReached, Delay, IInv, TypeOK, States
  <2>3. state'.sinceGiveUp = 0
    BY <1>5, <2>1 DEF GivesUp, IInv, TypeOK, States
  <2>4. Delay' = Hold
    BY <2>3, PolicyAssumption DEF Delay
  <2> QED
    BY <2>2, <2>4, DelayIs, PolicyAssumption
<1> QED
  BY <1>2, <1>3, <1>4, <1>5

\* The cap, the cooldown and the hold never become a refusal for good: while nothing is
\* restarted the delay is not put off, the clock shortens it wherever decide() says to
\* wait, and wherever it does not, the signals of an outage restart hostapd or, at the
\* cap, begin the hold.  A week-long power-off leaves nothing behind that would delay a
\* later recovery (rabbit_recovery.py, line 106).
Nears ==
    [][/\ Restarts \/ Delay' <= Delay
       /\ Tick /\ Waiting => Delay' < Delay
       /\ Turn /\ at = "decide" /\ Coincide /\ ~Waiting => Restarts \/ Delay' < Delay]_vars
THEOREM RestartIsNear ==
    ASSUME MaxRestarts > 0
    PROVE  Spec => [](Delay \in 0..(Cooldown + Hold + 1)) /\ Nears
<1>1. IInv => Delay \in 0..(Cooldown + Hold + 1)
  BY DelayIs
<1>2. IInv /\ [Next]_vars =>
          [/\ Restarts \/ Delay' <= Delay
           /\ Tick /\ Waiting => Delay' < Delay
           /\ Turn /\ at = "decide" /\ Coincide /\ ~Waiting =>
                  Restarts \/ Delay' < Delay]_vars
  <2> SUFFICES ASSUME IInv, [Next]_vars
               PROVE  /\ Restarts \/ Delay' <= Delay
                      /\ Tick /\ Waiting => Delay' < Delay
                      /\ Turn /\ at = "decide" /\ Coincide /\ ~Waiting =>
                             Restarts \/ Delay' < Delay
    OBVIOUS
  <2>1. Delay \in Nat
    BY DelayIs, PolicyAssumption
  <2>2. CASE Tick
    <3>1. at # "decide"
      BY <2>2 DEF Tick
    <3> QED
      BY <2>2, <3>1, TickNears
  <2>3. CASE ~Tick /\ (World \/ ReadStations \/ ReadLog \/ ReadSockets)
    <3>1. state' = state /\ ~(Turn /\ at = "decide")
      BY <2>3 DEF World, RabbitTalks, RabbitJoins, RabbitLeaves, RabbitSwitched,
                  NetworkVanishes, SessionCloses, program, Turn, Decided,
                  ReadStations, ReadLog, ReadSockets, SeesHealthy, StandsPat, Holds,
                  CoolsDown, GivesUp, Restarts
    <3>2. Delay' = Delay
      BY <3>1 DEF Delay, Cooling
    <3> QED
      BY <2>1, <2>3, <3>1, <3>2
  <2>4. CASE ~Tick /\ (SeesHealthy \/ StandsPat \/ Holds \/ CoolsDown \/ GivesUp)
    BY <2>4, DecisionNears
  <2>5. CASE ~Tick /\ (Crash \/ UNCHANGED vars)
    <3>1. Delay' = 0 \/ Delay' = Delay
      BY <2>5 DEF Crash, Fresh, Delay, Cooling, vars
    <3>2. Turn /\ at = "decide" /\ Coincide /\ ~Waiting => Restarts \/ Delay' < Delay
      BY DecisionNears
         DEF Turn, ReadStations, ReadLog, ReadSockets
    <3> QED
      BY <2>1, <2>5, <3>1, <3>2
  <2> QED
    BY <2>2, <2>3, <2>4, <2>5 DEF Next, Turn
<1> QED
  BY <1>1, <1>2, Invariance, PTL DEF Spec, Nears
=============================================================================
