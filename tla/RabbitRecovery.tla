--------------------------- MODULE RabbitRecovery ---------------------------
(***************************************************************************)
(* deploy/rabbit_recovery.py: the watchdog that restarts hostapd when the  *)
(* access point has silently stopped advertising the rabbit's network.     *)
(* Each turn of its loop takes three readings, one command after another,  *)
(* and hands them with the state it carries to decide(); the rabbit, the   *)
(* access point and the sockets change between the readings.               *)
(*                                                                         *)
(* Time is kept as ages, because decide() only ever compares an age with a *)
(* threshold: an age stops growing at the threshold.  A turn of the loop   *)
(* takes no time (its commands have a timeout of seconds, the thresholds   *)
(* are minutes).  The wall clock does not jump.                            *)
(***************************************************************************)
EXTENDS Integers, FiniteSets

CONSTANTS
    HttpStale,    \* http_stale_after_s
    Cooldown,     \* cooldown_s
    MaxRestarts,  \* max_restarts_per_outage
    Hold,         \* give_up_hold_s
    Faults        \* what can go wrong, see below

\* iw, log, ss: a reading cannot be taken, or is wrong; restart: the restart command fails;
\* crash: the watchdog dies and systemd starts it again.
FaultKinds == {"iw", "log", "ss", "restart", "crash"}

ASSUME PolicyAssumption ==
    /\ HttpStale \in Nat
    /\ Cooldown \in Nat \ {0}
    /\ MaxRestarts \in Nat
    /\ Hold \in Nat \ {0}
    /\ Faults \subseteq FaultKinds

None == -1

VARIABLES
    powered,      \* the rabbit is switched on
    advertising,  \* the access point really advertises its network
    associated,   \* the rabbit is associated
    socket,       \* an ESTAB socket with the rabbit on :5222, live or a ghost
    httpAge,      \* the age of the rabbit's last HTTP request
    at,           \* where the loop is: asleep, or before the reading it names
    seen,         \* the Signals gathered in this turn
    state,        \* the State carried from turn to turn
    recent,       \* history: ages, under Hold, of the restarts of this outage
    forgot,       \* history: it has crashed in this outage
    joined        \* history: the rabbit has joined during this turn

world == <<powered, advertising, associated, socket, httpAge>>
history == <<recent, forgot, joined>>
vars == <<world, at, seen, state, history>>

Signals == [associated: {"yes", "no", "unknown"}, httpOld: BOOLEAN, socket: BOOLEAN]
Unread == [associated |-> "unknown", httpOld |-> FALSE, socket |-> FALSE]

States == [sinceRestart: 0..Cooldown \cup {None}, restarts: 0..MaxRestarts,
           sinceGiveUp: 0..Hold \cup {None}]

\* State(): the ages of last_restart_at and given_up_at, and the count.
Fresh == [sinceRestart |-> None, restarts |-> 0, sinceGiveUp |-> None]

Init ==
    /\ powered \in BOOLEAN /\ advertising \in BOOLEAN
    /\ associated \in BOOLEAN
    /\ associated => powered /\ advertising
    /\ socket \in BOOLEAN
    /\ httpAge \in 0..HttpStale
    /\ at = "asleep" /\ seen = Unread /\ state = Fresh
    /\ recent = {} /\ forgot = FALSE /\ joined = FALSE

-----------------------------------------------------------------------------
\* The rabbit, the access point, the server's sockets and the clock

Older(age, limit) == IF age = None \/ age >= limit THEN age ELSE age + 1

Tick ==
    /\ at = "asleep"
    /\ httpAge' = Older(httpAge, HttpStale)
    /\ state' = [sinceRestart |-> Older(state.sinceRestart, Cooldown),
                 restarts |-> state.restarts,
                 sinceGiveUp |-> Older(state.sinceGiveUp, Hold)]
    /\ recent' = {a + 1 : a \in {b \in recent : b + 1 < Hold}}
    /\ UNCHANGED <<powered, advertising, associated, socket, at, seen,
                   forgot, joined>>

program == <<at, seen, state, recent, forgot>>

\* The rabbit makes a request, and holds its XMPP session.
RabbitTalks ==
    /\ associated
    /\ httpAge' = 0 /\ socket' = TRUE
    /\ UNCHANGED <<powered, advertising, associated, joined, program>>

RabbitJoins ==
    /\ powered /\ advertising /\ ~associated
    /\ associated' = TRUE /\ joined' = TRUE
    /\ UNCHANGED <<powered, advertising, socket, httpAge, program>>

\* Out of range, or switched off; its session is not closed.
RabbitLeaves ==
    /\ associated
    /\ associated' = FALSE /\ powered' \in BOOLEAN
    /\ UNCHANGED <<advertising, socket, httpAge, joined, program>>

RabbitSwitched ==
    /\ ~associated
    /\ powered' = ~powered
    /\ UNCHANGED <<advertising, associated, socket, httpAge, joined, program>>

\* The outage: the network is no longer advertised, the rabbit is dropped.
NetworkVanishes ==
    /\ advertising
    /\ advertising' = FALSE /\ associated' = FALSE
    /\ UNCHANGED <<powered, socket, httpAge, joined, program>>

\* The server gives up the session.
SessionCloses ==
    /\ socket /\ socket' = FALSE
    /\ UNCHANGED <<powered, advertising, associated, httpAge, joined, program>>

-----------------------------------------------------------------------------
\* gather_signals(): iw, then the access log, then ss

Reads(fault, value, failed) == IF fault \in Faults THEN {value, failed} ELSE {value}

ReadStations ==
    /\ at = "asleep"
    /\ at' = "log"
    /\ \E a \in Reads("iw", IF associated THEN "yes" ELSE "no", "unknown") :
           seen' = [seen EXCEPT !.associated = a]
    /\ joined' = FALSE
    /\ UNCHANGED <<world, state, recent, forgot>>

\* An age that cannot be determined is never old.  The age is read off the end
\* of the log, or off the rotated logs when no request of the rabbit's is left
\* there: so a rabbit that has just talked may be read as silent, too.
ReadLog ==
    /\ at = "log"
    /\ at' = "ss"
    /\ \E old \in Reads("log", httpAge >= HttpStale, httpAge < HttpStale) :
           seen' = [seen EXCEPT !.httpOld = old]
    /\ UNCHANGED <<world, state, history>>

ReadSockets ==
    /\ at = "ss"
    /\ at' = "decide"
    /\ \E s \in Reads("ss", socket, FALSE) : seen' = [seen EXCEPT !.socket = s]
    /\ UNCHANGED <<world, state, history>>

-----------------------------------------------------------------------------
\* decide() and execute()

Decided == at = "decide" /\ at' = "asleep" /\ seen' = Unread

\* (mutant) an unknown association is taken for an absent rabbit.
CoincideOnAGuess == seen.associated # "yes" /\ seen.httpOld /\ seen.socket

\* The three signals of the outage that a restart heals.
Coincide == seen.associated = "no" /\ seen.httpOld /\ seen.socket

\* (mutant) the hold is as short as the cooldown.
HoldingBriefly == state.sinceGiveUp # None /\ state.sinceGiveUp < Cooldown
Holding == state.sinceGiveUp # None /\ state.sinceGiveUp < Hold

\* (mutant) the hold elapses but the count stays.
CarriedOn == state
\* The state past the hold: a hold that has elapsed clears it.
Carried == IF state.sinceGiveUp # None THEN Fresh ELSE state

\* (mutant) the cooldown is one unit short.
CoolingDownLess == Carried.sinceRestart # None /\ Carried.sinceRestart < Cooldown - 1
CoolingDown == Carried.sinceRestart # None /\ Carried.sinceRestart < Cooldown

\* (mutant) one restart more than the cap.
CapPassed == Carried.restarts > MaxRestarts
CapReached == Carried.restarts >= MaxRestarts

\* The rabbit is associated: the outage, if there was one, is over.
SeesHealthy ==
    /\ Decided
    /\ seen.associated = "yes"
    /\ state' = Fresh
    /\ recent' = {} /\ forgot' = FALSE
    /\ UNCHANGED <<world, joined>>

StandsPat ==
    /\ Decided
    /\ seen.associated # "yes" /\ ~Coincide
    /\ UNCHANGED <<world, state, history>>

Holds ==
    /\ Decided
    /\ Coincide /\ Holding
    /\ UNCHANGED <<world, state, history>>

CoolsDown ==
    /\ Decided
    /\ Coincide /\ ~Holding /\ CoolingDown
    /\ state' = Carried
    /\ UNCHANGED <<world, history>>

GivesUp ==
    /\ Decided
    /\ Coincide /\ ~Holding /\ ~CoolingDown /\ CapReached
    /\ state' = [Carried EXCEPT !.sinceGiveUp = 0]
    /\ UNCHANGED <<world, history>>

\* A restart advertises the network again and drops every station.
RestartHostapd ==
    \/ /\ advertising' = TRUE /\ associated' = FALSE
       /\ UNCHANGED <<powered, socket, httpAge>>
    \/ /\ "restart" \in Faults
       /\ UNCHANGED world

\* The restart is counted before it is tried.
Restarts ==
    /\ Decided
    /\ Coincide /\ ~Holding /\ ~CoolingDown /\ ~CapReached
    /\ state' = [sinceRestart |-> 0, restarts |-> Carried.restarts + 1,
                 sinceGiveUp |-> Carried.sinceGiveUp]
    /\ recent' = recent \cup {0}
    /\ RestartHostapd
    /\ UNCHANGED <<forgot, joined>>

\* The state is held in memory only.
Crash ==
    /\ "crash" \in Faults
    /\ at' = "asleep" /\ seen' = Unread /\ state' = Fresh
    /\ forgot' = TRUE
    /\ UNCHANGED <<world, recent, joined>>

-----------------------------------------------------------------------------
Turn == \/ ReadStations \/ ReadLog \/ ReadSockets
        \/ SeesHealthy \/ StandsPat \/ Holds \/ CoolsDown \/ GivesUp \/ Restarts

World == \/ RabbitTalks \/ RabbitJoins \/ RabbitLeaves \/ RabbitSwitched
         \/ NetworkVanishes \/ SessionCloses

Next == Tick \/ World \/ Turn \/ Crash

Spec == Init /\ [][Next]_vars

\* The loop never ends and sleeps, for an interval of the clock, between its
\* turns; the rabbit and the network owe nothing.
FairSpec == Spec /\ WF_vars(Turn) /\ SF_vars(Tick)
-----------------------------------------------------------------------------
\* Properties

TypeOK ==
    /\ powered \in BOOLEAN /\ advertising \in BOOLEAN
    /\ associated \in BOOLEAN /\ socket \in BOOLEAN
    /\ httpAge \in 0..HttpStale
    /\ at \in {"asleep", "log", "ss", "decide"}
    /\ seen \in Signals
    /\ state \in States
    /\ recent \subseteq 0..(Hold - 1)
    /\ forgot \in BOOLEAN /\ joined \in BOOLEAN

\* "a healthy or a merely-idle rabbit is never disturbed"
\* (rabbit_recovery.py:15): hostapd is restarted under an associated rabbit
\* only when the rabbit joined while the readings were being taken.
NeverDisturbs == [][Restarts => ~associated \/ joined]_vars

\* "cooldown, a per-outage restart cap with an hourly retry-hold stop it
\* cycling" (line 24): as long as the outage lasts and the watchdog itself
\* does not crash, any period of Hold sees at most MaxRestarts restarts, the
\* cap of a single burst, although a hold that elapses clears the count, ...
HourlyBudget == ~forgot => Cardinality(recent) <= MaxRestarts

\* ... and no two of them are closer than Cooldown, although a hold that
\* elapses forgets when the last one was.
CooldownKept == [][Restarts /\ ~forgot => \A a \in recent : a >= Cooldown]_vars

\* What goes wrong in a step: a reading that is not of the world, a restart
\* that restarts nothing, a crash.
Misread == \/ at = "asleep" /\ at' = "log" /\ seen'.associated = "unknown"
           \/ at = "log" /\ at' = "ss" /\ seen'.httpOld # (httpAge >= HttpStale)
           \/ at = "ss" /\ at' = "decide" /\ seen'.socket # socket
Fails == Misread \/ (Restarts /\ ~advertising') \/ Crash

\* The outage is healed, once the watchdog's own faults are over: a silent
\* access point does not stay silent while the dead session that betrays it
\* lingers, however many restarts, crashes and holds went before ("stops a
\* week-long power-off from poisoning a later, genuine recovery", line 106).
Heals == <>[][~Fails]_vars => (~advertising /\ socket ~> advertising \/ ~socket)
-----------------------------------------------------------------------------
\* The inductive invariant of the proofs.

\* What the carried state says of the restarts of the last Hold, unless a
\* crash has cleared it: the count bounds them until the watchdog gives up, and
\* those before giving up have left the Hold when it elapses.
StateCounts ==
    ~forgot =>
        /\ IF state.sinceGiveUp = None
           THEN Cardinality(recent) <= state.restarts
           ELSE /\ Cardinality(recent) <= MaxRestarts
                /\ \A a \in recent : a > state.sinceGiveUp
        /\ IF state.sinceRestart = None
           THEN recent = {}
           ELSE \A a \in recent : a >= state.sinceRestart

\* A reading of "no" is right until the rabbit joins.
SeenIsTrue == seen.associated = "no" => ~associated \/ joined

IInv == TypeOK /\ StateCounts /\ SeenIsTrue
=============================================================================
