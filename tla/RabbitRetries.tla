---------------------------- MODULE RabbitRetries ----------------------------
(***************************************************************************)
(* RabbitRecovery with one more history variable: whether the watchdog has *)
(* given up in this outage, which its State forgets when the hold elapses. *)
(***************************************************************************)
EXTENDS RabbitRecovery

VARIABLE gaveUp

RetryInit == Init /\ gaveUp = FALSE

RetryNext == Next /\ gaveUp' = (GivesUp \/ (gaveUp /\ ~SeesHealthy))

RetrySpec == RetryInit /\ [][RetryNext]_<<vars, gaveUp>>
                 /\ WF_<<vars, gaveUp>>(Turn /\ RetryNext)
                 /\ SF_<<vars, gaveUp>>(Tick /\ RetryNext)

\* After giving up "retry at most once per give_up_hold_s" (rabbit_recovery.py:130),
\* "retry at most hourly" (line 70): as long as the outage lasts and the watchdog
\* does not crash, a restart after it has given up is the only one of its Hold.
\* The code starts a whole burst of max_restarts_per_outage instead, because the
\* hold that elapses gives it the State of a new outage.
RetriesOncePerHold ==
    [][Restarts /\ gaveUp /\ ~forgot => recent = {}]_<<vars, gaveUp>>
=============================================================================
