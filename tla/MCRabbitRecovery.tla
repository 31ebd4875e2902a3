-------------------------- MODULE MCRabbitRecovery --------------------------
(***************************************************************************)
(* A policy of small numbers for RabbitRecovery: the hold is longer than a *)
(* whole burst of restarts, as three cooldowns are shorter than an hour.   *)
(***************************************************************************)
EXTENDS RabbitRecovery

MCHttpStale == 2
MCCooldown == 2
MCMaxRestarts == 2
MCHold == 7
=============================================================================
