------------------------- MODULE MCRealtimeSession -------------------------
(***************************************************************************)
(* Two items and deltas of five frames, pulled in blocks of two, so that a *)
(* delta lasts three periods and its last block is filled partly; a device *)
(* that holds two periods, longer than the debounce.                       *)
(***************************************************************************)
EXTENDS RealtimeSession

MCItems == 1..2
MCSizes == {5}
=============================================================================
