---------------------------- MODULE CommandLane ----------------------------
(***************************************************************************)
(* What one lane of the BodyController promises its callers                *)
(* (docs/ARCHITECTURE.md, section 6.4): a command that submit() accepted   *)
(* is served at most once, never after it was dropped, one at a time, the  *)
(* highest priority first and in submission order within a priority.       *)
(*                                                                         *)
(* BodyController implements this module twice: once with the motion lane  *)
(* (serving = the HTTP round-trip of a gesture) and once with the audio    *)
(* lane (serving = from the moment the entry is popped until its playback  *)
(* is over).                                                               *)
(***************************************************************************)
EXTENDS Integers

CONSTANT Entries    \* the commands the lane may be given, with their tickets

VARIABLES queued,   \* accepted, neither served nor dropped yet
          serving,  \* the command being served, as a set of at most one
          ticket    \* the next sequence number

lane == <<queued, serving, ticket>>

Init == /\ queued = {}
        /\ serving = {}
        /\ ticket = 1

\* e is served before f.
Before(e, f) == \/ e.priority > f.priority
                \/ e.priority = f.priority /\ e.seq < f.seq

\* A caller's command joins the queue under a fresh ticket.
Accept(e) == /\ e.seq = ticket
             /\ queued' = queued \cup {e}
             /\ ticket' = ticket + 1
             /\ UNCHANGED serving

\* The ticket went to a command of the other lane.
AcceptElsewhere == /\ ticket' = ticket + 1
                   /\ UNCHANGED <<queued, serving>>

\* Commands leave the queue unserved: dropped by an interrupt, superseded,
\* past their deadline, redundant, or refused by the body at once.
Discard(S) == /\ queued' = queued \ S
              /\ UNCHANGED <<serving, ticket>>

\* The lane is free and takes up e, after discarding S; nothing that is left
\* in the queue should have gone before e.
Serve(e, S) == /\ serving = {}
               /\ e \in queued \ S
               /\ queued' = queued \ (S \cup {e})
               /\ \A f \in queued' : Before(e, f)
               /\ serving' = {e}
               /\ UNCHANGED ticket

\* The command being served is over.
Finish == /\ serving # {}
          /\ serving' = {}
          /\ UNCHANGED <<queued, ticket>>

Next == \/ \E e \in Entries : Accept(e)
        \/ AcceptElsewhere
        \/ \E S \in SUBSET queued : Discard(S)
        \/ \E e \in queued, S \in SUBSET queued : Serve(e, S)
        \/ Finish

Spec == Init /\ [][Next]_lane
=============================================================================
