-------------------------- MODULE AnnouncementFifo --------------------------
(***************************************************************************)
(* What the announcement endpoint promises, without render, preparations   *)
(* or connections: an announcement is accepted once, announcements are     *)
(* taken one at a time in the order they were accepted, and one that was   *)
(* taken ends once, or is lost; it never goes back to wait.                *)
(***************************************************************************)
EXTENDS Naturals, Sequences

CONSTANTS CommandId, None

VARIABLES
  pending,    \* accepted announcements, in order
  accepted,   \* every commandId ever accepted
  active,     \* the one that was taken last and has not ended, or None
  over        \* the ones whose end was published

fifoVars == <<pending, accepted, active, over>>

Init ==
  /\ pending = <<>> /\ accepted = {}
  /\ active = None /\ over = {}

Accept(id) ==
  /\ id \notin accepted
  /\ accepted' = accepted \cup {id}
  /\ pending' = Append(pending, id)
  /\ UNCHANGED <<active, over>>

\* The oldest one is taken, and only when none is active.
Take ==
  /\ active = None /\ pending # <<>>
  /\ active' = Head(pending)
  /\ pending' = Tail(pending)
  /\ UNCHANGED <<accepted, over>>

End ==
  /\ active # None
  /\ over' = over \cup {active}
  /\ active' = None
  /\ UNCHANGED <<pending, accepted>>

Lose ==
  /\ active # None
  /\ active' = None
  /\ UNCHANGED <<pending, accepted, over>>

Next == (\E id \in CommandId : Accept(id)) \/ Take \/ End \/ Lose

Spec == Init /\ [][Next]_fifoVars

=============================================================================
