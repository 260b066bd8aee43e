------------------------- MODULE ActiveAppointment -------------------------
(***************************************************************************)
(* What the two partitions of CaseAppointments promise together about the  *)
(* trustee of a case: a case has at most one active appointment; it passes *)
(* from one trustee to another by ending the first and then making the     *)
(* second; and only an appointment that some event asked for is ever made. *)
(***************************************************************************)
CONSTANT Keys   \* natural keys of real appointments

VARIABLES
  active,       \* the active appointment, as a set of at most one key
  requested     \* the appointments that events have asked for

vars == <<active, requested>>

Init ==
  /\ active = {}
  /\ requested = {}

Request(k) ==
  /\ requested' = requested \cup {k}
  /\ UNCHANGED active

Appoint(k) ==
  /\ active = {}
  /\ k \in requested
  /\ active' = {k}
  /\ UNCHANGED requested

Vacate ==
  /\ active # {}
  /\ active' = {}
  /\ UNCHANGED requested

Next ==
  \/ \E k \in Keys : Request(k) \/ Appoint(k)
  \/ Vacate

Spec == Init /\ [][Next]_vars
=============================================================================
