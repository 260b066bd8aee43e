------------------------- MODULE MCCaseAppointments -------------------------
(* Small instances of CaseAppointments: two trustees compete for a case.   *)
EXTENDS CaseAppointments, TLC

CONSTANTS e1, e2, e3, f1, f2, t1, t2

(* t1 is appointed, then t2, then t1 again. *)
ReassignBack ==
  e1 :> [fingerprint |-> f1, appointedDate |-> 1] @@
  e2 :> [fingerprint |-> f2, appointedDate |-> 2] @@
  e3 :> [fingerprint |-> f1, appointedDate |-> 3]

Resolve == f1 :> t1 @@ f2 :> t2
=============================================================================
