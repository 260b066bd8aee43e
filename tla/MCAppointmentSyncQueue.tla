------------------------ MODULE MCAppointmentSyncQueue ------------------------
(* Small instances of AppointmentSyncQueue: transactions of both sources,  *)
(* all of them in DXTR before the first export looks for them.             *)
EXTENDS AppointmentSyncQueue, TLC

CONSTANTS e1, e2, e3

LastIsPetition == [e \in Events |-> IF e = e3 THEN "petition" ELSE "appointment"]

(* The dates of the transactions: 1, 2, ... in the order of their names. *)
Dates == [e \in Events |-> IF e = e1 THEN 1 ELSE IF e = e2 THEN 2 ELSE 3]

Started(s) == startPc[s] = "idle" /\ startPc'[s] # "idle"

CommittedFirst == (\E s \in Starters : Started(s)) => committed = Events

(* The host runs what it started and polls the queue for as long as there  *)
(* are messages.  When handleStart runs is up to the timer.                *)
CommittedSpec ==
  /\ Init /\ [][Next /\ CommittedFirst]_vars
  /\ \A s \in Starters : WF_vars(StartStep(s))
  /\ \A h \in Handlers : WF_vars(PageStep(h))
===============================================================================
