----------------------- MODULE CaseAppointmentsProofs -----------------------
(***************************************************************************)
(* Proofs about CaseAppointments, for any number of events, trustees and   *)
(* dates: first for any number of handlers running beside each other.      *)
(***************************************************************************)
EXTENDS CaseAppointments, TLAPS

USE StoreAssumption, EventAssumption, HandlerAssumption

(* Where a handler's target is the trustee's row, and where it may be the  *)
(* surrogate's; where it holds a key it read, of a real row or of any row. *)
Linking   == {"readActive", "checkTrustee", "repairTrustee", "closeCase",
              "closeTrustee", "notifyClose", "findStranded", "readHistory",
              "repairStranded", "notifyOpen"}
Creating  == {"createCase", "createTrustee"}
Replacing == {"checkTrustee", "repairTrustee", "closeCase", "closeTrustee",
              "notifyClose"}
Repairing == {"readHistory", "repairStranded"}

Known(j, label) ==
  /\ label \in Linking \cup Creating => Date(j.event) \in Dates
  /\ label \in Linking  => j.target = Appointment(j.event)
  /\ label \in Creating => j.target \in {Appointment(j.event), Surrogate(j.event)}
  /\ label \in Replacing => j.old \in RealKeys
  /\ label \in Repairing => j.old \in Keys

JobsKnown == \A h \in Handlers : Known(job[h], pc[h])

TypeInv == TypeOK /\ JobsKnown

LEMMA EventFacts ==
  ASSUME NEW e \in Events
  PROVE  /\ Fingerprint(e) \in Fingerprints
         /\ Trustee(e) \in Trustees
         /\ Date(e) \in Dates \cup {NoDate}
         /\ Date(e) \in Dates => /\ Appointment(e) \in RealKeys
                                 /\ Surrogate(e) \in Keys
                                 /\ Surrogate(e) \notin RealKeys
  BY DEF Fingerprint, Trustee, Date, Appointment, Surrogate, RealKeys, Keys, Holders

LEMMA JobFacts ==
  /\ IdleJob \in Jobs
  /\ \A e \in Events : NewJob(e) \in Jobs
  BY DEF IdleJob, NewJob, Jobs, NoRow, Row, Outcomes

(* What is left alone when a field of a handler's variables is set. *)
LEMMA JobUpdates ==
  ASSUME NEW j \in Jobs
  PROVE  /\ j.event \in Events /\ j.oldRow \in Row /\ j.newId \in Nat
         /\ \A r \in Outcomes : [j EXCEPT !.result = r] \in Jobs
         /\ \A k \in Keys : [j EXCEPT !.target = k] \in Jobs
         /\ \A k \in Keys, row \in Row : [j EXCEPT !.old = k, !.oldRow = row] \in Jobs
         /\ \A row \in Row : [j EXCEPT !.oldRow = row] \in Jobs
         /\ [j EXCEPT !.soft = TRUE] \in Jobs
         /\ \A n \in Nat : [j EXCEPT !.newId = n] \in Jobs
  <1>1. /\ j.event \in Events /\ j.oldRow \in Row /\ j.newId \in Nat
        /\ \A r \in Outcomes : [j EXCEPT !.result = r] \in Jobs
        /\ \A k \in Keys : [j EXCEPT !.target = k] \in Jobs
    BY DEF Jobs
  <1>2. \A k \in Keys, row \in Row : [j EXCEPT !.old = k, !.oldRow = row] \in Jobs
    BY DEF Jobs
  <1>3. /\ \A row \in Row : [j EXCEPT !.oldRow = row] \in Jobs
        /\ [j EXCEPT !.soft = TRUE] \in Jobs
        /\ \A n \in Nat : [j EXCEPT !.newId = n] \in Jobs
    BY DEF Jobs
  <1>. QED BY <1>1, <1>2, <1>3

(* Ending an appointment keeps its document. *)
LEMMA Closing ==
  ASSUME NEW rows \in [Keys -> Row], NEW k \in Keys,
         NEW after, after = [rows EXCEPT ![k].open = FALSE]
  PROVE  /\ after \in [Keys -> Row]
         /\ \A l \in Keys : /\ after[l].id = rows[l].id
                            /\ after[l].open <=> rows[l].open /\ l # k
  <1> DEFINE row == [rows[k] EXCEPT !.open = FALSE]
  <1>1. row \in Row /\ row.id = rows[k].id /\ row.open = FALSE
    BY DEF Row
  <1>2. after = [rows EXCEPT ![k] = row]
    OBVIOUS
  <1> HIDE DEF row
  <1>3. after \in [Keys -> Row]
    BY <1>1, <1>2
  <1>4. ASSUME NEW l \in Keys
        PROVE  after[l].id = rows[l].id /\ (after[l].open <=> rows[l].open /\ l # k)
    <2>1. CASE l = k
      BY <1>1, <1>2, <2>1
    <2>2. CASE l # k
      BY <1>2, <2>2
    <2>. QED BY <2>1, <2>2
  <1>. QED BY <1>3, <1>4

(* One handler moves on, to a label that suits what it then holds. *)
Moves(h, j, label) ==
  /\ job' = [job EXCEPT ![h] = j]
  /\ pc' = [pc EXCEPT ![h] = label]
  /\ Known(j, label)
  /\ label # "idle" => j.event = job[h].event

LEMMA Moving ==
  ASSUME TypeInv, NEW h \in Handlers,
         NEW j \in Jobs, NEW label \in Labels, Moves(h, j, label)
  PROVE  /\ job' \in [Handlers -> Jobs]
         /\ pc' \in [Handlers -> Labels]
         /\ JobsKnown'
  <1>1. job' \in [Handlers -> Jobs] /\ pc' \in [Handlers -> Labels]
    BY DEF TypeInv, TypeOK, Moves
  <1>2. ASSUME NEW g \in Handlers PROVE Known(job'[g], pc'[g])
    BY DEF TypeInv, TypeOK, JobsKnown, Moves
  <1>. QED BY <1>1, <1>2 DEF JobsKnown, Known

LEMMA TypeInit == Init => TypeInv
  BY JobFacts DEF Init, TypeInv, TypeOK, JobsKnown, Known, NoRow, Row, Outcomes, Labels,
                  Linking, Creating, Replacing, Repairing

LEMMA Shape ==
  ASSUME TypeInv, NEW h \in Handlers, HandlerStep(h)
  PROVE  \E j \in Jobs, label \in Labels : Moves(h, j, label)
<1> DEFINE Goal == \E j \in Jobs, label \in Labels : Moves(h, j, label)
           e == EventAt(h)
<1> USE DEF Goto, EventAt, Moves, Known, Linking, Creating, Replacing, Repairing
<1>1. /\ job \in [Handlers -> Jobs] /\ pc \in [Handlers -> Labels]
      /\ caseRows \in [Keys -> Row] /\ trusteeRows \in [Keys -> Row] /\ nextId \in Nat
      /\ job[h] \in Jobs /\ e \in Events /\ Known(job[h], pc[h])
  BY JobUpdates DEF TypeInv, TypeOK, JobsKnown, EventAt
<1>2. /\ Fingerprint(e) \in Fingerprints /\ Trustee(e) \in Trustees
      /\ Date(e) \in Dates \cup {NoDate}
      /\ Date(e) \in Dates => /\ Appointment(e) \in RealKeys /\ Appointment(e) \in Keys
                              /\ Surrogate(e) \in Keys
  BY <1>1, EventFacts DEF RealKeys
<1>3. CASE Report(h)
  <2>1. Moves(h, IdleJob, "idle")
    BY <1>1, <1>2, <1>3 DEF Report
  <2>. QED BY <2>1, <1>1, <1>2, <1>3, JobFacts, JobUpdates DEF Labels, Outcomes, RealKeys
<1>4. CASE SkipEvent(h)
  <2>1. CASE caseRecord = "missing"
    <3>1. Moves(h, [job[h] EXCEPT !.result = "notYetSynced"], "finish")
      BY <1>1, <1>2, <1>4, <2>1 DEF SkipEvent, Finish
    <3>. QED BY <3>1, <1>1, <1>2, <1>4, <2>1, JobFacts, JobUpdates DEF Labels, Outcomes, RealKeys
  <2>2. CASE caseRecord # "missing"
    <3>1. Moves(h, [job[h] EXCEPT !.result = "handled"], "finish")
      BY <1>1, <1>2, <1>4, <2>2 DEF SkipEvent, Finish
    <3>. QED BY <3>1, <1>1, <1>2, <1>4, <2>2, JobFacts, JobUpdates DEF Labels, Outcomes, RealKeys
  <2>. QED BY <2>1, <2>2
<1>5. CASE JoinPending(h)
  <2>1. Moves(h, job[h], "readSurrogate")
    BY <1>1, <1>2, <1>5 DEF JoinPending
  <2>. QED BY <2>1, <1>1, <1>2, <1>5, JobFacts, JobUpdates DEF Labels, Outcomes, RealKeys
<1>6. CASE MatchFails(h)
  <2>1. Moves(h, job[h], "verify")
    BY <1>1, <1>2, <1>6 DEF MatchFails
  <2>. QED BY <2>1, <1>1, <1>2, <1>6, JobFacts, JobUpdates DEF Labels, Outcomes, RealKeys
<1>7. CASE MatchSucceeds(h)
  <2>1. CASE Date(e) = NoDate
    <3>1. Moves(h, [job[h] EXCEPT !.result = "dlq"], "finish")
      BY <1>1, <1>2, <1>7, <2>1 DEF MatchSucceeds, Finish
    <3>. QED BY <3>1, <1>1, <1>2, <1>7, <2>1, JobFacts, JobUpdates DEF Labels, Outcomes, RealKeys
  <2>2. CASE Date(e) # NoDate
    <3>1. Moves(h, [job[h] EXCEPT !.target = Appointment(e)], "readActive")
      BY <1>1, <1>2, <1>7, <2>2 DEF MatchSucceeds, Finish
    <3>. QED BY <3>1, <1>1, <1>2, <1>7, <2>2, JobFacts, JobUpdates DEF Labels, Outcomes, RealKeys
  <2>. QED BY <2>1, <2>2
<1>8. CASE SaveVerification(h)
  <2>1. Moves(h, job[h], "readSurrogate")
    BY <1>1, <1>2, <1>8 DEF SaveVerification
  <2>. QED BY <2>1, <1>1, <1>2, <1>8, JobFacts, JobUpdates DEF Labels, Outcomes, RealKeys
<1>9. CASE ReadSurrogate(h)
  <2>1. CASE Date(e) = NoDate
    <3>1. Moves(h, [job[h] EXCEPT !.result = "dlq"], "finish")
      BY <1>1, <1>2, <1>9, <2>1 DEF ReadSurrogate, Finish
    <3>. QED BY <3>1, <1>1, <1>2, <1>9, <2>1, JobFacts, JobUpdates DEF Labels, Outcomes, RealKeys
  <2>2. CASE Date(e) # NoDate /\ \E k \in Keys : k.holder = Fingerprint(e) /\ caseRows[k].open
    <3>1. Moves(h, [job[h] EXCEPT !.result = "handled"], "finish")
      BY <1>1, <1>2, <1>9, <2>2 DEF ReadSurrogate, Finish
    <3>. QED BY <3>1, <1>1, <1>2, <1>9, <2>2, JobFacts, JobUpdates DEF Labels, Outcomes, RealKeys
  <2>3. CASE Date(e) # NoDate /\ ~\E k \in Keys : k.holder = Fingerprint(e) /\ caseRows[k].open
    <3>1. Moves(h, [job[h] EXCEPT !.target = Surrogate(e)], "createCase")
      BY <1>1, <1>2, <1>9, <2>3 DEF ReadSurrogate, Finish
    <3>. QED BY <3>1, <1>1, <1>2, <1>9, <2>3, JobFacts, JobUpdates DEF Labels, Outcomes, RealKeys
  <2>. QED BY <2>1, <2>2, <2>3
<1>10. CASE ReadActive(h)
  <2>1. CASE OpenReal = {}
    <3>1. Moves(h, job[h], "findStranded")
      BY <1>1, <1>2, <1>10, <2>1 DEF ReadActive
    <3>. QED BY <3>1, <1>1, <1>2, <1>10, <2>1, JobFacts, JobUpdates DEF Labels, Outcomes, RealKeys
  <2>2. CASE OpenReal # {}
    <3>1. PICK k \in OpenReal : /\ job' = [job EXCEPT ![h].old = k, ![h].oldRow = caseRows[k]]
                       /\ pc' = [pc EXCEPT ![h] = IF k.holder = job[h].target.holder THEN "checkTrustee" ELSE "closeCase"]
                       /\ pc[h] = "readActive"
      BY <2>2, <1>10 DEF ReadActive
    <3>2. job' = [job EXCEPT ![h] = [job[h] EXCEPT !.old = k, !.oldRow = caseRows[k]]]
      BY <1>1, <3>1
    <3>3. k \in Keys /\ caseRows[k] \in Row /\ k \in RealKeys
      BY <1>1 DEF OpenReal, RealKeys
    <3>4. [job[h] EXCEPT !.old = k, !.oldRow = caseRows[k]] \in Jobs
      BY <1>1, <3>3, JobUpdates
    <3>5. CASE k.holder = job[h].target.holder
      <4>1. Moves(h, [job[h] EXCEPT !.old = k, !.oldRow = caseRows[k]], "checkTrustee")
        BY <1>1, <1>2, <3>1, <3>2, <3>3, <3>5 DEF Jobs
      <4>. QED BY <4>1, <3>4 DEF Labels
    <3>6. CASE ~(k.holder = job[h].target.holder)
      <4>1. Moves(h, [job[h] EXCEPT !.old = k, !.oldRow = caseRows[k]], "closeCase")
        BY <1>1, <1>2, <3>1, <3>2, <3>3, <3>6 DEF Jobs
      <4>. QED BY <4>1, <3>4 DEF Labels
    <3>. QED BY <3>5, <3>6
  <2>. QED BY <2>1, <2>2
<1>11. CASE CheckTrustee(h)
  <2>1. CASE Exists(trusteeRows, job[h].old)
    <3>1. Moves(h, job[h], "saveVariation")
      BY <1>1, <1>2, <1>11, <2>1 DEF CheckTrustee
    <3>. QED BY <3>1, <1>1, <1>2, <1>11, <2>1, JobFacts, JobUpdates DEF Labels, Outcomes, RealKeys
  <2>2. CASE ~Exists(trusteeRows, job[h].old)
    <3>1. Moves(h, job[h], "repairTrustee")
      BY <1>1, <1>2, <1>11, <2>2 DEF CheckTrustee
    <3>. QED BY <3>1, <1>1, <1>2, <1>11, <2>2, JobFacts, JobUpdates DEF Labels, Outcomes, RealKeys
  <2>. QED BY <2>1, <2>2
<1>12. CASE RepairTrustee(h)
  <2>1. CASE pc' = [pc EXCEPT ![h] = "saveVariation"]
    <3>1. Moves(h, job[h], "saveVariation")
      BY <1>1, <1>2, <1>12, <2>1 DEF RepairTrustee, ReplaceInTrusteePartition, Finish
    <3>. QED BY <3>1, <1>1, <1>2, <1>12, <2>1, JobFacts, JobUpdates DEF Labels, Outcomes, RealKeys
  <2>2. CASE pc' # [pc EXCEPT ![h] = "saveVariation"]
    <3>1. Moves(h, [job[h] EXCEPT !.result = "dlq"], "finish")
      BY <1>1, <1>2, <1>12, <2>2 DEF RepairTrustee, ReplaceInTrusteePartition, Finish
    <3>. QED BY <3>1, <1>1, <1>2, <1>12, <2>2, JobFacts, JobUpdates DEF Labels, Outcomes, RealKeys
  <2>. QED BY <2>1, <2>2
<1>13. CASE CloseCase(h)
  <2>1. CASE caseRows[job[h].old].id = job[h].oldRow.id
    <3>1. Moves(h, job[h], "closeTrustee")
      BY <1>1, <1>2, <1>13, <2>1 DEF CloseCase, SoftCloseFailed
    <3>. QED BY <3>1, <1>1, <1>2, <1>13, <2>1, JobFacts, JobUpdates DEF Labels, Outcomes, RealKeys
  <2>2. CASE caseRows[job[h].old].id # job[h].oldRow.id
    <3>1. Moves(h, [job[h] EXCEPT !.soft = TRUE], "createCase")
      BY <1>1, <1>2, <1>13, <2>2 DEF CloseCase, SoftCloseFailed
    <3>. QED BY <3>1, <1>1, <1>2, <1>13, <2>2, JobFacts, JobUpdates DEF Labels, Outcomes, RealKeys
  <2>. QED BY <2>1, <2>2
<1>14. CASE CloseTrustee(h)
  <2>1. CASE trusteeRows[job[h].old].id = job[h].oldRow.id
    <3>1. Moves(h, job[h], "notifyClose")
      BY <1>1, <1>2, <1>14, <2>1 DEF CloseTrustee, SoftCloseFailed
    <3>. QED BY <3>1, <1>1, <1>2, <1>14, <2>1, JobFacts, JobUpdates DEF Labels, Outcomes, RealKeys
  <2>2. CASE trusteeRows[job[h].old].id # job[h].oldRow.id
    <3>1. Moves(h, [job[h] EXCEPT !.soft = TRUE], "createCase")
      BY <1>1, <1>2, <1>14, <2>2 DEF CloseTrustee, SoftCloseFailed
    <3>. QED BY <3>1, <1>1, <1>2, <1>14, <2>2, JobFacts, JobUpdates DEF Labels, Outcomes, RealKeys
  <2>. QED BY <2>1, <2>2
<1>15. CASE SoftCloseFails(h)
  <2>1. Moves(h, [job[h] EXCEPT !.soft = TRUE], "createCase")
    BY <1>1, <1>2, <1>15 DEF SoftCloseFails, SoftCloseFailed
  <2>. QED BY <2>1, <1>1, <1>2, <1>15, JobFacts, JobUpdates DEF Labels, Outcomes, RealKeys
<1>16. CASE NotifyClose(h)
  <2>1. Moves(h, job[h], "findStranded")
    BY <1>1, <1>2, <1>16 DEF NotifyClose
  <2>. QED BY <2>1, <1>1, <1>2, <1>16, JobFacts, JobUpdates DEF Labels, Outcomes, RealKeys
<1>17. CASE FindStranded(h)
  <2>1. CASE StrandedFor(h) = {}
    <3>1. Moves(h, job[h], "createCase")
      BY <1>1, <1>2, <1>17, <2>1 DEF FindStranded, StrandedFor
    <3>. QED BY <3>1, <1>1, <1>2, <1>17, <2>1, JobFacts, JobUpdates DEF Labels, Outcomes, RealKeys
  <2>2. CASE StrandedFor(h) # {}
    <3>1. PICK k \in StrandedFor(h) : /\ job' = [job EXCEPT ![h].old = k, ![h].oldRow = trusteeRows[k]]
                       /\ pc' = [pc EXCEPT ![h] = "readHistory"]
                       /\ pc[h] = "findStranded"
      BY <2>2, <1>17 DEF FindStranded
    <3>2. job' = [job EXCEPT ![h] = [job[h] EXCEPT !.old = k, !.oldRow = trusteeRows[k]]]
      BY <1>1, <3>1
    <3>3. k \in Keys /\ trusteeRows[k] \in Row
      BY <1>1 DEF StrandedFor
    <3>4. [job[h] EXCEPT !.old = k, !.oldRow = trusteeRows[k]] \in Jobs
      BY <1>1, <3>3, JobUpdates
    <3>5. CASE TRUE
      <4>1. Moves(h, [job[h] EXCEPT !.old = k, !.oldRow = trusteeRows[k]], "readHistory")
        BY <1>1, <1>2, <3>1, <3>2, <3>3, <3>5 DEF Jobs
      <4>. QED BY <4>1, <3>4 DEF Labels
    <3>. QED BY <3>5
  <2>. QED BY <2>1, <2>2
<1>18. CASE ReadHistory(h)
  <2>1. CASE Exists(caseRows, job[h].old)
    <3>1. Moves(h, [job[h] EXCEPT !.oldRow = caseRows[job[h].old]], "repairStranded")
      BY <1>1, <1>2, <1>18, <2>1 DEF ReadHistory, NoRow
    <3>2. caseRows[job[h].old] \in Row
      BY <1>1, <1>18 DEF ReadHistory, Known, Repairing
    <3>. QED BY <3>1, <3>2, <1>1, JobUpdates DEF Labels
  <2>2. CASE ~Exists(caseRows, job[h].old)
    <3>1. Moves(h, [job[h] EXCEPT !.oldRow = job[h].oldRow], "repairStranded")
      BY <1>1, <1>2, <1>18, <2>2 DEF ReadHistory, NoRow
    <3>. QED BY <3>1, <1>1, <1>2, <1>18, <2>2, JobFacts, JobUpdates DEF Labels, Outcomes, RealKeys
  <2>. QED BY <2>1, <2>2
<1>19. CASE RepairStranded(h)
  <2>1. CASE pc' = [pc EXCEPT ![h] = "createCase"]
    <3>1. Moves(h, job[h], "createCase")
      BY <1>1, <1>2, <1>19, <2>1 DEF RepairStranded, ReplaceInTrusteePartition, Finish
    <3>. QED BY <3>1, <1>1, <1>2, <1>19, <2>1, JobFacts, JobUpdates DEF Labels, Outcomes, RealKeys
  <2>2. CASE pc' # [pc EXCEPT ![h] = "createCase"]
    <3>1. Moves(h, [job[h] EXCEPT !.result = "dlq"], "finish")
      BY <1>1, <1>2, <1>19, <2>2 DEF RepairStranded, ReplaceInTrusteePartition, Finish
    <3>. QED BY <3>1, <1>1, <1>2, <1>19, <2>2, JobFacts, JobUpdates DEF Labels, Outcomes, RealKeys
  <2>. QED BY <2>1, <2>2
<1>20. CASE CreateCase(h)
  <2>1. Moves(h, [job[h] EXCEPT !.newId = nextId], "createTrustee")
    BY <1>1, <1>2, <1>20 DEF CreateCase
  <2>. QED BY <2>1, <1>1, <1>2, <1>20, JobFacts, JobUpdates DEF Labels, Outcomes, RealKeys
<1>21. CASE CreateTrustee(h)
  <2>1. CASE job[h].target.holder \in Fingerprints
    <3>1. Moves(h, [job[h] EXCEPT !.result = "handled"], "finish")
      BY <1>1, <1>2, <1>21, <2>1 DEF CreateTrustee, Finish, Surrogate
    <3>. QED BY <3>1, <1>1, <1>2, <1>21, <2>1, JobFacts, JobUpdates DEF Labels, Outcomes, RealKeys
  <2>2. CASE job[h].target.holder \notin Fingerprints /\ job[h].soft
    <3>1. Moves(h, job[h], "saveVariation")
      BY <1>1, <1>2, <1>21, <2>2 DEF CreateTrustee, Finish, Surrogate
    <3>. QED BY <3>1, <1>1, <1>2, <1>21, <2>2, JobFacts, JobUpdates DEF Labels, Outcomes, RealKeys
  <2>3. CASE job[h].target.holder \notin Fingerprints /\ ~job[h].soft
    <3>1. Moves(h, job[h], "notifyOpen")
      BY <1>1, <1>2, <1>21, <2>3 DEF CreateTrustee, Finish, Surrogate
    <3>. QED BY <3>1, <1>1, <1>2, <1>21, <2>3, JobFacts, JobUpdates DEF Labels, Outcomes, RealKeys
  <2>. QED BY <2>1, <2>2, <2>3
<1>22. CASE NotifyOpen(h)
  <2>1. Moves(h, job[h], "saveVariation")
    BY <1>1, <1>2, <1>22 DEF NotifyOpen
  <2>. QED BY <2>1, <1>1, <1>2, <1>22, JobFacts, JobUpdates DEF Labels, Outcomes, RealKeys
<1>23. CASE SaveVariation(h)
  <2>1. CASE job[h].soft
    <3>1. Moves(h, [job[h] EXCEPT !.result = "successWithDlq"], "finish")
      BY <1>1, <1>2, <1>23, <2>1 DEF SaveVariation, Finish
    <3>. QED BY <3>1, <1>1, <1>2, <1>23, <2>1, JobFacts, JobUpdates DEF Labels, Outcomes, RealKeys
  <2>2. CASE ~job[h].soft
    <3>1. Moves(h, [job[h] EXCEPT !.result = "success"], "finish")
      BY <1>1, <1>2, <1>23, <2>2 DEF SaveVariation, Finish
    <3>. QED BY <3>1, <1>1, <1>2, <1>23, <2>2, JobFacts, JobUpdates DEF Labels, Outcomes, RealKeys
  <2>. QED BY <2>1, <2>2
<1>. QED BY <1>3, <1>4, <1>5, <1>6, <1>7, <1>8, <1>9, <1>10, <1>11, <1>12, <1>13, <1>14, <1>15, <1>16, <1>17, <1>18, <1>19, <1>20, <1>21, <1>22, <1>23 DEF HandlerStep

(* The other variables keep their types: pc and job are Shape's.           *)
StoresOK ==
  /\ caseRecord \in {"missing", "synced", "moved"}
  /\ caseRows \in [Keys -> Row]
  /\ trusteeRows \in [Keys -> Row]
  /\ nextId \in Nat \ {0}
  /\ pending \subseteq Fingerprints
  /\ variations \subseteq Fingerprints
  /\ outbox \in [Handlers -> SUBSET Messages]
  /\ downstream \subseteq Messages
  /\ deliveries \in [Events -> 0..MaxDeliveries]
  /\ outcome \in [Events -> Outcomes]

LEMMA StoresStep ==
  ASSUME TypeInv, NEW h \in Handlers, HandlerStep(h)
  PROVE  StoresOK'
<1>1. StoresOK /\ job[h] \in Jobs /\ Known(job[h], pc[h])
  BY DEF TypeInv, TypeOK, StoresOK, JobsKnown
<1>2. /\ EventAt(h) \in Events
      /\ Fingerprint(EventAt(h)) \in Fingerprints
      /\ Date(EventAt(h)) \in Dates => /\ Appointment(EventAt(h)) \in Keys
                                       /\ Surrogate(EventAt(h)) \in Keys
  BY <1>1, EventFacts DEF EventAt, Jobs, RealKeys
<1> USE <1>1, <1>2 DEF StoresOK, stores, review, output
<1>3. CASE SkipEvent(h) \/ JoinPending(h) \/ MatchFails(h) \/ MatchSucceeds(h)
         \/ ReadSurrogate(h) \/ ReadActive(h) \/ CheckTrustee(h)
         \/ SoftCloseFails(h) \/ FindStranded(h) \/ ReadHistory(h)
  BY <1>3 DEF SkipEvent, JoinPending, MatchFails, MatchSucceeds, ReadSurrogate, ReadActive,
              CheckTrustee, SoftCloseFails, FindStranded, ReadHistory
<1>4. CASE Report(h)
  BY <1>4 DEF Report, Jobs
<1>5. CASE SaveVerification(h)
  BY <1>5 DEF SaveVerification
<1>6. CASE RepairTrustee(h)
  BY <1>6 DEF RepairTrustee, ReplaceInTrusteePartition, Jobs
<1>7. CASE CloseCase(h)
  <2>1. job[h].old \in Keys
    BY <1>7 DEF CloseCase, Known, Replacing, RealKeys
  <2>2. \/ caseRows' = caseRows
        \/ caseRows' = [caseRows EXCEPT ![job[h].old].open = FALSE]
    BY <1>7 DEF CloseCase
  <2>3. caseRows' \in [Keys -> Row]
    <3>1. CASE caseRows' = caseRows
      BY <3>1
    <3>2. CASE caseRows' = [caseRows EXCEPT ![job[h].old].open = FALSE]
      BY <2>1, <3>2, Closing, SMTT(30)
    <3>. QED BY <2>2, <3>1, <3>2
  <2>. QED BY <1>7, <2>3 DEF CloseCase
<1>8. CASE CloseTrustee(h)
  <2>1. job[h].old \in Keys
    BY <1>8 DEF CloseTrustee, Known, Replacing, RealKeys
  <2>2. \/ trusteeRows' = trusteeRows
        \/ trusteeRows' = [trusteeRows EXCEPT ![job[h].old].open = FALSE]
    BY <1>8 DEF CloseTrustee
  <2>3. trusteeRows' \in [Keys -> Row]
    <3>1. CASE trusteeRows' = trusteeRows
      BY <3>1
    <3>2. CASE trusteeRows' = [trusteeRows EXCEPT ![job[h].old].open = FALSE]
      BY <2>1, <3>2, Closing
    <3>. QED BY <2>2, <3>1, <3>2
  <2>. QED BY <1>8, <2>3 DEF CloseTrustee
<1>9. CASE NotifyClose(h)
  BY <1>9 DEF NotifyClose, Notify, Messages, Known, Replacing, RealKeys
<1>10. CASE RepairStranded(h)
  BY <1>10 DEF RepairStranded, ReplaceInTrusteePartition, Jobs
<1>11. CASE CreateCase(h)
  <2>1. nextId' \in Nat \ {0}
    BY <1>11 DEF CreateCase
  <2>2. caseRows' \in [Keys -> Row]
    BY <1>11 DEF CreateCase, Row
  <2>. QED BY <2>1, <2>2, <1>11 DEF CreateCase
<1>12. CASE CreateTrustee(h)
  BY <1>12 DEF CreateTrustee, Jobs, Row
<1>13. CASE NotifyOpen(h)
  BY <1>13 DEF NotifyOpen, Notify, Messages, Known, Linking, EventAt
<1>14. CASE SaveVariation(h)
  BY <1>14 DEF SaveVariation
<1>. QED BY <1>3, <1>4, <1>5, <1>6, <1>7, <1>8, <1>9, <1>10, <1>11, <1>12, <1>13, <1>14 DEF HandlerStep

LEMMA TypeStep == TypeInv /\ [Next]_vars => TypeInv'
<1> SUFFICES ASSUME TypeInv, [Next]_vars PROVE TypeInv'
  OBVIOUS
<1> USE DEF TypeInv, TypeOK, JobsKnown, Known
<1>1. CASE SyncCase \/ MoveCase
  BY <1>1 DEF SyncCase, MoveCase, stores, review, output
<1>2. ASSUME NEW h \in Handlers, NEW e \in Events, Deliver(h, e) PROVE TypeInv'
  BY <1>2, JobFacts DEF Deliver, Goto, stores, review, output, Labels, Linking, Creating,
                        Replacing, Repairing
<1>3. ASSUME NEW h \in Handlers, NEW kind \in FaultKinds, Abort(h, kind) PROVE TypeInv'
  BY <1>3, JobFacts DEF Abort, Goto, EventAt, stores, review, output, FaultKinds, Labels, Outcomes,
                        Linking, Creating, Replacing, Repairing
<1>4. ASSUME NEW h \in Handlers, HandlerStep(h) PROVE TypeInv'
  <2>1. PICK j \in Jobs, label \in Labels : Moves(h, j, label)
    BY <1>4, Shape
  <2>2. /\ job' \in [Handlers -> Jobs] /\ pc' \in [Handlers -> Labels] /\ JobsKnown'
    BY <2>1, Moving
  <2>3. StoresOK'
    BY <1>4, StoresStep
  <2>. QED BY <2>2, <2>3 DEF StoresOK
<1>5. CASE UNCHANGED vars
  BY <1>5 DEF vars, stores, review, output
<1>6. ASSUME NEW h \in Handlers, EndPage(h) \/ LosePage(h) PROVE TypeInv'
  BY <1>6 DEF EndPage, LosePage, stores, review
<1>. QED BY <1>1, <1>2, <1>3, <1>4, <1>5, <1>6 DEF Next

(* Every variable keeps its type, whatever the handlers, and so does what  *)
(* a handler holds between two calls: a row it is about to write has a key *)
(* with a real date, which a blank DXTR date never gives.                  *)
THEOREM TypeCorrect == Spec => []TypeOK
<1>1. Init => TypeInv
  BY TypeInit
<1>2. TypeInv /\ [Next]_vars => TypeInv'
  BY TypeStep
<1>3. TypeInv => TypeOK
  BY DEF TypeInv
<1>. QED BY <1>1, <1>2, <1>3, PTL DEF Spec

-----------------------------------------------------------------------------
(* What any number of handlers preserve together.                          *)

Listed(e) == \E k \in RealKeys : k.holder = Trustee(e) /\ Exists(trusteeRows, k)

(* An open row is a document, in either partition. *)
OpenRowsExist ==
  \A k \in Keys : /\ caseRows[k].open => Exists(caseRows, k)
                  /\ trusteeRows[k].open => Exists(trusteeRows, k)

(* What a handler at label knows of the stores: a row it is going to copy  *)
(* was a document and has a case copy, the case copy it has just made is   *)
(* there, and a trustee it is about to report as linked has a row.         *)
Copying == {"checkTrustee", "repairTrustee", "readHistory", "repairStranded"}

Backed(j, label) ==
  /\ label \in Copying => j.oldRow.id # 0 /\ Exists(caseRows, j.old)
  /\ label \in {"checkTrustee", "repairTrustee"} => j.old.holder = j.target.holder
  /\ label = "createTrustee" => j.newId # 0 /\ Exists(caseRows, j.target)
  /\ label \in {"saveVariation", "notifyOpen"} => Listed(j.event)
  /\ label = "finish" /\ j.result \in Linked => Listed(j.event)

RowsInv == OpenRowsExist /\ TrusteeCopiesHaveCaseCopy /\ LinkedIsListed

StoreInv == RowsInv /\ \A h \in Handlers : Backed(job[h], pc[h])

LEMMA StoreInit == Init => StoreInv
  BY DEF Init, StoreInv, RowsInv, OpenRowsExist, TrusteeCopiesHaveCaseCopy, LinkedIsListed,
         Backed, Copying, Exists, NoRow, Linked

(* No action takes a document away. *)
LEMMA Growing ==
  ASSUME TypeInv, StoreInv, NEW h \in Handlers, HandlerStep(h)
  PROVE  \A k \in Keys : /\ Exists(caseRows, k) => Exists(caseRows', k)
                         /\ Exists(trusteeRows, k) => Exists(trusteeRows', k)
<1>1. /\ caseRows \in [Keys -> Row] /\ trusteeRows \in [Keys -> Row] /\ nextId # 0
      /\ Known(job[h], pc[h]) /\ Backed(job[h], pc[h])
  BY DEF TypeInv, TypeOK, JobsKnown, StoreInv
<1>2. CASE UNCHANGED <<caseRows, trusteeRows>>
  BY <1>2 DEF Exists
<1>3. CASE RepairTrustee(h) \/ RepairStranded(h)
  <2>1. caseRows' = caseRows /\ job[h].oldRow.id # 0
    BY <1>1, <1>3 DEF RepairTrustee, RepairStranded, Backed, Copying
  <2>2. \/ trusteeRows' = trusteeRows
        \/ trusteeRows' = [trusteeRows EXCEPT ![job[h].old] = job[h].oldRow]
    BY <1>3 DEF RepairTrustee, RepairStranded, ReplaceInTrusteePartition
  <2>. QED BY <1>1, <2>1, <2>2 DEF Exists
<1>4. CASE CloseCase(h)
  <2>1. trusteeRows' = trusteeRows /\ job[h].old \in Keys
    BY <1>1, <1>4 DEF CloseCase, Known, Replacing, RealKeys
  <2>2. \/ caseRows' = caseRows
        \/ caseRows' = [caseRows EXCEPT ![job[h].old].open = FALSE]
    BY <1>4 DEF CloseCase
  <2>3. CASE caseRows' = [caseRows EXCEPT ![job[h].old].open = FALSE]
    BY <1>1, <2>1, <2>3, Closing DEF Exists
  <2>. QED BY <2>1, <2>2, <2>3 DEF Exists
<1>5. CASE CloseTrustee(h)
  <2>1. caseRows' = caseRows /\ job[h].old \in Keys
    BY <1>1, <1>5 DEF CloseTrustee, Known, Replacing, RealKeys
  <2>2. \/ trusteeRows' = trusteeRows
        \/ trusteeRows' = [trusteeRows EXCEPT ![job[h].old].open = FALSE]
    BY <1>5 DEF CloseTrustee
  <2>3. CASE trusteeRows' = [trusteeRows EXCEPT ![job[h].old].open = FALSE]
    BY <1>1, <2>1, <2>3, Closing DEF Exists
  <2>. QED BY <2>1, <2>2, <2>3 DEF Exists
<1>6. CASE CreateCase(h)
  BY <1>1, <1>6 DEF CreateCase, Exists
<1>7. CASE CreateTrustee(h)
  BY <1>1, <1>7 DEF CreateTrustee, Exists, Backed
<1>8. \/ UNCHANGED <<caseRows, trusteeRows>>
      \/ RepairTrustee(h) \/ RepairStranded(h) \/ CloseCase(h) \/ CloseTrustee(h)
      \/ CreateCase(h) \/ CreateTrustee(h)
  BY DEF HandlerStep, stores, Report, SkipEvent, JoinPending, MatchFails, MatchSucceeds,
         SaveVerification, ReadSurrogate, ReadActive, CheckTrustee, SoftCloseFails,
         NotifyClose, FindStranded, ReadHistory, NotifyOpen, SaveVariation
<1>. QED BY <1>2, <1>3, <1>4, <1>5, <1>6, <1>7, <1>8

(* The handler that moves: what it relies on holds where it goes. *)
LEMMA MoverBacked ==
  ASSUME TypeInv, StoreInv, NEW h \in Handlers, HandlerStep(h)
  PROVE  Backed(job[h], pc[h])'
<1> DEFINE e == EventAt(h)
           k == job[h].old
<1>1. /\ job \in [Handlers -> Jobs] /\ pc \in [Handlers -> Labels]
      /\ job[h] \in Jobs /\ e \in Events
      /\ caseRows \in [Keys -> Row] /\ trusteeRows \in [Keys -> Row] /\ nextId # 0
      /\ Known(job[h], pc[h]) /\ Backed(job[h], pc[h])
      /\ OpenRowsExist /\ TrusteeCopiesHaveCaseCopy
  BY DEF TypeInv, TypeOK, JobsKnown, StoreInv, RowsInv, EventAt, Jobs
<1>2. Date(e) \in Dates => /\ Appointment(e) \in RealKeys
                           /\ Appointment(e).holder = Trustee(e)
                           /\ Surrogate(e).holder \in Fingerprints
                           /\ Appointment(e) \in Keys /\ Surrogate(e) \in Keys
  BY <1>1, EventFacts DEF Appointment, Surrogate, RealKeys
<1>3. \A l \in Keys : /\ Exists(caseRows, l) => Exists(caseRows', l)
                      /\ Exists(trusteeRows, l) => Exists(trusteeRows', l)
  BY Growing
<1> USE DEF Goto, EventAt, Backed, Copying
<1>5. CASE Report(h)
  BY <1>1, <1>5 DEF Report
<1>6. CASE SkipEvent(h) \/ JoinPending(h) \/ MatchFails(h) \/ SaveVerification(h)
           \/ SoftCloseFails(h) \/ NotifyClose(h)
  <2>1. /\ pc'[h] \in {"finish", "readSurrogate", "verify", "createCase", "findStranded"}
        /\ pc'[h] = "finish" => job'[h].result \in {"notYetSynced", "handled"}
    BY <1>1, <1>6 DEF SkipEvent, JoinPending, MatchFails, SaveVerification, SoftCloseFails,
                      SoftCloseFailed, NotifyClose, Finish, Jobs
  <2>. QED BY <2>1 DEF Linked
<1>7. CASE MatchSucceeds(h)
  <2>1. pc'[h] \in {"finish", "readActive"} /\ (pc'[h] = "finish" => job'[h].result = "dlq")
    BY <1>1, <1>7 DEF MatchSucceeds, Finish, Jobs
  <2>. QED BY <2>1 DEF Linked
<1>8. CASE ReadSurrogate(h)
  <2>1. /\ pc'[h] \in {"finish", "createCase"}
        /\ pc'[h] = "finish" => job'[h].result \in {"dlq", "handled"}
    BY <1>1, <1>8 DEF ReadSurrogate, Finish, Jobs
  <2>. QED BY <2>1 DEF Linked
<1>9. CASE ReadActive(h)
  <2>1. CASE OpenReal = {}
    BY <1>1, <1>9, <2>1 DEF ReadActive
  <2>2. CASE OpenReal # {}
    <3>1. PICK l \in OpenReal :
            /\ job' = [job EXCEPT ![h].old = l, ![h].oldRow = caseRows[l]]
            /\ pc'[h] = IF l.holder = job[h].target.holder THEN "checkTrustee" ELSE "closeCase"
      BY <1>1, <1>9, <2>2 DEF ReadActive
    <3>2. /\ job'[h].old = l /\ job'[h].oldRow = caseRows[l]
          /\ job'[h].target = job[h].target
      BY <1>1, <3>1 DEF Jobs
    <3>3. Exists(caseRows, l) /\ l \in Keys
      BY <1>1 DEF OpenReal, RealKeys, OpenRowsExist
    <3>4. Exists(caseRows', l)
      BY <1>3, <3>3
    <3>. QED BY <3>1, <3>2, <3>3, <3>4 DEF Exists
  <2>. QED BY <2>1, <2>2
<1>10. CASE CheckTrustee(h)
  <2>1. /\ job' = job /\ trusteeRows' = trusteeRows /\ caseRows' = caseRows
        /\ pc'[h] = IF Exists(trusteeRows, k) THEN "saveVariation" ELSE "repairTrustee"
        /\ pc[h] = "checkTrustee"
    BY <1>1, <1>10 DEF CheckTrustee, stores
  <2>2. CASE Exists(trusteeRows, k)
    <3>1. k \in RealKeys /\ k.holder = Trustee(e)
      BY <1>1, <1>2, <2>1 DEF Known, Linking, Replacing
    <3>. QED BY <2>1, <2>2, <3>1 DEF Listed, RealKeys, Trustee, Fingerprint
  <2>3. CASE ~Exists(trusteeRows, k)
    BY <1>1, <2>1, <2>3
  <2>. QED BY <2>2, <2>3
<1>11. CASE RepairTrustee(h)
  <2>1. /\ pc[h] = "repairTrustee" /\ k \in RealKeys /\ k.holder = Trustee(e)
        /\ job[h].oldRow.id # 0
    BY <1>1, <1>2, <1>11 DEF RepairTrustee, Known, Linking, Replacing
  <2>2. \/ /\ trusteeRows' = [trusteeRows EXCEPT ![k] = job[h].oldRow]
           /\ pc'[h] = "saveVariation" /\ job' = job
        \/ pc'[h] = "finish" /\ job'[h].result = "dlq"
    BY <1>1, <1>11 DEF RepairTrustee, ReplaceInTrusteePartition, Finish, Jobs
  <2>3. CASE pc'[h] = "saveVariation"
    <3>1. Exists(trusteeRows', k) /\ job'[h].event = job[h].event
      BY <1>1, <2>1, <2>2, <2>3 DEF Exists, RealKeys
    <3>. QED BY <2>1, <2>3, <3>1 DEF Listed, RealKeys, Trustee, Fingerprint
  <2>4. CASE pc'[h] = "finish"
    BY <2>2, <2>4 DEF Linked
  <2>. QED BY <2>2, <2>3, <2>4
<1>12. CASE CloseCase(h)
  <2>1. pc'[h] \in {"closeTrustee", "createCase"}
    BY <1>1, <1>12 DEF CloseCase, SoftCloseFailed
  <2>. QED BY <2>1
<1>13. CASE CloseTrustee(h)
  <2>1. pc'[h] \in {"notifyClose", "createCase"}
    BY <1>1, <1>13 DEF CloseTrustee, SoftCloseFailed
  <2>. QED BY <2>1
<1>14. CASE FindStranded(h)
  <2>1. CASE StrandedFor(h) = {}
    BY <1>1, <1>14, <2>1 DEF FindStranded
  <2>2. CASE StrandedFor(h) # {}
    <3>1. PICK l \in StrandedFor(h) :
            /\ job' = [job EXCEPT ![h].old = l, ![h].oldRow = trusteeRows[l]]
            /\ pc'[h] = "readHistory"
      BY <1>1, <1>14, <2>2 DEF FindStranded
    <3>2. job'[h].old = l /\ job'[h].oldRow = trusteeRows[l]
      BY <1>1, <3>1 DEF Jobs
    <3>3. l \in Keys /\ Exists(trusteeRows, l) /\ Exists(caseRows, l)
      BY <1>1 DEF StrandedFor, OpenRowsExist, TrusteeCopiesHaveCaseCopy
    <3>4. Exists(caseRows', l)
      BY <1>3, <3>3
    <3>. QED BY <3>1, <3>2, <3>3, <3>4 DEF Exists
  <2>. QED BY <2>1, <2>2
<1>15. CASE ReadHistory(h)
  <2>1. /\ pc[h] = "readHistory" /\ pc'[h] = "repairStranded" /\ Exists(caseRows, k)
        /\ caseRows' = caseRows
        /\ job' = [job EXCEPT ![h].oldRow = caseRows[k]]
    BY <1>1, <1>15 DEF ReadHistory, stores
  <2>2. job'[h].old = k /\ job'[h].oldRow = caseRows[k]
    BY <1>1, <2>1 DEF Jobs
  <2>. QED BY <2>1, <2>2 DEF Exists
<1>16. CASE RepairStranded(h)
  <2>1. \/ pc'[h] = "createCase"
        \/ pc'[h] = "finish" /\ job'[h].result = "dlq"
    BY <1>1, <1>16 DEF RepairStranded, ReplaceInTrusteePartition, Finish, Jobs
  <2>. QED BY <2>1 DEF Linked
<1>17. CASE CreateCase(h)
  <2>1. /\ pc[h] = "createCase" /\ pc'[h] = "createTrustee"
        /\ caseRows' = [caseRows EXCEPT ![job[h].target] = [id |-> nextId, open |-> TRUE]]
        /\ job' = [job EXCEPT ![h].newId = nextId]
    BY <1>1, <1>17 DEF CreateCase
  <2>2. job'[h].newId = nextId /\ job'[h].target = job[h].target
    BY <1>1, <2>1 DEF Jobs
  <2>3. job[h].target \in Keys
    BY <1>1, <1>2, <2>1 DEF Known, Creating
  <2>. QED BY <1>1, <2>1, <2>2, <2>3 DEF Exists
<1>18. CASE CreateTrustee(h)
  <2>1. /\ pc[h] = "createTrustee" /\ job[h].newId # 0
        /\ trusteeRows' = [trusteeRows EXCEPT ![job[h].target] =
                             [id |-> job[h].newId, open |-> TRUE]]
    BY <1>1, <1>18 DEF CreateTrustee
  <2>2. CASE job[h].target.holder \in Fingerprints
    <3>1. pc'[h] = "finish" /\ job'[h].result = "handled"
      BY <1>1, <1>18, <2>2 DEF CreateTrustee, Finish, Jobs
    <3>. QED BY <3>1 DEF Linked
  <2>3. CASE job[h].target.holder \notin Fingerprints
    <3>1. job' = job /\ pc'[h] \in {"saveVariation", "notifyOpen"}
      BY <1>1, <1>18, <2>3 DEF CreateTrustee
    <3>2. job[h].target = Appointment(e) /\ Date(e) \in Dates
      BY <1>1, <1>2, <2>1, <2>3 DEF Known, Creating
    <3>3. Exists(trusteeRows', Appointment(e))
      BY <1>1, <1>2, <2>1, <3>2 DEF Exists
    <3>. QED BY <1>2, <3>1, <3>2, <3>3 DEF Listed, RealKeys, Trustee, Fingerprint
  <2>. QED BY <2>2, <2>3
<1>19. CASE NotifyOpen(h) \/ SaveVariation(h)
  <2>1. Listed(e)
    BY <1>1, <1>19 DEF NotifyOpen, SaveVariation
  <2>2. job'[h].event = job[h].event /\ pc'[h] \in {"saveVariation", "finish"}
    BY <1>1, <1>19 DEF NotifyOpen, SaveVariation, Finish, Jobs
  <2>3. Listed(job[h].event)'
    <3>1. Listed(e)'
      BY <1>3, <2>1, <2>2 DEF Listed, RealKeys, Trustee, Fingerprint
    <3>. QED BY <3>1
  <2>. QED BY <2>2, <2>3
<1>. QED BY <1>5, <1>6, <1>7, <1>8, <1>9, <1>10, <1>11, <1>12, <1>13, <1>14, <1>15, <1>16,
            <1>17, <1>18, <1>19 DEF HandlerStep

LEMMA RowsStep ==
  ASSUME TypeInv, StoreInv, NEW h \in Handlers, HandlerStep(h)
  PROVE  RowsInv'
<1> DEFINE k == job[h].old
           t == job[h].target
<1>1. /\ caseRows \in [Keys -> Row] /\ trusteeRows \in [Keys -> Row] /\ nextId # 0
      /\ outcome \in [Events -> Outcomes] /\ job[h].event \in Events
      /\ Known(job[h], pc[h]) /\ Backed(job[h], pc[h])
      /\ OpenRowsExist /\ TrusteeCopiesHaveCaseCopy /\ LinkedIsListed
  BY DEF TypeInv, TypeOK, JobsKnown, StoreInv, RowsInv, Jobs
<1>2. \A l \in Keys : /\ Exists(caseRows, l) => Exists(caseRows', l)
                      /\ Exists(trusteeRows, l) => Exists(trusteeRows', l)
  BY Growing
<1>3. LinkedIsListed'
  <2>1. \A d : Listed(d) => Listed(d)'
    BY <1>2 DEF Listed, RealKeys, Trustee, Fingerprint
  <2>2. \A d \in Events : outcome'[d] \in Linked => outcome[d] \in Linked \/ Listed(d)
    <3>1. CASE Report(h)
      BY <1>1, <3>1 DEF Report, EventAt, Backed
    <3>2. CASE outcome' = outcome
      BY <3>2
    <3>. QED
      BY <3>1, <3>2 DEF HandlerStep, SkipEvent, JoinPending, MatchFails, MatchSucceeds,
           SaveVerification, ReadSurrogate, ReadActive, CheckTrustee, RepairTrustee, CloseCase,
           CloseTrustee, SoftCloseFails, NotifyClose, FindStranded, ReadHistory, RepairStranded,
           CreateCase, CreateTrustee, NotifyOpen, SaveVariation
  <2>. QED BY <1>1, <2>1, <2>2 DEF LinkedIsListed, Listed, Trustee, Fingerprint, RealKeys
<1>4. CASE UNCHANGED <<caseRows, trusteeRows>>
  BY <1>1, <1>3, <1>4 DEF RowsInv, OpenRowsExist, TrusteeCopiesHaveCaseCopy, Exists
<1>5. CASE RepairTrustee(h) \/ RepairStranded(h)
  <2>1. caseRows' = caseRows /\ job[h].oldRow.id # 0 /\ Exists(caseRows, k)
    BY <1>1, <1>5 DEF RepairTrustee, RepairStranded, Backed, Copying
  <2>2. \/ trusteeRows' = trusteeRows
        \/ trusteeRows' = [trusteeRows EXCEPT ![k] = job[h].oldRow]
    BY <1>5 DEF RepairTrustee, RepairStranded, ReplaceInTrusteePartition
  <2>3. OpenRowsExist' /\ TrusteeCopiesHaveCaseCopy'
    BY <1>1, <2>1, <2>2 DEF OpenRowsExist, TrusteeCopiesHaveCaseCopy, Exists
  <2>. QED BY <1>3, <2>3 DEF RowsInv
<1>6. CASE CloseCase(h) \/ CloseTrustee(h)
  <2>1. k \in Keys
    BY <1>1, <1>6 DEF CloseCase, CloseTrustee, Known, Replacing, RealKeys
  <2>2. /\ caseRows' = caseRows \/ caseRows' = [caseRows EXCEPT ![k].open = FALSE]
        /\ trusteeRows' = trusteeRows \/ trusteeRows' = [trusteeRows EXCEPT ![k].open = FALSE]
    BY <1>6 DEF CloseCase, CloseTrustee
  <2>3. \A l \in Keys : caseRows'[l].id = caseRows[l].id /\ (caseRows'[l].open => caseRows[l].open)
    <3>1. CASE caseRows' = caseRows
      BY <3>1
    <3>2. CASE caseRows' = [caseRows EXCEPT ![k].open = FALSE]
      BY <1>1, <2>1, <3>2, Closing
    <3>. QED BY <2>2, <3>1, <3>2
  <2>4. \A l \in Keys : /\ trusteeRows'[l].id = trusteeRows[l].id
                        /\ trusteeRows'[l].open => trusteeRows[l].open
    <3>1. CASE trusteeRows' = trusteeRows
      BY <3>1
    <3>2. CASE trusteeRows' = [trusteeRows EXCEPT ![k].open = FALSE]
      BY <1>1, <2>1, <3>2, Closing
    <3>. QED BY <2>2, <3>1, <3>2
  <2>5. OpenRowsExist' /\ TrusteeCopiesHaveCaseCopy'
    BY <1>1, <2>3, <2>4 DEF OpenRowsExist, TrusteeCopiesHaveCaseCopy, Exists
  <2>. QED BY <1>3, <2>5 DEF RowsInv
<1>7. CASE CreateCase(h)
  <2>1. /\ caseRows' = [caseRows EXCEPT ![t] = [id |-> nextId, open |-> TRUE]]
        /\ trusteeRows' = trusteeRows
    BY <1>7 DEF CreateCase
  <2>2. OpenRowsExist' /\ TrusteeCopiesHaveCaseCopy'
    BY <1>1, <2>1 DEF OpenRowsExist, TrusteeCopiesHaveCaseCopy, Exists
  <2>. QED BY <1>3, <2>2 DEF RowsInv
<1>8. CASE CreateTrustee(h)
  <2>1. /\ trusteeRows' = [trusteeRows EXCEPT ![t] = [id |-> job[h].newId, open |-> TRUE]]
        /\ caseRows' = caseRows /\ job[h].newId # 0 /\ Exists(caseRows, t)
    BY <1>1, <1>8 DEF CreateTrustee, Backed
  <2>2. OpenRowsExist' /\ TrusteeCopiesHaveCaseCopy'
    BY <1>1, <2>1 DEF OpenRowsExist, TrusteeCopiesHaveCaseCopy, Exists
  <2>. QED BY <1>3, <2>2 DEF RowsInv
<1>9. \/ UNCHANGED <<caseRows, trusteeRows>>
      \/ RepairTrustee(h) \/ RepairStranded(h) \/ CloseCase(h) \/ CloseTrustee(h)
      \/ CreateCase(h) \/ CreateTrustee(h)
  BY DEF HandlerStep, stores, Report, SkipEvent, JoinPending, MatchFails, MatchSucceeds,
         SaveVerification, ReadSurrogate, ReadActive, CheckTrustee, SoftCloseFails,
         NotifyClose, FindStranded, ReadHistory, NotifyOpen, SaveVariation
<1>. QED BY <1>4, <1>5, <1>6, <1>7, <1>8, <1>9

LEMMA StoreStep == TypeInv /\ StoreInv /\ [Next]_vars => StoreInv'
<1> SUFFICES ASSUME TypeInv, StoreInv, [Next]_vars PROVE StoreInv'
  OBVIOUS
<1>1. ASSUME NEW h \in Handlers, HandlerStep(h) PROVE StoreInv'
  <2>1. /\ caseRows \in [Keys -> Row] /\ trusteeRows \in [Keys -> Row] /\ nextId # 0
        /\ job \in [Handlers -> Jobs] /\ pc \in [Handlers -> Labels]
        /\ outcome \in [Events -> Outcomes]
        /\ Known(job[h], pc[h]) /\ Backed(job[h], pc[h]) /\ job[h] \in Jobs
    BY DEF TypeInv, TypeOK, JobsKnown, StoreInv
  <2>2. \A l \in Keys : /\ Exists(caseRows, l) => Exists(caseRows', l)
                        /\ Exists(trusteeRows, l) => Exists(trusteeRows', l)
    BY <1>1, Growing
  <2>3. \A e : Listed(e) => Listed(e)'
    BY <2>2 DEF Listed, RealKeys, Trustee, Fingerprint
  <2>4. ASSUME NEW g \in Handlers PROVE Backed(job[g], pc[g])'
    <3>1. CASE g = h
      BY <1>1, <3>1, MoverBacked
    <3>2. CASE g # h
      <4>1. PICK j \in Jobs, label \in Labels : Moves(h, j, label)
        BY <1>1, Shape
      <4>2. job'[g] = job[g] /\ pc'[g] = pc[g]
        BY <2>1, <3>2, <4>1 DEF Moves
      <4>3. /\ Backed(job[g], pc[g]) /\ Known(job[g], pc[g])
            /\ pc[g] = "createTrustee" => job[g].target \in Keys
            /\ pc[g] \in Copying => job[g].old \in Keys
        <5>1. Backed(job[g], pc[g]) /\ Known(job[g], pc[g]) /\ job[g].event \in Events
          BY DEF TypeInv, TypeOK, JobsKnown, StoreInv, Jobs
        <5>. QED BY <5>1, EventFacts DEF Known, Linking, Creating, Replacing, Repairing,
                                         Copying, RealKeys
      <4>. QED BY <2>2, <2>3, <4>2, <4>3 DEF Backed
    <3>. QED BY <3>1, <3>2
  <2>5. RowsInv'
    BY <1>1, RowsStep
  <2>. QED BY <2>4, <2>5 DEF StoreInv
<1>2. CASE UNCHANGED <<caseRows, trusteeRows, outcome, pc, job>>
  BY <1>2 DEF StoreInv, RowsInv, OpenRowsExist, TrusteeCopiesHaveCaseCopy, LinkedIsListed,
              Backed, Listed, Exists
<1>3. ASSUME NEW h \in Handlers, NEW e \in Events, Deliver(h, e) PROVE StoreInv'
  <2>1. /\ UNCHANGED <<caseRows, trusteeRows>> /\ job' = [job EXCEPT ![h] = NewJob(e)]
        /\ pc' = [pc EXCEPT ![h] = "match"] /\ outcome' = outcome
    BY <1>3 DEF Deliver, Goto, stores, EventAt, Linked
  <2>2. RowsInv'
    BY <2>1 DEF StoreInv, RowsInv, OpenRowsExist, TrusteeCopiesHaveCaseCopy, LinkedIsListed,
                Exists
  <2>3. ASSUME NEW g \in Handlers PROVE Backed(job[g], pc[g])'
    BY <2>1 DEF TypeInv, TypeOK, StoreInv, Backed, Copying, Listed, Exists
  <2>. QED BY <2>2, <2>3 DEF StoreInv
<1>4. ASSUME NEW h \in Handlers, NEW kind \in FaultKinds, Abort(h, kind) PROVE StoreInv'
  <2>1. /\ UNCHANGED <<caseRows, trusteeRows>> /\ job' = [job EXCEPT ![h] = IdleJob]
        /\ pc' = [pc EXCEPT ![h] = "idle"] /\ \A d \in Events : outcome'[d] \in Linked => outcome[d] \in Linked
    BY <1>4 DEF Abort, Goto, stores, EventAt, Linked, TypeInv, TypeOK, FaultKinds
  <2>2. RowsInv'
    BY <2>1 DEF StoreInv, RowsInv, OpenRowsExist, TrusteeCopiesHaveCaseCopy, LinkedIsListed,
                Exists
  <2>3. ASSUME NEW g \in Handlers PROVE Backed(job[g], pc[g])'
    BY <2>1 DEF TypeInv, TypeOK, StoreInv, Backed, Copying, Listed, Exists
  <2>. QED BY <2>2, <2>3 DEF StoreInv
<1>. QED BY <1>1, <1>2, <1>3, <1>4 DEF Next, SyncCase, MoveCase, EndPage, LosePage, stores, vars

StoresInv == TypeInv /\ StoreInv

LEMMA StoresInvariant == Spec => []StoresInv
<1>1. Init => StoresInv
  BY TypeInit, StoreInit DEF StoresInv
<1>2. StoresInv /\ [Next]_vars => StoresInv'
  BY TypeStep, StoreStep DEF StoresInv
<1>. QED BY <1>1, <1>2, PTL DEF Spec

(* However the handlers interleave, fail and crash, the trustee partition  *)
(* never has a row whose case copy is missing: what the heal job, which    *)
(* walks the case partition, cannot reach never comes about.               *)
THEOREM TrusteeCopiesCovered == Spec => []TrusteeCopiesHaveCaseCopy
<1>1. StoresInv => TrusteeCopiesHaveCaseCopy
  BY DEF StoresInv, StoreInv, RowsInv
<1>. QED BY <1>1, StoresInvariant, PTL

(* An event is never reported as linked unless its trustee's case list     *)
(* has a row for the case, and then it keeps one.                          *)
THEOREM LinkedListed == Spec => []LinkedIsListed
<1>1. StoresInv => LinkedIsListed
  BY DEF StoresInv, StoreInv, RowsInv
<1>. QED BY <1>1, StoresInvariant, PTL

LEMMA SurrogateStep ==
  ASSUME TypeInv, [Next]_vars
  PROVE  \A k \in Keys \ RealKeys : caseRows[k].open => caseRows'[k].open
<1>1. CASE caseRows' = caseRows
  BY <1>1
<1>2. ASSUME NEW h \in Handlers, CloseCase(h)
      PROVE  \A k \in Keys \ RealKeys : caseRows[k].open => caseRows'[k].open
  <2>1. caseRows \in [Keys -> Row] /\ job[h].old \in RealKeys /\ job[h].old \in Keys
    BY <1>2 DEF TypeInv, TypeOK, JobsKnown, Known, Replacing, CloseCase, RealKeys
  <2>2. \/ caseRows' = caseRows
        \/ caseRows' = [caseRows EXCEPT ![job[h].old].open = FALSE]
    BY <1>2 DEF CloseCase
  <2>3. CASE caseRows' = [caseRows EXCEPT ![job[h].old].open = FALSE]
    BY <2>1, <2>3, Closing
  <2>. QED BY <2>2, <2>3
<1>3. ASSUME NEW h \in Handlers, CreateCase(h)
      PROVE  \A k \in Keys \ RealKeys : caseRows[k].open => caseRows'[k].open
  BY <1>3 DEF CreateCase, TypeInv, TypeOK
<1>4. \/ caseRows' = caseRows
      \/ \E h \in Handlers : CloseCase(h) \/ CreateCase(h)
  BY DEF Next, vars, stores, SyncCase, MoveCase, Deliver, Abort, EndPage,
         LosePage, HandlerStep, Report, SkipEvent,
         JoinPending, MatchFails, MatchSucceeds, SaveVerification, ReadSurrogate, ReadActive,
         CheckTrustee, RepairTrustee, CloseTrustee, SoftCloseFails, NotifyClose, FindStranded,
         ReadHistory, RepairStranded, CreateTrustee, NotifyOpen, SaveVariation
<1>. QED BY <1>1, <1>2, <1>3, <1>4

(* A real appointment, whoever makes or ends one and whatever runs beside  *)
(* it, leaves the surrogate of a pending mismatch open.                    *)
THEOREM SurrogatesSurvive == Spec => SurrogateSurvives
<1>1. TypeInv /\ [Next]_vars =>
        [\A k \in Keys \ RealKeys : caseRows[k].open => caseRows'[k].open]_vars
  BY SurrogateStep
<1>2. Spec => []TypeInv
  <2>1. Init => TypeInv
    BY TypeInit
  <2>2. TypeInv /\ [Next]_vars => TypeInv'
    BY TypeStep
  <2>. QED BY <2>1, <2>2, PTL DEF Spec
<1>. QED BY <1>1, <1>2, PTL DEF Spec, SurrogateSurvives

-----------------------------------------------------------------------------
(***************************************************************************)
(* What the sync promises about a case as long as no two of its events are *)
(* processed at the same time, for any number of events, trustees, dates   *)
(* and deliveries, with crashes and transient failures between any calls.  *)
(***************************************************************************)

OneHandler == \A g, h \in Handlers : g = h

OpenUnder(holder) == \E k \in Keys : k.holder = holder /\ caseRows[k].open

(* What a handler at label may rely on as nothing runs beside it.          *)
Alone(j, label) ==
  /\ label # "idle" => deliveries[j.event] > 0
  /\ label = "closeTrustee" => ~caseRows[j.old].open
  /\ label = "notifyClose" => ~caseRows[j.old].open /\ ~trusteeRows[j.old].open
  /\ label = "createCase" /\ j.target \notin RealKeys => ~OpenUnder(j.target.holder)
  /\ label = "createTrustee" => caseRows[j.target] = [id |-> j.newId, open |-> TRUE]
  /\ label = "notifyOpen" => /\ caseRows[j.target].open
                             /\ trusteeRows[j.target] = caseRows[j.target]

AloneInv == /\ OneSurrogatePerMismatch
            /\ \A h \in Handlers : Alone(job[h], pc[h])

(* And, when no failure is permanent: between the end of one appointment   *)
(* and the start of the next there is none.                                *)
Vacant(j, label) ==
  /\ label = "closeCase" => /\ OpenReal = {j.old}
                            /\ caseRows[j.old].id = j.oldRow.id
  /\ label \in {"closeTrustee", "notifyClose", "findStranded", "readHistory",
                "repairStranded"} => OpenReal = {}
  /\ label = "createCase" /\ j.target \in RealKeys => OpenReal = {}

VacantInv == /\ AtMostOneActive
             /\ \A h \in Handlers : Vacant(job[h], pc[h])

LEMMA AloneInit == Init => AloneInv /\ VacantInv
  BY DEF Init, AloneInv, VacantInv, Alone, Vacant, OneSurrogatePerMismatch, AtMostOneActive,
         OpenReal, RealKeys, NoRow

(* Nothing of the stores or of the handler changes but what is named.      *)
LEMMA AloneMover ==
  ASSUME OneHandler, TypeInv, AloneInv, NEW h \in Handlers, HandlerStep(h)
  PROVE  Alone(job[h], pc[h])'
<1> DEFINE e == EventAt(h)
           k == job[h].old
           t == job[h].target
<1>1. /\ job \in [Handlers -> Jobs] /\ pc \in [Handlers -> Labels]
      /\ job[h] \in Jobs /\ e \in Events
      /\ caseRows \in [Keys -> Row] /\ trusteeRows \in [Keys -> Row] /\ nextId \in Nat
      /\ Known(job[h], pc[h]) /\ Alone(job[h], pc[h])
  BY DEF TypeInv, TypeOK, JobsKnown, AloneInv, EventAt, Jobs
<1>2. Date(e) \in Dates => /\ Appointment(e) \in RealKeys /\ Appointment(e) \in Keys
                           /\ Surrogate(e) \in Keys /\ Surrogate(e) \notin RealKeys
                           /\ Surrogate(e).holder = Fingerprint(e)
                           /\ Surrogate(e).holder \in Fingerprints
  BY <1>1, EventFacts DEF Surrogate, RealKeys
<1>3. (pc[h] # "idle" => deliveries[e] > 0)'
  <2>1. PICK j \in Jobs, label \in Labels : Moves(h, j, label)
    BY Shape
  <2>2. pc[h] # "idle" /\ deliveries' = deliveries
    BY DEF HandlerStep, Report, SkipEvent, JoinPending, MatchFails, MatchSucceeds,
           SaveVerification, ReadSurrogate, ReadActive, CheckTrustee, RepairTrustee, CloseCase,
           CloseTrustee, SoftCloseFails, NotifyClose, FindStranded, ReadHistory,
           RepairStranded, CreateCase, CreateTrustee, NotifyOpen, SaveVariation
  <2>3. job'[h] = j /\ pc'[h] = label
    BY <1>1, <2>1 DEF Moves
  <2>. QED BY <1>1, <2>1, <2>2, <2>3 DEF Moves, Alone, EventAt
<1> USE DEF Goto, EventAt, Alone
<1>4. CASE ReadSurrogate(h)
  <2>1. /\ pc'[h] \in {"finish", "createCase"} /\ UNCHANGED caseRows
        /\ pc'[h] = "createCase" => /\ Date(e) \in Dates /\ ~OpenUnder(Fingerprint(e))
                                    /\ job' = [job EXCEPT ![h].target = Surrogate(e)]
    BY <1>1, <1>4, EventFacts DEF ReadSurrogate, Finish, OpenUnder, stores
  <2>2. pc'[h] = "createCase" => job'[h].target = Surrogate(e)
    BY <1>1, <2>1 DEF Jobs
  <2>. QED BY <1>2, <1>3, <2>1, <2>2 DEF OpenUnder
<1>5. CASE CloseCase(h)
  <2>1. k \in Keys /\ t \in RealKeys
    BY <1>1, <1>2, <1>5 DEF CloseCase, Known, Linking, Replacing, RealKeys
  <2>2. CASE pc'[h] = "closeTrustee"
    <3>1. job' = job /\ caseRows' = [caseRows EXCEPT ![k].open = FALSE]
      BY <1>1, <1>5, <2>2 DEF CloseCase, SoftCloseFailed
    <3>2. ~caseRows'[k].open
      BY <1>1, <2>1, <3>1, Closing
    <3>. QED BY <1>3, <2>2, <3>1, <3>2
  <2>3. CASE pc'[h] = "createCase"
    <3>1. job' = [job EXCEPT ![h].soft = TRUE]
      BY <1>1, <1>5, <2>3 DEF CloseCase, SoftCloseFailed
    <3>2. job'[h].target = t
      BY <1>1, <3>1 DEF Jobs
    <3>. QED BY <1>3, <2>1, <2>3, <3>2
  <2>4. pc'[h] \in {"closeTrustee", "createCase"}
    BY <1>1, <1>5 DEF CloseCase, SoftCloseFailed
  <2>. QED BY <2>2, <2>3, <2>4
<1>6. CASE CloseTrustee(h)
  <2>1. k \in Keys /\ t \in RealKeys /\ caseRows' = caseRows
    BY <1>1, <1>2, <1>6 DEF CloseTrustee, Known, Linking, Replacing, RealKeys
  <2>2. CASE pc'[h] = "notifyClose"
    <3>1. job' = job /\ trusteeRows' = [trusteeRows EXCEPT ![k].open = FALSE]
          /\ pc[h] = "closeTrustee"
      BY <1>1, <1>6, <2>2 DEF CloseTrustee, SoftCloseFailed
    <3>2. ~trusteeRows'[k].open
      BY <1>1, <2>1, <3>1, Closing
    <3>. QED BY <1>1, <1>3, <2>1, <2>2, <3>1, <3>2
  <2>3. CASE pc'[h] = "createCase"
    <3>1. job' = [job EXCEPT ![h].soft = TRUE]
      BY <1>1, <1>6, <2>3 DEF CloseTrustee, SoftCloseFailed
    <3>2. job'[h].target = t
      BY <1>1, <3>1 DEF Jobs
    <3>. QED BY <1>3, <2>1, <2>3, <3>2
  <2>4. pc'[h] \in {"notifyClose", "createCase"}
    BY <1>1, <1>6 DEF CloseTrustee, SoftCloseFailed
  <2>. QED BY <2>2, <2>3, <2>4
<1>7. CASE SoftCloseFails(h) \/ FindStranded(h) \/ RepairStranded(h)
  <2>1. pc'[h] \in {"createCase", "readHistory", "finish"}
    BY <1>1, <1>7 DEF SoftCloseFails, SoftCloseFailed, FindStranded, RepairStranded,
                      ReplaceInTrusteePartition, Finish
  <2>2. t \in RealKeys
    BY <1>1, <1>2, <1>7 DEF SoftCloseFails, FindStranded, RepairStranded, Known, Linking
  <2>3. pc'[h] = "createCase" => job'[h].target = t
    <3>1. CASE SoftCloseFails(h)
      BY <1>1, <3>1 DEF SoftCloseFails, SoftCloseFailed, Jobs
    <3>2. CASE FindStranded(h)
      BY <1>1, <3>2 DEF FindStranded, Jobs
    <3>3. CASE RepairStranded(h)
      BY <1>1, <3>3 DEF RepairStranded, ReplaceInTrusteePartition, Finish, Jobs
    <3>. QED BY <1>7, <3>1, <3>2, <3>3
  <2>. QED BY <1>3, <2>1, <2>2, <2>3
<1>8. CASE CreateCase(h)
  <2>1. /\ pc[h] = "createCase" /\ pc'[h] = "createTrustee"
        /\ caseRows' = [caseRows EXCEPT ![t] = [id |-> nextId, open |-> TRUE]]
        /\ job' = [job EXCEPT ![h].newId = nextId]
    BY <1>1, <1>8 DEF CreateCase
  <2>2. job'[h].newId = nextId /\ job'[h].target = t
    BY <1>1, <2>1 DEF Jobs
  <2>3. t \in Keys
    BY <1>1, <1>2, <2>1 DEF Known, Creating
  <2>4. caseRows'[t] = [id |-> nextId, open |-> TRUE]
    BY <1>1, <2>1, <2>3
  <2>. QED BY <1>3, <2>1, <2>2, <2>4
<1>9. CASE CreateTrustee(h)
  <2>1. /\ pc[h] = "createTrustee" /\ caseRows' = caseRows
        /\ trusteeRows' = [trusteeRows EXCEPT ![t] = [id |-> job[h].newId, open |-> TRUE]]
        /\ pc'[h] \in {"finish", "saveVariation", "notifyOpen"}
        /\ pc'[h] = "notifyOpen" => job' = job
    BY <1>1, <1>9 DEF CreateTrustee, Finish
  <2>2. t \in Keys
    BY <1>1, <1>2, <2>1 DEF Known, Creating
  <2>3. trusteeRows'[t] = caseRows[t] /\ caseRows[t].open
    BY <1>1, <2>1, <2>2
  <2>. QED BY <1>3, <2>1, <2>3
<1>10. pc'[h] \in {"idle", "finish", "readSurrogate", "verify", "readActive", "findStranded",
                  "checkTrustee", "closeCase", "repairTrustee", "saveVariation",
                  "repairStranded"}
       \/ ReadSurrogate(h) \/ CloseCase(h) \/ CloseTrustee(h) \/ SoftCloseFails(h)
       \/ FindStranded(h) \/ RepairStranded(h) \/ CreateCase(h) \/ CreateTrustee(h)
  BY <1>1 DEF HandlerStep, Report, SkipEvent, JoinPending, MatchFails, MatchSucceeds, Finish,
           SaveVerification, ReadActive, CheckTrustee, RepairTrustee,
           ReplaceInTrusteePartition, NotifyClose, ReadHistory, NotifyOpen, SaveVariation
<1>. QED BY <1>3, <1>4, <1>5, <1>6, <1>7, <1>8, <1>9, <1>10

(* How one step changes the case partition. *)
LEMMA CaseRowsChange ==
  ASSUME TypeInv, [Next]_vars
  PROVE  \/ caseRows' = caseRows
         \/ \E h \in Handlers :
              /\ CloseCase(h) /\ pc[h] = "closeCase"
              /\ job[h].old \in RealKeys /\ job[h].old \in Keys
              /\ caseRows[job[h].old].id = job[h].oldRow.id
              /\ \A l \in Keys : caseRows'[l].open <=> caseRows[l].open /\ l # job[h].old
         \/ \E h \in Handlers :
              /\ CreateCase(h) /\ pc[h] = "createCase"
              /\ job[h].target \in Keys
              /\ \A l \in Keys : caseRows'[l].open <=> caseRows[l].open \/ l = job[h].target
<1>1. caseRows \in [Keys -> Row]
  BY DEF TypeInv, TypeOK
<1>2. ASSUME NEW h \in Handlers, CloseCase(h), caseRows' # caseRows
      PROVE  /\ pc[h] = "closeCase"
             /\ job[h].old \in RealKeys /\ job[h].old \in Keys
             /\ caseRows[job[h].old].id = job[h].oldRow.id
             /\ \A l \in Keys : caseRows'[l].open <=> caseRows[l].open /\ l # job[h].old
  <2>1. job[h].old \in RealKeys /\ job[h].old \in Keys
    BY <1>2 DEF TypeInv, JobsKnown, Known, Replacing, CloseCase, RealKeys
  <2>2. /\ pc[h] = "closeCase" /\ caseRows[job[h].old].id = job[h].oldRow.id
        /\ caseRows' = [caseRows EXCEPT ![job[h].old].open = FALSE]
    BY <1>2 DEF CloseCase
  <2>. QED BY <1>1, <2>1, <2>2, Closing
<1>3. ASSUME NEW h \in Handlers, CreateCase(h)
      PROVE  /\ pc[h] = "createCase" /\ job[h].target \in Keys
             /\ \A l \in Keys : caseRows'[l].open <=> caseRows[l].open \/ l = job[h].target
  <2>1. job[h].event \in Events /\ pc[h] = "createCase" /\ Known(job[h], pc[h])
    BY <1>3 DEF TypeInv, TypeOK, JobsKnown, CreateCase, Jobs
  <2>2. job[h].target \in Keys
    BY <2>1, EventFacts DEF Known, Creating, RealKeys
  <2>3. caseRows' = [caseRows EXCEPT ![job[h].target] = [id |-> nextId, open |-> TRUE]]
    BY <1>3 DEF CreateCase
  <2>. QED BY <1>1, <2>1, <2>2, <2>3
<1>4. \/ caseRows' = caseRows
      \/ \E h \in Handlers : CloseCase(h) \/ CreateCase(h)
  BY DEF Next, vars, stores, SyncCase, MoveCase, Deliver, Abort, EndPage,
         LosePage, HandlerStep, Report, SkipEvent,
         JoinPending, MatchFails, MatchSucceeds, SaveVerification, ReadSurrogate, ReadActive,
         CheckTrustee, RepairTrustee, CloseTrustee, SoftCloseFails, NotifyClose, FindStranded,
         ReadHistory, RepairStranded, CreateTrustee, NotifyOpen, SaveVariation
<1>. QED BY <1>2, <1>3, <1>4

LEMMA OneSurrogateStep ==
  ASSUME TypeInv, AloneInv, [Next]_vars
  PROVE  OneSurrogatePerMismatch'
<1>1. OneSurrogatePerMismatch
  BY DEF AloneInv
<1>2. CASE \A k \in Keys \ RealKeys : caseRows'[k].open => caseRows[k].open
  BY <1>1, <1>2 DEF OneSurrogatePerMismatch, RealKeys, Keys, Holders
<1>3. ASSUME NEW h \in Handlers, pc[h] = "createCase", job[h].target \in Keys,
             \A l \in Keys : caseRows'[l].open <=> caseRows[l].open \/ l = job[h].target
      PROVE  OneSurrogatePerMismatch'
  <2>1. CASE job[h].target \in RealKeys
    BY <1>2, <1>3, <2>1
  <2>2. CASE job[h].target \notin RealKeys
    <3>1. ~OpenUnder(job[h].target.holder)
      BY <1>3, <2>2 DEF AloneInv, Alone
    <3>. QED BY <1>1, <1>3, <3>1 DEF OneSurrogatePerMismatch, OpenUnder, RealKeys, Keys, Holders
  <2>. QED BY <2>1, <2>2
<1>. QED BY <1>2, <1>3, CaseRowsChange

(* A handler that starts or is aborted relies on nothing. *)
LEMMA StartOrStop ==
  ASSUME TypeInv, NEW h \in Handlers,
         (\E e \in Events : Deliver(h, e)) \/ (\E kind \in FaultKinds : Abort(h, kind))
  PROVE  /\ UNCHANGED stores
         /\ pc'[h] \in {"idle", "match"}
         /\ pc'[h] = "match" => deliveries'[job'[h].event] > 0
<1>1. /\ job \in [Handlers -> Jobs] /\ pc \in [Handlers -> Labels]
      /\ deliveries \in [Events -> 0..MaxDeliveries]
  BY DEF TypeInv, TypeOK
<1>2. ASSUME NEW e \in Events, Deliver(h, e)
      PROVE  /\ UNCHANGED stores /\ pc'[h] = "match"
             /\ deliveries'[job'[h].event] > 0
  <2>1. pc'[h] = "match" /\ job'[h] = NewJob(e) /\ deliveries'[e] = deliveries[e] + 1
    BY <1>1, <1>2 DEF Deliver, Goto
  <2>2. job'[h].event = e /\ deliveries[e] + 1 > 0
    BY <1>1, <2>1 DEF NewJob
  <2>. QED BY <1>2, <2>1, <2>2 DEF Deliver
<1>3. ASSUME NEW kind \in FaultKinds, Abort(h, kind)
      PROVE  UNCHANGED stores /\ pc'[h] = "idle"
  BY <1>1, <1>3 DEF Abort, Goto
<1>. QED BY <1>2, <1>3

LEMMA AloneStep ==
  ASSUME OneHandler, TypeInv, AloneInv, [Next]_vars
  PROVE  AloneInv'
<1>1. OneSurrogatePerMismatch'
  BY OneSurrogateStep
<1>2. ASSUME NEW g \in Handlers PROVE Alone(job[g], pc[g])'
  <2>1. ASSUME NEW h \in Handlers, HandlerStep(h) PROVE Alone(job[g], pc[g])'
    <3>1. g = h
      BY DEF OneHandler
    <3>. QED BY <2>1, <3>1, AloneMover
  <2>2. ASSUME NEW h \in Handlers,
               (\E e \in Events : Deliver(h, e)) \/ (\E kind \in FaultKinds : Abort(h, kind))
        PROVE  Alone(job[g], pc[g])'
    <3>1. g = h
      BY DEF OneHandler
    <3>. QED BY <2>2, <3>1, StartOrStop DEF Alone
  <2>3. CASE UNCHANGED <<stores, deliveries, pc, job>>
    BY <2>3 DEF AloneInv, Alone, OpenUnder, stores
  <2>. QED BY <2>1, <2>2, <2>3 DEF Next, SyncCase, MoveCase, EndPage, LosePage, vars
<1>. QED BY <1>1, <1>2 DEF AloneInv

NoPermanentFailure == "permanent" \notin Faults

LEMMA OpenRealChange ==
  ASSUME TypeInv, [Next]_vars
  PROVE  \/ OpenReal' = OpenReal
         \/ \E h \in Handlers : /\ CloseCase(h) /\ pc[h] = "closeCase"
                                /\ caseRows[job[h].old].id = job[h].oldRow.id
                                /\ OpenReal' = OpenReal \ {job[h].old}
         \/ \E h \in Handlers : /\ CreateCase(h) /\ pc[h] = "createCase"
                                /\ job[h].target \in RealKeys
                                /\ OpenReal' = OpenReal \cup {job[h].target}
<1>1. CASE caseRows' = caseRows
  BY <1>1 DEF OpenReal
<1>2. ASSUME NEW h \in Handlers,
             \A l \in Keys : caseRows'[l].open <=> caseRows[l].open /\ l # job[h].old
      PROVE  OpenReal' = OpenReal \ {job[h].old}
  BY <1>2 DEF OpenReal, RealKeys
<1>3. ASSUME NEW h \in Handlers, job[h].target \in RealKeys,
             \A l \in Keys : caseRows'[l].open <=> caseRows[l].open \/ l = job[h].target
      PROVE  OpenReal' = OpenReal \cup {job[h].target}
  BY <1>3 DEF OpenReal, RealKeys
<1>4. ASSUME NEW h \in Handlers, job[h].target \notin RealKeys,
             \A l \in Keys : caseRows'[l].open <=> caseRows[l].open \/ l = job[h].target
      PROVE  OpenReal' = OpenReal
  BY <1>4 DEF OpenReal, RealKeys
<1>. QED BY <1>1, <1>2, <1>3, <1>4, CaseRowsChange

LEMMA VacantMover ==
  ASSUME NoPermanentFailure, TypeInv, VacantInv, NEW h \in Handlers, HandlerStep(h)
  PROVE  Vacant(job[h], pc[h])'
<1> DEFINE e == EventAt(h)
<1>1. /\ job \in [Handlers -> Jobs] /\ pc \in [Handlers -> Labels]
      /\ job[h] \in Jobs /\ e \in Events
      /\ Known(job[h], pc[h]) /\ Vacant(job[h], pc[h]) /\ AtMostOneActive
  BY DEF TypeInv, TypeOK, JobsKnown, VacantInv, EventAt, Jobs
<1> USE DEF Goto, EventAt, Vacant
<1>2. CASE ReadActive(h)
  <2>1. UNCHANGED OpenReal
    BY <1>2 DEF ReadActive, stores, OpenReal
  <2>2. CASE OpenReal = {}
    <3>1. pc'[h] = "findStranded"
      BY <1>1, <1>2, <2>2 DEF ReadActive
    <3>. QED BY <2>1, <2>2, <3>1
  <2>3. CASE OpenReal # {}
    <3>1. PICK l \in OpenReal :
            /\ job' = [job EXCEPT ![h].old = l, ![h].oldRow = caseRows[l]]
            /\ pc'[h] \in {"checkTrustee", "closeCase"}
      BY <1>1, <1>2, <2>3 DEF ReadActive
    <3>2. job'[h].old = l /\ job'[h].oldRow = caseRows[l] /\ caseRows' = caseRows
      BY <1>1, <1>2, <3>1 DEF Jobs, ReadActive, stores
    <3>3. OpenReal = {l}
      BY <1>1 DEF AtMostOneActive
    <3>. QED BY <2>1, <3>1, <3>2, <3>3
  <2>. QED BY <2>2, <2>3
<1>3. CASE CloseCase(h)
  <2>1. pc[h] = "closeCase" /\ OpenReal = {job[h].old}
        /\ caseRows[job[h].old].id = job[h].oldRow.id
    BY <1>1, <1>3 DEF CloseCase
  <2>2. /\ pc'[h] = "closeTrustee" /\ job' = job
        /\ caseRows' = [caseRows EXCEPT ![job[h].old].open = FALSE]
    BY <1>1, <1>3, <2>1 DEF CloseCase
  <2>3. caseRows \in [Keys -> Row] /\ job[h].old \in Keys
    BY <1>1, <2>1 DEF TypeInv, TypeOK, OpenReal, RealKeys
  <2>4. \A l \in Keys : caseRows'[l].open <=> caseRows[l].open /\ l # job[h].old
    BY <2>2, <2>3, Closing
  <2>5. OpenReal' = {}
    BY <2>1, <2>4 DEF OpenReal, RealKeys
  <2>. QED BY <2>2, <2>5
<1>4. CASE CloseTrustee(h) \/ NotifyClose(h) \/ FindStranded(h) \/ ReadHistory(h)
           \/ RepairStranded(h)
  <2>1. OpenReal = {} /\ caseRows' = caseRows
    BY <1>1, <1>4 DEF CloseTrustee, NotifyClose, FindStranded, ReadHistory, RepairStranded,
                      stores
  <2>2. pc'[h] # "closeCase"
    BY <1>1, <1>4 DEF CloseTrustee, NotifyClose, FindStranded, ReadHistory, RepairStranded,
                      SoftCloseFailed, ReplaceInTrusteePartition, Finish
  <2>. QED BY <2>1, <2>2 DEF OpenReal
<1>5. CASE ReadSurrogate(h)
  <2>1. /\ pc'[h] \in {"finish", "createCase"}
        /\ pc'[h] = "createCase" =>
             /\ Date(e) \in Dates
             /\ job' = [job EXCEPT ![h].target = Surrogate(e)]
    BY <1>1, <1>5, EventFacts DEF ReadSurrogate, Finish
  <2>2. pc'[h] = "createCase" => job'[h].target \notin RealKeys
    BY <1>1, <2>1, EventFacts DEF Jobs
  <2>. QED BY <2>1, <2>2
<1>6. pc'[h] \in {"idle", "finish", "readSurrogate", "verify", "readActive", "checkTrustee",
                 "repairTrustee", "saveVariation", "createTrustee", "notifyOpen"}
      \/ ReadActive(h) \/ CloseCase(h) \/ CloseTrustee(h) \/ NotifyClose(h)
      \/ FindStranded(h) \/ ReadHistory(h) \/ RepairStranded(h) \/ ReadSurrogate(h)
  BY <1>1 DEF HandlerStep, Report, SkipEvent, JoinPending, MatchFails, MatchSucceeds, Finish,
           SaveVerification, CheckTrustee, RepairTrustee, ReplaceInTrusteePartition,
           SoftCloseFails, NoPermanentFailure, CreateCase, CreateTrustee, NotifyOpen,
           SaveVariation
<1>. QED BY <1>2, <1>3, <1>4, <1>5, <1>6

LEMMA VacantStep ==
  ASSUME OneHandler, NoPermanentFailure, TypeInv, VacantInv, [Next]_vars
  PROVE  VacantInv'
<1>1. AtMostOneActive'
  <2>1. AtMostOneActive
    BY DEF VacantInv
  <2>2. ASSUME NEW h \in Handlers, pc[h] = "createCase", job[h].target \in RealKeys
        PROVE  OpenReal = {}
    BY <2>2 DEF VacantInv, Vacant
  <2>. QED BY <2>1, <2>2, OpenRealChange DEF AtMostOneActive
<1>2. ASSUME NEW g \in Handlers PROVE Vacant(job[g], pc[g])'
  <2>1. ASSUME NEW h \in Handlers, HandlerStep(h) PROVE Vacant(job[g], pc[g])'
    <3>1. g = h
      BY DEF OneHandler
    <3>. QED BY <2>1, <3>1, VacantMover
  <2>2. ASSUME NEW h \in Handlers,
               (\E e \in Events : Deliver(h, e)) \/ (\E kind \in FaultKinds : Abort(h, kind))
        PROVE  Vacant(job[g], pc[g])'
    <3>1. g = h
      BY DEF OneHandler
    <3>. QED BY <2>2, <3>1, StartOrStop DEF Vacant
  <2>3. CASE UNCHANGED <<stores, pc, job>>
    BY <2>3 DEF VacantInv, Vacant, OpenReal, stores
  <2>. QED BY <2>1, <2>2, <2>3 DEF Next, SyncCase, MoveCase, EndPage, LosePage, vars
<1>. QED BY <1>1, <1>2 DEF VacantInv

-----------------------------------------------------------------------------
AloneInvariant == TypeInv /\ AloneInv

LEMMA AloneHolds == ASSUME OneHandler PROVE Spec => []AloneInvariant
<1>1. Init => AloneInvariant
  BY TypeInit, AloneInit DEF AloneInvariant
<1>2. AloneInvariant /\ [Next]_vars => AloneInvariant'
  BY TypeStep, AloneStep DEF AloneInvariant
<1>. QED BY <1>1, <1>2, PTL DEF Spec

(* However often the events of a case are delivered, and wherever an       *)
(* attempt is cut off, one mismatch never gets two open surrogates.        *)
THEOREM OneSurrogate == OneHandler => (Spec => []OneSurrogatePerMismatch)
<1> SUFFICES ASSUME OneHandler PROVE Spec => []OneSurrogatePerMismatch
  OBVIOUS
<1>1. AloneInvariant => OneSurrogatePerMismatch
  BY DEF AloneInvariant, AloneInv
<1>. QED BY <1>1, AloneHolds, PTL

(* A queued close event is about a row closed in both partitions, a queued *)
(* open event about a row that both hold open under one document id.       *)
THEOREM AnnouncedStored == OneHandler => (Spec => AnnouncedAsStored)
<1> SUFFICES ASSUME OneHandler PROVE Spec => AnnouncedAsStored
  OBVIOUS
<1> DEFINE Truthful == \A h \in Handlers : \A m \in outbox'[h] \ outbox[h] :
             IF m.kind = "close"
             THEN ~caseRows[m.key].open /\ ~trusteeRows[m.key].open
             ELSE caseRows[m.key].open /\ trusteeRows[m.key] = caseRows[m.key]
<1>1. AloneInvariant /\ [Next]_vars => [Truthful]_vars
  <2> SUFFICES ASSUME AloneInvariant, [Next]_vars PROVE Truthful
    OBVIOUS
  <2>0. outbox \in [Handlers -> SUBSET Messages]
    BY DEF AloneInvariant, TypeInv, TypeOK
  <2>1. ASSUME NEW h \in Handlers, NotifyClose(h) PROVE Truthful
    <3>1. ~caseRows[job[h].old].open /\ ~trusteeRows[job[h].old].open
      BY <2>1 DEF AloneInvariant, AloneInv, Alone, NotifyClose
    <3>2. outbox' = [outbox EXCEPT ![h] = {[kind |-> "close", key |-> job[h].old]}]
          /\ UNCHANGED <<caseRows, trusteeRows>>
      BY <2>1 DEF NotifyClose, Notify, stores
    <3>. QED BY <2>0, <3>1, <3>2
  <2>2. ASSUME NEW h \in Handlers, NotifyOpen(h) PROVE Truthful
    <3>1. caseRows[job[h].target].open /\ trusteeRows[job[h].target] = caseRows[job[h].target]
      BY <2>2 DEF AloneInvariant, AloneInv, Alone, NotifyOpen
    <3>2. outbox' = [outbox EXCEPT ![h] = {[kind |-> "open", key |-> job[h].target]}]
          /\ UNCHANGED <<caseRows, trusteeRows>>
      BY <2>2 DEF NotifyOpen, Notify, stores
    <3>. QED BY <2>0, <3>1, <3>2
  <2>3. \/ \A h \in Handlers : outbox'[h] \subseteq outbox[h]
        \/ \E h \in Handlers : NotifyClose(h) \/ NotifyOpen(h)
    BY <2>0 DEF Next, vars, output, SyncCase, MoveCase, Deliver, Abort, EndPage, LosePage,
           HandlerStep, Report, SkipEvent, JoinPending, MatchFails, MatchSucceeds, SaveVerification, ReadSurrogate, ReadActive,
           CheckTrustee, RepairTrustee, CloseCase, CloseTrustee, SoftCloseFails, FindStranded,
           ReadHistory, RepairStranded, CreateCase, CreateTrustee, SaveVariation
  <2>. QED BY <2>1, <2>2, <2>3
<1>. QED BY <1>1, AloneHolds, PTL DEF Spec, AnnouncedAsStored

VacantInvariant == AloneInvariant /\ VacantInv

LEMMA VacantHolds ==
  ASSUME OneHandler, NoPermanentFailure PROVE Spec => []VacantInvariant
<1>1. Init => VacantInvariant
  BY TypeInit, AloneInit DEF VacantInvariant, AloneInvariant
<1>2. VacantInvariant /\ [Next]_vars => VacantInvariant'
  BY TypeStep, AloneStep, VacantStep DEF VacantInvariant, AloneInvariant
<1>. QED BY <1>1, <1>2, PTL DEF Spec

(* Without a permanent soft-close failure a case never has two active      *)
(* appointments, however its events are replayed.                          *)
THEOREM OneActive ==
  OneHandler /\ NoPermanentFailure => (Spec => []AtMostOneActive)
<1> SUFFICES ASSUME OneHandler, NoPermanentFailure PROVE Spec => []AtMostOneActive
  OBVIOUS
<1>1. VacantInvariant => AtMostOneActive
  BY DEF VacantInvariant, VacantInv
<1>. QED BY <1>1, VacantHolds, PTL

(* The open real rows behave as ActiveAppointment: one trustee at a time,  *)
(* the last one gone before the next, each asked for by an event.          *)
THEOREM Implements ==
  OneHandler /\ NoPermanentFailure => (Spec => ImplementsActiveAppointment)
<1> SUFFICES ASSUME OneHandler, NoPermanentFailure PROVE Spec => Abstract!Spec
  BY DEF ImplementsActiveAppointment
<1>1. Init => Abstract!Init
  BY DEF Init, Abstract!Init, OpenReal, Requested, RealKeys, NoRow
<1>2. VacantInvariant /\ [Next]_vars => [Abstract!Next]_(Abstract!vars)
  <2> SUFFICES ASSUME VacantInvariant, [Next]_vars
               PROVE  Abstract!Next \/ UNCHANGED <<OpenReal, Requested>>
    BY DEF Abstract!vars
  <2>1. TypeInv /\ AloneInv /\ VacantInv
    BY DEF VacantInvariant, AloneInvariant
  <2>2. ASSUME NEW h \in Handlers, NEW e \in Events, Deliver(h, e)
        PROVE  Abstract!Next \/ UNCHANGED <<OpenReal, Requested>>
    <3>1. UNCHANGED OpenReal
      BY <2>2 DEF Deliver, stores, OpenReal
    <3>2. \A d \in Events : deliveries'[d] > 0 <=> deliveries[d] > 0 \/ d = e
      BY <2>1, <2>2 DEF Deliver, TypeInv, TypeOK
    <3>3. Requested' = Requested \cup (RealKeys \cap {Appointment(e)})
      BY <3>2 DEF Requested
    <3>4. CASE Appointment(e) \in RealKeys
      BY <3>1, <3>3, <3>4 DEF Abstract!Next, Abstract!Request
    <3>5. CASE Appointment(e) \notin RealKeys
      BY <3>1, <3>3, <3>5
    <3>. QED BY <3>4, <3>5
  <2>3. ASSUME deliveries' = deliveries
        PROVE  Abstract!Next \/ UNCHANGED <<OpenReal, Requested>>
    <3>1. Requested' = Requested
      BY <2>3 DEF Requested
    <3>2. ASSUME NEW h \in Handlers, CloseCase(h), pc[h] = "closeCase",
                 OpenReal' = OpenReal \ {job[h].old}
          PROVE  Abstract!Next
      <4>1. OpenReal = {job[h].old}
        BY <2>1, <3>2 DEF VacantInv, Vacant
      <4>. QED BY <3>1, <3>2, <4>1 DEF Abstract!Next, Abstract!Vacate
    <3>3. ASSUME NEW h \in Handlers, CreateCase(h), pc[h] = "createCase",
                 job[h].target \in RealKeys, OpenReal' = OpenReal \cup {job[h].target}
          PROVE  Abstract!Next
      <4>1. OpenReal = {}
        BY <2>1, <3>3 DEF VacantInv, Vacant
      <4>2. job[h].event \in Events /\ deliveries[job[h].event] > 0
        BY <2>1, <3>3 DEF TypeInv, TypeOK, AloneInv, Alone, Jobs
      <4>3. job[h].target = Appointment(job[h].event)
        BY <2>1, <3>3, <4>2, EventFacts DEF TypeInv, JobsKnown, Known, Creating
      <4>4. job[h].target \in Requested
        BY <3>3, <4>2, <4>3 DEF Requested
      <4>. QED BY <3>1, <3>3, <4>1, <4>4 DEF Abstract!Next, Abstract!Appoint
    <3>. QED BY <2>1, <3>1, <3>2, <3>3, OpenRealChange
  <2>4. \/ deliveries' = deliveries
        \/ \E h \in Handlers, e \in Events : Deliver(h, e)
    BY DEF Next, vars, SyncCase, MoveCase, Abort, EndPage, LosePage, HandlerStep, Report, SkipEvent,
           JoinPending, MatchFails, MatchSucceeds, SaveVerification, ReadSurrogate, ReadActive,
           CheckTrustee, RepairTrustee, CloseCase, CloseTrustee, SoftCloseFails, NotifyClose,
           FindStranded, ReadHistory, RepairStranded, CreateCase, CreateTrustee, NotifyOpen,
           SaveVariation
  <2>. QED BY <2>2, <2>3, <2>4
<1>. QED BY <1>1, <1>2, VacantHolds, PTL DEF Spec, Abstract!Spec


-----------------------------------------------------------------------------
(***************************************************************************)
(* What is left once everything is settled, for a case whose trustees all  *)
(* match: its events then never end as "handled" by a surrogate, which is  *)
(* put aside until a person resolves its verification.                     *)
(***************************************************************************)

AllMatch == Unmatched = {}

Matching(j, label) ==
  /\ label \notin {"verify", "readSurrogate"}
  /\ label \in Creating => j.target = Appointment(j.event)
  /\ label = "finish" => /\ j.result # "none"
                         /\ j.result = "handled" => caseRecord = "moved"

MatchInv == /\ pending = {}
            /\ \A e \in Events : outcome[e] = "handled" => caseRecord = "moved"
            /\ \A h \in Handlers : Matching(job[h], pc[h])

(* Until it reports, a handler stays with its event; it chooses the row to *)
(* create once.                                                            *)
LEMMA Kept ==
  ASSUME TypeInv, NEW h \in Handlers, HandlerStep(h), ~Report(h)
  PROVE  /\ UNCHANGED <<caseRecord, deliveries, outcome>>
         /\ pc[h] # "idle" /\ pc[h] # "finish" /\ pc'[h] # "idle"
         /\ job'[h].event = job[h].event
         /\ pc[h] \notin {"match", "readSurrogate"} => job'[h].target = job[h].target
         /\ job[h].soft => job'[h].soft
<1>1. /\ job \in [Handlers -> Jobs] /\ pc \in [Handlers -> Labels] /\ job[h] \in Jobs
  BY DEF TypeInv, TypeOK
<1> USE DEF Goto, Finish
<1>2. /\ UNCHANGED <<caseRecord, deliveries, outcome>>
      /\ pc[h] # "idle" /\ pc[h] # "finish" /\ pc'[h] # "idle"
  BY <1>1 DEF HandlerStep, SkipEvent, JoinPending, MatchFails, MatchSucceeds,
         SaveVerification, ReadSurrogate, ReadActive, CheckTrustee, RepairTrustee, CloseCase,
         CloseTrustee, SoftCloseFails, NotifyClose, FindStranded, ReadHistory,
         RepairStranded, CreateCase, CreateTrustee, NotifyOpen, SaveVariation,
         SoftCloseFailed, ReplaceInTrusteePartition
<1>3. CASE SkipEvent(h) \/ SaveVariation(h)
  <2>1. \E r \in Outcomes : job' = [job EXCEPT ![h].result = r]
    BY <1>3 DEF SkipEvent, SaveVariation, Outcomes
  <2>. QED BY <1>1, <1>2, <2>1 DEF Jobs
<1>4. CASE MatchSucceeds(h)
  <2>1. \/ job' = [job EXCEPT ![h].result = "dlq"]
        \/ job' = [job EXCEPT ![h].target = Appointment(EventAt(h))]
    BY <1>4 DEF MatchSucceeds
  <2>. QED BY <1>1, <1>2, <1>4, <2>1 DEF Jobs, MatchSucceeds
<1>5. CASE ReadSurrogate(h)
  <2>1. \/ \E r \in Outcomes : job' = [job EXCEPT ![h].result = r]
        \/ job' = [job EXCEPT ![h].target = Surrogate(EventAt(h))]
    BY <1>5 DEF ReadSurrogate, Outcomes
  <2>2. job'[h].event = job[h].event /\ job'[h].soft = job[h].soft
    <3>1. CASE \E r \in Outcomes : job' = [job EXCEPT ![h].result = r]
      BY <1>1, <3>1 DEF Jobs
    <3>2. CASE job' = [job EXCEPT ![h].target = Surrogate(EventAt(h))]
      BY <1>1, <3>2 DEF Jobs
    <3>. QED BY <2>1, <3>1, <3>2
  <2>. QED BY <1>2, <1>5, <2>2 DEF ReadSurrogate
<1>6. CASE ReadActive(h) \/ FindStranded(h)
  <2>1. \/ job' = job
        \/ \E k \in Keys : job' = [job EXCEPT ![h].old = k, ![h].oldRow = caseRows[k]]
        \/ \E k \in Keys : job' = [job EXCEPT ![h].old = k, ![h].oldRow = trusteeRows[k]]
    BY <1>6 DEF ReadActive, FindStranded, OpenReal, RealKeys, StrandedFor
  <2>2. ASSUME NEW k \in Keys, NEW rows \in [Keys -> Row],
               job' = [job EXCEPT ![h].old = k, ![h].oldRow = rows[k]]
        PROVE  /\ job'[h].event = job[h].event /\ job'[h].target = job[h].target
               /\ job'[h].soft = job[h].soft
    BY <1>1, <2>2 DEF Jobs
  <2>. QED BY <1>2, <2>1, <2>2 DEF TypeInv, TypeOK
<1>7. CASE ReadHistory(h)
  <2>1. job' = [job EXCEPT ![h].oldRow = IF Exists(caseRows, job[h].old)
                                         THEN caseRows[job[h].old] ELSE job[h].oldRow]
    BY <1>1, <1>7 DEF ReadHistory
  <2>. QED BY <1>1, <1>2, <2>1 DEF Jobs
<1>8. CASE CloseCase(h) \/ CloseTrustee(h) \/ SoftCloseFails(h)
  <2>1. job' = job \/ job' = [job EXCEPT ![h].soft = TRUE]
    BY <1>8 DEF CloseCase, CloseTrustee, SoftCloseFails, SoftCloseFailed
  <2>. QED BY <1>1, <1>2, <2>1 DEF Jobs
<1>9. CASE CreateCase(h)
  <2>1. job' = [job EXCEPT ![h].newId = nextId]
    BY <1>9 DEF CreateCase
  <2>. QED BY <1>1, <1>2, <2>1 DEF Jobs
<1>10. CASE RepairTrustee(h) \/ RepairStranded(h) \/ CreateTrustee(h)
  <2>1. job' = job \/ \E r \in Outcomes : job' = [job EXCEPT ![h].result = r]
    BY <1>10 DEF RepairTrustee, RepairStranded, ReplaceInTrusteePartition, CreateTrustee,
                 Outcomes
  <2>. QED BY <1>1, <1>2, <2>1 DEF Jobs
<1>11. CASE JoinPending(h) \/ MatchFails(h) \/ SaveVerification(h) \/ CheckTrustee(h)
            \/ NotifyClose(h) \/ NotifyOpen(h)
  BY <1>2, <1>11 DEF JoinPending, MatchFails, SaveVerification, CheckTrustee, NotifyClose,
               NotifyOpen
<1>. QED BY <1>3, <1>4, <1>5, <1>6, <1>7, <1>8, <1>9, <1>10, <1>11 DEF HandlerStep

LEMMA MatchMover ==
  ASSUME AllMatch, TypeInv, MatchInv, NEW h \in Handlers, HandlerStep(h)
  PROVE  Matching(job[h], pc[h])' /\ pending' = {}
<1>1. /\ job \in [Handlers -> Jobs] /\ pc \in [Handlers -> Labels] /\ job[h] \in Jobs
      /\ caseRecord \in {"missing", "synced", "moved"}
      /\ Known(job[h], pc[h]) /\ Matching(job[h], pc[h]) /\ pending = {}
      /\ job[h].event \in Events
  BY DEF TypeInv, TypeOK, JobsKnown, MatchInv, Jobs
<1>2. pc[h] \notin {"verify", "readSurrogate"}
  BY <1>1 DEF Matching
<1>3. ~JoinPending(h) /\ ~MatchFails(h) /\ ~SaveVerification(h) /\ ~ReadSurrogate(h)
  BY <1>1, <1>2 DEF JoinPending, MatchFails, SaveVerification, ReadSurrogate, AllMatch
<1>4. pending' = {}
  BY <1>1, <1>3 DEF HandlerStep, review, Report, SkipEvent, MatchSucceeds, ReadActive,
         CheckTrustee, RepairTrustee, CloseCase, CloseTrustee, SoftCloseFails, NotifyClose,
         FindStranded, ReadHistory, RepairStranded, CreateCase, CreateTrustee, NotifyOpen,
         SaveVariation
<1> USE DEF Goto, Finish
<1>5. CASE Report(h)
  BY <1>1, <1>4, <1>5 DEF Report, Matching, Creating
<1>6. CASE ~Report(h)
  <2>1. /\ UNCHANGED caseRecord /\ job'[h].event = job[h].event
        /\ pc[h] # "match" => job'[h].target = job[h].target
    BY <1>2, <1>6, Kept
  <2>2. pc'[h] \notin {"verify", "readSurrogate"}
    BY <1>1, <1>3 DEF HandlerStep, Report, SkipEvent, MatchSucceeds, ReadActive,
         CheckTrustee, RepairTrustee, CloseCase, CloseTrustee, SoftCloseFails, NotifyClose,
         FindStranded, ReadHistory, RepairStranded, CreateCase, CreateTrustee, NotifyOpen,
         SaveVariation, ReplaceInTrusteePartition, SoftCloseFailed
  <2>3. pc'[h] \in Creating => pc[h] \in Linking \cup Creating
    BY <1>1, <1>3 DEF HandlerStep, Report, SkipEvent, MatchSucceeds, ReadActive, Creating, Linking,
         CheckTrustee, RepairTrustee, CloseCase, CloseTrustee, SoftCloseFails, NotifyClose,
         FindStranded, ReadHistory, RepairStranded, CreateCase, CreateTrustee, NotifyOpen,
         SaveVariation, ReplaceInTrusteePartition, SoftCloseFailed
  <2>4. pc'[h] \in Creating => job'[h].target = Appointment(job'[h].event)
    BY <1>1, <2>1, <2>3 DEF Matching, Known, Creating, Linking
  <2>5. pc'[h] = "finish" => /\ job'[h].result # "none"
                             /\ job'[h].result = "handled" => caseRecord = "moved"
    <3>1. CASE SkipEvent(h)
      BY <1>1, <3>1 DEF SkipEvent, Jobs
    <3>2. CASE MatchSucceeds(h)
      BY <1>1, <3>2 DEF MatchSucceeds, Jobs
    <3>3. CASE RepairTrustee(h) \/ RepairStranded(h)
      BY <1>1, <3>3 DEF RepairTrustee, RepairStranded, ReplaceInTrusteePartition, Jobs
    <3>4. CASE CreateTrustee(h)
      <4>1. job[h].target.holder \notin Fingerprints
        BY <1>1, <3>4, EventFacts DEF CreateTrustee, Matching, Creating, Appointment
      <4>. QED BY <1>1, <3>4, <4>1 DEF CreateTrustee
    <3>5. CASE SaveVariation(h)
      BY <1>1, <3>5 DEF SaveVariation, Jobs
    <3>6. pc'[h] # "finish" \/ SkipEvent(h) \/ MatchSucceeds(h) \/ RepairTrustee(h)
          \/ RepairStranded(h) \/ CreateTrustee(h) \/ SaveVariation(h)
      BY <1>1, <1>3 DEF HandlerStep, Report, ReadActive, CheckTrustee, CloseCase, CloseTrustee,
           SoftCloseFails, NotifyClose, FindStranded, ReadHistory, CreateCase, NotifyOpen,
           SoftCloseFailed
    <3>. QED BY <3>1, <3>2, <3>3, <3>4, <3>5, <3>6
  <2>. QED BY <1>4, <2>1, <2>2, <2>4, <2>5 DEF Matching
<1>. QED BY <1>5, <1>6

LEMMA MatchStep ==
  ASSUME OneHandler, AllMatch, TypeInv, MatchInv, [Next]_vars
  PROVE  MatchInv'
<1>1. /\ outcome \in [Events -> Outcomes] /\ pending = {}
      /\ caseRecord \in {"missing", "synced", "moved"}
      /\ \A h \in Handlers : job[h].event \in Events
  BY DEF TypeInv, TypeOK, MatchInv, Jobs
<1>2. pending' = {} /\ (caseRecord = "moved" => caseRecord' = "moved")
  <2>1. CASE \E h \in Handlers : HandlerStep(h)
    <3>1. UNCHANGED caseRecord
      BY <2>1, Kept DEF Report
    <3>. QED BY <2>1, <3>1, MatchMover
  <2>2. CASE ~\E h \in Handlers : HandlerStep(h)
    BY <1>1, <2>2 DEF Next, vars, review, SyncCase, MoveCase, Deliver, Abort, EndPage, LosePage
  <2>. QED BY <2>1, <2>2
<1>3. ASSUME NEW e \in Events PROVE (outcome[e] = "handled" => caseRecord = "moved")'
  <2>1. CASE outcome'[e] = outcome[e]
    BY <1>2, <2>1 DEF MatchInv
  <2>2. ASSUME NEW h \in Handlers, Report(h)
        PROVE  (outcome[e] = "handled" => caseRecord = "moved")'
    <3>1. job[h].result = "handled" => caseRecord = "moved"
      BY <2>2 DEF Report, MatchInv, Matching
    <3>. QED BY <1>1, <1>2, <2>1, <2>2, <3>1 DEF Report, EventAt
  <2>3. ASSUME NEW h \in Handlers, NEW kind \in FaultKinds, Abort(h, kind)
        PROVE  (outcome[e] = "handled" => caseRecord = "moved")'
    BY <1>1, <1>2, <2>1, <2>3 DEF Abort, EventAt, FaultKinds
  <2>4. CASE UNCHANGED outcome
    BY <2>1, <2>4
  <2>. QED BY <2>2, <2>3, <2>4, Kept DEF Next, vars, SyncCase, MoveCase, Deliver, EndPage, LosePage
<1>4. ASSUME NEW g \in Handlers PROVE Matching(job[g], pc[g])'
  <2>1. ASSUME NEW h \in Handlers, HandlerStep(h) PROVE Matching(job[g], pc[g])'
    BY <2>1, MatchMover DEF OneHandler
  <2>2. ASSUME NEW h \in Handlers,
               (\E e \in Events : Deliver(h, e)) \/ (\E kind \in FaultKinds : Abort(h, kind))
        PROVE  Matching(job[g], pc[g])'
    <3>1. g = h
      BY DEF OneHandler
    <3>. QED BY <2>2, <3>1, StartOrStop DEF Matching, Creating
  <2>3. CASE UNCHANGED <<pc, job>>
    BY <1>2, <2>3 DEF MatchInv, Matching
  <2>. QED BY <2>1, <2>2, <2>3 DEF Next, SyncCase, MoveCase, EndPage, LosePage, vars
<1>. QED BY <1>2, <1>3, <1>4 DEF MatchInv

(* A handler that holds, has made or reports an appointment has one to     *)
(* show; between two appointments it is in one of the calls of Vacating.   *)
Serving(j, label) ==
  /\ label \in {"checkTrustee", "repairTrustee", "createTrustee", "notifyOpen",
                "saveVariation"} => OpenReal # {}
  /\ label = "finish" /\ j.result \in Linked => OpenReal # {}

Vacating == {"closeTrustee", "notifyClose", "findStranded", "readHistory",
             "repairStranded", "createCase"}

(* A case that lost its appointment has an attempt that took it away and   *)
(* has yet to be finished, now or by a retry.                              *)
Owed ==
  \/ \A e \in Events : outcome[e] # "success"
  \/ \E e \in Events : ~Settled(e)
  \/ \E h \in Handlers : \/ pc[h] \in Vacating
                         \/ pc[h] = "finish" /\ job[h].result \notin Linked

ServedInv ==
  /\ \A h \in Handlers : Serving(job[h], pc[h])
  /\ caseRecord = "moved" \/ OpenReal # {} \/ Owed

LEMMA ServedInit == Init => MatchInv /\ ServedInv
  BY DEF Init, MatchInv, Matching, Creating, ServedInv, Serving, Owed

LEMMA ServedMover ==
  ASSUME AllMatch, TypeInv, MatchInv, ServedInv, NEW h \in Handlers, HandlerStep(h)
  PROVE  /\ Serving(job[h], pc[h])'
         /\ OpenReal # {} => OpenReal' # {} \/ pc'[h] \in Vacating
         /\ pc[h] \in Vacating => \/ OpenReal' # {} \/ pc'[h] \in Vacating
                                  \/ pc'[h] = "finish" /\ job'[h].result \notin Linked
<1>1. /\ job \in [Handlers -> Jobs] /\ pc \in [Handlers -> Labels] /\ job[h] \in Jobs
      /\ Known(job[h], pc[h]) /\ Matching(job[h], pc[h]) /\ Serving(job[h], pc[h])
      /\ job[h].event \in Events
  BY DEF TypeInv, TypeOK, JobsKnown, MatchInv, ServedInv, Jobs
<1> USE DEF Goto, Finish, Serving
<1>2. CASE CreateCase(h)
  <2>1. /\ pc[h] = "createCase" /\ pc'[h] = "createTrustee"
        /\ job[h].target \in RealKeys
        /\ caseRows' = [caseRows EXCEPT ![job[h].target] = [id |-> nextId, open |-> TRUE]]
    BY <1>1, <1>2, EventFacts DEF CreateCase, Matching, Known, Creating
  <2>2. job[h].target \in OpenReal'
    BY <2>1 DEF OpenReal, RealKeys, TypeInv, TypeOK
  <2>. QED BY <2>1, <2>2
<1>3. CASE CloseCase(h)
  BY <1>1, <1>3 DEF CloseCase, SoftCloseFailed, Vacating
<1>4. CASE ~CreateCase(h) /\ ~CloseCase(h)
  <2>1. UNCHANGED OpenReal
    BY <1>4 DEF OpenReal, HandlerStep, stores, Report, SkipEvent, JoinPending, MatchFails,
           MatchSucceeds, SaveVerification, ReadSurrogate, ReadActive, CheckTrustee,
           RepairTrustee, CloseTrustee, SoftCloseFails, NotifyClose, FindStranded,
           ReadHistory, RepairStranded, CreateTrustee, NotifyOpen, SaveVariation
  <2>2. CASE ReadActive(h)
    BY <1>1, <2>1, <2>2 DEF ReadActive, Vacating
  <2>3. CASE CheckTrustee(h) \/ NotifyOpen(h) \/ NotifyClose(h) \/ FindStranded(h)
             \/ ReadHistory(h) \/ CloseTrustee(h) \/ SoftCloseFails(h)
    BY <1>1, <2>1, <2>3 DEF CheckTrustee, NotifyOpen, NotifyClose, FindStranded, ReadHistory,
            CloseTrustee, SoftCloseFails, SoftCloseFailed, Vacating
  <2>4. CASE RepairTrustee(h) \/ RepairStranded(h)
    BY <1>1, <2>1, <2>4 DEF RepairTrustee, RepairStranded, ReplaceInTrusteePartition, Vacating,
            Linked, Jobs
  <2>5. CASE CreateTrustee(h) \/ SaveVariation(h)
    BY <1>1, <2>1, <2>5 DEF CreateTrustee, SaveVariation, Vacating
  <2>6. CASE SkipEvent(h) \/ MatchSucceeds(h) \/ ReadSurrogate(h)
    BY <1>1, <2>1, <2>6 DEF SkipEvent, MatchSucceeds, ReadSurrogate, Vacating, Linked, Jobs
  <2>7. CASE Report(h) \/ JoinPending(h) \/ MatchFails(h) \/ SaveVerification(h)
    BY <1>1, <2>1, <2>7 DEF Report, JoinPending, MatchFails, SaveVerification, Vacating
  <2>. QED BY <1>4, <2>2, <2>3, <2>4, <2>5, <2>6, <2>7 DEF HandlerStep
<1>. QED BY <1>2, <1>3, <1>4

(* What an attempt leaves when it ends: to be tried again, or served.      *)
LEMMA OwedAtEnd ==
  ASSUME AllMatch, TypeInv, MatchInv, ServedInv, NEW h \in Handlers,
         Report(h) \/ \E kind \in FaultKinds : Abort(h, kind)
  PROVE  caseRecord' = "moved" \/ OpenReal' # {} \/ \E e \in Events : ~Settled(e)'
<1>1. /\ outcome \in [Events -> Outcomes] /\ job[h] \in Jobs /\ job[h].event \in Events
      /\ Matching(job[h], pc[h]) /\ Serving(job[h], pc[h])
  BY DEF TypeInv, TypeOK, MatchInv, ServedInv, Jobs
<1>2. CASE Report(h)
  <2>1. /\ outcome'[job[h].event] = job[h].result /\ pc[h] = "finish"
        /\ UNCHANGED <<caseRecord, caseRows>>
    BY <1>1, <1>2 DEF Report, EventAt, stores
  <2>2. CASE job[h].result \in {"none", "success", "handled"}
    BY <1>1, <2>1, <2>2 DEF Matching, Serving, Linked, OpenReal
  <2>3. CASE job[h].result \notin {"none", "success", "handled"}
    BY <1>1, <2>1, <2>3 DEF Settled
  <2>. QED BY <2>2, <2>3
<1>3. ASSUME NEW kind \in FaultKinds, Abort(h, kind)
      PROVE  outcome'[job[h].event] \notin {"none", "success", "handled"}
  BY <1>1, <1>3 DEF Abort, EventAt, FaultKinds
<1>. QED BY <1>1, <1>2, <1>3 DEF Settled

LEMMA ServedStep ==
  ASSUME OneHandler, AllMatch, TypeInv, MatchInv, ServedInv, [Next]_vars
  PROVE  ServedInv'
<1>1. job \in [Handlers -> Jobs] /\ pc \in [Handlers -> Labels]
  BY DEF TypeInv, TypeOK
<1>2. ASSUME NEW h \in Handlers, HandlerStep(h) PROVE ServedInv'
  <2>1. \A g \in Handlers : Serving(job[g], pc[g])'
    BY <1>2, ServedMover DEF OneHandler
  <2>2. CASE Report(h)
    BY <2>1, <2>2, OwedAtEnd DEF ServedInv, Owed
  <2>3. CASE ~Report(h)
    <3>1. /\ UNCHANGED <<caseRecord, outcome>> /\ pc[h] # "finish"
      BY <1>2, <2>3, Kept
    <3>2. \/ caseRecord = "moved" \/ OpenReal # {}
          \/ \A e \in Events : outcome[e] # "success"
          \/ \E e \in Events : ~Settled(e)
          \/ pc[h] \in Vacating
      BY <3>1 DEF ServedInv, Owed, OneHandler
    <3>3. \/ caseRecord' = "moved" \/ OpenReal' # {} \/ Owed'
      BY <1>2, <3>1, <3>2, ServedMover DEF Owed, Settled
    <3>. QED BY <2>1, <3>3 DEF ServedInv
  <2>. QED BY <2>2, <2>3
<1>3. ASSUME NEW h \in Handlers, NEW kind \in FaultKinds, Abort(h, kind) PROVE ServedInv'
  <2>1. \A g \in Handlers : pc'[g] = "idle"
    BY <1>1, <1>3 DEF OneHandler, Abort, Goto
  <2>. QED BY <1>3, <2>1, OwedAtEnd DEF ServedInv, Owed, Serving
<1>4. ASSUME NEW h \in Handlers, NEW e \in Events, Deliver(h, e) PROVE ServedInv'
  <2>1. \A g \in Handlers : pc[g] = "idle" /\ pc'[g] = "match"
    BY <1>1, <1>4 DEF OneHandler, Deliver, Goto
  <2>2. UNCHANGED <<caseRecord, caseRows, outcome>>
    BY <1>4 DEF Deliver, stores
  <2>. QED BY <2>1, <2>2 DEF ServedInv, Owed, Serving, Settled, OpenReal, Vacating
<1>5. CASE \/ SyncCase \/ MoveCase \/ UNCHANGED vars
           \/ \E h \in Handlers : EndPage(h) \/ LosePage(h)
  <2>1. UNCHANGED <<caseRows, outcome, pc, job>> /\ (caseRecord = "moved" => caseRecord' = "moved")
    BY <1>5 DEF SyncCase, MoveCase, EndPage, LosePage, vars, stores
  <2>. QED BY <2>1 DEF ServedInv, Owed, Serving, Settled, OpenReal
<1>. QED BY <1>2, <1>3, <1>4, <1>5 DEF Next

ServedInvariant == TypeInv /\ MatchInv /\ ServedInv

(* One handler, every name matching, any replay, any failures: once all    *)
(* its events are settled and one was linked, the case has a trustee, if   *)
(* not always the one the court made last: an older event may come late.   *)
THEOREM SettledActive ==
  OneHandler /\ AllMatch => (Spec => []SettledHasActive)
<1> SUFFICES ASSUME OneHandler, AllMatch PROVE Spec => []SettledHasActive
  OBVIOUS
<1>1. Init => ServedInvariant
  BY TypeInit, ServedInit DEF ServedInvariant
<1>2. ServedInvariant /\ [Next]_vars => ServedInvariant'
  BY TypeStep, MatchStep, ServedStep DEF ServedInvariant
<1>3. ServedInvariant => SettledHasActive
  BY DEF ServedInvariant, ServedInv, Owed, SettledHasActive, AllSettled, Quiet, Vacating
<1>. QED BY <1>1, <1>2, <1>3, PTL DEF Spec

-----------------------------------------------------------------------------
(***************************************************************************)
(* The events taken in order: where the latest one that was taken stands,  *)
(* whichever call its last attempt was cut off at.                         *)
(***************************************************************************)

Dated == \A e \in Events : Date(e) \in Dates

InOrderNext == Next /\ InOrder /\ Reported

OpenTrustee == {k \in Keys : trusteeRows[k].open}

Latest(e) == /\ deliveries[e] > 0
             /\ \A d \in Events \ {e} : deliveries[d] > 0 => Date(d) < Date(e)

Absent(e) == ~Exists(caseRows, Appointment(e))

(* Done: both partitions show one open row, of the event's trustee. *)
Held(e) ==
  \E k \in RealKeys : k.holder = Trustee(e) /\ OpenReal = {k} /\ OpenTrustee = {k}

(* Not begun, or the appointment of another has been ended in both. *)
Before(e) ==
  /\ Absent(e)
  /\ OpenTrustee = OpenReal
  /\ \A k \in OpenReal : OpenReal = {k} /\ k.holder # Trustee(e)

(* The appointment of another has been ended in the case partition only. *)
HalfClosed(e, k) ==
  /\ Absent(e)
  /\ OpenReal = {} /\ OpenTrustee = {k}
  /\ k \in RealKeys /\ k.holder # Trustee(e)

Vacated(e) == Absent(e) /\ OpenReal = {} /\ OpenTrustee = {}

(* The event's appointment is in the case partition only. *)
HalfOpened(e) ==
  /\ OpenReal = {Appointment(e)} /\ OpenTrustee = {}
  /\ ~Exists(trusteeRows, Appointment(e))

Stage(e) == \/ Held(e) \/ Before(e) \/ HalfOpened(e)
            \/ \E k \in RealKeys : HalfClosed(e, k)

(* What a handler relies on at each call. *)
At(j, label) ==
  LET e == j.event IN
  /\ ~j.soft /\ Latest(e)
  /\ label \in {"repairTrustee", "repairStranded"} => j.oldRow = caseRows[j.old]
  /\ label = "checkTrustee" => /\ j.old \in OpenReal /\ j.oldRow = caseRows[j.old]
                               /\ Held(e) \/ HalfOpened(e)
  /\ label = "repairTrustee" => HalfOpened(e) /\ j.old = Appointment(e)
  /\ label = "closeCase" => Before(e) /\ OpenReal = {j.old}
  /\ label \in {"closeTrustee", "readHistory", "repairStranded"} => HalfClosed(e, j.old)
  /\ label \in {"notifyClose", "createCase"} => Vacated(e)
  /\ label = "findStranded" => Vacated(e) \/ \E k \in RealKeys : HalfClosed(e, k)
  /\ label = "createTrustee" =>
       HalfOpened(e) /\ caseRows[Appointment(e)] = [id |-> j.newId, open |-> TRUE]
  /\ label \in {"notifyOpen", "saveVariation"} => Held(e)
  /\ label = "finish" => /\ j.result \in {"success", "notYetSynced"}
                         /\ j.result = "success" => Held(e)

(* Every event but the latest one taken has succeeded. *)
EventsInOrder ==
  /\ \A e \in Events : outcome[e] \in {"none", "success", "notYetSynced", "retryable", "crashed"}
  /\ (\E e \in Events : deliveries[e] > 0) => \E e \in Events : Latest(e)
  /\ \A e \in Events : deliveries[e] > 0 =>
       /\ Latest(e) \/ outcome[e] = "success"
       /\ outcome[e] = "none" => \E h \in Handlers : pc[h] # "idle" /\ job[h].event = e

CaseRowsAskedFor ==
  \A k \in Keys : Exists(caseRows, k) =>
    \E d \in Events : deliveries[d] > 0 /\ k = Appointment(d)

Orderly ==
  /\ EventsInOrder
  /\ CaseRowsAskedFor
  /\ \A e \in Events : Latest(e) => Stage(e) /\ (outcome[e] = "success" => Held(e))
  /\ \A h \in Handlers : pc[h] # "idle" => At(job[h], pc[h])

(* An event that was put on the DLQ stops the case: none is taken again.   *)
Stopped ==
  /\ \E e \in Events : outcome[e] \in {"dlq", "successWithDlq"}
  /\ \A h \in Handlers : pc[h] = "idle"

SoftFailed == \E h \in Handlers : pc[h] # "idle" /\ job[h].soft

OrderInv ==
  /\ \A e \in Events : outcome[e] # "none" => deliveries[e] > 0
  /\ caseRecord = "moved" \/ Stopped \/ SoftFailed \/ Orderly

OrderContext == AloneInvariant /\ StoreInv /\ MatchInv

LEMMA DatedFacts ==
  ASSUME Dated, NEW e \in Events
  PROVE  /\ Date(e) \in Nat /\ Appointment(e) \in RealKeys /\ Appointment(e) \in Keys
         /\ Appointment(e).holder = Trustee(e) /\ Appointment(e).assignedOn = Date(e)
         /\ Trustee(e) \in Trustees
  BY EventFacts DEF Dated, Appointment, RealKeys

LEMMA OneLatest ==
  ASSUME Dated, NEW d \in Events, NEW e \in Events, Latest(d), Latest(e)
  PROVE  d = e
  BY DatedFacts DEF Latest

(* An event that is done is at no other stage. *)
LEMMA StagesApart ==
  ASSUME NEW e \in Events, Held(e)
  PROVE  ~Before(e) /\ ~HalfOpened(e) /\ ~Vacated(e) /\ \A k \in RealKeys : ~HalfClosed(e, k)
  BY DEF Held, Before, HalfOpened, Vacated, HalfClosed

(* The six writes, from the stage their handler relies on to the next. *)
LEMMA ClosesCase ==
  ASSUME TypeInv, Dated, NEW h \in Handlers, CloseCase(h),
         NEW e \in Events, NEW k \in RealKeys, k = job[h].old,
         Before(e), OpenReal = {k}
  PROVE  \/ pc'[h] = "createCase" /\ job'[h].soft
         \/ /\ pc'[h] = "closeTrustee" /\ job' = job
            /\ HalfClosed(e, k)'
            /\ \A l \in Keys : Exists(caseRows', l) <=> Exists(caseRows, l)
<1>1. /\ job \in [Handlers -> Jobs] /\ pc \in [Handlers -> Labels] /\ job[h] \in Jobs
      /\ caseRows \in [Keys -> Row] /\ k \in Keys /\ Appointment(e) \in Keys
  BY DatedFacts DEF TypeInv, TypeOK, RealKeys
<1>2. CASE caseRows[k].id # job[h].oldRow.id
  BY <1>1, <1>2 DEF CloseCase, SoftCloseFailed, Goto, Jobs
<1>3. CASE caseRows[k].id = job[h].oldRow.id
  <2>1. /\ pc'[h] = "closeTrustee" /\ job' = job /\ trusteeRows' = trusteeRows
        /\ caseRows' = [caseRows EXCEPT ![k].open = FALSE]
    BY <1>1, <1>3 DEF CloseCase, Goto
  <2>2. \A l \in Keys : /\ caseRows'[l].id = caseRows[l].id
                        /\ caseRows'[l].open <=> caseRows[l].open /\ l # k
    BY <1>1, <2>1, Closing
  <2>3. OpenReal' = {} /\ OpenTrustee' = {k}
    BY <2>1, <2>2 DEF OpenReal, OpenTrustee, RealKeys, Before
  <2>4. Absent(e)'
    BY <1>1, <2>2 DEF Absent, Exists, Before
  <2>. QED BY <2>1, <2>2, <2>3, <2>4 DEF HalfClosed, Before, Exists
<1>. QED BY <1>2, <1>3

LEMMA ClosesTrustee ==
  ASSUME TypeInv, NEW h \in Handlers, CloseTrustee(h),
         NEW e \in Events, NEW k \in RealKeys, k = job[h].old, HalfClosed(e, k)
  PROVE  \/ pc'[h] = "createCase" /\ job'[h].soft
         \/ pc'[h] = "notifyClose" /\ job' = job /\ caseRows' = caseRows /\ Vacated(e)'
<1>1. /\ job \in [Handlers -> Jobs] /\ pc \in [Handlers -> Labels] /\ job[h] \in Jobs
      /\ trusteeRows \in [Keys -> Row] /\ k \in Keys
  BY DEF TypeInv, TypeOK, RealKeys
<1>2. CASE trusteeRows[k].id # job[h].oldRow.id
  BY <1>1, <1>2 DEF CloseTrustee, SoftCloseFailed, Goto, Jobs
<1>3. CASE trusteeRows[k].id = job[h].oldRow.id
  <2>1. /\ pc'[h] = "notifyClose" /\ job' = job /\ caseRows' = caseRows
        /\ trusteeRows' = [trusteeRows EXCEPT ![k].open = FALSE]
    BY <1>1, <1>3 DEF CloseTrustee, Goto
  <2>2. \A l \in Keys : trusteeRows'[l].open <=> trusteeRows[l].open /\ l # k
    BY <1>1, <2>1, Closing
  <2>3. OpenTrustee' = {} /\ OpenReal' = {} /\ Absent(e)'
    BY <2>1, <2>2 DEF OpenReal, OpenTrustee, HalfClosed, Absent
  <2>. QED BY <2>1, <2>3 DEF Vacated
<1>. QED BY <1>2, <1>3

LEMMA RepairsTrustee ==
  ASSUME TypeInv, StoreInv, Dated, NEW h \in Handlers, RepairTrustee(h),
         NEW e \in Events, job[h].old = Appointment(e),
         job[h].oldRow = caseRows[Appointment(e)], HalfOpened(e)
  PROVE  pc'[h] = "saveVariation" /\ job' = job /\ caseRows' = caseRows /\ Held(e)'
<1> DEFINE A == Appointment(e)
<1>1. /\ pc \in [Handlers -> Labels] /\ trusteeRows \in [Keys -> Row]
      /\ A \in RealKeys /\ A \in Keys /\ A.holder = Trustee(e)
  BY DatedFacts DEF TypeInv, TypeOK
<1>2. caseRows[A].open /\ caseRows[A].id # 0 /\ trusteeRows[A].id = 0
  BY <1>1 DEF HalfOpened, OpenReal, StoreInv, RowsInv, OpenRowsExist, Exists
<1>3. /\ pc'[h] = "saveVariation" /\ job' = job /\ caseRows' = caseRows
      /\ trusteeRows' = [trusteeRows EXCEPT ![A] = caseRows[A]]
  BY <1>1, <1>2 DEF RepairTrustee, ReplaceInTrusteePartition, Goto
<1>4. OpenReal' = {A}
  BY <1>3 DEF HalfOpened, OpenReal
<1>5. OpenTrustee' = {A}
  <2>1. trusteeRows'[A] = caseRows[A] /\ \A l \in Keys : l # A => trusteeRows'[l] = trusteeRows[l]
    BY <1>1, <1>3
  <2>2. \A l \in Keys : ~trusteeRows[l].open
    BY DEF HalfOpened, OpenTrustee
  <2>. HIDE DEF A
  <2>. QED BY <1>1, <1>2, <2>1, <2>2 DEF OpenTrustee
<1>. QED BY <1>1, <1>3, <1>4, <1>5 DEF Held

LEMMA RepairsStranded ==
  ASSUME TypeInv, NEW h \in Handlers, RepairStranded(h),
         NEW e \in Events, NEW k \in RealKeys, k = job[h].old,
         job[h].oldRow = caseRows[k], HalfClosed(e, k)
  PROVE  pc'[h] = "createCase" /\ job' = job /\ caseRows' = caseRows /\ Vacated(e)'
<1>1. /\ pc \in [Handlers -> Labels] /\ trusteeRows \in [Keys -> Row] /\ k \in Keys
  BY DEF TypeInv, TypeOK, RealKeys
<1>2. ~caseRows[k].open /\ trusteeRows[k].open
  BY <1>1 DEF HalfClosed, OpenReal, OpenTrustee
<1>3. /\ pc'[h] = "createCase" /\ job' = job /\ caseRows' = caseRows
      /\ trusteeRows' = [trusteeRows EXCEPT ![k] = caseRows[k]]
  BY <1>1, <1>2 DEF RepairStranded, ReplaceInTrusteePartition, Goto
<1>4. trusteeRows'[k] = caseRows[k] /\ \A l \in Keys : l # k => trusteeRows'[l] = trusteeRows[l]
  BY <1>1, <1>3
<1>5. \A l \in Keys : trusteeRows[l].open => l = k
  BY DEF HalfClosed, OpenTrustee
<1>6. OpenTrustee' = {}
  BY <1>2, <1>4, <1>5 DEF OpenTrustee
<1>7. OpenReal' = {} /\ Absent(e)'
  BY <1>3 DEF HalfClosed, OpenReal, Absent
<1>. QED BY <1>3, <1>6, <1>7 DEF Vacated

LEMMA CreatesCase ==
  ASSUME TypeInv, StoreInv, Dated, NEW h \in Handlers, CreateCase(h),
         NEW e \in Events, job[h].target = Appointment(e), Vacated(e)
  PROVE  /\ pc'[h] = "createTrustee" /\ HalfOpened(e)'
         /\ caseRows'[Appointment(e)] = [id |-> job'[h].newId, open |-> TRUE]
         /\ job'[h].soft = job[h].soft
         /\ \A l \in Keys : l # Appointment(e) => caseRows'[l] = caseRows[l]
<1> DEFINE A == Appointment(e)
<1>1. /\ pc \in [Handlers -> Labels] /\ job \in [Handlers -> Jobs] /\ job[h] \in Jobs
      /\ caseRows \in [Keys -> Row] /\ A \in RealKeys /\ A \in Keys
  BY DatedFacts DEF TypeInv, TypeOK
<1>2. /\ pc'[h] = "createTrustee" /\ trusteeRows' = trusteeRows
      /\ job' = [job EXCEPT ![h].newId = nextId]
      /\ caseRows' = [caseRows EXCEPT ![A] = [id |-> nextId, open |-> TRUE]]
  BY <1>1 DEF CreateCase, Goto
<1>3. job'[h].newId = nextId /\ job'[h].soft = job[h].soft
  BY <1>1, <1>2 DEF Jobs
<1>4. /\ caseRows'[A] = [id |-> nextId, open |-> TRUE]
      /\ \A l \in Keys : l # A => caseRows'[l] = caseRows[l]
  BY <1>1, <1>2
<1>5. ~Exists(trusteeRows, A)
  BY <1>1 DEF Vacated, Absent, StoreInv, RowsInv, TrusteeCopiesHaveCaseCopy
<1>6. OpenReal' = {A}
  <2>1. \A l \in RealKeys : ~caseRows[l].open /\ l \in Keys
    BY DEF Vacated, OpenReal, RealKeys
  <2>. HIDE DEF A
  <2>. QED BY <1>1, <1>4, <2>1 DEF OpenReal, RealKeys
<1>7. OpenTrustee' = {} /\ ~Exists(trusteeRows', A)
  BY <1>2, <1>5 DEF OpenTrustee, Vacated
<1>. QED BY <1>2, <1>3, <1>4, <1>6, <1>7 DEF HalfOpened

LEMMA CreatesTrustee ==
  ASSUME TypeInv, Dated, NEW h \in Handlers, CreateTrustee(h), ~job[h].soft,
         NEW e \in Events, job[h].target = Appointment(e), HalfOpened(e),
         caseRows[Appointment(e)] = [id |-> job[h].newId, open |-> TRUE]
  PROVE  pc'[h] = "notifyOpen" /\ job' = job /\ caseRows' = caseRows /\ Held(e)'
<1> DEFINE A == Appointment(e)
<1>1. /\ pc \in [Handlers -> Labels] /\ trusteeRows \in [Keys -> Row]
      /\ A \in RealKeys /\ A \in Keys /\ A.holder = Trustee(e) /\ A.holder \notin Fingerprints
  BY DatedFacts DEF TypeInv, TypeOK
<1>2. /\ pc'[h] = "notifyOpen" /\ job' = job /\ caseRows' = caseRows
      /\ trusteeRows' = [trusteeRows EXCEPT ![A] = [id |-> job[h].newId, open |-> TRUE]]
  BY <1>1 DEF CreateTrustee, Goto
<1>3. OpenReal' = {A}
  BY <1>2 DEF HalfOpened, OpenReal
<1>4. OpenTrustee' = {A}
  <2>1. trusteeRows'[A].open /\ \A l \in Keys : l # A => trusteeRows'[l] = trusteeRows[l]
    BY <1>1, <1>2
  <2>2. \A l \in Keys : ~trusteeRows[l].open
    BY DEF HalfOpened, OpenTrustee
  <2>. HIDE DEF A
  <2>. QED BY <1>1, <2>1, <2>2 DEF OpenTrustee
<1>. QED BY <1>1, <1>2, <1>3, <1>4 DEF Held

LEMMA OrderlyMover ==
  ASSUME Dated, AllMatch, OrderContext, Orderly, caseRecord # "moved",
         NEW h \in Handlers, HandlerStep(h), ~Report(h), ~job'[h].soft,
         NEW e \in Events, e = job[h].event
  PROVE  /\ At(job[h], pc[h])' /\ CaseRowsAskedFor'
         /\ Stage(e)' /\ (Held(e) => Held(e)')
<1>1. /\ TypeInv /\ StoreInv
      /\ job \in [Handlers -> Jobs] /\ pc \in [Handlers -> Labels] /\ job[h] \in Jobs
      /\ caseRecord = "missing" \/ caseRecord = "synced"
      /\ Known(job[h], pc[h]) /\ Matching(job[h], pc[h]) /\ pending = {}
  BY DEF OrderContext, AloneInvariant, TypeInv, TypeOK, JobsKnown, MatchInv
<1>2. /\ UNCHANGED <<deliveries, outcome>> /\ pc[h] # "idle" /\ pc[h] # "finish"
      /\ pc'[h] # "idle" /\ job'[h].event = e
  BY <1>1, Kept
<1>3. At(job[h], pc[h]) /\ Latest(e) /\ Latest(e)' /\ Stage(e) /\ CaseRowsAskedFor
  BY <1>2 DEF Orderly, At, Latest
<1>4. pc[h] \notin {"verify", "readSurrogate"}
      /\ ~JoinPending(h) /\ ~MatchFails(h) /\ ~SaveVerification(h) /\ ~ReadSurrogate(h)
  BY <1>1 DEF Matching, JoinPending, MatchFails, SaveVerification, ReadSurrogate, AllMatch
<1>5. pc[h] \in Linking \cup Creating => job[h].target = Appointment(e)
  BY <1>1 DEF Known, Matching
<1>6. Appointment(e) \in RealKeys /\ Appointment(e) \in Keys
      /\ Appointment(e).holder = Trustee(e) /\ deliveries[e] > 0
  BY <1>3, DatedFacts DEF Latest
(* The handler's row in the stores, when only its place changes. *)
<1> DEFINE Same == UNCHANGED <<caseRows, trusteeRows>>
<1>7. ASSUME Same
      PROVE  /\ CaseRowsAskedFor' /\ Stage(e)' /\ (Held(e) => Held(e)')
             /\ UNCHANGED <<OpenReal, OpenTrustee>>
             /\ Held(e)' = Held(e) /\ Before(e)' = Before(e) /\ HalfOpened(e)' = HalfOpened(e)
             /\ Vacated(e)' = Vacated(e)
             /\ \A k \in RealKeys : HalfClosed(e, k)' = HalfClosed(e, k)
  <2>1. UNCHANGED <<OpenReal, OpenTrustee>> /\ Absent(e)' = Absent(e)
    BY <1>7 DEF OpenReal, OpenTrustee, Absent
  <2>2. /\ Held(e)' = Held(e) /\ Before(e)' = Before(e) /\ HalfOpened(e)' = HalfOpened(e)
        /\ Vacated(e)' = Vacated(e)
        /\ \A k \in RealKeys : HalfClosed(e, k)' = HalfClosed(e, k)
    BY <1>7, <2>1 DEF Held, Before, HalfOpened, Vacated, HalfClosed
  <2>3. CaseRowsAskedFor'
    BY <1>2, <1>3, <1>7 DEF CaseRowsAskedFor
  <2>. QED BY <1>3, <2>1, <2>2, <2>3 DEF Stage
<1>8. CASE SkipEvent(h)
  <2>1. Same /\ pc'[h] = "finish" /\ job'[h].result = "notYetSynced"
    BY <1>1, <1>8 DEF SkipEvent, Finish, Goto, stores, Jobs
  <2>. QED BY <1>2, <1>3, <1>7, <2>1 DEF At
<1>9. CASE MatchSucceeds(h)
  <2>1. Same /\ pc'[h] = "readActive"
    BY <1>1, <1>9 DEF MatchSucceeds, Dated, EventAt, Goto, stores
  <2>. QED BY <1>2, <1>3, <1>7, <2>1 DEF At
<1>10. CASE ReadActive(h)
  <2>1. Same /\ job[h].target.holder = Trustee(e)
    BY <1>5, <1>6, <1>10 DEF ReadActive, stores, Linking
  <2>2. CASE OpenReal = {}
    <3>1. pc'[h] = "findStranded"
      BY <1>1, <1>10, <2>2 DEF ReadActive, Goto
    <3>2. Vacated(e) \/ \E k \in RealKeys : HalfClosed(e, k)
      BY <1>3, <2>2 DEF Stage, Held, Before, HalfOpened, Vacated
    <3>. QED BY <1>2, <1>3, <1>7, <2>1, <3>1, <3>2 DEF At
  <2>3. CASE OpenReal # {}
    <3>1. PICK l \in OpenReal :
            /\ job' = [job EXCEPT ![h].old = l, ![h].oldRow = caseRows[l]]
            /\ pc'[h] = IF l.holder = Trustee(e) THEN "checkTrustee" ELSE "closeCase"
      BY <1>1, <1>10, <2>1, <2>3 DEF ReadActive, Goto
    <3>2. job'[h].old = l /\ job'[h].oldRow = caseRows[l]
      BY <1>1, <3>1 DEF Jobs
    <3>3. \/ Held(e) /\ l.holder = Trustee(e)
          \/ HalfOpened(e) /\ l.holder = Trustee(e)
          \/ Before(e) /\ l.holder # Trustee(e) /\ OpenReal = {l}
      BY <1>3, <1>6, <2>3 DEF Stage, Held, Before, HalfOpened, HalfClosed
    <3>. QED BY <1>2, <1>3, <1>7, <2>1, <3>1, <3>2, <3>3 DEF At
  <2>. QED BY <2>2, <2>3
<1>11. CASE CheckTrustee(h)
  <2>1. /\ Same /\ job' = job /\ pc[h] = "checkTrustee"
        /\ pc'[h] = IF Exists(trusteeRows, job[h].old) THEN "saveVariation"
                                                       ELSE "repairTrustee"
        /\ job[h].old \in OpenReal /\ job[h].oldRow = caseRows[job[h].old]
        /\ Held(e) \/ HalfOpened(e)
    BY <1>1, <1>3, <1>11 DEF CheckTrustee, Goto, stores, At
  <2>2. CASE Exists(trusteeRows, job[h].old)
    <3>1. Held(e)
      BY <2>1, <2>2 DEF HalfOpened
    <3>. QED BY <1>2, <1>3, <1>7, <2>1, <2>2, <3>1 DEF At
  <2>3. CASE ~Exists(trusteeRows, job[h].old)
    <3>1. ~Held(e)
      <4>1. ASSUME Held(e) PROVE trusteeRows[job[h].old].open /\ job[h].old \in Keys
        BY <2>1, <4>1 DEF Held, OpenTrustee
      <4>. QED BY <1>1, <2>3, <4>1 DEF StoreInv, RowsInv, OpenRowsExist
    <3>2. HalfOpened(e) /\ job[h].old = Appointment(e)
      BY <2>1, <3>1 DEF HalfOpened
    <3>. QED BY <1>2, <1>3, <1>7, <2>1, <2>3, <3>2 DEF At
  <2>. QED BY <2>2, <2>3
<1>12. CASE RepairTrustee(h)
  <2>1. HalfOpened(e) /\ job[h].old = Appointment(e) /\ job[h].oldRow = caseRows[job[h].old]
    BY <1>3, <1>12 DEF RepairTrustee, At
  <2>2. pc'[h] = "saveVariation" /\ job' = job /\ caseRows' = caseRows /\ Held(e)'
    BY <1>1, <1>12, <2>1, RepairsTrustee
  <2>. QED BY <1>2, <1>3, <2>2 DEF At, Stage, CaseRowsAskedFor
<1>13. CASE CloseCase(h)
  <2>1. Before(e) /\ OpenReal = {job[h].old} /\ job[h].old \in RealKeys
    BY <1>3, <1>13 DEF CloseCase, At, OpenReal
  <2>2. PICK k \in RealKeys : k = job[h].old
    BY <2>1
  <2>3. /\ pc'[h] = "closeTrustee" /\ job' = job
        /\ HalfClosed(e, k)'
        /\ \A l \in Keys : Exists(caseRows', l) <=> Exists(caseRows, l)
    BY <1>1, <1>13, <2>1, <2>2, ClosesCase
  <2>4. CaseRowsAskedFor'
    BY <1>2, <1>3, <2>3 DEF CaseRowsAskedFor
  <2>5. HalfClosed(e, job[h].old)'
    BY <2>2, <2>3 DEF HalfClosed
  <2>. QED BY <1>2, <1>3, <2>1, <2>2, <2>3, <2>4, <2>5, StagesApart DEF At, Stage
<1>14. CASE CloseTrustee(h)
  <2>1. HalfClosed(e, job[h].old) /\ job[h].old \in RealKeys
    BY <1>3, <1>14 DEF CloseTrustee, At, HalfClosed
  <2>2. pc'[h] = "notifyClose" /\ job' = job /\ caseRows' = caseRows /\ Vacated(e)'
    BY <1>1, <1>14, <2>1, ClosesTrustee
  <2>3. Before(e)'
    BY <2>2 DEF Vacated, Before
  <2>. QED BY <1>2, <1>3, <2>1, <2>2, <2>3, StagesApart DEF At, Stage, CaseRowsAskedFor
<1>15. CASE SoftCloseFails(h)
  BY <1>1, <1>15 DEF SoftCloseFails, SoftCloseFailed, Jobs
<1>16. CASE NotifyClose(h)
  <2>1. Same /\ pc'[h] = "findStranded" /\ Vacated(e)
    BY <1>1, <1>3, <1>16 DEF NotifyClose, Goto, stores, At
  <2>. QED BY <1>2, <1>3, <1>7, <2>1 DEF At
<1>17. CASE FindStranded(h)
  <2>1. /\ Same /\ job[h].target.holder = Trustee(e)
        /\ Vacated(e) \/ \E k \in RealKeys : HalfClosed(e, k)
    BY <1>3, <1>5, <1>6, <1>17 DEF FindStranded, stores, Linking, At
  <2>2. CASE Vacated(e)
    <3>1. StrandedFor(h) = {}
      BY <2>2 DEF Vacated, StrandedFor, OpenTrustee
    <3>2. pc'[h] = "createCase"
      BY <1>1, <1>17, <3>1 DEF FindStranded, Goto
    <3>. QED BY <1>2, <1>3, <1>7, <2>1, <2>2, <3>2 DEF At
  <2>3. ASSUME NEW k \in RealKeys, HalfClosed(e, k)
        PROVE  At(job[h], pc[h])'
    <3>1. StrandedFor(h) = {k}
      BY <2>1, <2>3 DEF HalfClosed, StrandedFor, OpenTrustee
    <3>2. /\ pc'[h] = "readHistory"
          /\ job' = [job EXCEPT ![h].old = k, ![h].oldRow = trusteeRows[k]]
      BY <1>1, <1>17, <3>1 DEF FindStranded, Goto
    <3>3. job'[h].old = k
      BY <1>1, <3>2 DEF Jobs
    <3>4. HalfClosed(e, job[h].old)'
      BY <1>7, <2>1, <2>3, <3>3 DEF HalfClosed, Absent
    <3>. QED BY <1>2, <1>3, <3>2, <3>4 DEF At
  <2>. QED BY <1>7, <2>1, <2>2, <2>3
<1>18. CASE ReadHistory(h)
  <2>1. HalfClosed(e, job[h].old) /\ job[h].old \in RealKeys /\ job[h].old \in Keys
    BY <1>3, <1>18 DEF ReadHistory, At, HalfClosed, RealKeys
  <2>2. Exists(caseRows, job[h].old)
    BY <1>1, <1>18 DEF ReadHistory, StoreInv, Backed, Copying
  <2>3. /\ Same /\ pc'[h] = "repairStranded"
        /\ job' = [job EXCEPT ![h].oldRow = caseRows[job[h].old]]
    BY <1>1, <1>18, <2>2 DEF ReadHistory, Goto, stores
  <2>4. job'[h].old = job[h].old /\ job'[h].oldRow = caseRows'[job'[h].old]
    BY <1>1, <2>3 DEF Jobs
  <2>5. HalfClosed(e, job[h].old)'
    BY <1>7, <2>1, <2>3, <2>4 DEF HalfClosed, Absent
  <2>. QED BY <1>2, <1>3, <1>7, <2>3, <2>4, <2>5 DEF At
<1>19. CASE RepairStranded(h)
  <2>1. /\ HalfClosed(e, job[h].old) /\ job[h].old \in RealKeys
        /\ job[h].oldRow = caseRows[job[h].old]
    BY <1>3, <1>19 DEF RepairStranded, At, HalfClosed
  <2>2. pc'[h] = "createCase" /\ job' = job /\ caseRows' = caseRows /\ Vacated(e)'
    BY <1>1, <1>19, <2>1, RepairsStranded
  <2>3. Before(e)'
    BY <2>2 DEF Vacated, Before
  <2>. QED BY <1>2, <1>3, <2>1, <2>2, <2>3, StagesApart DEF At, Stage, CaseRowsAskedFor
<1>20. CASE CreateCase(h)
  <2>1. Vacated(e) /\ job[h].target = Appointment(e)
    BY <1>3, <1>5, <1>20 DEF CreateCase, At, Creating
  <2>2. /\ pc'[h] = "createTrustee" /\ HalfOpened(e)'
        /\ caseRows'[Appointment(e)] = [id |-> job'[h].newId, open |-> TRUE]
        /\ \A l \in Keys : l # Appointment(e) => caseRows'[l] = caseRows[l]
    BY <1>1, <1>20, <2>1, CreatesCase
  <2>3. CaseRowsAskedFor'
    <3> SUFFICES ASSUME NEW k \in Keys, Exists(caseRows', k)
                 PROVE  \E d \in Events : deliveries'[d] > 0 /\ k = Appointment(d)
      BY DEF CaseRowsAskedFor
    <3>1. CASE k = Appointment(e)
      BY <1>2, <1>6, <3>1
    <3>2. CASE k # Appointment(e)
      BY <1>2, <1>3, <2>2, <3>2 DEF CaseRowsAskedFor, Exists
    <3>. QED BY <3>1, <3>2
  <2>. QED BY <1>2, <1>3, <2>1, <2>2, <2>3, StagesApart DEF At, Stage
<1>21. CASE CreateTrustee(h)
  <2>1. /\ HalfOpened(e) /\ job[h].target = Appointment(e) /\ ~job[h].soft
        /\ caseRows[Appointment(e)] = [id |-> job[h].newId, open |-> TRUE]
    BY <1>3, <1>5, <1>21 DEF CreateTrustee, At, Creating
  <2>2. pc'[h] = "notifyOpen" /\ job' = job /\ caseRows' = caseRows /\ Held(e)'
    BY <1>1, <1>21, <2>1, CreatesTrustee
  <2>. QED BY <1>2, <1>3, <2>2 DEF At, Stage, CaseRowsAskedFor
<1>22. CASE NotifyOpen(h)
  <2>1. Same /\ pc'[h] = "saveVariation" /\ Held(e)
    BY <1>1, <1>3, <1>22 DEF NotifyOpen, Goto, stores, At
  <2>. QED BY <1>2, <1>3, <1>7, <2>1 DEF At
<1>23. CASE SaveVariation(h)
  <2>1. Same /\ pc'[h] = "finish" /\ Held(e) /\ ~job[h].soft
    BY <1>1, <1>3, <1>23 DEF SaveVariation, Finish, Goto, stores, At
  <2>2. job'[h].result = "success"
    BY <1>1, <1>23, <2>1 DEF SaveVariation, Finish, Jobs
  <2>. QED BY <1>2, <1>3, <1>7, <2>1, <2>2 DEF At
<1>. QED BY <1>4, <1>8, <1>9, <1>10, <1>11, <1>12, <1>13, <1>14, <1>15, <1>16, <1>17, <1>18,
            <1>19, <1>20, <1>21, <1>22, <1>23 DEF HandlerStep

(* The steps of OrderInv, one by one.  An attempt starts ... *)
LEMMA OrderlyDeliver ==
  ASSUME OneHandler, Dated, OrderContext, OrderInv, InOrder,
         NEW h \in Handlers, NEW e \in Events, Deliver(h, e)
  PROVE  caseRecord' = "moved" \/ Orderly'
<1>1. /\ TypeInv /\ StoreInv
      /\ job \in [Handlers -> Jobs] /\ pc \in [Handlers -> Labels]
      /\ deliveries \in [Events -> 0..MaxDeliveries]
      /\ \A d \in Events : outcome[d] = "handled" => caseRecord = "moved"
  BY DEF OrderContext, AloneInvariant, TypeInv, TypeOK, MatchInv
<1>2. /\ UNCHANGED <<caseRecord, caseRows, trusteeRows, outcome>>
      /\ deliveries' = [deliveries EXCEPT ![e] = @ + 1]
      /\ job' = [job EXCEPT ![h] = NewJob(e)] /\ pc' = [pc EXCEPT ![h] = "match"]
      /\ pc[h] = "idle"
  BY DEF Deliver, Goto, stores
<1>3. deliveries'[e] > 0 /\ \A d \in Events \ {e} : deliveries'[d] = deliveries[d]
  BY <1>1, <1>2
<1>4. /\ outcome[e] \notin {"dlq", "successWithDlq"}
      /\ \A d \in Events \ {e} :
           IF Date(d) < Date(e) THEN outcome[d] \in {"success", "handled"}
                                ELSE deliveries[d] = 0
  <2>1. Taken(e)
    BY <1>1, <1>2 DEF Taken
  <2>. QED BY <2>1 DEF InOrder
<1>5. CASE caseRecord = "moved"
  BY <1>2, <1>5
<1>6. CASE caseRecord # "moved"
  <2>1. \A d \in Events \ {e} : deliveries[d] > 0 => Date(d) < Date(e) /\ outcome[d] = "success"
    BY <1>1, <1>4, <1>6
  <2>2. ~Stopped /\ ~SoftFailed
    <3>1. \A g \in Handlers : pc[g] = "idle"
      BY <1>2 DEF OneHandler
    <3>2. \A d \in Events : outcome[d] \notin {"dlq", "successWithDlq"}
      BY <1>4, <2>1 DEF OrderInv
    <3>. QED BY <3>1, <3>2 DEF Stopped, SoftFailed
  <2>3. Orderly
    BY <1>6, <2>2 DEF OrderInv
  <2>4. Latest(e)'
    BY <1>3, <2>1 DEF Latest
  <2>5. UNCHANGED <<OpenReal, OpenTrustee>> /\ \A d \in Events : Absent(d)' = Absent(d)
    BY <1>2 DEF OpenReal, OpenTrustee, Absent
  <2>6. Stage(e) /\ (outcome[e] = "success" => Held(e))
    <3>1. CASE deliveries[e] > 0
      BY <2>1, <2>3, <3>1 DEF Orderly, Latest
    <3>2. CASE ~(deliveries[e] > 0)
      <4>1. outcome[e] = "none"
        BY <3>2 DEF OrderInv
      <4>2. Absent(e)
        <5> SUFFICES ASSUME Exists(caseRows, Appointment(e)) PROVE FALSE
          BY DEF Absent
        <5>1. PICK d \in Events : deliveries[d] > 0 /\ Appointment(e) = Appointment(d)
          BY <2>3, DatedFacts DEF Orderly, CaseRowsAskedFor
        <5>2. d # e /\ Date(d) = Date(e)
          BY <3>2, <5>1, DatedFacts
        <5>. QED BY <2>1, <5>1, <5>2, DatedFacts
      <4>3. CASE \A d \in Events : ~(deliveries[d] > 0)
        <5>1. \A k \in Keys : ~Exists(caseRows, k)
          BY <2>3, <4>3 DEF Orderly, CaseRowsAskedFor
        <5>2. OpenReal = {} /\ OpenTrustee = {}
          BY <1>1, <5>1 DEF OpenReal, OpenTrustee, RealKeys, StoreInv, RowsInv,
                            OpenRowsExist, TrusteeCopiesHaveCaseCopy
        <5>. QED BY <4>1, <4>2, <5>2 DEF Stage, Before
      <4>4. CASE \E d \in Events : deliveries[d] > 0
        <5>1. PICK d \in Events : Latest(d)
          BY <2>3, <4>4 DEF Orderly, EventsInOrder
        <5>2. Held(d)
          BY <2>1, <2>3, <3>2, <5>1 DEF Orderly, Latest
        <5>3. PICK k \in RealKeys : OpenReal = {k} /\ OpenTrustee = {k}
          BY <5>2 DEF Held
        <5>. QED BY <4>1, <4>2, <5>3 DEF Stage, Before, Held
      <4>. QED BY <4>3, <4>4
    <3>. QED BY <3>1, <3>2
  <2>7. (Stage(e) /\ (outcome[e] = "success" => Held(e)))'
    BY <1>2, <2>5, <2>6 DEF Stage, Held, Before, HalfOpened, HalfClosed
  <2>8. EventsInOrder'
    <3>1. \A d \in Events \ {e} : deliveries'[d] > 0 => outcome'[d] = "success"
      BY <1>2, <1>3, <2>1
    <3>2. pc'[h] # "idle" /\ job'[h].event = e
      BY <1>1, <1>2 DEF NewJob
    <3>. QED BY <1>2, <2>3, <2>4, <3>1, <3>2 DEF Orderly, EventsInOrder
  <2>9. CaseRowsAskedFor'
    BY <1>2, <1>3, <2>3 DEF Orderly, CaseRowsAskedFor
  <2>10. \A d \in Events : Latest(d)' => d = e
    BY <1>3, <2>1, <2>4, DatedFacts DEF Latest
  <2>11. ASSUME NEW g \in Handlers PROVE At(job[g], pc[g])'
    <3>1. pc'[g] = "match" /\ job'[g].event = e /\ ~job'[g].soft
      BY <1>1, <1>2 DEF OneHandler, NewJob
    <3>. QED BY <2>4, <3>1 DEF At
  <2>. QED BY <2>7, <2>8, <2>9, <2>10, <2>11 DEF Orderly
<1>. QED BY <1>5, <1>6

(* ... goes on ... *)
LEMMA OrderlyStep ==
  ASSUME OneHandler, Dated, AllMatch, OrderContext, Orderly, caseRecord # "moved",
         NEW h \in Handlers, HandlerStep(h), ~Report(h)
  PROVE  SoftFailed' \/ Orderly'
<1> DEFINE e == job[h].event
<1>1. /\ TypeInv /\ job[h] \in Jobs /\ e \in Events
  BY DEF OrderContext, AloneInvariant, TypeInv, TypeOK, Jobs
<1>2. /\ UNCHANGED <<deliveries, outcome>>
      /\ pc[h] # "idle" /\ pc'[h] # "idle" /\ job'[h].event = e
  BY <1>1, Kept
<1>3. CASE job'[h].soft
  BY <1>2, <1>3 DEF SoftFailed
<1>4. CASE ~job'[h].soft
  <2>1. At(job[h], pc[h])' /\ CaseRowsAskedFor'
    BY <1>1, <1>4, OrderlyMover
  <2>2. PICK d \in Events : d = e
    BY <1>1
  <2>3. Stage(d)' /\ (Held(d) => Held(d)')
    BY <1>4, <2>2, OrderlyMover
  <2>4. \A c \in Events : Latest(c)' => Latest(c)
    BY <1>2 DEF Latest
  <2>5. Latest(d)
    BY <1>2, <2>2 DEF Orderly, At
  <2>6. ASSUME NEW c \in Events, Latest(c)'
        PROVE  (Stage(c) /\ (outcome[c] = "success" => Held(c)))'
    <3>1. c = d
      BY <2>4, <2>5, <2>6, OneLatest
    <3>2. outcome'[c] = "success" => Held(d)
      BY <1>2, <2>5, <3>1 DEF Orderly
    <3>. QED BY <2>3, <3>1, <3>2
  <2>7. EventsInOrder'
    <3>1. \A g \in Handlers : pc[g] # "idle" /\ job[g].event = e
      BY <1>2 DEF OneHandler
    <3>2. \A c \in Events : Latest(c)' <=> Latest(c)
      BY <1>2 DEF Latest
    <3>. QED BY <1>2, <3>1, <3>2 DEF Orderly, EventsInOrder, OneHandler
  <2>8. \A g \in Handlers : At(job[g], pc[g])'
    BY <2>1 DEF OneHandler
  <2>. QED BY <2>1, <2>6, <2>7, <2>8 DEF Orderly
<1>. QED BY <1>3, <1>4

(* ... and ends, as it reports or breaks off. *)
LEMMA OrderlyEnd ==
  ASSUME OneHandler, Dated, OrderContext, OrderInv, Reported, caseRecord # "moved",
         NEW h \in Handlers, Report(h) \/ \E kind \in FaultKinds : Abort(h, kind)
  PROVE  Stopped' \/ Orderly'
<1> DEFINE e == job[h].event
<1>1. /\ job \in [Handlers -> Jobs] /\ pc \in [Handlers -> Labels] /\ e \in Events
      /\ outcome \in [Events -> Outcomes] /\ deliveries \in [Events -> 0..MaxDeliveries]
  BY DEF OrderContext, AloneInvariant, TypeInv, TypeOK, Jobs
<1>2. /\ UNCHANGED <<deliveries, caseRows, trusteeRows>>
      /\ pc[h] # "idle" /\ pc' = [pc EXCEPT ![h] = "idle"]
      /\ \E r : outcome' = [outcome EXCEPT ![e] = r]
  BY DEF Report, Abort, Goto, stores, EventAt
<1>3. \A g \in Handlers : pc'[g] = "idle"
  BY <1>1, <1>2 DEF OneHandler
<1>4. CASE job[h].soft
  <2>1. outcome'[e] = "successWithDlq"
    BY <1>3, <1>4 DEF Reported, EventAt
  <2>. QED BY <1>1, <1>3, <2>1 DEF Stopped
<1>5. CASE ~job[h].soft
  <2>1. Orderly
    BY <1>2, <1>5 DEF OrderInv, Stopped, SoftFailed, OneHandler
  <2>2. Latest(e) /\ Stage(e) /\ At(job[h], pc[h])
    BY <1>1, <1>2, <2>1 DEF Orderly, At
  <2>3. CASE outcome'[e] \in {"dlq", "successWithDlq"}
    BY <1>1, <1>3, <2>3 DEF Stopped
  <2>4. CASE outcome'[e] \notin {"dlq", "successWithDlq"}
    <3>1. /\ outcome'[e] \in {"success", "notYetSynced", "retryable", "crashed"}
          /\ outcome'[e] = "success" => Held(e)
      <4>1. CASE Report(h)
        BY <1>1, <2>2, <4>1 DEF Report, EventAt, At
      <4>2. ASSUME NEW kind \in FaultKinds, Abort(h, kind)
            PROVE  outcome'[e] \in {"retryable", "crashed"}
        BY <1>1, <2>4, <4>2 DEF Abort, EventAt, FaultKinds
      <4>. QED BY <4>1, <4>2
    <3>2. \A d \in Events : d # e => outcome'[d] = outcome[d]
      BY <1>1, <1>2
    <3>3. /\ UNCHANGED <<OpenReal, OpenTrustee>>
          /\ \A d \in Events : Absent(d)' = Absent(d) /\ Latest(d)' = Latest(d)
      BY <1>2 DEF OpenReal, OpenTrustee, Absent, Latest
    <3>4. \A d \in Events : Stage(d)' = Stage(d) /\ Held(d)' = Held(d)
      BY <1>2, <3>3 DEF Stage, Held, Before, HalfOpened, HalfClosed
    <3>5. EventsInOrder'
      <4>1. \A d \in Events : outcome'[d] = "none" => ~(deliveries[d] > 0)
        BY <1>2, <2>1, <3>1, <3>2 DEF Orderly, EventsInOrder, OneHandler
      <4>. QED BY <1>2, <2>1, <2>2, <3>1, <3>2, <3>3, <4>1 DEF Orderly, EventsInOrder
    <3>6. CaseRowsAskedFor'
      BY <1>2, <2>1 DEF Orderly, CaseRowsAskedFor
    <3>7. \A d \in Events : Latest(d)' => (Stage(d) /\ (outcome[d] = "success" => Held(d)))'
      BY <2>1, <3>1, <3>2, <3>3, <3>4 DEF Orderly
    <3>. QED BY <1>3, <3>5, <3>6, <3>7 DEF Orderly
  <2>. QED BY <2>3, <2>4
<1>. QED BY <1>4, <1>5

LEMMA OrderInit == Init => OrderInv
  BY DEF Init, OrderInv, Orderly, EventsInOrder, CaseRowsAskedFor, Latest, Exists, NoRow

LEMMA OrderUntouched ==
  ASSUME UNCHANGED <<caseRows, trusteeRows, deliveries, outcome, pc, job>>
  PROVE  Stopped' = Stopped /\ SoftFailed' = SoftFailed /\ Orderly' = Orderly
<1>1. UNCHANGED <<OpenReal, OpenTrustee>> /\ \A e : Absent(e)' = Absent(e)
  BY DEF OpenReal, OpenTrustee, Absent
<1>2. \A e : /\ Latest(e)' = Latest(e) /\ Held(e)' = Held(e) /\ Before(e)' = Before(e)
             /\ HalfOpened(e)' = HalfOpened(e) /\ Vacated(e)' = Vacated(e)
             /\ \A k : HalfClosed(e, k)' = HalfClosed(e, k)
  BY <1>1 DEF Latest, Held, Before, HalfOpened, Vacated, HalfClosed
<1>3. \A h \in Handlers : At(job[h], pc[h])' = At(job[h], pc[h])
  BY <1>1, <1>2 DEF At
<1>4. \A e : Stage(e)' = Stage(e)
  BY <1>2 DEF Stage
<1>5. EventsInOrder' = EventsInOrder /\ CaseRowsAskedFor' = CaseRowsAskedFor
  BY <1>2 DEF EventsInOrder, CaseRowsAskedFor
<1>. QED BY <1>2, <1>3, <1>4, <1>5 DEF Orderly, Stopped, SoftFailed

LEMMA OrderStep ==
  ASSUME OneHandler, Dated, AllMatch, OrderContext, OrderInv, [InOrderNext]_vars
  PROVE  OrderInv'
<1>1. /\ TypeInv /\ AloneInv
      /\ job \in [Handlers -> Jobs] /\ pc \in [Handlers -> Labels]
      /\ outcome \in [Events -> Outcomes] /\ deliveries \in [Events -> 0..MaxDeliveries]
  BY DEF OrderContext, AloneInvariant, TypeInv, TypeOK
<1>2. CASE UNCHANGED vars
  <2>1. UNCHANGED <<caseRecord, caseRows, trusteeRows, deliveries, outcome, pc, job>>
    BY <1>2 DEF vars, stores
  <2>. QED BY <2>1, OrderUntouched DEF OrderInv
<1>3. CASE InOrderNext
  <2>1. Next /\ InOrder /\ Reported
    BY <1>3 DEF InOrderNext
  <2>2. \A e \in Events : outcome'[e] # "none" => deliveries'[e] > 0
    <3>1. CASE UNCHANGED outcome
      <4>1. \A e \in Events : deliveries'[e] >= deliveries[e]
        <5>1. CASE UNCHANGED deliveries
          BY <1>1, <5>1
        <5>2. ASSUME NEW h \in Handlers, NEW d \in Events, Deliver(h, d)
              PROVE  \A e \in Events : deliveries'[e] >= deliveries[e]
          BY <1>1, <5>2 DEF Deliver
        <5>3. ASSUME NEW h \in Handlers, HandlerStep(h) PROVE UNCHANGED deliveries
          BY <1>1, <5>3, Kept DEF Report
        <5>. QED BY <2>1, <5>1, <5>2, <5>3 DEF Next, SyncCase, MoveCase, EndPage, LosePage, Abort
      <4>2. deliveries' \in [Events -> 0..MaxDeliveries]
        BY <1>1, <2>1, TypeStep DEF TypeInv, TypeOK
      <4>. QED BY <1>1, <3>1, <4>1, <4>2 DEF OrderInv
    <3>2. ASSUME NEW h \in Handlers, Report(h) \/ \E kind \in FaultKinds : Abort(h, kind)
          PROVE  \A e \in Events : outcome'[e] # "none" => deliveries'[e] > 0
      <4>1. /\ UNCHANGED deliveries /\ pc[h] # "idle"
            /\ \E r : outcome' = [outcome EXCEPT ![job[h].event] = r]
        BY <3>2 DEF Report, Abort, EventAt
      <4>2. deliveries[job[h].event] > 0
        BY <1>1, <4>1 DEF AloneInv, Alone
      <4>. QED BY <1>1, <4>1, <4>2 DEF OrderInv
    <3>3. ASSUME NEW h \in Handlers, HandlerStep(h), ~Report(h) PROVE UNCHANGED outcome
      BY <1>1, <3>3, Kept
    <3>. QED BY <2>1, <3>1, <3>2, <3>3 DEF Next, SyncCase, MoveCase, Deliver, EndPage, LosePage
  <2>3. caseRecord = "moved" => caseRecord' = "moved"
    <3>1. ASSUME NEW h \in Handlers, HandlerStep(h) PROVE UNCHANGED caseRecord
      BY <1>1, <3>1, Kept DEF Report
    <3>. QED BY <2>1, <3>1 DEF Next, SyncCase, MoveCase, Deliver, Abort, EndPage, LosePage
  <2> SUFFICES ASSUME caseRecord # "moved", Stopped \/ SoftFailed \/ Orderly
               PROVE  caseRecord' = "moved" \/ Stopped' \/ SoftFailed' \/ Orderly'
    BY <2>2, <2>3 DEF OrderInv
  <2>4. ASSUME NEW h \in Handlers, NEW e \in Events, Deliver(h, e)
        PROVE  caseRecord' = "moved" \/ Orderly'
    BY <2>1, <2>4, OrderlyDeliver
  <2>5. ASSUME NEW h \in Handlers, Report(h) \/ \E kind \in FaultKinds : Abort(h, kind)
        PROVE  Stopped' \/ Orderly'
    BY <2>1, <2>5, OrderlyEnd
  <2>6. ASSUME NEW h \in Handlers, HandlerStep(h), ~Report(h)
        PROVE  SoftFailed' \/ Orderly'
    <3>1. pc[h] # "idle" /\ pc'[h] # "idle" /\ (job[h].soft => job'[h].soft)
      BY <1>1, <2>6, Kept
    <3>2. CASE job[h].soft
      BY <3>1, <3>2 DEF SoftFailed
    <3>3. CASE ~job[h].soft
      <4>1. Orderly
        BY <3>1, <3>3 DEF Stopped, SoftFailed, OneHandler
      <4>. QED BY <2>6, <4>1, OrderlyStep
    <3>. QED BY <3>2, <3>3
  <2>7. CASE SyncCase \/ MoveCase \/ \E h \in Handlers : EndPage(h) \/ LosePage(h)
    <3>1. UNCHANGED <<caseRows, trusteeRows, deliveries, outcome, pc, job>>
      BY <2>7 DEF SyncCase, MoveCase, EndPage, LosePage, stores
    <3>. QED BY <3>1, OrderUntouched
  <2>. QED BY <2>1, <2>4, <2>5, <2>6, <2>7 DEF Next
<1>. QED BY <1>2, <1>3

OrderInvariant == OrderContext /\ OrderInv

LEMMA OrderHolds ==
  ASSUME OneHandler, Dated, AllMatch PROVE InOrderSpec => []OrderInvariant
<1>1. Init => OrderInvariant
  BY TypeInit, AloneInit, StoreInit, ServedInit, OrderInit
     DEF OrderInvariant, OrderContext, AloneInvariant
<1>2. OrderInvariant /\ [InOrderNext]_vars => OrderInvariant'
  <2> SUFFICES ASSUME OrderInvariant, [InOrderNext]_vars PROVE OrderInvariant'
    OBVIOUS
  <2>1. [Next]_vars
    BY DEF InOrderNext
  <2>. QED BY <2>1, TypeStep, AloneStep, StoreStep, MatchStep, OrderStep
           DEF OrderInvariant, OrderContext, AloneInvariant
<1>. QED BY <1>1, <1>2, PTL DEF InOrderSpec, InOrderNext

(* When everything is settled the latest event that was taken is done.     *)
LEMMA SettledIsHeld ==
  ASSUME OrderInvariant, AllSettled
  PROVE  /\ EventsInOrder /\ CaseRowsAskedFor
         /\ \A e \in Events : deliveries[e] > 0 => outcome[e] = "success"
         /\ \A e \in Events : Latest(e) => Held(e)
<1>1. \A h \in Handlers : pc[h] = "idle"
  BY DEF AllSettled, Quiet
<1>2. \A e \in Events : outcome[e] \in {"none", "success", "handled"}
  BY DEF AllSettled, Settled
<1>3. Orderly
  BY <1>1, <1>2 DEF OrderInvariant, OrderInv, AllSettled, Stopped, SoftFailed
<1>4. \A e \in Events : deliveries[e] > 0 => outcome[e] = "success"
  BY <1>1, <1>2, <1>3 DEF Orderly, EventsInOrder
<1>. QED BY <1>3, <1>4 DEF Orderly, Latest

(* However often calls failed and hosts stopped between the writes of the  *)
(* two: events taken in order leave both partitions with the same active   *)
(* appointment ...                                                         *)
THEOREM PartitionsInAgreement ==
  OneHandler /\ Dated /\ AllMatch => (InOrderSpec => []PartitionsAgree)
<1> SUFFICES ASSUME OneHandler, Dated, AllMatch PROVE InOrderSpec => []PartitionsAgree
  OBVIOUS
<1>1. OrderInvariant => PartitionsAgree
  <2> SUFFICES ASSUME OrderInvariant, AllSettled, NEW k \in RealKeys
               PROVE  trusteeRows[k].open <=> caseRows[k].open
    BY DEF PartitionsAgree
  <2>1. k \in Keys /\ TypeInv /\ StoreInv
    BY DEF RealKeys, OrderInvariant, OrderContext, AloneInvariant
  <2>2. /\ caseRows[k].open \in BOOLEAN /\ trusteeRows[k].open \in BOOLEAN
        /\ caseRows[k].open <=> k \in OpenReal
        /\ trusteeRows[k].open <=> k \in OpenTrustee
    BY <2>1 DEF OpenReal, OpenTrustee, TypeInv, TypeOK, Row
  <2>3. CASE \E e \in Events : Latest(e)
    BY <2>2, <2>3, SettledIsHeld DEF Held
  <2>4. CASE ~\E e \in Events : Latest(e)
    <3>1. ~Exists(caseRows, k)
      BY <2>1, <2>4, SettledIsHeld DEF EventsInOrder, CaseRowsAskedFor
    <3>. QED BY <2>1, <2>2, <3>1 DEF StoreInv, RowsInv, OpenRowsExist, TrusteeCopiesHaveCaseCopy
  <2>. QED BY <2>3, <2>4
<1>. QED BY <1>1, OrderHolds, PTL

(* ... and it is that of the trustee the court appointed last. *)
THEOREM LatestWins ==
  OneHandler /\ Dated /\ AllMatch => (InOrderSpec => []LatestEventWins)
<1> SUFFICES ASSUME OneHandler, Dated, AllMatch PROVE InOrderSpec => []LatestEventWins
  OBVIOUS
<1>1. OrderInvariant => LatestEventWins
  <2> SUFFICES ASSUME OrderInvariant, AllSettled, NEW e \in Events, outcome[e] = "success",
                      \A other \in Events \ {e} :
                        outcome[other] = "success" => Date(other) < Date(e)
               PROVE  \E k \in OpenReal : k.holder = Trustee(e)
    BY DEF LatestEventWins
  <2>1. deliveries[e] > 0
    BY DEF OrderInvariant, OrderInv
  <2>2. Latest(e)
    BY <2>1, SettledIsHeld DEF Latest
  <2>3. Held(e)
    BY <2>2, SettledIsHeld
  <2>. QED BY <2>3 DEF Held
<1>. QED BY <1>1, OrderHolds, PTL
=============================================================================
