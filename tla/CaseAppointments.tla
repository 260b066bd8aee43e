-------------------------- MODULE CaseAppointments --------------------------
(***************************************************************************)
(* The appointment of a trustee to ONE case, as the trustee-appointment    *)
(* sync maintains it.  An appointment is kept twice: in                    *)
(* case-trustee-appointments (partitioned by case) and in                  *)
(* trustee-case-appointments (partitioned by trustee).  The two copies are *)
(* written one after the other, with no transaction, by handlers that may  *)
(* be interrupted between any two awaited calls, delivered again, and run  *)
(* beside each other.  Every operation reads and writes the rows of one    *)
(* case only, so one case is modelled.                                     *)
(*                                                                         *)
(* One action stands for one awaited call of                               *)
(*   use-cases/dataflows/sync-trustee-case-appointments.ts                 *)
(* on the stores of                                                        *)
(*   adapters/gateways/mongo/trustee-case-appointments.mongo.repository.ts.*)
(***************************************************************************)
EXTENDS Naturals, FiniteSets

CONSTANTS
  Trustees,       \* CAMS trustee ids
  Fingerprints,   \* digests of DXTR trustee demographics; a surrogate row
                  \* carries one in place of a trustee id
  Dates,          \* court appointment dates, ordered
  NoDate,         \* a blank or malformed DXTR date
  NoKey,          \* no row
  Events,         \* TrusteeAppointmentSyncEvents of the case
  EventOf,        \* [Events -> [fingerprint, appointedDate]]
  ResolvedTo,     \* [Fingerprints -> Trustees]: what name matching resolves to
  Matched,        \* the fingerprints that may match perfectly
  Unmatched,      \* the fingerprints that may not; a fingerprint is in both
                  \* when the trustee's own record changes between attempts
  CaseLife,       \* the states the synced case passes through
  Handlers,       \* concurrent invocations of handlePage
  SharedPages,    \* whether a page holds more than one event
  Faults,         \* subset of FaultKinds that may happen
  MaxDeliveries   \* bound: how often one event is processed

FaultKinds == {"transient", "permanent", "crash"}

Holders == Trustees \cup Fingerprints
Keys    == [holder : Holders, assignedOn : Dates]

ASSUME StoreAssumption ==
  /\ Trustees \cap Fingerprints = {}
  /\ Dates \subseteq Nat
  /\ NoDate \notin Dates
  /\ NoKey \notin Keys

ASSUME EventAssumption ==
  /\ EventOf \in [Events -> [fingerprint   : Fingerprints,
                             appointedDate : Dates \cup {NoDate}]]
  /\ ResolvedTo \in [Fingerprints -> Trustees]
  /\ Matched \subseteq Fingerprints
  /\ Unmatched \subseteq Fingerprints

ASSUME HandlerAssumption ==
  /\ Events # {}
  /\ CaseLife \subseteq {"missing", "synced", "moved"}
  /\ Faults \subseteq FaultKinds
  /\ SharedPages \in BOOLEAN
  /\ MaxDeliveries \in Nat

VARIABLES
  caseRecord,   \* what getCaseOrMovedCase finds for the case
  caseRows,     \* case-trustee-appointments, by natural key
  trusteeRows,  \* trustee-case-appointments, by natural key
  nextId,       \* source of randomUUID() document ids
  pending,      \* fingerprints with a pending TrusteeMatchVerification
  variations,   \* fingerprints with a TRUSTEE_VARIATION
  outbox,       \* the message each invocation has set on its output binding
  downstream,   \* messages put on the trustee-appointment-event queue
  deliveries,   \* how often each event has been handed to a handler
  outcome,      \* how the last finished attempt at each event ended
  pc,           \* the call each handler is about to make
  job           \* its local variables

stores == <<caseRows, trusteeRows, nextId>>
review == <<pending, variations>>
output == <<outbox, downstream>>
vars   == <<caseRecord, stores, review, output, deliveries, outcome, pc, job>>

-----------------------------------------------------------------------------
(* A row is its document id and whether unassignedOn is still unset.  The  *)
(* id 0 stands for "no document".                                          *)

Row    == [id : Nat, open : BOOLEAN]
NoRow  == [id |-> 0, open |-> FALSE]
Exists(rows, k) == rows[k].id # 0

RealKeys == {k \in Keys : k.holder \in Trustees}
(* Variant: getActiveByCaseId without its isSurrogate condition. *)
OpenAny == {k \in Keys : caseRows[k].open}

OpenReal == {k \in RealKeys : caseRows[k].open}

Outcomes == {"none", "success", "successWithDlq", "handled", "notYetSynced",
             "retryable", "crashed", "dlq"}

Labels == {"idle", "match", "verify", "readSurrogate", "readActive",
           "checkTrustee", "repairTrustee", "closeCase", "closeTrustee",
           "notifyClose", "findStranded", "readHistory", "repairStranded",
           "createCase", "createTrustee", "notifyOpen", "saveVariation",
           "finish"}

Jobs == [event   : Events,
         target  : Keys \cup {NoKey},   \* natural key of the row to create
         old     : Keys \cup {NoKey},   \* existingAppointment, or strandedRow
         oldRow  : Row,                 \* the document read for it
         newId   : Nat,                 \* id given to the case copy
         soft    : BOOLEAN,             \* the soft-close failed for good
         result  : Outcomes]

NewJob(e) == [event |-> e, target |-> NoKey, old |-> NoKey, oldRow |-> NoRow,
              newId |-> 0, soft |-> FALSE, result |-> "none"]
IdleJob == NewJob(CHOOSE e \in Events : TRUE)

Messages == [kind : {"open", "close"}, key : Keys]

Fingerprint(e) == EventOf[e].fingerprint
Trustee(e)     == ResolvedTo[Fingerprint(e)]
Date(e)        == EventOf[e].appointedDate
EventAt(h)     == job[h].event

(* The row an event leads to: the trustee's, or the surrogate's. *)
Appointment(e) == [holder |-> Trustee(e), assignedOn |-> Date(e)]
Surrogate(e)   == [holder |-> Fingerprint(e), assignedOn |-> Date(e)]

Goto(h, label) == pc' = [pc EXCEPT ![h] = label]

Finish(h, result) ==
  /\ Goto(h, "finish")
  /\ job' = [job EXCEPT ![h].result = result]

Init ==
  /\ caseRecord  = IF "missing" \in CaseLife THEN "missing" ELSE "synced"
  /\ caseRows    = [k \in Keys |-> NoRow]
  /\ trusteeRows = [k \in Keys |-> NoRow]
  /\ nextId      = 1
  /\ pending     = {}
  /\ variations  = {}
  /\ outbox      = [h \in Handlers |-> {}]
  /\ downstream  = {}
  /\ deliveries  = [e \in Events |-> 0]
  /\ outcome     = [e \in Events |-> "none"]
  /\ pc          = [h \in Handlers |-> "idle"]
  /\ job         = [h \in Handlers |-> IdleJob]

-----------------------------------------------------------------------------
(* The case is loaded by sync-cases, and may be moved to another case id.  *)

SyncCase ==
  /\ caseRecord = "missing"
  /\ caseRecord' = "synced"
  /\ UNCHANGED <<stores, review, output, deliveries, outcome, pc, job>>

MoveCase ==
  /\ caseRecord = "synced"
  /\ "moved" \in CaseLife
  /\ caseRecord' = "moved"
  /\ UNCHANGED <<stores, review, output, deliveries, outcome, pc, job>>

(* The loop of processAppointments.  Pages are delivered at least once and *)
(* in any order, so an event may be taken at any time, a later one first.  *)

Deliver(h, e) ==
  /\ pc[h] = "idle"
  /\ deliveries[e] < MaxDeliveries
  /\ SharedPages \/ outbox[h] = {}
  /\ deliveries' = [deliveries EXCEPT ![e] = @ + 1]
  /\ job' = [job EXCEPT ![h] = NewJob(e)]
  /\ Goto(h, "match")
  /\ UNCHANGED <<caseRecord, stores, review, output, outcome>>

Report(h) ==
  /\ pc[h] = "finish"
  /\ outcome' = [outcome EXCEPT ![EventAt(h)] = job[h].result]
  /\ Goto(h, "idle")
  /\ job' = [job EXCEPT ![h] = IdleJob]
  /\ UNCHANGED <<caseRecord, stores, review, output, deliveries>>

(* Variant: a transient error counts as handled. *)
AbortQuietly(h, kind) ==
  /\ pc[h] \notin {"idle", "finish"}
  /\ kind \in Faults
  /\ outcome' = [outcome EXCEPT ![EventAt(h)] = "handled"]
  /\ Goto(h, "idle")
  /\ job' = [job EXCEPT ![h] = IdleJob]
  /\ UNCHANGED <<caseRecord, stores, review, output, deliveries>>

(* An awaited call throws, or the host stops.  A call that throws after it *)
(* took effect is the call's own action followed by this one.  A permanent *)
(* failure of the two soft-close writes is caught: see SoftCloseFails.     *)
Abort(h, kind) ==
  /\ pc[h] # "idle"
  /\ kind \in Faults
  /\ kind = "permanent" => pc[h] \notin {"closeCase", "closeTrustee", "finish"}
  /\ kind = "transient" => pc[h] # "finish"
  /\ outcome' = [outcome EXCEPT ![EventAt(h)] =
                   CASE kind = "transient" -> "retryable"
                     [] kind = "permanent" -> "dlq"
                     [] kind = "crash"     -> "crashed"]
  /\ Goto(h, "idle")
  /\ job' = [job EXCEPT ![h] = IdleJob]
  /\ outbox' = IF kind = "crash" THEN [outbox EXCEPT ![h] = {}] ELSE outbox
  /\ UNCHANGED <<caseRecord, stores, review, downstream, deliveries>>

(* Between two events of a page: the invocation returns and its message is *)
(* queued, it fails and the message is lost, or an event of another case   *)
(* sets a message in its place.                                            *)
EndPage(h) ==
  /\ pc[h] = "idle"
  /\ outbox[h] # {}
  /\ downstream' = downstream \cup outbox[h]
  /\ outbox' = [outbox EXCEPT ![h] = {}]
  /\ UNCHANGED <<caseRecord, stores, review, deliveries, outcome, pc, job>>

LosePage(h) ==
  /\ pc[h] = "idle"
  /\ outbox[h] # {}
  /\ SharedPages \/ "crash" \in Faults
  /\ outbox' = [outbox EXCEPT ![h] = {}]
  /\ UNCHANGED <<caseRecord, stores, review, downstream, deliveries, outcome, pc, job>>

-----------------------------------------------------------------------------
(* processOneEvent up to the point where a branch is chosen: the lookups   *)
(* of variation, synced case, pending verification, names and scores only  *)
(* read other stores; their verdict is free within what they read.         *)

SkipEvent(h) ==
  /\ pc[h] = "match"
  /\ caseRecord # "synced"
  /\ Finish(h, IF caseRecord = "missing" THEN "notYetSynced" ELSE "handled")
  /\ UNCHANGED <<caseRecord, stores, review, output, deliveries, outcome>>

(* handleVerificationBucketHit: only the surrogate is written. *)
JoinPending(h) ==
  /\ pc[h] = "match"
  /\ caseRecord = "synced"
  /\ Fingerprint(EventAt(h)) \in pending \ variations
  /\ Goto(h, "readSurrogate")
  /\ UNCHANGED <<caseRecord, stores, review, output, deliveries, outcome, job>>

MatchFails(h) ==
  /\ pc[h] = "match"
  /\ caseRecord = "synced"
  /\ Fingerprint(EventAt(h)) \in Unmatched
  /\ Fingerprint(EventAt(h)) \notin pending \ variations
  /\ Goto(h, "verify")
  /\ UNCHANGED <<caseRecord, stores, review, output, deliveries, outcome, job>>

MatchSucceeds(h) ==
  /\ pc[h] = "match"
  /\ caseRecord = "synced"
  /\ Fingerprint(EventAt(h)) \in Matched
  /\ Fingerprint(EventAt(h)) \notin pending \ variations
  /\ IF Date(EventAt(h)) = NoDate
     THEN Finish(h, "dlq")
     ELSE /\ job' = [job EXCEPT ![h].target = Appointment(EventAt(h))]
          /\ Goto(h, "readActive")
  /\ UNCHANGED <<caseRecord, stores, review, output, deliveries, outcome>>

(* upsertMatchVerification *)
SaveVerification(h) ==
  /\ pc[h] = "verify"
  /\ pending' = pending \cup {Fingerprint(EventAt(h))}
  /\ Goto(h, "readSurrogate")
  /\ UNCHANGED <<caseRecord, stores, variations, output, deliveries, outcome, job>>

(* Variant: the surrogate is looked up by its full natural key. *)
ReadSurrogateByDate(h) ==
  LET e == EventAt(h) IN
  /\ pc[h] = "readSurrogate"
  /\ IF Date(e) = NoDate THEN Finish(h, "dlq")
     ELSE IF caseRows[Surrogate(e)].open
     THEN Finish(h, "handled")
     ELSE /\ job' = [job EXCEPT ![h].target = Surrogate(e)]
          /\ Goto(h, "createCase")
  /\ UNCHANGED <<caseRecord, stores, review, output, deliveries, outcome>>

(* writeSurrogateAppointment: nothing to do when this fingerprint already  *)
(* has an active row; the row is then created by the same upsert.          *)
ReadSurrogate(h) ==
  LET e == EventAt(h) IN
  /\ pc[h] = "readSurrogate"
  /\ IF Date(e) = NoDate THEN Finish(h, "dlq")
     ELSE IF \E k \in Keys : k.holder = Fingerprint(e) /\ caseRows[k].open
     THEN Finish(h, "handled")
     ELSE /\ job' = [job EXCEPT ![h].target = Surrogate(e)]
          /\ Goto(h, "createCase")
  /\ UNCHANGED <<caseRecord, stores, review, output, deliveries, outcome>>

-----------------------------------------------------------------------------
(* applyResolvedTrustee *)

(* Variants: whoever is active stays; whoever is active is not closed. *)
KeepActive(h) ==
  /\ pc[h] = "readActive"
  /\ IF OpenReal = {}
     THEN Goto(h, "findStranded") /\ job' = job
     ELSE \E k \in OpenReal :
            /\ job' = [job EXCEPT ![h].old = k, ![h].oldRow = caseRows[k]]
            /\ Goto(h, "checkTrustee")
  /\ UNCHANGED <<caseRecord, stores, review, output, deliveries, outcome>>

IgnoreActive(h) ==
  /\ pc[h] = "readActive"
  /\ Goto(h, "findStranded")
  /\ UNCHANGED <<caseRecord, stores, review, output, deliveries, outcome, job>>

(* getActiveByCaseId: the open real row with the latest assignedOn, of the *)
(* case partition; a tie is broken by the database.                        *)
ReadActive(h) ==
  /\ pc[h] = "readActive"
  /\ IF OpenReal = {}
     THEN Goto(h, "findStranded") /\ job' = job
     ELSE \E k \in OpenReal :
            /\ \A other \in OpenReal : other.assignedOn <= k.assignedOn
            /\ job' = [job EXCEPT ![h].old = k, ![h].oldRow = caseRows[k]]
            /\ Goto(h, IF k.holder = job[h].target.holder
                       THEN "checkTrustee" ELSE "closeCase")
  /\ UNCHANGED <<caseRecord, stores, review, output, deliveries, outcome>>

(* Variant: the case partition is trusted. *)
TrustCasePartition(h) ==
  /\ pc[h] = "checkTrustee"
  /\ Goto(h, "saveVariation")
  /\ UNCHANGED <<caseRecord, stores, review, output, deliveries, outcome, job>>

(* existsInTrusteePartition: any row of the natural key will do. *)
CheckTrustee(h) ==
  /\ pc[h] = "checkTrustee"
  /\ Goto(h, IF Exists(trusteeRows, job[h].old) THEN "saveVariation"
                                                ELSE "repairTrustee")
  /\ UNCHANGED <<caseRecord, stores, review, output, deliveries, outcome, job>>

(* replaceOneInTrusteePartition with the document read from the case side. *)
(* An upsert that changes nothing is an error to the adapter's replaceOne, *)
(* if the database reports such a replacement as modifying no document.    *)
ReplaceInTrusteePartition(h, next) ==
  LET j == job[h] IN
  \/ /\ trusteeRows' = [trusteeRows EXCEPT ![j.old] = j.oldRow]
     /\ Goto(h, next)
     /\ job' = job
  \/ /\ trusteeRows[j.old] = j.oldRow
     /\ Finish(h, "dlq")
     /\ UNCHANGED trusteeRows

RepairTrustee(h) ==
  /\ pc[h] = "repairTrustee"
  /\ ReplaceInTrusteePartition(h, "saveVariation")
  /\ UNCHANGED <<caseRecord, caseRows, nextId, review, output, deliveries, outcome>>

(* softCloseExistingAppointment: updateCaseAppointment replaces by id, the *)
(* case partition first.  No document with that id is a NotFoundError,     *)
(* which is not transient.                                                 *)
SoftCloseFailed(h) ==
  /\ Goto(h, "createCase")
  /\ job' = [job EXCEPT ![h].soft = TRUE]

(* Variant: the trustee's copy is forgotten. *)
CloseCaseOnly(h) ==
  /\ pc[h] = "closeCase"
  /\ caseRows' = [caseRows EXCEPT ![job[h].old].open = FALSE]
  /\ Goto(h, "notifyClose")
  /\ UNCHANGED <<caseRecord, trusteeRows, nextId, review, output, deliveries,
                 outcome, job>>

CloseCase(h) ==
  LET j == job[h] IN
  /\ pc[h] = "closeCase"
  /\ IF caseRows[j.old].id = j.oldRow.id
     THEN /\ caseRows' = [caseRows EXCEPT ![j.old].open = FALSE]
          /\ Goto(h, "closeTrustee")
          /\ job' = job
     ELSE SoftCloseFailed(h) /\ UNCHANGED caseRows
  /\ UNCHANGED <<caseRecord, trusteeRows, nextId, review, output, deliveries, outcome>>

CloseTrustee(h) ==
  LET j == job[h] IN
  /\ pc[h] = "closeTrustee"
  /\ IF trusteeRows[j.old].id = j.oldRow.id
     THEN /\ trusteeRows' = [trusteeRows EXCEPT ![j.old].open = FALSE]
          /\ Goto(h, "notifyClose")
          /\ job' = job
     ELSE SoftCloseFailed(h) /\ UNCHANGED trusteeRows
  /\ UNCHANGED <<caseRecord, caseRows, nextId, review, output, deliveries, outcome>>

SoftCloseFails(h) ==
  /\ "permanent" \in Faults
  /\ pc[h] \in {"closeCase", "closeTrustee"}
  /\ SoftCloseFailed(h)
  /\ UNCHANGED <<caseRecord, stores, review, output, deliveries, outcome>>

(* The close or open event is set on the output binding of the invocation, *)
(* where the last write wins; it is queued when the invocation returns.    *)
Notify(h, kind, key) ==
  /\ outbox' = [outbox EXCEPT ![h] = {[kind |-> kind, key |-> key]}]
  /\ UNCHANGED downstream

NotifyClose(h) ==
  /\ pc[h] = "notifyClose"
  /\ Notify(h, "close", job[h].old)
  /\ Goto(h, "findStranded")
  /\ UNCHANGED <<caseRecord, stores, review, deliveries, outcome, job>>

(* findStrandedActiveInTrusteePartition: one open row of another holder;   *)
(* unlike getActiveByCaseId the query does not leave surrogates out.       *)
StrandedFor(h) ==
  {k \in Keys : trusteeRows[k].open /\ k.holder # job[h].target.holder}

(* Variant: no look for a stranded row. *)
SkipStranded(h) ==
  /\ pc[h] = "findStranded"
  /\ Goto(h, "createCase")
  /\ UNCHANGED <<caseRecord, stores, review, output, deliveries, outcome, job>>

FindStranded(h) ==
  /\ pc[h] = "findStranded"
  /\ IF StrandedFor(h) = {}
     THEN Goto(h, "createCase") /\ job' = job
     ELSE \E k \in StrandedFor(h) :
            /\ job' = [job EXCEPT ![h].old = k, ![h].oldRow = trusteeRows[k]]
            /\ Goto(h, "readHistory")
  /\ UNCHANGED <<caseRecord, stores, review, output, deliveries, outcome>>

ReadHistory(h) ==
  LET k == job[h].old IN
  /\ pc[h] = "readHistory"
  /\ job' = [job EXCEPT ![h].oldRow = IF Exists(caseRows, k) THEN caseRows[k] ELSE @]
  /\ Goto(h, "repairStranded")
  /\ UNCHANGED <<caseRecord, stores, review, output, deliveries, outcome>>

RepairStranded(h) ==
  /\ pc[h] = "repairStranded"
  /\ ReplaceInTrusteePartition(h, "createCase")
  /\ UNCHANGED <<caseRecord, caseRows, nextId, review, output, deliveries, outcome>>

(* Variant: the trustee partition is written first. *)
CreateTrusteeFirst(h) ==
  LET k == job[h].target IN
  /\ pc[h] = "createCase"
  /\ trusteeRows' = [trusteeRows EXCEPT ![k] = [id |-> nextId, open |-> TRUE]]
  /\ nextId' = nextId + 1
  /\ job' = [job EXCEPT ![h].newId = nextId]
  /\ Goto(h, "createTrustee")
  /\ UNCHANGED <<caseRecord, caseRows, review, output, deliveries, outcome>>

(* createNewAppointment: upsert by natural key under a new id, the case    *)
(* partition first.  A closed row of the key is replaced by an open one.   *)
CreateCase(h) ==
  LET k == job[h].target IN
  /\ pc[h] = "createCase"
  /\ caseRows' = [caseRows EXCEPT ![k] = [id |-> nextId, open |-> TRUE]]
  /\ nextId' = nextId + 1
  /\ job' = [job EXCEPT ![h].newId = nextId]
  /\ Goto(h, "createTrustee")
  /\ UNCHANGED <<caseRecord, trusteeRows, review, output, deliveries, outcome>>

CreateTrustee(h) ==
  LET k == job[h].target IN
  /\ pc[h] = "createTrustee"
  /\ trusteeRows' = [trusteeRows EXCEPT ![k] = [id |-> job[h].newId, open |-> TRUE]]
  /\ IF k.holder \in Fingerprints
     THEN Finish(h, "handled")
     ELSE /\ Goto(h, IF job[h].soft THEN "saveVariation" ELSE "notifyOpen")
          /\ job' = job
  /\ UNCHANGED <<caseRecord, caseRows, nextId, review, output, deliveries, outcome>>

NotifyOpen(h) ==
  /\ pc[h] = "notifyOpen"
  /\ Notify(h, "open", job[h].target)
  /\ Goto(h, "saveVariation")
  /\ UNCHANGED <<caseRecord, stores, review, deliveries, outcome, job>>

(* The end of autoLinkTrustee. *)
SaveVariation(h) ==
  /\ pc[h] = "saveVariation"
  /\ variations' = variations \cup {Fingerprint(EventAt(h))}
  /\ Finish(h, IF job[h].soft THEN "successWithDlq" ELSE "success")
  /\ UNCHANGED <<caseRecord, stores, pending, output, deliveries, outcome>>

-----------------------------------------------------------------------------
HandlerStep(h) ==
  \/ Report(h)
  \/ SkipEvent(h) \/ JoinPending(h) \/ MatchFails(h) \/ MatchSucceeds(h)
  \/ SaveVerification(h) \/ ReadSurrogate(h)
  \/ ReadActive(h) \/ CheckTrustee(h) \/ RepairTrustee(h)
  \/ CloseCase(h) \/ CloseTrustee(h) \/ SoftCloseFails(h) \/ NotifyClose(h)
  \/ FindStranded(h) \/ ReadHistory(h) \/ RepairStranded(h)
  \/ CreateCase(h) \/ CreateTrustee(h) \/ NotifyOpen(h) \/ SaveVariation(h)

Next ==
  \/ SyncCase \/ MoveCase
  \/ \E h \in Handlers :
    \/ HandlerStep(h) \/ EndPage(h) \/ LosePage(h)
    \/ \E e \in Events : Deliver(h, e)
    \/ \E kind \in FaultKinds : Abort(h, kind)

Spec == Init /\ [][Next]_vars

(* The environment of a case whose events are taken in the order of their  *)
(* dates, each until it is settled, and none again once a later one was    *)
(* taken or it was put on the DLQ: what the sync would see if no page were *)
(* ever retried, redelivered or exported twice.                            *)
Taken(e) == deliveries'[e] # deliveries[e]

InOrder ==
  \A e \in Events : Taken(e) =>
    /\ outcome[e] \notin {"dlq", "successWithDlq"}
    /\ \A other \in Events \ {e} :
         IF Date(other) < Date(e) THEN outcome[other] \in {"success", "handled"}
                                  ELSE deliveries[other] = 0

(* A soft-close that failed for good is reported as such: an attempt that  *)
(* breaks off after it is tried again, finds the new row, and succeeds.    *)
Reported ==
  \A h \in Handlers :
    job[h].soft /\ pc'[h] = "idle" => outcome'[EventAt(h)] = "successWithDlq"

InOrderSpec == Init /\ [][Next /\ InOrder /\ Reported]_vars

-----------------------------------------------------------------------------
(* Properties.                                                             *)

(* Every variable keeps its type; no event is processed beyond the bound. *)
TypeOK ==
  /\ caseRecord \in {"missing", "synced", "moved"}
  /\ caseRows \in [Keys -> Row]
  /\ trusteeRows \in [Keys -> Row]
  /\ nextId \in Nat \ {0}
  /\ pending \subseteq Fingerprints
  /\ variations \subseteq Fingerprints
  /\ outbox \in [Handlers -> SUBSET Messages]
  /\ downstream \subseteq Messages
  /\ deliveries \in [Events -> 0..MaxDeliveries]
  /\ outcome \in [Events -> Outcomes]
  /\ pc \in [Handlers -> Labels]
  /\ job \in [Handlers -> Jobs]

(* A row of the trustee partition has a row of the same natural key in the *)
(* case partition.  The heal job of migrate-case-appointments.ts walks the *)
(* case partition only: a row it cannot reach from there stays wrong.      *)
TrusteeCopiesHaveCaseCopy ==
  \A k \in Keys : Exists(trusteeRows, k) => Exists(caseRows, k)

(* Once an event has been reported as linked, its trustee's case list has  *)
(* a row for the case, whatever failed, crashed or ran beside it.          *)
Linked == {"success", "successWithDlq"}

LinkedIsListed ==
  \A e \in Events : outcome[e] \in Linked =>
    \E k \in RealKeys : k.holder = Trustee(e) /\ Exists(trusteeRows, k)

(* One handler, no permanent failure: never two active appointments.  The  *)
(* soft-close comes first and a failed one stops the attempt.              *)
AtMostOneActive == \A k1, k2 \in OpenReal : k1 = k2

(* Nothing in progress and nothing left to retry or replay by hand.  The   *)
(* events of a moved case are skipped as handled: what an attempt left     *)
(* half-written under the old case id stays, and nothing is said of it.    *)
Quiet == \A h \in Handlers : pc[h] = "idle" /\ outbox[h] = {}
Settled(e) == outcome[e] \in {"none", "success", "handled"}
AllSettled == caseRecord # "moved" /\ Quiet /\ \A e \in Events : Settled(e)

(* One handler, names that match, any replay: a case loses its trustee     *)
(* only for as long as some attempt is unfinished.                         *)
SettledHasActive ==
  AllSettled /\ (\E e \in Events : outcome[e] = "success") => OpenReal # {}

(* Events taken in order: once all are settled, both partitions show the   *)
(* same active appointment, however often calls failed and hosts stopped   *)
(* between the writes of the two ...                                       *)
PartitionsAgree ==
  AllSettled => \A k \in RealKeys : trusteeRows[k].open <=> caseRows[k].open

(* ... and it is the one the court made last. *)
LatestEventWins ==
  AllSettled =>
    \A e \in Events :
      /\ outcome[e] = "success"
      /\ \A other \in Events \ {e} :
           outcome[other] = "success" => Date(other) < Date(e)
      => \E k \in OpenReal : k.holder = Trustee(e)

(* A close event tells downstream about a row that both partitions hold    *)
(* closed, an open event about one that both hold open under one id.       *)
AnnouncedAsStored ==
  [][\A h \in Handlers : \A m \in outbox'[h] \ outbox[h] :
       IF m.kind = "close"
       THEN ~caseRows[m.key].open /\ ~trusteeRows[m.key].open
       ELSE caseRows[m.key].open /\ trusteeRows[m.key] = caseRows[m.key]]_vars

(* Whatever runs beside it, a real appointment never closes a surrogate:   *)
(* only the remap of its verification may end one.                         *)
SurrogateSurvives ==
  [][\A k \in Keys \ RealKeys : caseRows[k].open => caseRows'[k].open]_vars

(* One handler: however often its events are processed again, one          *)
(* mismatch marks the case once.                                           *)
OneSurrogatePerMismatch ==
  \A k1, k2 \in Keys \ RealKeys :
    k1.holder = k2.holder /\ caseRows[k1].open /\ caseRows[k2].open => k1 = k2

(* The open real rows of the case are those of one trustee at a time, each *)
(* asked for by an event: see ActiveAppointment.                           *)
Requested ==
  RealKeys \cap {Appointment(e) : e \in {d \in Events : deliveries[d] > 0}}

Abstract == INSTANCE ActiveAppointment
              WITH Keys <- RealKeys, active <- OpenReal, requested <- Requested

ImplementsActiveAppointment == Abstract!Spec
=============================================================================
