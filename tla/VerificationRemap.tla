------------------------- MODULE VerificationRemap -------------------------
(***************************************************************************)
(* One mismatch (a fingerprint with its variant), the cases it marks, the  *)
(* verification a person decides, and the remap of the marked cases to the *)
(* trustee that person chose.                                              *)
(*                                                                         *)
(* A mark is a surrogate appointment: a row whose trusteeId is the         *)
(* fingerprint.  Like every appointment it is kept in two partitions; the  *)
(* sync writes the case copy first, the remap finds it by the trustee copy *)
(* and deletes the case copy first.  Three kinds of invocation meet here:  *)
(*   the sync of one event (use-cases/dataflows/                           *)
(*     sync-trustee-case-appointments.ts),                                 *)
(*   a PATCH of the verification (use-cases/trustee-match-verification),   *)
(*   a page of the remap queue (trustee-verification-remap.ts).            *)
(* One action stands for one awaited call.                                 *)
(***************************************************************************)
EXTENDS Naturals, FiniteSets

CONSTANTS
  Cases,          \* cases whose events carry the fingerprint
  Trustees,       \* CAMS trustee ids
  Earlier,        \* a trustee the court appointed before, or NoTrustee
  NoTrustee,
  Users,          \* PATCH requests, one decision each
  Syncs,          \* concurrent invocations of processOneEvent
  Remaps,         \* concurrent invocations of handleRemap
  PageSize,       \* REMAP_PAGE_SIZE
  RetryLimit,     \* RATE_LIMIT_RETRY_LIMIT
  MaxDequeueCount,\* the host's maxDequeueCount
  Faults,         \* subset of FaultKinds that may happen
  MaxDeliveries,  \* bound: how often the event of a case is processed
  MaxFaults       \* bound: how many calls fail in all

FaultKinds == {"transient", "permanent", "crash"}

ASSUME TrusteeAssumption ==
  /\ Trustees # {} /\ NoTrustee \notin Trustees
  /\ Earlier \in Trustees \cup {NoTrustee}

ASSUME CaseAssumption == Cases # {}

ASSUME ActorAssumption ==
  /\ Users \cap Syncs = {}
  /\ Users \cap Remaps = {}
  /\ Syncs \cap Remaps = {}

ASSUME BoundAssumption ==
  /\ PageSize \in Nat \ {0}
  /\ RetryLimit \in Nat
  /\ MaxDequeueCount \in Nat \ {0}
  /\ Faults \subseteq FaultKinds
  /\ MaxDeliveries \in Nat
  /\ MaxFaults \in Nat

VARIABLES
  caseMark,     \* id of the surrogate in case-trustee-appointments, 0: none
  listMark,     \* id of the surrogate in trustee-case-appointments
  caseRow,      \* case-trustee-appointments: the real rows of each case
  listRow,      \* trustee-case-appointments: the real rows
  nextId,       \* source of document ids
  verification, \* the TrusteeMatchVerification of the mismatch
  variation,    \* trustee of the TRUSTEE_VARIATION, or NoTrustee
  queue,        \* trustee-match-verification-remap: copies of each message
  dead,         \* its DLQ and poison queue
  binding,      \* the message each invocation has set on an output binding
  announced,    \* cases whose open event went downstream
  pc,           \* the call each invocation is about to make
  user,         \* locals of approveVerification and rejectVerification
  sync,         \* locals of processOneEvent
  remap,        \* locals of handleRemap and remapPage
  deliveries,   \* how often the event of each case was taken
  reported,     \* how the last attempt at it ended
  marked,       \* cases that were ever marked
  sent,         \* trustees a remap message was queued for
  due,          \* the mark a case had when a remap message was last queued
  failed,       \* cases a remap logged and passed over
  faults        \* calls that failed so far

marks   == <<caseMark, listMark>>
rows    == <<caseRow, listRow>>
review  == <<verification, variation>>
queues  == <<queue, dead>>
outputs == <<binding, announced>>
history == <<marked, sent, due, failed>>
events  == <<deliveries, reported>>
vars    == <<marks, rows, nextId, review, queues, outputs, pc, user, sync,
             remap, events, history, faults>>

-----------------------------------------------------------------------------
Actors == Users \cup Syncs \cup Remaps

Row    == [id : Nat, open : BOOLEAN]
NoRow  == [id |-> 0, open |-> FALSE]

Statuses      == {"none", "pending", "approved", "rejected"}
Verifications == [id : Nat, status : Statuses, trustee : Trustees \cup {NoTrustee}]
Messages      == [trustee : Trustees, retries : 0..(RetryLimit + 1),
                  dequeues : 0..MaxDequeueCount]
Marks         == [case : Cases, id : Nat]   \* a surrogate as the page read it

Labels == {"idle", "done",
           "readVariation", "createVariation", "enqueue", "approve", "reject",
           "return",
           "lookup", "pending", "match", "bucket", "save", "readMark",
           "markCase", "markList", "link",
           "list", "active", "closeCase", "closeList", "createCase",
           "createList", "deleteCase", "deleteList", "notify", "continue",
           "complete"}

Open(c) == {t \in Trustees : caseRow[c][t].open}

Goto(p, label) == pc' = [pc EXCEPT ![p] = label]

Fault(kind) ==
  /\ kind \in Faults
  /\ faults < MaxFaults
  /\ faults' = faults + 1

NewMessage(t) == [trustee |-> t, retries |-> 0, dequeues |-> 0]
NoMessage == NewMessage(CHOOSE t \in Trustees : TRUE)
NoMark    == [case |-> CHOOSE c \in Cases : TRUE, id |-> 0]

NoVerification == [id |-> 0, status |-> "none", trustee |-> NoTrustee]

NoSync  == [case |-> NoMark.case, hit |-> NoTrustee, seen |-> NoVerification,
            newId |-> 0]
NoRemap == [message |-> NoMessage, todo |-> {}, more |-> FALSE, at |-> NoMark,
            old |-> NoTrustee, oldId |-> 0]

Send(m) == queue' = [queue EXCEPT ![m] = @ + 1]

EarlierRow == [t \in Trustees |-> IF t = Earlier THEN [id |-> 1, open |-> TRUE]
                                                 ELSE NoRow]

Init ==
  /\ caseMark     = [c \in Cases |-> 0]
  /\ listMark     = [c \in Cases |-> 0]
  /\ caseRow      = [c \in Cases |-> EarlierRow]
  /\ listRow      = [c \in Cases |-> EarlierRow]
  /\ nextId       = 2
  /\ verification = NoVerification
  /\ variation    = NoTrustee
  /\ queue        = [m \in Messages |-> 0]
  /\ dead         = {}
  /\ binding      = [p \in Actors |-> {}]
  /\ announced    = {}
  /\ pc           = [p \in Actors |-> "idle"]
  /\ user         = [u \in Users |-> [id |-> 0, trustee |-> NoTrustee]]
  /\ sync         = [s \in Syncs |-> NoSync]
  /\ remap        = [r \in Remaps |-> NoRemap]
  /\ deliveries   = [c \in Cases |-> 0]
  /\ reported     = [c \in Cases |-> "none"]
  /\ marked       = {}
  /\ sent         = {}
  /\ due          = [c \in Cases |-> 0]
  /\ failed       = {}
  /\ faults       = 0

-----------------------------------------------------------------------------
(* The decision.  Both operations find the verification by its id, refuse  *)
(* it unless pending, and later replace it whatever it has become.         *)

Approve(u, t) ==
  /\ pc[u] = "idle"
  /\ verification.status = "pending"
  /\ user' = [user EXCEPT ![u] = [id |-> verification.id, trustee |-> t]]
  /\ Goto(u, "readVariation")
  /\ UNCHANGED <<marks, rows, nextId, review, queues, outputs, sync, remap,
                 events, history, faults>>

Reject(u) ==
  /\ pc[u] = "idle"
  /\ verification.status = "pending"
  /\ user' = [user EXCEPT ![u].id = verification.id]
  /\ Goto(u, "reject")
  /\ UNCHANGED <<marks, rows, nextId, review, queues, outputs, sync, remap,
                 events, history, faults>>

ReadVariation(u) ==
  /\ pc[u] = "readVariation"
  /\ Goto(u, IF variation = NoTrustee THEN "createVariation" ELSE "enqueue")
  /\ UNCHANGED <<marks, rows, nextId, review, queues, outputs, user, sync,
                 remap, events, history, faults>>

(* The unique index decides a race: the loser is given the winner's        *)
(* document and goes on with its own trustee.                              *)
CreateVariation(u) ==
  /\ pc[u] = "createVariation"
  /\ variation' = IF variation = NoTrustee THEN user[u].trustee ELSE variation
  /\ Goto(u, "enqueue")
  /\ UNCHANGED <<marks, rows, nextId, verification, queues, outputs, user,
                 sync, remap, events, history, faults>>

Enqueue(u) ==
  /\ pc[u] = "enqueue"
  /\ binding' = [binding EXCEPT ![u] = {user[u].trustee}]
  /\ Goto(u, "approve")
  /\ UNCHANGED <<marks, rows, nextId, review, queues, announced, user, sync,
                 remap, events, history, faults>>

(* update merges into the document as it is now; a verification the sync   *)
(* recreated has another id, and is not found.                             *)
UpdateStatus(u, label, status) ==
  /\ pc[u] = label
  /\ verification' =
       IF verification.id # user[u].id THEN verification
       ELSE [verification EXCEPT !.status = status,
               !.trustee = IF status = "approved" THEN user[u].trustee ELSE @]
  /\ Goto(u, "return")
  /\ UNCHANGED <<marks, rows, nextId, variation, queues, outputs, user, sync,
                 remap, events, history, faults>>

MarkApproved(u) == UpdateStatus(u, "approve", "approved")
MarkRejected(u) == UpdateStatus(u, "reject", "rejected")

(* The controller answers, with an error if there was one, and the host    *)
(* sends what the invocation has set on its binding.                       *)
Return(u) ==
  /\ pc[u] = "return"
  /\ \/ binding[u] = {} /\ UNCHANGED queue
     \/ \E t \in binding[u] : Send(NewMessage(t))
  /\ sent' = sent \cup binding[u]
  /\ due' = IF binding[u] = {} THEN due ELSE listMark
  /\ binding' = [binding EXCEPT ![u] = {}]
  /\ Goto(u, "done")
  /\ UNCHANGED <<marks, rows, nextId, review, dead, announced, user, sync,
                 remap, events, marked, failed, faults>>

DecisionFails(u) ==
  /\ pc[u] \in {"readVariation", "createVariation", "enqueue", "approve", "reject"}
  /\ \E kind \in {"transient", "permanent"} : Fault(kind)
  /\ Goto(u, "return")
  /\ UNCHANGED <<marks, rows, nextId, review, queues, outputs, user, sync,
                 remap, events, history>>

DecisionStops(u) ==
  /\ pc[u] \notin {"idle", "done"}
  /\ Fault("crash")
  /\ binding' = [binding EXCEPT ![u] = {}]
  /\ Goto(u, "done")
  /\ UNCHANGED <<marks, rows, nextId, review, queues, announced, user, sync,
                 remap, events, history>>

DecisionStep(u) ==
  \/ ReadVariation(u) \/ CreateVariation(u) \/ Enqueue(u)
  \/ MarkApproved(u) \/ MarkRejected(u) \/ Return(u)

-----------------------------------------------------------------------------
(* processOneEvent for an event with these demographics, as far as it      *)
(* touches the mismatch.                                                   *)

SyncCase(s) == sync[s].case

Finish(s, result) ==
  /\ reported' = [reported EXCEPT ![SyncCase(s)] = result]
  /\ sync' = [sync EXCEPT ![s] = NoSync]
  /\ Goto(s, "idle")

Take(s, c) ==
  /\ pc[s] = "idle"
  /\ deliveries[c] < MaxDeliveries
  /\ deliveries' = [deliveries EXCEPT ![c] = @ + 1]
  /\ reported' = [reported EXCEPT ![c] = "started"]
  /\ sync' = [sync EXCEPT ![s].case = c]
  /\ Goto(s, "lookup")
  /\ UNCHANGED <<marks, rows, nextId, review, queues, outputs, user, remap,
                 history, faults>>

Lookup(s) ==
  /\ pc[s] = "lookup"
  /\ sync' = [sync EXCEPT ![s].hit = variation]
  /\ Goto(s, IF variation = NoTrustee THEN "pending" ELSE "match")
  /\ UNCHANGED <<marks, rows, nextId, review, queues, outputs, user, remap,
                 events, history, faults>>

CheckPending(s) ==
  /\ pc[s] = "pending"
  /\ Goto(s, IF verification.status = "pending" THEN "readMark" ELSE "match")
  /\ UNCHANGED <<marks, rows, nextId, review, queues, outputs, user, sync,
                 remap, events, history, faults>>

(* Names, scores and the trustee's status decide; on a variation hit too   *)
(* the match may be imperfect or the trustee inactive.                     *)
Match(s) ==
  /\ pc[s] = "match"
  /\ \E verdict \in {"link", "bucket"} : Goto(s, verdict)
  /\ UNCHANGED <<marks, rows, nextId, review, queues, outputs, user, sync,
                 remap, events, history, faults>>

(* upsertMatchVerification: read, and replace unless decided.              *)
ReadBucket(s) ==
  /\ pc[s] = "bucket"
  /\ sync' = [sync EXCEPT ![s].seen = verification]
  /\ Goto(s, IF verification.status \in {"none", "pending"} THEN "save"
                                                            ELSE "readMark")
  /\ UNCHANGED <<marks, rows, nextId, review, queues, outputs, user, remap,
                 events, history, faults>>

SaveVerification(s) ==
  /\ pc[s] = "save"
  /\ verification' = IF sync[s].seen.status = "pending" THEN sync[s].seen
                     ELSE [id |-> nextId, status |-> "pending",
                           trustee |-> NoTrustee]
  /\ nextId' = nextId + 1
  /\ Goto(s, "readMark")
  /\ UNCHANGED <<marks, rows, variation, queues, outputs, user, sync, remap,
                 events, history, faults>>

(* writeSurrogateAppointment *)
ReadMark(s) ==
  /\ pc[s] = "readMark"
  /\ IF caseMark[SyncCase(s)] # 0
     THEN Finish(s, "handled")
     ELSE Goto(s, "markCase") /\ UNCHANGED <<reported, sync>>
  /\ UNCHANGED <<marks, rows, nextId, review, queues, outputs, user,
                 remap, deliveries, history, faults>>

MarkCase(s) ==
  /\ pc[s] = "markCase"
  /\ caseMark' = [caseMark EXCEPT ![SyncCase(s)] = nextId]
  /\ nextId' = nextId + 1
  /\ sync' = [sync EXCEPT ![s].newId = nextId]
  /\ marked' = marked \cup {SyncCase(s)}
  /\ Goto(s, "markList")
  /\ UNCHANGED <<listMark, rows, review, queues, outputs, user, remap, events,
                 sent, due, failed, faults>>

MarkList(s) ==
  /\ pc[s] = "markList"
  /\ listMark' = [listMark EXCEPT ![SyncCase(s)] = sync[s].newId]
  /\ Finish(s, "handled")
  /\ UNCHANGED <<caseMark, rows, nextId, review, queues, outputs, user,
                 remap, deliveries, history, faults>>

(* autoLinkTrustee, whose calls are the subject of CaseAppointments: here  *)
(* it is one step, and ends the event.                                     *)
Linked(copies, t) ==
  [k \in Trustees |-> IF k = t THEN [id |-> nextId, open |-> TRUE]
                      ELSE [copies[k] EXCEPT !.open = FALSE]]

Link(s) ==
  LET c == SyncCase(s) IN
  /\ pc[s] = "link"
  /\ \E t \in IF sync[s].hit = NoTrustee THEN Trustees ELSE {sync[s].hit} :
       /\ caseRow' = [caseRow EXCEPT ![c] = Linked(@, t)]
       /\ listRow' = [listRow EXCEPT ![c] = Linked(@, t)]
       /\ variation' = IF variation = NoTrustee THEN t ELSE variation
  /\ nextId' = nextId + 1
  /\ Finish(s, "success")
  /\ UNCHANGED <<marks, verification, queues, outputs, user, remap,
                 deliveries, history, faults>>

SyncFails(s) ==
  /\ pc[s] # "idle"
  /\ \E kind \in FaultKinds : Fault(kind) /\ Finish(s, kind)
  /\ UNCHANGED <<marks, rows, nextId, review, queues, outputs, user,
                 remap, deliveries, history>>

SyncStep(s) ==
  \/ Lookup(s) \/ CheckPending(s) \/ Match(s)
  \/ ReadBucket(s) \/ SaveVerification(s)
  \/ ReadMark(s) \/ MarkCase(s) \/ MarkList(s) \/ Link(s)

-----------------------------------------------------------------------------
(* handleRemap and remapPage.                                              *)

Resolved(r) == remap[r].message.trustee
At(r)       == remap[r].at.case

Receive(r) ==
  /\ pc[r] = "idle"
  /\ \E m \in Messages :
       /\ queue[m] > 0
       /\ queue' = [queue EXCEPT ![m] = @ - 1]
       /\ remap' = [remap EXCEPT ![r].message = m]
  /\ Goto(r, "list")
  /\ UNCHANGED <<marks, rows, nextId, review, dead, outputs, user, sync,
                 events, history, faults>>

(* getSurrogatesByFingerprint, in no stated order, and the first PageSize. *)
Listed == {[case |-> c, id |-> listMark[c]] : c \in {k \in Cases : listMark[k] # 0}}

Pages == {P \in SUBSET Listed :
            IF Cardinality(Listed) <= PageSize THEN P = Listed
                                               ELSE Cardinality(P) = PageSize}

ListMarks(r) ==
  /\ pc[r] = "list"
  /\ \E P \in Pages :
       remap' = [remap EXCEPT ![r].todo = P, ![r].more = (P # Listed)]
  /\ Goto(r, IF Listed = {} THEN "complete" ELSE "active")
  /\ UNCHANGED <<marks, rows, nextId, review, queues, outputs, user, sync,
                 events, history, faults>>

(* The loop goes on with the next surrogate of the page. *)
Advance(r, mark) ==
  /\ remap' = [remap EXCEPT ![r].todo = @ \ {mark}]
  /\ Goto(r, IF remap[r].todo \ {mark} # {} THEN "active" ELSE "continue")

PassOver(r, mark) ==
  /\ failed' = failed \cup {mark.case}
  /\ Advance(r, mark)
  /\ UNCHANGED <<marked, sent, due>>

(* getActiveByCaseId.  Rows of the earlier appointment have the earlier    *)
(* assignedOn; the others share the date of the event.                     *)
Latest(c) == IF Open(c) \ {Earlier} # {} THEN Open(c) \ {Earlier} ELSE Open(c)

(* Variant: the appointment is made only if nobody is active. *)
KeepActive(r) ==
  /\ pc[r] = "active"
  /\ \E mark \in remap[r].todo :
       /\ remap' = [remap EXCEPT ![r].at = mark]
       /\ Goto(r, IF Open(mark.case) = {} THEN "createCase" ELSE "deleteCase")
  /\ UNCHANGED <<marks, rows, nextId, review, queues, outputs, user, sync,
                 events, history, faults>>

ReadActive(r) ==
  /\ pc[r] = "active"
  /\ \E mark \in remap[r].todo :
       LET c == mark.case IN
       IF Latest(c) = {}
       THEN /\ remap' = [remap EXCEPT ![r].at = mark, ![r].old = NoTrustee]
            /\ Goto(r, "createCase")
       ELSE \E t \in Latest(c) :
              /\ remap' = [remap EXCEPT ![r].at = mark, ![r].old = t,
                                        ![r].oldId = caseRow[c][t].id]
              /\ Goto(r, IF t = Resolved(r) THEN "deleteCase" ELSE "closeCase")
  /\ UNCHANGED <<marks, rows, nextId, review, queues, outputs, user, sync,
                 events, history, faults>>

(* updateCaseAppointment: by id, the case partition first. *)
CloseCase(r) ==
  LET c == At(r)  t == remap[r].old IN
  /\ pc[r] = "closeCase"
  /\ IF caseRow[c][t].id = remap[r].oldId
     THEN /\ caseRow' = [caseRow EXCEPT ![c][t].open = FALSE]
          /\ Goto(r, "closeList")
          /\ UNCHANGED <<remap, history>>
     ELSE PassOver(r, remap[r].at) /\ UNCHANGED caseRow
  /\ UNCHANGED <<marks, listRow, nextId, review, queues, outputs, user, sync,
                 events, faults>>

CloseList(r) ==
  LET c == At(r)  t == remap[r].old IN
  /\ pc[r] = "closeList"
  /\ IF listRow[c][t].id = remap[r].oldId
     THEN /\ listRow' = [listRow EXCEPT ![c][t].open = FALSE]
          /\ Goto(r, "createCase")
          /\ UNCHANGED <<remap, history>>
     ELSE PassOver(r, remap[r].at) /\ UNCHANGED listRow
  /\ UNCHANGED <<marks, caseRow, nextId, review, queues, outputs, user, sync,
                 events, faults>>

(* upsert, under the surrogate's assignedOn. *)
CreateCase(r) ==
  /\ pc[r] = "createCase"
  /\ caseRow' = [caseRow EXCEPT ![At(r)][Resolved(r)] = [id |-> nextId, open |-> TRUE]]
  /\ nextId' = nextId + 1
  /\ remap' = [remap EXCEPT ![r].oldId = nextId]
  /\ Goto(r, "createList")
  /\ UNCHANGED <<marks, listRow, review, queues, outputs, user, sync, events,
                 history, faults>>

CreateList(r) ==
  /\ pc[r] = "createList"
  /\ listRow' = [listRow EXCEPT ![At(r)][Resolved(r)] =
                   [id |-> remap[r].oldId, open |-> TRUE]]
  /\ Goto(r, "deleteCase")
  /\ UNCHANGED <<marks, caseRow, nextId, review, queues, outputs, user, sync,
                 remap, events, history, faults>>

(* delete(surrogate.id): the case partition first; deleting nothing is a   *)
(* NotFoundError.                                                          *)
DeleteCase(r) ==
  /\ pc[r] = "deleteCase"
  /\ IF caseMark[At(r)] = remap[r].at.id
     THEN /\ caseMark' = [caseMark EXCEPT ![At(r)] = 0]
          /\ Goto(r, "deleteList")
          /\ UNCHANGED <<remap, history>>
     ELSE PassOver(r, remap[r].at) /\ UNCHANGED caseMark
  /\ UNCHANGED <<listMark, rows, nextId, review, queues, outputs, user, sync,
                 events, faults>>

DeleteList(r) ==
  /\ pc[r] = "deleteList"
  /\ IF listMark[At(r)] = remap[r].at.id
     THEN /\ listMark' = [listMark EXCEPT ![At(r)] = 0]
          /\ Goto(r, "notify")
          /\ UNCHANGED <<remap, history>>
     ELSE PassOver(r, remap[r].at) /\ UNCHANGED listMark
  /\ UNCHANGED <<caseMark, rows, nextId, review, queues, outputs, user, sync,
                 events, faults>>

(* Variant: the loop ends with the first surrogate remapped. *)
NotifyAndLeave(r) ==
  /\ pc[r] = "notify"
  /\ binding' = [binding EXCEPT ![r] = {At(r)}]
  /\ Goto(r, "complete")
  /\ UNCHANGED <<marks, rows, nextId, review, queues, announced, user, sync,
                 remap, events, history, faults>>

(* The open event of this case replaces that of the page's case before it. *)
Notify(r) ==
  /\ pc[r] = "notify"
  /\ binding' = [binding EXCEPT ![r] = {At(r)}]
  /\ Advance(r, remap[r].at)
  /\ UNCHANGED <<marks, rows, nextId, review, queues, announced, user, sync,
                 events, history, faults>>

(* Surrogates were left beyond the page: the message goes back unchanged.  *)
Continue(r) ==
  /\ pc[r] = "continue"
  /\ IF remap[r].more THEN Send([remap[r].message EXCEPT !.dequeues = 0])
                      ELSE UNCHANGED queue
  /\ Goto(r, "complete")
  /\ UNCHANGED <<marks, rows, nextId, review, dead, outputs, user, sync, remap, events,
                 history, faults>>

(* The invocation returned: the host sends its binding, deletes the message. *)
Complete(r) ==
  /\ pc[r] = "complete"
  /\ announced' = announced \cup binding[r]
  /\ binding' = [binding EXCEPT ![r] = {}]
  /\ remap' = [remap EXCEPT ![r] = NoRemap]
  /\ Goto(r, "idle")
  /\ UNCHANGED <<marks, rows, nextId, review, queues, user, sync, events,
                 history, faults>>

CaseCalls == {"active", "closeCase", "closeList", "createCase", "createList",
              "deleteCase", "deleteList", "notify"}

(* Variant: a throttled page counts as done. *)
DropThrottled(r) ==
  /\ pc[r] \in CaseCalls \cup {"list"}
  /\ Fault("transient")
  /\ Goto(r, "complete")
  /\ UNCHANGED <<marks, rows, nextId, review, queues, outputs, user, sync, remap,
                 events, history>>

(* 429 or a gateway timeout anywhere in the page: handleRateLimitRetry.    *)
RetryPage(r) ==
  LET m == remap[r].message IN
  /\ pc[r] \in CaseCalls \cup {"list"}
  /\ Fault("transient")
  /\ IF m.retries < RetryLimit
     THEN Send([m EXCEPT !.dequeues = 0, !.retries = @ + 1]) /\ UNCHANGED dead
     ELSE dead' = dead \cup {m} /\ UNCHANGED queue
  /\ Goto(r, "complete")
  /\ UNCHANGED <<marks, rows, nextId, review, outputs, user, sync, remap, events, history>>

(* Any other error of one case is logged and the page goes on. *)
CaseFails(r) ==
  /\ pc[r] \in CaseCalls
  /\ Fault("permanent")
  /\ \E mark \in IF pc[r] = "active" THEN remap[r].todo ELSE {remap[r].at} :
       PassOver(r, mark)
  /\ UNCHANGED <<marks, rows, nextId, review, queues, outputs, user, sync, events>>

(* Reading the list or sending the continuation fails for good, or the     *)
(* host stops: the message comes back, or is put aside.                    *)
PageFails(r) ==
  LET m == [remap[r].message EXCEPT !.dequeues = @ + 1] IN
  /\ \/ pc[r] # "idle" /\ Fault("crash")
     \/ pc[r] \in {"list", "continue"} /\ Fault("permanent")
  /\ IF m.dequeues < MaxDequeueCount
     THEN Send(m) /\ UNCHANGED dead
     ELSE dead' = dead \cup {m} /\ UNCHANGED queue
  /\ binding' = [binding EXCEPT ![r] = {}]
  /\ remap' = [remap EXCEPT ![r] = NoRemap]
  /\ Goto(r, "idle")
  /\ UNCHANGED <<marks, rows, nextId, review, announced, user, sync,
                 events, history>>

RemapStep(r) ==
  \/ Receive(r) \/ ListMarks(r) \/ ReadActive(r)
  \/ CloseCase(r) \/ CloseList(r) \/ CreateCase(r) \/ CreateList(r)
  \/ DeleteCase(r) \/ DeleteList(r) \/ Notify(r) \/ Continue(r) \/ Complete(r)

-----------------------------------------------------------------------------
Next ==
  \/ \E u \in Users :
       \/ \E t \in Trustees : Approve(u, t)
       \/ Reject(u) \/ DecisionStep(u) \/ DecisionFails(u) \/ DecisionStops(u)
  \/ \E s \in Syncs :
       \/ \E c \in Cases : Take(s, c)
       \/ SyncStep(s) \/ SyncFails(s)
  \/ \E r \in Remaps :
       RemapStep(r) \/ RetryPage(r) \/ CaseFails(r) \/ PageFails(r)

Spec == Init /\ [][Next]_vars

(* An invocation that was started keeps running, and the host polls the    *)
(* remap queue.                                                            *)
FairSpec ==
  /\ Spec
  /\ \A u \in Users  : WF_vars(DecisionStep(u))
  /\ \A s \in Syncs  : WF_vars(SyncStep(s))
  /\ \A r \in Remaps : WF_vars(RemapStep(r))

-----------------------------------------------------------------------------
(* Properties.                                                             *)

(* Every variable keeps its type, and no remap message is sent again       *)
(* beyond its limits.                                                      *)
TypeOK ==
  /\ caseMark \in [Cases -> Nat]
  /\ listMark \in [Cases -> Nat]
  /\ caseRow \in [Cases -> [Trustees -> Row]]
  /\ listRow \in [Cases -> [Trustees -> Row]]
  /\ nextId \in Nat \ {0}
  /\ verification \in Verifications
  /\ variation \in Trustees \cup {NoTrustee}
  /\ queue \in [Messages -> Nat]
  /\ \A m \in Messages : queue[m] > 0 =>
       m.retries <= RetryLimit /\ m.dequeues < MaxDequeueCount
  /\ dead \subseteq Messages
  /\ binding \in [Actors -> SUBSET (Trustees \cup Cases)]
  /\ announced \subseteq Cases
  /\ pc \in [Actors -> Labels]
  /\ user \in [Users -> [id : Nat, trustee : Trustees \cup {NoTrustee}]]
  /\ sync \in [Syncs -> [case : Cases, hit : Trustees \cup {NoTrustee},
                         seen : Verifications, newId : Nat]]
  /\ remap \in [Remaps -> [message : Messages, todo : SUBSET Marks,
                           more : BOOLEAN, at : Marks,
                           old : Trustees \cup {NoTrustee}, oldId : Nat]]
  /\ deliveries \in [Cases -> 0..MaxDeliveries]
  /\ reported \in [Cases -> FaultKinds \cup {"none", "started", "handled", "success"}]
  /\ marked \subseteq Cases
  /\ due \in [Cases -> Nat]
  /\ failed \subseteq Cases
  /\ faults \in 0..MaxFaults

(* A case that was ever marked keeps its mark until it has a row of a      *)
(* trustee a person chose: no order of syncs, decisions and remaps, and no *)
(* failure, leaves it with neither.                                        *)
Chosen == {user[u].trustee : u \in Users} \ {NoTrustee}

NeverForgotten ==
  \A c \in marked : caseMark[c] # 0 \/ \E t \in Chosen : caseRow[c][t].id # 0

(* Unless a host stops in between, an approved verification has its remap  *)
(* on the way: the message is set before the status is changed, and goes   *)
(* out even when the request fails.                                        *)
ApprovedIsQueued ==
  verification.status = "approved" =>
    verification.trustee \in sent \cup UNION {binding[u] : u \in Users}

(* Once no remap message is left, and none was put aside, every mark that  *)
(* was listed when a message was last queued has been removed or replaced, *)
(* or its case failed for good and was logged: pages, continuations and    *)
(* retries pass over none.                                                 *)
RemapOver ==
  /\ dead = {}
  /\ \A m \in Messages : queue[m] = 0
  /\ \A r \in Remaps : pc[r] = "idle"

Cleared(c) == due[c] # 0 => listMark[c] # due[c]

NoMarkSkipped == RemapOver => \A c \in Cases : Cleared(c) \/ c \in failed

(* Unless some call fails, the remap of an approval removes every mark     *)
(* that was listed when it was queued, however many pages that takes.      *)
RemapClears == \A c \in Cases : due[c] # 0 ~> (Cleared(c) \/ faults > 0)
=============================================================================
