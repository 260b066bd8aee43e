------------------------ MODULE AppointmentSyncQueue ------------------------
(***************************************************************************)
(* How a trustee appointment made in DXTR reaches processAppointments and  *)
(* what becomes of it: the exporter handleStart with its two watermarks,   *)
(* the page queue with its two retry counters, and the page handler.       *)
(* CaseAppointments says what processing an event does to a case; here an  *)
(* event only has an outcome.  Processes may be interrupted between any    *)
(* two awaited calls.  One action stands for one awaited call of           *)
(*   function-apps/dataflows/import/sync-trustee-case-appointments.ts.     *)
(*                                                                         *)
(* The outer catch of handlePage calls handleRateLimitRetry only for Mongo *)
(* errors, which processOneEvent has already caught: what reaches it is    *)
(* rethrown, and the host delivers the message again.                      *)
(***************************************************************************)
EXTENDS Naturals, FiniteSets

CONSTANTS
  Events,          \* trustee transactions of DXTR
  Source,          \* [Events -> Sources]: which query returns it
  TxDate,          \* [Events -> Nat \ {0}]: its TX_DATE
  Oversized,       \* events too large for a queue message
  Starters,        \* concurrent invocations of handleStart
  Handlers,        \* concurrent invocations of handlePage
  PageSize,        \* events on a page
  UnsyncedLimit,   \* CASE_NOT_YET_SYNCED_RETRY_LIMIT
  TransientLimit,  \* RATE_LIMIT_RETRY_LIMIT
  MaxDequeueCount, \* of host.json
  MaxRuns,         \* bound: how often handleStart is invoked
  MaxFaults,       \* bound: how many invocations fail or stop
  MaxTransients    \* bound: how many events meet a transient error

Sources == {"appointment", "petition"}

ASSUME EventAssumption ==
  /\ Source \in [Events -> Sources]
  /\ TxDate \in [Events -> Nat \ {0}]
  /\ Oversized \subseteq Events

ASSUME LimitAssumption ==
  /\ PageSize \in Nat \ {0}
  /\ UnsyncedLimit \in Nat
  /\ TransientLimit \in Nat
  /\ MaxDequeueCount \in Nat \ {0}
  /\ MaxRuns \in Nat
  /\ MaxFaults \in Nat
  /\ MaxTransients \in Nat

VARIABLES
  committed,    \* transactions DXTR shows
  watermark,    \* the stored sync date of each source
  queue,        \* visible messages of the page queue
  nextId,       \* source of message ids
  done,         \* events processed to a final outcome
  deadLetters,  \* events on the DLQ, with what sent them there
  poisoned,     \* events of messages the host gave up on
  unsyncedSeen, \* how often an event's case was found not yet synced
  budget,       \* runs, faults and transient errors so far
  startPc,      \* the call each handleStart is about to make
  run,          \* its local variables
  pagePc,       \* the call each handlePage is about to make
  page          \* its local variables

starter == <<startPc, run>>
handler == <<pagePc, page>>
vars == <<committed, watermark, queue, nextId, done, deadLetters, poisoned,
          unsyncedSeen, budget, starter, handler>>

Message ==
  [id : Nat, events : SUBSET Events, unsyncedRetries : 0..UnsyncedLimit,
   transientRetries : 0..TransientLimit, dequeues : 0..MaxDequeueCount]

Causes == {"rejected", "failed", "unsynced", "transient"}

DeadLetter == [event : Events, cause : Causes]

Run ==
  [from : [Sources -> Nat], mark : [Sources -> Nat],   \* dates read, dates to store
   events : SUBSET Events,                             \* found and not yet sent
   petition : BOOLEAN]                                 \* the petition query succeeded

Page ==
  [message : Message, todo : SUBSET Events,            \* not yet processed
   transient : SUBSET Events, unsynced : SUBSET Events, dead : SUBSET DeadLetter]

DeadEvents == {d.event : d \in deadLetters}

NewMessage(events) ==
  [id |-> nextId, events |-> events, unsyncedRetries |-> 0,
   transientRetries |-> 0, dequeues |-> 0]

Letters(events, cause) == {[event |-> e, cause |-> cause] : e \in events}

InFlight == {page[h].message : h \in {g \in Handlers : pagePc[g] # "idle"}}

NoRun  == [from |-> [s \in Sources |-> 0], mark |-> [s \in Sources |-> 0],
           events |-> {}, petition |-> FALSE]
NoPage == [message |-> [id |-> 0, events |-> {}, unsyncedRetries |-> 0,
                        transientRetries |-> 0, dequeues |-> 0],
           todo |-> {}, transient |-> {}, unsynced |-> {}, dead |-> {}]

Spend(what) == budget' = [budget EXCEPT ![what] = @ + 1]

Init ==
  /\ committed = {}
  /\ watermark = [s \in Sources |-> 0]
  /\ queue = {}
  /\ nextId = 1
  /\ done = {}
  /\ deadLetters = {}
  /\ poisoned = {}
  /\ unsyncedSeen = [e \in Events |-> 0]
  /\ budget = [runs |-> 0, faults |-> 0, transients |-> 0]
  /\ startPc = [s \in Starters |-> "idle"]
  /\ run = [s \in Starters |-> NoRun]
  /\ pagePc = [h \in Handlers |-> "idle"]
  /\ page = [h \in Handlers |-> NoPage]

(* The court commits a transaction.  Each source shows its transactions in *)
(* the order of TX_DATE; two of one TX_DATE would be told apart by nobody. *)
Commit(e) ==
  /\ e \notin committed
  /\ \A d \in committed : Source[d] = Source[e] => TxDate[d] < TxDate[e]
  /\ committed' = committed \cup {e}
  /\ UNCHANGED <<watermark, queue, nextId, done, deadLetters, poisoned,
                 unsyncedSeen, budget, starter, handler>>

-----------------------------------------------------------------------------
(* handleStart, by the timer, by hand or delivered again by the host.      *)

exporting == <<committed, done, poisoned, unsyncedSeen, handler>>

(* resolveSyncState: the stored dates, or 2018-01-01 on a reset or when    *)
(* the read fails.                                                         *)
Start(s) ==
  /\ startPc[s] = "idle"
  /\ budget.runs < MaxRuns
  /\ Spend("runs")
  /\ \E kept \in SUBSET Sources :
       run' = [run EXCEPT ![s] = [NoRun EXCEPT !.from =
                 [src \in Sources |-> IF src \in kept THEN watermark[src] ELSE 0]]]
  /\ startPc' = [startPc EXCEPT ![s] = "appointments"]
  /\ UNCHANGED <<exporting, watermark, queue, nextId, deadLetters>>

(* TX_DATE > @transactionsStart; latestSyncDate is that of the first row,  *)
(* in descending order, or the start date when there is none.              *)
Found(s, src) ==
  {e \in committed : Source[e] = src /\ TxDate[e] > run[s].from[src]}

IsLatest(date, found, from) ==
  IF found = {} THEN date = from
  ELSE \E e \in found : date = TxDate[e] /\ \A d \in found : TxDate[d] <= date

Query(s, src) ==
  \E date \in {run[s].from[src]} \cup {TxDate[e] : e \in committed} :
    /\ IsLatest(date, Found(s, src), run[s].from[src])
    /\ run' = [run EXCEPT ![s].mark[src] = date,
                          ![s].events = @ \cup Found(s, src),
                          ![s].petition = (src = "petition")]

QueryAppointments(s) ==
  /\ startPc[s] = "appointments"
  /\ Query(s, "appointment")
  /\ startPc' = [startPc EXCEPT ![s] = "petitions"]
  /\ UNCHANGED <<exporting, watermark, queue, nextId, deadLetters, budget>>

(* A failure of the petition query is logged: its date is then not stored. *)
QueryPetitions(s) ==
  /\ startPc[s] = "petitions"
  /\ \/ Query(s, "petition") /\ budget' = budget
     \/ budget.faults < MaxFaults /\ Spend("faults") /\ run' = run
  /\ startPc' = [startPc EXCEPT ![s] = IF run'[s].events = {} THEN "idle" ELSE "queue"]
  /\ UNCHANGED <<exporting, watermark, queue, nextId, deadLetters>>

(* queueEventPages: the pages in any division, then the rejected events.   *)
SendPage(s) ==
  /\ startPc[s] = "queue"
  /\ run[s].events \ Oversized # {}
  /\ \E events \in SUBSET (run[s].events \ Oversized) :
       /\ Cardinality(events) \in 1..PageSize
       /\ queue' = queue \cup {NewMessage(events)}
       /\ run' = [run EXCEPT ![s].events = @ \ events]
  /\ nextId' = nextId + 1
  /\ UNCHANGED <<exporting, watermark, deadLetters, budget, startPc>>

(* Variant: an event too large for the queue is only logged. *)
RejectSilently(s) ==
  /\ startPc[s] = "queue"
  /\ run[s].events # {}
  /\ run[s].events \subseteq Oversized
  /\ \E e \in run[s].events : run' = [run EXCEPT ![s].events = @ \ {e}]
  /\ UNCHANGED <<exporting, watermark, queue, nextId, deadLetters, budget, startPc>>

Reject(s) ==
  /\ startPc[s] = "queue"
  /\ run[s].events # {}
  /\ run[s].events \subseteq Oversized
  /\ \E e \in run[s].events :
       /\ deadLetters' = deadLetters \cup Letters({e}, "rejected")
       /\ run' = [run EXCEPT ![s].events = @ \ {e}]
  /\ UNCHANGED <<exporting, watermark, queue, nextId, budget, startPc>>

(* storeRuntimeState, storePetitionRuntimeState: a failure is logged.      *)
StoreDate(s, src) ==
  \/ watermark' = [watermark EXCEPT ![src] = run[s].mark[src]] /\ budget' = budget
  \/ budget.faults < MaxFaults /\ Spend("faults") /\ UNCHANGED watermark

(* Variant: the date is stored before the pages are sent. *)
StoreDateFirst(s) ==
  /\ startPc[s] = "queue"
  /\ watermark' = [watermark EXCEPT !["appointment"] = run[s].mark["appointment"]]
  /\ UNCHANGED <<exporting, queue, nextId, deadLetters, run, budget, startPc>>

StoreAppointmentDate(s) ==
  /\ startPc[s] = "queue"
  /\ run[s].events = {}
  /\ StoreDate(s, "appointment")
  /\ startPc' = [startPc EXCEPT ![s] = IF run[s].petition THEN "store" ELSE "idle"]
  /\ UNCHANGED <<exporting, queue, nextId, deadLetters, run>>

StorePetitionDate(s) ==
  /\ startPc[s] = "store"
  /\ StoreDate(s, "petition")
  /\ startPc' = [startPc EXCEPT ![s] = "idle"]
  /\ UNCHANGED <<exporting, queue, nextId, deadLetters, run>>

(* A call throws, is caught and reported without its events, or the host   *)
(* stops: nothing more is sent or stored.                                  *)
StartFails(s) ==
  /\ startPc[s] # "idle"
  /\ budget.faults < MaxFaults
  /\ Spend("faults")
  /\ startPc' = [startPc EXCEPT ![s] = "idle"]
  /\ UNCHANGED <<exporting, watermark, queue, nextId, deadLetters, run>>

-----------------------------------------------------------------------------
(* handlePage.  A message in flight is invisible; its delays only order    *)
(* deliveries, and any order is allowed here.                              *)

paging == <<committed, watermark, starter>>

Receive(h, m) ==
  /\ pagePc[h] = "idle"
  /\ m \in queue
  /\ queue' = queue \ {m}
  /\ page' = [page EXCEPT ![h] =
       [NoPage EXCEPT !.message = [m EXCEPT !.dequeues = @ + 1], !.todo = m.events]]
  /\ pagePc' = [pagePc EXCEPT ![h] = "process"]
  /\ UNCHANGED <<paging, nextId, done, deadLetters, poisoned, unsyncedSeen, budget>>

(* processAppointments: one event and its outcome. *)
processing == <<paging, queue, nextId, deadLetters, poisoned, pagePc>>

Finished(h, e) ==
  /\ done' = done \cup {e}
  /\ page' = [page EXCEPT ![h].todo = @ \ {e}]
  /\ UNCHANGED <<unsyncedSeen, budget>>

FinishedWithDlq(h, e) ==
  /\ done' = done \cup {e}
  /\ page' = [page EXCEPT ![h].todo = @ \ {e}, ![h].dead = @ \cup Letters({e}, "failed")]
  /\ UNCHANGED <<unsyncedSeen, budget>>

FailedForGood(h, e) ==
  /\ page' = [page EXCEPT ![h].todo = @ \ {e}, ![h].dead = @ \cup Letters({e}, "failed")]
  /\ UNCHANGED <<done, unsyncedSeen, budget>>

NotYetSynced(h, e) ==
  /\ unsyncedSeen' = [unsyncedSeen EXCEPT ![e] = IF @ <= UnsyncedLimit + 1 THEN @ + 1 ELSE @]
  /\ page' = [page EXCEPT ![h].todo = @ \ {e}, ![h].unsynced = @ \cup {e}]
  /\ UNCHANGED <<done, budget>>

TransientError(h, e) ==
  /\ budget.transients < MaxTransients
  /\ Spend("transients")
  /\ page' = [page EXCEPT ![h].todo = @ \ {e}, ![h].transient = @ \cup {e}]
  /\ UNCHANGED <<done, unsyncedSeen>>

ProcessEvent(h, e) ==
  /\ pagePc[h] = "process"
  /\ e \in page[h].todo
  /\ \/ Finished(h, e) \/ FinishedWithDlq(h, e) \/ FailedForGood(h, e)
     \/ NotYetSynced(h, e) \/ TransientError(h, e)
  /\ UNCHANGED processing

(* The events of one kind go back to the queue on a message of their own,  *)
(* which carries the counter of that kind only, or are given up.           *)
Requeue(events, message) ==
  /\ queue' = IF events = {} THEN queue ELSE queue \cup {message}
  /\ nextId' = IF events = {} THEN nextId ELSE nextId + 1

GiveUp(h, events, cause) ==
  /\ page' = [page EXCEPT ![h].dead = @ \cup Letters(events, cause)]
  /\ UNCHANGED <<queue, nextId>>

RetryTransient(h) ==
  LET j == page[h] IN
  /\ pagePc[h] = "process"
  /\ j.todo = {}
  /\ IF j.message.transientRetries < TransientLimit
     THEN /\ Requeue(j.transient, [NewMessage(j.transient) EXCEPT
                       !.transientRetries = j.message.transientRetries + 1])
          /\ page' = page
     ELSE GiveUp(h, j.transient, "transient")
  /\ pagePc' = [pagePc EXCEPT ![h] = "unsynced"]
  /\ UNCHANGED <<paging, done, deadLetters, poisoned, unsyncedSeen, budget>>

(* Variants: one requeue a page; one counter for both kinds; the message   *)
(* made visible again as it was.                                           *)
RetryUnsyncedElse(h) ==
  LET j == page[h] IN
  /\ pagePc[h] = "unsynced"
  /\ IF j.transient = {} /\ j.message.unsyncedRetries < UnsyncedLimit
     THEN /\ Requeue(j.unsynced, [NewMessage(j.unsynced) EXCEPT
                       !.unsyncedRetries = j.message.unsyncedRetries + 1])
          /\ page' = page
     ELSE GiveUp(h, IF j.transient = {} THEN j.unsynced ELSE {}, "unsynced")
  /\ pagePc' = [pagePc EXCEPT ![h] = "dead"]
  /\ UNCHANGED <<paging, done, deadLetters, poisoned, unsyncedSeen, budget>>

RetryUnsyncedSharing(h) ==
  LET j == page[h]
      retries == j.message.unsyncedRetries + j.message.transientRetries
  IN
  /\ pagePc[h] = "unsynced"
  /\ IF retries < UnsyncedLimit
     THEN /\ Requeue(j.unsynced, [NewMessage(j.unsynced) EXCEPT
                       !.unsyncedRetries = retries + 1])
          /\ page' = page
     ELSE GiveUp(h, j.unsynced, "unsynced")
  /\ pagePc' = [pagePc EXCEPT ![h] = "dead"]
  /\ UNCHANGED <<paging, done, deadLetters, poisoned, unsyncedSeen, budget>>

RetryUnsyncedForever(h) ==
  LET j == page[h] IN
  /\ pagePc[h] = "unsynced"
  /\ queue' = IF j.unsynced = {} THEN queue
              ELSE queue \cup {[j.message EXCEPT !.events = j.unsynced, !.dequeues = 0]}
  /\ pagePc' = [pagePc EXCEPT ![h] = "dead"]
  /\ UNCHANGED <<paging, nextId, page, done, deadLetters, poisoned, unsyncedSeen, budget>>

RetryUnsynced(h) ==
  LET j == page[h] IN
  /\ pagePc[h] = "unsynced"
  /\ IF j.message.unsyncedRetries < UnsyncedLimit
     THEN /\ Requeue(j.unsynced, [NewMessage(j.unsynced) EXCEPT
                       !.unsyncedRetries = j.message.unsyncedRetries + 1])
          /\ page' = page
     ELSE GiveUp(h, j.unsynced, "unsynced")
  /\ pagePc' = [pagePc EXCEPT ![h] = "dead"]
  /\ UNCHANGED <<paging, done, deadLetters, poisoned, unsyncedSeen, budget>>

SendDeadLetter(h) ==
  /\ pagePc[h] = "dead"
  /\ \E d \in page[h].dead :
       /\ deadLetters' = deadLetters \cup {d}
       /\ page' = [page EXCEPT ![h].dead = @ \ {d}]
  /\ UNCHANGED <<paging, queue, nextId, done, poisoned, unsyncedSeen, budget, pagePc>>

(* The host deletes the message of an invocation that returned ...         *)
Complete(h) ==
  /\ pagePc[h] = "dead"
  /\ page[h].dead = {}
  /\ pagePc' = [pagePc EXCEPT ![h] = "idle"]
  /\ page' = [page EXCEPT ![h] = NoPage]
  /\ UNCHANGED <<paging, queue, nextId, done, deadLetters, poisoned, unsyncedSeen, budget>>

(* ... and delivers that of one that threw or stopped again, a few times.  *)
PageFails(h) ==
  LET m == page[h].message IN
  /\ pagePc[h] # "idle"
  /\ budget.faults < MaxFaults
  /\ Spend("faults")
  /\ IF m.dequeues < MaxDequeueCount
     THEN queue' = queue \cup {m} /\ poisoned' = poisoned
     ELSE queue' = queue /\ poisoned' = poisoned \cup m.events
  /\ pagePc' = [pagePc EXCEPT ![h] = "idle"]
  /\ page' = [page EXCEPT ![h] = NoPage]
  /\ UNCHANGED <<paging, nextId, done, deadLetters, unsyncedSeen>>

-----------------------------------------------------------------------------
StartStep(s) ==
  \/ QueryAppointments(s) \/ QueryPetitions(s) \/ SendPage(s) \/ Reject(s)
  \/ StoreAppointmentDate(s) \/ StorePetitionDate(s)

PageStep(h) ==
  \/ \E m \in queue : Receive(h, m)
  \/ \E e \in Events : ProcessEvent(h, e)
  \/ RetryTransient(h) \/ RetryUnsynced(h) \/ SendDeadLetter(h) \/ Complete(h)

Next ==
  \/ \E e \in Events : Commit(e)
  \/ \E s \in Starters : Start(s) \/ StartStep(s) \/ StartFails(s)
  \/ \E h \in Handlers : PageStep(h) \/ PageFails(h)

Spec == Init /\ [][Next]_vars

-----------------------------------------------------------------------------
(* Properties.                                                             *)

(* Types, and the retry counters within their limits. *)
TypeOK ==
  /\ committed \subseteq Events
  /\ watermark \in [Sources -> Nat]
  /\ queue \subseteq {m \in Message : m.dequeues < MaxDequeueCount}
  /\ nextId \in Nat \ {0}
  /\ done \subseteq Events
  /\ deadLetters \subseteq DeadLetter
  /\ poisoned \subseteq Events
  /\ unsyncedSeen \in [Events -> Nat]
  /\ budget \in [runs : Nat, faults : Nat, transients : Nat]
  /\ startPc \in [Starters -> {"idle", "appointments", "petitions", "queue", "store"}]
  /\ run \in [Starters -> Run]
  /\ pagePc \in [Handlers -> {"idle", "process", "unsynced", "dead"}]
  /\ page \in [Handlers -> Page]

(* Somebody still knows of the event: it was processed, it waits in a      *)
(* message, or an operator finds it on the DLQ or the poison queue.        *)
Accounted(e) ==
  \/ e \in done \cup DeadEvents \cup poisoned
  \/ \E m \in queue \cup InFlight : e \in m.events

(* No sync date is stored past a transaction that could still be lost:     *)
(* wherever exporters and page handlers fail, stop or overtake each other, *)
(* what the next export leaves out is accounted for.                       *)
NothingLost ==
  \A e \in committed : TxDate[e] <= watermark[Source[e]] => Accounted(e)

(* An event is given up for its unsynced case only after the promised      *)
(* number of attempts, over however many messages they were spread.        *)
UnsyncedGetsItsRetries ==
  \A d \in deadLetters :
    d.cause = "unsynced" => unsyncedSeen[d.event] >= UnsyncedLimit + 1

(* A transaction too large for the queue is never held back by it: once an *)
(* export has moved the date past it, it is on the DLQ.                    *)
OversizedIsReported ==
  \A e \in committed \cap Oversized :
    TxDate[e] <= watermark[Source[e]] => e \in DeadEvents

(* Once exports and errors stop, every message is worked off: nothing is   *)
(* retried for ever.                                                       *)
QueueDrains == <>[](queue = {} /\ InFlight = {})
=============================================================================
