-------------------------- MODULE TrusteeMigration --------------------------
(***************************************************************************)
(* The migration of trustees from ATS and the healing of their professional*)
(* ids from ACMS: function-apps/dataflows/migrations/migrate-trustees.ts,  *)
(* the use case migrate-trustees.ts and the state document both keep,      *)
(* trustee-migration-state.service.ts.                                     *)
(*                                                                         *)
(* The migration is a chain: each page of ATS records queues the next, and *)
(* the state document says where to resume.  The healing is a fan-out: all *)
(* pages are queued at once, their handlers run side by side, and each     *)
(* takes what it did off a counter of the state document.                  *)
(***************************************************************************)
EXTENDS Integers, FiniteSets

CONSTANTS
  TrusteeNames,   \* names with a state, by which all systems know a trustee
  NoTrustee,      \* of a professional whom no trustee matches
  TrusteeOf,      \* ATS records, numbered in order of TRU_ID
  HolderOf,       \* ACMS professional records, numbered as they are read
  AtsPageSize,    \* PAGE_SIZE
  HealPageSize,   \* HEAL_PAGE_SIZE
  Workers,        \* invocations at a time
  MaxDeliveries,  \* maxDequeueCount
  MaxStarts,      \* bound: start messages
  MaxEscapes,     \* bound: pages broken off by rate limiting
  MaxFailures     \* bound: calls that fail and invocations that stop

AtsRecords    == DOMAIN TrusteeOf
Professionals == DOMAIN HolderOf

ASSUME MigrationAssumption ==
  /\ AtsRecords \subseteq Nat \ {0} /\ IsFiniteSet(AtsRecords)
  /\ Professionals \subseteq Nat \ {0} /\ IsFiniteSet(Professionals)
  /\ \A r \in AtsRecords : TrusteeOf[r] \in TrusteeNames
  /\ \A p \in Professionals : HolderOf[p] \in TrusteeNames \cup {NoTrustee}
  /\ NoTrustee \notin TrusteeNames
  /\ AtsPageSize \in Nat \ {0} /\ HealPageSize \in Nat \ {0}
  /\ MaxDeliveries \in Nat \ {0}
  /\ MaxStarts \in Nat /\ MaxEscapes \in Nat /\ MaxFailures \in Nat

VARIABLES
  todIds,    \* the TOD ids of the trustee of each name; {}: no such trustee
  mapped,    \* the professionals whose id is mapped to a trustee
  doc,       \* TRUSTEE_MIGRATION_STATE
  queue,     \* the messages of all queues
  worker,    \* the invocations and their locals
  deleted,   \* the trustees were deleted and the state was not reset since
  givenUp,   \* ATS records given up since the migration was started afresh
  unmatched, \* heal-unmatched-professional-ids, since the healing began
  reported,  \* professionals of messages on the DLQ, poison or refused, since then
  sent,      \* messages ever sent
  starts,    \* start messages sent
  escapes,   \* pages broken off
  failures   \* failures so far

stores == <<todIds, mapped>>
told   == <<deleted, givenUp, unmatched, reported>>
migrationVars ==
  <<stores, doc, queue, worker, told, sent, starts, escapes, failures>>

-----------------------------------------------------------------------------
Statuses == {"none", "IN_PROGRESS", "COMPLETED", "FAILED"}
States   == [status : Statuses, cursor : Nat, heal : Statuses, remaining : Int]

NoState == [status |-> "none", cursor |-> 0, heal |-> "none", remaining |-> 0]
Fresh   == [NoState EXCEPT !.status = "IN_PROGRESS"]

Orders == {"resume", "reset", "deleteAll", "heal"}

(* A message: its id, its kind, the cursor of a page of the migration, the *)
(* records of a page of the healing, and how often it was dequeued.        *)
Messages == [id : Nat, kind : Orders \cup {"page", "healPage"}, cursor : Nat,
             records : SUBSET Professionals, tries : 0..MaxDeliveries]

Message(id, kind, cursor, records) ==
  [id |-> id, kind |-> kind, cursor |-> cursor, records |-> records, tries |-> 0]

(* The professionals a message is about.                                   *)
About(m) == IF m.kind \in {"heal", "deleteAll"} THEN Professionals ELSE m.records

(* An invocation: its next step, its message, the state it read first      *)
(* (currentState) and last (existingState), the records of its page and    *)
(* those still to process, the trustee it found, the status its page of    *)
(* the migration ends with, and of a page of the healing what it found     *)
(* unmatched, how many it processed and what the counter said.             *)
Idle == [pc |-> "idle", msg |-> Message(0, "resume", 0, {}), seen |-> NoState,
         was |-> NoState, page |-> {}, todo |-> {}, found |-> {},
         goal |-> "IN_PROGRESS", out |-> {}, done |-> 0, left |-> 0]

Invocations ==
  [pc : {"idle", "deleteTrustees", "deleteIds", "resetState", "getState", "startPage",
         "fetch", "find", "store", "ids", "update", "upsert", "return",
         "guard", "create", "initHeal", "sendPages", "records"},
   msg : Messages, seen : States, was : States, page : SUBSET AtsRecords,
   todo : SUBSET Nat, found : SUBSET AtsRecords,
   goal : Statuses, out : SUBSET Professionals, done : Nat, left : Int]

FirstStep(kind) ==
  CASE kind = "deleteAll"           -> "deleteTrustees"
    [] kind \in {"resume", "reset"} -> "getState"
    [] kind = "page"                -> "getState"
    [] kind = "heal"                -> "guard"
    [] kind = "healPage"            -> "records"

Least(S) == CHOOSE x \in S : \A y \in S : x <= y
Last(S)  == CHOOSE x \in S : \A y \in S : y <= x

InitMigration ==
  /\ todIds    = [t \in TrusteeNames |-> {}]
  /\ mapped    = {}
  /\ doc       = NoState
  /\ queue     = {}
  /\ worker    = [w \in Workers |-> Idle]
  /\ deleted   = FALSE
  /\ givenUp   = {}
  /\ unmatched = {}
  /\ reported  = {}
  /\ sent      = 0
  /\ starts    = 0
  /\ escapes   = 0
  /\ failures  = 0

-----------------------------------------------------------------------------
(* The queues and their host.                                              *)

At(w, pc)      == worker[w].pc = pc
Kind(w)        == worker[w].msg.kind
Goto(w, pc)    == worker' = [worker EXCEPT ![w].pc = pc]
Taken(m)       == \E w \in Workers : worker[w] # Idle /\ worker[w].msg = m
Fails          == failures < MaxFailures /\ failures' = failures + 1

(* An operator puts a start message on the queue. *)
Start(kind) ==
  /\ starts < MaxStarts
  /\ starts' = starts + 1
  /\ sent' = sent + 1
  /\ queue' = queue \cup {Message(sent + 1, kind, 0, {})}
  /\ UNCHANGED <<stores, doc, worker, told, escapes, failures>>

Take(w, m) ==
  /\ worker[w] = Idle
  /\ ~Taken(m)
  /\ LET delivered == [m EXCEPT !.tries = @ + 1] IN
     /\ queue' = (queue \ {m}) \cup {delivered}
     /\ worker' = [worker EXCEPT ![w] = [Idle EXCEPT !.pc = FirstStep(m.kind),
                                                     !.msg = delivered,
                                                     !.todo = m.records]]
  /\ UNCHANGED <<stores, doc, told, sent, starts, escapes, failures>>

(* The invocation returns: its message is deleted, its output bindings are *)
(* flushed.                                                                *)
Return(w, pages) ==
  /\ queue' = (queue \ {worker[w].msg}) \cup pages
  /\ worker' = [worker EXCEPT ![w] = Idle]
  /\ sent' = sent + Cardinality(pages)

(* The invocation throws or the host stops: the message is delivered again,*)
(* until it is poison.                                                     *)
Abort(w) ==
  /\ worker[w] # Idle
  /\ Fails
  /\ worker' = [worker EXCEPT ![w] = Idle]
  /\ LET m == worker[w].msg IN
     IF m.tries < MaxDeliveries
     THEN UNCHANGED <<queue, reported>>
     ELSE /\ queue' = queue \ {m}
          /\ reported' = reported \cup About(m)
  /\ UNCHANGED <<stores, doc, deleted, givenUp, unmatched, sent, starts, escapes>>

(* A call fails, the handler puts that on its DLQ and returns.             *)
PutOnDlq(w) ==
  /\ Fails
  /\ Return(w, {})
  /\ reported' = reported \cup About(worker[w].msg)

-----------------------------------------------------------------------------
(* handleStart.                                                            *)

DeleteTrustees(w) ==
  /\ At(w, "deleteTrustees")
  /\ todIds' = [t \in TrusteeNames |-> {}]
  /\ deleted' = TRUE
  /\ Goto(w, "deleteIds")
  /\ UNCHANGED <<mapped, doc, queue, givenUp, unmatched, reported, sent, starts, escapes, failures>>

DeleteProfessionalIds(w) ==
  /\ At(w, "deleteIds")
  /\ mapped' = {}
  /\ Goto(w, "resetState")
  /\ UNCHANGED <<todIds, doc, queue, told, sent, starts, escapes, failures>>

ResetMigrationState(w) ==
  /\ At(w, "resetState")
  /\ doc' = Fresh
  /\ deleted' = FALSE
  /\ Goto(w, "getState")
  /\ UNCHANGED <<stores, queue, givenUp, unmatched, reported, sent, starts, escapes, failures>>

DeleteFails(w) ==
  /\ worker[w].pc \in {"deleteTrustees", "deleteIds", "resetState"}
  /\ PutOnDlq(w)
  /\ UNCHANGED <<stores, doc, deleted, givenUp, unmatched, starts, escapes>>

(* getOrCreateMigrationState, in a start and in a page.  A read that fails *)
(* is taken for a state that is not there.                                 *)
Got(w, state) ==
  worker' = [worker EXCEPT ![w].seen = state,
                           ![w].pc = IF Kind(w) = "page" THEN "fetch" ELSE "startPage"]

ReadState(w) ==
  /\ At(w, "getState")
  /\ Kind(w) \notin {"reset", "deleteAll"}
  /\ doc # NoState
  /\ Got(w, doc)
  /\ UNCHANGED <<stores, doc, queue, told, sent, starts, escapes, failures>>

CreateState(w) ==
  /\ At(w, "getState")
  /\ IF Kind(w) \in {"reset", "deleteAll"} \/ doc = NoState
     THEN UNCHANGED failures
     ELSE Fails
  /\ doc' = Fresh
  /\ IF Kind(w) \in {"reset", "deleteAll"}
     THEN givenUp' = {} /\ deleted' = FALSE
     ELSE UNCHANGED <<givenUp, deleted>>
  /\ Got(w, Fresh)
  /\ UNCHANGED <<stores, queue, unmatched, reported, sent, starts, escapes>>

StateFails(w) ==
  /\ At(w, "getState")
  /\ PutOnDlq(w)
  /\ UNCHANGED <<stores, doc, deleted, givenUp, unmatched, starts, escapes>>

(* The first page, or the next one, unless all were processed.             *)
StartPage(w) ==
  /\ At(w, "startPage")
  /\ LET seen == worker[w].seen IN
     Return(w, IF seen.status = "COMPLETED" THEN {}
               ELSE {Message(sent + 1, "page", seen.cursor, {})})
  /\ UNCHANGED <<stores, doc, told, starts, escapes, failures>>

-----------------------------------------------------------------------------
(* handlePage.                                                             *)

PageAfter(cursor) ==
  {r \in AtsRecords : /\ r > cursor
                      /\ Cardinality({x \in AtsRecords : cursor < x /\ x < r}) < AtsPageSize}

GetPageOfTrustees(w) ==
  /\ At(w, "fetch")
  /\ LET page == PageAfter(worker[w].msg.cursor) IN
     worker' = [worker EXCEPT ![w].page = page, ![w].todo = page,
                              ![w].goal = IF Cardinality(page) = AtsPageSize
                                          THEN "IN_PROGRESS" ELSE "COMPLETED",
                              ![w].pc = IF page = {} THEN "update" ELSE "find"]
  /\ UNCHANGED <<stores, doc, queue, told, sent, starts, escapes, failures>>

GetPageFails(w) ==
  /\ At(w, "fetch")
  /\ PutOnDlq(w)
  /\ UNCHANGED <<stores, doc, deleted, givenUp, unmatched, starts, escapes>>

(* processPageOfTrustees cannot begin: the migration failed. *)
FailMigration(w) ==
  /\ At(w, "find")
  /\ worker[w].todo = worker[w].page
  /\ Fails
  /\ worker' = [worker EXCEPT ![w].page = {}, ![w].todo = {}, ![w].goal = "FAILED",
                              ![w].pc = "update"]
  /\ UNCHANGED <<stores, doc, queue, told, sent, starts, escapes>>

(* Records of one trustee in a page are processed as one.                  *)
Group(w) == LET t == TrusteeOf[Least(worker[w].todo)] IN
            {r \in worker[w].todo : TrusteeOf[r] = t}

TrusteeAt(w) == TrusteeOf[Least(worker[w].todo)]

NextGroup(w) ==
  worker' = [worker EXCEPT ![w].todo = @ \ Group(w), ![w].found = {},
                           ![w].pc = IF worker[w].todo = Group(w) THEN "update" ELSE "find"]

FindTrusteeByNameAndState(w) ==
  /\ At(w, "find")
  /\ worker' = [worker EXCEPT ![w].found = todIds[TrusteeAt(w)], ![w].pc = "store"]
  /\ UNCHANGED <<stores, doc, queue, told, sent, starts, escapes, failures>>

(* Variant: a trustee that is there takes the TOD ids of this page only.   *)
StoreGroup(w) ==
  /\ At(w, "store")
  /\ todIds' = [todIds EXCEPT ![TrusteeAt(w)] = Group(w)]
  /\ Goto(w, "ids")
  /\ UNCHANGED <<mapped, doc, queue, told, sent, starts, escapes, failures>>

(* A trustee that is there keeps its TOD ids.                              *)
StoreTrustee(w) ==
  /\ At(w, "store")
  /\ todIds' = [todIds EXCEPT ![TrusteeAt(w)] = worker[w].found \cup Group(w)]
  /\ Goto(w, "ids")
  /\ UNCHANGED <<mapped, doc, queue, told, sent, starts, escapes, failures>>

(* The ids ACMS has under the name; one that fails is left out.            *)
UpsertProfessionalIds(w) ==
  /\ At(w, "ids")
  /\ \E stored \in SUBSET {p \in Professionals : HolderOf[p] = TrusteeAt(w)} :
       mapped' = mapped \cup stored
  /\ NextGroup(w)
  /\ UNCHANGED <<todIds, doc, queue, told, sent, starts, escapes, failures>>

(* Three attempts at the trustee failed: it is counted and passed over.    *)
GiveUpTrustee(w) ==
  /\ worker[w].pc \in {"find", "store"}
  /\ Fails
  /\ givenUp' = givenUp \cup Group(w)
  /\ NextGroup(w)
  /\ UNCHANGED <<stores, doc, queue, deleted, unmatched, reported, sent, starts, escapes>>

-----------------------------------------------------------------------------
(* updateMigrationState: the document is read, and written as a whole.     *)

ReadExisting(w) ==
  /\ At(w, "update")
  /\ doc # NoState
  /\ worker' = [worker EXCEPT ![w].was = doc, ![w].pc = "upsert"]
  /\ UNCHANGED <<stores, doc, queue, told, sent, starts, escapes, failures>>

(* A page writes all it read at its beginning, with what it has changed.   *)
PageState(w) ==
  LET seen == worker[w].seen
      page == worker[w].page
      kept == IF seen.heal = "none" THEN worker[w].was ELSE seen
  IN  [kept EXCEPT !.status = worker[w].goal,
                   !.cursor = IF page = {} THEN seen.cursor ELSE Last(page)]

UpsertPage(w) ==
  /\ At(w, "upsert")
  /\ Kind(w) = "page"
  /\ doc' = PageState(w)
  /\ Goto(w, "return")
  /\ UNCHANGED <<stores, queue, told, sent, starts, escapes, failures>>

EndPage(w) ==
  /\ At(w, "return")
  /\ Kind(w) = "page"
  /\ Return(w, IF worker[w].goal = "IN_PROGRESS"
               THEN {Message(sent + 1, "page", Last(worker[w].page), {})}
               ELSE {})
  /\ UNCHANGED <<stores, doc, told, starts, escapes, failures>>

UpdatePageFails(w) ==
  /\ worker[w].pc \in {"update", "upsert"}
  /\ Kind(w) = "page"
  /\ PutOnDlq(w)
  /\ UNCHANGED <<stores, doc, deleted, givenUp, unmatched, starts, escapes>>

-----------------------------------------------------------------------------
(* handleStart with heal.                                                  *)

(* Refused with a warning while the migration runs, and when done already. *)
(* A state that cannot be read is taken for none.                          *)
ReadHealState(w) ==
  /\ At(w, "guard")
  /\ IF doc.status = "IN_PROGRESS" \/ doc.heal = "COMPLETED"
     THEN Return(w, {})
     ELSE Goto(w, "create") /\ UNCHANGED <<queue, sent>>
  /\ reported' = IF doc.status = "IN_PROGRESS" THEN Professionals ELSE reported
  /\ UNCHANGED <<stores, doc, deleted, givenUp, unmatched, starts, escapes, failures>>

HealStateUnread(w) ==
  /\ At(w, "guard")
  /\ Fails
  /\ Goto(w, "create")
  /\ UNCHANGED <<stores, doc, queue, told, sent, starts, escapes>>

Healing(state) ==
  [state EXCEPT !.heal = IF Professionals = {} THEN "COMPLETED" ELSE "IN_PROGRESS",
                !.remaining = Cardinality(Professionals)]

(* initHealState: the state is created if it is missing, or cannot be      *)
(* read; then the counters are written, before any page is sent.           *)
CreateHealState(w) ==
  /\ At(w, "create")
  /\ \/ doc # NoState /\ UNCHANGED <<doc, failures>>
     \/ doc' = Fresh /\ IF doc = NoState THEN UNCHANGED failures ELSE Fails
  /\ Goto(w, "initHeal")
  /\ UNCHANGED <<stores, queue, told, sent, starts, escapes>>

InitHealState(w) ==
  /\ At(w, "initHeal")
  /\ doc' = Healing(doc)
  /\ unmatched' = {} /\ reported' = {}
  /\ Goto(w, "sendPages")
  /\ UNCHANGED <<stores, queue, deleted, givenUp, sent, starts, escapes, failures>>

(* ACMS cannot be read, or the state not be written. *)
HealFails(w) ==
  /\ worker[w].pc \in {"guard", "create", "initHeal"}
  /\ PutOnDlq(w)
  /\ UNCHANGED <<stores, doc, deleted, givenUp, unmatched, starts, escapes>>

PagesOf(S) ==
  {{p \in S : Cardinality({x \in S : x < p}) \div HealPageSize = i} :
     i \in {Cardinality({x \in S : x < p}) \div HealPageSize : p \in S}}

(* A page is numbered by its first record. *)
SendHealPages(w) ==
  /\ At(w, "sendPages")
  /\ Return(w, {Message(sent + 1 + Cardinality({q \in PagesOf(Professionals) : Least(q) < Least(page)}),
                        "healPage", 0, page) : page \in PagesOf(Professionals)})
  /\ UNCHANGED <<stores, doc, told, starts, escapes, failures>>

-----------------------------------------------------------------------------
(* handleHealPage.                                                         *)

NextRecord(w) == Least(worker[w].todo)

(* One record done: it is taken off, and counted. *)
Counted(w, out) ==
  worker' = [worker EXCEPT ![w].todo = @ \ {NextRecord(w)},
                           ![w].done = @ + 1, ![w].out = @ \cup out]

AtRecord(w) == At(w, "records") /\ worker[w].todo # {}

(* The page cannot begin. *)
BackfillFails(w) ==
  /\ At(w, "records")
  /\ worker[w].todo = worker[w].msg.records
  /\ PutOnDlq(w)
  /\ UNCHANGED <<stores, doc, deleted, givenUp, unmatched, starts, escapes>>

AlreadyMapped(w) ==
  /\ AtRecord(w)
  /\ NextRecord(w) \in mapped
  /\ Counted(w, {})
  /\ UNCHANGED <<stores, doc, queue, told, sent, starts, escapes, failures>>

CreateMapping(w) ==
  /\ AtRecord(w)
  /\ LET p == NextRecord(w) IN
     /\ p \notin mapped
     /\ HolderOf[p] # NoTrustee
     /\ todIds[HolderOf[p]] # {}
     /\ mapped' = mapped \cup {p}
  /\ Counted(w, {})
  /\ UNCHANGED <<todIds, doc, queue, told, sent, starts, escapes, failures>>

(* There is no trustee, or a call failed other than by rate limiting.      *)
Unmatched(w) ==
  /\ AtRecord(w)
  /\ LET p == NextRecord(w) IN
     /\ IF p \notin mapped /\ (HolderOf[p] = NoTrustee \/ todIds[HolderOf[p]] = {})
        THEN UNCHANGED failures
        ELSE Fails
     /\ Counted(w, {p})
  /\ UNCHANGED <<stores, doc, queue, told, sent, starts, escapes>>

(* Variant: the rest is counted when it is sent. *)
CountReEnqueued(w) ==
  /\ AtRecord(w)
  /\ escapes < MaxEscapes
  /\ escapes' = escapes + 1
  /\ sent' = sent + 1
  /\ queue' = queue \cup {Message(sent + 1, "healPage", 0, worker[w].todo)}
  /\ worker' = [worker EXCEPT ![w].done = @ + Cardinality(worker[w].todo), ![w].todo = {}]
  /\ UNCHANGED <<stores, doc, told, starts, failures>>

(* Rate limiting outlasts the time there is: the rest becomes a page of    *)
(* its own.                                                                *)
ReEnqueueHealPage(w) ==
  /\ AtRecord(w)
  /\ escapes < MaxEscapes
  /\ escapes' = escapes + 1
  /\ sent' = sent + 1
  /\ queue' = queue \cup {Message(sent + 1, "healPage", 0, worker[w].todo)}
  /\ worker' = [worker EXCEPT ![w].todo = {}]
  /\ UNCHANGED <<stores, doc, told, starts, failures>>

(* Variant: the rest that could not be sent is dropped. *)
DropRest(w) ==
  /\ AtRecord(w)
  /\ escapes < MaxEscapes
  /\ escapes' = escapes + 1
  /\ Fails
  /\ worker' = [worker EXCEPT ![w].done = @ + Cardinality(worker[w].todo), ![w].todo = {}]
  /\ UNCHANGED <<stores, doc, queue, told, sent, starts>>

(* That fails: the rest is reported as unmatched. *)
ReEnqueueFails(w) ==
  /\ AtRecord(w)
  /\ escapes < MaxEscapes
  /\ escapes' = escapes + 1
  /\ Fails
  /\ worker' = [worker EXCEPT ![w].done = @ + Cardinality(worker[w].todo),
                              ![w].out = @ \cup worker[w].todo, ![w].todo = {}]
  /\ UNCHANGED <<stores, doc, queue, told, sent, starts>>

(* recordHealPageResult: the counter is taken down at once, or only read   *)
(* if nothing was processed; then the state is updated.                    *)
RecordHealPageResult(w) ==
  /\ At(w, "records")
  /\ worker[w].todo = {}
  /\ doc' = [doc EXCEPT !.remaining = @ - worker[w].done]
  /\ worker' = [worker EXCEPT ![w].left = doc.remaining - worker[w].done, ![w].pc = "update"]
  /\ UNCHANGED <<stores, queue, told, sent, starts, escapes, failures>>

UpsertHealPage(w) ==
  /\ At(w, "upsert")
  /\ Kind(w) = "healPage"
  /\ doc' = [worker[w].was EXCEPT !.heal = IF worker[w].left <= 0 THEN "COMPLETED" ELSE @]
  /\ Goto(w, "return")
  /\ UNCHANGED <<stores, queue, told, sent, starts, escapes, failures>>

(* A failure to record goes to the DLQ and the page ends like any other.   *)
RecordFails(w) ==
  /\ Kind(w) = "healPage"
  /\ \/ At(w, "records") /\ worker[w].todo = {}
     \/ worker[w].pc \in {"update", "upsert"}
  /\ Fails
  /\ Goto(w, "return")
  /\ UNCHANGED <<stores, doc, queue, told, sent, starts, escapes>>

EndHealPage(w) ==
  /\ At(w, "return")
  /\ Kind(w) = "healPage"
  /\ Return(w, {})
  /\ unmatched' = unmatched \cup worker[w].out
  /\ UNCHANGED <<stores, doc, deleted, givenUp, reported, starts, escapes, failures>>

-----------------------------------------------------------------------------
StartStep(w) ==
  \/ DeleteTrustees(w) \/ DeleteProfessionalIds(w) \/ ResetMigrationState(w) \/ DeleteFails(w)
  \/ ReadState(w) \/ CreateState(w) \/ StateFails(w) \/ StartPage(w)

PageStep(w) ==
  \/ GetPageOfTrustees(w) \/ GetPageFails(w) \/ FailMigration(w)
  \/ FindTrusteeByNameAndState(w) \/ StoreTrustee(w) \/ UpsertProfessionalIds(w)
  \/ GiveUpTrustee(w)
  \/ ReadExisting(w) \/ UpsertPage(w) \/ UpdatePageFails(w) \/ EndPage(w)

HealStep(w) ==
  \/ ReadHealState(w) \/ HealStateUnread(w)
  \/ CreateHealState(w) \/ InitHealState(w) \/ HealFails(w) \/ SendHealPages(w)
  \/ BackfillFails(w)
  \/ AlreadyMapped(w) \/ CreateMapping(w) \/ Unmatched(w)
  \/ ReEnqueueHealPage(w) \/ ReEnqueueFails(w)
  \/ RecordHealPageResult(w) \/ UpsertHealPage(w) \/ RecordFails(w) \/ EndHealPage(w)

NextMigration ==
  \/ \E kind \in Orders : Start(kind)
  \/ \E w \in Workers : \/ \E m \in queue : Take(w, m)
                        \/ StartStep(w) \/ PageStep(w) \/ HealStep(w) \/ Abort(w)

MigrationSpec == InitMigration /\ [][NextMigration]_migrationVars

(* The operators send a start message only when everything came to rest.   *)
OneAtATime == starts' # starts => queue = {}

AloneSpec == InitMigration /\ [][NextMigration /\ OneAtATime]_migrationVars

-----------------------------------------------------------------------------
(* Properties.                                                             *)

MigrationTypeOK ==
  /\ todIds \in [TrusteeNames -> SUBSET AtsRecords]
  /\ {mapped, unmatched, reported} \subseteq SUBSET Professionals
  /\ doc \in States
  /\ queue \subseteq Messages
  /\ worker \in [Workers -> Invocations]
  /\ deleted \in BOOLEAN
  /\ givenUp \subseteq AtsRecords
  /\ sent \in Nat
  /\ starts \in 0..MaxStarts /\ escapes \in 0..MaxEscapes /\ failures \in 0..MaxFailures

Quiet == queue = {}

(* When the state says that the migration is completed, every ATS record   *)
(* is a TOD id of the trustee of its name, or was given up, however often  *)
(* the chain broke off and was resumed.  (Not after a deletion that broke  *)
(* off before the state was reset: the rest is resumed as if nothing were  *)
(* missing.)                                                               *)
CompletedIsMigrated ==
  doc.status = "COMPLETED" /\ ~deleted =>
    \A r \in AtsRecords : r \in todIds[TrusteeOf[r]] \cup givenUp

(* Once a healing has begun, every professional record is mapped, on the   *)
(* queue of the unmatched or otherwise reported, or in a message that      *)
(* somebody will take.                                                     *)
HealLosesNothing ==
  doc.heal # "none" =>
    \A p \in Professionals :
      \/ p \in mapped \cup unmatched \cup reported
      \/ \E m \in queue : p \in About(m)

(* As long as nothing failed, the healing is only reported as completed    *)
(* once the last record was processed, however its pages are split.        *)
HealedIsHealed ==
  failures = 0 /\ doc.heal = "COMPLETED" =>
    \A p \in Professionals :
      \/ p \in mapped \cup unmatched
      \/ \E w \in Workers : p \in worker[w].out
      \/ \E m \in queue : m.kind = "deleteAll"

(* What the comments promise: the counter converges to 0, so that a        *)
(* healing none of whose messages is left is completed.                    *)
HealConverges ==
  failures = 0 /\ Quiet /\ doc.heal # "none" => doc.heal = "COMPLETED"
=============================================================================
