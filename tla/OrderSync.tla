----------------------------- MODULE OrderSync -----------------------------
(***************************************************************************)
(* Court orders become tasks: OrdersUseCase.syncOrders reads the transfer  *)
(* and consolidation orders of DXTR that follow a stored transaction id    *)
(* (adapters/gateways/dxtr/orders.dxtr.gateway.ts) and writes a task for   *)
(* each; users approve or reject the transfers (updateTransferOrder).      *)
(*                                                                         *)
(* DXTR takes new transactions between any two of the sync's queries, any  *)
(* call may fail, and nothing is done in a transaction.  One action stands *)
(* for one awaited call.  Deciding a consolidation is the subject of       *)
(* Consolidations; here a decision only takes its pending order away.      *)
(***************************************************************************)
EXTENDS Naturals, FiniteSets

CONSTANTS
  Seeds,       \* transaction ids the sync may have been seeded with
  Targets,     \* cases a transfer may go to
  NoTarget,
  Tens, Width, \* the powers of ten up to Width, which no id reaches
  Users,       \* PATCH requests, one decision each
  MaxCommits,  \* bound: how many orders the courts enter
  MaxSyncs,    \* bound: how often the timer fires
  MaxFaults    \* bound: how many calls fail in all

ASSUME TensAssumption ==
  /\ Tens \subseteq Nat \ {0} /\ Width \in Tens
  /\ \A t \in Tens : \E s \in Tens : s * t = Width
  /\ \A t \in Tens : t = 1 \/ \E s \in Tens : t = 10 * s
  /\ \A n \in 1..(Width - 1) : \E t \in Tens : n * t < Width /\ Width <= 10 * n * t
ASSUME SeedAssumption   == Seeds \subseteq 1..(Width - 1) /\ Seeds # {}
ASSUME TargetAssumption == NoTarget \notin Targets
ASSUME BoundAssumption  ==
  MaxCommits \in Nat /\ MaxSyncs \in Nat /\ MaxFaults \in Nat

VARIABLES
  dxtr,        \* AO_TX: the court orders, [id, kind]
  lastTx,      \* the newest transaction id
  txId,        \* ORDERS_SYNC_STATE.txId
  orders,      \* TransferOrder documents
  nextDoc,     \* source of document ids
  pendingJobs, \* ConsolidationOrder documents with id <job>/pending
  made,        \* every pending order that was ever written
  transfers,   \* TRANSFER_FROM and TRANSFER_TO documents of the cases
  audit,       \* AUDIT_TRANSFER documents, [doc, after]
  pc,          \* the call the sync, and each user, is about to make
  sync,        \* locals of syncOrders
  user,        \* locals of updateTransferOrder
  late,        \* transactions entered while a sync was reading
  syncs, faults

source  == <<dxtr, lastTx, late>>
tasks   == <<orders, nextDoc, pendingJobs, made>>
cases   == <<transfers, audit>>
counts  == <<syncs, faults>>
vars    == <<source, txId, tasks, cases, pc, sync, user, counts>>

-----------------------------------------------------------------------------
Kinds        == {"transfer", "consolidation"}
Transactions == [id : Nat, kind : Kinds]
Statuses     == {"pending", "approved", "rejected"}
Orders       == [doc : Nat, tx : Nat, status : Statuses,
                 newCase : Targets \cup {NoTarget}]
References   == [type : {"from", "to"}, doc : Nat, newCase : Targets]
Actions      == [status : {"approved"}, newCase : Targets]
                  \cup [status : {"rejected"}, newCase : {NoTarget}]

Sync   == "sync"
Actors == Users \cup {Sync}
Labels == {"idle", "orders", "dockets", "jobs", "jobDockets", "createMany",
           "history", "countJobs", "createJobs", "store",
           "update", "reread", "from", "to", "audit", "done"}

ASSUME UserAssumption == Sync \notin Users

Goto(p, label) == pc' = [pc EXCEPT ![p] = label]

Ids(kind)          == {t.id : t \in {u \in dxtr : u.kind = kind}}
After(kind, start) == {id \in Ids(kind) : id > start}

NoSync == [start |-> 0, found |-> {}, maxTransfer |-> 0, jobs |-> {},
           max |-> 0, news |-> {}]
NoAction == [status |-> "rejected", newCase |-> NoTarget]
NoUser == [action |-> NoAction, order |-> 0, after |-> NoAction]

Init ==
  /\ dxtr = {}
  /\ lastTx \in Seeds
  /\ txId = lastTx
  /\ orders = {}
  /\ nextDoc = 1
  /\ pendingJobs = {}
  /\ made = {}
  /\ transfers = {}
  /\ audit = {}
  /\ pc = [p \in Actors |-> "idle"]
  /\ sync = NoSync
  /\ user = [u \in Users |-> NoUser]
  /\ late = {}
  /\ syncs = 0
  /\ faults = 0

-----------------------------------------------------------------------------
(* DXTR.  A job's orders are entered together: one transaction here.       *)

Reading == pc[Sync] \in {"orders", "dockets", "jobs", "jobDockets"}

Commit(kind) ==
  /\ Cardinality(dxtr) < MaxCommits
  /\ lastTx' = lastTx + 1
  /\ dxtr' = dxtr \cup {[id |-> lastTx + 1, kind |-> kind]}
  /\ late' = IF Reading THEN late \cup {lastTx + 1} ELSE late
  /\ UNCHANGED <<txId, tasks, cases, pc, sync, user, counts>>

-----------------------------------------------------------------------------
(* getOrderSync.                                                           *)

Start ==
  /\ pc[Sync] = "idle"
  /\ syncs < MaxSyncs
  /\ syncs' = syncs + 1
  /\ sync' = [NoSync EXCEPT !.start = txId]
  /\ Goto(Sync, "orders")
  /\ UNCHANGED <<source, txId, tasks, cases, user, faults>>

ReadOrders ==
  /\ pc[Sync] = "orders"
  /\ sync' = [sync EXCEPT !.found = After("transfer", sync.start)]
  /\ Goto(Sync, "dockets")
  /\ UNCHANGED <<source, txId, tasks, cases, user, counts>>

(* processDocketEntries: the largest id, as a number (a set of that one).  *)
LargestIds(kind) ==
  {n \in {sync.start} \cup After(kind, sync.start) :
     \A k \in After(kind, sync.start) : k <= n}

ReadDockets ==
  /\ pc[Sync] = "dockets"
  /\ \E n \in LargestIds("transfer") : sync' = [sync EXCEPT !.maxTransfer = n]
  /\ Goto(Sync, "jobs")
  /\ UNCHANGED <<source, txId, tasks, cases, user, counts>>

ReadJobs ==
  /\ pc[Sync] = "jobs"
  /\ sync' = [sync EXCEPT !.jobs = After("consolidation", sync.start)]
  /\ Goto(Sync, "jobDockets")
  /\ UNCHANGED <<source, txId, tasks, cases, user, counts>>

(* The two largest ids are compared as the strings they are kept as:       *)
(* digit by digit from the left, so 9 comes after 10: as numbers padded    *)
(* with zeros to one width, and of two that are then the same the longer.  *)
Pads(n)   == {t \in Tens : n * t < Width /\ Width <= 10 * n * t}
Padded(n) == n * (CHOOSE t \in Pads(n) : TRUE)
FollowsAsString(a, b) ==
  \/ Padded(a) > Padded(b)
  \/ Padded(a) = Padded(b) /\ a > b

(* Variant: the smaller of the two is kept.                                *)
FirstTxId(a, b) == IF FollowsAsString(a, b) THEN b ELSE a

LaterTxId(a, b) == IF FollowsAsString(a, b) THEN a ELSE b

ReadJobDockets ==
  /\ pc[Sync] = "jobDockets"
  /\ \E n \in LargestIds("consolidation") :
       sync' = [sync EXCEPT !.max = LaterTxId(sync.maxTransfer, n)]
  /\ Goto(Sync, "createMany")
  /\ UNCHANGED <<source, txId, tasks, cases, user, counts>>

-----------------------------------------------------------------------------
(* syncOrders, from the tasks on.                                          *)

NewOrder(id) == [doc |-> id, tx |-> id, status |-> "pending", newCase |-> NoTarget]

(* insertMany; ids are given in some order. *)
CreateMany ==
  LET n == Cardinality(sync.found)
      rank(id) == nextDoc - 1 + Cardinality({k \in sync.found : k <= id})
  IN
  /\ pc[Sync] = "createMany"
  /\ orders' = orders \cup {[NewOrder(id) EXCEPT !.doc = rank(id)] : id \in sync.found}
  /\ nextDoc' = nextDoc + n
  /\ sync' = [sync EXCEPT !.news = {rank(id) : id \in sync.found}]
  /\ Goto(Sync, "history")
  /\ UNCHANGED <<source, txId, pendingJobs, made, cases, user, counts>>

WriteHistory ==
  /\ pc[Sync] = "history"
  /\ IF sync.news = {}
     THEN Goto(Sync, "countJobs") /\ UNCHANGED <<audit, sync>>
     ELSE \E doc \in sync.news :
            /\ audit' = audit \cup {[doc |-> doc, after |-> "pending", newCase |-> NoTarget]}
            /\ sync' = [sync EXCEPT !.news = @ \ {doc}]
            /\ UNCHANGED pc
  /\ UNCHANGED <<source, txId, tasks, transfers, user, counts>>

(* Variant: a job's pending order is written whenever the job is read.     *)
CountNothing ==
  /\ pc[Sync] = "countJobs"
  /\ IF sync.jobs = {}
     THEN Goto(Sync, "store") /\ UNCHANGED sync
     ELSE \E job \in sync.jobs :
            sync' = [sync EXCEPT !.news = {job}] /\ Goto(Sync, "createJobs")
  /\ UNCHANGED <<source, txId, tasks, cases, user, counts>>

(* count(<job>/pending) and create, one job after the other; their case    *)
(* history is left out.                                                    *)
CountJobs ==
  /\ pc[Sync] = "countJobs"
  /\ IF sync.jobs = {}
     THEN Goto(Sync, "store") /\ UNCHANGED sync
     ELSE \E job \in sync.jobs :
            IF \E p \in pendingJobs : p.job = job
            THEN sync' = [sync EXCEPT !.jobs = @ \ {job}] /\ UNCHANGED pc
            ELSE sync' = [sync EXCEPT !.news = {job}] /\ Goto(Sync, "createJobs")
  /\ UNCHANGED <<source, txId, tasks, cases, user, counts>>

CreateJob ==
  /\ pc[Sync] = "createJobs"
  /\ \E job \in sync.news :
       /\ pendingJobs' = pendingJobs \cup {[job |-> job, doc |-> nextDoc]}
       /\ made' = made \cup {[job |-> job, doc |-> nextDoc]}
       /\ sync' = [sync EXCEPT !.jobs = @ \ {job}, !.news = {}]
  /\ nextDoc' = nextDoc + 1
  /\ Goto(Sync, "countJobs")
  /\ UNCHANGED <<source, txId, orders, cases, user, counts>>

Store ==
  /\ pc[Sync] = "store"
  /\ txId' = sync.max
  /\ sync' = NoSync
  /\ Goto(Sync, "idle")
  /\ UNCHANGED <<source, tasks, cases, user, counts>>

(* Variant: the id is stored in any case. *)
SyncFailsStoring ==
  /\ pc[Sync] # "idle"
  /\ faults < MaxFaults
  /\ faults' = faults + 1
  /\ txId' = IF sync.max = 0 THEN txId ELSE sync.max
  /\ sync' = NoSync
  /\ Goto(Sync, "idle")
  /\ UNCHANGED <<source, tasks, cases, user, syncs>>

(* A query or a write throws, or the host stops: the timer comes again.    *)
SyncFails ==
  /\ pc[Sync] # "idle"
  /\ faults < MaxFaults
  /\ faults' = faults + 1
  /\ sync' = NoSync
  /\ Goto(Sync, "idle")
  /\ UNCHANGED <<source, txId, tasks, cases, user, syncs>>

SyncStep ==
  \/ Start \/ ReadOrders \/ ReadDockets \/ ReadJobs \/ ReadJobDockets
  \/ CreateMany \/ WriteHistory \/ CountJobs \/ CreateJob \/ Store

-----------------------------------------------------------------------------
(* updateTransferOrder: read, update, read again, and the documents of the *)
(* two cases.  Nothing asks whether the order is still pending.            *)

Order(doc) == CHOOSE o \in orders : o.doc = doc

Decide(u) ==
  /\ pc[u] = "idle"
  /\ \E o \in orders, action \in Actions :
       user' = [user EXCEPT ![u] = [NoUser EXCEPT !.action = action, !.order = o.doc]]
  /\ Goto(u, "update")
  /\ UNCHANGED <<source, txId, tasks, cases, sync, counts>>

(* update replaces the order only if it was approved; a replacement that   *)
(* changes nothing is answered with a NotFoundError.                       *)
Update(u) ==
  LET o   == Order(user[u].order)
      act == user[u].action
      new == [o EXCEPT !.status = act.status, !.newCase = act.newCase]
  IN
  /\ pc[u] = "update"
  /\ IF act.status # "approved"
     THEN Goto(u, "reread") /\ UNCHANGED orders
     ELSE IF new = o
          THEN Goto(u, "done") /\ UNCHANGED orders
          ELSE /\ orders' = (orders \ {o}) \cup {new}
               /\ Goto(u, "reread")
  /\ UNCHANGED <<source, txId, nextDoc, pendingJobs, made, cases, sync, user, counts>>

Reread(u) ==
  LET o == Order(user[u].order) IN
  /\ pc[u] = "reread"
  /\ user' = [user EXCEPT ![u].after = [status |-> o.status, newCase |-> o.newCase]]
  /\ Goto(u, IF o.status = "approved" THEN "from" ELSE "audit")
  /\ UNCHANGED <<source, txId, tasks, cases, sync, counts>>

(* Variant: a case that has its transfer document gets no other. *)
ReferOnce(u, label, next) ==
  /\ pc[u] = label
  /\ transfers' = IF \E r \in transfers : r.type = label /\ r.doc = user[u].order
                  THEN transfers
                  ELSE transfers \cup {[type |-> label, doc |-> user[u].order,
                                        newCase |-> user[u].after.newCase]}
  /\ Goto(u, next)
  /\ UNCHANGED <<source, txId, tasks, audit, sync, user, counts>>

Refer(u, label, next) ==
  /\ pc[u] = label
  /\ transfers' = transfers \cup
       {[type |-> label, doc |-> user[u].order, newCase |-> user[u].after.newCase]}
  /\ Goto(u, next)
  /\ UNCHANGED <<source, txId, tasks, audit, sync, user, counts>>

CreateTransferFrom(u) == Refer(u, "from", "to")
CreateTransferTo(u)   == Refer(u, "to", "audit")

CreateHistory(u) ==
  /\ pc[u] = "audit"
  /\ audit' = audit \cup {[doc |-> user[u].order, after |-> user[u].after.status,
                           newCase |-> user[u].after.newCase]}
  /\ Goto(u, "done")
  /\ UNCHANGED <<source, txId, tasks, transfers, sync, user, counts>>

DecisionFails(u) ==
  /\ pc[u] \notin {"idle", "done"}
  /\ faults < MaxFaults
  /\ faults' = faults + 1
  /\ Goto(u, "done")
  /\ UNCHANGED <<source, txId, tasks, cases, sync, user, syncs>>

(* A consolidation is decided as a whole. *)
DecideJob ==
  /\ \E p \in pendingJobs : pendingJobs' = pendingJobs \ {p}
  /\ UNCHANGED <<source, txId, orders, nextDoc, made, cases, pc, sync, user, counts>>

Next ==
  \/ \E kind \in Kinds : Commit(kind)
  \/ SyncStep \/ SyncFails
  \/ \E u \in Users :
       \/ Decide(u) \/ Update(u) \/ Reread(u) \/ CreateTransferFrom(u)
       \/ CreateTransferTo(u) \/ CreateHistory(u) \/ DecisionFails(u)
  \/ DecideJob

Spec == Init /\ [][Next]_vars

-----------------------------------------------------------------------------
(* Properties.                                                             *)

Jobs    == [job : Nat, doc : Nat]
Entries == [doc : Nat, after : Statuses, newCase : Targets \cup {NoTarget}]

(* Every variable keeps its type, and an id stands for one order. *)
TypeOK ==
  /\ dxtr \subseteq Transactions
  /\ lastTx \in Nat \ {0}
  /\ txId \in Nat \ {0}
  /\ orders \subseteq Orders
  /\ \A o, p \in orders : o.doc = p.doc => o = p
  /\ nextDoc \in Nat \ {0}
  /\ pendingJobs \subseteq Jobs
  /\ made \subseteq Jobs
  /\ transfers \subseteq References
  /\ audit \subseteq Entries
  /\ pc \in [Actors -> Labels]
  /\ sync \in [start : Nat, found : SUBSET Nat, maxTransfer : Nat,
               jobs : SUBSET Nat, max : Nat, news : SUBSET Nat]
  /\ user \in [Users -> [action : Actions, order : Nat,
                         after : [status : Statuses, newCase : Targets \cup {NoTarget}]]]
  /\ late \subseteq Nat
  /\ syncs \in 0..MaxSyncs
  /\ faults \in 0..MaxFaults

(* Whatever fails, the stored transaction id never passes an order that    *)
(* became no task, unless it was entered while a sync was reading.         *)
CursorCovers ==
  \A t \in dxtr :
    t.id <= txId /\ t.id \notin late =>
      IF t.kind = "transfer" THEN \E o \in orders : o.tx = t.id
                             ELSE \E j \in made : j.job = t.id

(* Unless a sync failed, or ids grew by a digit, no order becomes a task a *)
(* second time, whoever has decided what in the meantime.                  *)
Seed      == lastTx - Cardinality(dxtr)
SameWidth == \A n \in Tens : Seed < n <=> lastTx < n

ImportedOnce ==
  faults = 0 /\ SameWidth =>
    /\ \A o, p \in orders : o.tx = p.tx => o = p
    /\ \A i, j \in made : i.job = j.job => i = j

(* A job never has two pending orders: approving or rejecting reads the    *)
(* order by the job's key and would find either.                           *)
OnePendingOrder == \A i, j \in pendingJobs : i.job = j.job => i = j

(* Once the users are done, and if no call failed, an approved transfer is *)
(* recorded with the case it was last approved for: on both cases and in   *)
(* the history, whoever else approved or rejected it meanwhile.            *)
TransferRecorded ==
  faults = 0 /\ (\A u \in Users : pc[u] \in {"idle", "done"}) =>
    \A o \in orders : o.status = "approved" =>
      /\ \A type \in {"from", "to"} :
           [type |-> type, doc |-> o.doc, newCase |-> o.newCase] \in transfers
      /\ [doc |-> o.doc, after |-> "approved", newCase |-> o.newCase] \in audit
=============================================================================
