--------------------------- MODULE OrderSyncProofs ---------------------------
(***************************************************************************)
(* Theorems about OrderSync, for any seeds, targets, users and bounds:     *)
(* types, the sync cursor passes no order that became no task, a job has   *)
(* one pending order, and an approved transfer is recorded on both cases.  *)
(*                                                                         *)
(* CursorCovers is not inductive: what the sync has read of DXTR at each   *)
(* of its calls, and what is left of it to write, is said by ReadInv and   *)
(* WriteInv.                                                               *)
(***************************************************************************)
EXTENDS OrderSync, FiniteSetTheorems, TLAPS

SyncType == [start : Nat, found : SUBSET Nat, maxTransfer : Nat,
             jobs : SUBSET Nat, max : Nat, news : SUBSET Nat]
Outcomes == [status : Statuses, newCase : Targets \cup {NoTarget}]
UserType == [action : Actions, order : Nat, after : Outcomes]

SourceTyped ==
  /\ dxtr \subseteq Transactions /\ IsFiniteSet(dxtr)
  /\ lastTx \in Nat \ {0} /\ txId \in Nat \ {0}
  /\ late \subseteq Nat
  /\ syncs \in 0..MaxSyncs /\ faults \in 0..MaxFaults

OrdersTyped ==
  /\ orders \subseteq Orders
  /\ \A o, p \in orders : o.doc = p.doc => o = p
  /\ \A o \in orders : /\ o.doc < nextDoc
                       /\ o.status = "approved" => o.newCase \in Targets
  /\ nextDoc \in Nat \ {0}

JobsTyped == pendingJobs \subseteq made /\ made \subseteq Jobs

(* What the sync holds: it has a transaction id of DXTR once it read one.  *)
Writing == {"createMany", "history", "countJobs", "createJobs", "store"}

SyncTyped ==
  /\ sync \in SyncType /\ IsFiniteSet(sync.found)
  /\ pc[Sync] # "idle" => sync.start > 0
  /\ pc[Sync] \in {"jobs", "jobDockets"} => sync.maxTransfer > 0
  /\ pc[Sync] \in Writing => sync.max > 0

UserLabels == {"update", "reread", "from", "to", "audit"}

UserTyped(u) ==
  /\ user[u] \in UserType
  /\ pc[u] \in UserLabels => \E o \in orders : o.doc = user[u].order
  /\ pc[u] \in {"from", "to"} => user[u].after.newCase \in Targets

CasesTyped == transfers \subseteq References /\ audit \subseteq Entries

TInv ==
  /\ SourceTyped /\ OrdersTyped /\ JobsTyped /\ CasesTyped
  /\ pc \in [Actors -> Labels]
  /\ SyncTyped
  /\ user \in [Users -> UserType] /\ \A u \in Users : UserTyped(u)

-----------------------------------------------------------------------------
(* The actions by whom they belong to. *)

UserStep(u) ==
  Decide(u) \/ Update(u) \/ Reread(u) \/ CreateTransferFrom(u) \/ CreateTransferTo(u)
    \/ CreateHistory(u) \/ DecisionFails(u)

Moves == SyncStep \/ SyncFails

LEMMA StepCases ==
  ASSUME [Next]_vars
  PROVE  \/ UNCHANGED vars
         \/ \E kind \in Kinds : Commit(kind)
         \/ Moves \/ DecideJob
         \/ \E u \in Users : UserStep(u)
BY DEF Next, Moves, UserStep

LEMMA SyncIsNoUser == Sync \in Actors /\ \A u \in Users : u # Sync /\ u \in Actors
BY UserAssumption DEF Actors

(* What the sync leaves alone, and the users. *)
LEMMA MovesFrame ==
  ASSUME TInv, Moves
  PROVE  /\ dxtr' = dxtr /\ lastTx' = lastTx /\ late' = late
         /\ transfers' = transfers /\ user' = user
         /\ \A u \in Users : pc'[u] = pc[u]
         /\ ~Store => txId' = txId
<1> USE SyncIsNoUser DEF source, cases, Goto, TInv
<1>1. CASE Start \/ ReadOrders \/ ReadDockets \/ ReadJobs \/ ReadJobDockets \/ SyncFails
  BY <1>1 DEF Start, ReadOrders, ReadDockets, ReadJobs, ReadJobDockets, SyncFails
<1>2. CASE CreateMany \/ WriteHistory \/ Store
  BY <1>2 DEF CreateMany, WriteHistory, Store
<1>3. CASE CountJobs \/ CreateJob
  BY <1>3 DEF CountJobs, CreateJob
<1> QED BY <1>1, <1>2, <1>3 DEF Moves, SyncStep

LEMMA UserFrame ==
  ASSUME TInv, NEW u \in Users, UserStep(u)
  PROVE  /\ dxtr' = dxtr /\ lastTx' = lastTx /\ late' = late /\ txId' = txId
         /\ nextDoc' = nextDoc /\ pendingJobs' = pendingJobs /\ made' = made
         /\ sync' = sync /\ syncs' = syncs
         /\ pc'[Sync] = pc[Sync]
         /\ \A v \in Users : v # u => pc'[v] = pc[v] /\ user'[v] = user[v]
<1> USE SyncIsNoUser DEF source, tasks, cases, counts, Goto, TInv
<1>1. CASE Decide(u) \/ Update(u) \/ Reread(u)
  BY <1>1 DEF Decide, Update, Reread
<1>2. CASE CreateTransferFrom(u) \/ CreateTransferTo(u)
  BY <1>2 DEF CreateTransferFrom, CreateTransferTo, Refer
<1>3. CASE CreateHistory(u) \/ DecisionFails(u)
  BY <1>3 DEF CreateHistory, DecisionFails
<1> QED BY <1>1, <1>2, <1>3 DEF UserStep

LEMMA NoSyncTyped == NoSync \in SyncType /\ IsFiniteSet(NoSync.found)
BY FS_EmptySet DEF NoSync, SyncType

LEMMA NoUserTyped == NoUser \in UserType
BY DEF NoUser, NoAction, UserType, Actions, Outcomes, Statuses

LEMMA TypesInit == Init => TInv
<1> SUFFICES ASSUME Init PROVE TInv
  OBVIOUS
<1>1. SourceTyped
  BY FS_EmptySet, SeedAssumption, BoundAssumption DEF Init, SourceTyped
<1>2. OrdersTyped /\ JobsTyped /\ CasesTyped
  BY DEF Init, OrdersTyped, JobsTyped, CasesTyped
<1>3. pc \in [Actors -> Labels] /\ pc[Sync] = "idle" /\ \A u \in Users : pc[u] = "idle"
  BY SyncIsNoUser DEF Init, Labels
<1>4. SyncTyped
  BY <1>3, NoSyncTyped DEF Init, SyncTyped, Writing
<1>5. user \in [Users -> UserType] /\ \A u \in Users : UserTyped(u)
  BY <1>3, NoUserTyped DEF Init, UserTyped, UserLabels
<1> QED BY <1>1, <1>2, <1>3, <1>4, <1>5 DEF TInv

(* The places CreateMany gives the new orders are different, and count     *)
(* from 1 to their number.                                                 *)
LEMMA Ranks ==
  ASSUME NEW S \in SUBSET Nat, IsFiniteSet(S)
  PROVE  /\ Cardinality(S) \in Nat
         /\ \A i \in S : Cardinality({k \in S : k <= i}) \in 1..Cardinality(S)
         /\ \A i, j \in S : Cardinality({k \in S : k <= i}) = Cardinality({k \in S : k <= j})
              => i = j
<1> DEFINE upto(i) == {k \in S : k <= i}
<1>1. \A i \in S : upto(i) \subseteq S /\ i \in upto(i)
  OBVIOUS
<1>2. \A i \in S : IsFiniteSet(upto(i)) /\ Cardinality(upto(i)) <= Cardinality(S)
                   /\ Cardinality(upto(i)) \in Nat /\ Cardinality(S) \in Nat
  BY <1>1, FS_Subset, FS_CardinalityType
<1>3. \A i \in S : Cardinality(upto(i)) # 0
  BY <1>1, <1>2, FS_EmptySet
<1>4. ASSUME NEW i \in S, NEW j \in S, i < j PROVE Cardinality(upto(i)) # Cardinality(upto(j))
  <2>1. i \in Nat /\ j \in Nat /\ \A k \in S : k \in Nat
    OBVIOUS
  <2>2. \A k \in S : k <= i => k <= j
    BY <1>4, <2>1
  <2>3. upto(i) \subseteq upto(j)
    BY <2>2
  <2>4. j \in upto(j) /\ j \notin upto(i)
    BY <1>4, <2>1
  <2> HIDE DEF upto
  <2> QED BY <1>2, <2>3, <2>4, FS_Subset
<1>5. \A i, j \in S : Cardinality(upto(i)) = Cardinality(upto(j)) => i = j
  BY <1>4
<1>6. Cardinality(S) \in Nat
  BY FS_CardinalityType
<1>7. \A i \in S : Cardinality(upto(i)) \in 1..Cardinality(S)
  BY <1>2, <1>3
<1> QED BY <1>5, <1>6, <1>7

-----------------------------------------------------------------------------
(* Types, step by step. *)

LEMMA SourceStep ==
  ASSUME TInv, [Next]_vars
  PROVE  SourceTyped'
<1> USE DEF TInv, SourceTyped
<1>1. CASE UNCHANGED vars
  BY <1>1 DEF vars, source, counts
<1>2. ASSUME NEW kind \in Kinds, Commit(kind) PROVE SourceTyped'
  <2> DEFINE t == [id |-> lastTx + 1, kind |-> kind]
  <2>1. dxtr' = dxtr \cup {t} /\ lastTx' = lastTx + 1 /\ txId' = txId
        /\ late' \subseteq late \cup {lastTx + 1} /\ syncs' = syncs /\ faults' = faults
    BY <1>2 DEF Commit, counts
  <2>2. t \in Transactions
    BY DEF Transactions
  <2>3. IsFiniteSet(dxtr \cup {t})
    BY FS_AddElement
  <2> HIDE DEF t
  <2> QED BY <2>1, <2>2, <2>3
<1>3. CASE Moves
  <2>1. txId' \in Nat \ {0}
    BY <1>3, MovesFrame DEF Store, SyncTyped, SyncType, Writing
  <2>0. /\ syncs' = syncs \/ (syncs < MaxSyncs /\ syncs' = syncs + 1)
        /\ faults' = faults \/ (faults < MaxFaults /\ faults' = faults + 1)
    <3>1. CASE Start \/ SyncFails
      BY <3>1 DEF Start, SyncFails
    <3>2. CASE ReadOrders \/ ReadDockets \/ ReadJobs \/ ReadJobDockets
      BY <3>2 DEF ReadOrders, ReadDockets, ReadJobs, ReadJobDockets, counts
    <3>3. CASE CreateMany \/ WriteHistory \/ CountJobs \/ CreateJob \/ Store
      BY <3>3 DEF CreateMany, WriteHistory, CountJobs, CreateJob, Store, counts
    <3> QED BY <1>3, <3>1, <3>2, <3>3 DEF Moves, SyncStep
  <2>2. syncs' \in 0..MaxSyncs /\ faults' \in 0..MaxFaults
    BY <2>0, BoundAssumption
  <2> QED BY <1>3, <2>1, <2>2, MovesFrame
<1>4. CASE DecideJob
  BY <1>4 DEF DecideJob, source, counts
<1>5. ASSUME NEW u \in Users, UserStep(u) PROVE SourceTyped'
  <2>0. faults' = faults \/ (faults < MaxFaults /\ faults' = faults + 1)
    <3>1. CASE Decide(u) \/ Update(u) \/ Reread(u)
      BY <3>1 DEF Decide, Update, Reread, counts
    <3>2. CASE CreateTransferFrom(u) \/ CreateTransferTo(u) \/ CreateHistory(u)
      BY <3>2 DEF CreateTransferFrom, CreateTransferTo, Refer, CreateHistory, counts
    <3>3. CASE DecisionFails(u)
      BY <3>3 DEF DecisionFails
    <3> QED BY <1>5, <3>1, <3>2, <3>3 DEF UserStep
  <2>1. faults' \in 0..MaxFaults
    BY <2>0, BoundAssumption
  <2> QED BY <1>5, <2>1, UserFrame
<1> QED BY <1>1, <1>2, <1>3, <1>4, <1>5, StepCases

LEMMA CreateManyOrders ==
  ASSUME TInv, CreateMany
  PROVE  /\ orders \subseteq orders' /\ nextDoc <= nextDoc'
         /\ OrdersTyped'
         /\ \A id \in sync.found : \E o \in orders' : o.tx = id
         /\ \A o \in orders' \ orders : o.status = "pending" /\ o.doc >= nextDoc
<1> DEFINE n == Cardinality(sync.found)
           rank(id) == nextDoc - 1 + Cardinality({k \in sync.found : k <= id})
           fresh(id) == [NewOrder(id) EXCEPT !.doc = rank(id)]
<1>1. nextDoc \in Nat \ {0} /\ sync.found \in SUBSET Nat /\ IsFiniteSet(sync.found)
  BY DEF TInv, OrdersTyped, SyncTyped, SyncType
<1>2. /\ n \in Nat
      /\ \A id \in sync.found : rank(id) \in Nat /\ nextDoc <= rank(id) /\ rank(id) < nextDoc + n
      /\ \A i, j \in sync.found : rank(i) = rank(j) => i = j
  <2> DEFINE count(id) == Cardinality({k \in sync.found : k <= id})
  <2>1. /\ n \in Nat
        /\ \A id \in sync.found : count(id) \in 1..n
        /\ \A i, j \in sync.found : count(i) = count(j) => i = j
    BY <1>1, Ranks
  <2> HIDE DEF count, n
  <2>2. \A id \in sync.found : /\ nextDoc - 1 + count(id) \in Nat
                              /\ nextDoc <= nextDoc - 1 + count(id)
                              /\ nextDoc - 1 + count(id) < nextDoc + n
    BY <1>1, <2>1
  <2>3. \A i, j \in sync.found : nextDoc - 1 + count(i) = nextDoc - 1 + count(j) => i = j
    BY <1>1, <2>1
  <2>4. \A id : rank(id) = nextDoc - 1 + count(id)
    BY DEF count
  <2> HIDE DEF rank
  <2> QED BY <2>1, <2>2, <2>3, <2>4
<1>3. orders' = orders \cup {fresh(id) : id \in sync.found} /\ nextDoc' = nextDoc + n
  BY DEF CreateMany
<1> HIDE DEF n, rank
<1>4. \A id : /\ fresh(id).doc = rank(id) /\ fresh(id).tx = id
             /\ fresh(id).status = "pending" /\ fresh(id).newCase = NoTarget
             /\ fresh(id) = [doc |-> rank(id), tx |-> id, status |-> "pending",
                            newCase |-> NoTarget]
  BY DEF NewOrder
<1> HIDE DEF fresh
<1>5. ASSUME NEW id \in sync.found PROVE fresh(id) \in Orders
  <2>1. rank(id) \in Nat /\ id \in Nat
    BY <1>1, <1>2
  <2>2. fresh(id) = [doc |-> rank(id), tx |-> id, status |-> "pending", newCase |-> NoTarget]
    BY <1>4
  <2> QED BY <2>1, <2>2 DEF Orders, Statuses
<1>6. orders \subseteq Orders /\ \A o \in orders : o.doc \in Nat /\ o.doc < nextDoc
  BY DEF TInv, OrdersTyped, Orders
<1>7. OrdersTyped'
  <2>1. orders' \subseteq Orders
    BY <1>3, <1>5, <1>6
  <2>2. \A o, p \in orders' : o.doc = p.doc => o = p
    BY <1>1, <1>2, <1>3, <1>4, <1>6 DEF TInv, OrdersTyped
  <2>3. \A o \in orders' : o.doc < nextDoc' /\ (o.status = "approved" => o.newCase \in Targets)
    BY <1>1, <1>2, <1>3, <1>4, <1>6 DEF TInv, OrdersTyped
  <2>4. nextDoc' \in Nat \ {0}
    BY <1>1, <1>2, <1>3
  <2> QED BY <2>1, <2>2, <2>3, <2>4 DEF OrdersTyped
<1> QED BY <1>1, <1>2, <1>3, <1>4, <1>7

(* Update replaces the order of that document, or leaves all as they are.  *)
LEMMA UpdateOrders ==
  ASSUME TInv, NEW u \in Users, Update(u)
  PROVE  \/ orders' = orders
         \/ \E o \in orders : \E new \in Orders :
              /\ orders' = (orders \ {o}) \cup {new}
              /\ new.doc = o.doc /\ new.tx = o.tx /\ o.doc = user[u].order
              /\ new.status = "approved" /\ new.newCase \in Targets
              /\ new.newCase = user[u].action.newCase
              /\ pc'[u] = "reread" /\ user' = user
<1>1. PICK o \in orders : o.doc = user[u].order
  BY DEF TInv, UserTyped, UserLabels, Update
<1>2. Order(user[u].order) = o
  BY <1>1 DEF Order, TInv, OrdersTyped
<1>3. user[u].action \in Actions /\ o \in Orders
  BY DEF TInv, UserType, OrdersTyped
<1> DEFINE act == user[u].action
           new == [o EXCEPT !.status = act.status, !.newCase = act.newCase]
<1>4. CASE act.status = "approved" /\ new # o
  <2>1. act.newCase \in Targets
    BY <1>3, <1>4 DEF Actions
  <2>2. new \in Orders /\ new.doc = o.doc /\ new.tx = o.tx /\ new.status = "approved"
        /\ new.newCase = act.newCase
    BY <1>3, <1>4, <2>1 DEF Orders, Statuses
  <2>3. orders' = (orders \ {o}) \cup {new} /\ Goto(u, "reread")
    BY <1>2, <1>4 DEF Update
  <2>4. pc'[u] = "reread"
    BY <2>3, SyncIsNoUser DEF Goto, TInv
  <2>5. user' = user
    BY DEF Update
  <2> HIDE DEF new
  <2> QED BY <1>1, <2>1, <2>2, <2>3, <2>4, <2>5
<1>5. CASE ~(act.status = "approved" /\ new # o)
  BY <1>2, <1>5 DEF Update
<1> QED BY <1>4, <1>5

(* No step loses an order's document or its transaction. *)
LEMMA OrdersKept ==
  ASSUME TInv, [Next]_vars
  PROVE  /\ \A o \in orders : \E p \in orders' : p.doc = o.doc /\ p.tx = o.tx
         /\ OrdersTyped'
<1>1. CASE orders' = orders /\ nextDoc' = nextDoc
  BY <1>1 DEF TInv, OrdersTyped
<1>2. CASE Moves
  <2>1. CASE CreateMany
    BY <2>1, CreateManyOrders
  <2>2. CASE CreateJob
    <3>1. orders' = orders /\ nextDoc' = nextDoc + 1
      BY <2>2 DEF CreateJob
    <3>2. \A o \in orders : o.doc \in Nat
      BY DEF TInv, OrdersTyped, Orders
    <3> QED BY <3>1, <3>2 DEF TInv, OrdersTyped
  <2>3. CASE ~CreateMany /\ ~CreateJob
    <3>1. orders' = orders /\ nextDoc' = nextDoc
      BY <1>2, <2>3 DEF Moves, SyncStep, Start, ReadOrders, ReadDockets, ReadJobs,
         ReadJobDockets, WriteHistory, CountJobs, Store, SyncFails, tasks
    <3> QED BY <1>1, <3>1
  <2> QED BY <2>1, <2>2, <2>3
<1>3. ASSUME NEW u \in Users, Update(u)
      PROVE  /\ \A o \in orders : \E p \in orders' : p.doc = o.doc /\ p.tx = o.tx
             /\ OrdersTyped'
  <2>1. nextDoc' = nextDoc
    BY <1>3 DEF Update
  <2>2. ASSUME NEW o \in orders, NEW new \in Orders, orders' = (orders \ {o}) \cup {new},
               new.doc = o.doc, new.tx = o.tx, new.newCase \in Targets
        PROVE  /\ \A q \in orders : \E p \in orders' : p.doc = q.doc /\ p.tx = q.tx
               /\ OrdersTyped'
    BY <2>1, <2>2 DEF TInv, OrdersTyped
  <2> QED BY <1>1, <1>3, <2>1, <2>2, UpdateOrders
<1>4. ASSUME NEW u \in Users, UserStep(u), ~Update(u)
      PROVE  orders' = orders /\ nextDoc' = nextDoc
  BY <1>4 DEF UserStep, Decide, Reread, CreateTransferFrom, CreateTransferTo, Refer,
              CreateHistory, DecisionFails, tasks
<1>5. ASSUME UNCHANGED vars \/ (\E kind \in Kinds : Commit(kind)) \/ DecideJob
      PROVE  orders' = orders /\ nextDoc' = nextDoc
  BY <1>5 DEF vars, Commit, DecideJob, tasks
<1> QED BY <1>1, <1>2, <1>3, <1>4, <1>5, StepCases

LEMMA JobsStep ==
  ASSUME TInv, [Next]_vars
  PROVE  made \subseteq made' /\ JobsTyped'
<1>1. CASE CreateJob
  <2>1. PICK job \in sync.news :
          /\ pendingJobs' = pendingJobs \cup {[job |-> job, doc |-> nextDoc]}
          /\ made' = made \cup {[job |-> job, doc |-> nextDoc]}
    BY <1>1 DEF CreateJob
  <2>2. [job |-> job, doc |-> nextDoc] \in Jobs
    BY DEF TInv, SyncTyped, SyncType, OrdersTyped, Jobs
  <2> QED BY <2>1, <2>2 DEF TInv, JobsTyped
<1>2. CASE DecideJob
  <2>1. made' = made /\ pendingJobs' \subseteq pendingJobs
    BY <1>2 DEF DecideJob
  <2> QED BY <2>1 DEF TInv, JobsTyped
<1>3. CASE made' = made /\ pendingJobs' = pendingJobs
  BY <1>3 DEF TInv, JobsTyped
<1>4. CASE Moves /\ ~CreateJob
  <2>1. made' = made /\ pendingJobs' = pendingJobs
    BY <1>4 DEF Moves, SyncStep, Start, ReadOrders, ReadDockets, ReadJobs, ReadJobDockets,
                CreateMany, WriteHistory, CountJobs, Store, SyncFails, tasks
  <2> QED BY <1>3, <2>1
<1>5. CASE UNCHANGED vars \/ \E kind \in Kinds : Commit(kind)
  BY <1>3, <1>5 DEF vars, Commit, tasks
<1> QED BY <1>1, <1>2, <1>3, <1>4, <1>5, StepCases, UserFrame

LEMMA CasesStep ==
  ASSUME TInv, [Next]_vars
  PROVE  CasesTyped'
<1> USE DEF TInv, CasesTyped
<1>1. CASE transfers' = transfers /\ audit' = audit
  BY <1>1
<1>2. CASE WriteHistory
  <2>1. sync.news \subseteq Nat
    BY DEF SyncTyped, SyncType
  <2>2. \A doc \in sync.news : [doc |-> doc, after |-> "pending", newCase |-> NoTarget] \in Entries
    BY <2>1 DEF Entries, Statuses
  <2>3. audit' = audit \/ \E doc \in sync.news :
          audit' = audit \cup {[doc |-> doc, after |-> "pending", newCase |-> NoTarget]}
    BY <1>2 DEF WriteHistory
  <2> QED BY <1>2, <2>2, <2>3 DEF WriteHistory
<1>3. ASSUME NEW u \in Users, CreateTransferFrom(u) \/ CreateTransferTo(u)
      PROVE  CasesTyped'
  <2>1. user[u] \in UserType /\ user[u].after.newCase \in Targets
    BY <1>3 DEF UserTyped, CreateTransferFrom, CreateTransferTo, Refer
  <2>2. \A label \in {"from", "to"} :
          [type |-> label, doc |-> user[u].order, newCase |-> user[u].after.newCase]
            \in References
    BY <2>1 DEF UserType, References
  <2> QED BY <1>3, <2>2 DEF CreateTransferFrom, CreateTransferTo, Refer
<1>4. ASSUME NEW u \in Users, CreateHistory(u) PROVE CasesTyped'
  <2>1. user[u] \in UserType
    OBVIOUS
  <2>2. [doc |-> user[u].order, after |-> user[u].after.status,
         newCase |-> user[u].after.newCase] \in Entries
    BY <2>1 DEF UserType, Outcomes, Entries
  <2> QED BY <1>4, <2>2 DEF CreateHistory
<1>5. ASSUME NEW u \in Users, Decide(u) \/ Update(u) \/ Reread(u) \/ DecisionFails(u)
      PROVE  transfers' = transfers /\ audit' = audit
  BY <1>5 DEF Decide, Update, Reread, DecisionFails, cases
<1>6. CASE Moves /\ ~WriteHistory
  <2>1. transfers' = transfers /\ audit' = audit
    BY <1>6 DEF Moves, SyncStep, Start, ReadOrders, ReadDockets, ReadJobs, ReadJobDockets,
                CreateMany, CountJobs, CreateJob, Store, SyncFails, cases
  <2> QED BY <1>1, <2>1
<1>7. CASE UNCHANGED vars \/ (\E kind \in Kinds : Commit(kind)) \/ DecideJob
  BY <1>1, <1>7 DEF vars, Commit, DecideJob, cases
<1> QED BY <1>1, <1>2, <1>3, <1>4, <1>5, <1>6, <1>7, StepCases DEF UserStep

LEMMA LabelsStep ==
  ASSUME TInv, [Next]_vars
  PROVE  pc' \in [Actors -> Labels]
<1> USE DEF TInv, Labels, Goto
<1>1. CASE Start \/ ReadOrders \/ ReadDockets \/ ReadJobs \/ ReadJobDockets \/ CreateMany
  BY <1>1 DEF Start, ReadOrders, ReadDockets, ReadJobs, ReadJobDockets, CreateMany
<1>2. CASE WriteHistory \/ CreateJob \/ Store \/ SyncFails
  BY <1>2 DEF WriteHistory, CreateJob, Store, SyncFails
<1>3. CASE CountJobs
  BY <1>3 DEF CountJobs
<1>4. ASSUME NEW u \in Users, Decide(u) \/ Update(u) \/ DecisionFails(u) \/ CreateHistory(u)
      PROVE  pc' \in [Actors -> Labels]
  BY <1>4 DEF Decide, Update, DecisionFails, CreateHistory
<1>5. ASSUME NEW u \in Users, Reread(u) \/ CreateTransferFrom(u) \/ CreateTransferTo(u)
      PROVE  pc' \in [Actors -> Labels]
  BY <1>5 DEF Reread, CreateTransferFrom, CreateTransferTo, Refer
<1>6. ASSUME UNCHANGED vars \/ (\E kind \in Kinds : Commit(kind)) \/ DecideJob
      PROVE  pc' = pc
  BY <1>6 DEF vars, Commit, DecideJob
<1> QED BY <1>1, <1>2, <1>3, <1>4, <1>5, <1>6, StepCases DEF Moves, SyncStep, UserStep

LEMMA SyncLocalsStep ==
  ASSUME TInv, [Next]_vars
  PROVE  SyncTyped'
<1> DEFINE label == pc[Sync]
<1>1. /\ sync \in SyncType /\ pc \in [Actors -> Labels] /\ Sync \in Actors
      /\ txId \in Nat \ {0}
  BY SyncIsNoUser DEF TInv, SyncTyped, SourceTyped
<1>2. \A kind : After(kind, sync.start) \in SUBSET Nat /\ IsFiniteSet(After(kind, sync.start))
  <2> SUFFICES ASSUME NEW kind
               PROVE  After(kind, sync.start) \in SUBSET Nat
                      /\ IsFiniteSet(After(kind, sync.start))
    OBVIOUS
  <2> DEFINE those == {u \in dxtr : u.kind = kind}
             idOf  == [t \in those |-> t.id]
  <2>1. IsFiniteSet(those)
    BY FS_Subset DEF TInv, SourceTyped
  <2>2. idOf \in Surjection(those, Ids(kind))
    BY DEF Ids, Surjection
  <2>3. IsFiniteSet(Ids(kind))
    BY <2>1, <2>2, FS_Surjection
  <2>4. After(kind, sync.start) \in SUBSET Ids(kind)
    BY DEF After
  <2>5. Ids(kind) \subseteq Nat
    BY DEF Ids, TInv, SourceTyped, Transactions
  <2> QED BY <2>3, <2>4, <2>5, FS_Subset
<1>3. CASE sync' = sync /\ pc'[Sync] = pc[Sync]
  BY <1>3 DEF TInv, SyncTyped, Writing
<1>4. CASE Start
  <2>1. sync' = [NoSync EXCEPT !.start = txId] /\ pc'[Sync] = "orders"
    BY <1>1, <1>4 DEF Start, Goto
  <2>2. sync'.found = {} /\ sync'.start = txId /\ sync' \in SyncType
    BY <1>1, <2>1, NoSyncTyped DEF NoSync, SyncType
  <2> QED BY <1>1, <2>1, <2>2, FS_EmptySet DEF SyncTyped, Writing
<1>5. CASE ReadOrders
  <2>1. sync' = [sync EXCEPT !.found = After("transfer", sync.start)] /\ pc[Sync] = "orders"
        /\ pc'[Sync] = "dockets"
    BY <1>1, <1>5 DEF ReadOrders, Goto
  <2> QED BY <1>1, <1>2, <2>1 DEF TInv, SyncTyped, SyncType, Writing
<1>6. ASSUME NEW kind, NEW n \in LargestIds(kind), label # "idle"
      PROVE  n \in Nat /\ n > 0
  <2>1. sync.start \in Nat /\ sync.start > 0
    BY <1>1, <1>6 DEF TInv, SyncTyped, SyncType
  <2>2. n = sync.start \/ (n \in After(kind, sync.start) /\ n > sync.start)
    BY <1>6 DEF LargestIds, After
  <2> QED BY <1>2, <2>1, <2>2
<1>7. CASE ReadDockets
  <2>1. PICK n \in LargestIds("transfer") : sync' = [sync EXCEPT !.maxTransfer = n]
    BY <1>7 DEF ReadDockets
  <2>2. pc[Sync] = "dockets" /\ pc'[Sync] = "jobs"
    BY <1>1, <1>7 DEF ReadDockets, Goto
  <2>3. n \in Nat /\ n > 0
    BY <1>6, <2>2
  <2> QED BY <1>1, <2>1, <2>2, <2>3 DEF TInv, SyncTyped, SyncType, Writing
<1>8. CASE ReadJobs
  <2>1. sync' = [sync EXCEPT !.jobs = After("consolidation", sync.start)]
        /\ pc[Sync] = "jobs" /\ pc'[Sync] = "jobDockets"
    BY <1>1, <1>8 DEF ReadJobs, Goto
  <2> QED BY <1>1, <1>2, <2>1 DEF TInv, SyncTyped, SyncType, Writing
<1>9. CASE ReadJobDockets
  <2>1. PICK n \in LargestIds("consolidation") :
          sync' = [sync EXCEPT !.max = LaterTxId(sync.maxTransfer, n)]
    BY <1>9 DEF ReadJobDockets
  <2>2. pc[Sync] = "jobDockets" /\ pc'[Sync] = "createMany"
    BY <1>1, <1>9 DEF ReadJobDockets, Goto
  <2>3. n \in Nat /\ n > 0
    BY <1>6, <2>2
  <2>4. LaterTxId(sync.maxTransfer, n) \in {sync.maxTransfer, n}
    BY DEF LaterTxId
  <2>5. LaterTxId(sync.maxTransfer, n) \in Nat \ {0}
    BY <1>1, <2>2, <2>3, <2>4 DEF TInv, SyncTyped, SyncType
  <2> QED BY <1>1, <2>1, <2>2, <2>5 DEF TInv, SyncTyped, SyncType, Writing
<1>10. CASE CreateMany
  <2> DEFINE rank(id) == nextDoc - 1 + Cardinality({k \in sync.found : k <= id})
  <2>1. sync' = [sync EXCEPT !.news = {rank(id) : id \in sync.found}]
    BY <1>10 DEF CreateMany
  <2>2. \A id \in sync.found : rank(id) \in Nat
    <3>1. \A id \in sync.found : Cardinality({k \in sync.found : k <= id}) \in 1..Cardinality(sync.found)
      BY <1>1, Ranks DEF TInv, SyncTyped, SyncType
    <3>2. nextDoc \in Nat \ {0}
      BY DEF TInv, OrdersTyped
    <3> QED BY <3>1, <3>2
  <2> HIDE DEF rank
  <2>3. pc[Sync] = "createMany" /\ pc'[Sync] = "history"
    BY <1>1, <1>10 DEF CreateMany, Goto
  <2>4. {rank(id) : id \in sync.found} \in SUBSET Nat
    BY <2>2
  <2> QED BY <1>1, <2>1, <2>3, <2>4 DEF TInv, SyncTyped, SyncType, Writing
<1>11. CASE WriteHistory
  <2>1. sync' = sync \/ \E doc \in sync.news : sync' = [sync EXCEPT !.news = @ \ {doc}]
    BY <1>11 DEF WriteHistory
  <2>2. pc[Sync] \in Writing /\ pc'[Sync] \in Writing
    BY <1>1, <1>11 DEF WriteHistory, Goto, Writing
  <2> QED BY <1>1, <2>1, <2>2 DEF TInv, SyncTyped, SyncType, Writing
<1>12. CASE CountJobs
  <2>1. \/ sync' = sync
        \/ \E job \in sync.jobs : \/ sync' = [sync EXCEPT !.jobs = @ \ {job}]
                                  \/ sync' = [sync EXCEPT !.news = {job}]
    BY <1>12 DEF CountJobs
  <2>2. pc[Sync] \in Writing /\ pc'[Sync] \in Writing
    BY <1>1, <1>12 DEF CountJobs, Goto, Writing
  <2>3. sync' \in SyncType /\ sync'.found = sync.found /\ sync'.start = sync.start
        /\ sync'.max = sync.max
    BY <1>1, <2>1 DEF SyncType
  <2> QED BY <1>1, <2>2, <2>3 DEF TInv, SyncTyped, Writing
<1>13. CASE CreateJob
  <2>1. \E job \in sync.news : sync' = [sync EXCEPT !.jobs = @ \ {job}, !.news = {}]
    BY <1>13 DEF CreateJob
  <2>2. pc[Sync] \in Writing /\ pc'[Sync] \in Writing
    BY <1>1, <1>13 DEF CreateJob, Goto, Writing
  <2>3. sync' \in SyncType /\ sync'.found = sync.found /\ sync'.start = sync.start
        /\ sync'.max = sync.max
    BY <1>1, <2>1 DEF SyncType
  <2> QED BY <1>1, <2>2, <2>3 DEF TInv, SyncTyped, Writing
<1>14. CASE Store \/ SyncFails
  <2>1. sync' = NoSync /\ pc'[Sync] = "idle"
    BY <1>1, <1>14 DEF Store, SyncFails, Goto
  <2> QED BY <2>1, NoSyncTyped DEF SyncTyped, Writing
<1>15. ASSUME UNCHANGED vars \/ (\E kind \in Kinds : Commit(kind)) \/ DecideJob
       PROVE  sync' = sync /\ pc' = pc
  BY <1>15 DEF vars, Commit, DecideJob
<1> QED BY <1>3, <1>4, <1>5, <1>7, <1>8, <1>9, <1>10, <1>11, <1>12, <1>13, <1>14, <1>15,
           StepCases, UserFrame DEF Moves, SyncStep

LEMMA UsersStep ==
  ASSUME TInv, [Next]_vars
  PROVE  user' \in [Users -> UserType] /\ \A u \in Users : UserTyped(u)'
<1>1. user \in [Users -> UserType] /\ pc \in [Actors -> Labels] /\ \A u \in Users : u \in Actors
  BY SyncIsNoUser DEF TInv
<1>2. ASSUME NEW u \in Users, user' = user, pc'[u] = pc[u] PROVE UserTyped(u)'
  BY <1>2, OrdersKept DEF TInv, UserTyped
<1>3. CASE Moves
  BY <1>1, <1>2, <1>3, MovesFrame
<1>4. CASE UNCHANGED vars \/ (\E kind \in Kinds : Commit(kind)) \/ DecideJob
  <2>1. user' = user /\ pc' = pc
    BY <1>4 DEF vars, Commit, DecideJob
  <2> QED BY <1>1, <1>2, <2>1
<1>5. ASSUME NEW u \in Users, UserStep(u)
      PROVE  user' \in [Users -> UserType] /\ UserTyped(u)'
  <2> USE DEF Goto
  <2>1. CASE Decide(u)
    <3>1. PICK o \in orders, action \in Actions :
            user' = [user EXCEPT ![u] = [NoUser EXCEPT !.action = action, !.order = o.doc]]
      BY <2>1 DEF Decide
    <3>2. [NoUser EXCEPT !.action = action, !.order = o.doc] \in UserType
      BY NoUserTyped DEF UserType, TInv, OrdersTyped, Orders
    <3>3. user'[u].order = o.doc /\ pc'[u] = "update" /\ orders' = orders
      BY <1>1, <2>1, <3>1, NoUserTyped DEF Decide, tasks, UserType
    <3> QED BY <1>1, <3>1, <3>2, <3>3 DEF UserTyped, UserLabels
  <2>2. CASE Update(u)
    <3>1. user' = user /\ pc[u] = "update" /\ pc'[u] \in {"reread", "done"}
      BY <1>1, <2>2 DEF Update
    <3>2. \E o \in orders' : o.doc = user[u].order
      BY <3>1, OrdersKept DEF TInv, UserTyped, UserLabels
    <3> QED BY <1>1, <3>1, <3>2 DEF UserTyped, UserLabels
  <2>3. CASE Reread(u)
    <3>1. PICK o \in orders : o.doc = user[u].order
      BY <2>3 DEF TInv, UserTyped, UserLabels, Reread
    <3>2. Order(user[u].order) = o
      BY <3>1 DEF Order, TInv, OrdersTyped
    <3>3. /\ user' = [user EXCEPT ![u].after = [status |-> o.status, newCase |-> o.newCase]]
          /\ pc'[u] = IF o.status = "approved" THEN "from" ELSE "audit"
          /\ orders' = orders
      BY <1>1, <2>3, <3>2 DEF Reread, tasks
    <3>4. o.status \in Statuses /\ o.newCase \in Targets \cup {NoTarget}
      BY DEF TInv, OrdersTyped, Orders
    <3>5. user' \in [Users -> UserType]
      BY <1>1, <3>3, <3>4 DEF UserType, Outcomes
    <3>6. user'[u].order = user[u].order /\ user'[u].after.newCase = o.newCase
      BY <1>1, <3>3 DEF UserType
    <3>7. o.status = "approved" => o.newCase \in Targets
      BY DEF TInv, OrdersTyped
    <3> QED BY <3>1, <3>3, <3>5, <3>6, <3>7 DEF UserTyped, UserLabels
  <2>4. CASE CreateTransferFrom(u) \/ CreateTransferTo(u)
    <3>1. user' = user /\ orders' = orders /\ pc[u] \in {"from", "to"} /\ pc'[u] \in {"to", "audit"}
      BY <1>1, <2>4 DEF CreateTransferFrom, CreateTransferTo, Refer, tasks
    <3> QED BY <1>1, <3>1 DEF TInv, UserTyped, UserLabels
  <2>5. CASE CreateHistory(u) \/ DecisionFails(u)
    <3>1. user' = user /\ pc'[u] = "done"
      BY <1>1, <2>5 DEF CreateHistory, DecisionFails
    <3> QED BY <1>1, <3>1 DEF UserTyped, UserLabels
  <2> QED BY <1>5, <2>1, <2>2, <2>3, <2>4, <2>5 DEF UserStep
<1>6. ASSUME NEW u \in Users, UserStep(u), NEW v \in Users, v # u PROVE UserTyped(v)'
  BY <1>6, UserFrame, OrdersKept DEF TInv, UserTyped
<1> QED BY <1>3, <1>4, <1>5, <1>6, StepCases

LEMMA TypesStep == TInv /\ [Next]_vars => TInv'
BY SourceStep, OrdersKept, JobsStep, CasesStep, LabelsStep, SyncLocalsStep, UsersStep DEF TInv

LEMMA TypesAlways == Spec => []TInv
BY TypesInit, TypesStep, PTL DEF Spec

(* For any seeds, targets, users and bounds: every variable keeps its      *)
(* type, and a document id stands for one transfer order.                  *)
THEOREM OrderTypes == Spec => []TypeOK
<1>1. TInv => TypeOK
  BY DEF TInv, SourceTyped, OrdersTyped, JobsTyped, CasesTyped, SyncTyped, TypeOK, SyncType,
         UserType, Outcomes
<1> QED BY <1>1, TypesAlways, PTL

-----------------------------------------------------------------------------
(* CursorCovers. *)

IsTask(t) == IF t.kind = "transfer" THEN \E o \in orders : o.tx = t.id
                                    ELSE \E j \in made : j.job = t.id

IdsInv ==
  /\ txId <= lastTx
  /\ \A t \in dxtr : t.id <= lastTx

(* What the sync has read: all that follows its start, but for what was    *)
(* entered since it began to read.                                         *)
Missed(t) == t.id <= sync.start \/ t.id \in late

ReadInv ==
  /\ pc[Sync] # "idle" => sync.start = txId
  /\ pc[Sync] \in {"dockets", "jobs", "jobDockets"} =>
       \A t \in dxtr : t.kind = "transfer" => Missed(t) \/ t.id \in sync.found
  /\ pc[Sync] = "jobDockets" =>
       \A t \in dxtr : t.kind = "consolidation" => Missed(t) \/ t.id \in sync.jobs
  /\ pc[Sync] \in {"jobs", "jobDockets"} => sync.maxTransfer <= lastTx

(* What is left to write: once the orders are read, what the new cursor    *)
(* passes is a task already, or is about to be written.                    *)
Due(t) ==
  \/ t.kind = "transfer" /\ pc[Sync] = "createMany" /\ t.id \in sync.found
  \/ t.kind = "consolidation" /\ pc[Sync] # "store" /\ t.id \in sync.jobs

WriteInv ==
  pc[Sync] \in Writing =>
    /\ sync.max <= lastTx
    /\ \A t \in dxtr : t.id <= sync.max => Missed(t) \/ IsTask(t) \/ Due(t)

CInv == CursorCovers /\ IdsInv /\ ReadInv /\ WriteInv

LEMMA TasksGrow ==
  ASSUME TInv, [Next]_vars
  PROVE  \A t : IsTask(t) => IsTask(t)'
BY OrdersKept, JobsStep DEF IsTask

LEMMA CommitCovers ==
  ASSUME TInv, CInv, NEW kind \in Kinds, Commit(kind)
  PROVE  CInv'
<1>0. PICK new : new = [id |-> lastTx + 1, kind |-> kind]
  OBVIOUS
<1>1. /\ dxtr' = dxtr \cup {new} /\ lastTx' = lastTx + 1 /\ new.id = lastTx + 1
      /\ txId' = txId /\ pc' = pc /\ sync' = sync /\ orders' = orders /\ made' = made
      /\ late \subseteq late' /\ (Reading => new.id \in late')
  BY <1>0 DEF Commit, tasks
<1>2. /\ lastTx \in Nat /\ txId \in Nat /\ \A t \in dxtr : t.id \in Nat
      /\ sync.start \in Nat /\ sync.max \in Nat /\ sync.maxTransfer \in Nat
  BY DEF TInv, SourceTyped, Transactions, SyncTyped, SyncType
<1>3. IdsInv'
  BY <1>1, <1>2 DEF CInv, IdsInv
<1>4. CursorCovers'
  BY <1>1, <1>2 DEF CInv, IdsInv, CursorCovers
<1>5. \A t : Missed(t) => Missed(t)'
  BY <1>1 DEF Missed
<1>6. Reading => Missed(new)'
  BY <1>1 DEF Missed
<1>7. ReadInv'
  BY <1>1, <1>2, <1>5, <1>6 DEF CInv, ReadInv, Reading
<1>8. \A t : IsTask(t)' <=> IsTask(t)
  BY <1>1 DEF IsTask
<1>9. WriteInv'
  <2> SUFFICES ASSUME pc[Sync] \in Writing PROVE WriteInv'
    BY <1>1 DEF WriteInv
  <2>1. sync.max <= lastTx
    BY DEF CInv, WriteInv
  <2>2. ~(new.id <= sync.max) /\ sync.max <= lastTx'
    BY <1>1, <1>2, <2>1
  <2>3. \A t \in dxtr : t.id <= sync.max => Missed(t)' \/ IsTask(t)' \/ Due(t)'
    BY <1>1, <1>5, <1>8 DEF CInv, WriteInv, Due
  <2> QED BY <1>1, <2>2, <2>3 DEF WriteInv
<1> QED BY <1>3, <1>4, <1>7, <1>9 DEF CInv

(* A step that leaves the sync and DXTR alone. *)
LEMMA AsideCovers ==
  ASSUME TInv, CInv, [Next]_vars,
         dxtr' = dxtr, lastTx' = lastTx, late' = late, txId' = txId, sync' = sync,
         pc'[Sync] = pc[Sync]
  PROVE  CInv'
<1>1. \A t : (IsTask(t) => IsTask(t)') /\ (Missed(t)' <=> Missed(t))
  BY TasksGrow DEF Missed
<1>2. CursorCovers'
  <2>1. \A t \in dxtr : t.id <= txId /\ t.id \notin late => IsTask(t)
    BY DEF CInv, CursorCovers, IsTask
  <2>2. \A t \in dxtr : t.id <= txId /\ t.id \notin late => IsTask(t)'
    BY <1>1, <2>1
  <2> QED BY <2>2 DEF CursorCovers, IsTask
<1>3. IdsInv' /\ ReadInv'
  BY <1>1 DEF CInv, IdsInv, ReadInv
<1>4. WriteInv'
  <2>1. \A t : Due(t)' <=> Due(t)
    BY DEF Due
  <2> QED BY <1>1, <2>1 DEF CInv, WriteInv
<1> QED BY <1>2, <1>3, <1>4 DEF CInv

(* The largest ids were entered, or are the start. *)
LEMMA LargestEntered ==
  ASSUME TInv, CInv, NEW kind, NEW n \in LargestIds(kind), pc[Sync] # "idle"
  PROVE  n \in Nat /\ n <= lastTx
<1>1. n = sync.start \/ \E t \in dxtr : n = t.id
  BY DEF LargestIds, After, Ids
<1> QED BY <1>1 DEF CInv, IdsInv, ReadInv, TInv, SourceTyped, Transactions

LEMMA MovesCover ==
  ASSUME TInv, CInv, Moves, [Next]_vars
  PROVE  CInv'
<1>1. /\ dxtr' = dxtr /\ lastTx' = lastTx /\ late' = late /\ (~Store => txId' = txId)
      /\ pc \in [Actors -> Labels] /\ Sync \in Actors /\ sync \in SyncType
  BY MovesFrame, SyncIsNoUser DEF TInv, SyncTyped
<1>2. \A t : IsTask(t) => IsTask(t)'
  BY TasksGrow
<1>3. \A t \in dxtr : t.id <= txId /\ t.id \notin late => IsTask(t)'
  BY <1>2 DEF CInv, CursorCovers, IsTask
<1>4. ASSUME txId' = txId, ReadInv', WriteInv' PROVE CInv'
  BY <1>1, <1>3, <1>4 DEF CInv, IdsInv, CursorCovers, IsTask
<1>16. ASSUME pc[Sync] \in Writing, sync'.start = sync.start, sync'.max = sync.max,
              \A t \in dxtr : Due(t) => IsTask(t)' \/ Due(t)'
       PROVE  WriteInv'
  <2>1. \A t \in dxtr : t.id <= sync'.max => Missed(t) \/ IsTask(t) \/ Due(t)
    BY <1>16 DEF CInv, WriteInv
  <2>2. \A t : Missed(t)' <=> Missed(t)
    BY <1>1, <1>16 DEF Missed
  <2>3. \A t \in dxtr' : t.id <= sync'.max => Missed(t)' \/ IsTask(t)' \/ Due(t)'
    BY <1>1, <1>2, <1>16, <2>1, <2>2
  <2>4. sync'.max <= lastTx'
    BY <1>1, <1>16 DEF CInv, WriteInv
  <2> QED BY <2>3, <2>4 DEF WriteInv
<1> USE DEF Goto
<1>5. CASE Start
  <2>1. sync'.start = txId /\ pc'[Sync] = "orders"
    BY <1>1, <1>5 DEF Start, NoSync
  <2> QED BY <1>1, <1>4, <1>5, <2>1 DEF ReadInv, WriteInv, Writing, Start
<1>6. CASE ReadOrders
  <2>1. /\ sync'.start = sync.start /\ sync'.found = After("transfer", sync.start)
        /\ pc[Sync] = "orders" /\ pc'[Sync] = "dockets"
    BY <1>1, <1>6 DEF ReadOrders, SyncType
  <2>2. ASSUME NEW t \in dxtr, t.kind = "transfer", ~(t.id <= sync.start)
        PROVE  t.id \in After("transfer", sync.start)
    BY <1>1, <2>2 DEF After, Ids, TInv, SourceTyped, Transactions, SyncType
  <2>3. ReadInv'
    BY <1>1, <1>6, <2>1, <2>2 DEF CInv, ReadInv, Missed, ReadOrders
  <2> QED BY <1>1, <1>4, <1>6, <2>1, <2>3 DEF WriteInv, Writing, ReadOrders
<1>7. CASE ReadDockets
  <2>1. PICK n \in LargestIds("transfer") : sync' = [sync EXCEPT !.maxTransfer = n]
    BY <1>7 DEF ReadDockets
  <2>2. /\ pc[Sync] = "dockets" /\ pc'[Sync] = "jobs" /\ sync'.maxTransfer = n
        /\ sync'.start = sync.start /\ sync'.found = sync.found
    BY <1>1, <1>7, <2>1 DEF ReadDockets, SyncType
  <2>3. n <= lastTx
    BY <2>2, LargestEntered
  <2>4. ReadInv'
    BY <1>1, <1>7, <2>2, <2>3 DEF CInv, ReadInv, Missed, ReadDockets
  <2> QED BY <1>1, <1>4, <1>7, <2>2, <2>4 DEF WriteInv, Writing, ReadDockets
<1>8. CASE ReadJobs
  <2>1. /\ sync'.start = sync.start /\ sync'.found = sync.found
        /\ sync'.jobs = After("consolidation", sync.start)
        /\ sync'.maxTransfer = sync.maxTransfer
        /\ pc[Sync] = "jobs" /\ pc'[Sync] = "jobDockets"
    BY <1>1, <1>8 DEF ReadJobs, SyncType
  <2>2. ASSUME NEW t \in dxtr, t.kind = "consolidation", ~(t.id <= sync.start)
        PROVE  t.id \in After("consolidation", sync.start)
    BY <1>1, <2>2 DEF After, Ids, TInv, SourceTyped, Transactions, SyncType
  <2>3. ReadInv'
    BY <1>1, <1>8, <2>1, <2>2 DEF CInv, ReadInv, Missed, ReadJobs
  <2> QED BY <1>1, <1>4, <1>8, <2>1, <2>3 DEF WriteInv, Writing, ReadJobs
<1>9. CASE ReadJobDockets
  <2>1. PICK n \in LargestIds("consolidation") :
          sync' = [sync EXCEPT !.max = LaterTxId(sync.maxTransfer, n)]
    BY <1>9 DEF ReadJobDockets
  <2>2. /\ pc[Sync] = "jobDockets" /\ pc'[Sync] = "createMany"
        /\ sync'.max = LaterTxId(sync.maxTransfer, n)
        /\ sync'.start = sync.start /\ sync'.found = sync.found /\ sync'.jobs = sync.jobs
    BY <1>1, <1>9, <2>1 DEF ReadJobDockets, SyncType
  <2>3. sync'.max <= lastTx
    <3>1. LaterTxId(sync.maxTransfer, n) \in {sync.maxTransfer, n}
      BY DEF LaterTxId
    <3>2. n <= lastTx /\ sync.maxTransfer <= lastTx
      BY <2>2, LargestEntered DEF CInv, ReadInv
    <3> QED BY <2>2, <3>1, <3>2
  <2>4. \A t \in dxtr : t.kind \in {"transfer", "consolidation"}
    BY DEF TInv, SourceTyped, Transactions, Kinds
  <2>5. \A t \in dxtr : \/ Missed(t)
                        \/ t.kind = "transfer" /\ t.id \in sync.found
                        \/ t.kind = "consolidation" /\ t.id \in sync.jobs
    BY <2>2, <2>4 DEF CInv, ReadInv
  <2>6. \A t : Missed(t)' <=> Missed(t)
    BY <1>1, <2>2 DEF Missed
  <2>7. \A t \in dxtr' : Missed(t)' \/ IsTask(t)' \/ Due(t)'
    BY <1>1, <2>2, <2>5, <2>6 DEF Due
  <2>8. WriteInv'
    BY <1>1, <2>3, <2>7 DEF WriteInv
  <2> QED BY <1>1, <1>4, <1>9, <2>2, <2>8 DEF CInv, ReadInv, ReadJobDockets
<1>10. CASE CreateMany
  <2> DEFINE ranks == {nextDoc - 1 + Cardinality({k \in sync.found : k <= id}) : id \in sync.found}
  <2>1. sync' = [sync EXCEPT !.news = ranks] /\ pc[Sync] = "createMany" /\ pc'[Sync] = "history"
    BY <1>1, <1>10 DEF CreateMany
  <2> HIDE DEF ranks
  <2>2. /\ sync'.start = sync.start /\ sync'.max = sync.max /\ sync'.jobs = sync.jobs
    BY <1>1, <2>1 DEF SyncType
  <2>3. \A t : t.kind = "transfer" /\ t.id \in sync.found => IsTask(t)'
    BY <1>10, CreateManyOrders DEF IsTask
  <2>4. \A t \in dxtr : Due(t) => IsTask(t)' \/ Due(t)'
    BY <2>1, <2>2, <2>3 DEF Due
  <2>5. WriteInv'
    BY <1>16, <2>1, <2>2, <2>4 DEF Writing
  <2> QED BY <1>1, <1>4, <1>10, <2>1, <2>2, <2>5 DEF CInv, ReadInv, CreateMany
<1>11. CASE WriteHistory
  <2>1. pc[Sync] = "history" /\ pc'[Sync] \in {"history", "countJobs"}
    BY <1>1, <1>11 DEF WriteHistory
  <2>2. /\ sync'.start = sync.start /\ sync'.max = sync.max /\ sync'.jobs = sync.jobs
    BY <1>1, <1>11 DEF WriteHistory, SyncType
  <2>3. \A t \in dxtr : Due(t) => Due(t)'
    BY <2>1, <2>2 DEF Due
  <2>4. WriteInv'
    BY <1>16, <2>1, <2>2, <2>3 DEF Writing
  <2> QED BY <1>1, <1>4, <1>11, <2>1, <2>2, <2>4 DEF CInv, ReadInv, WriteHistory
<1>12. CASE CountJobs
  <2>1. pc[Sync] = "countJobs" /\ pc'[Sync] \in {"countJobs", "createJobs", "store"}
    BY <1>1, <1>12 DEF CountJobs
  <2>2. /\ sync'.start = sync.start /\ sync'.max = sync.max
    BY <1>1, <1>12 DEF CountJobs, SyncType
  <2>3. \/ sync'.jobs = sync.jobs /\ (pc'[Sync] # "store" \/ sync.jobs = {})
        \/ \E job \in sync.jobs : /\ sync'.jobs = sync.jobs \ {job} /\ pc'[Sync] = "countJobs"
                                 /\ \E p \in pendingJobs : p.job = job
    BY <1>1, <1>12 DEF CountJobs, SyncType
  <2>4. \A t : t.kind = "consolidation" /\ (\E p \in pendingJobs : p.job = t.id) => IsTask(t)
    BY DEF IsTask, TInv, JobsTyped
  <2>5. ASSUME NEW t \in dxtr, Due(t) PROVE IsTask(t)' \/ Due(t)'
    <3>1. t.kind = "consolidation" /\ t.id \in sync.jobs
      BY <2>1, <2>5 DEF Due
    <3> QED BY <1>2, <2>1, <2>3, <2>4, <3>1 DEF Due
  <2>6. WriteInv'
    BY <1>16, <2>1, <2>2, <2>5 DEF Writing
  <2> QED BY <1>1, <1>4, <1>12, <2>1, <2>2, <2>6 DEF CInv, ReadInv, CountJobs
<1>13. CASE CreateJob
  <2>1. pc[Sync] = "createJobs" /\ pc'[Sync] = "countJobs"
    BY <1>1, <1>13 DEF CreateJob
  <2>2. PICK job \in sync.news :
          /\ made' = made \cup {[job |-> job, doc |-> nextDoc]}
          /\ sync' = [sync EXCEPT !.jobs = @ \ {job}, !.news = {}]
    BY <1>13 DEF CreateJob
  <2>3. /\ sync'.start = sync.start /\ sync'.max = sync.max /\ sync'.jobs = sync.jobs \ {job}
    BY <1>1, <2>2 DEF SyncType
  <2>4. ASSUME NEW t, t.kind = "consolidation", t.id = job PROVE IsTask(t)'
    <3>1. [job |-> job, doc |-> nextDoc] \in made' /\ t.kind # "transfer"
      BY <2>2, <2>4
    <3> QED BY <2>4, <3>1 DEF IsTask
  <2>5. ASSUME NEW t \in dxtr, Due(t) PROVE IsTask(t)' \/ Due(t)'
    <3>1. t.kind = "consolidation" /\ t.id \in sync.jobs
      BY <2>1, <2>5 DEF Due
    <3> QED BY <2>1, <2>3, <2>4, <3>1 DEF Due
  <2>6. WriteInv'
    BY <1>16, <2>1, <2>3, <2>5 DEF Writing
  <2> QED BY <1>1, <1>4, <1>13, <2>1, <2>3, <2>6 DEF CInv, ReadInv, CreateJob
<1>14. CASE Store
  <2>1. /\ pc[Sync] = "store" /\ txId' = sync.max /\ pc'[Sync] = "idle" /\ sync.start = txId
        /\ sync.max <= lastTx
    BY <1>1, <1>14 DEF Store, CInv, ReadInv, WriteInv, Writing
  <2>2. \A t \in dxtr : t.id <= sync.max /\ t.id \notin late => IsTask(t)'
    <3>1. \A t \in dxtr : t.id <= sync.max => Missed(t) \/ IsTask(t)
      BY <2>1 DEF CInv, WriteInv, Writing, Due
    <3> QED BY <1>2, <1>3, <2>1, <3>1 DEF Missed
  <2>3. CursorCovers' /\ IdsInv'
    BY <1>1, <2>1, <2>2 DEF CInv, IdsInv, CursorCovers, IsTask
  <2> QED BY <2>1, <2>3 DEF CInv, ReadInv, WriteInv, Writing
<1>15. CASE SyncFails
  <2>1. pc'[Sync] = "idle" /\ txId' = txId
    BY <1>1, <1>15 DEF SyncFails
  <2> QED BY <1>4, <2>1 DEF ReadInv, WriteInv, Writing
<1> QED BY <1>5, <1>6, <1>7, <1>8, <1>9, <1>10, <1>11, <1>12, <1>13, <1>14, <1>15
        DEF Moves, SyncStep

LEMMA CursorAlways == Spec => []CInv
<1>1. Init => CInv
  <2> SUFFICES ASSUME Init PROVE CInv
    OBVIOUS
  <2>1. lastTx \in Nat /\ pc[Sync] = "idle"
    BY SeedAssumption, SyncIsNoUser DEF Init
  <2> QED BY <2>1 DEF Init, CInv, CursorCovers, IdsInv, ReadInv, WriteInv, Writing
<1>2. ASSUME TInv, CInv, [Next]_vars PROVE CInv'
  <2>1. CASE UNCHANGED vars \/ DecideJob
    <3>1. /\ dxtr' = dxtr /\ lastTx' = lastTx /\ late' = late /\ txId' = txId
          /\ sync' = sync /\ pc' = pc
      BY <2>1 DEF vars, DecideJob, source
    <3> QED BY <1>2, <3>1, AsideCovers
  <2>2. ASSUME NEW u \in Users, UserStep(u) PROVE CInv'
    BY <1>2, <2>2, UserFrame, AsideCovers
  <2> QED BY <1>2, <2>1, <2>2, CommitCovers, MovesCover, StepCases
<1> QED BY <1>1, <1>2, TypesAlways, PTL DEF Spec

(* For any seeds, users and bounds, and wherever the sync breaks off: the  *)
(* stored transaction id never passes an order that became no task, unless *)
(* it was entered while a sync was reading.                                *)
THEOREM CursorIsCovered == Spec => []CursorCovers
<1>1. CInv => CursorCovers
  BY DEF CInv
<1> QED BY <1>1, CursorAlways, PTL

-----------------------------------------------------------------------------
(* OnePendingOrder: between the count and the create nobody else gives the *)
(* job a pending order.                                                    *)

PInv ==
  /\ OnePendingOrder
  /\ pc[Sync] = "createJobs" =>
       /\ \A p \in pendingJobs : p.job \notin sync.news
       /\ \A i, j \in sync.news : i = j

LEMMA PendingStep ==
  ASSUME TInv, PInv, [Next]_vars
  PROVE  PInv'
<1>1. pc \in [Actors -> Labels] /\ Sync \in Actors /\ sync \in SyncType
  BY SyncIsNoUser DEF TInv, SyncTyped
<1>2. ASSUME pendingJobs' \subseteq pendingJobs, sync' = sync, pc'[Sync] = pc[Sync]
      PROVE  PInv'
  BY <1>2 DEF PInv, OnePendingOrder
<1>3. CASE CountJobs
  <2>1. pc[Sync] = "countJobs" /\ pendingJobs' = pendingJobs
    BY <1>3 DEF CountJobs, tasks
  <2>2. CASE pc'[Sync] # "createJobs"
    BY <2>1, <2>2 DEF PInv, OnePendingOrder
  <2>3. CASE pc'[Sync] = "createJobs"
    <3>1. PICK job \in sync.jobs : /\ sync' = [sync EXCEPT !.news = {job}]
                                 /\ ~\E p \in pendingJobs : p.job = job
      BY <1>1, <1>3, <2>1, <2>3 DEF CountJobs, Goto
    <3>2. sync'.news = {job}
      BY <1>1, <3>1 DEF SyncType
    <3> QED BY <2>1, <3>1, <3>2 DEF PInv, OnePendingOrder
  <2> QED BY <2>2, <2>3
<1>4. CASE CreateJob
  <2>1. pc[Sync] = "createJobs" /\ pc'[Sync] = "countJobs"
    BY <1>1, <1>4 DEF CreateJob, Goto
  <2>2. PICK job \in sync.news : pendingJobs' = pendingJobs \cup {[job |-> job, doc |-> nextDoc]}
    BY <1>4 DEF CreateJob
  <2>3. \A p \in pendingJobs : p.job # job
    BY <2>1 DEF PInv
  <2> QED BY <2>1, <2>2, <2>3 DEF PInv, OnePendingOrder
<1>5. CASE Moves /\ ~CountJobs /\ ~CreateJob
  <2>1. pendingJobs' = pendingJobs /\ pc'[Sync] # "createJobs"
    BY <1>1, <1>5 DEF Moves, SyncStep, Start, ReadOrders, ReadDockets, ReadJobs,
       ReadJobDockets, CreateMany, WriteHistory, Store, SyncFails, tasks, Goto
  <2> QED BY <2>1 DEF PInv, OnePendingOrder
<1>6. CASE UNCHANGED vars \/ (\E kind \in Kinds : Commit(kind)) \/ DecideJob
  <2>1. pendingJobs' \subseteq pendingJobs /\ sync' = sync /\ pc' = pc
    BY <1>6 DEF vars, Commit, DecideJob, tasks
  <2> QED BY <1>2, <2>1
<1>7. ASSUME NEW u \in Users, UserStep(u) PROVE PInv'
  BY <1>2, <1>7, UserFrame
<1> QED BY <1>3, <1>4, <1>5, <1>6, <1>7, StepCases

(* For any number of syncs and failures: a job never has two pending       *)
(* consolidation orders.                                                   *)
THEOREM OnePending == Spec => []OnePendingOrder
<1>1. Init => PInv
  BY SyncIsNoUser DEF Init, PInv, OnePendingOrder
<1>2. TInv /\ PInv /\ [Next]_vars => PInv'
  BY PendingStep
<1>3. PInv => OnePendingOrder
  BY DEF PInv
<1> QED BY <1>1, <1>2, <1>3, TypesAlways, PTL DEF Spec

-----------------------------------------------------------------------------
(* TransferRecorded: an approved order is recorded, or the user who wrote  *)
(* what it says now is still about to record it.                           *)

HasRef(type, o) == [type |-> type, doc |-> o.doc, newCase |-> o.newCase] \in transfers

Recorded(o) ==
  /\ HasRef("from", o) /\ HasRef("to", o)
  /\ [doc |-> o.doc, after |-> "approved", newCase |-> o.newCase] \in audit

Records(u, o) ==
  /\ user[u].order = o.doc
  /\ \/ pc[u] = "reread"
     \/ /\ pc[u] \in {"from", "to", "audit"}
        /\ user[u].after.status = "approved" /\ user[u].after.newCase = o.newCase
        /\ pc[u] \in {"to", "audit"} => HasRef("from", o)
        /\ pc[u] = "audit" => HasRef("to", o)

RInv == faults = 0 =>
  \A o \in orders : o.status = "approved" =>
    Recorded(o) \/ \E u \in Users : Records(u, o)

LEMMA RefsGrow ==
  ASSUME TInv, [Next]_vars
  PROVE  transfers \subseteq transfers' /\ audit \subseteq audit'
<1>1. CASE Moves
  <2>1. audit \subseteq audit'
    BY <1>1 DEF Moves, SyncStep, Start, ReadOrders, ReadDockets, ReadJobs, ReadJobDockets,
       CreateMany, WriteHistory, CountJobs, CreateJob, Store, SyncFails, cases
  <2> QED BY <1>1, <2>1, MovesFrame
<1>2. ASSUME NEW u \in Users, UserStep(u)
      PROVE  transfers \subseteq transfers' /\ audit \subseteq audit'
  BY <1>2 DEF UserStep, Decide, Update, Reread, CreateTransferFrom, CreateTransferTo, Refer,
              CreateHistory, DecisionFails, cases
<1>3. CASE UNCHANGED vars \/ (\E kind \in Kinds : Commit(kind)) \/ DecideJob
  BY <1>3 DEF vars, Commit, DecideJob, cases
<1> QED BY <1>1, <1>2, <1>3, StepCases

LEMMA RecordStep ==
  ASSUME TInv, RInv, [Next]_vars
  PROVE  RInv'
<1> SUFFICES ASSUME faults' = 0, NEW o \in orders', o.status = "approved"
             PROVE  Recorded(o)' \/ \E u \in Users : Records(u, o)'
  BY DEF RInv
<1>1. /\ faults = 0
      /\ \A u \in Users : ~DecisionFails(u)
  <2>1. faults \in Nat
    BY BoundAssumption DEF TInv, SourceTyped
  <2>2. faults' = faults \/ faults' = faults + 1
    <3>1. CASE Moves
      BY <3>1 DEF Moves, SyncStep, Start, ReadOrders, ReadDockets, ReadJobs, ReadJobDockets,
         CreateMany, WriteHistory, CountJobs, CreateJob, Store, SyncFails, counts
    <3>2. ASSUME NEW u \in Users, UserStep(u)
          PROVE  faults' = faults \/ faults' = faults + 1
      BY <3>2 DEF UserStep, Decide, Update, Reread, CreateTransferFrom, CreateTransferTo,
         Refer, CreateHistory, DecisionFails, counts
    <3>3. CASE UNCHANGED vars \/ (\E kind \in Kinds : Commit(kind)) \/ DecideJob
      BY <3>3 DEF vars, Commit, DecideJob, counts
    <3> QED BY <3>1, <3>2, <3>3, StepCases
  <2> QED BY <2>1, <2>2 DEF DecisionFails
<1>2. \A p : (Recorded(p) => Recorded(p)')
            /\ (HasRef("from", p) => HasRef("from", p)') /\ (HasRef("to", p) => HasRef("to", p)')
  BY RefsGrow DEF Recorded, HasRef
<1>3. ASSUME o \in orders, NEW v \in Users, user'[v] = user[v], pc'[v] = pc[v], Records(v, o)
      PROVE  Records(v, o)'
  BY <1>2, <1>3 DEF Records
<1>4. ASSUME o \in orders
      PROVE  Recorded(o)' \/ \E u \in Users : Records(u, o)
  BY <1>1, <1>2, <1>4 DEF RInv
<1>5. ASSUME o \in orders, user' = user, \A v \in Users : pc'[v] = pc[v]
      PROVE  Recorded(o)' \/ \E u \in Users : Records(u, o)'
  BY <1>3, <1>4, <1>5
<1>6. CASE Moves
  <2>1. o \in orders
    <3>1. CASE CreateMany
      BY <3>1, CreateManyOrders
    <3>2. CASE ~CreateMany
      BY <1>6, <3>2 DEF Moves, SyncStep, Start, ReadOrders, ReadDockets, ReadJobs,
         ReadJobDockets, WriteHistory, CountJobs, CreateJob, Store, SyncFails, tasks
    <3> QED BY <3>1, <3>2
  <2> QED BY <1>5, <1>6, <2>1, MovesFrame
<1>7. CASE UNCHANGED vars \/ (\E kind \in Kinds : Commit(kind)) \/ DecideJob
  <2>1. orders' = orders /\ user' = user /\ pc' = pc
    BY <1>7 DEF vars, Commit, DecideJob, tasks
  <2> QED BY <1>5, <2>1
<1>8. ASSUME NEW u \in Users, UserStep(u)
      PROVE  Recorded(o)' \/ \E v \in Users : Records(v, o)'
  <2> USE DEF Goto
  <2>1. user \in [Users -> UserType] /\ pc \in [Actors -> Labels] /\ u \in Actors
    BY SyncIsNoUser DEF TInv
  <2>2. ASSUME o \in orders, NEW v \in Users, v # u, Records(v, o)
        PROVE  Records(v, o)'
    BY <1>3, <1>8, <2>2, UserFrame
  <2>3. ASSUME o \in orders, Records(u, o) => Recorded(o)' \/ Records(u, o)'
        PROVE  Recorded(o)' \/ \E v \in Users : Records(v, o)'
    BY <1>4, <2>2, <2>3
  <2>4. CASE Decide(u)
    <3>1. orders' = orders /\ pc[u] = "idle"
      BY <2>4 DEF Decide, tasks
    <3> QED BY <2>3, <3>1 DEF Records
  <2>5. CASE Update(u)
    <3>1. pc[u] = "update"
      BY <2>5 DEF Update
    <3>2. CASE o \in orders
      BY <2>3, <3>1, <3>2 DEF Records
    <3>3. CASE o \notin orders
      <4>1. o.doc = user[u].order /\ pc'[u] = "reread" /\ user' = user
        BY <2>5, <3>3, UpdateOrders
      <4> QED BY <4>1 DEF Records
    <3> QED BY <3>2, <3>3
  <2>6. CASE Reread(u)
    <3>1. orders' = orders /\ pc[u] = "reread"
      BY <2>6 DEF Reread, tasks
    <3>2. ASSUME Records(u, o) PROVE Records(u, o)'
      <4>1. o.doc = user[u].order
        BY <3>2 DEF Records
      <4>2. Order(user[u].order) = o
        BY <3>1, <4>1 DEF Order, TInv, OrdersTyped
      <4>3. user' = [user EXCEPT ![u].after = [status |-> o.status, newCase |-> o.newCase]]
            /\ pc'[u] = "from"
        BY <2>1, <2>6, <4>2 DEF Reread
      <4>4. user'[u].order = o.doc /\ user'[u].after = [status |-> o.status, newCase |-> o.newCase]
        BY <2>1, <4>1, <4>3 DEF UserType
      <4> QED BY <4>3, <4>4 DEF Records
    <3> QED BY <2>3, <3>1, <3>2
  <2>7. CASE CreateTransferFrom(u)
    <3>1. /\ orders' = orders /\ user' = user /\ pc[u] = "from" /\ pc'[u] = "to"
          /\ transfers' = transfers \cup
               {[type |-> "from", doc |-> user[u].order, newCase |-> user[u].after.newCase]}
      BY <2>1, <2>7 DEF CreateTransferFrom, Refer, tasks
    <3>2. ASSUME Records(u, o) PROVE Records(u, o)'
      BY <3>1, <3>2 DEF Records, HasRef
    <3> QED BY <2>3, <3>1, <3>2
  <2>8. CASE CreateTransferTo(u)
    <3>1. /\ orders' = orders /\ user' = user /\ pc[u] = "to" /\ pc'[u] = "audit"
          /\ transfers' = transfers \cup
               {[type |-> "to", doc |-> user[u].order, newCase |-> user[u].after.newCase]}
      BY <2>1, <2>8 DEF CreateTransferTo, Refer, tasks
    <3>2. ASSUME Records(u, o) PROVE Records(u, o)'
      BY <1>2, <3>1, <3>2 DEF Records, HasRef
    <3> QED BY <2>3, <3>1, <3>2
  <2>9. CASE CreateHistory(u)
    <3>1. /\ orders' = orders /\ pc[u] = "audit" /\ transfers' = transfers
          /\ audit' = audit \cup {[doc |-> user[u].order, after |-> user[u].after.status,
                                  newCase |-> user[u].after.newCase]}
      BY <2>9 DEF CreateHistory, tasks
    <3>2. ASSUME Records(u, o) PROVE Recorded(o)'
      BY <3>1, <3>2 DEF Records, HasRef, Recorded
    <3> QED BY <2>3, <3>1, <3>2
  <2> QED BY <1>1, <1>8, <2>4, <2>5, <2>6, <2>7, <2>8, <2>9 DEF UserStep
<1> QED BY <1>6, <1>7, <1>8, StepCases

(* For any number of users and orders, and while no call fails: once the   *)
(* users are done, an approved transfer is recorded, on both cases and in  *)
(* the history, with the case it was last approved for.                    *)
THEOREM TransferIsRecorded == Spec => []TransferRecorded
<1>1. Init => RInv
  BY DEF Init, RInv
<1>2. TInv /\ RInv /\ [Next]_vars => RInv'
  BY RecordStep
<1>3. RInv => TransferRecorded
  BY DEF RInv, TransferRecorded, Recorded, Records, HasRef
<1> QED BY <1>1, <1>2, <1>3, TypesAlways, PTL DEF Spec

-----------------------------------------------------------------------------
(* ImportedOnce.  Two ids of one width compare as strings the way they     *)
(* compare as numbers.                                                     *)

SameDigits(a, b) == \A n \in Tens : a < n <=> b < n

LEMMA PadsShared ==
  ASSUME NEW a \in Nat \ {0}, NEW b \in Nat \ {0}, SameDigits(a, b), NEW t \in Pads(a)
  PROVE  t \in Pads(b)
<1>1. t \in Tens /\ t \in Nat \ {0} /\ a * t < Width /\ Width <= 10 * a * t
  BY TensAssumption DEF Pads
<1>2. PICK s \in Tens : s * t = Width
  BY <1>1, TensAssumption
<1>3. s \in Nat \ {0}
  BY TensAssumption
<1>4. a < s
  <2> SUFFICES ASSUME ~(a < s) PROVE FALSE
    OBVIOUS
  <2>1. PICK d \in Nat : a = s + d
    <3>1. a - s \in Nat /\ a = s + (a - s)
      BY <1>3
    <3> QED BY <3>1
  <2>2. a * t = s * t + d * t /\ d * t \in Nat /\ s * t \in Nat
    BY <1>1, <1>3, <2>1
  <2> QED BY <1>1, <1>2, <2>2
<1>5. b < s
  BY <1>4 DEF SameDigits
<1>6. b * t < Width
  <2>1. PICK d \in Nat \ {0} : s = b + d
    <3>1. s - b \in Nat \ {0} /\ s = b + (s - b)
      BY <1>3, <1>5
    <3> QED BY <3>1
  <2>2. s * t = b * t + d * t /\ d * t \in Nat \ {0} /\ b * t \in Nat
    BY <1>1, <2>1
  <2> QED BY <1>2, <2>2
<1>7. s <= 10 * b
  <2>1. CASE s = 1
    BY <2>1
  <2>2. CASE s # 1
    <3>1. PICK r \in Tens : s = 10 * r
      BY <2>2, TensAssumption
    <3>2. r \in Nat \ {0}
      BY TensAssumption
    <3>3. ~(a < r)
      <4> SUFFICES ASSUME a < r PROVE FALSE
        OBVIOUS
      <4>1. PICK d \in Nat \ {0} : r = a + d
        <5>1. r - a \in Nat \ {0} /\ r = a + (r - a)
          BY <3>2
        <5> QED BY <5>1
      <4>2. s = 10 * a + 10 * d
        BY <3>1, <4>1
      <4>3. s * t = 10 * a * t + 10 * d * t /\ 10 * d * t \in Nat \ {0} /\ 10 * a * t \in Nat
        BY <1>1, <4>2
      <4> QED BY <1>1, <1>2, <4>3
    <3>4. ~(b < r)
      BY <3>3 DEF SameDigits
    <3> QED BY <3>1, <3>2, <3>4
  <2> QED BY <2>1, <2>2
<1>8. Width <= 10 * b * t
  <2>1. PICK d \in Nat : 10 * b = s + d
    <3>1. 10 * b - s \in Nat /\ 10 * b = s + (10 * b - s)
      BY <1>3, <1>7
    <3> QED BY <3>1
  <2>2. 10 * b * t = s * t + d * t /\ d * t \in Nat /\ s * t \in Nat
    BY <1>1, <1>3, <2>1
  <2> QED BY <1>2, <2>2
<1> QED BY <1>1, <1>6, <1>8 DEF Pads

LEMMA LaterIsLarger ==
  ASSUME NEW a \in Nat \ {0}, NEW b \in Nat \ {0}, SameDigits(a, b), a < Width
  PROVE  a <= LaterTxId(a, b) /\ b <= LaterTxId(a, b)
<1>1. SameDigits(b, a)
  BY DEF SameDigits
<1>2. Pads(a) = Pads(b)
  BY <1>1, PadsShared
<1>3. Pads(a) # {}
  <2>1. Width \in Nat \ {0} /\ a \in 1..(Width - 1)
    BY TensAssumption
  <2> QED BY <2>1, TensAssumption DEF Pads
<1>4. PICK t : t = CHOOSE x \in Pads(a) : TRUE
  OBVIOUS
<1>5. t \in Nat \ {0}
  BY <1>3, <1>4, TensAssumption DEF Pads
<1>6. Padded(a) = a * t /\ Padded(b) = b * t
  BY <1>2, <1>4 DEF Padded
<1>7. CASE a > b
  <2>1. PICK d \in Nat \ {0} : a = b + d
    <3>1. a - b \in Nat \ {0} /\ a = b + (a - b)
      BY <1>7
    <3> QED BY <3>1
  <2>2. a * t = b * t + d * t /\ d * t \in Nat \ {0} /\ b * t \in Nat
    BY <1>5, <2>1
  <2>3. Padded(a) > Padded(b)
    BY <1>6, <2>2
  <2> QED BY <1>7, <2>3 DEF LaterTxId, FollowsAsString
<1>8. CASE ~(a > b)
  <2>1. PICK d \in Nat : b = a + d
    <3>1. b - a \in Nat /\ b = a + (b - a)
      BY <1>8
    <3> QED BY <3>1
  <2>2. b * t = a * t + d * t /\ d * t \in Nat /\ a * t \in Nat
    BY <1>5, <2>1
  <2>3. ~(Padded(a) > Padded(b))
    BY <1>6, <2>2
  <2>4. LaterTxId(a, b) = b
    BY <1>8, <2>3 DEF LaterTxId, FollowsAsString
  <2> QED BY <1>8, <2>4
<1> QED BY <1>7, <1>8

(* Every id lies between the seed and the newest id of DXTR. *)
RangeInv ==
  /\ Seed \in 1..(Width - 1) /\ Seed <= lastTx
  /\ Seed <= txId
  /\ \A t \in dxtr : Seed < t.id
  /\ pc[Sync] \in {"jobs", "jobDockets"} => Seed <= sync.maxTransfer
  /\ pc[Sync] \in Writing => Seed <= sync.max

(* What the sync has read follows its start, and the largest ids it reads  *)
(* afterwards are not smaller.                                             *)
ReadFollows ==
  /\ pc[Sync] = "dockets" => sync.found \subseteq After("transfer", sync.start)
  /\ pc[Sync] \in {"jobs", "jobDockets"} =>
       /\ sync.start <= sync.maxTransfer
       /\ \A id \in sync.found : sync.start < id /\ id <= sync.maxTransfer
  /\ pc[Sync] = "jobDockets" => sync.jobs \subseteq After("consolidation", sync.start)

(* While ids keep their width, the new cursor passes all that is written.  *)
HeldFollows == SameWidth /\ pc[Sync] \in Writing =>
  /\ sync.start <= sync.max
  /\ \A id \in sync.jobs : sync.start < id /\ id <= sync.max
  /\ pc[Sync] = "createMany" =>
       \A id \in sync.found : sync.start < id /\ id <= sync.max
  /\ pc[Sync] = "createJobs" => sync.news \subseteq sync.jobs

(* Without a fault, a task is one the cursor has passed, or one this sync  *)
(* has written.                                                            *)
OrderPassed(o) ==
  \/ o.tx <= txId
  \/ pc[Sync] \in {"history", "countJobs", "createJobs", "store"} /\ o.tx <= sync.max
JobPassed(j) ==
  \/ j.job <= txId
  \/ /\ pc[Sync] \in {"history", "countJobs", "createJobs", "store"}
     /\ j.job <= sync.max /\ j.job \notin sync.jobs

TasksPassed == faults = 0 /\ SameWidth =>
  /\ \A o \in orders : OrderPassed(o)
  /\ \A j \in made : JobPassed(j)

NInv == RangeInv /\ ReadFollows /\ HeldFollows /\ TasksPassed /\ ImportedOnce

LEMMA SeedKept ==
  ASSUME TInv, CInv, [Next]_vars
  PROVE  Seed' = Seed /\ lastTx <= lastTx' /\ dxtr \subseteq dxtr'
<1>1. lastTx \in Nat /\ IsFiniteSet(dxtr) /\ Cardinality(dxtr) \in Nat
  BY FS_CardinalityType DEF TInv, SourceTyped
<1>2. CASE dxtr' = dxtr /\ lastTx' = lastTx
  BY <1>1, <1>2 DEF Seed
<1>3. ASSUME NEW kind \in Kinds, Commit(kind)
      PROVE  Seed' = Seed /\ lastTx <= lastTx' /\ dxtr \subseteq dxtr'
  <2>1. PICK new : new = [id |-> lastTx + 1, kind |-> kind]
    OBVIOUS
  <2>2. dxtr' = dxtr \cup {new} /\ lastTx' = lastTx + 1 /\ new.id = lastTx + 1
    BY <1>3, <2>1 DEF Commit
  <2>3. new \notin dxtr
    BY <1>1, <2>2 DEF CInv, IdsInv
  <2>4. Cardinality(dxtr') = Cardinality(dxtr) + 1
    BY <1>1, <2>2, <2>3, FS_AddElement
  <2> QED BY <1>1, <2>2, <2>4 DEF Seed
<1>4. CASE UNCHANGED vars \/ DecideJob
  <2>1. dxtr' = dxtr /\ lastTx' = lastTx
    BY <1>4 DEF vars, DecideJob, source
  <2> QED BY <1>2, <2>1
<1>5. CASE Moves
  BY <1>2, <1>5, MovesFrame
<1>6. ASSUME NEW u \in Users, UserStep(u)
      PROVE  Seed' = Seed /\ lastTx <= lastTx' /\ dxtr \subseteq dxtr'
  BY <1>2, <1>6, UserFrame
<1> QED BY <1>3, <1>4, <1>5, <1>6, StepCases

(* Ids that have the same width after a step had it before.                *)
LEMMA WidthKept ==
  ASSUME TInv, CInv, RangeInv, [Next]_vars, SameWidth'
  PROVE  SameWidth
<1>1. Seed' = Seed /\ lastTx <= lastTx'
  BY SeedKept
<1>2. lastTx \in Nat /\ lastTx' \in Nat /\ Seed \in Nat /\ Seed <= lastTx
  BY SourceStep, TensAssumption DEF TInv, SourceTyped, RangeInv
<1> SUFFICES ASSUME NEW n \in Tens PROVE Seed < n <=> lastTx < n
  BY DEF SameWidth
<1>3. n \in Nat
  BY TensAssumption
<1>4. Seed < n <=> lastTx' < n
  BY <1>1 DEF SameWidth
<1> QED BY <1>1, <1>2, <1>3, <1>4

LEMMA SameDigitsWithin ==
  ASSUME TInv, RangeInv, SameWidth, NEW a \in Nat, NEW b \in Nat,
         Seed <= a, a <= lastTx, Seed <= b, b <= lastTx
  PROVE  a # 0 /\ b # 0 /\ SameDigits(a, b) /\ a < Width
<1>1. lastTx \in Nat /\ Seed \in Nat \ {0} /\ Width \in Tens /\ Width \in Nat /\ Seed < Width
  BY TensAssumption DEF TInv, SourceTyped, RangeInv
<1>2. lastTx < Width
  BY <1>1 DEF SameWidth
<1>3. ASSUME NEW n \in Tens PROVE a < n <=> b < n
  <2>1. n \in Nat
    BY TensAssumption
  <2>2. Seed < n <=> lastTx < n
    BY DEF SameWidth
  <2> QED BY <1>1, <2>1, <2>2
<1> QED BY <1>1, <1>2, <1>3 DEF SameDigits

(* The sync's locals are as they were, and DXTR may have grown.            *)
LEMMA AsideFollows ==
  ASSUME TInv, CInv, RangeInv, ReadFollows, HeldFollows, [Next]_vars,
         sync' = sync, pc'[Sync] = pc[Sync], txId' = txId,
         \A t \in dxtr' : t \in dxtr \/ t.id = lastTx + 1
  PROVE  RangeInv' /\ ReadFollows' /\ HeldFollows'
<1>1. Seed' = Seed /\ lastTx <= lastTx' /\ dxtr \subseteq dxtr'
  BY SeedKept
<1>2. lastTx \in Nat /\ lastTx' \in Nat /\ Seed \in Nat
  BY SourceStep, TensAssumption DEF TInv, SourceTyped, RangeInv
<1>3. RangeInv'
  BY <1>1, <1>2 DEF RangeInv
<1>4. \A kind, start : After(kind, start) \subseteq After(kind, start)'
  BY <1>1 DEF After, Ids
<1>5. ReadFollows'
  <2>1. pc[Sync] = "dockets" => (sync.found \subseteq After("transfer", sync.start))'
    BY <1>4 DEF ReadFollows, After
  <2>2. pc[Sync] = "jobDockets" => (sync.jobs \subseteq After("consolidation", sync.start))'
    BY <1>4 DEF ReadFollows, After
  <2> QED BY <2>1, <2>2 DEF ReadFollows
<1>6. HeldFollows'
  BY WidthKept DEF HeldFollows
<1> QED BY <1>3, <1>5, <1>6

LEMMA LargestFollow ==
  ASSUME TInv, CInv, RangeInv, NEW kind, NEW n \in LargestIds(kind), pc[Sync] # "idle"
  PROVE  /\ n \in Nat /\ n <= lastTx /\ Seed <= n /\ sync.start <= n
         /\ \A id \in After(kind, sync.start) : id \in Nat /\ sync.start < id /\ id <= n
<1>1. n \in Nat /\ n <= lastTx
  BY LargestEntered
<1>2. sync.start \in Nat /\ sync.start = txId /\ Seed <= sync.start /\ Seed \in Nat
  BY TensAssumption DEF CInv, ReadInv, RangeInv, TInv, SyncTyped, SyncType
<1>3. \A id \in After(kind, sync.start) : id \in Nat /\ id > sync.start
  BY DEF After, Ids, TInv, SourceTyped, Transactions
<1>4. n = sync.start \/ n \in After(kind, sync.start)
  BY DEF LargestIds
<1>5. \A id \in After(kind, sync.start) : id <= n
  BY DEF LargestIds
<1> QED BY <1>1, <1>2, <1>3, <1>4, <1>5

LEMMA MovesFollow ==
  ASSUME TInv, CInv, RangeInv, ReadFollows, HeldFollows, Moves, [Next]_vars
  PROVE  RangeInv' /\ ReadFollows' /\ HeldFollows'
<1>1. /\ dxtr' = dxtr /\ lastTx' = lastTx /\ (~Store => txId' = txId)
      /\ pc \in [Actors -> Labels] /\ Sync \in Actors /\ sync \in SyncType
      /\ Seed' = Seed /\ (SameWidth' <=> SameWidth)
  <2>1. dxtr' = dxtr /\ lastTx' = lastTx /\ (~Store => txId' = txId)
    BY MovesFrame
  <2>2. Seed' = Seed /\ (SameWidth' <=> SameWidth)
    BY <2>1 DEF SameWidth, Seed
  <2> QED BY <2>1, <2>2, SyncIsNoUser DEF TInv, SyncTyped
<1>2. /\ Seed \in Nat /\ txId \in Nat /\ sync.start \in Nat /\ sync.max \in Nat
      /\ sync.maxTransfer \in Nat /\ sync.found \subseteq Nat /\ sync.jobs \subseteq Nat
      /\ (pc[Sync] # "idle" => sync.start = txId)
  BY <1>1, TensAssumption DEF RangeInv, TInv, SourceTyped, SyncType, CInv, ReadInv
<1>3. ASSUME txId' = txId, pc'[Sync] \in {"jobs", "jobDockets"} => Seed <= sync'.maxTransfer,
             pc'[Sync] \in Writing => Seed <= sync'.max
      PROVE  RangeInv'
  BY <1>1, <1>3 DEF RangeInv
<1>4. \A kind, start : After(kind, start)' = After(kind, start)
  BY <1>1 DEF After, Ids
<1> USE DEF Goto
<1>5. CASE Start \/ SyncFails
  <2>1. pc'[Sync] \in {"orders", "idle"} /\ txId' = txId
    BY <1>1, <1>5 DEF Start, SyncFails
  <2> QED BY <1>3, <2>1 DEF RangeInv, ReadFollows, HeldFollows, Writing
<1>6. CASE ReadOrders
  <2>1. /\ sync'.start = sync.start /\ sync'.found = After("transfer", sync.start)
        /\ pc'[Sync] = "dockets" /\ txId' = txId
    BY <1>1, <1>6 DEF ReadOrders, SyncType
  <2>2. (sync.found \subseteq After("transfer", sync.start))'
    BY <1>1, <2>1 DEF After, Ids
  <2> QED BY <1>3, <2>1, <2>2 DEF ReadFollows, HeldFollows, Writing
<1>7. CASE ReadDockets
  <2>1. PICK n \in LargestIds("transfer") : sync' = [sync EXCEPT !.maxTransfer = n]
    BY <1>7 DEF ReadDockets
  <2>2. /\ pc[Sync] = "dockets" /\ pc'[Sync] = "jobs" /\ sync'.maxTransfer = n
        /\ sync'.start = sync.start /\ sync'.found = sync.found /\ txId' = txId
    BY <1>1, <1>7, <2>1 DEF ReadDockets, SyncType
  <2>3. /\ Seed <= n /\ sync.start <= n
        /\ \A id \in After("transfer", sync.start) : sync.start < id /\ id <= n
    BY <2>2, LargestFollow
  <2>4. \A id \in sync.found : sync.start < id /\ id <= n
    BY <2>2, <2>3 DEF ReadFollows
  <2> QED BY <1>3, <2>2, <2>3, <2>4 DEF ReadFollows, HeldFollows, Writing
<1>8. CASE ReadJobs
  <2>1. /\ pc[Sync] = "jobs" /\ pc'[Sync] = "jobDockets" /\ sync'.maxTransfer = sync.maxTransfer
        /\ sync'.start = sync.start /\ sync'.found = sync.found /\ txId' = txId
        /\ sync'.jobs = After("consolidation", sync.start)
    BY <1>1, <1>8 DEF ReadJobs, SyncType
  <2>2. (sync.jobs \subseteq After("consolidation", sync.start))'
    BY <1>1, <2>1 DEF After, Ids
  <2> QED BY <1>3, <2>1, <2>2 DEF RangeInv, ReadFollows, HeldFollows, Writing
<1>9. CASE ReadJobDockets
  <2>1. PICK n \in LargestIds("consolidation") :
          sync' = [sync EXCEPT !.max = LaterTxId(sync.maxTransfer, n)]
    BY <1>9 DEF ReadJobDockets
  <2>2. /\ pc[Sync] = "jobDockets" /\ pc'[Sync] = "createMany" /\ txId' = txId
        /\ sync'.max = LaterTxId(sync.maxTransfer, n)
        /\ sync'.start = sync.start /\ sync'.found = sync.found /\ sync'.jobs = sync.jobs
    BY <1>1, <1>9, <2>1 DEF ReadJobDockets, SyncType
  <2>3. /\ n \in Nat /\ n <= lastTx /\ Seed <= n
        /\ \A id \in After("consolidation", sync.start) :
             id \in Nat /\ sync.start < id /\ id <= n
    BY <2>2, LargestFollow
  <2>4. /\ Seed <= sync.maxTransfer /\ sync.maxTransfer <= lastTx
        /\ sync.start <= sync.maxTransfer
        /\ \A id \in sync.found : sync.start < id /\ id <= sync.maxTransfer
        /\ \A id \in sync.jobs : sync.start < id /\ id <= n
    BY <2>2, <2>3 DEF RangeInv, ReadFollows, CInv, ReadInv
  <2>5. ASSUME SameWidth
        PROVE  /\ sync'.start <= sync'.max
               /\ \A id \in sync'.found \cup sync'.jobs : sync'.start < id /\ id <= sync'.max
    <3>1. /\ sync.maxTransfer # 0 /\ n # 0 /\ SameDigits(sync.maxTransfer, n)
          /\ sync.maxTransfer < Width
      BY <1>2, <2>3, <2>4, <2>5, SameDigitsWithin
    <3>2. sync.maxTransfer <= sync'.max /\ n <= sync'.max
      BY <1>2, <2>2, <2>3, <3>1, LaterIsLarger
    <3>3. sync'.max \in Nat
      BY <1>2, <2>2, <2>3 DEF LaterTxId
    <3> QED BY <1>2, <2>2, <2>3, <2>4, <3>2, <3>3
  <2>6. Seed <= sync'.max
    BY <2>2, <2>3, <2>4 DEF LaterTxId
  <2> QED BY <1>1, <1>3, <2>2, <2>5, <2>6 DEF ReadFollows, HeldFollows
<1>10. CASE CreateMany \/ WriteHistory
  <2>1. /\ pc[Sync] \in Writing /\ pc'[Sync] \in {"history", "countJobs"} /\ txId' = txId
        /\ sync'.start = sync.start /\ sync'.max = sync.max /\ sync'.jobs = sync.jobs
    <3>1. CASE CreateMany
      <4> DEFINE ranks == {nextDoc - 1 + Cardinality({k \in sync.found : k <= id}) : id \in sync.found}
      <4>1. sync' = [sync EXCEPT !.news = ranks] /\ pc[Sync] = "createMany"
            /\ pc'[Sync] = "history" /\ txId' = txId
        BY <1>1, <3>1 DEF CreateMany
      <4> HIDE DEF ranks
      <4> QED BY <1>1, <4>1 DEF SyncType, Writing
    <3>2. CASE WriteHistory
      BY <1>1, <3>2 DEF WriteHistory, SyncType, Writing
    <3> QED BY <1>10, <3>1, <3>2
  <2> QED BY <1>1, <1>3, <2>1 DEF RangeInv, ReadFollows, HeldFollows
<1>11. CASE CountJobs
  <2>1. /\ pc[Sync] \in Writing /\ pc'[Sync] \in {"countJobs", "createJobs", "store"}
        /\ txId' = txId /\ sync'.start = sync.start /\ sync'.max = sync.max
    BY <1>1, <1>11 DEF CountJobs, SyncType, Writing
  <2>2. sync'.jobs \subseteq sync.jobs /\ (pc'[Sync] = "createJobs" => sync'.news \subseteq sync'.jobs)
    BY <1>1, <1>11 DEF CountJobs, SyncType
  <2> QED BY <1>1, <1>3, <2>1, <2>2 DEF RangeInv, ReadFollows, HeldFollows
<1>12. CASE CreateJob
  <2>1. PICK job \in sync.news : sync' = [sync EXCEPT !.jobs = @ \ {job}, !.news = {}]
    BY <1>12 DEF CreateJob
  <2>2. /\ pc[Sync] \in Writing /\ pc'[Sync] = "countJobs" /\ txId' = txId
        /\ sync'.start = sync.start /\ sync'.max = sync.max /\ sync'.jobs \subseteq sync.jobs
    BY <1>1, <1>12, <2>1 DEF CreateJob, SyncType, Writing
  <2> QED BY <1>1, <1>3, <2>2 DEF RangeInv, ReadFollows, HeldFollows
<1>13. CASE Store
  <2>1. /\ pc[Sync] = "store" /\ pc'[Sync] = "idle" /\ txId' = sync.max
    BY <1>1, <1>13 DEF Store
  <2>2. Seed <= sync.max
    BY <2>1 DEF RangeInv, Writing
  <2> QED BY <1>1, <2>1, <2>2 DEF RangeInv, ReadFollows, HeldFollows, Writing
<1> QED BY <1>5, <1>6, <1>7, <1>8, <1>9, <1>10, <1>11, <1>12, <1>13 DEF Moves, SyncStep

LEMMA AsideOnce ==
  ASSUME TInv, CInv, NInv, [Next]_vars,
         sync' = sync, pc'[Sync] = pc[Sync], txId' = txId, made' = made,
         faults' = 0 => faults = 0,
         \/ orders' = orders
         \/ \E o \in orders : \E new : orders' = (orders \ {o}) \cup {new} /\ new.tx = o.tx
  PROVE  TasksPassed' /\ ImportedOnce'
<1> SUFFICES ASSUME faults' = 0, SameWidth'
             PROVE  /\ \A o \in orders' : OrderPassed(o)'
                    /\ \A j \in made' : JobPassed(j)'
                    /\ \A o, p \in orders' : o.tx = p.tx => o = p
                    /\ \A i, j \in made' : i.job = j.job => i = j
  BY DEF TasksPassed, ImportedOnce
<1>1. faults = 0 /\ SameWidth
  BY WidthKept DEF NInv
<1>2. /\ \A o \in orders : OrderPassed(o)
      /\ \A j \in made : JobPassed(j)
      /\ \A o, p \in orders : o.tx = p.tx => o = p
      /\ \A i, j \in made : i.job = j.job => i = j
  BY <1>1 DEF NInv, TasksPassed, ImportedOnce
<1>3. /\ \A o : OrderPassed(o)' <=> OrderPassed(o)
      /\ \A j : JobPassed(j)' <=> JobPassed(j)
  BY DEF OrderPassed, JobPassed
<1>4. CASE orders' = orders
  BY <1>2, <1>3, <1>4
<1>5. CASE orders' # orders
  <2>1. PICK o \in orders, new \in orders' : orders' = (orders \ {o}) \cup {new} /\ new.tx = o.tx
    BY <1>5
  <2>2. OrderPassed(new)
    BY <1>2, <2>1 DEF OrderPassed
  <2>3. \A p \in orders' : OrderPassed(p)'
    BY <1>2, <1>3, <2>1, <2>2
  <2>4. \A p, q \in orders' : p.tx = q.tx => p = q
    BY <1>2, <2>1
  <2> QED BY <1>2, <1>3, <2>3, <2>4
<1> QED BY <1>4, <1>5

LEMMA MovesOnce ==
  ASSUME TInv, CInv, NInv, Moves, [Next]_vars
  PROVE  TasksPassed' /\ ImportedOnce'
<1>1. /\ (~Store => txId' = txId)
      /\ pc \in [Actors -> Labels] /\ Sync \in Actors /\ sync \in SyncType
  BY MovesFrame, SyncIsNoUser DEF TInv, SyncTyped
<1>2. /\ txId \in Nat /\ sync.start \in Nat /\ sync.max \in Nat
      /\ sync.found \subseteq Nat /\ sync.jobs \subseteq Nat
      /\ (pc[Sync] # "idle" => sync.start = txId)
      /\ \A o \in orders : o.tx \in Nat
      /\ \A j \in made : j.job \in Nat
  BY <1>1 DEF TInv, SourceTyped, SyncType, CInv, ReadInv, OrdersTyped, Orders, JobsTyped, Jobs
<1> USE DEF Goto
<1>3. CASE SyncFails
  <2>1. faults' # 0
    BY <1>3 DEF SyncFails, TInv, SourceTyped
  <2> QED BY <2>1 DEF TasksPassed, ImportedOnce
<1> SUFFICES ASSUME faults' = 0, SameWidth', ~SyncFails
             PROVE  /\ \A o \in orders' : OrderPassed(o)'
                    /\ \A j \in made' : JobPassed(j)'
                    /\ \A o, p \in orders' : o.tx = p.tx => o = p
                    /\ \A i, j \in made' : i.job = j.job => i = j
  BY <1>3 DEF TasksPassed, ImportedOnce
<1>4. faults = 0 /\ SameWidth
  <2>1. faults' = faults
    BY DEF Moves, SyncStep, Start, ReadOrders, ReadDockets, ReadJobs, ReadJobDockets,
       CreateMany, WriteHistory, CountJobs, CreateJob, Store, counts
  <2> QED BY <2>1, WidthKept DEF NInv
<1>5. /\ \A o \in orders : OrderPassed(o)
      /\ \A j \in made : JobPassed(j)
      /\ \A o, p \in orders : o.tx = p.tx => o = p
      /\ \A i, j \in made : i.job = j.job => i = j
  BY <1>4 DEF NInv, TasksPassed, ImportedOnce
<1>6. pc[Sync] \in Writing =>
        /\ sync.start <= sync.max
        /\ \A id \in sync.jobs : sync.start < id /\ id <= sync.max
        /\ pc[Sync] = "createMany" => \A id \in sync.found : sync.start < id /\ id <= sync.max
        /\ pc[Sync] = "createJobs" => sync.news \subseteq sync.jobs
  BY <1>4 DEF NInv, HeldFollows
<1>7. CASE Start \/ ReadOrders \/ ReadDockets \/ ReadJobs \/ ReadJobDockets
  <2>1. /\ orders' = orders /\ made' = made /\ txId' = txId
        /\ pc[Sync] \notin {"history", "countJobs", "createJobs", "store"}
    BY <1>7 DEF Start, ReadOrders, ReadDockets, ReadJobs, ReadJobDockets, tasks
  <2> QED BY <1>5, <2>1 DEF OrderPassed, JobPassed
<1>8. CASE CreateMany
  <2> DEFINE rank(id) == nextDoc - 1 + Cardinality({k \in sync.found : k <= id})
             fresh(id) == [NewOrder(id) EXCEPT !.doc = rank(id)]
             ranks == {rank(id) : id \in sync.found}
  <2>1. /\ orders' = orders \cup {fresh(id) : id \in sync.found}
        /\ sync' = [sync EXCEPT !.news = ranks] /\ pc[Sync] = "createMany"
        /\ pc'[Sync] = "history" /\ txId' = txId /\ made' = made
    BY <1>1, <1>8 DEF CreateMany
  <2>2. \A id : fresh(id).tx = id
    BY DEF NewOrder
  <2> HIDE DEF ranks, fresh, rank
  <2>3. sync'.max = sync.max /\ sync'.jobs = sync.jobs
    BY <1>1, <2>1 DEF SyncType
  <2>4. \A o \in orders : o.tx <= sync.start
    BY <1>2, <1>5, <2>1 DEF OrderPassed
  <2>5. \A j \in made : j.job <= txId
    BY <1>5, <2>1 DEF JobPassed
  <2>6. \A id \in sync.found : sync.start < id /\ id <= sync.max
    BY <1>6, <2>1 DEF Writing
  <2>7. \A o \in orders' : OrderPassed(o)'
    BY <1>2, <2>1, <2>2, <2>3, <2>4, <2>6 DEF OrderPassed
  <2>8. \A j \in made' : JobPassed(j)'
    BY <2>1, <2>5 DEF JobPassed
  <2>9. \A o, p \in orders' : o.tx = p.tx => o = p
    <3>1. \A o \in orders : \A id \in sync.found : o.tx # fresh(id).tx
      BY <1>2, <2>2, <2>4, <2>6
    <3> QED BY <1>5, <2>1, <2>2, <3>1
  <2> QED BY <1>5, <2>1, <2>7, <2>8, <2>9
<1>9. CASE WriteHistory
  <2>1. /\ orders' = orders /\ made' = made /\ txId' = txId
        /\ sync'.max = sync.max /\ sync'.jobs = sync.jobs
        /\ pc[Sync] = "history" /\ pc'[Sync] \in {"history", "countJobs"}
    BY <1>1, <1>9 DEF WriteHistory, SyncType, tasks
  <2> QED BY <1>5, <2>1 DEF OrderPassed, JobPassed
<1>10. CASE CountJobs
  <2>1. /\ orders' = orders /\ made' = made /\ txId' = txId
        /\ sync'.max = sync.max /\ sync'.jobs \subseteq sync.jobs
        /\ pc[Sync] = "countJobs" /\ pc'[Sync] \in {"countJobs", "createJobs", "store"}
    BY <1>1, <1>10 DEF CountJobs, SyncType, tasks
  <2> QED BY <1>5, <2>1 DEF OrderPassed, JobPassed
<1>11. CASE CreateJob
  <2>1. PICK job \in sync.news :
          /\ made' = made \cup {[job |-> job, doc |-> nextDoc]}
          /\ sync' = [sync EXCEPT !.jobs = @ \ {job}, !.news = {}]
    BY <1>11 DEF CreateJob
  <2>2. PICK new : new = [job |-> job, doc |-> nextDoc]
    OBVIOUS
  <2>3. /\ orders' = orders /\ txId' = txId /\ sync'.max = sync.max
        /\ sync'.jobs = sync.jobs \ {job}
        /\ pc[Sync] = "createJobs" /\ pc'[Sync] = "countJobs"
    BY <1>1, <1>11, <2>1 DEF CreateJob, SyncType
  <2>4. job \in sync.jobs /\ sync.start < job /\ job <= sync.max
    BY <1>6, <2>3 DEF Writing
  <2>5. \A j \in made : j.job # job
    BY <1>2, <1>5, <2>3, <2>4 DEF JobPassed
  <2>6. new.job = job /\ made' = made \cup {new}
    BY <2>1, <2>2
  <2>7. \A j \in made' : JobPassed(j)'
    BY <1>5, <2>3, <2>4, <2>6 DEF JobPassed
  <2>8. \A i, j \in made' : i.job = j.job => i = j
    BY <1>5, <2>5, <2>6
  <2>9. \A o \in orders' : OrderPassed(o)'
    BY <1>5, <2>3 DEF OrderPassed
  <2> QED BY <1>5, <2>3, <2>7, <2>8, <2>9
<1>12. CASE Store
  <2>1. /\ orders' = orders /\ made' = made /\ txId' = sync.max
        /\ pc[Sync] = "store" /\ sync.start = txId
    BY <1>2, <1>12 DEF Store, tasks
  <2>2. txId <= sync.max
    BY <1>6, <2>1 DEF Writing
  <2>3. \A o \in orders : o.tx <= sync.max
    BY <1>2, <1>5, <2>2 DEF OrderPassed
  <2>4. \A j \in made : j.job <= sync.max
    BY <1>2, <1>5, <2>2 DEF JobPassed
  <2> QED BY <1>5, <2>1, <2>3, <2>4 DEF OrderPassed, JobPassed
<1> QED BY <1>7, <1>8, <1>9, <1>10, <1>11, <1>12 DEF Moves, SyncStep

(* For any seeds, widths, users and bounds: unless a call failed or ids    *)
(* grew by a digit, no order becomes a task twice.  Because ids are read   *)
(* before the largest of them, and the cursor is set to the larger of two. *)
THEOREM NoOrderTwice == Spec => []ImportedOnce
<1>1. Init => NInv
  <2> SUFFICES ASSUME Init PROVE NInv
    OBVIOUS
  <2>1. /\ lastTx \in 1..(Width - 1) /\ txId = lastTx /\ dxtr = {} /\ pc[Sync] = "idle"
        /\ orders = {} /\ made = {}
    BY SeedAssumption, SyncIsNoUser DEF Init
  <2>2. Seed = lastTx
    <3>1. Cardinality(dxtr) = 0
      BY <2>1, FS_EmptySet
    <3> QED BY <2>1, <3>1, TensAssumption DEF Seed
  <2>3. RangeInv
    BY <2>1, <2>2, TensAssumption DEF RangeInv, Writing
  <2> QED BY <2>1, <2>3 DEF NInv, ReadFollows, HeldFollows, Writing, TasksPassed, ImportedOnce
<1>2. ASSUME TInv, CInv, NInv, [Next]_vars PROVE NInv'
  <2>1. CASE Moves
    BY <1>2, <2>1, MovesFollow, MovesOnce DEF NInv
  <2>2. CASE UNCHANGED vars \/ DecideJob \/ \E kind \in Kinds : Commit(kind)
    <3>1. /\ sync' = sync /\ pc' = pc /\ txId' = txId /\ made' = made /\ orders' = orders
          /\ faults' = faults
      BY <2>2 DEF vars, DecideJob, Commit, tasks, counts
    <3>2. \A t \in dxtr' : t \in dxtr \/ t.id = lastTx + 1
      <4>1. \A kind : [id |-> lastTx + 1, kind |-> kind].id = lastTx + 1
        OBVIOUS
      <4> QED BY <2>2, <4>1 DEF vars, source, DecideJob, Commit
    <3>3. RangeInv' /\ ReadFollows' /\ HeldFollows'
      BY <1>2, <3>1, <3>2, AsideFollows DEF NInv
    <3>4. TasksPassed' /\ ImportedOnce'
      BY <1>2, <3>1, AsideOnce
    <3> QED BY <3>3, <3>4 DEF NInv
  <2>3. ASSUME NEW u \in Users, UserStep(u) PROVE NInv'
    <3>1. /\ sync' = sync /\ pc'[Sync] = pc[Sync] /\ txId' = txId /\ made' = made
          /\ dxtr' = dxtr
      BY <1>2, <2>3, UserFrame
    <3>2. RangeInv' /\ ReadFollows' /\ HeldFollows'
      BY <1>2, <3>1, AsideFollows DEF NInv
    <3>3. faults' = 0 => faults = 0
      <4>1. CASE DecisionFails(u)
        BY <1>2, <4>1 DEF DecisionFails, TInv, SourceTyped
      <4>2. CASE ~DecisionFails(u)
        BY <2>3, <4>2 DEF UserStep, Decide, Update, Reread, CreateTransferFrom,
           CreateTransferTo, Refer, CreateHistory, counts
      <4> QED BY <4>1, <4>2
    <3>4. \/ orders' = orders
          \/ \E o \in orders : \E new : orders' = (orders \ {o}) \cup {new} /\ new.tx = o.tx
      <4>1. CASE Update(u)
        BY <1>2, <4>1, UpdateOrders
      <4>2. CASE ~Update(u)
        BY <2>3, <4>2 DEF UserStep, Decide, Reread, CreateTransferFrom,
           CreateTransferTo, Refer, CreateHistory, DecisionFails, tasks
      <4> QED BY <4>1, <4>2
    <3>5. TasksPassed' /\ ImportedOnce'
      BY <1>2, <3>1, <3>3, <3>4, AsideOnce
    <3> QED BY <3>2, <3>5 DEF NInv
  <2> QED BY <1>2, <2>1, <2>2, <2>3, StepCases
<1>3. NInv => ImportedOnce
  BY DEF NInv
<1> QED BY <1>1, <1>2, <1>3, TypesAlways, CursorAlways, PTL DEF Spec

=============================================================================
