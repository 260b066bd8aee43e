------------------------ MODULE ConsolidationsProofs ------------------------
(***************************************************************************)
(* Theorems about Consolidations, for any cases, jobs, requests and        *)
(* faults: types, no case of a job is lost, a lead case never refers to a  *)
(* member that does not refer to it; and, while no two requests overlap,   *)
(* a case is a member of one consolidation and an id stands for one order; *)
(* and what is approved without a fault is carried out in full.            *)
(***************************************************************************)
EXTENDS Consolidations, FiniteSetTheorems, TLAPS

RequestType ==
  [asked : Inputs, doc : Nat, listed : SUBSET Cases, todo : SUBSET Cases,
   at : Cases, index : Nat, attorneys : Staff, before : SUBSET Cases]

(* What only approvals go through. *)
ForApprovals == {"checkMembers", "checkLead", "attorneys", "to", "from",
                 "assign", "readLead", "leadHistory"}

OrdersTyped ==
  /\ orders \subseteq Orders
  /\ \A o, p \in orders : o.doc = p.doc => o = p
  /\ nextDoc \in Nat \ {0}
  /\ \A o \in orders : o.doc < nextDoc
  /\ IsFiniteSet(orders)

CasesTyped ==
  /\ refs \subseteq References
  /\ staff \in [Cases -> Staff]
  /\ history \in [Cases -> Entries]

RequestsTyped ==
  /\ pc \in [Requests -> Labels]
  /\ request \in [Requests -> RequestType]
  /\ \A r \in Requests : pc[r] \in ForApprovals => Status(r) = "approved"

FaultsTyped == overlapped \in BOOLEAN /\ faults \in 0..MaxFaults

TInv == OrdersTyped /\ CasesTyped /\ RequestsTyped /\ FaultsTyped

-----------------------------------------------------------------------------
(* Constants and keys. *)

LEMMA AskedTyped ==
  ASSUME NEW i \in Inputs
  PROVE  /\ i.status \in {"approved", "rejected"} /\ i.job \in Jobs
         /\ i.included \in SUBSET Cases /\ i.lead \in Cases \cup {NoCase}
         /\ i.status = "approved" => i.lead \in Cases
BY DEF Inputs

LEMMA KeyTyped ==
  ASSUME NEW j \in Jobs, NEW s \in Statuses, NEW n \in Nat
  PROVE  /\ Key(j, s, n) \in Keys
         /\ Key(j, s, n).job = j /\ Key(j, s, n).status = s
BY DEF Key, Keys

LEMMA FiniteImage ==
  ASSUME NEW S, NEW T, IsFiniteSet(S), NEW f \in Surjection(S, T)
  PROVE  IsFiniteSet(T)
BY FS_Surjection

LEMMA NoRequestTyped == NoRequest \in RequestType
<1>1. (CHOOSE i \in Asked : TRUE) \in Inputs
  BY InputAssumption
<1>2. (CHOOSE c \in Cases : TRUE) \in Cases
  BY InputAssumption
<1> QED BY <1>1, <1>2 DEF NoRequest, RequestType, Staff

LEMMA TypesInit == Init => TInv
<1> SUFFICES ASSUME Init PROVE TInv
  OBVIOUS
<1>1. Cardinality(Jobs) \in Nat
  BY FS_CardinalityType, InputAssumption
<1>2. PICK number \in [Jobs -> 1..Cardinality(Jobs)] :
        /\ \A i, j \in Jobs : number[i] = number[j] => i = j
        /\ orders = {[doc |-> number[j], key |-> Key(j, "pending", 0),
                      members |-> MembersOf[j], lead |-> NoCase,
                      typed |-> FALSE] : j \in Jobs}
  BY DEF Init
<1>3. \A j \in Jobs : Key(j, "pending", 0) \in Keys
  BY KeyTyped DEF Statuses
<1>4. OrdersTyped
  <2>1. IsFiniteSet(orders)
    <3> DEFINE first == [j \in Jobs |->
          [doc |-> number[j], key |-> Key(j, "pending", 0), members |-> MembersOf[j],
           lead |-> NoCase, typed |-> FALSE]]
    <3>1. first \in Surjection(Jobs, orders)
      BY <1>2 DEF Surjection
    <3> QED BY <3>1, FiniteImage, InputAssumption
  <2>2. orders \subseteq Orders
    <3>1. \A j \in Jobs : number[j] \in Nat /\ MembersOf[j] \in SUBSET Cases
      BY <1>1, <1>2, InputAssumption
    <3>2. ASSUME NEW j \in Jobs
          PROVE  [doc |-> number[j], key |-> Key(j, "pending", 0), members |-> MembersOf[j],
                  lead |-> NoCase, typed |-> FALSE] \in Orders
      BY <1>3, <3>1 DEF Orders
    <3> QED BY <1>2, <3>2
  <2>3. \A o \in orders : \E j \in Jobs : o.doc = number[j]
    BY <1>2
  <2>4. ASSUME NEW o \in orders, NEW p \in orders, o.doc = p.doc PROVE o = p
    <3>1. PICK i \in Jobs : o = [doc |-> number[i], key |-> Key(i, "pending", 0),
                                members |-> MembersOf[i], lead |-> NoCase, typed |-> FALSE]
      BY <1>2
    <3>2. PICK j \in Jobs : p = [doc |-> number[j], key |-> Key(j, "pending", 0),
                                members |-> MembersOf[j], lead |-> NoCase, typed |-> FALSE]
      BY <1>2
    <3>3. i = j
      BY <1>2, <2>4, <3>1, <3>2
    <3> QED BY <3>1, <3>2, <3>3
  <2>5. nextDoc \in Nat \ {0} /\ \A o \in orders : o.doc < nextDoc
    BY <1>1, <2>3 DEF Init
  <2> QED BY <2>1, <2>2, <2>4, <2>5 DEF OrdersTyped
<1>5. CasesTyped
  BY InputAssumption DEF Init, CasesTyped, References, Staff, Entries, Statuses
<1>6. RequestsTyped
  BY NoRequestTyped DEF Init, RequestsTyped, Labels, ForApprovals
<1>7. FaultsTyped
  <2>1. overlapped \in BOOLEAN
    BY DEF Init
  <2>2. faults \in 0..MaxFaults
    BY InputAssumption DEF Init
  <2> QED BY <2>1, <2>2 DEF FaultsTyped
<1> QED BY <1>4, <1>5, <1>6, <1>7 DEF TInv
-----------------------------------------------------------------------------
(* Steps.  Looks leave the store and the cases alone. *)

Looks(r) == Begin(r) \/ Read(r) \/ CheckMembers(r) \/ CheckLead(r) \/ Count(r)
              \/ ReadAttorneys(r) \/ ReadLeadHistory(r) \/ Fails(r)

CaseSteps(r) == MemberHistory(r) \/ CreateTo(r) \/ CreateFrom(r) \/ Assign(r)
                  \/ BlindHistory(r) \/ LeadHistory(r)

LEMMA StepCases ==
  ASSUME [Next]_vars
  PROVE  \/ UNCHANGED vars
         \/ \E r \in Requests : Looks(r) \/ Create(r) \/ UpdateOrDelete(r) \/ CaseSteps(r)
BY DEF Next, Looks, CaseSteps

LEMMA StoreKept ==
  ASSUME NEW r \in Requests, Looks(r) \/ CaseSteps(r)
  PROVE  UNCHANGED <<orders, nextDoc>>
<1>1. CASE Looks(r)
  BY <1>1 DEF Looks, Begin, Read, CheckMembers, CheckLead, Count, ReadAttorneys,
              ReadLeadHistory, Fails, store
<1>2. CASE CaseSteps(r)
  BY <1>2 DEF CaseSteps, MemberHistory, CreateTo, CreateFrom, Assign, BlindHistory,
              LeadHistory, store
<1> QED BY <1>1, <1>2

LEMMA CasesKept ==
  ASSUME NEW r \in Requests, Looks(r) \/ Create(r) \/ UpdateOrDelete(r)
  PROVE  UNCHANGED <<refs, staff, history>>
<1>1. CASE Looks(r)
  BY <1>1 DEF Looks, Begin, Read, CheckMembers, CheckLead, Count, ReadAttorneys,
              ReadLeadHistory, Fails, cases
<1>2. CASE Create(r) \/ UpdateOrDelete(r)
  BY <1>2 DEF Create, UpdateOrDelete, cases
<1> QED BY <1>1, <1>2

(* What a step leaves of the requests: another request's label and locals, *)
(* and, once it has begun, what this one asked for.                        *)
LEMMA OthersKept ==
  ASSUME TInv, NEW r \in Requests,
         Looks(r) \/ Create(r) \/ UpdateOrDelete(r) \/ CaseSteps(r),
         NEW q \in Requests, q # r
  PROVE  pc'[q] = pc[q] /\ request'[q] = request[q]
<1>1. CASE Looks(r)
  <2> USE DEF Goto, TInv, RequestsTyped
  <2>1. CASE Begin(r) \/ Read(r)
    BY <2>1 DEF Begin, Read
  <2>2. CASE CheckMembers(r) \/ CheckLead(r) \/ Count(r)
    BY <2>2 DEF CheckMembers, CheckLead, Count
  <2>3. CASE ReadAttorneys(r) \/ ReadLeadHistory(r) \/ Fails(r)
    BY <2>3 DEF ReadAttorneys, ReadLeadHistory, Fails
  <2> QED BY <1>1, <2>1, <2>2, <2>3 DEF Looks
<1>2. CASE Create(r) \/ UpdateOrDelete(r)
  BY <1>2 DEF Create, UpdateOrDelete, Goto, TInv, RequestsTyped
<1>3. CASE CaseSteps(r)
  BY <1>3 DEF CaseSteps, MemberHistory, CreateTo, CreateFrom, Assign, BlindHistory,
              LeadHistory, Goto, TInv, RequestsTyped
<1> QED BY <1>1, <1>2, <1>3

LEMMA AskedKept ==
  ASSUME TInv, NEW r \in Requests, pc[r] # "idle",
         Looks(r) \/ Create(r) \/ UpdateOrDelete(r) \/ CaseSteps(r)
  PROVE  request'[r].asked = request[r].asked
<1> USE DEF TInv, RequestsTyped, RequestType
<1>1. CASE Looks(r)
  <2>1. CASE Begin(r) \/ Read(r)
    BY <2>1 DEF Begin, Read
  <2>2. CASE CheckMembers(r) \/ CheckLead(r)
    BY <2>2 DEF CheckMembers, CheckLead
  <2>3. CASE Count(r) \/ ReadAttorneys(r)
    BY <2>3 DEF Count, ReadAttorneys
  <2>4. CASE ReadLeadHistory(r) \/ Fails(r)
    BY <2>4 DEF ReadLeadHistory, Fails
  <2> QED BY <1>1, <2>1, <2>2, <2>3, <2>4 DEF Looks
<1>2. CASE Create(r) \/ UpdateOrDelete(r)
  BY <1>2 DEF Create, UpdateOrDelete
<1>3. CASE MemberHistory(r) \/ BlindHistory(r)
  BY <1>3 DEF MemberHistory, BlindHistory
<1>4. CASE CreateTo(r)
  BY <1>4 DEF CreateTo
<1>5. CASE CreateFrom(r) \/ Assign(r) \/ LeadHistory(r)
  BY <1>5 DEF CreateFrom, Assign, LeadHistory
<1> QED BY <1>1, <1>2, <1>3, <1>4, <1>5 DEF CaseSteps

LEMMA RequestTyped ==
  ASSUME TInv, NEW r \in Requests
  PROVE  /\ request[r] \in RequestType
         /\ Asks(r) \in Inputs /\ Asks(r).job \in Jobs
         /\ Asks(r).included \in SUBSET Cases /\ Lead(r) \in Cases \cup {NoCase}
         /\ Status(r) \in {"approved", "rejected"} /\ Status(r) \in Statuses
         /\ Members(r) \in SUBSET Cases /\ Remaining(r) \in SUBSET Cases
         /\ Status(r) = "approved" => Lead(r) \in Cases
<1>1. request[r] \in RequestType
  BY DEF TInv, RequestsTyped
<1>2. Asks(r) \in Inputs /\ request[r].listed \in SUBSET Cases
  BY <1>1 DEF RequestType, Asks
<1> QED BY <1>1, <1>2, AskedTyped DEF Lead, Status, Members, Remaining, Statuses

LEMMA OrdersStep ==
  ASSUME TInv, [Next]_vars
  PROVE  OrdersTyped'
<1>1. CASE UNCHANGED <<orders, nextDoc>>
  BY <1>1 DEF TInv, OrdersTyped
<1>2. ASSUME NEW r \in Requests, Create(r)
      PROVE  OrdersTyped'
  <2> DEFINE new == [doc |-> nextDoc, key |-> Key(Asks(r).job, Status(r), request[r].index),
                     members |-> Asks(r).included, lead |-> Lead(r),
                     typed |-> Status(r) = "approved"]
  <2>1. orders' = orders \cup {new} /\ nextDoc' = nextDoc + 1
    BY <1>2 DEF Create
  <2>2. new \in Orders
    <3>1. Key(Asks(r).job, Status(r), request[r].index) \in Keys
      BY RequestTyped, KeyTyped DEF RequestType
    <3>2. nextDoc \in Nat /\ (Status(r) = "approved") \in BOOLEAN
      BY DEF TInv, OrdersTyped
    <3> QED BY <3>1, <3>2, RequestTyped DEF Orders
  <2>3. new.doc = nextDoc
    OBVIOUS
  <2>4. IsFiniteSet(orders \cup {new})
    BY FS_AddElement DEF TInv, OrdersTyped
  <2> HIDE DEF new
  <2>5. \A o \in orders : o.doc \in Nat
    BY DEF TInv, OrdersTyped, Orders
  <2> QED BY <2>1, <2>2, <2>3, <2>4, <2>5 DEF TInv, OrdersTyped
<1>3. ASSUME NEW r \in Requests, UpdateOrDelete(r)
      PROVE  OrdersTyped'
  <2>1. nextDoc' = nextDoc
    BY <1>3 DEF UpdateOrDelete
  <2>2. CASE orders' = orders
    BY <2>1, <2>2 DEF TInv, OrdersTyped
  <2>3. CASE \E o \in orders : orders' = (orders \ {o}) \cup
               (IF Remaining(r) = {} THEN {} ELSE {Rest(r, o)})
    <3>1. PICK o \in orders : orders' = (orders \ {o}) \cup
               (IF Remaining(r) = {} THEN {} ELSE {Rest(r, o)})
      BY <2>3
    <3>2. o \in Orders /\ (Status(r) = "approved") \in BOOLEAN
      BY DEF TInv, OrdersTyped
    <3>3. Rest(r, o) \in Orders /\ Rest(r, o).doc = o.doc
      BY <3>2, RequestTyped DEF Rest, Orders
    <3>4. IsFiniteSet(orders \ {o}) /\ IsFiniteSet((orders \ {o}) \cup {Rest(r, o)})
      BY FS_RemoveElement, FS_AddElement DEF TInv, OrdersTyped
    <3>5. IsFiniteSet(orders')
      BY <3>1, <3>4
    <3>6. orders' \subseteq (orders \ {o}) \cup {Rest(r, o)}
      BY <3>1
    <3> QED BY <2>1, <3>3, <3>5, <3>6 DEF TInv, OrdersTyped
  <2> QED BY <1>3, <2>2, <2>3 DEF UpdateOrDelete
<1> QED BY <1>1, <1>2, <1>3, StepCases, StoreKept DEF vars, store

LEMMA CasesStep ==
  ASSUME TInv, [Next]_vars
  PROVE  CasesTyped'
<1> USE DEF TInv, CasesTyped
<1>1. CASE UNCHANGED <<refs, staff, history>>
  BY <1>1
<1>2. ASSUME NEW r \in Requests, CaseSteps(r)
      PROVE  CasesTyped'
  <2> request[r] \in RequestType
    BY RequestTyped
  <2>1. CASE MemberHistory(r)
    BY <2>1, RequestTyped DEF MemberHistory, RequestType, Entries
  <2>2. CASE CreateTo(r)
    <3>1. Lead(r) \in Cases
      BY <2>2, RequestTyped DEF CreateTo, RequestsTyped, ForApprovals
    <3>2. CASE request[r].todo = {}
      BY <2>2, <3>2 DEF CreateTo
    <3>3. ASSUME NEW c \in request[r].todo,
                 refs' = refs \cup {[type |-> "to", case |-> c, other |-> Lead(r)]}
          PROVE  refs' \subseteq References
      BY <3>1, <3>3 DEF RequestType, References
    <3>4. staff' = staff /\ history' = history
      BY <2>2 DEF CreateTo
    <3> QED BY <2>2, <3>2, <3>3, <3>4 DEF CreateTo
  <2>3. CASE CreateFrom(r)
    <3>1. Lead(r) \in Cases
      BY <2>3, RequestTyped DEF CreateFrom, RequestsTyped, ForApprovals
    <3> QED BY <2>3, <3>1 DEF CreateFrom, RequestType, References
  <2>4. CASE Assign(r)
    BY <2>4 DEF Assign, RequestType, Staff
  <2>5. CASE BlindHistory(r)
    BY <2>5, RequestTyped DEF BlindHistory, RequestType, Entries
  <2>6. CASE LeadHistory(r)
    <3>1. Members(r) \cup request[r].before \in SUBSET Cases
      BY RequestTyped DEF RequestType
    <3> QED BY <2>6, <3>1 DEF LeadHistory, Entries, Statuses
  <2> QED BY <1>2, <2>1, <2>2, <2>3, <2>4, <2>5, <2>6 DEF CaseSteps
<1> QED BY <1>1, <1>2, StepCases, CasesKept DEF vars, cases

LEMMA RequestsStep ==
  ASSUME TInv, [Next]_vars
  PROVE  RequestsTyped'
<1> DEFINE Sound(r) == /\ pc' \in [Requests -> Labels]
                       /\ request' \in [Requests -> RequestType]
                       /\ pc'[r] \in ForApprovals => request'[r].asked.status = "approved"
<1>1. CASE UNCHANGED <<pc, request>>
  BY <1>1 DEF TInv, RequestsTyped, Status, Asks
<1>2. ASSUME NEW r \in Requests,
             Looks(r) \/ Create(r) \/ UpdateOrDelete(r) \/ CaseSteps(r)
      PROVE  Sound(r)
  <2> USE DEF TInv, RequestsTyped, Labels, Goto
  <2> request[r] \in RequestType
    BY RequestTyped
  <2>1. CASE Begin(r)
    <3>1. PICK asked \in Asked :
            request' = [request EXCEPT ![r].asked = asked, ![r].todo = asked.included]
      BY <2>1 DEF Begin
    <3>2. asked \in Inputs /\ asked.included \in SUBSET Cases
      BY InputAssumption, AskedTyped
    <3>3. request'[r] = [request[r] EXCEPT !.asked = asked, !.todo = asked.included]
      BY <3>1
    <3>4. request'[r] \in RequestType
      BY <3>2, <3>3 DEF RequestType
    <3> QED BY <2>1, <3>1, <3>4 DEF Begin, ForApprovals
  <2>2. CASE Read(r)
    <3>1. CASE request' = request /\ Goto(r, "done")
      BY <3>1 DEF ForApprovals
    <3>2. ASSUME NEW o \in orders,
                 request' = [request EXCEPT ![r].doc = o.doc, ![r].listed = o.members],
                 Goto(r, IF Status(r) = "approved" THEN "checkMembers" ELSE "count")
          PROVE  Sound(r)
      <4>1. o.doc \in Nat /\ o.members \in SUBSET Cases
        BY DEF OrdersTyped, Orders
      <4>2. request'[r] = [request[r] EXCEPT !.doc = o.doc, !.listed = o.members]
        BY <3>2
      <4>3. request'[r] \in RequestType /\ request'[r].asked = request[r].asked
        BY <4>1, <4>2 DEF RequestType
      <4> QED BY <3>2, <4>3 DEF Status, Asks, ForApprovals
    <3> QED BY <2>2, <3>1, <3>2 DEF Read
  <2>3. CASE CheckMembers(r)
    BY <2>3 DEF CheckMembers, RequestType, ForApprovals, Status, Asks
  <2>4. CASE CheckLead(r)
    BY <2>4 DEF CheckLead, RequestType, ForApprovals
  <2>5. CASE Count(r)
    <3>1. Cardinality(Counted(Asks(r).job, Status(r))) \in Nat
      BY FS_Subset, FS_CardinalityType DEF OrdersTyped, Counted
    <3> QED BY <2>5, <3>1 DEF Count, RequestType, ForApprovals
  <2>6. CASE Create(r)
    BY <2>6, RequestTyped DEF Create, RequestType, ForApprovals
  <2>7. CASE UpdateOrDelete(r)
    BY <2>7 DEF UpdateOrDelete, RequestType, ForApprovals
  <2>8. CASE MemberHistory(r)
    BY <2>8 DEF MemberHistory, RequestType, ForApprovals, Status, Asks
  <2>9. CASE ReadAttorneys(r)
    <3>1. Status(r) = "approved" /\ Lead(r) \in Cases
      BY <2>9, RequestTyped DEF ReadAttorneys, ForApprovals
    <3>2. [a \in Attorneys |-> staff[Lead(r)][a] + (IF a \in LeadOf[Lead(r)] THEN 1 ELSE 0)]
            \in Staff
      BY <3>1 DEF CasesTyped, Staff
    <3> QED BY <2>9, <3>1, <3>2, RequestTyped DEF ReadAttorneys, RequestType, Status, Asks
  <2>10. CASE CreateTo(r)
    <3>1. Status(r) = "approved"
      BY <2>10 DEF CreateTo, ForApprovals
    <3>2. CASE request[r].todo = {}
      BY <2>10, <3>1, <3>2 DEF CreateTo, RequestType, Status, Asks
    <3>3. ASSUME NEW c \in request[r].todo,
                 request' = [request EXCEPT ![r].todo = @ \ {c}, ![r].at = c],
                 Goto(r, "from")
          PROVE  Sound(r)
      <4>1. c \in Cases /\ request[r].todo \ {c} \in SUBSET Cases
        BY DEF RequestType
      <4>2. request'[r] = [request[r] EXCEPT !.todo = @ \ {c}, !.at = c]
        BY <3>3
      <4>3. request'[r] \in RequestType /\ request'[r].asked = request[r].asked
        BY <4>1, <4>2 DEF RequestType
      <4> QED BY <3>1, <3>3, <4>3 DEF Status, Asks
    <3> QED BY <2>10, <3>2, <3>3 DEF CreateTo
  <2>11. CASE CreateFrom(r) \/ Assign(r)
    BY <2>11 DEF CreateFrom, Assign, RequestType, ForApprovals, Status, Asks
  <2>12. CASE ReadLeadHistory(r)
    <3>1. Status(r) = "approved" /\ Lead(r) \in Cases
      BY <2>12, RequestTyped DEF ReadLeadHistory, ForApprovals
    <3>2. history[Lead(r)].members \in SUBSET Cases
      BY <3>1 DEF CasesTyped, Entries
    <3> QED BY <2>12, <3>1, <3>2 DEF ReadLeadHistory, RequestType, Status, Asks
  <2>13. CASE BlindHistory(r)
    BY <2>13 DEF BlindHistory, RequestType, ForApprovals, Status, Asks
  <2>14. CASE LeadHistory(r) \/ Fails(r)
    BY <2>14 DEF LeadHistory, Fails, RequestType, ForApprovals
  <2> QED BY <1>2, <2>1, <2>2, <2>3, <2>4, <2>5, <2>6, <2>7, <2>8, <2>9, <2>10, <2>11,
             <2>12, <2>13, <2>14 DEF Looks, CaseSteps
<1>3. ASSUME NEW r \in Requests,
             Looks(r) \/ Create(r) \/ UpdateOrDelete(r) \/ CaseSteps(r)
      PROVE  RequestsTyped'
  <2>1. Sound(r)
    BY <1>2, <1>3
  <2>2. \A q \in Requests \ {r} : pc'[q] = pc[q] /\ request'[q] = request[q]
    BY <1>3, OthersKept
  <2> QED BY <2>1, <2>2 DEF TInv, RequestsTyped, Status, Asks
<1> QED BY <1>1, <1>3, StepCases DEF vars

LEMMA FaultsStep ==
  ASSUME TInv, [Next]_vars
  PROVE  FaultsTyped'
<1>1. CASE UNCHANGED <<overlapped, faults>>
  BY <1>1 DEF TInv, FaultsTyped
<1>2. ASSUME NEW r \in Requests, Begin(r)
      PROVE  FaultsTyped'
  <2>1. overlapped' \in BOOLEAN
    BY <1>2 DEF Begin
  <2>2. faults' = faults
    BY <1>2 DEF Begin
  <2> QED BY <2>1, <2>2 DEF TInv, FaultsTyped
<1>3. ASSUME NEW r \in Requests, BlindHistory(r) \/ Fails(r)
      PROVE  FaultsTyped'
  <2>1. overlapped' = overlapped /\ faults < MaxFaults /\ faults' = faults + 1
    BY <1>3 DEF BlindHistory, Fails
  <2>2. faults' \in 0..MaxFaults
    BY <2>1, InputAssumption DEF TInv, FaultsTyped
  <2> QED BY <2>1, <2>2 DEF TInv, FaultsTyped
<1>4. ASSUME NEW r \in Requests, ~Begin(r), ~BlindHistory(r), ~Fails(r),
             Looks(r) \/ Create(r) \/ UpdateOrDelete(r) \/ CaseSteps(r)
      PROVE  UNCHANGED <<overlapped, faults>>
  BY <1>4 DEF Looks, CaseSteps, Read, CheckMembers, CheckLead, Count, Create, UpdateOrDelete,
              MemberHistory, ReadAttorneys, CreateTo, CreateFrom, Assign, ReadLeadHistory,
              LeadHistory
<1> QED BY <1>1, <1>2, <1>3, <1>4, StepCases DEF vars

LEMMA TypesStep == TInv /\ [Next]_vars => TInv'
BY OrdersStep, CasesStep, RequestsStep, FaultsStep DEF TInv

LEMMA TypesImply == TInv => TypeOK
BY DEF TInv, OrdersTyped, CasesTyped, RequestsTyped, FaultsTyped, TypeOK, RequestType

LEMMA TypesAlways == Spec => []TInv
BY TypesInit, TypesStep, PTL DEF Spec

(* For any cases, jobs and requests: every variable keeps its type, and no *)
(* two consolidation orders have one document id.                          *)
THEOREM ConsolidationTypes == Spec => []TypeOK
BY TypesAlways, TypesImply, PTL

-----------------------------------------------------------------------------
(* MemberFirst, with what a request holds between its two references.      *)

ToWritten == \A r \in Requests : pc[r] = "from" =>
  [type |-> "to", case |-> request[r].at, other |-> Lead(r)] \in refs

MInv == MemberFirst /\ ToWritten

LEMMA RefsGrow ==
  ASSUME NEW r \in Requests, Looks(r) \/ Create(r) \/ UpdateOrDelete(r) \/ CaseSteps(r)
  PROVE  /\ refs \subseteq refs'
         /\ ~CreateTo(r) /\ ~CreateFrom(r) => refs' = refs
<1>1. CASE CaseSteps(r)
  BY <1>1 DEF CaseSteps, MemberHistory, CreateTo, CreateFrom, Assign, BlindHistory, LeadHistory
<1> QED BY <1>1, CasesKept

LEMMA EntersFrom ==
  ASSUME TInv, NEW r \in Requests,
         Looks(r) \/ Create(r) \/ UpdateOrDelete(r) \/ CaseSteps(r),
         ~CreateTo(r)
  PROVE  pc'[r] # "from" \/ UNCHANGED <<pc, request>> \/ BlindHistory(r) \/ MemberHistory(r)
<1> USE DEF TInv, RequestsTyped, Goto
<1>1. CASE Looks(r)
  BY <1>1 DEF Looks, Begin, Read, CheckMembers, CheckLead, Count, ReadAttorneys,
              ReadLeadHistory, Fails
<1>2. CASE Create(r) \/ UpdateOrDelete(r)
  BY <1>2 DEF Create, UpdateOrDelete
<1>3. CASE CaseSteps(r)
  BY <1>3 DEF CaseSteps, CreateFrom, Assign, LeadHistory
<1> QED BY <1>1, <1>2, <1>3

LEMMA MemberFirstStep ==
  ASSUME TInv, MInv, [Next]_vars
  PROVE  MInv'
<1>1. CASE UNCHANGED vars
  BY <1>1 DEF MInv, MemberFirst, ToWritten, vars, cases, Lead, Asks
<1>2. ASSUME NEW r \in Requests,
             Looks(r) \/ Create(r) \/ UpdateOrDelete(r) \/ CaseSteps(r)
      PROVE  MInv'
  <2>1. MemberFirst'
    <3>1. CASE CreateTo(r)
      <4>1. ASSUME NEW f \in refs', f.type = "from" PROVE f \in refs
        <5>1. CASE request[r].todo = {}
          BY <3>1, <4>1, <5>1 DEF CreateTo
        <5>2. ASSUME NEW c, refs' = refs \cup {[type |-> "to", case |-> c, other |-> Lead(r)]}
              PROVE  f \in refs
          BY <4>1, <5>2
        <5> QED BY <3>1, <5>1, <5>2 DEF CreateTo
      <4> QED BY <1>2, <4>1, RefsGrow DEF MInv, MemberFirst
    <3>2. CASE CreateFrom(r)
      BY <3>2 DEF CreateFrom, MInv, MemberFirst, ToWritten
    <3>3. CASE refs' = refs
      BY <3>3 DEF MInv, MemberFirst
    <3> QED BY <1>2, <3>1, <3>2, <3>3, RefsGrow
  <2>2. ASSUME NEW q \in Requests, q # r, pc'[q] = "from"
        PROVE  [type |-> "to", case |-> request'[q].at, other |-> request'[q].asked.lead]
                 \in refs'
    BY <1>2, <2>2, OthersKept, RefsGrow DEF MInv, ToWritten, Lead, Asks
  <2>3. ASSUME pc'[r] = "from"
        PROVE  [type |-> "to", case |-> request'[r].at, other |-> request'[r].asked.lead]
                 \in refs'
    <3>1. CASE CreateTo(r)
      <4>1. PICK c \in request[r].todo :
              /\ refs' = refs \cup {[type |-> "to", case |-> c, other |-> Lead(r)]}
              /\ request' = [request EXCEPT ![r].todo = @ \ {c}, ![r].at = c]
        BY <2>3, <3>1 DEF CreateTo, Goto, TInv, RequestsTyped
      <4>2. request'[r].at = c /\ request'[r].asked = request[r].asked
        BY <4>1, RequestTyped DEF TInv, RequestsTyped, RequestType
      <4>3. request'[r].asked.lead = Lead(r)
        BY <4>2 DEF Lead, Asks
      <4>4. [type |-> "to", case |-> c, other |-> Lead(r)] \in refs'
        BY <4>1
      <4> QED BY <4>2, <4>3, <4>4
    <3>2. CASE UNCHANGED <<pc, request>>
      BY <1>2, <2>3, <3>2, RefsGrow DEF MInv, ToWritten, Lead, Asks
    <3>3. CASE BlindHistory(r) \/ MemberHistory(r)
      BY <2>3, <3>3 DEF BlindHistory, MemberHistory, Goto, TInv, RequestsTyped
    <3> QED BY <1>2, <2>3, <3>1, <3>2, <3>3, EntersFrom
  <2> QED BY <2>1, <2>2, <2>3 DEF MInv, ToWritten, Lead, Asks
<1> QED BY <1>1, <1>2, StepCases

(* For any interleaving of any requests, and wherever they break off, a    *)
(* lead case never refers to a member that does not refer to it.           *)
THEOREM MemberIsFirst == Spec => []MemberFirst
<1>1. Init => MInv
  BY DEF Init, MInv, MemberFirst, ToWritten
<1>2. TInv /\ MInv /\ [Next]_vars => MInv'
  BY MemberFirstStep
<1>3. MInv => MemberFirst
  BY DEF MInv
<1> QED BY <1>1, <1>2, <1>3, TypesAlways, PTL DEF Spec

-----------------------------------------------------------------------------
(* NoCaseLost.  A case that left the pending order of its job is in a      *)
(* decided one; what a request has read of the pending order is stale      *)
(* only by cases that were decided meanwhile.                              *)

Decided(j, c) == \E o \in orders :
  o.key.job = j /\ o.key.status # "pending" /\ c \in o.members \cup {o.lead}

Undecided(j, c) == \E o \in orders : o.key = Key(j, "pending", 0) /\ c \in o.members

PastRead == {"checkMembers", "checkLead", "count", "create", "update"}

OnePending == \A o, p \in orders :
  /\ o.key.status = "pending" => o.key = Key(o.key.job, "pending", 0)
  /\ o.key.status = "pending" /\ p.key = o.key => p = o

EachKept == \A j \in Jobs : \A c \in MembersOf[j] : Decided(j, c) \/ Undecided(j, c)

HoldsPending(r) ==
  /\ request[r].doc < nextDoc
  /\ \A o \in orders :
       o.doc = request[r].doc => o.key = Key(Asks(r).job, "pending", 0)
  /\ \A j \in Jobs : j = Asks(r).job =>
       \A c \in MembersOf[j] : c \in request[r].listed \/ Decided(j, c)

DecidedFor(r) == \A j \in Jobs : j = Asks(r).job =>
  \A c \in Asks(r).included \cup {Lead(r)} : Decided(j, c)

Holding == \A r \in Requests :
  /\ pc[r] \in PastRead => HoldsPending(r)
  /\ pc[r] = "update" => DecidedFor(r)

LInv == OnePending /\ EachKept /\ Holding

LEMMA PendingKey ==
  ASSUME NEW j
  PROVE  Key(j, "pending", 0).job = j /\ Key(j, "pending", 0).status = "pending"
BY DEF Key

(* UpdateOrDelete takes one pending order of the job, if it takes any. *)
LEMMA UpdateTakes ==
  ASSUME TInv, LInv, NEW r \in Requests, UpdateOrDelete(r)
  PROVE  \/ orders' = orders
         \/ \E o \in orders : /\ o.key = Key(Asks(r).job, "pending", 0)
                              /\ orders' = (orders \ {o}) \cup
                                   (IF Remaining(r) = {} THEN {} ELSE {Rest(r, o)})
<1>1. HoldsPending(r)
  BY DEF LInv, Holding, PastRead, UpdateOrDelete
<1> QED BY <1>1 DEF UpdateOrDelete, HoldsPending

LEMMA RestFields ==
  ASSUME NEW r \in Requests, NEW o \in Orders
  PROVE  /\ Rest(r, o).doc = o.doc /\ Rest(r, o).key = o.key
         /\ Rest(r, o).lead = o.lead /\ Rest(r, o).members = Remaining(r)
BY DEF Rest, Orders

LEMMA StoreFrame ==
  ASSUME TInv, LInv, NEW r \in Requests,
         Looks(r) \/ Create(r) \/ UpdateOrDelete(r) \/ CaseSteps(r)
  PROVE  /\ nextDoc <= nextDoc'
         /\ \A o \in orders' : o.doc < nextDoc =>
              \E p \in orders : p.doc = o.doc /\ p.key = o.key
         /\ \A j, c : Decided(j, c) => Decided(j, c)'
<1> nextDoc \in Nat
  BY DEF TInv, OrdersTyped
<1>1. CASE Looks(r) \/ CaseSteps(r)
  BY <1>1, StoreKept DEF Decided
<1>2. CASE Create(r)
  <2> DEFINE new == [doc |-> nextDoc, key |-> Key(Asks(r).job, Status(r), request[r].index),
                     members |-> Asks(r).included, lead |-> Lead(r),
                     typed |-> Status(r) = "approved"]
  <2>1. orders' = orders \cup {new} /\ nextDoc' = nextDoc + 1 /\ new.doc = nextDoc
    BY <1>2 DEF Create
  <2> HIDE DEF new
  <2> QED BY <2>1 DEF Decided
<1>3. CASE UpdateOrDelete(r)
  <2>1. nextDoc' = nextDoc
    BY <1>3 DEF UpdateOrDelete
  <2>2. CASE orders' = orders
    BY <2>1, <2>2 DEF Decided
  <2>3. ASSUME NEW o \in orders, o.key = Key(Asks(r).job, "pending", 0),
               orders' = (orders \ {o}) \cup
                 (IF Remaining(r) = {} THEN {} ELSE {Rest(r, o)})
        PROVE  /\ \A q \in orders' : \E p \in orders : p.doc = q.doc /\ p.key = q.key
               /\ \A j, c : Decided(j, c) => Decided(j, c)'
    <3>1. Rest(r, o).doc = o.doc /\ Rest(r, o).key = o.key
      BY RestFields DEF TInv, OrdersTyped
    <3>2. o.key.status = "pending"
      BY <2>3, PendingKey
    <3> QED BY <2>3, <3>1, <3>2 DEF Decided
  <2> QED BY <1>3, <2>1, <2>2, <2>3, UpdateTakes
<1> QED BY <1>1, <1>2, <1>3

LEMMA LostInit == Init => LInv
<1> SUFFICES ASSUME Init PROVE LInv
  OBVIOUS
<1>1. PICK number \in [Jobs -> 1..Cardinality(Jobs)] :
        orders = {[doc |-> number[j], key |-> Key(j, "pending", 0), members |-> MembersOf[j],
                   lead |-> NoCase, typed |-> FALSE] : j \in Jobs}
  BY DEF Init
<1>2. \A o \in orders : \E j \in Jobs :
        o = [doc |-> number[j], key |-> Key(j, "pending", 0), members |-> MembersOf[j],
             lead |-> NoCase, typed |-> FALSE]
  BY <1>1
<1>3. OnePending
  <2>1. ASSUME NEW o \in orders
        PROVE  o.key.status = "pending" => o.key = Key(o.key.job, "pending", 0)
    BY <1>2, PendingKey
  <2>2. ASSUME NEW o \in orders, NEW p \in orders, p.key = o.key PROVE p = o
    <3>1. PICK i \in Jobs :
            o = [doc |-> number[i], key |-> Key(i, "pending", 0), members |-> MembersOf[i],
                 lead |-> NoCase, typed |-> FALSE]
      BY <1>2
    <3>2. PICK j \in Jobs :
            p = [doc |-> number[j], key |-> Key(j, "pending", 0), members |-> MembersOf[j],
                 lead |-> NoCase, typed |-> FALSE]
      BY <1>2
    <3>3. i = o.key.job /\ j = p.key.job
      BY <3>1, <3>2, PendingKey
    <3> QED BY <2>2, <3>1, <3>2, <3>3
  <2> QED BY <2>1, <2>2 DEF OnePending
<1>4. EachKept
  <2>1. ASSUME NEW j \in Jobs, NEW c \in MembersOf[j] PROVE Undecided(j, c)
    <3> DEFINE o == [doc |-> number[j], key |-> Key(j, "pending", 0),
                     members |-> MembersOf[j], lead |-> NoCase, typed |-> FALSE]
    <3>1. o \in orders /\ o.key = Key(j, "pending", 0) /\ o.members = MembersOf[j]
      BY <1>1
    <3> QED BY <3>1 DEF Undecided
  <2> QED BY <2>1 DEF EachKept
<1>5. Holding
  BY DEF Init, Holding, PastRead
<1> QED BY <1>3, <1>4, <1>5 DEF LInv

LEMMA OnePendingStep ==
  ASSUME TInv, LInv, NEW r \in Requests,
         Looks(r) \/ Create(r) \/ UpdateOrDelete(r) \/ CaseSteps(r)
  PROVE  OnePending'
<1>1. CASE orders' = orders
  BY <1>1 DEF LInv, OnePending
<1>2. CASE Create(r)
  <2> DEFINE new == [doc |-> nextDoc, key |-> Key(Asks(r).job, Status(r), request[r].index),
                     members |-> Asks(r).included, lead |-> Lead(r),
                     typed |-> Status(r) = "approved"]
  <2>1. orders' = orders \cup {new}
    BY <1>2 DEF Create
  <2>2. new.key.status = Status(r)
    BY DEF Key
  <2>3. Status(r) # "pending"
    BY RequestTyped
  <2> HIDE DEF new
  <2> QED BY <2>1, <2>2, <2>3 DEF LInv, OnePending
<1>3. ASSUME NEW o \in orders,
             orders' = (orders \ {o}) \cup
               (IF Remaining(r) = {} THEN {} ELSE {Rest(r, o)})
      PROVE  OnePending'
  <2>1. Rest(r, o).key = o.key
    BY RestFields DEF TInv, OrdersTyped
  <2> QED BY <1>3, <2>1 DEF LInv, OnePending
<1> QED BY <1>1, <1>2, <1>3, StoreKept, UpdateTakes

LEMMA EachKeptStep ==
  ASSUME TInv, LInv, NEW r \in Requests,
         Looks(r) \/ Create(r) \/ UpdateOrDelete(r) \/ CaseSteps(r)
  PROVE  EachKept'
<1> SUFFICES ASSUME NEW j \in Jobs, NEW c \in MembersOf[j], ~Decided(j, c)'
             PROVE  Undecided(j, c)'
  BY DEF EachKept
<1>1. ~Decided(j, c)
  BY StoreFrame
<1>2. PICK u \in orders : u.key = Key(j, "pending", 0) /\ c \in u.members
  BY <1>1 DEF LInv, EachKept, Undecided
<1>3. CASE orders \subseteq orders'
  BY <1>2, <1>3 DEF Undecided
<1>4. ASSUME NEW o \in orders, o.key = Key(Asks(r).job, "pending", 0), UpdateOrDelete(r),
             orders' = (orders \ {o}) \cup
               (IF Remaining(r) = {} THEN {} ELSE {Rest(r, o)})
      PROVE  Undecided(j, c)'
  <2>1. CASE o # u
    BY <1>2, <1>4, <2>1 DEF Undecided
  <2>2. CASE o = u
    <3>1. j = Asks(r).job
      BY <1>2, <1>4, <2>2, PendingKey
    <3>2. c \in request[r].listed /\ c \notin Asks(r).included \cup {Lead(r)}
      BY <1>1, <1>4, <3>1 DEF LInv, Holding, HoldsPending, DecidedFor, PastRead, UpdateOrDelete
    <3>3. Rest(r, o).key = o.key /\ Rest(r, o).members = Remaining(r)
      BY RestFields DEF TInv, OrdersTyped
    <3>4. c \in Remaining(r) /\ Rest(r, o) \in orders'
      BY <1>4, <3>2 DEF Remaining
    <3> QED BY <1>2, <2>2, <3>3, <3>4 DEF Undecided
  <2> QED BY <2>1, <2>2
<1>5. Create(r) => orders \subseteq orders'
  BY DEF Create
<1> QED BY <1>3, <1>4, <1>5, StoreKept, UpdateTakes

LEMMA HoldingStep ==
  ASSUME TInv, LInv, NEW r \in Requests,
         Looks(r) \/ Create(r) \/ UpdateOrDelete(r) \/ CaseSteps(r)
  PROVE  Holding'
<1> DEFINE Kept(q) ==
      /\ pc'[q] \in PastRead => HoldsPending(q)'
      /\ pc'[q] = "update" => DecidedFor(q)'
<1> nextDoc \in Nat
  BY DEF TInv, OrdersTyped
<1>1. ASSUME NEW q \in Requests, request[q] = request'[q], HoldsPending(q)
      PROVE  HoldsPending(q)'
  <2>1. nextDoc' \in Nat /\ request[q].doc \in Nat
    BY RequestTyped, OrdersStep DEF RequestType, TInv, OrdersTyped, Next, Looks, CaseSteps
  <2>2. Asks(q)' = Asks(q)
    BY <1>1 DEF Asks
  <2>3. request[q].doc < nextDoc'
    BY <1>1, <2>1, StoreFrame DEF HoldsPending
  <2>4. \A o \in orders' : o.doc = request[q].doc => o.key = Key(Asks(q).job, "pending", 0)
    BY <1>1, StoreFrame DEF HoldsPending
  <2>5. \A j \in Jobs : j = Asks(q).job =>
          \A c \in MembersOf[j] : c \in request[q].listed \/ Decided(j, c)'
    BY <1>1, StoreFrame DEF HoldsPending
  <2> QED BY <1>1, <2>2, <2>3, <2>4, <2>5 DEF HoldsPending
<1>2. ASSUME NEW q \in Requests, q # r PROVE Kept(q)
  <2>1. pc'[q] = pc[q] /\ request'[q] = request[q]
    BY <1>2, OthersKept
  <2>2. pc'[q] \in PastRead => HoldsPending(q)'
    BY <1>1, <2>1 DEF LInv, Holding
  <2>3. pc[q] = "update" =>
          \A j \in Jobs : j = Asks(q).job =>
            \A c \in Asks(q).included \cup {Lead(q)} : Decided(j, c)'
    BY StoreFrame DEF LInv, Holding, DecidedFor
  <2>4. Asks(q)' = Asks(q) /\ Lead(q)' = Lead(q)
    BY <2>1 DEF Asks, Lead
  <2> QED BY <2>1, <2>2, <2>3, <2>4 DEF DecidedFor
<1>3. Kept(r)
  <2> USE DEF Goto
  <2> pc \in [Requests -> Labels] /\ request \in [Requests -> RequestType]
    BY DEF TInv, RequestsTyped
  <2>1. CASE Read(r)
    <3>1. CASE Goto(r, "done")
      BY <3>1 DEF PastRead
    <3>2. ASSUME NEW o \in orders, o.key = Key(Asks(r).job, "pending", 0),
                 request' = [request EXCEPT ![r].doc = o.doc, ![r].listed = o.members],
                 pc'[r] # "update"
          PROVE  Kept(r)
      <4>1. /\ request'[r].doc = o.doc /\ request'[r].listed = o.members
            /\ request'[r].asked = request[r].asked
        BY <3>2 DEF RequestType
      <4>2. orders' = orders /\ nextDoc' = nextDoc
        BY <2>1 DEF Read, store
      <4>3. o.doc < nextDoc /\ \A p \in orders : p.doc = o.doc => p = o
        BY DEF TInv, OrdersTyped
      <4>4. ASSUME NEW c \in MembersOf[Asks(r).job]
            PROVE  c \in o.members \/ Decided(Asks(r).job, c)
        <5>1. Asks(r).job \in Jobs
          BY RequestTyped
        <5>2. CASE Undecided(Asks(r).job, c)
          <6>1. PICK u \in orders : u.key = Key(Asks(r).job, "pending", 0) /\ c \in u.members
            BY <5>2 DEF Undecided
          <6>2. u = o
            BY <3>2, <6>1, PendingKey DEF LInv, OnePending
          <6> QED BY <6>1, <6>2
        <5> QED BY <5>1, <5>2 DEF LInv, EachKept
      <4>5. \A j, c : Decided(j, c)' <=> Decided(j, c)
        BY <4>2 DEF Decided
      <4>6. Asks(r)' = Asks(r)
        BY <4>1 DEF Asks
      <4>7. HoldsPending(r)'
        BY <3>2, <4>1, <4>2, <4>3, <4>4, <4>5, <4>6 DEF HoldsPending
      <4> QED BY <3>2, <4>7
    <3> QED BY <2>1, <3>1, <3>2 DEF Read
  <2>2. CASE CheckMembers(r) \/ CheckLead(r) \/ Count(r)
    <3>1. /\ pc[r] \in PastRead /\ pc'[r] # "update"
          /\ request'[r].doc = request[r].doc /\ request'[r].listed = request[r].listed
          /\ request'[r].asked = request[r].asked /\ orders' = orders /\ nextDoc' = nextDoc
      BY <2>2 DEF CheckMembers, CheckLead, Count, PastRead, RequestType, store
    <3>2. HoldsPending(r)
      BY <3>1 DEF LInv, Holding
    <3>3. HoldsPending(r)'
      BY <3>1, <3>2 DEF HoldsPending, Decided, Asks
    <3> QED BY <3>1, <3>3
  <2>3. CASE Create(r)
    <3> DEFINE new == [doc |-> nextDoc,
                       key |-> Key(Asks(r).job, Status(r), request[r].index),
                       members |-> Asks(r).included, lead |-> Lead(r),
                       typed |-> Status(r) = "approved"]
    <3>1. /\ orders' = orders \cup {new} /\ nextDoc' = nextDoc + 1 /\ pc[r] = "create"
          /\ request'[r].doc = request[r].doc /\ request'[r].listed = request[r].listed
          /\ request'[r].asked = request[r].asked
      BY <2>3 DEF Create, RequestType
    <3>2. HoldsPending(r)
      BY <3>1 DEF LInv, Holding, PastRead
    <3>3. /\ new.key.job = Asks(r).job /\ new.key.status # "pending" /\ new.doc = nextDoc
          /\ new.members = Asks(r).included /\ new.lead = Lead(r)
      BY RequestTyped DEF Key
    <3>4. request[r].doc \in Nat
      BY DEF RequestType
    <3> HIDE DEF new
    <3>5. \A j \in Jobs : j = Asks(r).job =>
            \A c \in Asks(r).included \cup {Lead(r)} : Decided(j, c)'
      BY <3>1, <3>3 DEF Decided
    <3>6. HoldsPending(r)'
      <4>1. Asks(r)' = Asks(r)
        BY <3>1 DEF Asks
      <4>2. \A j, c : Decided(j, c) => Decided(j, c)'
        BY <3>1 DEF Decided
      <4> QED BY <3>1, <3>2, <3>3, <3>4, <4>1, <4>2 DEF HoldsPending
    <3>7. Asks(r)' = Asks(r) /\ Lead(r)' = Lead(r)
      BY <3>1 DEF Asks, Lead
    <3> QED BY <3>1, <3>5, <3>6, <3>7 DEF DecidedFor
  <2>4. CASE Begin(r) \/ UpdateOrDelete(r) \/ ReadAttorneys(r) \/ ReadLeadHistory(r) \/ Fails(r)
    <3>1. pc'[r] \notin PastRead
      BY <2>4 DEF Begin, UpdateOrDelete, ReadAttorneys, ReadLeadHistory, Fails, PastRead
    <3> QED BY <3>1 DEF PastRead
  <2>5. CASE CaseSteps(r)
    <3>1. pc'[r] \notin PastRead
      BY <2>5 DEF CaseSteps, MemberHistory, CreateTo, CreateFrom, Assign, BlindHistory,
                  LeadHistory, PastRead
    <3> QED BY <3>1 DEF PastRead
  <2> QED BY <2>1, <2>2, <2>3, <2>4, <2>5 DEF Looks
<1> QED BY <1>2, <1>3 DEF Holding

LEMMA LostStep ==
  ASSUME TInv, LInv, [Next]_vars
  PROVE  LInv'
<1>1. CASE UNCHANGED vars
  BY <1>1 DEF LInv, OnePending, EachKept, Decided, Undecided, Holding, HoldsPending, DecidedFor,
              vars, store, Asks, Lead
<1> QED BY <1>1, StepCases, OnePendingStep, EachKeptStep, HoldingStep DEF LInv

(* For any interleaving of any requests, and wherever they break off, each *)
(* case of a job stays in one of its orders.                               *)
THEOREM NoCaseIsLost == Spec => []NoCaseLost
<1>1. LInv => NoCaseLost
  BY PendingKey DEF LInv, EachKept, Decided, Undecided, NoCaseLost
<1> QED BY <1>1, LostInit, LostStep, TypesAlways, PTL DEF Spec

-----------------------------------------------------------------------------
(* While no two requests have overlapped, what a request has checked still *)
(* holds when it writes, and the number it has counted is still free.      *)

NoRefs(c)  == \A f \in refs : f.case # c
NoMember(c) == \A f \in refs : f.case = c => f.type # "to"

Checked(r) ==
  /\ pc[r] = "read" => request[r].todo = Asks(r).included
  /\ pc[r] = "checkMembers" => \A c \in Asks(r).included \ request[r].todo : NoRefs(c)
  /\ pc[r] = "checkLead" => \A c \in Asks(r).included : NoRefs(c)
  /\ pc[r] \in {"count", "create", "update", "memberHistory", "attorneys"}
       /\ Status(r) = "approved" =>
         NoMember(Lead(r)) /\ \A c \in Asks(r).included : NoRefs(c)
  /\ pc[r] \in {"to", "from", "assign"} =>
       /\ NoMember(Lead(r))
       /\ \A c \in request[r].todo : c # Lead(r) /\ NoRefs(c)

Alone == \A q, r \in Requests : Working(q) /\ Working(r) => q = r
OneRole == \A f, g \in refs : f.type = "to" /\ g.case = f.case => g = f

Numbered ==
  /\ \A o, p \in orders : o.key = p.key => o = p
  /\ \A o \in orders : o.key.status # "pending" =>
       o.key.index < Cardinality(Counted(o.key.job, o.key.status))

HasCounted(r) ==
  pc[r] = "create" => \A j, s : j = Asks(r).job /\ s = Status(r) =>
    request[r].index = Cardinality(Counted(j, s))

SoleInv ==
  ~overlapped =>
    /\ Alone /\ OneRole /\ Numbered
    /\ \A r \in Requests : Checked(r) /\ HasCounted(r)

LEMMA OverlapKept ==
  ASSUME TInv, NEW r \in Requests, ~overlapped',
         Looks(r) \/ Create(r) \/ UpdateOrDelete(r) \/ CaseSteps(r)
  PROVE  /\ ~overlapped
         /\ Working(r) \/ (Begin(r) /\ \A q \in Requests \ {r} : ~Working(q))
<1>1. CASE Begin(r)
  BY <1>1 DEF Begin
<1>2. CASE Looks(r) /\ ~Begin(r)
  BY <1>2 DEF Looks, Read, CheckMembers, CheckLead, Count, ReadAttorneys, ReadLeadHistory,
              Fails, Working
<1>3. CASE Create(r) \/ UpdateOrDelete(r)
  BY <1>3 DEF Create, UpdateOrDelete, Working
<1>4. CASE CaseSteps(r)
  BY <1>4 DEF CaseSteps, MemberHistory, CreateTo, CreateFrom, Assign, BlindHistory,
              LeadHistory, Working
<1> QED BY <1>1, <1>2, <1>3, <1>4

LEMMA OthersRest ==
  ASSUME TInv, SoleInv, NEW r \in Requests, ~overlapped',
         Looks(r) \/ Create(r) \/ UpdateOrDelete(r) \/ CaseSteps(r),
         NEW q \in Requests, q # r
  PROVE  ~Working(q) /\ pc'[q] = pc[q]
BY OverlapKept, OthersKept DEF SoleInv, Alone

LEMMA AloneStep ==
  ASSUME TInv, SoleInv, NEW r \in Requests, ~overlapped',
         Looks(r) \/ Create(r) \/ UpdateOrDelete(r) \/ CaseSteps(r)
  PROVE  Alone'
BY OthersRest DEF Alone, Working

LEMMA OneRoleStep ==
  ASSUME TInv, SoleInv, NEW r \in Requests, ~overlapped',
         Looks(r) \/ Create(r) \/ UpdateOrDelete(r) \/ CaseSteps(r)
  PROVE  OneRole'
<1>1. ~overlapped /\ OneRole /\ Checked(r)
  BY OverlapKept DEF SoleInv
<1>2. CASE refs' = refs
  BY <1>1, <1>2 DEF OneRole
<1>3. ASSUME CreateTo(r), NEW c \in request[r].todo,
             refs' = refs \cup {[type |-> "to", case |-> c, other |-> Lead(r)]}
      PROVE  OneRole'
  <2>1. NoRefs(c)
    BY <1>1, <1>3 DEF Checked, CreateTo
  <2> QED BY <1>1, <1>3, <2>1 DEF OneRole, NoRefs
<1>4. CASE CreateFrom(r)
  <2> DEFINE new == [type |-> "from", case |-> Lead(r), other |-> request[r].at]
  <2>1. refs' = refs \cup {new}
    BY <1>4 DEF CreateFrom
  <2>2. NoMember(Lead(r))
    BY <1>1, <1>4 DEF Checked, CreateFrom
  <2>3. new.type = "from" /\ new.case = Lead(r)
    OBVIOUS
  <2> HIDE DEF new
  <2> QED BY <1>1, <2>1, <2>2, <2>3 DEF OneRole, NoMember
<1>5. CreateTo(r) => refs' = refs \/ \E c \in request[r].todo :
        refs' = refs \cup {[type |-> "to", case |-> c, other |-> Lead(r)]}
  BY DEF CreateTo
<1> QED BY <1>2, <1>3, <1>4, <1>5, RefsGrow

LEMMA NumberedStep ==
  ASSUME TInv, LInv, SoleInv, NEW r \in Requests, ~overlapped',
         Looks(r) \/ Create(r) \/ UpdateOrDelete(r) \/ CaseSteps(r)
  PROVE  Numbered'
<1>1. ~overlapped /\ Numbered /\ HasCounted(r)
  BY OverlapKept DEF SoleInv
<1>2. CASE orders' = orders
  BY <1>1, <1>2 DEF Numbered, Counted
<1>3. CASE Create(r)
  <2> DEFINE key == Key(Asks(r).job, Status(r), request[r].index)
             new == [doc |-> nextDoc, key |-> key, members |-> Asks(r).included,
                     lead |-> Lead(r), typed |-> Status(r) = "approved"]
             mine == Counted(Asks(r).job, Status(r))
  <2>1. orders' = orders \cup {new}
    BY <1>3 DEF Create
  <2>2. /\ key.job = Asks(r).job /\ key.status = Status(r) /\ key.index = request[r].index
        /\ Status(r) # "pending"
    BY RequestTyped DEF Key
  <2>3. new.doc = nextDoc /\ new.key = key
    OBVIOUS
  <2>4. request[r].index = Cardinality(mine)
    BY <1>1, <1>3 DEF HasCounted, Create
  <2> HIDE DEF new, key
  <2>5. new \notin orders
    BY <2>3 DEF TInv, OrdersTyped, Orders
  <2>6. IsFiniteSet(mine) /\ new \notin mine /\ Cardinality(mine) \in Nat
    BY <2>5, FS_Subset, FS_CardinalityType DEF TInv, OrdersTyped, Counted
  <2>7. Cardinality(mine \cup {new}) = Cardinality(mine) + 1
    BY <2>6, FS_AddElement
  <2>8. \A j, s : Counted(j, s)' =
          IF j = Asks(r).job /\ s = Status(r) THEN mine \cup {new} ELSE Counted(j, s)
    BY <2>1, <2>2, <2>3 DEF Counted
  <2> HIDE DEF mine
  <2>9. ASSUME NEW o \in orders, o.key = key PROVE FALSE
    <3>1. o.key.index < Cardinality(mine)
      BY <1>1, <2>2, <2>9 DEF Numbered, mine
    <3> QED BY <2>2, <2>4, <2>6, <2>9, <3>1
  <2>10. ASSUME NEW o \in orders', o.key.status # "pending"
         PROVE  o.key.index < Cardinality(Counted(o.key.job, o.key.status)')
    <3>1. CASE o = new
      BY <2>2, <2>3, <2>4, <2>6, <2>7, <2>8, <3>1
    <3>2. CASE o \in orders
      <4>1. /\ o.key.index < Cardinality(Counted(o.key.job, o.key.status))
            /\ o.key.index \in Nat
        BY <1>1, <2>10, <3>2 DEF Numbered, TInv, OrdersTyped, Orders, Keys
      <4>2. CASE o.key.job = Asks(r).job /\ o.key.status = Status(r)
        BY <2>6, <2>7, <2>8, <4>1, <4>2 DEF mine
      <4>3. CASE ~(o.key.job = Asks(r).job /\ o.key.status = Status(r))
        BY <2>8, <4>1, <4>3
      <4> QED BY <4>2, <4>3
    <3> QED BY <2>1, <3>1, <3>2
  <2> QED BY <1>1, <2>1, <2>3, <2>9, <2>10 DEF Numbered
<1>4. ASSUME NEW o \in orders, o.key = Key(Asks(r).job, "pending", 0),
             orders' = (orders \ {o}) \cup
               (IF Remaining(r) = {} THEN {} ELSE {Rest(r, o)})
      PROVE  Numbered'
  <2>1. o.key.status = "pending" /\ Rest(r, o).key = o.key
    BY <1>4, PendingKey, RestFields DEF TInv, OrdersTyped
  <2>2. \A j, s : s # "pending" => Counted(j, s)' = Counted(j, s)
    BY <1>4, <2>1 DEF Counted
  <2> QED BY <1>1, <1>4, <2>1, <2>2 DEF Numbered
<1> QED BY <1>2, <1>3, <1>4, StoreKept, UpdateTakes

LEMMA CountedStep ==
  ASSUME TInv, SoleInv, NEW r \in Requests, ~overlapped',
         Looks(r) \/ Create(r) \/ UpdateOrDelete(r) \/ CaseSteps(r),
         NEW q \in Requests
  PROVE  HasCounted(q)'
<1> USE DEF Goto
<1> pc \in [Requests -> Labels] /\ request \in [Requests -> RequestType]
  BY DEF TInv, RequestsTyped
<1>1. CASE q # r
  BY <1>1, OthersRest DEF HasCounted, Working
<1>2. CASE Count(r)
  <2>1. /\ request'[r].index = Cardinality(Counted(Asks(r).job, Status(r)))
        /\ request'[r].asked = request[r].asked /\ orders' = orders
    BY <1>2 DEF Count, RequestType, store
  <2>2. Asks(r)' = Asks(r) /\ Status(r)' = Status(r)
    BY <2>1 DEF Asks, Status
  <2>3. \A j, s : Counted(j, s)' = Counted(j, s)
    BY <2>1 DEF Counted
  <2>4. HasCounted(r)'
    BY <2>1, <2>2, <2>3 DEF HasCounted
  <2> QED BY <1>1, <2>4
<1>3. CASE Looks(r) /\ ~Count(r)
  <2>1. pc'[r] # "create"
    BY <1>3 DEF Looks, Begin, Read, CheckMembers, CheckLead, ReadAttorneys,
                ReadLeadHistory, Fails
  <2> QED BY <1>1, <2>1 DEF HasCounted
<1>4. CASE Create(r) \/ UpdateOrDelete(r)
  <2>1. pc'[r] # "create"
    BY <1>4 DEF Create, UpdateOrDelete
  <2> QED BY <1>1, <2>1 DEF HasCounted
<1>5. CASE CaseSteps(r)
  <2>1. pc'[r] # "create"
    BY <1>5 DEF CaseSteps, MemberHistory, CreateTo, CreateFrom, Assign, BlindHistory,
                LeadHistory
  <2> QED BY <1>1, <2>1 DEF HasCounted
<1> QED BY <1>2, <1>3, <1>4, <1>5

LEMMA CheckedStep ==
  ASSUME TInv, SoleInv, NEW r \in Requests, ~overlapped',
         Looks(r) \/ Create(r) \/ UpdateOrDelete(r) \/ CaseSteps(r)
  PROVE  Checked(r)'
<1> USE DEF Goto
<1> pc \in [Requests -> Labels] /\ request \in [Requests -> RequestType]
  BY DEF TInv, RequestsTyped
<1>0. Checked(r)
  BY OverlapKept DEF SoleInv
<1>1. CASE pc'[r] \in {"idle", "readLead", "leadHistory", "done", "broken"}
  BY <1>1 DEF Checked
<1>2. ASSUME refs' = refs, request'[r].asked = request[r].asked
      PROVE  /\ \A c : NoRefs(c)' <=> NoRefs(c)
             /\ NoMember(Lead(r))' <=> NoMember(Lead(r))
             /\ Asks(r)' = Asks(r) /\ Lead(r)' = Lead(r) /\ Status(r)' = Status(r)
  BY <1>2 DEF NoRefs, NoMember, Asks, Lead, Status
<1>3. CASE Begin(r)
  <2>1. pc'[r] = "read" /\ request'[r].todo = request'[r].asked.included
    BY <1>3 DEF Begin, RequestType
  <2> QED BY <2>1 DEF Checked, Asks
<1>4. CASE Read(r)
  <2>1. CASE pc'[r] # "done"
    <3>1. PICK o \in orders :
            request' = [request EXCEPT ![r].doc = o.doc, ![r].listed = o.members]
      BY <1>4, <2>1 DEF Read
    <3>2. request'[r].asked = request[r].asked /\ request'[r].todo = request[r].todo
      BY <3>1 DEF RequestType
    <3>3. pc'[r] = IF Status(r) = "approved" THEN "checkMembers" ELSE "count"
      BY <1>4, <2>1 DEF Read
    <3>4. /\ pc[r] = "read" /\ refs' = refs
          /\ pc'[r] = IF Status(r) = "approved" THEN "checkMembers" ELSE "count"
          /\ request'[r].asked = request[r].asked /\ request'[r].todo = request[r].todo
      BY <1>4, <3>2, <3>3 DEF Read, cases
    <3>5. request'[r].todo = Asks(r)'.included
      BY <1>0, <3>4 DEF Checked, Asks
    <3> QED BY <1>2, <3>4, <3>5 DEF Checked
  <2> QED BY <1>1, <2>1
<1>5. CASE CheckMembers(r)
  <2>1. /\ pc[r] = "checkMembers" /\ refs' = refs /\ request'[r].asked = request[r].asked
    BY <1>5 DEF CheckMembers, RequestType, cases
  <2>2. CASE request[r].todo = {}
    <3>1. pc'[r] = "checkLead"
      BY <1>5, <2>2 DEF CheckMembers
    <3> QED BY <1>0, <1>2, <2>1, <2>2, <3>1 DEF Checked
  <2>3. ASSUME NEW c \in request[r].todo, RefsOf(c) = {}, pc' = pc,
               request' = [request EXCEPT ![r].todo = @ \ {c}]
        PROVE  Checked(r)'
    <3>1. NoRefs(c)
      BY <2>3 DEF RefsOf, NoRefs
    <3>2. request'[r].todo = request[r].todo \ {c}
      BY <2>3 DEF RequestType
    <3>3. \A d \in Asks(r).included \ request'[r].todo : NoRefs(d)
      BY <1>0, <2>1, <3>1, <3>2 DEF Checked
    <3> QED BY <1>2, <2>1, <2>3, <3>3 DEF Checked
  <2> QED BY <1>1, <1>5, <2>2, <2>3 DEF CheckMembers
<1>6. CASE CheckLead(r)
  <2>1. CASE pc'[r] # "done"
    <3>1. /\ pc[r] = "checkLead" /\ refs' = refs /\ request' = request
          /\ pc'[r] = "count" /\ NoMember(Lead(r))
      BY <1>6, <2>1 DEF CheckLead, cases, NoMember, RefsOf
    <3> QED BY <1>0, <1>2, <3>1 DEF Checked
  <2> QED BY <1>1, <2>1
<1>7. CASE Count(r) \/ Create(r) \/ UpdateOrDelete(r)
  <2>1. /\ pc[r] \in {"count", "create", "update"} /\ refs' = refs
        /\ pc'[r] \in {"create", "update", "memberHistory", "broken"}
        /\ request'[r].asked = request[r].asked
    BY <1>7 DEF Count, Create, UpdateOrDelete, RequestType, cases
  <2> QED BY <1>0, <1>2, <2>1 DEF Checked
<1>8. CASE MemberHistory(r) \/ (BlindHistory(r) /\ pc[r] = "memberHistory")
  <2>1. pc[r] = "memberHistory" /\ refs' = refs
    BY <1>8 DEF MemberHistory, BlindHistory
  <2>2. pc'[r] \in {"memberHistory", "attorneys", "done"}
    BY <1>8, <2>1 DEF MemberHistory, BlindHistory
  <2>3. request'[r].asked = request[r].asked
    BY <2>1, <1>8, AskedKept DEF CaseSteps
  <2> QED BY <1>0, <1>2, <2>1, <2>2, <2>3 DEF Checked
<1>9. CASE ReadAttorneys(r)
  <2>1. /\ pc[r] = "attorneys" /\ pc'[r] = "to" /\ refs' = refs
        /\ request'[r].asked = request[r].asked /\ request'[r].todo = Members(r)
    BY <1>9 DEF ReadAttorneys, RequestType, cases
  <2>2. Status(r) = "approved"
    BY <2>1 DEF TInv, RequestsTyped, ForApprovals
  <2>3. NoMember(Lead(r)) /\ \A c \in Members(r) : c # Lead(r) /\ NoRefs(c)
    BY <1>0, <2>1, <2>2 DEF Checked, Members
  <2> QED BY <1>2, <2>1, <2>3 DEF Checked
<1>10. CASE CreateTo(r)
  <2>1. ASSUME NEW c \in request[r].todo, pc'[r] = "from",
               refs' = refs \cup {[type |-> "to", case |-> c, other |-> Lead(r)]},
               request' = [request EXCEPT ![r].todo = @ \ {c}, ![r].at = c]
        PROVE  Checked(r)'
    <3>1. pc[r] = "to"
      BY <1>10 DEF CreateTo
    <3>2. /\ request'[r].asked = request[r].asked
          /\ request'[r].todo = request[r].todo \ {c}
      BY <2>1 DEF RequestType
    <3>3. \A d : d # c /\ NoRefs(d) => NoRefs(d)'
      BY <2>1 DEF NoRefs
    <3>4. c # Lead(r) /\ NoMember(Lead(r)) /\ Lead(r)' = Lead(r)
      BY <1>0, <3>1, <3>2 DEF Checked, Lead, Asks
    <3>5. NoMember(Lead(r))'
      BY <2>1, <3>4 DEF NoMember
    <3>6. \A d \in request'[r].todo : d # Lead(r)' /\ NoRefs(d)'
      BY <1>0, <3>1, <3>2, <3>3, <3>4 DEF Checked
    <3> QED BY <2>1, <3>5, <3>6 DEF Checked
  <2> QED BY <1>1, <1>10, <2>1 DEF CreateTo
<1>11. CASE CreateFrom(r) \/ Assign(r)
  <2>1. /\ pc[r] \in {"from", "assign"} /\ pc'[r] \in {"to", "assign"} /\ request' = request
        /\ refs' \subseteq refs \cup {[type |-> "from", case |-> Lead(r), other |-> request[r].at]}
    BY <1>11 DEF CreateFrom, Assign
  <2>2. Lead(r)' = Lead(r) /\ NoMember(Lead(r))
    BY <1>0, <2>1 DEF Checked, Lead, Asks
  <2>3. NoMember(Lead(r))'
    BY <2>1, <2>2 DEF NoMember
  <2>4. \A c : c # Lead(r) /\ NoRefs(c) => NoRefs(c)'
    BY <2>1 DEF NoRefs
  <2>5. \A c \in request'[r].todo : c # Lead(r)' /\ NoRefs(c)'
    BY <1>0, <2>1, <2>2, <2>4 DEF Checked
  <2> QED BY <2>1, <2>3, <2>5 DEF Checked
<1>12. CASE \/ ReadLeadHistory(r) \/ LeadHistory(r) \/ Fails(r)
            \/ (BlindHistory(r) /\ pc[r] # "memberHistory")
  <2>1. pc'[r] \in {"leadHistory", "done", "broken"}
    BY <1>12 DEF ReadLeadHistory, LeadHistory, Fails, BlindHistory
  <2> QED BY <1>1, <2>1
<1> QED BY <1>3, <1>4, <1>5, <1>6, <1>7, <1>8, <1>9, <1>10, <1>11, <1>12 DEF Looks, CaseSteps

LEMMA SoleInit == Init => SoleInv
<1> SUFFICES ASSUME Init PROVE SoleInv
  OBVIOUS
<1>1. Alone /\ OneRole /\ \A r \in Requests : Checked(r) /\ HasCounted(r)
  BY DEF Init, Alone, OneRole, Checked, HasCounted, Working
<1>2. \A o \in orders : o.key.status = "pending"
  BY PendingKey DEF Init
<1>3. Numbered
  BY <1>2, LostInit DEF Numbered, LInv, OnePending
<1> QED BY <1>1, <1>3 DEF SoleInv

LEMMA SoleStep ==
  ASSUME TInv, LInv, SoleInv, [Next]_vars
  PROVE  SoleInv'
<1>1. CASE UNCHANGED vars
  BY <1>1 DEF SoleInv, Alone, OneRole, Numbered, Checked, HasCounted, Counted, NoRefs,
              NoMember, Working, Asks, Lead, Status, vars, store, cases
<1>2. ASSUME NEW r \in Requests, ~overlapped',
             Looks(r) \/ Create(r) \/ UpdateOrDelete(r) \/ CaseSteps(r)
      PROVE  /\ Alone' /\ OneRole' /\ Numbered'
             /\ \A q \in Requests : Checked(q)' /\ HasCounted(q)'
  <2>1. ASSUME NEW q \in Requests, q # r PROVE Checked(q)'
    BY <1>2, <2>1, OthersRest DEF Checked, Working
  <2> QED BY <1>2, <2>1, AloneStep, OneRoleStep, NumberedStep, CheckedStep, CountedStep
<1> QED BY <1>1, <1>2, StepCases DEF SoleInv

LEMMA SoleAlways == Spec => []SoleInv
BY SoleInit, SoleStep, LostInit, LostStep, TypesAlways, PTL DEF Spec

(* While no two requests have overlapped, wherever requests break off: a   *)
(* member of a consolidation belongs to that one alone and leads none.     *)
THEOREM OneConsolidationEach == Spec => []OneConsolidation
<1>1. SoleInv => OneConsolidation
  BY DEF SoleInv, OneRole, OneConsolidation
<1> QED BY <1>1, SoleAlways, PTL

(* ... and no two orders share a consolidation id.                         *)
THEOREM OneOrderEach == Spec => []OneOrderPerId
<1>1. SoleInv => OneOrderPerId
  BY DEF SoleInv, Numbered, OneOrderPerId
<1> QED BY <1>1, SoleAlways, PTL

-----------------------------------------------------------------------------
(* While no two requests have overlapped and no call has failed, what an   *)
(* approval has written so far stays as its lead case has it.              *)

StaffFollows(c, l) ==
  \A a \in Attorneys : staff[c][a] > 0 <=> staff[l][a] > 0 \/ a \in LeadOf[l]

Bound(c, l) ==
  /\ [type |-> "to", case |-> c, other |-> l] \in refs
  /\ [type |-> "from", case |-> l, other |-> c] \in refs
  /\ StaffFollows(c, l)

(* The members a request has still to tie to its lead case. *)
Left(r) == CASE pc[r] = "to" -> request[r].todo
             [] pc[r] \in {"from", "assign"} -> request[r].todo \cup {request[r].at}
             [] OTHER -> {}

Tying == {"to", "from", "assign"}

ListRead(r) ==
  pc[r] \in Tying =>
    /\ request[r].todo \subseteq Members(r)
    /\ \A a \in Attorneys : request[r].attorneys[a] > 0
         <=> staff[Lead(r)][a] > 0 \/ a \in LeadOf[Lead(r)]

AtHand(r) ==
  /\ pc[r] \in {"from", "assign"} =>
       /\ request[r].at \in Members(r)
       /\ [type |-> "to", case |-> request[r].at, other |-> Lead(r)] \in refs
  /\ pc[r] = "assign" =>
       [type |-> "from", case |-> Lead(r), other |-> request[r].at] \in refs

BoundSoFar(r) ==
  pc[r] \in Tying \cup {"readLead", "leadHistory"} =>
    \A c \in Members(r) \ Left(r) : Bound(c, Lead(r))

HistoryRead(r) ==
  pc[r] = "leadHistory" => request[r].before = history[Lead(r)].members

(* An approved order is carried out, or its request is still at it. *)
CarriedOut(o) == \A c \in o.members \ {o.lead} :
  Bound(c, o.lead) /\ c \in history[o.lead].members

Carrying(r, o) ==
  /\ pc[r] \in {"update", "memberHistory", "attorneys", "readLead", "leadHistory", "broken"}
       \cup Tying
  /\ Status(r) = "approved"
  /\ o.members = Asks(r).included /\ o.lead = Lead(r)

Progress(r) == ListRead(r) /\ AtHand(r) /\ BoundSoFar(r) /\ HistoryRead(r)

FInv ==
  ~overlapped /\ faults = 0 =>
    /\ \A o \in Approved : CarriedOut(o) \/ \E r \in Requests : Carrying(r, o)
    /\ \A r \in Requests : Progress(r)

LEMMA FaultsGrow ==
  ASSUME TInv, NEW r \in Requests, faults' = 0,
         Looks(r) \/ Create(r) \/ UpdateOrDelete(r) \/ CaseSteps(r)
  PROVE  faults = 0 /\ ~BlindHistory(r) /\ ~Fails(r)
<1>0. faults \in Nat
  BY InputAssumption DEF TInv, FaultsTyped
<1>1. ~BlindHistory(r) /\ ~Fails(r)
  BY <1>0 DEF BlindHistory, Fails
<1>2. CASE Looks(r)
  BY <1>1, <1>2 DEF Looks, Begin, Read, CheckMembers, CheckLead, Count, ReadAttorneys,
                    ReadLeadHistory
<1>3. CASE Create(r) \/ UpdateOrDelete(r)
  BY <1>1, <1>3 DEF Create, UpdateOrDelete
<1>4. CASE CaseSteps(r)
  BY <1>1, <1>4 DEF CaseSteps, MemberHistory, CreateTo, CreateFrom, Assign, LeadHistory
<1> QED BY <1>1, <1>2, <1>3, <1>4

(* A request that ties no cases has nothing to show for it. *)
LEMMA ProgressIdle ==
  ASSUME NEW q \in Requests, pc'[q] \notin Tying \cup {"readLead", "leadHistory"}
  PROVE  Progress(q)'
BY DEF Progress, ListRead, AtHand, BoundSoFar, HistoryRead, Tying

(* Assign gives the case at hand what the lead case has, and spares every  *)
(* other case; the lead of a tied case is never the case at hand.          *)
LEMMA AssignFollows ==
  ASSUME TInv, NEW r \in Requests, Assign(r), OneRole, Progress(r)
  PROVE  /\ Bound(request[r].at, Lead(r))'
         /\ staff'[Lead(r)] = staff[Lead(r)]
         /\ \A c, l \in Cases : Bound(c, l) => Bound(c, l)'
<1> DEFINE at == request[r].at  list == request[r].attorneys
<1>0. /\ pc[r] = "assign" /\ refs' = refs /\ request' = request
      /\ staff' = [staff EXCEPT ![at] = [a \in Attorneys |->
           IF list[a] > 0 /\ staff[at][a] > 0 THEN staff[at][a] ELSE list[a]]]
  BY DEF Assign
<1>1. /\ at \in Cases /\ Lead(r) \in Cases /\ at # Lead(r) /\ list \in Staff
      /\ staff \in [Cases -> Staff]
  <2>1. at \in Members(r) /\ Lead(r) \in Cases
    BY <1>0, RequestTyped DEF Progress, AtHand, TInv, RequestsTyped, ForApprovals
  <2>2. request[r] \in RequestType
    BY RequestTyped
  <2> QED BY <2>1, <2>2 DEF Members, RequestType, TInv, CasesTyped
<1>2. /\ [type |-> "to", case |-> at, other |-> Lead(r)] \in refs
      /\ [type |-> "from", case |-> Lead(r), other |-> at] \in refs
  BY <1>0 DEF Progress, AtHand
<1>3. /\ \A c \in Cases : c # at => staff'[c] = staff[c]
      /\ \A a \in Attorneys : staff'[at][a] =
           IF list[a] > 0 /\ staff[at][a] > 0 THEN staff[at][a] ELSE list[a]
  BY <1>0, <1>1
<1>4. staff'[Lead(r)] = staff[Lead(r)] /\ Lead(r)' = Lead(r) /\ at' = at
  BY <1>0, <1>1, <1>3 DEF Lead, Asks
<1>5. \A a \in Attorneys : staff'[at][a] > 0 <=> list[a] > 0
  <2>1. \A a \in Attorneys : staff[at][a] \in Nat /\ list[a] \in Nat
    BY <1>1 DEF Staff
  <2> QED BY <1>3, <2>1
<1>6. \A a \in Attorneys : list[a] > 0
        <=> staff[Lead(r)][a] > 0 \/ a \in LeadOf[Lead(r)]
  BY <1>0 DEF Progress, ListRead, Tying
<1>7. StaffFollows(at, Lead(r))'
  BY <1>4, <1>5, <1>6 DEF StaffFollows
<1>8. Bound(at, Lead(r))'
  BY <1>0, <1>2, <1>4, <1>7 DEF Bound
<1>9. ASSUME NEW c \in Cases, NEW l \in Cases, Bound(c, l)
      PROVE  Bound(c, l)'
  <2>1. /\ [type |-> "to", case |-> c, other |-> l] \in refs
        /\ [type |-> "from", case |-> l, other |-> c] \in refs
    BY <1>9 DEF Bound
  <2>2. l # at
    BY <1>2, <2>1 DEF OneRole
  <2>3. CASE c = at
    <3>1. l = Lead(r)
      BY <1>2, <2>1, <2>3 DEF OneRole
    <3> QED BY <1>4, <1>8, <2>3, <3>1 DEF Bound, StaffFollows
  <2>4. CASE c # at
    <3>1. staff'[c] = staff[c] /\ staff'[l] = staff[l]
      BY <1>3, <2>2, <2>4
    <3> QED BY <1>0, <1>9, <3>1 DEF Bound, StaffFollows
  <2> QED BY <2>3, <2>4
<1> QED BY <1>4, <1>8, <1>9

(* No step takes back what an order has written: references stay, Assign   *)
(* spares them, and a history names at least whom it named before.         *)
LEMMA TiedStay ==
  ASSUME TInv, NEW r \in Requests, faults' = 0, OneRole, Progress(r),
         Looks(r) \/ Create(r) \/ UpdateOrDelete(r) \/ CaseSteps(r),
         NEW c \in Cases, NEW l \in Cases
  PROVE  /\ Bound(c, l) => Bound(c, l)'
         /\ c \in history[l].members => c \in history'[l].members
<1>0. ~BlindHistory(r)
  BY FaultsGrow
<1>1. CASE staff' = staff
  <2>1. Bound(c, l) => Bound(c, l)'
    BY <1>1, RefsGrow DEF Bound, StaffFollows
  <2>2. CASE history' = history
    BY <2>1, <2>2
  <2>3. CASE MemberHistory(r)
    <3>1. history'[l].members = history[l].members
      BY <2>3 DEF MemberHistory, TInv, CasesTyped, Entries
    <3> QED BY <2>1, <3>1
  <2>4. CASE LeadHistory(r)
    <3>1. history[Lead(r)].members \subseteq Members(r) \cup request[r].before
      BY <2>4 DEF LeadHistory, Progress, HistoryRead
    <3>2. history' = [history EXCEPT ![Lead(r)] =
            [status |-> "approved", members |-> Members(r) \cup request[r].before]]
      BY <2>4 DEF LeadHistory
    <3>3. history[l].members \subseteq history'[l].members
      BY <3>1, <3>2 DEF TInv, CasesTyped
    <3> QED BY <2>1, <3>3
  <2>5. CASE CreateTo(r) \/ CreateFrom(r) \/ Assign(r)
    BY <2>1, <2>5 DEF CreateTo, CreateFrom, Assign
  <2> QED BY <1>0, <2>2, <2>3, <2>4, <2>5, CasesKept DEF CaseSteps
<1>2. CASE Assign(r)
  <2>1. history' = history
    BY <1>2 DEF Assign
  <2> QED BY <1>2, <2>1, AssignFollows
<1>3. Assign(r) \/ staff' = staff
  <2>1. CASE CaseSteps(r)
    BY <2>1 DEF CaseSteps, MemberHistory, CreateTo, CreateFrom, BlindHistory, LeadHistory
  <2> QED BY <2>1, CasesKept
<1> QED BY <1>1, <1>2, <1>3

LEMMA ListIsRead ==
  ASSUME TInv, NEW r \in Requests, ReadAttorneys(r)
  PROVE  Progress(r)'
<1> USE DEF TInv, RequestsTyped, Goto
<1>0. PICK list : list = [a \in Attorneys |->
        staff[Lead(r)][a] + (IF a \in LeadOf[Lead(r)] THEN 1 ELSE 0)]
  OBVIOUS
<1>1. request' = [request EXCEPT ![r].todo = Members(r), ![r].attorneys = list]
  BY <1>0 DEF ReadAttorneys
<1>2. /\ pc[r] = "attorneys" /\ pc'[r] = "to" /\ staff' = staff /\ request[r] \in RequestType
  BY DEF ReadAttorneys, cases
<1>3. request'[r] = [request[r] EXCEPT !.todo = Members(r), !.attorneys = list]
  BY <1>1
<1>4. /\ request'[r].todo = Members(r) /\ request'[r].attorneys = list
      /\ request'[r].asked = request[r].asked
  BY <1>2, <1>3 DEF RequestType
<1>5. Lead(r)' = Lead(r) /\ Members(r)' = Members(r) /\ Left(r)' = Members(r)
  BY <1>2, <1>4 DEF Lead, Members, Asks, Left
<1>6. Lead(r) \in Cases
  BY <1>2, RequestTyped DEF ForApprovals
<1>7. \A a \in Attorneys : list[a] > 0 <=> staff[Lead(r)][a] > 0 \/ a \in LeadOf[Lead(r)]
  <2>1. \A a \in Attorneys : staff[Lead(r)][a] \in Nat
    BY <1>6 DEF CasesTyped, Staff
  <2> QED BY <1>0, <2>1
<1>8. ListRead(r)'
  BY <1>2, <1>4, <1>5, <1>7 DEF ListRead
<1>9. AtHand(r)' /\ BoundSoFar(r)' /\ HistoryRead(r)'
  BY <1>2, <1>5 DEF AtHand, BoundSoFar, HistoryRead
<1> QED BY <1>8, <1>9 DEF Progress

LEMMA ToIsWritten ==
  ASSUME TInv, NEW r \in Requests, CreateTo(r), Progress(r)
  PROVE  Progress(r)'
<1> USE DEF TInv, RequestsTyped, Goto
<1>0. /\ pc[r] = "to" /\ staff' = staff /\ history' = history /\ refs \subseteq refs'
      /\ request[r] \in RequestType
  BY DEF CreateTo
<1>1. \A c, l : Bound(c, l) => Bound(c, l)'
  BY <1>0 DEF Bound, StaffFollows
<1>2. CASE request[r].todo = {}
  <2>1. pc'[r] = "readLead" /\ request' = request
    BY <1>2 DEF CreateTo
  <2>2. Left(r) = {} /\ Lead(r)' = Lead(r) /\ Members(r)' = Members(r)
    BY <1>0, <1>2, <2>1 DEF Left, Lead, Members, Asks
  <2>3. BoundSoFar(r)'
    BY <1>0, <1>1, <2>2 DEF Progress, BoundSoFar, Tying
  <2> QED BY <2>1, <2>3 DEF Progress, ListRead, AtHand, HistoryRead, Tying
<1>3. CASE request[r].todo # {}
  <2>1. PICK c \in request[r].todo :
          /\ refs' = refs \cup {[type |-> "to", case |-> c, other |-> Lead(r)]}
          /\ request' = [request EXCEPT ![r].todo = @ \ {c}, ![r].at = c]
    BY <1>3 DEF CreateTo
  <2>2. pc'[r] = "from"
    BY <1>3 DEF CreateTo
  <2>3. request'[r] = [request[r] EXCEPT !.todo = @ \ {c}, !.at = c]
    BY <2>1
  <2>4. /\ request'[r].todo = request[r].todo \ {c} /\ request'[r].at = c
        /\ request'[r].attorneys = request[r].attorneys
        /\ request'[r].asked = request[r].asked
    BY <1>0, <2>3 DEF RequestType
  <2>5. Lead(r)' = Lead(r) /\ Members(r)' = Members(r) /\ Left(r)' = Left(r)
    BY <1>0, <2>1, <2>2, <2>4 DEF Lead, Members, Asks, Left
  <2>6. ListRead(r)'
    BY <1>0, <2>4, <2>5 DEF Progress, ListRead, Tying
  <2>7. AtHand(r)'
    <3>1. c \in Members(r)
      BY <1>0, <2>1 DEF Progress, ListRead, Tying
    <3>2. [type |-> "to", case |-> request'[r].at, other |-> Lead(r)'] \in refs'
      BY <2>1, <2>4, <2>5
    <3> QED BY <2>2, <2>4, <2>5, <3>1, <3>2 DEF AtHand
  <2>8. BoundSoFar(r)'
    BY <1>0, <1>1, <2>5 DEF Progress, BoundSoFar, Tying
  <2> QED BY <2>2, <2>6, <2>7, <2>8 DEF Progress, HistoryRead
<1> QED BY <1>2, <1>3

LEMMA FromIsWritten ==
  ASSUME TInv, NEW r \in Requests, CreateFrom(r), Progress(r)
  PROVE  Progress(r)'
<1>1. /\ pc[r] = "from" /\ pc'[r] = "assign" /\ request' = request /\ staff' = staff
      /\ refs' = refs \cup {[type |-> "from", case |-> Lead(r), other |-> request[r].at]}
  BY DEF CreateFrom, Goto, TInv, RequestsTyped
<1>2. Lead(r)' = Lead(r) /\ Members(r)' = Members(r) /\ Left(r)' = Left(r)
  BY <1>1 DEF Lead, Members, Asks, Left
<1>3. ListRead(r)'
  BY <1>1, <1>2 DEF Progress, ListRead, Tying
<1>4. AtHand(r)'
  BY <1>1, <1>2 DEF Progress, AtHand
<1>5. \A c, l : Bound(c, l) => Bound(c, l)'
  BY <1>1 DEF Bound, StaffFollows
<1>6. BoundSoFar(r)'
  BY <1>1, <1>2, <1>5 DEF Progress, BoundSoFar, Tying
<1> QED BY <1>1, <1>3, <1>4, <1>6 DEF Progress, HistoryRead

LEMMA MemberIsAssigned ==
  ASSUME TInv, NEW r \in Requests, Assign(r), OneRole, Progress(r)
  PROVE  Progress(r)'
<1>1. /\ pc[r] = "assign" /\ pc'[r] = "to" /\ request' = request
  BY DEF Assign, Goto, TInv, RequestsTyped
<1>2. /\ Lead(r)' = Lead(r) /\ Members(r)' = Members(r)
      /\ Left(r) = Left(r)' \cup {request[r].at}
  BY <1>1 DEF Lead, Members, Asks, Left
<1>3. ListRead(r)'
  BY <1>1, <1>2, AssignFollows DEF Progress, ListRead, Tying
<1>4. BoundSoFar(r)'
  <2>1. ASSUME NEW c \in Members(r), c \notin Left(r)'
        PROVE  Bound(c, Lead(r))'
    <3>1. CASE c = request[r].at
      BY <1>1, <1>2, <3>1, AssignFollows
    <3>2. CASE c # request[r].at
      <4>1. Bound(c, Lead(r)) /\ c \in Cases /\ Lead(r) \in Cases
        BY <1>1, <1>2, <2>1, <3>2, RequestTyped
           DEF Progress, BoundSoFar, Tying, TInv, RequestsTyped, ForApprovals
      <4>2. \A d, l \in Cases : Bound(d, l) => Bound(d, l)'
        BY AssignFollows
      <4> QED BY <1>2, <4>1, <4>2 DEF Bound, StaffFollows
    <3> QED BY <3>1, <3>2
  <2> QED BY <1>2, <2>1 DEF BoundSoFar, Bound, StaffFollows
<1> QED BY <1>1, <1>3, <1>4 DEF Progress, AtHand, HistoryRead

LEMMA HistoryIsRead ==
  ASSUME TInv, NEW r \in Requests, ReadLeadHistory(r), Progress(r)
  PROVE  Progress(r)'
<1>0. request[r] \in RequestType
  BY RequestTyped
<1>1. /\ pc[r] = "readLead" /\ pc'[r] = "leadHistory"
      /\ request'[r].before = history[Lead(r)].members
      /\ request'[r].asked = request[r].asked
      /\ refs' = refs /\ staff' = staff /\ history' = history
  BY <1>0 DEF ReadLeadHistory, Goto, TInv, RequestsTyped, RequestType, cases
<1>2. /\ Lead(r)' = Lead(r) /\ Members(r)' = Members(r) /\ Left(r)' = {} /\ Left(r) = {}
  BY <1>1 DEF Lead, Members, Asks, Left
<1>3. BoundSoFar(r)'
  BY <1>1, <1>2 DEF Progress, BoundSoFar, Bound, StaffFollows
<1> QED BY <1>1, <1>2, <1>3 DEF Progress, ListRead, AtHand, HistoryRead, Tying

LEMMA ProgressStep ==
  ASSUME TInv, NEW r \in Requests, faults' = 0, OneRole, Progress(r),
         Looks(r) \/ Create(r) \/ UpdateOrDelete(r) \/ CaseSteps(r)
  PROVE  Progress(r)'
<1> USE DEF Goto, TInv, RequestsTyped
<1>1. CASE \/ Begin(r) \/ Read(r) \/ CheckMembers(r) \/ CheckLead(r) \/ Count(r) \/ Create(r)
           \/ UpdateOrDelete(r) \/ MemberHistory(r) \/ LeadHistory(r)
  <2>1. pc'[r] \notin Tying \cup {"readLead", "leadHistory"}
    BY <1>1 DEF Begin, Read, CheckMembers, CheckLead, Count, Create, UpdateOrDelete,
                MemberHistory, LeadHistory, Tying
  <2> QED BY <2>1, ProgressIdle
<1>2. ~BlindHistory(r) /\ ~Fails(r)
  BY FaultsGrow
<1> QED BY <1>1, <1>2, ListIsRead, ToIsWritten, FromIsWritten, MemberIsAssigned, HistoryIsRead
    DEF Looks, CaseSteps

-----------------------------------------------------------------------------
(* Orders: one that is carried out stays so, one at hand is carried out    *)
(* when its request ends.                                                  *)

LEMMA CarriedOutStays ==
  ASSUME TInv, NEW r \in Requests, faults' = 0, OneRole, Progress(r),
         Looks(r) \/ Create(r) \/ UpdateOrDelete(r) \/ CaseSteps(r),
         NEW o, CarriedOut(o)
  PROVE  CarriedOut(o)'
<1>1. ASSUME NEW c \in o.members \ {o.lead}
      PROVE  Bound(c, o.lead)' /\ c \in history'[o.lead].members
  <2>1. Bound(c, o.lead) /\ c \in history[o.lead].members
    BY <1>1 DEF CarriedOut
  <2>2. c \in Cases /\ o.lead \in Cases
    BY <2>1 DEF Bound, TInv, CasesTyped, References
  <2>3. /\ \A x, l \in Cases : Bound(x, l) => Bound(x, l)'
        /\ \A x, l \in Cases : x \in history[l].members => x \in history'[l].members
    BY TiedStay
  <2> QED BY <2>1, <2>2, <2>3
<1> QED BY <1>1 DEF CarriedOut

(* The last step of a request makes its order complete. *)
LEMMA LeadHistoryCarriesOut ==
  ASSUME TInv, NEW r \in Requests, LeadHistory(r), Progress(r),
         NEW o, Carrying(r, o)
  PROVE  CarriedOut(o)'
<1>1. /\ pc[r] = "leadHistory" /\ refs' = refs /\ staff' = staff
      /\ history' = [history EXCEPT ![Lead(r)] =
           [status |-> "approved", members |-> Members(r) \cup request[r].before]]
  BY DEF LeadHistory
<1>2. Left(r) = {} /\ Lead(r) \in Cases
  BY <1>1, RequestTyped DEF Left, TInv, RequestsTyped, ForApprovals
<1>3. o.members \ {o.lead} = Members(r) /\ o.lead = Lead(r)
  BY DEF Carrying, Members
<1>4. Members(r) \subseteq history'[Lead(r)].members
  BY <1>1, <1>2 DEF TInv, CasesTyped
<1>5. \A c \in Members(r) : Bound(c, Lead(r))
  BY <1>1, <1>2 DEF Progress, BoundSoFar
<1>6. \A c \in Members(r) : Bound(c, o.lead)'
  BY <1>1, <1>3, <1>5 DEF Bound, StaffFollows
<1> QED BY <1>3, <1>4, <1>6 DEF CarriedOut

LEMMA CarryingStep ==
  ASSUME TInv, NEW r \in Requests, Progress(r),
         Looks(r) \/ Create(r) \/ UpdateOrDelete(r) \/ CaseSteps(r),
         NEW q \in Requests, NEW o, Carrying(q, o), ~LeadHistory(r) \/ q # r
  PROVE  Carrying(q, o)'
<1> USE DEF Goto, TInv, RequestsTyped
<1>1. CASE q # r
  <2>1. pc'[q] = pc[q] /\ request'[q] = request[q]
    BY <1>1, OthersKept
  <2> QED BY <2>1 DEF Carrying, Status, Lead, Asks
<1>2. CASE q = r
  <2> DEFINE at == {"update", "memberHistory", "attorneys", "readLead", "leadHistory",
                    "broken"} \cup Tying
  <2>1. pc[r] \in at /\ Status(r) = "approved" /\ pc[r] # "idle"
    BY <1>2 DEF Carrying, Tying
  <2>2. request'[r].asked = request[r].asked
    BY <2>1, AskedKept
  <2>3. pc'[r] \in at
    <3>1. CASE Looks(r)
      BY <2>1, <3>1 DEF Looks, Begin, Read, CheckMembers, CheckLead, Count, ReadAttorneys,
                        ReadLeadHistory, Fails, Tying
    <3>2. CASE Create(r) \/ UpdateOrDelete(r)
      BY <3>2 DEF Create, UpdateOrDelete
    <3>3. CASE MemberHistory(r) \/ BlindHistory(r)
      BY <2>1, <3>3 DEF MemberHistory, BlindHistory
    <3>4. CASE CreateTo(r) \/ CreateFrom(r) \/ Assign(r)
      BY <3>4 DEF CreateTo, CreateFrom, Assign, Tying
    <3> QED BY <1>2, <3>1, <3>2, <3>3, <3>4 DEF CaseSteps
  <2> HIDE DEF at
  <2> QED BY <1>2, <2>2, <2>3 DEF Carrying, at, Status, Lead, Asks
<1> QED BY <1>1, <1>2

(* Where an approved order comes from. *)
LEMMA ApprovedStep ==
  ASSUME TInv, LInv, NEW r \in Requests,
         Looks(r) \/ Create(r) \/ UpdateOrDelete(r) \/ CaseSteps(r),
         NEW o \in Approved'
  PROVE  o \in Approved \/ Carrying(r, o)'
<1> USE DEF TInv, RequestsTyped, Goto
<1>0. o \in orders' /\ o.key.status = "approved"
  BY DEF Approved
<1>1. CASE Create(r)
  <2> DEFINE new == [doc |-> nextDoc, key |-> Key(Asks(r).job, Status(r), request[r].index),
                     members |-> Asks(r).included, lead |-> Lead(r),
                     typed |-> Status(r) = "approved"]
  <2>1. orders' = orders \cup {new} /\ pc[r] = "create" /\ pc'[r] = "update"
    BY <1>1 DEF Create
  <2>2. request'[r].asked = request[r].asked
    BY <1>1, <2>1, AskedKept
  <2>3. /\ new.key.status = Status(r) /\ new.members = Asks(r).included
        /\ new.lead = Lead(r)
    BY DEF Key
  <2> HIDE DEF new
  <2>4. CASE o = new
    BY <1>0, <2>1, <2>2, <2>3, <2>4 DEF Carrying, Status, Lead, Asks
  <2> QED BY <1>0, <2>1, <2>4 DEF Approved
<1>2. CASE orders' = orders
  BY <1>0, <1>2 DEF Approved
<1>3. ASSUME NEW p \in orders, p.key = Key(Asks(r).job, "pending", 0),
             orders' = (orders \ {p}) \cup
               (IF Remaining(r) = {} THEN {} ELSE {Rest(r, p)})
      PROVE  o \in Approved
  <2>1. Rest(r, p).key.status = "pending"
    BY <1>3, PendingKey, RestFields DEF OrdersTyped
  <2> QED BY <1>0, <1>3, <2>1 DEF Approved
<1> QED BY <1>1, <1>2, <1>3, StoreKept, UpdateTakes

LEMMA CompleteInit == Init => FInv
<1> SUFFICES ASSUME Init PROVE FInv
  OBVIOUS
<1>1. \A o \in orders : o.key.status = "pending"
  BY PendingKey DEF Init
<1>2. \A r \in Requests : pc[r] = "idle"
  BY DEF Init
<1>3. \A r \in Requests : Progress(r)
  BY <1>2 DEF Progress, ListRead, AtHand, BoundSoFar, HistoryRead, Tying
<1> QED BY <1>1, <1>3 DEF FInv, Approved

LEMMA CompleteStep ==
  ASSUME TInv, LInv, SoleInv, FInv, [Next]_vars
  PROVE  FInv'
<1>1. CASE UNCHANGED vars
  BY <1>1 DEF FInv, Approved, CarriedOut, Carrying, Progress, ListRead, AtHand, BoundSoFar,
              HistoryRead, Bound, StaffFollows, Left, Asks, Lead, Status, Members,
              vars, store, cases
<1>2. ASSUME NEW r \in Requests, ~overlapped', faults' = 0,
             Looks(r) \/ Create(r) \/ UpdateOrDelete(r) \/ CaseSteps(r)
      PROVE  /\ \A o \in Approved' : CarriedOut(o)' \/ \E q \in Requests : Carrying(q, o)'
             /\ \A q \in Requests : Progress(q)'
  <2>1. ~overlapped /\ OneRole
    BY <1>2, OverlapKept DEF SoleInv
  <2>2. faults = 0
    BY <1>2, FaultsGrow
  <2>3. \A q \in Requests : Progress(q)
    BY <2>1, <2>2 DEF FInv
  <2>4. ASSUME NEW q \in Requests PROVE Progress(q)'
    <3>1. CASE q = r
      BY <1>2, <2>1, <2>3, <3>1, ProgressStep
    <3>2. CASE q # r
      <4>1. /\ pc'[q] = pc[q] /\ request'[q] = request[q] /\ ~Working(q)
        BY <1>2, <3>2, OthersKept, OthersRest
      <4>2. pc'[q] \notin Tying \cup {"readLead", "leadHistory"}
        BY <4>1 DEF Working, Tying
      <4> QED BY <4>2, ProgressIdle
    <3> QED BY <3>1, <3>2
  <2>5. ASSUME NEW o \in Approved'
        PROVE  CarriedOut(o)' \/ \E q \in Requests : Carrying(q, o)'
    <3>1. CASE Carrying(r, o)'
      BY <3>1
    <3>2. CASE o \in Approved
      <4>1. CASE CarriedOut(o)
        BY <1>2, <2>1, <2>3, <4>1, CarriedOutStays
      <4>2. ASSUME NEW q \in Requests, Carrying(q, o)
            PROVE  CarriedOut(o)' \/ Carrying(q, o)'
        <5>1. CASE LeadHistory(r) /\ q = r
          BY <2>3, <4>2, <5>1, LeadHistoryCarriesOut
        <5>2. CASE ~LeadHistory(r) \/ q # r
          BY <1>2, <2>3, <4>2, <5>2, CarryingStep
        <5> QED BY <5>1, <5>2
      <4> QED BY <2>1, <2>2, <3>2, <4>1, <4>2 DEF FInv
    <3> QED BY <1>2, <3>1, <3>2, ApprovedStep
  <2> QED BY <2>4, <2>5
<1>3. FInv' <=> (~overlapped' /\ faults' = 0 =>
        /\ \A o \in Approved' : CarriedOut(o)' \/ \E q \in Requests : Carrying(q, o)'
        /\ \A q \in Requests : Progress(q)')
  BY DEF FInv
<1> QED BY <1>1, <1>2, <1>3, StepCases

(* If no two requests have overlapped, no call has failed and no request   *)
(* broke off, an approved order is carried out in full once its request is *)
(* over: both references of each member, the attorneys of the lead case,   *)
(* and its history naming all its members.                                 *)
THEOREM ApprovalsAreComplete == Spec => []ApprovalIsComplete
<1>1. ASSUME FInv, ~overlapped, faults = 0, \A r \in Requests : pc[r] \in {"idle", "done"}
      PROVE  \A o \in Approved : CarriedOut(o)
  <2>1. \A o : \A r \in Requests : ~Carrying(r, o)
    BY <1>1 DEF Carrying, Tying
  <2> QED BY <1>1, <2>1 DEF FInv
<1>2. (\A o \in Approved : CarriedOut(o)) => ApprovalIsComplete
  <2>1. ASSUME NEW o \in Approved, CarriedOut(o), NEW c \in o.members \ {o.lead}
        PROVE  /\ [type |-> "to", case |-> c, other |-> o.lead] \in refs
               /\ [type |-> "from", case |-> o.lead, other |-> c] \in refs
               /\ \A a \in Attorneys :
                    staff[c][a] > 0 <=> staff[o.lead][a] > 0 \/ a \in LeadOf[o.lead]
               /\ c \in history[o.lead].members
    BY <2>1 DEF CarriedOut, Bound, StaffFollows
  <2> QED BY <2>1, Zenon DEF ApprovalIsComplete
<1>3. ASSUME FInv PROVE ApprovalIsComplete
  <2>1. CASE ~overlapped /\ faults = 0 /\ \A r \in Requests : pc[r] \in {"idle", "done"}
    BY <1>1, <1>2, <1>3, <2>1
  <2>2. CASE ~(~overlapped /\ faults = 0 /\ \A r \in Requests : pc[r] \in {"idle", "done"})
    BY <2>2 DEF ApprovalIsComplete
  <2> QED BY <2>1, <2>2
<1> QED BY <1>3, CompleteInit, CompleteStep, SoleAlways, LostInit, LostStep, TypesAlways, PTL
    DEF Spec
=============================================================================
