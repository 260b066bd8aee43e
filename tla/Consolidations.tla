--------------------------- MODULE Consolidations ---------------------------
(***************************************************************************)
(* Approving and rejecting consolidation orders:                           *)
(* OrdersUseCase.handleConsolidation (use-cases/orders/orders.ts) on the   *)
(* consolidations and cases collections.  A pending order lists the cases  *)
(* of a DXTR job.  A decision takes some of them out into an order of its  *)
(* own and leaves the rest pending; an approval then ties each member case *)
(* to the lead case.  Every step is one call on one document, requests     *)
(* interleave between any two, and any call may fail.                      *)
(***************************************************************************)
EXTENDS Naturals, FiniteSets

CONSTANTS
  Cases,
  NoCase,
  Jobs,
  MembersOf,   \* [Jobs -> SUBSET Cases]: the order of each job, as synced
  Attorneys,
  TrialOf,     \* [Cases -> SUBSET Attorneys]: trial attorneys at first
  LeadOf,      \* [Cases -> SUBSET Attorneys]: lead trial attorneys
  Requests,    \* requests of users, one decision each
  Asked,       \* what they may ask for: [status, job, included, lead]
  MaxFaults    \* bound: how many calls fail in all

Inputs ==
  [status : {"approved"}, job : Jobs, included : SUBSET Cases, lead : Cases]
    \cup [status : {"rejected"}, job : Jobs, included : SUBSET Cases, lead : {NoCase}]

ASSUME InputAssumption ==
  /\ Cases # {} /\ NoCase \notin Cases
  /\ IsFiniteSet(Jobs)
  /\ MembersOf \in [Jobs -> SUBSET Cases]
  /\ TrialOf \in [Cases -> SUBSET Attorneys]
  /\ LeadOf \in [Cases -> SUBSET Attorneys]
  /\ Asked \subseteq Inputs
  /\ Asked # {}
  /\ MaxFaults \in Nat

VARIABLES
  orders,      \* ConsolidationOrder documents
  nextDoc,     \* source of document ids
  refs,        \* CONSOLIDATION_TO and CONSOLIDATION_FROM documents
  staff,       \* how often each attorney is assigned to each case
  history,     \* the last AUDIT_CONSOLIDATION of each case
  pc,          \* the call each request is about to make
  request,     \* its locals
  overlapped,  \* whether two requests ever worked at once
  faults       \* calls that failed so far

store == <<orders, nextDoc>>
cases == <<refs, staff, history>>
vars  == <<store, cases, pc, request, overlapped, faults>>

-----------------------------------------------------------------------------
Statuses   == {"pending", "approved", "rejected"}
Keys       == [job : Jobs, status : Statuses, index : Nat]  \* consolidationId
Orders     == [doc : Nat, key : Keys, members : SUBSET Cases,
               lead : Cases \cup {NoCase}, typed : BOOLEAN]  \* consolidationType set
References == [type : {"to", "from"}, case : Cases, other : Cases]
Entries    == [status : Statuses, members : SUBSET Cases]
Staff      == [Attorneys -> Nat]

Labels == {"idle", "read", "checkMembers", "checkLead", "count", "create",
           "update", "memberHistory", "attorneys", "to",
           "from", "assign", "readLead", "leadHistory", "done", "broken"}

(* generateConsolidationId: a pending order has no index. *)
Key(job, status, n) ==
  [job |-> job, status |-> status, index |-> IF status = "pending" THEN 0 ELSE n]

Counted(job, status) == {o \in orders : o.key.job = job /\ o.key.status = status}
RefsOf(c)            == {r \in refs : r.case = c}   \* getConsolidation

Asks(r)   == request[r].asked
Lead(r)   == Asks(r).lead
Status(r) == Asks(r).status
Members(r) == Asks(r).included \ {Lead(r)}   \* loops skip the lead case
Working(r) == pc[r] \notin {"idle", "done", "broken"}

Goto(r, label) == pc' = [pc EXCEPT ![r] = label]

NoRequest == [asked |-> CHOOSE i \in Asked : TRUE, doc |-> 0, listed |-> {},
              todo |-> {}, index |-> 0, attorneys |-> [a \in Attorneys |-> 0],
              at |-> CHOOSE c \in Cases : TRUE, before |-> {}]

Init ==
  /\ \E number \in [Jobs -> 1..Cardinality(Jobs)] :
       /\ \A i, j \in Jobs : number[i] = number[j] => i = j
       /\ orders = {[doc |-> number[j], key |-> Key(j, "pending", 0),
                     members |-> MembersOf[j], lead |-> NoCase,
                     typed |-> FALSE] : j \in Jobs}
  /\ nextDoc = Cardinality(Jobs) + 1
  /\ refs = {}
  /\ staff = [c \in Cases |-> [a \in Attorneys |-> IF a \in TrialOf[c] THEN 1 ELSE 0]]
  /\ history = [c \in Cases |-> [status |-> "pending", members |-> {}]]
  /\ pc = [r \in Requests |-> "idle"]
  /\ request = [r \in Requests |-> NoRequest]
  /\ overlapped = FALSE
  /\ faults = 0

-----------------------------------------------------------------------------
(* handleConsolidation refuses an approval without a member case.          *)
Begin(r) ==
  /\ pc[r] = "idle"
  /\ \E asked \in Asked :
       /\ asked.included # {}
       /\ asked.status = "approved" => asked.included # {asked.lead}
       /\ request' = [request EXCEPT ![r].asked = asked, ![r].todo = asked.included]
  /\ overlapped' = (overlapped \/ \E other \in Requests \ {r} : Working(other))
  /\ Goto(r, "read")
  /\ UNCHANGED <<store, cases, faults>>

(* The pending order is found by its key, or the request ends. *)
Read(r) ==
  LET found == {o \in orders : o.key = Key(Asks(r).job, "pending", 0)} IN
  /\ pc[r] = "read"
  /\ IF found = {}
     THEN Goto(r, "done") /\ UNCHANGED request
     ELSE /\ \E o \in found :
               request' = [request EXCEPT ![r].doc = o.doc, ![r].listed = o.members]
          /\ Goto(r, IF Status(r) = "approved" THEN "checkMembers" ELSE "count")
  /\ UNCHANGED <<store, cases, overlapped, faults>>

(* Variant: of the included cases, those of the order are not looked at.   *)
CheckAdded(r) ==
  /\ pc[r] = "checkMembers"
  /\ IF request[r].todo \ request[r].listed = {}
     THEN Goto(r, "checkLead") /\ UNCHANGED request
     ELSE \E c \in request[r].todo \ request[r].listed :
            /\ request' = [request EXCEPT ![r].todo = @ \ {c}]
            /\ IF RefsOf(c) = {} THEN UNCHANGED pc ELSE Goto(r, "done")
  /\ UNCHANGED <<store, cases, overlapped, faults>>

(* "A member case has already been consolidated." *)
CheckMembers(r) ==
  /\ pc[r] = "checkMembers"
  /\ IF request[r].todo = {}
     THEN Goto(r, "checkLead") /\ UNCHANGED request
     ELSE \E c \in request[r].todo :
            /\ request' = [request EXCEPT ![r].todo = @ \ {c}]
            /\ IF RefsOf(c) = {} THEN UNCHANGED pc ELSE Goto(r, "done")
  /\ UNCHANGED <<store, cases, overlapped, faults>>

(* "The lead case is a member case of another consolidation." *)
CheckLead(r) ==
  /\ pc[r] = "checkLead"
  /\ Goto(r, IF \E f \in RefsOf(Lead(r)) : f.type = "to" THEN "done" ELSE "count")
  /\ UNCHANGED <<store, cases, request, overlapped, faults>>

(* Variant: orders of any status are counted, the new one is numbered by   *)
(* what is still pending.                                                  *)
CountPending(r) ==
  /\ pc[r] = "count"
  /\ request' = [request EXCEPT
       ![r].index = Cardinality(Counted(Asks(r).job, "pending"))]
  /\ Goto(r, "create")
  /\ UNCHANGED <<store, cases, overlapped, faults>>

Count(r) ==
  /\ pc[r] = "count"
  /\ request' = [request EXCEPT
       ![r].index = Cardinality(Counted(Asks(r).job, Status(r)))]
  /\ Goto(r, "create")
  /\ UNCHANGED <<store, cases, overlapped, faults>>

Create(r) ==
  /\ pc[r] = "create"
  /\ orders' = orders \cup
       {[doc |-> nextDoc, key |-> Key(Asks(r).job, Status(r), request[r].index),
         members |-> Asks(r).included, lead |-> Lead(r),
         typed |-> Status(r) = "approved"]}
  /\ nextDoc' = nextDoc + 1
  /\ request' = [request EXCEPT ![r].todo = Members(r)]
  /\ Goto(r, "update")
  /\ UNCHANGED <<cases, overlapped, faults>>

Remaining(r) == request[r].listed \ (Asks(r).included \cup {Lead(r)})
Rest(r, o)   == [o EXCEPT !.members = Remaining(r), !.typed = Status(r) = "approved"]

(* Variant: the pending order goes with what remains of it. *)
DeleteAlways(r) ==
  /\ pc[r] = "update"
  /\ IF \E o \in orders : o.doc = request[r].doc
     THEN /\ orders' = {o \in orders : o.doc # request[r].doc}
          /\ Goto(r, "memberHistory")
     ELSE Goto(r, "broken") /\ UNCHANGED orders
  /\ UNCHANGED <<nextDoc, cases, request, overlapped, faults>>

(* What remains stays pending: update finds the order by its key.  With    *)
(* nothing left it is deleted by its id.  Finding nothing is an error; so  *)
(* is a replacement that changes nothing, the type and the reason included *)
(* (the type here is set or not, so that an equal one may still differ).   *)
UpdateOrDelete(r) ==
  LET key  == Key(Asks(r).job, "pending", 0)
      mine == {o \in orders : IF Remaining(r) = {} THEN o.doc = request[r].doc
                                                  ELSE o.key = key}
  IN
  /\ pc[r] = "update"
  /\ \/ mine = {} /\ Goto(r, "broken") /\ UNCHANGED orders
     \/ \E o \in mine :
          /\ orders' = (orders \ {o}) \cup
               (IF Remaining(r) = {} THEN {} ELSE {Rest(r, o)})
          /\ Goto(r, "memberHistory")
     \/ \E o \in mine :
          /\ Remaining(r) # {} /\ Rest(r, o) = o
          /\ Goto(r, "broken")
          /\ UNCHANGED orders
  /\ UNCHANGED <<nextDoc, cases, request, overlapped, faults>>

(* buildHistory: the members of the entry before are carried on.           *)
MemberHistory(r) ==
  /\ pc[r] = "memberHistory"
  /\ IF request[r].todo = {}
     THEN /\ Goto(r, IF Status(r) = "approved" THEN "attorneys" ELSE "done")
          /\ UNCHANGED <<history, request>>
     ELSE \E c \in request[r].todo :
            /\ history' = [history EXCEPT ![c].status = Status(r)]
            /\ request' = [request EXCEPT ![r].todo = @ \ {c}]
            /\ UNCHANGED pc
  /\ UNCHANGED <<store, refs, staff, overlapped, faults>>

(* Every assignment of the lead case, whatever its role, is to become one  *)
(* of a trial attorney: who holds two roles is in the list twice.          *)
ReadAttorneys(r) ==
  /\ pc[r] = "attorneys"
  /\ request' = [request EXCEPT
       ![r].todo = Members(r),
       ![r].attorneys = [a \in Attorneys |->
          staff[Lead(r)][a] + (IF a \in LeadOf[Lead(r)] THEN 1 ELSE 0)]]
  /\ Goto(r, "to")
  /\ UNCHANGED <<store, cases, overlapped, faults>>

(* Variant: the lead case's reference is written first. *)
LeadFirst(r) ==
  /\ pc[r] = "to"
  /\ IF request[r].todo = {}
     THEN Goto(r, "leadHistory") /\ UNCHANGED <<refs, request>>
     ELSE \E c \in request[r].todo :
            /\ refs' = refs \cup {[type |-> "from", case |-> Lead(r), other |-> c]}
            /\ request' = [request EXCEPT ![r].todo = @ \ {c}, ![r].at = c]
            /\ Goto(r, "assign")
  /\ UNCHANGED <<store, staff, history, overlapped, faults>>

(* Member by member: createConsolidationTo, createConsolidationFrom, and   *)
(* createTrialAttorneyAssignments.                                          *)
CreateTo(r) ==
  /\ pc[r] = "to"
  /\ IF request[r].todo = {}
     THEN Goto(r, "readLead") /\ UNCHANGED <<refs, request>>
     ELSE \E c \in request[r].todo :
            /\ refs' = refs \cup {[type |-> "to", case |-> c, other |-> Lead(r)]}
            /\ request' = [request EXCEPT ![r].todo = @ \ {c}, ![r].at = c]
            /\ Goto(r, "from")
  /\ UNCHANGED <<store, staff, history, overlapped, faults>>

CreateFrom(r) ==
  /\ pc[r] = "from"
  /\ refs' = refs \cup {[type |-> "from", case |-> Lead(r), other |-> request[r].at]}
  /\ Goto(r, "assign")
  /\ UNCHANGED <<store, staff, history, request, overlapped, faults>>

(* Assignments that are in the list stay, others end, new ones are made.   *)
Assign(r) ==
  LET list == request[r].attorneys  c == request[r].at IN
  /\ pc[r] = "assign"
  /\ staff' = [staff EXCEPT ![c] = [a \in Attorneys |->
       IF list[a] > 0 /\ staff[c][a] > 0 THEN staff[c][a] ELSE list[a]]]
  /\ Goto(r, "to")
  /\ UNCHANGED <<store, refs, history, request, overlapped, faults>>

ReadLeadHistory(r) ==
  /\ pc[r] = "readLead"
  /\ request' = [request EXCEPT ![r].before = history[Lead(r)].members]
  /\ Goto(r, "leadHistory")
  /\ UNCHANGED <<store, cases, overlapped, faults>>

(* Variant: the lead's history names this request's members only. *)
NoHistoryBefore(r) ==
  /\ pc[r] = "leadHistory"
  /\ history' = [history EXCEPT ![Lead(r)] =
       [status |-> "approved", members |-> Members(r)]]
  /\ Goto(r, "done")
  /\ UNCHANGED <<store, refs, staff, request, overlapped, faults>>

LeadHistory(r) ==
  /\ pc[r] = "leadHistory"
  /\ history' = [history EXCEPT ![Lead(r)] =
       [status |-> "approved", members |-> Members(r) \cup request[r].before]]
  /\ Goto(r, "done")
  /\ UNCHANGED <<store, refs, staff, request, overlapped, faults>>

(* An error of the history read is swallowed, as if there were no history. *)
BlindHistory(r) ==
  /\ faults < MaxFaults
  /\ faults' = faults + 1
  /\ \/ /\ pc[r] = "readLead"
        /\ Goto(r, "leadHistory")
        /\ UNCHANGED <<history, request>>
     \/ /\ pc[r] = "memberHistory"
        /\ \E c \in request[r].todo :
             /\ history' = [history EXCEPT ![c] = [status |-> Status(r), members |-> {}]]
             /\ request' = [request EXCEPT ![r].todo = @ \ {c}]
        /\ UNCHANGED pc
  /\ UNCHANGED <<store, refs, staff, overlapped>>

(* Any other call throws, or the host stops: what was written stays.       *)
Fails(r) ==
  /\ Working(r)
  /\ faults < MaxFaults
  /\ faults' = faults + 1
  /\ Goto(r, "broken")
  /\ UNCHANGED <<store, cases, request, overlapped>>

Next ==
  \E r \in Requests :
    \/ Begin(r) \/ Read(r) \/ CheckMembers(r) \/ CheckLead(r) \/ Count(r)
    \/ Create(r) \/ UpdateOrDelete(r) \/ MemberHistory(r) \/ ReadAttorneys(r)
    \/ CreateTo(r) \/ CreateFrom(r) \/ Assign(r)
    \/ ReadLeadHistory(r) \/ BlindHistory(r) \/ LeadHistory(r) \/ Fails(r)

Spec == Init /\ [][Next]_vars

-----------------------------------------------------------------------------
(* Properties.                                                             *)

(* Every variable keeps its type, and an id stands for one document. *)
TypeOK ==
  /\ orders \subseteq Orders
  /\ \A o, p \in orders : o.doc = p.doc => o = p
  /\ nextDoc \in Nat \ {0}
  /\ refs \subseteq References
  /\ staff \in [Cases -> Staff]
  /\ history \in [Cases -> Entries]
  /\ pc \in [Requests -> Labels]
  /\ request \in [Requests ->
       [asked : Inputs, doc : Nat, listed : SUBSET Cases, todo : SUBSET Cases,
        at : Cases, index : Nat, attorneys : Staff, before : SUBSET Cases]]
  /\ overlapped \in BOOLEAN
  /\ faults \in 0..MaxFaults

(* Whatever requests overlap on an order and wherever they break off, each *)
(* of its cases is still in some order of the job: a decision takes its    *)
(* cases out only after it has put them somewhere.                         *)
NoCaseLost ==
  \A j \in Jobs : \A c \in MembersOf[j] :
    \E o \in orders : o.key.job = j /\ c \in o.members \cup {o.lead}

(* A lead case never refers to a member that does not refer to it.         *)
MemberFirst ==
  \A f \in refs : f.type = "from" =>
    [type |-> "to", case |-> f.other, other |-> f.case] \in refs

(* Unless two requests overlap, a case is a member of one consolidation at *)
(* most, and then leads none: not even after a request broke off between   *)
(* two of its references.                                                  *)
OneConsolidation ==
  ~overlapped =>
    \A f, g \in refs : f.type = "to" /\ g.case = f.case => g = f

(* ... and a consolidation id stands for one order.                        *)
OneOrderPerId == ~overlapped => \A o, p \in orders : o.key = p.key => o = p

(* ... and if no request broke off, an approved order is carried out in    *)
(* full once its request is over: both references of each member, the      *)
(* attorneys of the lead case, and its history naming all its members.     *)
Approved == {o \in orders : o.key.status = "approved"}

ApprovalIsComplete ==
  ~overlapped /\ faults = 0 /\ (\A r \in Requests : pc[r] \in {"idle", "done"}) =>
    \A o \in Approved : \A c \in o.members \ {o.lead} :
      /\ [type |-> "to", case |-> c, other |-> o.lead] \in refs
      /\ [type |-> "from", case |-> o.lead, other |-> c] \in refs
      /\ \A a \in Attorneys :
           staff[c][a] > 0 <=> staff[o.lead][a] > 0 \/ a \in LeadOf[o.lead]
      /\ c \in history[o.lead].members
=============================================================================
