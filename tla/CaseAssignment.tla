--------------------------- MODULE CaseAssignment ---------------------------
(***************************************************************************)
(* Assigning staff to a case: use-cases/case-assignment/case-assignment.ts *)
(* on the assignments collection.  A request replaces the assignees of one *)
(* role of a case, and of the cases jointly administered with it, by       *)
(* single-document writes: it reads who is assigned, ends those who are    *)
(* not in its list, creates those who are new, reads again, and leaves an  *)
(* audit entry.  Requests of several users interleave between any two of   *)
(* its calls, and any call may fail.                                       *)
(***************************************************************************)
EXTENDS Naturals, FiniteSets, Sequences

CONSTANTS
  Cases,
  Attorneys,
  Roles,        \* AssignableRole
  Lead,         \* the role LeadTrialAttorney
  MembersOf,    \* [Cases -> SUBSET Cases]: CONSOLIDATION_FROM references of
                \* type administrative
  Given,        \* who is assigned at first: a sequence of [case, who, role]
  Requests,     \* POST requests
  Asked,        \* what a request may ask for: [case, list, role]
  Faults,       \* subset of FaultKinds that may happen
  MaxFaults     \* bound: how many calls fail in all

FaultKinds == {"error", "crash"}
Inputs     == [case : Cases, list : Seq(Attorneys), role : Roles]

ASSUME InputAssumption ==
  /\ MembersOf \in [Cases -> SUBSET Cases]
  /\ Asked \subseteq Inputs
  /\ Asked # {}
  /\ Given \in Seq([case : Cases, who : Attorneys, role : Roles])
  /\ Faults \subseteq FaultKinds
  /\ MaxFaults \in Nat

(* At first a case has one lead. *)
ASSUME GivenAssumption ==
  \A i, j \in DOMAIN Given :
    Given[i].case = Given[j].case /\ Given[i].role = Lead /\ Given[j].role = Lead => i = j

VARIABLES
  assignments,  \* the ASSIGNMENT documents
  nextId,       \* source of document ids
  audit,        \* the last AUDIT_ASSIGNMENT of each case: its before, after
  binding,      \* the event each request has set on its output binding
  downstream,   \* events put on the case-assignment-event queue
  pc,           \* the call each request is about to make
  request,      \* its locals
  contended,    \* cases on which two requests worked at once
  overruled,    \* <<request, case>>: another request for the role was at work
                \* on the case beside or after it, or it broke off before
  broken,       \* cases on which a request broke off after its last audit
  faults        \* calls that failed so far

store   == <<assignments, nextId>>
output  == <<binding, downstream>>
history == <<contended, overruled, broken>>
vars    == <<store, audit, output, pc, request, history, faults>>

-----------------------------------------------------------------------------
Assignments == [id : Nat, case : Cases, who : Attorneys, role : Roles, open : BOOLEAN]
Events      == [kind : {"added", "removed"}, id : Nat]
Entries     == [before : SUBSET Assignments, after : SUBSET Assignments]

Labels == {"idle", "read", "unassign", "create", "reread", "record", "announce",
           "members", "return", "done"}

(* getAssignmentsForCases *)
Active(c)        == {a \in assignments : a.case = c /\ a.open}
ActiveIn(c, rho) == {a \in Active(c) : a.role = rho}

At(q)    == request[q].at
Role(q)  == request[q].asked.role
List(q)  == request[q].asked.list
Names(q) == {List(q)[i] : i \in DOMAIN List(q)}

(* The cases a request is about, and those it has not come to.             *)
Reach(q) == {request[q].asked.case} \cup MembersOf[request[q].asked.case]
Left(q)  == IF request[q].lead THEN MembersOf[request[q].asked.case] ELSE request[q].rest

(* A request holds what it read of a case from the read to the audit. *)
Working(q, c) == At(q) = c /\ pc[q] \in {"unassign", "create", "reread", "record"}

(* Requests for the same role. *)
Rivals(q) == {p \in Requests \ {q} : Role(p) = Role(q)}

Goto(q, label) == pc' = [pc EXCEPT ![q] = label]

NoRequest ==
  LET input == CHOOSE i \in Asked : TRUE IN
  [asked |-> input, at |-> input.case, rest |-> {}, lead |-> TRUE,
   existing |-> {}, drop |-> {}, add |-> {}, after |-> {}, news |-> {}]

Init ==
  /\ assignments = {[id |-> i, case |-> Given[i].case, who |-> Given[i].who,
                      role |-> Given[i].role, open |-> TRUE] : i \in DOMAIN Given}
  /\ nextId      = Len(Given) + 1
  /\ audit       = [c \in Cases |-> [before |-> {}, after |-> Active(c)]]
  /\ binding     = [q \in Requests |-> {}]
  /\ downstream  = {}
  /\ pc          = [q \in Requests |-> "idle"]
  /\ request     = [q \in Requests |-> NoRequest]
  /\ contended   = {}
  /\ overruled   = {}
  /\ broken      = {}
  /\ faults      = 0

-----------------------------------------------------------------------------
(* createTrialAttorneyAssignments, past the checks of the user's role and  *)
(* office and of the assignees, which read other collections only.  A list *)
(* may name somebody twice; one of several leads is refused.               *)
Begin(q) ==
  /\ pc[q] = "idle"
  /\ \E input \in Asked :
       /\ input.role = Lead => Len(input.list) <= 1
       /\ request' = [request EXCEPT ![q].asked = input, ![q].at = input.case]
  /\ Goto(q, "read")
  /\ UNCHANGED <<store, audit, output, history, faults>>

(* Who else is at work on the case, and whose last word there this ends.   *)
Notice(q, c) ==
  /\ contended' = IF \E p \in Requests \ {q} : Working(p, c)
                  THEN contended \cup {c} ELSE contended
  /\ overruled' = {<<p, c>> : p \in Rivals(q)} \cup
                    (IF \E p \in Rivals(q) : Working(p, c)
                     THEN overruled \cup {<<q, c>>} ELSE overruled \ {<<q, c>>})

Existing(q) == ActiveIn(At(q), Role(q))

(* Variants: whoever is in the list is created, assigned or not; and a     *)
(* list only adds, unless it is empty.                                     *)
AddAll(q) ==
  /\ pc[q] = "read"
  /\ request' = [request EXCEPT
       ![q].existing = Existing(q),
       ![q].drop     = {a \in Existing(q) : a.who \notin Names(q)},
       ![q].add      = DOMAIN List(q),
       ![q].news     = {}]
  /\ Notice(q, At(q))
  /\ Goto(q, "unassign")
  /\ UNCHANGED <<store, audit, output, broken, faults>>

OnlyAdds(q) ==
  /\ pc[q] = "read"
  /\ request' = [request EXCEPT
       ![q].existing = Existing(q),
       ![q].drop     = IF Names(q) = {} THEN Existing(q) ELSE {},
       ![q].add      = {i \in DOMAIN List(q) : \A a \in Existing(q) : a.who # List(q)[i]},
       ![q].news     = {}]
  /\ Notice(q, At(q))
  /\ Goto(q, "unassign")
  /\ UNCHANGED <<store, audit, output, broken, faults>>

(* assignTrialAttorneys: from here on the request works with what it read. *)
(* Each place of the list is an assignment of its own to create: the Set   *)
(* holds fresh objects, so that nobody named twice drops out.              *)
Read(q) ==
  /\ pc[q] = "read"
  /\ request' = [request EXCEPT
       ![q].existing = Existing(q),
       ![q].drop     = {a \in Existing(q) : a.who \notin Names(q)},
       ![q].add      = {i \in DOMAIN List(q) : \A a \in Existing(q) : a.who # List(q)[i]},
       ![q].news     = {}]
  /\ Notice(q, At(q))
  /\ Goto(q, "unassign")
  /\ UNCHANGED <<store, audit, output, broken, faults>>

(* update replaces the document by the copy that was read, with            *)
(* unassignedOn set.                                                       *)
EndOf(a) == [a EXCEPT !.open = FALSE]

(* Variant: those who are still in the list are written back as read.      *)
RefreshKept(q) ==
  LET kept == {a \in request[q].existing : a.who \in Names(q)}
      ids  == {a.id : a \in kept}
      gone == {EndOf(a) : a \in request[q].drop}
  IN
  /\ pc[q] = "unassign"
  /\ assignments' = {b \in assignments : b.id \notin ids \cup {a.id : a \in gone}}
                      \cup kept \cup gone
  /\ request' = [request EXCEPT
       ![q].drop = {}, ![q].news = {[kind |-> "removed", id |-> a.id] : a \in gone}]
  /\ Goto(q, "create")
  /\ UNCHANGED <<nextId, audit, output, history, faults>>

Unassign(q) ==
  /\ pc[q] = "unassign"
  /\ IF request[q].drop = {}
     THEN Goto(q, "create") /\ UNCHANGED <<assignments, request>>
     ELSE \E a \in request[q].drop :
            /\ assignments' = {b \in assignments : b.id # a.id} \cup {EndOf(a)}
            /\ request' = [request EXCEPT
                 ![q].drop = @ \ {a},
                 ![q].news = @ \cup {[kind |-> "removed", id |-> a.id]}]
            /\ UNCHANGED pc
  /\ UNCHANGED <<nextId, audit, output, history, faults>>

Create(q) ==
  /\ pc[q] = "create"
  /\ IF request[q].add = {}
     THEN Goto(q, "reread") /\ UNCHANGED <<store, request>>
     ELSE \E i \in request[q].add :
            /\ \A j \in request[q].add : i <= j
            /\ assignments' = assignments \cup
                 {[id |-> nextId, case |-> At(q), who |-> List(q)[i], role |-> Role(q),
                   open |-> TRUE]}
            /\ nextId' = nextId + 1
            /\ request' = [request EXCEPT
                 ![q].add  = @ \ {i},
                 ![q].news = @ \cup {[kind |-> "added", id |-> nextId]}]
            /\ UNCHANGED pc
  /\ UNCHANGED <<audit, output, history, faults>>

(* Variant: the audit's "after" is computed from the request.              *)
RereadOwnRole(q) ==
  /\ pc[q] = "reread"
  /\ request' = [request EXCEPT ![q].after = ActiveIn(At(q), Role(q))]
  /\ Goto(q, "record")
  /\ UNCHANGED <<store, audit, output, history, faults>>

(* The audit's "after" holds the assignments of all roles. *)
Reread(q) ==
  /\ pc[q] = "reread"
  /\ request' = [request EXCEPT ![q].after = Active(At(q))]
  /\ Goto(q, "record")
  /\ UNCHANGED <<store, audit, output, history, faults>>

(* createCaseHistory *)
Record(q) ==
  /\ pc[q] = "record"
  /\ audit' = [audit EXCEPT ![At(q)] = [before |-> request[q].existing,
                                        after  |-> request[q].after]]
  /\ broken' = broken \ {At(q)}
  /\ Goto(q, "announce")
  /\ UNCHANGED <<store, output, request, contended, overruled, faults>>

(* The additions, then the removals.  Each event is set on the same output *)
(* binding: the last one stays.                                            *)
NextNews(q) ==
  LET added == {e \in request[q].news : e.kind = "added"} IN
  IF added = {} THEN request[q].news ELSE added

Announce(q) ==
  /\ pc[q] = "announce"
  /\ IF request[q].news = {}
     THEN Goto(q, "members") /\ UNCHANGED <<binding, request>>
     ELSE \E e \in NextNews(q) :
            /\ binding' = [binding EXCEPT ![q] = {e}]
            /\ request' = [request EXCEPT ![q].news = @ \ {e}]
            /\ UNCHANGED pc
  /\ UNCHANGED <<store, audit, downstream, history, faults>>

(* Variant: only the case of the request is assigned. *)
LeadOnly(q) ==
  /\ pc[q] = "members"
  /\ Goto(q, "return")
  /\ UNCHANGED <<store, audit, output, request, history, faults>>

(* After the lead case getConsolidation, then one member after the other.  *)
Members(q) ==
  /\ pc[q] = "members"
  /\ IF Left(q) = {}
     THEN Goto(q, "return") /\ UNCHANGED request
     ELSE /\ \E c \in Left(q) :
               request' = [request EXCEPT ![q].at = c, ![q].lead = FALSE,
                                          ![q].rest = Left(q) \ {c}]
          /\ Goto(q, "read")
  /\ UNCHANGED <<store, audit, output, history, faults>>

(* The API answers and the host sends the binding; after an error too.     *)
Return(q) ==
  /\ pc[q] = "return"
  /\ downstream' = downstream \cup binding[q]
  /\ binding' = [binding EXCEPT ![q] = {}]
  /\ Goto(q, "done")
  /\ UNCHANGED <<store, audit, request, history, faults>>

(* A call throws, or the host stops.  What was written stays.              *)
Fails(q, kind) ==
  /\ pc[q] \notin {"idle", "return", "done"}
  /\ kind \in Faults
  /\ faults < MaxFaults
  /\ faults' = faults + 1
  /\ broken' = broken \cup {At(q)} \cup MembersOf[request[q].asked.case]
  /\ overruled' = overruled \cup {<<q, c>> : c \in {At(q)} \cup Left(q)}
  /\ binding' = IF kind = "crash" THEN [binding EXCEPT ![q] = {}] ELSE binding
  /\ Goto(q, IF kind = "crash" THEN "done" ELSE "return")
  /\ UNCHANGED <<store, audit, downstream, request, contended>>

RequestStep(q) ==
  \/ Read(q) \/ Unassign(q) \/ Create(q) \/ Reread(q) \/ Record(q)
  \/ Announce(q) \/ Members(q) \/ Return(q)

Next ==
  \E q \in Requests :
    Begin(q) \/ RequestStep(q) \/ \E kind \in FaultKinds : Fails(q, kind)

Spec == Init /\ [][Next]_vars

-----------------------------------------------------------------------------
(* Properties.                                                             *)

(* Every variable keeps its type, and an id stands for one document. *)
TypeOK ==
  /\ assignments \subseteq Assignments
  /\ \A a, b \in assignments : a.id = b.id => a = b
  /\ nextId \in Nat \ {0}
  /\ audit \in [Cases -> Entries]
  /\ binding \in [Requests -> SUBSET Events]
  /\ downstream \subseteq Events
  /\ pc \in [Requests -> Labels]
  /\ request \in [Requests ->
       [asked : Inputs, at : Cases, rest : SUBSET Cases, lead : BOOLEAN,
        existing : SUBSET Assignments, drop : SUBSET Assignments,
        add : SUBSET Nat, after : SUBSET Assignments, news : SUBSET Events]]
  /\ contended \subseteq Cases
  /\ overruled \subseteq Requests \X Cases
  /\ broken \subseteq Cases
  /\ faults \in 0..MaxFaults

(* However requests overlap and fail: one that works with an old copy of   *)
(* an assignment never revives it after another request ended it.          *)
Ended(id) == \E a \in assignments : a.id = id /\ ~a.open

EndedStaysEnded ==
  [][\A a \in assignments : ~a.open => a \in assignments']_vars

(* A removal told downstream is one that stands. *)
RemovedIsGone ==
  \A e \in downstream \cup UNION {binding[q] : q \in Requests} :
    e.kind = "removed" => Ended(e.id)

(* Unless requests overlap on the case, nobody holds a role of it more     *)
(* often than at first, or than one list of a request names him, whatever  *)
(* failed before; and it has one lead.                                     *)
Uncontended == Cases \ contended

TimesGiven(c, who, rho) ==
  Cardinality({i \in DOMAIN Given : Given[i] = [case |-> c, who |-> who, role |-> rho]})
TimesListed(q, who) == Cardinality({i \in DOMAIN List(q) : List(q)[i] = who})

HeldAsListed ==
  \A c \in Uncontended : \A who \in Attorneys : \A rho \in Roles :
    LET held == Cardinality({a \in ActiveIn(c, rho) : a.who = who}) IN
    \/ held <= TimesGiven(c, who, rho)
    \/ \E q \in Requests : /\ pc[q] # "idle" /\ Role(q) = rho /\ c \in Reach(q)
                           /\ held <= TimesListed(q, who)

OneLead ==
  \A c \in Uncontended : \A a, b \in ActiveIn(c, Lead) : a = b

(* The audit trail of such a case is up to date: while nobody works on it, *)
(* its last entry tells who is assigned.                                   *)
AuditTells ==
  \A c \in Uncontended \ broken :
    (\A q \in Requests : ~Working(q, c)) => audit[c].after = Active(c)

(* The last word stands: once a request is over, the lead case and all     *)
(* members of the joint administration have the assignees of its list,     *)
(* whatever broke off or overlapped there before; unless another request   *)
(* for the role worked beside or after it, or it broke off before.         *)
LastListStands ==
  \A q \in Requests : pc[q] = "done" =>
    \A c \in Reach(q) :
      <<q, c>> \in overruled \/ {a.who : a \in ActiveIn(c, Role(q))} = Names(q)
=============================================================================
