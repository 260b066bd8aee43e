------------------------ MODULE CaseAssignmentProofs ------------------------
(***************************************************************************)
(* Theorems about CaseAssignment, for any cases, attorneys, requests and   *)
(* faults: types; an ended assignment stays ended, and a removal told      *)
(* downstream stands, however requests overlap; on a case on which no two  *)
(* requests overlapped nobody holds a role more often than he was listed,  *)
(* there is one lead, and the audit tells who is assigned; and the list of *)
(* a request that no other overruled stands.                               *)
(***************************************************************************)
EXTENDS CaseAssignment, FiniteSetTheorems, TLAPS

RequestType ==
  [asked : Inputs, at : Cases, rest : SUBSET Cases, lead : BOOLEAN,
   existing : SUBSET Assignments, drop : SUBSET Assignments,
   add : SUBSET Nat, after : SUBSET Assignments, news : SUBSET Events]

StoreTyped ==
  /\ assignments \subseteq Assignments
  /\ \A a, b \in assignments : a.id = b.id => a = b
  /\ \A a \in assignments : a.id < nextId
  /\ nextId \in Nat \ {0}
  /\ IsFiniteSet(assignments)

OutputTyped ==
  /\ audit \in [Cases -> Entries]
  /\ binding \in [Requests -> SUBSET Events]
  /\ downstream \subseteq Events
  /\ contended \subseteq Cases
  /\ overruled \subseteq Requests \X Cases
  /\ broken \subseteq Cases
  /\ faults \in 0..MaxFaults

RequestsTyped ==
  /\ pc \in [Requests -> Labels]
  /\ request \in [Requests -> RequestType]

(* What is to be ended is there, as it was read or ended meanwhile. *)
DropsThere ==
  \A q \in Requests : \A a \in request[q].drop :
    a.open /\ (a \in assignments \/ EndOf(a) \in assignments)

(* What is to be created is in the list. *)
AddsListed ==
  \A q \in Requests : /\ request[q].add \subseteq DOMAIN List(q)
                      /\ pc[q] = "idle" => request[q].add = {}

TInv == StoreTyped /\ OutputTyped /\ RequestsTyped /\ DropsThere /\ AddsListed

-----------------------------------------------------------------------------
LEMMA EndFields ==
  ASSUME NEW a \in Assignments
  PROVE  /\ EndOf(a) \in Assignments /\ EndOf(a).id = a.id /\ EndOf(a).case = a.case
         /\ EndOf(a).who = a.who /\ EndOf(a).role = a.role /\ EndOf(a).open = FALSE
         /\ \A b \in Assignments : a.open /\ b.open /\ EndOf(a) = EndOf(b) => a = b
<1>1. /\ EndOf(a) \in Assignments /\ EndOf(a).id = a.id /\ EndOf(a).case = a.case
      /\ EndOf(a).who = a.who /\ EndOf(a).role = a.role /\ EndOf(a).open = FALSE
  BY DEF EndOf, Assignments
<1>2. ASSUME NEW b \in Assignments, a.open, b.open, EndOf(a) = EndOf(b) PROVE a = b
  <2>1. /\ a = [id |-> a.id, case |-> a.case, who |-> a.who, role |-> a.role, open |-> a.open]
        /\ b = [id |-> b.id, case |-> b.case, who |-> b.who, role |-> b.role, open |-> b.open]
    BY DEF Assignments
  <2>2. a.open = TRUE /\ b.open = TRUE
    BY <1>2 DEF Assignments
  <2>3. a.id = b.id /\ a.case = b.case /\ a.who = b.who /\ a.role = b.role
    BY <1>2 DEF EndOf, Assignments
  <2> QED BY <2>1, <2>2, <2>3
<1> QED BY <1>1, <1>2

LEMMA NoRequestTyped == NoRequest \in RequestType
<1>1. (CHOOSE i \in Asked : TRUE) \in Inputs
  BY InputAssumption
<1> QED BY <1>1 DEF NoRequest, RequestType, Inputs

LEMMA RequestTyped ==
  ASSUME TInv, NEW q \in Requests
  PROVE  /\ request[q] \in RequestType /\ At(q) \in Cases /\ Role(q) \in Roles
         /\ request[q].asked.case \in Cases /\ Reach(q) \subseteq Cases
         /\ Left(q) \subseteq Cases
<1>1. request[q] \in RequestType /\ request[q].asked \in Inputs
  BY DEF TInv, RequestsTyped, RequestType
<1>2. request[q].asked.case \in Cases /\ MembersOf[request[q].asked.case] \subseteq Cases
  BY <1>1, InputAssumption DEF Inputs
<1> QED BY <1>1, <1>2 DEF RequestType, At, Role, Inputs, Reach, Left

(* A list is a sequence of attorneys. *)
LEMMA ListTyped ==
  ASSUME TInv, NEW q \in Requests
  PROVE  /\ List(q) \in Seq(Attorneys) /\ Len(List(q)) \in Nat
         /\ DOMAIN List(q) = 1..Len(List(q)) /\ DOMAIN List(q) \subseteq Nat
         /\ IsFiniteSet(DOMAIN List(q))
         /\ \A i \in DOMAIN List(q) : List(q)[i] \in Attorneys /\ List(q)[i] \in Names(q)
         /\ Names(q) \in SUBSET Attorneys
<1>1. List(q) \in Seq(Attorneys)
  BY DEF TInv, RequestsTyped, RequestType, Inputs, List
<1>2. Len(List(q)) \in Nat /\ DOMAIN List(q) = 1..Len(List(q))
  BY <1>1
<1>3. \A i \in DOMAIN List(q) : List(q)[i] \in Attorneys
  BY <1>1
<1>4. IsFiniteSet(1..Len(List(q)))
  BY <1>2, FS_Interval
<1> QED BY <1>1, <1>2, <1>3, <1>4 DEF Names

LEMMA ActiveTyped ==
  ASSUME TInv, NEW c
  PROVE  /\ Active(c) \in SUBSET Assignments /\ Active(c) \subseteq assignments
         /\ \A rho : ActiveIn(c, rho) \in SUBSET Assignments
                     /\ ActiveIn(c, rho) \subseteq assignments
BY DEF TInv, StoreTyped, Active, ActiveIn

LEMMA GivenTyped ==
  /\ Len(Given) \in Nat /\ DOMAIN Given = 1..Len(Given)
  /\ \A i \in DOMAIN Given : Given[i] \in [case : Cases, who : Attorneys, role : Roles]
<1>1. PICK S : S = [case : Cases, who : Attorneys, role : Roles]
  OBVIOUS
<1>2. Given \in Seq(S)
  BY <1>1, InputAssumption
<1>3. Len(Given) \in Nat /\ DOMAIN Given = 1..Len(Given)
  BY <1>2
<1>4. \A i \in DOMAIN Given : Given[i] \in S
  BY <1>2
<1> QED BY <1>1, <1>3, <1>4

LEMMA TypesInit == Init => TInv
<1> SUFFICES ASSUME Init PROVE TInv
  OBVIOUS
<1>1. Len(Given) \in Nat /\ DOMAIN Given = 1..Len(Given)
      /\ \A i \in DOMAIN Given : Given[i] \in [case : Cases, who : Attorneys, role : Roles]
  BY GivenTyped
<1>2. StoreTyped
  <2>1. \A i \in DOMAIN Given : i \in Nat /\ i < nextId
    BY <1>1 DEF Init
  <2>2. ASSUME NEW i \in DOMAIN Given
        PROVE  [id |-> i, case |-> Given[i].case, who |-> Given[i].who,
                role |-> Given[i].role, open |-> TRUE] \in Assignments
    BY <1>1, <2>1 DEF Assignments
  <2>3. \A a \in assignments : \E i \in DOMAIN Given :
          a = [id |-> i, case |-> Given[i].case, who |-> Given[i].who,
               role |-> Given[i].role, open |-> TRUE]
    BY DEF Init
  <2>4. ASSUME NEW a \in assignments, NEW b \in assignments, a.id = b.id PROVE a = b
    <3>1. PICK i \in DOMAIN Given :
            a = [id |-> i, case |-> Given[i].case, who |-> Given[i].who,
                 role |-> Given[i].role, open |-> TRUE]
      BY <2>3
    <3>2. PICK j \in DOMAIN Given :
            b = [id |-> j, case |-> Given[j].case, who |-> Given[j].who,
                 role |-> Given[j].role, open |-> TRUE]
      BY <2>3
    <3>3. i = j
      BY <3>1, <3>2, <2>4
    <3> QED BY <3>1, <3>2, <3>3
  <2>5. IsFiniteSet(assignments)
    <3>1. IsFiniteSet(DOMAIN Given)
      BY <1>1, FS_Interval
    <3>2. PICK f : f = [i \in DOMAIN Given |-> [id |-> i, case |-> Given[i].case,
            who |-> Given[i].who, role |-> Given[i].role, open |-> TRUE]]
      OBVIOUS
    <3>3. assignments = {f[i] : i \in DOMAIN Given}
      BY <3>2 DEF Init
    <3>4. f \in Surjection(DOMAIN Given, assignments)
      BY <3>2, <3>3 DEF Surjection
    <3> QED BY <3>1, <3>4, FS_Surjection
  <2> QED BY <1>1, <2>1, <2>2, <2>3, <2>4, <2>5 DEF Init, StoreTyped
<1>3. OutputTyped
  <2>1. \A c \in Cases : Active(c) \in SUBSET Assignments
    BY <1>2 DEF StoreTyped, Active
  <2>2. audit \in [Cases -> Entries]
    BY <2>1 DEF Init, Entries
  <2> QED BY <2>2, InputAssumption DEF Init, OutputTyped
<1>4. RequestsTyped
  BY NoRequestTyped DEF Init, RequestsTyped, Labels
<1>5. DropsThere
  BY DEF Init, DropsThere, NoRequest
<1>6. AddsListed
  BY DEF Init, AddsListed, NoRequest
<1> QED BY <1>2, <1>3, <1>4, <1>5, <1>6 DEF TInv

-----------------------------------------------------------------------------
(* The steps.  Only Unassign and Create write assignments. *)

Aside(q) == \/ Begin(q) \/ Read(q) \/ Reread(q) \/ Record(q) \/ Announce(q)
            \/ Members(q) \/ Return(q) \/ \E kind \in FaultKinds : Fails(q, kind)

LEMMA StepCases ==
  ASSUME [Next]_vars
  PROVE  UNCHANGED vars \/ \E q \in Requests : Aside(q) \/ Unassign(q) \/ Create(q)
BY DEF Next, RequestStep, Aside

LEMMA AsideKeeps ==
  ASSUME NEW q \in Requests, Aside(q)
  PROVE  assignments' = assignments /\ nextId' = nextId
BY DEF Aside, Begin, Read, Reread, Record, Announce, Members, Return, Fails, store

LEMMA OthersKept ==
  ASSUME TInv, NEW q \in Requests, Aside(q) \/ Unassign(q) \/ Create(q),
         NEW p \in Requests, p # q
  PROVE  pc'[p] = pc[p] /\ request'[p] = request[p]
<1> USE DEF Goto, TInv, RequestsTyped
<1>1. CASE Aside(q)
  BY <1>1 DEF Aside, Begin, Read, Reread, Record, Announce, Members, Return, Fails
<1>2. CASE Unassign(q) \/ Create(q)
  BY <1>2 DEF Unassign, Create
<1> QED BY <1>1, <1>2

(* What a request was asked, where it is, and what it has to write.        *)
SameAsked(q) == /\ Role(q)' = Role(q) /\ List(q)' = List(q)
                /\ Names(q)' = Names(q) /\ Reach(q)' = Reach(q)
SamePlace(q) == SameAsked(q) /\ At(q)' = At(q) /\ Left(q)' = Left(q)
SamePlan(q)  == request'[q].drop = request[q].drop /\ request'[q].add = request[q].add

LEMMA SameFields ==
  ASSUME NEW q, request'[q].asked = request[q].asked
  PROVE  /\ SameAsked(q)
         /\ request'[q].at = request[q].at /\ request'[q].lead = request[q].lead
              /\ request'[q].rest = request[q].rest => SamePlace(q)
BY DEF SameAsked, SamePlace, Role, List, Names, Reach, At, Left

LEMMA BeginGoes ==
  ASSUME TInv, NEW q \in Requests, Begin(q)
  PROVE  /\ pc[q] = "idle" /\ pc'[q] = "read"
         /\ At(q)' = request'[q].asked.case /\ request'[q].lead = request[q].lead
         /\ request'[q].asked \in Inputs /\ SamePlan(q)
         /\ Role(q)' = Lead => Len(List(q)') <= 1
         /\ UNCHANGED <<store, output, audit, history, faults>>
<1>0. /\ request \in [Requests -> RequestType] /\ request[q] \in RequestType
      /\ pc \in [Requests -> Labels]
  BY DEF TInv, RequestsTyped
<1>1. PICK input \in Asked :
        /\ input.role = Lead => Len(input.list) <= 1
        /\ request' = [request EXCEPT ![q].asked = input, ![q].at = input.case]
  BY DEF Begin
<1>2. request'[q] = [request[q] EXCEPT !.asked = input, !.at = input.case]
  BY <1>0, <1>1
<1>3. /\ request'[q].asked = input /\ request'[q].at = input.case
      /\ request'[q].lead = request[q].lead /\ SamePlan(q)
  BY <1>0, <1>2 DEF RequestType, SamePlan
<1>4. input \in Inputs
  BY InputAssumption
<1>5. /\ pc[q] = "idle" /\ pc'[q] = "read"
      /\ UNCHANGED <<store, output, audit, history, faults>>
  BY <1>0 DEF Begin, Goto
<1> QED BY <1>1, <1>3, <1>4, <1>5 DEF At, Role, List

LEMMA ReadGoes ==
  ASSUME TInv, NEW q \in Requests, Read(q)
  PROVE  /\ pc[q] = "read" /\ pc'[q] = "unassign" /\ SamePlace(q)
         /\ request'[q].drop = {a \in Existing(q) : a.who \notin Names(q)}
         /\ request'[q].add =
              {i \in DOMAIN List(q) : \A a \in Existing(q) : a.who # List(q)[i]}
         /\ request'[q].news = {}
         /\ Notice(q, At(q)) /\ UNCHANGED <<store, output, audit, broken, faults>>
<1>0. /\ request \in [Requests -> RequestType] /\ request[q] \in RequestType
      /\ pc \in [Requests -> Labels]
  BY DEF TInv, RequestsTyped
<1>1. PICK e, d, n :
        /\ e = Existing(q)
        /\ d = {a \in Existing(q) : a.who \notin Names(q)}
        /\ n = {i \in DOMAIN List(q) : \A a \in Existing(q) : a.who # List(q)[i]}
  OBVIOUS
<1>2. request' = [request EXCEPT
        ![q].existing = e, ![q].drop = d, ![q].add = n, ![q].news = {}]
  BY <1>1 DEF Read
<1>3. request'[q] = [request[q] EXCEPT !.existing = e, !.drop = d, !.add = n, !.news = {}]
  BY <1>0, <1>2
<1>4. /\ request'[q].asked = request[q].asked /\ request'[q].at = request[q].at
      /\ request'[q].lead = request[q].lead /\ request'[q].rest = request[q].rest
      /\ request'[q].drop = d /\ request'[q].add = n /\ request'[q].news = {}
  BY <1>0, <1>3 DEF RequestType
<1>5. /\ pc[q] = "read" /\ pc'[q] = "unassign"
      /\ Notice(q, At(q)) /\ UNCHANGED <<store, output, audit, broken, faults>>
  BY <1>0 DEF Read, Goto
<1> QED BY <1>1, <1>4, <1>5, SameFields

LEMMA UnassignGoes ==
  ASSUME TInv, NEW q \in Requests, Unassign(q)
  PROVE  /\ pc[q] = "unassign" /\ SamePlace(q) /\ request'[q].add = request[q].add
         /\ UNCHANGED <<nextId, audit, output, history, faults>>
         /\ \/ /\ request[q].drop = {} /\ pc'[q] = "create"
               /\ assignments' = assignments /\ request' = request
            \/ /\ pc'[q] = "unassign"
               /\ \E a \in request[q].drop :
                    /\ assignments' = {b \in assignments : b.id # a.id} \cup {EndOf(a)}
                    /\ request'[q].drop = request[q].drop \ {a}
<1>0. /\ request \in [Requests -> RequestType] /\ request[q] \in RequestType
      /\ pc \in [Requests -> Labels]
  BY DEF TInv, RequestsTyped
<1>1. pc[q] = "unassign" /\ UNCHANGED <<nextId, audit, output, history, faults>>
  BY DEF Unassign
<1>2. CASE request[q].drop = {}
  <2>1. pc'[q] = "create" /\ assignments' = assignments /\ request' = request
    BY <1>0, <1>2 DEF Unassign, Goto
  <2> QED BY <1>1, <1>2, <2>1, SameFields
<1>3. CASE request[q].drop # {}
  <2>1. PICK a \in request[q].drop :
          /\ assignments' = {b \in assignments : b.id # a.id} \cup {EndOf(a)}
          /\ request' = [request EXCEPT
               ![q].drop = @ \ {a},
               ![q].news = @ \cup {[kind |-> "removed", id |-> a.id]}]
    BY <1>3 DEF Unassign
  <2>2. PICK d, n : /\ d = request[q].drop \ {a}
                    /\ n = request[q].news \cup {[kind |-> "removed", id |-> a.id]}
    OBVIOUS
  <2>3. request'[q] = [request[q] EXCEPT !.drop = d, !.news = n]
    BY <1>0, <2>1, <2>2
  <2>4. /\ request'[q].asked = request[q].asked /\ request'[q].at = request[q].at
        /\ request'[q].lead = request[q].lead /\ request'[q].rest = request[q].rest
        /\ request'[q].drop = d /\ request'[q].add = request[q].add
    BY <1>0, <2>3 DEF RequestType
  <2>5. pc'[q] = "unassign"
    BY <1>1, <1>3 DEF Unassign
  <2> QED BY <1>1, <2>1, <2>2, <2>4, <2>5, SameFields
<1> QED BY <1>2, <1>3

LEMMA CreateGoes ==
  ASSUME TInv, NEW q \in Requests, Create(q)
  PROVE  /\ pc[q] = "create" /\ SamePlace(q) /\ request'[q].drop = request[q].drop
         /\ UNCHANGED <<audit, output, history, faults>>
         /\ \/ /\ request[q].add = {} /\ pc'[q] = "reread"
               /\ UNCHANGED store /\ request' = request
            \/ /\ pc'[q] = "create"
               /\ \E i \in request[q].add, new \in Assignments :
                    /\ new.id = nextId /\ new.case = At(q) /\ new.who = List(q)[i]
                    /\ new.role = Role(q) /\ new.open = TRUE /\ new \notin assignments
                    /\ assignments' = assignments \cup {new} /\ nextId' = nextId + 1
                    /\ request'[q].add = request[q].add \ {i}
<1>0. /\ request \in [Requests -> RequestType] /\ request[q] \in RequestType
      /\ pc \in [Requests -> Labels]
  BY DEF TInv, RequestsTyped
<1>1. pc[q] = "create" /\ UNCHANGED <<audit, output, history, faults>>
  BY DEF Create
<1>2. CASE request[q].add = {}
  <2>1. pc'[q] = "reread" /\ UNCHANGED store /\ request' = request
    BY <1>0, <1>2 DEF Create, Goto
  <2> QED BY <1>1, <1>2, <2>1, SameFields
<1>3. CASE request[q].add # {}
  <2>1. PICK i \in request[q].add :
          /\ assignments' = assignments \cup
               {[id |-> nextId, case |-> At(q), who |-> List(q)[i], role |-> Role(q),
                 open |-> TRUE]}
          /\ nextId' = nextId + 1
          /\ request' = [request EXCEPT
               ![q].add  = @ \ {i},
               ![q].news = @ \cup {[kind |-> "added", id |-> nextId]}]
          /\ UNCHANGED pc
    BY <1>3 DEF Create
  <2>2. PICK new : new = [id |-> nextId, case |-> At(q), who |-> List(q)[i],
                          role |-> Role(q), open |-> TRUE]
    OBVIOUS
  <2>3. List(q)[i] \in Attorneys /\ nextId \in Nat
    BY ListTyped DEF TInv, StoreTyped, AddsListed
  <2>4. new \in Assignments /\ new.id = nextId
    BY <2>2, <2>3, RequestTyped DEF Assignments
  <2>5. new \notin assignments
    BY <2>3, <2>4 DEF TInv, StoreTyped
  <2>6. PICK d, n : /\ d = request[q].add \ {i}
                    /\ n = request[q].news \cup {[kind |-> "added", id |-> nextId]}
    OBVIOUS
  <2>7. request'[q] = [request[q] EXCEPT !.add = d, !.news = n]
    BY <1>0, <2>1, <2>6
  <2>8. /\ request'[q].asked = request[q].asked /\ request'[q].at = request[q].at
        /\ request'[q].lead = request[q].lead /\ request'[q].rest = request[q].rest
        /\ request'[q].drop = request[q].drop /\ request'[q].add = d
    BY <1>0, <2>7 DEF RequestType
  <2>9. SamePlace(q)
    BY <2>8, SameFields
  <2>10. assignments' = assignments \cup {new} /\ new.case = At(q) /\ new.who = List(q)[i]
         /\ new.role = Role(q) /\ new.open = TRUE
    BY <2>1, <2>2
  <2> QED BY <1>1, <2>1, <2>4, <2>5, <2>6, <2>8, <2>9, <2>10
<1> QED BY <1>2, <1>3

(* After the last case the request returns; otherwise it takes the next.   *)
LEMMA MembersGoes ==
  ASSUME TInv, NEW q \in Requests, Members(q)
  PROVE  /\ pc[q] = "members" /\ SameAsked(q) /\ SamePlan(q)
         /\ UNCHANGED <<store, audit, output, history, faults>>
         /\ \/ Left(q) = {} /\ pc'[q] = "return" /\ request' = request
            \/ /\ pc'[q] = "read"
               /\ \E c \in Left(q) : At(q)' = c /\ Left(q)' = Left(q) \ {c}
<1>0. /\ request \in [Requests -> RequestType] /\ request[q] \in RequestType
      /\ pc \in [Requests -> Labels]
  BY DEF TInv, RequestsTyped
<1>1. pc[q] = "members" /\ UNCHANGED <<store, audit, output, history, faults>>
  BY DEF Members
<1>2. CASE Left(q) = {}
  <2>1. pc'[q] = "return" /\ request' = request
    BY <1>0, <1>2 DEF Members, Goto
  <2> QED BY <1>1, <1>2, <2>1, SameFields DEF SamePlan
<1>3. CASE Left(q) # {}
  <2>1. PICK c \in Left(q) :
          request' = [request EXCEPT ![q].at = c, ![q].lead = FALSE,
                                     ![q].rest = Left(q) \ {c}]
    BY <1>3 DEF Members
  <2>2. PICK left : left = Left(q) \ {c}
    OBVIOUS
  <2>3. request'[q] = [request[q] EXCEPT !.at = c, !.lead = FALSE, !.rest = left]
    BY <1>0, <2>1, <2>2
  <2>4. /\ request'[q].at = c /\ request'[q].lead = FALSE /\ request'[q].rest = left
        /\ request'[q].asked = request[q].asked /\ SamePlan(q)
    BY <1>0, <2>3 DEF RequestType, SamePlan
  <2>5. pc'[q] = "read"
    BY <1>0, <1>3 DEF Members, Goto
  <2> QED BY <1>1, <2>2, <2>4, <2>5, SameFields DEF Left, At
<1> QED BY <1>2, <1>3

LEMMA QuietGoes ==
  ASSUME TInv, NEW q \in Requests,
         Reread(q) \/ Record(q) \/ Announce(q) \/ Return(q)
           \/ \E kind \in FaultKinds : Fails(q, kind)
  PROVE  /\ SamePlace(q) /\ SamePlan(q) /\ UNCHANGED store
         /\ pc[q] \notin {"idle", "read"} \/ \E kind \in FaultKinds : Fails(q, kind)
<1>0. /\ request \in [Requests -> RequestType] /\ request[q] \in RequestType
  BY DEF TInv, RequestsTyped
<1>1. CASE Reread(q)
  <2>1. PICK e : e = Active(At(q))
    OBVIOUS
  <2>2. request'[q] = [request[q] EXCEPT !.after = e]
    BY <1>0, <1>1, <2>1 DEF Reread
  <2>3. /\ request'[q].asked = request[q].asked /\ request'[q].at = request[q].at
        /\ request'[q].lead = request[q].lead /\ request'[q].rest = request[q].rest
        /\ SamePlan(q)
    BY <1>0, <2>2 DEF RequestType, SamePlan
  <2> QED BY <1>1, <2>3, SameFields DEF Reread
<1>2. CASE Announce(q)
  <2>1. \/ request' = request
        \/ \E n : request' = [request EXCEPT ![q].news = n]
    BY <1>2 DEF Announce
  <2>2. \/ request'[q] = request[q]
        \/ \E n : request'[q] = [request[q] EXCEPT !.news = n]
    BY <1>0, <2>1
  <2>3. /\ request'[q].asked = request[q].asked /\ request'[q].at = request[q].at
        /\ request'[q].lead = request[q].lead /\ request'[q].rest = request[q].rest
        /\ SamePlan(q)
    BY <1>0, <2>2 DEF RequestType, SamePlan
  <2> QED BY <1>2, <2>3, SameFields DEF Announce
<1>3. CASE Record(q) \/ Return(q) \/ \E kind \in FaultKinds : Fails(q, kind)
  <2>1. request' = request /\ UNCHANGED store
        /\ (pc[q] \notin {"idle", "read"} \/ \E kind \in FaultKinds : Fails(q, kind))
    BY <1>3 DEF Record, Return, Fails
  <2> QED BY <1>3, <2>1, SameFields DEF SamePlan
<1> QED BY <1>1, <1>2, <1>3

(* A begun request stays begun, and what it was asked stays.               *)
LEMMA BegunStays ==
  ASSUME TInv, NEW q \in Requests, Aside(q) \/ Unassign(q) \/ Create(q)
  PROVE  /\ pc'[q] # "idle"
         /\ ~Begin(q) => pc[q] # "idle" /\ SameAsked(q)
         /\ ~Begin(q) /\ ~Members(q) => SamePlace(q)
<1>1. CASE Begin(q)
  BY <1>1, BeginGoes DEF Members
<1>2. CASE Read(q) \/ Unassign(q) \/ Create(q) \/ Members(q)
  BY <1>2, ReadGoes, UnassignGoes, CreateGoes, MembersGoes DEF SamePlace
<1>3. CASE Reread(q) \/ Record(q) \/ Announce(q) \/ Return(q)
           \/ \E kind \in FaultKinds : Fails(q, kind)
  <2>1. pc[q] # "idle" /\ SamePlace(q)
    BY <1>3, QuietGoes DEF Fails
  <2>2. pc'[q] # "idle"
    BY <1>3, <2>1 DEF TInv, RequestsTyped, Reread, Record, Announce, Return, Fails, Goto
  <2> QED BY <2>1, <2>2 DEF SamePlace
<1> QED BY <1>1, <1>2, <1>3 DEF Aside

LEMMA AddsStayListed ==
  ASSUME TInv, NEW q \in Requests, Aside(q) \/ Unassign(q) \/ Create(q)
  PROVE  AddsListed'
<1>1. request'[q].add \subseteq DOMAIN List(q)'
  <2>1. CASE Begin(q)
    BY <2>1, BeginGoes DEF SamePlan, TInv, AddsListed
  <2>2. CASE Read(q)
    BY <2>2, ReadGoes DEF SamePlace, SameAsked
  <2>3. CASE Unassign(q) \/ Create(q) \/ Members(q)
    BY <2>3, UnassignGoes, CreateGoes, MembersGoes
       DEF SamePlace, SameAsked, SamePlan, TInv, AddsListed
  <2>4. CASE Reread(q) \/ Record(q) \/ Announce(q) \/ Return(q)
             \/ \E kind \in FaultKinds : Fails(q, kind)
    BY <2>4, QuietGoes DEF SamePlace, SameAsked, SamePlan, TInv, AddsListed
  <2> QED BY <2>1, <2>2, <2>3, <2>4 DEF Aside
<1>2. ASSUME NEW p \in Requests, p # q
      PROVE  request'[p].add \subseteq DOMAIN List(p)'
             /\ (pc'[p] = "idle" => request'[p].add = {})
  BY <1>2, OthersKept DEF List, TInv, AddsListed
<1> QED BY <1>1, <1>2, BegunStays DEF AddsListed

LEMMA AsideTypes ==
  ASSUME TInv, NEW q \in Requests, Aside(q) \/ Unassign(q) \/ Create(q)
  PROVE  pc' \in [Requests -> Labels]
BY DEF TInv, RequestsTyped, Goto, Labels, Aside, Begin, Read, Reread, Record, Announce,
       Members, Return, Fails, Unassign, Create

(* What a request knows stays typed. *)
LEMMA RequestStaysTyped ==
  ASSUME TInv, NEW q \in Requests, Aside(q) \/ Unassign(q) \/ Create(q)
  PROVE  request' \in [Requests -> RequestType]
<1> USE DEF TInv, RequestsTyped
<1>0. request[q] \in RequestType
  OBVIOUS
<1>1. CASE Begin(q)
  <2>1. PICK input \in Asked : request' = [request EXCEPT ![q].asked = input, ![q].at = input.case]
    BY <1>1 DEF Begin
  <2>2. input \in Inputs /\ input.case \in Cases
    BY InputAssumption DEF Inputs
  <2>3. request' = [request EXCEPT ![q] = [request[q] EXCEPT !.asked = input, !.at = input.case]]
    BY <2>1
  <2>4. [request[q] EXCEPT !.asked = input, !.at = input.case] \in RequestType
    BY <1>0, <2>2 DEF RequestType
  <2> QED BY <2>3, <2>4
<1>2. CASE Read(q)
  <2>1. PICK e, d, n : /\ e = Existing(q)
                       /\ d = {a \in e : a.who \notin Names(q)}
                       /\ n = {i \in DOMAIN List(q) : \A a \in e : a.who # List(q)[i]}
    OBVIOUS
  <2>2. e \in SUBSET Assignments /\ d \in SUBSET Assignments /\ n \in SUBSET Nat
    BY <2>1, ActiveTyped, ListTyped DEF Existing
  <2>3. request' = [request EXCEPT ![q] = [request[q] EXCEPT
          !.existing = e, !.drop = d, !.add = n, !.news = {}]]
    BY <1>2, <2>1 DEF Read
  <2>4. [request[q] EXCEPT !.existing = e, !.drop = d, !.add = n, !.news = {}] \in RequestType
    BY <1>0, <2>2 DEF RequestType
  <2> QED BY <2>3, <2>4
<1>3. CASE Unassign(q)
  <2>1. CASE request[q].drop = {}
    BY <1>3, <2>1 DEF Unassign
  <2>2. CASE request[q].drop # {}
    <3>1. PICK a \in request[q].drop : request' = [request EXCEPT
            ![q].drop = @ \ {a},
            ![q].news = @ \cup {[kind |-> "removed", id |-> a.id]}]
      BY <1>3, <2>2 DEF Unassign
    <3>2. PICK d, n : /\ d = request[q].drop \ {a}
                      /\ n = request[q].news \cup {[kind |-> "removed", id |-> a.id]}
      OBVIOUS
    <3>3. d \in SUBSET Assignments /\ n \in SUBSET Events
      BY <1>0, <3>2 DEF RequestType, Events, Assignments
    <3>4. request' = [request EXCEPT ![q] = [request[q] EXCEPT !.drop = d, !.news = n]]
      BY <3>1, <3>2
    <3>5. [request[q] EXCEPT !.drop = d, !.news = n] \in RequestType
      BY <1>0, <3>3 DEF RequestType
    <3> QED BY <3>4, <3>5
  <2> QED BY <2>1, <2>2
<1>4. CASE Create(q)
  <2>1. CASE request[q].add = {}
    BY <1>4, <2>1 DEF Create
  <2>2. CASE request[q].add # {}
    <3>1. PICK i \in request[q].add : request' = [request EXCEPT
            ![q].add = @ \ {i},
            ![q].news = @ \cup {[kind |-> "added", id |-> nextId]}]
      BY <1>4, <2>2 DEF Create
    <3>2. PICK d, n : /\ d = request[q].add \ {i}
                      /\ n = request[q].news \cup {[kind |-> "added", id |-> nextId]}
      OBVIOUS
    <3>3. d \in SUBSET Nat /\ n \in SUBSET Events
      BY <1>0, <3>2 DEF RequestType, Events, StoreTyped
    <3>4. request' = [request EXCEPT ![q] = [request[q] EXCEPT !.add = d, !.news = n]]
      BY <3>1, <3>2
    <3>5. [request[q] EXCEPT !.add = d, !.news = n] \in RequestType
      BY <1>0, <3>3 DEF RequestType
    <3> QED BY <3>4, <3>5
  <2> QED BY <2>1, <2>2
<1>5. CASE Reread(q)
  <2>1. PICK e : e = Active(At(q))
    OBVIOUS
  <2>2. request' = [request EXCEPT ![q] = [request[q] EXCEPT !.after = e]]
    BY <1>5, <2>1 DEF Reread
  <2>3. [request[q] EXCEPT !.after = e] \in RequestType
    BY <1>0, <2>1, ActiveTyped DEF RequestType
  <2> QED BY <2>2, <2>3
<1>6. CASE Announce(q)
  <2>1. CASE request[q].news = {}
    BY <1>6, <2>1 DEF Announce
  <2>2. CASE request[q].news # {}
    <3>1. PICK e : request' = [request EXCEPT ![q].news = @ \ {e}]
      BY <1>6, <2>2 DEF Announce
    <3>2. PICK n : n = request[q].news \ {e}
      OBVIOUS
    <3>3. request' = [request EXCEPT ![q] = [request[q] EXCEPT !.news = n]]
      BY <3>1, <3>2
    <3>4. [request[q] EXCEPT !.news = n] \in RequestType
      BY <1>0, <3>2 DEF RequestType
    <3> QED BY <3>3, <3>4
  <2> QED BY <2>1, <2>2
<1>7. CASE Members(q)
  <2>1. PICK rest : rest = Left(q)
    OBVIOUS
  <2>2. rest \in SUBSET Cases
    BY <2>1, RequestTyped
  <2>3. CASE rest = {}
    BY <1>7, <2>1, <2>3 DEF Members
  <2>4. CASE rest # {}
    <3>1. PICK c \in rest : request' = [request EXCEPT
            ![q].at = c, ![q].lead = FALSE, ![q].rest = rest \ {c}]
      BY <1>7, <2>1, <2>4 DEF Members
    <3>2. PICK left : left = rest \ {c}
      OBVIOUS
    <3>3. request' = [request EXCEPT ![q] = [request[q] EXCEPT !.at = c, !.lead = FALSE, !.rest = left]]
      BY <3>1, <3>2
    <3>4. [request[q] EXCEPT !.at = c, !.lead = FALSE, !.rest = left] \in RequestType
      BY <1>0, <2>2, <3>2 DEF RequestType
    <3> QED BY <3>3, <3>4
  <2> QED BY <2>3, <2>4
<1>8. CASE Record(q) \/ Return(q) \/ \E kind \in FaultKinds : Fails(q, kind)
  BY <1>8 DEF Record, Return, Fails
<1> QED BY <1>1, <1>2, <1>3, <1>4, <1>5, <1>6, <1>7, <1>8 DEF Aside

(* What ending an assignment does to the collection. *)
LEMMA UnassignStore ==
  ASSUME TInv, NEW q \in Requests, Unassign(q)
  PROVE  /\ StoreTyped'
         /\ \A b \in assignments : ~b.open => b \in assignments'
         /\ \A b \in assignments : b \in assignments' \/ EndOf(b) \in assignments'
         /\ \A b \in assignments' : b.open => b \in assignments
<1>1. CASE request[q].drop = {}
  BY <1>1 DEF Unassign, TInv, StoreTyped
<1>2. CASE request[q].drop # {}
  <2>1. PICK a \in request[q].drop :
          assignments' = {b \in assignments : b.id # a.id} \cup {EndOf(a)}
    BY <1>2 DEF Unassign
  <2>2. nextId' = nextId
    BY DEF Unassign
  <2>3. a \in Assignments /\ a.open /\ (a \in assignments \/ EndOf(a) \in assignments)
    BY DEF TInv, RequestsTyped, RequestType, DropsThere
  <2>4. /\ EndOf(a) \in Assignments /\ EndOf(a).id = a.id /\ EndOf(a).open = FALSE
    BY <2>3, EndFields
  <2>5. \A b \in assignments : b.id = a.id => b = a \/ b = EndOf(a)
    BY <2>3, <2>4 DEF TInv, StoreTyped
  <2>6. EndOf(a).id < nextId
    BY <2>3, <2>4 DEF TInv, StoreTyped
  <2>7. StoreTyped'
    <3>1. assignments' \subseteq Assignments
      BY <2>1, <2>4 DEF TInv, StoreTyped
    <3>2. \A b, d \in assignments' : b.id = d.id => b = d
      BY <2>1, <2>4 DEF TInv, StoreTyped
    <3>3. \A b \in assignments' : b.id < nextId'
      BY <2>1, <2>2, <2>6 DEF TInv, StoreTyped
    <3>4. IsFiniteSet(assignments')
      <4>1. IsFiniteSet({b \in assignments : b.id # a.id})
        BY FS_Subset DEF TInv, StoreTyped
      <4> QED BY <2>1, <4>1, FS_AddElement
    <3> QED BY <2>2, <3>1, <3>2, <3>3, <3>4 DEF TInv, StoreTyped
  <2>8. \A b \in assignments : ~b.open => b \in assignments'
    BY <2>1, <2>3, <2>5
  <2>9. \A b \in assignments : b \in assignments' \/ EndOf(b) \in assignments'
    BY <2>1, <2>5
  <2>10. \A b \in assignments' : b.open => b \in assignments
    BY <2>1, <2>4
  <2> QED BY <2>7, <2>8, <2>9, <2>10
<1> QED BY <1>1, <1>2

LEMMA CreateStore ==
  ASSUME TInv, NEW q \in Requests, Create(q)
  PROVE  StoreTyped' /\ assignments \subseteq assignments'
<1>1. CASE request[q].add = {}
  BY <1>1 DEF Create, store, TInv, StoreTyped
<1>2. CASE request[q].add # {}
  <2>1. PICK i \in request[q].add :
          /\ assignments' = assignments \cup
               {[id |-> nextId, case |-> At(q), who |-> List(q)[i], role |-> Role(q),
                 open |-> TRUE]}
          /\ nextId' = nextId + 1
    BY <1>2 DEF Create
  <2>2. PICK new : new = [id |-> nextId, case |-> At(q), who |-> List(q)[i], role |-> Role(q),
                          open |-> TRUE]
    OBVIOUS
  <2>3. List(q)[i] \in Attorneys /\ nextId \in Nat \ {0}
    BY ListTyped DEF TInv, StoreTyped, AddsListed
  <2>4. new \in Assignments /\ new.id = nextId
    BY <2>2, <2>3, RequestTyped DEF Assignments
  <2>5. assignments' = assignments \cup {new}
    BY <2>1, <2>2
  <2>6. \A b \in assignments : b.id \in Nat /\ b.id < nextId
    BY DEF TInv, StoreTyped, Assignments
  <2>7. \A b, d \in assignments' : b.id = d.id => b = d
    BY <2>4, <2>5, <2>6 DEF TInv, StoreTyped
  <2>8. \A b \in assignments' : b.id < nextId'
    BY <2>1, <2>3, <2>4, <2>5, <2>6
  <2>9. assignments' \subseteq Assignments
    BY <2>4, <2>5 DEF TInv, StoreTyped
  <2>10. IsFiniteSet(assignments')
    BY <2>5, FS_AddElement DEF TInv, StoreTyped
  <2> QED BY <2>1, <2>3, <2>5, <2>7, <2>8, <2>9, <2>10 DEF StoreTyped
<1> QED BY <1>1, <1>2

LEMMA DropsKept ==
  ASSUME TInv, NEW q \in Requests, Aside(q) \/ Unassign(q) \/ Create(q), ~Read(q)
  PROVE  request'[q].drop \subseteq request[q].drop
<1>1. CASE Begin(q) \/ Members(q) \/ Unassign(q) \/ Create(q)
  BY <1>1, BeginGoes, MembersGoes, UnassignGoes, CreateGoes DEF SamePlan
<1>2. CASE ~(Begin(q) \/ Members(q) \/ Unassign(q) \/ Create(q))
  BY <1>2, QuietGoes DEF Aside, SamePlan
<1> QED BY <1>1, <1>2

LEMMA DropsStayThere ==
  ASSUME TInv, NEW q \in Requests, Aside(q) \/ Unassign(q) \/ Create(q)
  PROVE  DropsThere'
<1>1. /\ \A b \in assignments : ~b.open => b \in assignments'
      /\ \A b \in assignments : b \in assignments' \/ EndOf(b) \in assignments'
  BY AsideKeeps, UnassignStore, CreateStore
<1>2. ASSUME NEW a \in Assignments, a.open, a \in assignments \/ EndOf(a) \in assignments
      PROVE  a \in assignments' \/ EndOf(a) \in assignments'
  BY <1>1, <1>2, EndFields
<1>3. ASSUME NEW p \in Requests, p # q
      PROVE  \A a \in request'[p].drop :
               a.open /\ (a \in assignments' \/ EndOf(a) \in assignments')
  BY <1>2, <1>3, OthersKept DEF TInv, DropsThere, RequestsTyped, RequestType
<1>4. ASSUME NEW a \in request'[q].drop
      PROVE  a.open /\ (a \in assignments' \/ EndOf(a) \in assignments')
  <2>1. CASE Read(q)
    <3>1. a \in ActiveIn(At(q), Role(q))
      BY <2>1, <1>4, ReadGoes DEF Existing
    <3>2. a.open /\ a \in assignments
      BY <3>1 DEF ActiveIn, Active
    <3> QED BY <3>2, <2>1, AsideKeeps DEF Aside
  <2>2. CASE ~Read(q)
    BY <2>2, <1>2, <1>4, DropsKept DEF TInv, DropsThere, RequestsTyped, RequestType
  <2> QED BY <2>1, <2>2
<1> QED BY <1>3, <1>4 DEF DropsThere

LEMMA OutputStaysTyped ==
  ASSUME TInv, NEW q \in Requests, Aside(q) \/ Unassign(q) \/ Create(q)
  PROVE  OutputTyped'
<1> USE DEF TInv, OutputTyped, output, history
<1>1. CASE Begin(q) \/ Reread(q) \/ Members(q) \/ Unassign(q) \/ Create(q)
  BY <1>1 DEF Begin, Reread, Members, Unassign, Create
<1>2. CASE Read(q)
  <2>1. contended' \subseteq Cases /\ overruled' \subseteq Requests \X Cases
    BY <1>2, ReadGoes, RequestTyped DEF Notice, Rivals
  <2> QED BY <1>2, <2>1 DEF Read
<1>3. CASE Record(q)
  <2>1. [before |-> request[q].existing, after |-> request[q].after] \in Entries
    BY DEF RequestsTyped, RequestType, Entries
  <2> QED BY <1>3, <2>1 DEF Record
<1>4. CASE Announce(q)
  <2>1. \A e \in NextNews(q) : e \in Events
    BY DEF RequestsTyped, RequestType, NextNews
  <2>2. binding' = binding \/ \E e \in NextNews(q) : binding' = [binding EXCEPT ![q] = {e}]
    BY <1>4 DEF Announce
  <2>3. binding' \in [Requests -> SUBSET Events]
    BY <2>1, <2>2
  <2> QED BY <1>4, <2>3 DEF Announce
<1>5. CASE Return(q)
  BY <1>5 DEF Return
<1>6. CASE \E kind \in FaultKinds : Fails(q, kind)
  <2>1. PICK kind \in FaultKinds : Fails(q, kind)
    BY <1>6
  <2>2. faults' \in 0..MaxFaults
    BY <2>1, InputAssumption DEF Fails
  <2>3. broken' \subseteq Cases
    <3>1. MembersOf[request[q].asked.case] \subseteq Cases
      BY RequestTyped, InputAssumption
    <3> QED BY <2>1, <3>1, RequestTyped DEF Fails
  <2>4. binding' \in [Requests -> SUBSET Events]
    BY <2>1 DEF Fails
  <2>5. overruled' \subseteq Requests \X Cases
    BY <2>1, RequestTyped DEF Fails
  <2> QED BY <2>1, <2>2, <2>3, <2>4, <2>5 DEF Fails
<1> QED BY <1>1, <1>2, <1>3, <1>4, <1>5, <1>6 DEF Aside

LEMMA TypesStep == TInv /\ [Next]_vars => TInv'
<1> SUFFICES ASSUME TInv, [Next]_vars PROVE TInv'
  OBVIOUS
<1>1. CASE UNCHANGED vars
  BY <1>1 DEF vars, store, output, history, TInv, StoreTyped, OutputTyped, RequestsTyped,
              DropsThere, AddsListed, List
<1>2. ASSUME NEW q \in Requests, Aside(q) \/ Unassign(q) \/ Create(q) PROVE TInv'
  <2>1. StoreTyped'
    <3>1. CASE Aside(q)
      BY <3>1, AsideKeeps DEF TInv, StoreTyped
    <3> QED BY <1>2, <3>1, UnassignStore, CreateStore
  <2>2. RequestsTyped'
    BY <1>2, AsideTypes, RequestStaysTyped DEF RequestsTyped
  <2> QED BY <1>2, <2>1, <2>2, OutputStaysTyped, DropsStayThere, AddsStayListed DEF TInv
<1> QED BY <1>1, <1>2, StepCases

LEMMA TypesHold == Spec => []TInv
<1> QED BY TypesInit, TypesStep, PTL DEF Spec

(* Every variable keeps its type, and an id stands for one assignment.     *)
THEOREM AssignmentTypes == Spec => []TypeOK
<1>1. TInv => TypeOK
  BY DEF TInv, StoreTyped, OutputTyped, RequestsTyped, RequestType, TypeOK
<1> QED BY <1>1, TypesHold, PTL

-----------------------------------------------------------------------------
(* Requests that overlap: an ended assignment is never revived. *)

LEMMA EndedKept ==
  ASSUME TInv, [Next]_vars
  PROVE  \A a \in assignments : ~a.open => a \in assignments'
<1>1. CASE UNCHANGED vars
  BY <1>1 DEF vars, store
<1>2. ASSUME NEW q \in Requests, Aside(q) \/ Unassign(q) \/ Create(q)
      PROVE  \A a \in assignments : ~a.open => a \in assignments'
  BY <1>2, AsideKeeps, UnassignStore, CreateStore
<1> QED BY <1>1, <1>2, StepCases

(* However requests overlap and fail, one that works with an old copy of   *)
(* an assignment does not revive it after another request ended it.        *)
THEOREM NothingRevived == Spec => EndedStaysEnded
<1>1. TInv /\ [Next]_vars => [\A a \in assignments : ~a.open => a \in assignments']_vars
  BY EndedKept
<1> QED BY <1>1, TypesHold, PTL DEF Spec, EndedStaysEnded

-----------------------------------------------------------------------------
(* What is told downstream. *)

Reported == {e \in Events : \/ e \in downstream
                            \/ \E q \in Requests : e \in binding[q] \/ e \in request[q].news}

RemovalsStand == \A e \in Reported : e.kind = "removed" => Ended(e.id)

LEMMA NewsFlow ==
  ASSUME TInv, NEW q \in Requests, Aside(q) \/ Unassign(q) \/ Create(q)
  PROVE  \A e \in request'[q].news :
           e \in request[q].news \/ (e.kind = "removed" => Ended(e.id)')
<1>0. request \in [Requests -> RequestType] /\ request[q] \in RequestType
  BY DEF TInv, RequestsTyped
<1>1. CASE Begin(q)
  BY <1>0, <1>1 DEF RequestType, Begin
<1>2. CASE Reread(q)
  BY <1>0, <1>2 DEF RequestType, Reread
<1>3. CASE Announce(q)
  <2>1. \/ request' = request
        \/ \E n : n \subseteq request[q].news /\ request' = [request EXCEPT ![q].news = n]
    BY <1>3 DEF Announce
  <2> QED BY <1>0, <2>1 DEF RequestType
<1>4. CASE Members(q)
  <2>1. \/ request' = request
        \/ \E c, left : request' = [request EXCEPT ![q].at = c, ![q].lead = FALSE,
                                                   ![q].rest = left]
    BY <1>4 DEF Members
  <2>2. ASSUME NEW c, NEW left,
               request' = [request EXCEPT ![q].at = c, ![q].lead = FALSE, ![q].rest = left]
        PROVE  request'[q].news = request[q].news
    <3>1. request' = [request EXCEPT
                        ![q] = [request[q] EXCEPT !.at = c, !.lead = FALSE, !.rest = left]]
      BY <2>2
    <3>2. request'[q] = [request[q] EXCEPT !.at = c, !.lead = FALSE, !.rest = left]
      BY <1>0, <3>1
    <3> QED BY <1>0, <3>2 DEF RequestType
  <2> QED BY <2>1, <2>2
<1>5. CASE Record(q) \/ Return(q) \/ \E kind \in FaultKinds : Fails(q, kind)
  BY <1>5 DEF Record, Return, Fails
<1>6. CASE Read(q)
  BY <1>6, ReadGoes
<1>7. CASE Unassign(q)
  <2>1. CASE request[q].drop = {}
    BY <1>7, <2>1 DEF Unassign
  <2>2. CASE request[q].drop # {}
    <3>1. PICK a \in request[q].drop :
            /\ assignments' = {b \in assignments : b.id # a.id} \cup {EndOf(a)}
            /\ request' = [request EXCEPT
                 ![q].drop = @ \ {a},
                 ![q].news = @ \cup {[kind |-> "removed", id |-> a.id]}]
      BY <1>7, <2>2 DEF Unassign
    <3>2. PICK d, n : /\ d = request[q].drop \ {a}
                      /\ n = request[q].news \cup {[kind |-> "removed", id |-> a.id]}
      OBVIOUS
    <3>3. request' = [request EXCEPT ![q].drop = d, ![q].news = n]
      BY <3>1, <3>2
    <3>4. request'[q].news = n
      BY <1>0, <3>3 DEF RequestType
    <3>5. EndOf(a).id = a.id /\ EndOf(a).open = FALSE
      BY <1>0, EndFields DEF RequestType
    <3>6. Ended(a.id)'
      BY <3>1, <3>5 DEF Ended
    <3> QED BY <3>2, <3>4, <3>6
  <2> QED BY <2>1, <2>2
<1>8. CASE Create(q)
  <2>1. \/ request' = request
        \/ \E d, n : /\ n = request[q].news \cup {[kind |-> "added", id |-> nextId]}
                     /\ request' = [request EXCEPT ![q].add = d, ![q].news = n]
    BY <1>8 DEF Create
  <2>2. CASE request' = request
    BY <2>2
  <2>3. ASSUME NEW d, NEW n, n = request[q].news \cup {[kind |-> "added", id |-> nextId]},
               request' = [request EXCEPT ![q].add = d, ![q].news = n]
        PROVE  \A e \in request'[q].news : e \in request[q].news \/ e.kind # "removed"
    <3>1. request'[q].news = n
      BY <1>0, <2>3 DEF RequestType
    <3> QED BY <3>1, <2>3
  <2> QED BY <2>1, <2>2, <2>3
<1> QED BY <1>1, <1>2, <1>3, <1>4, <1>5, <1>6, <1>7, <1>8 DEF Aside

LEMMA OutputFlow ==
  ASSUME TInv, NEW q \in Requests, Aside(q) \/ Unassign(q) \/ Create(q)
  PROVE  /\ downstream' \subseteq downstream \cup binding[q]
         /\ \A p \in Requests : binding'[p] \subseteq binding[p] \cup request[p].news
<1> USE DEF TInv, OutputTyped, output
<1>1. CASE Begin(q) \/ Read(q) \/ Reread(q) \/ Record(q) \/ Members(q) \/ Unassign(q)
           \/ Create(q) \/ Return(q) \/ \E kind \in FaultKinds : Fails(q, kind)
  BY <1>1 DEF Begin, Read, Reread, Record, Members, Unassign, Create, Return, Fails
<1>2. CASE Announce(q)
  BY <1>2 DEF Announce, NextNews
<1> QED BY <1>1, <1>2 DEF Aside

LEMMA RemovalsStep == TInv /\ RemovalsStand /\ [Next]_vars => RemovalsStand'
<1> SUFFICES ASSUME TInv, RemovalsStand, [Next]_vars PROVE RemovalsStand'
  OBVIOUS
<1>1. \A id : Ended(id) => Ended(id)'
  BY EndedKept DEF Ended
<1>2. CASE UNCHANGED vars
  BY <1>2 DEF vars, store, output, RemovalsStand, Reported, Ended
<1>3. ASSUME NEW q \in Requests, Aside(q) \/ Unassign(q) \/ Create(q) PROVE RemovalsStand'
  <2>1. SUFFICES ASSUME NEW e \in Events, e.kind = "removed",
                        \/ e \in downstream'
                        \/ \E p \in Requests : e \in binding'[p] \/ e \in request'[p].news
                 PROVE  Ended(e.id)'
    BY DEF RemovalsStand, Reported
  <2>2. \A p \in Requests : e \in request'[p].news => e \in request[p].news \/ Ended(e.id)'
    BY <1>3, <2>1, NewsFlow, OthersKept
  <2>3. \/ Ended(e.id)'
        \/ e \in downstream
        \/ \E p \in Requests : e \in binding[p] \/ e \in request[p].news
    BY <1>3, <2>1, <2>2, OutputFlow
  <2>4. e \in Reported \/ Ended(e.id)'
    BY <2>3 DEF Reported
  <2> QED BY <2>1, <2>4, <1>1 DEF RemovalsStand
<1> QED BY <1>2, <1>3, StepCases

(* A removal told downstream is one that stands, whatever else happened to *)
(* the assignment in the meantime.                                         *)
THEOREM RemovalsTold == Spec => []RemovedIsGone
<1>1. Init => RemovalsStand
  <2>1. NoRequest.news = {}
    BY DEF NoRequest
  <2>2. Init => Reported = {}
    BY <2>1 DEF Init, Reported
  <2> QED BY <2>2 DEF RemovalsStand
<1>2. TInv /\ RemovalsStand => RemovedIsGone
  BY DEF TInv, OutputTyped, RemovalsStand, Reported, RemovedIsGone
<1> QED BY <1>1, <1>2, TypesHold, RemovalsStep, PTL DEF Spec

-----------------------------------------------------------------------------
(* Where a request is, what it has left, and what it has to end.           *)

Route(q) ==
  /\ pc[q] = "idle" => request[q].lead
  /\ pc[q] # "idle" => At(q) \in Reach(q) /\ Left(q) \subseteq Reach(q)

DropsHere(q) == pc[q] = "unassign" =>
  \A a \in request[q].drop : a.case = At(q) /\ a.role = Role(q)

PInv == \A q \in Requests : Route(q) /\ DropsHere(q)

LEMMA PlaceStep ==
  ASSUME TInv, PInv, NEW q \in Requests, Aside(q) \/ Unassign(q) \/ Create(q)
  PROVE  PInv'
<1>1. Route(q)'
  <2>1. CASE Begin(q)
    <3>1. /\ At(q)' = request'[q].asked.case /\ request'[q].lead /\ pc'[q] = "read"
      BY <2>1, BeginGoes DEF PInv, Route
    <3> QED BY <3>1 DEF Route, Reach, Left
  <2>2. CASE Members(q)
    <3>1. pc[q] # "idle" /\ pc'[q] # "idle" /\ Reach(q)' = Reach(q)
      BY <2>2, MembersGoes DEF SameAsked
    <3>2. At(q) \in Reach(q) /\ Left(q) \subseteq Reach(q)
      BY <3>1 DEF PInv, Route
    <3>3. CASE request' = request
      BY <3>1, <3>2, <3>3 DEF Route, At, Left
    <3>4. CASE \E c \in Left(q) : At(q)' = c /\ Left(q)' = Left(q) \ {c}
      BY <3>1, <3>2, <3>4 DEF Route
    <3> QED BY <2>2, <3>3, <3>4, MembersGoes
  <2>3. CASE ~Begin(q) /\ ~Members(q)
    BY <2>3, BegunStays DEF PInv, Route, SamePlace, SameAsked
  <2> QED BY <2>1, <2>2, <2>3
<1>2. DropsHere(q)'
  <2>1. CASE Read(q)
    <3>1. request'[q].drop \subseteq ActiveIn(At(q), Role(q))
      BY <2>1, ReadGoes DEF Existing
    <3>2. At(q)' = At(q) /\ Role(q)' = Role(q)
      BY <2>1, ReadGoes DEF SamePlace, SameAsked
    <3> QED BY <3>1, <3>2 DEF DropsHere, ActiveIn, Active
  <2>2. CASE Unassign(q)
    <3>1. pc[q] = "unassign" /\ request'[q].drop \subseteq request[q].drop
      BY <2>2, UnassignGoes
    <3> QED BY <2>2, <3>1, UnassignGoes DEF PInv, DropsHere, SamePlace, SameAsked
  <2>3. CASE ~Read(q) /\ ~Unassign(q)
    <3>1. pc'[q] # "unassign"
      BY <2>3, BeginGoes, CreateGoes, MembersGoes
         DEF Aside, Reread, Record, Announce, Return, Fails, Goto, TInv, RequestsTyped
    <3> QED BY <3>1 DEF DropsHere
  <2> QED BY <2>1, <2>2, <2>3
<1>3. ASSUME NEW p \in Requests, p # q PROVE Route(p)' /\ DropsHere(p)'
  <2>1. pc'[p] = pc[p] /\ request'[p] = request[p]
    BY <1>3, OthersKept
  <2> QED BY <2>1 DEF PInv, Route, DropsHere, At, Left, Reach, Role
<1> QED BY <1>1, <1>2, <1>3 DEF PInv

LEMMA PlaceAlways == Spec => []PInv
<1>1. Init => PInv
  BY DEF Init, NoRequest, PInv, Route, DropsHere
<1>2. ASSUME TInv, PInv, [Next]_vars PROVE PInv'
  <2>1. CASE UNCHANGED vars
    BY <1>2, <2>1 DEF vars, PInv, Route, DropsHere, At, Left, Reach, Role
  <2> QED BY <1>2, <2>1, PlaceStep, StepCases
<1> QED BY <1>1, <1>2, TypesHold, PTL DEF Spec

-----------------------------------------------------------------------------
(* A request writes only assignments of its role on the case where it is.  *)

LEMMA WritesHere ==
  ASSUME TInv, PInv, NEW q \in Requests, Aside(q) \/ Unassign(q) \/ Create(q), NEW c
  PROVE  /\ Aside(q) \/ c # At(q) => Active(c)' = Active(c)
         /\ \A rho : Aside(q) \/ c # At(q) \/ rho # Role(q)
                       => ActiveIn(c, rho)' = ActiveIn(c, rho)
<1> DEFINE Here(a) == a.case = At(q) /\ a.role = Role(q)
<1>1. CASE assignments' = assignments
  BY <1>1 DEF Active, ActiveIn
<1>2. CASE Aside(q)
  BY <1>2, <1>1, AsideKeeps
<1>3. CASE Unassign(q) /\ ~Aside(q)
  <2>1. CASE request[q].drop = {}
    BY <1>1, <1>3, <2>1 DEF Unassign
  <2>2. CASE request[q].drop # {}
    <3>1. PICK a \in request[q].drop :
            assignments' = {b \in assignments : b.id # a.id} \cup {EndOf(a)}
      BY <1>3, <2>2 DEF Unassign
    <3>2. a \in Assignments /\ Here(a) /\ (a \in assignments \/ EndOf(a) \in assignments)
      BY <1>3 DEF Unassign, PInv, DropsHere, TInv, RequestsTyped, RequestType, DropsThere
    <3>3. EndOf(a).id = a.id /\ Here(EndOf(a))
      BY <3>2, EndFields
    <3>4. \A b \in assignments : b.id = a.id => Here(b)
      BY <3>2, <3>3 DEF TInv, StoreTyped
    <3>5. \A b : ~Here(b) => (b \in assignments' <=> b \in assignments)
      BY <3>1, <3>3, <3>4
    <3> QED BY <1>3, <3>5 DEF Active, ActiveIn
  <2> QED BY <2>1, <2>2
<1>4. CASE Create(q) /\ ~Aside(q)
  <2>1. CASE UNCHANGED store
    BY <1>1, <2>1 DEF store
  <2>2. CASE \E new \in Assignments : Here(new) /\ assignments' = assignments \cup {new}
    BY <1>4, <2>2 DEF Active, ActiveIn
  <2> QED BY <1>4, <2>1, <2>2, CreateGoes
<1> QED BY <1>2, <1>3, <1>4

LEMMA UnassignEnds ==
  ASSUME TInv, NEW q \in Requests, Unassign(q)
  PROVE  \/ request[q].drop = {} /\ pc'[q] = "create" /\ request'[q].drop = {}
            /\ Existing(q)' = Existing(q)
         \/ pc'[q] = "unassign" /\ \E a \in request[q].drop :
              /\ request'[q].drop = request[q].drop \ {a}
              /\ Existing(q)' = Existing(q) \ {a}
<1>0. At(q)' = At(q) /\ Role(q)' = Role(q)
  BY UnassignGoes DEF SamePlace, SameAsked
<1>1. CASE request[q].drop = {}
  BY <1>0, <1>1, UnassignGoes DEF Existing, ActiveIn, Active
<1>2. CASE request[q].drop # {}
  <2>1. PICK a \in request[q].drop :
          /\ pc'[q] = "unassign"
          /\ assignments' = {b \in assignments : b.id # a.id} \cup {EndOf(a)}
          /\ request'[q].drop = request[q].drop \ {a}
    BY <1>2, UnassignGoes
  <2>2. a \in Assignments /\ (a \in assignments \/ EndOf(a) \in assignments)
    BY DEF TInv, RequestsTyped, RequestType, DropsThere
  <2>3. EndOf(a).id = a.id /\ EndOf(a).open = FALSE
    BY <2>2, EndFields
  <2>4. \A b \in assignments : b.id = a.id => b = a \/ b = EndOf(a)
    BY <2>2, <2>3 DEF TInv, StoreTyped
  <2>5. \A b : b.open => (b \in assignments' <=> b \in assignments /\ b # a)
    BY <2>1, <2>3, <2>4
  <2>6. Existing(q)' = Existing(q) \ {a}
    BY <1>0, <2>5 DEF Existing, ActiveIn, Active
  <2> QED BY <2>1, <2>6
<1> QED BY <1>1, <1>2

LEMMA CreateAdds ==
  ASSUME TInv, NEW q \in Requests, Create(q)
  PROVE  \/ request[q].add = {} /\ pc'[q] = "reread" /\ Existing(q)' = Existing(q)
            /\ assignments' = assignments
         \/ pc'[q] = "create" /\ \E i \in request[q].add, new \in Assignments :
              /\ new.who = List(q)[i] /\ new.role = Role(q) /\ new \notin Existing(q)
              /\ request'[q].add = request[q].add \ {i}
              /\ Active(At(q))' = Active(At(q)) \cup {new}
              /\ Existing(q)' = Existing(q) \cup {new}
<1>0. At(q)' = At(q) /\ Role(q)' = Role(q)
  BY CreateGoes DEF SamePlace, SameAsked
<1>1. CASE request[q].add = {} /\ pc'[q] = "reread" /\ UNCHANGED store
  BY <1>0, <1>1 DEF store, Existing, ActiveIn, Active
<1>2. CASE pc'[q] = "create" /\ \E i \in request[q].add, new \in Assignments :
             /\ new.case = At(q) /\ new.who = List(q)[i]
             /\ new.role = Role(q) /\ new.open = TRUE /\ new \notin assignments
             /\ assignments' = assignments \cup {new}
             /\ request'[q].add = request[q].add \ {i}
  <2>1. PICK i \in request[q].add, new \in Assignments :
             /\ new.case = At(q) /\ new.who = List(q)[i]
             /\ new.role = Role(q) /\ new.open = TRUE /\ new \notin assignments
             /\ assignments' = assignments \cup {new}
             /\ request'[q].add = request[q].add \ {i}
    BY <1>2
  <2>2. Active(At(q))' = Active(At(q)) \cup {new}
    BY <1>0, <2>1 DEF Active
  <2>3. Existing(q)' = Existing(q) \cup {new} /\ new \notin Existing(q)
    BY <1>0, <2>1, <2>2 DEF Existing, ActiveIn, Active
  <2> QED BY <1>2, <2>1, <2>2, <2>3
<1> QED BY <1>1, <1>2, CreateGoes

(* Who works on a case did before, or has just read it.                    *)
LEMMA WorkingStays ==
  ASSUME TInv, NEW q \in Requests, Aside(q) \/ Unassign(q) \/ Create(q), NEW c
  PROVE  Working(q, c)' => Working(q, c) \/ (Read(q) /\ c = At(q))
<1>1. CASE Begin(q) \/ Members(q)
  BY <1>1, BeginGoes, MembersGoes DEF Working
<1>2. CASE Read(q)
  BY <1>2, ReadGoes DEF Working, SamePlace
<1>3. CASE ~Begin(q) /\ ~Members(q) /\ ~Read(q)
  <2>1. At(q)' = At(q)
    BY <1>3, BegunStays DEF SamePlace
  <2>2. pc'[q] \in {"unassign", "create", "reread", "record"} =>
          pc[q] \in {"unassign", "create", "reread", "record"}
    BY <1>3 DEF Aside, Reread, Record, Announce, Return, Fails, Unassign, Create, Goto,
                TInv, RequestsTyped
  <2> QED BY <2>1, <2>2 DEF Working
<1> QED BY <1>1, <1>2, <1>3

-----------------------------------------------------------------------------
(* A case on which no two requests overlapped. *)

HeldBy(c, rho, who) == {a \in ActiveIn(c, rho) : a.who = who}
Places(q, who)      == {i \in DOMAIN List(q) : List(q)[i] = who}
ToCome(q, who)      == {i \in request[q].add : List(q)[i] = who}

(* One request works on it. *)
AloneIn(c) == \A p, q \in Requests : Working(p, c) /\ Working(q, c) => p = q

(* Who is told to lead is one person. *)
OneAsked(q) == pc[q] # "idle" /\ Role(q) = Lead => Len(List(q)) <= 1

(* A request knows who has to go, and what it still creates for somebody   *)
(* fills the places of its list at most.                                   *)
PlanHolds(q) ==
  /\ \A a \in Existing(q) : a.who \in Names(q) \/ a \in request[q].drop
  /\ pc[q] = "create" => request[q].drop = {}
  /\ \A i \in request[q].add :
       LET who == List(q)[i] IN
       Cardinality(HeldBy(At(q), Role(q), who)) + Cardinality(ToCome(q, who))
         <= Cardinality(Places(q, who))

Planned(q) ==
  pc[q] \in {"unassign", "create"} /\ At(q) \notin contended => PlanHolds(q)

Listed(n, c, rho, who) ==
  \/ n <= TimesGiven(c, who, rho)
  \/ \E q \in Requests : /\ pc[q] # "idle" /\ Role(q) = rho /\ c \in Reach(q)
                         /\ n <= Cardinality(Places(q, who))

HeldWithin(c) ==
  /\ \A who \in Attorneys, rho \in Roles : Listed(Cardinality(HeldBy(c, rho, who)), c, rho, who)
  /\ \A a, b \in ActiveIn(c, Lead) : a = b

HInv == /\ \A c \in Uncontended : AloneIn(c) /\ HeldWithin(c)
        /\ \A q \in Requests : OneAsked(q) /\ Planned(q)

LEMMA HeldCounts ==
  ASSUME TInv, NEW c, NEW rho, NEW who
  PROVE  /\ IsFiniteSet(HeldBy(c, rho, who)) /\ Cardinality(HeldBy(c, rho, who)) \in Nat
         /\ \A S : S \subseteq HeldBy(c, rho, who) =>
              Cardinality(S) \in Nat /\ Cardinality(S) <= Cardinality(HeldBy(c, rho, who))
<1>1. HeldBy(c, rho, who) \subseteq assignments
  BY ActiveTyped DEF HeldBy
<1>2. IsFiniteSet(HeldBy(c, rho, who))
  BY <1>1, FS_Subset DEF TInv, StoreTyped
<1> QED BY <1>2, FS_Subset, FS_CardinalityType

LEMMA PlaceCounts ==
  ASSUME TInv, NEW q \in Requests, NEW who
  PROVE  /\ IsFiniteSet(Places(q, who)) /\ Cardinality(Places(q, who)) \in Nat
         /\ IsFiniteSet(ToCome(q, who)) /\ Cardinality(ToCome(q, who)) \in Nat
         /\ Cardinality(ToCome(q, who)) <= Cardinality(Places(q, who))
         /\ Cardinality(Places(q, who)) <= Len(List(q))
<1>1. Places(q, who) \subseteq DOMAIN List(q) /\ ToCome(q, who) \subseteq Places(q, who)
  BY DEF Places, ToCome, TInv, AddsListed
<1>2. IsFiniteSet(DOMAIN List(q)) /\ Cardinality(DOMAIN List(q)) = Len(List(q))
  <2>1. Len(List(q)) \in Nat /\ DOMAIN List(q) = 1..Len(List(q))
    BY ListTyped
  <2>2. IsFiniteSet(1..Len(List(q))) /\ Cardinality(1..Len(List(q))) = Len(List(q))
    <3>1. PICK n \in Nat : n = Len(List(q))
      BY <2>1
    <3>2. IsFiniteSet(1..n) /\ Cardinality(1..n) = n
      BY FS_Interval
    <3> QED BY <3>1, <3>2
  <2> QED BY <2>1, <2>2
<1>3. IsFiniteSet(Places(q, who)) /\ Cardinality(Places(q, who)) <= Len(List(q))
  BY <1>1, <1>2, FS_Subset
<1>4. IsFiniteSet(ToCome(q, who)) /\ Cardinality(ToCome(q, who)) <= Cardinality(Places(q, who))
  BY <1>1, <1>3, FS_Subset
<1> QED BY <1>3, <1>4, FS_CardinalityType

LEMMA GivenCounts ==
  ASSUME NEW c, NEW who, NEW rho
  PROVE  LET G == {i \in DOMAIN Given : Given[i] = [case |-> c, who |-> who, role |-> rho]}
         IN  IsFiniteSet(G) /\ TimesGiven(c, who, rho) = Cardinality(G)
             /\ TimesGiven(c, who, rho) \in Nat
<1>2. IsFiniteSet(DOMAIN Given)
  BY GivenTyped, FS_Interval
<1> DEFINE G == {i \in DOMAIN Given : Given[i] = [case |-> c, who |-> who, role |-> rho]}
<1>3. IsFiniteSet(G)
  BY <1>2, FS_Subset
<1> QED BY <1>3, FS_CardinalityType DEF TimesGiven

LEMMA HeldInit == Init => HInv
<1> SUFFICES ASSUME Init PROVE HInv
  OBVIOUS
<1>1. \A q \in Requests : pc[q] = "idle"
  BY DEF Init
<1> DEFINE Doc(i) == [id |-> i, case |-> Given[i].case, who |-> Given[i].who,
                      role |-> Given[i].role, open |-> TRUE]
<1>2. ASSUME NEW c \in Cases PROVE HeldWithin(c)
  <2>1. \A a \in Active(c) : \E i \in DOMAIN Given : a = Doc(i) /\ a.case = c
    BY DEF Init, Active
  <2>2. \A a, b \in ActiveIn(c, Lead) : a = b
    <3> SUFFICES ASSUME NEW a \in ActiveIn(c, Lead), NEW b \in ActiveIn(c, Lead)
                 PROVE  a = b
      OBVIOUS
    <3>1. PICK i \in DOMAIN Given : a = Doc(i) /\ a.case = c
      BY <2>1 DEF ActiveIn
    <3>2. PICK j \in DOMAIN Given : b = Doc(j) /\ b.case = c
      BY <2>1 DEF ActiveIn
    <3>3. a.role = Lead /\ b.role = Lead
      BY DEF ActiveIn
    <3>4. i = j
      BY <3>1, <3>2, <3>3, GivenAssumption
    <3> QED BY <3>1, <3>2, <3>4
  <2>3. ASSUME NEW who \in Attorneys, NEW rho \in Roles
        PROVE  Listed(Cardinality(HeldBy(c, rho, who)), c, rho, who)
    <3> DEFINE G == {i \in DOMAIN Given : Given[i] = [case |-> c, who |-> who, role |-> rho]}
    <3>1. IsFiniteSet(G) /\ TimesGiven(c, who, rho) = Cardinality(G)
      BY GivenCounts
    <3>2. PICK f : f = [i \in G |-> Doc(i)]
      OBVIOUS
    <3>3. ASSUME NEW i \in DOMAIN Given
          PROVE  Given[i] \in [case : Cases, who : Attorneys, role : Roles]
      BY GivenTyped
    <3>4. ASSUME NEW a \in HeldBy(c, rho, who) PROVE \E i \in G : f[i] = a
      <4>1. PICK i \in DOMAIN Given : a = Doc(i) /\ a.case = c
        BY <2>1 DEF HeldBy, ActiveIn
      <4>2. Given[i].case = c /\ Given[i].who = who /\ Given[i].role = rho
        BY <4>1 DEF HeldBy, ActiveIn
      <4>3. Given[i] = [case |-> c, who |-> who, role |-> rho]
        BY <3>3, <4>2
      <4> QED BY <3>2, <4>1, <4>3
    <3>5. \A i \in G : f[i] \in HeldBy(c, rho, who)
      <4> SUFFICES ASSUME NEW i \in G PROVE Doc(i) \in HeldBy(c, rho, who)
        BY <3>2
      <4>1. Given[i].case = c /\ Given[i].who = who /\ Given[i].role = rho
        OBVIOUS
      <4> QED BY <4>1 DEF HeldBy, ActiveIn, Active, Init
    <3>6. f \in Surjection(G, HeldBy(c, rho, who))
      BY <3>2, <3>4, <3>5 DEF Surjection
    <3>7. Cardinality(HeldBy(c, rho, who)) <= Cardinality(G)
      BY <3>1, <3>6, FS_Surjection
    <3> QED BY <3>1, <3>7 DEF Listed
  <2> QED BY <2>2, <2>3 DEF HeldWithin
<1> QED BY <1>1, <1>2 DEF HInv, Uncontended, AloneIn, OneAsked, Planned, Working

LEMMA OneAskedStep ==
  ASSUME TInv, HInv, NEW q \in Requests, Aside(q) \/ Unassign(q) \/ Create(q)
  PROVE  \A p \in Requests : OneAsked(p)'
<1>1. OneAsked(q)'
  <2>1. CASE Begin(q)
    BY <2>1, BeginGoes DEF OneAsked
  <2>2. CASE ~Begin(q)
    BY <2>2, BegunStays DEF HInv, OneAsked, SameAsked
  <2> QED BY <2>1, <2>2
<1> QED BY <1>1, OthersKept DEF HInv, OneAsked, Role, List

(* Who reads while another works makes the case contended. *)
LEMMA AloneStep ==
  ASSUME TInv, HInv, NEW q \in Requests, Aside(q) \/ Unassign(q) \/ Create(q)
  PROVE  contended \subseteq contended' /\ \A c \in Uncontended' : AloneIn(c)'
<1>1. contended \subseteq contended'
  BY DEF Aside, Begin, Read, Reread, Record, Announce, Members, Return, Fails, Unassign,
         Create, history, Notice
<1>2. ASSUME NEW c \in Uncontended', NEW p \in Requests, Working(p, c)', p # q
      PROVE  ~Working(q, c)'
  <2>1. c \in Uncontended /\ AloneIn(c)
    BY <1>1, <1>2 DEF Uncontended, HInv
  <2>2. Working(p, c)
    BY <1>2, OthersKept DEF Working, At
  <2>3. ~Working(q, c)
    BY <2>1, <2>2, <1>2 DEF AloneIn
  <2>4. Read(q) => c # At(q)
    BY <2>2, <1>2, <2>1 DEF Read, Notice, Uncontended
  <2> QED BY <2>3, <2>4, WorkingStays
<1>3. ASSUME NEW c \in Uncontended', NEW p \in Requests, NEW r \in Requests,
             Working(p, c)', Working(r, c)'
      PROVE  p = r
  <2>1. CASE p = q \/ r = q
    BY <1>2, <1>3, <2>1
  <2>2. CASE p # q /\ r # q
    <3>1. Working(p, c) /\ Working(r, c)
      BY <1>3, <2>2, OthersKept DEF Working, At
    <3>2. AloneIn(c)
      BY <1>1 DEF Uncontended, HInv
    <3> QED BY <3>1, <3>2 DEF AloneIn
  <2> QED BY <2>1, <2>2
<1> QED BY <1>1, <1>3 DEF AloneIn

(* What counts as listed goes on to. *)
LEMMA ListedStays ==
  ASSUME TInv, NEW q \in Requests, Aside(q) \/ Unassign(q) \/ Create(q),
         NEW c, NEW rho, NEW who, NEW n \in Nat, NEW m \in Nat, m <= n, Listed(n, c, rho, who)
  PROVE  Listed(m, c, rho, who)'
<1>1. CASE n <= TimesGiven(c, who, rho)
  BY <1>1, GivenCounts DEF Listed, TimesGiven
<1>2. CASE \E p \in Requests : /\ pc[p] # "idle" /\ Role(p) = rho /\ c \in Reach(p)
                               /\ n <= Cardinality(Places(p, who))
  <2>1. PICK p \in Requests : /\ pc[p] # "idle" /\ Role(p) = rho /\ c \in Reach(p)
                              /\ n <= Cardinality(Places(p, who))
    BY <1>2
  <2>2. /\ pc'[p] # "idle" /\ Role(p)' = Role(p) /\ Reach(p)' = Reach(p)
        /\ Places(p, who)' = Places(p, who)
    <3>1. CASE p = q
      BY <2>1, <3>1, BegunStays, BeginGoes DEF SameAsked, Places
    <3>2. CASE p # q
      BY <2>1, <3>2, OthersKept DEF Role, Reach, Places, List
    <3> QED BY <3>1, <3>2
  <2>3. m <= Cardinality(Places(p, who))
    BY <2>1, PlaceCounts
  <2> QED BY <2>1, <2>2, <2>3 DEF Listed
<1> QED BY <1>1, <1>2 DEF Listed

LEMMA HeldStep ==
  ASSUME TInv, TInv', PInv, HInv, NEW q \in Requests, Aside(q) \/ Unassign(q) \/ Create(q),
         NEW c \in Uncontended'
  PROVE  HeldWithin(c)'
<1>0. c \in Uncontended /\ c \in Cases /\ c \notin contended /\ HeldWithin(c)
  BY AloneStep DEF Uncontended, HInv
<1>1. CASE \A rho : ActiveIn(c, rho)' \subseteq ActiveIn(c, rho)
  <2>1. ASSUME NEW who \in Attorneys, NEW rho \in Roles
        PROVE  Listed(Cardinality(HeldBy(c, rho, who)), c, rho, who)'
    <3>1. HeldBy(c, rho, who)' \subseteq HeldBy(c, rho, who)
      BY <1>1 DEF HeldBy
    <3>2. PICK n, m : n = Cardinality(HeldBy(c, rho, who)) /\ m = Cardinality(HeldBy(c, rho, who)')
      OBVIOUS
    <3>3. n \in Nat /\ m \in Nat /\ m <= n
      BY <3>1, <3>2, HeldCounts
    <3>4. Listed(n, c, rho, who)
      BY <1>0, <3>2 DEF HeldWithin
    <3>5. Listed(m, c, rho, who)'
      BY <3>3, <3>4, ListedStays
    <3> QED BY <3>2, <3>5 DEF Listed
  <2> QED BY <1>0, <1>1, <2>1 DEF HeldWithin
<1>2. CASE Create(q) /\ c = At(q) /\ pc'[q] = "create"
  <2>1. PICK i \in request[q].add, new \in Assignments :
          /\ new.who = List(q)[i] /\ new.role = Role(q) /\ new \notin Existing(q)
          /\ Active(c)' = Active(c) \cup {new}
          /\ Existing(q)' = Existing(q) \cup {new}
    <3>1. At(q)' = At(q)
      BY <1>2, CreateGoes DEF SamePlace
    <3>2. Active(c)' = Active(At(q))'
      BY <1>2, <3>1 DEF Active
    <3> QED BY <1>2, <3>2, CreateAdds
  <2>2. PICK who : who = List(q)[i]
    OBVIOUS
  <2>3. PICK n : n = Cardinality(HeldBy(c, Role(q), who))
    OBVIOUS
  <2>4. n \in Nat /\ n + 1 <= Cardinality(Places(q, who)) /\ request[q].drop = {}
        /\ \A a \in Existing(q) : a.who \in Names(q)
    <3>1. PlanHolds(q) /\ pc[q] = "create"
      BY <1>0, <1>2, CreateGoes DEF HInv, Planned
    <3>2. i \in ToCome(q, who) /\ Cardinality(ToCome(q, who)) \in Nat
          /\ IsFiniteSet(ToCome(q, who)) /\ ToCome(q, who) # {}
      BY <2>2, PlaceCounts DEF ToCome
    <3>3. Cardinality(ToCome(q, who)) # 0
      BY <3>2, FS_EmptySet
    <3>4. n + Cardinality(ToCome(q, who)) <= Cardinality(Places(q, who))
      BY <1>2, <2>2, <2>3, <3>1 DEF PlanHolds
    <3> QED BY <2>3, <3>1, <3>2, <3>3, <3>4, HeldCounts, PlaceCounts DEF PlanHolds
  <2>5. ASSUME NEW w \in Attorneys, NEW rho \in Roles
        PROVE  Listed(Cardinality(HeldBy(c, rho, w)), c, rho, w)'
    <3>1. CASE w = who /\ rho = Role(q)
      <4>1. HeldBy(c, rho, w)' = HeldBy(c, rho, w) \cup {new}
        BY <2>1, <2>2, <3>1 DEF HeldBy, ActiveIn
      <4>2. new \notin HeldBy(c, rho, w)
        BY <1>2, <2>1, <3>1 DEF HeldBy, Existing
      <4>3. Cardinality(HeldBy(c, rho, w)') = n + 1
        BY <2>3, <3>1, <4>1, <4>2, HeldCounts, FS_AddElement
      <4>4. /\ pc'[q] # "idle" /\ Role(q)' = rho /\ c \in Reach(q)'
            /\ Places(q, w)' = Places(q, w)
        BY <1>2, <3>1, CreateGoes DEF SamePlace, SameAsked, Places, PInv, Route
      <4> QED BY <2>4, <3>1, <4>3, <4>4 DEF Listed
    <3>2. CASE ~(w = who /\ rho = Role(q))
      <4>1. HeldBy(c, rho, w)' = HeldBy(c, rho, w)
        BY <2>1, <2>2, <3>2 DEF HeldBy, ActiveIn
      <4>2. PICK m : m = Cardinality(HeldBy(c, rho, w))
        OBVIOUS
      <4>3. m \in Nat /\ m <= m /\ Listed(m, c, rho, w)
        BY <1>0, <4>2, HeldCounts DEF HeldWithin
      <4>4. Listed(m, c, rho, w)'
        BY <4>3, ListedStays
      <4> QED BY <4>1, <4>2, <4>4 DEF Listed
    <3> QED BY <3>1, <3>2
  <2>6. \A a, b \in ActiveIn(c, Lead)' : a = b
    <3>1. CASE Role(q) # Lead
      <4>1. ActiveIn(c, Lead)' = ActiveIn(c, Lead)
        BY <2>1, <3>1 DEF ActiveIn
      <4> QED BY <1>0, <4>1 DEF HeldWithin
    <3>2. CASE Role(q) = Lead
      <4>1. Len(List(q)) \in Nat /\ Len(List(q)) <= 1 /\ n = 0
        <5>1. Len(List(q)) <= 1
          BY <1>2, <3>2, CreateGoes DEF HInv, OneAsked
        <5> QED BY <2>4, <5>1, ListTyped, PlaceCounts
      <4>2. \A m \in Names(q) : m = who
        <5>1. DOMAIN List(q) = 1..Len(List(q)) /\ i \in DOMAIN List(q)
          BY ListTyped DEF TInv, AddsListed
        <5>2. \A j \in DOMAIN List(q) : j = i
          BY <4>1, <5>1
        <5> QED BY <2>2, <5>2 DEF Names
      <4>3. HeldBy(c, Role(q), who) = {}
        BY <2>3, <4>1, HeldCounts, FS_EmptySet
      <4>4. ActiveIn(c, Lead) = {}
        BY <1>2, <2>4, <3>2, <4>2, <4>3 DEF HeldBy, Existing
      <4>5. ActiveIn(c, Lead)' \subseteq ActiveIn(c, Lead) \cup {new}
        BY <2>1 DEF ActiveIn
      <4> QED BY <4>4, <4>5
    <3> QED BY <3>1, <3>2
  <2> QED BY <2>5, <2>6 DEF HeldWithin
<1>3. CASE ~(Create(q) /\ c = At(q) /\ pc'[q] = "create")
  <2>1. CASE Aside(q) \/ c # At(q)
    BY <1>1, <2>1, WritesHere
  <2>2. CASE Create(q) /\ c = At(q)
    <3>1. assignments' = assignments
      BY <1>3, <2>2, CreateAdds
    <3> QED BY <1>1, <3>1 DEF ActiveIn, Active
  <2>3. CASE Unassign(q)
    <3>1. \A b \in assignments' : b.open => b \in assignments
      BY <2>3, UnassignStore
    <3> QED BY <1>1, <3>1 DEF ActiveIn, Active
  <2> QED BY <2>1, <2>2, <2>3
<1> QED BY <1>2, <1>3

(* The plan of a request holds on, whatever the others do. *)
LEMMA PlannedOther ==
  ASSUME TInv, TInv', PInv, HInv, NEW q \in Requests, Aside(q) \/ Unassign(q) \/ Create(q),
         NEW p \in Requests, p # q
  PROVE  Planned(p)'
<1>1. pc'[p] = pc[p] /\ request'[p] = request[p]
  BY OthersKept
<1>2. SUFFICES ASSUME pc[p] \in {"unassign", "create"}, At(p) \notin contended
               PROVE  PlanHolds(p)'
  BY <1>1, AloneStep DEF Planned, At
<1>3. PlanHolds(p)
  BY <1>2 DEF HInv, Planned
<1>4. At(p) = At(q) => ~Working(q, At(q))
  BY <1>2, RequestTyped DEF HInv, AloneIn, Working, Uncontended
<1>5. Aside(q) \/ At(p) # At(q)
  BY <1>4 DEF Unassign, Create, Working
<1>6. ActiveIn(At(p), Role(p))' = ActiveIn(At(p), Role(p))
  <2>1. At(p)' = At(p) /\ Role(p)' = Role(p)
    BY <1>1 DEF At, Role
  <2> QED BY <1>5, <2>1, WritesHere DEF ActiveIn, Active
<1>7. /\ Existing(p)' = Existing(p)
      /\ \A who : HeldBy(At(p), Role(p), who)' = HeldBy(At(p), Role(p), who)
  BY <1>6 DEF Existing, HeldBy
<1>8. /\ Names(p)' = Names(p) /\ List(p)' = List(p)
      /\ \A who : Places(p, who)' = Places(p, who) /\ ToCome(p, who)' = ToCome(p, who)
  BY <1>1 DEF Names, List, Places, ToCome
<1> QED BY <1>1, <1>3, <1>7, <1>8 DEF PlanHolds

LEMMA PlannedSelf ==
  ASSUME TInv, TInv', PInv, HInv, NEW q \in Requests, Aside(q) \/ Unassign(q) \/ Create(q)
  PROVE  Planned(q)'
<1>1. SUFFICES ASSUME At(q)' \notin contended, pc'[q] \in {"unassign", "create"}
               PROVE  PlanHolds(q)'
  BY AloneStep DEF Planned
<1>2. CASE Read(q)
  <2>1. /\ At(q)' = At(q) /\ Role(q)' = Role(q) /\ Names(q)' = Names(q) /\ List(q)' = List(q)
        /\ pc'[q] = "unassign" /\ assignments' = assignments
    BY <1>2, ReadGoes DEF SamePlace, SameAsked, store
  <2>2. Existing(q)' = Existing(q)
    BY <2>1 DEF Existing, ActiveIn, Active
  <2>3. /\ request'[q].drop = {a \in Existing(q) : a.who \notin Names(q)}
        /\ request'[q].add =
             {i \in DOMAIN List(q) : \A a \in Existing(q) : a.who # List(q)[i]}
    BY <1>2, ReadGoes
  <2>4. ASSUME NEW i \in request'[q].add, NEW who, who = List(q)'[i]
        PROVE  Cardinality(HeldBy(At(q), Role(q), who)') + Cardinality(ToCome(q, who)')
                 <= Cardinality(Places(q, who)')
    <3>1. HeldBy(At(q), Role(q), who)' = {}
      BY <2>1, <2>2, <2>3, <2>4 DEF HeldBy, Existing
    <3>2. Cardinality(HeldBy(At(q), Role(q), who)') = 0
      BY <3>1, FS_EmptySet
    <3>3. /\ Cardinality(ToCome(q, who)') \in Nat /\ Cardinality(Places(q, who)') \in Nat
          /\ Cardinality(ToCome(q, who)') <= Cardinality(Places(q, who)')
      <4>1. Places(q, who)' = Places(q, who)
        BY <2>1 DEF Places
      <4>2. ToCome(q, who)' \subseteq Places(q, who)
        BY <2>1, <2>3 DEF ToCome, Places
      <4> QED BY <4>1, <4>2, PlaceCounts, FS_Subset, FS_CardinalityType
    <3> QED BY <3>2, <3>3
  <2> QED BY <2>1, <2>2, <2>3, <2>4 DEF PlanHolds
<1>3. CASE Unassign(q)
  <2>1. /\ At(q)' = At(q) /\ Role(q)' = Role(q) /\ Names(q)' = Names(q) /\ List(q)' = List(q)
        /\ pc[q] = "unassign" /\ request'[q].add = request[q].add
    BY <1>3, UnassignGoes DEF SamePlace, SameAsked
  <2>2. PlanHolds(q)
    BY <1>1, <2>1, AloneStep DEF HInv, Planned
  <2>3. /\ \A a \in Existing(q)' : a.who \in Names(q)' \/ a \in request'[q].drop
        /\ pc'[q] = "create" => request'[q].drop = {}
        /\ Existing(q)' \subseteq Existing(q)
    BY <1>3, <2>1, <2>2, UnassignEnds DEF PlanHolds
  <2>4. ASSUME NEW i \in request'[q].add, NEW who, who = List(q)'[i]
        PROVE  Cardinality(HeldBy(At(q), Role(q), who)') + Cardinality(ToCome(q, who)')
                 <= Cardinality(Places(q, who)')
    <3>1. HeldBy(At(q), Role(q), who)' \subseteq HeldBy(At(q), Role(q), who)
      BY <2>1, <2>3 DEF HeldBy, Existing
    <3>2. ToCome(q, who)' = ToCome(q, who) /\ Places(q, who)' = Places(q, who)
      BY <2>1 DEF ToCome, Places
    <3>3. Cardinality(HeldBy(At(q), Role(q), who)) + Cardinality(ToCome(q, who))
            <= Cardinality(Places(q, who))
      BY <2>1, <2>2, <2>4 DEF PlanHolds
    <3>4. /\ Cardinality(HeldBy(At(q), Role(q), who)) \in Nat
          /\ Cardinality(HeldBy(At(q), Role(q), who)') \in Nat
          /\ Cardinality(HeldBy(At(q), Role(q), who)')
               <= Cardinality(HeldBy(At(q), Role(q), who))
      BY <3>1, HeldCounts
    <3>5. Cardinality(ToCome(q, who)) \in Nat /\ Cardinality(Places(q, who)) \in Nat
      BY PlaceCounts
    <3> QED BY <3>2, <3>3, <3>4, <3>5
  <2> QED BY <2>3, <2>4 DEF PlanHolds
<1>4. CASE Create(q)
  <2>1. /\ At(q)' = At(q) /\ Role(q)' = Role(q) /\ Names(q)' = Names(q) /\ List(q)' = List(q)
        /\ pc[q] = "create" /\ request'[q].drop = request[q].drop /\ pc'[q] = "create"
    BY <1>1, <1>4, CreateGoes DEF SamePlace, SameAsked
  <2>2. PlanHolds(q) /\ request[q].drop = {}
    BY <1>1, <2>1, AloneStep DEF HInv, Planned, PlanHolds
  <2>3. PICK i \in request[q].add, new \in Assignments :
          /\ new.who = List(q)[i] /\ new \notin Existing(q)
          /\ request'[q].add = request[q].add \ {i}
          /\ Existing(q)' = Existing(q) \cup {new}
    BY <1>4, <2>1, CreateAdds
  <2>4. new.who \in Names(q)
    BY <2>3, ListTyped DEF TInv, AddsListed
  <2>5. ASSUME NEW j \in request'[q].add, NEW who, who = List(q)'[j]
        PROVE  Cardinality(HeldBy(At(q), Role(q), who)') + Cardinality(ToCome(q, who)')
                 <= Cardinality(Places(q, who)')
    <3>1. Places(q, who)' = Places(q, who)
      BY <2>1 DEF Places
    <3>2. Cardinality(HeldBy(At(q), Role(q), who)) + Cardinality(ToCome(q, who))
            <= Cardinality(Places(q, who))
      BY <2>1, <2>2, <2>3, <2>5 DEF PlanHolds
    <3>3. CASE List(q)[i] = who
      <4>1. HeldBy(At(q), Role(q), who)' = HeldBy(At(q), Role(q), who) \cup {new}
        BY <2>1, <2>3, <3>3 DEF HeldBy, Existing
      <4>2. new \notin HeldBy(At(q), Role(q), who)
        BY <2>3 DEF HeldBy, Existing
      <4>3. Cardinality(HeldBy(At(q), Role(q), who)')
              = Cardinality(HeldBy(At(q), Role(q), who)) + 1
        BY <4>1, <4>2, HeldCounts, FS_AddElement
      <4>4. ToCome(q, who)' = ToCome(q, who) \ {i} /\ i \in ToCome(q, who)
        BY <2>1, <2>3, <3>3 DEF ToCome
      <4>5. Cardinality(ToCome(q, who)') = Cardinality(ToCome(q, who)) - 1
        BY <4>4, PlaceCounts, FS_RemoveElement
      <4> QED BY <3>1, <3>2, <4>3, <4>5, HeldCounts, PlaceCounts
    <3>4. CASE List(q)[i] # who
      <4>1. HeldBy(At(q), Role(q), who)' = HeldBy(At(q), Role(q), who)
        BY <2>1, <2>3, <3>4 DEF HeldBy, Existing
      <4>2. ToCome(q, who)' = ToCome(q, who)
        BY <2>1, <2>3, <3>4 DEF ToCome
      <4> QED BY <3>1, <3>2, <4>1, <4>2
    <3> QED BY <3>3, <3>4
  <2> QED BY <2>1, <2>2, <2>3, <2>4, <2>5 DEF PlanHolds
<1>5. CASE ~Read(q) /\ ~Unassign(q) /\ ~Create(q)
  BY <1>1, <1>5, BeginGoes, MembersGoes
     DEF Aside, Reread, Record, Announce, Return, Fails, Goto, TInv, RequestsTyped
<1> QED BY <1>2, <1>3, <1>4, <1>5

LEMMA HeldNext == TInv /\ TInv' /\ PInv /\ HInv /\ [Next]_vars => HInv'
<1> SUFFICES ASSUME TInv, TInv', PInv, HInv, [Next]_vars PROVE HInv'
  OBVIOUS
<1>1. CASE UNCHANGED vars
  <2>1. \A q \in Requests : /\ Existing(q)' = Existing(q) /\ List(q)' = List(q)
                            /\ Names(q)' = Names(q) /\ Reach(q)' = Reach(q)
                            /\ At(q)' = At(q) /\ Role(q)' = Role(q)
    BY <1>1 DEF vars, store, Existing, ActiveIn, Active, List, Names, Reach, At, Role
  <2>2. \A c, rho, who : HeldBy(c, rho, who)' = HeldBy(c, rho, who)
    BY <1>1 DEF vars, store, HeldBy, ActiveIn, Active
  <2>3. \A q \in Requests : \A who : /\ Places(q, who)' = Places(q, who)
                                      /\ ToCome(q, who)' = ToCome(q, who)
    BY <1>1 DEF vars, Places, ToCome, List
  <2>4. \A q \in Requests : OneAsked(q)' /\ Planned(q)'
    BY <1>1, <2>1, <2>2, <2>3 DEF vars, history, HInv, OneAsked, Planned, PlanHolds
  <2>5. ASSUME NEW c \in Uncontended' PROVE AloneIn(c)' /\ HeldWithin(c)'
    <3>1. c \in Uncontended
      BY <1>1 DEF vars, history, Uncontended
    <3>2. AloneIn(c)'
      BY <1>1, <2>1, <3>1 DEF vars, HInv, AloneIn, Working
    <3>3. \A a, b \in ActiveIn(c, Lead)' : a = b
      BY <1>1, <3>1 DEF vars, store, HInv, HeldWithin, ActiveIn, Active
    <3>4. \A who, rho, n : Listed(n, c, rho, who) => Listed(n, c, rho, who)'
      BY <1>1, <2>1, <2>3 DEF vars, Listed, TimesGiven
    <3> QED BY <2>2, <3>1, <3>2, <3>3, <3>4 DEF HInv, HeldWithin
  <2> QED BY <2>4, <2>5 DEF HInv
<1>2. ASSUME NEW q \in Requests, Aside(q) \/ Unassign(q) \/ Create(q) PROVE HInv'
  <2>1. \A p \in Requests : Planned(p)'
    BY <1>2, PlannedSelf, PlannedOther
  <2> QED BY <1>2, <2>1, AloneStep, HeldStep, OneAskedStep DEF HInv
<1> QED BY <1>1, <1>2, StepCases

LEMMA HeldAlways == Spec => []HInv
<1> QED BY HeldInit, HeldNext, TypesHold, PlaceAlways, PTL DEF Spec

(* Unless requests overlap on the case, nobody holds a role of it more     *)
(* often than at first, or than one list of a request names him, whatever  *)
(* failed before.                                                          *)
THEOREM RoleHeldAsListed == Spec => []HeldAsListed
<1>1. ASSUME HInv, NEW c \in Uncontended, NEW who \in Attorneys, NEW rho \in Roles
      PROVE  Listed(Cardinality({a \in ActiveIn(c, rho) : a.who = who}), c, rho, who)
  BY <1>1 DEF HInv, HeldWithin, HeldBy
<1>2. HInv => HeldAsListed
  BY <1>1 DEF HeldAsListed, Listed, TimesListed, Places
<1> QED BY <1>2, HeldAlways, PTL

(* Unless requests overlap on the case, it has one lead. *)
THEOREM LeadHeldOnce == Spec => []OneLead
<1>1. HInv => OneLead
  BY DEF HInv, HeldWithin, OneLead
<1> QED BY <1>1, HeldAlways, PTL

-----------------------------------------------------------------------------
(* AuditTells: what a request read again is what it records, if nobody     *)
(* else works on the case.                                                 *)

AfterRead(c) == \A q \in Requests :
  Working(q, c) /\ pc[q] = "record" => request[q].after = Active(c)

EntryTells(c) ==
  c \notin broken /\ (\A q \in Requests : ~Working(q, c)) => audit[c].after = Active(c)

AInv == \A c \in Uncontended : AfterRead(c) /\ EntryTells(c)

LEMMA AuditStep ==
  ASSUME TInv, PInv, HInv, AInv, NEW q \in Requests, Aside(q) \/ Unassign(q) \/ Create(q),
         NEW c \in Uncontended'
  PROVE  AfterRead(c)' /\ EntryTells(c)'
<1>0. /\ request \in [Requests -> RequestType] /\ request[q] \in RequestType
      /\ pc \in [Requests -> Labels] /\ audit \in [Cases -> Entries]
      /\ c \in Cases
  BY DEF TInv, RequestsTyped, OutputTyped, Uncontended
<1>1. AloneIn(c) /\ AfterRead(c) /\ EntryTells(c)
  BY AloneStep DEF Uncontended, HInv, AInv
<1>2. \A p \in Requests : p # q =>
        pc'[p] = pc[p] /\ request'[p] = request[p] /\ (Working(p, c)' <=> Working(p, c))
  BY OthersKept DEF Working, At
<1>3. CASE (Unassign(q) \/ Create(q)) /\ c = At(q)
  <2>1. At(q)' = At(q) /\ Working(q, c)
    BY <1>3, UnassignGoes, CreateGoes DEF SamePlace, Working
  <2>2. pc'[q] \in {"unassign", "create", "reread"}
    BY <1>0, <1>3 DEF Unassign, Create, Goto
  <2>3. Working(q, c)'
    BY <1>3, <2>1, <2>2 DEF Working
  <2>4. \A p \in Requests : Working(p, c)' => p = q
    BY <1>1, <1>2, <2>1 DEF AloneIn
  <2> QED BY <2>2, <2>3, <2>4 DEF AfterRead, EntryTells
<1>4. CASE Aside(q) \/ c # At(q)
  <2>1. Active(c)' = Active(c)
    BY <1>4, WritesHere
  <2>2. ASSUME Working(q, c)', pc'[q] = "record" PROVE request'[q].after = Active(c)
    <3>1. Reread(q)
      BY <1>0, <2>2 DEF Aside, Begin, Read, Record, Announce, Members, Return, Fails,
         Unassign, Create, Goto
    <3>2. At(q)' = At(q)
      BY <3>1, QuietGoes DEF SamePlace
    <3>3. request'[q].after = Active(At(q))
      BY <1>0, <3>1 DEF Reread, RequestType
    <3> QED BY <2>2, <3>2, <3>3 DEF Working
  <2>3. AfterRead(c)'
    BY <1>1, <1>2, <2>1, <2>2 DEF AfterRead
  <2>4. ASSUME c \notin broken', \A p \in Requests : ~Working(p, c)'
        PROVE  audit'[c].after = Active(c)
    <3>1. CASE Record(q) /\ At(q) = c
      <4>1. request[q].after = Active(c)
        BY <1>1, <3>1 DEF Record, Working, AfterRead
      <4>2. audit'[c] = [before |-> request[q].existing, after |-> request[q].after]
        BY <1>0, <3>1 DEF Record
      <4> QED BY <4>1, <4>2
    <3>2. CASE ~(Record(q) /\ At(q) = c)
      <4>1. audit'[c] = audit[c] /\ c \notin broken
        <5>1. CASE Record(q)
          <6>1. audit'[c] = audit[c]
            BY <1>0, <3>2, <5>1 DEF Record
          <6> QED BY <2>4, <3>2, <5>1, <6>1 DEF Record
        <5>2. CASE ~Record(q)
          BY <2>4, <5>2 DEF Aside, Begin, Read, Reread, Announce, Members, Return, Fails,
             Unassign, Create, history
        <5> QED BY <5>1, <5>2
      <4>2. ~Working(q, c)
        <5> SUFFICES ASSUME Working(q, c) PROVE FALSE
          OBVIOUS
        <5>1. At(q) = c /\ pc[q] \in {"unassign", "create", "reread", "record"}
          BY DEF Working
        <5>2. Reread(q) \/ \E kind \in FaultKinds : Fails(q, kind)
          BY <1>4, <3>2, <5>1 DEF Aside, Begin, Read, Announce, Members, Return
        <5>3. ~\E kind \in FaultKinds : Fails(q, kind)
          BY <2>4, <5>1 DEF Fails
        <5>4. At(q)' = At(q) /\ pc'[q] = "record"
          BY <1>0, <5>2, <5>3, QuietGoes DEF Reread, SamePlace, Goto
        <5> QED BY <2>4, <5>1, <5>4 DEF Working
      <4> QED BY <1>1, <1>2, <2>4, <4>1, <4>2 DEF EntryTells
    <3> QED BY <3>1, <3>2
  <2> QED BY <2>1, <2>3, <2>4 DEF EntryTells
<1> QED BY <1>3, <1>4

LEMMA AuditAlways == Spec => []AInv
<1>1. Init => AInv
  <2> SUFFICES ASSUME Init PROVE AInv
    OBVIOUS
  <2>1. /\ \A q \in Requests : pc[q] = "idle"
        /\ \A c \in Cases : audit[c].after = Active(c)
    BY DEF Init
  <2> QED BY <2>1 DEF AInv, AfterRead, EntryTells, Working, Uncontended
<1>2. ASSUME TInv, PInv, HInv, AInv, [Next]_vars PROVE AInv'
  <2>1. CASE UNCHANGED vars
    BY <1>2, <2>1 DEF vars, store, history, AInv, Uncontended, AfterRead,
       EntryTells, Working, Active, At
  <2>2. ASSUME NEW q \in Requests, Aside(q) \/ Unassign(q) \/ Create(q) PROVE AInv'
    BY <1>2, <2>2, AuditStep DEF AInv
  <2> QED BY <1>2, <2>1, <2>2, StepCases
<1> QED BY <1>1, <1>2, TypesHold, PlaceAlways, HeldAlways, PTL DEF Spec

(* On a case on which no two requests overlapped and none broke off since  *)
(* the last audit entry, that entry tells who is assigned while nobody     *)
(* works on it.                                                            *)
THEOREM AuditIsTold == Spec => []AuditTells
<1>1. AInv => AuditTells
  BY DEF AInv, EntryTells, AuditTells, Uncontended
<1> QED BY <1>1, AuditAlways, PTL

-----------------------------------------------------------------------------
(* The last word stands: of every case a request has come to, it either    *)
(* was overruled there, or the assignees are those of its list, or what is *)
(* missing to that is what it is about to write.                           *)

Whole(q, c) == {a.who : a \in ActiveIn(c, Role(q))} = Names(q)

Covers(q) ==
  /\ \A i \in DOMAIN List(q) :
       \/ \E j \in request[q].add : List(q)[j] = List(q)[i]
       \/ \E a \in Existing(q) : a.who = List(q)[i]
  /\ \A a \in request[q].drop : a.who \notin Names(q)
  /\ \A a \in Existing(q) : a.who \in Names(q) \/ a \in request[q].drop
  /\ pc[q] = "create" => request[q].drop = {}

Writing(q, c) == pc[q] \in {"unassign", "create"} /\ c = At(q)

(* The cases a request has read, or given up. *)
Seen(q) ==
  IF pc[q] \in {"return", "done"} THEN Reach(q)
  ELSE {c \in Reach(q) : c \notin Left(q) /\ (pc[q] = "read" => c # At(q))}

Alone(q, c) == \A p \in Rivals(q) : ~Working(p, c)

Stands(q, c) ==
  \/ <<q, c>> \in overruled
  \/ /\ Alone(q, c)
     /\ Writing(q, c) => Covers(q)
     /\ ~Writing(q, c) => Whole(q, c)

LInv == \A q \in Requests : pc[q] # "idle" => \A c \in Seen(q) : Stands(q, c)

LEMMA OverruledStays ==
  ASSUME TInv, NEW q \in Requests, Aside(q) \/ Unassign(q) \/ Create(q),
         NEW p \in Requests, NEW c, <<p, c>> \in overruled
  PROVE  <<p, c>> \in overruled' \/ (Read(q) /\ p = q /\ c = At(q))
<1>1. CASE Read(q)
  BY <1>1, ReadGoes DEF Notice
<1>2. CASE \E kind \in FaultKinds : Fails(q, kind)
  BY <1>2 DEF Fails
<1>3. CASE ~Read(q) /\ ~\E kind \in FaultKinds : Fails(q, kind)
  BY <1>3 DEF Aside, Begin, Reread, Record, Announce, Members, Return, Unassign, Create,
              history
<1> QED BY <1>1, <1>2, <1>3

(* A request's own step leaves the others out. *)
LEMMA AloneSelf ==
  ASSUME TInv, NEW q \in Requests, Aside(q) \/ Unassign(q) \/ Create(q), ~Begin(q),
         NEW c, Alone(q, c)
  PROVE  Alone(q, c)'
<1>1. Role(q)' = Role(q)
  BY BegunStays DEF SameAsked
<1>2. \A p \in Requests \ {q} : pc'[p] = pc[p] /\ request'[p] = request[p]
  BY OthersKept
<1> QED BY <1>1, <1>2 DEF Alone, Rivals, Working, Role, At

LEMMA CoversRead ==
  ASSUME TInv, NEW q \in Requests, Read(q)
  PROVE  Covers(q)'
<1>1. /\ At(q)' = At(q) /\ Role(q)' = Role(q) /\ Names(q)' = Names(q) /\ List(q)' = List(q)
      /\ pc'[q] = "unassign" /\ assignments' = assignments
  BY ReadGoes DEF SamePlace, SameAsked, store
<1>2. Existing(q)' = Existing(q)
  BY <1>1 DEF Existing, ActiveIn, Active
<1>3. /\ request'[q].drop = {a \in Existing(q) : a.who \notin Names(q)}
      /\ request'[q].add =
           {i \in DOMAIN List(q) : \A a \in Existing(q) : a.who # List(q)[i]}
  BY ReadGoes
<1> QED BY <1>1, <1>2, <1>3 DEF Covers

LEMMA CoversUnassign ==
  ASSUME TInv, NEW q \in Requests, Unassign(q), Covers(q)
  PROVE  Covers(q)'
<1>1. /\ At(q)' = At(q) /\ Role(q)' = Role(q) /\ Names(q)' = Names(q) /\ List(q)' = List(q)
      /\ request'[q].add = request[q].add
  BY UnassignGoes DEF SamePlace, SameAsked
<1>2. ASSUME NEW i \in DOMAIN List(q), NEW a \in request[q].drop PROVE a.who # List(q)[i]
  BY ListTyped DEF Covers
<1> QED BY <1>1, <1>2, UnassignEnds DEF Covers

LEMMA CoversCreate ==
  ASSUME TInv, NEW q \in Requests, Create(q), Covers(q)
  PROVE  /\ pc'[q] = "create" => Covers(q)'
         /\ pc'[q] = "reread" => Whole(q, At(q))'
<1>1. /\ At(q)' = At(q) /\ Role(q)' = Role(q) /\ Names(q)' = Names(q) /\ List(q)' = List(q)
      /\ request'[q].drop = request[q].drop /\ request[q].drop = {}
  BY CreateGoes DEF SamePlace, SameAsked, Covers
<1>2. CASE pc'[q] = "reread"
  <2>1. request[q].add = {} /\ Existing(q)' = Existing(q)
    BY <1>2, CreateAdds
  <2>2. {a.who : a \in Existing(q)} = Names(q)
    BY <1>1, <2>1 DEF Covers, Names
  <2> QED BY <1>1, <1>2, <2>1, <2>2 DEF Whole, Existing
<1>3. CASE pc'[q] = "create"
  <2>1. PICK i \in request[q].add, new \in Assignments :
          /\ new.who = List(q)[i] /\ request'[q].add = request[q].add \ {i}
          /\ Existing(q)' = Existing(q) \cup {new}
    BY <1>3, CreateAdds
  <2>2. new.who \in Names(q)
    BY <2>1, ListTyped DEF TInv, AddsListed
  <2>3. ASSUME NEW j \in DOMAIN List(q)
        PROVE  \/ \E k \in request'[q].add : List(q)[k] = List(q)[j]
               \/ \E a \in Existing(q)' : a.who = List(q)[j]
    <3>1. CASE \E k \in request[q].add : List(q)[k] = List(q)[j]
      <4>1. PICK k \in request[q].add : List(q)[k] = List(q)[j]
        BY <3>1
      <4> QED BY <2>1, <4>1
    <3>2. CASE \E a \in Existing(q) : a.who = List(q)[j]
      BY <2>1, <3>2
    <3> QED BY <3>1, <3>2 DEF Covers
  <2> QED BY <1>1, <1>3, <2>1, <2>2, <2>3 DEF Covers
<1> QED BY <1>2, <1>3

(* The step of the request itself. *)
LEMMA StandsSelf ==
  ASSUME TInv, PInv, LInv, NEW q \in Requests, Aside(q) \/ Unassign(q) \/ Create(q),
         NEW c \in Seen(q)'
  PROVE  Stands(q, c)'
<1>1. ~Begin(q)
  <2> SUFFICES ASSUME Begin(q) PROVE FALSE
    OBVIOUS
  <2>1. At(q)' = request'[q].asked.case /\ request'[q].lead /\ pc'[q] = "read"
    BY BeginGoes DEF PInv, Route
  <2> QED BY <2>1 DEF Seen, Reach, Left
<1>2. /\ pc[q] # "idle" /\ Role(q)' = Role(q) /\ Names(q)' = Names(q)
      /\ Reach(q)' = Reach(q) /\ c \in Reach(q)
  BY <1>1, BegunStays DEF SameAsked, Seen
<1>3. CASE Read(q)
  <2>1. At(q)' = At(q) /\ Left(q)' = Left(q) /\ pc[q] = "read" /\ pc'[q] = "unassign"
    BY <1>3, ReadGoes DEF SamePlace
  <2>2. CASE c = At(q)
    <3>1. CASE \E p \in Rivals(q) : Working(p, c)
      BY <1>3, <2>2, <3>1, ReadGoes DEF Notice, Stands
    <3>2. CASE ~\E p \in Rivals(q) : Working(p, c)
      <4>1. Alone(q, c)'
        BY <1>1, <3>2, AloneSelf DEF Alone
      <4>2. Writing(q, c)' /\ Covers(q)'
        BY <1>3, <2>1, <2>2, CoversRead DEF Writing
      <4> QED BY <4>1, <4>2 DEF Stands
    <3> QED BY <3>1, <3>2
  <2>3. CASE c # At(q)
    <3>1. c \in Seen(q) /\ Stands(q, c)
      BY <1>2, <2>1, <2>3 DEF Seen, LInv
    <3>2. CASE <<q, c>> \in overruled
      BY <2>3, <3>2, OverruledStays DEF Stands
    <3>3. CASE Alone(q, c) /\ Whole(q, c)
      <4>1. Alone(q, c)' /\ Whole(q, c)' /\ ~Writing(q, c)'
        BY <1>1, <1>2, <1>3, <2>1, <2>3, <3>3, AloneSelf, WritesHere
           DEF Aside, Whole, Writing
      <4> QED BY <4>1 DEF Stands
    <3> QED BY <2>3, <3>1, <3>2, <3>3 DEF Stands, Writing
  <2> QED BY <2>2, <2>3
<1>4. CASE Unassign(q) \/ Create(q)
  <2>1. /\ At(q)' = At(q) /\ Left(q)' = Left(q)
        /\ pc[q] \in {"unassign", "create"} /\ pc'[q] \in {"unassign", "create", "reread"}
    BY <1>4, UnassignGoes, CreateGoes DEF SamePlace
  <2>2. c \in Seen(q) /\ Stands(q, c)
    BY <1>2, <2>1 DEF Seen, LInv
  <2>3. CASE <<q, c>> \in overruled
    BY <1>4, <2>1, <2>3, OverruledStays DEF Stands, Read
  <2>4. CASE c = At(q) /\ Alone(q, c) /\ Covers(q)
    <3>1. Alone(q, c)'
      BY <1>1, <2>4, AloneSelf
    <3>2. /\ Writing(q, c)' => Covers(q)'
          /\ ~Writing(q, c)' => Whole(q, c)'
      <4>1. Writing(q, c)' <=> pc'[q] # "reread"
        BY <2>1, <2>4 DEF Writing
      <4>2. CASE Unassign(q)
        <5>1. pc'[q] # "reread"
          BY <4>2, UnassignGoes
        <5> QED BY <2>4, <4>1, <4>2, <5>1, CoversUnassign
      <4>3. CASE Create(q)
        <5>1. pc'[q] \in {"create", "reread"}
          BY <4>3, CreateGoes
        <5>2. pc'[q] = "reread" => Whole(q, c)'
          <6>1. Whole(q, At(q))' => Whole(q, c)'
            BY <2>1, <2>4 DEF Whole
          <6> QED BY <2>4, <4>3, <6>1, CoversCreate
        <5> QED BY <2>4, <4>1, <4>3, <5>1, <5>2, CoversCreate
      <4> QED BY <1>4, <4>2, <4>3
    <3> QED BY <3>1, <3>2 DEF Stands
  <2>5. CASE c # At(q) /\ Alone(q, c) /\ Whole(q, c)
    <3>1. Alone(q, c)' /\ Whole(q, c)' /\ ~Writing(q, c)'
      BY <1>1, <1>2, <1>4, <2>1, <2>5, AloneSelf, WritesHere DEF Whole, Writing
    <3> QED BY <3>1 DEF Stands
  <2> QED BY <2>1, <2>2, <2>3, <2>4, <2>5 DEF Stands, Writing
<1>5. CASE \E kind \in FaultKinds : Fails(q, kind)
  <2>1. PICK kind \in FaultKinds : Fails(q, kind)
    BY <1>5
  <2>2. pc'[q] \in {"return", "done"} /\ pc[q] \notin {"return", "done"}
    BY <2>1 DEF Fails, Goto, TInv, RequestsTyped
  <2>3. CASE c = At(q) \/ c \in Left(q)
    BY <2>1, <2>3 DEF Fails, Stands
  <2>4. CASE c # At(q) /\ c \notin Left(q)
    <3>1. c \in Seen(q) /\ Stands(q, c)
      BY <1>2, <2>2, <2>4 DEF Seen, LInv
    <3>2. CASE <<q, c>> \in overruled
      BY <2>1, <3>2 DEF Fails, Stands
    <3>3. CASE Alone(q, c) /\ Whole(q, c)
      <4>1. Alone(q, c)' /\ Whole(q, c)' /\ ~Writing(q, c)'
        BY <1>1, <1>2, <1>5, <2>2, <3>3, AloneSelf, WritesHere DEF Aside, Whole, Writing
      <4> QED BY <4>1 DEF Stands
    <3> QED BY <2>4, <3>1, <3>2, <3>3 DEF Stands, Writing
  <2> QED BY <2>3, <2>4
<1>6. CASE Reread(q) \/ Record(q) \/ Announce(q) \/ Members(q) \/ Return(q)
  <2>1. /\ pc[q] \in {"reread", "record", "announce", "members", "return"}
        /\ pc'[q] \notin {"unassign", "create"} /\ c \in Seen(q)
    <3>1. CASE Members(q)
      <4>1. CASE Left(q) = {} /\ pc'[q] = "return"
        BY <1>2, <3>1, <4>1, MembersGoes DEF Seen
      <4>2. CASE pc'[q] = "read" /\ \E m \in Left(q) :
                   At(q)' = m /\ Left(q)' = Left(q) \ {m}
        BY <1>2, <3>1, <4>2, MembersGoes DEF Seen
      <4> QED BY <3>1, <4>1, <4>2, MembersGoes
    <3>2. CASE Return(q)
      BY <1>2, <3>2 DEF Return, Goto, TInv, RequestsTyped, Seen
    <3>3. CASE Reread(q) \/ Record(q) \/ Announce(q)
      <4>1. At(q)' = At(q) /\ Left(q)' = Left(q)
        BY <3>3, QuietGoes DEF SamePlace
      <4>2. /\ pc[q] \in {"reread", "record", "announce"}
            /\ pc'[q] \in {"record", "announce", "members"}
        BY <3>3 DEF Reread, Record, Announce, Goto, TInv, RequestsTyped
      <4> QED BY <1>2, <4>1, <4>2 DEF Seen
    <3> QED BY <1>6, <3>1, <3>2, <3>3
  <2>2. Stands(q, c)
    BY <1>2, <2>1 DEF LInv
  <2>3. CASE <<q, c>> \in overruled
    BY <1>6, <2>1, <2>3, OverruledStays DEF Stands, Read
  <2>4. CASE Alone(q, c) /\ Whole(q, c)
    <3>1. Alone(q, c)' /\ Whole(q, c)' /\ ~Writing(q, c)'
      BY <1>1, <1>2, <1>6, <2>1, <2>4, AloneSelf, WritesHere DEF Aside, Whole, Writing
    <3> QED BY <3>1 DEF Stands
  <2> QED BY <2>1, <2>2, <2>3, <2>4 DEF Stands, Writing
<1> QED BY <1>1, <1>3, <1>4, <1>5, <1>6 DEF Aside

(* The step of another: a rival that reads overrules the request there,    *)
(* and whoever else writes, writes elsewhere or in another role.           *)
LEMMA StandsOther ==
  ASSUME TInv, PInv, NEW q \in Requests, Aside(q) \/ Unassign(q) \/ Create(q),
         NEW p \in Requests, p # q, NEW c, Stands(p, c)
  PROVE  Stands(p, c)'
<1>0. pc'[p] = pc[p] /\ request'[p] = request[p]
  BY OthersKept
<1>1. /\ Role(p)' = Role(p) /\ At(p)' = At(p) /\ Names(p)' = Names(p) /\ List(p)' = List(p)
      /\ (Writing(p, c)' <=> Writing(p, c))
  BY <1>0 DEF Role, At, Names, List, Writing
<1>2. CASE <<p, c>> \in overruled
  BY <1>2, OverruledStays DEF Stands
<1>3. CASE <<p, c>> \notin overruled
  <2>1. Alone(p, c)
    BY <1>3 DEF Stands
  <2>2. CASE Read(q) /\ c = At(q) /\ Role(q) = Role(p)
    <3>1. p \in Rivals(q)
      BY <2>2 DEF Rivals
    <3> QED BY <2>2, <3>1, ReadGoes DEF Notice, Stands
  <2>3. CASE ~(Read(q) /\ c = At(q) /\ Role(q) = Role(p))
    <3>1. Alone(p, c)'
      <4> SUFFICES ASSUME NEW r \in Requests \ {p}, Role(r)' = Role(p), Working(r, c)'
                   PROVE  FALSE
        BY <1>1 DEF Alone, Rivals
      <4>1. CASE r # q
        <5>1. Role(r) = Role(p) /\ Working(r, c)
          BY <4>1, OthersKept DEF Role, Working, At
        <5> QED BY <2>1, <5>1 DEF Alone, Rivals
      <4>2. CASE r = q
        <5>1. ~Begin(q)
          BY <4>2, BeginGoes DEF Working
        <5>2. Role(q) = Role(p)
          BY <4>2, <5>1, BegunStays DEF SameAsked
        <5> QED BY <1>1, <2>1, <2>3, <4>2, <5>2, WorkingStays DEF Alone, Rivals
      <4> QED BY <4>1, <4>2
    <3>2. ActiveIn(c, Role(p))' = ActiveIn(c, Role(p))
      <4>1. Aside(q) \/ c # At(q) \/ Role(q) # Role(p)
        <5> SUFFICES ASSUME ~Aside(q), c = At(q), Role(q) = Role(p) PROVE FALSE
          OBVIOUS
        <5>1. Working(q, c)
          BY DEF Unassign, Create, Working
        <5> QED BY <2>1, <5>1 DEF Alone, Rivals
      <4> QED BY <1>1, <4>1, WritesHere DEF ActiveIn
    <3>3. Writing(p, c) => Covers(p)'
      <4> SUFFICES ASSUME Writing(p, c) PROVE Covers(p)'
        OBVIOUS
      <4>1. Existing(p)' = Existing(p)
        BY <1>1, <3>2 DEF Writing, Existing
      <4>2. Covers(p)
        BY <1>3 DEF Stands
      <4> QED BY <1>0, <1>1, <4>1, <4>2 DEF Covers
    <3>4. ~Writing(p, c) => Whole(p, c)'
      BY <1>1, <1>3, <3>2 DEF Stands, Whole
    <3> QED BY <1>1, <3>1, <3>3, <3>4 DEF Stands
  <2> QED BY <2>2, <2>3
<1> QED BY <1>2, <1>3

LEMMA ListsStep ==
  ASSUME TInv, PInv, LInv, [Next]_vars
  PROVE  LInv'
<1>1. CASE UNCHANGED vars
  <2>1. \A q \in Requests : /\ Seen(q)' = Seen(q) /\ (Covers(q)' <=> Covers(q))
    BY <1>1 DEF vars, store, Seen, Covers, Existing, ActiveIn, Active, List, Names, Reach,
       Left, At, Role
  <2>2. \A q \in Requests : \A c : /\ (Whole(q, c)' <=> Whole(q, c))
                                    /\ (Writing(q, c)' <=> Writing(q, c))
                                    /\ (Alone(q, c)' <=> Alone(q, c))
    BY <1>1 DEF vars, store, Whole, Writing, Alone, Rivals, Working, ActiveIn, Active, List,
       Names, At, Role
  <2> QED BY <1>1, <2>1, <2>2 DEF vars, history, LInv, Stands
<1>2. ASSUME NEW q \in Requests, Aside(q) \/ Unassign(q) \/ Create(q) PROVE LInv'
  <2>1. ASSUME NEW p \in Requests, p # q, pc'[p] # "idle", NEW c \in Seen(p)'
        PROVE  Stands(p, c)'
    <3>1. pc[p] # "idle" /\ c \in Seen(p)
      BY <1>2, <2>1, OthersKept DEF Seen, Reach, Left, At
    <3> QED BY <1>2, <2>1, <3>1, StandsOther DEF LInv
  <2> QED BY <1>2, <2>1, StandsSelf DEF LInv
<1> QED BY <1>1, <1>2, StepCases

(* Once a request is over, the lead case and all members of the joint      *)
(* administration have the assignees of its list, whatever broke off or    *)
(* overlapped there before; unless another request for the role was at     *)
(* work beside or after it, or it broke off before.                        *)
THEOREM LastListDoesStand == Spec => []LastListStands
<1>1. Init => LInv
  BY DEF Init, LInv
<1>2. LInv => LastListStands
  <2> SUFFICES ASSUME LInv, NEW q \in Requests, pc[q] = "done", NEW c \in Reach(q)
               PROVE  <<q, c>> \in overruled \/ Whole(q, c)
    BY DEF LastListStands, Whole
  <2>1. Stands(q, c) /\ ~Writing(q, c)
    BY DEF LInv, Seen, Writing
  <2> QED BY <2>1 DEF Stands
<1> QED BY <1>1, <1>2, ListsStep, TypesHold, PlaceAlways, PTL DEF Spec

=============================================================================
