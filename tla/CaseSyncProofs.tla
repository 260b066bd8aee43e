--------------------------- MODULE CaseSyncProofs ---------------------------
(***************************************************************************)
(* Theorems about CaseSync, for any cases, documents, workers, failures    *)
(* and division changes.                                                   *)
(*                                                                         *)
(* No clean-up loses a document.  A clean-up deletes a document by its     *)
(* number after it has made a copy with a larger one; as every clean-up    *)
(* does so, following the copies from a document that is about to go never *)
(* leads back to it.                                                       *)
(*                                                                         *)
(* No change is missed.  What is behind the sync dates moves from a start  *)
(* to the pages, from there to a handler and from the handler to the store *)
(* or to the report, and at each place it is known what was read of it.    *)
(*                                                                         *)
(* A case that changed division is cleaned up.  The first handler to write *)
(* its new id has noticed that it left its home, and what is noticed is    *)
(* held or sent until the home is marked as moved.  What is sent goes from *)
(* the home to the id of now, so nobody brings anything to the home, and a *)
(* clean-up has emptied it when it marks it.                               *)
(***************************************************************************)
EXTENDS CaseSync, FiniteSetTheorems, TLAPS

Shaped(l) ==
  l = [page |-> l.page, todo |-> l.todo, id |-> l.id, read |-> l.read, seen |-> l.seen,
       found |-> l.found, failed |-> l.failed, fix |-> l.fix, part |-> l.part,
       moving |-> l.moving, doc |-> l.doc]

DocShaped(d) ==
  d = [no |-> d.no, item |-> d.item, at |-> d.at] /\ d.no \in Nat /\ d.item \in Items

HandlersShaped ==
  /\ pc = [w \in Workers |-> pc[w]]
  /\ local = [w \in Workers |-> local[w]]
  /\ \A w \in Workers : Shaped(local[w])

Numbered ==
  /\ nextDoc \in Nat
  /\ \A d \in docs : /\ DocShaped(d)
                     /\ d.no < nextDoc
  /\ \A d, e \in docs : d.no = e.no => d = e

(* What a clean-up has listed is there as it was listed, or gone. *)
ListedIsKnown ==
  \A w \in Workers : \A d \in local[w].moving :
    /\ DocShaped(d)
    /\ d.no < nextDoc
    /\ \A e \in docs : d.no = e.no => d = e

(* What a clean-up is about to delete has a younger copy. *)
CopyIsThere ==
  \A w \in Workers : pc[w] = "delete" =>
    /\ local[w].doc \in Nat /\ local[w].doc < nextDoc
    /\ \A d \in docs : d.no = local[w].doc =>
         \E e \in docs : e.item = d.item /\ e.no > d.no

DInv == HandlersShaped /\ Numbered /\ ListedIsKnown /\ CopyIsThere

-----------------------------------------------------------------------------
LEMMA IdleShaped == Shaped(Idle) /\ Idle.moving = {}
BY DEF Shaped, Idle

LEMMA DocsInit == Init => DInv
<1> SUFFICES ASSUME Init PROVE DInv
  OBVIOUS
<1>1. HandlersShaped /\ ListedIsKnown /\ CopyIsThere
  BY IdleShaped DEF Init, HandlersShaped, ListedIsKnown, CopyIsThere
<1>2. Numbered
  <2>1. Cardinality(Early) \in Nat
    BY FS_CardinalityType, EarlyAssumption
  <2>2. PICK number \in [Early -> 1..Cardinality(Early)] :
          /\ \A x, y \in Early : number[x] = number[y] => x = y
          /\ docs = {[no |-> number[x], item |-> x, at |-> IdOf(CaseOf[x])] : x \in Early}
    BY DEF Init
  <2>3. \A x \in Early : /\ x \in Items /\ number[x] \in Nat /\ number[x] < nextDoc
    BY <2>1, <2>2, CaseAssumption DEF Init
  <2>6. ASSUME NEW d \in docs
        PROVE  DocShaped(d) /\ d.no < nextDoc
    <3>1. PICK x \in Early : d = [no |-> number[x], item |-> x, at |-> IdOf(CaseOf[x])]
      BY <2>2
    <3> QED BY <3>1, <2>3 DEF DocShaped
  <2>7. ASSUME NEW d \in docs, NEW e \in docs, d.no = e.no PROVE d = e
    <3>1. PICK x \in Early : d = [no |-> number[x], item |-> x, at |-> IdOf(CaseOf[x])]
      BY <2>2
    <3>2. PICK y \in Early : e = [no |-> number[y], item |-> y, at |-> IdOf(CaseOf[y])]
      BY <2>2
    <3>3. x = y
      BY <2>2, <2>7, <3>1, <3>2
    <3> QED BY <3>1, <3>2, <3>3
  <2>8. nextDoc \in Nat
    BY <2>1 DEF Init
  <2> QED BY <2>6, <2>7, <2>8 DEF Numbered
<1> QED BY <1>1, <1>2 DEF DInv

-----------------------------------------------------------------------------
(* Steps of the handlers that touch no document. *)

PageStep(w) ==
  \/ TakePage(w) \/ NextEvent(w) \/ GetDetail(w) \/ Detect(w) \/ GetExisting(w)
  \/ SyncCase(w) \/ Patch(w) \/ Lookup(w) \/ Search(w) \/ Return(w)
  \/ CallFails(w) \/ PageStops(w)

FixStep(w) ==
  \/ TakeFix(w) \/ CheckOrphan(w) \/ UpdateReferences(w) \/ MarkAsMoved(w) \/ FixFails(w)

Elsewhere ==
  \/ \E k \in Cases : Change(k)
  \/ QueryCases \/ QueryTransactions \/ Store \/ Flush \/ StartFails

LEMMA StepCases ==
  ASSUME [Next]_vars
  PROVE  \/ UNCHANGED vars \/ Elsewhere \/ \E x \in Items : Add(x)
         \/ \E w \in Workers : PageStep(w) \/ FixStep(w) \/ List(w) \/ Copy(w) \/ Delete(w)
BY DEF Next, PageStep, FixStep, Elsewhere

(* w goes to another step and keeps what it has listed, or forgets it.     *)
Steps(w) ==
  \E s, l : /\ s # "delete"
            /\ pc' = [pc EXCEPT ![w] = s]
            /\ local' = [local EXCEPT ![w] = l]
            /\ Shaped(l)
            /\ l.moving \subseteq local[w].moving

LEMMA RestSteps ==
  ASSUME NEW w \in Workers, Rest(w) PROVE Steps(w)
<1>1. pc' = [pc EXCEPT ![w] = "idle"] /\ local' = [local EXCEPT ![w] = Idle]
  BY DEF Rest, Goto
<1>2. "idle" # "delete" /\ Shaped(Idle) /\ Idle.moving \subseteq local[w].moving
  BY IdleShaped
<1> QED BY <1>1, <1>2 DEF Steps

(* The same with local unchanged. *)
LEMMA GotoSteps ==
  ASSUME DInv, NEW w \in Workers, NEW s, s # "delete", Goto(w, s), UNCHANGED local
  PROVE  Steps(w)
<1>1. pc' = [pc EXCEPT ![w] = s]
  BY DEF Goto
<1>2. local' = [local EXCEPT ![w] = local[w]]
  BY DEF DInv, HandlersShaped
<1>3. Shaped(local[w])
  BY DEF DInv, HandlersShaped
<1> QED BY <1>1, <1>2, <1>3 DEF Steps

(* What a handler may change of its locals without touching its list. *)
LEMMA FieldShaped ==
  ASSUME NEW l, Shaped(l), NEW a
  PROVE  /\ LET m == [l EXCEPT !.id = a]
            IN  Shaped(m) /\ m.moving = l.moving
         /\ LET m == [l EXCEPT !.todo = a]
            IN  Shaped(m) /\ m.moving = l.moving
         /\ LET m == [l EXCEPT !.read = a]
            IN  Shaped(m) /\ m.moving = l.moving
         /\ LET m == [l EXCEPT !.seen = a]
            IN  Shaped(m) /\ m.moving = l.moving
         /\ LET m == [l EXCEPT !.found = a]
            IN  Shaped(m) /\ m.moving = l.moving
         /\ LET m == [l EXCEPT !.failed = a]
            IN  Shaped(m) /\ m.moving = l.moving
         /\ LET m == [l EXCEPT !.part = a]
            IN  Shaped(m) /\ m.moving = l.moving
         /\ LET m == [l EXCEPT !.doc = a]
            IN  Shaped(m) /\ m.moving = l.moving /\ m.doc = a
         /\ LET m == [l EXCEPT !.moving = a]
            IN  Shaped(m) /\ m.moving = a /\ m.doc = l.doc
<1>1. l = [page |-> l.page, todo |-> l.todo, id |-> l.id, read |-> l.read, seen |-> l.seen,
           found |-> l.found, failed |-> l.failed, fix |-> l.fix, part |-> l.part,
           moving |-> l.moving, doc |-> l.doc]
  BY DEF Shaped
<1>2. LET m == [l EXCEPT !.id = a]
      IN  Shaped(m) /\ m.moving = l.moving
  BY <1>1 DEF Shaped
<1>3. LET m == [l EXCEPT !.todo = a]
      IN  Shaped(m) /\ m.moving = l.moving
  BY <1>1 DEF Shaped
<1>4. LET m == [l EXCEPT !.read = a]
      IN  Shaped(m) /\ m.moving = l.moving
  BY <1>1 DEF Shaped
<1>5. LET m == [l EXCEPT !.seen = a]
      IN  Shaped(m) /\ m.moving = l.moving
  BY <1>1 DEF Shaped
<1>6. LET m == [l EXCEPT !.found = a]
      IN  Shaped(m) /\ m.moving = l.moving
  BY <1>1 DEF Shaped
<1>7. LET m == [l EXCEPT !.failed = a]
      IN  Shaped(m) /\ m.moving = l.moving
  BY <1>1 DEF Shaped
<1>8. LET m == [l EXCEPT !.part = a]
      IN  Shaped(m) /\ m.moving = l.moving
  BY <1>1 DEF Shaped
<1>9. LET m == [l EXCEPT !.doc = a]
      IN  Shaped(m) /\ m.moving = l.moving /\ m.doc = a
  BY <1>1 DEF Shaped
<1>10. LET m == [l EXCEPT !.moving = a]
       IN  Shaped(m) /\ m.moving = a /\ m.doc = l.doc
  BY <1>1 DEF Shaped
<1> QED BY <1>2, <1>3, <1>4, <1>5, <1>6, <1>7, <1>8, <1>9, <1>10

LEMMA ChangeSteps ==
  ASSUME DInv, NEW w \in Workers, NEW s, s # "delete", Goto(w, s),
         NEW l, local' = [local EXCEPT ![w] = l], Shaped(l), l.moving = local[w].moving
  PROVE  Steps(w)
BY DEF Steps, Goto

LEMMA PageStepSteps ==
  ASSUME DInv, NEW w \in Workers, PageStep(w)
  PROVE  Steps(w) /\ docs' = docs /\ nextDoc' = nextDoc
<1>0. local = [v \in Workers |-> local[v]]
  BY DEF DInv, HandlersShaped
<1>0a. Shaped(local[w])
  BY DEF DInv, HandlersShaped
<1>1. docs' = docs /\ nextDoc' = nextDoc
  BY DEF PageStep, TakePage, NextEvent, GetDetail, Detect, GetExisting, SyncCase, Patch,
         Lookup, Search, Return, CallFails, PageStops, store
<1> SUFFICES Steps(w)
  BY <1>1
<1>2. CASE TakePage(w)
  <2>1. PICK m : local' = [local EXCEPT ![w] = [Idle EXCEPT !.page = m, !.todo = m.ids]]
    BY <1>2 DEF TakePage
  <2>2. PICK l : l = [Idle EXCEPT !.page = m, !.todo = m.ids]
    OBVIOUS
  <2>3. Shaped(l) /\ l.moving = {}
    BY <2>2 DEF Idle, Shaped
  <2>4. pc' = [pc EXCEPT ![w] = "next"] /\ local' = [local EXCEPT ![w] = l]
    BY <1>2, <2>1, <2>2 DEF TakePage, Goto
  <2> QED BY <2>3, <2>4 DEF Steps
<1>3. CASE NextEvent(w)
  <2>1. CASE local[w].todo = {}
    BY <1>3, <2>1, GotoSteps DEF NextEvent
  <2>2. CASE local[w].todo # {}
    <3>1. PICK i : local' = [local EXCEPT ![w].id = i, ![w].todo = @ \ {i}]
      BY <1>3, <2>2 DEF NextEvent
    <3>2. PICK t : t = local[w].todo \ {i}
      OBVIOUS
    <3>3. PICK k : k = [local[w] EXCEPT !.id = i]
      OBVIOUS
    <3>4. PICK l : l = [k EXCEPT !.todo = t]
      OBVIOUS
    <3>5. local' = [local EXCEPT ![w] = l]
      BY <1>0, <3>1, <3>2, <3>3, <3>4
    <3>6. Shaped(k) /\ k.moving = local[w].moving
      BY <1>0a, <3>3, FieldShaped
    <3>7. Shaped(l) /\ l.moving = k.moving
      BY <3>4, <3>6, FieldShaped
    <3> QED BY <1>3, <2>2, <3>5, <3>6, <3>7, ChangeSteps DEF NextEvent
  <2> QED BY <2>1, <2>2
<1>4. CASE GetDetail(w)
  <2>1. CASE UNCHANGED local
    BY <1>4, <2>1, GotoSteps DEF GetDetail
  <2>2. CASE ~UNCHANGED local
    <3>1. PICK r : local' = [local EXCEPT ![w].read = r] /\ Goto(w, "detect")
      BY <1>4, <2>2 DEF GetDetail
    <3>2. PICK l : l = [local[w] EXCEPT !.read = r]
      OBVIOUS
    <3>3. local' = [local EXCEPT ![w] = l]
      BY <1>0, <3>1, <3>2
    <3>4. Shaped(l) /\ l.moving = local[w].moving
      BY <1>0a, <3>2, FieldShaped
    <3> QED BY <1>0, <3>1, <3>3, <3>4, ChangeSteps
  <2> QED BY <2>1, <2>2
<1>5. CASE Detect(w)
  <2>1. CASE UNCHANGED local
    BY <1>5, <2>1, GotoSteps DEF Detect
  <2>2. CASE ~UNCHANGED local
    <3>1. PICK f : local' = [local EXCEPT ![w].found = f]
      BY <1>5, <2>2 DEF Detect
    <3>2. PICK l : l = [local[w] EXCEPT !.found = f]
      OBVIOUS
    <3>3. local' = [local EXCEPT ![w] = l]
      BY <1>0, <3>1, <3>2
    <3>4. Shaped(l) /\ l.moving = local[w].moving
      BY <1>0a, <3>2, FieldShaped
    <3> QED BY <1>0, <1>5, <3>3, <3>4, ChangeSteps DEF Detect
  <2> QED BY <2>1, <2>2
<1>6. CASE GetExisting(w)
  <2>1. PICK f : local' = [local EXCEPT ![w].seen = f]
    BY <1>6 DEF GetExisting
  <2>2. PICK l : l = [local[w] EXCEPT !.seen = f]
    OBVIOUS
  <2>3. local' = [local EXCEPT ![w] = l]
    BY <1>0, <2>1, <2>2
  <2>4. Shaped(l) /\ l.moving = local[w].moving
    BY <1>0a, <2>2, FieldShaped
  <2> QED BY <1>0, <1>6, <2>3, <2>4, ChangeSteps DEF GetExisting
<1>7. CASE SyncCase(w)
  BY <1>7, GotoSteps DEF SyncCase
<1>8. CASE Patch(w) \/ Lookup(w)
  <2>1. CASE UNCHANGED local
    BY <1>8, <2>1, GotoSteps DEF Patch, Lookup
  <2>2. CASE ~UNCHANGED local
    <3>1. PICK f : local' = [local EXCEPT ![w].failed = f]
      BY <1>8, <2>2 DEF Patch, Lookup
    <3>2. PICK l : l = [local[w] EXCEPT !.failed = f]
      OBVIOUS
    <3>3. local' = [local EXCEPT ![w] = l]
      BY <1>0, <3>1, <3>2
    <3>4. Shaped(l) /\ l.moving = local[w].moving
      BY <1>0a, <3>2, FieldShaped
    <3>5. Goto(w, "next")
      BY <1>8, <2>2 DEF Patch, Lookup
    <3> QED BY <3>3, <3>4, <3>5, ChangeSteps
  <2> QED BY <2>1, <2>2
<1>9. CASE Search(w)
  <2>1. PICK f, g : local' = [local EXCEPT ![w].found = f, ![w].failed = g]
    BY <1>9 DEF Search
  <2>2. PICK k : k = [local[w] EXCEPT !.found = f]
    OBVIOUS
  <2>3. PICK l : l = [k EXCEPT !.failed = g]
    OBVIOUS
  <2>4. local' = [local EXCEPT ![w] = l]
    BY <1>0, <2>1, <2>2, <2>3
  <2>5. Shaped(k) /\ k.moving = local[w].moving
    BY <1>0a, <2>2, FieldShaped
  <2>6. Shaped(l) /\ l.moving = k.moving
    BY <2>3, <2>5 DEF Shaped
  <2> QED BY <1>9, <2>4, <2>5, <2>6, ChangeSteps DEF Search
<1>10. CASE Return(w) \/ PageStops(w)
  BY <1>10, RestSteps DEF Return, PageStops
<1>11. CASE CallFails(w)
  <2>1. CASE UNCHANGED local
    <3>1. \/ Goto(w, "existing") \/ Goto(w, "sync") \/ Goto(w, "next")
      BY <1>11 DEF CallFails
    <3> QED BY <2>1, <3>1, GotoSteps
  <2>2. CASE ~UNCHANGED local
    <3>1. PICK f : local' = [local EXCEPT ![w].failed = f] /\ Goto(w, "next")
      BY <1>11, <2>2 DEF CallFails
    <3>2. PICK l : l = [local[w] EXCEPT !.failed = f]
      OBVIOUS
    <3>3. local' = [local EXCEPT ![w] = l]
      BY <1>0, <3>1, <3>2
    <3>4. Shaped(l) /\ l.moving = local[w].moving
      BY <1>0a, <3>2, FieldShaped
    <3> QED BY <1>0, <3>1, <3>3, <3>4, ChangeSteps
  <2> QED BY <2>1, <2>2
<1> QED BY <1>1, <1>2, <1>3, <1>4, <1>5, <1>6, <1>7, <1>8, <1>9, <1>10, <1>11 DEF PageStep

LEMMA FixStepSteps ==
  ASSUME DInv, NEW w \in Workers, FixStep(w)
  PROVE  Steps(w) /\ docs' = docs /\ nextDoc' = nextDoc
<1>1. docs' = docs /\ nextDoc' = nextDoc
  BY DEF FixStep, TakeFix, CheckOrphan, UpdateReferences, MarkAsMoved, FixFails, store
<1> SUFFICES Steps(w)
  BY <1>1
<1>2. CASE TakeFix(w)
  <2>1. PICK m : local' = [local EXCEPT ![w] = [Idle EXCEPT !.fix = m]]
    BY <1>2 DEF TakeFix
  <2>2. PICK l : l = [Idle EXCEPT !.fix = m]
    OBVIOUS
  <2>3. Shaped(l) /\ l.moving = {}
    BY <2>2 DEF Idle, Shaped
  <2>4. pc' = [pc EXCEPT ![w] = "check"] /\ local' = [local EXCEPT ![w] = l]
    BY <1>2, <2>1, <2>2 DEF TakeFix, Goto
  <2> QED BY <2>3, <2>4 DEF Steps
<1>3. CASE CheckOrphan(w)
  <2>1. CASE Rest(w)
    BY <2>1, RestSteps
  <2>2. CASE ~Rest(w)
    <3>1. Goto(w, "references") /\ UNCHANGED local
      BY <1>3, <2>2 DEF CheckOrphan, GiveBack
    <3> QED BY <3>1, GotoSteps
  <2> QED BY <2>1, <2>2
<1>4. CASE UpdateReferences(w)
  BY <1>4, GotoSteps DEF UpdateReferences
<1>5. CASE MarkAsMoved(w) \/ FixFails(w)
  BY <1>5, RestSteps DEF MarkAsMoved, FixFails, GiveBack
<1> QED BY <1>1, <1>2, <1>3, <1>4, <1>5 DEF FixStep

LEMMA StepsKeep ==
  ASSUME DInv, NEW w \in Workers, Steps(w), docs' = docs, nextDoc' = nextDoc
  PROVE  DInv'
<1>1. PICK s, l : /\ s # "delete"
                  /\ pc' = [pc EXCEPT ![w] = s]
                  /\ local' = [local EXCEPT ![w] = l]
                  /\ Shaped(l)
                  /\ l.moving \subseteq local[w].moving
  BY DEF Steps
<1>2. /\ pc'[w] = s /\ local'[w] = l
      /\ \A v \in Workers : v # w => pc'[v] = pc[v] /\ local'[v] = local[v]
  BY <1>1 DEF DInv, HandlersShaped
<1>3. HandlersShaped'
  BY <1>1, <1>2 DEF DInv, HandlersShaped
<1>4. Numbered'
  BY DEF DInv, Numbered
<1>5. ListedIsKnown'
  BY <1>1, <1>2 DEF DInv, ListedIsKnown
<1>6. CopyIsThere'
  BY <1>1, <1>2 DEF DInv, CopyIsThere
<1> QED BY <1>3, <1>4, <1>5, <1>6 DEF DInv

(* A new document takes the next number. *)
LEMMA NewNumber ==
  ASSUME DInv, NEW d, DocShaped(d), d.no = nextDoc,
         docs' = docs \cup {d}, nextDoc' = nextDoc + 1
  PROVE  /\ Numbered'
         /\ \A w \in Workers : \A e \in local[w].moving :
              /\ e.no < nextDoc'
              /\ \A f \in docs' : e.no = f.no => e = f
         /\ \A n \in Nat : n < nextDoc =>
              \A e \in docs' : e.no = n => e \in docs
<1> USE DEF DInv, Numbered
<1>1. \A e \in docs : e.no \in Nat /\ e.no < nextDoc
  BY DEF DocShaped
<1>2. \A w \in Workers : \A e \in local[w].moving : e.no \in Nat /\ e.no < nextDoc
  BY DEF ListedIsKnown, DocShaped
<1>3. Numbered'
  BY <1>1
<1>4. \A w \in Workers : \A e \in local[w].moving :
        /\ e.no < nextDoc'
        /\ \A f \in docs' : e.no = f.no => e = f
  BY <1>2 DEF ListedIsKnown
<1>5. \A n \in Nat : n < nextDoc => \A e \in docs' : e.no = n => e \in docs
  BY <1>1
<1> QED BY <1>3, <1>4, <1>5

LEMMA AddKeeps ==
  ASSUME DInv, NEW x \in Items, Add(x) PROVE DInv'
<1>1. PICK i \in Unmoved(CaseOf[x]) : docs' = docs \cup {[no |-> nextDoc, item |-> x, at |-> i]}
  BY DEF Add
<1>2. nextDoc' = nextDoc + 1 /\ pc' = pc /\ local' = local
  BY DEF Add
<1>3. PICK d : d = [no |-> nextDoc, item |-> x, at |-> i]
  OBVIOUS
<1>4. DocShaped(d) /\ d.no = nextDoc /\ docs' = docs \cup {d}
  <2>1. nextDoc \in Nat
    BY DEF DInv, Numbered
  <2> QED BY <1>1, <1>3, <2>1 DEF DocShaped
<1>5. HandlersShaped'
  BY <1>2 DEF DInv, HandlersShaped
<1>6. Numbered' /\ ListedIsKnown'
  BY <1>2, <1>4, NewNumber DEF DInv, ListedIsKnown
<1>7. CopyIsThere'
  <2>1. \A n \in Nat : n < nextDoc => \A e \in docs' : e.no = n => e \in docs
    BY <1>2, <1>4, NewNumber
  <2>2. docs \subseteq docs' /\ nextDoc \in Nat
    BY <1>4 DEF DInv, Numbered
  <2>3. ASSUME NEW w \in Workers, pc[w] = "delete"
        PROVE  /\ local[w].doc \in Nat /\ local[w].doc < nextDoc'
               /\ \A e \in docs' : e.no = local[w].doc =>
                    \E f \in docs' : f.item = e.item /\ f.no > e.no
    BY <1>2, <2>1, <2>2, <2>3 DEF DInv, CopyIsThere
  <2> QED BY <1>2, <2>3 DEF CopyIsThere
<1> QED BY <1>5, <1>6, <1>7 DEF DInv

LEMMA ListKeeps ==
  ASSUME DInv, NEW w \in Workers, List(w) PROVE DInv'
<1>0. Shaped(local[w]) /\ pc = [v \in Workers |-> pc[v]] /\ local = [v \in Workers |-> local[v]]
  BY DEF DInv, HandlersShaped
<1>1. PICK m : m = {d \in At(Orphan(w)) : PartOf[d.item] = local[w].part}
  OBVIOUS
<1>2. PICK l : l = [local[w] EXCEPT !.moving = m]
  OBVIOUS
<1>3. /\ pc' = [pc EXCEPT ![w] = "copy"]
      /\ local' = [local EXCEPT ![w] = l]
      /\ docs' = docs /\ nextDoc' = nextDoc
  BY <1>0, <1>1, <1>2 DEF List, Goto, store
<1>4. Shaped(l) /\ l.moving = m /\ m \subseteq docs
  <2>1. m \subseteq docs
    BY <1>1 DEF At
  <2>2. Shaped(l) /\ l.moving = m
    BY <1>0, <1>2, FieldShaped
  <2> QED BY <2>1, <2>2
<1>5. /\ pc'[w] = "copy" /\ local'[w] = l
      /\ \A v \in Workers : v # w => pc'[v] = pc[v] /\ local'[v] = local[v]
  BY <1>0, <1>3
<1>6. HandlersShaped'
  BY <1>3, <1>4, <1>5 DEF DInv, HandlersShaped
<1>7. Numbered' /\ CopyIsThere'
  BY <1>3, <1>5 DEF DInv, Numbered, CopyIsThere
<1>8. ListedIsKnown'
  BY <1>3, <1>4, <1>5 DEF DInv, Numbered, ListedIsKnown
<1> QED BY <1>6, <1>7, <1>8 DEF DInv

LEMMA CopyKeeps ==
  ASSUME DInv, NEW w \in Workers, Copy(w)
  PROVE  DInv' /\ docs \subseteq docs'
<1>0. Shaped(local[w]) /\ pc = [v \in Workers |-> pc[v]] /\ local = [v \in Workers |-> local[v]]
  BY DEF DInv, HandlersShaped
<1>1. CASE local[w].moving = {}
  <2>1. docs' = docs /\ nextDoc' = nextDoc
    BY <1>1 DEF Copy
  <2>2. CASE UNCHANGED local
    <3>1. Goto(w, "mark") \/ Goto(w, "list")
      BY <1>1 DEF Copy
    <3>2. Steps(w)
      BY <2>2, <3>1, GotoSteps
    <3> QED BY <2>1, <3>2, StepsKeep
  <2>3. CASE ~UNCHANGED local
    <3>1. PICK f : local' = [local EXCEPT ![w].part = f] /\ Goto(w, "list")
      BY <1>1, <2>3 DEF Copy
    <3>2. PICK l : l = [local[w] EXCEPT !.part = f]
      OBVIOUS
    <3>3. local' = [local EXCEPT ![w] = l]
      BY <1>0, <3>1, <3>2
    <3>4. Shaped(l) /\ l.moving = local[w].moving
      BY <1>0, <3>2, FieldShaped
    <3>5. Steps(w)
      BY <3>1, <3>3, <3>4, ChangeSteps
    <3> QED BY <2>1, <3>5, StepsKeep
  <2> QED BY <2>2, <2>3
<1>2. CASE local[w].moving # {}
  <2>1. PICK d \in local[w].moving :
          /\ docs' = docs \cup {[d EXCEPT !.no = nextDoc, !.at = Current(w)]}
          /\ nextDoc' = nextDoc + 1
          /\ local' = [local EXCEPT ![w].doc = d.no, ![w].moving = @ \ {d}]
          /\ Goto(w, "delete")
    BY <1>2 DEF Copy
  <2>2. PICK copy : copy = [d EXCEPT !.no = nextDoc, !.at = Current(w)]
    OBVIOUS
  <2>3. DocShaped(d) /\ d.no < nextDoc /\ \A e \in docs : d.no = e.no => d = e
    BY DEF DInv, ListedIsKnown
  <2>4. DocShaped(copy) /\ copy.no = nextDoc /\ copy.item = d.item
    <3>1. nextDoc \in Nat
      BY DEF DInv, Numbered
    <3>2. PICK half : half = [d EXCEPT !.no = nextDoc]
      OBVIOUS
    <3>3. DocShaped(half) /\ half.no = nextDoc /\ half.item = d.item
      BY <2>3, <3>1, <3>2 DEF DocShaped
    <3>4. copy = [half EXCEPT !.at = Current(w)]
      BY <2>2, <3>2
    <3> QED BY <3>3, <3>4 DEF DocShaped
  <2>5. docs' = docs \cup {copy} /\ nextDoc' = nextDoc + 1
    BY <2>1, <2>2
  <2>6. /\ Numbered'
        /\ \A v \in Workers : \A e \in local[v].moving :
             /\ e.no < nextDoc'
             /\ \A f \in docs' : e.no = f.no => e = f
        /\ \A n \in Nat : n < nextDoc =>
             \A e \in docs' : e.no = n => e \in docs
    BY <2>4, <2>5, NewNumber
  <2>7. PICK left : left = local[w].moving \ {d}
    OBVIOUS
  <2>8. PICK k : k = [local[w] EXCEPT !.doc = d.no]
    OBVIOUS
  <2>9. PICK l : l = [k EXCEPT !.moving = left]
    OBVIOUS
  <2>10. Shaped(l) /\ l.doc = d.no /\ l.moving = left
    <3>1. Shaped(k) /\ k.doc = d.no
      <4>1. Shaped(local[w])
        BY <1>0
      <4>2. local[w] = [page |-> local[w].page, todo |-> local[w].todo, id |-> local[w].id,
                        read |-> local[w].read, seen |-> local[w].seen,
                        found |-> local[w].found, failed |-> local[w].failed,
                        fix |-> local[w].fix, part |-> local[w].part,
                        moving |-> local[w].moving, doc |-> local[w].doc]
        BY <4>1 DEF Shaped
      <4> QED BY <2>8, <4>2 DEF Shaped
    <3> QED BY <2>9, <3>1, FieldShaped
  <2>11. local' = [local EXCEPT ![w] = l] /\ pc' = [pc EXCEPT ![w] = "delete"]
    BY <1>0, <2>1, <2>7, <2>8, <2>9 DEF Goto
  <2>12. /\ pc'[w] = "delete" /\ local'[w] = l
         /\ \A v \in Workers : v # w => pc'[v] = pc[v] /\ local'[v] = local[v]
    BY <1>0, <2>11
  <2>13. HandlersShaped'
    BY <2>10, <2>11, <2>12 DEF DInv, HandlersShaped
  <2>14. ListedIsKnown'
    BY <2>6, <2>7, <2>10, <2>12 DEF DInv, ListedIsKnown
  <2>15. CopyIsThere'
    <3>1. \A e \in docs : e.item = d.item /\ e.no = d.no => copy.item = e.item /\ copy.no > e.no
      BY <2>3, <2>4 DEF DocShaped, DInv, Numbered
    <3>2. ASSUME NEW e \in docs', e.no = d.no
          PROVE  copy.item = e.item /\ copy.no > e.no
      <4>1. e \in docs
        BY <2>3, <2>6, <3>2 DEF DocShaped
      <4>2. e = d
        BY <2>3, <3>2, <4>1
      <4> QED BY <3>1, <4>1, <4>2
    <3>3. d.no \in Nat /\ d.no < nextDoc'
      BY <2>3, <2>5 DEF DocShaped, DInv, Numbered
    <3>5. ASSUME NEW v \in Workers, v # w, pc[v] = "delete"
          PROVE  /\ local[v].doc \in Nat /\ local[v].doc < nextDoc'
                 /\ \A e \in docs' : e.no = local[v].doc =>
                      \E f \in docs' : f.item = e.item /\ f.no > e.no
      BY <2>5, <2>6, <3>5 DEF DInv, CopyIsThere, Numbered
    <3> QED BY <2>5, <2>10, <2>12, <3>2, <3>3, <3>5 DEF CopyIsThere
  <2> QED BY <2>5, <2>6, <2>13, <2>14, <2>15 DEF DInv
<1> QED BY <1>1, <1>2

LEMMA DeleteKeeps ==
  ASSUME DInv, NEW w \in Workers, Delete(w)
  PROVE  DInv' /\ \A x \in Items : Kept(x) => Kept(x)'
<1>0. Shaped(local[w]) /\ pc = [v \in Workers |-> pc[v]] /\ local = [v \in Workers |-> local[v]]
  BY DEF DInv, HandlersShaped
<1>1. CASE Rest(w) /\ docs' = docs
  <2>1. nextDoc' = nextDoc
    BY DEF Delete
  <2> QED BY <1>1, <2>1, RestSteps, StepsKeep DEF Kept
<1>2. CASE ~(Rest(w) /\ docs' = docs)
  <2>1. PICK n : n = local[w].doc
    OBVIOUS
  <2>2. /\ docs' = {d \in docs : d.no # n}
        /\ pc[w] = "delete" /\ Goto(w, "copy") /\ UNCHANGED local /\ nextDoc' = nextDoc
    BY <1>2, <2>1 DEF Delete, GiveBack
  <2>3. \A d \in docs : d.no \in Nat
    BY DEF DInv, Numbered, DocShaped
  <2>4. /\ n \in Nat
        /\ \A d \in docs : d.no = n => \E e \in docs : e.item = d.item /\ e.no > d.no
    BY <2>1, <2>2 DEF DInv, CopyIsThere
  <2>5. ASSUME NEW d \in docs, d \notin docs'
        PROVE  \E e \in docs' : e.item = d.item /\ e.no > d.no
    BY <2>2, <2>3, <2>4, <2>5
  <2>6. \A x \in Items : Kept(x) => Kept(x)'
    BY <2>5 DEF Kept
  <2>7. /\ pc'[w] = "copy"
        /\ \A v \in Workers : v # w => pc'[v] = pc[v]
    BY <1>0, <2>2 DEF Goto
  <2>8. HandlersShaped'
    BY <2>2 DEF DInv, HandlersShaped, Goto
  <2>9. docs' \subseteq docs
    BY <2>2
  <2>10. Numbered' /\ ListedIsKnown'
    BY <2>2, <2>9 DEF DInv, Numbered, ListedIsKnown
  <2>11. CopyIsThere'
    <3>1. SUFFICES ASSUME NEW v \in Workers, v # w, pc[v] = "delete", NEW d \in docs',
                          d.no = local[v].doc
                   PROVE  \E e \in docs' : e.item = d.item /\ e.no > d.no
      BY <2>2, <2>7 DEF DInv, CopyIsThere
    <3>2. PICK e \in docs : e.item = d.item /\ e.no > d.no
      BY <2>9, <3>1 DEF DInv, CopyIsThere
    <3>3. e \in docs' \/ \E f \in docs' : f.item = e.item /\ f.no > e.no
      BY <2>5
    <3> QED BY <2>3, <2>9, <3>2, <3>3
  <2> QED BY <2>6, <2>8, <2>10, <2>11 DEF DInv
<1> QED BY <1>1, <1>2

LEMMA DocsStep ==
  ASSUME DInv, [Next]_vars
  PROVE  DInv' /\ \A x \in Items : Kept(x) => Kept(x)'
<1>1. CASE UNCHANGED vars \/ Elsewhere
  <2>1. docs' = docs /\ nextDoc' = nextDoc /\ pc' = pc /\ local' = local
    BY <1>1 DEF vars, store, Elsewhere, Change, QueryCases, QueryTransactions, Store, Flush,
                StartFails
  <2> QED BY <2>1 DEF DInv, HandlersShaped, Numbered, ListedIsKnown, CopyIsThere, Kept
<1>2. ASSUME NEW x \in Items, Add(x)
      PROVE  DInv' /\ docs \subseteq docs'
  BY <1>2, AddKeeps DEF Add
<1>3. ASSUME NEW w \in Workers, PageStep(w) \/ FixStep(w)
      PROVE  DInv' /\ docs \subseteq docs'
  BY <1>3, PageStepSteps, FixStepSteps, StepsKeep
<1>4. ASSUME NEW w \in Workers, List(w)
      PROVE  DInv' /\ docs \subseteq docs'
  BY <1>4, ListKeeps DEF List, store
<1>5. ASSUME NEW w \in Workers, Copy(w)
      PROVE  DInv' /\ docs \subseteq docs'
  BY <1>5, CopyKeeps
<1>6. docs \subseteq docs' => \A x \in Items : Kept(x) => Kept(x)'
  BY DEF Kept
<1> QED BY <1>1, <1>2, <1>3, <1>4, <1>5, <1>6, DeleteKeeps, StepCases

(* Through every interleaving, failure and repetition of clean-ups, a      *)
(* document of a case stays under one of its ids.                          *)
THEOREM NothingIsLost == Spec => NoDocumentLost
<1>1. DInv /\ [Next]_vars => DInv'
  BY DocsStep
<1>2. DInv /\ [Next]_vars => [\A x \in Items : Kept(x) => Kept(x)']_vars
  BY DocsStep
<1> QED BY <1>1, <1>2, DocsInit, PTL DEF Spec, NoDocumentLost
-----------------------------------------------------------------------------
(* No change is missed.  The locals of a handler, with the phase it is in: *)
(* one that works on a page holds no message of the clean-up, and the      *)
(* event at hand is of its page.                                           *)

Pairs  == [orphan : Ids, current : Ids]
NoFix  == [orphan |-> NoId, current |-> NoId, tries |-> 0]
NoIds  == [ids |-> {}, tries |-> 0]
Locals == [page : PageMessages, todo : SUBSET Ids, id : Ids \cup {NoId},
           read : Changes, seen : Changes, found : SUBSET Pairs, failed : SUBSET Ids,
           fix : FixMessages \cup {NoFix}, part : Parts, moving : SUBSET Docs, doc : Nat]

PhaseOf(step, l) ==
  \/ step = "idle" /\ l = Idle
  \/ step \in PageSteps /\ l.fix = NoFix /\ l.todo \subseteq l.page.ids
       /\ (step \in {"next", "return"} \/ l.id \in l.page.ids)
       /\ (step = "return" => l.todo = {})
  \/ step \in FixSteps /\ l.page = NoIds /\ l.fix \in FixMessages /\ l.found = {}

WorldTyped ==
  /\ dxtr \in [Cases -> [division : Divisions, fields : Changes,
                         date : [Feeds -> Changes], left : SUBSET Divisions]]
  /\ changes \in Changes
  /\ \A k \in Cases : /\ dxtr[k].fields \in Nat
                      /\ \A f \in Feeds : dxtr[k].date[f] <= changes

TimerTyped ==
  /\ dates \in [Feeds -> Changes]
  /\ start \in [step : {"idle", "transactions", "store", "flush"},
                ids : SUBSET Ids, latest : [Feeds -> Changes]]
  /\ \A f \in Feeds : dates[f] <= changes /\ start.latest[f] <= changes
  /\ start.step = "idle" => start.ids = {}
  /\ starts \in 0..MaxStarts /\ (start.step # "idle" => starts > 0)
  /\ cutOff \in BOOLEAN

StoreTyped ==
  /\ synced \in [Ids -> [fields : Changes, movedTo : Ids \cup {NoId}]]
  /\ docs \subseteq Docs /\ nextDoc \in Nat
  /\ pointer \in [Cases -> Ids]
  /\ unpatched \subseteq Ids

QueuesTyped ==
  /\ IsABag(pages) /\ BagToSet(pages) \subseteq PageMessages
  /\ IsABag(fixes) /\ BagToSet(fixes) \subseteq FixMessages
  /\ reported \subseteq Ids

HandlersTyped ==
  /\ pc \in [Workers -> {"idle"} \cup PageSteps \cup FixSteps]
  /\ local \in [Workers -> Locals]
  /\ \A w \in Workers : PhaseOf(pc[w], local[w])

StoryTyped ==
  /\ faults \in 0..MaxFaults
  /\ overlapped \subseteq Cases /\ late \subseteq Ids
  /\ abandoned \subseteq Cases /\ astray \subseteq Cases

SInv == WorldTyped /\ TimerTyped /\ StoreTyped /\ QueuesTyped /\ HandlersTyped /\ StoryTyped

(* Two handlers that have a case at once are noticed. *)
OverlapSeen ==
  \A v, w \in Workers : v # w => CasesOf(local[v]) \cap CasesOf(local[w]) \subseteq overlapped

(* The case is, or has been, in the division of the id. *)
Visited(i) == i[2] \in dxtr[i[1]].left \cup {dxtr[i[1]].division}

IdsVisited ==
  /\ \A i \in start.ids : Visited(i)
  /\ \A m \in BagToSet(pages) : \A i \in m.ids : Visited(i)
  /\ \A w \in Workers : \A i \in local[w].page.ids : Visited(i)
  /\ \A i \in Ids : synced[i].fields # 0 => Visited(i)

(* A handler that looks for other ids of its case cannot yet find the one  *)
(* the case has moved to for the first time.                               *)
FreshUnseen ==
  \A w \in Workers : pc[w] = "detect" =>
    LET k == local[w].id[1] IN
      \/ local[w].id = IdOf(k) \/ dxtr[k].division \in dxtr[k].left
      \/ k \in overlapped \/ synced[IdOf(k)].fields = 0

(* An id that is cleaned up has been left. *)
HasLeft(i) == i[2] \in dxtr[i[1]].left \/ i[1] \in overlapped

OrphansLeft ==
  /\ \A w \in Workers : \A f \in local[w].found : HasLeft(f.orphan)
  /\ \A m \in BagToSet(fixes) : HasLeft(m.orphan)
  /\ \A w \in Workers : pc[w] \in FixSteps => HasLeft(local[w].fix.orphan)
  /\ \A i \in Ids : synced[i].movedTo # NoId => HasLeft(i)

(* Between its queries and its dates a start has what it is about to pass. *)
Behind(k, f) == dxtr[k].date[f] > dates[f]
Ahead(k, f)  == dxtr[k].date[f] > start.latest[f]

StartKnows ==
  /\ start.step \in {"transactions", "store"} =>
       \A i \in start.ids : \E f \in Feeds : Behind(i[1], f)
  /\ start.step = "transactions" => \A k \in Cases :
       Behind(k, "cases") => IdOf(k) \in start.ids \/ Ahead(k, "cases")
  /\ start.step = "store" => \A k \in Cases :
       (\E f \in Feeds : Behind(k, f)) =>
         IdOf(k) \in start.ids \/ \E f \in Feeds : Ahead(k, f)

(* What is still to come in; what a handler has of it; what came of it.    *)
ToCome(k) ==
  \/ \E f \in Feeds : Behind(k, f)
  \/ IdOf(k) \in start.ids
  \/ \E m \in BagToSet(pages) : IdOf(k) \in m.ids

AtIt(w, k) == local[w].id = IdOf(k) /\
  pc[w] \in {"detail", "lookup", "search", "detect", "existing", "sync"}

InHand(w, k) ==
  \/ IdOf(k) \in local[w].todo \cup local[w].failed
  \/ AtIt(w, k) /\ pc[w] \in {"detail", "lookup", "search"}
  \/ AtIt(w, k) /\ local[w].read = dxtr[k].fields
  \/ ~AtIt(w, k) /\ synced[IdOf(k)].fields = dxtr[k].fields

Has(w, k) == IdOf(k) \in local[w].page.ids

NotMissed(k) ==
  \/ cutOff \/ k \in overlapped \/ ToCome(k)
  \/ /\ \A w \in Workers : Has(w, k) => InHand(w, k)
     /\ \/ \E w \in Workers : Has(w, k)
        \/ IdOf(k) \in reported
        \/ synced[IdOf(k)].fields = dxtr[k].fields

CInv == OverlapSeen /\ IdsVisited /\ FreshUnseen /\ OrphansLeft /\ StartKnows
          /\ \A k \in Cases : NotMissed(k)
-----------------------------------------------------------------------------
(* Bags: what is sent is there, and taking one message leaves the others.  *)

LEMMA BagAdd ==
  ASSUME NEW B, IsABag(B), NEW S
  PROVE  IsABag(B (+) SetToBag(S)) /\ BagToSet(B (+) SetToBag(S)) = BagToSet(B) \cup S
<1> DEFINE T == SetToBag(S)
<1>1. DOMAIN T = S /\ \A x \in S : T[x] = 1
  BY DEF SetToBag
<1>2. \A x \in DOMAIN B : B[x] \in Nat /\ B[x] > 0
  BY DEF IsABag
<1> HIDE DEF T
<1>3. B (+) T = [e \in DOMAIN B \cup DOMAIN T |->
                   (IF e \in DOMAIN B THEN B[e] ELSE 0) + (IF e \in DOMAIN T THEN T[e] ELSE 0)]
  BY DEF (+)
<1>4. \A x \in DOMAIN B \cup DOMAIN T :
        LET n == (IF x \in DOMAIN B THEN B[x] ELSE 0) + (IF x \in DOMAIN T THEN T[x] ELSE 0)
        IN  n \in Nat /\ n > 0
  BY <1>1, <1>2
<1>5. IsABag(B (+) T) /\ DOMAIN (B (+) T) = DOMAIN B \cup S
  BY <1>1, <1>3, <1>4 DEF IsABag
<1> QED BY <1>5 DEF BagToSet, T

LEMMA BagTake ==
  ASSUME NEW B, IsABag(B), NEW m \in BagToSet(B)
  PROVE  /\ IsABag(B (-) SetToBag({m}))
         /\ BagToSet(B (-) SetToBag({m})) \subseteq BagToSet(B)
         /\ BagToSet(B) \ {m} \subseteq BagToSet(B (-) SetToBag({m}))
<1> DEFINE T == SetToBag({m})
<1>1. DOMAIN T = {m} /\ T[m] = 1
  BY DEF SetToBag
<1>2. \A x \in DOMAIN B : B[x] \in Nat /\ B[x] > 0
  BY DEF IsABag
<1> HIDE DEF T
<1> DEFINE C == [e \in DOMAIN B |-> IF e \in DOMAIN T THEN B[e] - T[e] ELSE B[e]]
<1>3. B (-) T = [e \in {d \in DOMAIN C : C[d] > 0} |-> C[e]]
  BY DEF (-)
<1>4. \A x \in DOMAIN B : C[x] \in Nat /\ (x # m => C[x] > 0)
  BY <1>1, <1>2
<1>5. DOMAIN C = DOMAIN B
  OBVIOUS
<1> HIDE DEF C
<1>6. IsABag(B (-) T)
  BY <1>3, <1>4, <1>5 DEF IsABag
<1>7. DOMAIN (B (-) T) = {d \in DOMAIN B : C[d] > 0}
  BY <1>3, <1>5
<1> QED BY <1>4, <1>6, <1>7 DEF BagToSet, T

(* A bounded set of naturals has a largest element. *)
LEMMA LargestExists ==
  ASSUME NEW b \in Nat, NEW S \in SUBSET (0..b), S # {}
  PROVE  \E n \in S : \A m \in S : m <= n
<1> DEFINE R == OpToRel(<, Nat)
           T == {b - n : n \in S}
<1>1. \A m, n \in Nat : (<<m, n>> \in R) <=> m < n
  BY DEF OpToRel
<1>2. IsWellFoundedOn(R, Nat)
  BY NatLessThanWellFounded, Zenon DEF R
<1> HIDE DEF R
<1>3. T \subseteq Nat /\ T # {}
  <2>1. \A n \in S : b - n \in Nat
    OBVIOUS
  <2> QED BY <2>1
<1>4. PICK x \in T : \A y \in T : ~ (<<y, x>> \in R)
  BY <1>2, <1>3, WFMin
<1>5. PICK n \in S : x = b - n
  OBVIOUS
<1>6. ASSUME NEW m \in S PROVE m <= n
  <2>1. b - m \in T /\ b - m \in Nat /\ b - n \in Nat
    BY <1>3
  <2>2. ~ (b - m < b - n)
    BY <1>1, <1>4, <1>5, <2>1
  <2> QED BY <2>2
<1> QED BY <1>6

-----------------------------------------------------------------------------
(* Identifiers.                                                            *)

LEMMA IdShape ==
  ASSUME NEW i \in Ids
  PROVE  i = <<i[1], i[2]>> /\ i[1] \in Cases /\ i[2] \in Divisions
BY DEF Ids

LEMMA IdOfTyped ==
  ASSUME WorldTyped, NEW k \in Cases
  PROVE  IdOf(k) \in Ids /\ IdOf(k)[1] = k /\ IdOf(k)[2] = dxtr[k].division
BY DEF WorldTyped, IdOf, Ids

LEMMA StepsApart ==
  ASSUME NEW s
  PROVE  /\ s \in PageSteps => s \notin FixSteps /\ s # "idle"
         /\ s \in FixSteps  => s \notin PageSteps /\ s # "idle"
BY DEF PageSteps, FixSteps

LEMMA IdleTyped ==
  /\ Idle \in Locals /\ Idle.page = NoIds /\ Idle.fix = NoFix /\ Idle.found = {}
  /\ PhaseOf("idle", Idle)
  /\ NoIds \in PageMessages
<1>1. NoIds \in PageMessages
  BY CaseAssumption DEF NoIds, PageMessages
<1>2. 0 \in Changes
  BY CaseAssumption DEF Changes
<1> QED BY <1>1, <1>2 DEF Idle, Locals, NoIds, NoFix, PhaseOf, Parts

(* One handler goes to a step with locals that fit it.                     *)
Others(w) == \A v \in Workers \ {w} : local'[v] = local[v] /\ pc'[v] = pc[v]

LEMMA OneMoves ==
  ASSUME SInv, NEW w \in Workers, NEW l \in Locals,
         NEW s \in {"idle"} \cup PageSteps \cup FixSteps, PhaseOf(s, l),
         pc' = [pc EXCEPT ![w] = s], local' = [local EXCEPT ![w] = l]
  PROVE  HandlersTyped' /\ Others(w) /\ pc'[w] = s /\ local'[w] = l
<1>1. pc \in [Workers -> {"idle"} \cup PageSteps \cup FixSteps]
      /\ local \in [Workers -> Locals]
      /\ \A v \in Workers : PhaseOf(pc[v], local[v])
  BY DEF SInv, HandlersTyped
<1>2. Others(w) /\ pc'[w] = s /\ local'[w] = l
  BY <1>1 DEF Others
<1>3. pc' \in [Workers -> {"idle"} \cup PageSteps \cup FixSteps]
      /\ local' \in [Workers -> Locals]
  BY <1>1
<1>4. \A v \in Workers : PhaseOf(pc'[v], local'[v])
  BY <1>1, <1>2 DEF Others
<1> QED BY <1>2, <1>3, <1>4 DEF HandlersTyped, PhaseOf

LEMMA OnlyStep ==
  ASSUME SInv, NEW w \in Workers, NEW s, Goto(w, s), UNCHANGED local,
         s \in {"idle"} \cup PageSteps \cup FixSteps, PhaseOf(s, local[w])
  PROVE  HandlersTyped' /\ Others(w) /\ pc'[w] = s /\ local'[w] = local[w]
<1>1. local[w] \in Locals /\ local' = [local EXCEPT ![w] = local[w]]
  BY DEF SInv, HandlersTyped
<1>2. pc' = [pc EXCEPT ![w] = s]
  BY DEF Goto
<1> HIDE DEF SInv
<1> QED BY <1>1, <1>2, OneMoves

LEMMA AtRest ==
  ASSUME SInv, NEW w \in Workers, Rest(w)
  PROVE  HandlersTyped' /\ Others(w) /\ pc'[w] = "idle" /\ local'[w] = Idle
BY IdleTyped, OneMoves DEF Rest, Goto

(* What is known of a handler by its step.                                 *)
LEMMA OnPage ==
  ASSUME SInv, NEW w \in Workers, pc[w] \in PageSteps
  PROVE  /\ local[w] \in Locals /\ local[w].fix = NoFix
         /\ local[w].page \in PageMessages /\ local[w].page.ids \subseteq Ids
         /\ local[w].todo \subseteq local[w].page.ids
         /\ pc[w] \notin {"next", "return"} => local[w].id \in local[w].page.ids
         /\ pc[w] = "return" => local[w].todo = {}
<1>1. local[w] \in Locals /\ PhaseOf(pc[w], local[w])
  BY DEF SInv, HandlersTyped
<1>2. local[w].page \in PageMessages /\ local[w].page.ids \subseteq Ids
  BY <1>1 DEF Locals, PageMessages
<1> QED BY <1>1, <1>2, StepsApart DEF PhaseOf

LEMMA OnFix ==
  ASSUME SInv, NEW w \in Workers, pc[w] \in FixSteps
  PROVE  /\ local[w] \in Locals /\ local[w].page = NoIds /\ local[w].page.ids = {}
         /\ local[w].fix \in FixMessages /\ local[w].found = {}
         /\ local[w].fix.orphan \in Ids /\ local[w].fix.current \in Ids
         /\ local[w].fix.tries \in 0..MaxDequeue
<1>1. local[w] \in Locals /\ PhaseOf(pc[w], local[w])
  BY DEF SInv, HandlersTyped
<1>2. local[w].page = NoIds /\ local[w].fix \in FixMessages /\ local[w].found = {}
  BY <1>1, StepsApart DEF PhaseOf
<1> QED BY <1>1, <1>2 DEF NoIds, FixMessages

LEMMA AtNothing ==
  ASSUME SInv, NEW w \in Workers, pc[w] = "idle"
  PROVE  local[w] = Idle
BY DEF SInv, HandlersTyped, PhaseOf, PageSteps, FixSteps

LEMMA HasIsOnPage ==
  ASSUME SInv, NEW w \in Workers, NEW i \in local[w].page.ids
  PROVE  pc[w] \in PageSteps
<1>1. PhaseOf(pc[w], local[w])
  BY DEF SInv, HandlersTyped
<1> QED BY <1>1 DEF PhaseOf, Idle, NoIds

-----------------------------------------------------------------------------
(* A handler works on with the page or message it has: it keeps what it    *)
(* has in hand, and what it finds has been left.                           *)
Works(w) ==
  /\ Others(w)
  /\ local'[w].page = local[w].page /\ local'[w].fix = local[w].fix
  /\ pc[w] \in FixSteps <=> pc'[w] \in FixSteps
  /\ pc'[w] = "detect" => local'[w].id = IdOf(local'[w].id[1])
  /\ \A f \in local'[w].found : f \in local[w].found \/ HasLeft(f.orphan)
  /\ UNCHANGED <<world, dates, start, cutOff, overlapped, reported, pages, fixes, synced>>
  /\ \A k \in Cases : Has(w, k) /\ InHand(w, k) => InHand(w, k)'

LEMMA NextWorks ==
  ASSUME SInv, NEW w \in Workers, NextEvent(w)
  PROVE  HandlersTyped' /\ Works(w)
<1>0. pc[w] = "next" /\ pc[w] \in PageSteps
  BY DEF NextEvent, PageSteps
<1>1. CASE local[w].todo = {}
  <2>1. PhaseOf("return", local[w])
    BY <1>0, <1>1, OnPage DEF PhaseOf, PageSteps
  <2>2. Goto(w, "return") /\ UNCHANGED local
    BY <1>1 DEF NextEvent
  <2>3. HandlersTyped' /\ Others(w) /\ pc'[w] = "return" /\ local'[w] = local[w]
    BY <2>1, <2>2, OnlyStep DEF PageSteps
  <2> QED BY <1>0, <2>3 DEF Works, NextEvent, timer, store, queues, story, InHand, AtIt, IdOf,
             world, FixSteps
<1>2. CASE local[w].todo # {}
  <2>1. PICK i \in local[w].todo : local' = [local EXCEPT ![w].id = i, ![w].todo = @ \ {i}]
    BY <1>2 DEF NextEvent
  <2> DEFINE l == [local[w] EXCEPT !.id = i, !.todo = @ \ {i}]
  <2>2. local[w] \in Locals /\ i \in local[w].page.ids /\ i \in Ids
    BY <1>0, OnPage
  <2>3. l \in Locals
    BY <2>2 DEF Locals
  <2>4. /\ l.page = local[w].page /\ l.fix = local[w].fix /\ l.id = i
        /\ l.todo = local[w].todo \ {i} /\ l.found = local[w].found
        /\ l.failed = local[w].failed
    BY <2>2 DEF Locals
  <2>5. local' = [local EXCEPT ![w] = l]
    BY <2>1
  <2> HIDE DEF l
  <2>6. PhaseOf("detail", l)
    BY <1>0, <2>2, <2>4, OnPage DEF PhaseOf, PageSteps
  <2>7. pc' = [pc EXCEPT ![w] = "detail"]
    BY <1>2 DEF NextEvent, Goto
  <2>8. HandlersTyped' /\ Others(w) /\ pc'[w] = "detail" /\ local'[w] = l
    BY <2>3, <2>5, <2>6, <2>7, OneMoves DEF PageSteps
  <2>9. ASSUME NEW k \in Cases, InHand(w, k) PROVE InHand(w, k)'
    BY <1>0, <2>4, <2>8, <2>9 DEF NextEvent, InHand, AtIt, IdOf, world, store
  <2> QED BY <1>0, <2>4, <2>8, <2>9
          DEF Works, NextEvent, timer, store, queues, story, FixSteps
<1> QED BY <1>1, <1>2

LEMMA DetailWorks ==
  ASSUME SInv, NEW w \in Workers, GetDetail(w)
  PROVE  HandlersTyped' /\ Works(w)
<1>0. pc[w] = "detail" /\ pc[w] \in PageSteps
  BY DEF GetDetail, PageSteps
<1> DEFINE i == local[w].id
<1>1. local[w] \in Locals /\ i \in local[w].page.ids /\ i \in Ids
  BY <1>0, OnPage
<1>2. CASE i = IdOf(i[1])
  <2> DEFINE l == [local[w] EXCEPT !.read = dxtr[i[1]].fields]
  <2>1. i[1] \in Cases /\ dxtr[i[1]].fields \in Changes
    BY <1>1, IdShape DEF SInv, WorldTyped
  <2>2. l \in Locals
    BY <1>1, <2>1 DEF Locals
  <2>3. /\ l.page = local[w].page /\ l.fix = local[w].fix /\ l.id = i
        /\ l.todo = local[w].todo /\ l.found = local[w].found
        /\ l.failed = local[w].failed /\ l.read = dxtr[i[1]].fields
    BY <1>1 DEF Locals
  <2>4. local' = [local EXCEPT ![w] = l] /\ pc' = [pc EXCEPT ![w] = "detect"]
    BY <1>2 DEF GetDetail, Goto
  <2> HIDE DEF l
  <2>5. PhaseOf("detect", l)
    BY <1>0, <2>3, OnPage DEF PhaseOf, PageSteps
  <2>6. HandlersTyped' /\ Others(w) /\ pc'[w] = "detect" /\ local'[w] = l
    BY <2>2, <2>4, <2>5, OneMoves DEF PageSteps
  <2>7. UNCHANGED <<dxtr, synced>>
    BY DEF GetDetail, world, store
  <2>8. ASSUME NEW k \in Cases, InHand(w, k) PROVE InHand(w, k)'
    <3>1. i = IdOf(k) => k = i[1]
      BY IdOfTyped DEF SInv
    <3> QED BY <1>0, <2>3, <2>6, <2>7, <2>8, <3>1 DEF InHand, AtIt, IdOf
  <2> QED BY <1>0, <1>2, <2>3, <2>6, <2>8
          DEF Works, GetDetail, timer, store, queues, story, FixSteps
<1>3. CASE i # IdOf(i[1])
  <2>1. PhaseOf("lookup", local[w])
    BY <1>0, <1>1, OnPage DEF PhaseOf, PageSteps
  <2>2. Goto(w, "lookup") /\ UNCHANGED local
    BY <1>3 DEF GetDetail
  <2>3. HandlersTyped' /\ Others(w) /\ pc'[w] = "lookup" /\ local'[w] = local[w]
    BY <2>1, <2>2, OnlyStep DEF PageSteps
  <2>4. UNCHANGED <<dxtr, synced>>
    BY DEF GetDetail, world, store
  <2>5. ASSUME NEW k \in Cases, InHand(w, k) PROVE InHand(w, k)'
    BY <1>0, <2>3, <2>4, <2>5 DEF InHand, AtIt, IdOf
  <2> QED BY <1>0, <2>3, <2>5
          DEF Works, GetDetail, timer, store, queues, story, FixSteps
<1> QED BY <1>2, <1>3

LEMMA DetectWorks ==
  ASSUME SInv, CInv, NEW w \in Workers, Detect(w)
  PROVE  HandlersTyped' /\ Works(w)
<1>0. pc[w] = "detect" /\ pc[w] \in PageSteps
  BY DEF Detect, PageSteps
<1> DEFINE i == local[w].id
<1>1. local[w] \in Locals /\ i \in local[w].page.ids /\ i \in Ids
  BY <1>0, OnPage
<1>2. UNCHANGED <<dxtr, synced>> /\ pc' = [pc EXCEPT ![w] = "existing"]
  BY DEF Detect, world, store, Goto
<1>3. PICK F \in SUBSET Pairs :
        /\ local' = [local EXCEPT ![w].found = F]
        /\ \A f \in F : f \in local[w].found \/ HasLeft(f.orphan)
  <2>1. CASE UNCHANGED local
    <3>1. local' = [local EXCEPT ![w].found = local[w].found]
      BY <2>1, <1>1 DEF SInv, HandlersTyped, Locals
    <3> QED BY <1>1, <3>1 DEF Locals
  <2>2. CASE ~UNCHANGED local
    <3>1. PICK o \in Unmoved(i[1]) : local' = [local EXCEPT ![w].found = @ \cup
            (IF o = i THEN {} ELSE {[orphan |-> o, current |-> i]})]
      BY <2>2 DEF Detect
    <3>2. o \in Ids /\ o[1] = i[1] /\ synced[o].fields # 0
      BY DEF Unmoved
    <3>3. ASSUME o # i PROVE HasLeft(o)
      <4>1. Visited(o)
        BY <3>2 DEF CInv, IdsVisited
      <4>2. CASE o[2] # dxtr[o[1]].division
        BY <4>1, <4>2 DEF Visited, HasLeft
      <4>3. CASE o[2] = dxtr[o[1]].division
        <5>1. o = IdOf(i[1])
          BY <3>2, <4>3, IdShape DEF IdOf
        <5>2. dxtr[i[1]].division \in dxtr[i[1]].left \/ i[1] \in overlapped
          BY <1>0, <3>2, <3>3, <5>1 DEF CInv, FreshUnseen
        <5> QED BY <3>2, <4>3, <5>2 DEF HasLeft
      <4> QED BY <4>2, <4>3
    <3>4. [orphan |-> o, current |-> i] \in Pairs
      BY <1>1, <3>2 DEF Pairs
    <3>5. local[w].found \in SUBSET Pairs
      BY <1>1 DEF Locals
    <3> DEFINE G == local[w].found \cup
                      (IF o = i THEN {} ELSE {[orphan |-> o, current |-> i]})
    <3>6. local' = [local EXCEPT ![w].found = G]
      BY <3>1
    <3>7. G \in SUBSET Pairs /\ \A f \in G : f \in local[w].found \/ HasLeft(f.orphan)
      BY <3>3, <3>4, <3>5
    <3> QED BY <3>6, <3>7
  <2> QED BY <2>1, <2>2
<1> DEFINE l == [local[w] EXCEPT !.found = F]
<1>4. l \in Locals
  BY <1>1 DEF Locals
<1>5. /\ l.page = local[w].page /\ l.fix = local[w].fix /\ l.id = i
      /\ l.todo = local[w].todo /\ l.found = F
      /\ l.failed = local[w].failed /\ l.read = local[w].read
  BY <1>1 DEF Locals
<1>6. local' = [local EXCEPT ![w] = l]
  BY <1>3
<1> HIDE DEF l
<1>7. PhaseOf("existing", l)
  BY <1>0, <1>5, OnPage DEF PhaseOf, PageSteps
<1>8. HandlersTyped' /\ Others(w) /\ pc'[w] = "existing" /\ local'[w] = l
  BY <1>2, <1>4, <1>6, <1>7, OneMoves DEF PageSteps
<1>9. ASSUME NEW k \in Cases, InHand(w, k) PROVE InHand(w, k)'
  BY <1>0, <1>2, <1>5, <1>8, <1>9 DEF InHand, AtIt, IdOf
<1> QED BY <1>0, <1>3, <1>5, <1>8, <1>9
        DEF Works, Detect, timer, store, queues, story, FixSteps

LEMMA ExistingWorks ==
  ASSUME SInv, NEW w \in Workers, GetExisting(w)
  PROVE  HandlersTyped' /\ Works(w)
<1>0. pc[w] = "existing" /\ pc[w] \in PageSteps
  BY DEF GetExisting, PageSteps
<1> DEFINE i == local[w].id
           n == IF i \in Unmoved(i[1]) THEN synced[i].fields ELSE 0
           l == [local[w] EXCEPT !.seen = n]
<1>1. local[w] \in Locals /\ i \in local[w].page.ids /\ i \in Ids
  BY <1>0, OnPage
<1>2. UNCHANGED <<dxtr, synced>> /\ pc' = [pc EXCEPT ![w] = "sync"]
  BY DEF GetExisting, world, store, Goto
<1>3. n \in Changes
  BY <1>1, CaseAssumption DEF SInv, StoreTyped, Changes
<1>4. local' = [local EXCEPT ![w] = l]
  BY DEF GetExisting
<1> HIDE DEF n
<1>5. l \in Locals
  BY <1>1, <1>3 DEF Locals
<1>6. /\ l.page = local[w].page /\ l.fix = local[w].fix /\ l.id = i
      /\ l.todo = local[w].todo /\ l.found = local[w].found
      /\ l.failed = local[w].failed /\ l.read = local[w].read
  BY <1>1 DEF Locals
<1> HIDE DEF l
<1>7. PhaseOf("sync", l)
  BY <1>0, <1>6, OnPage DEF PhaseOf, PageSteps
<1>8. HandlersTyped' /\ Others(w) /\ pc'[w] = "sync" /\ local'[w] = l
  BY <1>2, <1>4, <1>5, <1>7, OneMoves DEF PageSteps
<1>9. ASSUME NEW k \in Cases, InHand(w, k) PROVE InHand(w, k)'
  BY <1>0, <1>2, <1>6, <1>8, <1>9 DEF InHand, AtIt, IdOf
<1> QED BY <1>0, <1>6, <1>8, <1>9
        DEF Works, GetExisting, timer, store, queues, story, FixSteps

(* The event at hand has failed, or is at its end.                         *)
LEMMA FailedIsInHand ==
  ASSUME SInv, NEW w \in Workers, pc[w] \in PageSteps, NEW F \in SUBSET Ids,
         local[w].failed \subseteq F,
         local[w].id \in F \/ pc[w] = "patch"
           \/ \A k \in Cases : ~AtIt(w, k),
         local' = [local EXCEPT ![w].failed = F], Goto(w, "next"),
         UNCHANGED <<dxtr, synced>>
  PROVE  /\ HandlersTyped' /\ Others(w) /\ pc'[w] = "next"
         /\ local'[w].page = local[w].page /\ local'[w].fix = local[w].fix
         /\ local'[w].found = local[w].found
         /\ \A k \in Cases : InHand(w, k) => InHand(w, k)'
<1> DEFINE l == [local[w] EXCEPT !.failed = F]
<1>1. local[w] \in Locals
  BY OnPage
<1>2. l \in Locals
  BY <1>1 DEF Locals
<1>3. /\ l.page = local[w].page /\ l.fix = local[w].fix /\ l.id = local[w].id
      /\ l.todo = local[w].todo /\ l.found = local[w].found
      /\ l.failed = F /\ l.read = local[w].read
  BY <1>1 DEF Locals
<1>4. local' = [local EXCEPT ![w] = l] /\ pc' = [pc EXCEPT ![w] = "next"]
  BY DEF Goto
<1> HIDE DEF l
<1>5. PhaseOf("next", l)
  BY <1>3, OnPage DEF PhaseOf, PageSteps
<1>6. HandlersTyped' /\ Others(w) /\ pc'[w] = "next" /\ local'[w] = l
  BY <1>2, <1>4, <1>5, OneMoves DEF PageSteps
<1>7. ASSUME NEW k \in Cases, InHand(w, k) PROVE InHand(w, k)'
  <2>1. IdOf(k)' = IdOf(k)
    BY DEF IdOf
  <2>2. CASE IdOf(k) \in local[w].todo \cup local[w].failed
    BY <1>3, <1>6, <2>1, <2>2 DEF InHand
  <2>3. CASE AtIt(w, k)
    <3>1. IdOf(k) \in F
      BY <2>3 DEF AtIt
    <3> QED BY <1>3, <1>6, <2>1, <3>1 DEF InHand
  <2>4. CASE ~AtIt(w, k) /\ synced[IdOf(k)].fields = dxtr[k].fields
    <3>1. ~AtIt(w, k)'
      BY <1>6 DEF AtIt
    <3> QED BY <2>1, <2>4, <3>1 DEF InHand
  <2> QED BY <1>7, <2>2, <2>3, <2>4 DEF InHand
<1> QED BY <1>3, <1>6, <1>7

LEMMA PatchWorks ==
  ASSUME SInv, NEW w \in Workers, Patch(w)
  PROVE  HandlersTyped' /\ Works(w)
<1>0. pc[w] = "patch" /\ pc[w] \in PageSteps
  BY DEF Patch, PageSteps
<1>1. local[w] \in Locals /\ local[w].id \in Ids /\ local[w].failed \in SUBSET Ids
  BY <1>0, OnPage DEF Locals
<1>2. UNCHANGED <<dxtr, synced>> /\ Goto(w, "next")
  BY DEF Patch, world, store
<1>3. PICK F \in SUBSET Ids : local[w].failed \subseteq F
                           /\ local' = [local EXCEPT ![w].failed = F]
  <2>1. CASE UNCHANGED local
    <3>1. local' = [local EXCEPT ![w].failed = local[w].failed]
      BY <2>1, <1>1 DEF SInv, HandlersTyped, Locals
    <3> QED BY <1>1, <3>1
  <2>2. CASE ~UNCHANGED local
    <3>1. local' = [local EXCEPT ![w].failed = local[w].failed \cup {local[w].id}]
      BY <2>2 DEF Patch
    <3>2. local[w].failed \cup {local[w].id} \in SUBSET Ids
      BY <1>1
    <3> QED BY <3>1, <3>2
  <2> QED BY <2>1, <2>2
<1>4. /\ HandlersTyped' /\ Others(w) /\ pc'[w] = "next"
      /\ local'[w].page = local[w].page /\ local'[w].fix = local[w].fix
      /\ local'[w].found = local[w].found
      /\ \A k \in Cases : InHand(w, k) => InHand(w, k)'
  BY <1>0, <1>2, <1>3, FailedIsInHand
<1> QED BY <1>0, <1>4 DEF Works, Patch, timer, store, queues, story, FixSteps

LEMMA LookupWorks ==
  ASSUME SInv, NEW w \in Workers, Lookup(w)
  PROVE  HandlersTyped' /\ Works(w)
<1>0. pc[w] = "lookup" /\ pc[w] \in PageSteps
  BY DEF Lookup, PageSteps
<1>1. local[w] \in Locals /\ local[w].id \in local[w].page.ids /\ local[w].id \in Ids
      /\ local[w].failed \in SUBSET Ids
  BY <1>0, OnPage DEF Locals
<1>2. UNCHANGED <<dxtr, synced>>
  BY DEF Lookup, world, store
<1>3. CASE local[w].id \in Unmoved(local[w].id[1])
  <2>1. PhaseOf("search", local[w])
    BY <1>0, <1>1, OnPage DEF PhaseOf, PageSteps
  <2>2. Goto(w, "search") /\ UNCHANGED local
    BY <1>3 DEF Lookup
  <2>3. HandlersTyped' /\ Others(w) /\ pc'[w] = "search" /\ local'[w] = local[w]
    BY <2>1, <2>2, OnlyStep DEF PageSteps
  <2>4. ASSUME NEW k \in Cases, InHand(w, k) PROVE InHand(w, k)'
    BY <1>0, <1>2, <2>3, <2>4 DEF InHand, AtIt, IdOf
  <2> QED BY <1>0, <2>3, <2>4 DEF Works, Lookup, timer, store, queues, story, FixSteps
<1>4. CASE local[w].id \notin Unmoved(local[w].id[1])
  <2> DEFINE F == local[w].failed \cup {local[w].id}
  <2>1. Goto(w, "next") /\ local' = [local EXCEPT ![w].failed = F]
    BY <1>4 DEF Lookup
  <2>2. F \in SUBSET Ids /\ local[w].failed \subseteq F /\ local[w].id \in F
    BY <1>1
  <2> HIDE DEF F
  <2>3. /\ HandlersTyped' /\ Others(w) /\ pc'[w] = "next"
        /\ local'[w].page = local[w].page /\ local'[w].fix = local[w].fix
        /\ local'[w].found = local[w].found
        /\ \A k \in Cases : InHand(w, k) => InHand(w, k)'
    BY <1>0, <1>2, <2>1, <2>2, FailedIsInHand
  <2> QED BY <1>0, <2>3 DEF Works, Lookup, timer, store, queues, story, FixSteps
<1> QED BY <1>3, <1>4

LEMMA SearchWorks ==
  ASSUME SInv, CInv, NEW w \in Workers, Search(w)
  PROVE  HandlersTyped' /\ Works(w)
<1>0. pc[w] = "search" /\ pc[w] \in PageSteps
  BY DEF Search, PageSteps
<1> DEFINE i == local[w].id
           F == local[w].found \cup
                  (IF IdOf(i[1]) = i THEN {} ELSE {[orphan |-> i, current |-> IdOf(i[1])]})
           G == local[w].failed \cup (IF IdOf(i[1]) = i THEN {i} ELSE {})
           l == [local[w] EXCEPT !.found = F, !.failed = G]
<1>1. local[w] \in Locals /\ i \in local[w].page.ids /\ i \in Ids /\ i[1] \in Cases
  BY <1>0, OnPage, IdShape
<1>2. UNCHANGED <<dxtr, synced>> /\ pc' = [pc EXCEPT ![w] = "next"]
  BY DEF Search, world, store, Goto
<1>3. IdOf(i[1]) \in Ids
  BY <1>1, IdOfTyped DEF SInv
<1>4. F \in SUBSET Pairs /\ G \in SUBSET Ids
  BY <1>1, <1>3 DEF Locals, Pairs
<1>5. \A f \in F : f \in local[w].found \/ HasLeft(f.orphan)
  <2>1. ASSUME IdOf(i[1]) # i PROVE HasLeft(i)
    <3>1. Visited(i)
      BY <1>1 DEF CInv, IdsVisited
    <3>2. i[2] # dxtr[i[1]].division
      BY <1>1, <2>1, IdShape DEF IdOf
    <3> QED BY <3>1, <3>2 DEF Visited, HasLeft
  <2> QED BY <2>1
<1>6. local' = [local EXCEPT ![w] = l]
  BY DEF Search
<1>7. IdOf(i[1]) = i => i \in G
  OBVIOUS
<1>8. local[w].failed \subseteq G
  OBVIOUS
<1> HIDE DEF F, G
<1>9. l \in Locals
  BY <1>1, <1>4 DEF Locals
<1>10. /\ l.page = local[w].page /\ l.fix = local[w].fix /\ l.id = i
       /\ l.todo = local[w].todo /\ l.found = F
       /\ l.failed = G /\ l.read = local[w].read
  BY <1>1 DEF Locals
<1> HIDE DEF l
<1>11. PhaseOf("next", l)
  BY <1>0, <1>10, OnPage DEF PhaseOf, PageSteps
<1>12. HandlersTyped' /\ Others(w) /\ pc'[w] = "next" /\ local'[w] = l
  BY <1>2, <1>6, <1>9, <1>11, OneMoves DEF PageSteps
<1>13. ASSUME NEW k \in Cases, InHand(w, k) PROVE InHand(w, k)'
  <2>1. AtIt(w, k) => IdOf(k) \in G
    BY <1>7, IdOfTyped DEF AtIt, SInv
  <2>2. IdOf(k)' = IdOf(k) /\ ~AtIt(w, k)'
    BY <1>2, <1>12 DEF IdOf, AtIt
  <2> QED BY <1>2, <1>8, <1>10, <1>12, <1>13, <2>1, <2>2 DEF InHand
<1> QED BY <1>0, <1>5, <1>10, <1>12, <1>13
        DEF Works, Search, timer, store, queues, story, FixSteps

LEMMA FailedCallWorks ==
  ASSUME SInv, NEW w \in Workers, CallFails(w)
  PROVE  HandlersTyped' /\ Works(w)
<1>0. pc[w] \in PageSteps \ {"next", "return", "patch"}
  BY DEF CallFails
<1>1. local[w] \in Locals /\ local[w].id \in local[w].page.ids /\ local[w].id \in Ids
      /\ local[w].failed \in SUBSET Ids
  BY <1>0, OnPage DEF Locals
<1>2. UNCHANGED <<dxtr, synced>>
  BY DEF CallFails, world, store
<1>3. ASSUME NEW s \in {"existing", "sync"}, Goto(w, s), UNCHANGED local,
             pc[w] \in {"detect", "existing"}
      PROVE  HandlersTyped' /\ Works(w)
  <2>1. PhaseOf(s, local[w])
    BY <1>0, <1>1, <1>3, OnPage DEF PhaseOf, PageSteps
  <2>2. HandlersTyped' /\ Others(w) /\ pc'[w] = s /\ local'[w] = local[w]
    BY <1>3, <2>1, OnlyStep DEF PageSteps
  <2>3. ASSUME NEW k \in Cases, InHand(w, k) PROVE InHand(w, k)'
    BY <1>2, <1>3, <2>2, <2>3 DEF InHand, AtIt, IdOf
  <2> QED BY <1>3, <2>2, <2>3 DEF Works, CallFails, timer, store, queues, story, FixSteps
<1>4. CASE pc[w] \in {"detect", "existing"}
  BY <1>3, <1>4 DEF CallFails
<1>5. CASE pc[w] \notin {"detect", "existing"}
  <2> DEFINE F == local[w].failed \cup {local[w].id}
  <2>1. Goto(w, "next") /\ local' = [local EXCEPT ![w].failed = F]
    BY <1>5 DEF CallFails
  <2>2. F \in SUBSET Ids /\ local[w].failed \subseteq F /\ local[w].id \in F
    BY <1>1
  <2> HIDE DEF F
  <2>3. /\ HandlersTyped' /\ Others(w) /\ pc'[w] = "next"
        /\ local'[w].page = local[w].page /\ local'[w].fix = local[w].fix
        /\ local'[w].found = local[w].found
        /\ \A k \in Cases : InHand(w, k) => InHand(w, k)'
    BY <1>0, <1>2, <2>1, <2>2, FailedIsInHand
  <2>4. pc[w] \notin FixSteps /\ pc'[w] \notin FixSteps /\ pc'[w] # "detect"
    BY <1>0, <2>3, StepsApart DEF PageSteps
  <2> QED BY <2>3, <2>4 DEF Works, CallFails, timer, store, queues, story
<1> QED BY <1>4, <1>5

(* The clean-up goes on: it has no page, so nothing in hand.               *)
LEMMA FixWorks ==
  ASSUME SInv, NEW w \in Workers, pc[w] \in FixSteps,
         NEW s \in FixSteps, NEW l \in Locals,
         l.page = local[w].page, l.fix = local[w].fix, l.found = local[w].found,
         pc' = [pc EXCEPT ![w] = s], local' = [local EXCEPT ![w] = l],
         UNCHANGED <<world, dates, start, cutOff, overlapped, reported, pages, fixes, synced>>
  PROVE  HandlersTyped' /\ Works(w)
<1>1. PhaseOf(s, l)
  BY OnFix, StepsApart DEF PhaseOf
<1>2. HandlersTyped' /\ Others(w) /\ pc'[w] = s /\ local'[w] = l
  BY <1>1, OneMoves
<1>3. \A k \in Cases : ~Has(w, k)
  BY OnFix DEF Has
<1>4. s # "detect"
  BY StepsApart DEF PageSteps
<1> QED BY <1>2, <1>3, <1>4 DEF Works

LEMMA CleanUpWorks ==
  ASSUME SInv, NEW w \in Workers,
         UpdateReferences(w) \/ List(w)
           \/ ((CheckOrphan(w) \/ Delete(w)) /\ UNCHANGED local)
  PROVE  HandlersTyped' /\ Works(w)
<1>0. pc[w] \in FixSteps
  BY DEF UpdateReferences, List, CheckOrphan, Delete, FixSteps
<1>1. local[w] \in Locals
  BY <1>0, OnFix
<1>2. local[w] # Idle
  BY <1>0, OnFix, CaseAssumption DEF Idle, FixMessages
<1>3. local' = local => local' = [local EXCEPT ![w] = local[w]]
  BY DEF SInv, HandlersTyped
<1>4. UNCHANGED <<world, dates, start, cutOff, overlapped, reported, pages, synced>>
  BY DEF UpdateReferences, List, CheckOrphan, Delete, timer, store, queues, story
<1>5. CASE UpdateReferences(w)
  <2>1. pc' = [pc EXCEPT ![w] = "list"] /\ UNCHANGED <<local, fixes>>
    BY <1>5 DEF UpdateReferences, Goto, queues
  <2> QED BY <1>0, <1>1, <1>3, <1>4, <2>1, FixWorks DEF FixSteps
<1>6. CASE List(w)
  <2> DEFINE M == {d \in At(Orphan(w)) : PartOf[d.item] = local[w].part}
             l == [local[w] EXCEPT !.moving = M]
  <2>1. M \in SUBSET Docs
    BY DEF SInv, StoreTyped, At
  <2>2. local' = [local EXCEPT ![w] = l]
    BY <1>6 DEF List
  <2> HIDE DEF M
  <2>3. l \in Locals
    BY <1>1, <2>1 DEF Locals
  <2>4. l.page = local[w].page /\ l.fix = local[w].fix /\ l.found = local[w].found
    BY <1>1 DEF Locals
  <2>5. pc' = [pc EXCEPT ![w] = "copy"] /\ UNCHANGED fixes
    BY <1>6 DEF List, Goto, queues
  <2> HIDE DEF l
  <2> QED BY <1>0, <1>4, <2>2, <2>3, <2>4, <2>5, FixWorks DEF FixSteps
<1>7. CASE (CheckOrphan(w) \/ Delete(w)) /\ UNCHANGED local
  <2>1. ~Rest(w)
    <3>1. local \in [Workers -> Locals]
      BY DEF SInv, HandlersTyped
    <3> QED BY <1>2, <1>7, <3>1 DEF Rest
  <2>2. PICK s \in {"references", "copy"} : pc' = [pc EXCEPT ![w] = s] /\ UNCHANGED fixes
    BY <1>7, <2>1 DEF CheckOrphan, Delete, GiveBack, Goto
  <2> QED BY <1>0, <1>1, <1>3, <1>4, <1>7, <2>2, FixWorks DEF FixSteps
<1> QED BY <1>5, <1>6, <1>7

LEMMA CopyWorks ==
  ASSUME SInv, NEW w \in Workers, Copy(w)
  PROVE  HandlersTyped' /\ Works(w) /\ StoreTyped'
<1>1. pc[w] = "copy" /\ pc[w] \in FixSteps
  <2>1. pc[w] = "copy"
    BY DEF Copy
  <2> QED BY <2>1 DEF FixSteps
<1>2. UNCHANGED <<world, timer, synced, pointer, unpatched, queues, story>>
  BY DEF Copy
<1>3. UNCHANGED <<world, dates, start, cutOff, overlapped, reported, pages, fixes, synced>>
  BY <1>2 DEF timer, queues, story
<1>4. local[w] \in Locals /\ local[w].fix.current \in Ids
  BY <1>1, OnFix
<1>5. local' = local => local' = [local EXCEPT ![w] = local[w]]
  BY DEF SInv, HandlersTyped
<1>6. CASE local[w].moving = {}
  <2>1. UNCHANGED <<docs, nextDoc>>
    BY <1>6 DEF Copy
  <2>2. StoreTyped'
    BY <1>2, <2>1 DEF SInv, StoreTyped
  <2>3. CASE local[w].part = "cases"
    <3>1. Goto(w, "mark") /\ UNCHANGED local
      BY <1>6, <2>3 DEF Copy
    <3> QED BY <1>1, <1>3, <1>4, <1>5, <2>2, <3>1, FixWorks DEF FixSteps, Goto
  <2>4. CASE local[w].part # "cases"
    <3> DEFINE l == [local[w] EXCEPT !.part = NextPart[local[w].part]]
    <3>1. Goto(w, "list") /\ local' = [local EXCEPT ![w].part = NextPart[local[w].part]]
      BY <1>6, <2>4 DEF Copy
    <3>2. pc' = [pc EXCEPT ![w] = "list"] /\ local' = [local EXCEPT ![w] = l]
      BY <3>1 DEF Goto
    <3>3. NextPart[local[w].part] \in Parts
      BY <1>4, <2>4 DEF Locals, Parts, NextPart
    <3>4. l \in Locals
      BY <1>4, <3>3 DEF Locals
    <3>5. l.page = local[w].page /\ l.fix = local[w].fix /\ l.found = local[w].found
      BY <1>4 DEF Locals
    <3> HIDE DEF l
    <3> QED BY <1>1, <1>3, <2>2, <3>2, <3>4, <3>5, FixWorks DEF FixSteps
  <2> QED BY <2>3, <2>4
<1>7. CASE local[w].moving # {}
  <2>1. PICK d \in local[w].moving :
          /\ docs' = docs \cup {[d EXCEPT !.no = nextDoc, !.at = Current(w)]}
          /\ nextDoc' = nextDoc + 1
          /\ local' = [local EXCEPT ![w].doc = d.no, ![w].moving = @ \ {d}]
          /\ Goto(w, "delete")
    BY <1>7 DEF Copy
  <2>2. d \in Docs /\ d.no \in Nat
    BY <1>4 DEF Locals, Docs
  <2>3. [d EXCEPT !.no = nextDoc, !.at = Current(w)] \in Docs
    BY <1>4, <2>2 DEF Docs, Current, SInv, StoreTyped
  <2>4. StoreTyped'
    BY <1>2, <2>1, <2>3 DEF SInv, StoreTyped
  <2> DEFINE l == [local[w] EXCEPT !.doc = d.no, !.moving = @ \ {d}]
  <2>5. pc' = [pc EXCEPT ![w] = "delete"] /\ local' = [local EXCEPT ![w] = l]
    BY <2>1 DEF Goto
  <2>6. l \in Locals
    BY <1>4, <2>2 DEF Locals
  <2>7. l.page = local[w].page /\ l.fix = local[w].fix /\ l.found = local[w].found
    BY <1>4 DEF Locals
  <2> HIDE DEF l
  <2> QED BY <1>1, <1>3, <2>4, <2>5, <2>6, <2>7, FixWorks DEF FixSteps
<1> QED BY <1>6, <1>7

(* What the invariant says of the other handlers and of the rest.          *)
LEMMA WorksKeeps ==
  ASSUME SInv, CInv, NEW w \in Workers, Works(w)
  PROVE  CInv'
<1>0. /\ \A v \in Workers \ {w} : local'[v] = local[v] /\ pc'[v] = pc[v]
      /\ UNCHANGED <<dxtr, dates, start, cutOff, overlapped, reported, pages, fixes, synced>>
  BY DEF Works, Others, world
<1>1. \A v \in Workers : local'[v].page = local[v].page /\ local'[v].fix = local[v].fix
  BY <1>0 DEF Works
<1>2. OverlapSeen'
  BY <1>0, <1>1 DEF CInv, OverlapSeen, CasesOf
<1>3. IdsVisited'
  BY <1>0, <1>1 DEF CInv, IdsVisited, Visited
<1>4. FreshUnseen'
  <2>1. ASSUME NEW v \in Workers, pc'[v] = "detect"
        PROVE  LET k == local'[v].id[1] IN
                 \/ local'[v].id = IdOf(k) \/ dxtr[k].division \in dxtr[k].left
                 \/ k \in overlapped \/ synced[IdOf(k)].fields = 0
    <3>1. CASE v = w
      BY <2>1, <3>1 DEF Works
    <3>2. CASE v # w
      BY <1>0, <2>1, <3>2 DEF CInv, FreshUnseen
    <3> QED BY <3>1, <3>2
  <2> QED BY <1>0, <2>1 DEF FreshUnseen, IdOf
<1>5. OrphansLeft'
  <2>1. \A i : HasLeft(i)' <=> HasLeft(i)
    BY <1>0 DEF HasLeft
  <2>2. \A v \in Workers : \A f \in local'[v].found : HasLeft(f.orphan)
    BY <1>0 DEF Works, CInv, OrphansLeft
  <2>3. \A v \in Workers : pc'[v] \in FixSteps => HasLeft(local'[v].fix.orphan)
    BY <1>0, <1>1 DEF Works, CInv, OrphansLeft
  <2>4. (\A m \in BagToSet(fixes) : HasLeft(m.orphan))
        /\ \A i \in Ids : synced[i].movedTo # NoId => HasLeft(i)
    BY DEF CInv, OrphansLeft
  <2> QED BY <1>0, <2>1, <2>2, <2>3, <2>4 DEF OrphansLeft
<1>6. StartKnows'
  BY <1>0 DEF CInv, StartKnows, Behind, Ahead, IdOf
<1>7. ASSUME NEW k \in Cases PROVE NotMissed(k)'
  <2>1. NotMissed(k)
    BY DEF CInv
  <2>2. IdOf(k)' = IdOf(k) /\ ToCome(k)' = ToCome(k)
    BY <1>0 DEF IdOf, ToCome, Behind
  <2>3. \A v \in Workers : Has(v, k)' <=> Has(v, k)
    BY <1>1, <2>2 DEF Has
  <2>4. \A v \in Workers \ {w} : InHand(v, k)' <=> InHand(v, k)
    BY <1>0, <2>2 DEF InHand, AtIt
  <2>5. Has(w, k) /\ InHand(w, k) => InHand(w, k)'
    BY DEF Works
  <2> QED BY <1>0, <2>1, <2>2, <2>3, <2>4, <2>5 DEF NotMissed
<1> QED BY <1>2, <1>3, <1>4, <1>5, <1>6, <1>7 DEF CInv

(* The write of a case: the handler has it to itself, or overlapped.       *)
LEMMA SyncKeeps ==
  ASSUME SInv, CInv, NEW w \in Workers, SyncCase(w)
  PROVE  HandlersTyped' /\ StoreTyped' /\ CInv'
<1> DEFINE i == local[w].id
<1>0. pc[w] = "sync" /\ pc[w] \in PageSteps
  BY DEF SyncCase, PageSteps
<1>1. local[w] \in Locals /\ i \in local[w].page.ids /\ i \in Ids /\ i[1] \in Cases
  BY <1>0, OnPage, IdShape
<1>2. HandlersTyped' /\ Others(w) /\ pc'[w] = "patch" /\ local'[w] = local[w]
  <2>1. PhaseOf("patch", local[w])
    BY <1>0, <1>1, OnPage DEF PhaseOf, PageSteps
  <2>2. Goto(w, "patch") /\ UNCHANGED local
    BY DEF SyncCase
  <2> QED BY <2>1, <2>2, OnlyStep DEF PageSteps
<1>3. UNCHANGED <<local, dxtr, dates, start, cutOff, overlapped, reported, pages, fixes,
                  docs, nextDoc, pointer>>
  BY DEF SyncCase, world, timer, queues, story
<1>4. /\ synced' = [synced EXCEPT ![i].fields = local[w].read]
      /\ synced \in [Ids -> [fields : Changes, movedTo : Ids \cup {NoId}]]
      /\ local[w].read \in Changes
  BY <1>1 DEF SyncCase, SInv, StoreTyped, Locals
<1>5. /\ synced' \in [Ids -> [fields : Changes, movedTo : Ids \cup {NoId}]]
      /\ synced'[i].fields = local[w].read
      /\ \A j \in Ids : synced'[j].movedTo = synced[j].movedTo
      /\ \A j \in Ids : j # i => synced'[j] = synced[j]
  BY <1>1, <1>4
<1>6. StoreTyped'
  <2>1. unpatched' \subseteq Ids
    BY <1>1 DEF SyncCase, SInv, StoreTyped
  <2> QED BY <1>3, <1>5, <2>1 DEF SInv, StoreTyped
<1>7. OverlapSeen' /\ StartKnows'
  BY <1>3 DEF CInv, OverlapSeen, CasesOf, StartKnows, Behind, Ahead, IdOf
<1>8. IdsVisited'
  <2>1. Visited(i)
    BY <1>1 DEF CInv, IdsVisited
  <2>2. \A j \in Ids : synced'[j].fields # 0 => Visited(j)
    BY <1>5, <2>1 DEF CInv, IdsVisited
  <2> QED BY <1>3, <2>2 DEF CInv, IdsVisited, Visited
<1>9. ASSUME NEW v \in Workers \ {w}, NEW k \in Cases, IdOf(k) = i,
             \E j \in local[v].page.ids : j[1] = k
      PROVE  k \in overlapped
  <2>1. i[1] = k
    BY <1>9, IdOfTyped DEF SInv
  <2>2. k \in CasesOf(local[v]) /\ k \in CasesOf(local[w])
    BY <1>1, <1>9, <2>1 DEF CasesOf
  <2> QED BY <2>2 DEF CInv, OverlapSeen
<1>10. FreshUnseen'
  <2>1. ASSUME NEW v \in Workers, pc'[v] = "detect"
        PROVE  LET k == local[v].id[1] IN
                 \/ local[v].id = IdOf(k) \/ dxtr[k].division \in dxtr[k].left
                 \/ k \in overlapped \/ synced'[IdOf(k)].fields = 0
    <3> DEFINE k == local[v].id[1]
    <3>1. v # w /\ pc[v] = "detect"
      BY <1>2, <2>1 DEF Others
    <3>2. local[v].id \in local[v].page.ids /\ local[v].id \in Ids /\ k \in Cases
      BY <3>1, OnPage, IdShape DEF PageSteps
    <3>3. \/ local[v].id = IdOf(k) \/ dxtr[k].division \in dxtr[k].left
          \/ k \in overlapped \/ synced[IdOf(k)].fields = 0
      BY <3>1 DEF CInv, FreshUnseen
    <3>4. IdOf(k) = i => k \in overlapped
      BY <1>9, <3>1, <3>2
    <3>5. IdOf(k) \in Ids
      BY <3>2, IdOfTyped DEF SInv
    <3> QED BY <1>5, <3>3, <3>4, <3>5
  <2> QED BY <1>3, <2>1 DEF FreshUnseen, IdOf
<1>11. OrphansLeft'
  <2>1. \A v \in Workers : pc'[v] \in FixSteps => pc[v] \in FixSteps
    BY <1>2, StepsApart DEF Others, PageSteps
  <2> QED BY <1>3, <1>5, <2>1 DEF CInv, OrphansLeft, HasLeft
<1>12. ASSUME NEW k \in Cases PROVE NotMissed(k)'
  <2>1. NotMissed(k)
    BY DEF CInv
  <2>2. IdOf(k)' = IdOf(k) /\ ToCome(k)' = ToCome(k) /\ IdOf(k) \in Ids
    BY <1>3, IdOfTyped DEF IdOf, ToCome, Behind, SInv
  <2>3. \A v \in Workers : Has(v, k)' <=> Has(v, k)
    BY <1>3, <2>2 DEF Has
  <2>4. CASE IdOf(k) # i
    <3>1. synced'[IdOf(k)] = synced[IdOf(k)]
      BY <1>5, <2>2, <2>4
    <3>2. \A v \in Workers \ {w} : InHand(v, k)' <=> InHand(v, k)
      BY <1>2, <1>3, <2>2, <3>1 DEF InHand, AtIt, Others
    <3>3. ~AtIt(w, k) /\ ~AtIt(w, k)'
      BY <1>2, <1>3, <2>2, <2>4 DEF AtIt
    <3>4. InHand(w, k)' <=> InHand(w, k)
      BY <1>2, <1>3, <2>2, <3>1, <3>3 DEF InHand
    <3> QED BY <1>3, <2>1, <2>2, <2>3, <3>1, <3>2, <3>4 DEF NotMissed
  <2>5. CASE IdOf(k) = i
    <3>1. \A v \in Workers \ {w} : Has(v, k) => k \in overlapped
      BY <1>9, <2>5, IdOfTyped DEF Has, SInv
    <3>2. Has(w, k)
      BY <1>1, <2>5 DEF Has
    <3>3. InHand(w, k) => InHand(w, k)'
      <4>1. AtIt(w, k) /\ ~AtIt(w, k)'
        BY <1>0, <1>2, <2>5 DEF AtIt
      <4>2. CASE local[w].read = dxtr[k].fields
        BY <1>3, <1>5, <2>2, <2>5, <4>1, <4>2 DEF InHand
      <4>3. CASE IdOf(k) \in local[w].todo \cup local[w].failed
        BY <1>3, <2>2, <4>3 DEF InHand
      <4> QED BY <1>0, <4>1, <4>2, <4>3 DEF InHand
    <3> QED BY <1>3, <2>1, <2>2, <2>3, <3>1, <3>2, <3>3 DEF NotMissed
  <2> QED BY <2>4, <2>5
<1> QED BY <1>2, <1>6, <1>7, <1>8, <1>10, <1>11, <1>12 DEF CInv

(* A handler is done: what it had in hand is on its way again, reported,   *)
(* or in CAMS, and what it tells the clean-up has been left.               *)
Rests(w) ==
  /\ Others(w) /\ pc'[w] = "idle" /\ local'[w] = Idle
  /\ UNCHANGED <<dxtr, dates, start, cutOff, overlapped>>
  /\ \A i \in Ids : /\ synced'[i].fields = synced[i].fields
                    /\ synced'[i].movedTo # NoId => synced[i].movedTo # NoId \/ HasLeft(i)
  /\ BagToSet(pages) \subseteq BagToSet(pages')
  /\ \A m \in BagToSet(pages') : m \in BagToSet(pages) \/ m.ids = local[w].page.ids
  /\ \A m \in BagToSet(fixes') : m \in BagToSet(fixes) \/ HasLeft(m.orphan)
  /\ \A k \in Cases : IdOf(k) \in reported => Has(w, k) \/ IdOf(k) \in reported'
  /\ \A k \in Cases : Has(w, k) /\ InHand(w, k) =>
       \/ \E m \in BagToSet(pages') : IdOf(k) \in m.ids
       \/ IdOf(k) \in reported'
       \/ synced[IdOf(k)].fields = dxtr[k].fields

LEMMA RestsKeeps ==
  ASSUME SInv, CInv, NEW w \in Workers, Rests(w)
  PROVE  CInv'
<1>0. /\ \A v \in Workers \ {w} : local'[v] = local[v] /\ pc'[v] = pc[v]
      /\ UNCHANGED <<dxtr, dates, start, cutOff, overlapped>>
      /\ pc'[w] = "idle" /\ local'[w] = Idle
  BY DEF Rests, Others
<1>1. /\ Idle.page.ids = {} /\ Idle.fix.orphan = NoId /\ Idle.found = {}
      /\ "idle" \notin PageSteps /\ "idle" \notin FixSteps
  BY DEF Idle, PageSteps, FixSteps
<1>2. OverlapSeen'
  <2>1. CasesOf(Idle) = {}
    BY <1>1 DEF CasesOf
  <2> QED BY <1>0, <2>1 DEF CInv, OverlapSeen, CasesOf
<1>3. IdsVisited'
  <2>1. \A i : Visited(i)' <=> Visited(i)
    BY <1>0 DEF Visited
  <2>2. \A m \in BagToSet(pages') : \A i \in m.ids : Visited(i)
    BY DEF Rests, CInv, IdsVisited
  <2>3. \A v \in Workers : \A i \in local'[v].page.ids : Visited(i)
    BY <1>0, <1>1 DEF CInv, IdsVisited
  <2>4. \A i \in Ids : synced'[i].fields # 0 => Visited(i)
    BY DEF Rests, CInv, IdsVisited
  <2>5. \A i \in start'.ids : Visited(i)
    BY <1>0 DEF CInv, IdsVisited
  <2> QED BY <2>1, <2>2, <2>3, <2>4, <2>5 DEF IdsVisited
<1>4. FreshUnseen'
  <2>1. ASSUME NEW v \in Workers, pc'[v] = "detect"
        PROVE  LET k == local'[v].id[1] IN
                 \/ local'[v].id = IdOf(k) \/ dxtr[k].division \in dxtr[k].left
                 \/ k \in overlapped \/ synced'[IdOf(k)].fields = 0
    <3> DEFINE k == local[v].id[1]
    <3>1. v # w /\ pc[v] = "detect" /\ local'[v] = local[v]
      BY <1>0, <2>1
    <3>2. local[v].id \in Ids /\ k \in Cases
      BY <3>1, OnPage, IdShape DEF PageSteps
    <3>3. IdOf(k) \in Ids
      BY <3>2, IdOfTyped DEF SInv
    <3>4. synced'[IdOf(k)].fields = synced[IdOf(k)].fields
      BY <3>3 DEF Rests
    <3> QED BY <3>1, <3>4 DEF CInv, FreshUnseen
  <2> QED BY <1>0, <2>1 DEF FreshUnseen, IdOf
<1>5. OrphansLeft'
  <2>1. \A i : HasLeft(i)' <=> HasLeft(i)
    BY <1>0 DEF HasLeft
  <2>2. \A v \in Workers : \A f \in local'[v].found : HasLeft(f.orphan)
    BY <1>0, <1>1 DEF CInv, OrphansLeft
  <2>3. \A v \in Workers : pc'[v] \in FixSteps => HasLeft(local'[v].fix.orphan)
    BY <1>0, <1>1 DEF CInv, OrphansLeft
  <2>4. \A m \in BagToSet(fixes') : HasLeft(m.orphan)
    BY DEF Rests, CInv, OrphansLeft
  <2>5. \A i \in Ids : synced'[i].movedTo # NoId => HasLeft(i)
    BY DEF Rests, CInv, OrphansLeft
  <2> QED BY <2>1, <2>2, <2>3, <2>4, <2>5 DEF OrphansLeft
<1>6. StartKnows'
  BY <1>0 DEF CInv, StartKnows, Behind, Ahead, IdOf
<1>7. ASSUME NEW k \in Cases PROVE NotMissed(k)'
  <2>1. NotMissed(k)
    BY DEF CInv
  <2>2. IdOf(k)' = IdOf(k) /\ IdOf(k) \in Ids
    BY <1>0, IdOfTyped DEF IdOf, SInv
  <2>3. ToCome(k) => ToCome(k)'
    BY <1>0, <2>2 DEF ToCome, Behind, Rests
  <2>4. synced'[IdOf(k)].fields = synced[IdOf(k)].fields
    BY <2>2 DEF Rests
  <2>5. \A v \in Workers \ {w} : Has(v, k)' <=> Has(v, k)
    BY <1>0, <2>2 DEF Has
  <2>6. \A v \in Workers \ {w} : InHand(v, k)' <=> InHand(v, k)
    BY <1>0, <2>2, <2>4 DEF InHand, AtIt
  <2>7. ~Has(w, k)'
    BY <1>0, <1>1 DEF Has
  <2>8. Has(w, k) /\ InHand(w, k) =>
          ToCome(k)' \/ IdOf(k) \in reported' \/ synced[IdOf(k)].fields = dxtr[k].fields
    BY <2>2 DEF Rests, ToCome
  <2>9. IdOf(k) \in reported => Has(w, k) \/ IdOf(k) \in reported'
    BY DEF Rests
  <2> HIDE DEF SInv, CInv
  <2>10. CASE cutOff \/ k \in overlapped \/ ToCome(k)
    BY <1>0, <2>3, <2>10 DEF NotMissed
  <2>11. CASE ~(cutOff \/ k \in overlapped \/ ToCome(k))
    <3>1. /\ \A v \in Workers : Has(v, k) => InHand(v, k)
          /\ \/ \E v \in Workers : Has(v, k)
             \/ IdOf(k) \in reported
             \/ synced[IdOf(k)].fields = dxtr[k].fields
      BY <2>1, <2>11 DEF NotMissed
    <3>2. \A v \in Workers : Has(v, k)' => InHand(v, k)'
      BY <2>5, <2>6, <2>7, <3>1
    <3>3. \/ ToCome(k)' \/ \E v \in Workers : Has(v, k)'
          \/ IdOf(k) \in reported' \/ synced[IdOf(k)].fields = dxtr[k].fields
      BY <2>5, <2>8, <2>9, <3>1
    <3> QED BY <1>0, <2>2, <2>4, <3>2, <3>3 DEF NotMissed
  <2> QED BY <2>10, <2>11
<1> QED BY <1>2, <1>3, <1>4, <1>5, <1>6, <1>7 DEF CInv

LEMMA ReturnRests ==
  ASSUME SInv, CInv, NEW w \in Workers, Return(w)
  PROVE  HandlersTyped' /\ QueuesTyped' /\ Rests(w)
<1> DEFINE l == local[w]
           S == {[orphan |-> f.orphan, current |-> f.current, tries |-> 0] : f \in l.found}
<1>0. pc[w] = "return" /\ pc[w] \in PageSteps
  BY DEF Return, PageSteps
<1>1. l \in Locals /\ l.todo = {} /\ l.found \in SUBSET Pairs /\ l.failed \in SUBSET Ids
  BY <1>0, OnPage DEF Locals
<1>2. HandlersTyped' /\ Others(w) /\ pc'[w] = "idle" /\ local'[w] = Idle
  BY AtRest DEF Return
<1>3. S \subseteq FixMessages /\ \A m \in S : \E f \in l.found : m.orphan = f.orphan
  <2>1. 0 \in 0..MaxDequeue
    BY CaseAssumption
  <2> QED BY <1>1, <2>1 DEF Pairs, FixMessages
<1>4. fixes' = fixes (+) SetToBag(S)
  BY DEF Return
<1> HIDE DEF S
<1>5. IsABag(fixes') /\ BagToSet(fixes') = BagToSet(fixes) \cup S
  BY <1>4, BagAdd DEF SInv, QueuesTyped
<1>6. pages' = pages /\ reported' = (reported \ l.page.ids) \cup l.failed
  BY DEF Return
<1>7. QueuesTyped'
  BY <1>1, <1>3, <1>5, <1>6 DEF SInv, QueuesTyped
<1>8. \A m \in S : HasLeft(m.orphan)
  BY <1>3 DEF CInv, OrphansLeft
<1>9. ASSUME NEW k \in Cases, InHand(w, k)
      PROVE  IdOf(k) \in reported' \/ synced[IdOf(k)].fields = dxtr[k].fields
  BY <1>0, <1>1, <1>6, <1>9 DEF InHand, AtIt
<1>10. \A k \in Cases : IdOf(k) \in reported => Has(w, k) \/ IdOf(k) \in reported'
  BY <1>6 DEF Has
<1>11. UNCHANGED <<dxtr, dates, start, cutOff, overlapped, synced>>
  BY DEF Return, world, timer, store
<1> QED BY <1>2, <1>5, <1>6, <1>7, <1>8, <1>9, <1>10, <1>11 DEF Rests

LEMMA StopRests ==
  ASSUME SInv, CInv, NEW w \in Workers, PageStops(w)
  PROVE  HandlersTyped' /\ QueuesTyped' /\ Rests(w)
<1> DEFINE m == local[w].page
           n == [m EXCEPT !.tries = @ + 1]
<1>0. pc[w] \in PageSteps
  BY DEF PageStops
<1>1. m \in PageMessages /\ m.ids \subseteq Ids
  BY <1>0, OnPage
<1>2. HandlersTyped' /\ Others(w) /\ pc'[w] = "idle" /\ local'[w] = Idle
  BY AtRest DEF PageStops
<1>3. UNCHANGED <<dxtr, dates, start, cutOff, overlapped, synced, fixes>>
  BY DEF PageStops, world, timer, store
<1>4. CASE m.tries + 1 < MaxDequeue
  <2>1. n \in PageMessages /\ n.ids = m.ids
    BY <1>1, <1>4, CaseAssumption DEF PageMessages
  <2>2. pages' = pages (+) SetToBag({n}) /\ reported' = reported
    BY <1>4 DEF PageStops
  <2> HIDE DEF n
  <2>3. IsABag(pages') /\ BagToSet(pages') = BagToSet(pages) \cup {n}
    BY <2>2, BagAdd DEF SInv, QueuesTyped
  <2>4. QueuesTyped'
    BY <1>3, <2>1, <2>2, <2>3 DEF SInv, QueuesTyped
  <2>5. \A k \in Cases : Has(w, k) => \E x \in BagToSet(pages') : IdOf(k) \in x.ids
    BY <2>1, <2>3 DEF Has
  <2> QED BY <1>2, <1>3, <2>1, <2>2, <2>3, <2>4, <2>5 DEF Rests
<1>5. CASE ~(m.tries + 1 < MaxDequeue)
  <2>1. pages' = pages /\ reported' = reported \cup m.ids
    BY <1>5 DEF PageStops
  <2>2. QueuesTyped'
    BY <1>1, <1>3, <2>1 DEF SInv, QueuesTyped
  <2>3. \A k \in Cases : Has(w, k) => IdOf(k) \in reported'
    BY <2>1 DEF Has
  <2> QED BY <1>2, <1>3, <2>1, <2>2, <2>3 DEF Rests
<1> QED BY <1>4, <1>5

LEMMA GiveBackRests ==
  ASSUME SInv, CInv, NEW w \in Workers, pc[w] \in FixSteps, GiveBack(w),
         UNCHANGED <<dxtr, dates, start, cutOff, overlapped, synced, pages, reported>>
  PROVE  HandlersTyped' /\ QueuesTyped' /\ Rests(w)
<1> DEFINE m == local[w].fix
           n == [m EXCEPT !.tries = @ + 1]
<1>1. m \in FixMessages /\ HasLeft(m.orphan)
  BY OnFix DEF CInv, OrphansLeft
<1>2. HandlersTyped' /\ Others(w) /\ pc'[w] = "idle" /\ local'[w] = Idle
  BY AtRest DEF GiveBack
<1>3. \A k \in Cases : ~Has(w, k)
  BY OnFix DEF Has
<1>4. CASE m.tries + 1 < MaxDequeue
  <2>1. n \in FixMessages /\ n.orphan = m.orphan
    BY <1>1, <1>4, CaseAssumption DEF FixMessages
  <2>2. fixes' = fixes (+) SetToBag({n})
    BY <1>4 DEF GiveBack
  <2> HIDE DEF n
  <2>3. IsABag(fixes') /\ BagToSet(fixes') = BagToSet(fixes) \cup {n}
    BY <2>2, BagAdd DEF SInv, QueuesTyped
  <2>4. QueuesTyped'
    BY <2>1, <2>3 DEF SInv, QueuesTyped
  <2> QED BY <1>1, <1>2, <1>3, <2>1, <2>3, <2>4 DEF Rests
<1>5. CASE ~(m.tries + 1 < MaxDequeue)
  <2>1. fixes' = fixes
    BY <1>5 DEF GiveBack
  <2>2. QueuesTyped'
    BY <2>1 DEF SInv, QueuesTyped
  <2> QED BY <1>2, <1>3, <2>1, <2>2 DEF Rests
<1> QED BY <1>4, <1>5

LEMMA MarkRests ==
  ASSUME SInv, CInv, NEW w \in Workers, MarkAsMoved(w)
  PROVE  HandlersTyped' /\ StoreTyped' /\ Rests(w)
<1>0. pc[w] \in FixSteps
  BY DEF MarkAsMoved, FixSteps
<1>1. local[w].fix.orphan \in Ids /\ local[w].fix.current \in Ids
      /\ HasLeft(local[w].fix.orphan)
  BY <1>0, OnFix DEF CInv, OrphansLeft
<1>2. HandlersTyped' /\ Others(w) /\ pc'[w] = "idle" /\ local'[w] = Idle
  BY AtRest DEF MarkAsMoved
<1>3. \A k \in Cases : ~Has(w, k)
  BY <1>0, OnFix DEF Has
<1>4. UNCHANGED <<dxtr, dates, start, cutOff, overlapped, pages, fixes, reported,
                  docs, nextDoc, pointer, unpatched>>
  BY DEF MarkAsMoved, world, timer, queues, story
<1>5. synced \in [Ids -> [fields : Changes, movedTo : Ids \cup {NoId}]]
      /\ synced' = [synced EXCEPT ![local[w].fix.orphan].movedTo = local[w].fix.current]
  BY DEF MarkAsMoved, SInv, StoreTyped, Orphan, Current
<1>6. synced' \in [Ids -> [fields : Changes, movedTo : Ids \cup {NoId}]]
      /\ \A i \in Ids : /\ synced'[i].fields = synced[i].fields
                        /\ i # local[w].fix.orphan => synced'[i] = synced[i]
  BY <1>1, <1>5
<1>7. StoreTyped'
  BY <1>4, <1>6 DEF SInv, StoreTyped
<1> QED BY <1>1, <1>2, <1>3, <1>4, <1>6, <1>7 DEF Rests

(* A handler takes a page or a message of the clean-up.                    *)
LEMMA TakeTyped ==
  ASSUME SInv, NEW w \in Workers, pc[w] = "idle", NEW s \in {"next", "check"}, NEW l,
         \/ s = "next"  /\ \E m \in PageMessages : l = [Idle EXCEPT !.page = m, !.todo = m.ids]
         \/ s = "check" /\ \E m \in FixMessages : l = [Idle EXCEPT !.fix = m],
         local' = [local EXCEPT ![w] = l], Goto(w, s)
  PROVE  HandlersTyped' /\ Others(w) /\ pc'[w] = s /\ local'[w] = l
<1>1. pc' = [pc EXCEPT ![w] = s]
  BY DEF Goto
<1>2. CASE s = "next"
  <2>1. PICK m \in PageMessages : l = [Idle EXCEPT !.page = m, !.todo = m.ids]
    BY <1>2
  <2>2. m.ids \subseteq Ids
    BY DEF PageMessages
  <2>3. l \in Locals /\ l.fix = NoFix /\ l.todo = l.page.ids
    BY <2>1, <2>2, IdleTyped DEF Locals
  <2>4. PhaseOf("next", l)
    BY <2>3 DEF PhaseOf, PageSteps
  <2> QED BY <1>1, <1>2, <2>3, <2>4, OneMoves DEF PageSteps
<1>3. CASE s = "check"
  <2>1. PICK m \in FixMessages : l = [Idle EXCEPT !.fix = m]
    BY <1>3
  <2>2. l \in Locals /\ l.page = NoIds /\ l.fix = m /\ l.found = {}
    BY <2>1, IdleTyped DEF Locals
  <2>3. PhaseOf("check", l)
    BY <2>2 DEF PhaseOf, FixSteps
  <2> QED BY <1>1, <1>3, <2>2, <2>3, OneMoves DEF FixSteps
<1> QED BY <1>2, <1>3

(* What any taker keeps. *)
LEMMA TakeKeeps ==
  ASSUME SInv, CInv, NEW w \in Workers, pc[w] = "idle", NEW l, Others(w), local'[w] = l,
         pc'[w] \in {"next", "check"}, l.found = {},
         overlapped' = overlapped \cup Overlapping(w, l),
         pc'[w] = "check" => HasLeft(l.fix.orphan),
         \A i \in l.page.ids : Visited(i) /\ i \in l.todo,
         UNCHANGED <<dxtr, dates, start, cutOff, synced, reported>>,
         BagToSet(pages') \subseteq BagToSet(pages),
         BagToSet(fixes') \subseteq BagToSet(fixes),
         \A m \in BagToSet(pages) : m \in BagToSet(pages') \/ m.ids = l.page.ids
  PROVE  CInv'
<1>0. /\ \A v \in Workers \ {w} : local'[v] = local[v] /\ pc'[v] = pc[v]
      /\ overlapped \subseteq overlapped'
  BY DEF Others
<1>1. local[w] = Idle /\ Idle.page.ids = {}
  BY AtNothing DEF Idle
<1>2. OverlapSeen'
  <2>1. ASSUME NEW v \in Workers, v # w
        PROVE  CasesOf(local[v]) \cap CasesOf(l) \subseteq overlapped'
    BY <2>1 DEF Overlapping
  <2>2. ASSUME NEW v \in Workers, NEW u \in Workers, v # u
        PROVE  CasesOf(local'[v]) \cap CasesOf(local'[u]) \subseteq overlapped'
    <3>1. CASE v = w
      BY <1>0, <2>1, <2>2, <3>1
    <3>2. CASE u = w
      BY <1>0, <2>1, <2>2, <3>2
    <3>3. CASE v # w /\ u # w
      <4>1. CasesOf(local[v]) \cap CasesOf(local[u]) \subseteq overlapped
        BY <2>2 DEF CInv, OverlapSeen
      <4> QED BY <1>0, <3>3, <4>1
    <3> QED BY <3>1, <3>2, <3>3
  <2> QED BY <2>2 DEF OverlapSeen, CasesOf
<1>3. IdsVisited'
  <2>1. \A i : Visited(i)' <=> Visited(i)
    BY DEF Visited
  <2>2. \A v \in Workers : \A i \in local'[v].page.ids : Visited(i)
    BY <1>0 DEF CInv, IdsVisited
  <2> QED BY <2>1, <2>2 DEF CInv, IdsVisited
<1>4. FreshUnseen'
  <2>1. \A v \in Workers : pc'[v] = "detect" => pc[v] = "detect" /\ local'[v] = local[v]
    BY <1>0
  <2> QED BY <1>0, <2>1 DEF CInv, FreshUnseen, IdOf
<1>5. OrphansLeft'
  <2>1. \A i : HasLeft(i) => HasLeft(i)'
    BY <1>0 DEF HasLeft
  <2>2. \A v \in Workers : \A f \in local'[v].found : HasLeft(f.orphan)
    BY <1>0 DEF CInv, OrphansLeft
  <2>3. \A v \in Workers : pc'[v] \in FixSteps => HasLeft(local'[v].fix.orphan)
    BY <1>0 DEF CInv, OrphansLeft, FixSteps
  <2>4. (\A m \in BagToSet(fixes') : HasLeft(m.orphan))
        /\ \A i \in Ids : synced[i].movedTo # NoId => HasLeft(i)
    BY DEF CInv, OrphansLeft
  <2> QED BY <2>1, <2>2, <2>3, <2>4 DEF OrphansLeft
<1>6. StartKnows'
  BY DEF CInv, StartKnows, Behind, Ahead, IdOf
<1>7. ASSUME NEW k \in Cases PROVE NotMissed(k)'
  <2>1. NotMissed(k)
    BY DEF CInv
  <2>2. IdOf(k)' = IdOf(k) /\ IdOf(k) \in Ids /\ IdOf(k)[1] = k
    BY IdOfTyped DEF IdOf, SInv
  <2>3. \A v \in Workers \ {w} : (Has(v, k)' <=> Has(v, k)) /\ (InHand(v, k)' <=> InHand(v, k))
    BY <1>0, <2>2 DEF Has, InHand, AtIt
  <2>4. ~Has(w, k) /\ (Has(w, k)' => InHand(w, k)')
    BY <1>1, <2>2 DEF Has, InHand
  <2>5. ToCome(k) => ToCome(k)' \/ Has(w, k)'
    BY <2>2 DEF ToCome, Behind, Has
  <2>6. ASSUME NEW v \in Workers \ {w}, Has(v, k), Has(w, k)' PROVE k \in overlapped'
    <3>1. k \in CasesOf(local[v]) /\ k \in CasesOf(l)
      BY <2>2, <2>6 DEF Has, CasesOf
    <3> QED BY <3>1 DEF Overlapping
  <2> HIDE DEF SInv, CInv
  <2>7. CASE cutOff \/ k \in overlapped \/ ToCome(k)'
    BY <1>0, <2>7 DEF NotMissed
  <2>8. CASE ~cutOff /\ k \notin overlapped /\ ~ToCome(k)' /\ Has(w, k)'
    <3>1. CASE \E v \in Workers \ {w} : Has(v, k)
      BY <2>6, <2>8, <3>1 DEF NotMissed
    <3>2. CASE ~ \E v \in Workers \ {w} : Has(v, k)
      BY <2>3, <2>4, <2>8, <3>2 DEF NotMissed
    <3> QED BY <3>1, <3>2
  <2>9. CASE ~cutOff /\ k \notin overlapped /\ ~ToCome(k)' /\ ~Has(w, k)'
    <3>1. /\ \A v \in Workers : Has(v, k) => InHand(v, k)
          /\ \/ \E v \in Workers : Has(v, k)
             \/ IdOf(k) \in reported
             \/ synced[IdOf(k)].fields = dxtr[k].fields
      BY <2>1, <2>5, <2>9 DEF NotMissed
    <3>2. \A v \in Workers : Has(v, k)' => InHand(v, k)'
      BY <2>3, <2>4, <3>1
    <3>3. \/ \E v \in Workers : Has(v, k)'
          \/ IdOf(k) \in reported
          \/ synced[IdOf(k)].fields = dxtr[k].fields
      BY <2>3, <2>4, <3>1
    <3> QED BY <2>2, <3>2, <3>3 DEF NotMissed
  <2> QED BY <2>7, <2>8, <2>9
<1> QED BY <1>2, <1>3, <1>4, <1>5, <1>6, <1>7 DEF CInv

LEMMA OverlappingTyped ==
  ASSUME SInv, NEW w \in Workers, NEW l \in Locals
  PROVE  Overlapping(w, l) \subseteq Cases
<1>1. l.page.ids \subseteq Ids /\ (l.fix.orphan \in Ids \/ l.fix.orphan = NoId)
  BY DEF Locals, PageMessages, FixMessages, NoFix
<1>2. \A i \in l.page.ids \cup ({l.fix.orphan} \ {NoId}) : i[1] \in Cases
  BY <1>1, IdShape
<1> QED BY <1>2 DEF Overlapping, CasesOf

LEMMA TakePageKeeps ==
  ASSUME SInv, CInv, NEW w \in Workers, TakePage(w)
  PROVE  HandlersTyped' /\ QueuesTyped' /\ overlapped' \subseteq Cases /\ CInv'
<1>1. PICK m \in BagToSet(pages) :
        LET l == [Idle EXCEPT !.page = m, !.todo = m.ids] IN
          /\ pages' = pages (-) SetToBag({m})
          /\ local' = [local EXCEPT ![w] = l]
          /\ overlapped' = overlapped \cup Overlapping(w, l)
  BY DEF TakePage
<1> DEFINE l == [Idle EXCEPT !.page = m, !.todo = m.ids]
<1>2. pc[w] = "idle" /\ Goto(w, "next")
      /\ UNCHANGED <<dxtr, dates, start, cutOff, synced, reported, fixes>>
  BY DEF TakePage, world, timer, store
<1>3. m \in PageMessages
  BY DEF SInv, QueuesTyped
<1>4. l.page = m /\ l.todo = m.ids /\ l.found = {} /\ l = [Idle EXCEPT !.page = m, !.todo = m.ids]
  BY IdleTyped DEF Locals
<1>5. local' = [local EXCEPT ![w] = l] /\ overlapped' = overlapped \cup Overlapping(w, l)
  BY <1>1
<1> HIDE DEF l
<1>6. HandlersTyped' /\ Others(w) /\ pc'[w] = "next" /\ local'[w] = l
  BY <1>2, <1>3, <1>4, <1>5, TakeTyped
<1>7. /\ IsABag(pages') /\ BagToSet(pages') \subseteq BagToSet(pages)
      /\ BagToSet(pages) \ {m} \subseteq BagToSet(pages')
  BY <1>1, BagTake DEF SInv, QueuesTyped
<1>8. QueuesTyped'
  BY <1>2, <1>7 DEF SInv, QueuesTyped
<1>9. l \in Locals
  BY <1>6 DEF HandlersTyped
<1>10. overlapped' \subseteq Cases
  BY <1>5, <1>9, OverlappingTyped DEF SInv, StoryTyped
<1>11. \A i \in l.page.ids : Visited(i) /\ i \in l.todo
  BY <1>4 DEF CInv, IdsVisited
<1>12. \A x \in BagToSet(pages) : x \in BagToSet(pages') \/ x.ids = l.page.ids
  BY <1>4, <1>7
<1> HIDE DEF SInv, CInv
<1>13. CInv'
  BY <1>2, <1>4, <1>5, <1>6, <1>7, <1>11, <1>12, TakeKeeps
<1> QED BY <1>6, <1>8, <1>10, <1>13

LEMMA TakeFixKeeps ==
  ASSUME SInv, CInv, NEW w \in Workers, TakeFix(w)
  PROVE  HandlersTyped' /\ QueuesTyped' /\ overlapped' \subseteq Cases /\ CInv'
<1>1. PICK m \in BagToSet(fixes) :
        LET l == [Idle EXCEPT !.fix = m] IN
          /\ fixes' = fixes (-) SetToBag({m})
          /\ local' = [local EXCEPT ![w] = l]
          /\ overlapped' = overlapped \cup Overlapping(w, l)
  BY DEF TakeFix
<1> DEFINE l == [Idle EXCEPT !.fix = m]
<1>2. pc[w] = "idle" /\ Goto(w, "check")
      /\ UNCHANGED <<dxtr, dates, start, cutOff, synced, reported, pages>>
  BY DEF TakeFix, world, timer, store
<1>3. m \in FixMessages
  BY DEF SInv, QueuesTyped
<1>4. l.page.ids = {} /\ l.fix = m /\ l.found = {} /\ l = [Idle EXCEPT !.fix = m]
  BY DEF Idle
<1>5. local' = [local EXCEPT ![w] = l] /\ overlapped' = overlapped \cup Overlapping(w, l)
  BY <1>1
<1> HIDE DEF l
<1>6. HandlersTyped' /\ Others(w) /\ pc'[w] = "check" /\ local'[w] = l
  BY <1>2, <1>3, <1>4, <1>5, TakeTyped
<1>7. IsABag(fixes') /\ BagToSet(fixes') \subseteq BagToSet(fixes)
  BY <1>1, BagTake DEF SInv, QueuesTyped
<1>8. QueuesTyped'
  BY <1>2, <1>7 DEF SInv, QueuesTyped
<1>9. l \in Locals
  BY <1>6 DEF HandlersTyped
<1>10. overlapped' \subseteq Cases
  BY <1>5, <1>9, OverlappingTyped DEF SInv, StoryTyped
<1>11. HasLeft(l.fix.orphan)
  BY <1>4 DEF CInv, OrphansLeft
<1> HIDE DEF SInv, CInv
<1>13. CInv'
  BY <1>2, <1>4, <1>5, <1>6, <1>7, <1>11, TakeKeeps
<1> QED BY <1>6, <1>8, <1>10, <1>13

-----------------------------------------------------------------------------
(* DXTR and the start.                                                     *)

LEMMA LatestTyped ==
  ASSUME SInv, NEW f \in Feeds
  PROVE  Latest(f, dates[f]) \in Changes /\ Latest(f, dates[f]) <= changes
<1> DEFINE after == {dxtr[k].date[f] : k \in Cases} \cup {dates[f]}
<1>1. /\ changes \in Nat /\ changes <= MaxChanges /\ MaxChanges \in Nat
      /\ dates[f] \in 0..MaxChanges /\ dates[f] <= changes
  BY CaseAssumption DEF SInv, WorldTyped, TimerTyped, Changes
<1>2. \A k \in Cases : dxtr[k].date[f] \in 0..MaxChanges /\ dxtr[k].date[f] <= changes
  BY DEF SInv, WorldTyped, Changes
<1>3. after \in SUBSET (0..changes) /\ after # {}
  BY <1>1, <1>2
<1>4. \E n \in after : \A m \in after : m <= n
  BY <1>1, <1>3, LargestExists
<1>5. (CHOOSE n \in after : \A m \in after : m <= n) \in after
  BY <1>4
<1>6. Latest(f, dates[f]) = CHOOSE n \in after : \A m \in after : m <= n
  BY DEF Latest
<1> HIDE DEF after
<1>7. Latest(f, dates[f]) \in 0..changes
  BY <1>3, <1>5, <1>6
<1> HIDE DEF Latest
<1> QED BY <1>1, <1>7 DEF Changes

LEMMA ChangeWorld ==
  ASSUME SInv, NEW k \in Cases, Change(k)
  PROVE  /\ WorldTyped' /\ changes' = changes + 1
         /\ \A j \in Cases \ {k} : dxtr'[j] = dxtr[j]
         /\ \A f \in Feeds : dxtr'[k].date[f] \in {dxtr[k].date[f], changes'}
         /\ \E f \in Feeds : dxtr'[k].date[f] = changes'
         /\ \/ dxtr'[k].division = dxtr[k].division /\ dxtr'[k].left = dxtr[k].left
            \/ /\ dxtr'[k].division # dxtr[k].division
               /\ dxtr'[k].left = dxtr[k].left \cup {dxtr[k].division}
               /\ dxtr'[k].date["cases"] = changes'
<1>1. dxtr \in [Cases -> [division : Divisions, fields : Changes,
                          date : [Feeds -> Changes], left : SUBSET Divisions]]
  BY DEF SInv, WorldTyped
<1>2. changes' = changes + 1 /\ changes' \in Changes /\ changes \in Nat
  <2>1. changes < MaxChanges /\ changes' = changes + 1
    BY DEF Change
  <2>2. changes \in 0..MaxChanges
    BY DEF SInv, WorldTyped, Changes
  <2> QED BY <2>1, <2>2, CaseAssumption DEF Changes
<1>3. \A j \in Cases : \A f \in Feeds : dxtr[j].date[f] \in Nat /\ dxtr[j].date[f] <= changes
  BY <1>1, CaseAssumption DEF SInv, WorldTyped, Changes
<1>4. CASE \E f \in Feeds :
             dxtr' = [dxtr EXCEPT ![k].fields = changes', ![k].date[f] = changes']
  <2>1. PICK f \in Feeds :
          dxtr' = [dxtr EXCEPT ![k].fields = changes', ![k].date[f] = changes']
    BY <1>4
  <2>2. dxtr' \in [Cases -> [division : Divisions, fields : Changes,
                             date : [Feeds -> Changes], left : SUBSET Divisions]]
    BY <1>1, <1>2, <2>1
  <2>3. /\ dxtr'[k].date[f] = changes'
        /\ \A g \in Feeds : g # f => dxtr'[k].date[g] = dxtr[k].date[g]
        /\ dxtr'[k].division = dxtr[k].division /\ dxtr'[k].left = dxtr[k].left
        /\ \A j \in Cases \ {k} : dxtr'[j] = dxtr[j]
    BY <1>1, <2>1
  <2>4. \A j \in Cases : \A g \in Feeds : dxtr'[j].date[g] <= changes'
    BY <1>2, <1>3, <2>3
  <2>5. \A j \in Cases : dxtr'[j].fields \in Nat
    BY <2>2, CaseAssumption DEF Changes
  <2>6. WorldTyped'
    BY <1>2, <2>2, <2>4, <2>5 DEF WorldTyped
  <2> QED BY <1>2, <2>3, <2>6
<1>5. CASE \E d \in Divisions \ {dxtr[k].division} :
             dxtr' = [dxtr EXCEPT ![k].fields = changes', ![k].date["cases"] = changes',
                                  ![k].division = d, ![k].left = @ \cup {dxtr[k].division}]
  <2>1. PICK d \in Divisions \ {dxtr[k].division} :
          dxtr' = [dxtr EXCEPT ![k].fields = changes', ![k].date["cases"] = changes',
                               ![k].division = d, ![k].left = @ \cup {dxtr[k].division}]
    BY <1>5
  <2>2. "cases" \in Feeds /\ dxtr[k].division \in Divisions
    BY <1>1 DEF Feeds
  <2>3. dxtr' \in [Cases -> [division : Divisions, fields : Changes,
                             date : [Feeds -> Changes], left : SUBSET Divisions]]
    BY <1>1, <1>2, <2>1, <2>2
  <2>4. /\ dxtr'[k].date["cases"] = changes'
        /\ \A g \in Feeds : g # "cases" => dxtr'[k].date[g] = dxtr[k].date[g]
        /\ dxtr'[k].division = d /\ dxtr'[k].left = dxtr[k].left \cup {dxtr[k].division}
        /\ \A j \in Cases \ {k} : dxtr'[j] = dxtr[j]
    BY <1>1, <2>1, <2>2
  <2>5. \A j \in Cases : \A g \in Feeds : dxtr'[j].date[g] <= changes'
    BY <1>2, <1>3, <2>4
  <2>6. \A j \in Cases : dxtr'[j].fields \in Nat
    BY <2>3, CaseAssumption DEF Changes
  <2>7. WorldTyped'
    BY <1>2, <2>3, <2>5, <2>6 DEF WorldTyped
  <2> QED BY <1>2, <2>1, <2>2, <2>4, <2>7
<1> QED BY <1>4, <1>5 DEF Change

LEMMA ChangeKeeps ==
  ASSUME SInv, CInv, NEW k \in Cases, Change(k)
  PROVE  CInv'
<1>0. UNCHANGED <<dates, start, cutOff, synced, pages, fixes, reported, pc, local, overlapped>>
  BY DEF Change, timer, store, queues, story
<1>1. /\ changes' = changes + 1 /\ changes \in Nat
      /\ \A j \in Cases \ {k} : dxtr'[j] = dxtr[j]
      /\ \A f \in Feeds : dxtr'[k].date[f] \in {dxtr[k].date[f], changes'}
      /\ \E f \in Feeds : dxtr'[k].date[f] = changes'
      /\ \/ dxtr'[k].division = dxtr[k].division /\ dxtr'[k].left = dxtr[k].left
         \/ /\ dxtr'[k].division # dxtr[k].division
            /\ dxtr'[k].left = dxtr[k].left \cup {dxtr[k].division}
            /\ dxtr'[k].date["cases"] = changes'
  BY ChangeWorld, CaseAssumption DEF SInv, WorldTyped, Changes
<1>2. \A f \in Feeds : /\ dates[f] \in Nat /\ start.latest[f] \in Nat
                       /\ dates[f] < changes' /\ start.latest[f] < changes'
                       /\ \A j \in Cases : dxtr[j].date[f] \in Nat /\ dxtr[j].date[f] < changes'
  BY <1>1, CaseAssumption DEF SInv, TimerTyped, WorldTyped, Changes
<1>3. OverlapSeen'
  BY <1>0 DEF CInv, OverlapSeen, CasesOf
<1>4. \A i \in Ids : Visited(i) => Visited(i)'
  <2>1. ASSUME NEW i \in Ids, Visited(i) PROVE Visited(i)'
    <3>1. i[1] \in Cases
      BY IdShape
    <3>2. CASE i[1] # k
      BY <1>1, <2>1, <3>1, <3>2 DEF Visited
    <3>3. CASE i[1] = k
      BY <1>1, <2>1, <3>3 DEF Visited
    <3> QED BY <3>2, <3>3
  <2> QED BY <2>1
<1>5. \A i \in Ids : HasLeft(i) => HasLeft(i)'
  <2>1. ASSUME NEW i \in Ids, HasLeft(i) PROVE HasLeft(i)'
    <3>1. i[1] \in Cases
      BY IdShape
    <3>2. CASE i[1] # k
      BY <1>0, <1>1, <2>1, <3>1, <3>2 DEF HasLeft
    <3>3. CASE i[1] = k
      BY <1>0, <1>1, <2>1, <3>3 DEF HasLeft
    <3> QED BY <3>2, <3>3
  <2> QED BY <2>1
<1>6. IdsVisited'
  <2>1. start.ids \subseteq Ids
    BY DEF SInv, TimerTyped
  <2>2. \A m \in BagToSet(pages) : m.ids \subseteq Ids
    BY DEF SInv, QueuesTyped, PageMessages
  <2>3. \A v \in Workers : local[v].page.ids \subseteq Ids
    BY DEF SInv, HandlersTyped, Locals, PageMessages
  <2> QED BY <1>0, <1>4, <2>1, <2>2, <2>3 DEF CInv, IdsVisited
<1>7. FreshUnseen'
  <2>1. ASSUME NEW v \in Workers, pc[v] = "detect"
        PROVE  LET j == local[v].id[1] IN
                 \/ local[v].id = IdOf(j)' \/ dxtr'[j].division \in dxtr'[j].left
                 \/ j \in overlapped \/ synced[IdOf(j)'].fields = 0
    <3> DEFINE j == local[v].id[1]
    <3>1. local[v].id \in Ids /\ j \in Cases
      BY <2>1, OnPage, IdShape DEF PageSteps
    <3>2. CASE j # k \/ dxtr'[k].division = dxtr[k].division
      <4>1. IdOf(j)' = IdOf(j) /\ dxtr'[j].division = dxtr[j].division
            /\ dxtr'[j].left = dxtr[j].left
        BY <1>0, <1>1, <3>1, <3>2 DEF IdOf
      <4> QED BY <1>0, <2>1, <4>1 DEF CInv, FreshUnseen
    <3>3. CASE j = k /\ dxtr'[k].division # dxtr[k].division
      <4>1. dxtr'[k].division \in Divisions
        BY ChangeWorld DEF WorldTyped
      <4>2. IdOf(k)' = <<k, dxtr'[k].division>> /\ <<k, dxtr'[k].division>> \in Ids
        BY <4>1 DEF IdOf, Ids
      <4>3. synced[<<k, dxtr'[k].division>>].fields # 0 => Visited(<<k, dxtr'[k].division>>)
        BY <4>2 DEF CInv, IdsVisited
      <4>4. Visited(<<k, dxtr'[k].division>>) => dxtr'[k].division \in dxtr'[k].left
        BY <1>1, <3>3 DEF Visited
      <4>5. IdOf(j)' = <<k, dxtr'[k].division>>
        BY <1>0, <3>3, <4>2
      <4> QED BY <1>0, <3>3, <4>3, <4>4, <4>5
    <3> QED BY <3>2, <3>3
  <2> QED BY <1>0, <2>1 DEF FreshUnseen
<1>8. OrphansLeft'
  <2>1. \A v \in Workers : \A f \in local[v].found : f.orphan \in Ids
    BY DEF SInv, HandlersTyped, Locals, Pairs
  <2>2. \A m \in BagToSet(fixes) : m.orphan \in Ids
    BY DEF SInv, QueuesTyped, FixMessages
  <2>3. \A v \in Workers : pc[v] \in FixSteps => local[v].fix.orphan \in Ids
    BY OnFix
  <2> QED BY <1>0, <1>5, <2>1, <2>2, <2>3 DEF CInv, OrphansLeft
<1>9. StartKnows'
  <2>1. ASSUME NEW j \in Cases, NEW f \in Feeds, Behind(j, f) PROVE Behind(j, f)'
    BY <1>0, <1>1, <1>2, <2>1 DEF Behind
  <2>2. ASSUME start.step \in {"transactions", "store"}, NEW i \in start.ids
        PROVE  \E f \in Feeds : Behind(i[1], f)'
    <3>1. i[1] \in Cases
      BY IdShape DEF SInv, TimerTyped
    <3> QED BY <2>1, <2>2, <3>1 DEF CInv, StartKnows
  <2>3. \A j \in Cases \ {k} : /\ IdOf(j)' = IdOf(j)
                               /\ \A f \in Feeds : (Behind(j, f)' <=> Behind(j, f))
                                                   /\ (Ahead(j, f)' <=> Ahead(j, f))
    BY <1>0, <1>1 DEF IdOf, Behind, Ahead
  <2>4. "cases" \in Feeds
    BY DEF Feeds
  <2>5. \A f \in Feeds : dxtr'[k].date[f] = changes' => Ahead(k, f)'
    BY <1>0, <1>2 DEF Ahead
  <2>6. dxtr'[k].date["cases"] # changes' =>
          IdOf(k)' = IdOf(k) /\ (Behind(k, "cases")' => Behind(k, "cases"))
            /\ (Ahead(k, "cases") => Ahead(k, "cases")')
    BY <1>0, <1>1, <2>4 DEF IdOf, Behind, Ahead
  <2>7. ASSUME start.step = "transactions", NEW j \in Cases, Behind(j, "cases")'
        PROVE  IdOf(j)' \in start.ids \/ Ahead(j, "cases")'
    <3>1. CASE j # k
      BY <2>3, <2>4, <2>7, <3>1 DEF CInv, StartKnows
    <3>2. CASE j = k
      BY <2>4, <2>5, <2>6, <2>7, <3>2 DEF CInv, StartKnows
    <3> QED BY <3>1, <3>2
  <2>8. ASSUME start.step = "store", NEW j \in Cases, \E f \in Feeds : Behind(j, f)'
        PROVE  IdOf(j)' \in start.ids \/ \E f \in Feeds : Ahead(j, f)'
    <3>1. CASE j # k
      BY <2>3, <2>8, <3>1 DEF CInv, StartKnows
    <3>2. CASE j = k
      BY <1>1, <2>5, <3>2
    <3> QED BY <3>1, <3>2
  <2> QED BY <1>0, <2>2, <2>7, <2>8 DEF StartKnows
<1>10. ASSUME NEW j \in Cases PROVE NotMissed(j)'
  <2>1. CASE j = k
    <3>1. \E f \in Feeds : Behind(k, f)'
      BY <1>0, <1>1, <1>2 DEF Behind
    <3> QED BY <2>1, <3>1 DEF NotMissed, ToCome
  <2>2. CASE j # k
    <3>1. dxtr'[j] = dxtr[j] /\ IdOf(j)' = IdOf(j)
      BY <1>1, <2>2 DEF IdOf
    <3>2. ToCome(j)' <=> ToCome(j)
      BY <1>0, <3>1 DEF ToCome, Behind
    <3>3. \A v \in Workers : (Has(v, j)' <=> Has(v, j)) /\ (InHand(v, j)' <=> InHand(v, j))
      BY <1>0, <3>1 DEF Has, InHand, AtIt
    <3>4. NotMissed(j)
      BY DEF CInv
    <3> QED BY <1>0, <3>1, <3>2, <3>3, <3>4 DEF NotMissed
  <2> QED BY <2>1, <2>2
<1> QED BY <1>3, <1>6, <1>7, <1>8, <1>9, <1>10 DEF CInv

LEMMA QueryTyped ==
  ASSUME SInv, NEW f \in Feeds, Query(f),
         UNCHANGED <<dates, changes, cutOff>>,
         starts' \in 0..MaxStarts /\ starts' > 0
  PROVE  /\ TimerTyped'
         /\ start'.step = IF f = "cases" THEN "transactions" ELSE "store"
         /\ start'.ids = start.ids \cup
              {IdOf(k) : k \in {j \in Cases : dxtr[j].date[f] > dates[f]}}
         /\ \A g \in Feeds \ {f} : start'.latest[g] = start.latest[g]
<1>1. start \in [step : {"idle", "transactions", "store", "flush"},
                 ids : SUBSET Ids, latest : [Feeds -> Changes]]
      /\ dates \in [Feeds -> Changes]
      /\ \A g \in Feeds : dates[g] <= changes /\ start.latest[g] <= changes
  BY DEF SInv, TimerTyped
<1> DEFINE new == {IdOf(k) : k \in {j \in Cases : dxtr[j].date[f] > dates[f]}}
           n == Latest(f, dates[f])
<1>2. new \subseteq Ids
  BY IdOfTyped DEF SInv
<1>3. n \in Changes /\ n <= changes
  BY LatestTyped
<1>4. start' = [start EXCEPT !.step = IF f = "cases" THEN "transactions" ELSE "store",
                             !.ids = @ \cup new, !.latest[f] = n]
  BY DEF Query
<1> HIDE DEF new, n
<1>5. /\ start' \in [step : {"idle", "transactions", "store", "flush"},
                     ids : SUBSET Ids, latest : [Feeds -> Changes]]
      /\ start'.step = IF f = "cases" THEN "transactions" ELSE "store"
      /\ start'.ids = start.ids \cup new
      /\ start'.latest[f] = n /\ \A g \in Feeds \ {f} : start'.latest[g] = start.latest[g]
  BY <1>1, <1>2, <1>3, <1>4
<1>6. start'.step # "idle"
  BY <1>5
<1>7. \A g \in Feeds : start'.latest[g] <= changes
  BY <1>1, <1>3, <1>5
<1>8. cutOff \in BOOLEAN
  BY DEF SInv, TimerTyped
<1>9. TimerTyped'
  BY <1>1, <1>5, <1>6, <1>7, <1>8 DEF TimerTyped
<1> QED BY <1>5, <1>9 DEF new

(* What a step of the start keeps when it touches no page handler.         *)
LEMMA StartKeeps ==
  ASSUME SInv, CInv, StartKnows',
         UNCHANGED <<dxtr, synced, fixes, reported, pc, local, overlapped>>,
         \A i \in start'.ids : Visited(i),
         \A m \in BagToSet(pages') : \A i \in m.ids : Visited(i),
         cutOff => cutOff',
         \A k \in Cases : ToCome(k) => ToCome(k)' \/ cutOff'
  PROVE  CInv'
<1>1. OverlapSeen' /\ FreshUnseen' /\ OrphansLeft'
  BY DEF CInv, OverlapSeen, CasesOf, FreshUnseen, OrphansLeft, HasLeft, IdOf
<1>2. IdsVisited'
  BY DEF CInv, IdsVisited, Visited
<1>3. ASSUME NEW k \in Cases PROVE NotMissed(k)'
  <2>1. NotMissed(k)
    BY DEF CInv
  <2>2. IdOf(k)' = IdOf(k)
    BY DEF IdOf
  <2>3. \A v \in Workers : (Has(v, k)' <=> Has(v, k)) /\ (InHand(v, k)' <=> InHand(v, k))
    BY <2>2 DEF Has, InHand, AtIt
  <2>4. ToCome(k) => ToCome(k)' \/ cutOff'
    OBVIOUS
  <2> HIDE DEF SInv, CInv
  <2> QED BY <2>1, <2>2, <2>3, <2>4 DEF NotMissed
<1> QED BY <1>1, <1>2, <1>3 DEF CInv

LEMMA QueriesKeep ==
  ASSUME SInv, CInv, QueryCases \/ QueryTransactions
  PROVE  TimerTyped' /\ CInv'
<1>0. UNCHANGED <<dxtr, changes, dates, cutOff, synced, pages, fixes, reported, pc, local, overlapped>>
  BY DEF QueryCases, QueryTransactions, world, store, queues, story
<1>1. "cases" \in Feeds /\ "transactions" \in Feeds /\ Feeds = {"cases", "transactions"}
  BY DEF Feeds
<1>2. \A k \in Cases : Visited(IdOf(k))
  BY DEF Visited, IdOf
<1>3. /\ start.step \in {"idle", "transactions", "store", "flush"} /\ start.ids \subseteq Ids
      /\ \A f \in Feeds : dates[f] \in Nat
      /\ \A f \in Feeds : \A k \in Cases : dxtr[k].date[f] \in Nat
  BY CaseAssumption DEF SInv, TimerTyped, WorldTyped, Changes
<1>4. CASE QueryCases
  <2>1. starts' \in 0..MaxStarts /\ starts' > 0
    BY <1>4, CaseAssumption DEF QueryCases, SInv, TimerTyped
  <2>2. start.step = "idle" /\ start.ids = {} /\ Query("cases")
    BY <1>4 DEF QueryCases, SInv, TimerTyped
  <2>3. /\ TimerTyped' /\ start'.step = "transactions"
        /\ start'.ids = {IdOf(k) : k \in {j \in Cases : dxtr[j].date["cases"] > dates["cases"]}}
    BY <1>0, <1>1, <2>1, <2>2, QueryTyped
  <2>4. StartKnows'
    <3>1. ASSUME NEW i \in start'.ids PROVE \E f \in Feeds : Behind(i[1], f)
      BY <1>1, <2>3, IdOfTyped DEF Behind, SInv
    <3>2. ASSUME NEW k \in Cases, Behind(k, "cases") PROVE IdOf(k) \in start'.ids
      BY <2>3, <3>2 DEF Behind
    <3> QED BY <1>0, <2>3, <3>1, <3>2 DEF StartKnows, Behind, IdOf
  <2>5. \A i \in start'.ids : Visited(i)
    BY <1>2, <2>3
  <2>6. \A m \in BagToSet(pages') : \A i \in m.ids : Visited(i)
    BY <1>0 DEF CInv, IdsVisited
  <2>7. \A k \in Cases : ToCome(k) => ToCome(k)'
    BY <1>0, <2>2 DEF ToCome, Behind, IdOf
  <2> QED BY <1>0, <2>3, <2>4, <2>5, <2>6, <2>7, StartKeeps
<1>5. CASE QueryTransactions
  <2>1. starts' \in 0..MaxStarts /\ starts' > 0
    BY <1>5 DEF QueryTransactions, SInv, TimerTyped
  <2>2. start.step = "transactions" /\ Query("transactions")
    BY <1>5 DEF QueryTransactions
  <2>3. /\ TimerTyped' /\ start'.step = "store"
        /\ start'.ids = start.ids \cup {IdOf(k) : k \in
             {j \in Cases : dxtr[j].date["transactions"] > dates["transactions"]}}
        /\ start'.latest["cases"] = start.latest["cases"]
    BY <1>0, <1>1, <2>1, <2>2, QueryTyped
  <2>4. StartKnows'
    <3>1. ASSUME NEW i \in start'.ids PROVE \E f \in Feeds : Behind(i[1], f)
      <4>1. CASE i \in start.ids
        BY <2>2, <4>1 DEF CInv, StartKnows
      <4>2. CASE i \notin start.ids
        BY <1>1, <2>3, <4>2, IdOfTyped DEF Behind, SInv
      <4> QED BY <4>1, <4>2
    <3>2. ASSUME NEW k \in Cases, NEW f \in Feeds, Behind(k, f)
          PROVE  IdOf(k) \in start'.ids \/ dxtr[k].date["cases"] > start'.latest["cases"]
      <4>1. CASE f = "cases"
        BY <2>2, <2>3, <3>2, <4>1 DEF CInv, StartKnows, Ahead
      <4>2. CASE f = "transactions"
        BY <2>3, <3>2, <4>2 DEF Behind
      <4> QED BY <1>1, <4>1, <4>2
    <3> QED BY <1>0, <1>1, <2>3, <3>1, <3>2 DEF StartKnows, Behind, Ahead, IdOf
  <2>5. \A i \in start'.ids : Visited(i)
    BY <1>2, <2>3 DEF CInv, IdsVisited
  <2>6. \A m \in BagToSet(pages') : \A i \in m.ids : Visited(i)
    BY <1>0 DEF CInv, IdsVisited
  <2>7. \A k \in Cases : ToCome(k) => ToCome(k)'
    BY <1>0, <2>3 DEF ToCome, Behind, IdOf
  <2> QED BY <1>0, <2>3, <2>4, <2>5, <2>6, <2>7, StartKeeps
<1> QED BY <1>4, <1>5

LEMMA StoreKeeps ==
  ASSUME SInv, CInv, Store
  PROVE  TimerTyped' /\ CInv'
<1>0. start.step = "store" /\
      UNCHANGED <<dxtr, changes, starts, cutOff, synced, pages, fixes, reported, pc, local, overlapped>>
  BY DEF Store, world, store, queues, story
<1>1. start \in [step : {"idle", "transactions", "store", "flush"},
                 ids : SUBSET Ids, latest : [Feeds -> Changes]]
  BY DEF SInv, TimerTyped
<1>2. \A m \in BagToSet(pages') : \A i \in m.ids : Visited(i)
  BY <1>0 DEF CInv, IdsVisited
<1>3. CASE start.ids = {}
  <2>1. start' = Resting /\ dates' = dates
    BY <1>3 DEF Store
  <2>2. start'.step = "idle" /\ start'.ids = {}
    BY <2>1 DEF Resting
  <2>3. TimerTyped'
    <3>1. 0 \in Changes /\ changes \in Nat
      BY CaseAssumption DEF Changes, SInv, WorldTyped
    <3>2. start' \in [step : {"idle", "transactions", "store", "flush"},
                      ids : SUBSET Ids, latest : [Feeds -> Changes]]
          /\ \A f \in Feeds : start'.latest[f] = 0
      BY <2>1, <3>1 DEF Resting
    <3> QED BY <1>0, <2>1, <2>2, <3>1, <3>2 DEF SInv, TimerTyped
  <2>4. StartKnows'
    BY <2>2 DEF StartKnows
  <2>5. \A k \in Cases : ToCome(k) => ToCome(k)'
    BY <1>0, <1>3, <2>1 DEF ToCome, Behind, IdOf
  <2> QED BY <1>0, <1>2, <2>2, <2>3, <2>4, <2>5, StartKeeps
<1>4. CASE start.ids # {}
  <2>1. start' = [start EXCEPT !.step = "flush"] /\ dates' = start.latest
    BY <1>4 DEF Store
  <2>2. /\ start'.step = "flush" /\ start'.ids = start.ids /\ start'.latest = start.latest
        /\ start' \in [step : {"idle", "transactions", "store", "flush"},
                       ids : SUBSET Ids, latest : [Feeds -> Changes]]
    BY <1>1, <2>1
  <2>3. TimerTyped'
    <3>1. \A f \in Feeds : start.latest[f] <= changes
      BY DEF SInv, TimerTyped
    <3>2. starts \in 0..MaxStarts /\ starts > 0 /\ cutOff \in BOOLEAN
      BY <1>0 DEF SInv, TimerTyped
    <3> QED BY <1>0, <1>1, <2>1, <2>2, <3>1, <3>2 DEF TimerTyped
  <2>4. StartKnows'
    BY <2>2 DEF StartKnows
  <2>5. ASSUME NEW k \in Cases, ToCome(k) PROVE ToCome(k)'
    <3>1. IdOf(k)' = IdOf(k)
      BY <1>0 DEF IdOf
    <3>2. CASE \E f \in Feeds : Behind(k, f)
      <4>1. IdOf(k) \in start.ids \/ \E f \in Feeds : Ahead(k, f)
        BY <1>0, <3>2 DEF CInv, StartKnows
      <4>2. \A f \in Feeds : Ahead(k, f) => Behind(k, f)'
        BY <1>0, <2>1 DEF Ahead, Behind
      <4> QED BY <2>2, <3>1, <4>1, <4>2 DEF ToCome
    <3> QED BY <1>0, <2>2, <2>5, <3>1, <3>2 DEF ToCome
  <2>6. \A i \in start'.ids : Visited(i)
    BY <2>2 DEF CInv, IdsVisited
  <2> QED BY <1>0, <1>2, <2>3, <2>4, <2>5, <2>6, StartKeeps
<1> QED BY <1>3, <1>4

LEMMA FlushKeeps ==
  ASSUME SInv, CInv, Flush
  PROVE  TimerTyped' /\ QueuesTyped' /\ CInv'
<1>0. start.step = "flush" /\ start' = Resting /\
      UNCHANGED <<dxtr, changes, dates, starts, cutOff, synced, fixes, reported, pc, local, overlapped>>
  BY DEF Flush, world, store, story
<1>1. PICK P \in Paging(start.ids) :
        pages' = pages (+) SetToBag({[ids |-> p, tries |-> 0] : p \in P})
  BY DEF Flush
<1> DEFINE S == {[ids |-> p, tries |-> 0] : p \in P}
<1>2. UNION P = start.ids /\ start.ids \subseteq Ids
  BY DEF Paging, SInv, TimerTyped
<1>3. /\ S \subseteq PageMessages
      /\ \A m \in S : m.ids \subseteq start.ids
      /\ \A i \in start.ids : \E m \in S : i \in m.ids
  <2>1. \A p \in P : p \subseteq start.ids /\ p \subseteq Ids
    BY <1>2
  <2>2. 0 \in 0..MaxDequeue
    BY CaseAssumption
  <2>3. \A p \in P : [ids |-> p, tries |-> 0] \in PageMessages
    BY <2>1, <2>2 DEF PageMessages
  <2>4. \A i \in start.ids : \E p \in P : i \in p
    BY <1>2
  <2>5. \A i \in start.ids : \E m \in S : i \in m.ids
    <3>1. ASSUME NEW i \in start.ids PROVE \E m \in S : i \in m.ids
      <4>1. PICK p \in P : i \in p
        BY <2>4
      <4>2. [ids |-> p, tries |-> 0] \in S /\ [ids |-> p, tries |-> 0].ids = p
        OBVIOUS
      <4> QED BY <4>1, <4>2
    <3> QED BY <3>1
  <2> QED BY <2>1, <2>3, <2>5
<1>4. pages' = pages (+) SetToBag(S)
  BY <1>1
<1> HIDE DEF S
<1>5. IsABag(pages') /\ BagToSet(pages') = BagToSet(pages) \cup S
  BY <1>4, BagAdd DEF SInv, QueuesTyped
<1>6. QueuesTyped'
  BY <1>0, <1>3, <1>5 DEF SInv, QueuesTyped
<1>7. start'.step = "idle" /\ start'.ids = {}
  BY <1>0 DEF Resting
<1>8. TimerTyped'
  <2>1. 0 \in Changes /\ changes \in Nat
    BY CaseAssumption DEF Changes, SInv, WorldTyped
  <2>2. start' \in [step : {"idle", "transactions", "store", "flush"},
                    ids : SUBSET Ids, latest : [Feeds -> Changes]]
        /\ \A f \in Feeds : start'.latest[f] = 0
    BY <1>0, <2>1 DEF Resting
  <2> QED BY <1>0, <1>7, <2>1, <2>2 DEF SInv, TimerTyped
<1>9. StartKnows'
  BY <1>7 DEF StartKnows
<1>10. \A m \in BagToSet(pages') : \A i \in m.ids : Visited(i)
  BY <1>3, <1>5 DEF CInv, IdsVisited
<1>11. ASSUME NEW k \in Cases, ToCome(k) PROVE ToCome(k)'
  <2>1. IdOf(k)' = IdOf(k)
    BY <1>0 DEF IdOf
  <2>2. IdOf(k) \in start.ids => \E m \in BagToSet(pages') : IdOf(k) \in m.ids
    BY <1>3, <1>5
  <2> QED BY <1>0, <1>5, <1>11, <2>1, <2>2 DEF ToCome, Behind
<1>12. \A i \in start'.ids : Visited(i)
  BY <1>7
<1> QED BY <1>0, <1>6, <1>8, <1>9, <1>10, <1>11, <1>12, StartKeeps

LEMMA StartFailsKeeps ==
  ASSUME SInv, CInv, StartFails
  PROVE  TimerTyped' /\ CInv'
<1>0. start.step # "idle" /\
      UNCHANGED <<dxtr, changes, dates, synced, pages, fixes, reported, pc, local, overlapped>>
  BY DEF StartFails, world, store, queues, story
<1>1. /\ start \in [step : {"idle", "transactions", "store", "flush"},
                    ids : SUBSET Ids, latest : [Feeds -> Changes]]
      /\ starts \in 0..MaxStarts /\ starts > 0 /\ cutOff \in BOOLEAN
      /\ \A f \in Feeds : dates[f] <= changes /\ start.latest[f] <= changes
  BY <1>0 DEF SInv, TimerTyped
<1>2. \A m \in BagToSet(pages') : \A i \in m.ids : Visited(i)
  BY <1>0 DEF CInv, IdsVisited
<1>3. CASE start' = Resting
  <2>1. start'.step = "idle" /\ start'.ids = {}
    BY <1>3 DEF Resting
  <2>2. starts' \in 0..MaxStarts /\ cutOff' \in BOOLEAN /\ (cutOff => cutOff')
        /\ (start.step = "flush" => cutOff')
    <3>1. start' # [start EXCEPT !.step = "flush"]
      BY <1>1, <2>1
    <3>2. \/ start.step = "transactions" /\ starts' = starts /\ cutOff' = cutOff
          \/ starts' = starts - 1 /\ cutOff' = (cutOff \/ start.step = "flush")
      BY <3>1 DEF StartFails
    <3>3. starts' \in 0..MaxStarts
      BY <1>1, <3>2, CaseAssumption
    <3>4. cutOff' \in BOOLEAN
      BY <1>1, <3>2
    <3>5. (cutOff => cutOff') /\ (start.step = "flush" => cutOff')
      <4>1. CASE start.step = "transactions" /\ cutOff' = cutOff
        BY <4>1
      <4>2. CASE cutOff' = (cutOff \/ start.step = "flush")
        BY <4>2
      <4> QED BY <3>2, <4>1, <4>2
    <3> QED BY <3>3, <3>4, <3>5
  <2>3. TimerTyped'
    <3>1. 0 \in Changes /\ changes \in Nat
      BY CaseAssumption DEF Changes, SInv, WorldTyped
    <3>2. start' \in [step : {"idle", "transactions", "store", "flush"},
                      ids : SUBSET Ids, latest : [Feeds -> Changes]]
          /\ \A f \in Feeds : start'.latest[f] = 0
      BY <1>3, <3>1 DEF Resting
    <3> QED BY <1>0, <1>1, <2>1, <2>2, <3>1, <3>2 DEF SInv, TimerTyped
  <2>4. StartKnows'
    BY <2>1 DEF StartKnows
  <2>5. ASSUME NEW k \in Cases, ToCome(k) PROVE ToCome(k)' \/ cutOff'
    <3>1. IdOf(k)' = IdOf(k) /\ IdOf(k)[1] = k
      BY <1>0, IdOfTyped DEF IdOf, SInv
    <3>2. CASE start.step = "flush"
      BY <2>2, <3>2
    <3>3. CASE start.step \in {"transactions", "store"}
      <4>1. IdOf(k) \in start.ids => \E f \in Feeds : Behind(k, f)
        BY <3>1, <3>3 DEF CInv, StartKnows
      <4> QED BY <1>0, <2>5, <3>1, <4>1 DEF ToCome, Behind
    <3> QED BY <1>0, <1>1, <3>2, <3>3
  <2> QED BY <1>0, <1>2, <2>1, <2>2, <2>3, <2>4, <2>5, StartKeeps
<1>4. CASE start' = [start EXCEPT !.step = "flush"] /\ UNCHANGED <<starts, cutOff>>
  <2>1. /\ start'.step = "flush" /\ start'.ids = start.ids /\ start'.latest = start.latest
        /\ start' \in [step : {"idle", "transactions", "store", "flush"},
                       ids : SUBSET Ids, latest : [Feeds -> Changes]]
    BY <1>1, <1>4
  <2>2. TimerTyped'
    BY <1>0, <1>1, <1>4, <2>1 DEF SInv, TimerTyped
  <2>3. StartKnows'
    BY <2>1 DEF StartKnows
  <2>4. \A k \in Cases : ToCome(k) => ToCome(k)'
    BY <1>0, <2>1 DEF ToCome, Behind, IdOf
  <2>5. \A i \in start'.ids : Visited(i)
    BY <2>1 DEF CInv, IdsVisited
  <2> QED BY <1>0, <1>2, <1>4, <2>2, <2>3, <2>4, <2>5, StartKeeps
<1> QED BY <1>3, <1>4 DEF StartFails

-----------------------------------------------------------------------------
(* The types and the knowledge of every step.                              *)

LEMMA AddKnown ==
  ASSUME SInv, CInv, NEW x \in Items, Add(x)
  PROVE  SInv' /\ CInv'
<1>0. UNCHANGED <<world, timer, synced, pointer, unpatched, queues, pc, local, faults,
                  overlapped, abandoned, astray>>
  BY DEF Add
<1>1. PICK i \in Unmoved(CaseOf[x]) :
        /\ docs' = docs \cup {[no |-> nextDoc, item |-> x, at |-> i]}
        /\ late' = late \cup
             (IF \E w \in Workers : pc[w] \in FixSteps /\ local[w].fix.orphan = i
              THEN {i} ELSE {})
  BY DEF Add
<1>2. i \in Ids /\ nextDoc \in Nat /\ nextDoc' = nextDoc + 1
  BY DEF Add, Unmoved, SInv, StoreTyped
<1>3. StoreTyped'
  <2>1. [no |-> nextDoc, item |-> x, at |-> i] \in Docs
    BY <1>2 DEF Docs
  <2> QED BY <1>0, <1>1, <1>2, <2>1 DEF SInv, StoreTyped
<1>4. StoryTyped'
  BY <1>0, <1>1, <1>2 DEF SInv, StoryTyped
<1>5. WorldTyped' /\ TimerTyped' /\ QueuesTyped' /\ HandlersTyped'
  BY <1>0 DEF SInv, WorldTyped, TimerTyped, QueuesTyped, HandlersTyped, world, timer, queues
<1>6. CInv'
  <2>1. UNCHANGED <<dxtr, dates, start, cutOff, synced, pages, fixes, reported, pc, local,
                    overlapped>>
    BY <1>0 DEF world, timer, queues
  <2>2. OverlapSeen' /\ IdsVisited' /\ FreshUnseen' /\ OrphansLeft' /\ StartKnows'
    BY <2>1 DEF CInv, OverlapSeen, CasesOf, IdsVisited, Visited, FreshUnseen, OrphansLeft,
                HasLeft, StartKnows, Behind, Ahead, IdOf
  <2>3. \A k \in Cases : NotMissed(k)'
    BY <2>1 DEF CInv, NotMissed, ToCome, Behind, Has, InHand, AtIt, IdOf
  <2> QED BY <2>2, <2>3 DEF CInv
<1> QED BY <1>3, <1>4, <1>5, <1>6 DEF SInv

LEMMA DocsGo ==
  ASSUME SInv, docs' \subseteq docs, UNCHANGED <<synced, nextDoc, unpatched>>,
         pointer' \in [Cases -> Ids]
  PROVE  StoreTyped'
BY DEF SInv, StoreTyped

(* A step of a handler on its page.                                        *)
LEMMA PageStepKnown ==
  ASSUME SInv, CInv, NEW w \in Workers, PageStep(w)
  PROVE  SInv' /\ CInv'
<1>0. WorldTyped' /\ TimerTyped'
  <2>1. UNCHANGED <<world, timer>>
    BY DEF PageStep, TakePage, NextEvent, GetDetail, Detect, GetExisting, SyncCase, Patch,
           Lookup, Search, Return, CallFails, PageStops
  <2> QED BY <2>1 DEF SInv, WorldTyped, TimerTyped, world, timer
<1>1. CASE NextEvent(w) \/ GetDetail(w) \/ Detect(w) \/ GetExisting(w) \/ Patch(w) \/ Lookup(w)
             \/ Search(w) \/ CallFails(w)
  <2>1. HandlersTyped' /\ Works(w)
    BY <1>1, NextWorks, DetailWorks, DetectWorks, ExistingWorks, PatchWorks, LookupWorks,
       SearchWorks, FailedCallWorks
  <2>2. UNCHANGED <<store, queues>>
    BY <1>1 DEF NextEvent, GetDetail, Detect, GetExisting, Patch, Lookup, Search, CallFails
  <2>3. StoreTyped' /\ QueuesTyped'
    BY <2>2 DEF SInv, StoreTyped, QueuesTyped, store, queues
  <2>4. StoryTyped'
    <3>1. CASE ~CallFails(w)
      <4>1. UNCHANGED <<faults, story>>
        BY <1>1, <3>1 DEF NextEvent, GetDetail, Detect, GetExisting, Patch, Lookup, Search
      <4> QED BY <4>1 DEF SInv, StoryTyped, story
    <3>2. CASE CallFails(w)
      <4>1. faults' \in 0..MaxFaults /\ abandoned' = abandoned \cup {local[w].id[1]}
            /\ UNCHANGED <<overlapped, late, astray>>
        BY <3>2, CaseAssumption DEF CallFails, SInv, StoryTyped
      <4>2. local[w].id[1] \in Cases
        <5>1. pc[w] \in PageSteps \ {"next", "return", "patch"}
          BY <3>2 DEF CallFails
        <5> QED BY <5>1, OnPage, IdShape
      <4> QED BY <4>1, <4>2 DEF SInv, StoryTyped
    <3> QED BY <3>1, <3>2
  <2>5. CInv'
    BY <2>1, WorksKeeps
  <2> QED BY <1>0, <2>1, <2>3, <2>4, <2>5 DEF SInv
<1>2. CASE SyncCase(w)
  <2>1. HandlersTyped' /\ StoreTyped' /\ CInv'
    BY <1>2, SyncKeeps
  <2>2. UNCHANGED <<queues, faults, story>>
    BY <1>2 DEF SyncCase
  <2> QED BY <1>0, <2>1, <2>2 DEF SInv, QueuesTyped, StoryTyped, queues, story
<1>3. CASE TakePage(w)
  <2>1. HandlersTyped' /\ QueuesTyped' /\ overlapped' \subseteq Cases /\ CInv'
    BY <1>3, TakePageKeeps
  <2>2. UNCHANGED <<store, faults, late, abandoned, astray>>
    BY <1>3 DEF TakePage
  <2> QED BY <1>0, <2>1, <2>2 DEF SInv, StoreTyped, StoryTyped, store
<1>4. CASE Return(w)
  <2>1. HandlersTyped' /\ QueuesTyped' /\ Rests(w)
    BY <1>4, ReturnRests
  <2>2. UNCHANGED <<store, faults, overlapped, late, abandoned>>
        /\ astray' = astray \cup Astray(local[w].found)
    BY <1>4 DEF Return
  <2>3. Astray(local[w].found) \subseteq Cases
    <3>1. \A f \in local[w].found : f.current \in Ids
      BY DEF SInv, HandlersTyped, Locals, Pairs
    <3> QED BY <3>1, IdShape DEF Astray
  <2>4. StoreTyped' /\ StoryTyped'
    BY <2>2, <2>3 DEF SInv, StoreTyped, StoryTyped, store
  <2>5. CInv'
    BY <2>1, RestsKeeps
  <2> QED BY <1>0, <2>1, <2>4, <2>5 DEF SInv
<1>5. CASE PageStops(w)
  <2>1. HandlersTyped' /\ QueuesTyped' /\ Rests(w)
    BY <1>5, StopRests
  <2> DEFINE m == local[w].page
             A == {f.orphan[1] : f \in local[w].found} \cup
                    (IF m.tries + 1 < MaxDequeue THEN {} ELSE {i[1] : i \in m.ids})
  <2>2. UNCHANGED <<store, overlapped, late, astray>> /\ abandoned' = abandoned \cup A
    BY <1>5 DEF PageStops
  <2>3. faults' \in 0..MaxFaults
    BY <1>5, CaseAssumption DEF PageStops, SInv, StoryTyped
  <2>4. A \subseteq Cases
    <3>1. (\A f \in local[w].found : f.orphan \in Ids) /\ m.ids \subseteq Ids
      BY DEF SInv, HandlersTyped, Locals, Pairs, PageMessages
    <3> QED BY <3>1, IdShape
  <2> HIDE DEF A
  <2>5. StoreTyped' /\ StoryTyped'
    BY <2>2, <2>3, <2>4 DEF SInv, StoreTyped, StoryTyped, store
  <2>6. CInv'
    BY <2>1, RestsKeeps
  <2> QED BY <1>0, <2>1, <2>5, <2>6 DEF SInv
<1> QED BY <1>1, <1>2, <1>3, <1>4, <1>5 DEF PageStep

(* A step of a clean-up.                                                   *)
LEMMA FixStepKnown ==
  ASSUME SInv, CInv, NEW w \in Workers, FixStep(w) \/ List(w) \/ Delete(w)
  PROVE  SInv' /\ CInv'
<1>0. WorldTyped' /\ TimerTyped'
  <2>1. UNCHANGED <<world, timer>>
    BY DEF FixStep, TakeFix, CheckOrphan, UpdateReferences, MarkAsMoved, FixFails, List, Delete
  <2> QED BY <2>1 DEF SInv, WorldTyped, TimerTyped, world, timer
<1>1. CASE TakeFix(w)
  <2>1. HandlersTyped' /\ QueuesTyped' /\ overlapped' \subseteq Cases /\ CInv'
    BY <1>1, TakeFixKeeps
  <2>2. UNCHANGED <<store, faults, late, abandoned, astray>>
    BY <1>1 DEF TakeFix
  <2> QED BY <1>0, <2>1, <2>2 DEF SInv, StoreTyped, StoryTyped, store
<1>2. CASE MarkAsMoved(w)
  <2>1. HandlersTyped' /\ StoreTyped' /\ Rests(w)
    BY <1>2, MarkRests
  <2>2. UNCHANGED <<queues, faults, story>>
    BY <1>2 DEF MarkAsMoved
  <2>3. CInv'
    BY <2>1, RestsKeeps
  <2> QED BY <1>0, <2>1, <2>2, <2>3 DEF SInv, QueuesTyped, StoryTyped, queues, story
<1>3. CASE UpdateReferences(w)
  <2>1. HandlersTyped' /\ Works(w)
    BY <1>3, CleanUpWorks
  <2>2. UNCHANGED <<synced, docs, nextDoc, unpatched, queues, faults, story>>
    BY <1>3 DEF UpdateReferences
  <2>3. pointer' \in [Cases -> Ids]
    <3>1. local[w].fix.current \in Ids
      BY <1>3, OnFix DEF UpdateReferences, FixSteps
    <3>2. pointer \in [Cases -> Ids]
      BY DEF SInv, StoreTyped
    <3> QED BY <1>3, <3>1, <3>2 DEF UpdateReferences, Current, Orphan
  <2>4. StoreTyped'
    BY <2>2, <2>3, DocsGo
  <2>5. CInv'
    BY <2>1, WorksKeeps
  <2> QED BY <1>0, <2>1, <2>2, <2>4, <2>5 DEF SInv, QueuesTyped, StoryTyped, queues, story
<1>4. CASE List(w)
  <2>1. HandlersTyped' /\ Works(w)
    BY <1>4, CleanUpWorks
  <2>2. UNCHANGED <<store, queues, faults, story>>
    BY <1>4 DEF List
  <2>3. CInv'
    BY <2>1, WorksKeeps
  <2> QED BY <1>0, <2>1, <2>2, <2>3
          DEF SInv, StoreTyped, QueuesTyped, StoryTyped, store, queues, story
<1>5. ASSUME NEW q, q = pc[w], q \in FixSteps, GiveBack(w),
             UNCHANGED <<world, timer, synced, pages, reported, overlapped>>
      PROVE  HandlersTyped' /\ QueuesTyped' /\ CInv'
  <2>1. UNCHANGED <<dxtr, dates, start, cutOff, overlapped, synced, pages, reported>>
    BY <1>5 DEF world, timer
  <2>2. HandlersTyped' /\ QueuesTyped' /\ Rests(w)
    BY <1>5, <2>1, GiveBackRests
  <2> QED BY <2>2, RestsKeeps
<1>6. CASE CheckOrphan(w)
  <2>1. pc[w] \in FixSteps
    BY <1>6 DEF CheckOrphan, FixSteps
  <2>2. UNCHANGED <<world, timer, store, pages, reported, faults, story>>
    BY <1>6 DEF CheckOrphan
  <2>3. StoreTyped' /\ StoryTyped'
    BY <2>2 DEF SInv, StoreTyped, StoryTyped, store, story
  <2>4. HandlersTyped' /\ QueuesTyped' /\ CInv'
    <3>1. CASE UNCHANGED <<fixes, local>>
      <4>1. HandlersTyped' /\ Works(w)
        BY <1>6, <3>1, CleanUpWorks
      <4>2. QueuesTyped'
        BY <2>2, <3>1 DEF SInv, QueuesTyped
      <4> QED BY <4>1, <4>2, WorksKeeps
    <3>2. CASE GiveBack(w)
      BY <1>5, <2>1, <2>2, <3>2 DEF store, story
    <3> QED BY <1>6, <3>1, <3>2 DEF CheckOrphan
  <2> QED BY <1>0, <2>3, <2>4 DEF SInv
<1>7. CASE Delete(w)
  <2>1. pc[w] \in FixSteps
    BY <1>7 DEF Delete, FixSteps
  <2>2. UNCHANGED <<world, timer, synced, nextDoc, pointer, unpatched, pages, reported,
                    faults, story>>
    BY <1>7 DEF Delete
  <2>3. StoreTyped'
    <3>1. docs' \subseteq docs /\ pointer' \in [Cases -> Ids]
      BY <1>7, <2>2 DEF Delete, SInv, StoreTyped
    <3> QED BY <2>2, <3>1, DocsGo
  <2>4. StoryTyped'
    BY <2>2 DEF SInv, StoryTyped, story
  <2>5. HandlersTyped' /\ QueuesTyped' /\ CInv'
    <3>1. CASE UNCHANGED <<fixes, local>>
      <4>1. HandlersTyped' /\ Works(w)
        BY <1>7, <3>1, CleanUpWorks
      <4>2. QueuesTyped'
        BY <2>2, <3>1 DEF SInv, QueuesTyped
      <4> QED BY <4>1, <4>2, WorksKeeps
    <3>2. CASE GiveBack(w)
      BY <1>5, <2>1, <2>2, <3>2 DEF story
    <3> QED BY <1>7, <3>1, <3>2 DEF Delete
  <2> QED BY <1>0, <2>3, <2>4, <2>5 DEF SInv
<1>8. CASE FixFails(w)
  <2>1. pc[w] \in FixSteps /\ GiveBack(w)
        /\ UNCHANGED <<world, timer, store, pages, reported, overlapped, late, astray>>
    BY <1>8 DEF FixFails
  <2>2. HandlersTyped' /\ QueuesTyped' /\ CInv'
    BY <1>5, <2>1 DEF store
  <2>3. StoreTyped'
    BY <2>1 DEF SInv, StoreTyped, store
  <2>4. faults' \in 0..MaxFaults
    BY <1>8, CaseAssumption DEF FixFails, SInv, StoryTyped
  <2>5. abandoned' \subseteq Cases
    <3>1. Orphan(w)[1] \in Cases
      BY <2>1, OnFix, IdShape DEF Orphan
    <3>2. abandoned' \subseteq abandoned \cup {Orphan(w)[1]}
      BY <1>8 DEF FixFails
    <3> QED BY <3>1, <3>2 DEF SInv, StoryTyped
  <2>6. StoryTyped'
    BY <2>1, <2>4, <2>5 DEF SInv, StoryTyped
  <2> QED BY <1>0, <2>2, <2>3, <2>6 DEF SInv
<1> QED BY <1>1, <1>2, <1>3, <1>4, <1>6, <1>7, <1>8 DEF FixStep

LEMMA CopyKnown ==
  ASSUME SInv, CInv, NEW w \in Workers, Copy(w)
  PROVE  SInv' /\ CInv'
<1>1. HandlersTyped' /\ Works(w) /\ StoreTyped'
  BY CopyWorks
<1>2. UNCHANGED <<world, timer, queues, faults, story>>
  BY DEF Copy
<1>3. CInv'
  BY <1>1, WorksKeeps
<1> QED BY <1>1, <1>2, <1>3 DEF SInv, WorldTyped, TimerTyped, QueuesTyped, StoryTyped,
        world, timer, queues, story

LEMMA ElsewhereKnown ==
  ASSUME SInv, CInv, Elsewhere
  PROVE  SInv' /\ CInv'
<1>0. UNCHANGED <<store, pc, local, story>> /\ HandlersTyped' /\ StoreTyped'
  <2>1. UNCHANGED <<store, pc, local, story>>
    BY DEF Elsewhere, Change, QueryCases, QueryTransactions, Store, Flush, StartFails
  <2> QED BY <2>1 DEF SInv, HandlersTyped, StoreTyped, store
<1>1. StoryTyped'
  <2>1. faults' = faults \/ (faults < MaxFaults /\ faults' = faults + 1)
    BY DEF Elsewhere, Change, QueryCases, QueryTransactions, Store, Flush, StartFails
  <2>2. faults' \in 0..MaxFaults
    BY <2>1, CaseAssumption DEF SInv, StoryTyped
  <2> QED BY <1>0, <2>2 DEF SInv, StoryTyped, story
<1>2. CASE \E k \in Cases : Change(k)
  <2>1. PICK k \in Cases : Change(k)
    BY <1>2
  <2>2. UNCHANGED <<timer, queues>>
    BY <2>1 DEF Change
  <2>3. WorldTyped' /\ changes' = changes + 1
    BY <2>1, ChangeWorld
  <2>4. TimerTyped'
    <3>1. \A f \in Feeds : /\ dates[f] \in Nat /\ start.latest[f] \in Nat
                           /\ dates[f] <= changes /\ start.latest[f] <= changes
      BY CaseAssumption DEF SInv, TimerTyped, Changes
    <3>2. changes \in Nat
      BY CaseAssumption DEF SInv, WorldTyped, Changes
    <3>3. \A f \in Feeds : dates[f] <= changes' /\ start.latest[f] <= changes'
      BY <2>3, <3>1, <3>2
    <3> QED BY <2>2, <3>3 DEF SInv, TimerTyped, timer
  <2>5. CInv'
    BY <2>1, ChangeKeeps
  <2> QED BY <1>0, <1>1, <2>2, <2>3, <2>4, <2>5 DEF SInv, QueuesTyped, queues
<1>3. CASE QueryCases \/ QueryTransactions \/ Store \/ StartFails
  <2>1. TimerTyped' /\ CInv'
    BY <1>3, QueriesKeep, StoreKeeps, StartFailsKeeps
  <2>2. UNCHANGED <<world, queues>>
    BY <1>3 DEF QueryCases, QueryTransactions, Store, StartFails
  <2> QED BY <1>0, <1>1, <2>1, <2>2 DEF SInv, WorldTyped, QueuesTyped, world, queues
<1>4. CASE Flush
  <2>1. TimerTyped' /\ QueuesTyped' /\ CInv'
    BY <1>4, FlushKeeps
  <2>2. UNCHANGED world
    BY <1>4 DEF Flush
  <2> QED BY <1>0, <1>1, <2>1, <2>2 DEF SInv, WorldTyped, world
<1> QED BY <1>2, <1>3, <1>4 DEF Elsewhere

LEMMA IdleKnown == SInv /\ CInv /\ UNCHANGED vars => SInv' /\ CInv'
<1> SUFFICES ASSUME SInv, CInv, UNCHANGED vars PROVE SInv' /\ CInv'
  OBVIOUS
<1>1. UNCHANGED <<world, timer, store, queues, pc, local, faults, story>>
  BY DEF vars
<1>2. SInv'
  BY <1>1 DEF SInv, WorldTyped, TimerTyped, StoreTyped, QueuesTyped, HandlersTyped, StoryTyped,
              world, timer, store, queues, story
<1>3. UNCHANGED <<dxtr, dates, start, cutOff, synced, pages, fixes, reported, pc, local,
                  overlapped>>
  BY <1>1 DEF world, timer, store, queues, story
<1>4. OverlapSeen' /\ IdsVisited' /\ FreshUnseen' /\ OrphansLeft' /\ StartKnows'
  BY <1>3 DEF CInv, OverlapSeen, CasesOf, IdsVisited, Visited, FreshUnseen, OrphansLeft,
              HasLeft, StartKnows, Behind, Ahead, IdOf
<1>5. \A k \in Cases : NotMissed(k)'
  BY <1>3 DEF CInv, NotMissed, ToCome, Behind, Has, InHand, AtIt, IdOf
<1> QED BY <1>2, <1>4, <1>5 DEF CInv

LEMMA KnownInit == Init => SInv /\ CInv
<1> SUFFICES ASSUME Init PROVE SInv /\ CInv
  OBVIOUS
<1>0. {0, 1} \subseteq Changes /\ \A n \in {0, 1} : n \in Nat
  <2>1. MaxChanges \in Nat \ {0}
    BY CaseAssumption
  <2> QED BY <2>1 DEF Changes
<1>1. (CHOOSE d \in Divisions : TRUE) \in Divisions
  BY EarlyAssumption
<1>2. WorldTyped
  <2>1. dxtr \in [Cases -> [division : Divisions, fields : Changes,
                            date : [Feeds -> Changes], left : SUBSET Divisions]]
        /\ \A k \in Cases : dxtr[k].fields = 1 /\ \A f \in Feeds : dxtr[k].date[f] = 0
    BY <1>0, <1>1 DEF Init
  <2> QED BY <1>0, <2>1 DEF Init, WorldTyped
<1>3. TimerTyped
  <2>1. /\ \A f \in Feeds : dates[f] = 0
        /\ dates \in [Feeds -> Changes] /\ start.step = "idle" /\ start.ids = {}
        /\ start.latest = [f \in Feeds |-> 0] /\ changes = 1 /\ starts = 0 /\ cutOff = FALSE
    BY <1>0 DEF Init, Resting
  <2>2. start \in [step : {"idle", "transactions", "store", "flush"},
                   ids : SUBSET Ids, latest : [Feeds -> Changes]]
    BY <1>0 DEF Init, Resting
  <2>3. starts \in 0..MaxStarts
    BY <2>1, CaseAssumption
  <2>4. \A f \in Feeds : dates[f] <= changes /\ start.latest[f] <= changes
    BY <2>1
  <2> QED BY <2>1, <2>2, <2>3, <2>4 DEF TimerTyped
<1>4. \A k \in Cases : IdOf(k) \in Ids /\ IdOf(k)[1] = k
  BY <1>2 DEF WorldTyped, IdOf, Ids
<1>5. /\ synced \in [Ids -> [fields : Changes, movedTo : Ids \cup {NoId}]]
      /\ \A i \in Ids : /\ synced[i].movedTo = NoId
                        /\ i = IdOf(i[1]) => synced[i].fields = 1
                        /\ i # IdOf(i[1]) => synced[i].fields = 0
  <2>1. \A i \in Ids : (IF i = IdOf(i[1]) THEN 1 ELSE 0) \in {0, 1}
    OBVIOUS
  <2> QED BY <1>0, <2>1 DEF Init
<1>6. StoreTyped
  <2>1. Cardinality(Early) \in Nat
    BY FS_CardinalityType, EarlyAssumption
  <2>2. PICK number \in [Early -> 1..Cardinality(Early)] :
          docs = {[no |-> number[x], item |-> x, at |-> IdOf(CaseOf[x])] : x \in Early}
    BY DEF Init
  <2>3. \A x \in Early : x \in Items /\ number[x] \in Nat /\ IdOf(CaseOf[x]) \in Ids
    BY <1>4, <2>1, <2>2, CaseAssumption
  <2>4. docs \subseteq Docs
    BY <2>2, <2>3 DEF Docs
  <2>5. nextDoc \in Nat /\ unpatched \subseteq Ids /\ pointer \in [Cases -> Ids]
    BY <1>4, <2>1 DEF Init
  <2> QED BY <1>5, <2>4, <2>5 DEF StoreTyped
<1>7. pages = EmptyBag /\ fixes = EmptyBag /\ reported = {}
  BY DEF Init
<1>8. IsABag(EmptyBag) /\ BagToSet(EmptyBag) = {}
  BY DEF EmptyBag, SetToBag, IsABag, BagToSet
<1>9. QueuesTyped
  BY <1>7, <1>8 DEF QueuesTyped
<1>10. \A w \in Workers : pc[w] = "idle" /\ local[w] = Idle
  BY DEF Init
<1>11. Idle \in Locals /\ PhaseOf("idle", Idle) /\ Idle.page.ids = {} /\ Idle.found = {}
       /\ Idle.fix.orphan = NoId
  BY IdleTyped DEF Idle, PhaseOf
<1>12. HandlersTyped
  BY <1>10, <1>11 DEF Init, HandlersTyped
<1>13. StoryTyped
  BY CaseAssumption DEF Init, StoryTyped
<1>14. SInv
  BY <1>2, <1>3, <1>6, <1>9, <1>12, <1>13 DEF SInv
<1>15. OverlapSeen
  BY <1>10, <1>11 DEF OverlapSeen, CasesOf
<1>16. IdsVisited
  <2>1. start.ids = {}
    BY DEF Init, Resting
  <2>2. ASSUME NEW i \in Ids, synced[i].fields # 0 PROVE Visited(i)
    <3>1. i = IdOf(i[1])
      BY <1>5, <2>2
    <3>2. i[2] = dxtr[i[1]].division
      BY <3>1 DEF IdOf
    <3> QED BY <3>2 DEF Visited
  <2> QED BY <1>7, <1>8, <1>10, <1>11, <2>1, <2>2 DEF IdsVisited
<1>17. FreshUnseen /\ OrphansLeft /\ StartKnows
  <2>1. start.step = "idle"
    BY DEF Init, Resting
  <2>2. "idle" \notin FixSteps /\ "idle" # "detect"
    BY DEF FixSteps
  <2> QED BY <1>5, <1>7, <1>8, <1>10, <1>11, <2>1, <2>2 DEF FreshUnseen, OrphansLeft, StartKnows
<1>18. ASSUME NEW k \in Cases PROVE NotMissed(k)
  <2>1. synced[IdOf(k)].fields = 1 /\ dxtr[k].fields = 1
    BY <1>4, <1>5 DEF Init
  <2> QED BY <1>10, <1>11, <2>1 DEF NotMissed, Has
<1> QED BY <1>14, <1>15, <1>16, <1>17, <1>18 DEF CInv

-----------------------------------------------------------------------------
LEMMA KnownStep ==
  ASSUME SInv, CInv, [Next]_vars
  PROVE  SInv' /\ CInv'
<1>1. ASSUME NEW w \in Workers, PageStep(w) \/ FixStep(w) \/ List(w) \/ Copy(w) \/ Delete(w)
      PROVE  SInv' /\ CInv'
  BY <1>1, PageStepKnown, FixStepKnown, CopyKnown
<1> QED BY <1>1, StepCases, AddKnown, ElsewhereKnown, IdleKnown

LEMMA MissedNothing == SInv /\ CInv => NothingMissed
<1> SUFFICES ASSUME SInv, CInv, NEW k \in Cases
             PROVE  LET i == IdOf(k) IN
                    \/ \E f \in Feeds : dxtr[k].date[f] > dates[f]
                    \/ Carried(i) \/ i \in reported
                    \/ cutOff \/ k \in overlapped
                    \/ /\ synced[i].fields = dxtr[k].fields
                       /\ synced[i].movedTo = NoId \/ dxtr[k].division \in dxtr[k].left
  BY DEF NothingMissed
<1>1. NotMissed(k) /\ IdOf(k) \in Ids /\ IdOf(k)[1] = k /\ IdOf(k)[2] = dxtr[k].division
  BY IdOfTyped DEF SInv, CInv
<1>2. synced[IdOf(k)].movedTo # NoId => dxtr[k].division \in dxtr[k].left \/ k \in overlapped
  BY <1>1 DEF CInv, OrphansLeft, HasLeft
<1>3. ToCome(k) => (\E f \in Feeds : dxtr[k].date[f] > dates[f]) \/ Carried(IdOf(k))
  BY DEF ToCome, Behind, Carried
<1>4. (\E w \in Workers : Has(w, k)) => Carried(IdOf(k))
  BY DEF Has, Carried
<1> QED BY <1>1, <1>2, <1>3, <1>4 DEF NotMissed

(* Every variable keeps its type; a document number stands for one         *)
(* document, and a handler holds a page or a message of the clean-up:      *)
(* handlePage and handleFix never mix the two.                             *)
THEOREM SyncTypes == Spec => []TypeOK
<1>1. DInv /\ [Next]_vars => DInv'
  BY DocsStep
<1>2. SInv /\ CInv /\ [Next]_vars => (SInv /\ CInv)'
  BY KnownStep
<1>3. SInv /\ DInv => TypeOK
  <2> SUFFICES ASSUME SInv, DInv PROVE TypeOK
    OBVIOUS
  <2>1. \A w \in Workers :
          \/ pc[w] = "idle" /\ local[w] = Idle
          \/ pc[w] \in PageSteps /\ local[w].page \in PageMessages
          \/ pc[w] \in FixSteps /\ local[w].fix \in FixMessages
    BY DEF SInv, HandlersTyped, PhaseOf, Locals
  <2>2. {abandoned, astray} \subseteq SUBSET Cases
    BY DEF SInv, StoryTyped
  <2> QED BY <2>1, <2>2 DEF SInv, DInv, Numbered, TypeOK, WorldTyped, TimerTyped, StoreTyped,
                 QueuesTyped, StoryTyped
<1> QED BY <1>1, <1>2, <1>3, DocsInit, KnownInit, PTL DEF Spec

(* A change of a case that the sync dates have passed is in CAMS under the *)
(* case's id of now, is on its way in a page, or was reported, whatever    *)
(* the order and the failures of starts, pages and clean-ups: but for a    *)
(* start that was stopped between its date and its pages, and two handlers *)
(* that had the case at once.                                              *)
THEOREM NothingIsMissed == Spec => []NothingMissed
<1>1. SInv /\ CInv /\ [Next]_vars => (SInv /\ CInv)'
  BY KnownStep
<1> QED BY <1>1, KnownInit, MissedNothing, PTL DEF Spec
-----------------------------------------------------------------------------
(* A case that moved once has left its first division for the one it is in.*)

Home      == CHOOSE d \in Divisions : TRUE
HomeId(k) == <<k, Home>>

Placed == \A k \in Cases :
  /\ dxtr[k].fields # 0 /\ synced[HomeId(k)].fields # 0
  /\ IsFiniteSet(dxtr[k].left)
  /\ \/ dxtr[k].left = {} /\ dxtr[k].division = Home
     \/ dxtr[k].left = {Home} /\ dxtr[k].division # Home
     \/ ~MovedOnce(k)

ReadSome == \A w \in Workers :
  pc[w] \in {"detect", "existing", "sync"} => local[w].read # 0

(* What is sent to the clean-up names two ids of a case, and the right way *)
(* round, unless it is noticed.                                            *)
Apart(f) == /\ f.orphan # f.current /\ f.orphan[1] = f.current[1]
            /\ Visited(f.orphan) /\ Visited(f.current)

Directed(o, c) ==
  /\ o # c /\ o[1] = c[1]
  /\ \/ o[1] \in astray \/ ~MovedOnce(o[1])
     \/ o = HomeId(o[1]) /\ c = IdOf(o[1])

PairsDirected ==
  /\ \A w \in Workers : \A f \in local[w].found : Apart(f)
  /\ \A m \in BagToSet(fixes) : Directed(m.orphan, m.current)
  /\ \A w \in Workers : pc[w] \in FixSteps => Directed(Orphan(w), Current(w))

(* What a clean-up has listed is of its orphan; and it is there, unless    *)
(* another one works on the case.                                          *)
ListedIsOwn == \A w \in Workers : pc[w] \in FixSteps =>
  /\ \A d \in local[w].moving : d.at = Orphan(w)
  /\ pc[w] = "delete" => \A d \in docs : d.no = local[w].doc => d.at = Orphan(w)

ListedIsThere == \A w \in Workers : pc[w] \in FixSteps =>
  \/ Orphan(w)[1] \in overlapped
  \/ /\ local[w].moving \subseteq docs
     /\ pc[w] = "delete" => /\ \E d \in docs : d.no = local[w].doc
                            /\ \A d \in local[w].moving : d.no # local[w].doc

WInv == Placed /\ ReadSome /\ PairsDirected /\ ListedIsOwn /\ ListedIsThere

(* Somebody has noticed that the case left its home.                       *)
Told(w, k) == \E f \in local[w].found : f.orphan = HomeId(k)

Noticed(k) ==
  \/ \E m \in BagToSet(fixes) : m.orphan = HomeId(k)
  \/ \E w \in Workers : \/ Told(w, k)
                        \/ pc[w] \in FixSteps /\ Orphan(w) = HomeId(k)

Exempt(k) == k \in overlapped \cup abandoned \/ ~MovedOnce(k)

FoundFirst == \A w \in Workers : pc[w] \in {"existing", "sync"} =>
  LET i == local[w].id  k == i[1] IN
    \/ Exempt(k) \/ i = HomeId(k) \/ synced[i].fields # 0
    \/ synced[HomeId(k)].movedTo # NoId \/ Told(w, k)

HomeNoticed == \A k \in Cases :
  \/ Exempt(k) \/ dxtr[k].left = {} \/ synced[IdOf(k)].fields = 0
  \/ synced[HomeId(k)].movedTo # NoId \/ Noticed(k)

OInv == FoundFirst /\ HomeNoticed

(* A clean-up has emptied the parts it is through with.                    *)
Passed(part) == {p \in Parts : \/ part = "assignments" /\ p = "orders"
                               \/ part = "cases" /\ p # "cases"}

Excused(i) == i \in late \/ i[1] \in astray \/ ~MovedOnce(i[1])

Empties(w) ==
  LET o == Orphan(w)  l == local[w] IN
  \/ Excused(o)
  \/ /\ pc[w] \notin {"check", "references"} => pointer[o[1]] # o
     /\ \A d \in At(o) : PartOf[d.item] \notin Passed(l.part)
     /\ pc[w] \in {"copy", "delete"} => \A d \in At(o) :
          PartOf[d.item] = l.part => d \in l.moving \/ (pc[w] = "delete" /\ d.no = l.doc)
     /\ pc[w] = "mark" => At(o) = {}
     /\ pc[w] \in {"check", "references"} => l.part = "orders"

EmptyInv ==
  /\ \A w \in Workers : pc[w] \in FixSteps => Empties(w)
  /\ \A i \in Ids : synced[i].movedTo # NoId =>
       \/ Excused(i)
       \/ i = HomeId(i[1]) /\ At(i) = {} /\ pointer[i[1]] # i

KInv == DInv /\ SInv /\ CInv

-----------------------------------------------------------------------------
(* What a step may do to each variable.                                    *)

Acts(w) == PageStep(w) \/ FixStep(w) \/ List(w) \/ Copy(w) \/ Delete(w)
Stays(w) == pc'[w] = pc[w] /\ local'[w] = local[w]

LEMMA OtherStays ==
  ASSUME KInv, NEW v \in Workers, Acts(v), NEW w \in Workers, w # v
  PROVE  Stays(w)
<1>1. ASSUME NEW s, NEW l, pc' = [pc EXCEPT ![v] = s], local' = [local EXCEPT ![v] = l]
      PROVE  Stays(w)
  BY <1>1 DEF KInv, SInv, HandlersTyped, Stays
<1>2. CASE PageStep(v) \/ FixStep(v)
  <2>1. Steps(v)
    BY <1>2, PageStepSteps, FixStepSteps DEF KInv
  <2> QED BY <1>1, <2>1 DEF Steps
<1>3. CASE List(v) \/ Copy(v) \/ Delete(v)
  <2>1. CASE Rest(v)
    BY <1>1, <2>1 DEF Rest, Goto
  <2>2. CASE ~Rest(v)
    <3>1. Works(v)
      BY <1>3, <2>2, CleanUpWorks, CopyWorks DEF KInv, Delete, GiveBack
    <3> QED BY <3>1 DEF Works, Others, Stays
  <2> QED BY <2>1, <2>2
<1> QED BY <1>2, <1>3 DEF Acts

LEMMA OneActs ==
  ASSUME KInv, [Next]_vars, NEW w \in Workers
  PROVE  Stays(w) \/ Acts(w)
<1>1. CASE \E v \in Workers : Acts(v)
  BY <1>1, OtherStays
<1>2. CASE UNCHANGED vars \/ Elsewhere \/ \E x \in Items : Add(x)
  <2>1. UNCHANGED <<pc, local>>
    BY <1>2 DEF vars, Elsewhere, Change, QueryCases, QueryTransactions, Store, Flush,
                StartFails, Add
  <2> QED BY <2>1 DEF Stays
<1> QED BY <1>1, <1>2, StepCases DEF Acts

LEMMA WorldSteps ==
  ASSUME [Next]_vars
  PROVE  UNCHANGED dxtr \/ \E k \in Cases : Change(k)
<1>1. CASE UNCHANGED vars \/ \E x \in Items : Add(x)
  BY <1>1 DEF vars, world, Add
<1>2. CASE Elsewhere
  BY <1>2 DEF Elsewhere, world, QueryCases, QueryTransactions, Store, Flush, StartFails
<1>3. CASE \E w \in Workers : Acts(w)
  <2>1. UNCHANGED world
    BY <1>3 DEF Acts, PageStep, FixStep, TakePage, NextEvent, GetDetail, Detect, GetExisting,
         SyncCase, Patch, Lookup, Search, Return, CallFails, PageStops, TakeFix, CheckOrphan,
         UpdateReferences, MarkAsMoved, FixFails, List, Copy, Delete
  <2> QED BY <2>1 DEF world
<1> QED BY <1>1, <1>2, <1>3, StepCases DEF Acts

LEMMA StoryGrows ==
  ASSUME [Next]_vars
  PROVE  /\ overlapped \subseteq overlapped' /\ late \subseteq late'
         /\ abandoned \subseteq abandoned' /\ astray \subseteq astray'
<1>1. CASE UNCHANGED vars \/ \E x \in Items : Add(x)
  BY <1>1 DEF vars, story, Add
<1>2. CASE Elsewhere
  BY <1>2 DEF Elsewhere, story, Change, QueryCases, QueryTransactions, Store, Flush, StartFails
<1>3. CASE \E w \in Workers : PageStep(w)
  BY <1>3 DEF PageStep, story, TakePage, NextEvent, GetDetail, Detect, GetExisting,
       SyncCase, Patch, Lookup, Search, Return, CallFails, PageStops
<1>4. CASE \E w \in Workers : FixStep(w) \/ List(w) \/ Copy(w) \/ Delete(w)
  BY <1>4 DEF story, FixStep, TakeFix, CheckOrphan,
       UpdateReferences, MarkAsMoved, FixFails, List, Copy, Delete
<1> QED BY <1>1, <1>2, <1>3, <1>4, StepCases

LEMMA PointerSteps ==
  ASSUME [Next]_vars
  PROVE  UNCHANGED pointer \/ \E w \in Workers : UpdateReferences(w)
<1>1. CASE UNCHANGED vars \/ Elsewhere \/ \E x \in Items : Add(x)
  BY <1>1 DEF vars, store, Add, Elsewhere, Change, QueryCases, QueryTransactions, Store, Flush,
              StartFails
<1>2. CASE \E w \in Workers : PageStep(w)
  BY <1>2 DEF PageStep, store, TakePage, NextEvent, GetDetail, Detect, GetExisting,
       SyncCase, Patch, Lookup, Search, Return, CallFails, PageStops
<1>3. CASE \E w \in Workers : FixStep(w) \/ List(w) \/ Copy(w) \/ Delete(w)
  BY <1>3 DEF store, FixStep, TakeFix, CheckOrphan, MarkAsMoved, FixFails, List, Copy, Delete
<1> QED BY <1>1, <1>2, <1>3, StepCases

LEMMA SyncedSteps ==
  ASSUME [Next]_vars
  PROVE  UNCHANGED synced \/ \E w \in Workers : SyncCase(w) \/ MarkAsMoved(w)
<1>1. CASE UNCHANGED vars \/ Elsewhere \/ \E x \in Items : Add(x)
  BY <1>1 DEF vars, store, Add, Elsewhere, Change, QueryCases, QueryTransactions, Store, Flush,
              StartFails
<1>2. CASE \E w \in Workers : PageStep(w)
  BY <1>2 DEF PageStep, store, TakePage, NextEvent, GetDetail, Detect, GetExisting,
       Patch, Lookup, Search, Return, CallFails, PageStops
<1>3. CASE \E w \in Workers : FixStep(w) \/ List(w) \/ Copy(w) \/ Delete(w)
  BY <1>3 DEF store, FixStep, TakeFix, CheckOrphan, UpdateReferences, FixFails, List, Copy, Delete
<1> QED BY <1>1, <1>2, <1>3, StepCases

LEMMA DocsSteps ==
  ASSUME [Next]_vars
  PROVE  \/ UNCHANGED docs \/ \E x \in Items : Add(x)
         \/ \E w \in Workers : Copy(w) \/ Delete(w)
<1>1. CASE UNCHANGED vars \/ Elsewhere
  BY <1>1 DEF vars, store, Elsewhere, Change, QueryCases, QueryTransactions, Store, Flush,
              StartFails
<1>2. CASE \E w \in Workers : PageStep(w)
  BY <1>2 DEF PageStep, store, TakePage, NextEvent, GetDetail, Detect, GetExisting,
       SyncCase, Patch, Lookup, Search, Return, CallFails, PageStops
<1>3. CASE \E w \in Workers : FixStep(w) \/ List(w)
  BY <1>3 DEF store, FixStep, TakeFix, CheckOrphan, UpdateReferences, MarkAsMoved, FixFails, List
<1> QED BY <1>1, <1>2, <1>3, StepCases

LEMMA FixesSteps ==
  ASSUME [Next]_vars
  PROVE  \/ UNCHANGED fixes
         \/ \E w \in Workers : \/ Return(w) \/ TakeFix(w) \/ FixFails(w)
                               \/ (CheckOrphan(w) \/ Delete(w)) /\ GiveBack(w)
<1>1. CASE UNCHANGED vars \/ Elsewhere \/ \E x \in Items : Add(x)
  BY <1>1 DEF vars, queues, Add, Elsewhere, Change, QueryCases, QueryTransactions, Store, Flush,
              StartFails
<1>2. CASE \E w \in Workers : PageStep(w)
  BY <1>2 DEF PageStep, queues, TakePage, NextEvent, GetDetail, Detect, GetExisting,
       SyncCase, Patch, Lookup, Search, CallFails, PageStops
<1>3. CASE \E w \in Workers : FixStep(w) \/ List(w) \/ Copy(w) \/ Delete(w)
  BY <1>3 DEF queues, FixStep, TakeFix, CheckOrphan, UpdateReferences, MarkAsMoved, List, Copy,
              Delete
<1> QED BY <1>1, <1>2, <1>3, StepCases


(* A clean-up takes its message, or goes on with it.                       *)
Taken(w) == /\ pc[w] = "idle" /\ pc'[w] = "check"
            /\ \E m \in BagToSet(fixes) : local'[w] = [Idle EXCEPT !.fix = m]

Checked(w)    == pc[w] = "check" /\ pc'[w] = "references" /\ local'[w] = local[w]
                   /\ UNCHANGED <<docs, pointer>>
Redirected(w) == pc[w] = "references" /\ pc'[w] = "list" /\ local'[w] = local[w]
                   /\ UpdateReferences(w) /\ UNCHANGED docs
Listed(w)     == pc[w] = "list" /\ pc'[w] = "copy" /\ UNCHANGED <<docs, pointer>>
                   /\ local'[w].part = local[w].part
                   /\ local'[w].moving = {d \in At(Orphan(w)) : PartOf[d.item] = local[w].part}
PartDone(w)   == pc[w] = "copy" /\ pc'[w] = "list" /\ UNCHANGED <<docs, pointer>>
                   /\ local[w].moving = {} /\ local[w].part # "cases"
                   /\ local'[w].moving = {} /\ local'[w].part = NextPart[local[w].part]
AllDone(w)    == pc[w] = "copy" /\ pc'[w] = "mark" /\ UNCHANGED <<docs, pointer>>
                   /\ local[w].moving = {} /\ local[w].part = "cases" /\ local'[w] = local[w]
Copied(w)     == pc[w] = "copy" /\ pc'[w] = "delete" /\ UNCHANGED pointer
                   /\ local'[w].part = local[w].part
                   /\ \E d \in local[w].moving :
                        /\ docs' = docs \cup {[d EXCEPT !.no = nextDoc, !.at = Current(w)]}
                        /\ local'[w].doc = d.no /\ local'[w].moving = local[w].moving \ {d}
Deleted(w)    == pc[w] = "delete" /\ pc'[w] = "copy" /\ UNCHANGED pointer
                   /\ local'[w] = local[w] /\ docs' = docs \ {d \in docs : d.no = local[w].doc}

GoesOn(w) == /\ pc[w] \in FixSteps /\ local'[w].fix = local[w].fix
             /\ \/ Checked(w) \/ Redirected(w) \/ Listed(w) \/ PartDone(w) \/ AllDone(w)
                \/ Copied(w) \/ Deleted(w)

LEMMA FixPhase ==
  ASSUME KInv, [Next]_vars, NEW w \in Workers, pc'[w] \in FixSteps
  PROVE  Stays(w) \/ Taken(w) \/ GoesOn(w)
<1>0. /\ pc \in [Workers -> {"idle"} \cup PageSteps \cup FixSteps]
      /\ local \in [Workers -> Locals]
  BY DEF KInv, SInv, HandlersTyped
<1>1. pc'[w] # "idle" /\ pc'[w] \notin PageSteps
  BY StepsApart
<1>2. ~Rest(w)
  BY <1>0, <1>1 DEF Rest, Goto
<1>3. local[w] \in Locals /\ Orphan(w) = local[w].fix.orphan
  BY <1>0 DEF Orphan
<1>4. ASSUME PageStep(w) PROVE FALSE
  <2>1. PICK s \in {"idle"} \cup PageSteps : pc' = [pc EXCEPT ![w] = s]
    BY <1>4 DEF PageStep, TakePage, NextEvent, GetDetail, Detect, GetExisting,
       SyncCase, Patch, Lookup, Search, Return, CallFails, PageStops, Rest, Goto, PageSteps
  <2> QED BY <1>0, <1>1, <2>1
<1>5. CASE TakeFix(w)
  <2>1. PICK m \in BagToSet(fixes) : local' = [local EXCEPT ![w] = [Idle EXCEPT !.fix = m]]
    BY <1>5 DEF TakeFix
  <2>2. local'[w] = [Idle EXCEPT !.fix = m] /\ pc'[w] = "check" /\ pc[w] = "idle"
    BY <1>0, <1>5, <2>1 DEF TakeFix, Goto
  <2> QED BY <2>2 DEF Taken
<1>6. CASE CheckOrphan(w)
  <2>1. pc[w] = "check" /\ pc'[w] = "references" /\ local'[w] = local[w]
    BY <1>0, <1>2, <1>6 DEF CheckOrphan, Goto, GiveBack
  <2> QED BY <1>6, <2>1 DEF CheckOrphan, store, GoesOn, Checked, FixSteps
<1>7. CASE UpdateReferences(w)
  <2>1. pc[w] = "references" /\ pc'[w] = "list" /\ local'[w] = local[w] /\ UNCHANGED docs
    BY <1>0, <1>7 DEF UpdateReferences, Goto
  <2> QED BY <1>7, <2>1 DEF GoesOn, Redirected, FixSteps
<1>8. CASE List(w)
  <2>1. pc[w] = "list" /\ pc'[w] = "copy"
    BY <1>0, <1>8 DEF List, Goto
  <2> DEFINE M == {d \in At(Orphan(w)) : PartOf[d.item] = local[w].part}
  <2>2. local' = [local EXCEPT ![w].moving = M] /\ UNCHANGED <<docs, pointer>>
    BY <1>8 DEF List, store
  <2> HIDE DEF M
  <2>3. local'[w].moving = M /\ local'[w].part = local[w].part /\ local'[w].fix = local[w].fix
    BY <1>0, <1>3, <2>2 DEF Locals
  <2> QED BY <2>1, <2>2, <2>3 DEF GoesOn, Listed, FixSteps, M
<1>9. CASE Copy(w)
  <2>0. pc[w] = "copy" /\ UNCHANGED pointer
    BY <1>9 DEF Copy
  <2>1. CASE local[w].moving = {} /\ local[w].part = "cases"
    <3>1. pc'[w] = "mark" /\ local' = local /\ UNCHANGED docs
      BY <1>0, <1>9, <2>1 DEF Copy, Goto
    <3> QED BY <2>0, <2>1, <3>1 DEF GoesOn, AllDone, FixSteps
  <2>2. CASE local[w].moving = {} /\ local[w].part # "cases"
    <3>1. pc'[w] = "list" /\ UNCHANGED docs
          /\ local' = [local EXCEPT ![w].part = NextPart[local[w].part]]
      BY <1>0, <1>9, <2>2 DEF Copy, Goto
    <3>2. /\ local'[w].part = NextPart[local[w].part] /\ local'[w].moving = {}
          /\ local'[w].fix = local[w].fix
      BY <1>0, <1>3, <2>2, <3>1 DEF Locals
    <3> QED BY <2>0, <2>2, <3>1, <3>2 DEF GoesOn, PartDone, FixSteps
  <2>3. CASE local[w].moving # {}
    <3>1. PICK d \in local[w].moving :
            /\ docs' = docs \cup {[d EXCEPT !.no = nextDoc, !.at = Current(w)]}
            /\ local' = [local EXCEPT ![w].doc = d.no, ![w].moving = @ \ {d}]
            /\ Goto(w, "delete")
      BY <1>9, <2>3 DEF Copy
    <3>2. /\ local'[w].doc = d.no /\ local'[w].moving = local[w].moving \ {d}
          /\ local'[w].fix = local[w].fix /\ local'[w].part = local[w].part
      BY <1>0, <1>3, <3>1 DEF Locals
    <3>3. pc'[w] = "delete"
      BY <1>0, <3>1 DEF Goto
    <3> QED BY <2>0, <3>1, <3>2, <3>3 DEF GoesOn, Copied, FixSteps
  <2> QED BY <2>1, <2>2, <2>3
<1>10. CASE Delete(w)
  <2>1. /\ pc[w] = "delete" /\ pc'[w] = "copy" /\ local'[w] = local[w] /\ UNCHANGED pointer
        /\ docs' = docs \ {d \in docs : d.no = local[w].doc}
    BY <1>0, <1>2, <1>10 DEF Delete, Goto, GiveBack
  <2> QED BY <2>1 DEF GoesOn, Deleted, FixSteps
<1>11. CASE MarkAsMoved(w) \/ FixFails(w)
  BY <1>2, <1>11 DEF MarkAsMoved, FixFails, GiveBack
<1> QED BY <1>4, <1>5, <1>6, <1>7, <1>8, <1>9, <1>10, <1>11, OneActs DEF Acts, FixStep


(* A page handler reads the case, looks for other ids and comes to write.  *)
Detailed(w) == /\ pc[w] = "detail" /\ pc'[w] = "detect" /\ local'[w].id = IdOf(local'[w].id[1])
               /\ local'[w].read = dxtr[local'[w].id[1]].fields
               /\ local'[w].id \in local[w].page.ids

LooksOn(w) == /\ local'[w].id = local[w].id /\ local'[w].read = local[w].read
              /\ \/ /\ pc[w] = "detect" /\ pc'[w] = "existing"
                    /\ \/ Detect(w)
                       \/ local[w].id[1] \in abandoned'
                 \/ /\ pc[w] = "existing" /\ pc'[w] = "sync" /\ local'[w].found = local[w].found

LEMMA FixStepStays ==
  ASSUME KInv, NEW w \in Workers, FixStep(w) \/ List(w) \/ Copy(w) \/ Delete(w)
  PROVE  pc'[w] \in {"idle"} \cup FixSteps /\ (pc[w] = "idle" \/ pc[w] \in FixSteps)
<1>0. pc \in [Workers -> {"idle"} \cup PageSteps \cup FixSteps]
  BY DEF KInv, SInv, HandlersTyped
<1>1. PICK s \in {"idle"} \cup FixSteps : pc' = [pc EXCEPT ![w] = s]
  BY DEF FixStep, TakeFix, CheckOrphan, UpdateReferences, MarkAsMoved, FixFails, List, Copy,
         Delete, GiveBack, Rest, Goto, FixSteps
<1>2. pc[w] = "idle" \/ pc[w] \in FixSteps
  BY DEF FixStep, TakeFix, CheckOrphan, UpdateReferences, MarkAsMoved, FixFails, List, Copy,
         Delete, FixSteps
<1> QED BY <1>0, <1>1, <1>2

LEMMA PagePhase ==
  ASSUME KInv, [Next]_vars, NEW w \in Workers, pc'[w] \in {"detect", "existing", "sync"}
  PROVE  Stays(w) \/ Detailed(w) \/ LooksOn(w)
<1>0. /\ pc \in [Workers -> {"idle"} \cup PageSteps \cup FixSteps]
      /\ local \in [Workers -> Locals]
  BY DEF KInv, SInv, HandlersTyped
<1>1. ~(FixStep(w) \/ List(w) \/ Copy(w) \/ Delete(w))
  BY FixStepStays DEF FixSteps
<1>2. CASE GetDetail(w)
  <2>1. local[w].id = IdOf(local[w].id[1])
        /\ local' = [local EXCEPT ![w].read = dxtr[local[w].id[1]].fields]
    BY <1>0, <1>2 DEF GetDetail, Goto
  <2>2. local[w] \in Locals /\ pc[w] = "detail" /\ local[w].id \in local[w].page.ids
    BY <1>2, OnPage DEF KInv, GetDetail, PageSteps
  <2>3. local'[w].id = local[w].id /\ local'[w].read = dxtr[local[w].id[1]].fields
    BY <1>0, <2>1, <2>2 DEF Locals
  <2>4. pc'[w] = "detect" /\ IdOf(local[w].id[1])' = IdOf(local[w].id[1])
    BY <1>0, <1>2, <2>1 DEF GetDetail, Goto, IdOf, world
  <2> QED BY <2>1, <2>2, <2>3, <2>4 DEF Detailed
<1>3. CASE Detect(w)
  <2>1. PICK F : local' = [local EXCEPT ![w].found = F]
    <3>1. local' = local => local' = [local EXCEPT ![w].found = local[w].found]
      BY <1>0 DEF Locals
    <3> QED BY <1>3, <3>1 DEF Detect
  <2>2. local'[w].id = local[w].id /\ local'[w].read = local[w].read
    BY <1>0, <2>1 DEF Locals
  <2>3. pc[w] = "detect" /\ pc'[w] = "existing"
    BY <1>0, <1>3 DEF Detect, Goto
  <2> QED BY <1>3, <2>2, <2>3 DEF LooksOn
<1>4. CASE GetExisting(w)
  <2>1. PICK n : local' = [local EXCEPT ![w].seen = n]
    BY <1>4 DEF GetExisting
  <2>2. local'[w].id = local[w].id /\ local'[w].read = local[w].read
        /\ local'[w].found = local[w].found
    BY <1>0, <2>1 DEF Locals
  <2>3. pc[w] = "existing" /\ pc'[w] = "sync"
    BY <1>0, <1>4 DEF GetExisting, Goto
  <2> QED BY <2>2, <2>3 DEF LooksOn
<1>5. CASE CallFails(w)
  <2>1. \/ pc[w] = "detect" /\ pc'[w] = "existing" /\ local' = local
        \/ pc[w] = "existing" /\ pc'[w] = "sync" /\ local' = local
    BY <1>0, <1>5 DEF CallFails, Goto
  <2>2. local[w].id[1] \in abandoned'
    BY <1>5 DEF CallFails
  <2> QED BY <2>1, <2>2 DEF LooksOn
<1>6. CASE TakePage(w) \/ NextEvent(w) \/ SyncCase(w) \/ Patch(w) \/ Lookup(w) \/ Search(w)
             \/ Return(w) \/ PageStops(w)
  <2>1. PICK s \in {"next", "return", "detail", "patch", "search", "idle"} :
          pc' = [pc EXCEPT ![w] = s]
    BY <1>6 DEF TakePage, NextEvent, SyncCase, Patch, Lookup, Search, Return, PageStops, Rest, Goto
  <2> QED BY <1>0, <2>1
<1> QED BY <1>1, <1>2, <1>3, <1>4, <1>5, <1>6, OneActs DEF Acts, PageStep

(* What a handler may find: another id of its case.                        *)
Detected(w, f) == \E o \in Unmoved(local[w].id[1]) :
  o # local[w].id /\ f = [orphan |-> o, current |-> local[w].id]

Searched(w, f) == LET i == local[w].id IN
  IdOf(i[1]) # i /\ f = [orphan |-> i, current |-> IdOf(i[1])]

LEMMA FoundSteps ==
  ASSUME KInv, [Next]_vars, NEW w \in Workers, NEW f \in local'[w].found
  PROVE  \/ f \in local[w].found
         \/ /\ local[w].id \in local[w].page.ids
            /\ Detected(w, f) \/ Searched(w, f)
<1>0. /\ local \in [Workers -> Locals]
  BY DEF KInv, SInv, HandlersTyped
<1>1. CASE Stays(w)
  BY <1>1 DEF Stays
<1>2. CASE Detect(w)
  <2>1. local[w].id \in local[w].page.ids
    BY <1>2, OnPage DEF KInv, Detect, PageSteps
  <2>2. CASE local' = local
    BY <2>2
  <2>3. CASE local' # local
    <3>1. PICK o \in Unmoved(local[w].id[1]) :
            local' = [local EXCEPT ![w].found = @ \cup
              (IF o = local[w].id THEN {} ELSE {[orphan |-> o, current |-> local[w].id]})]
      BY <1>2, <2>3 DEF Detect
    <3>2. local'[w].found = local[w].found \cup
            (IF o = local[w].id THEN {} ELSE {[orphan |-> o, current |-> local[w].id]})
      BY <1>0, <3>1 DEF Locals
    <3> QED BY <2>1, <3>2 DEF Detected
  <2> QED BY <2>2, <2>3
<1>3. CASE Search(w)
  <2> DEFINE i == local[w].id
  <2>1. i \in local[w].page.ids
    BY <1>3, OnPage DEF KInv, Search, PageSteps
  <2>2. local'[w].found = local[w].found \cup
          (IF IdOf(i[1]) = i THEN {} ELSE {[orphan |-> i, current |-> IdOf(i[1])]})
    BY <1>0, <1>3 DEF Search, Locals
  <2> QED BY <2>1, <2>2 DEF Searched
<1>4. CASE NextEvent(w) \/ GetDetail(w) \/ GetExisting(w) \/ SyncCase(w)
             \/ Patch(w) \/ Lookup(w) \/ CallFails(w)
  <2>1. local'[w].found = local[w].found
    <3>1. CASE NextEvent(w)
      BY <1>0, <3>1 DEF NextEvent, Locals
    <3>2. CASE GetDetail(w)
      BY <1>0, <3>2 DEF GetDetail, Locals
    <3>3. CASE GetExisting(w)
      BY <1>0, <3>3 DEF GetExisting, Locals
    <3>4. CASE SyncCase(w)
      BY <3>4 DEF SyncCase
    <3>5. CASE Patch(w)
      BY <1>0, <3>5 DEF Patch, Locals
    <3>6. CASE Lookup(w)
      BY <1>0, <3>6 DEF Lookup, Locals
    <3>7. CASE CallFails(w)
      <4>1. local' = local \/ \E F : local' = [local EXCEPT ![w].failed = F]
        BY <3>7 DEF CallFails
      <4> QED BY <1>0, <4>1 DEF Locals
    <3> QED BY <1>4, <3>1, <3>2, <3>3, <3>4, <3>5, <3>6, <3>7
  <2> QED BY <2>1
<1>5. CASE Return(w) \/ PageStops(w)
  BY <1>0, <1>5, IdleTyped DEF Return, PageStops, Rest
<1>6. CASE TakePage(w)
  BY <1>0, <1>6, IdleTyped DEF TakePage, Idle
<1>7. CASE FixStep(w) \/ List(w) \/ Copy(w) \/ Delete(w)
  <2>1. pc'[w] = "idle" \/ pc'[w] \in FixSteps
    BY <1>7, FixStepStays
  <2>2. SInv'
    BY KnownStep DEF KInv
  <2>3. local'[w].found = {}
    <3>1. PhaseOf(pc'[w], local'[w])
      BY <2>2 DEF SInv, HandlersTyped, PhaseOf
    <3> QED BY <2>1, <3>1, StepsApart, IdleTyped DEF PhaseOf
  <2> QED BY <2>3
<1> QED BY <1>1, <1>2, <1>3, <1>4, <1>5, <1>6, <1>7, OneActs DEF Acts, PageStep

LEMMA FoundStays ==
  ASSUME KInv, [Next]_vars, NEW w \in Workers
  PROVE  local[w].found \subseteq local'[w].found \/ Return(w) \/ PageStops(w)
<1>0. /\ local \in [Workers -> Locals]
  BY DEF KInv, SInv, HandlersTyped
<1>1. CASE Stays(w)
  BY <1>1 DEF Stays
<1>2. CASE Detect(w)
  BY <1>0, <1>2 DEF Detect, Locals
<1>3. CASE Search(w)
  BY <1>0, <1>3 DEF Search, Locals
<1>4. CASE CallFails(w)
  <2>1. local' = local \/ \E F : local' = [local EXCEPT ![w].failed = F]
    BY <1>4 DEF CallFails
  <2> QED BY <1>0, <2>1 DEF Locals
<1>5. CASE NextEvent(w)
  BY <1>0, <1>5 DEF NextEvent, Locals
<1>6. CASE GetDetail(w)
  BY <1>0, <1>6 DEF GetDetail, Locals
<1>7. CASE GetExisting(w)
  BY <1>0, <1>7 DEF GetExisting, Locals
<1>8. CASE SyncCase(w)
  BY <1>8 DEF SyncCase
<1>9. CASE Patch(w)
  BY <1>0, <1>9 DEF Patch, Locals
<1>10. CASE Lookup(w)
  BY <1>0, <1>10 DEF Lookup, Locals
<1>11. CASE TakePage(w) \/ FixStep(w) \/ List(w) \/ Copy(w) \/ Delete(w)
  <2>1. pc[w] = "idle" \/ pc[w] \in FixSteps
    BY <1>11, FixStepStays DEF TakePage
  <2>2. local[w].found = {}
    BY <2>1, OnFix, AtNothing, IdleTyped DEF KInv
  <2> QED BY <2>2
<1> QED BY <1>1, <1>2, <1>3, <1>4, <1>5, <1>6, <1>7, <1>8, <1>9, <1>10, <1>11, OneActs
        DEF Acts, PageStep


(* The queue of the clean-up: where a message comes from and goes to.      *)
LEMMA MessagesFrom ==
  ASSUME KInv, [Next]_vars, NEW m \in BagToSet(fixes')
  PROVE  \/ m \in BagToSet(fixes)
         \/ \E w \in Workers : /\ Return(w)
                               /\ \E f \in local[w].found :
                                    m.orphan = f.orphan /\ m.current = f.current
         \/ \E w \in Workers : /\ pc[w] \in FixSteps
                               /\ m.orphan = Orphan(w) /\ m.current = Current(w)
<1>0. IsABag(fixes)
  BY DEF KInv, SInv, QueuesTyped
<1>1. ASSUME NEW w \in Workers, Return(w)
      PROVE  m \in BagToSet(fixes) \/
               \E f \in local[w].found : m.orphan = f.orphan /\ m.current = f.current
  <2> DEFINE S == {[orphan |-> f.orphan, current |-> f.current, tries |-> 0] : f \in local[w].found}
  <2>1. fixes' = fixes (+) SetToBag(S)
    BY <1>1 DEF Return
  <2> HIDE DEF S
  <2>2. BagToSet(fixes') = BagToSet(fixes) \cup S
    BY <1>0, <2>1, BagAdd
  <2> QED BY <2>2 DEF S
<1>2. ASSUME NEW w \in Workers, pc[w] \in FixSteps, GiveBack(w)
      PROVE  m \in BagToSet(fixes) \/ (m.orphan = Orphan(w) /\ m.current = Current(w))
  <2> DEFINE x == local[w].fix
             n == [x EXCEPT !.tries = @ + 1]
  <2>1. x \in FixMessages
    BY <1>2, OnFix DEF KInv
  <2>2. n.orphan = x.orphan /\ n.current = x.current
    BY <2>1 DEF FixMessages
  <2>3. fixes' = fixes \/ fixes' = fixes (+) SetToBag({n})
    BY <1>2 DEF GiveBack
  <2> HIDE DEF n
  <2>4. BagToSet(fixes') \subseteq BagToSet(fixes) \cup {n}
    BY <1>0, <2>3, BagAdd
  <2> QED BY <2>2, <2>4 DEF Orphan, Current
<1>3. ASSUME NEW w \in Workers, TakeFix(w)
      PROVE  m \in BagToSet(fixes)
  <2>1. PICK x \in BagToSet(fixes) : fixes' = fixes (-) SetToBag({x})
    BY <1>3 DEF TakeFix
  <2> QED BY <1>0, <2>1, BagTake
<1>4. ASSUME NEW w \in Workers, CheckOrphan(w) \/ Delete(w) \/ FixFails(w)
      PROVE  pc[w] \in FixSteps
  BY <1>4 DEF CheckOrphan, Delete, FixFails, FixSteps
<1>5. \A w \in Workers : FixFails(w) => GiveBack(w)
  BY DEF FixFails
<1> QED BY <1>1, <1>2, <1>3, <1>4, <1>5, FixesSteps

LEMMA MessagesStay ==
  ASSUME KInv, [Next]_vars, NEW m \in BagToSet(fixes)
  PROVE  \/ m \in BagToSet(fixes')
         \/ \E w \in Workers : pc'[w] = "check" /\ local'[w].fix = m
<1>0. IsABag(fixes)
  BY DEF KInv, SInv, QueuesTyped
<1>1. ASSUME NEW w \in Workers, Return(w)
      PROVE  m \in BagToSet(fixes')
  <2> DEFINE S == {[orphan |-> f.orphan, current |-> f.current, tries |-> 0] : f \in local[w].found}
  <2>1. fixes' = fixes (+) SetToBag(S)
    BY <1>1 DEF Return
  <2> HIDE DEF S
  <2> QED BY <1>0, <2>1, BagAdd
<1>2. ASSUME NEW w \in Workers, GiveBack(w)
      PROVE  m \in BagToSet(fixes')
  <2> DEFINE n == [local[w].fix EXCEPT !.tries = @ + 1]
  <2>1. fixes' = fixes \/ fixes' = fixes (+) SetToBag({n})
    BY <1>2 DEF GiveBack
  <2> HIDE DEF n
  <2> QED BY <1>0, <2>1, BagAdd
<1>3. ASSUME NEW w \in Workers, TakeFix(w)
      PROVE  m \in BagToSet(fixes') \/ (pc'[w] = "check" /\ local'[w].fix = m)
  <2>1. PICK x \in BagToSet(fixes) : /\ fixes' = fixes (-) SetToBag({x})
                                     /\ local' = [local EXCEPT ![w] = [Idle EXCEPT !.fix = x]]
    BY <1>3 DEF TakeFix
  <2>2. pc'[w] = "check" /\ local'[w].fix = x
    BY <1>3, <2>1 DEF KInv, SInv, HandlersTyped, TakeFix, Goto, Idle
  <2> QED BY <1>0, <2>1, <2>2, BagTake
<1>4. \A w \in Workers : FixFails(w) => GiveBack(w)
  BY DEF FixFails
<1> QED BY <1>1, <1>2, <1>3, <1>4, FixesSteps

(* A message that is given back is there again, or was given up.           *)
LEMMA GivenBack ==
  ASSUME KInv, NEW w \in Workers, pc[w] \in FixSteps, GiveBack(w)
  PROVE  \/ \E m \in BagToSet(fixes') : m.orphan = Orphan(w)
         \/ ~(local[w].fix.tries + 1 < MaxDequeue)
<1> DEFINE x == local[w].fix
           n == [x EXCEPT !.tries = @ + 1]
<1>1. x \in FixMessages /\ IsABag(fixes)
  BY OnFix DEF KInv, SInv, QueuesTyped
<1>2. n.orphan = x.orphan
  BY <1>1 DEF FixMessages
<1>3. x.tries + 1 < MaxDequeue => fixes' = fixes (+) SetToBag({n})
  BY DEF GiveBack
<1> HIDE DEF n
<1>4. x.tries + 1 < MaxDequeue => n \in BagToSet(fixes')
  BY <1>1, <1>3, BagAdd
<1> QED BY <1>2, <1>4 DEF Orphan

(* A case has left what it had left before.                                *)
LEMMA LeftGrows ==
  ASSUME KInv, [Next]_vars, NEW k \in Cases
  PROVE  dxtr[k].left \subseteq dxtr'[k].left
<1>1. ASSUME NEW j \in Cases, Change(j) PROVE dxtr[k].left \subseteq dxtr'[k].left
  <2>1. dxtr \in [Cases -> [division : Divisions, fields : Changes,
                         date : [Feeds -> Changes], left : SUBSET Divisions]]
    BY DEF KInv, SInv, WorldTyped
  <2>2. ASSUME NEW f \in Feeds,
               dxtr' = [dxtr EXCEPT ![j].fields = changes', ![j].date[f] = changes']
        PROVE  dxtr'[k].left = dxtr[k].left
    BY <2>1, <2>2
  <2>3. ASSUME NEW d \in Divisions,
               dxtr' = [dxtr EXCEPT ![j].fields = changes', ![j].date["cases"] = changes',
                                    ![j].division = d, ![j].left = @ \cup {dxtr[j].division}]
        PROVE  dxtr[k].left \subseteq dxtr'[k].left
    BY <2>1, <2>3
  <2> QED BY <1>1, <2>2, <2>3 DEF Change
<1> QED BY <1>1, WorldSteps


-----------------------------------------------------------------------------
(* The places of a case that has moved once at most.                       *)

LEMMA HomeTyped ==
  /\ Home \in Divisions
  /\ \A k \in Cases : HomeId(k) \in Ids /\ HomeId(k)[1] = k /\ HomeId(k)[2] = Home
<1>1. Home \in Divisions
  BY EarlyAssumption DEF Home
<1> QED BY <1>1 DEF HomeId, Ids

LEMMA Places ==
  ASSUME KInv, Placed, NEW k \in Cases, MovedOnce(k)
  PROVE  /\ \/ dxtr[k].left = {} /\ IdOf(k) = HomeId(k)
            \/ dxtr[k].left = {Home} /\ IdOf(k) # HomeId(k)
         /\ \A i \in Ids : i[1] = k /\ Visited(i) => i \in {HomeId(k), IdOf(k)}
<1>1. \/ dxtr[k].left = {} /\ dxtr[k].division = Home
      \/ dxtr[k].left = {Home} /\ dxtr[k].division # Home
  BY DEF Placed
<1>2. \A i \in Ids : i[1] = k => i = <<k, i[2]>>
  BY IdShape
<1> QED BY <1>1, <1>2 DEF HomeId, IdOf, Visited

LEMMA VisitedStays ==
  ASSUME KInv, [Next]_vars, NEW i \in Ids, Visited(i)
  PROVE  Visited(i)'
<1>1. i[1] \in Cases
  BY IdShape
<1>2. CASE UNCHANGED dxtr
  BY <1>2 DEF Visited
<1>3. ASSUME NEW k \in Cases, Change(k) PROVE Visited(i)'
  <2>1. /\ \A j \in Cases \ {k} : dxtr'[j] = dxtr[j]
        /\ \/ dxtr'[k].division = dxtr[k].division /\ dxtr'[k].left = dxtr[k].left
           \/ dxtr'[k].left = dxtr[k].left \cup {dxtr[k].division}
    BY <1>3, ChangeWorld DEF KInv
  <2> QED BY <1>1, <2>1 DEF Visited
<1> QED BY <1>2, <1>3, WorldSteps

LEMMA ReadStep ==
  ASSUME KInv, Placed, ReadSome, [Next]_vars
  PROVE  ReadSome'
<1> SUFFICES ASSUME NEW w \in Workers, pc'[w] \in {"detect", "existing", "sync"}
             PROVE  local'[w].read # 0
  BY DEF ReadSome
<1>1. CASE Stays(w)
  BY <1>1 DEF Stays, ReadSome
<1>2. CASE LooksOn(w)
  BY <1>2 DEF LooksOn, ReadSome
<1>3. CASE Detailed(w)
  <2>1. local[w].page.ids \subseteq Ids
    BY DEF KInv, SInv, HandlersTyped, Locals, PageMessages
  <2>2. local'[w].id[1] \in Cases
    BY <1>3, <2>1, IdShape DEF Detailed
  <2> QED BY <1>3, <2>2 DEF Detailed, Placed
<1> QED BY <1>1, <1>2, <1>3, PagePhase

LEMMA PlacedStep ==
  ASSUME KInv, Placed, ReadSome, [Next]_vars
  PROVE  Placed'
<1> SUFFICES ASSUME NEW k \in Cases
             PROVE  /\ dxtr'[k].fields # 0 /\ synced'[HomeId(k)].fields # 0
                    /\ IsFiniteSet(dxtr'[k].left)
                    /\ \/ dxtr'[k].left = {} /\ dxtr'[k].division = Home
                       \/ dxtr'[k].left = {Home} /\ dxtr'[k].division # Home
                       \/ ~MovedOnce(k)'
  BY DEF Placed, HomeId, Home
<1>1. synced'[HomeId(k)].fields # 0
  <2>1. HomeId(k) \in Ids /\ synced[HomeId(k)].fields # 0
    BY HomeTyped DEF Placed
  <2>2. synced \in [Ids -> [fields : Changes, movedTo : Ids \cup {NoId}]]
    BY DEF KInv, SInv, StoreTyped
  <2>3. ASSUME NEW w \in Workers, SyncCase(w) PROVE synced'[HomeId(k)].fields # 0
    <3>1. local[w].read # 0 /\ synced' = [synced EXCEPT ![local[w].id].fields = local[w].read]
      BY <2>3 DEF SyncCase, ReadSome
    <3> QED BY <2>1, <2>2, <3>1
  <2>4. ASSUME NEW w \in Workers, MarkAsMoved(w) PROVE synced'[HomeId(k)].fields # 0
    BY <2>1, <2>2, <2>4 DEF MarkAsMoved
  <2> QED BY <2>1, <2>3, <2>4, SyncedSteps
<1>2. /\ dxtr[k].fields # 0 /\ IsFiniteSet(dxtr[k].left)
      /\ \/ dxtr[k].left = {} /\ dxtr[k].division = Home
         \/ dxtr[k].left = {Home} /\ dxtr[k].division # Home
         \/ ~MovedOnce(k)
  BY DEF Placed
<1>3. CASE dxtr'[k] = dxtr[k]
  BY <1>1, <1>2, <1>3 DEF MovedOnce
<1>4. CASE Change(k)
  <2>1. /\ dxtr \in [Cases -> [division : Divisions, fields : Changes,
                         date : [Feeds -> Changes], left : SUBSET Divisions]]
        /\ changes \in Nat /\ changes' = changes + 1
    <3>1. changes \in Changes /\ MaxChanges \in Nat
      BY CaseAssumption DEF KInv, SInv, WorldTyped
    <3>2. changes' = changes + 1
      BY <1>4 DEF Change
    <3>3. dxtr \in [Cases -> [division : Divisions, fields : Changes,
                         date : [Feeds -> Changes], left : SUBSET Divisions]]
      BY DEF KInv, SInv, WorldTyped
    <3> QED BY <3>1, <3>2, <3>3 DEF Changes
  <2>2. dxtr'[k].fields = changes'
    <3>1. ASSUME NEW f \in Feeds,
                 dxtr' = [dxtr EXCEPT ![k].fields = changes', ![k].date[f] = changes']
          PROVE  dxtr'[k].fields = changes'
      BY <2>1, <3>1
    <3>2. ASSUME NEW d \in Divisions,
                 dxtr' = [dxtr EXCEPT ![k].fields = changes', ![k].date["cases"] = changes',
                                      ![k].division = d, ![k].left = @ \cup {dxtr[k].division}]
          PROVE  dxtr'[k].fields = changes'
      BY <2>1, <3>2
    <3> QED BY <1>4, <3>1, <3>2 DEF Change
  <2>3. \/ dxtr'[k].division = dxtr[k].division /\ dxtr'[k].left = dxtr[k].left
        \/ /\ dxtr'[k].division # dxtr[k].division
           /\ dxtr'[k].left = dxtr[k].left \cup {dxtr[k].division}
    BY <1>4, ChangeWorld DEF KInv
  <2>4. CASE dxtr'[k].division = dxtr[k].division /\ dxtr'[k].left = dxtr[k].left
    BY <1>1, <1>2, <2>1, <2>2, <2>4 DEF MovedOnce
  <2>5. CASE /\ dxtr'[k].division # dxtr[k].division
             /\ dxtr'[k].left = dxtr[k].left \cup {dxtr[k].division}
    <3>1. /\ IsFiniteSet(dxtr'[k].left)
          /\ \/ dxtr[k].division \in dxtr[k].left
             \/ Cardinality(dxtr'[k].left) = Cardinality(dxtr[k].left) + 1
      BY <1>2, <2>5, FS_AddElement
    <3>2. CASE dxtr[k].left = {} /\ dxtr[k].division = Home
      BY <1>1, <2>1, <2>2, <2>5, <3>1, <3>2
    <3>3. CASE dxtr[k].left = {Home} /\ dxtr[k].division # Home
      <4>1. Cardinality(dxtr[k].left) = 1
        BY <3>3, FS_Singleton
      <4>2. ~MovedOnce(k)'
        BY <3>1, <3>3, <4>1 DEF MovedOnce
      <4> QED BY <1>1, <2>1, <2>2, <3>1, <4>2
    <3>4. CASE ~MovedOnce(k)
      <4>1. Cardinality(dxtr[k].left) <= Cardinality(dxtr'[k].left)
        BY <2>5, <3>1, FS_Subset
      <4>2. Cardinality(dxtr[k].left) \in Nat /\ Cardinality(dxtr'[k].left) \in Nat
        BY <1>2, <3>1, FS_CardinalityType
      <4>3. ~MovedOnce(k)'
        BY <3>4, <4>1, <4>2 DEF MovedOnce
      <4> QED BY <1>1, <2>1, <2>2, <3>1, <4>3
    <3> QED BY <1>2, <3>2, <3>3, <3>4
  <2> QED BY <2>3, <2>4, <2>5
<1>5. ASSUME NEW j \in Cases, j # k, Change(j) PROVE dxtr'[k] = dxtr[k]
  BY <1>5, ChangeWorld DEF KInv
<1> QED BY <1>3, <1>4, <1>5, WorldSteps

LEMMA OnceBefore ==
  ASSUME KInv, Placed, Placed', [Next]_vars, NEW k \in Cases, MovedOnce(k)'
  PROVE  MovedOnce(k)
<1>1. IsFiniteSet(dxtr[k].left) /\ IsFiniteSet(dxtr'[k].left)
  BY DEF Placed
<1>2. Cardinality(dxtr[k].left) <= Cardinality(dxtr'[k].left)
  BY <1>1, LeftGrows, FS_Subset
<1>3. Cardinality(dxtr[k].left) \in Nat /\ Cardinality(dxtr'[k].left) \in Nat
  BY <1>1, FS_CardinalityType
<1> QED BY <1>2, <1>3 DEF MovedOnce

(* Once it has left its home it stays where it is, or moves again.         *)
LEMMA IdStays ==
  ASSUME KInv, Placed, Placed', [Next]_vars, NEW k \in Cases, MovedOnce(k)'
  PROVE  \/ IdOf(k)' = IdOf(k) /\ dxtr'[k].left = dxtr[k].left
         \/ dxtr[k].left = {} /\ dxtr'[k].left = {Home} /\ IdOf(k)' # IdOf(k)
<1>1. MovedOnce(k)
  BY OnceBefore
<1>2. /\ \/ dxtr[k].left = {} /\ dxtr[k].division = Home
         \/ dxtr[k].left = {Home} /\ dxtr[k].division # Home
      /\ \/ dxtr'[k].left = {} /\ dxtr'[k].division = Home
         \/ dxtr'[k].left = {Home} /\ dxtr'[k].division # Home
  BY <1>1 DEF Placed, Home
<1>3. CASE dxtr'[k] = dxtr[k]
  BY <1>3 DEF IdOf
<1>4. CASE Change(k)
  <2>1. \/ dxtr'[k].division = dxtr[k].division /\ dxtr'[k].left = dxtr[k].left
        \/ /\ dxtr'[k].division # dxtr[k].division
           /\ dxtr'[k].left = dxtr[k].left \cup {dxtr[k].division}
    BY <1>4, ChangeWorld DEF KInv
  <2> QED BY <1>2, <2>1 DEF IdOf
<1>5. ASSUME NEW j \in Cases, j # k, Change(j) PROVE dxtr'[k] = dxtr[k]
  BY <1>5, ChangeWorld DEF KInv
<1> QED BY <1>3, <1>4, <1>5, WorldSteps


(* What is found and sent names two ids of a case, the right way round.    *)
LEMMA DirectedStays ==
  ASSUME KInv, Placed, Placed', [Next]_vars, NEW o \in Ids, NEW c \in Ids, Directed(o, c)
  PROVE  Directed(o, c)'
<1>1. o # c /\ o[1] = c[1] /\ o[1] \in Cases
  BY IdShape DEF Directed
<1>2. CASE o[1] \in astray
  BY <1>1, <1>2, StoryGrows DEF Directed
<1>3. CASE ~MovedOnce(o[1])
  <2>1. ~MovedOnce(o[1])'
    BY <1>1, <1>3, OnceBefore
  <2> QED BY <1>1, <2>1 DEF Directed
<1>4. CASE MovedOnce(o[1])' /\ MovedOnce(o[1]) /\ o = HomeId(o[1]) /\ c = IdOf(o[1])
  <2>1. dxtr[o[1]].left = {Home}
    BY <1>1, <1>4, Places
  <2>2. c = IdOf(o[1])'
    BY <1>1, <1>4, <2>1, IdStays
  <2> QED BY <1>1, <1>4, <2>2 DEF Directed, HomeId, Home
<1>5. CASE ~MovedOnce(o[1])'
  BY <1>1, <1>5 DEF Directed
<1> QED BY <1>2, <1>3, <1>4, <1>5 DEF Directed

LEMMA FoundDirected ==
  ASSUME KInv, Placed, NEW w \in Workers, Return(w), NEW f \in local[w].found, Apart(f)
  PROVE  Directed(f.orphan, f.current)'
<1> DEFINE k == f.orphan[1]
<1>1. f \in Pairs
  BY DEF KInv, SInv, HandlersTyped, Locals
<1>2. f.orphan \in Ids /\ f.current \in Ids /\ k \in Cases /\ f.current[1] = k
      /\ f.orphan # f.current /\ Visited(f.orphan) /\ Visited(f.current)
  BY <1>1, IdShape DEF Pairs, Apart
<1>3. UNCHANGED dxtr /\ astray' = astray \cup Astray(local[w].found)
  BY DEF Return, world
<1>4. CASE f.current # IdOf(f.current[1])
  <2>1. f.current[1] \in astray'
    BY <1>3, <1>4 DEF Astray
  <2> QED BY <1>2, <2>1 DEF Directed
<1>5. CASE f.current = IdOf(k) /\ MovedOnce(k)
  <2>1. f.orphan = HomeId(k)
    BY <1>2, <1>5, Places
  <2>2. f.orphan = HomeId(k)' /\ f.current = IdOf(k)'
    BY <1>3, <1>5, <2>1 DEF HomeId, IdOf, Home
  <2> QED BY <1>2, <2>2 DEF Directed
<1>6. CASE ~MovedOnce(k)
  BY <1>2, <1>3, <1>6 DEF Directed, MovedOnce
<1> QED BY <1>2, <1>4, <1>5, <1>6

LEMMA PairsStep ==
  ASSUME KInv, Placed, Placed', PairsDirected, [Next]_vars
  PROVE  PairsDirected'
<1>0. \A w \in Workers : local[w].page.ids \subseteq Ids /\ local[w].found \subseteq Pairs
  BY DEF KInv, SInv, HandlersTyped, Locals, PageMessages
<1>1. ASSUME NEW w \in Workers, NEW f \in local'[w].found PROVE Apart(f)'
  <2>1. f.orphan # f.current /\ f.orphan[1] = f.current[1] /\ f.orphan \in Ids /\ f.current \in Ids
        /\ Visited(f.orphan) /\ Visited(f.current)
    <3>1. CASE f \in local[w].found
      BY <1>0, <3>1 DEF PairsDirected, Apart, Pairs
    <3>2. CASE local[w].id \in local[w].page.ids /\ Detected(w, f)
      <4>1. local[w].id \in Ids /\ Visited(local[w].id)
        BY <1>0, <3>2 DEF KInv, CInv, IdsVisited
      <4>2. PICK o \in Unmoved(local[w].id[1]) :
              o # local[w].id /\ f = [orphan |-> o, current |-> local[w].id]
        BY <3>2 DEF Detected
      <4>3. o \in Ids /\ o[1] = local[w].id[1] /\ Visited(o)
        BY DEF Unmoved, KInv, CInv, IdsVisited
      <4> QED BY <4>1, <4>2, <4>3
    <3>3. CASE local[w].id \in local[w].page.ids /\ Searched(w, f)
      <4> DEFINE i == local[w].id
      <4>1. i \in Ids /\ Visited(i) /\ i[1] \in Cases
        BY <1>0, <3>3, IdShape DEF KInv, CInv, IdsVisited
      <4>2. IdOf(i[1]) \in Ids /\ IdOf(i[1])[1] = i[1] /\ IdOf(i[1])[2] = dxtr[i[1]].division
        BY <4>1, IdOfTyped DEF KInv, SInv
      <4>3. Visited(IdOf(i[1]))
        BY <4>2 DEF Visited
      <4>4. f.orphan = i /\ f.current = IdOf(i[1]) /\ IdOf(i[1]) # i
        BY <3>3 DEF Searched
      <4> QED BY <4>1, <4>2, <4>3, <4>4
    <3> QED BY <3>1, <3>2, <3>3, FoundSteps
  <2>2. Visited(f.orphan)' /\ Visited(f.current)'
    BY <2>1, VisitedStays
  <2> QED BY <2>1, <2>2 DEF Apart
<1>2. ASSUME NEW m \in BagToSet(fixes') PROVE Directed(m.orphan, m.current)'
  <2>1. CASE m \in BagToSet(fixes)
    <3>1. m.orphan \in Ids /\ m.current \in Ids
      BY <2>1 DEF KInv, SInv, QueuesTyped, FixMessages
    <3> QED BY <2>1, <3>1, DirectedStays DEF PairsDirected
  <2>2. ASSUME NEW w \in Workers, Return(w), NEW f \in local[w].found,
               m.orphan = f.orphan, m.current = f.current
        PROVE  Directed(m.orphan, m.current)'
    BY <2>2, FoundDirected DEF PairsDirected
  <2>3. ASSUME NEW w \in Workers, pc[w] \in FixSteps,
               m.orphan = Orphan(w), m.current = Current(w)
        PROVE  Directed(m.orphan, m.current)'
    <3>1. m.orphan \in Ids /\ m.current \in Ids
      BY <2>3, OnFix DEF KInv, Orphan, Current
    <3> QED BY <2>3, <3>1, DirectedStays DEF PairsDirected
  <2> QED BY <2>1, <2>2, <2>3, MessagesFrom
<1>3. ASSUME NEW w \in Workers, pc'[w] \in FixSteps PROVE Directed(Orphan(w), Current(w))'
  <2>1. PICK m : /\ m.orphan \in Ids /\ m.current \in Ids /\ Directed(m.orphan, m.current)
                 /\ m.orphan = Orphan(w)' /\ m.current = Current(w)'
    <3>1. CASE Taken(w)
      <4>1. PICK m \in BagToSet(fixes) : local'[w] = [Idle EXCEPT !.fix = m]
        BY <3>1 DEF Taken
      <4>2. m.orphan \in Ids /\ m.current \in Ids /\ Directed(m.orphan, m.current)
        BY DEF KInv, SInv, QueuesTyped, FixMessages, PairsDirected
      <4>3. m = local'[w].fix
        BY <4>1 DEF Idle
      <4> QED BY <4>2, <4>3 DEF Orphan, Current
    <3>2. CASE Stays(w) \/ GoesOn(w)
      <4>1. pc[w] \in FixSteps /\ local'[w].fix = local[w].fix
        BY <1>3, <3>2 DEF Stays, GoesOn
      <4>2. local[w].fix.orphan \in Ids /\ local[w].fix.current \in Ids
            /\ Directed(local[w].fix.orphan, local[w].fix.current)
        BY <4>1, OnFix DEF KInv, PairsDirected, Orphan, Current
      <4> QED BY <4>1, <4>2 DEF Orphan, Current
    <3> QED BY <1>3, <3>1, <3>2, FixPhase
  <2> QED BY <2>1, DirectedStays DEF Directed, MovedOnce, HomeId, IdOf, Home
<1> QED BY <1>1, <1>2, <1>3 DEF PairsDirected, Apart, Visited, Directed, Orphan, Current, MovedOnce,
              HomeId, Home, IdOf


(* Documents come with a new number, and go by their number.               *)
LEMMA DocsCome ==
  ASSUME KInv, [Next]_vars, NEW d \in docs' \ docs
  PROVE  /\ d.no = nextDoc
         /\ \/ \E v \in Workers : pc[v] = "copy" /\ d.at = Current(v)
            \/ /\ d.at \in Ids /\ synced[d.at].movedTo = NoId
               /\ \A w \in Workers : pc[w] \in FixSteps /\ Orphan(w) = d.at => d.at \in late'
<1>1. ASSUME NEW x \in Items, Add(x)
      PROVE  /\ d.no = nextDoc /\ d.at \in Ids /\ synced[d.at].movedTo = NoId
             /\ \A w \in Workers : pc[w] \in FixSteps /\ Orphan(w) = d.at => d.at \in late'
  <2>1. PICK i \in Unmoved(CaseOf[x]) :
          /\ docs' = docs \cup {[no |-> nextDoc, item |-> x, at |-> i]}
          /\ late' = late \cup
            (IF \E w \in Workers : pc[w] \in FixSteps /\ local[w].fix.orphan = i
             THEN {i} ELSE {})
    BY <1>1 DEF Add
  <2>2. i \in Ids /\ synced[i].movedTo = NoId
    BY DEF Unmoved
  <2>3. d = [no |-> nextDoc, item |-> x, at |-> i]
    BY <2>1
  <2> QED BY <2>1, <2>2, <2>3 DEF Orphan
<1>2. ASSUME NEW v \in Workers, Copy(v)
      PROVE  d.no = nextDoc /\ pc[v] = "copy" /\ d.at = Current(v)
  <2>1. PICK e \in local[v].moving : docs' = docs \cup {[e EXCEPT !.no = nextDoc, !.at = Current(v)]}
    BY <1>2 DEF Copy
  <2>2. d = [e EXCEPT !.no = nextDoc, !.at = Current(v)] /\ e \in Docs
    BY <2>1 DEF KInv, SInv, HandlersTyped, Locals
  <2> QED BY <1>2, <2>2 DEF Copy, Docs
<1>3. ASSUME NEW v \in Workers, Delete(v) PROVE FALSE
  BY <1>3 DEF Delete
<1> QED BY <1>1, <1>2, <1>3, DocsSteps

LEMMA DocsLeave ==
  ASSUME KInv, [Next]_vars, NEW d \in docs \ docs'
  PROVE  \E v \in Workers : /\ pc[v] = "delete" /\ pc'[v] # "delete" /\ d.no = local[v].doc
<1>1. ASSUME NEW x \in Items, Add(x) PROVE FALSE
  BY <1>1 DEF Add
<1>2. ASSUME NEW v \in Workers, Copy(v) PROVE FALSE
  BY <1>2 DEF Copy
<1>3. ASSUME NEW v \in Workers, Delete(v)
      PROVE  pc[v] = "delete" /\ pc'[v] # "delete" /\ d.no = local[v].doc
  BY <1>3 DEF KInv, SInv, HandlersTyped, Delete, GiveBack, Rest, Goto
<1> QED BY <1>1, <1>2, <1>3, DocsSteps

LEMMA OwnStep ==
  ASSUME KInv, ListedIsOwn, [Next]_vars
  PROVE  ListedIsOwn'
<1> SUFFICES ASSUME NEW w \in Workers, pc'[w] \in FixSteps
             PROVE  /\ \A d \in local'[w].moving : d.at = Orphan(w)'
                    /\ pc'[w] = "delete" => \A d \in docs' : d.no = local'[w].doc =>
                         d.at = Orphan(w)'
  BY DEF ListedIsOwn, Orphan
<1>1. CASE Taken(w)
  BY <1>1 DEF Taken, Idle
<1>2. CASE Stays(w) \/ GoesOn(w)
  <2>1. pc[w] \in FixSteps /\ Orphan(w)' = Orphan(w)
    BY <1>2 DEF Stays, GoesOn, Orphan
  <2>2. /\ \A d \in local[w].moving : d.at = Orphan(w)
        /\ pc[w] = "delete" => \A d \in docs : d.no = local[w].doc => d.at = Orphan(w)
    BY <2>1 DEF ListedIsOwn
  <2>3. CASE Stays(w)
    <3>1. pc[w] = "delete" => local[w].doc \in Nat /\ local[w].doc < nextDoc /\ nextDoc \in Nat
      BY DEF KInv, DInv, CopyIsThere, Numbered
    <3>2. ASSUME pc[w] = "delete", NEW d \in docs', d.no = local[w].doc PROVE d \in docs
      BY <3>1, <3>2, DocsCome
    <3> QED BY <2>1, <2>2, <2>3, <3>2 DEF Stays
  <2>4. CASE Checked(w) \/ Redirected(w) \/ PartDone(w) \/ AllDone(w) \/ Deleted(w)
    BY <2>1, <2>2, <2>4 DEF Checked, Redirected, PartDone, AllDone, Deleted
  <2>5. CASE Listed(w)
    BY <2>1, <2>5 DEF Listed, At
  <2>6. CASE Copied(w)
    <3>1. PICK d \in local[w].moving :
            /\ docs' = docs \cup {[d EXCEPT !.no = nextDoc, !.at = Current(w)]}
            /\ local'[w].doc = d.no /\ local'[w].moving = local[w].moving \ {d}
      BY <2>6 DEF Copied
    <3>2. d.no \in Nat /\ d.no < nextDoc /\ nextDoc \in Nat
          /\ \A e \in docs : d.no = e.no => d = e
      BY DEF KInv, DInv, ListedIsKnown, Numbered, DocShaped
    <3>3. ASSUME NEW e \in docs', e.no = d.no PROVE e = d
      BY <3>1, <3>2, <3>3, DocsCome
    <3> QED BY <2>1, <2>2, <3>1, <3>3
  <2> QED BY <1>2, <2>3, <2>4, <2>5, <2>6 DEF GoesOn
<1> QED BY <1>1, <1>2, FixPhase

LEMMA ThereStep ==
  ASSUME KInv, ListedIsOwn, ListedIsThere, [Next]_vars
  PROVE  ListedIsThere'
<1> SUFFICES ASSUME NEW w \in Workers, pc'[w] \in FixSteps, Orphan(w)'[1] \notin overlapped'
             PROVE  /\ local'[w].moving \subseteq docs'
                    /\ pc'[w] = "delete" => /\ \E d \in docs' : d.no = local'[w].doc
                                            /\ \A d \in local'[w].moving : d.no # local'[w].doc
  BY DEF ListedIsThere, Orphan
<1>1. CASE Taken(w)
  BY <1>1 DEF Taken, Idle
<1>2. CASE Stays(w) \/ GoesOn(w)
  <2>1. pc[w] \in FixSteps /\ Orphan(w)' = Orphan(w)
    BY <1>2 DEF Stays, GoesOn, Orphan
  <2>2. Orphan(w)[1] \notin overlapped
    BY <2>1, StoryGrows
  <2>3. /\ local[w].moving \subseteq docs
        /\ pc[w] = "delete" => /\ \E d \in docs : d.no = local[w].doc
                               /\ \A d \in local[w].moving : d.no # local[w].doc
    BY <2>1, <2>2 DEF ListedIsThere
  <2>4. CASE Stays(w)
    <3>1. ASSUME NEW d \in docs, d.at = Orphan(w) PROVE d \in docs'
      <4>1. SUFFICES ASSUME d \notin docs' PROVE FALSE
        OBVIOUS
      <4>2. PICK v \in Workers : pc[v] = "delete" /\ pc'[v] # "delete" /\ d.no = local[v].doc
        BY <4>1, DocsLeave
      <4>3. v # w /\ pc[v] \in FixSteps
        BY <2>4, <4>2 DEF Stays, FixSteps
      <4>4. Orphan(v) = Orphan(w)
        BY <3>1, <4>2, <4>3 DEF ListedIsOwn
      <4>5. Orphan(v) \in Ids /\ Orphan(w) \in Ids
        BY <2>1, <4>3, OnFix DEF KInv, Orphan
      <4>6. Orphan(w)[1] \in CasesOf(local[v]) /\ Orphan(w)[1] \in CasesOf(local[w])
        BY <4>4, <4>5, CaseAssumption DEF CasesOf, Orphan
      <4> QED BY <2>2, <4>3, <4>6 DEF KInv, CInv, OverlapSeen
    <3>2. /\ \A d \in local[w].moving : d.at = Orphan(w)
          /\ pc[w] = "delete" => \A d \in docs : d.no = local[w].doc => d.at = Orphan(w)
      BY <2>1 DEF ListedIsOwn
    <3> QED BY <2>3, <2>4, <3>1, <3>2 DEF Stays
  <2>5. CASE Checked(w) \/ Redirected(w) \/ PartDone(w) \/ AllDone(w)
    BY <2>3, <2>5 DEF Checked, Redirected, PartDone, AllDone
  <2>6. CASE Listed(w)
    BY <2>6 DEF Listed, At
  <2>7. CASE Copied(w)
    <3>1. PICK d \in local[w].moving :
            /\ docs' = docs \cup {[d EXCEPT !.no = nextDoc, !.at = Current(w)]}
            /\ local'[w].doc = d.no /\ local'[w].moving = local[w].moving \ {d}
      BY <2>7 DEF Copied
    <3>2. \A e \in docs : d.no = e.no => d = e
      BY DEF KInv, DInv, ListedIsKnown
    <3> QED BY <2>3, <3>1, <3>2
  <2>8. CASE Deleted(w)
    BY <2>3, <2>8 DEF Deleted
  <2> QED BY <1>2, <2>4, <2>5, <2>6, <2>7, <2>8 DEF GoesOn
<1> QED BY <1>1, <1>2, FixPhase

LEMMA CleanUpStep ==
  ASSUME KInv, WInv, [Next]_vars
  PROVE  WInv'
<1>1. Placed' /\ ReadSome'
  BY PlacedStep, ReadStep DEF WInv
<1> QED BY <1>1, PairsStep, OwnStep, ThereStep DEF WInv


-----------------------------------------------------------------------------
(* Somebody has noticed a case that left its home.                         *)

LEMMA SyncedGrows ==
  ASSUME KInv, ReadSome, [Next]_vars, NEW i \in Ids
  PROVE  /\ synced[i].movedTo # NoId => synced'[i].movedTo # NoId
         /\ synced[i].fields # 0 => synced'[i].fields # 0
         /\ \/ synced'[i].fields = synced[i].fields
            \/ \E w \in Workers : SyncCase(w) /\ local[w].id = i
<1>0. synced \in [Ids -> [fields : Changes, movedTo : Ids \cup {NoId}]]
  BY DEF KInv, SInv, StoreTyped
<1>1. ASSUME NEW w \in Workers, SyncCase(w)
      PROVE  /\ synced'[i].movedTo = synced[i].movedTo
             /\ synced[i].fields # 0 => synced'[i].fields # 0
             /\ synced'[i].fields = synced[i].fields \/ local[w].id = i
  <2>1. /\ synced' = [synced EXCEPT ![local[w].id].fields = local[w].read]
        /\ local[w].read # 0
    BY <1>1 DEF SyncCase, ReadSome
  <2> QED BY <1>0, <2>1
<1>2. ASSUME NEW w \in Workers, MarkAsMoved(w)
      PROVE  /\ synced'[i].fields = synced[i].fields
             /\ synced[i].movedTo # NoId => synced'[i].movedTo # NoId
  <2>1. synced' = [synced EXCEPT ![Orphan(w)].movedTo = Current(w)] /\ pc[w] \in FixSteps
    BY <1>2 DEF MarkAsMoved, FixSteps
  <2>2. Current(w) # NoId
    BY <2>1, OnFix, CaseAssumption DEF KInv, Current
  <2> QED BY <1>0, <2>1, <2>2
<1> QED BY <1>1, <1>2, SyncedSteps

LEMMA ExemptStays ==
  ASSUME KInv, Placed, Placed', [Next]_vars, NEW k \in Cases, Exempt(k)
  PROVE  Exempt(k)'
<1>1. CASE k \in overlapped \cup abandoned
  BY <1>1, StoryGrows DEF Exempt
<1>2. CASE ~MovedOnce(k)
  BY <1>2, OnceBefore DEF Exempt
<1> QED BY <1>1, <1>2 DEF Exempt

LEMMA FirstStep ==
  ASSUME KInv, WInv, WInv', FoundFirst, [Next]_vars
  PROVE  FoundFirst'
<1>0. Placed /\ Placed' /\ ReadSome
  BY DEF WInv
<1> SUFFICES ASSUME NEW w \in Workers, pc'[w] \in {"existing", "sync"},
                    NEW i, i = local'[w].id, NEW k, k = i[1]
             PROVE  \/ Exempt(k)' \/ i = HomeId(k) \/ synced'[i].fields # 0
                    \/ synced'[HomeId(k)].movedTo # NoId
                    \/ \E f \in local'[w].found : f.orphan = HomeId(k)
  BY DEF FoundFirst, Told, HomeId, Home, Exempt, MovedOnce
<1>1. pc[w] \in {"detect", "existing", "sync"} /\ local[w].id = i
  BY PagePhase DEF Stays, Detailed, LooksOn
<1>2. i \in local[w].page.ids /\ i \in Ids /\ k \in Cases
  BY <1>1, OnPage, IdShape DEF KInv, PageSteps
<1>3. HomeId(k) \in Ids /\ HomeId(k)[1] = k
  BY <1>2, HomeTyped
<1>4. CASE pc[w] \in {"existing", "sync"}
  <2>1. \/ Exempt(k) \/ i = HomeId(k) \/ synced[i].fields # 0
        \/ synced[HomeId(k)].movedTo # NoId \/ Told(w, k)
    BY <1>1, <1>4 DEF FoundFirst
  <2>2. local'[w].found = local[w].found
    BY <1>4, PagePhase DEF Stays, Detailed, LooksOn
  <2> QED BY <1>0, <1>1, <1>2, <1>3, <2>1, <2>2, ExemptStays, SyncedGrows DEF Told
<1>5. CASE pc[w] = "detect"
  <2>1. LooksOn(w) /\ (Detect(w) \/ k \in abandoned')
    BY <1>5, PagePhase DEF Stays, Detailed, LooksOn
  <2>2. CASE k \in abandoned'
    BY <1>1, <2>2 DEF Exempt
  <2>3. CASE Exempt(k)
    BY <1>0, <1>1, <1>2, <2>3, ExemptStays
  <2>4. CASE Detect(w) /\ ~Exempt(k)
    <3>1. CASE Unmoved(k) = {}
      <4>1. synced[HomeId(k)].movedTo # NoId
        BY <1>0, <1>2, <1>3, <3>1 DEF Placed, Unmoved
      <4> QED BY <1>0, <1>1, <1>3, <4>1, SyncedGrows
    <3>2. CASE Unmoved(k) # {}
      <4>1. PICK o \in Unmoved(k) : local' = [local EXCEPT ![w].found = @ \cup
              (IF o = i THEN {} ELSE {[orphan |-> o, current |-> i]})]
        BY <1>1, <2>4, <3>2 DEF Detect
      <4>2. local[w] \in Locals /\ local \in [Workers -> Locals]
        BY DEF KInv, SInv, HandlersTyped
      <4>3. local'[w].found = local[w].found \cup
              (IF o = i THEN {} ELSE {[orphan |-> o, current |-> i]})
        BY <4>1, <4>2 DEF Locals
      <4>4. o \in Ids /\ o[1] = k /\ synced[o].fields # 0 /\ Visited(o) /\ Visited(i)
        BY <1>2 DEF Unmoved, KInv, CInv, IdsVisited
      <4>5. o \in {HomeId(k), IdOf(k)} /\ i \in {HomeId(k), IdOf(k)}
        BY <1>0, <1>2, <2>4, <4>4, Places DEF Exempt
      <4>6. CASE o = i
        BY <1>0, <1>1, <1>2, <4>4, <4>6, SyncedGrows
      <4>7. CASE o # i /\ o = HomeId(k)
        <5>1. [orphan |-> o, current |-> i] \in local'[w].found
          BY <4>3, <4>7
        <5>2. [orphan |-> o, current |-> i].orphan = HomeId(k)
          BY <4>7
        <5> QED BY <5>1, <5>2
      <4> QED BY <1>1, <4>5, <4>6, <4>7
    <3> QED BY <3>1, <3>2
  <2> QED BY <2>1, <2>2, <2>3, <2>4
<1> QED BY <1>1, <1>4, <1>5

(* What is noticed stays so, until it is cleaned up or given up.           *)
LEMMA NoticedStays ==
  ASSUME KInv, WInv, WInv', [Next]_vars, NEW k \in Cases, Noticed(k)
  PROVE  \/ Noticed(k)' \/ Exempt(k)'
         \/ synced'[HomeId(k)].movedTo # NoId
<1> DEFINE h == HomeId(k)
<1>0. Placed /\ Placed' /\ ReadSome /\ h' = h /\ h \in Ids /\ h[1] = k
  BY HomeTyped DEF WInv, HomeId, Home
<1>1. ASSUME NEW m \in BagToSet(fixes), m.orphan = h
      PROVE  Noticed(k)'
  <2>1. CASE m \in BagToSet(fixes')
    BY <1>0, <1>1, <2>1 DEF Noticed
  <2>2. ASSUME NEW w \in Workers, pc'[w] = "check", local'[w].fix = m
        PROVE  Noticed(k)'
    BY <1>0, <1>1, <2>2 DEF Noticed, Orphan, FixSteps
  <2> QED BY <2>1, <2>2, MessagesStay
<1>2. ASSUME NEW w \in Workers, Told(w, k)
      PROVE  Noticed(k)' \/ Exempt(k)'
  <2>1. PICK f \in local[w].found : f.orphan = h
    BY <1>2 DEF Told
  <2>2. CASE f \in local'[w].found
    BY <1>0, <2>1, <2>2 DEF Noticed, Told
  <2>3. CASE Return(w)
    <3> DEFINE S == {[orphan |-> g.orphan, current |-> g.current, tries |-> 0] :
                       g \in local[w].found}
               n == [orphan |-> f.orphan, current |-> f.current, tries |-> 0]
    <3>1. fixes' = fixes (+) SetToBag(S) /\ IsABag(fixes)
      BY <2>3 DEF Return, KInv, SInv, QueuesTyped
    <3>2. n \in S /\ n.orphan = h
      BY <2>1
    <3> HIDE DEF S, n
    <3>3. n \in BagToSet(fixes')
      BY <3>1, <3>2, BagAdd
    <3> QED BY <1>0, <3>2, <3>3 DEF Noticed
  <2>4. CASE PageStops(w)
    <3>1. f.orphan[1] \in abandoned'
      BY <2>4 DEF PageStops
    <3> QED BY <1>0, <2>1, <3>1 DEF Exempt
  <2> QED BY <2>2, <2>3, <2>4, FoundStays
<1>3. ASSUME NEW w \in Workers, pc[w] \in FixSteps, Orphan(w) = h
      PROVE  Noticed(k)' \/ Exempt(k)' \/ synced'[h].movedTo # NoId
  <2>1. CASE pc'[w] \in FixSteps
    <3>1. ~Taken(w)
      BY <1>3 DEF Taken, FixSteps
    <3>2. Orphan(w)' = h
      BY <1>3, <2>1, <3>1, FixPhase DEF Stays, GoesOn, Orphan
    <3> QED BY <1>0, <2>1, <3>2 DEF Noticed
  <2>2. CASE pc'[w] \notin FixSteps
    <3>0. ~Stays(w) /\ Acts(w)
      BY <1>3, <2>2, OneActs DEF Stays
    <3>1. CASE MarkAsMoved(w)
      <4>1. synced \in [Ids -> [fields : Changes, movedTo : Ids \cup {NoId}]]
            /\ synced' = [synced EXCEPT ![h].movedTo = Current(w)]
        BY <1>3, <3>1 DEF MarkAsMoved, KInv, SInv, StoreTyped
      <4>2. Current(w) # NoId
        BY <1>3, OnFix, CaseAssumption DEF KInv, Current
      <4> QED BY <1>0, <4>1, <4>2
    <3>2. CASE FixFails(w)
      <4>1. GiveBack(w) /\ (~(local[w].fix.tries + 1 < MaxDequeue) => h[1] \in abandoned')
        BY <1>3, <3>2 DEF FixFails
      <4>2. CASE \E m \in BagToSet(fixes') : m.orphan = h
        BY <1>0, <4>2 DEF Noticed
      <4>3. CASE h[1] \in abandoned'
        BY <1>0, <4>3 DEF Exempt
      <4> QED BY <1>3, <4>1, <4>2, <4>3, GivenBack
    <3>3. CASE CheckOrphan(w)
      <4>1. h \notin Unmoved(h[1])
        BY <1>0, <1>3, <2>2, <3>3 DEF CheckOrphan, Goto, FixSteps, KInv, SInv, HandlersTyped
      <4>2. synced[h].movedTo # NoId
        BY <1>0, <4>1 DEF Unmoved, Placed
      <4> QED BY <1>0, <4>2, SyncedGrows
    <3>4. CASE Delete(w)
      <4>1. pc[w] = "delete" /\ ~ \E d \in docs : d.no = local[w].doc
        BY <1>0, <1>3, <2>2, <3>4 DEF Delete, Goto, FixSteps, KInv, SInv, HandlersTyped
      <4>2. h[1] \in overlapped
        BY <1>3, <4>1 DEF WInv, ListedIsThere
      <4> QED BY <1>0, <4>2, StoryGrows DEF Exempt
    <3>5. CASE UpdateReferences(w) \/ List(w) \/ Copy(w)
      <4>1. PICK s \in FixSteps : pc' = [pc EXCEPT ![w] = s]
        BY <3>5 DEF UpdateReferences, List, Copy, Goto, FixSteps
      <4> QED BY <2>2, <4>1 DEF KInv, SInv, HandlersTyped
    <3>6. ~TakeFix(w) /\ ~PageStep(w)
      <4>1. pc[w] \notin PageSteps /\ pc[w] # "idle"
        BY <1>3, StepsApart
      <4> QED BY <4>1 DEF TakeFix, PageStep, TakePage, NextEvent, GetDetail, Detect, GetExisting,
                SyncCase, Patch, Lookup, Search, Return, CallFails, PageStops, PageSteps
    <3> QED BY <3>0, <3>1, <3>2, <3>3, <3>4, <3>5, <3>6 DEF Acts, FixStep
  <2> QED BY <2>1, <2>2
<1> QED BY <1>1, <1>2, <1>3 DEF Noticed


LEMMA HomeStep ==
  ASSUME KInv, WInv, WInv', OInv, [Next]_vars
  PROVE  HomeNoticed'
<1>0. Placed /\ Placed' /\ ReadSome
  BY DEF WInv
<1> SUFFICES ASSUME NEW k \in Cases, ~Exempt(k)'
             PROVE  \/ dxtr'[k].left = {} \/ synced'[IdOf(k)'].fields = 0
                    \/ synced'[HomeId(k)].movedTo # NoId \/ Noticed(k)'
  BY DEF HomeNoticed, HomeId, Home
<1>1. MovedOnce(k)' /\ MovedOnce(k) /\ ~Exempt(k)
  BY <1>0, OnceBefore, ExemptStays DEF Exempt
<1>2. HomeId(k) \in Ids /\ IdOf(k) \in Ids /\ IdOf(k)[1] = k
  BY HomeTyped, IdOfTyped DEF KInv, SInv
<1>3. CASE dxtr[k].left = {}
  <2>1. CASE dxtr'[k].left = {}
    BY <2>1
  <2>2. CASE dxtr'[k].left # {}
    <3>1. IdOf(k)' # IdOf(k) /\ dxtr' # dxtr
      BY <1>0, <1>1, <1>3, <2>2, IdStays
    <3>2. UNCHANGED synced
      BY <3>1, WorldSteps DEF Change, store
    <3>3. dxtr'[k].division \in Divisions
      BY KnownStep DEF KInv, SInv, WorldTyped
    <3>4. IdOf(k)' \in Ids /\ IdOf(k)'[1] = k /\ IdOf(k)'[2] = dxtr'[k].division
      BY <3>3 DEF IdOf, Ids
    <3>5. ~Visited(IdOf(k)')
      BY <1>3, <3>1, <3>4 DEF Visited, IdOf
    <3>6. synced[IdOf(k)'].fields = 0
      BY <3>4, <3>5 DEF KInv, CInv, IdsVisited
    <3> QED BY <3>2, <3>6
  <2> QED BY <2>1, <2>2
<1>4. CASE dxtr[k].left # {} /\ synced[IdOf(k)].fields = 0
  <2>1. IdOf(k)' = IdOf(k) /\ IdOf(k) # HomeId(k)
    BY <1>0, <1>1, <1>4, IdStays, Places
  <2>2. CASE synced'[IdOf(k)].fields = 0
    BY <2>1, <2>2
  <2>3. CASE synced'[IdOf(k)].fields # 0
    <3>1. PICK w \in Workers : SyncCase(w) /\ local[w].id = IdOf(k)
      BY <1>0, <1>2, <1>4, <2>3, SyncedGrows
    <3>2. synced[HomeId(k)].movedTo # NoId \/ Told(w, k)
      BY <1>1, <1>2, <1>4, <2>1, <3>1 DEF OInv, FoundFirst, SyncCase
    <3>3. CASE synced[HomeId(k)].movedTo # NoId
      BY <1>0, <1>2, <3>3, SyncedGrows
    <3>4. CASE Told(w, k)
      <4>1. Noticed(k)
        BY <3>4 DEF Noticed
      <4> QED BY <4>1, NoticedStays
    <3> QED BY <3>2, <3>3, <3>4
  <2> QED BY <2>2, <2>3
<1>5. CASE synced[HomeId(k)].movedTo # NoId
  BY <1>0, <1>2, <1>5, SyncedGrows
<1>6. CASE Noticed(k)
  BY <1>6, NoticedStays
<1> QED BY <1>1, <1>3, <1>4, <1>5, <1>6 DEF OInv, HomeNoticed

LEMMA NoticedInit == Init => WInv /\ OInv
<1> SUFFICES ASSUME Init PROVE WInv /\ OInv
  OBVIOUS
<1>1. \A k \in Cases : dxtr[k].division = Home /\ dxtr[k].fields = 1 /\ dxtr[k].left = {}
  BY DEF Init, Home
<1>2. \A k \in Cases : IdOf(k) = HomeId(k)
  BY <1>1 DEF IdOf, HomeId
<1>3. \A k \in Cases : synced[HomeId(k)].fields # 0
  BY <1>2, HomeTyped DEF Init
<1>4. Placed
  BY <1>1, <1>3, FS_EmptySet DEF Placed
<1>5. BagToSet(fixes) = {}
  BY DEF Init, EmptyBag, SetToBag, BagToSet
<1>6. \A w \in Workers : pc[w] = "idle" /\ local[w].found = {}
  BY IdleTyped DEF Init
<1>7. ReadSome /\ PairsDirected /\ ListedIsOwn /\ ListedIsThere
  BY <1>5, <1>6 DEF ReadSome, PairsDirected, ListedIsOwn, ListedIsThere, FixSteps
<1>8. FoundFirst
  BY <1>6 DEF FoundFirst
<1>9. HomeNoticed
  BY <1>1 DEF HomeNoticed
<1> QED BY <1>4, <1>7, <1>8, <1>9 DEF WInv, OInv

LEMMA NoticedStep ==
  ASSUME KInv, WInv, OInv, [Next]_vars
  PROVE  WInv' /\ OInv'
<1>1. WInv'
  BY CleanUpStep
<1> QED BY <1>1, FirstStep, HomeStep DEF OInv

LEMMA KnownTogether ==
  /\ Init => KInv
  /\ KInv /\ [Next]_vars => KInv'
BY DocsInit, KnownInit, DocsStep, KnownStep DEF KInv

LEMMA NoticedIsCleaned == KInv /\ WInv /\ OInv => OrphanIsCleaned
<1> SUFFICES ASSUME KInv, WInv, OInv, Quiet, NEW k \in Cases,
                    k \notin overlapped \cup abandoned, MovedOnce(k)
             PROVE  Cardinality(Unmoved(k)) <= 1
  BY DEF OrphanIsCleaned
<1>1. ~Noticed(k)
  <2>1. BagToSet(fixes) = {}
    BY DEF Quiet, EmptyBag, SetToBag, BagToSet
  <2>2. \A w \in Workers : pc[w] = "idle" /\ local[w].found = {}
    BY AtNothing, IdleTyped DEF Quiet, KInv
  <2> QED BY <2>1, <2>2 DEF Noticed, Told, FixSteps
<1>2. \/ dxtr[k].left = {} \/ synced[IdOf(k)].fields = 0 \/ synced[HomeId(k)].movedTo # NoId
  BY <1>1 DEF OInv, HomeNoticed, Exempt
<1>3. Placed
  BY DEF WInv
<1>4. Unmoved(k) \subseteq {HomeId(k), IdOf(k)}
  <2>1. \A i \in Unmoved(k) : i \in Ids /\ i[1] = k /\ Visited(i)
    BY DEF Unmoved, KInv, CInv, IdsVisited
  <2> QED BY <1>3, <2>1, Places
<1>5. PICK i : Unmoved(k) \subseteq {i}
  <2>1. CASE dxtr[k].left = {}
    <3>1. IdOf(k) = HomeId(k)
      BY <1>3, <2>1, Places
    <3> QED BY <1>4, <3>1
  <2>2. CASE synced[IdOf(k)].fields = 0
    <3>1. IdOf(k) \notin Unmoved(k)
      BY <2>2 DEF Unmoved
    <3> QED BY <1>4, <3>1
  <2>3. CASE synced[HomeId(k)].movedTo # NoId
    <3>1. HomeId(k) \notin Unmoved(k)
      BY <2>3 DEF Unmoved
    <3> QED BY <1>4, <3>1
  <2> QED BY <1>2, <2>1, <2>2, <2>3
<1>6. Unmoved(k) = {} \/ Unmoved(k) = {i}
  BY <1>5
<1>7. Cardinality({}) = 0 /\ Cardinality({i}) = 1
  BY FS_EmptySet, FS_Singleton
<1>8. CASE Unmoved(k) = {}
  BY <1>7, <1>8
<1>9. CASE Unmoved(k) = {i}
  BY <1>7, <1>9
<1> QED BY <1>6, <1>8, <1>9

(* When all is quiet, a case that changed division is shown once, whatever *)
(* the order of its events was: somebody noticed the change, and what he   *)
(* noticed was cleaned up.  But for two handlers that had the case at      *)
(* once, what was given up about it, and a case that moved on.             *)
THEOREM OrphansAreCleaned == Spec => []OrphanIsCleaned
<1>1. KInv /\ WInv /\ OInv /\ [Next]_vars => (KInv /\ WInv /\ OInv)'
  BY KnownTogether, NoticedStep
<1> QED BY <1>1, KnownTogether, NoticedInit, NoticedIsCleaned, PTL DEF Spec


-----------------------------------------------------------------------------
(* A clean-up leaves nothing behind: nobody else brings anything to an id  *)
(* that is being cleaned up, or has been.                                  *)

LEMMA ExcusedStays ==
  ASSUME KInv, Placed, Placed', [Next]_vars, NEW i \in Ids, Excused(i)
  PROVE  Excused(i)'
<1>1. i[1] \in Cases
  BY IdShape
<1>2. CASE i \in late \/ i[1] \in astray
  BY <1>2, StoryGrows DEF Excused
<1>3. CASE ~MovedOnce(i[1])
  BY <1>1, <1>3, OnceBefore DEF Excused
<1> QED BY <1>2, <1>3 DEF Excused

LEMMA LeftById ==
  ASSUME KInv, PairsDirected, NEW v \in Workers, pc[v] \in FixSteps, ~Excused(Orphan(v))
  PROVE  /\ Orphan(v) = HomeId(Orphan(v)[1]) /\ Current(v) # Orphan(v)
         /\ Current(v)[1] = Orphan(v)[1]
BY DEF PairsDirected, Directed, Excused

LEMMA NothingComes ==
  ASSUME KInv, PairsDirected, [Next]_vars, NEW o \in Ids, ~Excused(o)', ~Excused(o),
         o = HomeId(o[1]),
         synced[o].movedTo # NoId \/ \E w \in Workers : pc[w] \in FixSteps /\ Orphan(w) = o
  PROVE  /\ \A d \in docs' : d.at = o => d \in docs
         /\ pointer'[o[1]] = o => pointer[o[1]] = o
<1>1. ASSUME NEW v \in Workers, pc[v] \in FixSteps PROVE Current(v) # o
  <2>1. SUFFICES ASSUME Current(v) = o PROVE FALSE
    OBVIOUS
  <2>2. Orphan(v)[1] = o[1]
    BY <1>1, <2>1 DEF PairsDirected, Directed
  <2>3. Orphan(v) = HomeId(o[1]) /\ Orphan(v) # Current(v)
    BY <1>1, <2>2 DEF PairsDirected, Directed, Excused
  <2> QED BY <2>1, <2>3
<1>2. ASSUME NEW d \in docs', d.at = o PROVE d \in docs
  <2>1. SUFFICES ASSUME d \notin docs PROVE FALSE
    OBVIOUS
  <2>2. ASSUME NEW v \in Workers, pc[v] = "copy", d.at = Current(v) PROVE FALSE
    BY <1>1, <1>2, <2>2 DEF FixSteps
  <2>3. CASE /\ synced[d.at].movedTo = NoId
             /\ \A w \in Workers : pc[w] \in FixSteps /\ Orphan(w) = d.at => d.at \in late'
    BY <1>2, <2>3 DEF Excused
  <2> QED BY <2>1, <2>2, <2>3, DocsCome
<1>3. ASSUME pointer'[o[1]] = o, pointer[o[1]] # o PROVE FALSE
  <2>1. PICK v \in Workers : UpdateReferences(v)
    BY <1>3, PointerSteps
  <2>2. pc[v] \in FixSteps /\ o[1] \in Cases
    BY <2>1, IdShape DEF UpdateReferences, FixSteps
  <2>3. pointer \in [Cases -> Ids]
    BY DEF KInv, SInv, StoreTyped
  <2>4. pointer' = [pointer EXCEPT ![Orphan(v)[1]] = IF @ = Orphan(v) THEN Current(v) ELSE @]
    BY <2>1 DEF UpdateReferences
  <2>5. pointer'[o[1]] = Current(v)
    BY <1>3, <2>2, <2>3, <2>4
  <2> QED BY <1>1, <1>3, <2>2, <2>5
<1> QED BY <1>2, <1>3

LEMMA EmptiesStep ==
  ASSUME KInv, WInv, WInv', EmptyInv, [Next]_vars, NEW w \in Workers, pc'[w] \in FixSteps
  PROVE  Empties(w)'
<1> SUFFICES ASSUME NEW o, o = Orphan(w)', ~Excused(o)'
             PROVE  LET l == local'[w] IN
                    /\ pc'[w] \notin {"check", "references"} => pointer'[o[1]] # o
                    /\ \A d \in docs' : d.at = o => PartOf[d.item] \notin Passed(l.part)
                    /\ pc'[w] \in {"copy", "delete"} => \A d \in docs' :
                         d.at = o /\ PartOf[d.item] = l.part =>
                           d \in l.moving \/ (pc'[w] = "delete" /\ d.no = l.doc)
                    /\ pc'[w] = "mark" => \A d \in docs' : d.at # o
                    /\ pc'[w] \in {"check", "references"} => l.part = "orders"
  BY DEF Empties, Excused, MovedOnce, At, Passed
<1>1. CASE Taken(w)
  <2>1. local'[w].part = "orders" /\ pc'[w] = "check"
    BY <1>1 DEF Taken, Idle
  <2> QED BY <2>1 DEF Passed
<1>2. CASE Stays(w) \/ GoesOn(w)
  <2>1. pc[w] \in FixSteps /\ o = Orphan(w) /\ o \in Ids
    BY <1>2, OnFix DEF Stays, GoesOn, Orphan, KInv
  <2>2. ~Excused(o)
    BY <2>1, ExcusedStays DEF WInv
  <2>3. o = HomeId(o[1]) /\ Current(w) # o /\ o[1] \in Cases
    BY <2>1, <2>2, LeftById, IdShape DEF WInv
  <2>4. /\ \A d \in docs' : d.at = o => d \in docs
        /\ pointer'[o[1]] = o => pointer[o[1]] = o
    BY <2>1, <2>2, <2>3, NothingComes DEF WInv
  <2> DEFINE l == local[w]
  <2>5. /\ pc[w] \notin {"check", "references"} => pointer[o[1]] # o
        /\ \A d \in docs : d.at = o => PartOf[d.item] \notin Passed(l.part)
        /\ pc[w] \in {"copy", "delete"} => \A d \in docs :
             d.at = o /\ PartOf[d.item] = l.part => d \in l.moving \/ (pc[w] = "delete" /\ d.no = l.doc)
        /\ pc[w] = "mark" => \A d \in docs : d.at # o
        /\ pc[w] \in {"check", "references"} => l.part = "orders"
    BY <2>1, <2>2 DEF EmptyInv, Empties, At
  <2>6. \A d \in docs : PartOf[d.item] \in Parts
    BY CaseAssumption DEF KInv, SInv, StoreTyped, Docs
  <2>7. CASE Stays(w)
    BY <2>4, <2>5, <2>7 DEF Stays
  <2>8. CASE Checked(w)
    BY <2>5, <2>8 DEF Checked
  <2>9. CASE Redirected(w)
    <3>1. pointer' = [pointer EXCEPT ![o[1]] = IF @ = o THEN Current(w) ELSE @]
          /\ pointer \in [Cases -> Ids]
      BY <2>1, <2>9 DEF Redirected, UpdateReferences, KInv, SInv, StoreTyped
    <3>2. pointer'[o[1]] # o
      BY <2>3, <3>1
    <3> QED BY <2>5, <2>9, <3>2 DEF Redirected
  <2>10. CASE Listed(w)
    BY <2>1, <2>5, <2>10 DEF Listed, At
  <2>11. CASE PartDone(w)
    <3>1. \A p \in Passed(NextPart[l.part]) : p \in Passed(l.part) \/ p = l.part
      <4>1. l.part \in {"orders", "assignments"}
        BY <2>11 DEF PartDone, KInv, SInv, HandlersTyped, Locals, Parts
      <4> QED BY <4>1 DEF Passed, NextPart, Parts
    <3>2. \A d \in docs : d.at = o => PartOf[d.item] # l.part
      BY <2>5, <2>11 DEF PartDone
    <3> QED BY <2>5, <2>11, <3>1, <3>2 DEF PartDone
  <2>12. CASE AllDone(w)
    <3>1. \A d \in docs : d.at # o
      BY <2>5, <2>6, <2>12 DEF AllDone, Passed
    <3> QED BY <2>5, <2>12, <3>1 DEF AllDone
  <2>13. CASE Copied(w)
    <3>1. PICK d \in l.moving : local'[w].doc = d.no /\ local'[w].moving = l.moving \ {d}
      BY <2>13 DEF Copied
    <3>2. pc[w] = "copy" /\ pc'[w] = "delete" /\ local'[w].part = l.part
      BY <2>13 DEF Copied
    <3> QED BY <2>4, <2>5, <3>1, <3>2
  <2>14. CASE Deleted(w)
    BY <2>4, <2>5, <2>14 DEF Deleted
  <2> QED BY <1>2, <2>7, <2>8, <2>9, <2>10, <2>11, <2>12, <2>13, <2>14 DEF GoesOn
<1> QED BY <1>1, <1>2, FixPhase

LEMMA EmptyStep ==
  ASSUME KInv, WInv, WInv', EmptyInv, [Next]_vars
  PROVE  EmptyInv'
<1>1. \A w \in Workers : pc'[w] \in FixSteps => Empties(w)'
  BY EmptiesStep
<1>2. ASSUME NEW i \in Ids, synced'[i].movedTo # NoId, ~Excused(i)'
      PROVE  i = HomeId(i[1]) /\ (\A d \in docs' : d.at # i) /\ pointer'[i[1]] # i
  <2>0. ~Excused(i)
    BY <1>2, ExcusedStays DEF WInv
  <2>1. CASE synced[i].movedTo # NoId
    <3>1. i = HomeId(i[1]) /\ At(i) = {} /\ pointer[i[1]] # i
      BY <2>0, <2>1 DEF EmptyInv
    <3>2. /\ \A d \in docs' : d.at = i => d \in docs
          /\ pointer'[i[1]] = i => pointer[i[1]] = i
      BY <1>2, <2>0, <2>1, <3>1, NothingComes DEF WInv
    <3> QED BY <3>1, <3>2 DEF At
  <2>2. CASE synced[i].movedTo = NoId
    <3>1. synced \in [Ids -> [fields : Changes, movedTo : Ids \cup {NoId}]]
      BY DEF KInv, SInv, StoreTyped
    <3>2. ASSUME NEW w \in Workers, SyncCase(w) PROVE FALSE
      BY <1>2, <2>2, <3>1, <3>2 DEF SyncCase
    <3>3. PICK w \in Workers : MarkAsMoved(w)
      BY <1>2, <2>2, <3>2, SyncedSteps
    <3>4. i = Orphan(w)
      BY <1>2, <2>2, <3>1, <3>3 DEF MarkAsMoved
    <3>5. pc[w] = "mark" /\ pc[w] \in FixSteps /\ UNCHANGED <<docs, pointer>>
      BY <3>3 DEF MarkAsMoved, FixSteps
    <3>6. i = HomeId(i[1])
      BY <2>0, <3>4, <3>5, LeftById DEF WInv
    <3>7. At(i) = {} /\ pointer[i[1]] # i
      BY <2>0, <3>4, <3>5 DEF EmptyInv, Empties
    <3> QED BY <3>5, <3>6, <3>7 DEF At
  <2> QED BY <2>1, <2>2
<1>3. \A i : HomeId(i)' = HomeId(i)
  BY DEF HomeId, Home
<1> QED BY <1>1, <1>2, <1>3 DEF EmptyInv, At

LEMMA EmptyInit == Init => EmptyInv
BY DEF Init, EmptyInv, FixSteps

(* An id marked as moved holds nothing any more, however many clean-ups    *)
(* worked on it and whichever of them failed: but for what users wrote     *)
(* while it moved, a case that changed division again, and a clean-up that *)
(* was sent the wrong way.                                                 *)
THEOREM NothingIsLeftBehind == Spec => []MovedLeavesNothing
<1>1. KInv /\ WInv /\ OInv /\ [Next]_vars => (KInv /\ WInv /\ OInv)'
  BY KnownTogether, NoticedStep
<1>2. KInv /\ WInv /\ WInv' /\ EmptyInv /\ [Next]_vars => EmptyInv'
  BY EmptyStep
<1>3. EmptyInv => MovedLeavesNothing
  BY DEF EmptyInv, MovedLeavesNothing, Excused
<1> QED BY <1>1, <1>2, <1>3, KnownTogether, NoticedInit, EmptyInit, PTL DEF Spec
=============================================================================
