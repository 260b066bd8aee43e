------------------------------ MODULE CaseSync ------------------------------
(***************************************************************************)
(* The daily sync of cases from DXTR and the clean-up after a case has     *)
(* changed division: dataflows import/sync-cases.ts with getCaseIds,       *)
(* exportAndLoad and storeRuntimeState, and migrations/                    *)
(* division-change-cleanup.ts with DivisionChangeCleanupUseCase.           *)
(*                                                                         *)
(* A case's id begins with its division, so a case that changes division   *)
(* is a new id to CAMS, and what CAMS keeps under the old id has to move.  *)
(* Page handlers bring the new id in and tell the clean-up of the old one; *)
(* both run on queues that deliver a message again when its handler fails. *)
(***************************************************************************)
EXTENDS Naturals, FiniteSets, Bags

CONSTANTS
  Cases,         \* cases of one court, by dxtrId
  Divisions,
  MayMove,       \* the cases that may change division
  NoId,          \* no case id
  Items,         \* documents of the cases: [item name -> ...] see CaseOf
  CaseOf,        \* [Items -> Cases]
  PartOf,        \* [Items -> Parts]: orders, assignments, cases collection
  Early,         \* the items that are there at first; users add the others
  Workers,       \* invocations of handlePage or handleFix
  PageSize,      \* PAGE_SIZE
  MaxDequeue,    \* maxDequeueCount of the queues
  MaxChanges,    \* bound: changes in DXTR
  MaxStarts,     \* bound: daily starts
  MaxFaults      \* bound: failed calls and stopped hosts

Ids   == Cases \X Divisions
Feeds == {"cases", "transactions"}     \* AO_CS and AO_TX
Parts == {"orders", "assignments", "cases"}

ASSUME CaseAssumption ==
  /\ NoId \notin Ids
  /\ MayMove \subseteq Cases
  /\ CaseOf \in [Items -> Cases]
  /\ PartOf \in [Items -> Parts]
  /\ Early \subseteq Items
  /\ {PageSize, MaxDequeue, MaxChanges} \subseteq Nat \ {0}
  /\ {MaxStarts, MaxFaults} \subseteq Nat

ASSUME EarlyAssumption == IsFiniteSet(Early) /\ Divisions # {}

VARIABLES
  dxtr,        \* [Cases -> division, fields, date in each feed, places it left]
  changes,     \* changes so far: the clock of DXTR
  dates,       \* CASES_SYNC_STATE: a date for each feed
  start,       \* handleStart: its step and locals
  starts,
  synced,      \* SYNCED_CASE documents: [Ids -> fields (0: none), movedTo]
  docs,        \* the documents of a case, each at an id
  nextDoc,
  pointer,     \* verification and office assignee: the id they name
  unpatched,   \* ids whose appointments hold older case fields
  pages,       \* queue of pages: [ids, tries]
  fixes,       \* queue of the clean-up: [orphan, current, tries]
  reported,    \* ids whose last event was reported to the DLQ
  pc, local,   \* the handlers
  faults,
  cutOff,      \* a start was stopped between its date and its pages
  overlapped,  \* cases that two handlers have worked on at once
  late,        \* ids written to while a clean-up was moving them
  astray,      \* cases of which a clean-up was sent to an id they had left
  abandoned    \* cases of which a call, a message or a finding was given up

world  == <<dxtr, changes>>
timer  == <<dates, start, starts, cutOff>>
store  == <<synced, docs, nextDoc, pointer, unpatched>>
queues == <<pages, fixes, reported>>
story  == <<overlapped, late, abandoned, astray>>
vars   == <<world, timer, store, queues, pc, local, faults, story>>

-----------------------------------------------------------------------------
Changes == 0..MaxChanges
IdOf(k)    == <<k, dxtr[k].division>>
Unmoved(k) == {i \in Ids : i[1] = k /\ synced[i].fields # 0 /\ synced[i].movedTo = NoId}
At(i)      == {d \in docs : d.at = i}

PageMessages == [ids : SUBSET Ids, tries : 0..MaxDequeue]
FixMessages  == [orphan : Ids, current : Ids, tries : 0..MaxDequeue]
Docs         == [no : Nat, item : Items, at : Ids]

PageSteps == {"next", "detail", "detect", "existing", "sync", "patch", "lookup",
              "search", "return"}
FixSteps  == {"check", "references", "list", "copy", "delete", "mark"}

Idle == [page |-> [ids |-> {}, tries |-> 0], todo |-> {}, id |-> NoId,
         read |-> 0, seen |-> 0, found |-> {}, failed |-> {},
         fix |-> [orphan |-> NoId, current |-> NoId, tries |-> 0],
         part |-> "orders", moving |-> {}, doc |-> 0]

Resting == [step |-> "idle", ids |-> {}, latest |-> [f \in Feeds |-> 0]]

Init ==
  /\ dxtr \in [Cases -> [division : {CHOOSE d \in Divisions : TRUE}, fields : {1},
                         date : {[f \in Feeds |-> 0]}, left : {{}}]]
  /\ changes = 1
  /\ dates = [f \in Feeds |-> 0]
  /\ start = Resting
  /\ starts = 0
  /\ synced = [i \in Ids |-> [fields |-> IF i = IdOf(i[1]) THEN 1 ELSE 0,
                              movedTo |-> NoId]]
  /\ \E number \in [Early -> 1..Cardinality(Early)] :
       /\ \A x, y \in Early : number[x] = number[y] => x = y
       /\ docs = {[no |-> number[x], item |-> x, at |-> IdOf(CaseOf[x])] : x \in Early}
  /\ nextDoc = Cardinality(Early) + 1
  /\ pointer = [k \in Cases |-> IdOf(k)]
  /\ unpatched = {}
  /\ pages = EmptyBag
  /\ fixes = EmptyBag
  /\ reported = {}
  /\ pc = [w \in Workers |-> "idle"]
  /\ local = [w \in Workers |-> Idle]
  /\ faults = 0
  /\ cutOff = FALSE
  /\ overlapped = {}
  /\ late = {}
  /\ abandoned = {}
  /\ astray = {}

-----------------------------------------------------------------------------
(* DXTR and the users of CAMS.                                             *)

(* A case changes, or a terminal transaction is entered for it, at a date  *)
(* of its own; AO_CS also holds its division.                              *)
Change(k) ==
  /\ changes < MaxChanges
  /\ changes' = changes + 1
  /\ \/ \E f \in Feeds :
          dxtr' = [dxtr EXCEPT ![k].fields = changes', ![k].date[f] = changes']
     \/ /\ k \in MayMove
        /\ \E d \in Divisions \ {dxtr[k].division} :
             dxtr' = [dxtr EXCEPT ![k].fields = changes', ![k].date["cases"] = changes',
                                  ![k].division = d, ![k].left = @ \cup {dxtr[k].division}]
  /\ UNCHANGED <<timer, store, queues, pc, local, faults, story>>

(* A user adds a document to a case that is shown: one that has not moved. *)
Add(x) ==
  /\ x \notin Early
  /\ \A d \in docs : d.item # x
  /\ \E i \in Unmoved(CaseOf[x]) :
       /\ docs' = docs \cup {[no |-> nextDoc, item |-> x, at |-> i]}
       /\ late' = late \cup
            (IF \E w \in Workers : pc[w] \in FixSteps /\ local[w].fix.orphan = i
             THEN {i} ELSE {})
  /\ nextDoc' = nextDoc + 1
  /\ UNCHANGED <<world, timer, synced, pointer, unpatched, queues, pc, local,
                 faults, overlapped, abandoned, astray>>

-----------------------------------------------------------------------------
(* handleStart.                                                            *)

Latest(f, else) ==
  LET after == {dxtr[k].date[f] : k \in Cases} \cup {else}
  IN  CHOOSE n \in after : \A m \in after : m <= n

(* One query of getUpdatedCaseIds: the ids of the cases with a later date. *)
Query(f) ==
  start' = [start EXCEPT
    !.step = IF f = "cases" THEN "transactions" ELSE "store",
    !.ids = @ \cup {IdOf(k) : k \in {j \in Cases : dxtr[j].date[f] > dates[f]}},
    !.latest[f] = Latest(f, dates[f])]

QueryCases ==
  /\ start.step = "idle"
  /\ starts < MaxStarts
  /\ starts' = starts + 1
  /\ Query("cases")
  /\ UNCHANGED <<world, dates, cutOff, store, queues, pc, local, faults, story>>

QueryTransactions ==
  /\ start.step = "transactions"
  /\ Query("transactions")
  /\ UNCHANGED <<world, dates, starts, cutOff, store, queues, pc, local, faults, story>>

(* Variant: the two dates are one. *)
StoreOneDate ==
  /\ start.step = "store"
  /\ IF start.ids = {}
     THEN start' = Resting /\ UNCHANGED dates
     ELSE /\ start' = [start EXCEPT !.step = "flush"]
          /\ dates' = [f \in Feeds |-> CHOOSE n \in {start.latest[g] : g \in Feeds} :
                                         \A g \in Feeds : start.latest[g] <= n]
  /\ UNCHANGED <<world, starts, cutOff, store, queues, pc, local, faults, story>>

(* Without events nothing is stored.  An error of the store is swallowed.  *)
Store ==
  /\ start.step = "store"
  /\ IF start.ids = {}
     THEN start' = Resting /\ UNCHANGED dates
     ELSE start' = [start EXCEPT !.step = "flush"] /\ dates' = start.latest
  /\ UNCHANGED <<world, starts, cutOff, store, queues, pc, local, faults, story>>

(* The output binding is sent when the handler returns: the events divided *)
(* into pages.                                                             *)
Paging(ids) ==
  {P \in SUBSET (SUBSET ids \ {{}}) :
     /\ UNION P = ids
     /\ \A p \in P : Cardinality(p) <= PageSize
     /\ \A p, q \in P : p = q \/ p \cap q = {}
     /\ Cardinality({p \in P : Cardinality(p) < PageSize}) <= 1}

Flush ==
  /\ start.step = "flush"
  /\ \E P \in Paging(start.ids) :
       pages' = pages (+) SetToBag({[ids |-> p, tries |-> 0] : p \in P})
  /\ start' = Resting
  /\ UNCHANGED <<world, dates, starts, cutOff, store, fixes, reported, pc, local,
                 faults, story>>

(* A failed read or query is swallowed by getCaseIds: there are no events. *)
(* A host that stops gets the start message again, and begins again.       *)
StartFails ==
  /\ start.step # "idle"
  /\ faults < MaxFaults
  /\ faults' = faults + 1
  /\ \/ /\ start.step = "transactions"
        /\ start' = Resting
        /\ UNCHANGED <<starts, cutOff>>
     \/ /\ start.step = "store" /\ start.ids # {}
        /\ start' = [start EXCEPT !.step = "flush"]
        /\ UNCHANGED <<starts, cutOff>>
     \/ /\ start' = Resting
        /\ starts' = starts - 1
        /\ cutOff' = (cutOff \/ start.step = "flush")
  /\ UNCHANGED <<world, dates, store, queues, pc, local, story>>

-----------------------------------------------------------------------------
(* handlePage.                                                             *)

Goto(w, step)    == pc' = [pc EXCEPT ![w] = step]
CasesOf(l)       == {i[1] : i \in l.page.ids \cup ({l.fix.orphan} \ {NoId})}
Overlapping(w, l) ==
  CasesOf(l) \cap UNION {CasesOf(local[v]) : v \in Workers \ {w}}

TakePage(w) ==
  /\ pc[w] = "idle"
  /\ \E m \in BagToSet(pages) :
       LET l == [Idle EXCEPT !.page = m, !.todo = m.ids] IN
       /\ pages' = pages (-) SetToBag({m})
       /\ local' = [local EXCEPT ![w] = l]
       /\ overlapped' = overlapped \cup Overlapping(w, l)
  /\ Goto(w, "next")
  /\ UNCHANGED <<world, timer, store, fixes, reported, faults,
                 late, abandoned, astray>>

NextEvent(w) ==
  /\ pc[w] = "next"
  /\ IF local[w].todo = {}
     THEN Goto(w, "return") /\ UNCHANGED local
     ELSE /\ \E i \in local[w].todo :
               local' = [local EXCEPT ![w].id = i, ![w].todo = @ \ {i}]
          /\ Goto(w, "detail")
  /\ UNCHANGED <<world, timer, store, queues, faults, story>>

(* getCaseDetail finds a case under the id it has now. *)
GetDetail(w) ==
  LET i == local[w].id IN
  /\ pc[w] = "detail"
  /\ IF i = IdOf(i[1])
     THEN Goto(w, "detect") /\ local' = [local EXCEPT ![w].read = dxtr[i[1]].fields]
     ELSE Goto(w, "lookup") /\ UNCHANGED local
  /\ UNCHANGED <<world, timer, store, queues, faults, story>>

(* Variant: a change of division is not looked for. *)
DetectNothing(w) ==
  /\ pc[w] = "detect"
  /\ Goto(w, "existing")
  /\ UNCHANGED <<world, timer, store, queues, local, faults, story>>

(* detectDivisionChange: any one document of the case that has not moved.  *)
Detect(w) ==
  LET i == local[w].id  others == Unmoved(i[1]) IN
  /\ pc[w] = "detect"
  /\ \/ others = {} /\ UNCHANGED local
     \/ \E o \in others :
          local' = [local EXCEPT ![w].found = @ \cup
            (IF o = i THEN {} ELSE {[orphan |-> o, current |-> i]})]
  /\ Goto(w, "existing")
  /\ UNCHANGED <<world, timer, store, queues, faults, story>>

GetExisting(w) ==
  LET i == local[w].id IN
  /\ pc[w] = "existing"
  /\ local' = [local EXCEPT ![w].seen =
                 IF i \in Unmoved(i[1]) THEN synced[i].fields ELSE 0]
  /\ Goto(w, "sync")
  /\ UNCHANGED <<world, timer, store, queues, faults, story>>

(* syncDxtrCase sets the fields of DXTR and leaves movedToCaseId as it is. *)
SyncCase(w) ==
  LET i == local[w].id IN
  /\ pc[w] = "sync"
  /\ synced' = [synced EXCEPT ![i].fields = local[w].read]
  /\ unpatched' = unpatched \cup
       (IF synced[i].fields \in {0, local[w].read} THEN {} ELSE {i})
  /\ Goto(w, "patch")
  /\ UNCHANGED <<world, timer, docs, nextDoc, pointer, queues, local, faults, story>>

(* updateCaseFields gives updateMany the bare fields, which the driver     *)
(* refuses: both tries fail, and the failure is swallowed.  A chapter that *)
(* is not a known one fails the event instead.                             *)
Patch(w) ==
  LET l == local[w] IN
  /\ pc[w] = "patch"
  /\ \/ UNCHANGED local
     \/ l.seen \notin {0, l.read} /\ local' = [local EXCEPT ![w].failed = @ \cup {l.id}]
  /\ Goto(w, "next")
  /\ UNCHANGED <<world, timer, store, queues, faults, story>>

(* The id is not in DXTR: is the case there under another one?             *)
Lookup(w) ==
  LET i == local[w].id IN
  /\ pc[w] = "lookup"
  /\ IF i \in Unmoved(i[1])
     THEN Goto(w, "search") /\ UNCHANGED local
     ELSE Goto(w, "next") /\ local' = [local EXCEPT ![w].failed = @ \cup {i}]
  /\ UNCHANGED <<world, timer, store, queues, faults, story>>

Search(w) ==
  LET i == local[w].id IN
  /\ pc[w] = "search"
  /\ local' = [local EXCEPT
       ![w].found = @ \cup
         (IF IdOf(i[1]) = i THEN {} ELSE {[orphan |-> i, current |-> IdOf(i[1])]}),
       ![w].failed = @ \cup (IF IdOf(i[1]) = i THEN {i} ELSE {})]
  /\ Goto(w, "next")
  /\ UNCHANGED <<world, timer, store, queues, faults, story>>

Rest(w) == Goto(w, "idle") /\ local' = [local EXCEPT ![w] = Idle]

Astray(found) == {f.current[1] : f \in {g \in found : g.current # IdOf(g.current[1])}}

(* Variant: only the division changes are sent. *)
ReturnFixes(w) ==
  LET l == local[w] IN
  /\ pc[w] = "return"
  /\ fixes' = fixes (+) SetToBag({[orphan |-> f.orphan, current |-> f.current,
                                   tries |-> 0] : f \in l.found})
  /\ astray' = astray \cup Astray(l.found)
  /\ Rest(w)
  /\ UNCHANGED <<world, timer, store, pages, reported, faults,
                 overlapped, late, abandoned>>

(* The bindings are sent on return: division changes and failed events.    *)
Return(w) ==
  LET l == local[w] IN
  /\ pc[w] = "return"
  /\ fixes' = fixes (+) SetToBag({[orphan |-> f.orphan, current |-> f.current,
                                   tries |-> 0] : f \in l.found})
  /\ reported' = (reported \ l.page.ids) \cup l.failed
  /\ astray' = astray \cup Astray(l.found)
  /\ Rest(w)
  /\ UNCHANGED <<world, timer, store, pages, faults,
                 overlapped, late, abandoned>>

(* A call of an event fails: detection and the read before the sync are    *)
(* given up, anything else fails the event.                                *)
CallFails(w) ==
  LET l == local[w] IN
  /\ pc[w] \in PageSteps \ {"next", "return", "patch"}
  /\ faults < MaxFaults
  /\ faults' = faults + 1
  /\ CASE pc[w] = "detect"   -> Goto(w, "existing") /\ UNCHANGED local
       [] pc[w] = "existing" -> Goto(w, "sync") /\ UNCHANGED local
       [] OTHER -> Goto(w, "next") /\ local' = [local EXCEPT ![w].failed = @ \cup {l.id}]
  /\ abandoned' = abandoned \cup {l.id[1]}
  /\ UNCHANGED <<world, timer, store, queues, overlapped, late, astray>>

(* The host stops: what the handler found is not sent.  The page is        *)
(* delivered again, when a detection may find the case under its new id    *)
(* and so nothing, or it is reported by handlePagePoison.                  *)
PageStops(w) ==
  LET m == local[w].page IN
  /\ pc[w] \in PageSteps
  /\ faults < MaxFaults
  /\ faults' = faults + 1
  /\ IF m.tries + 1 < MaxDequeue
     THEN /\ pages' = pages (+) SetToBag({[m EXCEPT !.tries = @ + 1]})
          /\ UNCHANGED reported
     ELSE /\ reported' = reported \cup m.ids
          /\ UNCHANGED pages
  /\ abandoned' = abandoned \cup {f.orphan[1] : f \in local[w].found} \cup
       (IF m.tries + 1 < MaxDequeue THEN {} ELSE {i[1] : i \in m.ids})
  /\ Rest(w)
  /\ UNCHANGED <<world, timer, store, fixes, overlapped, late, astray>>

-----------------------------------------------------------------------------
(* handleFix, cleanupOrphanedCase.                                         *)

Orphan(w)  == local[w].fix.orphan
Current(w) == local[w].fix.current

TakeFix(w) ==
  /\ pc[w] = "idle"
  /\ \E m \in BagToSet(fixes) :
       LET l == [Idle EXCEPT !.fix = m] IN
       /\ fixes' = fixes (-) SetToBag({m})
       /\ local' = [local EXCEPT ![w] = l]
       /\ overlapped' = overlapped \cup Overlapping(w, l)
  /\ Goto(w, "check")
  /\ UNCHANGED <<world, timer, store, pages, reported, faults,
                 late, abandoned, astray>>

(* An error: the output bindings are dropped and the message delivered     *)
(* again; handleFixPoison only logs it.                                    *)
GiveBack(w) ==
  LET m == local[w].fix IN
  /\ fixes' = IF m.tries + 1 < MaxDequeue
              THEN fixes (+) SetToBag({[m EXCEPT !.tries = @ + 1]})
              ELSE fixes
  /\ Rest(w)

(* getSyncedCase finds a case that has not moved, or throws. *)
CheckOrphan(w) ==
  /\ pc[w] = "check"
  /\ \/ /\ Orphan(w) \in Unmoved(Orphan(w)[1])
        /\ Goto(w, "references")
        /\ UNCHANGED <<fixes, local>>
     \/ /\ Orphan(w) \notin Unmoved(Orphan(w)[1])
        /\ GiveBack(w)
  /\ UNCHANGED <<world, timer, store, pages, reported, faults, story>>

(* updateReferences: the verification and the office assignees.            *)
UpdateReferences(w) ==
  LET k == Orphan(w)[1] IN
  /\ pc[w] = "references"
  /\ pointer' = [pointer EXCEPT ![k] = IF @ = Orphan(w) THEN Current(w) ELSE @]
  /\ Goto(w, "list")
  /\ UNCHANGED <<world, timer, synced, docs, nextDoc, unpatched, queues, local,
                 faults, story>>

(* moveDocuments, one collection after another. *)
List(w) ==
  /\ pc[w] = "list"
  /\ local' = [local EXCEPT ![w].moving =
       {d \in At(Orphan(w)) : PartOf[d.item] = local[w].part}]
  /\ Goto(w, "copy")
  /\ UNCHANGED <<world, timer, store, queues, faults, story>>

NextPart == [orders |-> "assignments", assignments |-> "cases"]

(* Variant: the old one is deleted first, and what was listed is created. *)
DeleteFirst(w) ==
  LET l == local[w] IN
  /\ pc[w] = "copy"
  /\ IF l.moving = {}
     THEN /\ IF l.part = "cases"
             THEN Goto(w, "mark") /\ UNCHANGED local
             ELSE Goto(w, "list") /\ local' = [local EXCEPT ![w].part = NextPart[l.part]]
          /\ UNCHANGED docs
     ELSE \E d \in l.moving :
            /\ docs' = docs \ {d}
            /\ local' = [local EXCEPT ![w].doc = d.no, ![w].moving = @ \ {d}]
            /\ Goto(w, "delete")
  /\ UNCHANGED <<world, timer, synced, nextDoc, pointer, unpatched, queues, faults, story>>

(* create gives the copy an id of its own; the item is what was listed. *)
Copy(w) ==
  LET l == local[w] IN
  /\ pc[w] = "copy"
  /\ IF l.moving = {}
     THEN /\ IF l.part = "cases"
             THEN Goto(w, "mark") /\ UNCHANGED local
             ELSE Goto(w, "list") /\ local' = [local EXCEPT ![w].part = NextPart[l.part]]
          /\ UNCHANGED <<docs, nextDoc>>
     ELSE \E d \in l.moving :
            /\ docs' = docs \cup {[d EXCEPT !.no = nextDoc, !.at = Current(w)]}
            /\ nextDoc' = nextDoc + 1
            /\ local' = [local EXCEPT ![w].doc = d.no, ![w].moving = @ \ {d}]
            /\ Goto(w, "delete")
  /\ UNCHANGED <<world, timer, synced, pointer, unpatched, queues, faults, story>>

(* Variant: the old one stays. *)
DeleteNothing(w) ==
  /\ pc[w] = "delete"
  /\ Goto(w, "copy")
  /\ UNCHANGED <<world, timer, store, queues, local, faults, story>>

(* To delete nothing is an error. *)
Delete(w) ==
  LET found == {d \in docs : d.no = local[w].doc} IN
  /\ pc[w] = "delete"
  /\ \/ /\ found # {}
        /\ docs' = docs \ found
        /\ Goto(w, "copy")
        /\ UNCHANGED <<fixes, local>>
     \/ /\ found = {}
        /\ GiveBack(w)
        /\ UNCHANGED docs
  /\ UNCHANGED <<world, timer, synced, nextDoc, pointer, unpatched, pages, reported,
                 faults, story>>

MarkAsMoved(w) ==
  /\ pc[w] = "mark"
  /\ synced' = [synced EXCEPT ![Orphan(w)].movedTo = Current(w)]
  /\ Rest(w)
  /\ UNCHANGED <<world, timer, docs, nextDoc, pointer, unpatched, queues, faults, story>>

(* A call throws, or the host stops, at any step. *)
FixFails(w) ==
  /\ pc[w] \in FixSteps
  /\ faults < MaxFaults
  /\ faults' = faults + 1
  /\ GiveBack(w)
  /\ abandoned' = abandoned \cup
       (IF local[w].fix.tries + 1 < MaxDequeue THEN {} ELSE {Orphan(w)[1]})
  /\ UNCHANGED <<world, timer, store, pages, reported, overlapped, late, astray>>

-----------------------------------------------------------------------------
Next ==
  \/ \E k \in Cases : Change(k)
  \/ \E x \in Items : Add(x)
  \/ QueryCases \/ QueryTransactions \/ Store \/ Flush \/ StartFails
  \/ \E w \in Workers :
       \/ TakePage(w) \/ NextEvent(w) \/ GetDetail(w) \/ Detect(w) \/ GetExisting(w)
       \/ SyncCase(w) \/ Patch(w) \/ Lookup(w) \/ Search(w) \/ Return(w)
       \/ CallFails(w) \/ PageStops(w)
       \/ TakeFix(w) \/ CheckOrphan(w) \/ UpdateReferences(w) \/ List(w) \/ Copy(w)
       \/ Delete(w) \/ MarkAsMoved(w) \/ FixFails(w)

Spec == Init /\ [][Next]_vars

-----------------------------------------------------------------------------
(* Properties.                                                             *)

(* Every variable keeps its type; a document number stands for one         *)
(* document, and a handler holds a page or a message of the clean-up.      *)
TypeOK ==
  /\ dxtr \in [Cases -> [division : Divisions, fields : Changes,
                         date : [Feeds -> Changes], left : SUBSET Divisions]]
  /\ changes \in Changes
  /\ dates \in [Feeds -> Changes]
  /\ start \in [step : {"idle", "transactions", "store", "flush"},
                ids : SUBSET Ids, latest : [Feeds -> Changes]]
  /\ starts \in 0..MaxStarts
  /\ synced \in [Ids -> [fields : Changes, movedTo : Ids \cup {NoId}]]
  /\ docs \subseteq Docs
  /\ \A d, e \in docs : d.no = e.no => d = e
  /\ \A d \in docs : d.no < nextDoc
  /\ pointer \in [Cases -> Ids]
  /\ unpatched \subseteq Ids
  /\ BagToSet(pages) \subseteq PageMessages
  /\ BagToSet(fixes) \subseteq FixMessages
  /\ reported \subseteq Ids
  /\ \A w \in Workers :
       \/ pc[w] = "idle" /\ local[w] = Idle
       \/ pc[w] \in PageSteps /\ local[w].page \in PageMessages
       \/ pc[w] \in FixSteps /\ local[w].fix \in FixMessages
  /\ faults \in 0..MaxFaults
  /\ cutOff \in BOOLEAN
  /\ overlapped \subseteq Cases
  /\ late \subseteq Ids
  /\ {abandoned, astray} \subseteq SUBSET Cases

Carried(i) ==
  \/ i \in start.ids
  \/ \E m \in BagToSet(pages) : i \in m.ids
  \/ \E w \in Workers : i \in local[w].page.ids

(* A change of a case that the sync dates have passed is in CAMS under the *)
(* case's id of now, is on its way in a page, or was reported: page        *)
(* handlers may stop, be run again and give up.  Except where a start was  *)
(* stopped between storing the dates and sending its pages, or two         *)
(* handlers had the case at once and the older read was written last.  The *)
(* document is one that is shown, unless the case came back to a division  *)
(* it had left: then it stays marked as moved.                             *)
NothingMissed ==
  \A k \in Cases :
    LET i == IdOf(k) IN
    \/ \E f \in Feeds : dxtr[k].date[f] > dates[f]
    \/ Carried(i) \/ i \in reported
    \/ cutOff \/ k \in overlapped
    \/ /\ synced[i].fields = dxtr[k].fields
       /\ synced[i].movedTo = NoId \/ dxtr[k].division \in dxtr[k].left

(* Through every interleaving and failure of clean-ups, there and back, a  *)
(* document of a case stays under one of its ids: the copy is made before  *)
(* the old one goes.                                                       *)
Kept(x) == \E d \in docs : d.item = x

NoDocumentLost == [][\A x \in Items : Kept(x) => Kept(x)']_vars

(* An id marked as moved holds nothing any more, even if several clean-ups *)
(* ran and some failed: a document left there would not be shown, and no   *)
(* later clean-up would find its case.  Except for what users wrote while  *)
(* it moved, and for a case that changed division again or whose clean-up  *)
(* was sent the wrong way, for then clean-ups may run against each other.  *)
MovedOnce(k) == Cardinality(dxtr[k].left) <= 1

MovedLeavesNothing ==
  \A i \in Ids :
    synced[i].movedTo # NoId /\ i \notin late /\ MovedOnce(i[1]) /\ i[1] \notin astray =>
      At(i) = {} /\ pointer[i[1]] # i

(* When all is quiet, a case that changed division is shown once, whatever *)
(* the order of its events was, late ones of its old id included: somebody *)
(* noticed the change.  Unless two handlers had it at once, a message or a *)
(* call about it was given up, or a host stopped before it could tell.     *)
Quiet ==
  /\ start.step = "idle"
  /\ \A w \in Workers : pc[w] = "idle"
  /\ pages = EmptyBag
  /\ fixes = EmptyBag

OrphanIsCleaned ==
  Quiet => \A k \in Cases :
    \/ k \in overlapped \cup abandoned
    \/ ~MovedOnce(k)
    \/ Cardinality(Unmoved(k)) <= 1

(* "Appointment field patch failed - sync succeeded, will retry on next    *)
(* sync": an event of a case whose appointments still hold older fields    *)
(* comes to patch them.                                                    *)
PatchIsRetried ==
  \A w \in Workers :
    pc[w] = "patch" /\ local[w].id \in unpatched => local[w].seen \notin {0, local[w].read}
=============================================================================
