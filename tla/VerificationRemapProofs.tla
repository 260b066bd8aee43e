----------------------- MODULE VerificationRemapProofs -----------------------
(***************************************************************************)
(* Theorems about VerificationRemap, for any cases, trustees, requests,    *)
(* syncs, remaps, page size, retry limits and failures.  A mark goes only  *)
(* after the case has a row of the trustee the remap's message names, and  *)
(* no message names a trustee that nobody chose.                           *)
(***************************************************************************)
EXTENDS VerificationRemap, TLAPS

(* The conjuncts of TypeOK, by the kind of state they are about.           *)
SyncType  == [case : Cases, hit : Trustees \cup {NoTrustee}, seen : Verifications, newId : Nat]
RemapType == [message : Messages, todo : SUBSET Marks, more : BOOLEAN, at : Marks,
              old : Trustees \cup {NoTrustee}, oldId : Nat]
RowTables == [Cases -> [Trustees -> Row]]

CallsTyped  == pc \in [Actors -> Labels]
UsersTyped  == user \in [Users -> [id : Nat, trustee : Trustees \cup {NoTrustee}]]
SyncsTyped  == sync \in [Syncs -> SyncType]
RemapsTyped == remap \in [Remaps -> RemapType]
MarksTyped  == caseMark \in [Cases -> Nat] /\ listMark \in [Cases -> Nat]
RowsTyped   == caseRow \in RowTables /\ listRow \in RowTables
IdTyped     == nextId \in Nat \ {0}
ReviewTyped == verification \in Verifications /\ variation \in Trustees \cup {NoTrustee}
QueueTyped  ==
  /\ queue \in [Messages -> Nat] /\ dead \subseteq Messages
  /\ \A m \in Messages : queue[m] > 0 => m.retries <= RetryLimit /\ m.dequeues < MaxDequeueCount
OutputTyped == binding \in [Actors -> SUBSET (Trustees \cup Cases)] /\ announced \subseteq Cases
PastTyped   ==
  /\ marked \subseteq Cases /\ due \in [Cases -> Nat] /\ failed \subseteq Cases
  /\ deliveries \in [Cases -> 0..MaxDeliveries]
  /\ reported \in [Cases -> FaultKinds \cup {"none", "started", "handled", "success"}]
  /\ faults \in 0..MaxFaults

(* What a decision has on its binding is the trustee it chose.             *)
Settled(u) ==
  /\ pc[u] = "idle" => user[u].trustee = NoTrustee
  /\ pc[u] \in {"readVariation", "createVariation", "enqueue", "approve"} =>
       user[u].trustee \in Trustees
  /\ binding[u] \subseteq Trustees \cap {user[u].trustee}
  /\ pc[u] = "approve" => binding[u] = {user[u].trustee}

UsersKnown == \A u \in Users : Settled(u)

Typed ==
  /\ CallsTyped /\ UsersTyped /\ SyncsTyped /\ RemapsTyped /\ MarksTyped /\ RowsTyped
  /\ IdTyped /\ ReviewTyped /\ QueueTyped /\ OutputTyped /\ PastTyped

(* A page works with a message within its limits that names a trustee      *)
(* somebody chose; it closes an appointment it read; and when it is about  *)
(* to delete a mark, it has made, or found, the row in its place.          *)
Ready(r) ==
  /\ pc[r] # "idle" => /\ remap[r].message.retries <= RetryLimit
                       /\ remap[r].message.dequeues < MaxDequeueCount
                       /\ Resolved(r) \in Chosen
  /\ pc[r] \in {"closeCase", "closeList"} => remap[r].old \in Trustees
  /\ pc[r] \in {"createList", "deleteCase"} => caseRow[At(r)][Resolved(r)].id # 0
  /\ binding[r] \subseteq Cases

RemapsReady  == \A r \in Remaps : Ready(r)
QueuedChosen == \A m \in Messages : queue[m] > 0 => m.trustee \in Chosen
OpenIsReal   == \A c \in Cases, t \in Trustees : caseRow[c][t].open => caseRow[c][t].id # 0

RInv == Typed /\ UsersKnown /\ RemapsReady /\ QueuedChosen /\ OpenIsReal /\ NeverForgotten

-----------------------------------------------------------------------------
(* Updates of records and tables.                                          *)

LEMMA Constants ==
  /\ NoMessage \in Messages /\ NoMessage.dequeues = 0
  /\ NoMark \in Marks /\ NoMark.case \in Cases
  /\ NoSync \in SyncType /\ NoRemap \in RemapType
<1>1. NoMessage \in Messages /\ NoMessage.dequeues = 0
  BY TrusteeAssumption, BoundAssumption DEF NoMessage, NewMessage, Messages
<1>2. NoMark \in Marks /\ NoMark.case \in Cases
  BY CaseAssumption DEF NoMark, Marks
<1>3. NoSync \in SyncType
  BY <1>2 DEF NoSync, NoVerification, Verifications, Statuses, SyncType
<1>4. NoRemap \in RemapType
  BY <1>1, <1>2 DEF NoRemap, RemapType
<1> QED BY <1>1, <1>2, <1>3, <1>4

LEMMA RemapSet ==
  ASSUME RemapsTyped, NEW r \in Remaps, NEW x \in RemapType, remap' = [remap EXCEPT ![r] = x]
  PROVE  RemapsTyped' /\ remap'[r] = x /\ \A q \in Remaps \ {r} : remap'[q] = remap[q]
BY DEF RemapsTyped

Closed(f, c, t)   == [f EXCEPT ![c][t].open = FALSE]
Made(f, c, t, id) == [f EXCEPT ![c][t] = [id |-> id, open |-> TRUE]]

LEMMA RowClosed ==
  ASSUME NEW f \in RowTables, NEW c \in Cases, NEW t \in Trustees
  PROVE  /\ Closed(f, c, t) \in RowTables
         /\ \A d \in Cases, k \in Trustees : /\ Closed(f, c, t)[d][k].id = f[d][k].id
                                             /\ Closed(f, c, t)[d][k].open => f[d][k].open
<1>0. PICK g : g = Closed(f, c, t)
  OBVIOUS
<1>1. f[c] \in [Trustees -> Row] /\ f[c][t] \in Row
  BY DEF RowTables
<1>2. PICK row : row = [f[c][t] EXCEPT !.open = FALSE]
  OBVIOUS
<1>3. row \in Row /\ row.id = f[c][t].id /\ row.open = FALSE
  BY <1>1, <1>2 DEF Row
<1>4. g = [f EXCEPT ![c] = [f[c] EXCEPT ![t] = row]]
  BY <1>0, <1>1, <1>2 DEF RowTables, Closed
<1>5. PICK table : table = [f[c] EXCEPT ![t] = row]
  OBVIOUS
<1>6. table \in [Trustees -> Row] /\ \A k \in Trustees : table[k] = IF k = t THEN row ELSE f[c][k]
  BY <1>1, <1>3, <1>5
<1>7. g \in RowTables /\ \A d \in Cases, k \in Trustees : g[d][k] = IF d = c /\ k = t THEN row ELSE f[d][k]
  BY <1>1, <1>4, <1>5, <1>6 DEF RowTables
<1> QED BY <1>0, <1>3, <1>7

LEMMA RowMade ==
  ASSUME NEW f \in RowTables, NEW c \in Cases, NEW t \in Trustees, NEW id \in Nat
  PROVE  /\ Made(f, c, t, id) \in RowTables
         /\ \A d \in Cases, k \in Trustees :
              Made(f, c, t, id)[d][k] = IF d = c /\ k = t THEN [id |-> id, open |-> TRUE] ELSE f[d][k]
<1>1. PICK row : row = [id |-> id, open |-> TRUE]
  OBVIOUS
<1>2. row \in Row
  BY <1>1 DEF Row
<1>3. Made(f, c, t, id) = [f EXCEPT ![c][t] = row]
  BY <1>1 DEF Made
<1> QED BY <1>1, <1>2, <1>3 DEF RowTables

LEMMA SendTyped ==
  ASSUME QueueTyped, NEW m \in Messages, m.retries <= RetryLimit,
         m.dequeues < MaxDequeueCount, Send(m)
  PROVE  /\ queue' \in [Messages -> Nat]
         /\ \A k \in Messages : queue'[k] > 0 => k.retries <= RetryLimit
                                                 /\ k.dequeues < MaxDequeueCount
         /\ \A k \in Messages : queue'[k] > 0 => queue[k] > 0 \/ k = m
BY DEF QueueTyped, Send

LEMMA AdvanceTyped ==
  ASSUME RemapsTyped, CallsTyped, NEW r \in Remaps, NEW mark, Advance(r, mark)
  PROVE  /\ RemapsTyped' /\ CallsTyped'
         /\ \A q \in Remaps \ {r} : remap'[q] = remap[q]
         /\ \A q \in Actors \ {r} : pc'[q] = pc[q]
         /\ remap'[r].message = remap[r].message /\ remap'[r].old = remap[r].old
         /\ pc'[r] \in {"active", "continue"}
<1>1. PICK P : P = remap[r].todo \ {mark}
  OBVIOUS
<1>2. remap[r] \in RemapType /\ P \in SUBSET Marks
  BY <1>1 DEF RemapsTyped, RemapType
<1>3. PICK x : x = [remap[r] EXCEPT !.todo = P]
  OBVIOUS
<1>4. x \in RemapType /\ x.message = remap[r].message /\ x.old = remap[r].old
  BY <1>2, <1>3 DEF RemapType
<1>5. remap' = [remap EXCEPT ![r] = x]
  BY <1>1, <1>3 DEF Advance
<1>6. RemapsTyped' /\ remap'[r] = x /\ \A q \in Remaps \ {r} : remap'[q] = remap[q]
  BY <1>4, <1>5, RemapSet
<1>7. r \in Actors
  BY DEF Actors
<1>8. CallsTyped' /\ pc'[r] \in {"active", "continue"} /\ \A q \in Actors \ {r} : pc'[q] = pc[q]
  BY <1>7 DEF Advance, CallsTyped, Goto, Labels
<1> QED BY <1>4, <1>6, <1>8

-----------------------------------------------------------------------------
(* Steps of one invocation leave the others where they are.                *)
RowsKept == \A c \in Cases, t \in Trustees : caseRow[c][t].id # 0 => caseRow'[c][t].id # 0

LEMMA Moves ==
  ASSUME CallsTyped, NEW p \in Actors, NEW label \in Labels, Goto(p, label)
  PROVE  CallsTyped' /\ pc'[p] = label /\ \A q \in Actors \ {p} : pc'[q] = pc[q]
BY DEF CallsTyped, Goto

(* A mark goes only where the row is: RInv carries over a step of a remap  *)
(* that leaves the other invocations alone and forgets no row.             *)
RemapMove(r) ==
  /\ CallsTyped' /\ RemapsTyped' /\ OutputTyped'
  /\ \A p \in Actors \ {r} : pc'[p] = pc[p] /\ binding'[p] = binding[p]
  /\ \A q \in Remaps \ {r} : remap'[q] = remap[q]
  /\ UNCHANGED <<user, sync, verification, variation, deliveries, reported, marked>>

TablesTyped == MarksTyped /\ RowsTyped /\ IdTyped /\ QueueTyped /\ PastTyped

MarksKept == \A c \in Cases : caseMark'[c] = 0 =>
               caseMark[c] = 0 \/ \E t \in Chosen : caseRow[c][t].id # 0

LEMMA ChosenTyped == ASSUME UsersTyped PROVE Chosen \subseteq Trustees
BY DEF UsersTyped, Chosen

LEMMA OthersReady ==
  ASSUME RemapsReady, RemapsTyped, RowsKept, Chosen \subseteq Chosen', NEW r,
         UsersTyped,
         \A q \in Remaps \ {r} : /\ remap'[q] = remap[q] /\ pc'[q] = pc[q]
                                 /\ binding'[q] = binding[q],
         r \in Remaps => Ready(r)'
  PROVE  RemapsReady'
<1>1. ASSUME NEW q \in Remaps, q # r PROVE Ready(q)'
  <2>1. Ready(q) /\ remap'[q] = remap[q] /\ pc'[q] = pc[q] /\ binding'[q] = binding[q]
    BY <1>1 DEF RemapsReady
  <2>2. At(q) \in Cases /\ Resolved(q) \in Trustees /\ At(q)' = At(q) /\ Resolved(q)' = Resolved(q)
    BY <2>1 DEF RemapsTyped, RemapType, Messages, Marks, At, Resolved
  <2> QED BY <2>1, <2>2 DEF Ready, RowsKept
<1> QED BY <1>1 DEF RemapsReady

LEMMA RemapKeeps ==
  ASSUME RInv, NEW r \in Remaps, RemapMove(r), Ready(r)', TablesTyped', QueuedChosen',
         OpenIsReal', RowsKept, MarksKept
  PROVE  RInv'
<1>1. Typed'
  BY DEF RInv, Typed, RemapMove, TablesTyped, UsersTyped, SyncsTyped, ReviewTyped
<1>2. Chosen' = Chosen /\ UsersTyped /\ RemapsTyped /\ RemapsReady
  BY DEF RInv, Typed, RemapMove, Chosen
<1>3. RemapsReady'
  <2>1. \A q \in Remaps \ {r} : /\ remap'[q] = remap[q] /\ pc'[q] = pc[q]
                                 /\ binding'[q] = binding[q]
    BY DEF RemapMove, Actors
  <2> QED BY <1>2, <2>1, OthersReady
<1>4. UsersKnown'
  <2>1. \A u \in Users : pc'[u] = pc[u] /\ binding'[u] = binding[u]
    BY ActorAssumption DEF RemapMove, Actors
  <2> QED BY <2>1 DEF RInv, UsersKnown, Settled, RemapMove
<1>5. NeverForgotten'
  <2> SUFFICES ASSUME NEW c \in marked, caseMark'[c] = 0
               PROVE  \E t \in Chosen : caseRow'[c][t].id # 0
    BY <1>2 DEF NeverForgotten, RemapMove
  <2>1. c \in Cases
    BY DEF RInv, Typed, PastTyped
  <2>2. PICK t \in Chosen : caseRow[c][t].id # 0
    BY <2>1 DEF RInv, NeverForgotten, MarksKept
  <2> QED BY <2>1, <2>2, <1>2, ChosenTyped DEF RowsKept
<1> QED BY <1>1, <1>3, <1>4, <1>5 DEF RInv

-----------------------------------------------------------------------------
(* The steps of a page.                                                    *)

LEMMA StoreKept ==
  ASSUME RInv, UNCHANGED <<marks, rows, nextId>>
  PROVE  MarksTyped' /\ RowsTyped' /\ IdTyped' /\ OpenIsReal' /\ RowsKept /\ MarksKept
BY DEF RInv, Typed, MarksTyped, RowsTyped, IdTyped, OpenIsReal, RowsKept, MarksKept, marks, rows

(* What a page knows of itself before its step.                            *)
LEMMA AtWork ==
  ASSUME RInv, NEW r \in Remaps
  PROVE  /\ r \in Actors /\ r \notin Users
         /\ remap[r] \in RemapType /\ remap[r].message \in Messages /\ remap[r].todo \subseteq Marks
         /\ remap[r].at \in Marks /\ remap[r].at.id \in Nat
         /\ At(r) \in Cases /\ Resolved(r) \in Trustees /\ At(r) = remap[r].at.case
         /\ Resolved(r) = remap[r].message.trustee
         /\ pc[r] \in Labels /\ Ready(r) /\ binding[r] \subseteq Cases
         /\ CallsTyped /\ RemapsTyped /\ OutputTyped /\ QueueTyped /\ PastTyped /\ RowsTyped
         /\ MarksTyped /\ IdTyped
<1>1. remap[r] \in RemapType
  BY DEF RInv, Typed, RemapsTyped
<1>2. r \in Actors /\ r \notin Users
  BY ActorAssumption DEF Actors
<1> QED
  BY <1>1, <1>2 DEF RInv, Typed, CallsTyped, RemapsReady, Ready, RemapType, Messages, Marks, At, Resolved

(* Steps that change nothing but the page's own locals.                    *)
LEMMA QuietKeeps ==
  ASSUME RInv, NEW r \in Remaps, RemapMove(r), Ready(r)',
         UNCHANGED <<marks, rows, nextId, queue, dead, due, failed, faults>>
  PROVE  RInv'
<1>1. QueueTyped' /\ QueuedChosen' /\ PastTyped'
  BY AtWork DEF QueueTyped, QueuedChosen, PastTyped, RInv, RemapMove, Chosen
<1> QED BY <1>1, StoreKept, RemapKeeps DEF TablesTyped

(* Steps that write one appointment.                                       *)
LEMMA WriteKeeps ==
  ASSUME RInv, NEW r \in Remaps, RemapMove(r), Ready(r)', RowsTyped', IdTyped', OpenIsReal',
         RowsKept, UNCHANGED <<marks, queue, dead, due, failed, faults>>
  PROVE  RInv'
<1>1. QueueTyped' /\ QueuedChosen' /\ PastTyped' /\ MarksTyped' /\ MarksKept
  BY AtWork DEF QueueTyped, QueuedChosen, PastTyped, MarksTyped, MarksKept, RInv, RemapMove, Chosen, marks
<1> QED BY <1>1, RemapKeeps DEF TablesTyped

LEMMA PassedOver ==
  ASSUME RInv, NEW r \in Remaps, NEW mark \in Marks, PassOver(r, mark), pc[r] # "idle",
         faults' \in 0..MaxFaults,
         UNCHANGED <<marks, rows, nextId, review, queues, outputs, user, sync, events>>
  PROVE  RInv'
<1>1. Advance(r, mark) /\ failed' = failed \cup {mark.case} /\ UNCHANGED <<marked, sent, due>>
  BY DEF PassOver
<1>2. /\ RemapsTyped' /\ CallsTyped'
      /\ \A q \in Remaps \ {r} : remap'[q] = remap[q]
      /\ \A q \in Actors \ {r} : pc'[q] = pc[q]
      /\ remap'[r].message = remap[r].message
      /\ pc'[r] \in {"active", "continue"}
  BY <1>1, AtWork, AdvanceTyped
<1>3. RemapMove(r)
  BY <1>1, <1>2, AtWork DEF RemapMove, OutputTyped, outputs, review, events
<1>4. Ready(r)'
  BY <1>2, AtWork DEF Ready, Resolved, Chosen, outputs
<1>5. QueueTyped' /\ QueuedChosen'
  BY AtWork DEF QueueTyped, QueuedChosen, RInv, Chosen, queues
<1>6. PastTyped'
  BY <1>1, AtWork DEF PastTyped, Marks, events
<1> QED BY <1>3, <1>4, <1>5, <1>6, StoreKept, RemapKeeps DEF TablesTyped

LEMMA ReceiveKeeps ==
  ASSUME RInv, NEW r \in Remaps, Receive(r) PROVE RInv'
<1>1. PICK m \in Messages : /\ queue[m] > 0 /\ queue' = [queue EXCEPT ![m] = @ - 1]
                            /\ remap' = [remap EXCEPT ![r].message = m]
  BY DEF Receive
<1>2. RemapMove(r) /\ pc'[r] = "list" /\ remap'[r].message = m /\ binding' = binding
  <2>1. CallsTyped' /\ pc'[r] = "list" /\ \A q \in Actors \ {r} : pc'[q] = pc[q]
    BY AtWork, Moves DEF Receive, Labels
  <2>2. RemapsTyped' /\ remap'[r].message = m /\ \A q \in Remaps \ {r} : remap'[q] = remap[q]
    <3>1. PICK x : x = [remap[r] EXCEPT !.message = m]
      OBVIOUS
    <3>2. x \in RemapType /\ x.message = m
      BY <3>1, AtWork DEF RemapType
    <3>3. remap' = [remap EXCEPT ![r] = x]
      BY <1>1, <3>1
    <3> QED BY <3>2, <3>3, AtWork, RemapSet
  <2> QED BY <2>1, <2>2, AtWork DEF RemapMove, Receive, OutputTyped, outputs, review, events, history
<1>3. m.retries <= RetryLimit /\ m.dequeues < MaxDequeueCount /\ m.trustee \in Chosen
  BY <1>1, AtWork DEF QueueTyped, RInv, QueuedChosen
<1>4. Ready(r)'
  <2>1. Chosen' = Chosen
    BY DEF Chosen, Receive
  <2> QED BY <1>2, <1>3, <2>1, AtWork DEF Ready, Resolved
<1>5. QueueTyped' /\ QueuedChosen'
  <2>1. queue' \in [Messages -> Nat] /\ \A k \in Messages : queue'[k] > 0 => queue[k] > 0
    BY <1>1, AtWork DEF QueueTyped
  <2> QED BY <2>1, AtWork DEF QueueTyped, QueuedChosen, RInv, Receive, Chosen
<1>6. PastTyped'
  BY AtWork DEF PastTyped, Receive, events, history
<1>7. UNCHANGED <<marks, rows, nextId>>
  BY DEF Receive
<1> QED BY <1>2, <1>4, <1>5, <1>6, <1>7, StoreKept, RemapKeeps DEF TablesTyped

LEMMA ListMarksKeeps ==
  ASSUME RInv, NEW r \in Remaps, ListMarks(r) PROVE RInv'
<1>1. PICK P \in Pages : remap' = [remap EXCEPT ![r].todo = P, ![r].more = (P # Listed)]
  BY DEF ListMarks
<1>2. P \subseteq Marks
  BY <1>1, AtWork DEF Pages, Listed, Marks, MarksTyped
<1>3. PICK x : x = [remap[r] EXCEPT !.todo = P, !.more = (P # Listed)]
  OBVIOUS
<1>4. x \in RemapType /\ x.message = remap[r].message
  BY <1>2, <1>3, AtWork DEF RemapType
<1>5. remap' = [remap EXCEPT ![r] = x]
  BY <1>1, <1>3
<1>6. RemapsTyped' /\ remap'[r] = x /\ \A q \in Remaps \ {r} : remap'[q] = remap[q]
  BY <1>4, <1>5, AtWork, RemapSet
<1>7. CallsTyped' /\ pc'[r] \in {"complete", "active"} /\ \A q \in Actors \ {r} : pc'[q] = pc[q]
  BY AtWork DEF ListMarks, Goto, CallsTyped, Labels
<1>8. RemapMove(r)
  BY <1>6, <1>7, AtWork DEF RemapMove, ListMarks, OutputTyped, outputs, review, events, history
<1>9. Ready(r)'
  <2>1. /\ Resolved(r)' = Resolved(r) /\ Chosen' = Chosen /\ binding' = binding /\ pc[r] = "list"
        /\ remap'[r].message = remap[r].message
    BY <1>4, <1>6 DEF Resolved, Chosen, ListMarks, outputs
  <2> QED BY <1>7, <2>1, AtWork DEF Ready
<1> QED BY <1>8, <1>9, QuietKeeps DEF ListMarks, queues, history

LEMMA LatestReal ==
  ASSUME RInv, NEW c \in Cases, NEW t \in Latest(c)
  PROVE  t \in Trustees /\ caseRow[c][t].id # 0 /\ caseRow[c][t].id \in Nat
<1>1. t \in Trustees /\ caseRow[c][t].open
  BY DEF Latest, Open
<1>2. caseRow[c][t] \in Row
  BY <1>1 DEF RInv, Typed, RowsTyped, RowTables
<1> QED BY <1>1, <1>2 DEF RInv, OpenIsReal, Row

(* The page's locals become x, with mark as the surrogate it works on.     *)
Looked(r, mark, x) ==
  /\ x \in RemapType
  /\ remap' = [remap EXCEPT ![r] = x]
  /\ x.message = remap[r].message /\ x.todo = remap[r].todo /\ x.more = remap[r].more
  /\ x.at = mark
  /\ pc' = [pc EXCEPT ![r] = pc'[r]]
  /\ \/ pc'[r] = "createCase"
     \/ x.old \in Latest(mark.case) /\ pc'[r] = "closeCase"
     \/ Resolved(r) \in Latest(mark.case) /\ pc'[r] = "deleteCase"

LEMMA ReadActiveLooks ==
  ASSUME RInv, NEW r \in Remaps, ReadActive(r)
  PROVE  \E mark \in remap[r].todo, x \in RemapType : Looked(r, mark, x)
<1>1. PICK mark \in remap[r].todo :
        \/ /\ remap' = [remap EXCEPT ![r].at = mark, ![r].old = NoTrustee]
           /\ Goto(r, "createCase")
        \/ \E t \in Latest(mark.case) :
              /\ remap' = [remap EXCEPT ![r].at = mark, ![r].old = t,
                                        ![r].oldId = caseRow[mark.case][t].id]
              /\ Goto(r, IF t = Resolved(r) THEN "deleteCase" ELSE "closeCase")
  BY DEF ReadActive
<1>2. mark \in Marks /\ mark.case \in Cases
  BY AtWork DEF Marks
<1>3. \E x : Looked(r, mark, x)
  <2>1. CASE /\ remap' = [remap EXCEPT ![r].at = mark, ![r].old = NoTrustee]
             /\ Goto(r, "createCase")
    <3>1. PICK x : x = [remap[r] EXCEPT !.at = mark, !.old = NoTrustee]
      OBVIOUS
    <3>2. /\ x \in RemapType /\ x.message = remap[r].message /\ x.at = mark
          /\ x.todo = remap[r].todo /\ x.more = remap[r].more
      BY <1>2, <3>1, AtWork DEF RemapType
    <3>3. remap' = [remap EXCEPT ![r] = x]
      BY <2>1, <3>1
    <3>4. pc'[r] = "createCase" /\ pc' = [pc EXCEPT ![r] = pc'[r]]
      BY <2>1, AtWork DEF Goto, CallsTyped
    <3> QED BY <3>2, <3>3, <3>4 DEF Looked
  <2>2. ASSUME NEW t \in Latest(mark.case),
               remap' = [remap EXCEPT ![r].at = mark, ![r].old = t,
                                      ![r].oldId = caseRow[mark.case][t].id],
               Goto(r, IF t = Resolved(r) THEN "deleteCase" ELSE "closeCase")
        PROVE  \E x : Looked(r, mark, x)
    <3>1. PICK x : x = [remap[r] EXCEPT !.at = mark, !.old = t,
                                        !.oldId = caseRow[mark.case][t].id]
      OBVIOUS
    <3>2. t \in Trustees /\ caseRow[mark.case][t].id \in Nat
      BY <1>2, LatestReal
    <3>3. /\ x \in RemapType /\ x.message = remap[r].message /\ x.at = mark /\ x.old = t
          /\ x.todo = remap[r].todo /\ x.more = remap[r].more
      BY <1>2, <3>1, <3>2, AtWork DEF RemapType
    <3>4. remap' = [remap EXCEPT ![r] = x]
      BY <2>2, <3>1
    <3>5. pc' = [pc EXCEPT ![r] = pc'[r]]
      BY <2>2, AtWork DEF Goto, CallsTyped
    <3>6. \/ x.old \in Latest(mark.case) /\ pc'[r] = "closeCase"
          \/ Resolved(r) \in Latest(mark.case) /\ pc'[r] = "deleteCase"
      <4>1. pc'[r] = IF t = Resolved(r) THEN "deleteCase" ELSE "closeCase"
        BY <2>2, AtWork DEF Goto, CallsTyped
      <4>2. CASE t = Resolved(r)
        BY <4>1, <4>2
      <4>3. CASE t # Resolved(r)
        BY <3>3, <4>1, <4>3
      <4> QED BY <4>2, <4>3
    <3> QED BY <3>3, <3>4, <3>5, <3>6 DEF Looked
  <2> QED BY <1>1, <2>1, <2>2
<1> QED BY <1>3 DEF Looked

LEMMA ReadActiveKeeps ==
  ASSUME RInv, NEW r \in Remaps, ReadActive(r) PROVE RInv'
<1>1. PICK mark \in remap[r].todo, x \in RemapType : Looked(r, mark, x)
  BY ReadActiveLooks
<1>2. mark \in Marks /\ mark.case \in Cases
  BY AtWork DEF Marks
<1>4. Looked(r, mark, x)
  BY <1>1
<1>5. RemapsTyped' /\ remap'[r] = x /\ \A q \in Remaps \ {r} : remap'[q] = remap[q]
  BY <1>4, AtWork, RemapSet DEF Looked
<1>6. CallsTyped' /\ \A q \in Actors \ {r} : pc'[q] = pc[q]
  BY <1>4, AtWork DEF Looked, CallsTyped, Labels
<1>7. RemapMove(r)
  BY <1>5, <1>6, AtWork DEF RemapMove, ReadActive, OutputTyped, outputs, review, events, history
<1>8. Ready(r)'
  <2>1. /\ remap'[r].message = remap[r].message /\ At(r)' = mark.case /\ Resolved(r)' = Resolved(r)
        /\ Chosen' = Chosen /\ caseRow' = caseRow /\ binding'[r] = binding[r]
    <3>1. x.message = remap[r].message /\ x.at = mark
      BY <1>4 DEF Looked
    <3>2. remap'[r].message = remap[r].message /\ At(r)' = mark.case /\ Resolved(r)' = Resolved(r)
      BY <1>5, <3>1 DEF At, Resolved
    <3>3. Chosen' = Chosen /\ caseRow' = caseRow /\ binding'[r] = binding[r]
      BY DEF Chosen, ReadActive, outputs, rows
    <3> QED BY <3>2, <3>3
  <2>2. pc[r] = "active"
    BY DEF ReadActive
  <2>3. pc'[r] = "closeCase" => remap'[r].old \in Trustees
    BY <1>2, <1>4, <1>5, LatestReal DEF Looked
  <2>4. pc'[r] = "deleteCase" => caseRow[mark.case][Resolved(r)].id # 0
    BY <1>2, <1>4, LatestReal DEF Looked
  <2>5. pc'[r] \notin {"closeList", "createList"}
    BY <1>4 DEF Looked
  <2> QED BY <2>1, <2>2, <2>3, <2>4, <2>5, AtWork DEF Ready
<1> QED BY <1>7, <1>8, QuietKeeps DEF ReadActive, queues, history

LEMMA NotifyKeeps ==
  ASSUME RInv, NEW r \in Remaps, Notify(r) PROVE RInv'
<1>1. /\ RemapsTyped' /\ CallsTyped'
      /\ \A q \in Remaps \ {r} : remap'[q] = remap[q]
      /\ \A q \in Actors \ {r} : pc'[q] = pc[q]
      /\ remap'[r].message = remap[r].message
      /\ pc'[r] \in {"active", "continue"}
  BY AtWork, AdvanceTyped DEF Notify
<1>2. OutputTyped' /\ binding'[r] = {At(r)} /\ \A q \in Actors \ {r} : binding'[q] = binding[q]
  BY AtWork DEF Notify, OutputTyped
<1>3. RemapMove(r)
  BY <1>1, <1>2 DEF RemapMove, Notify, review, events, history
<1>4. Ready(r)'
  BY <1>1, <1>2, AtWork DEF Ready, Resolved, Chosen, Notify
<1> QED BY <1>3, <1>4, QuietKeeps DEF Notify, queues, history

LEMMA CompleteKeeps ==
  ASSUME RInv, NEW r \in Remaps, Complete(r) PROVE RInv'
<1>1. RemapsTyped' /\ remap'[r] = NoRemap /\ \A q \in Remaps \ {r} : remap'[q] = remap[q]
  BY AtWork, Constants, RemapSet DEF Complete
<1>2. CallsTyped' /\ pc'[r] = "idle" /\ \A q \in Actors \ {r} : pc'[q] = pc[q]
  BY AtWork, Moves DEF Complete, Labels
<1>3. OutputTyped' /\ binding'[r] = {} /\ \A q \in Actors \ {r} : binding'[q] = binding[q]
  BY AtWork DEF Complete, OutputTyped
<1>4. RemapMove(r)
  BY <1>1, <1>2, <1>3 DEF RemapMove, Complete, review, events, history
<1>5. Ready(r)'
  BY <1>2, <1>3 DEF Ready
<1> QED BY <1>4, <1>5, QuietKeeps DEF Complete, queues, history

LEMMA CloseCaseKeeps ==
  ASSUME RInv, NEW r \in Remaps, CloseCase(r) PROVE RInv'
<1>1. CASE caseRow[At(r)][remap[r].old].id = remap[r].oldId
  <2>1. /\ caseRow' = [caseRow EXCEPT ![At(r)][remap[r].old].open = FALSE]
        /\ Goto(r, "closeList") /\ UNCHANGED <<remap, history, listRow>>
    BY <1>1 DEF CloseCase
  <2>2. remap[r].old \in Trustees
    BY AtWork DEF Ready, CloseCase
  <2>3. /\ caseRow' \in RowTables
        /\ \A d \in Cases, k \in Trustees :
             caseRow'[d][k].id = caseRow[d][k].id /\ (caseRow'[d][k].open => caseRow[d][k].open)
    <3>1. caseRow \in RowTables /\ At(r) \in Cases
      BY AtWork DEF RowsTyped
    <3>2. caseRow' = Closed(caseRow, At(r), remap[r].old)
      BY <2>1 DEF Closed
    <3> QED BY <2>2, <3>1, <3>2, RowClosed
  <2>4. CallsTyped' /\ pc'[r] = "closeList" /\ \A q \in Actors \ {r} : pc'[q] = pc[q]
    BY <2>1, AtWork, Moves DEF Labels
  <2>5. RemapMove(r)
    BY <2>1, <2>4, AtWork DEF RemapMove, CloseCase, RemapsTyped, OutputTyped, outputs, review, events, history
  <2>6. Ready(r)'
    <3>1. Resolved(r)' = Resolved(r) /\ Chosen' = Chosen /\ binding' = binding /\ remap' = remap
      BY <2>1 DEF Resolved, Chosen, CloseCase, outputs
    <3>2. pc[r] = "closeCase"
      BY DEF CloseCase
    <3> QED BY <2>2, <2>4, <3>1, <3>2, AtWork DEF Ready
  <2>7. RowsTyped' /\ OpenIsReal' /\ RowsKept /\ IdTyped'
    BY <2>1, <2>3, AtWork DEF RowsTyped, RInv, OpenIsReal, RowsKept, IdTyped, CloseCase
  <2> QED BY <2>1, <2>5, <2>6, <2>7, WriteKeeps DEF CloseCase, queues, history
<1>2. CASE caseRow[At(r)][remap[r].old].id # remap[r].oldId
  <2>1. PassOver(r, remap[r].at) /\ UNCHANGED <<marks, rows, nextId, review, queues, outputs, user, sync, events>>
    BY <1>2 DEF CloseCase, rows
  <2>2. faults' \in 0..MaxFaults /\ pc[r] # "idle"
    BY AtWork DEF CloseCase, PastTyped
  <2> QED BY <2>1, <2>2, AtWork, PassedOver
<1> QED BY <1>1, <1>2

LEMMA CloseListKeeps ==
  ASSUME RInv, NEW r \in Remaps, CloseList(r) PROVE RInv'
<1>1. CASE listRow[At(r)][remap[r].old].id = remap[r].oldId
  <2>1. /\ listRow' = [listRow EXCEPT ![At(r)][remap[r].old].open = FALSE]
        /\ Goto(r, "createCase") /\ UNCHANGED <<remap, history, caseRow>>
    BY <1>1 DEF CloseList
  <2>2. remap[r].old \in Trustees
    BY AtWork DEF Ready, CloseList
  <2>3. listRow' \in RowTables
    BY <2>1, <2>2, AtWork, RowClosed DEF RowsTyped, Closed
  <2>4. CallsTyped' /\ pc'[r] = "createCase" /\ \A q \in Actors \ {r} : pc'[q] = pc[q]
    BY <2>1, AtWork, Moves DEF Labels
  <2>5. RemapMove(r)
    BY <2>1, <2>4, AtWork DEF RemapMove, CloseList, RemapsTyped, OutputTyped, outputs, review, events, history
  <2>6. Ready(r)'
    <3>1. Resolved(r)' = Resolved(r) /\ Chosen' = Chosen /\ binding' = binding /\ remap' = remap
      BY <2>1 DEF Resolved, Chosen, CloseList, outputs
    <3>2. pc[r] = "closeList"
      BY DEF CloseList
    <3> QED BY <2>2, <2>4, <3>1, <3>2, AtWork DEF Ready
  <2>7. RowsTyped' /\ OpenIsReal' /\ RowsKept /\ IdTyped'
    BY <2>1, <2>3, AtWork DEF RowsTyped, RInv, OpenIsReal, RowsKept, IdTyped, CloseList
  <2> QED BY <2>1, <2>5, <2>6, <2>7, WriteKeeps DEF CloseList, queues, history
<1>2. CASE listRow[At(r)][remap[r].old].id # remap[r].oldId
  <2>1. PassOver(r, remap[r].at) /\ UNCHANGED <<marks, rows, nextId, review, queues, outputs, user, sync, events>>
    BY <1>2 DEF CloseList, rows
  <2>2. faults' \in 0..MaxFaults /\ pc[r] # "idle"
    BY AtWork DEF CloseList, PastTyped
  <2> QED BY <2>1, <2>2, AtWork, PassedOver
<1> QED BY <1>1, <1>2

LEMMA CreateCaseKeeps ==
  ASSUME RInv, NEW r \in Remaps, CreateCase(r) PROVE RInv'
<1>1. nextId \in Nat \ {0} /\ nextId' = nextId + 1
  BY AtWork DEF IdTyped, CreateCase
<1>2. /\ caseRow' \in RowTables
      /\ \A d \in Cases, k \in Trustees :
           caseRow'[d][k] = IF d = At(r) /\ k = Resolved(r) THEN [id |-> nextId, open |-> TRUE]
                                                             ELSE caseRow[d][k]
  <2>1. /\ caseRow \in RowTables /\ At(r) \in Cases /\ Resolved(r) \in Trustees
        /\ caseRow' = [caseRow EXCEPT ![At(r)][Resolved(r)] = [id |-> nextId, open |-> TRUE]]
    BY AtWork DEF RowsTyped, CreateCase
  <2>2. caseRow' = Made(caseRow, At(r), Resolved(r), nextId)
    BY <2>1 DEF Made
  <2>3. nextId \in Nat /\ caseRow \in RowTables /\ At(r) \in Cases /\ Resolved(r) \in Trustees
    BY <1>1, <2>1
  <2>4. caseRow' \in RowTables
    BY <2>2, <2>3, RowMade
  <2>5. \A d \in Cases, k \in Trustees :
          Made(caseRow, At(r), Resolved(r), nextId)[d][k] =
            IF d = At(r) /\ k = Resolved(r) THEN [id |-> nextId, open |-> TRUE] ELSE caseRow[d][k]
    BY <2>3, RowMade
  <2> QED BY <2>2, <2>4, <2>5
<1>3. PICK x : x = [remap[r] EXCEPT !.oldId = nextId]
  OBVIOUS
<1>4. x \in RemapType /\ x.message = remap[r].message /\ x.at = remap[r].at
  BY <1>1, <1>3, AtWork DEF RemapType
<1>5. RemapsTyped' /\ remap'[r] = x /\ \A q \in Remaps \ {r} : remap'[q] = remap[q]
  BY <1>3, <1>4, AtWork, RemapSet DEF CreateCase
<1>6. CallsTyped' /\ pc'[r] = "createList" /\ \A q \in Actors \ {r} : pc'[q] = pc[q]
  BY AtWork, Moves DEF CreateCase, Labels
<1>7. RemapMove(r)
  BY <1>5, <1>6, AtWork DEF RemapMove, CreateCase, OutputTyped, outputs, review, events, history
<1>8. Ready(r)'
  <2>1. /\ remap'[r].message = remap[r].message /\ At(r)' = At(r) /\ Resolved(r)' = Resolved(r)
        /\ Chosen' = Chosen /\ binding' = binding /\ pc[r] = "createCase"
    BY <1>4, <1>5 DEF At, Resolved, Chosen, CreateCase, outputs
  <2>2. caseRow'[At(r)][Resolved(r)].id # 0
    BY <1>1, <1>2, AtWork
  <2> QED BY <1>6, <2>1, <2>2, AtWork DEF Ready
<1>9. RowsTyped' /\ OpenIsReal' /\ RowsKept /\ IdTyped'
  BY <1>1, <1>2, AtWork DEF RowsTyped, RInv, OpenIsReal, RowsKept, IdTyped, CreateCase
<1> QED BY <1>7, <1>8, <1>9, WriteKeeps DEF CreateCase, queues, history

LEMMA CreateListKeeps ==
  ASSUME RInv, NEW r \in Remaps, CreateList(r) PROVE RInv'
<1>1. listRow' \in RowTables
  <2>1. remap[r].oldId \in Nat
    BY AtWork DEF RemapType
  <2> QED BY <2>1, AtWork, RowMade DEF CreateList, RowsTyped, Made
<1>2. CallsTyped' /\ pc'[r] = "deleteCase" /\ \A q \in Actors \ {r} : pc'[q] = pc[q]
  BY AtWork, Moves DEF CreateList, Labels
<1>3. RemapMove(r)
  BY <1>2, AtWork DEF RemapMove, CreateList, RemapsTyped, OutputTyped, outputs, review, events, history
<1>4. Ready(r)'
  <2>1. /\ At(r)' = At(r) /\ Resolved(r)' = Resolved(r) /\ remap' = remap /\ caseRow' = caseRow
        /\ Chosen' = Chosen /\ binding' = binding /\ pc[r] = "createList"
    BY DEF At, Resolved, Chosen, CreateList, outputs
  <2> QED BY <1>2, <2>1, AtWork DEF Ready
<1>5. RowsTyped' /\ OpenIsReal' /\ RowsKept /\ IdTyped'
  BY <1>1, AtWork DEF RowsTyped, RInv, OpenIsReal, RowsKept, IdTyped, CreateList
<1> QED BY <1>3, <1>4, <1>5, WriteKeeps DEF CreateList, queues, history

(* The mark goes: the row that stands for it is the one Ready promises.    *)
LEMMA DeleteCaseKeeps ==
  ASSUME RInv, NEW r \in Remaps, DeleteCase(r) PROVE RInv'
<1>1. CASE caseMark[At(r)] = remap[r].at.id
  <2>1. /\ caseMark' = [caseMark EXCEPT ![At(r)] = 0] /\ Goto(r, "deleteList")
        /\ UNCHANGED <<remap, history, listMark, rows, nextId, queue, dead, outputs, review, user, sync, events, faults>>
        /\ pc[r] = "deleteCase"
    BY <1>1 DEF DeleteCase, queues
  <2>2. CallsTyped' /\ pc'[r] = "deleteList" /\ \A q \in Actors \ {r} : pc'[q] = pc[q]
    BY <2>1, AtWork, Moves DEF Labels
  <2>3. RemapMove(r)
    BY <2>1, <2>2, AtWork DEF RemapMove, RemapsTyped, OutputTyped, outputs, review, events, history
  <2>4. Ready(r)'
    <3>1. Resolved(r)' = Resolved(r) /\ Chosen' = Chosen /\ binding' = binding /\ remap' = remap
      BY <2>1 DEF Resolved, Chosen, outputs
    <3> QED BY <2>1, <2>2, <3>1, AtWork DEF Ready
  <2>5. MarksTyped' /\ MarksKept
    <3>1. Resolved(r) \in Chosen /\ caseRow[At(r)][Resolved(r)].id # 0
      BY <2>1, AtWork DEF Ready
    <3>2. \A c \in Cases : caseMark'[c] = IF c = At(r) THEN 0 ELSE caseMark[c]
      BY <2>1, AtWork DEF MarksTyped
    <3>3. MarksTyped'
      BY <2>1, AtWork DEF MarksTyped
    <3> QED BY <3>1, <3>2, <3>3 DEF MarksKept
  <2>6. RowsTyped' /\ OpenIsReal' /\ RowsKept /\ IdTyped'
    BY <2>1, AtWork DEF RowsTyped, RInv, OpenIsReal, RowsKept, IdTyped, rows
  <2>7. QueueTyped' /\ QueuedChosen' /\ PastTyped'
    BY <2>1, AtWork DEF QueueTyped, QueuedChosen, PastTyped, RInv, Chosen, history, events
  <2> QED BY <2>3, <2>4, <2>5, <2>6, <2>7, RemapKeeps DEF TablesTyped
<1>2. CASE caseMark[At(r)] # remap[r].at.id
  <2>1. PassOver(r, remap[r].at) /\ UNCHANGED <<marks, rows, nextId, review, queues, outputs, user, sync, events>>
    BY <1>2 DEF DeleteCase, marks
  <2>2. faults' \in 0..MaxFaults /\ pc[r] # "idle"
    BY AtWork DEF DeleteCase, PastTyped
  <2> QED BY <2>1, <2>2, AtWork, PassedOver
<1> QED BY <1>1, <1>2

LEMMA DeleteListKeeps ==
  ASSUME RInv, NEW r \in Remaps, DeleteList(r) PROVE RInv'
<1>1. CASE listMark[At(r)] = remap[r].at.id
  <2>1. /\ listMark' = [listMark EXCEPT ![At(r)] = 0] /\ Goto(r, "notify")
        /\ UNCHANGED <<remap, history, caseMark, rows, nextId, queue, dead, outputs, review, user, sync, events, faults>>
        /\ pc[r] = "deleteList"
    BY <1>1 DEF DeleteList, queues
  <2>2. CallsTyped' /\ pc'[r] = "notify" /\ \A q \in Actors \ {r} : pc'[q] = pc[q]
    BY <2>1, AtWork, Moves DEF Labels
  <2>3. RemapMove(r)
    BY <2>1, <2>2, AtWork DEF RemapMove, RemapsTyped, OutputTyped, outputs, review, events, history
  <2>4. Ready(r)'
    <3>1. Resolved(r)' = Resolved(r) /\ Chosen' = Chosen /\ binding' = binding /\ remap' = remap
      BY <2>1 DEF Resolved, Chosen, outputs
    <3> QED BY <2>1, <2>2, <3>1, AtWork DEF Ready
  <2>5. MarksTyped' /\ MarksKept
    BY <2>1, AtWork DEF MarksTyped, MarksKept
  <2>6. RowsTyped' /\ OpenIsReal' /\ RowsKept /\ IdTyped'
    BY <2>1, AtWork DEF RowsTyped, RInv, OpenIsReal, RowsKept, IdTyped, rows
  <2>7. QueueTyped' /\ QueuedChosen' /\ PastTyped'
    BY <2>1, AtWork DEF QueueTyped, QueuedChosen, PastTyped, RInv, Chosen, history, events
  <2> QED BY <2>3, <2>4, <2>5, <2>6, <2>7, RemapKeeps DEF TablesTyped
<1>2. CASE listMark[At(r)] # remap[r].at.id
  <2>1. PassOver(r, remap[r].at) /\ UNCHANGED <<marks, rows, nextId, review, queues, outputs, user, sync, events>>
    BY <1>2 DEF DeleteList, marks
  <2>2. faults' \in 0..MaxFaults /\ pc[r] # "idle"
    BY AtWork DEF DeleteList, PastTyped
  <2> QED BY <2>1, <2>2, AtWork, PassedOver
<1> QED BY <1>1, <1>2

(* The message goes round again, or is put aside.                          *)
LEMMA SentAgain ==
  ASSUME RInv, NEW r \in Remaps, NEW m \in Messages, m.trustee \in Chosen, Chosen' = Chosen,
         \/ m.retries <= RetryLimit /\ m.dequeues < MaxDequeueCount /\ Send(m) /\ UNCHANGED dead
         \/ dead' = dead \cup {m} /\ UNCHANGED queue
         \/ UNCHANGED <<queue, dead>>
  PROVE  QueueTyped' /\ QueuedChosen'
<1>1. CASE m.retries <= RetryLimit /\ m.dequeues < MaxDequeueCount /\ Send(m) /\ UNCHANGED dead
  <2>1. /\ queue' \in [Messages -> Nat]
        /\ \A k \in Messages : queue'[k] > 0 => k.retries <= RetryLimit
                                                /\ k.dequeues < MaxDequeueCount
        /\ \A k \in Messages : queue'[k] > 0 => queue[k] > 0 \/ k = m
    BY <1>1, AtWork, SendTyped
  <2> QED BY <1>1, <2>1, AtWork DEF QueueTyped, QueuedChosen, RInv
<1>2. CASE dead' = dead \cup {m} /\ UNCHANGED queue
  BY <1>2, AtWork DEF QueueTyped, QueuedChosen, RInv
<1>3. CASE UNCHANGED <<queue, dead>>
  BY <1>3, AtWork DEF QueueTyped, QueuedChosen, RInv
<1> QED BY <1>1, <1>2, <1>3

(* Steps that send the message again.                                      *)
LEMMA SendKeeps ==
  ASSUME RInv, NEW r \in Remaps, RemapMove(r), Ready(r)', QueueTyped', QueuedChosen',
         UNCHANGED <<marks, rows, nextId, due, failed>>, faults' \in 0..MaxFaults
  PROVE  RInv'
<1>1. PastTyped'
  BY AtWork DEF PastTyped, RemapMove
<1> QED BY <1>1, StoreKept, RemapKeeps DEF TablesTyped

LEMMA FaultCounted ==
  ASSUME PastTyped, NEW kind, Fault(kind) PROVE faults' \in 0..MaxFaults
BY BoundAssumption DEF PastTyped, Fault

LEMMA ContinueKeeps ==
  ASSUME RInv, NEW r \in Remaps, Continue(r) PROVE RInv'
<1>1. PICK m : m = [remap[r].message EXCEPT !.dequeues = 0]
  OBVIOUS
<1>2. m \in Messages /\ m.trustee = Resolved(r) /\ m.dequeues = 0 /\ m.retries = remap[r].message.retries
  BY <1>1, AtWork, BoundAssumption DEF Messages
<1>3. pc[r] = "continue" /\ remap' = remap /\ binding' = binding /\ Chosen' = Chosen /\ Resolved(r)' = Resolved(r)
  BY DEF Continue, outputs, Chosen, Resolved
<1>4. m.retries <= RetryLimit /\ m.dequeues < MaxDequeueCount /\ m.trustee \in Chosen
  BY <1>2, <1>3, AtWork, BoundAssumption DEF Ready
<1>5. (Send(m) /\ UNCHANGED dead) \/ UNCHANGED <<queue, dead>>
  BY <1>1 DEF Continue
<1>6. QueueTyped' /\ QueuedChosen'
  BY <1>2, <1>3, <1>4, <1>5, SentAgain
<1>7. CallsTyped' /\ pc'[r] = "complete" /\ \A q \in Actors \ {r} : pc'[q] = pc[q]
  BY AtWork, Moves DEF Continue, Labels
<1>8. RemapMove(r)
  BY <1>7, AtWork DEF RemapMove, Continue, RemapsTyped, OutputTyped, outputs, review, events, history
<1>9. Ready(r)'
  BY <1>3, <1>7, AtWork DEF Ready
<1> QED BY <1>6, <1>8, <1>9, AtWork, SendKeeps DEF Continue, history, PastTyped

LEMMA RetryPageKeeps ==
  ASSUME RInv, NEW r \in Remaps, RetryPage(r) PROVE RInv'
<1>1. /\ remap' = remap /\ binding' = binding /\ Chosen' = Chosen /\ Resolved(r)' = Resolved(r)
      /\ pc[r] # "idle" /\ faults' \in 0..MaxFaults
  BY AtWork, FaultCounted DEF RetryPage, outputs, Chosen, Resolved, CaseCalls
<1>2. QueueTyped' /\ QueuedChosen'
  <2>1. CASE remap[r].message.retries < RetryLimit
    <3>1. PICK m : m = [remap[r].message EXCEPT !.dequeues = 0, !.retries = @ + 1]
      OBVIOUS
    <3>2. m \in Messages /\ m.trustee = Resolved(r) /\ m.dequeues = 0 /\ m.retries <= RetryLimit
      <4>1. PICK k \in Messages : k = remap[r].message
        BY AtWork
      <4>2. k.retries \in Nat /\ k.retries < RetryLimit
        BY <2>1, <4>1, BoundAssumption DEF Messages
      <4>3. m = [trustee |-> k.trustee, retries |-> k.retries + 1, dequeues |-> 0]
        BY <3>1, <4>1 DEF Messages
      <4> QED BY <4>1, <4>2, <4>3, AtWork, BoundAssumption DEF Messages
    <3>3. Send(m) /\ UNCHANGED dead
      BY <2>1, <3>1 DEF RetryPage
    <3> QED BY <1>1, <3>2, <3>3, AtWork, BoundAssumption, SentAgain DEF Ready
  <2>2. CASE ~(remap[r].message.retries < RetryLimit)
    <3>1. dead' = dead \cup {remap[r].message} /\ UNCHANGED queue
      BY <2>2 DEF RetryPage
    <3> QED BY <1>1, <3>1, AtWork, SentAgain DEF Ready
  <2> QED BY <2>1, <2>2
<1>3. CallsTyped' /\ pc'[r] = "complete" /\ \A q \in Actors \ {r} : pc'[q] = pc[q]
  BY AtWork, Moves DEF RetryPage, Labels
<1>4. RemapMove(r)
  BY <1>3, AtWork DEF RemapMove, RetryPage, RemapsTyped, OutputTyped, outputs, review, events, history
<1>5. Ready(r)'
  BY <1>1, <1>3, AtWork DEF Ready
<1> QED BY <1>1, <1>2, <1>4, <1>5, SendKeeps DEF RetryPage, history

LEMMA CaseFailsKeeps ==
  ASSUME RInv, NEW r \in Remaps, CaseFails(r) PROVE RInv'
<1>1. PICK mark \in IF pc[r] = "active" THEN remap[r].todo ELSE {remap[r].at} : PassOver(r, mark)
  BY DEF CaseFails
<1>2. mark \in Marks
  BY AtWork
<1>3. pc[r] # "idle" /\ faults' \in 0..MaxFaults
  BY AtWork, FaultCounted DEF CaseFails, CaseCalls
<1> QED BY <1>1, <1>2, <1>3, PassedOver DEF CaseFails

LEMMA PageFailsKeeps ==
  ASSUME RInv, NEW r \in Remaps, PageFails(r) PROVE RInv'
<1>1. PICK m : m = [remap[r].message EXCEPT !.dequeues = @ + 1]
  OBVIOUS
<1>2. /\ pc[r] # "idle" /\ faults' \in 0..MaxFaults /\ Chosen' = Chosen
      /\ IF m.dequeues < MaxDequeueCount THEN Send(m) /\ UNCHANGED dead
                                         ELSE dead' = dead \cup {m} /\ UNCHANGED queue
  <2>1. pc[r] # "idle" /\ Chosen' = Chosen
    BY DEF PageFails, Chosen
  <2>2. faults' \in 0..MaxFaults
    BY AtWork, FaultCounted DEF PageFails
  <2> QED BY <1>1, <2>1, <2>2 DEF PageFails
<1>3. m \in Messages /\ m.trustee = Resolved(r) /\ m.retries <= RetryLimit /\ m.trustee \in Chosen
  <2>1. remap[r].message.dequeues < MaxDequeueCount /\ remap[r].message.retries <= RetryLimit
        /\ Resolved(r) \in Chosen
    BY <1>2, AtWork DEF Ready
  <2>2. m \in Messages /\ m.trustee = Resolved(r) /\ m.retries = remap[r].message.retries
    BY <1>1, <2>1, AtWork, BoundAssumption DEF Messages
  <2> QED BY <2>1, <2>2
<1>4. QueueTyped' /\ QueuedChosen'
  BY <1>2, <1>3, SentAgain
<1>5. RemapsTyped' /\ remap'[r] = NoRemap /\ \A q \in Remaps \ {r} : remap'[q] = remap[q]
  BY AtWork, Constants, RemapSet DEF PageFails
<1>6. CallsTyped' /\ pc'[r] = "idle" /\ \A q \in Actors \ {r} : pc'[q] = pc[q]
  BY AtWork, Moves DEF PageFails, Labels
<1>7. OutputTyped' /\ binding'[r] = {} /\ \A q \in Actors \ {r} : binding'[q] = binding[q]
  BY AtWork DEF PageFails, OutputTyped
<1>8. RemapMove(r)
  BY <1>5, <1>6, <1>7 DEF RemapMove, PageFails, review, events, history
<1>9. Ready(r)'
  BY <1>6, <1>7 DEF Ready
<1> QED BY <1>2, <1>4, <1>8, <1>9, SendKeeps DEF PageFails, history

-----------------------------------------------------------------------------
(* The steps of a decision.  What it chose stays chosen.                   *)
DecisionMove(u) ==
  /\ CallsTyped' /\ UsersTyped' /\ OutputTyped' /\ ReviewTyped' /\ QueueTyped'
  /\ \A p \in Actors \ {u} : pc'[p] = pc[p] /\ binding'[p] = binding[p]
  /\ \A v \in Users \ {u} : user'[v] = user[v]
  /\ user[u].trustee # NoTrustee => user'[u].trustee = user[u].trustee
  /\ faults' \in 0..MaxFaults /\ due' \in [Cases -> Nat]
  /\ UNCHANGED <<marks, rows, nextId, sync, remap, events, marked, failed>>

LEMMA DecisionKeeps ==
  ASSUME RInv, NEW u \in Users, DecisionMove(u), Settled(u)',
         \A m \in Messages : queue'[m] > 0 => queue[m] > 0 \/ m.trustee \in binding[u]
  PROVE  RInv'
<1>1. Typed'
  <2>1. PastTyped'
    BY DEF RInv, Typed, PastTyped, DecisionMove, events
  <2> QED BY <2>1 DEF RInv, Typed, DecisionMove, SyncsTyped, RemapsTyped, MarksTyped, RowsTyped, IdTyped, marks, rows
<1>2. UsersTyped /\ UsersTyped'
  BY <1>1 DEF RInv, Typed
<1>3. Chosen \subseteq Chosen'
  BY DEF Chosen, DecisionMove
<1>4. binding[u] \subseteq Chosen
  BY TrusteeAssumption DEF RInv, UsersKnown, Settled, Chosen
<1>5. QueuedChosen'
  BY <1>3, <1>4 DEF RInv, QueuedChosen
<1>6. RemapsReady'
  <2>1. \A q \in Remaps \ {u} : /\ remap'[q] = remap[q] /\ pc'[q] = pc[q]
                                 /\ binding'[q] = binding[q]
    BY DEF DecisionMove, Actors
  <2>2. RowsKept
    BY DEF RowsKept, DecisionMove, rows
  <2>3. u \notin Remaps
    BY ActorAssumption
  <2> QED BY <1>2, <1>3, <2>1, <2>2, <2>3, OthersReady DEF RInv, Typed
<1>7. UsersKnown'
  <2>1. \A v \in Users \ {u} : pc'[v] = pc[v] /\ binding'[v] = binding[v] /\ user'[v] = user[v]
    BY DEF DecisionMove, Actors
  <2> QED BY <2>1 DEF RInv, UsersKnown, Settled
<1>8. OpenIsReal' /\ NeverForgotten'
  BY <1>3 DEF RInv, OpenIsReal, NeverForgotten, DecisionMove, rows, marks
<1> QED BY <1>1, <1>5, <1>6, <1>7, <1>8 DEF RInv

LEMMA Deciding ==
  ASSUME RInv, NEW u \in Users
  PROVE  /\ u \in Actors /\ u \notin Remaps /\ Settled(u) /\ pc[u] \in Labels
         /\ user[u].id \in Nat /\ user[u].trustee \in Trustees \cup {NoTrustee}
         /\ user[u] \in [id : Nat, trustee : Trustees \cup {NoTrustee}]
         /\ CallsTyped /\ UsersTyped /\ OutputTyped /\ ReviewTyped /\ QueueTyped /\ PastTyped
<1>1. u \in Actors /\ u \notin Remaps
  BY ActorAssumption DEF Actors
<1> QED BY <1>1 DEF RInv, Typed, UsersKnown, CallsTyped, UsersTyped

(* A decision's step that only calls.                                      *)
LEMMA CallKeeps ==
  ASSUME RInv, NEW u \in Users, NEW label \in Labels, Goto(u, label), pc[u] # "idle",
         UNCHANGED <<marks, rows, nextId, queues, outputs, user, sync, remap, events, history>>,
         ReviewTyped', faults' \in 0..MaxFaults,
         label = "approve" => pc[u] = "approve",
         label \in {"readVariation", "createVariation", "enqueue"} => user[u].trustee \in Trustees,
         label # "idle"
  PROVE  RInv'
<1>1. CallsTyped' /\ pc'[u] = label /\ \A q \in Actors \ {u} : pc'[q] = pc[q]
  BY Deciding, Moves
<1>2. DecisionMove(u)
  BY <1>1, Deciding DEF DecisionMove, UsersTyped, OutputTyped, QueueTyped, PastTyped, queues, outputs, history
<1>3. Settled(u)'
  BY <1>1, Deciding DEF Settled, outputs
<1>4. \A m \in Messages : queue'[m] > 0 => queue[m] > 0 \/ m.trustee \in binding[u]
  BY DEF queues
<1> QED BY <1>2, <1>3, <1>4, DecisionKeeps

LEMMA ApproveKeeps ==
  ASSUME RInv, NEW u \in Users, NEW t \in Trustees, Approve(u, t) PROVE RInv'
<1>1. PICK x : x = [id |-> verification.id, trustee |-> t]
  OBVIOUS
<1>2. x \in [id : Nat, trustee : Trustees \cup {NoTrustee}] /\ x.trustee = t
  BY <1>1, Deciding DEF ReviewTyped, Verifications
<1>3. UsersTyped' /\ user'[u] = x /\ \A v \in Users \ {u} : user'[v] = user[v]
  BY <1>1, <1>2, Deciding DEF UsersTyped, Approve
<1>4. CallsTyped' /\ pc'[u] = "readVariation" /\ \A q \in Actors \ {u} : pc'[q] = pc[q]
  BY Deciding, Moves DEF Approve, Labels
<1>5. user[u].trustee = NoTrustee /\ binding[u] = {}
  BY TrusteeAssumption, Deciding DEF Approve, Settled
<1>6. DecisionMove(u)
  BY <1>3, <1>4, <1>5, Deciding DEF DecisionMove, Approve, OutputTyped, QueueTyped, ReviewTyped, PastTyped, queues, outputs, review, history
<1>7. Settled(u)'
  BY <1>2, <1>3, <1>4, <1>5 DEF Settled, Approve, outputs
<1> QED BY <1>6, <1>7, DecisionKeeps DEF Approve, queues

LEMMA RejectKeeps ==
  ASSUME RInv, NEW u \in Users, Reject(u) PROVE RInv'
<1>1. PICK x : x = [user[u] EXCEPT !.id = verification.id]
  OBVIOUS
<1>2. x \in [id : Nat, trustee : Trustees \cup {NoTrustee}] /\ x.trustee = user[u].trustee
  BY <1>1, Deciding DEF ReviewTyped, Verifications
<1>3. UsersTyped' /\ user'[u] = x /\ \A v \in Users \ {u} : user'[v] = user[v]
  BY <1>1, <1>2, Deciding DEF UsersTyped, Reject
<1>4. CallsTyped' /\ pc'[u] = "reject" /\ \A q \in Actors \ {u} : pc'[q] = pc[q]
  BY Deciding, Moves DEF Reject, Labels
<1>5. user[u].trustee = NoTrustee /\ binding[u] = {}
  BY TrusteeAssumption, Deciding DEF Reject, Settled
<1>6. DecisionMove(u)
  BY <1>2, <1>3, <1>4, <1>5, Deciding DEF DecisionMove, Reject, OutputTyped, QueueTyped, ReviewTyped, PastTyped, queues, outputs, review, history
<1>7. Settled(u)'
  BY <1>2, <1>3, <1>4, <1>5 DEF Settled, Reject, outputs
<1> QED BY <1>6, <1>7, DecisionKeeps DEF Reject, queues

LEMMA UpdateTyped ==
  ASSUME RInv, NEW u \in Users, NEW label, NEW status \in {"approved", "rejected"},
         UpdateStatus(u, label, status)
  PROVE  ReviewTyped'
<1>1. verification \in Verifications /\ user[u].trustee \in Trustees \cup {NoTrustee}
  BY Deciding DEF ReviewTyped
<1>2. verification' \in Verifications
  BY <1>1 DEF UpdateStatus, Verifications, Statuses
<1> QED BY <1>2, Deciding DEF ReviewTyped, UpdateStatus

LEMMA DecisionCallKeeps ==
  ASSUME RInv, NEW u \in Users,
         \/ ReadVariation(u) \/ CreateVariation(u) \/ MarkApproved(u) \/ MarkRejected(u)
         \/ DecisionFails(u)
  PROVE  RInv'
<1>1. CASE ReadVariation(u)
  <2>1. ReviewTyped' /\ user[u].trustee \in Trustees /\ pc[u] = "readVariation" /\ faults' \in 0..MaxFaults
    BY <1>1, Deciding DEF ReadVariation, ReviewTyped, Settled, PastTyped, review
  <2>2. PICK label \in {"createVariation", "enqueue"} : Goto(u, label)
    BY <1>1 DEF ReadVariation
  <2> QED BY <1>1, <2>1, <2>2, CallKeeps DEF ReadVariation, Labels
<1>2. CASE CreateVariation(u)
  <2>1. user[u].trustee \in Trustees /\ pc[u] = "createVariation" /\ faults' \in 0..MaxFaults
    BY <1>2, Deciding DEF CreateVariation, Settled, PastTyped
  <2>2. ReviewTyped'
    BY <1>2, <2>1, Deciding DEF CreateVariation, ReviewTyped
  <2> QED BY <1>2, <2>1, <2>2, CallKeeps DEF CreateVariation, Labels
<1>3. CASE MarkApproved(u)
  <2>1. ReviewTyped'
    BY <1>3, UpdateTyped DEF MarkApproved
  <2>2. pc[u] = "approve" /\ faults' \in 0..MaxFaults /\ Goto(u, "return")
    BY <1>3, Deciding DEF MarkApproved, UpdateStatus, PastTyped
  <2> QED BY <1>3, <2>1, <2>2, CallKeeps DEF MarkApproved, UpdateStatus, Labels
<1>4. CASE MarkRejected(u)
  <2>1. ReviewTyped'
    BY <1>4, UpdateTyped DEF MarkRejected
  <2>2. pc[u] = "reject" /\ faults' \in 0..MaxFaults /\ Goto(u, "return")
    BY <1>4, Deciding DEF MarkRejected, UpdateStatus, PastTyped
  <2> QED BY <1>4, <2>1, <2>2, CallKeeps DEF MarkRejected, UpdateStatus, Labels
<1>5. CASE DecisionFails(u)
  <2>1. ReviewTyped' /\ pc[u] # "idle" /\ Goto(u, "return")
    BY <1>5, Deciding DEF DecisionFails, ReviewTyped, review
  <2>2. faults' \in 0..MaxFaults
    BY <1>5, Deciding, FaultCounted DEF DecisionFails
  <2> QED BY <1>5, <2>1, <2>2, CallKeeps DEF DecisionFails, Labels
<1> QED BY <1>1, <1>2, <1>3, <1>4, <1>5

LEMMA EnqueueKeeps ==
  ASSUME RInv, NEW u \in Users, Enqueue(u) PROVE RInv'
<1>1. user[u].trustee \in Trustees
  BY Deciding DEF Enqueue, Settled
<1>2. CallsTyped' /\ pc'[u] = "approve" /\ \A q \in Actors \ {u} : pc'[q] = pc[q]
  BY Deciding, Moves DEF Enqueue, Labels
<1>3. OutputTyped' /\ binding'[u] = {user[u].trustee} /\ \A q \in Actors \ {u} : binding'[q] = binding[q]
  BY <1>1, Deciding DEF Enqueue, OutputTyped
<1>4. DecisionMove(u)
  BY <1>2, <1>3, Deciding DEF DecisionMove, Enqueue, UsersTyped, QueueTyped, ReviewTyped, PastTyped, queues, review, history
<1>5. Settled(u)'
  BY <1>1, <1>2, <1>3 DEF Settled, Enqueue
<1> QED BY <1>4, <1>5, DecisionKeeps DEF Enqueue, queues

LEMMA ReturnKeeps ==
  ASSUME RInv, NEW u \in Users, Return(u) PROVE RInv'
<1>1. CallsTyped' /\ pc'[u] = "done" /\ \A q \in Actors \ {u} : pc'[q] = pc[q]
  BY Deciding, Moves DEF Return, Labels
<1>2. OutputTyped' /\ binding'[u] = {} /\ \A q \in Actors \ {u} : binding'[q] = binding[q]
  BY Deciding DEF Return, OutputTyped
<1>3. /\ QueueTyped'
      /\ \A m \in Messages : queue'[m] > 0 => queue[m] > 0 \/ m.trustee \in binding[u]
  <2>1. CASE UNCHANGED queue
    BY <2>1, Deciding DEF Return, QueueTyped
  <2>2. ASSUME NEW t \in binding[u], Send(NewMessage(t))
        PROVE  <1>3
    <3>1. t \in Trustees
      BY Deciding DEF Settled
    <3>2. /\ NewMessage(t) \in Messages /\ NewMessage(t).retries <= RetryLimit
          /\ NewMessage(t).dequeues < MaxDequeueCount /\ NewMessage(t).trustee = t
      BY <3>1, BoundAssumption DEF NewMessage, Messages
    <3>3. /\ queue' \in [Messages -> Nat]
          /\ \A k \in Messages : queue'[k] > 0 => k.retries <= RetryLimit
                                                  /\ k.dequeues < MaxDequeueCount
          /\ \A k \in Messages : queue'[k] > 0 => queue[k] > 0 \/ k = NewMessage(t)
      BY <2>2, <3>2, Deciding, SendTyped
    <3> QED BY <3>2, <3>3, Deciding DEF Return, QueueTyped
  <2> QED BY <2>1, <2>2 DEF Return
<1>4. due' \in [Cases -> Nat]
  BY DEF RInv, Typed, PastTyped, MarksTyped, Return
<1>5. DecisionMove(u)
  BY <1>1, <1>2, <1>3, <1>4, Deciding DEF DecisionMove, Return, UsersTyped, ReviewTyped, PastTyped, review
<1>6. Settled(u)'
  BY <1>1, <1>2 DEF Settled
<1> QED BY <1>3, <1>5, <1>6, DecisionKeeps

LEMMA DecisionStopsKeeps ==
  ASSUME RInv, NEW u \in Users, DecisionStops(u) PROVE RInv'
<1>1. CallsTyped' /\ pc'[u] = "done" /\ \A q \in Actors \ {u} : pc'[q] = pc[q]
  BY Deciding, Moves DEF DecisionStops, Labels
<1>2. OutputTyped' /\ binding'[u] = {} /\ \A q \in Actors \ {u} : binding'[q] = binding[q]
  BY Deciding DEF DecisionStops, OutputTyped
<1>3. faults' \in 0..MaxFaults
  BY Deciding, FaultCounted DEF DecisionStops
<1>4. DecisionMove(u)
  BY <1>1, <1>2, <1>3, Deciding DEF DecisionMove, DecisionStops, UsersTyped, QueueTyped, ReviewTyped, PastTyped, queues, review, history
<1>5. Settled(u)'
  BY <1>1, <1>2 DEF Settled
<1> QED BY <1>4, <1>5, DecisionKeeps DEF DecisionStops, queues

-----------------------------------------------------------------------------
(* The steps of a sync: it marks cases and makes rows, and removes neither. *)
SyncMove(s) ==
  /\ CallsTyped' /\ SyncsTyped'
  /\ \A p \in Actors \ {s} : pc'[p] = pc[p]
  /\ UNCHANGED <<queue, dead, binding, announced, user, remap>>

Processing(s) ==
  /\ s \in Actors /\ s \notin Users /\ s \notin Remaps
  /\ sync[s] \in SyncType /\ SyncCase(s) \in Cases /\ pc[s] \in Labels
  /\ CallsTyped /\ SyncsTyped /\ MarksTyped /\ RowsTyped /\ IdTyped /\ ReviewTyped /\ PastTyped

LEMMA AtProcessing ==
  ASSUME RInv, NEW s \in Syncs PROVE Processing(s)
<1>1. sync[s] \in SyncType
  BY DEF RInv, Typed, SyncsTyped
<1>2. s \in Actors /\ s \notin Users /\ s \notin Remaps
  BY ActorAssumption DEF Actors
<1> QED BY <1>1, <1>2 DEF RInv, Typed, CallsTyped, SyncType, SyncCase, Processing

LEMMA SyncSet ==
  ASSUME SyncsTyped, NEW s \in Syncs, NEW x \in SyncType, sync' = [sync EXCEPT ![s] = x]
  PROVE  SyncsTyped'
BY DEF SyncsTyped

LEMMA SyncKeeps ==
  ASSUME RInv, NEW s \in Syncs, SyncMove(s), MarksTyped', RowsTyped', IdTyped', ReviewTyped',
         PastTyped', RowsKept, OpenIsReal',
         \A c \in Cases : caseMark'[c] = 0 => caseMark[c] = 0,
         \A c \in marked' : c \in marked \/ caseMark'[c] # 0
  PROVE  RInv'
<1>1. Typed'
  BY DEF RInv, Typed, SyncMove, UsersTyped, RemapsTyped, QueueTyped, OutputTyped
<1>2. Chosen' = Chosen /\ UsersTyped /\ RemapsTyped /\ RemapsReady /\ s \notin Remaps
  BY ActorAssumption DEF RInv, Typed, SyncMove, Chosen
<1>3. RemapsReady'
  <2>1. \A q \in Remaps \ {s} : /\ remap'[q] = remap[q] /\ pc'[q] = pc[q]
                                 /\ binding'[q] = binding[q]
    BY DEF SyncMove, Actors
  <2> QED BY <1>2, <2>1, OthersReady
<1>4. UsersKnown'
  <2>1. \A u \in Users : pc'[u] = pc[u] /\ binding'[u] = binding[u]
    BY ActorAssumption DEF SyncMove, Actors
  <2> QED BY <2>1 DEF RInv, UsersKnown, Settled, SyncMove
<1>5. QueuedChosen'
  BY <1>2 DEF RInv, QueuedChosen, SyncMove
<1>6. NeverForgotten'
  <2> SUFFICES ASSUME NEW c \in marked', caseMark'[c] = 0
               PROVE  \E t \in Chosen : caseRow'[c][t].id # 0
    BY <1>2 DEF NeverForgotten
  <2>1. c \in Cases /\ c \in marked /\ caseMark[c] = 0
    BY DEF PastTyped
  <2>2. PICK t \in Chosen : caseRow[c][t].id # 0
    BY <2>1 DEF RInv, NeverForgotten
  <2> QED BY <2>1, <2>2, <1>2, ChosenTyped DEF RowsKept
<1> QED BY <1>1, <1>3, <1>4, <1>5, <1>6 DEF RInv

(* Steps that write nothing but the sync's own locals.                     *)
LEMMA ReadingKeeps ==
  ASSUME RInv, NEW s \in Syncs, SyncMove(s), UNCHANGED <<marks, rows, nextId, review, history, faults>>,
         deliveries' \in [Cases -> 0..MaxDeliveries],
         reported' \in [Cases -> FaultKinds \cup {"none", "started", "handled", "success"}]
  PROVE  RInv'
<1>1. MarksTyped' /\ RowsTyped' /\ IdTyped' /\ ReviewTyped' /\ PastTyped' /\ RowsKept /\ OpenIsReal'
  BY DEF RInv, Typed, MarksTyped, RowsTyped, IdTyped, ReviewTyped, PastTyped, RowsKept, OpenIsReal,
         marks, rows, review, history
<1> QED BY <1>1, SyncKeeps DEF marks, history

LEMMA Finished ==
  ASSUME RInv, NEW s \in Syncs,
         NEW result \in FaultKinds \cup {"none", "started", "handled", "success"}, Finish(s, result)
  PROVE  /\ CallsTyped' /\ SyncsTyped' /\ \A p \in Actors \ {s} : pc'[p] = pc[p]
         /\ reported' \in [Cases -> FaultKinds \cup {"none", "started", "handled", "success"}]
<1>1. SyncsTyped'
  BY AtProcessing, Constants, SyncSet DEF Processing, Finish
<1>2. CallsTyped' /\ \A p \in Actors \ {s} : pc'[p] = pc[p]
  BY AtProcessing, Moves DEF Processing, Finish, Labels
<1>3. reported' \in [Cases -> FaultKinds \cup {"none", "started", "handled", "success"}]
  BY AtProcessing DEF Processing, Finish, PastTyped
<1> QED BY <1>1, <1>2, <1>3

LEMMA TakeKeeps ==
  ASSUME RInv, NEW s \in Syncs, NEW c \in Cases, Take(s, c) PROVE RInv'
<1>1. PICK x : x = [sync[s] EXCEPT !.case = c]
  OBVIOUS
<1>2. x \in SyncType
  BY <1>1, AtProcessing DEF Processing, SyncType
<1>3. SyncsTyped'
  BY <1>1, <1>2, AtProcessing, SyncSet DEF Processing, Take
<1>4. CallsTyped' /\ \A p \in Actors \ {s} : pc'[p] = pc[p]
  BY AtProcessing, Moves DEF Processing, Take, Labels
<1>5. deliveries' \in [Cases -> 0..MaxDeliveries]
  BY AtProcessing, BoundAssumption DEF Processing, PastTyped, Take
<1>6. reported' \in [Cases -> FaultKinds \cup {"none", "started", "handled", "success"}]
  BY AtProcessing DEF Processing, PastTyped, Take
<1>7. SyncMove(s)
  BY <1>3, <1>4 DEF SyncMove, Take, queues, outputs
<1> QED BY <1>5, <1>6, <1>7, ReadingKeeps DEF Take

LEMMA ReadStepKeeps ==
  ASSUME RInv, NEW s \in Syncs,
         Lookup(s) \/ CheckPending(s) \/ Match(s) \/ ReadBucket(s) \/ ReadMark(s)
  PROVE  RInv'
<1>1. /\ deliveries \in [Cases -> 0..MaxDeliveries]
      /\ reported \in [Cases -> FaultKinds \cup {"none", "started", "handled", "success"}]
  BY AtProcessing DEF Processing, PastTyped
<1>2. ASSUME NEW label \in Labels, Goto(s, label)
      PROVE  CallsTyped' /\ \A p \in Actors \ {s} : pc'[p] = pc[p]
  BY <1>2, AtProcessing, Moves DEF Processing
<1>3. CASE Lookup(s)
  <2>1. PICK x : x = [sync[s] EXCEPT !.hit = variation]
    OBVIOUS
  <2>2. x \in SyncType
    BY <2>1, AtProcessing DEF Processing, SyncType, ReviewTyped
  <2>3. SyncsTyped'
    BY <1>3, <2>1, <2>2, AtProcessing, SyncSet DEF Processing, Lookup
  <2>4. SyncMove(s)
    BY <1>2, <1>3, <2>3 DEF SyncMove, Lookup, Labels, queues, outputs
  <2> QED BY <1>1, <1>3, <2>4, ReadingKeeps DEF Lookup, events
<1>4. CASE CheckPending(s) \/ Match(s)
  <2>1. SyncMove(s)
    BY <1>2, <1>4, AtProcessing DEF Processing, SyncMove, SyncsTyped, CheckPending, Match, Labels, queues, outputs
  <2> QED BY <1>1, <1>4, <2>1, ReadingKeeps DEF CheckPending, Match, events
<1>5. CASE ReadBucket(s)
  <2>1. PICK x : x = [sync[s] EXCEPT !.seen = verification]
    OBVIOUS
  <2>2. x \in SyncType
    BY <2>1, AtProcessing DEF Processing, SyncType, ReviewTyped
  <2>3. SyncsTyped'
    BY <1>5, <2>1, <2>2, AtProcessing, SyncSet DEF Processing, ReadBucket
  <2>4. SyncMove(s)
    BY <1>2, <1>5, <2>3 DEF SyncMove, ReadBucket, Labels, queues, outputs
  <2> QED BY <1>1, <1>5, <2>4, ReadingKeeps DEF ReadBucket, events
<1>6. CASE ReadMark(s)
  <2>1. CASE Finish(s, "handled")
    <3>1. SyncMove(s)
      BY <1>6, <2>1, Finished DEF SyncMove, ReadMark, queues, outputs
    <3> QED BY <1>1, <1>6, <2>1, <3>1, Finished, ReadingKeeps DEF ReadMark
  <2>2. CASE Goto(s, "markCase") /\ UNCHANGED <<reported, sync>>
    <3>1. SyncMove(s)
      BY <1>2, <1>6, <2>2, AtProcessing DEF Processing, SyncMove, SyncsTyped, ReadMark, Labels, queues, outputs
    <3> QED BY <1>1, <1>6, <2>2, <3>1, ReadingKeeps DEF ReadMark
  <2> QED BY <1>6, <2>1, <2>2 DEF ReadMark
<1> QED BY <1>3, <1>4, <1>5, <1>6

LEMMA SaveVerificationKeeps ==
  ASSUME RInv, NEW s \in Syncs, SaveVerification(s) PROVE RInv'
<1>1. nextId \in Nat \ {0} /\ nextId' = nextId + 1 /\ sync[s].seen \in Verifications
  BY AtProcessing DEF Processing, IdTyped, SyncType, SaveVerification
<1>2. ReviewTyped'
  BY <1>1, AtProcessing DEF Processing, ReviewTyped, SaveVerification, Verifications, Statuses
<1>3. CallsTyped' /\ \A p \in Actors \ {s} : pc'[p] = pc[p]
  BY AtProcessing, Moves DEF Processing, SaveVerification, Labels
<1>4. SyncMove(s)
  BY <1>3, AtProcessing DEF Processing, SyncMove, SyncsTyped, SaveVerification, queues, outputs
<1>5. MarksTyped' /\ RowsTyped' /\ IdTyped' /\ PastTyped' /\ RowsKept /\ OpenIsReal'
  BY <1>1, AtProcessing DEF Processing, RInv, MarksTyped, RowsTyped, IdTyped, PastTyped, RowsKept,
     OpenIsReal, SaveVerification, marks, rows, history, events
<1> QED BY <1>2, <1>4, <1>5, SyncKeeps DEF SaveVerification, marks, history

LEMMA MarkCaseKeeps ==
  ASSUME RInv, NEW s \in Syncs, MarkCase(s) PROVE RInv'
<1>1. nextId \in Nat \ {0} /\ nextId' = nextId + 1 /\ SyncCase(s) \in Cases
  BY AtProcessing DEF Processing, IdTyped, MarkCase
<1>2. PICK x : x = [sync[s] EXCEPT !.newId = nextId]
  OBVIOUS
<1>3. x \in SyncType
  BY <1>1, <1>2, AtProcessing DEF Processing, SyncType
<1>4. SyncsTyped'
  BY <1>2, <1>3, AtProcessing, SyncSet DEF Processing, MarkCase
<1>5. CallsTyped' /\ \A p \in Actors \ {s} : pc'[p] = pc[p]
  BY AtProcessing, Moves DEF Processing, MarkCase, Labels
<1>6. SyncMove(s)
  BY <1>4, <1>5 DEF SyncMove, MarkCase, queues, outputs
<1>7. \A c \in Cases : caseMark'[c] = IF c = SyncCase(s) THEN nextId ELSE caseMark[c]
  BY <1>1, AtProcessing DEF Processing, MarksTyped, MarkCase
<1>8. MarksTyped' /\ IdTyped'
  BY <1>1, AtProcessing DEF Processing, MarksTyped, IdTyped, MarkCase
<1>9. RowsTyped' /\ ReviewTyped' /\ PastTyped' /\ RowsKept /\ OpenIsReal'
  BY <1>1, AtProcessing DEF Processing, RInv, RowsTyped, ReviewTyped, PastTyped, RowsKept,
     OpenIsReal, MarkCase, rows, review, events
<1> QED BY <1>1, <1>6, <1>7, <1>8, <1>9, SyncKeeps DEF MarkCase

LEMMA MarkListKeeps ==
  ASSUME RInv, NEW s \in Syncs, MarkList(s) PROVE RInv'
<1>1. Finish(s, "handled")
  BY DEF MarkList
<1>2. SyncMove(s)
  BY <1>1, Finished DEF SyncMove, MarkList, queues, outputs
<1>3. MarksTyped'
  BY AtProcessing DEF Processing, MarksTyped, SyncType, MarkList
<1>4. PastTyped'
  BY <1>1, Finished, AtProcessing DEF Processing, PastTyped, MarkList, history
<1>5. RowsTyped' /\ IdTyped' /\ ReviewTyped' /\ RowsKept /\ OpenIsReal'
  BY AtProcessing DEF Processing, RInv, RowsTyped, IdTyped, ReviewTyped, RowsKept,
     OpenIsReal, MarkList, rows, review
<1> QED BY <1>2, <1>3, <1>4, <1>5, SyncKeeps DEF MarkList, history

LEMMA LinkedTyped ==
  ASSUME NEW copies \in [Trustees -> Row], NEW t \in Trustees, nextId \in Nat \ {0}
  PROVE  /\ Linked(copies, t) \in [Trustees -> Row]
         /\ \A k \in Trustees : Linked(copies, t)[k].id = IF k = t THEN nextId ELSE copies[k].id
         /\ \A k \in Trustees : Linked(copies, t)[k].open => k = t
<1>1. ASSUME NEW k \in Trustees
      PROVE  /\ Linked(copies, t)[k] \in Row
             /\ Linked(copies, t)[k].id = IF k = t THEN nextId ELSE copies[k].id
             /\ Linked(copies, t)[k].open => k = t
  <2>1. Linked(copies, t)[k] = IF k = t THEN [id |-> nextId, open |-> TRUE]
                               ELSE [copies[k] EXCEPT !.open = FALSE]
    BY DEF Linked
  <2>2. PICK row : row = copies[k]
    OBVIOUS
  <2>3. row \in Row
    BY <2>2
  <2>4. PICK closed : closed = [row EXCEPT !.open = FALSE]
    OBVIOUS
  <2>5. closed \in Row /\ closed.id = row.id /\ closed.open = FALSE
    BY <2>3, <2>4 DEF Row
  <2>6. PICK new : new = [id |-> nextId, open |-> TRUE]
    OBVIOUS
  <2>7. new \in Row /\ new.id = nextId
    BY <2>6 DEF Row
  <2>8. Linked(copies, t)[k] = IF k = t THEN new ELSE closed
    BY <2>1, <2>2, <2>4, <2>6
  <2> QED BY <2>2, <2>5, <2>7, <2>8
<1>2. Linked(copies, t) \in [Trustees -> Row]
  BY <1>1 DEF Linked
<1> QED BY <1>1, <1>2

LEMMA LinkKeeps ==
  ASSUME RInv, NEW s \in Syncs, Link(s) PROVE RInv'
<1>1. PICK c \in Cases : c = SyncCase(s)
  BY AtProcessing DEF Processing
<1>2. PICK t \in Trustees :
        /\ caseRow' = [caseRow EXCEPT ![c] = Linked(caseRow[c], t)]
        /\ listRow' = [listRow EXCEPT ![c] = Linked(listRow[c], t)]
        /\ variation' = IF variation = NoTrustee THEN t ELSE variation
  BY <1>1, AtProcessing DEF Processing, SyncType, Link
<1>3. nextId \in Nat \ {0} /\ nextId' = nextId + 1
  BY AtProcessing DEF Processing, IdTyped, Link
<1>4. caseRow[c] \in [Trustees -> Row] /\ listRow[c] \in [Trustees -> Row]
  BY AtProcessing DEF Processing, RowsTyped, RowTables
<1>5. RowsTyped'
  BY <1>2, <1>3, <1>4, LinkedTyped, AtProcessing DEF Processing, RowsTyped, RowTables
<1>6. \A d \in Cases : caseRow'[d] = IF d = c THEN Linked(caseRow[c], t) ELSE caseRow[d]
  BY <1>2, AtProcessing DEF Processing, RowsTyped, RowTables
<1>7. RowsKept /\ OpenIsReal'
  <2>1. \A k \in Trustees : /\ Linked(caseRow[c], t)[k].id = IF k = t THEN nextId ELSE caseRow[c][k].id
                            /\ Linked(caseRow[c], t)[k].open => k = t
    BY <1>3, <1>4, LinkedTyped
  <2> QED BY <1>3, <1>6, <2>1 DEF RInv, RowsKept, OpenIsReal
<1>8. Finish(s, "success")
  BY DEF Link
<1>9. SyncMove(s)
  BY <1>8, Finished DEF SyncMove, Link, queues, outputs
<1>10. PastTyped'
  BY <1>8, Finished, AtProcessing DEF Processing, PastTyped, Link, history
<1>11. MarksTyped' /\ IdTyped' /\ ReviewTyped'
  BY <1>2, <1>3, AtProcessing DEF Processing, MarksTyped, IdTyped, ReviewTyped, Link, marks
<1> QED BY <1>5, <1>7, <1>9, <1>10, <1>11, SyncKeeps DEF Link, marks, history

LEMMA SyncFailsKeeps ==
  ASSUME RInv, NEW s \in Syncs, SyncFails(s) PROVE RInv'
<1>1. PICK kind \in FaultKinds : Fault(kind) /\ Finish(s, kind)
  BY DEF SyncFails
<1>2. SyncMove(s)
  BY <1>1, Finished DEF SyncMove, SyncFails, queues, outputs
<1>3. PastTyped'
  BY <1>1, Finished, FaultCounted, AtProcessing DEF Processing, PastTyped, SyncFails, history
<1>4. MarksTyped' /\ RowsTyped' /\ IdTyped' /\ ReviewTyped' /\ RowsKept /\ OpenIsReal'
  BY AtProcessing DEF Processing, RInv, MarksTyped, RowsTyped, IdTyped, ReviewTyped, RowsKept,
     OpenIsReal, SyncFails, marks, rows, review
<1> QED BY <1>2, <1>3, <1>4, SyncKeeps DEF SyncFails, marks, history

-----------------------------------------------------------------------------
LEMMA InitRemap == Init => RInv
<1> SUFFICES ASSUME Init PROVE RInv
  OBVIOUS
<1>1. EarlierRow \in [Trustees -> Row] /\ \A t \in Trustees : EarlierRow[t].open => EarlierRow[t].id # 0
  BY DEF EarlierRow, Row, NoRow
<1>2. CallsTyped /\ UsersTyped /\ OutputTyped
  BY DEF Init, CallsTyped, Labels, UsersTyped, OutputTyped
<1>3. SyncsTyped /\ RemapsTyped
  BY Constants DEF Init, SyncsTyped, RemapsTyped
<1>4. MarksTyped /\ RowsTyped /\ IdTyped
  BY <1>1 DEF Init, MarksTyped, RowsTyped, RowTables, IdTyped
<1>5. ReviewTyped /\ QueueTyped
  BY DEF Init, ReviewTyped, NoVerification, Verifications, Statuses, QueueTyped
<1>6. PastTyped
  BY BoundAssumption DEF Init, PastTyped
<1>7. UsersKnown
  BY DEF Init, UsersKnown, Settled, Actors
<1>8. RemapsReady
  BY DEF Init, RemapsReady, Ready, Actors
<1>9. QueuedChosen /\ OpenIsReal /\ NeverForgotten
  BY <1>1 DEF Init, QueuedChosen, OpenIsReal, NeverForgotten
<1> QED BY <1>2, <1>3, <1>4, <1>5, <1>6, <1>7, <1>8, <1>9 DEF RInv, Typed

LEMMA StepRemap == RInv /\ [Next]_vars => RInv'
<1> SUFFICES ASSUME RInv, [Next]_vars PROVE RInv'
  OBVIOUS
<1>1. ASSUME NEW u \in Users, NEW t \in Trustees, Approve(u, t) PROVE RInv'
  BY <1>1, ApproveKeeps
<1>2. ASSUME NEW u \in Users,
             Reject(u) \/ DecisionStep(u) \/ DecisionFails(u) \/ DecisionStops(u)
      PROVE  RInv'
  BY <1>2, RejectKeeps, DecisionCallKeeps, EnqueueKeeps, ReturnKeeps, DecisionStopsKeeps DEF DecisionStep
<1>3. ASSUME NEW s \in Syncs, NEW c \in Cases, Take(s, c) PROVE RInv'
  BY <1>3, TakeKeeps
<1>4. ASSUME NEW s \in Syncs, SyncStep(s) \/ SyncFails(s) PROVE RInv'
  BY <1>4, ReadStepKeeps, SaveVerificationKeeps, MarkCaseKeeps, MarkListKeeps, LinkKeeps,
     SyncFailsKeeps DEF SyncStep
<1>5. ASSUME NEW r \in Remaps, RemapStep(r) PROVE RInv'
  BY <1>5, ReceiveKeeps, ListMarksKeeps, ReadActiveKeeps, CloseCaseKeeps, CloseListKeeps,
     CreateCaseKeeps, CreateListKeeps, DeleteCaseKeeps, DeleteListKeeps, NotifyKeeps,
     ContinueKeeps, CompleteKeeps DEF RemapStep
<1>6. ASSUME NEW r \in Remaps, RetryPage(r) \/ CaseFails(r) \/ PageFails(r) PROVE RInv'
  BY <1>6, RetryPageKeeps, CaseFailsKeeps, PageFailsKeeps
<1>7. CASE UNCHANGED vars
  <2>1. Typed'
    BY <1>7 DEF RInv, Typed, vars, marks, rows, review, queues, outputs, events, history, CallsTyped,
       UsersTyped, SyncsTyped, RemapsTyped, MarksTyped, RowsTyped, IdTyped, ReviewTyped, QueueTyped,
       OutputTyped, PastTyped
  <2>2. UsersKnown' /\ RemapsReady' /\ QueuedChosen' /\ OpenIsReal' /\ NeverForgotten'
    BY <1>7 DEF RInv, vars, marks, rows, queues, outputs, history, UsersKnown, Settled, RemapsReady,
       Ready, Resolved, At, QueuedChosen, OpenIsReal, NeverForgotten, Chosen
  <2> QED BY <2>1, <2>2 DEF RInv
<1> QED BY <1>1, <1>2, <1>3, <1>4, <1>5, <1>6, <1>7 DEF Next

LEMMA AlwaysRemap == Spec => []RInv
BY InitRemap, StepRemap, PTL DEF Spec

(* No variable leaves its type; a message is neither sent nor taken beyond *)
(* its limits.                                                             *)
THEOREM RemapTypes == Spec => []TypeOK
<1>1. RInv => TypeOK
  BY DEF RInv, Typed, TypeOK, CallsTyped, UsersTyped, SyncsTyped, SyncType, RemapsTyped, RemapType,
     MarksTyped, RowsTyped, RowTables, IdTyped, ReviewTyped, QueueTyped, OutputTyped, PastTyped
<1> QED BY <1>1, AlwaysRemap, PTL

(* Whatever the syncs, the decisions and the remaps do at once, and        *)
(* whichever of their calls fails or host stops, a case that was marked    *)
(* has its mark or a row of a trustee somebody chose.                      *)
THEOREM MarksAreReplaced == Spec => []NeverForgotten
<1>1. RInv => NeverForgotten
  BY DEF RInv
<1> QED BY <1>1, AlwaysRemap, PTL

-----------------------------------------------------------------------------
(* What carries the remap of an approval: a request that is still running, *)
(* or a message that was sent.  Only a host that stops takes one away.     *)
Carried == sent \cup UNION {binding[u] : u \in Users}

LEMMA CarriedOn ==
  ASSUME RInv, [Next]_vars, "crash" \notin Faults
  PROVE  Carried \subseteq Carried'
<1>1. ASSUME NEW u \in Users, NEW u2 \in Users,
             (\E t \in Trustees : Approve(u2, t)) \/ Reject(u2) \/ DecisionStep(u2) \/ DecisionFails(u2)
      PROVE  binding[u] \subseteq sent' \cup binding'[u] /\ sent \subseteq sent'
  <2>1. u \in Actors /\ Settled(u) /\ OutputTyped
    BY Deciding
  <2> QED BY <1>1, <2>1 DEF Settled, Approve, Reject, DecisionStep, DecisionFails, ReadVariation,
       CreateVariation, Enqueue, MarkApproved, MarkRejected, UpdateStatus, Return, OutputTyped, outputs, history
<1>2. \A u \in Users : ~DecisionStops(u)
  BY DEF DecisionStops, Fault
<1>3. ASSUME NEW s \in Syncs, (\E c \in Cases : Take(s, c)) \/ SyncStep(s) \/ SyncFails(s)
      PROVE  UNCHANGED <<binding, sent>>
  BY <1>3 DEF Take, SyncStep, SyncFails, Lookup, CheckPending, Match, ReadBucket, SaveVerification,
     ReadMark, MarkCase, MarkList, Link, outputs, history
<1>4. ASSUME NEW r \in Remaps, RemapStep(r) \/ RetryPage(r) \/ CaseFails(r) \/ PageFails(r)
      PROVE  sent' = sent /\ \A u \in Users : binding'[u] = binding[u]
  <2>1. \A u \in Users : u \in Actors /\ u # r
    BY ActorAssumption DEF Actors
  <2> QED BY <1>4, <2>1, AtWork DEF OutputTyped, RemapStep, RetryPage, CaseFails, PageFails, Receive,
       ListMarks, ReadActive, CloseCase, CloseList, CreateCase, CreateList, DeleteCase, DeleteList,
       Notify, Continue, Complete, PassOver, outputs, history
<1>5. CASE UNCHANGED vars
  BY <1>5 DEF vars, outputs, history, Carried
<1>6. sent \subseteq sent' /\ \A u \in Users : binding[u] \subseteq sent' \cup binding'[u]
  BY <1>1, <1>2, <1>3, <1>4, <1>5 DEF Next, vars, outputs, history
<1> QED BY <1>6 DEF Carried

LEMMA ApprovedStep ==
  ASSUME RInv, ApprovedIsQueued, [Next]_vars, "crash" \notin Faults
  PROVE  ApprovedIsQueued'
<1>1. Carried \subseteq Carried'
  BY CarriedOn
<1>2. \/ verification' = verification
      \/ verification'.status \in {"pending", "rejected"}
      \/ verification'.trustee \in Carried'
  <2>1. ASSUME NEW u \in Users, MarkApproved(u)
        PROVE  verification' = verification \/ verification'.trustee \in Carried'
    <3>1. binding[u] = {user[u].trustee} /\ verification \in Verifications
      BY <2>1, Deciding DEF Settled, MarkApproved, UpdateStatus, ReviewTyped
    <3>2. user[u].trustee \in Carried
      BY <3>1 DEF Carried
    <3>3. verification' = verification \/ verification'.trustee = user[u].trustee
      BY <2>1, <3>1 DEF MarkApproved, UpdateStatus, Verifications
    <3> QED BY <1>1, <3>2, <3>3
  <2>2. ASSUME NEW u \in Users, MarkRejected(u)
        PROVE  verification' = verification \/ verification'.status = "rejected"
    <3>1. verification \in Verifications
      BY Deciding DEF ReviewTyped
    <3> QED BY <2>2, <3>1 DEF MarkRejected, UpdateStatus, Verifications
  <2>3. ASSUME NEW s \in Syncs, SaveVerification(s)
        PROVE  verification'.status = "pending"
    BY <2>3 DEF SaveVerification
  <2>4. ASSUME NEW u \in Users,
               \/ \E t \in Trustees : Approve(u, t)
               \/ Reject(u) \/ ReadVariation(u) \/ CreateVariation(u) \/ Enqueue(u) \/ Return(u)
               \/ DecisionFails(u) \/ DecisionStops(u)
        PROVE  verification' = verification
    BY <2>4 DEF Approve, Reject, ReadVariation, CreateVariation, Enqueue, Return, DecisionFails,
       DecisionStops, review
  <2>5. ASSUME NEW s \in Syncs,
               \/ \E c \in Cases : Take(s, c)
               \/ Lookup(s) \/ CheckPending(s) \/ Match(s) \/ ReadBucket(s) \/ ReadMark(s)
               \/ MarkCase(s) \/ MarkList(s) \/ Link(s) \/ SyncFails(s)
        PROVE  verification' = verification
    BY <2>5 DEF Take, Lookup, CheckPending, Match, ReadBucket, ReadMark, MarkCase, MarkList, Link,
       SyncFails, review
  <2>6. ASSUME NEW r \in Remaps, RemapStep(r) \/ RetryPage(r) \/ CaseFails(r) \/ PageFails(r)
        PROVE  verification' = verification
    BY <2>6 DEF RemapStep, RetryPage, CaseFails, PageFails, Receive, ListMarks, ReadActive, CloseCase,
       CloseList, CreateCase, CreateList, DeleteCase, DeleteList, Notify, Continue, Complete, review
  <2>7. CASE UNCHANGED vars
    BY <2>7 DEF vars, review
  <2> QED BY <2>1, <2>2, <2>3, <2>4, <2>5, <2>6, <2>7 DEF Next, DecisionStep, SyncStep
<1>3. ApprovedIsQueued <=> (verification.status = "approved" => verification.trustee \in Carried)
  BY DEF ApprovedIsQueued, Carried
<1>4. ApprovedIsQueued' <=> (verification'.status = "approved" => verification'.trustee \in Carried')
  BY DEF ApprovedIsQueued, Carried
<1> QED BY <1>1, <1>2, <1>3, <1>4

(* Unless a host stops, an approved verification has the message that      *)
(* carries its trustee on a binding or sent: an approval that loses a race *)
(* or fails half-way leaves none without its remap.                        *)
THEOREM ApprovalsAreQueued ==
  ASSUME "crash" \notin Faults PROVE Spec => []ApprovedIsQueued
<1>1. Init => ApprovedIsQueued
  BY DEF Init, NoVerification, ApprovedIsQueued
<1>2. RInv /\ ApprovedIsQueued /\ [Next]_vars => ApprovedIsQueued'
  BY ApprovedStep
<1> QED BY <1>1, <1>2, AlwaysRemap, PTL DEF Spec

-----------------------------------------------------------------------------
(* No mark is skipped.  An id is used for one mark: what a sync is about   *)
(* to write to the trustee partition is not the mark a page read there.    *)
PendingIds == {sync[s].newId : s \in {q \in Syncs : pc[q] = "markList"}}
ReadIds(r) == {mark.id : mark \in remap[r].todo \cup {remap[r].at}}
KnownIds   == {listMark[c] : c \in Cases} \cup {due[c] : c \in Cases}
                \cup UNION {ReadIds(r) : r \in Remaps}

IdsFresh ==
  /\ \A id \in PendingIds \cup KnownIds : id < nextId
  /\ PendingIds \cap (KnownIds \cup {0}) = {}
  /\ \A s, q \in Syncs : pc[s] = "markList" /\ pc[q] = "markList" /\ s # q =>
       sync[s].newId # sync[q].newId

(* A page works on marks it read, and a mark it removed does not return.   *)
ReadWell(r) ==
  /\ \A mark \in remap[r].todo : mark.id # 0
  /\ pc[r] \in CaseCalls \ {"active"} => remap[r].at.id # 0
  /\ pc[r] = "notify" => listMark[At(r)] # remap[r].at.id

MarksRead == \A r \in Remaps : ReadWell(r)

(* A listed mark that is due is in a queue, in a dead letter, or before a  *)
(* page that has it to do or will send its message on.                     *)
Carrying(r, c) ==
  \/ pc[r] = "list"
  \/ pc[r] \in CaseCalls /\ [case |-> c, id |-> due[c]] \in remap[r].todo
  \/ pc[r] \in CaseCalls \cup {"continue"} /\ remap[r].more

SomeMessage == dead # {} \/ \E m \in Messages : queue[m] > 0

DueIsCarried ==
  \A c \in Cases : due[c] # 0 /\ listMark[c] = due[c] /\ c \notin failed =>
    SomeMessage \/ \E r \in Remaps : Carrying(r, c)

KInv == RInv /\ IdsFresh /\ MarksRead /\ DueIsCarried

LEMMA FreshKept ==
  ASSUME KInv, nextId' \in Nat, nextId' >= nextId, KnownIds' \subseteq KnownIds \cup {0},
         \A s \in Syncs : pc'[s] = "markList" => pc[s] = "markList" /\ sync'[s].newId = sync[s].newId
  PROVE  IdsFresh'
<1>1. nextId \in Nat \ {0} /\ nextId' \in Nat \ {0}
  BY DEF KInv, RInv, Typed, IdTyped
<1>2. PendingIds' \subseteq PendingIds
  BY DEF PendingIds
<1>3. \A id \in PendingIds \cup KnownIds : id \in Nat
  <2>1. \A r \in Remaps : remap[r] \in RemapType
    BY DEF KInv, RInv, Typed, RemapsTyped
  <2>2. \A r \in Remaps : ReadIds(r) \subseteq Nat
    BY <2>1 DEF ReadIds, RemapType, Marks
  <2>3. PendingIds \subseteq Nat
    BY DEF PendingIds, KInv, RInv, Typed, SyncsTyped, SyncType
  <2> QED BY <2>2, <2>3 DEF KnownIds, KInv, RInv, Typed, MarksTyped, PastTyped
<1>4. \A id \in PendingIds' \cup KnownIds' : id < nextId'
  <2> SUFFICES ASSUME NEW id \in PendingIds \cup KnownIds \cup {0} PROVE id < nextId'
    BY <1>2
  <2>1. id \in Nat /\ (id = 0 \/ id < nextId)
    BY <1>3 DEF KInv, IdsFresh
  <2> QED BY <1>1, <2>1
<1>5. PendingIds' \cap (KnownIds' \cup {0}) = {}
  BY <1>2 DEF KInv, IdsFresh
<1> QED BY <1>4, <1>5 DEF KInv, IdsFresh

LEMMA RemapCarries ==
  ASSUME KInv, NEW r \in Remaps, RemapMove(r), UNCHANGED due, failed \subseteq failed',
         nextId' \in Nat, nextId' >= nextId,
         \A c \in Cases : listMark'[c] \in {listMark[c], 0},
         ReadIds(r)' \subseteq KnownIds \cup {0}, ReadWell(r)',
         \A c \in Cases :
           due[c] # 0 /\ listMark[c] = due[c] /\ listMark'[c] = due[c] /\ c \notin failed'
             /\ (SomeMessage \/ Carrying(r, c)) => SomeMessage' \/ Carrying(r, c)'
  PROVE  IdsFresh' /\ MarksRead' /\ DueIsCarried'
<1>1. \A q \in Remaps \ {r} : /\ remap'[q] = remap[q] /\ pc'[q] = pc[q] /\ At(q)' = At(q)
                              /\ ReadIds(q)' = ReadIds(q)
  BY DEF RemapMove, Actors, At, ReadIds
<1>2. KnownIds' \subseteq KnownIds \cup {0}
  BY <1>1 DEF KnownIds
<1>3. \A s \in Syncs : pc'[s] = pc[s] /\ sync'[s] = sync[s]
  BY ActorAssumption DEF RemapMove, Actors
<1>4. IdsFresh'
  BY <1>2, <1>3, FreshKept
<1>5. MarksRead'
  <2> SUFFICES ASSUME NEW q \in Remaps, q # r PROVE ReadWell(q)'
    BY DEF MarksRead
  <2>1. ReadWell(q) /\ At(q) \in Cases
    BY AtWork DEF KInv, MarksRead
  <2> QED BY <1>1, <2>1 DEF ReadWell, CaseCalls
<1>6. DueIsCarried'
  <2> SUFFICES ASSUME NEW c \in Cases, due[c] # 0, listMark'[c] = due[c], c \notin failed'
               PROVE  SomeMessage' \/ \E q \in Remaps : Carrying(q, c)'
    BY DEF DueIsCarried
  <2>1. listMark[c] = due[c] /\ c \notin failed
    OBVIOUS
  <2>2. SomeMessage \/ \E q \in Remaps : Carrying(q, c)
    BY <2>1 DEF KInv, DueIsCarried
  <2>3. CASE SomeMessage \/ Carrying(r, c)
    BY <2>1, <2>3
  <2>4. ASSUME NEW q \in Remaps, q # r, Carrying(q, c) PROVE Carrying(q, c)'
    BY <1>1, <2>4 DEF Carrying
  <2> QED BY <2>2, <2>3, <2>4
<1> QED BY <1>4, <1>5, <1>6

(* Before the page's step: its marks have known ids.                       *)
LEMMA AtReading ==
  ASSUME KInv, NEW r \in Remaps
  PROVE  /\ RInv /\ ReadWell(r) /\ ReadIds(r) \subseteq KnownIds
         /\ remap[r].at.id \in KnownIds /\ nextId \in Nat \ {0}
         /\ \A mark \in remap[r].todo : mark.id \in KnownIds
BY DEF KInv, RInv, Typed, IdTyped, MarksRead, KnownIds, ReadIds

LEMMA AdvanceFields ==
  ASSUME RInv, NEW r \in Remaps, NEW mark, Advance(r, mark)
  PROVE  /\ remap'[r].todo = remap[r].todo \ {mark} /\ remap'[r].at = remap[r].at
         /\ remap'[r].more = remap[r].more
         /\ pc'[r] = IF remap[r].todo \ {mark} # {} THEN "active" ELSE "continue"
<1>1. PICK P : P = remap[r].todo \ {mark}
  OBVIOUS
<1>2. PICK x : x = [remap[r] EXCEPT !.todo = P]
  OBVIOUS
<1>3. x.todo = P /\ x.at = remap[r].at /\ x.more = remap[r].more
  BY <1>2, AtWork DEF RemapType
<1>4. remap'[r] = x
  BY <1>1, <1>2, AtWork DEF Advance, RemapsTyped
<1>5. pc'[r] = IF remap[r].todo \ {mark} # {} THEN "active" ELSE "continue"
  BY AtWork DEF Advance, Goto, CallsTyped
<1> QED BY <1>1, <1>3, <1>4, <1>5

(* A page advances past a mark that is gone, or whose case is logged.      *)
LEMMA AdvanceCarries ==
  ASSUME KInv, NEW r \in Remaps, NEW mark \in Marks, Advance(r, mark), RemapMove(r), UNCHANGED <<due, queue, dead>>,
         failed \subseteq failed', UNCHANGED <<listMark, nextId>>, pc[r] \in CaseCalls,
         mark.case \in failed' \/ listMark[mark.case] # mark.id
  PROVE  IdsFresh' /\ MarksRead' /\ DueIsCarried'
<1>1. /\ remap'[r].todo = remap[r].todo \ {mark} /\ remap'[r].at = remap[r].at
      /\ remap'[r].more = remap[r].more
      /\ pc'[r] = IF remap[r].todo \ {mark} # {} THEN "active" ELSE "continue"
  BY AtReading, AdvanceFields
<1>2. ReadIds(r)' \subseteq KnownIds
  BY <1>1, AtReading DEF ReadIds
<1>3. ReadWell(r)'
  BY <1>1, AtReading DEF ReadWell, CaseCalls
<1>4. ASSUME NEW c \in Cases, due[c] # 0, listMark[c] = due[c], c \notin failed',
             SomeMessage \/ Carrying(r, c)
      PROVE  SomeMessage' \/ Carrying(r, c)'
  <2>1. CASE SomeMessage
    BY <2>1 DEF SomeMessage
  <2>2. CASE Carrying(r, c)
    <3>1. [case |-> c, id |-> due[c]] # mark
      BY <1>4
    <3> QED BY <1>1, <2>2, <3>1 DEF Carrying, CaseCalls
  <2> QED BY <1>4, <2>1, <2>2
<1> QED BY <1>2, <1>3, <1>4, AtReading, RemapCarries

(* A page's step that keeps its marks and calls on.                        *)
LEMMA CallCarries ==
  ASSUME KInv, NEW r \in Remaps, RemapMove(r), UNCHANGED <<due, queue, dead, failed>>,
         nextId' \in {nextId, nextId + 1}, pc[r] \in CaseCalls, pc'[r] \in CaseCalls,
         remap'[r].todo = remap[r].todo, remap'[r].more = remap[r].more,
         remap'[r].at \in remap[r].todo \cup {remap[r].at}, remap'[r].at.id # 0,
         \/ listMark' = listMark /\ pc'[r] # "notify"
         \/ listMark' = [listMark EXCEPT ![remap[r].at.case] = 0] /\ remap'[r].at = remap[r].at
  PROVE  IdsFresh' /\ MarksRead' /\ DueIsCarried'
<1>1. ReadIds(r)' \subseteq KnownIds
  BY AtReading DEF ReadIds
<1>2. ReadWell(r)'
  BY AtReading, AtWork DEF ReadWell, At, MarksTyped
<1>3. \A c \in Cases : listMark'[c] \in {listMark[c], 0}
  BY AtReading, AtWork DEF MarksTyped
<1>4. ASSUME NEW c \in Cases, SomeMessage \/ Carrying(r, c)
      PROVE  SomeMessage' \/ Carrying(r, c)'
  BY <1>4 DEF SomeMessage, Carrying, CaseCalls
<1>5. nextId' \in Nat /\ nextId' >= nextId
  BY AtReading
<1> QED BY <1>1, <1>2, <1>3, <1>4, <1>5, RemapCarries

(* What RemapMove asks of the steps that RInv was proved for.              *)
LEMMA PageMoves ==
  ASSUME KInv, NEW r \in Remaps, RemapStep(r) \/ RetryPage(r) \/ CaseFails(r) \/ PageFails(r)
  PROVE  RInv' /\ RemapMove(r)
<1>1. RInv
  BY DEF KInv
<1>2. RInv'
  BY <1>1, ReceiveKeeps, ListMarksKeeps, ReadActiveKeeps, CloseCaseKeeps, CloseListKeeps,
     CreateCaseKeeps, CreateListKeeps, DeleteCaseKeeps, DeleteListKeeps, NotifyKeeps,
     ContinueKeeps, CompleteKeeps, RetryPageKeeps, CaseFailsKeeps, PageFailsKeeps DEF RemapStep
<1>3. CallsTyped' /\ RemapsTyped' /\ OutputTyped'
  BY <1>2 DEF RInv, Typed
<1>4. UNCHANGED <<user, sync, verification, variation, deliveries, reported, marked>>
  BY DEF RemapStep, RetryPage, CaseFails, PageFails, Receive, ListMarks, ReadActive, CloseCase,
     CloseList, CreateCase, CreateList, DeleteCase, DeleteList, Notify, Continue, Complete, PassOver,
     review, events, history
<1>5. \A p \in Actors \ {r} : pc'[p] = pc[p]
  BY <1>1, AtWork DEF CallsTyped, RemapStep, RetryPage, CaseFails, PageFails, Receive, ListMarks, ReadActive,
     CloseCase, CloseList, CreateCase, CreateList, DeleteCase, DeleteList, Notify, Continue, Complete,
     PassOver, Advance, Goto
<1>6. \A p \in Actors \ {r} : binding'[p] = binding[p]
  BY <1>1, AtWork DEF OutputTyped, RemapStep, RetryPage, CaseFails, PageFails, Receive, ListMarks, ReadActive,
     CloseCase, CloseList, CreateCase, CreateList, DeleteCase, DeleteList, Notify, Continue, Complete, outputs
<1>7. \A q \in Remaps \ {r} : remap'[q] = remap[q]
  BY <1>1, AtWork DEF RemapsTyped, RemapStep, RetryPage, CaseFails, PageFails, Receive, ListMarks, ReadActive,
     CloseCase, CloseList, CreateCase, CreateList, DeleteCase, DeleteList, Notify, Continue, Complete,
     PassOver, Advance
<1> QED BY <1>2, <1>3, <1>4, <1>5, <1>6, <1>7 DEF RemapMove

Kept == IdsFresh' /\ MarksRead' /\ DueIsCarried'

LEMMA ReceiveCarries ==
  ASSUME KInv, NEW r \in Remaps, Receive(r) PROVE Kept
<1>1. PICK m \in Messages : remap' = [remap EXCEPT ![r].message = m]
  BY DEF Receive
<1>2. PICK x : x = [remap[r] EXCEPT !.message = m]
  OBVIOUS
<1>3. x.todo = remap[r].todo /\ x.at = remap[r].at
  BY <1>2, AtReading, AtWork DEF RemapType
<1>4. remap'[r] = x
  BY <1>1, <1>2, AtReading, AtWork DEF RemapsTyped
<1>5. pc'[r] = "list"
  BY AtReading, AtWork, Moves DEF Receive, Labels
<1>6. ReadIds(r)' \subseteq KnownIds /\ ReadWell(r)'
  BY <1>3, <1>4, <1>5, AtReading DEF ReadIds, ReadWell, CaseCalls
<1>7. \A c \in Cases : Carrying(r, c)'
  BY <1>5 DEF Carrying
<1>8. UNCHANGED <<due, failed, nextId, listMark>>
  BY DEF Receive, history, marks
<1> QED BY <1>6, <1>7, <1>8, AtReading, PageMoves, RemapCarries DEF Kept, RemapStep

LEMMA ListMarksCarries ==
  ASSUME KInv, NEW r \in Remaps, ListMarks(r) PROVE Kept
<1>1. PICK P \in Pages : remap' = [remap EXCEPT ![r].todo = P, ![r].more = (P # Listed)]
  BY DEF ListMarks
<1>2. PICK x : x = [remap[r] EXCEPT !.todo = P, !.more = (P # Listed)]
  OBVIOUS
<1>3. x.todo = P /\ x.more = (P # Listed) /\ x.at = remap[r].at
  BY <1>2, AtReading, AtWork DEF RemapType
<1>4. remap'[r] = x
  BY <1>1, <1>2, AtReading, AtWork DEF RemapsTyped
<1>5. pc'[r] = IF Listed = {} THEN "complete" ELSE "active"
  BY AtReading, AtWork DEF ListMarks, Goto, CallsTyped
<1>6. \A mark \in P : mark.id # 0 /\ mark.id \in KnownIds
  BY <1>1 DEF Pages, Listed, KnownIds
<1>7. ReadIds(r)' \subseteq KnownIds /\ ReadWell(r)'
  BY <1>3, <1>4, <1>5, <1>6, AtReading DEF ReadIds, ReadWell, CaseCalls
<1>8. UNCHANGED <<due, failed, nextId, listMark>>
  BY DEF ListMarks, history, marks
<1>9. ASSUME NEW c \in Cases, due[c] # 0, listMark[c] = due[c] PROVE Carrying(r, c)'
  <2>1. [case |-> c, id |-> due[c]] \in Listed
    BY <1>9 DEF Listed
  <2> QED BY <1>3, <1>4, <1>5, <1>8, <2>1 DEF Carrying, CaseCalls
<1> QED BY <1>7, <1>8, <1>9, AtReading, PageMoves, RemapCarries DEF Kept, RemapStep

LEMMA CallsCarry ==
  ASSUME KInv, NEW r \in Remaps, ReadActive(r) \/ CreateCase(r) \/ CreateList(r) PROVE Kept
<1>1. CASE ReadActive(r)
  <2>1. PICK mark \in remap[r].todo, x \in RemapType : Looked(r, mark, x)
    BY <1>1, AtReading, ReadActiveLooks
  <2>2. remap'[r] = x /\ x.todo = remap[r].todo /\ x.more = remap[r].more /\ x.at = mark
    BY <2>1, AtReading, AtWork DEF Looked, RemapsTyped
  <2>3. pc[r] \in CaseCalls /\ pc'[r] \in CaseCalls /\ pc'[r] # "notify"
    BY <1>1, <2>1 DEF Looked, CaseCalls, ReadActive
  <2>4. mark.id # 0
    BY AtReading DEF ReadWell
  <2>5. UNCHANGED <<due, queue, dead, failed, nextId, listMark>>
    BY <1>1 DEF ReadActive, history, marks, queues
  <2> QED BY <1>1, <2>2, <2>3, <2>4, <2>5, PageMoves, CallCarries DEF Kept, RemapStep
<1>2. CASE CreateCase(r)
  <2>1. PICK x : x = [remap[r] EXCEPT !.oldId = nextId]
    OBVIOUS
  <2>2. x.todo = remap[r].todo /\ x.more = remap[r].more /\ x.at = remap[r].at
    BY <2>1, AtReading, AtWork DEF RemapType
  <2>3. remap'[r] = x
    BY <1>2, <2>1, AtReading, AtWork DEF CreateCase, RemapsTyped
  <2>4. pc[r] = "createCase" /\ pc'[r] = "createList"
    BY <1>2, AtReading, AtWork, Moves DEF CreateCase, Labels
  <2>5. remap[r].at.id # 0
    BY <2>4, AtReading DEF ReadWell, CaseCalls
  <2>6. UNCHANGED <<due, queue, dead, failed, listMark>> /\ nextId' = nextId + 1
    BY <1>2 DEF CreateCase, history, marks, queues
  <2> QED BY <1>2, <2>2, <2>3, <2>4, <2>5, <2>6, PageMoves, CallCarries DEF Kept, RemapStep, CaseCalls
<1>3. CASE CreateList(r)
  <2>1. pc[r] = "createList" /\ pc'[r] = "deleteCase"
    BY <1>3, AtReading, AtWork, Moves DEF CreateList, Labels
  <2>2. remap[r].at.id # 0
    BY <2>1, AtReading DEF ReadWell, CaseCalls
  <2>3. UNCHANGED <<due, queue, dead, failed, listMark, nextId, remap>>
    BY <1>3 DEF CreateList, history, marks, queues
  <2> QED BY <1>3, <2>1, <2>2, <2>3, PageMoves, CallCarries DEF Kept, RemapStep, CaseCalls
<1> QED BY <1>1, <1>2, <1>3

LEMMA PassedOverCarries ==
  ASSUME KInv, NEW r \in Remaps, NEW mark \in Marks, PassOver(r, mark), RemapMove(r),
         pc[r] \in CaseCalls, UNCHANGED <<listMark, nextId, queue, dead>>
  PROVE  Kept
<1>1. Advance(r, mark) /\ failed' = failed \cup {mark.case} /\ UNCHANGED due
  BY DEF PassOver
<1> QED BY <1>1, AdvanceCarries DEF Kept

LEMMA WritesCarry ==
  ASSUME KInv, NEW r \in Remaps, CloseCase(r) \/ CloseList(r) \/ DeleteCase(r) \/ DeleteList(r)
  PROVE  Kept
<1>1. RemapMove(r) /\ UNCHANGED <<nextId, queue, dead>>
  BY PageMoves DEF RemapStep, CloseCase, CloseList, DeleteCase, DeleteList, queues
<1>2. pc[r] \in {"closeCase", "closeList", "deleteCase", "deleteList"} /\ remap[r].at.id # 0
  BY AtReading DEF ReadWell, CaseCalls, CloseCase, CloseList, DeleteCase, DeleteList
<1>3. CASE PassOver(r, remap[r].at) /\ UNCHANGED listMark
  BY <1>1, <1>2, <1>3, AtReading, AtWork, PassedOverCarries DEF CaseCalls
<1>4. CASE UNCHANGED <<remap, due, failed>> /\ Goto(r, "notify")
           /\ listMark' = [listMark EXCEPT ![At(r)] = 0]
  <2>1. pc'[r] = "notify"
    BY <1>4, AtReading, AtWork, Moves DEF Labels
  <2> QED BY <1>1, <1>2, <1>4, <2>1, CallCarries DEF Kept, CaseCalls, At
<1>5. ASSUME NEW label \in {"closeList", "createCase", "deleteList"},
             UNCHANGED <<remap, due, failed, listMark>>, Goto(r, label)
      PROVE  Kept
  <2>1. pc'[r] = label
    BY <1>5, AtReading, AtWork, Moves DEF Labels
  <2> QED BY <1>1, <1>2, <1>5, <2>1, CallCarries DEF Kept, CaseCalls
<1>6. CASE CloseCase(r)
  BY <1>3, <1>5, <1>6 DEF CloseCase, history, marks
<1>7. CASE CloseList(r)
  BY <1>3, <1>5, <1>7 DEF CloseList, history, marks
<1>8. CASE DeleteCase(r)
  BY <1>3, <1>5, <1>8 DEF DeleteCase, history
<1>9. CASE DeleteList(r)
  BY <1>3, <1>4, <1>9 DEF DeleteList, history
<1> QED BY <1>6, <1>7, <1>8, <1>9

LEMMA NotifyCarries ==
  ASSUME KInv, NEW r \in Remaps, Notify(r) PROVE Kept
<1>1. Advance(r, remap[r].at) /\ UNCHANGED <<due, queue, dead, failed, listMark, nextId>>
  BY DEF Notify, history, queues, marks
<1>2. pc[r] = "notify" /\ listMark[remap[r].at.case] # remap[r].at.id
  BY AtReading DEF Notify, ReadWell, At
<1> QED BY <1>1, <1>2, AtReading, AtWork, PageMoves, AdvanceCarries DEF Kept, RemapStep, CaseCalls

(* The page ends: its marks are done, or its message is sent or put aside. *)
LEMMA EndCarries ==
  ASSUME KInv, NEW r \in Remaps, RemapMove(r), UNCHANGED <<due, failed, listMark, nextId>>,
         pc'[r] \in {"complete", "idle"}, remap' = remap \/ remap'[r] = NoRemap,
         \/ SomeMessage'
         \/ /\ UNCHANGED <<queue, dead>>
            /\ pc[r] = "complete" \/ (pc[r] = "continue" /\ ~remap[r].more)
  PROVE  Kept
<1>1. ReadIds(r)' \subseteq KnownIds \cup {0} /\ ReadWell(r)'
  <2>1. CASE remap' = remap
    BY <2>1, AtReading DEF ReadIds, ReadWell, CaseCalls
  <2>2. CASE remap'[r] = NoRemap
    BY <2>2 DEF ReadIds, ReadWell, CaseCalls, NoRemap, NoMark
  <2> QED BY <2>1, <2>2
<1>2. ASSUME NEW c \in Cases, SomeMessage \/ Carrying(r, c) PROVE SomeMessage'
  BY <1>2 DEF SomeMessage, Carrying, CaseCalls
<1> QED BY <1>1, <1>2, AtReading, RemapCarries DEF Kept

LEMMA EndsCarry ==
  ASSUME KInv, NEW r \in Remaps, Continue(r) \/ Complete(r) \/ RetryPage(r) \/ PageFails(r)
  PROVE  Kept
<1>1. /\ RemapMove(r) /\ UNCHANGED <<due, failed, listMark, nextId>>
      /\ RInv' /\ QueueTyped /\ QueueTyped'
  BY PageMoves, AtReading, AtWork DEF RemapStep, Continue, Complete, RetryPage, PageFails, history, marks, RInv, Typed
<1>2. pc'[r] \in {"complete", "idle"} /\ (remap' = remap \/ remap'[r] = NoRemap)
  BY AtReading, AtWork DEF CallsTyped, RemapsTyped, Goto, Continue, Complete, RetryPage, PageFails
<1>3. ASSUME NEW m, Send(m), m \in Messages PROVE SomeMessage'
  <2>1. queue[m] \in Nat /\ queue' = [queue EXCEPT ![m] = @ + 1]
    BY <1>1, <1>3 DEF QueueTyped, Send
  <2>2. queue'[m] > 0
    BY <1>1, <1>3, <2>1 DEF QueueTyped
  <2> QED BY <1>3, <2>2 DEF SomeMessage
<1>4. ASSUME NEW m, dead' = dead \cup {m} PROVE SomeMessage'
  BY <1>4 DEF SomeMessage
<1>5. CASE Continue(r)
  <2>1. CASE remap[r].more
    <3>1. PICK m : m = [remap[r].message EXCEPT !.dequeues = 0]
      OBVIOUS
    <3>2. m \in Messages
      BY <3>1, AtReading, AtWork, BoundAssumption DEF Messages
    <3>3. SomeMessage'
      BY <1>3, <1>5, <2>1, <3>1, <3>2 DEF Continue
    <3> QED BY <1>1, <1>2, <3>3, EndCarries
  <2>2. CASE ~remap[r].more
    <3>1. UNCHANGED <<queue, dead>> /\ pc[r] = "continue"
      BY <1>5, <2>2 DEF Continue
    <3> QED BY <1>1, <1>2, <2>2, <3>1, EndCarries
  <2> QED BY <2>1, <2>2
<1>6. CASE Complete(r)
  <2>1. UNCHANGED <<queue, dead>> /\ pc[r] = "complete"
    BY <1>6 DEF Complete, queues
  <2>2. RemapMove(r) /\ UNCHANGED <<due, failed, listMark, nextId>>
    BY <1>1
  <2>3. /\ UNCHANGED <<queue, dead>>
        /\ pc[r] = "complete" \/ (pc[r] = "continue" /\ ~remap[r].more)
    BY <2>1
  <2> QED BY <1>2, <2>2, <2>3, EndCarries
<1>7. CASE RetryPage(r)
  <2>1. CASE remap[r].message.retries < RetryLimit
    <3>1. PICK m : m = [remap[r].message EXCEPT !.dequeues = 0, !.retries = @ + 1]
      OBVIOUS
    <3>2. m \in Messages
      <4>1. PICK k \in Messages : k = remap[r].message
        BY AtReading, AtWork
      <4>2. k.retries \in Nat /\ k.retries < RetryLimit
        BY <2>1, <4>1, BoundAssumption DEF Messages
      <4>3. m = [trustee |-> k.trustee, retries |-> k.retries + 1, dequeues |-> 0]
        BY <3>1, <4>1 DEF Messages
      <4> QED BY <4>1, <4>2, <4>3, BoundAssumption DEF Messages
    <3>3. SomeMessage'
      BY <1>3, <1>7, <2>1, <3>1, <3>2 DEF RetryPage
    <3> QED BY <1>1, <1>2, <3>3, EndCarries
  <2>2. CASE ~(remap[r].message.retries < RetryLimit)
    BY <1>1, <1>2, <1>4, <1>7, <2>2, EndCarries DEF RetryPage
  <2> QED BY <2>1, <2>2
<1>8. CASE PageFails(r)
  <2>1. PICK m : m = [remap[r].message EXCEPT !.dequeues = @ + 1]
    OBVIOUS
  <2>2. m \in Messages
    <3>1. pc[r] # "idle"
      BY <1>8 DEF PageFails
    <3>2. remap[r].message.dequeues < MaxDequeueCount
      BY <3>1, AtReading, AtWork DEF Ready
    <3> QED BY <2>1, <3>2, AtReading, AtWork, BoundAssumption DEF Messages
  <2>3. SomeMessage'
    BY <1>3, <1>4, <1>8, <2>1, <2>2 DEF PageFails
  <2> QED BY <1>1, <1>2, <2>3, EndCarries
<1> QED BY <1>5, <1>6, <1>7, <1>8

LEMMA CaseFailsCarries ==
  ASSUME KInv, NEW r \in Remaps, CaseFails(r) PROVE Kept
<1>1. PICK mark \in IF pc[r] = "active" THEN remap[r].todo ELSE {remap[r].at} : PassOver(r, mark)
  BY DEF CaseFails
<1>2. mark \in Marks
  BY AtReading, AtWork
<1>3. pc[r] \in CaseCalls /\ UNCHANGED <<listMark, nextId, queue, dead>>
  BY DEF CaseFails, marks, queues
<1> QED BY <1>1, <1>2, <1>3, PageMoves, PassedOverCarries

-----------------------------------------------------------------------------
(* Decisions: what becomes due was sent with it.                           *)
LEMMA DecisionCarries ==
  ASSUME KInv, RInv', NEW u \in Users,
         \/ \E t \in Trustees : Approve(u, t)
         \/ Reject(u) \/ DecisionStep(u) \/ DecisionFails(u) \/ DecisionStops(u)
  PROVE  Kept
<1>1. u \in Actors /\ u \notin Remaps /\ u \notin Syncs /\ CallsTyped /\ QueueTyped
  BY ActorAssumption DEF Actors, KInv, RInv, Typed
<1>2. UNCHANGED <<listMark, nextId, sync, remap, failed>> /\ \A p \in Actors \ {u} : pc'[p] = pc[p]
  BY <1>1 DEF Approve, Reject, DecisionStep, DecisionFails, DecisionStops, ReadVariation, CreateVariation,
     Enqueue, MarkApproved, MarkRejected, UpdateStatus, Return, Goto, CallsTyped, marks, history
<1>3. \A q \in Syncs \cup Remaps : pc'[q] = pc[q]
  BY <1>1, <1>2 DEF Actors
<1>4. \/ UNCHANGED <<due, queue, dead>>
      \/ due' = listMark /\ SomeMessage'
      \/ due' = due /\ SomeMessage'
  <2>1. CASE Return(u)
    <3>1. CASE binding[u] = {} /\ UNCHANGED queue
      BY <2>1, <3>1 DEF Return
    <3>2. ASSUME NEW t \in binding[u], Send(NewMessage(t))
          PROVE  due' = listMark /\ SomeMessage'
      <4>1. t \in Trustees
        BY Deciding DEF KInv, Settled
      <4>2. NewMessage(t) \in Messages
        BY <4>1, BoundAssumption DEF NewMessage, Messages
      <4>3. queue'[NewMessage(t)] > 0
        BY <1>1, <3>2, <4>2 DEF Send, QueueTyped
      <4> QED BY <2>1, <3>2, <4>2, <4>3 DEF Return, SomeMessage
    <3> QED BY <2>1, <3>1, <3>2 DEF Return
  <2>2. CASE ~Return(u)
    BY <2>2 DEF Approve, Reject, DecisionStep, DecisionFails, DecisionStops, ReadVariation,
       CreateVariation, Enqueue, MarkApproved, MarkRejected, UpdateStatus, history, queues
  <2> QED BY <2>1, <2>2
<1>5. KnownIds' \subseteq KnownIds
  <2>1. UNION {ReadIds(r) : r \in Remaps}' = UNION {ReadIds(r) : r \in Remaps}
    BY <1>2 DEF ReadIds
  <2> QED BY <1>2, <1>4, <2>1 DEF KnownIds
<1>6. IdsFresh'
  <2>1. nextId \in Nat
    BY DEF KInv, RInv, Typed, IdTyped
  <2> QED BY <1>2, <1>3, <1>5, <2>1, FreshKept
<1>7. MarksRead'
  BY <1>2, <1>3 DEF KInv, MarksRead, ReadWell, At
<1>8. DueIsCarried'
  <2>1. CASE UNCHANGED <<due, queue, dead>>
    BY <1>2, <1>3, <2>1 DEF KInv, DueIsCarried, SomeMessage, Carrying
  <2>2. CASE SomeMessage'
    BY <2>2 DEF DueIsCarried
  <2> QED BY <1>4, <2>1, <2>2
<1> QED BY <1>6, <1>7, <1>8 DEF Kept

(* Syncs: a mark they write has an id of its own.                          *)
LEMMA SyncReads ==
  ASSUME KInv, RInv', NEW s \in Syncs, UNCHANGED <<listMark, due, failed, queue, dead, remap>>,
         nextId' \in {nextId, nextId + 1},
         \A p \in Actors \ {s} : pc'[p] = pc[p], \A q \in Syncs \ {s} : sync'[q] = sync[q],
         pc'[s] # "markList"
  PROVE  Kept
<1>1. s \notin Remaps /\ nextId \in Nat
  BY ActorAssumption DEF KInv, RInv, Typed, IdTyped
<1>2. \A q \in Remaps : pc'[q] = pc[q]
  BY <1>1 DEF Actors
<1>3. KnownIds' = KnownIds
  BY DEF KnownIds, ReadIds
<1>4. IdsFresh'
  BY <1>1, <1>3, FreshKept DEF Actors
<1>5. MarksRead'
  BY <1>2 DEF KInv, MarksRead, ReadWell, At
<1>6. DueIsCarried'
  BY <1>2 DEF KInv, DueIsCarried, SomeMessage, Carrying
<1> QED BY <1>4, <1>5, <1>6 DEF Kept

LEMMA OthersWait ==
  ASSUME RInv, NEW s \in Syncs, (\E c \in Cases : Take(s, c)) \/ SyncStep(s) \/ SyncFails(s)
  PROVE  /\ UNCHANGED <<due, failed, queue, dead, remap>> /\ nextId' \in {nextId, nextId + 1}
         /\ \A p \in Actors \ {s} : pc'[p] = pc[p]
         /\ \A q \in Syncs \ {s} : sync'[q] = sync[q]
<1>1. Processing(s)
  BY AtProcessing
<1>2. UNCHANGED <<due, failed, queue, dead, remap>> /\ nextId' \in {nextId, nextId + 1}
  BY DEF Take, SyncStep, SyncFails, Lookup, CheckPending, Match, ReadBucket, SaveVerification, ReadMark,
     MarkCase, MarkList, Link, history, queues
<1>3. \A p \in Actors \ {s} : pc'[p] = pc[p]
  BY <1>1 DEF Processing, CallsTyped, Take, SyncStep, SyncFails, Lookup, CheckPending, Match, ReadBucket,
     SaveVerification, ReadMark, MarkCase, MarkList, Link, Finish, Goto
<1>4. \A q \in Syncs \ {s} : sync'[q] = sync[q]
  BY <1>1 DEF Processing, SyncsTyped, Take, SyncStep, SyncFails, Lookup, CheckPending, Match, ReadBucket,
     SaveVerification, ReadMark, MarkCase, MarkList, Link, Finish
<1> QED BY <1>2, <1>3, <1>4

LEMMA MarkCaseCarries ==
  ASSUME KInv, RInv', NEW s \in Syncs, MarkCase(s) PROVE Kept
<1>1. /\ UNCHANGED <<due, failed, queue, dead, remap, listMark>> /\ nextId' = nextId + 1
      /\ \A p \in Actors \ {s} : pc'[p] = pc[p] /\ \A q \in Syncs \ {s} : sync'[q] = sync[q]
      /\ nextId \in Nat \ {0} /\ s \notin Remaps
  BY OthersWait, ActorAssumption DEF KInv, MarkCase, SyncStep, RInv, Typed, IdTyped
<1>2. \A q \in Remaps : pc'[q] = pc[q]
  BY <1>1 DEF Actors
<1>3. KnownIds' = KnownIds
  BY <1>1 DEF KnownIds, ReadIds
<1>4. sync'[s].newId = nextId
  BY AtProcessing DEF KInv, Processing, SyncsTyped, SyncType, MarkCase
<1>5. \A id \in PendingIds \cup KnownIds : id \in Nat /\ id < nextId
  <2>1. \A r \in Remaps : ReadIds(r) \subseteq Nat
    BY AtReading, AtWork DEF ReadIds, Marks
  <2>2. PendingIds \subseteq Nat
    BY DEF PendingIds, KInv, RInv, Typed, SyncsTyped, SyncType
  <2>3. KnownIds \subseteq Nat
    BY <2>1 DEF KnownIds, KInv, RInv, Typed, MarksTyped, PastTyped
  <2> QED BY <2>2, <2>3 DEF KInv, IdsFresh
<1>6. \A q \in Syncs \ {s} : pc'[q] = pc[q] /\ sync'[q] = sync[q]
  BY <1>1 DEF Actors
<1>7. PendingIds' \subseteq PendingIds \cup {nextId}
  BY <1>4, <1>6 DEF PendingIds
<1>8. IdsFresh'
  <2>1. \A id \in PendingIds' \cup KnownIds' : id < nextId'
    BY <1>1, <1>3, <1>5, <1>7
  <2>2. PendingIds' \cap (KnownIds' \cup {0}) = {}
    BY <1>1, <1>3, <1>5, <1>7 DEF KInv, IdsFresh
  <2>3. ASSUME NEW q \in Syncs, pc'[q] = "markList", q # s PROVE sync'[q].newId # nextId
    <3>1. sync[q].newId \in PendingIds
      BY <1>6, <2>3 DEF PendingIds
    <3> QED BY <1>1, <1>5, <1>6, <2>3, <3>1
  <2>4. \A p, q \in Syncs : pc'[p] = "markList" /\ pc'[q] = "markList" /\ p # q =>
          sync'[p].newId # sync'[q].newId
    BY <1>4, <1>6, <2>3 DEF KInv, IdsFresh
  <2> QED BY <2>1, <2>2, <2>4 DEF IdsFresh
<1>9. MarksRead'
  BY <1>1, <1>2 DEF KInv, MarksRead, ReadWell, At
<1>10. DueIsCarried'
  BY <1>1, <1>2 DEF KInv, DueIsCarried, SomeMessage, Carrying
<1> QED BY <1>8, <1>9, <1>10 DEF Kept

LEMMA MarkListCarries ==
  ASSUME KInv, RInv', NEW s \in Syncs, MarkList(s) PROVE Kept
<1>1. PICK id : id = sync[s].newId
  OBVIOUS
<1>2. /\ UNCHANGED <<due, failed, queue, dead, remap, nextId>>
      /\ \A p \in Actors \ {s} : pc'[p] = pc[p] /\ \A q \in Syncs \ {s} : sync'[q] = sync[q]
      /\ nextId \in Nat \ {0} /\ s \notin Remaps
  BY OthersWait, ActorAssumption DEF KInv, MarkList, SyncStep, RInv, Typed, IdTyped
<1>3. \A q \in Remaps : pc'[q] = pc[q]
  BY <1>2 DEF Actors
<1>4. pc[s] = "markList" /\ pc'[s] = "idle" /\ id \in PendingIds /\ id # 0 /\ id \notin KnownIds
  <2>1. pc[s] = "markList" /\ pc'[s] = "idle"
    BY AtProcessing DEF KInv, Processing, CallsTyped, MarkList, Finish, Goto
  <2> QED BY <1>1, <2>1 DEF KInv, IdsFresh, PendingIds
<1>5. \A c \in Cases : listMark'[c] = IF c = SyncCase(s) THEN id ELSE listMark[c]
  BY <1>1, AtProcessing DEF KInv, Processing, MarksTyped, MarkList
<1>6. KnownIds' \subseteq KnownIds \cup {id}
  BY <1>2, <1>5 DEF KnownIds, ReadIds
<1>7. \A q \in Syncs \ {s} : pc'[q] = pc[q] /\ sync'[q] = sync[q]
  BY <1>2 DEF Actors
<1>8. PendingIds' \subseteq PendingIds \ {id}
  BY <1>1, <1>4, <1>7 DEF PendingIds, KInv, IdsFresh
<1>9. IdsFresh'
  <2>1. \A k \in PendingIds' \cup KnownIds' : k < nextId'
    BY <1>2, <1>4, <1>6, <1>8 DEF KInv, IdsFresh
  <2>2. PendingIds' \cap (KnownIds' \cup {0}) = {}
    BY <1>6, <1>8 DEF KInv, IdsFresh
  <2>3. \A p, q \in Syncs : pc'[p] = "markList" /\ pc'[q] = "markList" /\ p # q =>
          sync'[p].newId # sync'[q].newId
    BY <1>4, <1>7 DEF KInv, IdsFresh
  <2> QED BY <2>1, <2>2, <2>3 DEF IdsFresh
<1>10. MarksRead'
  <2> SUFFICES ASSUME NEW r \in Remaps PROVE ReadWell(r)'
    BY DEF MarksRead
  <2>1. ReadWell(r) /\ remap[r].at.id # id /\ At(r) \in Cases
    BY <1>4, AtReading, AtWork
  <2> QED BY <1>2, <1>3, <1>5, <2>1 DEF ReadWell, At
<1>11. DueIsCarried'
  <2> SUFFICES ASSUME NEW c \in Cases, due[c] # 0, listMark'[c] = due[c], c \notin failed
               PROVE  SomeMessage' \/ \E r \in Remaps : Carrying(r, c)'
    BY <1>2 DEF DueIsCarried
  <2>1. due[c] \in KnownIds
    BY DEF KnownIds
  <2>2. listMark[c] = due[c]
    BY <1>4, <1>5, <2>1
  <2> QED BY <1>2, <1>3, <2>2 DEF KInv, DueIsCarried, SomeMessage, Carrying
<1> QED BY <1>9, <1>10, <1>11 DEF Kept

LEMMA SyncCarries ==
  ASSUME KInv, RInv', NEW s \in Syncs, (\E c \in Cases : Take(s, c)) \/ SyncStep(s) \/ SyncFails(s)
  PROVE  Kept
<1>1. CASE MarkCase(s)
  BY <1>1, MarkCaseCarries
<1>2. CASE MarkList(s)
  BY <1>2, MarkListCarries
<1>3. CASE ~MarkCase(s) /\ ~MarkList(s)
  <2>1. listMark' = listMark
    BY <1>3 DEF Take, SyncStep, SyncFails, Lookup, CheckPending, Match, ReadBucket, SaveVerification,
       ReadMark, Link, marks
  <2>2. pc'[s] # "markList"
    BY <1>3, AtProcessing DEF KInv, Processing, CallsTyped, Take, SyncStep, SyncFails, Lookup, CheckPending,
       Match, ReadBucket, SaveVerification, ReadMark, Link, Finish, Goto
  <2> QED BY <2>1, <2>2, OthersWait, SyncReads DEF KInv
<1> QED BY <1>1, <1>2, <1>3

LEMMA InitCarries == Init => KInv
<1> SUFFICES ASSUME Init PROVE KInv
  OBVIOUS
<1>1. \A p \in Actors : pc[p] = "idle"
  BY DEF Init
<1>2. PendingIds = {}
  BY <1>1 DEF PendingIds, Actors
<1>3. KnownIds \subseteq {0}
  <2>1. \A c \in Cases : listMark[c] = 0 /\ due[c] = 0
    BY DEF Init
  <2>2. \A r \in Remaps : remap[r].todo = {} /\ remap[r].at.id = 0
    BY DEF Init, NoRemap, NoMark
  <2>3. \A r \in Remaps : ReadIds(r) \subseteq {0}
    BY <2>2 DEF ReadIds
  <2> QED BY <2>1, <2>3 DEF KnownIds
<1>4. IdsFresh
  <2>1. \A s \in Syncs : pc[s] # "markList"
    BY <1>1 DEF Actors
  <2>2. nextId = 2
    BY DEF Init
  <2>3. \A id \in PendingIds \cup KnownIds : id = 0
    BY <1>2, <1>3
  <2> QED BY <1>2, <2>1, <2>2, <2>3 DEF IdsFresh
<1>5. MarksRead
  BY <1>1 DEF Init, MarksRead, ReadWell, NoRemap, Actors, CaseCalls
<1>6. DueIsCarried
  BY DEF Init, DueIsCarried
<1> QED BY <1>4, <1>5, <1>6, InitRemap DEF KInv

LEMMA StepCarries == KInv /\ [Next]_vars => KInv'
<1> SUFFICES ASSUME KInv, [Next]_vars PROVE KInv'
  OBVIOUS
<1>1. RInv'
  BY StepRemap DEF KInv
<1>2. ASSUME NEW u \in Users,
             \/ \E t \in Trustees : Approve(u, t)
             \/ Reject(u) \/ DecisionStep(u) \/ DecisionFails(u) \/ DecisionStops(u)
      PROVE  Kept
  BY <1>1, <1>2, DecisionCarries
<1>3. ASSUME NEW s \in Syncs, (\E c \in Cases : Take(s, c)) \/ SyncStep(s) \/ SyncFails(s)
      PROVE  Kept
  BY <1>1, <1>3, SyncCarries
<1>4. ASSUME NEW r \in Remaps, RemapStep(r) \/ RetryPage(r) \/ CaseFails(r) \/ PageFails(r)
      PROVE  Kept
  BY <1>4, ReceiveCarries, ListMarksCarries, CallsCarry, WritesCarry, NotifyCarries, EndsCarry,
     CaseFailsCarries DEF RemapStep
<1>5. ASSUME UNCHANGED vars PROVE Kept
  <2>1. UNCHANGED <<listMark, nextId, queue, dead, pc, sync, remap, due, failed>>
    BY <1>5 DEF vars, marks, queues, history
  <2>2. PendingIds' = PendingIds /\ KnownIds' = KnownIds
    BY <2>1 DEF PendingIds, KnownIds, ReadIds
  <2>3. IdsFresh'
    BY <2>1, <2>2 DEF KInv, IdsFresh
  <2>4. MarksRead'
    BY <2>1 DEF KInv, MarksRead, ReadWell, At
  <2>5. DueIsCarried'
    BY <2>1 DEF KInv, DueIsCarried, SomeMessage, Carrying
  <2> QED BY <2>3, <2>4, <2>5 DEF Kept
<1>6. ASSUME Next PROVE Kept
  <2>1. \/ \E u \in Users : \/ \E t \in Trustees : Approve(u, t)
                           \/ Reject(u) \/ DecisionStep(u) \/ DecisionFails(u) \/ DecisionStops(u)
        \/ \E s \in Syncs : (\E c \in Cases : Take(s, c)) \/ SyncStep(s) \/ SyncFails(s)
        \/ \E r \in Remaps : RemapStep(r) \/ RetryPage(r) \/ CaseFails(r) \/ PageFails(r)
    BY <1>6 DEF Next
  <2> QED BY <1>2, <1>3, <1>4, <2>1
<1>7. Kept
  BY <1>5, <1>6
<1> QED BY <1>1, <1>7 DEF KInv, Kept

(* Once no remap message is left and none was put aside, every mark that   *)
(* was listed when a message was last queued is gone, or its case is in    *)
(* the log: whatever the page size, the order of the pages, the retries    *)
(* and the failures.                                                       *)
THEOREM NoMarkIsSkipped == Spec => []NoMarkSkipped
<1>1. KInv => NoMarkSkipped
  <2> SUFFICES ASSUME KInv, RemapOver, NEW c \in Cases, due[c] # 0, listMark[c] = due[c], c \notin failed
               PROVE  FALSE
    BY DEF NoMarkSkipped, Cleared
  <2>1. ~SomeMessage
    BY DEF RemapOver, SomeMessage
  <2>2. \A r \in Remaps : ~Carrying(r, c)
    BY DEF RemapOver, Carrying, CaseCalls
  <2> QED BY <2>1, <2>2 DEF KInv, DueIsCarried
<1> QED BY <1>1, InitCarries, StepCarries, PTL DEF Spec
=============================================================================
