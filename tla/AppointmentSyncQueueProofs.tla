--------------------- MODULE AppointmentSyncQueueProofs ---------------------
(***************************************************************************)
(* Proofs about AppointmentSyncQueue, for every set of transactions,       *)
(* exporters and page handlers, and every value of the limits and bounds.  *)
(* First the types; then that no transaction is lost; then what can be on  *)
(* a message at all.                                                       *)
(***************************************************************************)
EXTENDS AppointmentSyncQueue, TLAPS

LEMMA NewTypes ==
  ASSUME TypeOK
  PROVE  /\ NoRun \in Run /\ NoPage \in Page
         /\ \A events \in SUBSET Events :
              /\ NewMessage(events) \in Message
              /\ NewMessage(events).id = nextId /\ NewMessage(events).events = events
              /\ NewMessage(events).dequeues = 0
<1>1. NoRun \in Run
  BY DEF NoRun, Run, Sources
<1>2. NoPage \in Page
  BY LimitAssumption DEF NoPage, Page, Message
<1>3. ASSUME NEW events \in SUBSET Events
      PROVE  /\ NewMessage(events) \in Message
             /\ NewMessage(events).id = nextId /\ NewMessage(events).events = events
             /\ NewMessage(events).dequeues = 0
  BY LimitAssumption DEF TypeOK, NewMessage, Message
<1>. QED BY <1>1, <1>2, <1>3

LEMMA TypeInit == Init => TypeOK
<1> SUFFICES ASSUME Init PROVE TypeOK
  OBVIOUS
<1>1. NoRun \in Run
  BY DEF NoRun, Run, Sources
<1>2. NoPage \in Page
  BY LimitAssumption DEF NoPage, Page, Message
<1>. QED BY <1>1, <1>2 DEF Init, TypeOK

LEMMA LettersType ==
  ASSUME NEW events \in SUBSET Events, NEW cause \in Causes
  PROVE  /\ Letters(events, cause) \subseteq DeadLetter
         /\ \A e \in events : \E d \in Letters(events, cause) : d.event = e
<1>1. ASSUME NEW e \in events PROVE [event |-> e, cause |-> cause] \in DeadLetter
  BY DEF DeadLetter
<1>2. ASSUME NEW e \in events PROVE \E d \in Letters(events, cause) : d.event = e
  <2>1. [event |-> e, cause |-> cause] \in Letters(events, cause)
    BY DEF Letters
  <2>. QED BY <2>1
<1>. QED BY <1>1, <1>2 DEF Letters

(* What each call of handleStart does to its locals. *)
LEMMA RunTypes ==
  ASSUME NEW r \in Run, NEW src \in Sources, NEW date \in Nat,
         NEW events \in SUBSET Events, NEW flag \in BOOLEAN,
         NEW from \in [Sources -> Nat]
  PROVE  /\ [r EXCEPT !.from = from] \in Run
         /\ [r EXCEPT !.events = events] \in Run
         /\ [r EXCEPT !.mark[src] = date, !.events = events, !.petition = flag] \in Run
BY DEF Run

LEMMA StartTypes ==
  ASSUME TypeOK, NEW s \in Starters, Start(s) \/ StartStep(s) \/ StartFails(s)
  PROVE  TypeOK'
<1> USE DEF TypeOK, exporting, handler, Spend
<1>0. run[s] \in Run /\ run[s].events \in SUBSET Events /\ run[s].mark \in [Sources -> Nat]
      /\ run[s].from \in [Sources -> Nat]
  BY DEF Run
<1>1. CASE Start(s)
  <2>1. PICK kept \in SUBSET Sources :
          run' = [run EXCEPT ![s] = [NoRun EXCEPT !.from =
                    [src \in Sources |-> IF src \in kept THEN watermark[src] ELSE 0]]]
    BY <1>1 DEF Start
  <2>2. [src \in Sources |-> IF src \in kept THEN watermark[src] ELSE 0] \in [Sources -> Nat]
    OBVIOUS
  <2>3. run' \in [Starters -> Run]
    BY <2>1, <2>2, NewTypes, RunTypes DEF Sources
  <2>. QED BY <1>1, <2>3 DEF Start
<1>2. ASSUME NEW src \in Sources, Query(s, src)
      PROVE  run' \in [Starters -> Run]
  <2>1. PICK date \in {run[s].from[src]} \cup {TxDate[e] : e \in committed} :
          run' = [run EXCEPT ![s].mark[src] = date, ![s].events = @ \cup Found(s, src),
                             ![s].petition = (src = "petition")]
    BY <1>2 DEF Query
  <2>2. date \in Nat
    BY <1>0, EventAssumption
  <2>3. run[s].events \cup Found(s, src) \in SUBSET Events
    BY <1>0 DEF Found
  <2>4. run' = [run EXCEPT ![s] = [run[s] EXCEPT !.mark[src] = date,
                  !.events = run[s].events \cup Found(s, src), !.petition = (src = "petition")]]
    BY <2>1
  <2>. QED BY <1>0, <2>2, <2>3, <2>4, RunTypes
<1>3. CASE QueryAppointments(s)
  BY <1>2, <1>3 DEF QueryAppointments, Sources
<1>4. CASE QueryPetitions(s)
  BY <1>2, <1>4 DEF QueryPetitions, Sources
<1>5. CASE SendPage(s)
  <2>1. PICK events \in SUBSET (run[s].events \ Oversized) :
          /\ queue' = queue \cup {NewMessage(events)}
          /\ run' = [run EXCEPT ![s].events = @ \ events]
    BY <1>5 DEF SendPage
  <2>2. NewMessage(events) \in Message /\ NewMessage(events).dequeues < MaxDequeueCount
    BY <1>0, NewTypes, LimitAssumption
  <2>3. run' = [run EXCEPT ![s] = [run[s] EXCEPT !.events = run[s].events \ events]]
    BY <2>1
  <2>4. run' \in [Starters -> Run]
    BY <1>0, <2>3, NewTypes, RunTypes DEF Sources
  <2>. QED BY <1>5, <2>1, <2>2, <2>4 DEF SendPage
<1>6. CASE Reject(s)
  <2>1. PICK e \in run[s].events :
          /\ deadLetters' = deadLetters \cup Letters({e}, "rejected")
          /\ run' = [run EXCEPT ![s].events = @ \ {e}]
    BY <1>6 DEF Reject
  <2>2. Letters({e}, "rejected") \subseteq DeadLetter
    BY <1>0, LettersType DEF Causes
  <2>3. run' = [run EXCEPT ![s] = [run[s] EXCEPT !.events = run[s].events \ {e}]]
    BY <2>1
  <2>4. run' \in [Starters -> Run]
    BY <1>0, <2>3, NewTypes, RunTypes DEF Sources
  <2>. QED BY <1>6, <2>1, <2>2, <2>4 DEF Reject
<1>7. CASE StoreAppointmentDate(s)
  BY <1>0, <1>7 DEF StoreAppointmentDate, StoreDate, Sources
<1>8. CASE StorePetitionDate(s)
  BY <1>0, <1>8 DEF StorePetitionDate, StoreDate, Sources
<1>9. CASE StartFails(s)
  BY <1>9 DEF StartFails
<1>. QED BY <1>1, <1>3, <1>4, <1>5, <1>6, <1>7, <1>8, <1>9 DEF StartStep

(* What each call of handlePage does to its locals. *)
LEMMA PageTypesOf ==
  ASSUME NEW p \in Page
  PROVE  /\ \A todo \in SUBSET Events :
              /\ [p EXCEPT !.todo = todo] \in Page
              /\ \A m \in Message : [p EXCEPT !.message = m, !.todo = todo] \in Page
              /\ \A letters \in SUBSET DeadLetter :
                   [p EXCEPT !.todo = todo, !.dead = letters] \in Page
              /\ \A events \in SUBSET Events :
                   /\ [p EXCEPT !.todo = todo, !.unsynced = events] \in Page
                   /\ [p EXCEPT !.todo = todo, !.transient = events] \in Page
         /\ \A letters \in SUBSET DeadLetter : [p EXCEPT !.dead = letters] \in Page
BY DEF Page

LEMMA PageTypes ==
  ASSUME TypeOK, NEW h \in Handlers, PageStep(h) \/ PageFails(h)
  PROVE  TypeOK'
<1> USE DEF TypeOK, paging, starter, Spend
<1>0. /\ page[h] \in Page /\ page[h].message \in Message /\ page[h].dead \in SUBSET DeadLetter
      /\ page[h].todo \in SUBSET Events /\ page[h].transient \in SUBSET Events
      /\ page[h].unsynced \in SUBSET Events
  BY DEF Page
<1>1. ASSUME NEW m \in queue, Receive(h, m) PROVE TypeOK'
  <2>1. /\ m \in Message /\ m.dequeues \in Nat /\ m.events \in SUBSET Events
        /\ m.dequeues + 1 \in 0..MaxDequeueCount
    BY LimitAssumption DEF Message
  <2>2. [m EXCEPT !.dequeues = @ + 1] \in Message
    BY <2>1 DEF Message
  <2>3. page' \in [Handlers -> Page]
    BY <1>1, <2>1, <2>2, NewTypes, PageTypesOf DEF Receive
  <2>. QED BY <1>1, <2>3 DEF Receive
<1>2. ASSUME NEW e \in Events, ProcessEvent(h, e) PROVE TypeOK'
  <2>1. page[h].dead \cup Letters({e}, "failed") \in SUBSET DeadLetter
    BY <1>0, LettersType DEF Causes
  <2>2. \E todo, events \in SUBSET Events, letters \in SUBSET DeadLetter :
          \/ page' = [page EXCEPT ![h] = [page[h] EXCEPT !.todo = todo]]
          \/ page' = [page EXCEPT ![h] = [page[h] EXCEPT !.todo = todo, !.dead = letters]]
          \/ page' = [page EXCEPT ![h] = [page[h] EXCEPT !.todo = todo, !.unsynced = events]]
          \/ page' = [page EXCEPT ![h] = [page[h] EXCEPT !.todo = todo, !.transient = events]]
    <3> DEFINE rest == page[h].todo \ {e}
    <3>1. CASE Finished(h, e)
      <4>1. page' = [page EXCEPT ![h] = [page[h] EXCEPT !.todo = rest]]
        BY <3>1 DEF Finished
      <4>. QED BY <1>0, <4>1
    <3>2. CASE FinishedWithDlq(h, e) \/ FailedForGood(h, e)
      <4>1. page' = [page EXCEPT ![h] = [page[h] EXCEPT !.todo = rest,
                       !.dead = page[h].dead \cup Letters({e}, "failed")]]
        BY <3>2 DEF FinishedWithDlq, FailedForGood
      <4>. QED BY <1>0, <2>1, <4>1
    <3>3. CASE NotYetSynced(h, e)
      <4>1. page' = [page EXCEPT ![h] = [page[h] EXCEPT !.todo = rest,
                       !.unsynced = page[h].unsynced \cup {e}]]
        BY <3>3 DEF NotYetSynced
      <4>2. page[h].unsynced \cup {e} \in SUBSET Events
        BY <1>0
      <4>. QED BY <1>0, <4>1, <4>2
    <3>4. CASE TransientError(h, e)
      <4>1. page' = [page EXCEPT ![h] = [page[h] EXCEPT !.todo = rest,
                       !.transient = page[h].transient \cup {e}]]
        BY <3>4 DEF TransientError
      <4>2. page[h].transient \cup {e} \in SUBSET Events
        BY <1>0
      <4>. QED BY <1>0, <4>1, <4>2
    <3>. QED BY <1>2, <3>1, <3>2, <3>3, <3>4 DEF ProcessEvent
  <2>3. page' \in [Handlers -> Page]
    <3>1. PICK todo \in SUBSET Events, events \in SUBSET Events, letters \in SUBSET DeadLetter :
            \/ page' = [page EXCEPT ![h] = [page[h] EXCEPT !.todo = todo]]
            \/ page' = [page EXCEPT ![h] = [page[h] EXCEPT !.todo = todo, !.dead = letters]]
            \/ page' = [page EXCEPT ![h] = [page[h] EXCEPT !.todo = todo, !.unsynced = events]]
            \/ page' = [page EXCEPT ![h] = [page[h] EXCEPT !.todo = todo, !.transient = events]]
      BY <2>2
    <3>2. \A p \in Page : page' = [page EXCEPT ![h] = p] => page' \in [Handlers -> Page]
      OBVIOUS
    <3>3. /\ [page[h] EXCEPT !.todo = todo] \in Page
          /\ [page[h] EXCEPT !.todo = todo, !.dead = letters] \in Page
          /\ [page[h] EXCEPT !.todo = todo, !.unsynced = events] \in Page
          /\ [page[h] EXCEPT !.todo = todo, !.transient = events] \in Page
      BY <1>0, PageTypesOf
    <3>. QED BY <3>1, <3>2, <3>3
  <2>4. unsyncedSeen' \in [Events -> Nat] /\ done' \subseteq Events /\ budget' \in [runs : Nat, faults : Nat, transients : Nat]
    BY <1>2 DEF ProcessEvent, Finished, FinishedWithDlq, FailedForGood, NotYetSynced,
                TransientError
  <2>. QED BY <1>2, <2>3, <2>4 DEF ProcessEvent, processing
<1>3. CASE RetryTransient(h)
  <2>1. CASE page[h].message.transientRetries < TransientLimit
    <3>1. page[h].message.transientRetries + 1 \in 0..TransientLimit
      BY <1>0, <2>1, LimitAssumption DEF Message
    <3> DEFINE retry == [NewMessage(page[h].transient) EXCEPT
                           !.transientRetries = page[h].message.transientRetries + 1]
    <3>2. retry \in Message /\ retry.dequeues < MaxDequeueCount
      BY <1>0, <3>1, NewTypes, LimitAssumption DEF Message
    <3>3. /\ queue' = queue \/ queue' = queue \cup {retry}
          /\ nextId' = nextId \/ nextId' = nextId + 1
          /\ page' = page /\ pagePc' \in [Handlers -> {"idle", "process", "unsynced", "dead"}]
      BY <1>3, <2>1 DEF RetryTransient, Requeue
    <3> HIDE DEF retry
    <3>4. /\ queue' \subseteq {m \in Message : m.dequeues < MaxDequeueCount}
          /\ nextId' \in Nat \ {0}
      BY <3>2, <3>3
    <3>. QED BY <1>3, <2>1, <3>3, <3>4 DEF RetryTransient
  <2>2. CASE ~(page[h].message.transientRetries < TransientLimit)
    <3>1. page[h].dead \cup Letters(page[h].transient, "transient") \in SUBSET DeadLetter
      BY <1>0, LettersType DEF Causes
    <3>2. page' = [page EXCEPT ![h] = [page[h] EXCEPT !.dead =
                     page[h].dead \cup Letters(page[h].transient, "transient")]]
      BY <1>3, <2>2 DEF RetryTransient, GiveUp
    <3>3. page' \in [Handlers -> Page]
      BY <1>0, <3>1, <3>2, PageTypesOf
    <3>. QED BY <1>3, <2>2, <3>3 DEF RetryTransient, GiveUp
  <2>. QED BY <2>1, <2>2
<1>4. CASE RetryUnsynced(h)
  <2>1. CASE page[h].message.unsyncedRetries < UnsyncedLimit
    <3>1. page[h].message.unsyncedRetries + 1 \in 0..UnsyncedLimit
      BY <1>0, <2>1, LimitAssumption DEF Message
    <3> DEFINE retry == [NewMessage(page[h].unsynced) EXCEPT
                           !.unsyncedRetries = page[h].message.unsyncedRetries + 1]
    <3>2. retry \in Message /\ retry.dequeues < MaxDequeueCount
      BY <1>0, <3>1, NewTypes, LimitAssumption DEF Message
    <3>3. /\ queue' = queue \/ queue' = queue \cup {retry}
          /\ nextId' = nextId \/ nextId' = nextId + 1
          /\ page' = page /\ pagePc' \in [Handlers -> {"idle", "process", "unsynced", "dead"}]
      BY <1>4, <2>1 DEF RetryUnsynced, Requeue
    <3> HIDE DEF retry
    <3>4. /\ queue' \subseteq {m \in Message : m.dequeues < MaxDequeueCount}
          /\ nextId' \in Nat \ {0}
      BY <3>2, <3>3
    <3>. QED BY <1>4, <2>1, <3>3, <3>4 DEF RetryUnsynced
  <2>2. CASE ~(page[h].message.unsyncedRetries < UnsyncedLimit)
    <3>1. page[h].dead \cup Letters(page[h].unsynced, "unsynced") \in SUBSET DeadLetter
      BY <1>0, LettersType DEF Causes
    <3>2. page' = [page EXCEPT ![h] = [page[h] EXCEPT !.dead =
                     page[h].dead \cup Letters(page[h].unsynced, "unsynced")]]
      BY <1>4, <2>2 DEF RetryUnsynced, GiveUp
    <3>3. page' \in [Handlers -> Page]
      BY <1>0, <3>1, <3>2, PageTypesOf
    <3>. QED BY <1>4, <2>2, <3>3 DEF RetryUnsynced, GiveUp
  <2>. QED BY <2>1, <2>2
<1>5. CASE SendDeadLetter(h)
  <2>1. PICK d \in page[h].dead :
          /\ deadLetters' = deadLetters \cup {d}
          /\ page' = [page EXCEPT ![h] = [page[h] EXCEPT !.dead = page[h].dead \ {d}]]
    BY <1>5 DEF SendDeadLetter
  <2>2. page[h].dead \ {d} \in SUBSET DeadLetter
    BY <1>0
  <2>3. page' \in [Handlers -> Page]
    BY <1>0, <2>1, <2>2, PageTypesOf
  <2>. QED BY <1>0, <1>5, <2>1, <2>3 DEF SendDeadLetter
<1>6. CASE Complete(h)
  BY <1>6, NewTypes DEF Complete
<1>7. CASE PageFails(h)
  <2>1. page[h].message.events \in SUBSET Events
    BY <1>0 DEF Message
  <2>. QED BY <1>0, <1>7, <2>1, NewTypes DEF PageFails
<1>. QED BY <1>1, <1>2, <1>3, <1>4, <1>5, <1>6, <1>7 DEF PageStep

LEMMA TypeStep == TypeOK /\ [Next]_vars => TypeOK'
<1> SUFFICES ASSUME TypeOK, [Next]_vars PROVE TypeOK'
  OBVIOUS
<1>1. ASSUME NEW e \in Events, Commit(e) PROVE TypeOK'
  BY <1>1 DEF Commit, TypeOK, starter, handler
<1>2. CASE UNCHANGED vars
  BY <1>2 DEF vars, TypeOK, starter, handler
<1>. QED BY <1>1, <1>2, StartTypes, PageTypes DEF Next

(* Every variable keeps its type; in particular no retry counter and no    *)
(* dequeue count ever passes its limit.                                    *)
THEOREM QueueTypes == Spec => []TypeOK
BY TypeInit, TypeStep, PTL DEF Spec

-----------------------------------------------------------------------------
(***************************************************************************)
(* No stored sync date passes a transaction that could still be lost.      *)
(*                                                                         *)
(* NothingLost is not inductive: an exporter is about to store a date, and *)
(* a page handler about to let go of its message.  The strengthening says  *)
(* what an exporter has already sent (StartsInv) and what a page handler   *)
(* still owes (PagesInv).  A message is let go only when its events are    *)
(* out of harm or wait in a YOUNGER message: ids order the messages, so no *)
(* two handlers can each let go in reliance on the other's message.        *)
(***************************************************************************)

Live == queue \cup InFlight

(* The event is out of harm, or waits in a message younger than i. *)
Later(e, i) ==
  \/ e \in done \cup DeadEvents \cup poisoned
  \/ \E m \in Live : m.id > i /\ e \in m.events

Known == {e \in Events : Accounted(e)}

Letter(h, e) == \E d \in page[h].dead : d.event = e

(* What a page handler still has to see to, at each of its labels. *)
Owed(h, e) ==
  \/ pagePc[h] = "process" /\ (e \in page[h].todo \/ e \in page[h].transient)
  \/ pagePc[h] \in {"process", "unsynced"} /\ e \in page[h].unsynced
  \/ Letter(h, e)

(* The date is that of a transaction, and up to it every transaction of    *)
(* the source is accounted for, but for some events.                       *)
Covered(src, date, except) ==
  /\ date = 0 \/ \E e \in committed : Source[e] = src /\ TxDate[e] = date
  /\ \A e \in committed :
       Source[e] = src /\ TxDate[e] <= date => e \in Known \/ e \in except

IdsInv == \A m \in Live : 0 < m.id /\ m.id < nextId

PagesInv ==
  \A h \in Handlers : pagePc[h] # "idle" =>
    \A e \in page[h].message.events : Owed(h, e) \/ Later(e, page[h].message.id)

StartInv(s) ==
  /\ startPc[s] # "idle" => \A src \in Sources : Covered(src, run[s].from[src], {})
  /\ startPc[s] \in {"petitions", "queue", "store"} =>
       Covered("appointment", run[s].mark["appointment"], run[s].events)
  /\ startPc[s] \in {"queue", "store"} /\ run[s].petition =>
       Covered("petition", run[s].mark["petition"], run[s].events)
  /\ startPc[s] = "petitions" => ~run[s].petition
  /\ startPc[s] = "store" => run[s].events = {} /\ run[s].petition

StartsInv == \A s \in Starters : StartInv(s)

MarksInv == \A src \in Sources : Covered(src, watermark[src], {})

QueueInv == IdsInv /\ PagesInv /\ StartsInv /\ MarksInv
-----------------------------------------------------------------------------
(* The actions by what they do to the messages. *)

(* Steps that leave every message where it is. *)
StandingStep ==
  \/ \E e \in Events : Commit(e)
  \/ \E s \in Starters : Start(s) \/ StartStep(s) \/ StartFails(s)
  \/ \E h \in Handlers : \/ \E e \in Events : ProcessEvent(h, e)
                         \/ RetryTransient(h) \/ RetryUnsynced(h) \/ SendDeadLetter(h)
  \/ UNCHANGED vars

LEMMA StepCases ==
  ASSUME [Next]_vars
  PROVE  \/ StandingStep
         \/ \E h \in Handlers : \/ \E m \in queue : Receive(h, m)
                                \/ Complete(h) \/ PageFails(h)
BY DEF Next, PageStep, StandingStep

LEMMA SettledGrows ==
  ASSUME TypeOK, [Next]_vars
  PROVE  /\ done \subseteq done' /\ poisoned \subseteq poisoned'
         /\ deadLetters \subseteq deadLetters' /\ DeadEvents \subseteq DeadEvents'
         /\ nextId \in Nat /\ nextId' \in Nat /\ nextId <= nextId'
         /\ committed \subseteq committed'
<1>1. /\ done \subseteq done' /\ poisoned \subseteq poisoned'
      /\ deadLetters \subseteq deadLetters' /\ committed \subseteq committed'
      /\ nextId' = nextId \/ nextId' = nextId + 1
  <2>1. CASE UNCHANGED vars
    BY <2>1 DEF vars
  <2>2. ASSUME NEW e \in Events, Commit(e) PROVE <1>1!:
    BY <2>2 DEF Commit
  <2>3. ASSUME NEW s \in Starters, Start(s) \/ StartStep(s) \/ StartFails(s) PROVE <1>1!:
    BY <2>3 DEF Start, StartStep, StartFails, QueryAppointments, QueryPetitions, SendPage,
                Reject, StoreAppointmentDate, StorePetitionDate, exporting
  <2>4. ASSUME NEW h \in Handlers, PageStep(h) \/ PageFails(h) PROVE <1>1!:
    BY <2>4 DEF PageStep, PageFails, Receive, ProcessEvent, Finished, FinishedWithDlq,
                FailedForGood, NotYetSynced, TransientError, RetryTransient, RetryUnsynced,
                Requeue, GiveUp, SendDeadLetter, Complete, paging, processing
  <2>. QED BY <2>1, <2>2, <2>3, <2>4 DEF Next
<1>. QED BY <1>1 DEF TypeOK, DeadEvents

LEMMA Standing ==
  ASSUME TypeOK, StandingStep
  PROVE  /\ queue \subseteq queue'
         /\ \A h \in Handlers : pagePc[h] # "idle" =>
              pagePc'[h] # "idle" /\ page'[h].message = page[h].message
<1>1. CASE UNCHANGED vars
  BY <1>1 DEF vars, handler
<1>2. ASSUME NEW e \in Events, Commit(e) PROVE queue' = queue /\ handler' = handler
  BY <1>2 DEF Commit
<1>3. ASSUME NEW s \in Starters, Start(s) \/ StartStep(s) \/ StartFails(s)
      PROVE  queue \subseteq queue' /\ handler' = handler
  BY <1>3 DEF Start, StartStep, StartFails, QueryAppointments, QueryPetitions, SendPage,
              Reject, StoreAppointmentDate, StorePetitionDate, exporting
<1>4. ASSUME NEW h \in Handlers, NEW e \in Events, ProcessEvent(h, e)
      PROVE  /\ queue' = queue /\ pagePc' = pagePc
             /\ \A g \in Handlers : page'[g].message = page[g].message
  BY <1>4 DEF ProcessEvent, Finished, FinishedWithDlq, FailedForGood, NotYetSynced,
              TransientError, processing, TypeOK, Page
<1>5. ASSUME NEW h \in Handlers, RetryTransient(h) \/ RetryUnsynced(h) \/ SendDeadLetter(h)
      PROVE  /\ queue \subseteq queue'
             /\ \A g \in Handlers : /\ pagePc[g] # "idle" => pagePc'[g] # "idle"
                                    /\ page'[g].message = page[g].message
  BY <1>5 DEF RetryTransient, RetryUnsynced, Requeue, GiveUp, SendDeadLetter, TypeOK, Page
<1>. QED BY <1>1, <1>2, <1>3, <1>4, <1>5 DEF StandingStep, handler

(* What happens to a message: it stays, perhaps taken or made visible      *)
(* again, or its events are out of harm or in a younger message.           *)
LEMMA MessageKept ==
  ASSUME TypeOK, PagesInv, [Next]_vars, NEW m \in Live
  PROVE  \/ \E k \in Live' : k.id = m.id /\ k.events = m.events
         \/ \A e \in m.events : Later(e, m.id)'
<1>0. m \in Message /\ m.id \in Nat
  BY DEF Live, InFlight, TypeOK, Page, Message
<1>1. CASE StandingStep
  <2>1. CASE m \in queue
    BY <1>1, <2>1, Standing DEF Live
  <2>2. CASE m \in InFlight
    <3>1. PICK h \in Handlers : pagePc[h] # "idle" /\ m = page[h].message
      BY <2>2 DEF InFlight
    <3>2. pagePc'[h] # "idle" /\ m = page'[h].message
      BY <1>1, <3>1, Standing
    <3>. QED BY <3>2 DEF Live, InFlight
  <2>. QED BY <2>1, <2>2 DEF Live
<1>2. ASSUME NEW h \in Handlers, NEW r \in queue, Receive(h, r)
      PROVE  \E k \in Live' : k.id = m.id /\ k.events = m.events
  <2>1. page'[h].message = [r EXCEPT !.dequeues = @ + 1] /\ pagePc'[h] # "idle"
    BY <1>2 DEF Receive, TypeOK, NoPage
  <2>2. page'[h].message \in Live'
    BY <2>1 DEF Live, InFlight
  <2>3. CASE m = r
    <3>1. page'[h].message.id = m.id /\ page'[h].message.events = m.events
      BY <1>0, <2>1, <2>3 DEF Message
    <3>. QED BY <2>2, <3>1
  <2>4. CASE m # r /\ m \in queue
    BY <1>2, <2>4 DEF Receive, Live
  <2>5. CASE m \in InFlight
    <3>1. PICK g \in Handlers : pagePc[g] # "idle" /\ m = page[g].message
      BY <2>5 DEF InFlight
    <3>2. pagePc'[g] # "idle" /\ m = page'[g].message
      BY <1>2, <3>1 DEF Receive, TypeOK
    <3>. QED BY <3>2 DEF Live, InFlight
  <2>. QED BY <2>3, <2>4, <2>5 DEF Live
<1>3. ASSUME NEW h \in Handlers, Complete(h) \/ PageFails(h),
             ~(pagePc[h] # "idle" /\ m = page[h].message)
      PROVE  m \in Live'
  <2>1. CASE m \in queue
    BY <1>3, <2>1 DEF Complete, PageFails, Live
  <2>2. CASE m \in InFlight
    <3>1. PICK g \in Handlers : pagePc[g] # "idle" /\ m = page[g].message
      BY <2>2 DEF InFlight
    <3>2. pagePc'[g] # "idle" /\ m = page'[g].message
      BY <1>3, <3>1 DEF Complete, PageFails, TypeOK
    <3>. QED BY <3>2 DEF Live, InFlight
  <2>. QED BY <2>1, <2>2 DEF Live
<1>4. ASSUME NEW h \in Handlers, Complete(h), pagePc[h] # "idle", m = page[h].message
      PROVE  \A e \in m.events : Later(e, m.id)'
  <2>1. SUFFICES ASSUME NEW e \in m.events PROVE Later(e, m.id)'
    OBVIOUS
  <2>2. ~Owed(h, e)
    BY <1>4 DEF Complete, Owed, Letter
  <2>3. Later(e, m.id)
    BY <1>4, <2>2 DEF PagesInv
  <2>4. CASE e \in done \cup DeadEvents \cup poisoned
    BY <2>4, SettledGrows DEF Later
  <2>5. CASE \E k \in Live : k.id > m.id /\ e \in k.events
    <3>1. PICK k \in Live : k.id > m.id /\ e \in k.events
      BY <2>5
    <3>2. k # m
      BY <1>0, <3>1
    <3>3. k \in Live'
      <4>1. CASE k \in queue
        BY <1>4, <4>1 DEF Complete, Live
      <4>2. CASE k \in InFlight
        <5>1. PICK g \in Handlers : pagePc[g] # "idle" /\ k = page[g].message
          BY <4>2 DEF InFlight
        <5>2. pagePc'[g] # "idle" /\ k = page'[g].message
          BY <1>4, <3>2, <5>1 DEF Complete, TypeOK
        <5>. QED BY <5>2 DEF Live, InFlight
      <4>. QED BY <4>1, <4>2 DEF Live
    <3>. QED BY <3>1, <3>3 DEF Later
  <2>. QED BY <2>3, <2>4, <2>5 DEF Later
<1>5. ASSUME NEW h \in Handlers, PageFails(h), pagePc[h] # "idle", m = page[h].message
      PROVE  m \in Live' \/ m.events \subseteq poisoned'
  BY <1>5 DEF PageFails, Live
<1>6. ASSUME m.events \subseteq poisoned' PROVE \A e \in m.events : Later(e, m.id)'
  BY <1>6 DEF Later
<1>. QED BY <1>1, <1>2, <1>3, <1>4, <1>5, <1>6, StepCases
LEMMA LaterKept ==
  ASSUME TypeOK, PagesInv, [Next]_vars, NEW e \in Events, NEW i \in Nat, Later(e, i)
  PROVE  Later(e, i)'
<1>1. CASE e \in done \cup DeadEvents \cup poisoned
  BY <1>1, SettledGrows DEF Later
<1>2. CASE \E m \in Live : m.id > i /\ e \in m.events
  <2>1. PICK m \in Live : m.id > i /\ e \in m.events
    BY <1>2
  <2>2. m.id \in Nat
    BY DEF Live, InFlight, TypeOK, Page, Message
  <2>3. CASE \E k \in Live' : k.id = m.id /\ k.events = m.events
    BY <2>1, <2>3 DEF Later
  <2>4. CASE Later(e, m.id)'
    <3>1. CASE e \in done' \cup DeadEvents' \cup poisoned'
      BY <3>1 DEF Later
    <3>2. CASE \E k \in Live' : k.id > m.id /\ e \in k.events
      <4>1. PICK k \in Live' : k.id > m.id /\ e \in k.events
        BY <3>2
      <4>2. k.id \in Nat
        BY <4>1, TypeStep DEF Live, InFlight, TypeOK, Page, Message
      <4>3. k.id > i
        BY <2>1, <2>2, <4>1, <4>2
      <4>. QED BY <4>1, <4>3 DEF Later
    <3>. QED BY <2>4, <3>1, <3>2 DEF Later
  <2>. QED BY <2>1, <2>3, <2>4, MessageKept
<1>. QED BY <1>1, <1>2 DEF Later

LEMMA KnownIsLater ==
  ASSUME TypeOK, IdsInv, NEW e \in Events
  PROVE  e \in Known <=> Later(e, 0)
BY DEF Known, Accounted, Later, Live, IdsInv

LEMMA KnownKept ==
  ASSUME TypeOK, IdsInv, PagesInv, [Next]_vars
  PROVE  Known \subseteq Known'
<1>1. SUFFICES ASSUME NEW e \in Known PROVE e \in Known'
  OBVIOUS
<1>2. e \in Events /\ Later(e, 0)
  BY KnownIsLater DEF Known
<1>3. Later(e, 0)'
  BY <1>2, LaterKept
<1>. QED BY <1>2, <1>3 DEF Known, Accounted, Later, Live

-----------------------------------------------------------------------------
(* Ids are given once. *)

(* A handler that is not Receive's holds the message it held. *)
Holding ==
  \A g \in Handlers : pagePc'[g] # "idle" =>
    pagePc[g] # "idle" /\ page'[g].message = page[g].message

LEMMA HoldingSteps ==
  ASSUME TypeOK, NEW h \in Handlers,
         \/ \E e \in Events : ProcessEvent(h, e)
         \/ RetryTransient(h) \/ RetryUnsynced(h) \/ SendDeadLetter(h)
         \/ Complete(h) \/ PageFails(h)
  PROVE  Holding
<1>1. ASSUME NEW e \in Events, ProcessEvent(h, e) PROVE Holding
  <2>1. pagePc' = pagePc /\ pagePc[h] = "process" /\ page \in [Handlers -> Page]
    BY <1>1 DEF ProcessEvent, processing, TypeOK
  <2>2. CASE Finished(h, e)
    BY <2>1, <2>2 DEF Finished, Page, Holding
  <2>3. CASE FinishedWithDlq(h, e)
    BY <2>1, <2>3 DEF FinishedWithDlq, Page, Holding
  <2>4. CASE FailedForGood(h, e)
    BY <2>1, <2>4 DEF FailedForGood, Page, Holding
  <2>5. CASE NotYetSynced(h, e)
    BY <2>1, <2>5 DEF NotYetSynced, Page, Holding
  <2>6. CASE TransientError(h, e)
    BY <2>1, <2>6 DEF TransientError, Page, Holding
  <2>. QED BY <1>1, <2>2, <2>3, <2>4, <2>5, <2>6 DEF ProcessEvent
<1>2. CASE RetryTransient(h)
  BY <1>2 DEF RetryTransient, GiveUp, TypeOK, Page, Holding
<1>3. CASE RetryUnsynced(h)
  BY <1>3 DEF RetryUnsynced, GiveUp, TypeOK, Page, Holding
<1>4. CASE SendDeadLetter(h)
  BY <1>4 DEF SendDeadLetter, TypeOK, Page, Holding
<1>5. CASE Complete(h)
  BY <1>5 DEF Complete, TypeOK, Holding
<1>6. CASE PageFails(h)
  BY <1>6 DEF PageFails, TypeOK, Holding
<1>. QED BY <1>1, <1>2, <1>3, <1>4, <1>5, <1>6

LEMMA IdsStep ==
  ASSUME TypeOK, IdsInv, [Next]_vars
  PROVE  IdsInv'
<1>1. SUFFICES ASSUME NEW m \in Live' PROVE 0 < m.id /\ m.id < nextId'
  BY DEF IdsInv
<1>2. m \in Message /\ m.id \in Nat
  BY TypeStep DEF Live, InFlight, TypeOK, Page, Message
<1>3. ASSUME \E k \in Live : k.id = m.id PROVE 0 < m.id /\ m.id < nextId'
  BY <1>2, <1>3, SettledGrows DEF IdsInv
<1>4. ASSUME m.id = nextId, nextId' = nextId + 1 PROVE 0 < m.id /\ m.id < nextId'
  BY <1>4 DEF TypeOK
<1>5. ASSUME Holding, m \in InFlight' PROVE m \in Live
  BY <1>5 DEF Holding, Live, InFlight
<1>6. ASSUME queue' \subseteq queue, Holding PROVE m \in Live
  BY <1>5, <1>6 DEF Live
<1>7. ASSUME queue' \subseteq queue, handler' = handler PROVE m \in Live
  BY <1>7 DEF handler, Live, InFlight
<1>8. CASE UNCHANGED vars
  BY <1>3, <1>7, <1>8 DEF vars
<1>9. ASSUME NEW e \in Events, Commit(e) PROVE m \in Live
  BY <1>7, <1>9 DEF Commit
<1>10. ASSUME NEW s \in Starters, Start(s) \/ StartStep(s) \/ StartFails(s)
       PROVE  m \in Live \/ (m.id = nextId /\ nextId' = nextId + 1)
  <2>1. CASE SendPage(s)
    <3>1. PICK events \in SUBSET (run[s].events \ Oversized) :
            queue' = queue \cup {NewMessage(events)}
      BY <2>1 DEF SendPage
    <3>2. NewMessage(events).id = nextId
      BY DEF NewMessage
    <3>. QED BY <2>1, <3>1, <3>2 DEF SendPage, exporting, handler, Live, InFlight
  <2>2. CASE ~SendPage(s)
    <3>1. CASE Start(s) \/ StartFails(s)
      BY <1>7, <3>1 DEF Start, StartFails, exporting
    <3>2. CASE QueryAppointments(s) \/ QueryPetitions(s) \/ Reject(s)
      BY <1>7, <3>2 DEF QueryAppointments, QueryPetitions, Reject, exporting
    <3>3. CASE StoreAppointmentDate(s) \/ StorePetitionDate(s)
      BY <1>7, <3>3 DEF StoreAppointmentDate, StorePetitionDate, exporting
    <3>. QED BY <1>10, <2>2, <3>1, <3>2, <3>3 DEF StartStep
  <2>. QED BY <2>1, <2>2
<1>11. ASSUME NEW h \in Handlers, NEW r \in queue, Receive(h, r)
       PROVE  \E k \in Live : k.id = m.id
  <2>1. r \in Message
    BY DEF TypeOK
  <2>2. /\ queue' \subseteq queue
        /\ page'[h].message.id = r.id
        /\ \A g \in Handlers : g # h => pagePc'[g] = pagePc[g] /\ page'[g] = page[g]
    BY <1>11, <2>1 DEF Receive, TypeOK, NoPage, Message
  <2>. QED BY <2>2 DEF Live, InFlight
<1>12. ASSUME NEW h \in Handlers, RetryTransient(h)
       PROVE  m \in Live \/ (m.id = nextId /\ nextId' = nextId + 1)
  <2> DEFINE retry == [NewMessage(page[h].transient) EXCEPT
                         !.transientRetries = page[h].message.transientRetries + 1]
  <2>1. retry.id = nextId
    BY DEF NewMessage
  <2>2. queue' = queue \/ (queue' = queue \cup {retry} /\ nextId' = nextId + 1)
    BY <1>12 DEF RetryTransient, Requeue, GiveUp
  <2>3. Holding
    BY <1>12, HoldingSteps
  <2>. HIDE DEF retry
  <2>4. CASE m \in queue'
    BY <2>1, <2>2, <2>4 DEF Live
  <2>. QED BY <1>5, <2>3, <2>4 DEF Live
<1>13. ASSUME NEW h \in Handlers, RetryUnsynced(h)
       PROVE  m \in Live \/ (m.id = nextId /\ nextId' = nextId + 1)
  <2> DEFINE retry == [NewMessage(page[h].unsynced) EXCEPT
                         !.unsyncedRetries = page[h].message.unsyncedRetries + 1]
  <2>1. retry.id = nextId
    BY DEF NewMessage
  <2>2. queue' = queue \/ (queue' = queue \cup {retry} /\ nextId' = nextId + 1)
    BY <1>13 DEF RetryUnsynced, Requeue, GiveUp
  <2>3. Holding
    BY <1>13, HoldingSteps
  <2>. HIDE DEF retry
  <2>4. CASE m \in queue'
    BY <2>1, <2>2, <2>4 DEF Live
  <2>. QED BY <1>5, <2>3, <2>4 DEF Live
<1>14. ASSUME NEW h \in Handlers,
              (\E e \in Events : ProcessEvent(h, e)) \/ SendDeadLetter(h) \/ Complete(h)
       PROVE  m \in Live
  <2>1. queue' = queue
    BY <1>14 DEF ProcessEvent, processing, SendDeadLetter, Complete
  <2>. QED BY <1>6, <1>14, <2>1, HoldingSteps
<1>15. ASSUME NEW h \in Handlers, PageFails(h) PROVE m \in Live
  <2>1. page[h].message \in Live /\ queue' \subseteq queue \cup {page[h].message}
    BY <1>15 DEF PageFails, Live, InFlight
  <2>. QED BY <1>5, <1>15, <2>1, HoldingSteps DEF Live
<1>. QED BY <1>3, <1>4, <1>8, <1>9, <1>10, <1>11, <1>12, <1>13, <1>14, <1>15 DEF Next, PageStep

-----------------------------------------------------------------------------
(* A page handler sees to every event of its message. *)
PageInv(h) ==
  pagePc[h] # "idle" =>
    \A e \in page[h].message.events : Owed(h, e) \/ Later(e, page[h].message.id)

LEMMA PageKept ==
  ASSUME TypeOK, PagesInv, [Next]_vars, NEW h \in Handlers,
         pagePc'[h] = pagePc[h], page'[h] = page[h]
  PROVE  PageInv(h)'
<1>1. SUFFICES ASSUME pagePc[h] # "idle", NEW e \in page[h].message.events
               PROVE  Owed(h, e)' \/ Later(e, page[h].message.id)'
  BY DEF PageInv
<1>2. e \in Events /\ page[h].message.id \in Nat
  BY <1>1 DEF TypeOK, Page, Message
<1>3. CASE Owed(h, e)
  BY <1>3 DEF Owed, Letter
<1>4. CASE Later(e, page[h].message.id)
  BY <1>2, <1>4, LaterKept
<1>. QED BY <1>1, <1>3, <1>4 DEF PagesInv

LEMMA ProcessEventOwes ==
  ASSUME TypeOK, PagesInv, [Next]_vars, NEW h \in Handlers, NEW f \in Events,
         ProcessEvent(h, f)
  PROVE  PageInv(h)'
<1>1. /\ page'[h].message = page[h].message
      /\ pagePc[h] = "process" /\ pagePc'[h] = "process"
      /\ page'[h].todo = page[h].todo \ {f}
      /\ page[h].transient \subseteq page'[h].transient
      /\ page[h].unsynced \subseteq page'[h].unsynced
      /\ page[h].dead \subseteq page'[h].dead
  BY DEF ProcessEvent, Finished, FinishedWithDlq, FailedForGood, NotYetSynced,
         TransientError, processing, TypeOK, Page
<1>i. PICK i \in Nat : i = page[h].message.id
  BY DEF TypeOK, Page, Message
<1>2. SUFFICES ASSUME NEW e \in page[h].message.events
               PROVE  Owed(h, e)' \/ Later(e, i)'
  BY <1>1, <1>i DEF PageInv, Later
<1>3. e \in Events
  BY DEF TypeOK, Page, Message
<1>4. CASE Later(e, i)
  BY <1>3, <1>4, LaterKept
<1>5. CASE Owed(h, e) /\ e # f
  BY <1>1, <1>5 DEF Owed, Letter
<1>6. CASE e = f
  <2>1. CASE Finished(h, f) \/ FinishedWithDlq(h, f)
    BY <1>6, <2>1 DEF Finished, FinishedWithDlq, Later
  <2>2. CASE FailedForGood(h, f)
    <3>1. Letters({f}, "failed") \subseteq page'[h].dead
      BY <2>2 DEF FailedForGood, TypeOK, Page
    <3>. QED BY <1>6, <3>1, LettersType DEF Owed, Letter, Causes
  <2>3. CASE NotYetSynced(h, f)
    <3>1. f \in page'[h].unsynced
      BY <2>3 DEF NotYetSynced, TypeOK, Page
    <3>. QED BY <1>1, <1>6, <3>1 DEF Owed
  <2>4. CASE TransientError(h, f)
    <3>1. f \in page'[h].transient
      BY <2>4 DEF TransientError, TypeOK, Page
    <3>. QED BY <1>1, <1>6, <3>1 DEF Owed
  <2>. QED BY <2>1, <2>2, <2>3, <2>4 DEF ProcessEvent
<1>. QED BY <1>1, <1>i, <1>4, <1>5, <1>6 DEF PagesInv

LEMMA RetriesOwe ==
  ASSUME TypeOK, IdsInv, PagesInv, [Next]_vars, NEW h \in Handlers,
         RetryTransient(h) \/ RetryUnsynced(h)
  PROVE  PageInv(h)'
<1> DEFINE again == [NewMessage(page[h].transient) EXCEPT
                       !.transientRetries = page[h].message.transientRetries + 1]
           later == [NewMessage(page[h].unsynced) EXCEPT
                       !.unsyncedRetries = page[h].message.unsyncedRetries + 1]
<1>1. /\ page'[h].message = page[h].message
      /\ page'[h].unsynced = page[h].unsynced
      /\ page[h].dead \subseteq page'[h].dead
      /\ pagePc[h] # "idle"
  BY DEF RetryTransient, RetryUnsynced, GiveUp, TypeOK, Page
<1>i. PICK i \in Nat : i = page[h].message.id
  BY DEF TypeOK, Page, Message
<1>2. i < nextId
  BY <1>1, <1>i DEF IdsInv, Live, InFlight
<1>3. /\ again.id = nextId /\ again.events = page[h].transient
      /\ later.id = nextId /\ later.events = page[h].unsynced
  BY DEF NewMessage
<1>4. SUFFICES ASSUME NEW e \in page[h].message.events
               PROVE  Owed(h, e)' \/ Later(e, i)'
  BY <1>1, <1>i DEF PageInv, Later
<1>5. e \in Events
  BY DEF TypeOK, Page, Message
<1>6. CASE Later(e, i)
  BY <1>5, <1>6, LaterKept
<1>7. CASE Letter(h, e)
  BY <1>1, <1>7 DEF Letter, Owed
<1>8. CASE RetryTransient(h) /\ e \in page[h].unsynced
  <2>1. pagePc'[h] = "unsynced"
    BY <1>8 DEF RetryTransient, TypeOK
  <2>. QED BY <1>1, <1>8, <2>1 DEF Owed
<1>9. CASE RetryTransient(h) /\ e \in page[h].transient
  <2>1. CASE page[h].message.transientRetries < TransientLimit
    <3>1. queue' = queue \cup {again}
      BY <1>9, <2>1 DEF RetryTransient, Requeue
    <3>2. again \in Live' /\ again.id > i
      BY <1>2, <1>3, <3>1 DEF Live, TypeOK
    <3>. QED BY <1>3, <1>9, <3>2 DEF Later
  <2>2. CASE ~(page[h].message.transientRetries < TransientLimit)
    <3>1. Letters(page[h].transient, "transient") \subseteq page'[h].dead
      BY <1>9, <2>2 DEF RetryTransient, GiveUp, TypeOK, Page
    <3>2. page[h].transient \in SUBSET Events
      BY DEF TypeOK, Page
    <3>3. \E d \in Letters(page[h].transient, "transient") : d.event = e
      BY <1>9, <3>2, LettersType DEF Causes
    <3>. QED BY <3>1, <3>3 DEF Owed, Letter
  <2>. QED BY <2>1, <2>2
<1>10. CASE RetryUnsynced(h) /\ e \in page[h].unsynced
  <2>1. CASE page[h].message.unsyncedRetries < UnsyncedLimit
    <3>1. queue' = queue \cup {later}
      BY <1>10, <2>1 DEF RetryUnsynced, Requeue
    <3>2. later \in Live' /\ later.id > i
      BY <1>2, <1>3, <3>1 DEF Live, TypeOK
    <3>. QED BY <1>3, <1>10, <3>2 DEF Later
  <2>2. CASE ~(page[h].message.unsyncedRetries < UnsyncedLimit)
    <3>1. Letters(page[h].unsynced, "unsynced") \subseteq page'[h].dead
      BY <1>10, <2>2 DEF RetryUnsynced, GiveUp, TypeOK, Page
    <3>2. page[h].unsynced \in SUBSET Events
      BY DEF TypeOK, Page
    <3>3. \E d \in Letters(page[h].unsynced, "unsynced") : d.event = e
      BY <1>10, <3>2, LettersType DEF Causes
    <3>. QED BY <3>1, <3>3 DEF Owed, Letter
  <2>. QED BY <2>1, <2>2
<1>11. Owed(h, e) => Letter(h, e) \/ e \in page[h].unsynced
                       \/ (RetryTransient(h) /\ e \in page[h].transient)
  BY DEF RetryTransient, RetryUnsynced, Owed
<1>. QED BY <1>1, <1>i, <1>6, <1>7, <1>8, <1>9, <1>10, <1>11 DEF PagesInv

LEMMA SendDeadLetterOwes ==
  ASSUME TypeOK, PagesInv, [Next]_vars, NEW h \in Handlers, SendDeadLetter(h)
  PROVE  PageInv(h)'
<1>1. PICK d \in page[h].dead :
        /\ deadLetters' = deadLetters \cup {d}
        /\ page' = [page EXCEPT ![h].dead = @ \ {d}]
        /\ pagePc' = pagePc /\ pagePc[h] = "dead"
  BY DEF SendDeadLetter
<1>2. page'[h].message = page[h].message /\ page'[h].dead = page[h].dead \ {d}
  BY <1>1 DEF TypeOK, Page
<1>i. PICK i \in Nat : i = page[h].message.id
  BY DEF TypeOK, Page, Message
<1>3. SUFFICES ASSUME NEW e \in page[h].message.events
               PROVE  Owed(h, e)' \/ Later(e, i)'
  BY <1>2, <1>i DEF PageInv, Later
<1>4. e \in Events
  BY DEF TypeOK, Page, Message
<1>5. CASE Later(e, i)
  BY <1>4, <1>5, LaterKept
<1>6. CASE e = d.event
  BY <1>1, <1>6 DEF Later, DeadEvents
<1>7. CASE Letter(h, e) /\ e # d.event
  BY <1>2, <1>7 DEF Letter, Owed
<1>8. Owed(h, e) => Letter(h, e)
  BY <1>1 DEF Owed
<1>. QED BY <1>1, <1>i, <1>5, <1>6, <1>7, <1>8 DEF PagesInv

LEMMA PagesStep ==
  ASSUME TypeOK, IdsInv, PagesInv, [Next]_vars
  PROVE  PagesInv'
<1>1. SUFFICES ASSUME NEW h \in Handlers PROVE PageInv(h)'
  BY DEF PagesInv, PageInv
<1>2. CASE UNCHANGED vars
  BY <1>2, PageKept DEF vars, handler
<1>3. ASSUME NEW e \in Events, Commit(e) PROVE PageInv(h)'
  BY <1>3, PageKept DEF Commit, handler
<1>4. ASSUME NEW s \in Starters, Start(s) \/ StartStep(s) \/ StartFails(s) PROVE PageInv(h)'
  <2>1. handler' = handler
    BY <1>4 DEF Start, StartStep, StartFails, QueryAppointments, QueryPetitions, SendPage,
                Reject, StoreAppointmentDate, StorePetitionDate, exporting
  <2>. QED BY <2>1, PageKept DEF handler
<1>5. ASSUME NEW g \in Handlers, PageStep(g) \/ PageFails(g), g # h PROVE PageInv(h)'
  <2>1. pagePc'[h] = pagePc[h] /\ page'[h] = page[h]
    BY <1>5 DEF PageStep, PageFails, Receive, ProcessEvent, Finished, FinishedWithDlq,
                FailedForGood, NotYetSynced, TransientError, RetryTransient, RetryUnsynced,
                GiveUp, SendDeadLetter, Complete, processing, TypeOK
  <2>. QED BY <2>1, PageKept
<1>6. ASSUME NEW m \in queue, Receive(h, m) PROVE PageInv(h)'
  <2>1. m \in Message
    BY DEF TypeOK
  <2>2. /\ page'[h].todo = m.events /\ page'[h].message.events = m.events
        /\ pagePc'[h] = "process"
    BY <1>6, <2>1 DEF Receive, TypeOK, NoPage, Message
  <2>. QED BY <2>2 DEF PageInv, Owed
<1>7. CASE Complete(h) \/ PageFails(h)
  BY <1>7 DEF Complete, PageFails, TypeOK, PageInv
<1>8. ASSUME PageStep(h) PROVE PageInv(h)'
  BY <1>6, <1>7, <1>8, ProcessEventOwes, RetriesOwe, SendDeadLetterOwes DEF PageStep
<1>. QED BY <1>2, <1>3, <1>4, <1>5, <1>7, <1>8 DEF Next

-----------------------------------------------------------------------------
(* The dates. *)

(* Covered', with a date and exceptions that are not primed. *)
CoveredNext(src, date, except) ==
  /\ date = 0 \/ \E e \in committed' : Source[e] = src /\ TxDate[e] = date
  /\ \A e \in committed' :
       Source[e] = src /\ TxDate[e] <= date => e \in Known' \/ e \in except

(* A new transaction is beyond every date; the others stay accounted for,  *)
(* and an exception is dropped only when its event is.                     *)
LEMMA CoveredKept ==
  ASSUME TypeOK, IdsInv, PagesInv, [Next]_vars,
         NEW src \in Sources, NEW date \in Nat, NEW before, NEW after,
         Covered(src, date, before),
         \A e \in before : e \in after \/ e \in Known'
  PROVE  CoveredNext(src, date, after)
<1>1. committed \subseteq committed' /\ Known \subseteq Known'
  BY SettledGrows, KnownKept
<1>2. date = 0 \/ \E e \in committed' : Source[e] = src /\ TxDate[e] = date
  BY <1>1 DEF Covered
<1>3. ASSUME NEW e \in committed', Source[e] = src, TxDate[e] <= date
      PROVE  e \in Known' \/ e \in after
  <2>1. CASE e \in committed
    BY <1>1, <1>3, <2>1 DEF Covered
  <2>2. CASE e \notin committed
    <3>1. e \in Events /\ Commit(e)
      <4>1. ASSUME NEW s \in Starters, Start(s) \/ StartStep(s) \/ StartFails(s)
            PROVE  committed' = committed
        BY <4>1 DEF Start, StartStep, StartFails, QueryAppointments, QueryPetitions, SendPage,
                    Reject, StoreAppointmentDate, StorePetitionDate, exporting
      <4>2. ASSUME NEW h \in Handlers, PageStep(h) \/ PageFails(h)
            PROVE  committed' = committed
        BY <4>2 DEF PageStep, PageFails, Receive, ProcessEvent, RetryTransient, RetryUnsynced,
                    SendDeadLetter, Complete, paging, processing
      <4>3. PICK f \in Events : Commit(f)
        BY <1>3, <2>2, <4>1, <4>2 DEF Next, vars
      <4>4. f = e
        BY <1>3, <2>2, <4>3 DEF Commit
      <4>. QED BY <4>3, <4>4
    <3>2. TxDate[e] \in Nat /\ TxDate[e] > 0
      BY <3>1, EventAssumption
    <3>3. date # 0
      BY <1>3, <3>2
    <3>4. PICK d \in committed : Source[d] = src /\ TxDate[d] = date
      BY <3>3 DEF Covered
    <3>5. TxDate[d] < TxDate[e]
      BY <1>3, <3>1, <3>4 DEF Commit
    <3>. QED BY <1>3, <3>2, <3>4, <3>5
  <2>. QED BY <2>1, <2>2
<1>. QED BY <1>2, <1>3 DEF CoveredNext

LEMMA StartKept ==
  ASSUME TypeOK, IdsInv, PagesInv, [Next]_vars, NEW s \in Starters, StartInv(s),
         startPc'[s] = startPc[s], run'[s] = run[s]
  PROVE  StartInv(s)'
<1>1. /\ \A src \in Sources : run[s].from[src] \in Nat /\ run[s].mark[src] \in Nat
      /\ "appointment" \in Sources /\ "petition" \in Sources
  BY DEF TypeOK, Run, Sources
<1>2. ASSUME startPc[s] # "idle", NEW src \in Sources
      PROVE  Covered(src, run[s].from[src], {})'
  <2>1. Covered(src, run[s].from[src], {})
    BY <1>2 DEF StartInv
  <2>2. CoveredNext(src, run[s].from[src], {})
    BY <1>1, <2>1, CoveredKept
  <2>. QED BY <2>2 DEF Covered, CoveredNext
<1>3. ASSUME startPc[s] \in {"petitions", "queue", "store"}
      PROVE  Covered("appointment", run[s].mark["appointment"], run[s].events)'
  <2>1. Covered("appointment", run[s].mark["appointment"], run[s].events)
    BY <1>3 DEF StartInv
  <2>2. CoveredNext("appointment", run[s].mark["appointment"], run[s].events)
    BY <1>1, <2>1, CoveredKept
  <2>. QED BY <2>2 DEF Covered, CoveredNext
<1>4. ASSUME startPc[s] \in {"queue", "store"}, run[s].petition
      PROVE  Covered("petition", run[s].mark["petition"], run[s].events)'
  <2>1. Covered("petition", run[s].mark["petition"], run[s].events)
    BY <1>4 DEF StartInv
  <2>2. CoveredNext("petition", run[s].mark["petition"], run[s].events)
    BY <1>1, <2>1, CoveredKept
  <2>. QED BY <2>2 DEF Covered, CoveredNext
<1>. QED BY <1>2, <1>3, <1>4 DEF StartInv

(* What a query returns covers its date, whatever the new mark is. *)
LEMMA QueryCovers ==
  ASSUME TypeOK, NEW s \in Starters, NEW src \in Sources, NEW date,
         Covered(src, run[s].from[src], {}),
         date \in {run[s].from[src]} \cup {TxDate[e] : e \in committed},
         IsLatest(date, Found(s, src), run[s].from[src])
  PROVE  date \in Nat /\ Covered(src, date, Found(s, src))
<1>1. run[s].from[src] \in Nat /\ \A e \in committed : TxDate[e] \in Nat
  BY EventAssumption DEF TypeOK, Run
<1>2. date \in Nat
  BY <1>1
<1>3. date = 0 \/ \E e \in committed : Source[e] = src /\ TxDate[e] = date
  BY DEF IsLatest, Found, Covered
<1>4. ASSUME NEW e \in committed, Source[e] = src, TxDate[e] <= date
      PROVE  e \in Known \/ e \in Found(s, src)
  <2>1. CASE TxDate[e] <= run[s].from[src]
    BY <1>4, <2>1 DEF Covered
  <2>2. CASE TxDate[e] > run[s].from[src]
    BY <1>4, <2>2 DEF Found
  <2>. QED BY <1>1, <2>1, <2>2
<1>. QED BY <1>2, <1>3, <1>4 DEF Covered

LEMMA StartInvStep ==
  ASSUME TypeOK, QueueInv, [Next]_vars, NEW s \in Starters,
         Start(s) \/ StartStep(s) \/ StartFails(s)
  PROVE  StartInv(s)'
<1>0. /\ run[s] \in Run /\ IdsInv /\ PagesInv /\ StartInv(s) /\ MarksInv
      /\ "appointment" \in Sources /\ "petition" \in Sources
      /\ \A src \in Sources : run[s].from[src] \in Nat /\ run[s].mark[src] \in Nat
                              /\ watermark[src] \in Nat
  BY DEF QueueInv, StartsInv, TypeOK, Run, Sources
<1>from. ASSUME startPc[s] # "idle", run'[s].from = run[s].from, NEW src \in Sources
         PROVE  Covered(src, run[s].from[src], {})'
  <2>1. CoveredNext(src, run[s].from[src], {})
    BY <1>0, <1>from, CoveredKept DEF StartInv
  <2>. QED BY <1>from, <2>1 DEF Covered, CoveredNext
<1>mark. ASSUME NEW src \in Sources, Covered(src, run[s].mark[src], run[s].events),
                run'[s].mark[src] = run[s].mark[src],
                \A e \in run[s].events : e \in run'[s].events \/ e \in Known'
         PROVE  Covered(src, run[s].mark[src], run[s].events)'
  <2>1. CoveredNext(src, run[s].mark[src], run'[s].events)
    BY <1>0, <1>mark, CoveredKept
  <2>. QED BY <1>mark, <2>1 DEF Covered, CoveredNext
<1>query. ASSUME startPc[s] # "idle", NEW src \in Sources, Query(s, src)
          PROVE  /\ Covered(src, run[s].mark[src], run[s].events)'
                 /\ run'[s].from = run[s].from
                 /\ run[s].events \subseteq run'[s].events
                 /\ run'[s].petition = (src = "petition")
                 /\ \A other \in Sources \ {src} : run'[s].mark[other] = run[s].mark[other]
  <2>1. PICK date \in {run[s].from[src]} \cup {TxDate[e] : e \in committed} :
          /\ IsLatest(date, Found(s, src), run[s].from[src])
          /\ run' = [run EXCEPT ![s].mark[src] = date, ![s].events = @ \cup Found(s, src),
                                ![s].petition = (src = "petition")]
    BY <1>query DEF Query
  <2>2. /\ run'[s].mark[src] = date /\ run'[s].events = run[s].events \cup Found(s, src)
        /\ run'[s].from = run[s].from
        /\ run'[s].petition = (src = "petition")
        /\ \A other \in Sources \ {src} : run'[s].mark[other] = run[s].mark[other]
    BY <2>1 DEF TypeOK, Run
  <2>3. Covered(src, run[s].from[src], {})
    BY <1>0, <1>query DEF StartInv
  <2>4. date \in Nat /\ Covered(src, date, Found(s, src))
    BY <2>1, <2>3, QueryCovers
  <2>5. CoveredNext(src, date, run'[s].events)
    BY <1>0, <2>2, <2>4, CoveredKept
  <2>. QED BY <2>2, <2>5 DEF Covered, CoveredNext
<1>1. CASE Start(s)
  <2>1. PICK kept \in SUBSET Sources :
          run' = [run EXCEPT ![s] = [NoRun EXCEPT !.from =
                    [src \in Sources |-> IF src \in kept THEN watermark[src] ELSE 0]]]
    BY <1>1 DEF Start
  <2>2. startPc'[s] = "appointments"
        /\ run'[s].from = [src \in Sources |-> IF src \in kept THEN watermark[src] ELSE 0]
    BY <1>1, <2>1 DEF Start, TypeOK, NoRun
  <2>3. ASSUME NEW src \in Sources PROVE Covered(src, run[s].from[src], {})'
    <3>1. Covered(src, watermark[src], {}) /\ Covered(src, 0, {})
      BY <1>0, EventAssumption DEF MarksInv, Covered, TypeOK
    <3>2. CoveredNext(src, watermark[src], {}) /\ CoveredNext(src, 0, {})
      BY <1>0, <3>1, CoveredKept
    <3>. QED BY <2>2, <3>2 DEF Covered, CoveredNext
  <2>. QED BY <2>2, <2>3 DEF StartInv
<1>2. CASE QueryAppointments(s)
  <2>1. Query(s, "appointment") /\ startPc[s] # "idle" /\ startPc'[s] = "petitions"
    BY <1>2 DEF QueryAppointments, TypeOK
  <2>2. Covered("appointment", run[s].mark["appointment"], run[s].events)'
        /\ run'[s].from = run[s].from /\ ~run'[s].petition
    BY <1>0, <1>query, <2>1
  <2>. QED BY <1>from, <2>1, <2>2 DEF StartInv
<1>3. CASE QueryPetitions(s)
  <2>1. /\ startPc[s] = "petitions" /\ startPc'[s] \in {"idle", "queue"}
        /\ Covered("appointment", run[s].mark["appointment"], run[s].events)
        /\ ~run[s].petition
    BY <1>0, <1>3 DEF QueryPetitions, StartInv, TypeOK
  <2>2. CASE Query(s, "petition")
    <3>1. /\ Covered("petition", run[s].mark["petition"], run[s].events)'
          /\ run'[s].from = run[s].from /\ run[s].events \subseteq run'[s].events
          /\ run'[s].mark["appointment"] = run[s].mark["appointment"]
      BY <1>0, <1>query, <2>1, <2>2
    <3>2. Covered("appointment", run[s].mark["appointment"], run[s].events)'
      BY <1>0, <1>mark, <2>1, <3>1
    <3>. QED BY <1>from, <2>1, <3>1, <3>2 DEF StartInv
  <2>3. CASE run' = run
    <3>1. Covered("appointment", run[s].mark["appointment"], run[s].events)'
      BY <1>0, <1>mark, <2>1, <2>3
    <3>. QED BY <1>from, <2>1, <2>3, <3>1 DEF StartInv
  <2>. QED BY <1>3, <2>2, <2>3 DEF QueryPetitions
<1>sent. ASSUME startPc[s] = "queue", startPc' = startPc,
                run'[s].from = run[s].from, run'[s].mark = run[s].mark,
                run'[s].petition = run[s].petition,
                \A e \in run[s].events : e \in run'[s].events \/ e \in Known'
         PROVE  StartInv(s)'
  <2>1. Covered("appointment", run[s].mark["appointment"], run[s].events)'
    BY <1>0, <1>mark, <1>sent DEF StartInv
  <2>2. run[s].petition => Covered("petition", run[s].mark["petition"], run[s].events)'
    BY <1>0, <1>mark, <1>sent DEF StartInv
  <2>. QED BY <1>from, <1>sent, <2>1, <2>2 DEF StartInv
<1>4. CASE SendPage(s)
  <2>1. PICK events \in SUBSET (run[s].events \ Oversized) :
          /\ queue' = queue \cup {NewMessage(events)}
          /\ run' = [run EXCEPT ![s].events = @ \ events]
    BY <1>4 DEF SendPage
  <2>2. /\ run'[s].from = run[s].from /\ run'[s].mark = run[s].mark
        /\ run'[s].petition = run[s].petition /\ run'[s].events = run[s].events \ events
    BY <2>1 DEF TypeOK, Run
  <2>3. events \subseteq Events /\ NewMessage(events).events = events
    BY <1>0, NewTypes DEF Run
  <2>4. events \subseteq Known'
    BY <2>1, <2>3 DEF Known, Accounted
  <2>. QED BY <1>4, <1>sent, <2>2, <2>4 DEF SendPage
<1>5. CASE Reject(s)
  <2>1. PICK e \in run[s].events :
          /\ deadLetters' = deadLetters \cup Letters({e}, "rejected")
          /\ run' = [run EXCEPT ![s].events = @ \ {e}]
    BY <1>5 DEF Reject
  <2>2. /\ run'[s].from = run[s].from /\ run'[s].mark = run[s].mark
        /\ run'[s].petition = run[s].petition /\ run'[s].events = run[s].events \ {e}
    BY <2>1 DEF TypeOK, Run
  <2>3. e \in Events
    BY <1>0 DEF Run
  <2>4. \E d \in Letters({e}, "rejected") : d.event = e
    BY <2>3, LettersType DEF Causes
  <2>5. e \in Known'
    BY <2>1, <2>3, <2>4 DEF Known, Accounted, DeadEvents
  <2>. QED BY <1>5, <1>sent, <2>2, <2>5 DEF Reject
<1>6. CASE StoreAppointmentDate(s)
  <2>1. /\ startPc[s] = "queue" /\ run' = run /\ run[s].events = {}
        /\ startPc'[s] = (IF run[s].petition THEN "store" ELSE "idle")
    BY <1>6 DEF StoreAppointmentDate, TypeOK
  <2>2. Covered("appointment", run[s].mark["appointment"], run[s].events)'
    BY <1>0, <1>mark, <2>1 DEF StartInv
  <2>3. run[s].petition => Covered("petition", run[s].mark["petition"], run[s].events)'
    BY <1>0, <1>mark, <2>1 DEF StartInv
  <2>. QED BY <1>from, <2>1, <2>2, <2>3 DEF StartInv
<1>7. CASE StorePetitionDate(s) \/ StartFails(s)
  <2>1. startPc'[s] = "idle"
    BY <1>7 DEF StorePetitionDate, StartFails, TypeOK
  <2>. QED BY <2>1 DEF StartInv
<1>. QED BY <1>1, <1>2, <1>3, <1>4, <1>5, <1>6, <1>7 DEF StartStep

LEMMA StartsStep ==
  ASSUME TypeOK, QueueInv, [Next]_vars
  PROVE  StartsInv'
<1>1. SUFFICES ASSUME NEW s \in Starters PROVE StartInv(s)'
  BY DEF StartsInv
<1>2. IdsInv /\ PagesInv /\ StartInv(s)
  BY DEF QueueInv, StartsInv
<1>3. CASE Start(s) \/ StartStep(s) \/ StartFails(s)
  BY <1>3, StartInvStep
<1>4. ASSUME startPc'[s] = startPc[s], run'[s] = run[s] PROVE StartInv(s)'
  BY <1>2, <1>4, StartKept
<1>5. CASE UNCHANGED vars
  BY <1>4, <1>5 DEF vars, starter
<1>6. ASSUME NEW e \in Events, Commit(e) PROVE StartInv(s)'
  BY <1>4, <1>6 DEF Commit, starter
<1>7. ASSUME NEW t \in Starters, Start(t) \/ StartStep(t) \/ StartFails(t), t # s
      PROVE  StartInv(s)'
  <2>1. startPc'[s] = startPc[s] /\ run'[s] = run[s]
    BY <1>7 DEF Start, StartStep, StartFails, QueryAppointments, QueryPetitions, Query, SendPage,
                Reject, StoreAppointmentDate, StorePetitionDate, TypeOK
  <2>. QED BY <1>4, <2>1
<1>8. ASSUME NEW h \in Handlers, PageStep(h) \/ PageFails(h) PROVE StartInv(s)'
  <2>1. starter' = starter
    BY <1>8 DEF PageStep, PageFails, Receive, ProcessEvent, RetryTransient, RetryUnsynced,
                SendDeadLetter, Complete, paging, processing
  <2>. QED BY <1>4, <2>1 DEF starter
<1>. QED BY <1>3, <1>5, <1>6, <1>7, <1>8 DEF Next

LEMMA MarksStep ==
  ASSUME TypeOK, QueueInv, [Next]_vars
  PROVE  MarksInv'
<1>1. SUFFICES ASSUME NEW src \in Sources PROVE Covered(src, watermark[src], {})'
  BY DEF MarksInv
<1>2. /\ IdsInv /\ PagesInv /\ StartsInv /\ Covered(src, watermark[src], {})
      /\ watermark[src] \in Nat
  BY DEF QueueInv, MarksInv, TypeOK
<1>3. ASSUME watermark'[src] = watermark[src] PROVE Covered(src, watermark[src], {})'
  <2>1. CoveredNext(src, watermark[src], {})
    BY <1>2, CoveredKept
  <2>. QED BY <1>3, <2>1 DEF Covered, CoveredNext
<1>4. ASSUME NEW s \in Starters, watermark'[src] = run[s].mark[src],
             Covered(src, run[s].mark[src], run[s].events), run[s].events = {}
      PROVE  Covered(src, watermark[src], {})'
  <2>1. run[s].mark[src] \in Nat
    BY DEF TypeOK, Run
  <2>2. CoveredNext(src, run[s].mark[src], {})
    BY <1>2, <1>4, <2>1, CoveredKept
  <2>. QED BY <1>4, <2>2 DEF Covered, CoveredNext
<1>5. CASE UNCHANGED vars
  BY <1>3, <1>5 DEF vars
<1>6. ASSUME NEW e \in Events, Commit(e) PROVE watermark' = watermark
  BY <1>6 DEF Commit
<1>7. ASSUME NEW h \in Handlers, PageStep(h) \/ PageFails(h) PROVE watermark' = watermark
  BY <1>7 DEF PageStep, PageFails, Receive, ProcessEvent, RetryTransient, RetryUnsynced,
              SendDeadLetter, Complete, paging, processing
<1>8. ASSUME NEW s \in Starters, Start(s) \/ StartStep(s) \/ StartFails(s)
      PROVE  Covered(src, watermark[src], {})'
  <2>1. CASE StoreAppointmentDate(s) /\ src = "appointment"
    <3>1. Covered(src, run[s].mark[src], run[s].events) /\ run[s].events = {}
      BY <1>2, <2>1 DEF StoreAppointmentDate, StartsInv, StartInv
    <3>2. watermark'[src] = run[s].mark[src] \/ watermark'[src] = watermark[src]
      BY <2>1 DEF StoreAppointmentDate, StoreDate, TypeOK
    <3>. QED BY <1>3, <1>4, <3>1, <3>2
  <2>2. CASE StorePetitionDate(s) /\ src = "petition"
    <3>1. Covered(src, run[s].mark[src], run[s].events) /\ run[s].events = {}
      BY <1>2, <2>2 DEF StorePetitionDate, StartsInv, StartInv
    <3>2. watermark'[src] = run[s].mark[src] \/ watermark'[src] = watermark[src]
      BY <2>2 DEF StorePetitionDate, StoreDate, TypeOK
    <3>. QED BY <1>3, <1>4, <3>1, <3>2
  <2>3. CASE ~(StoreAppointmentDate(s) /\ src = "appointment")
             /\ ~(StorePetitionDate(s) /\ src = "petition")
    <3>1. watermark'[src] = watermark[src]
      BY <1>8, <2>3 DEF Start, StartStep, StartFails, QueryAppointments, QueryPetitions, SendPage,
                Reject, StoreAppointmentDate, StorePetitionDate, StoreDate, TypeOK
    <3>. QED BY <1>3, <3>1
  <2>. QED BY <2>1, <2>2, <2>3
<1>. QED BY <1>3, <1>5, <1>6, <1>7, <1>8 DEF Next

-----------------------------------------------------------------------------
LEMMA QueueInvInit == Init => QueueInv
<1> SUFFICES ASSUME Init PROVE QueueInv
  OBVIOUS
<1>1. IdsInv /\ PagesInv /\ StartsInv
  BY DEF Init, IdsInv, PagesInv, StartsInv, StartInv, Live, InFlight
<1>2. MarksInv
  BY DEF Init, MarksInv, Covered
<1>. QED BY <1>1, <1>2 DEF QueueInv

LEMMA QueueInvHolds == Spec => []QueueInv
<1>1. TypeOK /\ QueueInv /\ [Next]_vars => QueueInv'
  BY IdsStep, PagesStep, StartsStep, MarksStep DEF QueueInv
<1>. QED BY <1>1, QueueInvInit, QueueTypes, PTL DEF Spec

(* No sync date is stored past a transaction that could still be lost, for *)
(* any number of exporters and page handlers and whatever fails.           *)
THEOREM NothingIsLost == Spec => []NothingLost
<1>1. TypeOK /\ QueueInv => NothingLost
  <2> SUFFICES ASSUME TypeOK, QueueInv, NEW e \in committed,
                      TxDate[e] <= watermark[Source[e]]
               PROVE  Accounted(e)
    BY DEF NothingLost
  <2>1. Source[e] \in Sources
    BY EventAssumption DEF TypeOK
  <2>2. e \in Known
    BY <2>1 DEF QueueInv, MarksInv, Covered
  <2>. QED BY <2>2 DEF Known
<1>. QED BY <1>1, QueueInvHolds, QueueTypes, PTL
-----------------------------------------------------------------------------
(* What the queue can hold.  An event that is too large never gets onto a  *)
(* message, so nothing accounts for it but the DLQ; and an event that is   *)
(* on a message has been found unsynced as often as the message says.      *)

Fits(m) == m.events \cap Oversized = {}

PageFits(p) ==
  /\ Fits(p.message)
  /\ (p.todo \cup p.transient \cup p.unsynced) \cap Oversized = {}

FitInv ==
  /\ (done \cup poisoned) \cap Oversized = {}
  /\ \A m \in queue : Fits(m)
  /\ \A h \in Handlers : PageFits(page[h])

Tried(m, seen) == \A e \in m.events : seen[e] >= m.unsyncedRetries

LettersTried(letters, seen) ==
  \A d \in letters : d.cause = "unsynced" => seen[d.event] >= UnsyncedLimit + 1

PageTried(p, seen) ==
  /\ Tried(p.message, seen)
  /\ p.todo \subseteq p.message.events
  /\ \A e \in p.unsynced : seen[e] >= p.message.unsyncedRetries + 1
  /\ LettersTried(p.dead, seen)

TriedInv ==
  /\ \A m \in queue : Tried(m, unsyncedSeen)
  /\ \A h \in Handlers : PageTried(page[h], unsyncedSeen)
  /\ LettersTried(deadLetters, unsyncedSeen)

HeldInv == FitInv /\ TriedInv

LEMMA SeenGrows ==
  ASSUME TypeOK, [Next]_vars
  PROVE  \A e \in Events : unsyncedSeen'[e] >= unsyncedSeen[e]
<1>0. unsyncedSeen \in [Events -> Nat]
  BY DEF TypeOK
<1>1. ASSUME NEW h \in Handlers, NEW e \in Events, ProcessEvent(h, e)
      PROVE  \A d \in Events : unsyncedSeen'[d] >= unsyncedSeen[d]
  <2>1. CASE unsyncedSeen' = unsyncedSeen
    BY <1>0, <2>1
  <2>2. CASE NotYetSynced(h, e)
    BY <1>0, <2>2, LimitAssumption DEF NotYetSynced
  <2>. QED BY <1>1, <2>1, <2>2
       DEF ProcessEvent, Finished, FinishedWithDlq, FailedForGood, TransientError
<1>2. ASSUME NEW h \in Handlers, \/ \E m \in queue : Receive(h, m)
                                 \/ RetryTransient(h) \/ RetryUnsynced(h)
                                 \/ SendDeadLetter(h) \/ Complete(h) \/ PageFails(h)
      PROVE  unsyncedSeen' = unsyncedSeen
  <2>1. ASSUME NEW m \in queue, Receive(h, m) PROVE unsyncedSeen' = unsyncedSeen
    BY <2>1 DEF Receive
  <2>2. CASE RetryTransient(h) \/ RetryUnsynced(h)
    BY <2>2 DEF RetryTransient, RetryUnsynced
  <2>3. CASE SendDeadLetter(h) \/ Complete(h) \/ PageFails(h)
    BY <2>3 DEF SendDeadLetter, Complete, PageFails
  <2>. QED BY <1>2, <2>1, <2>2, <2>3
<1>3. ASSUME NEW s \in Starters, Start(s) \/ StartStep(s) \/ StartFails(s)
      PROVE  unsyncedSeen' = unsyncedSeen
  BY <1>3 DEF Start, StartStep, StartFails, QueryAppointments, QueryPetitions, SendPage,
              Reject, StoreAppointmentDate, StorePetitionDate, exporting
<1>4. ASSUME NEW e \in Events, Commit(e) PROVE unsyncedSeen' = unsyncedSeen
  BY <1>4 DEF Commit
<1>5. CASE UNCHANGED vars
  BY <1>0, <1>5 DEF vars
<1>6. CASE unsyncedSeen' = unsyncedSeen
  BY <1>0, <1>6
<1>. QED BY <1>1, <1>2, <1>3, <1>4, <1>5, <1>6 DEF Next, PageStep

LEMMA TriedGrows ==
  ASSUME NEW seen \in [Events -> Nat], NEW more \in [Events -> Nat],
         \A e \in Events : more[e] >= seen[e]
  PROVE  /\ \A m \in Message : Tried(m, seen) => Tried(m, more)
         /\ \A L \in SUBSET DeadLetter : LettersTried(L, seen) => LettersTried(L, more)
         /\ \A p \in Page : PageTried(p, seen) => PageTried(p, more)
<1>1. ASSUME NEW m \in Message, Tried(m, seen) PROVE Tried(m, more)
  <2>1. m.events \in SUBSET Events /\ m.unsyncedRetries \in Nat
    BY LimitAssumption DEF Message
  <2>2. ASSUME NEW e \in m.events PROVE more[e] >= m.unsyncedRetries
    <3>1. seen[e] >= m.unsyncedRetries /\ more[e] >= seen[e] /\ seen[e] \in Nat
          /\ more[e] \in Nat
      BY <1>1, <2>1 DEF Tried
    <3>. QED BY <2>1, <3>1
  <2>. QED BY <2>2 DEF Tried
<1>2. ASSUME NEW L \in SUBSET DeadLetter, LettersTried(L, seen) PROVE LettersTried(L, more)
  <2>1. ASSUME NEW d \in L, d.cause = "unsynced" PROVE more[d.event] >= UnsyncedLimit + 1
    <3>1. d.event \in Events
      BY DEF DeadLetter
    <3>2. seen[d.event] >= UnsyncedLimit + 1 /\ more[d.event] >= seen[d.event]
          /\ seen[d.event] \in Nat /\ more[d.event] \in Nat
      BY <1>2, <2>1, <3>1 DEF LettersTried
    <3>. QED BY <3>2, LimitAssumption
  <2>. QED BY <2>1 DEF LettersTried
<1>3. ASSUME NEW p \in Page, PageTried(p, seen) PROVE PageTried(p, more)
  <2>1. /\ p.message \in Message /\ p.unsynced \in SUBSET Events
        /\ p.dead \in SUBSET DeadLetter /\ p.message.unsyncedRetries \in Nat
    BY LimitAssumption DEF Page, Message
  <2>2. ASSUME NEW e \in p.unsynced PROVE more[e] >= p.message.unsyncedRetries + 1
    <3>1. seen[e] >= p.message.unsyncedRetries + 1 /\ more[e] >= seen[e]
          /\ seen[e] \in Nat /\ more[e] \in Nat
      BY <1>3, <2>1 DEF PageTried
    <3>. QED BY <2>1, <3>1
  <2>. QED BY <1>1, <1>2, <1>3, <2>1, <2>2 DEF PageTried
<1>. QED BY <1>1, <1>2, <1>3

LEMMA NoPageHolds == PageFits(NoPage) /\ \A seen \in [Events -> Nat] : PageTried(NoPage, seen)
BY DEF NoPage, PageFits, Fits, PageTried, Tried, LettersTried

(* A step that changes one page at most, and adds what is in order. *)
LEMMA HeldFrame ==
  ASSUME TypeOK, TypeOK', HeldInv, [Next]_vars, NEW h \in Handlers,
         \A g \in Handlers : g # h => page'[g] = page[g],
         (done' \cup poisoned') \cap Oversized = {},
         \A m \in queue' : m \in queue \/ (Fits(m) /\ Tried(m, unsyncedSeen')),
         PageFits(page'[h]), PageTried(page'[h], unsyncedSeen'),
         \A d \in deadLetters' : d \in deadLetters \/ LettersTried({d}, unsyncedSeen')
  PROVE  HeldInv'
<1>0. /\ unsyncedSeen \in [Events -> Nat] /\ unsyncedSeen' \in [Events -> Nat]
      /\ queue \subseteq Message /\ deadLetters \in SUBSET DeadLetter /\ page \in [Handlers -> Page]
  BY DEF TypeOK
<1>1. \A e \in Events : unsyncedSeen'[e] >= unsyncedSeen[e]
  BY SeenGrows
<1>2. /\ \A m \in queue : Tried(m, unsyncedSeen')
      /\ \A g \in Handlers : PageTried(page[g], unsyncedSeen')
      /\ LettersTried(deadLetters, unsyncedSeen')
  BY <1>0, <1>1, TriedGrows DEF HeldInv, TriedInv
<1>3. LettersTried(deadLetters', unsyncedSeen')
  BY <1>2 DEF LettersTried
<1>4. TriedInv'
  <2>1. \A g \in Handlers : PageTried(page'[g], unsyncedSeen')
    BY <1>2
  <2>2. \A m \in queue' : Tried(m, unsyncedSeen')
    BY <1>2
  <2>. QED BY <1>3, <2>1, <2>2 DEF TriedInv
<1>5. FitInv'
  BY DEF HeldInv, FitInv
<1>. QED BY <1>4, <1>5 DEF HeldInv

LEMMA HeldProcess ==
  ASSUME TypeOK, TypeOK', HeldInv, [Next]_vars, NEW h \in Handlers, NEW e \in Events,
         ProcessEvent(h, e)
  PROVE  HeldInv'
<1> DEFINE p == page[h]
<1>0. /\ p \in Page /\ p.message \in Message /\ p.message.unsyncedRetries \in Nat
      /\ p.message.unsyncedRetries <= UnsyncedLimit
      /\ unsyncedSeen \in [Events -> Nat] /\ unsyncedSeen' \in [Events -> Nat]
      /\ page \in [Handlers -> Page]
  BY LimitAssumption DEF TypeOK, Page, Message
<1>1. /\ e \in p.todo /\ e \in p.message.events /\ e \notin Oversized
      /\ PageFits(p) /\ PageTried(p, unsyncedSeen)
  BY DEF ProcessEvent, HeldInv, FitInv, TriedInv, PageFits, PageTried
<1>2. \A d \in Events : unsyncedSeen'[d] >= unsyncedSeen[d]
  BY SeenGrows
<1>3. PageTried(p, unsyncedSeen')
  BY <1>0, <1>1, <1>2, TriedGrows
<1>4. /\ queue' = queue /\ deadLetters' = deadLetters /\ poisoned' = poisoned
      /\ done' \subseteq done \cup {e}
      /\ \A g \in Handlers : g # h => page'[g] = page[g]
  BY <1>0 DEF ProcessEvent, processing, Finished, FinishedWithDlq, FailedForGood, NotYetSynced,
     TransientError
<1>5. (done' \cup poisoned') \cap Oversized = {}
  BY <1>1, <1>4 DEF HeldInv, FitInv
<1>6. PageFits(page'[h]) /\ PageTried(page'[h], unsyncedSeen')
  <2>1. CASE Finished(h, e)
    <3>1. /\ page'[h].message = p.message /\ page'[h].todo = p.todo \ {e}
          /\ page'[h].transient = p.transient /\ page'[h].unsynced = p.unsynced
          /\ page'[h].dead = p.dead
      BY <1>0, <2>1 DEF Finished, Page
    <3>. QED BY <1>1, <1>3, <3>1 DEF PageFits, PageTried
  <2>2. CASE FinishedWithDlq(h, e) \/ FailedForGood(h, e)
    <3>0. PICK L : L = Letters({e}, "failed")
      OBVIOUS
    <3>1. /\ page'[h].message = p.message /\ page'[h].todo = p.todo \ {e}
          /\ page'[h].transient = p.transient /\ page'[h].unsynced = p.unsynced
          /\ page'[h].dead = p.dead \cup L
      <4>1. page' = [page EXCEPT ![h].todo = @ \ {e}, ![h].dead = @ \cup L]
        BY <2>2, <3>0 DEF FinishedWithDlq, FailedForGood
      <4>. QED BY <1>0, <4>1 DEF Page
    <3>2. \A d \in L : d.cause # "unsynced"
      BY <3>0 DEF Letters
    <3>. QED BY <1>1, <1>3, <3>1, <3>2 DEF PageFits, PageTried, LettersTried
  <2>3. CASE NotYetSynced(h, e)
    <3>1. /\ page'[h].message = p.message /\ page'[h].todo = p.todo \ {e}
          /\ page'[h].transient = p.transient /\ page'[h].unsynced = p.unsynced \cup {e}
          /\ page'[h].dead = p.dead
      BY <1>0, <2>3 DEF NotYetSynced, Page
    <3>2. unsyncedSeen'[e] = IF unsyncedSeen[e] <= UnsyncedLimit + 1
                             THEN unsyncedSeen[e] + 1 ELSE unsyncedSeen[e]
      BY <1>0, <2>3 DEF NotYetSynced
    <3>3. unsyncedSeen[e] >= p.message.unsyncedRetries
      BY <1>1 DEF PageTried, Tried
    <3>4. unsyncedSeen'[e] >= p.message.unsyncedRetries + 1
      BY <1>0, <3>2, <3>3, LimitAssumption
    <3>. QED BY <1>1, <1>3, <3>1, <3>4 DEF PageFits, PageTried
  <2>4. CASE TransientError(h, e)
    <3>1. /\ page'[h].message = p.message /\ page'[h].todo = p.todo \ {e}
          /\ page'[h].transient = p.transient \cup {e} /\ page'[h].unsynced = p.unsynced
          /\ page'[h].dead = p.dead
      BY <1>0, <2>4 DEF TransientError, Page
    <3>. QED BY <1>1, <1>3, <3>1 DEF PageFits, PageTried
  <2>. QED BY <2>1, <2>2, <2>3, <2>4 DEF ProcessEvent
<1>. QED BY <1>4, <1>5, <1>6, HeldFrame

LEMMA HeldRetries ==
  ASSUME TypeOK, TypeOK', HeldInv, [Next]_vars, NEW h \in Handlers,
         RetryTransient(h) \/ RetryUnsynced(h)
  PROVE  HeldInv'
<1> DEFINE p == page[h]
<1>0. /\ p \in Page /\ p.message \in Message /\ p.message.unsyncedRetries \in 0..UnsyncedLimit
      /\ p.transient \in SUBSET Events /\ p.unsynced \in SUBSET Events
      /\ unsyncedSeen \in [Events -> Nat] /\ page \in [Handlers -> Page]
  BY DEF TypeOK, Page, Message
<1>1. PageFits(p) /\ PageTried(p, unsyncedSeen)
  BY DEF HeldInv, FitInv, TriedInv
<1>2. /\ deadLetters' = deadLetters /\ poisoned' = poisoned /\ done' = done
      /\ unsyncedSeen' = unsyncedSeen
  BY DEF RetryTransient, RetryUnsynced
<1>3. (done' \cup poisoned') \cap Oversized = {}
  BY <1>2 DEF HeldInv, FitInv
<1>4. ASSUME NEW events \in SUBSET Events, NEW cause \in Causes, GiveUp(h, events, cause),
             cause = "unsynced" =>
               \A e \in events : unsyncedSeen[e] >= UnsyncedLimit + 1
      PROVE  HeldInv'
  <2>1. /\ page'[h].message = p.message /\ page'[h].todo = p.todo
        /\ page'[h].transient = p.transient /\ page'[h].unsynced = p.unsynced
        /\ page'[h].dead = p.dead \cup Letters(events, cause)
        /\ queue' = queue /\ \A g \in Handlers : g # h => page'[g] = page[g]
    BY <1>0, <1>4 DEF GiveUp, Page
  <2>2. LettersTried(Letters(events, cause), unsyncedSeen)
    BY <1>4 DEF Letters, LettersTried
  <2>3. PageFits(page'[h]) /\ PageTried(page'[h], unsyncedSeen')
    BY <1>1, <1>2, <2>1, <2>2 DEF PageFits, PageTried, LettersTried
  <2>. QED BY <1>2, <1>3, <2>1, <2>3, HeldFrame
<1>5. ASSUME NEW m, page' = page, queue' = queue \/ queue' = queue \cup {m},
             Fits(m), Tried(m, unsyncedSeen)
      PROVE  HeldInv'
  BY <1>1, <1>2, <1>3, <1>5, HeldFrame
<1>6. CASE RetryTransient(h)
  <2>1. CASE p.message.transientRetries < TransientLimit
    <3>1. PICK m : m = [NewMessage(p.transient) EXCEPT
                          !.transientRetries = p.message.transientRetries + 1]
      OBVIOUS
    <3>2. m.events = p.transient /\ m.unsyncedRetries = 0
      BY <3>1 DEF NewMessage
    <3>3. Fits(m) /\ Tried(m, unsyncedSeen)
      BY <1>0, <1>1, <3>2 DEF Fits, Tried, PageFits
    <3>4. page' = page /\ (queue' = queue \/ queue' = queue \cup {m})
      BY <1>6, <2>1, <3>1 DEF RetryTransient, Requeue
    <3>. QED BY <1>5, <3>3, <3>4
  <2>2. CASE ~(p.message.transientRetries < TransientLimit)
    <3>1. GiveUp(h, p.transient, "transient")
      BY <1>6, <2>2 DEF RetryTransient
    <3>. QED BY <1>0, <1>4, <3>1 DEF Causes
  <2>. QED BY <2>1, <2>2
<1>7. CASE RetryUnsynced(h)
  <2>0. \A e \in p.unsynced : unsyncedSeen[e] >= p.message.unsyncedRetries + 1
    BY <1>1 DEF PageTried
  <2>1. CASE p.message.unsyncedRetries < UnsyncedLimit
    <3>1. PICK m : m = [NewMessage(p.unsynced) EXCEPT
                          !.unsyncedRetries = p.message.unsyncedRetries + 1]
      OBVIOUS
    <3>2. m.events = p.unsynced /\ m.unsyncedRetries = p.message.unsyncedRetries + 1
      BY <3>1 DEF NewMessage
    <3>3. Fits(m) /\ Tried(m, unsyncedSeen)
      BY <1>1, <2>0, <3>2 DEF Fits, Tried, PageFits
    <3>4. page' = page /\ (queue' = queue \/ queue' = queue \cup {m})
      BY <1>7, <2>1, <3>1 DEF RetryUnsynced, Requeue
    <3>. QED BY <1>5, <3>3, <3>4
  <2>2. CASE ~(p.message.unsyncedRetries < UnsyncedLimit)
    <3>1. GiveUp(h, p.unsynced, "unsynced")
      BY <1>7, <2>2 DEF RetryUnsynced
    <3>2. p.message.unsyncedRetries = UnsyncedLimit
      BY <1>0, <2>2, LimitAssumption
    <3>. QED BY <1>0, <1>4, <2>0, <3>1, <3>2 DEF Causes
  <2>. QED BY <2>1, <2>2
<1>. QED BY <1>6, <1>7

LEMMA Received ==
  ASSUME TypeOK, NEW h \in Handlers, NEW m \in queue, Receive(h, m)
  PROVE  /\ unsyncedSeen' = unsyncedSeen /\ done' = done /\ poisoned' = poisoned
         /\ deadLetters' = deadLetters /\ queue' = queue \ {m}
         /\ page'[h].message.events = m.events
         /\ page'[h].message.unsyncedRetries = m.unsyncedRetries
         /\ page'[h].todo = m.events /\ page'[h].transient = {}
         /\ page'[h].unsynced = {} /\ page'[h].dead = {}
         /\ \A g \in Handlers : g # h => page'[g] = page[g]
BY DEF Receive, TypeOK, NoPage, Message

LEMMA HeldPage ==
  ASSUME TypeOK, TypeOK', HeldInv, [Next]_vars, NEW h \in Handlers,
         \/ \E m \in queue : Receive(h, m)
         \/ SendDeadLetter(h) \/ Complete(h) \/ PageFails(h)
  PROVE  HeldInv'
<1> DEFINE p == page[h]
<1>0. /\ p \in Page /\ p.message \in Message /\ page \in [Handlers -> Page]
      /\ unsyncedSeen \in [Events -> Nat] /\ queue \subseteq Message
  BY DEF TypeOK, Page
<1>1. PageFits(p) /\ PageTried(p, unsyncedSeen)
  BY DEF HeldInv, FitInv, TriedInv
<1>2. unsyncedSeen' = unsyncedSeen /\ done' = done
  <2>1. ASSUME NEW m \in queue, Receive(h, m) PROVE unsyncedSeen' = unsyncedSeen /\ done' = done
    BY <2>1, Received
  <2>2. CASE SendDeadLetter(h) \/ Complete(h) \/ PageFails(h)
    BY <2>2 DEF SendDeadLetter, Complete, PageFails
  <2>. QED BY <2>1, <2>2
<1>3. (done \cup poisoned) \cap Oversized = {}
  BY DEF HeldInv, FitInv
<1>4. PageFits(NoPage) /\ PageTried(NoPage, unsyncedSeen)
  BY <1>0, NoPageHolds
<1>5. ASSUME NEW m \in queue, Receive(h, m) PROVE HeldInv'
  <2>1. Fits(m) /\ Tried(m, unsyncedSeen)
    BY DEF HeldInv, FitInv, TriedInv
  <2>2. PageFits(page'[h]) /\ PageTried(page'[h], unsyncedSeen')
    BY <1>5, <2>1, Received DEF PageFits, PageTried, Fits, Tried, LettersTried
  <2>. QED BY <1>3, <1>5, <2>2, Received, HeldFrame
<1>6. CASE SendDeadLetter(h)
  <2>1. PICK d \in p.dead : /\ deadLetters' = deadLetters \cup {d}
                            /\ page' = [page EXCEPT ![h].dead = @ \ {d}]
    BY <1>6 DEF SendDeadLetter
  <2>2. /\ page'[h].message = p.message /\ page'[h].todo = p.todo
        /\ page'[h].transient = p.transient /\ page'[h].unsynced = p.unsynced
        /\ page'[h].dead = p.dead \ {d} /\ \A g \in Handlers : g # h => page'[g] = page[g]
    BY <1>0, <2>1 DEF Page
  <2>3. queue' = queue /\ poisoned' = poisoned
    BY <1>6 DEF SendDeadLetter
  <2>4. LettersTried({d}, unsyncedSeen)
    BY <1>1 DEF PageTried, LettersTried
  <2>5. PageFits(page'[h]) /\ PageTried(page'[h], unsyncedSeen')
    BY <1>1, <1>2, <2>2 DEF PageFits, PageTried, LettersTried
  <2>6. \A c \in deadLetters' : c \in deadLetters \/ LettersTried({c}, unsyncedSeen')
    BY <1>2, <2>1, <2>4
  <2>. QED BY <1>2, <1>3, <2>2, <2>3, <2>5, <2>6, HeldFrame
<1>7. CASE Complete(h)
  <2>1. /\ page'[h] = NoPage /\ \A g \in Handlers : g # h => page'[g] = page[g]
        /\ queue' = queue /\ poisoned' = poisoned /\ deadLetters' = deadLetters
    BY <1>0, <1>7 DEF Complete
  <2>. QED BY <1>2, <1>3, <1>4, <2>1, HeldFrame
<1>8. CASE PageFails(h)
  <2>1. /\ page'[h] = NoPage /\ \A g \in Handlers : g # h => page'[g] = page[g]
        /\ deadLetters' = deadLetters
        /\ queue' \subseteq queue \cup {p.message}
        /\ poisoned' \subseteq poisoned \cup p.message.events
    BY <1>0, <1>8 DEF PageFails
  <2>2. Fits(p.message) /\ Tried(p.message, unsyncedSeen)
    BY <1>1 DEF PageFits, PageTried
  <2>3. (done' \cup poisoned') \cap Oversized = {}
    BY <1>2, <1>3, <2>1, <2>2 DEF Fits
  <2>. QED BY <1>2, <1>4, <2>1, <2>2, <2>3, HeldFrame
<1>. QED BY <1>5, <1>6, <1>7, <1>8

LEMMA HeldStart ==
  ASSUME TypeOK, TypeOK', HeldInv, [Next]_vars, NEW s \in Starters,
         Start(s) \/ StartStep(s) \/ StartFails(s)
  PROVE  HeldInv'
<1>0. /\ page' = page /\ unsyncedSeen' = unsyncedSeen /\ done' = done /\ poisoned' = poisoned
  BY DEF Start, StartStep, StartFails, QueryAppointments, QueryPetitions, SendPage, Reject,
         StoreAppointmentDate, StorePetitionDate, exporting, handler
<1>1. unsyncedSeen \in [Events -> Nat] /\ run[s] \in Run
  BY DEF TypeOK
<1>2. \A m \in queue' : m \in queue \/ (Fits(m) /\ Tried(m, unsyncedSeen))
  <2>1. CASE SendPage(s)
    <3>1. PICK events \in SUBSET (run[s].events \ Oversized) :
            queue' = queue \cup {NewMessage(events)}
      BY <2>1 DEF SendPage
    <3>2. NewMessage(events).events = events /\ NewMessage(events).unsyncedRetries = 0
      BY DEF NewMessage
    <3>3. events \in SUBSET Events /\ events \cap Oversized = {}
      BY <1>1 DEF Run
    <3>4. Fits(NewMessage(events)) /\ Tried(NewMessage(events), unsyncedSeen)
      BY <1>1, <3>2, <3>3 DEF Fits, Tried
    <3>. QED BY <3>1, <3>4
  <2>2. CASE ~SendPage(s)
    BY <2>2 DEF Start, StartStep, StartFails, QueryAppointments, QueryPetitions, Reject,
                StoreAppointmentDate, StorePetitionDate
  <2>. QED BY <2>1, <2>2
<1>3. \A d \in deadLetters' : d \in deadLetters \/ d.cause # "unsynced"
  <2>1. CASE Reject(s)
    BY <2>1 DEF Reject, Letters
  <2>2. CASE ~Reject(s)
    BY <2>2 DEF Start, StartStep, StartFails, QueryAppointments, QueryPetitions, SendPage,
                StoreAppointmentDate, StorePetitionDate
  <2>. QED BY <2>1, <2>2
<1>4. FitInv'
  BY <1>0, <1>2 DEF HeldInv, FitInv
<1>5. TriedInv'
  BY <1>0, <1>2, <1>3 DEF HeldInv, TriedInv, LettersTried
<1>. QED BY <1>4, <1>5 DEF HeldInv

LEMMA HeldStep ==
  ASSUME TypeOK, TypeOK', HeldInv, [Next]_vars
  PROVE  HeldInv'
<1>1. CASE UNCHANGED vars
  BY <1>1 DEF HeldInv, FitInv, TriedInv, vars, handler
<1>2. ASSUME NEW e \in Events, Commit(e) PROVE HeldInv'
  BY <1>2 DEF Commit, HeldInv, FitInv, TriedInv, handler
<1>. QED BY <1>1, <1>2, HeldStart, HeldProcess, HeldRetries, HeldPage DEF Next, PageStep

LEMMA HeldInit == Init => HeldInv
<1> SUFFICES ASSUME Init PROVE HeldInv
  OBVIOUS
<1>1. unsyncedSeen \in [Events -> Nat]
  BY DEF Init
<1>. QED BY <1>1, NoPageHolds DEF Init, HeldInv, FitInv, TriedInv, LettersTried

LEMMA HeldAlways == Spec => []HeldInv
<1>1. TypeOK /\ TypeOK' /\ HeldInv /\ [Next]_vars => HeldInv'
  BY HeldStep
<1>. QED BY <1>1, HeldInit, QueueTypes, PTL DEF Spec

(* An event too large for the queue is on the DLQ once a sync date has     *)
(* passed it, for any exporters and handlers and whatever fails: something *)
(* accounts for it, and nothing else can.                                  *)
THEOREM OversizedAreReported == Spec => []OversizedIsReported
<1>1. TypeOK /\ HeldInv /\ NothingLost => OversizedIsReported
  <2> SUFFICES ASSUME TypeOK, HeldInv, NothingLost, NEW e \in committed \cap Oversized,
                      TxDate[e] <= watermark[Source[e]]
               PROVE  e \in DeadEvents
    BY DEF OversizedIsReported
  <2>1. Accounted(e)
    BY DEF NothingLost
  <2>2. \A m \in queue \cup InFlight : e \notin m.events
    BY DEF HeldInv, FitInv, Fits, PageFits, InFlight
  <2>. QED BY <2>1, <2>2 DEF Accounted, HeldInv, FitInv
<1>. QED BY <1>1, HeldAlways, NothingIsLost, QueueTypes, PTL

(* For any limits and however the messages were divided, retried and       *)
(* delivered again, an event is given up for its unsynced case only after  *)
(* UnsyncedLimit + 1 attempts.                                             *)
THEOREM UnsyncedGetTheirRetries == Spec => []UnsyncedGetsItsRetries
<1>1. HeldInv => UnsyncedGetsItsRetries
  BY DEF HeldInv, TriedInv, LettersTried, UnsyncedGetsItsRetries
<1>. QED BY <1>1, HeldAlways, PTL
==============================================================================
