------------------------------ MODULE AcmsProofs ------------------------------
(***************************************************************************)
(* Theorems about the two components by which CAMS replaces ACMS as the    *)
(* register of trustees: what the downstream systems see of a case's       *)
(* trustee while both manage appointments (DownstreamTransition), and the  *)
(* migration of the trustees and the healing of their professional ids     *)
(* (TrusteeMigration).  The components share no state: their names are     *)
(* kept apart, so that one module may speak of both.                       *)
(***************************************************************************)
EXTENDS DownstreamTransition, TrusteeMigration, FiniteSetTheorems, TLAPS

-----------------------------------------------------------------------------
(* THE TRANSITION: for any trustees, numbers of rows, lengths of a day and *)
(* numbers of events.  CMMAP_ALL is never behind CMMAP_CAMS: an event goes *)
(* into both, and what the daily merge puts in its place carries a reading *)
(* of the clock that no event is ahead of.                                 *)

(* No event is dated ahead of the clock. *)
DatedBefore == \A m \in feed : m.at <= clock

CamsHasApplied == CamsSeq \in DOMAIN cams => applied # {}

(* The row of CMMAP_ALL is as young as that of CMMAP_CAMS, or is that row. *)
AllIsAbreast ==
  CamsSeq \in DOMAIN cams =>
    /\ CamsSeq \in DOMAIN all
    /\ cams[CamsSeq].updated <= all[CamsSeq].updated
    /\ cams[CamsSeq].updated <= clock

OwnedIsCams ==
  \A s \in DOMAIN all : all[s].source = "CAMS" =>
    s = CamsSeq /\ s \in DOMAIN cams /\ all[s] = cams[s]

DInv == TypeOK /\ DatedBefore /\ CamsHasApplied /\ AllIsAbreast /\ OwnedIsCams

-----------------------------------------------------------------------------
(* The clock and the calendar.                                             *)

LEMMA DayBounds ==
  ASSUME NEW x \in Nat
  PROVE  /\ Day(x) \in Nat
         /\ Midnight(Day(x)) \in Nat /\ Midnight(Day(x)) <= x
         /\ Midnight(Day(x) + 1) \in Nat /\ x < Midnight(Day(x) + 1)
<1>1. DayLength \in Nat /\ DayLength > 0
  BY TransitionAssumption
<1>2. x \div DayLength \in Nat /\ x % DayLength \in 0..(DayLength - 1)
      /\ x = DayLength * (x \div DayLength) + (x % DayLength)
  BY <1>1
<1>3. \A d \in Nat : d * DayLength \in Nat /\ (d + 1) * DayLength = d * DayLength + DayLength
                     /\ DayLength * d = d * DayLength
  BY <1>1
<1> QED BY <1>1, <1>2, <1>3 DEF Day, Midnight

LEMMA MidnightMonotone ==
  ASSUME NEW d \in Nat, NEW e \in Nat, d <= e
  PROVE  Midnight(d) \in Nat /\ Midnight(d) <= Midnight(e)
<1>1. DayLength \in Nat
  BY TransitionAssumption
<1>2. PICK k \in Nat : e = d + k
  <2>1. e - d \in Nat /\ e = d + (e - d)
    OBVIOUS
  <2> QED BY <2>1
<1>3. e * DayLength = d * DayLength + k * DayLength /\ k * DayLength \in Nat
      /\ d * DayLength \in Nat
  BY <1>1, <1>2
<1> QED BY <1>3 DEF Midnight

LEMMA AfterIsLater ==
  ASSUME NEW x \in Nat
  PROVE  After(x) \in Nat /\ x < After(x)
BY DEF After

LEMMA EventRowTyped ==
  ASSUME NEW m \in Announcements, m.holder # Nobody
  PROVE  /\ EventRow(m) \in Entries
         /\ EventRow(m).source = "CAMS" /\ EventRow(m).updated = m.at /\ m.at \in Nat
BY DEF EventRow, Announcements, Holders, Entries

LEMMA AcmsEntryTyped ==
  ASSUME NEW r \in AcmsRows, NEW at \in Nat
  PROVE  /\ AcmsEntry(r, at) \in Entries
         /\ AcmsEntry(r, at).source = "ACMS" /\ AcmsEntry(r, at).updated = at
BY DEF AcmsEntry, AcmsRows, Entries

(* The merge of an event: its row, unless the table has one as young. *)
LEMMA MergeRow ==
  ASSUME NEW table, NEW row
  PROVE  /\ DOMAIN MergeEvent(table, row) = DOMAIN table \cup {CamsSeq}
         /\ \A s \in DOMAIN table \ {CamsSeq} : MergeEvent(table, row)[s] = table[s]
         /\ MergeEvent(table, row)[CamsSeq] =
              IF CamsSeq \in DOMAIN table /\ row.updated <= table[CamsSeq].updated
              THEN table[CamsSeq] ELSE row
<1>1. CASE CamsSeq \in DOMAIN table /\ row.updated <= table[CamsSeq].updated
  <2>1. MergeEvent(table, row) = table
    BY <1>1 DEF MergeEvent
  <2> QED BY <1>1, <2>1
<1>2. CASE ~(CamsSeq \in DOMAIN table /\ row.updated <= table[CamsSeq].updated)
  <2>1. MergeEvent(table, row) = Put(table, CamsSeq, row)
    BY <1>2 DEF MergeEvent
  <2>2. /\ DOMAIN Put(table, CamsSeq, row) = DOMAIN table \cup {CamsSeq}
        /\ Put(table, CamsSeq, row)[CamsSeq] = row
        /\ \A s \in DOMAIN table \ {CamsSeq} : Put(table, CamsSeq, row)[s] = table[s]
    BY DEF Put
  <2>3. (IF CamsSeq \in DOMAIN table /\ row.updated <= table[CamsSeq].updated
         THEN table[CamsSeq] ELSE row) = row
    BY <1>2
  <2> QED BY <2>1, <2>2, <2>3
<1> QED BY <1>1, <1>2

-----------------------------------------------------------------------------
LEMMA TransitionInit == Init => DInv
<1> SUFFICES ASSUME Init PROVE DInv
  OBVIOUS
<1>1. Midnight(Cutover) \in Nat
  <2>1. Cutover \in Nat /\ Cutover <= Cutover
    BY TransitionAssumption
  <2> QED BY <2>1, MidnightMonotone
<1>2. DOMAIN acms \subseteq Seqs /\ \A s \in DOMAIN acms : acms[s] \in AcmsRows
  <2>1. PICK used \in SUBSET Seqs :
          acms \in [used -> [holder : Trustees, active : BOOLEAN, day : {0}]]
    BY DEF Init
  <2> QED BY <2>1 DEF AcmsRows
<1>3. DOMAIN cams = {} /\ clock \in Nat /\ watermark \in Nat
  BY <1>1 DEF Init, NoRows
<1>4. /\ DOMAIN all \subseteq Seqs
      /\ \A s \in DOMAIN all : all[s] \in Entries /\ all[s].source = "ACMS"
  <2>1. CASE all = NoRows
    BY <2>1 DEF NoRows
  <2>2. CASE all = Seeded(acms)
    <3>1. DOMAIN all \subseteq DOMAIN acms
          /\ \A s \in DOMAIN all : all[s] = AcmsEntry(acms[s], Midnight(Cutover) + 1)
      BY <2>2 DEF Seeded, Active
    <3> QED BY <1>1, <1>2, <3>1, AcmsEntryTyped
  <2> QED BY <2>1, <2>2 DEF Init
<1>5. TypeOK
  BY <1>2, <1>3, <1>4 DEF Init, TypeOK, IdleSync
<1> QED BY <1>3, <1>4, <1>5 DEF DInv, DatedBefore, CamsHasApplied, AllIsAbreast, OwnedIsCams,
                             Init

(* The steps that leave both tables and the clock's past alone. *)
LEMMA AsideNext ==
  ASSUME DInv,
         \/ \E t \in Holders, date \in 0..LastDay : AnnounceOpen(t, date)
         \/ \E t \in Holders : AnnounceClose(t)
         \/ \E m \in feed : RejectEvent(m)
         \/ \E s \in Seqs, t \in Trustees, active \in BOOLEAN : AcmsChanges(s, t, active)
         \/ NextDay \/ ReadWatermark \/ UpdateWatermark \/ SyncFails
         \/ UNCHANGED vars
  PROVE  DInv' /\ cams' = cams /\ all' = all /\ applied' = applied
<1> USE DEF DInv
<1>0. clock \in Nat /\ clock' \in Nat /\ clock <= clock'
  <2>1. clock \in Nat
    BY DEF TypeOK
  <2>2. CASE NextDay
    BY <2>1, <2>2, DayBounds DEF NextDay
  <2>3. CASE \E t \in Holders : AnnounceClose(t)
    BY <2>1, <2>3, AfterIsLater DEF AnnounceClose, ReadClock
  <2>4. CASE clock' = clock
    BY <2>1, <2>4
  <2>5. CASE \/ \E t \in Holders, date \in 0..LastDay : AnnounceOpen(t, date)
             \/ \E m \in feed : RejectEvent(m)
             \/ \E s \in Seqs, t \in Trustees, active \in BOOLEAN : AcmsChanges(s, t, active)
             \/ ReadWatermark \/ UpdateWatermark \/ SyncFails \/ UNCHANGED vars
    <3>1. clock' = clock
      BY <2>5 DEF AnnounceOpen, RejectEvent, AcmsChanges, ReadWatermark, UpdateWatermark,
                  SyncFails, vars
    <3> QED BY <2>4, <3>1
  <2> QED BY <2>2, <2>3, <2>5
<1>1. cams' = cams /\ all' = all /\ applied' = applied
  BY DEF AnnounceOpen, AnnounceClose, Queue, RejectEvent, AcmsChanges, NextDay, ReadWatermark,
         UpdateWatermark, SyncFails, vars, tables, events
<1>2. feed \subseteq feed' /\ feed' \subseteq Announcements /\ DatedBefore'
  <2>1. ASSUME NEW t \in Holders, NEW date \in 0..LastDay, AnnounceOpen(t, date)
        PROVE  feed' \subseteq Announcements /\ DatedBefore' /\ feed \subseteq feed'
    <3>1. date \in Nat /\ Day(clock) \in Nat /\ Midnight(date) \in Nat
          /\ Midnight(date) <= Midnight(Day(clock)) /\ Midnight(Day(clock)) <= clock
          /\ Midnight(Day(clock)) \in Nat
      <4>1. date \in Nat /\ Day(clock) \in Nat /\ date <= Day(clock)
        BY <1>0, <2>1, DayBounds, TransitionAssumption DEF AnnounceOpen
      <4> QED BY <1>0, <4>1, DayBounds, MidnightMonotone
    <3>2. feed' = feed \cup {[holder |-> t, active |-> TRUE, at |-> Midnight(date)]}
          /\ clock' = clock
      BY <2>1 DEF AnnounceOpen, Queue
    <3>3. \A m \in feed : m \in Announcements /\ m.at <= clock
      BY DEF DatedBefore, TypeOK
    <3>4. PICK m : m = [holder |-> t, active |-> TRUE, at |-> Midnight(date)]
      OBVIOUS
    <3>5. m \in Announcements /\ m.at <= clock
      BY <1>0, <3>1, <3>4 DEF Announcements
    <3>6. feed' = feed \cup {m} /\ clock' = clock
      BY <3>2, <3>4
    <3> QED BY <3>3, <3>5, <3>6 DEF DatedBefore
  <2>2. ASSUME NEW t \in Holders, AnnounceClose(t)
        PROVE  feed' \subseteq Announcements /\ DatedBefore' /\ feed \subseteq feed'
    <3>1. feed' = feed \cup {[holder |-> t, active |-> FALSE, at |-> clock]}
      BY <2>2 DEF AnnounceClose, Queue
    <3>2. \A m \in feed : m \in Announcements /\ m.at \in Nat /\ m.at <= clock'
      BY <1>0 DEF DatedBefore, TypeOK, Announcements
    <3>3. PICK m : m = [holder |-> t, active |-> FALSE, at |-> clock]
      OBVIOUS
    <3>4. m \in Announcements /\ m.at <= clock'
      BY <1>0, <3>3 DEF Announcements
    <3>5. feed' = feed \cup {m}
      BY <3>1, <3>3
    <3> QED BY <3>2, <3>4, <3>5 DEF DatedBefore
  <2>3. CASE feed' = feed
    <3>1. \A m \in feed : m.at \in Nat /\ m.at <= clock
      BY DEF DatedBefore, TypeOK, Announcements
    <3> QED BY <1>0, <2>3, <3>1 DEF DatedBefore, TypeOK
  <2> QED BY <2>1, <2>2, <2>3 DEF RejectEvent, AcmsChanges, NextDay, ReadWatermark,
                                  UpdateWatermark, SyncFails, vars, events
<1>3. rejected' \subseteq feed' /\ applied' \subseteq feed'
  BY <1>1, <1>2 DEF TypeOK, AnnounceOpen, AnnounceClose, Queue, RejectEvent, AcmsChanges, NextDay,
                    ReadWatermark, UpdateWatermark, SyncFails, vars, events
<1>4. DOMAIN acms' \subseteq Seqs /\ (\A s \in DOMAIN acms' : acms'[s] \in AcmsRows)
      /\ changes' \in Nat
  <2>1. ASSUME NEW s \in Seqs, NEW t \in Trustees, NEW active \in BOOLEAN,
               AcmsChanges(s, t, active)
        PROVE  DOMAIN acms' \subseteq Seqs /\ (\A x \in DOMAIN acms' : acms'[x] \in AcmsRows)
               /\ changes' \in Nat
    <3>1. Day(clock) \in Nat
      BY <1>0, DayBounds
    <3>2. [holder |-> t, active |-> active, day |-> Day(clock)] \in AcmsRows
      BY <3>1 DEF AcmsRows
    <3>3. acms' = Put(acms, s, [holder |-> t, active |-> active, day |-> Day(clock)])
          /\ changes' = changes + 1
      BY <2>1 DEF AcmsChanges
    <3>4. /\ DOMAIN acms' = DOMAIN acms \cup {s}
          /\ acms'[s] = [holder |-> t, active |-> active, day |-> Day(clock)]
          /\ \A x \in DOMAIN acms \ {s} : acms'[x] = acms[x]
      BY <3>3 DEF Put
    <3> QED BY <3>2, <3>3, <3>4 DEF TypeOK
  <2>2. CASE acms' = acms /\ changes' = changes
    BY <2>2 DEF TypeOK
  <2> QED BY <2>1, <2>2 DEF AnnounceOpen, AnnounceClose, Queue, RejectEvent, NextDay,
                            ReadWatermark, UpdateWatermark, SyncFails, vars
<1>5. watermark' \in Nat
      /\ sync' \in [pc : {"idle", "merge", "watermark"}, from : Nat, runAt : Nat]
  <2>1. /\ watermark \in Nat
        /\ sync \in [pc : {"idle", "merge", "watermark"}, from : Nat, runAt : Nat]
    BY DEF TypeOK
  <2>2. CASE ReadWatermark \/ UpdateWatermark \/ SyncFails
    BY <1>0, <2>1, <2>2 DEF IdleSync, ReadWatermark, UpdateWatermark, SyncFails
  <2>3. CASE watermark' = watermark /\ sync' = sync
    BY <2>1, <2>3
  <2> QED BY <2>2, <2>3 DEF AnnounceOpen, AnnounceClose, Queue, RejectEvent, AcmsChanges,
                            NextDay, vars, daily
<1>6. TypeOK'
  BY <1>0, <1>1, <1>2, <1>3, <1>4, <1>5 DEF TypeOK
<1>7. CamsHasApplied' /\ OwnedIsCams'
  BY <1>1 DEF CamsHasApplied, OwnedIsCams
<1>8. AllIsAbreast'
  <2>1. CamsSeq \in DOMAIN cams => cams[CamsSeq].updated \in Nat
    BY DEF TypeOK, Entries
  <2> QED BY <1>0, <1>1, <2>1 DEF AllIsAbreast
<1> QED BY <1>1, <1>2, <1>6, <1>7, <1>8

LEMMA ApplyNext ==
  ASSUME DInv, NEW m \in feed, ApplyEvent(m)
  PROVE  DInv'
<1> USE DEF DInv
<1>1. PICK row : row = EventRow(m)
  OBVIOUS
<1>2. /\ m \in Announcements /\ m.at <= clock /\ clock \in Nat
      /\ row \in Entries /\ row.source = "CAMS" /\ row.updated = m.at /\ m.at \in Nat
  <2>1. m \in Announcements /\ m.at <= clock /\ clock \in Nat
    BY DEF TypeOK, DatedBefore
  <2>2. m.holder # Nobody
    BY DEF ApplyEvent
  <2> QED BY <1>1, <2>1, <2>2, EventRowTyped
<1>3. /\ cams' = MergeEvent(cams, row) /\ all' = MergeEvent(all, row)
      /\ applied' = applied \cup {m}
      /\ UNCHANGED <<clock, feed, rejected, acms, daily, changes>>
  BY <1>1 DEF ApplyEvent
<1>4. /\ DOMAIN cams' = {CamsSeq}
      /\ cams'[CamsSeq] = IF CamsSeq \in DOMAIN cams /\ row.updated <= cams[CamsSeq].updated
                          THEN cams[CamsSeq] ELSE row
  <2>1. DOMAIN cams \cup {CamsSeq} = {CamsSeq}
    BY DEF TypeOK
  <2> QED BY <1>3, <2>1, MergeRow
<1>5. /\ DOMAIN all' = DOMAIN all \cup {CamsSeq}
      /\ \A s \in DOMAIN all \ {CamsSeq} : all'[s] = all[s]
      /\ all'[CamsSeq] = IF CamsSeq \in DOMAIN all /\ row.updated <= all[CamsSeq].updated
                         THEN all[CamsSeq] ELSE row
  <2>1. /\ DOMAIN MergeEvent(all, row) = DOMAIN all \cup {CamsSeq}
        /\ \A s \in DOMAIN all \ {CamsSeq} : MergeEvent(all, row)[s] = all[s]
        /\ MergeEvent(all, row)[CamsSeq] =
             IF CamsSeq \in DOMAIN all /\ row.updated <= all[CamsSeq].updated
             THEN all[CamsSeq] ELSE row
    BY MergeRow, Zenon
  <2>2. all' = MergeEvent(all, row)
    BY <1>3
  <2> QED BY <2>1, <2>2, Zenon
<1>6. /\ CamsSeq \in DOMAIN cams => cams[CamsSeq].updated \in Nat
      /\ CamsSeq \in DOMAIN all => all[CamsSeq].updated \in Nat
  BY DEF TypeOK, Entries
<1>7. TypeOK'
  <2>1. CamsSeq \in Seqs
    BY TransitionAssumption
  <2>2. \A s \in DOMAIN cams' : cams'[s] \in Entries /\ cams'[s].source = "CAMS"
    BY <1>2, <1>4 DEF TypeOK
  <2>3. DOMAIN all' \subseteq Seqs /\ \A s \in DOMAIN all' : all'[s] \in Entries
    BY <1>2, <1>5, <2>1 DEF TypeOK
  <2>4. applied' \subseteq feed'
    BY <1>3 DEF TypeOK
  <2> QED BY <1>3, <1>4, <2>2, <2>3, <2>4 DEF TypeOK, daily
<1>8. DatedBefore' /\ CamsHasApplied'
  BY <1>3 DEF DatedBefore, CamsHasApplied
<1>9. AllIsAbreast'
  BY <1>2, <1>3, <1>4, <1>5, <1>6 DEF AllIsAbreast
<1>10. OwnedIsCams'
  <2>1. ASSUME NEW s \in DOMAIN all', all'[s].source = "CAMS"
        PROVE  s = CamsSeq /\ s \in DOMAIN cams' /\ all'[s] = cams'[s]
    <3>1. s = CamsSeq
      BY <1>5, <2>1 DEF OwnedIsCams
    <3>2. all'[CamsSeq] = cams'[CamsSeq]
      BY <1>2, <1>4, <1>5, <1>6, <2>1, <3>1 DEF OwnedIsCams, AllIsAbreast
    <3> QED BY <1>4, <3>1, <3>2
  <2> QED BY <2>1 DEF OwnedIsCams
<1> QED BY <1>7, <1>8, <1>9, <1>10

LEMMA MergeNext ==
  ASSUME DInv, MergeAcms
  PROVE  DInv' /\ cams' = cams /\ applied' = applied
         /\ \A s \in DOMAIN all : all[s].source = "CAMS" => s \in DOMAIN all' /\ all'[s] = all[s]
<1> USE DEF DInv
<1>1. clock \in Nat /\ clock' \in Nat /\ clock <= clock'
  <2>1. clock \in Nat
    BY DEF TypeOK
  <2> QED BY <2>1, AfterIsLater DEF MergeAcms, ReadClock
<1>2. PICK taken : /\ taken = {s \in Selected : Unowned(s)}
                   /\ all' = [s \in DOMAIN all \cup taken |->
                                IF s \in taken THEN AcmsEntry(acms[s], clock) ELSE all[s]]
  BY DEF MergeAcms
<1>3. UNCHANGED <<events, cams, acms, watermark, changes>>
      /\ sync' = [sync EXCEPT !.pc = "watermark"]
  BY DEF MergeAcms
<1>4. /\ taken \subseteq DOMAIN acms
      /\ \A s \in taken : s \in DOMAIN all => all[s].source # "CAMS"
  BY <1>2 DEF Selected, Unowned
<1>5. \A s \in taken : /\ AcmsEntry(acms[s], clock) \in Entries
                       /\ AcmsEntry(acms[s], clock).source = "ACMS"
                       /\ AcmsEntry(acms[s], clock).updated = clock
  <2>1. \A s \in taken : acms[s] \in AcmsRows
    BY <1>4 DEF TypeOK
  <2> QED BY <1>1, <2>1, AcmsEntryTyped
<1>6. /\ DOMAIN all' = DOMAIN all \cup taken
      /\ \A s \in taken : all'[s] \in Entries /\ all'[s].source = "ACMS"
                          /\ all'[s].updated = clock
      /\ \A s \in DOMAIN all \ taken : all'[s] = all[s]
  BY <1>2, <1>5
<1>7. TypeOK'
  <2>1. DOMAIN all' \subseteq Seqs /\ \A s \in DOMAIN all' : all'[s] \in Entries
    BY <1>4, <1>6 DEF TypeOK
  <2> QED BY <1>1, <1>3, <2>1 DEF TypeOK, events
<1>8. DatedBefore' /\ CamsHasApplied'
  <2>1. \A m \in feed : m.at \in Nat /\ m.at <= clock
    BY DEF TypeOK, Announcements, DatedBefore
  <2> QED BY <1>1, <1>3, <2>1 DEF DatedBefore, CamsHasApplied, events
<1>9. AllIsAbreast'
  <2>1. CamsSeq \in DOMAIN cams => cams[CamsSeq].updated \in Nat
    BY DEF TypeOK, Entries
  <2> QED BY <1>1, <1>3, <1>6, <2>1 DEF AllIsAbreast
<1>10. OwnedIsCams'
  BY <1>3, <1>6 DEF OwnedIsCams
<1> QED BY <1>3, <1>4, <1>6, <1>7, <1>8, <1>9, <1>10 DEF events

LEMMA TransitionNext == DInv /\ [Next]_vars => DInv'
BY AsideNext, ApplyNext, MergeNext DEF Next

LEMMA TransitionAlways == Spec => []DInv
<1> QED BY TransitionInit, TransitionNext, PTL DEF Spec

-----------------------------------------------------------------------------
(* Every variable keeps its type.                                          *)
THEOREM TransitionTypes == Spec => []TypeOK
<1>1. DInv => TypeOK
  BY DEF DInv
<1> QED BY <1>1, TransitionAlways, PTL

(* Once CAMS owns a row of CMMAP_ALL, the row tells what CMMAP_CAMS tells, *)
(* whatever event is applied next and whenever the daily merge runs.       *)
THEOREM OwnedFollow == Spec => OwnedRowsFollowCams
<1>1. ASSUME DInv, DInv', [Next]_vars, NEW s \in DOMAIN all, all[s].source = "CAMS"
      PROVE  s \in DOMAIN all' /\ s \in DOMAIN cams' /\ all'[s] = cams'[s]
  <2>1. s = CamsSeq /\ s \in DOMAIN cams /\ all[s] = cams[s]
    BY <1>1 DEF DInv, OwnedIsCams
  <2>2. CASE MergeAcms
    BY <2>1, <2>2, <1>1, MergeNext
  <2>3. ASSUME NEW m \in feed, ApplyEvent(m)
        PROVE  s \in DOMAIN all' /\ s \in DOMAIN cams' /\ all'[s] = cams'[s]
    <3>1. PICK row : row = EventRow(m)
      OBVIOUS
    <3>2. cams' = MergeEvent(cams, row) /\ all' = MergeEvent(all, row)
      BY <2>3, <3>1 DEF ApplyEvent
    <3>3. /\ DOMAIN cams' = DOMAIN cams \cup {CamsSeq}
          /\ cams'[CamsSeq] = IF CamsSeq \in DOMAIN cams /\ row.updated <= cams[CamsSeq].updated
                              THEN cams[CamsSeq] ELSE row
      BY <3>2, MergeRow
    <3>4. /\ DOMAIN all' = DOMAIN all \cup {CamsSeq}
          /\ all'[CamsSeq] = IF CamsSeq \in DOMAIN all /\ row.updated <= all[CamsSeq].updated
                             THEN all[CamsSeq] ELSE row
      BY <3>2, MergeRow
    <3> QED BY <1>1, <2>1, <3>3, <3>4
  <2>4. CASE cams' = cams /\ all' = all
    BY <1>1, <2>1, <2>4
  <2> QED BY <1>1, <2>2, <2>3, <2>4, AsideNext DEF Next
<1>2. DInv /\ DInv' /\ [Next]_vars =>
        [\A s \in DOMAIN all : all[s].source = "CAMS" =>
           s \in DOMAIN all' /\ s \in DOMAIN cams' /\ all'[s] = cams'[s]]_vars
  BY <1>1
<1> QED BY <1>2, TransitionAlways, PTL DEF Spec, OwnedRowsFollowCams

(* However the events are delivered, reordered and repeated, CMMAP_CAMS    *)
(* tells the youngest that was applied.                                    *)
THEOREM YoungestStays == Spec => []YoungestEventStays
<1>1. Init => YoungestEventStays
  BY DEF Init, YoungestEventStays
<1>2. ASSUME DInv, YoungestEventStays, [Next]_vars
      PROVE  YoungestEventStays'
  <2>1. CASE cams' = cams /\ applied' = applied
    BY <1>2, <2>1 DEF YoungestEventStays
  <2>2. ASSUME NEW m \in feed, ApplyEvent(m)
        PROVE  YoungestEventStays'
    <3>1. PICK row : row = EventRow(m)
      OBVIOUS
    <3>2. row.updated = m.at /\ m.at \in Nat /\ \A k \in applied : k.at \in Nat
      BY <1>2, <2>2, <3>1 DEF DInv, TypeOK, Announcements, EventRow
    <3>3. cams' = MergeEvent(cams, row) /\ applied' = applied \cup {m}
      BY <2>2, <3>1 DEF ApplyEvent
    <3>4. CASE applied = {}
      <4>1. CamsSeq \notin DOMAIN cams
        BY <1>2, <3>4 DEF DInv, CamsHasApplied
      <4>2. CamsSeq \in DOMAIN cams' /\ cams'[CamsSeq] = EventRow(m)
        BY <3>1, <3>3, <4>1, MergeRow
      <4> QED BY <3>2, <3>3, <3>4, <4>2 DEF YoungestEventStays
    <3>5. CASE applied # {}
      <4>1. PICK last \in applied : /\ CamsSeq \in DOMAIN cams
                                    /\ cams[CamsSeq] = EventRow(last)
                                    /\ \A other \in applied : other.at <= last.at
        BY <1>2, <3>5 DEF YoungestEventStays
      <4>2. cams[CamsSeq].updated = last.at
        BY <4>1 DEF EventRow
      <4>3. CamsSeq \in DOMAIN cams'
            /\ cams'[CamsSeq] = IF m.at <= last.at THEN EventRow(last) ELSE EventRow(m)
        <5>1. /\ DOMAIN cams' = DOMAIN cams \cup {CamsSeq}
              /\ cams'[CamsSeq] = IF CamsSeq \in DOMAIN cams
                                     /\ row.updated <= cams[CamsSeq].updated
                                  THEN cams[CamsSeq] ELSE row
          BY <3>3, MergeRow
        <5> QED BY <3>1, <3>2, <4>1, <4>2, <5>1
      <4>4. CASE m.at <= last.at
        BY <3>2, <3>3, <4>1, <4>3, <4>4 DEF YoungestEventStays
      <4>5. CASE ~(m.at <= last.at)
        BY <3>2, <3>3, <4>1, <4>3, <4>5 DEF YoungestEventStays
      <4> QED BY <4>4, <4>5
    <3> QED BY <3>4, <3>5
  <2> QED BY <1>2, <2>1, <2>2, AsideNext, MergeNext DEF Next
<1> QED BY <1>1, <1>2, TransitionAlways, PTL DEF Spec

-----------------------------------------------------------------------------
(* THE MIGRATION: for any records of ATS and ACMS, page sizes, numbers of  *)
(* invocations, deliveries and failures, with start messages that are sent *)
(* when everything came to rest (AloneSpec).                               *)
(*                                                                         *)
(* Invariants, in the order they build on each other: KInv says which step *)
(* the handler of a message can be at and that whatever is no page of a    *)
(* healing runs alone; HInv that every professional record is covered;     *)
(* SInv that every state and every cursor, wherever a copy is kept, tells  *)
(* what is migrated; LInv that the counter has a ledger, EInv that it is   *)
(* exact when invocations come one at a time.                              *)

(* The steps a message's handler can be at. *)
StepsOf(kind) ==
  CASE kind = "deleteAll" -> {"deleteTrustees", "deleteIds", "resetState", "getState", "startPage"}
    [] kind \in {"resume", "reset"} -> {"getState", "startPage"}
    [] kind = "page" -> {"getState", "fetch", "find", "store", "ids", "update", "upsert", "return"}
    [] kind = "heal" -> {"guard", "create", "initHeal", "sendPages"}
    [] kind = "healPage" -> {"records", "update", "upsert", "return"}

(* The page of an invocation is the one after its cursor, in progress.     *)
Processing == {"find", "store", "ids"}
Ending     == {"update", "upsert", "return"}

PageInProgress(i) ==
  /\ i.todo \subseteq i.page
  /\ i.page # {} => i.page = PageAfter(i.msg.cursor)
  /\ i.pc \in {"getState", "fetch"} => i.page = {}
  /\ i.pc \in Processing => i.todo # {}
  /\ i.pc \in Ending => i.todo = {}
  /\ i.pc \in Processing \cup Ending =>
       /\ i.goal = "IN_PROGRESS" => i.page # {}
       /\ i.goal = "COMPLETED" =>
            i.page = PageAfter(i.msg.cursor) /\ Cardinality(i.page) # AtsPageSize

(* An invocation is at a step of its message, with the locals of that step.*)
InvocationOK(i) ==
  /\ i.pc = "idle" => i = Idle
  /\ i.pc # "idle" =>
       /\ i.pc \in StepsOf(i.msg.kind)
       /\ i.msg.kind = "page" => PageInProgress(i)
       /\ i.msg.kind = "healPage" =>
            i.todo \subseteq i.msg.records /\ (i.pc # "records" => i.todo = {})

(* An invocation is running.                                               *)
Busy(w) == worker[w].pc # "idle"

(* Messages are told apart by their ids, no two invocations have the same, *)
(* and only the pages of a healing are ever many.                          *)
QueueOK ==
  /\ \A w \in Workers : InvocationOK(worker[w]) /\ (Busy(w) => worker[w].msg \in queue)
  /\ \A w, v \in Workers : Busy(w) /\ Busy(v) /\ worker[w].msg = worker[v].msg => w = v
  /\ \A m \in queue : m.id <= sent
  /\ \A m, n \in queue : m.id = n.id \/ m.kind # "healPage" => m = n
  /\ \A m \in queue : m.kind # "healPage" => m.records = {}
  /\ \A m \in queue : m.tries < MaxDeliveries \/ Taken(m)

(* The invariant of the queues and the handlers.                           *)
KInv == MigrationTypeOK /\ QueueOK

-----------------------------------------------------------------------------
(* The healing. *)
Accounted == mapped \cup unmatched \cup reported

(* A page of the healing is queued.                                        *)
HealPaging == \E m \in queue : m.kind = "healPage"

(* Every record is accounted for, or in a message.                         *)
Covered == \A p \in Professionals : p \in Accounted \/ \E m \in queue : p \in About(m)

(* Once a healing has begun, and as long as it has pages, all is covered.  *)
HealingCovered == doc.heal # "none" \/ HealPaging => Covered

(* A record of a page in progress is yet to be processed, done with, or in *)
(* a page sent later.                                                      *)
PagesCovered ==
  \A w \in Workers : Busy(w) /\ worker[w].msg.kind = "healPage" =>
    \A p \in worker[w].msg.records :
      \/ p \in worker[w].todo \cup worker[w].out \cup Accounted
      \/ \E m \in queue : m.id > worker[w].msg.id /\ p \in m.records

(* What the other handlers know of a healing is covered by itself. *)
StatesCovered ==
  \A w \in Workers : Busy(w) =>
    /\ worker[w].msg.kind = "page"
       /\ (worker[w].seen.heal # "none" \/ worker[w].was.heal # "none") =>
         Professionals \subseteq Accounted
    /\ worker[w].msg.kind = "deleteAll" /\ worker[w].pc = "startPage" => doc.heal = "none"

(* A start that finds the healing completed may be refused.                *)
HealDoneCovered ==
  doc.heal = "COMPLETED" /\ (\E m \in queue : m.kind = "heal") => Professionals \subseteq Accounted

(* The invariant of HealLosesNothing.                                      *)
HInv == HealingCovered /\ PagesCovered /\ StatesCovered /\ HealDoneCovered

-----------------------------------------------------------------------------
(* The migration: the records that are migrated, or given up. *)
Settled == {r \in AtsRecords : r \in todIds[TrusteeOf[r]] \cup givenUp}

(* All records up to the cursor are settled.                               *)
Reached(settled, cursor) == \A r \in AtsRecords : r <= cursor => r \in settled

(* What a state tells of the migration is true.                            *)
Sound(settled, state) ==
  /\ Reached(settled, state.cursor)
  /\ state.status = "COMPLETED" => AtsRecords \subseteq settled

(* The trustee whose records come next in a page, and those records.       *)
TrusteeNext(i) == TrusteeOf[Least(i.todo)]
GroupNext(i)   == {r \in i.todo : TrusteeOf[r] = TrusteeNext(i)}

(* So are the states an invocation read; it has none yet where the         *)
(* migration starts afresh; and what a page has done is migrated.          *)
InvocationSound(i, gone, settled, ids) ==
  /\ ~gone => Sound(settled, i.seen) /\ Sound(settled, i.was)
  /\ i.msg.kind \in {"reset", "deleteAll"} =>
       i.was = NoState /\ (i.pc # "startPage" => i.seen = NoState)
  /\ i.pc # "idle" /\ i.msg.kind = "page" =>
       /\ i.pc = "store" => i.found = ids[TrusteeNext(i)]
       /\ ~gone => /\ i.page \ i.todo \subseteq settled
                   /\ i.pc = "ids" => GroupNext(i) \subseteq settled

(* The state document and the pages that are queued are sound, unless the  *)
(* trustees were deleted and the state was not yet reset.                  *)
StatesSound ==
  ~deleted =>
    /\ Sound(Settled, doc)
    /\ \A m \in queue : m.kind = "page" => Reached(Settled, m.cursor)

(* So is what the invocations hold of them.                                *)
InvocationsSound == \A w \in Workers : InvocationSound(worker[w], deleted, Settled, todIds)

(* The invariant of CompletedIsMigrated.                                   *)
SInv == StatesSound /\ InvocationsSound

-----------------------------------------------------------------------------
(* The counter: the records that are mapped or known to be unmatched. *)
Healed == mapped \cup unmatched \cup UNION {worker[w].out : w \in Workers}

(* at: the id of the message with which a record is going to be counted, 0 *)
(* once it was.                                                            *)
Due(at, id)   == {p \in Professionals : at[p] = id}
Uncounted(at) == {p \in Professionals : at[p] # 0}

(* The counter is not less than what is still to count.                    *)
StateLedger(at, state) ==
  /\ Cardinality(Uncounted(at)) <= state.remaining
  /\ state.heal = "COMPLETED" => Uncounted(at) = {}

(* A page is due with its records until it is counted, and never with less *)
(* than it processed; what it read of the counter is not too little.       *)
PageLedger(at, i, healed) ==
  /\ i.pc = "records" =>
       /\ i.todo \subseteq Due(at, i.msg.id)
       /\ i.done = Cardinality(Due(at, i.msg.id) \ i.todo)
       /\ Due(at, i.msg.id) \ i.todo \subseteq healed
  /\ i.pc # "records" => Due(at, i.msg.id) = {}
  /\ i.pc \in {"update", "upsert"} => Cardinality(Uncounted(at)) <= i.left
  /\ i.pc = "upsert" => StateLedger(at, i.was)

(* A page nobody took is due with its records.                             *)
QueueLedger(at) ==
  \A m \in queue : m.id # 0 /\ (m.kind = "healPage" /\ ~ Taken(m) => Due(at, m.id) = m.records)

(* The pages that are being processed balance.                             *)
WorkersLedger(at) ==
  \A w \in Workers : Busy(w) /\ worker[w].msg.kind = "healPage" => PageLedger(at, worker[w], Healed)

(* Everything that is not due was mapped, or found unmatched.              *)
Ledger(at) ==
  /\ QueueLedger(at) /\ WorkersLedger(at) /\ StateLedger(at, doc)
  /\ \A p \in Professionals : at[p] = 0 => p \in Healed

(* As long as a page is queued, the counter has such a ledger.             *)
PagingCounted == HealPaging => \E at \in [Professionals -> 0..sent] : Ledger(at)

(* A healing that is completed is, unless a deletion is going on.          *)
CompletedHealed ==
  doc.heal = "COMPLETED" =>
    \/ Professionals \subseteq Healed
    \/ \E m \in queue : m.kind = "deleteAll"

(* A page of the migration may write down again what it read of a healing. *)
KnownHealed ==
  \A w \in Workers :
    /\ worker[w].msg.kind # "healPage" => worker[w].out = {}
    /\ Busy(w) /\ worker[w].msg.kind = "page"
       /\ "COMPLETED" \in {worker[w].seen.heal, worker[w].was.heal} =>
         Professionals \subseteq mapped \cup unmatched

(* Before the pages are queued, the counter counts all records.            *)
ReadyToSend ==
  \A w \in Workers : worker[w].pc = "sendPages" =>
    /\ doc.remaining = Cardinality(Professionals)
    /\ doc.heal = "COMPLETED" => Professionals = {}

(* The invariant of HealedIsHealed, which claims nothing after a failure.  *)
LCount == PagingCounted /\ CompletedHealed /\ KnownHealed /\ ReadyToSend
LInv   == failures = 0 => LCount

-----------------------------------------------------------------------------
(* The counter, when invocations come one at a time. *)
OneInvocation == \A w, v \in Workers : w = v

(* The pages nobody has taken, and their records.                          *)
WaitingPages == {m \in queue : m.kind = "healPage" /\ ~ Taken(m)}
Waiting      == UNION {m.records : m \in WaitingPages}

(* A record is on one page only.                                           *)
PagesApart == \A m, n \in WaitingPages : \A p \in Professionals :
                p \in m.records /\ p \in n.records => m = n

(* A state says that the healing is completed if no record is waiting.     *)
Completes(state, waiting) == waiting = {} => state.heal = "COMPLETED"

(* The counter stands at the records that are waiting and those the page   *)
(* in progress has yet to take off; its last write leaves that as it is.   *)
PageExact(i, state, waiting) ==
  /\ i.pc = "records" =>
       /\ i.todo \cap waiting = {}
       /\ state.remaining = Cardinality(waiting) + Cardinality(i.todo) + i.done
  /\ i.pc # "records" => state.remaining = Cardinality(waiting)
  /\ i.pc \in {"update", "upsert"} => i.left = Cardinality(waiting)
  /\ i.pc = "upsert" => i.was = state
  /\ i.pc = "return" => Completes(state, waiting)

(* As long as there are pages, the counter is exact.                       *)
PagingExact ==
  HealPaging =>
    /\ PagesApart
    /\ \A w \in Workers : Busy(w) => PageExact(worker[w], doc, Waiting)
    /\ (\A w \in Workers : ~ Busy(w)) =>
         doc.remaining = Cardinality(Waiting) /\ Completes(doc, Waiting)

(* Without pages no state tells of a healing that goes on, except while    *)
(* the pages are about to be queued.                                       *)
Told == {"none", "COMPLETED"}

RestTold ==
  /\ ~ HealPaging /\ (\A w \in Workers : worker[w].pc # "sendPages") => doc.heal \in Told
  /\ \A w \in Workers :
       /\ Busy(w) /\ worker[w].msg.kind = "page" =>
            worker[w].seen.heal \in Told /\ worker[w].was.heal \in Told
       /\ worker[w].pc = "sendPages" => Completes(doc, Professionals)

(* The invariant of HealConverges, which claims nothing after a failure.   *)
ECount == PagingExact /\ RestTold
EInv   == failures = 0 => ECount
-----------------------------------------------------------------------------
(* Numbers of a finite set. *)

LEMMA LeastExists ==
  ASSUME NEW S \in SUBSET Nat, S # {}
  PROVE  Least(S) \in S /\ \A y \in S : Least(S) <= y
<1> DEFINE R == OpToRel(<, Nat)
<1>1. \A m, n \in Nat : (<<m, n>> \in R) <=> m < n
  BY DEF OpToRel
<1>2. IsWellFoundedOn(R, Nat)
  BY NatLessThanWellFounded
<1> HIDE DEF R
<1>3. PICK x \in S : \A y \in S : ~ (<<y, x>> \in R)
  BY <1>2, WFMin
<1>4. \A y \in S : x <= y
  <2> SUFFICES ASSUME NEW y \in S PROVE x <= y
    OBVIOUS
  <2>1. x \in Nat /\ y \in Nat
    OBVIOUS
  <2>2. ~ (y < x)
    BY <1>1, <1>3, <2>1
  <2> QED BY <2>1, <2>2
<1> QED BY <1>4 DEF Least

LEMMA FewerLarger ==
  ASSUME NEW S \in SUBSET Nat, IsFiniteSet(S), NEW x \in S, NEW y \in S, x < y
  PROVE  Cardinality({z \in S : y < z}) < Cardinality({z \in S : x < z})
<1> DEFINE A == {z \in S : y < z}
           B == {z \in S : x < z}
<1>1. \A z \in S : z \in Nat
  OBVIOUS
<1>2. A \in SUBSET B /\ A # B /\ B \in SUBSET S
  <2>1. y \in B /\ y \notin A
    BY <1>1
  <2>2. \A z \in A : z \in B
    BY <1>1
  <2> QED BY <2>1, <2>2
<1>3. IsFiniteSet(B)
  BY <1>2, FS_Subset
<1> HIDE DEF A, B
<1>4. Cardinality(A) <= Cardinality(B) /\ Cardinality(A) # Cardinality(B)
  BY <1>2, <1>3, FS_Subset
<1>5. Cardinality(A) \in Nat /\ Cardinality(B) \in Nat
  BY <1>2, <1>3, FS_Subset, FS_CardinalityType
<1>6. Cardinality(A) < Cardinality(B)
  BY <1>4, <1>5
<1> QED BY <1>6 DEF A, B

LEMMA LastExists ==
  ASSUME NEW S \in SUBSET Nat, IsFiniteSet(S), S # {}
  PROVE  Last(S) \in S /\ \A y \in S : y <= Last(S)
<1> DEFINE Above(x) == Cardinality({z \in S : x < z})
           T == {Above(x) : x \in S}
<1>1. \A x \in S : Above(x) \in Nat
  <2>1. \A x \in S : {z \in S : x < z} \in SUBSET S
    OBVIOUS
  <2>2. \A x \in S : IsFiniteSet({z \in S : x < z})
    BY <2>1, FS_Subset
  <2> QED BY <2>2, FS_CardinalityType
<1>2. T \in SUBSET Nat /\ T # {}
  BY <1>1
<1>3. \A x, y \in S : x < y => Above(y) < Above(x)
  BY FewerLarger
<1> HIDE DEF Above
<1>4. PICK x \in S : \A y \in S : Above(x) <= Above(y)
  <2>1. Least(T) \in T /\ \A n \in T : Least(T) <= n
    BY <1>2, LeastExists
  <2>2. PICK x \in S : Least(T) = Above(x)
    BY <2>1
  <2> QED BY <2>1, <2>2
<1>5. \A y \in S : y <= x
  BY <1>1, <1>3, <1>4
<1> QED BY <1>5 DEF Last

-----------------------------------------------------------------------------
(* Pages of ATS records. *)

(* The records that come before r on the page.                             *)
Between(cursor, r) == {x \in AtsRecords : cursor < x /\ x < r}

LEMMA RecordsAreNumbers ==
  /\ AtsRecords \subseteq Nat \ {0} /\ IsFiniteSet(AtsRecords)
  /\ Professionals \subseteq Nat \ {0} /\ IsFiniteSet(Professionals)
  /\ AtsPageSize \in Nat \ {0} /\ HealPageSize \in Nat \ {0}
BY MigrationAssumption

LEMMA PageMembers ==
  ASSUME NEW cursor \in Nat
  PROVE  PageAfter(cursor) =
           {r \in AtsRecords : r > cursor /\ Cardinality(Between(cursor, r)) < AtsPageSize}
BY DEF PageAfter, Between

LEMMA BetweenFinite ==
  ASSUME NEW cursor, NEW r
  PROVE  IsFiniteSet(Between(cursor, r)) /\ Cardinality(Between(cursor, r)) \in Nat
<1>1. Between(cursor, r) \in SUBSET AtsRecords
  BY DEF Between
<1> QED BY <1>1, RecordsAreNumbers, FS_Subset, FS_CardinalityType

LEMMA PageFinite ==
  ASSUME NEW cursor \in Nat
  PROVE  /\ PageAfter(cursor) \in SUBSET AtsRecords /\ PageAfter(cursor) \in SUBSET Nat
         /\ IsFiniteSet(PageAfter(cursor)) /\ Cardinality(PageAfter(cursor)) \in Nat
<1>1. PageAfter(cursor) \in SUBSET AtsRecords
  BY PageMembers
<1>2. IsFiniteSet(PageAfter(cursor))
  BY <1>1, RecordsAreNumbers, FS_Subset
<1> QED BY <1>1, <1>2, RecordsAreNumbers, FS_CardinalityType

(* A page leaves no record out. *)
LEMMA PageContiguous ==
  ASSUME NEW cursor \in Nat, NEW r \in PageAfter(cursor), NEW x \in AtsRecords,
         x > cursor, x <= r
  PROVE  x \in PageAfter(cursor)
<1>1. r \in AtsRecords /\ Cardinality(Between(cursor, r)) < AtsPageSize
  BY PageMembers
<1>2. x \in Nat /\ r \in Nat
  BY <1>1, RecordsAreNumbers
<1>3. Between(cursor, x) \in SUBSET Between(cursor, r)
  <2> SUFFICES ASSUME NEW z \in Between(cursor, x) PROVE z \in Between(cursor, r)
    OBVIOUS
  <2>1. z \in AtsRecords /\ cursor < z /\ z < x
    BY DEF Between
  <2>2. z \in Nat
    BY <2>1, RecordsAreNumbers
  <2>3. z < r
    BY <1>2, <2>1, <2>2
  <2> QED BY <2>1, <2>3 DEF Between
<1>4. Cardinality(Between(cursor, x)) <= Cardinality(Between(cursor, r))
  BY <1>3, BetweenFinite, FS_Subset
<1>5. Cardinality(Between(cursor, x)) < AtsPageSize
  BY <1>1, <1>4, BetweenFinite, RecordsAreNumbers
<1> QED BY <1>5, PageMembers

(* A page that is not full is the last. *)
LEMMA ShortPageIsLast ==
  ASSUME NEW cursor \in Nat, Cardinality(PageAfter(cursor)) # AtsPageSize,
         NEW r \in AtsRecords, r > cursor
  PROVE  r \in PageAfter(cursor)
<1> DEFINE P == PageAfter(cursor)
           Rest == {x \in AtsRecords : x > cursor /\ x \notin P}
<1>1. \A z \in AtsRecords : z \in Nat
  BY RecordsAreNumbers
<1> SUFFICES ASSUME r \notin P PROVE FALSE
  OBVIOUS
<1>2. Rest \in SUBSET Nat /\ Rest # {}
  BY <1>1
<1>3. PICK x \in Rest : \A y \in Rest : x <= y
  BY <1>2, LeastExists
<1>4. x \in AtsRecords /\ x > cursor /\ x \notin P /\ x \in Nat
  BY <1>1, <1>3
<1>5. Between(cursor, x) \in SUBSET P
  <2>1. ASSUME NEW z \in AtsRecords, cursor < z, z < x PROVE z \in P
    <3>1. z \in Nat /\ ~ (x <= z)
      BY <1>1, <1>4, <2>1
    <3>2. z \notin Rest
      BY <1>3, <3>1
    <3> QED BY <1>4, <2>1, <3>1, <3>2
  <2> QED BY <2>1 DEF Between
<1>6. AtsPageSize <= Cardinality(Between(cursor, x))
  BY <1>4, PageMembers, BetweenFinite, RecordsAreNumbers
<1>7. Cardinality(Between(cursor, x)) <= Cardinality(P)
  BY <1>5, PageFinite, FS_Subset
<1>8. P # {}
  BY <1>6, <1>7, BetweenFinite, RecordsAreNumbers, FS_EmptySet
<1>9. PICK m \in P : \A y \in P : y <= m
  BY <1>8, PageFinite, LastExists
<1>10. m \in AtsRecords /\ m \in Nat /\ Cardinality(Between(cursor, m)) < AtsPageSize
  BY <1>1, <1>9, PageMembers
<1>11. P \in SUBSET (Between(cursor, m) \cup {m})
  <2>1. ASSUME NEW y \in P, y # m PROVE y \in Between(cursor, m)
    <3>1. y \in AtsRecords /\ y > cursor /\ y \in Nat /\ y <= m
      BY <1>1, <1>9, PageMembers
    <3> QED BY <1>10, <2>1, <3>1 DEF Between
  <2> QED BY <2>1
<1>12. /\ IsFiniteSet(Between(cursor, m) \cup {m})
       /\ Cardinality(Between(cursor, m) \cup {m}) <= Cardinality(Between(cursor, m)) + 1
       /\ Cardinality(Between(cursor, m) \cup {m}) \in Nat
  <2>1. IsFiniteSet(Between(cursor, m) \cup {m})
        /\ Cardinality(Between(cursor, m) \cup {m}) =
             IF m \in Between(cursor, m) THEN Cardinality(Between(cursor, m))
             ELSE Cardinality(Between(cursor, m)) + 1
    BY BetweenFinite, FS_AddElement
  <2> QED BY <2>1, BetweenFinite
<1>13. Cardinality(P) <= Cardinality(Between(cursor, m) \cup {m})
  BY <1>11, <1>12, FS_Subset
<1>14. Cardinality(P) = AtsPageSize
  <2> HIDE DEF P
  <2>1. Cardinality(P) \in Nat
    BY PageFinite DEF P
  <2> QED BY <1>6, <1>7, <1>10, <1>12, <1>13, <2>1, BetweenFinite, RecordsAreNumbers
<1> QED BY <1>14

-----------------------------------------------------------------------------
(* Invocations and messages. *)

(* An invocation goes on to i; nothing is sent.                            *)
Goes(w, i) == worker' = [worker EXCEPT ![w] = i] /\ UNCHANGED <<queue, sent>>

LEMMA Stepping ==
  /\ StepsOf("deleteAll") = {"deleteTrustees", "deleteIds", "resetState", "getState", "startPage"}
  /\ StepsOf("resume") = {"getState", "startPage"} /\ StepsOf("reset") = {"getState", "startPage"}
  /\ StepsOf("page") = {"getState", "fetch", "find", "store", "ids", "update", "upsert", "return"}
  /\ StepsOf("heal") = {"guard", "create", "initHeal", "sendPages"}
  /\ StepsOf("healPage") = {"records", "update", "upsert", "return"}
BY DEF StepsOf

LEMMA FirstStepping ==
  ASSUME NEW kind \in Orders \cup {"page", "healPage"}
  PROVE  FirstStep(kind) \in StepsOf(kind) /\ FirstStep(kind) \notin Processing \cup Ending
         /\ (kind = "page" => FirstStep(kind) = "getState")
         /\ (kind = "healPage" => FirstStep(kind) = "records")
BY Stepping DEF FirstStep, Orders, Processing, Ending

LEMMA InvocationTypes ==
  ASSUME NEW i \in Invocations
  PROVE  /\ i.msg \in Messages /\ i.seen \in States /\ i.was \in States
         /\ i.page \in SUBSET AtsRecords /\ i.todo \in SUBSET Nat /\ i.found \in SUBSET AtsRecords
         /\ i.goal \in Statuses /\ i.out \in SUBSET Professionals /\ i.done \in Nat
            /\ i.left \in Int
BY DEF Invocations

LEMMA MessageTypes ==
  ASSUME NEW m \in Messages
  PROVE  /\ m.id \in Nat /\ m.kind \in Orders \cup {"page", "healPage"} /\ m.cursor \in Nat
         /\ m.records \in SUBSET Professionals /\ m.tries \in 0..MaxDeliveries
BY DEF Messages

LEMMA StateTypes ==
  ASSUME NEW s \in States
  PROVE  s.status \in Statuses /\ s.cursor \in Nat /\ s.heal \in Statuses /\ s.remaining \in Int
BY DEF States

LEMMA StatesTyped ==
  /\ NoState \in States /\ Fresh \in States
  /\ NoState.status = "none" /\ NoState.cursor = 0 /\ NoState.heal = "none" /\ NoState.remaining = 0
  /\ Fresh.status = "IN_PROGRESS" /\ Fresh.cursor = 0 /\ Fresh.heal = "none" /\ Fresh.remaining = 0
BY DEF NoState, Fresh, States, Statuses

LEMMA MessageTyped ==
  ASSUME NEW id \in Nat, NEW kind \in Orders \cup {"page", "healPage"}, NEW cursor \in Nat,
         NEW records \in SUBSET Professionals
  PROVE  /\ Message(id, kind, cursor, records) \in Messages
         /\ Message(id, kind, cursor, records).id = id
         /\ Message(id, kind, cursor, records).kind = kind
         /\ Message(id, kind, cursor, records).cursor = cursor
         /\ Message(id, kind, cursor, records).records = records
         /\ Message(id, kind, cursor, records).tries = 0
BY MigrationAssumption DEF Message, Messages

LEMMA IdleTyped ==
  /\ Idle \in Invocations
  /\ Idle.pc = "idle" /\ Idle.msg.kind = "resume" /\ Idle.msg.records = {} /\ Idle.msg.id = 0
  /\ Idle.seen = NoState /\ Idle.was = NoState /\ Idle.page = {} /\ Idle.todo = {}
  /\ Idle.found = {} /\ Idle.goal = "IN_PROGRESS" /\ Idle.out = {} /\ Idle.done = 0 /\ Idle.left = 0
<1> DEFINE msg == Message(0, "resume", 0, {})
<1>1. msg \in Messages /\ msg.kind = "resume" /\ msg.records = {} /\ msg.id = 0
  BY MessageTyped DEF Orders
<1> HIDE DEF msg
<1>2. Idle = [pc |-> "idle", msg |-> msg, seen |-> NoState, was |-> NoState, page |-> {},
              todo |-> {}, found |-> {}, goal |-> "IN_PROGRESS", out |-> {}, done |-> 0, left |-> 0]
  BY DEF Idle, msg
<1>3. "IN_PROGRESS" \in Statuses
  BY DEF Statuses
<1> QED BY <1>1, <1>2, <1>3, StatesTyped DEF Invocations

(* Where an invocation is tells what its message is. *)
LEMMA KindAt ==
  ASSUME KInv, NEW w \in Workers
  PROVE  /\ worker[w] \in Invocations /\ worker[w].msg \in Messages
         /\ Busy(w) <=> worker[w] # Idle
         /\ Busy(w) => worker[w].msg \in queue /\ worker[w].pc \in StepsOf(Kind(w))
         /\ worker[w].pc \in {"deleteTrustees", "deleteIds", "resetState"} => Kind(w) = "deleteAll"
         /\ worker[w].pc = "getState" => Kind(w) \in {"deleteAll", "resume", "reset", "page"}
         /\ worker[w].pc = "startPage" => Kind(w) \in {"deleteAll", "resume", "reset"}
         /\ worker[w].pc \in {"fetch"} \cup Processing => Kind(w) = "page"
         /\ worker[w].pc \in Ending => Kind(w) \in {"page", "healPage"}
         /\ worker[w].pc \in {"guard", "create", "initHeal", "sendPages"} => Kind(w) = "heal"
         /\ worker[w].pc = "records" => Kind(w) = "healPage"
<1>1. worker[w] \in Invocations
  BY DEF KInv, MigrationTypeOK
<1>2. worker[w].msg \in Messages
  BY <1>1, InvocationTypes
<1>3. Kind(w) \in {"resume", "reset", "deleteAll", "heal", "page", "healPage"}
  BY <1>2, MessageTypes DEF Kind, Orders
<1>4. Busy(w) <=> worker[w] # Idle
  BY IdleTyped DEF KInv, QueueOK, InvocationOK, Busy
<1>5. Busy(w) => worker[w].msg \in queue /\ worker[w].pc \in StepsOf(Kind(w))
  BY DEF KInv, QueueOK, InvocationOK, Busy, Kind
<1>6. worker[w].pc = "idle" \/ worker[w].pc \in StepsOf(Kind(w))
  BY <1>5 DEF Busy
<1> QED BY <1>1, <1>2, <1>3, <1>4, <1>5, <1>6, Stepping DEF Processing, Ending

(* Whoever handles anything but a page of a healing is alone. *)
LEMMA Alone ==
  ASSUME KInv, NEW w \in Workers, Busy(w), Kind(w) # "healPage"
  PROVE  /\ queue = {worker[w].msg}
         /\ \A v \in Workers : v # w => worker[v] = Idle
<1>1. worker[w].msg \in queue
  BY KindAt
<1>2. queue = {worker[w].msg}
  BY <1>1 DEF KInv, QueueOK, Kind
<1>3. ASSUME NEW v \in Workers, v # w PROVE worker[v] = Idle
  <2>1. ~ Busy(v)
    BY <1>2, <1>3 DEF KInv, QueueOK
  <2> QED BY <2>1, KindAt
<1> QED BY <1>2, <1>3

(* An invocation that goes on. *)
LEMMA AdvanceOK ==
  ASSUME KInv, NEW w \in Workers, Busy(w), NEW i \in Invocations,
         i.pc # "idle", i.msg = worker[w].msg, InvocationOK(i), Goes(w, i)
  PROVE  worker' \in [Workers -> Invocations] /\ queue' \subseteq Messages /\ sent' \in Nat
         /\ QueueOK'
<1>1. worker \in [Workers -> Invocations] /\ queue \subseteq Messages /\ sent \in Nat
  BY DEF KInv, MigrationTypeOK
<1>2. worker'[w] = i /\ \A v \in Workers : v # w => worker'[v] = worker[v]
  BY <1>1 DEF Goes
<1>3. queue' = queue /\ sent' = sent
  BY DEF Goes
<1>4. \A v \in Workers : worker'[v].msg = worker[v].msg
      /\ (worker'[v].pc # "idle" <=> worker[v].pc # "idle")
  BY <1>2 DEF Busy
<1>5. \A v \in Workers : InvocationOK(worker'[v])
  BY <1>2 DEF KInv, QueueOK
<1>6. \A v \in Workers : worker[v] # Idle <=> worker'[v] # Idle
  <2>1. \A v \in Workers : worker[v] # Idle <=> Busy(v)
    BY KindAt
  <2>2. i # Idle
    BY IdleTyped
  <2> QED BY <1>2, <2>1, <2>2
<1>7. \A m \in queue : Taken(m)' <=> Taken(m)
  BY <1>4, <1>6 DEF Taken
<1>8. \A v \in Workers : InvocationOK(worker'[v])  /\ (Busy(v)' => worker'[v].msg \in queue')
  BY <1>3, <1>4, <1>5 DEF Busy, KInv, QueueOK
<1>9. \A u, v \in Workers : Busy(u)' /\ Busy(v)' /\ worker'[u].msg = worker'[v].msg => u = v
  BY <1>4 DEF Busy, KInv, QueueOK
<1> QED BY <1>1, <1>2, <1>3, <1>7, <1>8, <1>9 DEF Goes, QueueOK, KInv, InvocationOK, PageInProgress

(* What an invocation may send when it returns. *)
Sendable(w, pages) ==
  /\ pages \in SUBSET Messages
  /\ Cardinality(pages) \in Nat
  /\ pages # {} => Kind(w) # "healPage"
  /\ \A m \in pages : /\ sent < m.id /\ m.id <= sent + Cardinality(pages) /\ m.tries = 0
                      /\ m.kind # "healPage" => m.records = {}
  /\ \A m, n \in pages : m.id = n.id \/ m.kind # "healPage" => m = n

LEMMA NothingSendable ==
  ASSUME NEW w
  PROVE  Sendable(w, {}) /\ Cardinality({}) = 0
BY FS_EmptySet DEF Sendable

LEMMA OneSendable ==
  ASSUME KInv, NEW w, Kind(w) # "healPage", NEW cursor \in Nat
  PROVE  /\ Sendable(w, {Message(sent + 1, "page", cursor, {})})
         /\ Cardinality({Message(sent + 1, "page", cursor, {})}) = 1
<1> DEFINE m == Message(sent + 1, "page", cursor, {})
<1>1. sent \in Nat
  BY DEF KInv, MigrationTypeOK
<1>2. m \in Messages /\ m.id = sent + 1 /\ m.kind = "page" /\ m.records = {} /\ m.tries = 0
  BY <1>1, MessageTyped
<1> HIDE DEF m
<1>3. Cardinality({m}) = 1
  BY FS_Singleton
<1>4. Sendable(w, {m}) /\ Cardinality({m}) = 1
  BY <1>1, <1>2, <1>3 DEF Sendable
<1> QED BY <1>4 DEF m

LEMMA ReturnOK ==
  ASSUME KInv, NEW w \in Workers, Busy(w), NEW pages, Sendable(w, pages), Return(w, pages)
  PROVE  worker' \in [Workers -> Invocations] /\ queue' \subseteq Messages /\ sent' \in Nat
         /\ QueueOK'
<1>1. worker \in [Workers -> Invocations] /\ queue \subseteq Messages /\ sent \in Nat
      /\ MaxDeliveries > 0
  BY MigrationAssumption DEF KInv, MigrationTypeOK
<1>2. worker'[w] = Idle /\ \A v \in Workers : v # w => worker'[v] = worker[v]
  BY <1>1 DEF Return
<1>3. queue' = (queue \ {worker[w].msg}) \cup pages /\ sent' = sent + Cardinality(pages)
  BY DEF Return
<1>4. worker' \in [Workers -> Invocations] /\ queue' \subseteq Messages /\ sent' \in Nat
      /\ sent <= sent'
  BY <1>1, <1>3, IdleTyped DEF Return, Sendable
<1>5. InvocationOK(Idle)
  BY IdleTyped DEF InvocationOK
<1>6. ASSUME NEW v \in Workers, worker'[v].pc # "idle"
      PROVE  v # w /\ worker'[v] = worker[v] /\ Busy(v) /\ worker[v].msg \in queue \ {worker[w].msg}
  <2>1. v # w
    BY <1>2, <1>6, IdleTyped
  <2>2. worker'[v] = worker[v] /\ Busy(v)
    BY <1>2, <1>6, <2>1 DEF Busy
  <2> QED BY <2>1, <2>2 DEF KInv, QueueOK
<1>7. \A v \in Workers : InvocationOK(worker'[v]) /\ (Busy(v)' => worker'[v].msg \in queue')
  BY <1>2, <1>3, <1>5, <1>6 DEF KInv, QueueOK, Busy
<1>8. \A u, v \in Workers : Busy(u)' /\ Busy(v)' /\ worker'[u].msg = worker'[v].msg => u = v
  BY <1>6 DEF KInv, QueueOK, Busy
<1>9. CASE pages = {}
  <2>1. queue' = queue \ {worker[w].msg} /\ sent' = sent
    BY <1>1, <1>3, <1>9, FS_EmptySet
  <2>2. \A m \in queue' : Taken(m) => Taken(m)'
    <3> SUFFICES ASSUME NEW m \in queue', NEW v \in Workers, worker[v] # Idle, worker[v].msg = m
                 PROVE  Taken(m)'
      BY DEF Taken
    <3>1. v # w
      BY <2>1
    <3> QED BY <1>2, <3>1 DEF Taken
  <2> QED BY <1>4, <1>7, <1>8, <2>1, <2>2 DEF KInv, QueueOK, InvocationOK, PageInProgress
<1>10. CASE pages # {}
  <2>1. queue' = pages
    BY <1>3, <1>10, Alone DEF Sendable
  <2> QED BY <1>1, <1>3, <1>4, <1>7, <1>8, <2>1 DEF QueueOK, Sendable, InvocationOK, PageInProgress
<1> QED BY <1>9, <1>10

LEMMA StartOK ==
  ASSUME KInv, NEW kind \in Orders, queue = {}, Start(kind)
  PROVE  worker' \in [Workers -> Invocations] /\ queue' \subseteq Messages /\ sent' \in Nat
         /\ QueueOK'
<1> DEFINE m == Message(sent + 1, kind, 0, {})
<1>1. worker \in [Workers -> Invocations] /\ sent \in Nat /\ MaxDeliveries > 0
  BY MigrationAssumption DEF KInv, MigrationTypeOK
<1>2. m \in Messages /\ m.id = sent + 1 /\ m.records = {} /\ m.tries = 0 /\ m.kind = kind
  BY <1>1, MessageTyped
<1>3. kind # "healPage"
  BY DEF Orders
<1> HIDE DEF m
<1>4. queue' = {m} /\ worker' = worker /\ sent' = sent + 1
  BY DEF Start, m
<1>5. \A w \in Workers : ~ Busy(w)
  BY DEF KInv, QueueOK
<1> QED BY <1>1, <1>2, <1>3, <1>4, <1>5 DEF KInv, QueueOK, InvocationOK, PageInProgress, Busy

(* A message as it is delivered, and the invocation that receives it.      *)
Delivered(m) == [m EXCEPT !.tries = @ + 1]

Receiving(m) == [Idle EXCEPT !.pc = FirstStep(m.kind), !.msg = Delivered(m), !.todo = m.records]

LEMMA DeliveredTyped ==
  ASSUME KInv, NEW m \in queue, ~ Taken(m)
  PROVE  /\ m \in Messages /\ Delivered(m) \in Messages
         /\ Delivered(m).id = m.id /\ Delivered(m).kind = m.kind /\ Delivered(m).cursor = m.cursor
         /\ Delivered(m).records = m.records /\ About(Delivered(m)) = About(m)
         /\ Receiving(m) \in Invocations /\ InvocationOK(Receiving(m)) /\ Receiving(m).pc # "idle"
         /\ Receiving(m).msg = Delivered(m) /\ Receiving(m).todo = m.records
         /\ Receiving(m).pc = FirstStep(m.kind)
         /\ Receiving(m).seen = NoState /\ Receiving(m).was = NoState /\ Receiving(m).page = {}
         /\ Receiving(m).out = {} /\ Receiving(m).done = 0 /\ Receiving(m).left = 0
<1>1. m \in Messages /\ m.tries < MaxDeliveries /\ m.tries \in 0..MaxDeliveries
      /\ MaxDeliveries \in Nat
  BY MessageTypes, MigrationAssumption DEF KInv, QueueOK, MigrationTypeOK
<1>2. m.tries + 1 \in 0..MaxDeliveries
  BY <1>1
<1>3. /\ Delivered(m) \in Messages
      /\ Delivered(m).id = m.id /\ Delivered(m).kind = m.kind /\ Delivered(m).cursor = m.cursor
      /\ Delivered(m).records = m.records
  BY <1>1, <1>2 DEF Delivered, Messages
<1>4. m.kind \in Orders \cup {"page", "healPage"} /\ m.records \in SUBSET Professionals
  BY <1>1, MessageTypes
<1>5. m.records \in SUBSET Nat
  BY <1>4, RecordsAreNumbers
<1>6. FirstStep(m.kind) \in StepsOf(m.kind) /\ FirstStep(m.kind) \notin Processing \cup Ending
      /\ (m.kind = "page" => FirstStep(m.kind) = "getState")
      /\ (m.kind = "healPage" => FirstStep(m.kind) = "records")
  BY <1>4, FirstStepping
<1>7. FirstStep(m.kind) # "idle" /\ FirstStep(m.kind) \in
        {"idle", "deleteTrustees", "deleteIds", "resetState", "getState", "startPage",
         "fetch", "find", "store", "ids", "update", "upsert", "return",
         "guard", "create", "initHeal", "sendPages", "records"}
  BY <1>4 DEF FirstStep, Orders
<1> DEFINE d == Delivered(m)
           s == FirstStep(m.kind)
           i == Receiving(m)
<1> HIDE DEF d, s
<1>8. i = [Idle EXCEPT !.pc = s, !.msg = d, !.todo = m.records]
  BY DEF Receiving, d, s
<1> HIDE DEF i
<1>9. /\ i \in Invocations /\ i.pc = s /\ i.msg = d /\ i.todo = m.records
      /\ i.seen = NoState /\ i.was = NoState /\ i.page = {} /\ i.out = {} /\ i.done = 0
         /\ i.left = 0
  BY <1>3, <1>5, <1>7, <1>8, IdleTyped DEF Invocations, d, s
<1>10. m.kind = "page" => m.records = {}
  BY DEF KInv, QueueOK
<1>11. InvocationOK(i)
  BY <1>3, <1>6, <1>7, <1>9, <1>10 DEF InvocationOK, PageInProgress, Processing, Ending, d, s
<1>12. About(d) = About(m)
  BY <1>3 DEF About, d
<1> QED BY <1>1, <1>3, <1>7, <1>9, <1>11, <1>12 DEF d, s, i

LEMMA TakeOK ==
  ASSUME KInv, NEW w \in Workers, NEW m \in queue, Take(w, m)
  PROVE  /\ worker' \in [Workers -> Invocations] /\ queue' \subseteq Messages /\ sent' \in Nat
            /\ QueueOK'
         /\ ~ Busy(w) /\ ~ Taken(m)
         /\ worker'[w] = Receiving(m) /\ \A v \in Workers : v # w => worker'[v] = worker[v]
         /\ queue' = (queue \ {m}) \cup {Delivered(m)}
<1>1. worker \in [Workers -> Invocations] /\ queue \subseteq Messages /\ sent \in Nat
  BY DEF KInv, MigrationTypeOK
<1>2. ~ Busy(w) /\ ~ Taken(m)
  BY KindAt DEF Take
<1>3. queue' = (queue \ {m}) \cup {Delivered(m)} /\ sent' = sent
      /\ worker' = [worker EXCEPT ![w] = Receiving(m)]
  BY DEF Take, Delivered, Receiving
<1>4. worker'[w] = Receiving(m) /\ \A v \in Workers : v # w => worker'[v] = worker[v]
  BY <1>1, <1>3
<1> DEFINE d == Delivered(m)
           i == Receiving(m)
<1>5. /\ m \in Messages /\ d \in Messages /\ d.id = m.id /\ d.kind = m.kind /\ d.records = m.records
      /\ i \in Invocations /\ InvocationOK(i) /\ i.pc # "idle" /\ i.msg = d
  BY <1>2, DeliveredTyped
<1> HIDE DEF d, i
<1>6. \A v \in Workers : Busy(v) => v # w /\ worker[v].msg \in queue \ {m}
  BY <1>2, KindAt DEF Taken
<1>7. d \notin queue \ {m}
  BY <1>5 DEF KInv, QueueOK
<1>8. \A v \in Workers : InvocationOK(worker'[v])
      /\ (worker'[v].pc # "idle" => worker'[v].msg \in queue')
  BY <1>3, <1>4, <1>5, <1>6 DEF KInv, QueueOK, d, i, Busy
<1>9. ASSUME NEW u \in Workers, NEW v \in Workers, worker'[u].pc # "idle", worker'[v].pc # "idle",
             worker'[u].msg = worker'[v].msg
      PROVE  u = v
  <2>1. CASE u # w /\ v # w
    BY <1>4, <1>9, <2>1 DEF KInv, QueueOK, Busy
  <2>2. \A x \in Workers : x # w /\ worker'[x].pc # "idle" => worker'[x].msg # d
    BY <1>4, <1>6, <1>7 DEF Busy
  <2> QED BY <1>4, <1>5, <1>9, <2>1, <2>2 DEF i
<1>10. \A n \in queue' : n.id <= sent'
  BY <1>3, <1>5 DEF KInv, QueueOK, d
<1>11. ASSUME NEW x \in queue', NEW y \in queue', x.id = y.id \/ x.kind # "healPage"
       PROVE  x = y
  <2>1. CASE x = d
    BY <1>3, <1>5, <1>11, <2>1 DEF KInv, QueueOK, d
  <2>2. CASE y = d /\ x # d
    BY <1>3, <1>5, <1>11, <2>2 DEF KInv, QueueOK, d
  <2>3. CASE x # d /\ y # d
    BY <1>3, <1>11, <2>3 DEF KInv, QueueOK, d
  <2> QED BY <2>1, <2>2, <2>3
<1>12. \A n \in queue' : n.kind # "healPage" => n.records = {}
  BY <1>3, <1>5 DEF KInv, QueueOK, d
<1>13. ASSUME NEW n \in queue' PROVE n.tries < MaxDeliveries \/ Taken(n)'
  <2>1. CASE n = d
    <3>1. worker'[w] # Idle /\ worker'[w].msg = n
      BY <1>4, <1>5, <2>1, IdleTyped DEF i
    <3> QED BY <3>1 DEF Taken
  <2>2. CASE n \in queue \ {m}
    <3>1. ASSUME Taken(n) PROVE Taken(n)'
      <4>1. PICK v \in Workers : worker[v] # Idle /\ worker[v].msg = n
        BY <3>1 DEF Taken
      <4>2. v # w
        BY <1>2, <4>1, KindAt
      <4> QED BY <1>4, <4>1, <4>2 DEF Taken
    <3> QED BY <2>2, <3>1 DEF KInv, QueueOK
  <2> QED BY <1>3, <2>1, <2>2 DEF d
<1>14. QueueOK'
  BY <1>8, <1>9, <1>10, <1>11, <1>12, <1>13 DEF QueueOK, Busy, InvocationOK, PageInProgress
<1>15. worker' \in [Workers -> Invocations] /\ queue' \subseteq Messages /\ sent' \in Nat
  BY <1>1, <1>3, <1>5 DEF d, i
<1> QED BY <1>2, <1>3, <1>4, <1>14, <1>15

LEMMA AbortOK ==
  ASSUME KInv, NEW w \in Workers, Abort(w)
  PROVE  /\ worker' \in [Workers -> Invocations] /\ queue' \subseteq Messages /\ sent' \in Nat
            /\ QueueOK'
         /\ Busy(w) /\ worker'[w] = Idle /\ \A v \in Workers : v # w => worker'[v] = worker[v]
<1> DEFINE m == worker[w].msg
<1>1. worker \in [Workers -> Invocations] /\ queue \subseteq Messages /\ sent \in Nat
  BY DEF KInv, MigrationTypeOK
<1>2. Busy(w) /\ m \in queue
  BY KindAt DEF Abort
<1>3. worker' = [worker EXCEPT ![w] = Idle] /\ sent' = sent
  BY DEF Abort
<1>4. worker'[w] = Idle /\ \A v \in Workers : v # w => worker'[v] = worker[v]
  BY <1>1, <1>3
<1>5. CASE m.tries < MaxDeliveries
  <2>1. queue' = queue
    BY <1>5 DEF Abort
  <2>2. InvocationOK(Idle)
    BY IdleTyped DEF InvocationOK
  <2>3. \A v \in Workers : InvocationOK(worker'[v])
        /\ (worker'[v].pc # "idle" => worker'[v].msg \in queue')
    BY <1>4, <2>1, <2>2, IdleTyped DEF KInv, QueueOK, Busy
  <2>4. \A u, v \in Workers : worker'[u].pc # "idle" /\ worker'[v].pc # "idle"
                              /\ worker'[u].msg = worker'[v].msg => u = v
    BY <1>4, IdleTyped DEF KInv, QueueOK, Busy
  <2>5. \A n \in queue : n.tries < MaxDeliveries \/ Taken(n)'
    <3>1. ASSUME NEW n \in queue, n # m, Taken(n) PROVE Taken(n)'
      BY <1>4, <3>1 DEF Taken
    <3> QED BY <1>5, <3>1 DEF KInv, QueueOK
  <2>6. QueueOK'
    BY <1>3, <2>1, <2>3, <2>4, <2>5 DEF KInv, QueueOK, Busy, InvocationOK, PageInProgress
  <2> QED BY <1>1, <1>2, <1>3, <1>4, <2>1, <2>6, IdleTyped
<1>6. CASE ~ (m.tries < MaxDeliveries)
  <2>1. Return(w, {})
    BY <1>1, <1>3, <1>6, FS_EmptySet DEF Abort, Return
  <2> QED BY <1>2, <1>4, <2>1, NothingSendable, ReturnOK
<1> QED BY <1>5, <1>6

LEMMA ReEnqueueOK ==
  ASSUME KInv, NEW w \in Workers, ReEnqueueHealPage(w)
  PROVE  /\ worker' \in [Workers -> Invocations] /\ queue' \subseteq Messages /\ sent' \in Nat
            /\ QueueOK'
         /\ Busy(w) /\ Kind(w) = "healPage" /\ worker[w].todo \in SUBSET Professionals
         /\ worker'[w] = [worker[w] EXCEPT !.todo = {}]
         /\ \A v \in Workers : v # w => worker'[v] = worker[v]
<1> DEFINE m == Message(sent + 1, "healPage", 0, worker[w].todo)
           i == [worker[w] EXCEPT !.todo = {}]
<1>1. worker \in [Workers -> Invocations] /\ queue \subseteq Messages /\ sent \in Nat
      /\ MaxDeliveries > 0
  BY MigrationAssumption DEF KInv, MigrationTypeOK
<1>2. worker[w].pc = "records" /\ Busy(w) /\ Kind(w) = "healPage" /\ worker[w] \in Invocations
      /\ worker[w].msg \in Messages /\ worker[w].msg \in queue
  BY KindAt DEF ReEnqueueHealPage, AtRecord, At, Busy
<1>3. worker[w].todo \in SUBSET Professionals
  <2>1. worker[w].todo \subseteq worker[w].msg.records
    BY <1>2 DEF KInv, QueueOK, InvocationOK, Kind
  <2> QED BY <1>2, <2>1, MessageTypes
<1>4. m \in Messages /\ m.id = sent + 1 /\ m.records = worker[w].todo /\ m.tries = 0
      /\ m.kind = "healPage"
  <2> DEFINE id == sent + 1
             records == worker[w].todo
  <2>1. id \in Nat
    BY <1>1
  <2> HIDE DEF id, records
  <2>2. LET n == Message(id, "healPage", 0, records)
        IN  /\ n \in Messages /\ n.id = id /\ n.records = records /\ n.tries = 0
            /\ n.kind = "healPage"
    BY <1>3, <2>1, MessageTyped DEF records
  <2> QED BY <2>2 DEF id, records
<1>5. queue' = queue \cup {m} /\ sent' = sent + 1 /\ worker' = [worker EXCEPT ![w] = i]
  BY <1>1 DEF ReEnqueueHealPage
<1> HIDE DEF m, i
<1>6. i \in Invocations /\ i.pc = "records" /\ i.msg = worker[w].msg /\ i.todo = {}
  BY <1>2 DEF Invocations, i
<1>7. worker'[w] = i /\ \A v \in Workers : v # w => worker'[v] = worker[v]
  BY <1>1, <1>5
<1>8. InvocationOK(i)
  BY <1>2, <1>6, Stepping DEF InvocationOK, Kind
<1>9. \A v \in Workers : worker'[v].msg = worker[v].msg /\ worker'[v].pc = worker[v].pc
  BY <1>2, <1>6, <1>7
<1>10. \A v \in Workers : InvocationOK(worker'[v])
       /\ (worker'[v].pc # "idle" => worker'[v].msg \in queue')
  BY <1>5, <1>7, <1>8, <1>9 DEF KInv, QueueOK, Busy
<1>11. \A u, v \in Workers : worker'[u].pc # "idle" /\ worker'[v].pc # "idle"
                             /\ worker'[u].msg = worker'[v].msg => u = v
  BY <1>9 DEF KInv, QueueOK, Busy
<1>12. \A n \in queue : n.kind = "healPage" /\ n.id <= sent /\ n.id \in Nat
  BY <1>1, <1>2, MessageTypes DEF KInv, QueueOK, Kind
<1>13. \A x, y \in queue' : x.id = y.id \/ x.kind # "healPage" => x = y
  BY <1>1, <1>4, <1>5, <1>12 DEF KInv, QueueOK
<1>14. \A n \in queue' : n.id <= sent' /\ (n.kind # "healPage" => n.records = {})
  BY <1>1, <1>4, <1>5, <1>12
<1>15. \A n \in queue' : n.tries < MaxDeliveries \/ Taken(n)'
  <2>1. ASSUME NEW n \in queue, Taken(n) PROVE Taken(n)'
    <3>1. PICK v \in Workers : worker[v] # Idle /\ worker[v].msg = n
      BY <2>1 DEF Taken
    <3>2. worker'[v] # Idle
      BY <1>6, <1>7, <3>1, IdleTyped
    <3> QED BY <1>9, <3>1, <3>2 DEF Taken
  <2> QED BY <1>1, <1>4, <1>5, <2>1 DEF KInv, QueueOK
<1>16. QueueOK'
  BY <1>10, <1>11, <1>13, <1>14, <1>15 DEF QueueOK, Busy, InvocationOK, PageInProgress
<1> QED BY <1>1, <1>2, <1>3, <1>4, <1>5, <1>6, <1>7, <1>16 DEF i

-----------------------------------------------------------------------------
(* Pages of a healing. *)

(* The pages of the healing and their messages, as SendHealPages numbers   *)
(* them.                                                                   *)
PageNumber(p) == Cardinality({x \in Professionals : x < p}) \div HealPageSize

HealPages == PagesOf(Professionals)

IdOf(page) == sent + 1 + Cardinality({q \in HealPages : Least(q) < Least(page)})

PageMessage(page) == Message(IdOf(page), "healPage", 0, page)

PageMessages == {PageMessage(page) : page \in HealPages}

LEMMA PagesPartition ==
  /\ \A page \in HealPages : page # {} /\ page \in SUBSET Professionals /\ page \in SUBSET Nat
  /\ \A p \in Professionals : \E page \in HealPages : p \in page
  /\ \A a, b \in HealPages : \A p : p \in a /\ p \in b => a = b
  /\ IsFiniteSet(HealPages)
<1> DEFINE P(i) == {p \in Professionals : PageNumber(p) = i}
           I == {PageNumber(p) : p \in Professionals}
<1>1. HealPages = {P(i) : i \in I}
  BY DEF HealPages, PagesOf, PageNumber
<1> HIDE DEF I
<1>2. \A page \in HealPages : \E i \in I : page = P(i)
  BY <1>1
<1>3. \A page \in HealPages : page # {} /\ page \in SUBSET Professionals
  BY <1>2 DEF I
<1>4. \A p \in Professionals : PageNumber(p) \in I /\ p \in P(PageNumber(p))
  BY DEF I
<1>5. \A p \in Professionals : \E page \in HealPages : p \in page
  BY <1>1, <1>4
<1>6. ASSUME NEW a \in HealPages, NEW b \in HealPages, NEW p, p \in a, p \in b
      PROVE  a = b
  <2>1. PICK i \in I : a = P(i)
    BY <1>2
  <2>2. PICK j \in I : b = P(j)
    BY <1>2
  <2>3. PageNumber(p) = i /\ PageNumber(p) = j
    BY <1>6, <2>1, <2>2
  <2> QED BY <2>1, <2>2, <2>3
<1>7. HealPages \in SUBSET (SUBSET Professionals)
  BY <1>3
<1>8. IsFiniteSet(HealPages)
  BY <1>7, RecordsAreNumbers, FS_SUBSET, FS_Subset
<1> QED BY <1>3, <1>5, <1>6, <1>8, RecordsAreNumbers

LEMMA PageRank ==
  ASSUME sent \in Nat, NEW a \in HealPages
  PROVE  /\ IdOf(a) \in Nat /\ sent < IdOf(a) /\ IdOf(a) <= sent + Cardinality(HealPages)
         /\ Least(a) \in a /\ Least(a) \in Nat
<1> DEFINE A == {q \in HealPages : Least(q) < Least(a)}
<1>1. Least(a) \in a /\ Least(a) \in Nat
  BY PagesPartition, LeastExists
<1>2. a \in HealPages /\ a \notin A /\ A \in SUBSET (HealPages \ {a})
  BY <1>1
<1>3. IsFiniteSet(HealPages \ {a}) /\ Cardinality(HealPages \ {a}) = Cardinality(HealPages) - 1
  <2>1. IsFiniteSet(HealPages)
    BY PagesPartition
  <2> QED BY <2>1, FS_RemoveElement
<1>4. IsFiniteSet(A) /\ Cardinality(A) <= Cardinality(HealPages \ {a}) /\ Cardinality(A) \in Nat
  BY <1>2, <1>3, FS_Subset, FS_CardinalityType
<1>5. Cardinality(HealPages) \in Nat
  BY PagesPartition, FS_CardinalityType
<1>6. IdOf(a) = sent + 1 + Cardinality(A)
  BY DEF IdOf
<1> HIDE DEF A
<1> QED BY <1>1, <1>3, <1>4, <1>5, <1>6

LEMMA IdsApart ==
  ASSUME sent \in Nat, NEW a \in HealPages, NEW b \in HealPages, IdOf(a) = IdOf(b)
  PROVE  a = b
<1>1. Least(a) \in a /\ Least(a) \in Nat /\ Least(b) \in b /\ Least(b) \in Nat
  BY PageRank
<1>2. ASSUME NEW c \in HealPages, NEW d \in HealPages, Least(c) < Least(d),
             Least(c) \in Nat, Least(d) \in Nat
      PROVE  IdOf(c) # IdOf(d)
  <2> DEFINE C == {q \in HealPages : Least(q) < Least(c)}
             D == {q \in HealPages : Least(q) < Least(d)}
  <2>1. \A q \in HealPages : Least(q) \in Nat
    BY PageRank
  <2>2. C \in SUBSET D /\ c \in D /\ c \notin C
    BY <1>2, <2>1
  <2>3. D \in SUBSET HealPages
    OBVIOUS
  <2>4. IsFiniteSet(D) /\ Cardinality(D) \in Nat /\ IsFiniteSet(C) /\ Cardinality(C) \in Nat
        /\ Cardinality(C) # Cardinality(D)
    <3>1. IsFiniteSet(D)
      BY <2>3, PagesPartition, FS_Subset
    <3> QED BY <2>2, <3>1, FS_Subset, FS_CardinalityType
  <2>5. IdOf(c) = sent + 1 + Cardinality(C) /\ IdOf(d) = sent + 1 + Cardinality(D)
    BY DEF IdOf
  <2> HIDE DEF C, D
  <2> QED BY <2>4, <2>5
<1>3. Least(a) = Least(b)
  BY <1>1, <1>2
<1> QED BY <1>1, <1>3, PagesPartition

LEMMA PageMessageTyped ==
  ASSUME sent \in Nat, NEW page \in HealPages
  PROVE  /\ PageMessage(page) \in Messages
         /\ PageMessage(page).id = IdOf(page) /\ PageMessage(page).kind = "healPage"
         /\ PageMessage(page).records = page /\ PageMessage(page).tries = 0
BY PagesPartition, PageRank, MessageTyped DEF PageMessage

LEMMA PagesSendable ==
  ASSUME KInv, NEW w \in Workers, Kind(w) = "heal"
  PROVE  Sendable(w, PageMessages)
<1>1. sent \in Nat
  BY DEF KInv, MigrationTypeOK
<1>2. PageMessages \in SUBSET Messages
  BY <1>1, PageMessageTyped DEF PageMessages
<1> DEFINE f == [m \in PageMessages |-> m.records]
<1>3. f \in Surjection(PageMessages, HealPages) /\ f \in Injection(PageMessages, HealPages)
  <2>1. \A m \in PageMessages : m.records \in HealPages
    BY <1>1, PageMessageTyped DEF PageMessages
  <2>2. \A page \in HealPages : \E m \in PageMessages : m.records = page
    BY <1>1, PageMessageTyped DEF PageMessages
  <2>3. \A m \in PageMessages : m = PageMessage(m.records)
    BY <1>1, PageMessageTyped DEF PageMessages
  <2>4. \A m, n \in PageMessages : m.records = n.records => m = n
    BY <2>3
  <2> QED BY <2>1, <2>2, <2>4 DEF Surjection, Injection, IsInjective
<1>4. IsFiniteSet(PageMessages)
  BY <1>3, PagesPartition, FS_Injection
<1>5. Cardinality(HealPages) <= Cardinality(PageMessages) /\ Cardinality(PageMessages) \in Nat
      /\ Cardinality(HealPages) \in Nat
  BY <1>3, <1>4, FS_Surjection, FS_CardinalityType
<1>6. \A m \in PageMessages : /\ sent < m.id /\ m.id <= sent + Cardinality(PageMessages)
                              /\ m.tries = 0 /\ m.kind = "healPage"
  <2> SUFFICES ASSUME NEW page \in HealPages
               PROVE  LET m == PageMessage(page) IN
                      /\ sent < m.id /\ m.id <= sent + Cardinality(PageMessages)
                      /\ m.tries = 0 /\ m.kind = "healPage"
    BY DEF PageMessages
  <2>1. IdOf(page) \in Nat /\ sent < IdOf(page) /\ IdOf(page) <= sent + Cardinality(HealPages)
    BY <1>1, PageRank
  <2>2. IdOf(page) <= sent + Cardinality(PageMessages)
    BY <1>1, <1>5, <2>1
  <2> QED BY <1>1, <2>1, <2>2, PageMessageTyped
<1>7. \A m, n \in PageMessages : m.id = n.id => m = n
  BY <1>1, PageMessageTyped, IdsApart DEF PageMessages
<1> QED BY <1>2, <1>5, <1>6, <1>7 DEF Sendable

-----------------------------------------------------------------------------
(* What each step makes of its invocation. *)

(* An invocation went on to i, and nothing else did.                       *)
Moved(w, i) ==
  /\ i \in Invocations
  /\ worker'[w] = i
  /\ \A v \in Workers : v # w => worker'[v] = worker[v]
  /\ queue' = queue /\ sent' = sent

LEMMA FailsOK ==
  ASSUME KInv, Fails
  PROVE  failures' \in 0..MaxFailures /\ failures' # 0
BY MigrationAssumption DEF KInv, MigrationTypeOK, Fails

LEMMA MovedOK ==
  ASSUME KInv, NEW w \in Workers, Busy(w), NEW i \in Invocations,
         i.pc # "idle", i.msg = worker[w].msg, InvocationOK(i), Goes(w, i)
  PROVE  /\ Moved(w, i)
         /\ worker' \in [Workers -> Invocations] /\ queue' \subseteq Messages /\ sent' \in Nat
            /\ QueueOK'
<1>1. worker \in [Workers -> Invocations]
  BY DEF KInv, MigrationTypeOK
<1>2. worker'[w] = i /\ \A v \in Workers : v # w => worker'[v] = worker[v]
  BY <1>1 DEF Goes
<1> QED BY <1>2, AdvanceOK DEF Goes, Moved

LEMMA DeleteTrusteesGoes ==
  ASSUME KInv, NEW w \in Workers, DeleteTrustees(w)
  PROVE  /\ Moved(w, [worker[w] EXCEPT !.pc = "deleteIds"])
         /\ Busy(w) /\ Kind(w) = "deleteAll" /\ KInv'
<1> DEFINE i == [worker[w] EXCEPT !.pc = "deleteIds"]
<1>1. /\ worker[w] \in Invocations /\ worker[w].msg \in Messages /\ worker[w].pc = "deleteTrustees"
      /\ Busy(w) /\ Kind(w) = "deleteAll" /\ InvocationOK(worker[w])
  BY KindAt DEF DeleteTrustees, Goto, At, Busy, Processing, Ending, KInv, QueueOK
<1>2. doc \in States /\ worker \in [Workers -> Invocations]
  BY DEF KInv, MigrationTypeOK
<1>3. i \in Invocations /\ i.pc # "idle" /\ i.msg = worker[w].msg /\ i.pc = "deleteIds"
  BY <1>1, <1>2, StatesTyped DEF Invocations
<1>4. InvocationOK(i)
  BY <1>1, <1>3, Stepping DEF InvocationOK, PageInProgress, Kind, Processing, Ending
<1>5. Goes(w, i)
  BY <1>1, <1>2 DEF Goes, DeleteTrustees, Goto
<1>6. Moved(w, i) /\ worker' \in [Workers -> Invocations] /\ queue' \subseteq Messages
      /\ sent' \in Nat /\ QueueOK'
  BY <1>1, <1>3, <1>4, <1>5, MovedOK
<1>7. MigrationTypeOK'
  BY <1>1, <1>6 DEF KInv, MigrationTypeOK, DeleteTrustees, Goto, stores, told
<1> QED BY <1>1, <1>6, <1>7 DEF KInv

LEMMA DeleteIdsGoes ==
  ASSUME KInv, NEW w \in Workers, DeleteProfessionalIds(w)
  PROVE  /\ Moved(w, [worker[w] EXCEPT !.pc = "resetState"])
         /\ Busy(w) /\ Kind(w) = "deleteAll" /\ KInv'
<1> DEFINE i == [worker[w] EXCEPT !.pc = "resetState"]
<1>1. /\ worker[w] \in Invocations /\ worker[w].msg \in Messages /\ worker[w].pc = "deleteIds"
      /\ Busy(w) /\ Kind(w) = "deleteAll" /\ InvocationOK(worker[w])
  BY KindAt DEF DeleteProfessionalIds, Goto, At, Busy, Processing, Ending, KInv, QueueOK
<1>2. doc \in States /\ worker \in [Workers -> Invocations]
  BY DEF KInv, MigrationTypeOK
<1>3. i \in Invocations /\ i.pc # "idle" /\ i.msg = worker[w].msg /\ i.pc = "resetState"
  BY <1>1, <1>2, StatesTyped DEF Invocations
<1>4. InvocationOK(i)
  BY <1>1, <1>3, Stepping DEF InvocationOK, PageInProgress, Kind, Processing, Ending
<1>5. Goes(w, i)
  BY <1>1, <1>2 DEF Goes, DeleteProfessionalIds, Goto
<1>6. Moved(w, i) /\ worker' \in [Workers -> Invocations] /\ queue' \subseteq Messages
      /\ sent' \in Nat /\ QueueOK'
  BY <1>1, <1>3, <1>4, <1>5, MovedOK
<1>7. MigrationTypeOK'
  BY <1>1, <1>6 DEF KInv, MigrationTypeOK, DeleteProfessionalIds, Goto, stores, told
<1> QED BY <1>1, <1>6, <1>7 DEF KInv

LEMMA ResetGoes ==
  ASSUME KInv, NEW w \in Workers, ResetMigrationState(w)
  PROVE  /\ Moved(w, [worker[w] EXCEPT !.pc = "getState"])
         /\ Busy(w) /\ Kind(w) = "deleteAll" /\ KInv'
<1> DEFINE i == [worker[w] EXCEPT !.pc = "getState"]
<1>1. /\ worker[w] \in Invocations /\ worker[w].msg \in Messages /\ worker[w].pc = "resetState"
      /\ Busy(w) /\ Kind(w) = "deleteAll" /\ InvocationOK(worker[w])
  BY KindAt DEF ResetMigrationState, Goto, At, Busy, Processing, Ending, KInv, QueueOK
<1>2. doc \in States /\ worker \in [Workers -> Invocations]
  BY DEF KInv, MigrationTypeOK
<1>3. i \in Invocations /\ i.pc # "idle" /\ i.msg = worker[w].msg /\ i.pc = "getState"
  BY <1>1, <1>2, StatesTyped DEF Invocations
<1>4. InvocationOK(i)
  BY <1>1, <1>3, Stepping DEF InvocationOK, PageInProgress, Kind, Processing, Ending
<1>5. Goes(w, i)
  BY <1>1, <1>2 DEF Goes, ResetMigrationState, Goto
<1>6. Moved(w, i) /\ worker' \in [Workers -> Invocations] /\ queue' \subseteq Messages
      /\ sent' \in Nat /\ QueueOK'
  BY <1>1, <1>3, <1>4, <1>5, MovedOK
<1>7. MigrationTypeOK'
  BY <1>1, <1>6, StatesTyped DEF KInv, MigrationTypeOK, ResetMigrationState, Goto, stores, told
<1> QED BY <1>1, <1>6, <1>7 DEF KInv

LEMMA ReadStateGoes ==
  ASSUME KInv, NEW w \in Workers, ReadState(w)
  PROVE  /\ Moved(w, [worker[w] EXCEPT !.seen = doc,
                                       !.pc = IF Kind(w) = "page" THEN "fetch" ELSE "startPage"])
         /\ Busy(w) /\ Kind(w) \in {"resume", "page"} /\ KInv'
<1> DEFINE i == [worker[w] EXCEPT !.seen = doc,
                                  !.pc = IF Kind(w) = "page" THEN "fetch" ELSE "startPage"]
<1>1. /\ worker[w] \in Invocations /\ worker[w].msg \in Messages /\ worker[w].pc = "getState"
      /\ Busy(w) /\ Kind(w) \in {"resume", "page"} /\ InvocationOK(worker[w])
  BY KindAt DEF ReadState, At, Busy, Processing, Ending, KInv, QueueOK
<1>2. doc \in States /\ worker \in [Workers -> Invocations]
  BY DEF KInv, MigrationTypeOK
<1>3. i \in Invocations /\ i.pc # "idle" /\ i.msg = worker[w].msg
      /\ i.pc = (IF Kind(w) = "page" THEN "fetch" ELSE "startPage") /\ i.page = worker[w].page
         /\ i.todo = worker[w].todo /\ i.goal = worker[w].goal
  BY <1>1, <1>2, StatesTyped DEF Invocations
<1>4. InvocationOK(i)
  BY <1>1, <1>3, Stepping DEF InvocationOK, PageInProgress, Kind, Processing, Ending
<1>5. Goes(w, i)
  BY <1>1, <1>2 DEF Goes, ReadState, Got
<1>6. Moved(w, i) /\ worker' \in [Workers -> Invocations] /\ queue' \subseteq Messages
      /\ sent' \in Nat /\ QueueOK'
  BY <1>1, <1>3, <1>4, <1>5, MovedOK
<1>7. MigrationTypeOK'
  BY <1>1, <1>6 DEF KInv, MigrationTypeOK, ReadState, stores, told
<1> QED BY <1>1, <1>6, <1>7 DEF KInv

LEMMA CreateStateGoes ==
  ASSUME KInv, NEW w \in Workers, CreateState(w)
  PROVE  /\ Moved(w, [worker[w] EXCEPT !.seen = Fresh,
                                       !.pc = IF Kind(w) = "page" THEN "fetch" ELSE "startPage"])
         /\ Busy(w) /\ Kind(w) \in {"resume", "reset", "deleteAll", "page"} /\ KInv'
<1> DEFINE i == [worker[w] EXCEPT !.seen = Fresh,
                                  !.pc = IF Kind(w) = "page" THEN "fetch" ELSE "startPage"]
<1>1. /\ worker[w] \in Invocations /\ worker[w].msg \in Messages /\ worker[w].pc = "getState"
      /\ Busy(w) /\ Kind(w) \in {"resume", "reset", "deleteAll", "page"} /\ InvocationOK(worker[w])
  BY KindAt DEF CreateState, At, Busy, Processing, Ending, KInv, QueueOK
<1>2. doc \in States /\ worker \in [Workers -> Invocations]
  BY DEF KInv, MigrationTypeOK
<1>3. i \in Invocations /\ i.pc # "idle" /\ i.msg = worker[w].msg
      /\ i.pc = (IF Kind(w) = "page" THEN "fetch" ELSE "startPage") /\ i.page = worker[w].page
         /\ i.todo = worker[w].todo /\ i.goal = worker[w].goal
  BY <1>1, <1>2, StatesTyped DEF Invocations
<1>4. InvocationOK(i)
  BY <1>1, <1>3, Stepping DEF InvocationOK, PageInProgress, Kind, Processing, Ending
<1>5. Goes(w, i)
  BY <1>1, <1>2 DEF Goes, CreateState, Got
<1>6. Moved(w, i) /\ worker' \in [Workers -> Invocations] /\ queue' \subseteq Messages
      /\ sent' \in Nat /\ QueueOK'
  BY <1>1, <1>3, <1>4, <1>5, MovedOK
<1>6a. failures' \in 0..MaxFailures
  BY FailsOK DEF CreateState, KInv, MigrationTypeOK
<1>6b. doc' \in States /\ deleted' \in BOOLEAN /\ givenUp' \subseteq AtsRecords
  BY StatesTyped DEF CreateState, KInv, MigrationTypeOK
<1>6c. UNCHANGED <<stores, unmatched, reported, starts, escapes>>
  BY DEF CreateState
<1>7. MigrationTypeOK'
  BY <1>1, <1>6, <1>6a, <1>6b, <1>6c DEF KInv, MigrationTypeOK, CreateState, stores, told
<1> QED BY <1>1, <1>6, <1>7 DEF KInv

(* The trustee at hand and its records. *)
LEMMA AtPage ==
  ASSUME KInv, NEW w \in Workers, worker[w].pc \in Processing
  PROVE  /\ TrusteeAt(w) \in TrusteeNames /\ worker[w].todo # {}
         /\ worker[w].todo \in SUBSET worker[w].page /\ worker[w].page \in SUBSET AtsRecords
         /\ Group(w) \in SUBSET worker[w].todo
         /\ \A r \in Group(w) : TrusteeOf[r] = TrusteeAt(w)
         /\ worker[w].msg.cursor \in Nat
<1>1. worker[w] \in Invocations /\ worker[w].msg \in Messages /\ Kind(w) = "page"
      /\ InvocationOK(worker[w])
  BY KindAt DEF KInv, QueueOK
<1>2. worker[w].pc # "idle"
  BY DEF Processing
<1>3. worker[w].todo # {} /\ worker[w].todo \in SUBSET worker[w].page
  BY <1>1, <1>2 DEF InvocationOK, PageInProgress, Kind
<1>4. worker[w].page \in SUBSET AtsRecords
  BY <1>1, InvocationTypes
<1>5. Least(worker[w].todo) \in AtsRecords
  BY <1>3, <1>4, RecordsAreNumbers, LeastExists
<1>6. TrusteeAt(w) \in TrusteeNames
  BY <1>5, MigrationAssumption DEF TrusteeAt
<1>7. Group(w) \in SUBSET worker[w].todo /\ \A r \in Group(w) : TrusteeOf[r] = TrusteeAt(w)
  BY DEF Group, TrusteeAt
<1> QED BY <1>1, <1>3, <1>4, <1>6, <1>7, MessageTypes

LEMMA GetPageGoes ==
  ASSUME KInv, NEW w \in Workers, GetPageOfTrustees(w)
  PROVE  /\ Moved(w, [worker[w] EXCEPT
                       !.page = PageAfter(worker[w].msg.cursor),
                       !.todo = PageAfter(worker[w].msg.cursor),
                       !.goal = IF Cardinality(PageAfter(worker[w].msg.cursor)) = AtsPageSize
                                THEN "IN_PROGRESS" ELSE "COMPLETED",
                       !.pc = IF PageAfter(worker[w].msg.cursor) = {}
                              THEN "update" ELSE "find"])
         /\ Busy(w) /\ Kind(w) = "page" /\ KInv'
<1> DEFINE i == [worker[w] EXCEPT
                   !.page = PageAfter(worker[w].msg.cursor),
                   !.todo = PageAfter(worker[w].msg.cursor),
                   !.goal = IF Cardinality(PageAfter(worker[w].msg.cursor)) = AtsPageSize
                            THEN "IN_PROGRESS" ELSE "COMPLETED",
                   !.pc = IF PageAfter(worker[w].msg.cursor) = {} THEN "update" ELSE "find"]
<1>1. /\ worker[w] \in Invocations /\ worker[w].msg \in Messages /\ worker[w].pc = "fetch"
      /\ Busy(w) /\ Kind(w) = "page" /\ InvocationOK(worker[w])
  BY KindAt DEF GetPageOfTrustees, At, Busy, Processing, Ending, KInv, QueueOK
<1>2. doc \in States /\ worker \in [Workers -> Invocations]
  BY DEF KInv, MigrationTypeOK
<1> DEFINE page == PageAfter(worker[w].msg.cursor)
           goal == IF Cardinality(page) = AtsPageSize THEN "IN_PROGRESS" ELSE "COMPLETED"
<1>2a. worker[w].msg.cursor \in Nat
  BY <1>1, MessageTypes
<1>2b. page \in SUBSET AtsRecords /\ page \in SUBSET Nat
       /\ (Cardinality(page) = AtsPageSize => page # {})
  BY <1>2a, PageFinite, RecordsAreNumbers, FS_EmptySet
<1>2c. goal \in Statuses /\ (goal = "IN_PROGRESS" => Cardinality(page) = AtsPageSize)
       /\ (goal = "COMPLETED" => Cardinality(page) # AtsPageSize)
  BY DEF Statuses
<1> HIDE DEF page, goal
<1>3. i \in Invocations /\ i.pc # "idle" /\ i.msg = worker[w].msg
      /\ i.page = page /\ i.todo = page /\ i.goal = goal /\ i.pc = IF page = {} THEN "update"
                  ELSE "find"
  BY <1>1, <1>2, <1>2b, <1>2c DEF Invocations, page, goal
<1>4. InvocationOK(i)
  BY <1>1, <1>3, Stepping, <1>2b, <1>2c DEF InvocationOK, PageInProgress, Kind, Processing, Ending
<1>5. Goes(w, i)
  BY <1>1, <1>2 DEF Goes, GetPageOfTrustees
<1>6. Moved(w, i) /\ worker' \in [Workers -> Invocations] /\ queue' \subseteq Messages
      /\ sent' \in Nat /\ QueueOK'
  BY <1>1, <1>3, <1>4, <1>5, MovedOK
<1>7. MigrationTypeOK'
  BY <1>1, <1>6 DEF KInv, MigrationTypeOK, GetPageOfTrustees, stores, told
<1> QED BY <1>1, <1>6, <1>7 DEF KInv

LEMMA FailMigrationGoes ==
  ASSUME KInv, NEW w \in Workers, FailMigration(w)
  PROVE  /\ Moved(w, [worker[w] EXCEPT !.page = {}, !.todo = {}, !.goal = "FAILED",
                                       !.pc = "update"])
         /\ Busy(w) /\ Kind(w) = "page" /\ KInv'
<1> DEFINE i == [worker[w] EXCEPT !.page = {}, !.todo = {}, !.goal = "FAILED", !.pc = "update"]
<1>1. /\ worker[w] \in Invocations /\ worker[w].msg \in Messages /\ worker[w].pc = "find"
      /\ Busy(w) /\ Kind(w) = "page" /\ InvocationOK(worker[w])
  BY KindAt DEF FailMigration, At, Busy, Processing, Ending, KInv, QueueOK
<1>2. doc \in States /\ worker \in [Workers -> Invocations]
  BY DEF KInv, MigrationTypeOK
<1>2a. "FAILED" \in Statuses
  BY DEF Statuses
<1>3. i \in Invocations /\ i.pc # "idle" /\ i.msg = worker[w].msg
      /\ i.page = {} /\ i.todo = {} /\ i.goal = "FAILED" /\ i.pc = "update"
  BY <1>1, <1>2, StatesTyped, <1>2a DEF Invocations
<1>4. InvocationOK(i)
  BY <1>1, <1>3, Stepping DEF InvocationOK, PageInProgress, Kind, Processing, Ending
<1>5. Goes(w, i)
  BY <1>1, <1>2 DEF Goes, FailMigration
<1>6. Moved(w, i) /\ worker' \in [Workers -> Invocations] /\ queue' \subseteq Messages
      /\ sent' \in Nat /\ QueueOK'
  BY <1>1, <1>3, <1>4, <1>5, MovedOK
<1>7. MigrationTypeOK'
  BY <1>1, <1>6, FailsOK DEF KInv, MigrationTypeOK, FailMigration, stores, told
<1> QED BY <1>1, <1>6, <1>7 DEF KInv

LEMMA FindTrusteeGoes ==
  ASSUME KInv, NEW w \in Workers, FindTrusteeByNameAndState(w)
  PROVE  /\ Moved(w, [worker[w] EXCEPT !.found = todIds[TrusteeAt(w)], !.pc = "store"])
         /\ Busy(w) /\ Kind(w) = "page" /\ TrusteeAt(w) \in TrusteeNames /\ worker[w].todo # {}
            /\ KInv'
<1> DEFINE i == [worker[w] EXCEPT !.found = todIds[TrusteeAt(w)], !.pc = "store"]
<1>1. /\ worker[w] \in Invocations /\ worker[w].msg \in Messages /\ worker[w].pc = "find"
      /\ Busy(w) /\ Kind(w) = "page" /\ TrusteeAt(w) \in TrusteeNames /\ worker[w].todo # {}
         /\ InvocationOK(worker[w])
  BY KindAt, AtPage DEF FindTrusteeByNameAndState, At, Busy, Processing, Ending, KInv, QueueOK
<1>2. doc \in States /\ worker \in [Workers -> Invocations]
  BY DEF KInv, MigrationTypeOK
<1>2a. todIds[TrusteeAt(w)] \in SUBSET AtsRecords
  BY <1>1 DEF KInv, MigrationTypeOK
<1>3. i \in Invocations /\ i.pc # "idle" /\ i.msg = worker[w].msg
      /\ i.page = worker[w].page /\ i.todo = worker[w].todo /\ i.goal = worker[w].goal
         /\ i.pc = "store"
  BY <1>1, <1>2a DEF Invocations
<1>4. InvocationOK(i)
  BY <1>1, <1>3, Stepping DEF InvocationOK, PageInProgress, Kind, Processing, Ending
<1>5. Goes(w, i)
  BY <1>1, <1>2 DEF Goes, FindTrusteeByNameAndState
<1>6. Moved(w, i) /\ worker' \in [Workers -> Invocations] /\ queue' \subseteq Messages
      /\ sent' \in Nat /\ QueueOK'
  BY <1>1, <1>3, <1>4, <1>5, MovedOK
<1>7. MigrationTypeOK'
  BY <1>1, <1>6 DEF KInv, MigrationTypeOK, FindTrusteeByNameAndState, stores, told
<1> QED BY <1>1, <1>6, <1>7 DEF KInv

LEMMA StoreTrusteeGoes ==
  ASSUME KInv, NEW w \in Workers, StoreTrustee(w)
  PROVE  /\ Moved(w, [worker[w] EXCEPT !.pc = "ids"])
         /\ Busy(w) /\ Kind(w) = "page" /\ KInv'
<1> DEFINE i == [worker[w] EXCEPT !.pc = "ids"]
<1>1. /\ worker[w] \in Invocations /\ worker[w].msg \in Messages /\ worker[w].pc = "store"
      /\ Busy(w) /\ Kind(w) = "page" /\ InvocationOK(worker[w])
  BY KindAt DEF StoreTrustee, Goto, At, Busy, Processing, Ending, KInv, QueueOK
<1>2. doc \in States /\ worker \in [Workers -> Invocations]
  BY DEF KInv, MigrationTypeOK
<1>3. i \in Invocations /\ i.pc # "idle" /\ i.msg = worker[w].msg
      /\ i.page = worker[w].page /\ i.todo = worker[w].todo /\ i.goal = worker[w].goal
         /\ i.pc = "ids"
  BY <1>1, <1>2, StatesTyped DEF Invocations
<1>4. InvocationOK(i)
  BY <1>1, <1>3, Stepping DEF InvocationOK, PageInProgress, Kind, Processing, Ending
<1>5. Goes(w, i)
  BY <1>1, <1>2 DEF Goes, StoreTrustee, Goto
<1>6. Moved(w, i) /\ worker' \in [Workers -> Invocations] /\ queue' \subseteq Messages
      /\ sent' \in Nat /\ QueueOK'
  BY <1>1, <1>3, <1>4, <1>5, MovedOK
<1>6a. todIds' \in [TrusteeNames -> SUBSET AtsRecords]
  <2>1. worker[w].found \cup Group(w) \in SUBSET AtsRecords
    BY <1>1, AtPage, InvocationTypes DEF Processing
  <2> QED BY <2>1 DEF StoreTrustee, KInv, MigrationTypeOK
<1>7. MigrationTypeOK'
  BY <1>1, <1>6, <1>6a DEF KInv, MigrationTypeOK, StoreTrustee, Goto, stores, told
<1> QED BY <1>1, <1>6, <1>7 DEF KInv

LEMMA UpsertIdsGoes ==
  ASSUME KInv, NEW w \in Workers, UpsertProfessionalIds(w)
  PROVE  /\ Moved(w, [worker[w] EXCEPT !.todo = @ \ Group(w), !.found = {},
                                       !.pc = IF worker[w].todo = Group(w) THEN "update"
                                                ELSE "find"])
         /\ Busy(w) /\ Kind(w) = "page" /\ KInv'
<1> DEFINE i == [worker[w] EXCEPT !.todo = @ \ Group(w), !.found = {},
                                  !.pc = IF worker[w].todo = Group(w) THEN "update" ELSE "find"]
<1>1. /\ worker[w] \in Invocations /\ worker[w].msg \in Messages /\ worker[w].pc = "ids"
      /\ Busy(w) /\ Kind(w) = "page" /\ InvocationOK(worker[w])
  BY KindAt DEF UpsertProfessionalIds, At, Busy, Processing, Ending, KInv, QueueOK
<1>2. doc \in States /\ worker \in [Workers -> Invocations]
  BY DEF KInv, MigrationTypeOK
<1>2a. /\ Group(w) \in SUBSET worker[w].todo /\ worker[w].todo \in SUBSET Nat
       /\ worker[w].todo \in SUBSET AtsRecords
  BY <1>1, AtPage, RecordsAreNumbers DEF Processing
<1>2b. worker[w].todo \ Group(w) = {} <=> worker[w].todo = Group(w)
  BY <1>2a
<1>3. i \in Invocations /\ i.pc # "idle" /\ i.msg = worker[w].msg
      /\ i.page = worker[w].page /\ i.todo = worker[w].todo \ Group(w) /\ i.goal = worker[w].goal
      /\ i.pc = IF worker[w].todo = Group(w) THEN "update" ELSE "find"
  BY <1>1, <1>2, StatesTyped, <1>2a DEF Invocations
<1> HIDE DEF i
<1>4. InvocationOK(i)
  BY <1>1, <1>3, Stepping, <1>2a, <1>2b DEF InvocationOK, PageInProgress, Kind, Processing, Ending
<1>5. Goes(w, i)
  BY <1>1, <1>2 DEF i, Goes, UpsertProfessionalIds, NextGroup
<1>6. Moved(w, i) /\ worker' \in [Workers -> Invocations] /\ queue' \subseteq Messages
      /\ sent' \in Nat /\ QueueOK'
  BY <1>1, <1>3, <1>4, <1>5, MovedOK
<1>7. MigrationTypeOK'
  BY <1>1, <1>6 DEF KInv, MigrationTypeOK, UpsertProfessionalIds, stores, told
<1> QED BY <1>1, <1>6, <1>7 DEF i, KInv

LEMMA GiveUpGoes ==
  ASSUME KInv, NEW w \in Workers, GiveUpTrustee(w)
  PROVE  /\ Moved(w, [worker[w] EXCEPT !.todo = @ \ Group(w), !.found = {},
                                       !.pc = IF worker[w].todo = Group(w) THEN "update"
                                                ELSE "find"])
         /\ Busy(w) /\ Kind(w) = "page" /\ KInv'
<1> DEFINE i == [worker[w] EXCEPT !.todo = @ \ Group(w), !.found = {},
                                  !.pc = IF worker[w].todo = Group(w) THEN "update" ELSE "find"]
<1>1. /\ worker[w] \in Invocations /\ worker[w].msg \in Messages
         /\ worker[w].pc \in {"find", "store"}
      /\ Busy(w) /\ Kind(w) = "page" /\ InvocationOK(worker[w])
  BY KindAt DEF GiveUpTrustee, At, Busy, Processing, Ending, KInv, QueueOK
<1>2. doc \in States /\ worker \in [Workers -> Invocations]
  BY DEF KInv, MigrationTypeOK
<1>2a. /\ Group(w) \in SUBSET worker[w].todo /\ worker[w].todo \in SUBSET Nat
       /\ worker[w].todo \in SUBSET AtsRecords
  BY <1>1, AtPage, RecordsAreNumbers DEF Processing
<1>2b. worker[w].todo \ Group(w) = {} <=> worker[w].todo = Group(w)
  BY <1>2a
<1>3. i \in Invocations /\ i.pc # "idle" /\ i.msg = worker[w].msg
      /\ i.page = worker[w].page /\ i.todo = worker[w].todo \ Group(w) /\ i.goal = worker[w].goal
      /\ i.pc = IF worker[w].todo = Group(w) THEN "update" ELSE "find"
  BY <1>1, <1>2, StatesTyped, <1>2a DEF Invocations
<1> HIDE DEF i
<1>4. InvocationOK(i)
  BY <1>1, <1>3, Stepping, <1>2a, <1>2b DEF InvocationOK, PageInProgress, Kind, Processing, Ending
<1>5. Goes(w, i)
  BY <1>1, <1>2 DEF i, Goes, GiveUpTrustee, NextGroup
<1>6. Moved(w, i) /\ worker' \in [Workers -> Invocations] /\ queue' \subseteq Messages
      /\ sent' \in Nat /\ QueueOK'
  BY <1>1, <1>3, <1>4, <1>5, MovedOK
<1>7. MigrationTypeOK'
  BY <1>1, <1>6, <1>2a, FailsOK DEF KInv, MigrationTypeOK, GiveUpTrustee, stores, told
<1> QED BY <1>1, <1>6, <1>7 DEF i, KInv

LEMMA ReadExistingGoes ==
  ASSUME KInv, NEW w \in Workers, ReadExisting(w)
  PROVE  /\ Moved(w, [worker[w] EXCEPT !.was = doc, !.pc = "upsert"])
         /\ Busy(w) /\ Kind(w) \in {"page", "healPage"} /\ KInv'
<1> DEFINE i == [worker[w] EXCEPT !.was = doc, !.pc = "upsert"]
<1>1. /\ worker[w] \in Invocations /\ worker[w].msg \in Messages /\ worker[w].pc = "update"
      /\ Busy(w) /\ Kind(w) \in {"page", "healPage"} /\ InvocationOK(worker[w])
  BY KindAt DEF ReadExisting, At, Busy, Processing, Ending, KInv, QueueOK
<1>2. doc \in States /\ worker \in [Workers -> Invocations]
  BY DEF KInv, MigrationTypeOK
<1>3. i \in Invocations /\ i.pc # "idle" /\ i.msg = worker[w].msg
      /\ i.page = worker[w].page /\ i.todo = worker[w].todo /\ i.goal = worker[w].goal
         /\ i.pc = "upsert"
  BY <1>1, <1>2, StatesTyped DEF Invocations
<1>4. InvocationOK(i)
  BY <1>1, <1>3, Stepping DEF InvocationOK, PageInProgress, Kind, Processing, Ending
<1>5. Goes(w, i)
  BY <1>1, <1>2 DEF Goes, ReadExisting
<1>6. Moved(w, i) /\ worker' \in [Workers -> Invocations] /\ queue' \subseteq Messages
      /\ sent' \in Nat /\ QueueOK'
  BY <1>1, <1>3, <1>4, <1>5, MovedOK
<1>7. MigrationTypeOK'
  BY <1>1, <1>6 DEF KInv, MigrationTypeOK, ReadExisting, stores, told
<1> QED BY <1>1, <1>6, <1>7 DEF KInv

(* What a page writes. *)
LEMMA PageStateTyped ==
  ASSUME KInv, NEW w \in Workers, Kind(w) = "page"
  PROVE  /\ PageState(w) \in States
         /\ PageState(w).status = worker[w].goal
         /\ PageState(w).cursor = IF worker[w].page = {} THEN worker[w].seen.cursor
                     ELSE Last(worker[w].page)
         /\ PageState(w).heal = IF worker[w].seen.heal = "none" THEN worker[w].was.heal
                     ELSE worker[w].seen.heal
<1> DEFINE cursor == IF worker[w].page = {} THEN worker[w].seen.cursor ELSE Last(worker[w].page)
           kept == IF worker[w].seen.heal = "none" THEN worker[w].was ELSE worker[w].seen
<1>1. worker[w] \in Invocations
  BY KindAt
<1>2. worker[w].seen \in States /\ worker[w].was \in States /\ worker[w].goal \in Statuses
      /\ worker[w].page \in SUBSET AtsRecords
  BY <1>1, InvocationTypes
<1>3. cursor \in Nat
  <2>1. IsFiniteSet(worker[w].page) /\ worker[w].page \in SUBSET Nat
    BY <1>2, RecordsAreNumbers, FS_Subset
  <2>2. worker[w].page # {} => Last(worker[w].page) \in Nat
    BY <2>1, LastExists
  <2> QED BY <1>2, <2>2, StateTypes
<1>4. kept \in States /\ kept.heal = IF worker[w].seen.heal = "none" THEN worker[w].was.heal
               ELSE worker[w].seen.heal
  BY <1>2
<1>5. PageState(w) = [kept EXCEPT !.status = worker[w].goal, !.cursor = cursor]
  BY DEF PageState
<1> HIDE DEF cursor, kept
<1>6. /\ PageState(w) \in States /\ PageState(w).status = worker[w].goal
         /\ PageState(w).cursor = cursor
      /\ PageState(w).heal = kept.heal
  BY <1>2, <1>3, <1>4, <1>5 DEF States
<1> QED BY <1>4, <1>6 DEF cursor, kept

LEMMA UpsertPageGoes ==
  ASSUME KInv, NEW w \in Workers, UpsertPage(w)
  PROVE  /\ Moved(w, [worker[w] EXCEPT !.pc = "return"])
         /\ Busy(w) /\ Kind(w) = "page" /\ KInv'
<1> DEFINE i == [worker[w] EXCEPT !.pc = "return"]
<1>1. /\ worker[w] \in Invocations /\ worker[w].msg \in Messages /\ worker[w].pc = "upsert"
      /\ Busy(w) /\ Kind(w) = "page" /\ InvocationOK(worker[w])
  BY KindAt DEF UpsertPage, Goto, At, Busy, Processing, Ending, KInv, QueueOK
<1>2. doc \in States /\ worker \in [Workers -> Invocations]
  BY DEF KInv, MigrationTypeOK
<1>3. i \in Invocations /\ i.pc # "idle" /\ i.msg = worker[w].msg
      /\ i.page = worker[w].page /\ i.todo = worker[w].todo /\ i.goal = worker[w].goal
         /\ i.pc = "return"
  BY <1>1, <1>2, StatesTyped DEF Invocations
<1>4. InvocationOK(i)
  BY <1>1, <1>3, Stepping DEF InvocationOK, PageInProgress, Kind, Processing, Ending
<1>5. Goes(w, i)
  BY <1>1, <1>2 DEF Goes, UpsertPage, Goto
<1>6. Moved(w, i) /\ worker' \in [Workers -> Invocations] /\ queue' \subseteq Messages
      /\ sent' \in Nat /\ QueueOK'
  BY <1>1, <1>3, <1>4, <1>5, MovedOK
<1>6a. PageState(w) \in States
  BY <1>1, PageStateTyped
<1>7. MigrationTypeOK'
  BY <1>1, <1>6, <1>6a DEF KInv, MigrationTypeOK, UpsertPage, Goto, stores, told
<1> QED BY <1>1, <1>6, <1>7 DEF KInv

(* The record at hand. *)
LEMMA AtPaging ==
  ASSUME KInv, NEW w \in Workers, worker[w].pc = "records"
  PROVE  /\ worker[w].todo \in SUBSET worker[w].msg.records
         /\ worker[w].msg.records \in SUBSET Professionals
         /\ worker[w].todo \in SUBSET Professionals
         /\ IsFiniteSet(worker[w].todo) /\ Cardinality(worker[w].todo) \in Nat
         /\ worker[w].todo # {} => NextRecord(w) \in worker[w].todo
<1>1. worker[w] \in Invocations /\ worker[w].msg \in Messages /\ Kind(w) = "healPage"
      /\ InvocationOK(worker[w])
  BY KindAt DEF KInv, QueueOK
<1>2. worker[w].todo \in SUBSET worker[w].msg.records
  BY <1>1 DEF InvocationOK, Kind
<1>3. worker[w].msg.records \in SUBSET Professionals
  BY <1>1, MessageTypes
<1>4. worker[w].todo \in SUBSET Professionals
  BY <1>2, <1>3
<1>5. IsFiniteSet(worker[w].todo) /\ Cardinality(worker[w].todo) \in Nat
  BY <1>4, RecordsAreNumbers, FS_Subset, FS_CardinalityType
<1>6. worker[w].todo # {} => NextRecord(w) \in worker[w].todo
  BY <1>4, RecordsAreNumbers, LeastExists DEF NextRecord
<1> QED BY <1>2, <1>3, <1>4, <1>5, <1>6

LEMMA HealingTyped ==
  ASSUME doc \in States
  PROVE  /\ Healing(doc) \in States
         /\ Healing(doc).heal = (IF Professionals = {} THEN "COMPLETED" ELSE "IN_PROGRESS")
         /\ Healing(doc).remaining = Cardinality(Professionals)
         /\ Healing(doc).status = doc.status /\ Healing(doc).cursor = doc.cursor
<1>1. Cardinality(Professionals) \in Nat
  BY RecordsAreNumbers, FS_CardinalityType
<1> DEFINE n == Cardinality(Professionals)
           heal == IF Professionals = {} THEN "COMPLETED" ELSE "IN_PROGRESS"
<1>2. Healing(doc) = [doc EXCEPT !.heal = heal, !.remaining = n]
  BY DEF Healing
<1>3. n \in Int /\ heal \in Statuses
  BY <1>1 DEF Statuses
<1> HIDE DEF n, heal
<1>4. /\ Healing(doc) \in States /\ Healing(doc).heal = heal /\ Healing(doc).remaining = n
      /\ Healing(doc).status = doc.status /\ Healing(doc).cursor = doc.cursor
  BY <1>2, <1>3 DEF States
<1> QED BY <1>4 DEF n, heal

LEMMA HealStateUnreadGoes ==
  ASSUME KInv, NEW w \in Workers, HealStateUnread(w)
  PROVE  /\ Moved(w, [worker[w] EXCEPT !.pc = "create"])
         /\ Busy(w) /\ Kind(w) = "heal" /\ KInv'
<1> DEFINE i == [worker[w] EXCEPT !.pc = "create"]
<1>1. /\ worker[w] \in Invocations /\ worker[w].msg \in Messages /\ worker[w].pc = "guard"
      /\ Busy(w) /\ Kind(w) = "heal" /\ InvocationOK(worker[w])
  BY KindAt DEF HealStateUnread, Goto, At, Busy, Processing, Ending, KInv, QueueOK
<1>2. doc \in States /\ worker \in [Workers -> Invocations]
  BY DEF KInv, MigrationTypeOK
<1>3. i \in Invocations /\ i.pc # "idle" /\ i.msg = worker[w].msg /\ i.pc = "create"
  BY <1>1, <1>2, StatesTyped DEF Invocations
<1>4. InvocationOK(i)
  BY <1>1, <1>3, Stepping DEF InvocationOK, PageInProgress, Kind, Processing, Ending
<1>5. Goes(w, i)
  BY <1>1, <1>2 DEF Goes, HealStateUnread, Goto
<1>6. Moved(w, i) /\ worker' \in [Workers -> Invocations] /\ queue' \subseteq Messages
      /\ sent' \in Nat /\ QueueOK'
  BY <1>1, <1>3, <1>4, <1>5, MovedOK
<1>7. MigrationTypeOK'
  BY <1>1, <1>6, FailsOK DEF KInv, MigrationTypeOK, HealStateUnread, Goto, stores, told
<1> QED BY <1>1, <1>6, <1>7 DEF KInv

LEMMA CreateHealGoes ==
  ASSUME KInv, NEW w \in Workers, CreateHealState(w)
  PROVE  /\ Moved(w, [worker[w] EXCEPT !.pc = "initHeal"])
         /\ Busy(w) /\ Kind(w) = "heal" /\ KInv'
<1> DEFINE i == [worker[w] EXCEPT !.pc = "initHeal"]
<1>1. /\ worker[w] \in Invocations /\ worker[w].msg \in Messages /\ worker[w].pc = "create"
      /\ Busy(w) /\ Kind(w) = "heal" /\ InvocationOK(worker[w])
  BY KindAt DEF CreateHealState, Goto, At, Busy, Processing, Ending, KInv, QueueOK
<1>2. doc \in States /\ worker \in [Workers -> Invocations]
  BY DEF KInv, MigrationTypeOK
<1>3. i \in Invocations /\ i.pc # "idle" /\ i.msg = worker[w].msg /\ i.pc = "initHeal"
  BY <1>1, <1>2, StatesTyped DEF Invocations
<1>4. InvocationOK(i)
  BY <1>1, <1>3, Stepping DEF InvocationOK, PageInProgress, Kind, Processing, Ending
<1>5. Goes(w, i)
  BY <1>1, <1>2 DEF Goes, CreateHealState, Goto
<1>6. Moved(w, i) /\ worker' \in [Workers -> Invocations] /\ queue' \subseteq Messages
      /\ sent' \in Nat /\ QueueOK'
  BY <1>1, <1>3, <1>4, <1>5, MovedOK
<1>6a. failures' \in 0..MaxFailures
  BY FailsOK DEF CreateHealState, KInv, MigrationTypeOK
<1>6b. doc' \in States
  BY <1>2, StatesTyped DEF CreateHealState
<1>6c. UNCHANGED <<stores, told, starts, escapes>>
  BY DEF CreateHealState
<1>7. MigrationTypeOK'
  BY <1>1, <1>6, <1>6a, <1>6b, <1>6c DEF KInv, MigrationTypeOK, stores, told
<1> QED BY <1>1, <1>6, <1>7 DEF KInv

LEMMA InitHealGoes ==
  ASSUME KInv, NEW w \in Workers, InitHealState(w)
  PROVE  /\ Moved(w, [worker[w] EXCEPT !.pc = "sendPages"])
         /\ Busy(w) /\ Kind(w) = "heal" /\ KInv'
<1> DEFINE i == [worker[w] EXCEPT !.pc = "sendPages"]
<1>1. /\ worker[w] \in Invocations /\ worker[w].msg \in Messages /\ worker[w].pc = "initHeal"
      /\ Busy(w) /\ Kind(w) = "heal" /\ InvocationOK(worker[w])
  BY KindAt DEF InitHealState, Goto, At, Busy, Processing, Ending, KInv, QueueOK
<1>2. doc \in States /\ worker \in [Workers -> Invocations]
  BY DEF KInv, MigrationTypeOK
<1>3. i \in Invocations /\ i.pc # "idle" /\ i.msg = worker[w].msg /\ i.pc = "sendPages"
  BY <1>1, <1>2, StatesTyped DEF Invocations
<1>4. InvocationOK(i)
  BY <1>1, <1>3, Stepping DEF InvocationOK, PageInProgress, Kind, Processing, Ending
<1>5. Goes(w, i)
  BY <1>1, <1>2 DEF Goes, InitHealState, Goto
<1>6. Moved(w, i) /\ worker' \in [Workers -> Invocations] /\ queue' \subseteq Messages
      /\ sent' \in Nat /\ QueueOK'
  BY <1>1, <1>3, <1>4, <1>5, MovedOK
<1>7. MigrationTypeOK'
  BY <1>1, <1>6, <1>2, HealingTyped DEF KInv, MigrationTypeOK, InitHealState, Goto, stores, told
<1> QED BY <1>1, <1>6, <1>7 DEF KInv

LEMMA AlreadyMappedGoes ==
  ASSUME KInv, NEW w \in Workers, AlreadyMapped(w)
  PROVE  /\ Moved(w, [worker[w] EXCEPT !.todo = @ \ {NextRecord(w)}, !.done = @ + 1,
                                       !.out = @ \cup {}])
         /\ Busy(w) /\ Kind(w) = "healPage" /\ worker[w].todo # {} /\ KInv'
<1> DEFINE i == [worker[w] EXCEPT !.todo = @ \ {NextRecord(w)}, !.done = @ + 1, !.out = @ \cup {}]
<1>1. /\ worker[w] \in Invocations /\ worker[w].msg \in Messages /\ worker[w].pc = "records"
      /\ Busy(w) /\ Kind(w) = "healPage" /\ worker[w].todo # {} /\ InvocationOK(worker[w])
  BY KindAt DEF AlreadyMapped, AtRecord, At, Busy, Processing, Ending, KInv, QueueOK
<1>2. doc \in States /\ worker \in [Workers -> Invocations]
  BY DEF KInv, MigrationTypeOK
<1>2a. /\ NextRecord(w) \in Professionals /\ worker[w].todo \in SUBSET worker[w].msg.records
       /\ worker[w].todo \in SUBSET Nat /\ worker[w].out \in SUBSET Professionals
          /\ worker[w].done \in Nat
  BY <1>1, AtPaging, InvocationTypes, RecordsAreNumbers
<1>2b. /\ worker[w].todo \ {NextRecord(w)} \in SUBSET Nat /\ worker[w].done + 1 \in Nat
       /\ worker[w].out \cup {} \in SUBSET Professionals
  BY <1>2a
<1>3. i \in Invocations /\ i.pc # "idle" /\ i.msg = worker[w].msg
      /\ i.pc = "records" /\ i.todo = worker[w].todo \ {NextRecord(w)}
  BY <1>1, <1>2, StatesTyped, <1>2b DEF Invocations
<1>4. InvocationOK(i)
  BY <1>1, <1>3, Stepping, <1>2a DEF InvocationOK, PageInProgress, Kind, Processing, Ending
<1>5. Goes(w, i)
  BY <1>1, <1>2 DEF Goes, AlreadyMapped, AtRecord, Counted
<1>6. Moved(w, i) /\ worker' \in [Workers -> Invocations] /\ queue' \subseteq Messages
      /\ sent' \in Nat /\ QueueOK'
  BY <1>1, <1>3, <1>4, <1>5, MovedOK
<1>7. MigrationTypeOK'
  BY <1>1, <1>6, <1>2a DEF KInv, MigrationTypeOK, AlreadyMapped, AtRecord, stores, told
<1> QED BY <1>1, <1>6, <1>7 DEF KInv

LEMMA CreateMappingGoes ==
  ASSUME KInv, NEW w \in Workers, CreateMapping(w)
  PROVE  /\ Moved(w, [worker[w] EXCEPT !.todo = @ \ {NextRecord(w)}, !.done = @ + 1,
                                       !.out = @ \cup {}])
         /\ Busy(w) /\ Kind(w) = "healPage" /\ worker[w].todo # {} /\ KInv'
<1> DEFINE i == [worker[w] EXCEPT !.todo = @ \ {NextRecord(w)}, !.done = @ + 1, !.out = @ \cup {}]
<1>1. /\ worker[w] \in Invocations /\ worker[w].msg \in Messages /\ worker[w].pc = "records"
      /\ Busy(w) /\ Kind(w) = "healPage" /\ worker[w].todo # {} /\ InvocationOK(worker[w])
  BY KindAt DEF CreateMapping, AtRecord, At, Busy, Processing, Ending, KInv, QueueOK
<1>2. doc \in States /\ worker \in [Workers -> Invocations]
  BY DEF KInv, MigrationTypeOK
<1>2a. /\ NextRecord(w) \in Professionals /\ worker[w].todo \in SUBSET worker[w].msg.records
       /\ worker[w].todo \in SUBSET Nat /\ worker[w].out \in SUBSET Professionals
          /\ worker[w].done \in Nat
  BY <1>1, AtPaging, InvocationTypes, RecordsAreNumbers
<1>2b. /\ worker[w].todo \ {NextRecord(w)} \in SUBSET Nat /\ worker[w].done + 1 \in Nat
       /\ worker[w].out \cup {} \in SUBSET Professionals
  BY <1>2a
<1>3. i \in Invocations /\ i.pc # "idle" /\ i.msg = worker[w].msg
      /\ i.pc = "records" /\ i.todo = worker[w].todo \ {NextRecord(w)}
  BY <1>1, <1>2, StatesTyped, <1>2b DEF Invocations
<1>4. InvocationOK(i)
  BY <1>1, <1>3, Stepping, <1>2a DEF InvocationOK, PageInProgress, Kind, Processing, Ending
<1>5. Goes(w, i)
  BY <1>1, <1>2 DEF Goes, CreateMapping, AtRecord, Counted
<1>6. Moved(w, i) /\ worker' \in [Workers -> Invocations] /\ queue' \subseteq Messages
      /\ sent' \in Nat /\ QueueOK'
  BY <1>1, <1>3, <1>4, <1>5, MovedOK
<1>7. MigrationTypeOK'
  BY <1>1, <1>6, <1>2a DEF KInv, MigrationTypeOK, CreateMapping, AtRecord, stores, told
<1> QED BY <1>1, <1>6, <1>7 DEF KInv

LEMMA UnmatchedGoes ==
  ASSUME KInv, NEW w \in Workers, Unmatched(w)
  PROVE  /\ Moved(w, [worker[w] EXCEPT !.todo = @ \ {NextRecord(w)}, !.done = @ + 1,
                                       !.out = @ \cup {NextRecord(w)}])
         /\ Busy(w) /\ Kind(w) = "healPage" /\ worker[w].todo # {} /\ KInv'
<1> DEFINE i == [worker[w] EXCEPT !.todo = @ \ {NextRecord(w)}, !.done = @ + 1,
                                  !.out = @ \cup {NextRecord(w)}]
<1>1. /\ worker[w] \in Invocations /\ worker[w].msg \in Messages /\ worker[w].pc = "records"
      /\ Busy(w) /\ Kind(w) = "healPage" /\ worker[w].todo # {} /\ InvocationOK(worker[w])
  BY KindAt DEF Unmatched, AtRecord, At, Busy, Processing, Ending, KInv, QueueOK
<1>2. doc \in States /\ worker \in [Workers -> Invocations]
  BY DEF KInv, MigrationTypeOK
<1>2a. /\ NextRecord(w) \in Professionals /\ worker[w].todo \in SUBSET worker[w].msg.records
       /\ worker[w].todo \in SUBSET Nat /\ worker[w].out \in SUBSET Professionals
          /\ worker[w].done \in Nat
  BY <1>1, AtPaging, InvocationTypes, RecordsAreNumbers
<1>2b. /\ worker[w].todo \ {NextRecord(w)} \in SUBSET Nat /\ worker[w].done + 1 \in Nat
       /\ worker[w].out \cup {NextRecord(w)} \in SUBSET Professionals
  BY <1>2a
<1>3. i \in Invocations /\ i.pc # "idle" /\ i.msg = worker[w].msg
      /\ i.pc = "records" /\ i.todo = worker[w].todo \ {NextRecord(w)}
  BY <1>1, <1>2, StatesTyped, <1>2b DEF Invocations
<1>4. InvocationOK(i)
  BY <1>1, <1>3, Stepping, <1>2a DEF InvocationOK, PageInProgress, Kind, Processing, Ending
<1>5. Goes(w, i)
  BY <1>1, <1>2 DEF Goes, Unmatched, AtRecord, Counted
<1>6. Moved(w, i) /\ worker' \in [Workers -> Invocations] /\ queue' \subseteq Messages
      /\ sent' \in Nat /\ QueueOK'
  BY <1>1, <1>3, <1>4, <1>5, MovedOK
<1>7. MigrationTypeOK'
  BY <1>1, <1>6, <1>2a, FailsOK DEF KInv, MigrationTypeOK, Unmatched, AtRecord, stores, told
<1> QED BY <1>1, <1>6, <1>7 DEF KInv

LEMMA ReEnqueueFailsGoes ==
  ASSUME KInv, NEW w \in Workers, ReEnqueueFails(w)
  PROVE  /\ Moved(w, [worker[w] EXCEPT !.done = @ + Cardinality(worker[w].todo),
                                       !.out = @ \cup worker[w].todo, !.todo = {}])
         /\ Busy(w) /\ Kind(w) = "healPage" /\ KInv'
<1> DEFINE i == [worker[w] EXCEPT !.done = @ + Cardinality(worker[w].todo),
                                  !.out = @ \cup worker[w].todo, !.todo = {}]
<1>1. /\ worker[w] \in Invocations /\ worker[w].msg \in Messages /\ worker[w].pc = "records"
      /\ Busy(w) /\ Kind(w) = "healPage" /\ InvocationOK(worker[w])
  BY KindAt DEF ReEnqueueFails, AtRecord, At, Busy, Processing, Ending, KInv, QueueOK
<1>2. doc \in States /\ worker \in [Workers -> Invocations]
  BY DEF KInv, MigrationTypeOK
<1>2a. /\ worker[w].todo \in SUBSET Professionals /\ Cardinality(worker[w].todo) \in Nat
       /\ worker[w].out \in SUBSET Professionals /\ worker[w].done \in Nat
  BY <1>1, AtPaging, InvocationTypes
<1>2b. /\ worker[w].done + Cardinality(worker[w].todo) \in Nat
       /\ worker[w].out \cup worker[w].todo \in SUBSET Professionals
  BY <1>2a
<1>3. i \in Invocations /\ i.pc # "idle" /\ i.msg = worker[w].msg
      /\ i.pc = "records" /\ i.todo = {}
  BY <1>1, <1>2, StatesTyped, <1>2b DEF Invocations
<1>4. InvocationOK(i)
  BY <1>1, <1>3, Stepping DEF InvocationOK, PageInProgress, Kind, Processing, Ending
<1>5. Goes(w, i)
  BY <1>1, <1>2 DEF Goes, ReEnqueueFails, AtRecord
<1>6. Moved(w, i) /\ worker' \in [Workers -> Invocations] /\ queue' \subseteq Messages
      /\ sent' \in Nat /\ QueueOK'
  BY <1>1, <1>3, <1>4, <1>5, MovedOK
<1>7. MigrationTypeOK'
  BY <1>1, <1>6, FailsOK, MigrationAssumption
    DEF KInv, MigrationTypeOK, ReEnqueueFails, AtRecord, stores, told
<1> QED BY <1>1, <1>6, <1>7 DEF KInv

LEMMA RecordGoes ==
  ASSUME KInv, NEW w \in Workers, RecordHealPageResult(w)
  PROVE  /\ Moved(w, [worker[w] EXCEPT !.left = doc.remaining - worker[w].done, !.pc = "update"])
         /\ Busy(w) /\ Kind(w) = "healPage" /\ worker[w].todo = {} /\ KInv'
<1> DEFINE i == [worker[w] EXCEPT !.left = doc.remaining - worker[w].done, !.pc = "update"]
<1>1. /\ worker[w] \in Invocations /\ worker[w].msg \in Messages /\ worker[w].pc = "records"
      /\ Busy(w) /\ Kind(w) = "healPage" /\ worker[w].todo = {} /\ InvocationOK(worker[w])
  BY KindAt DEF RecordHealPageResult, At, Busy, Processing, Ending, KInv, QueueOK
<1>2. doc \in States /\ worker \in [Workers -> Invocations]
  BY DEF KInv, MigrationTypeOK
<1>2a. doc.remaining - worker[w].done \in Int /\ worker[w].todo \in SUBSET Nat
  BY <1>1, <1>2, StateTypes, InvocationTypes
<1>3. i \in Invocations /\ i.pc # "idle" /\ i.msg = worker[w].msg
      /\ i.pc = "update" /\ i.todo = worker[w].todo
  BY <1>1, <1>2, StatesTyped, <1>2a DEF Invocations
<1>4. InvocationOK(i)
  BY <1>1, <1>3, Stepping DEF InvocationOK, PageInProgress, Kind, Processing, Ending
<1>5. Goes(w, i)
  BY <1>1, <1>2 DEF Goes, RecordHealPageResult
<1>6. Moved(w, i) /\ worker' \in [Workers -> Invocations] /\ queue' \subseteq Messages
      /\ sent' \in Nat /\ QueueOK'
  BY <1>1, <1>3, <1>4, <1>5, MovedOK
<1>6a. doc' \in States
  BY <1>2, <1>2a DEF RecordHealPageResult, States
<1>7. MigrationTypeOK'
  BY <1>1, <1>6, <1>6a DEF KInv, MigrationTypeOK, RecordHealPageResult, stores, told
<1> QED BY <1>1, <1>6, <1>7 DEF KInv

LEMMA UpsertHealGoes ==
  ASSUME KInv, NEW w \in Workers, UpsertHealPage(w)
  PROVE  /\ Moved(w, [worker[w] EXCEPT !.pc = "return"])
         /\ Busy(w) /\ Kind(w) = "healPage" /\ KInv'
<1> DEFINE i == [worker[w] EXCEPT !.pc = "return"]
<1>1. /\ worker[w] \in Invocations /\ worker[w].msg \in Messages /\ worker[w].pc = "upsert"
      /\ Busy(w) /\ Kind(w) = "healPage" /\ InvocationOK(worker[w])
  BY KindAt DEF UpsertHealPage, Goto, At, Busy, Processing, Ending, KInv, QueueOK
<1>2. doc \in States /\ worker \in [Workers -> Invocations]
  BY DEF KInv, MigrationTypeOK
<1>3. i \in Invocations /\ i.pc # "idle" /\ i.msg = worker[w].msg
      /\ i.pc = "return" /\ i.todo = worker[w].todo
  BY <1>1, <1>2, StatesTyped DEF Invocations
<1>4. InvocationOK(i)
  BY <1>1, <1>3, Stepping DEF InvocationOK, PageInProgress, Kind, Processing, Ending
<1>5. Goes(w, i)
  BY <1>1, <1>2 DEF Goes, UpsertHealPage, Goto
<1>6. Moved(w, i) /\ worker' \in [Workers -> Invocations] /\ queue' \subseteq Messages
      /\ sent' \in Nat /\ QueueOK'
  BY <1>1, <1>3, <1>4, <1>5, MovedOK
<1>6a. doc' \in States
  <2>1. worker[w].was \in States
    BY <1>1, InvocationTypes
  <2> QED BY <2>1 DEF UpsertHealPage, States, Statuses
<1>7. MigrationTypeOK'
  BY <1>1, <1>6, <1>6a DEF KInv, MigrationTypeOK, UpsertHealPage, Goto, stores, told
<1> QED BY <1>1, <1>6, <1>7 DEF KInv

LEMMA RecordFailsGoes ==
  ASSUME KInv, NEW w \in Workers, RecordFails(w)
  PROVE  /\ Moved(w, [worker[w] EXCEPT !.pc = "return"])
         /\ Busy(w) /\ Kind(w) = "healPage" /\ worker[w].todo = {} /\ KInv'
<1> DEFINE i == [worker[w] EXCEPT !.pc = "return"]
<1>1. /\ worker[w] \in Invocations /\ worker[w].msg \in Messages
         /\ worker[w].pc \in {"records", "update", "upsert"}
      /\ Busy(w) /\ Kind(w) = "healPage" /\ worker[w].todo = {} /\ InvocationOK(worker[w])
  BY KindAt DEF RecordFails, At, Busy, Processing, Ending, KInv, QueueOK, InvocationOK, Kind
<1>2. doc \in States /\ worker \in [Workers -> Invocations]
  BY DEF KInv, MigrationTypeOK
<1>3. i \in Invocations /\ i.pc # "idle" /\ i.msg = worker[w].msg
      /\ i.pc = "return" /\ i.todo = worker[w].todo
  BY <1>1, <1>2, StatesTyped DEF Invocations
<1>4. InvocationOK(i)
  BY <1>1, <1>3, Stepping DEF InvocationOK, PageInProgress, Kind, Processing, Ending
<1>5. Goes(w, i)
  BY <1>1, <1>2 DEF Goes, RecordFails, Goto
<1>6. Moved(w, i) /\ worker' \in [Workers -> Invocations] /\ queue' \subseteq Messages
      /\ sent' \in Nat /\ QueueOK'
  BY <1>1, <1>3, <1>4, <1>5, MovedOK
<1>7. MigrationTypeOK'
  BY <1>1, <1>6, FailsOK DEF KInv, MigrationTypeOK, RecordFails, Goto, stores, told
<1> QED BY <1>1, <1>6, <1>7 DEF KInv

-----------------------------------------------------------------------------
(* Invocations that end, and messages that begin one. *)

(* An invocation ended, and left pages in the queue for its message.       *)
Ended(w, pages) ==
  /\ Busy(w)
  /\ worker'[w] = Idle
  /\ \A v \in Workers : v # w => worker'[v] = worker[v]
  /\ queue' = (queue \ {worker[w].msg}) \cup pages
  /\ pages # {} => Kind(w) # "healPage"

LEMMA EndedOK ==
  ASSUME KInv, NEW w \in Workers, Busy(w), NEW pages, Sendable(w, pages), Return(w, pages)
  PROVE  /\ Ended(w, pages) /\ worker' \in [Workers -> Invocations]
         /\ queue' \subseteq Messages /\ sent' \in Nat /\ QueueOK'
<1>1. worker \in [Workers -> Invocations]
  BY DEF KInv, MigrationTypeOK
<1> QED BY <1>1, ReturnOK DEF Ended, Return, Sendable

LEMMA AboutTyped ==
  ASSUME NEW m \in Messages
  PROVE  About(m) \in SUBSET Professionals
BY MessageTypes DEF About

(* A handler put its message on the DLQ.                                   *)
FailsOver(w) ==
  \/ DeleteFails(w) \/ StateFails(w) \/ GetPageFails(w) \/ UpdatePageFails(w)
  \/ HealFails(w) \/ BackfillFails(w)

LEMMA FailsOverEnds ==
  ASSUME KInv, NEW w \in Workers, FailsOver(w)
  PROVE  /\ Ended(w, {}) /\ KInv'
         /\ failures' # 0 /\ reported' = reported \cup About(worker[w].msg)
         /\ UNCHANGED <<todIds, mapped, doc, deleted, givenUp, unmatched>>
         /\ worker[w].pc \in {"deleteTrustees", "deleteIds", "resetState", "getState", "fetch",
                              "update", "upsert", "guard", "create", "initHeal", "records"}
<1>1. PutOnDlq(w) /\ UNCHANGED <<todIds, mapped, doc, deleted, givenUp, unmatched, starts, escapes>>
      /\ worker[w].pc \in {"deleteTrustees", "deleteIds", "resetState", "getState", "fetch",
                           "update", "upsert", "guard", "create", "initHeal", "records"}
  BY DEF FailsOver, DeleteFails, StateFails, GetPageFails, UpdatePageFails, HealFails,
    BackfillFails,
         stores, At
<1>2. Busy(w) /\ worker[w].msg \in Messages
  BY <1>1, KindAt DEF Busy
<1>3. /\ Ended(w, {}) /\ worker' \in [Workers -> Invocations]
      /\ queue' \subseteq Messages /\ sent' \in Nat /\ QueueOK'
  BY <1>1, <1>2, NothingSendable, EndedOK DEF PutOnDlq
<1>4. failures' \in 0..MaxFailures /\ failures' # 0
  BY <1>1, FailsOK DEF PutOnDlq
<1>5. reported' = reported \cup About(worker[w].msg)
  BY <1>1 DEF PutOnDlq
<1>6. MigrationTypeOK'
  BY <1>1, <1>2, <1>3, <1>4, <1>5, AboutTyped DEF KInv, MigrationTypeOK
<1> QED BY <1>1, <1>3, <1>4, <1>5, <1>6 DEF KInv

LEMMA NextPageSent ==
  ASSUME KInv, NEW w \in Workers, Kind(w) # "healPage", NEW cursor, cursor \in Nat, NEW m,
         m = Message(sent + 1, "page", cursor, {})
  PROVE  m \in Messages /\ m.kind = "page" /\ m.cursor = cursor /\ m.records = {}
         /\ Sendable(w, {m})
<1>1. sent + 1 \in Nat /\ "page" \in Orders \cup {"page", "healPage"} /\ {} \in SUBSET Professionals
  BY DEF KInv, MigrationTypeOK
<1> DEFINE n == Message(sent + 1, "page", cursor, {})
<1>2. /\ Message(sent + 1, "page", cursor, {}) \in Messages
      /\ Message(sent + 1, "page", cursor, {}).kind = "page"
      /\ Message(sent + 1, "page", cursor, {}).records = {}
  <2> DEFINE id == sent + 1
             none == {}
  <2>1. id \in Nat /\ none \in SUBSET Professionals
    BY <1>1
  <2> HIDE DEF id, none
  <2>2. /\ Message(id, "page", cursor, none) \in Messages
        /\ Message(id, "page", cursor, none).kind = "page"
        /\ Message(id, "page", cursor, none).records = none
    BY <1>1, <2>1, MessageTyped
  <2> QED BY <2>2 DEF id, none
<1>2a. n.cursor = cursor
  BY DEF Message
<1>3. Sendable(w, {n})
  BY OneSendable
<1> HIDE DEF n
<1>4. m = n
  BY DEF n
<1> QED BY <1>2, <1>2a, <1>3, <1>4

LEMMA StartPageEnds ==
  ASSUME KInv, NEW w \in Workers, StartPage(w)
  PROVE  /\ Busy(w) /\ worker[w].pc = "startPage" /\ Kind(w) \in {"deleteAll", "resume", "reset"}
            /\ KInv'
         /\ \/ Ended(w, {})
            \/ \E m \in Messages : /\ Ended(w, {m})
                                   /\ m.kind = "page" /\ m.cursor = worker[w].seen.cursor
                                      /\ m.records = {}
<1>1. worker[w].pc = "startPage" /\ Busy(w) /\ worker[w] \in Invocations
      /\ Kind(w) \in {"deleteAll", "resume", "reset"} /\ sent \in Nat
  BY KindAt DEF StartPage, At, Busy, KInv, MigrationTypeOK
<1>2. worker[w].seen.cursor \in Nat
  BY <1>1, InvocationTypes, StateTypes
<1> DEFINE m == Message(sent + 1, "page", worker[w].seen.cursor, {})
<1>3. m \in Messages /\ m.kind = "page" /\ m.cursor = worker[w].seen.cursor /\ m.records = {}
  <2> HIDE DEF m
  <2>1. m = Message(sent + 1, "page", worker[w].seen.cursor, {}) /\ Kind(w) # "healPage"
    BY <1>1 DEF m
  <2> DEFINE c == worker[w].seen.cursor
  <2>2. c \in Nat
    BY <1>2
  <2> HIDE DEF c
  <2>3. m = Message(sent + 1, "page", c, {})
    BY <2>1 DEF c
  <2>4. m \in Messages /\ m.kind = "page" /\ m.cursor = c /\ m.records = {}
    BY <2>1, <2>2, <2>3, NextPageSent
  <2> QED BY <2>4 DEF c
<1>4. Sendable(w, {}) /\ Sendable(w, {m})
  BY <1>1, <1>2, NothingSendable, OneSendable
<1> HIDE DEF m
<1>5. Return(w, {}) \/ Return(w, {m})
  BY DEF StartPage, m
<1>6. /\ Ended(w, {}) \/ Ended(w, {m})
      /\ worker' \in [Workers -> Invocations] /\ queue' \subseteq Messages /\ sent' \in Nat
         /\ QueueOK'
  BY <1>1, <1>4, <1>5, EndedOK
<1>7. MigrationTypeOK'
  BY <1>6 DEF KInv, MigrationTypeOK, StartPage, stores, told
<1> QED BY <1>1, <1>3, <1>6, <1>7 DEF KInv

LEMMA EndPageEnds ==
  ASSUME KInv, NEW w \in Workers, EndPage(w)
  PROVE  /\ Busy(w) /\ worker[w].pc = "return" /\ Kind(w) = "page" /\ KInv'
         /\ \/ Ended(w, {})
            \/ \E m \in Messages : /\ Ended(w, {m}) /\ worker[w].page # {}
                                   /\ m.kind = "page" /\ m.cursor = Last(worker[w].page)
                                      /\ m.records = {}
<1>1. worker[w].pc = "return" /\ Busy(w) /\ worker[w] \in Invocations /\ Kind(w) = "page"
      /\ sent \in Nat
      /\ InvocationOK(worker[w])
  BY KindAt DEF EndPage, At, Busy, KInv, QueueOK, MigrationTypeOK
<1>2. worker[w].goal = "IN_PROGRESS" => worker[w].page # {}
  BY <1>1 DEF InvocationOK, PageInProgress, Ending, Busy, Kind
<1>3. worker[w].page # {} => Last(worker[w].page) \in Nat
  <2>1. worker[w].page \in SUBSET AtsRecords
    BY <1>1, InvocationTypes
  <2>2. IsFiniteSet(worker[w].page) /\ worker[w].page \in SUBSET Nat
    BY <2>1, RecordsAreNumbers, FS_Subset
  <2> QED BY <2>2, LastExists
<1> DEFINE m == Message(sent + 1, "page", Last(worker[w].page), {})
<1>4. ASSUME worker[w].page # {}
      PROVE  /\ m \in Messages /\ m.kind = "page" /\ m.cursor = Last(worker[w].page)
                /\ m.records = {}
             /\ Sendable(w, {m})
  <2> HIDE DEF m
  <2>1. m = Message(sent + 1, "page", Last(worker[w].page), {}) /\ Kind(w) # "healPage"
    BY <1>1 DEF m
  <2>2. Last(worker[w].page) \in Nat
    BY <1>3, <1>4
  <2> QED BY <2>1, <2>2, NextPageSent
<1>5. Sendable(w, {})
  BY NothingSendable
<1> HIDE DEF m
<1>6. Return(w, {}) \/ (worker[w].goal = "IN_PROGRESS" /\ Return(w, {m}))
  BY DEF EndPage, m
<1>7. /\ Ended(w, {}) \/ (worker[w].page # {} /\ Ended(w, {m}))
      /\ worker' \in [Workers -> Invocations] /\ queue' \subseteq Messages /\ sent' \in Nat
         /\ QueueOK'
  BY <1>1, <1>2, <1>4, <1>5, <1>6, EndedOK
<1>8. MigrationTypeOK'
  BY <1>7 DEF KInv, MigrationTypeOK, EndPage, stores, told
<1> QED BY <1>1, <1>4, <1>7, <1>8 DEF KInv

LEMMA ReadHealGoes ==
  ASSUME KInv, NEW w \in Workers, ReadHealState(w)
  PROVE  /\ Busy(w) /\ worker[w].pc = "guard" /\ Kind(w) = "heal" /\ KInv'
         /\ \/ /\ Ended(w, {}) /\ (doc.status = "IN_PROGRESS" \/ doc.heal = "COMPLETED")
            \/ Moved(w, [worker[w] EXCEPT !.pc = "create"]) /\ doc.status # "IN_PROGRESS"
         /\ reported' = IF doc.status = "IN_PROGRESS" THEN Professionals ELSE reported
<1> DEFINE i == [worker[w] EXCEPT !.pc = "create"]
<1>1. /\ worker[w] \in Invocations /\ worker[w].msg \in Messages /\ worker[w].pc = "guard"
      /\ Busy(w) /\ Kind(w) = "heal" /\ InvocationOK(worker[w])
  BY KindAt DEF ReadHealState, At, Busy, KInv, QueueOK
<1>2. worker \in [Workers -> Invocations]
  BY DEF KInv, MigrationTypeOK
<1>3. i \in Invocations /\ i.pc = "create" /\ i.msg = worker[w].msg
  BY <1>1 DEF Invocations
<1>4. InvocationOK(i)
  BY <1>1, <1>3, Stepping DEF InvocationOK, Kind
<1>5. CASE doc.status = "IN_PROGRESS" \/ doc.heal = "COMPLETED"
  <2>1. /\ Ended(w, {}) /\ worker' \in [Workers -> Invocations]
        /\ queue' \subseteq Messages /\ sent' \in Nat /\ QueueOK'
    BY <1>1, <1>5, NothingSendable, EndedOK DEF ReadHealState
  <2>2. MigrationTypeOK'
    BY <2>1 DEF KInv, MigrationTypeOK, ReadHealState, stores
  <2> QED BY <1>1, <1>5, <2>1, <2>2 DEF KInv, ReadHealState
<1>6. CASE ~ (doc.status = "IN_PROGRESS" \/ doc.heal = "COMPLETED")
  <2>1. Goes(w, i)
    BY <1>1, <1>2, <1>6 DEF Goes, ReadHealState, Goto
  <2>2. /\ Moved(w, i) /\ worker' \in [Workers -> Invocations]
        /\ queue' \subseteq Messages /\ sent' \in Nat /\ QueueOK'
    BY <1>1, <1>3, <1>4, <2>1, MovedOK
  <2>3. MigrationTypeOK'
    BY <2>2 DEF KInv, MigrationTypeOK, ReadHealState, stores
  <2> QED BY <1>1, <1>6, <2>2, <2>3 DEF KInv, ReadHealState
<1> QED BY <1>5, <1>6

LEMMA SendPagesEnds ==
  ASSUME KInv, NEW w \in Workers, SendHealPages(w)
  PROVE  Busy(w) /\ worker[w].pc = "sendPages" /\ Kind(w) = "heal" /\ Ended(w, PageMessages)
         /\ KInv'
<1>1. /\ worker[w].msg \in Messages /\ worker[w].pc = "sendPages" /\ Busy(w) /\ Kind(w) = "heal"
  BY KindAt DEF SendHealPages, At, Busy
<1>2. Return(w, PageMessages)
  BY DEF SendHealPages, PageMessages, PageMessage, IdOf, HealPages
<1>3. /\ Ended(w, PageMessages) /\ worker' \in [Workers -> Invocations]
      /\ queue' \subseteq Messages /\ sent' \in Nat /\ QueueOK'
  BY <1>1, <1>2, PagesSendable, EndedOK
<1>4. MigrationTypeOK'
  BY <1>3 DEF KInv, MigrationTypeOK, SendHealPages, stores, told
<1> QED BY <1>1, <1>3, <1>4 DEF KInv

LEMMA EndHealEnds ==
  ASSUME KInv, NEW w \in Workers, EndHealPage(w)
  PROVE  Busy(w) /\ worker[w].pc = "return" /\ Kind(w) = "healPage" /\ Ended(w, {}) /\ KInv'
         /\ worker[w].todo = {}
<1>1. /\ worker[w] \in Invocations /\ worker[w].pc = "return" /\ Busy(w) /\ Kind(w) = "healPage"
      /\ InvocationOK(worker[w])
  BY KindAt DEF EndHealPage, At, Busy, KInv, QueueOK
<1>2. /\ Ended(w, {}) /\ worker' \in [Workers -> Invocations]
      /\ queue' \subseteq Messages /\ sent' \in Nat /\ QueueOK'
  BY <1>1, NothingSendable, EndedOK DEF EndHealPage
<1>3. worker[w].out \in SUBSET Professionals
  BY <1>1, InvocationTypes
<1>4. MigrationTypeOK'
  BY <1>2, <1>3 DEF KInv, MigrationTypeOK, EndHealPage, stores
<1>5. worker[w].todo = {}
  BY <1>1 DEF InvocationOK, Kind
<1> QED BY <1>1, <1>2, <1>4, <1>5 DEF KInv

-----------------------------------------------------------------------------
(* Messages that are sent, taken, given back or split, and the invariant of *)
(* the handlers.                                                           *)

LEMMA StartKeeps ==
  ASSUME KInv, NEW kind \in Orders, queue = {}, Start(kind)
  PROVE  KInv'
<1>1. worker' \in [Workers -> Invocations] /\ queue' \subseteq Messages /\ sent' \in Nat /\ QueueOK'
  BY StartOK
<1>2. starts' \in 0..MaxStarts
  BY MigrationAssumption DEF Start, KInv, MigrationTypeOK
<1>3. MigrationTypeOK'
  BY <1>1, <1>2 DEF Start, KInv, MigrationTypeOK, stores, told
<1> QED BY <1>1, <1>3 DEF KInv

LEMMA TakeKeeps ==
  ASSUME KInv, NEW w \in Workers, NEW m \in queue, Take(w, m)
  PROVE  KInv'
<1>1. worker' \in [Workers -> Invocations] /\ queue' \subseteq Messages /\ sent' \in Nat /\ QueueOK'
  BY TakeOK
<1>2. MigrationTypeOK'
  BY <1>1 DEF Take, KInv, MigrationTypeOK, stores, told
<1> QED BY <1>1, <1>2 DEF KInv

LEMMA AbortKeeps ==
  ASSUME KInv, NEW w \in Workers, Abort(w)
  PROVE  KInv'
<1>1. worker' \in [Workers -> Invocations] /\ queue' \subseteq Messages /\ sent' \in Nat /\ QueueOK'
  BY AbortOK
<1>2. failures' \in 0..MaxFailures
  BY FailsOK DEF Abort
<1>3. reported' \in SUBSET Professionals
  BY KindAt, AboutTyped DEF Abort, KInv, MigrationTypeOK
<1>4. MigrationTypeOK'
  BY <1>1, <1>2, <1>3 DEF Abort, KInv, MigrationTypeOK, stores
<1> QED BY <1>1, <1>4 DEF KInv

LEMMA ReEnqueueKeeps ==
  ASSUME KInv, NEW w \in Workers, ReEnqueueHealPage(w)
  PROVE  KInv'
<1>1. worker' \in [Workers -> Invocations] /\ queue' \subseteq Messages /\ sent' \in Nat /\ QueueOK'
  BY ReEnqueueOK
<1>2. escapes' \in 0..MaxEscapes
  BY MigrationAssumption DEF ReEnqueueHealPage, KInv, MigrationTypeOK
<1>3. MigrationTypeOK'
  BY <1>1, <1>2 DEF ReEnqueueHealPage, KInv, MigrationTypeOK, stores, told
<1> QED BY <1>1, <1>3 DEF KInv

LEMMA Steps ==
  ASSUME KInv, NEW w \in Workers, StartStep(w) \/ PageStep(w) \/ HealStep(w)
  PROVE  \/ DeleteTrustees(w) \/ DeleteProfessionalIds(w) \/ ResetMigrationState(w)
         \/ ReadState(w) \/ CreateState(w) \/ StartPage(w)
         \/ GetPageOfTrustees(w) \/ FailMigration(w)
         \/ FindTrusteeByNameAndState(w) \/ StoreTrustee(w) \/ UpsertProfessionalIds(w)
         \/ GiveUpTrustee(w) \/ ReadExisting(w) \/ UpsertPage(w) \/ EndPage(w)
         \/ ReadHealState(w) \/ HealStateUnread(w)
         \/ CreateHealState(w) \/ InitHealState(w) \/ SendHealPages(w)
         \/ AlreadyMapped(w) \/ CreateMapping(w) \/ Unmatched(w)
         \/ ReEnqueueHealPage(w) \/ ReEnqueueFails(w)
         \/ RecordHealPageResult(w) \/ UpsertHealPage(w) \/ RecordFails(w) \/ EndHealPage(w)
         \/ FailsOver(w)
BY DEF StartStep, PageStep, HealStep, FailsOver

LEMMA HandlerKeeps ==
  ASSUME KInv, NEW w \in Workers, StartStep(w) \/ PageStep(w) \/ HealStep(w)
  PROVE  KInv'
<1>1. CASE DeleteTrustees(w) \/ DeleteProfessionalIds(w) \/ ResetMigrationState(w)
           \/ ReadState(w) \/ CreateState(w) \/ StartPage(w)
  BY <1>1, DeleteTrusteesGoes, DeleteIdsGoes, ResetGoes, ReadStateGoes, CreateStateGoes,
    StartPageEnds
<1>2. CASE GetPageOfTrustees(w) \/ FailMigration(w)
           \/ FindTrusteeByNameAndState(w) \/ StoreTrustee(w) \/ UpsertProfessionalIds(w)
           \/ GiveUpTrustee(w) \/ ReadExisting(w) \/ UpsertPage(w) \/ EndPage(w)
  BY <1>2, GetPageGoes, FailMigrationGoes, FindTrusteeGoes, StoreTrusteeGoes, UpsertIdsGoes,
     GiveUpGoes, ReadExistingGoes, UpsertPageGoes, EndPageEnds
<1>3. CASE ReadHealState(w) \/ HealStateUnread(w)
           \/ CreateHealState(w) \/ InitHealState(w) \/ SendHealPages(w)
           \/ AlreadyMapped(w) \/ CreateMapping(w) \/ Unmatched(w)
  BY <1>3, ReadHealGoes, HealStateUnreadGoes, CreateHealGoes, InitHealGoes, SendPagesEnds,
     AlreadyMappedGoes, CreateMappingGoes, UnmatchedGoes
<1>4. CASE ReEnqueueHealPage(w) \/ ReEnqueueFails(w)
           \/ RecordHealPageResult(w) \/ UpsertHealPage(w) \/ RecordFails(w) \/ EndHealPage(w)
           \/ FailsOver(w)
  BY <1>4, ReEnqueueKeeps, ReEnqueueFailsGoes, RecordGoes, UpsertHealGoes, RecordFailsGoes,
     EndHealEnds, FailsOverEnds
<1> QED BY <1>1, <1>2, <1>3, <1>4, Steps

LEMMA KStep ==
  ASSUME KInv, [NextMigration /\ OneAtATime]_migrationVars
  PROVE  KInv'
<1>1. CASE UNCHANGED migrationVars
  BY <1>1 DEF KInv, MigrationTypeOK, QueueOK, Busy, Taken, migrationVars, stores, told
<1>2. ASSUME NEW kind \in Orders, Start(kind), OneAtATime PROVE KInv'
  <2>1. queue = {}
    BY <1>2 DEF Start, OneAtATime, KInv, MigrationTypeOK
  <2> QED BY <1>2, <2>1, StartKeeps
<1>3. ASSUME NEW w \in Workers, NEW m \in queue, Take(w, m) PROVE KInv'
  BY <1>3, TakeKeeps
<1>4. ASSUME NEW w \in Workers, StartStep(w) \/ PageStep(w) \/ HealStep(w) PROVE KInv'
  BY <1>4, HandlerKeeps
<1>5. ASSUME NEW w \in Workers, Abort(w) PROVE KInv'
  BY <1>5, AbortKeeps
<1> QED BY <1>1, <1>2, <1>3, <1>4, <1>5 DEF NextMigration

LEMMA KInit ==
  ASSUME InitMigration
  PROVE  KInv
<1>1. MigrationTypeOK
  <2>1. todIds \in [TrusteeNames -> SUBSET AtsRecords] /\ worker \in [Workers -> Invocations]
    BY IdleTyped DEF InitMigration
  <2>2. doc \in States
    BY StatesTyped DEF InitMigration
  <2>3. starts \in 0..MaxStarts /\ escapes \in 0..MaxEscapes /\ failures \in 0..MaxFailures
    BY MigrationAssumption DEF InitMigration
  <2> QED BY <2>1, <2>2, <2>3 DEF InitMigration, MigrationTypeOK
<1>2. QueueOK
  BY IdleTyped DEF InitMigration, QueueOK, InvocationOK, Busy
<1> QED BY <1>1, <1>2 DEF KInv

(* The queues and the handlers of the migration stay well-formed: every    *)
(* invocation is at a step of its message, has a message of its own that   *)
(* is still queued, and no handler but those of the pages of a healing     *)
(* runs beside another.                                                    *)
THEOREM MigrationTypes == AloneSpec => []MigrationTypeOK
<1>1. InitMigration => KInv
  BY KInit
<1>2. KInv /\ [NextMigration /\ OneAtATime]_migrationVars => KInv'
  BY KStep
<1>3. KInv => MigrationTypeOK
  BY DEF KInv
<1> QED BY <1>1, <1>2, <1>3, PTL DEF AloneSpec

-----------------------------------------------------------------------------
(* The healing: no record is lost. *)

LEMMA AboutKinds ==
  ASSUME KInv, NEW m \in queue
  PROVE  /\ m \in Messages /\ m.id \in Nat /\ m.records \in SUBSET Professionals
         /\ m.kind \in {"heal", "deleteAll"} => About(m) = Professionals
         /\ m.kind = "healPage" => About(m) = m.records
         /\ m.kind \in {"resume", "reset", "page"} => About(m) = {}
         /\ m.kind \in {"resume", "reset", "deleteAll", "heal", "page", "healPage"}
<1>1. m \in Messages /\ (m.kind # "healPage" => m.records = {})
  BY DEF KInv, QueueOK, MigrationTypeOK
<1> QED BY <1>1, MessageTypes DEF About, Orders

LEMMA OneKind ==
  ASSUME KInv, NEW w \in Workers, Busy(w), Kind(w) = "healPage", NEW m \in queue
  PROVE  m.kind = "healPage"
<1>1. worker[w].msg \in queue
  BY KindAt
<1> QED BY <1>1 DEF KInv, QueueOK, Kind

LEMMA NoneElse ==
  ASSUME KInv, NEW w \in Workers, Busy(w), Kind(w) # "healPage", NEW v \in Workers, v # w
  PROVE  ~ Busy(v)
BY Alone, IdleTyped DEF Busy

LEMMA ChainAccounted ==
  ASSUME KInv, HInv, NEW w \in Workers, Busy(w), Kind(w) \in {"resume", "reset", "page"},
           doc.heal # "none"
  PROVE  Professionals \subseteq Accounted
<1>1. queue = {worker[w].msg}
  BY Alone
<1>2. About(worker[w].msg) = {}
  BY <1>1, AboutKinds DEF Kind
<1> QED BY <1>1, <1>2 DEF HInv, HealingCovered, Covered

LEMMA CoveredMoved ==
  ASSUME KInv, HInv, NEW w \in Workers, Busy(w), NEW i, Moved(w, i), i.pc # "idle",
         i.msg = worker[w].msg, Accounted \subseteq Accounted',
         doc'.heal \in {doc.heal, "none"},
         Kind(w) = "healPage" =>
           worker[w].todo \cup worker[w].out \subseteq i.todo \cup i.out \cup Accounted',
         Kind(w) = "page"
         /\ (i.seen.heal # "none" \/ i.was.heal # "none") => Professionals \subseteq Accounted',
         Kind(w) = "deleteAll" /\ i.pc = "startPage" => doc'.heal = "none"
  PROVE  HInv'
<1>1. HealingCovered'
  BY DEF HInv, HealingCovered, Covered, Moved, HealPaging
<1>2. PagesCovered'
  <2> SUFFICES ASSUME NEW v \in Workers, Busy(v)', worker'[v].msg.kind = "healPage",
                      NEW p \in worker'[v].msg.records
               PROVE  \/ p \in worker'[v].todo \cup worker'[v].out \cup Accounted'
                      \/ \E m \in queue' : m.id > worker'[v].msg.id /\ p \in m.records
    BY DEF PagesCovered
  <2>1. Busy(v) /\ worker'[v].msg = worker[v].msg
    BY DEF Moved, Busy
  <2>2. \/ p \in worker[v].todo \cup worker[v].out \cup Accounted
        \/ \E m \in queue : m.id > worker[v].msg.id /\ p \in m.records
    BY <2>1 DEF HInv, PagesCovered
  <2>3. CASE v = w
    BY <2>1, <2>2, <2>3 DEF Moved, Kind
  <2>4. CASE v # w
    BY <2>1, <2>2, <2>4 DEF Moved
  <2> QED BY <2>3, <2>4
<1>3. StatesCovered'
  <2> SUFFICES ASSUME NEW v \in Workers, Busy(v)'
               PROVE  /\ worker'[v].msg.kind = "page"
                         /\ (worker'[v].seen.heal # "none" \/ worker'[v].was.heal # "none") =>
                           Professionals \subseteq Accounted'
                      /\ worker'[v].msg.kind = "deleteAll"
                         /\ worker'[v].pc = "startPage" => doc'.heal = "none"
    BY DEF StatesCovered
  <2>1. CASE v = w
    BY <2>1 DEF Moved, Kind
  <2>2. CASE v # w
    BY <2>2 DEF Moved, HInv, StatesCovered, Busy
  <2> QED BY <2>1, <2>2
<1>4. HealDoneCovered'
  BY DEF HInv, HealDoneCovered, Moved
<1> QED BY <1>1, <1>2, <1>3, <1>4 DEF HInv

(* A page of the healing is covered whatever it writes to the state.       *)
LEMMA PagingMoved ==
  ASSUME KInv, HInv, NEW w \in Workers, Busy(w), Kind(w) = "healPage",
         NEW i, Moved(w, i), i.pc # "idle",
         i.msg = worker[w].msg, Accounted \subseteq Accounted',
         worker[w].todo \cup worker[w].out \subseteq i.todo \cup i.out \cup Accounted'
  PROVE  HInv'
<1>1. HealPaging /\ \A m \in queue : m.kind = "healPage"
  BY OneKind, KindAt DEF HealPaging, Kind
<1>2. HealingCovered'
  BY <1>1 DEF HInv, HealingCovered, Covered, Moved
<1>3. PagesCovered'
  <2> SUFFICES ASSUME NEW v \in Workers, Busy(v)', worker'[v].msg.kind = "healPage",
                      NEW p \in worker'[v].msg.records
               PROVE  \/ p \in worker'[v].todo \cup worker'[v].out \cup Accounted'
                      \/ \E m \in queue' : m.id > worker'[v].msg.id /\ p \in m.records
    BY DEF PagesCovered
  <2>1. Busy(v) /\ worker'[v].msg = worker[v].msg
    BY DEF Moved, Busy
  <2>2. \/ p \in worker[v].todo \cup worker[v].out \cup Accounted
        \/ \E m \in queue : m.id > worker[v].msg.id /\ p \in m.records
    BY <2>1 DEF HInv, PagesCovered
  <2>3. CASE v = w
    BY <2>1, <2>2, <2>3 DEF Moved, Kind
  <2>4. CASE v # w
    BY <2>1, <2>2, <2>4 DEF Moved
  <2> QED BY <2>3, <2>4
<1>4. \A v \in Workers : Busy(v)' => worker'[v].msg.kind = "healPage"
  <2> SUFFICES ASSUME NEW v \in Workers, Busy(v)' PROVE worker'[v].msg.kind = "healPage"
    OBVIOUS
  <2>1. Busy(v) /\ worker'[v].msg = worker[v].msg
    BY DEF Moved, Busy
  <2> QED BY <1>1, <2>1, KindAt
<1>5. StatesCovered'
  BY <1>4 DEF StatesCovered
<1>6. HealDoneCovered'
  BY <1>1 DEF HealDoneCovered, Moved
<1> QED BY <1>2, <1>3, <1>5, <1>6 DEF HInv

(* A start of the healing and a deletion are about all records.            *)
LEMMA WholeMoved ==
  ASSUME KInv, NEW w \in Workers, Busy(w), Kind(w) \in {"heal", "deleteAll"}, NEW i, Moved(w, i),
         i.pc # "idle", i.msg = worker[w].msg,
         Kind(w) = "deleteAll" /\ i.pc = "startPage" => doc'.heal = "none",
         Kind(w) = "heal" /\ doc'.heal = "COMPLETED" => Professionals \subseteq Accounted'
  PROVE  HInv'
<1>1. queue' = {worker[w].msg} /\ \A v \in Workers : v # w => ~ Busy(v)'
  BY Alone, NoneElse DEF Moved, Busy
<1>2. About(worker[w].msg) = Professionals
  BY KindAt, AboutKinds DEF Kind
<1>3. Covered'
  BY <1>1, <1>2 DEF Covered
<1>4. worker'[w].msg.kind \in {"heal", "deleteAll"}
  BY DEF Moved, Kind
<1>5. PagesCovered' /\ StatesCovered'
  BY <1>1, <1>4 DEF PagesCovered, StatesCovered, Moved, Kind
<1>6. HealDoneCovered'
  BY <1>1 DEF HealDoneCovered, Kind
<1> QED BY <1>3, <1>5, <1>6 DEF HInv, HealingCovered

(* A chain or a start ends alone: what it does not pass on is accounted for. *)
LEMMA CoveredEnded ==
  ASSUME KInv, NEW w \in Workers, Busy(w), Kind(w) # "healPage", NEW pages, Ended(w, pages),
         doc'.heal # "none" => Professionals \subseteq Accounted',
         \A m \in pages : m.kind = "page"
  PROVE  HInv'
<1>1. queue' = pages /\ \A v \in Workers : ~ Busy(v)'
  BY Alone, NoneElse, IdleTyped DEF Ended, Busy
<1>2. ~ HealPaging' /\ \A m \in queue' : m.kind # "heal"
  BY <1>1 DEF HealPaging
<1>3. HealingCovered'
  BY <1>2 DEF HealingCovered, Covered
<1>4. PagesCovered' /\ StatesCovered'
  BY <1>1 DEF PagesCovered, StatesCovered
<1>5. HealDoneCovered'
  BY <1>2 DEF HealDoneCovered
<1> QED BY <1>3, <1>4, <1>5 DEF HInv

LEMMA StartPartCovered ==
  ASSUME KInv, HInv, NEW w \in Workers,
         \/ DeleteTrustees(w) \/ DeleteProfessionalIds(w) \/ ResetMigrationState(w)
         \/ ReadState(w) \/ CreateState(w) \/ StartPage(w)
  PROVE  HInv'
<1>0. worker[w] \in Invocations
  BY KindAt
<1>1. CASE DeleteTrustees(w)
  <2> DEFINE i == [worker[w] EXCEPT !.pc = "deleteIds"]
  <2>1. Moved(w, i) /\ Busy(w) /\ Kind(w) = "deleteAll"
    BY <1>1, DeleteTrusteesGoes
  <2>2. i.pc = "deleteIds" /\ i.msg = worker[w].msg
    BY <1>0 DEF Invocations
  <2> HIDE DEF i
  <2> QED BY <2>1, <2>2, WholeMoved
<1>2. CASE DeleteProfessionalIds(w)
  <2> DEFINE i == [worker[w] EXCEPT !.pc = "resetState"]
  <2>1. Moved(w, i) /\ Busy(w) /\ Kind(w) = "deleteAll"
    BY <1>2, DeleteIdsGoes
  <2>2. i.pc = "resetState" /\ i.msg = worker[w].msg
    BY <1>0 DEF Invocations
  <2> HIDE DEF i
  <2> QED BY <2>1, <2>2, WholeMoved
<1>3. CASE ResetMigrationState(w)
  <2> DEFINE i == [worker[w] EXCEPT !.pc = "getState"]
  <2>1. Moved(w, i) /\ Busy(w) /\ Kind(w) = "deleteAll"
    BY <1>3, ResetGoes
  <2>2. i.pc = "getState" /\ i.msg = worker[w].msg
    BY <1>0 DEF Invocations
  <2> HIDE DEF i
  <2> QED BY <2>1, <2>2, WholeMoved
<1>4. CASE ReadState(w)
  <2> DEFINE i == [worker[w] EXCEPT !.seen = doc,
                     !.pc = IF Kind(w) = "page" THEN "fetch" ELSE "startPage"]
  <2>1. Moved(w, i) /\ Busy(w) /\ Kind(w) \in {"resume", "page"}
    BY <1>4, ReadStateGoes
  <2>2. i.pc # "idle" /\ i.msg = worker[w].msg /\ i.seen = doc /\ i.was = worker[w].was
        /\ i.todo = worker[w].todo /\ i.out = worker[w].out
    BY <1>0 DEF Invocations
  <2>3. UNCHANGED doc /\ Accounted' = Accounted
    BY <1>4 DEF ReadState, Accounted, stores, told
  <2>4. doc.heal # "none" => Professionals \subseteq Accounted
    BY <2>1, ChainAccounted
  <2>5. Kind(w) = "page" /\ worker[w].was.heal # "none" => Professionals \subseteq Accounted
    BY <2>1 DEF HInv, StatesCovered, Kind
  <2> HIDE DEF i
  <2> QED BY <2>1, <2>2, <2>3, <2>4, <2>5, CoveredMoved
<1>5. CASE CreateState(w)
  <2> DEFINE i == [worker[w] EXCEPT !.seen = Fresh,
                     !.pc = IF Kind(w) = "page" THEN "fetch" ELSE "startPage"]
  <2>1. Moved(w, i) /\ Busy(w) /\ Kind(w) \in {"resume", "reset", "deleteAll", "page"}
    BY <1>5, CreateStateGoes
  <2>2. i.pc # "idle" /\ i.msg = worker[w].msg /\ i.seen = Fresh /\ i.was = worker[w].was
        /\ i.todo = worker[w].todo /\ i.out = worker[w].out
    BY <1>0 DEF Invocations
  <2>3. doc'.heal = "none" /\ Accounted' = Accounted /\ Fresh.heal = "none"
    BY <1>5, StatesTyped DEF CreateState, Accounted, stores
  <2>5. Kind(w) = "page" /\ worker[w].was.heal # "none" => Professionals \subseteq Accounted
    BY <2>1 DEF HInv, StatesCovered, Kind
  <2> HIDE DEF i
  <2> QED BY <2>1, <2>2, <2>3, <2>5, CoveredMoved
<1>6. CASE StartPage(w)
  <2>1. Busy(w) /\ worker[w].pc = "startPage" /\ Kind(w) \in {"deleteAll", "resume", "reset"}
    BY <1>6, StartPageEnds
  <2>2. PICK pages : Ended(w, pages) /\ \A m \in pages : m.kind = "page"
    BY <1>6, StartPageEnds
  <2>3. UNCHANGED doc /\ Accounted' = Accounted
    BY <1>6 DEF StartPage, Accounted, stores, told
  <2>4. doc.heal # "none" => Professionals \subseteq Accounted
    BY <2>1, ChainAccounted DEF HInv, StatesCovered, Kind
  <2> QED BY <2>1, <2>2, <2>3, <2>4, CoveredEnded
<1> QED BY <1>1, <1>2, <1>3, <1>4, <1>5, <1>6

(* What a page of the migration keeps of its locals, whatever it does.     *)
LEMMA PageKeeps ==
  ASSUME KInv, NEW w \in Workers,
         \/ GetPageOfTrustees(w) \/ FailMigration(w) \/ FindTrusteeByNameAndState(w)
         \/ StoreTrustee(w) \/ UpsertProfessionalIds(w) \/ GiveUpTrustee(w)
  PROVE  \E i \in Invocations :
           /\ Moved(w, i) /\ Busy(w) /\ Kind(w) = "page"
           /\ i.pc # "idle" /\ i.msg = worker[w].msg
           /\ i.seen = worker[w].seen /\ i.was = worker[w].was
           /\ i.out = worker[w].out /\ i.left = worker[w].left
           /\ i.pc \in {"find", "store", "ids", "update"}
           /\ UNCHANGED <<doc, unmatched, reported>> /\ mapped \subseteq mapped'
<1>0. worker[w] \in Invocations
  BY KindAt
<1>1. CASE GetPageOfTrustees(w)
  <2> DEFINE page == PageAfter(worker[w].msg.cursor)
             i == [worker[w] EXCEPT !.page = page, !.todo = page,
                     !.goal = IF Cardinality(page) = AtsPageSize THEN "IN_PROGRESS"
                              ELSE "COMPLETED",
                     !.pc = IF page = {} THEN "update" ELSE "find"]
  <2>1. Moved(w, i) /\ Busy(w) /\ Kind(w) = "page"
    BY <1>1, GetPageGoes
  <2>2. i.pc \in {"find", "update"} /\ i.msg = worker[w].msg /\ i.seen = worker[w].seen
        /\ i.was = worker[w].was /\ i.out = worker[w].out /\ i.left = worker[w].left
    BY <1>0 DEF Invocations
  <2> HIDE DEF i
  <2> QED BY <1>1, <2>1, <2>2 DEF Moved, GetPageOfTrustees, stores, told
<1>2. CASE FailMigration(w)
  <2> DEFINE i == [worker[w] EXCEPT !.page = {}, !.todo = {}, !.goal = "FAILED", !.pc = "update"]
  <2>1. Moved(w, i) /\ Busy(w) /\ Kind(w) = "page"
    BY <1>2, FailMigrationGoes
  <2>2. i.pc = "update" /\ i.msg = worker[w].msg /\ i.seen = worker[w].seen
        /\ i.was = worker[w].was /\ i.out = worker[w].out /\ i.left = worker[w].left
    BY <1>0 DEF Invocations
  <2> HIDE DEF i
  <2> QED BY <1>2, <2>1, <2>2 DEF Moved, FailMigration, stores, told
<1>3. CASE FindTrusteeByNameAndState(w)
  <2> DEFINE i == [worker[w] EXCEPT !.found = todIds[TrusteeAt(w)], !.pc = "store"]
  <2>1. Moved(w, i) /\ Busy(w) /\ Kind(w) = "page"
    BY <1>3, FindTrusteeGoes
  <2>2. i.pc = "store" /\ i.msg = worker[w].msg /\ i.seen = worker[w].seen
        /\ i.was = worker[w].was /\ i.out = worker[w].out /\ i.left = worker[w].left
    BY <1>0 DEF Invocations
  <2> HIDE DEF i
  <2> QED BY <1>3, <2>1, <2>2 DEF Moved, FindTrusteeByNameAndState, stores, told
<1>4. CASE StoreTrustee(w)
  <2> DEFINE i == [worker[w] EXCEPT !.pc = "ids"]
  <2>1. Moved(w, i) /\ Busy(w) /\ Kind(w) = "page"
    BY <1>4, StoreTrusteeGoes
  <2>2. i.pc = "ids" /\ i.msg = worker[w].msg /\ i.seen = worker[w].seen
        /\ i.was = worker[w].was /\ i.out = worker[w].out /\ i.left = worker[w].left
    BY <1>0 DEF Invocations
  <2> HIDE DEF i
  <2> QED BY <1>4, <2>1, <2>2 DEF Moved, StoreTrustee, told
<1>5. CASE UpsertProfessionalIds(w) \/ GiveUpTrustee(w)
  <2> DEFINE i == [worker[w] EXCEPT !.todo = @ \ Group(w), !.found = {},
                     !.pc = IF worker[w].todo = Group(w) THEN "update" ELSE "find"]
  <2>1. Moved(w, i) /\ Busy(w) /\ Kind(w) = "page"
    BY <1>5, UpsertIdsGoes, GiveUpGoes
  <2>2. i.pc \in {"find", "update"} /\ i.msg = worker[w].msg /\ i.seen = worker[w].seen
        /\ i.was = worker[w].was /\ i.out = worker[w].out /\ i.left = worker[w].left
    BY <1>0 DEF Invocations
  <2> HIDE DEF i
  <2>3. UNCHANGED <<doc, unmatched, reported>> /\ mapped \subseteq mapped'
    BY <1>5 DEF UpsertProfessionalIds, GiveUpTrustee, stores, told
  <2> QED BY <2>1, <2>2, <2>3 DEF Moved
<1> QED BY <1>1, <1>2, <1>3, <1>4, <1>5

LEMMA PagePartCovered ==
  ASSUME KInv, HInv, NEW w \in Workers,
         \/ GetPageOfTrustees(w) \/ FailMigration(w) \/ FindTrusteeByNameAndState(w)
         \/ StoreTrustee(w) \/ UpsertProfessionalIds(w) \/ GiveUpTrustee(w)
  PROVE  HInv'
<1>1. PICK i \in Invocations :
           /\ Moved(w, i) /\ Busy(w) /\ Kind(w) = "page"
           /\ i.pc # "idle" /\ i.msg = worker[w].msg
           /\ i.seen = worker[w].seen /\ i.was = worker[w].was
           /\ UNCHANGED <<doc, unmatched, reported>> /\ mapped \subseteq mapped'
  BY PageKeeps
<1>2. Accounted \subseteq Accounted'
  BY <1>1 DEF Accounted
<1>3. worker[w].seen.heal # "none" \/ worker[w].was.heal # "none" =>
        Professionals \subseteq Accounted
  BY <1>1 DEF HInv, StatesCovered, Kind
<1> QED BY <1>1, <1>2, <1>3, CoveredMoved

LEMMA UpdatePartCovered ==
  ASSUME KInv, HInv, NEW w \in Workers, ReadExisting(w) \/ UpsertPage(w) \/ EndPage(w)
  PROVE  HInv'
<1>0. worker[w] \in Invocations
  BY KindAt
<1>1. CASE ReadExisting(w)
  <2> DEFINE i == [worker[w] EXCEPT !.was = doc, !.pc = "upsert"]
  <2>1. Moved(w, i) /\ Busy(w) /\ Kind(w) \in {"page", "healPage"}
    BY <1>1, ReadExistingGoes
  <2>2. i.pc # "idle" /\ i.msg = worker[w].msg /\ i.seen = worker[w].seen /\ i.was = doc
        /\ i.todo = worker[w].todo /\ i.out = worker[w].out
    BY <1>0 DEF Invocations
  <2>3. UNCHANGED doc /\ Accounted' = Accounted
    BY <1>1 DEF ReadExisting, Accounted, stores, told
  <2>4. Kind(w) = "page" /\ doc.heal # "none" => Professionals \subseteq Accounted
    BY <2>1, ChainAccounted
  <2>5. Kind(w) = "page" /\ worker[w].seen.heal # "none" => Professionals \subseteq Accounted
    BY <2>1 DEF HInv, StatesCovered, Kind
  <2> HIDE DEF i
  <2> QED BY <2>1, <2>2, <2>3, <2>4, <2>5, CoveredMoved
<1>2. CASE UpsertPage(w)
  <2> DEFINE i == [worker[w] EXCEPT !.pc = "return"]
  <2>1. Moved(w, i) /\ Busy(w) /\ Kind(w) = "page"
    BY <1>2, UpsertPageGoes
  <2>2. i.pc # "idle" /\ i.msg = worker[w].msg /\ i.seen = worker[w].seen /\ i.was = worker[w].was
        /\ i.todo = worker[w].todo /\ i.out = worker[w].out
    BY <1>0 DEF Invocations
  <2>3. doc' = PageState(w) /\ Accounted' = Accounted
    BY <1>2 DEF UpsertPage, Accounted, stores, told
  <2>4. worker[w].seen.heal # "none" \/ worker[w].was.heal # "none" =>
          Professionals \subseteq Accounted
    BY <2>1 DEF HInv, StatesCovered, Kind
  <2>5. doc'.heal # "none" => Professionals \subseteq Accounted
    BY <2>1, <2>3, <2>4, PageStateTyped
  <2> HIDE DEF i
  <2>6. CASE doc'.heal = "none"
    BY <2>1, <2>2, <2>3, <2>4, <2>6, CoveredMoved
  <2>7. CASE doc'.heal # "none"
    <3>1. queue' = {worker[w].msg} /\ \A v \in Workers : v # w => ~ Busy(v)'
      BY <2>1, Alone, NoneElse DEF Moved, Busy
    <3>2. worker'[w].msg.kind = "page" /\ Professionals \subseteq Accounted'
      BY <2>1, <2>2, <2>3, <2>5, <2>7 DEF Moved, Kind
    <3> QED BY <3>1, <3>2
      DEF HInv, HealingCovered, Covered, PagesCovered, StatesCovered, HealDoneCovered
  <2> QED BY <2>6, <2>7
<1>3. CASE EndPage(w)
  <2>1. Busy(w) /\ Kind(w) = "page"
    BY <1>3, EndPageEnds
  <2>2. PICK pages : Ended(w, pages) /\ \A m \in pages : m.kind = "page"
    BY <1>3, EndPageEnds
  <2>3. UNCHANGED doc /\ Accounted' = Accounted
    BY <1>3 DEF EndPage, Accounted, stores, told
  <2>4. doc.heal # "none" => Professionals \subseteq Accounted
    BY <2>1, ChainAccounted
  <2> QED BY <2>1, <2>2, <2>3, <2>4, CoveredEnded
<1> QED BY <1>1, <1>2, <1>3

LEMMA HealPartCovered ==
  ASSUME KInv, HInv, NEW w \in Workers,
         \/ ReadHealState(w) \/ HealStateUnread(w) \/ CreateHealState(w) \/ InitHealState(w)
              \/ SendHealPages(w)
  PROVE  HInv'
<1>0. worker[w] \in Invocations
  BY KindAt
<1>1. CASE ReadHealState(w)
  <2> DEFINE i == [worker[w] EXCEPT !.pc = "create"]
  <2>1. Busy(w) /\ Kind(w) = "heal" /\ UNCHANGED <<stores, doc, unmatched>>
        /\ worker[w].msg \in queue
        /\ reported' = IF doc.status = "IN_PROGRESS" THEN Professionals ELSE reported
    BY <1>1, ReadHealGoes, KindAt DEF ReadHealState
  <2>2. Accounted \subseteq Accounted'
    <3>1. reported \in SUBSET Professionals
      BY DEF KInv, MigrationTypeOK
    <3> QED BY <2>1, <3>1 DEF Accounted, stores
  <2>3. CASE Moved(w, i)
    <3>1. i.pc = "create" /\ i.msg = worker[w].msg
      BY <1>0 DEF Invocations
    <3> HIDE DEF i
    <3> QED BY <2>1, <2>2, <2>3, <3>1, CoveredMoved
  <2>4. CASE Ended(w, {}) /\ (doc.status = "IN_PROGRESS" \/ doc.heal = "COMPLETED")
    <3>1. CASE doc.status = "IN_PROGRESS"
      <4>1. Professionals \subseteq Accounted'
        BY <2>1, <3>1 DEF Accounted
      <4> QED BY <2>1, <2>4, <4>1, CoveredEnded
    <3>2. CASE doc.heal = "COMPLETED"
      <4>1. Professionals \subseteq Accounted'
        BY <2>1, <2>2, <3>2 DEF HInv, HealDoneCovered, Kind
      <4> QED BY <2>1, <2>4, <4>1, CoveredEnded
    <3> QED BY <2>4, <3>1, <3>2
  <2> QED BY <1>1, <2>3, <2>4, ReadHealGoes
<1>2. CASE HealStateUnread(w)
  <2> DEFINE i == [worker[w] EXCEPT !.pc = "create"]
  <2>1. Moved(w, i) /\ Busy(w) /\ Kind(w) = "heal"
    BY <1>2, HealStateUnreadGoes
  <2>2. i.pc = "create" /\ i.msg = worker[w].msg
    BY <1>0 DEF Invocations
  <2>3. UNCHANGED doc /\ Accounted' = Accounted
    BY <1>2 DEF HealStateUnread, Accounted, stores, told
  <2> HIDE DEF i
  <2> QED BY <2>1, <2>2, <2>3, CoveredMoved
<1>3. CASE CreateHealState(w)
  <2> DEFINE i == [worker[w] EXCEPT !.pc = "initHeal"]
  <2>1. Moved(w, i) /\ Busy(w) /\ Kind(w) = "heal"
    BY <1>3, CreateHealGoes
  <2>2. i.pc = "initHeal" /\ i.msg = worker[w].msg
    BY <1>0 DEF Invocations
  <2>3. doc'.heal \in {doc.heal, "none"} /\ Accounted' = Accounted
    BY <1>3, StatesTyped DEF CreateHealState, Accounted, stores, told
  <2> HIDE DEF i
  <2> QED BY <2>1, <2>2, <2>3, CoveredMoved
<1>4. CASE InitHealState(w)
  <2> DEFINE i == [worker[w] EXCEPT !.pc = "sendPages"]
  <2>1. Moved(w, i) /\ Busy(w) /\ Kind(w) = "heal"
    BY <1>4, InitHealGoes
  <2>2. i.pc = "sendPages" /\ i.msg = worker[w].msg
    BY <1>0 DEF Invocations
  <2>3. doc'.heal = "COMPLETED" => Professionals = {}
    BY <1>4, HealingTyped DEF InitHealState, KInv, MigrationTypeOK
  <2> HIDE DEF i
  <2> QED BY <2>1, <2>2, <2>3, WholeMoved
<1>5. CASE SendHealPages(w)
  <2>1. queue' = PageMessages /\ \A v \in Workers : ~ Busy(v)'
    <3>1. Ended(w, PageMessages) /\ Kind(w) = "heal" /\ Busy(w)
      BY <1>5, SendPagesEnds
    <3>2. queue = {worker[w].msg} /\ \A v \in Workers : v # w => ~ Busy(v)
      BY <3>1, Alone, NoneElse
    <3>3. queue' = PageMessages
      BY <3>1, <3>2 DEF Ended
    <3>4. \A v \in Workers : ~ Busy(v)'
      BY <3>1, <3>2, IdleTyped DEF Ended, Busy
    <3> QED BY <3>3, <3>4
  <2>2. sent \in Nat
    BY DEF KInv, MigrationTypeOK
  <2>3. Covered'
    <3> SUFFICES ASSUME NEW p \in Professionals PROVE \E m \in queue' : p \in About(m)
      BY DEF Covered
    <3>1. PICK page \in HealPages : p \in page
      BY PagesPartition
    <3>2. PageMessage(page).kind = "healPage" /\ PageMessage(page).records = page
      BY <2>2, PageMessageTyped
    <3> QED BY <2>1, <3>1, <3>2 DEF PageMessages, About
  <2>4. \A m \in queue' : m.kind # "heal"
    BY <2>1, <2>2, PageMessageTyped DEF PageMessages
  <2> QED BY <2>1, <2>3, <2>4
    DEF HInv, HealingCovered, PagesCovered, StatesCovered, HealDoneCovered
<1> QED BY <1>1, <1>2, <1>3, <1>4, <1>5

LEMMA RecordsPartCovered ==
  ASSUME KInv, HInv, NEW w \in Workers,
         \/ AlreadyMapped(w) \/ CreateMapping(w) \/ Unmatched(w) \/ ReEnqueueFails(w)
         \/ RecordHealPageResult(w) \/ UpsertHealPage(w) \/ RecordFails(w)
  PROVE  HInv'
<1>0. worker[w] \in Invocations
  BY KindAt
<1>1. CASE AlreadyMapped(w) \/ CreateMapping(w)
  <2> DEFINE i == [worker[w] EXCEPT !.todo = @ \ {NextRecord(w)}, !.done = @ + 1, !.out = @ \cup {}]
  <2>1. Moved(w, i) /\ Busy(w) /\ Kind(w) = "healPage"
    BY <1>1, AlreadyMappedGoes, CreateMappingGoes
  <2>2. i.pc = worker[w].pc /\ i.msg = worker[w].msg /\ i.todo = worker[w].todo \ {NextRecord(w)}
        /\ i.out = worker[w].out
    BY <1>0 DEF Invocations
  <2>3. NextRecord(w) \in mapped' /\ mapped \subseteq mapped' /\ UNCHANGED <<unmatched, reported>>
    BY <1>1 DEF AlreadyMapped, CreateMapping, stores, told
  <2>4. Accounted \subseteq Accounted' /\ NextRecord(w) \in Accounted'
    BY <2>3 DEF Accounted
  <2> HIDE DEF i
  <2> QED BY <2>1, <2>2, <2>4, PagingMoved DEF Busy
<1>2. CASE Unmatched(w)
  <2> DEFINE i == [worker[w] EXCEPT !.todo = @ \ {NextRecord(w)}, !.done = @ + 1,
                     !.out = @ \cup {NextRecord(w)}]
  <2>1. Moved(w, i) /\ Busy(w) /\ Kind(w) = "healPage"
    BY <1>2, UnmatchedGoes
  <2>2. i.pc = worker[w].pc /\ i.msg = worker[w].msg /\ i.todo = worker[w].todo \ {NextRecord(w)}
        /\ i.out = worker[w].out \cup {NextRecord(w)}
    BY <1>0 DEF Invocations
  <2>3. Accounted' = Accounted
    BY <1>2 DEF Unmatched, Accounted, stores, told
  <2> HIDE DEF i
  <2> QED BY <2>1, <2>2, <2>3, PagingMoved DEF Busy
<1>3. CASE ReEnqueueFails(w)
  <2> DEFINE i == [worker[w] EXCEPT !.done = @ + Cardinality(worker[w].todo),
                     !.out = @ \cup worker[w].todo, !.todo = {}]
  <2>1. Moved(w, i) /\ Busy(w) /\ Kind(w) = "healPage"
    BY <1>3, ReEnqueueFailsGoes
  <2>2. i.pc = worker[w].pc /\ i.msg = worker[w].msg /\ i.out = worker[w].out \cup worker[w].todo
    BY <1>0 DEF Invocations
  <2>3. Accounted' = Accounted
    BY <1>3 DEF ReEnqueueFails, Accounted, stores, told
  <2> HIDE DEF i
  <2> QED BY <2>1, <2>2, <2>3, PagingMoved DEF Busy
<1>4. CASE RecordHealPageResult(w)
  <2> DEFINE i == [worker[w] EXCEPT !.left = doc.remaining - worker[w].done, !.pc = "update"]
  <2>1. Moved(w, i) /\ Busy(w) /\ Kind(w) = "healPage"
    BY <1>4, RecordGoes
  <2>2. i.pc = "update" /\ i.msg = worker[w].msg /\ i.todo = worker[w].todo /\ i.out = worker[w].out
    BY <1>0 DEF Invocations
  <2>3. Accounted' = Accounted
    BY <1>4 DEF RecordHealPageResult, Accounted, stores, told
  <2> HIDE DEF i
  <2> QED BY <2>1, <2>2, <2>3, PagingMoved
<1>5. CASE UpsertHealPage(w) \/ RecordFails(w)
  <2> DEFINE i == [worker[w] EXCEPT !.pc = "return"]
  <2>1. Moved(w, i) /\ Busy(w) /\ Kind(w) = "healPage"
    BY <1>5, UpsertHealGoes, RecordFailsGoes
  <2>2. i.pc = "return" /\ i.msg = worker[w].msg /\ i.todo = worker[w].todo /\ i.out = worker[w].out
    BY <1>0 DEF Invocations
  <2>3. Accounted' = Accounted
    BY <1>5 DEF UpsertHealPage, RecordFails, Accounted, stores, told
  <2> HIDE DEF i
  <2> QED BY <2>1, <2>2, <2>3, PagingMoved
<1> QED BY <1>1, <1>2, <1>3, <1>4, <1>5

(* A message that leaves the queue, with all its records accounted for.    *)
LEMMA GoneCovered ==
  ASSUME KInv, KInv', HInv, NEW w \in Workers, Busy(w), worker'[w] = Idle,
         \A v \in Workers : v # w => worker'[v] = worker[v],
         queue' \in {queue, queue \ {worker[w].msg}}, Accounted \subseteq Accounted', UNCHANGED doc,
         queue' # queue =>
           \A p \in About(worker[w].msg) :
             p \in Accounted' \/ \E m \in queue' : m.id > worker[w].msg.id /\ p \in m.records
  PROVE  HInv'
<1>1. \A m \in queue' : m \in queue /\ m.id \in Nat
  BY AboutKinds
<1>2. worker[w].msg \in queue /\ worker[w].msg.id \in Nat
  BY KindAt, AboutKinds
<1>3. Covered => Covered'
  <2> SUFFICES ASSUME Covered, NEW p \in Professionals
               PROVE  p \in Accounted' \/ \E m \in queue' : p \in About(m)
    BY DEF Covered
  <2>1. CASE p \in Accounted
    BY <2>1
  <2>2. ASSUME NEW m \in queue, p \in About(m) PROVE p \in Accounted'
                 \/ \E n \in queue' : p \in About(n)
    <3>1. CASE m \in queue'
      BY <2>2, <3>1
    <3>2. CASE m \notin queue'
      <4>1. queue' # queue /\ m = worker[w].msg
        BY <3>2
      <4>2. CASE p \in Accounted'
        BY <4>2
      <4>3. ASSUME NEW n \in queue', n.id > worker[w].msg.id, p \in n.records PROVE p \in About(n)
        <5>1. n \in queue
          BY <1>1
        <5>2. n.records # {}
          BY <4>3
        <5> QED BY <4>3, <5>1, <5>2, AboutKinds DEF About
      <4> QED BY <2>2, <4>1, <4>2, <4>3
    <3> QED BY <3>1, <3>2
  <2> QED BY <2>1, <2>2 DEF Covered
<1>4. HealingCovered'
  BY <1>1, <1>3 DEF HInv, HealingCovered, HealPaging
<1>5. PagesCovered'
  <2> SUFFICES ASSUME NEW v \in Workers, Busy(v)', worker'[v].msg.kind = "healPage",
                      NEW p \in worker'[v].msg.records
               PROVE  \/ p \in worker'[v].todo \cup worker'[v].out \cup Accounted'
                      \/ \E m \in queue' : m.id > worker'[v].msg.id /\ p \in m.records
    BY DEF PagesCovered
  <2>1. v # w /\ worker'[v] = worker[v] /\ Busy(v)
    BY IdleTyped DEF Busy
  <2>2. worker[v].msg \in queue /\ worker[v].msg.id \in Nat
    BY <2>1, KindAt, AboutKinds
  <2>3. CASE p \in worker[v].todo \cup worker[v].out \cup Accounted
    BY <2>1, <2>3
  <2>4. ASSUME NEW m \in queue, m.id > worker[v].msg.id, p \in m.records
        PROVE  p \in Accounted' \/ \E n \in queue' : n.id > worker[v].msg.id /\ p \in n.records
    <3>1. CASE m \in queue'
      BY <2>4, <3>1
    <3>2. CASE m \notin queue'
      <4>1. queue' # queue /\ m = worker[w].msg
        BY <3>2
      <4>2. p \in About(m)
        <5>1. m.records # {}
          BY <2>4
        <5>2. p \in Professionals
          BY <2>4, AboutKinds
        <5> QED BY <2>4, <5>1, <5>2, AboutKinds DEF About
      <4>3. CASE p \in Accounted'
        BY <4>3
      <4>4. ASSUME NEW n \in queue', n.id > worker[w].msg.id, p \in n.records
            PROVE  n.id > worker[v].msg.id
        BY <1>1, <1>2, <2>2, <2>4, <4>1, <4>4
      <4> QED BY <4>1, <4>2, <4>3, <4>4
    <3> QED BY <3>1, <3>2
  <2> QED BY <2>1, <2>3, <2>4 DEF HInv, PagesCovered
<1>6. StatesCovered'
  <2> SUFFICES ASSUME NEW v \in Workers, Busy(v)'
               PROVE  /\ worker'[v].msg.kind = "page"
                         /\ (worker'[v].seen.heal # "none" \/ worker'[v].was.heal # "none") =>
                           Professionals \subseteq Accounted'
                      /\ worker'[v].msg.kind = "deleteAll"
                         /\ worker'[v].pc = "startPage" => doc'.heal = "none"
    BY DEF StatesCovered
  <2>1. v # w /\ worker'[v] = worker[v] /\ Busy(v)
    BY IdleTyped DEF Busy
  <2> QED BY <2>1 DEF HInv, StatesCovered
<1>7. HealDoneCovered'
  BY <1>1 DEF HInv, HealDoneCovered
<1> QED BY <1>4, <1>5, <1>6, <1>7 DEF HInv

LEMMA OverCovered ==
  ASSUME KInv, HInv, NEW w \in Workers, EndHealPage(w) \/ FailsOver(w) \/ Abort(w)
  PROVE  HInv'
<1>1. CASE EndHealPage(w)
  <2>1. Busy(w) /\ Kind(w) = "healPage" /\ Ended(w, {}) /\ KInv' /\ worker[w].todo = {}
        /\ worker[w].msg \in queue
    BY <1>1, EndHealEnds, KindAt
  <2>2. UNCHANGED <<mapped, reported, doc>> /\ unmatched' = unmatched \cup worker[w].out
    BY <1>1 DEF EndHealPage, stores
  <2>3. Accounted \subseteq Accounted' /\ worker[w].out \subseteq Accounted'
    BY <2>2 DEF Accounted
  <2>4. About(worker[w].msg) = worker[w].msg.records /\ worker[w].msg.id \in Nat
    BY <2>1, AboutKinds DEF Kind
  <2>5. worker'[w] = Idle /\ (\A v \in Workers : v # w => worker'[v] = worker[v])
        /\ queue' = queue \ {worker[w].msg}
    BY <2>1 DEF Ended
  <2>6. ASSUME NEW p \in About(worker[w].msg)
        PROVE  p \in Accounted' \/ \E m \in queue' : m.id > worker[w].msg.id /\ p \in m.records
    BY <2>1, <2>3, <2>4, <2>5 DEF HInv, PagesCovered, Kind
  <2> QED BY <2>1, <2>2, <2>3, <2>5, <2>6, GoneCovered
<1>2. CASE FailsOver(w)
  <2>1. Ended(w, {}) /\ KInv' /\ reported' = reported \cup About(worker[w].msg)
        /\ UNCHANGED <<mapped, doc, unmatched>>
    BY <1>2, FailsOverEnds
  <2>2. Accounted \subseteq Accounted' /\ About(worker[w].msg) \subseteq Accounted'
    BY <2>1 DEF Accounted
  <2>3. worker'[w] = Idle /\ (\A v \in Workers : v # w => worker'[v] = worker[v])
        /\ queue' = queue \ {worker[w].msg} /\ Busy(w)
    BY <2>1 DEF Ended
  <2> QED BY <2>1, <2>2, <2>3, GoneCovered
<1>3. CASE Abort(w)
  <2>1. KInv' /\ Busy(w) /\ worker'[w] = Idle
        /\ (\A v \in Workers : v # w => worker'[v] = worker[v])
    BY <1>3, AbortOK, AbortKeeps
  <2>2. UNCHANGED <<mapped, doc, unmatched>>
        /\ \/ UNCHANGED <<queue, reported>>
           \/ queue' = queue \ {worker[w].msg} /\ reported' = reported \cup About(worker[w].msg)
    BY <1>3 DEF Abort, stores
  <2>3. Accounted \subseteq Accounted'
        /\ (queue' # queue => About(worker[w].msg) \subseteq Accounted')
    BY <2>2 DEF Accounted
  <2> QED BY <2>1, <2>2, <2>3, GoneCovered
<1> QED BY <1>1, <1>2, <1>3

LEMMA StartCovered ==
  ASSUME KInv, HInv, NEW kind \in Orders, queue = {}, Start(kind)
  PROVE  HInv'
<1> DEFINE m == Message(sent + 1, kind, 0, {})
<1>1. queue' = {m} /\ UNCHANGED <<worker, doc, mapped, unmatched, reported>>
  BY DEF Start, stores, told
<1>2. m.kind = kind /\ kind # "healPage"
  BY DEF Message, Orders
<1>3. \A v \in Workers : ~ Busy(v)
  BY KindAt
<1>4. Accounted' = Accounted /\ \A v \in Workers : ~ Busy(v)'
  BY <1>1, <1>3 DEF Accounted, Busy
<1> HIDE DEF m
<1>5. doc.heal # "none" => Professionals \subseteq Accounted
  BY DEF HInv, HealingCovered, Covered
<1>6. HealingCovered' /\ HealDoneCovered'
  BY <1>1, <1>2, <1>4, <1>5 DEF HealingCovered, HealDoneCovered, Covered, HealPaging
<1>7. PagesCovered' /\ StatesCovered'
  BY <1>4 DEF PagesCovered, StatesCovered
<1> QED BY <1>6, <1>7 DEF HInv

(* A delivery is of the same records under the same id.                    *)
LEMMA TakenAs ==
  ASSUME KInv, NEW w \in Workers, NEW m \in queue, Take(w, m)
  PROVE  /\ \A n \in queue : \E k \in queue' : k.id = n.id /\ k.kind = n.kind
            /\ k.records = n.records /\ About(k) = About(n)
         /\ \A k \in queue' : \E n \in queue : k.id = n.id /\ k.kind = n.kind
            /\ k.records = n.records /\ k.cursor = n.cursor
BY TakeOK, DeliveredTyped

LEMMA TakeCovered ==
  ASSUME KInv, HInv, NEW w \in Workers, NEW m \in queue, Take(w, m)
  PROVE  HInv'
<1>1. /\ worker'[w] = Receiving(m) /\ (\A v \in Workers : v # w => worker'[v] = worker[v])
      /\ UNCHANGED <<doc, mapped, unmatched, reported>> /\ ~ Taken(m)
  BY TakeOK DEF Take, stores, told
<1>2. Accounted' = Accounted
  BY <1>1 DEF Accounted
<1>3. HealingCovered' /\ HealDoneCovered'
  BY <1>1, <1>2, TakenAs DEF HInv, HealingCovered, HealDoneCovered, Covered, HealPaging
<1>4. PagesCovered'
  <2> SUFFICES ASSUME NEW v \in Workers, Busy(v)', worker'[v].msg.kind = "healPage",
                      NEW p \in worker'[v].msg.records
               PROVE  \/ p \in worker'[v].todo \cup worker'[v].out \cup Accounted'
                      \/ \E k \in queue' : k.id > worker'[v].msg.id /\ p \in k.records
    BY DEF PagesCovered
  <2>1. CASE v = w
    BY <1>1, <2>1, DeliveredTyped
  <2>2. CASE v # w
    <3>1. worker'[v] = worker[v] /\ Busy(v)
      BY <1>1, <2>2 DEF Busy
    <3>2. \/ p \in worker[v].todo \cup worker[v].out \cup Accounted
          \/ \E n \in queue : n.id > worker[v].msg.id /\ p \in n.records
      BY <3>1 DEF HInv, PagesCovered
    <3>3. ASSUME NEW n \in queue, n.id > worker[v].msg.id, p \in n.records
          PROVE  \E k \in queue' : k.id > worker[v].msg.id /\ p \in k.records
      <4>1. PICK k \in queue' : k.id = n.id /\ k.records = n.records
        BY TakenAs
      <4> QED BY <3>3, <4>1
    <3> QED BY <1>2, <3>1, <3>2, <3>3
  <2> QED BY <2>1, <2>2
<1>5. StatesCovered'
  <2> SUFFICES ASSUME NEW v \in Workers, Busy(v)'
               PROVE  /\ worker'[v].msg.kind = "page"
                         /\ (worker'[v].seen.heal # "none" \/ worker'[v].was.heal # "none") =>
                           Professionals \subseteq Accounted'
                      /\ worker'[v].msg.kind = "deleteAll"
                         /\ worker'[v].pc = "startPage" => doc'.heal = "none"
    BY DEF StatesCovered
  <2>1. CASE v = w
    <3>1. worker'[v].seen.heal = "none" /\ worker'[v].was.heal = "none"
          /\ worker'[v].pc = FirstStep(m.kind)
          /\ worker'[v].msg.kind = m.kind
      BY <1>1, <2>1, DeliveredTyped, StatesTyped
    <3>2. m.kind = "deleteAll" => FirstStep(m.kind) = "deleteTrustees"
      BY DEF FirstStep
    <3> QED BY <3>1, <3>2
  <2>2. CASE v # w
    BY <1>1, <1>2, <2>2 DEF HInv, StatesCovered, Busy
  <2> QED BY <2>1, <2>2
<1> QED BY <1>3, <1>4, <1>5 DEF HInv

(* The rest of a page goes into a younger message than any.                *)
LEMMA ReEnqueueCovered ==
  ASSUME KInv, HInv, NEW w \in Workers, ReEnqueueHealPage(w)
  PROVE  HInv'
<1> DEFINE m == Message(sent + 1, "healPage", 0, worker[w].todo)
           i == [worker[w] EXCEPT !.todo = {}]
<1>1. /\ Busy(w) /\ Kind(w) = "healPage" /\ worker'[w] = i
      /\ \A v \in Workers : v # w => worker'[v] = worker[v]
  BY ReEnqueueOK
<1>2. queue' = queue \cup {m} /\ UNCHANGED <<doc, mapped, unmatched, reported>>
  BY DEF ReEnqueueHealPage, stores, told
<1>3. i.pc = worker[w].pc /\ i.msg = worker[w].msg /\ i.out = worker[w].out /\ i.todo = {}
      /\ i.seen = worker[w].seen /\ i.was = worker[w].was
  BY KindAt DEF Invocations
<1>4. m.id = sent + 1 /\ m.records = worker[w].todo /\ m.kind = "healPage"
  BY DEF Message
<1> HIDE DEF m, i
<1>5. Accounted' = Accounted
  BY <1>2 DEF Accounted
<1>6. worker[w].msg \in queue /\ worker[w].msg.id \in Nat /\ worker[w].msg.id <= sent
      /\ sent \in Nat
  BY <1>1, KindAt, AboutKinds DEF KInv, QueueOK, MigrationTypeOK
<1>7. HealPaging
  BY <1>1, <1>6 DEF HealPaging, Kind
<1>8. HealingCovered' /\ HealDoneCovered'
  BY <1>2, <1>4, <1>5, <1>7 DEF HInv, HealingCovered, HealDoneCovered, Covered
<1>9. PagesCovered'
  <2> SUFFICES ASSUME NEW v \in Workers, Busy(v)', worker'[v].msg.kind = "healPage",
                      NEW p \in worker'[v].msg.records
               PROVE  \/ p \in worker'[v].todo \cup worker'[v].out \cup Accounted'
                      \/ \E k \in queue' : k.id > worker'[v].msg.id /\ p \in k.records
    BY DEF PagesCovered
  <2>1. Busy(v) /\ worker'[v].msg = worker[v].msg /\ worker'[v].out = worker[v].out
    BY <1>1, <1>3 DEF Busy
  <2>2. \/ p \in worker[v].todo \cup worker[v].out \cup Accounted
        \/ \E n \in queue : n.id > worker[v].msg.id /\ p \in n.records
    BY <2>1 DEF HInv, PagesCovered
  <2>3. CASE v = w /\ p \in worker[v].todo
    <3>1. m.id > worker[v].msg.id /\ p \in m.records /\ m \in queue'
      BY <1>2, <1>4, <1>6, <2>3
    <3> QED BY <2>1, <3>1
  <2>4. CASE v # w
    BY <1>1, <1>2, <1>5, <2>2, <2>4
  <2> QED BY <1>2, <1>5, <2>1, <2>2, <2>3, <2>4
<1>10. StatesCovered'
  <2> SUFFICES ASSUME NEW v \in Workers, Busy(v)'
               PROVE  /\ worker'[v].msg.kind = "page"
                         /\ (worker'[v].seen.heal # "none" \/ worker'[v].was.heal # "none") =>
                           Professionals \subseteq Accounted'
                      /\ worker'[v].msg.kind = "deleteAll"
                         /\ worker'[v].pc = "startPage" => doc'.heal = "none"
    BY DEF StatesCovered
  <2>1. CASE v = w
    BY <1>1, <1>3, <2>1 DEF Kind
  <2>2. CASE v # w
    BY <1>1, <1>2, <1>5, <2>2 DEF HInv, StatesCovered, Busy
  <2> QED BY <2>1, <2>2
<1> QED BY <1>8, <1>9, <1>10 DEF HInv

LEMMA HandlerCovered ==
  ASSUME KInv, HInv, NEW w \in Workers, StartStep(w) \/ PageStep(w) \/ HealStep(w)
  PROVE  HInv'
BY Steps, StartPartCovered, PagePartCovered, UpdatePartCovered, HealPartCovered,
   RecordsPartCovered, ReEnqueueCovered, OverCovered

LEMMA HStep ==
  ASSUME KInv, HInv, [NextMigration /\ OneAtATime]_migrationVars
  PROVE  HInv'
<1>1. CASE UNCHANGED migrationVars
  <2>1. UNCHANGED <<doc, queue, worker, mapped, unmatched, reported>>
    BY <1>1 DEF migrationVars, stores, told
  <2> QED BY <2>1 DEF HInv, HealingCovered, Covered, HealPaging, PagesCovered, StatesCovered,
                      HealDoneCovered, Accounted, Busy
<1>2. ASSUME NEW kind \in Orders, Start(kind), OneAtATime PROVE HInv'
  <2>1. queue = {}
    BY <1>2 DEF Start, OneAtATime, KInv, MigrationTypeOK
  <2> QED BY <1>2, <2>1, StartCovered
<1>3. ASSUME NEW w \in Workers, NEW m \in queue, Take(w, m) PROVE HInv'
  BY <1>3, TakeCovered
<1>4. ASSUME NEW w \in Workers, StartStep(w) \/ PageStep(w) \/ HealStep(w) PROVE HInv'
  BY <1>4, HandlerCovered
<1>5. ASSUME NEW w \in Workers, Abort(w) PROVE HInv'
  BY <1>5, OverCovered
<1> QED BY <1>1, <1>2, <1>3, <1>4, <1>5 DEF NextMigration

LEMMA HInit ==
  ASSUME InitMigration
  PROVE  HInv
BY IdleTyped, StatesTyped DEF InitMigration, HInv, HealingCovered, HealPaging, PagesCovered,
   StatesCovered, HealDoneCovered, Busy

(* Once a healing has begun, no professional record is lost: it is mapped, *)
(* reported, or in a message that is still queued - however pages run side *)
(* by side, are split, abort, are delivered again or end on the DLQ.       *)
THEOREM HealingLosesNothing == AloneSpec => []HealLosesNothing
<1>1. InitMigration => KInv /\ HInv
  BY KInit, HInit
<1>2. KInv /\ HInv /\ [NextMigration /\ OneAtATime]_migrationVars => (KInv /\ HInv)'
  BY KStep, HStep
<1>3. HInv => HealLosesNothing
  BY DEF HInv, HealingCovered, Covered, Accounted, HealLosesNothing
<1> QED BY <1>1, <1>2, <1>3, PTL DEF AloneSpec

-----------------------------------------------------------------------------
(* The migration: a state that says completed tells the truth. *)

LEMMA NothingToldSound ==
  ASSUME NEW settled
  PROVE  Sound(settled, NoState) /\ Sound(settled, Fresh) /\ Reached(settled, 0)
BY RecordsAreNumbers, StatesTyped DEF Sound, Reached

LEMMA FreshInvocationSound ==
  ASSUME NEW i \in Invocations, NEW gone, NEW settled, NEW ids,
         i.seen = NoState, i.was = NoState, i.page = {}, i.pc \notin {"store", "ids"}
  PROVE  InvocationSound(i, gone, settled, ids)
BY NothingToldSound DEF InvocationSound

LEMMA SoundKept ==
  ASSUME KInv, SInv, UNCHANGED <<todIds, givenUp, deleted>>,
         ~ deleted => Sound(Settled, doc'),
         \A v \in Workers : worker'[v] = worker[v]
           \/ InvocationSound(worker'[v], deleted, Settled, todIds),
         \A m \in queue' : m.kind = "page" =>
           \/ \E n \in queue : n.kind = "page" /\ n.cursor = m.cursor
           \/ ~ deleted => Reached(Settled, m.cursor)
  PROVE  SInv'
<1>1. Settled' = Settled
  BY DEF Settled
<1>2. StatesSound'
  BY <1>1 DEF SInv, StatesSound
<1>3. InvocationsSound'
  BY <1>1 DEF SInv, InvocationsSound
<1> QED BY <1>2, <1>3 DEF SInv

(* A chain or a start that goes on does so alone.                          *)
LEMMA AloneSound ==
  ASSUME KInv, NEW w \in Workers, Busy(w), Kind(w) # "healPage", NEW i, Moved(w, i),
         i.msg = worker[w].msg,
         ~ deleted' => /\ Sound(Settled', doc')
                       /\ Kind(w) = "page" => Reached(Settled', worker[w].msg.cursor),
         InvocationSound(i, deleted', Settled', todIds')
  PROVE  SInv'
<1>1. queue' = {worker[w].msg} /\ \A v \in Workers : v # w => worker'[v] = Idle
  BY Alone DEF Moved
<1>2. StatesSound'
  BY <1>1 DEF StatesSound, Kind
<1>3. InvocationSound(Idle, deleted', Settled', todIds')
  BY IdleTyped, FreshInvocationSound
<1>4. InvocationsSound'
  BY <1>1, <1>3 DEF InvocationsSound, Moved
<1> QED BY <1>2, <1>4 DEF SInv

LEMMA StartPartSound ==
  ASSUME KInv, SInv, NEW w \in Workers,
         \/ DeleteTrustees(w) \/ DeleteProfessionalIds(w) \/ ResetMigrationState(w)
         \/ ReadState(w) \/ CreateState(w) \/ StartPage(w)
  PROVE  SInv'
<1>0. worker[w] \in Invocations /\ InvocationSound(worker[w], deleted, Settled, todIds)
  BY KindAt DEF SInv, InvocationsSound
<1>1. CASE DeleteTrustees(w)
  <2> DEFINE i == [worker[w] EXCEPT !.pc = "deleteIds"]
  <2>1. Moved(w, i) /\ Busy(w) /\ Kind(w) = "deleteAll" /\ deleted'
    BY <1>1, DeleteTrusteesGoes DEF DeleteTrustees
  <2>2. i.msg = worker[w].msg /\ i.pc = "deleteIds" /\ i.was = worker[w].was
        /\ i.seen = worker[w].seen
    BY <1>0 DEF Invocations
  <2>3. worker[w].pc # "startPage"
    BY <1>1 DEF DeleteTrustees, At
  <2> HIDE DEF i
  <2>4. InvocationSound(i, deleted', Settled', todIds')
    BY <1>0, <2>1, <2>2, <2>3 DEF InvocationSound, Kind
  <2> QED BY <2>1, <2>2, <2>4, AloneSound
<1>2. CASE DeleteProfessionalIds(w)
  <2> DEFINE i == [worker[w] EXCEPT !.pc = "resetState"]
  <2>1. Moved(w, i) /\ Busy(w) /\ Kind(w) = "deleteAll"
    BY <1>2, DeleteIdsGoes
  <2>2. i.msg = worker[w].msg /\ i.pc = "resetState" /\ i.was = worker[w].was
        /\ i.seen = worker[w].seen
    BY <1>0 DEF Invocations
  <2>3. worker[w].pc # "startPage" /\ UNCHANGED <<todIds, doc, deleted, givenUp>>
    BY <1>2 DEF DeleteProfessionalIds, At, told
  <2> HIDE DEF i
  <2>4. Settled' = Settled
    BY <2>3 DEF Settled
  <2>5. InvocationSound(i, deleted', Settled', todIds')
    BY <1>0, <2>1, <2>2, <2>3, <2>4 DEF InvocationSound, Kind
  <2> QED BY <2>1, <2>2, <2>3, <2>4, <2>5, AloneSound DEF SInv, StatesSound
<1>3. CASE ResetMigrationState(w)
  <2> DEFINE i == [worker[w] EXCEPT !.pc = "getState"]
  <2>1. Moved(w, i) /\ Busy(w) /\ Kind(w) = "deleteAll" /\ doc' = Fresh
    BY <1>3, ResetGoes DEF ResetMigrationState
  <2>2. i.msg = worker[w].msg /\ i.pc = "getState" /\ i.was = worker[w].was
        /\ i.seen = worker[w].seen
    BY <1>0 DEF Invocations
  <2>3. worker[w].pc # "startPage"
    BY <1>3 DEF ResetMigrationState, At
  <2> HIDE DEF i
  <2>4. i.was = NoState /\ i.seen = NoState
    BY <1>0, <2>1, <2>2, <2>3 DEF InvocationSound, Kind
  <2>5. InvocationSound(i, deleted', Settled', todIds') /\ Sound(Settled', doc')
    BY <2>1, <2>2, <2>4, NothingToldSound DEF InvocationSound, Kind
  <2> QED BY <2>1, <2>2, <2>5, AloneSound
<1>4. CASE ReadState(w)
  <2> DEFINE i == [worker[w] EXCEPT !.seen = doc,
                     !.pc = IF Kind(w) = "page" THEN "fetch" ELSE "startPage"]
  <2>1. Moved(w, i) /\ Busy(w) /\ Kind(w) \in {"resume", "page"} /\ worker[w].msg \in queue
    BY <1>4, ReadStateGoes, KindAt
  <2>2. i.pc \in {"fetch", "startPage"} /\ i.msg = worker[w].msg /\ i.seen = doc
        /\ i.was = worker[w].was
        /\ i.todo = worker[w].todo /\ i.page = worker[w].page
    BY <1>0 DEF Invocations
  <2>3. UNCHANGED <<todIds, doc, deleted, givenUp>>
    BY <1>4 DEF ReadState, stores, told
  <2> HIDE DEF i
  <2>4. Settled' = Settled
    BY <2>3 DEF Settled
  <2>5. InvocationSound(i, deleted', Settled', todIds')
    BY <1>0, <2>1, <2>2, <2>3, <2>4 DEF InvocationSound, Kind, SInv, StatesSound, Busy
  <2> QED BY <2>1, <2>2, <2>3, <2>4, <2>5, AloneSound DEF SInv, StatesSound, Kind
<1>5. CASE CreateState(w)
  <2> DEFINE i == [worker[w] EXCEPT !.seen = Fresh,
                     !.pc = IF Kind(w) = "page" THEN "fetch" ELSE "startPage"]
  <2>1. Moved(w, i) /\ Busy(w) /\ Kind(w) \in {"resume", "reset", "deleteAll", "page"}
        /\ worker[w].msg \in queue
    BY <1>5, CreateStateGoes, KindAt
  <2>2. i.pc = (IF Kind(w) = "page" THEN "fetch" ELSE "startPage") /\ i.msg = worker[w].msg
        /\ i.seen = Fresh /\ i.was = worker[w].was
        /\ i.todo = worker[w].todo /\ i.page = worker[w].page
    BY <1>0 DEF Invocations
  <2> HIDE DEF i
  <2>3. doc' = Fresh /\ Sound(Settled', Fresh)
    BY <1>5, NothingToldSound DEF CreateState
  <2>4. CASE Kind(w) \in {"reset", "deleteAll"}
    <3>1. i.was = NoState /\ i.pc = "startPage"
      BY <1>0, <2>2, <2>4 DEF InvocationSound, Kind
    <3>2. InvocationSound(i, deleted', Settled', todIds')
      BY <2>2, <2>3, <2>4, <3>1, NothingToldSound DEF InvocationSound, Kind
    <3> QED BY <2>1, <2>2, <2>3, <2>4, <3>2, AloneSound
  <2>5. CASE Kind(w) \in {"resume", "page"}
    <3>1. UNCHANGED <<todIds, deleted, givenUp>>
      BY <1>5, <2>5 DEF CreateState, stores
    <3>2. Settled' = Settled
      BY <3>1 DEF Settled
    <3>3. InvocationSound(i, deleted', Settled', todIds')
      BY <1>0, <2>1, <2>2, <2>3, <2>5, <3>1, <3>2 DEF InvocationSound, Kind, Busy
    <3> QED BY <2>1, <2>2, <2>3, <2>5, <3>1, <3>2, <3>3, AloneSound DEF SInv, StatesSound, Kind
  <2> QED BY <2>1, <2>4, <2>5
<1>6. CASE StartPage(w)
  <2>1. UNCHANGED <<todIds, doc, deleted, givenUp>>
    BY <1>6 DEF StartPage, stores, told
  <2>2. PICK pages : Ended(w, pages)
        /\ \A m \in pages : m.kind = "page" => m.cursor = worker[w].seen.cursor
    <3>1. CASE Ended(w, {})
      BY <3>1
    <3>2. ASSUME NEW m \in Messages, Ended(w, {m}), m.cursor = worker[w].seen.cursor
          PROVE  \E pages : Ended(w, pages)
                 /\ \A n \in pages : n.kind = "page" => n.cursor = worker[w].seen.cursor
      <4>1. \A n \in {m} : n.kind = "page" => n.cursor = worker[w].seen.cursor
        BY <3>2
      <4> QED BY <3>2, <4>1
    <3> QED BY <1>6, <3>1, <3>2, StartPageEnds
  <2>3. ~ deleted => Reached(Settled, worker[w].seen.cursor) /\ Sound(Settled, doc)
    BY <1>0 DEF InvocationSound, Sound, SInv, StatesSound
  <2>4. \A v \in Workers : worker'[v] = worker[v]
          \/ InvocationSound(worker'[v], deleted, Settled, todIds)
    BY <2>2, IdleTyped, FreshInvocationSound DEF Ended
  <2> QED BY <2>1, <2>2, <2>3, <2>4, SoundKept DEF Ended
<1> QED BY <1>1, <1>2, <1>3, <1>4, <1>5, <1>6

LEMMA NextOfPage ==
  ASSUME KInv, NEW w \in Workers
  PROVE  TrusteeAt(w) = TrusteeNext(worker[w]) /\ Group(w) = GroupNext(worker[w])
BY DEF TrusteeAt, Group, TrusteeNext, GroupNext

(* A page that ended has migrated all records up to its last.              *)
LEMMA PageReached ==
  ASSUME KInv, SInv, NEW w \in Workers, Busy(w), Kind(w) = "page",
         worker[w].pc \in Ending, ~ deleted
  PROVE  /\ worker[w].page # {} => Reached(Settled, Last(worker[w].page))
         /\ worker[w].goal = "COMPLETED" => AtsRecords \subseteq Settled
<1>1. /\ worker[w].msg \in queue /\ worker[w].msg.cursor \in Nat /\ InvocationOK(worker[w])
      /\ worker[w].page \in SUBSET AtsRecords
  BY KindAt, AboutKinds, MessageTypes, InvocationTypes DEF KInv, QueueOK
<1>2. PageInProgress(worker[w]) /\ worker[w].todo = {}
  BY <1>1 DEF InvocationOK, PageInProgress, Busy, Kind
<1>3. worker[w].page \subseteq Settled
  BY <1>2 DEF SInv, InvocationsSound, InvocationSound, Busy, Kind
<1>4. Reached(Settled, worker[w].msg.cursor)
  BY <1>1 DEF SInv, StatesSound, Kind
<1> DEFINE cursor == worker[w].msg.cursor
           page   == worker[w].page
<1>5. ASSUME page # {} PROVE Reached(Settled, Last(page))
  <2>1. page = PageAfter(cursor)
    BY <1>2, <1>5 DEF PageInProgress
  <2>2. Last(page) \in page /\ Last(page) \in Nat
    BY <1>1, <1>5, <2>1, PageFinite, LastExists
  <2> SUFFICES ASSUME NEW r \in AtsRecords, r <= Last(page) PROVE r \in Settled
    BY DEF Reached
  <2>3. CASE r <= cursor
    BY <1>4, <2>3 DEF Reached
  <2>4. CASE r > cursor
    <3>1. r \in PageAfter(cursor)
      BY <1>1, <2>1, <2>2, <2>4, PageContiguous
    <3> QED BY <1>3, <2>1, <3>1
  <2> QED BY <1>1, <2>3, <2>4, RecordsAreNumbers
<1>6. ASSUME worker[w].goal = "COMPLETED" PROVE AtsRecords \subseteq Settled
  <2>1. page = PageAfter(cursor) /\ Cardinality(page) # AtsPageSize
    BY <1>2, <1>6 DEF PageInProgress, Processing, Ending
  <2> SUFFICES ASSUME NEW r \in AtsRecords PROVE r \in Settled
    OBVIOUS
  <2>2. CASE r <= cursor
    BY <1>4, <2>2 DEF Reached
  <2>3. CASE r > cursor
    BY <1>1, <1>3, <2>1, <2>3, ShortPageIsLast
  <2> QED BY <1>1, <2>2, <2>3, RecordsAreNumbers
<1> QED BY <1>5, <1>6

(* As the records that are migrated grow, what was sound stays so.         *)
LEMMA SoundGrows ==
  ASSUME NEW settled, NEW more, settled \subseteq more, NEW state, Sound(settled, state)
  PROVE  Sound(more, state)
BY DEF Sound, Reached

LEMMA GroupPartSound ==
  ASSUME KInv, SInv, NEW w \in Workers,
         \/ GetPageOfTrustees(w) \/ FailMigration(w) \/ FindTrusteeByNameAndState(w)
         \/ StoreTrustee(w) \/ UpsertProfessionalIds(w) \/ GiveUpTrustee(w)
  PROVE  SInv'
<1>0. worker[w] \in Invocations /\ InvocationSound(worker[w], deleted, Settled, todIds)
      /\ TrusteeAt(w) = TrusteeNext(worker[w]) /\ Group(w) = GroupNext(worker[w])
  BY KindAt, NextOfPage DEF SInv, InvocationsSound
<1>1. PICK i \in Invocations :
           /\ Moved(w, i) /\ Busy(w) /\ Kind(w) = "page"
           /\ i.pc # "idle" /\ i.msg = worker[w].msg
           /\ i.seen = worker[w].seen /\ i.was = worker[w].was
           /\ UNCHANGED doc
  BY PageKeeps
<1>2. UNCHANGED deleted /\ worker[w].msg \in queue /\ worker'[w] = i /\ worker[w].pc # "idle"
      /\ worker[w].msg.kind = "page"
  BY <1>1, KindAt DEF GetPageOfTrustees, FailMigration, FindTrusteeByNameAndState, StoreTrustee,
         UpsertProfessionalIds, GiveUpTrustee, told, Moved, Busy, Kind
<1>3. ASSUME Settled \subseteq Settled',
             i.pc = "store" => i.found = todIds'[TrusteeNext(i)],
             ~ deleted => /\ i.page \ i.todo \subseteq Settled'
                          /\ i.pc = "ids" => GroupNext(i) \subseteq Settled'
      PROVE  SInv'
  <2>1. ~ deleted => /\ Sound(Settled', doc) /\ Sound(Settled', i.seen) /\ Sound(Settled', i.was)
                     /\ Reached(Settled', worker[w].msg.cursor)
    <3>1. ~ deleted => /\ Sound(Settled, doc) /\ Sound(Settled, i.seen) /\ Sound(Settled, i.was)
                       /\ Reached(Settled, worker[w].msg.cursor)
      BY <1>0, <1>1, <1>2 DEF SInv, StatesSound, InvocationSound, Kind
    <3> QED BY <1>3, <3>1, SoundGrows DEF Reached
  <2>2. InvocationSound(i, deleted', Settled', todIds')
    BY <1>1, <1>2, <1>3, <2>1 DEF InvocationSound, Kind
  <2> QED BY <1>1, <1>2, <2>1, <2>2, AloneSound
<1>4. CASE GetPageOfTrustees(w)
  <2>0. i = [worker[w] EXCEPT !.page = PageAfter(worker[w].msg.cursor),
                              !.todo = PageAfter(worker[w].msg.cursor),
                 !.goal = IF Cardinality(PageAfter(worker[w].msg.cursor)) = AtsPageSize
                          THEN "IN_PROGRESS" ELSE "COMPLETED",
                 !.pc = IF PageAfter(worker[w].msg.cursor) = {} THEN "update" ELSE "find"]
    BY <1>2, <1>4, GetPageGoes DEF Moved
  <2>1. i.todo = i.page /\ i.pc \in {"find", "update"}
    <3> DEFINE page == PageAfter(worker[w].msg.cursor)
               goal == IF Cardinality(page) = AtsPageSize THEN "IN_PROGRESS" ELSE "COMPLETED"
               pc   == IF page = {} THEN "update" ELSE "find"
    <3>1. i = [worker[w] EXCEPT !.page = page, !.todo = page, !.goal = goal, !.pc = pc]
          /\ pc \in {"find", "update"}
      BY <2>0
    <3> HIDE DEF page, goal, pc
    <3> QED BY <1>0, <3>1 DEF Invocations
  <2>2. Settled' = Settled
    BY <1>4 DEF GetPageOfTrustees, Settled, stores, told
  <2> QED BY <1>3, <2>1, <2>2
<1>5. CASE FailMigration(w)
  <2>0. i = [worker[w] EXCEPT !.page = {}, !.todo = {}, !.goal = "FAILED", !.pc = "update"]
    BY <1>2, <1>5, FailMigrationGoes DEF Moved
  <2>1. i.page = {} /\ i.pc = "update"
    BY <1>0, <2>0 DEF Invocations
  <2>2. Settled' = Settled
    BY <1>5 DEF FailMigration, Settled, stores, told
  <2> QED BY <1>3, <2>1, <2>2
<1>6. CASE FindTrusteeByNameAndState(w)
  <2>0. i = [worker[w] EXCEPT !.found = todIds[TrusteeAt(w)], !.pc = "store"]
    BY <1>2, <1>6, FindTrusteeGoes DEF Moved
  <2>1. i.page = worker[w].page /\ i.todo = worker[w].todo /\ i.pc = "store"
        /\ i.found = todIds[TrusteeAt(w)]
    BY <1>0, <2>0 DEF Invocations
  <2>2. Settled' = Settled /\ todIds' = todIds
    BY <1>6 DEF FindTrusteeByNameAndState, Settled, stores, told
  <2>3. TrusteeNext(i) = TrusteeAt(w)
    BY <1>0, <2>1 DEF TrusteeNext
  <2> QED BY <1>0, <1>2, <1>3, <2>1, <2>2, <2>3 DEF InvocationSound
<1>7. CASE StoreTrustee(w)
  <2>0. i = [worker[w] EXCEPT !.pc = "ids"]
    BY <1>2, <1>7, StoreTrusteeGoes DEF Moved
  <2>1. i.page = worker[w].page /\ i.todo = worker[w].todo /\ i.pc = "ids"
    BY <1>0, <2>0 DEF Invocations
  <2>2. todIds' = [todIds EXCEPT ![TrusteeAt(w)] = todIds[TrusteeAt(w)] \cup Group(w)]
        /\ givenUp' = givenUp
        /\ worker[w].pc = "store"
    BY <1>0, <1>2, <1>7 DEF StoreTrustee, InvocationSound, told, At
  <2>3. TrusteeAt(w) \in TrusteeNames /\ (\A r \in Group(w) : r \in AtsRecords
        /\ TrusteeOf[r] = TrusteeAt(w))
        /\ todIds \in [TrusteeNames -> SUBSET AtsRecords]
    BY <2>2, AtPage DEF KInv, MigrationTypeOK, Processing
  <2>4. \A t \in TrusteeNames : todIds[t] \subseteq todIds'[t]
    BY <2>2, <2>3
  <2>4a. Settled \subseteq Settled'
    BY <2>2, <2>3, <2>4, MigrationAssumption DEF Settled
  <2>5. Group(w) \subseteq Settled'
    BY <2>2, <2>3 DEF Settled
  <2>6. GroupNext(i) = Group(w)
    BY <1>0, <2>1 DEF GroupNext, TrusteeNext
  <2>7. ~ deleted => i.page \ i.todo \subseteq Settled'
    BY <1>0, <1>2, <2>1, <2>4a DEF InvocationSound
  <2> QED BY <1>3, <2>1, <2>4a, <2>5, <2>6, <2>7
<1>8. CASE UpsertProfessionalIds(w)
  <2>0. i = [worker[w] EXCEPT !.todo = @ \ Group(w), !.found = {},
                 !.pc = IF worker[w].todo = Group(w) THEN "update" ELSE "find"]
    BY <1>2, <1>8, UpsertIdsGoes DEF Moved
  <2>1. i.page = worker[w].page /\ i.todo = worker[w].todo \ Group(w) /\ i.pc \in {"find", "update"}
    BY <1>0, <2>0 DEF Invocations
  <2>2. Settled' = Settled /\ worker[w].pc = "ids"
    BY <1>8 DEF UpsertProfessionalIds, Settled, At, told
  <2>3. ~ deleted => i.page \ i.todo \subseteq Settled'
    BY <1>0, <1>2, <2>1, <2>2 DEF InvocationSound
  <2> QED BY <1>3, <2>1, <2>2, <2>3
<1>9. CASE GiveUpTrustee(w)
  <2>0. i = [worker[w] EXCEPT !.todo = @ \ Group(w), !.found = {},
                 !.pc = IF worker[w].todo = Group(w) THEN "update" ELSE "find"]
    BY <1>2, <1>9, GiveUpGoes DEF Moved
  <2>1. i.page = worker[w].page /\ i.todo = worker[w].todo \ Group(w) /\ i.pc \in {"find", "update"}
    BY <1>0, <2>0 DEF Invocations
  <2>2. todIds' = todIds /\ givenUp' = givenUp \cup Group(w) /\ worker[w].pc \in Processing
    BY <1>9 DEF GiveUpTrustee, stores, Processing
  <2>3. Group(w) \subseteq AtsRecords
    BY <2>2, AtPage
  <2>4. Settled \subseteq Settled' /\ Group(w) \subseteq Settled'
    BY <2>2, <2>3 DEF Settled
  <2>5. ~ deleted => i.page \ i.todo \subseteq Settled'
    BY <1>0, <1>2, <2>1, <2>4 DEF InvocationSound
  <2> QED BY <1>3, <2>1, <2>4, <2>5
<1> QED BY <1>4, <1>5, <1>6, <1>7, <1>8, <1>9

LEMMA UpdatePartSound ==
  ASSUME KInv, SInv, NEW w \in Workers, ReadExisting(w) \/ UpsertPage(w) \/ EndPage(w)
  PROVE  SInv'
<1>0. worker[w] \in Invocations /\ InvocationSound(worker[w], deleted, Settled, todIds)
  BY KindAt DEF SInv, InvocationsSound
<1>1. CASE ReadExisting(w)
  <2> DEFINE i == [worker[w] EXCEPT !.was = doc, !.pc = "upsert"]
  <2>1. worker'[w] = i /\ (\A v \in Workers : v # w => worker'[v] = worker[v]) /\ queue' = queue
        /\ Kind(w) \in {"page", "healPage"} /\ worker[w].pc # "idle"
        /\ UNCHANGED <<doc, todIds, givenUp, deleted>>
    BY <1>1, ReadExistingGoes DEF Moved, ReadExisting, At, stores, told
  <2>2. i.pc = "upsert" /\ i.msg = worker[w].msg /\ i.seen = worker[w].seen /\ i.was = doc
        /\ i.todo = worker[w].todo /\ i.page = worker[w].page
    BY <1>0 DEF Invocations
  <2> HIDE DEF i
  <2>3. InvocationSound(i, deleted, Settled, todIds)
    BY <1>0, <2>1, <2>2 DEF InvocationSound, Kind, SInv, StatesSound
  <2>4. ~ deleted => Sound(Settled, doc')
    BY <2>1 DEF SInv, StatesSound
  <2> QED BY <2>1, <2>3, <2>4, SoundKept
<1>2. CASE UpsertPage(w)
  <2> DEFINE i == [worker[w] EXCEPT !.pc = "return"]
  <2>1. worker'[w] = i /\ (\A v \in Workers : v # w => worker'[v] = worker[v]) /\ queue' = queue
        /\ Kind(w) = "page" /\ worker[w].pc \in Ending /\ Busy(w)
        /\ UNCHANGED <<todIds, givenUp, deleted>> /\ doc' = PageState(w)
    BY <1>2, UpsertPageGoes DEF Moved, UpsertPage, At, stores, told, Ending
  <2>2. i.pc = "return" /\ i.msg = worker[w].msg /\ i.seen = worker[w].seen /\ i.was = worker[w].was
        /\ i.todo = worker[w].todo /\ i.page = worker[w].page
    BY <1>0 DEF Invocations
  <2> HIDE DEF i
  <2>3. InvocationSound(i, deleted, Settled, todIds)
    BY <1>0, <2>1, <2>2 DEF InvocationSound, Kind, Busy
  <2>4. ~ deleted => Sound(Settled, doc')
    <3>1. ~ deleted => Reached(Settled, worker[w].seen.cursor)
      BY <1>0 DEF InvocationSound, Sound
    <3> QED BY <2>1, <3>1, PageReached, PageStateTyped DEF Sound
  <2> QED BY <2>1, <2>3, <2>4, SoundKept
<1>3. CASE EndPage(w)
  <2>1. UNCHANGED <<todIds, doc, deleted, givenUp>> /\ Busy(w) /\ Kind(w) = "page"
        /\ worker[w].pc \in Ending
    BY <1>3, EndPageEnds DEF EndPage, stores, told, Ending
  <2>2. ~ deleted => Sound(Settled, doc')
    BY <2>1 DEF SInv, StatesSound
  <2>3. ASSUME NEW pages, Ended(w, pages), \A m \in pages : ~ deleted => Reached(Settled, m.cursor)
        PROVE  SInv'
    <3>1. \A v \in Workers : worker'[v] = worker[v]
            \/ InvocationSound(worker'[v], deleted, Settled, todIds)
      BY <2>3, IdleTyped, FreshInvocationSound DEF Ended
    <3> QED BY <2>1, <2>2, <2>3, <3>1, SoundKept DEF Ended
  <2>4. ASSUME NEW m \in Messages, Ended(w, {m}), worker[w].page # {},
               m.cursor = Last(worker[w].page)
        PROVE  SInv'
    BY <2>1, <2>3, <2>4, PageReached
  <2> QED BY <1>3, <2>3, <2>4, EndPageEnds
<1> QED BY <1>1, <1>2, <1>3

LEMMA HealPartSound ==
  ASSUME KInv, SInv, NEW w \in Workers,
         \/ ReadHealState(w) \/ HealStateUnread(w) \/ CreateHealState(w) \/ InitHealState(w)
              \/ SendHealPages(w)
  PROVE  SInv'
<1>0. worker[w] \in Invocations /\ InvocationSound(worker[w], deleted, Settled, todIds)
      /\ doc \in States
  BY KindAt DEF SInv, InvocationsSound, KInv, MigrationTypeOK
<1>1. Busy(w) /\ Kind(w) = "heal" /\ UNCHANGED <<todIds, givenUp, deleted>>
  BY ReadHealGoes, HealStateUnreadGoes, CreateHealGoes, InitHealGoes, SendPagesEnds
     DEF ReadHealState, HealStateUnread, CreateHealState, InitHealState, SendHealPages, stores, told
<1>2. ~ deleted => Sound(Settled, doc')
  <2>1. ~ deleted => Sound(Settled, doc)
    BY DEF SInv, StatesSound
  <2>2. doc' \in {doc, Fresh, Healing(doc)}
    BY DEF ReadHealState, HealStateUnread, CreateHealState, InitHealState, SendHealPages
  <2>3. ~ deleted => Sound(Settled, Healing(doc))
    BY <1>0, <2>1, HealingTyped DEF Sound
  <2> QED BY <2>1, <2>2, <2>3, NothingToldSound
<1>3. ASSUME NEW pc, Moved(w, [worker[w] EXCEPT !.pc = pc]) PROVE SInv'
  <2> DEFINE i == [worker[w] EXCEPT !.pc = pc]
  <2>1. i.msg = worker[w].msg /\ i.seen = worker[w].seen /\ i.was = worker[w].was
    BY <1>0 DEF Invocations
  <2>2. worker'[w] = i /\ (\A v \in Workers : v # w => worker'[v] = worker[v]) /\ queue' = queue
    BY <1>3 DEF Moved
  <2> HIDE DEF i
  <2>3. InvocationSound(i, deleted, Settled, todIds)
    BY <1>0, <1>1, <2>1 DEF InvocationSound, Kind
  <2> QED BY <1>1, <1>2, <2>2, <2>3, SoundKept
<1>4. ASSUME NEW pages, Ended(w, pages), \A m \in pages : m.kind # "page" PROVE SInv'
  <2>1. \A v \in Workers : worker'[v] = worker[v]
          \/ InvocationSound(worker'[v], deleted, Settled, todIds)
    BY <1>4, IdleTyped, FreshInvocationSound DEF Ended
  <2> QED BY <1>1, <1>2, <1>4, <2>1, SoundKept DEF Ended
<1>5. CASE ReadHealState(w)
  <2>1. Ended(w, {}) => SInv'
    BY <1>4
  <2>2. Moved(w, [worker[w] EXCEPT !.pc = "create"]) => SInv'
    BY <1>3
  <2> QED BY <1>5, <2>1, <2>2, ReadHealGoes
<1>6. CASE HealStateUnread(w) \/ CreateHealState(w) \/ InitHealState(w)
  BY <1>3, <1>6, HealStateUnreadGoes, CreateHealGoes, InitHealGoes
<1>7. CASE SendHealPages(w)
  <2>1. Ended(w, PageMessages)
    BY <1>7, SendPagesEnds
  <2>2. \A m \in PageMessages : m.kind # "page"
    BY PageMessageTyped DEF PageMessages, KInv, MigrationTypeOK
  <2> QED BY <1>4, <2>1, <2>2
<1> QED BY <1>5, <1>6, <1>7

LEMMA RecordsPartSound ==
  ASSUME KInv, SInv, NEW w \in Workers,
         \/ AlreadyMapped(w) \/ CreateMapping(w) \/ Unmatched(w) \/ ReEnqueueFails(w)
         \/ RecordHealPageResult(w) \/ UpsertHealPage(w) \/ RecordFails(w) \/ ReEnqueueHealPage(w)
  PROVE  SInv'
<1>0. worker[w] \in Invocations /\ InvocationSound(worker[w], deleted, Settled, todIds)
      /\ doc \in States /\ worker[w].was \in States
  BY KindAt, InvocationTypes DEF SInv, InvocationsSound, KInv, MigrationTypeOK
<1>1. Busy(w) /\ Kind(w) = "healPage" /\ UNCHANGED <<todIds, givenUp, deleted>>
  <2>1. Busy(w) /\ Kind(w) = "healPage"
    BY AlreadyMappedGoes, CreateMappingGoes, UnmatchedGoes, ReEnqueueFailsGoes, RecordGoes,
       UpsertHealGoes, RecordFailsGoes, ReEnqueueOK
  <2>2. UNCHANGED <<todIds, givenUp, deleted>>
    BY DEF AlreadyMapped, CreateMapping, Unmatched, ReEnqueueFails, RecordHealPageResult,
      UpsertHealPage,
           RecordFails, ReEnqueueHealPage, stores, told
  <2> QED BY <2>1, <2>2
<1>2. ~ deleted => Sound(Settled, doc')
  <2>1. ~ deleted => Sound(Settled, doc) /\ Sound(Settled, worker[w].was)
    BY <1>0 DEF SInv, StatesSound, InvocationSound
  <2>2. CASE RecordHealPageResult(w)
    <3>1. doc'.cursor = doc.cursor /\ doc'.status = doc.status
      BY <1>0, <2>2 DEF RecordHealPageResult, States
    <3> QED BY <2>1, <3>1 DEF Sound
  <2>3. CASE UpsertHealPage(w)
    <3>1. doc'.cursor = worker[w].was.cursor /\ doc'.status = worker[w].was.status
      BY <1>0, <2>3 DEF UpsertHealPage, States
    <3> QED BY <2>1, <3>1 DEF Sound
  <2>4. CASE ~ RecordHealPageResult(w) /\ ~ UpsertHealPage(w)
    <3>1. doc' = doc
      BY <2>4 DEF AlreadyMapped, CreateMapping, Unmatched, ReEnqueueFails, RecordFails,
        ReEnqueueHealPage
    <3> QED BY <2>1, <3>1
  <2> QED BY <2>2, <2>3, <2>4
<1>3. worker'[w].msg = worker[w].msg /\ worker'[w].seen = worker[w].seen
      /\ worker'[w].was = worker[w].was
  <2>1. CASE AlreadyMapped(w) \/ CreateMapping(w)
    <3>1. worker'[w] = [worker[w] EXCEPT !.todo = @ \ {NextRecord(w)}, !.done = @ + 1,
                                         !.out = @ \cup {}]
      BY <2>1, AlreadyMappedGoes, CreateMappingGoes DEF Moved
    <3> QED BY <1>0, <3>1 DEF Invocations
  <2>2. CASE Unmatched(w)
    <3>1. worker'[w] = [worker[w] EXCEPT !.todo = @ \ {NextRecord(w)}, !.done = @ + 1,
                                         !.out = @ \cup {NextRecord(w)}]
      BY <2>2, UnmatchedGoes DEF Moved
    <3> QED BY <1>0, <3>1 DEF Invocations
  <2>3. CASE ReEnqueueFails(w)
    <3>1. worker'[w] = [worker[w] EXCEPT !.done = @ + Cardinality(worker[w].todo),
                                         !.out = @ \cup worker[w].todo, !.todo = {}]
      BY <2>3, ReEnqueueFailsGoes DEF Moved
    <3> QED BY <1>0, <3>1 DEF Invocations
  <2>4. CASE RecordHealPageResult(w)
    <3>1. worker'[w] = [worker[w] EXCEPT !.left = doc.remaining - worker[w].done, !.pc = "update"]
      BY <2>4, RecordGoes DEF Moved
    <3> QED BY <1>0, <3>1 DEF Invocations
  <2>5. CASE UpsertHealPage(w) \/ RecordFails(w)
    <3>1. worker'[w] = [worker[w] EXCEPT !.pc = "return"]
      BY <2>5, UpsertHealGoes, RecordFailsGoes DEF Moved
    <3> QED BY <1>0, <3>1 DEF Invocations
  <2>6. CASE ReEnqueueHealPage(w)
    <3>1. worker'[w] = [worker[w] EXCEPT !.todo = {}]
      BY <2>6, ReEnqueueOK
    <3> QED BY <1>0, <3>1 DEF Invocations
  <2> QED BY <2>1, <2>2, <2>3, <2>4, <2>5, <2>6
<1>4. InvocationSound(worker'[w], deleted, Settled, todIds)
  BY <1>0, <1>1, <1>3 DEF InvocationSound, Kind
<1>5. \A v \in Workers : v # w => worker'[v] = worker[v]
  BY AlreadyMappedGoes, CreateMappingGoes, UnmatchedGoes, ReEnqueueFailsGoes, RecordGoes,
     UpsertHealGoes, RecordFailsGoes, ReEnqueueOK DEF Moved
<1>6. \A m \in queue' : m.kind = "page" => m \in queue
  <2>1. CASE ReEnqueueHealPage(w)
    BY <2>1 DEF ReEnqueueHealPage, Message
  <2>2. CASE ~ ReEnqueueHealPage(w)
    BY <2>2 DEF AlreadyMapped, CreateMapping, Unmatched, ReEnqueueFails, RecordHealPageResult,
       UpsertHealPage, RecordFails
  <2> QED BY <2>1, <2>2
<1> QED BY <1>1, <1>2, <1>4, <1>5, <1>6, SoundKept

LEMMA OverSound ==
  ASSUME KInv, SInv, NEW w \in Workers, EndHealPage(w) \/ FailsOver(w) \/ Abort(w)
  PROVE  SInv'
<1>1. UNCHANGED <<todIds, givenUp, deleted, doc>>
  BY FailsOverEnds DEF EndHealPage, Abort, stores
<1>2. worker'[w] = Idle /\ (\A v \in Workers : v # w => worker'[v] = worker[v])
      /\ queue' \subseteq queue
  <2>1. CASE EndHealPage(w)
    BY <2>1, EndHealEnds DEF Ended
  <2>2. CASE FailsOver(w)
    BY <2>2, FailsOverEnds DEF Ended
  <2>3. CASE Abort(w)
    <3>1. queue' \subseteq queue
      BY <2>3 DEF Abort
    <3> QED BY <2>3, <3>1, AbortOK
  <2> QED BY <2>1, <2>2, <2>3
<1>3. \A v \in Workers : worker'[v] = worker[v]
        \/ InvocationSound(worker'[v], deleted, Settled, todIds)
  BY <1>2, IdleTyped, FreshInvocationSound
<1>4. ~ deleted => Sound(Settled, doc')
  BY <1>1 DEF SInv, StatesSound
<1> QED BY <1>1, <1>2, <1>3, <1>4, SoundKept

LEMMA TakeSound ==
  ASSUME KInv, SInv, NEW w \in Workers, NEW m \in queue, Take(w, m)
  PROVE  SInv'
<1>1. UNCHANGED <<todIds, givenUp, deleted, doc>>
  BY DEF Take, stores, told
<1>2. worker'[w] = Receiving(m) /\ (\A v \in Workers : v # w => worker'[v] = worker[v])
      /\ ~ Taken(m)
  BY TakeOK
<1>3. InvocationSound(Receiving(m), deleted, Settled, todIds)
  <2>1. m.kind \in Orders \cup {"page", "healPage"}
    BY <1>2, DeliveredTyped, MessageTypes
  <2>2. FirstStep(m.kind) \notin {"store", "ids"}
    BY <2>1, FirstStepping DEF Processing
  <2> QED BY <1>2, <2>2, DeliveredTyped, FreshInvocationSound
<1>4. ~ deleted => Sound(Settled, doc')
  BY <1>1 DEF SInv, StatesSound
<1>5. \A v \in Workers : worker'[v] = worker[v]
        \/ InvocationSound(worker'[v], deleted, Settled, todIds)
  BY <1>2, <1>3
<1>6. \A k \in queue' : k.kind = "page" => \E n \in queue : n.kind = "page" /\ n.cursor = k.cursor
  BY TakenAs
<1> QED BY <1>1, <1>4, <1>5, <1>6, SoundKept

LEMMA StartSound ==
  ASSUME KInv, SInv, NEW kind \in Orders, Start(kind)
  PROVE  SInv'
<1>1. UNCHANGED <<todIds, givenUp, deleted, doc, worker>>
      /\ queue' = queue \cup {Message(sent + 1, kind, 0, {})}
  BY DEF Start, stores, told
<1>2. ~ deleted => Sound(Settled, doc')
  BY <1>1 DEF SInv, StatesSound
<1>3. \A m \in queue' : m.kind = "page" => m \in queue
  BY <1>1 DEF Message, Orders
<1> QED BY <1>1, <1>2, <1>3, SoundKept

LEMMA SStep ==
  ASSUME KInv, SInv, [NextMigration /\ OneAtATime]_migrationVars
  PROVE  SInv'
<1>1. CASE UNCHANGED migrationVars
  <2>1. UNCHANGED <<doc, queue, worker, todIds, givenUp, deleted>>
    BY <1>1 DEF migrationVars, stores, told
  <2>2. ~ deleted => Sound(Settled, doc')
    BY <2>1 DEF SInv, StatesSound
  <2> QED BY <2>1, <2>2, SoundKept
<1>2. ASSUME NEW kind \in Orders, Start(kind) PROVE SInv'
  BY <1>2, StartSound
<1>3. ASSUME NEW w \in Workers, NEW m \in queue, Take(w, m) PROVE SInv'
  BY <1>3, TakeSound
<1>4. ASSUME NEW w \in Workers, StartStep(w) \/ PageStep(w) \/ HealStep(w) PROVE SInv'
  BY <1>4, Steps, StartPartSound, GroupPartSound, UpdatePartSound, HealPartSound, RecordsPartSound,
    OverSound
<1>5. ASSUME NEW w \in Workers, Abort(w) PROVE SInv'
  BY <1>5, OverSound
<1> QED BY <1>1, <1>2, <1>3, <1>4, <1>5 DEF NextMigration

(* A migration that is reported as completed left no ATS record out but    *)
(* those it gave up, wherever its chain of pages broke off, was delivered  *)
(* twice or was resumed.                                                   *)
THEOREM MigrationCompletes == AloneSpec => []CompletedIsMigrated
<1>1. InitMigration => KInv /\ SInv
  <2>1. ASSUME InitMigration PROVE SInv
    <3>1. StatesSound
      BY <2>1, NothingToldSound DEF InitMigration, StatesSound
    <3>2. InvocationsSound
      BY <2>1, IdleTyped, FreshInvocationSound DEF InitMigration, InvocationsSound
    <3> QED BY <3>1, <3>2 DEF SInv
  <2> QED BY <2>1, KInit
<1>2. KInv /\ SInv /\ [NextMigration /\ OneAtATime]_migrationVars => (KInv /\ SInv)'
  BY KStep, SStep
<1>3. SInv => CompletedIsMigrated
  BY DEF SInv, StatesSound, Sound, Settled, CompletedIsMigrated
<1> QED BY <1>1, <1>2, <1>3, PTL DEF AloneSpec

-----------------------------------------------------------------------------
(* The counter of the healing. *)

LEMMA CountsFinite ==
  ASSUME NEW at, NEW id
  PROVE  /\ IsFiniteSet(Due(at, id)) /\ IsFiniteSet(Uncounted(at))
         /\ Cardinality(Due(at, id)) \in Nat /\ Cardinality(Uncounted(at)) \in Nat
         /\ Cardinality(Uncounted(at)) = 0 <=> Uncounted(at) = {}
<1>1. IsFiniteSet(Professionals)
  BY RecordsAreNumbers
<1>2. Due(at, id) \subseteq Professionals /\ Uncounted(at) \subseteq Professionals
  BY DEF Due, Uncounted
<1>3. IsFiniteSet(Due(at, id)) /\ IsFiniteSet(Uncounted(at))
  BY <1>1, <1>2, FS_Subset
<1> QED BY <1>3, FS_CardinalityType, FS_EmptySet

LEMMA FewerUncounted ==
  ASSUME NEW at, NEW at2, Uncounted(at2) \subseteq Uncounted(at)
  PROVE  Cardinality(Uncounted(at2)) <= Cardinality(Uncounted(at))
<1>1. IsFiniteSet(Uncounted(at))
  BY CountsFinite
<1> QED BY <1>1, FS_Subset

LEMMA OtherLedger ==
  ASSUME NEW at, NEW at2, NEW i \in Invocations, NEW healed, NEW healed2, healed \subseteq healed2,
         PageLedger(at, i, healed), Uncounted(at2) \subseteq Uncounted(at),
         Due(at2, i.msg.id) = Due(at, i.msg.id)
  PROVE  PageLedger(at2, i, healed2)
<1>1. Cardinality(Uncounted(at2)) <= Cardinality(Uncounted(at))
      /\ Cardinality(Uncounted(at2)) \in Nat /\ Cardinality(Uncounted(at)) \in Nat
  BY FewerUncounted, CountsFinite
<1>2. i.left \in Int /\ i.was.remaining \in Int
  BY InvocationTypes, StateTypes
<1> QED BY <1>1, <1>2 DEF PageLedger, StateLedger

LEMMA HealedGrows ==
  ASSUME NEW w \in Workers, \A v \in Workers : v # w => worker'[v] = worker[v],
         mapped \subseteq mapped', unmatched \subseteq unmatched',
         worker[w].out \subseteq worker'[w].out \cup unmatched'
  PROVE  Healed \subseteq Healed'
<1> SUFFICES ASSUME NEW p \in Healed PROVE p \in Healed'
  OBVIOUS
<1>1. CASE p \in mapped \cup unmatched
  BY <1>1 DEF Healed
<1>2. ASSUME NEW v \in Workers, p \in worker[v].out PROVE p \in Healed'
  <2>1. p \in worker'[v].out \cup unmatched'
    BY <1>2
  <2> QED BY <2>1 DEF Healed
<1> QED BY <1>1, <1>2 DEF Healed

(* One invocation goes on; the others keep what they have in the ledger.   *)
LEMMA LedgerKept ==
  ASSUME KInv, NEW w \in Workers, \A v \in Workers : v # w => worker'[v] = worker[v],
         NEW at, NEW at2, Ledger(at), QueueLedger(at2)', Healed \subseteq Healed',
         Uncounted(at2) \subseteq Uncounted(at), StateLedger(at2, doc'),
         \A v \in Workers : v # w /\ Busy(v) /\ worker[v].msg.kind = "healPage" =>
            Due(at2, worker[v].msg.id) = Due(at, worker[v].msg.id),
         Busy(w)' /\ worker'[w].msg.kind = "healPage" => PageLedger(at2, worker'[w], Healed'),
         \A p \in Professionals : at2[p] = 0 => at[p] = 0 \/ p \in Healed'
  PROVE  Ledger(at2)'
<1>1. WorkersLedger(at2)'
  <2> SUFFICES ASSUME NEW v \in Workers, Busy(v)', worker'[v].msg.kind = "healPage"
               PROVE  PageLedger(at2, worker'[v], Healed')
    BY DEF WorkersLedger
  <2>1. CASE v = w
    BY <2>1
  <2>2. CASE v # w
    <3>1. worker'[v] = worker[v] /\ Busy(v) /\ worker[v] \in Invocations
      BY <2>2, KindAt DEF Busy
    <3>2. PageLedger(at, worker[v], Healed)
      BY <3>1 DEF Ledger, WorkersLedger
    <3> QED BY <2>2, <3>1, <3>2, OtherLedger
  <2> QED BY <2>1, <2>2
<1>2. \A p \in Professionals : at2[p] = 0 => p \in Healed'
  BY DEF Ledger
<1> QED BY <1>1, <1>2 DEF Ledger

(* What the pages of a healing do concerns them only.                      *)
LEMMA PagesOnly ==
  ASSUME KInv, NEW w \in Workers, Busy(w), Kind(w) = "healPage",
         \A v \in Workers : v # w => worker'[v] = worker[v],
         worker'[w] = Idle \/ (worker'[w].msg = worker[w].msg /\ worker'[w].pc # "sendPages")
  PROVE  KnownHealed' /\ ReadyToSend'
<1>1. \A v \in Workers : worker[v] = Idle \/ (worker[v].msg.kind = "healPage"
      /\ worker[v].pc # "sendPages")
  <2> SUFFICES ASSUME NEW v \in Workers, worker[v] # Idle
               PROVE  worker[v].msg.kind = "healPage" /\ worker[v].pc # "sendPages"
    OBVIOUS
  <2>1. Busy(v) /\ worker[v].msg \in queue
    BY KindAt
  <2>2. worker[v].msg.kind = "healPage"
    BY <2>1, OneKind
  <2> QED BY <2>2, KindAt DEF Kind
<1>2. \A v \in Workers : worker'[v] = Idle \/ (worker'[v].msg.kind = "healPage"
      /\ worker'[v].pc # "sendPages")
  BY <1>1 DEF Kind
<1>3. Idle.out = {} /\ Idle.pc = "idle" /\ Idle.msg.kind = "resume"
  BY IdleTyped
<1> QED BY <1>2, <1>3 DEF KnownHealed, ReadyToSend

LEMMA LedgerCompletes ==
  ASSUME NEW at, Ledger(at)
  PROVE  CompletedHealed
BY DEF Ledger, StateLedger, CompletedHealed, Uncounted

LEMMA PagingLedger ==
  ASSUME KInv, LCount, NEW w \in Workers, Busy(w), Kind(w) = "healPage"
  PROVE  /\ \E at \in [Professionals -> 0..sent] : Ledger(at)
         /\ worker[w].msg \in queue /\ worker[w].msg.kind = "healPage" /\ worker[w].msg.id \in Nat
<1>1. worker[w].msg \in queue /\ worker[w].msg.kind = "healPage" /\ worker[w].msg.id \in Nat
  BY KindAt, AboutKinds DEF Kind
<1> QED BY <1>1 DEF LCount, PagingCounted, HealPaging

(* A page of the healing goes on and the ledger balances.                  *)
LEMMA PagingCountedOn ==
  ASSUME KInv, LCount, NEW w \in Workers, Busy(w), Kind(w) = "healPage",
         \A v \in Workers : v # w => worker'[v] = worker[v],
         worker'[w].msg = worker[w].msg /\ worker'[w].pc # "sendPages",
         NEW at2, at2 \in [Professionals -> 0..sent'], Ledger(at2)'
  PROVE  LCount'
<1>1. PagingCounted'
  BY DEF PagingCounted
<1>2. CompletedHealed'
  BY DEF Ledger, StateLedger, CompletedHealed, Uncounted
<1> QED BY <1>1, <1>2, PagesOnly DEF LCount

(* Which messages are taken does not change while a page goes on.          *)
LEMMA SameTaken ==
  ASSUME NEW w \in Workers, Busy(w), Busy(w)', \A v \in Workers : v # w => worker'[v] = worker[v],
         worker'[w].msg = worker[w].msg
  PROVE  \A m : Taken(m)' <=> Taken(m)
<1>1. worker[w] # Idle /\ worker'[w] # Idle
  BY IdleTyped DEF Busy
<1> QED BY <1>1 DEF Taken

(* One record is processed: it is mapped, or known to be unmatched. *)
LEMMA RecordCounted ==
  ASSUME KInv, KInv', LCount, NEW w \in Workers, Busy(w), Kind(w) = "healPage",
         worker[w].pc = "records", worker[w].todo # {}, NEW out,
         Moved(w, [worker[w] EXCEPT !.todo = @ \ {NextRecord(w)}, !.done = @ + 1,
                                    !.out = @ \cup out]),
         UNCHANGED <<doc, unmatched>>, mapped \subseteq mapped', NextRecord(w) \in mapped' \cup out
  PROVE  LCount'
<1> DEFINE p == NextRecord(w)
           i == [worker[w] EXCEPT !.todo = @ \ {p}, !.done = @ + 1, !.out = @ \cup out]
<1>1. PICK at \in [Professionals -> 0..sent] : Ledger(at)
  BY PagingLedger
<1>2. worker[w] \in Invocations /\ worker[w].done \in Nat
  BY KindAt, InvocationTypes
<1>3. i.pc = "records" /\ i.msg = worker[w].msg /\ i.todo = worker[w].todo \ {p}
      /\ i.done = worker[w].done + 1 /\ i.out = worker[w].out \cup out
  BY <1>2 DEF Invocations
<1>4. worker'[w] = i /\ (\A v \in Workers : v # w => worker'[v] = worker[v]) /\ queue' = queue
      /\ sent' = sent
  BY DEF Moved
<1>5. p \in worker[w].todo /\ p \in mapped' \cup out
  BY AtPaging
<1> HIDE DEF i, p
<1>6. Healed \subseteq Healed'
  BY <1>3, <1>4, HealedGrows
<1>7. p \in Healed'
  BY <1>3, <1>4, <1>5 DEF Healed
<1>8. QueueLedger(at)'
  <2>1. \A m : Taken(m)' <=> Taken(m)
    BY <1>3, <1>4, SameTaken, IdleTyped DEF Busy
  <2> QED BY <1>1, <1>4, <2>1 DEF Ledger, QueueLedger
<1>9. PageLedger(at, i, Healed')
  <2> DEFINE due == Due(at, worker[w].msg.id)
  <2>1. worker[w].todo \subseteq due /\ worker[w].done = Cardinality(due \ worker[w].todo)
        /\ due \ worker[w].todo \subseteq Healed
    BY <1>1, KindAt DEF Ledger, WorkersLedger, PageLedger, Kind
  <2>2. IsFiniteSet(due \ worker[w].todo)
    <3>1. IsFiniteSet(due)
      BY CountsFinite
    <3> QED BY <3>1, FS_Subset
  <2> HIDE DEF due
  <2>3. due \ i.todo = (due \ worker[w].todo) \cup {p} /\ p \notin due \ worker[w].todo
    BY <1>3, <1>5, <2>1
  <2>4. Cardinality(due \ i.todo) = Cardinality(due \ worker[w].todo) + 1
    BY <2>2, <2>3, FS_AddElement
  <2>5. i.todo \subseteq due /\ i.done = Cardinality(due \ i.todo) /\ due \ i.todo \subseteq Healed'
    BY <1>3, <1>6, <1>7, <2>1, <2>3, <2>4
  <2> QED BY <1>3, <2>5 DEF PageLedger, due
<1>10. Ledger(at)'
  BY <1>1, <1>4, <1>6, <1>8, <1>9, LedgerKept DEF Ledger
<1>11. at \in [Professionals -> 0..sent']
  BY <1>1, <1>4
<1> QED BY <1>3, <1>4, <1>10, <1>11, PagingCountedOn

LEMMA ReEnqueueCounted ==
  ASSUME KInv, LCount, NEW w \in Workers, ReEnqueueHealPage(w)
  PROVE  LCount'
<1> DEFINE m == Message(sent + 1, "healPage", 0, worker[w].todo)
           i == [worker[w] EXCEPT !.todo = {}]
           id == worker[w].msg.id
<1>1. /\ Busy(w) /\ Kind(w) = "healPage" /\ worker'[w] = i
      /\ \A v \in Workers : v # w => worker'[v] = worker[v]
  BY ReEnqueueOK
<1>2. queue' = queue \cup {m} /\ UNCHANGED <<doc, mapped, unmatched>> /\ sent' = sent + 1
      /\ worker[w].pc = "records"
  BY DEF ReEnqueueHealPage, AtRecord, At, stores, told
<1>3. worker[w] \in Invocations /\ i.pc = "records" /\ i.msg = worker[w].msg
      /\ i.out = worker[w].out
      /\ i.todo = {} /\ i.done = worker[w].done
  BY <1>2, KindAt DEF Invocations
<1>4. m.id = sent + 1 /\ m.records = worker[w].todo /\ m.kind = "healPage"
  BY DEF Message
<1>5. PICK at \in [Professionals -> 0..sent] : Ledger(at)
  BY <1>1, PagingLedger
<1>6. worker[w].msg \in queue /\ worker[w].msg.kind = "healPage" /\ id \in Nat /\ id # 0
      /\ id <= sent /\ sent \in Nat /\ \A n \in queue : n.id \in Nat /\ n.id <= sent
  BY <1>1, <1>5, PagingLedger, AboutKinds DEF KInv, QueueOK, MigrationTypeOK, Ledger, QueueLedger
<1>7. worker[w].todo \subseteq Due(at, id)
      /\ worker[w].done = Cardinality(Due(at, id) \ worker[w].todo)
      /\ Due(at, id) \ worker[w].todo \subseteq Healed
  BY <1>1, <1>2, <1>5, <1>6 DEF Ledger, WorkersLedger, PageLedger
<1>8. PICK at2 : at2 = [p \in Professionals |-> IF p \in worker[w].todo THEN sent + 1 ELSE at[p]]
  OBVIOUS
<1> HIDE DEF m, i, id
<1>9. at2 \in [Professionals -> 0..sent']
  BY <1>2, <1>5, <1>6, <1>8
<1>10. Due(at2, sent + 1) = worker[w].todo
  BY <1>5, <1>6, <1>7, <1>8 DEF Due
<1>11. Due(at2, id) = Due(at, id) \ worker[w].todo
  BY <1>6, <1>8 DEF Due
<1>12. \A k \in Nat : k # id /\ k <= sent => Due(at2, k) = Due(at, k)
  <2> SUFFICES ASSUME NEW k \in Nat, k # id, k <= sent, NEW p \in Professionals
               PROVE  at2[p] = k <=> at[p] = k
    BY DEF Due
  <2>1. p \in worker[w].todo => at[p] = id
    BY <1>7 DEF Due
  <2> QED BY <1>6, <1>8, <2>1
<1>13. \A p \in Professionals : at2[p] = 0 <=> at[p] = 0
  <2> SUFFICES ASSUME NEW p \in Professionals PROVE at2[p] = 0 <=> at[p] = 0
    OBVIOUS
  <2>1. p \in worker[w].todo => at[p] = id
    BY <1>7 DEF Due
  <2> QED BY <1>6, <1>8, <2>1
<1>14. Uncounted(at2) = Uncounted(at)
  BY <1>13 DEF Uncounted
<1>15. Healed \subseteq Healed'
  BY <1>1, <1>2, <1>3, HealedGrows
<1>16. QueueLedger(at2)'
  <2>1. \A n : Taken(n)' <=> Taken(n)
    BY <1>1, <1>3, SameTaken, IdleTyped DEF Busy
  <2>2. ASSUME NEW n \in queue, n.kind = "healPage", ~ Taken(n) PROVE Due(at2, n.id) = n.records
    <3>1. n # worker[w].msg
      BY <1>1, <2>2, KindAt DEF Taken
    <3>2. n.id # id
      BY <1>6, <3>1 DEF KInv, QueueOK, id
    <3> QED BY <1>5, <1>6, <1>12, <2>2, <3>2 DEF Ledger, QueueLedger
  <2>3. \A n \in queue : n.id # 0
    BY <1>5 DEF Ledger, QueueLedger
  <2> QED BY <1>2, <1>4, <1>6, <1>10, <2>1, <2>2, <2>3 DEF QueueLedger
<1>17. \A v \in Workers : v # w /\ Busy(v) /\ worker[v].msg.kind = "healPage" =>
          Due(at2, worker[v].msg.id) = Due(at, worker[v].msg.id)
  <2> SUFFICES ASSUME NEW v \in Workers, v # w, Busy(v)
               PROVE  Due(at2, worker[v].msg.id) = Due(at, worker[v].msg.id)
    OBVIOUS
  <2>1. worker[v].msg \in queue /\ worker[v].msg # worker[w].msg
    BY <1>1, KindAt DEF KInv, QueueOK
  <2>2. worker[v].msg.id # id
    BY <1>6, <2>1 DEF KInv, QueueOK, id
  <2> QED BY <1>6, <1>12, <2>1, <2>2
<1>18. PageLedger(at2, i, Healed')
  <2>1. Due(at2, i.msg.id) = Due(at, id) \ worker[w].todo
    BY <1>3, <1>11 DEF id
  <2>2. (Due(at, id) \ worker[w].todo) \ {} = Due(at, id) \ worker[w].todo
    OBVIOUS
  <2> QED BY <1>3, <1>7, <1>15, <2>1, <2>2 DEF PageLedger
<1>19. StateLedger(at2, doc')
  BY <1>2, <1>5, <1>14 DEF Ledger, StateLedger
<1>20. Ledger(at2)'
  BY <1>1, <1>5, <1>13, <1>14, <1>15, <1>16, <1>17, <1>18, <1>19, LedgerKept
<1> QED BY <1>1, <1>3, <1>9, <1>20, PagingCountedOn

LEMMA RecordResultCounted ==
  ASSUME KInv, LCount, NEW w \in Workers, RecordHealPageResult(w)
  PROVE  LCount'
<1> DEFINE i == [worker[w] EXCEPT !.left = doc.remaining - worker[w].done, !.pc = "update"]
           id == worker[w].msg.id
<1>1. /\ Busy(w) /\ Kind(w) = "healPage" /\ worker'[w] = i /\ worker[w].todo = {}
      /\ queue' = queue /\ sent' = sent
      /\ \A v \in Workers : v # w => worker'[v] = worker[v]
  BY RecordGoes DEF Moved
<1>2. UNCHANGED <<mapped, unmatched>> /\ worker[w].pc = "records"
      /\ doc' = [doc EXCEPT !.remaining = @ - worker[w].done] /\ doc \in States
  BY DEF RecordHealPageResult, At, stores, told, KInv, MigrationTypeOK
<1>3. worker[w] \in Invocations /\ i.pc = "update" /\ i.msg = worker[w].msg /\ i.out = worker[w].out
      /\ i.left = doc.remaining - worker[w].done /\ worker[w].done \in Nat
  BY <1>2, KindAt, InvocationTypes DEF Invocations
<1>4. doc'.remaining = doc.remaining - worker[w].done /\ doc'.heal = doc.heal
      /\ doc.remaining \in Int
  BY <1>2 DEF States
<1>5. PICK at \in [Professionals -> 0..sent] : Ledger(at)
  BY <1>1, PagingLedger
<1>6. worker[w].msg \in queue /\ worker[w].msg.kind = "healPage" /\ id \in Nat /\ id # 0
  BY <1>1, <1>5, PagingLedger DEF Ledger, QueueLedger
<1>7. worker[w].done = Cardinality(Due(at, id)) /\ Due(at, id) \subseteq Healed
  <2>1. worker[w].done = Cardinality(Due(at, id) \ {}) /\ Due(at, id) \ {} \subseteq Healed
    BY <1>1, <1>2, <1>5, <1>6 DEF Ledger, WorkersLedger, PageLedger
  <2>2. Due(at, id) \ {} = Due(at, id)
    OBVIOUS
  <2> QED BY <2>1, <2>2
<1>8. PICK at2 : at2 = [p \in Professionals |-> IF at[p] = id THEN 0 ELSE at[p]]
  OBVIOUS
<1> HIDE DEF i, id
<1>9. at2 \in [Professionals -> 0..sent']
  BY <1>1, <1>5, <1>8 DEF KInv, MigrationTypeOK
<1>10. Due(at2, id) = {}
  BY <1>6, <1>8 DEF Due
<1>11. \A k \in Nat : k # id /\ k # 0 => Due(at2, k) = Due(at, k)
  BY <1>8 DEF Due
<1>12. Uncounted(at2) = Uncounted(at) \ Due(at, id) /\ Due(at, id) \subseteq Uncounted(at)
  BY <1>6, <1>8 DEF Uncounted, Due
<1>13. /\ Cardinality(Uncounted(at2)) = Cardinality(Uncounted(at)) - worker[w].done
       /\ Cardinality(Uncounted(at)) \in Nat /\ Cardinality(Uncounted(at2)) \in Nat
  <2>1. IsFiniteSet(Uncounted(at)) /\ Cardinality(Uncounted(at)) \in Nat
        /\ Cardinality(Uncounted(at2)) \in Nat
    BY CountsFinite
  <2>2. Cardinality(Uncounted(at) \ Due(at, id)) =
          Cardinality(Uncounted(at)) - Cardinality(Uncounted(at) \cap Due(at, id))
    <3>1. IsFiniteSet(Due(at, id))
      BY CountsFinite
    <3> QED BY <2>1, <3>1, FS_Difference
  <2>3. Uncounted(at) \cap Due(at, id) = Due(at, id)
    BY <1>12
  <2> QED BY <1>7, <1>12, <2>1, <2>2, <2>3
<1>14. StateLedger(at2, doc') /\ Cardinality(Uncounted(at2)) <= i.left
  <2>1. Cardinality(Uncounted(at)) <= doc.remaining
        /\ (doc.heal = "COMPLETED" => Uncounted(at) = {})
    BY <1>5 DEF Ledger, StateLedger
  <2>2. Cardinality(Uncounted(at2)) <= doc.remaining - worker[w].done
    BY <1>3, <1>4, <1>13, <2>1
  <2>3. doc'.heal = "COMPLETED" => Uncounted(at2) = {}
    BY <1>4, <1>12, <2>1
  <2> QED BY <1>3, <1>4, <2>2, <2>3 DEF StateLedger
<1>15. Healed \subseteq Healed'
  BY <1>1, <1>2, <1>3, HealedGrows
<1>16. QueueLedger(at2)'
  <2>1. \A n : Taken(n)' <=> Taken(n)
    BY <1>1, <1>3, SameTaken, IdleTyped DEF Busy
  <2>2. ASSUME NEW n \in queue, n.kind = "healPage", ~ Taken(n) PROVE Due(at2, n.id) = n.records
    <3>1. n # worker[w].msg
      BY <1>1, <2>2, KindAt DEF Taken
    <3>2. n.id # id /\ n.id # 0 /\ n.id \in Nat
      BY <1>5, <1>6, <3>1, AboutKinds DEF KInv, QueueOK, id, Ledger, QueueLedger
    <3> QED BY <1>5, <1>11, <2>2, <3>2 DEF Ledger, QueueLedger
  <2>3. \A n \in queue : n.id # 0
    BY <1>5 DEF Ledger, QueueLedger
  <2> QED BY <1>1, <2>1, <2>2, <2>3 DEF QueueLedger
<1>17. \A v \in Workers : v # w /\ Busy(v) /\ worker[v].msg.kind = "healPage" =>
          Due(at2, worker[v].msg.id) = Due(at, worker[v].msg.id)
  <2> SUFFICES ASSUME NEW v \in Workers, v # w, Busy(v)
               PROVE  Due(at2, worker[v].msg.id) = Due(at, worker[v].msg.id)
    OBVIOUS
  <2>1. worker[v].msg \in queue /\ worker[v].msg # worker[w].msg
    BY <1>1, KindAt DEF KInv, QueueOK
  <2>2. worker[v].msg.id # id /\ worker[v].msg.id # 0 /\ worker[v].msg.id \in Nat
    BY <1>5, <1>6, <2>1, AboutKinds DEF KInv, QueueOK, id, Ledger, QueueLedger
  <2> QED BY <1>11, <2>2
<1>18. PageLedger(at2, i, Healed')
  BY <1>3, <1>10, <1>14 DEF PageLedger, id
<1>19. \A p \in Professionals : at2[p] = 0 => at[p] = 0 \/ p \in Healed'
  BY <1>7, <1>8, <1>15 DEF Due
<1>20. Ledger(at2)'
  BY <1>1, <1>5, <1>12, <1>14, <1>15, <1>16, <1>17, <1>18, <1>19, LedgerKept
<1> QED BY <1>1, <1>3, <1>9, <1>20, PagingCountedOn

LEMMA UpdateCounted ==
  ASSUME KInv, LCount, NEW w \in Workers, Kind(w) = "healPage", ReadExisting(w) \/ UpsertHealPage(w)
  PROVE  LCount'
<1>0. worker[w] \in Invocations
  BY KindAt
<1>1. PICK i : /\ Busy(w) /\ worker'[w] = i /\ queue' = queue /\ sent' = sent
               /\ \A v \in Workers : v # w => worker'[v] = worker[v]
               /\ i.msg = worker[w].msg /\ i.out = worker[w].out /\ i.left = worker[w].left
               /\ \/ ReadExisting(w) /\ i.pc = "upsert" /\ i.was = doc
                  \/ UpsertHealPage(w) /\ i.pc = "return"
  <2>1. CASE ReadExisting(w)
    <3> DEFINE i == [worker[w] EXCEPT !.was = doc, !.pc = "upsert"]
    <3>1. Moved(w, i) /\ Busy(w)
      BY <2>1, ReadExistingGoes
    <3>2. i.msg = worker[w].msg /\ i.out = worker[w].out /\ i.left = worker[w].left
          /\ i.pc = "upsert" /\ i.was = doc
      BY <1>0 DEF Invocations
    <3> HIDE DEF i
    <3> QED BY <2>1, <3>1, <3>2 DEF Moved
  <2>2. CASE UpsertHealPage(w)
    <3> DEFINE i == [worker[w] EXCEPT !.pc = "return"]
    <3>1. Moved(w, i) /\ Busy(w)
      BY <2>2, UpsertHealGoes
    <3>2. i.msg = worker[w].msg /\ i.out = worker[w].out /\ i.left = worker[w].left
          /\ i.pc = "return"
      BY <1>0 DEF Invocations
    <3> HIDE DEF i
    <3> QED BY <2>2, <3>1, <3>2 DEF Moved
  <2> QED BY <2>1, <2>2
<1>2. PICK at \in [Professionals -> 0..sent] : Ledger(at)
  BY <1>1, PagingLedger
<1>3. PageLedger(at, worker[w], Healed) /\ StateLedger(at, doc)
  BY <1>1, <1>2 DEF Ledger, WorkersLedger, Kind
<1>4. UNCHANGED <<mapped, unmatched>>
  BY DEF ReadExisting, UpsertHealPage, stores, told
<1>5. Healed \subseteq Healed'
  BY <1>1, <1>4, HealedGrows
<1>6. QueueLedger(at)'
  <2>1. \A n : Taken(n)' <=> Taken(n)
    BY <1>1, SameTaken DEF Busy
  <2> QED BY <1>1, <1>2, <2>1 DEF Ledger, QueueLedger
<1>7. worker[w].was \in States /\ worker[w].left \in Int /\ Cardinality(Uncounted(at)) \in Nat
      /\ (Cardinality(Uncounted(at)) = 0 <=> Uncounted(at) = {})
  BY <1>0, InvocationTypes, CountsFinite
<1>8. PageLedger(at, i, Healed') /\ StateLedger(at, doc')
  <2>1. CASE ReadExisting(w)
    <3>1. worker[w].pc = "update" /\ doc' = doc /\ i.pc = "upsert" /\ i.was = doc
      BY <1>1, <2>1 DEF ReadExisting, UpsertHealPage, At
    <3>2. Due(at, worker[w].msg.id) = {} /\ Cardinality(Uncounted(at)) <= worker[w].left
      BY <1>3, <3>1 DEF PageLedger
    <3> QED BY <1>1, <1>3, <3>1, <3>2 DEF PageLedger
  <2>2. CASE UpsertHealPage(w)
    <3>1. worker[w].pc = "upsert" /\ i.pc = "return"
          /\ doc' = [worker[w].was EXCEPT !.heal = IF worker[w].left <= 0 THEN "COMPLETED" ELSE @]
      BY <1>1, <2>2 DEF ReadExisting, UpsertHealPage, At
    <3>2. Due(at, worker[w].msg.id) = {} /\ Cardinality(Uncounted(at)) <= worker[w].left
          /\ StateLedger(at, worker[w].was)
      BY <1>3, <3>1 DEF PageLedger
    <3>3. doc'.remaining = worker[w].was.remaining
          /\ doc'.heal = IF worker[w].left <= 0 THEN "COMPLETED" ELSE worker[w].was.heal
      BY <1>7, <3>1 DEF States
    <3>4. StateLedger(at, doc')
      BY <1>7, <3>2, <3>3 DEF StateLedger
    <3> QED BY <1>1, <3>1, <3>2, <3>4 DEF PageLedger
  <2> QED BY <2>1, <2>2
<1>9. Ledger(at)'
  BY <1>1, <1>2, <1>5, <1>6, <1>8, LedgerKept DEF Ledger
<1>10. at \in [Professionals -> 0..sent']
  BY <1>1, <1>2
<1> QED BY <1>1, <1>9, <1>10, PagingCountedOn

LEMMA EndHealCounted ==
  ASSUME KInv, LCount, NEW w \in Workers, EndHealPage(w)
  PROVE  LCount'
<1>1. /\ Busy(w) /\ Kind(w) = "healPage" /\ worker'[w] = Idle /\ queue' = queue \ {worker[w].msg}
      /\ \A v \in Workers : v # w => worker'[v] = worker[v]
      /\ worker[w].pc = "return" /\ sent' \in Nat
  BY EndHealEnds DEF Ended, KInv, MigrationTypeOK
<1>2. UNCHANGED <<mapped, doc>> /\ unmatched' = unmatched \cup worker[w].out /\ sent' = sent
  <2>1. sent' = sent + 0
    BY FS_EmptySet DEF EndHealPage, Return
  <2> QED BY <2>1 DEF EndHealPage, stores, KInv, MigrationTypeOK
<1>3. Healed \subseteq Healed'
  BY <1>1, <1>2, HealedGrows
<1>4. PICK at \in [Professionals -> 0..sent] : Ledger(at)
  BY <1>1, PagingLedger
<1>5. QueueLedger(at)'
  <2> SUFFICES ASSUME NEW m \in queue'
               PROVE  m.id # 0 /\ (m.kind = "healPage" /\ ~ Taken(m)' => Due(at, m.id) = m.records)
    BY DEF QueueLedger
  <2>1. m \in queue /\ m # worker[w].msg
    BY <1>1
  <2>2. Taken(m) => Taken(m)'
    BY <1>1, <2>1 DEF Taken
  <2> QED BY <1>4, <2>1, <2>2 DEF Ledger, QueueLedger
<1>6. Ledger(at)'
  BY <1>1, <1>2, <1>3, <1>4, <1>5, IdleTyped, LedgerKept DEF Ledger, Busy
<1>7. PagingCounted'
  BY <1>2, <1>4, <1>6 DEF PagingCounted
<1>8. CompletedHealed'
  BY <1>6 DEF Ledger, StateLedger, CompletedHealed, Uncounted
<1>9. KnownHealed' /\ ReadyToSend'
  BY <1>1, PagesOnly
<1> QED BY <1>7, <1>8, <1>9 DEF LCount

LEMMA TakeCounted ==
  ASSUME KInv, LCount, NEW w \in Workers, NEW m \in queue, Take(w, m)
  PROVE  LCount'
<1>1. /\ worker'[w] = Receiving(m) /\ (\A v \in Workers : v # w => worker'[v] = worker[v])
      /\ queue' = (queue \ {m}) \cup {Delivered(m)} /\ ~ Taken(m) /\ worker[w] = Idle
  BY TakeOK DEF Take
<1>2. UNCHANGED <<doc, mapped, unmatched, sent>>
  BY DEF Take, stores, told
<1>3. /\ m \in Messages /\ Delivered(m).id = m.id /\ Delivered(m).kind = m.kind
      /\ Receiving(m).msg = Delivered(m) /\ Receiving(m).todo = m.records
         /\ Receiving(m).pc = FirstStep(m.kind)
      /\ Receiving(m).out = {} /\ Receiving(m).done = 0 /\ Receiving(m).pc # "idle"
      /\ Receiving(m).seen = NoState /\ Receiving(m).was = NoState
      /\ m.kind \in Orders \cup {"page", "healPage"}
  BY <1>1, DeliveredTyped, MessageTypes
<1>4. FirstStep(m.kind) \notin {"update", "upsert", "sendPages"}
      /\ (m.kind = "healPage" => FirstStep(m.kind) = "records")
  BY <1>3 DEF FirstStep, Orders
<1>5. Healed' = Healed
  <2>1. \A v \in Workers : worker'[v].out = worker[v].out
    BY <1>1, <1>3, IdleTyped
  <2> QED BY <1>2, <2>1 DEF Healed
<1>6. HealPaging' => HealPaging
  BY TakenAs DEF HealPaging
<1>7. PagingCounted'
  <2> SUFFICES ASSUME HealPaging' PROVE \E at \in [Professionals -> 0..sent'] : Ledger(at)'
    BY DEF PagingCounted
  <2>1. PICK at \in [Professionals -> 0..sent] : Ledger(at)
    BY <1>6 DEF LCount, PagingCounted
  <2>2. QueueLedger(at)'
    <3> SUFFICES ASSUME NEW k \in queue'
                 PROVE  k.id # 0 /\ (k.kind = "healPage"
                        /\ ~ Taken(k)' => Due(at, k.id) = k.records)
      BY DEF QueueLedger
    <3>1. CASE k = Delivered(m)
      <4>1. Taken(k)'
        BY <1>1, <1>3, <3>1, IdleTyped DEF Taken
      <4>2. k.id # 0
        BY <1>3, <2>1, <3>1 DEF Ledger, QueueLedger
      <4> QED BY <4>1, <4>2
    <3>2. CASE k \in queue
      <4>1. Taken(k) => Taken(k)'
        BY <1>1 DEF Taken
      <4> QED BY <2>1, <3>2, <4>1 DEF Ledger, QueueLedger
    <3> QED BY <1>1, <3>1, <3>2
  <2>3. ASSUME m.kind = "healPage" PROVE PageLedger(at, Receiving(m), Healed')
    <3>1. Due(at, m.id) = m.records /\ m.records \ m.records = {}
      BY <1>1, <2>1, <2>3 DEF Ledger, QueueLedger
    <3>2. Cardinality({}) = 0
      BY FS_EmptySet
    <3> QED BY <1>3, <1>4, <2>3, <3>1, <3>2 DEF PageLedger
  <2>4. Ledger(at)'
    BY <1>1, <1>2, <1>3, <1>5, <2>1, <2>2, <2>3, LedgerKept DEF Ledger
  <2> QED BY <1>2, <2>1, <2>4
<1>8. CompletedHealed'
  BY <1>2, <1>5, TakenAs DEF LCount, CompletedHealed
<1>9. KnownHealed'
  <2> SUFFICES ASSUME NEW v \in Workers
               PROVE  /\ worker'[v].msg.kind # "healPage" => worker'[v].out = {}
                      /\ Busy(v)' /\ worker'[v].msg.kind = "page"
                         /\ "COMPLETED" \in {worker'[v].seen.heal, worker'[v].was.heal} =>
                           Professionals \subseteq mapped' \cup unmatched'
    BY DEF KnownHealed
  <2>1. CASE v = w
    BY <1>1, <1>3, <2>1, StatesTyped
  <2>2. CASE v # w
    BY <1>1, <1>2, <2>2 DEF LCount, KnownHealed, Busy
  <2> QED BY <2>1, <2>2
<1>10. ReadyToSend'
  BY <1>1, <1>2, <1>3, <1>4 DEF LCount, ReadyToSend
<1> QED BY <1>7, <1>8, <1>9, <1>10 DEF LCount

(* Who goes on alone: a chain, a start or a deletion.                      *)
LEMMA AloneCounted ==
  ASSUME KInv, LCount, NEW w \in Workers, Busy(w), Kind(w) # "healPage", NEW i, Moved(w, i),
         i.msg = worker[w].msg, i.out = worker[w].out,
         doc'.heal = "COMPLETED" =>
           Professionals \subseteq mapped' \cup unmatched' \/ Kind(w) = "deleteAll",
         Kind(w) = "page" /\ "COMPLETED" \in {i.seen.heal, i.was.heal} =>
           Professionals \subseteq mapped' \cup unmatched',
         i.pc = "sendPages" => /\ doc'.remaining = Cardinality(Professionals)
                               /\ doc'.heal = "COMPLETED" => Professionals = {}
  PROVE  LCount'
<1>1. queue' = {worker[w].msg} /\ (\A v \in Workers : v # w => worker'[v] = Idle) /\ worker'[w] = i
      /\ worker[w].msg.kind # "healPage"
  BY Alone DEF Moved, Kind
<1>2. PagingCounted'
  BY <1>1 DEF PagingCounted, HealPaging
<1>3. CompletedHealed'
  BY <1>1 DEF CompletedHealed, Healed, Kind
<1>4. KnownHealed'
  BY <1>1, IdleTyped DEF LCount, KnownHealed, Busy, Kind
<1>5. ReadyToSend'
  BY <1>1, IdleTyped DEF ReadyToSend
<1> QED BY <1>2, <1>3, <1>4, <1>5 DEF LCount

LEMMA AloneEnds ==
  ASSUME KInv, NEW w \in Workers, Busy(w), Kind(w) # "healPage", NEW pages, Ended(w, pages),
         doc'.heal = "COMPLETED" => Professionals \subseteq mapped' \cup unmatched',
         \A m \in pages : m.kind = "page"
  PROVE  LCount'
<1>1. queue' = pages /\ \A v \in Workers : worker'[v] = Idle
  BY Alone DEF Ended
<1>2. PagingCounted' /\ CompletedHealed'
  BY <1>1 DEF PagingCounted, HealPaging, CompletedHealed, Healed
<1>3. KnownHealed' /\ ReadyToSend'
  BY <1>1, IdleTyped DEF KnownHealed, ReadyToSend, Busy
<1> QED BY <1>2, <1>3 DEF LCount

(* What the state says of a healing, a chain or a start may rely on.       *)
LEMMA AloneHealed ==
  ASSUME KInv, LCount, NEW w \in Workers, Busy(w), Kind(w) # "healPage", doc.heal = "COMPLETED"
  PROVE  Professionals \subseteq mapped \cup unmatched \/ Kind(w) = "deleteAll"
<1>1. queue = {worker[w].msg} /\ \A v \in Workers : v # w => worker[v] = Idle
  BY Alone
<1>2. \A v \in Workers : worker[v].out = {}
  BY <1>1, IdleTyped DEF LCount, KnownHealed, Kind
<1>3. Healed = mapped \cup unmatched
  BY <1>2 DEF Healed
<1> QED BY <1>1, <1>3 DEF LCount, CompletedHealed, Kind

LEMMA StartPartCounted ==
  ASSUME KInv, HInv, LCount, NEW w \in Workers,
         \/ DeleteTrustees(w) \/ DeleteProfessionalIds(w) \/ ResetMigrationState(w)
         \/ ReadState(w) \/ CreateState(w) \/ StartPage(w)
  PROVE  LCount'
<1>0. worker[w] \in Invocations
  BY KindAt
<1>1. CASE DeleteTrustees(w) \/ DeleteProfessionalIds(w)
  <2>1. PICK pc \in {"deleteIds", "resetState"} :
          Moved(w, [worker[w] EXCEPT !.pc = pc]) /\ Busy(w) /\ Kind(w) = "deleteAll"
    BY <1>1, DeleteTrusteesGoes, DeleteIdsGoes
  <2> DEFINE i == [worker[w] EXCEPT !.pc = pc]
  <2>2. i.pc # "sendPages" /\ i.msg = worker[w].msg /\ i.out = worker[w].out
    BY <1>0, <2>1 DEF Invocations
  <2>3. Moved(w, i)
    BY <2>1
  <2> HIDE DEF i
  <2> QED BY <2>1, <2>2, <2>3, AloneCounted
<1>2. CASE ResetMigrationState(w)
  <2> DEFINE i == [worker[w] EXCEPT !.pc = "getState"]
  <2>1. Moved(w, i) /\ Busy(w) /\ Kind(w) = "deleteAll" /\ doc'.heal # "COMPLETED"
    BY <1>2, ResetGoes, StatesTyped DEF ResetMigrationState
  <2>2. i.pc # "sendPages" /\ i.msg = worker[w].msg /\ i.out = worker[w].out
    BY <1>0 DEF Invocations
  <2> HIDE DEF i
  <2> QED BY <2>1, <2>2, AloneCounted
<1>3. CASE ReadState(w)
  <2> DEFINE i == [worker[w] EXCEPT !.seen = doc,
                     !.pc = IF Kind(w) = "page" THEN "fetch" ELSE "startPage"]
  <2>1. Moved(w, i) /\ Busy(w) /\ Kind(w) \in {"resume", "page"}
    BY <1>3, ReadStateGoes
  <2>2. i.pc # "sendPages" /\ i.msg = worker[w].msg /\ i.out = worker[w].out /\ i.seen = doc
        /\ i.was = worker[w].was
    BY <1>0 DEF Invocations
  <2> HIDE DEF i
  <2>3. UNCHANGED <<doc, mapped, unmatched>>
    BY <1>3 DEF ReadState, stores, told
  <2>4. doc.heal = "COMPLETED" => Professionals \subseteq mapped \cup unmatched
    BY <2>1, AloneHealed
  <2>5. Kind(w) = "page"
        /\ worker[w].was.heal = "COMPLETED" => Professionals \subseteq mapped \cup unmatched
    BY <2>1 DEF LCount, KnownHealed, Kind
  <2> QED BY <2>1, <2>2, <2>3, <2>4, <2>5, AloneCounted
<1>4. CASE CreateState(w)
  <2> DEFINE i == [worker[w] EXCEPT !.seen = Fresh,
                     !.pc = IF Kind(w) = "page" THEN "fetch" ELSE "startPage"]
  <2>1. Moved(w, i) /\ Busy(w) /\ Kind(w) \in {"resume", "reset", "deleteAll", "page"}
    BY <1>4, CreateStateGoes
  <2>2. i.pc # "sendPages" /\ i.msg = worker[w].msg /\ i.out = worker[w].out
        /\ i.seen.heal # "COMPLETED"
        /\ i.was = worker[w].was
    BY <1>0, StatesTyped DEF Invocations
  <2> HIDE DEF i
  <2>3. UNCHANGED <<mapped, unmatched>> /\ doc'.heal # "COMPLETED"
    BY <1>4, StatesTyped DEF CreateState, stores
  <2>5. Kind(w) = "page"
        /\ worker[w].was.heal = "COMPLETED" => Professionals \subseteq mapped \cup unmatched
    BY <2>1 DEF LCount, KnownHealed, Kind
  <2> QED BY <2>1, <2>2, <2>3, <2>5, AloneCounted
<1>5. CASE StartPage(w)
  <2>1. Busy(w) /\ worker[w].pc = "startPage" /\ Kind(w) \in {"deleteAll", "resume", "reset"}
    BY <1>5, StartPageEnds
  <2>2. PICK pages : Ended(w, pages) /\ \A m \in pages : m.kind = "page"
    BY <1>5, StartPageEnds
  <2>3. UNCHANGED <<doc, mapped, unmatched>>
    BY <1>5 DEF StartPage, stores, told
  <2>4. Kind(w) = "deleteAll" => doc.heal = "none"
    BY <2>1 DEF HInv, StatesCovered, Kind
  <2>5. doc.heal = "COMPLETED" => Professionals \subseteq mapped \cup unmatched
    BY <2>1, <2>4, AloneHealed
  <2> QED BY <2>1, <2>2, <2>3, <2>5, AloneEnds
<1> QED BY <1>1, <1>2, <1>3, <1>4, <1>5

LEMMA PagePartCounted ==
  ASSUME KInv, LCount, NEW w \in Workers,
         \/ GetPageOfTrustees(w) \/ FailMigration(w) \/ FindTrusteeByNameAndState(w)
         \/ StoreTrustee(w) \/ UpsertProfessionalIds(w) \/ GiveUpTrustee(w)
  PROVE  LCount'
<1>1. PICK i \in Invocations :
           /\ Moved(w, i) /\ Busy(w) /\ Kind(w) = "page" /\ i.msg = worker[w].msg
           /\ i.seen = worker[w].seen /\ i.was = worker[w].was /\ i.out = worker[w].out
           /\ i.pc \in {"find", "store", "ids", "update"}
           /\ UNCHANGED <<doc, unmatched>> /\ mapped \subseteq mapped'
  BY PageKeeps
<1>2. doc.heal = "COMPLETED" => Professionals \subseteq mapped \cup unmatched
  BY <1>1, AloneHealed
<1>3. "COMPLETED" \in {i.seen.heal, i.was.heal} => Professionals \subseteq mapped \cup unmatched
  BY <1>1 DEF LCount, KnownHealed, Kind
<1> QED BY <1>1, <1>2, <1>3, AloneCounted

LEMMA UpdatePartCounted ==
  ASSUME KInv, LCount, NEW w \in Workers, ReadExisting(w) \/ UpsertPage(w) \/ EndPage(w)
  PROVE  LCount'
<1>0. worker[w] \in Invocations
  BY KindAt
<1>1. CASE ReadExisting(w)
  <2> DEFINE i == [worker[w] EXCEPT !.was = doc, !.pc = "upsert"]
  <2>1. Moved(w, i) /\ Busy(w) /\ Kind(w) \in {"page", "healPage"}
    BY <1>1, ReadExistingGoes
  <2>2. CASE Kind(w) = "healPage"
    BY <1>1, <2>2, UpdateCounted
  <2>3. CASE Kind(w) = "page"
    <3>1. i.pc # "sendPages" /\ i.msg = worker[w].msg /\ i.out = worker[w].out
          /\ i.seen = worker[w].seen
          /\ i.was = doc
      BY <1>0 DEF Invocations
    <3> HIDE DEF i
    <3>2. UNCHANGED <<doc, mapped, unmatched>>
      BY <1>1 DEF ReadExisting, stores, told
    <3>3. doc.heal = "COMPLETED" => Professionals \subseteq mapped \cup unmatched
      BY <2>1, <2>3, AloneHealed
    <3>4. worker[w].seen.heal = "COMPLETED" => Professionals \subseteq mapped \cup unmatched
      BY <2>1, <2>3 DEF LCount, KnownHealed, Kind
    <3> QED BY <2>1, <2>3, <3>1, <3>2, <3>3, <3>4, AloneCounted
  <2> QED BY <2>1, <2>2, <2>3
<1>2. CASE UpsertPage(w)
  <2> DEFINE i == [worker[w] EXCEPT !.pc = "return"]
  <2>1. Moved(w, i) /\ Busy(w) /\ Kind(w) = "page"
    BY <1>2, UpsertPageGoes
  <2>2. i.pc # "sendPages" /\ i.msg = worker[w].msg /\ i.out = worker[w].out
        /\ i.seen = worker[w].seen
        /\ i.was = worker[w].was
    BY <1>0 DEF Invocations
  <2> HIDE DEF i
  <2>3. doc' = PageState(w) /\ UNCHANGED <<mapped, unmatched>>
    BY <1>2 DEF UpsertPage, stores, told
  <2>4. "COMPLETED" \in {worker[w].seen.heal, worker[w].was.heal} =>
          Professionals \subseteq mapped \cup unmatched
    BY <2>1 DEF LCount, KnownHealed, Kind
  <2>5. doc'.heal \in {worker[w].seen.heal, worker[w].was.heal}
    BY <2>1, <2>3, PageStateTyped
  <2> QED BY <2>1, <2>2, <2>3, <2>4, <2>5, AloneCounted
<1>3. CASE EndPage(w)
  <2>1. Busy(w) /\ Kind(w) = "page"
    BY <1>3, EndPageEnds
  <2>2. PICK pages : Ended(w, pages) /\ \A m \in pages : m.kind = "page"
    BY <1>3, EndPageEnds
  <2>3. UNCHANGED <<doc, mapped, unmatched>>
    BY <1>3 DEF EndPage, stores, told
  <2>4. doc.heal = "COMPLETED" => Professionals \subseteq mapped \cup unmatched
    BY <2>1, AloneHealed
  <2> QED BY <2>1, <2>2, <2>3, <2>4, AloneEnds
<1> QED BY <1>1, <1>2, <1>3

(* The pages of a healing are queued, each record due with its page.       *)
LEMMA SendPagesCounted ==
  ASSUME KInv, LCount, NEW w \in Workers, SendHealPages(w)
  PROVE  LCount'
<1>1. Busy(w) /\ worker[w].pc = "sendPages" /\ Kind(w) = "heal" /\ Ended(w, PageMessages)
      /\ UNCHANGED <<doc, mapped, unmatched>> /\ sent \in Nat
  BY SendPagesEnds DEF SendHealPages, stores, told, KInv, MigrationTypeOK
<1>2. queue' = PageMessages /\ \A v \in Workers : worker'[v] = Idle
  BY <1>1, Alone DEF Ended
<1>3. sent' = sent + Cardinality(PageMessages)
  BY DEF SendHealPages, Return, PageMessages, PageMessage, IdOf, HealPages
<1>4. doc'.remaining = Cardinality(Professionals) /\ (doc'.heal = "COMPLETED" => Professionals = {})
  BY <1>1 DEF LCount, ReadyToSend
<1>5. PICK at : at = [p \in Professionals |-> IdOf(CHOOSE page \in HealPages : p \in page)]
  OBVIOUS
<1>6. ASSUME NEW p \in Professionals PROVE \E page \in HealPages : p \in page /\ at[p] = IdOf(page)
  <2>1. \E page \in HealPages : p \in page
    BY PagesPartition
  <2> DEFINE page == CHOOSE page \in HealPages : p \in page
  <2>2. page \in HealPages /\ p \in page
    BY <2>1
  <2>3. at[p] = IdOf(page)
    BY <1>5
  <2> QED BY <2>2, <2>3
<1>7. ASSUME NEW p \in Professionals PROVE at[p] \in 0..sent' /\ at[p] # 0
  <2>1. PICK page \in HealPages : at[p] = IdOf(page)
    BY <1>6
  <2>2. IdOf(page) \in Nat /\ sent < IdOf(page) /\ IdOf(page) = PageMessage(page).id
        /\ PageMessage(page) \in PageMessages
    BY <1>1, PageRank, PageMessageTyped DEF PageMessages
  <2>3. PageMessage(page).id <= sent + Cardinality(PageMessages)
        /\ Cardinality(PageMessages) \in Nat
    BY <1>1, <2>2, PagesSendable DEF Sendable
  <2> QED BY <1>1, <1>3, <2>1, <2>2, <2>3
<1>8. at \in [Professionals -> 0..sent']
  BY <1>5, <1>7
<1>9. ASSUME NEW page \in HealPages PROVE Due(at, IdOf(page)) = page
  <2>1. page \subseteq Professionals
    BY PagesPartition
  <2>2. ASSUME NEW p \in page PROVE at[p] = IdOf(page)
    <3>1. PICK q \in HealPages : p \in q /\ at[p] = IdOf(q)
      BY <1>6, <2>1
    <3> QED BY <3>1, PagesPartition
  <2>3. ASSUME NEW p \in Professionals, at[p] = IdOf(page) PROVE p \in page
    <3>1. PICK q \in HealPages : p \in q /\ at[p] = IdOf(q)
      BY <1>6
    <3> QED BY <1>1, <2>3, <3>1, IdsApart
  <2> QED BY <2>1, <2>2, <2>3 DEF Due
<1>10. QueueLedger(at)'
  <2> SUFFICES ASSUME NEW m \in PageMessages PROVE m.id # 0 /\ Due(at, m.id) = m.records
    BY <1>2 DEF QueueLedger
  <2>1. PICK page \in HealPages : m = PageMessage(page)
    BY DEF PageMessages
  <2>2. m.id = IdOf(page) /\ m.records = page /\ IdOf(page) \in Nat /\ sent < IdOf(page)
    BY <1>1, <2>1, PageMessageTyped, PageRank
  <2> QED BY <1>1, <1>9, <2>2
<1>11. StateLedger(at, doc')
  <2>1. Uncounted(at) \subseteq Professionals /\ IsFiniteSet(Professionals)
    BY RecordsAreNumbers DEF Uncounted
  <2>2. Cardinality(Uncounted(at)) <= Cardinality(Professionals)
    BY <2>1, FS_Subset
  <2> QED BY <1>4, <2>1, <2>2 DEF StateLedger
<1>12. Ledger(at)'
  <2>1. WorkersLedger(at)'
    BY <1>2, IdleTyped DEF WorkersLedger, Busy
  <2> QED BY <1>7, <1>10, <1>11, <2>1 DEF Ledger
<1>13. PagingCounted'
  BY <1>8, <1>12 DEF PagingCounted
<1>14. CompletedHealed'
  BY <1>4 DEF CompletedHealed
<1>15. KnownHealed' /\ ReadyToSend'
  BY <1>2, IdleTyped DEF KnownHealed, ReadyToSend, Busy
<1> QED BY <1>13, <1>14, <1>15 DEF LCount

LEMMA HealPartCounted ==
  ASSUME KInv, HInv, LCount, NEW w \in Workers, failures' = failures,
         \/ ReadHealState(w) \/ CreateHealState(w) \/ InitHealState(w) \/ SendHealPages(w)
  PROVE  LCount'
<1>0. worker[w] \in Invocations
  BY KindAt
<1>1. CASE ReadHealState(w)
  <2>1. Busy(w) /\ Kind(w) = "heal" /\ UNCHANGED <<doc, mapped, unmatched>>
    BY <1>1, ReadHealGoes DEF ReadHealState, stores
  <2>2. doc.heal = "COMPLETED" => Professionals \subseteq mapped \cup unmatched
    BY <2>1, AloneHealed
  <2>3. CASE Ended(w, {})
    BY <2>1, <2>2, <2>3, AloneEnds
  <2>4. CASE Moved(w, [worker[w] EXCEPT !.pc = "create"])
    <3> DEFINE i == [worker[w] EXCEPT !.pc = "create"]
    <3>1. i.pc # "sendPages" /\ i.msg = worker[w].msg /\ i.out = worker[w].out
      BY <1>0 DEF Invocations
    <3>2. Moved(w, i)
      BY <2>4
    <3> HIDE DEF i
    <3> QED BY <2>1, <2>2, <3>1, <3>2, AloneCounted
  <2> QED BY <1>1, <2>3, <2>4, ReadHealGoes
<1>2. CASE CreateHealState(w)
  <2> DEFINE i == [worker[w] EXCEPT !.pc = "initHeal"]
  <2>1. Moved(w, i) /\ Busy(w) /\ Kind(w) = "heal"
    BY <1>2, CreateHealGoes
  <2>2. i.pc # "sendPages" /\ i.msg = worker[w].msg /\ i.out = worker[w].out
    BY <1>0 DEF Invocations
  <2>3. doc' \in {doc, Fresh} /\ Fresh.heal # "COMPLETED" /\ UNCHANGED <<mapped, unmatched>>
    BY <1>2, StatesTyped DEF CreateHealState, stores, told
  <2>4. doc.heal = "COMPLETED" => Professionals \subseteq mapped \cup unmatched
    BY <2>1, AloneHealed
  <2> HIDE DEF i
  <2> QED BY <2>1, <2>2, <2>3, <2>4, AloneCounted
<1>3. CASE InitHealState(w)
  <2> DEFINE i == [worker[w] EXCEPT !.pc = "sendPages"]
  <2>1. Moved(w, i) /\ Busy(w) /\ Kind(w) = "heal"
    BY <1>3, InitHealGoes
  <2>2. i.msg = worker[w].msg /\ i.out = worker[w].out
    BY <1>0 DEF Invocations
  <2>3. doc'.remaining = Cardinality(Professionals)
        /\ (doc'.heal = "COMPLETED" => Professionals = {})
    BY <1>3, HealingTyped DEF InitHealState, KInv, MigrationTypeOK
  <2> HIDE DEF i
  <2> QED BY <2>1, <2>2, <2>3, AloneCounted
<1>4. CASE SendHealPages(w)
  BY <1>4, SendPagesCounted
<1> QED BY <1>1, <1>2, <1>3, <1>4

LEMMA RecordsPartCounted ==
  ASSUME KInv, LCount, NEW w \in Workers, failures = 0, failures' = 0,
         \/ AlreadyMapped(w) \/ CreateMapping(w) \/ Unmatched(w)
         \/ RecordHealPageResult(w) \/ UpsertHealPage(w) \/ ReEnqueueHealPage(w) \/ EndHealPage(w)
  PROVE  LCount'
<1>1. CASE AlreadyMapped(w) \/ CreateMapping(w)
  <2>1. /\ Moved(w, [worker[w] EXCEPT !.todo = @ \ {NextRecord(w)}, !.done = @ + 1,
                                      !.out = @ \cup {}])
        /\ Busy(w) /\ Kind(w) = "healPage" /\ worker[w].todo # {} /\ KInv'
    BY <1>1, AlreadyMappedGoes, CreateMappingGoes
  <2>2. UNCHANGED <<doc, unmatched>> /\ mapped \subseteq mapped' /\ NextRecord(w) \in mapped'
        /\ worker[w].pc = "records"
    BY <1>1 DEF AlreadyMapped, CreateMapping, AtRecord, At, stores, told
  <2> QED BY <2>1, <2>2, RecordCounted
<1>2. CASE Unmatched(w)
  <2>1. /\ Moved(w, [worker[w] EXCEPT !.todo = @ \ {NextRecord(w)}, !.done = @ + 1,
                                      !.out = @ \cup {NextRecord(w)}])
        /\ Busy(w) /\ Kind(w) = "healPage" /\ worker[w].todo # {} /\ KInv'
    BY <1>2, UnmatchedGoes
  <2>2. UNCHANGED <<doc, unmatched, mapped>> /\ worker[w].pc = "records"
    BY <1>2 DEF Unmatched, AtRecord, At, stores, told
  <2> QED BY <2>1, <2>2, RecordCounted
<1>3. CASE RecordHealPageResult(w)
  BY <1>3, RecordResultCounted
<1>4. CASE UpsertHealPage(w)
  BY <1>4, UpsertHealGoes, UpdateCounted
<1>5. CASE ReEnqueueHealPage(w)
  BY <1>5, ReEnqueueCounted
<1>6. CASE EndHealPage(w)
  BY <1>6, EndHealCounted
<1> QED BY <1>1, <1>2, <1>3, <1>4, <1>5, <1>6

LEMMA StartCounted ==
  ASSUME KInv, LCount, NEW kind \in Orders, queue = {}, Start(kind)
  PROVE  LCount'
<1>1. queue' = {Message(sent + 1, kind, 0, {})} /\ UNCHANGED <<worker, doc, mapped, unmatched>>
      /\ Message(sent + 1, kind, 0, {}).kind # "healPage"
  BY DEF Start, stores, told, Message, Orders
<1>2. PagingCounted'
  BY <1>1 DEF PagingCounted, HealPaging
<1>3. CompletedHealed'
  BY <1>1 DEF LCount, CompletedHealed, Healed
<1>4. KnownHealed' /\ ReadyToSend'
  BY <1>1 DEF LCount, KnownHealed, ReadyToSend, Busy
<1> QED BY <1>2, <1>3, <1>4 DEF LCount

LEMMA FailuresCount ==
  ASSUME KInv, NextMigration, failures' = 0
  PROVE  failures = 0
<1>1. failures \in Nat
  BY MigrationAssumption DEF KInv, MigrationTypeOK
<1>2. failures' = failures \/ failures' = failures + 1
  <2>1. ASSUME NEW kind \in Orders, Start(kind) PROVE failures' = failures
    BY <2>1 DEF Start
  <2>2. ASSUME NEW w \in Workers, NEW m \in queue, Take(w, m) PROVE failures' = failures
    BY <2>2 DEF Take
  <2>3. ASSUME NEW w \in Workers, StartStep(w)
        PROVE  failures' = failures \/ failures' = failures + 1
    BY <2>3 DEF StartStep, DeleteTrustees, DeleteProfessionalIds, ResetMigrationState, DeleteFails,
       ReadState, CreateState, StateFails, StartPage, PutOnDlq, Fails
  <2>4. ASSUME NEW w \in Workers, PageStep(w) PROVE failures' = failures \/ failures' = failures + 1
    BY <2>4 DEF PageStep, GetPageOfTrustees, GetPageFails, FailMigration, FindTrusteeByNameAndState,
       StoreTrustee, UpsertProfessionalIds, GiveUpTrustee, ReadExisting, UpsertPage,
         UpdatePageFails,
       EndPage, PutOnDlq, Fails
  <2>5. ASSUME NEW w \in Workers, HealStep(w) PROVE failures' = failures \/ failures' = failures + 1
    BY <2>5 DEF HealStep, ReadHealState, HealStateUnread, CreateHealState, InitHealState, HealFails,
       SendHealPages, BackfillFails, AlreadyMapped, CreateMapping, Unmatched, ReEnqueueHealPage,
       ReEnqueueFails, RecordHealPageResult, UpsertHealPage, RecordFails, EndHealPage, PutOnDlq,
         Fails
  <2>6. ASSUME NEW w \in Workers, Abort(w) PROVE failures' = failures + 1
    BY <2>6 DEF Abort, Fails
  <2> QED BY <2>1, <2>2, <2>3, <2>4, <2>5, <2>6 DEF NextMigration
<1> QED BY <1>1, <1>2

LEMMA HandlerCounted ==
  ASSUME KInv, HInv, LCount, NEW w \in Workers, StartStep(w) \/ PageStep(w) \/ HealStep(w),
         failures = 0, failures' = 0
  PROVE  LCount'
<1>1. ~ FailsOver(w) /\ ~ Fails
  BY FailsOverEnds, FailsOK
<1>2. ~ HealStateUnread(w) /\ ~ ReEnqueueFails(w) /\ ~ RecordFails(w)
  BY <1>1 DEF HealStateUnread, ReEnqueueFails, RecordFails
<1> QED BY <1>1, <1>2, Steps, StartPartCounted, PagePartCounted, UpdatePartCounted, HealPartCounted,
           RecordsPartCounted

LEMMA LStep ==
  ASSUME KInv, HInv, LInv, [NextMigration /\ OneAtATime]_migrationVars
  PROVE  LInv'
<1> SUFFICES ASSUME failures' = 0 PROVE LCount'
  BY DEF LInv
<1>1. CASE UNCHANGED migrationVars
  <2>1. UNCHANGED <<doc, queue, worker, mapped, unmatched, failures, sent>>
    BY <1>1 DEF migrationVars, stores, told
  <2>2. LCount
    BY <2>1 DEF LInv
  <2>3. PagingCounted'
    <3> SUFFICES ASSUME HealPaging' PROVE \E at \in [Professionals -> 0..sent'] : Ledger(at)'
      BY DEF PagingCounted
    <3>1. PICK at \in [Professionals -> 0..sent] : Ledger(at)
      BY <2>1, <2>2 DEF LCount, PagingCounted, HealPaging
    <3>2. QueueLedger(at)'
      BY <2>1, <3>1 DEF Ledger, QueueLedger, Taken
    <3>3. Healed' = Healed
      BY <2>1 DEF Healed
    <3>4. WorkersLedger(at)'
      BY <2>1, <3>1, <3>3 DEF Ledger, WorkersLedger, Busy
    <3>5. Ledger(at)'
      BY <2>1, <3>1, <3>2, <3>3, <3>4 DEF Ledger
    <3> QED BY <2>1, <3>1, <3>5
  <2> QED BY <2>1, <2>2, <2>3 DEF LCount, CompletedHealed, KnownHealed, ReadyToSend, Healed, Busy
<1>2. CASE NextMigration /\ OneAtATime
  <2>1. LCount /\ failures = 0
    BY <1>2, FailuresCount DEF LInv
  <2>2. ASSUME NEW kind \in Orders, Start(kind), OneAtATime PROVE LCount'
    <3>1. queue = {}
      BY <2>2 DEF Start, OneAtATime, KInv, MigrationTypeOK
    <3> QED BY <2>1, <2>2, <3>1, StartCounted
  <2>3. ASSUME NEW w \in Workers, NEW m \in queue, Take(w, m) PROVE LCount'
    BY <2>1, <2>3, TakeCounted
  <2>4. ASSUME NEW w \in Workers, StartStep(w) \/ PageStep(w) \/ HealStep(w) PROVE LCount'
    BY <2>1, <2>4, HandlerCounted
  <2>5. ASSUME NEW w \in Workers, Abort(w) PROVE LCount'
    BY <2>5, FailsOK DEF Abort
  <2> QED BY <1>2, <2>2, <2>3, <2>4, <2>5 DEF NextMigration
<1> QED BY <1>1, <1>2

LEMMA LInit ==
  ASSUME InitMigration
  PROVE  LInv
BY IdleTyped, StatesTyped DEF InitMigration, LInv, LCount, PagingCounted, HealPaging,
   CompletedHealed, KnownHealed, ReadyToSend, Busy

(* As long as no call fails and no invocation stops, the counter of the    *)
(* healing never runs ahead of its records: it reports the healing as      *)
(* completed only when every one was mapped or found unmatched, in         *)
(* whatever order its pages count, re-enqueue and write the state.         *)
THEOREM CompletedHealingIsDone == AloneSpec => []HealedIsHealed
<1>1. InitMigration => KInv /\ HInv /\ LInv
  BY KInit, HInit, LInit
<1>2. KInv /\ HInv /\ LInv /\ [NextMigration /\ OneAtATime]_migrationVars => (KInv /\ HInv /\ LInv)'
  BY KStep, HStep, LStep
<1>3. LInv => HealedIsHealed
  BY DEF LInv, LCount, CompletedHealed, Healed, HealedIsHealed
<1> QED BY <1>1, <1>2, <1>3, PTL DEF AloneSpec

-----------------------------------------------------------------------------
(* The healing with one invocation at a time. *)

LEMMA WaitingFinite ==
  ASSUME KInv
  PROVE  /\ Waiting \in SUBSET Professionals /\ IsFiniteSet(Waiting)
         /\ Cardinality(Waiting) \in Nat /\ (Cardinality(Waiting) = 0 <=> Waiting = {})
<1>1. \A m \in WaitingPages : m.records \subseteq Professionals
  BY AboutKinds DEF WaitingPages
<1>2. Waiting \in SUBSET Professionals
  BY <1>1 DEF Waiting
<1>3. IsFiniteSet(Waiting)
  BY <1>2, RecordsAreNumbers, FS_Subset
<1> QED BY <1>2, <1>3, FS_CardinalityType, FS_EmptySet

LEMMA TogetherCounted ==
  ASSUME NEW S, NEW T, IsFiniteSet(S), IsFiniteSet(T), S \cap T = {}
  PROVE  /\ IsFiniteSet(S \cup T)
         /\ Cardinality(S \cup T) = Cardinality(S) + Cardinality(T)
         /\ Cardinality(S) \in Nat /\ Cardinality(T) \in Nat
<1>1. Cardinality(S \cap T) = 0
  BY FS_EmptySet
<1>2. Cardinality(S) \in Nat /\ Cardinality(T) \in Nat
  BY FS_CardinalityType
<1>3. IsFiniteSet(S \cup T)
      /\ Cardinality(S \cup T) = Cardinality(S) + Cardinality(T) - Cardinality(S \cap T)
  BY FS_Union
<1> QED BY <1>1, <1>2, <1>3

(* While an invocation goes on, the same pages are waiting.                *)
LEMMA WaitingKept ==
  ASSUME KInv, NEW w \in Workers, Busy(w), NEW i, Moved(w, i), i.pc # "idle",
         i.msg = worker[w].msg
  PROVE  WaitingPages' = WaitingPages /\ Waiting' = Waiting
<1>1. \A m : Taken(m)' <=> Taken(m)
  BY SameTaken DEF Moved, Busy
<1>2. WaitingPages' = WaitingPages
  BY <1>1 DEF WaitingPages, Moved
<1> QED BY <1>2 DEF Waiting

LEMMA PagingExactOn ==
  ASSUME KInv, OneInvocation, ECount, NEW w \in Workers, Busy(w), Kind(w) = "healPage",
         NEW i, Moved(w, i), i.pc \notin {"idle", "sendPages"}, i.msg = worker[w].msg,
         PageExact(i, doc', Waiting)
  PROVE  ECount'
<1>1. worker[w].msg \in queue /\ worker[w].msg.kind = "healPage"
  BY KindAt DEF Kind
<1>2. \A v \in Workers : v = w /\ worker'[v] = i
  BY DEF OneInvocation, Moved
<1>3. HealPaging /\ HealPaging'
  BY <1>1 DEF HealPaging, Moved
<1>4. WaitingPages' = WaitingPages /\ Waiting' = Waiting
  BY WaitingKept
<1>5. PagesApart'
  BY <1>3, <1>4 DEF ECount, PagingExact, PagesApart
<1>6. PagingExact'
  BY <1>2, <1>4, <1>5 DEF PagingExact, Busy
<1>7. RestTold'
  BY <1>1, <1>2, <1>3 DEF RestTold
<1> QED BY <1>6, <1>7 DEF ECount

(* What holds at a page of the healing.                                    *)
LEMMA PageExactNow ==
  ASSUME KInv, ECount, NEW w \in Workers, Busy(w), Kind(w) = "healPage"
  PROVE  HealPaging /\ PagesApart /\ PageExact(worker[w], doc, Waiting)
<1>1. worker[w].msg \in queue /\ worker[w].msg.kind = "healPage"
  BY KindAt DEF Kind
<1> QED BY <1>1 DEF HealPaging, ECount, PagingExact

LEMMA RecordExact ==
  ASSUME KInv, OneInvocation, ECount, NEW w \in Workers,
         AlreadyMapped(w) \/ CreateMapping(w) \/ Unmatched(w)
  PROVE  ECount'
<1> DEFINE p == NextRecord(w)
<1>1. PICK out : /\ Moved(w, [worker[w] EXCEPT !.todo = @ \ {p}, !.done = @ + 1,
                                               !.out = @ \cup out])
                 /\ Busy(w) /\ Kind(w) = "healPage" /\ worker[w].todo # {}
  <2>1. CASE AlreadyMapped(w)
    BY <2>1, AlreadyMappedGoes
  <2>2. CASE CreateMapping(w)
    BY <2>2, CreateMappingGoes
  <2>3. CASE Unmatched(w)
    BY <2>3, UnmatchedGoes
  <2> QED BY <2>1, <2>2, <2>3
<1> DEFINE i == [worker[w] EXCEPT !.todo = @ \ {p}, !.done = @ + 1, !.out = @ \cup out]
<1>2. doc' = doc /\ worker[w].pc = "records"
  BY DEF AlreadyMapped, CreateMapping, Unmatched, AtRecord, At
<1>3. worker[w] \in Invocations /\ worker[w].done \in Nat
  BY KindAt, InvocationTypes
<1>4. i.pc = "records" /\ i.msg = worker[w].msg /\ i.todo = worker[w].todo \ {p}
      /\ i.done = worker[w].done + 1
  BY <1>2, <1>3 DEF Invocations
<1>5. Moved(w, i)
  BY <1>1
<1>6. p \in worker[w].todo /\ IsFiniteSet(worker[w].todo) /\ Cardinality(worker[w].todo) \in Nat
  BY <1>1, <1>2, AtPaging
<1> HIDE DEF i, p
<1>7. Cardinality(i.todo) = Cardinality(worker[w].todo) - 1
  <2> DEFINE todo == worker[w].todo
  <2>1. IsFiniteSet(todo) /\ p \in todo /\ i.todo = todo \ {p}
    BY <1>4, <1>6
  <2> HIDE DEF todo
  <2>2. Cardinality(i.todo) = Cardinality(todo) - 1
    BY <2>1, FS_RemoveElement
  <2> QED BY <2>2 DEF todo
<1>8. worker[w].todo \cap Waiting = {}
      /\ doc.remaining = Cardinality(Waiting) + Cardinality(worker[w].todo) + worker[w].done
  BY <1>1, <1>2, PageExactNow DEF PageExact
<1>9. Cardinality(Waiting) \in Nat
  BY WaitingFinite
<1>10. /\ i.todo \cap Waiting = {}
       /\ doc.remaining = Cardinality(Waiting) + Cardinality(i.todo) + i.done
  <2>1. i.todo \cap Waiting = {}
    BY <1>4, <1>8
  <2> QED BY <1>3, <1>4, <1>6, <1>7, <1>8, <1>9, <2>1
<1>11. PageExact(i, doc', Waiting)
  BY <1>2, <1>4, <1>10 DEF PageExact
<1> QED BY <1>1, <1>4, <1>5, <1>11, PagingExactOn

LEMMA RecordResultExact ==
  ASSUME KInv, OneInvocation, ECount, NEW w \in Workers, RecordHealPageResult(w)
  PROVE  ECount'
<1> DEFINE i == [worker[w] EXCEPT !.left = doc.remaining - worker[w].done, !.pc = "update"]
<1>1. Moved(w, i) /\ Busy(w) /\ Kind(w) = "healPage" /\ worker[w].todo = {}
  BY RecordGoes
<1>2. worker[w].pc = "records" /\ doc' = [doc EXCEPT !.remaining = @ - worker[w].done]
      /\ doc \in States
  BY DEF RecordHealPageResult, At, KInv, MigrationTypeOK
<1>3. worker[w] \in Invocations /\ worker[w].done \in Nat
  BY KindAt, InvocationTypes
<1>4. i.pc = "update" /\ i.msg = worker[w].msg /\ i.left = doc.remaining - worker[w].done
  BY <1>3 DEF Invocations
<1>5. doc'.remaining = doc.remaining - worker[w].done
  BY <1>2 DEF States
<1> HIDE DEF i
<1>6. doc.remaining = Cardinality(Waiting) + Cardinality(worker[w].todo) + worker[w].done
  BY <1>1, <1>2, PageExactNow DEF PageExact
<1>7. Cardinality(worker[w].todo) = 0 /\ Cardinality(Waiting) \in Nat
  BY <1>1, FS_EmptySet, WaitingFinite
<1>8. doc.remaining - worker[w].done = Cardinality(Waiting)
  BY <1>3, <1>6, <1>7
<1>9. PageExact(i, doc', Waiting)
  BY <1>4, <1>5, <1>8 DEF PageExact
<1> QED BY <1>1, <1>4, <1>9, PagingExactOn

LEMMA UpdateExact ==
  ASSUME KInv, OneInvocation, ECount, NEW w \in Workers, Kind(w) = "healPage",
         ReadExisting(w) \/ UpsertHealPage(w)
  PROVE  ECount'
<1>0. worker[w] \in Invocations /\ worker[w].was \in States
  BY KindAt, InvocationTypes
<1>1. CASE ReadExisting(w)
  <2> DEFINE i == [worker[w] EXCEPT !.was = doc, !.pc = "upsert"]
  <2>1. Moved(w, i) /\ Busy(w)
    BY <1>1, ReadExistingGoes
  <2>2. i.msg = worker[w].msg /\ i.left = worker[w].left /\ i.pc = "upsert" /\ i.was = doc
    BY <1>0 DEF Invocations
  <2>3. doc' = doc /\ worker[w].pc = "update"
    BY <1>1 DEF ReadExisting, At
  <2> HIDE DEF i
  <2>4. PageExact(i, doc', Waiting)
    BY <2>1, <2>2, <2>3, PageExactNow DEF PageExact
  <2> QED BY <2>1, <2>2, <2>4, PagingExactOn
<1>2. CASE UpsertHealPage(w)
  <2> DEFINE i == [worker[w] EXCEPT !.pc = "return"]
  <2>1. Moved(w, i) /\ Busy(w)
    BY <1>2, UpsertHealGoes
  <2>2. i.msg = worker[w].msg /\ i.pc = "return"
    BY <1>0 DEF Invocations
  <2>3. worker[w].pc = "upsert"
        /\ doc' = [worker[w].was EXCEPT !.heal = IF worker[w].left <= 0 THEN "COMPLETED" ELSE @]
    BY <1>2 DEF UpsertHealPage, At
  <2> HIDE DEF i
  <2>4. doc.remaining = Cardinality(Waiting) /\ worker[w].left = Cardinality(Waiting)
        /\ worker[w].was = doc
    BY <2>1, <2>3, PageExactNow DEF PageExact
  <2>5. doc'.remaining = doc.remaining
        /\ doc'.heal = IF worker[w].left <= 0 THEN "COMPLETED" ELSE doc.heal
    BY <1>0, <2>3, <2>4 DEF States
  <2>6. Completes(doc', Waiting)
    BY <2>4, <2>5, WaitingFinite DEF Completes
  <2>7. PageExact(i, doc', Waiting)
    BY <2>2, <2>4, <2>5, <2>6 DEF PageExact
  <2> QED BY <2>1, <2>2, <2>7, PagingExactOn
<1> QED BY <1>1, <1>2

(* The rest of a page that is cut short waits on a page of its own.        *)
LEMMA ReEnqueueExact ==
  ASSUME KInv, KInv', OneInvocation, ECount, NEW w \in Workers, ReEnqueueHealPage(w)
  PROVE  ECount'
<1> DEFINE m == Message(sent + 1, "healPage", 0, worker[w].todo)
           i == [worker[w] EXCEPT !.todo = {}]
<1>1. Busy(w) /\ Kind(w) = "healPage" /\ worker'[w] = i
  BY ReEnqueueOK
<1>2. queue' = queue \cup {m} /\ doc' = doc /\ worker[w].pc = "records"
  BY DEF ReEnqueueHealPage, AtRecord, At
<1>3. worker[w] \in Invocations /\ worker[w].msg \in queue /\ worker[w].done \in Nat
      /\ worker[w].msg.kind = "healPage"
  BY <1>1, KindAt, InvocationTypes DEF Kind
<1>4. i.pc = "records" /\ i.msg = worker[w].msg /\ i.todo = {} /\ i.done = worker[w].done
  BY <1>2, <1>3 DEF Invocations
<1>5. m.id = sent + 1 /\ m.records = worker[w].todo /\ m.kind = "healPage"
  BY DEF Message
<1>6. \A v \in Workers : v = w
  BY DEF OneInvocation
<1>7. m # worker[w].msg /\ m \notin queue
  BY <1>3, <1>5, AboutKinds DEF KInv, QueueOK, MigrationTypeOK
<1> HIDE DEF m, i
<1>8. \A n : (Taken(n) <=> n = worker[w].msg) /\ (Taken(n)' <=> n = worker[w].msg)
  BY <1>1, <1>4, <1>6, IdleTyped DEF Taken, Busy
<1>9. WaitingPages' = WaitingPages \cup {m}
  BY <1>2, <1>5, <1>7, <1>8 DEF WaitingPages
<1>10. Waiting' = Waiting \cup worker[w].todo
  BY <1>5, <1>9 DEF Waiting
<1>11. /\ PagesApart /\ worker[w].todo \cap Waiting = {}
       /\ doc.remaining = Cardinality(Waiting) + Cardinality(worker[w].todo) + worker[w].done
  BY <1>1, <1>2, PageExactNow DEF PageExact
<1>12. PagesApart'
  <2> SUFFICES ASSUME NEW a \in WaitingPages \cup {m}, NEW b \in WaitingPages \cup {m},
                      NEW p \in Professionals, p \in a.records, p \in b.records
               PROVE  a = b
    BY <1>9 DEF PagesApart
  <2>1. \A n \in WaitingPages : ~ (p \in n.records /\ p \in m.records)
    BY <1>5, <1>11 DEF Waiting
  <2> QED BY <1>11, <2>1 DEF PagesApart
<1>13. Cardinality(Waiting') = Cardinality(Waiting) + Cardinality(worker[w].todo)
  <2>1. IsFiniteSet(Waiting) /\ IsFiniteSet(worker[w].todo)
    BY <1>2, WaitingFinite, AtPaging
  <2>2. Waiting \cap worker[w].todo = {}
    BY <1>11
  <2> QED BY <1>10, <2>1, <2>2, TogetherCounted
<1>14. PageExact(i, doc', Waiting')
  <2>1. Cardinality(i.todo) = 0
    BY <1>4, FS_EmptySet
  <2>2. Cardinality(Waiting') \in Nat
    <3>1. IsFiniteSet(Waiting) /\ IsFiniteSet(worker[w].todo)
      BY <1>2, WaitingFinite, AtPaging
    <3> QED BY <1>10, <3>1, FS_Union, FS_CardinalityType
  <2>3. doc.remaining = Cardinality(Waiting') + Cardinality(i.todo) + i.done
    BY <1>3, <1>4, <1>11, <1>13, <2>1, <2>2
  <2> QED BY <1>2, <1>4, <2>3 DEF PageExact
<1>15. PagingExact'
  BY <1>1, <1>4, <1>6, <1>12, <1>14 DEF PagingExact, Busy
<1>16. HealPaging'
  BY <1>2, <1>5 DEF HealPaging
<1>17. RestTold'
  BY <1>1, <1>3, <1>4, <1>6, <1>16 DEF RestTold
<1> QED BY <1>15, <1>17 DEF ECount

LEMMA EndHealExact ==
  ASSUME KInv, OneInvocation, ECount, NEW w \in Workers, EndHealPage(w)
  PROVE  ECount'
<1>1. /\ Busy(w) /\ Kind(w) = "healPage" /\ worker[w].pc = "return"
      /\ worker'[w] = Idle /\ queue' = queue \ {worker[w].msg}
  BY EndHealEnds DEF Ended
<1>2. doc' = doc
  BY DEF EndHealPage
<1>3. \A v \in Workers : v = w /\ worker'[v] = Idle
  BY <1>1 DEF OneInvocation
<1>4. \A n : (Taken(n) <=> n = worker[w].msg) /\ ~ Taken(n)'
  BY <1>1, <1>3, IdleTyped DEF Taken, Busy
<1>5. WaitingPages' = WaitingPages
  BY <1>1, <1>4 DEF WaitingPages
<1>6. Waiting' = Waiting
  BY <1>5 DEF Waiting
<1>7. PagesApart /\ doc.remaining = Cardinality(Waiting) /\ Completes(doc, Waiting)
  BY <1>1, PageExactNow DEF PageExact
<1>8. PagingExact'
  BY <1>2, <1>3, <1>5, <1>6, <1>7, IdleTyped DEF PagingExact, PagesApart, Busy
<1>9. ASSUME ~ HealPaging' PROVE doc'.heal \in Told
  <2>1. WaitingPages' = {}
    BY <1>9 DEF HealPaging, WaitingPages
  <2>2. Waiting = {}
    BY <1>5, <2>1 DEF Waiting
  <2> QED BY <1>2, <1>7, <2>2 DEF Completes, Told
<1>10. RestTold'
  BY <1>3, <1>9, IdleTyped DEF RestTold, Busy
<1> QED BY <1>8, <1>10 DEF ECount

LEMMA TakeExact ==
  ASSUME KInv, OneInvocation, ECount, NEW w \in Workers, NEW m \in queue, Take(w, m)
  PROVE  ECount'
<1>1. /\ worker'[w] = Receiving(m) /\ queue' = (queue \ {m}) \cup {Delivered(m)}
      /\ ~ Taken(m) /\ worker[w] = Idle /\ doc' = doc
  BY TakeOK DEF Take
<1>2. /\ m \in Messages /\ Delivered(m).id = m.id /\ Delivered(m).kind = m.kind
      /\ Delivered(m).records = m.records
      /\ Receiving(m).msg = Delivered(m) /\ Receiving(m).todo = m.records
      /\ Receiving(m).pc = FirstStep(m.kind) /\ Receiving(m).pc # "idle"
      /\ Receiving(m).done = 0 /\ Receiving(m).seen = NoState /\ Receiving(m).was = NoState
      /\ m.kind \in Orders \cup {"page", "healPage"}
  BY <1>1, DeliveredTyped, MessageTypes
<1>3. FirstStep(m.kind) # "sendPages" /\ (m.kind = "healPage" => FirstStep(m.kind) = "records")
  BY <1>2 DEF FirstStep, Orders
<1>4. \A v \in Workers : v = w
  BY DEF OneInvocation
<1>5. \A n : ~ Taken(n) /\ (Taken(n)' <=> n = Delivered(m))
  BY <1>1, <1>2, <1>4, IdleTyped DEF Taken
<1>6. CASE m.kind = "healPage"
  <2>1. HealPaging /\ HealPaging'
    BY <1>1, <1>2, <1>6 DEF HealPaging
  <2>2. m \in WaitingPages /\ WaitingPages' = WaitingPages \ {m}
    <3>1. \A n \in queue : n = Delivered(m) => n = m
      BY <1>2 DEF KInv, QueueOK
    <3> QED BY <1>1, <1>2, <1>5, <1>6, <3>1 DEF WaitingPages
  <2>3. PagesApart /\ doc.remaining = Cardinality(Waiting)
    BY <1>1, <1>4, <2>1, IdleTyped DEF ECount, PagingExact, Busy
  <2>4. m.records \subseteq Professionals
    BY <1>2, MessageTypes
  <2>5. Waiting = Waiting' \cup m.records
    BY <2>2 DEF Waiting
  <2>6. Waiting' \cap m.records = {}
    BY <2>2, <2>3, <2>4 DEF Waiting, PagesApart
  <2>7. Cardinality(Waiting) = Cardinality(Waiting') + Cardinality(m.records)
        /\ Cardinality(Waiting') \in Nat /\ Cardinality(m.records) \in Nat
    <3>1. IsFiniteSet(m.records) /\ IsFiniteSet(Waiting')
      BY <2>4, <2>5, RecordsAreNumbers, WaitingFinite, FS_Subset
    <3> QED BY <2>5, <2>6, <3>1, TogetherCounted
  <2>8. PageExact(Receiving(m), doc', Waiting')
    BY <1>1, <1>2, <1>3, <1>6, <2>3, <2>6, <2>7 DEF PageExact
  <2>9. PagesApart'
    BY <2>2, <2>3 DEF PagesApart
  <2>10. PagingExact'
    BY <1>1, <1>2, <1>4, <2>8, <2>9 DEF PagingExact, Busy
  <2>11. RestTold'
    BY <1>1, <1>2, <1>3, <1>4, <1>6, <2>1 DEF RestTold
  <2> QED BY <2>10, <2>11 DEF ECount
<1>7. CASE m.kind # "healPage"
  <2>1. queue = {m} /\ queue' = {Delivered(m)}
    BY <1>1, <1>7 DEF KInv, QueueOK
  <2>2. ~ HealPaging /\ ~ HealPaging'
    BY <1>2, <1>7, <2>1 DEF HealPaging
  <2>3. PagingExact'
    BY <2>2 DEF PagingExact
  <2>4. doc.heal \in Told
    BY <1>1, <1>4, <2>2, IdleTyped DEF ECount, RestTold
  <2>5. RestTold'
    BY <1>1, <1>2, <1>3, <1>4, <2>4, StatesTyped DEF RestTold, Told
  <2> QED BY <2>3, <2>5 DEF ECount
<1> QED BY <1>6, <1>7

(* Who goes on, or ends, alone.                                            *)
LEMMA AloneTold ==
  ASSUME KInv, ECount, NEW w \in Workers, Busy(w), Kind(w) # "healPage",
         worker[w].pc # "sendPages"
  PROVE  doc.heal \in Told
<1>1. queue = {worker[w].msg} /\ \A v \in Workers : v # w => worker[v] = Idle
  BY Alone
<1>2. ~ HealPaging /\ \A v \in Workers : worker[v].pc # "sendPages"
  BY <1>1, IdleTyped DEF HealPaging, Kind
<1> QED BY <1>2 DEF ECount, RestTold

LEMMA AloneExact ==
  ASSUME KInv, NEW w \in Workers, Busy(w), Kind(w) # "healPage", NEW i, Moved(w, i),
         i.msg = worker[w].msg,
         i.pc # "sendPages" => doc'.heal \in Told,
         i.pc = "sendPages" => Completes(doc', Professionals),
         Kind(w) = "page" => i.seen.heal \in Told /\ i.was.heal \in Told
  PROVE  ECount'
<1>1. queue' = {worker[w].msg} /\ (\A v \in Workers : v # w => worker'[v] = Idle) /\ worker'[w] = i
      /\ worker[w].msg.kind # "healPage"
  BY Alone DEF Moved, Kind
<1>2. PagingExact'
  BY <1>1 DEF PagingExact, HealPaging
<1>3. ASSUME NEW v \in Workers
      PROVE  /\ Busy(v)' /\ worker'[v].msg.kind = "page" =>
                  worker'[v].seen.heal \in Told /\ worker'[v].was.heal \in Told
             /\ worker'[v].pc = "sendPages" => Completes(doc', Professionals)
  <2>1. CASE v = w
    BY <1>1, <2>1 DEF Kind
  <2>2. CASE v # w
    BY <1>1, <2>2, IdleTyped DEF Busy
  <2> QED BY <2>1, <2>2
<1>4. (\A v \in Workers : worker'[v].pc # "sendPages") => doc'.heal \in Told
  BY <1>1
<1>5. RestTold'
  BY <1>3, <1>4 DEF RestTold
<1> QED BY <1>2, <1>5 DEF ECount

LEMMA AloneEndsExact ==
  ASSUME KInv, NEW w \in Workers, Busy(w), Kind(w) # "healPage", NEW pages, Ended(w, pages),
         doc'.heal \in Told, \A m \in pages : m.kind = "page"
  PROVE  ECount'
<1>1. queue' = pages /\ \A v \in Workers : worker'[v] = Idle
  BY Alone DEF Ended
<1>2. PagingExact'
  BY <1>1 DEF PagingExact, HealPaging
<1>3. RestTold'
  BY <1>1, IdleTyped DEF RestTold, Busy
<1> QED BY <1>2, <1>3 DEF ECount

LEMMA StartPartExact ==
  ASSUME KInv, ECount, NEW w \in Workers,
         \/ DeleteTrustees(w) \/ DeleteProfessionalIds(w) \/ ResetMigrationState(w)
         \/ ReadState(w) \/ CreateState(w) \/ StartPage(w)
  PROVE  ECount'
<1>0. worker[w] \in Invocations
  BY KindAt
<1>1. CASE DeleteTrustees(w) \/ DeleteProfessionalIds(w) \/ ResetMigrationState(w)
  <2>1. PICK pc \in {"deleteIds", "resetState", "getState"} :
          Moved(w, [worker[w] EXCEPT !.pc = pc]) /\ Busy(w) /\ Kind(w) = "deleteAll"
    BY <1>1, DeleteTrusteesGoes, DeleteIdsGoes, ResetGoes
  <2> DEFINE i == [worker[w] EXCEPT !.pc = pc]
  <2>2. i.pc # "sendPages" /\ i.msg = worker[w].msg
    BY <1>0, <2>1 DEF Invocations
  <2>3. Moved(w, i)
    BY <2>1
  <2> HIDE DEF i
  <2>4. worker[w].pc # "sendPages"
    BY <2>1, KindAt
  <2>5. doc.heal \in Told
    BY <2>1, <2>4, AloneTold
  <2>6. doc' = doc \/ doc' = Fresh
    BY <1>1 DEF DeleteTrustees, DeleteProfessionalIds, ResetMigrationState
  <2>7. doc'.heal \in Told
    BY <2>5, <2>6, StatesTyped DEF Told
  <2> QED BY <2>1, <2>2, <2>3, <2>7, AloneExact
<1>2. CASE ReadState(w)
  <2> DEFINE i == [worker[w] EXCEPT !.seen = doc,
                     !.pc = IF Kind(w) = "page" THEN "fetch" ELSE "startPage"]
  <2>1. Moved(w, i) /\ Busy(w) /\ Kind(w) \in {"resume", "page"}
    BY <1>2, ReadStateGoes
  <2>2. i.pc # "sendPages" /\ i.msg = worker[w].msg /\ i.seen = doc /\ i.was = worker[w].was
    BY <1>0 DEF Invocations
  <2> HIDE DEF i
  <2>3. doc' = doc /\ worker[w].pc = "getState"
    BY <1>2 DEF ReadState, At
  <2>4. doc.heal \in Told
    BY <2>1, <2>3, AloneTold
  <2>5. Kind(w) = "page" => worker[w].was.heal \in Told
    BY <2>1 DEF ECount, RestTold, Kind
  <2> QED BY <2>1, <2>2, <2>3, <2>4, <2>5, AloneExact
<1>3. CASE CreateState(w)
  <2> DEFINE i == [worker[w] EXCEPT !.seen = Fresh,
                     !.pc = IF Kind(w) = "page" THEN "fetch" ELSE "startPage"]
  <2>1. Moved(w, i) /\ Busy(w) /\ Kind(w) \in {"resume", "reset", "deleteAll", "page"}
    BY <1>3, CreateStateGoes
  <2>2. i.pc # "sendPages" /\ i.msg = worker[w].msg /\ i.seen = Fresh /\ i.was = worker[w].was
    BY <1>0 DEF Invocations
  <2> HIDE DEF i
  <2>3. doc' = Fresh /\ Fresh.heal \in Told
    BY <1>3, StatesTyped DEF CreateState, Told
  <2>4. Kind(w) = "page" => worker[w].was.heal \in Told
    BY <2>1 DEF ECount, RestTold, Kind
  <2> QED BY <2>1, <2>2, <2>3, <2>4, AloneExact
<1>4. CASE StartPage(w)
  <2>1. Busy(w) /\ worker[w].pc = "startPage" /\ Kind(w) \in {"deleteAll", "resume", "reset"}
    BY <1>4, StartPageEnds
  <2>2. PICK pages : Ended(w, pages) /\ \A m \in pages : m.kind = "page"
    BY <1>4, StartPageEnds
  <2>3. doc' = doc /\ doc.heal \in Told
    BY <1>4, <2>1, AloneTold DEF StartPage
  <2> QED BY <2>1, <2>2, <2>3, AloneEndsExact
<1> QED BY <1>1, <1>2, <1>3, <1>4

LEMMA PagePartExact ==
  ASSUME KInv, ECount, NEW w \in Workers,
         \/ GetPageOfTrustees(w) \/ FailMigration(w) \/ FindTrusteeByNameAndState(w)
         \/ StoreTrustee(w) \/ UpsertProfessionalIds(w) \/ GiveUpTrustee(w)
  PROVE  ECount'
<1>1. PICK i \in Invocations :
           /\ Moved(w, i) /\ Busy(w) /\ Kind(w) = "page" /\ i.msg = worker[w].msg
           /\ i.seen = worker[w].seen /\ i.was = worker[w].was
           /\ i.pc \in {"find", "store", "ids", "update"} /\ doc' = doc
  BY PageKeeps
<1>2. doc.heal \in Told
  <2>1. worker[w].pc # "sendPages"
    BY <1>1, KindAt
  <2> QED BY <1>1, <2>1, AloneTold
<1>3. worker[w].seen.heal \in Told /\ worker[w].was.heal \in Told
  BY <1>1 DEF ECount, RestTold, Kind
<1> QED BY <1>1, <1>2, <1>3, AloneExact

LEMMA UpdatePartExact ==
  ASSUME KInv, OneInvocation, ECount, NEW w \in Workers,
         ReadExisting(w) \/ UpsertPage(w) \/ EndPage(w)
  PROVE  ECount'
<1>0. worker[w] \in Invocations
  BY KindAt
<1>1. CASE ReadExisting(w)
  <2> DEFINE i == [worker[w] EXCEPT !.was = doc, !.pc = "upsert"]
  <2>1. Moved(w, i) /\ Busy(w) /\ Kind(w) \in {"page", "healPage"}
    BY <1>1, ReadExistingGoes
  <2>2. CASE Kind(w) = "healPage"
    BY <1>1, <2>2, UpdateExact
  <2>3. CASE Kind(w) = "page"
    <3>1. i.pc # "sendPages" /\ i.msg = worker[w].msg /\ i.seen = worker[w].seen /\ i.was = doc
      BY <1>0 DEF Invocations
    <3> HIDE DEF i
    <3>2. doc' = doc /\ worker[w].pc = "update"
      BY <1>1 DEF ReadExisting, At
    <3>3. doc.heal \in Told
      BY <2>1, <2>3, <3>2, AloneTold
    <3>4. worker[w].seen.heal \in Told
      BY <2>1, <2>3 DEF ECount, RestTold, Kind
    <3> QED BY <2>1, <2>3, <3>1, <3>2, <3>3, <3>4, AloneExact
  <2> QED BY <2>1, <2>2, <2>3
<1>2. CASE UpsertPage(w)
  <2> DEFINE i == [worker[w] EXCEPT !.pc = "return"]
  <2>1. Moved(w, i) /\ Busy(w) /\ Kind(w) = "page"
    BY <1>2, UpsertPageGoes
  <2>2. i.pc # "sendPages" /\ i.msg = worker[w].msg /\ i.seen = worker[w].seen
        /\ i.was = worker[w].was
    BY <1>0 DEF Invocations
  <2> HIDE DEF i
  <2>3. worker[w].seen.heal \in Told /\ worker[w].was.heal \in Told
    BY <2>1 DEF ECount, RestTold, Kind
  <2>4. doc' = PageState(w)
    BY <1>2 DEF UpsertPage
  <2>5. doc'.heal \in {worker[w].seen.heal, worker[w].was.heal}
    BY <2>1, <2>4, PageStateTyped
  <2> QED BY <2>1, <2>2, <2>3, <2>5, AloneExact
<1>3. CASE EndPage(w)
  <2>1. Busy(w) /\ worker[w].pc = "return" /\ Kind(w) = "page"
    BY <1>3, EndPageEnds
  <2>2. PICK pages : Ended(w, pages) /\ \A m \in pages : m.kind = "page"
    BY <1>3, EndPageEnds
  <2>3. doc' = doc /\ doc.heal \in Told
    BY <1>3, <2>1, AloneTold DEF EndPage
  <2> QED BY <2>1, <2>2, <2>3, AloneEndsExact
<1> QED BY <1>1, <1>2, <1>3

(* The pages are queued, and the counter stands at all records.            *)
LEMMA SendPagesExact ==
  ASSUME KInv, LCount, ECount, NEW w \in Workers, SendHealPages(w)
  PROVE  ECount'
<1>1. Busy(w) /\ worker[w].pc = "sendPages" /\ Kind(w) = "heal" /\ Ended(w, PageMessages)
      /\ doc' = doc /\ sent \in Nat
  BY SendPagesEnds DEF SendHealPages, KInv, MigrationTypeOK
<1>2. queue' = PageMessages /\ \A v \in Workers : worker'[v] = Idle
  BY <1>1, Alone DEF Ended
<1>3. doc.remaining = Cardinality(Professionals) /\ Completes(doc, Professionals)
  BY <1>1 DEF LCount, ReadyToSend, ECount, RestTold
<1>4. \A m \in PageMessages : \E page \in HealPages : m = PageMessage(page)
        /\ m.kind = "healPage" /\ m.records = page
  BY <1>1, PageMessageTyped DEF PageMessages
<1>5. WaitingPages' = PageMessages
  BY <1>2, <1>4 DEF WaitingPages, Taken
<1>6. Waiting' = Professionals
  <2>1. \A m \in PageMessages : m.records \subseteq Professionals
    BY <1>4, PagesPartition
  <2>2. ASSUME NEW p \in Professionals PROVE \E m \in PageMessages : p \in m.records
    <3>1. PICK page \in HealPages : p \in page
      BY PagesPartition
    <3>2. PageMessage(page) \in PageMessages /\ PageMessage(page).records = page
      BY <1>1, PageMessageTyped DEF PageMessages
    <3> QED BY <3>1, <3>2
  <2> QED BY <1>5, <2>1, <2>2 DEF Waiting
<1>7. PagesApart'
  <2> SUFFICES ASSUME NEW m \in PageMessages, NEW n \in PageMessages, NEW p \in Professionals,
                      p \in m.records, p \in n.records
               PROVE  m = n
    BY <1>5 DEF PagesApart
  <2> QED BY <1>4, PagesPartition
<1>8. PagingExact'
  BY <1>1, <1>2, <1>3, <1>6, <1>7, IdleTyped DEF PagingExact, Busy
<1>9. ASSUME ~ HealPaging' PROVE doc'.heal \in Told
  <2>1. WaitingPages' = {}
    BY <1>9 DEF HealPaging, WaitingPages
  <2>2. Professionals = {}
    BY <1>6, <2>1 DEF Waiting
  <2> QED BY <1>1, <1>3, <2>2 DEF Completes, Told
<1>10. RestTold'
  BY <1>2, <1>9, IdleTyped DEF RestTold, Busy
<1> QED BY <1>8, <1>10 DEF ECount

LEMMA HealPartExact ==
  ASSUME KInv, LCount, ECount, NEW w \in Workers,
         \/ ReadHealState(w) \/ CreateHealState(w) \/ InitHealState(w) \/ SendHealPages(w)
  PROVE  ECount'
<1>0. worker[w] \in Invocations
  BY KindAt
<1>1. CASE ReadHealState(w)
  <2>1. Busy(w) /\ worker[w].pc = "guard" /\ Kind(w) = "heal" /\ doc' = doc
    BY <1>1, ReadHealGoes DEF ReadHealState
  <2>2. doc.heal \in Told
    BY <2>1, AloneTold
  <2>3. CASE Ended(w, {})
    BY <2>1, <2>2, <2>3, AloneEndsExact
  <2>4. CASE Moved(w, [worker[w] EXCEPT !.pc = "create"])
    <3> DEFINE i == [worker[w] EXCEPT !.pc = "create"]
    <3>1. i.pc # "sendPages" /\ i.msg = worker[w].msg
      BY <1>0 DEF Invocations
    <3>2. Moved(w, i)
      BY <2>4
    <3> HIDE DEF i
    <3> QED BY <2>1, <2>2, <3>1, <3>2, AloneExact
  <2> QED BY <1>1, <2>3, <2>4, ReadHealGoes
<1>2. CASE CreateHealState(w)
  <2> DEFINE i == [worker[w] EXCEPT !.pc = "initHeal"]
  <2>1. Moved(w, i) /\ Busy(w) /\ Kind(w) = "heal"
    BY <1>2, CreateHealGoes
  <2>2. i.pc # "sendPages" /\ i.msg = worker[w].msg
    BY <1>0 DEF Invocations
  <2>3. (doc' = doc \/ doc' = Fresh) /\ worker[w].pc = "create"
    BY <1>2 DEF CreateHealState, At
  <2>4. doc'.heal \in Told
    BY <2>1, <2>3, AloneTold, StatesTyped DEF Told
  <2> HIDE DEF i
  <2> QED BY <2>1, <2>2, <2>4, AloneExact
<1>3. CASE InitHealState(w)
  <2> DEFINE i == [worker[w] EXCEPT !.pc = "sendPages"]
  <2>1. Moved(w, i) /\ Busy(w) /\ Kind(w) = "heal"
    BY <1>3, InitHealGoes
  <2>2. i.msg = worker[w].msg /\ i.pc = "sendPages"
    BY <1>0 DEF Invocations
  <2>3. Completes(doc', Professionals)
    BY <1>3, HealingTyped DEF InitHealState, KInv, MigrationTypeOK, Completes
  <2> HIDE DEF i
  <2> QED BY <2>1, <2>2, <2>3, AloneExact
<1>4. CASE SendHealPages(w)
  BY <1>4, SendPagesExact
<1> QED BY <1>1, <1>2, <1>3, <1>4

LEMMA HandlerExact ==
  ASSUME KInv, KInv', OneInvocation, LCount, ECount, NEW w \in Workers,
         StartStep(w) \/ PageStep(w) \/ HealStep(w), failures = 0, failures' = 0
  PROVE  ECount'
<1>1. ~ FailsOver(w) /\ ~ Fails
  BY FailsOverEnds, FailsOK
<1>2. ~ HealStateUnread(w) /\ ~ ReEnqueueFails(w) /\ ~ RecordFails(w)
  BY <1>1 DEF HealStateUnread, ReEnqueueFails, RecordFails
<1>3. CASE UpsertHealPage(w)
  BY <1>3, UpsertHealGoes, UpdateExact
<1> QED BY <1>1, <1>2, <1>3, Steps, StartPartExact, PagePartExact, UpdatePartExact, HealPartExact,
           RecordExact, RecordResultExact, ReEnqueueExact, EndHealExact

LEMMA EStep ==
  ASSUME OneInvocation, KInv, KInv', LInv, EInv, [NextMigration /\ OneAtATime]_migrationVars
  PROVE  EInv'
<1> SUFFICES ASSUME failures' = 0 PROVE ECount'
  BY DEF EInv
<1>1. CASE UNCHANGED migrationVars
  <2>1. UNCHANGED <<doc, queue, worker, failures>>
    BY <1>1 DEF migrationVars, stores, told
  <2>2. ECount /\ Waiting' = Waiting /\ WaitingPages' = WaitingPages
    BY <2>1 DEF EInv, Waiting, WaitingPages, Taken
  <2> QED BY <2>1, <2>2 DEF ECount, PagingExact, PagesApart, RestTold, HealPaging, Busy
<1>2. CASE NextMigration /\ OneAtATime
  <2>1. ECount /\ LCount /\ failures = 0
    BY <1>2, FailuresCount DEF EInv, LInv
  <2>2. ASSUME NEW kind \in Orders, Start(kind), OneAtATime PROVE ECount'
    <3>1. queue = {}
      BY <2>2 DEF Start, OneAtATime, KInv, MigrationTypeOK
    <3>2. queue' = {Message(sent + 1, kind, 0, {})} /\ UNCHANGED <<worker, doc>>
          /\ Message(sent + 1, kind, 0, {}).kind # "healPage"
      BY <2>2, <3>1 DEF Start, Message, Orders
    <3>3. ~ HealPaging /\ ~ HealPaging'
      BY <3>1, <3>2 DEF HealPaging
    <3> QED BY <2>1, <3>2, <3>3 DEF ECount, PagingExact, RestTold, Busy
  <2>3. ASSUME NEW w \in Workers, NEW m \in queue, Take(w, m) PROVE ECount'
    BY <2>1, <2>3, TakeExact
  <2>4. ASSUME NEW w \in Workers, StartStep(w) \/ PageStep(w) \/ HealStep(w) PROVE ECount'
    BY <2>1, <2>4, HandlerExact
  <2>5. ASSUME NEW w \in Workers, Abort(w) PROVE ECount'
    BY <2>5, FailsOK DEF Abort
  <2> QED BY <1>2, <2>2, <2>3, <2>4, <2>5 DEF NextMigration
<1> QED BY <1>1, <1>2

(* With one invocation at a time, and as long as none fails, a healing     *)
(* comes to its end: when no message is left the state says completed.     *)
(* Only a sibling that writes back what it read can keep the counter from  *)
(* coming down to 0.                                                       *)
THEOREM LoneHealingConverges == OneInvocation => (AloneSpec => []HealConverges)
<1> SUFFICES ASSUME OneInvocation PROVE AloneSpec => []HealConverges
  OBVIOUS
<1>1. InitMigration => KInv /\ HInv /\ LInv /\ EInv
  <2>1. ASSUME InitMigration PROVE EInv
    BY <2>1, IdleTyped, StatesTyped DEF InitMigration, EInv, ECount, PagingExact, RestTold,
       HealPaging, Busy, Told
  <2> QED BY <2>1, KInit, HInit, LInit
<1>2. KInv /\ HInv /\ LInv /\ EInv /\ [NextMigration /\ OneAtATime]_migrationVars =>
        (KInv /\ HInv /\ LInv /\ EInv)'
  BY KStep, HStep, LStep, EStep
<1>3. KInv /\ EInv => HealConverges
  <2> SUFFICES ASSUME KInv, EInv, failures = 0, queue = {}, doc.heal # "none"
               PROVE  doc.heal = "COMPLETED"
    BY DEF HealConverges, Quiet
  <2>1. ~ HealPaging /\ \A w \in Workers : worker[w] = Idle
    BY KindAt DEF HealPaging
  <2> QED BY <2>1, IdleTyped DEF EInv, ECount, RestTold, Told
<1> QED BY <1>1, <1>2, <1>3, PTL DEF AloneSpec
===============================================================================
