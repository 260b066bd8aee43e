------------------------ MODULE DownstreamTransition ------------------------
(***************************************************************************)
(* What downstream systems see of a case's trustee while ACMS and CAMS     *)
(* both manage appointments: function-apps/dataflows/downstream/           *)
(* acms-cams-transition.ts.  Two tables of the transition database hold    *)
(* the rows of one case and appointment type 'TR', by RECORD_SEQ_NBR:      *)
(* CMMAP_CAMS what CAMS announced, CMMAP_ALL what everybody reads.  They   *)
(* are written by trusteeAppointmentHandler, for each event the sync of    *)
(* appointments announces, and CMMAP_ALL by the daily merge of ACMS's own  *)
(* rows as well.                                                           *)
(*                                                                         *)
(* Time: an instant is a number; day d begins at d * DayLength.  A court   *)
(* date is the midnight its day begins with; a reading of the wall clock   *)
(* is never a midnight.                                                    *)
(***************************************************************************)
EXTENDS Integers, FiniteSets

CONSTANTS
  Trustees,       \* professional ids, as CAMS and ACMS know them
  Nobody,         \* the holder of an event that lacks a required field
  Seqs,           \* RECORD_SEQ_NBRs in use
  DayLength,      \* instants of a day
  Cutover,        \* the day the tables were made and seeded
  LastDay,        \* bound: the last day
  MaxEvents,      \* bound: how many events the sync announces
  MaxAcmsChanges  \* bound: how often ACMS changes a row

CamsSeq == 1      \* the RECORD_SEQ_NBR of every row CAMS writes

ASSUME TransitionAssumption ==
  /\ Nobody \notin Trustees
  /\ Seqs \subseteq Nat /\ CamsSeq \in Seqs
  /\ DayLength \in Nat \ {0, 1}
  /\ Cutover \in Nat \ {0}
  /\ LastDay \in Nat
  /\ MaxEvents \in Nat
  /\ MaxAcmsChanges \in Nat

VARIABLES
  clock,    \* the next reading of the wall clock
  feed,     \* the events queued for trusteeAppointmentHandler
  applied,  \* those it has written to the tables
  rejected, \* those on its DLQ
  cams,     \* CMMAP_CAMS
  all,      \* CMMAP_ALL
  acms,     \* CMMAP, the replica of ACMS
  watermark,\* LAST_SYNC_DATE; 0: no control row
  sync,     \* the daily sync: its next call and its locals
  changes   \* changes ACMS made

tables == <<cams, all>>
events == <<feed, applied, rejected>>
daily  == <<watermark, sync>>
vars   == <<clock, events, tables, acms, daily, changes>>

-----------------------------------------------------------------------------
Day(instant)   == instant \div DayLength
Midnight(date) == date * DayLength
End            == Midnight(LastDay + 1)

(* The clock is read, and moves on. *)
After(instant) == IF (instant + 1) % DayLength = 0 THEN instant + 2 ELSE instant + 1

ReadClock == clock < End /\ clock' = After(clock)

(* A table is a function from the RECORD_SEQ_NBRs it has rows for.         *)
Put(table, s, row) ==
  [x \in DOMAIN table \cup {s} |-> IF x = s THEN row ELSE table[x]]

NoRows == [x \in {} |-> 0]

(* An event: whose appointment, whether it opens or closes it, and the     *)
(* LAST_UPDATED of its row: unassignedOn if it has one, else appointedDate.*)
Holders       == Trustees \cup {Nobody}
Announcements == [holder : Holders, active : BOOLEAN, at : Nat]
Entries       == [holder : Trustees, active : BOOLEAN,
                  source : {"CAMS", "ACMS"}, updated : Nat]
AcmsRows      == [holder : Trustees, active : BOOLEAN, day : Nat]

EventRow(m) ==
  [holder |-> m.holder, active |-> m.active, source |-> "CAMS", updated |-> m.at]

AcmsEntry(r, at) ==
  [holder |-> r.holder, active |-> r.active, source |-> "ACMS", updated |-> at]

IdleSync == [pc |-> "idle", from |-> 0, runAt |-> 0]

(* The migration copies the active rows of a case, and the latest of the   *)
(* others if there is an active one.                                       *)
Active(rows) == {s \in DOMAIN rows : rows[s].active}

Seeded(rows) ==
  LET ended == DOMAIN rows \ Active(rows)
      last  == {s \in ended : Active(rows) # {} /\ \A x \in ended : x <= s}
  IN  [s \in Active(rows) \cup last |-> AcmsEntry(rows[s], Midnight(Cutover) + 1)]

(* The tables are there once the migration ran to its end.  Without the    *)
(* control row the daily sync makes up for the seeding.                    *)
Init ==
  /\ clock    = Midnight(Cutover) + 2
  /\ feed     = {}
  /\ applied  = {}
  /\ rejected = {}
  /\ cams     = NoRows
  /\ acms \in UNION {[used -> [holder : Trustees, active : BOOLEAN, day : {0}]] :
                      used \in SUBSET Seqs}
  /\ \/ all = Seeded(acms) /\ watermark = Midnight(Cutover) + 1
     \/ all = NoRows /\ watermark = 0
  /\ sync     = IdleSync
  /\ changes  = 0

-----------------------------------------------------------------------------
(* What the sync of appointments announces: an appointment on the date of  *)
(* the court or later, an end at the moment it is recorded.                *)

Queue(m) ==
  /\ Cardinality(feed) < MaxEvents
  /\ feed' = feed \cup {m}
  /\ UNCHANGED <<applied, rejected, tables, acms, daily, changes>>

AnnounceOpen(t, date) ==
  /\ date <= Day(clock)
  /\ Queue([holder |-> t, active |-> TRUE, at |-> Midnight(date)])
  /\ UNCHANGED clock

AnnounceClose(t) ==
  /\ Queue([holder |-> t, active |-> FALSE, at |-> clock])
  /\ ReadClock

NextDay ==
  /\ Day(clock) < LastDay
  /\ clock' = Midnight(Day(clock) + 1) + 1
  /\ UNCHANGED <<events, tables, acms, daily, changes>>

(* External: ACMS makes or changes a row, dated by the day.                *)
AcmsChanges(s, t, active) ==
  /\ changes < MaxAcmsChanges
  /\ changes' = changes + 1
  /\ acms' = Put(acms, s, [holder |-> t, active |-> active, day |-> Day(clock)])
  /\ UNCHANGED <<clock, events, tables, daily>>

-----------------------------------------------------------------------------
(* trusteeAppointmentHandler: the row of the event into both tables, in    *)
(* one transaction.  A failed transaction changes nothing and the event    *)
(* comes again, or is put aside; one that was applied may come again too.  *)

(* Variant: a later delivery wins, whatever its date. *)
MergeLatest(table, row) == Put(table, CamsSeq, row)

MergeEvent(table, row) ==
  IF CamsSeq \in DOMAIN table /\ row.updated <= table[CamsSeq].updated
  THEN table
  ELSE Put(table, CamsSeq, row)

ApplyEvent(m) ==
  /\ m.holder # Nobody
  /\ cams' = MergeEvent(cams, EventRow(m))
  /\ all' = MergeEvent(all, EventRow(m))
  /\ applied' = applied \cup {m}
  /\ UNCHANGED <<clock, feed, rejected, acms, daily, changes>>

RejectEvent(m) ==
  /\ m.holder = Nobody
  /\ rejected' = rejected \cup {m}
  /\ UNCHANGED <<clock, feed, applied, tables, acms, daily, changes>>

-----------------------------------------------------------------------------
(* syncAcmsToAll: the watermark, the merge, the new watermark.             *)

ReadWatermark ==
  /\ sync.pc = "idle"
  /\ sync' = [pc |-> "merge", from |-> watermark, runAt |-> clock]
  /\ UNCHANGED <<clock, events, tables, acms, watermark, changes>>

(* Everything on a first run, afterwards active rows of a later day only.  *)
Selected ==
  IF sync.from = 0
  THEN DOMAIN acms
  ELSE {s \in DOMAIN acms : acms[s].active /\ acms[s].day > Day(sync.from)}

(* Variant: rows of CAMS are overwritten as well. *)
Anyones(s) == TRUE

Unowned(s) == s \in DOMAIN all => all[s].source # "CAMS"

MergeAcms ==
  /\ sync.pc = "merge"
  /\ LET taken == {s \in Selected : Unowned(s)} IN
     all' = [s \in DOMAIN all \cup taken |->
               IF s \in taken THEN AcmsEntry(acms[s], clock) ELSE all[s]]
  /\ ReadClock
  /\ sync' = [sync EXCEPT !.pc = "watermark"]
  /\ UNCHANGED <<events, cams, acms, watermark, changes>>

UpdateWatermark ==
  /\ sync.pc = "watermark"
  /\ watermark' = sync.runAt
  /\ sync' = IdleSync
  /\ UNCHANGED <<clock, events, tables, acms, changes>>

SyncFails ==
  /\ sync.pc # "idle"
  /\ sync' = IdleSync
  /\ UNCHANGED <<clock, events, tables, acms, watermark, changes>>

Next ==
  \/ \E t \in Holders, date \in 0..LastDay : AnnounceOpen(t, date)
  \/ \E t \in Holders : AnnounceClose(t)
  \/ \E m \in feed : ApplyEvent(m) \/ RejectEvent(m)
  \/ \E s \in Seqs, t \in Trustees, active \in BOOLEAN : AcmsChanges(s, t, active)
  \/ NextDay \/ ReadWatermark \/ MergeAcms \/ UpdateWatermark \/ SyncFails

Spec == Init /\ [][Next]_vars

-----------------------------------------------------------------------------
(* Properties.                                                             *)

TypeOK ==
  /\ clock \in Nat
  /\ feed \subseteq Announcements
  /\ applied \subseteq feed /\ rejected \subseteq feed
  /\ DOMAIN cams \subseteq {CamsSeq} /\ DOMAIN all \subseteq Seqs
  /\ DOMAIN acms \subseteq Seqs
  /\ \A s \in DOMAIN cams : cams[s] \in Entries /\ cams[s].source = "CAMS"
  /\ \A s \in DOMAIN all : all[s] \in Entries
  /\ \A s \in DOMAIN acms : acms[s] \in AcmsRows
  /\ watermark \in Nat
  /\ sync \in [pc : {"idle", "merge", "watermark"}, from : Nat, runAt : Nat]
  /\ changes \in Nat

(* Once CAMS owns a row of CMMAP_ALL, the row tells what CMMAP_CAMS tells, *)
(* after every later event, repeated or late, and every daily sync: the    *)
(* two tables never disagree about it and ACMS never takes it back.        *)
OwnedRowsFollowCams ==
  [][\A s \in DOMAIN all :
       all[s].source = "CAMS" =>
         s \in DOMAIN all' /\ s \in DOMAIN cams' /\ all'[s] = cams'[s]]_vars

(* However the events are delivered, reordered and repeated, CMMAP_CAMS    *)
(* tells one of those applied that no other is younger than.               *)
YoungestEventStays ==
  applied # {} =>
    /\ CamsSeq \in DOMAIN cams
    /\ \E m \in applied : /\ cams[CamsSeq] = EventRow(m)
                          /\ \A other \in applied : other.at <= m.at
=============================================================================
