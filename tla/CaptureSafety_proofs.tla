------------------------ MODULE CaptureSafety_proofs ------------------------
(***************************************************************************)
(* Proofs of the safety of CapturePipeline, for any number of rows, stems, *)
(* contents, edits and faults: confirmed states are true of the server,    *)
(* unique indexes hold, sequence numbers agree, and the sweep only holds   *)
(* what was acknowledged.                                                  *)
(*                                                                         *)
(* The inductive invariant has four parts: what an awaiting step may rely  *)
(* on when it resumes (JobSafe), what each row's state says of the server  *)
(* (RowSafe), what each sweep's rows and file are (SweepSafe), and that the *)
(* sequence numbers in use are distinct and accounted for (TableSafe).     *)
(***************************************************************************)
EXTENDS CapturePipeline_proofs

Announced == {"queued"} \cup Uploading \cup {"preview_confirmed", "master_confirmed", "complete"}

\* A step in flight runs inside a drain, on a row still in the state it was
\* claimed in; once confirmed, the server holds what the row carries.
JobSafe ==
    /\ job.at # "idle" => phase = "drain"
    /\ job.at \in {"hash_master", "hash_preview"}
         => Current.state = "discovered" /\ job.seen \in Content
    /\ job.at = "hash_preview" => job.digest \in Content
    /\ job.at \in {"announce", "announced"} => Current.state = "hashed"
    /\ job.at = "announced" => captures[job.row].known
    /\ job.at = "skip" => Current.state = "uploading_preview" /\ Current.preview = None
    /\ job.at \in {"refresh", "refreshed", "read", "send", "stored", "confirmed"}
         => Current.state \in Uploading
    /\ job.at \in {"send", "stored", "confirmed"} => DigestOf(Current) \in Content
    /\ job.at = "confirmed" => Holds(job.row, KindOf(Current), DigestOf(Current))

Vouched(capture, object, kind, digest) ==
    /\ digest \in Content
    /\ capture.asset[kind] = digest
    /\ object[kind] = digest

\* What a row, its capture and its objects must satisfy together.
RowFits(row, capture, object) ==
    /\ row.state \in PreviewDone /\ row.preview # None
         => Vouched(capture, object, "preview", row.previewDigest)
    /\ row.state \in MasterDone => Vouched(capture, object, "master", row.content)
    /\ row.state \in Announced => capture.known
    /\ row.state \in PreAnnounced \cup {"absent"}
         => \A kind \in Kind : capture.asset[kind] = None
    /\ row.state = "absent" => ~capture.known
    /\ capture.known => capture.seq = row.seq

RowSafe == \A r \in Row : RowFits(rows[r], captures[r], objects[r])

\* A sweep's rows, listed or in hand, are complete and stay so, and the file
\* in hand was verified against what its row still carries.
SweepSafe ==
    \A k \in Sweeper :
        /\ \A r \in sweep[k].todo : rows[r].state = "complete"
        /\ LET hand == sweep[k].hand IN
           hand # None => /\ rows[hand.row].state = "complete"
                          /\ rows[hand.row].content = hand.verified

TableSafe == /\ UniqueIndexesHold
             /\ \A r \in Row : rows[r].seq <= hwm

SafetyInv == JobSafe /\ RowSafe /\ SweepSafe /\ TableSafe

-----------------------------------------------------------------------------
(***************************************************************************)
(* What the operations on a row leave alone.                               *)
(***************************************************************************)

\* Same photograph: same files, same digests, same number.
SamePhoto(a, b) ==
    /\ a.master = b.master /\ a.preview = b.preview
    /\ a.content = b.content /\ a.previewDigest = b.previewDigest
    /\ a.seq = b.seq

LEMMA OperationsKeep ==
    ASSUME NEW row \in CaptureRow
    PROVE  /\ \A op \in {RecordFailure(row), ClearFailure(row), ClearMissing(row), NoteMissing(row)} :
                SamePhoto(op, row) /\ op.state = row.state /\ op.key = row.key
           /\ \A next \in RowState :
                /\ SamePhoto(Transition(row, next), row)
                /\ Transition(row, next).state = next
                /\ Transition(row, next).key = row.key
           /\ \A why \in Reason :
                /\ SamePhoto(Reject(row, why), row)
                /\ Reject(row, why).state = "rejected"
                /\ Reject(row, why).key = row.key
           /\ \A why \in Reason :
                /\ SamePhoto(RejectAndRelease(row, why), row)
                /\ RejectAndRelease(row, why).state = "rejected"
                /\ RejectAndRelease(row, why).key = None
           /\ SamePhoto(Rewind(row), row)
           /\ Rewind(row).key = row.key
           /\ Rewind(row).state = IF row.state = "uploading_preview" THEN "queued"
                                  ELSE IF row.state = "uploading_master" THEN "preview_confirmed"
                                  ELSE row.state
<1>1. SamePhoto(RecordFailure(row), row) /\ RecordFailure(row).state = row.state
      /\ RecordFailure(row).key = row.key
  BY DEF RecordFailure, CaptureRow, SamePhoto
<1>2. SamePhoto(ClearFailure(row), row) /\ ClearFailure(row).state = row.state
      /\ ClearFailure(row).key = row.key
  BY DEF ClearFailure, CaptureRow, SamePhoto
<1>3. SamePhoto(ClearMissing(row), row) /\ ClearMissing(row).state = row.state
      /\ ClearMissing(row).key = row.key
  BY DEF ClearMissing, CaptureRow, SamePhoto
<1>4. SamePhoto(NoteMissing(row), row) /\ NoteMissing(row).state = row.state
      /\ NoteMissing(row).key = row.key
  BY DEF NoteMissing, CaptureRow, SamePhoto
<1>5. ASSUME NEW next \in RowState
      PROVE  /\ SamePhoto(Transition(row, next), row)
             /\ Transition(row, next).state = next
             /\ Transition(row, next).key = row.key
  BY DEF Transition, CaptureRow, SamePhoto
<1>6. ASSUME NEW why \in Reason
      PROVE  /\ SamePhoto(Reject(row, why), row)
             /\ Reject(row, why).state = "rejected"
             /\ Reject(row, why).key = row.key
  BY DEF Reject, CaptureRow, SamePhoto
<1>7. ASSUME NEW why \in Reason
      PROVE  /\ SamePhoto(RejectAndRelease(row, why), row)
             /\ RejectAndRelease(row, why).state = "rejected"
             /\ RejectAndRelease(row, why).key = None
  BY DEF RejectAndRelease, CaptureRow, SamePhoto
<1>8. /\ SamePhoto(Rewind(row), row)
      /\ Rewind(row).key = row.key
      /\ Rewind(row).state = IF row.state = "uploading_preview" THEN "queued"
                             ELSE IF row.state = "uploading_master" THEN "preview_confirmed"
                             ELSE row.state
  BY DEF Rewind, CaptureRow, SamePhoto
<1> QED
  BY <1>1, <1>2, <1>3, <1>4, <1>5, <1>6, <1>7, <1>8

LEMMA SameSame ==
    ASSUME NEW a, NEW b, NEW d, SamePhoto(a, b), SamePhoto(b, d)
    PROVE  SamePhoto(a, d)
BY DEF SamePhoto

\* However a step fails, the photograph is the same, and the row stays where
\* it is, is rejected, or is rewound from a mid-upload state.
LEMMA EndingsKeep ==
    ASSUME NEW row \in CaptureRow
    PROVE  /\ SamePhoto(SourceMissing(row), row)
           /\ SourceMissing(row).state \in {row.state, "rejected"}
           /\ SourceMissing(row).key \in {row.key, None}
           /\ SourceMissing(row).key # row.key => SourceMissing(row).state = "rejected"
           /\ SamePhoto(Retry(row), row)
           /\ Retry(row).state \in {row.state, "rejected"}
           /\ Retry(row).state = "rejected" => row.state \in {"discovered", "rejected"}
           /\ Retry(row).key = row.key
           /\ SamePhoto(Mismatch(row), row)
           /\ Mismatch(row).state \in {"rejected", Rewind(row).state}
           /\ Mismatch(row).key = row.key
<1> DEFINE noted   == RecordFailure(NoteMissing(row))
           cleared == RecordFailure(ClearMissing(row))
<1>1. /\ noted \in CaptureRow /\ cleared \in CaptureRow
      /\ SamePhoto(noted, row) /\ noted.state = row.state /\ noted.key = row.key
      /\ SamePhoto(cleared, row) /\ cleared.state = row.state /\ cleared.key = row.key
  <2>1. NoteMissing(row) \in CaptureRow /\ ClearMissing(row) \in CaptureRow
    BY RowOperations
  <2> QED
    BY <2>1, RowOperations, OperationsKeep, SameSame
<1>2. {"source_vanished", "unreadable", "checksum_mismatch_persistent"} \subseteq Reason
  BY DEF Reason
<1>3. /\ SourceMissing(row) \in {noted, RejectAndRelease(noted, "source_vanished")}
      /\ Retry(row) = IF cleared.attempts >= MaxAttempts /\ row.state = "discovered"
                      THEN Reject(cleared, "unreadable") ELSE cleared
      /\ Mismatch(row) \in {Rewind(cleared), Reject(cleared, "checksum_mismatch_persistent")}
  BY DEF SourceMissing, Retry, Mismatch
<1> HIDE DEF noted, cleared
<1>4. /\ SamePhoto(SourceMissing(row), row)
      /\ SourceMissing(row).state \in {row.state, "rejected"}
      /\ SourceMissing(row).key \in {row.key, None}
      /\ SourceMissing(row).key # row.key => SourceMissing(row).state = "rejected"
  BY <1>1, <1>2, <1>3, OperationsKeep, SameSame
<1>5. /\ SamePhoto(Retry(row), row)
      /\ Retry(row).state \in {row.state, "rejected"}
      /\ Retry(row).state = "rejected" => row.state \in {"discovered", "rejected"}
      /\ Retry(row).key = row.key
  BY <1>1, <1>2, <1>3, OperationsKeep, SameSame
<1>6. /\ SamePhoto(Mismatch(row), row)
      /\ Mismatch(row).state \in {"rejected", Rewind(row).state}
      /\ Mismatch(row).key = row.key
  BY <1>1, <1>2, <1>3, OperationsKeep, SameSame
<1> QED
  BY <1>4, <1>5, <1>6

LEMMA FreshFacts ==
    ASSUME NEW in, NEW key, NEW preview, NEW seq
    PROVE  /\ FreshRow(in, key, preview, seq).state = "discovered"
           /\ FreshRow(in, key, preview, seq).key = key
           /\ FreshRow(in, key, preview, seq).seq = seq
           /\ FreshRow(in, key, preview, seq).content = None
BY DEF FreshRow, AbsentRow

-----------------------------------------------------------------------------
(***************************************************************************)
(* RowFits through the operations.                                         *)
(***************************************************************************)

LEMMA StateSets ==
    /\ PreAnnounced = {"discovered", "hashed"}
    /\ Uploading = {"uploading_preview", "uploading_master"}
    /\ Terminal = {"complete", "rejected"}
    /\ Working = {"discovered", "hashed", "uploading_preview", "uploading_master",
                  "queued", "preview_confirmed", "master_confirmed"}
    /\ RowState = {"discovered", "hashed", "uploading_preview", "uploading_master",
                   "queued", "preview_confirmed", "master_confirmed", "complete", "rejected"}
    /\ PreviewDone = {"preview_confirmed", "uploading_master", "master_confirmed", "complete"}
    /\ MasterDone = {"master_confirmed", "complete"}
    /\ Announced = {"queued", "uploading_preview", "uploading_master", "preview_confirmed",
                    "master_confirmed", "complete"}
BY DEF PreAnnounced, Uploading, Terminal, Working, RowState, PreviewDone, MasterDone, Announced

LEMMA FitsSame ==
    ASSUME NEW row, NEW row2, NEW c, NEW o, RowFits(row, c, o),
           SamePhoto(row2, row), row2.state = row.state
    PROVE  RowFits(row2, c, o)
BY DEF RowFits, SamePhoto

LEMMA FitsRejected ==
    ASSUME NEW row, NEW row2, NEW c, NEW o, RowFits(row, c, o),
           row2.seq = row.seq, row2.state = "rejected"
    PROVE  RowFits(row2, c, o)
BY StateSets DEF RowFits

LEMMA FitsRewind ==
    ASSUME NEW row \in CaptureRow, NEW row2, NEW c, NEW o, RowFits(row, c, o),
           SamePhoto(row2, row), row2.state = Rewind(row).state
    PROVE  RowFits(row2, c, o)
BY StateSets, OperationsKeep DEF RowFits, SamePhoto

\* Before the announcement a row may take any digests.
LEMMA FitsUnannounced ==
    ASSUME NEW row, NEW row2, NEW c, NEW o, RowFits(row, c, o),
           row.state \in PreAnnounced, row2.state \in PreAnnounced, row2.seq = row.seq
    PROVE  RowFits(row2, c, o)
BY StateSets DEF RowFits

LEMMA SweepType ==
    ASSUME TypeInv, NEW k \in Sweeper
    PROVE  /\ sweep[k].todo \subseteq Row
           /\ sweep[k].hand # None => sweep[k].hand.row \in Row
BY DEF TypeInv, TypeOK, Sweep, Hand

\* What a sweep rests on is undisturbed while complete rows stay as they are.
LEMMA SweepStays ==
    ASSUME TypeInv, SweepSafe, UNCHANGED sweep,
           \A r \in Row : rows[r].state = "complete"
              => rows'[r].state = "complete" /\ rows'[r].content = rows[r].content
    PROVE  SweepSafe'
BY SweepType DEF SweepSafe

\* A step that writes one row, and nothing the other rows rest on.
LEMMA OneRowSafe ==
    ASSUME TypeInv, RowSafe, SweepSafe, TableSafe,
           NEW r \in Row, NEW row,
           rows' = [rows EXCEPT ![r] = row],
           rows[r].state \notin {"absent", "complete"},
           row.seq = rows[r].seq, row.key \in {rows[r].key, None},
           RowFits(row, captures[r], objects[r]),
           UNCHANGED <<hwm, captures, objects, sweep>>
    PROVE  RowSafe' /\ SweepSafe' /\ TableSafe'
<1>1. /\ rows'[r] = row
      /\ \A s \in Row \ {r} : rows'[s] = rows[s]
  BY DEF TypeInv, TypeOK, SpoolTypeOK
<1>2. RowSafe'
  BY <1>1 DEF RowSafe
<1>3. SweepSafe'
  BY <1>1, SweepStays
<1>4. TableSafe'
  <2>1. Present' \subseteq Present /\ r \in Present
    BY <1>1 DEF Present
  <2> QED
    BY <1>1, <2>1 DEF TableSafe, UniqueIndexesHold
<1> QED
  BY <1>2, <1>3, <1>4

\* A new row comes in under a fresh number and a key no live row has.
LEMMA InsertSafe ==
    ASSUME TypeInv, RowSafe, SweepSafe, TableSafe,
           NEW table \in [Row -> CaptureRow],
           \A s \in Row : /\ SamePhoto(table[s], rows[s])
                          /\ table[s].state = rows[s].state
                          /\ table[s].key \in {rows[s].key, None},
           NEW in, NEW key, NEW preview,
           \A s \in Present : table[s].key # key,
           Insert(table, in, key, preview),
           UNCHANGED <<captures, objects, sweep>>
    PROVE  RowSafe' /\ SweepSafe' /\ TableSafe'
<1> DEFINE fresh == FreshRow(in, key, preview, hwm + 1)
<1>1. FreeId \in Row /\ rows[FreeId].state = "absent"
  BY DEF Insert, FreeId
<1>2. /\ fresh.state = "discovered" /\ fresh.key = key /\ fresh.seq = hwm + 1
      /\ rows' = [table EXCEPT ![FreeId] = fresh] /\ hwm' = hwm + 1 /\ hwm \in Nat
  BY FreshFacts DEF Insert, TypeInv, TypeOK, SpoolTypeOK
<1> HIDE DEF fresh
<1>3. rows'[FreeId] = fresh /\ \A s \in Row \ {FreeId} : rows'[s] = table[s]
  BY <1>1, <1>2
<1>4. RowSafe'
  <2>1. RowFits(rows'[FreeId], captures[FreeId], objects[FreeId])
    BY <1>1, <1>2, <1>3, StateSets DEF RowSafe, RowFits
  <2>2. ASSUME NEW s \in Row \ {FreeId} PROVE RowFits(rows'[s], captures[s], objects[s])
    BY <1>3, FitsSame DEF RowSafe
  <2> QED
    BY <2>1, <2>2 DEF RowSafe
<1>5. SweepSafe'
  BY <1>1, <1>3, SweepStays DEF SamePhoto
<1>6. TableSafe'
  <2>1. \A s \in Row : rows[s].seq \in Nat /\ rows[s].seq <= hwm
    BY DEF TypeInv, TypeOK, SpoolTypeOK, CaptureRow, TableSafe
  <2>2. \A s \in Row \ {FreeId} : rows'[s].seq = rows[s].seq /\ rows'[s].state = rows[s].state
                                  /\ rows'[s].key \in {rows[s].key, None}
    BY <1>3 DEF SamePhoto
  <2>3. \A s \in Present' \ {FreeId} : s \in Present /\ rows'[s].key # key
    BY <1>3, <2>2 DEF Present
  <2>4. \A s \in Row : rows'[s].seq <= hwm'
    BY <1>2, <1>3, <2>1, <2>2
  <2>5. ASSUME NEW s \in Present', NEW t \in Present', s # t
        PROVE  /\ rows'[s].key # None => rows'[s].key # rows'[t].key
               /\ rows'[s].seq # rows'[t].seq
    <3>1. s \in Row /\ t \in Row
      BY DEF Present
    <3>2. CASE s = FreeId
      BY <1>2, <1>3, <2>1, <2>2, <2>3, <2>5, <3>1, <3>2
    <3>3. CASE t = FreeId
      BY <1>2, <1>3, <2>1, <2>2, <2>3, <2>5, <3>1, <3>3
    <3>4. CASE s # FreeId /\ t # FreeId
      BY <2>2, <2>3, <2>5, <3>1, <3>4 DEF TableSafe, UniqueIndexesHold
    <3> QED
      BY <3>2, <3>3, <3>4
  <2> QED
    BY <2>4, <2>5 DEF TableSafe, UniqueIndexesHold
<1> QED
  BY <1>4, <1>5, <1>6

-----------------------------------------------------------------------------
(***************************************************************************)
(* One lemma per family of actions.                                        *)
(***************************************************************************)

LEMMA InitSafe == Init => SafetyInv
<1> SUFFICES ASSUME Init PROVE SafetyInv
  OBVIOUS
<1>1. JobSafe /\ SweepSafe
  BY IdleType DEF Init, JobSafe, SweepSafe, NoSweeps, Resting
<1>2. RowSafe
  BY StateSets DEF Init, SpoolInit, ServerInit, RowSafe, RowFits, AbsentRow, Unknown
<1>3. TableSafe
  BY DEF Init, SpoolInit, TableSafe, UniqueIndexesHold, Present, AbsentRow
<1> QED
  BY <1>1, <1>2, <1>3 DEF SafetyInv

\* Between two awaits of a step, its row is on the way: neither unseen,
\* settled nor waiting.
LEMMA InFlight ==
    ASSUME TypeInv, JobSafe, job.at # "idle"
    PROVE  /\ job.row \in Row
           /\ Current = rows[job.row] /\ Current \in CaptureRow
           /\ Current.state \in {"discovered", "hashed", "uploading_preview", "uploading_master"}
<1>1. job.at \in At
  BY DEF TypeInv, TypeOK, Job
<1> QED
  BY <1>1, CurrentType, StateSets DEF JobSafe, At, Current

LEMMA EndStepSafe ==
    ASSUME TypeInv, SafetyInv, job.at # "idle", NEW row, EndStep(row),
           row.seq = Current.seq, row.key \in {Current.key, None},
           RowFits(row, captures[job.row], objects[job.row]),
           UNCHANGED <<hwm, captures, objects, sweep>>
    PROVE  SafetyInv'
<1>1. /\ job.row \in Row
      /\ Current = rows[job.row]
      /\ Current.state \notin {"absent", "complete"}
  BY InFlight DEF SafetyInv
<1>2. RowSafe' /\ SweepSafe' /\ TableSafe'
  BY <1>1, OneRowSafe DEF EndStep, SafetyInv
<1>3. JobSafe'
  BY IdleType DEF EndStep, JobSafe
<1> QED
  BY <1>2, <1>3 DEF SafetyInv

LEMMA SucceedSafe ==
    ASSUME TypeInv, SafetyInv, job.at # "idle", NEW row \in CaptureRow, Succeed(row),
           row.seq = Current.seq, row.key \in {Current.key, None},
           RowFits(row, captures[job.row], objects[job.row]),
           UNCHANGED <<hwm, captures, objects, sweep>>
    PROVE  SafetyInv'
<1>1. SamePhoto(ClearFailure(row), row) /\ ClearFailure(row).state = row.state
      /\ ClearFailure(row).key = row.key
  BY OperationsKeep
<1>2. RowFits(ClearFailure(row), captures[job.row], objects[job.row])
  BY <1>1, FitsSame
<1> QED
  BY <1>1, <1>2, EndStepSafe DEF Succeed, SamePhoto

\* A step may always end by failing or by rejecting its row.
LEMMA FailuresSafe ==
    ASSUME TypeInv, SafetyInv, job.at # "idle",
           \/ EndStep(SourceMissing(Current))
           \/ EndStep(Retry(Current))
           \/ EndStep(Mismatch(Current))
           \/ Succeed(RecordFailure(Current))
           \/ \E why \in Reason : \/ EndStep(Reject(Current, why))
                                  \/ Succeed(Reject(Current, why))
                                  \/ Succeed(RejectAndRelease(Current, why)),
           UNCHANGED <<hwm, captures, objects, sweep>>
    PROVE  SafetyInv'
<1>1. /\ job.row \in Row /\ Current = rows[job.row] /\ Current \in CaptureRow
      /\ RowFits(Current, captures[job.row], objects[job.row])
  BY InFlight DEF SafetyInv, RowSafe
<1>2. CASE EndStep(SourceMissing(Current))
  <2>1. RowFits(SourceMissing(Current), captures[job.row], objects[job.row])
    BY <1>1, EndingsKeep, FitsSame, FitsRejected DEF SamePhoto
  <2> QED
    BY <1>1, <1>2, <2>1, EndingsKeep, EndStepSafe DEF SamePhoto
<1>3. CASE EndStep(Retry(Current))
  <2>1. RowFits(Retry(Current), captures[job.row], objects[job.row])
    BY <1>1, EndingsKeep, FitsSame, FitsRejected DEF SamePhoto
  <2> QED
    BY <1>1, <1>3, <2>1, EndingsKeep, EndStepSafe DEF SamePhoto
<1>4. CASE EndStep(Mismatch(Current))
  <2>1. RowFits(Mismatch(Current), captures[job.row], objects[job.row])
    BY <1>1, EndingsKeep, FitsRewind, FitsRejected DEF SamePhoto
  <2> QED
    BY <1>1, <1>4, <2>1, EndingsKeep, EndStepSafe DEF SamePhoto
<1>5. CASE Succeed(RecordFailure(Current))
  <2>1. RowFits(RecordFailure(Current), captures[job.row], objects[job.row])
    BY <1>1, OperationsKeep, FitsSame
  <2> QED
    BY <1>1, <1>5, <2>1, OperationsKeep, RowOperations, SucceedSafe DEF SamePhoto
<1>6. ASSUME NEW why \in Reason,
             EndStep(Reject(Current, why)) \/ Succeed(Reject(Current, why))
      PROVE  SafetyInv'
  <2> DEFINE row == Reject(Current, why)
  <2>1. /\ row \in CaptureRow /\ row.state = "rejected"
        /\ row.seq = Current.seq /\ row.key = Current.key
    <3>1. row \in CaptureRow
      BY <1>1, RowOperations
    <3>2. SamePhoto(row, Current) /\ row.state = "rejected" /\ row.key = Current.key
      BY <1>1, OperationsKeep
    <3> QED
      BY <3>1, <3>2 DEF SamePhoto
  <2> HIDE DEF row
  <2>2. RowFits(row, captures[job.row], objects[job.row])
    BY <1>1, <2>1, FitsRejected
  <2>3. EndStep(row) \/ Succeed(row)
    BY <1>6 DEF row
  <2> QED
    BY <2>1, <2>2, <2>3, EndStepSafe, SucceedSafe
<1>7. ASSUME NEW why \in Reason, Succeed(RejectAndRelease(Current, why))
      PROVE  SafetyInv'
  <2> DEFINE row == RejectAndRelease(Current, why)
  <2>1. /\ row \in CaptureRow /\ row.state = "rejected"
        /\ row.seq = Current.seq /\ row.key = None
    <3>1. row \in CaptureRow
      BY <1>1, RowOperations
    <3>2. SamePhoto(row, Current) /\ row.state = "rejected" /\ row.key = None
      BY <1>1, OperationsKeep
    <3> QED
      BY <3>1, <3>2 DEF SamePhoto
  <2>2. Succeed(row)
    BY <1>7
  <2> HIDE DEF row
  <2>3. RowFits(row, captures[job.row], objects[job.row])
    BY <1>1, <2>1, FitsRejected
  <2> QED
    BY <2>1, <2>2, <2>3, SucceedSafe
<1> QED
  BY <1>2, <1>3, <1>4, <1>5, <1>6, <1>7

\* A step that goes on to its next await without writing anything.
LEMMA AwaitSafe ==
    ASSUME SafetyInv, JobSafe', UNCHANGED <<rows, hwm, captures, objects, sweep>>
    PROVE  SafetyInv'
BY DEF SafetyInv, RowSafe, SweepSafe, TableSafe, UniqueIndexesHold, Present

LEMMA DiscoverSafe == ASSUME TypeInv, SafetyInv, NEW g \in Group, Discover(g) PROVE SafetyInv'
<1>0. PICK in \in Scanned(g) : SpoolDiscover(in)
  BY DEF Discover
<1>1. /\ in.key \in Key /\ SpoolDiscover(in)
      /\ in.master \in Path /\ in.seen \in Content /\ in.preview \in Path \cup {None}
      /\ UNCHANGED <<captures, objects, sweep, job, phase>>
      /\ in.key # None
  BY <1>0, ScannedType, SpoolAssumption DEF Discover, TypeInv, serverVars, procVars
<1>2. job.at = "idle"
  BY DEF Discover, SafetyInv, JobSafe
<1>3. JobSafe'
  BY <1>1, <1>2 DEF JobSafe
<1>4. rows \in [Row -> CaptureRow] /\ RowSafe /\ SweepSafe /\ TableSafe
  BY DEF TypeInv, TypeOK, SpoolTypeOK, SafetyInv
<1>5. CASE DiscoverNew(in)
  <2>1. \A s \in Row : SamePhoto(rows[s], rows[s])
    BY DEF SamePhoto
  <2>2. \A s \in Present : rows[s].key # in.key
    BY <1>5 DEF DiscoverNew, Present
  <2> QED
    BY <1>1, <1>3, <1>4, <1>5, <2>1, <2>2, InsertSafe DEF DiscoverNew, SafetyInv
<1>6. ASSUME NEW r \in Row, ReconcileUpgrade(r, in) PROVE SafetyInv'
  <2> DEFINE row == UpgradeMasterToRaw(rows[r], in.master, OrElse(in.preview, rows[r].preview), in.seen)
  <2>1. row.state = "discovered" /\ row.key = rows[r].key /\ row.seq = rows[r].seq
    BY <1>4, UpgradeKeeps
  <2>2. rows' = [rows EXCEPT ![r] = row] /\ UNCHANGED hwm /\ rows[r].state \in PreAnnounced
    BY <1>6 DEF ReconcileUpgrade
  <2> HIDE DEF row
  <2>3. RowFits(row, captures[r], objects[r])
    BY <1>4, <2>1, <2>2, FitsUnannounced, StateSets DEF RowSafe
  <2> QED
    BY <1>1, <1>3, <1>4, <2>1, <2>2, <2>3, OneRowSafe, StateSets DEF SafetyInv
<1>7. ASSUME NEW r \in Row, ReconcileOwnRow(r, in) PROVE SafetyInv'
  <2>1. \A s \in Row : SamePhoto(rows[s], rows[s])
    BY DEF SamePhoto
  <2>2. Insert(rows, in, in.master, None) /\ \A s \in Present : rows[s].key # in.master
    BY <1>7 DEF ReconcileOwnRow, Present
  <2> QED
    BY <1>1, <1>3, <1>4, <2>1, <2>2, InsertSafe DEF SafetyInv
<1>8. ASSUME NEW r \in Row, ReconcilePreview(r, in) PROVE SafetyInv'
  <2> DEFINE row == AttachPreview(rows[r], in.preview)
  <2>1. row.state = "discovered" /\ row.key = rows[r].key /\ row.seq = rows[r].seq
    BY <1>4 DEF AttachPreview, CaptureRow
  <2>2. rows' = [rows EXCEPT ![r] = row] /\ UNCHANGED hwm /\ rows[r].state \in PreAnnounced
    BY <1>8 DEF ReconcilePreview
  <2> HIDE DEF row
  <2>3. RowFits(row, captures[r], objects[r])
    BY <1>4, <2>1, <2>2, FitsUnannounced, StateSets DEF RowSafe
  <2> QED
    BY <1>1, <1>3, <1>4, <2>1, <2>2, <2>3, OneRowSafe, StateSets DEF SafetyInv
<1>9. ASSUME NEW r \in Row, rows[r].key = in.key, ReconcileReuse(r, in) PROVE SafetyInv'
  <2> DEFINE retired == [rows[r] EXCEPT !.key = None]
             table == [rows EXCEPT ![r] = retired]
  <2>1. /\ retired \in CaptureRow /\ SamePhoto(retired, rows[r])
        /\ retired.state = rows[r].state /\ retired.key = None
    <3>1. rows[r] \in CaptureRow
      BY <1>4
    <3>2. retired \in CaptureRow
      BY <3>1 DEF CaptureRow
    <3> QED
      BY <3>1, <3>2 DEF CaptureRow, SamePhoto
  <2> HIDE DEF retired
  <2>2. table \in [Row -> CaptureRow]
    BY <1>4, <2>1
  <2>3. \A s \in Row : /\ SamePhoto(table[s], rows[s]) /\ table[s].state = rows[s].state
                       /\ table[s].key = IF s = r THEN None ELSE rows[s].key
    <3>1. \A s \in Row : SamePhoto(rows[s], rows[s])
      BY DEF SamePhoto
    <3> QED
      BY <1>4, <2>1, <3>1
  <2>4. \A s \in Present : table[s].key # in.key
    <3>1. r \in Present
      BY <1>9, StateSets DEF ReconcileReuse, Present
    <3> QED
      BY <1>1, <1>4, <1>9, <2>3, <3>1 DEF TableSafe, UniqueIndexesHold, Present
  <2>5. Insert(table, in, in.key, in.preview)
    BY <1>9 DEF ReconcileReuse, retired
  <2> HIDE DEF table
  <2> QED
    BY <1>1, <1>3, <1>4, <2>2, <2>3, <2>4, <2>5, InsertSafe DEF SafetyInv
<1> QED
  BY <1>1, <1>5, <1>6, <1>7, <1>8, <1>9 DEF SpoolDiscover

\* A claim that ends its step at once: it writes one row and awaits nothing.
LEMMA AtOnceSafe ==
    ASSUME TypeInv, SafetyInv, NEW r \in Row, NEW state \in Working, Claims(r, state),
           NEW row, AtOnce(r, row), row.seq = rows[r].seq, row.key \in {rows[r].key, None},
           RowFits(row, captures[r], objects[r])
    PROVE  SafetyInv'
<1>1. /\ rows[r].state \notin {"absent", "complete"}
      /\ job' = Idle /\ rows' = [rows EXCEPT ![r] = row]
      /\ UNCHANGED <<hwm, captures, objects, sweep>>
  BY StateSets DEF Claims, AtOnce, serverVars
<1>2. JobSafe'
  BY <1>1, IdleType DEF JobSafe
<1> QED
  BY <1>1, <1>2, OneRowSafe DEF SafetyInv

LEMMA TransitionFits ==
    ASSUME NEW row \in CaptureRow, NEW next \in RowState, NEW c, NEW o,
           RowFits(row, c, o),
           \/ next = "discovered" /\ row.state = "hashed"
           \/ next = "uploading_preview" /\ row.state = "queued"
           \/ next = "uploading_master" /\ row.state = "preview_confirmed"
           \/ next = "preview_confirmed" /\ row.state = "uploading_preview" /\ row.preview = None
           \/ next = "complete" /\ row.state = "master_confirmed"
    PROVE  /\ RowFits(Transition(row, next), c, o)
           /\ RowFits(ClearFailure(Transition(row, next)), c, o)
           /\ ClearFailure(Transition(row, next)).seq = row.seq
           /\ ClearFailure(Transition(row, next)).key = row.key
<1> DEFINE moved == Transition(row, next)
<1>1. moved \in CaptureRow /\ SamePhoto(moved, row) /\ moved.state = next /\ moved.key = row.key
  BY RowOperations, OperationsKeep
<1> HIDE DEF moved
<1>2. RowFits(moved, c, o)
  BY <1>1, StateSets DEF RowFits, SamePhoto
<1>3. SamePhoto(ClearFailure(moved), moved) /\ ClearFailure(moved).state = moved.state
      /\ ClearFailure(moved).key = moved.key
  BY <1>1, OperationsKeep
<1>4. RowFits(ClearFailure(moved), c, o)
  BY <1>2, <1>3, FitsSame
<1>5. ClearFailure(moved).seq = row.seq
  BY <1>1, <1>3 DEF SamePhoto
<1> QED
  BY <1>1, <1>2, <1>3, <1>4, <1>5 DEF moved

LEMMA ClaimSafe == ASSUME TypeInv, SafetyInv, NEW r \in Row, Claim(r) PROVE SafetyInv'
<1>0. /\ rows[r] \in CaptureRow
      /\ RowFits(rows[r], captures[r], objects[r])
      /\ rows \in [Row -> CaptureRow]
  BY DEF TypeInv, TypeOK, SpoolTypeOK, SafetyInv, RowSafe
<1>1. CASE ClaimUpgrade(r)
  <2> DEFINE jpeg == rows[r].master
             raw  == UpgradeMasterToRaw(rows[r], SiblingOf(jpeg),
                        OrElse(rows[r].preview, jpeg), Visible(SiblingOf(jpeg)))
  <2>1. Claims(r, "discovered") /\ AtOnce(r, ClearFailure(raw)) /\ SiblingOf(jpeg) # None
    BY <1>1 DEF ClaimUpgrade, HasRawSibling
  <2>2. jpeg \in Path /\ OrElse(rows[r].preview, jpeg) \in Path \cup {None}
    BY <1>0, <2>1, SiblingType DEF OrElse, CaptureRow, TypeInv
  <2>3. SiblingOf(jpeg) \in Path /\ Visible(SiblingOf(jpeg)) \in Content \cup {None}
    BY <2>1, SiblingType DEF TypeInv
  <2>4. raw \in CaptureRow
    BY <1>0, <2>2, <2>3, UpgradeType
  <2>5. raw.state = "discovered" /\ raw.key = rows[r].key /\ raw.seq = rows[r].seq
    BY <1>0, UpgradeKeeps
  <2> HIDE DEF raw
  <2>6. RowFits(raw, captures[r], objects[r])
    BY <1>0, <2>1, <2>5, FitsUnannounced, StateSets DEF Claims
  <2>7. /\ SamePhoto(ClearFailure(raw), raw) /\ ClearFailure(raw).state = raw.state
        /\ ClearFailure(raw).key = raw.key
    BY <2>4, OperationsKeep
  <2>8. RowFits(ClearFailure(raw), captures[r], objects[r])
    BY <2>6, <2>7, FitsSame
  <2> QED
    BY <2>1, <2>5, <2>7, <2>8, AtOnceSafe, StateSets DEF SamePhoto
<1>2. CASE ClaimHash(r)
  <2>1. JobSafe'
    BY <1>2, VisibleType DEF ClaimHash, Claims, JobSafe, Current, TypeInv, Holds
  <2> QED
    BY <1>2, <2>1, AwaitSafe DEF ClaimHash, Claims, serverVars
<1>3. CASE ClaimAbsent(r)
  <2>1. PICK state \in Working : Claims(r, state) /\ AtOnce(r, SourceMissing(rows[r]))
    BY <1>3, StateSets DEF ClaimAbsent
  <2>2. RowFits(SourceMissing(rows[r]), captures[r], objects[r])
    BY <1>0, EndingsKeep, FitsSame, FitsRejected DEF SamePhoto
  <2> QED
    BY <1>0, <2>1, <2>2, EndingsKeep, AtOnceSafe DEF SamePhoto
<1>4. CASE ClaimStale(r)
  BY <1>0, <1>4, TransitionFits, AtOnceSafe, StateSets DEF ClaimStale, Claims
<1>5. CASE ClaimAnnounce(r)
  <2>1. JobSafe'
    BY <1>5 DEF ClaimAnnounce, Claims, Await, Idle, JobSafe, Current
  <2> QED
    BY <1>5, <2>1, AwaitSafe DEF ClaimAnnounce, Claims, Await, serverVars
<1>6. CASE ClaimPreview(r)
  <2>1. CASE rows[r].preview = None
    <3> DEFINE row == Transition(rows[r], "uploading_preview")
    <3>1. /\ Claims(r, "queued") /\ rows' = [rows EXCEPT ![r] = row]
          /\ job' = [Idle EXCEPT !.at = "skip", !.row = r]
      BY <1>6, <2>1 DEF ClaimPreview
    <3>2. /\ SamePhoto(row, rows[r]) /\ row.state = "uploading_preview"
          /\ row.key = rows[r].key /\ RowFits(row, captures[r], objects[r])
      BY <1>0, <3>1, OperationsKeep, TransitionFits, StateSets DEF Claims
    <3> HIDE DEF row
    <3>3. RowSafe' /\ SweepSafe' /\ TableSafe'
      BY <3>1, <3>2, OneRowSafe DEF Claims, SafetyInv, SamePhoto, serverVars
    <3>4. job'.at = "skip" /\ job'.row = r /\ rows'[r] = row
      BY <1>0, <3>1 DEF Idle
    <3>5. JobSafe'
      BY <2>1, <3>1, <3>2, <3>4 DEF Claims, JobSafe, Current, SamePhoto
    <3> QED
      BY <3>3, <3>5 DEF SafetyInv
  <2>2. CASE rows[r].preview # None
    BY <1>0, <1>6, <2>2, TransitionFits, AtOnceSafe, StateSets DEF ClaimPreview, Claims
  <2> QED
    BY <2>1, <2>2
<1>7. CASE ClaimMaster(r)
  BY <1>0, <1>7, TransitionFits, AtOnceSafe, StateSets DEF ClaimMaster, Claims
<1>8. CASE ClaimUpload(r)
  <2>1. PICK state \in Uploading : Claims(r, state)
    BY <1>8 DEF ClaimUpload
  <2>2. PICK at \in {"refresh", "read"} : Await(r, at)
    BY <1>8 DEF ClaimUpload
  <2>3. job'.at = at /\ job'.row = r /\ rows' = rows
    BY <2>2 DEF Await, Idle
  <2>4. JobSafe'
    BY <2>1, <2>3 DEF Claims, JobSafe, Current
  <2> QED
    BY <2>1, <2>3, <2>4, AwaitSafe DEF Claims, serverVars
<1>9. CASE ClaimComplete(r)
  BY <1>0, <1>9, TransitionFits, AtOnceSafe, StateSets DEF ClaimComplete, Claims
<1> QED
  BY <1>1, <1>2, <1>3, <1>4, <1>5, <1>6, <1>7, <1>8, <1>9 DEF Claim

LEMMA HashedSafe ==
    ASSUME TypeInv, SafetyInv, job.at # "idle", Current.state = "discovered",
           NEW master \in Content \cup {None}, NEW preview \in Content \cup {None},
           Hashed(master, preview), UNCHANGED <<hwm, captures, objects, sweep>>
    PROVE  SafetyInv'
<1> DEFINE hashed == [Current EXCEPT !.state = "hashed",
                        !.content = master, !.observed = master,
                        !.previewDigest = OrElse(preview, @)]
           duplicate == [Current EXCEPT !.state = "rejected",
                        !.reason = "duplicate_content", !.content = None]
<1>1. /\ Current \in CaptureRow /\ job.row \in Row
      /\ RowFits(Current, captures[job.row], objects[job.row])
  BY InFlight DEF SafetyInv, RowSafe
<1>2. Succeed(hashed) \/ Succeed(duplicate)
  BY DEF Hashed
<1>3. hashed.state = "hashed" /\ hashed.seq = Current.seq /\ hashed.key = Current.key
  BY <1>1 DEF CaptureRow
<1>4. duplicate.state = "rejected" /\ duplicate.seq = Current.seq /\ duplicate.key = Current.key
  BY <1>1 DEF CaptureRow
<1>5. ASSUME NEW row \in {hashed, duplicate}, Succeed(row) PROVE SafetyInv'
  <2>1. EndStep(ClearFailure(row))
    BY <1>5 DEF Succeed
  <2>2. /\ ClearFailure(row).state = row.state /\ ClearFailure(row).seq = row.seq
        /\ ClearFailure(row).key = row.key
    BY <1>1, <1>5 DEF ClearFailure, CaptureRow
  <2> HIDE DEF hashed, duplicate
  <2>3. RowFits(ClearFailure(row), captures[job.row], objects[job.row])
    BY <1>1, <1>3, <1>4, <2>2, FitsUnannounced, FitsRejected, StateSets
  <2> QED
    BY <1>3, <1>4, <2>1, <2>2, <2>3, EndStepSafe
<1> QED
  BY <1>2, <1>5

LEMMA HashSafe == ASSUME TypeInv, SafetyInv, HashMaster \/ HashPreview PROVE SafetyInv'
<1>0. /\ job.at \in {"hash_master", "hash_preview"} /\ job.at # "idle"
      /\ UNCHANGED <<hwm, captures, objects, sweep, phase>>
      /\ Current.state = "discovered" /\ job.seen \in Content
      /\ "too_large" \in Reason
  BY DEF HashMaster, HashPreview, InStep, SafetyInv, JobSafe, serverVars, Reason
<1>1. ASSUME NEW p, HashUnstable(p) PROVE SafetyInv'
  BY <1>0, <1>1, FailuresSafe DEF HashUnstable
<1>2. CASE HashMaster
  <2>1. CASE Succeed(Reject(Current, "too_large")) \/ EndStep(SourceMissing(Current))
    BY <1>0, <2>1, FailuresSafe
  <2>2. CASE Hashed(job.seen, None) \/ Hashed(job.seen, job.seen)
    BY <1>0, <2>2, HashedSafe
  <2>3. CASE /\ Visible(Current.preview) # None
             /\ job' = [job EXCEPT !.at = "hash_preview", !.digest = job.seen,
                                   !.seen = Visible(Current.preview)]
             /\ UNCHANGED rows
    <3>1. /\ job'.at = "hash_preview" /\ job'.row = job.row /\ job'.digest \in Content
          /\ job'.seen \in Content /\ rows' = rows
      BY <1>0, <2>3, VisibleType DEF TypeInv, TypeOK, Job
    <3>2. JobSafe'
      BY <1>0, <3>1 DEF SafetyInv, JobSafe, Current
    <3> QED
      BY <1>0, <3>1, <3>2, AwaitSafe
  <2> QED
    BY <1>1, <1>2, <2>1, <2>2, <2>3 DEF HashMaster
<1>3. CASE HashPreview
  <2>1. job.digest \in Content
    BY <1>3 DEF HashPreview, InStep, SafetyInv, JobSafe
  <2> QED
    BY <1>0, <1>1, <1>3, <2>1, HashedSafe DEF HashPreview
<1> QED
  BY <1>2, <1>3

LEMMA AnnounceSafe ==
    ASSUME TypeInv, SafetyInv, AnnounceHandled \/ AnnounceConflict \/ AnnounceReplied
    PROVE  SafetyInv'
<1>0. /\ job.at # "idle" /\ job.row \in Row /\ Current = rows[job.row] /\ Current \in CaptureRow
      /\ RowFits(Current, captures[job.row], objects[job.row])
  <2>1. job.at # "idle"
    BY DEF AnnounceHandled, AnnounceConflict, AnnounceReplied, InStep
  <2> QED
    BY <2>1, InFlight DEF SafetyInv, RowSafe
<1>1. CASE AnnounceHandled
  <2>1. /\ \/ job.at = "announce" /\ job'.at = "announced" /\ Current.state = "hashed"
           \/ job.at = "refresh" /\ job'.at = "refreshed" /\ Current.state \in Uploading
        /\ job'.row = job.row
        /\ UNCHANGED <<rows, hwm, phase, sweep>>
    <3>1. job \in Job /\ job.at \in {"announce", "refresh"} /\ UNCHANGED <<spoolVars, phase, sweep>>
          /\ job' = [job EXCEPT !.at = IF job.at = "announce" THEN "announced" ELSE "refreshed"]
      BY <1>1 DEF AnnounceHandled, Advance, TypeInv, TypeOK
    <3>2. /\ job.at = "announce" => Current.state = "hashed"
          /\ job.at = "refresh" => Current.state \in Uploading
      BY DEF SafetyInv, JobSafe
    <3> QED
      BY <3>1, <3>2 DEF Job, spoolVars
  <2>2. CASE AnnounceRepeats(job.row)
    <3>1. JobSafe'
      BY <2>1, <2>2 DEF AnnounceRepeats, serverVars, SafetyInv, JobSafe, Current
    <3> QED
      BY <2>1, <2>2, <3>1, AwaitSafe DEF AnnounceRepeats, serverVars
  <2>3. CASE AnnounceCreates(job.row, Current.seq, Current.content, Current.previewDigest)
    <3> DEFINE created == [ known |-> TRUE, seq |-> Current.seq,
                 expected |-> [k \in Kind |-> IF k = "master" THEN Current.content
                                                              ELSE Current.previewDigest],
                 asset |-> [k \in Kind |-> None] ]
    <3>1. /\ ~captures[job.row].known /\ objects' = objects
          /\ captures' = [captures EXCEPT ![job.row] = created]
      BY <2>3 DEF AnnounceCreates
    <3>2. /\ created.known /\ created.seq = Current.seq
          /\ \A kind \in Kind : created.asset[kind] = None
      OBVIOUS
    <3> HIDE DEF created
    <3>3. job.at = "announce"
      BY <1>0, <2>1, <3>1, StateSets DEF RowFits
    <3>4. /\ captures'[job.row] = created
          /\ \A s \in Row \ {job.row} : captures'[s] = captures[s]
      BY <1>0, <3>1 DEF TypeInv, TypeOK, ServerTypeOK
    <3>5. RowFits(Current, created, objects[job.row])
      BY <2>1, <3>2, <3>3, StateSets DEF RowFits
    <3>6. RowSafe'
      BY <1>0, <2>1, <3>1, <3>4, <3>5 DEF SafetyInv, RowSafe
    <3>7. JobSafe'
      BY <2>1, <3>2, <3>3, <3>4 DEF SafetyInv, JobSafe, Current
    <3> QED
      BY <2>1, <3>6, <3>7 DEF SafetyInv, SweepSafe, TableSafe, UniqueIndexesHold, Present
  <2> QED
    BY <1>1, <2>2, <2>3 DEF AnnounceHandled
<1>2. CASE AnnounceConflict
  <2> DEFINE renumbered == [Current EXCEPT !.seq = hwm + 1]
             row == Retry(renumbered)
  <2>1. /\ ~captures[job.row].known /\ rows' = [rows EXCEPT ![job.row] = row]
        /\ job' = Idle /\ hwm' = hwm + 1 /\ hwm \in Nat
        /\ UNCHANGED <<captures, objects, sweep>>
    BY <1>2 DEF AnnounceConflict, AnnounceConflicts, EndStep, serverVars, TypeInv, TypeOK,
                SpoolTypeOK
  <2>2. /\ renumbered \in CaptureRow /\ renumbered.seq = hwm + 1
        /\ renumbered.state = Current.state /\ renumbered.key = Current.key
    BY <1>0, <2>1 DEF CaptureRow
  <2>3. Current.state = "hashed"
    <3>1. Current.state = "hashed" \/ Current.state \in Uploading
      BY <1>2 DEF AnnounceConflict, SafetyInv, JobSafe
    <3> QED
      BY <1>0, <2>1, <3>1, StateSets DEF RowFits
  <2> HIDE DEF renumbered
  <2>4. row.seq = hwm + 1 /\ row.state = "hashed" /\ row.key = Current.key
    <3>1. /\ SamePhoto(row, renumbered) /\ row.key = renumbered.key
          /\ row.state \in {renumbered.state, "rejected"}
          /\ row.state = "rejected" => renumbered.state \in {"discovered", "rejected"}
      BY <2>2, EndingsKeep
    <3> HIDE DEF row
    <3> QED
      BY <2>2, <2>3, <3>1 DEF SamePhoto
  <2> HIDE DEF row
  <2>5. RowFits(row, captures[job.row], objects[job.row])
    BY <1>0, <2>1, <2>3, <2>4, StateSets DEF RowFits
  <2>6. rows'[job.row] = row /\ \A s \in Row \ {job.row} : rows'[s] = rows[s]
    BY <1>0, <2>1 DEF TypeInv, TypeOK, SpoolTypeOK
  <2>7. RowSafe'
    BY <2>1, <2>5, <2>6 DEF SafetyInv, RowSafe
  <2>8. SweepSafe'
    BY <1>0, <2>1, <2>3, <2>6, SweepStays DEF SafetyInv
  <2>9. TableSafe'
    <3>1. \A s \in Row : rows[s].seq \in Nat /\ rows[s].seq <= hwm
      BY DEF TypeInv, TypeOK, SpoolTypeOK, CaptureRow, SafetyInv, TableSafe
    <3>2. Present' = Present /\ job.row \in Present
      BY <1>0, <2>3, <2>4, <2>6 DEF Present
    <3>3. UniqueIndexesHold'
      BY <1>0, <2>1, <2>4, <2>6, <3>1, <3>2 DEF SafetyInv, TableSafe, UniqueIndexesHold, Present
    <3>4. \A s \in Row : rows'[s].seq <= hwm'
      BY <2>1, <2>4, <2>6, <3>1
    <3> QED
      BY <3>3, <3>4 DEF TableSafe
  <2>10. JobSafe'
    BY <2>1, IdleType DEF JobSafe
  <2> QED
    BY <2>7, <2>8, <2>9, <2>10 DEF SafetyInv
<1>3. CASE AnnounceReplied
  <2>1. UNCHANGED <<hwm, captures, objects, sweep, phase>>
    BY <1>3 DEF AnnounceReplied, serverVars
  <2>2. CASE InStep("announced") /\ Succeed(Transition(Current, "queued"))
    <3> DEFINE row == Transition(Current, "queued")
    <3>1. captures[job.row].known /\ Current.state = "hashed"
      BY <2>2 DEF InStep, SafetyInv, JobSafe
    <3>2. /\ row \in CaptureRow /\ SamePhoto(row, Current) /\ row.state = "queued"
          /\ row.key = Current.key
      BY <1>0, RowOperations, OperationsKeep, StateSets
    <3> HIDE DEF row
    <3>3. RowFits(row, captures[job.row], objects[job.row])
      BY <1>0, <3>1, <3>2, StateSets DEF RowFits, SamePhoto
    <3>4. Succeed(row)
      BY <2>2 DEF row
    <3> QED
      BY <1>0, <2>1, <3>2, <3>3, <3>4, SucceedSafe DEF SamePhoto
  <2>3. CASE InStep("refreshed") /\ Advance("read") /\ UNCHANGED rows
    <3>1. job'.at = "read" /\ job'.row = job.row
      BY <2>3 DEF Advance, TypeInv, TypeOK, Job
    <3>2. JobSafe'
      BY <2>1, <2>3, <3>1 DEF InStep, SafetyInv, JobSafe, Current
    <3> QED
      BY <2>1, <2>3, <3>2, AwaitSafe
  <2> QED
    BY <1>3, <2>2, <2>3 DEF AnnounceReplied
<1> QED
  BY <1>1, <1>2, <1>3

LEMMA UploadSafe ==
    ASSUME TypeInv, SafetyInv,
           SkipPreview \/ ReadSource \/ SendBytes \/ ConfirmHandled
             \/ ConfirmMismatch \/ ConfirmReplied
    PROVE  SafetyInv'
<1> DEFINE kind == KindOf(Current)
           digest == DigestOf(Current)
<1>0. /\ job.at # "idle" /\ job.row \in Row /\ Current = rows[job.row] /\ Current \in CaptureRow
      /\ RowFits(Current, captures[job.row], objects[job.row])
      /\ job \in Job
  <2>1. job.at # "idle"
    BY DEF SkipPreview, ReadSource, SendBytes, ConfirmHandled, ConfirmMismatch,
           ConfirmReplied, InStep
  <2> QED
    BY <2>1, InFlight DEF SafetyInv, RowSafe, TypeInv, TypeOK
<1>1. CASE SkipPreview
  <2>1. Current.state = "uploading_preview" /\ Current.preview = None
    BY <1>1 DEF SkipPreview, InStep, SafetyInv, JobSafe
  <2>2. /\ RowFits(Transition(Current, "preview_confirmed"), captures[job.row], objects[job.row])
        /\ Transition(Current, "preview_confirmed") \in CaptureRow
        /\ SamePhoto(Transition(Current, "preview_confirmed"), Current)
        /\ Transition(Current, "preview_confirmed").key = Current.key
    BY <1>0, <2>1, TransitionFits, OperationsKeep, RowOperations, StateSets
  <2> QED
    BY <1>0, <1>1, <2>2, SucceedSafe DEF SkipPreview, SamePhoto, serverVars
<1>2. CASE ReadSource
  <2>1. /\ UNCHANGED <<hwm, captures, objects, sweep, phase>> /\ Current.state \in Uploading
        /\ "content_changed_after_announce" \in Reason
    BY <1>2 DEF ReadSource, InStep, serverVars, SafetyInv, JobSafe, Reason
  <2>2. CASE \/ EndStep(SourceMissing(Current))
             \/ Succeed(RejectAndRelease(Current, "content_changed_after_announce"))
    BY <1>0, <2>1, <2>2, FailuresSafe
  <2>3. CASE /\ Visible(SourceOf(Current)) # None
             /\ Visible(SourceOf(Current)) = DigestOf(Current)
             /\ Advance("send") /\ UNCHANGED rows
    <3>1. DigestOf(Current) \in Content
      BY <2>3, VisibleType DEF TypeInv
    <3>2. job'.at = "send" /\ job'.row = job.row
      BY <1>0, <2>3 DEF Advance, Job
    <3>3. phase' = "drain" /\ Current' = Current
      BY <1>0, <2>1, <2>3, <3>2 DEF SafetyInv, JobSafe, Current
    <3>4. DigestOf(Current)' \in Content
      BY <3>1, <3>3 DEF DigestOf
    <3>5. JobSafe'
      BY <2>1, <3>2, <3>3, <3>4 DEF JobSafe
    <3> QED
      BY <2>1, <2>3, <3>5, AwaitSafe
  <2> QED
    BY <1>2, <2>2, <2>3 DEF ReadSource
<1>3. CASE SendBytes
  <2>1. PICK bytes : objects' = [objects EXCEPT ![job.row][kind] = bytes]
    BY <1>3 DEF SendBytes, Store
  <2>2. /\ UNCHANGED <<rows, hwm, captures, sweep, phase>>
        /\ Current.state \in Uploading /\ digest \in Content
        /\ job'.at = "stored" /\ job'.row = job.row
    BY <1>0, <1>3 DEF SendBytes, Store, InStep, Advance, Job, spoolVars, SafetyInv, JobSafe
  <2>3. /\ objects'[job.row] = [objects[job.row] EXCEPT ![kind] = bytes]
        /\ \A s \in Row \ {job.row} : objects'[s] = objects[s]
    BY <1>0, <2>1 DEF TypeInv, TypeOK, ServerTypeOK
  <2>4. RowFits(Current, captures[job.row], objects'[job.row])
    BY <1>0, <2>2, <2>3, StateSets DEF RowFits, Vouched, KindOf
  <2>5. RowSafe'
    BY <1>0, <2>2, <2>3, <2>4 DEF SafetyInv, RowSafe
  <2>6. JobSafe'
    <3>1. phase' = "drain" /\ Current' = Current
      BY <1>0, <2>2 DEF SafetyInv, JobSafe, Current
    <3>2. DigestOf(Current)' \in Content
      BY <2>2, <3>1 DEF DigestOf
    <3> QED
      BY <2>2, <3>1, <3>2 DEF JobSafe
  <2> QED
    BY <2>2, <2>5, <2>6 DEF SafetyInv, SweepSafe, TableSafe, UniqueIndexesHold, Present
<1>4. CASE ConfirmHandled
  <2>1. /\ UNCHANGED <<rows, hwm, objects, sweep, phase>>
        /\ Current.state \in Uploading /\ digest \in Content
        /\ job'.at = "confirmed" /\ job'.row = job.row
        /\ objects[job.row][kind] = digest
        /\ captures' = [captures EXCEPT ![job.row].asset[kind] = digest]
    BY <1>0, <1>4 DEF ConfirmHandled, ConfirmAsset, ConfirmMatches, InStep, Advance, Job,
                      spoolVars, SafetyInv, JobSafe
  <2>2. kind \in Kind
    BY DEF KindOf, Kind
  <2>3. /\ captures'[job.row] = [captures[job.row] EXCEPT !.asset[kind] = digest]
        /\ \A s \in Row \ {job.row} : captures'[s] = captures[s]
    BY <1>0, <2>1 DEF TypeInv, TypeOK, ServerTypeOK
  <2>4. /\ captures'[job.row].known = captures[job.row].known
        /\ captures'[job.row].seq = captures[job.row].seq
        /\ captures'[job.row].asset = [captures[job.row].asset EXCEPT ![kind] = digest]
        /\ captures'[job.row].asset[kind] = digest
    <3>1. captures[job.row] \in Capture
      BY <1>0 DEF TypeInv, TypeOK, ServerTypeOK
    <3> HIDE DEF kind, digest
    <3> QED
      BY <2>2, <2>3, <3>1 DEF Capture
  <2>5. RowFits(Current, captures'[job.row], objects[job.row])
    BY <1>0, <2>1, <2>4, StateSets DEF RowFits, Vouched, KindOf
  <2>6. RowSafe'
    BY <1>0, <2>1, <2>3, <2>5 DEF SafetyInv, RowSafe
  <2>7. JobSafe'
    BY <1>0, <2>1, <2>4 DEF SafetyInv, JobSafe, Current, Holds
  <2> QED
    BY <2>1, <2>6, <2>7 DEF SafetyInv, SweepSafe, TableSafe, UniqueIndexesHold, Present
<1>5. CASE ConfirmMismatch
  BY <1>0, <1>5, FailuresSafe DEF ConfirmMismatch, serverVars
<1>6. CASE ConfirmReplied
  <2>1. /\ Current.state \in Uploading /\ Holds(job.row, kind, digest)
        /\ UNCHANGED <<hwm, captures, objects, sweep>>
    BY <1>6 DEF ConfirmReplied, InStep, SafetyInv, JobSafe, serverVars
  <2>2. PICK next \in {"preview_confirmed", "master_confirmed"} :
          /\ Succeed(Transition(Current, next))
          /\ next = "preview_confirmed" => Current.state = "uploading_preview"
          /\ next = "master_confirmed" => Current.state = "uploading_master"
    BY <1>6, <2>1, StateSets DEF ConfirmReplied, KindOf
  <2> DEFINE row == Transition(Current, next)
  <2>3. /\ row \in CaptureRow /\ SamePhoto(row, Current) /\ row.state = next
        /\ row.key = Current.key
    <3>1. next \in RowState
      BY <2>2, StateSets
    <3>2. row \in CaptureRow
      BY <1>0, <3>1, RowOperations
    <3> QED
      BY <1>0, <3>1, <3>2, OperationsKeep
  <2> HIDE DEF row
  <2>4. /\ Vouched(captures[job.row], objects[job.row], "preview", Current.previewDigest)
             \/ Current.state = "uploading_master"
        /\ Vouched(captures[job.row], objects[job.row], "master", Current.content)
             \/ Current.state = "uploading_preview"
    BY <2>1, StateSets DEF Holds, Vouched, KindOf, DigestOf
  <2>5. RowFits(row, captures[job.row], objects[job.row])
    BY <1>0, <2>2, <2>3, <2>4, StateSets DEF RowFits, SamePhoto
  <2>6. Succeed(row)
    BY <2>2 DEF row
  <2> QED
    BY <1>0, <2>1, <2>3, <2>5, <2>6, SucceedSafe DEF SamePhoto
<1> QED
  BY <1>1, <1>2, <1>3, <1>4, <1>5, <1>6

LEMMA StepFailsSafe == ASSUME TypeInv, SafetyInv, StepFails PROVE SafetyInv'
<1>1. job.at # "idle" /\ "permanent_error" \in Reason
  BY DEF StepFails, RequestFails, AuthorityWithdrawn, RequestRefused, ReadFails,
         Requesting, Replying, Reason
<1>2. UNCHANGED <<hwm, captures, objects, sweep>>
  BY DEF StepFails, RequestFails, AuthorityWithdrawn, RequestRefused, ReadFails,
         serverVars, spoolVars
<1>3. CASE AuthorityWithdrawn
  <2>1. JobSafe'
    BY <1>3, IdleType DEF AuthorityWithdrawn, JobSafe
  <2> QED
    BY <1>2, <1>3, <2>1, AwaitSafe DEF AuthorityWithdrawn, spoolVars
<1>4. CASE EndStep(Retry(Current)) \/ EndStep(Reject(Current, "permanent_error"))
  BY <1>1, <1>2, <1>4, FailuresSafe
<1> QED
  BY <1>3, <1>4 DEF StepFails, RequestFails, RequestRefused, ReadFails

\* Steps that write rows without moving them or touching a photograph.
LEMMA QuietSafe ==
    ASSUME TypeInv, SafetyInv, JobSafe', SweepSafe',
           \A r \in Row : /\ SamePhoto(rows'[r], rows[r])
                          /\ rows'[r].state = rows[r].state
                          /\ rows'[r].key = rows[r].key,
           UNCHANGED <<hwm, captures, objects>>
    PROVE  SafetyInv'
<1>1. RowSafe'
  BY FitsSame DEF SafetyInv, RowSafe
<1>2. TableSafe'
  BY DEF SafetyInv, TableSafe, UniqueIndexesHold, Present, SamePhoto
<1> QED
  BY <1>1, <1>2 DEF SafetyInv

LEMMA JobStaysSafe ==
    ASSUME TypeInv, SafetyInv, UNCHANGED <<job, phase, captures, objects>>,
           \A r \in Row : SamePhoto(rows'[r], rows[r]) /\ rows'[r].state = rows[r].state
    PROVE  JobSafe'
<1>1. CASE job.at = "idle"
  BY <1>1 DEF JobSafe
<1>2. CASE job.at # "idle"
  <2>1. job.row \in Row
    BY <1>2, CurrentType
  <2>2. /\ SamePhoto(Current', Current) /\ Current'.state = Current.state
        /\ captures'[job'.row] = captures[job.row]
    BY <2>1 DEF Current
  <2>3. KindOf(Current') = KindOf(Current) /\ DigestOf(Current') = DigestOf(Current)
    BY <2>2 DEF KindOf, DigestOf, SamePhoto
  <2> QED
    BY <2>2, <2>3 DEF SafetyInv, JobSafe, Holds, SamePhoto
<1> QED
  BY <1>1, <1>2

LEMMA CleanupSafe == ASSUME TypeInv, SafetyInv, CleanupSweep PROVE SafetyInv'
<1>0. /\ sweep \in [Sweeper -> Sweep] /\ SweepSafe
      /\ \A s \in Row : SamePhoto(rows[s], rows[s])
  BY DEF TypeInv, TypeOK, SafetyInv, SamePhoto
<1>1. ASSUME UNCHANGED <<rows, hwm, captures, objects, job, phase>>, SweepSafe'
      PROVE  SafetyInv'
  <2>1. JobSafe'
    BY <1>0, <1>1, JobStaysSafe
  <2> QED
    BY <1>0, <1>1, <2>1, QuietSafe
\* Ending, or having nothing in hand, asks for nothing.
<1>2. ASSUME NEW k \in Sweeper, SweepBegins(k) \/ SweepEnds(k) PROVE SafetyInv'
  <2>1. UNCHANGED <<rows, hwm, captures, objects, job, phase>>
    BY <1>2 DEF SweepBegins, SweepEnds, spoolVars, serverVars
  <2>2. /\ \A j \in Sweeper \ {k} : sweep'[j] = sweep[j]
        /\ sweep'[k].hand = None
        /\ \A r \in sweep'[k].todo : rows[r].state = "complete"
    BY <1>0, <1>2 DEF SweepBegins, SweepEnds, Resting, Sweep
  <2>3. SweepSafe'
    BY <1>0, <2>1, <2>2 DEF SweepSafe
  <2> QED
    BY <1>1, <2>1, <2>3
<1>3. ASSUME NEW k \in Sweeper, NEW r \in Row, SweepVerify(k, r) PROVE SafetyInv'
  <2>1. UNCHANGED <<rows, hwm, captures, objects, job, phase>>
    BY <1>3 DEF SweepVerify, spoolVars, serverVars
  <2>2. /\ \A j \in Sweeper \ {k} : sweep'[j] = sweep[j]
        /\ sweep'[k] = [todo |-> sweep[k].todo \ {r}, hand |-> InHand(r)]
    BY <1>0, <1>3 DEF SweepVerify
  <2>3. InHand(r).row = r /\ InHand(r).verified = rows[r].content
    BY <1>3 DEF SweepVerify, InHand
  <2>4. rows[r].state = "complete"
    BY <1>0, <1>3 DEF SweepVerify, SweepSafe
  <2>5. SweepSafe'
    BY <1>0, <2>1, <2>2, <2>3, <2>4 DEF SweepSafe
  <2> QED
    BY <1>1, <2>1, <2>5
<1>4. ASSUME NEW k \in Sweeper, SweepUnlink(k) PROVE SafetyInv'
  <2>1. UNCHANGED <<rows, hwm, captures, objects, job, phase>>
    BY <1>4 DEF SweepUnlink, spoolVars, serverVars
  <2> DEFINE hand == sweep[k].hand
  <2>2. hand \in Hand /\ sweep[k] \in Sweep
    BY <1>0, <1>4 DEF SweepUnlink, Sweep
  <2>3. /\ [hand EXCEPT !.unlinked = TRUE].row = hand.row
        /\ [hand EXCEPT !.unlinked = TRUE].verified = hand.verified
    BY <2>2 DEF Hand
  <2>4. \/ sweep' = [sweep EXCEPT ![k] = Resting]
        \/ sweep' = [sweep EXCEPT ![k] = [sweep[k] EXCEPT !.hand = [hand EXCEPT !.unlinked = TRUE]]]
    BY <1>4 DEF SweepUnlink
  <2>5. ASSUME sweep'[k] = Resting, \A j \in Sweeper \ {k} : sweep'[j] = sweep[j]
        PROVE  SweepSafe'
    BY <1>0, <2>1, <2>5 DEF SweepSafe, Resting
  <2>6. ASSUME sweep'[k] = [sweep[k] EXCEPT !.hand = [hand EXCEPT !.unlinked = TRUE]],
               \A j \in Sweeper \ {k} : sweep'[j] = sweep[j]
        PROVE  SweepSafe'
    <3>1. /\ sweep'[k].todo = sweep[k].todo
          /\ sweep'[k].hand.row = hand.row /\ sweep'[k].hand.verified = hand.verified
      BY <2>2, <2>3, <2>6 DEF Sweep
    <3>2. rows[hand.row].state = "complete" /\ rows[hand.row].content = hand.verified
      BY <1>0, <1>4 DEF SweepUnlink, SweepSafe
    <3> HIDE DEF hand
    <3>3. ASSUME NEW j \in Sweeper
          PROVE  /\ \A r \in sweep'[j].todo : rows'[r].state = "complete"
                 /\ sweep'[j].hand # None
                      => /\ rows'[sweep'[j].hand.row].state = "complete"
                         /\ rows'[sweep'[j].hand.row].content = sweep'[j].hand.verified
      <4>1. CASE j = k
        BY <1>0, <2>1, <3>1, <3>2, <4>1 DEF SweepSafe
      <4>2. CASE j # k
        BY <1>0, <2>1, <2>6, <4>2 DEF SweepSafe
      <4> QED
        BY <4>1, <4>2
    <3> QED
      BY <3>3 DEF SweepSafe
  <2>7. SweepSafe'
    BY <1>0, <2>4, <2>5, <2>6
  <2> QED
    BY <1>1, <2>1, <2>7
<1>5. ASSUME NEW k \in Sweeper, SweepRecord(k) PROVE SafetyInv'
  <2> DEFINE at  == sweep[k].hand.row
             row == [rows[at] EXCEPT !.deleted = TRUE]
  <2>1. /\ rows' = [rows EXCEPT ![at] = row]
        /\ sweep' = [sweep EXCEPT ![k] = [sweep[k] EXCEPT !.hand = None]]
        /\ at \in Row
        /\ UNCHANGED <<hwm, captures, objects, job, phase>>
    BY <1>5, SweepType DEF SweepRecord, serverVars
  <2>2. /\ rows[at] \in CaptureRow /\ rows \in [Row -> CaptureRow]
        /\ row.state = rows[at].state /\ row.key = rows[at].key
        /\ SamePhoto(row, rows[at])
    BY <2>1 DEF TypeInv, TypeOK, SpoolTypeOK, CaptureRow, SamePhoto
  <2> HIDE DEF row
  <2>3. \A s \in Row : /\ SamePhoto(rows'[s], rows[s])
                       /\ rows'[s].state = rows[s].state /\ rows'[s].key = rows[s].key
    BY <1>0, <2>1, <2>2
  <2>4. /\ \A j \in Sweeper \ {k} : sweep'[j] = sweep[j]
        /\ sweep'[k].todo = sweep[k].todo /\ sweep'[k].hand = None
    BY <1>0, <2>1 DEF Sweep
  <2>5. SweepSafe'
    BY <1>0, <2>3, <2>4, SweepType DEF SweepSafe, SamePhoto
  <2> QED
    BY <2>1, <2>3, <2>5, JobStaysSafe, QuietSafe
<1> QED
  BY <1>2, <1>3, <1>4, <1>5 DEF CleanupSweep

LEMMA EnvironmentSafe == ASSUME TypeInv, SafetyInv, Environment PROVE SafetyInv'
<1>0. \A s \in Row : SamePhoto(rows[s], rows[s])
  BY DEF SamePhoto
<1>1. CASE Edit \/ PullCard \/ ReturnCard
  <2>1. UNCHANGED <<rows, hwm, captures, objects, job, phase, sweep>>
    BY <1>1 DEF Edit, PullCard, ReturnCard, spoolVars, serverVars, procVars
  <2>2. JobSafe'
    BY <1>0, <2>1, JobStaysSafe
  <2> QED
    BY <2>1, <2>2, AwaitSafe
<1>2. CASE GracePasses
  <2> DEFINE later(r) == [rows[r] EXCEPT !.missing = IF @ = "recent" THEN "stale" ELSE @]
  <2>1. rows' = [r \in Row |-> later(r)]
    BY <1>2 DEF GracePasses
  <2>2. ASSUME NEW r \in Row
        PROVE  /\ SamePhoto(later(r), rows[r])
               /\ later(r).state = rows[r].state /\ later(r).key = rows[r].key
    BY DEF TypeInv, TypeOK, SpoolTypeOK, CaptureRow, SamePhoto
  <2> HIDE DEF later
  <2>3. \A r \in Row : /\ SamePhoto(rows'[r], rows[r])
                       /\ rows'[r].state = rows[r].state /\ rows'[r].key = rows[r].key
    BY <2>1, <2>2
  <2>4. UNCHANGED <<hwm, captures, objects, job, phase, sweep>>
    BY <1>2 DEF GracePasses, serverVars, procVars
  <2>5. SweepSafe'
    BY <2>3, <2>4, SweepStays DEF SafetyInv, SamePhoto
  <2> QED
    BY <2>3, <2>4, <2>5, JobStaysSafe, QuietSafe
<1>3. CASE Crash
  <2>1. /\ rows' = [r \in Row |-> Rewind(rows[r])] /\ job' = Idle /\ sweep' = NoSweeps
        /\ UNCHANGED <<hwm, captures, objects>>
    BY <1>3 DEF Crash, Recover, serverVars
  <2>2. ASSUME NEW r \in Row
        PROVE  /\ rows[r] \in CaptureRow /\ rows'[r] = Rewind(rows[r])
               /\ SamePhoto(rows'[r], rows[r]) /\ rows'[r].key = rows[r].key
               /\ rows'[r].state = Rewind(rows[r]).state
               /\ rows'[r].state = "absent" <=> rows[r].state = "absent"
    BY <2>1, OperationsKeep DEF TypeInv, TypeOK, SpoolTypeOK
  <2>3. RowSafe'
    BY <2>1, <2>2, FitsRewind DEF SafetyInv, RowSafe
  <2>4. TableSafe'
    BY <2>1, <2>2 DEF SafetyInv, TableSafe, UniqueIndexesHold, Present, SamePhoto
  <2>5. JobSafe' /\ SweepSafe'
    BY <2>1, IdleType DEF JobSafe, SweepSafe, NoSweeps, Resting
  <2> QED
    BY <2>3, <2>4, <2>5 DEF SafetyInv
<1> QED
  BY <1>1, <1>2, <1>3 DEF Environment

-----------------------------------------------------------------------------

LEMMA NextSafe == TypeInv /\ SafetyInv /\ [Next]_vars => SafetyInv'
<1> SUFFICES ASSUME TypeInv, SafetyInv, [Next]_vars PROVE SafetyInv'
  OBVIOUS
<1>1. CASE BeginDrain \/ DrainEnds
  <2>1. UNCHANGED <<rows, hwm, captures, objects, job, sweep>> /\ job.at = "idle"
    BY <1>1, IdleType DEF BeginDrain, DrainEnds, spoolVars, serverVars, SafetyInv, JobSafe
  <2>2. JobSafe'
    BY <2>1 DEF JobSafe
  <2> QED
    BY <2>1, <2>2, AwaitSafe
<1>2. CASE StepProceeds
  BY <1>2, HashSafe, AnnounceSafe, UploadSafe DEF StepProceeds
<1>3. CASE UNCHANGED vars
  <2>1. UNCHANGED <<rows, hwm, captures, objects, job, phase, sweep>>
    BY <1>3 DEF vars, spoolVars, serverVars, procVars
  <2>2. \A s \in Row : SamePhoto(rows[s], rows[s])
    BY DEF SamePhoto
  <2>3. JobSafe'
    BY <2>1, <2>2, JobStaysSafe
  <2> QED
    BY <2>1, <2>3, AwaitSafe
<1> QED
  BY <1>1, <1>2, <1>3, DiscoverSafe, ClaimSafe, StepFailsSafe, CleanupSafe, EnvironmentSafe
     DEF Next

\* Every reachable state satisfies the whole inductive invariant: the resuming
\* step, the rows, the sweep and the table are all as the code relies on.
THEOREM SpecSafetyInv == Spec => [](TypeInv /\ SafetyInv)
<1>1. Init => TypeInv /\ SafetyInv
  BY InitType, InitSafe
<1>2. (TypeInv /\ SafetyInv) /\ [Next]_vars => (TypeInv /\ SafetyInv)'
  BY NextType, NextSafe
<1> QED
  BY <1>1, <1>2, PTL DEF Spec

\* A row in a *_CONFIRMED state or complete: the server vouches for the digest
\* it carries and still has those bytes, through lost acknowledgements,
\* corrupted transfers, retries, rewinds, crashes and any edit of the card.
THEOREM ConfirmedAlwaysHeld == Spec => []ConfirmedIsHeld
<1>1. RowSafe => ConfirmedIsHeld
  BY DEF RowSafe, RowFits, Vouched, ConfirmedIsHeld, Holds
<1> QED
  BY <1>1, SpecSafetyInv, PTL DEF SafetyInv

\* However many sweeps overlap, none holds a file for deletion unless the
\* server vouches for exactly the bytes it verified.
THEOREM SweepAlwaysAcknowledged == Spec => []SweepHoldsAcknowledged
<1>1. TypeInv /\ SafetyInv => SweepHoldsAcknowledged
  BY SweepType, StateSets DEF SafetyInv, SweepSafe, RowSafe, RowFits, Vouched,
                              SweepHoldsAcknowledged, Holds
<1> QED
  BY <1>1, SpecSafetyInv, PTL

\* The live group keys and the sequence numbers of the captures table are
\* unique, so no insert or renumbering ever throws on a unique index.
THEOREM IndexesAlwaysUnique == Spec => []UniqueIndexesHold
BY SpecSafetyInv, PTL DEF SafetyInv, TableSafe

\* A capture the server knows is filed under the number its row carries.
THEOREM SequencesAlwaysAgree == Spec => []SequenceAgreed
<1>1. RowSafe => SequenceAgreed
  BY DEF RowSafe, RowFits, SequenceAgreed
<1> QED
  BY <1>1, SpecSafetyInv, PTL DEF SafetyInv

=============================================================================
