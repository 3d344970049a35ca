------------------------ MODULE CaptureSteps_proofs ------------------------
(***************************************************************************)
(* Proofs of what a step of CapturePipeline may never do, from the         *)
(* inductive invariant of CaptureSafety_proofs: rows keep to their edges,  *)
(* what was announced is frozen, no digest is stored twice, and every step *)
(* is a step of CapturePromise and of CaptureTable, or stutters there.     *)
(*                                                                         *)
(* The argument: a step leaves every row where it is (Quiet), or moves one *)
(* row along an edge (OneRow), or is a restart (AllRewound).               *)
(***************************************************************************)
EXTENDS CaptureSafety_proofs

Frozen(new, old) ==
    /\ new.content = old.content /\ new.previewDigest = old.previewDigest
    /\ new.master = old.master /\ new.preview = old.preview

Evolves(new, old) ==
    /\ new.state # old.state => new.state \in Allowed[old.state]
    /\ old.state \notin PreAnnounced => Frozen(new, old)

\* A digest is dropped or kept, or is one no other row has.
Settles(r, new) ==
    new.content \in {rows[r].content, None} \/ DigestIsFree(r, new.content)

Keeps(r) == SamePhoto(rows'[r], rows[r]) /\ rows'[r].state = rows[r].state

Quiet == \A r \in Row : Keeps(r)

Moves(r) ==
    /\ \A s \in Row \ {r} : Keeps(s)
    /\ rows[r].state # "absent" => Evolves(rows'[r], rows[r])
    /\ rows[r].state = "absent" => rows'[r].state = "discovered"
    /\ Settles(r, rows'[r])

OneRow == \E r \in Row : Moves(r)

AllRewound ==
    \A r \in Row : /\ SamePhoto(rows'[r], rows[r])
                   /\ rows'[r].state = Rewind(rows[r]).state

StepKind == Quiet \/ OneRow \/ AllRewound

-----------------------------------------------------------------------------

LEMMA Edges ==
    /\ \A state \in {"discovered", "hashed", "queued", "uploading_preview",
                     "preview_confirmed", "uploading_master"} :
         "rejected" \in Allowed[state]
    /\ "hashed" \in Allowed["discovered"]
    /\ "discovered" \in Allowed["hashed"] /\ "queued" \in Allowed["hashed"]
    /\ "uploading_preview" \in Allowed["queued"]
    /\ "queued" \in Allowed["uploading_preview"]
    /\ "preview_confirmed" \in Allowed["uploading_preview"]
    /\ "uploading_master" \in Allowed["preview_confirmed"]
    /\ "preview_confirmed" \in Allowed["uploading_master"]
    /\ "master_confirmed" \in Allowed["uploading_master"]
    /\ "complete" \in Allowed["master_confirmed"]
BY DEF Allowed

\* A row that is the same photograph evolves if it stays or takes an edge.
LEMMA SameEvolves ==
    ASSUME NEW new, NEW old, SamePhoto(new, old),
           new.state = old.state \/ new.state \in Allowed[old.state]
    PROVE  Evolves(new, old)
BY DEF Evolves, Frozen, SamePhoto

LEMMA SameSettles ==
    ASSUME NEW r, NEW new, SamePhoto(new, rows[r])
    PROVE  Settles(r, new)
BY DEF Settles, SamePhoto

\* Before the announcement only the edge matters.
LEMMA UnannouncedEvolves ==
    ASSUME NEW new, NEW old, old.state \in PreAnnounced,
           new.state = old.state \/ new.state \in Allowed[old.state]
    PROVE  Evolves(new, old)
BY DEF Evolves

LEMMA WriteMoves ==
    ASSUME TypeInv, NEW r \in Row, NEW row, rows' = [rows EXCEPT ![r] = row],
           rows[r].state # "absent", Evolves(row, rows[r]), Settles(r, row)
    PROVE  OneRow
<1>1. rows'[r] = row /\ \A s \in Row \ {r} : rows'[s] = rows[s]
  BY DEF TypeInv, TypeOK, SpoolTypeOK
<1>2. Moves(r)
  BY <1>1 DEF Moves, Keeps, SamePhoto
<1> QED
  BY <1>2 DEF OneRow

LEMMA EndStepMoves ==
    ASSUME TypeInv, SafetyInv, job.at # "idle", NEW row, EndStep(row),
           Evolves(row, Current), Settles(job.row, row)
    PROVE  OneRow
<1>1. job.row \in Row /\ Current = rows[job.row] /\ Current.state # "absent"
  BY InFlight DEF SafetyInv
<1> QED
  BY <1>1, WriteMoves DEF EndStep

LEMMA SucceedMoves ==
    ASSUME TypeInv, SafetyInv, job.at # "idle", NEW row \in CaptureRow, Succeed(row),
           Evolves(row, Current), Settles(job.row, row)
    PROVE  OneRow
<1>1. SamePhoto(ClearFailure(row), row) /\ ClearFailure(row).state = row.state
  BY OperationsKeep
<1>2. Evolves(ClearFailure(row), Current) /\ Settles(job.row, ClearFailure(row))
  BY <1>1 DEF Evolves, Frozen, SamePhoto, Settles, DigestIsFree
<1> QED
  BY <1>2, EndStepMoves DEF Succeed

\* Failing or rejecting its row, a step in flight keeps to the edges.
LEMMA FailuresMove ==
    ASSUME TypeInv, SafetyInv, job.at # "idle",
           \/ EndStep(SourceMissing(Current))
           \/ EndStep(Retry(Current))
           \/ EndStep(Mismatch(Current))
           \/ Succeed(RecordFailure(Current))
           \/ \E why \in Reason : \/ EndStep(Reject(Current, why))
                                  \/ Succeed(Reject(Current, why))
                                  \/ Succeed(RejectAndRelease(Current, why))
    PROVE  OneRow
<1>1. /\ Current \in CaptureRow /\ Current = rows[job.row]
      /\ Current.state \in {"discovered", "hashed", "uploading_preview", "uploading_master"}
  BY InFlight DEF SafetyInv
<1>2. "rejected" \in Allowed[Current.state]
  BY <1>1, Edges
<1>3. Rewind(Current).state = Current.state \/ Rewind(Current).state \in Allowed[Current.state]
  BY <1>1, OperationsKeep, Edges
<1>4. \A row \in {SourceMissing(Current), Retry(Current), Mismatch(Current)} :
        Evolves(row, Current) /\ Settles(job.row, row)
  BY <1>1, <1>2, <1>3, EndingsKeep, SameEvolves, SameSettles
<1>5. /\ RecordFailure(Current) \in CaptureRow /\ Evolves(RecordFailure(Current), Current)
      /\ Settles(job.row, RecordFailure(Current))
  BY <1>1, OperationsKeep, RowOperations, SameEvolves, SameSettles
<1>6. ASSUME NEW why \in Reason
      PROVE  /\ Reject(Current, why) \in CaptureRow
             /\ RejectAndRelease(Current, why) \in CaptureRow
             /\ Evolves(Reject(Current, why), Current)
             /\ Evolves(RejectAndRelease(Current, why), Current)
             /\ Settles(job.row, Reject(Current, why))
             /\ Settles(job.row, RejectAndRelease(Current, why))
  <2>1. Reject(Current, why) \in CaptureRow /\ RejectAndRelease(Current, why) \in CaptureRow
    BY <1>1, RowOperations
  <2>2. /\ SamePhoto(Reject(Current, why), Current)
        /\ Reject(Current, why).state = "rejected"
        /\ SamePhoto(RejectAndRelease(Current, why), Current)
        /\ RejectAndRelease(Current, why).state = "rejected"
    BY <1>1, OperationsKeep
  <2> QED
    BY <1>1, <1>2, <2>1, <2>2, SameEvolves, SameSettles
<1> QED
  BY <1>4, <1>5, <1>6, EndStepMoves, SucceedMoves

-----------------------------------------------------------------------------
(***************************************************************************)
(* One lemma per family of actions.                                        *)
(***************************************************************************)

LEMMA InsertMoves ==
    ASSUME TypeInv, NEW table \in [Row -> CaptureRow],
           \A s \in Row : SamePhoto(table[s], rows[s]) /\ table[s].state = rows[s].state,
           NEW in, NEW key, NEW preview, Insert(table, in, key, preview)
    PROVE  OneRow
<1>1. FreeId \in Row /\ rows[FreeId].state = "absent"
  BY DEF Insert, FreeId
<1>2. /\ rows'[FreeId].state = "discovered" /\ rows'[FreeId].content = None
      /\ \A s \in Row \ {FreeId} : rows'[s] = table[s]
  BY <1>1, FreshFacts DEF Insert
<1>3. Moves(FreeId)
  BY <1>1, <1>2 DEF Moves, Keeps, Settles
<1> QED
  BY <1>1, <1>3 DEF OneRow

LEMMA DiscoverMoves == ASSUME TypeInv, NEW g \in Group, Discover(g) PROVE OneRow
<1>1. PICK in \in Scanned(g) : SpoolDiscover(in)
  BY DEF Discover
<1>2. rows \in [Row -> CaptureRow] /\ \A s \in Row : SamePhoto(rows[s], rows[s])
  BY DEF TypeInv, TypeOK, SpoolTypeOK, SamePhoto
<1>3. ASSUME NEW r \in Row, ReconcileUpgrade(r, in) PROVE OneRow
  <2> DEFINE row == UpgradeMasterToRaw(rows[r], in.master, OrElse(in.preview, rows[r].preview), in.seen)
  <2>1. row.state = "discovered" /\ row.content = None
    BY <1>2, UpgradeKeeps
  <2>2. rows' = [rows EXCEPT ![r] = row] /\ rows[r].state \in PreAnnounced
    BY <1>3 DEF ReconcileUpgrade
  <2> HIDE DEF row
  <2>3. Evolves(row, rows[r])
    BY <2>1, <2>2, UnannouncedEvolves, Edges, StateSets
  <2> QED
    BY <2>1, <2>2, <2>3, WriteMoves, StateSets DEF Settles
<1>4. ASSUME NEW r \in Row, ReconcilePreview(r, in) PROVE OneRow
  <2> DEFINE row == AttachPreview(rows[r], in.preview)
  <2>1. row.state = "discovered" /\ row.content = rows[r].content
    BY <1>2 DEF AttachPreview, CaptureRow
  <2>2. rows' = [rows EXCEPT ![r] = row] /\ rows[r].state \in PreAnnounced
    BY <1>4 DEF ReconcilePreview
  <2> HIDE DEF row
  <2>3. Evolves(row, rows[r])
    BY <2>1, <2>2, UnannouncedEvolves, Edges, StateSets
  <2> QED
    BY <2>1, <2>2, <2>3, WriteMoves, StateSets DEF Settles
<1>5. ASSUME NEW r \in Row, ReconcileReuse(r, in) PROVE OneRow
  <2> DEFINE retired == [rows[r] EXCEPT !.key = None]
             table == [rows EXCEPT ![r] = retired]
  <2>1. retired \in CaptureRow /\ SamePhoto(retired, rows[r]) /\ retired.state = rows[r].state
    <3>1. rows[r] \in CaptureRow
      BY <1>2
    <3>2. retired \in CaptureRow
      BY <3>1 DEF CaptureRow
    <3> QED
      BY <3>1, <3>2 DEF CaptureRow, SamePhoto
  <2>2. Insert(table, in, in.key, in.preview)
    BY <1>5 DEF ReconcileReuse
  <2> HIDE DEF retired
  <2>3. /\ table \in [Row -> CaptureRow]
        /\ \A s \in Row : SamePhoto(table[s], rows[s]) /\ table[s].state = rows[s].state
    BY <1>2, <2>1
  <2> HIDE DEF table
  <2> QED
    BY <2>2, <2>3, InsertMoves
<1> QED
  BY <1>1, <1>2, <1>3, <1>4, <1>5, InsertMoves DEF SpoolDiscover, DiscoverNew, ReconcileOwnRow

LEMMA ClaimMoves == ASSUME TypeInv, NEW r \in Row, Claim(r) PROVE StepKind
<1>0. rows[r] \in CaptureRow
  BY DEF TypeInv, TypeOK, SpoolTypeOK
<1>1. CASE rows' = rows
  BY <1>1 DEF StepKind, Quiet, Keeps, SamePhoto
<1>2. ASSUME NEW row, rows' = [rows EXCEPT ![r] = row], Evolves(row, rows[r]),
             Settles(r, row), rows[r].state \in Working
      PROVE  StepKind
  BY <1>2, WriteMoves, StateSets DEF StepKind
<1>3. ASSUME NEW next \in RowState, next \in Allowed[rows[r].state]
      PROVE  /\ Evolves(Transition(rows[r], next), rows[r])
             /\ Settles(r, Transition(rows[r], next))
             /\ Evolves(ClearFailure(Transition(rows[r], next)), rows[r])
             /\ Settles(r, ClearFailure(Transition(rows[r], next)))
  <2> DEFINE row == Transition(rows[r], next)
  <2>1. row \in CaptureRow /\ SamePhoto(row, rows[r]) /\ row.state = next
    BY <1>0, RowOperations, OperationsKeep
  <2> HIDE DEF row
  <2>2. SamePhoto(ClearFailure(row), rows[r]) /\ ClearFailure(row).state = next
    BY <2>1, OperationsKeep, SameSame
  <2>3. /\ Evolves(row, rows[r]) /\ Evolves(ClearFailure(row), rows[r])
        /\ Settles(r, row) /\ Settles(r, ClearFailure(row))
    BY <1>3, <2>1, <2>2, SameEvolves, SameSettles
  <2> QED
    BY <2>3 DEF row
<1>4. CASE ClaimUpgrade(r)
  <2> DEFINE jpeg == rows[r].master
             raw  == UpgradeMasterToRaw(rows[r], SiblingOf(jpeg),
                        OrElse(rows[r].preview, jpeg), Visible(SiblingOf(jpeg)))
  <2>1. /\ rows' = [rows EXCEPT ![r] = ClearFailure(raw)] /\ rows[r].state = "discovered"
        /\ SiblingOf(jpeg) # None
    BY <1>4 DEF ClaimUpgrade, HasRawSibling, Claims, AtOnce
  <2>2. raw \in CaptureRow /\ raw.state = "discovered" /\ raw.content = None
    <3>1. jpeg \in Path /\ OrElse(rows[r].preview, jpeg) \in Path \cup {None}
      BY <1>0, <2>1, SiblingType DEF OrElse, CaptureRow, TypeInv
    <3>2. /\ SiblingOf(jpeg) \in Path /\ SiblingOf(jpeg) \in Raws(jpeg[1])
          /\ Visible(SiblingOf(jpeg)) \in Content \cup {None}
      BY <2>1, SiblingType DEF TypeInv
    <3>3. raw \in CaptureRow
      BY <1>0, <3>1, <3>2, UpgradeType
    <3>4. raw.state = "discovered" /\ raw.content = None
      BY <1>0, UpgradeKeeps
    <3> QED
      BY <3>3, <3>4
  <2> HIDE DEF raw
  <2>3. ClearFailure(raw).state = "discovered" /\ ClearFailure(raw).content = None
    BY <2>2, OperationsKeep DEF SamePhoto
  <2> QED
    BY <1>2, <2>1, <2>3, UnannouncedEvolves, StateSets DEF Settles
<1>5. CASE ClaimHash(r) \/ ClaimAnnounce(r) \/ ClaimUpload(r)
  BY <1>1, <1>5 DEF ClaimHash, ClaimAnnounce, ClaimUpload, Await
<1>6. CASE ClaimAbsent(r)
  <2>1. /\ AtOnce(r, SourceMissing(rows[r]))
        /\ Claims(r, "discovered") \/ Claims(r, "hashed")
    BY <1>6 DEF ClaimAbsent
  <2>2. /\ rows' = [rows EXCEPT ![r] = SourceMissing(rows[r])]
        /\ rows[r].state \in {"discovered", "hashed"}
    BY <2>1 DEF Claims, AtOnce
  <2>3. Evolves(SourceMissing(rows[r]), rows[r]) /\ Settles(r, SourceMissing(rows[r]))
    BY <1>0, <2>2, EndingsKeep, Edges, SameEvolves, SameSettles
  <2> QED
    BY <1>2, <2>2, <2>3, StateSets
<1>7. CASE ClaimStale(r)
  BY <1>2, <1>3, <1>7, Edges, StateSets DEF ClaimStale, Claims, AtOnce
<1>8. CASE ClaimPreview(r)
  <2>1. /\ rows[r].state = "queued"
        /\ \/ rows' = [rows EXCEPT ![r] = Transition(rows[r], "uploading_preview")]
           \/ rows' = [rows EXCEPT ![r] = ClearFailure(Transition(rows[r], "uploading_preview"))]
    BY <1>8 DEF ClaimPreview, Claims, AtOnce
  <2> QED
    BY <1>2, <1>3, <2>1, Edges, StateSets
<1>9. CASE ClaimMaster(r)
  BY <1>2, <1>3, <1>9, Edges, StateSets DEF ClaimMaster, Claims, AtOnce
<1>10. CASE ClaimComplete(r)
  BY <1>2, <1>3, <1>10, Edges, StateSets DEF ClaimComplete, Claims, AtOnce
<1> QED
  BY <1>4, <1>5, <1>6, <1>7, <1>8, <1>9, <1>10 DEF Claim

\* A digest taken, or found taken by another row, before the announcement.
LEMMA HashedMoves ==
    ASSUME TypeInv, SafetyInv, job.at # "idle", Current.state = "discovered",
           NEW master, NEW preview, Hashed(master, preview)
    PROVE  OneRow
<1> DEFINE hashed == [Current EXCEPT !.state = "hashed",
                        !.content = master, !.observed = master,
                        !.previewDigest = OrElse(preview, @)]
           duplicate == [Current EXCEPT !.state = "rejected",
                        !.reason = "duplicate_content", !.content = None]
<1>1. Current \in CaptureRow
  BY InFlight DEF SafetyInv
<1>2. \/ Succeed(hashed) /\ DigestIsFree(job.row, master)
     \/ Succeed(duplicate)
  BY DEF Hashed
<1>3. ASSUME NEW row \in {hashed, duplicate}, Succeed(row),
             row = hashed => DigestIsFree(job.row, master)
      PROVE  OneRow
  <2>1. EndStep(ClearFailure(row))
    BY <1>3 DEF Succeed
  <2>2. ClearFailure(row).state \in {"hashed", "rejected"}
    BY <1>1, <1>3 DEF ClearFailure, CaptureRow
  <2>4. ClearFailure(row).content = IF row = hashed THEN master ELSE None
    BY <1>1, <1>3 DEF ClearFailure, CaptureRow
  <2>5. Settles(job.row, ClearFailure(row))
    <3> HIDE DEF hashed, duplicate
    <3> QED
      BY <1>3, <2>4 DEF Settles
  <2> HIDE DEF hashed, duplicate
  <2>3. Evolves(ClearFailure(row), Current)
    BY <2>2, UnannouncedEvolves, Edges, StateSets
  <2> QED
    BY <2>1, <2>3, <2>5, EndStepMoves
<1>4. hashed # duplicate
  BY <1>1 DEF CaptureRow
<1> HIDE DEF hashed, duplicate
<1> QED
  BY <1>2, <1>3, <1>4

LEMMA HashMoves == ASSUME TypeInv, SafetyInv, HashMaster \/ HashPreview PROVE StepKind
<1>0. /\ job.at # "idle" /\ Current.state = "discovered"
      /\ "too_large" \in Reason
  BY DEF HashMaster, HashPreview, InStep, SafetyInv, JobSafe, Reason
<1>1. ASSUME NEW p, HashUnstable(p) PROVE OneRow
  BY <1>0, <1>1, FailuresMove DEF HashUnstable
<1>2. CASE HashMaster
  <2>1. CASE Succeed(Reject(Current, "too_large")) \/ EndStep(SourceMissing(Current))
    BY <1>0, <2>1, FailuresMove DEF StepKind
  <2>2. CASE Hashed(job.seen, None) \/ Hashed(job.seen, job.seen)
    BY <1>0, <2>2, HashedMoves DEF StepKind
  <2>3. CASE UNCHANGED rows
    BY <2>3 DEF StepKind, Quiet, Keeps, SamePhoto
  <2> QED
    BY <1>1, <1>2, <2>1, <2>2, <2>3 DEF HashMaster, StepKind
<1>3. CASE HashPreview
  BY <1>0, <1>1, <1>3, HashedMoves DEF HashPreview, StepKind
<1> QED
  BY <1>2, <1>3

LEMMA RequestsMove ==
    ASSUME TypeInv, SafetyInv, StepProceeds, ~(HashMaster \/ HashPreview)
    PROVE  StepKind
<1>0. /\ job.at # "idle" /\ job.row \in Row /\ Current \in CaptureRow
      /\ Current = rows[job.row]
      /\ "content_changed_after_announce" \in Reason
  <2>1. job.at # "idle"
    BY DEF StepProceeds, AnnounceHandled, AnnounceConflict, AnnounceReplied, SkipPreview,
           ReadSource, SendBytes, ConfirmHandled, ConfirmMismatch, ConfirmReplied, InStep
  <2> QED
    BY <2>1, CurrentType DEF Reason, Current
<1>1. CASE UNCHANGED rows
  BY <1>1 DEF StepKind, Quiet, Keeps, SamePhoto
<1>2. ASSUME NEW next \in RowState, next \in Allowed[Current.state],
             Succeed(Transition(Current, next))
      PROVE  StepKind
  <2> DEFINE row == Transition(Current, next)
  <2>1. row \in CaptureRow /\ SamePhoto(row, Current) /\ row.state = next
    BY <1>0, RowOperations, OperationsKeep
  <2>2. Succeed(row)
    BY <1>2
  <2> HIDE DEF row
  <2>3. Evolves(row, Current) /\ Settles(job.row, row)
    BY <1>0, <1>2, <2>1, SameEvolves, SameSettles
  <2> QED
    BY <1>0, <2>1, <2>2, <2>3, SucceedMoves DEF StepKind
<1>3. CASE AnnounceHandled \/ SendBytes \/ ConfirmHandled
  BY <1>1, <1>3 DEF AnnounceHandled, SendBytes, ConfirmHandled, spoolVars
<1>4. CASE AnnounceConflict
  <2> DEFINE renumbered == [Current EXCEPT !.seq = hwm + 1]
             row == Retry(renumbered)
  <2>1. EndStep(row) /\ hwm \in Nat
    BY <1>4 DEF AnnounceConflict, TypeInv, TypeOK, SpoolTypeOK
  <2>2. /\ renumbered \in CaptureRow /\ renumbered.state = Current.state
        /\ Frozen(renumbered, Current)
    BY <1>0, <2>1 DEF CaptureRow, Frozen
  <2>3. Current.state \in {"hashed", "uploading_preview", "uploading_master"}
    BY <1>4, StateSets DEF AnnounceConflict, SafetyInv, JobSafe
  <2> HIDE DEF renumbered
  <2>4. /\ SamePhoto(row, renumbered)
        /\ row.state \in {renumbered.state, "rejected"}
    BY <2>2, EndingsKeep
  <2> HIDE DEF row
  <2>5. Evolves(row, Current) /\ Settles(job.row, row)
    BY <1>0, <2>2, <2>3, <2>4, Edges DEF Evolves, Frozen, SamePhoto, Settles
  <2> QED
    BY <1>0, <2>1, <2>5, EndStepMoves DEF StepKind
<1>5. CASE AnnounceReplied
  <2>1. CASE InStep("announced") /\ Succeed(Transition(Current, "queued"))
    <3>1. Current.state = "hashed"
      BY <2>1 DEF InStep, SafetyInv, JobSafe
    <3> QED
      BY <1>2, <2>1, <3>1, Edges, StateSets
  <2> QED
    BY <1>1, <1>5, <2>1 DEF AnnounceReplied
<1>6. CASE SkipPreview
  <2>1. Current.state = "uploading_preview" /\ Succeed(Transition(Current, "preview_confirmed"))
    BY <1>6 DEF SkipPreview, InStep, SafetyInv, JobSafe
  <2> QED
    BY <1>2, <2>1, Edges, StateSets
<1>7. CASE ReadSource
  BY <1>0, <1>1, <1>7, FailuresMove DEF ReadSource, StepKind
<1>8. CASE ConfirmMismatch
  BY <1>0, <1>8, FailuresMove DEF ConfirmMismatch, StepKind
<1>9. CASE ConfirmReplied
  <2>1. Current.state \in Uploading
    BY <1>9 DEF ConfirmReplied, InStep, SafetyInv, JobSafe
  <2>2. CASE Current.state = "uploading_preview"
    <3>1. Succeed(Transition(Current, "preview_confirmed"))
      BY <1>9, <2>2 DEF ConfirmReplied, KindOf
    <3> QED
      BY <1>2, <2>2, <3>1, Edges, StateSets
  <2>3. CASE Current.state = "uploading_master"
    <3>1. Succeed(Transition(Current, "master_confirmed"))
      BY <1>9, <2>3 DEF ConfirmReplied, KindOf
    <3> QED
      BY <1>2, <2>3, <3>1, Edges, StateSets
  <2> QED
    BY <2>1, <2>2, <2>3, StateSets
<1> QED
  BY <1>3, <1>4, <1>5, <1>6, <1>7, <1>8, <1>9 DEF StepProceeds

LEMMA StepFailsMoves == ASSUME TypeInv, SafetyInv, StepFails PROVE StepKind
<1>1. job.at # "idle" /\ "permanent_error" \in Reason
  BY DEF StepFails, RequestFails, AuthorityWithdrawn, RequestRefused, ReadFails,
         Requesting, Replying, Reason
<1>2. CASE AuthorityWithdrawn
  BY <1>2 DEF AuthorityWithdrawn, spoolVars, StepKind, Quiet, Keeps, SamePhoto
<1>3. CASE EndStep(Retry(Current)) \/ EndStep(Reject(Current, "permanent_error"))
  BY <1>1, <1>3, FailuresMove DEF StepKind
<1> QED
  BY <1>2, <1>3 DEF StepFails, RequestFails, RequestRefused, ReadFails

LEMMA OthersMove ==
    ASSUME TypeInv, CleanupSweep \/ Environment \/ BeginDrain \/ DrainEnds \/ UNCHANGED vars
    PROVE  StepKind
<1>1. CASE UNCHANGED rows
  BY <1>1 DEF StepKind, Quiet, Keeps, SamePhoto
<1>2. ASSUME NEW k \in Sweeper, SweepRecord(k) PROVE StepKind
  <2> DEFINE at  == sweep[k].hand.row
             row == [rows[at] EXCEPT !.deleted = TRUE]
  <2>1. rows' = [rows EXCEPT ![at] = row] /\ at \in Row
    BY <1>2, SweepType DEF SweepRecord
  <2>2. /\ rows \in [Row -> CaptureRow] /\ row.state = rows[at].state
        /\ SamePhoto(row, rows[at])
    BY <2>1 DEF TypeInv, TypeOK, SpoolTypeOK, CaptureRow, SamePhoto
  <2> HIDE DEF row
  <2>3. Quiet
    BY <2>1, <2>2 DEF Quiet, Keeps, SamePhoto
  <2> QED
    BY <2>3 DEF StepKind
<1>3. CASE GracePasses
  <2> DEFINE later(r) == [rows[r] EXCEPT !.missing = IF @ = "recent" THEN "stale" ELSE @]
  <2>1. rows' = [r \in Row |-> later(r)]
    BY <1>3 DEF GracePasses
  <2>2. ASSUME NEW r \in Row
        PROVE  SamePhoto(later(r), rows[r]) /\ later(r).state = rows[r].state
    BY DEF TypeInv, TypeOK, SpoolTypeOK, CaptureRow, SamePhoto
  <2> HIDE DEF later
  <2>3. Quiet
    BY <2>1, <2>2 DEF Quiet, Keeps
  <2> QED
    BY <2>3 DEF StepKind
<1>4. CASE Crash
  <2>1. rows' = [r \in Row |-> Rewind(rows[r])]
    BY <1>4 DEF Crash, Recover
  <2>2. AllRewound
    BY <2>1, OperationsKeep DEF AllRewound, TypeInv, TypeOK, SpoolTypeOK
  <2> QED
    BY <2>2 DEF StepKind
<1> QED
  BY <1>1, <1>2, <1>3, <1>4
     DEF CleanupSweep, Environment, BeginDrain, DrainEnds, SweepBegins, SweepVerify,
         SweepUnlink, SweepEnds, Edit, PullCard, ReturnCard, spoolVars, vars

LEMMA NextMoves == ASSUME TypeInv, SafetyInv, [Next]_vars PROVE StepKind
BY DiscoverMoves, ClaimMoves, HashMoves, RequestsMove, StepFailsMoves, OthersMove
   DEF Next, StepProceeds, StepKind

\* No other step changes what the server has.
LEMMA OnlyRequestsReachTheServer ==
    ASSUME [Next]_vars
    PROVE  /\ ~AnnounceHandled /\ ~ConfirmHandled => captures' = captures
           /\ ~AnnounceHandled /\ ~ConfirmHandled /\ ~SendBytes => objects' = objects
<1>1. ASSUME NEW r \in Row, Claim(r) PROVE UNCHANGED <<captures, objects>>
  BY <1>1 DEF Claim, ClaimUpgrade, ClaimHash, ClaimAbsent, ClaimStale, ClaimAnnounce,
              ClaimPreview, ClaimMaster, ClaimUpload, ClaimComplete, Claims, serverVars
<1>2. ASSUME StepProceeds, ~AnnounceHandled, ~ConfirmHandled
      PROVE  captures' = captures /\ (~SendBytes => objects' = objects)
  BY <1>2 DEF StepProceeds, HashMaster, HashPreview, AnnounceConflict, AnnounceReplied,
              SkipPreview, ReadSource, SendBytes, Store, ConfirmMismatch, ConfirmReplied,
              serverVars
<1>3. ASSUME StepFails \/ CleanupSweep \/ Environment PROVE UNCHANGED <<captures, objects>>
  BY <1>3 DEF StepFails, RequestFails, AuthorityWithdrawn, RequestRefused, ReadFails,
              CleanupSweep, SweepBegins, SweepVerify, SweepUnlink, SweepRecord, SweepEnds,
              Environment, Edit, PullCard, ReturnCard, GracePasses, Crash, serverVars
<1> QED
  BY <1>1, <1>2, <1>3 DEF Next, Discover, BeginDrain, DrainEnds, serverVars, vars

-----------------------------------------------------------------------------

LEMMA StepKindEvolves ==
    ASSUME TypeInv, StepKind, NEW r \in Present
    PROVE  Evolves(rows'[r], rows[r])
<1>1. r \in Row /\ rows[r].state # "absent" /\ rows[r] \in CaptureRow
  BY DEF Present, TypeInv, TypeOK, SpoolTypeOK
<1>2. CASE Keeps(r)
  BY <1>2, SameEvolves DEF Keeps
<1>3. CASE AllRewound
  <2>1. SamePhoto(rows'[r], rows[r]) /\ rows'[r].state = Rewind(rows[r]).state
    BY <1>1, <1>3 DEF AllRewound
  <2>2. rows'[r].state = rows[r].state \/ rows'[r].state \in Allowed[rows[r].state]
    BY <1>1, <2>1, OperationsKeep, Edges
  <2> QED
    BY <2>1, <2>2, SameEvolves
<1> QED
  BY <1>1, <1>2, <1>3 DEF StepKind, Quiet, OneRow, Moves

\* Rows only move along the edges transition() accepts, also where the code
\* writes the state without it; no crash or mismatch undoes a confirmation.
THEOREM EdgesAlwaysKept == Spec => MovesAlongEdges
<1>1. TypeInv /\ SafetyInv /\ [Next]_vars
        => \A r \in Present : rows'[r].state # rows[r].state
                                => rows'[r].state \in Allowed[rows[r].state]
  BY NextMoves, StepKindEvolves DEF Evolves
<1> QED
  BY <1>1, SpecSafetyInv, PTL DEF Spec, MovesAlongEdges

\* What the server was told stays what the row says: once a row has left the
\* announce window, nothing changes its files or their digests.
THEOREM DigestsAlwaysFrozen == Spec => DigestsFrozen
<1>1. TypeInv /\ SafetyInv /\ [Next]_vars
        => \A r \in Present : rows[r].state \notin PreAnnounced
             => /\ rows'[r].content = rows[r].content
                /\ rows'[r].previewDigest = rows[r].previewDigest
                /\ rows'[r].master = rows[r].master
                /\ rows'[r].preview = rows[r].preview
  BY NextMoves, StepKindEvolves DEF Evolves, Frozen
<1> QED
  BY <1>1, SpecSafetyInv, PTL DEF Spec, DigestsFrozen

-----------------------------------------------------------------------------
(***************************************************************************)
(* No digest is stored twice: rows never share a digest, and what the      *)
(* server confirmed of a row is the digest the row carries.                *)
(***************************************************************************)

DigestInv ==
    /\ \A r, s \in Row : r # s /\ rows[r].content # None
                           => rows[r].content # rows[s].content
    /\ \A r \in Row : captures[r].asset["master"] \in {None, rows[r].content}

\* A confirmed asset is the digest of the row in flight, or nothing changed.
LEMMA ConfirmedAsset ==
    ASSUME TypeInv, SafetyInv, [Next]_vars, NEW r \in Row
    PROVE  \/ captures'[r].asset["master"] = captures[r].asset["master"]
           \/ captures'[r].asset["master"] \in {None, rows[r].content} /\ rows' = rows
<1>1. CASE captures' = captures
  BY <1>1
<1>2. CASE AnnounceHandled
  <2>1. job.row \in Row /\ rows' = rows
    BY <1>2, CurrentType DEF AnnounceHandled, spoolVars
  <2>2. CASE AnnounceRepeats(job.row)
    BY <1>1, <2>2 DEF AnnounceRepeats, serverVars
  <2>3. CASE AnnounceCreates(job.row, Current.seq, Current.content, Current.previewDigest)
    BY <2>1, <2>3 DEF AnnounceCreates, TypeInv, TypeOK, ServerTypeOK, Kind
  <2> QED
    BY <1>2, <2>2, <2>3 DEF AnnounceHandled
<1>3. CASE ConfirmHandled
  <2> DEFINE kind == KindOf(Current)
             digest == DigestOf(Current)
  <2>1. /\ rows' = rows /\ job.row \in Row /\ Current = rows[job.row]
        /\ Current.state \in Uploading
        /\ captures' = [captures EXCEPT ![job.row].asset[kind] = digest]
    BY <1>3, CurrentType
       DEF ConfirmHandled, ConfirmAsset, InStep, SafetyInv, JobSafe, spoolVars, Current
  <2>2. kind \in Kind /\ (kind = "master" => digest = Current.content)
    BY <2>1, StateSets DEF KindOf, DigestOf, Kind
  <2>3. /\ captures'[job.row] = [captures[job.row] EXCEPT !.asset[kind] = digest]
        /\ \A s \in Row \ {job.row} : captures'[s] = captures[s]
    BY <2>1 DEF TypeInv, TypeOK, ServerTypeOK
  <2>4. captures'[job.row].asset = [captures[job.row].asset EXCEPT ![kind] = digest]
    <3>1. captures[job.row] \in Capture
      BY <2>1 DEF TypeInv, TypeOK, ServerTypeOK
    <3> HIDE DEF kind, digest
    <3> QED
      BY <2>3, <3>1 DEF Capture
  <2>5. captures[job.row].asset \in [Kind -> Content \cup {None}]
    BY <2>1 DEF TypeInv, TypeOK, ServerTypeOK, Capture
  <2> HIDE DEF kind, digest
  <2> QED
    BY <2>1, <2>2, <2>3, <2>4, <2>5 DEF Kind
<1>4. CASE ~AnnounceHandled /\ ~ConfirmHandled
  BY <1>1, <1>4, OnlyRequestsReachTheServer
<1> QED
  BY <1>2, <1>3, <1>4

LEMMA NextDigest == TypeInv /\ SafetyInv /\ DigestInv /\ [Next]_vars => DigestInv'
<1> SUFFICES ASSUME TypeInv, SafetyInv, DigestInv, [Next]_vars PROVE DigestInv'
  OBVIOUS
<1>1. StepKind
  BY NextMoves
<1>2. ASSUME \A r \in Row : rows'[r].content = rows[r].content
      PROVE  DigestInv'
  BY <1>2, ConfirmedAsset DEF DigestInv
<1>3. ASSUME NEW r \in Row, Moves(r) PROVE DigestInv'
  <2>1. \A s \in Row \ {r} : rows'[s].content = rows[s].content
    BY <1>3 DEF Moves, Keeps, SamePhoto
  <2>2. CASE rows'[r].content = rows[r].content
    BY <1>2, <2>1, <2>2
  <2>3. CASE rows'[r].content # rows[r].content
    <3>1. rows[r].state \in PreAnnounced \cup {"absent"}
      BY <1>3, <2>3 DEF Moves, Evolves, Frozen
    <3>2. captures[r].asset["master"] = None
      BY <3>1 DEF SafetyInv, RowSafe, RowFits, Kind
    <3>3. captures'[r].asset["master"] = None
      BY <2>3, <3>2, ConfirmedAsset
    <3>4. \A s \in Row \ {r} : captures'[s].asset["master"] \in {None, rows'[s].content}
      BY <2>1, <2>3, ConfirmedAsset DEF DigestInv
    <3>5. \A s, u \in Row : s # u /\ rows'[s].content # None
                              => rows'[s].content # rows'[u].content
      BY <1>3, <2>1, <2>3 DEF Moves, Settles, DigestIsFree, DigestInv
    <3> QED
      BY <3>3, <3>4, <3>5 DEF DigestInv
  <2> QED
    BY <2>2, <2>3
<1> QED
  BY <1>1, <1>2, <1>3 DEF StepKind, Quiet, Keeps, OneRow, AllRewound, SamePhoto

\* One photograph, one capture: no two captures hold the same master bytes,
\* whatever is renamed, announced again, rediscovered, lost or killed.
THEOREM NothingEverStoredTwice == Spec => []NothingStoredTwice
<1>1. Init => DigestInv
  BY DEF Init, SpoolInit, ServerInit, DigestInv, AbsentRow, Unknown, Kind
<1>2. (TypeInv /\ SafetyInv) /\ DigestInv /\ [Next]_vars => DigestInv'
  BY NextDigest
<1>3. DigestInv => NothingStoredTwice
  BY DEF DigestInv, NothingStoredTwice
<1> QED
  BY <1>1, <1>2, <1>3, SpecSafetyInv, PTL DEF Spec

-----------------------------------------------------------------------------
(***************************************************************************)
(* The pipeline implements CapturePromise.                                 *)
(***************************************************************************)

ToldOf == [r \in Row |-> Told(rows[r].state)]
Intact == {r \in Row : Holds(r, "master", rows[r].content)}

LEMMA InitPromise == Init => Promise!Init
<1> SUFFICES ASSUME Init PROVE Promise!Init
  OBVIOUS
<1>1. \A r \in Row : Told(rows[r].state) = "unseen" /\ rows[r].content = None
  BY DEF Init, SpoolInit, AbsentRow, Told
<1>2. \A r \in Row : ~Holds(r, "master", rows[r].content)
  BY <1>1, NoneIsNoContent DEF Holds
<1> QED
  BY <1>1, <1>2 DEF Promise!Init

\* A row the server has no confirmed asset of is not intact.
LEMMA UnconfirmedNotIntact ==
    ASSUME NEW r \in Row, NEW d, captures[r].asset["master"] = None
    PROVE  ~Holds(r, "master", d)
BY NoneIsNoContent DEF Holds

\* While the server stays as it is, what it holds of each row does too.
LEMMA IntactStays ==
    ASSUME TypeInv, SafetyInv, StepKind, UNCHANGED <<captures, objects>>
    PROVE  Intact' = Intact
<1>1. ASSUME NEW r \in Row
      PROVE  Holds(r, "master", rows'[r].content) <=> Holds(r, "master", rows[r].content)
  <2>1. CASE rows[r].state \in PreAnnounced \cup {"absent"}
    <3>1. captures[r].asset["master"] = None
      BY <2>1 DEF SafetyInv, RowSafe, RowFits, Kind
    <3> QED
      BY <3>1, UnconfirmedNotIntact
  <2>2. CASE rows[r].state \notin PreAnnounced \cup {"absent"}
    <3>1. Evolves(rows'[r], rows[r])
      BY <2>2, StepKindEvolves DEF Present
    <3> QED
      BY <2>2, <3>1 DEF Evolves, Frozen
  <2> QED
    BY <2>1, <2>2
<1>2. \A r \in Row : Holds(r, "master", rows[r].content)'
                       <=> Holds(r, "master", rows'[r].content)
  BY DEF Holds
<1> QED
  BY <1>1, <1>2 DEF Intact

\* What the photographer is told of a row that moves along an edge.
LEMMA ToldMoves ==
    ASSUME TypeInv, SafetyInv, SafetyInv', NEW r \in Row, Moves(r),
           UNCHANGED <<captures, objects>>
    PROVE  \/ Told(rows'[r].state) = Told(rows[r].state)
           \/ Told(rows[r].state) = "unseen" /\ Told(rows'[r].state) = "working"
           \/ Told(rows[r].state) = "working" /\ Told(rows'[r].state) = "given_up"
           \/ /\ Told(rows[r].state) = "working" /\ Told(rows'[r].state) = "safe"
              /\ r \in Intact'
<1>1. rows[r] \in CaptureRow
  BY DEF TypeInv, TypeOK, SpoolTypeOK
<1>2. CASE rows[r].state = "absent"
  BY <1>2 DEF Moves, Told, MasterDone
<1>3. CASE rows[r].state # "absent" /\ rows'[r].state = rows[r].state
  BY <1>3
<1>4. CASE rows[r].state # "absent" /\ rows'[r].state # rows[r].state
  <2>1. rows'[r].state \in Allowed[rows[r].state]
    BY <1>4 DEF Moves, Evolves
  <2>2. rows[r].state \in RowState
    BY <1>1, <1>4 DEF CaptureRow
  <2>3. CASE rows'[r].state = "master_confirmed"
    <3>1. rows[r].state = "uploading_master"
      BY <2>1, <2>2, <2>3, StateSets DEF Allowed
    <3>2. Holds(r, "master", rows[r].content)'
      BY <2>3, StateSets DEF SafetyInv, RowSafe, RowFits, Vouched, Holds
    <3> QED
      BY <2>3, <3>1, <3>2 DEF Told, Intact, MasterDone
  <2>4. CASE rows'[r].state # "master_confirmed"
    <3>1. \/ rows[r].state = "master_confirmed" /\ rows'[r].state = "complete"
          \/ /\ rows[r].state \notin {"absent", "rejected", "complete", "master_confirmed"}
             /\ rows'[r].state \notin {"absent", "complete", "master_confirmed"}
      BY <2>1, <2>2, <2>4, StateSets DEF Allowed
    <3> QED
      BY <3>1 DEF Told, MasterDone
  <2> QED
    BY <2>3, <2>4
<1> QED
  BY <1>2, <1>3, <1>4

\* A step at which the server stays as it is takes on, vouches for or gives
\* up one photograph, or tells nothing new.
LEMMA RowStepPromise ==
    ASSUME TypeInv, SafetyInv, SafetyInv', StepKind, UNCHANGED <<captures, objects>>
    PROVE  [Promise!Next]_(Promise!promise)
<1>1. Intact' = Intact
  BY IntactStays
<1>2. CASE \A r \in Row : Told(rows'[r].state) = Told(rows[r].state)
  <2>1. ToldOf' = ToldOf
    BY <1>2 DEF ToldOf
  <2> QED
    BY <1>1, <2>1 DEF Promise!promise, ToldOf, Intact
<1>3. ASSUME NEW r \in Row, Moves(r) PROVE [Promise!Next]_(Promise!promise)
  <2>1. \A s \in Row \ {r} : Told(rows'[s].state) = Told(rows[s].state)
    BY <1>3 DEF Moves, Keeps
  <2>2. ToldOf' = [ToldOf EXCEPT ![r] = Told(rows'[r].state)]
    BY <2>1 DEF ToldOf
  <2>3. ToldOf[r] = Told(rows[r].state)
    BY DEF ToldOf
  <2>4. CASE Told(rows'[r].state) = Told(rows[r].state)
    BY <1>2, <2>1, <2>4
  <2>5. CASE Told(rows[r].state) = "unseen" /\ Told(rows'[r].state) = "working"
    <3>1. Promise!TakeOn(r)
      BY <1>1, <2>2, <2>3, <2>5 DEF Promise!TakeOn, Promise!Tell, ToldOf, Intact
    <3> QED
      BY <3>1 DEF Promise!Next
  <2>6. CASE Told(rows[r].state) = "working" /\ Told(rows'[r].state) = "given_up"
    <3>1. Promise!GiveUp(r)
      BY <1>1, <2>2, <2>3, <2>6 DEF Promise!GiveUp, Promise!Tell, ToldOf, Intact
    <3> QED
      BY <3>1 DEF Promise!Next
  <2>7. CASE /\ Told(rows[r].state) = "working" /\ Told(rows'[r].state) = "safe"
             /\ r \in Intact'
    <3>1. Promise!Vouch(r)
      BY <1>1, <2>2, <2>3, <2>7 DEF Promise!Vouch, Promise!Tell, ToldOf, Intact
    <3> QED
      BY <3>1 DEF Promise!Next
  <2> QED
    BY <1>3, <2>4, <2>5, <2>6, <2>7, ToldMoves
<1>4. CASE Quiet
  BY <1>2, <1>4 DEF Quiet, Keeps
<1>5. CASE AllRewound
  <2>1. ASSUME NEW r \in Row PROVE Told(rows'[r].state) = Told(rows[r].state)
    BY <1>5, OperationsKeep DEF AllRewound, TypeInv, TypeOK, SpoolTypeOK, Told, MasterDone
  <2> QED
    BY <1>2, <2>1
<1> QED
  BY <1>3, <1>4, <1>5 DEF StepKind, OneRow

\* A request the server handles for the row in flight may change what it holds
\* of that row, which is still on its way; the rows stay as they are.
LEMMA ServerStepPromise ==
    ASSUME TypeInv, SafetyInv, AnnounceHandled \/ SendBytes \/ ConfirmHandled
    PROVE  [Promise!Next]_(Promise!promise)
<1>1. /\ job.row \in Row /\ Current = rows[job.row]
      /\ Current.state \in {"discovered", "hashed", "uploading_preview", "uploading_master"}
      /\ rows' = rows
  <2>1. job.at # "idle"
    BY DEF AnnounceHandled, SendBytes, ConfirmHandled, InStep
  <2> QED
    BY <2>1, InFlight DEF SafetyInv, AnnounceHandled, SendBytes, ConfirmHandled, spoolVars
<1>2. \A s \in Row \ {job.row} : captures'[s] = captures[s] /\ objects'[s] = objects[s]
  BY <1>1 DEF AnnounceHandled, AnnounceRepeats, AnnounceCreates, SendBytes, Store,
              ConfirmHandled, ConfirmAsset, serverVars, TypeInv, TypeOK, ServerTypeOK
<1>3. \A s \in Row \ {job.row} : s \in Intact' <=> s \in Intact
  BY <1>1, <1>2 DEF Intact, Holds
<1>4. Intact' \in {Intact \cup {job.row}, Intact \ {job.row}}
  <2>1. Intact' \subseteq Row /\ Intact \subseteq Row
    BY DEF Intact
  <2>2. CASE job.row \in Intact'
    BY <1>3, <2>1, <2>2
  <2>3. CASE job.row \notin Intact'
    BY <1>3, <2>1, <2>3
  <2> QED
    BY <2>2, <2>3
<1>5. ToldOf' = ToldOf /\ ToldOf[job.row] = "working"
  BY <1>1 DEF ToldOf, Told, MasterDone
<1>6. Promise!Receive(job.row)
  BY <1>4, <1>5 DEF Promise!Receive, ToldOf, Intact
<1> QED
  BY <1>1, <1>6 DEF Promise!Next

LEMMA NextPromise ==
    TypeInv /\ SafetyInv /\ SafetyInv' /\ [Next]_vars => [Promise!Next]_(Promise!promise)
<1> SUFFICES ASSUME TypeInv, SafetyInv, SafetyInv', [Next]_vars
             PROVE  [Promise!Next]_(Promise!promise)
  OBVIOUS
<1>1. StepKind
  BY NextMoves
<1>2. CASE AnnounceHandled \/ SendBytes \/ ConfirmHandled
  BY <1>2, ServerStepPromise
<1>3. CASE ~(AnnounceHandled \/ SendBytes \/ ConfirmHandled)
  <2>1. UNCHANGED <<captures, objects>>
    BY <1>3, OnlyRequestsReachTheServer
  <2> QED
    BY <1>1, <2>1, RowStepPromise
<1> QED
  BY <1>2, <1>3

\* The Bridge keeps its promise: a photograph called safe is one the server
\* vouches for and has, it stays safe, and one given up is not taken up again.
THEOREM PipelineKeepsPromise == Spec => PromiseKept
<1>1. Init => Promise!Init
  BY InitPromise
<1>2. (TypeInv /\ SafetyInv) /\ (TypeInv /\ SafetyInv)' /\ [Next]_vars
        => [Promise!Next]_(Promise!promise)
  BY NextPromise
<1> QED
  BY <1>1, <1>2, SpecSafetyInv, PTL DEF Spec, PromiseKept, Promise!Spec

-----------------------------------------------------------------------------
(***************************************************************************)
(* The pipeline keeps the promise of CaptureTable: discover() does by      *)
(* Spool_proofs, and any other step leaves every row its key or releases   *)
(* it with the row, and its master or finds the RAW of it (Stays).         *)
(***************************************************************************)

Stays(new, old) ==
    /\ \/ new.key = old.key
       \/ new.key = None /\ new.state = "rejected" /\ old.state # "rejected"
    /\ \/ new.master = old.master
       \/ /\ new.master \in Raws(old.master[1])
          /\ old.state = "discovered" /\ new.state = "discovered"
    /\ old.state = "absent" => new.state = "absent"

AllStay == \A r \in Row : Stays(rows'[r], rows[r])

LEMMA SameStays ==
    ASSUME NEW new, NEW old, SamePhoto(new, old), new.key = old.key, old.state # "absent"
    PROVE  Stays(new, old)
BY DEF Stays, SamePhoto

LEMMA WriteStays ==
    ASSUME TypeInv, NEW r \in Row, NEW row, rows' = [rows EXCEPT ![r] = row],
           Stays(row, rows[r])
    PROVE  AllStay
<1>1. rows'[r] = row /\ \A s \in Row \ {r} : rows'[s] = rows[s]
  BY DEF TypeInv, TypeOK, SpoolTypeOK
<1> QED
  BY <1>1 DEF AllStay, Stays

LEMMA EndStepStays ==
    ASSUME TypeInv, SafetyInv, job.at # "idle", NEW row, EndStep(row), Stays(row, Current)
    PROVE  AllStay
<1>1. job.row \in Row /\ Current = rows[job.row]
  BY InFlight DEF SafetyInv
<1> QED
  BY <1>1, WriteStays DEF EndStep

LEMMA SucceedStays ==
    ASSUME TypeInv, SafetyInv, job.at # "idle", NEW row \in CaptureRow, Succeed(row),
           Stays(row, Current)
    PROVE  AllStay
<1>1. /\ SamePhoto(ClearFailure(row), row) /\ ClearFailure(row).state = row.state
      /\ ClearFailure(row).key = row.key
  BY OperationsKeep
<1>2. Stays(ClearFailure(row), Current)
  BY <1>1 DEF Stays, SamePhoto
<1> QED
  BY <1>2, EndStepStays DEF Succeed

LEMMA FailuresStay ==
    ASSUME TypeInv, SafetyInv, job.at # "idle",
           \/ EndStep(SourceMissing(Current))
           \/ EndStep(Retry(Current))
           \/ EndStep(Mismatch(Current))
           \/ Succeed(RecordFailure(Current))
           \/ \E why \in Reason : \/ EndStep(Reject(Current, why))
                                  \/ Succeed(Reject(Current, why))
                                  \/ Succeed(RejectAndRelease(Current, why))
    PROVE  AllStay
<1>1. /\ Current \in CaptureRow /\ Current.state \notin {"absent", "rejected"}
  BY InFlight DEF SafetyInv
<1>2. \A row \in {SourceMissing(Current), Retry(Current), Mismatch(Current)} :
        Stays(row, Current)
  BY <1>1, EndingsKeep DEF Stays, SamePhoto
<1>3. RecordFailure(Current) \in CaptureRow /\ Stays(RecordFailure(Current), Current)
  BY <1>1, OperationsKeep, RowOperations, SameStays
<1>4. ASSUME NEW why \in Reason
      PROVE  /\ Reject(Current, why) \in CaptureRow
             /\ RejectAndRelease(Current, why) \in CaptureRow
             /\ Stays(Reject(Current, why), Current)
             /\ Stays(RejectAndRelease(Current, why), Current)
  BY <1>1, RowOperations, OperationsKeep DEF Stays, SamePhoto
<1> QED
  BY <1>2, <1>3, <1>4, EndStepStays, SucceedStays

LEMMA ClaimStays == ASSUME TypeInv, NEW r \in Row, Claim(r) PROVE AllStay
<1>0. rows[r] \in CaptureRow
  BY DEF TypeInv, TypeOK, SpoolTypeOK
<1>1. CASE rows' = rows
  BY <1>1 DEF AllStay, Stays
<1>2. ASSUME NEW row, rows' = [rows EXCEPT ![r] = row], Stays(row, rows[r]) PROVE AllStay
  BY <1>2, WriteStays
<1>3. ASSUME NEW next \in RowState, rows[r].state # "absent"
      PROVE  /\ Stays(Transition(rows[r], next), rows[r])
             /\ Stays(ClearFailure(Transition(rows[r], next)), rows[r])
  <2> DEFINE row == Transition(rows[r], next)
  <2>1. row \in CaptureRow /\ SamePhoto(row, rows[r]) /\ row.key = rows[r].key
    BY <1>0, RowOperations, OperationsKeep
  <2> HIDE DEF row
  <2>2. SamePhoto(ClearFailure(row), rows[r]) /\ ClearFailure(row).key = rows[r].key
    BY <2>1, OperationsKeep, SameSame
  <2>3. Stays(row, rows[r]) /\ Stays(ClearFailure(row), rows[r])
    BY <1>3, <2>1, <2>2, SameStays
  <2> QED
    BY <2>3 DEF row
<1>4. CASE ClaimUpgrade(r)
  <2> DEFINE jpeg == rows[r].master
             raw  == UpgradeMasterToRaw(rows[r], SiblingOf(jpeg),
                        OrElse(rows[r].preview, jpeg), Visible(SiblingOf(jpeg)))
  <2>1. /\ rows' = [rows EXCEPT ![r] = ClearFailure(raw)] /\ rows[r].state = "discovered"
        /\ SiblingOf(jpeg) # None
    BY <1>4 DEF ClaimUpgrade, HasRawSibling, Claims, AtOnce
  <2>2. /\ raw \in CaptureRow /\ raw.state = "discovered" /\ raw.key = rows[r].key
        /\ raw.master \in Raws(rows[r].master[1])
    <3>1. jpeg \in Path /\ OrElse(rows[r].preview, jpeg) \in Path \cup {None}
      BY <1>0, <2>1, SiblingType DEF OrElse, CaptureRow, TypeInv
    <3>2. /\ SiblingOf(jpeg) \in Path /\ SiblingOf(jpeg) \in Raws(jpeg[1])
          /\ Visible(SiblingOf(jpeg)) \in Content \cup {None}
      BY <2>1, SiblingType DEF TypeInv
    <3>3. raw \in CaptureRow
      BY <1>0, <3>1, <3>2, UpgradeType
    <3> QED
      BY <1>0, <3>2, <3>3, UpgradeKeeps
  <2> HIDE DEF raw
  <2>3. /\ SamePhoto(ClearFailure(raw), raw) /\ ClearFailure(raw).state = "discovered"
        /\ ClearFailure(raw).key = rows[r].key
    BY <2>2, OperationsKeep
  <2>4. Stays(ClearFailure(raw), rows[r])
    BY <2>1, <2>2, <2>3 DEF Stays, SamePhoto
  <2> QED
    BY <1>2, <2>1, <2>4
<1>5. CASE ClaimHash(r) \/ ClaimAnnounce(r) \/ ClaimUpload(r)
  BY <1>1, <1>5 DEF ClaimHash, ClaimAnnounce, ClaimUpload, Await
<1>6. CASE ClaimAbsent(r)
  <2>1. /\ AtOnce(r, SourceMissing(rows[r]))
        /\ Claims(r, "discovered") \/ Claims(r, "hashed")
    BY <1>6 DEF ClaimAbsent
  <2>2. /\ rows' = [rows EXCEPT ![r] = SourceMissing(rows[r])]
        /\ rows[r].state \in {"discovered", "hashed"}
    BY <2>1 DEF Claims, AtOnce
  <2>3. Stays(SourceMissing(rows[r]), rows[r])
    BY <1>0, <2>2, EndingsKeep DEF Stays, SamePhoto
  <2> QED
    BY <1>2, <2>2, <2>3
<1>7. CASE ClaimStale(r)
  BY <1>2, <1>3, <1>7, StateSets DEF ClaimStale, Claims, AtOnce
<1>8. CASE ClaimPreview(r)
  <2>1. /\ rows[r].state = "queued"
        /\ \/ rows' = [rows EXCEPT ![r] = Transition(rows[r], "uploading_preview")]
           \/ rows' = [rows EXCEPT ![r] = ClearFailure(Transition(rows[r], "uploading_preview"))]
    BY <1>8 DEF ClaimPreview, Claims, AtOnce
  <2> QED
    BY <1>2, <1>3, <2>1, StateSets
<1>9. CASE ClaimMaster(r)
  BY <1>2, <1>3, <1>9, StateSets DEF ClaimMaster, Claims, AtOnce
<1>10. CASE ClaimComplete(r)
  BY <1>2, <1>3, <1>10, StateSets DEF ClaimComplete, Claims, AtOnce
<1> QED
  BY <1>4, <1>5, <1>6, <1>7, <1>8, <1>9, <1>10 DEF Claim

LEMMA HashedStays ==
    ASSUME TypeInv, SafetyInv, job.at # "idle", NEW master, NEW preview,
           Hashed(master, preview)
    PROVE  AllStay
<1> DEFINE hashed == [Current EXCEPT !.state = "hashed",
                        !.content = master, !.observed = master,
                        !.previewDigest = OrElse(preview, @)]
           duplicate == [Current EXCEPT !.state = "rejected",
                        !.reason = "duplicate_content", !.content = None]
<1>1. Current \in CaptureRow /\ Current.state # "absent"
  BY InFlight DEF SafetyInv
<1>2. Succeed(hashed) \/ Succeed(duplicate)
  BY DEF Hashed
<1>3. ASSUME NEW row \in {hashed, duplicate}, Succeed(row) PROVE AllStay
  <2>1. /\ ClearFailure(row).key = Current.key
        /\ ClearFailure(row).master = Current.master
    BY <1>1, <1>3 DEF ClearFailure, CaptureRow
  <2> HIDE DEF hashed, duplicate
  <2>2. Stays(ClearFailure(row), Current)
    BY <1>1, <2>1 DEF Stays
  <2> QED
    BY <1>3, <2>2, EndStepStays DEF Succeed
<1> HIDE DEF hashed, duplicate
<1> QED
  BY <1>2, <1>3

LEMMA StepStays == ASSUME TypeInv, SafetyInv, StepProceeds \/ StepFails PROVE AllStay
<1>0. /\ job.at # "idle" /\ job.row \in Row /\ Current \in CaptureRow
      /\ Current.state # "absent"
      /\ {"too_large", "content_changed_after_announce", "permanent_error"} \subseteq Reason
  <2>1. job.at # "idle"
    BY DEF StepProceeds, HashMaster, HashPreview, AnnounceHandled, AnnounceConflict,
           AnnounceReplied, SkipPreview, ReadSource, SendBytes, ConfirmHandled,
           ConfirmMismatch, ConfirmReplied, InStep, StepFails, RequestFails,
           AuthorityWithdrawn, RequestRefused, ReadFails, Requesting, Replying
  <2> QED
    BY <2>1, InFlight DEF SafetyInv, Reason
<1>1. CASE UNCHANGED rows
  BY <1>1 DEF AllStay, Stays
<1>2. ASSUME NEW next \in RowState, Succeed(Transition(Current, next)) PROVE AllStay
  <2> DEFINE row == Transition(Current, next)
  <2>1. row \in CaptureRow /\ SamePhoto(row, Current) /\ row.key = Current.key
    BY <1>0, RowOperations, OperationsKeep
  <2>2. Succeed(row)
    BY <1>2
  <2> HIDE DEF row
  <2> QED
    BY <1>0, <2>1, <2>2, SameStays, SucceedStays
<1>3. ASSUME NEW p, HashUnstable(p) PROVE AllStay
  BY <1>0, <1>3, FailuresStay DEF HashUnstable
<1>4. CASE HashMaster \/ HashPreview
  <2>1. CASE Succeed(Reject(Current, "too_large")) \/ EndStep(SourceMissing(Current))
    BY <1>0, <2>1, FailuresStay
  <2> QED
    BY <1>0, <1>1, <1>3, <1>4, <2>1, HashedStays DEF HashMaster, HashPreview
<1>5. CASE AnnounceHandled \/ SendBytes \/ ConfirmHandled \/ AuthorityWithdrawn
  BY <1>1, <1>5 DEF AnnounceHandled, SendBytes, ConfirmHandled, AuthorityWithdrawn, spoolVars
<1>6. CASE AnnounceConflict
  <2> DEFINE renumbered == [Current EXCEPT !.seq = hwm + 1]
             row == Retry(renumbered)
  <2>1. EndStep(row) /\ hwm \in Nat
    BY <1>6 DEF AnnounceConflict, TypeInv, TypeOK, SpoolTypeOK
  <2>2. /\ renumbered \in CaptureRow /\ renumbered.key = Current.key
        /\ renumbered.master = Current.master
    BY <1>0, <2>1 DEF CaptureRow
  <2> HIDE DEF renumbered
  <2>3. SamePhoto(row, renumbered) /\ row.key = renumbered.key
    BY <2>2, EndingsKeep
  <2> HIDE DEF row
  <2>4. Stays(row, Current)
    BY <1>0, <2>2, <2>3 DEF Stays, SamePhoto
  <2> QED
    BY <1>0, <2>1, <2>4, EndStepStays
<1>7. CASE AnnounceReplied \/ SkipPreview \/ ConfirmReplied
  <2>1. \/ UNCHANGED rows
        \/ \E next \in {"queued", "preview_confirmed", "master_confirmed"} :
             Succeed(Transition(Current, next))
    BY <1>7 DEF AnnounceReplied, SkipPreview, ConfirmReplied
  <2> QED
    BY <1>1, <1>2, <2>1, StateSets
<1>8. CASE ReadSource
  BY <1>0, <1>1, <1>8, FailuresStay DEF ReadSource
<1>9. CASE ConfirmMismatch
  BY <1>0, <1>9, FailuresStay DEF ConfirmMismatch
<1>10. CASE RequestFails \/ RequestRefused \/ ReadFails
  BY <1>0, <1>10, FailuresStay DEF RequestFails, RequestRefused, ReadFails
<1> QED
  BY <1>4, <1>5, <1>6, <1>7, <1>8, <1>9, <1>10 DEF StepProceeds, StepFails

LEMMA OthersStay ==
    ASSUME TypeInv, CleanupSweep \/ Environment \/ BeginDrain \/ DrainEnds \/ UNCHANGED vars
    PROVE  AllStay
<1>1. CASE UNCHANGED rows
  BY <1>1 DEF AllStay, Stays
<1>2. ASSUME NEW k \in Sweeper, SweepRecord(k) PROVE AllStay
  <2> DEFINE at  == sweep[k].hand.row
             row == [rows[at] EXCEPT !.deleted = TRUE]
  <2>1. rows' = [rows EXCEPT ![at] = row] /\ at \in Row
    BY <1>2, SweepType DEF SweepRecord
  <2>2. /\ row.key = rows[at].key /\ row.master = rows[at].master
        /\ row.state = rows[at].state
    BY <2>1 DEF TypeInv, TypeOK, SpoolTypeOK, CaptureRow
  <2> HIDE DEF row
  <2>3. Stays(row, rows[at])
    BY <2>2 DEF Stays
  <2> QED
    BY <2>1, <2>3, WriteStays
<1>3. CASE GracePasses
  <2> DEFINE later(r) == [rows[r] EXCEPT !.missing = IF @ = "recent" THEN "stale" ELSE @]
  <2>1. rows' = [r \in Row |-> later(r)]
    BY <1>3 DEF GracePasses
  <2>2. ASSUME NEW r \in Row
        PROVE  /\ later(r).key = rows[r].key /\ later(r).master = rows[r].master
               /\ later(r).state = rows[r].state
    BY DEF TypeInv, TypeOK, SpoolTypeOK, CaptureRow
  <2> HIDE DEF later
  <2> QED
    BY <2>1, <2>2 DEF AllStay, Stays
<1>4. CASE Crash
  <2>1. rows' = [r \in Row |-> Rewind(rows[r])]
    BY <1>4 DEF Crash, Recover
  <2>2. ASSUME NEW r \in Row PROVE Stays(Rewind(rows[r]), rows[r])
    <3>1. rows[r] \in CaptureRow
      BY DEF TypeInv, TypeOK, SpoolTypeOK
    <3> QED
      BY <3>1, OperationsKeep DEF Stays, SamePhoto
  <2> QED
    BY <2>1, <2>2 DEF AllStay
<1> QED
  BY <1>1, <1>2, <1>3, <1>4
     DEF CleanupSweep, Environment, BeginDrain, DrainEnds, SweepBegins, SweepVerify,
         SweepUnlink, SweepEnds, Edit, PullCard, ReturnCard, spoolVars, vars

LEMMA NextStays ==
    ASSUME TypeInv, SafetyInv, [Next]_vars
    PROVE  AllStay \/ \E g \in Group : Discover(g)
BY ClaimStays, StepStays, OthersStay DEF Next

\* An edge never leads back, and never out of a settled state.
LEMMA StagesAlongEdges ==
    ASSUME NEW old \in RowState, NEW new \in Allowed[old]
    PROVE  \/ StageOf(new) = StageOf(old) /\ new # "rejected"
           \/ StageOf(old) = "held" /\ StageOf(new) = "sent" /\ new # "rejected"
           \/ StageOf(old) \in {"held", "sent"} /\ StageOf(new) = "settled"
BY Stages, StateSets DEF Allowed

LEMMA StaysCarries ==
    ASSUME NEW new, NEW old \in CaptureRow, old.state # "absent",
           Stays(new, old), Evolves(new, old)
    PROVE  Carries(new, old)
<1>1. CASE new.state = old.state
  BY <1>1, Stages DEF Stays, Carries
<1>2. CASE new.state # old.state
  <2>1. old.state \in RowState /\ new.state \in Allowed[old.state]
    BY <1>2 DEF Evolves, CaptureRow
  <2>2. new.master = old.master /\ new.key \in {old.key, None}
        /\ (new.state # "rejected" => new.key = old.key)
    BY <1>2 DEF Stays
  <2> QED
    BY <2>1, <2>2, StagesAlongEdges DEF Carries
<1> QED
  BY <1>1, <1>2

\* Where every row stays, the table takes a step of CaptureTable or none.
LEMMA StayingTable ==
    ASSUME TypeInv, TableSound, StepKind, AllStay
    PROVE  TableStep
<1>1. rows \in [Row -> CaptureRow]
  BY DEF TableSound
<1>2. ASSUME NEW s \in Row, Keeps(s)
      PROVE  /\ rows'[s].key = rows[s].key /\ rows'[s].master = rows[s].master
             /\ rows'[s].state = rows[s].state
  BY <1>2 DEF AllStay, Stays, Keeps, SamePhoto
<1>3. CASE Quiet
  BY <1>2, <1>3, SameTable DEF Quiet
<1>4. CASE AllRewound
  <2>1. ASSUME NEW s \in Row
        PROVE  /\ rows'[s].key = rows[s].key /\ rows'[s].master = rows[s].master
               /\ StageOf(rows'[s].state) = StageOf(rows[s].state)
               /\ rows'[s].state = "absent" <=> rows[s].state = "absent"
    <3>1. /\ rows[s] \in CaptureRow /\ Stays(rows'[s], rows[s])
          /\ SamePhoto(rows'[s], rows[s]) /\ rows'[s].state = Rewind(rows[s]).state
      BY <1>1, <1>4 DEF AllRewound, AllStay
    <3> QED
      BY <3>1, OperationsKeep, Stages DEF Stays, SamePhoto
  <2> QED
    BY <2>1, SameTable
<1>5. ASSUME NEW r \in Row, Moves(r) PROVE TableStep
  <2>1. rows[r].state # "absent"
    BY <1>5 DEF Moves, AllStay, Stays
  <2>2. Carries(rows'[r], rows[r])
    BY <1>1, <1>5, <2>1, StaysCarries DEF Moves, AllStay
  <2>3. \A s \in Row \ {r} : /\ rows'[s].key = rows[s].key /\ rows'[s].master = rows[s].master
                             /\ rows'[s].state = rows[s].state
    BY <1>2, <1>5 DEF Moves
  <2> QED
    BY <2>1, <2>2, <2>3, CarriesTable
<1> QED
  BY <1>3, <1>4, <1>5 DEF StepKind, OneRow

LEMMA NextTable ==
    ASSUME TypeInv, SafetyInv, TableSound, [Next]_vars
    PROVE  TableStep
<1>1. CASE AllStay
  BY <1>1, NextMoves, StayingTable
<1>2. ASSUME NEW g \in Group, Discover(g) PROVE TableStep
  <2>1. PICK in \in Reported(g, Seen) : SpoolDiscover(in)
    BY <1>2 DEF Discover, Scanned
  <2>2. Seen \in [Path -> Content \cup {None}]
    BY SeenType DEF TypeInv
  <2> QED
    BY <2>1, <2>2, ReportedNamed, SpoolDiscoverTable
<1> QED
  BY <1>1, <1>2, NextStays

\* The table the pipeline drains is one of CaptureTable, whatever is lost,
\* killed, pulled or rewritten on the way: a RAW joins its own JPEG and only
\* before that is announced, a row is settled once, and only a row that is
\* settled loses its key, to nobody or to the next photograph under the name.
THEOREM PipelineKeepsTable == Spec => TableKept
<1> DEFINE AllPlaced == \A r \in Row : Placed(rows[r])
<1>1. Init => AllPlaced /\ Table!Init
  BY SpoolInitTable DEF Init, TableSound
<1>2. (TypeInv /\ SafetyInv) /\ AllPlaced /\ [Next]_vars
        => AllPlaced' /\ [Table!Next]_(Table!table)
  <2>1. TypeInv /\ AllPlaced => TableSound
    BY DEF TableSound, TypeInv, TypeOK, SpoolTypeOK
  <2>2. TableStep => AllPlaced' /\ [Table!Next]_(Table!table)
    BY DEF TableStep
  <2> QED
    BY <2>1, <2>2, NextTable
<1> HIDE DEF AllPlaced
<1> QED
  BY <1>1, <1>2, SpecSafetyInv, PTL DEF Spec, TableKept, Table!Spec

=============================================================================
