----------------------- MODULE CapturePipeline_proofs -----------------------
(***************************************************************************)
(* Proofs about CapturePipeline, for any number of rows, stems, contents,  *)
(* edits and faults.                                                       *)
(***************************************************************************)
EXTENDS CapturePipeline, Spool_proofs

\* The strengthening of TypeOK: a step in flight owns a row.
JobOwnsRow == job.at # "idle" => job.row \in Row

\* How a step may leave its row: the endings of step() keep rows well typed.
LEMMA StepEndings ==
    ASSUME NEW row \in CaptureRow
    PROVE  /\ SourceMissing(row) \in CaptureRow
           /\ Retry(row) \in CaptureRow
           /\ Mismatch(row) \in CaptureRow
<1>1. RecordFailure(NoteMissing(row)) \in CaptureRow
  BY RowOperations
<1>2. RecordFailure(ClearMissing(row)) \in CaptureRow
  BY RowOperations
<1>3. SourceMissing(row) \in CaptureRow
  BY <1>1, RowOperations DEF SourceMissing, Reason
<1>4. Retry(row) \in CaptureRow
  BY <1>2, RowOperations DEF Retry, Reason
<1>5. Mismatch(row) \in CaptureRow
  BY <1>2, RowOperations DEF Mismatch, Reason
<1> QED
  BY <1>3, <1>4, <1>5

LEMMA EndStepType ==
    ASSUME TypeOK, job.row \in Row, NEW row \in CaptureRow, EndStep(row)
    PROVE  /\ rows' \in [Row -> CaptureRow]
           /\ job' = Idle
BY DEF EndStep, TypeOK, SpoolTypeOK

LEMMA SucceedType ==
    ASSUME TypeOK, job.row \in Row, NEW row \in CaptureRow, Succeed(row)
    PROVE  /\ rows' \in [Row -> CaptureRow]
           /\ job' = Idle
<1>1. ClearFailure(row) \in CaptureRow
  BY RowOperations
<1> QED
  BY <1>1, EndStepType DEF Succeed

LEMMA IdleType == Idle \in Job /\ Idle.at = "idle"
BY DEF Idle, Job, At

LEMMA VisibleType ==
    ASSUME TypeOK, NEW p
    PROVE  /\ Visible(p) \in Content \cup {None}
           /\ Visible(p) # None => p \in Path
BY DEF Visible, TypeOK

LEMMA SeenType ==
    ASSUME TypeOK
    PROVE  Seen \in [Path -> Content \cup {None}]
BY VisibleType DEF Seen

\* #findRawSibling() looks beside a JPEG and finds a RAW that is there.
LEMMA SiblingType ==
    ASSUME TypeOK, NEW p, SiblingOf(p) # None
    PROVE  /\ p \in Path
           /\ SiblingOf(p) \in Path /\ SiblingOf(p) \in Raws(p[1])
           /\ Visible(SiblingOf(p)) \in Content \cup {None}
<1>1. IsJpeg(p) /\ SiblingOf(p) = RawBeside(p[1], Seen)
  BY DEF SiblingOf
<1>2. p \in Path /\ p[1] \in Group
  BY <1>1 DEF IsJpeg, Path
<1> QED
  BY <1>1, <1>2, RawBesideIs, VisibleType

LEMMA FaultType ==
    ASSUME TypeOK, NEW kind, Fault(kind)
    PROVE  faults' \in [left : 0..MaxFaults, kinds : SUBSET FaultKind]
<1>1. MaxFaults \in Nat
  BY PipelineAssumption
<1>2. faults.left - 1 \in 0..MaxFaults
  BY <1>1 DEF Fault, TypeOK
<1> QED
  BY <1>2 DEF Fault, TypeOK

TypeInv == TypeOK /\ JobOwnsRow

-----------------------------------------------------------------------------
(***************************************************************************)
(* One lemma per family of actions.                                        *)
(***************************************************************************)

LEMMA InitType == Init => TypeInv
<1> SUFFICES ASSUME Init PROVE TypeInv
  OBVIOUS
<1>1. AbsentRow \in CaptureRow
  BY SpoolAssumption DEF AbsentRow, CaptureRow
<1>2. SpoolTypeOK
  BY <1>1 DEF Init, SpoolInit, SpoolTypeOK
<1>3. Unknown \in Capture
  BY DEF Unknown, Capture
<1>4. ServerTypeOK
  BY <1>3, ServerAssumption DEF Init, ServerInit, ServerTypeOK
<1>5. faults \in [left : 0..MaxFaults, kinds : SUBSET FaultKind]
  BY PipelineAssumption DEF Init
<1>6. NoSweeps \in [Sweeper -> Sweep]
  BY DEF NoSweeps, Resting, Sweep
<1> QED
  BY <1>2, <1>4, <1>5, <1>6, IdleType, PipelineAssumption DEF Init, TypeInv, TypeOK, JobOwnsRow

LEMMA ScannedType ==
    ASSUME TypeOK, NEW g \in Group, NEW in \in Scanned(g)
    PROVE  /\ in.master \in Path /\ in.seen \in Content
           /\ in.preview \in Path \cup {None}
           /\ in.key \in Key
           /\ in.hasRaw => in.master \in Key
<1>1. Seen \in [Path -> Content \cup {None}]
  BY SeenType
<1>2. in \in Reported(g, Seen)
  BY DEF Scanned
<1>3. Path \subseteq Key
  BY DEF Key
<1> QED
  BY <1>1, <1>2, <1>3, ReportedType

LEMMA DiscoverType == ASSUME TypeInv, NEW g \in Group, Discover(g) PROVE TypeInv'
<1>1. PICK in \in Scanned(g) : SpoolDiscover(in)
  BY DEF Discover
<1>2. SpoolTypeOK'
  BY <1>1, SpoolDiscoverType, ScannedType DEF TypeInv, TypeOK
<1> QED
  BY <1>2 DEF Discover, TypeInv, TypeOK, ServerTypeOK, JobOwnsRow, serverVars,
              envVars, procVars

LEMMA CurrentType ==
    ASSUME TypeInv, job.at # "idle"
    PROVE  /\ job.row \in Row
           /\ Current \in CaptureRow
           /\ job.seen \in Content \cup {None}
           /\ job.digest \in Content \cup {None}
BY DEF TypeInv, JobOwnsRow, TypeOK, SpoolTypeOK, Current, Job

\* Everything but the row of the step and the process between steps.
LEMMA EndStepTypeInv ==
    ASSUME TypeInv, job.at # "idle", NEW row \in CaptureRow, EndStep(row),
           hwm' \in Nat, ServerTypeOK',
           disk' = disk, card' = card, edits' = edits,
           faults' \in [left : 0..MaxFaults, kinds : SUBSET FaultKind],
           phase' \in {"ingest", "drain"}, targets' \subseteq Row, sweep' = sweep
    PROVE  TypeInv'
<1>1. rows' \in [Row -> CaptureRow] /\ job' = Idle
  BY CurrentType, EndStepType DEF TypeInv
<1> QED
  BY <1>1, IdleType DEF TypeInv, TypeOK, SpoolTypeOK, JobOwnsRow

LEMMA ClaimsType ==
    ASSUME TypeInv, NEW r \in Row, NEW state, Claims(r, state)
    PROVE  /\ rows[r] \in CaptureRow
           /\ job = Idle
           /\ hwm' \in Nat /\ ServerTypeOK' /\ sweep' = sweep /\ phase' = phase
           /\ UNCHANGED <<disk, card, edits, faults>>
BY DEF Claims, TypeInv, TypeOK, SpoolTypeOK, ServerTypeOK, serverVars, envVars

\* What a claim leaves behind: a well-typed table, and a step awaiting row r.
LEMMA ClaimedTypeInv ==
    ASSUME TypeInv, NEW r \in Row, NEW state, Claims(r, state),
           rows' \in [Row -> CaptureRow],
           job' = Idle \/ (job' \in Job /\ job'.row = r),
           targets' \subseteq Row
    PROVE  TypeInv'
BY ClaimsType, IdleType DEF TypeInv, TypeOK, SpoolTypeOK, JobOwnsRow

LEMMA AwaitType ==
    ASSUME NEW r \in Row, NEW at \in At, Await(r, at)
    PROVE  job' \in Job /\ job'.row = r
BY DEF Await, Idle, Job

LEMMA AtOnceType ==
    ASSUME TypeInv, NEW r \in Row, NEW row \in CaptureRow, AtOnce(r, row)
    PROVE  rows' \in [Row -> CaptureRow] /\ job' = job
BY DEF AtOnce, TypeInv, TypeOK, SpoolTypeOK

LEMMA ClearedTransition ==
    ASSUME NEW row \in CaptureRow, NEW next \in RowState
    PROVE  ClearFailure(Transition(row, next)) \in CaptureRow
BY RowOperations

LEMMA ClaimType == ASSUME TypeInv, NEW r \in Row, Claim(r) PROVE TypeInv'
<1>0. /\ rows \in [Row -> CaptureRow] /\ targets \subseteq Row
      /\ RowState = {"discovered", "hashed", "uploading_preview", "uploading_master",
                     "queued", "preview_confirmed", "master_confirmed",
                     "complete", "rejected"}
  BY DEF TypeInv, TypeOK, SpoolTypeOK, RowState, Working, PreAnnounced, Uploading, Terminal
<1>1. CASE ClaimUpgrade(r)
  <2> DEFINE jpeg == rows[r].master
             raw  == UpgradeMasterToRaw(rows[r], SiblingOf(jpeg),
                        OrElse(rows[r].preview, jpeg), Visible(SiblingOf(jpeg)))
  <2>1. Claims(r, "discovered") /\ AtOnce(r, ClearFailure(raw)) /\ targets' = targets
    BY <1>1 DEF ClaimUpgrade
  <2>2. /\ jpeg \in Path /\ SiblingOf(jpeg) \in Path
        /\ Visible(SiblingOf(jpeg)) \in Content \cup {None}
    BY <1>1, SiblingType DEF ClaimUpgrade, HasRawSibling, TypeInv
  <2>3. OrElse(rows[r].preview, jpeg) \in Path \cup {None}
    BY <1>0, <2>2 DEF OrElse, CaptureRow
  <2>4. raw \in CaptureRow
    <3>1. rows[r] \in CaptureRow
      BY <1>0
    <3> QED
      BY <2>2, <2>3, <3>1, UpgradeType
  <2>5. ClearFailure(raw) \in CaptureRow
    <3> HIDE DEF raw
    <3> QED
      BY <2>4, RowOperations
  <2> QED
    <3> HIDE DEF raw
    <3> QED
      BY <1>0, <2>1, <2>5, AtOnceType, ClaimsType, ClaimedTypeInv
<1>2. CASE ClaimHash(r)
  <2>1. job' \in Job /\ job'.row = r
    BY <1>2, VisibleType DEF ClaimHash, Job, At, TypeInv
  <2> QED
    BY <1>0, <1>2, <2>1, ClaimedTypeInv DEF ClaimHash
<1>3. CASE ClaimAbsent(r)
  <2>1. PICK state : Claims(r, state)
    BY <1>3 DEF ClaimAbsent
  <2>2. rows[r] \in CaptureRow /\ SourceMissing(rows[r]) \in CaptureRow
    BY <1>0, StepEndings
  <2> QED
    BY <1>0, <1>3, <2>1, <2>2, AtOnceType, ClaimsType, ClaimedTypeInv DEF ClaimAbsent
<1>4. CASE ClaimStale(r)
  <2>1. ClearFailure(Transition(rows[r], "discovered")) \in CaptureRow
    BY <1>0, ClearedTransition
  <2> QED
    BY <1>0, <1>4, <2>1, AtOnceType, ClaimsType, ClaimedTypeInv DEF ClaimStale
<1>5. CASE ClaimAnnounce(r)
  <2>1. "announce" \in At
    BY DEF At
  <2> QED
    BY <1>0, <1>5, <2>1, AwaitType, ClaimedTypeInv DEF ClaimAnnounce, Await
<1>6. CASE ClaimPreview(r)
  <2>1. Claims(r, "queued") /\ targets' = targets
    BY <1>6 DEF ClaimPreview
  <2>2. CASE rows[r].preview = None
    <3>1. rows' = [rows EXCEPT ![r] = Transition(rows[r], "uploading_preview")]
      BY <1>6, <2>2 DEF ClaimPreview
    <3>2. rows' \in [Row -> CaptureRow]
      BY <1>0, <3>1, RowOperations
    <3>3. job' \in Job /\ job'.row = r
      BY <1>6, <2>2 DEF ClaimPreview, Idle, Job, At
    <3> QED
      BY <1>0, <2>1, <3>2, <3>3, ClaimedTypeInv
  <2>3. CASE rows[r].preview # None
    <3>1. ClearFailure(Transition(rows[r], "uploading_preview")) \in CaptureRow
      BY <1>0, ClearedTransition
    <3> QED
      BY <1>0, <1>6, <2>1, <2>3, <3>1, AtOnceType, ClaimsType, ClaimedTypeInv DEF ClaimPreview
  <2> QED
    BY <2>2, <2>3
<1>7. CASE ClaimMaster(r)
  <2>1. ClearFailure(Transition(rows[r], "uploading_master")) \in CaptureRow
    BY <1>0, ClearedTransition
  <2> QED
    BY <1>0, <1>7, <2>1, AtOnceType, ClaimsType, ClaimedTypeInv DEF ClaimMaster
<1>8. CASE ClaimUpload(r)
  <2>1. PICK state : Claims(r, state)
    BY <1>8 DEF ClaimUpload
  <2>2. /\ "refresh" \in At /\ "read" \in At
        /\ Await(r, "refresh") \/ Await(r, "read")
        /\ targets' = targets
    BY <1>8 DEF ClaimUpload, At
  <2> QED
    BY <1>0, <2>1, <2>2, AwaitType, ClaimedTypeInv DEF Await
<1>9. CASE ClaimComplete(r)
  <2>1. ClearFailure(Transition(rows[r], "complete")) \in CaptureRow
    BY <1>0, ClearedTransition
  <2> QED
    BY <1>0, <1>9, <2>1, AtOnceType, ClaimsType, ClaimedTypeInv DEF ClaimComplete
<1> QED
  BY <1>1, <1>2, <1>3, <1>4, <1>5, <1>6, <1>7, <1>8, <1>9 DEF Claim

LEMMA EnvUnchanged ==
    ASSUME TypeInv, NEW row \in CaptureRow, job.at # "idle", EndStep(row),
           UNCHANGED <<hwm, serverVars, envVars, phase, targets, sweep>>
    PROVE  TypeInv'
BY EndStepTypeInv DEF TypeInv, TypeOK, SpoolTypeOK, ServerTypeOK, serverVars, envVars

LEMMA SucceedTypeInv ==
    ASSUME TypeInv, NEW row \in CaptureRow, job.at # "idle", Succeed(row),
           UNCHANGED <<hwm, serverVars, envVars, phase, targets, sweep>>
    PROVE  TypeInv'
BY EnvUnchanged, RowOperations DEF Succeed

LEMMA HashedTypeInv ==
    ASSUME TypeInv, job.at # "idle", NEW master \in Content \cup {None},
           NEW preview \in Content \cup {None}, Hashed(master, preview),
           UNCHANGED <<hwm, serverVars, envVars, phase, targets, sweep>>
    PROVE  TypeInv'
<1>1. /\ Current \in CaptureRow
      /\ OrElse(preview, Current.previewDigest) \in Content \cup {None}
      /\ {"hashed", "rejected"} \subseteq RowState
      /\ "duplicate_content" \in Reason
  BY CurrentType DEF OrElse, CaptureRow, RowState, Working, PreAnnounced, Terminal, Reason
<1> DEFINE hashed == [Current EXCEPT !.state = "hashed",
                        !.content = master, !.observed = master,
                        !.previewDigest = OrElse(preview, @)]
           duplicate == [Current EXCEPT !.state = "rejected",
                        !.reason = "duplicate_content", !.content = None]
<1>2. hashed \in CaptureRow
  <2> DEFINE r0 == [Current EXCEPT !.state = "hashed", !.content = master]
             r1 == [r0 EXCEPT !.observed = master]
  <2>1. r0 \in CaptureRow
    BY <1>1 DEF CaptureRow
  <2>2. r1 \in CaptureRow /\ r1.previewDigest = Current.previewDigest
    <3>1. r0.previewDigest = Current.previewDigest
      BY <1>1 DEF CaptureRow
    <3> HIDE DEF r0
    <3> QED
      BY <2>1, <3>1, FieldTypes DEF CaptureRow
  <2>3. [r1 EXCEPT !.previewDigest = OrElse(preview, @)] \in CaptureRow
    <3> HIDE DEF r1
    <3> QED
      BY <1>1, <2>2 DEF CaptureRow
  <2> QED
    BY <2>3, Zenon
<1>3. duplicate \in CaptureRow
  BY <1>1 DEF CaptureRow
<1>4. Succeed(hashed) \/ Succeed(duplicate)
  BY DEF Hashed
<1> HIDE DEF hashed, duplicate
<1> QED
  BY <1>2, <1>3, <1>4, SucceedTypeInv

LEMMA HashUnstableTypeInv ==
    ASSUME TypeInv, job.at # "idle", NEW p, HashUnstable(p),
           UNCHANGED <<hwm, serverVars, envVars, phase, targets, sweep>>
    PROVE  TypeInv'
<1>1. Current \in CaptureRow
  BY CurrentType
<1>2. SourceMissing(Current) \in CaptureRow /\ RecordFailure(Current) \in CaptureRow
  BY <1>1, StepEndings, RowOperations
<1> QED
  BY <1>2, EnvUnchanged, SucceedTypeInv DEF HashUnstable

\* A step goes on to its next await, and nothing else about it changes.
LEMMA AdvanceType ==
    ASSUME TypeInv, job.at # "idle", NEW at \in At, Advance(at)
    PROVE  job' \in Job /\ job'.row = job.row /\ job'.at = at
BY DEF Advance, TypeInv, TypeOK, Job

LEMMA HashMasterType == ASSUME TypeInv, HashMaster PROVE TypeInv'
<1>0. /\ job.at # "idle"
      /\ UNCHANGED <<hwm, serverVars, envVars, phase, targets, sweep>>
      /\ Current \in CaptureRow
      /\ job.seen \in Content \cup {None} /\ None \in Content \cup {None}
      /\ job \in Job /\ "too_large" \in Reason
  BY CurrentType DEF HashMaster, InStep, Reason, TypeInv, TypeOK
<1>1. CASE HashUnstable(Current.master)
  BY <1>0, <1>1, HashUnstableTypeInv
<1>2. CASE Succeed(Reject(Current, "too_large"))
  BY <1>0, <1>2, RowOperations, SucceedTypeInv
<1>3. CASE Hashed(job.seen, None) \/ Hashed(job.seen, job.seen)
  BY <1>0, <1>3, HashedTypeInv
<1>4. CASE EndStep(SourceMissing(Current))
  BY <1>0, <1>4, StepEndings, EnvUnchanged
<1>5. CASE /\ job' = [job EXCEPT !.at = "hash_preview", !.digest = job.seen,
                                 !.seen = Visible(Current.preview)]
           /\ UNCHANGED rows
  <2>1. job' \in Job /\ job'.row = job.row
    BY <1>0, <1>5, VisibleType DEF Job, At, TypeInv
  <2> QED
    BY <1>0, <1>5, <2>1 DEF TypeInv, TypeOK, SpoolTypeOK, ServerTypeOK, JobOwnsRow,
                            serverVars, envVars
<1> QED
  BY <1>1, <1>2, <1>3, <1>4, <1>5 DEF HashMaster

LEMMA HashPreviewType == ASSUME TypeInv, HashPreview PROVE TypeInv'
BY CurrentType, HashUnstableTypeInv, HashedTypeInv DEF HashPreview, InStep

\* The row of the step as it is, and the whole job advanced.
LEMMA AdvancedTypeInv ==
    ASSUME TypeInv, job.at # "idle", NEW at \in At, Advance(at), SpoolTypeOK', ServerTypeOK',
           faults' \in [left : 0..MaxFaults, kinds : SUBSET FaultKind], targets' \subseteq Row,
           UNCHANGED <<disk, card, edits, phase, sweep>>
    PROVE  TypeInv'
BY AdvanceType DEF TypeInv, TypeOK, JobOwnsRow

LEMMA AnnounceType ==
    ASSUME TypeInv, AnnounceHandled \/ AnnounceConflict \/ AnnounceReplied
    PROVE  TypeInv'
<1>0. /\ SpoolTypeOK /\ ServerTypeOK /\ targets \subseteq Row /\ hwm \in Nat
      /\ faults \in [left : 0..MaxFaults, kinds : SUBSET FaultKind]
      /\ phase \in {"ingest", "drain"}
      /\ {"announced", "refreshed", "read"} \subseteq At
  BY DEF TypeInv, TypeOK, SpoolTypeOK, At
<1>1. CASE AnnounceHandled
  <2>1. /\ job.at # "idle" /\ job.row \in Row /\ Current \in CaptureRow
        /\ UNCHANGED <<spoolVars, envVars, phase, targets, sweep>>
    BY <1>1, CurrentType DEF AnnounceHandled
  <2>2. ServerTypeOK'
    <3>1. CASE AnnounceRepeats(job.row)
      BY <1>0, <3>1 DEF AnnounceRepeats, serverVars, ServerTypeOK
    <3>2. CASE AnnounceCreates(job.row, Current.seq, Current.content, Current.previewDigest)
      <4>1. /\ Current.seq \in Nat
            /\ Current.content \in Content \cup {None}
            /\ Current.previewDigest \in Content \cup {None}
        BY <2>1 DEF CaptureRow
      <4>2. [known |-> TRUE, seq |-> Current.seq,
             expected |-> [k \in Kind |-> IF k = "master" THEN Current.content
                                                          ELSE Current.previewDigest],
             asset |-> [k \in Kind |-> None]] \in Capture
        BY <4>1 DEF Capture
      <4> QED
        BY <1>0, <2>1, <3>2, <4>1, <4>2 DEF AnnounceCreates, ServerTypeOK
    <3> QED
      BY <1>1, <3>1, <3>2 DEF AnnounceHandled
  <2>3. PICK at \in At : Advance(at)
    BY <1>0, <1>1 DEF AnnounceHandled
  <2> QED
    BY <1>0, <2>1, <2>2, <2>3, AdvancedTypeInv DEF spoolVars, envVars, SpoolTypeOK
<1>2. CASE AnnounceConflict
  <2>1. /\ job.at # "idle" /\ Current \in CaptureRow /\ hwm' \in Nat /\ hwm' = hwm + 1
        /\ UNCHANGED <<serverVars, envVars, phase, targets, sweep>>
    BY <1>0, <1>2, CurrentType DEF AnnounceConflict
  <2>2. [Current EXCEPT !.seq = hwm + 1] \in CaptureRow
    BY <2>1 DEF CaptureRow
  <2>3. Retry([Current EXCEPT !.seq = hwm + 1]) \in CaptureRow
    BY <2>2, StepEndings
  <2>4. EndStep(Retry([Current EXCEPT !.seq = hwm + 1]))
    BY <1>2 DEF AnnounceConflict
  <2> QED
    BY <1>0, <2>1, <2>3, <2>4, EndStepTypeInv DEF serverVars, envVars, ServerTypeOK
<1>3. CASE AnnounceReplied
  <2>1. /\ job.at # "idle" /\ job.row \in Row /\ Current \in CaptureRow
        /\ targets' \subseteq Row
        /\ UNCHANGED <<hwm, serverVars, envVars, phase, sweep>>
    BY <1>0, <1>3, CurrentType DEF AnnounceReplied, InStep
  <2>2. CASE Succeed(Transition(Current, "queued"))
    <3>1. ClearFailure(Transition(Current, "queued")) \in CaptureRow
      BY <2>1, ClearedTransition DEF RowState, Working
    <3> QED
      BY <1>0, <2>1, <2>2, <3>1, EndStepTypeInv DEF Succeed, serverVars, envVars, ServerTypeOK
  <2>3. CASE Advance("read") /\ UNCHANGED rows
    BY <1>0, <2>1, <2>3, AdvancedTypeInv DEF serverVars, envVars, ServerTypeOK, SpoolTypeOK
  <2> QED
    BY <1>3, <2>2, <2>3 DEF AnnounceReplied
<1> QED
  BY <1>1, <1>2, <1>3

LEMMA UploadType ==
    ASSUME TypeInv,
           SkipPreview \/ ReadSource \/ SendBytes \/ ConfirmHandled
             \/ ConfirmMismatch \/ ConfirmReplied
    PROVE  TypeInv'
<1>0. /\ job.at # "idle" /\ job.row \in Row /\ Current \in CaptureRow
      /\ SpoolTypeOK /\ ServerTypeOK /\ targets \subseteq Row
      /\ faults \in [left : 0..MaxFaults, kinds : SUBSET FaultKind]
      /\ {"send", "stored", "confirmed"} \subseteq At
      /\ {"preview_confirmed", "master_confirmed"} \subseteq RowState
      /\ "content_changed_after_announce" \in Reason
      /\ KindOf(Current) \in Kind /\ DigestOf(Current) \in Content \cup {None}
  <2>1. job.at # "idle"
    BY DEF SkipPreview, ReadSource, SendBytes, ConfirmHandled, ConfirmMismatch,
           ConfirmReplied, InStep
  <2>2. Current \in CaptureRow /\ job.row \in Row
    BY <2>1, CurrentType
  <2>3. DigestOf(Current) \in Content \cup {None}
    BY <2>2 DEF DigestOf, CaptureRow
  <2> QED
    BY <2>1, <2>2, <2>3 DEF TypeInv, TypeOK, At, RowState, Working, Reason, KindOf, Kind
<1>1. CASE SkipPreview
  <2>1. Transition(Current, "preview_confirmed") \in CaptureRow
    BY <1>0, RowOperations
  <2> QED
    BY <1>0, <1>1, <2>1, SucceedTypeInv DEF SkipPreview
<1>2. CASE ReadSource
  <2>1. UNCHANGED <<hwm, serverVars, envVars, phase, targets, sweep>>
    BY <1>2 DEF ReadSource
  <2>2. CASE EndStep(SourceMissing(Current))
    BY <1>0, <2>1, <2>2, StepEndings, EnvUnchanged
  <2>3. CASE Succeed(RejectAndRelease(Current, "content_changed_after_announce"))
    BY <1>0, <2>1, <2>3, RowOperations, SucceedTypeInv
  <2>4. CASE Advance("send") /\ UNCHANGED rows
    BY <1>0, <2>1, <2>4, AdvancedTypeInv DEF serverVars, envVars, ServerTypeOK, SpoolTypeOK
  <2> QED
    BY <1>2, <2>2, <2>3, <2>4 DEF ReadSource
<1>3. CASE SendBytes
  <2>1. PICK bytes \in Content \cup {None, Corrupt} : Store(job.row, KindOf(Current), bytes)
    BY <1>0, <1>3 DEF SendBytes
  <2>2. ServerTypeOK'
    BY <1>0, <2>1 DEF Store, ServerTypeOK
  <2>3. faults' \in [left : 0..MaxFaults, kinds : SUBSET FaultKind]
    BY <1>0, <1>3, FaultType DEF SendBytes, TypeInv
  <2> QED
    BY <1>0, <1>3, <2>2, <2>3, AdvancedTypeInv DEF SendBytes, spoolVars, SpoolTypeOK
<1>4. CASE ConfirmHandled
  <2>1. ServerTypeOK'
    <3>1. captures' = [captures EXCEPT ![job.row].asset[KindOf(Current)] = DigestOf(Current)]
      BY <1>4 DEF ConfirmHandled, ConfirmAsset
    <3>2. captures' \in [Row -> Capture]
      BY <1>0, <3>1 DEF ServerTypeOK, Capture
    <3> QED
      BY <1>0, <1>4, <3>2 DEF ConfirmHandled, ConfirmAsset, ServerTypeOK
  <2> QED
    BY <1>0, <1>4, <2>1, AdvancedTypeInv DEF ConfirmHandled, spoolVars, envVars, SpoolTypeOK
<1>5. CASE ConfirmMismatch
  BY <1>0, <1>5, StepEndings, EnvUnchanged DEF ConfirmMismatch
<1>6. CASE ConfirmReplied
  <2>1. PICK next \in {"preview_confirmed", "master_confirmed"} :
          Succeed(Transition(Current, next))
    BY <1>6 DEF ConfirmReplied
  <2>2. Transition(Current, next) \in CaptureRow
    BY <1>0, <2>1, RowOperations
  <2> QED
    BY <1>0, <1>6, <2>1, <2>2, SucceedTypeInv DEF ConfirmReplied
<1> QED
  BY <1>1, <1>2, <1>3, <1>4, <1>5, <1>6

LEMMA StepFailsType == ASSUME TypeInv, StepFails PROVE TypeInv'
<1>0. /\ SpoolTypeOK /\ ServerTypeOK /\ targets \subseteq Row
      /\ phase \in {"ingest", "drain"} /\ "permanent_error" \in Reason
  BY DEF TypeInv, TypeOK, Reason
<1>1. job.at # "idle"
  BY DEF StepFails, RequestFails, AuthorityWithdrawn, RequestRefused, ReadFails,
         Requesting, Replying
<1>2. PICK kind : Fault(kind)
  BY DEF StepFails, RequestFails, AuthorityWithdrawn, RequestRefused, ReadFails
<1>3. faults' \in [left : 0..MaxFaults, kinds : SUBSET FaultKind]
  BY <1>2, FaultType DEF TypeInv
<1>4. Retry(Current) \in CaptureRow /\ Reject(Current, "permanent_error") \in CaptureRow
  BY <1>0, <1>1, CurrentType, StepEndings, RowOperations
<1>5. CASE AuthorityWithdrawn
  BY <1>0, <1>3, <1>5, IdleType
     DEF AuthorityWithdrawn, TypeInv, TypeOK, JobOwnsRow, spoolVars, serverVars,
         SpoolTypeOK, ServerTypeOK
<1>6. CASE RequestFails \/ RequestRefused \/ ReadFails
  BY <1>0, <1>1, <1>3, <1>4, <1>6, EndStepTypeInv
     DEF RequestFails, RequestRefused, ReadFails, serverVars, SpoolTypeOK, ServerTypeOK
<1> QED
  BY <1>5, <1>6 DEF StepFails

LEMMA CleanupType == ASSUME TypeInv, CleanupSweep PROVE TypeInv'
<1>0. /\ sweep \in [Sweeper -> Sweep] /\ Resting \in Sweep
      /\ \A k \in Sweeper : /\ sweep[k].todo \subseteq Row
                            /\ sweep[k].hand \in Hand \cup {None}
      /\ disk \in [Path -> Content \cup {None}]
  BY DEF TypeInv, TypeOK, Sweep, Resting
<1>1. ASSUME sweep' \in [Sweeper -> Sweep], rows' \in [Row -> CaptureRow],
             disk' \in [Path -> Content \cup {None}],
             UNCHANGED <<hwm, serverVars, card, edits, faults, phase, job, targets>>
      PROVE  TypeInv'
  BY <1>1 DEF TypeInv, TypeOK, JobOwnsRow, serverVars, SpoolTypeOK, ServerTypeOK
<1>2. ASSUME NEW k \in Sweeper, SweepBegins(k) \/ SweepEnds(k) PROVE TypeInv'
  <2>1. sweep' \in [Sweeper -> Sweep]
    BY <1>0, <1>2 DEF SweepBegins, SweepEnds, Sweep
  <2> QED
    BY <1>0, <1>1, <1>2, <2>1 DEF SweepBegins, SweepEnds, spoolVars, envVars, TypeInv, TypeOK,
                                  SpoolTypeOK
<1>3. ASSUME NEW k \in Sweeper, NEW r \in Row, SweepVerify(k, r) PROVE TypeInv'
  <2>1. InHand(r) \in Hand
    BY <1>3, VisibleType DEF SweepVerify, InHand, Hand, TypeInv
  <2>2. [todo |-> sweep[k].todo \ {r}, hand |-> InHand(r)] \in Sweep
    BY <1>0, <2>1 DEF Sweep
  <2>3. sweep' = [sweep EXCEPT ![k] = [todo |-> sweep[k].todo \ {r}, hand |-> InHand(r)]]
    BY <1>3 DEF SweepVerify
  <2> QED
    BY <1>0, <1>1, <1>3, <2>2, <2>3 DEF SweepVerify, spoolVars, envVars, TypeInv, TypeOK,
                                        SpoolTypeOK
<1>4. ASSUME NEW k \in Sweeper, SweepUnlink(k) PROVE TypeInv'
  <2>1. sweep[k].hand \in Hand
    BY <1>0, <1>4 DEF SweepUnlink
  <2>2. [sweep[k].hand EXCEPT !.unlinked = TRUE] \in Hand /\ sweep[k].hand.path \in Path
    BY <2>1 DEF Hand
  <2>3. [sweep[k] EXCEPT !.hand = [sweep[k].hand EXCEPT !.unlinked = TRUE]] \in Sweep
    BY <1>0, <2>2 DEF Sweep
  <2>4. \/ sweep' = [sweep EXCEPT ![k] = Resting] /\ UNCHANGED disk
        \/ /\ sweep' = [sweep EXCEPT ![k] =
                           [sweep[k] EXCEPT !.hand = [sweep[k].hand EXCEPT !.unlinked = TRUE]]]
           /\ disk' = [disk EXCEPT ![sweep[k].hand.path] = None]
    BY <1>4 DEF SweepUnlink
  <2>5. sweep' \in [Sweeper -> Sweep] /\ disk' \in [Path -> Content \cup {None}]
    BY <1>0, <2>2, <2>3, <2>4
  <2> QED
    BY <1>1, <1>4, <2>5 DEF SweepUnlink, spoolVars, TypeInv, TypeOK, SpoolTypeOK
<1>5. ASSUME NEW k \in Sweeper, SweepRecord(k) PROVE TypeInv'
  <2> DEFINE hand == sweep[k].hand
             row  == [rows[hand.row] EXCEPT !.deleted = TRUE]
  <2>1. hand.row \in Row
    BY <1>0, <1>5 DEF SweepRecord, Hand
  <2>2. /\ rows' = [rows EXCEPT ![hand.row] = row]
        /\ sweep' = [sweep EXCEPT ![k].hand = None]
    BY <1>5 DEF SweepRecord
  <2>3. row \in CaptureRow
    BY <2>1, FieldTypes DEF TypeInv, TypeOK, SpoolTypeOK
  <2> HIDE DEF row
  <2>4. rows' \in [Row -> CaptureRow]
    BY <2>2, <2>3 DEF TypeInv, TypeOK, SpoolTypeOK
  <2>5. sweep' \in [Sweeper -> Sweep]
    BY <1>0, <2>2 DEF Sweep
  <2> QED
    BY <1>0, <1>1, <1>5, <2>4, <2>5 DEF SweepRecord, envVars
<1> QED
  BY <1>2, <1>3, <1>4, <1>5 DEF CleanupSweep

LEMMA EnvironmentType == ASSUME TypeInv, Environment PROVE TypeInv'
<1>1. CASE Edit
  <2>1. PICK e \in edits : /\ disk' = [disk EXCEPT ![e[1]] = e[2]]
                           /\ edits' = edits \ {e}
    BY <1>1 DEF Edit
  <2>2. e[1] \in Path /\ e[2] \in Content \cup {None}
    BY <2>1, PipelineAssumption DEF TypeInv, TypeOK
  <2>3. disk' \in [Path -> Content \cup {None}] /\ edits' \subseteq Edits
    BY <2>1, <2>2 DEF TypeInv, TypeOK
  <2> QED
    BY <1>1, <2>3 DEF Edit, TypeInv, TypeOK, JobOwnsRow, spoolVars, serverVars, procVars,
                      SpoolTypeOK, ServerTypeOK
<1>2. CASE PullCard \/ ReturnCard
  <2>1. faults' \in [left : 0..MaxFaults, kinds : SUBSET FaultKind]
    BY <1>2, FaultType DEF PullCard, ReturnCard, TypeInv, TypeOK
  <2> QED
    BY <1>2, <2>1 DEF PullCard, ReturnCard, TypeInv, TypeOK, JobOwnsRow, spoolVars,
                      serverVars, procVars, SpoolTypeOK, ServerTypeOK
<1>3. CASE GracePasses
  <2>1. faults' \in [left : 0..MaxFaults, kinds : SUBSET FaultKind]
    BY <1>3, FaultType DEF GracePasses, TypeInv
  <2>2. rows' \in [Row -> CaptureRow]
    <3> DEFINE later(r) == [rows[r] EXCEPT !.missing = IF @ = "recent" THEN "stale" ELSE @]
    <3>1. ASSUME NEW r \in Row PROVE later(r) \in CaptureRow
      BY DEF TypeInv, TypeOK, SpoolTypeOK, CaptureRow
    <3>2. rows' = [r \in Row |-> later(r)]
      BY <1>3 DEF GracePasses
    <3> HIDE DEF later
    <3> QED
      BY <3>1, <3>2
  <2> QED
    BY <1>3, <2>1, <2>2 DEF GracePasses, TypeInv, TypeOK, JobOwnsRow, serverVars, procVars,
                            SpoolTypeOK, ServerTypeOK
<1>4. CASE Crash
  <2>1. faults' \in [left : 0..MaxFaults, kinds : SUBSET FaultKind]
    BY <1>4, FaultType DEF Crash, TypeInv
  <2>2. rows' \in [Row -> CaptureRow]
    BY <1>4, RowOperations DEF Crash, Recover, TypeInv, TypeOK, SpoolTypeOK
  <2>3. NoSweeps \in [Sweeper -> Sweep]
    BY DEF NoSweeps, Resting, Sweep
  <2> QED
    BY <1>4, <2>1, <2>2, <2>3, IdleType DEF Crash, TypeInv, TypeOK, JobOwnsRow, serverVars,
                            SpoolTypeOK, ServerTypeOK
<1> QED
  BY <1>1, <1>2, <1>3, <1>4 DEF Environment

-----------------------------------------------------------------------------

LEMMA NextType == TypeInv /\ [Next]_vars => TypeInv'
<1> SUFFICES ASSUME TypeInv, [Next]_vars PROVE TypeInv'
  OBVIOUS
<1>1. CASE BeginDrain \/ DrainEnds
  BY <1>1 DEF BeginDrain, DrainEnds, TypeInv, TypeOK, JobOwnsRow, spoolVars, serverVars,
              envVars, SpoolTypeOK, ServerTypeOK
<1>2. CASE StepProceeds
  BY <1>2, HashMasterType, HashPreviewType, AnnounceType, UploadType DEF StepProceeds
<1>3. CASE UNCHANGED vars
  BY <1>3 DEF vars, TypeInv, TypeOK, JobOwnsRow, spoolVars, serverVars, envVars, procVars,
              SpoolTypeOK, ServerTypeOK
<1> QED
  BY <1>1, <1>2, <1>3, DiscoverType, ClaimType, StepFailsType, CleanupType, EnvironmentType
     DEF Next

\* Every reachable state is well typed, and a step in flight owns a row: so
\* the writes that end a step always land on a row of the captures table.
THEOREM SpecTypeInv == Spec => []TypeInv
BY InitType, NextType, PTL DEF Spec

\* Type correctness (the TypeOK invariant of the pair run), for any card,
\* edits, faults and bounds.
THEOREM TypeCorrect == Spec => []TypeOK
BY SpecTypeInv, PTL DEF TypeInv

=============================================================================
