-------------------------- MODULE CapturePipeline --------------------------
(***************************************************************************)
(* One Bridge at one event: the run loop (bridge/src/bridge.js), the       *)
(* upload pipeline it drains (bridge/src/pipeline.js), the spool, the      *)
(* server, the memory card they all depend on, and the retention sweeps    *)
(* that a timer of their own starts beside the loop.                       *)
(*                                                                         *)
(* A pipeline step is cut at every await: between two actions of one step  *)
(* the card may change or be pulled, the sweep may run, a reply may be     *)
(* lost and the process may be killed.  Only the step in flight writes the *)
(* row it claimed, so the snapshot the code carries is the row itself.     *)
(***************************************************************************)
EXTENDS Spool, CaptureServer

CONSTANTS
    Cards,          \* the cards a Bridge may start with: Path -> Content or None
    Edits,          \* <<path, content or None>>: what may happen to it later,
                    \* each at most once (None: moved away or deleted)
    Untransferable, \* contents no transfer ever delivers intact
    FaultMixes,     \* sets of fault kinds: a behaviour draws its faults from one
    MaxFaults,      \* ... and has at most this many
    Sweeper         \* cleanup sweeps the timer may have running at one time;
                    \* none if no retention period is configured

VARIABLES
    disk,           \* the files on the card
    card,           \* "in" | "out" | "long_out" (out for the whole grace)
    edits,          \* the Edits still to come
    faults,         \* how many faults are still to come, and of which kinds
    phase,          \* the run loop: "ingest" | "drain"
    job,            \* the pipeline step in flight, and where it awaits
    targets,        \* rows whose upload targets are cached in memory
    sweep           \* what each cleanup sweep has still to do, and in hand

envVars  == <<disk, card, edits, faults>>
procVars == <<phase, job, targets, sweep>>
vars     == <<spoolVars, serverVars, envVars, procVars>>

FaultKind == {"crash", "network", "authority", "refused", "corrupt", "io",
              "card", "grace"}

ASSUME PipelineAssumption ==
    /\ Cards \subseteq [Path -> Content \cup {None}]
    /\ Edits \subseteq Path \X (Content \cup {None})
    /\ Untransferable \subseteq Content
    /\ FaultMixes \subseteq SUBSET FaultKind
    /\ MaxFaults \in Nat
    /\ None \notin Row

At == {"idle", "hash_master", "hash_preview", "announce", "announced", "skip",
       "refresh", "refreshed", "read", "send", "stored", "confirmed"}

\* seen: what a stat saw before a hash; digest: the master's, once hashed.
Job  == [at : At, row : Row \cup {None},
         seen : Content \cup {None}, digest : Content \cup {None}]
Idle == [at |-> "idle", row |-> None, seen |-> None, digest |-> None]

\* A file a sweep has verified, and the rows it has yet to look at.
Hand     == [row : Row, path : Path, verified : Content, unlinked : BOOLEAN]
Sweep    == [todo : SUBSET Row, hand : Hand \cup {None}]
Resting == [todo |-> {}, hand |-> None]

TypeOK ==
    /\ SpoolTypeOK
    /\ ServerTypeOK
    /\ disk \in [Path -> Content \cup {None}]
    /\ card \in {"in", "out", "long_out"}
    /\ edits \subseteq Edits
    /\ faults \in [left : 0..MaxFaults, kinds : SUBSET FaultKind]
    /\ phase \in {"ingest", "drain"}
    /\ job \in Job
    /\ targets \subseteq Row
    /\ sweep \in [Sweeper -> Sweep]

NoSweeps == [k \in Sweeper |-> Resting]

Init ==
    /\ SpoolInit
    /\ ServerInit
    /\ disk \in Cards
    /\ card = "in"
    /\ edits = Edits
    /\ faults \in [left : {MaxFaults}, kinds : FaultMixes]
    /\ phase = "ingest"
    /\ job = Idle
    /\ targets = {}
    /\ sweep = NoSweeps

(***************************************************************************)
(* The environment.                                                        *)
(***************************************************************************)

\* What stat() and readFile() find under a path.
Visible(p) == IF card = "in" /\ p \in Path THEN disk[p] ELSE None

Fault(kind) ==
    /\ kind \in faults.kinds
    /\ faults.left > 0
    /\ faults' = [faults EXCEPT !.left = @ - 1]

Edit ==
    /\ card = "in"
    /\ \E e \in edits :
        /\ disk' = [disk EXCEPT ![e[1]] = e[2]]
        /\ edits' = edits \ {e}
    /\ UNCHANGED <<spoolVars, serverVars, card, faults, procVars>>

PullCard ==
    /\ Fault("card")
    /\ card = "in"
    /\ card' = "out"
    /\ UNCHANGED <<spoolVars, serverVars, disk, edits, procVars>>

ReturnCard ==
    /\ card # "in"
    /\ card' = "in"
    /\ UNCHANGED <<spoolVars, serverVars, disk, edits, faults, procVars>>

\* The missing-source grace passes, for every absence that has begun.
GracePasses ==
    /\ Fault("grace")
    /\ card' = IF card = "out" THEN "long_out" ELSE card
    /\ rows' = [r \in Row |-> [rows[r] EXCEPT !.missing =
                                 IF @ = "recent" THEN "stale" ELSE @]]
    /\ UNCHANGED <<hwm, serverVars, disk, edits, procVars>>

(***************************************************************************)
(* How step() ends.  Every ending writes the claimed row once and leaves   *)
(* the process between steps.                                              *)
(***************************************************************************)

EndStep(row) ==
    /\ rows' = [rows EXCEPT ![job.row] = row]
    /\ job' = Idle

\* The step returned normally, having written row.
Succeed(row) == EndStep(ClearFailure(row))

\* Mutant: the first missing read is final, and the key is kept.
GiveUpAtOnce(row) == Reject(row, "source_vanished")

\* The source file is absent: wait, and after the grace give up.
SourceMissing(row) ==
    LET noted == RecordFailure(NoteMissing(row))
    IN  IF row.missing = "stale"
        THEN RejectAndRelease(noted, "source_vanished") ELSE noted

\* A transient or local error: keep the place, try again later.
Retry(row) ==
    LET failed == RecordFailure(ClearMissing(row))
    IN  IF failed.attempts >= MaxAttempts /\ row.state = "discovered"
        THEN Reject(failed, "unreadable") ELSE failed

\* The server holds other bytes than it was promised: re-arm the upload.
Mismatch(row) ==
    LET failed == RecordFailure(ClearMissing(row))
    IN  IF failed.attempts >= MaxBounded
        THEN Reject(failed, "checksum_mismatch_persistent") ELSE Rewind(failed)

Current == rows[job.row]
InStep(at) == job.at = at
Advance(at) == job' = [job EXCEPT !.at = at]

(***************************************************************************)
(* step(): claimNext() and the synchronous head of #advance.               *)
(***************************************************************************)

Claims(r, state) ==
    /\ phase = "drain"
    /\ job = Idle
    /\ Claimable(r)
    /\ rows[r].state = state
    /\ UNCHANGED <<hwm, serverVars, envVars, phase, sweep>>

Await(r, at) ==
    /\ job' = [Idle EXCEPT !.at = at, !.row = r]
    /\ UNCHANGED rows

AtOnce(r, row) ==
    /\ rows' = [rows EXCEPT ![r] = row]
    /\ UNCHANGED job

Seen == [p \in Path |-> Visible(p)]
SiblingOf(p) == IF IsJpeg(p) THEN RawBeside(p[1], Seen) ELSE None
HasRawSibling(row) == SiblingOf(row.master) # None

\* #hash finds the RAW half beside a JPEG master and starts over with it.
ClaimUpgrade(r) ==
    /\ Claims(r, "discovered")
    /\ HasRawSibling(rows[r])
    /\ AtOnce(r, LET jpeg == rows[r].master  raw == SiblingOf(jpeg) IN
         ClearFailure(UpgradeMasterToRaw(rows[r], raw,
                        OrElse(rows[r].preview, jpeg), Visible(raw))))
    /\ UNCHANGED targets

ClaimHash(r) ==
    /\ Claims(r, "discovered")
    /\ ~HasRawSibling(rows[r])
    /\ Visible(rows[r].master) # None
    /\ job' = [at |-> "hash_master", row |-> r,
               seen |-> Visible(rows[r].master), digest |-> None]
    /\ UNCHANGED <<rows, targets>>

\* #hash or #announce stats a file that is not there.
ClaimAbsent(r) ==
    /\ \/ Claims(r, "discovered") /\ ~HasRawSibling(rows[r])
       \/ Claims(r, "hashed")
    /\ Visible(rows[r].master) = None
    /\ AtOnce(r, SourceMissing(rows[r]))
    /\ UNCHANGED targets

\* #announce: the file moved on since it was hashed.
ClaimStale(r) ==
    /\ Claims(r, "hashed")
    /\ Visible(rows[r].master) \notin {None, rows[r].observed}
    /\ AtOnce(r, ClearFailure(Transition(rows[r], "discovered")))
    /\ UNCHANGED targets

ClaimAnnounce(r) ==
    /\ Claims(r, "hashed")
    /\ Visible(rows[r].master) = rows[r].observed
    /\ Await(r, "announce")
    /\ UNCHANGED targets

\* #startPreview.  A RAW-only capture has nothing to send ahead: it passes
\* through uploading_preview in two transactions of the same step.
ClaimPreview(r) ==
    /\ Claims(r, "queued")
    /\ IF rows[r].preview = None
       THEN /\ rows' = [rows EXCEPT ![r] = Transition(@, "uploading_preview")]
            /\ job' = [Idle EXCEPT !.at = "skip", !.row = r]
       ELSE AtOnce(r, ClearFailure(Transition(rows[r], "uploading_preview")))
    /\ UNCHANGED targets

ClaimMaster(r) ==
    /\ Claims(r, "preview_confirmed")
    /\ AtOnce(r, ClearFailure(Transition(rows[r], "uploading_master")))
    /\ UNCHANGED targets

\* #freshTargets: a cached target may have aged out, and is then asked for
\* again under the same idempotency key.
ClaimUpload(r) ==
    /\ \E state \in Uploading : Claims(r, state)
    /\ \/ Await(r, "refresh")
       \/ r \in targets /\ Await(r, "read")
    /\ UNCHANGED targets

ClaimComplete(r) ==
    /\ Claims(r, "master_confirmed")
    /\ AtOnce(r, ClearFailure(Transition(rows[r], "complete")))
    /\ targets' = targets \ {r}

Claim(r) ==
    \/ ClaimUpgrade(r)
    \/ ClaimHash(r)
    \/ ClaimAbsent(r)
    \/ ClaimStale(r)
    \/ ClaimAnnounce(r)
    \/ ClaimPreview(r)
    \/ ClaimMaster(r)
    \/ ClaimUpload(r)
    \/ ClaimComplete(r)

(***************************************************************************)
(* #hash after its awaits.                                                 *)
(***************************************************************************)

\* hashStable() saw the file change under it, or its last stat finds nothing.
\* recordFailure is undone by the clearFailure of a step that returns.
HashUnstable(p) ==
    /\ Visible(p) # job.seen
    /\ IF Visible(p) = None THEN EndStep(SourceMissing(Current))
                            ELSE Succeed(RecordFailure(Current))

Hashed(master, preview) ==
    IF DigestIsFree(job.row, master)
    THEN Succeed([Current EXCEPT !.state = "hashed",
                                 !.content = master, !.observed = master,
                                 !.previewDigest = OrElse(preview, @)])
    ELSE Succeed([Current EXCEPT !.state = "rejected",
                                 !.reason = "duplicate_content", !.content = None])

HashMaster ==
    /\ InStep("hash_master")
    /\ \/ HashUnstable(Current.master)
       \/ /\ Visible(Current.master) = job.seen
          /\ job.seen \in Oversize
          /\ Succeed(Reject(Current, "too_large"))
       \/ /\ Visible(Current.master) = job.seen
          /\ job.seen \notin Oversize
          /\ IF Current.preview \in {None, Current.master}
             THEN Hashed(job.seen, IF Current.preview = None THEN None ELSE job.seen)
             ELSE IF Visible(Current.preview) = None
             THEN EndStep(SourceMissing(Current))
             ELSE /\ job' = [job EXCEPT !.at = "hash_preview", !.digest = job.seen,
                                        !.seen = Visible(Current.preview)]
                  /\ UNCHANGED rows
    /\ UNCHANGED <<hwm, serverVars, envVars, phase, targets, sweep>>

HashPreview ==
    /\ InStep("hash_preview")
    /\ \/ HashUnstable(Current.preview)
       \/ /\ Visible(Current.preview) = job.seen
          /\ Hashed(job.digest, job.seen)
    /\ UNCHANGED <<hwm, serverVars, envVars, phase, targets, sweep>>

(***************************************************************************)
(* Announcing, and asking again for upload targets.                        *)
(***************************************************************************)

AnnounceHandled ==
    /\ job.at \in {"announce", "refresh"}
    /\ \/ AnnounceRepeats(job.row)
       \/ AnnounceCreates(job.row, Current.seq, Current.content, Current.previewDigest)
    /\ Advance(IF job.at = "announce" THEN "announced" ELSE "refreshed")
    /\ UNCHANGED <<spoolVars, envVars, phase, targets, sweep>>

\* sequence_conflict: take the next number, then fail the attempt as transient.
AnnounceConflict ==
    /\ job.at \in {"announce", "refresh"}
    /\ AnnounceConflicts(job.row, Current.seq)
    /\ hwm' = hwm + 1
    /\ EndStep(Retry([Current EXCEPT !.seq = hwm + 1]))
    /\ UNCHANGED <<serverVars, envVars, phase, targets, sweep>>

AnnounceReplied ==
    /\ \/ /\ InStep("announced")
          /\ Succeed(Transition(Current, "queued"))
       \/ /\ InStep("refreshed")
          /\ Advance("read")
          /\ UNCHANGED rows
    /\ targets' = targets \cup {job.row}
    /\ UNCHANGED <<hwm, serverVars, envVars, phase, sweep>>

(***************************************************************************)
(* Uploading and confirming one asset.                                     *)
(***************************************************************************)

KindOf(row)   == IF row.state = "uploading_preview" THEN "preview" ELSE "master"
SourceOf(row) == IF row.state = "uploading_preview" THEN row.preview ELSE row.master
DigestOf(row) == IF row.state = "uploading_preview" THEN row.previewDigest ELSE row.content

SkipPreview ==
    /\ InStep("skip")
    /\ Succeed(Transition(Current, "preview_confirmed"))
    /\ UNCHANGED <<hwm, serverVars, envVars, phase, targets, sweep>>

\* The bytes are read into memory and must still be the announced ones.
ReadSource ==
    /\ InStep("read")
    /\ LET found == Visible(SourceOf(Current)) IN
       \/ found = None /\ EndStep(SourceMissing(Current))
       \/ /\ found \notin {None, DigestOf(Current)}
          /\ Succeed(RejectAndRelease(Current, "content_changed_after_announce"))
       \/ /\ found # None
          /\ found = DigestOf(Current)
          /\ Advance("send")
          /\ UNCHANGED rows
    /\ UNCHANGED <<hwm, serverVars, envVars, phase, targets, sweep>>

SendBytes ==
    /\ InStep("send")
    /\ LET digest == DigestOf(Current) IN
       \/ /\ Store(job.row, KindOf(Current),
                   IF digest \in Untransferable THEN Corrupt ELSE digest)
          /\ UNCHANGED faults
       \/ /\ Fault("corrupt")
          /\ Store(job.row, KindOf(Current), Corrupt)
    /\ Advance("stored")
    /\ UNCHANGED <<spoolVars, disk, card, edits, phase, targets, sweep>>

\* The upload returned; the confirmation request reaches the server.
ConfirmHandled ==
    /\ InStep("stored")
    /\ ConfirmAsset(job.row, KindOf(Current), DigestOf(Current))
    /\ Advance("confirmed")
    /\ UNCHANGED <<spoolVars, envVars, phase, targets, sweep>>

ConfirmMismatch ==
    /\ InStep("stored")
    /\ ~ConfirmMatches(job.row, KindOf(Current), DigestOf(Current))
    /\ EndStep(Mismatch(Current))
    /\ UNCHANGED <<hwm, serverVars, envVars, phase, targets, sweep>>

\* Mutant: an upload that returned 200 counts as a confirmation.
UploadReplied ==
    /\ job.at \in {"stored", "confirmed"}
    /\ Succeed(Transition(Current, IF KindOf(Current) = "preview"
                                   THEN "preview_confirmed" ELSE "master_confirmed"))
    /\ UNCHANGED <<hwm, serverVars, envVars, phase, targets, sweep>>

ConfirmReplied ==
    /\ InStep("confirmed")
    /\ Succeed(Transition(Current, IF KindOf(Current) = "preview"
                                   THEN "preview_confirmed" ELSE "master_confirmed"))
    /\ UNCHANGED <<hwm, serverVars, envVars, phase, targets, sweep>>

(***************************************************************************)
(* What goes wrong with a request or a read.                               *)
(***************************************************************************)

Requesting == {"announce", "refresh", "send", "stored"}
Replying   == {"announced", "refreshed", "confirmed"}

\* A 5xx, a timeout or a dead link.  While "Replying" the server has already
\* committed and only the acknowledgement is lost.
RequestFails ==
    /\ job.at \in Requesting \cup Replying
    /\ Fault("network")
    /\ EndStep(Retry(Current))
    /\ UNCHANGED <<hwm, serverVars, disk, card, edits, phase, targets, sweep>>

\* An authority code: nothing is recorded, and the drain stops.
AuthorityWithdrawn ==
    /\ job.at \in {"announce", "refresh", "stored"}
    /\ Fault("authority")
    /\ job' = Idle
    /\ phase' = "ingest"
    /\ UNCHANGED <<spoolVars, serverVars, disk, card, edits, targets, sweep>>

\* Any other 4xx is final for the row.
RequestRefused ==
    /\ job.at \in Requesting
    /\ Fault("refused")
    /\ EndStep(Reject(Current, "permanent_error"))
    /\ UNCHANGED <<hwm, serverVars, disk, card, edits, phase, targets, sweep>>

\* A read error other than ENOENT, in hashStable or readFile.
ReadFails ==
    /\ job.at \in {"hash_master", "hash_preview", "read"}
    /\ Fault("io")
    /\ EndStep(Retry(Current))
    /\ UNCHANGED <<hwm, serverVars, disk, card, edits, phase, targets, sweep>>

\* The process is killed and started again: memory is gone, recover() runs.
Crash ==
    /\ Fault("crash")
    /\ rows' = Recover
    /\ phase' = "ingest"
    /\ job' = Idle
    /\ targets' = {}
    /\ sweep' = NoSweeps
    /\ UNCHANGED <<hwm, serverVars, disk, card, edits>>

(***************************************************************************)
(* The run loop: ingest what the scanner reports, then drain until no row  *)
(* is due.  The scanner's quiet period and pair grace decide when a group  *)
(* is reported; here any group with a file on the card may be.             *)
(***************************************************************************)

Scanned(g) == Reported(g, Seen)

Discover(g) ==
    /\ phase = "ingest"
    /\ \E in \in Scanned(g) : SpoolDiscover(in)
    /\ UNCHANGED <<serverVars, envVars, procVars>>

BeginDrain ==
    /\ phase = "ingest"
    /\ phase' = "drain"
    /\ UNCHANGED <<spoolVars, serverVars, envVars, job, targets, sweep>>

DrainEnds ==
    /\ phase = "drain"
    /\ job = Idle
    /\ MayBeIdle
    /\ phase' = "ingest"
    /\ UNCHANGED <<spoolVars, serverVars, envVars, job, targets, sweep>>

(***************************************************************************)
(* sweepCleanup(), on a timer of its own that does not wait for the sweep  *)
(* before.  The retention period of a complete row may have passed at any  *)
(* time; a sweep passes over the rows for which it has not, or whose file  *)
(* is not there or not the one that was uploaded.                          *)
(***************************************************************************)

SweepBegins(k) ==
    /\ sweep[k] = Resting
    /\ sweep' = [sweep EXCEPT ![k].todo =
                   {r \in Row : rows[r].state = "complete" /\ ~rows[r].deleted}]
    /\ UNCHANGED <<spoolVars, serverVars, envVars, phase, job, targets>>

InHand(r) == [row |-> r, path |-> rows[r].master,
              verified |-> Visible(rows[r].master), unlinked |-> FALSE]

\* Mutant: the digest on disk is not compared with the acknowledged one.
SweepAnything(k, r) ==
    /\ sweep[k].hand = None
    /\ r \in sweep[k].todo
    /\ Visible(rows[r].master) # None
    /\ sweep' = [sweep EXCEPT ![k] = [todo |-> @.todo \ {r}, hand |-> InHand(r)]]
    /\ UNCHANGED <<spoolVars, serverVars, envVars, phase, job, targets>>

SweepVerify(k, r) ==
    /\ sweep[k].hand = None
    /\ r \in sweep[k].todo
    /\ Visible(rows[r].master) # None
    /\ Visible(rows[r].master) = rows[r].content
    /\ sweep' = [sweep EXCEPT ![k] = [todo |-> @.todo \ {r}, hand |-> InHand(r)]]
    /\ UNCHANGED <<spoolVars, serverVars, envVars, phase, job, targets>>

\* unlink() takes whatever is under the path now; ENOENT, which another sweep
\* may have brought about, ends this one.
SweepUnlink(k) ==
    LET hand == sweep[k].hand IN
    /\ hand # None /\ ~hand.unlinked
    /\ IF Visible(hand.path) = None
       THEN sweep' = [sweep EXCEPT ![k] = Resting] /\ UNCHANGED disk
       ELSE /\ disk' = [disk EXCEPT ![hand.path] = None]
            /\ sweep' = [sweep EXCEPT ![k].hand = [hand EXCEPT !.unlinked = TRUE]]
    /\ UNCHANGED <<spoolVars, serverVars, card, edits, faults, phase, job, targets>>

SweepRecord(k) ==
    LET hand == sweep[k].hand IN
    /\ hand # None /\ hand.unlinked
    /\ rows' = [rows EXCEPT ![hand.row].deleted = TRUE]
    /\ sweep' = [sweep EXCEPT ![k].hand = None]
    /\ UNCHANGED <<hwm, serverVars, envVars, phase, job, targets>>

\* The rest is skipped.
SweepEnds(k) ==
    /\ sweep[k].hand = None
    /\ sweep' = [sweep EXCEPT ![k] = Resting]
    /\ UNCHANGED <<spoolVars, serverVars, envVars, phase, job, targets>>

-----------------------------------------------------------------------------

\* The step in flight goes on: no fault is needed for it.
StepProceeds ==
    \/ HashMaster
    \/ HashPreview
    \/ AnnounceHandled
    \/ AnnounceConflict
    \/ AnnounceReplied
    \/ SkipPreview
    \/ ReadSource
    \/ SendBytes
    \/ ConfirmHandled
    \/ ConfirmMismatch
    \/ ConfirmReplied

StepFails ==
    \/ RequestFails
    \/ AuthorityWithdrawn
    \/ RequestRefused
    \/ ReadFails

CleanupSweep ==
    \E k \in Sweeper :
        \/ SweepBegins(k)
        \/ \E r \in Row : SweepVerify(k, r)
        \/ SweepUnlink(k)
        \/ SweepRecord(k)
        \/ SweepEnds(k)

Environment ==
    \/ Edit
    \/ PullCard
    \/ ReturnCard
    \/ GracePasses
    \/ Crash

Next ==
    \/ \E g \in Group : Discover(g)
    \/ BeginDrain
    \/ DrainEnds
    \/ \E r \in Row : Claim(r)
    \/ StepProceeds
    \/ StepFails
    \/ CleanupSweep
    \/ Environment

Spec == Init /\ [][Next]_vars

\* The loop never stops polling, a step in flight always returns, the card is
\* put back, the scanner goes on reporting a group it sees, and a backoff of
\* at most a minute ends, so every row that is due is claimed again.
Fairness ==
    /\ WF_vars(BeginDrain) /\ WF_vars(DrainEnds)
    /\ WF_vars(StepProceeds)
    /\ WF_vars(ReturnCard)
    /\ \A g \in Group : SF_vars(Discover(g))
    /\ \A r \in Row : SF_vars(Claim(r))

FairSpec == Spec /\ Fairness

-----------------------------------------------------------------------------
(***************************************************************************)
(* Safety.                                                                 *)
(***************************************************************************)

\* A confirmed state is true of the server, whatever was lost, repeated or
\* killed on the way: it vouches for the digest the row carries and still has
\* those bytes (the *_CONFIRMED rule of spool.js:12-14).
PreviewDone == {"preview_confirmed", "uploading_master", "master_confirmed", "complete"}
MasterDone  == {"master_confirmed", "complete"}

ConfirmedIsHeld ==
    \A r \in Row :
        /\ rows[r].state \in PreviewDone /\ rows[r].preview # None
              => Holds(r, "preview", rows[r].previewDigest)
        /\ rows[r].state \in MasterDone
              => Holds(r, "master", rows[r].content)

\* One photograph, one capture: however often a file is renamed, re-announced
\* or rediscovered, no two captures end up with the same master bytes.
NothingStoredTwice ==
    \A r, s \in Row : r # s =>
        \/ captures[r].asset["master"] = None
        \/ captures[r].asset["master"] # captures[s].asset["master"]

\* The unique indexes discover() and reassignSequence() write through without
\* catching a violation are never violated: live group keys, and sequences.
UniqueIndexesHold ==
    \A r, s \in Present : r # s =>
        /\ rows[r].key # None => rows[r].key # rows[s].key
        /\ rows[r].seq # rows[s].seq

\* The server files a capture under the number its row carries, even when the
\* acknowledgement that said so was lost and a number was reassigned.
SequenceAgreed ==
    \A r \in Row : captures[r].known => captures[r].seq = rows[r].seq

\* No sweep takes a file in hand unless the server has acknowledged the bytes,
\* however old its list of rows is and whatever another sweep does meanwhile.
SweepHoldsAcknowledged ==
    \A k \in Sweeper : LET hand == sweep[k].hand IN
        hand # None => Holds(hand.row, "master", hand.verified)

-----------------------------------------------------------------------------
(***************************************************************************)
(* What a step may never do.                                               *)
(***************************************************************************)

\* transition() never throws "illegal capture transition", and the writes that
\* go around it (release, upgrade, reconcile) keep to the same edges: above
\* all, no crash or mismatch rewinds past a confirmation.
MovesAlongEdges ==
    [][\A r \in Present : rows'[r].state # rows[r].state
         => rows'[r].state \in Allowed[rows[r].state]]_rows

\* Once a row has left the announce window its digests and paths are frozen,
\* whatever siblings or rewrites the scanner reports.
DigestsFrozen ==
    [][\A r \in Present : rows[r].state \notin PreAnnounced
         => /\ rows'[r].content = rows[r].content
            /\ rows'[r].previewDigest = rows[r].previewDigest
            /\ rows'[r].master = rows[r].master
            /\ rows'[r].preview = rows[r].preview]_rows

\* The Bridge keeps the promise of CapturePromise.
Told(state) ==
    IF state = "absent" THEN "unseen"
    ELSE IF state \in MasterDone THEN "safe"
    ELSE IF state = "rejected" THEN "given_up"
    ELSE "working"

Promise == INSTANCE CapturePromise WITH
    Photo  <- Row,
    told   <- [r \in Row |-> Told(rows[r].state)],
    intact <- {r \in Row : Holds(r, "master", rows[r].content)}

PromiseKept == Promise!Spec

-----------------------------------------------------------------------------
(***************************************************************************)
(* Liveness, under FairSpec.                                               *)
(***************************************************************************)

Delivered(c) ==
    \E r \in Row : /\ rows[r].state = "complete"
                   /\ c \in {rows[r].content, rows[r].previewDigest}

\* Every file left alone on the card ends up in a complete capture, as its
\* master or its preview, through any finite number of faults.
EveryPhotographArrives ==
    <>(\A p \in Path : disk[p] # None => Delivered(disk[p]))

\* Every photograph taken on is settled one way or the other.
EveryRowSettles ==
    \A r \in Row : (r \in Present) ~> (rows[r].state \in Terminal)

=============================================================================
