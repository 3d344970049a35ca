------------------------------- MODULE Spool -------------------------------
(***************************************************************************)
(* The capture spool of the Bridge (bridge/src/spool.js over the captures  *)
(* table of bridge/src/db.js): what a row is, the edges it may move along  *)
(* and the operations that change it.  Every operation here is one SQLite  *)
(* transaction, so each is used as, or inside, one atomic step.            *)
(*                                                                         *)
(* A file's bytes are an element of Content; its digest, size and mtime    *)
(* are told apart exactly when the bytes are.  A photograph on disk is a   *)
(* stem (an element of Group) with a JPEG, a RAW, or both; two JPEGs under *)
(* one stem (IMG.jpg beside IMG.jpeg), or two RAWs, collide.               *)
(***************************************************************************)
EXTENDS Photographs

CONSTANTS
    Group,          \* filename stems on the card
    Oversize,       \* contents over the size ceiling
    MaxBounded,     \* MAX_BOUNDED_ATTEMPTS
    MaxAttempts     \* MAX_ATTEMPTS_BEFORE_REJECT

VARIABLES
    rows,           \* the captures table
    hwm             \* meta.sequence_hwm

spoolVars == <<rows, hwm>>

Path == Group \X {"jpg", "jpeg", "raw", "dng"}
Key  == (Group \X {"stem"}) \cup Path    \* groupKeyFor(path), or a path
Stem(g)  == <<g, "stem">>
Jpeg(g)  == <<g, "jpg">>
Jpegs(g) == {Jpeg(g), <<g, "jpeg">>}
Raw(g)   == <<g, "raw">>
Raws(g)  == {Raw(g), <<g, "dng">>}
IsJpeg(p) == p \in Path /\ p[2] \in {"jpg", "jpeg"}

ASSUME SpoolAssumption ==
    /\ Oversize \subseteq Content
    /\ None \notin Path \cup Key
    /\ MaxBounded \in Nat \ {0}
    /\ MaxAttempts \in Nat
    /\ MaxBounded <= MaxAttempts

PreAnnounced == {"discovered", "hashed"}
Uploading    == {"uploading_preview", "uploading_master"}
Terminal     == {"complete", "rejected"}
Working      == PreAnnounced \cup Uploading
                  \cup {"queued", "preview_confirmed", "master_confirmed"}
RowState     == Working \cup Terminal

\* The edges transition() accepts; anything else it throws on.
Allowed ==
    [ discovered        |-> {"hashed", "rejected"},
      hashed            |-> {"queued", "discovered", "rejected"},
      queued            |-> {"uploading_preview", "rejected"},
      uploading_preview |-> {"preview_confirmed", "queued", "rejected"},
      preview_confirmed |-> {"uploading_master", "rejected"},
      uploading_master  |-> {"master_confirmed", "preview_confirmed", "rejected"},
      master_confirmed  |-> {"complete"},
      complete          |-> {},
      rejected          |-> {} ]

Reason == {"too_large", "duplicate_content", "permanent_error", "unreadable",
           "source_vanished", "content_changed_after_announce",
           "checksum_mismatch_persistent"}

CaptureRow ==
    [ state    : RowState \cup {"absent"},
      key      : Key \cup {None},       \* None: a retired, never matched key
      master   : Path \cup {None},
      preview  : Path \cup {None},
      observed : Content \cup {None},   \* observed_size, observed_mtime_ms
      content  : Content \cup {None},   \* content_sha256
      previewDigest : Content \cup {None},
      seq      : Nat,
      attempts : 0..MaxAttempts,        \* saturates: only compared with bounds
      missing  : {"no", "recent", "stale"},   \* source_missing_since
      reason   : Reason \cup {None},
      deleted  : BOOLEAN ]              \* local_deleted_at is set

AbsentRow ==
    [ state |-> "absent", key |-> None, master |-> None, preview |-> None,
      observed |-> None, content |-> None, previewDigest |-> None, seq |-> 0,
      attempts |-> 0, missing |-> "no", reason |-> None, deleted |-> FALSE ]

SpoolTypeOK ==
    /\ rows \in [Row -> CaptureRow]
    /\ hwm \in Nat

SpoolInit ==
    /\ rows = [r \in Row |-> AbsentRow]
    /\ hwm = 0

Present == {r \in Row : rows[r].state # "absent"}

(***************************************************************************)
(* Operations on one row.                                                  *)
(***************************************************************************)

OrElse(a, b) == IF a # None THEN a ELSE b     \* a ?? b

Bump(n) == IF n < MaxAttempts THEN n + 1 ELSE n

RecordFailure(row)  == [row EXCEPT !.attempts = Bump(@)]
ClearFailure(row)   == [row EXCEPT !.attempts = 0]
ClearMissing(row)   == [row EXCEPT !.missing = "no"]
NoteMissing(row)    == [row EXCEPT !.missing = IF @ = "no" THEN "recent" ELSE @]
Transition(row, next) == [row EXCEPT !.state = next]
Reject(row, why)    == [row EXCEPT !.state = "rejected", !.reason = why]

\* Mutant: the key is handed back in a transaction of its own.
ReleaseFirst(row, why) == [row EXCEPT !.key = None]

\* The key is handed back so the file can be rediscovered; the digest stays.
RejectAndRelease(row, why) ==
    [row EXCEPT !.state = "rejected", !.reason = why, !.key = None]

HashAgain(row) ==
    [row EXCEPT !.state = "discovered", !.content = None, !.previewDigest = None]

UpgradeMasterToRaw(row, raw, preview, seen) ==
    [HashAgain(row) EXCEPT !.master = raw, !.preview = preview, !.observed = seen]

AttachPreview(row, jpeg) ==
    [row EXCEPT !.preview = jpeg, !.previewDigest = None,
                !.state = "discovered"]

\* Mutant: an interrupted master upload starts over from the preview.
RewindToStart(row) ==
    [row EXCEPT !.state = IF @ \in Uploading THEN "queued" ELSE @]

\* Where a crash, or a bounded failure, sends a row caught mid-upload.
Rewind(row) ==
    [row EXCEPT !.state = IF @ = "uploading_preview" THEN "queued"
                          ELSE IF @ = "uploading_master" THEN "preview_confirmed"
                          ELSE @]

\* Mutant: the table is rebuilt from the pending rows alone.
RecoverPending ==
    [r \in {s \in Row : rows[s].state \in Working} |-> Rewind(rows[r])]

\* recover(): every pending row, rewound in its own transaction at start-up.
Recover == [r \in Row |-> Rewind(rows[r])]

FreshRow(in, key, preview, seq) ==
    [AbsentRow EXCEPT !.state = "discovered", !.key = key, !.master = in.master,
                      !.preview = preview, !.observed = in.seen, !.seq = seq]

(***************************************************************************)
(* discover(): what one group reported by the scanner does to the spool.   *)
(* in = [key, master, preview, seen, hasRaw].  Cases in which nothing      *)
(* changes (a repeated scan) are not steps.  Row is the supply of ids: a   *)
(* run gives it enough that an insert is never refused.                    *)
(***************************************************************************)

\* Mutant: the collision is resolved by picking one file for each role.
PickedOne(g, found) ==
    LET jpegs == {p \in Jpegs(g) : found[p] # None}
        raws  == {p \in Raws(g) : found[p] # None}
        Pick(files, first) == {p \in files : p = first \/ files = {p}}
    IN  {[ key |-> Stem(g), master |-> m, preview |-> v,
           seen |-> found[m], hasRaw |-> raws # {} ] :
           m \in IF raws # {} THEN Pick(raws, Raw(g)) ELSE Pick(jpegs, Jpeg(g)),
           v \in IF jpegs = {} THEN {None} ELSE Pick(jpegs, Jpeg(g))}

\* The records scan() makes of the files found under one stem: one for the
\* stem, or, when two files compete for a role, one for each file.
Reported(g, found) ==
    LET jpegs == {p \in Jpegs(g) : found[p] # None}
        raws  == {p \in Raws(g) : found[p] # None}
    IN  IF jpegs = Jpegs(g) \/ raws = Raws(g)
        THEN {[ key |-> p, master |-> p, preview |-> IF IsJpeg(p) THEN p ELSE None,
                seen |-> found[p], hasRaw |-> FALSE ] : p \in jpegs \cup raws}
        ELSE {[ key |-> Stem(g), master |-> m, preview |-> v,
                seen |-> found[m], hasRaw |-> raws # {} ] :
                m \in IF raws # {} THEN raws ELSE jpegs,
                v \in IF jpegs = {} THEN {None} ELSE jpegs}

FreeId == CHOOSE r \in Row : rows[r].state = "absent"

Insert(table, in, key, preview) ==
    /\ \E r \in Row : rows[r].state = "absent"
    /\ rows' = [table EXCEPT ![FreeId] = FreshRow(in, key, preview, hwm + 1)]
    /\ hwm' = hwm + 1

DiscoverNew(in) ==
    /\ \A r \in Row : rows[r].key # in.key
    /\ Insert(rows, in, in.key, in.preview)

\* #findRawSibling(): the first RAW there is under a stem, or None.
RawBeside(g, found) ==
    IF \E p \in Raws(g) : found[p] # None
    THEN CHOOSE p \in Raws(g) :
            /\ found[p] # None
            /\ p = Raw(g) \/ found[Raw(g)] = None
    ELSE None

LateRaw(row, in) == in.master # row.master /\ in.hasRaw

\* Mutant: the upgrade is not limited to rows the server was not told of.
ReconcileUpgradeAnyTime(r, in) ==
    /\ LateRaw(rows[r], in)
    /\ rows' = [rows EXCEPT ![r] =
                 UpgradeMasterToRaw(@, in.master, OrElse(in.preview, @.preview), in.seen)]
    /\ UNCHANGED hwm

\* The RAW half arrives before the JPEG was announced: the row is upgraded.
ReconcileUpgrade(r, in) ==
    /\ LateRaw(rows[r], in)
    /\ rows[r].state \in PreAnnounced
    /\ rows' = [rows EXCEPT ![r] =
                 UpgradeMasterToRaw(@, in.master, OrElse(in.preview, @.preview), in.seen)]
    /\ UNCHANGED hwm

\* Too late to upgrade: the RAW becomes a capture of its own, keyed by path.
ReconcileOwnRow(r, in) ==
    /\ LateRaw(rows[r], in)
    /\ rows[r].state \notin PreAnnounced
    /\ \A s \in Row : rows[s].key # in.master
    /\ Insert(rows, in, in.master, None)

ReconcilePreview(r, in) ==
    /\ ~LateRaw(rows[r], in)
    /\ in.preview # None /\ rows[r].preview = None
    /\ rows[r].state \in PreAnnounced
    /\ rows' = [rows EXCEPT ![r] = AttachPreview(@, in.preview)]
    /\ UNCHANGED hwm

\* Mutant: the finished capture keeps the group key the new one takes.
ReconcileReuseKeepsKey(r, in) ==
    /\ in.master = rows[r].master
    /\ rows[r].state \in Terminal
    /\ in.seen # rows[r].observed
    /\ Insert(rows, in, in.key, in.preview)

\* The camera reused the filename of a finished capture.
ReconcileReuse(r, in) ==
    /\ in.master = rows[r].master
    /\ rows[r].state \in Terminal
    /\ in.seen # rows[r].observed
    /\ Insert([rows EXCEPT ![r].key = None], in, in.key, in.preview)

SpoolDiscover(in) ==
    \/ DiscoverNew(in)
    \/ \E r \in Row :
        /\ rows[r].key = in.key
        /\ \/ ReconcileUpgrade(r, in)
           \/ ReconcileOwnRow(r, in)
           \/ ReconcilePreview(r, in)
           \/ ReconcileReuse(r, in)

(***************************************************************************)
(* claimNext(): the due row with the lowest sequence number.  A row that   *)
(* never failed is always due; one that did is due or not, depending on    *)
(* its jittered backoff, so it is claimable unless a row that never failed *)
(* comes before it.                                                        *)
(***************************************************************************)
Claimable(r) ==
    /\ rows[r].state \in Working
    /\ \A s \in Row : rows[s].state \in Working /\ rows[s].attempts = 0
                        => rows[r].seq <= rows[s].seq

\* No row has to be due now: claimNext() may come back empty.
MayBeIdle == \A r \in Row : rows[r].state \in Working => rows[r].attempts > 0

\* Mutant: only rows still being worked on count as duplicates.
DigestIsFreeOfWorking(r, d) ==
    \A s \in Row \ {r} : rows[s].content = d => rows[s].state \notin Working

\* The unique index on (event_id, content_sha256) accepts digest d for row r.
DigestIsFree(r, d) == \A s \in Row \ {r} : rows[s].content # d

-----------------------------------------------------------------------------

(***************************************************************************)
(* What the table promises whoever fills and drains it: a row goes by its  *)
(* group key, and its photograph is a press of the shutter, known by its   *)
(* stem, with or without a RAW.                                            *)
(***************************************************************************)

StageOf(state) ==
    IF state = "absent" THEN "unseen"
    ELSE IF state \in PreAnnounced THEN "held"
    ELSE IF state \in Terminal THEN "settled"
    ELSE "sent"

PressOf(master) == IF master = None THEN None ELSE master[1]
IsRaw(master)   == master # None /\ ~IsJpeg(master)

Table == INSTANCE CaptureTable WITH
    Name    <- Key,
    Press   <- Group,
    stage   <- [r \in Row |-> StageOf(rows[r].state)],
    name    <- [r \in Row |-> rows[r].key],
    press   <- [r \in Row |-> PressOf(rows[r].master)],
    withRaw <- {r \in Row : IsRaw(rows[r].master)}

\* The table of captures keeps the promise of CaptureTable: no two rows share
\* a key, a RAW joins the JPEG of its own press and only before that is
\* announced, and only a row that is finished gives its key up, to nobody or
\* to the next photograph under the filename (spool.js:110-168, 310).
TableKept == Table!Spec

=============================================================================
