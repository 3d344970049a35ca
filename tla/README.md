# Fotolab: a TLA+ verification project

Fotolab takes the photographs of an event from a photographer's memory card to the people
who buy them. The Bridge, a Node program on the photographer's laptop, watches the card,
records every photograph in a SQLite spool, and uploads it over whatever network the venue
has, through crashes, pulled cards and lost replies. The server, a Postgres schema with
its triggers and functions, sells them: orders, payments, entitlements, mailed links.

This project models both, model-checks them with TLC on small instances, and proves their
main safety properties with TLAPS for instances of every size.

Paths below are relative to the repository root.

## 1. Inventory

| part | code | state it keeps | operations |
|---|---|---|---|
| Capture spool | `bridge/src/spool.js`, `db.js` | table `captures` (state, group key, paths, observed size and mtime, digests, sequence number, attempts, missing-since, reason), `meta.sequence_hwm` | `discover` with its reconciliations, `transition`, `recordFailure`, `clearFailure`, `noteSourceMissing`, `clearSourceMissing`, `reject`, `rejectAndRelease`, `upgradeMasterToRaw`, `reassignSequence`, `claimNext`, `recover` |
| Upload pipeline | `pipeline.js` | the step in flight, the cache of upload targets | `step` and the five stages it dispatches to |
| Cleanup sweep | `pipeline.js` `sweepCleanup`, timer in `cli.js` | the rows still to look at, the file in hand | list, verify, unlink, record |
| Run loop | `bridge.js` | phase, halt reason, takeovers, cached disk state | `ensureSession`, `ingestOnce`, `drain`, `run`, `recover` |
| Scanner | `scanner.js` | observations of size and mtime, when a group settled | `scan` |
| Client | `client.js` | none | requests; classification of answers into transient, permanent, authority |
| Identity, sessions | `identity.js` | key pair, device row, session row | enroll, challenge, session, revoke |
| Disk gate, status, command line | `disk.js`, `status.js`, `cli.js` | none of their own | read-only, wiring |
| Server, capture contract | `bridge/test/fake-server.js` | captures by key, objects, sequence numbers, assets | announce, upload, confirm |
| Server, devices | `supabase/migrations/0007` | device sessions, clone signals | open, touch, resolve |
| Server, commerce | `0001`, `0004` | orders, items, price lists, payment events, entitlements, grants | triggers that guard each write; `authorize_download` |
| Server, order tokens | `0006` | tokens, customer sessions | issue, supersede, consume |
| Server, tenancy | `0002`, `0003`, `0005`, `0008` | keys, policies, buckets, grants | declarative |

How they interact. The run loop is one JavaScript task: scan, `discover` every group,
then `step` until no row is due. Sweeps are tasks an interval timer of the same
process starts, without waiting for the one before; they interleave with the loop and with
each other at every `await`. All share the spool
(each write is one SQLite transaction) and the card, which the camera and the
photographer change at any moment. The server is reached by requests that may be lost
before or after they take effect. A crash loses the step, the cached targets and the
sweep; the table survives and `recover` rewinds it.

What is hard: digests computed across awaits while files change; a RAW half that arrives
before, during or after its JPEG's announcement; a reply lost after the commit; a
sequence number reassigned after a spool was lost; retries that must re-send and not
merely re-confirm; deletions racing everything else; filenames used again. The full
list, each at its line, is `hazards` in `PROJECT.json`.

What makes each part correct:

- spool: rows move only along the legal edges; unique group keys, digests and sequence
  numbers; what was announced is frozen; nothing confirmed is rewound;
- pipeline with server: a confirmed state is true of the server; one photograph, one
  capture; every photograph arrives if faults stop;
- sweep: what it verified before it deletes, the server holds (what is under the name when it
  deletes may be another file, section 4);
- scanner and disk gate: only whole files are reported, one press of the shutter is one
  capture, and no file is passed over for ever;
- status page: what it says of a photograph is true of it (section 4);
- sessions: one live session per device, every taking of a working one counted once, and
  contention halts instead of oscillating;
- commerce: an order's amount is that of its items; nothing is delivered without a
  verified payment; an active entitlement has an order that was paid; a link yields one
  session.

## 2. Modules

| module | models |
|---|---|
| `Photographs` | the vocabulary shared by both sides: rows, file contents, null |
| `Spool` | one captures table: row operations as operators on a record, `discover` as actions, and what the scanner reports of the files under a stem |
| `CaptureTable` | abstract: the table of captures as names, presses of the shutter and stages; `CapturePipeline` and `Watch` both implement it, through `Table` of `Spool` |
| `CaptureServer` | the server's half of the contract, as `fake-server.js` states it |
| `CapturePipeline` | composes both with the card, the run loop, the step in flight, the sweeps, and the faults; states the properties |
| `CapturePromise` | abstract: what a photographer is told, and what must then be true; `CapturePipeline` implements it |
| `CaptureClaims` | four promises of the repository's comments and docs that the code does not keep |
| `Watch` | the camera, `scan()` with its clocks, the disk gate and its cache, `ingestOnce()`, composed with `Spool` |
| `Sessions` | installations of one device: enrollment, `ensureSession()`, `open_device_session()`, takeovers, halts, operators |
| `DeviceLease` | abstract: a lease that changes hands in one step and counts each taking from a working holder; `Sessions` implements it |
| `SessionClaims` | one promise of the run loop's comment that the code does not keep |
| `Orders` | items, prices, discounts, totals, payments, order states, entitlements, downloads and access links, with two transactions at once |
| `MCCapturePipeline`, `MCWatch`, `MCSessions`, `MCOrders` | cards, cameras, fault mixes and price lists for TLC |
| `Spool_proofs` | what each row operation, each insert and each report returns, and which step of `CaptureTable` it is, for both compositions of `Spool` |
| `CapturePipeline_proofs`, `CaptureSafety_proofs`, `CaptureSteps_proofs`, `Watch_proofs`, `Sessions_proofs`, `Orders_proofs` | the theorems |

`CapturePipeline` and `Watch` both compose `Spool`, each with the detail the other
abstracts. In `CapturePipeline` a file appears whole and may be reported at any moment; in
`Watch` it is written in steps and reported by the clock, but what the pipeline does to a
row is only outlined (`Drain`). In both, `discover()` and the records a scan makes
(`Reported`) are the definitions of `Spool`.

A definition commented `Mutant:` is no part of the model: it is the definition that
follows it with a plausible bug (a dropped guard, a swapped order, a missing check), and
`mutants` in `PROJECT.json` says which property that bug violates and in which run.

### Capture: state and actions against the code


- **A file's bytes** are an element of `Content`, and stand at once for its digest and
  for its size and mtime: two files are told apart by one exactly when by the other.
  `content_sha256`, `preview_sha256`, `observed_size/mtime` are fields of a row with
  values in `Content`.
- **A row's id** doubles as its `randomUUID` idempotency key; `Row` is the supply of ids
  and a run has enough that no insert is refused.
- **Group keys** are `Stem(g)` for the scanner's key and a path for a RAW that became a
  row of its own; `None` is a retired or released key, which nothing matches again.
- **`job`** is the step in flight: the row it claimed, the await it is suspended in, and
  the two values it carries across awaits (`seen`, `digest`). The code's row snapshot is
  the row itself, since nothing else writes the claimed row before the step ends
  (`JobOwnsRow` and the proofs rest on this; a sweep writes only complete rows).
- **`sweep[k]`** is one call of `sweepCleanup()`: the rows of its query it has not looked at
  (`todo`) and the file it has verified (`hand`). The code looks at them in order; here in
  any, and a row it passes over stays in `todo` until the sweep ends. `Sweeper` bounds how
  many run at once, and is empty where no retention period is configured. A sweep whose
  `unlink` finds nothing throws, which ends it and leaves the row for the next.
- **Cut points.** Each action is the code between two awaits: `Claim*` run from
  `claimNext` to the first await of the stage; `HashMaster`, `HashPreview` are
  `hashStable`; `AnnounceHandled` is the server's handling, `AnnounceReplied` the
  reply; `ReadSource`, `SendBytes`, `ConfirmHandled`, `ConfirmReplied` are the upload.
  A reply lost after the commit is `RequestFails` while `job.at` is in `Replying`.
- **How a step ends** is written as the code writes it: `Succeed` is `clearFailure` after a
  stage that returned, `Retry`, `SourceMissing` and `Mismatch` are the branches of the
  `catch`, in their order. The spool call a stage makes and the `clearFailure` or
  `recordFailure` that follows it without an await are one action.
- **Time.** `claimNext`'s backoff is abstracted: a row that never failed is due, one that
  failed may or may not be. `attempts` saturates at `MaxAttempts`, since the code only
  compares it with bounds. `source_missing_since` is `no`, `recent` or `stale`, and
  `GracePasses` makes recent absences stale; `card = "long_out"` records that the card
  itself was out for the grace, which only a claim of `CaptureClaims` reads. The age of
  cached targets is a choice between using and refreshing them.
- **The scanner** may report any stem with a file on the card, which is weaker than its
  quiet period and pair grace: everything it can emit is covered, in any order. Two JPEGs
  under one stem, or two RAWs, collide for one role, and every file of the stem is then
  reported under its own path.
- **`Discover` uses the bytes that are on the card when it runs.** The code passes on what
  an earlier stat saw. `Watch` keeps the two apart.
- **Faults** are an explicit budget: crash, lost request or reply, withdrawn authority,
  refusal (4xx), corrupted transfer, read error, pulled card, grace passing. A run gives
  the sets of kinds a behaviour may draw from, and how many.

Left out of these modules: the columns `sibling_group_key` and `role_collision`, which
nothing reads back; empty files; several events in one spool (`Sessions` has them);
`maxSteps` (10 000); a duplicate PUT that arrives after its retry was confirmed; server
ids of captures and assets; `bumpSequenceTo` (no caller); schema migration. What an
authority error does to identity and session is in `Sessions`; here it halts the drain.

### Watch: state and actions against the code

- **A file in the making** has two partial contents `Part(c, 1)` and `Part(c, 2)` before
  its finished one. As elsewhere, two contents stand for two different (size, mtime).
- **`scan` is cut at its awaits**: `BeginIngest` lists the directory, each `Stat` is one
  `stat`, `FinishScan` is the synchronous rest, each `Emit` is one `discover` transaction.
  Camera, clock and volume may move between any two of these.
- **Clocks.** `obs[p].age` is `now - observation.since`, `settled[g]` is
  `now - groupSettledAt`, `gate.age` the age of the cached disk check, each saturated at
  the bound the code compares it with.
- **The camera** does what a camera must for a quiet period to mean anything
  (`CameraIsPrompt`): it does not pause inside a file for the quiet period, and begins the
  RAW of a pair at most `PairLag` after the JPEG. `OnePressOneCapture` holds exactly while
  `PairLag < Quiet + Grace` (`PairsAreQuick`). The run takes the largest such lag.
- **Left out**: the walk over directories and the tables of extensions, and
  `waitingGroups()` and `isQuiescent()`, which the loop never asks.

### Sessions: state and actions against the code

- **An installation** is a process on one machine with a copy of the key pair. `at[b]` is
  the await it is suspended in; `known` and `store` are its device and session rows, which
  survive restarts, `takeovers` and `halt` are memory, which does not.
- **`open_device_session()`** is cut where it reads the live session without a lock
  (`OpenReads`), where `FOR UPDATE` returns (`OpenLocks`), and where it commits or is
  refused by the partial unique index (`OpenCommits`, `OpenRefused`). The client may have
  given up on the answer in the meantime.
- **Enrolling is a command of its own** (`cli.js`), which an operator gives until it succeeds
  and may give again once the Bridge has been told that its device is compromised. `run` enrolls
  nobody (`Runs`): an installation with a row that is not `active` opens no session.
- **`Compromised`** updates the device's row and then its sessions, `open_device_session()` its
  prior session and then the device's row. When each has its first lock the database breaks the
  deadlock: the opening is rolled back (`InTheWay`), or the operator's transaction is, which
  changes nothing and is no step. Every other order of the two is one after the other.
- **Session ids are reused** once nothing refers to the row; with the faults of the run
  four are enough for two installations, so that no opening ever waits for one.
- **Time** of a session is `fresh`, `closing` (within the margin of `isLive()`) or `over`;
  `recent` is "last seen within `clone_activity_window()`".
- **Abstractions**: an installation has one opening at a time at the server; the
  challenge is part of the request that follows it; `event_not_live` is left out, since
  all events are live.

### Orders: state and actions against the code

- **A transaction** is one action, unless a trigger reads a row that the transaction does
  not lock: then it is cut in two, where its BEFORE triggers have read (`AddItem`,
  `ChangeQuantity`, `RemoveItem`, `SetEntitlement`, `AskLink`, `Redeem`) and where it has
  its locks and commits. The second part looks again at exactly what Postgres looks at
  again: the unique index, the foreign key, the WHERE clause of an UPDATE that waited.
- **`Derived`** is `guard_order_amount()`, run on every write of an order over the items
  committed by then; `Paying` and `Follows` are `guard_order_transition()`.
- **`minted`** counts the customer sessions a link has yielded; it is not a column.
- **`CallMixes`** picks which calls meet in one behaviour, so that a run is the union of
  four smaller systems instead of their product.
- **Left out**: tenancy guards and currency; moving an item to another order (the guard
  looks at the new order only); rebinding `payment_events.order_id`; `download_grants`,
  `package_access` and replacement entitlements; customer sessions and their expiry.

## 3. Runs

Contents, stems, rows, sessions and links are distinguishable (rows are claimed by number,
links are taken in order, liveness is checked). Only the two sweeps of `twins` are alike, and
symmetric: nothing in the model tells them apart, and the run has no liveness property.

| run | instance | shows |
|---|---|---|
| `pair` | one stem, empty card; JPEG `a`, RAW `b`, and a new JPEG `c` under the old name may appear in any order; 2 faults of any kind; sequence 2 already spent; 4 rows | `TypeOK`, `ConfirmedIsHeld`, `UniqueIndexesHold`, `SequenceAgreed`, `MovesAlongEdges`, `DigestsFrozen`, `PromiseKept`, `TableKept` |
| `twins` | one stem, two JPEGs `a` that collide over it; one overwritten, an oversize RAW added; 1 fault from {crash, network, grace}; two sweeps at a time; 6 rows | `NothingStoredTwice`, `SweepHoldsAcknowledged` |
| `arrival` | a pair and a lone RAW, or two RAWs that collide; no edits; 2 faults from {crash, network, authority, card} or {crash, network, corrupt}; fair | `EveryPhotographArrives` |
| `watch` | one stem; the camera writes a pair, or two JPEGs that collide, or one JPEG name twice and erases it; a volume that may fill; 1 restart or change of the volume; 3 rows; fair | `TypeOK`, `WholeFilesOnly`, `OnePressOneCapture`, `NothingSwallowed`, `TableKept` |
| `sessions` | two installations, 4 session ids, 2 faults of the mixes {lost, restart}, {expiry}, {reassign}, {clear, compromise}; fair | `TypeOK`, `OneLiveSession`, `LeaseKept`, `FinishesOrHalts` |
| `orders` | one order, two photographs, two price lists, payments of two amounts in both modes and one unverified, three links, two transactions at once | `TypeOK`, `TotalIsDerived`, `NothingFree`, `ActiveWasPaid`, `LinkWorksOnce` |
| `duplicate` | a pair, its JPEG written again; no faults | violates `DuplicateIsCovered` |
| `grace` | one JPEG, two short absences | violates `VanishedOnlyAfterGrace` |
| `retract` | one JPEG, one lost reply, then the RAW half | violates `AnnouncedDigestKept` |
| `bounded` | one JPEG that no transfer delivers intact, no faults, fair | violates `BoundedFailureSettles` |
| `switch` | one installation, one photograph, an expiry and a restart for another event, fair | violates `StartingResumes` |
| `frozen` | adding, paying and order states, two transactions at once | violates `FrozenAtPayment` |

Why the bounds suffice for these questions.

- `pair`: row 4 is reached: a JPEG announced, its RAW as a row of its own, a reuse, and a
  spare. A spent sequence number in the middle forces `sequence_conflict` for one of the
  rows. Two faults cover the pairs that matter (a lost acknowledgement then a crash, an
  absence then the grace). `MAX_BOUNDED_ATTEMPTS` (5) and `MAX_ATTEMPTS_BEFORE_REJECT`
  (12) are 2 and 2 in the safety runs, so both limits are reached within the fault budget;
  in `arrival` they are 5, so that the budget of 2 cannot reach them, as in the code.
- `twins`: a collision puts the same bytes into two rows at once, which is what the unique
  content index is for, and the overwrite makes them differ at the wrong moment. A second
  sweep is what it takes for a list or a file to be stale by another's doing; a third would
  meet the same two kinds of neighbour, and the proof is about any number.
- `arrival`: the pair and the lone RAW take every path a file can take to the server, and
  the colliding RAWs are the other way a stem is reported.
- `watch`: quiet period 2, pair grace 1 and disk cache 1 tick. Quiet must exceed 1 for a
  file to be seen in the making. The files of one stem are what one group key can
  confuse; a second stem would be independent.
- `sessions`: two installations are what "one other" means; `maxSessionTakeovers` (2) is
  1 and `clone_signal_threshold()` (3) is 2, so that both halts are reached, alone and in
  either order. `switch` has the values of the code.
- `orders`: two clients are enough for a read and a commit to be out of order, two items
  for a sum to go wrong, and two amounts and modes for a payment to be the wrong one.

Deadlock is checked in the capture and watch runs. It is not in `sessions` and `switch`,
where every installation may have halted, finished or been refused, nor in `orders` and
`frozen`, where a cancelled order with nothing to do is the end.

### Fairness

`CapturePipeline`: `FairSpec` asks: the loop begins and ends drains and an await of the step in flight
returns (weak: these stay enabled until taken; requests have timeouts); a pulled card is
put back (weak, an assumption about people); each group that is visible again and again
is eventually reported, and each row that is claimable again and again is eventually
claimed (strong: being in the ingest or drain phase comes and goes with the loop; a
backoff ends after at most a minute and `claimNext` orders rows, so no row is passed over for
ever). Nothing is assumed of faults: the budget is finite, and no action that spends it is
fair. Nothing forces an edit or a sweep.

`Watch`: the loop goes on with its scan and time passes (weak); the camera goes on while it has
a file or a pair it began (weak, only then: nobody is obliged to press the shutter); somebody makes
room on a full volume (weak, an assumption about people); and the drain acts if it can act
in every cycle (strong: being in the drain comes and goes with the loop).

`Sessions`: the database finishes what it began and every installation keeps polling (weak).
An installation that has never enrolled is polled with the `enroll` command: that somebody
gives it is assumed with the rest. Losses, restarts, expiries and operators are never fair and
are at most two.

`Orders` has safety properties only, and no fairness. In all models a request ends, with an
answer or without. The client's timer is cleared when the headers arrive (`client.js:83`), so
a server that stalls inside a body would hang the loop; the fairness above excludes it.

## 4. Capture: what the repository says and the code does not do

1. **`bounded`** `bridge/README.md:161-163` bounds the retries of a checksum mismatch. The
   rewind sends the row to `queued` or `preview_confirmed`, the next step only moves it to
   `uploading_*` and returns, and `step()` clears the attempt count
   (`pipeline.js:99`). A file that never arrives intact is sent for ever. The page does not
   list such a row as stuck either: it asks for eight attempts (`status.js:80-83`), and the
   count never gets past one.
2. **`duplicate`** `rejectAndRelease` frees the group key for rediscovery and keeps
   `content_sha256`. The rediscovered file hashes to the same digest, meets the unique
   index, and is rejected as a duplicate of the row that gave it up, while `status.js:151`
   reports "was already uploaded from this card. Nothing is missing". It takes no fault: when
   the JPEG of a pair is written again after the announcement, `#finishPreview` gives up the
   row of the pair, whose digest is the unchanged RAW's, and neither the new JPEG nor the RAW
   arrives, though `status.js:159` says "The new version will be picked up on its own". It may be
   behind the open item of `docs/field-qualification.md:279-287` (74 of 76 files delivered,
   beside one `content_changed_after_announce`), for which that page suspects a lack of time.
   A card that comes back after the grace (`source_vanished`) ends the same way, and a second
   copy of the bytes of any rejected row is called a duplicate of it.
3. **`grace`** `source_missing_since` is only cleared in the error path of `step()`
   (`pipeline.js:138`). It survives a successful step, a halt and a restart, so two short
   absences are judged as a long one (against `pipeline.js:54-58`).
4. **`retract`** The upgrade to a RAW master is guarded by the local state; a row whose
   announcement committed and whose reply was lost is still `hashed` (against
   `spool.js:253-256`). The server keeps the JPEG's digest, and with 1. the row is then sent
   and refused for ever.

Met while modelling, with no run:

- `scanner.js:139-142` breaks colliding files apart so that none is lost, but
  `#findRawSibling` looks at the directory (`pipeline.js:259-271`): two JPEGs that collide beside
  a RAW each take that RAW as their master, hash to the digest of the RAW's own row and are
  rejected as its duplicates, so no JPEG of the stem arrives. `EveryPhotographArrives` is
  therefore checked on other cards;
- `status.js:196` says "Everything shot on this laptop is uploaded" whenever no row is waiting.
  A rejected row is not waiting, and the page tells of it only below the headline;
- a file that changes under `hashStable` records a failure that the same step's
  `clearFailure` undoes, so the retry is immediate (`pipeline.js:208-213`);
- attempts that lost requests ran up count toward `MAX_BOUNDED_ATTEMPTS`, so a first
  mismatch after four of them rejects;
- a 4xx from an upload is final for the row whatever its cause;
- the sweep deletes by path after an await (`pipeline.js:466-474`), so a file written there
  in between goes unseen;
- `#findRawSibling` looks at the directory, without the quiet period of the scanner: it
  hashes a RAW that is still being written (against the sense of `scanner.js:36-37`).
  `WholeFilesOnly` speaks of what scans report, not of this;
- a filename used again while the row of its stem has another kind of master, or a file
  that is gone, is taken for the old photograph: no branch of `#reconcileExisting()` applies
  and the new one gets no row. `NothingSwallowed` excludes this case by name (`Shadowed`),
  and TLC finds it at once without the exclusion. A JPEG rewritten under the row of
  its RAW is not noticed either, nor one that arrives after its RAW was announced;
- `groupSettledAt` is not reset when a lone JPEG is rewritten, so the second version may be
  reported with no pair grace of its own;
- the status page says "Everything shot on this laptop is uploaded" also while files wait for
  the quiet period, which have no row yet. `status` runs in a process of its own, so
  `haltReason` and `ingestPaused` are never those of the Bridge that is running, and the
  heartbeat is written once per cycle (`bridge.js:224`), so a drain of more than half a
  minute reads as "Bridge is not running".

## 5. Proofs

Assumptions: those the modules name (`NoneIsNoContent`, `SpoolAssumption`,
`ServerAssumption`, `PipelineAssumption`, `WatchAssumption`, `SessionsAssumption`,
`OrdersAssumption`), which TLC also evaluates in the runs. `Row`,
`Group`, `Content`, `Bridge`, `Session`, `Order`, `Capture` and `Token` are arbitrary sets,
finite or not; `Client` is finite, since an order's items are counted. Every invariant and
every action property of a passing run is a theorem, and so is every refinement: of
`CapturePromise`, of `DeviceLease`, and twice of `CaptureTable`.

`Spool_proofs` has the lemmas both compositions of `Spool` rest on: which fields each
operation changes, that `discover` keeps `SpoolTypeOK`, and what a report is.

It also proves the part of the refinement of `CaptureTable` that is the spool's own. `Placed`
is what the steps rest on: a row in the table has a master, and while it has a name, the name
and the master are of one press of the shutter. `Named` says the same of a report, and
`ReportedNamed` proves it of every report a scan can make: that is why a RAW that
`#reconcileExisting` takes for the other half of a row is of the same press. `CarriesTable`
covers the changes that keep a row's photograph or find its RAW, `InsertTable` and `ReuseTable`
a row inserted under a new name or under the one a finished row hands over, and
`SpoolDiscoverTable` reads every branch of `discover` as one of these. `TableNamesAreOnes` is
about `CaptureTable` alone, so it holds of whatever implements it: no two rows share a name. The
two compositions then have only their drains left to map: `PipelineKeepsTable` follows each
ending of a step and the restart (`Stays`: what a row may change in a step that inserts
nothing), and `WatchKeepsTable` the reports a scan holds and the outline of the drain.

### The capture pipeline

`CapturePipeline_proofs`: `TypeInv` is `TypeOK` with `JobOwnsRow`, without which
`rows[job.row]` means nothing. One lemma per group of operations, one per action, then
`SpecTypeInv` and `TypeCorrect`.

`CaptureSafety_proofs`: none of the four safety properties is inductive. `ConfirmedIsHeld` needs
to know that the digest a row carries is still the one a suspended step will confirm,
that the confirmation it is waiting for did happen, and that a store can only replace the
object of the row in flight. `SafetyInv` has four parts:

- `JobSafe`: for each await, what is true of the claimed row, of its capture and of its
  object (for example, between `ConfirmHandled` and `ConfirmReplied` the server holds the
  digest);
- `TableSafe` with `RowSafe` and `RowFits`: what a row's state says of the server's
  record of it, and that keys and numbers are unique and below the high-water mark;
- `SweepSafe`: what any sweep has on its list is a complete row, and what it has in hand
  belongs to a complete row that carries the digest it verified, so neither a step nor another
  sweep unmakes it (`SweepStays`);
- its initial case, one lemma per action, and `SpecSafetyInv`.

From it follow `ConfirmedAlwaysHeld`, `SweepAlwaysAcknowledged`, `IndexesAlwaysUnique` and
`SequencesAlwaysAgree`.

`CaptureSteps_proofs` proves what a step may not do. `StepKind` splits the steps into those
that leave every row where it is, those that move one row, and the restart that rewinds
them all; `NextMoves` proves the split from `SafetyInv`, which says what state the row of
a suspended step is in and so which edges its endings take. `EdgesAlwaysKept` and
`DigestsAlwaysFrozen` are read off it. `NothingEverStoredTwice` adds `DigestInv` (no two
rows share a digest, and a confirmed asset is the digest its row carries), which is
inductive because a digest only changes while the server has confirmed nothing of the
row. `PipelineKeepsPromise` maps each step to `CapturePromise`: requests the server handles are
`Receive`, a row that moves is `TakeOn`, `Vouch` or `GiveUp`, and everything else,
restarts included, stutters.

### The scanner

`Watch_proofs`: `WholeFilesOnly` is about the last step of a scan, its invariant about the
camera. `Timely` says that whoever has seen the file as it now is has not seen it for
longer than the camera has been idle inside it, which is less than the quiet period; so what
has been unchanged for the quiet period is finished (`QuietIsWhole`). It needs `Unseen`: what
will be written has not been observed before, since the age of an observation runs from when
those bytes were first seen. `ScanInv` carries the fact from the stat to the report, while
the camera goes on. The disk gate, the spool and the drain do not occur in the argument.

`WatchTypeCorrect`: `TypeOK` alone is not inductive, because `discover` may move a row's
master to a path it finds in the row. `Typed` adds `Mastered` (a row in the table has a
master that is a path) and bounds the camera's pause by `Quiet + PairLag`.

`WatchOnePressOneCapture` has two hypotheses about the camera, which the run's cards meet
(`CameraKeepsPairs` in `MCWatch`): `PairsAreQuick`, it begins the RAW of a pair sooner than
the scanner gives the JPEG up, and `PairsAreWhole`, it writes each file of a pair once. Its
invariant `PairInv` follows a pair from the card into the table, each part resting on the one
before it:

- `PairsWritten`: while the RAW is to come or on the card, nothing else will appear under the
  stem, and neither file is overwritten or erased;
- `PairsTimely`: while the RAW is to come, whoever waits on the JPEG has waited no longer than
  the camera has paused (an observation is no older than the pause, a settled group is younger
  by the quiet period); so the grace cannot run out;
- `PairsScanned`, `PairsReported`: therefore a stem whose RAW is to come is not reported, and
  afterwards is reported under its stem, with the JPEG or the RAW as master;
- `PairsSpooled`: therefore a row of the stem that has the JPEG as master is still
  `discovered`. That is what makes `#reconcileExisting` take the RAW over in place: once a row
  is announced, it would insert a second one.

It uses `Typed` and the invariant of `WholeFilesOnly`: a JPEG in the making that has settled
would start the grace before the camera starts its pause. The first hypothesis is the most
that can be had: with `PairLag = Quiet + Grace` TLC finds a pair taken on twice.

### Sessions

`Sessions_proofs`: `IInv` is `TypeOK`, `OneLiveSession`, that an answer not yet read names a
session (`AnswerNames`), and that only a live session counts as recently active
(`RecentLive`). The last is what the refinement needs: a session that is superseded must not
be counted again. `SessionsExclusive` is the partial unique index at work: a commit requires
every live session to be the one it locked. `SessionsImplementLease` maps a commit to `Take`
(the holder it takes from is the row it holds locked, so nobody has touched it meanwhile),
an announcement to `Beat`, and everything else to `Silence`, `Clear`, `Revoke` or a stutter.

### Orders

`Orders_proofs`: `NothingFree` and `ActiveWasPaid` are not inductive: an activation is
checked in one step and takes effect in a later one, when its order may have been refunded.
`IInv` therefore keeps, beside the shape of the state, what `paidIn` remembers: that it
never goes back to none; that it is backed by a payment of its mode (`PaidBacked`); that
every status only a paid order reaches has it (`PaidStatus`); and that every activation
already checked but not committed has it (`PendingWasPaid`). `MintedConsumed` is the same for
links. Amounts do not occur in it.

Amounts have an invariant of their own, `Totals`: `TotalIsDerived`; that an order has finitely
many items (`Lines`); and that the row a client's BEFORE trigger has prepared is a line
(`PendingLines`). The difficulty is the sum. `Subtotal` is a fold over a set, which chooses
its elements in an order nobody knows, and adding or changing one item must change the sum by
exactly that item. The library's induction over finite sets cannot be cited (its theorem takes
a predicate as a parameter), so the induction is done by a minimal counterexample: the finite
subsets of a set are well-founded under strict inclusion (`FS_StrictSubsetOrderingWellFounded`),
a non-empty collection of them has a minimal member (`WFMin`, in `MinimalSubset`), and a subset
whose sum is wrong cannot be minimal. `IsSum` says that a function on the subsets adds up in the
order of the fold; `SumExists`, `SumAt` (one step of the fold, at the element it picks) and `SumsAgree`
follow, and `SubtotalIsSum` says that `Subtotal` is such a sum. With them each action is one
step: an insert, a change or a removal commits as one write, whose AFTER trigger derives the
total anew. It needs no more of the locks than that the writers of one order commit one at a
time; `FrozenAtPayment` needs more, and fails (section 7). `OrdersTypeCorrect` reads
`TypeOK` off both invariants.

### Only model-checked

Liveness (`EveryPhotographArrives`, `NothingSwallowed`, `FinishesOrHalts`), which is out of
the prover's reach, and the six claims of sections 4, 6 and 7, which TLC refutes.

## 6. Sessions: what the repository says and the code does not do

5. **`switch`** `bridge.js:2-3` says that starting always resumes. The session a Bridge
   opens is for the event it was started with, and a photograph of another event at the head
   of the spool is refused as an authority error, which records no failure and so no backoff:
   the same row is claimed first in every later cycle, and nothing behind it is ever
   announced. `FinishesOrHalts` names this case (`Misplaced`) and holds outside it.

Met while modelling, with no run:

- a signal is counted whenever a session active within 90 seconds is superseded. The
  ordinary renewal of a session about to expire does that, and so does asking again for a
  session when the first answer was lost; the count never decays, and the third one halts an
  honest laptop. `docs/field-qualification.md:184-187` and `0007:53-56` tell a restart from a
  clone by the silence before it, and `0007:113-115` calls one signal a coincidence.
  `LeaseKept` says how signals are counted, not that they should be;
- when both installations reach the third takeover, both halt;
- copying the state directory copies the session too, and the two share it until it is
  renewed;
- an opening that races `Compromised` may leave a live session on a compromised device; every
  request under it is still refused, because the device is looked at as well;
- a device cleared by the operator stays `compromised` in the Bridge's own row until it
  enrolls again;
- the list of errors in `bridge/README.md:158` lacks `session_superseded`.

## 7. Orders: what the repository says and the code does not do

6. **`frozen`** `0001_security_foundation.sql:315` says that line items are frozen at
   payment. The trigger that freezes them reads the order's status without a lock, so an
   insert that began before the payment lands in the paid order. Entitlements for it can then
   be activated. `NothingFree` is still true of it, in the sense that the order was paid;
   its amount is no longer what was paid.

Met while modelling, with no run:

- `0001:528` says that an entitlement may only become active behind a paid order. The trigger
  that sees to it (`0004:568`) reads the order's status without a lock, so an activation that
  began before a refund commits behind it, and nothing revokes it later. `ActiveWasPaid` is
  what remains true, and `authorize_download()` delivers nothing while the order is refunded;
- two fresh links asked for at once each supersede the links they saw, and neither the
  other's: two stay outstanding, where `0006:142-143` says that a new link invalidates the
  outstanding ones;
- an item or a discount that changes after the customer was sent to pay leaves the order
  waiting: the payment that arrives has the old amount and can mark nothing paid;
- a discount may be written after payment, and is clamped for good when it exceeds the
  subtotal, so that items added later are charged in full;
- any update of an item prices it anew from the current list;
- a refund revokes no entitlement: delivery stops because `authorize_download()` looks at the
  order as well, and a partial refund stops it for every item;
- a complimentary entitlement may be active on an order nobody paid, and delivers nothing
  until somebody does;
- a revoked entitlement may be made active again.

## 8. Not modelled

- **Row level security, tenancy keys, buckets, grants** (`0002`, `0003`, `0005`, `0008`):
  declarative conditions on single statements; nothing interleaves.
- **Capture and asset immutability** (triggers of `0001` and `0004`): the Bridge reaches the
  server through the contract of `fake-server.js`, which has no operation that would change
  a hash or an asset path.
- **Key pair and its encryption, challenges, audit log, session epoch**: no step of the
  modelled parts depends on them.
- **The status page** (counts and headline, heartbeat, reachability, device, event and disk
  lines, wording): it only reads, in a process of its own. Its counts are of the rows of
  `CapturePipeline`, so whatever is proved of a confirmed row is true of what it counts.
- **`stop()`**, which ends a loop after the cycle it is in.
- **Requests in flight beyond their timeout**: a request is handled when it is sent or never.
- **The test harness, the security tests and CI** are not part of the running system.
