------------------------------- MODULE Watch -------------------------------
(***************************************************************************)
(* Taking photographs off the card: the camera that writes them, the       *)
(* scanner (bridge/src/scanner.js), the disk gate (bridge/src/disk.js) and *)
(* ingestOnce() of the run loop (bridge/src/bridge.js), composed with the  *)
(* spool.  What the pipeline then does to a row is here only in outline;   *)
(* CapturePipeline has the detail, and abstracts this module's timing.     *)
(*                                                                         *)
(* scan() is cut at its awaits: files are listed at one moment and stat'ed *)
(* one by one at later ones, while the camera goes on writing.  Time is    *)
(* counted in ticks; only ages that the code compares with a bound are     *)
(* kept, and each saturates at its bound.                                  *)
(***************************************************************************)
EXTENDS Spool

CONSTANTS
    Finished,       \* contents a file can have once the camera is done with it
    Rolls,          \* sets of shots <<path, content>>, a file to be written once,
                    \* or erased (None); a behaviour has one roll
    Pairs,          \* stems whose RAW the camera begins within PairLag ticks
    PairLag,        \*   of finishing the JPEG
    Quiet,          \* quietMs, pairGraceMs and diskCheckMs, in ticks
    Grace,
    DiskCheck,
    Volumes,        \* what statfs may find: <<free bytes, free ratio>> or None
    MaxFaults       \* bound on restarts and on changes of the volume

VARIABLES
    card,           \* the bytes under each path
    shots,          \* the shots still to come
    writing,        \* for each path, the content being written, or None
    idle,           \* ticks the camera has paused, where it must not for long
    obs,            \* observations: bytes seen, and ticks since
    settled,        \* groupSettledAt: ticks since, or None
    scan,           \* the scan in progress
    volume,         \* the volume that holds the spool
    gate,           \* the cached disk check: its result, and ticks since
    faults          \* faults still to come

camera  == <<card, shots, writing, idle>>
memory  == <<obs, settled, scan, gate>>
vars    == <<spoolVars, camera, memory, volume, faults>>

\* A file is seen twice on its way to its finished content.
Part(c, n) == <<c, n>>
Unfinished == Finished \X {1, 2}

Reading == {"healthy", "warning", "critical"}
DiskState == Reading \cup {"unknown"}

ASSUME WatchAssumption ==
    /\ Content = Finished \cup Unfinished
    /\ Finished \cap Unfinished = {}
    /\ Rolls \subseteq SUBSET (Path \X (Finished \cup {None}))
    /\ Pairs \subseteq Group
    /\ {PairLag, Quiet, Grace, DiskCheck, MaxFaults} \subseteq Nat
    /\ Quiet > 0
    /\ Volumes \subseteq (Reading \X Reading) \cup {None}
    /\ <<"healthy", "healthy">> \in Volumes

Unobserved == [seen |-> None, age |-> 0]
NoScan == [ at |-> "rest", listed |-> {}, todo |-> {}, groups |-> {},
            stable |-> [p \in Path |-> None], pending |-> {}, ready |-> {} ]

Report == [ key : Key, master : Path, preview : Path \cup {None},
            seen : Content, hasRaw : BOOLEAN ]

TypeOK ==
    /\ SpoolTypeOK
    /\ card \in [Path -> Content \cup {None}]
    /\ shots \subseteq UNION Rolls
    /\ writing \in [Path -> Finished \cup {None}]
    /\ idle \in [Path -> 0..Quiet + PairLag]
    /\ obs \in [Path -> [seen : Content \cup {None}, age : 0..Quiet]]
    /\ settled \in [Group -> (0..Grace) \cup {None}]
    /\ scan \in [ at : {"rest", "stat", "ingested"},
                  listed : SUBSET Path, todo : SUBSET Path, groups : SUBSET Group,
                  stable : [Path -> Content \cup {None}],
                  pending : SUBSET Group, ready : SUBSET Report ]
    /\ volume \in Volumes
    /\ gate \in [state : DiskState, age : 0..DiskCheck]
    /\ faults \in 0..MaxFaults

NoObs     == [p \in Path |-> Unobserved]
NoGroups  == [g \in Group |-> None]
Unchecked == [state |-> "unknown", age |-> DiskCheck]

Init ==
    /\ SpoolInit
    /\ card = [p \in Path |-> None]
    /\ shots \in Rolls
    /\ writing = [p \in Path |-> None]
    /\ idle = [p \in Path |-> 0]
    /\ obs = NoObs /\ settled = NoGroups /\ scan = NoScan /\ gate = Unchecked
    /\ volume \in Volumes
    /\ faults = MaxFaults

(***************************************************************************)
(* The camera, the clock and the volume.                                   *)
(***************************************************************************)

BeginsWrite(p, c) ==
    /\ writing[p] = None /\ <<p, c>> \in shots
    /\ shots' = shots \ {<<p, c>>}
    /\ card' = [card EXCEPT ![p] = IF c = None THEN None ELSE Part(c, 1)]
    /\ writing' = [writing EXCEPT ![p] = c]

ContinuesWrite(p) ==
    /\ writing[p] # None /\ card[p] = Part(writing[p], 1)
    /\ card' = [card EXCEPT ![p] = Part(writing[p], 2)]
    /\ UNCHANGED <<shots, writing>>

EndsWrite(p) ==
    /\ writing[p] # None /\ card[p] = Part(writing[p], 2)
    /\ card' = [card EXCEPT ![p] = writing[p]]
    /\ writing' = [writing EXCEPT ![p] = None]
    /\ UNCHANGED shots

Camera(p) ==
    /\ \/ \E c \in Finished \cup {None} : BeginsWrite(p, c)
       \/ ContinuesWrite(p)
       \/ EndsWrite(p)
    /\ idle' = [idle EXCEPT ![p] = 0]
    /\ UNCHANGED <<spoolVars, memory, volume, faults>>

\* The JPEG of a pair is written, and its RAW is still to come.
RawDue(p) ==
    /\ p[1] \in Pairs /\ p = Raw(p[1])
    /\ card[Jpeg(p[1])] \in Finished
    /\ \E c \in Finished : <<p, c>> \in shots

\* The camera never pauses for the quiet period inside a file, and begins the
\* RAW of a pair soon after the JPEG.
CameraIsPrompt ==
    \A p \in Path : /\ writing[p] # None => idle[p] + 1 < Quiet
                    /\ RawDue(p) => idle[p] < PairLag

\* Mutant: an age never saturates.
OlderForever(n, bound) == n + 1

Older(n, bound) == IF n < bound THEN n + 1 ELSE n

Tick ==
    /\ CameraIsPrompt
    /\ idle' = [p \in Path |-> IF writing[p] # None \/ RawDue(p) THEN idle[p] + 1 ELSE 0]
    /\ obs' = [p \in Path |-> IF obs[p].seen = None THEN obs[p]
                              ELSE [obs[p] EXCEPT !.age = Older(@, Quiet)]]
    /\ settled' = [g \in Group |-> IF settled[g] = None THEN None
                                   ELSE Older(settled[g], Grace)]
    /\ gate' = [gate EXCEPT !.age = Older(@, DiskCheck)]
    /\ UNCHANGED <<spoolVars, card, shots, writing, scan, volume, faults>>

Fault == faults > 0 /\ faults' = faults - 1

VolumeChanges ==
    /\ Fault
    /\ volume' \in Volumes \ {volume}
    /\ UNCHANGED <<spoolVars, camera, memory>>

\* Somebody makes room.
VolumeFreed ==
    /\ volume # <<"healthy", "healthy">>
    /\ volume' = <<"healthy", "healthy">>
    /\ UNCHANGED <<spoolVars, camera, memory, faults>>

Restart ==
    /\ Fault
    /\ obs' = NoObs /\ settled' = NoGroups /\ scan' = NoScan /\ gate' = Unchecked
    /\ rows' = Recover
    /\ UNCHANGED <<hwm, camera, volume>>

(***************************************************************************)
(* The disk gate.                                                          *)
(***************************************************************************)

\* A volume is as bad as the worse of its two readings, and unknown if it
\* cannot be read.
CheckDisk(v) ==
    IF v = None THEN "unknown"
    ELSE IF "critical" \in {v[1], v[2]} THEN "critical"
    ELSE IF "warning" \in {v[1], v[2]} THEN "warning"
    ELSE "healthy"

MayIngest(state) == state \in {"healthy", "warning"}

\* refreshDisk() uses a check younger than DiskCheck as it is.
Checked ==
    IF gate.age < DiskCheck THEN gate ELSE [state |-> CheckDisk(volume), age |-> 0]

\* ingestOnce() up to the list of files, unless the disk gate is shut.
BeginIngest ==
    /\ scan.at = "rest"
    /\ gate' = Checked
    /\ LET there == {p \in Path : card[p] # None}
       IN  scan' = IF MayIngest(Checked.state)
                   THEN [NoScan EXCEPT !.at = "stat", !.listed = there, !.todo = there]
                   ELSE [NoScan EXCEPT !.at = "ingested"]
    /\ UNCHANGED <<spoolVars, camera, obs, settled, volume, faults>>

(***************************************************************************)
(* scan().                                                                 *)
(***************************************************************************)

Statted(p) == [scan EXCEPT !.todo = @ \ {p}, !.groups = @ \cup {p[1]}]

StatGone(p) ==
    /\ card[p] = None
    /\ scan' = [scan EXCEPT !.todo = @ \ {p}]
    /\ UNCHANGED obs

\* Mutant: the quiet period runs from the first sight of a file.
StatChangedKeepsAge(p) ==
    /\ card[p] \notin {None, obs[p].seen}
    /\ obs' = [obs EXCEPT ![p].seen = card[p]]
    /\ scan' = [Statted(p) EXCEPT !.pending = @ \cup {p[1]}]

\* Changed since the last scan: its quiet period starts again.
StatChanged(p) ==
    /\ card[p] \notin {None, obs[p].seen}
    /\ obs' = [obs EXCEPT ![p] = [seen |-> card[p], age |-> 0]]
    /\ scan' = [Statted(p) EXCEPT !.pending = @ \cup {p[1]}]

StatSame(p) ==
    /\ card[p] # None /\ card[p] = obs[p].seen
    /\ scan' = IF obs[p].age >= Quiet
               THEN [Statted(p) EXCEPT !.stable[p] = card[p]]
               ELSE [Statted(p) EXCEPT !.pending = @ \cup {p[1]}]
    /\ UNCHANGED obs

Stat(p) ==
    /\ scan.at = "stat" /\ p \in scan.todo
    /\ StatGone(p) \/ StatChanged(p) \/ StatSame(p)
    /\ UNCHANGED <<spoolVars, camera, settled, gate, volume, faults>>

Found(g) == Reported(g, scan.stable)

\* Groups of which every file found has settled.
AllSettled == {g \in scan.groups \ scan.pending : Found(g) # {}}

\* A JPEG on its own may be half of a pair: it waits for the pair grace.
IsLoneJpeg(g) == \E in \in Found(g) : in.key = Stem(g) /\ ~in.hasRaw

SettledFor(g) == IF settled[g] = None THEN 0 ELSE settled[g]

\* Mutant: a JPEG on its own is reported at once.
HeldNever(g) == FALSE

Held(g) == IsLoneJpeg(g) /\ SettledFor(g) < Grace

FinishScan ==
    /\ scan.at = "stat" /\ scan.todo = {}
    /\ scan' = [NoScan EXCEPT !.at = "ingested",
                  !.ready = UNION {Found(g) : g \in {k \in AllSettled : ~Held(k)}}]
    /\ obs' = [p \in Path |-> IF p \in scan.listed THEN obs[p] ELSE Unobserved]
    /\ settled' = [g \in Group |-> IF g \notin scan.groups THEN None
                                   ELSE IF g \in AllSettled /\ IsLoneJpeg(g)
                                   THEN SettledFor(g) ELSE settled[g]]
    /\ UNCHANGED <<spoolVars, camera, gate, volume, faults>>

(***************************************************************************)
(* ingestOnce(): every report is one transaction of the spool.             *)
(***************************************************************************)

Known(r, in) ==
    /\ rows[r].key = in.key
    /\ IF LateRaw(rows[r], in)
       THEN rows[r].state \notin PreAnnounced /\ \E s \in Row : rows[s].key = in.master
       ELSE /\ in.preview = None \/ rows[r].preview # None
                 \/ rows[r].state \notin PreAnnounced
            /\ in.master # rows[r].master \/ rows[r].state \notin Terminal
                 \/ in.seen = rows[r].observed

Emit(in) ==
    /\ scan.at = "ingested" /\ in \in scan.ready
    /\ \/ SpoolDiscover(in)
       \/ (\E r \in Row : Known(r, in)) /\ UNCHANGED spoolVars
    /\ scan' = [scan EXCEPT !.ready = @ \ {in}]
    /\ UNCHANGED <<camera, obs, settled, gate, volume, faults>>

\* The volume is full: the insert throws out of the cycle, and what was not
\* yet discovered is left to a later scan.
EmitFails ==
    /\ scan.at = "ingested" /\ scan.ready # {}
    /\ volume # None /\ volume[1] = "critical"
    /\ scan' = NoScan
    /\ UNCHANGED <<spoolVars, camera, obs, settled, gate, volume, faults>>

(***************************************************************************)
(* The drain, in outline: a discovered row takes the RAW beside its JPEG   *)
(* as its master or is hashed and announced; an announced one is uploaded  *)
(* if its file still has the announced bytes, and released if not.         *)
(***************************************************************************)

SiblingOf(p) == IF IsJpeg(p) THEN RawBeside(p[1], card) ELSE None

DrainUpgrades(r, jpeg) ==
    /\ rows[r].state = "discovered" /\ jpeg = rows[r].master
    /\ SiblingOf(jpeg) # None
    /\ rows' = [rows EXCEPT ![r] = UpgradeMasterToRaw(@, SiblingOf(jpeg),
                                     OrElse(@.preview, jpeg), card[SiblingOf(jpeg)])]

DrainHashes(r) ==
    /\ rows[r].state = "discovered" /\ SiblingOf(rows[r].master) = None
    /\ card[rows[r].master] # None
    /\ rows' = [rows EXCEPT ![r].state = "queued",
                            ![r].observed = card[rows[r].master],
                            ![r].content = card[rows[r].master]]

DrainCompletes(r) ==
    /\ rows[r].state = "queued"
    /\ card[rows[r].master] = rows[r].content
    /\ rows' = [rows EXCEPT ![r].state = "complete"]

DrainReleases(r) ==
    /\ \/ rows[r].state = "queued" /\ card[rows[r].master] # rows[r].content
       \/ rows[r].state = "discovered" /\ card[rows[r].master] = None
    /\ rows' = [rows EXCEPT ![r] =
         RejectAndRelease(@, IF card[@.master] = None THEN "source_vanished"
                             ELSE "content_changed_after_announce")]

Draining == scan.at = "ingested" /\ scan.ready = {}

Drain(r) ==
    /\ Draining
    /\ \/ \E jpeg \in Path : DrainUpgrades(r, jpeg)
       \/ DrainHashes(r)
       \/ DrainCompletes(r)
       \/ DrainReleases(r)
    /\ UNCHANGED <<hwm, camera, memory, volume, faults>>

DrainEnds ==
    /\ Draining
    /\ scan' = NoScan
    /\ UNCHANGED <<spoolVars, camera, obs, settled, gate, volume, faults>>

-----------------------------------------------------------------------------

Ingest ==
    \/ BeginIngest
    \/ \E p \in Path : Stat(p)
    \/ FinishScan
    \/ \E in \in scan.ready : Emit(in)
    \/ DrainEnds

Next ==
    \/ \E p \in Path : Camera(p)
    \/ Tick
    \/ Ingest
    \/ EmitFails
    \/ \E r \in Row : Drain(r)
    \/ VolumeChanges
    \/ VolumeFreed
    \/ Restart

Spec == Init /\ [][Next]_vars

\* The loop polls, time passes, the camera finishes a file or a pair it began,
\* somebody makes room on the volume, and the drain goes on while there is something to do.
Fairness ==
    /\ WF_vars(Ingest) /\ WF_vars(Tick) /\ WF_vars(VolumeFreed)
    /\ WF_vars(\E p \in Path : Camera(p) /\ (writing[p] # None \/ RawDue(p)))
    /\ SF_vars(\E r \in Row : Drain(r))

FairSpec == Spec /\ Fairness

-----------------------------------------------------------------------------

\* A file the camera is still writing is never reported, however the stats of
\* a scan fall between its writes (scanner.js:36-37).
WholeFilesOnly == \A in \in scan.ready : in.seen \in Finished

\* One press of the shutter is one capture: when the camera makes a pair, its
\* RAW never ends up as a row beside the row of its JPEG.
OnePressOneCapture ==
    \A r \in Present : rows[r].key = Raw(rows[r].master[1])
        => rows[r].master[1] \notin Pairs

\* What it takes of the camera: the pair grace outlasts its pause before it
\* begins a RAW (scanner.js:42-45) ...
PairsAreQuick == PairLag < Quiet + Grace

\* ... and a roll that has the RAW of a pair writes that pair's JPEG and RAW
\* once each, and nothing else under their stem.
PairsAreWhole ==
    \A roll \in Rolls : \A g \in Pairs :
        (\E c \in Finished : <<Raw(g), c>> \in roll) =>
            \E a, b \in Finished :
                {s \in roll : s[1][1] = g} \subseteq {<<Jpeg(g), a>>, <<Raw(g), b>>}

\* Every finished file that stays on the card is taken on by some row, as its
\* master or its preview, whatever collides, restarts or fills up.  Not so a
\* JPEG whose stem has the row of a RAW, or of a file that is gone (README,
\* section 4).
TakenOn(p, c) ==
    \E r \in Present : \/ rows[r].master = p /\ rows[r].observed = c
                       \/ rows[r].preview = p

Shadowed(p) ==
    IsJpeg(p) /\ \E r \in Present :
        rows[r].key = Stem(p[1])
            /\ (~IsJpeg(rows[r].master) \/ card[rows[r].master] = None)

NothingSwallowed ==
    <>[](\A p \in Path : card[p] \in Finished => TakenOn(p, card[p]) \/ Shadowed(p))

=============================================================================
