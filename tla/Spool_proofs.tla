---------------------------- MODULE Spool_proofs ----------------------------
(***************************************************************************)
(* The spool's operations keep its table typed, for any rows, stems and    *)
(* contents: the lemmas that every component on top of the spool needs.    *)
(* Seen as the table of CaptureTable, each of them is a step of it.        *)
(***************************************************************************)
EXTENDS Spool, TLAPS

\* Every operation on a row yields a row of the captures table.
LEMMA RowOperations ==
    ASSUME NEW row \in CaptureRow
    PROVE  /\ RecordFailure(row) \in CaptureRow
           /\ ClearFailure(row) \in CaptureRow
           /\ ClearMissing(row) \in CaptureRow
           /\ NoteMissing(row) \in CaptureRow
           /\ \A next \in RowState : Transition(row, next) \in CaptureRow
           /\ \A why \in Reason : Reject(row, why) \in CaptureRow
           /\ \A why \in Reason : RejectAndRelease(row, why) \in CaptureRow
           /\ Rewind(row) \in CaptureRow
<1>1. MaxAttempts \in Nat
  BY SpoolAssumption
<1>2. Bump(row.attempts) \in 0..MaxAttempts
  BY <1>1 DEF Bump, CaptureRow
<1>3. RecordFailure(row) \in CaptureRow
  BY <1>2 DEF RecordFailure, CaptureRow
<1>4. ClearFailure(row) \in CaptureRow
  BY <1>1 DEF ClearFailure, CaptureRow
<1>5. ClearMissing(row) \in CaptureRow /\ NoteMissing(row) \in CaptureRow
  BY DEF ClearMissing, NoteMissing, CaptureRow
<1>6. \A next \in RowState : Transition(row, next) \in CaptureRow
  BY DEF Transition, CaptureRow
<1>7. ASSUME NEW why \in Reason
      PROVE  Reject(row, why) \in CaptureRow /\ RejectAndRelease(row, why) \in CaptureRow
  <2>1. "rejected" \in RowState /\ why \in Reason \cup {None}
    BY DEF RowState, Terminal
  <2>2. Reject(row, why) \in CaptureRow
    BY <2>1 DEF Reject, CaptureRow
  <2>3. RejectAndRelease(row, why) \in CaptureRow
    BY <2>1 DEF RejectAndRelease, CaptureRow
  <2> QED
    BY <2>2, <2>3
<1>8. Rewind(row) \in CaptureRow
  BY DEF Rewind, CaptureRow, RowState, Working, PreAnnounced
<1> QED
  BY <1>3, <1>4, <1>5, <1>6, <1>7, <1>8

\* Setting a path or the observed bytes keeps a row well typed.
LEMMA FieldTypes ==
    ASSUME NEW row \in CaptureRow
    PROVE  /\ \A p \in Path \cup {None} : [row EXCEPT !.master = p] \in CaptureRow
           /\ \A p \in Path \cup {None} : [row EXCEPT !.preview = p] \in CaptureRow
           /\ \A c \in Content \cup {None} : [row EXCEPT !.observed = c] \in CaptureRow
           /\ [row EXCEPT !.deleted = TRUE] \in CaptureRow
<1>1. [row EXCEPT !.deleted = TRUE] \in CaptureRow
  BY Zenon DEF CaptureRow
<1> QED
  BY <1>1 DEF CaptureRow

LEMMA UpgradeType ==
    ASSUME NEW row \in CaptureRow, NEW raw \in Path,
           NEW preview \in Path \cup {None}, NEW seen \in Content \cup {None}
    PROVE  UpgradeMasterToRaw(row, raw, preview, seen) \in CaptureRow
<1> DEFINE r0 == HashAgain(row)
           r1 == [r0 EXCEPT !.master = raw]
           r2 == [r1 EXCEPT !.preview = preview]
<1>1. r0 \in CaptureRow
  <2>1. "discovered" \in RowState
    BY DEF RowState, Working, PreAnnounced
  <2> QED
    BY <2>1 DEF HashAgain, CaptureRow
<1>2. r1 \in CaptureRow
  <2> HIDE DEF r0
  <2> QED
    BY <1>1, FieldTypes
<1>3. r2 \in CaptureRow
  <2> HIDE DEF r1
  <2> QED
    BY <1>2, FieldTypes
<1>4. [r2 EXCEPT !.observed = seen] \in CaptureRow
  <2> HIDE DEF r2
  <2> QED
    BY <1>3, FieldTypes
<1>5. UpgradeMasterToRaw(row, raw, preview, seen) = [r2 EXCEPT !.observed = seen]
  BY Zenon DEF UpgradeMasterToRaw
<1> QED
  BY <1>4, <1>5

LEMMA UpgradeKeeps ==
    ASSUME NEW row \in CaptureRow, NEW raw, NEW preview, NEW seen
    PROVE  LET new == UpgradeMasterToRaw(row, raw, preview, seen) IN
             /\ new.state = "discovered" /\ new.content = None
             /\ new.key = row.key /\ new.seq = row.seq
             /\ new.master = raw
<1>1. /\ HashAgain(row).state = "discovered" /\ HashAgain(row).key = row.key
      /\ HashAgain(row).seq = row.seq /\ HashAgain(row).content = None
      /\ DOMAIN HashAgain(row) = DOMAIN row
  BY DEF HashAgain, CaptureRow
<1> QED
  BY <1>1 DEF UpgradeMasterToRaw, CaptureRow

LEMMA PathType ==
    ASSUME NEW p \in Path
    PROVE  /\ p[1] \in Group
           /\ Raw(p[1]) \in Path /\ Jpeg(p[1]) \in Path /\ Stem(p[1]) \in Key
BY DEF Path, Key, Raw, Jpeg, Stem

LEMMA InsertType ==
    ASSUME SpoolTypeOK, NEW table \in [Row -> CaptureRow],
           NEW in, in.master \in Path, in.seen \in Content,
           NEW key \in Key, NEW preview \in Path \cup {None},
           Insert(table, in, key, preview)
    PROVE  SpoolTypeOK'
<1>1. FreeId \in Row
  BY DEF Insert, FreeId
<1>2. hwm + 1 \in Nat
  BY DEF SpoolTypeOK
<1>3. /\ AbsentRow \in CaptureRow
      /\ "discovered" \in RowState
  BY SpoolAssumption DEF AbsentRow, CaptureRow, RowState, Working, PreAnnounced
<1>4. FreshRow(in, key, preview, hwm + 1) \in CaptureRow
  BY <1>2, <1>3 DEF FreshRow, CaptureRow
<1> QED
  BY <1>1, <1>2, <1>4 DEF Insert, SpoolTypeOK

LEMMA SpoolDiscoverType ==
    ASSUME SpoolTypeOK, NEW in, SpoolDiscover(in),
           in.master \in Path, in.seen \in Content, in.key \in Key,
           in.preview \in Path \cup {None}, in.hasRaw => in.master \in Key
    PROVE  SpoolTypeOK'
<1>1. rows \in [Row -> CaptureRow] /\ hwm \in Nat
  BY DEF SpoolTypeOK
<1>2. CASE DiscoverNew(in)
  BY <1>1, <1>2, InsertType DEF DiscoverNew
<1>3. ASSUME NEW r \in Row, ReconcileUpgrade(r, in) PROVE SpoolTypeOK'
  <2>1. OrElse(in.preview, rows[r].preview) \in Path \cup {None}
    BY <1>1 DEF OrElse, CaptureRow
  <2>2. UpgradeMasterToRaw(rows[r], in.master, OrElse(in.preview, rows[r].preview), in.seen)
          \in CaptureRow
    BY <1>1, <2>1, UpgradeType
  <2> QED
    BY <1>1, <1>3, <2>2 DEF ReconcileUpgrade, SpoolTypeOK
<1>4. ASSUME NEW r \in Row, ReconcileOwnRow(r, in) PROVE SpoolTypeOK'
  <2>1. Insert(rows, in, in.master, None) /\ in.master \in Key
    BY <1>4 DEF ReconcileOwnRow, LateRaw
  <2> QED
    BY <1>1, <2>1, InsertType
<1>5. ASSUME NEW r \in Row, ReconcilePreview(r, in) PROVE SpoolTypeOK'
  <2>1. AttachPreview(rows[r], in.preview) \in CaptureRow
    <3>1. rows[r] \in CaptureRow /\ "discovered" \in RowState
      BY <1>1 DEF RowState, Working, PreAnnounced
    <3> QED
      BY <3>1 DEF AttachPreview, CaptureRow
  <2> QED
    BY <1>1, <1>5, <2>1 DEF ReconcilePreview, SpoolTypeOK
<1>6. ASSUME NEW r \in Row, ReconcileReuse(r, in) PROVE SpoolTypeOK'
  <2> DEFINE table == [rows EXCEPT ![r].key = None]
  <2>1. table \in [Row -> CaptureRow]
    BY <1>1 DEF CaptureRow
  <2>2. Insert(table, in, in.key, in.preview)
    BY <1>6 DEF ReconcileReuse
  <2> HIDE DEF table
  <2> QED
    BY <2>1, <2>2, InsertType
<1> QED
  BY <1>2, <1>3, <1>4, <1>5, <1>6 DEF SpoolDiscover

\* The RAW found beside a JPEG is a RAW file of its stem.
LEMMA RawBesideIs ==
    ASSUME NEW g \in Group, NEW found, RawBeside(g, found) # None
    PROVE  /\ RawBeside(g, found) \in Raws(g) /\ RawBeside(g, found) \in Path
           /\ found[RawBeside(g, found)] # None
<1> DEFINE First(p) == found[p] # None /\ (p = Raw(g) \/ found[Raw(g)] = None)
<1>1. \E p \in Raws(g) : found[p] # None
  BY DEF RawBeside
<1>2. \E p \in Raws(g) : First(p)
  BY <1>1 DEF Raws
<1>3. RawBeside(g, found) = CHOOSE p \in Raws(g) : First(p)
  BY <1>1 DEF RawBeside
<1>4. RawBeside(g, found) \in Raws(g) /\ First(RawBeside(g, found))
  <2> HIDE DEF First
  <2> QED
    BY <1>2, <1>3
<1>5. Raws(g) \subseteq Path
  BY DEF Raw, Raws, Path
<1> QED
  BY <1>4, <1>5

\* ... and where there is none, none is found.
LEMMA NoRawBeside ==
    ASSUME NEW g \in Group, NEW found, RawBeside(g, found) = None
    PROVE  \A p \in Raws(g) : found[p] = None
<1> DEFINE First(p) == found[p] # None /\ (p = Raw(g) \/ found[Raw(g)] = None)
<1> SUFFICES ASSUME \E p \in Raws(g) : found[p] # None PROVE FALSE
  OBVIOUS
<1>1. \E p \in Raws(g) : First(p)
  BY DEF Raws
<1>2. RawBeside(g, found) = CHOOSE p \in Raws(g) : First(p)
  BY DEF RawBeside
<1>3. RawBeside(g, found) \in Raws(g)
  <2> HIDE DEF First
  <2> QED
    BY <1>1, <1>2
<1> QED
  BY <1>3, SpoolAssumption DEF Raw, Raws, Path

\* What is reported of the files found under a stem is what discover() takes.
LEMMA ReportedType ==
    ASSUME NEW g \in Group, NEW found \in [Path -> Content \cup {None}],
           NEW in \in Reported(g, found)
    PROVE  /\ in.master \in Path /\ in.seen \in Content
           /\ in.preview \in Path \cup {None}
           /\ in.key \in Key
           /\ in.hasRaw \in BOOLEAN
           /\ in.seen = found[in.master]
           /\ in = [ key |-> in.key, master |-> in.master, preview |-> in.preview,
                     seen |-> in.seen, hasRaw |-> in.hasRaw ]
<1> DEFINE jpegs == {p \in Jpegs(g) : found[p] # None}
           raws  == {p \in Raws(g) : found[p] # None}
           collide == jpegs = Jpegs(g) \/ raws = Raws(g)
<1>1. /\ Raws(g) \cup Jpegs(g) \subseteq Path /\ Stem(g) \in Key /\ Path \subseteq Key
  BY DEF Raw, Raws, Jpeg, Jpegs, Stem, Path, Key
<1>2. \A p \in jpegs \cup raws : p \in Path /\ found[p] \in Content
  BY <1>1
<1>3. CASE collide
  <2>1. PICK p \in jpegs \cup raws :
          in = [ key |-> p, master |-> p, preview |-> IF IsJpeg(p) THEN p ELSE None,
                 seen |-> found[p], hasRaw |-> FALSE ]
    BY <1>3 DEF Reported
  <2> QED
    BY <1>1, <1>2, <2>1
<1>4. CASE ~collide
  <2>1. PICK m \in jpegs \cup raws, v \in jpegs \cup {None} :
          in = [ key |-> Stem(g), master |-> m, preview |-> v,
                 seen |-> found[m], hasRaw |-> raws # {} ]
    BY <1>4 DEF Reported
  <2> QED
    BY <1>1, <1>2, <2>1
<1> QED
  BY <1>3, <1>4

(***************************************************************************)
(* The table keeps the promise of CaptureTable.                            *)
(***************************************************************************)

\* A row in the table is a file, and goes by a key of that file's stem.
Placed(row) ==
    IF row.state = "absent" THEN row.master = None
    ELSE /\ row.master \in Path
         /\ row.key # None => row.key[1] = row.master[1]

\* A report is named after its master, which is a RAW if there is one.
Named(in) ==
    /\ in.master \in Path /\ in.key \in Key /\ in.key[1] = in.master[1]
    /\ in.hasRaw => in.master \in Raws(in.master[1])

Staged   == [r \in Row |-> StageOf(rows[r].state)]
Names    == [r \in Row |-> rows[r].key]
Presses  == [r \in Row |-> PressOf(rows[r].master)]
RawRows  == {r \in Row : IsRaw(rows[r].master)}

TableSound == rows \in [Row -> CaptureRow] /\ \A r \in Row : Placed(rows[r])
TableStep  == [Table!Next]_(Table!table) /\ \A r \in Row : Placed(rows'[r])

\* What may become of a row that is in the table.
Carries(new, old) ==
    \/ /\ new.key = old.key /\ new.master = old.master
       /\ \/ StageOf(new.state) = StageOf(old.state)
          \/ StageOf(old.state) = "held" /\ StageOf(new.state) = "sent"
    \/ /\ new.key = old.key /\ new.master \in Raws(old.master[1])
       /\ StageOf(old.state) = "held" /\ StageOf(new.state) = "held"
    \/ /\ new.key \in {old.key, None} /\ new.master = old.master
       /\ StageOf(old.state) \in {"held", "sent"} /\ StageOf(new.state) = "settled"

LEMMA Stages ==
    /\ StageOf("absent") = "unseen"
    /\ \A state \in {"discovered", "hashed"} : StageOf(state) = "held"
    /\ \A state \in {"queued", "uploading_preview", "preview_confirmed", "uploading_master",
                     "master_confirmed"} : StageOf(state) = "sent"
    /\ \A state \in {"complete", "rejected"} : StageOf(state) = "settled"
BY DEF StageOf, PreAnnounced, Terminal

LEMMA StageInverse ==
    ASSUME NEW state \in RowState \cup {"absent"}
    PROVE  /\ StageOf(state) = "unseen" <=> state = "absent"
           /\ StageOf(state) = "held" <=> state \in PreAnnounced
           /\ StageOf(state) = "settled" <=> state \in Terminal
BY DEF StageOf, PreAnnounced, Terminal, RowState, Working

LEMMA PathIs ==
    ASSUME NEW p \in Path
    PROVE  /\ p[1] \in Group /\ p \in Key /\ PressOf(p) = p[1] /\ (IsRaw(p) <=> ~IsJpeg(p))
           /\ \A q \in Raws(p[1]) : q \in Path /\ q[1] = p[1] /\ PressOf(q) = p[1] /\ IsRaw(q)
<1>1. p \in Key /\ p[1] \in Group /\ p # None
  BY SpoolAssumption DEF Path, Key
<1>2. \A q \in Raws(p[1]) : q \in Path /\ q[1] = p[1] /\ ~IsJpeg(q) /\ q # None
  BY <1>1, SpoolAssumption DEF Path, Raw, Raws, IsJpeg
<1> QED
  BY <1>1, <1>2 DEF PressOf, IsRaw

\* The step, said with the four functions.
LEMMA TableSteps ==
    ASSUME \A r \in Row : Placed(rows'[r]),
           \/ Staged' = Staged /\ Names' = Names /\ Presses' = Presses /\ RawRows' = RawRows
           \/ Table!Next
    PROVE  TableStep
BY DEF TableStep, Table!table, Staged, Names, Presses, RawRows

\* Where every row stays what it is, nothing happens to the table.
LEMMA SameTable ==
    ASSUME TableSound,
           \A r \in Row : /\ rows'[r].key = rows[r].key /\ rows'[r].master = rows[r].master
                          /\ StageOf(rows'[r].state) = StageOf(rows[r].state)
                          /\ rows'[r].state = "absent" <=> rows[r].state = "absent"
    PROVE  TableStep
<1>1. Staged' = Staged /\ Names' = Names /\ Presses' = Presses /\ RawRows' = RawRows
  BY DEF Staged, Names, Presses, RawRows
<1>2. \A r \in Row : Placed(rows'[r])
  BY DEF TableSound, Placed
<1> QED
  BY <1>1, <1>2, TableSteps

LEMMA CarriesTable ==
    ASSUME TableSound, NEW r \in Row, NEW row, rows'[r] = row,
           \A s \in Row \ {r} : /\ rows'[s].key = rows[s].key /\ rows'[s].master = rows[s].master
                                /\ rows'[s].state = rows[s].state,
           rows[r].state # "absent", Carries(row, rows[r])
    PROVE  TableStep
<1>1. \A s \in Row \ {r} : /\ rows'[s].key = rows[s].key /\ rows'[s].master = rows[s].master
                           /\ rows'[s].state = rows[s].state
  OBVIOUS
<1>0. rows[r].state # "absent" /\ row.state # "absent"
  <2>1. rows[r].state \in RowState \cup {"absent"}
    BY DEF TableSound, CaptureRow
  <2>2. StageOf(rows[r].state) # "unseen"
    BY <2>1, StageInverse
  <2> QED
    BY <2>2, Stages DEF Carries
<1>2. rows[r].master \in Path /\ (rows[r].key # None => rows[r].key[1] = rows[r].master[1])
  BY <1>0 DEF TableSound, Placed
<1>3. /\ row.master \in Path /\ row.master[1] = rows[r].master[1]
      /\ row.key \in {rows[r].key, None}
  BY <1>2, PathIs DEF Carries
<1>4. \A s \in Row : Placed(rows'[s])
  <2>1. Placed(row)
    BY <1>0, <1>2, <1>3 DEF Placed
  <2>2. ASSUME NEW s \in Row \ {r} PROVE Placed(rows'[s])
    BY <1>1 DEF TableSound, Placed
  <2> QED
    BY <2>1, <2>2
<1>5. /\ Staged' = [Staged EXCEPT ![r] = StageOf(row.state)]
      /\ Names' = [Names EXCEPT ![r] = row.key]
      /\ Staged[r] = StageOf(rows[r].state) /\ Names[r] = rows[r].key
  <2>1. Staged' = [s \in Row |-> StageOf(rows'[s].state)]
    BY DEF Staged, StageOf
  <2>2. Names' = [s \in Row |-> rows'[s].key]
    BY DEF Names
  <2>3. Staged[r] = StageOf(rows[r].state) /\ Names[r] = rows[r].key
    BY DEF Staged, Names
  <2>4. \A s \in Row : StageOf(rows'[s].state)
                         = IF s = r THEN StageOf(row.state) ELSE Staged[s]
    BY <1>1 DEF Staged
  <2>5. \A s \in Row : rows'[s].key = IF s = r THEN row.key ELSE Names[s]
    BY <1>1 DEF Names
  <2>6. Staged' = [Staged EXCEPT ![r] = StageOf(row.state)]
    <3>1. Staged = [s \in Row |-> Staged[s]]
      BY DEF Staged
    <3> HIDE DEF Staged
    <3> QED
      BY <2>1, <2>4, <3>1
  <2>7. Names' = [Names EXCEPT ![r] = row.key]
    <3>1. Names = [s \in Row |-> Names[s]]
      BY DEF Names
    <3> QED
      BY <2>2, <2>5, <3>1
  <2> QED
    BY <2>3, <2>6, <2>7
<1>6. Presses' = Presses
  <2>1. PressOf(row.master) = PressOf(rows[r].master)
    BY <1>2, <1>3, SpoolAssumption DEF PressOf
  <2>2. Presses' = [s \in Row |-> PressOf(rows'[s].master)]
    BY DEF Presses, PressOf
  <2> QED
    BY <1>1, <2>1, <2>2 DEF Presses
<1>7. row.master = rows[r].master => RawRows' = RawRows
  BY <1>1 DEF RawRows
<1>8. row.key = rows[r].key => Names' = Names
  BY <1>5 DEF Names
<1>9. CASE /\ row.key = rows[r].key /\ row.master = rows[r].master
           /\ StageOf(row.state) = StageOf(rows[r].state)
  <2>1. Staged' = Staged
    BY <1>5, <1>9 DEF Staged
  <2> QED
    BY <1>4, <1>6, <1>7, <1>8, <1>9, <2>1, TableSteps
<1>10. CASE /\ row.key = rows[r].key /\ row.master = rows[r].master
            /\ StageOf(rows[r].state) = "held" /\ StageOf(row.state) = "sent"
  <2>1. Table!Send(r)
    BY <1>5, <1>6, <1>7, <1>8, <1>10 DEF Table!Send, Staged, Names, Presses, RawRows
  <2> QED
    BY <1>4, <2>1, TableSteps DEF Table!Next
<1>11. CASE /\ row.key = rows[r].key /\ row.master \in Raws(rows[r].master[1])
            /\ StageOf(rows[r].state) = "held" /\ StageOf(row.state) = "held"
  <2>1. RawRows' = RawRows \cup {r}
    BY <1>1, <1>2, <1>11, PathIs DEF RawRows
  <2>2. Staged' = Staged
    BY <1>5, <1>11 DEF Staged
  <2>3. Table!FindRaw(r)
    BY <1>5, <1>6, <1>8, <1>11, <2>1, <2>2 DEF Table!FindRaw, Staged, Names, Presses, RawRows
  <2> QED
    BY <1>4, <2>3, TableSteps DEF Table!Next
<1>12. CASE /\ row.key \in {rows[r].key, None} /\ row.master = rows[r].master
            /\ StageOf(rows[r].state) \in {"held", "sent"} /\ StageOf(row.state) = "settled"
  <2>1. Names' \in {Names, [Names EXCEPT ![r] = None]}
    BY <1>5, <1>8, <1>12
  <2>2. Table!Settle(r)
    BY <1>5, <1>6, <1>7, <1>12, <2>1 DEF Table!Settle, Staged, Names, Presses, RawRows
  <2> QED
    BY <1>4, <2>2, TableSteps DEF Table!Next
<1> QED
  BY <1>9, <1>10, <1>11, <1>12 DEF Carries

LEMMA FreshPlaced ==
    ASSUME NEW in, in.master \in Path, NEW key \in Key, key[1] = in.master[1],
           NEW preview, NEW seq
    PROVE  LET new == FreshRow(in, key, preview, seq) IN
             /\ new.state = "discovered" /\ new.key = key /\ new.master = in.master
             /\ Placed(new)
<1> DEFINE new == FreshRow(in, key, preview, seq)
<1>1. new.state = "discovered" /\ new.key = key /\ new.master = in.master
  BY DEF FreshRow, AbsentRow
<1> HIDE DEF new
<1>2. Placed(new)
  BY <1>1 DEF Placed
<1> QED
  BY <1>1, <1>2 DEF new

\* A fresh row enters the table, whether or not another leaves its key to it.
LEMMA InsertEnters ==
    ASSUME TableSound, NEW table \in [Row -> CaptureRow],
           \A s \in Row : /\ table[s].state = rows[s].state /\ table[s].master = rows[s].master
                          /\ table[s].key \in {rows[s].key, None},
           NEW in, in.master \in Path, NEW key \in Key, key[1] = in.master[1],
           NEW preview, Insert(table, in, key, preview)
    PROVE  /\ FreeId \in Row /\ rows[FreeId].state = "absent"
           /\ Staged[FreeId] = "unseen" /\ Staged' = [Staged EXCEPT ![FreeId] = "held"]
           /\ Presses' = [Presses EXCEPT ![FreeId] = in.master[1]]
           /\ Names' = [s \in Row |-> IF s = FreeId THEN key ELSE table[s].key]
           /\ \A s \in Row : s \in RawRows' <=> IF s = FreeId THEN IsRaw(in.master) ELSE s \in RawRows
           /\ \A s \in Row : Placed(rows'[s])
<1> DEFINE f == FreeId
           new == FreshRow(in, key, preview, hwm + 1)
<1>1. f \in Row /\ rows[f].state = "absent"
  BY DEF Insert, FreeId
<1>2. rows' = [table EXCEPT ![f] = new]
  BY DEF Insert
<1>3. /\ new.state = "discovered" /\ new.key = key /\ new.master = in.master
      /\ Placed(new)
  BY FreshPlaced
<1> HIDE DEF f, new
<1>4. rows'[f] = new /\ \A s \in Row \ {f} : rows'[s] = table[s]
  BY <1>1, <1>2
<1>5. \A s \in Row : Placed(rows'[s])
  BY <1>3, <1>4 DEF TableSound, Placed
<1>6. Staged[f] = "unseen" /\ Staged' = [Staged EXCEPT ![f] = "held"]
  <2>1. Staged' = [s \in Row |-> StageOf(rows'[s].state)]
    BY DEF Staged, StageOf
  <2>2. \A s \in Row : StageOf(rows'[s].state) = IF s = f THEN "held" ELSE Staged[s]
    BY <1>3, <1>4, Stages DEF Staged
  <2>3. Staged = [s \in Row |-> Staged[s]] /\ Staged[f] = "unseen"
    BY <1>1, Stages DEF Staged
  <2> HIDE DEF Staged
  <2> QED
    BY <2>1, <2>2, <2>3
<1>7. Presses' = [Presses EXCEPT ![f] = in.master[1]]
  <2>1. Presses' = [s \in Row |-> PressOf(rows'[s].master)]
    BY DEF Presses, PressOf
  <2>2. \A s \in Row : PressOf(rows'[s].master) = IF s = f THEN in.master[1] ELSE Presses[s]
    BY <1>3, <1>4, PathIs DEF Presses
  <2>3. Presses = [s \in Row |-> Presses[s]]
    BY DEF Presses
  <2> HIDE DEF Presses
  <2> QED
    BY <2>1, <2>2, <2>3
<1>8. Names' = [s \in Row |-> IF s = f THEN key ELSE table[s].key]
  <2>1. Names' = [s \in Row |-> rows'[s].key]
    BY DEF Names
  <2> QED
    BY <2>1, <1>3, <1>4
<1>9. \A s \in Row : s \in RawRows' <=> IF s = f THEN IsRaw(in.master) ELSE s \in RawRows
  <2>1. \A s \in Row : s \in RawRows' <=> IsRaw(rows'[s].master)
    BY DEF RawRows, IsRaw
  <2> QED
    BY <2>1, <1>3, <1>4 DEF RawRows
<1> QED
  BY <1>1, <1>5, <1>6, <1>7, <1>8, <1>9 DEF f

LEMMA InsertTable ==
    ASSUME TableSound, NEW in, in.master \in Path, NEW key \in Key, key[1] = in.master[1],
           NEW preview, Insert(rows, in, key, preview),
           \A s \in Row : rows[s].key # key
    PROVE  TableStep
<1> DEFINE f == FreeId
<1>0. rows[f].state = "absent"
  BY InsertEnters DEF TableSound
<1>1. /\ f \in Row /\ Staged[f] = "unseen" /\ Staged' = [Staged EXCEPT ![f] = "held"]
      /\ Presses' = [Presses EXCEPT ![f] = in.master[1]]
      /\ Names' = [s \in Row |-> IF s = f THEN key ELSE rows[s].key]
      /\ \A s \in Row : s \in RawRows' <=> IF s = f THEN IsRaw(in.master) ELSE s \in RawRows
      /\ \A s \in Row : Placed(rows'[s])
  BY InsertEnters DEF TableSound
<1> HIDE DEF f
<1>2. Names' = [Names EXCEPT ![f] = key] /\ \A s \in Row : Names[s] # key
  BY <1>1 DEF Names
<1>3. RawRows' \in {RawRows, RawRows \cup {f}}
  <2>1. f \notin RawRows
    BY <1>1, <1>0 DEF TableSound, Placed, RawRows, IsRaw
  <2> QED
    BY <1>1, <2>1 DEF RawRows
<1>4. in.master[1] \in Group
  BY PathIs
<1>5. Table!TakeOn(f, key, in.master[1])
  BY <1>1, <1>2, <1>3 DEF Table!TakeOn, Table!Enters, Staged, Names, Presses, RawRows
<1> QED
  BY <1>1, <1>4, <1>5, TableSteps DEF Table!Next

\* A finished row whose file holds a new photograph leaves its key to it.
LEMMA ReuseTable ==
    ASSUME TableSound, NEW r \in Row, NEW in, Named(in), rows[r].key = in.key,
           ReconcileReuse(r, in)
    PROVE  TableStep
<1> DEFINE retired == [rows[r] EXCEPT !.key = None]
           table == [rows EXCEPT ![r] = retired]
<1>1. /\ in.master = rows[r].master /\ in.master \in Path /\ in.key \in Key
      /\ in.key[1] = in.master[1] /\ in.key # None
      /\ rows[r].state \in Terminal /\ Insert(table, in, in.key, in.preview)
  BY SpoolAssumption DEF ReconcileReuse, Named
<1>2. rows[r] \in CaptureRow /\ rows \in [Row -> CaptureRow]
  BY DEF TableSound
<1>3. /\ retired \in CaptureRow /\ retired.key = None
      /\ retired.state = rows[r].state /\ retired.master = rows[r].master
  BY <1>2 DEF CaptureRow
<1> HIDE DEF retired
<1>4. table[r] = retired /\ \A s \in Row \ {r} : table[s] = rows[s]
  BY <1>2
<1>5. table \in [Row -> CaptureRow]
  BY <1>2, <1>3
<1> HIDE DEF table
<1>6. \A s \in Row : /\ table[s].state = rows[s].state /\ table[s].master = rows[s].master
                     /\ table[s].key = IF s = r THEN None ELSE rows[s].key
  BY <1>3, <1>4
<1>7. PICK f \in Row :
      /\ rows[f].state = "absent"
      /\ Staged[f] = "unseen" /\ Staged' = [Staged EXCEPT ![f] = "held"]
      /\ Presses' = [Presses EXCEPT ![f] = in.master[1]]
      /\ Names' = [s \in Row |-> IF s = f THEN in.key ELSE table[s].key]
      /\ \A s \in Row : s \in RawRows' <=> IF s = f THEN IsRaw(in.master) ELSE s \in RawRows
      /\ \A s \in Row : Placed(rows'[s])
  BY <1>1, <1>5, <1>6, InsertEnters
<1>8. f # r /\ Staged[r] = "settled" /\ Names[r] = in.key /\ Presses[r] = in.master[1]
  BY <1>1, <1>7, Stages, PathIs DEF Staged, Names, Presses, Terminal
<1>9. Names' = [Names EXCEPT ![r] = None, ![f] = Names[r]]
  <2>1. Names = [s \in Row |-> Names[s]] /\ \A s \in Row : Names[s] = rows[s].key
    BY DEF Names
  <2>2. \A s \in Row : (IF s = f THEN in.key ELSE table[s].key)
                         = IF s = f THEN Names[r] ELSE IF s = r THEN None ELSE Names[s]
    BY <1>6, <1>8, <2>1
  <2> HIDE DEF Names
  <2> QED
    BY <1>7, <1>8, <2>1, <2>2
<1>10. RawRows' = RawRows \cup {t \in {f} : r \in RawRows}
  <2>1. f \notin RawRows /\ (r \in RawRows <=> IsRaw(in.master))
    BY <1>1, <1>7 DEF TableSound, Placed, RawRows, IsRaw
  <2>2. RawRows' \subseteq Row /\ RawRows \subseteq Row
    BY DEF RawRows
  <2> HIDE DEF RawRows
  <2> QED
    BY <1>7, <2>1, <2>2
<1>11. Table!HandOver(r, f)
  BY <1>1, <1>7, <1>8, <1>9, <1>10
     DEF Table!HandOver, Table!Enters, Staged, Names, Presses, RawRows
<1>12. Table!Next
  BY <1>11 DEF Table!Next
<1> QED
  BY <1>7, <1>12, TableSteps

\* Whatever discover() does to the spool is a step of the table.
LEMMA SpoolDiscoverTable ==
    ASSUME TableSound, NEW in, Named(in), SpoolDiscover(in)
    PROVE  TableStep
<1>1. /\ in.master \in Path /\ in.key \in Key /\ in.key[1] = in.master[1]
      /\ in.hasRaw => in.master \in Raws(in.master[1])
      /\ in.key # None /\ in.master \in Key
  BY SpoolAssumption DEF Named, Key
<1>2. rows \in [Row -> CaptureRow]
  BY DEF TableSound
<1>3. ASSUME NEW r \in Row, rows[r].key = in.key, rows[r].state \in PreAnnounced,
             NEW row, rows' = [rows EXCEPT ![r] = row], row.key = rows[r].key,
             row.state = "discovered",
             row.master \in {rows[r].master} \cup Raws(in.master[1])
      PROVE  TableStep
  <2>1. /\ StageOf(rows[r].state) = "held" /\ StageOf("discovered") = "held"
        /\ rows[r].state # "absent"
    BY <1>3, Stages DEF PreAnnounced
  <2>2. rows[r].master[1] = in.master[1]
    BY <1>1, <1>3, <2>1 DEF TableSound, Placed
  <2>3. Carries(row, rows[r])
    BY <1>3, <2>1, <2>2 DEF Carries
  <2>4. rows'[r] = row /\ \A s \in Row \ {r} : rows'[s] = rows[s]
    BY <1>2, <1>3
  <2> QED
    BY <2>1, <2>3, <2>4, CarriesTable
<1>4. CASE DiscoverNew(in)
  BY <1>1, <1>4, InsertTable DEF DiscoverNew
<1>5. ASSUME NEW r \in Row, rows[r].key = in.key, ReconcileUpgrade(r, in) PROVE TableStep
  <2> DEFINE row == UpgradeMasterToRaw(rows[r], in.master, OrElse(in.preview, rows[r].preview), in.seen)
  <2>1. row.key = rows[r].key /\ row.state = "discovered" /\ row.master = in.master
    BY <1>2, UpgradeKeeps
  <2>2. rows' = [rows EXCEPT ![r] = row] /\ rows[r].state \in PreAnnounced /\ in.hasRaw
    BY <1>5 DEF ReconcileUpgrade, LateRaw
  <2> HIDE DEF row
  <2> QED
    BY <1>1, <1>3, <1>5, <2>1, <2>2
<1>6. ASSUME NEW r \in Row, ReconcileOwnRow(r, in) PROVE TableStep
  BY <1>1, <1>6, InsertTable DEF ReconcileOwnRow
<1>7. ASSUME NEW r \in Row, rows[r].key = in.key, ReconcilePreview(r, in) PROVE TableStep
  <2> DEFINE row == AttachPreview(rows[r], in.preview)
  <2>1. row.key = rows[r].key /\ row.state = "discovered" /\ row.master = rows[r].master
    BY <1>2 DEF AttachPreview, CaptureRow
  <2>2. rows' = [rows EXCEPT ![r] = row] /\ rows[r].state \in PreAnnounced
    BY <1>7 DEF ReconcilePreview
  <2> HIDE DEF row
  <2> QED
    BY <1>3, <1>7, <2>1, <2>2
<1> QED
  BY <1>4, <1>5, <1>6, <1>7, ReuseTable DEF SpoolDiscover

\* A report the scanner makes of the files under a stem is named after them.
LEMMA ReportedNamed ==
    ASSUME NEW g \in Group, NEW found \in [Path -> Content \cup {None}],
           NEW in \in Reported(g, found)
    PROVE  Named(in)
<1> DEFINE jpegs == {p \in Jpegs(g) : found[p] # None}
           raws  == {p \in Raws(g) : found[p] # None}
           collide == jpegs = Jpegs(g) \/ raws = Raws(g)
<1>1. /\ in.master \in Path /\ in.key \in Key
  BY ReportedType
<1>2. \A p \in Jpegs(g) \cup Raws(g) : p[1] = g
  BY DEF Jpeg, Jpegs, Raw, Raws
<1>3. CASE collide
  <2>1. in.key = in.master /\ in.hasRaw = FALSE
    BY <1>3 DEF Reported
  <2> QED
    BY <1>1, <2>1 DEF Named
<1>4. CASE ~collide
  <2>1. /\ in.key = Stem(g) /\ in.hasRaw = (raws # {})
        /\ in.master \in IF raws # {} THEN raws ELSE jpegs
    BY <1>4 DEF Reported
  <2>2. Stem(g)[1] = g
    BY DEF Stem
  <2>3. in.master[1] = g /\ (in.hasRaw => in.master \in Raws(g))
    BY <1>2, <2>1
  <2> QED
    BY <1>1, <2>1, <2>2, <2>3 DEF Named
<1> QED
  BY <1>3, <1>4

\* The empty spool is the empty table.
LEMMA SpoolInitTable == SpoolInit => Table!Init /\ TableSound
<1> SUFFICES ASSUME SpoolInit PROVE Table!Init /\ TableSound
  OBVIOUS
<1>1. \A r \in Row : /\ rows[r].state = "absent" /\ rows[r].key = None
                     /\ rows[r].master = None
  BY DEF SpoolInit, AbsentRow
<1>2. \A r \in Row : StageOf(rows[r].state) = "unseen" /\ PressOf(rows[r].master) = None
                     /\ ~IsRaw(rows[r].master)
  BY <1>1, Stages DEF PressOf, IsRaw
<1>3. rows \in [Row -> CaptureRow]
  BY SpoolAssumption DEF SpoolInit, AbsentRow, CaptureRow
<1> QED
  BY <1>1, <1>2, <1>3 DEF Table!Init, TableSound, Placed

LEMMA RecoverTable == ASSUME TableSound, rows' = Recover PROVE TableStep
<1>1. ASSUME NEW r \in Row
      PROVE  /\ rows'[r].key = rows[r].key /\ rows'[r].master = rows[r].master
             /\ StageOf(rows'[r].state) = StageOf(rows[r].state)
             /\ rows'[r].state = "absent" <=> rows[r].state = "absent"
  <2>1. rows'[r] = Rewind(rows[r]) /\ rows[r] \in CaptureRow
    BY DEF Recover, TableSound
  <2>2. /\ Rewind(rows[r]).key = rows[r].key /\ Rewind(rows[r]).master = rows[r].master
        /\ Rewind(rows[r]).state = IF rows[r].state = "uploading_preview" THEN "queued"
                                   ELSE IF rows[r].state = "uploading_master"
                                   THEN "preview_confirmed" ELSE rows[r].state
    BY <2>1 DEF Rewind, CaptureRow
  <2> QED
    BY <2>1, <2>2, Stages
<1> QED
  BY <1>1, SameTable

LEMMA UnchangedTable == ASSUME TableSound, UNCHANGED rows PROVE TableStep
BY SameTable

LEMMA NamesAreOnesStep ==
    ASSUME Table!NamesAreOnes, [Table!Next]_(Table!table)
    PROVE  Table!NamesAreOnes'
<1>1. Table!NamesAreOnes <=> \A r, s \in Row : r # s /\ Names[r] # None => Names[r] # Names[s]
  BY DEF Table!NamesAreOnes, Names
<1>2. Table!NamesAreOnes' <=> \A r, s \in Row : r # s /\ Names'[r] # None => Names'[r] # Names'[s]
  BY DEF Table!NamesAreOnes, Names
<1>3. Names \in [Row -> {rows[r].key : r \in Row}]
  BY DEF Names
<1>4. CASE Names' = Names
  BY <1>1, <1>2, <1>4
<1>5. ASSUME NEW r \in Row, NEW n, (\A s \in Row : Names[s] # n),
             Names' = [Names EXCEPT ![r] = n]
      PROVE  Table!NamesAreOnes'
  BY <1>1, <1>2, <1>3, <1>5
<1>6. ASSUME NEW r \in Row, Names' = [Names EXCEPT ![r] = None]
      PROVE  Table!NamesAreOnes'
  BY <1>1, <1>2, <1>3, <1>6
<1>7. ASSUME NEW r \in Row, NEW s \in Row, Names' = [Names EXCEPT ![r] = None, ![s] = Names[r]]
      PROVE  Table!NamesAreOnes'
  BY <1>1, <1>2, <1>3, <1>7
<1>8. CASE UNCHANGED Table!table
  BY <1>4, <1>8 DEF Table!table, Names
<1>9. ASSUME NEW r \in Row, NEW n \in Key, NEW p \in Group, Table!TakeOn(r, n, p)
      PROVE  Table!NamesAreOnes'
  BY <1>5, <1>9 DEF Table!TakeOn, Names
<1>10. ASSUME NEW r \in Row, Table!FindRaw(r) \/ Table!Send(r) \/ Table!Settle(r)
       PROVE  Table!NamesAreOnes'
  BY <1>4, <1>6, <1>10 DEF Table!FindRaw, Table!Send, Table!Settle, Names
<1>11. ASSUME NEW r \in Row, NEW s \in Row, Table!HandOver(r, s)
       PROVE  Table!NamesAreOnes'
  BY <1>7, <1>11 DEF Table!HandOver, Names
<1> QED
  BY <1>8, <1>9, <1>10, <1>11 DEF Table!Next

\* Whoever keeps the promise of CaptureTable never has two rows go by one
\* name: what the unique index on the group key demands of discover() and of
\* the drain together (db.js, spool.js).
THEOREM TableNamesAreOnes == TableKept => []Table!NamesAreOnes
<1>1. Table!Init => Table!NamesAreOnes
  BY DEF Table!Init, Table!NamesAreOnes
<1>2. Table!NamesAreOnes /\ [Table!Next]_(Table!table) => Table!NamesAreOnes'
  BY NamesAreOnesStep
<1> QED
  BY <1>1, <1>2, PTL DEF TableKept, Table!Spec

=============================================================================
