---------------------------- MODULE Watch_proofs ----------------------------
(***************************************************************************)
(* The safety of Watch, for every card, quiet period, pair grace and       *)
(* volume.  WholeFilesOnly: a scan never reports a file that is still      *)
(* being written, as long as the camera does not pause inside a file for   *)
(* the quiet period; it does not depend on the spool, the drain or the     *)
(* disk gate.  TypeOK.  OnePressOneCapture, from both and an invariant     *)
(* that follows a pair from the card into the table.  Watch implements     *)
(* CaptureTable.                                                           *)
(***************************************************************************)
EXTENDS Watch, Spool_proofs

(***************************************************************************)
(* The inductive invariant.                                                *)
(***************************************************************************)

Observation == [seen : Content \cup {None}, age : Nat]

Shape ==
    /\ card \in [Path -> Content \cup {None}]
    /\ writing \in [Path -> Finished \cup {None}]
    /\ idle \in [Path -> Nat]
    /\ obs \in [Path -> Observation]
    /\ shots \in SUBSET (Path \X (Finished \cup {None}))

\* What is on the card is whole, or a part of what is being written.
Written(p) ==
    IF writing[p] = None THEN card[p] \in Finished \cup {None}
    ELSE card[p] \in {Part(writing[p], 1), Part(writing[p], 2)}

\* Each file is written once, and no part of it was seen before.
Unseen(p) ==
    /\ \A c \in Finished : <<p, c>> \in shots =>
         writing[p] # c /\ obs[p].seen \notin {Part(c, 1), Part(c, 2)}
    /\ writing[p] # None /\ card[p] = Part(writing[p], 1)
         => obs[p].seen # Part(writing[p], 2)

\* The camera is never idle inside a file for the quiet period, and whoever
\* has seen the file as it is has seen it no longer ago than that.
Timely(p) ==
    writing[p] # None =>
        /\ idle[p] < Quiet
        /\ obs[p].seen = card[p] => obs[p].age <= idle[p]

CardInv == \A p \in Path : Written(p) /\ Unseen(p) /\ Timely(p)

\* What a scan holds to be stable, and what it reports, is whole.
ScanInv ==
    /\ scan = [ at |-> scan.at, listed |-> scan.listed, todo |-> scan.todo,
                groups |-> scan.groups, stable |-> scan.stable,
                pending |-> scan.pending, ready |-> scan.ready ]
    /\ scan.groups \subseteq Group
    /\ scan.stable \in [Path -> Finished \cup {None}]
    /\ WholeFilesOnly

IInv == Shape /\ CardInv /\ ScanInv

(***************************************************************************)
(* Facts about contents and paths.                                         *)
(***************************************************************************)

LEMMA PartFacts ==
    /\ \A c \in Finished : Part(c, 1) \in Content /\ Part(c, 2) \in Content
    /\ \A c \in Finished : Part(c, 1) \notin Finished /\ Part(c, 2) \notin Finished
    /\ \A c \in Finished : Part(c, 1) # None /\ Part(c, 2) # None
    /\ \A c, d \in Finished : c # d => {Part(c, 1), Part(c, 2)} \cap {Part(d, 1), Part(d, 2)} = {}
    /\ \A c \in Finished : Part(c, 1) # Part(c, 2)
    /\ Finished \subseteq Content
    /\ None \notin Content /\ None \notin Finished
  <1>1. \A c \in Finished : Part(c, 1) \in Unfinished /\ Part(c, 2) \in Unfinished
    BY DEF Part, Unfinished
  <1>2. None \notin Content /\ Finished \subseteq Content /\ Unfinished \subseteq Content
    BY NoneIsNoContent, WatchAssumption
  <1>3. Finished \cap Unfinished = {}
    BY WatchAssumption
  <1>4. /\ \A c, d \in Finished : c # d => {Part(c, 1), Part(c, 2)} \cap {Part(d, 1), Part(d, 2)} = {}
        /\ \A c \in Finished : Part(c, 1) # Part(c, 2)
    BY DEF Part
  <1> QED
    BY <1>1, <1>2, <1>3, <1>4

LEMMA QuietFact == Quiet \in Nat /\ Quiet > 0
  BY WatchAssumption

\* What is reported was found.
LEMMA ReportedSeen ==
    ASSUME NEW g, NEW found \in [Path -> Finished \cup {None}], NEW in \in Reported(g, found),
           g \in Group
    PROVE  in.seen \in Finished
  <1> DEFINE jpegs == {p \in Jpegs(g) : found[p] # None}
             raws  == {p \in Raws(g) : found[p] # None}
             collide == jpegs = Jpegs(g) \/ raws = Raws(g)
  <1>1. Jpegs(g) \cup Raws(g) \subseteq Path
    BY DEF Jpeg, Jpegs, Raw, Raws, Path
  <1>2. \A p \in jpegs \cup raws : found[p] \in Finished
    BY <1>1
  <1>3. CASE collide
    <2>1. PICK p \in jpegs \cup raws :
            in = [ key |-> p, master |-> p, preview |-> IF IsJpeg(p) THEN p ELSE None,
                   seen |-> found[p], hasRaw |-> FALSE ]
      BY <1>3 DEF Reported
    <2>2. in.seen = found[p]
      BY <2>1
    <2> QED
      BY <2>1, <2>2, <1>2
  <1>4. CASE ~collide
    <2>1. PICK m \in IF raws # {} THEN raws ELSE jpegs, v \in IF jpegs = {} THEN {None} ELSE jpegs :
            in = [ key |-> Stem(g), master |-> m, preview |-> v,
                   seen |-> found[m], hasRaw |-> raws # {} ]
      BY <1>4 DEF Reported
    <2>2. in.seen = found[m] /\ m \in jpegs \cup raws
      BY <2>1
    <2> QED
      BY <2>2, <1>2
  <1> QED
    BY <1>3, <1>4

LEMMA InitIInv == Init => IInv
  <1> SUFFICES ASSUME Init PROVE IInv
    OBVIOUS
  <1>1. shots \in SUBSET (Path \X (Finished \cup {None}))
    BY WatchAssumption DEF Init
  <1>2. Shape
    BY <1>1 DEF Init, Shape, NoObs, Unobserved, Observation
  <1>3. CardInv
    <2> SUFFICES ASSUME NEW p \in Path PROVE Written(p) /\ Unseen(p) /\ Timely(p)
      BY DEF CardInv
    <2>1. writing[p] = None /\ card[p] = None /\ obs[p].seen = None
      BY DEF Init, NoObs, Unobserved
    <2> QED
      BY <2>1, PartFacts DEF Written, Unseen, Timely
  <1>4. ScanInv
    BY DEF Init, NoScan, ScanInv, WholeFilesOnly
  <1> QED
    BY <1>2, <1>3, <1>4 DEF IInv

(***************************************************************************)
(* The camera.                                                             *)
(***************************************************************************)

LEMMA BeginsKeeps ==
    ASSUME IInv, NEW p \in Path, NEW c \in Finished \cup {None}, BeginsWrite(p, c),
           idle' = [idle EXCEPT ![p] = 0], UNCHANGED obs
    PROVE  Shape' /\ CardInv'
  <1> USE DEF IInv
  <1>1. CASE c = None
    <2>1. /\ writing[p] = None /\ card' = [card EXCEPT ![p] = None]
          /\ writing' = [writing EXCEPT ![p] = None] /\ shots' \subseteq shots
      BY <1>1 DEF BeginsWrite
    <2>2. Shape'
      BY <2>1 DEF Shape
    <2>3. ASSUME NEW q \in Path PROVE (Written(q) /\ Unseen(q) /\ Timely(q))'
      <3>1. Written(q) /\ Unseen(q) /\ Timely(q)
        BY DEF CardInv
      <3>2. CASE q = p
        <4>1. writing'[q] = None /\ card'[q] = None /\ writing[q] = None
          BY <3>2, <2>1 DEF Shape
        <4> QED
          BY <4>1, <3>1, <2>1 DEF Written, Unseen, Timely
      <3>3. CASE q # p
        <4>1. writing'[q] = writing[q] /\ card'[q] = card[q] /\ idle'[q] = idle[q]
          BY <3>3, <2>1 DEF Shape
        <4> QED
          BY <4>1, <3>1, <2>1 DEF Written, Unseen, Timely
      <3> QED
        BY <3>2, <3>3
    <2> QED
      BY <2>2, <2>3 DEF CardInv
  <1>2. CASE c # None
    <2>1. /\ writing[p] = None /\ card' = [card EXCEPT ![p] = Part(c, 1)]
          /\ writing' = [writing EXCEPT ![p] = c] /\ shots' = shots \ {<<p, c>>}
          /\ <<p, c>> \in shots /\ c \in Finished
      BY <1>2 DEF BeginsWrite
    <2>2. Shape'
      BY <2>1, PartFacts DEF Shape
    <2>3. ASSUME NEW q \in Path PROVE (Written(q) /\ Unseen(q) /\ Timely(q))'
      <3>1. Written(q) /\ Unseen(q) /\ Timely(q)
        BY DEF CardInv
      <3>2. CASE q = p
        <4>1. writing'[q] = c /\ card'[q] = Part(c, 1) /\ idle'[q] = 0
          BY <3>2, <2>1 DEF Shape
        <4>2. c # None
          BY <1>2
        <4>3. obs[q].seen \notin {Part(c, 1), Part(c, 2)}
          BY <3>1, <3>2, <2>1 DEF Unseen
        <4>4. Written(q)'
          BY <4>1, <4>2 DEF Written
        <4>5. Unseen(q)'
          <5>1. ASSUME NEW d \in Finished, <<q, d>> \in shots'
                PROVE  c # d /\ obs[q].seen \notin {Part(d, 1), Part(d, 2)}
            BY <5>1, <3>1, <3>2, <2>1 DEF Unseen
          <5> QED
            BY <5>1, <4>1, <4>3 DEF Unseen
        <4>6. Timely(q)'
          BY <4>1, <4>3, QuietFact DEF Timely
        <4> QED
          BY <4>4, <4>5, <4>6
      <3>3. CASE q # p
        <4>1. writing'[q] = writing[q] /\ card'[q] = card[q] /\ idle'[q] = idle[q]
          BY <3>3, <2>1 DEF Shape
        <4> QED
          BY <4>1, <3>1, <2>1 DEF Written, Unseen, Timely
      <3> QED
        BY <3>2, <3>3
    <2> QED
      BY <2>2, <2>3 DEF CardInv
  <1> QED
    BY <1>1, <1>2

LEMMA ContinuesKeeps ==
    ASSUME IInv, NEW p \in Path, ContinuesWrite(p),
           idle' = [idle EXCEPT ![p] = 0], UNCHANGED obs
    PROVE  Shape' /\ CardInv'
  <1> USE DEF IInv
  <1>1. /\ writing[p] # None /\ card[p] = Part(writing[p], 1)
        /\ card' = [card EXCEPT ![p] = Part(writing[p], 2)]
        /\ writing' = writing /\ shots' = shots
    BY DEF ContinuesWrite
  <1>2. writing[p] \in Finished
    BY <1>1 DEF Shape
  <1>3. Shape'
    BY <1>1, <1>2, PartFacts DEF Shape
  <1>4. ASSUME NEW q \in Path PROVE (Written(q) /\ Unseen(q) /\ Timely(q))'
    <2>1. Written(q) /\ Unseen(q) /\ Timely(q)
      BY DEF CardInv
    <2>2. CASE q = p
      <3>1. card'[q] = Part(writing[q], 2) /\ idle'[q] = 0
        BY <2>2, <1>1 DEF Shape
      <3>2. obs[q].seen # Part(writing[q], 2) /\ Part(writing[q], 1) # Part(writing[q], 2)
        BY <2>1, <2>2, <1>1, <1>2, PartFacts DEF Unseen
      <3>3. Written(q)'
        BY <3>1, <2>2, <1>1 DEF Written
      <3>4. Unseen(q)'
        BY <3>1, <3>2, <2>1, <1>1 DEF Unseen
      <3>5. Timely(q)'
        BY <3>1, <3>2, <1>1, QuietFact DEF Timely
      <3> QED
        BY <3>3, <3>4, <3>5
    <2>3. CASE q # p
      <3>1. card'[q] = card[q] /\ idle'[q] = idle[q]
        BY <2>3, <1>1 DEF Shape
      <3> QED
        BY <3>1, <2>1, <1>1 DEF Written, Unseen, Timely
    <2> QED
      BY <2>2, <2>3
  <1> QED
    BY <1>3, <1>4 DEF CardInv

LEMMA EndsKeeps ==
    ASSUME IInv, NEW p \in Path, EndsWrite(p),
           idle' = [idle EXCEPT ![p] = 0], UNCHANGED obs
    PROVE  Shape' /\ CardInv'
  <1> USE DEF IInv
  <1>1. /\ writing[p] # None /\ card' = [card EXCEPT ![p] = writing[p]]
        /\ writing' = [writing EXCEPT ![p] = None] /\ shots' = shots
    BY DEF EndsWrite
  <1>2. writing[p] \in Finished
    BY <1>1 DEF Shape
  <1>3. Shape'
    BY <1>1, <1>2, PartFacts DEF Shape
  <1>4. ASSUME NEW q \in Path PROVE (Written(q) /\ Unseen(q) /\ Timely(q))'
    <2>1. Written(q) /\ Unseen(q) /\ Timely(q)
      BY DEF CardInv
    <2>2. CASE q = p
      <3>1. writing'[q] = None /\ card'[q] \in Finished
        BY <2>2, <1>1, <1>2 DEF Shape
      <3> QED
        BY <3>1, <2>1, <1>1, PartFacts DEF Written, Unseen, Timely
    <2>3. CASE q # p
      <3>1. writing'[q] = writing[q] /\ card'[q] = card[q] /\ idle'[q] = idle[q]
        BY <2>3, <1>1 DEF Shape
      <3> QED
        BY <3>1, <2>1, <1>1 DEF Written, Unseen, Timely
    <2> QED
      BY <2>2, <2>3
  <1> QED
    BY <1>3, <1>4 DEF CardInv

LEMMA CameraKeeps == ASSUME IInv, NEW p \in Path, Camera(p) PROVE IInv'
  <1>1. idle' = [idle EXCEPT ![p] = 0] /\ UNCHANGED obs /\ UNCHANGED scan
    BY DEF Camera, memory
  <1>2. Shape' /\ CardInv'
    BY <1>1, BeginsKeeps, ContinuesKeeps, EndsKeeps DEF Camera
  <1>3. ScanInv'
    BY <1>1 DEF IInv, ScanInv, WholeFilesOnly
  <1> QED
    BY <1>2, <1>3 DEF IInv

(***************************************************************************)
(* Time.                                                                   *)
(***************************************************************************)

LEMMA TickKeeps == ASSUME IInv, Tick PROVE IInv'
  <1> USE DEF IInv
  <1>1. /\ CameraIsPrompt
        /\ idle' = [p \in Path |-> IF writing[p] # None \/ RawDue(p) THEN idle[p] + 1 ELSE 0]
        /\ obs' = [p \in Path |-> IF obs[p].seen = None THEN obs[p]
                                  ELSE [obs[p] EXCEPT !.age = Older(obs[p].age, Quiet)]]
        /\ UNCHANGED <<card, shots, writing, scan>>
    BY DEF Tick
  <1>2. ASSUME NEW p \in Path
        PROVE  obs'[p] \in Observation /\ obs'[p].seen = obs[p].seen
               /\ obs'[p].age <= obs[p].age + 1
    <2>1. obs[p] \in Observation
      BY DEF Shape
    <2>2. CASE obs[p].seen = None
      BY <2>1, <2>2, <1>1 DEF Observation
    <2>3. CASE obs[p].seen # None
      <3>1. obs'[p] = [obs[p] EXCEPT !.age = Older(obs[p].age, Quiet)]
        BY <2>3, <1>1
      <3>2. Older(obs[p].age, Quiet) \in Nat /\ Older(obs[p].age, Quiet) <= obs[p].age + 1
        BY <2>1, QuietFact DEF Older, Observation
      <3> QED
        BY <3>1, <3>2, <2>1 DEF Observation
    <2> QED
      BY <2>2, <2>3
  <1>3. obs' \in [Path -> Observation]
    BY <1>1, <1>2
  <1>4. idle' \in [Path -> Nat]
    BY <1>1 DEF Shape
  <1>5. Shape'
    BY <1>1, <1>3, <1>4 DEF Shape
  <1>6. ASSUME NEW p \in Path PROVE (Written(p) /\ Unseen(p) /\ Timely(p))'
    <2>1. Written(p) /\ Unseen(p) /\ Timely(p)
      BY DEF CardInv
    <2>2. Written(p)' /\ Unseen(p)'
      BY <2>1, <1>1, <1>2 DEF Written, Unseen
    <2>3. CASE writing[p] # None
      <3>1. idle[p] + 1 < Quiet /\ idle'[p] = idle[p] + 1
        BY <2>3, <1>1 DEF CameraIsPrompt
      <3>2. idle[p] \in Nat /\ obs[p].age \in Nat /\ obs'[p].age \in Nat
        BY <1>2 DEF Shape, Observation
      <3>3. obs'[p].seen = card'[p] => obs'[p].age <= idle'[p]
        BY <3>1, <3>2, <2>1, <2>3, <1>1, <1>2 DEF Timely
      <3> QED
        BY <2>2, <3>1, <3>3 DEF Timely
    <2>4. CASE writing[p] = None
      BY <2>2, <2>4, <1>1 DEF Timely
    <2> QED
      BY <2>3, <2>4
  <1>7. ScanInv'
    BY <1>1 DEF ScanInv, WholeFilesOnly
  <1> QED
    BY <1>5, <1>6, <1>7 DEF CardInv

(***************************************************************************)
(* The scan.                                                               *)
(***************************************************************************)

\* What the card and the camera say of a path outlives any step that leaves
\* them alone, if what was observed there is forgotten or is what is there now.
LEMMA ObservedKeeps ==
    ASSUME IInv, UNCHANGED <<card, shots, writing, idle>>,
           obs' \in [Path -> Observation],
           \A p \in Path : \/ obs'[p] = obs[p]
                           \/ obs'[p].seen = None
                           \/ card[p] # None /\ obs'[p].seen = card[p] /\ obs'[p].age = 0
    PROVE  Shape' /\ CardInv'
  <1> USE DEF IInv
  <1>1. Shape'
    BY DEF Shape
  <1>2. ASSUME NEW p \in Path PROVE (Written(p) /\ Unseen(p) /\ Timely(p))'
    <2>1. Written(p) /\ Unseen(p) /\ Timely(p)
      BY DEF CardInv
    <2>2. Written(p)'
      BY <2>1 DEF Written
    <2>3. writing[p] \in Finished \cup {None} /\ idle[p] \in Nat
      BY DEF Shape
    <2>4. CASE obs'[p] = obs[p]
      BY <2>1, <2>2, <2>4 DEF Unseen, Timely
    <2>5. CASE obs'[p].seen = None
      <3>1. Unseen(p)'
        BY <2>1, <2>3, <2>5, PartFacts DEF Unseen
      <3>2. card[p] # None \/ writing[p] = None
        BY <2>1, <2>3, PartFacts DEF Written
      <3>3. Timely(p)'
        BY <2>1, <2>5, <3>2 DEF Timely
      <3> QED
        BY <2>2, <3>1, <3>3
    <2>6. CASE card[p] # None /\ obs'[p].seen = card[p] /\ obs'[p].age = 0
      <3>1. ASSUME NEW c \in Finished, <<p, c>> \in shots
            PROVE  card[p] \notin {Part(c, 1), Part(c, 2)}
        <4>1. writing[p] # c
          BY <2>1, <3>1 DEF Unseen
        <4>2. CASE writing[p] = None
          BY <4>2, <2>1, PartFacts DEF Written
        <4>3. CASE writing[p] # None
          BY <4>1, <4>3, <2>1, <2>3, PartFacts DEF Written
        <4> QED
          BY <4>2, <4>3
      <3>2. Unseen(p)'
        BY <3>1, <2>1, <2>3, <2>6, PartFacts DEF Unseen
      <3>3. Timely(p)'
        BY <2>1, <2>3, <2>6 DEF Timely
      <3> QED
        BY <2>2, <3>2, <3>3
    <2> QED
      BY <2>4, <2>5, <2>6
  <1> QED
    BY <1>1, <1>2 DEF CardInv

\* A step that changes neither the card nor what was observed.
LEMMA CardKeeps ==
    ASSUME IInv, UNCHANGED <<camera, obs>>
    PROVE  Shape' /\ CardInv'
  BY DEF camera, IInv, Shape, CardInv, Written, Unseen, Timely

\* A file that has been seen unchanged for the quiet period is whole.
LEMMA QuietIsWhole ==
    ASSUME IInv, NEW p \in Path, card[p] # None, card[p] = obs[p].seen, obs[p].age >= Quiet
    PROVE  card[p] \in Finished
  <1>1. Written(p) /\ Timely(p)
    BY DEF IInv, CardInv
  <1>2. idle[p] \in Nat /\ obs[p].age \in Nat /\ Quiet \in Nat
    BY QuietFact DEF IInv, Shape, Observation
  <1>3. writing[p] = None
    BY <1>1, <1>2 DEF Timely
  <1> QED
    BY <1>1, <1>3 DEF Written

LEMMA StatKeeps == ASSUME IInv, NEW p \in Path, Stat(p) PROVE IInv'
  <1> USE DEF IInv
  <1>1. UNCHANGED <<card, shots, writing, idle>> /\ UNCHANGED camera
    BY DEF Stat, camera
  <1>2. p[1] \in Group /\ scan.groups \cup {p[1]} \subseteq Group
    BY DEF Path, ScanInv
  <1>3. CASE StatGone(p)
    <2>1. Shape' /\ CardInv'
      BY <1>1, <1>3, CardKeeps DEF StatGone
    <2>2. scan' = [scan EXCEPT !.todo = scan.todo \ {p}]
      BY <1>3 DEF StatGone
    <2>3. ScanInv'
      BY <1>2, <2>2 DEF ScanInv, WholeFilesOnly
    <2> QED
      BY <2>1, <2>3
  <1>4. CASE StatChanged(p)
    <2>1. obs' = [obs EXCEPT ![p] = [seen |-> card[p], age |-> 0]] /\ card[p] # None
      BY <1>4 DEF StatChanged
    <2>2. card[p] \in Content
      BY <2>1 DEF Shape
    <2>3. obs' \in [Path -> Observation]
      BY <2>1, <2>2 DEF Shape, Observation
    <2>4. \A q \in Path : \/ obs'[q] = obs[q]
                          \/ card[q] # None /\ obs'[q].seen = card[q] /\ obs'[q].age = 0
      BY <2>1 DEF Shape
    <2>5. Shape' /\ CardInv'
      BY <2>3, <2>4, <1>1, ObservedKeeps
    <2>6. scan' = [scan EXCEPT !.todo = scan.todo \ {p}, !.groups = scan.groups \cup {p[1]},
                               !.pending = scan.pending \cup {p[1]}]
      BY <1>4 DEF StatChanged, Statted, ScanInv
    <2>7. ScanInv'
      BY <1>2, <2>6 DEF ScanInv, WholeFilesOnly
    <2> QED
      BY <2>5, <2>7
  <1>5. CASE StatSame(p)
    <2>1. Shape' /\ CardInv'
      BY <1>1, <1>5, CardKeeps DEF StatSame
    <2>2. CASE obs[p].age >= Quiet
      <3>1. scan' = [scan EXCEPT !.todo = scan.todo \ {p}, !.groups = scan.groups \cup {p[1]},
                                 !.stable = [scan.stable EXCEPT ![p] = card[p]]]
        BY <1>5, <2>2 DEF StatSame, Statted, ScanInv
      <3>2. card[p] \in Finished
        BY <1>5, <2>2, QuietIsWhole DEF StatSame
      <3>3. [scan.stable EXCEPT ![p] = card[p]] \in [Path -> Finished \cup {None}]
        BY <3>2 DEF ScanInv
      <3>4. ScanInv'
        BY <1>2, <3>1, <3>3 DEF ScanInv, WholeFilesOnly
      <3> QED
        BY <2>1, <3>4
    <2>3. CASE ~(obs[p].age >= Quiet)
      <3>1. scan' = [scan EXCEPT !.todo = scan.todo \ {p}, !.groups = scan.groups \cup {p[1]},
                                 !.pending = scan.pending \cup {p[1]}]
        BY <1>5, <2>3 DEF StatSame, Statted, ScanInv
      <3>2. ScanInv'
        BY <1>2, <3>1 DEF ScanInv, WholeFilesOnly
      <3> QED
        BY <2>1, <3>2
    <2> QED
      BY <2>2, <2>3
  <1> QED
    BY <1>3, <1>4, <1>5 DEF Stat

LEMMA FinishScanKeeps == ASSUME IInv, FinishScan PROVE IInv'
  <1> USE DEF IInv
  <1>1. UNCHANGED <<card, shots, writing, idle>>
    BY DEF FinishScan, camera
  <1>2. obs' = [p \in Path |-> IF p \in scan.listed THEN obs[p] ELSE Unobserved]
    BY DEF FinishScan
  <1>3. \A p \in Path : obs'[p] = obs[p] \/ obs'[p] = Unobserved
    BY <1>2
  <1>4. Unobserved \in Observation /\ Unobserved.seen = None
    BY DEF Unobserved, Observation
  <1>5. obs' \in [Path -> Observation]
    BY <1>2, <1>4 DEF Shape
  <1>6. Shape' /\ CardInv'
    BY <1>1, <1>3, <1>4, <1>5, ObservedKeeps
  <1> DEFINE said == UNION {Found(g) : g \in {k \in AllSettled : ~Held(k)}}
  <1>7. scan' = [NoScan EXCEPT !.at = "ingested", !.ready = said]
    BY DEF FinishScan
  <1>8. \A in \in said : in.seen \in Finished
    <2>1. \A g \in scan.groups : \A in \in Found(g) : in.seen \in Finished
      BY ReportedSeen DEF Found, ScanInv, Shape
    <2> QED
      BY <2>1 DEF AllSettled
  <1> HIDE DEF said
  <1>9. ScanInv'
    BY <1>7, <1>8 DEF NoScan, ScanInv, WholeFilesOnly
  <1> QED
    BY <1>6, <1>9

(***************************************************************************)
(* The rest of the loop, the volume, and a restart.                        *)
(***************************************************************************)

LEMMA BeginIngestKeeps == ASSUME IInv, BeginIngest PROVE IInv'
  <1>1. Shape' /\ CardInv'
    BY CardKeeps DEF BeginIngest
  <1> DEFINE there == {p \in Path : card[p] # None}
  <1>2. \/ scan' = [NoScan EXCEPT !.at = "stat", !.listed = there, !.todo = there]
        \/ scan' = [NoScan EXCEPT !.at = "ingested"]
    BY DEF BeginIngest
  <1> HIDE DEF there
  <1>3. ScanInv'
    BY <1>2 DEF NoScan, ScanInv, WholeFilesOnly
  <1> QED
    BY <1>1, <1>3 DEF IInv

LEMMA ScanUntouched == ASSUME IInv, UNCHANGED <<camera, obs>>, scan' = scan PROVE IInv'
  <1>1. Shape' /\ CardInv'
    BY CardKeeps
  <1>2. ScanInv'
    BY DEF IInv, ScanInv, WholeFilesOnly
  <1> QED
    BY <1>1, <1>2 DEF IInv

LEMMA ScanForgotten == ASSUME IInv, UNCHANGED <<camera, obs>>, scan' = NoScan PROVE IInv'
  <1>1. Shape' /\ CardInv'
    BY CardKeeps
  <1>2. ScanInv'
    BY DEF NoScan, ScanInv, WholeFilesOnly
  <1> QED
    BY <1>1, <1>2 DEF IInv

LEMMA EmitKeeps == ASSUME IInv, NEW in \in scan.ready, Emit(in) PROVE IInv'
  <1>1. UNCHANGED <<camera, obs>>
    BY DEF Emit
  <1>2. Shape' /\ CardInv'
    BY <1>1, CardKeeps
  <1>3. scan' = [scan EXCEPT !.ready = scan.ready \ {in}]
    BY DEF Emit
  <1>4. ScanInv'
    BY <1>3 DEF IInv, ScanInv, WholeFilesOnly
  <1> QED
    BY <1>2, <1>4 DEF IInv

LEMMA RestartKeeps == ASSUME IInv, Restart PROVE IInv'
  <1>1. UNCHANGED <<card, shots, writing, idle>> /\ obs' = NoObs /\ scan' = NoScan
    BY DEF Restart, camera
  <1>2. obs' \in [Path -> Observation] /\ \A p \in Path : obs'[p].seen = None
    BY <1>1 DEF NoObs, Unobserved, Observation
  <1>3. Shape' /\ CardInv'
    BY <1>1, <1>2, ObservedKeeps
  <1>4. ScanInv'
    BY <1>1 DEF NoScan, ScanInv, WholeFilesOnly
  <1> QED
    BY <1>3, <1>4 DEF IInv

LEMMA NextIInv == ASSUME IInv, [Next]_vars PROVE IInv'
  <1>1. CASE \E p \in Path : Camera(p)
    BY <1>1, CameraKeeps
  <1>2. CASE Tick
    BY <1>2, TickKeeps
  <1>3. CASE Ingest
    <2>1. CASE DrainEnds
      <3>1. UNCHANGED <<camera, obs>> /\ scan' = NoScan
        BY <2>1 DEF DrainEnds
      <3> QED
        BY <3>1, ScanForgotten
    <2> QED
      BY <1>3, <2>1, BeginIngestKeeps, StatKeeps, FinishScanKeeps, EmitKeeps DEF Ingest
  <1>4. CASE EmitFails
    <2>1. UNCHANGED <<camera, obs>> /\ scan' = NoScan
      BY <1>4 DEF EmitFails
    <2> QED
      BY <2>1, ScanForgotten
  <1>5. CASE \E r \in Row : Drain(r)
    <2>1. UNCHANGED <<camera, obs>> /\ scan' = scan
      BY <1>5 DEF Drain, memory
    <2> QED
      BY <2>1, ScanUntouched
  <1>6. CASE VolumeChanges \/ VolumeFreed
    <2>1. UNCHANGED <<camera, obs>> /\ scan' = scan
      BY <1>6 DEF VolumeChanges, VolumeFreed, memory
    <2> QED
      BY <2>1, ScanUntouched
  <1>7. CASE Restart
    BY <1>7, RestartKeeps
  <1>8. CASE UNCHANGED vars
    <2>1. UNCHANGED <<camera, obs>> /\ scan' = scan
      BY <1>8 DEF vars, memory
    <2> QED
      BY <2>1, ScanUntouched
  <1> QED
    BY <1>1, <1>2, <1>3, <1>4, <1>5, <1>6, <1>7, <1>8 DEF Next

\* No scan ever reports a file the camera is still writing: a file that has
\* looked the same at two stats a quiet period apart is finished, whichever
\* writes fell between the list, the stats and the report (scanner.js:36-37).
THEOREM WatchWholeFilesOnly == Spec => []WholeFilesOnly
  <1>1. IInv => WholeFilesOnly
    BY DEF IInv, ScanInv
  <1> QED
    BY <1>1, InitIInv, NextIInv, PTL DEF Spec

(***************************************************************************)
(* TypeOK, with what a row needs for it: whoever is in the table has a     *)
(* master, whose bytes on the card it may take over.                       *)
(***************************************************************************)

Mastered == \A r \in Row : rows[r].state # "absent" => rows[r].master \in Path

ScanTyped ==
    scan \in [ at : {"rest", "stat", "ingested"},
               listed : SUBSET Path, todo : SUBSET Path, groups : SUBSET Group,
               stable : [Path -> Content \cup {None}],
               pending : SUBSET Group, ready : SUBSET Report ]

CardTyped ==
    /\ card \in [Path -> Content \cup {None}]
    /\ shots \subseteq UNION Rolls
    /\ writing \in [Path -> Finished \cup {None}]
    /\ idle \in [Path -> 0..Quiet + PairLag]

MemoryTyped ==
    /\ obs \in [Path -> [seen : Content \cup {None}, age : 0..Quiet]]
    /\ settled \in [Group -> (0..Grace) \cup {None}]
    /\ gate \in [state : DiskState, age : 0..DiskCheck]

WorldTyped == volume \in Volumes /\ faults \in 0..MaxFaults

Typed == SpoolTypeOK /\ Mastered /\ CardTyped /\ MemoryTyped /\ ScanTyped /\ WorldTyped

LEMMA Bounds ==
    /\ PairLag \in Nat /\ Quiet \in Nat /\ Grace \in Nat /\ DiskCheck \in Nat /\ MaxFaults \in Nat
    /\ Quiet > 0
  BY WatchAssumption

LEMMA NoScanTyped == NoScan \in [ at : {"rest", "stat", "ingested"},
               listed : SUBSET Path, todo : SUBSET Path, groups : SUBSET Group,
               stable : [Path -> Content \cup {None}],
               pending : SUBSET Group, ready : SUBSET Report ]
  BY DEF NoScan

LEMMA NothingRemembered ==
    /\ NoObs \in [Path -> [seen : Content \cup {None}, age : 0..Quiet]]
    /\ NoGroups \in [Group -> (0..Grace) \cup {None}]
    /\ Unchecked \in [state : DiskState, age : 0..DiskCheck]
  BY Bounds DEF NoObs, NoGroups, Unchecked, Unobserved, DiskState

LEMMA InitTyped == Init => Typed
  <1> SUFFICES ASSUME Init PROVE Typed
    OBVIOUS
  <1>1. AbsentRow \in CaptureRow /\ AbsentRow.state = "absent"
    BY SpoolAssumption DEF AbsentRow, CaptureRow
  <1>2. SpoolTypeOK /\ Mastered
    BY <1>1 DEF Init, SpoolInit, SpoolTypeOK, Mastered
  <1>3. CardTyped
    BY Bounds DEF Init, CardTyped
  <1>4. MemoryTyped /\ ScanTyped
    BY NothingRemembered, NoScanTyped DEF Init, MemoryTyped, ScanTyped
  <1>5. WorldTyped
    BY Bounds DEF Init, WorldTyped
  <1> QED
    BY <1>2, <1>3, <1>4, <1>5 DEF Typed

\* The table as a step may leave it.
LEMMA RowsKeep ==
    ASSUME Typed, UNCHANGED spoolVars
    PROVE  SpoolTypeOK' /\ Mastered'
  BY DEF Typed, spoolVars, SpoolTypeOK, Mastered

LEMMA CardStays ==
    ASSUME Typed, UNCHANGED camera
    PROVE  CardTyped'
  BY DEF Typed, camera, CardTyped

LEMMA CameraTyped == ASSUME Typed, NEW p \in Path, Camera(p) PROVE Typed'
  <1>1. UNCHANGED spoolVars /\ UNCHANGED <<obs, settled, scan, gate>> /\ UNCHANGED <<volume, faults>>
        /\ idle' = [idle EXCEPT ![p] = 0]
    BY DEF Camera, memory
  <1>2. idle' \in [Path -> 0..Quiet + PairLag]
    BY <1>1, Bounds DEF Typed, CardTyped
  <1>3. ASSUME \E c \in Finished \cup {None} : BeginsWrite(p, c) PROVE CardTyped'
    <2>1. PICK c \in Finished \cup {None} : BeginsWrite(p, c)
      BY <1>3
    <2>2. (IF c = None THEN None ELSE Part(c, 1)) \in Content \cup {None}
      BY PartFacts
    <2> QED
      BY <1>2, <2>1, <2>2 DEF BeginsWrite, Typed, CardTyped
  <1>4. ASSUME ContinuesWrite(p) PROVE CardTyped'
    <2>1. Part(writing[p], 2) \in Content
      BY <1>4, PartFacts DEF ContinuesWrite, Typed, CardTyped
    <2> QED
      BY <1>2, <1>4, <2>1 DEF ContinuesWrite, Typed, CardTyped
  <1>5. ASSUME EndsWrite(p) PROVE CardTyped'
    <2>1. writing[p] \in Content
      BY <1>5, PartFacts DEF EndsWrite, Typed, CardTyped
    <2> QED
      BY <1>2, <1>5, <2>1 DEF EndsWrite, Typed, CardTyped
  <1>6. CardTyped'
    BY <1>2, <1>3, <1>4, <1>5 DEF Camera, CardTyped
  <1> QED
    BY <1>1, <1>6, RowsKeep DEF Typed, MemoryTyped, ScanTyped, WorldTyped

LEMMA OlderBounded ==
    ASSUME NEW bound \in Nat, NEW n \in 0..bound
    PROVE  Older(n, bound) \in 0..bound
  BY DEF Older

LEMMA TickTyped == ASSUME Typed, Tick PROVE Typed'
  <1>1. UNCHANGED <<spoolVars, card, shots, writing, scan, volume, faults>>
    BY DEF Tick
  <1>2. idle' \in [Path -> 0..Quiet + PairLag]
    <2> SUFFICES ASSUME NEW p \in Path
                 PROVE  (IF writing[p] # None \/ RawDue(p) THEN idle[p] + 1 ELSE 0)
                          \in 0..Quiet + PairLag
      BY DEF Tick
    <2>1. idle[p] \in Nat
      BY Bounds DEF Typed, CardTyped
    <2>2. /\ writing[p] # None => idle[p] + 1 < Quiet
          /\ RawDue(p) => idle[p] < PairLag
      BY DEF Tick, CameraIsPrompt
    <2> QED
      BY <2>1, <2>2, Bounds
  <1>3. obs' \in [Path -> [seen : Content \cup {None}, age : 0..Quiet]]
    <2>1. ASSUME NEW p \in Path
          PROVE  (IF obs[p].seen = None THEN obs[p]
                  ELSE [obs[p] EXCEPT !.age = Older(obs[p].age, Quiet)])
                    \in [seen : Content \cup {None}, age : 0..Quiet]
      <3>1. obs[p] \in [seen : Content \cup {None}, age : 0..Quiet]
        BY DEF Typed, MemoryTyped
      <3>2. Older(obs[p].age, Quiet) \in 0..Quiet
        BY <3>1, OlderBounded, Bounds
      <3> QED
        BY <3>1, <3>2
    <2> QED
      BY <2>1 DEF Tick
  <1>4. settled' \in [Group -> (0..Grace) \cup {None}]
    BY OlderBounded, Bounds DEF Tick, Typed, MemoryTyped
  <1>5. gate' \in [state : DiskState, age : 0..DiskCheck]
    <2>1. Older(gate.age, DiskCheck) \in 0..DiskCheck
      BY OlderBounded, Bounds DEF Typed, MemoryTyped
    <2> QED
      BY <2>1 DEF Tick, Typed, MemoryTyped
  <1>6. CardTyped' /\ MemoryTyped'
    BY <1>1, <1>2, <1>3, <1>4, <1>5 DEF Typed, CardTyped, MemoryTyped
  <1> QED
    BY <1>1, <1>6, RowsKeep DEF Typed, ScanTyped, WorldTyped

LEMMA FaultTyped == ASSUME Typed, Fault PROVE faults' \in 0..MaxFaults
  BY Bounds DEF Fault, Typed, WorldTyped

LEMMA VolumeTyped == ASSUME Typed, VolumeChanges \/ VolumeFreed PROVE Typed'
  <1>1. UNCHANGED spoolVars /\ UNCHANGED camera /\ UNCHANGED <<obs, settled, scan, gate>>
    BY DEF VolumeChanges, VolumeFreed, memory
  <1>2. WorldTyped'
    BY FaultTyped, WatchAssumption DEF VolumeChanges, VolumeFreed, Typed, WorldTyped
  <1> QED
    BY <1>1, <1>2, RowsKeep, CardStays DEF Typed, MemoryTyped, ScanTyped

LEMMA RestartTyped == ASSUME Typed, Restart PROVE Typed'
  <1>1. /\ UNCHANGED camera /\ volume' = volume /\ hwm' = hwm /\ rows' = Recover
        /\ obs' = NoObs /\ settled' = NoGroups /\ scan' = NoScan /\ gate' = Unchecked
    BY DEF Restart
  <1>2. \A r \in Row : Rewind(rows[r]) \in CaptureRow
    BY RowOperations DEF Typed, SpoolTypeOK
  <1>3. SpoolTypeOK'
    BY <1>1, <1>2 DEF Recover, Typed, SpoolTypeOK
  <1>4. Mastered'
    <2> SUFFICES ASSUME NEW r \in Row, rows'[r].state # "absent"
                 PROVE  rows'[r].master \in Path
      BY DEF Mastered
    <2>1. rows[r] \in CaptureRow /\ rows'[r] = Rewind(rows[r])
      BY <1>1 DEF Recover, Typed, SpoolTypeOK
    <2>2. Rewind(rows[r]).master = rows[r].master
      BY <2>1 DEF Rewind, CaptureRow
    <2>3. rows[r].state # "absent"
      BY <2>1 DEF Rewind, CaptureRow
    <2> QED
      BY <2>1, <2>2, <2>3 DEF Typed, Mastered
  <1>5. WorldTyped'
    BY <1>1, FaultTyped DEF Restart, Typed, WorldTyped
  <1>6. MemoryTyped' /\ ScanTyped'
    BY <1>1, NothingRemembered, NoScanTyped DEF MemoryTyped, ScanTyped
  <1> QED
    BY <1>1, <1>3, <1>4, <1>5, <1>6, CardStays DEF Typed

\* The disk gate and the scan.
LEMMA GateTyped == Typed => Checked \in [state : DiskState, age : 0..DiskCheck]
  <1> SUFFICES ASSUME Typed PROVE Checked \in [state : DiskState, age : 0..DiskCheck]
    OBVIOUS
  <1>1. CheckDisk(volume) \in DiskState
    BY DEF CheckDisk, DiskState, Reading
  <1> QED
    BY <1>1, Bounds DEF Checked, Typed, MemoryTyped

LEMMA BeginIngestTyped == ASSUME Typed, BeginIngest PROVE Typed'
  <1> DEFINE there == {p \in Path : card[p] # None}
  <1>1. /\ gate' = Checked
        /\ UNCHANGED spoolVars /\ UNCHANGED camera /\ UNCHANGED <<obs, settled, volume, faults>>
    BY DEF BeginIngest
  <1>2. \/ scan' = [NoScan EXCEPT !.at = "stat", !.listed = there, !.todo = there]
        \/ scan' = [NoScan EXCEPT !.at = "ingested"]
    BY DEF BeginIngest
  <1>3. there \in SUBSET Path
    OBVIOUS
  <1> HIDE DEF there
  <1>4. ScanTyped'
    BY <1>2, <1>3 DEF ScanTyped, NoScan
  <1> QED
    BY <1>1, <1>4, GateTyped, RowsKeep, CardStays DEF Typed, MemoryTyped, WorldTyped

LEMMA StatTyped == ASSUME Typed, NEW p \in Path, Stat(p) PROVE Typed'
  <1>1. UNCHANGED spoolVars /\ UNCHANGED camera /\ UNCHANGED <<settled, gate, volume, faults>>
    BY DEF Stat
  <1>2. p[1] \in Group /\ card[p] \in Content \cup {None}
    BY PathType DEF Typed, CardTyped
  <1>3. CASE StatGone(p)
    <2>1. ScanTyped'
      BY <1>3 DEF StatGone, Typed, ScanTyped
    <2> QED
      BY <1>1, <1>3, <2>1, RowsKeep, CardStays DEF StatGone, Typed, MemoryTyped, WorldTyped
  <1>4. CASE StatChanged(p)
    <2>1. obs' = [obs EXCEPT ![p] = [seen |-> card[p], age |-> 0]]
      BY <1>4 DEF StatChanged
    <2>2. MemoryTyped'
      BY <1>1, <1>2, <2>1, Bounds DEF Typed, MemoryTyped
    <2>3. scan' = [scan EXCEPT !.todo = scan.todo \ {p}, !.groups = scan.groups \cup {p[1]},
                               !.pending = scan.pending \cup {p[1]}]
      BY <1>4 DEF StatChanged, Statted, Typed, ScanTyped
    <2>4. ScanTyped'
      BY <1>2, <2>3 DEF Typed, ScanTyped
    <2> QED
      BY <1>1, <2>2, <2>4, RowsKeep, CardStays DEF Typed, WorldTyped
  <1>5. CASE StatSame(p)
    <2>1. ASSUME obs[p].age >= Quiet PROVE ScanTyped'
      <3>1. scan' = [scan EXCEPT !.todo = scan.todo \ {p}, !.groups = scan.groups \cup {p[1]},
                                 !.stable = [scan.stable EXCEPT ![p] = card[p]]]
        BY <1>5, <2>1 DEF StatSame, Statted, Typed, ScanTyped
      <3>2. [scan.stable EXCEPT ![p] = card[p]] \in [Path -> Content \cup {None}]
        BY <1>2 DEF Typed, ScanTyped
      <3> QED
        BY <1>2, <3>1, <3>2 DEF Typed, ScanTyped
    <2>2. ASSUME ~(obs[p].age >= Quiet) PROVE ScanTyped'
      <3>1. scan' = [scan EXCEPT !.todo = scan.todo \ {p}, !.groups = scan.groups \cup {p[1]},
                                 !.pending = scan.pending \cup {p[1]}]
        BY <1>5, <2>2 DEF StatSame, Statted, Typed, ScanTyped
      <3> QED
        BY <1>2, <3>1 DEF Typed, ScanTyped
    <2>3. ScanTyped'
      BY <2>1, <2>2
    <2> QED
      BY <1>1, <1>5, <2>3, RowsKeep, CardStays DEF StatSame, Typed, MemoryTyped, WorldTyped
  <1> QED
    BY <1>3, <1>4, <1>5 DEF Stat

LEMMA FinishScanTyped == ASSUME Typed, FinishScan PROVE Typed'
  <1> DEFINE said == UNION {Found(g) : g \in {k \in AllSettled : ~Held(k)}}
  <1>1. UNCHANGED spoolVars /\ UNCHANGED camera /\ UNCHANGED <<gate, volume, faults>>
    BY DEF FinishScan
  <1>2. said \subseteq Report
    <2> SUFFICES ASSUME NEW g \in AllSettled, NEW in \in Found(g)
                 PROVE  in \in Report
      OBVIOUS
    <2>1. g \in Group /\ scan.stable \in [Path -> Content \cup {None}]
      BY DEF AllSettled, Typed, ScanTyped
    <2> QED
      BY <2>1, ReportedType DEF Found, Report
  <1>3. scan' = [NoScan EXCEPT !.at = "ingested", !.ready = said]
    BY DEF FinishScan
  <1> HIDE DEF said
  <1>4. ScanTyped'
    BY <1>2, <1>3 DEF ScanTyped, NoScan
  <1>5. obs' \in [Path -> [seen : Content \cup {None}, age : 0..Quiet]]
    BY Bounds DEF FinishScan, Typed, MemoryTyped, Unobserved
  <1>6. settled' \in [Group -> (0..Grace) \cup {None}]
    <2>1. \A g \in Group : SettledFor(g) \in 0..Grace
      BY Bounds DEF SettledFor, Typed, MemoryTyped
    <2> QED
      BY <2>1 DEF FinishScan, Typed, MemoryTyped
  <1> QED
    BY <1>1, <1>4, <1>5, <1>6, RowsKeep, CardStays DEF Typed, MemoryTyped, WorldTyped

\* A report is discovered.
LEMMA InsertMastered ==
    ASSUME NEW table \in [Row -> CaptureRow],
           \A r \in Row : table[r].state # "absent" => table[r].master \in Path,
           NEW in, in.master \in Path, NEW key, NEW preview,
           Insert(table, in, key, preview)
    PROVE  Mastered'
  <1>1. FreshRow(in, key, preview, hwm + 1).master = in.master
    BY DEF FreshRow, AbsentRow
  <1>2. rows' = [table EXCEPT ![FreeId] = FreshRow(in, key, preview, hwm + 1)]
    BY DEF Insert
  <1> QED
    BY <1>1, <1>2 DEF Mastered

LEMMA DiscoverMastered ==
    ASSUME Typed, NEW in, in.master \in Path, SpoolDiscover(in)
    PROVE  Mastered'
  <1>0. rows \in [Row -> CaptureRow] /\ Mastered
    BY DEF Typed, SpoolTypeOK
  <1>1. CASE DiscoverNew(in)
    BY <1>0, <1>1, InsertMastered DEF DiscoverNew, Mastered
  <1>2. ASSUME NEW r \in Row, ReconcileUpgrade(r, in) PROVE Mastered'
    <2> DEFINE row == UpgradeMasterToRaw(rows[r], in.master,
                                         OrElse(in.preview, rows[r].preview), in.seen)
    <2>1. row.master = in.master
      BY <1>0 DEF UpgradeMasterToRaw, HashAgain, CaptureRow
    <2>2. rows' = [rows EXCEPT ![r] = row]
      BY <1>2 DEF ReconcileUpgrade
    <2> HIDE DEF row
    <2> QED
      BY <1>0, <2>1, <2>2 DEF Mastered
  <1>3. ASSUME NEW r \in Row, ReconcileOwnRow(r, in) PROVE Mastered'
    BY <1>0, <1>3, InsertMastered DEF ReconcileOwnRow, Mastered
  <1>4. ASSUME NEW r \in Row, ReconcilePreview(r, in) PROVE Mastered'
    <2> DEFINE row == AttachPreview(rows[r], in.preview)
    <2>1. row.master = rows[r].master
      BY <1>0 DEF AttachPreview, CaptureRow
    <2>2. rows' = [rows EXCEPT ![r] = row] /\ rows[r].state # "absent"
      BY <1>4 DEF ReconcilePreview, PreAnnounced
    <2> HIDE DEF row
    <2> QED
      BY <1>0, <2>1, <2>2 DEF Mastered
  <1>5. ASSUME NEW r \in Row, ReconcileReuse(r, in) PROVE Mastered'
    <2> DEFINE table == [rows EXCEPT ![r].key = None]
    <2>1. table \in [Row -> CaptureRow]
      BY <1>0 DEF CaptureRow
    <2>2. \A s \in Row : table[s].state # "absent" => table[s].master \in Path
      BY <1>0 DEF Mastered, CaptureRow
    <2>3. Insert(table, in, in.key, in.preview)
      BY <1>5 DEF ReconcileReuse
    <2> HIDE DEF table
    <2> QED
      BY <2>1, <2>2, <2>3, InsertMastered
  <1> QED
    BY <1>1, <1>2, <1>3, <1>4, <1>5 DEF SpoolDiscover

LEMMA EmitTyped == ASSUME Typed, NEW in \in scan.ready, Emit(in) PROVE Typed'
  <1>1. UNCHANGED camera /\ UNCHANGED <<obs, settled, gate, volume, faults>>
        /\ scan' = [scan EXCEPT !.ready = scan.ready \ {in}]
    BY DEF Emit
  <1>2. in \in Report
    BY DEF Typed, ScanTyped
  <1>3. /\ in.master \in Path /\ in.seen \in Content /\ in.key \in Key
        /\ in.preview \in Path \cup {None} /\ (in.hasRaw => in.master \in Key)
    BY <1>2 DEF Report, Key
  <1>4. SpoolTypeOK' /\ Mastered'
    <2>1. CASE SpoolDiscover(in)
      BY <1>3, <2>1, SpoolDiscoverType, DiscoverMastered DEF Typed
    <2>2. CASE UNCHANGED spoolVars
      BY <2>2, RowsKeep
    <2> QED
      BY <2>1, <2>2 DEF Emit
  <1>5. ScanTyped'
    BY <1>1 DEF Typed, ScanTyped
  <1> QED
    BY <1>1, <1>4, <1>5, CardStays DEF Typed, MemoryTyped, WorldTyped

\* The drain writes one row, and leaves it a master.
LEMMA RowDrained ==
    ASSUME Typed, NEW r \in Row, NEW row \in CaptureRow, row.master \in Path,
           rows' = [rows EXCEPT ![r] = row], hwm' = hwm
    PROVE  SpoolTypeOK' /\ Mastered'
  BY DEF Typed, SpoolTypeOK, Mastered

\* The RAW beside a file is one of its stem.
LEMMA SiblingIs ==
    ASSUME NEW p, SiblingOf(p) # None
    PROVE  /\ p \in Path /\ IsJpeg(p)
           /\ SiblingOf(p) \in Path /\ SiblingOf(p) \in Raws(p[1])
           /\ card[SiblingOf(p)] # None
  <1>1. IsJpeg(p) /\ SiblingOf(p) = RawBeside(p[1], card)
    BY DEF SiblingOf
  <1>2. p \in Path /\ p[1] \in Group
    BY <1>1 DEF IsJpeg, Path
  <1> QED
    BY <1>1, <1>2, RawBesideIs

LEMMA DrainTyped == ASSUME Typed, NEW r \in Row, Drain(r) PROVE Typed'
  <1>1. hwm' = hwm /\ UNCHANGED camera /\ UNCHANGED <<obs, settled, scan, gate, volume, faults>>
    BY DEF Drain, memory
  <1>2. rows[r] \in CaptureRow /\ (rows[r].state # "absent" => rows[r].master \in Path)
    BY DEF Typed, SpoolTypeOK, Mastered
  <1>3. \A p \in Path : card[p] \in Content \cup {None}
    BY DEF Typed, CardTyped
  <1>4. {"queued", "complete"} \subseteq RowState
    BY DEF RowState, Working, Terminal
  <1>5. ASSUME NEW jpeg \in Path, DrainUpgrades(r, jpeg) PROVE SpoolTypeOK' /\ Mastered'
    <2> DEFINE row == UpgradeMasterToRaw(rows[r], SiblingOf(jpeg),
                                         OrElse(rows[r].preview, jpeg), card[SiblingOf(jpeg)])
    <2>1. SiblingOf(jpeg) \in Path /\ OrElse(rows[r].preview, jpeg) \in Path \cup {None}
      BY <1>2, <1>5, SiblingIs DEF OrElse, CaptureRow, DrainUpgrades
    <2>2. card[SiblingOf(jpeg)] \in Content \cup {None}
      BY <1>3, <2>1
    <2>3. row \in CaptureRow
      BY <1>2, <2>1, <2>2, UpgradeType
    <2>4. row.master = SiblingOf(jpeg)
      BY <1>2 DEF UpgradeMasterToRaw, HashAgain, CaptureRow
    <2>5. rows' = [rows EXCEPT ![r] = row]
      BY <1>5 DEF DrainUpgrades
    <2> HIDE DEF row
    <2> QED
      BY <1>1, <2>1, <2>3, <2>4, <2>5, RowDrained
  <1>6. ASSUME DrainHashes(r) PROVE SpoolTypeOK' /\ Mastered'
    <2> DEFINE row == [rows[r] EXCEPT !.state = "queued", !.observed = card[rows[r].master],
                                      !.content = card[rows[r].master]]
    <2>1. rows[r].master \in Path
      BY <1>2, <1>6 DEF DrainHashes
    <2>2. row \in CaptureRow /\ row.master = rows[r].master
      BY <1>2, <1>3, <1>4, <2>1 DEF CaptureRow
    <2>3. rows' = [rows EXCEPT ![r] = row]
      BY <1>6 DEF DrainHashes, Typed, SpoolTypeOK
    <2> HIDE DEF row
    <2> QED
      BY <1>1, <2>1, <2>2, <2>3, RowDrained
  <1>7. ASSUME DrainCompletes(r) PROVE SpoolTypeOK' /\ Mastered'
    <2> DEFINE row == [rows[r] EXCEPT !.state = "complete"]
    <2>1. rows[r].master \in Path
      BY <1>2, <1>7 DEF DrainCompletes
    <2>2. row \in CaptureRow /\ row.master = rows[r].master
      BY <1>2, <1>4, <2>1 DEF CaptureRow
    <2>3. rows' = [rows EXCEPT ![r] = row]
      BY <1>7 DEF DrainCompletes, Typed, SpoolTypeOK
    <2> HIDE DEF row
    <2> QED
      BY <1>1, <2>1, <2>2, <2>3, RowDrained
  <1>8. ASSUME DrainReleases(r) PROVE SpoolTypeOK' /\ Mastered'
    <2> DEFINE why == IF card[rows[r].master] = None THEN "source_vanished"
                      ELSE "content_changed_after_announce"
               row == RejectAndRelease(rows[r], why)
    <2>1. rows[r].master \in Path
      BY <1>2, <1>8 DEF DrainReleases
    <2>2. why \in Reason
      BY DEF Reason
    <2>3. row \in CaptureRow
      BY <1>2, <2>2, RowOperations
    <2>4. row.master = rows[r].master
      BY <1>2 DEF RejectAndRelease, CaptureRow
    <2>5. rows' = [rows EXCEPT ![r] = row]
      BY <1>8 DEF DrainReleases
    <2> HIDE DEF row
    <2> QED
      BY <1>1, <2>1, <2>3, <2>4, <2>5, RowDrained
  <1>9. SpoolTypeOK' /\ Mastered'
    BY <1>5, <1>6, <1>7, <1>8 DEF Drain
  <1> QED
    BY <1>1, <1>9, CardStays DEF Typed, MemoryTyped, ScanTyped, WorldTyped

LEMMA ScanDropped ==
    ASSUME Typed, EmitFails \/ DrainEnds
    PROVE  Typed'
  <1>1. /\ UNCHANGED spoolVars /\ UNCHANGED camera /\ scan' = NoScan
        /\ UNCHANGED <<obs, settled, gate, volume, faults>>
    BY DEF EmitFails, DrainEnds
  <1> QED
    BY <1>1, NoScanTyped, RowsKeep, CardStays DEF Typed, MemoryTyped, ScanTyped, WorldTyped

LEMMA NextTyped == Typed /\ [Next]_vars => Typed'
  <1> SUFFICES ASSUME Typed, [Next]_vars PROVE Typed'
    OBVIOUS
  <1>1. CASE Ingest
    BY <1>1, BeginIngestTyped, StatTyped, FinishScanTyped, EmitTyped, ScanDropped DEF Ingest
  <1>2. CASE UNCHANGED vars
    <2>1. /\ UNCHANGED spoolVars /\ UNCHANGED camera
          /\ UNCHANGED <<obs, settled, scan, gate, volume, faults>>
      BY <1>2 DEF vars, memory
    <2> QED
      BY <2>1, RowsKeep, CardStays DEF Typed, MemoryTyped, ScanTyped, WorldTyped
  <1> QED
    BY <1>1, <1>2, CameraTyped, TickTyped, ScanDropped, DrainTyped, VolumeTyped, RestartTyped
       DEF Next

\* Every reachable state of any camera, card and volume is well typed: in
\* particular no age, grace or pause outgrows its bound, and each row in the
\* table has a master that is a path (scanner.js, spool.js, bridge.js:66-81).
THEOREM WatchTypeCorrect == Spec => []TypeOK
  <1>1. Typed => TypeOK
    BY DEF Typed, TypeOK, CardTyped, MemoryTyped, ScanTyped, WorldTyped
  <1>2. Init => Typed
    BY InitTyped
  <1>3. Typed /\ [Next]_vars => Typed'
    BY NextTyped
  <1> QED
    BY <1>1, <1>2, <1>3, PTL DEF Spec

(***************************************************************************)
(* One press of the shutter, one capture.                                  *)
(***************************************************************************)

Second(g)    == <<g, "jpeg">>
Dng(g)       == <<g, "dng">>
RawToCome(g) == \E c \in Finished : <<Raw(g), c>> \in shots
RawBegun(g)  == card[Raw(g)] # None
Paired(g)    == RawToCome(g) \/ RawBegun(g)

\* Of a pair, nothing is written twice or erased, or under another suffix.
PairWritten(g) ==
    /\ card[Second(g)] = None /\ card[Dng(g)] = None
    /\ \A c \in Finished \cup {None} :
          <<Second(g), c>> \notin shots /\ <<Dng(g), c>> \notin shots
    /\ <<Jpeg(g), None>> \notin shots /\ <<Raw(g), None>> \notin shots
    /\ \A c, d \in Finished : <<Raw(g), c>> \in shots /\ <<Raw(g), d>> \in shots => c = d
    /\ \A c, d \in Finished : <<Jpeg(g), c>> \in shots /\ <<Jpeg(g), d>> \in shots => c = d
    /\ RawToCome(g) => card[Raw(g)] = None
    /\ \A c \in Finished : <<Jpeg(g), c>> \in shots => card[Jpeg(g)] = None

\* While the RAW is to come, whoever has waited on the JPEG has waited no
\* longer than the camera.
PairTimely(g) ==
    /\ idle[Raw(g)] <= PairLag
    /\ card[Jpeg(g)] \notin Finished => obs[Jpeg(g)].seen \notin Finished
    /\ card[Jpeg(g)] \in Finished /\ obs[Jpeg(g)].seen = card[Jpeg(g)]
         => obs[Jpeg(g)].age <= idle[Raw(g)]
    /\ scan.stable[Jpeg(g)] # None
         => card[Jpeg(g)] \in Finished /\ idle[Raw(g)] >= Quiet
    /\ settled[g] # None
         => card[Jpeg(g)] \in Finished /\ idle[Raw(g)] >= Quiet + settled[g]

\* What a scan holds of a pair's stem, ...
PairScanned(g) ==
    /\ scan.stable[Raw(g)] # None => RawBegun(g)
    /\ Paired(g) => scan.stable[Second(g)] = None /\ scan.stable[Dng(g)] = None

\* ... what is reported of it, ...
RawReport(in) == in.hasRaw => \E h \in Group : in.key = Stem(h) /\ in.master \in Raws(h)

PairReport(g, in) ==
    /\ in.key # Raw(g)
    /\ in.hasRaw /\ in.master = Raw(g) => RawBegun(g)
    /\ in.key = Stem(g) /\ Paired(g) => RawBegun(g) /\ in.master \in {Jpeg(g), Raw(g)}

\* ... and what the spool has of it: a row whose master is the JPEG has not
\* been announced before the RAW was begun.
PairRow(g, row) ==
    /\ row.key # Raw(g)
    /\ row.key = Stem(g) /\ Paired(g) =>
         /\ RawBegun(g)
         /\ row.master = Raw(g) \/ (row.master = Jpeg(g) /\ row.state = "discovered")

PairsWritten  == \A g \in Pairs : Paired(g) => PairWritten(g)
PairsTimely   == \A g \in Pairs : RawToCome(g) => PairTimely(g)
PairsScanned  == \A g \in Pairs : PairScanned(g)
PairsReported == \A in \in scan.ready : RawReport(in) /\ \A g \in Pairs : PairReport(g, in)
PairsSpooled  == \A r \in Row, g \in Pairs : PairRow(g, rows[r])

PairInv == PairsWritten /\ PairsTimely /\ PairsScanned /\ PairsReported /\ PairsSpooled

LEMMA PairPaths ==
    ASSUME NEW g \in Pairs
    PROVE  /\ g \in Group
           /\ Jpeg(g) \in Path /\ Raw(g) \in Path /\ Second(g) \in Path /\ Dng(g) \in Path
           /\ Jpeg(g) # Raw(g) /\ Jpeg(g) # Second(g) /\ Raw(g) # Second(g)
           /\ Dng(g) \notin {Jpeg(g), Raw(g), Second(g)}
           /\ Stem(g) # Raw(g) /\ Stem(g) # None /\ Raw(g) # None
           /\ Raw(g)[1] = g /\ Jpeg(g)[1] = g /\ Second(g)[1] = g /\ Dng(g)[1] = g
           /\ Jpegs(g) = {Jpeg(g), Second(g)} /\ Raws(g) = {Raw(g), Dng(g)}
           /\ IsJpeg(Jpeg(g)) /\ ~IsJpeg(Raw(g))
  <1>1. g \in Group
    BY WatchAssumption
  <1>2. /\ Jpeg(g) \in Path /\ Raw(g) \in Path /\ Second(g) \in Path /\ Dng(g) \in Path
        /\ Stem(g) \in Key
    BY <1>1 DEF Jpeg, Raw, Second, Dng, Path, Stem, Key
  <1> QED
    BY <1>1, <1>2, SpoolAssumption DEF Jpeg, Raw, Second, Dng, Stem, Jpegs, Raws, IsJpeg

LEMMA InitPairs == ASSUME PairsAreWhole, Init PROVE PairInv
  <1>1. shots \in Rolls /\ shots \subseteq Path \X (Finished \cup {None})
    BY WatchAssumption DEF Init
  <1>2. ASSUME NEW g \in Pairs PROVE /\ ~RawBegun(g) /\ card[Jpeg(g)] = None
                                       /\ card[Second(g)] = None /\ card[Dng(g)] = None
    BY <1>2, PairPaths DEF Init, RawBegun
  <1>3. PairsWritten
    <2> SUFFICES ASSUME NEW g \in Pairs, RawToCome(g) PROVE PairWritten(g)
      BY <1>2 DEF PairsWritten, Paired
    <2>1. PICK a \in Finished, b \in Finished :
            {s \in shots : s[1][1] = g} \subseteq {<<Jpeg(g), a>>, <<Raw(g), b>>}
      BY <1>1 DEF PairsAreWhole, RawToCome
    <2>2. \A p \in Path, c \in Finished \cup {None} :
            p[1] = g /\ <<p, c>> \in shots => <<p, c>> \in {<<Jpeg(g), a>>, <<Raw(g), b>>}
      BY <2>1
    <2>3. None \notin Finished
      BY PartFacts
    <2>4. \A c \in Finished \cup {None} : /\ <<Second(g), c>> \notin shots
                                          /\ <<Dng(g), c>> \notin shots
                                          /\ <<Jpeg(g), c>> \in shots => c = a
                                          /\ <<Raw(g), c>> \in shots => c = b
      BY <2>2, PairPaths
    <2> QED
      BY <1>2, <2>3, <2>4 DEF PairWritten, RawBegun
  <1>4. PairsTimely
    <2> SUFFICES ASSUME NEW g \in Pairs PROVE PairTimely(g)
      BY DEF PairsTimely
    <2>1. /\ idle[Raw(g)] = 0 /\ obs[Jpeg(g)].seen = None
          /\ scan.stable[Jpeg(g)] = None /\ settled[g] = None
      BY PairPaths DEF Init, NoObs, Unobserved, NoScan, NoGroups
    <2> QED
      BY <1>2, <2>1, PartFacts, Bounds DEF PairTimely
  <1>5. PairsScanned
    BY PairPaths DEF Init, NoScan, PairsScanned, PairScanned
  <1>6. PairsReported
    BY DEF Init, NoScan, PairsReported
  <1>7. PairsSpooled
    BY PairPaths DEF Init, SpoolInit, AbsentRow, PairsSpooled, PairRow
  <1> QED
    BY <1>3, <1>4, <1>5, <1>6, <1>7 DEF PairInv

(***************************************************************************)
(* The camera: a pair stays one, and its RAW stays on the card.            *)
(***************************************************************************)

LEMMA CameraSteps ==
    ASSUME IInv, NEW p \in Path, Camera(p)
    PROVE  \/ \E c \in Finished : /\ <<p, c>> \in shots /\ shots' = shots \ {<<p, c>>}
                                  /\ writing[p] = None
                                  /\ card' = [card EXCEPT ![p] = Part(c, 1)]
           \/ /\ <<p, None>> \in shots /\ shots' \subseteq shots
              /\ card' = [card EXCEPT ![p] = None]
           \/ /\ card[p] # None /\ card[p] \notin Finished /\ shots' = shots
              /\ \E x \in Content : card' = [card EXCEPT ![p] = x]
  <1>1. CASE \E c \in Finished \cup {None} : BeginsWrite(p, c)
    <2>1. PICK c \in Finished \cup {None} : BeginsWrite(p, c)
      BY <1>1
    <2>2. c # None => c \in Finished
      OBVIOUS
    <2> QED
      BY <2>1, <2>2 DEF BeginsWrite
  <1>2. CASE ContinuesWrite(p) \/ EndsWrite(p)
    <2>1. /\ writing[p] \in Finished /\ shots' = shots
          /\ card[p] \in {Part(writing[p], 1), Part(writing[p], 2)}
          /\ \/ card' = [card EXCEPT ![p] = Part(writing[p], 2)]
             \/ card' = [card EXCEPT ![p] = writing[p]]
      BY <1>2 DEF ContinuesWrite, EndsWrite, IInv, Shape
    <2>2. /\ Part(writing[p], 2) \in Content /\ writing[p] \in Content
          /\ card[p] # None /\ card[p] \notin Finished
      BY <2>1, PartFacts
    <2> QED
      BY <2>1, <2>2
  <1> QED
    BY <1>1, <1>2 DEF Camera

LEMMA PairStays ==
    ASSUME IInv, PairsWritten, NEW p \in Path, Camera(p), NEW g \in Pairs
    PROVE  /\ Paired(g)' => Paired(g)
           /\ RawToCome(g)' => RawToCome(g)
           /\ RawBegun(g) => RawBegun(g)'
  <1>1. card \in [Path -> Content \cup {None}]
    BY DEF IInv, Shape
  <1>2. /\ \A c \in Finished : Part(c, 1) # None
        /\ None \notin Content /\ None \notin Finished
    BY PartFacts
  <1>3. Raw(g) \in Path
    BY PairPaths
  <1>4. RawToCome(g)' => RawToCome(g)
    BY CameraSteps DEF RawToCome
  <1>5. RawBegun(g) => RawBegun(g)'
    <2> SUFFICES ASSUME RawBegun(g) PROVE RawBegun(g)'
      OBVIOUS
    <2>1. <<Raw(g), None>> \notin shots
      BY DEF PairsWritten, Paired, PairWritten
    <2> QED
      BY <1>1, <1>2, <1>3, <2>1, CameraSteps DEF RawBegun
  <1>6. RawBegun(g)' => Paired(g)
    BY <1>1, <1>3, CameraSteps DEF RawBegun, RawToCome, Paired
  <1> QED
    BY <1>4, <1>5, <1>6 DEF Paired

LEMMA CameraWritten ==
    ASSUME IInv, PairsWritten, NEW p \in Path, Camera(p), NEW g \in Pairs, Paired(g)'
    PROVE  PairWritten(g)'
  <1>0. Paired(g) /\ PairWritten(g) /\ (RawToCome(g)' => RawToCome(g))
    BY PairStays DEF PairsWritten
  <1>1. card \in [Path -> Content \cup {None}] /\ shots' \subseteq shots
    BY CameraSteps DEF IInv, Shape
  <1>2. None \notin Content /\ None \notin Finished
    BY PartFacts
  <1>3. /\ Jpeg(g) \in Path /\ Raw(g) \in Path /\ Second(g) \in Path /\ Dng(g) \in Path
        /\ Jpeg(g) # Raw(g)
    BY PairPaths
  <1>4. card'[Second(g)] = None /\ card'[Dng(g)] = None
    <2>1. p # Second(g) /\ p # Dng(g)
      BY <1>0, CameraSteps DEF PairWritten
    <2> QED
      BY <1>0, <1>1, <1>3, <2>1, CameraSteps DEF PairWritten
  <1>5. RawToCome(g)' => card'[Raw(g)] = None
    <2> SUFFICES ASSUME RawToCome(g)' PROVE card'[Raw(g)] = None
      OBVIOUS
    <2>1. card[Raw(g)] = None
      BY <1>0 DEF PairWritten
    <2>2. p # Raw(g)
      <3> SUFFICES ASSUME p = Raw(g) PROVE FALSE
        OBVIOUS
      <3>1. PICK c \in Finished : <<p, c>> \in shots /\ shots' = shots \ {<<p, c>>}
        BY <1>0, <2>1, CameraSteps DEF PairWritten
      <3> QED
        BY <1>0, <3>1 DEF PairWritten, RawToCome
    <2> QED
      BY <1>1, <1>3, <2>1, <2>2, CameraSteps
  <1>6. ASSUME NEW c \in Finished, <<Jpeg(g), c>> \in shots' PROVE card'[Jpeg(g)] = None
    <2>1. card[Jpeg(g)] = None
      BY <1>0, <1>1, <1>6 DEF PairWritten
    <2>2. p # Jpeg(g)
      <3> SUFFICES ASSUME p = Jpeg(g) PROVE FALSE
        OBVIOUS
      <3>1. PICK d \in Finished : <<p, d>> \in shots /\ shots' = shots \ {<<p, d>>}
        BY <1>0, <2>1, CameraSteps DEF PairWritten
      <3> QED
        BY <1>0, <1>6, <3>1 DEF PairWritten
    <2> QED
      BY <1>1, <1>3, <2>1, <2>2, CameraSteps
  <1> QED
    BY <1>0, <1>1, <1>4, <1>5, <1>6 DEF PairWritten

LEMMA CameraTimely ==
    ASSUME IInv, Typed, PairsWritten, PairsTimely, NEW p \in Path, Camera(p),
           NEW g \in Pairs, RawToCome(g)'
    PROVE  PairTimely(g)'
  <1>0. /\ RawToCome(g) /\ PairWritten(g) /\ PairTimely(g)
        /\ card[Raw(g)] = None
    BY PairStays DEF PairsWritten, PairsTimely, Paired, PairWritten
  <1>1. card \in [Path -> Content \cup {None}] /\ idle \in [Path -> 0..Quiet + PairLag]
    BY DEF Typed, CardTyped
  <1>2. /\ idle' = [idle EXCEPT ![p] = 0] /\ obs' = obs /\ scan' = scan /\ settled' = settled
    BY DEF Camera, memory
  <1>3. /\ Jpeg(g) \in Path /\ Raw(g) \in Path /\ Jpeg(g) # Raw(g)
    BY PairPaths
  <1>4. p # Raw(g)
    <2> SUFFICES ASSUME p = Raw(g) PROVE FALSE
      OBVIOUS
    <2>1. PICK c \in Finished : <<p, c>> \in shots /\ shots' = shots \ {<<p, c>>}
      BY <1>0, CameraSteps DEF PairWritten
    <2> QED
      BY <1>0, <2>1 DEF PairWritten, RawToCome
  <1>5. idle'[Raw(g)] = idle[Raw(g)]
    BY <1>1, <1>2, <1>3, <1>4
  <1>6. CASE p # Jpeg(g)
    <2>1. card'[Jpeg(g)] = card[Jpeg(g)]
      BY <1>1, <1>3, <1>6, CameraSteps
    <2> QED
      BY <1>0, <1>2, <1>5, <2>1 DEF PairTimely
  <1>7. CASE p = Jpeg(g)
    <2>1. card[Jpeg(g)] \notin Finished
      <3>1. None \notin Finished
        BY PartFacts
      <3> QED
        BY <1>0, <1>7, <3>1, CameraSteps DEF PairWritten
    <2>2. obs[Jpeg(g)].seen \notin Finished /\ scan.stable[Jpeg(g)] = None /\ settled[g] = None
      BY <1>0, <2>1 DEF PairTimely
    <2> QED
      BY <1>0, <1>2, <1>5, <2>2 DEF PairTimely
  <1> QED
    BY <1>6, <1>7

\* What the memory and the spool say of a pair outlives every step that keeps
\* them, and keeps pairs pairs.
LEMMA SaidStays ==
    ASSUME PairInv, UNCHANGED <<rows, scan>>,
           \A g \in Pairs : (Paired(g)' => Paired(g)) /\ (RawBegun(g) => RawBegun(g)')
    PROVE  PairsScanned' /\ PairsReported' /\ PairsSpooled'
  <1>1. PairsScanned'
    BY DEF PairInv, PairsScanned, PairScanned
  <1>2. PairsReported'
    BY DEF PairInv, PairsReported, PairReport, RawReport
  <1>3. PairsSpooled'
    BY DEF PairInv, PairsSpooled, PairRow
  <1> QED
    BY <1>1, <1>2, <1>3

LEMMA CameraPairs ==
    ASSUME IInv, Typed, PairInv, NEW p \in Path, Camera(p)
    PROVE  PairInv'
  <1>1. PairsWritten' /\ PairsTimely'
    BY CameraWritten, CameraTimely DEF PairInv, PairsWritten, PairsTimely
  <1>2. UNCHANGED <<rows, scan>>
    BY DEF Camera, memory, spoolVars
  <1>3. \A g \in Pairs : (Paired(g)' => Paired(g)) /\ (RawBegun(g) => RawBegun(g)')
    BY PairStays DEF PairInv
  <1> QED
    BY <1>1, <1>2, <1>3, SaidStays DEF PairInv

(***************************************************************************)
(* Steps that leave the card alone.                                        *)
(***************************************************************************)

LEMMA CardPairs ==
    ASSUME UNCHANGED <<card, shots>>
    PROVE  /\ \A g \in Pairs : /\ Paired(g)' <=> Paired(g)
                               /\ RawToCome(g)' <=> RawToCome(g)
                               /\ RawBegun(g)' <=> RawBegun(g)
           /\ PairsWritten => PairsWritten'
  <1>1. \A g \in Pairs : /\ RawToCome(g)' <=> RawToCome(g)
                         /\ RawBegun(g)' <=> RawBegun(g)
    BY DEF RawToCome, RawBegun
  <1>2. \A g \in Pairs : Paired(g)' <=> Paired(g)
    BY <1>1 DEF Paired
  <1>3. ASSUME NEW g \in Pairs, PairWritten(g) PROVE PairWritten(g)'
    BY <1>1, <1>3 DEF PairWritten
  <1> QED
    BY <1>1, <1>2, <1>3 DEF PairsWritten

LEMMA TickPairs == ASSUME IInv, Typed, PairInv, Tick PROVE PairInv'
  <1>0. UNCHANGED <<rows, card, shots, scan>> /\ CameraIsPrompt
    BY DEF Tick, spoolVars
  <1>1. ASSUME NEW g \in Pairs, RawToCome(g) PROVE PairTimely(g)'
    <2>0. PairTimely(g) /\ PairWritten(g)
      BY <1>1 DEF PairInv, PairsTimely, PairsWritten, Paired
    <2>1. /\ Jpeg(g) \in Path /\ Raw(g) \in Path /\ g \in Group /\ Raw(g)[1] = g
      BY PairPaths
    <2>2. RawDue(Raw(g)) <=> card[Jpeg(g)] \in Finished
      BY <1>1, <2>1 DEF RawDue, RawToCome
    <2>3. writing[Raw(g)] = None
      <3>1. card[Raw(g)] = None /\ Written(Raw(g)) /\ writing[Raw(g)] \in Finished \cup {None}
        BY <1>1, <2>0, <2>1 DEF PairWritten, IInv, CardInv, Shape
      <3> QED
        BY <3>1, PartFacts DEF Written
    <2>4. idle'[Raw(g)] = IF RawDue(Raw(g)) THEN idle[Raw(g)] + 1 ELSE 0
      BY <2>1, <2>3 DEF Tick
    <2>5. RawDue(Raw(g)) => idle[Raw(g)] < PairLag
      BY <1>0, <2>1 DEF CameraIsPrompt
    <2>6. /\ idle[Raw(g)] \in Nat /\ obs[Jpeg(g)] \in [seen : Content \cup {None}, age : 0..Quiet]
          /\ settled[g] \in (0..Grace) \cup {None}
      BY <2>1, Bounds DEF Typed, CardTyped, MemoryTyped
    <2>7. obs'[Jpeg(g)].seen = obs[Jpeg(g)].seen /\ obs'[Jpeg(g)].age \in Nat
          /\ obs'[Jpeg(g)].age <= obs[Jpeg(g)].age + 1
      <3>1. Older(obs[Jpeg(g)].age, Quiet) \in Nat
            /\ Older(obs[Jpeg(g)].age, Quiet) <= obs[Jpeg(g)].age + 1
        BY <2>6, Bounds DEF Older
      <3>2. obs'[Jpeg(g)] = IF obs[Jpeg(g)].seen = None THEN obs[Jpeg(g)]
                            ELSE [obs[Jpeg(g)] EXCEPT !.age = Older(obs[Jpeg(g)].age, Quiet)]
        BY <2>1 DEF Tick
      <3> QED
        BY <2>6, <3>1, <3>2
    <2>8. settled'[g] # None => /\ settled[g] # None /\ settled'[g] \in Nat /\ settled[g] \in Nat
                                /\ settled'[g] <= settled[g] + 1
      <3>1. settled'[g] = IF settled[g] = None THEN None ELSE Older(settled[g], Grace)
        BY <2>1 DEF Tick
      <3> QED
        BY <2>6, <3>1, Bounds DEF Older
    <2>9. idle'[Raw(g)] \in Nat /\ idle'[Raw(g)] <= PairLag
      BY <2>4, <2>5, <2>6, Bounds
    <2>10. card[Jpeg(g)] \in Finished => idle'[Raw(g)] = idle[Raw(g)] + 1
      BY <2>2, <2>4
    <2> QED
      BY <1>0, <2>0, <2>6, <2>7, <2>8, <2>9, <2>10, Bounds DEF PairTimely
  <1>2. PairsTimely'
    BY <1>0, <1>1, CardPairs DEF PairsTimely
  <1> QED
    BY <1>0, <1>2, CardPairs, SaidStays DEF PairInv

\* The loop's own steps: what they must say of each pair.
LEMMA LoopPairs ==
    ASSUME PairInv, UNCHANGED camera,
           \A g \in Pairs : RawToCome(g) => PairTimely(g)',
           PairsScanned', PairsReported', PairsSpooled'
    PROVE  PairInv'
  BY CardPairs DEF PairInv, PairsTimely, camera

LEMMA RowsSpooled ==
    ASSUME PairInv, UNCHANGED <<camera, rows>>
    PROVE  PairsSpooled'
  BY CardPairs DEF PairInv, PairsSpooled, PairRow, camera

\* Nothing is remembered: a scan that begins, or is dropped, or a restart.
LEMMA ForgottenPairs ==
    ASSUME PairInv, UNCHANGED camera, PairsSpooled',
           scan'.stable = NoScan.stable, scan'.ready = {},
           \/ UNCHANGED <<obs, settled>>
           \/ obs' = NoObs /\ settled' = NoGroups
    PROVE  PairInv'
  <1>1. ASSUME NEW g \in Pairs, RawToCome(g) PROVE PairTimely(g)'
    <2>1. scan'.stable[Jpeg(g)] = None
      BY PairPaths DEF NoScan
    <2>2. CASE UNCHANGED <<obs, settled>>
      BY <1>1, <2>1, <2>2 DEF PairInv, PairsTimely, PairTimely, camera
    <2>3. CASE obs' = NoObs /\ settled' = NoGroups
      <3>1. obs'[Jpeg(g)].seen = None /\ settled'[g] = None
        BY <2>3, PairPaths DEF NoObs, Unobserved, NoGroups
      <3> QED
        BY <1>1, <2>1, <3>1, PartFacts DEF PairInv, PairsTimely, PairTimely, camera
    <2> QED
      BY <2>2, <2>3
  <1>2. PairsScanned'
    BY PairPaths DEF NoScan, PairsScanned, PairScanned
  <1>3. PairsReported'
    BY DEF PairsReported
  <1> QED
    BY <1>1, <1>2, <1>3, LoopPairs

LEMMA StatPairs == ASSUME IInv, Typed, PairInv, NEW p \in Path, Stat(p) PROVE PairInv'
  <1>0. UNCHANGED camera /\ UNCHANGED <<card, shots, writing, idle>> /\ UNCHANGED <<rows, settled>>
    BY DEF Stat, camera, spoolVars
  <1>1. obs \in [Path -> [seen : Content \cup {None}, age : 0..Quiet]]
    BY DEF Typed, MemoryTyped
  <1>2. /\ scan'.ready = scan.ready
        /\ \/ scan'.stable = scan.stable
           \/ /\ scan'.stable = [scan.stable EXCEPT ![p] = card[p]]
              /\ card[p] # None /\ card[p] = obs[p].seen /\ obs[p].age >= Quiet
              /\ obs' = obs
        /\ obs' = obs \/ obs' = [obs EXCEPT ![p] = [seen |-> card[p], age |-> 0]]
    BY DEF Stat, StatGone, StatChanged, StatSame, Statted, Typed, ScanTyped
  <1>3. scan.stable \in [Path -> Content \cup {None}] /\ scan'.stable \in [Path -> Content \cup {None}]
    BY StatTyped DEF Typed, ScanTyped
  <1>4. ASSUME NEW g \in Pairs, RawToCome(g) PROVE PairTimely(g)'
    <2>0. PairTimely(g)
      BY <1>4 DEF PairInv, PairsTimely
    <2>1. Jpeg(g) \in Path /\ Raw(g) \in Path
      BY PairPaths
    <2>2. idle[Raw(g)] \in Nat /\ obs[Jpeg(g)].age \in Nat
      BY <1>1, <2>1, Bounds DEF Typed, CardTyped
    <2>3. obs'[Jpeg(g)] = obs[Jpeg(g)]
          \/ (obs'[Jpeg(g)].seen = card[Jpeg(g)] /\ obs'[Jpeg(g)].age = 0)
      BY <1>1, <1>2, <2>1
    <2>4. scan'.stable[Jpeg(g)] # None => card[Jpeg(g)] \in Finished /\ idle[Raw(g)] >= Quiet
      <3>1. CASE scan'.stable[Jpeg(g)] = scan.stable[Jpeg(g)]
        BY <2>0, <3>1 DEF PairTimely
      <3>2. CASE /\ p = Jpeg(g) /\ card[p] # None /\ card[p] = obs[p].seen /\ obs[p].age >= Quiet
        <4>1. card[p] \in Finished
          BY <3>2, QuietIsWhole
        <4>2. obs[p].age <= idle[Raw(g)]
          BY <2>0, <3>2, <4>1 DEF PairTimely
        <4> QED
          BY <2>2, <3>2, <4>1, <4>2, Bounds
      <3> QED
        BY <1>2, <1>3, <2>1, <3>1, <3>2
    <2> QED
      BY <1>0, <2>0, <2>2, <2>3, <2>4 DEF PairTimely
  <1>5. PairsScanned'
    <2> SUFFICES ASSUME NEW g \in Pairs PROVE PairScanned(g)'
      BY DEF PairsScanned
    <2>1. Raw(g) \in Path /\ Second(g) \in Path /\ Dng(g) \in Path
      BY PairPaths
    <2>2. PairScanned(g) /\ (Paired(g) => card[Second(g)] = None /\ card[Dng(g)] = None)
      BY DEF PairInv, PairsScanned, PairsWritten, PairWritten
    <2>3. scan'.stable[Raw(g)] # None => RawBegun(g)
      BY <1>2, <1>3, <2>1, <2>2 DEF PairScanned, RawBegun
    <2>4. Paired(g) => scan'.stable[Second(g)] = None /\ scan'.stable[Dng(g)] = None
      BY <1>2, <1>3, <2>1, <2>2 DEF PairScanned
    <2> QED
      BY <1>0, <2>3, <2>4, CardPairs DEF PairScanned
  <1>6. PairsReported'
    BY <1>0, <1>2, CardPairs DEF PairInv, PairsReported, PairReport, RawReport
  <1> QED
    BY <1>0, <1>4, <1>5, <1>6, LoopPairs, RowsSpooled

(***************************************************************************)
(* What is reported of a pair.                                             *)
(***************************************************************************)

\* A stem's record is its RAW if one was found; files that collide are
\* reported each for itself.
LEMMA ReportedOf ==
    ASSUME NEW h \in Group, NEW found, NEW in \in Reported(h, found)
    PROVE  \/ /\ \/ found[Jpeg(h)] # None /\ found[Second(h)] # None
                 \/ found[Raw(h)] # None /\ found[Dng(h)] # None
              /\ ~in.hasRaw /\ in.key = in.master
              /\ in.master \in {Jpeg(h), Second(h), Raw(h), Dng(h)} /\ found[in.master] # None
           \/ /\ in.key = Stem(h) /\ in.hasRaw
              /\ in.master \in {Raw(h), Dng(h)} /\ found[in.master] # None
           \/ /\ in.key = Stem(h) /\ ~in.hasRaw
              /\ in.master \in {Jpeg(h), Second(h)} /\ found[in.master] # None
  <1> DEFINE jpegs == {p \in Jpegs(h) : found[p] # None}
             raws  == {p \in Raws(h) : found[p] # None}
             collide == jpegs = Jpegs(h) \/ raws = Raws(h)
  <1>1. Jpegs(h) = {Jpeg(h), Second(h)} /\ Raws(h) = {Raw(h), Dng(h)}
    BY DEF Jpegs, Jpeg, Second, Raws, Raw, Dng
  <1>2. CASE collide
    <2>1. PICK p \in jpegs \cup raws :
            in = [ key |-> p, master |-> p, preview |-> IF IsJpeg(p) THEN p ELSE None,
                   seen |-> found[p], hasRaw |-> FALSE ]
      BY <1>2 DEF Reported
    <2>2. in.key = p /\ in.master = p /\ ~in.hasRaw
      BY <2>1
    <2>3. \/ found[Jpeg(h)] # None /\ found[Second(h)] # None
          \/ found[Raw(h)] # None /\ found[Dng(h)] # None
      BY <1>1, <1>2
    <2> QED
      BY <1>1, <2>1, <2>2, <2>3
  <1>3. CASE ~collide
    <2>1. PICK m \in IF raws # {} THEN raws ELSE jpegs, v \in IF jpegs = {} THEN {None} ELSE jpegs :
            in = [ key |-> Stem(h), master |-> m, preview |-> v,
                   seen |-> found[m], hasRaw |-> raws # {} ]
      BY <1>3 DEF Reported
    <2>2. in.key = Stem(h) /\ in.master = m /\ (in.hasRaw <=> raws # {})
      BY <2>1
    <2> QED
      BY <1>1, <2>1, <2>2
  <1> QED
    BY <1>2, <1>3

LEMMA StemsDiffer ==
    ASSUME NEW g \in Group, NEW h \in Group
    PROVE  /\ Raw(g) = Raw(h) => g = h
           /\ Stem(g) = Stem(h) => g = h
           /\ Raw(g) \notin {Jpeg(h), Second(h), Dng(h), Stem(h)}
           /\ Stem(g) \notin {Jpeg(h), Second(h), Raw(h), Dng(h)}
           /\ Raws(h) = {Raw(h), Dng(h)} /\ Jpeg(g) \notin Raws(h)
  BY DEF Raw, Raws, Stem, Jpeg, Second, Dng

\* A lone JPEG of a pair that is to come has been stable since before it was
\* settled.
LEMMA LoneIsJpeg ==
    ASSUME PairInv, NEW g \in Pairs, Paired(g), IsLoneJpeg(g)
    PROVE  scan.stable[Jpeg(g)] # None
  <1>1. PICK in \in Reported(g, scan.stable) : in.key = Stem(g) /\ ~in.hasRaw
    BY DEF IsLoneJpeg, Found
  <1>2. scan.stable[Second(g)] = None
    BY DEF PairInv, PairsScanned, PairScanned
  <1>3. g \in Group /\ Stem(g) \notin {Jpeg(g), Second(g), Raw(g), Dng(g)}
    BY PairPaths, StemsDiffer
  <1>4. in.master \in {Jpeg(g), Second(g)} /\ scan.stable[in.master] # None
    BY <1>1, <1>3, ReportedOf
  <1> QED
    BY <1>2, <1>4

\* It is not reported before the RAW is begun: by then the camera would have
\* paused for longer than it does.
LEMMA HeldUntilBegun ==
    ASSUME PairsAreQuick, Typed, PairInv, NEW g \in Pairs, Paired(g),
           IsLoneJpeg(g), ~Held(g)
    PROVE  RawBegun(g)
  <1> SUFFICES ASSUME RawToCome(g) PROVE FALSE
    BY DEF Paired
  <1>1. PairTimely(g) /\ scan.stable[Jpeg(g)] # None
    BY LoneIsJpeg DEF PairInv, PairsTimely
  <1>2. settled[g] \in (0..Grace) \cup {None} /\ idle[Raw(g)] \in Nat
    BY PairPaths, Bounds DEF Typed, MemoryTyped, CardTyped
  <1>3. idle[Raw(g)] >= Quiet /\ (settled[g] # None => idle[Raw(g)] >= Quiet + settled[g])
        /\ idle[Raw(g)] <= PairLag
    BY <1>1 DEF PairTimely
  <1>4. ~(SettledFor(g) < Grace)
    BY DEF Held
  <1> QED
    BY <1>2, <1>3, <1>4, Bounds DEF SettledFor, PairsAreQuick

LEMMA ReportedPair ==
    ASSUME PairsAreQuick, Typed, PairInv, NEW h \in Group, ~Held(h), NEW in \in Found(h)
    PROVE  RawReport(in) /\ \A g \in Pairs : PairReport(g, in)
  <1>0. in \in Reported(h, scan.stable)
    BY DEF Found
  <1>1. RawReport(in)
    BY <1>0, ReportedOf, StemsDiffer DEF RawReport
  <1>2. ASSUME NEW g \in Pairs PROVE PairReport(g, in)
    <2>0. g \in Group
      BY PairPaths
    <2>1. /\ scan.stable[Raw(g)] # None => RawBegun(g)
          /\ Paired(g) => scan.stable[Second(g)] = None /\ scan.stable[Dng(g)] = None
      BY DEF PairInv, PairsScanned, PairScanned
    <2>2. in.key # Raw(g)
      <3> SUFFICES ASSUME in.key = Raw(g) PROVE FALSE
        OBVIOUS
      <3>1. /\ h = g /\ scan.stable[Raw(g)] # None
            /\ scan.stable[Second(g)] # None \/ scan.stable[Dng(g)] # None
        BY <1>0, <2>0, ReportedOf, StemsDiffer
      <3> QED
        BY <2>1, <3>1 DEF Paired
    <2>3. in.hasRaw /\ in.master = Raw(g) => RawBegun(g)
      BY <1>0, <2>0, <2>1, ReportedOf, StemsDiffer
    <2>4. ASSUME in.key = Stem(g), Paired(g)
          PROVE  RawBegun(g) /\ in.master \in {Jpeg(g), Raw(g)}
      <3>1. h = g
        BY <1>0, <2>0, <2>4, ReportedOf, StemsDiffer
      <3>2. CASE in.hasRaw
        BY <1>0, <2>0, <2>1, <2>4, <3>1, <3>2, ReportedOf, StemsDiffer
      <3>3. CASE ~in.hasRaw
        <4>1. IsLoneJpeg(g)
          BY <2>4, <3>1, <3>3 DEF IsLoneJpeg
        <4>2. in.master \in {Jpeg(g), Second(g)} /\ scan.stable[in.master] # None
          BY <1>0, <2>0, <2>4, <3>1, <3>3, ReportedOf, StemsDiffer
        <4> QED
          BY <2>1, <2>4, <3>1, <4>1, <4>2, HeldUntilBegun
      <3> QED
        BY <3>2, <3>3
    <2> QED
      BY <2>2, <2>3, <2>4 DEF PairReport
  <1> QED
    BY <1>1, <1>2

LEMMA FinishScanPairs ==
    ASSUME PairsAreQuick, Typed, PairInv, FinishScan
    PROVE  PairInv'
  <1> DEFINE said == UNION {Found(g) : g \in {k \in AllSettled : ~Held(k)}}
  <1>0. UNCHANGED camera /\ UNCHANGED <<card, shots, idle, rows>>
    BY DEF FinishScan, camera, spoolVars
  <1>1. scan' = [NoScan EXCEPT !.at = "ingested", !.ready = said]
    BY DEF FinishScan
  <1>2. \A in \in said : RawReport(in) /\ \A g \in Pairs : PairReport(g, in)
    <2> SUFFICES ASSUME NEW h \in AllSettled, ~Held(h), NEW in \in Found(h)
                 PROVE  RawReport(in) /\ \A g \in Pairs : PairReport(g, in)
      OBVIOUS
    <2>1. h \in Group
      BY DEF AllSettled, Typed, ScanTyped
    <2> QED
      BY <2>1, ReportedPair
  <1> HIDE DEF said
  <1>3. scan'.ready = said /\ scan'.stable = NoScan.stable
    BY <1>1 DEF NoScan
  <1>4. PairsReported'
    BY <1>0, <1>2, <1>3, CardPairs DEF PairsReported, RawReport, PairReport
  <1>5. PairsScanned'
    BY <1>3, PairPaths DEF NoScan, PairsScanned, PairScanned
  <1>6. ASSUME NEW g \in Pairs, RawToCome(g) PROVE PairTimely(g)'
    <2>0. PairTimely(g) /\ Paired(g)
      BY <1>6 DEF PairInv, PairsTimely, Paired
    <2>1. Jpeg(g) \in Path /\ Raw(g) \in Path /\ g \in Group
      BY PairPaths
    <2>2. obs'[Jpeg(g)] = obs[Jpeg(g)] \/ obs'[Jpeg(g)].seen = None
      BY <2>1 DEF FinishScan, Unobserved
    <2>3. scan'.stable[Jpeg(g)] = None
      BY <1>3, <2>1 DEF NoScan
    <2>4. settled[g] \in (0..Grace) \cup {None} /\ idle[Raw(g)] \in Nat
      BY <2>1, Bounds DEF Typed, MemoryTyped, CardTyped
    <2>5. settled'[g] # None => card[Jpeg(g)] \in Finished /\ idle[Raw(g)] >= Quiet + settled'[g]
      <3>1. settled'[g] = IF g \notin scan.groups THEN None
                          ELSE IF g \in AllSettled /\ IsLoneJpeg(g) THEN SettledFor(g)
                          ELSE settled[g]
        BY <2>1 DEF FinishScan
      <3>2. CASE IsLoneJpeg(g) /\ settled[g] = None
        <4>1. card[Jpeg(g)] \in Finished /\ idle[Raw(g)] >= Quiet
          BY <2>0, <3>2, LoneIsJpeg DEF PairTimely
        <4>2. settled'[g] # None => settled'[g] = 0
          BY <3>1, <3>2 DEF SettledFor
        <4> QED
          BY <2>4, <4>1, <4>2, Bounds
      <3>3. CASE ~(IsLoneJpeg(g) /\ settled[g] = None)
        <4>1. settled'[g] \in {None, settled[g]}
          BY <3>1, <3>3 DEF SettledFor
        <4> QED
          BY <2>0, <4>1 DEF PairTimely
      <3> QED
        BY <3>2, <3>3
    <2> QED
      BY <1>0, <2>0, <2>2, <2>3, <2>5, PartFacts DEF PairTimely
  <1> QED
    BY <1>0, <1>4, <1>5, <1>6, LoopPairs, RowsSpooled

(***************************************************************************)
(* What the spool takes of it.                                             *)
(***************************************************************************)

\* A fresh row is as its report says.
LEMMA FreshPair ==
    ASSUME NEW in \in scan.ready, PairInv, NEW preview, NEW seq, NEW g \in Pairs
    PROVE  PairRow(g, FreshRow(in, in.key, preview, seq))
  <1> DEFINE row == FreshRow(in, in.key, preview, seq)
  <1>1. row.key = in.key /\ row.master = in.master /\ row.state = "discovered"
    BY DEF FreshRow, AbsentRow
  <1>2. PairReport(g, in)
    BY DEF PairInv, PairsReported
  <1> HIDE DEF row
  <1>3. PairRow(g, row)
    BY <1>1, <1>2 DEF PairReport, PairRow
  <1> QED
    BY <1>3 DEF row

LEMMA InsertPairs ==
    ASSUME UNCHANGED camera, NEW table \in [Row -> CaptureRow],
           NEW in, NEW key, NEW preview, Insert(table, in, key, preview),
           \A r \in Row, g \in Pairs : PairRow(g, table[r]),
           \A g \in Pairs : PairRow(g, FreshRow(in, key, preview, hwm + 1))
    PROVE  PairsSpooled'
  <1>1. rows' = [table EXCEPT ![FreeId] = FreshRow(in, key, preview, hwm + 1)]
    BY DEF Insert
  <1>2. \A r \in Row, g \in Pairs : PairRow(g, rows'[r])
    BY <1>1
  <1> QED
    BY <1>2, CardPairs DEF PairsSpooled, PairRow, camera

LEMMA RowPairs ==
    ASSUME PairInv, Typed, UNCHANGED camera, NEW r \in Row, NEW row,
           rows' = [rows EXCEPT ![r] = row],
           \A g \in Pairs : PairRow(g, row)
    PROVE  PairsSpooled'
  <1>1. \A s \in Row, g \in Pairs : PairRow(g, rows'[s])
    BY DEF PairInv, PairsSpooled, Typed, SpoolTypeOK
  <1> QED
    BY <1>1, CardPairs DEF PairsSpooled, PairRow, camera

\* A RAW that comes too late for its stem's row is no pair's.
LEMMA OwnRowIsNoPair ==
    ASSUME Typed, PairInv, NEW in \in scan.ready, NEW r \in Row, rows[r].key = in.key,
           ReconcileOwnRow(r, in), NEW g \in Pairs
    PROVE  PairRow(g, FreshRow(in, in.master, None, hwm + 1))
  <1> DEFINE row == FreshRow(in, in.master, None, hwm + 1)
  <1>1. row.key = in.master
    BY DEF FreshRow, AbsentRow
  <1>2. in.hasRaw /\ in.master # rows[r].master /\ rows[r].state \notin PreAnnounced
    BY DEF ReconcileOwnRow, LateRaw
  <1>3. PICK h \in Group : in.key = Stem(h) /\ in.master \in Raws(h)
    BY <1>2 DEF PairInv, PairsReported, RawReport
  <1>4. g \in Group
    BY PairPaths
  <1>5. in.master # Raw(g)
    <2> SUFFICES ASSUME in.master = Raw(g) PROVE FALSE
      OBVIOUS
    <2>1. h = g
      BY <1>3, <1>4, StemsDiffer
    <2>2. RawBegun(g)
      BY <1>2 DEF PairInv, PairsReported, PairReport
    <2>3. PairRow(g, rows[r])
      BY DEF PairInv, PairsSpooled
    <2> QED
      BY <1>2, <1>3, <2>1, <2>2, <2>3 DEF PairRow, Paired, PreAnnounced
  <1> HIDE DEF row
  <1>6. PairRow(g, row)
    BY <1>1, <1>3, <1>4, <1>5, StemsDiffer DEF PairRow
  <1> QED
    BY <1>6 DEF row

LEMMA DiscoverPairs ==
    ASSUME Typed, PairInv, UNCHANGED camera, NEW in \in scan.ready, SpoolDiscover(in)
    PROVE  PairsSpooled'
  <1>0. /\ rows \in [Row -> CaptureRow]
        /\ \A r \in Row, g \in Pairs : PairRow(g, rows[r])
        /\ \A g \in Pairs : PairReport(g, in)
    BY DEF Typed, SpoolTypeOK, PairInv, PairsSpooled, PairsReported
  <1>1. CASE DiscoverNew(in)
    BY <1>0, <1>1, FreshPair, InsertPairs DEF DiscoverNew
  <1>2. ASSUME NEW r \in Row, rows[r].key = in.key, ReconcileUpgrade(r, in) PROVE PairsSpooled'
    <2> DEFINE row == UpgradeMasterToRaw(rows[r], in.master,
                                         OrElse(in.preview, rows[r].preview), in.seen)
    <2>1. row.master = in.master /\ row.key = in.key
      BY <1>0, <1>2 DEF UpgradeMasterToRaw, HashAgain, CaptureRow
    <2>2. rows' = [rows EXCEPT ![r] = row] /\ in.hasRaw
      BY <1>2 DEF ReconcileUpgrade, LateRaw
    <2>3. PICK h \in Group : in.key = Stem(h) /\ in.master \in Raws(h)
      BY <2>2 DEF PairInv, PairsReported, RawReport
    <2> HIDE DEF row
    <2>4. ASSUME NEW g \in Pairs PROVE PairRow(g, row)
      <3>1. g \in Group
        BY PairPaths
      <3> QED
        BY <1>0, <2>1, <2>2, <2>3, <3>1, StemsDiffer DEF PairRow, PairReport
    <2> QED
      BY <2>2, <2>4, RowPairs
  <1>3. ASSUME NEW r \in Row, rows[r].key = in.key, ReconcileOwnRow(r, in) PROVE PairsSpooled'
    <2>1. \A g \in Pairs : PairRow(g, FreshRow(in, in.master, None, hwm + 1))
      BY <1>3, OwnRowIsNoPair
    <2> QED
      BY <1>0, <1>3, <2>1, InsertPairs DEF ReconcileOwnRow
  <1>4. ASSUME NEW r \in Row, ReconcilePreview(r, in) PROVE PairsSpooled'
    <2> DEFINE row == AttachPreview(rows[r], in.preview)
    <2>1. row.master = rows[r].master /\ row.key = rows[r].key /\ row.state = "discovered"
      BY <1>0 DEF AttachPreview, CaptureRow
    <2>2. rows' = [rows EXCEPT ![r] = row]
      BY <1>4 DEF ReconcilePreview
    <2> HIDE DEF row
    <2>3. \A g \in Pairs : PairRow(g, row)
      BY <1>0, <2>1 DEF PairRow
    <2> QED
      BY <2>2, <2>3, RowPairs
  <1>5. ASSUME NEW r \in Row, ReconcileReuse(r, in) PROVE PairsSpooled'
    <2> DEFINE table == [rows EXCEPT ![r].key = None]
    <2>1. table \in [Row -> CaptureRow]
      BY <1>0 DEF CaptureRow
    <2>2. \A s \in Row : table[s] = rows[s] \/ table[s].key = None
      BY <1>0 DEF CaptureRow
    <2>3. Insert(table, in, in.key, in.preview)
      BY <1>5 DEF ReconcileReuse
    <2> HIDE DEF table
    <2>4. \A s \in Row, g \in Pairs : PairRow(g, table[s])
      BY <1>0, <2>2, PairPaths DEF PairRow
    <2>5. \A g \in Pairs : PairRow(g, FreshRow(in, in.key, in.preview, hwm + 1))
      BY FreshPair
    <2> QED
      BY <2>1, <2>3, <2>4, <2>5, InsertPairs
  <1> QED
    BY <1>1, <1>2, <1>3, <1>4, <1>5 DEF SpoolDiscover

LEMMA EmitPairs == ASSUME Typed, PairInv, NEW in \in scan.ready, Emit(in) PROVE PairInv'
  <1>0. UNCHANGED camera /\ UNCHANGED <<card, shots, idle, obs, settled>>
        /\ scan' = [scan EXCEPT !.ready = scan.ready \ {in}]
    BY DEF Emit, camera
  <1>1. scan'.stable = scan.stable /\ scan'.ready \subseteq scan.ready
    BY <1>0 DEF Typed, ScanTyped
  <1>2. PairsSpooled'
    <2>1. CASE SpoolDiscover(in)
      BY <1>0, <2>1, DiscoverPairs
    <2>2. CASE UNCHANGED spoolVars
      BY <1>0, <2>2, RowsSpooled DEF spoolVars
    <2> QED
      BY <2>1, <2>2 DEF Emit
  <1>3. PairsScanned'
    BY <1>0, <1>1, CardPairs DEF PairInv, PairsScanned, PairScanned
  <1>4. PairsReported'
    BY <1>0, <1>1, CardPairs DEF PairInv, PairsReported, PairReport, RawReport
  <1>5. \A g \in Pairs : RawToCome(g) => PairTimely(g)'
    BY <1>0, <1>1 DEF PairInv, PairsTimely, PairTimely
  <1> QED
    BY <1>0, <1>2, <1>3, <1>4, <1>5, LoopPairs

\* The drain does not announce a JPEG beside which a RAW has been begun.
LEMMA DrainPairs == ASSUME Typed, PairInv, NEW r \in Row, Drain(r) PROVE PairInv'
  <1>0. UNCHANGED camera /\ UNCHANGED <<card, shots, idle, obs, settled, scan>>
    BY DEF Drain, camera, memory
  <1>1. /\ rows[r] \in CaptureRow /\ \A g \in Pairs : PairRow(g, rows[r])
    BY DEF Typed, SpoolTypeOK, PairInv, PairsSpooled
  <1>2. ASSUME NEW jpeg \in Path, DrainUpgrades(r, jpeg) PROVE PairsSpooled'
    <2> DEFINE row == UpgradeMasterToRaw(rows[r], SiblingOf(jpeg),
                                         OrElse(rows[r].preview, jpeg), card[SiblingOf(jpeg)])
    <2>1. row.master = SiblingOf(jpeg) /\ row.key = rows[r].key
      BY <1>1 DEF UpgradeMasterToRaw, HashAgain, CaptureRow
    <2>2. /\ rows' = [rows EXCEPT ![r] = row] /\ jpeg = rows[r].master
          /\ SiblingOf(jpeg) # None /\ IsJpeg(jpeg)
      BY <1>2, SiblingIs DEF DrainUpgrades
    <2> HIDE DEF row
    <2>3. ASSUME NEW g \in Pairs PROVE PairRow(g, row)
      <3>1. ASSUME Paired(g), jpeg = Jpeg(g) PROVE row.master = Raw(g)
        <4>1. SiblingOf(jpeg) \in {Raw(g), Dng(g)} /\ card[SiblingOf(jpeg)] # None
          BY <2>2, <3>1, PairPaths, SiblingIs
        <4>2. card[Dng(g)] = None
          BY <3>1 DEF PairInv, PairsWritten, PairWritten
        <4> QED
          BY <2>1, <4>1, <4>2
      <3>2. rows[r].master # Raw(g)
        BY <2>2, PairPaths
      <3> QED
        BY <1>1, <2>1, <2>2, <3>1, <3>2 DEF PairRow
    <2> QED
      BY <1>0, <2>2, <2>3, RowPairs
  <1>3. ASSUME DrainHashes(r) PROVE PairsSpooled'
    <2> DEFINE row == [rows[r] EXCEPT !.state = "queued", !.observed = card[rows[r].master],
                                      !.content = card[rows[r].master]]
    <2>1. row.key = rows[r].key /\ row.master = rows[r].master
      BY <1>1 DEF CaptureRow
    <2>2. rows' = [rows EXCEPT ![r] = row] /\ SiblingOf(rows[r].master) = None
      BY <1>3 DEF DrainHashes, Typed, SpoolTypeOK
    <2> HIDE DEF row
    <2>3. ASSUME NEW g \in Pairs PROVE PairRow(g, row)
      <3>1. rows[r].master = Jpeg(g) => ~RawBegun(g)
        BY <2>2, PairPaths, NoRawBeside DEF SiblingOf, RawBegun
      <3> QED
        BY <1>1, <2>1, <3>1 DEF PairRow
    <2> QED
      BY <1>0, <2>2, <2>3, RowPairs
  <1>4. ASSUME DrainCompletes(r) PROVE PairsSpooled'
    <2> DEFINE row == [rows[r] EXCEPT !.state = "complete"]
    <2>1. row.key = rows[r].key /\ row.master = rows[r].master /\ rows[r].state = "queued"
      BY <1>1, <1>4 DEF CaptureRow, DrainCompletes
    <2>2. rows' = [rows EXCEPT ![r] = row]
      BY <1>4 DEF DrainCompletes, Typed, SpoolTypeOK
    <2> HIDE DEF row
    <2>3. \A g \in Pairs : PairRow(g, row)
      BY <1>1, <2>1 DEF PairRow
    <2> QED
      BY <1>0, <2>2, <2>3, RowPairs
  <1>5. ASSUME DrainReleases(r) PROVE PairsSpooled'
    <2> DEFINE row == RejectAndRelease(rows[r], IF card[rows[r].master] = None THEN "source_vanished"
                                                ELSE "content_changed_after_announce")
    <2>1. row.key = None
      BY <1>1 DEF RejectAndRelease, CaptureRow
    <2>2. rows' = [rows EXCEPT ![r] = row]
      BY <1>5 DEF DrainReleases
    <2> HIDE DEF row
    <2>3. \A g \in Pairs : PairRow(g, row)
      BY <2>1, PairPaths DEF PairRow
    <2> QED
      BY <1>0, <2>2, <2>3, RowPairs
  <1>6. PairsSpooled'
    BY <1>2, <1>3, <1>4, <1>5 DEF Drain
  <1>7. PairsScanned' /\ PairsReported'
    BY <1>0, CardPairs DEF PairInv, PairsScanned, PairScanned, PairsReported, PairReport, RawReport
  <1>8. \A g \in Pairs : RawToCome(g) => PairTimely(g)'
    BY <1>0 DEF PairInv, PairsTimely, PairTimely
  <1> QED
    BY <1>0, <1>6, <1>7, <1>8, LoopPairs

LEMMA RestartPairs == ASSUME Typed, PairInv, Restart PROVE PairInv'
  <1>0. UNCHANGED camera /\ UNCHANGED <<card, shots>>
        /\ obs' = NoObs /\ settled' = NoGroups /\ scan' = NoScan /\ rows' = Recover
    BY DEF Restart, camera
  <1>1. PairsSpooled'
    <2> SUFFICES ASSUME NEW r \in Row, NEW g \in Pairs PROVE PairRow(g, rows[r])'
      BY DEF PairsSpooled
    <2>1. rows[r] \in CaptureRow /\ rows'[r] = Rewind(rows[r])
      BY <1>0 DEF Recover, Typed, SpoolTypeOK
    <2>2. /\ rows'[r].key = rows[r].key /\ rows'[r].master = rows[r].master
          /\ rows[r].state = "discovered" => rows'[r].state = "discovered"
      BY <2>1 DEF Rewind, CaptureRow
    <2>3. PairRow(g, rows[r])
      BY DEF PairInv, PairsSpooled
    <2> QED
      BY <1>0, <2>2, <2>3, CardPairs DEF PairRow
  <1>2. scan'.stable = NoScan.stable /\ scan'.ready = {}
    BY <1>0 DEF NoScan
  <1> QED
    BY <1>0, <1>1, <1>2, ForgottenPairs

LEMMA DroppedPairs ==
    ASSUME PairInv, BeginIngest \/ EmitFails \/ DrainEnds
    PROVE  PairInv'
  <1>0. UNCHANGED camera /\ UNCHANGED <<rows, obs, settled>>
    BY DEF BeginIngest, EmitFails, DrainEnds, spoolVars
  <1>1. ASSUME BeginIngest PROVE scan'.stable = NoScan.stable /\ scan'.ready = {}
    <2> DEFINE there == {p \in Path : card[p] # None}
    <2>1. \/ scan' = [NoScan EXCEPT !.at = "stat", !.listed = there, !.todo = there]
          \/ scan' = [NoScan EXCEPT !.at = "ingested"]
      BY <1>1 DEF BeginIngest
    <2> HIDE DEF there
    <2> QED
      BY <2>1 DEF NoScan
  <1>2. ASSUME EmitFails \/ DrainEnds PROVE scan'.stable = NoScan.stable /\ scan'.ready = {}
    <2>1. scan' = NoScan
      BY <1>2 DEF EmitFails, DrainEnds
    <2> QED
      BY <2>1 DEF NoScan
  <1> QED
    BY <1>0, <1>1, <1>2, RowsSpooled, ForgottenPairs

LEMMA IdlePairs ==
    ASSUME PairInv, UNCHANGED <<camera, rows, obs, settled, scan>>
    PROVE  PairInv'
  <1>1. PairsScanned' /\ PairsReported'
    BY CardPairs DEF PairInv, PairsScanned, PairScanned, PairsReported, PairReport, RawReport, camera
  <1>2. \A g \in Pairs : RawToCome(g) => PairTimely(g)'
    BY DEF PairInv, PairsTimely, PairTimely, camera
  <1> QED
    BY <1>1, <1>2, LoopPairs, RowsSpooled

LEMMA NextPairs ==
    ASSUME PairsAreQuick
    PROVE  IInv /\ Typed /\ PairInv /\ [Next]_vars => PairInv'
  <1> SUFFICES ASSUME IInv, Typed, PairInv, [Next]_vars PROVE PairInv'
    OBVIOUS
  <1>1. CASE Ingest
    BY <1>1, DroppedPairs, StatPairs, FinishScanPairs, EmitPairs DEF Ingest
  <1>2. CASE UNCHANGED vars \/ VolumeChanges \/ VolumeFreed
    <2>1. UNCHANGED <<camera, rows, obs, settled, scan>>
      BY <1>2 DEF vars, memory, spoolVars, VolumeChanges, VolumeFreed
    <2> QED
      BY <2>1, IdlePairs
  <1> QED
    BY <1>1, <1>2, CameraPairs, TickPairs, DroppedPairs, DrainPairs, RestartPairs DEF Next

\* One press of the shutter is one capture, for every card, quiet period and
\* pair grace, and however stats, writes, restarts and a full volume fall
\* (scanner.js, spool.js and pipeline.js together): provided the camera begins
\* the RAW sooner than the scanner gives the JPEG up, and writes each file of
\* a pair once.
THEOREM WatchOnePressOneCapture ==
    ASSUME PairsAreQuick, PairsAreWhole
    PROVE  Spec => []OnePressOneCapture
  <1>1. PairInv => OnePressOneCapture
    <2> SUFFICES ASSUME PairInv, NEW r \in Present,
                        rows[r].key = Raw(rows[r].master[1]), rows[r].master[1] \in Pairs
                 PROVE  FALSE
      BY DEF OnePressOneCapture
    <2>1. r \in Row
      BY DEF Present
    <2> QED
      BY <2>1 DEF PairInv, PairsSpooled, PairRow
  <1>2. Init => IInv /\ Typed /\ PairInv
    BY InitIInv, InitTyped, InitPairs
  <1>3. IInv /\ Typed /\ PairInv /\ [Next]_vars => (IInv /\ Typed /\ PairInv)'
    BY NextIInv, NextTyped, NextPairs
  <1> QED
    BY <1>1, <1>2, <1>3, PTL DEF Spec

(***************************************************************************)
(* The scanner and the drain keep the promise of CaptureTable.             *)
(***************************************************************************)

ReportsNamed == \A in \in scan.ready : Named(in)

TableInv == ReportsNamed /\ \A r \in Row : Placed(rows[r])

\* A drain moves one row that is in the table, if at all.
LEMMA DrainTable == ASSUME Typed, TableSound, NEW r \in Row, Drain(r) PROVE TableStep
  <1>1. rows[r] \in CaptureRow /\ rows \in [Row -> CaptureRow]
    BY DEF TableSound
  <1>2. ASSUME NEW row, rows' = [rows EXCEPT ![r] = row], Carries(row, rows[r]),
               rows[r].state # "absent"
        PROVE  TableStep
    <2>1. rows'[r] = row /\ \A s \in Row \ {r} : rows'[s] = rows[s]
      BY <1>1, <1>2
    <2> QED
      BY <1>2, <2>1, CarriesTable
  <1>3. ASSUME NEW jpeg \in Path, DrainUpgrades(r, jpeg) PROVE TableStep
    <2> DEFINE row == UpgradeMasterToRaw(rows[r], SiblingOf(jpeg),
                                         OrElse(rows[r].preview, jpeg), card[SiblingOf(jpeg)])
    <2>1. /\ rows' = [rows EXCEPT ![r] = row] /\ rows[r].state = "discovered"
          /\ rows[r].master = jpeg /\ SiblingOf(jpeg) \in Raws(jpeg[1])
      BY <1>3, SiblingIs DEF DrainUpgrades
    <2>2. row.key = rows[r].key /\ row.state = "discovered" /\ row.master = SiblingOf(jpeg)
      BY <1>1, UpgradeKeeps
    <2> HIDE DEF row
    <2>3. Carries(row, rows[r])
      BY <2>1, <2>2, Stages DEF Carries
    <2> QED
      BY <1>2, <2>1, <2>3
  <1>4. CASE DrainHashes(r)
    <2> DEFINE row == [rows[r] EXCEPT !.state = "queued", !.observed = card[rows[r].master],
                                      !.content = card[rows[r].master]]
    <2>1. rows' = [rows EXCEPT ![r] = row] /\ rows[r].state = "discovered"
      BY <1>1, <1>4 DEF DrainHashes
    <2>2. row.key = rows[r].key /\ row.state = "queued" /\ row.master = rows[r].master
      BY <1>1 DEF CaptureRow
    <2> HIDE DEF row
    <2>3. Carries(row, rows[r])
      BY <2>1, <2>2, Stages DEF Carries
    <2> QED
      BY <1>2, <2>1, <2>3
  <1>5. CASE DrainCompletes(r)
    <2> DEFINE row == [rows[r] EXCEPT !.state = "complete"]
    <2>1. rows' = [rows EXCEPT ![r] = row] /\ rows[r].state = "queued"
      BY <1>1, <1>5 DEF DrainCompletes
    <2>2. row.key = rows[r].key /\ row.state = "complete" /\ row.master = rows[r].master
      BY <1>1 DEF CaptureRow
    <2> HIDE DEF row
    <2>3. Carries(row, rows[r])
      BY <2>1, <2>2, Stages DEF Carries
    <2> QED
      BY <1>2, <2>1, <2>3
  <1>6. CASE DrainReleases(r)
    <2> DEFINE row == RejectAndRelease(rows[r], IF card[rows[r].master] = None
                                                THEN "source_vanished"
                                                ELSE "content_changed_after_announce")
    <2>1. rows' = [rows EXCEPT ![r] = row] /\ rows[r].state \in {"queued", "discovered"}
      BY <1>6 DEF DrainReleases
    <2>2. row.key = None /\ row.state = "rejected" /\ row.master = rows[r].master
      BY <1>1 DEF RejectAndRelease, CaptureRow
    <2> HIDE DEF row
    <2>3. Carries(row, rows[r])
      BY <2>1, <2>2, Stages DEF Carries
    <2> QED
      BY <1>2, <2>1, <2>3
  <1> QED
    BY <1>3, <1>4, <1>5, <1>6 DEF Drain

\* A scan reports nothing that is not named after its files.
LEMMA ReadyNamed == ASSUME Typed, ReportsNamed, [Next]_vars PROVE ReportsNamed'
  <1>1. CASE scan'.ready \subseteq scan.ready
    BY <1>1 DEF ReportsNamed
  <1>2. CASE scan'.ready = {}
    BY <1>2 DEF ReportsNamed
  <1>3. CASE BeginIngest \/ EmitFails \/ DrainEnds \/ Restart
    <2> DEFINE there == {p \in Path : card[p] # None}
    <2>1. \/ scan' = NoScan
          \/ scan' = [NoScan EXCEPT !.at = "stat", !.listed = there, !.todo = there]
          \/ scan' = [NoScan EXCEPT !.at = "ingested"]
      BY <1>3 DEF BeginIngest, EmitFails, DrainEnds, Restart
    <2> HIDE DEF there
    <2>2. NoScan.ready = {}
      BY DEF NoScan
    <2>3. \A s : s = [NoScan EXCEPT !.at = "ingested"] => s.ready = {}
      BY DEF NoScan
    <2>4. \A s : s = [NoScan EXCEPT !.at = "stat", !.listed = there, !.todo = there]
                => s.ready = {}
      BY DEF NoScan
    <2> QED
      BY <1>2, <2>1, <2>2, <2>3, <2>4
  <1>4. ASSUME NEW p \in Path, Stat(p) PROVE ReportsNamed'
    <2>1. scan'.ready = scan.ready
      BY <1>4 DEF Stat, StatGone, StatChanged, StatSame, Statted, Typed, ScanTyped
    <2> QED
      BY <1>1, <2>1
  <1>5. CASE FinishScan
    <2>1. scan'.ready = UNION {Found(k) : k \in {h \in AllSettled : ~Held(h)}}
      BY <1>5 DEF FinishScan, NoScan
    <2>2. ASSUME NEW k \in AllSettled, NEW in \in Found(k) PROVE Named(in)
      <3>1. k \in Group /\ scan.stable \in [Path -> Content \cup {None}]
        BY DEF AllSettled, Typed, ScanTyped
      <3> QED
        BY <3>1, <2>2, ReportedNamed DEF Found
    <2> QED
      BY <2>1, <2>2 DEF ReportsNamed
  <1>6. ASSUME NEW in \in scan.ready, Emit(in) PROVE ReportsNamed'
    <2>1. scan'.ready = scan.ready \ {in}
      BY <1>6 DEF Emit, Typed, ScanTyped
    <2> QED
      BY <1>1, <2>1
  <1>7. CASE UNCHANGED scan
    BY <1>1, <1>7
  <1>8. CASE Ingest
    BY <1>3, <1>4, <1>5, <1>6, <1>8 DEF Ingest
  <1>9. ASSUME NEW p \in Path, Camera(p) PROVE UNCHANGED scan
    BY <1>9 DEF Camera, memory
  <1>10. ASSUME NEW r \in Row, Drain(r) PROVE UNCHANGED scan
    BY <1>10 DEF Drain, memory
  <1>11. ASSUME Tick \/ VolumeChanges \/ VolumeFreed \/ UNCHANGED vars PROVE UNCHANGED scan
    BY <1>11 DEF Tick, VolumeChanges, VolumeFreed, vars, memory
  <1> QED
    BY <1>3, <1>7, <1>8, <1>9, <1>10, <1>11 DEF Next

LEMMA NextTable ==
    ASSUME Typed, TableInv, [Next]_vars
    PROVE  TableInv' /\ [Table!Next]_(Table!table)
  <1>0. TableSound
    BY DEF TableInv, TableSound, Typed, SpoolTypeOK
  <1>1. ASSUME NEW in \in scan.ready, Emit(in) PROVE TableStep
    BY <1>0, <1>1, SpoolDiscoverTable, UnchangedTable DEF Emit, TableInv, ReportsNamed, spoolVars
  <1>2. ASSUME UNCHANGED rows PROVE TableStep
    BY <1>0, <1>2, UnchangedTable
  <1>3. ASSUME Restart PROVE TableStep
    BY <1>0, <1>3, RecoverTable DEF Restart
  <1>4. ASSUME NEW p \in Path, Camera(p) \/ Stat(p) PROVE UNCHANGED rows
    BY <1>4 DEF Camera, Stat, spoolVars
  <1>5. ASSUME Tick \/ VolumeChanges \/ VolumeFreed \/ UNCHANGED vars
        PROVE  UNCHANGED rows
    BY <1>5 DEF Tick, VolumeChanges, VolumeFreed, vars, spoolVars
  <1>6. ASSUME BeginIngest \/ FinishScan \/ EmitFails \/ DrainEnds PROVE UNCHANGED rows
    BY <1>6 DEF BeginIngest, FinishScan, EmitFails, DrainEnds, spoolVars
  <1>7. TableStep
    BY <1>0, <1>1, <1>2, <1>3, <1>4, <1>5, <1>6, DrainTable DEF Next, Ingest
  <1>8. ReportsNamed'
    BY ReadyNamed DEF TableInv
  <1> QED
    BY <1>7, <1>8 DEF TableInv, TableStep

\* However stats, writes, restarts and a full volume fall, the table the
\* scanner fills is one of CaptureTable: no two rows go by one name, a RAW is
\* joined to its own JPEG and only before that is sent, and a name passes to a
\* new photograph only from one that is settled (spool.js, bridge.js:66-81).
THEOREM WatchKeepsTable == Spec => TableKept
  <1>1. Init => Typed /\ TableInv /\ Table!Init
    <2> SUFFICES ASSUME Init PROVE TableInv /\ Table!Init
      BY InitTyped
    <2>1. scan.ready = {} /\ SpoolInit
      BY DEF Init, NoScan
    <2> QED
      BY <2>1, SpoolInitTable DEF TableInv, ReportsNamed, TableSound
  <1>2. Typed /\ TableInv /\ [Next]_vars
          => (Typed /\ TableInv)' /\ [Table!Next]_(Table!table)
    BY NextTyped, NextTable
  <1> QED
    BY <1>1, <1>2, PTL DEF Spec, TableKept, Table!Spec

=============================================================================
