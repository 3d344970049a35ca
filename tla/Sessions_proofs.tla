--------------------------- MODULE Sessions_proofs ---------------------------
(***************************************************************************)
(* Proofs about Sessions, for any number of installations, events, session *)
(* ids and faults: type correctness, one live session, and the refinement  *)
(* of DeviceLease.                                                         *)
(***************************************************************************)
EXTENDS Sessions, TLAPS

\* An answer that is still to be read names a session.
AnswerNames == \A b \in Bridge : at[b] = "opened" => reply[b].session \in Session

\* Only a live session counts as recently active.
RecentLive == \A s \in Session : sess[s].recent => sess[s].state = "live"

IInv == TypeOK /\ AnswerNames /\ RecentLive /\ OneLiveSession

USE DEF serverVars, procVars, localVars

LEMMA InitIInv == Init => IInv
<1> SUFFICES ASSUME Init
             PROVE  IInv
  OBVIOUS
<1> USE SessionsAssumption
<1>1. FreeRow \in SessionRow
  BY DEF FreeRow, SessionRow
<1>2. TypeOK
  BY <1>1 DEF Init, TypeOK, NoTxn, NoReply
<1>3. AnswerNames
  BY DEF Init, AnswerNames
<1>4. RecentLive /\ OneLiveSession
  BY DEF Init, RecentLive, OneLiveSession, Live, FreeRow
<1> QED
  BY <1>2, <1>3, <1>4 DEF IInv

-----------------------------------------------------------------------------
\* What the operations on one installation preserve.

\* The steps of a process that touch nothing but its own place and enrollment.
LEMMA EnrollmentKeepsIInv ==
    ASSUME IInv, NEW b \in Bridge,
           EnrollHandled(b) \/ EnrollReplied(b) \/ Runs(b)
    PROVE  IInv'
<1> USE DEF IInv, TypeOK, AnswerNames, RecentLive, OneLiveSession, Live, Goes
<1>1. CASE EnrollHandled(b)
  BY <1>1 DEF EnrollHandled
<1>2. CASE EnrollReplied(b)
  BY <1>2 DEF EnrollReplied
<1>3. CASE Runs(b)
  BY <1>3 DEF Runs
<1> QED
  BY <1>1, <1>2, <1>3

LEMMA AskingKeepsIInv ==
    ASSUME IInv, NEW b \in Bridge,
           HasSession(b) \/ OpenReads(b) \/ OpenLocks(b) \/ OpenReplied(b)
    PROVE  IInv'
<1> USE DEF IInv, TypeOK, AnswerNames, RecentLive, OneLiveSession, Live, Goes
<1>1. CASE HasSession(b)
  BY <1>1 DEF HasSession, IsLive
<1>2. CASE OpenReads(b)
  BY <1>2 DEF OpenReads
<1>3. CASE OpenLocks(b)
  BY <1>3 DEF OpenLocks
<1>4. CASE OpenReplied(b)
  BY <1>4, SessionsAssumption DEF OpenReplied, NoReply
<1> QED
  BY <1>1, <1>2, <1>3, <1>4

\* An answer keeps the installation's place and reply well typed, and is
\* only read where it names a session.
LEMMA AnswersType ==
    ASSUME IInv, NEW b \in Bridge, NEW place \in {"top", "opened"},
           NEW answer \in [session : Session \cup {None}, suspected : BOOLEAN],
           place = "opened" => answer.session \in Session,
           Answers(b, place, answer)
    PROVE  /\ at' \in [Bridge -> {"start", "enrolling", "top", "opening", "opened", "ingest",
                                  "drain", "halted"}]
           /\ reply' \in [Bridge -> [session : Session \cup {None}, suspected : BOOLEAN]]
           /\ AnswerNames'
           /\ \A c \in Bridge : at'[c] \in {"ingest", "drain"} => at[c] = at'[c]
<1>0. /\ at \in [Bridge -> {"start", "enrolling", "top", "opening", "opened", "ingest",
                            "drain", "halted"}]
      /\ reply \in [Bridge -> [session : Session \cup {None}, suspected : BOOLEAN]]
      /\ \A c \in Bridge : at[c] = "opened" => reply[c].session \in Session
  BY DEF IInv, TypeOK, AnswerNames
<1>1. CASE at[b] = "opening"
  <2>1. at' = [at EXCEPT ![b] = place] /\ reply' = [reply EXCEPT ![b] = answer]
    BY <1>1 DEF Answers, Goes
  <2>2. \A c \in Bridge : at'[c] = "opened" => reply'[c].session \in Session
    BY <1>0, <2>1
  <2>3. AnswerNames'
    BY <2>2 DEF AnswerNames
  <2> QED
    BY <1>0, <2>1, <2>3
<1>2. CASE at[b] # "opening"
  BY <1>0, <1>2 DEF Answers, AnswerNames
<1> QED
  BY <1>1, <1>2

LEMMA OpenRefusedKeepsIInv ==
    ASSUME IInv, NEW b \in Bridge, OpenRefused(b)
    PROVE  IInv'
<1>1. NoReply \in [session : Session \cup {None}, suspected : BOOLEAN]
  BY DEF NoReply
<1>2. Answers(b, "top", NoReply)
  BY DEF OpenRefused
<1>3. /\ at' \in [Bridge -> {"start", "enrolling", "top", "opening", "opened", "ingest",
                             "drain", "halted"}]
      /\ reply' \in [Bridge -> [session : Session \cup {None}, suspected : BOOLEAN]]
      /\ AnswerNames'
      /\ \A c \in Bridge : at'[c] \in {"ingest", "drain"} => at[c] = at'[c]
  BY <1>1, <1>2, AnswersType
<1>4. UNCHANGED <<device, sess, event, takeovers, halt, localVars, faults>>
  BY DEF OpenRefused, RolledBack
<1>5. txn' \in [Bridge -> [at : {"none", "chosen", "locked"}, prior : Session \cup {None}]]
  BY DEF OpenRefused, NoTxn, IInv, TypeOK
<1> QED
  BY <1>3, <1>4, <1>5 DEF IInv, TypeOK, RecentLive, OneLiveSession, Live

\* What the index leaves of the live sessions when an opening commits.
LEMMA CommitLeavesOne ==
    ASSUME IInv, NEW b \in Bridge, OpenCommits(b)
    PROVE  \E new \in Spare :
              /\ Live \subseteq {txn[b].prior}
              /\ new \in Session /\ new \notin Live
              /\ Live' = {new}
              /\ sess'[new].recent
              /\ sess' \in [Session -> SessionRow]
              /\ RecentLive'
              /\ Answers(b, "opened", [session |-> new, suspected |-> Counted(b).suspected])
<1> DEFINE new == CHOOSE s \in Spare : TRUE
           prior == txn[b].prior
           row == [state |-> "live", event |-> event[b], ttl |-> "fresh", recent |-> TRUE]
<1>1. new \in Spare
  BY DEF OpenCommits
<1>2. /\ sess' = [s \in Session |->
             IF s = new THEN row
             ELSE IF s = prior THEN [sess[s] EXCEPT !.state = "superseded", !.recent = FALSE]
             ELSE IF s \in Spare THEN FreeRow
             ELSE sess[s]]
      /\ Answers(b, "opened", [session |-> new, suspected |-> Counted(b).suspected])
  BY DEF OpenCommits
<1>3. Live \subseteq {prior}
  BY DEF OpenCommits, IndexViolated
<1>4. new \in Session /\ new \notin Live
  BY <1>1 DEF Spare, Live
<1> HIDE DEF new
<1>5. row \in SessionRow /\ FreeRow \in SessionRow
  BY DEF SessionRow, FreeRow, IInv, TypeOK
<1>t. sess \in [Session -> SessionRow] /\ \A s \in Session : sess[s].recent => sess[s].state = "live"
  BY DEF IInv, TypeOK, RecentLive
<1>6. \A s \in Session : [sess[s] EXCEPT !.state = "superseded", !.recent = FALSE] \in SessionRow
  BY <1>t DEF SessionRow
<1>7. sess' \in [Session -> SessionRow]
  <2> HIDE DEF row
  <2> QED
    BY <1>t, <1>2, <1>5, <1>6
<1>8. sess'[new].state = "live" /\ sess'[new].recent
  BY <1>2, <1>4
<1>9. ASSUME NEW s \in Session, s # new
      PROVE  sess'[s].state # "live" /\ ~sess'[s].recent
  <2>1. CASE s = prior
    <3>1. sess'[s] = [sess[s] EXCEPT !.state = "superseded", !.recent = FALSE]
      BY <1>2, <1>9, <2>1
    <3> QED
      BY <3>1, <1>t DEF SessionRow
  <2>2. CASE s # prior /\ s \in Spare
    <3>1. sess'[s] = FreeRow
      BY <1>2, <1>9, <2>2
    <3> QED
      BY <3>1 DEF FreeRow
  <2>3. CASE s # prior /\ s \notin Spare
    <3>1. sess'[s] = sess[s]
      BY <1>2, <1>9, <2>3
    <3>2. sess[s].state # "live"
      BY <1>3, <2>3 DEF Live
    <3> QED
      BY <3>1, <3>2, <1>t
  <2> QED
    BY <2>1, <2>2, <2>3
<1>10. Live' = {new}
  BY <1>4, <1>8, <1>9 DEF Live
<1>11. RecentLive'
  BY <1>8, <1>9 DEF RecentLive
<1> QED
  BY <1>1, <1>2, <1>3, <1>4, <1>7, <1>8, <1>10, <1>11

LEMMA CountedType ==
    ASSUME IInv, NEW b \in Bridge
    PROVE  Counted(b) \in [ status : {"none", "active", "compromised"},
                            code : {"unspent", "spent"},
                            signals : 0..CloneThreshold, suspected : BOOLEAN ]
<1>1. CloneThreshold \in Nat \ {0}
  BY SessionsAssumption
<1> DEFINE n == IF device.signals < CloneThreshold THEN device.signals + 1 ELSE device.signals
<1>2. device \in [ status : {"none", "active", "compromised"}, code : {"unspent", "spent"},
                   signals : 0..CloneThreshold, suspected : BOOLEAN ]
  BY DEF IInv, TypeOK
<1>3. n \in 0..CloneThreshold
  BY <1>1, <1>2
<1>4. (device.suspected \/ n = CloneThreshold) \in BOOLEAN
  BY <1>2
<1>5. Counted(b) = device
        \/ Counted(b) = [device EXCEPT !.signals = n, !.suspected = @ \/ n = CloneThreshold]
  BY DEF Counted
<1> HIDE DEF n
<1> QED
  BY <1>2, <1>3, <1>4, <1>5

LEMMA OpenCommitsKeepsIInv ==
    ASSUME IInv, NEW b \in Bridge, OpenCommits(b)
    PROVE  IInv'
<1>1. PICK new \in Spare :
              /\ Live \subseteq {txn[b].prior}
              /\ new \in Session /\ new \notin Live
              /\ Live' = {new}
              /\ sess'[new].recent
              /\ sess' \in [Session -> SessionRow]
              /\ RecentLive'
              /\ Answers(b, "opened", [session |-> new, suspected |-> Counted(b).suspected])
  BY CommitLeavesOne
<1>2. [session |-> new, suspected |-> Counted(b).suspected]
        \in [session : Session \cup {None}, suspected : BOOLEAN]
  BY <1>1, CountedType
<1>3. /\ at' \in [Bridge -> {"start", "enrolling", "top", "opening", "opened", "ingest",
                             "drain", "halted"}]
      /\ reply' \in [Bridge -> [session : Session \cup {None}, suspected : BOOLEAN]]
      /\ AnswerNames'
      /\ \A c \in Bridge : at'[c] \in {"ingest", "drain"} => at[c] = at'[c]
  BY <1>1, <1>2, AnswersType
<1>4. /\ device' = Counted(b)
      /\ txn' = [txn EXCEPT ![b] = NoTxn]
      /\ UNCHANGED <<event, takeovers, halt, localVars, faults>>
  BY DEF OpenCommits
<1>5. txn' \in [Bridge -> [at : {"none", "chosen", "locked"}, prior : Session \cup {None}]]
  BY <1>4 DEF NoTxn, IInv, TypeOK
<1>6. device' \in [ status : {"none", "active", "compromised"}, code : {"unspent", "spent"},
                    signals : 0..CloneThreshold, suspected : BOOLEAN ]
  BY <1>4, CountedType
<1>7. TypeOK'
  BY <1>1, <1>3, <1>4, <1>5, <1>6 DEF IInv, TypeOK
<1>8. OneLiveSession'
  BY <1>1 DEF OneLiveSession
<1> QED
  BY <1>1, <1>3, <1>7, <1>8 DEF IInv

LEMMA CycleKeepsIInv ==
    ASSUME IInv, NEW b \in Bridge,
           Ingest(b) \/ DrainEnds(b) \/ AnnounceSuperseded(b) \/ AnnounceExpired(b)
             \/ AnnounceFromInactive(b)
    PROVE  IInv'
<1> USE DEF IInv, TypeOK, AnswerNames, RecentLive, OneLiveSession, Live, Goes, EndCycle, Clear
<1>1. CASE Ingest(b)
  <2>1. at' = [at EXCEPT ![b] = "drain"] /\ at[b] = "ingest"
    BY <1>1 DEF Ingest
  <2>2. spool' \in [Bridge -> Seq(Event)] /\ left' \in [Bridge -> Nat]
    <3>0. spool \in [Bridge -> Seq(Event)] /\ left \in [Bridge -> Nat] /\ event[b] \in Event
      OBVIOUS
    <3>1. CASE UNCHANGED <<left, spool>>
      BY <3>0, <3>1
    <3>2. CASE left[b] > 0 /\ left' = [left EXCEPT ![b] = @ - 1]
               /\ spool' = [spool EXCEPT ![b] = Append(@, event[b])]
      <4>1. Append(spool[b], event[b]) \in Seq(Event) /\ left[b] - 1 \in Nat
        BY <3>0, <3>2
      <4> QED
        BY <3>0, <3>2, <4>1
    <3> QED
      BY <1>1, <3>1, <3>2 DEF Ingest
  <2>3. UNCHANGED <<serverVars, reply, event, takeovers, halt, known, store, faults>>
    BY <1>1 DEF Ingest
  <2> QED
    BY <2>1, <2>2, <2>3
<1>2. CASE DrainEnds(b)
  BY <1>2 DEF DrainEnds
<1>3. CASE AnnounceSuperseded(b)
  BY <1>3, SessionsAssumption DEF AnnounceSuperseded, Announces
<1>4. CASE AnnounceExpired(b)
  BY <1>4 DEF AnnounceExpired, Announces
<1>5. CASE AnnounceFromInactive(b)
  BY <1>5 DEF AnnounceFromInactive, Announces
<1> QED
  BY <1>1, <1>2, <1>3, <1>4, <1>5

\* A request that is let through leaves the live sessions as they were.
LEMMA TouchedKeeps ==
    ASSUME IInv, NEW s \in Session, sess' = Touched(s)
    PROVE  /\ sess' \in [Session -> SessionRow]
           /\ Live' = Live
           /\ RecentLive'
           /\ \A t \in Session : t # s => sess'[t] = sess[t]
           /\ sess' # sess => s \in Live /\ sess'[s].recent
<1>0. sess \in [Session -> SessionRow] /\ \A t \in Session : sess[t].recent => sess[t].state = "live"
  BY DEF IInv, TypeOK, RecentLive
<1>1. CASE sess[s].state = "live" /\ ~IsLocked(s)
  <2>1. sess' = [sess EXCEPT ![s].recent = TRUE]
    BY <1>1 DEF Touched
  <2>2. \A t \in Session : /\ sess'[t].state = sess[t].state
                           /\ t # s => sess'[t] = sess[t]
                           /\ sess'[t].recent => sess'[t].state = "live"
    BY <1>0, <1>1, <2>1 DEF SessionRow
  <2>3. sess' \in [Session -> SessionRow]
    BY <1>0, <2>1 DEF SessionRow
  <2>4. sess'[s].recent
    BY <1>0, <2>1 DEF SessionRow
  <2> QED
    BY <1>1, <2>2, <2>3, <2>4 DEF Live, RecentLive
<1>2. CASE ~(sess[s].state = "live" /\ ~IsLocked(s))
  <2>1. sess' = sess
    BY <1>2 DEF Touched
  <2> QED
    BY <1>0, <2>1 DEF Live, RecentLive
<1> QED
  BY <1>1, <1>2

LEMMA AnnouncingKeepsIInv ==
    ASSUME IInv, NEW b \in Bridge, AnnounceWrongEvent(b) \/ AnnounceAccepted(b)
    PROVE  IInv'
<1>1. store[b] \in Session /\ sess' = Touched(store[b])
  BY DEF AnnounceWrongEvent, AnnounceAccepted, Announces, IInv, TypeOK
<1>2. sess' \in [Session -> SessionRow] /\ Live' = Live /\ RecentLive'
  BY <1>1, TouchedKeeps
<1>3. OneLiveSession'
  BY <1>2 DEF IInv, OneLiveSession
<1>4. CASE AnnounceWrongEvent(b)
  BY <1>2, <1>3, <1>4 DEF AnnounceWrongEvent, EndCycle, Goes, Announces, IInv, TypeOK, AnswerNames
<1>5. CASE AnnounceAccepted(b)
  <2>1. Tail(spool[b]) \in Seq(Event)
    BY <1>5 DEF AnnounceAccepted, Announces, IInv, TypeOK
  <2>2. spool' \in [Bridge -> Seq(Event)]
    BY <1>5, <2>1 DEF AnnounceAccepted, IInv, TypeOK
  <2>3. UNCHANGED <<device, txn, procVars, known, store, left, faults>>
    BY <1>5 DEF AnnounceAccepted
  <2> QED
    BY <1>2, <1>3, <2>2, <2>3 DEF IInv, TypeOK, AnswerNames
<1> QED
  BY <1>4, <1>5

LEMMA FaultType ==
    ASSUME IInv, NEW kind, Fault(kind)
    PROVE  faults' \in [left : 0..MaxFaults, kinds : SUBSET FaultKind]
<1>1. MaxFaults \in Nat
  BY SessionsAssumption
<1>2. faults.left - 1 \in 0..MaxFaults
  BY <1>1 DEF Fault, IInv, TypeOK
<1> QED
  BY <1>2 DEF Fault, IInv, TypeOK

LEMMA TimeKeepsIInv ==
    ASSUME IInv, NEW s \in Session, Expires(s) \/ FallsSilent(s)
    PROVE  IInv'
<1>0. sess \in [Session -> SessionRow] /\ \A t \in Session : sess[t].recent => sess[t].state = "live"
  BY DEF IInv, TypeOK, RecentLive
<1>1. faults' \in [left : 0..MaxFaults, kinds : SUBSET FaultKind]
  BY FaultType DEF Expires, FallsSilent, IInv, TypeOK
<1>2. /\ sess' \in [Session -> SessionRow]
      /\ \A t \in Session : sess'[t].state = sess[t].state /\ (sess'[t].recent => sess[t].recent)
  <2>1. CASE Expires(s)
    <3>1. sess' = [sess EXCEPT ![s].ttl = IF @ = "fresh" THEN "closing" ELSE "over"]
      BY <2>1 DEF Expires
    <3> QED
      BY <1>0, <3>1 DEF SessionRow
  <2>2. CASE FallsSilent(s)
    <3>1. sess' = [sess EXCEPT ![s].recent = FALSE]
      BY <2>2 DEF FallsSilent
    <3> QED
      BY <1>0, <3>1 DEF SessionRow
  <2> QED
    BY <2>1, <2>2
<1>3. UNCHANGED <<device, txn, procVars, localVars>>
  BY DEF Expires, FallsSilent
<1>4. RecentLive'
  BY <1>0, <1>2 DEF RecentLive
<1>5. Live' = Live
  BY <1>2 DEF Live
<1>6. TypeOK'
  BY <1>1, <1>2, <1>3 DEF IInv, TypeOK
<1> QED
  BY <1>3, <1>4, <1>5, <1>6 DEF IInv, AnswerNames, OneLiveSession

LEMMA InterruptionKeepsIInv ==
    ASSUME IInv, NEW b \in Bridge, RequestLost(b) \/ Restart(b) \/ Reassign(b)
    PROVE  IInv'
<1> USE DEF Goes
<1>1. NoReply \in [session : Session \cup {None}, suspected : BOOLEAN]
  BY DEF NoReply
<1>2. faults' \in [left : 0..MaxFaults, kinds : SUBSET FaultKind]
  BY FaultType DEF RequestLost, Restart, Reassign
<1>3. /\ \E place \in {"start", "top"} : at' = [at EXCEPT ![b] = place]
      /\ reply' = [reply EXCEPT ![b] = NoReply]
      /\ UNCHANGED <<device, sess, txn, localVars>>
  BY DEF RequestLost, Restart, Reassign, Restarts
<1>4. AnswerNames'
  BY <1>3 DEF IInv, TypeOK, AnswerNames
<1>5. RecentLive' /\ OneLiveSession'
  BY <1>3 DEF IInv, RecentLive, OneLiveSession, Live
<1>6. /\ event' \in [Bridge -> Event]
      /\ takeovers' \in [Bridge -> 0..MaxTakeovers + 1]
      /\ halt' \in [Bridge -> {None, "clone_suspected", "session_contended"}]
  <2>1. /\ event \in [Bridge -> Event]
        /\ takeovers \in [Bridge -> 0..MaxTakeovers + 1]
        /\ halt \in [Bridge -> {None, "clone_suspected", "session_contended"}]
    BY DEF IInv, TypeOK
  <2>2. CASE RequestLost(b)
    BY <2>1, <2>2 DEF RequestLost
  <2>3. ASSUME NEW e \in Event, Restarts(b, e)
        PROVE  <1>6!:
    <3>1. 0 \in 0..MaxTakeovers + 1
      BY SessionsAssumption
    <3> QED
      BY <2>1, <2>3, <3>1 DEF Restarts
  <2>4. event[b] \in Event
    BY <2>1
  <2> QED
    BY <2>2, <2>3, <2>4 DEF Restart, Reassign
<1>7. /\ at' \in [Bridge -> {"start", "enrolling", "top", "opening", "opened", "ingest",
                             "drain", "halted"}]
      /\ reply' \in [Bridge -> [session : Session \cup {None}, suspected : BOOLEAN]]
      /\ \A c \in Bridge : at'[c] \in {"ingest", "drain"} => at[c] \in {"ingest", "drain"}
  BY <1>1, <1>3 DEF IInv, TypeOK
<1>8. TypeOK'
  BY <1>2, <1>3, <1>6, <1>7 DEF IInv, TypeOK
<1> QED
  BY <1>4, <1>5, <1>8 DEF IInv

LEMMA OperatorKeepsIInv ==
    ASSUME IInv, SuspicionCleared \/ Compromised
    PROVE  IInv'
<1>0. /\ sess \in [Session -> SessionRow]
      /\ \A t \in Session : sess[t].recent => sess[t].state = "live"
      /\ device \in [ status : {"none", "active", "compromised"}, code : {"unspent", "spent"},
                      signals : 0..CloneThreshold, suspected : BOOLEAN ]
  BY DEF IInv, TypeOK, RecentLive
<1>1. faults' \in [left : 0..MaxFaults, kinds : SUBSET FaultKind]
  BY FaultType DEF SuspicionCleared, Compromised
<1>2. device' \in [ status : {"none", "active", "compromised"}, code : {"unspent", "spent"},
                    signals : 0..CloneThreshold, suspected : BOOLEAN ]
  <2>1. 0 \in 0..CloneThreshold
    BY SessionsAssumption
  <2>2. CASE SuspicionCleared
    BY <1>0, <2>1, <2>2 DEF SuspicionCleared
  <2>3. CASE Compromised
    BY <1>0, <2>3 DEF Compromised
  <2> QED
    BY <2>2, <2>3
<1>3. /\ UNCHANGED <<reply, event, takeovers, halt, localVars>>
      /\ txn' \in [Bridge -> [at : {"none", "chosen", "locked"}, prior : Session \cup {None}]]
      /\ at' \in [Bridge -> {"start", "enrolling", "top", "opening", "opened", "ingest",
                              "drain", "halted"}]
      /\ \A b \in Bridge : at'[b] \in {"opened", "ingest", "drain"} => at'[b] = at[b]
  <2>1. /\ txn \in [Bridge -> [at : {"none", "chosen", "locked"}, prior : Session \cup {None}]]
        /\ at \in [Bridge -> {"start", "enrolling", "top", "opening", "opened", "ingest",
                               "drain", "halted"}]
    BY DEF IInv, TypeOK
  <2>2. CASE SuspicionCleared
    BY <2>1, <2>2 DEF SuspicionCleared
  <2>3. CASE Compromised
    <3>1. /\ UNCHANGED <<reply, event, takeovers, halt, localVars>>
          /\ txn' = [b \in Bridge |-> IF InTheWay(b) THEN NoTxn ELSE txn[b]]
          /\ at' = [b \in Bridge |-> IF InTheWay(b) /\ at[b] = "opening" THEN "top" ELSE at[b]]
      BY <2>3 DEF Compromised
    <3>2. NoTxn \in [at : {"none", "chosen", "locked"}, prior : Session \cup {None}]
      BY DEF NoTxn
    <3> QED
      BY <2>1, <3>1, <3>2
  <2> QED
    BY <2>2, <2>3
<1>a. AnswerNames'
  BY <1>3 DEF IInv, AnswerNames
<1>4. CASE sess' = sess
  <2>1. TypeOK'
    BY <1>1, <1>2, <1>3, <1>4 DEF IInv, TypeOK
  <2> QED
    BY <1>a, <1>4, <2>1 DEF IInv, RecentLive, OneLiveSession, Live
<1>5. CASE Compromised
  <2>1. sess' = [s \in Session |-> IF s \in Live
                   THEN [sess[s] EXCEPT !.state = "revoked", !.recent = FALSE] ELSE sess[s]]
    BY <1>5 DEF Compromised
  <2>2. ASSUME NEW s \in Session
        PROVE  /\ sess'[s] \in SessionRow
               /\ sess'[s].state # "live" /\ ~sess'[s].recent
    <3>1. CASE s \in Live
      BY <1>0, <2>1, <3>1 DEF SessionRow
    <3>2. CASE s \notin Live
      BY <1>0, <2>1, <3>2 DEF Live
    <3> QED
      BY <3>1, <3>2
  <2>3. sess' \in [Session -> SessionRow]
    BY <2>1, <2>2
  <2>4. Live' = {} /\ RecentLive'
    BY <2>2 DEF Live, RecentLive
  <2>5. TypeOK'
    BY <1>1, <1>2, <1>3, <2>3 DEF IInv, TypeOK
  <2> QED
    BY <1>a, <2>4, <2>5 DEF IInv, OneLiveSession
<1> QED
  BY <1>4, <1>5 DEF SuspicionCleared

\* Time, faults and operators.
LEMMA EnvironmentKeepsIInv ==
    ASSUME IInv, Environment
    PROVE  IInv'
BY TimeKeepsIInv, InterruptionKeepsIInv, OperatorKeepsIInv DEF Environment

LEMMA StutterKeepsIInv ==
    ASSUME IInv, UNCHANGED vars
    PROVE  IInv'
BY DEF vars, IInv, TypeOK, AnswerNames, RecentLive, OneLiveSession, Live

LEMMA NextKeepsIInv == IInv /\ [Next]_vars => IInv'
<1> SUFFICES ASSUME IInv, [Next]_vars
             PROVE  IInv'
  OBVIOUS
<1>1. ASSUME NEW b \in Bridge, Server(b)
      PROVE  IInv'
  BY <1>1, AskingKeepsIInv, OpenRefusedKeepsIInv, OpenCommitsKeepsIInv DEF Server
<1>2. ASSUME NEW b \in Bridge, Process(b)
      PROVE  IInv'
  BY <1>2, EnrollmentKeepsIInv, AskingKeepsIInv, CycleKeepsIInv, AnnouncingKeepsIInv DEF Process
<1>3. CASE Environment
  BY <1>3, EnvironmentKeepsIInv
<1>4. CASE UNCHANGED vars
  BY <1>4, StutterKeepsIInv
<1> QED
  BY <1>1, <1>2, <1>3, <1>4 DEF Next

LEMMA SpecIInv == Spec => []IInv
<1>1. Init => IInv
  BY InitIInv
<1>2. IInv /\ [Next]_vars => IInv'
  BY NextKeepsIInv
<1> QED
  BY <1>1, <1>2, PTL DEF Spec

\* Every reachable state of the sessions model is well typed.
THEOREM SessionsTypeOK == Spec => []TypeOK
BY SpecIInv, PTL DEF IInv

\* A device has one live session at most, for any number of installations
\* opening at once: what the partial unique index and the single transaction
\* of 0007 achieve together.
THEOREM SessionsExclusive == Spec => []OneLiveSession
BY SpecIInv, PTL DEF IInv

-----------------------------------------------------------------------------
\* The refinement of DeviceLease.

\* Whether the holder was active within the window: what DeviceLease calls working.
HolderWorks == Holder # None /\ sess[Holder].recent

LEMMA HolderOfOne ==
    ASSUME NEW s
    PROVE  HolderOf({s}) = s
BY DEF HolderOf

LEMMA HolderOfNone == HolderOf({}) = None
BY DEF HolderOf

\* The holder is the one live session, and there is none while no session is live.
LEMMA HolderIsLive ==
    ASSUME IInv
    PROVE  /\ Live = {} => Holder = None
           /\ \A s \in Live : Holder = s /\ Live = {s}
           /\ Holder # None => Holder \in Live
<1>1. Live = {} => Holder = None
  BY HolderOfNone DEF Holder
<1>2. ASSUME NEW s \in Live
      PROVE  Holder = s /\ Live = {s}
  <2>1. Live = {s}
    BY <1>2 DEF IInv, OneLiveSession
  <2> QED
    BY <2>1, HolderOfOne DEF Holder
<1>3. Holder # None => Holder \in Live
  BY <1>1, <1>2
<1> QED
  BY <1>1, <1>2, <1>3

\* A step that leaves the live sessions alone leaves the holder alone.
LEMMA SameLiveSameHolder ==
    ASSUME Live' = Live
    PROVE  Holder' = Holder
BY DEF Holder

\* Nothing the lease can see has changed.
LEMMA Unseen ==
    ASSUME sess' = sess, device'.signals = device.signals, device'.suspected = device.suspected
    PROVE  UNCHANGED Lease!lease
<1>1. Live' = Live
  BY DEF Live
<1>2. Holder' = Holder
  BY <1>1, SameLiveSameHolder
<1> QED
  BY <1>2 DEF Lease!lease

\* The steps that open no session, let no request through and let none lapse.
LEMMA QuietSteps ==
    ASSUME IInv, NEW b \in Bridge,
           \/ EnrollHandled(b) \/ EnrollReplied(b) \/ Runs(b) \/ HasSession(b)
           \/ OpenReads(b) \/ OpenLocks(b) \/ OpenRefused(b) \/ OpenReplied(b) \/ Ingest(b)
           \/ DrainEnds(b) \/ AnnounceSuperseded(b) \/ AnnounceExpired(b)
           \/ AnnounceFromInactive(b) \/ RequestLost(b) \/ Restart(b) \/ Reassign(b)
    PROVE  UNCHANGED Lease!lease
<1>1. sess' = sess
  BY DEF EnrollHandled, EnrollReplied, Runs, HasSession, OpenReads, OpenLocks,
         OpenRefused, OpenReplied, Ingest, DrainEnds, AnnounceSuperseded, AnnounceExpired,
         AnnounceFromInactive, RequestLost, Restart, Reassign, Restarts
<1>2. device'.signals = device.signals /\ device'.suspected = device.suspected
  <2>1. CASE EnrollHandled(b)
    BY <2>1 DEF EnrollHandled, IInv, TypeOK
  <2>2. CASE ~EnrollHandled(b)
    BY <2>2 DEF EnrollReplied, Runs, HasSession, OpenReads, OpenLocks, RolledBack,
         OpenRefused, OpenReplied, Ingest, DrainEnds, AnnounceSuperseded, AnnounceExpired,
         AnnounceFromInactive, RequestLost, Restart, Reassign, Restarts
  <2> QED
    BY <2>1, <2>2
<1> QED
  BY <1>1, <1>2, Unseen

\* Opening a session takes the lease, and counts it if its holder was at work.
LEMMA OpeningTakes ==
    ASSUME IInv, NEW b \in Bridge, OpenCommits(b)
    PROVE  Lease!Next
<1>1. PICK new \in Spare :
              /\ Live \subseteq {txn[b].prior}
              /\ new \in Session /\ new \notin Live
              /\ Live' = {new}
              /\ sess'[new].recent
              /\ sess' \in [Session -> SessionRow]
              /\ RecentLive'
              /\ Answers(b, "opened", [session |-> new, suspected |-> Counted(b).suspected])
  BY CommitLeavesOne
<1>2. new # None
  BY <1>1, SessionsAssumption
<1>3. Holder' = new
  <2>1. Holder' = HolderOf(Live')
    BY DEF Holder
  <2> QED
    BY <1>1, <2>1, HolderOfOne
<1>4. new # Holder
  BY <1>1, <1>2, HolderIsLive
<1>5. HolderWorks'
  BY <1>1, <1>2, <1>3 DEF HolderWorks
<1>6. Signal(b) <=> HolderWorks
  <2>1. CASE Live = {}
    <3>1. ~HolderWorks
      BY <2>1, HolderIsLive DEF HolderWorks
    <3>2. ~Signal(b)
      BY <2>1 DEF Signal, IInv, TypeOK, RecentLive, Live
    <3> QED
      BY <3>1, <3>2
  <2>2. CASE Live # {}
    <3>1. Live = {txn[b].prior} /\ Holder = txn[b].prior /\ txn[b].prior \in Session
      BY <1>1, <2>2, HolderIsLive DEF Live
    <3> QED
      BY <3>1 DEF Signal, HolderWorks
  <2> QED
    BY <2>1, <2>2
<1>7. device' = Counted(b)
  BY DEF OpenCommits
<1> DEFINE n == IF device.signals < CloneThreshold THEN device.signals + 1 ELSE device.signals
           m == IF HolderWorks /\ device.signals < CloneThreshold THEN device.signals + 1
                ELSE device.signals
<1>8. device'.signals = m
      /\ (device'.suspected <=> device.suspected \/ (HolderWorks /\ m = CloneThreshold))
  <2>1. device \in [ status : {"none", "active", "compromised"}, code : {"unspent", "spent"},
                     signals : 0..CloneThreshold, suspected : BOOLEAN ]
    BY DEF IInv, TypeOK
  <2>2. CASE Signal(b)
    <3>1. device' = [device EXCEPT !.signals = n, !.suspected = @ \/ n = CloneThreshold]
      BY <1>7, <2>2 DEF Counted
    <3>2. m = n
      BY <1>6, <2>2
    <3> HIDE DEF n, m
    <3>3. device'.signals = n /\ device'.suspected = (device.suspected \/ n = CloneThreshold)
      BY <2>1, <3>1
    <3> QED
      BY <1>6, <2>2, <3>2, <3>3
  <2>3. CASE ~Signal(b)
    <3>1. device' = device
      BY <1>7, <2>3 DEF Counted
    <3> QED
      BY <1>6, <2>3, <3>1
  <2> QED
    BY <2>2, <2>3
<1>9. device'.suspected \in BOOLEAN
  BY <1>7, CountedType
<1>10. Lease!Take(new)
  <2>1. Lease!Count = m
    BY DEF Lease!Count, HolderWorks
  <2> HIDE DEF m
  <2>2. device'.suspected = (device.suspected \/ (HolderWorks /\ m = CloneThreshold))
    BY <1>8, <1>9
  <2> QED
    BY <1>3, <1>4, <1>5, <1>8, <2>1, <2>2 DEF Lease!Take, HolderWorks
<1> QED
  BY <1>1, <1>10 DEF Lease!Next

\* A request the server lets through is the holder's, or of a session that is
\* not live, which leaves no trace.
LEMMA RequestBeats ==
    ASSUME IInv, NEW b \in Bridge, AnnounceWrongEvent(b) \/ AnnounceAccepted(b)
    PROVE  [Lease!Next]_Lease!lease
<1>1. store[b] \in Session /\ sess' = Touched(store[b]) /\ device' = device
  BY DEF AnnounceWrongEvent, AnnounceAccepted, Announces, IInv, TypeOK
<1>2. /\ Live' = Live
      /\ sess' # sess => store[b] \in Live /\ sess'[store[b]].recent
  BY <1>1, TouchedKeeps
<1>3. Holder' = Holder
  BY <1>2, SameLiveSameHolder
<1>4. CASE sess' = sess
  BY <1>1, <1>4, Unseen
<1>5. CASE sess' # sess
  <2>1. Holder = store[b] /\ Holder # None
    BY <1>1, <1>2, <1>5, HolderIsLive, SessionsAssumption
  <2>2. HolderWorks'
    BY <1>2, <1>3, <1>5, <2>1 DEF HolderWorks
  <2>3. Lease!Beat
    BY <1>1, <1>3, <2>1, <2>2 DEF Lease!Beat, HolderWorks
  <2> QED
    BY <2>3 DEF Lease!Next
<1> QED
  BY <1>4, <1>5

LEMMA TimeIsSilence ==
    ASSUME IInv, NEW s \in Session, Expires(s) \/ FallsSilent(s)
    PROVE  [Lease!Next]_Lease!lease
<1>0. sess \in [Session -> SessionRow]
  BY DEF IInv, TypeOK
<1>1. device' = device
  BY DEF Expires, FallsSilent
<1>2. CASE Expires(s)
  <2>1. \A t \in Session : sess'[t].state = sess[t].state /\ sess'[t].recent = sess[t].recent
    BY <1>0, <1>2 DEF Expires, SessionRow
  <2>2. Live' = Live
    BY <2>1 DEF Live
  <2>3. Holder' = Holder
    BY <2>2, SameLiveSameHolder
  <2>4. Holder # None => sess'[Holder].recent = sess[Holder].recent
    BY <2>1, HolderIsLive DEF Live
  <2>5. (Holder' # None /\ sess'[Holder'].recent) = (Holder # None /\ sess[Holder].recent)
    BY <2>3, <2>4
  <2> QED
    BY <1>1, <2>3, <2>5 DEF Lease!lease
<1>3. CASE FallsSilent(s)
  <2>1. s \in Live /\ sess' = [sess EXCEPT ![s].recent = FALSE]
    BY <1>3 DEF FallsSilent, Live
  <2>2. /\ \A t \in Session : sess'[t].state = sess[t].state
        /\ ~sess'[s].recent
    BY <1>0, <2>1 DEF SessionRow
  <2>3. Live' = Live
    BY <2>2 DEF Live
  <2>4. Holder' = Holder
    BY <2>3, SameLiveSameHolder
  <2>5. Holder = s
    BY <2>1, HolderIsLive
  <2>6. (Holder' # None /\ sess'[Holder'].recent) = FALSE
    BY <2>2, <2>4, <2>5
  <2>7. Lease!Silence
    BY <1>1, <2>4, <2>6 DEF Lease!Silence
  <2> QED
    BY <2>7 DEF Lease!Next
<1> QED
  BY <1>2, <1>3

LEMMA OperatorActs ==
    ASSUME IInv, SuspicionCleared \/ Compromised
    PROVE  [Lease!Next]_Lease!lease
<1>0. /\ sess \in [Session -> SessionRow]
      /\ device \in [ status : {"none", "active", "compromised"}, code : {"unspent", "spent"},
                      signals : 0..CloneThreshold, suspected : BOOLEAN ]
  BY DEF IInv, TypeOK
<1>1. CASE SuspicionCleared
  <2>1. sess' = sess /\ device'.signals = 0 /\ device'.suspected = FALSE
    BY <1>0, <1>1 DEF SuspicionCleared
  <2>2. Live' = Live
    BY <2>1 DEF Live
  <2>3. Holder' = Holder
    BY <2>2, SameLiveSameHolder
  <2>4. Lease!Clear
    BY <2>1, <2>3 DEF Lease!Clear
  <2> QED
    BY <2>4 DEF Lease!Next
<1>2. CASE Compromised
  <2>1. \A s \in Session : sess'[s].state # "live"
    BY <1>0, <1>2 DEF Compromised, SessionRow, Live
  <2>2. Live' = {}
    BY <2>1 DEF Live
  <2>3. Holder' = None
    <3>1. Holder' = HolderOf(Live')
      BY DEF Holder
    <3> QED
      BY <2>2, <3>1, HolderOfNone
  <2>4. device'.signals = device.signals /\ device'.suspected = device.suspected
    BY <1>0, <1>2 DEF Compromised
  <2>5. (Holder' # None /\ sess'[Holder'].recent) = FALSE
    BY <2>3
  <2>6. Lease!Revoke
    BY <2>3, <2>4, <2>5 DEF Lease!Revoke
  <2> QED
    BY <2>6 DEF Lease!Next
<1> QED
  BY <1>1, <1>2

\* The initial states map to initial states of the lease.
LEMMA LeaseInit == Init => Lease!Init
<1> SUFFICES ASSUME Init
             PROVE  Lease!Init
  OBVIOUS
<1>1. Live = {}
  BY DEF Init, Live, FreeRow
<1>2. Holder = None
  BY <1>1, HolderOfNone DEF Holder
<1>3. device.signals = 0 /\ device.suspected = FALSE
  BY DEF Init
<1>4. (Holder # None /\ sess[Holder].recent) = FALSE
  BY <1>2
<1> QED
  BY <1>2, <1>3, <1>4 DEF Lease!Init

\* Every step maps to a step of the lease, or to none.
LEMMA LeaseStep == IInv /\ [Next]_vars => [Lease!Next]_Lease!lease
<1> SUFFICES ASSUME IInv, [Next]_vars
             PROVE  [Lease!Next]_Lease!lease
  OBVIOUS
<1>1. ASSUME NEW b \in Bridge, Server(b)
      PROVE  [Lease!Next]_Lease!lease
  BY <1>1, QuietSteps, OpeningTakes DEF Server
<1>2. ASSUME NEW b \in Bridge, Process(b)
      PROVE  [Lease!Next]_Lease!lease
  BY <1>2, QuietSteps, RequestBeats DEF Process
<1>3. CASE Environment
  BY <1>3, QuietSteps, TimeIsSilence, OperatorActs DEF Environment
<1>4. CASE UNCHANGED vars
  <2>1. sess' = sess /\ device' = device
    BY <1>4 DEF vars
  <2> QED
    BY <2>1, Unseen
<1> QED
  BY <1>1, <1>2, <1>3, <1>4 DEF Next

\* Enrollment, opening, announcing, expiry, revocation and every fault together
\* implement DeviceLease: a working session changes hands in one step and is
\* counted exactly once, though the two transactions that race to open one are
\* cut where they read, lock and commit.
THEOREM SessionsImplementLease == Spec => LeaseKept
<1>1. Init => Lease!Init
  BY LeaseInit
<1>2. IInv /\ [Next]_vars => [Lease!Next]_Lease!lease
  BY LeaseStep
<1> QED
  BY <1>1, <1>2, SpecIInv, PTL DEF Spec, LeaseKept, Lease!Spec

=============================================================================
