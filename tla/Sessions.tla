------------------------------ MODULE Sessions ------------------------------
(***************************************************************************)
(* One device identity and the installations that use it: enrollment and   *)
(* the session part of the run loop (bridge/src/bridge.js, identity.js),   *)
(* against the endpoints of bridge/test/fake-server.js and the exclusivity *)
(* of supabase/migrations/0007_device_session_exclusivity.sql.             *)
(*                                                                         *)
(* Two installations are two machines that hold one key pair.  Opening a   *)
(* session is a transaction at READ COMMITTED, cut where it reads, where   *)
(* it takes its row lock and where it commits.  A photograph is here the   *)
(* event it was taken at; CapturePipeline says how one is uploaded.        *)
(***************************************************************************)
EXTENDS Naturals, Sequences, FiniteSets

CONSTANTS
    Bridge,         \* installations of the one device
    Event,          \* events of its organization, all live
    Session,        \* ids of device_sessions, reused when nothing refers to one
    None,
    StartEvent,     \* the event each installation is first started for
    Shots,          \* how many photographs each takes
    MaxTakeovers,   \* maxSessionTakeovers
    CloneThreshold, \* clone_signal_threshold()
    FaultMixes,     \* sets of fault kinds: a behaviour draws its faults from one
    MaxFaults       \* ... and has at most this many

VARIABLES
    device,         \* the server's devices row, and the enrollment code
    sess,           \* the device_sessions table
    txn,            \* open_device_session in progress, for each installation
    at,             \* where each installation's process awaits
    reply,          \* the answer to its session request, until it is read
    event,          \* the event it was started for
    takeovers,      \* sessionTakeovers
    halt,           \* haltReason
    known,          \* its own device row: status
    store,          \* its own session row
    spool,          \* events of the photographs it has not announced yet
    left,           \* photographs it will still take
    faults          \* faults still to come, and of which kinds

serverVars == <<device, sess, txn>>
procVars   == <<at, reply, event, takeovers, halt>>
localVars  == <<known, store, spool, left>>
vars       == <<serverVars, procVars, localVars, faults>>

FaultKind == {"lost", "restart", "reassign", "expiry", "clear", "compromise"}

ASSUME SessionsAssumption ==
    /\ None \notin Session
    /\ StartEvent \in [Bridge -> Event]
    /\ Shots \in [Bridge -> Nat]
    /\ MaxTakeovers \in Nat
    /\ CloneThreshold \in Nat \ {0}
    /\ FaultMixes \subseteq SUBSET FaultKind
    /\ MaxFaults \in Nat

SessionRow ==
    [ state  : {"free", "live", "superseded", "revoked"},
      event  : Event \cup {None},
      ttl    : {"fresh", "closing", "over"},  \* closing: within isLive's margin
      recent : BOOLEAN ]                      \* last_seen_at within the window

FreeRow == [state |-> "free", event |-> None, ttl |-> "fresh", recent |-> FALSE]
NoTxn   == [at |-> "none", prior |-> None]
NoReply == [session |-> None, suspected |-> FALSE]

TypeOK ==
    /\ device \in [ status : {"none", "active", "compromised"}, code : {"unspent", "spent"},
                    signals : 0..CloneThreshold, suspected : BOOLEAN ]
    /\ sess \in [Session -> SessionRow]
    /\ txn \in [Bridge -> [at : {"none", "chosen", "locked"}, prior : Session \cup {None}]]
    /\ at \in [Bridge -> {"start", "enrolling", "top", "opening", "opened", "ingest",
                          "drain", "halted"}]
    /\ reply \in [Bridge -> [session : Session \cup {None}, suspected : BOOLEAN]]
    /\ event \in [Bridge -> Event]
    /\ takeovers \in [Bridge -> 0..MaxTakeovers + 1]
    /\ halt \in [Bridge -> {None, "clone_suspected", "session_contended"}]
    /\ known \in [Bridge -> {"pending", "active", "compromised"}]
    /\ store \in [Bridge -> Session \cup {None}]
    /\ spool \in [Bridge -> Seq(Event)]
    /\ left \in [Bridge -> Nat]
    /\ faults \in [left : 0..MaxFaults, kinds : SUBSET FaultKind]
    /\ \A b \in Bridge : at[b] \in {"ingest", "drain"} => store[b] # None

Init ==
    /\ device = [status |-> "none", code |-> "unspent", signals |-> 0, suspected |-> FALSE]
    /\ sess = [s \in Session |-> FreeRow]
    /\ txn = [b \in Bridge |-> NoTxn]
    /\ at = [b \in Bridge |-> "start"]
    /\ reply = [b \in Bridge |-> NoReply]
    /\ event = StartEvent
    /\ takeovers = [b \in Bridge |-> 0]
    /\ halt = [b \in Bridge |-> None]
    /\ known = [b \in Bridge |-> "pending"]
    /\ store = [b \in Bridge |-> None]
    /\ spool = [b \in Bridge |-> <<>>]
    /\ left = Shots
    /\ faults \in [left : {MaxFaults}, kinds : FaultMixes]

Fault(kind) ==
    /\ kind \in faults.kinds
    /\ faults.left > 0
    /\ faults' = [faults EXCEPT !.left = @ - 1]

Goes(b, place) == at' = [at EXCEPT ![b] = place]

Live == {s \in Session : sess[s].state = "live"}

(***************************************************************************)
(* Enrollment: enrollIfNeeded() against /v1/devices/enroll.  It is its own *)
(* command, given once; an operator may give it again on an installation   *)
(* that was told its device is compromised.                                *)
(***************************************************************************)

\* Mutant: the enrollment code is looked up before the public key.
AcceptsUnspent == device.code = "unspent"

\* A public key the server already knows is the same device, whatever became
\* of its code.
AcceptsEnrollment == device.status # "none" \/ device.code = "unspent"

EnrollHandled(b) ==
    /\ at[b] = "start" /\ known[b] # "active"
    /\ AcceptsEnrollment
    /\ device' = IF device.status # "none" THEN device
                 ELSE [device EXCEPT !.status = "active", !.code = "spent"]
    /\ Goes(b, "enrolling")
    /\ UNCHANGED <<sess, txn, reply, event, takeovers, halt, localVars, faults>>

EnrollReplied(b) ==
    /\ at[b] = "enrolling"
    /\ known' = [known EXCEPT ![b] = "active"]
    /\ Goes(b, "top")
    /\ UNCHANGED <<serverVars, reply, event, takeovers, halt, store, spool, left, faults>>

\* The run command enrolls nobody, whatever the installation's own row says.
Runs(b) ==
    /\ at[b] = "start" /\ known[b] # "pending"
    /\ Goes(b, "top")
    /\ UNCHANGED <<serverVars, reply, event, takeovers, halt, localVars, faults>>

(***************************************************************************)
(* ensureSession() and open_device_session().                              *)
(***************************************************************************)

\* SessionStore.isLive(): it looks at the clock, not at the server.
IsLive(b) == store[b] # None /\ sess[store[b]].ttl = "fresh"

HasSession(b) ==
    /\ at[b] = "top" /\ IsLive(b)
    /\ Goes(b, "ingest")
    /\ UNCHANGED <<serverVars, reply, event, takeovers, halt, localVars, faults>>

\* The device is checked, and the live session read, without a lock.  A
\* device that is not active is refused, and the loop tries again.
OpenReads(b) ==
    /\ at[b] = "top" /\ ~IsLive(b)
    /\ known[b] = "active" /\ device.status = "active"
    /\ txn[b] = NoTxn
    /\ \E prior \in IF Live = {} THEN {None} ELSE Live :
         txn' = [txn EXCEPT ![b] = [at |-> "chosen", prior |-> prior]]
    /\ Goes(b, "opening")
    /\ UNCHANGED <<device, sess, reply, event, takeovers, halt, localVars, faults>>

LockedBy(b, s) == s # None /\ txn[b].at = "locked" /\ txn[b].prior = s
IsLocked(s)    == \E b \in Bridge : LockedBy(b, s)

\* FOR UPDATE waits for the row, and gives up a row that is no longer live.
OpenLocks(b) ==
    LET prior == txn[b].prior IN
    /\ txn[b].at = "chosen"
    /\ ~IsLocked(prior)
    /\ txn' = [txn EXCEPT ![b] =
                 [at |-> "locked", prior |-> IF prior \in Live THEN prior ELSE None]]
    /\ UNCHANGED <<device, sess, procVars, localVars, faults>>

\* Mutant: there is no unique index over live sessions.
NeverViolated(b) == FALSE

\* The partial unique index device_sessions_one_live_per_device.
IndexViolated(b) == \E s \in Live : s # txn[b].prior

\* Rows that nothing refers to any more; an insert takes the first.
Spare == {s \in Session : /\ sess[s].state # "live"
                          /\ \A b \in Bridge : s \notin {store[b], reply[b].session, txn[b].prior}}

Signal(b) == txn[b].prior # None /\ sess[txn[b].prior].recent

\* Mutant: the signal is counted outside the transaction that then fails.
CountsAnyway(b) ==
    [device EXCEPT !.signals = IF @ < CloneThreshold THEN @ + 1 ELSE @]

\* What a violated insert leaves of the device's row: it is rolled back.
RolledBack(b) == device

Counted(b) ==
    IF ~Signal(b) THEN device
    ELSE LET n == IF device.signals < CloneThreshold THEN device.signals + 1 ELSE device.signals
         IN  [device EXCEPT !.signals = n, !.suspected = @ \/ n = CloneThreshold]

\* The handler has an answer: it is lost if nobody is waiting for it.
Answers(b, place, answer) ==
    IF at[b] = "opening" THEN Goes(b, place) /\ reply' = [reply EXCEPT ![b] = answer]
                         ELSE UNCHANGED <<at, reply>>

OpenRefused(b) ==
    /\ txn[b].at = "locked" /\ IndexViolated(b)
    /\ device' = RolledBack(b)
    /\ txn' = [txn EXCEPT ![b] = NoTxn]
    /\ Answers(b, "top", NoReply)
    /\ UNCHANGED <<sess, event, takeovers, halt, localVars, faults>>

OpenCommits(b) ==
    LET prior == txn[b].prior IN
    /\ txn[b].at = "locked" /\ ~IndexViolated(b)
    /\ Spare # {}
    /\ LET new == CHOOSE s \in Spare : TRUE IN
        /\ sess' = [s \in Session |->
             IF s = new THEN [state |-> "live", event |-> event[b], ttl |-> "fresh", recent |-> TRUE]
             ELSE IF s = prior THEN [sess[s] EXCEPT !.state = "superseded", !.recent = FALSE]
             ELSE IF s \in Spare THEN FreeRow
             ELSE sess[s]]
        /\ Answers(b, "opened", [session |-> new, suspected |-> Counted(b).suspected])
    /\ device' = Counted(b)
    /\ txn' = [txn EXCEPT ![b] = NoTxn]
    /\ UNCHANGED <<event, takeovers, halt, localVars, faults>>

\* The session is saved even when it comes with a suspicion, and the cycle
\* that opened it still drains.
OpenReplied(b) ==
    /\ at[b] = "opened"
    /\ store' = [store EXCEPT ![b] = reply[b].session]
    /\ reply' = [reply EXCEPT ![b] = NoReply]
    /\ halt' = [halt EXCEPT ![b] = IF reply[b].suspected THEN "clone_suspected" ELSE @]
    /\ Goes(b, "ingest")
    /\ UNCHANGED <<serverVars, event, takeovers, known, spool, left, faults>>

(***************************************************************************)
(* The rest of runOnce(): ingest, then drain under the stored session.     *)
(***************************************************************************)

Ingest(b) ==
    /\ at[b] = "ingest"
    /\ \/ /\ left[b] > 0
          /\ left' = [left EXCEPT ![b] = @ - 1]
          /\ spool' = [spool EXCEPT ![b] = Append(@, event[b])]
       \/ UNCHANGED <<left, spool>>
    /\ Goes(b, "drain")
    /\ UNCHANGED <<serverVars, reply, event, takeovers, halt, known, store, faults>>

\* Mutant: the next photograph is tried after one was refused for want of a session.
DrainsOn(b, reason) == Goes(b, "drain")

EndCycle(b, reason) == Goes(b, IF reason = None THEN "top" ELSE "halted")

DrainEnds(b) ==
    /\ at[b] = "drain" /\ spool[b] = <<>>
    /\ EndCycle(b, halt[b])
    /\ UNCHANGED <<serverVars, reply, event, takeovers, halt, localVars, faults>>

Stored(b) == sess[store[b]]

Announces(b) == at[b] = "drain" /\ spool[b] # <<>>

Clear(b) == [store EXCEPT ![b] = None]

\* noteSessionTakeover(): re-open twice, then stop.
AnnounceSuperseded(b) ==
    LET n == takeovers[b] + 1 IN
    /\ Announces(b) /\ Stored(b).state = "superseded"
    /\ store' = Clear(b)
    /\ takeovers' = [takeovers EXCEPT ![b] = IF n > MaxTakeovers THEN MaxTakeovers + 1 ELSE n]
    /\ halt' = [halt EXCEPT ![b] = IF n > MaxTakeovers THEN "session_contended" ELSE @]
    /\ EndCycle(b, halt'[b])
    /\ UNCHANGED <<serverVars, reply, event, known, spool, left, faults>>

AnnounceExpired(b) ==
    /\ Announces(b) /\ Stored(b).state # "superseded" /\ Stored(b).ttl = "over"
    /\ store' = Clear(b)
    /\ EndCycle(b, halt[b])
    /\ UNCHANGED <<serverVars, reply, event, takeovers, halt, known, spool, left, faults>>

Authorised(b) == Stored(b).state # "superseded" /\ Stored(b).ttl # "over"

AnnounceFromInactive(b) ==
    /\ Announces(b) /\ Authorised(b) /\ device.status # "active"
    /\ known' = [known EXCEPT ![b] = "compromised"]
    /\ EndCycle(b, halt[b])
    /\ UNCHANGED <<serverVars, reply, event, takeovers, halt, store, spool, left, faults>>

\* #auth notes the activity; the row of a session being superseded is locked,
\* and by the time it is not the session is no longer live.
Touched(s) == IF sess[s].state = "live" /\ ~IsLocked(s)
              THEN [sess EXCEPT ![s].recent = TRUE] ELSE sess

\* The session stays stored, and the row stays first in line.
AnnounceWrongEvent(b) ==
    /\ Announces(b) /\ Authorised(b) /\ device.status = "active"
    /\ Head(spool[b]) # Stored(b).event
    /\ sess' = Touched(store[b])
    /\ EndCycle(b, halt[b])
    /\ UNCHANGED <<device, txn, reply, event, takeovers, halt, localVars, faults>>

AnnounceAccepted(b) ==
    /\ Announces(b) /\ Authorised(b) /\ device.status = "active"
    /\ Head(spool[b]) = Stored(b).event
    /\ sess' = Touched(store[b])
    /\ spool' = [spool EXCEPT ![b] = Tail(@)]
    /\ UNCHANGED <<device, txn, procVars, known, store, left, faults>>

(***************************************************************************)
(* Time, faults and operators.                                             *)
(***************************************************************************)

Expires(s) ==
    /\ Fault("expiry")
    /\ s \notin Spare /\ sess[s].ttl # "over"
    /\ sess' = [sess EXCEPT ![s].ttl = IF @ = "fresh" THEN "closing" ELSE "over"]
    /\ UNCHANGED <<device, txn, procVars, localVars>>

\* Ninety seconds without a request; no transaction takes that long.
FallsSilent(s) ==
    /\ sess[s].state = "live" /\ sess[s].recent /\ ~IsLocked(s)
    /\ sess' = [sess EXCEPT ![s].recent = FALSE]
    /\ UNCHANGED <<device, txn, procVars, localVars, faults>>

\* A request or its reply is lost: the server may have done its part.
RequestLost(b) ==
    /\ Fault("lost")
    /\ at[b] \in {"enrolling", "opening", "opened"}
    /\ Goes(b, IF at[b] = "enrolling" THEN "start" ELSE "top")
    /\ reply' = [reply EXCEPT ![b] = NoReply]
    /\ UNCHANGED <<serverVars, event, takeovers, halt, localVars>>

Restarts(b, next) ==
    /\ Goes(b, "start")
    /\ reply' = [reply EXCEPT ![b] = NoReply]
    /\ takeovers' = [takeovers EXCEPT ![b] = 0]
    /\ halt' = [halt EXCEPT ![b] = None]
    /\ event' = [event EXCEPT ![b] = next]
    /\ UNCHANGED <<serverVars, localVars>>

\* The process is killed, or stopped by hand, and started again.
Restart(b) == Fault("restart") /\ Restarts(b, event[b])

\* ... for another event.
Reassign(b) == Fault("reassign") /\ \E e \in Event \ {event[b]} : Restarts(b, e)

\* resolve_clone_suspicion()
SuspicionCleared ==
    /\ Fault("clear")
    /\ device.signals > 0
    /\ device' = [device EXCEPT !.signals = 0, !.suspected = FALSE]
    /\ UNCHANGED <<sess, txn, procVars, localVars>>

\* The opening that holds the live session's row will want the device's.
InTheWay(b) == \E s \in Live : LockedBy(b, s)

\* The device's row, then its sessions.  An opening in the way deadlocks with it
\* and is rolled back; had the operator been, nothing would have changed.
Compromised ==
    /\ Fault("compromise")
    /\ device.status = "active"
    /\ device' = [device EXCEPT !.status = "compromised"]
    /\ sess' = [s \in Session |-> IF s \in Live
                  THEN [sess[s] EXCEPT !.state = "revoked", !.recent = FALSE] ELSE sess[s]]
    /\ txn' = [b \in Bridge |-> IF InTheWay(b) THEN NoTxn ELSE txn[b]]
    /\ at' = [b \in Bridge |-> IF InTheWay(b) /\ at[b] = "opening" THEN "top" ELSE at[b]]
    /\ UNCHANGED <<reply, event, takeovers, halt, localVars>>

-----------------------------------------------------------------------------

Server(b) ==
    \/ OpenLocks(b)
    \/ OpenRefused(b)
    \/ OpenCommits(b)

Process(b) ==
    \/ EnrollHandled(b)
    \/ EnrollReplied(b)
    \/ Runs(b)
    \/ HasSession(b)
    \/ OpenReads(b)
    \/ OpenReplied(b)
    \/ Ingest(b)
    \/ DrainEnds(b)
    \/ AnnounceSuperseded(b)
    \/ AnnounceExpired(b)
    \/ AnnounceFromInactive(b)
    \/ AnnounceWrongEvent(b)
    \/ AnnounceAccepted(b)

Environment ==
    \/ \E s \in Session : Expires(s) \/ FallsSilent(s)
    \/ \E b \in Bridge : RequestLost(b) \/ Restart(b) \/ Reassign(b)
    \/ SuspicionCleared
    \/ Compromised

Next ==
    \/ \E b \in Bridge : Server(b) \/ Process(b)
    \/ Environment

Spec == Init /\ [][Next]_vars

\* The database finishes what it began, and every installation keeps polling.
Fairness == \A b \in Bridge : WF_vars(Server(b)) /\ WF_vars(Process(b))

FairSpec == Spec /\ Fairness

-----------------------------------------------------------------------------

\* A device never has two live sessions, however the openings of its
\* installations interleave, are lost or are repeated (0007:38-43).
OneLiveSession == \A s, t \in Live : s = t

\* Opening a session implements DeviceLease: a working session is taken in one
\* step and counted once (0007:56-60).
HolderOf(live) == IF live = {} THEN None ELSE CHOOSE s \in live : TRUE
Holder         == HolderOf(Live)

Lease == INSTANCE DeviceLease WITH
    Nobody    <- None,
    holder    <- Holder,
    working   <- Holder # None /\ sess[Holder].recent,
    signals   <- device.signals,
    suspected <- device.suspected

LeaseKept == Lease!Spec

Stopped(b)  == at[b] = "halted" \/ device.status = "compromised"

\* A photograph of another event than its session's is first in line.
Misplaced(b) == store[b] # None /\ spool[b] # <<>> /\ Head(spool[b]) # Stored(b).event

\* Nobody fights for ever: an installation gets past its enrollment, and ends
\* up with all it took announced, or has stopped and says why (bridge.js:38-42),
\* or waits with a photograph of another event than its session's.
FinishesOrHalts ==
    \A b \in Bridge :
        <>[] /\ at[b] \notin {"start", "enrolling"}
             /\ spool[b] = <<>> \/ Stopped(b) \/ Misplaced(b)

=============================================================================
