---------------------------- MODULE DeviceLease ----------------------------
(***************************************************************************)
(* What the database promises of a device's sessions, whatever races to    *)
(* open them: one holder at a time; it changes hands in one step; and each *)
(* time it is taken from a holder that was at work, that is counted, once, *)
(* until an operator says otherwise.                                       *)
(***************************************************************************)
EXTENDS Naturals

CONSTANTS Session, Nobody, CloneThreshold

VARIABLES
    holder,         \* the session that is live, or Nobody
    working,        \* it was active within the activity window
    signals,        \* how often it was taken from a working holder
    suspected       \* the device is suspected of being cloned

lease == <<holder, working, signals, suspected>>

Init == holder = Nobody /\ working = FALSE /\ signals = 0 /\ suspected = FALSE

Count == IF working /\ signals < CloneThreshold THEN signals + 1 ELSE signals

Take(s) ==
    /\ s # holder
    /\ holder' = s
    /\ working' = TRUE
    /\ signals' = Count
    /\ suspected' = (suspected \/ (working /\ Count = CloneThreshold))

Beat    == holder # Nobody /\ working' = TRUE /\ UNCHANGED <<holder, signals, suspected>>
Silence == working' = FALSE /\ UNCHANGED <<holder, signals, suspected>>
Clear   == signals' = 0 /\ suspected' = FALSE /\ UNCHANGED <<holder, working>>
Revoke  == holder' = Nobody /\ working' = FALSE /\ UNCHANGED <<signals, suspected>>

Next == (\E s \in Session : Take(s)) \/ Beat \/ Silence \/ Clear \/ Revoke

Spec == Init /\ [][Next]_lease

=============================================================================
