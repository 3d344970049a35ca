--------------------------- MODULE CapturePromise ---------------------------
(***************************************************************************)
(* What the Bridge promises a photographer, whatever it does to keep the   *)
(* promise: a photograph it has taken on is called safe only while the     *)
(* server vouches for its exact bytes and still has them; a photograph     *)
(* called safe stays safe; one given up is never quietly taken up again.   *)
(***************************************************************************)
CONSTANTS Photo

VARIABLES
    told,           \* what the photographer is told of each photograph
    intact          \* the photographs the server vouches for and still has

promise == <<told, intact>>

PromiseTypeOK ==
    /\ told \in [Photo -> {"unseen", "working", "safe", "given_up"}]
    /\ intact \subseteq Photo

Init ==
    /\ told = [p \in Photo |-> "unseen"]
    /\ intact = {}

Tell(p, from, to) ==
    /\ told[p] = from
    /\ told' = [told EXCEPT ![p] = to]

TakeOn(p) == Tell(p, "unseen", "working") /\ UNCHANGED intact

\* A transfer lands, or a repeated one spoils what had landed.
Receive(p) ==
    /\ told[p] = "working"
    /\ intact' \in {intact \cup {p}, intact \ {p}}
    /\ UNCHANGED told

Vouch(p)  == p \in intact /\ Tell(p, "working", "safe") /\ UNCHANGED intact
GiveUp(p) == Tell(p, "working", "given_up") /\ UNCHANGED intact

Next == \E p \in Photo : TakeOn(p) \/ Receive(p) \/ Vouch(p) \/ GiveUp(p)

Spec == Init /\ [][Next]_promise

=============================================================================
