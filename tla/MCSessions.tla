----------------------------- MODULE MCSessions -----------------------------
(***************************************************************************)
(* One or two installations of a device for TLC.                           *)
(***************************************************************************)
EXTENDS SessionClaims

CONSTANTS laptop, copy, gala, wedding

SameEvent == [b \in Bridge |-> gala]
OneShot   == [b \in Bridge |-> 1]

\* Which kinds of fault meet in one behaviour.
Mixes == { {"lost", "restart"}, {"expiry"}, {"reassign"}, {"clear", "compromise"} }

=============================================================================
