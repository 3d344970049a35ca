------------------------------ MODULE MCOrders ------------------------------
(***************************************************************************)
(* One order of an event with two photographs, for TLC.                    *)
(***************************************************************************)
EXTENDS Orders

CONSTANTS o, p, q

\* The second list prices p anew and has no rule for q.
TwoLists == << [x \in Capture |-> 1],
               [x \in Capture |-> IF x = p THEN 2 ELSE None] >>

Paid(id, amount, live) ==
    [id |-> id, order |-> o, kind |-> "paid", amount |-> amount, verified |-> TRUE, live |-> live]

\* Payments of two amounts, one of them in test and in live mode; and one
\* whose signature was not verified.
Provider == { Paid("a", 1, FALSE), Paid("b", 2, FALSE), Paid("b", 1, TRUE),
              [Paid("c", 1, FALSE) EXCEPT !.verified = FALSE, !.order = None] }

OneOrder == [t \in Token |-> o]

Both(calls) == [calls |-> calls, of |-> {p, q}]
One(calls)  == [calls |-> calls, of |-> {p}]

\* Editing and paying at once; pricing and discounts; entitling; links.
Mixes == { Both({"add", "remove", "quantity", "status", "payment"}),
           Both({"add", "quantity", "prices", "discount"}),
           One({"add", "remove", "status", "payment", "live", "entitle", "fulfil", "lapse"}),
           One({"link", "redeem"}) }

Editing == { Both({"add", "status", "payment"}) }

=============================================================================
