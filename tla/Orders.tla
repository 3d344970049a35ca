------------------------------- MODULE Orders -------------------------------
(***************************************************************************)
(* Selling the photographs of one event: orders, their line items and      *)
(* prices, the payment ledger, entitlements and mailed access links, as    *)
(* the tables and triggers of supabase/migrations let a service write them *)
(* (0001 as 0004 and 0006 leave it).                                       *)
(*                                                                         *)
(* Every call is one transaction at READ COMMITTED.  A call whose triggers *)
(* read another row than the one it locks is cut in two: where its BEFORE  *)
(* triggers have read, and where it has its locks and commits.  Nothing is *)
(* said of organizations: one event, one tenant.                           *)
(***************************************************************************)
EXTENDS Integers, FiniteSets, FiniteSetsExt

CONSTANTS
    Order, Capture, None,
    Version,        \* of the event's price list: 1..n
    Price,          \* what a list asks for a capture, or None
    MaxQuantity,
    Discount,       \* discounts a service may write
    Payment,        \* what the provider sends
    Token,          \* access links
    TokenOrder,     \* the order each is for
    Client,         \* calls in progress at once
    CallMixes       \* which calls, and for which captures, one behaviour makes

VARIABLES
    orders, items, published, payments, livemode,
    entitlements,
    tokens, minted, \* links, and how many customer sessions each has yielded
    tx,             \* the transaction each client is in
    mix             \* the calls and captures of this behaviour

money == <<orders, items, payments>>
links == <<tokens, minted>>
vars  == <<money, published, livemode, entitlements, links, tx, mix>>

Item == Order \X Capture

Status == {"draft", "awaiting_payment", "processing", "paid", "disputed",
           "partially_refunded", "refunded", "cancelled", "expired", "failed"}

PrePayment == {"draft", "awaiting_payment"}

EntitlementType == {"hd_download", "complimentary"}

ASSUME OrdersAssumption ==
    /\ None \notin {"test", "live"}
    /\ Price \in [Version -> [Capture -> Nat \cup {None}]]
    /\ Version \subseteq Nat /\ \E n \in Version : Version = 1..n
    /\ MaxQuantity \in Nat \ {0} /\ Discount \subseteq Nat
    /\ TokenOrder \in [Token -> Order]
    /\ Payment \subseteq [ id : STRING, order : Order \cup {None}, kind : {"paid", "refunded"},
                           amount : Nat, verified : BOOLEAN, live : BOOLEAN ]
    /\ IsFiniteSet(Client)

NoItem        == [unit |-> 0, quantity |-> 0]
NoEntitlement == [status |-> "absent", type |-> "hd_download", over |-> FALSE, ready |-> FALSE]
NewToken      == [issued |-> FALSE, consumed |-> FALSE, superseded |-> FALSE, over |-> FALSE]
Idle          == [call |-> "none"]

TypeOK ==
    /\ orders \in [Order -> [ status : Status, paidIn : {None, "test", "live"},
                              discount : Nat, amount : Nat ]]
    /\ items \in [Item -> [unit : Nat, quantity : 0..MaxQuantity]]
    /\ published \in Version \cup {None}
    /\ payments \subseteq Payment
    /\ livemode \in BOOLEAN
    /\ entitlements \in [Item -> [ status : {"absent", "inactive", "active", "revoked"},
                                   type : EntitlementType, over : BOOLEAN, ready : BOOLEAN ]]
    /\ \A i \in Item : entitlements[i].status # "absent" => items[i] # NoItem
    /\ tokens \in [Token -> [issued : BOOLEAN, consumed : BOOLEAN, superseded : BOOLEAN,
                             over : BOOLEAN]]
    /\ minted \in [Token -> 0..Cardinality(Client)]

Init ==
    /\ orders = [o \in Order |-> [status |-> "draft", paidIn |-> None, discount |-> 0, amount |-> 0]]
    /\ items = [i \in Item |-> NoItem]
    /\ published \in {v \in Version : \A w \in Version : v <= w}
    /\ payments = {}
    /\ livemode = FALSE
    /\ entitlements = [i \in Item |-> NoEntitlement]
    /\ tokens = [t \in Token |-> NewToken]
    /\ minted = [t \in Token |-> 0]
    /\ tx = [c \in Client |-> Idle]
    /\ mix \in CallMixes

Begin(c, op) == /\ op.call \in mix.calls /\ tx[c] = Idle
                /\ tx' = [tx EXCEPT ![c] = op]
In(c, call) == tx[c].call = call
End(c)      == tx' = [tx EXCEPT ![c] = Idle]

(***************************************************************************)
(* Line items: order_items with its three triggers.                        *)
(***************************************************************************)

Exists(i)   == items[i].quantity > 0
Has(its, o) == {i \in Item : i[1] = o /\ its[i].quantity > 0}

Subtotal(its, o) == MapThenSumSet(LAMBDA i : its[i].unit * its[i].quantity, Has(its, o))

\* guard_order_amount(): run on every write of an order, after the row is
\* locked, over the items committed by then.
Derived(row, its, o) ==
    LET subtotal == Subtotal(its, o)
        discount == IF row.discount > subtotal THEN subtotal ELSE row.discount
    IN  [row EXCEPT !.discount = discount, !.amount = subtotal - discount]

\* guard_order_item_integrity() reads the order without a lock.
MayEdit(o) == orders[o].status \in PrePayment

\* resolve_price(): no published list or no rule, no sale.
Resolved(i) == IF published = None THEN None ELSE Price[published][i[2]]

\* Whoever updates or deletes a row has it locked.
ItemLocked(i) == \E c \in Client : tx[c].call \in {"quantity", "remove"} /\ tx[c].item = i

AddItem(c, i) ==
    /\ i[2] \in mix.of
    /\ ~Exists(i) /\ MayEdit(i[1]) /\ Resolved(i) # None
    /\ Begin(c, [call |-> "add", item |-> i, to |-> [unit |-> Resolved(i), quantity |-> 1]])
    /\ UNCHANGED <<money, published, livemode, entitlements, links, mix>>

\* Any update prices the row anew.
ChangeQuantity(c, i, n) ==
    /\ Exists(i) /\ ~ItemLocked(i) /\ MayEdit(i[1]) /\ Resolved(i) # None
    /\ Begin(c, [call |-> "quantity", item |-> i, to |-> [unit |-> Resolved(i), quantity |-> n]])
    /\ UNCHANGED <<money, published, livemode, entitlements, links, mix>>

RemoveItem(c, i) ==
    /\ Exists(i) /\ ~ItemLocked(i) /\ MayEdit(i[1])
    /\ Begin(c, [call |-> "remove", item |-> i, to |-> NoItem])
    /\ UNCHANGED <<money, published, livemode, entitlements, links, mix>>

\* Mutant: the trigger runs before the row is written instead of after.
RecomputedBefore(o, i, to) == Derived(orders[o], items, o)

\* recompute_order_total(): an update of the order, so Derived runs again.
Recomputed(o, i, to) == Derived(orders[o], [items EXCEPT ![i] = to], o)

\* The row is written, the order waited for, its total recomputed, all
\* committed.  The unique index refuses the second of two inserts.
ItemCommits(c) ==
    LET i == tx[c].item IN
    /\ tx[c].call \in {"add", "quantity", "remove"}
    /\ ~(In(c, "add") /\ Exists(i))
    /\ items' = [items EXCEPT ![i] = tx[c].to]
    /\ orders' = [orders EXCEPT ![i[1]] = Recomputed(i[1], i, tx[c].to)]
    /\ entitlements' = IF In(c, "remove") THEN [entitlements EXCEPT ![i] = NoEntitlement]
                       ELSE entitlements
    /\ End(c)
    /\ UNCHANGED <<payments, published, livemode, links, mix>>

ItemRefused(c) ==
    /\ In(c, "add") /\ Exists(tx[c].item)
    /\ End(c)
    /\ UNCHANGED <<money, published, livemode, entitlements, links, mix>>

(***************************************************************************)
(* Prices: one published list per event; a new one is a new version.       *)
(***************************************************************************)

RetirePrices ==
    /\ "prices" \in mix.calls /\ published # None /\ published + 1 \in Version
    /\ published' = None
    /\ UNCHANGED <<money, livemode, entitlements, links, tx, mix>>

PublishPrices ==
    /\ "prices" \in mix.calls /\ published = None
    /\ published' = CHOOSE v \in Version : v + 1 \notin Version
    /\ UNCHANGED <<money, livemode, entitlements, links, tx, mix>>

(***************************************************************************)
(* Payments and the order's status.                                        *)
(***************************************************************************)

\* A provider event arrives: once, and bound to an order only if it is
\* verified and of the platform's mode.
ReceivePayment(p) ==
    /\ "payment" \in mix.calls
    /\ \A q \in payments : q.id # p.id
    /\ p.order # None => p.verified /\ p.live = livemode
    /\ payments' = payments \cup {p}
    /\ UNCHANGED <<orders, items, published, livemode, entitlements, links, tx, mix>>

GoLive ==
    /\ "live" \in mix.calls /\ ~livemode
    /\ livemode' = TRUE
    /\ UNCHANGED <<money, published, entitlements, links, tx, mix>>

Follows(old) ==
    CASE old = "draft"              -> {"awaiting_payment", "cancelled", "expired"}
      [] old = "awaiting_payment"   -> {"processing", "paid", "failed", "cancelled", "expired"}
      [] old = "processing"         -> {"paid", "failed", "expired"}
      [] old = "paid"               -> {"disputed", "partially_refunded", "refunded"}
      [] old = "disputed"           -> {"paid", "refunded"}
      [] old = "partially_refunded" -> {"disputed", "refunded"}
      [] OTHER                      -> {}

Backs(p, o) == /\ p.order = o /\ p.verified /\ p.kind = "paid"

\* Mutant: the mode is only looked at when the event is bound.
PayingInAnyMode(p, row, o) == Backs(p, o) /\ p.amount = row.amount

Paying(p, row, o) == Backs(p, o) /\ p.live = livemode /\ p.amount = row.amount

\* guard_order_transition(), on the row whose amount was just derived.
SetStatus(o, new) ==
    LET row   == Derived(orders[o], items, o)
        fresh == new = "paid" /\ row.status # "disputed"
    IN
    /\ "status" \in mix.calls
    /\ new \in Follows(row.status)
    /\ fresh => \E p \in payments : Paying(p, row, o)
    /\ orders' = [orders EXCEPT ![o] =
         [row EXCEPT !.status = new,
                     !.paidIn = IF fresh /\ @ = None
                                THEN IF livemode THEN "live" ELSE "test" ELSE @]]
    /\ UNCHANGED <<items, payments, published, livemode, entitlements, links, tx, mix>>

SetDiscount(o, d) ==
    /\ "discount" \in mix.calls
    /\ orders' = [orders EXCEPT ![o] = Derived([@ EXCEPT !.discount = d], items, o)]
    /\ UNCHANGED <<items, payments, published, livemode, entitlements, links, tx, mix>>

(***************************************************************************)
(* Entitlements, and what is delivered for them.                           *)
(***************************************************************************)

\* Mutant: only an entitlement that is inserted active is checked.
MayActivateLater(i, type) ==
    entitlements[i].status # "absent" \/ type # "hd_download" \/ orders[i[1]].status = "paid"

\* guard_entitlement_activation() reads the order without a lock.
MayActivate(i, type) == type = "hd_download" => orders[i[1]].status = "paid"

EntitlementLocked(i) == \E c \in Client : In(c, "entitle") /\ tx[c].item = i /\ ~tx[c].insert

\* Inserted or updated; nothing forbids that a revoked one is made active.
SetEntitlement(c, i, type, status) ==
    LET insert == entitlements[i].status = "absent" IN
    /\ Exists(i) /\ ~EntitlementLocked(i)
    /\ insert \/ type = entitlements[i].type
    /\ status = "active" => MayActivate(i, type)
    /\ Begin(c, [call |-> "entitle", item |-> i, insert |-> insert, type |-> type, status |-> status])
    /\ UNCHANGED <<money, published, livemode, entitlements, links, mix>>

\* Mutant: that the item is still there is not checked.
HoldsAnyway(c) == tx[c].insert <=> entitlements[tx[c].item].status = "absent"

\* The row to update, or else the item to refer to, is still there.
Holds(c) == LET i == tx[c].item IN
    Exists(i) /\ (tx[c].insert <=> entitlements[i].status = "absent")

EntitlementCommits(c) ==
    /\ In(c, "entitle")
    /\ entitlements' =
         IF ~Holds(c) THEN entitlements
         ELSE [entitlements EXCEPT ![tx[c].item].status = tx[c].status,
                                   ![tx[c].item].type = tx[c].type]
    /\ End(c)
    /\ UNCHANGED <<money, published, livemode, links, mix>>

EntitlementEnds(i) ==
    /\ "lapse" \in mix.calls /\ entitlements[i].status # "absent"
    /\ entitlements' = [entitlements EXCEPT ![i].over = TRUE]
    /\ UNCHANGED <<money, published, livemode, links, tx, mix>>

\* The worker has the deliverable: fulfillment request and asset are ready.
Fulfilled(i) ==
    /\ "fulfil" \in mix.calls /\ entitlements[i].status # "absent"
    /\ entitlements' = [entitlements EXCEPT ![i].ready = TRUE]
    /\ UNCHANGED <<money, published, livemode, links, tx, mix>>

\* authorize_download(), for a session that owns the order.
Authorized(i) ==
    /\ Exists(i)
    /\ orders[i[1]].status = "paid"
    /\ entitlements[i].status = "active" /\ ~entitlements[i].over /\ entitlements[i].ready

(***************************************************************************)
(* Access links.                                                           *)
(***************************************************************************)

Outstanding(t) == tokens[t].issued /\ ~tokens[t].consumed /\ ~tokens[t].superseded

\* A fresh link: supersede_order_access_tokens() sees the links outstanding
\* when it starts, ...
AskLink(c, o) ==
    /\ Begin(c, [call |-> "link", tokens |-> {t \in Token : TokenOrder[t] = o /\ Outstanding(t)},
                         order |-> o])
    /\ UNCHANGED <<money, published, livemode, entitlements, links, mix>>

\* ... and updates those that still are; then the new one is inserted.
LinkCommits(c) ==
    /\ In(c, "link")
    /\ \E new \in {t \in Token : TokenOrder[t] = tx[c].order /\ ~tokens[t].issued} :
         tokens' = [t \in Token |->
            IF t = new THEN [NewToken EXCEPT !.issued = TRUE]
            ELSE IF t \in tx[c].tokens /\ Outstanding(t) THEN [tokens[t] EXCEPT !.superseded = TRUE]
            ELSE tokens[t]]
    /\ End(c)
    /\ UNCHANGED <<money, published, livemode, entitlements, minted, mix>>

Redeem(c, t) ==
    /\ Outstanding(t) /\ ~tokens[t].over
    /\ Begin(c, [call |-> "redeem", token |-> t])
    /\ UNCHANGED <<money, published, livemode, entitlements, links, mix>>

\* Mutant: the row found is claimed without another look once it is unlocked.
FoundIsClaimed(t) == TRUE

\* The update waits for the row and looks at its WHERE clause again.
Claims(t) == Outstanding(t)

RedeemCommits(c) ==
    LET t == tx[c].token IN
    /\ In(c, "redeem") /\ Claims(t)
    /\ tokens' = [tokens EXCEPT ![t].consumed = TRUE]
    /\ minted' = [minted EXCEPT ![t] = @ + 1]
    /\ End(c)
    /\ UNCHANGED <<money, published, livemode, entitlements, mix>>

RedeemRefused(c) ==
    /\ In(c, "redeem") /\ ~Claims(tx[c].token)
    /\ End(c)
    /\ UNCHANGED <<money, published, livemode, entitlements, links, mix>>

LinkEnds(t) ==
    /\ "redeem" \in mix.calls /\ tokens[t].issued
    /\ tokens' = [tokens EXCEPT ![t].over = TRUE]
    /\ UNCHANGED <<money, published, livemode, entitlements, minted, tx, mix>>

-----------------------------------------------------------------------------

Call(c) ==
    \/ \E i \in Item : \/ AddItem(c, i)
                       \/ \E n \in 1..MaxQuantity : ChangeQuantity(c, i, n)
                       \/ RemoveItem(c, i)
                       \/ \E type \in EntitlementType, status \in {"inactive", "active", "revoked"} :
                            SetEntitlement(c, i, type, status)
    \/ ItemCommits(c)
    \/ ItemRefused(c)
    \/ EntitlementCommits(c)
    \/ \E o \in Order : AskLink(c, o)
    \/ LinkCommits(c)
    \/ \E t \in Token : Redeem(c, t)
    \/ RedeemCommits(c)
    \/ RedeemRefused(c)

Next ==
    \/ \E c \in Client : Call(c)
    \/ RetirePrices
    \/ PublishPrices
    \/ \E p \in Payment : ReceivePayment(p)
    \/ GoLive
    \/ \E o \in Order : \/ \E new \in Status : SetStatus(o, new)
                        \/ \E d \in Discount : SetDiscount(o, d)
    \/ \E i \in Item : EntitlementEnds(i) \/ Fulfilled(i)
    \/ \E t \in Token : LinkEnds(t)

Spec == Init /\ [][Next]_vars

-----------------------------------------------------------------------------

\* However writers of its items, of its discount and of its status interleave,
\* the order's amount is that of its items (0001: "a tampered total is
\* structurally impossible"), and no discount exceeds them.
TotalIsDerived ==
    \A o \in Order : orders[o].amount + orders[o].discount = Subtotal(items, o)

\* Nothing is delivered for an order that no verified payment of the mode it
\* was paid in was ever received for, by whichever way it came to be paid.
NothingFree ==
    \A i \in Item : Authorized(i) =>
        \E p \in payments : /\ Backs(p, i[1])
                            /\ orders[i[1]].paidIn = IF p.live THEN "live" ELSE "test"

\* A purchase entitlement is active only for an order that was paid, although
\* the order may have been refunded while it was being activated.
ActiveWasPaid ==
    \A i \in Item :
        entitlements[i].status = "active" /\ entitlements[i].type = "hd_download"
            => orders[i[1]].paidIn # None

\* A link yields one customer session, and none once a newer link replaced it
\* (0006:73-76, 142-143), whoever redeems it at the same time.
LinkWorksOnce ==
    [][\A t \in Token : minted'[t] # minted[t] =>
            minted[t] = 0 /\ ~tokens[t].superseded]_vars

\* "Line items are frozen at payment" (0001:315).
FrozenAtPayment ==
    [][\A i \in Item : items'[i] # items[i] => orders[i[1]].paidIn = None]_vars

=============================================================================
