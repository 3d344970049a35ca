--------------------------- MODULE Orders_proofs ---------------------------
(***************************************************************************)
(* Proofs about Orders, for any number of orders, captures, payments,      *)
(* links and clients.  First what does not depend on what an order's       *)
(* amount is: who has paid, and what is delivered for it.  Then the        *)
(* amounts, whose sum is a fold over the set of an order's items: of such  *)
(* a fold facts are proved by looking at a minimal set that lacks them.    *)
(***************************************************************************)
EXTENDS Orders, FiniteSetTheorems, WellFoundedInduction, TLAPS

(***************************************************************************)
(* The inductive invariant.                                                *)
(***************************************************************************)

IsOrder(row) ==
    row = [ status |-> row.status, paidIn |-> row.paidIn,
            discount |-> row.discount, amount |-> row.amount ]

Entitlement ==
    [ status : {"absent", "inactive", "active", "revoked"}, type : EntitlementType,
      over : BOOLEAN, ready : BOOLEAN ]

Link == [issued : BOOLEAN, consumed : BOOLEAN, superseded : BOOLEAN, over : BOOLEAN]

\* What TypeOK says without the amounts.
Shape ==
    /\ orders = [o \in Order |-> orders[o]]
    /\ \A o \in Order : IsOrder(orders[o])
    /\ livemode \in BOOLEAN
    /\ entitlements \in [Item -> Entitlement]
    /\ tokens \in [Token -> Link]
    /\ minted \in [Token -> Nat]
    /\ tx = [c \in Client |-> tx[c]]

\* What a client's transaction is about.
Calls ==
    \A c \in Client :
        /\ tx[c].call \in {"add", "quantity", "remove", "entitle"} => tx[c].item \in Item
        /\ tx[c].call = "entitle" => /\ tx[c].type \in EntitlementType
                                     /\ tx[c].status \in {"inactive", "active", "revoked"}
        /\ tx[c].call = "redeem" => tx[c].token \in Token

\* An order was paid by a payment it was received for.
PaidBacked ==
    \A o \in Order : orders[o].paidIn # None =>
        \E p \in payments : /\ Backs(p, o)
                            /\ orders[o].paidIn = IF p.live THEN "live" ELSE "test"

\* An order in a state that only a paid order reaches was paid.
PaidStatus ==
    \A o \in Order :
        orders[o].status \in {"paid", "disputed", "partially_refunded", "refunded"}
            => orders[o].paidIn # None

\* An activation that has been checked is of an order that was paid.
PendingWasPaid ==
    \A c \in Client :
        tx[c].call = "entitle" /\ tx[c].status = "active" /\ tx[c].type = "hd_download"
            => orders[tx[c].item[1]].paidIn # None

\* A link that has yielded a session is consumed.
MintedConsumed == \A t \in Token : minted[t] # 0 => tokens[t].issued /\ tokens[t].consumed

IInv == /\ Shape /\ Calls
        /\ PaidBacked /\ PaidStatus
        /\ ActiveWasPaid /\ PendingWasPaid
        /\ MintedConsumed

(***************************************************************************)
(* Steps that leave the money alone.                                       *)
(***************************************************************************)

\* Every order is still an order, with its status, and paid as it was.
OrdersKept ==
    /\ orders' = [o \in Order |-> orders'[o]]
    /\ \A o \in Order : /\ IsOrder(orders'[o])
                        /\ orders'[o].status = orders[o].status
                        /\ orders'[o].paidIn = orders[o].paidIn

ItemParts == \A i \in Item : i[1] \in Order

LEMMA ItemHasOrder == ItemParts
  BY DEF ItemParts, Item

LEMMA DerivedKeeps ==
    ASSUME NEW row, NEW its, NEW o, IsOrder(row)
    PROVE  LET d == Derived(row, its, o) IN
             IsOrder(d) /\ d.status = row.status /\ d.paidIn = row.paidIn
  <1> DEFINE subtotal == Subtotal(its, o)
             discount == IF row.discount > subtotal THEN subtotal ELSE row.discount
             amount   == subtotal - discount
  <1>1. Derived(row, its, o) = [row EXCEPT !.discount = discount, !.amount = amount]
    BY DEF Derived
  <1> HIDE DEF amount, discount
  <1>2. Derived(row, its, o) = [ status |-> row.status, paidIn |-> row.paidIn,
                                 discount |-> discount, amount |-> amount ]
    BY <1>1 DEF IsOrder
  <1> QED
    BY <1>2 DEF IsOrder

\* An order rewritten by its own trigger keeps its status.
LEMMA RewriteKeeps ==
    ASSUME IInv, NEW o \in Order, NEW row, IsOrder(row),
           row.status = orders[o].status, row.paidIn = orders[o].paidIn,
           orders' = [orders EXCEPT ![o] = row]
    PROVE  OrdersKept
  BY DEF IInv, Shape, OrdersKept

LEMMA UnchangedKeeps ==
    ASSUME IInv, UNCHANGED orders
    PROVE  OrdersKept
  BY DEF IInv, Shape, OrdersKept

\* What follows for the orders themselves.
LEMMA KeptPaid ==
    ASSUME IInv, OrdersKept, UNCHANGED payments
    PROVE  PaidBacked' /\ PaidStatus'
  <1>1. PaidBacked'
    BY DEF IInv, OrdersKept, PaidBacked, Backs
  <1>2. PaidStatus'
    BY DEF IInv, OrdersKept, PaidStatus
  <1> QED
    BY <1>1, <1>2

\* A step that keeps the orders, the entitlements, the links and the clients'
\* transactions, except that one client ends its own, keeps everything.
LEMMA EndKeeps ==
    ASSUME IInv, OrdersKept, UNCHANGED <<payments, livemode, entitlements, links>>,
           NEW c \in Client, End(c)
    PROVE  IInv'
  <1>0. tx' = [d \in Client |-> IF d = c THEN Idle ELSE tx[d]]
    BY DEF IInv, Shape, End
  <1>1. Shape'
    BY <1>0 DEF IInv, Shape, OrdersKept, links
  <1>2. Calls'
    BY <1>0 DEF IInv, Calls, Idle
  <1>3. PendingWasPaid'
    BY <1>0, ItemHasOrder DEF IInv, PendingWasPaid, Calls, OrdersKept, ItemParts, Idle
  <1>4. ActiveWasPaid'
    BY ItemHasOrder DEF IInv, ActiveWasPaid, OrdersKept, ItemParts
  <1>5. MintedConsumed'
    BY DEF IInv, MintedConsumed, links
  <1> QED
    BY <1>1, <1>2, <1>3, <1>4, <1>5, KeptPaid DEF IInv

\* So does one that begins a transaction it has checked.
LEMMA BeginKeeps ==
    ASSUME IInv, UNCHANGED <<money, livemode, entitlements, links>>,
           NEW c \in Client, NEW op, tx' = [tx EXCEPT ![c] = op],
           op.call \in {"add", "quantity", "remove", "entitle"} => op.item \in Item,
           op.call = "entitle" => /\ op.type \in EntitlementType
                                  /\ op.status \in {"inactive", "active", "revoked"}
                                  /\ op.status = "active" /\ op.type = "hd_download"
                                       => orders[op.item[1]].paidIn # None,
           op.call = "redeem" => op.token \in Token
    PROVE  IInv'
  <1>0. tx' = [d \in Client |-> IF d = c THEN op ELSE tx[d]]
    BY DEF IInv, Shape
  <1>a. UNCHANGED <<orders, payments, livemode, entitlements, tokens, minted>>
    BY DEF money, links
  <1>b. OrdersKept
    BY <1>a, UnchangedKeeps
  <1>1. Shape'
    BY <1>0, <1>a DEF IInv, Shape
  <1>2. Calls'
    BY <1>0 DEF IInv, Calls
  <1>3. PendingWasPaid'
    BY <1>0, <1>a DEF IInv, PendingWasPaid, Calls
  <1>4. ActiveWasPaid'
    BY <1>a DEF IInv, ActiveWasPaid
  <1>5. MintedConsumed'
    BY <1>a DEF IInv, MintedConsumed
  <1> QED
    BY <1>1, <1>2, <1>3, <1>4, <1>5, <1>a, <1>b, KeptPaid DEF IInv

\* Steps that leave the clients' transactions and the links alone.
LEMMA AloneKeeps ==
    ASSUME IInv, OrdersKept, UNCHANGED <<payments, links, tx>>,
           livemode' \in BOOLEAN,
           entitlements' \in [Item -> Entitlement],
           \A i \in Item : /\ entitlements'[i].status = entitlements[i].status
                           /\ entitlements'[i].type = entitlements[i].type
    PROVE  IInv'
  <1>1. Shape'
    BY DEF IInv, Shape, OrdersKept, links
  <1>2. Calls'
    BY DEF IInv, Calls
  <1>3. PendingWasPaid'
    BY ItemHasOrder DEF IInv, PendingWasPaid, Calls, OrdersKept, ItemParts
  <1>4. ActiveWasPaid'
    BY ItemHasOrder DEF IInv, ActiveWasPaid, OrdersKept, ItemParts
  <1>5. MintedConsumed'
    BY DEF IInv, MintedConsumed, links
  <1> QED
    BY <1>1, <1>2, <1>3, <1>4, <1>5, KeptPaid DEF IInv

(***************************************************************************)
(* The actions.                                                            *)
(***************************************************************************)

LEMMA InitIInv == Init => IInv
  <1> SUFFICES ASSUME Init PROVE IInv
    OBVIOUS
  <1>1. Shape
    <2>1. orders = [o \in Order |-> orders[o]] /\ \A o \in Order : IsOrder(orders[o])
      BY DEF Init, IsOrder
    <2>2. entitlements \in [Item -> Entitlement]
      BY DEF Init, NoEntitlement, Entitlement, EntitlementType
    <2>3. tokens \in [Token -> Link] /\ minted \in [Token -> Nat]
      BY DEF Init, NewToken, Link
    <2>4. livemode \in BOOLEAN /\ tx = [c \in Client |-> tx[c]]
      BY DEF Init
    <2> QED
      BY <2>1, <2>2, <2>3, <2>4 DEF Shape
  <1>2. Calls /\ PendingWasPaid
    BY DEF Init, Calls, PendingWasPaid, Idle
  <1>3. PaidBacked /\ PaidStatus
    BY DEF Init, PaidBacked, PaidStatus
  <1>4. ActiveWasPaid
    BY DEF Init, ActiveWasPaid, NoEntitlement
  <1>5. MintedConsumed
    BY DEF Init, MintedConsumed
  <1> QED
    BY <1>1, <1>2, <1>3, <1>4, <1>5 DEF IInv

\* Line items.
LEMMA ItemBegins ==
    ASSUME IInv, NEW c \in Client, NEW i \in Item,
           AddItem(c, i) \/ (\E n \in 1..MaxQuantity : ChangeQuantity(c, i, n)) \/ RemoveItem(c, i)
    PROVE  IInv'
  <1>1. CASE AddItem(c, i)
    <2> DEFINE op == [call |-> "add", item |-> i, to |-> [unit |-> Resolved(i), quantity |-> 1]]
    <2>1. UNCHANGED <<money, livemode, entitlements, links>> /\ tx' = [tx EXCEPT ![c] = op]
      BY <1>1 DEF AddItem, Begin
    <2>2. op.call = "add" /\ op.item = i
      OBVIOUS
    <2> HIDE DEF op
    <2> QED
      BY <2>1, <2>2, BeginKeeps
  <1>2. ASSUME NEW n \in 1..MaxQuantity, ChangeQuantity(c, i, n)
        PROVE  IInv'
    <2> DEFINE op == [call |-> "quantity", item |-> i, to |-> [unit |-> Resolved(i), quantity |-> n]]
    <2>1. UNCHANGED <<money, livemode, entitlements, links>> /\ tx' = [tx EXCEPT ![c] = op]
      BY <1>2 DEF ChangeQuantity, Begin
    <2>2. op.call = "quantity" /\ op.item = i
      OBVIOUS
    <2> HIDE DEF op
    <2> QED
      BY <2>1, <2>2, BeginKeeps
  <1>3. CASE RemoveItem(c, i)
    <2> DEFINE op == [call |-> "remove", item |-> i, to |-> NoItem]
    <2>1. UNCHANGED <<money, livemode, entitlements, links>> /\ tx' = [tx EXCEPT ![c] = op]
      BY <1>3 DEF RemoveItem, Begin
    <2>2. op.call = "remove" /\ op.item = i
      OBVIOUS
    <2> HIDE DEF op
    <2> QED
      BY <2>1, <2>2, BeginKeeps
  <1> QED
    BY <1>1, <1>2, <1>3

\* The order is rewritten, and a removed item takes its entitlement with it.
LEMMA ItemEnds ==
    ASSUME IInv, NEW c \in Client, ItemCommits(c)
    PROVE  IInv'
  <1> DEFINE i == tx[c].item
             row == Recomputed(i[1], i, tx[c].to)
  <1>1. i \in Item /\ i[1] \in Order
    BY ItemHasOrder DEF IInv, Calls, ItemCommits, ItemParts
  <1>2. IsOrder(row) /\ row.status = orders[i[1]].status /\ row.paidIn = orders[i[1]].paidIn
    BY <1>1, DerivedKeeps DEF Recomputed, IInv, Shape
  <1>3. orders' = [orders EXCEPT ![i[1]] = row]
    BY DEF ItemCommits
  <1>4. OrdersKept
    <2> HIDE DEF row, i
    <2> QED BY <1>1, <1>2, <1>3, RewriteKeeps
  <1>5. UNCHANGED <<payments, livemode, tokens, minted>> /\ End(c)
    BY DEF ItemCommits, links
  <1>6. entitlements' = entitlements \/ entitlements' = [entitlements EXCEPT ![i] = NoEntitlement]
    BY DEF ItemCommits
  <1> HIDE DEF i, row
  <1>7. CASE entitlements' = entitlements
    BY <1>4, <1>5, <1>7, EndKeeps DEF links
  <1>8. CASE entitlements' = [entitlements EXCEPT ![i] = NoEntitlement]
    <2>0. tx' = [d \in Client |-> IF d = c THEN Idle ELSE tx[d]]
      BY <1>5 DEF IInv, Shape, End
    <2>e. NoEntitlement \in Entitlement /\ NoEntitlement.status = "absent"
      BY DEF NoEntitlement, Entitlement, EntitlementType
    <2>1. Shape'
      BY <2>0, <2>e, <1>4, <1>5, <1>8 DEF IInv, Shape, OrdersKept
    <2>2. Calls'
      BY <2>0 DEF IInv, Calls, Idle
    <2>3. PendingWasPaid'
      BY <2>0, <1>4, ItemHasOrder DEF IInv, PendingWasPaid, Calls, OrdersKept, ItemParts, Idle
    <2>4. ActiveWasPaid'
      BY <1>4, <1>8, <2>e, ItemHasOrder DEF IInv, Shape, ActiveWasPaid, OrdersKept, ItemParts
    <2>5. MintedConsumed'
      BY <1>5 DEF IInv, MintedConsumed
    <2> QED
      BY <2>1, <2>2, <2>3, <2>4, <2>5, <1>4, <1>5, KeptPaid DEF IInv
  <1> QED
    BY <1>6, <1>7, <1>8

\* A refusal only ends the transaction.
LEMMA Refused ==
    ASSUME IInv, NEW c \in Client, ItemRefused(c) \/ RedeemRefused(c)
    PROVE  IInv'
  BY UnchangedKeeps, EndKeeps DEF ItemRefused, RedeemRefused, money

LEMMA LinkBegins ==
    ASSUME IInv, NEW c \in Client,
           (\E o \in Order : AskLink(c, o)) \/ (\E t \in Token : Redeem(c, t))
    PROVE  IInv'
  <1>1. ASSUME NEW o \in Order, AskLink(c, o)
        PROVE  IInv'
    <2> DEFINE op == [call |-> "link", tokens |-> {t \in Token : TokenOrder[t] = o /\ Outstanding(t)},
                      order |-> o]
    <2>1. UNCHANGED <<money, livemode, entitlements, links>> /\ tx' = [tx EXCEPT ![c] = op]
      BY <1>1 DEF AskLink, Begin
    <2>2. op.call = "link"
      OBVIOUS
    <2> HIDE DEF op
    <2> QED
      BY <2>1, <2>2, BeginKeeps
  <1>2. ASSUME NEW t \in Token, Redeem(c, t)
        PROVE  IInv'
    <2> DEFINE op == [call |-> "redeem", token |-> t]
    <2>1. UNCHANGED <<money, livemode, entitlements, links>> /\ tx' = [tx EXCEPT ![c] = op]
      BY <1>2 DEF Redeem, Begin
    <2>2. op.call = "redeem" /\ op.token = t
      OBVIOUS
    <2> HIDE DEF op
    <2> QED
      BY <2>1, <2>2, BeginKeeps
  <1> QED
    BY <1>1, <1>2

\* Only links change, and no link that has yielded a session comes back.
LEMMA LinkStepKeeps ==
    ASSUME IInv, UNCHANGED <<money, livemode, entitlements>>,
           (\E c \in Client : End(c)) \/ UNCHANGED tx,
           tokens' \in [Token -> Link], minted' \in [Token -> Nat],
           MintedConsumed'
    PROVE  IInv'
  <1>a. UNCHANGED <<orders, payments>>
    BY DEF money
  <1>b. OrdersKept
    BY <1>a, UnchangedKeeps
  <1>0. /\ tx' = [d \in Client |-> tx'[d]]
        /\ \A d \in Client : tx'[d] = Idle \/ tx'[d] = tx[d]
    BY DEF IInv, Shape, End
  <1>1. Shape'
    BY <1>0, <1>a DEF IInv, Shape
  <1>2. Calls'
    BY <1>0 DEF IInv, Calls, Idle
  <1>3. PendingWasPaid'
    BY <1>0, <1>a DEF IInv, PendingWasPaid, Calls, Idle
  <1>4. ActiveWasPaid'
    BY <1>a DEF IInv, ActiveWasPaid
  <1> QED
    BY <1>1, <1>2, <1>3, <1>4, <1>a, <1>b, KeptPaid DEF IInv

LEMMA LinkIssued ==
    ASSUME IInv, NEW c \in Client, LinkCommits(c)
    PROVE  IInv'
  <1>1. PICK new \in Token :
          /\ ~tokens[new].issued
          /\ tokens' = [t \in Token |->
               IF t = new THEN [NewToken EXCEPT !.issued = TRUE]
               ELSE IF t \in tx[c].tokens /\ Outstanding(t)
                    THEN [tokens[t] EXCEPT !.superseded = TRUE]
               ELSE tokens[t]]
    BY DEF LinkCommits
  <1>2. UNCHANGED <<money, livemode, entitlements, minted>> /\ End(c)
    BY DEF LinkCommits
  <1>3. tokens' \in [Token -> Link]
    BY <1>1 DEF IInv, Shape, Link, NewToken
  <1>4. MintedConsumed'
    BY <1>1, <1>2 DEF IInv, Shape, Link, NewToken, MintedConsumed
  <1>5. minted' \in [Token -> Nat]
    BY <1>2 DEF IInv, Shape
  <1> QED
    BY <1>2, <1>3, <1>4, <1>5, LinkStepKeeps

LEMMA LinkRedeemed ==
    ASSUME IInv, NEW c \in Client, RedeemCommits(c)
    PROVE  IInv'
  <1>1. tx[c].token \in Token /\ tokens[tx[c].token].issued
    BY DEF IInv, Calls, RedeemCommits, In, Claims, Outstanding
  <1>2. UNCHANGED <<money, livemode, entitlements>> /\ End(c)
    BY DEF RedeemCommits
  <1>a. /\ tokens' = [tokens EXCEPT ![tx[c].token].consumed = TRUE]
        /\ minted' = [minted EXCEPT ![tx[c].token] = minted[tx[c].token] + 1]
    BY DEF RedeemCommits
  <1>b. tokens' \in [Token -> Link]
    BY <1>1, <1>a DEF IInv, Shape, Link
  <1>c. minted' \in [Token -> Nat]
    BY <1>1, <1>a DEF IInv, Shape
  <1>3. tokens' \in [Token -> Link] /\ minted' \in [Token -> Nat]
    BY <1>b, <1>c
  <1>4. MintedConsumed'
    BY <1>1 DEF IInv, Shape, Link, MintedConsumed, RedeemCommits
  <1> QED
    BY <1>2, <1>3, <1>4, LinkStepKeeps

LEMMA LinkLapses ==
    ASSUME IInv, NEW t \in Token, LinkEnds(t)
    PROVE  IInv'
  <1>1. tokens' = [tokens EXCEPT ![t].over = TRUE] /\ minted' = minted
    BY DEF LinkEnds
  <1>2. tokens' \in [Token -> Link] /\ minted' \in [Token -> Nat]
    BY <1>1 DEF IInv, Shape, Link
  <1>3. MintedConsumed'
    BY <1>1 DEF IInv, Shape, Link, MintedConsumed
  <1> QED
    BY <1>2, <1>3, LinkStepKeeps DEF LinkEnds

\* Prices and the platform's mode.
LEMMA SettingsChange ==
    ASSUME IInv, RetirePrices \/ PublishPrices \/ GoLive
    PROVE  IInv'
  <1>1. UNCHANGED <<orders, payments, entitlements, links, tx>> /\ livemode' \in BOOLEAN
    BY DEF RetirePrices, PublishPrices, GoLive, money, IInv, Shape
  <1>2. entitlements' \in [Item -> Entitlement]
    BY <1>1 DEF IInv, Shape
  <1> QED
    BY <1>1, <1>2, UnchangedKeeps, AloneKeeps

\* A payment only adds to what backs an order.
LEMMA PaymentArrives ==
    ASSUME IInv, NEW p \in Payment, ReceivePayment(p)
    PROVE  IInv'
  <1>1. /\ payments' = payments \cup {p}
        /\ UNCHANGED <<orders, livemode, entitlements, tokens, minted, tx>>
    BY DEF ReceivePayment, links
  <1>2. PaidBacked'
    BY <1>1 DEF IInv, PaidBacked, Backs
  <1> QED
    BY <1>1, <1>2 DEF IInv, Shape, Calls, PaidStatus, ActiveWasPaid, PendingWasPaid, MintedConsumed

LEMMA Settled ==
    ASSUME NEW row, IsOrder(row), NEW new, NEW paid, NEW next,
           next = [row EXCEPT !.status = new, !.paidIn = paid]
    PROVE  next = [ status |-> new, paidIn |-> paid,
                    discount |-> row.discount, amount |-> row.amount ]
  BY DEF IsOrder

\* The order's own status: it is paid by a payment, and stays so.
LEMMA StatusChanges ==
    ASSUME IInv, NEW o \in Order, NEW new \in Status, SetStatus(o, new)
    PROVE  IInv'
  <1> DEFINE row   == Derived(orders[o], items, o)
             fresh == new = "paid" /\ row.status # "disputed"
             paid  == IF fresh /\ row.paidIn = None
                      THEN IF livemode THEN "live" ELSE "test" ELSE row.paidIn
             next  == [row EXCEPT !.status = new, !.paidIn = paid]
  <1>1. IsOrder(row) /\ row.status = orders[o].status /\ row.paidIn = orders[o].paidIn
    BY DerivedKeeps DEF IInv, Shape
  <1>2. /\ new \in Follows(row.status)
        /\ fresh => \E p \in payments : Paying(p, row, o)
        /\ orders' = [orders EXCEPT ![o] = next]
        /\ UNCHANGED <<payments, livemode, entitlements, links, tx>>
    BY DEF SetStatus
  <1>3. next = [ status |-> new, paidIn |-> paid, discount |-> row.discount,
                 amount |-> row.amount ]
    <2>1. next = [row EXCEPT !.status = new, !.paidIn = paid]
      OBVIOUS
    <2> HIDE DEF row, paid, next
    <2> QED
      BY <1>1, <2>1, Settled
  <1>4. IsOrder(next) /\ next.status = new /\ next.paidIn = paid
    <2> HIDE DEF next, paid, row
    <2> QED
      BY <1>3 DEF IsOrder
  <1>5. /\ orders' = [x \in Order |-> IF x = o THEN next ELSE orders[x]]
        /\ orders[o].paidIn # None => paid = orders[o].paidIn
        /\ fresh /\ orders[o].paidIn = None => paid = IF livemode THEN "live" ELSE "test"
        /\ ~fresh => paid = orders[o].paidIn
    BY <1>1, <1>2 DEF IInv, Shape
  <1>f. fresh <=> new = "paid" /\ orders[o].status # "disputed"
    BY <1>1
  <1>g. new \in Follows(orders[o].status)
    BY <1>1, <1>2
  <1> HIDE DEF next, paid, row, fresh
  <1>6. PaidBacked'
    <2> SUFFICES ASSUME NEW x \in Order, orders'[x].paidIn # None
                 PROVE  \E p \in payments : /\ Backs(p, x)
                                            /\ orders'[x].paidIn = IF p.live THEN "live" ELSE "test"
      BY <1>2 DEF PaidBacked, Backs
    <2>1. CASE x = o /\ fresh /\ orders[o].paidIn = None
      <3>1. PICK p \in payments : Paying(p, row, o)
        BY <1>2, <2>1
      <3>2. Backs(p, o) /\ p.live = livemode
        BY <3>1 DEF Paying
      <3>3. orders'[x].paidIn = IF livemode THEN "live" ELSE "test"
        BY <2>1, <1>4, <1>5
      <3> QED
        BY <2>1, <3>2, <3>3
    <2>2. CASE ~(x = o /\ fresh /\ orders[o].paidIn = None)
      <3>1. orders'[x].paidIn = orders[x].paidIn
        BY <2>2, <1>4, <1>5
      <3> QED
        BY <3>1 DEF IInv, PaidBacked
    <2> QED
      BY <2>1, <2>2
  <1>7. \A x \in Order : orders[x].paidIn # None => orders'[x].paidIn # None
    BY <1>4, <1>5
  <1>8. PaidStatus'
    <2> SUFFICES ASSUME NEW x \in Order,
                        orders'[x].status \in {"paid", "disputed", "partially_refunded", "refunded"}
                 PROVE  orders'[x].paidIn # None
      BY DEF PaidStatus
    <2>1. CASE x # o
      BY <2>1, <1>5 DEF IInv, PaidStatus
    <2>2. CASE x = o /\ fresh
      <3>1. paid # None
        BY <2>2, <1>5, OrdersAssumption
      <3> QED
        BY <2>2, <3>1, <1>4, <1>5
    <2>3. CASE x = o /\ ~fresh
      <3>1. new \in {"paid", "disputed", "partially_refunded", "refunded"}
        BY <2>3, <1>4, <1>5
      <3>2. orders[o].status \in {"paid", "disputed", "partially_refunded"}
        BY <3>1, <2>3, <1>f, <1>g DEF Follows
      <3>3. orders[o].paidIn # None
        BY <3>2 DEF IInv, PaidStatus
      <3> QED
        BY <3>3, <2>3, <1>7
    <2> QED
      BY <2>1, <2>2, <2>3
  <1>9. Shape'
    BY <1>2, <1>4, <1>5 DEF IInv, Shape, links
  <1>10. Calls'
    BY <1>2 DEF IInv, Calls
  <1>11. ActiveWasPaid'
    BY <1>2, <1>7, ItemHasOrder DEF IInv, ActiveWasPaid, ItemParts
  <1>12. PendingWasPaid'
    BY <1>2, <1>7, ItemHasOrder DEF IInv, PendingWasPaid, Calls, ItemParts
  <1>13. MintedConsumed'
    BY <1>2 DEF IInv, MintedConsumed, links
  <1> QED
    BY <1>6, <1>8, <1>9, <1>10, <1>11, <1>12, <1>13 DEF IInv

LEMMA DiscountChanges ==
    ASSUME IInv, NEW o \in Order, NEW d \in Discount, SetDiscount(o, d)
    PROVE  IInv'
  <1> DEFINE given == [orders[o] EXCEPT !.discount = d]
             row   == Derived(given, items, o)
  <1>1. given = [ status |-> orders[o].status, paidIn |-> orders[o].paidIn,
                  discount |-> d, amount |-> orders[o].amount ]
    BY DEF IInv, Shape, IsOrder
  <1>2. IsOrder(given) /\ given.status = orders[o].status /\ given.paidIn = orders[o].paidIn
    <2> HIDE DEF given
    <2> QED
      BY <1>1 DEF IsOrder
  <1>3. IsOrder(row) /\ row.status = orders[o].status /\ row.paidIn = orders[o].paidIn
    <2> HIDE DEF given
    <2> QED
      BY <1>2, DerivedKeeps
  <1>4. orders' = [orders EXCEPT ![o] = row]
    BY DEF SetDiscount
  <1>5. UNCHANGED <<payments, links, tx, livemode, entitlements>>
    BY DEF SetDiscount
  <1> HIDE DEF row, given
  <1>6. OrdersKept
    BY <1>3, <1>4, RewriteKeeps
  <1> QED
    BY <1>5, <1>6, AloneKeeps DEF IInv, Shape

\* Entitlements.
LEMMA EntitlementBegins ==
    ASSUME IInv, NEW c \in Client, NEW i \in Item, NEW type \in EntitlementType,
           NEW status \in {"inactive", "active", "revoked"}, SetEntitlement(c, i, type, status)
    PROVE  IInv'
  <1> DEFINE op == [ call |-> "entitle", item |-> i,
                     insert |-> entitlements[i].status = "absent",
                     type |-> type, status |-> status ]
  <1>1. UNCHANGED <<money, livemode, entitlements, links>> /\ tx' = [tx EXCEPT ![c] = op]
    BY DEF SetEntitlement, Begin
  <1>2. op.call = "entitle" /\ op.item = i /\ op.type = type /\ op.status = status
    OBVIOUS
  <1>3. status = "active" /\ type = "hd_download" => orders[i[1]].paidIn # None
    BY ItemHasOrder DEF SetEntitlement, MayActivate, IInv, PaidStatus, ItemParts
  <1> HIDE DEF op
  <1> QED
    BY <1>1, <1>2, <1>3, BeginKeeps

LEMMA EntitlementWritten ==
    ASSUME IInv, NEW c \in Client, EntitlementCommits(c)
    PROVE  IInv'
  <1> DEFINE i == tx[c].item
             next == [entitlements[i] EXCEPT !.status = tx[c].status, !.type = tx[c].type]
  <1>1. /\ tx[c].call = "entitle" /\ i \in Item /\ tx[c].type \in EntitlementType
        /\ tx[c].status \in {"inactive", "active", "revoked"}
        /\ i[1] \in Order
    BY ItemHasOrder DEF IInv, Calls, EntitlementCommits, In, ItemParts
  <1>2. UNCHANGED <<orders, payments, livemode, tokens, minted>> /\ End(c)
    BY DEF EntitlementCommits, money, links
  <1>3. OrdersKept
    BY <1>2, UnchangedKeeps
  <1>4. entitlements' = entitlements \/ entitlements' = [entitlements EXCEPT ![i] = next]
    BY <1>1 DEF EntitlementCommits, IInv, Shape
  <1>5. CASE entitlements' = entitlements
    BY <1>2, <1>3, <1>5, EndKeeps DEF links
  <1>6. CASE entitlements' = [entitlements EXCEPT ![i] = next]
    <2>0. tx' = [d \in Client |-> IF d = c THEN Idle ELSE tx[d]]
      BY <1>2 DEF IInv, Shape, End
    <2>e. next \in Entitlement /\ next.status = tx[c].status /\ next.type = tx[c].type
      BY <1>1 DEF IInv, Shape, Entitlement
    <2> HIDE DEF next, i
    <2>1. Shape'
      BY <2>0, <2>e, <1>1, <1>2, <1>6 DEF IInv, Shape
    <2>2. Calls'
      BY <2>0 DEF IInv, Calls, Idle
    <2>3. PendingWasPaid'
      BY <2>0, <1>2 DEF IInv, PendingWasPaid, Idle
    <2>4. ActiveWasPaid'
      <3> SUFFICES ASSUME NEW k \in Item, entitlements'[k].status = "active",
                          entitlements'[k].type = "hd_download"
                   PROVE  orders[k[1]].paidIn # None
        BY <1>2 DEF ActiveWasPaid
      <3>1. CASE k = i
        <4>1. tx[c].status = "active" /\ tx[c].type = "hd_download"
          BY <3>1, <2>e, <1>1, <1>6 DEF IInv, Shape
        <4> QED
          BY <4>1, <3>1, <1>1 DEF IInv, PendingWasPaid, i
      <3>2. CASE k # i
        BY <3>2, <1>1, <1>6 DEF IInv, Shape, ActiveWasPaid
      <3> QED
        BY <3>1, <3>2
    <2>5. MintedConsumed'
      BY <1>2 DEF IInv, MintedConsumed
    <2> QED
      BY <2>1, <2>2, <2>3, <2>4, <2>5, <1>2, <1>3, KeptPaid DEF IInv
  <1> QED
    BY <1>4, <1>5, <1>6

LEMMA EntitlementAges ==
    ASSUME IInv, NEW i \in Item, EntitlementEnds(i) \/ Fulfilled(i)
    PROVE  IInv'
  <1>1. UNCHANGED <<orders, payments, links, tx, livemode>>
    BY DEF EntitlementEnds, Fulfilled, money
  <1>2. \/ entitlements' = [entitlements EXCEPT ![i].over = TRUE]
        \/ entitlements' = [entitlements EXCEPT ![i].ready = TRUE]
    BY DEF EntitlementEnds, Fulfilled
  <1>3. /\ entitlements' \in [Item -> Entitlement]
        /\ \A k \in Item : /\ entitlements'[k].status = entitlements[k].status
                           /\ entitlements'[k].type = entitlements[k].type
    <2>1. CASE entitlements' = [entitlements EXCEPT ![i].over = TRUE]
      BY <2>1 DEF IInv, Shape, Entitlement
    <2>2. CASE entitlements' = [entitlements EXCEPT ![i].ready = TRUE]
      BY <2>2 DEF IInv, Shape, Entitlement
    <2> QED
      BY <1>2, <2>1, <2>2
  <1> QED
    BY <1>1, <1>3, UnchangedKeeps, AloneKeeps DEF IInv, Shape

(***************************************************************************)
(* The theorems.                                                           *)
(***************************************************************************)

LEMMA NextIInv == IInv /\ [Next]_vars => IInv'
  <1> SUFFICES ASSUME IInv, [Next]_vars PROVE IInv'
    OBVIOUS
  <1>1. ASSUME NEW c \in Client, Call(c) PROVE IInv'
    BY <1>1, ItemBegins, ItemEnds, Refused, LinkBegins, LinkIssued, LinkRedeemed,
       EntitlementBegins, EntitlementWritten DEF Call
  <1>2. CASE RetirePrices \/ PublishPrices \/ GoLive
    BY <1>2, SettingsChange
  <1>3. ASSUME NEW p \in Payment, ReceivePayment(p) PROVE IInv'
    BY <1>3, PaymentArrives
  <1>4. ASSUME NEW o \in Order,
               (\E new \in Status : SetStatus(o, new)) \/ (\E d \in Discount : SetDiscount(o, d))
        PROVE IInv'
    BY <1>4, StatusChanges, DiscountChanges
  <1>5. ASSUME NEW i \in Item, EntitlementEnds(i) \/ Fulfilled(i) PROVE IInv'
    BY <1>5, EntitlementAges
  <1>6. ASSUME NEW t \in Token, LinkEnds(t) PROVE IInv'
    BY <1>6, LinkLapses
  <1>7. CASE UNCHANGED vars
    BY <1>7 DEF vars, money, links, IInv, Shape, Calls, PaidBacked, Backs, PaidStatus,
                ActiveWasPaid, PendingWasPaid, MintedConsumed
  <1> QED
    BY <1>1, <1>2, <1>3, <1>4, <1>5, <1>6, <1>7 DEF Next

\* The inductive invariant of the shop: orders that are or were paid are
\* backed by a payment of their mode, entitlements and activations under way
\* follow a payment, and a link that has been used is consumed.
THEOREM OrdersInvariant == Spec => []IInv
  BY InitIInv, NextIInv, PTL DEF Spec

\* Nothing is delivered without a verified payment, for any number of orders,
\* photographs, clients and payments (authorize_download(), 0006:163-194).
THEOREM OrdersNothingFree == Spec => []NothingFree
  <1>1. IInv => NothingFree
    BY ItemHasOrder DEF IInv, NothingFree, Authorized, PaidStatus, PaidBacked, ItemParts
  <1> QED
    BY <1>1, OrdersInvariant, PTL

\* An active purchase entitlement is of an order that was paid, although the
\* trigger that checks it reads the order without a lock (0004:568-606).
THEOREM OrdersActiveWasPaid == Spec => []ActiveWasPaid
  <1>1. IInv => ActiveWasPaid
    BY DEF IInv
  <1> QED
    BY <1>1, OrdersInvariant, PTL

\* Only a redemption mints a session.
LEMMA MintsByRedeeming ==
    ASSUME IInv, [Next]_vars, NEW t \in Token, minted'[t] # minted[t]
    PROVE  minted[t] = 0 /\ ~tokens[t].superseded
  <1>1. PICK c \in Client : RedeemCommits(c)
    BY DEF Next, Call, vars, links, AddItem, ChangeQuantity, RemoveItem, ItemCommits,
           ItemRefused, SetEntitlement, EntitlementCommits, AskLink, LinkCommits, Redeem,
           RedeemRefused, RetirePrices, PublishPrices, ReceivePayment, GoLive, SetStatus,
           SetDiscount, EntitlementEnds, Fulfilled, LinkEnds
  <1>2. /\ Outstanding(tx[c].token)
        /\ minted' = [minted EXCEPT ![tx[c].token] = minted[tx[c].token] + 1]
    BY <1>1 DEF RedeemCommits, Claims
  <1>3. t = tx[c].token
    BY <1>2 DEF IInv, Shape
  <1> QED
    BY <1>2, <1>3 DEF Outstanding, IInv, MintedConsumed

\* A link yields at most one session, and none once it is superseded, for any
\* number of clients that redeem it at once (0006:73-76, 142-143).
THEOREM OrdersLinkWorksOnce == Spec => LinkWorksOnce
  <1>1. IInv /\ [Next]_vars =>
          [\A t \in Token : minted'[t] # minted[t] => minted[t] = 0 /\ ~tokens[t].superseded]_vars
    BY MintsByRedeeming
  <1> QED
    BY <1>1, OrdersInvariant, PTL DEF Spec, LinkWorksOnce

(***************************************************************************)
(* Sums over a finite set.                                                 *)
(***************************************************************************)

\* The element that the fold takes next.
Pick(s) == CHOOSE x \in s : TRUE

\* g is the fold's function: to each subset of S it gives the sum of f there.
IsSum(g, f, S) ==
    g = [s \in SUBSET S |-> IF s = {} THEN 0 ELSE f[Pick(s)] + g[s \ {Pick(s)}]]

\* Induction over finite sets: where there is a set, there is a minimal one.
LEMMA MinimalSubset ==
    ASSUME NEW S, IsFiniteSet(S), NEW T \in SUBSET SUBSET S, T # {}
    PROVE  \E m \in T : \A u \in T : u \subseteq m => u = m
  <1>1. IsWellFoundedOn(StrictSubsetOrdering(S), FiniteSubsetsOf(S))
    BY FS_StrictSubsetOrderingWellFounded
  <1>2. T \subseteq FiniteSubsetsOf(S)
    BY FS_FiniteSubsetsOfFinite
  <1>3. PICK m \in T : \A u \in T : ~ (<<u, m>> \in StrictSubsetOrdering(S))
    BY <1>1, <1>2, WFMin
  <1> QED
    BY <1>3 DEF StrictSubsetOrdering

LEMMA SumAt ==
    ASSUME NEW g, NEW f, NEW S, IsSum(g, f, S), NEW s \in SUBSET S
    PROVE  /\ s = {} => g[s] = 0
           /\ s # {} => /\ Pick(s) \in s
                        /\ g[s] = f[Pick(s)] + g[s \ {Pick(s)}]
  <1>1. g = [t \in SUBSET S |-> IF t = {} THEN 0 ELSE f[Pick(t)] + g[t \ {Pick(t)}]]
    BY DEF IsSum
  <1>2. g[s] = IF s = {} THEN 0 ELSE f[Pick(s)] + g[s \ {Pick(s)}]
    BY <1>1
  <1>3. s # {} => Pick(s) \in s
    BY DEF Pick
  <1> QED
    BY <1>2, <1>3

\* Two folds over the same set, of functions that agree there, agree.
LEMMA SumsAgree ==
    ASSUME NEW f, NEW g, NEW A, IsSum(g, f, A),
           NEW e, NEW h, NEW B, IsSum(h, e, B),
           NEW S, IsFiniteSet(S), S \subseteq A, S \subseteq B,
           \A x \in S : f[x] = e[x]
    PROVE  g[S] = h[S]
  <1> DEFINE T == {s \in SUBSET S : g[s] # h[s]}
  <1>1. SUFFICES ASSUME T # {} PROVE FALSE
    OBVIOUS
  <1>2. PICK m \in T : \A u \in T : u \subseteq m => u = m
    <2>1. T \in SUBSET SUBSET S
      OBVIOUS
    <2> HIDE DEF T
    <2> QED
      BY <2>1, <1>1, MinimalSubset
  <1>3. m \in SUBSET S /\ m \in SUBSET A /\ m \in SUBSET B /\ g[m] # h[m]
    BY <1>2
  <1>4. m # {}
    BY <1>3, SumAt
  <1> DEFINE u == m \ {Pick(m)}
  <1>5. Pick(m) \in m /\ g[m] = f[Pick(m)] + g[u] /\ h[m] = e[Pick(m)] + h[u]
    BY <1>3, <1>4, SumAt
  <1>6. u \subseteq m /\ u # m /\ u \in SUBSET S
    BY <1>3, <1>5
  <1>7. g[u] = h[u]
    BY <1>2, <1>6
  <1>8. f[Pick(m)] = e[Pick(m)]
    BY <1>3, <1>5
  <1> QED
    BY <1>3, <1>5, <1>7, <1>8

LEMMA SumIsNat ==
    ASSUME NEW f, NEW g, NEW S, IsFiniteSet(S), IsSum(g, f, S),
           \A x \in S : f[x] \in Nat
    PROVE  g[S] \in Nat
  <1> DEFINE T == {s \in SUBSET S : g[s] \notin Nat}
  <1>1. SUFFICES ASSUME T # {} PROVE FALSE
    OBVIOUS
  <1>2. PICK m \in T : \A u \in T : u \subseteq m => u = m
    <2>1. T \in SUBSET SUBSET S
      OBVIOUS
    <2> HIDE DEF T
    <2> QED
      BY <2>1, <1>1, MinimalSubset
  <1>3. m \in SUBSET S /\ g[m] \notin Nat
    BY <1>2
  <1>4. m # {}
    BY <1>3, SumAt
  <1> DEFINE u == m \ {Pick(m)}
  <1>5. Pick(m) \in m /\ g[m] = f[Pick(m)] + g[u]
    BY <1>3, <1>4, SumAt
  <1>6. u \subseteq m /\ u # m /\ u \in SUBSET S
    BY <1>3, <1>5
  <1>7. g[u] \in Nat /\ f[Pick(m)] \in Nat
    BY <1>2, <1>3, <1>5, <1>6
  <1>8. g[m] \in Nat
    BY <1>5, <1>7
  <1> QED
    BY <1>3, <1>8

\* The fold is well defined.
LEMMA SumExists ==
    ASSUME NEW f, NEW S, IsFiniteSet(S)
    PROVE  \E g : IsSum(g, f, S)
  <1> DEFINE T == {s \in SUBSET S : ~ \E g : IsSum(g, f, s)}
  <1>1. SUFFICES ASSUME T # {} PROVE FALSE
    OBVIOUS
  <1>2. PICK m \in T : \A u \in T : u \subseteq m => u = m
    <2>1. T \in SUBSET SUBSET S
      OBVIOUS
    <2> HIDE DEF T
    <2> QED
      BY <2>1, <1>1, MinimalSubset
  <1>3. m \in SUBSET S /\ ~ \E g : IsSum(g, f, m)
    BY <1>2
  <1> DEFINE Sol(u) == CHOOSE g : IsSum(g, f, u)
             Sum == [t \in SUBSET m |->
                       IF t = {} THEN 0 ELSE f[Pick(t)] + Sol(t \ {Pick(t)})[t \ {Pick(t)}]]
  <1>4. ASSUME NEW u, u \subseteq m, u # m PROVE IsSum(Sol(u), f, u) /\ IsFiniteSet(u)
    <2>1. u \in SUBSET S /\ u \notin T
      BY <1>2, <1>3, <1>4
    <2>2. \E g : IsSum(g, f, u)
      BY <2>1
    <2>3. IsSum(Sol(u), f, u)
      BY <2>2
    <2> QED
      BY <2>1, <2>3, FS_Subset
  <1> HIDE DEF Sol
  <1>5. ASSUME NEW u, u \subseteq m, u # m PROVE Sum[u] = Sol(u)[u]
    <2>1. CASE u = {}
      BY <2>1, <1>4, <1>5, SumAt
    <2>2. CASE u # {}
      <3> DEFINE v == u \ {Pick(u)}
      <3>1. IsSum(Sol(u), f, u)
        BY <1>4, <1>5
      <3>2. Pick(u) \in u /\ Sol(u)[u] = f[Pick(u)] + Sol(u)[v]
        BY <3>1, <2>2, SumAt
      <3>3. v \subseteq m /\ v # m /\ v \subseteq u
        BY <1>5, <3>2
      <3>4. IsSum(Sol(v), f, v) /\ IsFiniteSet(v)
        BY <3>3, <1>4
      <3>5. Sol(u)[v] = Sol(v)[v]
        BY <3>1, <3>3, <3>4, SumsAgree
      <3>6. Sum[u] = f[Pick(u)] + Sol(v)[v]
        BY <2>2, <1>5
      <3> QED
        BY <3>2, <3>5, <3>6
    <2> QED
      BY <2>1, <2>2
  <1>6. ASSUME NEW t \in SUBSET m, t # {} PROVE Sum[t \ {Pick(t)}] = Sol(t \ {Pick(t)})[t \ {Pick(t)}]
    <2>1. Pick(t) \in t
      BY <1>6 DEF Pick
    <2>2. t \ {Pick(t)} \subseteq m /\ t \ {Pick(t)} # m
      BY <2>1
    <2> QED
      BY <2>2, <1>5
  <1>7. Sum = [t \in SUBSET m |-> IF t = {} THEN 0 ELSE f[Pick(t)] + Sum[t \ {Pick(t)}]]
    BY <1>6
  <1>8. IsSum(Sum, f, m)
    BY <1>7 DEF IsSum
  <1> QED
    BY <1>3, <1>8

\* What an order's items come to is such a sum.
LEMMA SubtotalIsSum ==
    ASSUME NEW its, NEW o, IsFiniteSet(Has(its, o)), NEW f,
           \A i \in Has(its, o) : f[i] = its[i].unit * its[i].quantity
    PROVE  \E g : IsSum(g, f, Has(its, o)) /\ Subtotal(its, o) = g[Has(its, o)]
  <1> DEFINE S == Has(its, o)
      Iter(g) == g = [s \in SUBSET S |->
                    IF s = {} THEN 0
                    ELSE its[CHOOSE x \in s : TRUE].unit * its[CHOOSE x \in s : TRUE].quantity
                          + g[s \ {CHOOSE x \in s : TRUE}]]
      iter == CHOOSE g : Iter(g)
  <1>1. Subtotal(its, o) = iter[S]
    BY DEF Subtotal, MapThenSumSet, MapThenFoldSet
  <1>2. PICK g : IsSum(g, f, S)
    <2>1. IsFiniteSet(S)
      OBVIOUS
    <2> HIDE DEF S
    <2> QED
      BY <2>1, SumExists
  <1>3. ASSUME NEW h PROVE Iter(h) <=> IsSum(h, f, S)
    <2>1. ASSUME NEW s \in SUBSET S, s # {}
          PROVE  its[CHOOSE x \in s : TRUE].unit * its[CHOOSE x \in s : TRUE].quantity
                   + h[s \ {CHOOSE x \in s : TRUE}] = f[Pick(s)] + h[s \ {Pick(s)}]
      <3>1. Pick(s) \in S
        BY <2>1 DEF Pick
      <3>2. f[Pick(s)] = its[Pick(s)].unit * its[Pick(s)].quantity
        BY <3>1
      <3> QED
        BY <3>2 DEF Pick
    <2> HIDE DEF S
    <2> QED
      BY <2>1 DEF IsSum
  <1>4. IsSum(iter, f, S)
    <2>1. Iter(g)
      BY <1>2, <1>3
    <2>2. Iter(iter)
      <3> HIDE DEF Iter
      <3> QED
        BY <2>1
    <2> QED
      BY <2>2, <1>3
  <1> QED
    BY <1>1, <1>4

(***************************************************************************)
(* The invariant of the amounts.                                           *)
(***************************************************************************)

Line == [unit : Nat, quantity : 0..MaxQuantity]

\* Every order's row, without its amounts' sum.
Rows ==
    \A o \in Order : /\ orders[o].status \in Status
                     /\ orders[o].paidIn \in {None, "test", "live"}
                     /\ orders[o].discount \in Nat
                     /\ orders[o].amount \in Nat

\* An order has finitely many items: the fold over them is a sum.
Lines == /\ items \in [Item -> Line]
         /\ \A o \in Order : IsFiniteSet(Has(items, o))

Ledger == published \in Version \cup {None} /\ payments \subseteq Payment

Owned == \A i \in Item : entitlements[i].status # "absent" => Exists(i)

MintedOnce == \A t \in Token : minted[t] # 0 => minted[t] = 1 /\ Client # {}

\* The rows that writers of items have prepared.
PendingLines ==
    \A c \in Client :
        /\ tx[c].call \in {"add", "quantity"} => tx[c].to \in Line /\ tx[c].to.quantity > 0
        /\ tx[c].call = "remove" => tx[c].to = NoItem

Totals == /\ Rows /\ Lines /\ TotalIsDerived
          /\ Ledger /\ Owned /\ MintedOnce /\ PendingLines

\* What each item adds to its order.
Lined(its) == [i \in Item |-> its[i].unit * its[i].quantity]

LEMMA LinedNat ==
    ASSUME NEW its \in [Item -> Line], NEW i \in Item
    PROVE  Lined(its)[i] \in Nat
  <1>1. its[i].unit \in Nat /\ its[i].quantity \in Nat
    BY OrdersAssumption DEF Line
  <1>2. \A m, n \in Nat : m * n \in Nat
    OBVIOUS
  <1> QED
    BY <1>1, <1>2 DEF Lined

LEMMA SubtotalLined ==
    ASSUME NEW its, NEW o, IsFiniteSet(Has(its, o))
    PROVE  \E g : IsSum(g, Lined(its), Has(its, o)) /\ Subtotal(its, o) = g[Has(its, o)]
  <1>1. \A i \in Has(its, o) : Lined(its)[i] = its[i].unit * its[i].quantity
    BY DEF Lined, Has
  <1> QED
    BY <1>1, SubtotalIsSum

\* A subtotal is an amount of money, ...
LEMMA SubtotalNat ==
    ASSUME NEW its \in [Item -> Line], NEW o, IsFiniteSet(Has(its, o))
    PROVE  Subtotal(its, o) \in Nat
  <1>1. PICK g : IsSum(g, Lined(its), Has(its, o)) /\ Subtotal(its, o) = g[Has(its, o)]
    BY SubtotalLined
  <1>2. \A i \in Has(its, o) : Lined(its)[i] \in Nat
    BY LinedNat DEF Has
  <1> QED
    BY <1>1, <1>2, SumIsNat

\* ... and only the order's own items matter to it.
LEMMA SubtotalSame ==
    ASSUME NEW its, NEW jts, NEW o, IsFiniteSet(Has(its, o)),
           \A i \in Item : i[1] = o => its[i] = jts[i]
    PROVE  Has(its, o) = Has(jts, o) /\ Subtotal(its, o) = Subtotal(jts, o)
  <1>1. Has(its, o) = Has(jts, o)
    BY DEF Has
  <1>2. PICK g : IsSum(g, Lined(its), Has(its, o)) /\ Subtotal(its, o) = g[Has(its, o)]
    BY SubtotalLined
  <1>3. PICK h : IsSum(h, Lined(jts), Has(its, o)) /\ Subtotal(jts, o) = h[Has(its, o)]
    BY <1>1, SubtotalLined
  <1>4. \A i \in Has(its, o) : Lined(its)[i] = Lined(jts)[i]
    BY DEF Has, Lined
  <1>5. g[Has(its, o)] = h[Has(its, o)]
    BY <1>2, <1>3, <1>4, SumsAgree
  <1> QED
    BY <1>1, <1>2, <1>3, <1>5

\* An order has at most one item more than before.
LEMMA HasAfter ==
    ASSUME NEW its \in [Item -> Line], NEW i \in Item, NEW to \in Line, NEW o,
           IsFiniteSet(Has(its, o))
    PROVE  IsFiniteSet(Has([its EXCEPT ![i] = to], o))
  <1>1. IsFiniteSet(Has(its, o) \cup {i})
    BY FS_AddElement
  <1>2. Has([its EXCEPT ![i] = to], o) \subseteq Has(its, o) \cup {i}
    BY DEF Has
  <1> QED
    BY <1>1, <1>2, FS_Subset

\* What the order's own trigger leaves: amount and discount are of its items.
LEMMA DerivedSums ==
    ASSUME NEW row, NEW its \in [Item -> Line], NEW o, IsFiniteSet(Has(its, o)),
           IsOrder(row), row.status \in Status, row.paidIn \in {None, "test", "live"},
           row.discount \in Nat
    PROVE  LET d == Derived(row, its, o) IN
             /\ d.status \in Status /\ d.paidIn \in {None, "test", "live"}
             /\ d.discount \in Nat /\ d.amount \in Nat
             /\ d.amount + d.discount = Subtotal(its, o)
  <1> DEFINE subtotal == Subtotal(its, o)
             discount == IF row.discount > subtotal THEN subtotal ELSE row.discount
             amount   == subtotal - discount
  <1>1. Derived(row, its, o) = [row EXCEPT !.discount = discount, !.amount = amount]
    BY DEF Derived
  <1>2. subtotal \in Nat
    BY SubtotalNat
  <1> HIDE DEF subtotal
  <1>3. discount \in Nat /\ amount \in Nat /\ amount + discount = subtotal
    BY <1>2
  <1> HIDE DEF amount, discount
  <1>4. Derived(row, its, o) = [ status |-> row.status, paidIn |-> row.paidIn,
                                 discount |-> discount, amount |-> amount ]
    BY <1>1 DEF IsOrder
  <1> QED
    BY <1>3, <1>4 DEF subtotal

(***************************************************************************)
(* Its steps.                                                              *)
(***************************************************************************)

LEMMA InitTotals == Init => Totals
  <1> SUFFICES ASSUME Init PROVE Totals
    OBVIOUS
  <1>1. Rows
    BY DEF Init, Rows, Status
  <1>2. NoItem \in Line /\ NoItem.quantity = 0
    BY OrdersAssumption DEF NoItem, Line
  <1>3. \A o \in Order : Has(items, o) = {}
    BY <1>2 DEF Init, Has
  <1>4. Lines
    BY <1>2, <1>3, FS_EmptySet DEF Init, Lines
  <1>5. TotalIsDerived
    <2> SUFFICES ASSUME NEW o \in Order PROVE Subtotal(items, o) = 0
      BY DEF Init, TotalIsDerived
    <2>1. PICK g : IsSum(g, Lined(items), {}) /\ Subtotal(items, o) = g[{}]
      BY <1>3, SubtotalLined, FS_EmptySet
    <2> QED
      BY <2>1, SumAt
  <1>6. Ledger /\ Owned /\ MintedOnce /\ PendingLines
    BY DEF Init, Ledger, Owned, MintedOnce, PendingLines, Idle, NoEntitlement
  <1> QED
    BY <1>1, <1>4, <1>5, <1>6 DEF Totals

\* A row written over the items of its order keeps the amounts right.
LEMMA RowWritten ==
    ASSUME IInv, Totals, NEW o \in Order, NEW row, UNCHANGED items,
           row.status \in Status, row.paidIn \in {None, "test", "live"},
           row.discount \in Nat, row.amount \in Nat,
           row.amount + row.discount = Subtotal(items, o),
           orders' = [orders EXCEPT ![o] = row]
    PROVE  Rows' /\ Lines' /\ TotalIsDerived'
  <1>1. orders' = [x \in Order |-> IF x = o THEN row ELSE orders[x]]
    BY DEF IInv, Shape
  <1>2. Rows'
    BY <1>1 DEF Totals, Rows
  <1>3. Lines'
    BY DEF Totals, Lines, Has
  <1>4. TotalIsDerived'
    <2>1. \A x : Subtotal(items', x) = Subtotal(items, x)
      OBVIOUS
    <2> QED
      BY <1>1, <2>1 DEF Totals, TotalIsDerived
  <1> QED
    BY <1>2, <1>3, <1>4

LEMMA MoneyUnchanged ==
    ASSUME Totals, UNCHANGED <<orders, items>>
    PROVE  Rows' /\ Lines' /\ TotalIsDerived'
  <1>1. Rows'
    BY DEF Totals, Rows
  <1>2. Lines'
    BY DEF Totals, Lines, Has
  <1>3. TotalIsDerived'
    <2>1. \A o : Subtotal(items', o) = Subtotal(items, o)
      OBVIOUS
    <2> QED
      BY <2>1 DEF Totals, TotalIsDerived
  <1> QED
    BY <1>1, <1>2, <1>3

\* An item is written, and its order's total recomputed over what is then
\* there; no other order's total depends on it.
LEMMA ItemWritten ==
    ASSUME IInv, Totals, NEW c \in Client, ItemCommits(c)
    PROVE  Rows' /\ Lines' /\ TotalIsDerived' /\ Owned'
  <1> DEFINE i   == tx[c].item
             to  == tx[c].to
             its == [items EXCEPT ![i] = to]
             o   == i[1]
             row == Derived(orders[o], its, o)
  <1>1. i \in Item /\ o \in Order
    BY ItemHasOrder DEF IInv, Calls, ItemCommits, ItemParts
  <1>2. to \in Line /\ (to.quantity > 0 \/ tx[c].call = "remove")
    <2>1. NoItem \in Line
      BY OrdersAssumption DEF NoItem, Line
    <2> QED
      BY <2>1 DEF Totals, PendingLines, ItemCommits
  <1>3. items \in [Item -> Line] /\ \A x \in Order : IsFiniteSet(Has(items, x))
    BY DEF Totals, Lines
  <1>4. /\ items' = its /\ orders' = [orders EXCEPT ![o] = row]
        /\ entitlements' = IF tx[c].call = "remove"
                           THEN [entitlements EXCEPT ![i] = NoEntitlement] ELSE entitlements
    BY DEF ItemCommits, Recomputed, In
  <1> HIDE DEF i, to
  <1>5. its \in [Item -> Line]
    BY <1>2, <1>3
  <1>6. \A x \in Order : IsFiniteSet(Has(its, x))
    BY <1>1, <1>2, <1>3, HasAfter
  <1>7. \A x \in Order : x # o => Subtotal(items, x) = Subtotal(its, x)
    <2> SUFFICES ASSUME NEW x \in Order, x # o
                 PROVE  Subtotal(items, x) = Subtotal(its, x)
      OBVIOUS
    <2>1. \A k \in Item : k[1] = x => items[k] = its[k]
      BY <1>3
    <2> HIDE DEF its, o
    <2> QED
      BY <2>1, <1>3, SubtotalSame
  <1>8. /\ IsOrder(orders[o]) /\ orders[o].status \in Status
        /\ orders[o].paidIn \in {None, "test", "live"} /\ orders[o].discount \in Nat
    BY <1>1 DEF Totals, Rows, IInv, Shape
  <1>9. /\ row.status \in Status /\ row.paidIn \in {None, "test", "live"}
        /\ row.discount \in Nat /\ row.amount \in Nat
        /\ row.amount + row.discount = Subtotal(its, o)
    <2> HIDE DEF its, o
    <2> QED
      BY <1>1, <1>5, <1>6, <1>8, DerivedSums
  <1>10. orders' = [x \in Order |-> IF x = o THEN row ELSE orders[x]]
    BY <1>4 DEF IInv, Shape
  <1>11. Owned'
    <2> SUFFICES ASSUME NEW k \in Item, entitlements'[k].status # "absent"
                 PROVE  items'[k].quantity > 0
      BY DEF Owned, Exists
    <2>1. CASE k = i
      <3>1. tx[c].call # "remove"
        BY <2>1, <1>1, <1>4 DEF NoEntitlement, IInv, Shape
      <3> QED
        BY <3>1, <2>1, <1>1, <1>2, <1>3, <1>4
    <2>2. CASE k # i
      <3>1. entitlements'[k] = entitlements[k] /\ items'[k] = items[k]
        BY <2>2, <1>3, <1>4 DEF IInv, Shape
      <3> QED
        BY <3>1 DEF Totals, Owned, Exists
    <2> QED
      BY <2>1, <2>2
  <1> HIDE DEF its, o, row
  <1>12. Rows'
    BY <1>9, <1>10 DEF Totals, Rows
  <1>13. Lines'
    BY <1>4, <1>5, <1>6 DEF Lines, Has
  <1>14. TotalIsDerived'
    BY <1>4, <1>7, <1>9, <1>10 DEF Totals, TotalIsDerived
  <1> QED
    BY <1>11, <1>12, <1>13, <1>14

\* A transaction that begins or ends.
LEMMA EndPends ==
    ASSUME IInv, Totals, NEW c \in Client, End(c)
    PROVE  PendingLines'
  <1>1. tx' = [d \in Client |-> IF d = c THEN Idle ELSE tx[d]]
    BY DEF IInv, Shape, End
  <1> QED
    BY <1>1 DEF Totals, PendingLines, Idle

LEMMA BeginPends ==
    ASSUME IInv, Totals, NEW c \in Client, NEW op, tx' = [tx EXCEPT ![c] = op],
           op.call \in {"add", "quantity"} => op.to \in Line /\ op.to.quantity > 0,
           op.call = "remove" => op.to = NoItem
    PROVE  PendingLines'
  <1>1. tx' = [d \in Client |-> IF d = c THEN op ELSE tx[d]]
    BY DEF IInv, Shape
  <1> QED
    BY <1>1 DEF Totals, PendingLines

\* A step that changes neither orders nor items nor links.
LEMMA OthersKeep ==
    ASSUME Totals, UNCHANGED <<orders, items, minted>>, Ledger', Owned', PendingLines'
    PROVE  Totals'
  <1>1. MintedOnce'
    BY DEF Totals, MintedOnce
  <1> QED
    BY <1>1, MoneyUnchanged DEF Totals

LEMMA SameLedger ==
    ASSUME Totals, UNCHANGED <<published, payments>>
    PROVE  Ledger'
  BY DEF Totals, Ledger

LEMMA SameOwned ==
    ASSUME Totals, UNCHANGED <<items, entitlements>>
    PROVE  Owned'
  BY DEF Totals, Owned, Exists

LEMMA ResolvedNat ==
    ASSUME Totals, NEW i \in Item, Resolved(i) # None
    PROVE  Resolved(i) \in Nat
  <1>1. i[2] \in Capture
    BY DEF Item
  <1> QED
    BY <1>1, OrdersAssumption DEF Totals, Ledger, Resolved

LEMMA CallBegins ==
    ASSUME IInv, Totals, NEW c \in Client,
           NEW op, tx' = [tx EXCEPT ![c] = op],
           op.call \in {"add", "quantity"} => op.to \in Line /\ op.to.quantity > 0,
           op.call = "remove" => op.to = NoItem,
           UNCHANGED <<money, published, entitlements, links>>
    PROVE  Totals'
  BY BeginPends, OthersKeep, SameLedger, SameOwned DEF money, links

LEMMA LineBegins ==
    ASSUME IInv, Totals, NEW c \in Client, NEW i \in Item,
           AddItem(c, i) \/ (\E n \in 1..MaxQuantity : ChangeQuantity(c, i, n)) \/ RemoveItem(c, i)
    PROVE  Totals'
  <1>1. CASE AddItem(c, i)
    <2> DEFINE to == [unit |-> Resolved(i), quantity |-> 1]
               op == [call |-> "add", item |-> i, to |-> to]
    <2>1. UNCHANGED <<money, published, entitlements, links>> /\ tx' = [tx EXCEPT ![c] = op]
      BY <1>1 DEF AddItem, Begin
    <2>2. to \in Line /\ to.quantity > 0
      BY <1>1, ResolvedNat, OrdersAssumption DEF AddItem, Line
    <2> HIDE DEF to
    <2>3. op.call = "add" /\ op.to = to
      OBVIOUS
    <2> HIDE DEF op
    <2> QED
      BY <2>1, <2>2, <2>3, CallBegins
  <1>2. ASSUME NEW n \in 1..MaxQuantity, ChangeQuantity(c, i, n)
        PROVE  Totals'
    <2> DEFINE to == [unit |-> Resolved(i), quantity |-> n]
               op == [call |-> "quantity", item |-> i, to |-> to]
    <2>1. UNCHANGED <<money, published, entitlements, links>> /\ tx' = [tx EXCEPT ![c] = op]
      BY <1>2 DEF ChangeQuantity, Begin
    <2>2. to \in Line /\ to.quantity > 0
      BY <1>2, ResolvedNat, OrdersAssumption DEF ChangeQuantity, Line
    <2> HIDE DEF to
    <2>3. op.call = "quantity" /\ op.to = to
      OBVIOUS
    <2> HIDE DEF op
    <2> QED
      BY <2>1, <2>2, <2>3, CallBegins
  <1>3. CASE RemoveItem(c, i)
    <2> DEFINE op == [call |-> "remove", item |-> i, to |-> NoItem]
    <2>1. UNCHANGED <<money, published, entitlements, links>> /\ tx' = [tx EXCEPT ![c] = op]
      BY <1>3 DEF RemoveItem, Begin
    <2>2. op.call = "remove" /\ op.to = NoItem
      OBVIOUS
    <2> HIDE DEF op
    <2> QED
      BY <2>1, <2>2, CallBegins
  <1> QED
    BY <1>1, <1>2, <1>3

LEMMA OtherBegins ==
    ASSUME IInv, Totals, NEW c \in Client,
           \/ \E i \in Item, type \in EntitlementType, status \in {"inactive", "active", "revoked"} :
                SetEntitlement(c, i, type, status)
           \/ \E o \in Order : AskLink(c, o)
           \/ \E t \in Token : Redeem(c, t)
    PROVE  Totals'
  <1>1. ASSUME NEW i \in Item, NEW type, NEW status, SetEntitlement(c, i, type, status)
        PROVE  Totals'
    <2> DEFINE op == [ call |-> "entitle", item |-> i,
                       insert |-> entitlements[i].status = "absent",
                       type |-> type, status |-> status ]
    <2>1. UNCHANGED <<money, published, entitlements, links>> /\ tx' = [tx EXCEPT ![c] = op]
      BY <1>1 DEF SetEntitlement, Begin
    <2>2. op.call = "entitle"
      OBVIOUS
    <2> HIDE DEF op
    <2> QED
      BY <2>1, <2>2, CallBegins
  <1>2. ASSUME NEW o \in Order, AskLink(c, o)
        PROVE  Totals'
    <2> DEFINE op == [call |-> "link", tokens |-> {t \in Token : TokenOrder[t] = o /\ Outstanding(t)},
                      order |-> o]
    <2>1. UNCHANGED <<money, published, entitlements, links>> /\ tx' = [tx EXCEPT ![c] = op]
      BY <1>2 DEF AskLink, Begin
    <2>2. op.call = "link"
      OBVIOUS
    <2> HIDE DEF op
    <2> QED
      BY <2>1, <2>2, CallBegins
  <1>3. ASSUME NEW t \in Token, Redeem(c, t)
        PROVE  Totals'
    <2> DEFINE op == [call |-> "redeem", token |-> t]
    <2>1. UNCHANGED <<money, published, entitlements, links>> /\ tx' = [tx EXCEPT ![c] = op]
      BY <1>3 DEF Redeem, Begin
    <2>2. op.call = "redeem"
      OBVIOUS
    <2> HIDE DEF op
    <2> QED
      BY <2>1, <2>2, CallBegins
  <1> QED
    BY <1>1, <1>2, <1>3

LEMMA CallEnds ==
    ASSUME IInv, Totals, NEW c \in Client,
           \/ ItemCommits(c) \/ ItemRefused(c) \/ EntitlementCommits(c)
           \/ LinkCommits(c) \/ RedeemCommits(c) \/ RedeemRefused(c)
    PROVE  Totals'
  <1>1. CASE ItemCommits(c)
    <2>1. UNCHANGED <<published, payments, minted>> /\ End(c)
      BY <1>1 DEF ItemCommits, links
    <2>2. MintedOnce'
      BY <2>1 DEF Totals, MintedOnce
    <2> QED
      BY <1>1, <2>1, <2>2, ItemWritten, SameLedger, EndPends DEF Totals
  <1>2. CASE ItemRefused(c) \/ RedeemRefused(c) \/ LinkCommits(c)
    <2>1. UNCHANGED <<orders, items, payments, published, entitlements, minted>> /\ End(c)
      BY <1>2 DEF ItemRefused, RedeemRefused, LinkCommits, money, links
    <2> QED
      BY <2>1, OthersKeep, SameLedger, SameOwned, EndPends
  <1>3. CASE EntitlementCommits(c)
    <2>1. UNCHANGED <<orders, items, payments, published, minted>> /\ End(c)
      BY <1>3 DEF EntitlementCommits, money, links
    <2>2. Owned'
      <3> SUFFICES ASSUME NEW k \in Item, entitlements'[k].status # "absent"
                   PROVE  Exists(k)
        BY <2>1 DEF Owned, Exists
      <3>1. \/ entitlements'[k] = entitlements[k]
            \/ k = tx[c].item /\ Exists(tx[c].item)
        BY <1>3 DEF EntitlementCommits, Holds, IInv, Shape
      <3> QED
        BY <3>1 DEF Totals, Owned
    <2> QED
      BY <2>1, <2>2, OthersKeep, SameLedger, EndPends
  <1>4. CASE RedeemCommits(c)
    <2>1. /\ UNCHANGED <<orders, items, payments, published, entitlements>> /\ End(c)
          /\ minted' = [minted EXCEPT ![tx[c].token] = minted[tx[c].token] + 1]
      BY <1>4 DEF RedeemCommits, money
    <2>2. tx[c].token \in Token => minted[tx[c].token] = 0
      BY <1>4 DEF RedeemCommits, Claims, Outstanding, IInv, MintedConsumed
    <2>3. MintedOnce'
      BY <2>1, <2>2 DEF IInv, Shape, Totals, MintedOnce
    <2> QED
      BY <2>1, <2>3, MoneyUnchanged, SameLedger, SameOwned, EndPends DEF Totals
  <1> QED
    BY <1>1, <1>2, <1>3, <1>4

\* A status is set on the row as its trigger has just derived it.
LEMMA StatusSums ==
    ASSUME IInv, Totals, NEW o \in Order, NEW new \in Status, SetStatus(o, new)
    PROVE  Rows' /\ Lines' /\ TotalIsDerived'
  <1> DEFINE row   == Derived(orders[o], items, o)
             fresh == new = "paid" /\ row.status # "disputed"
             paid  == IF fresh /\ row.paidIn = None
                      THEN IF livemode THEN "live" ELSE "test" ELSE row.paidIn
             next  == [row EXCEPT !.status = new, !.paidIn = paid]
  <1>1. IsOrder(row)
    BY DerivedKeeps DEF IInv, Shape
  <1>2. /\ row.status \in Status /\ row.paidIn \in {None, "test", "live"}
        /\ row.discount \in Nat /\ row.amount \in Nat
        /\ row.amount + row.discount = Subtotal(items, o)
    <2>1. /\ IsOrder(orders[o]) /\ orders[o].status \in Status
          /\ orders[o].paidIn \in {None, "test", "live"} /\ orders[o].discount \in Nat
      BY DEF Totals, Rows, IInv, Shape
    <2> QED
      BY <2>1, DerivedSums DEF Totals, Lines
  <1>3. orders' = [orders EXCEPT ![o] = next] /\ items' = items
    BY DEF SetStatus
  <1>4. paid \in {None, "test", "live"}
    BY <1>2
  <1>5. next = [ status |-> new, paidIn |-> paid, discount |-> row.discount,
                 amount |-> row.amount ]
    <2>1. next = [row EXCEPT !.status = new, !.paidIn = paid]
      OBVIOUS
    <2> HIDE DEF row, paid, next
    <2> QED
      BY <1>1, <2>1, Settled
  <1> HIDE DEF row, paid, next
  <1>6. /\ next.status \in Status /\ next.paidIn \in {None, "test", "live"}
        /\ next.discount \in Nat /\ next.amount \in Nat
        /\ next.amount + next.discount = Subtotal(items, o)
    BY <1>2, <1>4, <1>5
  <1> QED
    BY <1>3, <1>6, RowWritten

LEMMA DiscountSums ==
    ASSUME IInv, Totals, NEW o \in Order, NEW d \in Discount, SetDiscount(o, d)
    PROVE  Rows' /\ Lines' /\ TotalIsDerived'
  <1> DEFINE given == [orders[o] EXCEPT !.discount = d]
             row   == Derived(given, items, o)
  <1>1. given = [ status |-> orders[o].status, paidIn |-> orders[o].paidIn,
                  discount |-> d, amount |-> orders[o].amount ]
    BY DEF IInv, Shape, IsOrder
  <1>2. orders' = [orders EXCEPT ![o] = row] /\ items' = items
    BY DEF SetDiscount
  <1>3. orders[o].status \in Status /\ orders[o].paidIn \in {None, "test", "live"} /\ d \in Nat
    BY OrdersAssumption DEF Totals, Rows
  <1> HIDE DEF given
  <1>4. /\ IsOrder(given) /\ given.status \in Status
        /\ given.paidIn \in {None, "test", "live"} /\ given.discount \in Nat
    BY <1>1, <1>3 DEF IsOrder
  <1>5. /\ row.status \in Status /\ row.paidIn \in {None, "test", "live"}
        /\ row.discount \in Nat /\ row.amount \in Nat
        /\ row.amount + row.discount = Subtotal(items, o)
    BY <1>4, DerivedSums DEF Totals, Lines
  <1> HIDE DEF row
  <1> QED
    BY <1>2, <1>5, RowWritten

LEMMA OrderChanges ==
    ASSUME IInv, Totals, NEW o \in Order,
           (\E new \in Status : SetStatus(o, new)) \/ (\E d \in Discount : SetDiscount(o, d))
    PROVE  Totals'
  <1>1. Rows' /\ Lines' /\ TotalIsDerived'
    BY StatusSums, DiscountSums
  <1>2. UNCHANGED <<items, payments, published, entitlements, minted, tx>>
    BY DEF SetStatus, SetDiscount, links
  <1>3. MintedOnce' /\ PendingLines'
    BY <1>2 DEF Totals, MintedOnce, PendingLines
  <1> QED
    BY <1>1, <1>2, <1>3, SameLedger, SameOwned DEF Totals

LEMMA SettingsKeep ==
    ASSUME Totals, RetirePrices \/ PublishPrices \/ GoLive
                   \/ \E p \in Payment : ReceivePayment(p)
    PROVE  Totals'
  <1>1. UNCHANGED <<orders, items, entitlements, minted, tx>>
    BY DEF RetirePrices, PublishPrices, GoLive, ReceivePayment, money, links
  <1>2. PendingLines'
    BY <1>1 DEF Totals, PendingLines
  <1>3. Ledger'
    <2>1. CASE PublishPrices
      <3>1. PICK n \in Version : Version = 1..n /\ n \in Nat
        BY OrdersAssumption
      <3>2. n \in Version /\ n + 1 \notin Version
        BY <3>1
      <3>3. published' \in Version
        BY <2>1, <3>2 DEF PublishPrices
      <3> QED
        BY <2>1, <3>3 DEF PublishPrices, Totals, Ledger, money
    <2>2. CASE RetirePrices \/ GoLive
      BY <2>2 DEF RetirePrices, GoLive, Totals, Ledger, money
    <2>3. CASE \E p \in Payment : ReceivePayment(p)
      BY <2>3 DEF ReceivePayment, Totals, Ledger
    <2> QED
      BY <2>1, <2>2, <2>3
  <1> QED
    BY <1>1, <1>2, <1>3, OthersKeep, SameOwned

LEMMA EntitlementKeeps ==
    ASSUME IInv, Totals, NEW i \in Item, EntitlementEnds(i) \/ Fulfilled(i)
    PROVE  Totals'
  <1>1. UNCHANGED <<orders, items, payments, published, minted, tx>>
    BY DEF EntitlementEnds, Fulfilled, money, links
  <1>2. \A k \in Item : entitlements'[k].status = entitlements[k].status
    BY DEF EntitlementEnds, Fulfilled, IInv, Shape, Entitlement
  <1>3. Owned'
    BY <1>1, <1>2 DEF Totals, Owned, Exists
  <1>4. PendingLines'
    BY <1>1 DEF Totals, PendingLines
  <1> QED
    BY <1>1, <1>3, <1>4, OthersKeep, SameLedger

LEMMA LinkKeeps ==
    ASSUME Totals, NEW t \in Token, LinkEnds(t)
    PROVE  Totals'
  <1>1. UNCHANGED <<orders, items, payments, published, entitlements, minted, tx>>
    BY DEF LinkEnds, money
  <1>2. PendingLines'
    BY <1>1 DEF Totals, PendingLines
  <1> QED
    BY <1>1, <1>2, OthersKeep, SameLedger, SameOwned

LEMMA NextTotals == IInv /\ Totals /\ [Next]_vars => Totals'
  <1> SUFFICES ASSUME IInv, Totals, [Next]_vars PROVE Totals'
    OBVIOUS
  <1>1. ASSUME NEW c \in Client, Call(c) PROVE Totals'
    BY <1>1, LineBegins, OtherBegins, CallEnds DEF Call
  <1>2. CASE RetirePrices \/ PublishPrices \/ GoLive \/ \E p \in Payment : ReceivePayment(p)
    BY <1>2, SettingsKeep
  <1>3. ASSUME NEW o \in Order,
               (\E new \in Status : SetStatus(o, new)) \/ (\E d \in Discount : SetDiscount(o, d))
        PROVE Totals'
    BY <1>3, OrderChanges
  <1>4. ASSUME NEW i \in Item, EntitlementEnds(i) \/ Fulfilled(i) PROVE Totals'
    BY <1>4, EntitlementKeeps
  <1>5. ASSUME NEW t \in Token, LinkEnds(t) PROVE Totals'
    BY <1>5, LinkKeeps
  <1>6. CASE UNCHANGED vars
    <2>1. UNCHANGED <<orders, items, payments, published, entitlements, minted, tx>>
      BY <1>6 DEF vars, money, links
    <2>2. PendingLines'
      BY <2>1 DEF Totals, PendingLines
    <2> QED
      BY <2>1, <2>2, OthersKeep, SameLedger, SameOwned
  <1> QED
    BY <1>1, <1>2, <1>3, <1>4, <1>5, <1>6 DEF Next

\* The inductive invariant of the amounts: finitely many items to an order, a
\* prepared row that is a line, and every total that of its order's lines.
THEOREM OrdersTotals == Spec => []Totals
  <1>1. Init => Totals
    BY InitTotals
  <1>2. IInv /\ Totals /\ [Next]_vars => Totals'
    BY NextTotals
  <1> QED
    BY <1>1, <1>2, OrdersInvariant, PTL DEF Spec

\* An order's amount and discount are what its items come to, for any number
\* of orders, items and clients that change them at once (0001:298-309, 393-409,
\* 0004:426-449: "a tampered total is structurally impossible").
THEOREM OrdersTotalIsDerived == Spec => []TotalIsDerived
  <1>1. Totals => TotalIsDerived
    BY DEF Totals
  <1> QED
    BY <1>1, OrdersTotals, PTL

LEMMA TypedFromInvariants == IInv /\ Totals => TypeOK
  <1> SUFFICES ASSUME IInv, Totals PROVE TypeOK
    OBVIOUS
  <1>1. orders \in [Order -> [ status : Status, paidIn : {None, "test", "live"},
                               discount : Nat, amount : Nat ]]
    BY DEF IInv, Shape, IsOrder, Totals, Rows
  <1>2. items \in [Item -> [unit : Nat, quantity : 0..MaxQuantity]]
    BY DEF Totals, Lines, Line
  <1>3. minted \in [Token -> 0..Cardinality(Client)]
    <2>1. Cardinality(Client) \in Nat /\ (Client # {} => Cardinality(Client) # 0)
      BY OrdersAssumption, FS_CardinalityType, FS_EmptySet
    <2>2. ASSUME NEW t \in Token PROVE minted[t] \in 0..Cardinality(Client)
      BY <2>1 DEF IInv, Shape, Totals, MintedOnce
    <2> QED
      BY <2>2 DEF IInv, Shape
  <1>4. \A i \in Item : entitlements[i].status # "absent" => items[i] # NoItem
    BY DEF Totals, Owned, Exists, NoItem
  <1> QED
    BY <1>1, <1>2, <1>3, <1>4 DEF TypeOK, IInv, Shape, Entitlement, Link, Totals, Ledger

\* Orders, items, payments, entitlements and links are what TypeOK says, for
\* every value of the constants: among them that an entitlement is of an item
\* the order still has (0004:568-606) and that amounts are never negative.
THEOREM OrdersTypeCorrect == Spec => []TypeOK
  BY TypedFromInvariants, OrdersInvariant, OrdersTotals, PTL

=============================================================================
