--------------------------- MODULE StorefrontProofs ---------------------------
(***************************************************************************)
(* Proofs about Storefront, for every catalogue, every number of presses    *)
(* and every number of returns.                                            *)
(*                                                                         *)
(* What is promised when a request is answered speaks of an order that was  *)
(* made in the same step, and of every step that staff or other requests    *)
(* take later.  So the inductive invariant adds two facts: a request that   *)
(* waits for its answer has no order yet, and no two orders are of one      *)
(* request.  The first is lost if the answer does not come with the order,  *)
(* the second if a request could be answered twice.                         *)
(***************************************************************************)
EXTENDS MCBusiness, BillingProofs, PaymentSettlementProofs

Request == [items : SUBSET Items, method : Methods,
            answer : {"waiting", "ok", "error", "shown", "told", "lost"}]

Order == [press : Nat, items : SUBSET Items, method : Methods, state : {"draft", "sale"}, token : BOOLEAN,
          tickets : {0, 1}, delivery : {"not_required", "pending", "assigned"}, awards : {0, 1}]

Return == [sale : Nat, state : ReturnStates, seen : SUBSET ReturnStates, approved : BOOLEAN]

Awarded == {s \in Sales : sales[s].awards > 0}

(* What the channel promises of an order it has answered for. *)
Kept(o) ==
    /\ o.token
    /\ shop.confirms => o.state = "sale"
    /\ shop.queues => o.tickets = 1
    /\ o.method = "delivery" => o.delivery # "not_required"

RowsTyped ==
    /\ shop \in Shops /\ cart \subseteq Items /\ points \in Nat
    /\ page \in Seq(Request) /\ sales \in Seq(Order) /\ returns \in Seq(Return)
    /\ \A s \in Sales : sales[s].press \in Presses
    /\ \A r \in DOMAIN returns : returns[r].sale \in Sales

OneOrderEach ==
    /\ \A s, t \in Sales : sales[s].press = sales[t].press => s = t
    /\ \A s \in Sales : page[sales[s].press].answer # "waiting"

AnswersKept ==
    \A p \in Presses : page[p].answer \in {"ok", "shown"} =>
        \E s \in Sales : sales[s].press = p /\ sales[s].items = page[p].items /\ Kept(sales[s])

ReturnsApproved ==
    \A r \in DOMAIN returns :
        /\ "approved" \in returns[r].seen => returns[r].approved
        /\ returns[r].state = "processed" => returns[r].approved

(* The inductive invariant. *)
StoreInv == RowsTyped /\ OneOrderEach /\ AnswersKept /\ ReturnsApproved /\ points = Cardinality(Awarded)

-----------------------------------------------------------------------------
(* The invariant gives what the runs check. *)
LEMMA StoreInvTypes == StoreInv => StoreTypeOK
<1> SUFFICES ASSUME StoreInv PROVE StoreTypeOK
  OBVIOUS
<1>1. \A s \in Sales : sales[s] \in Order
  BY ElementOfSeq DEF StoreInv, RowsTyped, Sales
<1>2. \A r \in DOMAIN returns : returns[r] \in Return
  BY ElementOfSeq DEF StoreInv, RowsTyped
<1> QED
  BY <1>1, <1>2 DEF StoreInv, RowsTyped, StoreTypeOK, Order, Return, Request

LEMMA StoreInvAnswers == StoreInv => AnsweredComplete
<1> SUFFICES ASSUME StoreInv PROVE AnsweredComplete
  OBVIOUS
<1>1. ASSUME NEW p \in Presses PROVE Cardinality(OfPress(p)) <= 1
  <2>1. CASE OfPress(p) = {}
    BY <2>1, FS_EmptySet
  <2>2. CASE OfPress(p) # {}
    <3>1. PICK s \in OfPress(p) : TRUE
      BY <2>2
    <3>2. OfPress(p) = {s}
      BY <3>1 DEF OfPress, StoreInv, OneOrderEach
    <3> QED
      BY <3>2, FS_Singleton
  <2> QED
    BY <2>1, <2>2
<1>2. ASSUME NEW p \in Presses, page[p].answer \in {"ok", "shown"}
      PROVE  \E s \in OfPress(p) : /\ sales[s].items = page[p].items /\ sales[s].token
                                   /\ (shop.confirms => sales[s].state = "sale")
                                   /\ (shop.queues => sales[s].tickets = 1)
                                   /\ (sales[s].method = "delivery" => sales[s].delivery # "not_required")
  <2>1. PICK s \in Sales : sales[s].press = p /\ sales[s].items = page[p].items /\ Kept(sales[s])
    BY <1>2 DEF StoreInv, AnswersKept
  <2> QED
    BY <2>1 DEF OfPress, Kept
<1> QED
  BY <1>1, <1>2 DEF AnsweredComplete

LEMMA StoreInvHandled == StoreInv => HandledOnce
<1> SUFFICES ASSUME StoreInv PROVE HandledOnce
  OBVIOUS
<1>1. \A s \in Sales : sales[s] \in Order
  BY ElementOfSeq DEF StoreInv, RowsTyped, Sales
<1>2. \A s \in Sales : sales[s].tickets <= 1
  BY <1>1 DEF Order
<1> QED
  BY <1>2 DEF StoreInv, Awarded, ReturnsApproved, HandledOnce

-----------------------------------------------------------------------------
LEMMA StoreStarts == StoreInit => StoreInv
<1> SUFFICES ASSUME StoreInit PROVE StoreInv
  OBVIOUS
<1>1. Sales = {} /\ Presses = {} /\ DOMAIN returns = {}
  BY DEF StoreInit, Sales, Presses
<1>2. page \in Seq(Request) /\ sales \in Seq(Order) /\ returns \in Seq(Return)
  BY DEF StoreInit
<1>3. Awarded = {} /\ Cardinality(Awarded) = 0
  BY <1>1, FS_EmptySet DEF Awarded
<1> QED
  BY <1>1, <1>2, <1>3 DEF StoreInit, StoreInv, RowsTyped, OneOrderEach, AnswersKept, ReturnsApproved

(* An answer that was not "ok" and does not become so changes nothing of the rest, *)
(* and neither does showing one.                                                   *)
LEMMA AnswerKeeps ==
    ASSUME StoreInv, NEW p \in Presses, NEW a \in {"error", "shown", "told", "lost"},
           a = "shown" => page[p].answer = "ok",
           page' = [page EXCEPT ![p].answer = a], cart' \subseteq Items, UNCHANGED <<shop, sales, points, returns>>
    PROVE  StoreInv'
<1>1. page \in Seq(Request) /\ p \in 1 .. Len(page) /\ page[p] \in Request
  BY ElementOfSeq DEF StoreInv, RowsTyped, Presses
<1>2. [page[p] EXCEPT !.answer = a] \in Request
  BY <1>1 DEF Request
<1>3. page' = [page EXCEPT ![p] = [page[p] EXCEPT !.answer = a]]
  OBVIOUS
<1>4. page' \in Seq(Request) /\ Presses' = Presses
  BY <1>1, <1>2, <1>3, ExceptSeq DEF Presses
<1>5. \A q \in Presses : page'[q].items = page[q].items /\ page'[q].answer = IF q = p THEN a ELSE page[q].answer
  BY <1>1, <1>3 DEF Request, Presses
<1>6. RowsTyped'
  BY <1>4 DEF StoreInv, RowsTyped, Sales
<1>7. OneOrderEach'
  BY <1>5 DEF StoreInv, RowsTyped, OneOrderEach, Sales
<1>8. AnswersKept'
  BY <1>4, <1>5 DEF StoreInv, AnswersKept, Sales, Kept
<1> QED
  BY <1>6, <1>7, <1>8 DEF StoreInv, ReturnsApproved, Awarded, Sales

(* An order that a request leaves behind, whether it is answered with "ok" or not. *)
LEMMA OrderKeeps ==
    ASSUME StoreInv, NEW p \in Presses, page[p].answer = "waiting",
           NEW o \in Order, o.press = p, o.items = page[p].items, o.awards = 0,
           NEW a \in {"ok", "error"}, a = "ok" => Kept(o),
           page' = [page EXCEPT ![p].answer = a], sales' = Append(sales, o), UNCHANGED <<shop, cart, points, returns>>
    PROVE  StoreInv'
<1>1. page \in Seq(Request) /\ p \in 1 .. Len(page) /\ page[p] \in Request
  BY ElementOfSeq DEF StoreInv, RowsTyped, Presses
<1>2. [page[p] EXCEPT !.answer = a] \in Request
  BY <1>1 DEF Request
<1>3. page' = [page EXCEPT ![p] = [page[p] EXCEPT !.answer = a]]
  OBVIOUS
<1>4. page' \in Seq(Request) /\ Presses' = Presses
  BY <1>1, <1>2, <1>3, ExceptSeq DEF Presses
<1>5. \A q \in Presses : page'[q].items = page[q].items /\ page'[q].answer = IF q = p THEN a ELSE page[q].answer
  BY <1>1, <1>3 DEF Request, Presses
<1> DEFINE n == Len(sales) + 1
<1>6. sales \in Seq(Order) /\ Len(sales) \in Nat
  BY DEF StoreInv, RowsTyped
<1>7. sales' \in Seq(Order) /\ Sales = 1 .. Len(sales) /\ Sales' = 1 .. n /\ sales'[n] = o
  BY <1>6, AppendProperties DEF Sales
<1>8. Sales' = Sales \cup {n} /\ n \notin Sales /\ \A s \in Sales : sales'[s] = sales[s]
  BY <1>6, <1>7, AppendProperties
<1> HIDE DEF n
<1>9. RowsTyped'
  BY <1>4, <1>7, <1>8 DEF StoreInv, RowsTyped
<1>10. \A s \in Sales : sales[s].press # p
  BY DEF StoreInv, OneOrderEach
<1>11. OneOrderEach'
  <2>1. \A s, t \in Sales' : sales'[s].press = sales'[t].press => s = t
    BY <1>7, <1>8, <1>10 DEF StoreInv, OneOrderEach
  <2>2. \A s \in Sales' : page'[sales'[s].press].answer # "waiting"
    BY <1>5, <1>7, <1>8 DEF StoreInv, RowsTyped, OneOrderEach
  <2> QED
    BY <2>1, <2>2 DEF OneOrderEach
<1>12. AnswersKept'
  <2> SUFFICES ASSUME NEW q \in Presses', page'[q].answer \in {"ok", "shown"}
               PROVE  \E s \in Sales' : sales'[s].press = q /\ sales'[s].items = page'[q].items /\ Kept(sales[s])'
    BY DEF AnswersKept
  <2>1. CASE q = p
    BY <2>1, <1>5, <1>7, <1>8 DEF Kept
  <2>2. CASE q # p
    <3> q \in Presses /\ page[q].answer \in {"ok", "shown"} /\ page'[q].items = page[q].items
      BY <2>2, <1>4, <1>5
    <3>1. PICK s \in Sales : sales[s].press = q /\ sales[s].items = page[q].items /\ Kept(sales[s])
      BY DEF StoreInv, AnswersKept
    <3>2. s \in Sales' /\ sales'[s] = sales[s]
      BY <1>8
    <3>3. Kept(sales[s])'
      BY <3>1, <3>2 DEF Kept
    <3> QED
      BY <3>1, <3>2, <3>3
  <2> QED
    BY <2>1, <2>2
<1>13. Awarded' = Awarded
  BY <1>7, <1>8 DEF Awarded
<1> QED
  BY <1>9, <1>11, <1>12, <1>13 DEF StoreInv, ReturnsApproved

(* Staff may press an order's buttons as they like, as long as nothing is undone.  *)
Furthers(o, new) ==
    /\ new \in Order
    /\ new.press = o.press /\ new.items = o.items /\ new.awards >= o.awards
    /\ Kept(o) => Kept(new)

LEMMA SaleKeeps ==
    ASSUME StoreInv, NEW s \in Sales, NEW new, Furthers(sales[s], new), SetSale(s, new),
           points' = IF new.awards > sales[s].awards THEN points + 1 ELSE points
    PROVE  StoreInv'
<1>1. sales \in Seq(Order) /\ s \in 1 .. Len(sales) /\ sales[s] \in Order /\ new \in Order
  BY ElementOfSeq DEF StoreInv, RowsTyped, Sales, Furthers
<1>2. sales' = [sales EXCEPT ![s] = new] /\ UNCHANGED <<shop, cart, page, returns>>
  BY DEF SetSale
<1>3. sales' \in Seq(Order) /\ Sales' = Sales
  BY <1>1, <1>2, ExceptSeq DEF Sales
<1>4. \A t \in Sales : sales'[t] = IF t = s THEN new ELSE sales[t]
  BY <1>1, <1>2 DEF Sales
<1>5. \A t \in Sales : sales'[t].press = sales[t].press /\ sales'[t].items = sales[t].items
  BY <1>4 DEF Furthers
<1>6. RowsTyped'
  <2>1. points' \in Nat
    BY DEF StoreInv, RowsTyped
  <2> QED
    BY <2>1, <1>2, <1>3, <1>5 DEF StoreInv, RowsTyped, Presses
<1>7. OneOrderEach'
  BY <1>2, <1>3, <1>5 DEF StoreInv, OneOrderEach
<1>8. AnswersKept'
  BY <1>2, <1>3, <1>4, <1>5 DEF StoreInv, AnswersKept, Presses, Furthers, Kept
<1>9. points' = Cardinality(Awarded')
  <2>1. IsFiniteSet(Awarded)
    <3>1. IsFiniteSet(Sales)
      BY <1>1, FS_Interval DEF Sales
    <3> QED
      BY <3>1, FS_Subset DEF Awarded
  <2>2. CASE new.awards > sales[s].awards
    <3>1. new.awards = 1 /\ sales[s].awards = 0
      BY <2>2, <1>1 DEF Order
    <3>2. Awarded' = Awarded \cup {s} /\ s \notin Awarded
      BY <3>1, <1>3, <1>4 DEF Awarded
    <3> QED
      BY <2>1, <2>2, <3>2, FS_AddElement DEF StoreInv
  <2>3. CASE new.awards = sales[s].awards
    <3>1. Awarded' = Awarded
      BY <2>3, <1>3, <1>4 DEF Awarded
    <3> QED
      BY <2>3, <1>1, <3>1 DEF StoreInv, Order
  <2> QED
    BY <1>1, <2>2, <2>3 DEF Furthers, Order
<1> QED
  BY <1>2, <1>6, <1>7, <1>8, <1>9 DEF StoreInv, ReturnsApproved

(* A return's buttons, whatever its forms show. *)
LEMMA ReturnKeeps ==
    ASSUME StoreInv, NEW r, NEW from \in SUBSET ReturnStates, NEW to \in ReturnStates, ReturnStep(r, from, to),
           to = "processed" => from = {"approved"}
    PROVE  StoreInv'
<1>1. returns \in Seq(Return) /\ r \in 1 .. Len(returns) /\ returns[r] \in Return
  BY ElementOfSeq DEF StoreInv, RowsTyped, ReturnStep
<1> DEFINE new == Moved(returns[r], to)
<1>2. returns' = [returns EXCEPT ![r] = new] /\ UNCHANGED <<shop, cart, page, sales, points>>
  BY DEF ReturnStep
<1>3. /\ new \in Return /\ new.sale = returns[r].sale /\ new.state = to
      /\ new.seen = returns[r].seen \cup {to} /\ (new.approved <=> returns[r].approved \/ to = "approved")
  <2> DEFINE ok == returns[r].approved \/ to = "approved"
             forms == returns[r].seen \cup {to}
  <2>1. new = [returns[r] EXCEPT !.state = to, !.seen = forms, !.approved = ok]
    BY DEF Moved
  <2>2. ok \in BOOLEAN /\ forms \in SUBSET ReturnStates
    BY <1>1 DEF Return
  <2> HIDE DEF ok, forms
  <2>3. new \in Return /\ new.sale = returns[r].sale /\ new.state = to /\ new.seen = forms /\ new.approved = ok
    BY <1>1, <2>1, <2>2 DEF Return
  <2> QED
    BY <2>3 DEF ok, forms
<1>4. /\ "approved" \in new.seen => new.approved
      /\ new.state = "processed" => new.approved
  <2>1. "approved" \in returns[r].seen => returns[r].approved
    BY <1>1 DEF StoreInv, ReturnsApproved
  <2>2. to = "processed" => "approved" \in returns[r].seen
    BY DEF ReturnStep
  <2> QED
    BY <2>1, <2>2, <1>3
<1> HIDE DEF new
<1>5. returns' \in Seq(Return) /\ DOMAIN returns' = DOMAIN returns
  BY <1>1, <1>2, <1>3, ExceptSeq
<1>6. \A q \in DOMAIN returns : returns'[q] = IF q = r THEN new ELSE returns[q]
  BY <1>1, <1>2
<1>7. RowsTyped'
  BY <1>2, <1>3, <1>5, <1>6 DEF StoreInv, RowsTyped, Sales, Presses
<1>8. ReturnsApproved'
  BY <1>4, <1>5, <1>6 DEF StoreInv, ReturnsApproved
<1> QED
  BY <1>2, <1>7, <1>8 DEF StoreInv, OneOrderEach, AnswersKept, Kept, Awarded, Sales, Presses

-----------------------------------------------------------------------------
(* What the parts of tijara_create_order do to an order. *)
LEMMA PlacedOrder ==
    ASSUME StoreInv, NEW p \in Presses
    PROVE  /\ Placed(p) \in Order /\ Placed(p).press = p /\ Placed(p).items = page[p].items
           /\ Placed(p).awards = 0 /\ Placed(p).token
<1>1. page[p] \in Request /\ p \in Nat
  BY ElementOfSeq DEF StoreInv, RowsTyped, Presses
<1> QED
  BY <1>1 DEF Placed, Order, Request

LEMMA ConfirmedOrder ==
    ASSUME NEW o \in Order
    PROVE  /\ Confirmed(o) \in Order
           /\ Confirmed(o) = [o EXCEPT !.state = Confirmed(o).state]
           /\ shop.confirms => Confirmed(o).state = "sale"
           /\ o.state = "sale" => Confirmed(o).state = "sale"
<1>1. CASE shop.confirms
  BY <1>1 DEF Confirmed, Order
<1>2. CASE ~shop.confirms
  BY <1>2 DEF Confirmed, Order
<1> QED
  BY <1>1, <1>2

LEMMA TicketedOrder ==
    ASSUME NEW o \in Order
    PROVE  Ticketed(o) \in Order /\ Ticketed(o) = [o EXCEPT !.tickets = 1] /\ Ticketed(o).tickets = 1
<1>1. CASE o.tickets = 0
  BY <1>1 DEF Ticketed, Order
<1>2. CASE o.tickets = 1
  BY <1>2 DEF Ticketed, Order
<1> QED
  BY <1>1, <1>2 DEF Order

LEMMA AutoTicketedOrder ==
    ASSUME NEW o \in Order
    PROVE  /\ AutoTicketed(o) \in Order
           /\ AutoTicketed(o) = [o EXCEPT !.tickets = AutoTicketed(o).tickets]
           /\ shop.queues => AutoTicketed(o).tickets = 1
<1>1. CASE shop.queues
  BY <1>1, TicketedOrder DEF AutoTicketed
<1>2. CASE ~shop.queues
  BY <1>2 DEF AutoTicketed, Order
<1> QED
  BY <1>1, <1>2

LEMMA PreparedOrder ==
    ASSUME NEW o \in Order
    PROVE  /\ Prepared(o) \in Order
           /\ Prepared(o) = [o EXCEPT !.delivery = Prepared(o).delivery]
           /\ o.method = "delivery" => Prepared(o).delivery # "not_required"
<1> DEFINE d == IF o.method # "delivery" THEN "not_required" ELSE IF shop.courier = "none" THEN "pending" ELSE "assigned"
<1>1. d \in {"not_required", "pending", "assigned"} /\ (o.method = "delivery" => d # "not_required")
  OBVIOUS
<1>2. Prepared(o) = [o EXCEPT !.delivery = d]
  BY DEF Prepared
<1> HIDE DEF d
<1> QED
  BY <1>1, <1>2 DEF Order

-----------------------------------------------------------------------------
(* The visitor. *)
LEMMA PressKeeps == ASSUME StoreInv, NEW method \in Methods, Press(method) PROVE StoreInv'
<1> DEFINE row == [items |-> cart, method |-> method, answer |-> "waiting"]
           n   == Len(page) + 1
<1>1. page \in Seq(Request) /\ Len(page) \in Nat /\ row \in Request
  BY DEF StoreInv, RowsTyped, Request
<1>2. page' = Append(page, row) /\ UNCHANGED <<shop, cart, sales, points, returns>>
  BY DEF Press
<1>3. row.answer = "waiting"
  OBVIOUS
<1> HIDE DEF row
<1>4. page' \in Seq(Request) /\ Presses = 1 .. Len(page) /\ Presses' = 1 .. n /\ page'[n] = row
  BY <1>1, <1>2, AppendProperties DEF Presses
<1>5. Presses' = Presses \cup {n} /\ \A q \in Presses : page'[q] = page[q]
  BY <1>1, <1>2, <1>4, AppendProperties
<1> HIDE DEF n
<1>6. RowsTyped'
  BY <1>2, <1>4, <1>5 DEF StoreInv, RowsTyped, Sales
<1>7. OneOrderEach'
  BY <1>2, <1>5 DEF StoreInv, RowsTyped, OneOrderEach, Sales
<1>8. AnswersKept'
  <2> SUFFICES ASSUME NEW q \in Presses', page'[q].answer \in {"ok", "shown"}
               PROVE  \E s \in Sales' : sales'[s].press = q /\ sales'[s].items = page'[q].items /\ Kept(sales[s])'
    BY DEF AnswersKept
  <2>1. q \in Presses /\ page'[q] = page[q]
    BY <1>3, <1>4, <1>5
  <2> QED
    BY <2>1, <1>2 DEF StoreInv, AnswersKept, Kept, Sales
<1> QED
  BY <1>2, <1>6, <1>7, <1>8 DEF StoreInv, ReturnsApproved, Awarded, Sales

LEMMA AddItemKeeps == ASSUME StoreInv, NEW i \in Items, AddItem(i) PROVE StoreInv'
BY DEF AddItem, StoreInv, RowsTyped, OneOrderEach, AnswersKept, Kept, ReturnsApproved, Awarded, Sales, Presses

LEMMA CheckoutKeeps == ASSUME StoreInv, NEW p \in Presses, Checkout(p) PROVE StoreInv'
<1> DEFINE o1 == Placed(p)
           o2 == Confirmed(o1)
           o3 == AutoTicketed(o2)
           o4 == Prepared(o3)
<1>1. o1 \in Order /\ o1.press = p /\ o1.items = page[p].items /\ o1.awards = 0 /\ o1.token
  BY PlacedOrder
<1>2. /\ o2 \in Order /\ o2.press = p /\ o2.items = page[p].items /\ o2.awards = 0 /\ o2.token
      /\ shop.confirms => o2.state = "sale"
  <2> HIDE DEF o1
  <2>1. o2 \in Order /\ o2 = [o1 EXCEPT !.state = o2.state] /\ (shop.confirms => o2.state = "sale")
    BY <1>1, ConfirmedOrder
  <2> HIDE DEF o2
  <2> QED
    BY <1>1, <2>1 DEF Order
<1>3. /\ o3 \in Order /\ o3.press = p /\ o3.items = page[p].items /\ o3.awards = 0 /\ o3.token
      /\ o3.state = o2.state /\ (shop.queues => o3.tickets = 1)
  <2> HIDE DEF o2
  <2>1. o3 \in Order /\ o3 = [o2 EXCEPT !.tickets = o3.tickets] /\ (shop.queues => o3.tickets = 1)
    BY <1>2, AutoTicketedOrder
  <2> HIDE DEF o3
  <2> QED
    BY <1>2, <2>1 DEF Order
<1>4. /\ o4 \in Order /\ o4.press = p /\ o4.items = page[p].items /\ o4.awards = 0 /\ o4.token
      /\ o4.state = o2.state /\ o4.tickets = o3.tickets /\ o4.method = o3.method
      /\ o3.method = "delivery" => o4.delivery # "not_required"
  <2> HIDE DEF o3
  <2>1. /\ o4 \in Order /\ o4 = [o3 EXCEPT !.delivery = o4.delivery]
        /\ o3.method = "delivery" => o4.delivery # "not_required"
    BY <1>3, PreparedOrder
  <2> HIDE DEF o4
  <2> QED
    BY <1>3, <2>1 DEF Order
<1> HIDE DEF o2, o3
<1>5. Kept(o4)
  <2> HIDE DEF o4
  <2> QED
    BY <1>2, <1>3, <1>4 DEF Kept
<1>6. /\ page[p].answer = "waiting" /\ page' = [page EXCEPT ![p].answer = "ok"] /\ sales' = Append(sales, o4)
      /\ UNCHANGED <<shop, cart, points, returns>>
  BY DEF Checkout, Reply, Answer, o2, o3
<1> HIDE DEF o4
<1> QED
  BY <1>4, <1>5, <1>6, OrderKeeps

LEMMA CheckoutFailsKeeps == ASSUME StoreInv, NEW p \in Presses, CheckoutFails(p) PROVE StoreInv'
<1> DEFINE o1 == Placed(p)
           o2 == Confirmed(o1)
           o3 == AutoTicketed(o2)
<1>1. /\ page[p].answer = "waiting" /\ page' = [page EXCEPT ![p].answer = "error"]
      /\ UNCHANGED <<shop, cart, points, returns>>
      /\ sales' = Append(sales, o1) \/ sales' = Append(sales, o3)
  BY DEF CheckoutFails, Reply, Answer
<1>2. o1 \in Order /\ o1.press = p /\ o1.items = page[p].items /\ o1.awards = 0
  BY PlacedOrder
<1> HIDE DEF o1
<1>3. o2 \in Order /\ o2.press = p /\ o2.items = page[p].items /\ o2.awards = 0
  <2>1. o2 \in Order /\ o2 = [o1 EXCEPT !.state = o2.state]
    BY <1>2, ConfirmedOrder
  <2> HIDE DEF o2
  <2> QED
    BY <1>2, <2>1 DEF Order
<1> HIDE DEF o2
<1>4. o3 \in Order /\ o3.press = p /\ o3.items = page[p].items /\ o3.awards = 0
  <2>1. o3 \in Order /\ o3 = [o2 EXCEPT !.tickets = o3.tickets]
    BY <1>3, AutoTicketedOrder
  <2> HIDE DEF o3
  <2> QED
    BY <1>3, <2>1 DEF Order
<1> HIDE DEF o3
<1>5. CASE sales' = Append(sales, o1)
  BY <1>1, <1>2, <1>5, OrderKeeps
<1>6. CASE sales' = Append(sales, o3)
  BY <1>1, <1>4, <1>6, OrderKeeps
<1> QED
  BY <1>1, <1>5, <1>6

LEMMA AnswerStepKeeps ==
    ASSUME StoreInv, NEW p \in Presses, Refuse(p) \/ ShowAnswer(p) \/ LoseAnswer(p)
    PROVE  StoreInv'
<1> cart \subseteq Items
  BY DEF StoreInv, RowsTyped
<1>1. CASE Refuse(p)
  BY <1>1, AnswerKeeps DEF Refuse, Reply, Answer
<1>2. CASE ShowAnswer(p)
  <2>1. page' = [page EXCEPT ![p].answer = IF page[p].answer = "ok" THEN "shown" ELSE "told"]
    BY <1>2 DEF ShowAnswer
  <2>2. cart' \subseteq Items /\ UNCHANGED <<shop, sales, points, returns>>
    BY <1>2 DEF ShowAnswer
  <2>3. CASE page[p].answer = "ok"
    BY <2>1, <2>2, <2>3, AnswerKeeps
  <2>4. CASE page[p].answer # "ok"
    BY <2>1, <2>2, <2>4, AnswerKeeps
  <2> QED
    BY <2>3, <2>4
<1>3. CASE LoseAnswer(p)
  BY <1>3, AnswerKeeps DEF LoseAnswer
<1> QED
  BY <1>1, <1>2, <1>3

-----------------------------------------------------------------------------
(* Staff and customers. *)
LEMMA SaleStepKeeps ==
    ASSUME StoreInv, NEW s \in Sales, ConfirmSale(s) \/ TicketSale(s) \/ PrepareSale(s) \/ MarkPaid(s)
    PROVE  StoreInv'
<1> DEFINE o == sales[s]
<1>1. o \in Order
  BY ElementOfSeq DEF StoreInv, RowsTyped, Sales
<1>2. CASE ConfirmSale(s)
  <2> DEFINE new == [o EXCEPT !.state = "sale"]
  <2>1. Furthers(o, new) /\ new.awards = o.awards
    BY <1>1 DEF Furthers, Order, Kept
  <2>2. SetSale(s, new) /\ points' = points
    BY <1>2 DEF ConfirmSale
  <2> HIDE DEF new
  <2> QED
    BY <1>1, <2>1, <2>2, SaleKeeps DEF Order
<1>3. CASE TicketSale(s)
  <2> DEFINE new == Ticketed(o)
  <2>1. new \in Order /\ new = [o EXCEPT !.tickets = 1]
    BY <1>1, TicketedOrder
  <2>2. SetSale(s, new) /\ points' = points
    BY <1>3 DEF TicketSale
  <2> HIDE DEF new
  <2>3. Furthers(o, new) /\ new.awards = o.awards
    BY <1>1, <2>1 DEF Furthers, Order, Kept
  <2> QED
    BY <1>1, <2>2, <2>3, SaleKeeps DEF Order
<1>4. CASE PrepareSale(s)
  <2> DEFINE new == Prepared(o)
  <2>1. /\ new \in Order /\ new = [o EXCEPT !.delivery = new.delivery]
        /\ o.method = "delivery" => new.delivery # "not_required"
    BY <1>1, PreparedOrder
  <2>2. SetSale(s, new) /\ points' = points
    BY <1>4 DEF PrepareSale
  <2> HIDE DEF new
  <2>3. Furthers(o, new) /\ new.awards = o.awards
    BY <1>1, <2>1 DEF Furthers, Order, Kept
  <2> QED
    BY <1>1, <2>2, <2>3, SaleKeeps DEF Order
<1>5. CASE MarkPaid(s)
  <2> DEFINE new == [o EXCEPT !.awards = 1]
  <2>1. Furthers(o, new) /\ new.awards = 1 /\ o.awards \in {0, 1}
    BY <1>1 DEF Furthers, Order, Kept
  <2>2. SetSale(s, new) /\ points' = IF o.awards = 0 THEN points + 1 ELSE points
    BY <1>5 DEF MarkPaid, Awards
  <2> HIDE DEF new
  <2> QED
    BY <2>1, <2>2, SaleKeeps
<1> QED
  BY <1>2, <1>3, <1>4, <1>5

LEMMA RequestReturnKeeps == ASSUME StoreInv, NEW s \in Sales, RequestReturn(s) PROVE StoreInv'
<1> DEFINE first == IF shop.approves THEN "pending_approval" ELSE "approved"
           row   == [sale |-> s, state |-> first, seen |-> {first}, approved |-> ~shop.approves]
           n     == Len(returns) + 1
<1>1. returns' = Append(returns, row) /\ UNCHANGED <<shop, cart, page, sales, points>>
  BY DEF RequestReturn
<1>2. first \in ReturnStates /\ s \in Nat /\ shop.approves \in BOOLEAN /\ first # "processed"
  BY DEF ReturnStates, StoreInv, RowsTyped, Sales, Shops
<1>3. returns \in Seq(Return) /\ Len(returns) \in Nat /\ row \in Return
  BY <1>2 DEF StoreInv, RowsTyped, Return
<1>4. row.sale = s /\ row.state # "processed" /\ ("approved" \in row.seen => row.approved)
  BY <1>2
<1> HIDE DEF row, first
<1>5. returns' \in Seq(Return) /\ DOMAIN returns = 1 .. Len(returns) /\ DOMAIN returns' = 1 .. n /\ returns'[n] = row
  BY <1>1, <1>3, AppendProperties
<1>6. DOMAIN returns' = DOMAIN returns \cup {n} /\ \A r \in DOMAIN returns : returns'[r] = returns[r]
  BY <1>1, <1>3, <1>5, AppendProperties
<1> HIDE DEF n
<1>7. RowsTyped'
  BY <1>1, <1>4, <1>5, <1>6 DEF StoreInv, RowsTyped, Sales, Presses
<1>8. ReturnsApproved'
  BY <1>4, <1>5, <1>6 DEF StoreInv, ReturnsApproved
<1> QED
  BY <1>1, <1>7, <1>8 DEF StoreInv, OneOrderEach, AnswersKept, Kept, Awarded, Sales, Presses

LEMMA ReturnButtonKeeps ==
    ASSUME StoreInv, NEW r, ApproveReturn(r) \/ ProcessReturn(r) \/ RejectReturn(r) \/ CancelReturn(r)
    PROVE  StoreInv'
<1>1. CASE ApproveReturn(r)
  BY <1>1, ReturnKeeps DEF ApproveReturn, ReturnStates
<1>2. CASE ProcessReturn(r)
  BY <1>2, ReturnKeeps DEF ProcessReturn, ReturnStates
<1>3. CASE RejectReturn(r)
  BY <1>3, ReturnKeeps DEF RejectReturn, ReturnStates
<1>4. CASE CancelReturn(r)
  BY <1>4, ReturnKeeps DEF CancelReturn, ReturnStates
<1> QED
  BY <1>1, <1>2, <1>3, <1>4

LEMMA StoreNextKeeps == StoreInv /\ [StoreNext]_storeVars => StoreInv'
<1> SUFFICES ASSUME StoreInv, [StoreNext]_storeVars PROVE StoreInv'
  OBVIOUS
<1>1. ASSUME NEW i \in Items, AddItem(i) PROVE StoreInv'
  BY <1>1, AddItemKeeps
<1>2. ASSUME NEW method \in Methods, Press(method) PROVE StoreInv'
  BY <1>2, PressKeeps
<1>3. ASSUME NEW p \in Presses, Checkout(p) PROVE StoreInv'
  BY <1>3, CheckoutKeeps
<1>4. ASSUME NEW p \in Presses, CheckoutFails(p) PROVE StoreInv'
  BY <1>4, CheckoutFailsKeeps
<1>5. ASSUME NEW p \in Presses, Refuse(p) \/ ShowAnswer(p) \/ LoseAnswer(p) PROVE StoreInv'
  BY <1>5, AnswerStepKeeps
<1>6. ASSUME NEW s \in Sales, ConfirmSale(s) \/ TicketSale(s) \/ PrepareSale(s) \/ MarkPaid(s) PROVE StoreInv'
  BY <1>6, SaleStepKeeps
<1>7. ASSUME NEW s \in Sales, RequestReturn(s) PROVE StoreInv'
  BY <1>7, RequestReturnKeeps
<1>8. ASSUME NEW r \in 1 .. MaxReturns, ApproveReturn(r) \/ ProcessReturn(r) \/ RejectReturn(r) \/ CancelReturn(r)
      PROVE  StoreInv'
  BY <1>8, ReturnButtonKeeps
<1>9. CASE UNCHANGED storeVars
  BY <1>9 DEF storeVars, StoreInv, RowsTyped, OneOrderEach, AnswersKept, Kept, ReturnsApproved, Awarded, Sales, Presses
<1> QED
  BY <1>1, <1>2, <1>3, <1>4, <1>5, <1>6, <1>7, <1>8, <1>9 DEF StoreNext

LEMMA StoreInvariant == StoreSpec => []StoreInv
<1> QED
  BY StoreStarts, StoreNextKeeps, PTL DEF StoreSpec

-----------------------------------------------------------------------------
(* Orders are of a press, and returns of an order (StoreTypeOK). *)
THEOREM StoreTyped == StoreSpec => []StoreTypeOK
<1> QED
  BY StoreInvariant, StoreInvTypes, PTL

(* Whoever is told that the order is there has exactly one, as the channel *)
(* promises it, whatever staff and other requests did (AnsweredComplete).  *)
THEOREM AnswersComplete == StoreSpec => []AnsweredComplete
<1> QED
  BY StoreInvariant, StoreInvAnswers, PTL

(* Tickets and points are given once, and only an approved return is       *)
(* processed (HandledOnce).                                                *)
THEOREM OrdersHandledOnce == StoreSpec => []HandledOnce
<1> QED
  BY StoreInvariant, StoreInvHandled, PTL

-----------------------------------------------------------------------------
(* What customers and tenants owe and get, as it runs: each behaviour is of the *)
(* subscription, the notifications, a settlement or the storefront, and leaves  *)
(* the others as they were.  Fields, dates, rows, states, approvals and orders  *)
(* stay in their domains in all of them (BusinessTypeOK).                      *)
THEOREM BusinessTypeCorrect == MCSpec => []BusinessTypeOK
<1>1. MCInit => Init /\ WebhookInit /\ SettlementInit /\ StoreInit
  BY Zenon DEF MCInit
<1>2. [MCNext]_<<vars, webhookVars, settlementVars, storeVars, focus>>
         => [Next]_vars /\ [WebhookNext]_webhookVars /\ [SettlementNext]_settlementVars /\ [StoreNext]_storeVars
  BY Zenon DEF MCNext
<1>3. MCSpec => Spec /\ WebhookSpec /\ SettlementSpec /\ StoreSpec
  BY <1>1, <1>2, PTL DEF MCSpec, Spec, WebhookSpec, SettlementSpec, StoreSpec
<1>4. SubscriptionTypeOK /\ WebhookTypeOK /\ SettlementTypeOK /\ StoreTypeOK => BusinessTypeOK
  BY DEF BusinessTypeOK
<1> QED
  BY <1>3, <1>4, SubTypeCorrect, WebhookTyped, SettlementTypeCorrect, StoreTyped, PTL
===============================================================================
