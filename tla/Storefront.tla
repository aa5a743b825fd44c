------------------------------ MODULE Storefront ------------------------------
(***************************************************************************)
(* The checkout page of an ecommerce channel and the orders it makes: a     *)
(* visitor who fills a cart and presses the button, again if nothing seems  *)
(* to happen; a server that turns each request into an order or an error;   *)
(* staff who confirm, queue, dispatch and mark orders paid; and customers   *)
(* who ask for returns.                                                    *)
(*                                                                         *)
(* The unit of step is a transaction.  The route of the checkout catches    *)
(* the errors of a request and answers them, so what was written before one *)
(* is committed.  Staff may work from forms of any age, so a button that a  *)
(* new order shows can be pressed at any time.  Prices, taxes, promotions,  *)
(* addresses and the partner's own fields are left out; an order is worth   *)
(* one loyalty point.                                                      *)
(***************************************************************************)
EXTENDS Naturals, Sequences, FiniteSets

CONSTANTS Items,
          MaxPresses,  \* a bound: times the visitor presses Checkout
          MaxReturns   \* a bound: returns asked for

VARIABLES shop,     \* the channel's configuration, see Shops
          cart,     \* what is in the visitor's cart
          page,     \* page[p]: the p-th press, [items, method, answer]
          sales,    \* the orders, see Placed
          points,   \* the customer's loyalty points
          returns   \* the return requests: [sale, state, seen, approved]

storeVars == <<shop, cart, page, sales, points, returns>>

Shops == [confirms : BOOLEAN,     \* auto_confirm_sale_order
          queues   : BOOLEAN,     \* auto_queue_pickup_delivery
          courier  : {"none", "ready", "unready"},  \* "unready": live, without an endpoint
          approves : BOOLEAN]     \* requires_manager_approval of the reason for returns

Methods      == {"delivery", "pickup"}
ReturnStates == {"draft", "pending_approval", "approved", "processed", "rejected", "cancelled"}

Presses == DOMAIN page
Sales   == DOMAIN sales
OfPress(p) == {s \in Sales : sales[s].press = p}

-----------------------------------------------------------------------------
(* tijara_create_order, part by part. *)
Placed(p) == [press |-> p, items |-> page[p].items, method |-> page[p].method, state |-> "draft",
              token |-> TRUE, tickets |-> 0, delivery |-> "not_required", awards |-> 0]

Confirmed(o) == IF shop.confirms THEN [o EXCEPT !.state = "sale"] ELSE o

Ticketed(o) == IF o.tickets = 0 THEN [o EXCEPT !.tickets = 1] ELSE o

AutoTicketed(o) == IF shop.queues THEN Ticketed(o) ELSE o

Preparable(o) == o.method = "delivery" => shop.courier # "unready"

Prepared(o) == [o EXCEPT !.delivery = IF o.method # "delivery" THEN "not_required"
                                      ELSE IF shop.courier = "none" THEN "pending" ELSE "assigned"]

(* Errors are answered like orders (a fault). *)
AlwaysOk(complete) == "ok"

Answer(complete) == IF complete THEN "ok" ELSE "error"

-----------------------------------------------------------------------------
AddItem(i) ==
    /\ cart' = cart \cup {i} /\ cart' # cart
    /\ UNCHANGED <<shop, page, sales, points, returns>>

Press(method) ==
    /\ cart # {} /\ Len(page) < MaxPresses
    /\ page' = Append(page, [items |-> cart, method |-> method, answer |-> "waiting"])
    /\ UNCHANGED <<shop, cart, sales, points, returns>>

Reply(p, complete) == page' = [page EXCEPT ![p].answer = Answer(complete)]

(* Customer, lines, audience or method are refused before an order is made. *)
Refuse(p) ==
    /\ page[p].answer = "waiting"
    /\ Reply(p, FALSE)
    /\ UNCHANGED <<shop, cart, sales, points, returns>>

(* Confirmation fails, or the courier's settings do: the order stays. *)
CheckoutFails(p) ==
    /\ page[p].answer = "waiting"
    /\ \/ shop.confirms /\ sales' = Append(sales, Placed(p))
       \/ ~Preparable(Placed(p)) /\ sales' = Append(sales, AutoTicketed(Confirmed(Placed(p))))
    /\ Reply(p, FALSE)
    /\ UNCHANGED <<shop, cart, points, returns>>

Checkout(p) ==
    /\ page[p].answer = "waiting" /\ Preparable(Placed(p))
    /\ sales' = Append(sales, Prepared(AutoTicketed(Confirmed(Placed(p)))))
    /\ Reply(p, TRUE)
    /\ UNCHANGED <<shop, cart, points, returns>>

(* submitCheckout, when the answer comes: "ok" empties the cart of the moment. *)
ShowAnswer(p) ==
    /\ page[p].answer \in {"ok", "error"}
    /\ cart' = IF page[p].answer = "ok" THEN {} ELSE cart
    /\ page' = [page EXCEPT ![p].answer = IF @ = "ok" THEN "shown" ELSE "told"]
    /\ UNCHANGED <<shop, sales, points, returns>>

(* The request does not arrive, or its answer is lost on the way. *)
LoseAnswer(p) ==
    /\ page[p].answer \in {"waiting", "ok", "error"}
    /\ page' = [page EXCEPT ![p].answer = "lost"]
    /\ UNCHANGED <<shop, cart, sales, points, returns>>

-----------------------------------------------------------------------------
SetSale(s, o) == sales' = [sales EXCEPT ![s] = o] /\ UNCHANGED <<shop, cart, page, returns>>

ConfirmSale(s)   == sales[s].state = "draft" /\ SetSale(s, [sales[s] EXCEPT !.state = "sale"]) /\ UNCHANGED points
TicketSale(s)    == SetSale(s, Ticketed(sales[s])) /\ UNCHANGED points
PrepareSale(s)   == sales[s].method = "delivery" /\ Preparable(sales[s]) /\ SetSale(s, Prepared(sales[s])) /\ UNCHANGED points

(* Points each time the button is pressed (a fault). *)
AlwaysAwards(s) == TRUE

Awards(s) == sales[s].awards = 0

(* Points are awarded once: tijara_loyalty_points_awarded tells.  Whether an order *)
(* is paid is not kept apart from that.                                           *)
MarkPaid(s) ==
    /\ SetSale(s, [sales[s] EXCEPT !.awards = 1])
    /\ points' = IF Awards(s) THEN points + 1 ELSE points

-----------------------------------------------------------------------------
(* tijara_create_customer_return_request: for any order, as often as one likes. *)
RequestReturn(s) ==
    /\ Len(returns) < MaxReturns
    /\ LET state == IF shop.approves THEN "pending_approval" ELSE "approved"
       IN  returns' = Append(returns, [sale |-> s, state |-> state, seen |-> {state}, approved |-> ~shop.approves])
    /\ UNCHANGED <<shop, cart, page, sales, points>>

Moved(q, to) == [q EXCEPT !.state = to, !.seen = @ \cup {to}, !.approved = @ \/ to = "approved"]

(* A button of a request that some open form still shows. *)
ReturnStep(r, from, to) ==
    /\ r \in DOMAIN returns /\ returns[r].seen \cap from # {}
    /\ returns' = [returns EXCEPT ![r] = Moved(returns[r], to)]
    /\ UNCHANGED <<shop, cart, page, sales, points>>

ApproveReturn(r) == ReturnStep(r, {"pending_approval"}, "approved")
ProcessReturn(r) == ReturnStep(r, {"approved"}, "processed")
RejectReturn(r)  == ReturnStep(r, {"draft", "pending_approval"}, "rejected")
CancelReturn(r)  == ReturnStep(r, ReturnStates \ {"processed", "rejected", "cancelled"}, "cancelled")

-----------------------------------------------------------------------------
StoreInit ==
    /\ shop \in Shops
    /\ cart = {} /\ page = <<>> /\ sales = <<>> /\ points = 0 /\ returns = <<>>

StoreNext ==
    \/ \E i \in Items : AddItem(i)
    \/ \E method \in Methods : Press(method)
    \/ \E p \in Presses : Refuse(p) \/ CheckoutFails(p) \/ Checkout(p) \/ ShowAnswer(p) \/ LoseAnswer(p)
    \/ \E s \in Sales : ConfirmSale(s) \/ TicketSale(s) \/ PrepareSale(s) \/ MarkPaid(s) \/ RequestReturn(s)
    \/ \E r \in 1 .. MaxReturns : ApproveReturn(r) \/ ProcessReturn(r) \/ RejectReturn(r) \/ CancelReturn(r)

StoreSpec == StoreInit /\ [][StoreNext]_storeVars

-----------------------------------------------------------------------------
StoreTypeOK ==
    /\ shop \in Shops /\ cart \subseteq Items
    /\ page \in Seq([items : SUBSET Items, method : Methods,
                     answer : {"waiting", "ok", "error", "shown", "told", "lost"}])
    /\ \A s \in Sales : sales[s].press \in Presses /\ sales[s].state \in {"draft", "sale"}
    /\ points \in Nat
    /\ \A r \in DOMAIN returns : returns[r].state \in ReturnStates /\ returns[r].sale \in Sales

(* A customer who is told that the order is there has exactly one, with what  *)
(* was in the cart when it was pressed: confirmed, in the queue and handed to *)
(* a courier as the channel promises.  Whatever went wrong in other requests, *)
(* and whatever staff did since, and a request makes at most one order.       *)
AnsweredComplete ==
    /\ \A p \in Presses : Cardinality(OfPress(p)) <= 1
    /\ \A p \in Presses : page[p].answer \in {"ok", "shown"} =>
          \E s \in OfPress(p) : /\ sales[s].items = page[p].items /\ sales[s].token
                                /\ (shop.confirms => sales[s].state = "sale")
                                /\ (shop.queues => sales[s].tickets = 1)
                                /\ (sales[s].method = "delivery" => sales[s].delivery # "not_required")

(* An order, also one that a failed checkout left, is given one queue ticket  *)
(* and its points once: the customer's points are those of the orders marked  *)
(* paid.  A return is processed only if a manager once approved it.           *)
HandledOnce ==
    /\ \A s \in Sales : sales[s].tickets <= 1
    /\ points = Cardinality({s \in Sales : sales[s].awards > 0})
    /\ \A r \in DOMAIN returns : returns[r].state = "processed" => returns[r].approved
===============================================================================
