-------------------------------- MODULE Kiosk --------------------------------
(***************************************************************************)
(* One order of a self-service kiosk, its queue ticket and the POS order    *)
(* made for it, while several members of staff work from forms that they    *)
(* opened earlier.                                                          *)
(*                                                                         *)
(* The unit of step is a transaction: every one writes the kiosk order's    *)
(* row, so the database runs two of them one after the other.  A form shows *)
(* the buttons for the state it was loaded with.  Prices are left out; the  *)
(* session, the register and a customer who collects points are taken to    *)
(* exist.                                                                   *)
(***************************************************************************)
EXTENDS Naturals

CONSTANT Staff

VARIABLES profile,  \* the kiosk's configuration, see Profiles
          kiosk,    \* [state, payment, synced, failed]: the order, see KioskRow
          ticket,   \* the state of its queue ticket, "none" without one
          made,     \* [tickets, posOrders, payments, awards]: rows that exist for the order
          form,     \* form[w]: what w's form shows of it, [state, synced]
          seen      \* states the ticket has had, each of which an open form may show

kioskVars == <<profile, kiosk, ticket, made, form, seen>>

KioskStates  == {"draft", "submitted", "preparing", "ready", "completed", "cancelled"}
TicketStates == {"waiting", "preparing", "ready", "called", "completed", "cancelled"}
CaptureModes == {"pay_at_counter", "record_paid", "terminal_reference", "provider_webhook"}
Payments     == {"pay_at_counter", "authorized", "paid"}

Profiles == [autoPos : BOOLEAN, autoTicket : BOOLEAN, capture : CaptureModes,
             blocked : BOOLEAN]  \* a delivery shown on a customer display, see Link

KioskRow == [state : KioskStates, payment : Payments,
             synced : BOOLEAN,   \* pos_order_id is set
             failed : BOOLEAN]   \* pos_sync_error is set

Form == [state : KioskStates, synced : BOOLEAN]

Shown(row)      == [state |-> row.state, synced |-> row.synced]
Loaded(w, row)  == [form EXCEPT ![w] = Shown(row)]

Exists(t) == t # "none"
Opened(t) == IF Exists(t) THEN seen \cup {t} ELSE seen

-----------------------------------------------------------------------------
(* _kiosk_should_record_payment; a terminal payment always has a reference. *)
RecordsPayment ==
    \/ profile.capture = "record_paid"
    \/ profile.capture = "provider_webhook" /\ kiosk.payment = "paid"
    \/ profile.capture = "terminal_reference" /\ kiosk.payment \in {"authorized", "paid"}

(* A sync that makes a POS order whether there is one or not (a fault). *)
AlwaysLink(row) == ~profile.blocked

(* _create_linked_pos_order makes an order only when there is none.  The       *)
(* display that a new POS order is published on has no order type "delivery",  *)
(* so a delivery of a register with a display is refused.                      *)
Link(row) == ~row.synced /\ ~profile.blocked

(* The error of an earlier failure stays on the order. *)
Linked(row) == [row EXCEPT !.synced = TRUE, !.payment = IF RecordsPayment THEN "paid" ELSE @]

WithPosOrder(n) == [n EXCEPT !.posOrders = @ + 1, !.payments = IF RecordsPayment THEN @ + 1 ELSE @]

WithTicket(n) == [n EXCEPT !.tickets = IF profile.autoTicket THEN @ + 1 ELSE @, !.awards = @ + 1]

(* Submitting again what is submitted (a fault). *)
AnyState(row) == TRUE

IsDraft(row) == row.state = "draft"

Flagged(row) == [row EXCEPT !.failed = TRUE]

(* The savepoint takes back what a failing sync has made; the rest stays. *)
Submit(w) ==
    LET row == [kiosk EXCEPT !.state = "submitted"]
    IN  /\ form[w].state = "draft"
        /\ IF ~IsDraft(kiosk) THEN kiosk' = kiosk /\ UNCHANGED <<ticket, made>>
           ELSE /\ ticket' = IF profile.autoTicket THEN "waiting" ELSE ticket
                /\ \/ /\ ~profile.autoPos
                      /\ kiosk' = row /\ made' = WithTicket(made)
                   \/ /\ profile.autoPos /\ Link(row)
                      /\ kiosk' = Linked(row) /\ made' = WithPosOrder(WithTicket(made))
                   \/ /\ profile.autoPos
                      /\ kiosk' = Flagged(row) /\ made' = WithTicket(made)
        /\ form' = Loaded(w, kiosk') /\ seen' = Opened(ticket')
        /\ UNCHANGED profile

(* Sync POS.  A sync that fails changes nothing and shows its error. *)
SyncPos(w) ==
    /\ form[w].state # "draft" /\ ~form[w].synced
    /\ IF Link(kiosk) THEN kiosk' = Linked(kiosk) /\ made' = WithPosOrder(made)
                      ELSE UNCHANGED <<kiosk, made>>
    /\ form' = Loaded(w, kiosk')
    /\ UNCHANGED <<profile, ticket, seen>>

Reload(w) ==
    /\ form' = Loaded(w, kiosk)
    /\ UNCHANGED <<profile, kiosk, ticket, made, seen>>

(* A step of the order takes its ticket along, whatever state that is in. *)
Advance(w, from, to) ==
    /\ form[w].state \in from
    /\ kiosk' = [kiosk EXCEPT !.state = to]
    /\ ticket' = IF Exists(ticket) THEN to ELSE ticket
    /\ form' = Loaded(w, kiosk') /\ seen' = Opened(ticket')
    /\ UNCHANGED <<profile, made>>

PrepareOrder(w)  == Advance(w, {"submitted", "ready"}, "preparing")
ReadyOrder(w)    == Advance(w, {"submitted", "preparing"}, "ready")
CompleteOrder(w) == Advance(w, {"submitted", "preparing", "ready"}, "completed")
CancelOrder(w)   == Advance(w, KioskStates \ {"completed", "cancelled"}, "cancelled")

(* The ticket's own buttons. *)
TicketStep(from, to) ==
    /\ from \cap seen # {}
    /\ ticket' = to /\ seen' = Opened(to)
    /\ UNCHANGED <<profile, kiosk, made, form>>

PrepareTicket  == TicketStep({"waiting"}, "preparing")
ReadyTicket    == TicketStep({"preparing"}, "ready")
CallTicket     == TicketStep({"ready"}, "called")
CompleteTicket == TicketStep({"ready", "called"}, "completed")
CancelTicket   == TicketStep(TicketStates \ {"completed", "cancelled"}, "cancelled")

-----------------------------------------------------------------------------
KioskInit ==
    /\ profile \in Profiles
    /\ kiosk \in [state : {"draft"}, payment : Payments, synced : {FALSE}, failed : {FALSE}]
    /\ ticket = "none"
    /\ made = [tickets |-> 0, posOrders |-> 0, payments |-> 0, awards |-> 0]
    /\ form = [w \in Staff |-> Shown(kiosk)]
    /\ seen = {}

KioskNext ==
    \/ \E w \in Staff : \/ Submit(w) \/ SyncPos(w) \/ Reload(w)
                        \/ PrepareOrder(w) \/ ReadyOrder(w) \/ CompleteOrder(w) \/ CancelOrder(w)
    \/ PrepareTicket \/ ReadyTicket \/ CallTicket \/ CompleteTicket \/ CancelTicket

KioskSpec == KioskInit /\ [][KioskNext]_kioskVars

-----------------------------------------------------------------------------
KioskTypeOK ==
    /\ profile \in Profiles /\ kiosk \in KioskRow
    /\ ticket \in TicketStates \cup {"none"}
    /\ made \in [tickets : Nat, posOrders : Nat, payments : Nat, awards : Nat]
    /\ form \in [Staff -> Form]
    /\ seen \subseteq TicketStates /\ (Exists(ticket) => ticket \in seen)

(* However often Submit is pressed, from whatever forms, the customer is     *)
(* awarded points once and given one ticket.                                  *)
AwardedOnce == made.awards <= 1 /\ made.tickets <= 1 /\ (kiosk.state \notin {"draft", "cancelled"} => made.awards = 1)

(* A kiosk order has the POS order it is linked to and no other, with at most *)
(* one payment, although its checkout may fail to make one, the sync is a     *)
(* button, and two members of staff press it.  Where POS orders are made at   *)
(* once, an order without one says that it failed: staff can see what a later *)
(* sync must make up.                                                         *)
PosOrderLinked ==
    /\ made.posOrders = (IF kiosk.synced THEN 1 ELSE 0) /\ made.payments <= made.posOrders
    /\ profile.autoPos /\ kiosk.state \notin {"draft", "cancelled"} => kiosk.synced \/ kiosk.failed
==============================================================================
