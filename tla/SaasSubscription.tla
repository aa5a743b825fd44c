-------------------------- MODULE SaasSubscription --------------------------
(***************************************************************************)
(* One SaaS subscription: invoices, dunning, and the payments that reach   *)
(* it from accounting, from the provider's notifications and from dispute  *)
(* cases.  Dates are days.  Nothing runs by itself: every step but the     *)
(* passing of days and the payments is a button of the form, and each      *)
(* request writes the subscription's row, so requests take turns.          *)
(* Not modelled: the form's edits of dates, level and status by hand.      *)
(***************************************************************************)
EXTENDS Naturals

CONSTANTS MaxDay,    \* a bound: the last day
          Cycle,     \* days from an invoice to the next, by billing_cycle
          GraceDays, \* tijara.saas.dunning_grace_days
          None       \* an empty date

ASSUME SubscriptionAssumption ==
    /\ MaxDay \in Nat /\ Cycle \in Nat \ {0} /\ GraceDays \in Nat
    /\ None \notin Nat

VARIABLES today,
          state, pay, level, grace, next,   \* state, payment_status, dunning_level,
                                            \* grace_until, next_invoice_date
          invoice,   \* last_invoice_id's payment: "none", "open" or "paid"
          money      \* history: "kept" if money came since the last invoice and was kept

dunning == <<level, grace>>
vars    == <<today, state, pay, dunning, next, invoice, money>>

MaxLevel == 3        \* a bound: levels above three are told apart by nothing
LastDay  == MaxDay + Cycle + GraceDays

States   == {"draft", "trial", "active", "past_due", "suspended", "cancelled"}
Payments == {"not_invoiced", "invoiced", "paid", "past_due", "failed"}

-----------------------------------------------------------------------------
Overdue == next # None /\ next < today
PastDueIfActive == IF state = "active" THEN "past_due" ELSE state

GenerateInvoice ==
    /\ state \notin {"cancelled", "suspended"}
    /\ next' = today + Cycle
    /\ pay' = "invoiced"
    /\ state' = IF state \in {"draft", "trial"} THEN "active" ELSE state
    /\ invoice' = "open" /\ money' = "owed"
    /\ UNCHANGED <<today, dunning>>

(* A sync that goes by the date alone (a fault). *)
PayByDate == IF Overdue THEN "past_due" ELSE IF invoice = "none" THEN pay ELSE "invoiced"

(* The payment status action_sync_billing_status gives. *)
SyncedPay ==
    IF invoice = "paid" THEN "paid"
    ELSE IF Overdue THEN "past_due"
    ELSE IF invoice = "open" THEN "invoiced" ELSE pay

SyncBilling ==
    /\ pay' = SyncedPay
    /\ state' = IF SyncedPay = "past_due" THEN PastDueIfActive ELSE state
    /\ UNCHANGED <<today, dunning, next, invoice, money>>

(* max(dunning_level, 1), and a date counted from the overdue one. *)
FirstNotice ==
    /\ level' = IF level > 1 THEN level ELSE 1
    /\ grace' = (IF next = None THEN today ELSE next) + GraceDays

(* max(dunning_level + 1, least), up to the bound. *)
RaiseLevel(least) ==
    /\ level' = IF level + 1 > MaxLevel THEN MaxLevel ELSE IF level + 1 > least THEN level + 1 ELSE least
    /\ grace' = grace

GraceOver == grace # None /\ grace < today

RunDunning ==
    /\ state \notin {"draft", "trial", "cancelled"}
    /\ pay' = SyncedPay
    /\ \/ /\ SyncedPay # "past_due"
          /\ UNCHANGED <<state, dunning>>
       \/ /\ SyncedPay = "past_due" /\ grace = None
          /\ state' = "past_due" /\ FirstNotice
       \/ /\ SyncedPay = "past_due" /\ GraceOver
          /\ state' = "suspended" /\ RaiseLevel(3)
       \/ /\ SyncedPay = "past_due" /\ grace # None /\ ~GraceOver
          /\ state' = "past_due" /\ RaiseLevel(2)
    /\ UNCHANGED <<today, next, invoice, money>>

(* A payment that forgets the dunning level (a fault). *)
EndGrace == level' = level /\ grace' = None

EndDunning == level' = 0 /\ grace' = None

(* A payment recorded on the subscription itself. *)
Pay == /\ pay' = "paid" /\ state' = "active" /\ EndDunning
       /\ money' = "kept"
       /\ UNCHANGED <<today, next, invoice>>

MarkPaidExternal == invoice # "none" /\ pay # "paid" /\ Pay

(* The provider says that a payment was made, or that it failed. *)
WebhookPaid == Pay

(* The event's status taken for the subscription's state as well (a fault). *)
StateFollowsPayment(status) ==
    /\ pay' = status /\ state' = IF state = "active" THEN status ELSE state
    /\ UNCHANGED <<today, dunning, next, invoice, money>>

WebhookFailed(status) ==
    /\ pay' = status /\ state' = PastDueIfActive
    /\ UNCHANGED <<today, dunning, next, invoice, money>>

(* Money comes back: a refund or chargeback, or a case that is lost.  A case *)
(* that is won says it stays.  Neither touches the dunning.                  *)
MoneyBack == /\ pay' = "failed" /\ state' = "past_due" /\ money' = "owed"
             /\ UNCHANGED <<today, dunning, next, invoice>>
CaseWon   == /\ pay' = "paid" /\ state' = "active" /\ money' = "kept"
             /\ UNCHANGED <<today, dunning, next, invoice>>

StartTrial == state = "draft" /\ state' = "trial"
Activate   == state \notin {"active", "cancelled"} /\ state' = "active"
Suspend    == state \in {"active", "past_due"} /\ state' = "suspended"
Cancel     == state # "cancelled" /\ state' = "cancelled"
Button     == /\ StartTrial \/ Activate \/ Suspend \/ Cancel
              /\ UNCHANGED <<today, pay, dunning, next, invoice, money>>

(* Accounting registers a payment of the invoice. *)
PayInvoice == /\ invoice = "open" /\ invoice' = "paid" /\ money' = "kept"
              /\ UNCHANGED <<today, state, pay, dunning, next>>

NewDay == /\ today < MaxDay /\ today' = today + 1
          /\ UNCHANGED <<state, pay, dunning, next, invoice, money>>

Init == /\ today = 0
        /\ state = "draft" /\ pay = "not_invoiced" /\ level = 0 /\ grace = None
        /\ next \in {None, 0}
        /\ invoice = "none" /\ money = "owed"

Next == \/ GenerateInvoice \/ SyncBilling \/ RunDunning \/ MarkPaidExternal \/ Button
        \/ WebhookPaid \/ (\E p \in {"failed", "past_due"} : WebhookFailed(p))
        \/ MoneyBack \/ CaseWon \/ PayInvoice \/ NewDay

Spec == Init /\ [][Next]_vars

-----------------------------------------------------------------------------
(* Properties *)

(* The fields stay in their domains; a date is never beyond the last day's  *)
(* next invoice and its grace.                                              *)
SubscriptionTypeOK ==
    /\ today \in 0 .. MaxDay
    /\ state \in States /\ pay \in Payments
    /\ level \in 0 .. MaxLevel
    /\ grace \in {None} \cup 0 .. LastDay
    /\ next \in {None} \cup 0 .. MaxDay + Cycle
    /\ invoice \in {"none", "open", "paid"} /\ money \in {"owed", "kept"}

(* Whatever the order of notices, payments and cases, a subscription has a  *)
(* grace date exactly when it has been dunned since it was last paid: the   *)
(* two are set and cleared at different places of the code.                 *)
GraceMeansDunned == (grace # None) <=> (level >= 1)

(* Dunning leaves a subscription alone once its invoice is paid in          *)
(* accounting, whatever the providers and the cases said before.            *)
DunningSparesPaid == [][RunDunning /\ invoice = "paid" => UNCHANGED <<state, dunning>>]_vars
=============================================================================
