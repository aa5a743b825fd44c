---------------------------- MODULE BillingProofs ----------------------------
(***************************************************************************)
(* Proofs about SaasSubscription, for every number of days, billing cycle  *)
(* and grace period, and about PaymentWebhook, for every set of            *)
(* notifications, event and case rows and server threads.                  *)
(*                                                                         *)
(* A subscription: its types and that it has a grace date exactly when it  *)
(* has been dunned are inductive together.                                 *)
(*                                                                         *)
(* A request computes its effect from a snapshot and commits it only if no *)
(* row it writes was committed by another since.  So what must be inductive *)
(* says, for each running request, which rows its view can be wrong about: *)
(* those in "stale", and no others.  Three facts carry the properties: a   *)
(* case the view does not know is of an event row that is stale, since the *)
(* request that opened it wrote the event; an event applied on delivery    *)
(* that the view does not know has made the subscription's row stale; and  *)
(* a view never knows a row the tables do not have.                        *)
(***************************************************************************)
EXTENDS SaasSubscription, PaymentWebhook, FiniteSetTheorems, TLAPS

SubInv == SubscriptionTypeOK /\ GraceMeansDunned

(* Dunning keeps the invariant in each of its four outcomes. *)
LEMMA DunningKeeps ==
    ASSUME SubInv, RunDunning
    PROVE  SubInv'
<1> USE SubscriptionAssumption
        DEF SubInv, SubscriptionTypeOK, GraceMeansDunned, MaxLevel, LastDay, States, Payments, dunning
<1>1. pay' \in Payments
  BY DEF RunDunning, SyncedPay
<1>2. today' = today /\ next' = next /\ invoice' = invoice /\ money' = money
  BY DEF RunDunning
<1>3. CASE UNCHANGED <<state, dunning>>
  BY <1>1, <1>2, <1>3
<1>4. CASE grace = None /\ state' = "past_due" /\ FirstNotice
  BY <1>1, <1>2, <1>4 DEF FirstNotice
<1>5. CASE grace # None /\ state' = "suspended" /\ RaiseLevel(3)
  BY <1>1, <1>2, <1>5 DEF RaiseLevel
<1>6. CASE grace # None /\ state' = "past_due" /\ RaiseLevel(2)
  BY <1>1, <1>2, <1>6 DEF RaiseLevel
<1> QED
  BY <1>3, <1>4, <1>5, <1>6 DEF RunDunning, GraceOver

THEOREM SubInductive == Spec => []SubInv
<1> USE SubscriptionAssumption
<1>1. Init => SubInv
  BY DEF Init, SubInv, SubscriptionTypeOK, GraceMeansDunned, MaxLevel, LastDay, States, Payments
<1>2. SubInv /\ [Next]_vars => SubInv'
  <2> SUFFICES ASSUME SubInv, [Next]_vars PROVE SubInv'
    OBVIOUS
  <2> USE DEF SubInv, SubscriptionTypeOK, GraceMeansDunned, MaxLevel, LastDay, States, Payments, dunning
  <2>1. CASE GenerateInvoice
    BY <2>1 DEF GenerateInvoice
  <2>2. CASE SyncBilling
    BY <2>2 DEF SyncBilling, SyncedPay, PastDueIfActive
  <2>3. CASE RunDunning
    BY <2>3, DunningKeeps
  <2>4. CASE MarkPaidExternal \/ WebhookPaid
    BY <2>4 DEF MarkPaidExternal, WebhookPaid, Pay, EndDunning
  <2>5. CASE Button
    BY <2>5 DEF Button, StartTrial, Activate, Suspend, Cancel
  <2>6. CASE \E p \in {"failed", "past_due"} : WebhookFailed(p)
    BY <2>6 DEF WebhookFailed, PastDueIfActive
  <2>7. CASE MoneyBack \/ CaseWon
    BY <2>7 DEF MoneyBack, CaseWon
  <2>8. CASE PayInvoice
    BY <2>8 DEF PayInvoice
  <2>9. CASE NewDay
    BY <2>9 DEF NewDay
  <2>10. CASE UNCHANGED vars
    BY <2>10 DEF vars
  <2> QED
    BY <2>1, <2>2, <2>3, <2>4, <2>5, <2>6, <2>7, <2>8, <2>9, <2>10 DEF Next
<1> QED
  BY <1>1, <1>2, PTL DEF Spec

(* The subscription's fields and dates stay in their domains. *)
THEOREM SubTypeCorrect == Spec => []SubscriptionTypeOK
BY SubInductive, PTL DEF SubInv

(* A grace date is there exactly when dunning has begun and no payment has  *)
(* ended it: dunning, payments and cases agree on it in every order.        *)
THEOREM GraceCorrect == Spec => []GraceMeansDunned
BY SubInductive, PTL DEF SubInv

(* A dunning run leaves a subscription whose invoice is paid as it is.      *)
THEOREM DunningSparesPaidCorrect == Spec => DunningSparesPaid
<1>1. [Next]_vars => [RunDunning /\ invoice = "paid" => UNCHANGED <<state, dunning>>]_vars
  BY DEF RunDunning, SyncedPay
<1> QED
  BY <1>1, PTL DEF Spec, DunningSparesPaid

-----------------------------------------------------------------------------
Rows == {SubRow} \cup Events \cup Cases

(* What the view of a running request can be relied on for. *)
Sees(t) ==
    /\ t \in [job : Job, view : DbType, stale : SUBSET Rows]
    /\ \A e \in Events : e \notin t.stale => t.view.events[e] = events[e]
    /\ \A c \in Cases : c \notin t.stale => t.view.cases[c] = cases[c]
    /\ \A e \in Events : t.view.events[e] # NoEvent => events[e] # NoEvent /\ events[e].msg = t.view.events[e].msg
    /\ \A c \in Cases : t.view.cases[c] # NoCase => cases[c] # NoCase /\ cases[c].event = t.view.cases[c].event
    /\ \A c \in Cases : cases[c] # NoCase => t.view.cases[c] # NoCase \/ cases[c].event \in t.stale
    /\ \A e \in atOnce : Kind[events[e].msg] # "settlement" => t.view.events[e] # NoEvent \/ SubRow \in t.stale

(* The row a button is pressed on exists, and a case is opened for a reversal. *)
Fits(t) ==
    /\ t.job.op \in {"apply", "reconcile", "mismatch", "case"} => t.view.events[t.job.arg] # NoEvent
    /\ t.job.op \in Decisions \cup {"finance"} => t.view.cases[t.job.arg] # NoCase

TablesTyped ==
    /\ sub \in Sub /\ matched \in BOOLEAN
    /\ events \in [Events -> Event \cup {NoEvent}] /\ cases \in [Cases -> Case \cup {NoCase}]
    /\ due \in SUBSET (Cases \X CaseActions)
    /\ acked \subseteq Msgs /\ atOnce \subseteq Events
    /\ \A e \in atOnce : events[e] # NoEvent

CasesOpened ==
    /\ \A c \in Cases : cases[c] # NoCase => events[cases[c].event] # NoEvent
    /\ \A c, d \in Cases : cases[c] # NoCase /\ cases[c].event = cases[d].event => c = d
    /\ \A e \in Events : events[e].status = "applied" /\ Reversal(events[e].msg) => \E c \in Cases : cases[c].event = e

RequestsSee ==
    /\ DOMAIN txn = Workers
    /\ \A w \in Workers : txn[w] # Idle => Sees(txn[w]) /\ Fits(txn[w])

(* The inductive invariant. *)
WebhookInv == TablesTyped /\ CasesOpened /\ RequestsSee /\ AppliedByOneDelivery

-----------------------------------------------------------------------------
(* What a request may do, whatever it is for: born holds the row of the     *)
(* event it records, if it records one.                                     *)
View == [sub : Sub, matched : BOOLEAN, events : [Events -> Event \cup {NoEvent}],
         cases : [Cases -> Case \cup {NoCase}], due : SUBSET (Cases \X CaseActions)]

Opens(v, new, wrote, c) ==
    /\ v.cases[c] = NoCase /\ new.cases[c].event \in Events \cap wrote /\ new.events[new.cases[c].event] # NoEvent
    /\ CaseOf(v, new.cases[c].event) = {}

Does(v, new, wrote, born) ==
    /\ new \in View /\ wrote \in SUBSET Rows
    /\ \A e \in Events : e \notin wrote => new.events[e] = v.events[e]
    /\ \A c \in Cases : c \notin wrote => new.cases[c] = v.cases[c]
    /\ \A e \in Events \cap wrote :
          /\ new.events[e] # NoEvent
          /\ e \notin born => v.events[e] # NoEvent /\ new.events[e].msg = v.events[e].msg
          /\ new.events[e].status = "applied" /\ Reversal(new.events[e].msg) =>
                (e \notin born /\ v.events[e].status = "applied") \/ CaseOf(new, e) # {}
    /\ \A c \in Cases \cap wrote :
          /\ new.cases[c] # NoCase
          /\ v.cases[c] # NoCase => new.cases[c].event = v.cases[c].event
          /\ v.cases[c] = NoCase => Opens(v, new, wrote, c)
    /\ \A c, d \in Cases \cap wrote : v.cases[c] = NoCase /\ v.cases[d] = NoCase => c = d

LEMMA Typing ==
    /\ View = DbType
    /\ Nobody \notin Msgs /\ Nobody \notin Events
    /\ NoEvent \notin Event /\ NoCase \notin Case
    /\ NoCase.event \notin Events /\ NoEvent.status # "applied"
BY WebhookAssumption DEF View, DbType, NoEvent, NoCase, Event, Case

LEMMA CaseWith ==
    ASSUME NEW v \in View, NEW e \in Events, v.events[e] # NoEvent, NEW w \in SUBSET Rows, w \cap Cases = {},
           NEW o \in WithCase(v, e, w)
    PROVE  /\ o.view \in View /\ o.view.events = v.events /\ o.view.matched = v.matched /\ o.view.due = v.due
           /\ w \subseteq o.wrote /\ o.wrote \in SUBSET Rows
           /\ \/ o.wrote = w /\ o.view.cases = v.cases
              \/ \E c \in Cases : /\ v.cases[c] = NoCase /\ o.wrote \cap Cases = {c}
                                  /\ o.wrote \ {c, SubRow} = (w \cup {e}) \ {SubRow}
                                  /\ o.view.cases[c] \in Case /\ o.view.cases[c].event = e
                                  /\ \A d \in Cases : d # c => o.view.cases[d] = v.cases[d]
                                  /\ CaseOf(v, e) = {}
           /\ Reversal(v.events[e].msg) => CaseOf(o.view, e) # {}
<1>1. CASE ~NeedsCase(v, e)
  BY <1>1 DEF WithCase, NeedsCase
<1>2. CASE NeedsCase(v, e)
  <2> DEFINE row  == [event |-> e, linked |-> v.events[e].linked, state |-> "open"]
             s    == IF v.events[e].linked THEN PastDue ELSE v.sub
             rows == IF v.events[e].linked THEN {SubRow} ELSE {}
  <2>0. WithCase(v, e, w) = {[view |-> [v EXCEPT !.cases[c] = row, !.sub = s], wrote |-> w \cup {c, e} \cup rows] :
                               c \in {c \in Cases : v.cases[c] = NoCase}}
    BY <1>2 DEF WithCase
  <2> HIDE DEF row, s, rows
  <2> DEFINE After(c) == [v EXCEPT !.cases[c] = row, !.sub = s]
  <2>a. WithCase(v, e, w) = {[view |-> After(c), wrote |-> w \cup {c, e} \cup rows] : c \in {c \in Cases : v.cases[c] = NoCase}}
    BY <2>0
  <2> HIDE DEF After
  <2>1. PICK c \in Cases : v.cases[c] = NoCase /\ o.view = After(c) /\ o.wrote = w \cup {c, e} \cup rows
    BY <2>a
  <2>2. v.events[e] \in Event
    BY DEF View
  <2>3. row \in Case /\ s \in Sub /\ row.event = e
    BY <2>2 DEF Event, Case, Sub, PastDue, SubStates, View, row, s
  <2> DEFINE table == [v.cases EXCEPT ![c] = row]
  <2>b. o.view = [v EXCEPT !.cases = table, !.sub = s]
    BY <2>1 DEF After
  <2>c. table \in [Cases -> Case \cup {NoCase}] /\ table[c] = row /\ \A d \in Cases : d # c => table[d] = v.cases[d]
    BY <2>3 DEF View
  <2> HIDE DEF table
  <2>4. /\ o.view \in View /\ o.view.events = v.events /\ o.view.matched = v.matched /\ o.view.due = v.due
        /\ o.view.cases = table
    BY <2>3, <2>b, <2>c DEF View
  <2>5. o.wrote \cap Cases = {c} /\ o.wrote \ {c, SubRow} = (w \cup {e}) \ {SubRow} /\ o.wrote \in SUBSET Rows
    <3>1. rows \subseteq {SubRow}
      BY DEF rows
    <3>2. e \notin Cases /\ SubRow \notin Cases /\ c \in Rows /\ e \in Rows /\ SubRow \in Rows
      BY RowsApart DEF Rows
    <3>3. o.wrote = w \cup {c, e} \cup rows
      BY <2>1
    <3>4. o.wrote \cap Cases = {c}
      BY <3>1, <3>2, <3>3
    <3>5. o.wrote \ {c, SubRow} = (w \cup {e}) \ {SubRow}
      BY <3>1, <3>2, <3>3
    <3> QED
      BY <3>1, <3>2, <3>3, <3>4, <3>5
  <2>6. o.view.cases[c] = row /\ \A d \in Cases : d # c => o.view.cases[d] = v.cases[d]
    BY <2>4, <2>c
  <2>7. CaseOf(v, e) = {} /\ c \in CaseOf(o.view, e)
    BY <1>2, <2>3, <2>6 DEF NeedsCase, CaseOf
  <2> QED
    BY <2>1, <2>3, <2>4, <2>5, <2>6, <2>7
<1> QED
  BY <1>1, <1>2

(* A view with one event row replaced. *)
With(v, e, row) == [v EXCEPT !.events = [v.events EXCEPT ![e] = row]]

LEMMA EventWith ==
    ASSUME NEW v \in View, NEW e \in Events, NEW row \in Event
    PROVE  /\ With(v, e, row) \in View
           /\ With(v, e, row).sub = v.sub /\ With(v, e, row).matched = v.matched
           /\ With(v, e, row).cases = v.cases /\ With(v, e, row).due = v.due
           /\ With(v, e, row).events[e] = row
           /\ \A d \in Events : d # e => With(v, e, row).events[d] = v.events[d]
<1> DEFINE table == [v.events EXCEPT ![e] = row]
<1>1. table \in [Events -> Event \cup {NoEvent}] /\ table[e] = row /\ \A d \in Events : d # e => table[d] = v.events[d]
  BY DEF View
<1>2. With(v, e, row) = [v EXCEPT !.events = table]
  BY DEF With
<1> HIDE DEF table
<1>3. /\ With(v, e, row) \in View /\ With(v, e, row).sub = v.sub /\ With(v, e, row).matched = v.matched
      /\ With(v, e, row).cases = v.cases /\ With(v, e, row).due = v.due /\ With(v, e, row).events = table
  BY <1>1, <1>2 DEF View
<1> QED
  BY <1>1, <1>3 DEF table

LEMMA EventWithTable ==
    ASSUME NEW v \in View, NEW e \in Events, NEW row \in Event
    PROVE  With(v, e, row).events = [v.events EXCEPT ![e] = row]
BY DEF With, View

Results == {"received", "applied", "failed"}
Recons  == {"pending", "matched", "mismatch", "reconciled"}

(* What applying an event writes into its row. *)
Marked(v, e, st, r) == [v EXCEPT !.events[e].status = st, !.events[e].recon = r]

LEMMA EventMarked ==
    ASSUME NEW v \in View, NEW e \in Events, v.events[e] # NoEvent, NEW st \in Results, NEW r \in Recons
    PROVE  \E row \in Event : /\ Marked(v, e, st, r) = With(v, e, row) /\ row.msg = v.events[e].msg
                              /\ row.status = st /\ row.recon = r
<1> DEFINE new  == Marked(v, e, st, r)
           row1 == [v.events[e] EXCEPT !.status = st]
           row2 == [row1 EXCEPT !.recon = r]
<1>1. v.events[e] \in Event
  BY DEF View
<1>2. row1 \in Event /\ row1.msg = v.events[e].msg /\ row1.status = st
  BY <1>1 DEF Event, Results
<1>3. new = [With(v, e, row1) EXCEPT !.events[e].recon = r]
  BY DEF With, Marked
<1>4. new = [With(v, e, row1) EXCEPT !.events = [With(v, e, row1).events EXCEPT ![e] = [With(v, e, row1).events[e] EXCEPT !.recon = r]]]
  BY <1>3
<1> HIDE DEF row1
<1>5. With(v, e, row1) \in View /\ With(v, e, row1).events = [v.events EXCEPT ![e] = row1] /\ With(v, e, row1).events[e] = row1
  BY <1>2, EventWith, EventWithTable
<1>6. row2 \in Event /\ row2.msg = v.events[e].msg /\ row2.status = st /\ row2.recon = r
  BY <1>2 DEF Event, Recons
<1> HIDE DEF new
<1>7. new = [With(v, e, row1) EXCEPT !.events = [With(v, e, row1).events EXCEPT ![e] = row2]]
  BY <1>4, <1>5
<1> HIDE DEF row2
<1>8. [With(v, e, row1).events EXCEPT ![e] = row2] = [v.events EXCEPT ![e] = row2]
  BY <1>5 DEF View
<1>9. new = [With(v, e, row1) EXCEPT !.events = [v.events EXCEPT ![e] = row2]]
  BY <1>7, <1>8
<1>10. new = With(v, e, row2)
  BY <1>9 DEF With, View
<1> QED
  BY <1>6, <1>10 DEF new

LEMMA AppliedSub ==
    ASSUME NEW x \in Sub, NEW m \in Msgs, ~Unknown(m)
    PROVE  Applied(x, m) \in Sub
<1>1. Status[m] \in Statuses /\ x.state \in SubStates
  BY WebhookAssumption DEF Sub
<1>2. CASE Status[m] = "paid"
  BY <1>2 DEF Applied, Sub, SubStates
<1>3. CASE Status[m] # "paid" /\ Kind[m] = "chargeback"
  BY <1>3 DEF Applied, Sub, SubStates
<1>4. CASE Status[m] = "refunded" /\ Kind[m] # "chargeback"
  BY <1>4 DEF Applied, Sub, SubStates
<1>5. CASE Status[m] \in {"failed", "past_due"} /\ Kind[m] # "chargeback"
  <2>1. Applied(x, m) = [state |-> IF x.state = "active" THEN "past_due" ELSE x.state, pay |-> Status[m]]
    BY <1>5 DEF Applied
  <2> QED
    BY <1>1, <1>5, <2>1 DEF Sub, SubStates
<1> QED
  BY <1>1, <1>2, <1>3, <1>4, <1>5 DEF Unknown, Statuses

(* An event that is written without a case. *)
LEMMA MarkDoes ==
    ASSUME NEW v \in View, NEW e \in Events, v.events[e] # NoEvent, NEW row \in Event, row.msg = v.events[e].msg,
           row.status = "applied" => v.events[e].status = "applied" \/ ~Reversal(row.msg)
    PROVE  Does(v, With(v, e, row), {e}, {})
<1> DEFINE new == With(v, e, row)
<1>1. new \in View /\ new.cases = v.cases
  BY EventWith
<1>2. new.events[e] = row /\ \A d \in Events : d # e => new.events[d] = v.events[d]
  BY EventWith
<1> HIDE DEF new
<1>3. {e} \in SUBSET Rows /\ Cases \cap {e} = {} /\ Events \cap {e} = {e}
  BY RowsApart DEF Rows
<1>4. row # NoEvent
  BY Typing
<1>5. Does(v, new, {e}, {})
  BY <1>1, <1>2, <1>3, <1>4 DEF Does
<1> QED
  BY <1>5 DEF new

(* Applying an event: its row, and perhaps the subscription and a new case. *)
LEMMA ApplyDoes ==
    ASSUME NEW v \in View, NEW e \in Events, v.events[e] # NoEvent, NEW o \in ApplyEvent(v, e)
    PROVE  /\ Does(v, o.view, o.wrote, {}) /\ o.view.matched = v.matched
           /\ e \in o.wrote /\ o.wrote \cap Events = {e}
           /\ o.view.events[e].status = "applied" /\ Kind[v.events[e].msg] # "settlement" => SubRow \in o.wrote
<1> DEFINE m == v.events[e].msg
<1>1. v.events[e] \in Event /\ m \in Msgs /\ e \notin Cases /\ SubRow \notin Events \cup Cases
  BY RowsApart DEF View, Event
<1>2. CASE Kind[m] = "settlement"
  <2>1. o.view = Marked(v, e, "applied", "pending") /\ o.wrote = {e}
    BY <1>2 DEF ApplyEvent, Marked
  <2>2. PICK row \in Event : o.view = With(v, e, row) /\ row.msg = m
    BY <2>1, EventMarked DEF Results, Recons
  <2>3. ~Reversal(m)
    BY <1>2 DEF Reversal
  <2> QED
    BY <1>2, <1>1, <2>1, <2>2, <2>3, MarkDoes, EventWith
<1>3. CASE Kind[m] # "settlement" /\ (~v.matched \/ Unknown(m))
  <2>1. o.view = Marked(v, e, "failed", "mismatch") /\ o.wrote = {e}
    BY <1>3 DEF ApplyEvent, Marked
  <2>2. PICK row \in Event : o.view = With(v, e, row) /\ row.msg = m /\ row.status = "failed"
    BY <2>1, EventMarked DEF Results, Recons
  <2> QED
    BY <1>1, <2>1, <2>2, MarkDoes, EventWith
<1>4. CASE Kind[m] # "settlement" /\ ~(~v.matched \/ Unknown(m))
  <2> DEFINE v1 == Marked(v, e, "applied", "matched")
             v2 == [v1 EXCEPT !.sub = Applied(v.sub, m), !.events[e].linked = TRUE]
             a  == Applied(v.sub, m)
  <2>1. o \in WithCase(v2, e, {e, SubRow})
    BY <1>4 DEF ApplyEvent, Marked
  <2>2. PICK row1 \in Event : v1 = With(v, e, row1) /\ row1.msg = m /\ row1.status = "applied"
    BY EventMarked DEF Results, Recons
  <2>3. a \in Sub
    BY <1>1, <1>4, AppliedSub DEF View
  <2>4. v2 = [With(v, e, row1) EXCEPT !.sub = a, !.events[e].linked = TRUE]
    BY <2>2
  <2> HIDE DEF v1, v2, a
  <2> DEFINE x   == With(v, e, row1)
             row == [row1 EXCEPT !.linked = TRUE]
             table == [v.events EXCEPT ![e] = row]
  <2>5. x \in View /\ x.cases = v.cases /\ x.matched = v.matched /\ x.events = [v.events EXCEPT ![e] = row1] /\ x.events[e] = row1
    BY EventWith, EventWithTable
  <2>6. v2 = [x EXCEPT !.sub = a, !.events = [x.events EXCEPT ![e] = row]]
    <3>1. v2 = [[x EXCEPT !.sub = a] EXCEPT !.events = [[x EXCEPT !.sub = a].events EXCEPT ![e] = [[x EXCEPT !.sub = a].events[e] EXCEPT !.linked = TRUE]]]
      BY <2>4
    <3> HIDE DEF x
    <3>2. [x EXCEPT !.sub = a].events = x.events
      BY <2>5 DEF View
    <3> QED
      BY <3>1, <3>2, <2>5
  <2>7. row \in Event /\ row.msg = m
    BY <2>2 DEF Event
  <2>8. [x.events EXCEPT ![e] = row] = table
    BY <2>5 DEF View
  <2>9. table \in [Events -> Event \cup {NoEvent}] /\ table[e] = row /\ \A d \in Events : d # e => table[d] = v.events[d]
    BY <2>7 DEF View
  <2>10. /\ v2 \in View /\ v2.cases = v.cases /\ v2.matched = v.matched /\ v2.events[e] = row
         /\ \A d \in Events : d # e => v2.events[d] = v.events[d]
    <3> HIDE DEF x, row, table
    <3>1. v2 = [x EXCEPT !.sub = a, !.events = table]
      BY <2>6, <2>8
    <3>2. v2 \in View /\ v2.cases = x.cases /\ v2.matched = x.matched /\ v2.events = table
      BY <3>1, <2>3, <2>5, <2>9 DEF View
    <3> QED
      BY <3>2, <2>5, <2>9
  <2> HIDE DEF x, row, table
  <2>11. {e, SubRow} \in SUBSET Rows /\ {e, SubRow} \cap Cases = {}
    BY <1>1 DEF Rows
  <2>12. v2.events[e] # NoEvent
    BY <2>7, <2>10, Typing
  <2>13. /\ o.view \in View /\ o.view.events = v2.events /\ o.view.matched = v2.matched /\ o.view.due = v2.due
         /\ {e, SubRow} \subseteq o.wrote /\ o.wrote \in SUBSET Rows
         /\ \/ o.wrote = {e, SubRow} /\ o.view.cases = v2.cases
            \/ \E c \in Cases : /\ v2.cases[c] = NoCase /\ o.wrote \cap Cases = {c}
                                /\ o.wrote \ {c, SubRow} = ({e, SubRow} \cup {e}) \ {SubRow}
                                /\ o.view.cases[c] \in Case /\ o.view.cases[c].event = e
                                /\ \A d \in Cases : d # c => o.view.cases[d] = v2.cases[d]
                                /\ CaseOf(v2, e) = {}
         /\ Reversal(v2.events[e].msg) => CaseOf(o.view, e) # {}
    BY <2>1, <2>10, <2>11, <2>12, CaseWith
  <2>14. o.wrote \cap Events = {e}
    <3>1. CASE o.wrote = {e, SubRow}
      BY <1>1, <3>1
    <3>2. ASSUME NEW c \in Cases, o.wrote \ {c, SubRow} = ({e, SubRow} \cup {e}) \ {SubRow}
          PROVE  o.wrote \cap Events = {e}
      BY <1>1, <3>2, RowsApart
    <3> QED
      BY <2>13, <3>1, <3>2
  <2>15. \A d \in Events : d \notin o.wrote => o.view.events[d] = v.events[d]
    BY <2>10, <2>13
  <2>16. \A d \in Events \cap o.wrote :
            /\ o.view.events[d] # NoEvent
            /\ v.events[d] # NoEvent /\ o.view.events[d].msg = v.events[d].msg
            /\ Reversal(o.view.events[d].msg) => CaseOf(o.view, d) # {}
    BY <2>7, <2>10, <2>12, <2>13, <2>14
  <2>17. /\ \A c \in Cases : c \notin o.wrote => o.view.cases[c] = v.cases[c]
         /\ \A c \in Cases \cap o.wrote :
               /\ o.view.cases[c] # NoCase /\ v.cases[c] = NoCase
               /\ o.view.cases[c].event = e /\ CaseOf(v, e) = {}
         /\ \A c, d \in Cases \cap o.wrote : c = d
    <3>1. CaseOf(v2, e) = CaseOf(v, e)
      BY <2>10 DEF CaseOf
    <3> QED
      BY <2>10, <2>11, <2>13, <3>1, Typing
  <2>18. Does(v, o.view, o.wrote, {})
    BY <2>12, <2>13, <2>14, <2>15, <2>16, <2>17 DEF Does, Opens
  <2> QED
    BY <2>10, <2>13, <2>14, <2>18
<1> QED
  BY <1>2, <1>3, <1>4

(* A case row that is written again, with perhaps a subscription and actions. *)
LEMMA DecideDoes ==
    ASSUME NEW v \in View, NEW c \in Cases, v.cases[c] # NoCase, NEW d \in Decisions
    PROVE  Does(v, Decide(v, c, d).view, Decide(v, c, d).wrote, {})
<1> DEFINE row   == [v.cases[c] EXCEPT !.state = d]
           table == [v.cases EXCEPT ![c] = row]
           owed  == IF d \in {"lost", "refunded"} THEN v.due \cup ActionSpecs(v, c, d) ELSE v.due
           decided == [v EXCEPT !.cases[c].state = d,
                                !.due = IF d \in {"lost", "refunded"} THEN @ \cup ActionSpecs(v, c, d) ELSE @]
           s     == IF d = "won" THEN [state |-> "active", pay |-> "paid"] ELSE PastDue
           o     == Decide(v, c, d)
<1>1. v.cases[c] \in Case /\ c \notin Events /\ SubRow \notin Events /\ SubRow \notin Cases
  BY RowsApart DEF View
<1>2. row \in Case /\ row.event = v.cases[c].event
  BY <1>1 DEF Case, Decisions
<1>3. ActionSpecs(v, c, d) \subseteq Cases \X CaseActions
  BY DEF ActionSpecs, CaseActions
<1>4. owed \in SUBSET (Cases \X CaseActions) /\ s \in Sub
  BY <1>3 DEF View, Sub, SubStates, PastDue
<1>5. decided = [v EXCEPT !.cases = table, !.due = owed]
  OBVIOUS
<1> HIDE DEF row
<1>6. table \in [Cases -> Case \cup {NoCase}] /\ table[c] = row /\ \A b \in Cases : b # c => table[b] = v.cases[b]
  BY <1>2 DEF View
<1> HIDE DEF table, owed, s
<1>7. decided \in View /\ decided.events = v.events /\ decided.cases = table
  BY <1>4, <1>5, <1>6 DEF View
<1>8. \/ o = [view |-> decided, wrote |-> {c}]
      \/ o = [view |-> [decided EXCEPT !.sub = s], wrote |-> {c, SubRow}]
  BY DEF Decide, s
<1> HIDE DEF decided
<1>9. o.view \in View /\ o.view.events = v.events /\ o.view.cases = table
  BY <1>4, <1>7, <1>8 DEF View
<1>10. o.wrote = {c} \/ o.wrote = {c, SubRow}
  BY <1>8
<1> HIDE DEF o
<1>11. o.wrote \in SUBSET Rows /\ Events \cap o.wrote = {} /\ Cases \cap o.wrote = {c}
  BY <1>1, <1>10 DEF Rows
<1>12. row # NoCase
  BY <1>2, Typing
<1>13. Does(v, o.view, o.wrote, {})
  BY <1>2, <1>6, <1>9, <1>11, <1>12 DEF Does
<1> QED
  BY <1>13 DEF o

LEMMA FinanceDoes ==
    ASSUME NEW v \in View, NEW c \in Cases, v.cases[c] # NoCase
    PROVE  Does(v, Finance(v, c).view, Finance(v, c).wrote, {})
<1> DEFINE owed == v.due \cup ActionSpecs(v, c, v.cases[c].state)
           o    == Finance(v, c)
<1>1. owed \in SUBSET (Cases \X CaseActions)
  BY DEF ActionSpecs, CaseActions, View
<1>2. o.view = [v EXCEPT !.due = owed] /\ o.wrote \subseteq {c}
  BY DEF Finance
<1> HIDE DEF owed, o
<1>3. o.view \in View /\ o.view.events = v.events /\ o.view.cases = v.cases
  BY <1>1, <1>2 DEF View
<1>4. o.wrote \in SUBSET Rows /\ Events \cap o.wrote = {} /\ Cases \cap o.wrote \subseteq {c}
  BY <1>2, RowsApart DEF Rows
<1>5. Does(v, o.view, o.wrote, {})
  BY <1>3, <1>4 DEF Does
<1> QED
  BY <1>5 DEF o

LEMMA ReconDoes ==
    ASSUME NEW v \in View, NEW e \in Events, v.events[e] # NoEvent, NEW r \in Recons
    PROVE  Does(v, [v EXCEPT !.events[e].recon = r], {e}, {})
<1> DEFINE row == [v.events[e] EXCEPT !.recon = r]
<1>1. v.events[e] \in Event
  BY DEF View
<1>2. row \in Event /\ row.msg = v.events[e].msg /\ row.status = v.events[e].status
  BY <1>1 DEF Event, Recons
<1>3. [v EXCEPT !.events[e].recon = r] = With(v, e, row)
  BY DEF With
<1> HIDE DEF row
<1>4. Does(v, With(v, e, row), {e}, {})
  <2> DEFINE new == With(v, e, row)
  <2>1. new \in View /\ new.cases = v.cases
    BY <1>2, EventWith
  <2>2. new.events[e] = row /\ \A d \in Events : d # e => new.events[d] = v.events[d]
    BY <1>2, EventWith
  <2> HIDE DEF new
  <2>3. {e} \in SUBSET Rows /\ Cases \cap {e} = {} /\ Events \cap {e} = {e}
    BY RowsApart DEF Rows
  <2>4. row # NoEvent
    BY <1>2, Typing
  <2>5. Does(v, new, {e}, {})
    BY <1>2, <2>1, <2>2, <2>3, <2>4 DEF Does
  <2> QED
    BY <2>5 DEF new
<1> QED
  BY <1>3, <1>4

(* The Open Case button. *)
LEMMA CaseDoes ==
    ASSUME NEW v \in View, NEW e \in Events, v.events[e] # NoEvent, NEW o \in WithCase(v, e, {})
    PROVE  Does(v, o.view, o.wrote, {})
<1>1. /\ o.view \in View /\ o.view.events = v.events /\ o.wrote \in SUBSET Rows
      /\ \/ o.wrote = {} /\ o.view.cases = v.cases
         \/ \E c \in Cases : /\ v.cases[c] = NoCase /\ o.wrote \cap Cases = {c}
                             /\ o.wrote \ {c, SubRow} = ({} \cup {e}) \ {SubRow}
                             /\ o.view.cases[c] \in Case /\ o.view.cases[c].event = e
                             /\ \A d \in Cases : d # c => o.view.cases[d] = v.cases[d]
                             /\ CaseOf(v, e) = {}
      /\ Reversal(v.events[e].msg) => CaseOf(o.view, e) # {}
  BY CaseWith
<1>2. e \notin Cases /\ SubRow \notin Events /\ SubRow \notin Cases
  BY RowsApart
<1>3. CASE o.wrote = {} /\ o.view.cases = v.cases
  BY <1>1, <1>3 DEF Does
<1>4. ASSUME NEW c \in Cases, v.cases[c] = NoCase, o.wrote \cap Cases = {c},
             o.wrote \ {c, SubRow} = ({} \cup {e}) \ {SubRow},
             o.view.cases[c] \in Case, o.view.cases[c].event = e,
             \A d \in Cases : d # c => o.view.cases[d] = v.cases[d],
             CaseOf(v, e) = {}
      PROVE  Does(v, o.view, o.wrote, {})
  <2>1. o.wrote \cap Events = {e}
    BY <1>2, <1>4, RowsApart
  <2>2. o.view.cases[c] # NoCase
    BY <1>4, Typing
  <2> QED
    BY <1>1, <1>4, <2>1, <2>2 DEF Does, Opens
<1> QED
  BY <1>1, <1>3, <1>4

(* A delivery that finds no earlier event of its reference. *)
LEMMA RecordDoes ==
    ASSUME NEW v \in View, NEW m \in Msgs, NEW f \in Events, v.events[f] = NoEvent, Existing(v, m) = {},
           NEW o \in Deliver(v, m, f)
    PROVE  /\ Does(v, o.view, o.wrote, {f}) /\ f \in o.wrote /\ o.view.events[f].msg = m
           /\ o.view.events[f].status = "applied" /\ Kind[m] # "settlement" => SubRow \in o.wrote
<1> DEFINE row == [msg |-> m, status |-> "received", recon |-> "pending", linked |-> v.matched]
           v1  == With(v, f, row)
<1>1. o \in ApplyEvent(v1, f)
  BY DEF Deliver, With
<1>2. row \in Event /\ row.msg = m /\ row.status = "received"
  BY DEF Event, View
<1> HIDE DEF row
<1>3. v1 \in View /\ v1.cases = v.cases /\ v1.matched = v.matched
  BY <1>2, EventWith
<1>4. v1.events[f] = row /\ \A d \in Events : d # f => v1.events[d] = v.events[d]
  BY <1>2, EventWith
<1> HIDE DEF v1
<1>5. row # NoEvent
  BY <1>2, Typing
<1>6. /\ Does(v1, o.view, o.wrote, {}) /\ f \in o.wrote /\ o.wrote \cap Events = {f}
      /\ o.view.events[f].status = "applied" /\ Kind[v1.events[f].msg] # "settlement" => SubRow \in o.wrote
  BY <1>1, <1>3, <1>4, <1>5, ApplyDoes
<1>7. o.view.events[f].msg = m
  BY <1>2, <1>4, <1>6 DEF Does
<1>8. Does(v, o.view, o.wrote, {f})
  <2>1. \A e \in Events : e \notin o.wrote => o.view.events[e] = v.events[e]
    BY <1>4, <1>6 DEF Does
  <2>2. /\ o.view.events[f] # NoEvent
        /\ o.view.events[f].status = "applied" /\ Reversal(o.view.events[f].msg) => CaseOf(o.view, f) # {}
    BY <1>2, <1>4, <1>6 DEF Does
  <2>3. \A c \in Cases \cap o.wrote : v.cases[c] = NoCase => Opens(v, o.view, o.wrote, c)
    BY <1>3, <1>6 DEF Does, Opens, CaseOf
  <2> QED
    BY <1>3, <1>6, <2>1, <2>2, <2>3 DEF Does
<1> QED
  BY <1>2, <1>4, <1>6, <1>7, <1>8

LEMMA NothingDoes == ASSUME NEW v \in View PROVE Does(v, v, {}, {})
BY DEF Does

(* Every effect of a request is one of these. *)
LEMMA EffectDoes ==
    ASSUME NEW v \in View, NEW j \in Job, NEW f \in Events \cup {Nobody},
           f = Nobody <=> ~(j.op = "deliver" /\ Existing(v, j.arg) = {}),
           f # Nobody => v.events[f] = NoEvent,
           j.op \in {"apply", "reconcile", "mismatch", "case"} => v.events[j.arg] # NoEvent,
           j.op \in Decisions \cup {"finance"} => v.cases[j.arg] # NoCase,
           NEW o \in Effect(v, j, f)
    PROVE  /\ Does(v, o.view, o.wrote, {f} \cap Events)
           /\ f # Nobody => /\ f \in o.wrote /\ o.view.events[f].msg = j.arg /\ j.arg \in Msgs
                            /\ o.view.events[f].status = "applied" /\ Kind[j.arg] # "settlement" => SubRow \in o.wrote
           /\ f = Nobody /\ j.op = "deliver" => Existing(v, j.arg) # {}
<1>1. Nobody \notin Events
  BY Typing
<1>2. CASE j.op = "deliver" /\ f # Nobody
  <2>1. j.arg \in Msgs /\ f \in Events /\ Existing(v, j.arg) = {} /\ o \in Deliver(v, j.arg, f) /\ {f} \cap Events = {f}
    BY <1>2 DEF Effect, Job, Decisions
  <2> QED
    BY <1>2, <2>1, RecordDoes
<1>3. CASE j.op = "deliver" /\ f = Nobody
  <2>1. o \in Deliver(v, j.arg, f) /\ Existing(v, j.arg) # {} /\ {f} \cap Events = {}
    BY <1>1, <1>3 DEF Effect, Decisions
  <2>2. o = [view |-> v, wrote |-> {}]
    BY <2>1 DEF Deliver
  <2> QED
    BY <1>3, <2>1, <2>2, NothingDoes
<1>4. CASE j.op # "deliver"
  <2>1. f = Nobody /\ {f} \cap Events = {}
    BY <1>1, <1>4
  <2>2. CASE j.op = "apply"
    <3>1. j.arg \in Events /\ o \in ApplyEvent(v, j.arg)
      BY <2>2 DEF Effect, Job, Decisions
    <3>2. Does(v, o.view, o.wrote, {})
      BY <2>2, <3>1, ApplyDoes
    <3> QED
      BY <1>4, <2>1, <3>2
  <2>3. CASE j.op = "case"
    <3>1. j.arg \in Events /\ o \in WithCase(v, j.arg, {})
      BY <2>3 DEF Effect, Job, Decisions
    <3> QED
      BY <1>4, <2>1, <2>3, <3>1, CaseDoes
  <2>4. CASE j.op = "reconcile"
    <3>1. j.arg \in Events /\ o = [view |-> [v EXCEPT !.events[j.arg].recon = "reconciled"], wrote |-> {j.arg}]
      BY <2>4 DEF Effect, Job, Decisions
    <3> QED
      BY <1>4, <2>1, <2>4, <3>1, ReconDoes DEF Recons
  <2>5. CASE j.op = "mismatch"
    <3>1. j.arg \in Events /\ o = [view |-> [v EXCEPT !.events[j.arg].recon = "mismatch"], wrote |-> {j.arg}]
      BY <2>5 DEF Effect, Job, Decisions
    <3> QED
      BY <1>4, <2>1, <2>5, <3>1, ReconDoes DEF Recons
  <2>6. CASE j.op = "finance"
    <3>1. j.arg \in Cases /\ o = Finance(v, j.arg)
      BY <2>6 DEF Effect, Job, Decisions
    <3> QED
      BY <1>4, <2>1, <2>6, <3>1, FinanceDoes
  <2>7. CASE j.op \in Decisions
    <3>1. j.arg \in Cases /\ o = Decide(v, j.arg, j.op)
      BY <2>7 DEF Effect, Job, Decisions
    <3> QED
      BY <1>4, <2>1, <2>7, <3>1, DecideDoes
  <2> QED
    BY <1>4, <2>2, <2>3, <2>4, <2>5, <2>6, <2>7 DEF Job
<1> QED
  BY <1>2, <1>3, <1>4

-----------------------------------------------------------------------------
(* A request starts with, or is run again on, a view of what is committed. *)
LEMMA SnapshotSees ==
    ASSUME WebhookInv, NEW j \in Job,
           j.op \in {"apply", "reconcile", "mismatch", "case"} => events[j.arg] # NoEvent,
           j.op \in Decisions \cup {"finance"} => cases[j.arg] # NoCase
    PROVE  LET t == [job |-> j, view |-> Snapshot(j), stale |-> {}] IN Sees(t) /\ Fits(t)
<1> DEFINE v == Snapshot(j)
           t == [job |-> j, view |-> v, stale |-> {}]
<1>1. db \in View
  BY DEF WebhookInv, TablesTyped, db, View
<1>2. v \in View /\ v.events = events /\ v.cases = cases
  <2> DEFINE owed == IF j.op = "finance" THEN due ELSE {}
  <2>1. owed \in SUBSET (Cases \X CaseActions)
    BY DEF WebhookInv, TablesTyped
  <2>2. v = [db EXCEPT !.due = owed]
    BY DEF Snapshot
  <2>3. db.events = events /\ db.cases = cases
    BY DEF db
  <2> HIDE DEF owed, v
  <2> QED
    BY <1>1, <2>1, <2>2, <2>3 DEF View
<1> HIDE DEF v
<1>3. t.job = j /\ t.view = v /\ t.stale = {} /\ t \in [job : Job, view : DbType, stale : SUBSET Rows]
  BY <1>2, Typing
<1>4. \A e \in atOnce : e \in Events /\ events[e] # NoEvent
  BY DEF WebhookInv, TablesTyped
<1> HIDE DEF t
<1>5. Sees(t) /\ Fits(t)
  BY <1>2, <1>3, <1>4, Typing DEF Sees, Fits
<1> QED
  BY <1>5 DEF t, v

LEMMA BeginKeeps ==
    ASSUME WebhookInv, NEW w \in Workers, NEW t, txn' = [txn EXCEPT ![w] = t], t = Idle \/ (Sees(t) /\ Fits(t)),
           UNCHANGED <<sub, matched, events, cases, due, hist>>
    PROVE  WebhookInv'
<1>1. \A x \in Workers : txn'[x] = IF x = w THEN t ELSE txn[x]
  BY DEF WebhookInv, RequestsSee
<1>2. DOMAIN txn' = Workers
  BY DEF WebhookInv, RequestsSee
<1>3. UNCHANGED <<sub, matched, events, cases, due, acked, atOnce>>
  BY DEF hist
<1>4. TablesTyped' /\ CasesOpened' /\ AppliedByOneDelivery'
  BY <1>3 DEF WebhookInv, TablesTyped, CasesOpened, AppliedByOneDelivery
<1>5. \A x \in Workers : txn'[x] # Idle => Sees(txn'[x]) /\ Fits(txn'[x])
  BY <1>1 DEF WebhookInv, RequestsSee
<1>6. \A x \in Workers : Sees(txn'[x]) => Sees(txn[x])'
  BY <1>3 DEF Sees
<1>7. \A x \in Workers : Fits(txn'[x]) => Fits(txn[x])'
  BY DEF Fits
<1>8. RequestsSee'
  BY <1>2, <1>5, <1>6, <1>7 DEF RequestsSee
<1> QED
  BY <1>4, <1>8 DEF WebhookInv

(* What a commit does to the tables. *)
Written(o) ==
    /\ events' \in [Events -> Event \cup {NoEvent}] /\ cases' \in [Cases -> Case \cup {NoCase}]
    /\ sub' \in Sub /\ due' \in SUBSET (Cases \X CaseActions)
    /\ \A e \in Events : events'[e] = IF e \in o.wrote THEN o.view.events[e] ELSE events[e]
    /\ \A c \in Cases : cases'[c] = IF c \in o.wrote THEN o.view.cases[c] ELSE cases[c]
    /\ \A e \in Events : events[e] # NoEvent => events'[e] # NoEvent /\ events'[e].msg = events[e].msg
    /\ \A c \in Cases : cases[c] # NoCase => cases'[c] # NoCase /\ cases'[c].event = cases[c].event
    /\ \A c \in Cases : cases'[c] # NoCase /\ cases[c] = NoCase =>
          /\ cases'[c].event \in Events \cap o.wrote /\ events'[cases'[c].event] # NoEvent
          /\ \A d \in Cases : d # c => cases'[d].event # cases'[c].event
    /\ \A e \in Events : events'[e].status = "applied" /\ Reversal(events'[e].msg) =>
          \/ events[e].status = "applied" /\ Reversal(events[e].msg)
          \/ \E c \in Cases : cases'[c].event = e

(* Nothing that it writes is stale. *)
LEMMA StoredTables ==
    ASSUME WebhookInv, NEW w \in Workers, txn[w] # Idle, NEW o, NEW f \in Events \cup {Nobody},
           f # Nobody => events[f] = NoEvent,
           f # Nobody => /\ f \in o.wrote /\ o.view.events[f].msg = txn[w].job.arg
                         /\ o.view.events[f].status = "applied" /\ Kind[txn[w].job.arg] # "settlement" => SubRow \in o.wrote,
           Does(txn[w].view, o.view, o.wrote, {f} \cap Events),
           \A c \in o.wrote \cap Cases : txn[w].view.cases[c] = NoCase => cases[c] = NoCase,
           Store(w, o)
    PROVE  Written(o)
<1> DEFINE t == txn[w]
           v == txn[w].view
           born == {f} \cap Events
<1>1. Sees(t) /\ v \in View /\ t.stale \in SUBSET Rows /\ o.wrote \cap t.stale = {}
  BY Typing DEF WebhookInv, RequestsSee, Sees, Store
<1>2. o.view \in View /\ o.wrote \in SUBSET Rows
  BY DEF Does
<1>3. /\ events \in [Events -> Event \cup {NoEvent}] /\ cases \in [Cases -> Case \cup {NoCase}]
      /\ sub \in Sub /\ due \in SUBSET (Cases \X CaseActions)
  BY DEF WebhookInv, TablesTyped
<1>4. \A e \in Events : events'[e] = IF e \in o.wrote THEN o.view.events[e] ELSE events[e]
  BY <1>3 DEF Store, Merge
<1>5. \A c \in Cases : cases'[c] = IF c \in o.wrote THEN o.view.cases[c] ELSE cases[c]
  BY <1>3 DEF Store, Merge
<1>6. /\ events' \in [Events -> Event \cup {NoEvent}] /\ cases' \in [Cases -> Case \cup {NoCase}]
      /\ sub' \in Sub /\ due' \in SUBSET (Cases \X CaseActions)
  <2>1. \A e \in Events : o.view.events[e] \in Event \cup {NoEvent}
    BY <1>2 DEF View
  <2>2. \A c \in Cases : o.view.cases[c] \in Case \cup {NoCase}
    BY <1>2 DEF View
  <2>3. o.view.sub \in Sub /\ o.view.due \in SUBSET (Cases \X CaseActions)
    BY <1>2 DEF View
  <2>4. DOMAIN events = Events /\ DOMAIN cases = Cases
    BY <1>3
  <2>5. events' = [e \in Events |-> IF e \in o.wrote THEN o.view.events[e] ELSE events[e]]
    BY <2>4 DEF Store, Merge
  <2>6. cases' = [c \in Cases |-> IF c \in o.wrote THEN o.view.cases[c] ELSE cases[c]]
    BY <2>4 DEF Store, Merge
  <2>7. events' \in [Events -> Event \cup {NoEvent}]
    BY <1>3, <2>1, <2>5
  <2>8. cases' \in [Cases -> Case \cup {NoCase}]
    BY <1>3, <2>2, <2>6
  <2> QED
    BY <1>3, <2>3, <2>7, <2>8 DEF Store
(* The rows that are written are as the view has them. *)
<1>7. /\ \A e \in Events \cap o.wrote : v.events[e] = events[e]
      /\ \A c \in Cases \cap o.wrote : v.cases[c] = cases[c]
  BY <1>1 DEF Sees
<1>8. \A e \in Events : events[e] # NoEvent => events'[e] # NoEvent /\ events'[e].msg = events[e].msg
  <2> SUFFICES ASSUME NEW e \in Events, events[e] # NoEvent, e \in o.wrote
               PROVE  events'[e] # NoEvent /\ events'[e].msg = events[e].msg
    BY <1>4
  <2>1. e \notin born
    BY Typing
  <2> QED
    BY <1>4, <1>7, <2>1 DEF Does
<1>9. \A c \in Cases : cases[c] # NoCase => cases'[c] # NoCase /\ cases'[c].event = cases[c].event
  BY <1>5, <1>7 DEF Does
<1>10. ASSUME NEW c \in Cases, cases'[c] # NoCase, cases[c] = NoCase
       PROVE  /\ cases'[c].event \in Events \cap o.wrote /\ events'[cases'[c].event] # NoEvent
              /\ \A d \in Cases : d # c => cases'[d].event # cases'[c].event
  <2> DEFINE e == o.view.cases[c].event
  <2>1. c \in o.wrote /\ v.cases[c] = NoCase /\ Opens(v, o.view, o.wrote, c) /\ cases'[c] = o.view.cases[c]
    BY <1>5, <1>7, <1>10 DEF Does
  <2>2. e \in Events \cap o.wrote /\ events'[e] # NoEvent /\ CaseOf(v, e) = {}
    BY <1>4, <2>1 DEF Opens
  <2>3. ASSUME NEW d \in Cases, d # c, cases'[d].event = e PROVE FALSE
    <3>1. cases'[d] # NoCase
      BY <2>2, <2>3, Typing
    <3>2. CASE cases[d] = NoCase
      <4>1. d \in o.wrote /\ v.cases[d] = NoCase
        BY <1>5, <1>7, <3>1, <3>2
      <4> QED
        BY <2>1, <2>3, <4>1 DEF Does
    <3>3. CASE cases[d] # NoCase
      <4>1. cases[d].event = e
        BY <1>9, <2>3, <3>3
      <4>2. v.cases[d] # NoCase
        BY <1>1, <2>2, <3>3, <4>1 DEF Sees
      <4>3. v.cases[d].event = e
        BY <1>1, <4>1, <4>2 DEF Sees
      <4> QED
        BY <2>2, <4>3 DEF CaseOf
    <3> QED
      BY <3>2, <3>3
  <2> QED
    BY <2>1, <2>2, <2>3
<1>11. ASSUME NEW e \in Events, events'[e].status = "applied", Reversal(events'[e].msg),
              ~(events[e].status = "applied" /\ Reversal(events[e].msg))
       PROVE  \E c \in Cases : cases'[c].event = e
  <2>1. e \in o.wrote
    BY <1>4, <1>11
  <2>2. o.view.events[e] = events'[e] /\ v.events[e] = events[e]
    BY <1>4, <1>7, <2>1
  <2>3. CaseOf(o.view, e) # {}
    BY <1>11, <2>1, <2>2 DEF Does
  <2>4. PICK c \in Cases : o.view.cases[c].event = e
    BY <2>3 DEF CaseOf
  <2>5. CASE c \in o.wrote
    BY <1>5, <2>4, <2>5
  <2>6. CASE c \notin o.wrote
    <3>1. v.cases[c].event = e
      BY <2>4, <2>6 DEF Does
    <3>2. v.cases[c] # NoCase
      BY <3>1, Typing
    <3>3. cases[c].event = e
      BY <1>1, <3>1, <3>2 DEF Sees
    <3> QED
      BY <1>5, <2>6, <3>3
  <2> QED
    BY <2>5, <2>6
<1> QED
  BY <1>4, <1>5, <1>6, <1>8, <1>9, <1>10, <1>11 DEF Written

(* What the other requests can rely on after it. *)
LEMMA OthersSee ==
    ASSUME WebhookInv, NEW x \in Workers, txn[x] # Idle, NEW wrote \in SUBSET Rows, NEW more \in SUBSET Events,
           txn'[x] = [txn[x] EXCEPT !.stale = @ \cup wrote], atOnce' = atOnce \cup more,
           \A e \in more : Kind[events'[e].msg] # "settlement" => SubRow \in wrote,
           \A e \in Events : e \notin wrote => events'[e] = events[e],
           \A c \in Cases : c \notin wrote => cases'[c] = cases[c],
           \A e \in Events : events[e] # NoEvent => events'[e] # NoEvent /\ events'[e].msg = events[e].msg,
           \A c \in Cases : cases[c] # NoCase => cases'[c] # NoCase /\ cases'[c].event = cases[c].event,
           \A c \in Cases : cases'[c] # NoCase /\ cases[c] = NoCase => cases'[c].event \in wrote
    PROVE  (Sees(txn[x]) /\ Fits(txn[x]))'
<1> DEFINE t == txn[x]
           late == t.stale \cup wrote
<1>1. Sees(t) /\ Fits(t)
  BY DEF WebhookInv, RequestsSee
<1>2. t \in [job : Job, view : DbType, stale : SUBSET Rows] /\ late \in SUBSET Rows
  BY <1>1 DEF Sees
<1>3. txn'[x] = [t EXCEPT !.stale = late]
  OBVIOUS
<1> HIDE DEF late, t
<1>4. /\ txn'[x] \in [job : Job, view : DbType, stale : SUBSET Rows]
      /\ txn'[x].job = t.job /\ txn'[x].view = t.view /\ txn'[x].stale = late
  BY <1>2, <1>3
<1> DEFINE u == txn'[x]
           v == t.view
<1>5. \A y : y \in late <=> y \in t.stale \/ y \in wrote
  BY DEF late, t
<1>6. Fits(u)
  BY <1>1, <1>4 DEF Fits
<1>7. /\ \A e \in Events : e \notin late => v.events[e] = events'[e]
      /\ \A c \in Cases : c \notin late => v.cases[c] = cases'[c]
  BY <1>1, <1>5 DEF Sees
<1>8. /\ \A e \in Events : v.events[e] # NoEvent => events'[e] # NoEvent /\ events'[e].msg = v.events[e].msg
      /\ \A c \in Cases : v.cases[c] # NoCase => cases'[c] # NoCase /\ cases'[c].event = v.cases[c].event
  BY <1>1 DEF Sees
<1>9. \A c \in Cases : cases'[c] # NoCase => v.cases[c] # NoCase \/ cases'[c].event \in late
  BY <1>1, <1>5 DEF Sees
<1>10. \A e \in atOnce' : Kind[events'[e].msg] # "settlement" => v.events[e] # NoEvent \/ SubRow \in late
  <2> SUFFICES ASSUME NEW e \in atOnce', Kind[events'[e].msg] # "settlement"
               PROVE  v.events[e] # NoEvent \/ SubRow \in late
    OBVIOUS
  <2>1. CASE e \in more
    BY <1>5, <2>1
  <2>2. CASE e \in atOnce
    <3>1. e \in Events /\ events'[e].msg = events[e].msg
      BY <2>2 DEF WebhookInv, TablesTyped
    <3> QED
      BY <1>1, <1>5, <2>2, <3>1 DEF Sees
  <2> QED
    BY <2>1, <2>2
<1> QED
  BY <1>4, <1>6, <1>7, <1>8, <1>9, <1>10 DEF Sees, Fits

(* A commit that records event f, or none, and writes o. *)
Commits(w, f, o) ==
    /\ f = Nobody <=> ~(txn[w].job.op = "deliver" /\ Existing(txn[w].view, txn[w].job.arg) = {})
    /\ f # Nobody => /\ events[f] = NoEvent /\ f \in o.wrote /\ o.view.events[f].msg = txn[w].job.arg
                     /\ o.view.events[f] # NoEvent
                     /\ o.view.events[f].status = "applied" /\ Kind[txn[w].job.arg] # "settlement" => SubRow \in o.wrote
    /\ Store(w, o) /\ Written(o) /\ o.wrote \in SUBSET Rows
    /\ atOnce' = IF f # Nobody /\ o.view.events[f].status = "applied" THEN atOnce \cup {f} ELSE atOnce

LEMMA CommitWrites ==
    ASSUME WebhookInv, NEW w \in Workers, Commit(w)
    PROVE  \E f \in Events \cup {Nobody} : \E o \in Effect(txn[w].view, txn[w].job, f) : Commits(w, f, o)
<1> DEFINE t == txn[w]
<1>1. t # Idle /\ Sees(t) /\ Fits(t) /\ t.job \in Job /\ t.view \in View
  BY Typing DEF WebhookInv, RequestsSee, Commit, Sees
<1>2. PICK f \in Free(events, NoEvent) \cup {Nobody} :
          /\ f = Nobody <=> ~(t.job.op = "deliver" /\ Existing(t.view, t.job.arg) = {})
          /\ \E o \in Effect(t.view, t.job, f) :
                /\ \A c \in o.wrote \cap Cases : t.view.cases[c] = NoCase => c \in Free(cases, NoCase)
                /\ Store(w, o)
                /\ atOnce' = IF f # Nobody /\ o.view.events[f].status = "applied" THEN atOnce \cup {f} ELSE atOnce
  BY DEF Commit
<1>3. PICK o \in Effect(t.view, t.job, f) :
          /\ \A c \in o.wrote \cap Cases : t.view.cases[c] = NoCase => c \in Free(cases, NoCase)
          /\ Store(w, o)
          /\ atOnce' = IF f # Nobody /\ o.view.events[f].status = "applied" THEN atOnce \cup {f} ELSE atOnce
  BY <1>2
<1>4. events \in [Events -> Event \cup {NoEvent}] /\ cases \in [Cases -> Case \cup {NoCase}]
  BY DEF WebhookInv, TablesTyped
<1>5. \A c : c \in Free(cases, NoCase) => cases[c] = NoCase
  BY DEF Free
<1>6. f \in Events \cup {Nobody} /\ (f # Nobody => events[f] = NoEvent)
  BY <1>4 DEF Free
<1>7. f # Nobody => t.view.events[f] = NoEvent
  BY <1>1, <1>6 DEF Sees
<1> HIDE DEF t
<1>8. /\ Does(t.view, o.view, o.wrote, {f} \cap Events)
      /\ f # Nobody => /\ f \in o.wrote /\ o.view.events[f].msg = t.job.arg /\ t.job.arg \in Msgs
                       /\ o.view.events[f].status = "applied" /\ Kind[t.job.arg] # "settlement" => SubRow \in o.wrote
      /\ f = Nobody /\ t.job.op = "deliver" => Existing(t.view, t.job.arg) # {}
  BY <1>1, <1>2, <1>6, <1>7, EffectDoes DEF Fits
<1>9. Written(o)
  BY <1>1, <1>3, <1>5, <1>6, <1>8, StoredTables DEF t
<1> QED
  BY <1>1, <1>2, <1>3, <1>6, <1>8, <1>9 DEF Commits, Does, t

LEMMA CommitKeeps == ASSUME WebhookInv, NEW w \in Workers, Commit(w) PROVE WebhookInv'
<1> DEFINE t == txn[w]
<1>1. t # Idle /\ Sees(t) /\ Fits(t) /\ t.job \in Job /\ t.view \in View
  BY Typing DEF WebhookInv, RequestsSee, Commit, Sees
<1>2. PICK f \in Events \cup {Nobody} : \E o \in Effect(t.view, t.job, f) : Commits(w, f, o)
  BY CommitWrites
<1>4. PICK o \in Effect(t.view, t.job, f) : Commits(w, f, o)
  BY <1>2
<1>5. events \in [Events -> Event \cup {NoEvent}] /\ cases \in [Cases -> Case \cup {NoCase}]
  BY DEF WebhookInv, TablesTyped
<1> HIDE DEF t
<1>9. Written(o)
  BY <1>4 DEF Commits
<1> USE DEF Written
<1> DEFINE more == IF f # Nobody /\ o.view.events[f].status = "applied" THEN {f} ELSE {}
<1>10. /\ atOnce' = atOnce \cup more /\ more \in SUBSET Events
       /\ \A e \in more : /\ e = f /\ f # Nobody /\ events'[e].msg = t.job.arg /\ events'[e] # NoEvent
                          /\ Kind[events'[e].msg] # "settlement" => SubRow \in o.wrote
  <2>1. more \in SUBSET Events /\ atOnce' = atOnce \cup more
    BY <1>4 DEF Commits
  <2>2. ASSUME f # Nobody PROVE events'[f] = o.view.events[f] /\ events'[f] # NoEvent
    BY <1>4, <1>9, <2>2 DEF Commits
  <2> QED
    BY <1>4, <2>1, <2>2 DEF Commits, t
<1> HIDE DEF more
<1>11. TablesTyped'
  <2>1. matched' = matched /\ acked' \subseteq Msgs
    <3>1. t.job.op = "deliver" => t.job.arg \in Msgs
      BY <1>1 DEF Job, Decisions
    <3> QED
      BY <3>1 DEF Commit, t, WebhookInv, TablesTyped
  <2>2. \A e \in atOnce' : e \in Events /\ events'[e] # NoEvent
    BY <1>9, <1>10 DEF WebhookInv, TablesTyped
  <2> QED
    BY <1>9, <1>10, <2>1, <2>2 DEF WebhookInv, TablesTyped
<1>12. CasesOpened'
  <2>1. \A c \in Cases : cases'[c] # NoCase => events'[cases'[c].event] # NoEvent
    <3> SUFFICES ASSUME NEW c \in Cases, cases'[c] # NoCase, cases[c] # NoCase PROVE events'[cases'[c].event] # NoEvent
      BY <1>9
    <3>1. cases'[c].event = cases[c].event /\ cases[c].event \in Events /\ events[cases[c].event] # NoEvent
      BY <1>5, <1>9 DEF WebhookInv, CasesOpened, Case
    <3> QED
      BY <1>9, <3>1
  <2>2. ASSUME NEW c \in Cases, NEW d \in Cases, cases'[c] # NoCase, cases'[c].event = cases'[d].event PROVE c = d
    <3>1. CASE cases[c] = NoCase
      BY <1>9, <2>2, <3>1
    <3>2. CASE cases[c] # NoCase
      <4>1. cases'[c].event \in Events
        BY <1>9, <2>2 DEF Case
      <4>2. cases'[d] # NoCase
        BY <2>2, <4>1, Typing
      <4>3. CASE cases[d] = NoCase
        BY <1>9, <2>2, <4>2, <4>3
      <4>4. CASE cases[d] # NoCase
        BY <1>9, <2>2, <3>2, <4>4 DEF WebhookInv, CasesOpened
      <4> QED
        BY <4>3, <4>4
    <3> QED
      BY <3>1, <3>2
  <2>3. ASSUME NEW e \in Events, events'[e].status = "applied", Reversal(events'[e].msg)
        PROVE  \E c \in Cases : cases'[c].event = e
    <3>1. CASE events[e].status = "applied" /\ Reversal(events[e].msg)
      <4>1. PICK c \in Cases : cases[c].event = e
        BY <3>1 DEF WebhookInv, CasesOpened
      <4>2. cases[c] # NoCase
        BY <4>1, Typing
      <4> QED
        BY <1>9, <4>1, <4>2
    <3> QED
      BY <1>9, <2>3, <3>1
  <2> QED
    BY <2>1, <2>2, <2>3 DEF CasesOpened, Reversal
<1>13. RequestsSee'
  <2>1. /\ DOMAIN txn' = Workers
        /\ \A x \in Workers : txn'[x] # Idle => txn[x] # Idle /\ txn'[x] = [txn[x] EXCEPT !.stale = @ \cup o.wrote]
    BY <1>4 DEF Commits, Store
  <2>2. ASSUME NEW x \in Workers, txn'[x] # Idle PROVE (Sees(txn[x]) /\ Fits(txn[x]))'
    <3>1. txn[x] # Idle /\ txn'[x] = [txn[x] EXCEPT !.stale = @ \cup o.wrote]
      BY <2>1, <2>2
    <3>2. o.wrote \in SUBSET Rows
      BY <1>4 DEF Commits
    <3>3. more \in SUBSET Events /\ atOnce' = atOnce \cup more
      BY <1>10
    <3>4. \A e \in more : Kind[events'[e].msg] # "settlement" => SubRow \in o.wrote
      BY <1>10
    <3>5. /\ \A e \in Events : e \notin o.wrote => events'[e] = events[e]
          /\ \A c \in Cases : c \notin o.wrote => cases'[c] = cases[c]
      BY <1>9
    <3>6. \A c \in Cases : cases'[c] # NoCase /\ cases[c] = NoCase => cases'[c].event \in o.wrote
      BY <1>9
    <3>7. /\ \A e \in Events : events[e] # NoEvent => events'[e] # NoEvent /\ events'[e].msg = events[e].msg
          /\ \A c \in Cases : cases[c] # NoCase => cases'[c] # NoCase /\ cases'[c].event = cases[c].event
      BY <1>9
    <3> QED
      BY <3>1, <3>2, <3>3, <3>4, <3>5, <3>6, <3>7, OthersSee
  <2> QED
    BY <2>1, <2>2 DEF RequestsSee
<1>14. AppliedByOneDelivery'
  <2> SUFFICES ASSUME NEW a \in atOnce', NEW b \in atOnce', a # b, b \notin more,
                      Kind[events'[a].msg] # "settlement", Kind[events'[b].msg] # "settlement",
                      RefOf[events'[a].msg] # Nobody, RefOf[events'[a].msg] = RefOf[events'[b].msg]
               PROVE  FALSE
    BY <1>10 DEF AppliedByOneDelivery
  <2>1. b \in atOnce /\ b \in Events /\ events[b] # NoEvent /\ events'[b].msg = events[b].msg
    BY <1>9, <1>10 DEF WebhookInv, TablesTyped
  <2>2. CASE a \in atOnce
    <3>1. a \in Events /\ events'[a].msg = events[a].msg
      BY <1>9, <2>2 DEF WebhookInv, TablesTyped
    <3> QED
      BY <2>1, <2>2, <3>1 DEF WebhookInv, AppliedByOneDelivery
  <2>3. CASE a \in more
    <3>1. a = f /\ f # Nobody /\ SubRow \in o.wrote /\ events'[a].msg = t.job.arg
      BY <1>10, <2>3
    <3>2. SubRow \notin t.stale
      BY <1>4, <3>1 DEF Commits, Store, t
    <3>3. t.view.events[b] # NoEvent
      BY <1>1, <2>1, <3>2 DEF Sees
    <3>4. t.view.events[b].msg = events[b].msg
      BY <1>1, <2>1, <3>3 DEF Sees
    <3>5. b \in Existing(t.view, t.job.arg)
      BY <2>1, <3>1, <3>3, <3>4 DEF Existing, Same, Recorded
    <3> QED
      BY <1>4, <3>1, <3>5 DEF Commits, t
  <2> QED
    BY <1>10, <2>2, <2>3
<1> QED
  BY <1>11, <1>12, <1>13, <1>14 DEF WebhookInv

-----------------------------------------------------------------------------
LEMMA WebhookStarts == WebhookInit => WebhookInv
<1> SUFFICES ASSUME WebhookInit PROVE WebhookInv
  OBVIOUS
<1>1. \A e \in Events : events[e] = NoEvent
  BY DEF WebhookInit
<1>2. \A c \in Cases : cases[c] = NoCase
  BY DEF WebhookInit
<1>3. TablesTyped
  BY WebhookAssumption DEF WebhookInit, TablesTyped, Sub, SubStates
<1>4. CasesOpened
  BY <1>1, <1>2, Typing DEF CasesOpened
<1>5. RequestsSee /\ AppliedByOneDelivery
  BY DEF WebhookInit, RequestsSee, AppliedByOneDelivery
<1> QED
  BY <1>3, <1>4, <1>5 DEF WebhookInv

LEMMA StartKeeps ==
    ASSUME WebhookInv, NEW w \in Workers, NEW j \in Job, Begin(w, j),
           j.op \in {"apply", "reconcile", "mismatch", "case"} => events[j.arg] # NoEvent,
           j.op \in Decisions \cup {"finance"} => cases[j.arg] # NoCase
    PROVE  WebhookInv'
<1> DEFINE t == [job |-> j, view |-> Snapshot(j), stale |-> {}]
<1>1. Sees(t) /\ Fits(t)
  BY SnapshotSees
<1>2. txn' = [txn EXCEPT ![w] = t] /\ UNCHANGED <<sub, matched, events, cases, due, hist>>
  BY DEF Begin
<1> HIDE DEF t
<1> QED
  BY <1>1, <1>2, BeginKeeps

LEMMA RetryKeeps == ASSUME WebhookInv, NEW w \in Workers, Retry(w) PROVE WebhookInv'
<1> DEFINE j == txn[w].job
           t == [job |-> j, view |-> Snapshot(j), stale |-> {}]
<1>1. Sees(txn[w]) /\ Fits(txn[w])
  BY DEF WebhookInv, RequestsSee, Retry
<1>2. j \in Job
  BY <1>1 DEF Sees
<1>3. j.op \in {"apply", "reconcile", "mismatch", "case"} => events[j.arg] # NoEvent
  <2>1. ASSUME j.op \in {"apply", "reconcile", "mismatch", "case"} PROVE j.arg \in Events
    BY <1>2, <2>1 DEF Job, Decisions
  <2> QED
    BY <1>1, <2>1 DEF Sees, Fits
<1>4. j.op \in Decisions \cup {"finance"} => cases[j.arg] # NoCase
  <2>1. ASSUME j.op \in Decisions \cup {"finance"} PROVE j.arg \in Cases
    BY <1>2, <2>1 DEF Job, Decisions
  <2> QED
    BY <1>1, <2>1 DEF Sees, Fits
<1>5. txn' = [txn EXCEPT ![w] = t] /\ UNCHANGED <<sub, matched, events, cases, due, hist>>
  BY DEF Retry
<1> HIDE DEF j
<1>6. Sees(t) /\ Fits(t)
  BY <1>2, <1>3, <1>4, SnapshotSees
<1> HIDE DEF t
<1> QED
  BY <1>5, <1>6, BeginKeeps

LEMMA PressedKeeps ==
    ASSUME WebhookInv, NEW w \in Workers, NEW op \in {"apply", "reconcile", "mismatch", "case"}, NEW e \in Events,
           PressEvent(w, op, e)
    PROVE  WebhookInv'
<1> DEFINE j == [op |-> op, arg |-> e]
<1>1. j \in Job /\ Begin(w, j) /\ events[e] # NoEvent /\ j.arg = e /\ j.op \notin Decisions \cup {"finance"}
  BY DEF PressEvent, Job, Decisions
<1> HIDE DEF j
<1> QED
  BY <1>1, StartKeeps

LEMMA JudgedKeeps ==
    ASSUME WebhookInv, NEW w \in Workers, NEW d \in Decisions \cup {"finance"}, NEW c \in Cases, Judge(w, d, c)
    PROVE  WebhookInv'
<1> DEFINE j == [op |-> d, arg |-> c]
<1>1. /\ j \in Job /\ Begin(w, j) /\ cases[c] # NoCase /\ j.arg = c
      /\ j.op \notin {"apply", "reconcile", "mismatch", "case"}
  BY DEF Judge, Job, Decisions
<1> HIDE DEF j
<1> QED
  BY <1>1, StartKeeps

LEMMA NotifyKeeps == ASSUME WebhookInv, NEW w \in Workers, NEW m \in Msgs, Notify(w, m) PROVE WebhookInv'
<1> DEFINE j == [op |-> "deliver", arg |-> m]
<1>1. /\ j \in Job /\ Begin(w, j)
      /\ j.op \notin {"apply", "reconcile", "mismatch", "case"} /\ j.op \notin Decisions \cup {"finance"}
  BY DEF Notify, Job, Decisions
<1> HIDE DEF j
<1> QED
  BY <1>1, StartKeeps

LEMMA StillKeeps ==
    ASSUME WebhookInv, UNCHANGED <<sub, events, cases, due, txn, hist>>, matched' \in BOOLEAN
    PROVE  WebhookInv'
<1>1. TablesTyped' /\ CasesOpened' /\ AppliedByOneDelivery'
  BY DEF WebhookInv, TablesTyped, CasesOpened, AppliedByOneDelivery, hist
<1>2. RequestsSee'
  BY DEF WebhookInv, RequestsSee, Sees, Fits, hist
<1> QED
  BY <1>1, <1>2 DEF WebhookInv

LEMMA WebhookNextKeeps == WebhookInv /\ [WebhookNext]_webhookVars => WebhookInv'
<1> SUFFICES ASSUME WebhookInv, [WebhookNext]_webhookVars PROVE WebhookInv'
  OBVIOUS
<1>1. CASE Link
  BY <1>1, StillKeeps DEF Link
<1>2. ASSUME NEW w \in Workers, NEW m \in Msgs, Notify(w, m) PROVE WebhookInv'
  BY <1>2, NotifyKeeps
<1>3. ASSUME NEW w \in Workers, NEW op \in {"apply", "reconcile", "mismatch", "case"}, NEW e \in Events, PressEvent(w, op, e)
      PROVE  WebhookInv'
  BY <1>3, PressedKeeps
<1>4. ASSUME NEW w \in Workers, NEW d \in Decisions \cup {"finance"}, NEW c \in Cases, Judge(w, d, c) PROVE WebhookInv'
  BY <1>4, JudgedKeeps
<1>5. ASSUME NEW w \in Workers, Commit(w) PROVE WebhookInv'
  BY <1>5, CommitKeeps
<1>6. ASSUME NEW w \in Workers, Retry(w) PROVE WebhookInv'
  BY <1>6, RetryKeeps
<1>7. ASSUME NEW w \in Workers, Abort(w) PROVE WebhookInv'
  BY <1>7, BeginKeeps DEF Abort
<1>8. CASE UNCHANGED webhookVars
  BY <1>8, StillKeeps DEF webhookVars, WebhookInv, TablesTyped
<1> QED
  BY <1>1, <1>2, <1>3, <1>4, <1>5, <1>6, <1>7, <1>8 DEF WebhookNext

LEMMA WebhookInvariant == WebhookSpec => []WebhookInv
<1> QED
  BY WebhookStarts, WebhookNextKeeps, PTL DEF WebhookSpec

-----------------------------------------------------------------------------
LEMMA InvTypes == WebhookInv => WebhookTypeOK
<1> SUFFICES ASSUME WebhookInv PROVE WebhookTypeOK
  OBVIOUS
<1>1. db \in DbType
  BY DEF WebhookInv, TablesTyped, db, DbType
<1>2. atOnce \subseteq Recorded(db)
  BY DEF WebhookInv, TablesTyped, Recorded, db
<1>3. ASSUME NEW w \in Workers, txn[w] # Idle
      PROVE  txn[w].job \in Job /\ txn[w].view \in DbType /\ txn[w].stale \subseteq {SubRow} \cup Events \cup Cases
  BY <1>3 DEF WebhookInv, RequestsSee, Sees, Rows
<1> QED
  BY <1>1, <1>2, <1>3 DEF WebhookTypeOK, WebhookInv, TablesTyped

LEMMA InvOneCase == WebhookInv => OneCasePerReversal
<1> SUFFICES ASSUME WebhookInv, NEW e \in Recorded(db)
             PROVE  /\ Cardinality(CaseOf(db, e)) <= 1
                    /\ events[e].status = "applied" /\ Reversal(events[e].msg) => CaseOf(db, e) # {}
  BY DEF OneCasePerReversal
<1>1. e \in Events /\ CaseOf(db, e) = {c \in Cases : cases[c].event = e}
  BY DEF Recorded, CaseOf, db
<1>2. CASE CaseOf(db, e) = {}
  <2>1. Cardinality(CaseOf(db, e)) = 0
    BY <1>2, FS_EmptySet
  <2>2. ~(events[e].status = "applied" /\ Reversal(events[e].msg))
    BY <1>1, <1>2 DEF WebhookInv, CasesOpened
  <2> QED
    BY <2>1, <2>2
<1>3. CASE CaseOf(db, e) # {}
  <2>1. PICK c \in CaseOf(db, e) : TRUE
    BY <1>3
  <2>2. \A d \in CaseOf(db, e) : cases[d] # NoCase
    BY <1>1, Typing
  <2>3. CaseOf(db, e) = {c}
    BY <1>1, <2>1, <2>2 DEF WebhookInv, CasesOpened
  <2> QED
    BY <1>3, <2>3, FS_Singleton
<1> QED
  BY <1>2, <1>3

(* Rows, views and histories stay in their domains (WebhookTypeOK).         *)
THEOREM WebhookTyped == WebhookSpec => []WebhookTypeOK
<1> QED
  BY WebhookInvariant, InvTypes, PTL

(* A notification delivered any number of times, by any number of threads,  *)
(* is applied to the subscription by one delivery (AppliedByOneDelivery).   *)
THEOREM AppliedOnce == WebhookSpec => []AppliedByOneDelivery
<1>1. WebhookInv => AppliedByOneDelivery
  BY DEF WebhookInv
<1> QED
  BY <1>1, WebhookInvariant, PTL

(* A reversal has at most one case, and one if it was applied, whoever      *)
(* applies it and opens cases at the same time (OneCasePerReversal).        *)
THEOREM OneCase == WebhookSpec => []OneCasePerReversal
<1> QED
  BY WebhookInvariant, InvOneCase, PTL

(* A reference that tells reversals from the rest, as Stripe's event ids do. *)
RefsTell == \A m, n \in Msgs : RefOf[m] # Nobody /\ RefOf[m] = RefOf[n] => (Reversal(m) <=> Reversal(n))

(* With such references, a reversal that was answered with 200 is recorded  *)
(* (ReversalRecorded): the event that answered for it is one itself.        *)
THEOREM ReversalsRecorded == ASSUME RefsTell PROVE WebhookSpec => []ReversalRecorded
<1>1. WebhookInit => ReversalRecorded
  BY DEF WebhookInit, ReversalRecorded
<1>2. WebhookInv /\ ReversalRecorded /\ [WebhookNext]_webhookVars => ReversalRecorded'
  <2> SUFFICES ASSUME WebhookInv, ReversalRecorded, [WebhookNext]_webhookVars, NEW m \in acked', Reversal(m)
               PROVE  \E e \in Events : events'[e] # NoEvent /\ Reversal(events'[e].msg) /\ RefOf[events'[e].msg] = RefOf[m]
    BY DEF ReversalRecorded, Recorded, db
  <2>1. CASE m \in acked /\ \A e \in Events : events[e] # NoEvent => events'[e] # NoEvent /\ events'[e].msg = events[e].msg
    BY <2>1 DEF ReversalRecorded, Recorded, db
  <2>2. ASSUME NEW w \in Workers, Commit(w)
        PROVE  \E e \in Events : events'[e] # NoEvent /\ Reversal(events'[e].msg) /\ RefOf[events'[e].msg] = RefOf[m]
    <3> DEFINE t == txn[w]
    <3>1. PICK f \in Events \cup {Nobody} : \E o \in Effect(t.view, t.job, f) : Commits(w, f, o)
      BY <2>2, CommitWrites
    <3>2. PICK o \in Effect(t.view, t.job, f) : Commits(w, f, o)
      BY <3>1
    <3>3. \A e \in Events : events[e] # NoEvent => events'[e] # NoEvent /\ events'[e].msg = events[e].msg
      BY <3>2 DEF Commits, Written
    <3>4. CASE m \in acked
      BY <2>1, <3>3, <3>4
    <3>5. CASE m \notin acked
      <4>1. t.job.op = "deliver" /\ m = t.job.arg
        BY <2>2, <3>5 DEF Commit
      <4>2. Sees(t) /\ m \in Msgs
        BY <2>2, <4>1 DEF Commit, WebhookInv, RequestsSee, Sees, Job, Decisions
      <4>3. CASE f # Nobody
        BY <3>2, <4>1, <4>3 DEF Commits, Written
      <4>4. CASE f = Nobody
        <5>1. PICK e \in Existing(t.view, m) : TRUE
          BY <3>2, <4>1, <4>4 DEF Commits
        <5>2. e \in Events /\ t.view.events[e] # NoEvent /\ RefOf[m] # Nobody /\ RefOf[t.view.events[e].msg] = RefOf[m]
          BY <5>1 DEF Existing, Same, Recorded
        <5>3. events[e] # NoEvent /\ events[e].msg = t.view.events[e].msg /\ events[e].msg \in Msgs
          BY <4>2, <5>2 DEF Sees, WebhookInv, TablesTyped, Event
        <5>4. Reversal(events[e].msg)
          BY <4>2, <5>2, <5>3 DEF RefsTell
        <5> QED
          BY <3>3, <5>2, <5>3, <5>4
      <4> QED
        BY <4>3, <4>4
    <3> QED
      BY <3>4, <3>5
  <2>3. CASE UNCHANGED <<events, acked>>
    BY <2>1, <2>3
  <2>4. ASSUME NEW w \in Workers, NEW j, Begin(w, j) PROVE UNCHANGED <<events, acked>>
    BY <2>4 DEF Begin, hist
  <2> QED
    BY <2>2, <2>3, <2>4 DEF WebhookNext, webhookVars, hist, Link, Notify, PressEvent, Judge, Retry, Abort
<1> QED
  BY <1>1, <1>2, WebhookInvariant, PTL DEF WebhookSpec
===============================================================================
