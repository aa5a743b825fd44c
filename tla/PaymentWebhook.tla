--------------------------- MODULE PaymentWebhook ---------------------------
(***************************************************************************)
(* Payment notifications of one SaaS subscription: the provider delivers   *)
(* each at least once and in any order; tijara_from_payload records it as  *)
(* an event unless one with its reference exists, applies it to the        *)
(* subscription, and opens a dispute case for a refund or a chargeback.    *)
(* Operators apply events again and decide the cases.                      *)
(*                                                                         *)
(* A request is a PostgreSQL transaction at REPEATABLE READ.  Its reads    *)
(* are those of the snapshot in txn[w].view; its effect is computed when   *)
(* it commits, and it is run again on a new snapshot if somebody else      *)
(* committed a row it writes.  Inserts never conflict.                     *)
(***************************************************************************)
EXTENDS Naturals, FiniteSets

CONSTANTS Msgs,       \* the notifications the provider sends
          Refs,       \* event references
          RefOf,      \* RefOf[m]: what _provider_payload takes as m's reference
          Kind,       \* Kind[m]: payment_event_type
          Status,     \* Status[m]: what _normalize_payment_status makes of m's status
          Events,     \* ids of webhook event rows
          Cases,      \* ids of dispute case rows
          Workers,    \* server threads
          Offered,    \* a bound: the form buttons operators use
          Linked,     \* whether the subscription can be matched from the start
          Nobody

Kinds    == {"payment", "refund", "chargeback", "settlement", "unknown"}
Statuses == {"paid", "failed", "past_due", "refunded", "unknown"}

ASSUME WebhookAssumption ==
    /\ RefOf \in [Msgs -> Refs \cup {Nobody}]
    /\ Kind \in [Msgs -> Kinds]
    /\ Status \in [Msgs -> Statuses]
    /\ Linked \in BOOLEAN
    /\ Nobody \notin Msgs \cup Refs \cup Events \cup Cases \cup Workers

VARIABLES sub,       \* the subscription: state and payment_status, as payments change them
          matched,   \* the subscription the messages name exists by now
          events,    \* the webhook event table
          cases,     \* the dispute case table
          due,       \* the accounting actions created for cases: <<case, action_type>>
          txn,       \* txn[w]: the request worker w runs
          acked,     \* history: notifications answered with 200
          atOnce     \* history: events applied by the request that recorded them

db   == [sub |-> sub, matched |-> matched, events |-> events, cases |-> cases, due |-> due]
hist == <<acked, atOnce>>
webhookVars == <<sub, matched, events, cases, due, txn, hist>>

SubStates == {"draft", "trial", "active", "past_due", "suspended", "cancelled"}
Sub   == [state : SubStates, pay : {"not_invoiced", "paid", "past_due", "failed"}]
Event == [msg : Msgs, status : {"received", "applied", "failed"},
          recon : {"pending", "matched", "mismatch", "reconciled"},
          linked : BOOLEAN]           \* subscription_id is set
NoEvent == [msg |-> Nobody, status |-> "absent", recon |-> "pending", linked |-> FALSE]
Case  == [event : Events, linked : BOOLEAN, state : {"draft", "open", "evidence", "won", "lost", "refunded", "closed"}]
NoCase == [event |-> Nobody, linked |-> FALSE, state |-> "absent"]

CaseActions == {"refund_payment", "refund_credit_note", "chargeback_receivable", "write_off"}

DbType == [sub : Sub, matched : BOOLEAN, events : [Events -> Event \cup {NoEvent}],
           cases : [Cases -> Case \cup {NoCase}], due : SUBSET (Cases \X CaseActions)]

Decisions == {"evidence", "won", "lost", "refunded", "closed"}
Job == [op : {"deliver"}, arg : Msgs] \cup [op : {"apply", "reconcile", "mismatch", "case"}, arg : Events]
       \cup [op : Decisions \cup {"finance"}, arg : Cases]
Idle == [job |-> Nobody, view |-> Nobody, stale |-> {}]
SubRow == "subscription"

ASSUME RowsApart == Events \cap Cases = {} /\ SubRow \notin Events \cup Cases

-----------------------------------------------------------------------------
(* What a request does to the rows it sees. *)

Recorded(v) == {e \in Events : v.events[e] # NoEvent}
Same(v, m)  == {e \in Recorded(v) : RefOf[m] # Nobody /\ RefOf[v.events[e].msg] = RefOf[m]}
CaseOf(v, e) == {c \in Cases : v.cases[c].event = e}
Reversal(m)  == Kind[m] \in {"refund", "chargeback"}

(* action_apply, the values written to the subscription. *)
Applied(s, m) ==
    CASE Status[m] = "paid"       -> [state |-> "active", pay |-> "paid"]
      [] Status[m] # "paid" /\ Kind[m] = "chargeback" -> [state |-> "past_due", pay |-> "failed"]
      [] Status[m] \in {"failed", "past_due"} /\ Kind[m] # "chargeback" ->
            [state |-> IF s.state = "active" THEN "past_due" ELSE s.state, pay |-> Status[m]]
      [] Status[m] = "refunded" /\ Kind[m] # "chargeback" -> [state |-> "past_due", pay |-> "failed"]

Unknown(m) == Status[m] = "unknown" /\ Kind[m] # "chargeback"

PastDue == [state |-> "past_due", pay |-> "failed"]

(* A case for each time an event is applied (a fault). *)
AlwaysNeedsCase(v, e) == Reversal(v.events[e].msg)

NeedsCase(v, e) == Reversal(v.events[e].msg) /\ CaseOf(v, e) = {}

(* _ensure_dispute_case: a case is opened at once, which puts the           *)
(* subscription past due.  w holds the rows written.                        *)
WithCase(v, e, w) ==
    IF ~NeedsCase(v, e) THEN {[view |-> v, wrote |-> w]}
    ELSE {[view |-> [v EXCEPT !.cases[c] = [event |-> e, linked |-> v.events[e].linked, state |-> "open"],
                              !.sub = IF v.events[e].linked THEN PastDue ELSE v.sub],
           wrote |-> w \cup {c, e} \cup IF v.events[e].linked THEN {SubRow} ELSE {}] :
             c \in {c \in Cases : v.cases[c] = NoCase}}

ApplyEvent(v, e) ==
    LET m == v.events[e].msg
        Set(s, r) == [v EXCEPT !.events[e].status = s, !.events[e].recon = r]
    IN  IF Kind[m] = "settlement" THEN {[view |-> Set("applied", "pending"), wrote |-> {e}]}
        ELSE IF ~v.matched \/ Unknown(m) THEN {[view |-> Set("failed", "mismatch"), wrote |-> {e}]}
        ELSE WithCase([Set("applied", "matched") EXCEPT !.sub = Applied(v.sub, m), !.events[e].linked = TRUE],
                      e, {e, SubRow})

(* A delivery that does not look for an earlier event (a fault). *)
AlwaysCreate(v, m) == {}

(* A lookup by the provider alone (a fault). *)
AnyEvent(v, m) == Recorded(v)

(* The events a delivery of m is answered with instead of a new one. *)
Existing(v, m) == Same(v, m)

Deliver(v, m, e) ==
    IF Existing(v, m) # {} THEN {[view |-> v, wrote |-> {}]}
    ELSE ApplyEvent([v EXCEPT !.events[e] = [msg |-> m, status |-> "received", recon |-> "pending",
                                               linked |-> v.matched]], e)

(* The decision copied to the subscription as its payment status (a fault). *)
PayFollowsCase(v, c, d) ==
    [view |-> [v EXCEPT !.cases[c].state = d, !.sub = [state |-> "past_due", pay |-> d]], wrote |-> {c, SubRow}]

(* _accounting_action_specs: what a case in state st calls for.  The fee's  *)
(* action is left out with the amounts.                                     *)
ActionSpecs(v, c, st) ==
    LET kind == Kind[v.events[v.cases[c].event].msg]
    IN  {c} \X (IF kind = "refund" THEN {IF st = "refunded" THEN "refund_payment" ELSE "refund_credit_note"}
                ELSE {"chargeback_receivable"} \cup IF st = "lost" THEN {"write_off"} ELSE {})

(* The dispute form's buttons. *)
Decide(v, c, d) ==
    LET decided == [v EXCEPT !.cases[c].state = d,
                             !.due = IF d \in {"lost", "refunded"} THEN @ \cup ActionSpecs(v, c, d) ELSE @]
    IN  IF ~v.cases[c].linked \/ d \in {"evidence", "closed"} THEN [view |-> decided, wrote |-> {c}]
        ELSE [view |-> [decided EXCEPT !.sub = IF d = "won" THEN [state |-> "active", pay |-> "paid"]
                                               ELSE PastDue],
              wrote |-> {c, SubRow}]

(* Generate Finance Actions.  The case is written only when the approval     *)
(* status it shows changes.                                                  *)
Finance(v, c) ==
    [view |-> [v EXCEPT !.due = @ \cup ActionSpecs(v, c, v.cases[c].state)],
     wrote |-> IF \E t \in CaseActions : <<c, t>> \in v.due THEN {} ELSE {c}]

(* The outcomes of job j on view v; f is the id a new event would get. *)
Effect(v, j, f) ==
    CASE j.op = "deliver"   -> Deliver(v, j.arg, f)
      [] j.op = "apply"     -> ApplyEvent(v, j.arg)
      [] j.op = "case"      -> WithCase(v, j.arg, {})
      [] j.op = "reconcile" -> {[view |-> [v EXCEPT !.events[j.arg].recon = "reconciled"], wrote |-> {j.arg}]}
      [] j.op = "mismatch"  -> {[view |-> [v EXCEPT !.events[j.arg].recon = "mismatch"], wrote |-> {j.arg}]}
      [] j.op = "finance"   -> {Finance(v, j.arg)}
      [] j.op \in Decisions -> {Decide(v, j.arg, j.op)}

-----------------------------------------------------------------------------
(* Requests. *)

(* The accounting actions are only read by the request that generates them. *)
Snapshot(j) == [db EXCEPT !.due = IF j.op = "finance" THEN due ELSE {}]

Begin(w, j) ==
    /\ txn[w] = Idle
    /\ txn' = [txn EXCEPT ![w] = [job |-> j, view |-> Snapshot(j), stale |-> {}]]
    /\ UNCHANGED <<sub, matched, events, cases, due, hist>>

(* The provider sends a notification, for the first time or again. *)
Notify(w, m) == Begin(w, [op |-> "deliver", arg |-> m])

(* A form's button, shown for the state the record has. *)
PressEvent(w, op, e) ==
    /\ op \in Offered /\ events[e] # NoEvent
    /\ op = "apply" => events[e].status # "applied"
    /\ op = "case" => Reversal(events[e].msg)
    /\ op = "reconcile" => events[e].recon # "reconciled"
    /\ op = "mismatch" => events[e].recon # "mismatch"
    /\ Begin(w, [op |-> op, arg |-> e])

Judge(w, d, c) ==
    /\ d \in Offered /\ cases[c] # NoCase
    /\ d = "closed" => cases[c].state # "closed"
    /\ d \in {"evidence", "won", "lost", "refunded"} => cases[c].state \in {"open", "evidence"}
    /\ d = "refunded" => Kind[events[cases[c].event].msg] = "refund"
    /\ Begin(w, [op |-> d, arg |-> c])

(* Rows the transaction wrote replace the committed ones; the others stay.  *)
Merge(old, new, wrote) == [x \in DOMAIN old |-> IF x \in wrote THEN new[x] ELSE old[x]]

Store(w, o) ==
    /\ o.wrote \cap txn[w].stale = {}
    /\ events' = Merge(events, o.view.events, o.wrote)
    /\ cases'  = Merge(cases, o.view.cases, o.wrote)
    /\ due'    = due \cup o.view.due
    /\ sub'    = IF SubRow \in o.wrote THEN o.view.sub ELSE sub
    /\ txn'    = [x \in Workers |-> IF x = w \/ txn[x] = Idle THEN IF x = w THEN Idle ELSE txn[x]
                                    ELSE [txn[x] EXCEPT !.stale = @ \cup o.wrote]]

(* New ids are fresh in the table, not only in the snapshot; which one makes no *)
(* difference.                                                                 *)
Free(table, none) ==
    LET free == {x \in DOMAIN table : table[x] = none} IN IF free = {} THEN {} ELSE {CHOOSE x \in free : TRUE}

Commit(w) ==
    /\ txn[w] # Idle
    /\ \E f \in Free(events, NoEvent) \cup {Nobody} :
          /\ f = Nobody <=> ~(txn[w].job.op = "deliver" /\ Existing(txn[w].view, txn[w].job.arg) = {})
          /\ \E o \in Effect(txn[w].view, txn[w].job, f) :
                /\ \A c \in o.wrote \cap Cases :
                      txn[w].view.cases[c] = NoCase => c \in Free(cases, NoCase)
                /\ Store(w, o)
                /\ atOnce' = IF f # Nobody /\ o.view.events[f].status = "applied" THEN atOnce \cup {f} ELSE atOnce
    /\ acked' = IF txn[w].job.op = "deliver" THEN acked \cup {txn[w].job.arg} ELSE acked
    /\ UNCHANGED matched

(* "could not serialize access": run again from a new snapshot. *)
Retry(w) ==
    /\ txn[w] # Idle /\ txn[w].stale # {}
    /\ txn' = [txn EXCEPT ![w] = [job |-> txn[w].job, view |-> Snapshot(txn[w].job), stale |-> {}]]
    /\ UNCHANGED <<sub, matched, events, cases, due, hist>>

Abort(w) ==
    /\ txn[w] # Idle
    /\ txn' = [txn EXCEPT ![w] = Idle]
    /\ UNCHANGED <<sub, matched, events, cases, due, hist>>

(* The subscription the messages name is provisioned. *)
Link == /\ ~matched /\ matched' = TRUE
        /\ UNCHANGED <<sub, events, cases, due, txn, hist>>

WebhookInit ==
    /\ sub = [state |-> "active", pay |-> "not_invoiced"]
    /\ matched = Linked
    /\ events = [e \in Events |-> NoEvent]
    /\ cases = [c \in Cases |-> NoCase]
    /\ due = {}
    /\ txn = [w \in Workers |-> Idle]
    /\ acked = {} /\ atOnce = {}

WebhookNext ==
    \/ Link
    \/ \E w \in Workers : \/ \E m \in Msgs : Notify(w, m)
                          \/ \E op \in {"apply", "reconcile", "mismatch", "case"}, e \in Events : PressEvent(w, op, e)
                          \/ \E d \in Decisions \cup {"finance"}, c \in Cases : Judge(w, d, c)
                          \/ Commit(w) \/ Retry(w) \/ Abort(w)

WebhookSpec == WebhookInit /\ [][WebhookNext]_webhookVars

-----------------------------------------------------------------------------
(* Properties *)

(* Rows and requests stay in their domains. *)
WebhookTypeOK ==
    /\ db \in DbType
    /\ acked \subseteq Msgs /\ atOnce \subseteq Recorded(db)
    /\ \A w \in Workers : txn[w] = Idle \/ /\ txn[w].job \in Job
                                            /\ txn[w].view \in DbType
                                            /\ txn[w].stale \subseteq {SubRow} \cup Events \cup Cases

(* A notification delivered twice, even at the same time, is applied to the *)
(* subscription by one delivery: there is no unique index, but both         *)
(* requests write the subscription.  A second event of the reference needs  *)
(* an operator's Apply.  A settlement is not applied to the subscription.   *)
AppliedByOneDelivery ==
    \A e1, e2 \in atOnce :
        /\ e1 # e2 /\ Kind[events[e1].msg] # "settlement" /\ Kind[events[e2].msg] # "settlement"
        => \/ RefOf[events[e1].msg] = Nobody
           \/ RefOf[events[e1].msg] # RefOf[events[e2].msg]

(* A refund or a chargeback that was applied has one dispute case.          *)
OneCasePerReversal ==
    \A e \in Recorded(db) :
        /\ Cardinality(CaseOf(db, e)) <= 1
        /\ events[e].status = "applied" /\ Reversal(events[e].msg) => CaseOf(db, e) # {}

(* A refund or chargeback the provider was told we have is recorded.        *)
ReversalRecorded ==
    \A m \in acked : Reversal(m) =>
        \E e \in Recorded(db) : Reversal(events[e].msg) /\ RefOf[events[e].msg] = RefOf[m]
=============================================================================
