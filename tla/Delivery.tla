------------------------------- MODULE Delivery -------------------------------
(***************************************************************************)
(* The deliveries of an online shop: the shipment of each order, the       *)
(* requests queued for the courier's interface and tried again with a      *)
(* backoff, the exceptions raised for an operator, and the two scheduled   *)
(* jobs (the retry queue's and the SLA monitor's).                         *)
(*                                                                         *)
(* The unit of step is a transaction: a button, a notification of the      *)
(* courier, or one run of a job.  A clock reading is modelled by what it   *)
(* decides: a shipment is late once its deadline passed, a waiting request *)
(* is due once its backoff passed.  Left out: the payloads, the events     *)
(* that record each step, and the adapter state, which no step reads.  The *)
(* views' conditions on buttons are guards.                                *)
(***************************************************************************)
EXTENDS Naturals, Sequences, FiniteSets

CONSTANTS Orders,       \* orders to be delivered, of one channel with one provider
          NoOrder,      \* the order of a request that names none (a manifest's)
          MaxAttempts,  \* retry_max_attempts
          MaxQueued,    \* a bound: requests queued
          MaxHandled    \* a bound: times operators handle exceptions

ASSUME DeliveryAssumption ==
    /\ NoOrder \notin Orders
    /\ MaxAttempts \in Nat \ {0} /\ MaxQueued \in Nat /\ MaxHandled \in Nat

VARIABLES provider,  \* "none" until one is configured, then how it is reached
          shipment,  \* shipment[o]: [status, sla, late], late: the deadline is past
          queue,     \* the queued requests, [for, state, attempts]
          cases,     \* cases[o][c]: states of the exceptions raised, oldest first
          handled

deliveryVars == <<provider, shipment, queue, cases, handled>>

Modes      == {"assumed", "http_json"}
Statuses   == {"not_required", "pending", "assigned", "picked", "out_for_delivery",
               "delivered", "failed", "cancelled"}
SlaStates  == {"not_started", "on_track", "breached", "resolved", "cancelled"}
Categories == {"sla_breach", "failed_delivery", "webhook_error", "retry_exhausted"}
CaseStates == {"open", "acknowledged", "resolved", "ignored"}

(* "pending" is split: a "waiting" request has next_attempt_at in the future, *)
(* a "due" one in the past.  A failed request stays due.  Attempts beyond the  *)
(* maximum are alike.                                                          *)
Request == [for : Orders \cup {NoOrder},
            state : {"waiting", "due", "done", "failed", "cancelled"},
            attempts : 0 .. MaxAttempts]

InState(r, states) == r \in DOMAIN queue /\ queue[r].state \in states
Pending(r) == InState(r, {"waiting", "due"})
Active(s)  == s \in {"open", "acknowledged"}
Capped(n)  == IF n > MaxAttempts THEN MaxAttempts ELSE n

-----------------------------------------------------------------------------
(* create_for_order finds an exception that is still open only (a fault). *)
FoundOpen(os, c) == {o \in os : \E i \in DOMAIN cases[o][c] : cases[o][c][i] = "acknowledged"}

(* The orders that already have an open or acknowledged exception of category c. *)
Found(os, c) == {o \in os : \E i \in DOMAIN cases[o][c] : Active(cases[o][c][i])}

(* create_for_order for each of some orders: one that is found is only updated. *)
Raised(os, c) ==
    [o \in Orders |-> IF o \in os \ Found(os, c)
                      THEN [cases[o] EXCEPT ![c] = Append(@, "open")] ELSE cases[o]]

Exhausted(q) == q.attempts + 1 >= MaxAttempts

(* _mark_failed, up to the exception it raises. *)
Failed(q) == [q EXCEPT !.state    = IF Exhausted(q) THEN "failed" ELSE "waiting",
                       !.attempts = Capped(q.attempts + 1)]

Done(q) == [q EXCEPT !.state = "done", !.attempts = Capped(q.attempts + 1)]

(* Every exhausted request of an order raises an exception (a manifest has none). *)
Report(before, tried) ==
    Raised({before[r].for : r \in {r \in tried : Exhausted(before[r])}} \ {NoOrder}, "retry_exhausted")

(* _queue_retry_if_needed: only a provider reached over HTTP has a queue. *)
Queued(o) == IF provider = "http_json"
             THEN Append(queue, [for |-> o, state |-> "waiting", attempts |-> 0]) ELSE queue

HasRoom == provider = "http_json" => Len(queue) < MaxQueued

-----------------------------------------------------------------------------
Configure(mode) ==
    /\ provider = "none"
    /\ provider' = mode
    /\ UNCHANGED <<shipment, queue, cases, handled>>

Ship(o) ==
    /\ HasRoom
    /\ shipment' = [shipment EXCEPT ![o] = [status |-> "assigned", sla |-> "on_track", late |-> FALSE]]
    /\ queue' = Queued(o)
    /\ UNCHANGED <<provider, cases, handled>>

(* Prepare Delivery, and the end of a checkout. *)
Prepare(o) ==
    IF provider # "none" THEN Ship(o)
    ELSE /\ shipment' = [shipment EXCEPT ![o].status = "pending"]
         /\ UNCHANGED <<provider, queue, cases, handled>>

CreateShipment(o) == provider # "none" /\ Ship(o)

CancelShipment(o) ==
    /\ provider # "none" /\ HasRoom
    /\ shipment[o].status \notin {"cancelled", "not_required", "pending"}
    /\ shipment' = [shipment EXCEPT ![o].status = "cancelled", ![o].sla = "cancelled"]
    /\ queue' = Queued(o)
    /\ UNCHANGED <<provider, cases, handled>>

GenerateLabel(o) ==
    /\ provider # "none" /\ HasRoom /\ shipment[o].sla # "not_started"
    /\ queue' = Queued(o)
    /\ UNCHANGED <<provider, shipment, cases, handled>>

(* The manifest's request names its orders in its payload, not in its order field. *)
CreateManifest ==
    /\ provider # "none" /\ HasRoom /\ \E o \in Orders : shipment[o].sla # "not_started"
    /\ queue' = Queued(NoOrder)
    /\ UNCHANGED <<provider, shipment, cases, handled>>

MarkPicked(o) ==
    /\ shipment[o].status \in {"assigned", "pending"}
    /\ shipment' = [shipment EXCEPT ![o].status = "picked"]
    /\ UNCHANGED <<provider, queue, cases, handled>>

MarkOut(o) ==
    /\ shipment[o].status \in {"assigned", "picked"}
    /\ shipment' = [shipment EXCEPT ![o].status = "out_for_delivery"]
    /\ UNCHANGED <<provider, queue, cases, handled>>

(* An operator's Mark Delivered closes the order's exceptions. *)
MarkDelivered(o) ==
    LET closed(s) == [i \in DOMAIN s |-> IF Active(s[i]) THEN "resolved" ELSE s[i]]
    IN  /\ shipment[o].status # "delivered" /\ handled < MaxHandled
        /\ shipment' = [shipment EXCEPT ![o].status = "delivered", ![o].sla = "resolved"]
        /\ cases' = [cases EXCEPT ![o] = [c \in Categories |-> closed(cases[o][c])]]
        /\ handled' = handled + 1
        /\ UNCHANGED <<provider, queue>>

-----------------------------------------------------------------------------
(* tijara_process_webhook with a good signature: whatever the order's status is. *)
Notify(o, status) ==
    /\ shipment[o].sla # "not_started"
    /\ shipment' = [shipment EXCEPT ![o].status = status,
                                    ![o].sla = IF status \in {"delivered", "cancelled"} THEN "resolved" ELSE @]
    /\ cases' = IF status = "failed" THEN Raised({o}, "failed_delivery") ELSE cases
    /\ UNCHANGED <<provider, queue, handled>>

(* With a bad one. *)
NotifyUnsigned(o) ==
    /\ shipment[o].sla # "not_started"
    /\ cases' = Raised({o}, "webhook_error")
    /\ UNCHANGED <<provider, shipment, queue, handled>>

-----------------------------------------------------------------------------
(* The clock: the backoff of request r ends, the deadline of o passes. *)
FallDue(r) ==
    /\ r \in DOMAIN queue /\ queue[r].state = "waiting"
    /\ queue' = [queue EXCEPT ![r].state = "due"]
    /\ UNCHANGED <<provider, shipment, cases, handled>>

Overrun(o) ==
    /\ shipment[o].sla # "not_started" /\ ~shipment[o].late
    /\ shipment' = [shipment EXCEPT ![o].late = TRUE]
    /\ UNCHANGED <<provider, queue, cases, handled>>

(* Jobs that search for one of the two states (faults). *)
OnlyPending == {r \in DOMAIN queue : queue[r].state = "due"}
OnlyFailed  == {r \in DOMAIN queue : queue[r].state = "failed"}

DueRequests == {r \in DOMAIN queue : queue[r].state \in {"due", "failed"}}

(* run_due_retries; the courier accepts the requests in "accepted". *)
RunDueRetries ==
    \E accepted \in SUBSET DueRequests :
        LET spent == {r \in DueRequests : queue[r].attempts >= MaxAttempts}
            tried == DueRequests \ (accepted \ spent)
        IN  /\ queue' = [r \in DOMAIN queue |-> IF r \notin DueRequests THEN queue[r]
                                                ELSE IF r \in tried THEN Failed(queue[r]) ELSE Done(queue[r])]
            /\ cases' = Report(queue, tried)
            /\ UNCHANGED <<provider, shipment, handled>>

(* Run Now, on a request in any state: one that is cancelled only becomes due. *)
RunNow(r) ==
    /\ queue[r].state # "cancelled"
    /\ \/ queue' = [queue EXCEPT ![r] = Done(queue[r])] /\ UNCHANGED cases
       \/ queue' = [queue EXCEPT ![r] = Failed(queue[r])] /\ cases' = Report(queue, {r})
    /\ UNCHANGED <<provider, shipment, handled>>

Cancel(r) ==
    /\ queue' = [queue EXCEPT ![r].state = "cancelled"]
    /\ UNCHANGED <<provider, shipment, cases, handled>>

Fresh(q) == [q EXCEPT !.state = "due", !.attempts = 0]

Reset(r) ==
    /\ queue' = [queue EXCEPT ![r] = Fresh(queue[r])]
    /\ UNCHANGED <<provider, shipment, cases, handled>>

-----------------------------------------------------------------------------
(* A monitor that looks at shipments on their way only (a fault). *)
MonitoredOnRoad == {o \in Orders : shipment[o].late /\ shipment[o].status \in {"assigned", "picked", "out_for_delivery"}}

Monitored == {o \in Orders : /\ shipment[o].late
                             /\ shipment[o].status \notin {"delivered", "cancelled", "not_required"}}

(* run_sla_monitor: an order whose exception is found keeps the SLA state it shows. *)
RunSlaMonitor ==
    /\ cases' = Raised(Monitored, "sla_breach")
    /\ shipment' = [o \in Orders |-> IF o \in Monitored \ Found(Monitored, "sla_breach")
                                     THEN [shipment[o] EXCEPT !.sla = "breached"] ELSE shipment[o]]
    /\ UNCHANGED <<provider, queue, handled>>

(* An exception's buttons, none of which asks in what state it is. *)
Acknowledge(o, c, i) ==
    /\ handled < MaxHandled /\ handled' = handled + 1
    /\ cases' = [cases EXCEPT ![o][c][i] = "acknowledged"]
    /\ UNCHANGED <<provider, shipment, queue>>

(* Closed without telling the order (a fault). *)
Untold(o) == shipment

Told(o) == [shipment EXCEPT ![o].sla = "resolved"]

Resolve(o, c, i) ==
    /\ handled < MaxHandled /\ handled' = handled + 1
    /\ cases' = [cases EXCEPT ![o][c][i] = "resolved"]
    /\ shipment' = Told(o)
    /\ UNCHANGED <<provider, queue>>

Ignore(o, c, i) ==
    /\ handled < MaxHandled /\ handled' = handled + 1
    /\ cases' = [cases EXCEPT ![o][c][i] = "ignored"]
    /\ UNCHANGED <<provider, shipment, queue>>

-----------------------------------------------------------------------------
DeliveryInit ==
    /\ provider = "none"
    /\ shipment = [o \in Orders |-> [status |-> "not_required", sla |-> "not_started", late |-> FALSE]]
    /\ queue = <<>>
    /\ cases = [o \in Orders |-> [c \in Categories |-> <<>>]]
    /\ handled = 0

OfOrder(o) ==
    \/ Prepare(o) \/ CreateShipment(o) \/ CancelShipment(o) \/ GenerateLabel(o)
    \/ MarkPicked(o) \/ MarkOut(o) \/ MarkDelivered(o)
    \/ \E status \in Statuses \ {"not_required", "pending"} : Notify(o, status)
    \/ NotifyUnsigned(o) \/ Overrun(o)
    \/ \E c \in Categories : \E i \in DOMAIN cases[o][c] :
           Acknowledge(o, c, i) \/ Resolve(o, c, i) \/ Ignore(o, c, i)

OfRequest(r) == FallDue(r) \/ RunNow(r) \/ Cancel(r) \/ Reset(r)

DeliveryNext ==
    \/ \E mode \in Modes : Configure(mode)
    \/ \E o \in Orders : OfOrder(o)
    \/ \E r \in DOMAIN queue : OfRequest(r)
    \/ CreateManifest
    \/ RunDueRetries
    \/ RunSlaMonitor

(* Both jobs are scheduled records and always run again; a backoff ends. *)
DeliveryFairness ==
    /\ WF_deliveryVars(RunDueRetries) /\ WF_deliveryVars(RunSlaMonitor)
    /\ \A r \in 1 .. MaxQueued : WF_deliveryVars(FallDue(r))

DeliverySpec == DeliveryInit /\ [][DeliveryNext]_deliveryVars /\ DeliveryFairness

-----------------------------------------------------------------------------
DeliveryTypeOK ==
    /\ provider \in Modes \cup {"none"}
    /\ shipment \in [Orders -> [status : Statuses, sla : SlaStates, late : BOOLEAN]]
    /\ queue \in Seq(Request)
    /\ \A o \in Orders : \A c \in Categories : cases[o][c] \in Seq(CaseStates)
    /\ handled \in 0 .. MaxHandled

(* create_for_order never leaves an order with two exceptions of a category *)
(* that nobody has looked at, whoever raises them: jobs, notifications or   *)
(* the queue.                                                               *)
OneOpenException ==
    \A o \in Orders, c \in Categories :
        Cardinality({i \in DOMAIN cases[o][c] : cases[o][c][i] = "open"}) <= 1

(* An order that shows its SLA as breached has an exception that says so    *)
(* and that nobody resolved.                                                *)
BreachExplained ==
    \A o \in Orders : shipment[o].sla = "breached" =>
        \E i \in DOMAIN cases[o]["sla_breach"] : cases[o]["sla_breach"][i] # "resolved"

HasCase(o, c) == o \in Found({o}, c)

(* A queued request is done, failed or cancelled in the end, if an operator *)
(* does not reset it for ever.                                              *)
RequestsSettle ==
    \A r \in 1 .. MaxQueued :
        \/ []<><<Reset(r)>>_queue
        \/ Pending(r) ~> ~Pending(r)

Spent(r, o) == InState(r, {"failed"}) /\ queue[r].for = o

(* An exhausted request of an order is on an operator's list in the end, and *)
(* is put there again when its exception was closed and the request left.    *)
ExhaustionReported ==
    \A r \in 1 .. MaxQueued, o \in Orders :
        Spent(r, o) ~> (~Spent(r, o) \/ HasCase(o, "retry_exhausted"))

Overdue(o) == shipment[o].late /\ shipment[o].status \notin {"delivered", "cancelled"}

(* An order past its deadline that is neither delivered nor cancelled is     *)
(* noticed, also after an earlier exception about it was closed.             *)
OverdueNoticed == \A o \in Orders : Overdue(o) ~> (~Overdue(o) \/ HasCase(o, "sla_breach"))
==============================================================================
