------------------------------ MODULE MCBusiness ------------------------------
(***************************************************************************)
(* Instances, for TLC, of the modules about what customers and tenants owe  *)
(* and get: subscription billing, payment notifications, settlement batches *)
(* and the storefront.  They share no state and no step; "focus" says which *)
(* one a behaviour is of, and the others stay as they start.                *)
(***************************************************************************)
EXTENDS SaasSubscription, PaymentWebhook, PaymentSettlement, Storefront

CONSTANTS payout, refund, pay1, dispute1, ref1, ref2

VARIABLE focus

LeanSpecs == [l \in Lines |-> IF l = refund THEN {"refund_credit_note"} ELSE {"payout_clearing"}]

(* A payment and a chargeback of it; Stripe gives every event an id of its own. *)
MCKind   == [m \in Msgs |-> IF m = dispute1 THEN "chargeback" ELSE "payment"]
MCStatus == [m \in Msgs |-> IF m = dispute1 THEN "failed" ELSE "paid"]
OwnRefs  == [m \in Msgs |-> IF m = dispute1 THEN ref2 ELSE ref1]

(* Channels that do everything by themselves, with and without a courier that *)
(* is ready, and one where staff do everything.                               *)
StoreCases ==
    /\ shop.confirms = shop.queues /\ shop.approves = ~shop.confirms
    /\ IF shop.confirms THEN shop.courier \in {"ready", "unready"} ELSE shop.courier = "none"

StoreFixed == shop.confirms = FALSE

MCInit ==
    /\ focus \in {"subscription", "webhook", "settlement", "store"}
    /\ Init /\ WebhookInit /\ SettlementInit
    /\ StoreInit /\ StoreCases /\ (focus # "store" => StoreFixed)

MCNext ==
    \/ focus = "subscription" /\ Next /\ UNCHANGED <<webhookVars, settlementVars, storeVars, focus>>
    \/ focus = "webhook" /\ WebhookNext /\ UNCHANGED <<vars, settlementVars, storeVars, focus>>
    \/ focus = "settlement" /\ SettlementNext /\ UNCHANGED <<vars, webhookVars, storeVars, focus>>
    \/ focus = "store" /\ StoreNext /\ UNCHANGED <<vars, webhookVars, settlementVars, focus>>

(* Fields, dates, rows, states, approvals and orders stay in their domains. *)
BusinessTypeOK == SubscriptionTypeOK /\ WebhookTypeOK /\ SettlementTypeOK /\ StoreTypeOK

MCSpec == MCInit /\ [][MCNext]_<<vars, webhookVars, settlementVars, storeVars, focus>>
===============================================================================
