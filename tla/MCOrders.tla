----------------------------- MODULE MCOrders --------------------------------
(***************************************************************************)
(* Instances, for TLC, of the modules around an order in a shop: the kiosk,  *)
(* the invoices for the tax authority and the deliveries.  They share no     *)
(* state; "focus" says which one a behaviour is of, and the others stay as   *)
(* they start.  Two attempts make a delivery request fail once and then      *)
(* exhaust it.                                                              *)
(***************************************************************************)
EXTENDS Kiosk, FbrQueue, Delivery

VARIABLE focus

commerceVars == <<kioskVars, fbrVars, deliveryVars, focus>>

KioskFixed ==
    /\ profile = [autoPos |-> FALSE, autoTicket |-> FALSE, capture |-> "pay_at_counter", blocked |-> FALSE]
    /\ kiosk.payment = "pay_at_counter"

MCInit ==
    /\ focus \in {"kiosk", "fbr", "delivery"}
    /\ KioskInit /\ (focus # "kiosk" => KioskFixed)
    /\ FbrInit /\ DeliveryInit

MCNext ==
    \/ focus = "kiosk" /\ KioskNext /\ UNCHANGED <<fbrVars, deliveryVars, focus>>
    \/ focus = "fbr" /\ FbrNext /\ UNCHANGED <<kioskVars, deliveryVars, focus>>
    \/ focus = "delivery" /\ DeliveryNext /\ UNCHANGED <<kioskVars, fbrVars, focus>>

Fbr(A) == focus = "fbr" /\ A /\ UNCHANGED <<kioskVars, deliveryVars, focus>>

Deliver(A) == focus = "delivery" /\ A /\ UNCHANGED <<kioskVars, fbrVars, focus>>

MCSpec ==
    /\ MCInit /\ [][MCNext]_commerceVars
    /\ WF_commerceVars(Fbr(JobStarts))
    /\ \A w \in Workers, r \in Ids : WF_commerceVars(Fbr(\E outcome \in Outcomes : Send(w, r, outcome)))
    /\ \A w \in Workers : WF_commerceVars(Fbr(Finish(w)))
    /\ WF_commerceVars(Deliver(RunDueRetries)) /\ WF_commerceVars(Deliver(RunSlaMonitor))
    /\ \A r \in 1 .. MaxQueued : WF_commerceVars(Deliver(FallDue(r)))

(* Every record, order, request, exception and form stays in its domain. *)
OrdersTypeOK == KioskTypeOK /\ FbrTypeOK /\ DeliveryTypeOK
==============================================================================
