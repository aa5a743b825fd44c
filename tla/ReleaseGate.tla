------------------------------ MODULE ReleaseGate ------------------------------
(***************************************************************************)
(* What a release gate promises: pieces of evidence are handed in, each     *)
(* once, and when all are there one decision is made that is no better than *)
(* the worst of them.  It is final, and nothing that it rests on is written *)
(* again.                                                                   *)
(***************************************************************************)
CONSTANT Pieces

VARIABLES standing,  \* standing[p]: "open" until p is handed in
          outcome    \* "open", then the decision, or "none" if it was lost

gateVars == <<standing, outcome>>

Standings == {"clean", "warned", "failed"}

GateInit == standing \in [Pieces -> Standings \cup {"open"}] /\ outcome = "open"

HandIn(p) ==
    /\ outcome = "open" /\ standing[p] = "open"
    /\ standing'[p] \in Standings /\ standing' = [standing EXCEPT ![p] = standing'[p]]
    /\ UNCHANGED outcome

Allowed(decision) ==
    CASE decision = "promotion_ready" -> \A p \in Pieces : standing[p] = "clean"
      [] decision = "watch"           -> \A p \in Pieces : standing[p] # "failed"
      [] OTHER                        -> TRUE

Decide ==
    /\ outcome = "open" /\ \A p \in Pieces : standing[p] # "open"
    /\ \E d \in {"promotion_ready", "watch", "blocked", "none"} : Allowed(d) /\ outcome' = d
    /\ UNCHANGED standing

GateNext == Decide \/ \E p \in Pieces : HandIn(p)

GateSpec == GateInit /\ [][GateNext]_gateVars
===============================================================================
