---------------------------- MODULE OrderLedger ----------------------------
(***************************************************************************)
(* What the offline queue promises about the books, without saying how: a  *)
(* row of the queue is turned into a POS order only while no order of it   *)
(* is in force, and an order only stops being in force because somebody    *)
(* reopened the row.  OfflineQueue implements this specification.          *)
(***************************************************************************)
EXTENDS Naturals

CONSTANT Rows          \* the rows the queue table may hold

VARIABLES orders,      \* orders[r]: POS orders created from row r so far
          reopened     \* reopened[r]: how often a booked row was taken back

ledgerVars == <<orders, reopened>>

InForce(r) == orders[r] > reopened[r]

Init == /\ orders = [r \in Rows |-> 0]
        /\ reopened = [r \in Rows |-> 0]

(* One transaction may book several rows, each of them not in force. *)
Book(S) ==
    /\ \A r \in S : ~InForce(r)
    /\ orders' = [r \in Rows |-> IF r \in S THEN orders[r] + 1 ELSE orders[r]]
    /\ UNCHANGED reopened

(* Rows in force are taken back; their orders stay in the books. *)
Reopen(S) ==
    /\ \A r \in S : InForce(r)
    /\ reopened' = [r \in Rows |-> IF r \in S THEN reopened[r] + 1 ELSE reopened[r]]
    /\ UNCHANGED orders

Next == \E S \in SUBSET Rows : Book(S) \/ Reopen(S)

Spec == Init /\ [][Next]_ledgerVars
=============================================================================
