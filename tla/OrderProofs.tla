------------------------------ MODULE OrderProofs ------------------------------
(***************************************************************************)
(* Proofs about the orders of a shop, for every value of the constants: the *)
(* kiosk (Kiosk), for every number of staff and whatever forms they have    *)
(* open; the invoices (FbrQueue), for every number of orders, records and   *)
(* stops; and the exceptions of deliveries (Delivery), for every number of  *)
(* orders, requests and interventions.                                     *)
(*                                                                         *)
(* Points, tickets and POS orders are given by a submission, which tests   *)
(* that the order is a draft.  But the steps that follow it are offered by *)
(* what a form shows, not by the order.  So what must be inductive speaks  *)
(* of forms: one that shows a submitted order was loaded after the points  *)
(* were awarded and after the POS order was made or had failed (KioskInv).  *)
(*                                                                         *)
(* What SubmittedKnown says of rows and receipts that are committed needs  *)
(* to be known of the submissions still in the middle: what one of them has *)
(* counted as answered is already at the authority, and the rows it will    *)
(* write are still those it has read or newer ones of the same order        *)
(* (FbrInv).                                                               *)
(*                                                                         *)
(* OneOpenException counts; it is proved from OpenIsOne, which says the     *)
(* same of positions.  What keeps it is that no button reopens an exception *)
(* and that one is added only where none is open or acknowledged            *)
(* (RaisedFacts, DeliveryInv).                                             *)
(***************************************************************************)
EXTENDS MCOrders, FiniteSetTheorems, WellFoundedInduction, TLAPS

(* An order that is past its draft and was not cancelled.                   *)
Submitted(state) == state \notin {"draft", "cancelled"}

(* The inductive invariant.                                                *)
KioskInv ==
    /\ KioskTypeOK /\ AwardedOnce /\ PosOrderLinked
    /\ kiosk.state = "draft" => made.awards = 0 /\ made.tickets = 0
    /\ \A w \in Staff : Submitted(form[w].state) =>
          made.awards = 1 /\ (profile.autoPos => kiosk.synced \/ kiosk.failed)

Counts == [tickets : Nat, posOrders : Nat, payments : Nat, awards : Nat]

(* A POS order comes with one payment or none and leaves tickets and points alone. *)
LEMMA PosOrderCounts ==
    ASSUME NEW n \in Counts
    PROVE  /\ WithPosOrder(n) \in Counts
           /\ WithPosOrder(n).posOrders = n.posOrders + 1
           /\ WithPosOrder(n).payments \in {n.payments, n.payments + 1}
           /\ WithPosOrder(n).tickets = n.tickets /\ WithPosOrder(n).awards = n.awards
<1> DEFINE p == IF RecordsPayment THEN n.payments + 1 ELSE n.payments
<1>1. WithPosOrder(n) = [n EXCEPT !.posOrders = n.posOrders + 1, !.payments = p]
  BY DEF WithPosOrder
<1>2. p \in {n.payments, n.payments + 1} /\ p \in Nat /\ n.posOrders + 1 \in Nat
  BY DEF Counts
<1> HIDE DEF p
<1> QED
  BY <1>1, <1>2 DEF Counts

(* A submission awards once and gives one ticket or none. *)
LEMMA TicketCounts ==
    ASSUME NEW n \in Counts
    PROVE  /\ WithTicket(n) \in Counts
           /\ WithTicket(n).tickets \in {n.tickets, n.tickets + 1}
           /\ WithTicket(n).awards = n.awards + 1
           /\ WithTicket(n).posOrders = n.posOrders /\ WithTicket(n).payments = n.payments
<1> DEFINE t == IF profile.autoTicket THEN n.tickets + 1 ELSE n.tickets
<1>1. WithTicket(n) = [n EXCEPT !.tickets = t, !.awards = n.awards + 1]
  BY DEF WithTicket
<1>2. t \in {n.tickets, n.tickets + 1} /\ t \in Nat /\ n.awards + 1 \in Nat
  BY DEF Counts
<1> HIDE DEF t
<1> QED
  BY <1>1, <1>2 DEF Counts

LEMMA KioskStarts == KioskInit => KioskInv
<1> SUFFICES ASSUME KioskInit PROVE KioskInv
  OBVIOUS
<1>1. kiosk \in KioskRow /\ kiosk.state = "draft" /\ kiosk.synced = FALSE
  BY DEF KioskInit, KioskRow, KioskStates
<1>2. \A w \in Staff : form[w] = Shown(kiosk)
  BY DEF KioskInit
<1>3. form \in [Staff -> Form]
  BY <1>1 DEF KioskInit, Form, Shown, KioskRow
<1>4. KioskTypeOK
  BY <1>1, <1>3 DEF KioskInit, KioskTypeOK, Exists
<1>5. AwardedOnce /\ PosOrderLinked
  BY <1>1 DEF KioskInit, AwardedOnce, PosOrderLinked
<1> QED
  BY <1>1, <1>2, <1>4, <1>5 DEF KioskInit, KioskInv, Submitted, Shown

LEMMA AdvanceKeeps ==
    ASSUME KioskInv, NEW w \in Staff, NEW from, NEW to, Advance(w, from, to),
           to \in {"preparing", "ready", "completed", "cancelled"},
           to # "cancelled" => \A s \in from : Submitted(s)
    PROVE  KioskInv'
<1>1. kiosk' = [kiosk EXCEPT !.state = to] /\ kiosk' \in KioskRow
  BY DEF Advance, KioskInv, KioskTypeOK, KioskRow, KioskStates
<1>2. form' = [form EXCEPT ![w] = Shown(kiosk')] /\ form' \in [Staff -> Form]
  BY <1>1 DEF Advance, Loaded, Shown, Form, KioskRow, KioskInv, KioskTypeOK
<1>3. UNCHANGED <<profile, made>>
  BY DEF Advance
<1>4. KioskTypeOK'
  BY <1>1, <1>2, <1>3 DEF Advance, Exists, Opened, TicketStates, KioskInv, KioskTypeOK
<1>5. kiosk'.state = to /\ kiosk'.synced = kiosk.synced /\ kiosk'.failed = kiosk.failed
  BY <1>1 DEF KioskInv, KioskTypeOK, KioskRow
<1>6. Submitted(to) => made.awards = 1 /\ (profile.autoPos => kiosk.synced \/ kiosk.failed)
  BY DEF Advance, Submitted, KioskInv
<1>7. AwardedOnce' /\ PosOrderLinked'
  BY <1>3, <1>5, <1>6 DEF AwardedOnce, PosOrderLinked, Submitted, KioskInv
<1>8. \A v \in Staff : form'[v].state = form[v].state \/ form'[v].state = to
  BY <1>2, <1>5 DEF Shown, KioskInv, KioskTypeOK
<1> QED
  BY <1>3, <1>4, <1>5, <1>6, <1>7, <1>8 DEF KioskInv, Submitted

(* A form that is loaded shows what it finds. *)
LEMMA ReloadKeeps ==
    ASSUME KioskInv, NEW w \in Staff, UNCHANGED <<profile, kiosk, ticket, made, seen>>,
           form' = [form EXCEPT ![w] = Shown(kiosk)]
    PROVE  KioskInv'
<1>1. form' \in [Staff -> Form] /\ \A v \in Staff : form'[v].state \in {form[v].state, kiosk.state}
  BY DEF Shown, Form, KioskRow, KioskInv, KioskTypeOK
<1>2. KioskTypeOK'
  BY <1>1 DEF KioskInv, KioskTypeOK
<1>3. Submitted(kiosk.state) => made.awards = 1 /\ (profile.autoPos => kiosk.synced \/ kiosk.failed)
  BY DEF Submitted, KioskInv, AwardedOnce, PosOrderLinked
<1> QED
  BY <1>1, <1>2, <1>3 DEF KioskInv, AwardedOnce, PosOrderLinked

LEMMA SyncKeeps == ASSUME KioskInv, NEW w \in Staff, SyncPos(w) PROVE KioskInv'
<1>1. CASE Link(kiosk)
  <2>1. kiosk' = Linked(kiosk) /\ made' = WithPosOrder(made) /\ form' = [form EXCEPT ![w] = Shown(kiosk')]
    BY <1>1 DEF SyncPos, Loaded
  <2>2. kiosk' \in KioskRow /\ kiosk'.state = kiosk.state /\ kiosk'.synced = TRUE /\ kiosk'.failed = kiosk.failed
    BY <2>1 DEF Linked, KioskInv, KioskTypeOK, KioskRow, Payments
  <2>3. kiosk.synced = FALSE
    BY <1>1 DEF Link, KioskInv, KioskTypeOK, KioskRow
  <2> made \in Counts /\ made.posOrders = 0 /\ made.payments = 0
    BY <2>3 DEF Counts, KioskInv, KioskTypeOK, PosOrderLinked
  <2>4. /\ made' \in Counts
        /\ made'.posOrders = 1 /\ made'.payments <= 1 /\ made'.tickets = made.tickets /\ made'.awards = made.awards
    BY <2>1, PosOrderCounts
  <2>5. form' \in [Staff -> Form] /\ \A v \in Staff : form'[v].state \in {form[v].state, kiosk.state}
    BY <2>1, <2>2 DEF Shown, Form, KioskRow, KioskInv, KioskTypeOK
  <2>6. UNCHANGED <<profile, ticket, seen>>
    BY DEF SyncPos
  <2>7. KioskTypeOK'
    BY <2>2, <2>4, <2>5, <2>6 DEF Counts, Exists, KioskInv, KioskTypeOK
  <2>8. AwardedOnce' /\ PosOrderLinked'
    BY <2>2, <2>4 DEF AwardedOnce, PosOrderLinked, KioskInv
  <2> QED
    BY <2>2, <2>4, <2>5, <2>6, <2>7, <2>8 DEF KioskInv, AwardedOnce, Submitted
<1>2. CASE ~Link(kiosk)
  <2>1. UNCHANGED <<profile, kiosk, ticket, made, seen>> /\ form' = [form EXCEPT ![w] = Shown(kiosk)]
    BY <1>2 DEF SyncPos, Loaded
  <2> QED
    BY <2>1, ReloadKeeps
<1> QED
  BY <1>1, <1>2

LEMMA SubmitKeeps == ASSUME KioskInv, NEW w \in Staff, Submit(w) PROVE KioskInv'
<1>1. CASE ~IsDraft(kiosk)
  <2>1. UNCHANGED <<profile, kiosk, ticket, made>> /\ form' = [form EXCEPT ![w] = Shown(kiosk)] /\ seen' = Opened(ticket)
    BY <1>1 DEF Submit, Loaded
  <2>2. seen' = seen
    BY <2>1 DEF Opened, Exists, KioskInv, KioskTypeOK
  <2> QED
    BY <2>1, <2>2, ReloadKeeps
<1>2. CASE IsDraft(kiosk)
  <2> DEFINE row == [kiosk EXCEPT !.state = "submitted"]
  <2>1. row \in KioskRow /\ row.state = "submitted" /\ row.synced = kiosk.synced /\ row.failed = kiosk.failed
    BY DEF KioskInv, KioskTypeOK, KioskRow, KioskStates
  <2>2. kiosk.state = "draft" /\ made.awards = 0 /\ made.tickets = 0
    BY <1>2 DEF IsDraft, KioskInv
  <2>3. ticket' \in TicketStates \cup {"none"} /\ seen' = Opened(ticket') /\ UNCHANGED profile
    BY <1>2 DEF Submit, KioskInv, KioskTypeOK, TicketStates
  <2>4. seen' \subseteq TicketStates /\ (Exists(ticket') => ticket' \in seen')
    BY <2>3 DEF Opened, Exists, KioskInv, KioskTypeOK
  <2>5. form' = [form EXCEPT ![w] = Shown(kiosk')]
    BY DEF Submit, Loaded
  <2> DEFINE sold == WithTicket(made)
  <2> made \in Counts
    BY DEF Counts, KioskInv, KioskTypeOK
  <2>6. /\ sold \in Counts
        /\ sold.awards = 1 /\ sold.tickets <= 1 /\ sold.posOrders = made.posOrders /\ sold.payments = made.payments
    BY <2>2, TicketCounts
  <2>7. \/ ~profile.autoPos /\ kiosk' = row /\ made' = sold
        \/ Link(row) /\ kiosk' = Linked(row) /\ made' = WithPosOrder(sold)
        \/ kiosk' = Flagged(row) /\ made' = sold
    BY <1>2 DEF Submit
  <2> HIDE DEF row, sold
  <2>8. /\ kiosk' \in KioskRow /\ kiosk'.state = "submitted"
        /\ made' \in Counts
        /\ made'.awards = 1 /\ made'.tickets <= 1
        /\ made'.posOrders = (IF kiosk'.synced THEN 1 ELSE 0) /\ made'.payments <= made'.posOrders
        /\ profile.autoPos => kiosk'.synced \/ kiosk'.failed
    <3>1. made.posOrders = (IF kiosk.synced THEN 1 ELSE 0) /\ made.payments <= made.posOrders
      BY DEF KioskInv, PosOrderLinked
    <3>2. CASE ~profile.autoPos /\ kiosk' = row /\ made' = sold
      BY <2>1, <2>6, <3>1, <3>2
    <3>3. CASE Link(row) /\ kiosk' = Linked(row) /\ made' = WithPosOrder(sold)
      <4>1. kiosk' \in KioskRow /\ kiosk'.state = "submitted" /\ kiosk'.synced = TRUE
        BY <2>1, <3>3 DEF Linked, KioskRow, Payments
      <4>2. sold.posOrders = 0 /\ sold.payments = 0
        <5>1. kiosk.synced = FALSE
          BY <2>1, <3>3 DEF Link, KioskRow
        <5> QED
          BY <2>6, <3>1, <5>1 DEF Counts
      <4> QED
        BY <2>6, <3>3, <4>1, <4>2, PosOrderCounts
    <3>4. CASE kiosk' = Flagged(row) /\ made' = sold
      <4>1. kiosk' \in KioskRow /\ kiosk'.state = "submitted" /\ kiosk'.synced = kiosk.synced /\ kiosk'.failed = TRUE
        BY <2>1, <3>4 DEF Flagged, KioskRow
      <4> QED
        BY <2>6, <3>1, <3>4, <4>1
    <3> QED
      BY <2>7, <3>2, <3>3, <3>4
  <2>9. form' \in [Staff -> Form] /\ \A v \in Staff : form'[v].state \in {form[v].state, kiosk'.state}
    BY <2>5, <2>8 DEF Shown, Form, KioskRow, KioskInv, KioskTypeOK
  <2>10. KioskTypeOK'
    BY <2>3, <2>4, <2>8, <2>9 DEF Counts, KioskInv, KioskTypeOK
  <2>11. AwardedOnce' /\ PosOrderLinked'
    BY <2>3, <2>8 DEF AwardedOnce, PosOrderLinked
  <2> QED
    BY <2>3, <2>8, <2>10, <2>11 DEF KioskInv, Submitted
<1> QED
  BY <1>1, <1>2

LEMMA TicketKeeps == ASSUME KioskInv, NEW from, NEW to \in TicketStates, TicketStep(from, to) PROVE KioskInv'
<1>1. UNCHANGED <<profile, kiosk, made, form>> /\ ticket' = to /\ seen' = seen \cup {to}
  BY DEF TicketStep, Opened, Exists, TicketStates
<1>2. KioskTypeOK'
  BY <1>1 DEF KioskInv, KioskTypeOK
<1> QED
  BY <1>1, <1>2 DEF KioskInv, AwardedOnce, PosOrderLinked

LEMMA KioskSteps == KioskInv /\ [KioskNext]_kioskVars => KioskInv'
<1> SUFFICES ASSUME KioskInv, [KioskNext]_kioskVars PROVE KioskInv'
  OBVIOUS
<1>1. CASE UNCHANGED kioskVars
  BY <1>1 DEF kioskVars, KioskInv, KioskTypeOK, AwardedOnce, PosOrderLinked
<1>2. ASSUME NEW w \in Staff, Submit(w) PROVE KioskInv'
  BY <1>2, SubmitKeeps
<1>3. ASSUME NEW w \in Staff, SyncPos(w) PROVE KioskInv'
  BY <1>3, SyncKeeps
<1>4. ASSUME NEW w \in Staff, Reload(w) PROVE KioskInv'
  BY <1>4, ReloadKeeps DEF Reload, Loaded
<1>5. ASSUME NEW w \in Staff, PrepareOrder(w) \/ ReadyOrder(w) \/ CompleteOrder(w) \/ CancelOrder(w) PROVE KioskInv'
  BY <1>5, AdvanceKeeps DEF PrepareOrder, ReadyOrder, CompleteOrder, CancelOrder, Submitted
<1>6. CASE PrepareTicket \/ ReadyTicket \/ CallTicket \/ CompleteTicket \/ CancelTicket
  BY <1>6, TicketKeeps DEF PrepareTicket, ReadyTicket, CallTicket, CompleteTicket, CancelTicket, TicketStates
<1> QED
  BY <1>1, <1>2, <1>3, <1>4, <1>5, <1>6 DEF KioskNext

(* Whatever the number of staff, and whatever forms they press their buttons on, *)
(* the conjuncts of KioskInv hold.                                             *)
THEOREM KioskInductive == KioskSpec => []KioskInv
BY KioskStarts, KioskSteps, PTL DEF KioskSpec

(* The order, its ticket and the open forms stay in their domains.              *)
THEOREM KioskTypeCorrect == KioskSpec => []KioskTypeOK
BY KioskInductive, PTL DEF KioskInv

(* Points are awarded once and one ticket is given, whoever submits, however     *)
(* often and from whatever form.                                               *)
THEOREM AwardedOnceCorrect == KioskSpec => []AwardedOnce
BY KioskInductive, PTL DEF KioskInv

(* The order has the POS order it is linked to and no other; one that should      *)
(* have been made at once and was not is marked as failed.                       *)
THEOREM PosOrderCorrect == KioskSpec => []PosOrderLinked
BY KioskInductive, PTL DEF KioskInv

-----------------------------------------------------------------------------
(* FbrQueue *)

Row == [order : PosOrders, state : FbrState]

Submission ==
    [active : BOOLEAN, old : Seq(Row), shown : [PosOrders -> 0 .. MaxRecords],
     todo : SUBSET Ids, answered : SUBSET Ids, failed : SUBSET Ids]

Invoice(r) == <<r, "record">>

Typed ==
    /\ records \in Seq(Row) /\ Len(records) <= MaxRecords
    /\ printed \in [PosOrders -> 0 .. MaxRecords]
    /\ txn \in [Workers -> Submission]

(* A submission is about records that it has read, and what it counts as *)
(* answered is known to the authority.                                   *)
Honest(t) ==
    /\ Len(t.old) <= Len(records)
    /\ t.todo \cup t.answered \cup t.failed \subseteq 1 .. Len(t.old)
    /\ \A r \in t.answered : Invoice(r) \in accepted

Shows(o, r) == r \in 1 .. Len(records) /\ records[r].order = o /\ Invoice(r) \in accepted

FbrInv ==
    /\ Typed
    /\ accepted \subseteq {Invoice(r) : r \in Ids}
    /\ \A w \in Workers : Honest(txn[w])
    /\ \A o \in PosOrders : printed[o] # 0 => Shows(o, printed[o])
    /\ \A r \in 1 .. Len(records) : records[r].state = "submitted" =>
           Invoice(r) \in accepted /\ printed[records[r].order] # 0

-----------------------------------------------------------------------------
(* A set of record numbers that is not empty has a last one. *)
LEMMA LastOne ==
    ASSUME NEW S \in SUBSET Ids, S # {}
    PROVE  \E r \in S : \A q \in S : q <= r
<1> DEFINE T == {MaxRecords - r : r \in S}
<1>1. T \subseteq Nat /\ T # {}
  <2>1. \A r \in S : MaxRecords - r \in Nat
    BY FbrAssumption DEF Ids
  <2>2. PICK r \in S : TRUE
    OBVIOUS
  <2> QED
    BY <2>1, <2>2
<1>2. PICK x \in T : \A y \in T : ~ (<<y, x>> \in OpToRel(<, Nat))
  BY <1>1, NatLessThanWellFounded, WFMin
<1>3. PICK r \in S : x = MaxRecords - r
  BY <1>2
<1>4. ASSUME NEW q \in S PROVE q <= r
  <2>1. MaxRecords - q \in Nat /\ MaxRecords - r \in Nat /\ q \in Nat /\ r \in Nat
    BY FbrAssumption DEF Ids
  <2>2. ~ (<<MaxRecords - q, MaxRecords - r>> \in OpToRel(<, Nat))
    BY <1>2, <1>3
  <2>3. ~ (MaxRecords - q < MaxRecords - r)
    BY <2>1, <2>2 DEF OpToRel
  <2> QED
    BY <2>1, <2>3, FbrAssumption
<1> QED
  BY <1>4

(* The number that an order will show is one of its own that was answered. *)
LEMMA NumberShown ==
    ASSUME NEW t, t.answered \in SUBSET Ids, NEW o \in PosOrders
    PROVE  LET mine == {r \in t.answered : records[r].order = o}
           IN  (Numbers(t)[o] = printed[o] /\ mine = {}) \/ Numbers(t)[o] \in mine
<1> DEFINE mine == {r \in t.answered : records[r].order = o}
<1>1. CASE mine = {}
  BY <1>1 DEF Numbers
<1>2. CASE mine # {}
  <2>1. \E r \in mine : \A q \in mine : q <= r
    BY <1>2, LastOne
  <2>2. Numbers(t)[o] = CHOOSE r \in mine : \A q \in mine : q <= r
    BY <1>2 DEF Numbers
  <2> QED
    BY <2>1, <2>2
<1> QED
  BY <1>1, <1>2

LEMMA BeginFields ==
    ASSUME Typed, NEW S \in SUBSET (1 .. Len(records))
    PROVE  /\ Begin(S) \in Submission /\ Begin(S).old = records
           /\ Begin(S).todo = S /\ Begin(S).answered = {} /\ Begin(S).failed = {}
BY FbrAssumption DEF Begin, Typed, Submission, Ids

LEMMA IdleFields ==
    /\ Idle \in Submission /\ Idle.old = <<>>
    /\ Idle.todo = {} /\ Idle.answered = {} /\ Idle.failed = {}
BY FbrAssumption DEF Idle, Submission

-----------------------------------------------------------------------------
LEMMA FbrStarts == FbrInit => FbrInv
<1> SUFFICES ASSUME FbrInit PROVE FbrInv
  OBVIOUS
<1>1. Typed
  BY IdleFields, FbrAssumption DEF FbrInit, Typed
<1>2. \A w \in Workers : Honest(txn[w])
  BY IdleFields DEF FbrInit, Honest
<1> QED
  BY <1>1, <1>2 DEF FbrInit, FbrInv

(* A step that changes states of records only, to none that is submitted, and *)
(* one that changes no more than what submissions are in the middle of.       *)
LEMMA RowsKeep ==
    ASSUME FbrInv, UNCHANGED <<printed, accepted, txn>>,
           records' \in Seq(Row), Len(records) <= Len(records'), Len(records') <= MaxRecords,
           \A r \in 1 .. Len(records) : records'[r].order = records[r].order,
           \A r \in 1 .. Len(records') : records'[r].state = "submitted" =>
               r \in 1 .. Len(records) /\ records[r].state = "submitted"
    PROVE  FbrInv'
<1>1. Len(records) \in Nat /\ Len(records') \in Nat
  BY DEF FbrInv, Typed
<1>2. Typed'
  BY DEF FbrInv, Typed
<1>3. \A w \in Workers : Honest(txn[w])'
  <2> SUFFICES ASSUME NEW w \in Workers PROVE Honest(txn[w])'
    OBVIOUS
  <2>1. Len(txn[w].old) \in Nat
    BY DEF FbrInv, Typed, Submission
  <2> QED
    BY <1>1, <2>1 DEF FbrInv, Honest
<1>4. \A o \in PosOrders : printed'[o] # 0 => Shows(o, printed[o])'
  BY <1>1 DEF FbrInv, Shows
<1>5. \A r \in 1 .. Len(records') : records'[r].state = "submitted" =>
           Invoice(r) \in accepted' /\ printed'[records'[r].order] # 0
  BY <1>1 DEF FbrInv
<1> QED
  BY <1>1, <1>2, <1>3, <1>4, <1>5 DEF FbrInv

LEMMA TxnKeeps ==
    ASSUME FbrInv, UNCHANGED <<records, printed, accepted>>, NEW w \in Workers, NEW t \in Submission,
           txn' = [txn EXCEPT ![w] = t], Honest(t)
    PROVE  FbrInv'
<1>1. Typed'
  BY DEF FbrInv, Typed
<1>2. \A v \in Workers : Honest(txn[v])'
  BY DEF FbrInv, Typed, Honest
<1> QED
  BY <1>1, <1>2 DEF FbrInv, Shows

LEMMA CreateKeeps == ASSUME FbrInv, NEW o \in PosOrders, NEW s \in {"draft", "queued"}, Create(o, s) PROVE FbrInv'
<1> DEFINE row == [order |-> o, state |-> s]
<1>1. row \in Row /\ row.state # "submitted"
  BY DEF Row, FbrState
<1>2. records' = Append(records, row) /\ Len(records) < MaxRecords /\ UNCHANGED <<printed, accepted, txn>>
  BY DEF Create
<1> HIDE DEF row
<1>3. Len(records) \in Nat /\ records \in Seq(Row)
  BY DEF FbrInv, Typed
<1>4. /\ records' \in Seq(Row) /\ Len(records') = Len(records) + 1
      /\ \A r \in 1 .. Len(records) : records'[r] = records[r]
      /\ records'[Len(records) + 1] = row
  BY <1>1, <1>2, <1>3
<1>5. \A r \in 1 .. Len(records') : r \in 1 .. Len(records) \/ r = Len(records) + 1
  BY <1>3, <1>4
<1>6. Len(records) <= Len(records') /\ Len(records') <= MaxRecords
  BY <1>2, <1>3, <1>4, FbrAssumption
<1> QED
  BY <1>1, <1>2, <1>4, <1>5, <1>6, RowsKeep

LEMMA SetStateKeeps ==
    ASSUME FbrInv, NEW r, NEW from, NEW to \in FbrState \ {"submitted"}, SetState(r, from, to)
    PROVE  FbrInv'
<1>1. records' = [records EXCEPT ![r].state = to] /\ r \in DOMAIN records /\ UNCHANGED <<printed, accepted, txn>>
  BY DEF SetState
<1>2. Len(records) \in Nat /\ records \in Seq(Row) /\ Len(records) <= MaxRecords
  BY DEF FbrInv, Typed
<1>3. records' \in Seq(Row) /\ Len(records') = Len(records)
  <2>1. records[r] \in Row /\ to \in FbrState
    BY <1>1, <1>2
  <2>2. [records[r] EXCEPT !.state = to] \in Row
    BY <2>1 DEF Row
  <2> QED
    BY <1>1, <1>2, <2>2
<1>4. \A q \in 1 .. Len(records) : records'[q].order = records[q].order
  BY <1>1, <1>2 DEF Row
<1>5. \A q \in 1 .. Len(records) : records'[q].state = "submitted" => records[q].state = "submitted"
  BY <1>1, <1>2 DEF Row
<1> QED
  BY <1>1, <1>2, <1>3, <1>4, <1>5, RowsKeep

LEMMA BeginKeeps ==
    ASSUME FbrInv, NEW w \in Workers, NEW S \in SUBSET (1 .. Len(records)),
           txn' = [txn EXCEPT ![w] = Begin(S)], UNCHANGED <<records, printed, accepted>>
    PROVE  FbrInv'
<1>1. Begin(S) \in Submission /\ Honest(Begin(S))
  BY BeginFields DEF Honest, FbrInv, Typed
<1> QED
  BY <1>1, TxnKeeps

LEMMA IdleKeeps ==
    ASSUME FbrInv, NEW w \in Workers, txn' = [txn EXCEPT ![w] = Idle], UNCHANGED <<records, printed, accepted>>
    PROVE  FbrInv'
<1>1. Idle \in Submission /\ Honest(Idle)
  BY IdleFields DEF Honest, FbrInv, Typed
<1> QED
  BY <1>1, TxnKeeps

LEMMA SendKeeps ==
    ASSUME FbrInv, NEW w \in Workers, NEW r \in Ids, NEW outcome \in Outcomes, Send(w, r, outcome)
    PROVE  FbrInv'
<1> DEFINE t == txn[w]
           left == t.todo \ {r}
<1>1. t \in Submission /\ Honest(t) /\ r \in t.todo /\ left \in SUBSET Ids
  BY DEF FbrInv, Typed, Send, Submission
<1>2. /\ accepted \subseteq accepted' /\ accepted' \subseteq accepted \cup {Invoice(r)}
      /\ UNCHANGED <<records, printed>> /\ (Success(outcome) => Invoice(r) \in accepted')
  BY DEF Send, Key, Invoice, Success
<1>3. \E u \in Submission :
         /\ txn' = [txn EXCEPT ![w] = u] /\ u.old = t.old /\ u.todo = left
         /\ \/ Success(outcome) /\ u.answered = t.answered \cup {r} /\ u.failed = t.failed
            \/ u.answered = t.answered /\ u.failed = t.failed \cup {r}
  <2>1. CASE Success(outcome)
    <3> DEFINE all == t.answered \cup {r}
               u == [t EXCEPT !.todo = left, !.answered = all]
    <3>1. txn' = [txn EXCEPT ![w] = u]
      BY <2>1 DEF Send
    <3>2. all \in SUBSET Ids
      BY <1>1 DEF Submission
    <3> HIDE DEF t, left, all
    <3>3. u \in Submission /\ u.old = t.old /\ u.todo = left /\ u.answered = all /\ u.failed = t.failed
      BY <1>1, <3>2 DEF Submission
    <3> HIDE DEF u
    <3> QED
      BY <2>1, <3>1, <3>3 DEF all
  <2>2. CASE ~Success(outcome)
    <3> DEFINE all == t.failed \cup {r}
               u == [t EXCEPT !.todo = left, !.failed = all]
    <3>1. txn' = [txn EXCEPT ![w] = u]
      BY <2>2 DEF Send
    <3>2. all \in SUBSET Ids
      BY <1>1 DEF Submission
    <3> HIDE DEF t, left, all
    <3>3. u \in Submission /\ u.old = t.old /\ u.todo = left /\ u.answered = t.answered /\ u.failed = all
      BY <1>1, <3>2 DEF Submission
    <3> HIDE DEF u
    <3> QED
      BY <3>1, <3>3 DEF all
  <2> QED
    BY <2>1, <2>2
<1>4. PICK u \in Submission :
         /\ txn' = [txn EXCEPT ![w] = u] /\ u.old = t.old /\ u.todo = left
         /\ \/ Success(outcome) /\ u.answered = t.answered \cup {r} /\ u.failed = t.failed
            \/ u.answered = t.answered /\ u.failed = t.failed \cup {r}
  BY <1>3
<1>5. txn'[w] = u /\ \A v \in Workers \ {w} : txn'[v] = txn[v]
  BY <1>4 DEF FbrInv, Typed
<1>6. Honest(txn[w])'
  BY <1>1, <1>2, <1>4, <1>5 DEF Honest
<1>7. \A v \in Workers \ {w} : Honest(txn[v])'
  BY <1>2, <1>5 DEF FbrInv, Honest
<1>8. Typed'
  BY <1>2, <1>4 DEF FbrInv, Typed
<1>9. accepted' \subseteq {Invoice(q) : q \in Ids}
  BY <1>2 DEF FbrInv
<1>10. \A o \in PosOrders : printed'[o] # 0 => Shows(o, printed[o])'
  BY <1>2 DEF FbrInv, Shows
<1>11. \A q \in 1 .. Len(records') : records'[q].state = "submitted" =>
           Invoice(q) \in accepted' /\ printed'[records'[q].order] # 0
  BY <1>2 DEF FbrInv
<1> QED
  BY <1>6, <1>7, <1>8, <1>9, <1>10, <1>11 DEF FbrInv

(* Committing writes states of records that were answered or failed, and the *)
(* number of an answered one on its order.                                   *)
LEMMA CommitKeeps ==
    ASSUME FbrInv, NEW w \in Workers, NEW t \in Submission, Honest(t), UNCHANGED accepted,
           records' = Results(t), printed' = Numbers(t), txn' = [txn EXCEPT ![w] = Idle]
    PROVE  FbrInv'
<1> DEFINE after(r) == IF r \in t.answered THEN [records[r] EXCEPT !.state = "submitted"]
                       ELSE IF r \in t.failed THEN [records[r] EXCEPT !.state = "failed"]
                       ELSE records[r]
<1>1. records' = [r \in 1 .. Len(records) |-> after(r)]
  BY DEF Results, FbrInv, Typed
<1>2. Len(records) \in Nat /\ records \in Seq(Row) /\ Len(records) <= MaxRecords /\ Len(t.old) \in Nat
  BY DEF FbrInv, Typed, Submission
<1>3. t.answered \in SUBSET Ids /\ t.answered \subseteq 1 .. Len(records)
  BY <1>2 DEF Honest, Submission
<1>4. \A r \in 1 .. Len(records) :
          /\ after(r) \in Row /\ after(r).order = records[r].order
          /\ after(r).state = "submitted" => r \in t.answered \/ records[r].state = "submitted"
  <2> SUFFICES ASSUME NEW r \in 1 .. Len(records)
               PROVE  /\ after(r) \in Row /\ after(r).order = records[r].order
                      /\ after(r).state = "submitted" => r \in t.answered \/ records[r].state = "submitted"
    OBVIOUS
  <2>1. records[r] \in Row
    BY <1>2
  <2>2. \A s \in {"submitted", "failed"} :
           /\ [records[r] EXCEPT !.state = s] \in Row /\ [records[r] EXCEPT !.state = s].order = records[r].order
           /\ [records[r] EXCEPT !.state = s].state = s
    BY <2>1 DEF Row, FbrState
  <2> QED
    BY <2>1, <2>2
<1> HIDE DEF after
<1>5. \A r \in 1 .. Len(records) :
         /\ records'[r].order = records[r].order
         /\ records'[r].state = "submitted" => r \in t.answered \/ records[r].state = "submitted"
  BY <1>1, <1>4
<1>6. records' \in Seq(Row) /\ Len(records') = Len(records)
  BY <1>1, <1>2, <1>4
<1>7. \A o \in PosOrders :
         \/ printed'[o] = printed[o] /\ \A r \in t.answered : records[r].order # o
         \/ printed'[o] \in t.answered /\ records[printed'[o]].order = o
  BY <1>3, NumberShown
<1>8. Typed'
  <2>1. \A o \in PosOrders : printed'[o] \in 0 .. MaxRecords
    BY <1>3, <1>7, FbrAssumption DEF FbrInv, Typed, Ids
  <2> QED
    BY <1>2, <1>6, <2>1, IdleFields DEF FbrInv, Typed, Numbers
<1>9. \A v \in Workers : Honest(txn[v])'
  BY <1>2, <1>6, IdleFields DEF FbrInv, Typed, Honest
<1>10. \A o \in PosOrders : printed'[o] # 0 => Shows(o, printed[o])'
  BY <1>3, <1>5, <1>6, <1>7 DEF FbrInv, Shows, Honest
<1>11. \A r \in 1 .. Len(records') : records'[r].state = "submitted" =>
           Invoice(r) \in accepted' /\ printed'[records'[r].order] # 0
  <2> SUFFICES ASSUME NEW r \in 1 .. Len(records), records'[r].state = "submitted"
               PROVE  Invoice(r) \in accepted /\ printed'[records[r].order] # 0
    BY <1>5, <1>6
  <2>1. records[r].order \in PosOrders
    <3>1. records[r] \in Row
      BY <1>2
    <3> QED
      BY <3>1 DEF Row
  <2>2. r \in t.answered => Invoice(r) \in accepted
    BY DEF Honest
  <2>3. r \notin t.answered => Invoice(r) \in accepted /\ printed[records[r].order] # 0
    BY <1>5 DEF FbrInv
  <2>4. \A q \in t.answered : q # 0
    BY <1>3
  <2> QED
    BY <1>7, <2>1, <2>2, <2>3, <2>4
<1>12. accepted' \subseteq {Invoice(r) : r \in Ids}
  BY DEF FbrInv
<1> QED
  BY <1>8, <1>9, <1>10, <1>11, <1>12 DEF FbrInv

LEMMA FinishKeeps == ASSUME FbrInv, NEW w \in Workers, Finish(w) PROVE FbrInv'
<1> DEFINE t == txn[w]
<1>1. t \in Submission /\ Honest(t) /\ Len(records) \in Nat /\ Len(t.old) \in Nat
  BY DEF FbrInv, Typed, Submission
<1>2. CASE Conflict(t)
  <2> DEFINE all == t.answered \cup t.failed
  <2>1. all \in SUBSET (1 .. Len(records))
    BY <1>1 DEF Honest
  <2>2. txn' = [txn EXCEPT ![w] = IF w = Clerk THEN Begin(all) ELSE Idle] /\ UNCHANGED <<records, printed, accepted>>
    BY <1>2 DEF Finish
  <2> HIDE DEF all
  <2>3. CASE w = Clerk
    BY <2>1, <2>2, <2>3, BeginKeeps
  <2>4. CASE w # Clerk
    BY <2>2, <2>4, IdleKeeps
  <2> QED
    BY <2>3, <2>4
<1>3. CASE ~Conflict(t)
  <2>1. records' = Results(t) /\ printed' = Numbers(t) /\ txn' = [txn EXCEPT ![w] = Idle] /\ UNCHANGED accepted
    BY <1>3 DEF Finish
  <2> QED
    BY <1>1, <2>1, CommitKeeps
<1> QED
  BY <1>2, <1>3

-----------------------------------------------------------------------------
LEMMA FbrSteps == FbrInv /\ [FbrNext]_fbrVars => FbrInv'
<1> SUFFICES ASSUME FbrInv, [FbrNext]_fbrVars PROVE FbrInv'
  OBVIOUS
<1>1. records \in Seq(Row) /\ Len(records) \in Nat
  BY DEF FbrInv, Typed
<1>2. CASE UNCHANGED fbrVars
  BY <1>2 DEF fbrVars, FbrInv, Typed, Honest, Shows
<1>3. ASSUME NEW o \in PosOrders, QueueInvoice(o) \/ NewDraft(o) PROVE FbrInv'
  BY <1>3, CreateKeeps DEF QueueInvoice, NewDraft
<1>4. CASE JobStarts
  <2>1. QueuedIds \in SUBSET (1 .. Len(records))
    BY <1>1 DEF QueuedIds
  <2> QED
    BY <1>4, <2>1, BeginKeeps DEF JobStarts, Workers
<1>5. ASSUME NEW r \in Ids, ClerkSubmits(r) PROVE FbrInv'
  <2>1. {r} \in SUBSET (1 .. Len(records))
    BY <1>1, <1>5 DEF ClerkSubmits
  <2> QED
    BY <1>5, <2>1, BeginKeeps DEF ClerkSubmits, Workers
<1>6. ASSUME NEW r \in Ids, QueueRecord(r) \/ MarkFailed(r) \/ CancelRecord(r) PROVE FbrInv'
  BY <1>6, SetStateKeeps DEF QueueRecord, MarkFailed, CancelRecord, FbrState
<1>7. ASSUME NEW w \in Workers, NEW r \in Ids, NEW outcome \in Outcomes, Send(w, r, outcome) PROVE FbrInv'
  BY <1>7, SendKeeps
<1>8. ASSUME NEW w \in Workers, Finish(w) PROVE FbrInv'
  BY <1>8, FinishKeeps
<1>9. ASSUME NEW w \in Workers, Stop(w) PROVE FbrInv'
  BY <1>9, IdleKeeps DEF Stop
<1> QED
  BY <1>2, <1>3, <1>4, <1>5, <1>6, <1>7, <1>8, <1>9 DEF FbrNext

(* FbrInv holds whatever is pressed, sent, answered, lost or stopped, in      *)
(* whatever order.                                                           *)
THEOREM FbrInductive == FbrSpec => []FbrInv
BY FbrStarts, FbrSteps, PTL DEF FbrSpec

LEMMA FbrInvTypes == FbrInv => FbrTypeOK
BY DEF FbrInv, Typed, Honest, FbrTypeOK, Submission, Row

(* The queue, the printed numbers and the submissions in the middle stay in     *)
(* their domains.                                                              *)
THEOREM FbrTypeCorrect == FbrSpec => []FbrTypeOK
BY FbrInductive, FbrInvTypes, PTL

(* However often a record is sent, by whom, and whatever becomes of the answers, *)
(* the authority has one invoice for it.                                       *)
THEOREM OneInvoiceCorrect == FbrSpec => []OneInvoicePerRecord
<1>1. FbrInv => OneInvoicePerRecord
  <2> SUFFICES ASSUME FbrInv, NEW r \in Ids
               PROVE  Cardinality({k \in accepted : k[1] = r}) <= 1
    BY DEF OneInvoicePerRecord
  <2> DEFINE mine == {k \in accepted : k[1] = r}
             only == {Invoice(r)}
  <2>1. mine \in SUBSET only
    BY DEF FbrInv, Invoice
  <2>2. IsFiniteSet(only) /\ Cardinality(only) = 1
    BY FS_Singleton
  <2> HIDE DEF mine, only
  <2>3. Cardinality(mine) <= 1
    BY <2>1, <2>2, FS_Subset
  <2> QED
    BY <2>3 DEF mine
<1> QED
  BY FbrInductive, <1>1, PTL

(* What is shown as submitted or printed on a receipt exists at the authority,   *)
(* and belongs to the order it is shown for.                                   *)
THEOREM SubmittedKnownCorrect == FbrSpec => []SubmittedKnown
<1>1. FbrInv => SubmittedKnown
  <2> SUFFICES ASSUME FbrInv PROVE SubmittedKnown
    OBVIOUS
  <2>1. \A r : Invoice(r)[1] = r
    BY DEF Invoice
  <2>2. records \in Seq(Row)
    BY DEF FbrInv, Typed
  <2>3. ASSUME NEW r \in DOMAIN records, records[r].state = "submitted"
        PROVE  /\ \E k \in accepted : k[1] = r
               /\ LET n == printed[records[r].order] IN n # 0 /\ records[n].order = records[r].order
    <3>1. records[r] \in Row /\ r \in 1 .. Len(records)
      BY <2>2
    <3>2. records[r].order \in PosOrders
      BY <3>1 DEF Row
    <3> QED
      BY <2>1, <2>3, <3>1, <3>2 DEF FbrInv, Shows
  <2>4. \A o \in PosOrders : printed[o] # 0 => \E k \in accepted : k[1] = printed[o]
    BY <2>1 DEF FbrInv, Shows
  <2> QED
    BY <2>3, <2>4 DEF SubmittedKnown
<1> QED
  BY FbrInductive, <1>1, PTL

-----------------------------------------------------------------------------
(* The deliveries.                                                            *)
Shipment == [status : Statuses, sla : SlaStates, late : BOOLEAN]

DeliveryTyped ==
    /\ provider \in Modes \cup {"none"}
    /\ shipment \in [Orders -> Shipment]
    /\ queue \in Seq(Request)
    /\ handled \in 0 .. MaxHandled
    /\ cases \in [Orders -> [Categories -> Seq(CaseStates)]]

OpenIsOne ==
    \A o \in Orders, c \in Categories : \A i, j \in 1 .. Len(cases[o][c]) :
        cases[o][c][i] = "open" /\ cases[o][c][j] = "open" => i = j

Unresolved(o) == \E i \in 1 .. Len(cases[o]["sla_breach"]) : cases[o]["sla_breach"][i] # "resolved"

Breaches == \A o \in Orders : shipment[o].sla = "breached" => Unresolved(o)

DeliveryInv == DeliveryTyped /\ OpenIsOne /\ Breaches

-----------------------------------------------------------------------------
(* Raising adds at most one exception of its category to an order, open, where *)
(* none is open or acknowledged, and leaves every other as it is.             *)
LEMMA RaisedFacts ==
    ASSUME DeliveryTyped, NEW os, NEW c \in Categories
    PROVE  /\ Raised(os, c) \in [Orders -> [Categories -> Seq(CaseStates)]]
           /\ \A o \in Orders, d \in Categories :
                 Raised(os, c)[o][d] = IF o \in os \ Found(os, c) /\ d = c
                                       THEN Append(cases[o][d], "open") ELSE cases[o][d]
<1> DEFINE to(o) == IF o \in os \ Found(os, c) THEN [cases[o] EXCEPT ![c] = Append(cases[o][c], "open")] ELSE cases[o]
<1>1. Raised(os, c) = [o \in Orders |-> to(o)]
  BY DEF Raised
<1>2. ASSUME NEW o \in Orders
      PROVE  /\ to(o) \in [Categories -> Seq(CaseStates)]
             /\ \A d \in Categories : to(o)[d] = IF o \in os \ Found(os, c) /\ d = c
                                                 THEN Append(cases[o][d], "open") ELSE cases[o][d]
  <2>1. cases[o] \in [Categories -> Seq(CaseStates)] /\ "open" \in CaseStates
    BY DEF DeliveryTyped, CaseStates
  <2>2. cases[o][c] \in Seq(CaseStates)
    BY <2>1
  <2> DEFINE longer == Append(cases[o][c], "open")
  <2>3. longer \in Seq(CaseStates)
    BY <2>1, <2>2
  <2> HIDE DEF longer
  <2>4. /\ [cases[o] EXCEPT ![c] = longer] \in [Categories -> Seq(CaseStates)]
        /\ \A d \in Categories : [cases[o] EXCEPT ![c] = longer][d] = IF d = c THEN longer ELSE cases[o][d]
    BY <2>1, <2>3
  <2> QED
    BY <2>1, <2>4 DEF longer
<1> HIDE DEF to
<1> QED
  BY <1>1, <1>2

LEMMA RaisedKeeps ==
    ASSUME DeliveryInv, NEW os, NEW c \in Categories, cases' = Raised(os, c)
    PROVE  /\ cases' \in [Orders -> [Categories -> Seq(CaseStates)]]
           /\ OpenIsOne'
           /\ \A o \in Orders : Unresolved(o) => Unresolved(o)'
           /\ \A o \in os \ Found(os, c) : o \in Orders /\ c = "sla_breach" => Unresolved(o)'
<1>1. ASSUME NEW o \in Orders, NEW d \in Categories
      PROVE  /\ cases[o][d] \in Seq(CaseStates)
             /\ \/ cases'[o][d] = cases[o][d] /\ (d # c \/ o \notin os \ Found(os, c))
                \/ /\ cases'[o][d] = Append(cases[o][d], "open") /\ d = c
                   /\ \A i \in 1 .. Len(cases[o][d]) : ~Active(cases[o][d][i])
  <2>1. cases[o][d] \in Seq(CaseStates)
    BY DEF DeliveryInv, DeliveryTyped
  <2>2. cases'[o][d] = IF o \in os \ Found(os, c) /\ d = c
                       THEN Append(cases[o][d], "open") ELSE cases[o][d]
    BY RaisedFacts DEF DeliveryInv
  <2>3. o \in os \ Found(os, c) => \A i \in 1 .. Len(cases[o][c]) : ~Active(cases[o][c][i])
    BY DEF Found, DeliveryInv, DeliveryTyped
  <2> QED
    BY <2>1, <2>2, <2>3
<1>2. cases' \in [Orders -> [Categories -> Seq(CaseStates)]]
  BY RaisedFacts DEF DeliveryInv
<1>3. OpenIsOne'
  <2> SUFFICES ASSUME NEW o \in Orders, NEW d \in Categories,
                      NEW i \in 1 .. Len(cases'[o][d]), NEW j \in 1 .. Len(cases'[o][d]),
                      cases'[o][d][i] = "open", cases'[o][d][j] = "open"
               PROVE  i = j
    BY DEF OpenIsOne
  <2> DEFINE s == cases[o][d]
  <2>1. s \in Seq(CaseStates) /\ Len(s) \in Nat
    BY <1>1
  <2>2. CASE cases'[o][d] = s
    BY <2>2 DEF DeliveryInv, OpenIsOne
  <2>3. CASE cases'[o][d] = Append(s, "open") /\ \A k \in 1 .. Len(s) : ~Active(s[k])
    <3>1. \A k \in 1 .. Len(s) : s[k] # "open"
      BY <2>3 DEF Active
    <3> HIDE DEF s
    <3> QED
      BY <2>1, <2>3, <3>1
  <2> QED
    BY <1>1, <2>2, <2>3
<1>4. ASSUME NEW o \in Orders
      PROVE  /\ Unresolved(o) => Unresolved(o)'
             /\ o \in os \ Found(os, c) /\ c = "sla_breach" => Unresolved(o)'
  <2> DEFINE s == cases[o]["sla_breach"]
  <2>1. "sla_breach" \in Categories
    BY DEF Categories
  <2>2. s \in Seq(CaseStates) /\ Len(s) \in Nat
    BY <1>1, <2>1
  <2>3. \/ cases'[o]["sla_breach"] = s /\ ~(o \in os \ Found(os, c) /\ c = "sla_breach")
        \/ cases'[o]["sla_breach"] = Append(s, "open")
    BY <1>1, <2>1
  <2>4. CASE cases'[o]["sla_breach"] = s /\ ~(o \in os \ Found(os, c) /\ c = "sla_breach")
    BY <2>4 DEF Unresolved
  <2>5. CASE cases'[o]["sla_breach"] = Append(s, "open")
    <3> HIDE DEF s
    <3>1. Len(s) + 1 \in 1 .. Len(Append(s, "open")) /\ Append(s, "open")[Len(s) + 1] = "open"
      BY <2>2
    <3>2. Unresolved(o)'
      BY <2>5, <3>1 DEF Unresolved
    <3> QED
      BY <3>2
  <2> QED
    BY <2>3, <2>4, <2>5
<1> QED
  BY <1>2, <1>3, <1>4

(* A button that sets the state of one exception does not open it. *)
LEMMA ButtonKeeps ==
    ASSUME DeliveryInv, NEW o \in Orders, NEW c \in Categories, NEW i \in DOMAIN cases[o][c],
           NEW s \in CaseStates \ {"open"}, cases' = [cases EXCEPT ![o][c][i] = s]
    PROVE  /\ cases' \in [Orders -> [Categories -> Seq(CaseStates)]]
           /\ OpenIsOne'
           /\ \A p \in Orders : (p # o \/ s # "resolved") /\ Unresolved(p) => Unresolved(p)'
<1> DEFINE old == cases[o][c]
           new == [old EXCEPT ![i] = s]
<1>1. /\ old \in Seq(CaseStates) /\ Len(old) \in Nat /\ cases[o] \in [Categories -> Seq(CaseStates)]
      /\ cases \in [Orders -> [Categories -> Seq(CaseStates)]]
  BY DEF DeliveryInv, DeliveryTyped
<1>2. i \in 1 .. Len(old) /\ s \in CaseStates
  BY <1>1
<1>3. cases' = [cases EXCEPT ![o] = [cases[o] EXCEPT ![c] = new]]
  OBVIOUS
<1> HIDE DEF old
<1>4. /\ new \in Seq(CaseStates) /\ Len(new) = Len(old)
      /\ \A j \in 1 .. Len(old) : new[j] = IF j = i THEN s ELSE old[j]
  BY <1>1, <1>2
<1> HIDE DEF new
<1>5. /\ cases' \in [Orders -> [Categories -> Seq(CaseStates)]]
      /\ \A p \in Orders, d \in Categories :
             cases'[p][d] = IF p = o /\ d = c THEN new ELSE cases[p][d]
  <2> DEFINE row == [cases[o] EXCEPT ![c] = new]
  <2>1. /\ row \in [Categories -> Seq(CaseStates)]
        /\ \A d \in Categories : row[d] = IF d = c THEN new ELSE cases[o][d]
    BY <1>1, <1>4
  <2>2. cases' = [cases EXCEPT ![o] = row]
    BY <1>3
  <2> HIDE DEF row
  <2>3. \A p \in Orders : cases'[p] = IF p = o THEN row ELSE cases[p]
    BY <1>1, <2>2
  <2> QED
    BY <1>1, <2>1, <2>2, <2>3
<1>6. OpenIsOne'
  <2> SUFFICES ASSUME NEW p \in Orders, NEW d \in Categories,
                      NEW j \in 1 .. Len(cases'[p][d]), NEW k \in 1 .. Len(cases'[p][d]),
                      cases'[p][d][j] = "open", cases'[p][d][k] = "open"
               PROVE  j = k
    BY DEF OpenIsOne
  <2>1. CASE p = o /\ d = c
    <3>1. cases'[p][d] = new
      BY <1>5, <2>1
    <3>2. j \in 1 .. Len(old) /\ k \in 1 .. Len(old) /\ old[j] = "open" /\ old[k] = "open"
      BY <1>4, <3>1
    <3> QED
      BY <2>1, <3>2 DEF old, DeliveryInv, OpenIsOne
  <2>2. CASE ~(p = o /\ d = c)
    BY <1>5, <2>2 DEF DeliveryInv, OpenIsOne
  <2> QED
    BY <2>1, <2>2
<1>7. ASSUME NEW p \in Orders, p # o \/ s # "resolved", Unresolved(p) PROVE Unresolved(p)'
  <2>1. "sla_breach" \in Categories
    BY DEF Categories
  <2>2. CASE p = o /\ c = "sla_breach"
    <3>1. cases'[p]["sla_breach"] = new
      BY <1>5, <2>1, <2>2
    <3>2. PICK j \in 1 .. Len(old) : old[j] # "resolved"
      BY <1>7, <2>2 DEF Unresolved, old
    <3>3. new[j] # "resolved" /\ j \in 1 .. Len(new)
      BY <1>4, <1>7, <2>2, <3>2
    <3> QED
      BY <3>1, <3>3 DEF Unresolved
  <2>3. CASE ~(p = o /\ c = "sla_breach")
    <3>1. cases'[p]["sla_breach"] = cases[p]["sla_breach"]
      BY <1>5, <2>1, <2>3
    <3> QED
      BY <1>7, <3>1 DEF Unresolved
  <2> QED
    BY <2>2, <2>3
<1> QED
  BY <1>5, <1>6, <1>7

(* The shipment of one order changes, and does not begin to show a breach. *)
LEMMA ShipmentKeeps ==
    ASSUME DeliveryTyped, Breaches, NEW o \in Orders, NEW row \in Shipment, shipment' = [shipment EXCEPT ![o] = row],
           row.sla = "breached" => shipment[o].sla = "breached" /\ Unresolved(o)',
           \A p \in Orders : p # o /\ Unresolved(p) => Unresolved(p)'
    PROVE  shipment' \in [Orders -> Shipment] /\ Breaches'
<1>1. shipment \in [Orders -> Shipment]
  BY DEF DeliveryTyped
<1>2. shipment' \in [Orders -> Shipment] /\ \A p \in Orders : shipment'[p] = IF p = o THEN row ELSE shipment[p]
  BY <1>1
<1> QED
  BY <1>2 DEF Breaches

(* The fields of a shipment that is changed. *)
LEMMA ShipmentFields ==
    ASSUME NEW row \in Shipment, NEW s \in Statuses, NEW t \in SlaStates
    PROVE  /\ [row EXCEPT !.status = s] \in Shipment /\ [row EXCEPT !.status = s].sla = row.sla
           /\ [row EXCEPT !.sla = t] \in Shipment /\ [row EXCEPT !.sla = t].sla = t
           /\ [row EXCEPT !.status = s, !.sla = t] \in Shipment
           /\ [row EXCEPT !.status = s, !.sla = t].sla = t
<1>1. [row EXCEPT !.status = s] \in Shipment /\ [row EXCEPT !.status = s].sla = row.sla
  BY DEF Shipment
<1>2. [row EXCEPT !.sla = t] \in Shipment /\ [row EXCEPT !.sla = t].sla = t
  BY DEF Shipment
<1>3. [row EXCEPT !.status = s, !.sla = t] \in Shipment
  BY DEF Shipment
<1>4. [row EXCEPT !.status = s, !.sla = t].sla = t
  BY DEF Shipment
<1> QED
  BY <1>1, <1>2, <1>3, <1>4

(* What becomes of a request that is queued or tried. *)
LEMMA RequestFields ==
    ASSUME NEW q \in Request
    PROVE  /\ Done(q) \in Request /\ Failed(q) \in Request /\ Fresh(q) \in Request
           /\ [q EXCEPT !.state = "due"] \in Request /\ [q EXCEPT !.state = "cancelled"] \in Request
<1> DEFINE n == Capped(q.attempts + 1)
           s == IF Exhausted(q) THEN "failed" ELSE "waiting"
           States == {"waiting", "due", "done", "failed", "cancelled"}
<1>1. n \in 0 .. MaxAttempts /\ 0 \in 0 .. MaxAttempts
  BY DeliveryAssumption DEF Capped, Request
<1>2. s \in {"failed", "waiting"}
  OBVIOUS
<1>3. Done(q) = [q EXCEPT !.state = "done", !.attempts = n] /\ Failed(q) = [q EXCEPT !.state = s, !.attempts = n]
  BY DEF Done, Failed
<1> HIDE DEF n, s
<1>4. [q EXCEPT !.state = "done", !.attempts = n] \in Request
  BY <1>1 DEF Request
<1>5. [q EXCEPT !.state = s, !.attempts = n] \in Request
  BY <1>1, <1>2 DEF Request
<1>6. Fresh(q) \in Request
  BY <1>1 DEF Fresh, Request
<1>7. [q EXCEPT !.state = "due"] \in Request /\ [q EXCEPT !.state = "cancelled"] \in Request
  BY DEF Request
<1> QED
  BY <1>3, <1>4, <1>5, <1>6, <1>7

LEMMA CasesSame ==
    ASSUME DeliveryInv, UNCHANGED cases
    PROVE  /\ cases' \in [Orders -> [Categories -> Seq(CaseStates)]]
           /\ OpenIsOne'
           /\ \A o \in Orders : Unresolved(o) => Unresolved(o)'
BY DEF DeliveryInv, DeliveryTyped, OpenIsOne, Unresolved

LEMMA QueuedKeeps == ASSUME DeliveryTyped, NEW o \in Orders \cup {NoOrder} PROVE Queued(o) \in Seq(Request)
<1> DEFINE q == [for |-> o, state |-> "waiting", attempts |-> 0]
<1>1. q \in Request
  BY DeliveryAssumption DEF Request
<1> HIDE DEF q
<1>2. Append(queue, q) \in Seq(Request)
  BY <1>1 DEF DeliveryTyped
<1> QED
  BY <1>2 DEF Queued, DeliveryTyped, q

-----------------------------------------------------------------------------
(* Steps that change one shipment, queue a request at most and raise nothing. *)
LEMMA ShippingKeeps ==
    ASSUME DeliveryInv, UNCHANGED <<provider, cases, handled>>, queue' \in Seq(Request),
           NEW o \in Orders, NEW row \in Shipment, shipment' = [shipment EXCEPT ![o] = row],
           row.sla = "breached" => shipment[o].sla = "breached"
    PROVE  DeliveryInv'
<1>1. row.sla = "breached" => Unresolved(o)'
  BY CasesSame DEF DeliveryInv, Breaches
<1>2. shipment' \in [Orders -> Shipment] /\ Breaches'
  BY <1>1, CasesSame, ShipmentKeeps DEF DeliveryInv
<1> QED
  BY <1>2, CasesSame DEF DeliveryInv, DeliveryTyped

LEMMA ShipKeeps == ASSUME DeliveryInv, NEW o \in Orders, Ship(o) PROVE DeliveryInv'
<1> DEFINE row == [status |-> "assigned", sla |-> "on_track", late |-> FALSE]
<1>1. row \in Shipment /\ row.sla # "breached"
  BY DEF Shipment, Statuses, SlaStates
<1> HIDE DEF row
<1>2. shipment' = [shipment EXCEPT ![o] = row] /\ queue' = Queued(o) /\ UNCHANGED <<provider, cases, handled>>
  BY DEF Ship, row
<1> QED
  BY <1>1, <1>2, QueuedKeeps, ShippingKeeps DEF DeliveryInv

LEMMA OrderStepKeeps ==
    ASSUME DeliveryInv, NEW o \in Orders,
           \/ Prepare(o) \/ CreateShipment(o) \/ CancelShipment(o) \/ GenerateLabel(o)
           \/ MarkPicked(o) \/ MarkOut(o) \/ Overrun(o)
    PROVE  DeliveryInv'
<1>1. shipment[o] \in Shipment /\ queue \in Seq(Request) /\ Queued(o) \in Seq(Request)
  BY QueuedKeeps DEF DeliveryInv, DeliveryTyped
<1>2. {"pending", "picked", "out_for_delivery", "cancelled"} \subseteq Statuses /\ "cancelled" \in SlaStates
  BY DEF Statuses, SlaStates
<1>3. ASSUME NEW s \in Statuses, shipment' = [shipment EXCEPT ![o].status = s],
             UNCHANGED <<provider, queue, cases, handled>>
      PROVE  DeliveryInv'
  <2> DEFINE row == [shipment[o] EXCEPT !.status = s]
  <2>1. row \in Shipment /\ row.sla = shipment[o].sla
    BY <1>1, ShipmentFields, "resolved" \in SlaStates DEF SlaStates
  <2>2. shipment' = [shipment EXCEPT ![o] = row]
    BY <1>3
  <2> HIDE DEF row
  <2> QED
    BY <1>1, <1>3, <2>1, <2>2, ShippingKeeps
<1>4. CASE Prepare(o) \/ CreateShipment(o)
  BY <1>2, <1>3, <1>4, ShipKeeps DEF Prepare, CreateShipment
<1>5. CASE CancelShipment(o)
  <2>1. shipment' = [shipment EXCEPT ![o] = [shipment[o] EXCEPT !.status = "cancelled", !.sla = "cancelled"]]
    BY <1>5 DEF CancelShipment, DeliveryInv, DeliveryTyped
  <2>2. queue' = Queued(o) /\ UNCHANGED <<provider, cases, handled>>
    BY <1>5 DEF CancelShipment
  <2> DEFINE row == [shipment[o] EXCEPT !.status = "cancelled", !.sla = "cancelled"]
  <2>3. row \in Shipment /\ row.sla = "cancelled"
    BY <1>1, <1>2, ShipmentFields
  <2> HIDE DEF row
  <2> QED
    BY <1>1, <2>1, <2>2, <2>3, ShippingKeeps DEF row
<1>6. CASE GenerateLabel(o)
  <2>1. queue' = Queued(o) /\ UNCHANGED <<provider, shipment, cases, handled>>
    BY <1>6 DEF GenerateLabel
  <2> QED
    BY <1>1, <2>1, CasesSame DEF DeliveryInv, DeliveryTyped, Breaches
<1>7. CASE MarkPicked(o) \/ MarkOut(o)
  BY <1>2, <1>3, <1>7 DEF MarkPicked, MarkOut
<1>8. CASE Overrun(o)
  <2> DEFINE row == [shipment[o] EXCEPT !.late = TRUE]
  <2>1. row \in Shipment /\ row.sla = shipment[o].sla
    BY <1>1 DEF Shipment
  <2>2. shipment' = [shipment EXCEPT ![o] = row] /\ UNCHANGED <<provider, queue, cases, handled>>
    BY <1>8 DEF Overrun
  <2> HIDE DEF row
  <2> QED
    BY <1>1, <2>1, <2>2, ShippingKeeps
<1> QED
  BY <1>4, <1>5, <1>6, <1>7, <1>8

(* A notification of the courier. *)
LEMMA NotifyKeeps ==
    ASSUME DeliveryInv, NEW o \in Orders, NEW status \in Statuses, Notify(o, status)
    PROVE  DeliveryInv'
<1> DEFINE sla == IF status \in {"delivered", "cancelled"} THEN "resolved" ELSE shipment[o].sla
           row == [shipment[o] EXCEPT !.status = status, !.sla = sla]
<1>1. shipment[o] \in Shipment
  BY DEF DeliveryInv, DeliveryTyped
<1>2. sla \in SlaStates /\ (sla = "breached" => shipment[o].sla = "breached")
  BY <1>1 DEF Shipment, SlaStates
<1>3. shipment' = [shipment EXCEPT ![o] = row] /\ UNCHANGED <<provider, queue, handled>>
  BY DEF Notify
<1> HIDE DEF sla
<1>4. row \in Shipment /\ row.sla = sla
  BY <1>1, <1>2, ShipmentFields
<1> HIDE DEF row
<1>5. /\ cases' \in [Orders -> [Categories -> Seq(CaseStates)]] /\ OpenIsOne'
      /\ \A p \in Orders : Unresolved(p) => Unresolved(p)'
  <2>1. cases' = Raised({o}, "failed_delivery") \/ cases' = cases
    BY DEF Notify
  <2> QED
    BY <2>1, CasesSame, RaisedKeeps DEF Categories
<1>6. row.sla = "breached" => shipment[o].sla = "breached" /\ Unresolved(o)'
  BY <1>2, <1>4, <1>5 DEF DeliveryInv, Breaches
<1>7. shipment' \in [Orders -> Shipment] /\ Breaches'
  BY <1>3, <1>4, <1>5, <1>6, ShipmentKeeps DEF DeliveryInv
<1> QED
  BY <1>3, <1>5, <1>7 DEF DeliveryInv, DeliveryTyped

(* Steps that leave the shipments alone and raise something or nothing. *)
LEMMA RaisingKeeps ==
    ASSUME DeliveryInv, UNCHANGED <<shipment, handled>>, provider' \in Modes \cup {"none"},
           queue' \in Seq(Request),
           cases' = cases \/ \E os : \E c \in Categories : cases' = Raised(os, c)
    PROVE  DeliveryInv'
<1>1. /\ cases' \in [Orders -> [Categories -> Seq(CaseStates)]] /\ OpenIsOne'
      /\ \A p \in Orders : Unresolved(p) => Unresolved(p)'
  BY CasesSame, RaisedKeeps
<1> QED
  BY <1>1 DEF DeliveryInv, DeliveryTyped, Breaches

LEMMA RequestKeeps == ASSUME DeliveryInv, NEW r \in DOMAIN queue, OfRequest(r) PROVE DeliveryInv'
<1>1. queue \in Seq(Request) /\ queue[r] \in Request /\ provider \in Modes \cup {"none"}
  BY DEF DeliveryInv, DeliveryTyped
<1>2. ASSUME NEW q \in Request, queue' = [queue EXCEPT ![r] = q], UNCHANGED <<provider, shipment, handled>>,
             cases' = cases \/ cases' = Report(queue, {r})
      PROVE  DeliveryInv'
  <2>1. queue' \in Seq(Request)
    BY <1>1, <1>2
  <2>2. cases' = cases \/ \E os : \E c \in Categories : cases' = Raised(os, c)
    BY <1>2 DEF Report, Categories
  <2> QED
    BY <1>1, <1>2, <2>1, <2>2, RaisingKeeps
<1>3. CASE FallDue(r)
  BY <1>1, <1>2, <1>3, RequestFields DEF FallDue
<1>4. CASE RunNow(r)
  BY <1>1, <1>2, <1>4, RequestFields DEF RunNow
<1>5. CASE Cancel(r)
  BY <1>1, <1>2, <1>5, RequestFields DEF Cancel
<1>6. CASE Reset(r)
  BY <1>1, <1>2, <1>6, RequestFields DEF Reset
<1> QED
  BY <1>3, <1>4, <1>5, <1>6 DEF OfRequest

LEMMA RetriesKeep == ASSUME DeliveryInv, RunDueRetries PROVE DeliveryInv'
<1>1. PICK tried :
         /\ queue' = [r \in DOMAIN queue |-> IF r \notin DueRequests THEN queue[r]
                                              ELSE IF r \in tried THEN Failed(queue[r]) ELSE Done(queue[r])]
         /\ cases' = Report(queue, tried) /\ UNCHANGED <<provider, shipment, handled>>
  BY DEF RunDueRetries
<1>2. queue \in Seq(Request) /\ DOMAIN queue = 1 .. Len(queue) /\ Len(queue) \in Nat
  BY DEF DeliveryInv, DeliveryTyped
<1> DEFINE to(r) == IF r \notin DueRequests THEN queue[r]
                    ELSE IF r \in tried THEN Failed(queue[r]) ELSE Done(queue[r])
<1>3. ASSUME NEW r \in 1 .. Len(queue) PROVE to(r) \in Request
  <2>1. queue[r] \in Request
    BY <1>2
  <2>2. Failed(queue[r]) \in Request /\ Done(queue[r]) \in Request
    BY <2>1, RequestFields
  <2> QED
    BY <2>1, <2>2
<1>4. queue' = [r \in 1 .. Len(queue) |-> to(r)]
  BY <1>1, <1>2
<1> HIDE DEF to
<1>5. queue' \in Seq(Request)
  BY <1>2, <1>3, <1>4
<1>6. \E os : \E c \in Categories : cases' = Raised(os, c)
  BY <1>1 DEF Report, Categories
<1> QED
  BY <1>1, <1>5, <1>6, RaisingKeeps DEF DeliveryInv, DeliveryTyped

LEMMA MonitorKeeps == ASSUME DeliveryInv, RunSlaMonitor PROVE DeliveryInv'
<1> DEFINE os == Monitored \ Found(Monitored, "sla_breach")
           to(o) == IF o \in os THEN [shipment[o] EXCEPT !.sla = "breached"] ELSE shipment[o]
<1>1. /\ cases' = Raised(Monitored, "sla_breach") /\ UNCHANGED <<provider, queue, handled>>
      /\ shipment' = [o \in Orders |-> to(o)]
  BY DEF RunSlaMonitor
<1>2. ASSUME NEW o \in Orders
      PROVE  to(o) \in Shipment /\ (to(o).sla = "breached" => o \in os \/ shipment[o].sla = "breached")
  <2>1. shipment[o] \in Shipment /\ "breached" \in SlaStates
    BY DEF DeliveryInv, DeliveryTyped, SlaStates
  <2> HIDE DEF os
  <2>2. [shipment[o] EXCEPT !.sla = "breached"] \in Shipment
    BY <2>1 DEF Shipment
  <2> QED
    BY <2>1, <2>2
<1>3. "sla_breach" \in Categories
  BY DEF Categories
<1> HIDE DEF to
<1>4. /\ cases' \in [Orders -> [Categories -> Seq(CaseStates)]] /\ OpenIsOne'
      /\ \A o \in Orders : Unresolved(o) \/ o \in os => Unresolved(o)'
  BY <1>1, <1>3, RaisedKeeps
<1> HIDE DEF os
<1>5. shipment' \in [Orders -> Shipment] /\ Breaches'
  BY <1>1, <1>2, <1>4 DEF DeliveryInv, Breaches
<1> QED
  BY <1>1, <1>4, <1>5 DEF DeliveryInv, DeliveryTyped

LEMMA ExceptionKeeps ==
    ASSUME DeliveryInv, NEW o \in Orders, NEW c \in Categories, NEW i \in DOMAIN cases[o][c],
           Acknowledge(o, c, i) \/ Resolve(o, c, i) \/ Ignore(o, c, i)
    PROVE  DeliveryInv'
<1>1. handled' \in 0 .. MaxHandled /\ UNCHANGED <<provider, queue>>
  BY DeliveryAssumption DEF Acknowledge, Resolve, Ignore, DeliveryInv, DeliveryTyped
<1>2. CASE Acknowledge(o, c, i) \/ Ignore(o, c, i)
  <2>1. UNCHANGED shipment
    BY <1>2 DEF Acknowledge, Ignore
  <2>2. PICK s \in {"acknowledged", "ignored"} : cases' = [cases EXCEPT ![o][c][i] = s]
    BY <1>2 DEF Acknowledge, Ignore
  <2>3. s \in CaseStates \ {"open"} /\ s # "resolved"
    BY DEF CaseStates
  <2>4. /\ cases' \in [Orders -> [Categories -> Seq(CaseStates)]] /\ OpenIsOne'
        /\ \A p \in Orders : Unresolved(p) => Unresolved(p)'
    BY <2>2, <2>3, ButtonKeeps
  <2> QED
    BY <1>1, <2>1, <2>4 DEF DeliveryInv, DeliveryTyped, Breaches
<1>3. CASE Resolve(o, c, i)
  <2> DEFINE row == [shipment[o] EXCEPT !.sla = "resolved"]
  <2>1. "resolved" \in CaseStates \ {"open"} /\ cases' = [cases EXCEPT ![o][c][i] = "resolved"]
    BY <1>3 DEF CaseStates, Resolve
  <2>2. /\ cases' \in [Orders -> [Categories -> Seq(CaseStates)]] /\ OpenIsOne'
        /\ \A p \in Orders : p # o /\ Unresolved(p) => Unresolved(p)'
    BY <2>1, ButtonKeeps
  <2>3. shipment[o] \in Shipment /\ "resolved" \in SlaStates
    BY DEF DeliveryInv, DeliveryTyped, SlaStates
  <2>4. row \in Shipment /\ row.sla = "resolved" /\ shipment' = [shipment EXCEPT ![o] = row]
    BY <1>3, <2>3 DEF Shipment, Resolve, Told
  <2> HIDE DEF row
  <2>5. shipment' \in [Orders -> Shipment] /\ Breaches'
    BY <2>2, <2>4, ShipmentKeeps DEF DeliveryInv
  <2> QED
    BY <1>1, <2>2, <2>5 DEF DeliveryInv, DeliveryTyped
<1> QED
  BY <1>2, <1>3

(* Mark Delivered closes all exceptions of its order. *)
LEMMA DeliveredKeeps == ASSUME DeliveryInv, NEW o \in Orders, MarkDelivered(o) PROVE DeliveryInv'
<1> DEFINE closed(s) == [i \in DOMAIN s |-> IF Active(s[i]) THEN "resolved" ELSE s[i]]
           all == [c \in Categories |-> closed(cases[o][c])]
           row == [shipment[o] EXCEPT !.status = "delivered", !.sla = "resolved"]
<1>1. /\ shipment' = [shipment EXCEPT ![o] = row] /\ cases' = [cases EXCEPT ![o] = all]
      /\ handled < MaxHandled /\ handled' = handled + 1 /\ UNCHANGED <<provider, queue>>
  BY DEF MarkDelivered, DeliveryInv, DeliveryTyped
<1>2. ASSUME NEW c \in Categories
      PROVE  /\ closed(cases[o][c]) \in Seq(CaseStates)
             /\ \A i \in DOMAIN closed(cases[o][c]) : closed(cases[o][c])[i] # "open"
  <2> DEFINE s == cases[o][c]
  <2>1. s \in Seq(CaseStates) /\ Len(s) \in Nat /\ DOMAIN s = 1 .. Len(s) /\ "resolved" \in CaseStates
    BY DEF DeliveryInv, DeliveryTyped, CaseStates
  <2> HIDE DEF s
  <2>2. closed(s) \in Seq(CaseStates) /\ \A i \in DOMAIN closed(s) : closed(s)[i] # "open"
    BY <2>1 DEF Active
  <2> QED
    BY <2>2 DEF s
<1> HIDE DEF closed
<1>3. all \in [Categories -> Seq(CaseStates)]
  BY <1>2
<1>4. \A c \in Categories : \A i \in 1 .. Len(all[c]) : all[c][i] # "open"
  BY <1>2
<1> HIDE DEF all
<1>5. /\ cases' \in [Orders -> [Categories -> Seq(CaseStates)]]
      /\ \A p \in Orders : cases'[p] = IF p = o THEN all ELSE cases[p]
  BY <1>1, <1>3 DEF DeliveryInv, DeliveryTyped
<1>6. OpenIsOne'
  <2> SUFFICES ASSUME NEW p \in Orders, NEW c \in Categories,
                      NEW i \in 1 .. Len(cases'[p][c]), NEW j \in 1 .. Len(cases'[p][c]),
                      cases'[p][c][i] = "open", cases'[p][c][j] = "open"
               PROVE  i = j
    BY DEF OpenIsOne
  <2>1. CASE p = o
    BY <1>4, <1>5, <2>1
  <2>2. CASE p # o
    BY <1>5, <2>2 DEF DeliveryInv, OpenIsOne
  <2> QED
    BY <2>1, <2>2
<1>7. \A p \in Orders : p # o /\ Unresolved(p) => Unresolved(p)'
  BY <1>5 DEF Unresolved
<1>8. row \in Shipment /\ row.sla = "resolved"
  <2>1. shipment[o] \in Shipment /\ "delivered" \in Statuses /\ "resolved" \in SlaStates
    BY DEF DeliveryInv, DeliveryTyped, Statuses, SlaStates
  <2> QED
    BY <2>1, ShipmentFields
<1> HIDE DEF row
<1>9. shipment' \in [Orders -> Shipment] /\ Breaches'
  BY <1>1, <1>7, <1>8, ShipmentKeeps DEF DeliveryInv
<1>10. handled' \in 0 .. MaxHandled
  BY <1>1, DeliveryAssumption DEF DeliveryInv, DeliveryTyped
<1> QED
  BY <1>1, <1>5, <1>6, <1>9, <1>10 DEF DeliveryInv, DeliveryTyped

-----------------------------------------------------------------------------
LEMMA DeliveryStarts == DeliveryInit => DeliveryInv
<1> SUFFICES ASSUME DeliveryInit PROVE DeliveryInv
  OBVIOUS
<1>1. DeliveryTyped
  BY DeliveryAssumption DEF DeliveryInit, DeliveryTyped, Shipment, Statuses, SlaStates
<1>2. OpenIsOne /\ Breaches
  BY DEF DeliveryInit, OpenIsOne, Breaches
<1> QED
  BY <1>1, <1>2 DEF DeliveryInv

LEMMA DeliverySteps == DeliveryInv /\ [DeliveryNext]_deliveryVars => DeliveryInv'
<1> SUFFICES ASSUME DeliveryInv, [DeliveryNext]_deliveryVars PROVE DeliveryInv'
  OBVIOUS
<1>1. provider \in Modes \cup {"none"} /\ queue \in Seq(Request)
  BY DEF DeliveryInv, DeliveryTyped
<1>2. CASE UNCHANGED deliveryVars
  BY <1>1, <1>2, RaisingKeeps DEF deliveryVars
<1>3. ASSUME NEW mode \in Modes, Configure(mode) PROVE DeliveryInv'
  BY <1>1, <1>3, RaisingKeeps DEF Configure
<1>4. ASSUME NEW o \in Orders, OfOrder(o) PROVE DeliveryInv'
  <2>1. CASE \/ Prepare(o) \/ CreateShipment(o) \/ CancelShipment(o) \/ GenerateLabel(o)
             \/ MarkPicked(o) \/ MarkOut(o) \/ Overrun(o)
    BY <2>1, OrderStepKeeps
  <2>2. CASE MarkDelivered(o)
    BY <2>2, DeliveredKeeps
  <2>3. ASSUME NEW status \in Statuses, Notify(o, status) PROVE DeliveryInv'
    BY <2>3, NotifyKeeps
  <2>4. CASE NotifyUnsigned(o)
    BY <1>1, <2>4, RaisingKeeps DEF NotifyUnsigned, Categories
  <2>5. ASSUME NEW c \in Categories, NEW i \in DOMAIN cases[o][c],
               Acknowledge(o, c, i) \/ Resolve(o, c, i) \/ Ignore(o, c, i)
        PROVE  DeliveryInv'
    BY <2>5, ExceptionKeeps
  <2> QED
    BY <1>4, <2>1, <2>2, <2>3, <2>4, <2>5 DEF OfOrder
<1>5. ASSUME NEW r \in DOMAIN queue, OfRequest(r) PROVE DeliveryInv'
  BY <1>5, RequestKeeps
<1>6. CASE CreateManifest
  BY <1>1, <1>6, QueuedKeeps, RaisingKeeps DEF CreateManifest, DeliveryInv
<1>7. CASE RunDueRetries
  BY <1>7, RetriesKeep
<1>8. CASE RunSlaMonitor
  BY <1>8, MonitorKeeps
<1> QED
  BY <1>2, <1>3, <1>4, <1>5, <1>6, <1>7, <1>8 DEF DeliveryNext

(* DeliveryInv holds whatever operators, the courier and the two jobs do, in   *)
(* whatever order.                                                            *)
THEOREM DeliveryInductive == DeliverySpec => []DeliveryInv
BY DeliveryStarts, DeliverySteps, PTL DEF DeliverySpec

LEMMA DeliveryInvTypes == DeliveryInv => DeliveryTypeOK
BY DEF DeliveryInv, DeliveryTyped, DeliveryTypeOK, Shipment

(* Shipments, requests and exceptions stay in their domains.                   *)
THEOREM DeliveryTypeCorrect == DeliverySpec => []DeliveryTypeOK
BY DeliveryInductive, DeliveryInvTypes, PTL

(* No order has two open exceptions of one category, whoever raises them.      *)
THEOREM OneOpenCorrect == DeliverySpec => []OneOpenException
<1>1. DeliveryInv => OneOpenException
  <2> SUFFICES ASSUME DeliveryInv, NEW o \in Orders, NEW c \in Categories
               PROVE  Cardinality({i \in DOMAIN cases[o][c] : cases[o][c][i] = "open"}) <= 1
    BY DEF OneOpenException
  <2> DEFINE S == {i \in DOMAIN cases[o][c] : cases[o][c][i] = "open"}
  <2>1. \A i, j \in S : i = j
    BY DEF DeliveryInv, DeliveryTyped, OpenIsOne
  <2> HIDE DEF S
  <2>2. S = {} => Cardinality(S) <= 1
    <3>1. Cardinality({}) = 0
      BY FS_EmptySet
    <3> QED
      BY <3>1
  <2>3. ASSUME NEW i \in S PROVE Cardinality(S) <= 1
    <3>1. S = {i}
      BY <2>1
    <3>2. Cardinality({i}) = 1
      BY FS_Singleton
    <3> QED
      BY <3>1, <3>2
  <2>4. Cardinality(S) <= 1
    BY <2>2, <2>3
  <2> QED
    BY <2>4 DEF S
<1> QED
  BY DeliveryInductive, <1>1, PTL

(* An order that shows a breach has an exception about it that nobody resolved. *)
THEOREM BreachExplainedCorrect == DeliverySpec => []BreachExplained
<1>1. DeliveryInv => BreachExplained
  <2> SUFFICES ASSUME DeliveryInv, NEW o \in Orders, shipment[o].sla = "breached"
               PROVE  \E i \in DOMAIN cases[o]["sla_breach"] : cases[o]["sla_breach"][i] # "resolved"
    BY DEF BreachExplained
  <2>1. cases[o]["sla_breach"] \in Seq(CaseStates)
    BY DEF DeliveryInv, DeliveryTyped, Categories
  <2> QED
    BY <2>1 DEF DeliveryInv, Breaches, Unresolved
<1> QED
  BY DeliveryInductive, <1>1, PTL

-----------------------------------------------------------------------------
(* The three together, as they run: each behaviour is of one of them and leaves *)
(* the other two as they were.                                                 *)
OrdersInv == KioskInv /\ FbrInv /\ DeliveryInv

LEMMA OrdersKeep == OrdersInv /\ [MCNext]_commerceVars => OrdersInv'
<1> SUFFICES ASSUME OrdersInv, [MCNext]_commerceVars PROVE OrdersInv'
  OBVIOUS
<1>1. [KioskNext]_kioskVars /\ [FbrNext]_fbrVars /\ [DeliveryNext]_deliveryVars
  BY Zenon DEF MCNext, commerceVars
<1> QED
  BY <1>1, KioskSteps, FbrSteps, DeliverySteps, Zenon DEF OrdersInv

(* Every order, form, record, request and exception stays in its domain, in     *)
(* whichever of the three something happens (OrdersTypeOK).                    *)
THEOREM OrdersTypeCorrect == MCSpec => []OrdersTypeOK
<1>1. MCInit => OrdersInv
  BY KioskStarts, FbrStarts, DeliveryStarts, Zenon DEF MCInit, OrdersInv
<1>2. OrdersInv => OrdersTypeOK
  BY FbrInvTypes, DeliveryInvTypes, Zenon DEF OrdersInv, OrdersTypeOK, KioskInv
<1> QED
  BY <1>1, <1>2, OrdersKeep, PTL DEF MCSpec
==============================================================================
