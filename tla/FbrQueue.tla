------------------------------- MODULE FbrQueue -------------------------------
(***************************************************************************)
(* The queue of POS invoices for the tax authority (FBR): records queued    *)
(* from orders, submitted by a scheduled job or by a manager's button, over *)
(* an HTTP request that may be lost, refused, or accepted without an answer *)
(* in time.                                                                *)
(*                                                                         *)
(* A submission is a transaction of several steps: it reads the records it  *)
(* will submit, sends them one by one, and then commits all results or, if  *)
(* the server stops or another transaction wrote one of its rows first,     *)
(* none of them.  What the authority accepted stays accepted.               *)
(***************************************************************************)
EXTENDS Naturals, Sequences, FiniteSets

CONSTANTS PosOrders,     \* POS orders
          Clerk,      \* the one who submits a record with its button
          Job,        \* the scheduled job
          MaxRecords, \* a bound: records queued
          MaxStops    \* a bound: times the server stops in the middle of a submission

ASSUME FbrAssumption == MaxRecords \in Nat /\ MaxStops \in Nat

VARIABLES records,    \* the queue: [order, state]
          printed,    \* printed[o]: the record whose number order o shows, 0 for none
          accepted,   \* the invoices the authority has, by idempotency key
          txn,        \* txn[w]: the submission w is in the middle of
          stops       \* times the server has stopped

fbrVars == <<records, printed, accepted, txn, stops>>

Workers  == {Clerk, Job}
Ids      == 1 .. MaxRecords
FbrState == {"draft", "queued", "submitted", "failed", "cancelled"}
Outcomes == {"answered", "silent", "refused", "lost"}
Idle     == [active |-> FALSE, old |-> <<>>, shown |-> [o \in PosOrders |-> 0],
             todo |-> {}, answered |-> {}, failed |-> {}]

Begin(ids) == [active |-> TRUE, old |-> records, shown |-> printed,
               todo |-> ids, answered |-> {}, failed |-> {}]

-----------------------------------------------------------------------------
(* A key of the attempt (a fault). *)
AttemptKey(w, r) == <<r, w>>

(* The idempotency key is a field of the record: every attempt sends the same. *)
Key(w, r) == <<r, "record">>

Create(o, state) ==
    /\ Len(records) < MaxRecords
    /\ records' = Append(records, [order |-> o, state |-> state])
    /\ UNCHANGED <<printed, accepted, txn, stops>>

(* action_tijara_queue_fbr_invoice: a record each time it is pressed. *)
QueueInvoice(o) == Create(o, "queued")
NewDraft(o)     == Create(o, "draft")

(* A search that forgets the queue (a fault). *)
NothingFound == {}

QueuedIds == {r \in DOMAIN records : records[r].state = "queued"}

JobStarts ==
    /\ ~txn[Job].active /\ QueuedIds # {}
    /\ txn' = [txn EXCEPT ![Job] = Begin(QueuedIds)]
    /\ UNCHANGED <<records, printed, accepted, stops>>

ClerkSubmits(r) ==
    /\ ~txn[Clerk].active /\ r \in DOMAIN records /\ records[r].state = "queued"
    /\ txn' = [txn EXCEPT ![Clerk] = Begin({r})]
    /\ UNCHANGED <<records, printed, accepted, stops>>

(* Any answer that can be read counts (a fault). *)
Trusting(outcome) == outcome \in {"answered", "refused"}

(* _validated_response_values: a success status and an invoice number. *)
Success(outcome) == outcome = "answered"

(* One request.  "silent": accepted, but the answer is late, lost or unreadable. *)
Send(w, r, outcome) ==
    /\ r \in txn[w].todo
    /\ accepted' = IF outcome \in {"answered", "silent"} THEN accepted \cup {Key(w, r)} ELSE accepted
    /\ txn' = [txn EXCEPT ![w] = IF Success(outcome)
                                 THEN [txn[w] EXCEPT !.todo = @ \ {r}, !.answered = @ \cup {r}]
                                 ELSE [txn[w] EXCEPT !.todo = @ \ {r}, !.failed = @ \cup {r}]]
    /\ UNCHANGED <<records, printed, stops>>

(* The status of the answer in place of the record's (a fault). *)
AnswerResults(t) == [r \in DOMAIN records |->
    IF r \in t.answered THEN [records[r] EXCEPT !.state = "accepted"] ELSE records[r]]

Results(t) == [r \in DOMAIN records |-> IF r \in t.answered THEN [records[r] EXCEPT !.state = "submitted"]
                                        ELSE IF r \in t.failed THEN [records[r] EXCEPT !.state = "failed"]
                                        ELSE records[r]]

(* Of two records of one order, the number of the one submitted last is shown. *)
Numbers(t) == [o \in PosOrders |->
    LET mine == {r \in t.answered : records[r].order = o}
    IN  IF mine = {} THEN printed[o] ELSE CHOOSE r \in mine : \A q \in mine : q <= r]

(* A row that the transaction writes has changed since it was read. *)
Conflict(t) ==
    \/ \E r \in t.answered \cup t.failed : records[r] # t.old[r]
    \/ \E r \in t.answered : printed[records[r].order] # t.shown[records[r].order]

(* On a conflict the server runs the clerk's request again, which does not look *)
(* at the record's state; the job's run is given up until the next.             *)
Finish(w) ==
    /\ txn[w].active /\ txn[w].todo = {}
    /\ IF Conflict(txn[w])
       THEN /\ txn' = [txn EXCEPT ![w] = IF w = Clerk THEN Begin(txn[w].answered \cup txn[w].failed) ELSE Idle]
            /\ UNCHANGED <<records, printed>>
       ELSE /\ records' = Results(txn[w])
            /\ printed' = Numbers(txn[w])
            /\ txn' = [txn EXCEPT ![w] = Idle]
    /\ UNCHANGED <<accepted, stops>>

(* The server stops, or a worker's time limit ends it. *)
Stop(w) ==
    /\ txn[w].active /\ stops < MaxStops
    /\ txn' = [txn EXCEPT ![w] = Idle]
    /\ stops' = stops + 1
    /\ UNCHANGED <<records, printed, accepted>>

SetState(r, from, to) ==
    /\ r \in DOMAIN records /\ records[r].state \in from
    /\ records' = [records EXCEPT ![r].state = to]
    /\ UNCHANGED <<printed, accepted, txn, stops>>

QueueRecord(r)  == SetState(r, {"draft"}, "queued")
MarkFailed(r)   == SetState(r, {"queued", "submitted"}, "failed")
CancelRecord(r) == SetState(r, {"draft", "queued", "failed"}, "cancelled")

-----------------------------------------------------------------------------
FbrInit ==
    /\ records = <<>>
    /\ printed = [o \in PosOrders |-> 0]
    /\ accepted = {}
    /\ txn = [w \in Workers |-> Idle]
    /\ stops = 0

FbrNext ==
    \/ \E o \in PosOrders : QueueInvoice(o) \/ NewDraft(o)
    \/ JobStarts
    \/ \E r \in Ids : QueueRecord(r) \/ ClerkSubmits(r) \/ MarkFailed(r) \/ CancelRecord(r)
    \/ \E w \in Workers, r \in Ids, outcome \in Outcomes : Send(w, r, outcome)
    \/ \E w \in Workers : Finish(w) \/ Stop(w)

(* The job runs every five minutes once it is switched on; a request ends, by *)
(* its time limit at the latest.                                              *)
FbrFairness ==
    /\ WF_fbrVars(JobStarts)
    /\ \A w \in Workers, r \in Ids : WF_fbrVars(\E outcome \in Outcomes : Send(w, r, outcome))
    /\ \A w \in Workers : WF_fbrVars(Finish(w))

FbrSpec == FbrInit /\ [][FbrNext]_fbrVars /\ FbrFairness

-----------------------------------------------------------------------------
FbrTypeOK ==
    /\ records \in Seq([order : PosOrders, state : FbrState]) /\ Len(records) <= MaxRecords
    /\ printed \in [PosOrders -> 0 .. MaxRecords]
    /\ \A w \in Workers : txn[w].todo \cup txn[w].answered \cup txn[w].failed \subseteq DOMAIN txn[w].old

(* However often a record is sent, by the job and by a clerk, after stops and *)
(* lost answers, the authority has one invoice for it.                        *)
OneInvoicePerRecord == \A r \in Ids : Cardinality({k \in accepted : k[1] = r}) <= 1

(* What is shown as submitted, and the number printed on a receipt, exist at  *)
(* the authority; and a submitted record's order shows a number of its own:   *)
(* the two are written together or not at all.                                *)
SubmittedKnown ==
    /\ \A r \in DOMAIN records : records[r].state = "submitted" =>
          /\ \E k \in accepted : k[1] = r
          /\ LET n == printed[records[r].order] IN n # 0 /\ records[n].order = records[r].order
    /\ \A o \in PosOrders : printed[o] # 0 => \E k \in accepted : k[1] = printed[o]

(* A record that the authority accepted does not stay queued, although the    *)
(* run that sent it was stopped before it could commit.                       *)
RecordsIn(r, state) == r \in DOMAIN records /\ records[r].state = state
QueueDrains == \A r \in Ids : RecordsIn(r, "queued") ~> ~RecordsIn(r, "queued")
===============================================================================
