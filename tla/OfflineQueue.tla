---------------------------- MODULE OfflineQueue ----------------------------
(***************************************************************************)
(* tijara.offline.pos.queue: the table of sales captured by browsers while *)
(* they were offline, and the transactions that capture, validate, replay  *)
(* and review its rows.                                                    *)
(*                                                                         *)
(* Every HTTP request, button and cron run is one PostgreSQL transaction   *)
(* at REPEATABLE READ: it works on the snapshot its first statement took,  *)
(* its writes appear when it commits, and it is rolled back if it wrote a  *)
(* row that somebody else committed in between.  The table has no unique   *)
(* constraint, so two inserts never conflict.                              *)
(***************************************************************************)
EXTENDS Naturals, FiniteSets

CONSTANTS Rows,       \* ids the table may hand out
          Uids,       \* (source_device_id, source_order_uid) of a sale
          Devices,    \* source_device_id
          DeviceOf,   \* the device part of a uid
          Payloads,   \* payload_json; equal payloads have equal payload_hash
          UidOf,      \* the uid written inside a captured payload
          Empty,      \* the payloads without order lines
          Workers,    \* server threads, each running one transaction at a time
          Requests,   \* bound: the kinds of request the environment makes
          Limits,     \* how many rows a pending run may be told to take
          StaleForms, \* whether a reviewer may click on a form loaded long ago
          None,
          MaxOrders   \* bound: POS orders the model lets one row produce

Buttons == {"validate", "replay", "retry", "mark_duplicate", "merge_duplicate",
            "mark_replayed", "cancel", "fail"}

ASSUME QueueAssumption ==
    /\ DeviceOf \in [Uids -> Devices]
    /\ UidOf \in [Payloads -> Uids]
    /\ Empty \subseteq Payloads
    /\ None \notin Rows \cup Uids \cup Payloads \cup Workers
    /\ Requests \subseteq Buttons \cup {"capture", "import", "pending"}
    /\ Limits \subseteq Nat \ {0}
    /\ StaleForms \in BOOLEAN
    /\ MaxOrders \in Nat

VARIABLES queue,      \* the committed table
          orders,     \* orders[r]: committed POS orders created from row r
          reopened,   \* history: how often a row with an order in force left "replayed"
          lock,       \* holder of pg_advisory_xact_lock(19062026, register)
          txn         \* txn[w]: the transaction worker w runs

vars == <<queue, orders, reopened, lock, txn>>

States  == {"queued", "validated", "replayed", "conflict", "failed",
            "duplicate", "merged", "cancelled"}
Pending == {"queued", "validated", "failed"}
NoRow   == [uid |-> None, payload |-> None, state |-> "absent", dup |-> None, into |-> None]

Row == [uid : Uids \cup {None}, payload : Payloads \cup {None},
        state : States \cup {"absent"}, dup : Rows \cup {None}, into : Rows \cup {None}]

(* A request: what the controller, the button or the cron was called with. *)
Job == {j \in [op : Buttons \cup {"none", "capture", "import", "pending"},
                uid : Uids \cup {None}, payload : Payloads \cup {None},
                row : Rows \cup {None}, lock : BOOLEAN] : j.op \in Buttons => j.row \in Rows}
NoJob == [op |-> "none", uid |-> None, payload |-> None, row |-> None, lock |-> FALSE]

Idle == [phase |-> "idle", job |-> NoJob, view |-> [r \in Rows |-> NoRow],
         todo |-> {}, dirty |-> {}, stale |-> {}, made |-> {}]

Txn == [phase : {"idle", "begun", "run"}, job : Job, view : [Rows -> Row],
        todo : SUBSET Rows, dirty : SUBSET Rows, stale : SUBSET Rows, made : SUBSET Rows]

Ledger == INSTANCE OrderLedger
InForce(r) == Ledger!InForce(r)

Exists(t, r) == t[r].state # "absent"
Running(w)   == txn[w].phase # "idle"

-----------------------------------------------------------------------------
(* Reads and row updates, on the table t a transaction sees. *)

(* action_validate_payload: the rows r may become.  Another live row of the *)
(* same device with the same payload hash makes it a conflict.              *)
Validated(t, r) ==
    LET row  == t[r]
        dups == {d \in Rows \ {r} : /\ t[d].state \in {"validated", "replayed", "conflict"}
                                    /\ t[d].payload = row.payload
                                    /\ DeviceOf[t[d].uid] = DeviceOf[row.uid]}
    IN  IF row.payload \in Empty THEN {[row EXCEPT !.state = "failed"]}
        ELSE IF dups = {} THEN {[row EXCEPT !.state = "validated", !.dup = None]}
        ELSE {[row EXCEPT !.state = "conflict", !.dup = d] : d \in dups}

(* A replay that only compares payload hashes (a fault the runs must notice). *)
ReplaysByHash(t, r) == {d \in Rows \ {r} : t[d].payload = t[r].payload /\ t[d].state = "replayed"}

(* The rows _create_replayed_pos_order treats as an earlier replay of r. *)
Replays(t, r) == {d \in Rows \ {r} : t[d].uid = t[r].uid /\ t[d].state = "replayed"}

(* _find_duplicate_queue: by uid if that finds a row, by payload otherwise. *)
FindDuplicate(t, r) ==
    LET near   == {d \in Rows \ {r} : t[d].state \in
                      {"validated", "replayed", "conflict", "duplicate", "merged"}}
        sameId == {d \in near : t[d].uid = t[r].uid}
    IN  IF sameId # {} THEN sameId ELSE {d \in near : t[d].payload = t[r].payload}

-----------------------------------------------------------------------------
(* Transactions. *)

Begin(w, j) ==
    /\ txn[w].phase = "idle"
    /\ j.op \in Requests
    /\ txn' = [txn EXCEPT ![w] = [Idle EXCEPT !.phase = "begun", !.job = j, !.view = queue]]
    /\ UNCHANGED <<queue, orders, reopened, lock>>

(* The statement that needs the register's lock waits until it is free. *)
MayLock(w) == lock \in {None, w}

(* w writes row r of its own view; the rows in "next" are still to be replayed. *)
Put(w, r, row, next) ==
    txn' = [txn EXCEPT ![w] = [txn[w] EXCEPT !.phase = "run", !.view[r] = row,
                                        !.dirty = @ \cup {r}, !.todo = next]]

Keep(w, next) == txn' = [txn EXCEPT ![w] = [txn[w] EXCEPT !.phase = "run", !.todo = next]]

Release(w) == lock' = IF lock = w THEN None ELSE lock

Commit(w) ==
    LET t == txn[w] IN
    /\ t.phase = "run" /\ t.todo = {}
    /\ t.dirty \cap t.stale = {}
    /\ queue' = [r \in Rows |-> IF r \in t.dirty THEN t.view[r] ELSE queue[r]]
    /\ orders' = [r \in Rows |-> IF r \in t.made THEN orders[r] + 1 ELSE orders[r]]
    /\ reopened' = [r \in Rows |-> IF r \in t.dirty /\ InForce(r) /\ t.view[r].state # "replayed"
                                   THEN reopened[r] + 1 ELSE reopened[r]]
    /\ txn' = [x \in Workers |-> IF x = w THEN Idle
                                 ELSE IF Running(x)
                                 THEN [txn[x] EXCEPT !.stale = @ \cup t.dirty] ELSE txn[x]]
    /\ Release(w)

(* "could not serialize access": rolled back and run again on a new snapshot. *)
SerializationFailure(w) ==
    /\ txn[w].phase = "run"
    /\ txn[w].dirty \cap txn[w].stale # {}
    /\ txn' = [txn EXCEPT ![w] = [Idle EXCEPT !.phase = "begun", !.job = txn[w].job, !.view = queue]]
    /\ Release(w)
    /\ UNCHANGED <<queue, orders, reopened>>

(* The worker dies, times out or runs out of retries: nothing is committed. *)
Abort(w) ==
    /\ Running(w)
    /\ txn' = [txn EXCEPT ![w] = Idle]
    /\ Release(w)
    /\ UNCHANGED <<queue, orders, reopened>>

-----------------------------------------------------------------------------
(* tijara_capture_from_browser *)

BeginCapture(w, p, replay) ==
    Begin(w, [NoJob EXCEPT !.op = "capture", !.uid = UidOf[p], !.payload = p, !.lock = replay])

(* The search takes the row captured last; which one of several rows of a   *)
(* sale that is, the model leaves open.  A new row gets an id nobody has    *)
(* used: ids come from a sequence, also in open transactions.          *)
Fresh(r) == ~Exists(queue, r) /\ \A x \in Workers : r \notin txn[x].dirty

CaptureLock(w) ==
    IF txn[w].job.lock THEN MayLock(w) /\ lock' = w ELSE UNCHANGED lock

(* A capture that forgets the early return for replayed rows (a fault). *)
AlwaysRecapture(row) == FALSE

(* A row already replayed is answered "duplicate" and left alone. *)
AlreadyReplayed(row) == row.state = "replayed"

CaptureUpsert(w) ==
    LET t     == txn[w].view
        j     == txn[w].job
        found == {r \in Rows : t[r].uid = j.uid}
    IN
    /\ txn[w].phase = "begun" /\ j.op = "capture"
    /\ CaptureLock(w)
    /\ \E r \in IF found # {} THEN found ELSE {f \in Rows : Fresh(f)} :
          IF AlreadyReplayed(t[r])
          THEN txn' = [txn EXCEPT ![w] = [txn[w] EXCEPT !.phase = "run", !.job.row = r]]
          ELSE \E v \in Validated([t EXCEPT ![r] = [t[r] EXCEPT !.uid = j.uid, !.payload = j.payload,
                                                            !.state = "queued"]], r) :
                  txn' = [txn EXCEPT ![w] =
                     [txn[w] EXCEPT !.phase = "run", !.job.row = r, !.view[r] = v, !.dirty = {r},
                               !.todo = IF j.lock /\ v.state = "validated" THEN {r} ELSE {}]]
    /\ UNCHANGED <<queue, orders, reopened>>

(* A browser that takes every successful answer for a booking (a fault). *)
AcknowledgesAny(w) == txn[w].job.op = "capture"

(* What the browser is told: the row's queue_state, or "duplicate" for a    *)
(* row already replayed; both make it drop its entry.                       *)
Acknowledges(w) == txn[w].job.op = "capture" /\ txn[w].view[txn[w].job.row].state = "replayed"

-----------------------------------------------------------------------------
(* create(): a row entered or imported in the back office. *)

BeginImport(w, u, p) ==
    Begin(w, [NoJob EXCEPT !.op = "import", !.uid = u, !.payload = p])

ImportRow(w) ==
    LET j == txn[w].job IN
    /\ txn[w].phase = "begun" /\ j.op = "import"
    /\ \E r \in {f \in Rows : Fresh(f)} :
          Put(w, r, [NoRow EXCEPT !.uid = j.uid, !.payload = j.payload, !.state = "queued"], {})
    /\ UNCHANGED <<queue, orders, reopened, lock>>

-----------------------------------------------------------------------------
(* tijara_replay_pending (the cron and /tijara/offline-pos/replay): the     *)
(* pending rows, of one device if the caller names it, and no more than the *)
(* caller's limit.  Which ones are oldest the model leaves open.            *)

BeginPending(w) ==
    Begin(w, [NoJob EXCEPT !.op = "pending"])

PendingRows(t, d) ==
    {r \in Rows : t[r].state \in Pending /\ d \in {None, DeviceOf[t[r].uid]}}

SelectPending(w) ==
    /\ txn[w].phase = "begun" /\ txn[w].job.op = "pending"
    /\ \E n \in Limits, d \in Devices \cup {None} :
          \E S \in SUBSET PendingRows(txn[w].view, d) :
             /\ Cardinality(S) = n \/ (S = PendingRows(txn[w].view, d) /\ Cardinality(S) < n)
             /\ Keep(w, S)
    /\ UNCHANGED <<queue, orders, reopened, lock>>

(* A replay that validates whatever state the row is in (a fault). *)
RevalidateAll(t, r) == Validated(t, r)

(* action_replay_to_pos, one iteration.  v is the row after the validation  *)
(* that queued and failed rows get first.                                   *)
ToReplay(t, r) == IF t[r].state \in {"queued", "failed"} THEN Validated(t, r) ELSE {t[r]}

ReplaySkip(w, r) ==
    /\ r \in txn[w].todo
    /\ \E v \in ToReplay(txn[w].view, r) :
          /\ v.state # "validated"
          /\ IF txn[w].view[r].state \in {"queued", "failed"}
             THEN Put(w, r, v, txn[w].todo \ {r})
             ELSE Keep(w, txn[w].todo \ {r})
    /\ UNCHANGED <<queue, orders, reopened, lock>>

ReplayConflict(w, r) ==
    /\ r \in txn[w].todo
    /\ MayLock(w) /\ lock' = w
    /\ \E v \in ToReplay(txn[w].view, r), d \in Replays(txn[w].view, r) :
          /\ v.state = "validated"
          /\ Put(w, r, [v EXCEPT !.state = "conflict", !.dup = d], txn[w].todo \ {r})
    /\ UNCHANGED <<queue, orders, reopened>>

(* A replay that creates the order and leaves the row as it was (a fault). *)
BookWithoutState(w, r) ==
    /\ r \in txn[w].todo
    /\ orders[r] < MaxOrders
    /\ MayLock(w) /\ lock' = w
    /\ \E v \in ToReplay(txn[w].view, r) :
          /\ v.state = "validated"
          /\ txn' = [txn EXCEPT ![w] = [txn[w] EXCEPT !.view[r] = v, !.dirty = @ \cup {r},
                                      !.made = @ \cup {r}, !.todo = @ \ {r}]]
    /\ UNCHANGED <<queue, orders, reopened>>

ReplayBook(w, r) ==
    /\ r \in txn[w].todo
    /\ orders[r] < MaxOrders
    /\ MayLock(w) /\ lock' = w
    /\ Replays(txn[w].view, r) = {}
    /\ \E v \in ToReplay(txn[w].view, r) :
          /\ v.state = "validated"
          /\ txn' = [txn EXCEPT ![w] = [txn[w] EXCEPT !.view[r] = [v EXCEPT !.state = "replayed"],
                                      !.dirty = @ \cup {r}, !.made = @ \cup {r},
                                      !.todo = @ \ {r}]]
    /\ UNCHANGED <<queue, orders, reopened>>

(* A missing product, payment method or session, or a lock timeout: the     *)
(* savepoint is rolled back, with it a lock taken inside it.                *)
ReplayError(w, r) ==
    /\ r \in txn[w].todo
    /\ MayLock(w)
    /\ Replays(txn[w].view, r) = {}
    /\ \E v \in ToReplay(txn[w].view, r) :
          /\ v.state = "validated"
          /\ Put(w, r, [v EXCEPT !.state = "failed"], txn[w].todo \ {r})
    /\ UNCHANGED <<queue, orders, reopened, lock>>

-----------------------------------------------------------------------------
(* The review workbench.  The form hides buttons by the state it was loaded *)
(* with; the methods themselves check nothing.                              *)

Shown(b) == CASE b = "validate"        -> {"queued", "failed", "conflict"}
              [] b = "replay"          -> {"queued", "validated", "failed"}
              [] b = "retry"           -> {"queued", "failed", "cancelled"}
              [] b = "mark_duplicate"  -> {"conflict", "failed"}
              [] b = "merge_duplicate" -> {"conflict", "duplicate"}
              [] b = "mark_replayed"   -> {"validated", "conflict"}
              [] b = "cancel"          -> {"queued", "validated", "conflict", "failed"}
              [] b = "fail"            -> States \ {"failed"}

Click(w, r, b) ==
    /\ Exists(queue, r)
    /\ queue[r].state \in Shown(b) \/ StaleForms
    /\ Begin(w, [NoJob EXCEPT !.op = b, !.row = r])

(* action_mark_duplicate and action_merge_duplicate prefer the links a row  *)
(* already has; without any row to point to they raise a UserError.         *)
Duplicates(t, r) == IF t[r].dup # None THEN {t[r].dup} ELSE FindDuplicate(t, r)
MergeInto(t, r)  == IF t[r].into # None THEN {t[r].into} ELSE Duplicates(t, r)

(* A retry that leaves the row in a state the field does not know (a fault). *)
RetryUnknownState(b, s) == CASE b = "mark_replayed" -> "replayed"
                             [] b = "cancel"        -> "cancelled"
                             [] b = "fail"          -> "failed"
                             [] b = "retry"         -> "retrying"

ResultState(b, s) == CASE b = "mark_replayed" -> "replayed"
                       [] b = "cancel"        -> "cancelled"
                       [] b = "fail"          -> "failed"
                       [] b = "retry"         -> IF s \in {"failed", "cancelled"} THEN "queued" ELSE s

(* The rows button b may turn row r into. *)
Reviewed(t, r, b) ==
    IF b = "validate" THEN Validated(t, r)
    ELSE IF b = "mark_duplicate"
    THEN {[t[r] EXCEPT !.state = "duplicate", !.dup = d] : d \in Duplicates(t, r)}
    ELSE IF b = "merge_duplicate"
    THEN {[t[r] EXCEPT !.state = "merged", !.dup = d, !.into = d] : d \in MergeInto(t, r)}
    ELSE {[t[r] EXCEPT !.state = ResultState(b, t[r].state)]}

ReviewRow(w) ==
    LET j == txn[w].job IN
    /\ txn[w].phase = "begun" /\ j.op \in Buttons
    /\ IF j.op = "replay" THEN Keep(w, {j.row})
       ELSE \E v \in Reviewed(txn[w].view, j.row, j.op) :
               Put(w, j.row, v, IF j.op = "retry" THEN {j.row} ELSE {})
    /\ UNCHANGED <<queue, orders, reopened, lock>>

-----------------------------------------------------------------------------
Init ==
    /\ queue = [r \in Rows |-> NoRow]
    /\ Ledger!Init
    /\ lock = None
    /\ txn = [w \in Workers |-> Idle]

Capture(w)  == (\E p \in Payloads, b \in BOOLEAN : BeginCapture(w, p, b)) \/ CaptureUpsert(w)
Import(w)   == (\E u \in Uids, p \in Payloads : BeginImport(w, u, p)) \/ ImportRow(w)
Replay(w)   == \E r \in Rows : \/ ReplaySkip(w, r) \/ ReplayConflict(w, r)
                               \/ ReplayBook(w, r) \/ ReplayError(w, r)
Pend(w)     == BeginPending(w) \/ SelectPending(w)
Review(w)   == (\E r \in Rows, b \in Buttons : Click(w, r, b)) \/ ReviewRow(w)
Finish(w)   == Commit(w) \/ SerializationFailure(w) \/ Abort(w)

Next == \E w \in Workers : Capture(w) \/ Import(w) \/ Pend(w) \/ Replay(w) \/ Review(w) \/ Finish(w)

Spec == Init /\ [][Next]_vars

-----------------------------------------------------------------------------
(* Properties *)

(* Every variable stays in its domain. *)
TypeOK == /\ queue \in [Rows -> Row]
          /\ orders \in [Rows -> Nat]
          /\ reopened \in [Rows -> Nat]
          /\ lock \in Workers \cup {None}
          /\ txn \in [Workers -> Txn]

(* A row with a POS order in force is replayed: captures of the same sale,  *)
(* cron runs and buttons, interleaved and retried in any way, never leave   *)
(* it queued, failed or in conflict, where it could be replayed again.      *)
InForceIsReplayed == \A r \in Rows : InForce(r) => queue[r].state = "replayed"

(* However transactions interleave, a row yields one POS order, and one     *)
(* more only for each time a reviewer took the booked row back.             *)
BookedOnce == \A r \in Rows : orders[r] <= reopened[r] + 1

(* Two rows of one sale (the same device and order uid) never both have a   *)
(* POS order in force: the replay checks the uid, not only the hash.        *)
OneOrderPerSale ==
    \A r1, r2 \in Rows : /\ r1 # r2
                         /\ InForce(r1) /\ InForce(r2)
                         => queue[r1].uid # queue[r2].uid

(* Only a review button takes a booked row back; a capture sent again or a  *)
(* replay run never does, whatever snapshot it started from.                *)
OnlyReviewReopens ==
    [][\A r \in Rows : reopened'[r] # reopened[r] =>
          \E w \in Workers : txn[w].job.op \in Buttons /\ txn[w].phase = "run"
                             /\ txn'[w] = Idle]_vars

(* The queue implements the order ledger: a transaction books rows that     *)
(* have no order in force or takes booked rows back, never both.            *)
LedgerSpec == Ledger!Spec

(* The inductive invariant.  What a transaction has not written and nobody  *)
(* has committed since its snapshot is current; the rows it booked, still   *)
(* has to replay, or wrote without a reviewer, have no order in force       *)
(* unless somebody else committed them, and then it cannot commit.          *)
TxnInv(w, r) ==
    LET t == txn[w] IN
    /\ t.phase # "run" => t.dirty = {} /\ t.made = {} /\ t.todo = {}
    /\ Running(w) /\ r \notin t.stale \cup t.dirty => t.view[r] = queue[r]
    /\ r \in t.made => r \in t.dirty /\ t.view[r].state = "replayed"
    /\ r \in t.made \ t.stale => ~InForce(r)
    /\ r \in t.dirty \ t.stale /\ t.job.op \notin Buttons => ~InForce(r)
    /\ r \in t.todo \ t.stale => t.view[r].state = "replayed" \/ ~InForce(r)
    /\ t.job.op \in Buttons => t.dirty \cup t.todo \subseteq {t.job.row}

IInv == /\ InForceIsReplayed
        /\ BookedOnce
        /\ \A w \in Workers, r \in Rows : TxnInv(w, r)
=============================================================================
