------------------------- MODULE OfflineQueueProofs -------------------------
(***************************************************************************)
(* Theorems about OfflineQueue and about OfflinePos, which composes it     *)
(* with the browser, for any number of rows, sales, payloads, workers and  *)
(* passes.                                                                 *)
(*  - The queue alone: the types, the inductive invariant IInv, the safety *)
(*    of the rows' orders, the action property on reviews, the refinement  *)
(*    of OrderLedger.  SaleInv strengthens IInv for workers that do not    *)
(*    overlap: one order for each sale.                                    *)
(*  - The composition: PosInv says that without a reviewer a replayed row  *)
(*    stays so, that a capture holds the row of its sale, and that a pass  *)
(*    somebody works for waits; Carries, that what is not booked is in the *)
(*    list and in every pass that will write the list.                     *)
(***************************************************************************)
EXTENDS OfflinePos, TLAPS

(* Changing the state or the links of a row gives a row. *)
LEMMA RowUpdate ==
    ASSUME NEW row \in Row, NEW s \in States \cup {"absent"},
           NEW d \in Rows \cup {None}, NEW i \in Rows \cup {None}
    PROVE  /\ [row EXCEPT !.state = s] \in Row
           /\ [row EXCEPT !.state = s, !.dup = d] \in Row
           /\ [row EXCEPT !.state = s, !.dup = d, !.into = i] \in Row
BY DEF Row

(* Validation, duplicate search and review turn rows into rows. *)
LEMMA ValidatedType ==
    ASSUME NEW t \in [Rows -> Row], NEW r \in Rows
    PROVE  Validated(t, r) \subseteq Row
<1> DEFINE row  == t[r]
           dups == {d \in Rows \ {r} : /\ t[d].state \in {"validated", "replayed", "conflict"}
                                       /\ t[d].payload = row.payload
                                       /\ DeviceOf[t[d].uid] = DeviceOf[row.uid]}
<1>1. row \in Row /\ dups \subseteq Rows
  OBVIOUS
<1> HIDE DEF dups
<1>2. [row EXCEPT !.state = "failed"] \in Row
  BY <1>1, RowUpdate DEF States
<1>3. [row EXCEPT !.state = "validated", !.dup = None] \in Row
  BY <1>1, RowUpdate DEF States
<1>4. \A d \in dups : [row EXCEPT !.state = "conflict", !.dup = d] \in Row
  BY <1>1, RowUpdate DEF States
<1>5. \A v \in Validated(t, r) : \/ v = [row EXCEPT !.state = "failed"]
                                 \/ v = [row EXCEPT !.state = "validated", !.dup = None]
                                 \/ \E d \in dups : v = [row EXCEPT !.state = "conflict", !.dup = d]
  BY Zenon DEF Validated, dups
<1> HIDE DEF row
<1> QED
  BY <1>2, <1>3, <1>4, <1>5

LEMMA ToReplayType ==
    ASSUME NEW t \in [Rows -> Row], NEW r \in Rows
    PROVE  ToReplay(t, r) \subseteq Row
BY ValidatedType DEF ToReplay

LEMMA ReviewedType ==
    ASSUME NEW t \in [Rows -> Row], NEW r \in Rows, NEW b \in Buttons \ {"replay"}
    PROVE  Reviewed(t, r, b) \subseteq Row
<1>1. t[r] \in Row /\ t[r].dup \in Rows \cup {None} /\ t[r].into \in Rows \cup {None}
      /\ t[r].state \in States \cup {"absent"}
  BY DEF Row
<1>2. Duplicates(t, r) \subseteq Rows /\ MergeInto(t, r) \subseteq Rows
  BY <1>1 DEF Duplicates, MergeInto, FindDuplicate
<1>3. \A d \in Duplicates(t, r) : [t[r] EXCEPT !.state = "duplicate", !.dup = d] \in Row
  BY <1>1, <1>2, RowUpdate DEF States
<1>4. \A d \in MergeInto(t, r) : [t[r] EXCEPT !.state = "merged", !.dup = d, !.into = d] \in Row
  BY <1>1, <1>2, RowUpdate DEF States
<1>5. b \in {"retry", "mark_replayed", "cancel", "fail"}
         => ResultState(b, t[r].state) \in States \cup {"absent"}
  BY <1>1 DEF ResultState, States
<1>6. b \in {"retry", "mark_replayed", "cancel", "fail"}
         => [t[r] EXCEPT !.state = ResultState(b, t[r].state)] \in Row
  BY <1>1, <1>5, RowUpdate
<1>7. CASE b = "validate"
  BY <1>7, ValidatedType DEF Reviewed
<1>8. CASE b = "mark_duplicate"
  BY <1>3, <1>8 DEF Reviewed
<1>9. CASE b = "merge_duplicate"
  BY <1>4, <1>9 DEF Reviewed
<1>10. CASE b \in {"retry", "mark_replayed", "cancel", "fail"}
  BY <1>6, <1>10 DEF Reviewed
<1> QED
  BY <1>7, <1>8, <1>9, <1>10 DEF Buttons

LEMMA IdleType == Idle \in Txn /\ NoJob \in Job /\ NoRow \in Row
BY DEF Idle, Txn, NoJob, Job, NoRow, Row, Buttons

(* A worker that writes one row of its own view keeps the types. *)
LEMMA PutType ==
    ASSUME TypeOK, NEW w \in Workers, NEW r \in Rows, NEW v \in Row,
           NEW S \in SUBSET Rows, Put(w, r, v, S)
    PROVE  txn' \in [Workers -> Txn]
<1>1. txn[w] \in Txn
  BY DEF TypeOK
<1>2. [txn[w].view EXCEPT ![r] = v] \in [Rows -> Row] /\ txn[w].dirty \cup {r} \in SUBSET Rows
  BY <1>1 DEF Txn
<1> DEFINE t == [txn[w] EXCEPT !.phase = "run", !.view[r] = v,
                               !.dirty = @ \cup {r}, !.todo = S]
<1>3. t \in Txn
  BY <1>1, <1>2 DEF Txn
<1>4. txn' = [txn EXCEPT ![w] = t]
  BY DEF Put
<1> HIDE DEF t
<1> QED
  BY <1>3, <1>4 DEF TypeOK

LEMMA KeepType ==
    ASSUME TypeOK, NEW w \in Workers, NEW S \in SUBSET Rows, Keep(w, S)
    PROVE  txn' \in [Workers -> Txn]
<1>1. txn[w] \in Txn
  BY DEF TypeOK
<1>2. [txn[w] EXCEPT !.phase = "run", !.todo = S] \in Txn
  BY <1>1 DEF Txn
<1> QED
  BY <1>2 DEF TypeOK, Keep

LEMMA BeginType ==
    ASSUME TypeOK, NEW w \in Workers, NEW j \in Job, Begin(w, j)
    PROVE  TypeOK'
<1>1. [Idle EXCEPT !.phase = "begun", !.job = j, !.view = queue] \in Txn
  BY IdleType DEF TypeOK, Txn
<1> QED
  BY <1>1 DEF TypeOK, Begin

LEMMA ReplayType ==
    ASSUME TypeOK, NEW w \in Workers, NEW r \in Rows,
           \/ ReplaySkip(w, r) \/ ReplayConflict(w, r) \/ ReplayBook(w, r) \/ ReplayError(w, r)
    PROVE  TypeOK'
<1>1. txn[w] \in Txn /\ txn[w].view \in [Rows -> Row] /\ txn[w].todo \ {r} \in SUBSET Rows
  BY DEF TypeOK, Txn
<1>2. \A v \in ToReplay(txn[w].view, r) : v \in Row
  BY <1>1, ToReplayType
<1>3. CASE ReplaySkip(w, r)
  <2>1. txn' \in [Workers -> Txn]
    BY <1>1, <1>2, <1>3, PutType, KeepType DEF ReplaySkip
  <2> QED
    BY <1>3, <2>1 DEF ReplaySkip, TypeOK
<1>4. CASE ReplayConflict(w, r)
  <2>1. PICK v \in ToReplay(txn[w].view, r), d \in Replays(txn[w].view, r) :
           Put(w, r, [v EXCEPT !.state = "conflict", !.dup = d], txn[w].todo \ {r})
    BY <1>4 DEF ReplayConflict
  <2>2. [v EXCEPT !.state = "conflict", !.dup = d] \in Row
    BY <1>2, RowUpdate DEF States, Replays
  <2>3. txn' \in [Workers -> Txn]
    BY <1>1, <2>1, <2>2, PutType
  <2> QED
    BY <1>4, <2>3 DEF ReplayConflict, TypeOK
<1>5. CASE ReplayBook(w, r)
  <2>1. PICK v \in ToReplay(txn[w].view, r) :
           txn' = [txn EXCEPT ![w] = [txn[w] EXCEPT !.view[r] = [v EXCEPT !.state = "replayed"],
                                      !.dirty = @ \cup {r}, !.made = @ \cup {r},
                                      !.todo = @ \ {r}]]
    BY <1>5 DEF ReplayBook
  <2> DEFINE row == [v EXCEPT !.state = "replayed"]
  <2>2. row \in Row
    BY <1>2, RowUpdate DEF States
  <2> HIDE DEF row
  <2>3. [txn[w].view EXCEPT ![r] = row] \in [Rows -> Row]
    BY <1>1, <2>2
  <2>4. [txn[w] EXCEPT !.view[r] = row, !.dirty = @ \cup {r}, !.made = @ \cup {r},
                       !.todo = @ \ {r}] \in Txn
    BY <1>1, <2>3 DEF Txn
  <2>5. txn' \in [Workers -> Txn]
    BY <2>1, <2>4 DEF TypeOK, row
  <2> QED
    BY <1>5, <2>5 DEF ReplayBook, TypeOK
<1>6. CASE ReplayError(w, r)
  <2>1. PICK v \in ToReplay(txn[w].view, r) :
           Put(w, r, [v EXCEPT !.state = "failed"], txn[w].todo \ {r})
    BY <1>6 DEF ReplayError
  <2>2. [v EXCEPT !.state = "failed"] \in Row
    BY <1>2, RowUpdate DEF States
  <2>3. txn' \in [Workers -> Txn]
    BY <1>1, <2>1, <2>2, PutType
  <2> QED
    BY <1>6, <2>3 DEF ReplayError, TypeOK
<1> QED
  BY <1>3, <1>4, <1>5, <1>6

LEMMA CaptureType ==
    ASSUME TypeOK, NEW w \in Workers, CaptureUpsert(w)
    PROVE  TypeOK'
<1> DEFINE t == txn[w].view
           j == txn[w].job
           c(r) == [t EXCEPT ![r] = [t[r] EXCEPT !.uid = j.uid, !.payload = j.payload,
                                                 !.state = "queued"]]
<1>1. txn[w] \in Txn /\ t \in [Rows -> Row] /\ j \in Job
  BY DEF TypeOK, Txn
<1>2. ASSUME NEW r \in Rows
      PROVE  c(r) \in [Rows -> Row]
  <2>1. j.uid \in Uids \cup {None} /\ j.payload \in Payloads \cup {None}
    BY <1>1 DEF Job
  <2> HIDE DEF j
  <2>2. [t[r] EXCEPT !.uid = j.uid, !.payload = j.payload, !.state = "queued"] \in Row
    BY <1>1, <2>1 DEF Row, States
  <2> QED
    BY <1>1, <2>2
<1>3. lock' \in Workers \cup {None}
  BY DEF CaptureUpsert, AlreadyReplayed, CaptureLock, TypeOK
<1>4. PICK r \in Rows :
         IF t[r].state = "replayed"
         THEN txn' = [txn EXCEPT ![w] = [txn[w] EXCEPT !.phase = "run", !.job.row = r]]
         ELSE \E v \in Validated(c(r), r) :
                 txn' = [txn EXCEPT ![w] =
                    [txn[w] EXCEPT !.phase = "run", !.job.row = r, !.view[r] = v, !.dirty = {r},
                                   !.todo = IF j.lock /\ v.state = "validated" THEN {r} ELSE {}]]
  BY DEF CaptureUpsert, AlreadyReplayed
<1>5. [j EXCEPT !.row = r] \in Job
  <2>1. j.op = "capture"
    BY DEF CaptureUpsert, AlreadyReplayed
  <2> HIDE DEF j
  <2> QED
    BY <1>1, <2>1 DEF Job
<1> HIDE DEF c
<1>6. CASE t[r].state = "replayed"
  <2>1. [txn[w] EXCEPT !.phase = "run", !.job.row = r] \in Txn
    BY <1>1, <1>5 DEF Txn
  <2> QED
    BY <1>3, <1>4, <1>6, <2>1 DEF CaptureUpsert, AlreadyReplayed, TypeOK
<1>7. CASE t[r].state # "replayed"
  <2>1. PICK v \in Validated(c(r), r) :
           txn' = [txn EXCEPT ![w] =
              [txn[w] EXCEPT !.phase = "run", !.job.row = r, !.view[r] = v, !.dirty = {r},
                             !.todo = IF j.lock /\ v.state = "validated" THEN {r} ELSE {}]]
    BY <1>4, <1>7
  <2>2. v \in Row
    BY <1>2, ValidatedType
  <2>3. [t EXCEPT ![r] = v] \in [Rows -> Row]
    BY <1>1, <2>2
  <2> DEFINE S == IF j.lock /\ v.state = "validated" THEN {r} ELSE {}
  <2>4. S \in SUBSET Rows
    OBVIOUS
  <2> HIDE DEF S
  <2>5. [txn[w] EXCEPT !.phase = "run", !.job.row = r, !.view[r] = v, !.dirty = {r},
                       !.todo = S] \in Txn
    BY <1>1, <1>5, <2>3, <2>4 DEF Txn
  <2>6. txn' \in [Workers -> Txn]
    BY <2>1, <2>5 DEF TypeOK, S
  <2> QED
    BY <1>3, <2>6 DEF CaptureUpsert, AlreadyReplayed, TypeOK
<1> QED
  BY <1>6, <1>7

LEMMA JobTypes ==
    /\ \A p \in Payloads, b \in BOOLEAN :
          [NoJob EXCEPT !.op = "capture", !.uid = UidOf[p], !.payload = p, !.lock = b] \in Job
    /\ \A u \in Uids, p \in Payloads :
          [NoJob EXCEPT !.op = "import", !.uid = u, !.payload = p] \in Job
    /\ [NoJob EXCEPT !.op = "pending"] \in Job
    /\ \A b \in Buttons, r \in Rows : [NoJob EXCEPT !.op = b, !.row = r] \in Job
<1>1. \A p \in Payloads : UidOf[p] \in Uids
  BY QueueAssumption DEF QueueAssumption
<1> QED
  BY <1>1 DEF NoJob, Job, Buttons

LEMMA FinishType ==
    ASSUME TypeOK, NEW w \in Workers, Finish(w)
    PROVE  TypeOK'
<1>1. txn[w] \in Txn /\ txn[w].view \in [Rows -> Row]
  BY DEF TypeOK, Txn
<1>2. lock' \in Workers \cup {None}
  BY DEF Finish, Commit, SerializationFailure, Abort, Release, TypeOK
<1>3. CASE Commit(w)
  <2>1. queue' \in [Rows -> Row]
    BY <1>1, <1>3 DEF Commit, TypeOK
  <2>2. orders' \in [Rows -> Nat] /\ reopened' \in [Rows -> Nat]
    BY <1>3 DEF Commit, TypeOK
  <2>3. ASSUME NEW x \in Workers
        PROVE  [txn[x] EXCEPT !.stale = @ \cup txn[w].dirty] \in Txn
    BY DEF TypeOK, Txn
  <2>4. txn' \in [Workers -> Txn]
    BY <1>3, <2>3, IdleType DEF Commit, TypeOK
  <2> QED
    BY <1>2, <2>1, <2>2, <2>4 DEF TypeOK
<1>4. CASE SerializationFailure(w)
  <2>1. txn[w].job \in Job
    BY <1>1 DEF Txn
  <2>2. [Idle EXCEPT !.phase = "begun", !.job = txn[w].job, !.view = queue] \in Txn
    BY <2>1, IdleType DEF TypeOK, Txn
  <2> QED
    BY <1>2, <1>4, <2>2 DEF SerializationFailure, TypeOK
<1>5. CASE Abort(w)
  BY <1>2, <1>5, IdleType DEF Abort, TypeOK
<1> QED
  BY <1>3, <1>4, <1>5 DEF Finish

LEMMA ReviewType ==
    ASSUME TypeOK, NEW w \in Workers, ReviewRow(w)
    PROVE  TypeOK'
<1> DEFINE r == txn[w].job.row
           b == txn[w].job.op
<1>1. txn[w] \in Txn /\ txn[w].view \in [Rows -> Row] /\ b \in Buttons /\ r \in Rows
  BY DEF TypeOK, Txn, Job, ReviewRow
<1>2. CASE b = "replay"
  BY <1>1, <1>2, KeepType DEF ReviewRow, TypeOK
<1>3. CASE b # "replay"
  <2>1. PICK v \in Reviewed(txn[w].view, r, b) :
           Put(w, r, v, IF b = "retry" THEN {r} ELSE {})
    BY <1>3 DEF ReviewRow
  <2>2. v \in Row
    BY <1>1, <1>3, ReviewedType
  <2>3. txn' \in [Workers -> Txn]
    BY <1>1, <2>1, <2>2, PutType
  <2> QED
    BY <2>3 DEF ReviewRow, TypeOK
<1> QED
  BY <1>2, <1>3

(* Every step of the queue keeps the types. *)
LEMMA NextTyped == TypeOK /\ [Next]_vars => TypeOK'
<1> SUFFICES ASSUME TypeOK, [Next]_vars PROVE TypeOK'
  OBVIOUS
<1>1. CASE UNCHANGED vars
  BY <1>1 DEF vars, TypeOK
<1>2. ASSUME NEW w \in Workers, Capture(w) PROVE TypeOK'
  BY <1>2, BeginType, CaptureType, JobTypes DEF Capture, BeginCapture
<1>3. ASSUME NEW w \in Workers, Import(w) PROVE TypeOK'
  <2>1. CASE ImportRow(w)
    <3>1. PICK r \in Rows : Put(w, r, [NoRow EXCEPT !.uid = txn[w].job.uid,
                                          !.payload = txn[w].job.payload, !.state = "queued"], {})
      BY <2>1 DEF ImportRow
    <3>2. [NoRow EXCEPT !.uid = txn[w].job.uid, !.payload = txn[w].job.payload,
                        !.state = "queued"] \in Row
      BY DEF TypeOK, Txn, Job, Row, NoRow, States
    <3>3. txn' \in [Workers -> Txn]
      BY <3>1, <3>2, PutType
    <3> QED
      BY <2>1, <3>3 DEF ImportRow, TypeOK
  <2> QED
    BY <1>3, <2>1, BeginType, JobTypes DEF Import, BeginImport
<1>4. ASSUME NEW w \in Workers, Pend(w) PROVE TypeOK'
  <2>1. CASE SelectPending(w)
    BY <2>1, KeepType DEF SelectPending, PendingRows, TypeOK
  <2> QED
    BY <1>4, <2>1, BeginType, JobTypes DEF Pend, BeginPending
<1>5. ASSUME NEW w \in Workers, Replay(w) PROVE TypeOK'
  BY <1>5, ReplayType DEF Replay
<1>6. ASSUME NEW w \in Workers, Review(w) PROVE TypeOK'
  BY <1>6, ReviewType, BeginType, JobTypes DEF Review, Click
<1>7. ASSUME NEW w \in Workers, Finish(w) PROVE TypeOK'
  BY <1>7, FinishType
<1> QED
  BY <1>1, <1>2, <1>3, <1>4, <1>5, <1>6, <1>7 DEF Next

(* The type invariant, for every value of the constants. *)
THEOREM TypeCorrect == Spec => []TypeOK
<1>1. Init => TypeOK
  BY IdleType DEF Init, TypeOK, Ledger!Init
<1> QED
  BY <1>1, NextTyped, PTL DEF Spec

-----------------------------------------------------------------------------
(* The inductive invariant. *)

(* A step of one worker on its own transaction. *)
LEMMA LocalStep ==
    ASSUME TypeOK, IInv, NEW w \in Workers,
           UNCHANGED <<queue, orders, reopened>>,
           \A x \in Workers \ {w} : txn'[x] = txn[x],
           \A r \in Rows : TxnInv(w, r)'
    PROVE  IInv'
<1>1. InForceIsReplayed' /\ BookedOnce'
  BY DEF IInv, InForceIsReplayed, BookedOnce, InForce, Ledger!InForce
<1>2. ASSUME NEW x \in Workers, NEW r \in Rows
      PROVE  TxnInv(x, r)'
  <2>1. CASE x = w
    BY <2>1
  <2>2. CASE x # w
    BY <2>2 DEF IInv, TxnInv, Running, InForce, Ledger!InForce
  <2> QED
    BY <2>1, <2>2
<1> QED
  BY <1>1, <1>2 DEF IInv

LEMMA SnapshotStep ==
    ASSUME TypeOK, IInv, NEW w \in Workers, NEW j \in Job,
           txn' = [txn EXCEPT ![w] = [Idle EXCEPT !.phase = "begun", !.job = j, !.view = queue]],
           UNCHANGED <<queue, orders, reopened>>
    PROVE  IInv'
<1> DEFINE t == [Idle EXCEPT !.phase = "begun", !.job = j, !.view = queue]
<1>1. txn'[w] = t
  BY DEF TypeOK
<1>2. /\ t.phase = "begun" /\ t.job = j /\ t.dirty = {} /\ t.todo = {} /\ t.made = {}
      /\ t.stale = {} /\ t.view = queue
  BY DEF Idle
<1> HIDE DEF t
<1>3. \A r \in Rows : TxnInv(w, r)'
  BY <1>1, <1>2 DEF TxnInv, Running
<1>4. \A x \in Workers \ {w} : txn'[x] = txn[x]
  BY DEF TypeOK
<1> QED
  BY <1>3, <1>4, LocalStep

LEMMA PutStep ==
    ASSUME TypeOK, IInv, NEW w \in Workers, NEW r \in Rows, NEW v \in Row,
           NEW S \in SUBSET Rows, Put(w, r, v, S), Running(w),
           UNCHANGED <<queue, orders, reopened>>,
           r \notin txn[w].made,
           r \notin txn[w].stale /\ txn[w].job.op \notin Buttons => ~InForce(r),
           \A q \in S \ txn[w].stale : \/ q # r /\ txn[w].view[q].state = "replayed"
                                       \/ q = r /\ v.state = "replayed"
                                       \/ ~InForce(q),
           txn[w].job.op \in Buttons => {r} \cup S \subseteq {txn[w].job.row}
    PROVE  IInv'
<1>1. txn[w] \in Txn /\ txn[w].view \in [Rows -> Row]
  BY DEF TypeOK, Txn
<1> DEFINE t == [txn[w] EXCEPT !.phase = "run", !.view[r] = v,
                               !.dirty = @ \cup {r}, !.todo = S]
<1>2. txn'[w] = t /\ \A x \in Workers \ {w} : txn'[x] = txn[x]
  BY DEF Put, TypeOK
<1>3. /\ t.phase = "run" /\ t.job = txn[w].job /\ t.dirty = txn[w].dirty \cup {r}
      /\ t.todo = S /\ t.made = txn[w].made /\ t.stale = txn[w].stale
      /\ t.view = [txn[w].view EXCEPT ![r] = v]
  BY <1>1 DEF Txn
<1>4. ASSUME NEW q \in Rows
      PROVE  /\ t.view[q] = IF q = r THEN v ELSE txn[w].view[q]
             /\ InForce(q)' = InForce(q)
             /\ queue'[q] = queue[q]
  BY <1>1, <1>3 DEF InForce, Ledger!InForce
<1> HIDE DEF t
<1>5. ASSUME NEW q \in Rows
      PROVE  TxnInv(w, q)'
  <2>1. TxnInv(w, q)
    BY DEF IInv
  <2> QED
    BY <1>2, <1>3, <1>4, <2>1 DEF TxnInv, Running
<1> QED
  BY <1>2, <1>5, LocalStep

LEMMA KeepStep ==
    ASSUME TypeOK, IInv, NEW w \in Workers, NEW S \in SUBSET Rows,
           Keep(w, S), Running(w), UNCHANGED <<queue, orders, reopened>>,
           \A q \in S \ txn[w].stale : txn[w].view[q].state = "replayed" \/ ~InForce(q),
           txn[w].job.op \in Buttons => S \subseteq {txn[w].job.row}
    PROVE  IInv'
<1>1. txn[w] \in Txn
  BY DEF TypeOK
<1> DEFINE t == [txn[w] EXCEPT !.phase = "run", !.todo = S]
<1>2. txn'[w] = t /\ \A x \in Workers \ {w} : txn'[x] = txn[x]
  BY DEF Keep, TypeOK
<1>3. /\ t.phase = "run" /\ t.job = txn[w].job /\ t.dirty = txn[w].dirty
      /\ t.todo = S /\ t.made = txn[w].made /\ t.stale = txn[w].stale
      /\ t.view = txn[w].view
  BY <1>1 DEF Txn
<1> HIDE DEF t
<1>4. ASSUME NEW q \in Rows
      PROVE  TxnInv(w, q)'
  <2>1. TxnInv(w, q) /\ InForce(q)' = InForce(q)
    BY DEF IInv, InForce, Ledger!InForce
  <2> QED
    BY <1>2, <1>3, <2>1 DEF TxnInv, Running
<1> QED
  BY <1>2, <1>4, LocalStep

LEMMA ReplayStep ==
    ASSUME TypeOK, IInv, NEW w \in Workers, NEW r \in Rows,
           \/ ReplaySkip(w, r) \/ ReplayConflict(w, r) \/ ReplayBook(w, r) \/ ReplayError(w, r)
    PROVE  IInv'
<1> DEFINE view == txn[w].view
           rest == txn[w].todo \ {r}
<1>1. txn[w] \in Txn /\ view \in [Rows -> Row] /\ rest \in SUBSET Rows
  BY DEF TypeOK, Txn
<1>2. r \in txn[w].todo /\ UNCHANGED <<queue, orders, reopened>>
  BY DEF ReplaySkip, ReplayConflict, ReplayBook, ReplayError
<1>3. \A q \in Rows : TxnInv(w, q)
  BY DEF IInv
<1>4. /\ txn[w].phase = "run" /\ Running(w)
      /\ txn[w].job.op \in Buttons => {r} \cup rest \subseteq {txn[w].job.row}
  BY <1>2, <1>3 DEF TxnInv, Running
<1>5. \A q \in rest \ txn[w].stale : view[q].state = "replayed" \/ ~InForce(q)
  BY <1>1, <1>3 DEF TxnInv
<1>6. view[r].state # "replayed" => (r \notin txn[w].made /\ (r \notin txn[w].stale => ~InForce(r)))
  BY <1>2, <1>3 DEF TxnInv
<1>7. ASSUME NEW v \in ToReplay(view, r), v.state = "validated"
      PROVE  view[r].state # "replayed" /\ v \in Row
  <2>1. v \in Row
    BY <1>1, <1>7, ToReplayType
  <2>2. view[r].state \in {"queued", "failed"} \/ v = view[r]
    BY <1>7 DEF ToReplay
  <2> QED
    BY <1>7, <2>1, <2>2
<1>8. CASE ReplaySkip(w, r)
  <2>1. PICK v \in ToReplay(view, r) :
           IF view[r].state \in {"queued", "failed"} THEN Put(w, r, v, rest) ELSE Keep(w, rest)
    BY <1>8 DEF ReplaySkip
  <2>2. v \in Row
    BY <1>1, ToReplayType
  <2>3. CASE view[r].state \in {"queued", "failed"}
    BY <1>1, <1>2, <1>4, <1>5, <1>6, <2>1, <2>2, <2>3, PutStep
  <2>4. CASE view[r].state \notin {"queued", "failed"}
    BY <1>1, <1>2, <1>4, <1>5, <2>1, <2>4, KeepStep
  <2> QED
    BY <2>3, <2>4
<1>9. CASE ReplayConflict(w, r)
  <2>1. PICK v \in ToReplay(view, r), d \in Replays(view, r) :
           v.state = "validated" /\ Put(w, r, [v EXCEPT !.state = "conflict", !.dup = d], rest)
    BY <1>9 DEF ReplayConflict
  <2>2. [v EXCEPT !.state = "conflict", !.dup = d] \in Row
    BY <1>7, <2>1, RowUpdate DEF States, Replays
  <2> QED
    BY <1>1, <1>2, <1>4, <1>5, <1>6, <1>7, <2>1, <2>2, PutStep
<1>10. CASE ReplayError(w, r)
  <2>1. PICK v \in ToReplay(view, r) :
           v.state = "validated" /\ Put(w, r, [v EXCEPT !.state = "failed"], rest)
    BY <1>10 DEF ReplayError
  <2>2. [v EXCEPT !.state = "failed"] \in Row
    BY <1>7, <2>1, RowUpdate DEF States
  <2> QED
    BY <1>1, <1>2, <1>4, <1>5, <1>6, <1>7, <2>1, <2>2, PutStep
<1>11. CASE ReplayBook(w, r)
  <2>1. PICK v \in ToReplay(view, r) :
           /\ v.state = "validated"
           /\ txn' = [txn EXCEPT ![w] = [txn[w] EXCEPT !.view[r] = [v EXCEPT !.state = "replayed"],
                                          !.dirty = @ \cup {r}, !.made = @ \cup {r},
                                          !.todo = @ \ {r}]]
    BY <1>11 DEF ReplayBook
  <2> DEFINE row == [v EXCEPT !.state = "replayed"]
             t   == [txn[w] EXCEPT !.view[r] = row, !.dirty = @ \cup {r}, !.made = @ \cup {r},
                                   !.todo = @ \ {r}]
  <2>2. row.state = "replayed"
    BY <1>7, <2>1 DEF Row
  <2> HIDE DEF row
  <2>3. txn'[w] = t /\ \A x \in Workers \ {w} : txn'[x] = txn[x]
    BY <2>1 DEF TypeOK, row
  <2>4. /\ t.phase = txn[w].phase /\ t.job = txn[w].job /\ t.dirty = txn[w].dirty \cup {r}
        /\ t.todo = rest /\ t.made = txn[w].made \cup {r} /\ t.stale = txn[w].stale
        /\ t.view = [view EXCEPT ![r] = row]
    BY <1>1 DEF Txn
  <2> HIDE DEF t
  <2>5. ASSUME NEW q \in Rows
        PROVE  TxnInv(w, q)'
    <3>1. TxnInv(w, q) /\ InForce(q)' = InForce(q) /\ queue'[q] = queue[q]
      BY <1>2, <1>3 DEF InForce, Ledger!InForce
    <3>2. t.view[q] = IF q = r THEN row ELSE view[q]
      BY <1>1, <2>4
    <3>3. view[r].state # "replayed"
      BY <1>7, <2>1
    <3>4. CASE q = r
      BY <1>4, <1>6, <2>2, <2>3, <2>4, <3>1, <3>2, <3>3, <3>4 DEF TxnInv, Running
    <3>5. CASE q # r
      BY <1>4, <1>5, <2>3, <2>4, <3>1, <3>2, <3>5 DEF TxnInv, Running
    <3> QED
      BY <3>4, <3>5
  <2> QED
    BY <1>2, <2>3, <2>5, LocalStep
<1> QED
  BY <1>8, <1>9, <1>10, <1>11

(* A row of a snapshot nobody has committed since is as it was; if it is    *)
(* not replayed, no order of it is in force.                                *)
LEMMA BegunRow ==
    ASSUME IInv, NEW w \in Workers, NEW r \in Rows, txn[w].phase = "begun",
           txn[w].view[r].state # "replayed", r \notin txn[w].stale
    PROVE  ~InForce(r)
BY DEF IInv, TxnInv, Running, InForceIsReplayed

LEMMA CaptureStep ==
    ASSUME TypeOK, IInv, NEW w \in Workers, CaptureUpsert(w)
    PROVE  IInv'
<1> DEFINE t == txn[w].view
           j == txn[w].job
           c(r) == [t EXCEPT ![r] = [t[r] EXCEPT !.uid = j.uid, !.payload = j.payload,
                                                 !.state = "queued"]]
<1>1. /\ txn[w] \in Txn /\ t \in [Rows -> Row] /\ txn[w].phase = "begun" /\ j.op = "capture"
      /\ UNCHANGED <<queue, orders, reopened>>
  BY DEF TypeOK, Txn, CaptureUpsert
<1>2. \A q \in Rows : /\ TxnInv(w, q) /\ InForce(q)' = InForce(q) /\ queue'[q] = queue[q]
                      /\ txn[w].dirty = {} /\ txn[w].made = {} /\ txn[w].todo = {}
  BY <1>1 DEF IInv, TxnInv, InForce, Ledger!InForce
<1>3. PICK r \in Rows :
         IF t[r].state = "replayed"
         THEN txn' = [txn EXCEPT ![w] = [txn[w] EXCEPT !.phase = "run", !.job.row = r]]
         ELSE \E v \in Validated(c(r), r) :
                 txn' = [txn EXCEPT ![w] =
                    [txn[w] EXCEPT !.phase = "run", !.job.row = r, !.view[r] = v, !.dirty = {r},
                                   !.todo = IF j.lock /\ v.state = "validated" THEN {r} ELSE {}]]
  BY DEF CaptureUpsert, AlreadyReplayed
<1> HIDE DEF c
<1>4. CASE t[r].state = "replayed"
  <2> DEFINE x == [txn[w] EXCEPT !.phase = "run", !.job.row = r]
  <2>1. txn'[w] = x /\ \A y \in Workers \ {w} : txn'[y] = txn[y]
    BY <1>3, <1>4 DEF TypeOK
  <2>2. /\ x.phase = "run" /\ x.job.op = "capture" /\ x.dirty = txn[w].dirty
        /\ x.todo = txn[w].todo /\ x.made = txn[w].made /\ x.stale = txn[w].stale /\ x.view = t
    BY <1>1 DEF Txn, Job
  <2> HIDE DEF x
  <2>3. \A q \in Rows : TxnInv(w, q)'
    BY <1>1, <1>2, <2>1, <2>2 DEF TxnInv, Running, Buttons
  <2> QED
    BY <1>1, <2>1, <2>3, LocalStep
<1>5. CASE t[r].state # "replayed"
  <2>1. PICK v \in Validated(c(r), r) :
           txn' = [txn EXCEPT ![w] =
              [txn[w] EXCEPT !.phase = "run", !.job.row = r, !.view[r] = v, !.dirty = {r},
                             !.todo = IF j.lock /\ v.state = "validated" THEN {r} ELSE {}]]
    BY <1>3, <1>5
  <2> DEFINE S == IF j.lock /\ v.state = "validated" THEN {r} ELSE {}
             x == [txn[w] EXCEPT !.phase = "run", !.job.row = r, !.view[r] = v, !.dirty = {r},
                                 !.todo = S]
  <2>2. txn'[w] = x /\ \A y \in Workers \ {w} : txn'[y] = txn[y]
    BY <2>1 DEF TypeOK
  <2>3. S \subseteq {r}
    OBVIOUS
  <2> HIDE DEF S
  <2>4. /\ x.phase = "run" /\ x.job.op = "capture" /\ x.dirty = {r} /\ x.todo = S
        /\ x.made = txn[w].made /\ x.stale = txn[w].stale /\ x.view = [t EXCEPT ![r] = v]
    BY <1>1 DEF Txn, Job
  <2> HIDE DEF x
  <2>5. r \notin txn[w].stale => ~InForce(r)
    BY <1>1, <1>5, BegunRow
  <2>6. ASSUME NEW q \in Rows PROVE TxnInv(w, q)'
    BY <1>1, <1>2, <2>2, <2>3, <2>4, <2>5 DEF TxnInv, Running, Buttons
  <2> QED
    BY <1>1, <2>2, <2>6, LocalStep
<1> QED
  BY <1>4, <1>5

LEMMA ReviewStep ==
    ASSUME TypeOK, IInv, NEW w \in Workers, ReviewRow(w)
    PROVE  IInv'
<1> DEFINE t == txn[w].view
           r == txn[w].job.row
           b == txn[w].job.op
<1>1. /\ txn[w] \in Txn /\ t \in [Rows -> Row] /\ b \in Buttons /\ r \in Rows
      /\ txn[w].phase = "begun" /\ Running(w) /\ UNCHANGED <<queue, orders, reopened>>
  BY DEF TypeOK, Txn, Job, ReviewRow, Running
<1>2. r \notin txn[w].stale => t[r].state = "replayed" \/ ~InForce(r)
  BY <1>1, BegunRow
<1>3. r \notin txn[w].made
  BY <1>1 DEF IInv, TxnInv
<1>4. CASE b = "replay"
  <2>1. Keep(w, {r})
    BY <1>4 DEF ReviewRow
  <2> QED
    BY <1>1, <1>2, <2>1, KeepStep
<1>5. CASE b # "replay"
  <2>1. PICK v \in Reviewed(t, r, b) : Put(w, r, v, IF b = "retry" THEN {r} ELSE {})
    BY <1>5 DEF ReviewRow
  <2>2. v \in Row
    BY <1>1, <1>5, ReviewedType
  <2>3. b = "retry" /\ t[r].state = "replayed" => v.state = "replayed"
    BY <1>1, <2>1 DEF Reviewed, ResultState, Row
  <2> QED
    BY <1>1, <1>2, <1>3, <2>1, <2>2, <2>3, PutStep
<1> QED
  BY <1>4, <1>5

(* Committing: the rows booked were not in force, so each has exactly one   *)
(* order in force afterwards; everybody else learns which rows are stale.   *)
LEMMA CommitStep ==
    ASSUME TypeOK, IInv, NEW w \in Workers, Commit(w)
    PROVE  IInv'
<1> DEFINE t == txn[w]
<1>1. /\ t \in Txn /\ t.view \in [Rows -> Row] /\ t.dirty \subseteq Rows
      /\ t.dirty \cap t.stale = {}
  BY DEF TypeOK, Txn, Commit
<1>2. ASSUME NEW r \in Rows
      PROVE  /\ orders[r] \in Nat /\ reopened[r] \in Nat
             /\ queue'[r] = IF r \in t.dirty THEN t.view[r] ELSE queue[r]
             /\ orders'[r] = IF r \in t.made THEN orders[r] + 1 ELSE orders[r]
             /\ reopened'[r] = IF r \in t.dirty /\ InForce(r) /\ t.view[r].state # "replayed"
                               THEN reopened[r] + 1 ELSE reopened[r]
             /\ r \in t.made => r \in t.dirty /\ t.view[r].state = "replayed" /\ ~InForce(r)
             /\ InForce(r) => queue[r].state = "replayed"
             /\ orders[r] <= reopened[r] + 1
  BY <1>1 DEF Commit, TypeOK, IInv, TxnInv, InForceIsReplayed, BookedOnce
<1>3. ASSUME NEW r \in Rows
      PROVE  /\ InForce(r)' => queue'[r].state = "replayed"
             /\ orders'[r] <= reopened'[r] + 1
  BY <1>2 DEF InForce, Ledger!InForce
<1>4. ASSUME NEW x \in Workers, NEW r \in Rows
      PROVE  TxnInv(x, r)'
  <2>1. CASE x = w
    <3>1. txn'[x] = Idle
      BY <2>1 DEF Commit
    <3> QED
      BY <3>1 DEF TxnInv, Idle, Running, NoJob, Buttons
  <2>2. CASE x # w /\ ~Running(x)
    <3>1. txn'[x] = txn[x] /\ TxnInv(x, r)
      BY <2>2 DEF Commit, IInv
    <3> QED
      BY <2>2, <3>1 DEF TxnInv, Running
  <2>3. CASE x # w /\ Running(x)
    <3> DEFINE y == [txn[x] EXCEPT !.stale = @ \cup t.dirty]
    <3>1. txn'[x] = y /\ TxnInv(x, r) /\ txn[x] \in Txn
      BY <2>3 DEF Commit, IInv, TypeOK
    <3>2. /\ y.phase = txn[x].phase /\ y.job = txn[x].job /\ y.view = txn[x].view
          /\ y.dirty = txn[x].dirty /\ y.todo = txn[x].todo /\ y.made = txn[x].made
          /\ y.stale = txn[x].stale \cup t.dirty
      BY <3>1 DEF Txn
    <3> HIDE DEF y
    <3>3. r \notin t.dirty => queue'[r] = queue[r] /\ InForce(r)' = InForce(r)
      BY <1>2 DEF InForce, Ledger!InForce
    <3> QED
      BY <2>3, <3>1, <3>2, <3>3 DEF TxnInv, Running
  <2> QED
    BY <2>1, <2>2, <2>3
<1> QED
  BY <1>3, <1>4 DEF IInv, InForceIsReplayed, BookedOnce

LEMMA BeginStep ==
    ASSUME TypeOK, IInv, NEW w \in Workers, NEW j \in Job, Begin(w, j)
    PROVE  IInv'
BY SnapshotStep DEF Begin

LEMMA NextInductive == TypeOK /\ IInv /\ [Next]_vars => IInv'
<1> SUFFICES ASSUME TypeOK, IInv, [Next]_vars PROVE IInv'
  OBVIOUS
<1>1. CASE UNCHANGED vars
  BY <1>1 DEF vars, IInv, TxnInv, InForceIsReplayed, BookedOnce, InForce, Ledger!InForce, Running
<1>2. ASSUME NEW w \in Workers, Capture(w) PROVE IInv'
  BY <1>2, BeginStep, JobTypes, CaptureStep DEF Capture, BeginCapture
<1>3. ASSUME NEW w \in Workers, Import(w) PROVE IInv'
  <2>1. CASE ImportRow(w)
    <3>1. PICK r \in Rows : /\ Fresh(r)
                           /\ Put(w, r, [NoRow EXCEPT !.uid = txn[w].job.uid,
                                          !.payload = txn[w].job.payload, !.state = "queued"], {})
      BY <2>1 DEF ImportRow
    <3>2. [NoRow EXCEPT !.uid = txn[w].job.uid, !.payload = txn[w].job.payload,
                        !.state = "queued"] \in Row
      BY DEF TypeOK, Txn, Job, Row, NoRow, States
    <3>3. /\ txn[w].phase = "begun" /\ txn[w].job.op = "import" /\ Running(w)
          /\ UNCHANGED <<queue, orders, reopened>>
      BY <2>1 DEF ImportRow, Running
    <3>4. ~InForce(r) /\ r \notin txn[w].made
      BY <3>1, <3>3 DEF Fresh, Exists, IInv, InForceIsReplayed, TxnInv
    <3> QED
      BY <3>1, <3>2, <3>3, <3>4, PutStep DEF Buttons
  <2> QED
    BY <1>3, <2>1, BeginStep, JobTypes DEF Import, BeginImport
<1>4. ASSUME NEW w \in Workers, Pend(w) PROVE IInv'
  <2>1. CASE SelectPending(w)
    <3> PICK S \in SUBSET {r \in Rows : txn[w].view[r].state \in Pending} : Keep(w, S)
      BY <2>1 DEF SelectPending, PendingRows
    <3>1. /\ txn[w].phase = "begun" /\ txn[w].job.op = "pending" /\ Running(w)
          /\ Keep(w, S) /\ UNCHANGED <<queue, orders, reopened>>
      BY <2>1 DEF SelectPending, Running
    <3>2. \A q \in S \ txn[w].stale : ~InForce(q)
      BY <3>1, BegunRow DEF Pending
    <3> QED
      BY <3>1, <3>2, KeepStep DEF Buttons
  <2> QED
    BY <1>4, <2>1, BeginStep, JobTypes DEF Pend, BeginPending
<1>5. ASSUME NEW w \in Workers, Replay(w) PROVE IInv'
  BY <1>5, ReplayStep DEF Replay
<1>6. ASSUME NEW w \in Workers, Review(w) PROVE IInv'
  BY <1>6, BeginStep, JobTypes, ReviewStep DEF Review, Click
<1>7. ASSUME NEW w \in Workers, Finish(w) PROVE IInv'
  <2>1. CASE SerializationFailure(w)
    <3>1. txn[w].job \in Job
      BY DEF TypeOK, Txn
    <3> QED
      BY <2>1, <3>1, SnapshotStep DEF SerializationFailure
  <2>2. CASE Abort(w)
    <3>1. txn'[w] = Idle /\ \A x \in Workers \ {w} : txn'[x] = txn[x]
      BY <2>2 DEF Abort, TypeOK
    <3>2. \A r \in Rows : TxnInv(w, r)'
      BY <3>1 DEF TxnInv, Idle, NoJob, Running, Buttons
    <3> QED
      BY <2>2, <3>1, <3>2, LocalStep DEF Abort
  <2> QED
    BY <1>7, <2>1, <2>2, CommitStep DEF Finish
<1> QED
  BY <1>1, <1>2, <1>3, <1>4, <1>5, <1>6, <1>7 DEF Next

LEMMA InitInductive == Init => IInv
BY DEF Init, Ledger!Init, IInv, TxnInv, InForceIsReplayed, BookedOnce, InForce, Ledger!InForce,
       Idle, NoJob, Running, Buttons

(* The inductive invariant holds for any number of rows and workers. *)
THEOREM Inductive == Spec => []IInv
BY InitInductive, NextInductive, TypeCorrect, PTL DEF Spec

(* A row with an order in force is replayed, and a row yields one order     *)
(* plus one per reopening, whatever transactions run at the same time.      *)
THEOREM Safety == Spec => [](InForceIsReplayed /\ BookedOnce)
<1>1. IInv => InForceIsReplayed /\ BookedOnce
  BY DEF IInv
<1> QED
  BY <1>1, Inductive, PTL

(* Only a commit touches the books.                                         *)
LEMMA OnlyCommitWrites ==
    ASSUME [Next]_vars, <<orders', reopened'>> # <<orders, reopened>>
    PROVE  \E w \in Workers : Commit(w)
<1>1. CASE UNCHANGED vars
  BY <1>1 DEF vars
<1>2. CASE Next
  <2>1. PICK w \in Workers : Capture(w) \/ Import(w) \/ Pend(w) \/ Replay(w) \/ Review(w) \/ Finish(w)
    BY <1>2 DEF Next
  <2>2. CASE Capture(w)
    BY <2>2 DEF Capture, BeginCapture, Begin, CaptureUpsert
  <2>3. CASE Import(w) \/ Pend(w)
    BY <2>3 DEF Import, BeginImport, ImportRow, Pend, BeginPending, SelectPending, Begin
  <2>4. CASE Replay(w)
    BY <2>4 DEF Replay, ReplaySkip, ReplayConflict, ReplayBook, ReplayError
  <2>5. CASE Review(w)
    BY <2>5 DEF Review, Click, Begin, ReviewRow
  <2>6. CASE Finish(w)
    BY <2>6 DEF Finish, SerializationFailure, Abort
  <2> QED
    BY <2>1, <2>2, <2>3, <2>4, <2>5, <2>6
<1> QED
  BY <1>1, <1>2

(* What a commit does to the books: a reviewer's transaction wrote one row, *)
(* and every other transaction wrote only rows without an order in force.   *)
LEMMA CommitEffect ==
    ASSUME TypeOK, IInv, NEW w \in Workers, Commit(w)
    PROVE  /\ txn[w].phase = "run" /\ txn'[w] = Idle
           /\ txn[w].made \subseteq Rows
           /\ orders' = [r \in Rows |-> IF r \in txn[w].made THEN orders[r] + 1 ELSE orders[r]]
           /\ \A r \in Rows : reopened'[r] # reopened[r] => txn[w].job.op \in Buttons
           /\ Ledger!Next
<1> DEFINE t    == txn[w]
           open == {r \in Rows : r \in t.dirty /\ InForce(r) /\ t.view[r].state # "replayed"}
<1>1. /\ t \in Txn /\ t.dirty \subseteq Rows /\ t.made \subseteq Rows
      /\ t.dirty \cap t.stale = {} /\ t.phase = "run" /\ txn'[w] = Idle
      /\ orders \in [Rows -> Nat] /\ reopened \in [Rows -> Nat]
      /\ orders' = [r \in Rows |-> IF r \in t.made THEN orders[r] + 1 ELSE orders[r]]
      /\ reopened' = [r \in Rows |-> IF r \in t.dirty /\ InForce(r) /\ t.view[r].state # "replayed"
                                     THEN reopened[r] + 1 ELSE reopened[r]]
  BY DEF TypeOK, Txn, Commit
<1>2. \A r \in Rows : /\ r \in t.made => r \in t.dirty /\ ~InForce(r)
                      /\ r \in t.dirty /\ t.job.op \notin Buttons => ~InForce(r)
                      /\ t.job.op \in Buttons => t.dirty \subseteq {t.job.row}
  BY <1>1 DEF IInv, TxnInv
<1>3. \A r \in Rows : reopened'[r] # reopened[r] => r \in open /\ t.job.op \in Buttons
  BY <1>1, <1>2
<1>4. CASE open = {}
  <2>1. reopened' = reopened
    BY <1>1, <1>4
  <2>2. Ledger!Book(t.made)
    BY <1>1, <1>2, <2>1 DEF Ledger!Book, Ledger!InForce, InForce
  <2> QED
    BY <1>1, <1>3, <2>2 DEF Ledger!Next
<1>5. CASE open # {}
  <2>1. t.job.op \in Buttons /\ t.made = {}
    <3>1. PICK r \in Rows : r \in open
      BY <1>5
    <3>2. \A q \in t.made : q = r
      BY <1>1, <1>2, <3>1
    <3> QED
      BY <1>1, <1>2, <3>1, <3>2
  <2>2. orders' = orders
    BY <1>1, <2>1
  <2>3. reopened' = [r \in Rows |-> IF r \in open THEN reopened[r] + 1 ELSE reopened[r]]
    BY <1>1
  <2>4. Ledger!Reopen(open)
    BY <2>2, <2>3 DEF Ledger!Reopen, Ledger!InForce, InForce
  <2>5. open \in SUBSET Rows
    OBVIOUS
  <2> HIDE DEF open
  <2> QED
    BY <1>1, <1>3, <2>4, <2>5 DEF Ledger!Next
<1> QED
  BY <1>4, <1>5

(* A booked row is only ever taken back by the transaction of a review      *)
(* button, for any number of rows, workers and requests.                    *)
THEOREM ReviewOnly == Spec => OnlyReviewReopens
<1> DEFINE A == \A r \in Rows : reopened'[r] # reopened[r] =>
                   \E w \in Workers : txn[w].job.op \in Buttons /\ txn[w].phase = "run"
                                      /\ txn'[w] = Idle
<1>1. TypeOK /\ IInv /\ [Next]_vars => [A]_vars
  <2> SUFFICES ASSUME TypeOK, IInv, [Next]_vars, NEW r \in Rows, reopened'[r] # reopened[r]
               PROVE  \E w \in Workers : txn[w].job.op \in Buttons /\ txn[w].phase = "run"
                                         /\ txn'[w] = Idle
    OBVIOUS
  <2>1. PICK w \in Workers : Commit(w)
    BY OnlyCommitWrites
  <2> QED
    BY <2>1, CommitEffect
<1> QED
  BY <1>1, Inductive, TypeCorrect, PTL DEF Spec, OnlyReviewReopens

(* The queue implements the order ledger.                                   *)
THEOREM Refinement == Spec => LedgerSpec
<1>1. Init => Ledger!Init
  BY DEF Init
<1>2. TypeOK /\ IInv /\ [Next]_vars => [Ledger!Next]_(Ledger!ledgerVars)
  <2> SUFFICES ASSUME TypeOK, IInv, [Next]_vars, <<orders', reopened'>> # <<orders, reopened>>
               PROVE  Ledger!Next
    BY DEF Ledger!ledgerVars
  <2> QED
    BY OnlyCommitWrites, CommitEffect
<1> QED
  BY <1>1, <1>2, Inductive, TypeCorrect, PTL DEF Spec, LedgerSpec, Ledger!Spec

-----------------------------------------------------------------------------
(* What a step of a transaction does, whichever it is: it reads rows, or it *)
(* writes one row of its view, and with it perhaps books the row.           *)

Reads(t, n) ==
    /\ n.view = t.view /\ n.dirty = t.dirty /\ n.made = t.made
    /\ t.job.op \in Buttons \/ \A q \in n.todo : q \in t.todo \/ (t.phase = "begun" /\ t.view[q].state # "replayed")

Writes(t, n, r) ==
    /\ \A q \in Rows \ {r} : n.view[q] = t.view[q]
    /\ n.dirty = t.dirty \cup {r} /\ n.todo \subseteq t.todo \cup {r}
    /\ t.job.op \in Buttons \/ r \in t.todo \/ (r \notin t.stale => queue[r].state # "replayed")
    /\ t.phase = "run" => n.view[r].uid = t.view[r].uid
    /\ \/ n.made = t.made /\ n.view[r].state # "replayed"
       \/ n.made = t.made /\ n.view[r].uid = t.view[r].uid /\ t.job.op \in Buttons /\ t.phase = "begun"
       \/ n.made = t.made \cup {r} /\ n.view[r].uid = t.view[r].uid /\ Replays(t.view, r) = {}

Effect(w) ==
    /\ \A x \in Workers \ {w} : txn'[x] = txn[x]
    /\ UNCHANGED <<queue, orders, reopened>>
    /\ txn'[w].phase = "run" /\ txn'[w].stale = txn[w].stale
    /\ \A f \in {"op", "uid", "payload", "lock"} : txn'[w].job[f] = txn[w].job[f]
    /\ txn'[w].job = txn[w].job \/ (txn[w].phase = "begun" /\ txn[w].job.op = "capture")
    /\ Reads(txn[w], txn'[w]) \/ \E r \in Rows : Writes(txn[w], txn'[w], r)

LEMMA ValidatedRow ==
    ASSUME NEW t \in [Rows -> Row], NEW r \in Rows, NEW v \in Validated(t, r)
    PROVE  v.uid = t[r].uid /\ v.payload = t[r].payload /\ v.state # "replayed"
<1> DEFINE dups == {d \in Rows \ {r} : /\ t[d].state \in {"validated", "replayed", "conflict"}
                                       /\ t[d].payload = t[r].payload
                                       /\ DeviceOf[t[d].uid] = DeviceOf[t[r].uid]}
<1>1. \/ v = [t[r] EXCEPT !.state = "failed"]
      \/ v = [t[r] EXCEPT !.state = "validated", !.dup = None]
      \/ \E d \in dups : v = [t[r] EXCEPT !.state = "conflict", !.dup = d]
  BY Zenon DEF Validated, dups
<1> HIDE DEF dups
<1>2. t[r] \in Row
  OBVIOUS
<1> QED
  BY <1>1, <1>2 DEF Row

LEMMA ToReplayRow ==
    ASSUME NEW t \in [Rows -> Row], NEW r \in Rows, NEW v \in ToReplay(t, r)
    PROVE  v \in Row /\ v.uid = t[r].uid
<1>1. v \in Row
  BY ToReplayType
<1>2. v.uid = t[r].uid
  BY ValidatedRow DEF ToReplay
<1> QED
  BY <1>1, <1>2

(* The transaction after a Put. *)
LEMMA PutFields ==
    ASSUME TypeOK, NEW w \in Workers, NEW r \in Rows, NEW v \in Row, NEW S, Put(w, r, v, S)
    PROVE  /\ \A x \in Workers \ {w} : txn'[x] = txn[x]
           /\ txn'[w].phase = "run" /\ txn'[w].stale = txn[w].stale /\ txn'[w].job = txn[w].job
           /\ txn'[w].dirty = txn[w].dirty \cup {r} /\ txn'[w].todo = S /\ txn'[w].made = txn[w].made
           /\ txn'[w].view[r] = v /\ \A q \in Rows \ {r} : txn'[w].view[q] = txn[w].view[q]
<1> DEFINE t == [txn[w] EXCEPT !.phase = "run", !.view[r] = v, !.dirty = @ \cup {r}, !.todo = S]
<1>1. txn[w] \in Txn /\ txn[w].view \in [Rows -> Row]
  BY DEF TypeOK, Txn
<1>2. txn'[w] = t /\ \A x \in Workers \ {w} : txn'[x] = txn[x]
  BY DEF Put, TypeOK
<1>3. /\ t.phase = "run" /\ t.stale = txn[w].stale /\ t.job = txn[w].job
      /\ t.dirty = txn[w].dirty \cup {r} /\ t.todo = S /\ t.made = txn[w].made
      /\ t.view = [txn[w].view EXCEPT ![r] = v]
  BY <1>1 DEF Txn
<1> HIDE DEF t
<1> QED
  BY <1>1, <1>2, <1>3

LEMMA KeepFields ==
    ASSUME TypeOK, NEW w \in Workers, NEW S, Keep(w, S)
    PROVE  /\ \A x \in Workers \ {w} : txn'[x] = txn[x]
           /\ txn'[w].phase = "run" /\ txn'[w].stale = txn[w].stale /\ txn'[w].job = txn[w].job
           /\ txn'[w].dirty = txn[w].dirty /\ txn'[w].todo = S /\ txn'[w].made = txn[w].made
           /\ txn'[w].view = txn[w].view
BY DEF Keep, TypeOK, Txn

LEMMA ReplayEffect ==
    ASSUME TypeOK, IInv, NEW w \in Workers, Replay(w)
    PROVE  Effect(w)
<1>1. PICK r \in Rows : ReplaySkip(w, r) \/ ReplayConflict(w, r) \/ ReplayBook(w, r) \/ ReplayError(w, r)
  BY DEF Replay
<1> DEFINE t == txn[w]
           rest == t.todo \ {r}
<1>2. r \in t.todo /\ UNCHANGED <<queue, orders, reopened>>
  BY <1>1 DEF ReplaySkip, ReplayConflict, ReplayBook, ReplayError
<1>3. t \in Txn /\ t.view \in [Rows -> Row] /\ t.phase = "run"
  BY <1>2 DEF TypeOK, Txn, IInv, TxnInv
<1>4. \A v \in ToReplay(t.view, r) : v \in Row /\ v.uid = t.view[r].uid
  BY <1>3, ToReplayRow
<1>5. ASSUME NEW v \in Row, v.uid = t.view[r].uid, v.state # "replayed", Put(w, r, v, rest) PROVE Effect(w)
  <2>1. Writes(t, txn'[w], r)
    BY <1>2, <1>5, PutFields DEF Writes
  <2> QED
    BY <1>2, <1>5, <2>1, PutFields DEF Effect
<1>6. CASE ReplaySkip(w, r)
  <2>1. PICK v \in ToReplay(t.view, r) :
           IF t.view[r].state \in {"queued", "failed"} THEN Put(w, r, v, rest) ELSE Keep(w, rest)
    BY <1>6 DEF ReplaySkip
  <2>2. CASE t.view[r].state \in {"queued", "failed"}
    <3>1. v.state # "replayed"
      BY <1>3, <2>1, <2>2, ValidatedRow DEF ToReplay
    <3> QED
      BY <1>4, <1>5, <2>1, <2>2, <3>1
  <2>3. CASE t.view[r].state \notin {"queued", "failed"}
    <3>1. Reads(t, txn'[w])
      BY <2>1, <2>3, KeepFields DEF Reads
    <3> QED
      BY <1>2, <2>1, <2>3, <3>1, KeepFields DEF Effect
  <2> QED
    BY <2>2, <2>3
<1>7. CASE ReplayConflict(w, r)
  <2>1. PICK v \in ToReplay(t.view, r), d \in Replays(t.view, r) :
           v.state = "validated" /\ Put(w, r, [v EXCEPT !.state = "conflict", !.dup = d], rest)
    BY <1>7 DEF ReplayConflict
  <2>2. [v EXCEPT !.state = "conflict", !.dup = d] \in Row
    BY <1>4, <2>1, RowUpdate DEF States, Replays
  <2>3. [v EXCEPT !.state = "conflict", !.dup = d].uid = v.uid /\ [v EXCEPT !.state = "conflict", !.dup = d].state # "replayed"
    BY <1>4, <2>1 DEF Row
  <2> QED
    BY <1>4, <1>5, <2>1, <2>2, <2>3
<1>8. CASE ReplayError(w, r)
  <2>1. PICK v \in ToReplay(t.view, r) :
           v.state = "validated" /\ Put(w, r, [v EXCEPT !.state = "failed"], rest)
    BY <1>8 DEF ReplayError
  <2>2. [v EXCEPT !.state = "failed"] \in Row
    BY <1>4, <2>1, RowUpdate DEF States
  <2>3. [v EXCEPT !.state = "failed"].uid = v.uid /\ [v EXCEPT !.state = "failed"].state # "replayed"
    BY <1>4, <2>1 DEF Row
  <2> QED
    BY <1>4, <1>5, <2>1, <2>2, <2>3
<1>9. CASE ReplayBook(w, r)
  <2>1. PICK v \in ToReplay(t.view, r) :
           txn' = [txn EXCEPT ![w] = [txn[w] EXCEPT !.view[r] = [v EXCEPT !.state = "replayed"],
                                          !.dirty = @ \cup {r}, !.made = @ \cup {r}, !.todo = @ \ {r}]]
    BY <1>9 DEF ReplayBook
  <2> DEFINE row == [v EXCEPT !.state = "replayed"]
             n   == [txn[w] EXCEPT !.view[r] = row, !.dirty = @ \cup {r}, !.made = @ \cup {r}, !.todo = @ \ {r}]
  <2>2. row.uid = t.view[r].uid
    BY <1>4, <2>1 DEF Row
  <2> HIDE DEF row
  <2>3. txn'[w] = n /\ \A x \in Workers \ {w} : txn'[x] = txn[x]
    BY <2>1 DEF TypeOK, row
  <2>4. /\ n.phase = "run" /\ n.job = t.job /\ n.dirty = t.dirty \cup {r}
        /\ n.todo = rest /\ n.made = t.made \cup {r} /\ n.stale = t.stale
        /\ n.view = [t.view EXCEPT ![r] = row]
    BY <1>3 DEF Txn
  <2> HIDE DEF n
  <2>5. Replays(t.view, r) = {}
    BY <1>9 DEF ReplayBook
  <2>6. n.view[r] = row /\ \A q \in Rows \ {r} : n.view[q] = t.view[q]
    BY <1>3, <2>4
  <2>7. Writes(t, n, r)
    BY <1>2, <1>3, <2>2, <2>4, <2>5, <2>6 DEF Writes
  <2> QED
    BY <1>2, <2>3, <2>4, <2>7 DEF Effect
<1> QED
  BY <1>1, <1>6, <1>7, <1>8, <1>9

(* A row of the view a transaction began with is the row of the table, unless it is stale. *)
LEMMA BegunView ==
    ASSUME IInv, NEW w \in Workers, NEW r \in Rows, txn[w].phase = "begun", r \notin txn[w].stale
    PROVE  txn[w].view[r] = queue[r] /\ txn[w].dirty = {} /\ txn[w].made = {} /\ txn[w].todo = {}
BY DEF IInv, TxnInv, Running

LEMMA CaptureEffect ==
    ASSUME TypeOK, IInv, NEW w \in Workers, CaptureUpsert(w)
    PROVE  Effect(w)
<1> DEFINE t == txn[w]
           j == t.job
           c(r) == [t.view EXCEPT ![r] = [t.view[r] EXCEPT !.uid = j.uid, !.payload = j.payload,
                                                           !.state = "queued"]]
<1>1. /\ t \in Txn /\ t.view \in [Rows -> Row] /\ t.phase = "begun" /\ j.op = "capture" /\ j \in Job
      /\ UNCHANGED <<queue, orders, reopened>>
  BY DEF TypeOK, Txn, CaptureUpsert
<1>2. (t.dirty = {} /\ t.made = {} /\ t.todo = {}) \/ Rows = {}
  BY <1>1 DEF IInv, TxnInv
<1>3. PICK r \in Rows :
         IF t.view[r].state = "replayed"
         THEN txn' = [txn EXCEPT ![w] = [txn[w] EXCEPT !.phase = "run", !.job.row = r]]
         ELSE \E v \in Validated(c(r), r) :
                 txn' = [txn EXCEPT ![w] =
                    [txn[w] EXCEPT !.phase = "run", !.job.row = r, !.view[r] = v, !.dirty = {r},
                                   !.todo = IF j.lock /\ v.state = "validated" THEN {r} ELSE {}]]
  BY DEF CaptureUpsert, AlreadyReplayed
<1>4. c(r) \in [Rows -> Row]
  <2>1. j.uid \in Uids \cup {None} /\ j.payload \in Payloads \cup {None}
    BY <1>1 DEF Job
  <2> HIDE DEF j
  <2>2. [t.view[r] EXCEPT !.uid = j.uid, !.payload = j.payload, !.state = "queued"] \in Row
    BY <1>1, <2>1 DEF Row, States
  <2> QED
    BY <1>1, <2>2
<1> HIDE DEF c
<1>5. CASE t.view[r].state = "replayed"
  <2> DEFINE n == [txn[w] EXCEPT !.phase = "run", !.job.row = r]
  <2>1. txn'[w] = n /\ \A y \in Workers \ {w} : txn'[y] = txn[y]
    BY <1>3, <1>5 DEF TypeOK
  <2>2. /\ n.phase = "run" /\ n.dirty = t.dirty /\ n.todo = t.todo /\ n.made = t.made
        /\ n.stale = t.stale /\ n.view = t.view
        /\ \A f \in {"op", "uid", "payload", "lock"} : n.job[f] = j[f]
    BY <1>1 DEF Txn, Job
  <2> HIDE DEF n
  <2>3. Reads(t, n)
    BY <2>2 DEF Reads
  <2> QED
    BY <1>1, <2>1, <2>2, <2>3 DEF Effect
<1>6. CASE t.view[r].state # "replayed"
  <2>1. PICK v \in Validated(c(r), r) :
           txn' = [txn EXCEPT ![w] =
              [txn[w] EXCEPT !.phase = "run", !.job.row = r, !.view[r] = v, !.dirty = {r},
                             !.todo = IF j.lock /\ v.state = "validated" THEN {r} ELSE {}]]
    BY <1>3, <1>6
  <2> DEFINE S == IF j.lock /\ v.state = "validated" THEN {r} ELSE {}
             n == [txn[w] EXCEPT !.phase = "run", !.job.row = r, !.view[r] = v, !.dirty = {r}, !.todo = S]
  <2>2. v.state # "replayed"
    BY <1>4, ValidatedRow
  <2>3. txn'[w] = n /\ \A y \in Workers \ {w} : txn'[y] = txn[y]
    BY <2>1 DEF TypeOK
  <2>4. S \subseteq {r}
    OBVIOUS
  <2> HIDE DEF S
  <2>5. /\ n.phase = "run" /\ n.dirty = {r} /\ n.todo = S /\ n.made = t.made /\ n.stale = t.stale
        /\ n.view = [t.view EXCEPT ![r] = v]
        /\ \A f \in {"op", "uid", "payload", "lock"} : n.job[f] = j[f]
    BY <1>1 DEF Txn, Job
  <2> HIDE DEF n
  <2>6. r \notin t.stale => queue[r].state # "replayed"
    BY <1>1, <1>6, BegunView
  <2>7. n.view[r] = v /\ \A q \in Rows \ {r} : n.view[q] = t.view[q]
    BY <1>1, <2>5
  <2>8. Writes(t, n, r)
    BY <1>1, <1>2, <2>2, <2>4, <2>5, <2>6, <2>7 DEF Writes
  <2> QED
    BY <1>1, <2>3, <2>5, <2>8 DEF Effect
<1> QED
  BY <1>5, <1>6

LEMMA ImportEffect ==
    ASSUME TypeOK, IInv, NEW w \in Workers, ImportRow(w)
    PROVE  Effect(w)
<1> DEFINE v == [NoRow EXCEPT !.uid = txn[w].job.uid, !.payload = txn[w].job.payload, !.state = "queued"]
<1>1. PICK r \in Rows : Fresh(r) /\ Put(w, r, v, {})
  BY DEF ImportRow
<1>2. v \in Row /\ v.state # "replayed"
  BY DEF TypeOK, Txn, Job, Row, NoRow, States
<1>3. txn[w].phase = "begun" /\ UNCHANGED <<queue, orders, reopened>>
  BY DEF ImportRow
<1>4. queue[r].state # "replayed"
  BY <1>1 DEF Fresh, Exists
<1> HIDE DEF v
<1>5. Writes(txn[w], txn'[w], r)
  BY <1>1, <1>2, <1>3, <1>4, PutFields DEF Writes
<1> QED
  BY <1>1, <1>2, <1>3, <1>5, PutFields DEF Effect

LEMMA SelectEffect ==
    ASSUME TypeOK, IInv, NEW w \in Workers, SelectPending(w)
    PROVE  Effect(w)
<1>1. PICK S \in SUBSET {r \in Rows : txn[w].view[r].state \in Pending} : Keep(w, S)
  BY DEF SelectPending, PendingRows
<1>2. txn[w].phase = "begun" /\ UNCHANGED <<queue, orders, reopened>>
  BY DEF SelectPending
<1>3. Reads(txn[w], txn'[w])
  BY <1>1, <1>2, KeepFields DEF Reads, Pending
<1> QED
  BY <1>1, <1>2, <1>3, KeepFields DEF Effect

LEMMA ReviewEffect ==
    ASSUME TypeOK, IInv, NEW w \in Workers, ReviewRow(w)
    PROVE  Effect(w)
<1> DEFINE t == txn[w]
           r == t.job.row
           b == t.job.op
<1>1. /\ t \in Txn /\ t.view \in [Rows -> Row] /\ b \in Buttons /\ r \in Rows
      /\ t.phase = "begun" /\ UNCHANGED <<queue, orders, reopened>>
  BY DEF TypeOK, Txn, Job, ReviewRow
<1>2. CASE b = "replay"
  <2>1. Keep(w, {r})
    BY <1>2 DEF ReviewRow
  <2>2. Reads(t, txn'[w])
    BY <1>1, <2>1, KeepFields DEF Reads
  <2> QED
    BY <1>1, <2>1, <2>2, KeepFields DEF Effect
<1>3. CASE b # "replay"
  <2>1. PICK v \in Reviewed(t.view, r, b) : Put(w, r, v, IF b = "retry" THEN {r} ELSE {})
    BY <1>3 DEF ReviewRow
  <2>2. v \in Row
    BY <1>1, <1>3, ReviewedType
  <2>3. v.uid = t.view[r].uid
    <3>1. t.view[r] \in Row
      BY <1>1
    <3>2. CASE b = "validate"
      BY <1>1, <2>1, <3>2, ValidatedRow DEF Reviewed
    <3>3. CASE b # "validate"
      BY <2>1, <3>1, <3>3 DEF Reviewed, Row
    <3> QED
      BY <3>2, <3>3
  <2>4. Writes(t, txn'[w], r)
    BY <1>1, <2>1, <2>2, <2>3, PutFields DEF Writes
  <2> QED
    BY <1>1, <2>1, <2>2, <2>4, PutFields DEF Effect
<1> QED
  BY <1>2, <1>3

-----------------------------------------------------------------------------
(* One transaction at a time.  A snapshot is then never stale, and a row    *)
(* about to have an order in force, because it is booked or its order still *)
(* stands in the view, is the only one of its sale.                         *)

Alone == \A a, b \in Workers : a = b

Stands(w, r) == r \in txn[w].made \/ (InForce(r) /\ txn[w].view[r].state = "replayed")

OneStands(w) ==
    \A r1, r2 \in Rows : r1 # r2 /\ Stands(w, r1) /\ Stands(w, r2) => txn[w].view[r1].uid # txn[w].view[r2].uid

SaleInv ==
    /\ OneOrderPerSale
    /\ \A w \in Workers : txn[w].stale = {} /\ (Running(w) => OneStands(w))

LEMMA EffectSales ==
    ASSUME TypeOK, IInv, IInv', SaleInv, NEW w \in Workers, Running(w), Effect(w)
    PROVE  SaleInv'
<1> DEFINE t == txn[w]
           n == txn'[w]
<1>1. OneOrderPerSale' /\ \A q \in Rows : InForce(q)' = InForce(q)
  BY DEF Effect, SaleInv, OneOrderPerSale, InForce, Ledger!InForce
<1>2. ASSUME NEW x \in Workers \ {w} PROVE (txn[x].stale = {} /\ (Running(x) => OneStands(x)))'
  BY <1>1 DEF Effect, SaleInv, Running, OneStands, Stands
<1>3. n.stale = {} /\ t.stale = {} /\ OneStands(w)
  BY DEF Effect, SaleInv
<1>4. \A q \in Rows : q \in n.made => n.view[q].state = "replayed"
  BY DEF IInv, TxnInv
<1>5. \A q \in Rows : q \in t.made => t.view[q].state = "replayed"
  BY DEF IInv, TxnInv
<1>6. OneStands(w)'
  <2>1. CASE Reads(t, n)
    BY <1>1, <1>3, <2>1 DEF Reads, OneStands, Stands
  <2>2. ASSUME NEW r \in Rows, Writes(t, n, r) PROVE OneStands(w)'
    <3>1. \A q \in Rows \ {r} : (Stands(w, q)' <=> Stands(w, q)) /\ n.view[q].uid = t.view[q].uid
      BY <1>1, <2>2 DEF Writes, Stands
    <3>2. CASE n.made = t.made /\ n.view[r].state # "replayed"
      <4>1. ~Stands(w, r)'
        BY <1>4, <3>2 DEF Stands
      <4> QED
        BY <1>3, <3>1, <4>1 DEF OneStands
    <3>3. CASE n.made = t.made /\ n.view[r].uid = t.view[r].uid /\ t.job.op \in Buttons /\ t.phase = "begun"
      <4>1. t.made = {} /\ t.view[r] = queue[r]
        BY <1>3, <3>3, BegunView
      <4>2. Stands(w, r)' => Stands(w, r)
        BY <1>1, <3>3, <4>1 DEF Stands, IInv, InForceIsReplayed
      <4> QED
        BY <1>3, <3>1, <3>3, <4>2 DEF OneStands
    <3>4. CASE n.made = t.made \cup {r} /\ n.view[r].uid = t.view[r].uid /\ Replays(t.view, r) = {}
      <4>1. \A q \in Rows \ {r} : Stands(w, q) => t.view[q].uid # t.view[r].uid
        BY <1>5, <3>4 DEF Stands, Replays
      <4> QED
        BY <1>3, <3>1, <3>4, <4>1 DEF OneStands
    <3> QED
      BY <2>2, <3>2, <3>3, <3>4 DEF Writes
  <2> QED
    BY <2>1, <2>2 DEF Effect
<1> QED
  BY <1>1, <1>2, <1>3, <1>6 DEF SaleInv

LEMMA CommitSales ==
    ASSUME Alone, TypeOK, IInv, SaleInv, NEW w \in Workers, Commit(w)
    PROVE  SaleInv'
<1> DEFINE t == txn[w]
<1>1. txn'[w] = Idle /\ \A x \in Workers : x = w
  BY DEF Alone, Commit
<1>2. t.stale = {} /\ OneStands(w) /\ Running(w)
  BY DEF SaleInv, Commit, Running
<1>3. \A r \in Rows : TxnInv(w, r) /\ (InForce(r) => queue[r].state = "replayed")
  BY DEF IInv, InForceIsReplayed
<1>4. ASSUME NEW r \in Rows, InForce(r)' PROVE Stands(w, r)
  <2>1. CASE r \in t.made
    BY <2>1 DEF Stands
  <2>2. CASE r \notin t.made
    <3>1. orders'[r] = orders[r] /\ orders[r] \in Nat /\ reopened[r] \in Nat
      BY <2>2 DEF Commit, TypeOK
    <3>2. reopened'[r] = IF r \in t.dirty /\ InForce(r) /\ t.view[r].state # "replayed"
                         THEN reopened[r] + 1 ELSE reopened[r]
      BY DEF Commit
    <3>3. orders[r] <= reopened[r] + 1
      BY DEF IInv, BookedOnce
    <3>4. InForce(r) /\ ~(r \in t.dirty /\ t.view[r].state # "replayed")
      BY <1>4, <3>1, <3>2, <3>3 DEF InForce, Ledger!InForce
    <3> QED
      BY <1>2, <1>3, <3>4 DEF Stands, TxnInv
  <2> QED
    BY <2>1, <2>2
<1>5. \A r \in Rows : queue'[r].uid = t.view[r].uid
  BY <1>2, <1>3 DEF Commit, TxnInv
<1>6. OneOrderPerSale'
  BY <1>2, <1>4, <1>5 DEF OneOrderPerSale, OneStands
<1>7. ASSUME NEW x \in Workers PROVE (txn[x].stale = {} /\ ~Running(x))'
  BY <1>1 DEF Idle, Running
<1> QED
  BY <1>6, <1>7 DEF SaleInv

LEMMA BeginSales ==
    ASSUME TypeOK, SaleInv, NEW w \in Workers, NEW j,
           txn' = [txn EXCEPT ![w] = [Idle EXCEPT !.phase = "begun", !.job = j, !.view = queue]],
           UNCHANGED <<queue, orders, reopened>>
    PROVE  SaleInv'
<1> DEFINE n == [Idle EXCEPT !.phase = "begun", !.job = j, !.view = queue]
<1>1. txn'[w] = n /\ \A x \in Workers \ {w} : txn'[x] = txn[x]
  BY DEF TypeOK
<1>2. n.stale = {} /\ n.view = queue /\ n.made = {}
  BY DEF Idle
<1> HIDE DEF n
<1>3. OneOrderPerSale' /\ \A q \in Rows : InForce(q)' = InForce(q)
  BY DEF SaleInv, OneOrderPerSale, InForce, Ledger!InForce
<1>4. OneStands(w)'
  <2>1. txn'[w].view = queue /\ txn'[w].made = {}
    BY <1>1, <1>2
  <2>2. \A r \in Rows : Stands(w, r)' => InForce(r)
    BY <1>3, <2>1 DEF Stands
  <2>3. \A r1, r2 \in Rows : r1 # r2 /\ InForce(r1) /\ InForce(r2) => queue[r1].uid # queue[r2].uid
    BY DEF SaleInv, OneOrderPerSale
  <2> QED
    BY <2>1, <2>2, <2>3 DEF OneStands
<1>5. ASSUME NEW x \in Workers \ {w} PROVE (txn[x].stale = {} /\ (Running(x) => OneStands(x)))'
  BY <1>1, <1>3 DEF SaleInv, Running, OneStands, Stands
<1> QED
  BY <1>1, <1>2, <1>3, <1>4, <1>5 DEF SaleInv

(* A step of Next is a new snapshot, a step of a running transaction, or its end. *)
LEMMA StepKinds ==
    ASSUME TypeOK, IInv, Next
    PROVE  \E w \in Workers :
              \/ Running(w) /\ Effect(w)
              \/ /\ \E j \in Job : txn' = [txn EXCEPT ![w] = [Idle EXCEPT !.phase = "begun", !.job = j, !.view = queue]]
                 /\ UNCHANGED <<queue, orders, reopened>>
              \/ Commit(w) \/ Abort(w)
<1>1. PICK w \in Workers : Capture(w) \/ Import(w) \/ Pend(w) \/ Replay(w) \/ Review(w) \/ Finish(w)
  BY DEF Next
<1> DEFINE Snapshot == /\ \E j \in Job : txn' = [txn EXCEPT ![w] = [Idle EXCEPT !.phase = "begun", !.job = j, !.view = queue]]
                       /\ UNCHANGED <<queue, orders, reopened>>
<1>2. ASSUME NEW j \in Job, Begin(w, j) PROVE Snapshot
  BY <1>2 DEF Begin
<1>3. CASE Capture(w)
  BY <1>2, <1>3, JobTypes, CaptureEffect DEF Capture, BeginCapture, CaptureUpsert, Running
<1>4. CASE Import(w)
  BY <1>2, <1>4, JobTypes, ImportEffect DEF Import, BeginImport, ImportRow, Running
<1>5. CASE Pend(w)
  BY <1>2, <1>5, JobTypes, SelectEffect DEF Pend, BeginPending, SelectPending, Running
<1>6. CASE Review(w)
  BY <1>2, <1>6, JobTypes, ReviewEffect DEF Review, Click, ReviewRow, Running
<1>7. CASE Replay(w)
  <2>1. Running(w)
    BY <1>7 DEF Replay, ReplaySkip, ReplayConflict, ReplayBook, ReplayError, IInv, TxnInv, Running
  <2> QED
    BY <1>7, <2>1, ReplayEffect
<1>8. CASE Finish(w)
  <2>1. txn[w].job \in Job
    BY DEF TypeOK, Txn
  <2> QED
    BY <1>8, <2>1 DEF Finish, SerializationFailure
<1> QED
  BY <1>1, <1>3, <1>4, <1>5, <1>6, <1>7, <1>8

LEMMA AbortSales ==
    ASSUME TypeOK, SaleInv, NEW w \in Workers, Abort(w)
    PROVE  SaleInv'
<1>1. txn'[w] = Idle /\ (\A x \in Workers \ {w} : txn'[x] = txn[x]) /\ UNCHANGED <<queue, orders, reopened>>
  BY DEF Abort, TypeOK
<1>2. OneOrderPerSale' /\ \A q \in Rows : InForce(q)' = InForce(q)
  BY <1>1 DEF SaleInv, OneOrderPerSale, InForce, Ledger!InForce
<1>3. (txn[w].stale = {} /\ ~Running(w))'
  BY <1>1 DEF Idle, Running
<1>4. ASSUME NEW x \in Workers \ {w} PROVE (txn[x].stale = {} /\ (Running(x) => OneStands(x)))'
  BY <1>1, <1>2 DEF SaleInv, Running, OneStands, Stands
<1> QED
  BY <1>2, <1>3, <1>4 DEF SaleInv

(* Where transactions follow one another, two rows of one sale never both have an    *)
(* order in force, whatever is captured, imported, replayed, clicked and rolled back, *)
(* and on forms of any age: the uid is searched for before a row is booked.           *)
THEOREM SerialSales == ASSUME Alone PROVE Spec => []OneOrderPerSale
<1>1. Init => SaleInv
  BY DEF Init, Ledger!Init, SaleInv, OneOrderPerSale, InForce, Ledger!InForce, Idle, Running
<1>2. TypeOK /\ IInv /\ IInv' /\ SaleInv /\ [Next]_vars => SaleInv'
  <2> SUFFICES ASSUME TypeOK, IInv, IInv', SaleInv, [Next]_vars PROVE SaleInv'
    OBVIOUS
  <2>1. CASE UNCHANGED vars
    BY <2>1 DEF vars, SaleInv, OneOrderPerSale, OneStands, Stands, Running, InForce, Ledger!InForce
  <2>2. CASE Next
    BY <2>2, StepKinds, EffectSales, BeginSales, CommitSales, AbortSales
  <2> QED
    BY <2>1, <2>2
<1>3. SaleInv => OneOrderPerSale
  BY DEF SaleInv
<1> QED
  BY <1>1, <1>2, <1>3, Inductive, TypeCorrect, PTL DEF Spec

-----------------------------------------------------------------------------
(* The browser and the server together.  Nobody reviews there, so a row that *)
(* is replayed stays so: a transaction that would write it works on a stale  *)
(* row, and what was replayed in a view still is.                           *)

Kept(w, r) ==
    LET t == txn[w]
    IN  /\ r \in (t.dirty \cup t.todo) \ t.stale => queue[r].state # "replayed"
        /\ Running(w) /\ r \notin t.dirty /\ t.view[r].state = "replayed"
              => queue[r].state = "replayed" /\ queue[r].uid = t.view[r].uid

(* A capture is of the sale in its payload, and so is the row it has found. *)
Captures(w) ==
    LET j == txn[w].job
    IN  /\ Running(w) => j.op \in {"capture", "pending"}
        /\ Running(w) /\ j.op = "capture" =>
              /\ j.payload \in Payloads /\ UidOf[j.payload] = j.uid
              /\ txn[w].phase = "run" => j.row \in Rows /\ txn[w].view[j.row].uid = j.uid

QueueKept == \A w \in Workers : Captures(w) /\ \A r \in Rows : Kept(w, r)

LEMMA CaptureFinds ==
    ASSUME TypeOK, IInv, QueueKept, NEW w \in Workers, CaptureUpsert(w)
    PROVE  txn'[w].job.row \in Rows /\ txn'[w].view[txn'[w].job.row].uid = txn[w].job.uid
<1> DEFINE t == txn[w]
           j == t.job
           found == {r \in Rows : t.view[r].uid = j.uid}
           c(r) == [t.view EXCEPT ![r] = [t.view[r] EXCEPT !.uid = j.uid, !.payload = j.payload,
                                                           !.state = "queued"]]
<1>1. /\ t \in Txn /\ t.view \in [Rows -> Row] /\ t.phase = "begun" /\ j \in Job /\ Running(w)
  BY DEF TypeOK, Txn, CaptureUpsert, Running
<1>2. PICK r \in IF found # {} THEN found ELSE {f \in Rows : Fresh(f)} :
         IF t.view[r].state = "replayed"
         THEN txn' = [txn EXCEPT ![w] = [txn[w] EXCEPT !.phase = "run", !.job.row = r]]
         ELSE \E v \in Validated(c(r), r) :
                 txn' = [txn EXCEPT ![w] =
                    [txn[w] EXCEPT !.phase = "run", !.job.row = r, !.view[r] = v, !.dirty = {r},
                                   !.todo = IF j.lock /\ v.state = "validated" THEN {r} ELSE {}]]
  BY DEF CaptureUpsert, AlreadyReplayed
<1>3. r \in Rows
  BY <1>2
<1>4. t.view[r].state = "replayed" => t.view[r].uid = j.uid
  <2>1. CASE found # {}
    BY <1>2, <2>1
  <2>2. CASE found = {}
    <3>1. queue[r].state = "absent"
      BY <1>2, <2>2 DEF Fresh, Exists
    <3>2. t.dirty = {}
      BY <1>1, <1>3 DEF IInv, TxnInv
    <3> QED
      BY <1>1, <1>3, <3>1, <3>2 DEF QueueKept, Kept
  <2> QED
    BY <2>1, <2>2
<1>5. c(r) \in [Rows -> Row] /\ c(r)[r].uid = j.uid
  <2>1. j.uid \in Uids \cup {None} /\ j.payload \in Payloads \cup {None}
    BY <1>1 DEF Job
  <2> HIDE DEF j
  <2>2. /\ [t.view[r] EXCEPT !.uid = j.uid, !.payload = j.payload, !.state = "queued"] \in Row
        /\ [t.view[r] EXCEPT !.uid = j.uid, !.payload = j.payload, !.state = "queued"].uid = j.uid
    BY <1>1, <1>3, <2>1 DEF Row, States
  <2> QED
    BY <1>1, <1>3, <2>2
<1> HIDE DEF c, found
<1>6. CASE t.view[r].state = "replayed"
  <2> DEFINE n == [txn[w] EXCEPT !.phase = "run", !.job.row = r]
  <2>1. txn'[w] = n
    BY <1>2, <1>6 DEF TypeOK
  <2>2. n.view = t.view /\ n.job.row = r
    BY <1>1 DEF Txn, Job
  <2> HIDE DEF n
  <2> QED
    BY <1>3, <1>4, <1>6, <2>1, <2>2
<1>7. CASE t.view[r].state # "replayed"
  <2>1. PICK v \in Validated(c(r), r) :
           txn' = [txn EXCEPT ![w] =
              [txn[w] EXCEPT !.phase = "run", !.job.row = r, !.view[r] = v, !.dirty = {r},
                             !.todo = IF j.lock /\ v.state = "validated" THEN {r} ELSE {}]]
    BY <1>2, <1>7
  <2> DEFINE S == IF j.lock /\ v.state = "validated" THEN {r} ELSE {}
             n == [txn[w] EXCEPT !.phase = "run", !.job.row = r, !.view[r] = v, !.dirty = {r}, !.todo = S]
  <2>2. v.uid = j.uid
    BY <1>3, <1>5, ValidatedRow
  <2>3. txn'[w] = n
    BY <2>1 DEF TypeOK
  <2> HIDE DEF S
  <2>4. n.view = [t.view EXCEPT ![r] = v] /\ n.job.row = r
    BY <1>1 DEF Txn, Job
  <2> HIDE DEF n
  <2> QED
    BY <1>1, <1>3, <2>2, <2>3, <2>4
<1> QED
  BY <1>6, <1>7

(* A step of a transaction that is no review. *)
LEMMA EffectKept ==
    ASSUME TypeOK, IInv, QueueKept, NEW w \in Workers, Running(w), Effect(w),
           txn[w].phase = "begun" /\ txn[w].job.op = "capture" =>
              txn'[w].job.row \in Rows /\ txn'[w].view[txn'[w].job.row].uid = txn[w].job.uid
    PROVE  QueueKept'
<1> DEFINE t == txn[w]
           n == txn'[w]
<1>1. /\ queue' = queue /\ \A x \in Workers \ {w} : txn'[x] = txn[x]
      /\ n.phase = "run" /\ n.stale = t.stale /\ n.job.op = t.job.op /\ n.job.uid = t.job.uid
      /\ n.job.payload = t.job.payload
      /\ t.phase # "run" => t.phase = "begun"
  BY DEF Effect, Running, TypeOK, Txn
<1>2. ASSUME NEW x \in Workers \ {w} PROVE (Captures(x) /\ \A r \in Rows : Kept(x, r))'
  BY <1>1 DEF QueueKept, Captures, Kept, Running
<1>3. Captures(w) /\ \A r \in Rows : Kept(w, r)
  BY DEF QueueKept
<1>4. t.job.op \notin Buttons
  BY <1>3 DEF Captures, Buttons
<1>5. \A r \in Rows : t.phase = "begun" /\ r \notin t.stale => t.view[r] = queue[r]
  BY BegunView
<1>6. CASE Reads(t, n)
  <2>1. \A r \in Rows : Kept(w, r)'
    BY <1>1, <1>3, <1>4, <1>5, <1>6 DEF Reads, Kept, Running
  <2>2. Captures(w)'
    BY <1>1, <1>3, <1>6 DEF Reads, Captures, Running, Effect
  <2> QED
    BY <1>2, <2>1, <2>2 DEF QueueKept
<1>7. ASSUME NEW r \in Rows, Writes(t, n, r) PROVE QueueKept'
  <2>1. r \notin t.stale => queue[r].state # "replayed"
    BY <1>3, <1>4, <1>7 DEF Writes, Kept
  <2>2. \A q \in Rows : Kept(w, q)'
    BY <1>1, <1>3, <1>7, <2>1 DEF Writes, Kept, Running
  <2>3. Captures(w)'
    BY <1>1, <1>3, <1>7 DEF Writes, Captures, Running, Effect
  <2> QED
    BY <1>2, <2>2, <2>3 DEF QueueKept
<1> QED
  BY <1>6, <1>7 DEF Effect

LEMMA SnapshotKept ==
    ASSUME TypeOK, QueueKept, NEW w \in Workers, NEW j \in Job, UNCHANGED queue,
           txn' = [txn EXCEPT ![w] = [Idle EXCEPT !.phase = "begun", !.job = j, !.view = queue]],
           j.op \in {"capture", "pending"},
           j.op = "capture" => j.payload \in Payloads /\ UidOf[j.payload] = j.uid
    PROVE  QueueKept'
<1> DEFINE n == [Idle EXCEPT !.phase = "begun", !.job = j, !.view = queue]
<1>1. txn'[w] = n /\ \A x \in Workers \ {w} : txn'[x] = txn[x]
  BY DEF TypeOK
<1>2. n.phase = "begun" /\ n.job = j /\ n.view = queue /\ n.dirty = {} /\ n.todo = {}
  BY DEF Idle
<1> HIDE DEF n
<1>3. ASSUME NEW x \in Workers \ {w} PROVE (Captures(x) /\ \A r \in Rows : Kept(x, r))'
  BY <1>1 DEF QueueKept, Captures, Kept, Running
<1>4. Captures(w)' /\ \A r \in Rows : Kept(w, r)'
  BY <1>1, <1>2 DEF Captures, Kept, Running
<1> QED
  BY <1>3, <1>4 DEF QueueKept

(* What is replayed is not written any more. *)
LEMMA CommitStays ==
    ASSUME TypeOK, QueueKept, NEW w \in Workers, Commit(w), NEW r \in Rows, queue[r].state = "replayed"
    PROVE  queue'[r] = queue[r] /\ r \notin txn[w].dirty
BY DEF Commit, QueueKept, Kept

LEMMA CommitKept ==
    ASSUME TypeOK, IInv, QueueKept, NEW w \in Workers, Commit(w)
    PROVE  QueueKept'
<1>1. ASSUME NEW x \in Workers \ {w}, Running(x) PROVE (Captures(x) /\ \A r \in Rows : Kept(x, r))'
  <2> DEFINE y == [txn[x] EXCEPT !.stale = @ \cup txn[w].dirty]
  <2>1. txn'[x] = y /\ txn[x] \in Txn
    BY <1>1 DEF Commit, TypeOK
  <2>2. /\ y.phase = txn[x].phase /\ y.job = txn[x].job /\ y.view = txn[x].view
        /\ y.dirty = txn[x].dirty /\ y.todo = txn[x].todo
        /\ y.stale = txn[x].stale \cup txn[w].dirty
    BY <2>1 DEF Txn
  <2> HIDE DEF y
  <2>3. \A r \in Rows : r \notin txn[w].dirty => queue'[r] = queue[r]
    BY DEF Commit
  <2>4. \A r \in Rows : queue[r].state = "replayed" => queue'[r] = queue[r]
    BY CommitStays
  <2>5. Captures(x) /\ \A r \in Rows : Kept(x, r)
    BY DEF QueueKept
  <2>6. \A r \in Rows : Kept(x, r)'
    BY <1>1, <2>1, <2>2, <2>3, <2>4, <2>5 DEF Kept, Running
  <2>7. Captures(x)'
    BY <1>1, <2>1, <2>2, <2>5 DEF Captures, Running
  <2> QED
    BY <2>6, <2>7
<1>2. (Captures(w) /\ \A r \in Rows : Kept(w, r))'
  <2>1. txn'[w] = Idle
    BY DEF Commit
  <2> QED
    BY <2>1 DEF Captures, Kept, Idle, Running
<1>3. ASSUME NEW x \in Workers \ {w}, ~Running(x) PROVE (Captures(x) /\ \A r \in Rows : Kept(x, r))'
  <2>1. txn'[x] = txn[x]
    BY <1>3 DEF Commit
  <2>2. \A r \in Rows : r \notin txn[x].dirty \cup txn[x].todo
    BY <1>3 DEF IInv, TxnInv, Running
  <2> QED
    BY <1>3, <2>1, <2>2 DEF Captures, Kept, Running
<1> QED
  BY <1>1, <1>2, <1>3 DEF QueueKept

LEMMA AbortKept ==
    ASSUME TypeOK, QueueKept, NEW w \in Workers, Abort(w)
    PROVE  QueueKept'
<1>1. txn'[w] = Idle /\ (\A x \in Workers \ {w} : txn'[x] = txn[x]) /\ queue' = queue
  BY DEF Abort, TypeOK
<1>2. (Captures(w) /\ \A r \in Rows : Kept(w, r))'
  BY <1>1 DEF Captures, Kept, Idle, Running
<1>3. ASSUME NEW x \in Workers \ {w} PROVE (Captures(x) /\ \A r \in Rows : Kept(x, r))'
  BY <1>1 DEF QueueKept, Captures, Kept, Running
<1> QED
  BY <1>2, <1>3 DEF QueueKept

-----------------------------------------------------------------------------
(* The browser's passes and the answers they wait for. *)

Carried(k) == pass[k].todo \cup pass[k].keep \cup ({pass[k].cur} \ {None})

PassInv ==
    /\ \A k \in Passes : pass[k].phase = "idle" => pass[k] = Browser!NoPass
    /\ \A w, x \in Workers : client[w] = client[x] /\ client[w] # None => w = x

(* What is not booked is in the list, and each pass that runs will write it back. *)
Carries ==
    \A u \in known : \/ Booked(u)
                     \/ /\ \E p \in local : UidOf[p] = u
                        /\ \A k \in Passes : pass[k].phase = "run" => \E p \in Carried(k) : UidOf[p] = u

ServerInv == TypeOK /\ IInv /\ QueueKept

(* How a pass that waits goes on: without its entry, or with it. *)
LEMMA PassDrops ==
    ASSUME PosTypeOK, NEW k \in Passes, Browser!Drop(k)
    PROVE  /\ pass' \in [Passes -> Browser!Pass] /\ local' = local /\ pass[k].cur \in Payloads
           /\ \A x \in Passes \ {k} : pass'[x] = pass[x]
           /\ pass'[k].phase = pass[k].phase /\ pass'[k].cur = None
           /\ pass'[k].todo = pass[k].todo /\ pass'[k].keep = pass[k].keep
<1>1. pass \in [Passes -> Browser!Pass] /\ pass[k].cur \in Payloads
  BY DEF PosTypeOK, Browser!BrowserTypeOK, Browser!Drop, Browser!Waits, Browser!Pass
<1> DEFINE n == [pass[k] EXCEPT !.cur = None]
<1>2. pass' = [pass EXCEPT ![k] = n] /\ local' = local
  BY DEF Browser!Drop
<1>3. n \in Browser!Pass /\ n.phase = pass[k].phase /\ n.cur = None /\ n.todo = pass[k].todo /\ n.keep = pass[k].keep
  BY <1>1 DEF Browser!Pass
<1> HIDE DEF n
<1> QED
  BY <1>1, <1>2, <1>3

LEMMA PassKeeps ==
    ASSUME PosTypeOK, NEW k \in Passes, Browser!Keep(k)
    PROVE  /\ pass' \in [Passes -> Browser!Pass] /\ local' = local /\ pass[k].cur \in Payloads
           /\ \A x \in Passes \ {k} : pass'[x] = pass[x]
           /\ pass'[k].phase = pass[k].phase /\ pass'[k].cur = None
           /\ pass'[k].todo = pass[k].todo /\ pass'[k].keep = pass[k].keep \cup {pass[k].cur}
<1>1. pass \in [Passes -> Browser!Pass] /\ pass[k].cur \in Payloads
  BY DEF PosTypeOK, Browser!BrowserTypeOK, Browser!Keep, Browser!Waits, Browser!Pass
<1> DEFINE n == [pass[k] EXCEPT !.cur = None, !.keep = @ \cup {pass[k].cur}]
<1>2. pass' = [pass EXCEPT ![k] = n] /\ local' = local
  BY DEF Browser!Keep
<1>3. /\ n \in Browser!Pass /\ n.phase = pass[k].phase /\ n.cur = None /\ n.todo = pass[k].todo
      /\ n.keep = pass[k].keep \cup {pass[k].cur}
  BY <1>1 DEF Browser!Pass
<1> HIDE DEF n
<1> QED
  BY <1>1, <1>2, <1>3

(* A pass that runs, idles or waits, with what is carried by it. *)
LEMMA CarriedWaits ==
    ASSUME PassInv, NEW k \in Passes
    PROVE  pass[k].cur # None => pass[k].phase # "idle"
BY DEF PassInv, Browser!NoPass

LEMMA KeepCarries ==
    ASSUME PosTypeOK, PassInv, NEW k \in Passes, Browser!Keep(k)
    PROVE  /\ \A x \in Passes : Carried(x)' = Carried(x) /\ pass'[x].phase = pass[x].phase
           /\ \A x \in Passes : pass'[x].phase = "idle" => pass'[x] = Browser!NoPass
<1>1. ASSUME NEW x \in Passes PROVE Carried(x)' = Carried(x) /\ pass'[x].phase = pass[x].phase
  <2>1. CASE x = k
    <3>1. Carried(k)' = pass'[k].todo \cup pass'[k].keep \cup ({pass'[k].cur} \ {None})
      BY DEF Carried
    <3>2. Carried(k)' = pass[k].todo \cup pass[k].keep \cup {pass[k].cur}
      BY <3>1, PassKeeps
    <3>3. pass[k].cur # None
      BY DEF Browser!Keep, Browser!Waits
    <3> QED
      BY <2>1, <3>2, <3>3, PassKeeps DEF Carried
  <2>2. CASE x # k
    BY <2>2, PassKeeps DEF Carried
  <2> QED
    BY <2>1, <2>2
<1>2. pass[k].phase # "idle"
  BY CarriedWaits DEF Browser!Keep, Browser!Waits
<1> QED
  BY <1>1, <1>2, PassKeeps DEF PassInv

PosInv == ServerInv /\ PosTypeOK /\ PassInv

Connected(w) ==
    client[w] # None => /\ Running(w) /\ txn[w].job.op = "capture"
                        /\ pass[client[w]].cur = txn[w].job.payload

LEMMA PosParts ==
    PosTypeOK <=> /\ local \subseteq Payloads /\ pass \in [Passes -> Browser!Pass]
                  /\ client \in [Workers -> Passes \cup {None}] /\ known \subseteq Uids
                  /\ \A w \in Workers : Connected(w)
BY DEF PosTypeOK, Browser!BrowserTypeOK, Connected

(* A pass somebody works for waits for the answer. *)
LEMMA ClientWaits ==
    ASSUME PosInv, NEW w \in Workers, client[w] # None
    PROVE  /\ client[w] \in Passes /\ pass[client[w]].cur # None /\ pass[client[w]].phase # "idle"
           /\ pass[client[w]].cur = txn[w].job.payload /\ UidOf[txn[w].job.payload] = txn[w].job.uid
           /\ Running(w) /\ txn[w].job.op = "capture"
<1>1. client[w] \in Passes /\ Connected(w)
  BY PosParts DEF PosInv
<1>2. txn[w].job.payload \in Payloads /\ UidOf[txn[w].job.payload] = txn[w].job.uid
  BY <1>1 DEF Connected, PosInv, ServerInv, QueueKept, Captures
<1>3. pass[client[w]].cur # None
  BY <1>1, <1>2, QueueAssumption DEF Connected, QueueAssumption
<1> QED
  BY <1>1, <1>2, <1>3, CarriedWaits DEF Connected, PosInv

LEMMA ServerStill ==
    ASSUME QueueKept, UNCHANGED serverVars
    PROVE  /\ QueueKept' /\ queue' = queue /\ txn' = txn
           /\ \A u : Booked(u)' <=> Booked(u)
           /\ \A w : Running(w)' <=> Running(w)
<1>1. UNCHANGED <<queue, orders, reopened, lock, txn>>
  BY DEF serverVars, vars
<1> QED
  BY <1>1 DEF QueueKept, Captures, Kept, Running, Booked

(* While no pass runs, a sale takes the place of an earlier capture of it. *)
LEMMA SellStep ==
    ASSUME PosInv, NEW p \in Payloads, Sell(p)
    PROVE  /\ PosTypeOK' /\ PassInv' /\ QueueKept'
           /\ Carries /\ ~SellDuringPass => Carries'
<1>1. /\ local' = {q \in local : UidOf[q] # UidOf[p]} \cup {p} /\ pass' = pass
      /\ known' = known \cup {UidOf[p]} /\ client' = client
      /\ SellDuringPass \/ \A k \in Passes : pass[k] = Browser!NoPass
      /\ UNCHANGED serverVars
  BY DEF Sell, Browser!CaptureOrder, Browser!Resting
<1>2. QueueKept' /\ txn' = txn /\ (\A u : Booked(u)' <=> Booked(u)) /\ (\A w : Running(w)' <=> Running(w))
  BY <1>1, ServerStill DEF PosInv, ServerInv
<1>3. UidOf[p] \in Uids
  BY QueueAssumption DEF QueueAssumption
<1>4. PosTypeOK' /\ PassInv'
  <2>1. local' \subseteq Payloads /\ known' \subseteq Uids
    BY <1>1, <1>3, PosParts DEF PosInv
  <2>2. \A w \in Workers : Connected(w)'
    BY <1>1, <1>2, PosParts DEF PosInv, Connected
  <2> QED
    BY <1>1, <2>1, <2>2, PosParts DEF PosInv, PosTypeOK, Browser!BrowserTypeOK, Connected, PassInv
<1>5. ASSUME Carries, ~SellDuringPass PROVE Carries'
  <2> SUFFICES ASSUME NEW u \in known', ~Booked(u) PROVE \E q \in local' : UidOf[q] = u
    <3>1. \A k \in Passes : pass'[k].phase # "run"
      BY <1>1, <1>5 DEF Browser!NoPass
    <3> QED
      BY <1>2, <3>1 DEF Carries
  <2> QED
    BY <1>1, <1>5 DEF Carries
<1> QED
  BY <1>2, <1>4, <1>5

LEMMA StartStep ==
    ASSUME PosInv, NEW k \in Passes, Start(k)
    PROVE  PosTypeOK' /\ PassInv' /\ QueueKept' /\ (Carries => Carries')
<1> DEFINE n == [Browser!NoPass EXCEPT !.phase = "run", !.todo = local]
<1>1. /\ pass[k].phase = "idle" /\ pass' = [pass EXCEPT ![k] = n] /\ local' = local
      /\ client' = client /\ known' = known /\ UNCHANGED serverVars
  BY DEF Start, Browser!StartPass
<1>2. QueueKept' /\ txn' = txn /\ (\A u : Booked(u)' <=> Booked(u)) /\ (\A w : Running(w)' <=> Running(w))
  BY <1>1, ServerStill DEF PosInv, ServerInv
<1>3. pass \in [Passes -> Browser!Pass] /\ local \subseteq Payloads
  BY PosParts DEF PosInv
<1>4. n \in Browser!Pass /\ n.phase = "run" /\ n.todo = local /\ n.keep = {} /\ n.cur = None
  BY <1>3 DEF Browser!NoPass, Browser!Pass
<1> HIDE DEF n
<1>5. pass'[k] = n /\ (\A x \in Passes \ {k} : pass'[x] = pass[x]) /\ pass' \in [Passes -> Browser!Pass]
  BY <1>1, <1>3, <1>4
<1>6. \A w \in Workers : Connected(w)'
  <2> SUFFICES ASSUME NEW w \in Workers, client[w] # None PROVE Connected(w)'
    BY <1>1 DEF Connected
  <2>1. client[w] \in Passes \ {k}
    BY <1>1, ClientWaits
  <2> QED
    BY <1>1, <1>2, <1>5, <2>1, ClientWaits DEF Connected
<1>7. PosTypeOK' /\ PassInv'
  BY <1>1, <1>3, <1>4, <1>5, <1>6, PosParts DEF PosInv, PosTypeOK, Browser!BrowserTypeOK, Connected, PassInv
<1>8. ASSUME Carries PROVE Carries'
  <2> SUFFICES ASSUME NEW u \in known, ~Booked(u), NEW x \in Passes, pass'[x].phase = "run"
               PROVE  \E p \in Carried(x)' : UidOf[p] = u
    BY <1>1, <1>2, <1>8 DEF Carries
  <2>1. CASE x = k
    <3>1. \E p \in local : UidOf[p] = u
      BY <1>8 DEF Carries
    <3>2. local \subseteq Carried(k)'
      BY <1>4, <1>5 DEF Carried
    <3> QED
      BY <2>1, <3>1, <3>2
  <2>2. CASE x # k
    <3>1. pass'[x] = pass[x] /\ Carried(x)' = Carried(x)
      BY <1>5, <2>2 DEF Carried
    <3> QED
      BY <1>8, <3>1 DEF Carries
  <2> QED
    BY <2>1, <2>2
<1> QED
  BY <1>2, <1>7, <1>8

LEMMA SendStep ==
    ASSUME PosInv, NEW k \in Passes, NEW p \in Payloads, Send(k, p)
    PROVE  PosTypeOK' /\ PassInv' /\ QueueKept' /\ (Carries => Carries')
<1> DEFINE n == [pass[k] EXCEPT !.cur = p, !.todo = @ \ {p}]
<1>1. /\ pass[k].cur = None /\ p \in pass[k].todo /\ pass' = [pass EXCEPT ![k] = n] /\ local' = local
      /\ client' = client /\ known' = known /\ UNCHANGED serverVars
  BY DEF Send, Browser!Send, Browser!Waits
<1>2. QueueKept' /\ txn' = txn /\ (\A u : Booked(u)' <=> Booked(u)) /\ (\A w : Running(w)' <=> Running(w))
  BY <1>1, ServerStill DEF PosInv, ServerInv
<1>3. pass \in [Passes -> Browser!Pass] /\ pass[k].phase # "idle"
  BY <1>1, PosParts DEF PosInv, PassInv, Browser!NoPass
<1>4. /\ n \in Browser!Pass /\ n.phase = pass[k].phase /\ n.todo = pass[k].todo \ {p}
      /\ n.keep = pass[k].keep /\ n.cur = p
  BY <1>3 DEF Browser!Pass
<1> HIDE DEF n
<1>5. pass'[k] = n /\ (\A x \in Passes \ {k} : pass'[x] = pass[x]) /\ pass' \in [Passes -> Browser!Pass]
  BY <1>1, <1>3, <1>4
<1>6. \A w \in Workers : Connected(w)'
  <2> SUFFICES ASSUME NEW w \in Workers, client[w] # None PROVE Connected(w)'
    BY <1>1 DEF Connected
  <2>1. client[w] \in Passes \ {k}
    BY <1>1, ClientWaits
  <2> QED
    BY <1>1, <1>2, <1>5, <2>1, ClientWaits DEF Connected
<1>7. PosTypeOK' /\ PassInv'
  BY <1>1, <1>3, <1>4, <1>5, <1>6, PosParts DEF PosInv, PosTypeOK, Browser!BrowserTypeOK, Connected, PassInv
<1>8. ASSUME NEW x \in Passes PROVE Carried(x) \subseteq Carried(x)' /\ pass'[x].phase = pass[x].phase
  <2>1. p # None
    BY QueueAssumption DEF QueueAssumption
  <2>2. CASE x = k
    BY <1>1, <1>4, <1>5, <2>1, <2>2 DEF Carried
  <2>3. CASE x # k
    BY <1>5, <2>3 DEF Carried
  <2> QED
    BY <2>2, <2>3
<1>9. Carries => Carries'
  BY <1>1, <1>2, <1>8 DEF Carries
<1> QED
  BY <1>2, <1>7, <1>9

LEMMA LoseStep ==
    ASSUME PosInv, NEW k \in Passes, Lose(k)
    PROVE  PosTypeOK' /\ PassInv' /\ QueueKept' /\ (Carries => Carries')
<1>1. /\ Browser!Keep(k) /\ client' = [w \in Workers |-> IF client[w] = k THEN None ELSE client[w]]
      /\ known' = known /\ UNCHANGED serverVars
  BY DEF Lose, Hangup
<1>2. QueueKept' /\ txn' = txn /\ (\A u : Booked(u)' <=> Booked(u)) /\ (\A w : Running(w)' <=> Running(w))
  BY <1>1, ServerStill DEF PosInv, ServerInv
<1>3. /\ pass' \in [Passes -> Browser!Pass] /\ local' = local
      /\ \A x \in Passes \ {k} : pass'[x] = pass[x]
  BY <1>1, PassKeeps DEF PosInv
<1>4. /\ \A x \in Passes : Carried(x)' = Carried(x) /\ pass'[x].phase = pass[x].phase
      /\ \A x \in Passes : pass'[x].phase = "idle" => pass'[x] = Browser!NoPass
  BY <1>1, KeepCarries DEF PosInv
<1>5. client' \in [Workers -> Passes \cup {None}]
  BY <1>1, PosParts DEF PosInv
<1>6. \A w \in Workers : Connected(w)'
  <2> SUFFICES ASSUME NEW w \in Workers, client'[w] # None PROVE Connected(w)'
    BY DEF Connected
  <2>1. client'[w] = client[w] /\ client[w] \in Passes \ {k}
    BY <1>1, ClientWaits
  <2> QED
    BY <1>2, <1>3, <2>1, ClientWaits DEF Connected
<1>7. PosTypeOK' /\ PassInv'
  <2>1. local' \subseteq Payloads /\ known' \subseteq Uids
    BY <1>1, <1>3, PosParts DEF PosInv
  <2>2. PosTypeOK'
    BY <1>3, <1>5, <1>6, <2>1 DEF PosTypeOK, Browser!BrowserTypeOK, Connected
  <2>3. PassInv'
    BY <1>1, <1>4 DEF PosInv, PassInv
  <2> QED
    BY <2>2, <2>3
<1>8. Carries => Carries'
  BY <1>1, <1>2, <1>3, <1>4 DEF Carries
<1> QED
  BY <1>2, <1>7, <1>8

LEMMA FinishedStep ==
    ASSUME PosInv, NEW k \in Passes, Finished(k)
    PROVE  PosTypeOK' /\ PassInv' /\ QueueKept' /\ (Carries => Carries')
<1>1. /\ pass[k].phase = "run" /\ pass[k].todo = {} /\ pass[k].cur = None
      /\ local' = pass[k].keep /\ pass' = [pass EXCEPT ![k] = Browser!NoPass]
      /\ client' = client /\ known' = known /\ UNCHANGED serverVars
  BY DEF Finished, Browser!EndPass, Browser!Waits
<1>2. QueueKept' /\ txn' = txn /\ (\A u : Booked(u)' <=> Booked(u)) /\ (\A w : Running(w)' <=> Running(w))
  BY <1>1, ServerStill DEF PosInv, ServerInv
<1>3. pass \in [Passes -> Browser!Pass]
  BY PosParts DEF PosInv
<1>4. Browser!NoPass \in Browser!Pass /\ Browser!NoPass.phase # "run"
  BY DEF Browser!NoPass, Browser!Pass
<1>5. /\ pass'[k] = Browser!NoPass /\ (\A x \in Passes \ {k} : pass'[x] = pass[x])
      /\ pass' \in [Passes -> Browser!Pass] /\ local' \subseteq Payloads
  BY <1>1, <1>3, <1>4 DEF Browser!Pass
<1>6. \A w \in Workers : Connected(w)'
  <2> SUFFICES ASSUME NEW w \in Workers, client[w] # None PROVE Connected(w)'
    BY <1>1 DEF Connected
  <2>1. client[w] \in Passes \ {k}
    BY <1>1, ClientWaits
  <2> QED
    BY <1>1, <1>2, <1>5, <2>1, ClientWaits DEF Connected
<1>7. PosTypeOK' /\ PassInv'
  <2>1. PosTypeOK'
    BY <1>1, <1>5, <1>6, PosParts DEF PosInv, PosTypeOK, Browser!BrowserTypeOK, Connected
  <2> QED
    BY <1>1, <1>5, <2>1 DEF PosInv, PassInv
<1>8. ASSUME Carries PROVE Carries'
  <2>1. Carried(k) = pass[k].keep
    BY <1>1 DEF Carried
  <2>2. \A x \in Passes : pass'[x].phase = "run" => pass[x].phase = "run" /\ Carried(x)' = Carried(x)
    BY <1>4, <1>5 DEF Carried
  <2> QED
    BY <1>1, <1>2, <1>8, <2>1, <2>2 DEF Carries
<1> QED
  BY <1>2, <1>7, <1>8

LEMMA CloseStep ==
    ASSUME PosInv, NEW k \in Passes, Close(k)
    PROVE  PosTypeOK' /\ PassInv' /\ QueueKept' /\ (Carries => Carries')
<1>1. /\ local' = local /\ pass' = [pass EXCEPT ![k] = Browser!NoPass]
      /\ client' = [w \in Workers |-> IF client[w] = k THEN None ELSE client[w]]
      /\ known' = known /\ UNCHANGED serverVars
  BY DEF Close, Browser!ClosePage, Hangup
<1>2. QueueKept' /\ txn' = txn /\ (\A u : Booked(u)' <=> Booked(u)) /\ (\A w : Running(w)' <=> Running(w))
  BY <1>1, ServerStill DEF PosInv, ServerInv
<1>3. Browser!NoPass \in Browser!Pass /\ Browser!NoPass.phase # "run"
  BY DEF Browser!NoPass, Browser!Pass
<1>4. /\ pass'[k] = Browser!NoPass /\ (\A x \in Passes \ {k} : pass'[x] = pass[x])
      /\ pass' \in [Passes -> Browser!Pass]
  BY <1>1, <1>3, PosParts DEF PosInv
<1>5. client' \in [Workers -> Passes \cup {None}]
  BY <1>1, PosParts DEF PosInv
<1>6. \A w \in Workers : Connected(w)'
  <2> SUFFICES ASSUME NEW w \in Workers, client'[w] # None PROVE Connected(w)'
    BY DEF Connected
  <2>1. client'[w] = client[w] /\ client[w] \in Passes \ {k}
    BY <1>1, ClientWaits
  <2> QED
    BY <1>2, <1>4, <2>1, ClientWaits DEF Connected
<1>7. PosTypeOK' /\ PassInv'
  <2>1. PosTypeOK'
    BY <1>1, <1>4, <1>5, <1>6, PosParts DEF PosInv, PosTypeOK, Browser!BrowserTypeOK, Connected
  <2> QED
    BY <1>1, <1>4, <2>1 DEF PosInv, PassInv
<1>8. Carries => Carries'
  <2>1. \A x \in Passes : pass'[x].phase = "run" => pass[x].phase = "run" /\ Carried(x)' = Carried(x)
    BY <1>3, <1>4 DEF Carried
  <2> QED
    BY <1>1, <1>2, <2>1 DEF Carries
<1> QED
  BY <1>2, <1>7, <1>8

(* Steps of the server that leave the browser alone, and whatever is asked to run on. *)
LEMMA QuietStep ==
    ASSUME PosInv, QueueKept', UNCHANGED netVars,
           \A u \in known : Booked(u) => Booked(u)',
           \A w \in Workers : client[w] # None =>
              Running(w)' /\ txn'[w].job.op = txn[w].job.op /\ txn'[w].job.payload = txn[w].job.payload
    PROVE  PosTypeOK' /\ PassInv' /\ QueueKept' /\ (Carries => Carries')
<1>1. UNCHANGED <<local, pass, client, known>>
  BY DEF netVars
<1>2. \A w \in Workers : Connected(w)'
  BY <1>1, ClientWaits DEF Connected
<1>3. PosTypeOK' /\ PassInv'
  BY <1>1, <1>2 DEF PosInv, PosTypeOK, Browser!BrowserTypeOK, Connected, PassInv
<1>4. \A x \in Passes : Carried(x)' = Carried(x)
  BY <1>1 DEF Carried
<1>5. Carries => Carries'
  BY <1>1, <1>4 DEF Carries
<1> QED
  BY <1>3, <1>5

LEMMA AcceptStep ==
    ASSUME PosInv, NEW k \in Passes, NEW w \in Workers, Accept(k, w)
    PROVE  PosTypeOK' /\ PassInv' /\ QueueKept' /\ (Carries => Carries')
<1> DEFINE j == [NoJob EXCEPT !.op = "capture", !.uid = UidOf[pass[k].cur], !.payload = pass[k].cur, !.lock = TRUE]
<1>1. /\ client[w] = None /\ pass[k].cur # None /\ (\A x \in Workers : client[x] # k) /\ Begin(w, j)
      /\ client' = [client EXCEPT ![w] = k] /\ UNCHANGED <<local, pass, known>>
  BY DEF Accept, Browser!Waits, Clients, BeginCapture
<1>2. pass[k].cur \in Payloads /\ client \in [Workers -> Passes \cup {None}] /\ pass \in [Passes -> Browser!Pass]
  BY <1>1, PosParts DEF PosInv, Browser!Pass
<1>3. j \in Job /\ j.op = "capture" /\ j.payload = pass[k].cur /\ j.uid = UidOf[pass[k].cur]
  BY <1>2, JobTypes DEF NoJob
<1> HIDE DEF j
<1>4. /\ txn' = [txn EXCEPT ![w] = [Idle EXCEPT !.phase = "begun", !.job = j, !.view = queue]] /\ queue' = queue
  BY <1>1 DEF Begin
<1>5. QueueKept'
  BY <1>2, <1>3, <1>4, SnapshotKept DEF PosInv, ServerInv
<1>6. txn'[w].phase = "begun" /\ txn'[w].job = j /\ \A x \in Workers \ {w} : txn'[x] = txn[x]
  BY <1>4 DEF PosInv, ServerInv, TypeOK, Idle
<1>7. client'[w] = k /\ (\A x \in Workers \ {w} : client'[x] = client[x]) /\ client' \in [Workers -> Passes \cup {None}]
  BY <1>1, <1>2
<1>8. \A x \in Workers : Connected(x)'
  <2>1. Connected(w)'
    BY <1>1, <1>3, <1>6, <1>7 DEF Connected, Running
  <2>2. ASSUME NEW x \in Workers \ {w} PROVE Connected(x)'
    BY <1>1, <1>6, <1>7, ClientWaits DEF Connected, Running
  <2> QED
    BY <2>1, <2>2
<1>9. PosTypeOK'
  BY <1>1, <1>7, <1>8 DEF PosInv, PosTypeOK, Browser!BrowserTypeOK, Connected
<1>10. PassInv'
  BY <1>1, <1>7 DEF PosInv, PassInv
<1>11. Carries => Carries'
  <2>1. \A x \in Passes : Carried(x)' = Carried(x)
    BY <1>1 DEF Carried
  <2> QED
    BY <1>1, <1>4, <2>1 DEF Carries, Booked
<1> QED
  BY <1>5, <1>9, <1>10, <1>11

LEMMA ServeStep ==
    ASSUME PosInv, NEW w \in Workers, Serve(w)
    PROVE  PosTypeOK' /\ PassInv' /\ QueueKept' /\ (Carries => Carries')
<1>1. TypeOK /\ IInv /\ QueueKept
  BY DEF PosInv, ServerInv
<1>2. UNCHANGED netVars
  BY DEF Serve
<1>3. CASE CaptureUpsert(w) \/ SelectPending(w) \/ Replay(w)
  <2>1. Running(w) /\ Effect(w)
    <3>1. Running(w)
      BY <1>1, <1>3 DEF CaptureUpsert, SelectPending, Replay, ReplaySkip, ReplayConflict, ReplayBook, ReplayError, IInv, TxnInv, Running
    <3> QED
      BY <1>1, <1>3, <3>1, CaptureEffect, SelectEffect, ReplayEffect
  <2>2. txn[w].phase = "begun" /\ txn[w].job.op = "capture" =>
           txn'[w].job.row \in Rows /\ txn'[w].view[txn'[w].job.row].uid = txn[w].job.uid
    <3>1. CASE CaptureUpsert(w)
      BY <1>1, <3>1, CaptureFinds
    <3>2. CASE SelectPending(w)
      BY <3>2 DEF SelectPending
    <3>3. CASE Replay(w)
      BY <1>1, <3>3 DEF Replay, ReplaySkip, ReplayConflict, ReplayBook, ReplayError, IInv, TxnInv
    <3> QED
      BY <1>3, <3>1, <3>2, <3>3
  <2>3. QueueKept'
    BY <1>1, <2>1, <2>2, EffectKept
  <2>4. queue' = queue /\ \A x \in Workers : txn'[x] = txn[x] \/ x = w
    BY <2>1 DEF Effect
  <2>5. Running(w)' /\ txn'[w].job.op = txn[w].job.op /\ txn'[w].job.payload = txn[w].job.payload
    BY <2>1 DEF Effect, Running
  <2>6. \A x \in Workers : client[x] # None =>
           Running(x)' /\ txn'[x].job.op = txn[x].job.op /\ txn'[x].job.payload = txn[x].job.payload
    BY <2>4, <2>5, ClientWaits DEF Running
  <2> QED
    BY <1>2, <2>3, <2>4, <2>6, QuietStep DEF Booked
<1>4. CASE SerializationFailure(w)
  <2> DEFINE j == txn[w].job
             n == [Idle EXCEPT !.phase = "begun", !.job = j, !.view = queue]
  <2>1. txn[w].phase = "run" /\ txn' = [txn EXCEPT ![w] = n] /\ queue' = queue
    BY <1>4 DEF SerializationFailure
  <2>2. j \in Job /\ Running(w)
    BY <1>1, <2>1 DEF TypeOK, Txn, Running
  <2>3. j.op \in {"capture", "pending"} /\ (j.op = "capture" => j.payload \in Payloads /\ UidOf[j.payload] = j.uid)
    BY <1>1, <2>2 DEF QueueKept, Captures
  <2>4. QueueKept'
    BY <1>1, <2>1, <2>2, <2>3, SnapshotKept
  <2>5. txn'[w] = n /\ \A x \in Workers : txn'[x] = txn[x] \/ x = w
    BY <1>1, <2>1 DEF TypeOK
  <2>6. n.phase = "begun" /\ n.job = j
    BY DEF Idle
  <2> HIDE DEF n
  <2>7. \A x \in Workers : client[x] # None =>
           Running(x)' /\ txn'[x].job.op = txn[x].job.op /\ txn'[x].job.payload = txn[x].job.payload
    BY <2>5, <2>6, ClientWaits DEF Running
  <2> QED
    BY <1>2, <2>1, <2>4, <2>7, QuietStep DEF Booked
<1> QED
  BY <1>3, <1>4 DEF Serve

LEMMA ReplayPendingStep ==
    ASSUME PosInv, NEW w \in Workers, ReplayPending(w)
    PROVE  PosTypeOK' /\ PassInv' /\ QueueKept' /\ (Carries => Carries')
<1> DEFINE j == [NoJob EXCEPT !.op = "pending"]
<1>1. Begin(w, j) /\ UNCHANGED netVars
  BY DEF ReplayPending, BeginPending
<1>2. j \in Job /\ j.op = "pending"
  BY JobTypes DEF NoJob
<1> HIDE DEF j
<1>3. /\ txn[w].phase = "idle" /\ queue' = queue
      /\ txn' = [txn EXCEPT ![w] = [Idle EXCEPT !.phase = "begun", !.job = j, !.view = queue]]
  BY <1>1 DEF Begin
<1>4. QueueKept'
  BY <1>2, <1>3, SnapshotKept DEF PosInv, ServerInv
<1>5. client[w] = None
  BY <1>3, ClientWaits DEF Running
<1>6. \A x \in Workers \ {w} : txn'[x] = txn[x]
  BY <1>3 DEF PosInv, ServerInv, TypeOK
<1>7. \A x \in Workers : client[x] # None =>
         Running(x)' /\ txn'[x].job.op = txn[x].job.op /\ txn'[x].job.payload = txn[x].job.payload
  BY <1>5, <1>6, ClientWaits DEF Running
<1> QED
  BY <1>1, <1>3, <1>4, <1>7, QuietStep DEF Booked

(* A worker that ends tells the pass that waits for it, and no other. *)
LEMMA EndStep ==
    ASSUME PosInv, QueueKept', NEW w \in Workers, client' = [client EXCEPT ![w] = None], known' = known,
           NEW sale, client[w] # None => sale = UidOf[pass[client[w]].cur],
           IF client[w] = None THEN UNCHANGED <<local, pass>>
           ELSE Browser!Keep(client[w]) \/ (Browser!Drop(client[w]) /\ Booked(sale)'),
           \A u \in known : Booked(u) => Booked(u)',
           \A x \in Workers \ {w} : client[x] # None =>
              Running(x)' /\ txn'[x].job.op = txn[x].job.op /\ txn'[x].job.payload = txn[x].job.payload
    PROVE  PosTypeOK' /\ PassInv' /\ QueueKept' /\ (Carries => Carries')
<1>1. client \in [Workers -> Passes \cup {None}]
  BY PosParts DEF PosInv
<1>2. client'[w] = None /\ (\A x \in Workers \ {w} : client'[x] = client[x]) /\ client' \in [Workers -> Passes \cup {None}]
  BY <1>1
<1>3. /\ pass' \in [Passes -> Browser!Pass] /\ local' = local
      /\ \A x \in Passes : x # client[w] => pass'[x] = pass[x]
      /\ \A x \in Passes : pass'[x].phase = pass[x].phase
  <2>1. CASE client[w] = None
    BY <2>1, PosParts DEF PosInv
  <2>2. CASE client[w] # None
    <3>1. client[w] \in Passes
      BY <2>2, ClientWaits
    <3>2. CASE Browser!Keep(client[w])
      BY <3>1, <3>2, PassKeeps DEF PosInv
    <3>3. CASE Browser!Drop(client[w])
      BY <3>1, <3>3, PassDrops DEF PosInv
    <3> QED
      BY <2>2, <3>2, <3>3
  <2> QED
    BY <2>1, <2>2
<1>4. \A x \in Workers : Connected(x)'
  <2> SUFFICES ASSUME NEW x \in Workers \ {w}, client[x] # None PROVE Connected(x)'
    BY <1>2 DEF Connected
  <2>1. client[x] # client[w] /\ client[x] \in Passes
    BY ClientWaits DEF PosInv, PassInv
  <2> QED
    BY <1>2, <1>3, <2>1, ClientWaits DEF Connected
<1>5. PosTypeOK'
  <2>1. local' \subseteq Payloads /\ known' \subseteq Uids
    BY <1>3, PosParts DEF PosInv
  <2> QED
    BY <1>2, <1>3, <1>4, <2>1 DEF PosTypeOK, Browser!BrowserTypeOK, Connected
<1>6. PassInv'
  <2>1. ASSUME NEW x \in Passes, pass'[x].phase = "idle" PROVE pass'[x] = Browser!NoPass
    <3>1. pass[x].phase = "idle"
      BY <1>3, <2>1
    <3>2. x # client[w]
      BY <1>1, <3>1, ClientWaits, QueueAssumption, PosAssumption
    <3> QED
      BY <1>3, <3>1, <3>2 DEF PosInv, PassInv
  <2>2. \A x, y \in Workers : client'[x] = client'[y] /\ client'[x] # None => x = y
    BY <1>2 DEF PosInv, PassInv
  <2> QED
    BY <2>1, <2>2 DEF PassInv
<1>7. ASSUME Carries PROVE Carries'
  <2> SUFFICES ASSUME NEW u \in known, ~Booked(u)' PROVE
           /\ \E p \in local' : UidOf[p] = u
           /\ \A x \in Passes : pass'[x].phase = "run" => \E p \in Carried(x)' : UidOf[p] = u
    BY DEF Carries
  <2>1. /\ \E p \in local : UidOf[p] = u
        /\ \A x \in Passes : pass[x].phase = "run" => \E p \in Carried(x) : UidOf[p] = u
    BY <1>7 DEF Carries
  <2> SUFFICES ASSUME NEW x \in Passes, pass'[x].phase = "run" PROVE \E p \in Carried(x)' : UidOf[p] = u
    BY <1>3, <2>1
  <2>2. PICK p \in Carried(x) : UidOf[p] = u
    BY <1>3, <2>1
  <2>3. CASE x # client[w]
    <3>1. Carried(x)' = Carried(x)
      BY <1>3, <2>3 DEF Carried
    <3> QED
      BY <2>2, <3>1
  <2>4. CASE x = client[w] /\ Browser!Keep(x)
    <3>1. Carried(x)' = Carried(x)
      BY <2>4, KeepCarries DEF PosInv
    <3> QED
      BY <2>2, <3>1
  <2>5. CASE x = client[w] /\ Browser!Drop(x) /\ Booked(sale)' /\ client[w] # None
    <3>1. p # pass[x].cur
      BY <2>2, <2>5
    <3>2. p \in pass[x].todo \cup pass[x].keep
      BY <2>2, <3>1 DEF Carried
    <3>3. pass'[x].todo = pass[x].todo /\ pass'[x].keep = pass[x].keep
      BY <2>5, PassDrops DEF PosInv
    <3>4. p \in Carried(x)'
      BY <3>2, <3>3 DEF Carried
    <3> QED
      BY <2>2, <3>4
  <2>6. x = client[w] => client[w] # None
    BY PosAssumption DEF PosAssumption
  <2>7. CASE x = client[w]
    <3>1. client[w] # None
      BY <2>6, <2>7
    <3>2. Browser!Keep(client[w]) \/ (Browser!Drop(client[w]) /\ Booked(sale)')
      BY <3>1
    <3>3. CASE Browser!Keep(client[w])
      <4>1. Browser!Keep(x)
        BY <2>7, <3>3
      <4> QED
        BY <2>4, <2>7, <4>1
    <3>4. CASE Browser!Drop(client[w]) /\ Booked(sale)'
      <4>1. Browser!Drop(x)
        BY <2>7, <3>4
      <4> QED
        BY <2>5, <2>7, <3>1, <3>4, <4>1
    <3> QED
      BY <3>2, <3>3, <3>4
  <2> QED
    BY <2>3, <2>7
<1> QED
  BY <1>5, <1>6, <1>7

LEMMA AnswerStep ==
    ASSUME PosInv, NEW w \in Workers, Answer(w)
    PROVE  PosTypeOK' /\ PassInv' /\ QueueKept' /\ (Carries => Carries')
<1> DEFINE t == txn[w]
<1>1. TypeOK /\ IInv /\ QueueKept /\ Commit(w)
  BY DEF PosInv, ServerInv, Answer
<1>2. QueueKept'
  BY <1>1, CommitKept
<1>3. \A u : Booked(u) => Booked(u)'
  BY <1>1, CommitStays DEF Booked
<1>4. ASSUME NEW x \in Workers \ {w}, client[x] # None
      PROVE  Running(x)' /\ txn'[x].job.op = txn[x].job.op /\ txn'[x].job.payload = txn[x].job.payload
  <2> DEFINE y == [txn[x] EXCEPT !.stale = @ \cup t.dirty]
  <2>1. Running(x) /\ txn[x] \in Txn
    BY <1>1, <1>4, ClientWaits DEF TypeOK
  <2>2. txn'[x] = y
    BY <1>1, <2>1 DEF Commit
  <2>3. y.phase = txn[x].phase /\ y.job = txn[x].job
    BY <2>1 DEF Txn
  <2> HIDE DEF y
  <2> QED
    BY <2>1, <2>2, <2>3 DEF Running
<1> PICK sale : sale = UidOf[pass[client[w]].cur]
  OBVIOUS
<1>5. ASSUME client[w] # None, Acknowledges(w) PROVE Booked(sale)'
  <2>1. t.phase = "run" /\ Running(w) /\ t.job.op = "capture" /\ sale = t.job.uid
    BY <1>1, <1>5, ClientWaits DEF Commit
  <2> DEFINE r == t.job.row
  <2>2. r \in Rows /\ t.view[r].uid = t.job.uid /\ t.view[r].state = "replayed"
    BY <1>1, <1>5, <2>1 DEF QueueKept, Captures, Acknowledges
  <2>3. CASE r \in t.dirty
    <3>1. queue'[r] = t.view[r]
      BY <1>1, <2>2, <2>3 DEF Commit
    <3> QED
      BY <2>1, <2>2, <3>1 DEF Booked
  <2>4. CASE r \notin t.dirty
    <3>1. queue[r].state = "replayed" /\ queue[r].uid = t.view[r].uid
      BY <1>1, <2>1, <2>2, <2>4 DEF QueueKept, Kept
    <3>2. queue'[r] = queue[r]
      BY <1>1, <2>2, <3>1, CommitStays
    <3> QED
      BY <2>1, <2>2, <3>1, <3>2 DEF Booked
  <2> QED
    BY <2>3, <2>4
<1>6. /\ client' = [client EXCEPT ![w] = None] /\ known' = known
      /\ IF client[w] = None THEN UNCHANGED <<local, pass>>
         ELSE Browser!Keep(client[w]) \/ (Browser!Drop(client[w]) /\ Booked(sale)')
  BY <1>5 DEF Answer
<1> QED
  BY <1>2, <1>3, <1>4, <1>6, EndStep

LEMMA CrashStep ==
    ASSUME PosInv, NEW w \in Workers, Crash(w)
    PROVE  PosTypeOK' /\ PassInv' /\ QueueKept' /\ (Carries => Carries')
<1>1. TypeOK /\ QueueKept /\ Abort(w)
  BY DEF PosInv, ServerInv, Crash
<1>2. QueueKept' /\ queue' = queue /\ \A x \in Workers \ {w} : txn'[x] = txn[x]
  <2>1. QueueKept'
    BY <1>1, AbortKept
  <2> QED
    BY <1>1, <2>1 DEF Abort, TypeOK
<1>3. \A x \in Workers \ {w} : client[x] # None =>
         Running(x)' /\ txn'[x].job.op = txn[x].job.op /\ txn'[x].job.payload = txn[x].job.payload
  BY <1>2, ClientWaits DEF Running
<1>4. \A u : Booked(u) => Booked(u)'
  BY <1>2 DEF Booked
<1>5. /\ client' = [client EXCEPT ![w] = None] /\ known' = known
      /\ IF client[w] = None THEN UNCHANGED <<local, pass>> ELSE Browser!Keep(client[w])
  BY DEF Crash
<1> QED
  BY <1>2, <1>3, <1>4, <1>5, EndStep

-----------------------------------------------------------------------------
(* The steps of the composition are steps of the queue. *)
LEMMA QueueSteps ==
    ASSUME PosInv, [PosNext]_posVars
    PROVE  [Next]_vars
<1>1. CASE UNCHANGED posVars
  BY <1>1 DEF posVars, vars
<1>2. ASSUME NEW p \in Payloads, Sell(p) PROVE UNCHANGED vars
  BY <1>2 DEF Sell, serverVars
<1>3. ASSUME NEW k \in Passes, Start(k) \/ Lose(k) \/ Finished(k) \/ Close(k) PROVE UNCHANGED vars
  BY <1>3 DEF Start, Lose, Finished, Close, serverVars
<1>4. ASSUME NEW k \in Passes, NEW p \in Payloads, Send(k, p) PROVE UNCHANGED vars
  BY <1>4 DEF Send, serverVars
<1>5. ASSUME NEW k \in Passes, NEW w \in Workers, Accept(k, w) PROVE Next
  <2>1. pass[k].cur \in Payloads /\ BeginCapture(w, pass[k].cur, TRUE)
    BY <1>5, PosParts DEF PosInv, Accept, Browser!Waits, Browser!Pass
  <2>2. Capture(w)
    BY <2>1 DEF Capture
  <2> QED
    BY <2>2 DEF Next
<1>6. ASSUME NEW w \in Workers, Serve(w) \/ ReplayPending(w) \/ Answer(w) \/ Crash(w) PROVE Next
  <2>1. Capture(w) \/ Pend(w) \/ Replay(w) \/ Finish(w)
    BY <1>6 DEF Serve, ReplayPending, Answer, Crash, Capture, Pend, Finish
  <2> QED
    BY <2>1 DEF Next
<1> QED
  BY <1>1, <1>2, <1>3, <1>4, <1>5, <1>6 DEF PosNext

LEMMA PosStep ==
    ASSUME PosInv, [PosNext]_posVars
    PROVE  /\ PosInv'
           /\ Carries /\ ~SellDuringPass => Carries'
<1>1. TypeOK' /\ IInv'
  BY QueueSteps, NextTyped, NextInductive DEF PosInv, ServerInv
<1>2. /\ PosTypeOK' /\ PassInv' /\ QueueKept'
      /\ Carries /\ ~SellDuringPass => Carries'
  <2>1. CASE UNCHANGED posVars
    <3>1. UNCHANGED serverVars /\ UNCHANGED <<local, pass, client, known>>
      BY <2>1 DEF posVars, serverVars, vars
    <3>2. QueueKept' /\ txn' = txn /\ (\A u : Booked(u)' <=> Booked(u)) /\ (\A w : Running(w)' <=> Running(w))
      BY <3>1, ServerStill DEF PosInv, ServerInv
    <3>3. PosTypeOK' /\ PassInv'
      BY <3>1, <3>2 DEF PosInv, PosTypeOK, Browser!BrowserTypeOK, PassInv
    <3>4. Carries => Carries'
      BY <3>1, <3>2 DEF Carries, Carried
    <3> QED
      BY <3>2, <3>3, <3>4
  <2>2. ASSUME NEW p \in Payloads, Sell(p)
        PROVE  PosTypeOK' /\ PassInv' /\ QueueKept' /\ (Carries /\ ~SellDuringPass => Carries')
    BY <2>2, SellStep
  <2>3. ASSUME NEW k \in Passes, Start(k) \/ Lose(k) \/ Finished(k) \/ Close(k)
        PROVE  PosTypeOK' /\ PassInv' /\ QueueKept' /\ (Carries => Carries')
    BY <2>3, StartStep, LoseStep, FinishedStep, CloseStep
  <2>4. ASSUME NEW k \in Passes, NEW p \in Payloads, Send(k, p)
        PROVE  PosTypeOK' /\ PassInv' /\ QueueKept' /\ (Carries => Carries')
    BY <2>4, SendStep
  <2>5. ASSUME NEW k \in Passes, NEW w \in Workers, Accept(k, w)
        PROVE  PosTypeOK' /\ PassInv' /\ QueueKept' /\ (Carries => Carries')
    BY <2>5, AcceptStep
  <2>6. ASSUME NEW w \in Workers, Serve(w) \/ ReplayPending(w) \/ Answer(w) \/ Crash(w)
        PROVE  PosTypeOK' /\ PassInv' /\ QueueKept' /\ (Carries => Carries')
    BY <2>6, ServeStep, ReplayPendingStep, AnswerStep, CrashStep
  <2> QED
    BY <2>1, <2>2, <2>3, <2>4, <2>5, <2>6 DEF PosNext
<1> QED
  BY <1>1, <1>2 DEF PosInv, ServerInv

LEMMA PosStart == PosInit => PosInv /\ Carries
<1> SUFFICES ASSUME PosInit PROVE PosInv /\ Carries
  OBVIOUS
<1>1. /\ Init /\ local = {} /\ pass = [k \in Passes |-> Browser!NoPass]
      /\ client = [w \in Workers |-> None] /\ known = {}
  BY DEF PosInit, Browser!Init
<1>2. TypeOK
  BY <1>1, IdleType DEF Init, TypeOK, Ledger!Init
<1>3. IInv
  BY <1>1, InitInductive
<1>4. QueueKept
  BY <1>1 DEF Init, QueueKept, Captures, Kept, Idle, Running
<1>5. PosTypeOK
  BY <1>1 DEF PosTypeOK, Browser!BrowserTypeOK, Browser!Pass, Browser!NoPass
<1>6. PassInv
  BY <1>1 DEF PassInv
<1>7. Carries
  BY <1>1 DEF Carries
<1> QED
  BY <1>2, <1>3, <1>4, <1>5, <1>6, <1>7 DEF PosInv, ServerInv

(* Whatever requests are lost, aborted or sent twice, a worker somebody     *)
(* waits for is at work on the entry that its pass has sent.                *)
THEOREM PosTyped == PosSpec => []PosTypeOK
<1>1. PosInv /\ [PosNext]_posVars => PosInv'
  BY PosStep
<1>2. PosInv => PosTypeOK
  BY DEF PosInv
<1> QED
  BY PosStart, <1>1, <1>2, PTL DEF PosSpec

(* If no sale is made while a pass runs, no sale is ever lost: each one is  *)
(* booked, or the list has an entry of it, and so has every pass that will  *)
(* write its entries over the list.  With a sale during a pass it is false, *)
(* see MCPosLost.                                                           *)
THEOREM SalesKept == ASSUME ~SellDuringPass PROVE PosSpec => []NothingLost
<1>1. PosInv /\ Carries /\ [PosNext]_posVars => PosInv' /\ Carries'
  BY PosStep
<1>2. Carries => NothingLost
  BY DEF Carries, NothingLost
<1> QED
  BY PosStart, <1>1, <1>2, PTL DEF PosSpec
=============================================================================
