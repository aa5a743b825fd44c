---------------------------- MODULE OfflineEvidence ----------------------------
(***************************************************************************)
(* The evidence that offline selling works: while a pilot register goes on  *)
(* selling and replaying, four exporters run one after the other.  The      *)
(* replay exporter reads the browser tests; the snapshot asks the server    *)
(* twice for the offline queue; the pilot exporter reads both; and the POS  *)
(* matrix reads them all.  They run with --strict, each goes on whatever    *)
(* became of the ones before it, and a step can be lost.                    *)
(*                                                                         *)
(* Left out: the contracts on source files, metadata and credentials, which *)
(* only ever block, and the attempts of a sale.                             *)
(***************************************************************************)
EXTENDS Naturals, Sequences, FiniteSets

CONSTANTS MaxSales,        \* a bound: sales of the pilot register that are queued
          SnapshotLimit,   \* TIJARA_OFFLINE_QUEUE_SNAPSHOT_LIMIT
          MaxChanges,      \* a bound: operations on sales between the two questions
          MaxFlaws,        \* a bound: things wrong with the browser tests
          MaxLost          \* a bound: steps that end before they write

ASSUME OfflineAssumption == {MaxSales, MaxChanges, MaxLost} \subseteq Nat

VARIABLES sales,      \* the offline queue, oldest first
          e2e,        \* what the browser tests have left, see E2E
          counts,     \* what the status route answered, by state
          evidence,   \* evidence[c]: the report of c
          typed,      \* whether the pilot's figures were typed in
          standing,   \* the sales there were when the status route answered (history)
          at,         \* the step that runs next
          changes,
          lost

offlineVars == <<sales, e2e, counts, evidence, typed, standing, at, changes, lost>>

(* waiting: queued or validated; stuck: failed or in conflict; closed: a duplicate, *)
(* merged or cancelled.                                                          *)
States == {"waiting", "stuck", "replayed", "closed"}

(* late: it waits longer than the threshold; age: what the record said of that  *)
(* when its pilot metrics were last refreshed, which every operation on it does. *)
Sale == [state : States, late : BOOLEAN, age : {"recent", "late"}]

Reporters == {"replay", "snapshot", "pilot", "matrix"}
NoReport  == [decision |-> "", proof |-> FALSE, figures |-> <<>>]

(* What the browser tests left: the readiness and execution evidence (the worse *)
(* of them), the orchestration's table, and Playwright's report.  "proof" says   *)
(* that its POS and offline tests passed, "layout" how it nests a test: below    *)
(* the specs of a suite (as Playwright's JSON reporter writes it), directly in   *)
(* the suite, or both.                                                           *)
Found == {"missing", "failed", "warning", "passed"}
E2E == [results : Found, orchestration : Found, playwright : {"missing", "unexpected", "passed"},
        proof : BOOLEAN, layout : {"specs", "tests", "both"}]

GoodTests == [results |-> "passed", orchestration |-> "passed", playwright |-> "passed",
              proof |-> TRUE, layout |-> "specs"]

Steps == [replay |-> 1, status |-> 2, snapshot |-> 3, pilot |-> 4, matrix |-> 5]

Verdicts(pass, fail, blocked, warned) == IF blocked THEN fail ELSE IF warned THEN "warning" ELSE pass

-----------------------------------------------------------------------------
(* The queue.  The attention a record asks for is stored with its age.           *)
Refreshed(sale) ==
    [sale EXCEPT !.age = IF sale.late THEN "late" ELSE "recent", !.late = sale.late /\ sale.state = "waiting"]

Attention(sale) == CASE sale.state \in {"replayed", "closed"} -> "resolved"
                     [] sale.state = "stuck" -> "blocked"
                     [] OTHER -> IF sale.age = "late" THEN "watch" ELSE "ok"

(* Only the sales between the two questions to the server make a difference. *)
Shop ==
    /\ at = Steps.snapshot
    /\ changes < MaxChanges /\ changes' = changes + 1
    /\ UNCHANGED <<e2e, counts, evidence, typed, standing, at, lost>>

Capture ==
    /\ Len(sales) < MaxSales
    /\ \E s \in States : sales' = Append(sales, [state |-> s, late |-> FALSE, age |-> "recent"])
    /\ Shop

Move(i, to) == sales' = [sales EXCEPT ![i] = Refreshed([@ EXCEPT !.state = to])] /\ Shop

TryAgain(i) == sales[i].state \in {"waiting", "stuck"} /\ \E s \in {"replayed", "stuck"} : Move(i, s)

Settle(i) ==
    \/ sales[i].state \in {"waiting", "stuck"} /\ \E s \in {"replayed", "closed", "stuck"} : Move(i, s)
    \/ sales[i].state \in {"stuck", "closed"} /\ Move(i, "waiting")

Refresh(i) == sales' = [sales EXCEPT ![i] = Refreshed(@)] /\ Shop

(* Time passes for a sale that waits; nothing refreshes its metrics. *)
Wait(i) == sales[i].state = "waiting" /\ sales' = [sales EXCEPT ![i].late = TRUE] /\ Shop

-----------------------------------------------------------------------------
(* export_protected_offline_replay_evidence.  It looks for tests in suites. *)
Shows(layouts) == e2e.playwright # "missing" /\ e2e.proof /\ e2e.layout \in layouts

Proven == Shows({"tests", "both"})

ReplayReport(o) ==
    LET failing == {"failed", "missing"} \cap {e2e.results, e2e.orchestration} # {}
        blocked == \/ o.require_e2e /\ (failing \/ ~Proven \/ e2e.playwright # "passed")
                   \/ o.require_pass /\ e2e.playwright # "passed"
                   \/ o.require_duplicate /\ ~Proven
        warned  == failing \/ e2e.results = "warning" \/ ~Proven \/ e2e.playwright # "passed"
    IN  [NoReport EXCEPT !.decision = Verdicts("passed", "failed", blocked \/ (o.fail_on_warning /\ warned), warned),
                         !.proof = Proven]

(* export_protected_offline_queue_snapshot: the newest rows, and what the status *)
(* route has counted before.                                                     *)
Sampled == {i \in DOMAIN sales : i + SnapshotLimit > Len(sales)}

With(P(_)) == Cardinality({i \in Sampled : P(sales[i])})

Larger(a, b) == IF a > b THEN a ELSE b

(* Rows are counted where the status route was not asked (a fault). *)
CountedInRows(answered, s) == LET In(r) == r.state = s IN With(In)

Counted(answered, s) ==
    LET In(r) == r.state = s
    IN  Larger(IF answered THEN counts[s] ELSE 0, With(In))

Or(a, b) == IF a # 0 THEN a ELSE b

Figures(answered) ==
    LET Blocked(r) == Attention(r) = "blocked"
        Watched(r) == Attention(r) = "watch"
        stuck      == Counted(answered, "stuck")
    IN  [replayed |-> Counted(answered, "replayed"), stuck |-> stuck,
         blocked |-> Or(With(Blocked), stuck), watch |-> With(Watched),
         age |-> IF Sampled = {} THEN "none"
                 ELSE IF \E i \in Sampled : sales[i].age = "late" THEN "late" ELSE "recent"]

NothingCollected == [replayed |-> 0, stuck |-> 0, blocked |-> 0, watch |-> 0, age |-> "none"]

Unasked == [s \in States |-> 0]

(* The search failed: only what the status route has counted is known. *)
StatusOnly(answered) ==
    IF answered THEN [NothingCollected EXCEPT !.replayed = counts["replayed"], !.stuck = counts["stuck"],
                                              !.blocked = counts["stuck"]]
    ELSE NothingCollected

(* asked: the probe is enabled and the server lets it in; answered: the status   *)
(* route does; listed: the search does.                                          *)
Snapshot(asked, answered, listed) ==
    LET figures == IF ~asked THEN NothingCollected
                   ELSE IF listed THEN Figures(answered) ELSE StatusOnly(answered)
        blocked == asked /\ (~answered \/ ~listed \/ figures.age = "none")
    IN  [NoReport EXCEPT !.decision = Verdicts("passed", "failed", blocked, ~asked), !.figures = <<figures>>]

(* export_protected_offline_pilot_evidence: figures typed in win over the        *)
(* snapshot's; whether the snapshot failed is not asked.  Proof that duplicates  *)
(* were met can be required, or only missed.                                     *)
TypedFigures == [NothingCollected EXCEPT !.replayed = 1, !.age = "recent"]

PilotFigures(o) ==
    IF o.typed THEN TypedFigures
    ELSE IF evidence["snapshot"].figures = <<>> THEN NothingCollected ELSE evidence["snapshot"].figures[1]

(* The replay report is there, has not failed, and has proof of its tests. *)
ReplayAccepted(o) ==
    LET replay == evidence["replay"]
    IN  /\ replay.decision \notin {"", "failed"} /\ replay.proof
        /\ o.require_pass => replay.decision = "passed"

(* Every threshold is zero but that of the sales replayed, which is one. *)
WithinThresholds(f) == f.replayed > 0 /\ f.blocked + f.watch + f.stuck = 0 /\ f.age = "recent"

Pilot(o) ==
    LET blocked == \/ ~o.signed \/ ~ReplayAccepted(o)
                   \/ ~o.typed /\ evidence["snapshot"].figures = <<>>
                   \/ ~WithinThresholds(PilotFigures(o))
                   \/ o.no_duplicates = "required"
        warned  == evidence["replay"].decision = "warning" \/ o.no_duplicates = "missed"
    IN  [NoReport EXCEPT !.decision = Verdicts("passed", "failed", blocked \/ (o.fail_on_warning /\ warned), warned)]

(* export_protected_pos_matrix_evidence.  It looks for tests in specs; the two    *)
(* offline reports are optional to it.                                           *)
Workflows == Shows({"specs", "both"})

Support(decision) == IF decision = "" THEN "warning" ELSE decision

ReadByMatrix(o) == {e2e.results, e2e.orchestration, o.browsers,
                    Support(evidence["replay"].decision), Support(evidence["pilot"].decision)}

Matrix(o) ==
    LET blocked == \/ "failed" \in ReadByMatrix(o) \/ e2e.results = "missing"
                   \/ o.browsers = "missing" /\ o.require_browsers
                   \/ ~Workflows \/ e2e.playwright # "passed"
        warned  == {"warning", "missing"} \cap ReadByMatrix(o) # {}
    IN  [NoReport EXCEPT !.decision = Verdicts("ready", "blocked", blocked \/ (o.fail_on_warning /\ warned), warned)]

-----------------------------------------------------------------------------
Turn(n) == at = n /\ at' = n + 1

File(c, report) == evidence' = [evidence EXCEPT ![c] = report] /\ UNCHANGED <<sales, e2e, standing, changes, lost>>

WriteReplayEvidence ==
    /\ Turn(Steps.replay)
    /\ \E o \in [require_e2e : BOOLEAN, require_pass : BOOLEAN, require_duplicate : BOOLEAN,
                 fail_on_warning : BOOLEAN] : File("replay", ReplayReport(o))
    /\ UNCHANGED <<counts, typed>>

AskStatus ==
    /\ Turn(Steps.status)
    /\ counts' = [s \in States |-> Cardinality({i \in DOMAIN sales : sales[i].state = s})]
    /\ standing' = {[state |-> sales[i].state, late |-> sales[i].late] : i \in DOMAIN sales}
    /\ UNCHANGED <<sales, e2e, evidence, typed, changes, lost>>

WriteSnapshot ==
    /\ Turn(Steps.snapshot)
    /\ \E asked, answered, listed \in BOOLEAN : File("snapshot", Snapshot(asked, answered, listed))
    /\ counts' = Unasked
    /\ UNCHANGED typed

WritePilot ==
    /\ Turn(Steps.pilot)
    /\ \E o \in [signed : BOOLEAN, typed : BOOLEAN, require_pass : BOOLEAN,
                 no_duplicates : {"", "missed", "required"}, fail_on_warning : BOOLEAN] :
          File("pilot", Pilot(o)) /\ typed' = o.typed
    /\ UNCHANGED counts

WriteMatrix ==
    /\ Turn(Steps.matrix)
    /\ \E o \in [browsers : Found, require_browsers : BOOLEAN, fail_on_warning : BOOLEAN] : File("matrix", Matrix(o))
    /\ UNCHANGED <<counts, typed>>

(* The two questions are of one script. *)
LoseReport ==
    /\ at <= Steps.matrix /\ at' = (IF at = Steps.status THEN Steps.pilot ELSE at + 1)
    /\ lost < MaxLost /\ lost' = lost + 1
    /\ UNCHANGED <<sales, e2e, counts, evidence, typed, standing, changes>>

-----------------------------------------------------------------------------
Flaws == Cardinality({f \in DOMAIN GoodTests : e2e[f] # GoodTests[f]})

(* What sales can be like: refreshed since, or late without anyone knowing. *)
Overlooked == [state |-> "waiting", late |-> TRUE, age |-> "recent"]

OfflineInit ==
    /\ sales \in UNION {[1 .. n -> {Refreshed(s) : s \in Sale} \cup {Overlooked}] : n \in 0 .. MaxSales}
    /\ e2e \in E2E /\ Flaws <= MaxFlaws
    /\ counts = Unasked /\ standing = {}
    /\ evidence = [c \in Reporters |-> NoReport]
    /\ typed = FALSE
    /\ at = 1 /\ changes = 0 /\ lost = 0

OfflineNext ==
    \/ Capture
    \/ \E i \in DOMAIN sales : TryAgain(i) \/ Settle(i) \/ Refresh(i) \/ Wait(i)
    \/ WriteReplayEvidence \/ AskStatus \/ WriteSnapshot \/ WritePilot \/ WriteMatrix \/ LoseReport

OfflineSpec == OfflineInit /\ [][OfflineNext]_offlineVars
-----------------------------------------------------------------------------
OfflineTypeOK ==
    /\ sales \in Seq(Sale) /\ Len(sales) <= MaxSales /\ changes \in 0 .. MaxChanges
    /\ e2e \in E2E /\ typed \in BOOLEAN /\ standing \subseteq [state : States, late : BOOLEAN]
    /\ counts \in [States -> 0 .. MaxSales]
    /\ \A c \in Reporters : evidence[c].decision \in {"", "passed", "ready", "warning", "failed", "blocked"}
    /\ at \in 1 .. Steps.matrix + 1 /\ lost \in 0 .. MaxLost

Passed(c) == evidence[c].decision \in {"passed", "ready"}

(* A pilot that passes on what the server said had replayed a sale, and none    *)
(* had failed or was in conflict when the server was first asked, not even one  *)
(* that is older than the rows listed and was closed meanwhile; and a matrix    *)
(* that is ready rests on tests that passed and on a replay and a pilot that    *)
(* did, whatever was lost, skipped or only warned of on the way.                *)
OfflineEarned ==
    /\ Passed("pilot") /\ ~typed /\ Passed("snapshot") => \A x \in standing : x.state # "stuck"
    /\ Passed("matrix") => /\ Passed("replay") /\ Passed("pilot")
                           /\ e2e.results = "passed" /\ e2e.playwright = "passed" /\ e2e.proof

(* PROGRESS.md:7050 has the replay evidence pass on complete and passing browser *)
(* evidence; Playwright's own report of it is enough.                            *)
ReplayProofFound ==
    at > Steps.replay /\ lost = 0 /\ e2e = GoodTests => Passed("replay")
===============================================================================
