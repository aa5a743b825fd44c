----------------------------- MODULE ReleaseChain -----------------------------
(***************************************************************************)
(* The one-command release evidence chain: scripts that run one after the   *)
(* other, each reading the report files of earlier ones, and a bundle that  *)
(* reviews what they left.  After a deployment gate or a rollback drill     *)
(* three of them run again.  Files are named by the run id only: a run id   *)
(* that is used again finds the reports of the earlier execution, and a     *)
(* script that dies before it writes leaves them in place.                  *)
(***************************************************************************)
EXTENDS Naturals, Sequences

CONSTANTS MaxCrashes   \* a bound: scripts that die before they write

VARIABLES report,    \* report[c]: the decision on file, whether this execution wrote it
          exits,     \* exits[s]: how step s ended
          option,    \* flags of the command
          input,     \* what the scripts find outside the chain
          step,      \* the step that runs next
          bundle,    \* the decision of the chain
          crashes

ASSUME ChainAssumption == MaxCrashes \in Nat

chainVars == <<report, exits, option, input, step, bundle, crashes>>

Scripts == {"infra", "readiness", "ops", "signoff", "gate", "rollback"}

None == [decision |-> "", fresh |-> FALSE]
Stale(d) == [decision |-> d, fresh |-> FALSE]

Order == <<"infra", "readiness", "ops", "signoff", "gate", "rollback", "readiness", "ops", "signoff">>
Bundling == 10

(* The words of the four readers of the chain; a decision that failed also has  *)
(* the ci_status fail.                                                          *)
Good == {"approved", "dry-run", "executed", "pass", "passed", "ready"}

(* A reader that does not know what a rollback says (a fault). *)
GoodWithoutRuns == {"approved", "pass", "passed", "ready"}

ReadinessGood == {"approved", "dry-run", "executed", "pass", "passed", "ready"}

Bad == {"blocked", "error", "fail", "failed"}

Read(good, decision) ==
    IF decision = "" THEN "missing"
    ELSE IF decision \in Bad THEN "failed"
    ELSE IF decision \in good THEN "passed" ELSE "warning"

On(c) == report[c].decision

Conclude(pass, fail, blocked, warned) == IF blocked THEN fail ELSE IF warned THEN "warning" ELSE pass

-----------------------------------------------------------------------------
(* run_production_infra_automation. *)

Infra == IF input.tenants = "failed" THEN "failed" ELSE "passed"

(* What is asked for with the --require flags, and is not there; its absence is *)
(* told without them too.                                                       *)

(* What is not required is not missed (a fault). *)
LackingQuiet == IF option.require THEN "failed" ELSE "passed"

Lacking == IF option.require THEN "failed" ELSE "warning"

Ran(c) == (c = "gate" => option.gate) /\ (c = "rollback" => option.drill # "no")

(* export_infra_provider_readiness: the approvals are those given to the chain  *)
(* until it has made its own.                                                   *)
Approval(c) ==
    LET given == IF step > 6 /\ Ran(c) THEN On(c) ELSE IF option.given THEN "approved" ELSE ""
    IN  IF given # "" THEN Read(ReadinessGood, given) ELSE Lacking

Readiness ==
    LET found == {Read(ReadinessGood, On("infra")), Approval("gate"), Approval("rollback"),
                  IF input.providers THEN "passed" ELSE Lacking}
        failing == {"failed", "missing"} \cap found # {}
    IN  Conclude("passed", "failed", failing /\ option.strict, failing \/ "warning" \in found)

(* export_production_ops_readiness: a component that is missing fails if it is   *)
(* required and warns otherwise; a warning can be excepted with an approval.     *)
Component(decision) ==
    IF decision = "" THEN IF option.strict THEN "failed" ELSE "warning" ELSE Read(Good, decision)

EvidenceSays == [good |-> "passed", warned |-> "warning", failed |-> "failed", missing |-> ""]

Ops ==
    LET found  == {Component(On("infra")), Component(On("readiness")), Component(EvidenceSays[input.evidence])}
        warned == "warning" \in found
    IN  Conclude("ready", "blocked",
            "failed" \in found \/ (option.failOnWarning /\ warned /\ ~option.exception), warned)

(* generate_signoff_pack: what is there is reviewed by its decision, the status   *)
(* of its summary and its rows; what is not there only counts for its group.      *)
PackReviews == {"infra", "readiness", "ops"} \cup IF step > 6 THEN {"gate", "rollback"} ELSE {}

Signoff ==
    LET said == {On(c) : c \in PackReviews} \cup {EvidenceSays[input.evidence]}
    IN  Conclude("ready", "blocked",
            {"failed", "blocked"} \cap said # {} \/ input.evidence = "missing", "warning" \in said)

(* run_production_deployment_gate: an unknown decision fails. *)
DeploymentGate ==
    Conclude("ready", "blocked",
        On("signoff") \notin {"ready", "warning"} \/ ~input.references
            \/ (option.failOnWarning /\ On("signoff") = "warning"),
        On("signoff") = "warning")

(* run_production_rollback: the decision of a gate blocks it, and so does a     *)
(* missing reference, confirmation or command that fails.                       *)
GateDecision == IF ~Ran("gate") /\ option.given THEN "ready" ELSE On("gate")

Rollback ==
    IF GateDecision = "blocked" \/ ~input.references \/ option.drill = "failing" THEN "blocked"
    ELSE IF option.drill = "works" THEN "executed" ELSE "dry-run"

Writes(c) == CASE c = "infra" -> Infra [] c = "readiness" -> Readiness [] c = "ops" -> Ops
               [] c = "signoff" -> Signoff [] c = "gate" -> DeploymentGate [] c = "rollback" -> Rollback

(* The gate and the rollback end at once without the file they start from. *)
Startable(c) == (c = "gate" => On("signoff") # "") /\ (c = "rollback" => GateDecision # "")

(* The sign-off pack fails only for a required group that is missing. *)
ExitOf(c, decision) ==
    IF c = "signoff" THEN IF input.evidence = "missing" THEN "failed" ELSE "passed"
    ELSE IF decision \in {"failed", "blocked"} THEN "failed" ELSE "passed"

-----------------------------------------------------------------------------
Final == Ran("gate") \/ Ran("rollback") \/ option.given

Skipped(n) == IF n > 6 THEN ~Final ELSE ~Ran(Order[n])

Skip ==
    /\ step < Bundling /\ Skipped(step)
    /\ step' = step + 1
    /\ UNCHANGED <<report, exits, option, input, bundle, crashes>>

(* _run_step: the chain goes on whatever became of the script. *)
Run ==
    /\ step < Bundling /\ ~Skipped(step)
    /\ LET c == Order[step]
       IN  IF Startable(c)
           THEN /\ report' = [report EXCEPT ![c] = [decision |-> Writes(c), fresh |-> TRUE]]
                /\ exits' = [exits EXCEPT ![step] = ExitOf(c, Writes(c))]
           ELSE exits' = [exits EXCEPT ![step] = "failed"] /\ UNCHANGED report
    /\ step' = step + 1
    /\ UNCHANGED <<option, input, bundle, crashes>>

Crash ==
    /\ step < Bundling /\ ~Skipped(step)
    /\ crashes < MaxCrashes /\ crashes' = crashes + 1
    /\ exits' = [exits EXCEPT ![step] = "failed"]
    /\ step' = step + 1
    /\ UNCHANGED <<report, option, input, bundle>>

(* _artifact_bundle: steps that failed and what is said by the reports in the   *)
(* directories that were handed on.                                             *)

(* Exit codes are logged only (a fault). *)
IgnoreExits == {}

FailedSteps == {n \in DOMAIN exits : exits[n] = "failed"}

Bundled == {"infra", "readiness", "ops", "signoff"} \cup IF Final THEN {"gate", "rollback"} ELSE {}

ReviewedByBundle == {Read(Good, On(c)) : c \in Bundled}

Bundle ==
    /\ step = Bundling
    /\ LET failing == FailedSteps # {} \/ "failed" \in ReviewedByBundle
           warned  == "warning" \in ReviewedByBundle
       IN  bundle' = Conclude("passed", "failed", failing \/ (option.failOnWarning /\ warned), warned)
    /\ step' = step + 1
    /\ UNCHANGED <<report, exits, option, input, crashes>>

-----------------------------------------------------------------------------
Decisions == {"", "passed", "failed", "warning", "ready", "blocked", "dry-run", "executed"}

(* An exception only matters where warnings fail. *)
Options == {o \in [strict : BOOLEAN, failOnWarning : BOOLEAN, require : BOOLEAN, exception : BOOLEAN,
                   gate : BOOLEAN, drill : {"no", "dry-run", "failing", "works"},
                   given : BOOLEAN] : o.exception => o.failOnWarning}

Inputs == [tenants : {"good", "failed"}, providers : BOOLEAN,
           evidence : {"good", "warned", "failed", "missing"}, references : BOOLEAN]

(* Reports that an earlier execution with this run id can have left. *)
Earlier ==
    {[c \in Scripts |-> None],
     [infra |-> Stale("passed"), readiness |-> Stale("passed"), ops |-> Stale("ready"),
      signoff |-> Stale("ready"), gate |-> Stale("ready"), rollback |-> Stale("dry-run")]}

ChainInit ==
    /\ option \in Options
    /\ input \in Inputs
    /\ option.gate \/ option.drill # "no" \/ input.references
    /\ report \in Earlier
    /\ exits = [n \in 1 .. Len(Order) |-> "none"]
    /\ step = 1 /\ bundle = "" /\ crashes = 0

ChainNext == Skip \/ Run \/ Crash \/ Bundle

ChainSpec == ChainInit /\ [][ChainNext]_chainVars

-----------------------------------------------------------------------------
ChainTypeOK ==
    /\ report \in [Scripts -> [decision : Decisions, fresh : BOOLEAN]]
    /\ exits \in [1 .. Len(Order) -> {"none", "passed", "failed"}]
    /\ step \in 1 .. Bundling + 1 /\ crashes \in 0 .. MaxCrashes
    /\ bundle \in {"", "passed", "warning", "failed"}

(* A chain that does not fail has not taken a report of an earlier execution   *)
(* for one of its own: a script that died is noticed although its old report   *)
(* still says that all is well.                                                *)
BundleFresh == bundle \in {"passed", "warning"} => \A c \in Scripts : Ran(c) => report[c].fresh

(* A chain that passes had nothing to hide: through two passes, exceptions for *)
(* warnings and readers that do not stop, everything it started from was good; *)
(* and one that warns has nothing that fails behind it.                        *)
BundleHonest ==
    /\ bundle = "passed" => /\ input.tenants = "good" /\ input.providers /\ input.evidence = "good"
                            /\ Ran("gate") => On("gate") = "ready" /\ input.references
    /\ bundle = "warning" => input.tenants # "failed" /\ input.evidence \notin {"failed", "missing"}

AllGood == /\ input.tenants = "good" /\ input.providers /\ input.evidence = "good" /\ input.references
           /\ option.drill # "failing"
           /\ crashes = 0 /\ \A c \in Scripts : On(c) = "" \/ report[c].fresh

(* A chain that is given earlier approvals and finds everything good passes,    *)
(* whatever its flags.                                                          *)
GivenChainPasses == bundle # "" /\ option.given /\ AllGood => bundle = "passed"

(* DEPLOY.md:865-873 gives the defaults that the protected runner should keep:  *)
(* approvals required, gate and drill run by the chain.  A first run with them  *)
(* that finds everything good passes.                                           *)
DocumentedDefaultsPass ==
    bundle # "" /\ option.strict /\ option.require /\ option.gate /\ option.drill = "dry-run" /\ AllGood
        => bundle # "failed"
===============================================================================
