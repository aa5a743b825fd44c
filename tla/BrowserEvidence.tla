---------------------------- MODULE BrowserEvidence ----------------------------
(***************************************************************************)
(* The browser tests of a protected run: demonstration data is seeded, the  *)
(* environment is profiled, the tests run (and once more per browser), their *)
(* evidence is combined, and the script that runs all this keeps a table of  *)
(* its steps.  Only that table is its own; each step writes where it likes.  *)
(***************************************************************************)
EXTENDS EvidenceReview

(* run_protected_browser_e2e_evidence runs a step, or has not been asked to. *)
StepOption == [e2e_seed |-> "seed", e2e_profile |-> "profile", e2e |-> "browser_tests",
               browser_matrix |-> "browser_matrix", e2e_execution |-> "execution_evidence"]

RowOfStep(c) ==
    IF StepOption[c] \notin chosen THEN "skipped"
    ELSE IF Says(c) \in {"failed", "missing"} THEN "failed" ELSE "passed"

SeedReview == Blocks({"seed_command", "seed_variables"})

WriteSeed == ExportIf("seed" \in chosen, "e2e_seed", Judged(SeedReview))

(* export_staging_e2e_profile: it is always told where the seed's files would be. *)
ProfileReview ==
    LET unless_strict == As("strict_profile", "blocker", "warning")
        unseeded      == As("require_seed", "blocker", "warning")
    IN  Blocks({"base_url", "e2e_variables", "specs", "browser_settings", "flag_prerequisites"})
        \cup Check({"https", "e2e_owners"}, unless_strict) \cup Warns({"e2e_script"})
        \cup Heed("e2e_seed", [missing |-> unseeded, failed |-> "blocker"])
        \cup When("probe_base_url", Blocks({"base_url_answer"}))

WriteProfile == ExportIf("profile" \in chosen, "e2e_profile", Judged(ProfileReview))

(* run_staging_e2e, with the readiness of its environment first. *)
E2eReadinessReview == Blocks({"e2e_variables"})

WriteE2eReadiness == ExportIf("browser_tests" \in chosen, "e2e_readiness", Judged(E2eReadinessReview))

E2eReview == Blocks({"e2e_variables", "base_url_answer", "browser_tests"})
             \cup Heed("e2e_readiness", [missing |-> "blocker", failed |-> "blocker"])

WriteE2e == ExportIf("browser_tests" \in chosen, "e2e", Judged(E2eReview))

(* run_browser_e2e_matrix runs the same tests once for each browser. *)
MatrixReview == Blocks({"e2e_variables", "base_url_answer", "projects", "project_tests"})

WriteBrowserMatrix == ExportIf("browser_matrix" \in chosen, "browser_matrix", Judged(MatrixReview))

(* Playwright has left results where the tests have begun. *)
TestsBegun == Filed("e2e") /\ {"e2e_variables", "base_url_answer"} \cap lacks = {}

(* Of the table so far: the first row is looked at, as all others are. *)
Failing(steps) == \E c \in steps : RowOfStep(c) = "failed"

E2eExecutionReview ==
    LET absent == As("strict_execution", "blocker", "unseen")
        Given(c, missing) == Heed(c, [failed |-> "blocker", warning |-> "warning"])
                             \cup (IF missing = "unseen" THEN {} ELSE Heed(c, [missing |-> missing]))
    IN  Given("e2e_seed", absent) \cup Given("e2e_profile", absent)
        \cup Given("e2e_readiness", "blocker") \cup Given("e2e", "blocker")
        \cup Amiss("e2e", ~TestsBegun, "blocker")
        \cup Amiss("browser", Failing({"e2e_seed", "e2e_profile", "e2e", "browser_matrix"}), "blocker")
        \cup When("strict_execution", Blocks({"sign-off_reference"}))

WriteE2eExecution == ExportIf("execution_evidence" \in chosen, "e2e_execution", Judged(E2eExecutionReview))

(* The table has no header, but the script passes over its first row, the seed's, *)
(* when it counts; readers of the table do not.  A row of the seed's environment   *)
(* follows where the seed was asked for.                                         *)
BrowserReport ==
    LET steps  == DOMAIN StepOption
        unseen == "seed" \in chosen /\ ~Filed("e2e_seed")
        rows   == {RowOfStep(c) : c \in steps} \cup (IF unseen THEN {"warning"} ELSE {})
        counts == {RowOfStep(c) : c \in steps \ {"e2e_seed"}} \cup (IF unseen THEN {"warning"} ELSE {})
    IN  [decision |-> IF "failed" \in counts THEN "failed"
                      ELSE IF {"warning", "skipped"} \cap counts # {} THEN "warning" ELSE "passed",
         rows |-> rows \ {"passed"}, found |-> {c \in steps : RowOfStep(c) # "passed"}]

WriteBrowser == Export("browser", BrowserReport)

BrowserItems ==
    {"seed_command", "seed_variables", "base_url", "e2e_variables", "specs", "browser_settings", "flag_prerequisites",
     "https", "e2e_owners", "e2e_script", "base_url_answer", "browser_tests", "projects", "project_tests", "sign-off_reference"}

ReviewBrowsers ==
    \/ WriteSeed \/ WriteProfile \/ WriteE2eReadiness \/ WriteE2e
    \/ WriteBrowserMatrix \/ WriteE2eExecution \/ WriteBrowser
===============================================================================
