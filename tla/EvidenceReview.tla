---------------------------- MODULE EvidenceReview ----------------------------
(***************************************************************************)
(* How a protected run gathers its evidence: one exporter after the other   *)
(* looks at a part of the runner, the providers, the browser tests or the    *)
(* operations, writes a report with a decision, a summary and a table of     *)
(* rows, and goes on.  Here are what all exporters share, and those for the  *)
(* runner and the payment and tax providers.                                *)
(*                                                                         *)
(* What an exporter looks at is an item; an item may be lacking (a reference *)
(* not recorded, a tool not installed, a test that fails).  Items that are   *)
(* judged alike are one.  Left out: metadata, which the workflow passes none *)
(* of, the text of reports, and the runs without --strict of the exporters   *)
(* that the workflow always runs with it.                                    *)
(***************************************************************************)
EXTENDS Naturals, Sequences, FiniteSets

CONSTANT MaxFindings   \* a bound: items lacking, options changed and steps lost, together

VARIABLES lacks,       \* the items that are lacking
          chosen,      \* the options of the run that are on
          filed,       \* filed[c]: the report of step c, where it has written one
          turn,        \* the step that runs next
          gone,        \* steps that ended before they wrote
          readiness    \* the decision of the sign-off package

reviewVars == <<lacks, chosen, filed, turn, gone, readiness>>

(* A tolerated finding fails its row but only warns; a noted one has a row and   *)
(* nothing else; an optional one has a skipped row that the package overlooks.   *)
Severities == {"blocker", "warning", "tolerated", "noted", "skipped", "optional"}

RowOf == [blocker |-> "failed", warning |-> "warning", tolerated |-> "failed",
          noted |-> "warning", skipped |-> "skipped", optional |-> "optional"]

-----------------------------------------------------------------------------
(* A check says what was looked at, whether it was amiss, and how bad that is.   *)
Amiss(item, found, severity) == {[item |-> item, found |-> found, severity |-> severity]}

Check(items, severity) == UNION {Amiss(i, i \in lacks, severity) : i \in items}

Blocks(items) == Check(items, "blocker")
Warns(items)  == Check(items, "warning")

When(o, checks)   == IF o \in chosen THEN checks ELSE {}
Unless(i, checks) == IF i \in lacks THEN {} ELSE checks
As(o, on, off)    == IF o \in chosen THEN on ELSE off

Filed(c) == c \in DOMAIN filed
Says(c)  == IF Filed(c) THEN filed[c].decision ELSE "missing"

(* What an exporter makes of the report of another. *)
Heed(c, severity) == UNION {Amiss(c, Says(c) = d, severity[d]) : d \in DOMAIN severity}

Judged(checks) ==
    LET amiss == {k \in checks : k.found}
        Some(severities) == \E k \in amiss : k.severity \in severities
    IN  [decision |-> IF Some({"blocker"}) THEN "failed"
                      ELSE IF Some({"warning", "tolerated"}) THEN "warning" ELSE "passed",
         rows  |-> {RowOf[k.severity] : k \in amiss},
         found |-> {k.item : k \in amiss}]

(* With --fail-on-warning a report fails; its rows go on to say warning. *)
Unwarned(report) == IF report.decision = "warning" THEN [report EXCEPT !.decision = "failed"] ELSE report

UnwarnedIf(o, report) == IF o \in chosen THEN Unwarned(report) ELSE report

-----------------------------------------------------------------------------
(* The steps of the job, those that a step runs itself before it. *)
RunnerSteps    == <<"handoff", "first_run", "preflight", "bootstrap", "service_checks">>
ProviderSteps  == <<"psp", "fbr", "provider_readiness", "lifecycle_psp", "payment_lifecycle", "release_candidate">>
BrowserSteps   == <<"e2e_seed", "e2e_profile", "e2e_readiness", "e2e", "browser_matrix", "e2e_execution", "browser">>
BundleSteps    == <<"load_matrix", "load", "smoke", "tenant_rollout", "tenant_smoke", "bundle_monitoring",
                    "grafana", "bundle_incident", "bundle_retention", "operations_bundle">>
OperationSteps == <<"ops_tool">> \o BundleSteps \o
                  <<"incident", "deployment", "secret_runtime", "tenant_ops", "monitoring", "certification",
                    "certification_execution", "certification_matrix", "retention", "secret_manager", "production_ops">>
AllSteps == RunnerSteps \o ProviderSteps \o BrowserSteps \o OperationSteps

(* Where these fail, the job goes on only with what always runs. *)
Halting == {"release_candidate", "retention", "secret_manager"}

Now(c) == turn <= Len(AllSteps) /\ AllSteps[turn] = c

Following(c, well) == IF c \in Halting /\ ~well THEN Len(AllSteps) + 2 ELSE turn + 1

Export(c, report) ==
    /\ Now(c)
    /\ filed' = [d \in DOMAIN filed \cup {c} |-> IF d = c THEN report ELSE filed[d]]
    /\ turn' = Following(c, report.decision # "failed")
    /\ UNCHANGED <<lacks, chosen, gone, readiness>>

PassOver(c) == Now(c) /\ turn' = turn + 1 /\ UNCHANGED <<lacks, chosen, filed, gone, readiness>>

ExportIf(asked, c, report) == IF asked THEN Export(c, report) ELSE PassOver(c)

-----------------------------------------------------------------------------
(* The runner. *)
HandoffReview == Blocks({"runbook_references", "workflow_file", "review_order", "go_no-go_list"})
                 \cup When("warning_exception", Blocks({"exception_approval"}))

WriteHandoff == Export("handoff", Judged(HandoffReview))

FirstRunReview == Blocks({"first_run_references", "runner_label", "expected_artifacts"})
                  \cup When("certification_groups", Blocks({"group_owner"}))

WriteFirstRun == Export("first_run", Judged(FirstRunReview))

ToolReview == When("check_tools", Blocks({"required_tool"}) \cup Warns({"optional_tool"}))

ProbeReview ==
    When("probe_urls", Check({"probe_url"}, As("require_urls", "blocker", "warning"))
                       \cup Unless("probe_url", Blocks({"probe_answer"}))
                       \cup When("probe_auth", Check({"probe_auth"}, As("require_auth", "blocker", "warning"))))

PreflightReview == Blocks({"runner_variables"}) \cup ToolReview \cup ProbeReview
                   \cup When("certification_groups", Blocks({"group_variables"}))

WritePreflight == Export("preflight", Judged(PreflightReview))

(* Required tools are looked up in the preflight, which may not have looked. *)
BootstrapReview(fault) ==
    Check({"bootstrap_evidence", "bootstrap_tool"}, fault)
    \cup Heed("preflight", [missing |-> fault, failed |-> fault, warning |-> "warning"])
    \cup Amiss("required_tool", ~Filed("preflight") \/ "check_tools" \notin chosen \/ "required_tool" \in lacks, fault)
    \cup Warns({"same_versions"})

WriteBootstrap == Export("bootstrap", Judged(BootstrapReview(As("strict_bootstrap", "blocker", "warning"))))

ServiceReview ==
    LET unasked == As("require_service_probes", "blocker", "warning")
    IN  Amiss("service_probes", "service_probes" \notin chosen, unasked)
        \cup When("service_probes", Check({"service_url"}, unasked) \cup Unless("service_url", Blocks({"service_answer"})))

WriteServiceChecks == Export("service_checks", Judged(ServiceReview))

-----------------------------------------------------------------------------
(* The providers.  Two steps run the PSP exporter. *)
PspReview(native) == Blocks({"psp_contract"}) \cup Check({"psp_secret"}, IF native THEN "blocker" ELSE "warning")
                     \cup Warns({"psp_certification"})

WritePsp == Export("psp", Judged(PspReview("require_psp" \in chosen)))

FbrReview ==
    LET required == {"live_fbr", "require_live_fbr"} \cap chosen # {}
    IN  Amiss("live_fbr", "live_fbr" \notin chosen,
              IF {"require_live_fbr", "fbr_production"} \cap chosen # {} THEN "blocker" ELSE "warning")
        \cup Check({"fbr_credentials"}, IF required THEN "blocker" ELSE "warning")
        \cup Check({"fbr_reference"}, As("fbr_production", "blocker", "warning"))
        \cup Warns({"fbr_branch"})

WriteFbr == ExportIf("fbr" \in chosen, "fbr", Judged(FbrReview))

(* A nested exporter that ended before it wrote has failed. *)
Nested(c, o) == Heed(c, [missing |-> "blocker", failed |-> "blocker", warning |-> As(o, "blocker", "warning")])

ProviderReview == Nested("psp", "providers_fail_on_warning") \cup When("fbr", Nested("fbr", "providers_fail_on_warning"))

WriteProviderReadiness == Export("provider_readiness", Judged(ProviderReview))

WriteLifecyclePsp == Export("lifecycle_psp", Judged(PspReview({"native_signatures", "provider_certification"} \cap chosen # {})))

LifecycleReview == Blocks({"source_contracts", "fixture_smoke", "fixture_events"})
                   \cup Nested("lifecycle_psp", "lifecycle_fails_on_warning")
                   \cup When("provider_certification", Blocks({"psp_certification"}))

WritePaymentLifecycle == Export("payment_lifecycle", UnwarnedIf("lifecycle_fails_on_warning", Judged(LifecycleReview)))

WriteReleaseCandidate == Export("release_candidate", Judged(Blocks({"release_checks"})))

ProviderItems ==
    {"runbook_references", "workflow_file", "review_order", "go_no-go_list", "exception_approval", "first_run_references",
     "runner_label", "expected_artifacts", "group_owner", "runner_variables", "required_tool", "optional_tool", "probe_url",
     "probe_answer", "probe_auth", "group_variables", "bootstrap_evidence", "bootstrap_tool", "same_versions", "service_url",
     "service_answer", "psp_contract", "psp_secret", "psp_certification", "fbr_credentials", "fbr_reference", "fbr_branch",
     "source_contracts", "fixture_smoke", "fixture_events", "release_checks"}

ReviewProviders ==
    \/ WriteHandoff \/ WriteFirstRun \/ WritePreflight \/ WriteBootstrap \/ WriteServiceChecks
    \/ WritePsp \/ WriteFbr \/ WriteProviderReadiness \/ WriteLifecyclePsp \/ WritePaymentLifecycle \/ WriteReleaseCandidate
===============================================================================
