-------------------------- MODULE OperationsEvidence --------------------------
(***************************************************************************)
(* The operations of a protected run: results of tools, the operations      *)
(* bundle with the exporters it runs, runbooks, deployment, secrets, tenants *)
(* and certification, the retention of all of it, and the readiness that     *)
(* production operations are given from the reports of the others.          *)
(*                                                                         *)
(* The bundle's exporters read each other's files in its output directory;   *)
(* the readiness reads those and the ones of the workflow's own steps.  The  *)
(* providers of certification are judged alike and stand for one.  Decisions *)
(* that exporters word otherwise (blocked, ready, dry-run, executed) are the *)
(* ones their readers take them for.                                        *)
(***************************************************************************)
EXTENDS EvidenceReview

(* Scans and tests leave figures, drills leave logs. *)
ToolResults == Blocks({"tool_results"})
ToolLogs    == Warns({"tool_phrases"})

WriteOpsTool == Export("ops_tool", Unwarned(Judged(ToolResults \cup ToolLogs)))

-----------------------------------------------------------------------------
(* The bundle: strict, or what the exporters find is only warned of. *)
Unforgiven == As("strict_bundle", "blocker", "warning")
Unmended   == As("strict_bundle", "blocker", "tolerated")

LoadMatrixReview == Blocks({"load_profiles"}) \cup Check({"load_approval"}, Unforgiven)

WriteLoadMatrix == Export("load_matrix", Judged(LoadMatrixReview))

(* The metrics are read from the summary that k6 leaves. *)
LoadReview == Warns({"load_base_url", "load_summary"})
              \cup Amiss("load_metrics", {"load_metrics", "load_summary"} \cap lacks # {}, Unforgiven)

WriteLoad == Export("load", Judged(LoadReview))

SmokeReview == Warns({"smoke_endpoints"}) \cup Check({"smoke_answer"}, Unmended)

WriteSmoke == Export("smoke", Judged(SmokeReview \cup Blocks({"open_deployment_gate"})))

RolloutActions == When("apply_rollout", Blocks({"rollout_action"}))

RolloutReview == Blocks({"tenant_manifests", "dns_template"}) \cup Check({"tenant_count", "tenant_artifacts"}, Unforgiven)

WriteTenantRollout == ExportIf("tenant_checks" \in chosen, "tenant_rollout", Judged(RolloutReview \cup RolloutActions))

TenantAnswers == Blocks({"tenant_base_url"}) \cup Check({"tenant_answer"}, Unmended)

TenantSmokeReview == Blocks({"tenant_manifests"}) \cup Check({"tenant_checklist"}, Unforgiven)

WriteTenantSmoke ==
    ExportIf("tenant_checks" \in chosen, "tenant_smoke", Judged(TenantSmokeReview \cup TenantAnswers))

(* What the monitoring exporter makes of the files it is given; a file that it is *)
(* not given only warns.                                                         *)
MonitoringReview(strict) ==
    LET mended  == IF strict THEN "blocker" ELSE "tolerated"
        attached == [missing |-> "warning", failed |-> mended, warning |-> "warning"]
    IN  Heed("smoke", attached) \cup Heed("tenant_smoke", attached) \cup Heed("tenant_rollout", attached)
        \cup Warns({"deployment_decision", "rollback_decision", "monitoring_endpoints"})
        \cup Check({"monitoring_answer"}, mended)
        \cup (IF Filed("tenant_rollout") THEN Warns({"rollback_actions"}) \cup Check({"rollback_plan"}, mended) ELSE {})

(* The bundle names a file where it has asked for it; where that was not written *)
(* the exporter ends before it writes.                                           *)
WriteBundleMonitoring ==
    LET named == {"smoke"} \cup (IF "tenant_checks" \in chosen THEN {"tenant_rollout", "tenant_smoke"} ELSE {})
    IN  ExportIf(\A c \in named : Filed(c), "bundle_monitoring", Judged(MonitoringReview("strict_bundle" \in chosen)))

GrafanaReview ==
    Check({"dashboard_definitions"}, Unmended)
    \cup (IF "grafana_metadata_only" \in chosen THEN Amiss("grafana", TRUE, "skipped")
          ELSE Check({"grafana_answer", "grafana_login"}, Unmended) \cup Warns({"grafana_search"}))

WriteGrafana == ExportIf("grafana" \in chosen, "grafana", Judged(GrafanaReview))

IncidentReview(severity) == Check({"incident_references"}, severity)

WriteBundleIncident == Export("bundle_incident", Judged(IncidentReview(Unforgiven)))

RetentionReview(severity) == Check({"retention_references", "retention_days", "evidence_files"}, severity)

WriteBundleRetention == Export("bundle_retention", Judged(RetentionReview(Unforgiven)))

(* The checks that the bundle was asked for. *)
AskedOf == {BundleSteps[i] : i \in 1 .. 9}
           \ ((IF "tenant_checks" \in chosen THEN {} ELSE {"tenant_rollout", "tenant_smoke"})
              \cup (IF "grafana" \in chosen THEN {} ELSE {"grafana"}))

ClassifyStep(c) == Heed(c, [missing |-> Unforgiven, failed |-> "blocker", warning |-> "warning"])

WriteOperationsBundle ==
    Export("operations_bundle", UnwarnedIf("bundle_fails_on_warning", Judged(UNION {ClassifyStep(c) : c \in AskedOf})))

-----------------------------------------------------------------------------
DeploymentReview    == Blocks({"deployment_references", "approvers"})
SecretProbe         == Blocks({"secret_probe"})
SecretRuntimeReview == Blocks({"secret_provider"}) \cup SecretProbe
TenantOpsReview     == Blocks({"tenant_manifests", "tenant_operations"})

WriteIncident      == Export("incident", Judged(IncidentReview("blocker")))
WriteDeployment    == Export("deployment", Judged(DeploymentReview))
WriteSecretRuntime == Export("secret_runtime", Judged(SecretRuntimeReview))
WriteTenantOps     == Export("tenant_ops", Judged(TenantOpsReview))

(* The workflow attaches those files of the bundle that are there. *)
WriteMonitoring == Export("monitoring", Judged(MonitoringReview("non-strict_monitoring" \notin chosen)))

CertificationFiles  == Blocks({"certification_files"})
CertificationTerms  == Blocks({"certification_approval", "certification_validity"})
CertificationReview == Blocks({"certification_manifest"}) \cup CertificationFiles \cup CertificationTerms

WriteCertification == ExportIf("certification_configured" \in chosen, "certification", Judged(CertificationReview))

(* run_protected_certification_evidence: a provider that is not configured must be *)
(* one whose group is not required.                                               *)
ExecutionReview ==
    IF "certification_configured" \in chosen
    THEN Heed("certification", [missing |-> "blocker", failed |-> "blocker"])
    ELSE Amiss("certification_configuration", TRUE, As("certification_groups", "blocker", "skipped"))

WriteCertificationExecution == Export("certification_execution", Judged(ExecutionReview))

MatrixProviders ==
    IF "matrix_requires_providers" \in chosen
    THEN Heed("provider_readiness", [missing |-> "blocker", failed |-> "blocker",
                                     warning |-> As("matrix_fails_on_warning", "blocker", "warning")])
    ELSE Heed("provider_readiness", [missing |-> "noted"])

MatrixCategory ==
    LET executed == Filed("certification_execution") /\ "certification_configured" \in chosen
    IN  IF "certification_groups" \in chosen
        THEN Heed("certification", [missing |-> "blocker", failed |-> "blocker"])
             \cup Amiss("certification_execution", ~executed, "blocker") \cup Blocks({"certification_validity"})
        ELSE Heed("certification", [missing |-> IF executed THEN "warning" ELSE "optional", failed |-> "blocker"])

WriteCertificationMatrix ==
    Export("certification_matrix", UnwarnedIf("matrix_fails_on_warning", Judged(MatrixCategory \cup MatrixProviders
        \cup Amiss("certification_execution", ~Filed("certification_execution"), "blocker"))))

WriteFinalRetention == Export("retention", Judged(RetentionReview("blocker")))

SecretTemplates     == Blocks({"secret_templates"}) \cup Warns({"local_secret_files"})
SecretGuardrails    == Blocks({"secret_guardrails"})
SecretManagerReview == Blocks({"secret_references"}) \cup SecretTemplates \cup SecretGuardrails

WriteSecretManager == Export("secret_manager", Judged(SecretManagerReview))

-----------------------------------------------------------------------------
(* The readiness of production operations, run with --strict --fail-on-warning. *)
PartReview(c, required) ==
    Heed(c, [missing |-> IF required THEN "blocker" ELSE "warning", failed |-> "blocker", warning |-> "warning"])

(* It also reads the table of the tools. *)
ToolRows ==
    LET Saying(row) == Filed("ops_tool") /\ row \in filed["ops_tool"].rows
    IN  Amiss("tool_rows", ~Filed("ops_tool") \/ Saying("failed"), "blocker")
        \cup Amiss("tool_rows", Saying("warning"), "warning")

OperationsReview ==
    (UNION {PartReview(c, TRUE) : c \in {"operations_bundle", "monitoring", "incident", "load_matrix", "load",
                                        "retention", "secret_manager", "deployment"}})
    \cup PartReview("secret_runtime", "require_secret_runtime" \in chosen)
    \cup PartReview("tenant_ops", "require_tenant_ops" \in chosen)
    \cup Check({"infrastructure_evidence"}, As("require_infrastructure", "blocker", "warning"))
    \cup PartReview("ops_tool", FALSE) \cup ToolRows

Excepted == "warning_exception" \in chosen /\ "exception_approval" \notin lacks

WriteProductionOps ==
    LET report == Judged(OperationsReview)
    IN  Export("production_ops", IF Excepted THEN report ELSE Unwarned(report))

OperationItems ==
    {"tool_results", "tool_phrases", "load_profiles", "load_approval", "load_base_url", "load_summary", "load_metrics",
     "open_deployment_gate", "smoke_endpoints", "smoke_answer", "tenant_manifests", "dns_template", "tenant_count",
     "tenant_artifacts", "rollout_action", "tenant_base_url", "tenant_checklist", "tenant_answer", "deployment_decision",
     "rollback_decision", "monitoring_endpoints", "monitoring_answer", "rollback_actions", "rollback_plan",
     "dashboard_definitions", "grafana_answer", "grafana_login", "grafana_search", "incident_references", "retention_references",
     "retention_days", "evidence_files", "deployment_references", "approvers", "secret_provider", "secret_probe",
     "tenant_operations", "certification_manifest", "certification_files", "certification_approval",
     "certification_validity", "secret_references", "secret_templates", "secret_guardrails", "local_secret_files",
     "infrastructure_evidence"}

ReviewOperations ==
    \/ WriteOpsTool \/ WriteLoadMatrix \/ WriteLoad \/ WriteSmoke \/ WriteTenantRollout \/ WriteTenantSmoke
    \/ WriteBundleMonitoring \/ WriteGrafana \/ WriteBundleIncident \/ WriteBundleRetention \/ WriteOperationsBundle
    \/ WriteIncident \/ WriteDeployment \/ WriteSecretRuntime \/ WriteTenantOps \/ WriteMonitoring
    \/ WriteCertification \/ WriteCertificationExecution \/ WriteCertificationMatrix
    \/ WriteFinalRetention \/ WriteSecretManager \/ WriteProductionOps
===============================================================================
