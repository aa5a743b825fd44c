------------------------------ MODULE SignoffPack ------------------------------
(***************************************************************************)
(* The evidence of a protected run and the sign-off package that judges it.  *)
(* The steps run one after the other; a step may end before it writes, and    *)
(* unless it halts the job nobody is told.  The package walks through what    *)
(* was written: the status of each summary, the rows of each table, the       *)
(* decisions it knows, and whether each required group has any evidence.      *)
(*                                                                         *)
(* Its decision, release-readiness.json, is what the release chain and the    *)
(* gates of deployment and release start from.  The reports on offline        *)
(* selling are judged in OfflineEvidence and left out here.                  *)
(***************************************************************************)
EXTENDS BrowserEvidence, OperationsEvidence

(* Options that make the steps look at more, that make them stricter, that make   *)
(* them overlook something, and which provider is the certified one.             *)
Looking == {"check_tools", "probe_urls", "probe_auth", "service_probes", "fbr", "live_fbr", "provider_certification",
            "seed", "profile", "probe_base_url", "browser_tests", "browser_matrix", "execution_evidence",
            "strict_execution", "tenant_checks", "apply_rollout", "grafana", "certification_configured",
            "certification_groups", "matrix_requires_providers"}
Stricter  == {"strict_bootstrap", "require_urls", "require_auth", "require_service_probes", "require_psp", "require_live_fbr",
            "fbr_production", "native_signatures", "providers_fail_on_warning", "lifecycle_fails_on_warning",
            "strict_profile", "require_seed", "strict_bundle", "bundle_fails_on_warning", "matrix_fails_on_warning",
            "require_secret_runtime", "require_tenant_ops", "require_infrastructure"}
AllOptions == Looking \cup Stricter \cup {"warning_exception", "grafana_metadata_only", "non-strict_monitoring", "courier"}

(* Everything on, and what the workflow has where its variables are not set. *)
Thorough == Looking \cup Stricter
Shipped  == {"check_tools", "profile", "browser_tests", "browser_matrix", "execution_evidence", "non-strict_monitoring"}

Items == ProviderItems \cup BrowserItems \cup OperationItems

-----------------------------------------------------------------------------
(* The package tells files apart by their paths.  It has no group for couriers, *)
(* whose evidence is general.                                                  *)
Certified == IF "courier" \in chosen THEN "courier" ELSE "certified"

Group(c) ==
    CASE c = "release_candidate" -> "release"
      [] c \in {BrowserSteps[i] : i \in DOMAIN BrowserSteps} -> "e2e"
      [] c \in {"secret_manager", "secret_runtime"} -> "security"
      [] c = "certification" -> IF "courier" \in chosen THEN "general" ELSE "certified"
      [] OTHER -> "ops"

RequiredGroups == {"release", "e2e", "ops", "security"} \cup As("certification_groups", {Certified}, {})

(* Tables are read without the rows that only warn (a fault). *)
FailedRows(c) == filed[c].rows \cap {"failed"}

PackRows(c) == filed[c].rows \ {"optional"}

(* A summary has a status, but Grafana's a decision, which is not looked for. *)
SummaryStatus(c) == IF c = "grafana" THEN {} ELSE {filed[c].decision}

(* The reports whose JSON is read too, by the names of their files. *)
ReadProviders     == {"psp", "lifecycle_psp", "fbr"}
ReadCertification == {"certification", "certification_matrix"}
ReadBrowsers      == {"e2e_readiness", "e2e_seed", "e2e_profile", "e2e_execution"}
ReadMonitoring    == {"monitoring", "bundle_monitoring"}
ReadBundle        == {"incident", "bundle_incident", "load", "load_matrix", "operations_bundle"}
ReadProduction    == {"production_ops"}
ReadSecurity      == {"ops_tool", "retention", "bundle_retention", "secret_manager", "secret_runtime", "deployment"}
ReadTenants       == {"tenant_ops", "tenant_smoke", "tenant_rollout"}

JsonDecision(c) ==
    IF c \in ReadProviders \cup ReadCertification \cup ReadBrowsers \cup ReadMonitoring
            \cup ReadBundle \cup ReadProduction \cup ReadSecurity \cup ReadTenants
    THEN {filed[c].decision} ELSE {}

PackReadiness ==
    LET told == UNION {SummaryStatus(c) \cup PackRows(c) \cup JsonDecision(c) : c \in DOMAIN filed}
    IN  IF "failed" \in told \/ RequiredGroups \ {Group(c) : c \in DOMAIN filed} # {} THEN "blocked"
        ELSE IF {"warning", "skipped"} \cap told # {} \/ filed = <<>> THEN "warning" ELSE "ready"

WritePack ==
    /\ turn = Len(AllSteps) + 1
    /\ readiness' = PackReadiness /\ turn' = turn + 1
    /\ UNCHANGED <<lacks, chosen, filed, gone>>

-----------------------------------------------------------------------------
Differs(base) == Cardinality((base \ chosen) \cup (chosen \ base))

Findings == Cardinality(lacks) + Cardinality(gone)
            + IF Differs(Thorough) < Differs(Shipped) THEN Differs(Thorough) ELSE Differs(Shipped)

(* The step that runs ends before it writes. *)
EndEarly ==
    /\ turn <= Len(AllSteps) /\ Findings < MaxFindings
    /\ gone' = gone \cup {AllSteps[turn]}
    /\ turn' = Following(AllSteps[turn], FALSE)
    /\ UNCHANGED <<lacks, chosen, filed, readiness>>

ReviewInit ==
    /\ \E base \in {Thorough, Shipped}, amiss \in [1 .. MaxFindings -> Items \cup AllOptions \cup {"nothing"}] :
          LET found == {amiss[i] : i \in 1 .. MaxFindings}
          IN  /\ lacks = found \cap Items
              /\ chosen = (base \ found) \cup ((found \cap AllOptions) \ base)
    /\ filed = <<>> /\ turn = 1 /\ gone = {} /\ readiness = ""

ReviewNext == ReviewProviders \/ ReviewBrowsers \/ ReviewOperations \/ EndEarly \/ WritePack

ReviewSpec == ReviewInit /\ [][ReviewNext]_reviewVars

-----------------------------------------------------------------------------
(* Properties *)

(* Reports, options and decisions stay in their domains; what was written was    *)
(* written in its turn.                                                          *)
ReviewTypeOK ==
    /\ lacks \subseteq Items /\ chosen \subseteq AllOptions /\ turn \in 1 .. Len(AllSteps) + 2
    /\ readiness \in {"", "ready", "warning", "blocked"} /\ (readiness # "" => turn > Len(AllSteps) + 1)
    /\ gone \cap DOMAIN filed = {}
    /\ gone \cup DOMAIN filed \subseteq {AllSteps[i] : i \in {i \in DOMAIN AllSteps : i < turn}}
    /\ \A c \in DOMAIN filed : /\ filed[c].decision \in {"passed", "warning", "failed"}
                               /\ filed[c].rows \subseteq {RowOf[s] : s \in Severities}

(* Reports that no other step reads. *)
Unread == {"handoff", "first_run", "bootstrap", "service_checks", "payment_lifecycle", "browser",
           "certification_matrix", "production_ops"}

(* A run is ready only if no exporter that looked at something found it amiss,    *)
(* however mildly, through all the reports that stand between it and the package. *)
(* If it was told to look at everything, then nothing was amiss at all where all  *)
(* reports were written, and a report that was not is always missed by another,   *)
(* unless the one that would miss it, or itself, is read by the package alone.    *)
SignoffEarned ==
    readiness = "ready" =>
        /\ \A c \in DOMAIN filed : filed[c].found = {}
        /\ Looking \subseteq chosen =>
              \/ gone \cap Unread # {}
              \/ gone = {} /\ lacks \subseteq As("warning_exception", {}, {"exception_approval"})

(* DEPLOY.md:1954 has couriers among the certifications that may be required: with *)
(* theirs in order, and all else, the run is not blocked.                         *)
CourierAccepted ==
    turn > Len(AllSteps) + 1 /\ lacks = {} /\ gone = {} /\ chosen = Thorough \cup {"courier"} => readiness # "blocked"
===============================================================================
