----------------------------- MODULE ReviewProofs -----------------------------
(***************************************************************************)
(* Proofs about SignoffPack, for any number of findings: items lacking,      *)
(* options changed and steps lost; and the types of a protected release as a *)
(* whole.                                                                    *)
(*                                                                           *)
(* SignoffEarned says of the last step what no single step sees: no report   *)
(* knows all the items.  The invariant ReviewInv ties each report that is    *)
(* filed to what was there to be found.  What it found, its rows tell        *)
(* (AllFiled); if it found nothing, none of the items it looks at lacks, and *)
(* the reports it reads are filed (Vouches).  Told to look at everything,    *)
(* each step whose turn has passed left a report or was lost (Traced).  A    *)
(* package that is ready read no row that tells (ReadyMeans), so the reports *)
(* there found nothing; those that it alone reads are there, unless they     *)
(* were lost, and vouch for all the others (AllVouched), and all of them for *)
(* every item (NothingLacks).                                                *)
(***************************************************************************)
EXTENDS MCRelease, ReleaseProofs, EvidenceProofs

(* The rows that the package looks for. *)
Telling == {"failed", "warning", "skipped"}

(* What step c has found in order, where all that looks is on: the items, and the  *)
(* reports that it would have missed.                                             *)
Sound(items, L) == \A i \in items : i \notin L
Within(steps, D) == steps \subseteq D

BundleChecks == {"load_matrix", "load", "smoke", "tenant_rollout", "tenant_smoke", "bundle_monitoring",
                 "grafana", "bundle_incident", "bundle_retention"}

VouchesFor(c, L, on, D) ==
    /\ c = "handoff" => /\ Sound({"runbook_references", "workflow_file", "review_order", "go_no-go_list"}, L)
                        /\ "warning_exception" \in on => Sound({"exception_approval"}, L)
    /\ c = "first_run" => Sound({"first_run_references", "runner_label", "expected_artifacts", "group_owner"}, L)
    /\ c = "preflight" => Sound({"runner_variables", "required_tool", "optional_tool", "probe_url",
                                  "probe_answer", "probe_auth", "group_variables"}, L)
    /\ c = "bootstrap" => /\ Sound({"bootstrap_evidence", "bootstrap_tool", "same_versions"}, L)
                          /\ Within({"preflight"}, D)
    /\ c = "service_checks" => Sound({"service_url", "service_answer"}, L)
    /\ c = "psp" => Sound({"psp_contract", "psp_secret", "psp_certification"}, L)
    /\ c = "fbr" => Sound({"fbr_credentials", "fbr_reference", "fbr_branch"}, L)
    /\ c = "provider_readiness" => Within({"psp", "fbr"}, D)
    /\ c = "payment_lifecycle" => /\ Sound({"source_contracts", "fixture_smoke", "fixture_events"}, L)
                                  /\ Within({"lifecycle_psp"}, D)
    /\ c = "release_candidate" => Sound({"release_checks"}, L)
    /\ c = "e2e_seed" => Sound({"seed_command", "seed_variables"}, L)
    /\ c = "e2e_profile" => Sound({"base_url", "e2e_variables", "specs", "browser_settings",
                                    "flag_prerequisites", "https", "e2e_owners", "e2e_script"}, L)
    /\ c = "e2e" => /\ Sound({"base_url_answer", "browser_tests"}, L)
                    /\ Within({"e2e_readiness"}, D)
    /\ c = "browser_matrix" => Sound({"projects", "project_tests"}, L)
    /\ c = "e2e_execution" => /\ Sound({"sign-off_reference"}, L)
                              /\ Within({"e2e_readiness"}, D)
    /\ c = "browser" => Within({"e2e_seed", "e2e_profile", "e2e", "browser_matrix", "e2e_execution"}, D)
    /\ c = "ops_tool" => Sound({"tool_results", "tool_phrases"}, L)
    /\ c = "load_matrix" => Sound({"load_profiles", "load_approval"}, L)
    /\ c = "load" => Sound({"load_base_url", "load_summary", "load_metrics"}, L)
    /\ c = "smoke" => Sound({"smoke_endpoints", "smoke_answer", "open_deployment_gate"}, L)
    /\ c = "tenant_rollout" => Sound({"tenant_manifests", "dns_template", "tenant_count", "tenant_artifacts",
                                       "rollout_action"}, L)
    /\ c = "tenant_smoke" => Sound({"tenant_checklist", "tenant_base_url", "tenant_answer"}, L)
    /\ c = "bundle_monitoring" => Sound({"rollback_actions", "rollback_plan"}, L)
    /\ c = "grafana" => Sound({"dashboard_definitions", "grafana_answer", "grafana_login", "grafana_search"}, L)
    /\ c = "operations_bundle" => Within(BundleChecks, D)
    /\ c = "incident" => Sound({"incident_references"}, L)
    /\ c = "deployment" => Sound({"deployment_references", "approvers"}, L)
    /\ c = "secret_runtime" => Sound({"secret_provider", "secret_probe"}, L)
    /\ c = "tenant_ops" => Sound({"tenant_operations"}, L)
    /\ c = "monitoring" => Sound({"deployment_decision", "rollback_decision", "monitoring_endpoints",
                                   "monitoring_answer"}, L)
    /\ c = "certification" => Sound({"certification_manifest", "certification_files",
                                      "certification_approval", "certification_validity"}, L)
    /\ c = "certification_matrix" => Within({"provider_readiness", "certification", "certification_execution"}, D)
    /\ c = "retention" => Sound({"retention_references", "retention_days", "evidence_files"}, L)
    /\ c = "secret_manager" => Sound({"secret_references", "secret_templates", "secret_guardrails",
                                       "local_secret_files"}, L)
    /\ c = "production_ops" => /\ Sound({"infrastructure_evidence"}, L)
                               /\ Within({"operations_bundle", "monitoring", "incident", "load_matrix", "load",
                                       "retention", "secret_manager", "deployment", "secret_runtime",
                                       "tenant_ops", "ops_tool"}, D)

Vouches(c) == VouchesFor(c, lacks, chosen, DOMAIN filed)

(* A report that found something has a row that the package looks for; but the    *)
(* matrix of certifications need not, where none is configured: then it is the    *)
(* row of the certification's run that tells.                                    *)
Unconfigured == "certification_configured" \notin chosen /\ Filed("certification_execution")

Reveals(c, r) ==
    /\ r.found # {} => \/ r.rows \cap Telling # {}
                       \/ c = "certification_matrix" /\ Unconfigured
    /\ c = "certification_execution" /\ "certification_configured" \notin chosen => r.rows \cap Telling # {}
    /\ r.found = {} /\ Looking \subseteq chosen => Vouches(c)

Shaped(r) ==
    /\ r.decision \in {"passed", "warning", "failed"}
    /\ r.rows \subseteq {RowOf[s] : s \in Severities}

AllFiled == \A c \in DOMAIN filed : Shaped(filed[c]) /\ Reveals(c, filed[c])

(* The place of each step. *)
Place == [handoff |-> 1, first_run |-> 2, preflight |-> 3, bootstrap |-> 4, service_checks |-> 5, psp |-> 6,
          fbr |-> 7, provider_readiness |-> 8, lifecycle_psp |-> 9, payment_lifecycle |-> 10,
          release_candidate |-> 11, e2e_seed |-> 12, e2e_profile |-> 13, e2e_readiness |-> 14, e2e |-> 15,
          browser_matrix |-> 16, e2e_execution |-> 17, browser |-> 18, ops_tool |-> 19, load_matrix |-> 20,
          load |-> 21, smoke |-> 22, tenant_rollout |-> 23, tenant_smoke |-> 24, bundle_monitoring |-> 25,
          grafana |-> 26, bundle_incident |-> 27, bundle_retention |-> 28, operations_bundle |-> 29,
          incident |-> 30, deployment |-> 31, secret_runtime |-> 32, tenant_ops |-> 33, monitoring |-> 34,
          certification |-> 35, certification_execution |-> 36, certification_matrix |-> 37, retention |-> 38,
          secret_manager |-> 39, production_ops |-> 40]

Past == {c \in DOMAIN Place : Place[c] < turn}

(* The job was not halted. *)
Packed == readiness # ""

Went == turn <= 41 \/ Packed

(* With all that looks on, every step before this one has written or was lost,    *)
(* but that the bundle's monitoring may have been left out.                      *)
Traced ==
    Went => /\ gone \cap Halting = {}
            /\ Past \cap Halting \subseteq DOMAIN filed
            /\ Looking \subseteq chosen => Past \subseteq gone \cup DOMAIN filed \cup {"bundle_monitoring"}

ReadyMeans ==
    readiness = "ready" => \A c \in DOMAIN filed : filed[c].rows \cap Telling = {}

ReviewTyped ==
    /\ lacks \subseteq Items /\ turn \in 1 .. 42
    /\ Packed => turn = 42
    /\ gone \cap DOMAIN filed = {}
    /\ gone \cup DOMAIN filed \subseteq Past

ReviewInv ==
    /\ ReviewTyped /\ chosen \subseteq AllOptions /\ readiness \in {"", "ready", "warning", "blocked"}
    /\ AllFiled /\ Traced /\ ReadyMeans

-----------------------------------------------------------------------------
(* The order of the steps. *)
LEMMA StepsAre ==
    /\ AllSteps[1] = "handoff" /\ AllSteps[2] = "first_run" /\ AllSteps[3] = "preflight"
    /\ AllSteps[4] = "bootstrap" /\ AllSteps[5] = "service_checks" /\ AllSteps[6] = "psp"
    /\ AllSteps[7] = "fbr" /\ AllSteps[8] = "provider_readiness" /\ AllSteps[9] = "lifecycle_psp"
    /\ AllSteps[10] = "payment_lifecycle" /\ AllSteps[11] = "release_candidate" /\ AllSteps[12] = "e2e_seed"
    /\ AllSteps[13] = "e2e_profile" /\ AllSteps[14] = "e2e_readiness" /\ AllSteps[15] = "e2e"
    /\ AllSteps[16] = "browser_matrix" /\ AllSteps[17] = "e2e_execution" /\ AllSteps[18] = "browser"
    /\ AllSteps[19] = "ops_tool" /\ AllSteps[20] = "load_matrix" /\ AllSteps[21] = "load"
    /\ AllSteps[22] = "smoke" /\ AllSteps[23] = "tenant_rollout" /\ AllSteps[24] = "tenant_smoke"
    /\ AllSteps[25] = "bundle_monitoring" /\ AllSteps[26] = "grafana" /\ AllSteps[27] = "bundle_incident"
    /\ AllSteps[28] = "bundle_retention" /\ AllSteps[29] = "operations_bundle" /\ AllSteps[30] = "incident"
    /\ AllSteps[31] = "deployment" /\ AllSteps[32] = "secret_runtime" /\ AllSteps[33] = "tenant_ops"
    /\ AllSteps[34] = "monitoring" /\ AllSteps[35] = "certification" /\ AllSteps[36] = "certification_execution"
    /\ AllSteps[37] = "certification_matrix" /\ AllSteps[38] = "retention" /\ AllSteps[39] = "secret_manager"
    /\ AllSteps[40] = "production_ops"
    /\ Len(AllSteps) = 40 /\ DOMAIN AllSteps = 1 .. 40
BY DEF AllSteps, RunnerSteps, ProviderSteps, BrowserSteps, BundleSteps, OperationSteps

LEMMA Places == \A i \in 1 .. 40 : AllSteps[i] \in DOMAIN Place /\ Place[AllSteps[i]] = i
<1> TAKE i \in 1 .. 40
<1>1. CASE i \in 1 .. 10
  BY <1>1, StepsAre DEF Place
<1>2. CASE i \in 11 .. 20
  BY <1>2, StepsAre DEF Place
<1>3. CASE i \in 21 .. 30
  BY <1>3, StepsAre DEF Place
<1>4. CASE i \in 31 .. 40
  BY <1>4, StepsAre DEF Place
<1> QED
  BY <1>1, <1>2, <1>3, <1>4

LEMMA StepSet == \A c \in DOMAIN Place : AllSteps[Place[c]] = c /\ Place[c] \in 1 .. 40
BY StepsAre DEF Place

LEMMA NowIs ==
    ASSUME NEW c, Now(c), turn \in 1 .. 42
    PROVE  turn \in 1 .. 40 /\ c \in DOMAIN Place /\ Place[c] = turn /\ c \notin Past
<1>1. turn \in 1 .. 40 /\ c = AllSteps[turn]
  BY StepsAre DEF Now
<1> QED
  BY <1>1, Places DEF Past

-----------------------------------------------------------------------------
(* Checks: that they found nothing, and that the package looks for their rows.   *)
Grades == Severities \ {"optional"}

Spotless(checks)  == \A k \in checks : ~k.found
Graded(checks) == \A k \in checks : k.severity \in Grades

LEMMA Unions ==
    \A A, B : /\ Spotless(A \cup B) <=> Spotless(A) /\ Spotless(B)
              /\ Graded(A \cup B) <=> Graded(A) /\ Graded(B)
BY DEF Spotless, Graded

LEMMA Nothing == Spotless({}) /\ Graded({})
BY DEF Spotless, Graded

LEMMA Checks ==
    \A items, severity : /\ Spotless(Check(items, severity)) <=> Sound(items, lacks)
                         /\ severity \in Grades => Graded(Check(items, severity))
<1> TAKE items, severity
<1> DEFINE looked(i) == [item |-> i, found |-> i \in lacks, severity |-> severity]
<1>1. \A k : k \in Check(items, severity) <=> \E i \in items : k = looked(i)
  BY DEF Check, Amiss
<1>2. \A i : (looked(i).found <=> i \in lacks) /\ looked(i).severity = severity
  OBVIOUS
<1> HIDE DEF looked
<1>3. Spotless(Check(items, severity)) <=> \A i \in items : ~looked(i).found
  BY <1>1 DEF Spotless
<1>4. Graded(Check(items, severity)) <=> \A i \in items : looked(i).severity \in Grades
  BY <1>1 DEF Graded
<1> QED
  BY <1>2, <1>3, <1>4 DEF Sound

LEMMA Amisses ==
    \A item, found, severity : /\ Spotless(Amiss(item, found, severity)) <=> ~found
                               /\ severity \in Grades => Graded(Amiss(item, found, severity))
BY DEF Spotless, Graded, Amiss

LEMMA Heeded ==
    \A c, severity : /\ Spotless(Heed(c, severity)) <=> Says(c) \notin DOMAIN severity
                     /\ (\A d \in DOMAIN severity : severity[d] \in Grades) => Graded(Heed(c, severity))
<1> TAKE c, severity
<1> DEFINE heeded(d) == [item |-> c, found |-> Says(c) = d, severity |-> severity[d]]
<1>1. \A k : k \in Heed(c, severity) <=> \E d \in DOMAIN severity : k = heeded(d)
  BY DEF Heed, Amiss
<1>2. \A d : (heeded(d).found <=> Says(c) = d) /\ heeded(d).severity = severity[d]
  OBVIOUS
<1> HIDE DEF heeded
<1>3. Spotless(Heed(c, severity)) <=> \A d \in DOMAIN severity : ~heeded(d).found
  BY <1>1 DEF Spotless
<1>4. Graded(Heed(c, severity)) <=> \A d \in DOMAIN severity : heeded(d).severity \in Grades
  BY <1>1 DEF Graded
<1> QED
  BY <1>2, <1>3, <1>4

LEMMA Blocking ==
    \A items : /\ Graded(Blocks(items)) /\ (Spotless(Blocks(items)) <=> Sound(items, lacks))
               /\ Graded(Warns(items)) /\ (Spotless(Warns(items)) <=> Sound(items, lacks))
BY Checks DEF Blocks, Warns, Grades, Severities

LEMMA Saying == \A c : c \notin DOMAIN filed => Says(c) = "missing"
BY DEF Says, Filed

(* The rules by which a review is taken apart: what is clean in it, and what graded. *)
LEMMA CleanRules ==
    /\ \A A, B : Spotless(A \cup B) <=> Spotless(A) /\ Spotless(B)
    /\ Spotless({})
    /\ \A items, severity : Spotless(Check(items, severity)) <=> Sound(items, lacks)
    /\ \A items : Spotless(Blocks(items)) <=> Sound(items, lacks)
    /\ \A items : Spotless(Warns(items)) <=> Sound(items, lacks)
    /\ \A item, found, severity : Spotless(Amiss(item, found, severity)) <=> ~found
    /\ \A o, A : Spotless(When(o, A)) <=> (o \in chosen => Spotless(A))
    /\ \A i, A : Spotless(Unless(i, A)) <=> (i \notin lacks => Spotless(A))
BY Unions, Nothing, Checks, Blocking, Amisses DEF When, Unless

LEMMA CleanHeed ==
    /\ \A c, m : Spotless(Heed(c, [missing |-> m])) => c \in DOMAIN filed
    /\ \A c, m, f : Spotless(Heed(c, [missing |-> m, failed |-> f])) => c \in DOMAIN filed
    /\ \A c, m, f, w : Spotless(Heed(c, [missing |-> m, failed |-> f, warning |-> w])) => c \in DOMAIN filed
BY Heeded, Saying

LEMMA Grading ==
    /\ \A items, severity, k : k \in Check(items, severity) => k.severity = severity
    /\ \A items, k : k \in Blocks(items) => k.severity = "blocker"
    /\ \A items, k : k \in Warns(items) => k.severity = "warning"
    /\ \A item, found, severity, k : k \in Amiss(item, found, severity) => k.severity = severity
    /\ \A o, A, k : k \in When(o, A) => k \in A
    /\ \A i, A, k : k \in Unless(i, A) => k \in A
    /\ \A o, on, off : As(o, on, off) \in {on, off}
<1>1. \A items, severity, k : k \in Check(items, severity) => k.severity = severity
  BY DEF Check, Amiss
<1> QED
  BY <1>1 DEF Blocks, Warns, Amiss, When, Unless, As

LEMMA GradingHeed ==
    /\ \A c, m, k : k \in Heed(c, [missing |-> m]) => k.severity = m
    /\ \A c, m, f, k : k \in Heed(c, [missing |-> m, failed |-> f]) => k.severity \in {m, f}
    /\ \A c, f, w, k : k \in Heed(c, [failed |-> f, warning |-> w]) => k.severity \in {f, w}
    /\ \A c, m, f, w, k : k \in Heed(c, [missing |-> m, failed |-> f, warning |-> w]) => k.severity \in {m, f, w}
<1>1. \A c, severity, k : k \in Heed(c, severity) => \E d \in DOMAIN severity : k.severity = severity[d]
  BY DEF Heed, Amiss
<1> QED
  BY <1>1

LEMMA LookingAll ==
    Looking \subseteq chosen =>
        /\ "check_tools" \in chosen /\ "probe_urls" \in chosen /\ "probe_auth" \in chosen
        /\ "service_probes" \in chosen /\ "fbr" \in chosen /\ "live_fbr" \in chosen
        /\ "provider_certification" \in chosen /\ "seed" \in chosen /\ "profile" \in chosen
        /\ "probe_base_url" \in chosen /\ "browser_tests" \in chosen /\ "browser_matrix" \in chosen
        /\ "execution_evidence" \in chosen /\ "strict_execution" \in chosen /\ "tenant_checks" \in chosen
        /\ "apply_rollout" \in chosen /\ "grafana" \in chosen /\ "certification_configured" \in chosen
        /\ "certification_groups" \in chosen /\ "matrix_requires_providers" \in chosen
BY DEF Looking

LEMMA Severe ==
    /\ "blocker" \in Grades /\ "warning" \in Grades /\ "tolerated" \in Grades
    /\ "noted" \in Grades /\ "skipped" \in Grades
BY DEF Grades, Severities

LEMMA JudgedRows ==
    ASSUME NEW checks, \A k \in checks : k.severity \in Severities
    PROVE  /\ Shaped(Judged(checks))
           /\ Judged(checks).found = {} <=> Spotless(checks)
           /\ (\E k \in checks : k.found /\ k.severity \in Grades) => Judged(checks).rows \cap Telling # {}
<1> DEFINE amiss == {k \in checks : k.found}
<1>1. Judged(checks).rows = {RowOf[k.severity] : k \in amiss} /\ Judged(checks).found = {k.item : k \in amiss}
  BY DEF Judged
<1>2. Judged(checks).decision \in {"passed", "warning", "failed"}
  BY DEF Judged
<1>3. \A s \in Grades : RowOf[s] \in Telling
  BY DEF Grades, Severities, RowOf, Telling
<1>4. (\E k \in checks : k.found /\ k.severity \in Grades) => \E k \in amiss : k.severity \in Grades
  OBVIOUS
<1>5. Spotless(checks) <=> amiss = {}
  BY DEF Spotless
<1>6. \A k \in amiss : k.severity \in Severities
  OBVIOUS
<1> HIDE DEF amiss
<1>7. Judged(checks).rows \subseteq {RowOf[s] : s \in Severities}
  BY <1>1, <1>6
<1>8. (\E k \in amiss : k.severity \in Grades) => Judged(checks).rows \cap Telling # {}
  BY <1>1, <1>3
<1>9. Judged(checks).found = {} <=> amiss = {}
  <2>1. \A x : x \in Judged(checks).found <=> \E k \in amiss : x = k.item
    BY <1>1
  <2> QED
    BY <2>1
<1> QED
  BY <1>2, <1>4, <1>5, <1>7, <1>8, <1>9 DEF Shaped

LEMMA UnwarnedRows ==
    ASSUME NEW checks, \A k \in checks : k.severity \in Severities,
           NEW r, r \in {Judged(checks), Unwarned(Judged(checks))}
    PROVE  /\ Shaped(r)
           /\ r.found = {} <=> Spotless(checks)
           /\ (\E k \in checks : k.found /\ k.severity \in Grades) => r.rows \cap Telling # {}
<1> DEFINE j == Judged(checks)
<1>1. Unwarned(j).found = j.found /\ Unwarned(j).rows = j.rows /\ Unwarned(j).decision \in {j.decision, "failed"}
  BY DEF Unwarned, Judged
<1> HIDE DEF j
<1>2. r.found = j.found /\ r.rows = j.rows /\ r.decision \in {j.decision, "failed"}
  BY <1>1 DEF j
<1> QED
  BY <1>2, JudgedRows DEF j, Shaped

LEMMA UnwarnedTells ==
    ASSUME NEW checks, Graded(checks), NEW r, r \in {Judged(checks), Unwarned(Judged(checks))}
    PROVE  /\ Shaped(r)
           /\ r.found = {} <=> Spotless(checks)
           /\ r.found # {} => r.rows \cap Telling # {}
<1>1. \A k \in checks : k.severity \in Severities /\ k.severity \in Grades
  BY DEF Graded, Grades
<1>2. ~Spotless(checks) => \E k \in checks : k.found /\ k.severity \in Grades
  BY <1>1 DEF Spotless
<1> QED
  BY <1>1, <1>2, UnwarnedRows

-----------------------------------------------------------------------------
(* What every step does to what was done. *)
LEMMA Advances ==
    ASSUME NEW c, Now(c), turn \in 1 .. 42, turn' \in {turn + 1, 42}
    PROVE  /\ c \in Past' /\ Past \subseteq Past' /\ turn' \in 1 .. 42
           /\ turn' = turn + 1 => Past' = Past \cup {c}
<1>1. turn \in 1 .. 40 /\ c \in DOMAIN Place /\ Place[c] = turn
  BY NowIs
<1>2. \A d \in DOMAIN Place : Place[d] \in 1 .. 40 /\ (Place[d] = turn => d = c)
  BY <1>1, StepSet
<1> QED
  BY <1>1, <1>2 DEF Past

LEMMA PackedStays == UNCHANGED readiness => (Packed' <=> Packed)
BY DEF Packed

LEMMA VouchesStill ==
    ASSUME NEW c, NEW L, NEW on, NEW D, NEW E, D \subseteq E
    PROVE  VouchesFor(c, L, on, D) => VouchesFor(c, L, on, E)
<1>1. \A steps : Within(steps, D) => Within(steps, E)
  BY DEF Within
<1> QED
  BY ONLY <1>1 DEF VouchesFor

LEMMA TellsStill ==
    ASSUME DOMAIN filed \subseteq DOMAIN filed', UNCHANGED <<lacks, chosen>>,
           NEW c, NEW r, Reveals(c, r)
    PROVE  Reveals(c, r)'
<1>1. Unconfigured => Unconfigured'
  BY DEF Unconfigured, Filed
<1>2. Vouches(c) => Vouches(c)'
  BY VouchesStill DEF Vouches
<1> QED
  BY <1>1, <1>2 DEF Reveals

LEMMA ExportKeeps ==
    ASSUME ReviewInv, NEW c, NEW r, Export(c, r), Shaped(r), Reveals(c, r)
    PROVE  ReviewInv'
<1>1. ReviewTyped /\ AllFiled /\ Traced
  BY DEF ReviewInv
<1>2. /\ Now(c) /\ turn \in 1 .. 42
      /\ filed' = [d \in DOMAIN filed \cup {c} |-> IF d = c THEN r ELSE filed[d]]
      /\ UNCHANGED <<lacks, chosen, gone, readiness>>
  BY <1>1 DEF Export, ReviewTyped
<1>3. turn \in 1 .. 40 /\ c \notin Past /\ c \notin DOMAIN filed /\ c \notin gone /\ ~Packed
  BY <1>1, <1>2, NowIs DEF ReviewTyped
<1>4. /\ DOMAIN filed' = DOMAIN filed \cup {c} /\ filed'[c] = r
      /\ \A d \in DOMAIN filed : filed'[d] = filed[d]
  BY <1>2, <1>3
<1>5. turn' = turn + 1 \/ (turn' = 42 /\ c \in Halting)
  BY StepsAre DEF Export, Following
<1>6. c \in Past' /\ Past \subseteq Past' /\ turn' \in 1 .. 42 /\ (turn' = turn + 1 => Past' = Past \cup {c})
  BY <1>2, <1>5, Advances
<1>7. ReviewTyped'
  BY <1>2, <1>3, <1>4, <1>6, <1>1, PackedStays DEF ReviewTyped
<1>8. AllFiled'
  <2> SUFFICES ASSUME NEW d \in DOMAIN filed'
               PROVE  Shaped(filed'[d]) /\ Reveals(d, filed[d])'
    BY DEF AllFiled, Shaped
  <2>1. Shaped(filed'[d]) /\ Reveals(d, filed'[d])
    BY <1>1, <1>4 DEF AllFiled
  <2>2. PICK w : w = filed'[d]
    OBVIOUS
  <2>3. Reveals(d, w)'
    BY <2>1, <2>2, <1>2, <1>4, TellsStill
  <2> QED
    BY <2>1, <2>2, <2>3 DEF Reveals, Unconfigured, Vouches
<1>9. Traced'
  <2> SUFFICES ASSUME Went'
               PROVE  /\ (gone \cap Halting = {})'
                      /\ (Past \cap Halting \subseteq DOMAIN filed)'
                      /\ (Looking \subseteq chosen => Past \subseteq gone \cup DOMAIN filed \cup {"bundle_monitoring"})'
    BY DEF Traced
  <2>1. turn' = turn + 1 /\ Went
    BY <1>2, <1>3, <1>5, PackedStays DEF Went
  <2> QED
    BY <2>1, <1>1, <1>2, <1>4, <1>6 DEF Traced
<1> QED
  BY <1>2, <1>3, <1>7, <1>8, <1>9 DEF ReviewInv, ReadyMeans, Packed

(* A step that is not asked for writes nothing. *)
LEMMA PassOverKeeps ==
    ASSUME ReviewInv, NEW c, PassOver(c), c \notin Halting,
           Looking \subseteq chosen => c = "bundle_monitoring"
    PROVE  ReviewInv'
<1>1. ReviewTyped /\ AllFiled /\ Traced
  BY DEF ReviewInv
<1>2. /\ Now(c) /\ turn \in 1 .. 42 /\ turn' = turn + 1
      /\ UNCHANGED <<lacks, chosen, filed, gone, readiness>>
  BY <1>1 DEF PassOver, ReviewTyped
<1>3. turn \in 1 .. 40 /\ ~Packed
  BY <1>1, <1>2, NowIs DEF ReviewTyped
<1>4. Past' = Past \cup {c} /\ turn' \in 1 .. 42
  BY <1>2, Advances
<1>5. ReviewTyped'
  BY <1>2, <1>3, <1>4, <1>1, PackedStays DEF ReviewTyped
<1>6. AllFiled'
  BY <1>1, <1>2, TellsStill DEF AllFiled, Shaped
<1>7. Traced'
  BY <1>2, <1>3, <1>4, <1>1, PackedStays DEF Traced, Went
<1> QED
  BY <1>2, <1>3, <1>5, <1>6, <1>7 DEF ReviewInv, ReadyMeans, Packed

(* A step that ends early is gone; where it halts the job, nothing is claimed.    *)
LEMMA EndKeeps ==
    ASSUME ReviewInv, EndEarly
    PROVE  ReviewInv'
<1> DEFINE c == AllSteps[turn]
<1>1. ReviewTyped /\ AllFiled /\ Traced
  BY DEF ReviewInv
<1>2. /\ Now(c) /\ turn \in 1 .. 40 /\ gone' = gone \cup {c} /\ UNCHANGED <<lacks, chosen, filed, readiness>>
      /\ IF c \in Halting THEN turn' = 42 ELSE turn' = turn + 1
  BY <1>1, StepsAre DEF EndEarly, Now, Following, ReviewTyped
<1> HIDE DEF c
<1>3. c \notin Past /\ c \notin DOMAIN filed /\ ~Packed
  BY <1>1, <1>2, NowIs DEF ReviewTyped
<1>4. c \in Past' /\ Past \subseteq Past' /\ turn' \in 1 .. 42 /\ (turn' = turn + 1 => Past' = Past \cup {c})
  BY <1>2, Advances
<1>5. ReviewTyped'
  BY <1>2, <1>3, <1>4, <1>1, PackedStays DEF ReviewTyped
<1>6. AllFiled'
  BY <1>1, <1>2, TellsStill DEF AllFiled, Shaped
<1>7. Traced'
  BY <1>2, <1>3, <1>4, <1>1, PackedStays DEF Traced, Went
<1> QED
  BY <1>2, <1>3, <1>5, <1>6, <1>7 DEF ReviewInv, ReadyMeans, Packed

(* A package that is ready has seen no row that tells, nor missed a group. *)
LEMMA PackReads ==
    /\ PackReadiness \in {"ready", "warning", "blocked"}
    /\ PackReadiness = "ready" => \A c \in DOMAIN filed : filed[c].rows \cap Telling = {}
<1> DEFINE told == UNION {SummaryStatus(c) \cup PackRows(c) \cup JsonDecision(c) : c \in DOMAIN filed}
<1>1. ASSUME NEW c \in DOMAIN filed, NEW row \in filed[c].rows \cap Telling
      PROVE  row \in told
  <2>1. row \in PackRows(c)
    BY <1>1 DEF PackRows, Telling
  <2> QED
    BY <2>1
<1> DEFINE missed == RequiredGroups \ {Group(c) : c \in DOMAIN filed} # {}
           empty  == filed = <<>>
<1>2. PackReadiness = IF "failed" \in told \/ missed THEN "blocked"
                      ELSE IF {"warning", "skipped"} \cap told # {} \/ empty THEN "warning" ELSE "ready"
  BY DEF PackReadiness
<1> HIDE DEF told, missed, empty
<1>3. PackReadiness = "ready" => told \cap Telling = {}
  BY <1>2 DEF Telling
<1> QED
  BY <1>1, <1>2, <1>3

LEMMA PackKeeps ==
    ASSUME ReviewInv, WritePack
    PROVE  ReviewInv'
<1>1. ReviewTyped /\ AllFiled /\ Traced
  BY DEF ReviewInv
<1>2. turn = 41 /\ turn' = 42 /\ readiness' = PackReadiness /\ UNCHANGED <<lacks, chosen, filed, gone>>
  BY StepsAre DEF WritePack
<1>3. Past' = Past
  <2>1. \A d \in DOMAIN Place : Place[d] \in 1 .. 40
    BY StepSet
  <2> QED
    BY <1>2, <2>1 DEF Past
<1>4. ReviewTyped'
  BY <1>1, <1>2, <1>3 DEF ReviewTyped
<1>5. AllFiled'
  BY <1>1, <1>2, TellsStill DEF AllFiled, Shaped
<1>6. Traced'
  BY <1>1, <1>2, <1>3 DEF Traced, Went
<1>7. readiness' \in {"ready", "warning", "blocked"} /\ ReadyMeans'
  BY <1>2, PackReads DEF ReadyMeans
<1> QED
  BY <1>2, <1>4, <1>5, <1>6, <1>7 DEF ReviewInv

LEMMA ReviewStarts == ReviewInit => ReviewInv
<1> SUFFICES ASSUME ReviewInit
             PROVE  ReviewInv
  OBVIOUS
<1>1. lacks \subseteq Items /\ chosen \subseteq AllOptions
  BY DEF ReviewInit, AllOptions, Thorough, Shipped, Looking, Stricter
<1>2. DOMAIN filed = {} /\ turn = 1 /\ gone = {} /\ ~Packed /\ readiness = ""
  <2>1. turn = 1 /\ gone = {} /\ filed = <<>> /\ readiness = ""
    BY Zenon DEF ReviewInit
  <2>2. DOMAIN <<>> = {}
    OBVIOUS
  <2> QED
    BY <2>1, <2>2, Zenon DEF Packed
<1>3. Past = {}
  <2>1. \A d \in DOMAIN Place : Place[d] \in 1 .. 40
    BY StepSet
  <2>2. turn = 1
    BY <1>2
  <2> QED
    BY <2>1, <2>2 DEF Past
<1>4. ReviewTyped
  <2>1. turn = 1 /\ DOMAIN filed = {} /\ gone = {} /\ ~Packed
    BY <1>2
  <2> QED
    BY <1>1, <2>1 DEF ReviewTyped
<1>5. AllFiled /\ Traced
  BY <1>2, <1>3 DEF AllFiled, Traced
<1> QED
  BY <1>1, <1>2, <1>4, <1>5 DEF ReviewInv, ReadyMeans

-----------------------------------------------------------------------------
(* What a review, if it found nothing, vouches for. *)
Examined(c, checks) == Graded(checks) /\ (Spotless(checks) /\ Looking \subseteq chosen => Vouches(c))

LEMMA ReviewKeeps ==
    ASSUME ReviewInv, NEW c, NEW checks, NEW r, r \in {Judged(checks), Unwarned(Judged(checks))},
           Export(c, r), Examined(c, checks),
           c = "certification_execution" => "certification_configured" \in chosen \/ ~Spotless(checks)
    PROVE  ReviewInv'
<1>1. Shaped(r) /\ (r.found = {} <=> Spotless(checks)) /\ (r.found # {} => r.rows \cap Telling # {})
  BY UnwarnedTells DEF Examined
<1>2. Reveals(c, r)
  BY <1>1 DEF Reveals, Examined
<1> QED
  BY <1>1, <1>2, ExportKeeps

LEMMA HandoffReviewed == Examined("handoff", HandoffReview)
<1>1. Graded(HandoffReview)
  BY Grading, Severe DEF HandoffReview, Graded
<1>2. Spotless(HandoffReview) => Vouches("handoff")
  BY CleanRules DEF HandoffReview, Vouches, VouchesFor
<1> QED
  BY <1>1, <1>2 DEF Examined

LEMMA FirstRunReviewed == Examined("first_run", FirstRunReview)
<1>1. Graded(FirstRunReview)
  BY Grading, Severe DEF FirstRunReview, Graded
<1>2. Spotless(FirstRunReview) /\ Looking \subseteq chosen => Vouches("first_run")
  BY CleanRules, LookingAll DEF FirstRunReview, Vouches, VouchesFor, Sound
<1> QED
  BY <1>1, <1>2 DEF Examined

LEMMA PreflightReviewed == Examined("preflight", PreflightReview)
<1>1. Graded(PreflightReview)
  BY Grading, Severe DEF PreflightReview, ToolReview, ProbeReview, Graded
<1>2. ASSUME Spotless(PreflightReview), Looking \subseteq chosen
      PROVE  Vouches("preflight")
  <2>1. {"check_tools", "probe_urls", "probe_auth", "certification_groups"} \subseteq chosen
    BY <1>2, LookingAll
  <2>2. /\ Spotless(Blocks({"runner_variables"})) /\ Spotless(ToolReview)
        /\ Spotless(ProbeReview) /\ Spotless(Blocks({"group_variables"}))
    BY <1>2, <2>1 DEF PreflightReview, When, Spotless
  <2>3. Spotless(Blocks({"required_tool"})) /\ Spotless(Warns({"optional_tool"}))
    BY <2>1, <2>2 DEF ToolReview, When, Spotless
  <2>4. /\ Spotless(Check({"probe_url"}, As("require_urls", "blocker", "warning")))
        /\ Spotless(Unless("probe_url", Blocks({"probe_answer"})))
        /\ Spotless(Check({"probe_auth"}, As("require_auth", "blocker", "warning")))
    BY <2>1, <2>2 DEF ProbeReview, When, Spotless
  <2>5. Sound({"runner_variables"}, lacks) /\ Sound({"required_tool"}, lacks) /\ Sound({"optional_tool"}, lacks)
        /\ Sound({"probe_url"}, lacks) /\ Sound({"probe_auth"}, lacks) /\ Sound({"group_variables"}, lacks)
    BY <2>2, <2>3, <2>4, CleanRules
  <2>6. "probe_url" \notin lacks => Sound({"probe_answer"}, lacks)
    BY <2>4, CleanRules
  <2> QED
    BY <2>5, <2>6 DEF Vouches, VouchesFor, Sound
<1> QED
  BY <1>1, <1>2 DEF Examined

LEMMA BootstrapReviewed ==
    ASSUME NEW fault \in {"blocker", "warning"} PROVE Examined("bootstrap", BootstrapReview(fault))
<1>1. Graded(BootstrapReview(fault))
  BY Grading, GradingHeed, Severe DEF BootstrapReview, Graded
<1>2. Spotless(BootstrapReview(fault)) => Vouches("bootstrap")
  BY CleanRules, CleanHeed DEF BootstrapReview, Vouches, VouchesFor, Sound, Within
<1> QED
  BY <1>1, <1>2 DEF Examined

LEMMA ServiceReviewed == Examined("service_checks", ServiceReview)
<1>1. Graded(ServiceReview)
  BY Grading, Severe DEF ServiceReview, When, Unless, Graded
<1>2. ASSUME Spotless(ServiceReview), Looking \subseteq chosen
      PROVE  Vouches("service_checks")
  <2>1. "service_probes" \in chosen
    BY <1>2, LookingAll
  <2>2. /\ Spotless(Check({"service_url"}, As("require_service_probes", "blocker", "warning")))
        /\ Spotless(Unless("service_url", Blocks({"service_answer"})))
    BY <1>2, <2>1 DEF ServiceReview, When, Spotless
  <2>3. Sound({"service_url"}, lacks) /\ ("service_url" \notin lacks => Sound({"service_answer"}, lacks))
    BY <2>2, CleanRules
  <2> QED
    BY <2>3 DEF Vouches, VouchesFor, Sound
<1> QED
  BY <1>1, <1>2 DEF Examined

LEMMA PspReviewed ==
    ASSUME NEW native PROVE Examined("psp", PspReview(native))
<1>1. Graded(PspReview(native))
  BY Grading, Severe DEF PspReview, Graded
<1>2. Spotless(PspReview(native)) => Vouches("psp")
  BY CleanRules DEF PspReview, Vouches, VouchesFor, Sound
<1> QED
  BY <1>1, <1>2 DEF Examined

LEMMA FbrReviewed == Examined("fbr", FbrReview)
<1>1. Graded(FbrReview)
  BY Grading, Severe DEF FbrReview, Graded
<1>2. Spotless(FbrReview) => Vouches("fbr")
  BY CleanRules DEF FbrReview, Vouches, VouchesFor, Sound
<1> QED
  BY <1>1, <1>2 DEF Examined

LEMMA NestedFiled == \A c, o : Spotless(Nested(c, o)) => c \in DOMAIN filed
BY CleanHeed DEF Nested

LEMMA ProviderReviewed == Examined("provider_readiness", ProviderReview)
<1>1. Graded(ProviderReview)
  BY Grading, GradingHeed, Severe DEF ProviderReview, Nested, When, Graded
<1>2. ASSUME Spotless(ProviderReview), Looking \subseteq chosen
      PROVE  Vouches("provider_readiness")
  <2>1. "fbr" \in chosen
    BY <1>2, LookingAll
  <2>2. Spotless(Nested("psp", "providers_fail_on_warning")) /\ Spotless(Nested("fbr", "providers_fail_on_warning"))
    BY <1>2, <2>1 DEF ProviderReview, When, Spotless
  <2>3. {"psp", "fbr"} \subseteq DOMAIN filed
    BY <2>2, NestedFiled
  <2> QED
    BY <2>3 DEF Vouches, VouchesFor, Within
<1> QED
  BY <1>1, <1>2 DEF Examined

LEMMA LifecycleReviewed == Examined("payment_lifecycle", LifecycleReview)
<1>1. Graded(LifecycleReview)
  BY Grading, GradingHeed, Severe DEF LifecycleReview, Nested, When, Graded
<1>2. ASSUME Spotless(LifecycleReview)
      PROVE  Vouches("payment_lifecycle")
  <2>1. /\ Spotless(Blocks({"source_contracts", "fixture_smoke", "fixture_events"}))
        /\ Spotless(Nested("lifecycle_psp", "lifecycle_fails_on_warning"))
    BY <1>2 DEF LifecycleReview, Spotless
  <2>2. Sound({"source_contracts", "fixture_smoke", "fixture_events"}, lacks)
    BY <2>1, CleanRules
  <2>3. {"lifecycle_psp"} \subseteq DOMAIN filed
    BY <2>1, NestedFiled
  <2> QED
    BY <2>2, <2>3 DEF Vouches, VouchesFor, Within
<1> QED
  BY <1>1, <1>2 DEF Examined

LEMMA SeedReviewed == Examined("e2e_seed", SeedReview)
<1>1. Graded(SeedReview)
  BY Grading, Severe DEF SeedReview, Graded
<1>2. Spotless(SeedReview) => Vouches("e2e_seed")
  BY CleanRules DEF SeedReview, Vouches, VouchesFor, Sound
<1> QED
  BY <1>1, <1>2 DEF Examined

LEMMA ProfileReviewed == Examined("e2e_profile", ProfileReview)
<1>1. Graded(ProfileReview)
  BY Grading, GradingHeed, Severe DEF ProfileReview, When, Graded
<1>2. Spotless(ProfileReview) => Vouches("e2e_profile")
  BY CleanRules, CleanHeed DEF ProfileReview, When, Vouches, VouchesFor, Sound, Within
<1> QED
  BY <1>1, <1>2 DEF Examined

LEMMA E2eReviewed == Examined("e2e", E2eReview)
<1>1. Graded(E2eReview)
  BY Grading, GradingHeed, Severe DEF E2eReview, Graded
<1>2. Spotless(E2eReview) => Vouches("e2e")
  BY CleanRules, CleanHeed DEF E2eReview, Vouches, VouchesFor, Sound, Within
<1> QED
  BY <1>1, <1>2 DEF Examined

LEMMA MatrixReviewed == Examined("browser_matrix", MatrixReview)
<1>1. Graded(MatrixReview)
  BY Grading, Severe DEF MatrixReview, Graded
<1>2. Spotless(MatrixReview) => Vouches("browser_matrix")
  BY CleanRules DEF MatrixReview, Vouches, VouchesFor, Sound
<1> QED
  BY <1>1, <1>2 DEF Examined

LEMMA E2eExecutionReviewed == Examined("e2e_execution", E2eExecutionReview)
<1>1. Graded(E2eExecutionReview)
  BY Grading, GradingHeed, Severe DEF E2eExecutionReview, When, Graded
<1>2. ASSUME Spotless(E2eExecutionReview), Looking \subseteq chosen
      PROVE  Vouches("e2e_execution")
  <2>1. "strict_execution" \in chosen
    BY <1>2, LookingAll
  <2>2. Spotless(Heed("e2e_readiness", [missing |-> "blocker"])) /\ Spotless(Blocks({"sign-off_reference"}))
    BY <1>2, <2>1 DEF E2eExecutionReview, When, Spotless
  <2>3. Sound({"sign-off_reference"}, lacks) /\ {"e2e_readiness"} \subseteq DOMAIN filed
    BY <2>2, CleanRules, CleanHeed
  <2> QED
    BY <2>3 DEF Vouches, VouchesFor, Within
<1> QED
  BY <1>1, <1>2 DEF Examined

LEMMA ToolsReviewed == Examined("ops_tool", ToolResults \cup ToolLogs)
<1>1. Graded(ToolResults \cup ToolLogs)
  BY Grading, Severe DEF ToolResults, ToolLogs, Graded
<1>2. Spotless(ToolResults \cup ToolLogs) => Vouches("ops_tool")
  BY CleanRules DEF ToolResults, ToolLogs, Vouches, VouchesFor, Sound
<1> QED
  BY <1>1, <1>2 DEF Examined

LEMMA LoadMatrixReviewed == Examined("load_matrix", LoadMatrixReview)
<1>1. Graded(LoadMatrixReview)
  BY Grading, Severe DEF LoadMatrixReview, Unforgiven, Graded
<1>2. Spotless(LoadMatrixReview) => Vouches("load_matrix")
  BY CleanRules DEF LoadMatrixReview, Unforgiven, Vouches, VouchesFor, Sound
<1> QED
  BY <1>1, <1>2 DEF Examined

LEMMA LoadReviewed == Examined("load", LoadReview)
<1>1. Graded(LoadReview)
  BY Grading, Severe DEF LoadReview, Unforgiven, Graded
<1>2. ASSUME Spotless(LoadReview)
      PROVE  Vouches("load")
  <2> DEFINE metrics == {"load_metrics", "load_summary"} \cap lacks # {}
  <2>1. Spotless(Warns({"load_base_url", "load_summary"})) /\ Spotless(Amiss("load_metrics", metrics, Unforgiven))
    BY <1>2 DEF LoadReview, Spotless
  <2> HIDE DEF metrics
  <2>2. Sound({"load_base_url", "load_summary"}, lacks) /\ ~metrics
    BY <2>1, CleanRules
  <2>3. "load_metrics" \notin lacks
    BY <2>2 DEF metrics
  <2> QED
    BY <2>2, <2>3 DEF Vouches, VouchesFor, Sound
<1> QED
  BY <1>1, <1>2 DEF Examined

LEMMA SmokeReviewed == Examined("smoke", SmokeReview \cup Blocks({"open_deployment_gate"}))
<1>1. Graded(SmokeReview \cup Blocks({"open_deployment_gate"}))
  BY Grading, Severe DEF SmokeReview, Unmended, Graded
<1>2. Spotless(SmokeReview \cup Blocks({"open_deployment_gate"})) => Vouches("smoke")
  BY CleanRules DEF SmokeReview, Unmended, Vouches, VouchesFor, Sound
<1> QED
  BY <1>1, <1>2 DEF Examined

LEMMA RolloutReviewed == Examined("tenant_rollout", RolloutReview \cup RolloutActions)
<1>1. Graded(RolloutReview \cup RolloutActions)
  BY Grading, Severe DEF RolloutReview, RolloutActions, Unforgiven, When, Graded
<1>2. ASSUME Spotless(RolloutReview \cup RolloutActions), Looking \subseteq chosen
      PROVE  Vouches("tenant_rollout")
  <2>1. "apply_rollout" \in chosen
    BY <1>2, LookingAll
  <2>2. /\ Spotless(Blocks({"tenant_manifests", "dns_template"})) /\ Spotless(Blocks({"rollout_action"}))
        /\ Spotless(Check({"tenant_count", "tenant_artifacts"}, Unforgiven))
    BY <1>2, <2>1 DEF RolloutReview, RolloutActions, When, Spotless
  <2>3. /\ Sound({"tenant_manifests", "dns_template"}, lacks) /\ Sound({"rollout_action"}, lacks)
        /\ Sound({"tenant_count", "tenant_artifacts"}, lacks)
    BY <2>2, CleanRules
  <2> QED
    BY <2>3 DEF Vouches, VouchesFor, Sound
<1> QED
  BY <1>1, <1>2 DEF Examined

LEMMA TenantSmokeReviewed == Examined("tenant_smoke", TenantSmokeReview \cup TenantAnswers)
<1>1. Graded(TenantSmokeReview \cup TenantAnswers)
  BY Grading, Severe DEF TenantSmokeReview, TenantAnswers, Unforgiven, Unmended, Graded
<1>2. Spotless(TenantSmokeReview \cup TenantAnswers) => Vouches("tenant_smoke")
  BY CleanRules DEF TenantSmokeReview, TenantAnswers, Unforgiven, Unmended, Vouches, VouchesFor, Sound
<1> QED
  BY <1>1, <1>2 DEF Examined

LEMMA MonitoringReviewed ==
    ASSUME NEW strict PROVE Examined("monitoring", MonitoringReview(strict))
<1>1. Graded(MonitoringReview(strict))
  BY Grading, GradingHeed, Severe DEF MonitoringReview, Graded
<1>2. Spotless(MonitoringReview(strict)) => Vouches("monitoring")
  BY CleanRules, CleanHeed DEF MonitoringReview, Vouches, VouchesFor, Sound, Within
<1> QED
  BY <1>1, <1>2 DEF Examined

LEMMA GrafanaReviewed == Examined("grafana", GrafanaReview)
<1>1. Graded(GrafanaReview)
  <2>1. CASE "grafana_metadata_only" \in chosen
    <3>1. Graded(Check({"dashboard_definitions"}, Unmended)) /\ Graded(Amiss("grafana", TRUE, "skipped"))
      BY Checks, Amisses, Grading, Severe DEF Unmended
    <3> QED
      BY <2>1, <3>1, Unions DEF GrafanaReview
  <2>2. CASE "grafana_metadata_only" \notin chosen
    BY <2>2, Grading, Severe DEF GrafanaReview, Unmended, Graded
  <2> QED
    BY <2>1, <2>2
<1>2. ASSUME Spotless(GrafanaReview)
      PROVE  Vouches("grafana")
  <2>1. "grafana_metadata_only" \notin chosen
    <3>1. ASSUME "grafana_metadata_only" \in chosen
          PROVE  Spotless(Amiss("grafana", TRUE, "skipped"))
      BY <1>2, <3>1 DEF GrafanaReview, Spotless
    <3> QED
      BY <3>1, CleanRules
  <2>2. /\ Spotless(Check({"dashboard_definitions"}, Unmended)) /\ Spotless(Warns({"grafana_search"}))
        /\ Spotless(Check({"grafana_answer", "grafana_login"}, Unmended))
    BY <1>2, <2>1 DEF GrafanaReview, Spotless
  <2>3. /\ Sound({"dashboard_definitions"}, lacks) /\ Sound({"grafana_search"}, lacks)
        /\ Sound({"grafana_answer", "grafana_login"}, lacks)
    BY <2>2, CleanRules
  <2> QED
    BY <2>3 DEF Vouches, VouchesFor, Sound
<1> QED
  BY <1>1, <1>2 DEF Examined

LEMMA IncidentReviewed ==
    ASSUME NEW severity \in Grades PROVE Examined("incident", IncidentReview(severity))
<1>1. Graded(IncidentReview(severity))
  BY Grading, Severe DEF IncidentReview, Graded
<1>2. Spotless(IncidentReview(severity)) => Vouches("incident")
  BY CleanRules DEF IncidentReview, Vouches, VouchesFor, Sound
<1> QED
  BY <1>1, <1>2 DEF Examined

LEMMA RetentionReviewed ==
    ASSUME NEW severity \in Grades PROVE Examined("retention", RetentionReview(severity))
<1>1. Graded(RetentionReview(severity))
  BY Grading, Severe DEF RetentionReview, Graded
<1>2. Spotless(RetentionReview(severity)) => Vouches("retention")
  BY CleanRules DEF RetentionReview, Vouches, VouchesFor, Sound
<1> QED
  BY <1>1, <1>2 DEF Examined

LEMMA DeploymentReviewed == Examined("deployment", DeploymentReview)
<1>1. Graded(DeploymentReview)
  BY Grading, Severe DEF DeploymentReview, Graded
<1>2. Spotless(DeploymentReview) => Vouches("deployment")
  BY CleanRules DEF DeploymentReview, Vouches, VouchesFor, Sound
<1> QED
  BY <1>1, <1>2 DEF Examined

LEMMA SecretRuntimeReviewed == Examined("secret_runtime", SecretRuntimeReview)
<1>1. Graded(SecretRuntimeReview)
  BY Grading, Severe DEF SecretRuntimeReview, SecretProbe, Graded
<1>2. Spotless(SecretRuntimeReview) => Vouches("secret_runtime")
  BY CleanRules DEF SecretRuntimeReview, SecretProbe, Vouches, VouchesFor, Sound
<1> QED
  BY <1>1, <1>2 DEF Examined

LEMMA TenantOpsReviewed == Examined("tenant_ops", TenantOpsReview)
<1>1. Graded(TenantOpsReview)
  BY Grading, Severe DEF TenantOpsReview, Graded
<1>2. Spotless(TenantOpsReview) => Vouches("tenant_ops")
  BY CleanRules DEF TenantOpsReview, Vouches, VouchesFor, Sound
<1> QED
  BY <1>1, <1>2 DEF Examined

LEMMA CertificationReviewed == Examined("certification", CertificationReview)
<1>1. Graded(CertificationReview)
  BY Grading, Severe DEF CertificationReview, CertificationFiles, CertificationTerms, Graded
<1>2. Spotless(CertificationReview) => Vouches("certification")
  BY CleanRules DEF CertificationReview, CertificationFiles, CertificationTerms, Vouches, VouchesFor, Sound
<1> QED
  BY <1>1, <1>2 DEF Examined

LEMMA ExecutionReviewed ==
    /\ Examined("certification_execution", ExecutionReview)
    /\ "certification_configured" \in chosen \/ ~Spotless(ExecutionReview)
<1>1. CASE "certification_configured" \in chosen
  <2>1. Graded(ExecutionReview)
    BY <1>1, GradingHeed, Severe DEF ExecutionReview, Graded
  <2> QED
    BY <1>1, <2>1 DEF Examined, Vouches, VouchesFor
<1>2. CASE "certification_configured" \notin chosen
  <2> DEFINE severity == As("certification_groups", "blocker", "skipped")
  <2>1. ExecutionReview = Amiss("certification_configuration", TRUE, severity)
    BY <1>2 DEF ExecutionReview
  <2>2. severity \in Grades
    BY Grading, Severe
  <2> HIDE DEF severity
  <2> QED
    BY <2>1, <2>2, Amisses DEF Examined
<1> QED
  BY <1>1, <1>2

LEMMA SecretManagerReviewed == Examined("secret_manager", SecretManagerReview)
<1>1. Graded(SecretManagerReview)
  BY Grading, Severe DEF SecretManagerReview, SecretTemplates, SecretGuardrails, Graded
<1>2. Spotless(SecretManagerReview) => Vouches("secret_manager")
  BY CleanRules DEF SecretManagerReview, SecretTemplates, SecretGuardrails, Vouches, VouchesFor, Sound
<1> QED
  BY <1>1, <1>2 DEF Examined

LEMMA ReleaseCandidateReviewed == Examined("release_candidate", Blocks({"release_checks"}))
<1>1. Spotless(Blocks({"release_checks"})) => Vouches("release_candidate")
  BY CleanRules DEF Vouches, VouchesFor
<1> QED
  BY <1>1, Blocking DEF Examined

(* Steps that only others are told of. *)
LEMMA OthersReviewed ==
    /\ \A native : Examined("lifecycle_psp", PspReview(native))
    /\ Examined("e2e_readiness", E2eReadinessReview)
    /\ \A severity \in Grades : Examined("bundle_incident", IncidentReview(severity))
    /\ \A severity \in Grades : Examined("bundle_retention", RetentionReview(severity))
<1>1. /\ Vouches("lifecycle_psp") /\ Vouches("e2e_readiness")
      /\ Vouches("bundle_incident") /\ Vouches("bundle_retention")
  BY DEF Vouches, VouchesFor
<1>2. \A native : Graded(PspReview(native))
  BY PspReviewed DEF Examined
<1>3. \A severity \in Grades : Graded(IncidentReview(severity)) /\ Graded(RetentionReview(severity))
  BY IncidentReviewed, RetentionReviewed DEF Examined
<1>4. Graded(E2eReadinessReview)
  BY Blocking DEF E2eReadinessReview
<1> QED
  BY <1>1, <1>2, <1>3, <1>4 DEF Examined

LEMMA BundleMonitoringReviewed ==
    ASSUME NEW strict, Looking \subseteq chosen => Filed("tenant_rollout")
    PROVE  Examined("bundle_monitoring", MonitoringReview(strict))
<1>1. Graded(MonitoringReview(strict))
  BY MonitoringReviewed DEF Examined
<1>2. ASSUME Spotless(MonitoringReview(strict)), Looking \subseteq chosen
      PROVE  Vouches("bundle_monitoring")
  <2> DEFINE mended == IF strict THEN "blocker" ELSE "tolerated"
  <2>1. Spotless(Warns({"rollback_actions"})) /\ Spotless(Check({"rollback_plan"}, mended))
    BY <1>2 DEF MonitoringReview, Spotless
  <2> HIDE DEF mended
  <2>2. Sound({"rollback_actions"}, lacks) /\ Sound({"rollback_plan"}, lacks)
    BY <2>1, CleanRules
  <2> QED
    BY <2>2 DEF Vouches, VouchesFor, Sound
<1> QED
  BY <1>1, <1>2 DEF Examined

LEMMA BundleReviewed == Examined("operations_bundle", UNION {ClassifyStep(c) : c \in AskedOf})
<1> DEFINE R == UNION {ClassifyStep(c) : c \in AskedOf}
<1>1. \A k : k \in R <=> \E c \in AskedOf : k \in ClassifyStep(c)
  OBVIOUS
<1> HIDE DEF R
<1>2. \A c, k : k \in ClassifyStep(c) => k.severity \in Grades
  BY Grading, GradingHeed, Severe DEF ClassifyStep, Unforgiven
<1>3. Graded(R)
  BY <1>1, <1>2 DEF Graded
<1>4. ASSUME Spotless(R), Looking \subseteq chosen
      PROVE  Vouches("operations_bundle")
  <2>1. "tenant_checks" \in chosen /\ "grafana" \in chosen
    BY <1>4, LookingAll
  <2>2. BundleChecks \subseteq AskedOf
    BY <2>1 DEF BundleChecks, AskedOf, BundleSteps
  <2>3. \A c \in AskedOf : Spotless(ClassifyStep(c))
    BY <1>1, <1>4 DEF Spotless
  <2>4. \A c : Spotless(ClassifyStep(c)) => c \in DOMAIN filed
    BY CleanHeed DEF ClassifyStep
  <2> QED
    BY <2>2, <2>3, <2>4 DEF Vouches, VouchesFor, Within
<1> QED
  BY <1>3, <1>4 DEF Examined, R

LEMMA PartsFiled == \A c, required : Spotless(PartReview(c, required)) => c \in DOMAIN filed
BY CleanHeed DEF PartReview

LEMMA ProductionReviewed == Examined("production_ops", OperationsReview)
<1> DEFINE parts == {"operations_bundle", "monitoring", "incident", "load_matrix", "load",
                     "retention", "secret_manager", "deployment"}
           P == UNION {PartReview(c, TRUE) : c \in parts}
           severity == As("require_infrastructure", "blocker", "warning")
           runtime == PartReview("secret_runtime", "require_secret_runtime" \in chosen)
           tenants == PartReview("tenant_ops", "require_tenant_ops" \in chosen)
           tools == PartReview("ops_tool", FALSE)
<1>1. \A k : k \in P <=> \E c \in parts : k \in PartReview(c, TRUE)
  OBVIOUS
<1>2. severity \in Grades
  BY Grading, Severe
<1>3. OperationsReview = P \cup runtime \cup tenants \cup Check({"infrastructure_evidence"}, severity)
                         \cup tools \cup ToolRows
  BY DEF OperationsReview
<1> HIDE DEF P, severity, runtime, tenants, tools
<1>4. \A c, required, k : k \in PartReview(c, required) => k.severity \in Grades
  <2> TAKE c, required
  <2> DEFINE worst == IF required THEN "blocker" ELSE "warning"
  <2>1. worst \in Grades
    BY Severe
  <2>2. PartReview(c, required) = Heed(c, [missing |-> worst, failed |-> "blocker", warning |-> "warning"])
    BY DEF PartReview
  <2> HIDE DEF worst
  <2> QED
    BY <2>1, <2>2, GradingHeed, Severe
<1>5. \A k \in ToolRows : k.severity \in Grades
  BY Severe DEF ToolRows, Amiss
<1>6. Graded(OperationsReview)
  <2>1. Graded(P)
    BY <1>1, <1>4 DEF Graded
  <2>2. Graded(runtime) /\ Graded(tenants) /\ Graded(tools)
    BY <1>4, Zenon DEF Graded, runtime, tenants, tools
  <2>3. Graded(Check({"infrastructure_evidence"}, severity)) /\ Graded(ToolRows)
    BY <1>2, <1>5, Checks DEF Graded
  <2> QED
    BY <1>3, <2>1, <2>2, <2>3, Unions
<1>7. ASSUME Spotless(OperationsReview)
      PROVE  Vouches("production_ops")
  <2>1. \A c \in parts : Spotless(PartReview(c, TRUE))
    BY <1>1, <1>3, <1>7 DEF Spotless
  <2>2. /\ Spotless(runtime) /\ Spotless(tenants) /\ Spotless(tools)
        /\ Spotless(Check({"infrastructure_evidence"}, severity))
    BY <1>3, <1>7 DEF Spotless
  <2>3. /\ \A c \in parts : c \in DOMAIN filed
        /\ {"secret_runtime", "tenant_ops", "ops_tool"} \subseteq DOMAIN filed
    <3>1. "secret_runtime" \in DOMAIN filed /\ "tenant_ops" \in DOMAIN filed /\ "ops_tool" \in DOMAIN filed
      BY <2>2, PartsFiled, Zenon DEF runtime, tenants, tools
    <3> QED
      BY <2>1, <3>1, PartsFiled
  <2>4. Sound({"infrastructure_evidence"}, lacks)
    BY <2>2, CleanRules
  <2> QED
    BY <2>3, <2>4 DEF Vouches, VouchesFor, Within
<1> QED
  BY <1>6, <1>7 DEF Examined

(* The matrix of certifications has an optional row at most where none is configured. *)
LEMMA CertificationMatrixTells ==
    LET checks == MatrixCategory \cup MatrixProviders
                  \cup Amiss("certification_execution", ~Filed("certification_execution"), "blocker")
    IN  \A r \in {Judged(checks), Unwarned(Judged(checks))} : Shaped(r) /\ Reveals("certification_matrix", r)
<1> DEFINE unfiled == ~Filed("certification_execution")
           executed == Filed("certification_execution") /\ "certification_configured" \in chosen
           L == Amiss("certification_execution", unfiled, "blocker")
           checks == MatrixCategory \cup MatrixProviders \cup L
<1> SUFFICES ASSUME NEW r \in {Judged(checks), Unwarned(Judged(checks))}
             PROVE  Shaped(r) /\ Reveals("certification_matrix", r)
  OBVIOUS
<1>1. Graded(MatrixProviders) /\ Graded(L)
  <2>1. Graded(MatrixProviders)
    BY GradingHeed, Grading, Severe DEF MatrixProviders, Graded
  <2> HIDE DEF unfiled
  <2> QED
    BY <2>1, Amisses, Severe
<1>2. \A k \in MatrixCategory : k.severity \in Severities /\ (executed => k.severity \in Grades)
  <2>1. CASE "certification_groups" \in chosen
    <3>1. \A k \in MatrixCategory : k.severity = "blocker"
      BY <2>1, GradingHeed, Grading DEF MatrixCategory
    <3> QED
      BY <3>1 DEF Grades, Severities
  <2>2. CASE "certification_groups" \notin chosen
    <3> DEFINE severity == IF executed THEN "warning" ELSE "optional"
    <3>1. MatrixCategory = Heed("certification", [missing |-> severity, failed |-> "blocker"])
      BY <2>2 DEF MatrixCategory
    <3>2. severity \in Severities /\ (executed => severity \in Grades)
      BY DEF Grades, Severities
    <3>3. "blocker" \in Severities /\ "blocker" \in Grades
      BY DEF Grades, Severities
    <3> HIDE DEF severity, executed
    <3> QED
      BY <3>1, <3>2, <3>3, GradingHeed
  <2> QED
    BY <2>1, <2>2
<1>3. \A k \in checks : k.severity \in Severities /\ (executed => k.severity \in Grades)
  BY <1>1, <1>2 DEF Graded, Grades
<1>4. unfiled => \E k \in checks : k.found /\ k.severity \in Grades
  <2> HIDE DEF unfiled
  <2>1. unfiled => ~Spotless(L)
    BY CleanRules
  <2>2. unfiled => \E k \in L : k.found
    BY <2>1 DEF Spotless
  <2> HIDE DEF L
  <2> QED
    BY <1>1, <2>2 DEF Graded
<1>5. ASSUME Spotless(checks), Looking \subseteq chosen
      PROVE  Vouches("certification_matrix")
  <2>1. {"matrix_requires_providers", "certification_groups", "certification_configured"} \subseteq chosen
    BY <1>5, LookingAll
  <2>2. Spotless(MatrixCategory) /\ Spotless(MatrixProviders) /\ Spotless(L)
    BY <1>5 DEF Spotless
  <2>3. Filed("certification_execution")
    <3> HIDE DEF unfiled
    <3>1. ~unfiled
      BY <2>2, CleanRules
    <3> QED
      BY <3>1 DEF unfiled
  <2>4. Spotless(Heed("certification", [missing |-> "blocker", failed |-> "blocker"]))
    BY <2>1, <2>2 DEF MatrixCategory, Spotless
  <2> DEFINE worn == As("matrix_fails_on_warning", "blocker", "warning")
  <2>5. MatrixProviders = Heed("provider_readiness", [missing |-> "blocker", failed |-> "blocker", warning |-> worn])
    BY <2>1 DEF MatrixProviders
  <2> HIDE DEF worn
  <2>6. "certification" \in DOMAIN filed /\ "provider_readiness" \in DOMAIN filed
    BY <2>2, <2>4, <2>5, CleanHeed
  <2> QED
    BY <2>3, <2>6 DEF Vouches, VouchesFor, Within, Filed
<1>6. ~unfiled /\ ~executed => Unconfigured
  BY DEF Unconfigured
<1> HIDE DEF checks, unfiled, executed
<1>7. /\ Shaped(r) /\ (r.found = {} <=> Spotless(checks))
      /\ (\E k \in checks : k.found /\ k.severity \in Grades) => r.rows \cap Telling # {}
  BY <1>3, UnwarnedRows
<1>8. r.found # {} => r.rows \cap Telling # {} \/ Unconfigured
  <2>1. executed /\ ~Spotless(checks) => \E k \in checks : k.found /\ k.severity \in Grades
    BY <1>3 DEF Spotless
  <2> QED
    BY <1>4, <1>6, <1>7, <2>1
<1> QED
  BY <1>5, <1>7, <1>8 DEF Reveals

(* The table of the browser tests tells of every step that it has not passed. *)
LEMMA BrowserTells == Shaped(BrowserReport) /\ Reveals("browser", BrowserReport)
<1> DEFINE steps  == DOMAIN StepOption
           unseen == "seed" \in chosen /\ ~Filed("e2e_seed")
           more   == IF unseen THEN {"warning"} ELSE {}
<1>1. steps = {"e2e_seed", "e2e_profile", "e2e", "browser_matrix", "e2e_execution"}
  BY DEF StepOption
<1>2. \A c : RowOfStep(c) \in {"skipped", "failed", "passed"}
  BY DEF RowOfStep
<1>3. /\ BrowserReport.rows = ({RowOfStep(c) : c \in steps} \cup more) \ {"passed"}
      /\ BrowserReport.found = {c \in steps : RowOfStep(c) # "passed"}
      /\ BrowserReport.decision \in {"passed", "warning", "failed"}
  BY DEF BrowserReport
<1>4. more \subseteq {"warning"}
  OBVIOUS
<1>5. ASSUME \A c \in steps : RowOfStep(c) = "passed", Looking \subseteq chosen
      PROVE  Vouches("browser")
  <2>1. \A c \in steps : StepOption[c] \in chosen
    BY <1>1, <1>5, LookingAll DEF StepOption
  <2>2. \A c \in steps : Says(c) # "missing"
    BY <1>5, <2>1 DEF RowOfStep
  <2>3. \A c \in steps : c \in DOMAIN filed
    BY <2>2, Saying
  <2> QED
    BY <1>1, <2>3 DEF Vouches, VouchesFor, Within
<1> HIDE DEF steps, more
<1>6. Shaped(BrowserReport)
  <2>1. {"failed", "warning", "skipped"} \subseteq {RowOf[s] : s \in Severities}
    BY DEF RowOf, Severities
  <2> QED
    BY <1>2, <1>3, <1>4, <2>1 DEF Shaped
<1>7. BrowserReport.found # {} => BrowserReport.rows \cap Telling # {}
  BY <1>2, <1>3 DEF Telling
<1>8. BrowserReport.found = {} => \A c \in steps : RowOfStep(c) = "passed"
  BY <1>3
<1> QED
  BY <1>5, <1>6, <1>7, <1>8 DEF Reveals

-----------------------------------------------------------------------------
(* The steps. *)
LEMMA ExportIfKeeps ==
    ASSUME ReviewInv, NEW asked \in BOOLEAN, NEW c, NEW checks, Examined(c, checks), c \notin Halting,
           c # "certification_execution", ExportIf(asked, c, Judged(checks)),
           Looking \subseteq chosen /\ ~asked => c = "bundle_monitoring"
    PROVE  ReviewInv'
<1>1. CASE asked
  <2>1. Export(c, Judged(checks))
    BY <1>1, Zenon DEF ExportIf
  <2> QED
    BY <2>1, ReviewKeeps
<1>2. CASE ~asked
  <2>1. PassOver(c)
    BY <1>2, Zenon DEF ExportIf
  <2> QED
    BY <1>2, <2>1, PassOverKeeps
<1> QED
  BY <1>1, <1>2

LEMMA Unwarning == \A o, r : UnwarnedIf(o, r) \in {r, Unwarned(r)}
BY DEF UnwarnedIf

LEMMA ProvidersKeep ==
    ASSUME ReviewInv, ReviewProviders
    PROVE  ReviewInv'
<1>1. CASE WriteHandoff
  BY <1>1, HandoffReviewed, ReviewKeeps DEF WriteHandoff
<1>2. CASE WriteFirstRun
  BY <1>2, FirstRunReviewed, ReviewKeeps DEF WriteFirstRun
<1>3. CASE WritePreflight
  BY <1>3, PreflightReviewed, ReviewKeeps DEF WritePreflight
<1>4. CASE WriteBootstrap
  <2> DEFINE fault == As("strict_bootstrap", "blocker", "warning")
  <2>1. fault \in {"blocker", "warning"} /\ Export("bootstrap", Judged(BootstrapReview(fault)))
    BY <1>4, Grading DEF WriteBootstrap
  <2> HIDE DEF fault
  <2> QED
    BY <2>1, BootstrapReviewed, ReviewKeeps
<1>5. CASE WriteServiceChecks
  BY <1>5, ServiceReviewed, ReviewKeeps DEF WriteServiceChecks
<1>6. CASE WritePsp
  <2> DEFINE native == "require_psp" \in chosen
  <2>1. Export("psp", Judged(PspReview(native)))
    BY <1>6, Zenon DEF WritePsp
  <2> HIDE DEF native
  <2> QED
    BY <2>1, PspReviewed, ReviewKeeps
<1>7. CASE WriteFbr
  <2> DEFINE asked == "fbr" \in chosen
  <2>1. asked \in BOOLEAN
    OBVIOUS
  <2>2. ExportIf(asked, "fbr", Judged(FbrReview))
    BY <1>7, Zenon DEF WriteFbr
  <2>3. Looking \subseteq chosen => asked
    BY LookingAll
  <2> HIDE DEF asked
  <2> QED
    BY <2>1, <2>2, <2>3, FbrReviewed, ExportIfKeeps DEF Halting
<1>8. CASE WriteProviderReadiness
  BY <1>8, ProviderReviewed, ReviewKeeps DEF WriteProviderReadiness
<1>9. CASE WriteLifecyclePsp
  <2> DEFINE native == {"native_signatures", "provider_certification"} \cap chosen # {}
  <2>1. Export("lifecycle_psp", Judged(PspReview(native)))
    BY <1>9, Zenon DEF WriteLifecyclePsp
  <2> HIDE DEF native
  <2> QED
    BY <2>1, OthersReviewed, ReviewKeeps
<1>10. CASE WritePaymentLifecycle
  BY <1>10, LifecycleReviewed, ReviewKeeps, Unwarning DEF WritePaymentLifecycle
<1>11. CASE WriteReleaseCandidate
  BY <1>11, ReleaseCandidateReviewed, ReviewKeeps DEF WriteReleaseCandidate
<1> QED
  BY <1>1, <1>2, <1>3, <1>4, <1>5, <1>6, <1>7, <1>8, <1>9, <1>10, <1>11 DEF ReviewProviders

LEMMA BrowsersKeep ==
    ASSUME ReviewInv, ReviewBrowsers
    PROVE  ReviewInv'
<1>1. CASE WriteSeed
  <2> DEFINE asked == "seed" \in chosen
  <2>1. asked \in BOOLEAN
    OBVIOUS
  <2>2. ExportIf(asked, "e2e_seed", Judged(SeedReview))
    BY <1>1, Zenon DEF WriteSeed
  <2>3. Looking \subseteq chosen => asked
    BY LookingAll
  <2> HIDE DEF asked
  <2> QED
    BY <2>1, <2>2, <2>3, SeedReviewed, ExportIfKeeps DEF Halting
<1>2. CASE WriteProfile
  <2> DEFINE asked == "profile" \in chosen
  <2>1. asked \in BOOLEAN
    OBVIOUS
  <2>2. ExportIf(asked, "e2e_profile", Judged(ProfileReview))
    BY <1>2, Zenon DEF WriteProfile
  <2>3. Looking \subseteq chosen => asked
    BY LookingAll
  <2> HIDE DEF asked
  <2> QED
    BY <2>1, <2>2, <2>3, ProfileReviewed, ExportIfKeeps DEF Halting
<1>3. CASE WriteE2eReadiness
  <2> DEFINE asked == "browser_tests" \in chosen
  <2>1. asked \in BOOLEAN
    OBVIOUS
  <2>2. ExportIf(asked, "e2e_readiness", Judged(E2eReadinessReview))
    BY <1>3, Zenon DEF WriteE2eReadiness
  <2>3. Looking \subseteq chosen => asked
    BY LookingAll
  <2> HIDE DEF asked
  <2> QED
    BY <2>1, <2>2, <2>3, OthersReviewed, ExportIfKeeps DEF Halting
<1>4. CASE WriteE2e
  <2> DEFINE asked == "browser_tests" \in chosen
  <2>1. asked \in BOOLEAN
    OBVIOUS
  <2>2. ExportIf(asked, "e2e", Judged(E2eReview))
    BY <1>4, Zenon DEF WriteE2e
  <2>3. Looking \subseteq chosen => asked
    BY LookingAll
  <2> HIDE DEF asked
  <2> QED
    BY <2>1, <2>2, <2>3, E2eReviewed, ExportIfKeeps DEF Halting
<1>5. CASE WriteBrowserMatrix
  <2> DEFINE asked == "browser_matrix" \in chosen
  <2>1. asked \in BOOLEAN
    OBVIOUS
  <2>2. ExportIf(asked, "browser_matrix", Judged(MatrixReview))
    BY <1>5, Zenon DEF WriteBrowserMatrix
  <2>3. Looking \subseteq chosen => asked
    BY LookingAll
  <2> HIDE DEF asked
  <2> QED
    BY <2>1, <2>2, <2>3, MatrixReviewed, ExportIfKeeps DEF Halting
<1>6. CASE WriteE2eExecution
  <2> DEFINE asked == "execution_evidence" \in chosen
  <2>1. asked \in BOOLEAN
    OBVIOUS
  <2>2. ExportIf(asked, "e2e_execution", Judged(E2eExecutionReview))
    BY <1>6, Zenon DEF WriteE2eExecution
  <2>3. Looking \subseteq chosen => asked
    BY LookingAll
  <2> HIDE DEF asked
  <2> QED
    BY <2>1, <2>2, <2>3, E2eExecutionReviewed, ExportIfKeeps DEF Halting
<1>7. CASE WriteBrowser
  BY <1>7, BrowserTells, ExportKeeps DEF WriteBrowser
<1> QED
  BY <1>1, <1>2, <1>3, <1>4, <1>5, <1>6, <1>7 DEF ReviewBrowsers

LEMMA OperationsKeep ==
    ASSUME ReviewInv, ReviewOperations
    PROVE  ReviewInv'
<1>1. Unforgiven \in Grades
  BY Grading, Severe DEF Unforgiven
<1>2. CASE WriteOpsTool
  BY <1>2, ToolsReviewed, ReviewKeeps DEF WriteOpsTool
<1>3. CASE WriteLoadMatrix
  BY <1>3, LoadMatrixReviewed, ReviewKeeps DEF WriteLoadMatrix
<1>4. CASE WriteLoad
  BY <1>4, LoadReviewed, ReviewKeeps DEF WriteLoad
<1>5. CASE WriteSmoke
  BY <1>5, SmokeReviewed, ReviewKeeps DEF WriteSmoke
<1>6. CASE WriteTenantRollout
  <2> DEFINE asked == "tenant_checks" \in chosen
  <2>1. asked \in BOOLEAN
    OBVIOUS
  <2>2. ExportIf(asked, "tenant_rollout", Judged(RolloutReview \cup RolloutActions))
    BY <1>6, Zenon DEF WriteTenantRollout
  <2>3. Looking \subseteq chosen => asked
    BY LookingAll
  <2> HIDE DEF asked
  <2> QED
    BY <2>1, <2>2, <2>3, RolloutReviewed, ExportIfKeeps DEF Halting
<1>7. CASE WriteTenantSmoke
  <2> DEFINE asked == "tenant_checks" \in chosen
  <2>1. asked \in BOOLEAN
    OBVIOUS
  <2>2. ExportIf(asked, "tenant_smoke", Judged(TenantSmokeReview \cup TenantAnswers))
    BY <1>7, Zenon DEF WriteTenantSmoke
  <2>3. Looking \subseteq chosen => asked
    BY LookingAll
  <2> HIDE DEF asked
  <2> QED
    BY <2>1, <2>2, <2>3, TenantSmokeReviewed, ExportIfKeeps DEF Halting
<1>8. CASE WriteBundleMonitoring
  <2> DEFINE named == {"smoke"} \cup (IF "tenant_checks" \in chosen THEN {"tenant_rollout", "tenant_smoke"} ELSE {})
             strict == "strict_bundle" \in chosen
  <2>1. ExportIf(\A c \in named : Filed(c), "bundle_monitoring", Judged(MonitoringReview(strict)))
    BY <1>8, Zenon DEF WriteBundleMonitoring
  <2> HIDE DEF strict
  <2>2. CASE \A c \in named : Filed(c)
    <3>1. Looking \subseteq chosen => Filed("tenant_rollout")
      BY <2>2, LookingAll
    <3>2. Examined("bundle_monitoring", MonitoringReview(strict))
      BY <3>1, BundleMonitoringReviewed
    <3>3. Export("bundle_monitoring", Judged(MonitoringReview(strict)))
      BY <2>1, <2>2, Zenon DEF ExportIf
    <3> QED
      BY <3>2, <3>3, ReviewKeeps
  <2>3. CASE ~\A c \in named : Filed(c)
    <3>1. PassOver("bundle_monitoring")
      BY <2>1, <2>3, Zenon DEF ExportIf
    <3> QED
      BY <3>1, PassOverKeeps DEF Halting
  <2> QED
    BY <2>2, <2>3
<1>9. CASE WriteGrafana
  <2> DEFINE asked == "grafana" \in chosen
  <2>1. asked \in BOOLEAN
    OBVIOUS
  <2>2. ExportIf(asked, "grafana", Judged(GrafanaReview))
    BY <1>9, Zenon DEF WriteGrafana
  <2>3. Looking \subseteq chosen => asked
    BY LookingAll
  <2> HIDE DEF asked
  <2> QED
    BY <2>1, <2>2, <2>3, GrafanaReviewed, ExportIfKeeps DEF Halting
<1>10. CASE WriteBundleIncident
  BY <1>10, <1>1, OthersReviewed, ReviewKeeps DEF WriteBundleIncident
<1>11. CASE WriteBundleRetention
  BY <1>11, <1>1, OthersReviewed, ReviewKeeps DEF WriteBundleRetention
<1>12. CASE WriteOperationsBundle
  BY <1>12, BundleReviewed, ReviewKeeps, Unwarning DEF WriteOperationsBundle
<1>13. CASE WriteIncident
  BY <1>13, IncidentReviewed, Severe, ReviewKeeps DEF WriteIncident
<1>14. CASE WriteDeployment
  BY <1>14, DeploymentReviewed, ReviewKeeps DEF WriteDeployment
<1>15. CASE WriteSecretRuntime
  BY <1>15, SecretRuntimeReviewed, ReviewKeeps DEF WriteSecretRuntime
<1>16. CASE WriteTenantOps
  BY <1>16, TenantOpsReviewed, ReviewKeeps DEF WriteTenantOps
<1>17. CASE WriteMonitoring
  <2> DEFINE strict == "non-strict_monitoring" \notin chosen
  <2>1. Export("monitoring", Judged(MonitoringReview(strict)))
    BY <1>17, Zenon DEF WriteMonitoring
  <2> HIDE DEF strict
  <2> QED
    BY <2>1, MonitoringReviewed, ReviewKeeps
<1>18. CASE WriteCertification
  <2> DEFINE asked == "certification_configured" \in chosen
  <2>1. asked \in BOOLEAN
    OBVIOUS
  <2>2. ExportIf(asked, "certification", Judged(CertificationReview))
    BY <1>18, Zenon DEF WriteCertification
  <2>3. Looking \subseteq chosen => asked
    BY LookingAll
  <2> HIDE DEF asked
  <2> QED
    BY <2>1, <2>2, <2>3, CertificationReviewed, ExportIfKeeps DEF Halting
<1>19. CASE WriteCertificationExecution
  BY <1>19, ExecutionReviewed, ReviewKeeps DEF WriteCertificationExecution
<1>20. CASE WriteCertificationMatrix
  BY <1>20, CertificationMatrixTells, ExportKeeps, Unwarning DEF WriteCertificationMatrix
<1>21. CASE WriteFinalRetention
  BY <1>21, RetentionReviewed, Severe, ReviewKeeps DEF WriteFinalRetention
<1>22. CASE WriteSecretManager
  BY <1>22, SecretManagerReviewed, ReviewKeeps DEF WriteSecretManager
<1>23. CASE WriteProductionOps
  <2>1. PICK r \in {Judged(OperationsReview), Unwarned(Judged(OperationsReview))} : Export("production_ops", r)
    BY <1>23 DEF WriteProductionOps
  <2> QED
    BY <2>1, ProductionReviewed, ReviewKeeps
<1> QED
  BY <1>2, <1>3, <1>4, <1>5, <1>6, <1>7, <1>8, <1>9, <1>10, <1>11, <1>12, <1>13,
     <1>14, <1>15, <1>16, <1>17, <1>18, <1>19, <1>20, <1>21, <1>22, <1>23 DEF ReviewOperations

LEMMA ReviewStutters ==
    ASSUME ReviewInv, UNCHANGED reviewVars
    PROVE  ReviewInv'
<1>1. ReviewTyped /\ AllFiled /\ Traced
  BY DEF ReviewInv
<1>2. UNCHANGED <<lacks, chosen, filed, turn, gone, readiness>>
  BY DEF reviewVars
<1>3. Past' = Past
  BY <1>2 DEF Past
<1>4. ReviewTyped'
  BY <1>1, <1>2, <1>3, PackedStays DEF ReviewTyped
<1>5. AllFiled'
  BY <1>1, <1>2, TellsStill DEF AllFiled, Shaped
<1>6. Traced'
  BY <1>1, <1>2, <1>3, PackedStays DEF Traced, Went
<1> QED
  BY <1>2, <1>4, <1>5, <1>6 DEF ReviewInv, ReadyMeans

LEMMA ReviewSteps == ReviewInv /\ [ReviewNext]_reviewVars => ReviewInv'
BY ProvidersKeep, BrowsersKeep, OperationsKeep, EndKeeps, PackKeeps, ReviewStutters DEF ReviewNext

(* The invariant of the review: what was written was written in its turn, what a  *)
(* report found its rows tell, and a report that found nothing vouches for what   *)
(* its exporter looked at and for the reports that it read.                       *)
THEOREM ReviewInvariant == ReviewSpec => []ReviewInv
BY ReviewStarts, ReviewSteps, PTL DEF ReviewSpec

LEMMA ReviewInvTypes == ReviewInv => ReviewTypeOK
<1> SUFFICES ASSUME ReviewInv
             PROVE  ReviewTypeOK
  OBVIOUS
<1>1. ReviewTyped /\ AllFiled /\ chosen \subseteq AllOptions /\ readiness \in {"", "ready", "warning", "blocked"}
  BY DEF ReviewInv
<1>2. ReviewTyped /\ Len(AllSteps) = 40
  BY <1>1, StepsAre
<1>3. lacks \subseteq Items /\ turn \in 1 .. Len(AllSteps) + 2 /\ gone \cap DOMAIN filed = {}
  BY <1>2 DEF ReviewTyped
<1>4. readiness # "" => turn > Len(AllSteps) + 1
  <2>1. Packed => turn > Len(AllSteps) + 1
    BY <1>2 DEF ReviewTyped
  <2> QED
    BY <2>1, Zenon DEF Packed
<1>5. gone \cup DOMAIN filed \subseteq {AllSteps[i] : i \in {i \in DOMAIN AllSteps : i < turn}}
  <2>1. \A c \in Past : Place[c] \in DOMAIN AllSteps /\ Place[c] < turn /\ AllSteps[Place[c]] = c
    BY StepSet, StepsAre DEF Past
  <2> QED
    BY <1>1, <2>1 DEF ReviewTyped
<1>6. \A c \in DOMAIN filed : /\ filed[c].decision \in {"passed", "warning", "failed"}
                              /\ filed[c].rows \subseteq {RowOf[s] : s \in Severities}
  BY <1>1 DEF AllFiled, Shaped
<1> QED
  BY <1>1, <1>3, <1>4, <1>5, <1>6 DEF ReviewTypeOK

(* Reports, options and decisions stay in their domains, and every report is one  *)
(* of a step whose turn has come.                                                *)
THEOREM ReviewTypes == ReviewSpec => []ReviewTypeOK
BY ReviewInvTypes, ReviewInvariant, PTL

-----------------------------------------------------------------------------
(* The reports that are read by the package alone vouch for all the others.      *)
LEMMA AllVouched ==
    ASSUME \A c \in DOMAIN filed : Vouches(c), Unread \subseteq DOMAIN filed, "release_candidate" \in DOMAIN filed
    PROVE  DOMAIN Place \subseteq DOMAIN filed
<1>1. \A c \in DOMAIN filed : VouchesFor(c, lacks, chosen, DOMAIN filed)
  BY DEF Vouches
<1>2. {"handoff", "first_run", "service_checks", "bootstrap", "payment_lifecycle", "browser",
       "certification_matrix", "production_ops", "release_candidate"} \subseteq DOMAIN filed
  BY DEF Unread
<1>3. "preflight" \in DOMAIN filed /\ "lifecycle_psp" \in DOMAIN filed
  BY <1>1, <1>2 DEF VouchesFor, Within
<1>4. Within({"e2e_seed", "e2e_profile", "e2e", "browser_matrix", "e2e_execution"}, DOMAIN filed)
  BY <1>1, <1>2 DEF VouchesFor
<1>5. Within({"provider_readiness", "certification", "certification_execution"}, DOMAIN filed)
  BY <1>1, <1>2 DEF VouchesFor
<1>6. Within({"operations_bundle", "monitoring", "incident", "load_matrix", "load", "retention", "secret_manager",
              "deployment", "secret_runtime", "tenant_ops", "ops_tool"}, DOMAIN filed)
  BY <1>1, <1>2 DEF VouchesFor
<1>7. "e2e_readiness" \in DOMAIN filed
  <2>1. "e2e" \in DOMAIN filed
    BY <1>4 DEF Within
  <2> QED
    BY <2>1, <1>1 DEF VouchesFor, Within
<1>8. "psp" \in DOMAIN filed /\ "fbr" \in DOMAIN filed
  <2>1. "provider_readiness" \in DOMAIN filed
    BY <1>5 DEF Within
  <2> QED
    BY <2>1, <1>1 DEF VouchesFor, Within
<1>9. BundleChecks \subseteq DOMAIN filed
  <2>1. "operations_bundle" \in DOMAIN filed
    BY <1>6 DEF Within
  <2> QED
    BY <2>1, <1>1 DEF VouchesFor, Within
<1> QED
  BY <1>2, <1>3, <1>4, <1>5, <1>6, <1>7, <1>8, <1>9 DEF Within, BundleChecks, Place

(* Where every report is written and vouches, no item is lacking. *)
LEMMA NothingLacks ==
    ASSUME \A c \in DOMAIN filed : Vouches(c), DOMAIN Place \subseteq DOMAIN filed, lacks \subseteq Items
    PROVE  lacks \subseteq As("warning_exception", {}, {"exception_approval"})
<1>1. \A c \in DOMAIN Place : VouchesFor(c, lacks, chosen, DOMAIN filed)
  BY DEF Vouches
<1>2. ProviderItems \cap lacks \subseteq As("warning_exception", {}, {"exception_approval"})
  <2>1. VouchesFor("handoff", lacks, chosen, DOMAIN filed) /\ VouchesFor("first_run", lacks, chosen, DOMAIN filed)
        /\ VouchesFor("preflight", lacks, chosen, DOMAIN filed) /\ VouchesFor("bootstrap", lacks, chosen, DOMAIN filed)
        /\ VouchesFor("service_checks", lacks, chosen, DOMAIN filed) /\ VouchesFor("psp", lacks, chosen, DOMAIN filed)
        /\ VouchesFor("fbr", lacks, chosen, DOMAIN filed)
        /\ VouchesFor("payment_lifecycle", lacks, chosen, DOMAIN filed)
        /\ VouchesFor("release_candidate", lacks, chosen, DOMAIN filed)
    BY <1>1 DEF Place
  <2> QED
    BY <2>1 DEF VouchesFor, Sound, As, ProviderItems
<1>3. BrowserItems \cap lacks = {}
  <2>1. VouchesFor("e2e_seed", lacks, chosen, DOMAIN filed) /\ VouchesFor("e2e_profile", lacks, chosen, DOMAIN filed)
        /\ VouchesFor("e2e", lacks, chosen, DOMAIN filed) /\ VouchesFor("browser_matrix", lacks, chosen, DOMAIN filed)
        /\ VouchesFor("e2e_execution", lacks, chosen, DOMAIN filed)
    BY <1>1 DEF Place
  <2> QED
    BY <2>1 DEF VouchesFor, Sound, BrowserItems
<1>4. OperationItems \cap lacks = {}
  <2>1. VouchesFor("ops_tool", lacks, chosen, DOMAIN filed) /\ VouchesFor("load_matrix", lacks, chosen, DOMAIN filed)
        /\ VouchesFor("load", lacks, chosen, DOMAIN filed) /\ VouchesFor("smoke", lacks, chosen, DOMAIN filed)
        /\ VouchesFor("tenant_rollout", lacks, chosen, DOMAIN filed)
        /\ VouchesFor("tenant_smoke", lacks, chosen, DOMAIN filed)
        /\ VouchesFor("bundle_monitoring", lacks, chosen, DOMAIN filed)
        /\ VouchesFor("grafana", lacks, chosen, DOMAIN filed)
    BY <1>1 DEF Place
  <2>2. VouchesFor("incident", lacks, chosen, DOMAIN filed) /\ VouchesFor("deployment", lacks, chosen, DOMAIN filed)
        /\ VouchesFor("secret_runtime", lacks, chosen, DOMAIN filed)
        /\ VouchesFor("tenant_ops", lacks, chosen, DOMAIN filed) /\ VouchesFor("monitoring", lacks, chosen, DOMAIN filed)
        /\ VouchesFor("certification", lacks, chosen, DOMAIN filed)
        /\ VouchesFor("retention", lacks, chosen, DOMAIN filed)
        /\ VouchesFor("secret_manager", lacks, chosen, DOMAIN filed)
        /\ VouchesFor("production_ops", lacks, chosen, DOMAIN filed)
    BY <1>1 DEF Place
  <2> QED
    BY <2>1, <2>2 DEF VouchesFor, Sound, OperationItems
<1> QED
  BY <1>2, <1>3, <1>4 DEF Items

(* A run is called ready only if no exporter that looked found anything amiss; and *)
(* told to look at everything, only if nothing was amiss and nothing was lost, but *)
(* for the reports that the package alone reads.                                  *)
THEOREM SignoffIsEarned == ReviewSpec => []SignoffEarned
<1>1. ReviewInv => SignoffEarned
  <2> SUFFICES ASSUME ReviewInv, readiness = "ready"
               PROVE  /\ \A c \in DOMAIN filed : filed[c].found = {}
                      /\ Looking \subseteq chosen =>
                            \/ gone \cap Unread # {}
                            \/ gone = {} /\ lacks \subseteq As("warning_exception", {}, {"exception_approval"})
    BY DEF SignoffEarned
  <2>0. ReviewTyped /\ AllFiled /\ Traced /\ ReadyMeans
    BY DEF ReviewInv
  <2>1. Packed
    BY DEF Packed
  <2>2. Past = DOMAIN Place
    <3>1. turn = 42
      BY <2>0, <2>1 DEF ReviewTyped
    <3>2. \A c \in DOMAIN Place : Place[c] \in 1 .. 40
      BY StepSet
    <3> QED
      BY <3>1, <3>2 DEF Past
  <2>3. \A c \in DOMAIN filed : filed[c].rows \cap Telling = {} /\ Reveals(c, filed[c])
    BY <2>0 DEF ReadyMeans, AllFiled
  <2>4. ~Unconfigured
    BY <2>3 DEF Unconfigured, Filed, Reveals
  <2>5. \A c \in DOMAIN filed : filed[c].found = {}
    BY <2>3, <2>4 DEF Reveals
  <2>6. ASSUME Looking \subseteq chosen, gone \cap Unread = {}
        PROVE  gone = {} /\ lacks \subseteq As("warning_exception", {}, {"exception_approval"})
    <3>1. \A c \in DOMAIN filed : Vouches(c)
      BY <2>3, <2>5, <2>6 DEF Reveals
    <3>2. /\ DOMAIN Place \cap Halting \subseteq DOMAIN filed
          /\ DOMAIN Place \subseteq gone \cup DOMAIN filed \cup {"bundle_monitoring"}
      BY <2>0, <2>1, <2>2, <2>6 DEF Traced, Went
    <3>3. Unread \subseteq DOMAIN Place \ {"bundle_monitoring"} /\ "release_candidate" \in DOMAIN Place \cap Halting
      BY DEF Unread, Place, Halting
    <3>4. Unread \subseteq DOMAIN filed /\ "release_candidate" \in DOMAIN filed
      BY <2>6, <3>2, <3>3
    <3>5. DOMAIN Place \subseteq DOMAIN filed
      BY <3>1, <3>4, AllVouched
    <3>6. gone = {} /\ lacks \subseteq Items
      BY <2>0, <2>2, <3>5 DEF ReviewTyped
    <3> QED
      BY <3>1, <3>5, <3>6, NothingLacks
  <2> QED
    BY <2>5, <2>6
<1> QED
  BY <1>1, ReviewInvariant, PTL

-----------------------------------------------------------------------------
(* A protected release as it runs: each behaviour is of the gate, the chain, the *)
(* evidence of offline selling or the review, and leaves the others as they were. *)
PartsInv ==
    /\ TypeOK /\ ChainTypeOK /\ OfflineTypeOK /\ ReviewTypeOK
    /\ focus = "gate" => ReleaseInv
    /\ focus = "chain" => ChainInv
    /\ focus = "offline" => OfflineInv
    /\ focus = "review" => ReviewInv

LEMMA ReleaseInvTypes == ReleaseInv => TypeOK
BY DEF ReleaseInv, Formed

LEMMA OfflineInvTypes == OfflineInv => OfflineTypeOK
BY DEF OfflineInv

(* A part that no behaviour is about has its types. *)
LEMMA IdleParts ==
    /\ Untouched => TypeOK
    /\ Unstarted => ChainTypeOK
    /\ Unsold => OfflineTypeOK
    /\ Unreviewed => ReviewTypeOK
<1>1. Untouched => TypeOK
  <2> SUFFICES ASSUME Untouched PROVE TypeOK
    OBVIOUS
  <2>1. file \in [Upstream \cup Exporters -> Reports]
    <3>1. Missing \in Reports
      BY MissingSays DEF Worded
    <3>2. file = [c \in Upstream \cup Exporters |-> Missing]
      BY Zenon DEF Untouched
    <3> QED
      BY <3>1, <3>2, Zenon
  <2>2. upload \in [Uploads -> Refs]
    <3>1. upload = NoRefs
      BY Zenon DEF Untouched
    <3> QED
      BY <3>1 DEF NoRefs, Refs
  <2>3. pc \in 1 .. 20 /\ troubles \in 0 .. MaxTroubles
    <3>1. pc = 1 /\ troubles = 0
      BY Zenon DEF Untouched
    <3> QED
      BY <3>1, ReleaseAssumption
  <2>4. signed \in Signed /\ warningsFail \in BOOLEAN /\ baseline \in BOOLEAN
    BY DEF Untouched, Signed
  <2> QED
    BY <2>1, <2>2, <2>3, <2>4, Zenon DEF TypeOK
<1>2. Unstarted => ChainTypeOK
  <2> SUFFICES ASSUME Unstarted PROVE ChainTypeOK
    OBVIOUS
  <2>1. report \in [Scripts -> [decision : Decisions, fresh : BOOLEAN]]
    <3>1. None \in [decision : Decisions, fresh : BOOLEAN]
      BY DEF None, Decisions
    <3>2. report = [c \in Scripts |-> None]
      BY Zenon DEF Unstarted
    <3> QED
      BY <3>1, <3>2, Zenon
  <2>2. exits \in [1 .. Len(Order) -> {"none", "passed", "failed"}]
    <3>1. exits = [n \in 1 .. Len(Order) |-> "none"]
      BY Zenon DEF Unstarted
    <3> HIDE DEF Order
    <3> QED
      BY <3>1
  <2>3. step \in 1 .. Bundling + 1 /\ crashes \in 0 .. MaxCrashes
    <3>1. step = 1 /\ crashes = 0
      BY Zenon DEF Unstarted
    <3> QED
      BY <3>1, OrderIs, ChainAssumption DEF Bundling
  <2>4. bundle \in {"", "passed", "warning", "failed"}
    BY Zenon DEF Unstarted
  <2> QED
    BY <2>1, <2>2, <2>3, <2>4, Zenon DEF ChainTypeOK
<1>3. Unsold => OfflineTypeOK
  <2> SUFFICES ASSUME Unsold PROVE OfflineTypeOK
    OBVIOUS
  <2>1. /\ sales = <<>> /\ e2e = GoodTests /\ counts = Unasked /\ standing = {} /\ typed = FALSE
        /\ at = 1 /\ changes = 0 /\ lost = 0
        /\ evidence = [c \in Reporters |-> NoReport]
    BY Zenon DEF Unsold
  <2>2. sales \in Seq(Sale) /\ Len(sales) <= MaxSales /\ changes \in 0 .. MaxChanges /\ lost \in 0 .. MaxLost
    BY <2>1, OfflineAssumption
  <2>3. e2e \in E2E
    <3>1. "passed" \in Found
      BY DEF Found
    <3> QED
      BY <2>1, <3>1 DEF GoodTests, E2E
  <2>4. counts \in [States -> 0 .. MaxSales]
    BY <2>1, OfflineAssumption DEF Unasked
  <2>5. \A c \in Reporters : evidence[c].decision = ""
    BY <2>1 DEF NoReport
  <2>6. at \in 1 .. Steps.matrix + 1
    BY <2>1 DEF Steps
  <2>7. typed \in BOOLEAN /\ standing \subseteq [state : States, late : BOOLEAN]
    BY <2>1
  <2> QED
    BY <2>2, <2>3, <2>4, <2>5, <2>6, <2>7, Zenon DEF OfflineTypeOK
<1>4. Unreviewed => ReviewTypeOK
  <2> SUFFICES ASSUME Unreviewed PROVE ReviewTypeOK
    OBVIOUS
  <2>1. DOMAIN filed = {} /\ lacks = {} /\ chosen = {} /\ gone = {} /\ turn = 1
    <3>1. filed = <<>> /\ lacks = {} /\ chosen = {} /\ gone = {} /\ turn = 1
      BY Zenon DEF Unreviewed
    <3>2. DOMAIN <<>> = {}
      OBVIOUS
    <3> QED
      BY <3>1, <3>2, Zenon
  <2>2. readiness = ""
    BY Zenon DEF Unreviewed
  <2>3. turn \in 1 .. Len(AllSteps) + 2
    <3>1. Len(AllSteps) = 40 /\ turn = 1
      BY <2>1, StepsAre
    <3> QED
      BY <3>1
  <2> QED
    BY <2>1, <2>2, <2>3, Zenon DEF ReviewTypeOK
<1> QED
  BY <1>1, <1>2, <1>3, <1>4

LEMMA PartsStart == MCInit => PartsInv
<1> SUFFICES ASSUME MCInit PROVE PartsInv
  OBVIOUS
<1>1. \/ focus = "gate" /\ Init /\ Unstarted /\ Unsold /\ Unreviewed
      \/ focus = "chain" /\ ChainInit /\ Untouched /\ Unsold /\ Unreviewed
      \/ focus = "offline" /\ OfflineInit /\ Untouched /\ Unstarted /\ Unreviewed
      \/ focus = "review" /\ ReviewInit /\ Untouched /\ Unstarted /\ Unsold
  BY Zenon DEF MCInit
<1>2. /\ Init => ReleaseInv /\ TypeOK
      /\ ChainInit => ChainInv /\ ChainTypeOK
      /\ OfflineInit => OfflineInv /\ OfflineTypeOK
      /\ ReviewInit => ReviewInv /\ ReviewTypeOK
  BY ReleaseStarts, ChainStarts, OfflineStart, ReviewStarts,
     ReleaseInvTypes, ChainInvTypes, OfflineInvTypes, ReviewInvTypes
<1> QED
  BY <1>1, <1>2, IdleParts DEF PartsInv

(* What is left alone keeps its types. *)
LEMMA TypesStay ==
    /\ UNCHANGED vars /\ TypeOK => TypeOK'
    /\ UNCHANGED chainVars /\ ChainTypeOK => ChainTypeOK'
    /\ UNCHANGED offlineVars /\ OfflineTypeOK => OfflineTypeOK'
    /\ UNCHANGED reviewVars /\ ReviewTypeOK => ReviewTypeOK'
<1>1. UNCHANGED vars /\ TypeOK => TypeOK'
  BY DEF vars, TypeOK
<1>2. UNCHANGED chainVars /\ ChainTypeOK => ChainTypeOK'
  BY DEF chainVars, ChainTypeOK
<1>3. UNCHANGED offlineVars /\ OfflineTypeOK => OfflineTypeOK'
  BY DEF offlineVars, OfflineTypeOK
<1>4. UNCHANGED reviewVars /\ ReviewTypeOK => ReviewTypeOK'
  BY Zenon DEF reviewVars, ReviewTypeOK
<1> QED
  BY <1>1, <1>2, <1>3, <1>4

LEMMA PartsStep == PartsInv /\ [MCNext]_releaseVars => PartsInv'
<1> SUFFICES ASSUME PartsInv, [MCNext]_releaseVars PROVE PartsInv'
  OBVIOUS
<1>1. TypeOK /\ ChainTypeOK /\ OfflineTypeOK /\ ReviewTypeOK
  BY DEF PartsInv
<1>2. focus' = focus
  BY Zenon DEF MCNext, releaseVars
<1>3. CASE focus = "gate"
  <2>1. [Next]_vars /\ UNCHANGED <<chainVars, offlineVars, reviewVars>>
    BY <1>3, Zenon DEF MCNext, releaseVars
  <2>2. ReleaseInv'
    BY <1>3, <2>1, ReleaseSteps DEF PartsInv
  <2>3. TypeOK'
    BY <2>2, ReleaseInvTypes, PTL
  <2>4. TypeOK' /\ ChainTypeOK' /\ OfflineTypeOK' /\ ReviewTypeOK'
    BY <1>1, <2>1, <2>3, TypesStay
  <2>5. focus' = "gate"
    BY <1>2, <1>3
  <2> QED
    BY <2>2, <2>4, <2>5 DEF PartsInv
<1>4. CASE focus = "chain"
  <2>1. [ChainNext]_chainVars /\ UNCHANGED <<vars, offlineVars, reviewVars>>
    BY <1>4, Zenon DEF MCNext, releaseVars
  <2>2. ChainInv'
    BY <1>4, <2>1, ChainSteps DEF PartsInv
  <2>3. ChainTypeOK'
    BY <2>2, ChainInvTypes, PTL
  <2>4. TypeOK' /\ ChainTypeOK' /\ OfflineTypeOK' /\ ReviewTypeOK'
    BY <1>1, <2>1, <2>3, TypesStay
  <2>5. focus' = "chain"
    BY <1>2, <1>4
  <2> QED
    BY <2>2, <2>4, <2>5 DEF PartsInv
<1>5. CASE focus = "offline"
  <2>1. [OfflineNext]_offlineVars /\ UNCHANGED <<vars, chainVars, reviewVars>>
    BY <1>5, Zenon DEF MCNext, releaseVars
  <2>2. OfflineInv'
    BY <1>5, <2>1, OfflineSteps DEF PartsInv
  <2>3. OfflineTypeOK'
    BY <2>2, OfflineInvTypes, PTL
  <2>4. TypeOK' /\ ChainTypeOK' /\ OfflineTypeOK' /\ ReviewTypeOK'
    BY <1>1, <2>1, <2>3, TypesStay
  <2>5. focus' = "offline"
    BY <1>2, <1>5
  <2> QED
    BY <2>2, <2>4, <2>5 DEF PartsInv
<1>6. CASE focus = "review"
  <2>1. [ReviewNext]_reviewVars /\ UNCHANGED <<vars, chainVars, offlineVars>>
    BY <1>6, Zenon DEF MCNext, releaseVars
  <2>2. ReviewInv'
    BY <1>6, <2>1, ReviewSteps DEF PartsInv
  <2>3. ReviewTypeOK'
    BY <2>2, ReviewInvTypes, PTL
  <2>4. TypeOK' /\ ChainTypeOK' /\ OfflineTypeOK' /\ ReviewTypeOK'
    BY <1>1, <2>1, <2>3, TypesStay
  <2>5. focus' = "review"
    BY <1>2, <1>6
  <2> QED
    BY <2>2, <2>4, <2>5 DEF PartsInv
<1>7. CASE focus \notin {"gate", "chain", "offline", "review"}
  <2>1. UNCHANGED <<vars, chainVars, offlineVars, reviewVars>>
    BY <1>7, Zenon DEF MCNext, releaseVars
  <2> QED
    BY <1>1, <1>2, <1>7, <2>1, TypesStay DEF PartsInv
<1> QED
  BY <1>3, <1>4, <1>5, <1>6, <1>7

(* Reports, uploads, sales, options and decisions stay in their domains, in       *)
(* whichever part of a protected release something happens (ReleaseTypeOK).       *)
THEOREM ReleaseTypeCorrect == MCSpec => []ReleaseTypeOK
<1>1. PartsInv => ReleaseTypeOK
  BY DEF PartsInv, ReleaseTypeOK
<1> QED
  BY <1>1, PartsStart, PartsStep, PTL DEF MCSpec
=============================================================================
