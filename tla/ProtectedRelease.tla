--------------------------- MODULE ProtectedRelease ---------------------------
(***************************************************************************)
(* The end of the protected release workflow: exporters that run one after  *)
(* the other, each reading the JSON reports of earlier ones and writing its *)
(* own, between uploads to GitHub.  Every step runs whatever became of the  *)
(* ones before it, so a step that fails before it writes leaves a report    *)
(* missing, and each exporter knows the words of the others' decisions from *)
(* lists of its own.                                                       *)
(*                                                                         *)
(* Exporters are run with --strict.  A report's lists of blockers and       *)
(* warnings are not repeated here: they are empty exactly if its decision   *)
(* passes, and what inherits them reads the decision too.                   *)
(***************************************************************************)
EXTENDS Naturals, FiniteSets

CONSTANTS Evidence,     \* reports of earlier steps that have no part of their own below
          MaxTroubles   \* a bound: reports that do not pass, steps lost, uploads without a digest

VARIABLES file,         \* file[c]: the report of c, see Reports
          upload,       \* upload[u]: how GitHub answered, see Refs
          signed,       \* approvals and references given to the closure gate
          warningsFail, \* TIJARA_PROTECTED_*_FAIL_ON_WARNING
          baseline,     \* whether the drift report has a promoted run to compare with
          pc,           \* the step that runs next
          troubles

vars == <<file, upload, signed, warningsFail, baseline, pc, troubles>>

Upstream  == {"readiness", "matrix", "retention_evidence"} \cup Evidence
Exporters == {"post_run", "summary", "decision", "metadata", "retention", "sidecar", "replay",
              "index", "closure", "closure_result", "archive", "archive_upload", "score", "drift"}
Uploads   == {"primary", "sidecar", "final", "archive"}
Refs      == {"none", "bare", "full"}   \* no artifact id, an id without a digest, both
Signed    == {"complete", "no_window", "incomplete"}

ASSUME ReleaseAssumption ==
    /\ IsFiniteSet(Evidence) /\ MaxTroubles \in Nat
    /\ Evidence \cap ({"readiness", "matrix", "retention_evidence"} \cup Exporters) = {}

NoRefs == [u \in Uploads |-> "none"]

(* A report: its decision, its ci_status, whether its status.tsv has a row that *)
(* was skipped, the uploads it refers to, and the closure it archives.          *)
Missing == [decision |-> "", ci |-> "", skips |-> FALSE, refs |-> NoRefs, closure |-> ""]

Say(decision, ci) == [Missing EXCEPT !.decision = decision, !.ci = ci]

Step == [metadata_pre |-> 1, post_run |-> 2, summary |-> 3, decision |-> 4, upload_primary |-> 5,
         metadata |-> 6, retention |-> 7, upload_sidecar |-> 8, sidecar |-> 9, replay |-> 10,
         index |-> 11, closure |-> 12, upload_final |-> 13, closure_result |-> 14, archive |-> 15,
         upload_archive |-> 16, archive_upload |-> 17, score |-> 18, drift |-> 19]

Exists(c) == file[c].decision # ""

-----------------------------------------------------------------------------
(* What a reader with these words makes of a report. *)
Review(words, c) ==
    LET said == {file[c].decision, file[c].ci}
    IN  IF ~Exists(c) THEN "missing"
        ELSE IF said \cap words.fail # {} THEN "failed"
        ELSE IF said \cap words.warn # {} THEN "warning"
        ELSE IF said \cap words.pass # {} THEN "passed" ELSE "unknown"

Reads(words, components, states) == \E c \in components : Review(words, c) \in states

(* The two words of a report are swapped (a fault). *)
VerdictSwapped(pass, warn, fail, blocked, warned) ==
    IF blocked THEN Say("fail", fail)
    ELSE IF warned THEN Say("pass_with_warnings", warn) ELSE Say("pass", pass)

(* The words of a report with these findings. *)
Verdict(pass, warn, fail, blocked, warned) ==
    IF blocked THEN Say(fail, "fail")
    ELSE IF warned THEN Say(warn, "pass_with_warnings") ELSE Say(pass, "pass")

(* --fail-on-warning turns every warning into a blocker. *)
Strict(pass, warn, fail, blocked, warned) ==
    Verdict(pass, warn, fail, blocked \/ (warningsFail /\ warned), warned)

-----------------------------------------------------------------------------
(* export_github_artifact_metadata: a placeholder before the upload, the id and *)
(* the URL after it.                                                            *)
MetadataPre == Say("passed", "pass")

Metadata == [Verdict("passed", "warning", "failed", upload["primary"] = "none", FALSE)
             EXCEPT !.refs["primary"] = upload["primary"]]

(* export_protected_post_run_verification: a word it does not know is a warning, *)
(* a row that was skipped is nothing.                                            *)
PostRunWords == [pass |-> {"ready", "passed", "pass", "success"},
                 warn |-> {"warn", "warning", "pass_with_warnings"},
                 fail |-> {"fail", "failed", "error", "blocked"}]

PostRunReads == Upstream \cup {"metadata"}

PostRun == Verdict("passed", "warning", "failed",
    Reads(PostRunWords, PostRunReads, {"missing", "failed"}),
    Reads(PostRunWords, PostRunReads, {"warning", "unknown"}))

(* export_protected_artifact_summary: a word it does not know passes; a row that  *)
(* was skipped is a warning, except for a category of the certification matrix.   *)
SummaryWords == [pass |-> {}, warn |-> {"warning", "warn", "pass_with_warnings"},
                 fail |-> {"failed", "blocked", "fail"}]

SummaryReads == Upstream \cup {"metadata", "post_run"}

(* Rows that were skipped are passed over (a fault). *)
NoSkips == {}

SummarySkips == {c \in SummaryReads \ {"matrix"} : file[c].skips}

Summary == Verdict("passed", "warning", "failed",
    Reads(SummaryWords, SummaryReads, {"missing", "failed"}),
    Reads(SummaryWords, SummaryReads, {"warning"}) \/ SummarySkips # {})

(* export_protected_run_decision; four exporters after it have lists of their *)
(* own with the same words.                                                    *)
UsualWords == [pass |-> {"approved", "ready", "passed", "pass", "success", "ok"},
               warn |-> {"warning", "warn", "pass_with_warnings", "skipped"},
               fail |-> {"blocked", "failed", "fail", "error"}]

DecisionWords == UsualWords

DecisionBlocks == {"missing", "failed", "unknown"}

DecisionReads == {"readiness", "matrix", "post_run", "summary"} \cup Evidence

Decision == Strict("approved", "warning", "blocked",
    Reads(DecisionWords, DecisionReads, DecisionBlocks), Reads(DecisionWords, DecisionReads, {"warning"}))

(* export_protected_evidence_retention_manifest. *)
(* A list without the word of the run decision (a fault). *)
NoApproved == [pass |-> {"ready", "passed", "success", "ok"},
               warn |-> {"warning", "warn", "pass_with_warnings", "skipped"},
               fail |-> {"blocked", "failed", "fail", "error"}]

RetentionWords == UsualWords

RetentionReads == {"decision", "readiness", "matrix", "metadata", "summary", "retention_evidence"}

Retention == [Strict("passed", "warning", "failed",
                  Reads(RetentionWords, RetentionReads, {"missing", "failed"})
                      \/ file["metadata"].refs["primary"] = "none",
                  Reads(RetentionWords, RetentionReads, {"warning", "unknown"})
                      \/ file["metadata"].refs["primary"] # "full")
              EXCEPT !.refs = file["metadata"].refs]

(* export_protected_sidecar_verification, of the upload of the two before. *)
SidecarWords == UsualWords

SidecarReads == {"metadata", "retention"}

Sidecar ==
    LET primary  == file["metadata"].refs["primary"]
        retained == file["retention"].refs["primary"]
    IN  [Strict("passed", "warning", "failed",
             \/ Reads(SidecarWords, SidecarReads, {"missing", "failed"})
             \/ upload["sidecar"] = "none" \/ primary = "none",
             \/ Reads(SidecarWords, SidecarReads, {"warning", "unknown"})
             \/ upload["sidecar"] # "full" \/ primary # "full" \/ retained # "full")
         EXCEPT !.refs = [NoRefs EXCEPT !["primary"] = primary, !["sidecar"] = upload["sidecar"]]]

(* export_protected_evidence_replay_report: the references must agree.  They are *)
(* of one run, so that two that are there do.                                    *)
ReplayWords == UsualWords

ReplayReads == {"readiness", "decision", "metadata", "retention", "sidecar"}

ReplayRefs == {file["metadata"].refs["primary"], file["retention"].refs["primary"],
               file["sidecar"].refs["primary"], file["sidecar"].refs["sidecar"]}

Replay == [Strict("passed", "warning", "failed",
               Reads(ReplayWords, ReplayReads, {"missing", "failed"}) \/ "none" \in ReplayRefs,
               Reads(ReplayWords, ReplayReads, {"warning", "unknown"}) \/ ReplayRefs # {"full"})
           EXCEPT !.refs = [NoRefs EXCEPT !["primary"] = file["metadata"].refs["primary"],
                                          !["sidecar"] = file["sidecar"].refs["sidecar"]]]

-----------------------------------------------------------------------------
(* export_protected_release_evidence_index: links are taken from the first    *)
(* report that has them.                                                      *)
IndexWords == UsualWords

IndexReads    == {"readiness", "decision", "retention", "sidecar", "replay", "matrix", "metadata"}
IndexOptional == {"summary", "retention_evidence"}

Best(refs) == IF "full" \in refs THEN "full" ELSE IF "bare" \in refs THEN "bare" ELSE "none"

Links == [NoRefs EXCEPT
    !["primary"] = Best({file[c].refs["primary"] : c \in {"metadata", "retention", "replay"}}),
    !["sidecar"] = Best({file[c].refs["sidecar"] : c \in {"sidecar", "replay"}})]

Linked(links) == {links["primary"], links["sidecar"]}

(* The status of a component in the index. *)
Indexed(c) == IF Review(IndexWords, c) = "missing" /\ c \in IndexOptional THEN "skipped"
              ELSE IF Review(IndexWords, c) \in {"missing", "failed"} THEN "failed"
              ELSE IF Review(IndexWords, c) = "unknown" THEN "warning" ELSE Review(IndexWords, c)

Index == [Strict("passed", "warning", "failed",
              (\E c \in IndexReads \cup IndexOptional : Indexed(c) = "failed") \/ "none" \in Linked(Links),
              (\E c \in IndexReads \cup IndexOptional : Indexed(c) = "warning") \/ Linked(Links) # {"full"})
          EXCEPT !.refs = Links]

(* export_protected_release_closure_gate: the index and everything listed in   *)
(* it, what was uploaded, and what people have signed.  Nothing that the index *)
(* reads is written again, so its statuses are those of now.  A status that is *)
(* neither failing nor a warning passes.                                       *)
ClosureWords == [pass |-> {"approved", "ready", "passed", "pass", "success", "ok", "promotion_ready"},
                 warn |-> {"warning", "warn", "pass_with_warnings"},
                 fail |-> {"blocked", "failed", "fail", "error"}]

ClosureComponents(states) ==
    Exists("index") => \E c \in IndexReads : Indexed(c) \in states

ClosureBlocks == Reads(ClosureWords, {"index"}, {"missing", "failed", "unknown"}) \/ ClosureComponents({"failed"})

(* Approvals that are asked for but not missed (a fault). *)
Unsigned == FALSE

Unapproved == signed = "incomplete"

Closure ==
    LET report == Strict("promotion_ready", "watch", "blocked",
                      ClosureBlocks \/ "none" \in Linked(file["index"].refs) \/ Unapproved,
                      \/ Reads(ClosureWords, {"index"}, {"warning"})
                      \/ ClosureComponents({"warning", "skipped"})
                      \/ Linked(file["index"].refs) # {"full"} \/ signed = "no_window")
    IN  [report EXCEPT !.refs = file["index"].refs, !.closure = report.decision]

(* export_protected_closure_result_verification: that a decision was made and   *)
(* uploaded, whatever it is.                                                   *)
ClosureDecisions == {"promotion_ready", "watch", "blocked"}

FinalFiles == {"closure", "index", "replay", "sidecar"}

ClosureResult ==
    [Strict("passed", "warning", "failed",
         \/ file["closure"].closure \notin ClosureDecisions
         \/ upload["final"] = "none"
         \/ \E c \in FinalFiles : ~Exists(c),
         file["closure"].closure = "watch" \/ upload["final"] # "full")
     EXCEPT !.refs = [NoRefs EXCEPT !["final"] = upload["final"]],
            !.closure = file["closure"].closure]

(* export_protected_release_archive_manifest: a closure that is blocked is      *)
(* archived too.                                                               *)
ArchiveWords == [pass |-> {"approved", "ready", "passed", "pass", "success", "ok", "promotion_ready"},
                 warn |-> {"warning", "warn", "watch", "pass_with_warnings"},
                 fail |-> {"blocked", "failed", "fail", "error"}]

ArchiveReads == {"metadata", "retention", "sidecar", "replay", "index", "closure",
                 "closure_result", "retention_evidence"}

ArchivedRefs ==
    {file[c].refs["primary"] : c \in {"metadata", "retention", "sidecar", "replay", "index"}}
    \cup {file[c].refs["sidecar"] : c \in {"sidecar", "replay", "index"}}
    \cup {file["closure_result"].refs["final"]}

SameClosure ==
    file["closure"].closure \in ClosureDecisions /\ file["closure_result"].closure = file["closure"].closure

Archive ==
    [Strict("passed", "warning", "failed",
         \/ Reads(ArchiveWords, ArchiveReads, {"missing"})
         \/ Reads(ArchiveWords, ArchiveReads \ {"closure"}, {"failed"})
         \/ ~SameClosure \/ file["closure_result"].decision \notin {"passed", "warning"}
         \/ "none" \in ArchivedRefs,
         Reads(ArchiveWords, ArchiveReads, {"warning", "unknown"}) \/ ArchivedRefs # {"full"})
     EXCEPT !.closure = file["closure"].closure]

(* export_protected_archive_upload_verification: a word that it does not know   *)
(* blocks.                                                                     *)
ArchiveUploadWords == [pass |-> {"passed", "pass", "ready", "approved", "success", "ok"},
                       warn |-> {"warning", "warn", "watch", "pass_with_warnings"}, fail |-> {}]

ArchiveUpload ==
    LET read == {"closure_result", "archive"}
    IN  [Strict("passed", "warning", "failed",
             \/ Reads(ArchiveUploadWords, read, {"missing", "failed", "unknown"})
             \/ \E c \in read : file[c].closure \notin ClosureDecisions
             \/ file["archive"].closure # file["closure_result"].closure
             \/ upload["archive"] = "none",
             Reads(ArchiveUploadWords, read, {"warning"}) \/ upload["archive"] # "full")
         EXCEPT !.closure = file["archive"].closure]

-----------------------------------------------------------------------------
(* export_protected_evidence_bundle_score. *)
ScoreWords == [pass |-> {"approved", "ready", "passed", "pass", "success", "ok", "promotion_ready"},
               warn |-> {"warning", "warn", "watch", "pass_with_warnings"},
               fail |-> {"blocked", "failed", "fail", "error"}]

ScoreReads == {"decision", "retention", "sidecar", "replay", "index", "closure", "closure_result",
               "archive", "archive_upload"}

(* A closure is good evidence whatever was decided. *)
Scored(c) == IF c = "closure" /\ file[c].closure \in ClosureDecisions THEN "passed"
             ELSE IF Review(ScoreWords, c) \in {"missing", "unknown"} THEN "failed" ELSE Review(ScoreWords, c)

(* The score, in halves of a component. *)
Points == 2 * Cardinality({c \in ScoreReads : Scored(c) = "passed"})
          + Cardinality({c \in ScoreReads : Scored(c) = "warning"})

MinimumScore == 90

(* The closure as the last report that knows it has it. *)
Outcome == IF file["archive_upload"].closure # "" THEN file["archive_upload"].closure
           ELSE IF file["archive"].closure # "" THEN file["archive"].closure
           ELSE IF file["closure_result"].closure # "" THEN file["closure_result"].closure
           ELSE file["closure"].closure

(* What was decided counts by its risk, from the closure and from its archive. *)
Risk(outcomes) == file["closure"].closure \in outcomes \/ Outcome \in outcomes

Score == [Strict("passed", "warning", "failed",
              \/ \E c \in ScoreReads : Scored(c) = "failed"
              \/ Points * 100 < MinimumScore * 2 * Cardinality(ScoreReads)
              \/ Risk({"blocked"}) \/ Outcome \notin ClosureDecisions,
              (\E c \in ScoreReads : Scored(c) = "warning") \/ Risk({"watch"}))
          EXCEPT !.closure = Outcome]

(* export_protected_evidence_bundle_drift, against a run that was promoted with *)
(* a full score, if there is one.  Warnings do not fail it.                     *)
Drop == 2 * Cardinality(ScoreReads) - Points

DropThreshold == 5

Drift ==
    LET compared == Exists("score") /\ baseline
    IN  Verdict("passed", "warning", "failed",
            \/ ~Exists("score")
            \/ /\ compared
               /\ \/ Drop * 100 > DropThreshold * 2 * Cardinality(ScoreReads)
                  \/ file["score"].ci = "fail" \/ file["score"].closure \notin {"promotion_ready", "watch"},
            ~baseline \/ (compared /\ (Drop > 0 \/ file["score"].ci # "pass"
                                       \/ file["score"].closure # "promotion_ready")))

-----------------------------------------------------------------------------
At(n) == pc = n /\ pc' = pc + 1 /\ UNCHANGED <<signed, warningsFail, baseline>>

Write(n, c, report) ==
    /\ At(n)
    /\ file' = [file EXCEPT ![c] = report]
    /\ UNCHANGED <<upload, troubles>>

(* An upload of the reports of these components; it warns if it finds none. *)
Put(n, u, components) ==
    /\ At(n)
    /\ \E ref \in Refs \ {"none"} :
          /\ ref = "bare" => troubles < MaxTroubles
          /\ upload' = [upload EXCEPT ![u] = IF \E c \in components : Exists(c) THEN ref ELSE "none"]
          /\ troubles' = IF ref = "bare" THEN troubles + 1 ELSE troubles
    /\ UNCHANGED file

WriteMetadataPre   == Write(Step.metadata_pre, "metadata", MetadataPre)
WritePostRun       == Write(Step.post_run, "post_run", PostRun)
WriteSummary       == Write(Step.summary, "summary", Summary)
WriteDecision      == Write(Step.decision, "decision", Decision)
UploadPrimary      == Put(Step.upload_primary, "primary", Upstream \cup {"metadata", "post_run", "summary", "decision"})
WriteMetadata      == Write(Step.metadata, "metadata", Metadata)
WriteRetention     == Write(Step.retention, "retention", Retention)
UploadSidecar      == Put(Step.upload_sidecar, "sidecar", {"metadata", "retention"})
WriteSidecar       == Write(Step.sidecar, "sidecar", Sidecar)
WriteReplay        == Write(Step.replay, "replay", Replay)
WriteIndex         == Write(Step.index, "index", Index)
WriteClosure       == Write(Step.closure, "closure", Closure)
UploadFinal        == Put(Step.upload_final, "final", FinalFiles)
WriteClosureResult == Write(Step.closure_result, "closure_result", ClosureResult)
WriteArchive       == Write(Step.archive, "archive", Archive)
UploadArchive      == Put(Step.upload_archive, "archive", {"closure_result", "archive"})
WriteArchiveUpload == Write(Step.archive_upload, "archive_upload", ArchiveUpload)
WriteScore         == Write(Step.score, "score", Score)
WriteDrift         == Write(Step.drift, "drift", Drift)

(* A step ends before it has written or uploaded anything. *)
LoseStep ==
    /\ troubles < MaxTroubles /\ troubles' = troubles + 1
    /\ pc <= Step.drift /\ At(pc)
    /\ UNCHANGED <<file, upload>>

-----------------------------------------------------------------------------
UpstreamReports(c) ==
    {Missing, Say("warning", "pass_with_warnings")} \cup
    (IF c = "readiness" THEN {Say("ready", "pass"), Say("blocked", "fail")}
     ELSE LET reports == {Say("passed", "pass"), Say("failed", "fail")} \cup
                         IF c \in Evidence THEN {Say("ready", "pass"), Say("blocked", "fail")} ELSE {}
          IN  reports \cup {[r EXCEPT !.skips = TRUE] : r \in reports})

Clean(c) == file[c].ci = "pass" /\ ~file[c].skips

Init ==
    /\ \E given \in [Upstream -> UNION {UpstreamReports(c) : c \in Upstream}] :
          /\ \A c \in Upstream : given[c] \in UpstreamReports(c)
          /\ file = [c \in Upstream \cup Exporters |-> IF c \in Upstream THEN given[c] ELSE Missing]
    /\ troubles = Cardinality({c \in Upstream : ~Clean(c)}) /\ troubles <= MaxTroubles
    /\ upload = NoRefs
    /\ signed \in Signed /\ warningsFail \in BOOLEAN /\ baseline \in BOOLEAN
    /\ pc = 1

Next ==
    \/ WriteMetadataPre \/ WritePostRun \/ WriteSummary \/ WriteDecision \/ UploadPrimary
    \/ WriteMetadata \/ WriteRetention \/ UploadSidecar \/ WriteSidecar \/ WriteReplay
    \/ WriteIndex \/ WriteClosure \/ UploadFinal \/ WriteClosureResult \/ WriteArchive
    \/ UploadArchive \/ WriteArchiveUpload \/ WriteScore \/ WriteDrift \/ LoseStep

Spec == Init /\ [][Next]_vars

-----------------------------------------------------------------------------
Words   == {"", "ready", "approved", "passed", "warning", "watch", "blocked", "failed", "promotion_ready"}
Reports == [decision : Words, ci : {"", "pass", "pass_with_warnings", "fail"}, skips : BOOLEAN,
            refs : [Uploads -> Refs], closure : {"", "promotion_ready", "watch", "blocked"}]

TypeOK ==
    /\ file \in [Upstream \cup Exporters -> Reports]
    /\ upload \in [Uploads -> Refs]
    /\ signed \in Signed /\ warningsFail \in BOOLEAN /\ baseline \in BOOLEAN
    /\ pc \in 1 .. 20 /\ troubles \in 0 .. MaxTroubles

Promoted == file["closure"].closure = "promotion_ready"

Reviewed == Upstream \cup {"post_run", "summary", "decision", "metadata", "retention", "sidecar", "replay", "index"}

(* A release that is ready for promotion has every report there and passing,    *)
(* nothing skipped, both uploads with their digests and every approval: a step  *)
(* that was lost, a warning let through or a word misread on the way does not   *)
(* make it ready.                                                               *)
PromotionEarned ==
    Promoted => /\ \A c \in Reviewed : file[c].ci = "pass"
                /\ \A c \in Upstream \ {"matrix"} : ~file[c].skips
                /\ upload["primary"] = "full" /\ upload["sidecar"] = "full" /\ signed = "complete"

(* No word is misread: a run in which every report passes, no step is lost and   *)
(* everything is signed is promoted and passes its score.                        *)
CleanRun == \A c \in Upstream : Clean(c)
CleanRunPromoted ==
    pc = 20 /\ CleanRun /\ troubles = 0 /\ signed = "complete" => Promoted /\ file["score"].decision = "passed"

-----------------------------------------------------------------------------
(* The closure gate is a release gate for what it reads and what that has read: *)
(* its decision is never better than the worst report behind it, it is made     *)
(* when the last of them is there, and none of them is written after it.        *)
WrittenAt(c) == CASE c = "post_run" -> Step.post_run [] c = "summary" -> Step.summary
                  [] c = "decision" -> Step.decision [] c = "metadata" -> Step.metadata
                  [] c = "retention" -> Step.retention [] c = "sidecar" -> Step.sidecar
                  [] c = "replay" -> Step.replay [] c = "index" -> Step.index [] OTHER -> 0

Standing(c) == IF pc <= WrittenAt(c) THEN "open"
               ELSE IF ~Exists(c) \/ file[c].ci = "fail" THEN "failed"
               ELSE IF file[c].ci = "pass" /\ (c = "matrix" \/ ~file[c].skips) THEN "clean" ELSE "warned"

Gate == INSTANCE ReleaseGate WITH
            Pieces   <- Reviewed,
            standing <- [c \in Reviewed |-> Standing(c)],
            outcome  <- IF pc <= Step.closure THEN "open"
                        ELSE IF Exists("closure") THEN file["closure"].closure ELSE "none"

GateKept == Gate!GateSpec
===============================================================================
