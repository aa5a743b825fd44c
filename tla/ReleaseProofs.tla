---------------------------- MODULE ReleaseProofs ----------------------------
(***************************************************************************)
(* Proofs about ProtectedRelease, for whatever evidence is collected and   *)
(* however many steps are lost or reports do not pass.                     *)
(*                                                                         *)
(* A decision is as good as what it read when it was made.  The inductive  *)
(* invariant says of each report on the way what it vouches for now: the   *)
(* verification for the reports of earlier steps, the summary for skipped  *)
(* rows, the run decision for these two, the sidecar for the uploads.  It  *)
(* holds only with the order of the workflow: no report that vouches for   *)
(* another one is there while that one can still be written (InOrder).     *)
(* The refinement needs the same of a decision with warnings (WatchEarned).*)
(* The other way round, CleanInv says step by step what a run that loses   *)
(* nothing and finds nothing has written so far.                           *)
(***************************************************************************)
EXTENDS ProtectedRelease, FiniteSetTheorems, TLAPS

Components == Upstream \cup Exporters

(* The words of a decision and of its ci_status that go together. *)
Spoken ==
    {"passed", "ready", "approved", "promotion_ready"} \X {"pass"} \cup {"warning", "watch"} \X {"pass_with_warnings"}
    \cup {"failed", "blocked"} \X {"fail"} \cup {<<"", "">>}

Worded(r) == r \in Reports /\ <<r.decision, r.ci>> \in Spoken

Passes(c) == file[c].ci = "pass"

Stands(c) == Exists(c) /\ file[c].ci # "fail"

InOrder == \A c \in Exporters \ {"metadata"} : pc <= Step[c] => file[c] = Missing

UploadsKnown ==
    /\ file["metadata"].refs["primary"] \in {"none", upload["primary"]}
    /\ pc <= Step.metadata => file["metadata"].refs["primary"] = "none"

Vouched ==
    /\ Passes("post_run") => \A c \in Upstream : Passes(c)
    /\ Stands("post_run") => \A c \in Upstream : Stands(c)
    /\ Passes("summary") => \A c \in Upstream \ {"matrix"} : ~file[c].skips
    /\ Passes("decision") => Passes("post_run") /\ Passes("summary")
    /\ Stands("decision") => Stands("post_run") /\ Stands("summary")
    /\ Passes("sidecar") => upload["primary"] = "full" /\ upload["sidecar"] = "full"

(* A decision to watch the release lets warnings through, and nothing worse. *)
WatchEarned == file["closure"].closure \in {"promotion_ready", "watch"} => \A c \in Reviewed : Stands(c)

Formed ==
    /\ TypeOK /\ InOrder
    /\ \A c \in Components : Worded(file[c])
    /\ \A c \in Exporters : ~file[c].skips

ClosureThere == Exists("closure") <=> file["closure"].closure # ""

(* The inductive invariant. *)
ReleaseInv == Formed /\ UploadsKnown /\ Vouched /\ PromotionEarned /\ WatchEarned /\ ClosureThere

(* Of a run in which nothing goes wrong: what each step has left when it is done. *)
Full(c, uploads) == Passes(c) /\ \A u \in uploads : file[c].refs[u] = "full"

Promotes(c) == Passes(c) /\ file[c].closure = "promotion_ready"

Flawless ==
    /\ pc > 1 => Passes("metadata")
    /\ pc > 2 => Passes("post_run")
    /\ pc > 3 => Passes("summary")
    /\ pc > 4 => Passes("decision")
    /\ pc > 5 => upload["primary"] = "full"
    /\ pc > 6 => Full("metadata", {"primary"})
    /\ pc > 7 => Full("retention", {"primary"})
    /\ pc > 8 => upload["sidecar"] = "full"
    /\ pc > 9 => Full("sidecar", {"primary", "sidecar"})
    /\ pc > 10 => Full("replay", {"primary", "sidecar"})
    /\ pc > 11 => Full("index", {"primary", "sidecar"})
    /\ pc > 12 => Promotes("closure")
    /\ pc > 13 => upload["final"] = "full"
    /\ pc > 14 => Full("closure_result", {"final"}) /\ Promotes("closure_result")
    /\ pc > 14 => file["closure_result"].decision = "passed"
    /\ pc > 15 => Promotes("archive")
    /\ pc > 16 => upload["archive"] = "full"
    /\ pc > 17 => Promotes("archive_upload")
    /\ pc > 18 => file["score"].decision = "passed"

CleanInv == CleanRun /\ troubles = 0 /\ signed = "complete" => Flawless

-----------------------------------------------------------------------------
LEMMA MissingSays ==
    /\ Worded(Missing) /\ ~Missing.skips /\ Missing.closure = "" /\ Missing.refs = NoRefs
    /\ Missing.decision = "" /\ Missing.ci = ""
BY DEF Worded, Missing, Reports, Words, NoRefs, Refs, Spoken

Speaks(r, d, s) ==
    Worded(r) /\ r.decision = d /\ r.ci = s /\ ~r.skips /\ r.refs = NoRefs /\ r.closure = ""

LEMMA SaySpeaks ==
    ASSUME NEW d \in Words, NEW s \in {"pass", "pass_with_warnings", "fail"}, <<d, s>> \in Spoken
    PROVE  Speaks(Say(d, s), d, s)
<1> DEFINE r == Say(d, s)
<1>1. Missing \in Reports /\ ~Missing.skips /\ Missing.refs = NoRefs /\ Missing.closure = ""
  BY DEF Missing, Reports, Words, NoRefs, Refs
<1>2. r = [Missing EXCEPT !.decision = d, !.ci = s]
  BY DEF Say
<1> HIDE DEF r
<1>3. Speaks(r, d, s)
  BY <1>1, <1>2 DEF Speaks, Worded, Reports
<1> QED
  BY <1>3 DEF r

(* What an exporter may say. *)
Trio(pass, warn, fail) == <<pass, warn, fail>> \in
    {<<"passed", "warning", "failed">>, <<"approved", "warning", "blocked">>,
     <<"promotion_ready", "watch", "blocked">>}

(* What follows from a report's decision and from its ci_status. *)
Tells(r, pass, warn, fail, b, w) ==
    /\ Worded(r) /\ ~r.skips /\ r.refs = NoRefs /\ r.closure = ""
    /\ r.decision \in {pass, warn, fail} /\ r.ci \in {"pass", "pass_with_warnings", "fail"}
    /\ (r.ci = "pass" <=> ~b /\ ~w) /\ (r.decision = pass <=> ~b /\ ~w)
    /\ (r.ci # "fail" => ~b) /\ (r.decision # fail => ~b)

LEMMA VerdictTells ==
    ASSUME NEW pass, NEW warn, NEW fail, Trio(pass, warn, fail), NEW b \in BOOLEAN, NEW w \in BOOLEAN
    PROVE  Tells(Verdict(pass, warn, fail, b, w), pass, warn, fail, b, w)
<1> DEFINE r == Verdict(pass, warn, fail, b, w)
<1>1. /\ pass \in Words /\ warn \in Words /\ fail \in Words /\ pass # warn /\ pass # fail /\ warn # fail
      /\ <<pass, "pass">> \in Spoken /\ <<warn, "pass_with_warnings">> \in Spoken /\ <<fail, "fail">> \in Spoken
  BY DEF Trio, Words, Spoken
<1>2. Speaks(Say(fail, "fail"), fail, "fail")
  BY <1>1, SaySpeaks
<1>3. Speaks(Say(warn, "pass_with_warnings"), warn, "pass_with_warnings")
  BY <1>1, SaySpeaks
<1>4. Speaks(Say(pass, "pass"), pass, "pass")
  BY <1>1, SaySpeaks
<1>5. \/ b /\ Speaks(r, fail, "fail")
      \/ ~b /\ w /\ Speaks(r, warn, "pass_with_warnings")
      \/ ~b /\ ~w /\ Speaks(r, pass, "pass")
  BY <1>2, <1>3, <1>4 DEF Verdict
<1> HIDE DEF r
<1>6. Tells(r, pass, warn, fail, b, w)
  BY <1>1, <1>5 DEF Tells, Speaks
<1> QED
  BY <1>6 DEF r

LEMMA StrictTells ==
    ASSUME NEW pass, NEW warn, NEW fail, Trio(pass, warn, fail), NEW b \in BOOLEAN, NEW w \in BOOLEAN,
           warningsFail \in BOOLEAN
    PROVE  Tells(Strict(pass, warn, fail, b, w), pass, warn, fail, b, w)
<1> DEFINE blocked == b \/ (warningsFail /\ w)
           r == Strict(pass, warn, fail, b, w)
<1>1. blocked \in BOOLEAN /\ (b => blocked) /\ (~b /\ ~w => ~blocked)
  OBVIOUS
<1>2. r = Verdict(pass, warn, fail, blocked, w)
  BY DEF Strict
<1> HIDE DEF blocked
<1>3. Tells(Verdict(pass, warn, fail, blocked, w), pass, warn, fail, blocked, w)
  BY <1>1, VerdictTells
<1>4. Tells(r, pass, warn, fail, blocked, w)
  BY <1>2, <1>3
<1> HIDE DEF r
<1>5. Tells(r, pass, warn, fail, b, w)
  BY <1>1, <1>4 DEF Tells
<1> QED
  BY <1>5 DEF r

(* A report that refers to uploads or archives a closure says what it said. *)
Like(n, r, refs, closure) ==
    /\ Worded(n) /\ n.skips = r.skips /\ n.decision = r.decision /\ n.ci = r.ci
    /\ n.refs = refs /\ n.closure = closure

Closures == {"", "promotion_ready", "watch", "blocked"}

LEMMA RefersSays ==
    ASSUME NEW r, Worded(r), NEW refs \in [Uploads -> Refs], NEW closure \in Closures
    PROVE  /\ Like([r EXCEPT !.refs = refs], r, refs, r.closure)
           /\ Like([r EXCEPT !.closure = closure], r, r.refs, closure)
           /\ Like([r EXCEPT !.refs = refs, !.closure = closure], r, refs, closure)
<1>1. r \in Reports
  BY DEF Worded
<1> QED
  BY <1>1 DEF Like, Worded, Reports, Closures

-----------------------------------------------------------------------------
(* What a reader learns of a report, if its lists have the words of ci_status. *)
LEMMA ReviewTells ==
    ASSUME NEW words, NEW c
    PROVE  /\ "fail" \in words.fail /\ Review(words, c) \notin {"missing", "failed"} => Stands(c)
           /\ /\ "fail" \in words.fail /\ "pass_with_warnings" \in words.warn
              /\ Review(words, c) \notin {"missing", "failed", "warning"} /\ Worded(file[c])
              => Passes(c)
<1>1. ASSUME "fail" \in words.fail, Review(words, c) \notin {"missing", "failed"} PROVE Stands(c)
  BY <1>1 DEF Review, Stands
<1>2. ASSUME "fail" \in words.fail, "pass_with_warnings" \in words.warn, Worded(file[c]),
             Review(words, c) \notin {"missing", "failed", "warning"}
      PROVE  Passes(c)
  <2>1. Exists(c) /\ file[c].ci # "fail" /\ file[c].ci # "pass_with_warnings"
    BY <1>2 DEF Review
  <2> QED
    BY <2>1, <1>2 DEF Worded, Spoken, Exists, Passes
<1> QED
  BY <1>1, <1>2

(* Lists that take no word of a passing report for something else. *)
FairWords(words) ==
    /\ "pass" \in words.pass
    /\ {"pass", "passed", "ready", "approved", "promotion_ready"} \cap (words.warn \cup words.fail) = {}

LEMMA FairLists ==
    /\ FairWords(PostRunWords) /\ FairWords(DecisionWords) /\ FairWords(RetentionWords) /\ FairWords(SidecarWords)
    /\ FairWords(ReplayWords) /\ FairWords(IndexWords) /\ FairWords(ClosureWords) /\ FairWords(ArchiveWords)
    /\ FairWords(ArchiveUploadWords) /\ FairWords(ScoreWords)
BY DEF FairWords, UsualWords, PostRunWords, DecisionWords, RetentionWords, SidecarWords, ReplayWords, IndexWords,
       ClosureWords, ArchiveWords, ArchiveUploadWords, ScoreWords

LEMMA PassingSays ==
    ASSUME Formed, NEW c \in Components, Passes(c)
    PROVE  /\ Exists(c) /\ file[c].ci = "pass"
           /\ file[c].decision \in {"passed", "ready", "approved", "promotion_ready"}
BY DEF Formed, Worded, Spoken, Exists, Passes

LEMMA ReviewClean ==
    ASSUME Formed, NEW c \in Components, Passes(c), NEW words, FairWords(words)
    PROVE  Review(words, c) = "passed"
BY PassingSays DEF FairWords, Review

LEMMA ReadsClean ==
    ASSUME Formed, NEW cs \in SUBSET Components, \A c \in cs : Passes(c), NEW words, FairWords(words),
           NEW states, "passed" \notin states
    PROVE  ~Reads(words, cs, states)
BY ReviewClean DEF Reads

-----------------------------------------------------------------------------
LEMMA Apart == Upstream \cap Exporters = {} /\ Reviewed \subseteq Components
BY ReleaseAssumption DEF Upstream, Exporters, Reviewed, Components

LEMMA Triple == \A a, b, c : IsFiniteSet({a, b, c})
<1> TAKE a, b, c
<1>1. IsFiniteSet({a}) /\ IsFiniteSet({b}) /\ IsFiniteSet({c})
  BY FS_Singleton
<1>2. IsFiniteSet(({a} \cup {b}) \cup {c})
  BY <1>1, FS_Union
<1>3. ({a} \cup {b}) \cup {c} = {a, b, c}
  OBVIOUS
<1> QED
  BY <1>2, <1>3

LEMMA ReleaseStarts == Init => ReleaseInv
<1> SUFFICES ASSUME Init PROVE ReleaseInv
  OBVIOUS
<1> PICK given \in [Upstream -> UNION {UpstreamReports(c) : c \in Upstream}] :
        /\ \A c \in Upstream : given[c] \in UpstreamReports(c)
        /\ file = [c \in Upstream \cup Exporters |-> IF c \in Upstream THEN given[c] ELSE Missing]
  BY DEF Init
<1>1. Upstream \cap Exporters = {}
  BY Apart
<1>2. \A c \in Exporters : file[c] = Missing
  BY <1>1
<1>3. \A c \in Upstream : file[c] \in UpstreamReports(c)
  OBVIOUS
<1>4. ASSUME NEW c \in Upstream PROVE Worded(file[c])
  <2>1. \A r : Worded(r) => Worded([r EXCEPT !.skips = TRUE])
    BY DEF Worded, Reports
  <2>2. Worded(Missing)
    BY MissingSays
  <2>3. \A d \in {"ready", "passed"} : Worded(Say(d, "pass"))
    BY SaySpeaks DEF Speaks, Words, Spoken
  <2>4. \A d \in {"blocked", "failed"} : Worded(Say(d, "fail"))
    BY SaySpeaks DEF Speaks, Words, Spoken
  <2>5. Worded(Say("warning", "pass_with_warnings"))
    BY SaySpeaks DEF Speaks, Words, Spoken
  <2> QED
    BY <1>3, <2>1, <2>2, <2>3, <2>4, <2>5 DEF UpstreamReports
<1>5. \A c \in Components : Worded(file[c])
  BY <1>2, <1>4, MissingSays DEF Components
<1>6. troubles \in 0 .. MaxTroubles
  <2>1. IsFiniteSet(Upstream)
    <3>1. IsFiniteSet({"readiness", "matrix", "retention_evidence"})
      BY Triple
    <3> QED
      BY <3>1, FS_Union, ReleaseAssumption DEF Upstream
  <2>2. IsFiniteSet({c \in Upstream : ~Clean(c)})
    BY <2>1, FS_Subset
  <2>3. troubles \in Nat /\ troubles <= MaxTroubles
    BY <2>2, FS_CardinalityType DEF Init
  <2> QED
    BY <2>3, ReleaseAssumption
<1>7. NoRefs \in [Uploads -> Refs]
  BY DEF NoRefs, Refs
<1>8. TypeOK
  <2>1. file \in [Upstream \cup Exporters -> Reports]
    BY <1>5 DEF Worded, Components
  <2> QED
    BY <1>6, <1>7, <2>1 DEF Init, TypeOK
<1>9. Formed
  BY <1>2, <1>5, <1>8, MissingSays DEF Formed, InOrder
<1>10. Missing.refs["primary"] = "none" /\ Missing.ci = "" /\ Missing.decision = "" /\ Missing.closure = ""
  BY DEF Missing, NoRefs, Uploads
<1>11. {"post_run", "summary", "decision", "metadata", "sidecar", "closure"} \subseteq Exporters
  BY DEF Exporters
<1> QED
  BY <1>2, <1>9, <1>10, <1>11
  DEF ReleaseInv, UploadsKnown, Vouched, PromotionEarned, Promoted, WatchEarned, ClosureThere, Exists, Passes, Stands

-----------------------------------------------------------------------------
(* What a step that writes a report leaves as it was. *)
Wrote(c, r) ==
    /\ file'[c] = r /\ \A x \in Components \ {c} : file'[x] = file[x]
    /\ UNCHANGED <<upload, signed, warningsFail>>

LEMMA WriteKeeps ==
    ASSUME Formed, NEW n \in 1 .. 19, NEW c \in Exporters, c = "metadata" \/ n = Step[c],
           NEW r, Worded(r), ~r.skips, Write(n, c, r)
    PROVE  Formed' /\ Wrote(c, r) /\ pc = n /\ pc' = n + 1
<1>1. file \in [Components -> Reports] /\ c \in Components
  BY DEF Formed, TypeOK, Components
<1>2. file' = [file EXCEPT ![c] = r] /\ pc = n /\ pc' = n + 1
  BY DEF Write, At
<1>3. Wrote(c, r)
  BY <1>1, <1>2 DEF Wrote, Write, At
<1>4. TypeOK'
  <2>1. file' \in [Components -> Reports]
    BY <1>1, <1>2 DEF Worded
  <2> QED
    BY <1>2, <2>1 DEF Formed, TypeOK, Write, At, Components
<1>5. InOrder'
  <2> SUFFICES ASSUME NEW x \in Exporters \ {"metadata"}, pc' <= Step[x] PROVE file'[x] = Missing
    BY DEF InOrder
  <2>1. Step[x] \in Nat
    BY DEF Step, Exporters
  <2>2. x # c /\ pc <= Step[x]
    BY <1>2, <2>1
  <2> QED
    BY <1>3, <2>2 DEF Wrote, Formed, InOrder, Components
<1>6. /\ \A x \in Components : Worded(file'[x])
      /\ \A x \in Exporters : ~file'[x].skips
  BY <1>3 DEF Wrote, Formed, Components
<1> QED
  BY <1>2, <1>3, <1>4, <1>5, <1>6 DEF Formed

(* Before it runs, the closure gate has decided nothing. *)
Undecided == file["closure"].closure = "" /\ ~Exists("closure")

(* A report that is not written yet neither passes nor stands. *)
LEMMA NotYet ==
    ASSUME Formed, NEW c \in Exporters \ {"metadata"}, pc <= Step[c]
    PROVE  /\ ~Exists(c) /\ ~Passes(c) /\ ~Stands(c) /\ file[c].closure = "" /\ file[c].refs = NoRefs
           /\ c = "closure" => Undecided
<1>1. file[c] = Missing
  BY DEF Formed, InOrder
<1> QED
  BY <1>1, MissingSays DEF Exists, Passes, Stands, Undecided

(* Before the closure only what reports vouch for is at stake. *)
LEMMA EarlyWrite ==
    ASSUME ReleaseInv, NEW c \in {"post_run", "summary", "decision", "retention", "sidecar", "replay", "index"},
           NEW r, Worded(r), ~r.skips, Write(Step[c], c, r)
    PROVE  /\ Wrote(c, r) /\ pc = Step[c]
           /\ Vouched' => ReleaseInv'
<1>1. c \in Exporters /\ c # "metadata" /\ Step[c] \in 1 .. 11
  BY DEF Exporters, Step
<1>2. Formed
  BY DEF ReleaseInv
<1>3. Step[c] \in 1 .. 19
  BY <1>1
<1>4. Formed' /\ Wrote(c, r) /\ pc = Step[c] /\ pc' = Step[c] + 1
  BY <1>1, <1>2, <1>3, WriteKeeps
<1>5. "closure" \in Exporters \ {"metadata"} /\ pc <= Step["closure"]
  BY <1>1, <1>4 DEF Exporters, Step
<1>6. Undecided
  BY <1>2, <1>5, NotYet
<1>7. file'["closure"] = file["closure"] /\ file'["metadata"] = file["metadata"] /\ UNCHANGED upload
  BY <1>1, <1>4 DEF Wrote, Components, Exporters
<1>8. Undecided'
  BY <1>6, <1>7 DEF Undecided, Exists
<1>9. (PromotionEarned /\ WatchEarned /\ ClosureThere)'
  BY <1>8 DEF Undecided, PromotionEarned, Promoted, WatchEarned, ClosureThere
<1>10. UploadsKnown'
  BY <1>1, <1>4, <1>7 DEF ReleaseInv, UploadsKnown, Step
<1> QED
  BY <1>4, <1>9, <1>10 DEF ReleaseInv

-----------------------------------------------------------------------------
(* The metadata of the primary upload: a placeholder first, the references later. *)
LEMMA MetadataWritten ==
    ASSUME ReleaseInv, Formed', NEW r, Wrote("metadata", r), pc <= Step.metadata, pc' = pc + 1,
           r.refs["primary"] \in {"none", upload["primary"]},
           pc < Step.metadata => r.refs["primary"] = "none"
    PROVE  ReleaseInv'
<1>1. /\ \A x \in Upstream \cup {"post_run", "summary", "decision", "sidecar", "closure"} : file'[x] = file[x]
      /\ file'["metadata"] = r /\ UNCHANGED <<upload, signed>>
  BY Apart DEF Wrote, Components, Exporters
<1>2. pc \in Nat /\ Step.metadata = 6 /\ Step["closure"] = 12
  BY DEF ReleaseInv, Formed, TypeOK, Step
<1>3. Undecided
  <2>1. "closure" \in Exporters \ {"metadata"} /\ pc <= Step["closure"] /\ Formed
    BY <1>2 DEF ReleaseInv, Exporters
  <2> QED
    BY <2>1, NotYet
<1>4. Undecided'
  BY <1>1, <1>3 DEF Undecided, Exists
<1>5. (PromotionEarned /\ WatchEarned /\ ClosureThere)'
  BY <1>4 DEF Undecided, PromotionEarned, Promoted, WatchEarned, ClosureThere
<1>6. UploadsKnown'
  BY <1>1, <1>2 DEF UploadsKnown
<1>7. Vouched'
  BY <1>1 DEF ReleaseInv, Vouched, Passes, Stands, Exists
<1> QED
  BY <1>5, <1>6, <1>7 DEF ReleaseInv

LEMMA MetadataPreKeeps ==
    ASSUME ReleaseInv, WriteMetadataPre
    PROVE  ReleaseInv' /\ Passes("metadata")'
<1> DEFINE r == MetadataPre
<1>1. Speaks(r, "passed", "pass")
  BY SaySpeaks DEF MetadataPre, Words, Spoken
<1>2. Write(1, "metadata", r)
  BY DEF WriteMetadataPre, Step
<1> HIDE DEF r
<1>3. Formed' /\ Wrote("metadata", r) /\ pc = 1 /\ pc' = 2
  <2>1. Formed /\ Worded(r) /\ ~r.skips
    BY <1>1 DEF ReleaseInv, Speaks
  <2>2. "metadata" \in Exporters /\ 1 \in 1 .. 19
    BY DEF Exporters
  <2> QED
    BY <1>2, <2>1, <2>2, WriteKeeps
<1>4. r.refs["primary"] = "none"
  BY <1>1 DEF Speaks, NoRefs, Uploads
<1>5. Passes("metadata")'
  BY <1>1, <1>3 DEF Speaks, Wrote, Passes
<1> QED
  BY <1>3, <1>4, <1>5, MetadataWritten DEF Step

(* The verification of the reports of earlier steps vouches for them. *)
LEMMA PostRunKeeps ==
    ASSUME ReleaseInv, WritePostRun
    PROVE  ReleaseInv' /\ (CleanRun /\ Flawless => Passes("post_run")')
<1> DEFINE r == PostRun
           b == Reads(PostRunWords, PostRunReads, {"missing", "failed"})
           w == Reads(PostRunWords, PostRunReads, {"warning", "unknown"})
<1>1. Tells(r, "passed", "warning", "failed", b, w)
  <2>1. b \in BOOLEAN /\ w \in BOOLEAN
    BY DEF Reads
  <2>2. r = Verdict("passed", "warning", "failed", b, w)
    BY DEF PostRun
  <2>3. Trio("passed", "warning", "failed")
    BY DEF Trio
  <2> HIDE DEF r, b, w
  <2> QED
    BY <2>1, <2>2, <2>3, VerdictTells
<1>2. ~b => \A c \in Upstream : Stands(c)
  <2>1. "fail" \in PostRunWords.fail /\ Upstream \subseteq PostRunReads
    BY DEF PostRunWords, PostRunReads
  <2> QED
    BY <2>1, ReviewTells DEF Reads
<1>3. ~b /\ ~w => \A c \in Upstream : Passes(c)
  <2>1. /\ "fail" \in PostRunWords.fail /\ "pass_with_warnings" \in PostRunWords.warn
        /\ Upstream \subseteq PostRunReads
    BY DEF PostRunWords, PostRunReads
  <2>2. \A c \in Upstream : Worded(file[c])
    BY DEF ReleaseInv, Formed, Components
  <2> QED
    BY <2>1, <2>2, ReviewTells DEF Reads
<1>4. ASSUME CleanRun, Flawless PROVE ~b /\ ~w
  <2>1. pc = 2
    BY DEF WritePostRun, Write, At, Step
  <2>2. PostRunReads \subseteq Components /\ \A c \in PostRunReads : Passes(c)
    BY <2>1, <1>4 DEF PostRunReads, Components, Exporters, CleanRun, Clean, Passes, Flawless
  <2> QED
    BY <2>2, FairLists, ReadsClean DEF ReleaseInv
<1> HIDE DEF r, b, w
<1>5. Wrote("post_run", r) /\ pc = Step["post_run"] /\ (Vouched' => ReleaseInv')
  <2>1. Write(Step["post_run"], "post_run", r)
    BY DEF WritePostRun, r
  <2>2. Worded(r) /\ ~r.skips
    BY <1>1 DEF Tells
  <2> QED
    BY <2>1, <2>2, EarlyWrite
<1>6. /\ \A x \in Upstream \cup {"summary", "decision", "sidecar"} : file'[x] = file[x]
      /\ file'["post_run"] = r /\ UNCHANGED upload
  BY <1>5, Apart DEF Wrote, Components, Exporters
<1>7. \A x \in {"summary", "decision", "sidecar"} : ~Passes(x) /\ ~Stands(x)
  <2>1. \A x \in {"summary", "decision", "sidecar"} : x \in Exporters \ {"metadata"} /\ pc <= Step[x]
    BY <1>5 DEF Exporters, Step
  <2> QED
    BY <2>1, NotYet DEF ReleaseInv
<1>8. Vouched'
  BY <1>1, <1>2, <1>3, <1>6, <1>7 DEF Tells, Vouched, Passes, Stands, Exists
<1>9. CleanRun /\ Flawless => Passes("post_run")'
  BY <1>1, <1>6, <1>4 DEF Tells, Passes
<1> QED
  BY <1>5, <1>8, <1>9

(* The summary vouches for rows that were skipped. *)
LEMMA SummaryKeeps ==
    ASSUME ReleaseInv, WriteSummary
    PROVE  ReleaseInv' /\ (CleanRun /\ Flawless => Passes("summary")')
<1> DEFINE r == Summary
           b == Reads(SummaryWords, SummaryReads, {"missing", "failed"})
           w == Reads(SummaryWords, SummaryReads, {"warning"}) \/ SummarySkips # {}
<1>1. Tells(r, "passed", "warning", "failed", b, w)
  <2>1. b \in BOOLEAN /\ w \in BOOLEAN
    BY DEF Reads
  <2>2. r = Verdict("passed", "warning", "failed", b, w)
    BY DEF Summary
  <2>3. Trio("passed", "warning", "failed")
    BY DEF Trio
  <2> HIDE DEF r, b, w
  <2> QED
    BY <2>1, <2>2, <2>3, VerdictTells
<1>2. ~w => \A c \in Upstream \ {"matrix"} : ~file[c].skips
  BY DEF SummarySkips, SummaryReads
<1>3. ASSUME CleanRun, Flawless PROVE ~b /\ ~w
  <2>1. pc = 3 /\ Formed
    BY DEF WriteSummary, Write, At, Step, ReleaseInv
  <2>2. SummaryReads \subseteq Components /\ \A c \in SummaryReads : Passes(c) /\ ~file[c].skips
    BY <2>1, <1>3 DEF SummaryReads, Components, Exporters, CleanRun, Clean, Passes, Flawless, Formed
  <2>3. \A c \in SummaryReads : Review(SummaryWords, c) \notin {"missing", "failed", "warning"}
    BY <2>1, <2>2, PassingSays DEF Review, SummaryWords
  <2> QED
    BY <2>2, <2>3 DEF Reads, SummarySkips
<1> HIDE DEF r, b, w
<1>4. Wrote("summary", r) /\ pc = Step["summary"] /\ (Vouched' => ReleaseInv')
  <2>1. Write(Step["summary"], "summary", r)
    BY DEF WriteSummary, r
  <2>2. Worded(r) /\ ~r.skips
    BY <1>1 DEF Tells
  <2> QED
    BY <2>1, <2>2, EarlyWrite
<1>5. /\ \A x \in Upstream \cup {"post_run", "decision", "sidecar"} : file'[x] = file[x]
      /\ file'["summary"] = r /\ UNCHANGED upload
  BY <1>4, Apart DEF Wrote, Components, Exporters
<1>6. \A x \in {"decision", "sidecar"} : ~Passes(x) /\ ~Stands(x)
  <2>1. \A x \in {"decision", "sidecar"} : x \in Exporters \ {"metadata"} /\ pc <= Step[x]
    BY <1>4 DEF Exporters, Step
  <2> QED
    BY <2>1, NotYet DEF ReleaseInv
<1>7. Vouched'
  BY <1>1, <1>2, <1>5, <1>6 DEF ReleaseInv, Tells, Vouched, Passes, Stands, Exists
<1>8. CleanRun /\ Flawless => Passes("summary")'
  BY <1>1, <1>5, <1>3 DEF Tells, Passes
<1> QED
  BY <1>4, <1>7, <1>8

(* The run decision vouches for both, and blocks on a word that it does not know. *)
LEMMA DecisionKeeps ==
    ASSUME ReleaseInv, WriteDecision
    PROVE  ReleaseInv' /\ (CleanRun /\ Flawless => Passes("decision")')
<1> DEFINE r == Decision
           b == Reads(DecisionWords, DecisionReads, DecisionBlocks)
           w == Reads(DecisionWords, DecisionReads, {"warning"})
<1>1. Tells(r, "approved", "warning", "blocked", b, w)
  <2>1. b \in BOOLEAN /\ w \in BOOLEAN
    BY DEF Reads
  <2>2. r = Strict("approved", "warning", "blocked", b, w)
    BY DEF Decision
  <2>3. Trio("approved", "warning", "blocked") /\ warningsFail \in BOOLEAN
    BY DEF Trio, ReleaseInv, Formed, TypeOK
  <2> HIDE DEF r, b, w
  <2> QED
    BY <2>1, <2>2, <2>3, StrictTells
<1>2. ~b => \A c \in {"post_run", "summary"} : Stands(c)
  <2>1. "fail" \in DecisionWords.fail /\ {"post_run", "summary"} \subseteq DecisionReads
    BY DEF DecisionWords, UsualWords, DecisionReads
  <2> QED
    BY <2>1, ReviewTells DEF Reads, DecisionBlocks
<1>3. ~b /\ ~w => \A c \in {"post_run", "summary"} : Passes(c)
  <2>1. /\ "fail" \in DecisionWords.fail /\ "pass_with_warnings" \in DecisionWords.warn
        /\ {"post_run", "summary"} \subseteq DecisionReads
    BY DEF DecisionWords, UsualWords, DecisionReads
  <2>2. \A c \in {"post_run", "summary"} : Worded(file[c])
    BY DEF ReleaseInv, Formed, Components, Exporters
  <2> QED
    BY <2>1, <2>2, ReviewTells DEF Reads, DecisionBlocks
<1>4. ASSUME CleanRun, Flawless PROVE ~b /\ ~w
  <2>1. pc = 4
    BY DEF WriteDecision, Write, At, Step
  <2>2. DecisionReads \subseteq Components /\ \A c \in DecisionReads : Passes(c)
    BY <2>1, <1>4 DEF DecisionReads, Components, Upstream, Exporters, CleanRun, Clean, Passes, Flawless
  <2> QED
    BY <2>2, FairLists, ReadsClean DEF ReleaseInv, DecisionBlocks
<1> HIDE DEF r, b, w
<1>5. Wrote("decision", r) /\ pc = Step["decision"] /\ (Vouched' => ReleaseInv')
  <2>1. Write(Step["decision"], "decision", r)
    BY DEF WriteDecision, r
  <2>2. Worded(r) /\ ~r.skips
    BY <1>1 DEF Tells
  <2> QED
    BY <2>1, <2>2, EarlyWrite
<1>6. /\ \A x \in Upstream \cup {"post_run", "summary", "sidecar"} : file'[x] = file[x]
      /\ file'["decision"] = r /\ UNCHANGED upload
  BY <1>5, Apart DEF Wrote, Components, Exporters
<1>7. ~Passes("sidecar") /\ ~Stands("sidecar")
  <2>1. "sidecar" \in Exporters \ {"metadata"} /\ pc <= Step["sidecar"]
    BY <1>5 DEF Exporters, Step
  <2> QED
    BY <2>1, NotYet DEF ReleaseInv
<1>8. Vouched'
  BY <1>1, <1>2, <1>3, <1>6, <1>7 DEF ReleaseInv, Tells, Vouched, Passes, Stands, Exists
<1>9. CleanRun /\ Flawless => Passes("decision")'
  BY <1>1, <1>6, <1>4 DEF Tells, Passes
<1> QED
  BY <1>5, <1>8, <1>9

LEMMA MetadataKeeps ==
    ASSUME ReleaseInv, WriteMetadata
    PROVE  ReleaseInv' /\ (Flawless => Full("metadata", {"primary"})')
<1> DEFINE b == upload["primary"] = "none"
           v == Verdict("passed", "warning", "failed", b, FALSE)
           refs == [NoRefs EXCEPT !["primary"] = upload["primary"]]
           r == Metadata
<1>1. Tells(v, "passed", "warning", "failed", b, FALSE)
  <2>1. b \in BOOLEAN /\ FALSE \in BOOLEAN /\ Trio("passed", "warning", "failed")
    BY DEF Trio
  <2> HIDE DEF b
  <2> QED
    BY <2>1, VerdictTells
<1>2. refs \in [Uploads -> Refs] /\ refs["primary"] = upload["primary"]
  BY DEF ReleaseInv, Formed, TypeOK, NoRefs, Uploads, Refs
<1>3. r = [v EXCEPT !.refs["primary"] = upload["primary"]]
  BY DEF Metadata
<1> HIDE DEF r, v
<1>4. r = [v EXCEPT !.refs = refs]
  BY <1>1, <1>3 DEF Tells
<1> HIDE DEF refs
<1>5. Like(r, v, refs, "")
  BY <1>1, <1>2, <1>4, RefersSays DEF Tells, Closures
<1>6. Formed' /\ Wrote("metadata", r) /\ pc = 6 /\ pc' = 7
  <2>1. Write(6, "metadata", r)
    BY DEF WriteMetadata, Step, r
  <2>2. Formed /\ Worded(r) /\ ~r.skips
    BY <1>1, <1>5 DEF ReleaseInv, Tells, Like
  <2>3. "metadata" \in Exporters /\ 6 \in 1 .. 19
    BY DEF Exporters
  <2> QED
    BY <2>1, <2>2, <2>3, WriteKeeps
<1>7. r.refs["primary"] = upload["primary"]
  BY <1>2, <1>5 DEF Like
<1>8. ASSUME Flawless PROVE Full("metadata", {"primary"})'
  <2>1. upload["primary"] = "full"
    BY <1>6, <1>8 DEF Flawless
  <2> QED
    BY <1>1, <1>5, <1>6, <1>7, <2>1 DEF Tells, Like, Wrote, Full, Passes
<1> QED
  BY <1>6, <1>7, <1>8, MetadataWritten DEF Step

(* Reports that no other one rests on, before the closure. *)
LEMMA PlainKeeps ==
    ASSUME ReleaseInv, NEW c \in {"retention", "replay", "index"}, NEW r, Worded(r), ~r.skips,
           Write(Step[c], c, r)
    PROVE  ReleaseInv' /\ file'[c] = r
<1>1. Wrote(c, r) /\ (Vouched' => ReleaseInv')
  BY EarlyWrite
<1>2. /\ \A x \in Upstream \cup {"post_run", "summary", "decision", "sidecar"} : file'[x] = file[x]
      /\ UNCHANGED upload
  BY <1>1, Apart DEF Wrote, Components, Exporters
<1>3. Vouched'
  BY <1>2 DEF ReleaseInv, Vouched, Passes, Stands, Exists
<1> QED
  BY <1>1, <1>3 DEF Wrote

LEMMA RetentionKeeps ==
    ASSUME ReleaseInv, WriteRetention
    PROVE  ReleaseInv' /\ (CleanRun /\ Flawless => Full("retention", {"primary"})')
<1> DEFINE b == Reads(RetentionWords, RetentionReads, {"missing", "failed"})
                    \/ file["metadata"].refs["primary"] = "none"
           w == Reads(RetentionWords, RetentionReads, {"warning", "unknown"})
                    \/ file["metadata"].refs["primary"] # "full"
           v == Strict("passed", "warning", "failed", b, w)
           refs == file["metadata"].refs
           r == Retention
<1>1. b \in BOOLEAN /\ w \in BOOLEAN
  BY DEF Reads
<1>2. r = [v EXCEPT !.refs = refs]
  BY DEF Retention
<1>3. refs \in [Uploads -> Refs]
  BY DEF ReleaseInv, Formed, TypeOK, Exporters, Reports
<1>4. ASSUME CleanRun, Flawless PROVE ~b /\ ~w /\ refs["primary"] = "full"
  <2>1. pc = 7
    BY DEF WriteRetention, Write, At, Step
  <2>2. RetentionReads \subseteq Components /\ \A c \in RetentionReads : Passes(c)
    BY <2>1, <1>4 DEF RetentionReads, Components, Upstream, Exporters, CleanRun, Clean, Passes, Flawless
  <2>3. refs["primary"] = "full"
    BY <2>1, <1>4 DEF Flawless, Full
  <2> QED
    BY <2>2, <2>3, FairLists, ReadsClean DEF ReleaseInv
<1> HIDE DEF b, w, r, refs
<1>5. Tells(v, "passed", "warning", "failed", b, w)
  BY <1>1, StrictTells DEF Trio, ReleaseInv, Formed, TypeOK
<1> HIDE DEF v
<1>6. Like(r, v, refs, "")
  BY <1>2, <1>3, <1>5, RefersSays DEF Tells, Closures
<1>7. Write(Step["retention"], "retention", r)
  BY DEF WriteRetention, r
<1>8. Worded(r) /\ ~r.skips
  BY <1>5, <1>6 DEF Tells, Like
<1>9. ReleaseInv' /\ file'["retention"] = r
  BY <1>7, <1>8, PlainKeeps
<1>10. CleanRun /\ Flawless => Full("retention", {"primary"})'
  BY <1>5, <1>6, <1>4, <1>9 DEF Tells, Like, Full, Passes
<1> QED
  BY <1>9, <1>10

(* The verification of the second upload vouches for both. *)
LEMMA SidecarKeeps ==
    ASSUME ReleaseInv, WriteSidecar
    PROVE  ReleaseInv' /\ (CleanRun /\ Flawless => Full("sidecar", {"primary", "sidecar"})')
<1> DEFINE primary  == file["metadata"].refs["primary"]
           retained == file["retention"].refs["primary"]
           b == \/ Reads(SidecarWords, SidecarReads, {"missing", "failed"})
                \/ upload["sidecar"] = "none" \/ primary = "none"
           w == \/ Reads(SidecarWords, SidecarReads, {"warning", "unknown"})
                \/ upload["sidecar"] # "full" \/ primary # "full" \/ retained # "full"
           v == Strict("passed", "warning", "failed", b, w)
           refs == [NoRefs EXCEPT !["primary"] = primary, !["sidecar"] = upload["sidecar"]]
           r == Sidecar
<1>1. b \in BOOLEAN /\ w \in BOOLEAN
  BY DEF Reads
<1>2. ~w => primary = "full" /\ upload["sidecar"] = "full"
  OBVIOUS
<1>3. r = [v EXCEPT !.refs = refs]
  BY DEF Sidecar
<1>4. primary \in Refs /\ primary \in {"none", upload["primary"]}
  BY DEF ReleaseInv, UploadsKnown, Formed, TypeOK, Exporters, Reports, Uploads
<1>5. refs \in [Uploads -> Refs]
  BY <1>4 DEF ReleaseInv, Formed, TypeOK, NoRefs, Uploads, Refs
<1>6. ASSUME CleanRun, Flawless PROVE ~b /\ ~w /\ refs["primary"] = "full" /\ refs["sidecar"] = "full"
  <2>1. pc = 9
    BY DEF WriteSidecar, Write, At, Step
  <2>2. SidecarReads \subseteq Components /\ \A c \in SidecarReads : Passes(c)
    BY <2>1, <1>6 DEF SidecarReads, Components, Exporters, Flawless, Full
  <2>3. primary = "full" /\ retained = "full" /\ upload["sidecar"] = "full"
    BY <2>1, <1>6 DEF Flawless, Full
  <2>4. refs["primary"] = "full" /\ refs["sidecar"] = "full"
    BY <2>3 DEF NoRefs, Uploads
  <2> QED
    BY <2>2, <2>3, <2>4, FairLists, ReadsClean DEF ReleaseInv
<1> HIDE DEF b, w, r, refs
<1>7. Tells(v, "passed", "warning", "failed", b, w)
  BY <1>1, StrictTells DEF Trio, ReleaseInv, Formed, TypeOK
<1> HIDE DEF v
<1>8. Like(r, v, refs, "")
  BY <1>3, <1>5, <1>7, RefersSays DEF Tells, Closures
<1>9. Wrote("sidecar", r) /\ pc = Step["sidecar"] /\ (Vouched' => ReleaseInv')
  <2>1. Write(Step["sidecar"], "sidecar", r)
    BY DEF WriteSidecar, r
  <2>2. Worded(r) /\ ~r.skips
    BY <1>7, <1>8 DEF Tells, Like
  <2> QED
    BY <2>1, <2>2, EarlyWrite
<1>10. /\ \A x \in Upstream \cup {"post_run", "summary", "decision"} : file'[x] = file[x]
      /\ file'["sidecar"] = r /\ UNCHANGED upload
  BY <1>9, Apart DEF Wrote, Components, Exporters
<1>11. r.ci = "pass" => upload["primary"] = "full" /\ upload["sidecar"] = "full"
  BY <1>2, <1>4, <1>7, <1>8 DEF Tells, Like
<1>12. Vouched'
  BY <1>10, <1>11 DEF ReleaseInv, Vouched, Passes, Stands, Exists
<1>13. CleanRun /\ Flawless => Full("sidecar", {"primary", "sidecar"})'
  BY <1>7, <1>8, <1>10, <1>6 DEF Tells, Like, Full, Passes
<1> QED
  BY <1>9, <1>12, <1>13

LEMMA ReplayKeeps ==
    ASSUME ReleaseInv, WriteReplay
    PROVE  ReleaseInv' /\ (CleanRun /\ Flawless => Full("replay", {"primary", "sidecar"})')
<1> DEFINE b == Reads(ReplayWords, ReplayReads, {"missing", "failed"}) \/ "none" \in ReplayRefs
           w == Reads(ReplayWords, ReplayReads, {"warning", "unknown"}) \/ ReplayRefs # {"full"}
           v == Strict("passed", "warning", "failed", b, w)
           refs == [NoRefs EXCEPT !["primary"] = file["metadata"].refs["primary"],
                                  !["sidecar"] = file["sidecar"].refs["sidecar"]]
           r == Replay
<1>1. b \in BOOLEAN /\ w \in BOOLEAN
  BY DEF Reads
<1>2. r = [v EXCEPT !.refs = refs]
  BY DEF Replay
<1>3. file["metadata"].refs["primary"] \in Refs /\ file["sidecar"].refs["sidecar"] \in Refs
  BY DEF ReleaseInv, Formed, TypeOK, Exporters, Reports, Uploads
<1>4. refs \in [Uploads -> Refs]
  BY <1>3 DEF NoRefs, Uploads, Refs
<1>5. ASSUME CleanRun, Flawless PROVE ~b /\ ~w /\ refs["primary"] = "full" /\ refs["sidecar"] = "full"
  <2>1. pc = 10
    BY DEF WriteReplay, Write, At, Step
  <2>2. ReplayReads \subseteq Components /\ \A c \in ReplayReads : Passes(c)
    BY <2>1, <1>5 DEF ReplayReads, Components, Upstream, Exporters, CleanRun, Clean, Passes, Flawless, Full
  <2>3. /\ file["metadata"].refs["primary"] = "full" /\ file["retention"].refs["primary"] = "full"
        /\ file["sidecar"].refs["primary"] = "full" /\ file["sidecar"].refs["sidecar"] = "full"
    BY <2>1, <1>5 DEF Flawless, Full
  <2>4. refs["primary"] = "full" /\ refs["sidecar"] = "full" /\ ReplayRefs = {"full"}
    BY <2>3 DEF NoRefs, Uploads, ReplayRefs
  <2> QED
    BY <2>2, <2>4, FairLists, ReadsClean DEF ReleaseInv
<1> HIDE DEF b, w, r, refs
<1>6. Tells(v, "passed", "warning", "failed", b, w)
  BY <1>1, StrictTells DEF Trio, ReleaseInv, Formed, TypeOK
<1> HIDE DEF v
<1>7. Like(r, v, refs, "")
  BY <1>2, <1>4, <1>6, RefersSays DEF Tells, Closures
<1>8. Write(Step["replay"], "replay", r)
  BY DEF WriteReplay, r
<1>9. Worded(r) /\ ~r.skips
  BY <1>6, <1>7 DEF Tells, Like
<1>10. ReleaseInv' /\ file'["replay"] = r
  BY <1>8, <1>9, PlainKeeps
<1>11. CleanRun /\ Flawless => Full("replay", {"primary", "sidecar"})'
  BY <1>6, <1>7, <1>5, <1>10 DEF Tells, Like, Full, Passes
<1> QED
  BY <1>10, <1>11

LEMMA LinksRefer == Links \in [Uploads -> Refs]
<1> DEFINE primary == Best({file[c].refs["primary"] : c \in {"metadata", "retention", "replay"}})
           sidecar == Best({file[c].refs["sidecar"] : c \in {"sidecar", "replay"}})
<1>1. primary \in Refs /\ sidecar \in Refs
  BY DEF Best, Refs
<1>2. Links = [NoRefs EXCEPT !["primary"] = primary, !["sidecar"] = sidecar]
  BY DEF Links
<1> HIDE DEF primary, sidecar
<1> QED
  BY <1>1, <1>2 DEF NoRefs, Uploads, Refs

LEMMA IndexKeeps ==
    ASSUME ReleaseInv, WriteIndex
    PROVE  ReleaseInv' /\ (CleanRun /\ Flawless => Full("index", {"primary", "sidecar"})')
<1> DEFINE b == \/ \E c \in IndexReads \cup IndexOptional : Indexed(c) = "failed"
                \/ "none" \in Linked(Links)
           w == \/ \E c \in IndexReads \cup IndexOptional : Indexed(c) = "warning"
                \/ Linked(Links) # {"full"}
           v == Strict("passed", "warning", "failed", b, w)
           r == Index
<1>1. b \in BOOLEAN /\ w \in BOOLEAN
  OBVIOUS
<1>2. r = [v EXCEPT !.refs = Links]
  BY DEF Index
<1>3. ASSUME CleanRun, Flawless PROVE ~b /\ ~w /\ Links["primary"] = "full" /\ Links["sidecar"] = "full"
  <2>1. pc = 11 /\ Formed
    BY DEF WriteIndex, Write, At, Step, ReleaseInv
  <2>2. IndexReads \cup IndexOptional \subseteq Components /\ \A c \in IndexReads \cup IndexOptional : Passes(c)
    BY <2>1, <1>3
    DEF IndexReads, IndexOptional, Components, Upstream, Exporters, CleanRun, Clean, Passes, Flawless, Full
  <2>3. \A c \in IndexReads \cup IndexOptional : Indexed(c) = "passed"
    BY <2>1, <2>2, FairLists, ReviewClean DEF Indexed
  <2>4. file["metadata"].refs["primary"] = "full" /\ file["sidecar"].refs["sidecar"] = "full"
    BY <2>1, <1>3 DEF Flawless, Full
  <2>5. /\ Best({file[c].refs["primary"] : c \in {"metadata", "retention", "replay"}}) = "full"
        /\ Best({file[c].refs["sidecar"] : c \in {"sidecar", "replay"}}) = "full"
    BY <2>4 DEF Best
  <2>6. Links["primary"] = "full" /\ Links["sidecar"] = "full"
    BY <2>5 DEF Links, NoRefs, Uploads
  <2>7. Linked(Links) = {"full"}
    BY <2>6 DEF Linked
  <2> QED
    BY <2>3, <2>6, <2>7
<1> HIDE DEF b, w, r
<1>4. Tells(v, "passed", "warning", "failed", b, w)
  BY <1>1, StrictTells DEF Trio, ReleaseInv, Formed, TypeOK
<1> HIDE DEF v
<1>5. Like(r, v, Links, "")
  BY <1>2, <1>4, LinksRefer, RefersSays DEF Tells, Closures
<1>6. Write(Step["index"], "index", r)
  BY DEF WriteIndex, r
<1>7. Worded(r) /\ ~r.skips
  BY <1>4, <1>5 DEF Tells, Like
<1>8. ReleaseInv' /\ file'["index"] = r
  BY <1>6, <1>7, PlainKeeps
<1>9. CleanRun /\ Flawless => Full("index", {"primary", "sidecar"})'
  BY <1>4, <1>5, <1>3, <1>8 DEF Tells, Like, Full, Passes
<1> QED
  BY <1>8, <1>9

-----------------------------------------------------------------------------
(* What the closure gate makes of what it reads. *)
ClosureStops == ClosureBlocks \/ "none" \in Linked(file["index"].refs) \/ Unapproved

ClosureWarns ==
    \/ Reads(ClosureWords, {"index"}, {"warning"})
    \/ ClosureComponents({"warning", "skipped"})
    \/ Linked(file["index"].refs) # {"full"} \/ signed = "no_window"

LEMMA IndexedTells ==
    ASSUME NEW c \in IndexReads
    PROVE  /\ Indexed(c) # "failed" => Stands(c)
           /\ Indexed(c) \notin {"failed", "warning"} /\ Worded(file[c]) => Passes(c)
<1>1. "fail" \in IndexWords.fail /\ "pass_with_warnings" \in IndexWords.warn
  BY DEF IndexWords, UsualWords
<1>2. c \notin IndexOptional
  BY DEF IndexReads, IndexOptional
<1>3. /\ Indexed(c) # "failed" => Review(IndexWords, c) \notin {"missing", "failed"}
      /\ Indexed(c) \notin {"failed", "warning"} => Review(IndexWords, c) \notin {"missing", "failed", "warning"}
  BY <1>2 DEF Indexed
<1> QED
  BY <1>1, <1>3, ReviewTells

(* Everything behind a report that is not blocked stands. *)
LEMMA GateStands ==
    ASSUME ReleaseInv, ~ClosureStops
    PROVE  \A c \in Reviewed : Stands(c)
<1>1. ~Reads(ClosureWords, {"index"}, {"missing", "failed", "unknown"}) /\ ~ClosureComponents({"failed"})
  BY DEF ClosureStops, ClosureBlocks
<1>2. "fail" \in ClosureWords.fail
  BY DEF ClosureWords
<1>3. Stands("index")
  BY <1>1, <1>2, ReviewTells DEF Reads
<1>4. \A c \in IndexReads : Stands(c)
  BY <1>1, IndexedTells DEF ClosureComponents
<1>5. {"decision", "retention", "sidecar", "replay", "metadata"} \subseteq IndexReads
  BY DEF IndexReads
<1>6. Stands("post_run") /\ Stands("summary") /\ \A c \in Upstream : Stands(c)
  BY <1>4, <1>5 DEF ReleaseInv, Vouched
<1> QED
  BY <1>3, <1>4, <1>5, <1>6 DEF Reviewed

(* Everything behind one without warnings passes. *)
LEMMA GatePasses ==
    ASSUME ReleaseInv, ~ClosureStops, ~ClosureWarns
    PROVE  /\ \A c \in Reviewed : Passes(c)
           /\ \A c \in Upstream \ {"matrix"} : ~file[c].skips
           /\ upload["primary"] = "full" /\ upload["sidecar"] = "full" /\ signed = "complete"
<1>1. /\ ~Reads(ClosureWords, {"index"}, {"missing", "failed", "unknown"}) /\ ~ClosureComponents({"failed"})
      /\ ~Reads(ClosureWords, {"index"}, {"warning"}) /\ ~ClosureComponents({"warning", "skipped"})
  BY DEF ClosureStops, ClosureWarns, ClosureBlocks
<1>2. "fail" \in ClosureWords.fail /\ "pass_with_warnings" \in ClosureWords.warn
  BY DEF ClosureWords
<1>3. "index" \in Components /\ IndexReads \subseteq Components
  BY DEF IndexReads, Components, Upstream, Exporters
<1>4. \A c \in IndexReads \cup {"index"} : Worded(file[c])
  BY <1>3 DEF ReleaseInv, Formed
<1>5. Passes("index")
  BY <1>1, <1>2, <1>4, ReviewTells DEF Reads
<1>6. \A c \in IndexReads : Passes(c)
  BY <1>1, <1>4, IndexedTells DEF ClosureComponents
<1>7. {"decision", "retention", "sidecar", "replay", "metadata"} \subseteq IndexReads
  BY DEF IndexReads
<1>8. Passes("post_run") /\ Passes("summary") /\ \A c \in Upstream : Passes(c)
  BY <1>6, <1>7 DEF ReleaseInv, Vouched
<1>9. \A c \in Reviewed : Passes(c)
  BY <1>5, <1>6, <1>7, <1>8 DEF Reviewed
<1>10. signed = "complete"
  BY DEF ClosureStops, ClosureWarns, Unapproved, ReleaseInv, Formed, TypeOK, Signed
<1> QED
  BY <1>6, <1>7, <1>8, <1>9, <1>10 DEF ReleaseInv, Vouched

LEMMA ClosureKeeps ==
    ASSUME ReleaseInv, WriteClosure
    PROVE  ReleaseInv' /\ (CleanRun /\ Flawless /\ signed = "complete" => Promotes("closure")')
<1> DEFINE b == ClosureStops
           w == ClosureWarns
           v == Strict("promotion_ready", "watch", "blocked", b, w)
           refs == file["index"].refs
           r == Closure
<1>1. b \in BOOLEAN /\ w \in BOOLEAN
  BY DEF ClosureStops, ClosureWarns, ClosureBlocks, Reads, ClosureComponents, Unapproved
<1>2. r = [v EXCEPT !.refs = refs, !.closure = v.decision]
  BY DEF Closure, ClosureStops, ClosureWarns
<1>3. refs \in [Uploads -> Refs]
  BY DEF ReleaseInv, Formed, TypeOK, Exporters, Reports
<1>4. ASSUME CleanRun, Flawless, signed = "complete" PROVE ~b /\ ~w
  <2>1. pc = 12 /\ Formed
    BY DEF WriteClosure, Write, At, Step, ReleaseInv
  <2>2. IndexReads \cup {"index"} \subseteq Components /\ \A c \in IndexReads \cup {"index"} : Passes(c)
    BY <2>1, <1>4
    DEF IndexReads, Components, Upstream, Exporters, CleanRun, Clean, Passes, Flawless, Full
  <2>3. \A c \in IndexReads : Indexed(c) = "passed"
    BY <2>1, <2>2, FairLists, ReviewClean DEF Indexed
  <2>4. Exists("index")
    BY <2>1, <2>2, PassingSays
  <2>5. ~ClosureComponents({"failed"}) /\ ~ClosureComponents({"warning", "skipped"})
    BY <2>3, <2>4 DEF ClosureComponents
  <2>6. Linked(file["index"].refs) = {"full"}
    BY <2>1, <1>4 DEF Flawless, Full, Linked
  <2>7. /\ ~Reads(ClosureWords, {"index"}, {"missing", "failed", "unknown"})
        /\ ~Reads(ClosureWords, {"index"}, {"warning"})
    BY <2>1, <2>2, FairLists, ReadsClean
  <2> QED
    BY <1>4, <2>5, <2>6, <2>7 DEF ClosureStops, ClosureWarns, ClosureBlocks, Unapproved
<1> HIDE DEF b, w, r, refs
<1>5. Tells(v, "promotion_ready", "watch", "blocked", b, w)
  BY <1>1, StrictTells DEF Trio, ReleaseInv, Formed, TypeOK
<1> HIDE DEF v
<1>6. v.decision \in {"promotion_ready", "watch", "blocked"}
  BY <1>5 DEF Tells
<1>7. Like(r, v, refs, v.decision)
  BY <1>2, <1>3, <1>5, <1>6, RefersSays DEF Tells, Closures
<1>8. Formed' /\ Wrote("closure", r) /\ pc = 12 /\ pc' = 13
  <2>1. Write(12, "closure", r)
    BY DEF WriteClosure, Step, r
  <2>2. Formed /\ Worded(r) /\ ~r.skips
    BY <1>5, <1>7 DEF ReleaseInv, Tells, Like
  <2>3. "closure" \in Exporters /\ 12 \in 1 .. 19 /\ Step["closure"] = 12
    BY DEF Exporters, Step
  <2> QED
    BY <2>1, <2>2, <2>3, WriteKeeps
<1>9. /\ \A x \in Reviewed : file'[x] = file[x]
      /\ file'["closure"] = r /\ UNCHANGED <<upload, signed>>
  BY <1>8, Apart DEF Wrote, Components, Exporters, Reviewed
<1>10. Upstream \cup {"post_run", "summary", "decision", "metadata", "sidecar"} \subseteq Reviewed
  BY DEF Reviewed
<1>11. (UploadsKnown /\ Vouched)'
  <2>1. UploadsKnown'
    BY <1>8, <1>9, <1>10 DEF ReleaseInv, UploadsKnown, Step
  <2>2. Vouched'
    BY <1>9, <1>10 DEF ReleaseInv, Vouched, Passes, Stands, Exists
  <2> QED
    BY <2>1, <2>2
<1>12. r.closure = v.decision /\ r.decision = v.decision
  BY <1>7 DEF Like
<1>13. PromotionEarned'
  <2> SUFFICES ASSUME Promoted' PROVE PromotionEarned'
    BY DEF PromotionEarned
  <2>1. ~ClosureStops /\ ~ClosureWarns
    BY <1>5, <1>9, <1>12 DEF Promoted, Tells, b, w
  <2> QED
    BY <1>9, <1>10, <2>1, GatePasses DEF PromotionEarned, Passes
<1>14. WatchEarned'
  <2> SUFFICES ASSUME file'["closure"].closure \in {"promotion_ready", "watch"} PROVE \A c \in Reviewed : Stands(c)'
    BY DEF WatchEarned
  <2>1. ~ClosureStops
    BY <1>5, <1>9, <1>12 DEF Tells, b
  <2> QED
    BY <1>9, <2>1, GateStands DEF Stands, Exists
<1>15. ClosureThere'
  BY <1>6, <1>9, <1>12 DEF ClosureThere, Exists
<1>16. CleanRun /\ Flawless /\ signed = "complete" => Promotes("closure")'
  BY <1>5, <1>7, <1>9, <1>12, <1>4 DEF Tells, Like, Promotes, Passes
<1> QED
  BY <1>8, <1>9, <1>11, <1>13, <1>14, <1>15, <1>16 DEF ReleaseInv

-----------------------------------------------------------------------------
(* Steps that write nothing the closure rests on.  An upload it rests on is made *)
(* before it, and before the report that vouches for it.                        *)
LEMMA NothingWritten ==
    ASSUME ReleaseInv, Formed', \A x \in Reviewed \cup {"closure"} : file'[x] = file[x], UNCHANGED signed,
           UploadsKnown',
           \/ upload'["primary"] = upload["primary"] /\ upload'["sidecar"] = upload["sidecar"]
           \/ ~Passes("sidecar") /\ Undecided
    PROVE  ReleaseInv'
<1>1. Upstream \cup {"post_run", "summary", "decision", "sidecar"} \subseteq Reviewed
  BY DEF Reviewed
<1>2. Vouched'
  BY <1>1 DEF ReleaseInv, Vouched, Passes, Stands, Exists
<1>3. PromotionEarned'
  BY <1>1 DEF ReleaseInv, PromotionEarned, Promoted, Undecided
<1>4. (WatchEarned /\ ClosureThere)'
  BY DEF ReleaseInv, WatchEarned, ClosureThere, Stands, Exists
<1> QED
  BY <1>2, <1>3, <1>4 DEF ReleaseInv

LEMMA LaterKeeps ==
    ASSUME ReleaseInv, NEW c \in {"closure_result", "archive", "archive_upload", "score", "drift"},
           NEW r, Worded(r), ~r.skips, Write(Step[c], c, r)
    PROVE  ReleaseInv' /\ file'[c] = r
<1>1. c \in Exporters /\ Step[c] \in 14 .. 19
  BY DEF Exporters, Step
<1>2. Formed
  BY DEF ReleaseInv
<1>3. Step[c] \in 1 .. 19
  BY <1>1
<1>4. Formed' /\ Wrote(c, r) /\ pc = Step[c] /\ pc' = Step[c] + 1
  BY <1>1, <1>2, <1>3, WriteKeeps
<1>5. c \notin Reviewed \cup {"closure"} /\ Reviewed \cup {"closure"} \subseteq Components
  BY <1>1, Apart DEF Reviewed, Components, Exporters
<1>6. (\A x \in Reviewed \cup {"closure"} : file'[x] = file[x]) /\ UNCHANGED <<upload, signed>>
  BY <1>4, <1>5 DEF Wrote
<1>7. UploadsKnown'
  BY <1>1, <1>4, <1>6 DEF ReleaseInv, UploadsKnown, Reviewed, Step
<1> QED
  BY <1>4, <1>6, <1>7, NothingWritten DEF Wrote

(* The exporters after the closure write reports in the words of the others. *)
LEMMA ClosureResultKeeps ==
    ASSUME ReleaseInv, WriteClosureResult
    PROVE  /\ ReleaseInv'
           /\ CleanRun /\ Flawless => (/\ Full("closure_result", {"final"}) /\ Promotes("closure_result")
                                     /\ file["closure_result"].decision = "passed")'
<1> DEFINE b == \/ file["closure"].closure \notin ClosureDecisions
                \/ upload["final"] = "none"
                \/ \E c \in FinalFiles : ~Exists(c)
           w == file["closure"].closure = "watch" \/ upload["final"] # "full"
           v == Strict("passed", "warning", "failed", b, w)
           refs == [NoRefs EXCEPT !["final"] = upload["final"]]
           closure == file["closure"].closure
           r == ClosureResult
<1>1. b \in BOOLEAN /\ w \in BOOLEAN
  OBVIOUS
<1>2. r = [v EXCEPT !.refs = refs, !.closure = closure]
  BY DEF ClosureResult
<1>3. refs \in [Uploads -> Refs]
  BY DEF ReleaseInv, Formed, TypeOK, NoRefs, Uploads, Refs
<1>4. closure \in Closures
  BY DEF ReleaseInv, Formed, TypeOK, Exporters, Reports, Closures
<1>5. ASSUME CleanRun, Flawless PROVE ~b /\ ~w /\ refs["final"] = "full" /\ closure = "promotion_ready"
  <2>1. pc = 14 /\ Formed
    BY DEF WriteClosureResult, Write, At, Step, ReleaseInv
  <2>2. FinalFiles \subseteq Components /\ \A c \in FinalFiles : Passes(c)
    BY <2>1, <1>5 DEF FinalFiles, Components, Exporters, Flawless, Full, Promotes
  <2>3. \A c \in FinalFiles : Exists(c)
    BY <2>1, <2>2, PassingSays
  <2>4. closure = "promotion_ready" /\ upload["final"] = "full"
    BY <2>1, <1>5 DEF Flawless, Promotes
  <2>5. refs["final"] = "full"
    BY <2>4 DEF NoRefs, Uploads
  <2> QED
    BY <2>3, <2>4, <2>5 DEF ClosureDecisions
<1> HIDE DEF b, w, r, refs, closure
<1>6. Tells(v, "passed", "warning", "failed", b, w)
  BY <1>1, StrictTells DEF Trio, ReleaseInv, Formed, TypeOK
<1> HIDE DEF v
<1>7. Like(r, v, refs, closure)
  BY <1>2, <1>3, <1>4, <1>6, RefersSays DEF Tells
<1>8. Write(Step["closure_result"], "closure_result", r)
  BY DEF WriteClosureResult, r
<1>9. Worded(r) /\ ~r.skips
  BY <1>6, <1>7 DEF Tells, Like
<1>10. ReleaseInv' /\ file'["closure_result"] = r
  BY <1>8, <1>9, LaterKeeps
<1> QED
  BY <1>6, <1>7, <1>5, <1>10 DEF Tells, Like, Full, Promotes, Passes

LEMMA ArchiveKeeps ==
    ASSUME ReleaseInv, WriteArchive
    PROVE  ReleaseInv' /\ (CleanRun /\ Flawless => Promotes("archive")')
<1> DEFINE b == \/ Reads(ArchiveWords, ArchiveReads, {"missing"})
                \/ Reads(ArchiveWords, ArchiveReads \ {"closure"}, {"failed"})
                \/ ~SameClosure \/ file["closure_result"].decision \notin {"passed", "warning"}
                \/ "none" \in ArchivedRefs
           w == Reads(ArchiveWords, ArchiveReads, {"warning", "unknown"}) \/ ArchivedRefs # {"full"}
           v == Strict("passed", "warning", "failed", b, w)
           closure == file["closure"].closure
           r == Archive
<1>1. b \in BOOLEAN /\ w \in BOOLEAN
  BY DEF Reads
<1>2. r = [v EXCEPT !.closure = closure]
  BY DEF Archive
<1>3. closure \in Closures
  BY DEF ReleaseInv, Formed, TypeOK, Exporters, Reports, Closures
<1>4. ASSUME CleanRun, Flawless PROVE ~b /\ ~w /\ closure = "promotion_ready"
  <2>1. pc = 15 /\ Formed
    BY DEF WriteArchive, Write, At, Step, ReleaseInv
  <2>2. ArchiveReads \subseteq Components /\ \A c \in ArchiveReads : Passes(c)
    BY <2>1, <1>4
    DEF ArchiveReads, Components, Upstream, Exporters, CleanRun, Clean, Passes, Flawless, Full, Promotes
  <2>3. /\ ~Reads(ArchiveWords, ArchiveReads, {"missing"})
        /\ ~Reads(ArchiveWords, ArchiveReads \ {"closure"}, {"failed"})
        /\ ~Reads(ArchiveWords, ArchiveReads, {"warning", "unknown"})
    BY <2>1, <2>2, FairLists, ReadsClean
  <2>4. /\ file["closure"].closure = "promotion_ready" /\ file["closure_result"].closure = "promotion_ready"
        /\ file["closure_result"].decision = "passed"
    BY <2>1, <1>4 DEF Flawless, Promotes
  <2>5. /\ \A c \in {"metadata", "retention", "sidecar", "replay", "index"} : file[c].refs["primary"] = "full"
        /\ \A c \in {"sidecar", "replay", "index"} : file[c].refs["sidecar"] = "full"
        /\ file["closure_result"].refs["final"] = "full"
    BY <2>1, <1>4 DEF Flawless, Full
  <2>6. ArchivedRefs = {"full"}
    BY <2>5 DEF ArchivedRefs
  <2>7. SameClosure
    BY <2>4 DEF SameClosure, ClosureDecisions
  <2> QED
    BY <2>3, <2>4, <2>6, <2>7
<1> HIDE DEF b, w, r, closure
<1>5. Tells(v, "passed", "warning", "failed", b, w)
  BY <1>1, StrictTells DEF Trio, ReleaseInv, Formed, TypeOK
<1> HIDE DEF v
<1>6. Like(r, v, NoRefs, closure)
  <2>1. NoRefs \in [Uploads -> Refs]
    BY DEF NoRefs, Refs
  <2>2. Like([v EXCEPT !.closure = closure], v, v.refs, closure)
    BY <1>3, <1>5, <2>1, RefersSays DEF Tells
  <2> QED
    BY <1>2, <1>5, <2>2 DEF Tells
<1>7. Write(Step["archive"], "archive", r)
  BY DEF WriteArchive, r
<1>8. Worded(r) /\ ~r.skips
  BY <1>5, <1>6 DEF Tells, Like
<1>9. ReleaseInv' /\ file'["archive"] = r
  BY <1>7, <1>8, LaterKeeps
<1> QED
  BY <1>5, <1>6, <1>4, <1>9 DEF Tells, Like, Promotes, Passes

LEMMA ArchiveUploadKeeps ==
    ASSUME ReleaseInv, WriteArchiveUpload
    PROVE  ReleaseInv' /\ (CleanRun /\ Flawless => Promotes("archive_upload")')
<1> DEFINE read == {"closure_result", "archive"}
           b == \/ Reads(ArchiveUploadWords, read, {"missing", "failed", "unknown"})
                \/ \E c \in read : file[c].closure \notin ClosureDecisions
                \/ file["archive"].closure # file["closure_result"].closure
                \/ upload["archive"] = "none"
           w == Reads(ArchiveUploadWords, read, {"warning"}) \/ upload["archive"] # "full"
           v == Strict("passed", "warning", "failed", b, w)
           closure == file["archive"].closure
           r == ArchiveUpload
<1>1. b \in BOOLEAN /\ w \in BOOLEAN
  BY DEF Reads
<1>2. r = [v EXCEPT !.closure = closure]
  BY DEF ArchiveUpload
<1>3. closure \in Closures
  BY DEF ReleaseInv, Formed, TypeOK, Exporters, Reports, Closures
<1>4. ASSUME CleanRun, Flawless PROVE ~b /\ ~w /\ closure = "promotion_ready"
  <2>1. pc = 17 /\ Formed
    BY DEF WriteArchiveUpload, Write, At, Step, ReleaseInv
  <2>2. read \subseteq Components /\ \A c \in read : Promotes(c)
    BY <2>1, <1>4 DEF Components, Exporters, Flawless
  <2>3. /\ ~Reads(ArchiveUploadWords, read, {"missing", "failed", "unknown"})
        /\ ~Reads(ArchiveUploadWords, read, {"warning"})
    BY <2>1, <2>2, FairLists, ReadsClean DEF Promotes
  <2>4. upload["archive"] = "full"
    BY <2>1, <1>4 DEF Flawless
  <2> QED
    BY <2>2, <2>3, <2>4 DEF Promotes, ClosureDecisions
<1> HIDE DEF b, w, r, closure
<1>5. Tells(v, "passed", "warning", "failed", b, w)
  BY <1>1, StrictTells DEF Trio, ReleaseInv, Formed, TypeOK
<1> HIDE DEF v
<1>6. Like(r, v, NoRefs, closure)
  <2>1. NoRefs \in [Uploads -> Refs]
    BY DEF NoRefs, Refs
  <2>2. Like([v EXCEPT !.closure = closure], v, v.refs, closure)
    BY <1>3, <1>5, <2>1, RefersSays DEF Tells
  <2> QED
    BY <1>2, <1>5, <2>2 DEF Tells
<1>7. Write(Step["archive_upload"], "archive_upload", r)
  BY DEF WriteArchiveUpload, r
<1>8. Worded(r) /\ ~r.skips
  BY <1>5, <1>6 DEF Tells, Like
<1>9. ReleaseInv' /\ file'["archive_upload"] = r
  BY <1>7, <1>8, LaterKeeps
<1> QED
  BY <1>5, <1>6, <1>4, <1>9 DEF Tells, Like, Promotes, Passes

LEMMA ScoreKeeps ==
    ASSUME ReleaseInv, WriteScore
    PROVE  ReleaseInv' /\ (CleanRun /\ Flawless => file'["score"].decision = "passed")
<1> DEFINE b == \/ \E c \in ScoreReads : Scored(c) = "failed"
                \/ Points * 100 < MinimumScore * 2 * Cardinality(ScoreReads)
                \/ Risk({"blocked"}) \/ Outcome \notin ClosureDecisions
           w == (\E c \in ScoreReads : Scored(c) = "warning") \/ Risk({"watch"})
           v == Strict("passed", "warning", "failed", b, w)
           r == Score
<1>1. b \in BOOLEAN /\ w \in BOOLEAN
  BY DEF Risk
<1>2. r = [v EXCEPT !.closure = Outcome]
  BY DEF Score
<1>3. Outcome \in Closures
  BY DEF Outcome, ReleaseInv, Formed, TypeOK, Exporters, Reports, Closures
<1>4. ASSUME CleanRun, Flawless PROVE ~b /\ ~w
  <2>1. pc = 18 /\ Formed
    BY DEF WriteScore, Write, At, Step, ReleaseInv
  <2>2. ScoreReads \subseteq Components /\ \A c \in ScoreReads : Passes(c)
    BY <2>1, <1>4 DEF ScoreReads, Components, Exporters, Flawless, Full, Promotes
  <2>3. \A c \in ScoreReads : Scored(c) = "passed"
    BY <2>1, <2>2, FairLists, ReviewClean DEF Scored
  <2>4. \A c \in {"closure", "archive_upload"} : file[c].closure = "promotion_ready"
    BY <2>1, <1>4 DEF Flawless, Promotes
  <2>5. Outcome = "promotion_ready" /\ ~Risk({"blocked"}) /\ ~Risk({"watch"})
    BY <2>4 DEF Outcome, Risk
  <2>6. ~(Points * 100 < MinimumScore * 2 * Cardinality(ScoreReads))
    <3>1. IsFiniteSet(ScoreReads)
      <4>1. ScoreReads = ({"decision", "retention", "sidecar"} \cup {"replay", "index", "closure"})
                             \cup {"closure_result", "archive", "archive_upload"}
        BY DEF ScoreReads
      <4> QED
        BY <4>1, Triple, FS_Union
    <3>2. {c \in ScoreReads : Scored(c) = "passed"} = ScoreReads /\ {c \in ScoreReads : Scored(c) = "warning"} = {}
      BY <2>3
    <3>3. Cardinality(ScoreReads) \in Nat /\ Cardinality({}) = 0
      BY <3>1, FS_CardinalityType, FS_EmptySet
    <3> DEFINE n == Cardinality(ScoreReads)
    <3>4. Points = 2 * n
      BY <3>2, <3>3 DEF Points
    <3> HIDE DEF n
    <3>5. ~(2 * n * 100 < MinimumScore * 2 * n)
      BY <3>3 DEF MinimumScore, n
    <3> QED
      BY <3>4, <3>5 DEF n
  <2> QED
    BY <2>3, <2>5, <2>6 DEF ClosureDecisions
<1> HIDE DEF b, w, r
<1>5. Tells(v, "passed", "warning", "failed", b, w)
  BY <1>1, StrictTells DEF Trio, ReleaseInv, Formed, TypeOK
<1> HIDE DEF v
<1>6. Like(r, v, NoRefs, Outcome)
  <2>1. NoRefs \in [Uploads -> Refs]
    BY DEF NoRefs, Refs
  <2>2. Like([v EXCEPT !.closure = Outcome], v, v.refs, Outcome)
    BY <1>3, <1>5, <2>1, RefersSays DEF Tells
  <2> QED
    BY <1>2, <1>5, <2>2 DEF Tells
<1>7. Write(Step["score"], "score", r)
  BY DEF WriteScore, r
<1>8. Worded(r) /\ ~r.skips
  BY <1>5, <1>6 DEF Tells, Like
<1>9. ReleaseInv' /\ file'["score"] = r
  BY <1>7, <1>8, LaterKeeps
<1> QED
  BY <1>5, <1>6, <1>4, <1>9 DEF Tells, Like

LEMMA DriftKeeps ==
    ASSUME ReleaseInv, WriteDrift
    PROVE  ReleaseInv'
<1> DEFINE compared == Exists("score") /\ baseline
           b == \/ ~Exists("score")
                \/ /\ compared
                   /\ \/ Drop * 100 > DropThreshold * 2 * Cardinality(ScoreReads)
                      \/ file["score"].ci = "fail" \/ file["score"].closure \notin {"promotion_ready", "watch"}
           w == ~baseline \/ (compared /\ (Drop > 0 \/ file["score"].ci # "pass"
                                              \/ file["score"].closure # "promotion_ready"))
           r == Drift
<1>1. b \in BOOLEAN /\ w \in BOOLEAN
  BY DEF ReleaseInv, Formed, TypeOK
<1>2. r = Verdict("passed", "warning", "failed", b, w)
  BY DEF Drift
<1> HIDE DEF b, w, r
<1>3. Tells(r, "passed", "warning", "failed", b, w)
  BY <1>1, <1>2, VerdictTells DEF Trio
<1>4. Write(Step["drift"], "drift", r)
  BY DEF WriteDrift, r
<1>5. Worded(r) /\ ~r.skips
  BY <1>3 DEF Tells
<1> QED
  BY <1>4, <1>5, LaterKeeps

LEMMA PutKeeps ==
    ASSUME ReleaseInv, NEW n \in {5, 8, 13, 16}, NEW u \in Uploads, NEW components, Put(n, u, components),
           n = 5 => u = "primary", n = 8 => u = "sidecar", n > 8 => u \in {"final", "archive"}
    PROVE  ReleaseInv' /\ pc = n /\ pc' = pc + 1 /\ UNCHANGED file
<1> PICK ref \in Refs \ {"none"} :
        /\ ref = "bare" => troubles < MaxTroubles
        /\ upload' = [upload EXCEPT ![u] = IF \E c \in components : Exists(c) THEN ref ELSE "none"]
        /\ troubles' = IF ref = "bare" THEN troubles + 1 ELSE troubles
  BY DEF Put
<1> DEFINE got == IF \E c \in components : Exists(c) THEN ref ELSE "none"
<1>1. got \in Refs /\ upload' = [upload EXCEPT ![u] = got]
  BY DEF Refs
<1> HIDE DEF got
<1>2. pc = n /\ pc' = n + 1 /\ UNCHANGED <<file, signed, warningsFail, baseline>>
  BY DEF Put, At
<1>3. /\ upload \in [Uploads -> Refs] /\ upload' \in [Uploads -> Refs] /\ upload'[u] = got
      /\ \A x \in Uploads \ {u} : upload'[x] = upload[x]
  BY <1>1 DEF ReleaseInv, Formed, TypeOK
<1>4. TypeOK'
  <2>1. troubles' \in 0 .. MaxTroubles
    BY ReleaseAssumption DEF ReleaseInv, Formed, TypeOK
  <2>2. pc' \in 1 .. 20
    BY <1>2
  <2> QED
    BY <1>2, <1>3, <2>1, <2>2 DEF ReleaseInv, Formed, TypeOK
<1>5. InOrder'
  <2> SUFFICES ASSUME NEW x \in Exporters \ {"metadata"}, pc' <= Step[x] PROVE file'[x] = Missing
    BY DEF InOrder
  <2>1. Step[x] \in Nat
    BY DEF Step, Exporters
  <2>2. pc <= Step[x]
    BY <1>2, <2>1
  <2> QED
    BY <1>2, <2>2 DEF ReleaseInv, Formed, InOrder
<1>6. Formed'
  BY <1>2, <1>4, <1>5 DEF ReleaseInv, Formed
<1>7. UploadsKnown'
  BY <1>2, <1>3 DEF ReleaseInv, UploadsKnown, Step, Uploads
<1>8. \/ upload'["primary"] = upload["primary"] /\ upload'["sidecar"] = upload["sidecar"]
      \/ ~Passes("sidecar") /\ Undecided
  <2>1. CASE n > 8
    BY <1>3, <2>1 DEF Uploads
  <2>2. CASE n <= 8
    <3>1. \A x \in {"sidecar", "closure"} : x \in Exporters \ {"metadata"} /\ pc <= Step[x]
      BY <1>2, <2>2 DEF Exporters, Step
    <3> QED
      BY <3>1, NotYet DEF ReleaseInv
  <2> QED
    BY <2>1, <2>2
<1> QED
  BY <1>2, <1>6, <1>7, <1>8, NothingWritten

LEMMA UploadKeeps ==
    ASSUME ReleaseInv, UploadPrimary \/ UploadSidecar \/ UploadFinal \/ UploadArchive
    PROVE  ReleaseInv' /\ pc \in {5, 8, 13, 16} /\ pc' = pc + 1 /\ UNCHANGED file
<1>1. CASE UploadPrimary
  BY <1>1, PutKeeps DEF UploadPrimary, Step, Uploads
<1>2. CASE UploadSidecar
  BY <1>2, PutKeeps DEF UploadSidecar, Step, Uploads
<1>3. CASE UploadFinal
  BY <1>3, PutKeeps DEF UploadFinal, Step, Uploads
<1>4. CASE UploadArchive
  BY <1>4, PutKeeps DEF UploadArchive, Step, Uploads
<1> QED
  BY <1>1, <1>2, <1>3, <1>4

(* A step that is lost leaves the report it would have written missing. *)
LEMMA LoseKeeps ==
    ASSUME ReleaseInv, LoseStep
    PROVE  ReleaseInv' /\ pc \in 1 .. 19 /\ pc' = pc + 1 /\ UNCHANGED <<file, upload>>
<1>1. /\ pc \in 1 .. 19 /\ pc' = pc + 1 /\ troubles' \in 0 .. MaxTroubles
      /\ UNCHANGED <<file, upload, signed, warningsFail, baseline>>
  BY ReleaseAssumption DEF ReleaseInv, Formed, TypeOK, LoseStep, At, Step
<1>2. TypeOK'
  BY <1>1 DEF ReleaseInv, Formed, TypeOK
<1>3. InOrder'
  <2> SUFFICES ASSUME NEW x \in Exporters \ {"metadata"}, pc' <= Step[x] PROVE file'[x] = Missing
    BY DEF InOrder
  <2>1. Step[x] \in Nat
    BY DEF Step, Exporters
  <2>2. pc <= Step[x]
    BY <1>1, <2>1
  <2> QED
    BY <1>1, <2>2 DEF ReleaseInv, Formed, InOrder
<1>4. Formed'
  BY <1>1, <1>2, <1>3 DEF ReleaseInv, Formed
<1>5. UploadsKnown'
  BY <1>1 DEF ReleaseInv, UploadsKnown, Step
<1> QED
  BY <1>1, <1>4, <1>5, NothingWritten

LEMMA ReleaseSteps == ReleaseInv /\ [Next]_vars => ReleaseInv'
<1> SUFFICES ASSUME ReleaseInv, [Next]_vars PROVE ReleaseInv'
  OBVIOUS
<1>1. CASE WriteMetadataPre \/ WritePostRun \/ WriteSummary \/ WriteDecision
  BY <1>1, MetadataPreKeeps, PostRunKeeps, SummaryKeeps, DecisionKeeps
<1>2. CASE WriteMetadata \/ WriteRetention \/ WriteSidecar \/ WriteReplay \/ WriteIndex \/ WriteClosure
  BY <1>2, MetadataKeeps, RetentionKeeps, SidecarKeeps, ReplayKeeps, IndexKeeps, ClosureKeeps
<1>3. CASE WriteClosureResult \/ WriteArchive \/ WriteArchiveUpload \/ WriteScore \/ WriteDrift
  BY <1>3, ClosureResultKeeps, ArchiveKeeps, ArchiveUploadKeeps, ScoreKeeps, DriftKeeps
<1>4. CASE UploadPrimary \/ UploadSidecar \/ UploadFinal \/ UploadArchive
  BY <1>4, UploadKeeps
<1>5. CASE LoseStep
  BY <1>5, LoseKeeps
<1>6. CASE UNCHANGED vars
  <2>1. file' = file /\ upload' = upload /\ signed' = signed /\ pc' = pc
    BY <1>6 DEF vars
  <2>2. Formed'
    BY <1>6 DEF vars, ReleaseInv, Formed, TypeOK, InOrder
  <2>3. UploadsKnown'
    BY <2>1 DEF ReleaseInv, UploadsKnown
  <2> QED
    BY <2>1, <2>2, <2>3, NothingWritten
<1> QED
  BY <1>1, <1>2, <1>3, <1>4, <1>5, <1>6 DEF Next

LEMMA ReleaseAlways == Spec => []ReleaseInv
BY ReleaseStarts, ReleaseSteps, PTL DEF Spec

(* Reports, uploads and approvals keep their types. *)
THEOREM ReleaseTyped == Spec => []TypeOK
<1>1. ReleaseInv => TypeOK
  BY DEF ReleaseInv, Formed
<1> QED
  BY <1>1, ReleaseAlways, PTL

(* Whatever is collected, lost or misread on the way, a release that is ready for  *)
(* promotion has every report passing, no skipped row, both uploads with their     *)
(* digests and every approval (export_protected_release_closure_gate.py and the    *)
(* exporters it follows).                                                          *)
THEOREM PromotionIsEarned == Spec => []PromotionEarned
<1>1. ReleaseInv => PromotionEarned
  BY DEF ReleaseInv
<1> QED
  BY <1>1, ReleaseAlways, PTL

-----------------------------------------------------------------------------
(* ReleaseGate: the reports behind the closure are handed in by the steps that  *)
(* write them, or that are lost in their place, and the closure gate decides.   *)
Pieces == {"post_run", "summary", "decision", "metadata", "retention", "sidecar", "replay", "index"}

LEMMA Handed ==
    /\ Reviewed = Upstream \cup Pieces /\ Pieces \subseteq Exporters
    /\ \A c \in Upstream : WrittenAt(c) = 0
    /\ \A c \in Pieces : WrittenAt(c) = Step[c] /\ Step[c] \in {2, 3, 4, 6, 7, 9, 10, 11}
    /\ \A c, d \in Pieces : Step[c] = Step[d] => c = d
<1>1. Reviewed = Upstream \cup Pieces /\ Pieces \subseteq Exporters
  BY DEF Reviewed, Pieces, Exporters
<1>2. \A c \in Upstream : c \notin Pieces
  BY <1>1, Apart
<1>3. \A c \in Upstream : WrittenAt(c) = 0
  BY <1>2 DEF WrittenAt, Pieces
<1>4. \A c \in Pieces : WrittenAt(c) = Step[c] /\ Step[c] \in {2, 3, 4, 6, 7, 9, 10, 11}
  BY DEF Pieces, WrittenAt, Step
<1>5. \A c, d \in Pieces : Step[c] = Step[d] => c = d
  BY DEF Pieces, Step
<1> QED
  BY <1>1, <1>3, <1>4, <1>5

standings == [c \in Reviewed |-> Standing(c)]

verdict == IF pc <= Step.closure THEN "open" ELSE IF Exists("closure") THEN file["closure"].closure ELSE "none"

LEMMA StandingStays ==
    ASSUME ReleaseInv, NEW c \in Reviewed, pc # WrittenAt(c), pc' = pc + 1,
           file'[c] = file[c] \/ pc < WrittenAt(c)
    PROVE  Standing(c)' = Standing(c)
<1>1. pc \in Nat /\ WrittenAt(c) \in Nat
  BY Handed DEF ReleaseInv, Formed, TypeOK
<1>2. CASE pc < WrittenAt(c)
  <2>1. pc <= WrittenAt(c) /\ pc' <= WrittenAt(c)
    BY <1>1, <1>2
  <2> QED
    BY <2>1 DEF Standing
<1>3. CASE pc > WrittenAt(c)
  <2>1. ~(pc <= WrittenAt(c)) /\ ~(pc' <= WrittenAt(c)) /\ file'[c] = file[c]
    BY <1>1, <1>3
  <2> QED
    BY <2>1 DEF Standing, Exists
<1> QED
  BY <1>1, <1>2, <1>3

(* A step that writes no piece, and not the closure, is none of the gate's. *)
LEMMA GateStutters ==
    ASSUME ReleaseInv, pc' = pc + 1, pc \in {1, 5, 8, 13, 14, 15, 16, 17, 18, 19},
           \A c \in (Reviewed \cup {"closure"}) \ {"metadata"} : file'[c] = file[c],
           pc # 1 => file'["metadata"] = file["metadata"]
    PROVE  UNCHANGED Gate!gateVars
<1>1. ASSUME NEW c \in Reviewed PROVE Standing(c)' = Standing(c)
  <2>1. pc # WrittenAt(c)
    BY Handed
  <2>2. file'[c] = file[c] \/ pc < WrittenAt(c)
    BY Handed DEF Pieces, WrittenAt, Step
  <2> QED
    BY <2>1, <2>2, StandingStays
<1>2. standings' = standings
  BY <1>1 DEF standings
<1>3. verdict' = verdict
  <2>1. (pc <= Step.closure) = (pc' <= Step.closure)
    BY DEF Step
  <2>2. file'["closure"] = file["closure"]
    OBVIOUS
  <2> QED
    BY <2>1, <2>2 DEF verdict, Exists
<1> QED
  BY <1>2, <1>3 DEF Gate!gateVars, standings, verdict

LEMMA GateHandsIn ==
    ASSUME ReleaseInv, NEW p \in Pieces, pc = Step[p], pc' = pc + 1,
           \A c \in Reviewed \ {p} : file'[c] = file[c]
    PROVE  Gate!HandIn(p)
<1>1. pc \in 2 .. 11 /\ WrittenAt(p) = pc /\ p \in Reviewed
  BY Handed
<1>2. verdict = "open" /\ verdict' = "open"
  BY <1>1 DEF verdict, Step
<1>3. Standing(p) = "open"
  BY <1>1 DEF Standing
<1>4. Standing(p)' \in {"clean", "warned", "failed"}
  BY <1>1 DEF Standing
<1>5. ASSUME NEW c \in Reviewed \ {p} PROVE Standing(c)' = Standing(c)
  <2>1. pc # WrittenAt(c)
    BY <1>1, Handed
  <2> QED
    BY <2>1, StandingStays
<1>6. standings' = [standings EXCEPT ![p] = standings'[p]] /\ standings[p] = "open"
      /\ standings'[p] \in {"clean", "warned", "failed"}
  BY <1>1, <1>3, <1>4, <1>5 DEF standings
<1> QED
  BY <1>2, <1>6 DEF Gate!HandIn, Gate!Standings, standings, verdict

(* Before the closure's turn all pieces are in; it is as good as the worst of them. *)
LEMMA GateDecides ==
    ASSUME ReleaseInv, ReleaseInv', pc = Step.closure, pc' = pc + 1, \A c \in Reviewed : file'[c] = file[c]
    PROVE  Gate!Decide
<1>1. \A c \in Reviewed : WrittenAt(c) \in 0 .. 11
  BY Handed
<1>2. pc = 12 /\ pc' = 13 /\ Step.closure = 12
  BY DEF Step
<1>3. \A c \in Reviewed : pc # WrittenAt(c) /\ ~(pc <= WrittenAt(c))
  BY <1>1, <1>2
<1>4. \A c \in Reviewed : Standing(c)' = Standing(c)
  BY <1>3, StandingStays
<1>5. standings' = standings
  BY <1>4 DEF standings
<1>6. \A c \in Reviewed : standings[c] # "open"
  BY <1>3 DEF standings, Standing
<1>7. verdict = "open" /\ verdict' = IF Exists("closure")' THEN file'["closure"].closure ELSE "none"
  BY <1>2 DEF verdict
<1>8. file'["closure"].closure \in Closures
  BY DEF ReleaseInv, Formed, TypeOK, Exporters, Reports, Closures
<1>9. verdict' \in {"promotion_ready", "watch", "blocked", "none"}
  BY <1>7, <1>8 DEF Closures, ReleaseInv, ClosureThere
<1>10. verdict' = "promotion_ready" => \A c \in Reviewed : standings[c] = "clean"
  <2> SUFFICES ASSUME verdict' = "promotion_ready", NEW c \in Reviewed PROVE standings[c] = "clean"
    OBVIOUS
  <2>1. Promoted'
    BY <1>7 DEF Promoted
  <2>2. Passes(c)
    BY <2>1 DEF ReleaseInv, PromotionEarned, Passes
  <2>3. c = "matrix" \/ ~file[c].skips
    <3>1. CASE c \in Upstream
      BY <2>1, <3>1, Handed DEF ReleaseInv, PromotionEarned
    <3>2. CASE c \in Pieces
      BY <3>2, Handed DEF ReleaseInv, Formed
    <3> QED
      BY <3>1, <3>2, Handed
  <2>4. Exists(c)
    BY <2>2, Apart DEF ReleaseInv, Formed, Worded, Spoken, Passes, Exists
  <2> QED
    BY <1>3, <2>2, <2>3, <2>4 DEF standings, Standing, Passes
<1>11. verdict' = "watch" => \A c \in Reviewed : standings[c] # "failed"
  <2> SUFFICES ASSUME verdict' = "watch", NEW c \in Reviewed PROVE standings[c] # "failed"
    OBVIOUS
  <2>1. Stands(c)
    BY <1>7 DEF ReleaseInv, WatchEarned, Stands, Exists
  <2> QED
    BY <1>3, <2>1 DEF standings, Standing, Stands
<1>12. PICK d \in {"promotion_ready", "watch", "blocked", "none"} : verdict' = d
  BY <1>9
<1>13. Gate!Allowed(d)
  BY <1>10, <1>11, <1>12 DEF Gate!Allowed, standings
<1> QED
  BY <1>5, <1>6, <1>7, <1>12, <1>13 DEF Gate!Decide, standings, verdict

LEMMA WriteTouches ==
    ASSUME ReleaseInv, NEW n, NEW c \in Exporters, NEW r, Write(n, c, r)
    PROVE  /\ pc = n /\ pc' = pc + 1 /\ UNCHANGED <<upload, signed, troubles>>
           /\ \A x \in Components \ {c} : file'[x] = file[x]
           /\ \A x \in (Reviewed \cup {"closure"}) \ {c} : file'[x] = file[x]
<1>1. Reviewed \cup {"closure"} \subseteq Components
  BY Apart DEF Components, Exporters
<1>2. file \in [Components -> Reports]
  BY DEF ReleaseInv, Formed, TypeOK, Components
<1>3. /\ pc = n /\ pc' = pc + 1 /\ file' = [file EXCEPT ![c] = r]
      /\ UNCHANGED <<upload, signed, troubles>>
  BY DEF Write, At
<1> QED
  BY <1>1, <1>2, <1>3

LEMMA PieceHandedIn ==
    ASSUME ReleaseInv, NEW p \in Pieces, NEW r, Write(Step[p], p, r)
    PROVE  Gate!HandIn(p)
<1>1. p \in Exporters
  BY Handed
<1>2. pc = Step[p] /\ pc' = pc + 1 /\ \A x \in Reviewed \ {p} : file'[x] = file[x]
  BY <1>1, WriteTouches
<1> QED
  BY <1>2, GateHandsIn

LEMMA GateStarts == Init => Gate!GateInit
<1> SUFFICES ASSUME Init PROVE Gate!GateInit
  OBVIOUS
<1>1. pc = 1
  BY DEF Init
<1>2. \A c \in Reviewed : Standing(c) \in {"clean", "warned", "failed", "open"}
  BY DEF Standing
<1>3. standings \in [Reviewed -> {"clean", "warned", "failed"} \cup {"open"}] /\ verdict = "open"
  BY <1>1, <1>2 DEF standings, verdict, Step
<1> QED
  BY <1>3 DEF Gate!GateInit, Gate!Standings, standings, verdict

LEMMA GateSteps == ReleaseInv /\ ReleaseInv' /\ [Next]_vars => [Gate!GateNext]_Gate!gateVars
<1> SUFFICES ASSUME ReleaseInv, ReleaseInv', [Next]_vars PROVE [Gate!GateNext]_Gate!gateVars
  OBVIOUS
<1>1. Pieces \subseteq Reviewed
  BY Handed
<1>2. CASE WritePostRun \/ WriteSummary \/ WriteDecision \/ WriteMetadata
  <2>1. \E p \in Pieces : Gate!HandIn(p)
    BY <1>2, PieceHandedIn DEF WritePostRun, WriteSummary, WriteDecision, WriteMetadata, Pieces, Step
  <2> QED
    BY <1>1, <2>1 DEF Gate!GateNext
<1>3. CASE WriteRetention \/ WriteSidecar \/ WriteReplay \/ WriteIndex
  <2>1. \E p \in Pieces : Gate!HandIn(p)
    BY <1>3, PieceHandedIn DEF WriteRetention, WriteSidecar, WriteReplay, WriteIndex, Pieces, Step
  <2> QED
    BY <1>1, <2>1 DEF Gate!GateNext
<1>4. CASE WriteClosure
  <2>1. Write(Step.closure, "closure", Closure) /\ "closure" \in Exporters /\ "closure" \notin Reviewed
    BY <1>4, ReleaseAssumption DEF WriteClosure, Exporters, Reviewed, Upstream
  <2>2. pc = Step.closure /\ pc' = pc + 1 /\ \A x \in Reviewed : file'[x] = file[x]
    BY <2>1, WriteTouches
  <2> QED
    BY <2>2, GateDecides DEF Gate!GateNext
<1>5. CASE WriteMetadataPre
  <2>1. Write(1, "metadata", MetadataPre) /\ "metadata" \in Exporters
    BY <1>5 DEF WriteMetadataPre, Exporters, Step
  <2> QED
    BY <2>1, WriteTouches, GateStutters
<1>6. CASE WriteClosureResult \/ WriteArchive \/ WriteArchiveUpload \/ WriteScore \/ WriteDrift
  <2>1. PICK c \in {"closure_result", "archive", "archive_upload", "score", "drift"} :
            \E r : Write(Step[c], c, r)
    BY <1>6 DEF WriteClosureResult, WriteArchive, WriteArchiveUpload, WriteScore, WriteDrift, Step
  <2>2. PICK r : Write(Step[c], c, r)
    BY <2>1
  <2>3. c \in Exporters /\ c \notin Reviewed \cup {"closure"} /\ Step[c] \in {14, 15, 17, 18, 19}
    BY ReleaseAssumption DEF Exporters, Reviewed, Upstream, Step
  <2>4. pc = Step[c] /\ pc' = pc + 1 /\ \A x \in Reviewed \cup {"closure"} : file'[x] = file[x]
    BY <2>2, <2>3, WriteTouches
  <2> QED
    BY <1>1, <2>3, <2>4, GateStutters DEF Pieces
<1>7. CASE UploadPrimary \/ UploadSidecar \/ UploadFinal \/ UploadArchive
  BY <1>7, UploadKeeps, GateStutters
<1>8. CASE LoseStep
  <2>1. pc \in 1 .. 19 /\ pc' = pc + 1 /\ UNCHANGED file
    BY <1>8, LoseKeeps
  <2>2. CASE pc \in {2, 3, 4, 6, 7, 9, 10, 11}
    <3>1. PICK p \in Pieces : pc = Step[p]
      BY <2>2 DEF Pieces, Step
    <3>2. Gate!HandIn(p)
      BY <2>1, <3>1, GateHandsIn
    <3> QED
      BY <1>1, <3>2 DEF Gate!GateNext
  <2>3. CASE pc = 12
    BY <2>1, <2>3, GateDecides DEF Gate!GateNext, Step
  <2>4. CASE pc \in {1, 5, 8, 13, 14, 15, 16, 17, 18, 19}
    BY <2>1, <2>4, GateStutters
  <2> QED
    BY <2>1, <2>2, <2>3, <2>4
<1>9. CASE UNCHANGED vars
  <2>1. file' = file /\ pc' = pc
    BY <1>9 DEF vars
  <2>2. standings' = standings /\ verdict' = verdict
    BY <2>1 DEF standings, verdict, Standing, Exists
  <2> QED
    BY <2>2 DEF Gate!gateVars, standings, verdict
<1> QED
  BY <1>2, <1>3, <1>4, <1>5, <1>6, <1>7, <1>8, <1>9 DEF Next

(* The closure gate is a release gate for every report behind it: its decision is  *)
(* made once, when all of them are there or lost, and is no better than the worst; *)
(* none of them is written after it.                                               *)
THEOREM GateIsKept == Spec => GateKept
<1>1. Init => ReleaseInv /\ Gate!GateInit
  BY ReleaseStarts, GateStarts
<1>2. ReleaseInv /\ [Next]_vars => ReleaseInv' /\ [Gate!GateNext]_Gate!gateVars
  BY ReleaseSteps, GateSteps
<1> QED
  BY <1>1, <1>2, PTL DEF Spec, GateKept, Gate!GateSpec

-----------------------------------------------------------------------------
(* No word is misread: what every exporter writes passes if all it reads does.  *)
Alone(c) ==
    /\ pc' = pc + 1 /\ UNCHANGED upload
    /\ \A x \in Exporters \ {c} : file'[x] = file[x]

LEMMA UntouchedBy ==
    ASSUME ReleaseInv, NEW n, NEW c \in Exporters, NEW r, Write(n, c, r)
    PROVE  Alone(c) /\ pc = n
BY WriteTouches DEF Alone, Components

LEMMA PutClean ==
    ASSUME ReleaseInv, NEW n, NEW u \in Uploads, NEW components, Put(n, u, components), troubles' = 0,
           NEW c \in components \cap Components, Passes(c)
    PROVE  upload'[u] = "full" /\ \A x \in Uploads \ {u} : upload'[x] = upload[x]
<1>1. Exists(c)
  BY PassingSays DEF ReleaseInv
<1>2. PICK ref \in Refs \ {"none"} :
          /\ upload' = [upload EXCEPT ![u] = IF \E x \in components : Exists(x) THEN ref ELSE "none"]
          /\ troubles' = IF ref = "bare" THEN troubles + 1 ELSE troubles
  BY DEF Put
<1>3. troubles \in Nat /\ upload \in [Uploads -> Refs]
  BY ReleaseAssumption DEF ReleaseInv, Formed, TypeOK
<1>4. ref = "full"
  BY <1>2, <1>3 DEF Refs
<1>5. upload' = [upload EXCEPT ![u] = "full"]
  BY <1>1, <1>2, <1>4
<1> QED
  BY <1>3, <1>5

(* Reports of earlier steps are never written, and no trouble is undone. *)
LEMMA CleanBefore ==
    ASSUME ReleaseInv, [Next]_vars, CleanRun', troubles' = 0
    PROVE  CleanRun /\ troubles = 0 /\ UNCHANGED signed
<1>1. troubles \in Nat
  BY ReleaseAssumption DEF ReleaseInv, Formed, TypeOK
<1>2. \A c \in Exporters : c \notin Upstream
  BY Apart
<1>3. ASSUME NEW n, NEW c \in Exporters, NEW r, Write(n, c, r)
      PROVE  (\A x \in Upstream : file'[x] = file[x]) /\ UNCHANGED <<signed, troubles>>
  BY <1>2, <1>3, WriteTouches DEF Components
<1>4. ASSUME NEW n, NEW u, NEW components, Put(n, u, components)
      PROVE  troubles = 0 /\ UNCHANGED <<file, signed>>
  BY <1>1, <1>4 DEF Put, At
<1>5. (\A x \in Upstream : file'[x] = file[x]) /\ troubles = 0 /\ UNCHANGED signed
  <2>1. CASE \/ WriteMetadataPre \/ WritePostRun \/ WriteSummary \/ WriteDecision \/ WriteMetadata
             \/ WriteRetention \/ WriteSidecar \/ WriteReplay
    BY <1>3, <2>1 DEF WriteMetadataPre, WritePostRun, WriteSummary, WriteDecision, WriteMetadata,
                      WriteRetention, WriteSidecar, WriteReplay, Exporters
  <2>2. CASE \/ WriteIndex \/ WriteClosure \/ WriteClosureResult \/ WriteArchive \/ WriteArchiveUpload
             \/ WriteScore \/ WriteDrift
    BY <1>3, <2>2 DEF WriteIndex, WriteClosure, WriteClosureResult, WriteArchive, WriteArchiveUpload,
                      WriteScore, WriteDrift, Exporters
  <2>3. CASE UploadPrimary \/ UploadSidecar \/ UploadFinal \/ UploadArchive
    BY <1>4, <2>3 DEF UploadPrimary, UploadSidecar, UploadFinal, UploadArchive
  <2>4. CASE LoseStep
    BY <1>1, <2>4 DEF LoseStep
  <2>5. CASE UNCHANGED vars
    BY <2>5 DEF vars
  <2> QED
    BY <2>1, <2>2, <2>3, <2>4, <2>5 DEF Next
<1> QED
  BY <1>5 DEF CleanRun, Clean

LEMMA CleanSteps == ReleaseInv /\ CleanInv /\ [Next]_vars => CleanInv'
<1> SUFFICES ASSUME ReleaseInv, CleanInv, [Next]_vars, CleanRun', troubles' = 0, signed' = "complete"
             PROVE  Flawless'
  BY DEF CleanInv
<1>1. CleanRun /\ Flawless /\ troubles = 0 /\ signed = "complete" /\ pc \in 1 .. 20 /\ troubles' = 0
  BY CleanBefore DEF CleanInv, ReleaseInv, Formed, TypeOK
<1>2. CASE WriteMetadataPre
  <2>1. Write(1, "metadata", MetadataPre) /\ "metadata" \in Exporters
    BY <1>2 DEF WriteMetadataPre, Exporters, Step
  <2>2. Alone("metadata") /\ pc = 1
    BY <2>1, UntouchedBy
  <2>3. Passes("metadata")'
    BY <1>2, <1>1, <2>2, MetadataPreKeeps DEF Alone
  <2> QED
    BY <1>1, <2>2, <2>3 DEF Alone, Exporters, Flawless, Full, Promotes, Passes
<1>3. CASE WritePostRun
  <2>1. Write(2, "post_run", PostRun) /\ "post_run" \in Exporters
    BY <1>3 DEF WritePostRun, Exporters, Step
  <2>2. Alone("post_run") /\ pc = 2
    BY <2>1, UntouchedBy
  <2>3. Passes("post_run")'
    BY <1>3, <1>1, <2>2, PostRunKeeps DEF Alone
  <2> QED
    BY <1>1, <2>2, <2>3 DEF Alone, Exporters, Flawless, Full, Promotes, Passes
<1>4. CASE WriteSummary
  <2>1. Write(3, "summary", Summary) /\ "summary" \in Exporters
    BY <1>4 DEF WriteSummary, Exporters, Step
  <2>2. Alone("summary") /\ pc = 3
    BY <2>1, UntouchedBy
  <2>3. Passes("summary")'
    BY <1>4, <1>1, <2>2, SummaryKeeps DEF Alone
  <2> QED
    BY <1>1, <2>2, <2>3 DEF Alone, Exporters, Flawless, Full, Promotes, Passes
<1>5. CASE WriteDecision
  <2>1. Write(4, "decision", Decision) /\ "decision" \in Exporters
    BY <1>5 DEF WriteDecision, Exporters, Step
  <2>2. Alone("decision") /\ pc = 4
    BY <2>1, UntouchedBy
  <2>3. Passes("decision")'
    BY <1>5, <1>1, <2>2, DecisionKeeps DEF Alone
  <2> QED
    BY <1>1, <2>2, <2>3 DEF Alone, Exporters, Flawless, Full, Promotes, Passes
<1>6. CASE WriteMetadata
  <2>1. Write(6, "metadata", Metadata) /\ "metadata" \in Exporters
    BY <1>6 DEF WriteMetadata, Exporters, Step
  <2>2. Alone("metadata") /\ pc = 6
    BY <2>1, UntouchedBy
  <2>3. Full("metadata", {"primary"})'
    BY <1>6, <1>1, <2>2, MetadataKeeps DEF Alone
  <2> QED
    BY <1>1, <2>2, <2>3 DEF Alone, Exporters, Flawless, Full, Promotes, Passes
<1>7. CASE WriteRetention
  <2>1. Write(7, "retention", Retention) /\ "retention" \in Exporters
    BY <1>7 DEF WriteRetention, Exporters, Step
  <2>2. Alone("retention") /\ pc = 7
    BY <2>1, UntouchedBy
  <2>3. Full("retention", {"primary"})'
    BY <1>7, <1>1, <2>2, RetentionKeeps DEF Alone
  <2> QED
    BY <1>1, <2>2, <2>3 DEF Alone, Exporters, Flawless, Full, Promotes, Passes
<1>8. CASE WriteSidecar
  <2>1. Write(9, "sidecar", Sidecar) /\ "sidecar" \in Exporters
    BY <1>8 DEF WriteSidecar, Exporters, Step
  <2>2. Alone("sidecar") /\ pc = 9
    BY <2>1, UntouchedBy
  <2>3. Full("sidecar", {"primary", "sidecar"})'
    BY <1>8, <1>1, <2>2, SidecarKeeps DEF Alone
  <2> QED
    BY <1>1, <2>2, <2>3 DEF Alone, Exporters, Flawless, Full, Promotes, Passes
<1>9. CASE WriteReplay
  <2>1. Write(10, "replay", Replay) /\ "replay" \in Exporters
    BY <1>9 DEF WriteReplay, Exporters, Step
  <2>2. Alone("replay") /\ pc = 10
    BY <2>1, UntouchedBy
  <2>3. Full("replay", {"primary", "sidecar"})'
    BY <1>9, <1>1, <2>2, ReplayKeeps DEF Alone
  <2> QED
    BY <1>1, <2>2, <2>3 DEF Alone, Exporters, Flawless, Full, Promotes, Passes
<1>10. CASE WriteIndex
  <2>1. Write(11, "index", Index) /\ "index" \in Exporters
    BY <1>10 DEF WriteIndex, Exporters, Step
  <2>2. Alone("index") /\ pc = 11
    BY <2>1, UntouchedBy
  <2>3. Full("index", {"primary", "sidecar"})'
    BY <1>10, <1>1, <2>2, IndexKeeps DEF Alone
  <2> QED
    BY <1>1, <2>2, <2>3 DEF Alone, Exporters, Flawless, Full, Promotes, Passes
<1>11. CASE WriteClosure
  <2>1. Write(12, "closure", Closure) /\ "closure" \in Exporters
    BY <1>11 DEF WriteClosure, Exporters, Step
  <2>2. Alone("closure") /\ pc = 12
    BY <2>1, UntouchedBy
  <2>3. Promotes("closure")'
    BY <1>11, <1>1, <2>2, ClosureKeeps DEF Alone
  <2> QED
    BY <1>1, <2>2, <2>3 DEF Alone, Exporters, Flawless, Full, Promotes, Passes
<1>12. CASE WriteClosureResult
  <2>1. Write(14, "closure_result", ClosureResult) /\ "closure_result" \in Exporters
    BY <1>12 DEF WriteClosureResult, Exporters, Step
  <2>2. Alone("closure_result") /\ pc = 14
    BY <2>1, UntouchedBy
  <2>3. (/\ Full("closure_result", {"final"}) /\ Promotes("closure_result")
          /\ file["closure_result"].decision = "passed")'
    BY <1>12, <1>1, <2>2, ClosureResultKeeps DEF Alone
  <2> QED
    BY <1>1, <2>2, <2>3 DEF Alone, Exporters, Flawless, Full, Promotes, Passes
<1>13. CASE WriteArchive
  <2>1. Write(15, "archive", Archive) /\ "archive" \in Exporters
    BY <1>13 DEF WriteArchive, Exporters, Step
  <2>2. Alone("archive") /\ pc = 15
    BY <2>1, UntouchedBy
  <2>3. Promotes("archive")'
    BY <1>13, <1>1, <2>2, ArchiveKeeps DEF Alone
  <2> QED
    BY <1>1, <2>2, <2>3 DEF Alone, Exporters, Flawless, Full, Promotes, Passes
<1>14. CASE WriteArchiveUpload
  <2>1. Write(17, "archive_upload", ArchiveUpload) /\ "archive_upload" \in Exporters
    BY <1>14 DEF WriteArchiveUpload, Exporters, Step
  <2>2. Alone("archive_upload") /\ pc = 17
    BY <2>1, UntouchedBy
  <2>3. Promotes("archive_upload")'
    BY <1>14, <1>1, <2>2, ArchiveUploadKeeps DEF Alone
  <2> QED
    BY <1>1, <2>2, <2>3 DEF Alone, Exporters, Flawless, Full, Promotes, Passes
<1>15. CASE WriteScore
  <2>1. Write(18, "score", Score) /\ "score" \in Exporters
    BY <1>15 DEF WriteScore, Exporters, Step
  <2>2. Alone("score") /\ pc = 18
    BY <2>1, UntouchedBy
  <2>3. file'["score"].decision = "passed"
    BY <1>15, <1>1, <2>2, ScoreKeeps DEF Alone
  <2> QED
    BY <1>1, <2>2, <2>3 DEF Alone, Exporters, Flawless, Full, Promotes, Passes
<1>16. CASE WriteDrift
  <2>1. Write(19, "drift", Drift) /\ "drift" \in Exporters
    BY <1>16 DEF WriteDrift, Exporters, Step
  <2>2. Alone("drift") /\ pc = 19
    BY <2>1, UntouchedBy
  <2> QED
    BY <1>1, <2>2 DEF Alone, Exporters, Flawless, Full, Promotes, Passes
<1>17. CASE UploadPrimary
  <2> DEFINE found == Upstream \cup {"metadata", "post_run", "summary", "decision"}
  <2>1. Put(5, "primary", found) /\ "decision" \in found \cap Components /\ "primary" \in Uploads
    BY <1>17 DEF UploadPrimary, Step, Uploads, Components, Exporters
  <2>2. pc = 5 /\ pc' = pc + 1 /\ UNCHANGED file
    BY <2>1 DEF Put, At
  <2>3. Passes("decision")
    BY <1>1, <2>2 DEF Flawless, Full, Promotes
  <2> HIDE DEF found
  <2>4. upload'["primary"] = "full" /\ \A x \in Uploads \ {"primary"} : upload'[x] = upload[x]
    BY <1>1, <2>1, <2>3, PutClean
  <2> QED
    BY <1>1, <2>2, <2>4 DEF Uploads, Flawless, Full, Promotes, Passes
<1>18. CASE UploadSidecar
  <2> DEFINE found == {"metadata", "retention"}
  <2>1. Put(8, "sidecar", found) /\ "retention" \in found \cap Components /\ "sidecar" \in Uploads
    BY <1>18 DEF UploadSidecar, Step, Uploads, Components, Exporters
  <2>2. pc = 8 /\ pc' = pc + 1 /\ UNCHANGED file
    BY <2>1 DEF Put, At
  <2>3. Passes("retention")
    BY <1>1, <2>2 DEF Flawless, Full, Promotes
  <2> HIDE DEF found
  <2>4. upload'["sidecar"] = "full" /\ \A x \in Uploads \ {"sidecar"} : upload'[x] = upload[x]
    BY <1>1, <2>1, <2>3, PutClean
  <2> QED
    BY <1>1, <2>2, <2>4 DEF Uploads, Flawless, Full, Promotes, Passes
<1>19. CASE UploadFinal
  <2> DEFINE found == FinalFiles
  <2>1. Put(13, "final", found) /\ "closure" \in found \cap Components /\ "final" \in Uploads
    BY <1>19 DEF UploadFinal, Step, Uploads, Components, Exporters, FinalFiles
  <2>2. pc = 13 /\ pc' = pc + 1 /\ UNCHANGED file
    BY <2>1 DEF Put, At
  <2>3. Passes("closure")
    BY <1>1, <2>2 DEF Flawless, Full, Promotes
  <2> HIDE DEF found
  <2>4. upload'["final"] = "full" /\ \A x \in Uploads \ {"final"} : upload'[x] = upload[x]
    BY <1>1, <2>1, <2>3, PutClean
  <2> QED
    BY <1>1, <2>2, <2>4 DEF Uploads, Flawless, Full, Promotes, Passes
<1>20. CASE UploadArchive
  <2> DEFINE found == {"closure_result", "archive"}
  <2>1. Put(16, "archive", found) /\ "archive" \in found \cap Components /\ "archive" \in Uploads
    BY <1>20 DEF UploadArchive, Step, Uploads, Components, Exporters
  <2>2. pc = 16 /\ pc' = pc + 1 /\ UNCHANGED file
    BY <2>1 DEF Put, At
  <2>3. Passes("archive")
    BY <1>1, <2>2 DEF Flawless, Full, Promotes
  <2> HIDE DEF found
  <2>4. upload'["archive"] = "full" /\ \A x \in Uploads \ {"archive"} : upload'[x] = upload[x]
    BY <1>1, <2>1, <2>3, PutClean
  <2> QED
    BY <1>1, <2>2, <2>4 DEF Uploads, Flawless, Full, Promotes, Passes
<1>21. CASE LoseStep
  BY <1>1, <1>21 DEF LoseStep
<1>22. CASE UNCHANGED vars
  BY <1>1, <1>22 DEF vars, Flawless, Full, Promotes, Passes
<1> QED
  BY <1>2, <1>3, <1>4, <1>5, <1>6, <1>7, <1>8, <1>9, <1>10, <1>11, <1>12, <1>13, <1>14, <1>15, <1>16,
     <1>17, <1>18, <1>19, <1>20, <1>21, <1>22 DEF Next

(* The words of every exporter are known to those that read them: if all that was    *)
(* collected passes, nothing is lost and everything is signed, the release is        *)
(* promoted and its evidence passes its score.                                       *)
THEOREM CleanRunIsPromoted == Spec => []CleanRunPromoted
<1>1. Init => CleanInv
  BY DEF Init, CleanInv, Flawless
<1>2. ReleaseInv /\ CleanInv => CleanRunPromoted
  BY DEF CleanInv, Flawless, Promotes, CleanRunPromoted, Promoted
<1> QED
  BY <1>1, <1>2, ReleaseAlways, CleanSteps, PTL DEF Spec
==============================================================================
