---------------------------- MODULE EvidenceProofs ----------------------------
(***************************************************************************)
(* Proofs about ReleaseChain and OfflineEvidence, for any number of        *)
(* scripts that die, of sales, of changes and of reports that are lost.    *)
(*                                                                         *)
(* The bundle of the chain reads the files that are there and the exit     *)
(* codes.  What is inductive says of each file that this execution wrote   *)
(* what its decision vouches for (Told), and that a script that should     *)
(* have written one and did not has failed (Accounted).  The other way     *)
(* round, GoodSoFar says that on a favourable chain every script so far    *)
(* ended well and what it wrote is good, which is what the next one needs. *)
(*                                                                         *)
(* OfflineEarned is about the sales there were when the server was asked,  *)
(* which no report holds.  StuckTold carries what is known of them from    *)
(* the answer to the snapshot's figures, for the pilot to read there.      *)
(***************************************************************************)
EXTENDS ReleaseChain, OfflineEvidence, FiniteSetTheorems, TLAPS

Told ==
    /\ report["infra"].fresh => On("infra") = Infra
    /\ report["readiness"].fresh => /\ On("readiness") \in {"passed", "warning", "failed"}
                                    /\ On("readiness") = "passed" => input.providers
    /\ report["ops"].fresh => /\ On("ops") \in {"ready", "warning", "blocked"}
                              /\ On("ops") = "ready" => input.evidence = "good"
                              /\ input.evidence = "failed" => On("ops") = "blocked"
    /\ report["signoff"].fresh => /\ On("signoff") \in {"ready", "warning", "blocked"}
                                  /\ input.evidence = "missing" => On("signoff") = "blocked"
    /\ report["gate"].fresh => /\ On("gate") \in {"ready", "warning", "blocked"}
                               /\ On("gate") = "ready" => input.references

Accounted ==
    \A n \in 1 .. 6 : n < step /\ Ran(Order[n]) => exits[n] = "failed" \/ report[Order[n]].fresh

Concluded == bundle # ""

Concluding ==
    /\ Concluded => step = 11
    /\ bundle \in {"passed", "warning"} => FailedSteps = {} /\ "failed" \notin ReviewedByBundle
    /\ bundle = "passed" => "warning" \notin ReviewedByBundle

Bundles == {"", "passed", "warning", "failed"}

(* ChainTypeOK, with the length of the chain. *)
ChainTyped ==
    /\ report \in [Scripts -> [decision : Decisions, fresh : BOOLEAN]]
    /\ exits \in [1 .. 9 -> {"none", "passed", "failed"}]
    /\ step \in 1 .. 11 /\ crashes \in 0 .. MaxCrashes
    /\ bundle \in Bundles

(* The inductive invariant. *)
ChainInv ==
    /\ ChainTyped /\ option \in Options /\ input \in Inputs
    /\ Told /\ Accounted /\ Concluding

-----------------------------------------------------------------------------
LEMMA OrderIs ==
    /\ Order[1] = "infra" /\ Order[2] = "readiness" /\ Order[3] = "ops" /\ Order[4] = "signoff"
    /\ Order[5] = "gate" /\ Order[6] = "rollback"
    /\ Order[7] = "readiness" /\ Order[8] = "ops" /\ Order[9] = "signoff"
    /\ Len(Order) = 9
BY DEF Order

LEMMA Turns ==
    ASSUME NEW n \in 1 .. 9
    PROVE  \/ n = 1 /\ Order[n] = "infra"
           \/ n \in {2, 7} /\ Order[n] = "readiness"
           \/ n \in {3, 8} /\ Order[n] = "ops"
           \/ n \in {4, 9} /\ Order[n] = "signoff"
           \/ n = 5 /\ Order[n] = "gate"
           \/ n = 6 /\ Order[n] = "rollback"
<1>1. n = 1 \/ n = 2 \/ n = 3 \/ n = 4 \/ n = 5 \/ n = 6 \/ n = 7 \/ n = 8 \/ n = 9
  OBVIOUS
<1> QED
  BY <1>1, OrderIs

LEMMA StepOrder == \A n \in 1 .. 9 : Order[n] \in Scripts
BY OrderIs DEF Scripts

(* What is asked for and missing is told, whatever the flags. *)
LEMMA LackingTells == Lacking \in {"failed", "warning"}
BY DEF Lacking

LEMMA ReadinessTells ==
    /\ Readiness \in {"passed", "warning", "failed"}
    /\ Readiness = "passed" /\ input \in Inputs => input.providers
<1> DEFINE found == {Read(ReadinessGood, On("infra")), Approval("gate"), Approval("rollback"),
                     IF input.providers THEN "passed" ELSE Lacking}
           failing == {"failed", "missing"} \cap found # {}
           b == failing /\ option.strict
           w == failing \/ "warning" \in found
<1>1. Readiness = Conclude("passed", "failed", b, w)
  BY DEF Readiness
<1>2. ~w => input.providers
  BY LackingTells
<1> HIDE DEF b, w
<1> QED
  BY <1>1, <1>2 DEF Conclude

LEMMA OpsTells ==
    ASSUME input \in Inputs
    PROVE  /\ Ops \in {"ready", "warning", "blocked"}
           /\ Ops = "ready" => input.evidence = "good"
           /\ input.evidence = "failed" => Ops = "blocked"
<1> DEFINE found  == {Component(On("infra")), Component(On("readiness")), Component(EvidenceSays[input.evidence])}
           w == "warning" \in found
           b == "failed" \in found \/ (option.failOnWarning /\ w /\ ~option.exception)
<1>1. Ops = Conclude("ready", "blocked", b, w)
  BY DEF Ops
<1>2. input.evidence \in {"good", "warned", "failed", "missing"}
  BY DEF Inputs
<1>3. /\ EvidenceSays["good"] = "passed" /\ EvidenceSays["warned"] = "warning"
      /\ EvidenceSays["failed"] = "failed" /\ EvidenceSays["missing"] = ""
  BY DEF EvidenceSays
<1>4. /\ Component("warning") = "warning" /\ Component("failed") = "failed" /\ Component("") \in {"failed", "warning"}
  BY DEF Component, Read, Good, Bad
<1>5. (~b /\ ~w => input.evidence = "good") /\ (input.evidence = "failed" => b)
  BY <1>2, <1>3, <1>4
<1> HIDE DEF b, w
<1> QED
  BY <1>1, <1>5 DEF Conclude

LEMMA SignoffTells ==
    /\ Signoff \in {"ready", "warning", "blocked"}
    /\ input.evidence = "missing" => Signoff = "blocked"
BY DEF Signoff, Conclude

LEMMA GateTells ==
    /\ DeploymentGate \in {"ready", "warning", "blocked"}
    /\ DeploymentGate = "ready" => input.references
BY DEF DeploymentGate, Conclude

LEMMA WritesTypes ==
    ASSUME NEW c \in Scripts
    PROVE  Writes(c) \in Decisions
<1>1. Infra \in Decisions /\ Rollback \in Decisions
  BY DEF Infra, Rollback, Decisions
<1>2. Readiness \in Decisions
  BY ReadinessTells DEF Decisions
<1>3. Ops \in Decisions
  BY DEF Ops, Conclude, Decisions
<1>4. Signoff \in Decisions /\ DeploymentGate \in Decisions
  BY SignoffTells, GateTells DEF Decisions
<1> QED
  BY <1>1, <1>2, <1>3, <1>4 DEF Writes, Scripts

-----------------------------------------------------------------------------
LEMMA ChainStarts == ChainInit => ChainInv
<1> SUFFICES ASSUME ChainInit PROVE ChainInv
  OBVIOUS
<1>1. report \in [Scripts -> [decision : Decisions, fresh : BOOLEAN]] /\ \A c \in Scripts : ~report[c].fresh
  <2>1. CASE report = [c \in Scripts |-> None]
    BY <2>1 DEF None, Decisions
  <2>2. CASE report = [infra |-> Stale("passed"), readiness |-> Stale("passed"), ops |-> Stale("ready"),
                       signoff |-> Stale("ready"), gate |-> Stale("ready"), rollback |-> Stale("dry-run")]
    <3>1. \A d \in {"passed", "ready", "dry-run"} :
              Stale(d) \in [decision : Decisions, fresh : BOOLEAN] /\ ~Stale(d).fresh
      BY DEF Stale, Decisions
    <3> QED
      BY <2>2, <3>1 DEF Scripts
  <2> QED
    BY <2>1, <2>2 DEF ChainInit, Earlier
<1>2. bundle \in Bundles /\ ~Concluded /\ bundle \notin {"passed", "warning"}
  BY DEF ChainInit, Bundles, Concluded
<1>3. ChainTyped
  <2>1. step = 1 /\ crashes = 0 /\ exits = [n \in 1 .. 9 |-> "none"]
    BY OrderIs DEF ChainInit
  <2> QED
    BY <1>1, <1>2, <2>1, ChainAssumption DEF ChainTyped
<1>4. Told
  BY <1>1 DEF Told, Scripts
<1>5. Accounted
  <2>1. step = 1
    BY DEF ChainInit
  <2> QED
    BY <2>1 DEF Accounted
<1>6. Concluding
  BY <1>2 DEF Concluding
<1> QED
  BY <1>3, <1>4, <1>5, <1>6 DEF ChainInv, ChainInit

LEMMA NotConcluded ==
    ASSUME ChainInv, step < Bundling, UNCHANGED bundle
    PROVE  Concluding'
<1>1. ~Concluded
  BY DEF ChainInv, ChainTyped, Concluding, Bundling
<1>2. ~Concluded' /\ bundle' \notin {"passed", "warning"}
  BY <1>1 DEF Concluded
<1> QED
  BY <1>2 DEF Concluding

LEMMA SkipKeeps ==
    ASSUME ChainInv, Skip
    PROVE  ChainInv'
<1>1. /\ step \in 1 .. 9 /\ step' = step + 1 /\ Skipped(step)
      /\ UNCHANGED <<report, exits, option, input, bundle, crashes>>
  BY DEF Skip, Bundling, ChainInv, ChainTyped
<1>2. ChainTyped' /\ (option \in Options /\ input \in Inputs)'
  BY <1>1 DEF ChainInv, ChainTyped
<1>3. Told'
  BY <1>1 DEF ChainInv, Told, On, Infra
<1>4. Accounted'
  <2> SUFFICES ASSUME NEW n \in 1 .. 6, n < step', Ran(Order[n])' PROVE exits'[n] = "failed" \/ report'[Order[n]].fresh
    BY DEF Accounted
  <2>1. Ran(Order[n])
    BY <1>1 DEF Ran
  <2>2. n # step
    BY <1>1, <2>1 DEF Skipped
  <2>3. n < step
    BY <1>1, <2>2
  <2> QED
    BY <1>1, <2>1, <2>3 DEF ChainInv, Accounted
<1>5. Concluding'
  BY <1>1, NotConcluded DEF Bundling
<1> QED
  BY <1>2, <1>3, <1>4, <1>5 DEF ChainInv

(* A script that dies, or that ends for want of the file it starts from, has failed. *)
LEMMA FailedKeeps ==
    ASSUME ChainInv, step < Bundling, step' = step + 1, exits' = [exits EXCEPT ![step] = "failed"],
           crashes' \in 0 .. MaxCrashes, UNCHANGED <<report, option, input, bundle>>
    PROVE  ChainInv'
<1>1. step \in 1 .. 9 /\ exits \in [1 .. 9 -> {"none", "passed", "failed"}]
  BY DEF Bundling, ChainInv, ChainTyped
<1>2. /\ exits' \in [1 .. 9 -> {"none", "passed", "failed"}] /\ exits'[step] = "failed"
      /\ \A n \in 1 .. 9 \ {step} : exits'[n] = exits[n]
  BY <1>1
<1>3. ChainTyped' /\ (option \in Options /\ input \in Inputs)'
  BY <1>1, <1>2 DEF ChainInv, ChainTyped
<1>4. Told'
  BY DEF ChainInv, Told, On, Infra
<1>5. Accounted'
  <2> SUFFICES ASSUME NEW n \in 1 .. 6, n < step', Ran(Order[n])' PROVE exits'[n] = "failed" \/ report'[Order[n]].fresh
    BY DEF Accounted
  <2>1. Ran(Order[n])
    BY DEF Ran
  <2>2. n = step \/ n < step
    BY <1>1
  <2> QED
    BY <1>2, <2>1, <2>2 DEF ChainInv, Accounted
<1>6. Concluding'
  BY <1>1, NotConcluded DEF Bundling
<1> QED
  BY <1>3, <1>4, <1>5, <1>6 DEF ChainInv

LEMMA CrashKeeps ==
    ASSUME ChainInv, Crash
    PROVE  ChainInv'
<1>1. crashes' \in 0 .. MaxCrashes
  BY ChainAssumption DEF Crash, ChainInv, ChainTyped
<1> QED
  BY <1>1, FailedKeeps DEF Crash

(* A script writes its report, and its exit code may say that it failed. *)
LEMMA ScriptKeeps ==
    ASSUME ChainInv, step < Bundling, step' = step + 1, NEW code \in {"passed", "failed"},
           report' = [report EXCEPT ![Order[step]] = [decision |-> Writes(Order[step]), fresh |-> TRUE]],
           exits' = [exits EXCEPT ![step] = code],
           UNCHANGED <<option, input, bundle, crashes>>
    PROVE  ChainInv'
<1> DEFINE c == Order[step]
           d == Writes(c)
           row == [decision |-> d, fresh |-> TRUE]
<1>1. step \in 1 .. 9 /\ exits \in [1 .. 9 -> {"none", "passed", "failed"}]
  BY DEF Bundling, ChainInv, ChainTyped
<1>2. c \in Scripts /\ d \in Decisions
  BY <1>1, StepOrder, WritesTypes
<1>3. row \in [decision : Decisions, fresh : BOOLEAN] /\ row.decision = d /\ row.fresh
  BY <1>2
<1> HIDE DEF d, row
<1>4. /\ report' = [report EXCEPT ![c] = row]
      /\ report \in [Scripts -> [decision : Decisions, fresh : BOOLEAN]]
  BY DEF d, row, ChainInv, ChainTyped
<1> HIDE DEF c
<1>5. report'[c] = row /\ \A x \in Scripts \ {c} : report'[x] = report[x]
  BY <1>2, <1>4
<1>6. /\ exits' \in [1 .. 9 -> {"none", "passed", "failed"}]
      /\ \A n \in 1 .. 9 \ {step} : exits'[n] = exits[n]
  BY <1>1
<1>7. ChainTyped' /\ (option \in Options /\ input \in Inputs)'
  <2>1. report' \in [Scripts -> [decision : Decisions, fresh : BOOLEAN]]
    BY <1>2, <1>3, <1>4
  <2> QED
    BY <1>1, <1>6, <2>1 DEF ChainInv, ChainTyped
<1>8. Told'
  <2>1. /\ c = "infra" => d = Infra
        /\ c = "readiness" => d = Readiness
        /\ c = "ops" => d = Ops
        /\ c = "signoff" => d = Signoff
        /\ c = "gate" => d = DeploymentGate
    BY DEF d, Writes
  <2>2. Infra' = Infra
    BY DEF Infra
  <2>3. input' = input /\ input \in Inputs
    BY DEF ChainInv
  <2>4. Told /\ {"infra", "readiness", "ops", "signoff", "gate"} \subseteq Scripts
    BY DEF ChainInv, Scripts
  <2>5. report'["infra"].fresh => On("infra")' = Infra'
    BY <1>3, <1>5, <2>1, <2>2, <2>4 DEF Told, On
  <2>6. report'["readiness"].fresh => /\ On("readiness")' \in {"passed", "warning", "failed"}
                                      /\ On("readiness")' = "passed" => input.providers
    BY <1>3, <1>5, <2>1, <2>3, <2>4, ReadinessTells DEF Told, On
  <2>7. report'["ops"].fresh => /\ On("ops")' \in {"ready", "warning", "blocked"}
                                /\ On("ops")' = "ready" => input.evidence = "good"
                                /\ input.evidence = "failed" => On("ops")' = "blocked"
    BY <1>3, <1>5, <2>1, <2>3, <2>4, OpsTells DEF Told, On
  <2>8. report'["signoff"].fresh => /\ On("signoff")' \in {"ready", "warning", "blocked"}
                                    /\ input.evidence = "missing" => On("signoff")' = "blocked"
    BY <1>3, <1>5, <2>1, <2>3, <2>4, SignoffTells DEF Told, On
  <2>9. report'["gate"].fresh => /\ On("gate")' \in {"ready", "warning", "blocked"}
                                 /\ On("gate")' = "ready" => input.references
    BY <1>3, <1>5, <2>1, <2>3, <2>4, GateTells DEF Told, On
  <2> QED
    BY <2>3, <2>5, <2>6, <2>7, <2>8, <2>9 DEF Told
<1>9. Accounted'
  <2> SUFFICES ASSUME NEW n \in 1 .. 6, n < step', Ran(Order[n])' PROVE exits'[n] = "failed" \/ report'[Order[n]].fresh
    BY DEF Accounted
  <2>1. Ran(Order[n]) /\ Order[n] \in Scripts
    BY StepOrder DEF Ran
  <2>2. n = step \/ n < step
    BY <1>1
  <2>3. CASE n = step
    BY <1>3, <1>5, <2>3 DEF c
  <2>4. CASE n < step
    BY <1>1, <1>3, <1>5, <1>6, <2>1, <2>4 DEF ChainInv, Accounted
  <2> QED
    BY <2>2, <2>3, <2>4
<1>10. Concluding'
  BY <1>1, NotConcluded DEF Bundling
<1> QED
  BY <1>7, <1>8, <1>9, <1>10 DEF ChainInv

LEMMA RunKeeps ==
    ASSUME ChainInv, Run
    PROVE  ChainInv'
<1>1. CASE Startable(Order[step])
  <2>1. ExitOf(Order[step], Writes(Order[step])) \in {"passed", "failed"}
    BY DEF ExitOf
  <2> QED
    BY <1>1, <2>1, ScriptKeeps DEF Run
<1>2. CASE ~Startable(Order[step])
  <2>1. crashes' \in 0 .. MaxCrashes
    BY DEF Run, ChainInv, ChainTyped
  <2> QED
    BY <1>2, <2>1, FailedKeeps DEF Run
<1> QED
  BY <1>1, <1>2

LEMMA BundleKeeps ==
    ASSUME ChainInv, Bundle
    PROVE  ChainInv'
<1> DEFINE failing == FailedSteps # {} \/ "failed" \in ReviewedByBundle
           warned == "warning" \in ReviewedByBundle
           b == failing \/ (option.failOnWarning /\ warned)
<1>1. /\ step = 10 /\ step' = 11 /\ bundle' = Conclude("passed", "failed", b, warned)
      /\ UNCHANGED <<report, exits, option, input, crashes>>
  BY DEF Bundle, Bundling
<1>2. /\ bundle' \in {"passed", "warning", "failed"}
      /\ bundle' \in {"passed", "warning"} => ~failing
      /\ bundle' = "passed" => ~warned
      /\ bundle' \in Bundles
  BY <1>1 DEF Conclude, Bundles
<1>3. ChainTyped' /\ (option \in Options /\ input \in Inputs)'
  BY <1>1, <1>2 DEF ChainInv, ChainTyped
<1>4. Told'
  BY <1>1 DEF ChainInv, Told, On, Infra
<1>5. Accounted'
  BY <1>1 DEF ChainInv, Accounted, Ran
<1>6. Concluding'
  BY <1>1, <1>2 DEF Concluding, FailedSteps, ReviewedByBundle, Bundled, Final, Ran, On
<1> QED
  BY <1>3, <1>4, <1>5, <1>6 DEF ChainInv

LEMMA ChainSteps == ChainInv /\ [ChainNext]_chainVars => ChainInv'
<1> SUFFICES ASSUME ChainInv, [ChainNext]_chainVars PROVE ChainInv'
  OBVIOUS
<1>1. CASE UNCHANGED chainVars
  <2>1. UNCHANGED <<report, exits, option, input, step, bundle, crashes>>
    BY <1>1 DEF chainVars
  <2>2. ChainTyped' /\ (option \in Options /\ input \in Inputs)'
    BY <2>1 DEF ChainInv, ChainTyped
  <2>3. Told' /\ Accounted'
    BY <2>1 DEF ChainInv, Told, Accounted, On, Infra, Ran
  <2>4. Concluding'
    BY <2>1 DEF ChainInv, Concluding, Concluded, FailedSteps, ReviewedByBundle, Bundled, Final, On, Ran
  <2> QED
    BY <2>2, <2>3, <2>4 DEF ChainInv
<1> QED
  BY <1>1, SkipKeeps, RunKeeps, CrashKeeps, BundleKeeps DEF ChainNext

LEMMA ChainAlways == ChainSpec => []ChainInv
BY ChainStarts, ChainSteps, PTL DEF ChainSpec

LEMMA ChainInvTypes == ChainInv => ChainTypeOK
<1> SUFFICES ASSUME ChainInv PROVE ChainTypeOK
  OBVIOUS
<1>1. Len(Order) = 9 /\ Bundling + 1 = 11
  BY OrderIs DEF Bundling
<1>2. bundle \in {"", "passed", "warning", "failed"}
  BY DEF ChainInv, ChainTyped, Bundles
<1>3. /\ report \in [Scripts -> [decision : Decisions, fresh : BOOLEAN]]
      /\ exits \in [1 .. Len(Order) -> {"none", "passed", "failed"}]
      /\ step \in 1 .. Bundling + 1 /\ crashes \in 0 .. MaxCrashes
  BY <1>1 DEF ChainInv, ChainTyped
<1> QED
  BY <1>2, <1>3 DEF ChainTypeOK

(* Decisions, exit codes and the number of the step stay in their domains. *)
THEOREM ChainTypes == ChainSpec => []ChainTypeOK
BY ChainInvTypes, ChainAlways, PTL

(* When the chain is judged not to have failed, each report that is its own was *)
(* written by it.                                                               *)
LEMMA JudgedFresh ==
    ASSUME ChainInv, bundle \in {"passed", "warning"}, NEW c \in Scripts, Ran(c)
    PROVE  report[c].fresh /\ "failed" # Read(Good, On(c)) /\ (bundle = "passed" => "warning" # Read(Good, On(c)))
<1>1. Concluded
  BY DEF Concluded
<1>2. step = 11 /\ FailedSteps = {} /\ "failed" \notin ReviewedByBundle
  BY <1>1 DEF ChainInv, Concluding
<1>3. PICK n \in 1 .. 6 : Order[n] = c
  BY OrderIs DEF Scripts
<1>4. exits[n] # "failed"
  BY <1>2, <1>3 DEF FailedSteps, ChainInv, ChainTyped
<1>5. report[c].fresh
  BY <1>2, <1>3, <1>4 DEF ChainInv, Accounted
<1>6. c \in Bundled
  BY DEF Bundled, Final, Scripts
<1> QED
  BY <1>2, <1>5, <1>6 DEF ReviewedByBundle, ChainInv, Concluding

(* A chain that passes or warns has not taken a report of an earlier execution    *)
(* with its run id for one of its own (scripts/run_release_evidence_chain.py).     *)
THEOREM BundleIsFresh == ChainSpec => []BundleFresh
<1>1. ChainInv => BundleFresh
  BY JudgedFresh DEF BundleFresh
<1> QED
  BY <1>1, ChainAlways, PTL

(* A chain that passes started from tenants, providers, evidence and references    *)
(* that were all good, and one that warns has nothing that fails behind it.        *)
THEOREM BundleIsHonest == ChainSpec => []BundleHonest
<1>1. ASSUME ChainInv PROVE BundleHonest
  <2>1. Ran("infra") /\ Ran("readiness") /\ Ran("ops") /\ Ran("signoff")
    BY DEF Ran
  <2>2. Scripts = {"infra", "readiness", "ops", "signoff", "gate", "rollback"}
    BY DEF Scripts
  <2>3. /\ Read(Good, "failed") = "failed" /\ Read(Good, "blocked") = "failed"
        /\ Read(Good, "warning") = "warning"
    BY DEF Read, Good, Bad
  <2>4. Told /\ input \in Inputs
    BY <1>1 DEF ChainInv
  <2>5. CASE bundle \in {"passed", "warning"}
    <3>1. On("infra") = Infra /\ Read(Good, On("infra")) # "failed"
      BY <1>1, <2>1, <2>2, <2>4, <2>5, JudgedFresh DEF Told
    <3>2. input.tenants = "good"
      BY <2>3, <2>4, <3>1 DEF Infra, Inputs
    <3>3. input.evidence \notin {"failed", "missing"}
      BY <1>1, <2>1, <2>2, <2>3, <2>4, <2>5, JudgedFresh DEF Told
    <3>4. ASSUME bundle = "passed" PROVE input.providers /\ input.evidence = "good"
      BY <1>1, <2>1, <2>2, <2>3, <2>4, <2>5, <3>4, JudgedFresh DEF Told
    <3>5. ASSUME bundle = "passed", Ran("gate") PROVE On("gate") = "ready" /\ input.references
      BY <1>1, <2>2, <2>3, <2>4, <2>5, <3>5, JudgedFresh DEF Told
    <3> QED
      BY <3>2, <3>3, <3>4, <3>5 DEF BundleHonest
  <2>6. CASE bundle \notin {"passed", "warning"}
    BY <2>6 DEF BundleHonest
  <2> QED
    BY <2>5, <2>6
<1> QED
  BY <1>1, ChainAlways, PTL
-----------------------------------------------------------------------------
(* A chain that was given approvals, finds everything good and has no reports   *)
(* of others where it writes none: what it has written so far is good.          *)

Late == step > 6

Favourable ==
    /\ option.given /\ option.drill # "failing" /\ crashes = 0
    /\ input.tenants = "good" /\ input.providers /\ input.evidence = "good" /\ input.references
    /\ \A c \in Scripts : ~Ran(c) => On(c) = ""

Drilled == {"executed", "dry-run"}

Written ==
    /\ step > 1 => On("infra") = "passed"
    /\ step > 2 => On("readiness") = "passed"
    /\ step > 3 => On("ops") = "ready"
    /\ step > 4 => On("signoff") = "ready"
    /\ step > 5 /\ Ran("gate") => On("gate") = "ready"
    /\ step > 6 /\ Ran("rollback") => On("rollback") \in Drilled

GoodSoFar ==
    Favourable => /\ Written /\ FailedSteps = {}
                  /\ Concluded => bundle = "passed"

(* A report that no script of the chain writes stays as it was. *)
Unwritten == \A c \in Scripts : ~Ran(c) => ~report[c].fresh

GivenInv == ChainInv /\ Unwritten /\ GoodSoFar

LEMMA ApprovalIs ==
    ASSUME NEW c
    PROVE  Approval(c) = LET given == IF Late /\ Ran(c) THEN On(c) ELSE IF option.given THEN "approved" ELSE ""
                         IN  IF given # "" THEN Read(ReadinessGood, given) ELSE Lacking
BY Zenon DEF Approval, Late

LEMMA ApprovalGood ==
    ASSUME NEW c, option.given, Late /\ Ran(c) => On(c) \in {"ready", "executed", "dry-run"}
    PROVE  Approval(c) = "passed"
<1>1. \A d \in {"approved", "ready", "executed", "dry-run"} : Read(ReadinessGood, d) = "passed" /\ d # ""
  BY DEF Read, ReadinessGood, Bad
<1> QED
  BY <1>1, ApprovalIs

LEMMA InfraGood == input.tenants = "good" => Infra = "passed"
BY DEF Infra

LEMMA ReadinessIsGood ==
    ASSUME On("infra") = "passed", Approval("gate") = "passed", Approval("rollback") = "passed", input.providers
    PROVE  Readiness = "passed"
<1>1. Read(ReadinessGood, "passed") = "passed"
  BY DEF Read, ReadinessGood, Bad
<1> QED
  BY <1>1 DEF Readiness, Conclude

LEMMA OpsGood ==
    ASSUME On("infra") = "passed", On("readiness") = "passed", input.evidence = "good"
    PROVE  Ops = "ready"
<1>1. Component("passed") = "passed" /\ EvidenceSays["good"] = "passed"
  BY DEF Component, Read, Good, Bad, EvidenceSays
<1> QED
  BY <1>1 DEF Ops, Conclude

LEMMA SignoffGood ==
    ASSUME On("infra") = "passed", On("readiness") = "passed", On("ops") = "ready", input.evidence = "good",
           Late => /\ On("gate") \in {"", "ready"}
                   /\ On("rollback") \in {"", "executed", "dry-run"}
    PROVE  Signoff = "ready"
<1> DEFINE said == {On(c) : c \in PackReviews} \cup {EvidenceSays[input.evidence]}
<1>1. PackReviews = {"infra", "readiness", "ops"} \cup IF Late THEN {"gate", "rollback"} ELSE {}
  BY Zenon DEF PackReviews, Late
<1>2. EvidenceSays["good"] = "passed"
  BY DEF EvidenceSays
<1>3. "failed" \notin said /\ "blocked" \notin said /\ "warning" \notin said
  BY <1>1, <1>2
<1> HIDE DEF said
<1>4. Signoff = Conclude("ready", "blocked", {"failed", "blocked"} \cap said # {} \/ input.evidence = "missing",
                         "warning" \in said)
  BY DEF Signoff, said
<1> QED
  BY <1>3, <1>4 DEF Conclude

LEMMA GateGood ==
    ASSUME On("signoff") = "ready", input.references
    PROVE  DeploymentGate = "ready"
BY DEF DeploymentGate, Conclude

LEMMA RollbackGood ==
    ASSUME option.given, Ran("gate") => On("gate") = "ready", input.references, option.drill # "failing"
    PROVE  Rollback \in Drilled /\ GateDecision = "ready"
BY DEF Rollback, GateDecision, Drilled

(* The script whose turn it is can start, writes a good decision, and ends well. *)
LEMMA TurnGood ==
    ASSUME ChainInv, Favourable, Written, step < Bundling
    PROVE  LET c == Order[step]
               d == Writes(c)
           IN  /\ c \in Scripts /\ Startable(c) /\ ExitOf(c, d) = "passed"
               /\ c \in {"infra", "readiness"} => d = "passed"
               /\ c \in {"ops", "signoff", "gate"} => d = "ready"
               /\ c = "rollback" => d \in Drilled
<1> DEFINE c == Order[step]
           d == Writes(c)
<1>1. step \in 1 .. 9
  BY DEF ChainInv, ChainTyped, Bundling
<1>2. /\ option.given /\ option.drill # "failing"
      /\ input.tenants = "good" /\ input.providers /\ input.evidence = "good" /\ input.references
  BY DEF Favourable
<1>3. Late /\ Ran("gate") => On("gate") = "ready"
  BY <1>1 DEF Late, Written
<1>4. Late /\ Ran("rollback") => On("rollback") \in Drilled
  BY <1>1 DEF Late, Written
<1>5. (~Ran("gate") => On("gate") = "") /\ (~Ran("rollback") => On("rollback") = "")
  BY DEF Favourable, Scripts
<1>6. Approval("gate") = "passed" /\ Approval("rollback") = "passed"
  BY <1>2, <1>3, <1>4, ApprovalGood DEF Drilled
<1>7. /\ c # "infra" => On("infra") = "passed"
      /\ c \in {"ops", "signoff", "gate", "rollback"} => On("readiness") = "passed"
      /\ c \in {"signoff", "gate", "rollback"} => On("ops") = "ready"
      /\ c \in {"gate", "rollback"} => On("signoff") = "ready"
      /\ c = "rollback" /\ Ran("gate") => On("gate") = "ready"
      /\ c \in Scripts
  BY <1>1, OrderIs DEF Written, Scripts
<1>8. /\ c = "infra" => d = Infra
      /\ c = "readiness" => d = Readiness
      /\ c = "ops" => d = Ops
      /\ c = "signoff" => d = Signoff
      /\ c = "gate" => d = DeploymentGate
      /\ c = "rollback" => d = Rollback
  BY DEF Writes
<1> HIDE DEF c, d
<1>9. c = "infra" => d = "passed"
  BY <1>2, <1>8, InfraGood
<1>10. c = "readiness" => d = "passed"
  BY <1>2, <1>6, <1>7, <1>8, ReadinessIsGood
<1>11. c = "ops" => d = "ready"
  BY <1>2, <1>7, <1>8, OpsGood
<1>12. c = "signoff" => d = "ready"
  BY <1>2, <1>3, <1>4, <1>5, <1>7, <1>8, SignoffGood DEF Drilled
<1>13. c = "gate" => d = "ready"
  BY <1>2, <1>7, <1>8, GateGood
<1>14. c = "rollback" => d \in Drilled /\ GateDecision = "ready"
  BY <1>2, <1>7, <1>8, RollbackGood
<1>15. Startable(c)
  BY <1>7, <1>14 DEF Startable
<1>16. ExitOf(c, d) = "passed"
  BY <1>2, <1>7, <1>9, <1>10, <1>11, <1>12, <1>13, <1>14 DEF ExitOf, Drilled, Scripts
<1>17. /\ c \in Scripts /\ Startable(c) /\ ExitOf(c, d) = "passed"
       /\ c \in {"infra", "readiness"} => d = "passed"
       /\ c \in {"ops", "signoff", "gate"} => d = "ready"
       /\ c = "rollback" => d \in Drilled
  BY <1>7, <1>9, <1>10, <1>11, <1>12, <1>13, <1>14, <1>15, <1>16
<1> QED
  BY <1>17 DEF c, d

LEMMA GivenStarts == ChainInit => GivenInv
<1> SUFFICES ASSUME ChainInit PROVE GivenInv
  OBVIOUS
<1>1. ~Concluded
  BY DEF ChainInit, Concluded
<1>2. step = 1 /\ exits = [n \in 1 .. 9 |-> "none"]
  BY OrderIs DEF ChainInit
<1>3. FailedSteps = {} /\ Written
  BY <1>2 DEF FailedSteps, Written
<1>4. Unwritten
  <2>1. ~None.fresh /\ \A d \in {"passed", "ready", "dry-run"} : ~Stale(d).fresh
    BY DEF None, Stale
  <2>2. CASE report = [c \in Scripts |-> None]
    BY <2>1, <2>2 DEF Unwritten
  <2>3. CASE report = [infra |-> Stale("passed"), readiness |-> Stale("passed"), ops |-> Stale("ready"),
                       signoff |-> Stale("ready"), gate |-> Stale("ready"), rollback |-> Stale("dry-run")]
    BY <2>1, <2>3 DEF Unwritten, Scripts
  <2> QED
    BY <2>2, <2>3 DEF ChainInit, Earlier
<1> QED
  BY <1>1, <1>3, <1>4, ChainStarts DEF GivenInv, GoodSoFar

(* What makes it favourable does not come later. *)
LEMMA FavourableBefore ==
    ASSUME ChainInv, ChainNext, Favourable'
    PROVE  Favourable
<1>1. option' = option /\ input' = input
  BY DEF ChainNext, Skip, Run, Crash, Bundle
<1>2. crashes = 0
  <2>1. crashes \in Nat /\ crashes' = 0
    <3>1. crashes' = 0
      BY DEF Favourable
    <3>2. crashes \in Nat
      BY ChainAssumption DEF ChainInv, ChainTyped
    <3> QED
      BY <3>1, <3>2
  <2>2. crashes' \in {crashes, crashes + 1}
    BY DEF ChainNext, Skip, Run, Crash, Bundle
  <2> QED
    BY <2>1, <2>2
<1>3. ASSUME NEW c \in Scripts, ~Ran(c) PROVE On(c) = ""
  <2>1. On(c)' = ""
    BY <1>1, <1>3 DEF Favourable, Ran
  <2>2. report'[c] = report[c]
    <3>1. CASE Run
      <4>1. step \in 1 .. 9
        BY <3>1 DEF Run, Bundling, ChainInv, ChainTyped
      <4>2. Order[step] # c
        BY <1>3, <3>1, <4>1, OrderIs DEF Run, Skipped, Ran
      <4> QED
        BY <3>1, <4>2 DEF Run, ChainInv, ChainTyped
    <3> QED
      BY <3>1 DEF ChainNext, Skip, Crash, Bundle
  <2> QED
    BY <2>1, <2>2 DEF On
<1> QED
  BY <1>1, <1>2, <1>3 DEF Favourable

LEMMA UntouchedStays ==
    ASSUME ChainInv, ChainNext, Unwritten
    PROVE  Unwritten'
<1>1. option' = option
  BY DEF ChainNext, Skip, Run, Crash, Bundle
<1> SUFFICES ASSUME NEW c \in Scripts, ~Ran(c) PROVE ~report'[c].fresh
  BY <1>1 DEF Unwritten, Ran
<1>2. CASE Run
  <2>1. step \in 1 .. 9
    BY <1>2 DEF Run, Bundling, ChainInv, ChainTyped
  <2>2. Order[step] # c
    BY <1>2, <2>1, OrderIs DEF Run, Skipped, Ran
  <2> QED
    BY <1>2, <2>2 DEF Run, ChainInv, ChainTyped, Unwritten
<1> QED
  BY <1>2 DEF ChainNext, Skip, Crash, Bundle, Unwritten

(* On a favourable chain a script does not die and can start: it writes. *)
LEMMA RunIsGood ==
    ASSUME ChainInv, Favourable, Written, FailedSteps = {}, Run
    PROVE  Written' /\ (FailedSteps = {})'
<1> DEFINE c == Order[step]
           d == Writes(c)
           code == ExitOf(c, d)
           row == [decision |-> d, fresh |-> TRUE]
<1>1. step \in 1 .. 9 /\ step' = step + 1 /\ UNCHANGED <<option, input>>
  BY DEF Run, Bundling, ChainInv, ChainTyped
<1>2. /\ c \in Scripts /\ Startable(c) /\ code = "passed"
      /\ c \in {"infra", "readiness"} => d = "passed"
      /\ c \in {"ops", "signoff", "gate"} => d = "ready"
      /\ c = "rollback" => d \in Drilled
  BY TurnGood DEF Run
<1>3. /\ report' = [report EXCEPT ![c] = row]
      /\ exits' = [exits EXCEPT ![step] = code]
      /\ report \in [Scripts -> [decision : Decisions, fresh : BOOLEAN]]
      /\ exits \in [1 .. 9 -> {"none", "passed", "failed"}]
  BY <1>2 DEF Run, ChainInv, ChainTyped
<1>4. \/ step = 1 /\ c = "infra"
      \/ step \in {2, 7} /\ c = "readiness"
      \/ step \in {3, 8} /\ c = "ops"
      \/ step \in {4, 9} /\ c = "signoff"
      \/ step = 5 /\ c = "gate"
      \/ step = 6 /\ c = "rollback"
  BY <1>1, Turns
<1>5. row.decision = d
  OBVIOUS
<1> HIDE DEF c, d, code, row
<1>6. report'[c].decision = d /\ \A x \in Scripts \ {c} : report'[x].decision = report[x].decision
  BY <1>2, <1>3, <1>5
<1>7. Ran("gate")' = Ran("gate") /\ Ran("rollback")' = Ran("rollback")
  BY <1>1 DEF Ran
<1>8. (FailedSteps = {})'
  BY <1>1, <1>2, <1>3 DEF FailedSteps
<1>9. Written'
  <2>1. /\ On("infra")' = IF c = "infra" THEN d ELSE On("infra")
        /\ On("readiness")' = IF c = "readiness" THEN d ELSE On("readiness")
        /\ On("ops")' = IF c = "ops" THEN d ELSE On("ops")
        /\ On("signoff")' = IF c = "signoff" THEN d ELSE On("signoff")
        /\ On("gate")' = IF c = "gate" THEN d ELSE On("gate")
        /\ On("rollback")' = IF c = "rollback" THEN d ELSE On("rollback")
    BY <1>6 DEF Scripts, On
  <2> QED
    BY <1>1, <1>2, <1>4, <1>7, <2>1 DEF Written
<1> QED
  BY <1>8, <1>9

LEMMA SkipIsGood ==
    ASSUME ChainInv, Favourable, Written, FailedSteps = {}, Skip
    PROVE  Written' /\ (FailedSteps = {})'
<1>1. step \in 1 .. 9 /\ step' = step + 1 /\ UNCHANGED <<report, exits, option, input>> /\ Skipped(step)
  BY DEF Skip, Bundling, ChainInv, ChainTyped
<1>2. (step = 5 /\ ~Ran("gate")) \/ (step = 6 /\ ~Ran("rollback"))
  <2>1. Final
    BY DEF Final, Favourable
  <2>2. step <= 6 /\ ~Ran(Order[step])
    BY <1>1, <2>1 DEF Skipped
  <2>3. Ran("infra") /\ Ran("readiness") /\ Ran("ops") /\ Ran("signoff")
    BY DEF Ran
  <2> QED
    BY <1>1, <2>2, <2>3, Turns
<1>3. Ran("gate")' = Ran("gate") /\ Ran("rollback")' = Ran("rollback") /\ \A x : On(x)' = On(x)
  BY <1>1 DEF Ran, On
<1>4. Written'
  BY <1>1, <1>2, <1>3 DEF Written
<1>5. (FailedSteps = {})'
  BY <1>1 DEF FailedSteps
<1> QED
  BY <1>4, <1>5

LEMMA BundleIsGood ==
    ASSUME ChainInv, Favourable, Written, FailedSteps = {}, Bundle
    PROVE  bundle' = "passed" /\ Written' /\ (FailedSteps = {})'
<1>1. /\ step = 10 /\ step' = 11 /\ UNCHANGED <<report, exits, option, input>>
  BY DEF Bundle, Bundling
<1>2. On("infra") = "passed" /\ On("readiness") = "passed" /\ On("ops") = "ready" /\ On("signoff") = "ready"
  BY <1>1 DEF Written
<1>3. (Ran("gate") => On("gate") = "ready") /\ (Ran("rollback") => On("rollback") \in Drilled)
  BY <1>1 DEF Written
<1>4. \A d \in {"passed", "ready", "executed", "dry-run", ""} : Read(Good, d) \in {"passed", "missing"}
  BY DEF Read, Good, Bad
<1>5. (~Ran("gate") => On("gate") = "") /\ (~Ran("rollback") => On("rollback") = "")
  BY DEF Favourable, Scripts
<1>6. "failed" \notin ReviewedByBundle /\ "warning" \notin ReviewedByBundle
  <2>1. \A c \in Bundled : On(c) \in {"passed", "ready", "executed", "dry-run", ""}
    BY <1>2, <1>3, <1>5 DEF Bundled, Drilled
  <2> QED
    BY <1>4, <2>1 DEF ReviewedByBundle
<1>7. bundle' = "passed"
  BY <1>6 DEF Bundle, Conclude
<1>8. Ran("gate")' = Ran("gate") /\ Ran("rollback")' = Ran("rollback") /\ \A x : On(x)' = On(x)
  BY <1>1 DEF Ran, On
<1>9. Written'
  BY <1>1, <1>2, <1>3, <1>8 DEF Written
<1> QED
  BY <1>1, <1>7, <1>9 DEF FailedSteps

LEMMA GivenSteps == GivenInv /\ [ChainNext]_chainVars => GivenInv'
<1> SUFFICES ASSUME GivenInv, [ChainNext]_chainVars PROVE GivenInv'
  OBVIOUS
<1>1. ChainInv /\ ChainInv' /\ Unwritten /\ GoodSoFar
  BY ChainSteps DEF GivenInv
<1>2. CASE UNCHANGED chainVars
  <2>1. UNCHANGED <<report, exits, option, input, step, bundle, crashes>>
    BY <1>2 DEF chainVars
  <2>2. Unwritten'
    BY <1>1, <2>1 DEF Unwritten, Ran
  <2>3. \A x : On(x)' = On(x) /\ Ran(x)' = Ran(x)
    BY <2>1 DEF On, Ran
  <2>4. Favourable' => Favourable
    BY <2>1, <2>3 DEF Favourable
  <2>5. Written => Written'
    BY <2>1, <2>3 DEF Written
  <2>6. FailedSteps' = FailedSteps /\ Concluded' = Concluded
    BY <2>1 DEF FailedSteps, Concluded
  <2> QED
    BY <1>1, <2>1, <2>2, <2>4, <2>5, <2>6 DEF GivenInv, GoodSoFar
<1>3. CASE ChainNext
  <2>1. Unwritten'
    BY <1>1, <1>3, UntouchedStays
  <2>2. ASSUME Favourable' PROVE Written' /\ (FailedSteps = {})' /\ (Concluded' => bundle' = "passed")
    <3>1. Favourable /\ Written /\ FailedSteps = {} /\ (Concluded => bundle = "passed")
      BY <1>1, <1>3, <2>2, FavourableBefore DEF GoodSoFar
    <3>2. CASE Run \/ Skip
      <4>1. Concluded' => bundle' = "passed"
        BY <3>1, <3>2 DEF Run, Skip, Concluded
      <4> QED
        BY <1>1, <3>1, <3>2, <4>1, RunIsGood, SkipIsGood
    <3>3. CASE Bundle
      BY <1>1, <3>1, <3>3, BundleIsGood
    <3>4. CASE Crash
      <4>1. crashes' = 0 /\ crashes = 0
        BY <2>2, <3>1 DEF Favourable
      <4>2. crashes' = crashes + 1
        BY <3>4 DEF Crash
      <4> QED
        BY <4>1, <4>2
    <3> QED
      BY <1>3, <3>2, <3>3, <3>4 DEF ChainNext
  <2> QED
    BY <1>1, <2>1, <2>2 DEF GivenInv, GoodSoFar
<1> QED
  BY <1>2, <1>3

(* A chain that is given earlier approvals and finds everything good passes,       *)
(* whatever its flags and however often its run id was used before.                *)
THEOREM GivenPasses == ChainSpec => []GivenChainPasses
<1>1. ASSUME GivenInv PROVE GivenChainPasses
  <2> SUFFICES ASSUME bundle # "", option.given, AllGood PROVE bundle = "passed"
    BY DEF GivenChainPasses
  <2>1. \A c \in Scripts : ~Ran(c) => On(c) = ""
    BY <1>1 DEF AllGood, GivenInv, Unwritten
  <2>2. Favourable
    BY <2>1 DEF AllGood, Favourable
  <2> QED
    BY <1>1, <2>2 DEF GivenInv, GoodSoFar, Concluded
<1>2. ChainSpec => []GivenInv
  BY GivenStarts, GivenSteps, PTL DEF ChainSpec
<1> QED
  BY <1>1, <1>2, PTL


-----------------------------------------------------------------------------
(* Offline selling.  The figures of a snapshot count at least what the status *)
(* route has counted, so each report vouches for what the one before it saw.  *)

Figure == [replayed : Nat, stuck : Nat, blocked : Nat, watch : Nat, age : {"none", "recent", "late"}]

ReportType == [decision : {"", "passed", "ready", "warning", "failed", "blocked"}, proof : BOOLEAN,
               figures : {<<>>} \cup {<<f>> : f \in Figure}]

NothingStuck == \A x \in standing : x.state # "stuck"

Reported ==
    /\ evidence \in [Reporters -> ReportType]
    /\ \A c \in Reporters \ {"matrix"} : evidence[c].decision # "blocked"
    /\ at <= Steps.snapshot => evidence["snapshot"].decision = ""
    /\ at <= Steps.pilot => evidence["pilot"].decision = ""
    /\ at <= Steps.matrix => evidence["matrix"].decision = ""

StuckTold ==
    /\ at = Steps.snapshot /\ counts["stuck"] = 0 => NothingStuck
    /\ Passed("snapshot") => /\ evidence["snapshot"].figures # <<>>
                             /\ evidence["snapshot"].figures[1].stuck = 0 => NothingStuck

OfflineInv == OfflineTypeOK /\ Reported /\ StuckTold /\ OfflineEarned

LEMMA CountsType ==
    ASSUME OfflineTypeOK
    PROVE  \A s \in States : counts[s] \in Nat
<1>1. \A n \in 0 .. MaxSales : n \in Nat
  BY OfflineAssumption DEF OfflineAssumption
<1>2. \A s \in States : counts[s] \in 0 .. MaxSales
  BY DEF OfflineTypeOK
<1> QED
  BY <1>1, <1>2

(* Of the sales there are, some are counted. *)
LEMMA SomeSales ==
    ASSUME sales \in Seq(Sale), NEW T \in SUBSET DOMAIN sales
    PROVE  IsFiniteSet(T) /\ Cardinality(T) \in Nat /\ Cardinality(T) <= Len(sales)
<1>1. DOMAIN sales = 1 .. Len(sales) /\ Len(sales) \in Nat
  OBVIOUS
<1>2. IsFiniteSet(1 .. Len(sales)) /\ Cardinality(1 .. Len(sales)) = Len(sales)
  <2>1. \A n \in Nat : IsFiniteSet(1 .. n) /\ Cardinality(1 .. n) = (IF 1 > n THEN 0 ELSE n - 1 + 1)
    BY FS_Interval
  <2>2. \A n \in Nat : (IF 1 > n THEN 0 ELSE n - 1 + 1) = n
    OBVIOUS
  <2> QED
    BY <1>1, <2>1, <2>2
<1>3. IsFiniteSet(T) /\ Cardinality(T) <= Cardinality(1 .. Len(sales))
  BY <1>1, <1>2, FS_Subset
<1> QED
  BY <1>2, <1>3, FS_CardinalityType

LEMMA CountedType ==
    ASSUME OfflineTypeOK, NEW answered \in BOOLEAN, NEW s \in States
    PROVE  Counted(answered, s) \in Nat /\ (answered => Counted(answered, s) >= counts[s])
<1> DEFINE T == {i \in Sampled : sales[i].state = s}
           n == IF answered THEN counts[s] ELSE 0
<1>1. Cardinality(T) \in Nat
  BY SomeSales DEF OfflineTypeOK, Sampled
<1>2. n \in Nat /\ (answered => n = counts[s])
  BY CountsType
<1>3. Counted(answered, s) = Larger(n, Cardinality(T))
  BY DEF Counted, With
<1> HIDE DEF T, n
<1> QED
  BY <1>1, <1>2, <1>3 DEF Larger

LEMMA FiguresType ==
    ASSUME OfflineTypeOK, NEW answered \in BOOLEAN
    PROVE  /\ Figures(answered) \in Figure /\ StatusOnly(answered) \in Figure /\ NothingCollected \in Figure
           /\ answered => /\ Figures(answered).stuck >= counts["stuck"]
                          /\ StatusOnly(answered).age = "none"
<1> DEFINE blocked == Cardinality({i \in Sampled : Attention(sales[i]) = "blocked"})
           watch   == Cardinality({i \in Sampled : Attention(sales[i]) = "watch"})
           age     == IF Sampled = {} THEN "none"
                      ELSE IF \E i \in Sampled : sales[i].age = "late" THEN "late" ELSE "recent"
           replayed == Counted(answered, "replayed")
           stuck    == Counted(answered, "stuck")
<1>1. blocked \in Nat /\ watch \in Nat
  BY SomeSales DEF OfflineTypeOK, Sampled
<1>2. replayed \in Nat /\ stuck \in Nat /\ (answered => stuck >= counts["stuck"])
  BY CountedType DEF States
<1>3. age \in {"none", "recent", "late"}
  OBVIOUS
<1>4. Figures(answered) = [replayed |-> replayed, stuck |-> stuck, blocked |-> Or(blocked, stuck),
                           watch |-> watch, age |-> age]
  BY DEF Figures, With
<1> HIDE DEF blocked, watch, age, replayed, stuck
<1>5. Or(blocked, stuck) \in Nat
  BY <1>1, <1>2 DEF Or
<1>6. Figures(answered) \in Figure /\ (answered => Figures(answered).stuck >= counts["stuck"])
  BY <1>1, <1>2, <1>3, <1>4, <1>5 DEF Figure
<1>7. counts["replayed"] \in Nat /\ counts["stuck"] \in Nat
  BY CountsType DEF States
<1>8. NothingCollected \in Figure /\ NothingCollected.age = "none"
  BY DEF NothingCollected, Figure
<1>9. StatusOnly(answered) \in Figure /\ StatusOnly(answered).age = "none"
  BY <1>7, <1>8 DEF StatusOnly, NothingCollected, Figure
<1> QED
  BY <1>6, <1>8, <1>9

(* A report of one figure, or of none. *)
LEMMA ReportTyped ==
    ASSUME NEW d \in {"", "passed", "ready", "warning", "failed", "blocked"}
    PROVE  /\ NoReport \in ReportType
           /\ [NoReport EXCEPT !.decision = d] \in ReportType
           /\ \A b \in BOOLEAN : [NoReport EXCEPT !.decision = d, !.proof = b] \in ReportType
           /\ \A f \in Figure : [NoReport EXCEPT !.decision = d, !.figures = <<f>>] \in ReportType
BY DEF NoReport, ReportType

LEMMA VerdictWords ==
    ASSUME NEW b \in BOOLEAN, NEW w \in BOOLEAN
    PROVE  /\ Verdicts("passed", "failed", b, w) \in {"passed", "failed", "warning"}
           /\ Verdicts("ready", "blocked", b, w) \in {"ready", "blocked", "warning"}
           /\ Verdicts("passed", "failed", b, w) = "passed" => ~b
           /\ Verdicts("ready", "blocked", b, w) = "ready" => ~b /\ ~w
BY DEF Verdicts

LEMMA SnapshotTells ==
    ASSUME OfflineTypeOK, NEW asked \in BOOLEAN, NEW answered \in BOOLEAN, NEW listed \in BOOLEAN
    PROVE  LET r == Snapshot(asked, answered, listed)
           IN  /\ r \in ReportType /\ r.decision \in {"passed", "failed", "warning"}
               /\ r.figures # <<>>
               /\ r.decision = "passed" => r.figures[1].stuck >= counts["stuck"]
<1> DEFINE figures == IF ~asked THEN NothingCollected ELSE IF listed THEN Figures(answered) ELSE StatusOnly(answered)
           blocked == asked /\ (~answered \/ ~listed \/ figures.age = "none")
           d == Verdicts("passed", "failed", blocked, ~asked)
<1>1. figures \in Figure
  BY FiguresType
<1>2. Snapshot(asked, answered, listed) = [NoReport EXCEPT !.decision = d, !.figures = <<figures>>]
  BY DEF Snapshot
<1>3. d \in {"passed", "failed", "warning"} /\ (d = "passed" => asked /\ answered /\ listed)
  BY DEF Verdicts
<1>4. asked /\ answered /\ listed => figures.stuck >= counts["stuck"]
  BY FiguresType
<1> HIDE DEF figures, d
<1>5. /\ Snapshot(asked, answered, listed) \in ReportType
      /\ Snapshot(asked, answered, listed).decision = d
      /\ Snapshot(asked, answered, listed).figures = <<figures>>
  <2>1. Snapshot(asked, answered, listed) \in ReportType
    <3>1. d \in {"", "passed", "ready", "warning", "failed", "blocked"}
      BY <1>3
    <3>2. [NoReport EXCEPT !.decision = d, !.figures = <<figures>>] \in ReportType
      BY <1>1, <3>1, ReportTyped, Zenon
    <3> QED
      BY <1>2, <3>2
  <2>2. \A x : [NoReport EXCEPT !.decision = d, !.figures = x].decision = d
    BY DEF NoReport
  <2>3. \A x : [NoReport EXCEPT !.decision = d, !.figures = x].figures = x
    BY DEF NoReport
  <2> QED
    BY <1>2, <2>1, <2>2, <2>3
<1> QED
  BY <1>3, <1>4, <1>5

LEMMA NothingLeft == \A a, b, c \in Nat : a + b + c = 0 => c = 0
OBVIOUS

PilotOptions == [signed : BOOLEAN, typed : BOOLEAN, require_pass : BOOLEAN,
                 no_duplicates : {"", "missed", "required"}, fail_on_warning : BOOLEAN]

(* What a pilot that passes has seen. *)
LEMMA PilotTells ==
    ASSUME Reported, NEW o \in PilotOptions
    PROVE  /\ Pilot(o) \in ReportType /\ Pilot(o).decision \in {"passed", "failed", "warning"}
           /\ Pilot(o).decision = "passed" /\ ~o.typed =>
                 /\ evidence["snapshot"].figures # <<>>
                 /\ evidence["snapshot"].figures[1].stuck = 0
<1> DEFINE blocked == \/ ~o.signed \/ ~ReplayAccepted(o)
                      \/ ~o.typed /\ evidence["snapshot"].figures = <<>>
                      \/ ~WithinThresholds(PilotFigures(o))
                      \/ o.no_duplicates = "required"
           warned  == evidence["replay"].decision = "warning" \/ o.no_duplicates = "missed"
           d == Verdicts("passed", "failed", blocked \/ (o.fail_on_warning /\ warned), warned)
<1>1. Pilot(o) = [NoReport EXCEPT !.decision = d]
  BY DEF Pilot
<1>2. d \in {"passed", "failed", "warning"} /\ (d = "passed" => ~blocked)
  BY DEF Verdicts
<1>3. ASSUME ~blocked, ~o.typed
      PROVE  evidence["snapshot"].figures # <<>> /\ evidence["snapshot"].figures[1].stuck = 0
  <2> DEFINE f == evidence["snapshot"].figures[1]
  <2>1. evidence["snapshot"].figures # <<>> /\ WithinThresholds(PilotFigures(o))
    BY <1>3
  <2>2. f \in Figure
    <3>1. evidence["snapshot"] \in ReportType
      BY DEF Reported, Reporters
    <3>2. PICK g \in Figure : evidence["snapshot"].figures = <<g>>
      BY <2>1, <3>1 DEF ReportType
    <3>3. f = g
      <4>1. <<g>>[1] = g
        OBVIOUS
      <4> QED
        BY <3>2, <4>1, Zenon
    <3> QED
      BY <3>2, <3>3
  <2>3. PilotFigures(o) = f
    BY <1>3, <2>1 DEF PilotFigures
  <2> HIDE DEF f
  <2>4. f.blocked + f.watch + f.stuck = 0
    BY <2>1, <2>3 DEF WithinThresholds
  <2>5. f.blocked \in Nat /\ f.watch \in Nat /\ f.stuck \in Nat
    BY <2>2 DEF Figure
  <2>6. f.stuck = 0
    BY <2>4, <2>5, NothingLeft, Zenon
  <2> QED
    BY <2>1, <2>6 DEF f
<1> HIDE DEF d, blocked
<1>4. Pilot(o) \in ReportType /\ Pilot(o).decision = d
  BY <1>1, <1>2, ReportTyped DEF NoReport
<1> QED
  BY <1>2, <1>3, <1>4

(* What a matrix that is ready has read. *)
LEMMA MatrixTells ==
    ASSUME Reported, e2e \in E2E,
           NEW o \in [browsers : Found, require_browsers : BOOLEAN, fail_on_warning : BOOLEAN]
    PROVE  /\ Matrix(o) \in ReportType /\ Matrix(o).decision \in {"ready", "blocked", "warning"}
           /\ Matrix(o).decision = "ready" =>
                 /\ Passed("replay") /\ Passed("pilot")
                 /\ e2e.results = "passed" /\ e2e.playwright = "passed" /\ e2e.proof
<1> DEFINE blocked == \/ "failed" \in ReadByMatrix(o) \/ e2e.results = "missing"
                      \/ o.browsers = "missing" /\ o.require_browsers
                      \/ ~Workflows \/ e2e.playwright # "passed"
           warned  == {"warning", "missing"} \cap ReadByMatrix(o) # {}
           d == Verdicts("ready", "blocked", blocked \/ (o.fail_on_warning /\ warned), warned)
<1>1. Matrix(o) = [NoReport EXCEPT !.decision = d]
  BY DEF Matrix
<1>2. d \in {"ready", "blocked", "warning"} /\ (d = "ready" => ~blocked /\ ~warned)
  BY DEF Verdicts
<1>3. ASSUME ~blocked, ~warned
      PROVE  /\ Passed("replay") /\ Passed("pilot")
             /\ e2e.results = "passed" /\ e2e.playwright = "passed" /\ e2e.proof
  <2>1. /\ e2e.results \notin {"failed", "warning", "missing"}
        /\ \A c \in {"replay", "pilot"} : Support(evidence[c].decision) \notin {"failed", "warning", "missing"}
    BY <1>3 DEF ReadByMatrix
  <2>2. e2e.results = "passed"
    BY <2>1 DEF E2E, Found
  <2>3. \A c \in {"replay", "pilot"} : evidence[c].decision \in {"passed", "ready"}
    BY <2>1 DEF Support, Reported, ReportType, Reporters
  <2>4. e2e.proof /\ e2e.playwright = "passed"
    BY <1>3 DEF Workflows, Shows
  <2> QED
    BY <2>2, <2>3, <2>4 DEF Passed
<1> HIDE DEF d, blocked, warned
<1>4. Matrix(o) \in ReportType /\ Matrix(o).decision = d
  BY <1>1, <1>2, ReportTyped DEF NoReport
<1> QED
  BY <1>2, <1>3, <1>4
-----------------------------------------------------------------------------
(* The steps. *)

LEMMA StepNumbers ==
    Steps.replay = 1 /\ Steps.status = 2 /\ Steps.snapshot = 3 /\ Steps.pilot = 4 /\ Steps.matrix = 5
BY DEF Steps

(* No report is there before its step. *)
NothingYet == /\ at \in {1, 2, 3} => evidence["snapshot"].decision = ""
              /\ at \in {1, 2, 3, 4} => evidence["pilot"].decision = ""
              /\ at \in {1, 2, 3, 4, 5} => evidence["matrix"].decision = ""

LEMMA NotYetWritten == Reported => NothingYet
<1>1. /\ at \in {1, 2, 3} => at <= Steps.snapshot
      /\ at \in {1, 2, 3, 4} => at <= Steps.pilot
      /\ at \in {1, 2, 3, 4, 5} => at <= Steps.matrix
  BY StepNumbers
<1> QED
  BY <1>1, Zenon DEF Reported, NothingYet

LEMMA NotYetThen == Reported' => NothingYet'
BY NotYetWritten, PTL

LEMMA SaleKept ==
    ASSUME NEW s \in Sale
    PROVE  /\ Refreshed(s) \in Sale /\ Overlooked \in Sale
           /\ \A to \in States : [s EXCEPT !.state = to] \in Sale
           /\ [s EXCEPT !.late = TRUE] \in Sale
BY DEF Refreshed, Sale, Overlooked, States

LEMMA ShopStep ==
    ASSUME OfflineInv, Shop, sales' \in Seq(Sale), Len(sales') <= MaxSales
    PROVE  OfflineInv'
<1>1. /\ UNCHANGED <<e2e, counts, evidence, typed, standing, at, lost>>
      /\ changes < MaxChanges /\ changes' = changes + 1
  BY DEF Shop
<1>2. changes' \in 0 .. MaxChanges
  <2>1. changes \in 0 .. MaxChanges
    BY DEF OfflineInv, OfflineTypeOK
  <2> QED
    BY <1>1, <2>1, OfflineAssumption DEF OfflineAssumption
<1>3. OfflineTypeOK'
  BY <1>1, <1>2 DEF OfflineInv, OfflineTypeOK
<1>4. Reported' /\ StuckTold' /\ OfflineEarned'
  BY <1>1 DEF OfflineInv, Reported, StuckTold, OfflineEarned, NothingStuck, Passed
<1> QED
  BY <1>3, <1>4 DEF OfflineInv

LEMMA CaptureStep ==
    ASSUME OfflineInv, Capture
    PROVE  OfflineInv'
<1>1. PICK s \in States : sales' = Append(sales, [state |-> s, late |-> FALSE, age |-> "recent"])
  BY DEF Capture
<1> DEFINE x == [state |-> s, late |-> FALSE, age |-> "recent"]
<1>2. x \in Sale
  BY DEF Sale
<1>3. sales \in Seq(Sale) /\ Len(sales) < MaxSales
  BY DEF OfflineInv, OfflineTypeOK, Capture
<1> HIDE DEF x
<1>4. sales' \in Seq(Sale) /\ Len(sales') = Len(sales) + 1
  BY <1>1, <1>2, <1>3 DEF x
<1>5. Len(sales') <= MaxSales
  BY <1>3, <1>4, OfflineAssumption DEF OfflineAssumption
<1> QED
  BY <1>4, <1>5, ShopStep DEF Capture

LEMMA MoveStep ==
    ASSUME OfflineInv, NEW i \in DOMAIN sales, NEW s \in Sale, sales' = [sales EXCEPT ![i] = s], Shop
    PROVE  OfflineInv'
<1>1. sales \in Seq(Sale) /\ Len(sales) <= MaxSales
  BY DEF OfflineInv, OfflineTypeOK
<1>2. sales' \in Seq(Sale) /\ Len(sales') = Len(sales)
  BY <1>1
<1> QED
  BY <1>1, <1>2, ShopStep

LEMMA SaleStep ==
    ASSUME OfflineInv, NEW i \in DOMAIN sales, TryAgain(i) \/ Settle(i) \/ Refresh(i) \/ Wait(i)
    PROVE  OfflineInv'
<1>1. sales[i] \in Sale
  <2>1. sales \in Seq(Sale)
    BY DEF OfflineInv, OfflineTypeOK
  <2> QED
    BY <2>1
<1>2. ASSUME NEW to \in States, Move(i, to) PROVE OfflineInv'
  <2> DEFINE s == Refreshed([sales[i] EXCEPT !.state = to])
  <2>1. s \in Sale
    BY <1>1, SaleKept
  <2>2. sales' = [sales EXCEPT ![i] = s] /\ Shop
    BY <1>2 DEF Move
  <2> HIDE DEF s
  <2> QED
    BY <2>1, <2>2, MoveStep
<1>3. CASE TryAgain(i) \/ Settle(i)
  <2>1. \E to \in States : Move(i, to)
    BY <1>3 DEF TryAgain, Settle, States
  <2> QED
    BY <1>2, <2>1
<1>4. CASE Refresh(i)
  <2> DEFINE s == Refreshed(sales[i])
  <2>1. s \in Sale
    BY <1>1, SaleKept
  <2>2. sales' = [sales EXCEPT ![i] = s] /\ Shop
    BY <1>4 DEF Refresh
  <2> HIDE DEF s
  <2> QED
    BY <2>1, <2>2, MoveStep
<1>5. CASE Wait(i)
  <2> DEFINE s == [sales[i] EXCEPT !.late = TRUE]
  <2>1. s \in Sale
    BY <1>1, SaleKept
  <2>2. sales' = [sales EXCEPT ![i] = s] /\ Shop
    BY <1>5 DEF Wait
  <2> HIDE DEF s
  <2> QED
    BY <2>1, <2>2, MoveStep
<1> QED
  BY <1>3, <1>4, <1>5

(* A report is written; the reports and sales before it stay. *)
LEMMA FileStep ==
    ASSUME OfflineInv, NEW c \in Reporters, NEW r \in ReportType, NEW n \in 1 .. 5,
           Turn(n), File(c, r), r.decision = "blocked" => c = "matrix",
           counts' \in [States -> 0 .. MaxSales], typed' \in BOOLEAN, n = Steps[c]
    PROVE  /\ OfflineTypeOK' /\ Reported'
           /\ evidence'[c] = r /\ \A x \in Reporters \ {c} : evidence'[x] = evidence[x]
           /\ at = n /\ at' = n + 1 /\ UNCHANGED <<sales, e2e, standing, changes, lost>>
<1>1. evidence \in [Reporters -> ReportType] /\ evidence' = [evidence EXCEPT ![c] = r]
  BY DEF OfflineInv, Reported, File
<1>2. evidence' \in [Reporters -> ReportType] /\ evidence'[c] = r /\ \A x \in Reporters \ {c} : evidence'[x] = evidence[x]
  BY <1>1
<1>3. at = n /\ at' = n + 1 /\ UNCHANGED <<sales, e2e, standing, changes, lost>>
  BY DEF Turn, File
<1>4. at' \in 1 .. Steps.matrix + 1
  BY <1>3 DEF Steps
<1>5. \A x \in Reporters : evidence'[x].decision \in {"", "passed", "ready", "warning", "failed", "blocked"}
  BY <1>2 DEF ReportType
<1>6. OfflineTypeOK'
  BY <1>3, <1>4, <1>5 DEF OfflineInv, OfflineTypeOK
<1>7. /\ at' <= Steps.snapshot => c # "snapshot" /\ at <= Steps.snapshot
      /\ at' <= Steps.pilot => c # "pilot" /\ at <= Steps.pilot
      /\ at' <= Steps.matrix => c # "matrix" /\ at <= Steps.matrix
  BY <1>3 DEF Steps
<1>8. Reported'
  BY <1>2, <1>7 DEF OfflineInv, Reported, Reporters
<1> QED
  BY <1>2, <1>3, <1>6, <1>8

LEMMA ReplayStep ==
    ASSUME OfflineInv, WriteReplayEvidence
    PROVE  OfflineInv'
<1>1. PICK o \in [require_e2e : BOOLEAN, require_pass : BOOLEAN, require_duplicate : BOOLEAN,
                  fail_on_warning : BOOLEAN] : File("replay", ReplayReport(o))
  BY DEF WriteReplayEvidence
<1>2. ReplayReport(o) \in ReportType /\ ReplayReport(o).decision # "blocked"
  <2> DEFINE failing == {"failed", "missing"} \cap {e2e.results, e2e.orchestration} # {}
             blocked == \/ o.require_e2e /\ (failing \/ ~Proven \/ e2e.playwright # "passed")
                        \/ o.require_pass /\ e2e.playwright # "passed"
                        \/ o.require_duplicate /\ ~Proven
             warned  == failing \/ e2e.results = "warning" \/ ~Proven \/ e2e.playwright # "passed"
             d == Verdicts("passed", "failed", blocked \/ (o.fail_on_warning /\ warned), warned)
  <2>1. d \in {"passed", "failed", "warning"}
    BY DEF Verdicts
  <2>2. ReplayReport(o) = [NoReport EXCEPT !.decision = d, !.proof = Proven]
    BY DEF ReplayReport
  <2> HIDE DEF d
  <2>3. Proven \in BOOLEAN
    BY DEF Proven, Shows, OfflineInv, OfflineTypeOK, E2E
  <2>4. [NoReport EXCEPT !.decision = d, !.proof = Proven].decision = d
    BY DEF NoReport
  <2>5. [NoReport EXCEPT !.decision = d, !.proof = Proven] \in ReportType
    <3>1. d \in {"", "passed", "ready", "warning", "failed", "blocked"}
      BY <2>1
    <3> QED
      BY <2>3, <3>1, ReportTyped, Zenon
  <2> QED
    BY <2>1, <2>2, <2>4, <2>5
<1>3. /\ OfflineTypeOK' /\ Reported' /\ (\A x \in Reporters \ {"replay"} : evidence'[x] = evidence[x])
      /\ at = 1 /\ at' = 2 /\ standing' = standing /\ counts' = counts
  <2>1. Turn(1) /\ UNCHANGED <<counts, typed>> /\ Steps["replay"] = 1 /\ 1 \in 1 .. 5 /\ "replay" \in Reporters
    BY StepNumbers DEF WriteReplayEvidence, Reporters
  <2>2. counts' \in [States -> 0 .. MaxSales] /\ typed' \in BOOLEAN
    BY <2>1 DEF OfflineInv, OfflineTypeOK
  <2>3. OfflineTypeOK' /\ Reported' /\ (\A x \in Reporters \ {"replay"} : evidence'[x] = evidence[x])
        /\ at = 1 /\ at' = 1 + 1 /\ standing' = standing
    BY <1>1, <1>2, <2>1, <2>2, FileStep
  <2> QED
    BY <2>1, <2>3
<1>4. evidence'["snapshot"].decision = "" /\ evidence'["pilot"].decision = "" /\ evidence'["matrix"].decision = ""
  BY <1>3, NotYetThen DEF NothingYet
<1>5. StuckTold' /\ OfflineEarned'
  <2>1. at' # Steps.snapshot
    BY <1>3, StepNumbers
  <2> QED
    BY <1>4, <2>1 DEF StuckTold, OfflineEarned, Passed
<1> QED
  BY <1>3, <1>5 DEF OfflineInv

LEMMA StatusStep ==
    ASSUME OfflineInv, AskStatus
    PROVE  OfflineInv'
<1>1. /\ at = 2 /\ at' = 3
      /\ counts' = [s \in States |-> Cardinality({i \in DOMAIN sales : sales[i].state = s})]
      /\ standing' = {[state |-> sales[i].state, late |-> sales[i].late] : i \in DOMAIN sales}
      /\ UNCHANGED <<sales, e2e, evidence, typed, changes, lost>>
  BY StepNumbers DEF AskStatus, Turn
<1>2. sales \in Seq(Sale) /\ Len(sales) <= MaxSales
  BY DEF OfflineInv, OfflineTypeOK
<1>3. \A s \in States : Cardinality({i \in DOMAIN sales : sales[i].state = s}) \in 0 .. MaxSales
  <2> SUFFICES ASSUME NEW s \in States PROVE Cardinality({i \in DOMAIN sales : sales[i].state = s}) \in 0 .. MaxSales
    OBVIOUS
  <2> DEFINE T == {i \in DOMAIN sales : sales[i].state = s}
  <2>1. Cardinality(T) \in Nat /\ Cardinality(T) <= Len(sales)
    BY <1>2, SomeSales
  <2> HIDE DEF T
  <2>2. Cardinality(T) \in 0 .. MaxSales
    BY <1>2, <2>1, OfflineAssumption DEF OfflineAssumption
  <2> QED
    BY <2>2 DEF T
<1>4. standing' \subseteq [state : States, late : BOOLEAN]
  <2>1. \A i \in DOMAIN sales : sales[i] \in Sale
    BY <1>2
  <2> QED
    BY <1>1, <2>1 DEF Sale
<1>5. OfflineTypeOK'
  <2>1. counts' \in [States -> 0 .. MaxSales]
    BY <1>1, <1>3
  <2>2. at' \in 1 .. Steps.matrix + 1
    BY <1>1 DEF Steps
  <2> QED
    BY <1>1, <1>4, <2>1, <2>2 DEF OfflineInv, OfflineTypeOK
<1>6. Reported'
  <2>1. /\ evidence'["snapshot"].decision = "" /\ evidence'["pilot"].decision = ""
        /\ evidence'["matrix"].decision = ""
    BY <1>1, NotYetWritten DEF OfflineInv, NothingYet
  <2> QED
    BY <1>1, <2>1 DEF OfflineInv, Reported
<1>7. counts'["stuck"] = 0 => NothingStuck'
  <2> DEFINE T == {i \in DOMAIN sales : sales[i].state = "stuck"}
  <2>1. SUFFICES ASSUME Cardinality(T) = 0 PROVE NothingStuck'
    BY <1>1 DEF States
  <2>2. IsFiniteSet(T)
    BY <1>2, SomeSales
  <2>3. T = {}
    BY <2>1, <2>2, FS_EmptySet
  <2> QED
    BY <1>1, <2>3 DEF NothingStuck
<1>8. evidence'["snapshot"].decision = "" /\ evidence'["pilot"].decision = "" /\ evidence'["matrix"].decision = ""
  BY <1>1, <1>6, NotYetThen DEF NothingYet
<1>9. StuckTold' /\ OfflineEarned'
  BY <1>7, <1>8 DEF StuckTold, OfflineEarned, Passed
<1> QED
  BY <1>5, <1>6, <1>9 DEF OfflineInv

LEMMA SnapshotStep ==
    ASSUME OfflineInv, WriteSnapshot
    PROVE  OfflineInv'
<1>1. PICK asked, answered, listed \in BOOLEAN : File("snapshot", Snapshot(asked, answered, listed))
  BY DEF WriteSnapshot
<1> DEFINE r == Snapshot(asked, answered, listed)
<1>2. /\ r \in ReportType /\ r.decision \in {"passed", "failed", "warning"} /\ r.figures # <<>>
      /\ r.decision = "passed" => r.figures[1].stuck >= counts["stuck"]
  BY SnapshotTells DEF OfflineInv
<1>3. File("snapshot", r)
  BY <1>1
<1> HIDE DEF r
<1>4. counts' \in [States -> 0 .. MaxSales]
  BY OfflineAssumption DEF OfflineAssumption, WriteSnapshot, Unasked
<1>5. /\ OfflineTypeOK' /\ Reported' /\ evidence'["snapshot"] = r
      /\ (\A x \in Reporters \ {"snapshot"} : evidence'[x] = evidence[x])
      /\ at = 3 /\ at' = 4 /\ standing' = standing
  <2>1. Turn(3) /\ typed' \in BOOLEAN /\ Steps["snapshot"] = 3 /\ 3 \in 1 .. 5 /\ "snapshot" \in Reporters
    <3>1. Turn(Steps.snapshot) /\ typed' = typed /\ typed \in BOOLEAN
      BY DEF WriteSnapshot, OfflineInv, OfflineTypeOK
    <3> QED
      BY <3>1, StepNumbers DEF Reporters
  <2>2. r.decision # "blocked"
    BY <1>2
  <2>3. OfflineTypeOK' /\ Reported' /\ evidence'["snapshot"] = r
        /\ (\A x \in Reporters \ {"snapshot"} : evidence'[x] = evidence[x])
        /\ at = 3 /\ at' = 3 + 1 /\ standing' = standing
    BY <1>2, <1>3, <1>4, <2>1, <2>2, FileStep
  <2> QED
    BY <2>3
<1>6. evidence'["pilot"].decision = "" /\ evidence'["matrix"].decision = ""
  BY <1>5, NotYetThen DEF NothingYet
<1>7. r.decision = "passed" /\ r.figures[1].stuck = 0 => NothingStuck
  <2>1. counts["stuck"] \in Nat
    BY CountsType DEF OfflineInv, States
  <2>2. r.decision = "passed" => r.figures[1].stuck \in Nat
    <3>1. PICK g \in Figure : r.figures = <<g>>
      BY <1>2 DEF ReportType
    <3>2. <<g>>[1] = g
      OBVIOUS
    <3> QED
      BY <3>1, <3>2 DEF Figure
  <2> DEFINE n == r.figures[1].stuck
             m == counts["stuck"]
  <2>3. r.decision = "passed" => n >= m /\ n \in Nat /\ m \in Nat
    BY <1>2, <2>1, <2>2
  <2> HIDE DEF n, m
  <2>4. ASSUME r.decision = "passed", n = 0 PROVE m = 0
    BY <2>3, <2>4
  <2>5. m = 0 => NothingStuck
    BY <1>5, StepNumbers DEF OfflineInv, StuckTold, m
  <2> QED
    BY <2>4, <2>5 DEF n
<1>8. StuckTold'
  <2>1. at' # Steps.snapshot
    BY <1>5, StepNumbers
  <2>2. r.decision # "ready"
    BY <1>2
  <2> QED
    BY <1>2, <1>5, <1>7, <2>1, <2>2 DEF StuckTold, NothingStuck, Passed
<1>9. OfflineEarned'
  BY <1>6 DEF OfflineEarned, Passed
<1> QED
  BY <1>5, <1>8, <1>9 DEF OfflineInv

LEMMA PilotStep ==
    ASSUME OfflineInv, WritePilot
    PROVE  OfflineInv'
<1>1. PICK o \in PilotOptions : File("pilot", Pilot(o)) /\ typed' = o.typed
  BY DEF WritePilot, PilotOptions
<1> DEFINE r == Pilot(o)
<1>2. /\ r \in ReportType /\ r.decision \in {"passed", "failed", "warning"}
      /\ r.decision = "passed" /\ ~o.typed => /\ evidence["snapshot"].figures # <<>>
                                              /\ evidence["snapshot"].figures[1].stuck = 0
  BY PilotTells DEF OfflineInv
<1>3. File("pilot", r) /\ typed' = o.typed /\ o.typed \in BOOLEAN
  BY <1>1 DEF PilotOptions
<1> HIDE DEF r
<1>4. /\ OfflineTypeOK' /\ Reported' /\ evidence'["pilot"] = r
      /\ (\A x \in Reporters \ {"pilot"} : evidence'[x] = evidence[x])
      /\ at = 4 /\ at' = 5 /\ standing' = standing
  <2>1. Turn(4) /\ Steps["pilot"] = 4 /\ 4 \in 1 .. 5 /\ "pilot" \in Reporters
    <3>1. Turn(Steps.pilot)
      BY DEF WritePilot
    <3> QED
      BY <3>1, StepNumbers DEF Reporters
  <2>2. r.decision # "blocked" /\ typed' \in BOOLEAN /\ counts' \in [States -> 0 .. MaxSales]
    BY <1>2, <1>3 DEF WritePilot, OfflineInv, OfflineTypeOK
  <2>3. OfflineTypeOK' /\ Reported' /\ evidence'["pilot"] = r
        /\ (\A x \in Reporters \ {"pilot"} : evidence'[x] = evidence[x])
        /\ at = 4 /\ at' = 4 + 1 /\ standing' = standing
    BY <1>2, <1>3, <2>1, <2>2, FileStep
  <2> QED
    BY <2>3
<1>5. evidence'["matrix"].decision = "" /\ evidence'["snapshot"] = evidence["snapshot"]
  BY <1>4, NotYetThen DEF NothingYet, Reporters
<1>6. StuckTold'
  <2>1. at' # Steps.snapshot
    BY <1>4, StepNumbers
  <2> QED
    BY <1>4, <1>5, <2>1 DEF OfflineInv, StuckTold, NothingStuck, Passed
<1>7. OfflineEarned'
  <2>1. ASSUME r.decision \in {"passed", "ready"}, ~o.typed, Passed("snapshot") PROVE NothingStuck
    BY <1>2, <2>1 DEF OfflineInv, StuckTold
  <2> QED
    BY <1>3, <1>4, <1>5, <2>1 DEF OfflineEarned, NothingStuck, Passed
<1> QED
  BY <1>4, <1>6, <1>7 DEF OfflineInv

LEMMA MatrixStep ==
    ASSUME OfflineInv, WriteMatrix
    PROVE  OfflineInv'
<1>1. PICK o \in [browsers : Found, require_browsers : BOOLEAN, fail_on_warning : BOOLEAN] : File("matrix", Matrix(o))
  BY DEF WriteMatrix
<1> DEFINE r == Matrix(o)
<1>2. /\ r \in ReportType /\ r.decision \in {"ready", "blocked", "warning"}
      /\ r.decision = "ready" => /\ Passed("replay") /\ Passed("pilot")
                                 /\ e2e.results = "passed" /\ e2e.playwright = "passed" /\ e2e.proof
  BY MatrixTells DEF OfflineInv, OfflineTypeOK
<1>3. File("matrix", r)
  BY <1>1
<1> HIDE DEF r
<1>4. /\ OfflineTypeOK' /\ Reported' /\ evidence'["matrix"] = r
      /\ (\A x \in Reporters \ {"matrix"} : evidence'[x] = evidence[x])
      /\ at = 5 /\ at' = 6 /\ standing' = standing /\ e2e' = e2e /\ typed' = typed
  <2>1. Turn(5) /\ UNCHANGED <<counts, typed>> /\ Steps["matrix"] = 5 /\ 5 \in 1 .. 5 /\ "matrix" \in Reporters
    BY StepNumbers DEF WriteMatrix, Reporters
  <2>3. counts' \in [States -> 0 .. MaxSales] /\ typed' \in BOOLEAN
    BY <2>1 DEF OfflineInv, OfflineTypeOK
  <2>2. OfflineTypeOK' /\ Reported' /\ evidence'["matrix"] = r
        /\ (\A x \in Reporters \ {"matrix"} : evidence'[x] = evidence[x])
        /\ at = 5 /\ at' = 5 + 1 /\ standing' = standing /\ e2e' = e2e
    BY <1>2, <1>3, <2>1, <2>3, FileStep
  <2> QED
    BY <2>1, <2>2
<1>5. \A x \in {"replay", "snapshot", "pilot"} : evidence'[x] = evidence[x]
  BY <1>4 DEF Reporters
<1>6. StuckTold'
  <2>1. at' # Steps.snapshot
    BY <1>4, StepNumbers
  <2> QED
    BY <1>4, <1>5, <2>1 DEF OfflineInv, StuckTold, NothingStuck, Passed
<1>7. OfflineEarned'
  BY <1>2, <1>4, <1>5 DEF OfflineInv, OfflineEarned, Passed
<1> QED
  BY <1>4, <1>6, <1>7 DEF OfflineInv

LEMMA LoseReportStep ==
    ASSUME OfflineInv, LoseReport
    PROVE  OfflineInv'
<1>1. /\ at <= 5 /\ at' = (IF at = 2 THEN 4 ELSE at + 1) /\ lost < MaxLost /\ lost' = lost + 1
      /\ UNCHANGED <<sales, e2e, counts, evidence, typed, standing, changes>>
  BY StepNumbers DEF LoseReport
<1>2. at \in 1 .. 6 /\ lost \in 0 .. MaxLost
  <2>1. at \in 1 .. Steps.matrix + 1 /\ lost \in 0 .. MaxLost
    BY DEF OfflineInv, OfflineTypeOK
  <2> QED
    BY <2>1, StepNumbers
<1>3. at' \in 1 .. 6 /\ at' # 3 /\ (\A n \in {3, 4, 5} : at' <= n => at <= n) /\ lost' \in 0 .. MaxLost
  BY <1>1, <1>2, OfflineAssumption DEF OfflineAssumption
<1>4. /\ at' \in 1 .. Steps.matrix + 1 /\ at' # Steps.snapshot
      /\ at' <= Steps.snapshot => at <= Steps.snapshot
      /\ at' <= Steps.pilot => at <= Steps.pilot
      /\ at' <= Steps.matrix => at <= Steps.matrix
  BY <1>3, StepNumbers
<1>5. OfflineTypeOK'
  BY <1>1, <1>3, <1>4 DEF OfflineInv, OfflineTypeOK
<1>6. Reported'
  BY <1>1, <1>4 DEF OfflineInv, Reported
<1>7. StuckTold' /\ OfflineEarned'
  BY <1>1, <1>4 DEF OfflineInv, StuckTold, OfflineEarned, NothingStuck, Passed
<1> QED
  BY <1>5, <1>6, <1>7 DEF OfflineInv

LEMMA OfflineStart == OfflineInit => OfflineInv
<1> SUFFICES ASSUME OfflineInit PROVE OfflineInv
  OBVIOUS
<1>1. /\ e2e \in E2E /\ counts = Unasked /\ standing = {} /\ evidence = [c \in Reporters |-> NoReport]
      /\ typed = FALSE /\ at = 1 /\ changes = 0 /\ lost = 0
  BY DEF OfflineInit
<1>2. sales \in Seq(Sale) /\ Len(sales) <= MaxSales
  <2>1. PICK n \in 0 .. MaxSales : sales \in [1 .. n -> {Refreshed(s) : s \in Sale} \cup {Overlooked}]
    BY DEF OfflineInit
  <2>2. n \in Nat /\ n <= MaxSales
    BY <2>1, OfflineAssumption DEF OfflineAssumption
  <2>3. Overlooked \in Sale /\ \A s \in Sale : Refreshed(s) \in Sale
    BY SaleKept DEF Overlooked, Sale, States
  <2>4. sales \in [1 .. n -> Sale]
    BY <2>1, <2>3
  <2> QED
    BY <2>2, <2>4
<1>3. counts \in [States -> 0 .. MaxSales] /\ changes \in 0 .. MaxChanges /\ lost \in 0 .. MaxLost
  BY <1>1, OfflineAssumption DEF OfflineAssumption, Unasked
<1>4. evidence \in [Reporters -> ReportType] /\ \A c \in Reporters : evidence[c].decision = ""
  <2>1. NoReport \in ReportType /\ NoReport.decision = ""
    BY DEF NoReport, ReportType
  <2> QED
    BY <1>1, <2>1
<1>5. at \in 1 .. Steps.matrix + 1
  BY <1>1 DEF Steps
<1>6. OfflineTypeOK
  BY <1>1, <1>2, <1>3, <1>4, <1>5 DEF OfflineTypeOK
<1>7. Reported
  BY <1>4 DEF Reported, Reporters
<1>8. StuckTold /\ OfflineEarned
  <2>1. at # Steps.snapshot
    BY <1>1, StepNumbers
  <2> QED
    BY <1>4, <2>1 DEF StuckTold, OfflineEarned, Passed, Reporters
<1> QED
  BY <1>6, <1>7, <1>8 DEF OfflineInv

LEMMA OfflineSteps == OfflineInv /\ [OfflineNext]_offlineVars => OfflineInv'
<1> SUFFICES ASSUME OfflineInv, [OfflineNext]_offlineVars PROVE OfflineInv'
  OBVIOUS
<1>1. CASE UNCHANGED offlineVars
  BY <1>1 DEF offlineVars, OfflineInv, OfflineTypeOK, Reported, StuckTold, OfflineEarned, NothingStuck, Passed
<1>2. ASSUME NEW i \in DOMAIN sales, TryAgain(i) \/ Settle(i) \/ Refresh(i) \/ Wait(i) PROVE OfflineInv'
  BY <1>2, SaleStep
<1> QED
  BY <1>1, <1>2, CaptureStep, ReplayStep, StatusStep, SnapshotStep, PilotStep, MatrixStep, LoseReportStep
  DEF OfflineNext

(* A pilot that passes on the server's figures had no sale that failed or was *)
(* in conflict when the server was asked, and a matrix that is ready rests on *)
(* tests, a replay and a pilot that passed: for any number of sales, changes  *)
(* between the two questions and lost reports, and whatever rows are listed.  *)
THEOREM OfflineIsEarned == OfflineSpec => [](OfflineTypeOK /\ OfflineEarned)
<1>1. OfflineInv => OfflineTypeOK /\ OfflineEarned
  BY DEF OfflineInv
<1> QED
  BY OfflineStart, OfflineSteps, <1>1, PTL DEF OfflineSpec
=============================================================================
