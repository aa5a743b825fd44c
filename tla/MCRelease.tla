------------------------------ MODULE MCRelease ------------------------------
(***************************************************************************)
(* Instances, for TLC, of the parts of a protected release: the evidence of *)
(* offline selling, all other evidence with the package that judges it, the *)
(* chain that makes more of it, and the gates at its end.  "focus" says which*)
(* one a behaviour is of; the others stay as they start.                    *)
(***************************************************************************)
EXTENDS ProtectedRelease, ReleaseChain, OfflineEvidence, SignoffPack

CONSTANT Parts

VARIABLE focus

releaseVars == <<vars, chainVars, offlineVars, reviewVars, focus>>

Untouched ==
    /\ file = [c \in Upstream \cup Exporters |-> Missing]
    /\ upload = NoRefs /\ signed = "complete" /\ warningsFail = FALSE /\ baseline = FALSE
    /\ pc = 1 /\ troubles = 0

Unstarted ==
    /\ option = [strict |-> TRUE, failOnWarning |-> TRUE, require |-> TRUE, exception |-> FALSE,
                 gate |-> FALSE, drill |-> "no", given |-> FALSE]
    /\ input = [tenants |-> "good", providers |-> TRUE, evidence |-> "good", references |-> TRUE]
    /\ report = [c \in Scripts |-> None]
    /\ exits = [n \in 1 .. Len(Order) |-> "none"]
    /\ step = 1 /\ bundle = "" /\ crashes = 0

Unsold ==
    /\ sales = <<>> /\ e2e = GoodTests /\ counts = Unasked /\ standing = {} /\ typed = FALSE /\ at = 1 /\ changes = 0 /\ lost = 0
    /\ evidence = [c \in Reporters |-> NoReport]

Unreviewed == lacks = {} /\ chosen = {} /\ filed = <<>> /\ turn = 1 /\ gone = {} /\ readiness = ""

(* Where the tests are not found no pilot passes; one sale is enough there. *)
OfflineCases == Len(sales) <= 1 \/ e2e = [GoodTests EXCEPT !.layout = "both"]

(* Two items that are lacking add their findings, so the second finding is an option *)
(* or a report that is lost; a run as shipped is far from ready, and has one less.   *)
ReviewCases == Cardinality(lacks) <= 1 /\ (Differs(Thorough) > MaxFindings => Findings < MaxFindings)

MCInit ==
    \/ focus = "gate" /\ focus \in Parts /\ Init /\ Unstarted /\ Unsold /\ Unreviewed
    \/ focus = "chain" /\ focus \in Parts /\ ChainInit /\ Untouched /\ Unsold /\ Unreviewed
    \/ focus = "offline" /\ focus \in Parts /\ OfflineInit /\ OfflineCases /\ Untouched /\ Unstarted /\ Unreviewed
    \/ focus = "review" /\ focus \in Parts /\ ReviewInit /\ ReviewCases /\ Untouched /\ Unstarted /\ Unsold

MCNext ==
    \/ focus = "gate" /\ Next /\ UNCHANGED <<chainVars, offlineVars, reviewVars, focus>>
    \/ focus = "chain" /\ ChainNext /\ UNCHANGED <<vars, offlineVars, reviewVars, focus>>
    \/ focus = "offline" /\ OfflineNext /\ UNCHANGED <<vars, chainVars, reviewVars, focus>>
    \/ focus = "review" /\ ReviewNext /\ UNCHANGED <<vars, chainVars, offlineVars, focus>>

(* Reports, uploads, sales and decisions stay in their domains. *)
ReleaseTypeOK == TypeOK /\ ChainTypeOK /\ OfflineTypeOK /\ ReviewTypeOK

MCSpec == MCInit /\ [][MCNext]_releaseVars
==============================================================================
