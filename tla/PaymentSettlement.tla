------------------------- MODULE PaymentSettlement --------------------------
(***************************************************************************)
(* One settlement batch of a payment provider: its statement's lines, the  *)
(* accounting actions generated for them, finance's approval of each, and  *)
(* the documents (account moves and refund payments) the actions create.   *)
(*                                                                         *)
(* The unit of step is a request: one button of the batch's, a line's or   *)
(* an action's form.  Requests take turns here.  Amounts, accounts and     *)
(* notes are left out: all lines have amounts and the accounts are         *)
(* configured.  The batch requires finance approval, as it does by default.*)
(***************************************************************************)
EXTENDS Naturals, Sequences, FiniteSets, SequencesExt

CONSTANTS Lines,       \* the lines of the provider's statement
          Specs,       \* Specs[l]: action types _accounting_action_specs gives for l
          MaxImports,  \* a bound: times the statement is imported
          ByLine       \* whether line forms are used to generate actions

ActionTypes == {"provider_fee", "payout_clearing", "refund_credit_note",
                "chargeback_receivable", "manual_review"}

ASSUME SettlementAssumption ==
    /\ IsFiniteSet(Lines)
    /\ Specs \in [Lines -> SUBSET ActionTypes]
    /\ MaxImports \in Nat /\ ByLine \in BOOLEAN

VARIABLES batch,     \* [recon, approval]: reconciliation_status, finance_approval_status
          line,      \* line[l]: the reconciliation status of l's row, "absent" before an import
          known,     \* lines for which Tijara holds an event, an invoice or a subscription
          actions,   \* the accounting actions, in the order they were created
          imports    \* the number of imports so far

settlementVars == <<batch, line, known, actions, imports>>

Action == [line : Lines, type : ActionTypes,
           linked : BOOLEAN,              \* settlement_line_id is still set
           status : {"pending_approval", "approved", "rejected", "posted", "blocked"},
           docs   : 0 .. 2]               \* documents created for it, two or more being alike

Ids == DOMAIN actions
Imported(l) == line[l] # "absent"

-----------------------------------------------------------------------------
(* _refresh_finance_approval_status for a list of actions. *)
Approval(acts) ==
    LET statuses == {acts[a].status : a \in DOMAIN acts}
    IN  IF acts = <<>> THEN "missing"
        ELSE IF "rejected" \in statuses THEN "rejected"
        ELSE IF "blocked" \in statuses THEN "blocked"
        ELSE IF statuses \subseteq {"approved", "posted"} THEN "approved"
        ELSE "pending"

(* action_match_records gives a line, whatever status it had. *)
Matched(l) == IF l \in known THEN "matched" ELSE "mismatch"

(* action_match_lines: every line, then the batch. *)
MatchAll(lines) ==
    /\ line' = [l \in Lines |-> IF l \in lines THEN Matched(l) ELSE "absent"]
    /\ batch' = [batch EXCEPT !.recon = IF lines = {} THEN "draft"
                                        ELSE IF lines \subseteq known THEN "matched" ELSE "mismatch"]

(* The rows are deleted and created again: the actions lose their lines. *)
Unlinked == [a \in Ids |-> [actions[a] EXCEPT !.linked = FALSE]]

Import ==
    /\ imports < MaxImports
    /\ MatchAll(Lines)
    /\ actions' = Unlinked
    /\ imports' = imports + 1
    /\ UNCHANGED known

Match == MatchAll({l \in Lines : Imported(l)}) /\ UNCHANGED <<known, actions, imports>>

MatchLine(l) ==
    /\ Imported(l)
    /\ line' = [line EXCEPT ![l] = Matched(l)]
    /\ UNCHANGED <<batch, known, actions, imports>>

MarkLine(l, status) ==
    /\ Imported(l) /\ line[l] # status
    /\ line' = [line EXCEPT ![l] = status]
    /\ UNCHANGED <<batch, known, actions, imports>>

(* An event, invoice or subscription of the line is recorded. *)
Learn(l) == l \notin known /\ known' = known \cup {l} /\ UNCHANGED <<batch, line, actions, imports>>

(* A search that misses what exists (a fault). *)
NoneOf(l, t) == {}

(* The action _ensure_accounting_action finds for line l and type t. *)
ActionOf(l, t) == {a \in Ids : actions[a].linked /\ actions[a].line = l /\ actions[a].type = t}

(* The actions still to be created for some lines; each asks for approval at once. *)
Missing(lines) ==
    {[line |-> s[1], type |-> s[2], linked |-> TRUE, status |-> "pending_approval", docs |-> 0] :
        s \in {s \in lines \X ActionTypes : s[2] \in Specs[s[1]] /\ ActionOf(s[1], s[2]) = {}}}

Generated(lines) == actions \o SetToSeq(Missing(lines))

Generate(lines) ==
    /\ actions' = Generated(lines)
    /\ batch' = [batch EXCEPT !.approval = Approval(Generated(lines))]
    /\ UNCHANGED <<line, known, imports>>

GenerateBatch   == Generate({l \in Lines : Imported(l)})
GenerateLine(l) == ByLine /\ Imported(l) /\ Generate({l})

(* Approve Finance, hidden once approved. *)
ApproveBatch ==
    LET acts == IF actions = <<>> THEN Generated({l \in Lines : Imported(l)}) ELSE actions
        done == [a \in DOMAIN acts |-> [acts[a] EXCEPT !.status = IF @ = "pending_approval" THEN "approved" ELSE @]]
    IN  /\ batch.approval # "approved"
        /\ actions' = done
        /\ batch' = [batch EXCEPT !.approval = Approval(done)]
        /\ UNCHANGED <<line, known, imports>>

-----------------------------------------------------------------------------
(* The action's own form.  None of it refreshes the batch's approval. *)

SetStatus(a, from, to) ==
    /\ actions[a].status \in from
    /\ actions' = [actions EXCEPT ![a].status = to]
    /\ UNCHANGED <<batch, line, known, imports>>

Approve(a)    == SetStatus(a, {"pending_approval"}, "approved")
Reject(a)     == SetStatus(a, {"pending_approval"}, "rejected")
Block(a)      == SetStatus(a, {"pending_approval", "approved", "rejected"}, "blocked")
MarkPosted(a) == SetStatus(a, {"approved", "blocked"}, "posted")

(* action_create_draft_accounting_move: an action that has a move keeps it. *)
Documents(n) == IF n = 0 THEN 1 ELSE n

CreateMove(a) ==
    /\ actions[a].status = "approved" /\ actions[a].docs = 0
    /\ actions' = [actions EXCEPT ![a].docs = Documents(@)]
    /\ UNCHANGED <<batch, line, known, imports>>

PostMove(a) == actions[a].docs > 0 /\ SetStatus(a, {"approved"}, "posted")

Bookable == {a \in Ids : actions[a].status = "approved"}

Book(ids) ==
    /\ ids # {}
    /\ actions' = [a \in Ids |-> IF a \in ids THEN [actions[a] EXCEPT !.docs = Documents(@)] ELSE actions[a]]
    /\ UNCHANGED <<batch, line, known, imports>>

(* Create Draft Moves on the batch, and on a line. *)
CreateMoves   == batch.approval = "approved" /\ Book(Bookable)
LineMoves(l)  == Imported(l) /\ Book({a \in Bookable : actions[a].line = l /\ actions[a].linked})

(* A check of the approval the form shows (a fault). *)
ShownApproval == batch.approval

CurrentApproval == Approval(actions)

Reconcile ==
    /\ batch.recon # "reconciled"
    /\ \E l \in Lines : Imported(l)
    /\ \A l \in Lines : line[l] # "mismatch"
    /\ CurrentApproval = "approved"
    /\ line' = [l \in Lines |-> IF line[l] = "matched" THEN "reconciled" ELSE line[l]]
    /\ batch' = [recon |-> "reconciled", approval |-> CurrentApproval]
    /\ UNCHANGED <<known, actions, imports>>

Close == /\ batch.recon # "closed"
         /\ batch' = [batch EXCEPT !.recon = "closed"]
         /\ UNCHANGED <<line, known, actions, imports>>

SettlementInit ==
    /\ batch = [recon |-> "draft", approval |-> "missing"]
    /\ line = [l \in Lines |-> "absent"]
    /\ known = {} /\ actions = <<>> /\ imports = 0

SettlementNext ==
    \/ Import \/ Match \/ GenerateBatch \/ ApproveBatch \/ CreateMoves \/ Reconcile \/ Close
    \/ \E l \in Lines : \/ MatchLine(l) \/ GenerateLine(l) \/ LineMoves(l) \/ Learn(l)
                        \/ \E s \in {"mismatch", "reconciled"} : MarkLine(l, s)
    \/ \E a \in Ids : Approve(a) \/ Reject(a) \/ Block(a) \/ MarkPosted(a) \/ CreateMove(a) \/ PostMove(a)

SettlementSpec == SettlementInit /\ [][SettlementNext]_settlementVars

-----------------------------------------------------------------------------
(* Properties *)

SettlementTypeOK ==
    /\ batch \in [recon : {"draft", "imported", "matched", "mismatch", "reconciled", "closed"},
                  approval : {"missing", "pending", "approved", "rejected", "blocked"}]
    /\ line \in [Lines -> {"absent", "matched", "mismatch", "reconciled"}]
    /\ known \subseteq Lines
    /\ actions \in Seq(Action)
    /\ imports \in 0 .. MaxImports

(* Nothing is done twice: however often actions are generated, for the      *)
(* batch or for a line, and in whatever state the earlier ones are, a       *)
(* line's row has one action of a type; and an action has one document,     *)
(* although its form, its line's and the batch's all offer to create it.    *)
NothingDoubled ==
    /\ \A a, b \in Ids : /\ actions[a].linked /\ actions[b].linked
                         /\ actions[a].line = actions[b].line /\ actions[a].type = actions[b].type
                         => a = b
    /\ \A a \in Ids : actions[a].docs <= 1

(* The approval a batch shows may be older than a rejection or a block of   *)
(* its actions.  An action is booked only while it is approved itself, and  *)
(* a batch becomes reconciled only when all it has are.                     *)
OnlyApproved ==
    [][/\ \A a \in Ids : actions'[a].docs > actions[a].docs => actions[a].status = "approved"
       /\ batch.recon # "reconciled" /\ batch'.recon = "reconciled"
              => \A a \in Ids : actions[a].status \in {"approved", "posted"}]_settlementVars
=============================================================================
