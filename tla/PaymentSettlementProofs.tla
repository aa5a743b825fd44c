----------------------- MODULE PaymentSettlementProofs -----------------------
(***************************************************************************)
(* Proofs about PaymentSettlement, for every statement, whatever actions    *)
(* its lines call for and however often it is imported.                    *)
(*                                                                         *)
(* The type invariant and NothingDoubled are inductive together.  What they *)
(* rest on is what generating adds: only actions that were missing, each    *)
(* once (NewOnes).                                                         *)
(***************************************************************************)
EXTENDS PaymentSettlement, FiniteSetTheorems, SequenceTheorems, TLAPS

ActionStates == {"pending_approval", "approved", "rejected", "posted", "blocked"}

SettlementInv == SettlementTypeOK /\ NothingDoubled

(* What one step does to the actions: it adds new ones at the end, each      *)
(* without documents, and changes of an earlier one its state, its link to a *)
(* row that is gone, or, once it is approved, its document.                  *)
Grown(new) ==
    /\ new \in Seq(Action) /\ Len(actions) <= Len(new)
    /\ \A a \in 1 .. Len(actions) :
          /\ new[a].line = actions[a].line /\ new[a].type = actions[a].type
          /\ new[a].linked => actions[a].linked
          /\ \/ new[a].docs = actions[a].docs
             \/ actions[a].status = "approved" /\ new[a].docs = Documents(actions[a].docs)
    /\ \A a \in 1 .. Len(new) \ 1 .. Len(actions) : new[a].docs = 0

-----------------------------------------------------------------------------
LEMMA ActionFields ==
    ASSUME NEW x \in Action
    PROVE  /\ \A s \in ActionStates :
                 /\ [x EXCEPT !.status = s] \in Action /\ [x EXCEPT !.status = s].line = x.line
                 /\ [x EXCEPT !.status = s].type = x.type /\ [x EXCEPT !.status = s].linked = x.linked
                 /\ [x EXCEPT !.status = s].docs = x.docs
           /\ /\ [x EXCEPT !.linked = FALSE] \in Action /\ [x EXCEPT !.linked = FALSE].line = x.line
              /\ [x EXCEPT !.linked = FALSE].type = x.type /\ [x EXCEPT !.linked = FALSE].linked = FALSE
              /\ [x EXCEPT !.linked = FALSE].docs = x.docs
           /\ \A n \in 0 .. 2 :
                 /\ [x EXCEPT !.docs = n] \in Action /\ [x EXCEPT !.docs = n].line = x.line
                 /\ [x EXCEPT !.docs = n].type = x.type /\ [x EXCEPT !.docs = n].linked = x.linked
                 /\ [x EXCEPT !.docs = n].docs = n
           /\ Documents(x.docs) \in 0 .. 2
<1>1. ASSUME NEW s \in ActionStates
      PROVE  /\ [x EXCEPT !.status = s] \in Action /\ [x EXCEPT !.status = s].line = x.line
             /\ [x EXCEPT !.status = s].type = x.type /\ [x EXCEPT !.status = s].linked = x.linked
             /\ [x EXCEPT !.status = s].docs = x.docs
  <2> DEFINE y == [x EXCEPT !.status = s]
  <2>1. y \in Action
    BY DEF Action, ActionStates
  <2>2. y.line = x.line /\ y.type = x.type /\ y.linked = x.linked /\ y.docs = x.docs
    BY DEF Action
  <2> QED
    BY <2>1, <2>2
<1>2. /\ [x EXCEPT !.linked = FALSE] \in Action /\ [x EXCEPT !.linked = FALSE].line = x.line
      /\ [x EXCEPT !.linked = FALSE].type = x.type /\ [x EXCEPT !.linked = FALSE].linked = FALSE
      /\ [x EXCEPT !.linked = FALSE].docs = x.docs
  BY DEF Action
<1>3. ASSUME NEW n \in 0 .. 2
      PROVE  /\ [x EXCEPT !.docs = n] \in Action /\ [x EXCEPT !.docs = n].line = x.line
             /\ [x EXCEPT !.docs = n].type = x.type /\ [x EXCEPT !.docs = n].linked = x.linked
             /\ [x EXCEPT !.docs = n].docs = n
  BY DEF Action
<1>4. Documents(x.docs) \in 0 .. 2
  BY DEF Action, Documents
<1> QED
  BY <1>1, <1>2, <1>3, <1>4

(* Every finite set can be listed without repetition. *)
LEMMA Listed ==
    ASSUME NEW S, IsFiniteSet(S)
    PROVE  /\ SetToSeq(S) \in Seq(S)
           /\ \A i, j \in 1 .. Len(SetToSeq(S)) : SetToSeq(S)[i] = SetToSeq(S)[j] => i = j
<1>1. Cardinality(S) \in Nat /\ ExistsBijection(1 .. Cardinality(S), S)
  BY FS_CardinalityType
<1>2. \E f \in [1 .. Cardinality(S) -> S] : IsInjective(f)
  BY <1>1 DEF ExistsBijection, Bijection, Injection
<1>3. SetToSeq(S) \in [1 .. Cardinality(S) -> S] /\ IsInjective(SetToSeq(S))
  BY <1>2 DEF SetToSeq
<1> QED
  BY <1>1, <1>3 DEF IsInjective

LEMMA MissingFinite == ASSUME NEW lines \in SUBSET Lines PROVE IsFiniteSet(Missing(lines))
<1> DEFINE new(s) == [line |-> s[1], type |-> s[2], linked |-> TRUE, status |-> "pending_approval", docs |-> 0]
           all == Lines \X ActionTypes
           rows == {new(s) : s \in all}
           f == [s \in all |-> new(s)]
<1>1. IsFiniteSet(ActionTypes)
  <2>1. IsFiniteSet({"provider_fee"})
    BY FS_Singleton
  <2>2. IsFiniteSet({"provider_fee"} \cup {"payout_clearing"})
    BY <2>1, FS_AddElement
  <2>3. IsFiniteSet(({"provider_fee"} \cup {"payout_clearing"}) \cup {"refund_credit_note"})
    BY <2>2, FS_AddElement
  <2>4. IsFiniteSet((({"provider_fee"} \cup {"payout_clearing"}) \cup {"refund_credit_note"}) \cup {"chargeback_receivable"})
    BY <2>3, FS_AddElement
  <2>5. IsFiniteSet(((({"provider_fee"} \cup {"payout_clearing"}) \cup {"refund_credit_note"}) \cup {"chargeback_receivable"}) \cup {"manual_review"})
    BY <2>4, FS_AddElement
  <2>6. ActionTypes = ((({"provider_fee"} \cup {"payout_clearing"}) \cup {"refund_credit_note"}) \cup {"chargeback_receivable"}) \cup {"manual_review"}
    BY DEF ActionTypes
  <2> QED
    BY <2>5, <2>6
<1>2. IsFiniteSet(all)
  BY <1>1, FS_Product, SettlementAssumption
<1>3. f \in Surjection(all, rows)
  BY DEF Surjection
<1>4. IsFiniteSet(rows)
  BY <1>2, <1>3, FS_Surjection
<1>5. Missing(lines) \in SUBSET rows
  BY DEF Missing
<1> QED
  BY <1>4, <1>5, FS_Subset

(* Generating adds, for a line and a type that lack an action, one. *)
LEMMA NewOnes ==
    ASSUME SettlementInv, NEW lines \in SUBSET Lines
    PROVE  LET new == Generated(lines)
           IN  /\ Grown(new)
               /\ \A a \in 1 .. Len(actions) : new[a] = actions[a]
               /\ \A a, b \in 1 .. Len(new) :
                     /\ new[a].linked /\ new[b].linked
                     /\ new[a].line = new[b].line /\ new[a].type = new[b].type
                     => a = b
<1> DEFINE missing == Missing(lines)
           more == SetToSeq(missing)
           new == actions \o more
           n == Len(actions)
<1>1. actions \in Seq(Action) /\ n \in Nat /\ DOMAIN actions = 1 .. n
  BY DEF SettlementInv, SettlementTypeOK
<1> DEFINE fresh(l, t) == [line |-> l, type |-> t, linked |-> TRUE, status |-> "pending_approval", docs |-> 0]
<1>m. \A x \in missing : \E l \in Lines, t \in ActionTypes : x = fresh(l, t) /\ ActionOf(l, t) = {}
  BY DEF Missing
<1>f. \A l \in Lines, t \in ActionTypes :
        fresh(l, t) \in Action /\ fresh(l, t).line = l /\ fresh(l, t).type = t /\ fresh(l, t).docs = 0
  BY DEF Action
<1> HIDE DEF fresh
<1>2. \A x \in missing : x \in Action /\ x.docs = 0 /\ ActionOf(x.line, x.type) = {}
  BY <1>m, <1>f
<1>3. \A x, y \in missing : x.line = y.line /\ x.type = y.type => x = y
  BY <1>m, <1>f
<1> HIDE DEF missing
<1>4. more \in Seq(missing) /\ \A i, j \in 1 .. Len(more) : more[i] = more[j] => i = j
  BY MissingFinite, Listed DEF missing
<1> HIDE DEF more
<1>5. Len(more) \in Nat /\ (\A i \in 1 .. Len(more) : more[i] \in missing) /\ more \in Seq(Action)
  BY <1>2, <1>4
<1>6. /\ new \in Seq(Action) /\ Len(new) = n + Len(more)
      /\ \A a \in 1 .. n : new[a] = actions[a]
      /\ \A a \in 1 .. Len(new) : a > n => new[a] = more[a - n] /\ a - n \in 1 .. Len(more)
  BY <1>1, <1>5, ConcatProperties
<1> HIDE DEF new
<1>7. Grown(new)
  <2>1. \A a \in 1 .. Len(new) \ 1 .. n : new[a].docs = 0
    BY <1>1, <1>2, <1>5, <1>6
  <2>2. n <= Len(new)
    BY <1>1, <1>5, <1>6
  <2> QED
    BY <1>6, <2>1, <2>2 DEF Grown
<1>8. ASSUME NEW a \in 1 .. Len(new), NEW b \in 1 .. Len(new), new[a].linked, new[b].linked,
             new[a].line = new[b].line, new[a].type = new[b].type
      PROVE  a = b
  <2>1. CASE a <= n /\ b <= n
    <3>1. a \in 1 .. n /\ b \in 1 .. n
      BY <1>1, <1>6, <2>1
    <3> QED
      BY <1>1, <1>6, <1>8, <3>1 DEF SettlementInv, NothingDoubled, Ids
  <2>2. CASE a > n /\ b > n
    <3>1. new[a] = more[a - n] /\ new[b] = more[b - n] /\ a - n \in 1 .. Len(more) /\ b - n \in 1 .. Len(more)
      BY <1>6, <2>2
    <3>2. more[a - n] = more[b - n]
      BY <1>3, <1>5, <1>8, <3>1
    <3>3. a - n = b - n
      BY <1>4, <3>1, <3>2
    <3> QED
      BY <1>1, <1>5, <1>6, <3>3
  <2>3. ASSUME NEW c \in 1 .. n, NEW d \in 1 .. Len(new), d > n, new[c].linked,
               new[c].line = new[d].line, new[c].type = new[d].type
        PROVE  FALSE
    <3>1. ActionOf(new[d].line, new[d].type) = {}
      BY <1>2, <1>5, <1>6, <2>3
    <3>2. c \in ActionOf(new[d].line, new[d].type)
      BY <1>1, <1>6, <2>3 DEF ActionOf, Ids
    <3> QED
      BY <3>1, <3>2
  <2>4. n < a /\ b <= n => b \in 1 .. n
    BY <1>1, <1>5, <1>6
  <2>5. n < b /\ a <= n => a \in 1 .. n
    BY <1>1, <1>5, <1>6
  <2> QED
    BY <1>1, <1>5, <1>6, <1>8, <2>1, <2>2, <2>3, <2>4, <2>5
<1> QED
  BY <1>6, <1>7, <1>8 DEF Generated, new, more, missing

-----------------------------------------------------------------------------
Batches == [recon : {"draft", "imported", "matched", "mismatch", "reconciled", "closed"},
            approval : {"missing", "pending", "approved", "rejected", "blocked"}]

LineStates == {"absent", "matched", "mismatch", "reconciled"}

Unique(new) ==
    \A a, b \in 1 .. Len(new) : /\ new[a].linked /\ new[b].linked
                               /\ new[a].line = new[b].line /\ new[a].type = new[b].type
                               => a = b

(* A step by which the actions grow as they may, and a batch and its lines stay *)
(* in their domains, is a good one.                                            *)
GoodStep ==
    /\ SettlementInv'
    /\ \A a \in Ids : actions'[a].docs > actions[a].docs => actions[a].status = "approved"

LEMMA GrownIsGood ==
    ASSUME SettlementInv, batch' \in Batches, line' \in [Lines -> LineStates], known' \subseteq Lines,
           imports' \in 0 .. MaxImports, Grown(actions'), Len(actions') = Len(actions) \/ Unique(actions')
    PROVE  GoodStep
<1>1. /\ actions \in Seq(Action) /\ Len(actions) \in Nat /\ DOMAIN actions = 1 .. Len(actions)
      /\ actions' \in Seq(Action) /\ Len(actions') \in Nat /\ DOMAIN actions' = 1 .. Len(actions')
  BY DEF SettlementInv, SettlementTypeOK, Grown
<1>2. SettlementTypeOK'
  BY <1>1 DEF SettlementTypeOK, Batches, LineStates
<1>3. ASSUME NEW a \in 1 .. Len(actions) PROVE actions[a].docs \in 0 .. 1
  <2>1. actions[a] \in Action
    BY <1>1, ElementOfSeq
  <2>2. a \in Ids
    BY <1>1 DEF Ids
  <2>3. actions[a].docs \in 0 .. 2
    BY <2>1 DEF Action
  <2>4. actions[a].docs <= 1
    BY <2>2 DEF SettlementInv, NothingDoubled
  <2> QED
    BY <2>3, <2>4
<1>4. ASSUME NEW a \in 1 .. Len(actions') PROVE actions'[a].docs <= 1
  <2>1. CASE a \in 1 .. Len(actions)
    <3>1. actions'[a].docs \in {actions[a].docs, Documents(actions[a].docs)}
      BY <2>1 DEF Grown
    <3>2. actions[a].docs \in 0 .. 1
      BY <1>3, <2>1
    <3> QED
      BY <3>1, <3>2 DEF Documents
  <2>2. CASE a \notin 1 .. Len(actions)
    <3>1. actions'[a].docs = 0
      BY <2>2 DEF Grown
    <3> QED
      BY <3>1
  <2> QED
    BY <2>1, <2>2
<1>5. Unique(actions')
  <2>1. CASE Len(actions') = Len(actions)
    <3> SUFFICES ASSUME NEW a \in 1 .. Len(actions), NEW b \in 1 .. Len(actions),
                        actions'[a].linked, actions'[b].linked,
                        actions'[a].line = actions'[b].line, actions'[a].type = actions'[b].type
                 PROVE  a = b
      BY <2>1 DEF Unique
    <3>1. /\ actions[a].linked /\ actions[b].linked
          /\ actions[a].line = actions[b].line /\ actions[a].type = actions[b].type
      BY DEF Grown
    <3>2. a \in Ids /\ b \in Ids
      BY <1>1 DEF Ids
    <3> QED
      BY <3>1, <3>2 DEF SettlementInv, NothingDoubled
  <2>2. CASE Unique(actions')
    BY <2>2
  <2> QED
    BY <2>1, <2>2
<1>6. NothingDoubled'
  BY <1>1, <1>4, <1>5 DEF NothingDoubled, Ids, Unique
<1>7. ASSUME NEW a \in Ids, actions'[a].docs > actions[a].docs PROVE actions[a].status = "approved"
  <2>1. a \in 1 .. Len(actions)
    BY <1>1 DEF Ids
  <2>2. actions'[a].docs # actions[a].docs
    BY <1>3, <1>7, <2>1
  <2> QED
    BY <2>1, <2>2 DEF Grown
<1> QED
  BY <1>2, <1>6, <1>7 DEF GoodStep, SettlementInv

LEMMA SameIsGood ==
    ASSUME SettlementInv, batch' \in Batches, line' \in [Lines -> LineStates], known' \subseteq Lines,
           UNCHANGED <<actions, imports>>
    PROVE  GoodStep
<1>1. actions \in Seq(Action) /\ imports \in 0 .. MaxImports /\ Len(actions) \in Nat
  BY DEF SettlementInv, SettlementTypeOK
<1>2. Grown(actions)
  BY <1>1 DEF Grown
<1> QED
  BY <1>1, <1>2, GrownIsGood

(* Every action is changed by the same rule. *)
LEMMA EditIsGood ==
    ASSUME SettlementInv, UNCHANGED <<batch, line, known, imports>>, NEW new \in [1 .. Len(actions) -> Action],
           actions' = new,
           \A a \in 1 .. Len(actions) :
              /\ new[a].line = actions[a].line /\ new[a].type = actions[a].type
              /\ new[a].linked => actions[a].linked
              /\ \/ new[a].docs = actions[a].docs
                 \/ actions[a].status = "approved" /\ new[a].docs = Documents(actions[a].docs)
    PROVE  GoodStep
<1>1. /\ batch \in Batches /\ line \in [Lines -> LineStates] /\ known \subseteq Lines
      /\ imports \in 0 .. MaxImports /\ Len(actions) \in Nat
  BY DEF SettlementInv, SettlementTypeOK, Batches, LineStates
<1>2. new \in Seq(Action) /\ Len(new) = Len(actions)
  BY <1>1
<1>3. Grown(new)
  BY <1>1, <1>2 DEF Grown
<1> QED
  BY <1>1, <1>2, <1>3, GrownIsGood

LEMMA ActionStepIsGood ==
    ASSUME SettlementInv, NEW a \in Ids, NEW to \in ActionStates, NEW from, SetStatus(a, from, to)
    PROVE  GoodStep
<1> DEFINE to1(b) == IF b = a THEN [actions[b] EXCEPT !.status = to] ELSE actions[b]
<1>1. actions \in Seq(Action) /\ DOMAIN actions = 1 .. Len(actions) /\ \A b \in 1 .. Len(actions) : actions[b] \in Action
  BY DEF SettlementInv, SettlementTypeOK
<1>2. actions' = [b \in 1 .. Len(actions) |-> to1(b)] /\ UNCHANGED <<batch, line, known, imports>>
  BY <1>1 DEF SetStatus
<1>3. \A b \in 1 .. Len(actions) :
         /\ to1(b) \in Action /\ to1(b).line = actions[b].line /\ to1(b).type = actions[b].type
         /\ to1(b).linked = actions[b].linked /\ to1(b).docs = actions[b].docs
  BY <1>1, ActionFields
<1> HIDE DEF to1
<1> DEFINE new == [b \in 1 .. Len(actions) |-> to1(b)]
<1>4. new \in [1 .. Len(actions) -> Action] /\ \A b \in 1 .. Len(actions) : new[b] = to1(b)
  BY <1>3
<1> HIDE DEF new
<1> QED
  BY <1>2, <1>3, <1>4, EditIsGood DEF new

LEMMA BookIsGood == ASSUME SettlementInv, NEW ids \in SUBSET Bookable, Book(ids) PROVE GoodStep
<1> DEFINE to1(b) == IF b \in ids THEN [actions[b] EXCEPT !.docs = Documents(actions[b].docs)] ELSE actions[b]
<1>1. actions \in Seq(Action) /\ DOMAIN actions = 1 .. Len(actions) /\ \A b \in 1 .. Len(actions) : actions[b] \in Action
  BY DEF SettlementInv, SettlementTypeOK
<1>2. actions' = [b \in 1 .. Len(actions) |-> to1(b)] /\ UNCHANGED <<batch, line, known, imports>>
  BY <1>1 DEF Book, Ids
<1>3. \A b \in 1 .. Len(actions) :
         /\ to1(b) \in Action /\ to1(b).line = actions[b].line /\ to1(b).type = actions[b].type
         /\ to1(b).linked = actions[b].linked
         /\ \/ to1(b).docs = actions[b].docs
            \/ actions[b].status = "approved" /\ to1(b).docs = Documents(actions[b].docs)
  BY <1>1, ActionFields DEF Bookable
<1> HIDE DEF to1
<1> DEFINE new == [b \in 1 .. Len(actions) |-> to1(b)]
<1>4. new \in [1 .. Len(actions) -> Action] /\ \A b \in 1 .. Len(actions) : new[b] = to1(b)
  BY <1>3
<1> HIDE DEF new
<1> QED
  BY <1>2, <1>3, <1>4, EditIsGood DEF new

LEMMA GenerateIsGood ==
    ASSUME SettlementInv, NEW lines \in SUBSET Lines, Generate(lines)
    PROVE  GoodStep
<1>1. batch \in Batches /\ line \in [Lines -> LineStates] /\ known \subseteq Lines /\ imports \in 0 .. MaxImports
  BY DEF SettlementInv, SettlementTypeOK, Batches, LineStates
<1>2. Grown(Generated(lines)) /\ Unique(Generated(lines))
  BY NewOnes DEF Unique
<1>3. batch' \in Batches
  <2> DEFINE shown == Approval(Generated(lines))
  <2>1. shown \in {"missing", "pending", "approved", "rejected", "blocked"}
    BY DEF Approval
  <2>2. batch' = [batch EXCEPT !.approval = shown]
    BY DEF Generate
  <2> HIDE DEF shown
  <2> QED
    BY <1>1, <2>1, <2>2 DEF Batches
<1> QED
  BY <1>1, <1>2, <1>3, GrownIsGood DEF Generate

LEMMA ApproveBatchIsGood == ASSUME SettlementInv, ApproveBatch PROVE GoodStep
<1> DEFINE lines == {l \in Lines : Imported(l)}
           acts == IF actions = <<>> THEN Generated(lines) ELSE actions
           status(a) == IF acts[a].status = "pending_approval" THEN "approved" ELSE acts[a].status
           done == [a \in DOMAIN acts |-> [acts[a] EXCEPT !.status = status(a)]]
<1>1. batch \in Batches /\ line \in [Lines -> LineStates] /\ known \subseteq Lines /\ imports \in 0 .. MaxImports
  BY DEF SettlementInv, SettlementTypeOK, Batches, LineStates
<1>2. actions' = done /\ batch' = [batch EXCEPT !.approval = Approval(done)] /\ UNCHANGED <<line, known, imports>>
  BY DEF ApproveBatch
<1>3. acts \in Seq(Action) /\ Grown(acts) /\ (acts = actions \/ Unique(acts))
  <2>1. CASE actions = <<>>
    <3>1. Grown(Generated(lines)) /\ Unique(Generated(lines))
      BY NewOnes DEF Unique
    <3> QED
      BY <2>1, <3>1 DEF Grown
  <2>2. CASE actions # <<>>
    <3>1. actions \in Seq(Action) /\ Len(actions) \in Nat
      BY DEF SettlementInv, SettlementTypeOK
    <3> QED
      BY <2>2, <3>1 DEF Grown
  <2> QED
    BY <2>1, <2>2
<1> HIDE DEF acts
<1>4. Len(acts) \in Nat /\ DOMAIN acts = 1 .. Len(acts) /\ \A a \in 1 .. Len(acts) : acts[a] \in Action
  BY <1>3, ElementOfSeq, LenProperties
<1>5. ASSUME NEW a \in 1 .. Len(acts) PROVE status(a) \in ActionStates
  BY <1>4 DEF Action, ActionStates
<1> HIDE DEF status
<1>6. /\ done \in [1 .. Len(acts) -> Action]
      /\ \A a \in 1 .. Len(acts) :
            /\ done[a].line = acts[a].line /\ done[a].type = acts[a].type
            /\ done[a].linked = acts[a].linked /\ done[a].docs = acts[a].docs
  BY <1>4, <1>5, ActionFields
<1> HIDE DEF done
<1>7. done \in Seq(Action) /\ Len(done) = Len(acts)
  BY <1>4, <1>6
<1>8. Grown(done)
  BY <1>3, <1>4, <1>6, <1>7 DEF Grown
<1>9. Len(done) = Len(actions) \/ Unique(done)
  BY <1>3, <1>6, <1>7 DEF Unique
<1>10. batch' \in Batches
  <2> DEFINE shown == Approval(done)
  <2>1. shown \in {"missing", "pending", "approved", "rejected", "blocked"}
    BY DEF Approval
  <2>2. batch' = [batch EXCEPT !.approval = shown]
    BY <1>2
  <2> HIDE DEF shown
  <2> QED
    BY <1>1, <2>1, <2>2 DEF Batches
<1> QED
  BY <1>1, <1>2, <1>8, <1>9, <1>10, GrownIsGood

LEMMA ImportIsGood == ASSUME SettlementInv, Import PROVE GoodStep
<1> DEFINE new == [a \in 1 .. Len(actions) |-> [actions[a] EXCEPT !.linked = FALSE]]
<1>1. batch \in Batches /\ imports \in 0 .. MaxImports /\ actions \in Seq(Action) /\ known \subseteq Lines
  BY DEF SettlementInv, SettlementTypeOK, Batches
<1>2. Len(actions) \in Nat /\ DOMAIN actions = 1 .. Len(actions) /\ \A a \in 1 .. Len(actions) : actions[a] \in Action
  BY <1>1, ElementOfSeq, LenProperties
<1>3. actions' = new /\ imports' \in 0 .. MaxImports /\ UNCHANGED known
  BY <1>1, <1>2, SettlementAssumption DEF Import, Unlinked, Ids
<1>4. /\ new \in [1 .. Len(actions) -> Action]
      /\ \A a \in 1 .. Len(actions) :
            /\ new[a].line = actions[a].line /\ new[a].type = actions[a].type
            /\ new[a].linked = FALSE /\ new[a].docs = actions[a].docs
  BY <1>2, ActionFields
<1> HIDE DEF new
<1>5. new \in Seq(Action) /\ Len(new) = Len(actions)
  BY <1>2, <1>4
<1>6. Grown(new)
  BY <1>2, <1>4, <1>5 DEF Grown
<1>7. line' \in [Lines -> LineStates] /\ batch' \in Batches
  BY <1>1 DEF Import, MatchAll, Matched, LineStates, Batches
<1> QED
  BY <1>1, <1>3, <1>5, <1>6, <1>7, GrownIsGood

-----------------------------------------------------------------------------
(* A batch becomes reconciled only while all actions are approved or posted. *)
LEMMA ReconcileApproved == ASSUME SettlementInv, Reconcile PROVE \A a \in Ids : actions[a].status \in {"approved", "posted"}
<1>1. Approval(actions) = "approved"
  BY DEF Reconcile, CurrentApproval
<1>2. {actions[a].status : a \in DOMAIN actions} \subseteq {"approved", "posted"}
  BY <1>1 DEF Approval
<1> QED
  BY <1>2 DEF Ids

LEMMA StepIsGood == ASSUME SettlementInv, SettlementNext PROVE GoodStep
<1>1. /\ batch \in Batches /\ line \in [Lines -> LineStates] /\ known \subseteq Lines
      /\ \A l \in Lines : Matched(l) \in LineStates
  BY DEF SettlementInv, SettlementTypeOK, Batches, LineStates, Matched
<1>2. CASE Import
  BY <1>2, ImportIsGood
<1>3. CASE Match
  <2>1. line' \in [Lines -> LineStates] /\ UNCHANGED <<known, actions, imports>>
    BY <1>1, <1>3 DEF Match, MatchAll, LineStates
  <2>2. batch' \in Batches
    BY <1>1, <1>3 DEF Match, MatchAll, Batches
  <2> QED
    BY <1>1, <2>1, <2>2, SameIsGood
<1>4. CASE GenerateBatch
  BY <1>4, GenerateIsGood DEF GenerateBatch
<1>5. CASE ApproveBatch
  BY <1>5, ApproveBatchIsGood
<1>6. CASE CreateMoves
  BY <1>6, BookIsGood DEF CreateMoves
<1>7. CASE Reconcile
  <2>1. CurrentApproval = "approved" /\ batch' = [recon |-> "reconciled", approval |-> CurrentApproval]
    BY <1>7 DEF Reconcile
  <2>2. batch' \in Batches
    BY <2>1 DEF Batches
  <2> QED
    BY <1>1, <1>7, <2>2, SameIsGood DEF Reconcile, LineStates
<1>8. CASE Close
  BY <1>1, <1>8, SameIsGood DEF Close, Batches
<1>9. ASSUME NEW l \in Lines, MatchLine(l) PROVE GoodStep
  BY <1>1, <1>9, SameIsGood DEF MatchLine
<1>10. ASSUME NEW l \in Lines, GenerateLine(l) PROVE GoodStep
  BY <1>10, GenerateIsGood DEF GenerateLine
<1>11. ASSUME NEW l \in Lines, LineMoves(l) PROVE GoodStep
  BY <1>11, BookIsGood DEF LineMoves
<1>12. ASSUME NEW l \in Lines, Learn(l) PROVE GoodStep
  BY <1>1, <1>12, SameIsGood DEF Learn
<1>13. ASSUME NEW l \in Lines, NEW s \in {"mismatch", "reconciled"}, MarkLine(l, s) PROVE GoodStep
  BY <1>1, <1>13, SameIsGood DEF MarkLine, LineStates
<1>14. ASSUME NEW a \in Ids, Approve(a) \/ Reject(a) \/ Block(a) \/ MarkPosted(a) \/ PostMove(a) PROVE GoodStep
  BY <1>14, ActionStepIsGood DEF Approve, Reject, Block, MarkPosted, PostMove, ActionStates
<1>15. ASSUME NEW a \in Ids, CreateMove(a) PROVE GoodStep
  <2>1. {a} \in SUBSET Bookable
    BY <1>15 DEF CreateMove, Bookable
  <2>2. actions' = [actions EXCEPT ![a].docs = Documents(actions[a].docs)] /\ UNCHANGED <<batch, line, known, imports>>
    BY <1>15 DEF CreateMove
  <2>3. Book({a})
    BY <2>2 DEF Book, Ids, SettlementInv, SettlementTypeOK
  <2> QED
    BY <2>1, <2>3, BookIsGood
<1> QED
  BY <1>2, <1>3, <1>4, <1>5, <1>6, <1>7, <1>8, <1>9, <1>10, <1>11, <1>12, <1>13, <1>14, <1>15 DEF SettlementNext

LEMMA SettlementStarts == SettlementInit => SettlementInv
BY SettlementAssumption DEF SettlementInit, SettlementInv, SettlementTypeOK, NothingDoubled, Ids

(* The type invariant and NothingDoubled hold whatever buttons are pressed.     *)
THEOREM SettlementInductive == SettlementSpec => []SettlementInv
<1>1. SettlementInv /\ [SettlementNext]_settlementVars => SettlementInv'
  <2> SUFFICES ASSUME SettlementInv, [SettlementNext]_settlementVars PROVE SettlementInv'
    OBVIOUS
  <2>1. CASE SettlementNext
    BY <2>1, StepIsGood DEF GoodStep
  <2>2. CASE UNCHANGED settlementVars
    BY <2>2 DEF settlementVars, SettlementInv, SettlementTypeOK, NothingDoubled, Ids
  <2> QED
    BY <2>1, <2>2
<1> QED
  BY SettlementStarts, <1>1, PTL DEF SettlementSpec

(* The batch, its lines and its actions stay in their domains.                  *)
THEOREM SettlementTypeCorrect == SettlementSpec => []SettlementTypeOK
BY SettlementInductive, PTL DEF SettlementInv

(* However often actions are generated, a line has one of a type; and an action *)
(* has one document, whichever form creates it.                                *)
THEOREM NothingDoubledCorrect == SettlementSpec => []NothingDoubled
BY SettlementInductive, PTL DEF SettlementInv

(* An action is booked only while it is approved, and a batch becomes reconciled *)
(* only when all its actions are.                                               *)
THEOREM OnlyApprovedCorrect == SettlementSpec => OnlyApproved
<1> DEFINE Step == /\ \A a \in Ids : actions'[a].docs > actions[a].docs => actions[a].status = "approved"
                   /\ batch.recon # "reconciled" /\ batch'.recon = "reconciled"
                          => \A a \in Ids : actions[a].status \in {"approved", "posted"}
<1>1. SettlementInv /\ [SettlementNext]_settlementVars => [Step]_settlementVars
  <2> SUFFICES ASSUME SettlementInv, SettlementNext PROVE Step
    OBVIOUS
  <2>1. \A a \in Ids : actions'[a].docs > actions[a].docs => actions[a].status = "approved"
    BY StepIsGood DEF GoodStep
  <2>2. Reconcile \/ batch'.recon = batch.recon \/ batch'.recon # "reconciled"
    BY DEF SettlementNext, Import, Match, MatchAll, GenerateBatch, GenerateLine, Generate, ApproveBatch, CreateMoves,
           LineMoves, Book, Close, MatchLine, MarkLine, Learn, Approve, Reject, Block, MarkPosted, PostMove,
           SetStatus, CreateMove, SettlementInv, SettlementTypeOK
  <2> QED
    BY <2>1, <2>2, ReconcileApproved
<1> QED
  BY SettlementInductive, <1>1, PTL DEF SettlementSpec, OnlyApproved
==============================================================================
