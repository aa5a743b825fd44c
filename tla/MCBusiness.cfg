SPECIFICATION MCSpec
CONSTANTS
    MaxDay = 7
    Cycle = 2
    GraceDays = 1
    None = None
    Nobody = Nobody
    pay1 = pay1
    dispute1 = dispute1
    ref1 = ref1
    ref2 = ref2
    Msgs = {pay1, dispute1}
    Refs = {ref1, ref2}
    RefOf <- OwnRefs
    Kind <- MCKind
    Status <- MCStatus
    Events = {e1, e2}
    Cases = {c1, c2}
    Workers = {w1, w2}
    Linked = FALSE
    Offered = {"apply", "case", "lost"}
    payout = payout
    refund = refund
    Lines = {refund}
    Specs <- LeanSpecs
    MaxImports = 3
    ByLine = TRUE
    Items = {i1}
    MaxPresses = 2
    MaxReturns = 1
INVARIANTS BusinessTypeOK GraceMeansDunned  AnsweredComplete HandledOnce
INVARIANTS AppliedByOneDelivery  OneCasePerReversal
PROPERTIES DunningSparesPaid OnlyApproved
CHECK_DEADLOCK FALSE
