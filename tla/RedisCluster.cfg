SPECIFICATION Spec
CONSTANTS
    m1 = m1  m2 = m2  a = a  b = b  c = c
    s1 = s1  s2 = s2  sa = sa
    None = None
    Nodes = {m1, m2, a, b, c}
    Slots = {s1, s2, sa}
    Rank <- MCRank
    MasterAtStart <- MCMaster
    OwnerAtStart <- MCOwner
    EpochAtStart <- MCEpoch
    Suspects = {a}
    LateAcks = FALSE
    Budgets <- MCBudgets
INVARIANTS OneWinnerPerEpoch EpochsKnown OneOwnerPerEpoch SettledAgree
CHECK_DEADLOCK FALSE
