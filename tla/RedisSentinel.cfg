SPECIFICATION Spec
CONSTANTS
    s1 = s1  s2 = s2  s3 = s3
    a = a  b = b  c = c
    None = None
    Sentinels = {s1, s2, s3}
    Instances = {a, b, c}
    FirstMaster = a
    Rank <- MCRank
    Budgets <- MCBudgets
INVARIANTS OneLeaderPerEpoch ConfigNamesOneMaster AdvertisedWasPromoted
CHECK_DEADLOCK FALSE
