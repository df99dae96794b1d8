SPECIFICATION CallSpec
CONSTANTS
    Nobody = Nobody
    Absent = Absent
    Own = o1
    Orgs = {o1, o2, o3}
    MatchInputs <- MCMatchInputs
    PassInputs <- MCPassInputs
    Histories <- MCHistories
    IdsPerPass = 10
    RankInputs <- MCRankInputs
    ClaimInputs <- MCClaimInputs
    RankedClaims <- MCRankedClaims
    LedgerInputs <- MCLedgerInputs
    Null = Null
    Secrets <- MCSecrets
    Coeffs <- MCCoeffs
    ComponentIds = {1, 2, 3, 4}
    BpsBase = 5
    MaxFixed = 2
    MaxNet = 7
INVARIANTS TenantIsolation SeparationOfDuties VisibilityFollowsMatrix
    EligibilityMatchesTable BetterTermsNeverHurt RankingIsFair ListNeverGoesBack
    SplitIsFair BooksBalance ClaimRankingIsFair TwoSharesNoFewer
CHECK_DEADLOCK FALSE
