SPECIFICATION SliceSpec
CONSTANTS
    Nobody = Nobody
    ownerOrgId = merchantOrg
    strangerOrg = strangerOrg
    r1 = r1
    r2 = r2
    r3 = r3
    r4 = r4
    Replacements = {r1, r2, r3, r4}
    Submission <- MCSubmission
    Submitter <- MCSubmitter
    Summary <- MCSummary
INVARIANTS SlicesAreSound ReconciledAnswerHolds
PROPERTIES EveryReplacementEnds
