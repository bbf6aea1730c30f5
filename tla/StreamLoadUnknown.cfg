SPECIFICATION Spec
CONSTANTS
    Secure = TRUE
    CommittedReplies <- MCRegularCommittedReplies
    UncommittedReplies <- MCRegularUncommittedReplies
INVARIANT
    UnknownOutcomeIsAmbiguous
