SPECIFICATION Spec
CONSTANTS
    Secure = TRUE
    CommittedReplies <- MCCommittedReplies
    UncommittedReplies <- MCUncommittedReplies
INVARIANTS
    TypeOK
    KnownFailureIsFinal
    ResultIsCommitted
    LoadedAtMostOnce
    AmbiguousOnlyWhenReached
PROPERTY
    ImplementsContract
