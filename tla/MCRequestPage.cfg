SPECIFICATION FairSpec
CONSTANTS
    None = None
    Actors = {"viewer", "colleague"}
    Viewers = {"requester", "reviewer"}
    RequestKinds = {"single_execution", "query_access"}
    MaxChanges = 3
INVARIANTS
    TypeOK
    ApprovesWhatWasRead
    RetryOfferIsCurrent
PROPERTIES
    WatchedBatchSettles
CHECK_DEADLOCK FALSE
