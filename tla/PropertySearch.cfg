\* A search stops once it is answered.
CONSTANTS
    None = None
    MaxItems = 2
    FixtureCap = 1
    MaxScrolls = 2
    RowTarget = 3
    Cards <- MCCards
    Curated <- MCCurated
    Requests <- MCRequests
    Outcomes <- MCOutcomes
CHECK_DEADLOCK FALSE
SPECIFICATION Spec
INVARIANTS
    TypeOK
    FailuresAreContained
    CountsAddUp
    EmptyStateTells
    ClientAgrees
    SecondFilterDropsNothing
PROPERTY
    SearchReplies
