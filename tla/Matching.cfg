\* Two users, two requests in flight at once, one of them may fail.
SPECIFICATION FairSpec
CONSTANTS
    r1 = r1
    r2 = r2
    User = {1, 2}
    Request = {r1, r2}
    NoUser = NoUser
    MaxFailures = 1
INVARIANTS
    TypeOK
    MatchSound
    NoMissedMatch
    NewMatchOnce
    MatchAnnounced
    AcceptedDecisionStands
PROPERTIES
    RefinesMutualMatch
    MutualLikesPair
