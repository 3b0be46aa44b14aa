SPECIFICATION Spec
CONSTANTS
    ra = ra
    rb = rb
    rc = rc
    apple = apple
    banana = banana
    pa = pa
    pb = pb
    Replica = {ra, rb, rc}
    Element = {apple, banana}
    MaxUpdates = 2
    MaxCopies = 2
    MaxEvents = 3
    MaxClockCopies = 2
    MaxAdds = 2
    MaxSetCopies = 2
    Key = {apple}
    hash <- CollidingHash
    Time = {1, 2}
    NoEntry = NoEntry
    MaxWrites = 3
    MaxMapCopies = 2
    Request = {ra, rb, rc}
    Settable = {0, 2}
    MaxCount = 2
    Checked = FALSE
    Me = ra
    Peer = {pa, pb}
    Nobody = Nobody
    Message <- Messages
    NoMessage = NoMessage
    Proposal = {apple}
    MaxTerm = 2
INVARIANT ValueIsNetOfKnown
INVARIANT CompareIsCausal
INVARIANT TagsUnique
INVARIANT AddsStand
INVARIANT SameWritesSameEntry
INVARIANT OnlyRacesLoseUpdates
INVARIANT OneVotePerTerm
PROPERTY ImplementsKnowledge
CHECK_DEADLOCK FALSE
