SPECIFICATION Spec
CONSTANTS
    ra = ra
    rb = rb
    rc = rc
    apple = apple
    banana = banana
    pa = pa
    pb = pb
    Replica = {ra}
    Element = {apple, banana}
    MaxUpdates = 0
    MaxCopies = 0
    MaxEvents = 0
    MaxClockCopies = 0
    MaxAdds = 0
    MaxSetCopies = 0
    Key = {apple}
    hash <- CollidingHash
    Time = {1, 2}
    NoEntry = NoEntry
    MaxWrites = 0
    MaxMapCopies = 0
    Request = {}
    Settable = {0, 2}
    MaxCount = 2
    Checked = FALSE
    Me = ra
    Peer = {pa, pb}
    Nobody = Nobody
    Message <- OneLeader
    NoMessage = NoMessage
    Proposal = {}
    MaxTerm = 1
PROPERTY CommittedEntriesStay
CHECK_DEADLOCK FALSE
