SPECIFICATION FairSpec
CONSTANTS
    NoSession = NoSession
    Checkouts = {c1, c2}
    Handlers = {h1, h2}
    AsyncMethods = TRUE
    Refunds = TRUE
    MaxFaults = 2
CHECK_DEADLOCK FALSE
INVARIANT AckedIsRecognised
INVARIANT OneDeliveryInvites
INVARIANT FoundIsExpired
INVARIANT SentWasInvited
PROPERTY SentStays
PROPERTY ImplementsAccess
PROPERTY PaymentIsRecognised
PROPERTY PaidIsResolved
