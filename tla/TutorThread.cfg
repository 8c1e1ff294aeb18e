SPECIFICATION Spec
CONSTANTS
    p1 = p1
    p2 = p2
    p3 = p3
    elsewhere = elsewhere
    brieflessPost = brieflessPost
    unownedPost = unownedPost
    disk = disk
    queue = queue
    draft = draft
    strange = strange
    Posts = {p1, p2, p3, elsewhere, brieflessPost, unownedPost}
    Listings = {disk, queue, draft, strange}
    ListingOf <- OneListing
    Unowned = {strange}
    Briefless = {draft}
    LastPhase = 1
    Limit = 1
    Day = 2
    AtOnce = 2
    MaxTime = 2
    MaxFaults = 1
CHECK_DEADLOCK FALSE
SYMMETRY SamePosts
INVARIANT OvershootIsBounded
INVARIANT PhaseHasItsHistory
