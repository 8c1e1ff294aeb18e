SPECIFICATION Spec
CONSTANTS
    None = None
    Signups = {s1, s2}
    Logins = {g1}
    Mailboxes = {m1, m2}
    Passwords = {p1, p2}
    Checkouts = {c1, c2}
    Handlers = {h1, h2}
    Listings = {l1, l2}
    Names = {n1, n2}
SYMMETRY Interchangeable
CHECK_DEADLOCK FALSE
INVARIANT TokensAreTheOwners
INVARIANT PaidHasAName
INVARIANT InvitedSincePaid
