SPECIFICATION Spec
CONSTANTS
    artist = artist
    slot = slot
    slot2 = slot2
    selector = selector
    Ftp = Ftp
    e = e
    x = x
    z = z
    p = p
    q = q
    u = u
    Strings = {artist}
    Slots = {slot, slot2}
    Switches = {selector}
    Selector = selector
    Order <- MCOrder
    Values = {e, x, z}
    Empty = e
    Profiles = {p, q, u}
    Limit = 2
    Lacks = Lacks
    Unread = Unread
    Absent = {slot2}
    Writable <- MCItems
    DeleteConfirmed = TRUE
    Unsendable = {z, u}
    Bodies <- MCBodies
    Sources <- MCSources
    Scopes <- MCScopes
    MaxRuns = 2
    MaxTroubles = 2
    MaxEdits = 1
CHECK_DEADLOCK FALSE
INVARIANTS
    ChangesAreKept
    ListsAreNotMixed
    ReportIsTrue
    UndoPutsBack
PROPERTIES
    OnlyConfirmedIsReplaced
