\* One agent, two handlers, two links and two downloads, of which two are under way at a time.
SPECIFICATION Spec
CONSTANTS
    Agents = {a1}
    ContentReasons = {grants}
    Links = {l1, l2}
    MaxKey = 2
    Handlers = {h1, h2}
    Downloads = {d1, d2}
    None = None
INVARIANTS TypeOK LastEditStands NoLateDownload
PROPERTY WarningStays
CONSTRAINT Bounded
SYMMETRY Symmetric
VIEW StillRead
CHECK_DEADLOCK FALSE
