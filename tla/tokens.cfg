\* Two Workspaces, two flows of one browser, two requests in flight.
SPECIFICATION Spec
CONSTANTS
    Mailboxes = {m1, m2}
    States = {s1, s2, s3}
    Browsers = {b1}
    Handlers = {h1, h2}
    MaxConsent = 2
    AnyMailbox = AnyMailbox
    None = None
SYMMETRY Symmetric
INVARIANTS TypeOK TokensMatchMailbox FlowKeepsItsMailbox QuietCutSticks
CHECK_DEADLOCK FALSE
