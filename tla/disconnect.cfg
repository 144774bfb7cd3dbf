\* A request that uses a Workspace beside one that disconnects it.
SPECIFICATION Spec
CONSTANTS
    Mailboxes = {m1}
    States = {s1}
    Browsers = {b1}
    Handlers = {h1}
    MaxConsent = 1
    AnyMailbox = AnyMailbox
    None = None
INVARIANT DisconnectSticks
CHECK_DEADLOCK FALSE
