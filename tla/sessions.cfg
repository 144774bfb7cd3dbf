\* Two sessions of one user, two requests in flight, an administrator.
SPECIFICATION Spec
CONSTANTS
    SessionIds = {s1, s2}
    Handlers = {h1, h2}
    MaxSecret = 2
    None = None
SYMMETRY Symmetric
INVARIANTS TypeOK NoSignInWithoutCode FactorWasConfirmed ActsPermitted
PROPERTY FactorDropPermitted
