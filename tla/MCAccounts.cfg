CONSTANTS
    Login = {u1, u2}
    Founder = u1
    Slot = {r1, r2}
    None = None
    Seats = 2

SPECIFICATION Spec

INVARIANTS
    Enforced
    BlockedAreBarred
    SignedOut

PROPERTIES
    BlockIsPermanent
    KeepsAnOwner

CHECK_DEADLOCK FALSE

CONSTRAINT OneLoss

SYMMETRY Symmetry
