SPECIFICATION Spec
CONSTANTS
    self = self
    near = near
    far = far
    k1 = k1
    k2 = k2
    v1 = v1
    Contact = {self, near, far}
    Self = self
    Width = 3
    IdOf <- MCIdOf
    K_SIZE = 2
    MAX_LOCK_ATTEMPTS = 2
    None = None
    Key = {k1, k2}
    KeyId <- MCKeyId
    Val = {v1}
INVARIANTS
    TypeOK
    ReplicationComplete
PROPERTIES
    ThrowsWithoutSelf
CHECK_DEADLOCK FALSE
