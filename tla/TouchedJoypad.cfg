SPECIFICATION TouchedSpec
CONSTANT Uninitialized = {"Up", "Right", "A"}
INVARIANTS
    TypeOK
    OneGroupOrNothing
    NoPhantomPress
PROPERTY FreshAfterReselect
