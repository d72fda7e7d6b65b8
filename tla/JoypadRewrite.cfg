SPECIFICATION Spec
CONSTANT Uninitialized = {}
INVARIANT HeldKeyReads
