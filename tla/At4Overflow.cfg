CONSTANT CaseFaults = {}
SPECIFICATION Spec
INVARIANT OutstandingBounded
