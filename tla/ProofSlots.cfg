CONSTANTS
    Threads = {p1, p2, p3}
    Limit = 2
SPECIFICATION Spec
INVARIANTS
    CounterIsExact
PROPERTY
    ImplementsJobSlots
