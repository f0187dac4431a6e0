SPECIFICATION Spec
CONSTANTS
    w1 = w1
    w2 = w2
    u1 = u1
    u2 = u2
    s1 = s1
    Ticket = {1}
    Person = {u1, u2, s1}
    Staff = {s1}
    Worker = {w1, w2}
    Status <- ReachableStatuses
    Priority <- SomePriorities
    Patches <- SomePatches
    Nobody = Nobody
    MaxMessages = 2
    MaxFaults = 1
SYMMETRY Symmetric
INVARIANTS
    PeopleAreWhoTheySay
PROPERTIES
    ClosedStaysClosed
    AssignmentSticks
