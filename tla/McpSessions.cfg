SPECIFICATION Spec
CONSTANTS
    s1 = s1
    s2 = s2
    p1 = p1
    p2 = p2
    p3 = p3
    Session = {s1, s2}
    Post = {p1, p2, p3}
    kinds <- MCkinds
    Capacity = 1
    None = None
INVARIANTS SessionsMatchClients AcceptedIsDelivered
PROPERTIES EverybodyIsServed
CHECK_DEADLOCK FALSE
