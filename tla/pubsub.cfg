CONSTANTS
    c1 = c1
    c2 = c2
    s1 = s1
    s2 = s2
    p1 = p1
    p2 = p2
    None = None
    Channels = {c1, c2}
    Ids = {s1}
    Publishers = {p1, p2}
    max_messages_per_subscriber = 2
    Limits = {1}
    MaxPublished = 3
    MaxListed = 2
SPECIFICATION Spec
SYMMETRY Swaps
INVARIANTS NewestKept PublisherOrderKept SilentAfterLeaving
CHECK_DEADLOCK FALSE
