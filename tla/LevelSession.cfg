\* Two others, one of them a friend.
CONSTANTS
    Id = {p1, p2}
    Friends = {p1}
SPECIFICATION Spec
INVARIANTS ButtonsTruthful
    NoUnfairProgress
