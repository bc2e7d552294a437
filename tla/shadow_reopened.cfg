SPECIFICATION Spec
CONSTANTS
    Writers = {w1, w2}
    Instants = {i1}
    Opinions = {o1, o2}
    Labels = {l1, l2}
    Revisions = {0, 1}
    MaxTransitions = 4
    None = None
SYMMETRY Symmetry
PROPERTY
    ForwardOnly
CHECK_DEADLOCK FALSE
