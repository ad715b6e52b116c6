SPECIFICATION Spec
CONSTANTS
    Cpu = {0, 1}
    Task = {p1, p2, p3}
    Idle = Idle
    MaxDl = 2
    Masks = {{0}, {0, 1}}
SYMMETRY Symmetry
CONSTRAINT FewAside
INVARIANTS OneRunqueue OverloadAgrees
PROPERTY MigratesEarlier
