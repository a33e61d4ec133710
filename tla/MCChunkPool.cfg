SPECIFICATION Spec
CONSTANTS
    c1 = c1  c2 = c2  a = a  b = b
    p1 = p1  p2 = p2  p3 = p3  p4 = p4  p5 = p5  p6 = p6  p7 = p7
    NULL = NULL
    Cores = {c1, c2}
    Private <- TwoPrivate
    Public = {p1, p2, p3, p4, p5, p6, p7}
    ALLOC_NUM = 2
    TEST_ARR = 3
SYMMETRY PublicSymmetry
INVARIANTS
    OnePlace
    CountersExact
PROPERTY NullMeansScarce
