SPECIFICATION Spec
CONSTANTS
    c1 = c1  c2 = c2  i1 = i1  w1 = w1  w2 = w2
    a1 = a1  a2 = a2  m1 = m1  m2 = m2
    Null = Null
    Procs = {c1, c2, i1, w1, w2}
    Systems = {a1, a2, m1, m2}
    Async = {a1, a2}
    Members <- SepMembers
    IOTasks <- SepIOTasks
    IORoot <- SepIORoot
    CompRoot <- SepCompRoot
    MaxCalls = 4
INVARIANTS NoDangling Distinct Agreed ListIsProgram
SYMMETRY Symmetry
