SPECIFICATION Spec
CONSTANTS
    c1 = c1  c2 = c2  i1 = i1  w1 = w1  w2 = w2
    a1 = a1  a2 = a2  m1 = m1  m2 = m2
    Null = Null
    Procs = {c1, i1}
    Systems = {a1, m1}
    Async = {a1}
    Members <- MixMembers
    IOTasks <- MixIOTasks
    IORoot <- MixIORoot
    CompRoot <- MixCompRoot
    MaxCalls = 4
INVARIANT Distinct
