SPECIFICATION Spec
CONSTANTS
    g1 = g1  g2 = g2  f1 = f1  f2 = f2  f3 = f3  s1 = s1  s2 = s2
    Group = {g1, g2}
    File = {f1, f2, f3}
    Slot = {s1, s2}
    Dags <- MCDags
    None = None
INVARIANTS
    AcceptsOnlyDags
    RefusesOnlyOthers
\* a DAG is checked once
CHECK_DEADLOCK FALSE
