\* Two threads, a full store and a process that ends.
SPECIFICATION Spec
CONSTANTS
    t1 = t1  t2 = t2  a = a  b = b  c = c
    Thread = {t1, t2}
    Key = {a, b, c}
    Big = c
    Size <- MCSize
    MaxSize = 2  MinSize = 1
    MaxRestarts = 1
    NoKey = NoKey
SYMMETRY Symmetry
INVARIANTS
    StoredHandleKeepsFile
    TotalIsSum
