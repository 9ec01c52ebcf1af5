SPECIFICATION Spec
CONSTANTS
    t1 = t1
    t2 = t2
    s1 = s1
    s2 = s2
    s3 = s3
    g1 = g1
    Threads = {t1, t2}
    Readers = {t1}
    Normal = {s1, s2, s3}
    Big = {g1}
    Hash <- MCHash
    FirstCap = 2
    MaxCap = 8
    MapSize = 2
    Tries = 1
    MaxOps = 5
INVARIANTS LookupSound ChainsUnbroken
PROPERTIES SearchesEnd
