SPECIFICATION AnswersSpec
CONSTANTS
    k1 = k1  k2 = k2
    perm = perm  first = first  second = second  other = other
    Keys = {k1, k2}
    Items = {perm, first, second, other}
    NoItem = NoItem
    Threads = {t1, t2}
    ItemKey <- MCItemKey
    Expiring = {first, second, other}
INVARIANT EachComplete
PROPERTIES Transparent YesWasTrue
