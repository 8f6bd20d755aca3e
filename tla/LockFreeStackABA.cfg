\* Two popping threads, and an address malloc gives out twice.
SPECIFICATION Spec
CONSTANTS
    Threads = {t1, t2}
    Poppers = {t1, t2}
    Nodes = {n1, n2}
    NULL = NULL
INVARIANT ListIsStack
