\* Three threads: a holder, a sleeper, and one that barges, is woken instead,
\* or marks the word while an unlock is half done.
SPECIFICATION SyncSpec
CONSTANTS
    Threads = {t1, t2, t3}
    WRITER_BIT = 4
    Initial = 1
    MaxPosts = 2
    GenMod = 2
    MaxRounds = 4
    Callbacks = {c1}
    None = None
INVARIANTS HolderInv NoLostWakeup WordCountsHolders SemaphoreInv NobodyLeavesEarly
PROPERTIES ImplementsLock LocksAreLocks CallsReturn
CHECK_DEADLOCK FALSE
