SPECIFICATION PoolSpec
CONSTANTS
    Threads = {t1, t2}
    Addresses = {1, 2, 3}
    MaxConn = 2
    MaxResets = 1
    NoRaw = 0
INVARIANTS OneHolder
PROPERTIES Answered
