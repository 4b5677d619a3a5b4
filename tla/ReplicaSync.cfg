SPECIFICATION Spec
CONSTANTS
    None = None
    t1 = t1
    t2 = t2
    yes = yes
    MaxOrders = 2
    Symbols = {yes}
    Placements <- Orders
    Quantities = {1, 3}
    Prices = {0, 1, 2}
    Limits = {1}
    Brokers = {"sync"}
    Threads = {t1, t2}
    MaxModifies = 1
    MaxUpdates = 2
INVARIANTS
    DoneAreMoved
CHECK_DEADLOCK FALSE
