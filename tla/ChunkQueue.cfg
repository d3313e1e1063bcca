SPECIFICATION FairSpec
CONSTANTS
    t1 = t1
    t2 = t2
    t3 = t3
    Consumers = {t1, t2, t3}
    MaxPushes = 3
INVARIANTS
    QueueInv
    NoLostWakeup
    StopReleases
PROPERTIES
    Delivers
