SPECIFICATION FairSpec
CONSTANTS
    Threads = {t1, t2, t3, t4}
    MaxRounds = 3
PROPERTIES
    MeetsRendezvous
    AllPass
CHECK_DEADLOCK FALSE
