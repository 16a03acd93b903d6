SPECIFICATION FairSpec
CONSTANTS
    p1 = p1
    p2 = p2
    p3 = p3
    s1 = s1
    s2 = s2
    None = None
    Procs <- MCProcs
    Servers <- MCServers
    NumChannels = 2
    NumUnhappySlots = 1
    Multiprocessor = FALSE
INVARIANTS
TypeOK
CountMatches
ChannelExclusive
NoPanic
WaitsOnlyWhenNoneFree
PROPERTY
WaiterNotified
CHECK_DEADLOCK FALSE
