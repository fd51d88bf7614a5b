CONSTANT Views = {"leader", "follower", "worker", "unreachable", "absent"}
SPECIFICATION Spec
INVARIANTS TypeOK LoopsImplyCurrent StandbyNeverStarts
PROPERTIES SteadyLeaderIsSilent OutageFreeLeaderRunsLoops FollowerStopsLoops
