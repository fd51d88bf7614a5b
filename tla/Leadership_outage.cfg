CONSTANT Views = {"leader", "follower", "unreachable"}
SPECIFICATION Spec
PROPERTY LeaderRunsLoops
