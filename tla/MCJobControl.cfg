SPECIFICATION Spec
CONSTANTS
    Pid = {1, 2}
    StartChld = {"Default", "Ignore"}
    Shell = Shell
    None = None
INVARIANTS NoMissedChild LatestState ForegroundAtInput
PROPERTY FollowsJobList
CONSTRAINT FewIfIgnored
