SPECIFICATION Spec
CONSTANTS
    Users = {u1}
    Hosts = {h1}
    DayTicks = 2
    Days = 3
    Limit = 2
    MaxTime = 6
    MaxLog = 2
    MaxLeases = 0
INVARIANTS
    TotalsFitTimeline
    TimelineComplete
    TopCoversTimeline
