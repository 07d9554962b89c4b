SPECIFICATION Spec
CONSTANTS
    Users = {u1}
    Hosts = {h1}
    DayTicks = 2
    Days = 3
    Limit = 1
    MaxTime = 2
    MaxLog = 0
    MaxLeases = 1
PROPERTIES
    TimelineShowsLeases
