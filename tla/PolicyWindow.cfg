SPECIFICATION WindowSpec
CONSTANTS
    Absent = Absent
    HoursOfDay = 4
    Blank = Blank
    Malformed = Malformed
    HomeChain = 1
    DefaultGas = 5
    Policies <- MCPolicies
    Submitted <- MCSubmitted
    Floor <- MCFloor
    DemoTarget <- MCTarget
    Fillings <- MCFillings
    MaxEdits = 2
    Contexts <- MCContexts
    Start = 2
    MaxHours = 3
    MaxDecisions = 3
INVARIANTS
    ScheduleIsKept
    ReopeningKeepsTheRules
    ReportsAreTrue
    RemovalsNeverLoosen
CHECK_DEADLOCK FALSE
