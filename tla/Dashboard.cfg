SPECIFICATION Spec
CONSTANTS
    Runs = {r1, r2}
    Clicks = {c1, c2}
    Instances = {n1, n2}
    Ids = {i1}
    Intents <- MCIntents
    Bodies <- MCBodies
    Policy <- MCPolicy
    NoId = NoId
    NoIntent = NoIntent
    NoInstance = NoInstance
    Absent = Absent
    HoursOfDay = 24
    Decimals = 3
    Forms <- MCForms
SYMMETRY Alike
INVARIANTS
    SentWasDecided
    SentOnce
    ReleasedWasSent
CHECK_DEADLOCK FALSE
