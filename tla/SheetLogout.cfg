SPECIFICATION Spec
CONSTANTS
    Runs = {r1}
    Accounts = {a1}
    MaxMoment = 2
    MaxRestores = 0
    MaxSessions = 3
PROPERTIES
    InFlightForgotten
CHECK_DEADLOCK FALSE
