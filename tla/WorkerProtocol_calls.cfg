\* Two callers and a thread that closes, both routes, junk on the channel.
SPECIFICATION Spec
CONSTANTS
    Starter = starter
    Callers = {c1, c2}
    Closers = {k}
    NoThread = none
    MaxCalls = 4
    Junk = {"blank", "text", "value"}
    MaxJunk = 1
    Kids = {"plain", "stubborn"}
    MaxFaults = 1
INVARIANTS AnswersOwn LostMeansOver GroupGone
PROPERTIES CallsReturn
CHECK_DEADLOCK FALSE
