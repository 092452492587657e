CONSTANTS
    Chars <- MCChars
    Servers <- MCServers
    Static <- MCStatic
    Wanted <- MCWanted
    ServiceBlock = 2
    AddrBlock = 1
    NoAddr = "0.0.0.0:0"
    Garbage = "garbage"
    MaxEvents = 4
SPECIFICATION Spec
INVARIANTS ServicesInv
PROPERTY AnswerFaithful
CHECK_DEADLOCK FALSE
