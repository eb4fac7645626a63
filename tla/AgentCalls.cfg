SPECIFICATION AgentFairSpec
CONSTANTS
    call = call
    send = send
    raw = raw
    template = template
    own = own
    None = None
    Calls <- MCCalls
    Sends = {send}
    Built = {call, send}
    Ids = {template, own}
    Given <- MCGiven
    Faults = {"disconnect", "garbage"}
    MaxAnswers = 2
INVARIANTS
    RightAnswers
    
PROPERTIES
    AnsweredCallReturns
CHECK_DEADLOCK FALSE
