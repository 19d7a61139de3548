CONSTANTS
    Session = {s1, s2}
    Question = {btc, eth}
    Configured <- MCConfigured
    Fixed <- MCFixed
    Charges <- MCCharges
    MaxCalls = 2
    SlotLength = 2
    OutputTTL = 1
    MaxClock = 3
    None = None
SPECIFICATION Spec
INVARIANTS
    AnswersTheQuestionAsked
