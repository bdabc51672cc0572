SPECIFICATION Spec
CONSTANTS
    Phrase <- SmallPhrase
    Signals <- SmallSignals
    Text <- SmallText
    MaxSteps = 2
INVARIANTS
    NumberIsTaken
CHECK_DEADLOCK FALSE
