SPECIFICATION Spec
CONSTANTS
    Surface = {"copilot", "action"}
    Text = {t1}
    NoText = NoText
    MaxId = 2
    MaxCall = 3
    MaxReload = 1
INVARIANT ContinuationsAreApproved
INVARIANT AnswersFitTheQuestion
INVARIANT BlockIsInDoubt
PROPERTY BlockEndsByResultOrOverwrite
CHECK_DEADLOCK FALSE
