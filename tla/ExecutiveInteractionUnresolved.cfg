SPECIFICATION Spec
CONSTANTS
    Surface = {"copilot"}
    Text = {t1}
    NoText = NoText
    MaxId = 2
    MaxCall = 2
    MaxReload = 0
PROPERTY UnresolvedBlocksNewIds
CHECK_DEADLOCK FALSE
