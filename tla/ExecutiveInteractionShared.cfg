SPECIFICATION Spec
CONSTANTS
    Surface = {"copilot", "voice_workspace"}
    Text = {t1}
    NoText = NoText
    MaxId = 1
    MaxCall = 3
    MaxReload = 1
INVARIANT DenialIsFinal
PROPERTY CallsEnd
CHECK_DEADLOCK FALSE
