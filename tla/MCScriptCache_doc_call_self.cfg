SPECIFICATION Spec
CONSTANTS
    Labels = {"x"}
    NULL = null
    Files = {"a", "b"}
    Main = "a"
    Texts <- MCTexts
    Sizes <- MCSizes
    Lists = {1, 2, 3}
    MaxDepth = 2
    MaxEdits = 1
    MaxSwitches = 1
PROPERTY CallStarts
