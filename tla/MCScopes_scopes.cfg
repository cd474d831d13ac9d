SPECIFICATION MCSpec
CONSTANTS
    Parts = {"env", "args", "cmds", "mods", "dirs", "strings"}
    Order <- MCOrder
    Locals = {"_a"}
    Lower = {"low"}
    Contents = {1, 2}
    NoValue = 0
    Options = {o1}
    MaxSaved = 2
    MaxMacros = 2
    MaxEdits = 3
    Last = 2
    Words = {"a", "b"}
    NoArgument = ""
    Switch = "/E"
    Labels = {":l", ":m"}
    CallLines <- MCCallLines
    MaxArguments = 4
    MaxCalls = 1
    StatusWords = 2
    Bits = 1
    Default = 2
    MaxExtra = 1
    MaxText = 4
    MaxLen = 4
    Tree <- MCTree
    Asked <- MCAsked
    MaxStack = 2
    MaxChanges = 2
INVARIANTS TypeOK ShowsTheList StringsFit
PROPERTIES Restores ImplementsScopes FindsCommands GoesThere PopdReturns
CHECK_DEADLOCK FALSE
