SPECIFICATION FairSpec
CONSTANTS
    Lines <- ControlLines
    Handles = {h0, h1, h2, h3, h4}
    Stdin = h0
    Stdout = h1
    Stderr = h2
    NoFile = nofile
    MaxDepth = 7
    MayFail = FALSE
INVARIANT AbortLevel
PROPERTIES QuietAbort AbortClears
