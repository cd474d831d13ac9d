SPECIFICATION Spec
CONSTANTS
    Lines <- BlockRedirs
    Handles = {h0, h1, h2, h3, h4, h5, h6, h7}
    Stdin = h0
    Stdout = h1
    Stderr = h2
    NoFile = nofile
    MaxDepth = 5
    MayFail = TRUE
INVARIANT RestoredAfterFailure
