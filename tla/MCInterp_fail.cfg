SPECIFICATION Spec
CONSTANTS
    Lines <- RedirLines
    Handles = {h0, h1, h2, h3, h4, h5}
    Stdin = h0
    Stdout = h1
    Stderr = h2
    NoFile = nofile
    MaxDepth = 5
    MayFail = TRUE
INVARIANTS NoDangling StreamsRestored
