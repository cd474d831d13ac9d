SPECIFICATION Spec
CONSTANTS
    Lines <- RedirLines
    Handles = {h0, h1, h2, h3, h4, h5, h6, h7, h8, h9, h10, h11, h12, h13, h14, h15}
    Stdin = h0
    Stdout = h1
    Stderr = h2
    NoFile = nofile
    MaxDepth = 5
    MayFail = FALSE
INVARIANTS TypeOK NoLeak
