\* Two nodes and one election, at exactly the margin.
CONSTANTS
    Node = {1, 2}
    Name <- SameName
    Specs <- SmallSpecs
    Short <- ShortOfTwo
    Task = {1}
    NoTask = 0
    LocalOf <- TwoLocals
SPECIFICATION Spec
INVARIANT KeptAtMargin
