\* Three nodes, two of them of one name, and an election on each of two.
CONSTANTS
    Node = {1, 2, 3}
    Name <- SameName
    Specs <- SmallSpecs
    Short <- ShortOfTwo
    Task = {1, 2}
    NoTask = 0
    LocalOf <- TwoLocals
SPECIFICATION Spec
INVARIANTS AtMostOneHub ElectionRule
PROPERTY ImplementsHubRole
