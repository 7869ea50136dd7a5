SPECIFICATION MCSpec
CONSTANTS
    x = x
    None = None
    Checked = {"rename"}
    LintAs <- MCLintAs
    Core = {"let", "fn"}
    MaxReexports = 2
    Limited = TRUE
    Local = {x}
    Width = 3
    Depth = 6
    InferDepth = 8
    Typedefs <- MCTypedefs
    Declared <- MCDeclared
    Value <- MCValue
    Absent <- Nil
    IsOf <- MCIsOf
    Passes <- MCPasses
    TestSides <- MCTestSides
    Widen <- MCWiden
    Supplied <- MCSupplied
    Literal <- MCLiteral
    Assigned <- MCAssigned
    Test <- Test_
    Pattern <- MCPattern
    MaxNarrowed = 2
    Nesting = 2
    Overwriting = FALSE
    Single = TRUE
CHECK_DEADLOCK FALSE
INVARIANT
    RenamesKept
