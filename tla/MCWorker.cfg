SPECIFICATION MCSpec
CONSTANTS
    None = None
    leaf = leaf
    branch = branch
    host = host
    plain = plain
    other = other
    usesLeaf = usesLeaf
    first = first
    globals = globals
    File = {leaf, branch, host}
    Text = {plain, other, usesLeaf}
    Says <- MCSays
    Buffer = {first}
    Imports <- MCImports
    Setting <- MCSetting
    Installed = {branch}
    MaxWrites = 2
    MaxTime = 4
    MaxFailures = 1
INVARIANTS
    TypeOK
    CheckedFromDisk
PROPERTIES
    RefusedUnchanged
