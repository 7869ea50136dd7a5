SPECIFICATION MCSpec
CONSTANTS
    main = main
    util = util
    lib = lib
    decl = decl
    project = project
    plain = plain
    other = other
    usesMain = usesMain
    usesUtil = usesUtil
    usesLib = usesLib
    provides = provides
    toMain = toMain
    toUtil = toUtil
    toLib = toLib
    seen = seen
    Module = {main, util, lib}
    Declaration = {decl}
    Project = {project}
    Installed = {lib}
    Text = {plain, other, usesMain, usesUtil, usesLib, provides}
    Says <- MCSays
    Spelling = {toMain, toUtil, toLib}
    Config <- MCConfig
    Mode = {"loose", "strict"}
    Names = {seen}
    NoNames = NoNames
    ImportsOf <- MCImportsOf
    PackagesOf <- MCPackagesOf
    Candidates <- MCCandidates
    Default <- MCDefault
    MaxChanged = 1
    Files = 3
INVARIANTS
    TypeOK
    CacheFresh
    GraphCurrent
    DependenciesFirst
    WalksInOrder
PROPERTIES
    PassReaches
