\* The algorithms against their references, getopts and cd while the user interferes.
CONSTANTS
    Bits = 4
    White = {" "}
    LongOptions = TRUE
    MaxText = 6
    MaxReadVars = 3
    MaxWord = 3
    MaxChanges = 1
    Letters = {"-", "a", "b"}
    Specs <- MCSpecs
    Alphabets <- MCAlphabets
    VarTexts <- MCVarTexts
    IfsValues <- MCIfsValues
    Characters <- MCCharacters
    ArgLists <- MCArgLists
    PatternSets <- MCPatternSets
    PatternTexts <- MCPatternTexts
    Rank <- MCRank
    Classes <- MCClasses
    Tree <- MCTree
    CommandSets <- MCCommandSets
    WordSets <- MCWordSets
    WordEnvs <- MCWordEnvs
    StringSets <- MCStringSets
    AliasSets <- MCAliasSets
    ShellStates <- MCShellStates
    DashNames = {"-d"}
    Located <- MCLocated
    CommandNames <- MCCommandNames
    PathSets <- MCPathSets
    PlainWords = {"a", "b"}
    AssignWords = {"a=1", "a="}
    StartTree <- MCStartTree
    Home <- MCHome
    CdPaths <- MCCdPaths
    EnvPwds <- MCEnvPwds
    Operands <- MCOperands
    NewPwds <- MCNewPwds
    NewNames = {"b"}
    MaxEvents = 2
    MaxPath = 3
SPECIFICATION Spec
INVARIANTS
    ParsesRight
    EvaluatesRight
    FieldsRight
    PatternsRight
    CommandsRight
    PrintedReadsBack
    AliasesAreText
    ExpandsRight
    NamesAgree
    GetoptsAgrees
    PwdNamesCwd
CHECK_DEADLOCK FALSE
