\* An expression with a bitwise or and a bitwise xor, against the precedence in the manual.
CONSTANTS
    Bits = 4
    White = {" "}
    LongOptions = TRUE
    MaxText = 6
    MaxReadVars = 3
    MaxWord = 3
    MaxChanges = 1
    Letters = {"-", "a", "b"}
    Specs <- MCSpecs
    Alphabets <- MCBitwiseAlphabet
    VarTexts <- MCVarTexts
    IfsValues = {}
    Characters <- MCCharacters
    ArgLists = {}
    PatternSets = {}
    PatternTexts <- MCPatternTexts
    Rank <- MCRank
    Classes <- MCClasses
    Tree <- MCTree
    CommandSets = {}
    WordSets = {}
    WordEnvs <- MCWordEnvs
    StringSets = {}
    AliasSets <- MCAliasSets
    ShellStates = {}
    DashNames = {"-d"}
    Located <- MCLocated
    CommandNames <- MCCommandNames
    PathSets <- MCPathSets
    PlainWords = {"a", "b"}
    AssignWords = {"a=1", "a="}
    StartTree <- MCStartTree
    Home <- MCHome
    CdPaths <- MCCdPaths
    EnvPwds = {}
    Operands <- MCOperands
    NewPwds <- MCNewPwds
    NewNames = {"b"}
    MaxEvents = 0
    MaxPath = 3
SPECIFICATION Spec
INVARIANT PrecedenceDocumented
CHECK_DEADLOCK FALSE
