\* A here-document that is pending at the newline after the words of a for loop.
CONSTANTS
    Bits = 4
    White = {" "}
    LongOptions = TRUE
    MaxText = 6
    MaxReadVars = 3
    MaxWord = 3
    MaxChanges = 1
    Letters = {"-", "a", "b"}
    Specs <- MCSpecs
    Alphabets = {}
    VarTexts <- MCVarTexts
    IfsValues = {}
    Characters <- MCCharacters
    ArgLists = {}
    PatternSets = {}
    PatternTexts <- MCPatternTexts
    Rank <- MCRank
    Classes <- MCClasses
    Tree <- MCTree
    CommandSets <- MCHereDocFor
    WordSets = {}
    WordEnvs <- MCWordEnvs
    StringSets = {}
    AliasSets <- MCAliasSets
    ShellStates = {}
    DashNames = {"-d"}
    Located <- MCLocated
    CommandNames <- MCCommandNames
    PathSets <- MCPathSets
    PlainWords = {"a", "b"}
    AssignWords = {"a=1", "a="}
    StartTree <- MCStartTree
    Home <- MCHome
    CdPaths <- MCCdPaths
    EnvPwds = {}
    Operands <- MCOperands
    NewPwds <- MCNewPwds
    NewNames = {"b"}
    MaxEvents = 0
    MaxPath = 3
SPECIFICATION Spec
INVARIANT HereDocAfterNewline
CHECK_DEADLOCK FALSE
