\* Two workers in each pool race for jobs and mutexes, and three lines can
\* wait, be formatted and be checked at once.
CONSTANTS
    MinSize = 4
    MinMac = 1
    PwrAt <- MCPwrAt
    NotAssociated <- MCNotAssociated
    Excepts <- MCExcepts
    MaxText = 6
    MaxScan = 9
    Formatters = {f1, f2}
    Checkers = {c1, c2}
    NoOne = NoOne
    NoJob = NoJob
    Texts <- MCTexts
    MinRead = 3
    MaxLines = 3
    Comments <- MCComments
    Zipped <- MCZipped
    Codes <- MCCodes
SPECIFICATION FairSpec
INVARIANTS PipelineTypeOK EscapesStripped StationsAreRead ScansStayInside UploadIsUnderstood
PROPERTIES ImplementsSerialExecutor EveryLineIsChecked
\* The process may have ended.
CHECK_DEADLOCK FALSE
