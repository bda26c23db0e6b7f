SPECIFICATION ErpSpec
CONSTANTS
    c1 = c1
    c2 = c2
    Instances = {1, 2}
    Reports = {1}
    Calls <- MCCalls
    MaxItems = 2
    MaxFiles = 2
    OrgCalls <- MCCalls
    SheetCalls <- MCCalls
    MaxEntries = 2
    AskCalls <- MCCalls
    Requests = {1, 2}
    Fields = {"phone"}
    Contents = {1, 2}
    MaxEvents = 2
    Blank = "none"
    Labels = {"none", "a project"}
    NewRows = {"new"}
    Days = {1}
    MaxHours = 2
    MaxEntryIds = 2
    MaxSaving = 2
    Partners = {"b", "c"}
    Finders <- MCCalls
    MaxConversations = 2
    MaxPosts = 2
    PageSize = 1
    MaxLoads = 2
    Writers <- MCCalls
    EntriesPerPage = 1
    MaxAsked = 3
    Hirers <- MCCalls
    MaxSubmits = 2
SYMMETRY MCSymmetry
CONSTRAINT Settles
INVARIANTS
    ErpTypeOK
    ApprovalsHold
    RecordsStayTogether
    PagesShowWhatIsStored
CHECK_DEADLOCK FALSE
