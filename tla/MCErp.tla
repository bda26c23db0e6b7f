-------------------------------- MODULE MCErp --------------------------------
(***************************************************************************)
(* The workflows and the pages of the ERP, side by side.  The parts share  *)
(* no rows (the approvals of two documents are different instances), so    *)
(* one of them is chosen at the start and only that one moves: every       *)
(* behaviour of every part is there, and their states add up instead of    *)
(* multiplying.                                                            *)
(***************************************************************************)
EXTENDS ExpenseReports, StatusRequests, TimesheetApprovals, ProfileUpdates, TimesheetPage, Messaging, AuditPages, EmployeeAccounts,
        TLC

CONSTANTS c1, c2

MCCalls == {c1, c2}
\* Requests under way are told apart by nothing but what they do.
MCSymmetry == Permutations(MCCalls)

\* While a page with the log is open one request at most changes the record.
MCOneWriter == (table'.asked = 0 /\ panel'.asked = 0) \/ \E w \in Writers : (writing')[w].at = "idle"

\* A manager who sets an organization's status directly archives it; a page is not waited for while two other
\* requests look for the conversation.
MCArchives == (orgCall' = orgCall /\ org' # org) => org'.status = "archived"
MCOneFinder == loads' = {} \/ \E f \in Finders : (finder')[f].at = "idle"

VARIABLE part

ErpInit ==
    /\ part \in {"expense", "status", "sheet", "profile", "page", "messages", "audit", "staff"}
    /\ InstInit /\ ExpenseInit /\ StatusInit /\ SheetInit /\ ProfileInit /\ PageInit /\ MessagesInit /\ AuditInit
    /\ StaffInit

ErpNext ==
    /\ UNCHANGED part
    /\ \/ /\ part = "expense" /\ ExpenseNext
          /\ UNCHANGED << orgVars, sheetVars, profileVars, pageVars, messageVars, auditVars, staffVars >>
       \/ /\ part = "status" /\ StatusNext /\ MCArchives
          /\ UNCHANGED << expenseVars, sheetVars, profileVars, pageVars, messageVars, auditVars, staffVars >>
       \/ /\ part = "sheet" /\ SheetNext
          /\ UNCHANGED << expenseVars, orgVars, profileVars, pageVars, messageVars, auditVars, staffVars >>
       \/ /\ part = "profile" /\ ProfileNext
          /\ UNCHANGED << expenseVars, orgVars, sheetVars, pageVars, messageVars, auditVars, staffVars >>
       \/ /\ part = "page" /\ PageNext
          /\ UNCHANGED << inst, expenseVars, orgVars, sheetVars, profileVars, messageVars, auditVars, staffVars >>
       \/ /\ part = "messages" /\ MessagesNext /\ MCOneFinder
          /\ UNCHANGED << inst, expenseVars, orgVars, sheetVars, profileVars, pageVars, auditVars, staffVars >>
       \/ /\ part = "audit" /\ AuditNext /\ MCOneWriter
          /\ UNCHANGED << inst, expenseVars, orgVars, sheetVars, profileVars, pageVars, messageVars, staffVars >>
       \/ /\ part = "staff" /\ StaffNext
          /\ UNCHANGED << inst, expenseVars, orgVars, sheetVars, profileVars, pageVars, messageVars, auditVars >>

erpVars == << part, inst, expenseVars, orgVars, sheetVars, profileVars, pageVars, messageVars, auditVars, staffVars >>

ErpSpec == ErpInit /\ [][ErpNext]_erpVars

-----------------------------------------------------------------------------
\* No step of a profile's requests depends on the data, which only matters as long as nothing goes astray: with no data
\* at all every other course is still there.
MCNoData ==
    /\ profile = NoData /\ patched = {}
    /\ \A r \in Requests : request[r].content = NoData
    /\ \A c \in AskCalls : askCall[c].content = NoData

\* The bounds on what is followed after things went wrong.  After two receipts of a report got one name, after a
\* page's requests crossed or failed, until its next load, and once two approvals of an organization or of a report,
\* or two requests of a profile, are among the exceptions, the properties have little or nothing left to say.  Two
\* exceptions that do not meet are not followed together: the thread shown does not depend on whose conversation it
\* is, so nothing is fetched once two finders of one partner overlapped, and an approval that was lost or closed by
\* an operator is not followed into overlapping PATCHes or a second receipt; the components' theorems, which have no
\* bounds, cover those courses too.
Settles ==
    /\ muddled => saving = {}
    /\ tangled \/ raced # {} => loads = {} /\ sending.at = "idle"
    /\ Cardinality(refused \cup missed) <= 1
    /\ Cardinality(late) <= 1 /\ sameName = {}
    /\ late # {} => twice = {} /\ written <= 1
    /\ Cardinality(astray) <= 1
    /\ astray \cup amended # {} \/ doubled => MCNoData

ErpTypeOK ==
    /\ InstTypeOK
    /\ part = "expense" => ExpenseTypeOK
    /\ part = "status" => StatusTypeOK
    /\ part = "sheet" => SheetTypeOK
    /\ part = "profile" => ProfileTypeOK
    /\ part = "page" => PageTypeOK
    /\ part = "messages" => MessagesTypeOK
    /\ part = "audit" => AuditTypeOK
    /\ part = "staff" => StaffTypeOK

\* The documents say what their approvals said.
ApprovalsHold ==
    ExpenseApprovalsHold /\ TimesheetApprovalsHold /\ StatusRequestsHold /\ ProfileUpdatesHold

\* A receipt a report names is stored, two users have one conversation, the audit log tells what was changed, and
\* the form of a new employee what became of it.
RecordsStayTogether == ReceiptsExist /\ OneConversation /\ LogTellsChanges /\ FormsTellTheTruth

\* The week's grid shows the stored entries, the thread that of the chosen conversation, the audit log the
\* page that was chosen.
PagesShowWhatIsStored == SheetShowsEntries /\ ThreadOfTheChosen /\ TableShowsTheChoice
=============================================================================
