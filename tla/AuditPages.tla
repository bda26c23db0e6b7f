----------------------------- MODULE AuditPages -----------------------------
(***************************************************************************)
(* The audit log of the ERP: requests that read a record, write it and     *)
(* then log what they read and wrote, not in one transaction (the routes   *)
(* of organizations and employees, lib/audit.ts); the table that asks for  *)
(* a page of the entries of a filter at every change of either             *)
(* (AuditLogTable), and the panel below a record that asks once            *)
(* (AuditLogPanel).  Answers come in any order, and the one that comes     *)
(* last is shown.                                                          *)
(***************************************************************************)
EXTENDS Naturals, Sequences, FiniteSets

CONSTANTS Writers,         \* requests that change the record
          EntriesPerPage,
          MaxAsked         \* requests of the table, and of the panel

ASSUME AuditAssumptions == IsFiniteSet(Writers) /\ EntriesPerPage \in Nat \ {0}

Filters == {"any", "UPDATE"}
Nothing == [filter |-> "any", page |-> 0, total |-> 0, rows |-> 0, past |-> 0]

VARIABLES record,      \* what is stored of the record: how often it was written
          writing,     \* writer -> where its request is, what it read and what it wrote
          auditLog,    \* the entries, oldest first
          mingled,     \* a request began before another had logged, or one failed in between
          table,       \* the table: filter, page, what it shows, and how often it asked
          fetches,     \* its requests under way
          misled,      \* since the last choice it showed the answer to a request before its last
          panel,       \* the panel: open, what it shows, and how often it asked
          peeks        \* its requests under way

auditVars == << record, writing, auditLog, mingled, table, fetches, misled, panel, peeks >>
tableVars == << table, fetches, misled, panel, peeks >>

Asked(n, filter, page) == [n |-> n, filter |-> filter, page |-> page, total |-> 0, rows |-> 0, todo |-> {"count", "read"},
                           past |-> 0]

AuditTypeOK ==
    /\ record \in 0..Cardinality(Writers)
    /\ \A i \in 1..Len(auditLog) : auditLog[i].action \in {"CREATE", "UPDATE"} /\ auditLog[i].after \in 0..Cardinality(Writers)
    /\ table.filter \in Filters /\ table.page \in Nat \ {0} /\ table.data.rows \in 0..EntriesPerPage
    /\ panel.rows \in 0..EntriesPerPage
    /\ \A a, b \in fetches : a.n = b.n => a = b

-----------------------------------------------------------------------------
(* The record and its log                                                   *)

Reading == {w \in Writers : writing[w].at \in {"read", "written"}}

\* findUnique, for the permission and for what the entry says was before.
WriteReads(w) ==
    /\ writing[w].at = "idle"
    /\ writing' = [writing EXCEPT ![w] = [at |-> "read", before |-> record, after |-> record]]
    /\ mingled' = (mingled \/ Reading # {})
    /\ UNCHANGED << record, auditLog, tableVars >>

WriteUpdates(w) ==
    /\ writing[w].at = "read"
    /\ record' = record + 1 /\ writing' = [writing EXCEPT ![w].at = "written", ![w].after = record + 1]
    /\ UNCHANGED << auditLog, mingled, tableVars >>

LogEntryBroken(w) == [action |-> "UPDATE", before |-> record, after |-> writing[w].after]
LogEntry(w) == [action |-> "UPDATE", before |-> writing[w].before, after |-> writing[w].after]

\* createAuditLog.
WriteLogs(w) ==
    /\ writing[w].at = "written" /\ auditLog' = Append(auditLog, LogEntry(w))
    /\ writing' = [writing EXCEPT ![w].at = "done"]
    /\ UNCHANGED << record, mingled, tableVars >>

\* The update or the entry fails, or the service stops: what is written stays, without an entry.
WriteFails(w) ==
    /\ w \in Reading /\ writing' = [writing EXCEPT ![w].at = "done"]
    /\ mingled' = (mingled \/ writing[w].at = "written")
    /\ UNCHANGED << record, auditLog, tableVars >>

-----------------------------------------------------------------------------
(* The route that lists entries: a count and a page, one query each         *)

Matching(filter) == Cardinality({i \in 1..Len(auditLog) : filter = "any" \/ auditLog[i].action = filter})

RowsOn(filter, page) ==
    LET left == Matching(filter) - (page - 1) * EntriesPerPage
    IN  IF (page - 1) * EntriesPerPage >= Matching(filter) THEN 0
        ELSE IF left > EntriesPerPage THEN EntriesPerPage ELSE left

Pages(total) == (total + EntriesPerPage - 1) \div EntriesPerPage

\* The next query of a request, and the request after it.
Queried(a, query) ==
    [a EXCEPT !.todo = @ \ {query},
              !.total = IF query = "count" THEN Matching(a.filter) ELSE @,
              !.rows = IF query = "read" THEN RowsOn(a.filter, a.page) ELSE @]

-----------------------------------------------------------------------------
(* The table                                                                *)

TableAsks(filter, page) ==
    /\ table.asked < MaxAsked
    /\ table' = [table EXCEPT !.filter = filter, !.page = page, !.loading = TRUE, !.error = FALSE, !.asked = @ + 1]
    /\ fetches' = fetches \cup {[Asked(table.asked + 1, filter, page) EXCEPT !.past = RowsOn(filter, page)]}
    /\ UNCHANGED << record, writing, auditLog, mingled, panel, peeks >>

\* It asks when it is shown, in a tab without the panel, and at every change of the filter.
TableOpens == table.asked = 0 /\ panel.asked = 0 /\ TableAsks("any", 1) /\ UNCHANGED misled

\* A choice goes back to the first page.
FirstPageBroken == table.page
FirstPage == 1
Chooses(filter) ==
    /\ table.asked > 0 /\ TableAsks(filter, FirstPage)
    /\ misled' = (misled /\ fetches # {})

TableShown == ~table.loading /\ ~table.error /\ table.data # Nothing
Previous == TableShown /\ Pages(table.data.total) > 1 /\ table.page > 1 /\ TableAsks(table.filter, table.page - 1) /\ UNCHANGED misled
Following == TableShown /\ table.page < Pages(table.data.total) /\ TableAsks(table.filter, table.page + 1) /\ UNCHANGED misled

TableQueries(a) ==
    /\ \E query \in a.todo : fetches' = (fetches \ {a}) \cup {Queried(a, query)}
    /\ UNCHANGED << record, writing, auditLog, mingled, table, misled, panel, peeks >>

\* Whichever answer comes is shown, and ends the loading of all.
TableGets(a) ==
    /\ fetches' = fetches \ {a}
    /\ \/ /\ a.todo = {}
          /\ table' = [table EXCEPT !.loading = FALSE,
                 !.data = [filter |-> a.filter, page |-> a.page, total |-> a.total, rows |-> a.rows, past |-> a.past]]
          /\ misled' = (misled \/ a.n # table.asked)
       \/ /\ table' = [table EXCEPT !.loading = FALSE, !.error = TRUE] /\ UNCHANGED misled
    /\ UNCHANGED << record, writing, auditLog, mingled, panel, peeks >>

-----------------------------------------------------------------------------
(* The panel                                                                *)

\* Opened, it asks unless it shows something; a request under way is not waited for.
PanelToggles ==
    /\ table.asked = 0
    /\ panel' = [panel EXCEPT !.open = ~ @, !.asked = IF panel.open \/ panel.rows > 0 THEN @ ELSE @ + 1]
    /\ panel'.asked <= MaxAsked
    /\ peeks' = IF panel'.asked > panel.asked THEN peeks \cup {Asked(panel'.asked, "any", 1)} ELSE peeks
    /\ UNCHANGED << record, writing, auditLog, mingled, table, fetches, misled >>

PanelGets(a) ==
    /\ \/ \E query \in a.todo : peeks' = (peeks \ {a}) \cup {Queried(a, query)} /\ UNCHANGED panel
       \/ a.todo = {} /\ peeks' = peeks \ {a} /\ panel' = [panel EXCEPT !.rows = a.rows]
       \/ peeks' = peeks \ {a} /\ UNCHANGED panel
    /\ UNCHANGED << record, writing, auditLog, mingled, table, fetches, misled >>

AuditInit ==
    /\ record = 0 /\ writing = [w \in Writers |-> [at |-> "idle", before |-> 0, after |-> 0]]
    /\ auditLog = << [action |-> "CREATE", before |-> 0, after |-> 0] >> /\ mingled = FALSE
    /\ table = [filter |-> "any", page |-> 1, data |-> Nothing, loading |-> TRUE, error |-> FALSE, asked |-> 0]
    /\ fetches = {} /\ misled = FALSE
    /\ panel = [open |-> FALSE, rows |-> 0, asked |-> 0] /\ peeks = {}

AuditNext ==
    \/ \E w \in Writers : WriteReads(w) \/ WriteUpdates(w) \/ WriteLogs(w) \/ WriteFails(w)
    \/ TableOpens \/ (\E filter \in Filters : Chooses(filter)) \/ Previous \/ Following
    \/ \E a \in fetches : TableQueries(a) \/ TableGets(a)
    \/ PanelToggles
    \/ \E a \in peeks : PanelGets(a)

AuditSpec == AuditInit /\ [][AuditNext]_auditVars

-----------------------------------------------------------------------------
\* Requests that do not mingle leave a log in which every entry goes on where the one before it ended, up to what is
\* stored now.
LogTellsChanges ==
    ~mingled =>
        /\ \A i \in 1..(Len(auditLog) - 1) : auditLog[i + 1].before = auditLog[i].after
        /\ Reading = {} => auditLog[Len(auditLog)].after = record

\* The table shows the page and the filter that were chosen, and never an empty page when there were entries, unless
\* it has shown the answer to an older request, whose number of pages the buttons then went by: paging and choosing
\* never lead past the end of the log.
TableShowsTheChoice ==
    TableShown /\ ~misled =>
        /\ table.data.filter = table.filter /\ table.data.page = table.page
        /\ table.data.rows = 0 => table.data.past = 0 /\ table.page = 1
=============================================================================
