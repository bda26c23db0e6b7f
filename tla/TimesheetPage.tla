---------------------------- MODULE TimesheetPage ----------------------------
(***************************************************************************)
(* The page on which an employee fills in a week                           *)
(* (app/timesheets/[id]/page.tsx of the ERP): a grid that shows a change    *)
(* before the server has it, sends one request per cell, and puts the old  *)
(* value back when the request fails; next to it the entries the requests  *)
(* (app/api/timesheets/[id]) store.                                        *)
(***************************************************************************)
EXTENDS Naturals, FiniteSets

CONSTANTS Labels,     \* project code and description of a row
          Blank,      \* the label with neither
          NewRows,    \* keys of rows added on the page; a fetched row's key is the label it was built from
          Days, MaxHours,
          MaxEntryIds, \* entries ever created
          MaxSaving   \* requests of the page under way

Keys == Labels \cup NewRows
Hidden == "hidden"                                  \* of a key: no such row on the page
EntryIds == 1..MaxEntryIds

ASSUME PageAssumptions ==
    /\ Blank \in Labels /\ Hidden \notin Keys /\ Days # {}
    /\ MaxHours \in Nat /\ MaxEntryIds \in Nat

Empty == [id |-> 0, hours |-> 0]                    \* null; id 0 with hours is an entry being created

VARIABLES entries,    \* id -> the stored entry, hours 0 when there is none
          open,       \* the stored sheet may be edited: a draft, or sent back for revision
          view,       \* the page: loading, or the status it was loaded with
          rows,       \* key -> the label of its row
          grid,       \* key -> day -> the cell shown
          saving,     \* the requests under way
          muddled     \* since the last load: a request failed unnoticed, an answer was lost, or two crossed

pageVars == << entries, open, view, rows, grid, saving, muddled >>

Entry == [hours : 0..MaxHours, day : Days, label : Labels]
NoEntry == [hours |-> 0, day |-> CHOOSE d \in Days : TRUE, label |-> Blank]
Cell == [id : 0..MaxEntryIds, hours : 0..MaxHours]
\* What a request is for, the cell it was sent from and what that showed before; then what was answered.
Save == [kind : {"create", "update", "delete", "label", "drop", "submit"}, key : Keys, day : Days,
         id : 0..MaxEntryIds, hours : 0..MaxHours, label : Labels, was : Cell,
         answer : {"none", "ok", "failed"}]

PageTypeOK ==
    /\ entries \in [EntryIds -> Entry] /\ open \in BOOLEAN
    /\ view \in {"loading", "open", "closed", "error"}
    /\ rows \in [Keys -> Labels \cup {Hidden}] /\ grid \in [Keys -> [Days -> Cell]]
    /\ saving \subseteq Save /\ muddled \in BOOLEAN
    /\ \A key \in Keys : rows[key] = Hidden => \A d \in Days : grid[key][d] = Empty

PageInit ==
    /\ entries = [e \in EntryIds |-> NoEntry] /\ open = TRUE
    /\ view = "loading" /\ rows = [key \in Keys |-> Hidden] /\ grid = [key \in Keys |-> [d \in Days |-> Empty]]
    /\ saving = {} /\ muddled = FALSE

-----------------------------------------------------------------------------
(* The server                                                               *)

Stored == { e \in EntryIds : entries[e].hours # 0 }
Fresh == { e \in EntryIds : entries[e].hours = 0 /\ \A q \in saving : q.id # e
                            /\ \A key \in Keys, d \in Days : grid[key][d].id # e }

\* The entries routes: an open sheet, and for a change or a deletion an entry that exists.
Accepts(q) == open /\ (q.kind = "create" => Fresh # {}) /\ (q.kind \notin {"create", "submit"} => q.id \in Stored)

\* The answer, with what the page still needs of the request.
AnswerOf(q, answer, id) ==
    saving' = (saving \ {q}) \cup
        {[q EXCEPT !.answer = answer, !.id = id, !.label = Blank,
                   !.hours = IF q.kind = "create" /\ answer = "ok" THEN q.hours ELSE 0,
                   !.was = IF answer = "failed" THEN q.was ELSE Empty]}

\* The request does its work; its answer may get lost on the way back, which the page takes for a failure.
Served(q, answer) ==
    /\ q.answer = "none" /\ Accepts(q)
    /\ CASE q.kind = "create" ->
              LET e == CHOOSE e \in Fresh : TRUE
              IN  /\ entries' = [entries EXCEPT ![e] = [hours |-> q.hours, day |-> q.day, label |-> q.label]]
                  /\ AnswerOf(q, answer, IF answer = "ok" THEN e ELSE 0)
         [] q.kind \in {"update", "label"} ->
              /\ entries' = [entries EXCEPT ![q.id].hours = q.hours, ![q.id].label = q.label]
              /\ AnswerOf(q, answer, 0)
         [] q.kind \in {"delete", "drop"} -> entries' = [entries EXCEPT ![q.id] = NoEntry] /\ AnswerOf(q, answer, 0)
         [] q.kind = "submit" -> UNCHANGED entries /\ AnswerOf(q, answer, 0)
    /\ open' = (q.kind # "submit")
    /\ muddled' = (muddled \/ answer = "failed")
    /\ UNCHANGED << view, rows, grid >>

\* Refused, or it never got there.
Refused(q) ==
    /\ q.answer = "none"
    /\ AnswerOf(q, "failed", 0)
    /\ UNCHANGED << entries, open, view, rows, grid, muddled >>

\* A review sends the sheet back, or another page of the employee submits it.
SheetMoves ==
    /\ open' = ~open
    /\ UNCHANGED << entries, view, rows, grid, saving, muddled >>

-----------------------------------------------------------------------------
(* Loading                                                                  *)

\* The page is opened, or opened again when nothing is under way.
PageOpens ==
    /\ view # "loading" /\ saving = {}
    /\ view' = "loading"
    /\ UNCHANGED << entries, open, rows, grid, saving, muddled >>

\* Two stored entries with one label on one day meet in one cell: the later one is shown.
Twins == \E e, f \in Stored : e # f /\ entries[e].label = entries[f].label /\ entries[e].day = entries[f].day

At(label, d) == { e \in Stored : entries[e].label = label /\ entries[e].day = d }

\* fetchTimesheet and buildProjectRows: the rows are made again from the stored entries.
Loads ==
    /\ view = "loading"
    /\ view' = IF open THEN "open" ELSE "closed"
    /\ rows' = [key \in Keys |-> IF key \in Labels /\ \E d \in Days : At(key, d) # {} THEN key ELSE Hidden]
    /\ \E pick \in [Keys -> [Days -> EntryIds]] :
          /\ \A label \in Labels, d \in Days : At(label, d) # {} => pick[label][d] \in At(label, d)
          /\ grid' = [key \in Keys |-> [d \in Days |->
                        IF key \in Labels /\ At(key, d) # {}
                        THEN [id |-> pick[key][d], hours |-> entries[pick[key][d]].hours] ELSE Empty]]
    /\ muddled' = (Twins \/ saving # {})
    /\ UNCHANGED << entries, open, saving >>

\* The sheet could not be fetched: the page says so instead of showing a grid.
LoadRefused ==
    /\ view = "loading"
    /\ view' = "error"
    /\ UNCHANGED << entries, open, rows, grid, saving, muddled >>

-----------------------------------------------------------------------------
(* What the employee does on the page                                       *)

Edits == view = "open" /\ Cardinality(saving) < MaxSaving
Show(key, d, cell) == grid' = [grid EXCEPT ![key][d] = cell]
\* A request of this cell is under way; a row's requests count for all its cells.
Crosses(key, days) == \E q \in saving : q.kind # "submit" /\ q.key = key /\ q.day \in days

Request(kind, key, d, hours) ==
    [kind |-> kind, key |-> key, day |-> d, id |-> grid[key][d].id, hours |-> hours, label |-> rows[key],
     was |-> IF kind \in {"label", "drop"} THEN Empty ELSE grid[key][d], answer |-> "none"]

\* HoursCell: leaving the input with another number of hours than the cell shows; nothing, zero and
\* what is no number all stand for an empty cell.
Changes(key, d, hours) == hours # grid[key][d].hours

\* A row's fields and the button that deletes it are there while the sheet may be edited.
Offers(key) == Edits /\ rows[key] # Hidden

\* handleCellCommit: what the change amounts to is told from the cell as it is shown.
CellCommitted(key, d, hours) ==
    /\ Offers(key) /\ Changes(key, d, hours)
    /\ LET kind == CASE hours = 0 -> "delete"
                     [] grid[key][d] = Empty -> "create"
                     [] OTHER -> "update"
       IN  saving' = saving \cup {Request(kind, key, d, hours)}
    /\ Show(key, d, IF hours = 0 THEN Empty ELSE [id |-> grid[key][d].id, hours |-> hours])
    /\ muddled' = (muddled \/ Crosses(key, {d}))
    /\ UNCHANGED << entries, open, view, rows >>

\* addRow: a row without a project code or description.
RowAdded(key) ==
    /\ view = "open" /\ rows[key] = Hidden /\ (\A q \in saving : q.key # key)
    /\ rows' = [rows EXCEPT ![key] = Blank]
    /\ UNCHANGED << entries, open, view, grid, saving, muddled >>

Filled(key) == { d \in Days : grid[key][d] # Empty }

\* updateRowMeta and, on leaving the field, persistRowMeta: every filled cell is sent with the new label.
RowLabelled(key, label) ==
    /\ Offers(key)
    /\ rows' = [rows EXCEPT ![key] = label]
    /\ saving' = saving \cup { [Request("label", key, d, grid[key][d].hours) EXCEPT !.label = label] : d \in Filled(key) }
    /\ muddled' = (muddled \/ Crosses(key, Days))
    /\ UNCHANGED << entries, open, view, grid >>

\* deleteRow: the row goes, and a deletion is sent for every filled cell.
RowDropped(key) ==
    /\ Offers(key)
    /\ rows' = [rows EXCEPT ![key] = Hidden]
    /\ grid' = [grid EXCEPT ![key] = [d \in Days |-> Empty]]
    /\ saving' = saving \cup { Request("drop", key, d, 0) : d \in Filled(key) }
    /\ muddled' = (muddled \/ Crosses(key, Days))
    /\ UNCHANGED << entries, open, view >>

Submission == [kind |-> "submit", key |-> CHOOSE key \in Keys : TRUE, day |-> NoEntry.day, id |-> 0, hours |-> 0,
               label |-> NoEntry.label, was |-> Empty, answer |-> "none"]

\* handleSubmit: the button is there on an open view that shows hours, once at a time.
SubmitPressed ==
    /\ Edits /\ (\A q \in saving : q.kind # "submit") /\ \E key \in Keys : Filled(key) # {}
    /\ saving' = saving \cup {Submission}
    /\ UNCHANGED << entries, open, view, rows, grid, muddled >>

-----------------------------------------------------------------------------
(* The answers, on the page                                                 *)

\* As if a failure were only reported.
RevertedBroken(q) == grid[q.key][q.day]
\* A failed request puts back what the cell showed when it was sent.
Reverted(q) == q.was

\* An answer for a row that is no longer there changes nothing.
Puts(q, cell) == IF rows[q.key] = Hidden THEN UNCHANGED grid ELSE Show(q.key, q.day, cell)

CellAnswered(q) ==
    /\ q.answer # "none" /\ q.kind \in {"create", "update", "delete"}
    /\ CASE q.answer = "failed" -> Puts(q, Reverted(q))
         [] q.answer = "ok" /\ q.kind = "create" -> Puts(q, [id |-> q.id, hours |-> q.hours])
         [] q.answer = "ok" /\ q.kind = "delete" -> Puts(q, Empty)
         [] q.answer = "ok" /\ q.kind = "update" -> UNCHANGED grid
    /\ saving' = saving \ {q}
    /\ UNCHANGED << entries, open, view, rows, muddled >>

\* Nobody looks at the answers of a row's requests.
RowAnswered(q) ==
    /\ q.answer # "none" /\ q.kind \in {"label", "drop"}
    /\ saving' = saving \ {q}
    /\ muddled' = (muddled \/ q.answer = "failed")
    /\ UNCHANGED << entries, open, view, rows, grid >>

\* Submitted: the page loads again; otherwise it says so and stays.
SubmitAnswered(q) ==
    /\ q.answer # "none" /\ q.kind = "submit"
    /\ saving' = saving \ {q}
    /\ view' = IF q.answer = "ok" THEN "loading" ELSE view
    /\ UNCHANGED << entries, open, rows, grid, muddled >>

-----------------------------------------------------------------------------
PageNext ==
    \/ SheetMoves \/ PageOpens \/ Loads \/ LoadRefused \/ SubmitPressed
    \/ \E q \in saving : \/ (\E answer \in {"ok", "failed"} : Served(q, answer)) \/ Refused(q)
                         \/ CellAnswered(q) \/ RowAnswered(q) \/ SubmitAnswered(q)
    \/ \E key \in Keys :
          \/ \E d \in Days, hours \in 0..MaxHours : CellCommitted(key, d, hours)
          \/ key \in NewRows /\ RowAdded(key)
          \/ \E label \in Labels : RowLabelled(key, label)
          \/ RowDropped(key)

-----------------------------------------------------------------------------
(* Properties                                                               *)

RowShows(key) == { [id |-> grid[key][d].id, hours |-> grid[key][d].hours, day |-> d, label |-> rows[key]] : d \in Filled(key) }
Showing == UNION { RowShows(key) : key \in Keys }
Kept == { [id |-> e, hours |-> entries[e].hours, day |-> entries[e].day, label |-> entries[e].label] : e \in Stored }

\* With nothing under way the grid shows what is stored, whatever was refused on the way and however the
\* requests and their answers were ordered, unless two requests crossed on one cell, an answer was lost,
\* or a row's own request failed.
SheetShowsEntries == (view \in {"open", "closed"} /\ saving = {} /\ ~muddled) => Showing = Kept
=============================================================================
