------------------------- MODULE TimesheetApprovals -------------------------
(***************************************************************************)
(* The approval of one week's timesheet in the ERP: the entries routes and *)
(* the submit route (under app/api/timesheets) read the status and write   *)
(* without looking at it again, and the reviews                            *)
(* (app/api/tasks/[id]/complete/route.ts) write the status whatever it is. *)
(***************************************************************************)
EXTENDS ApprovalInstances

CONSTANTS SheetCalls,  \* requests under way
          MaxEntries   \* versions of the week's entries

ASSUME SheetAssumption == MaxEntries \in Nat

VARIABLES sheet,       \* the row: status, approval, entries
          sheetCall,   \* request -> what it is at
          totals,      \* approval -> the entries its total was taken from
          overtaken,   \* a review was completed while an earlier write of this sheet was pending, or by the
                       \* service's own operators, or its write was lost
          crossed      \* two submissions, or a submission and an edit, overlapped

sheetVars == << sheet, sheetCall, totals, overtaken, crossed >>

SheetStatuses == {"none", "draft", "pending_manager_review", "pending_hr_review", "revision_requested",
                  "approved", "rejected"}
Open == {"draft", "revision_requested"}
NoSheetCall == [at |-> "idle", i |-> 0, entries |-> 0, review |-> "none", verdict |-> ""]
SheetSteps == {"idle", "edit", "start", "write", "find", "sync"}

SheetTypeOK ==
    /\ sheet.status \in SheetStatuses /\ sheet.wf \in Instances \cup {0} /\ sheet.entries \in 0..MaxEntries
    /\ \A c \in SheetCalls :
          sheetCall[c].at \in SheetSteps /\ (sheetCall[c].at = "idle" => sheetCall[c] = NoSheetCall)
    /\ \A i \in Instances : totals[i] = 0 <=> inst[i] = Unstarted
    /\ overtaken \in BOOLEAN /\ crossed \in BOOLEAN

SheetInit ==
    /\ sheet = [status |-> "none", wf |-> 0, entries |-> 0]
    /\ sheetCall = [c \in SheetCalls |-> NoSheetCall]
    /\ totals = [i \in Instances |-> 0]
    /\ overtaken = FALSE /\ crossed = FALSE

Calls1(c, call) == sheetCall[c].at = "idle" /\ sheetCall' = [sheetCall EXCEPT ![c] = call]
\* As if what a request had read stayed with the next one.
ReturnsBroken(c) == sheetCall' = [sheetCall EXCEPT ![c].at = "idle"]
Returns(c) == sheetCall' = [sheetCall EXCEPT ![c] = NoSheetCall]
\* A submission next to an edit or another submission.
Meets(c, steps) == crossed' = (crossed \/ \E d \in SheetCalls \ {c} : sheetCall[d].at \in steps)

-----------------------------------------------------------------------------
\* POST /api/timesheets: one sheet per employee and week; a second one is refused.
SheetCreated ==
    /\ sheet.status = "none"
    /\ sheet' = [sheet EXCEPT !.status = "draft"]
    /\ UNCHANGED << inst, sheetCall, totals, overtaken, crossed >>

\* The entries routes: the status is checked, then an entry is created, changed or deleted.
EntryBegins(c) ==
    /\ sheet.status \in Open
    /\ \E n \in 0..MaxEntries \ {sheet.entries} : Calls1(c, [NoSheetCall EXCEPT !.at = "edit", !.entries = n])
    /\ Meets(c, {"start", "write"})
    /\ UNCHANGED << inst, sheet, totals, overtaken >>

EntryWrites(c) ==
    /\ sheetCall[c].at = "edit"
    /\ sheet' = [sheet EXCEPT !.entries = sheetCall[c].entries]
    /\ Returns(c)
    /\ UNCHANGED << inst, totals, overtaken, crossed >>

\* The submit route: a sheet that is open and not empty; its hours are added up now.
SubmitBegins(c) ==
    /\ sheet.status \in Open /\ sheet.entries # 0
    /\ Calls1(c, [NoSheetCall EXCEPT !.at = "start", !.entries = sheet.entries])
    /\ Meets(c, {"edit", "start", "write"})
    /\ UNCHANGED << inst, sheet, totals, overtaken >>

SubmitStarts(c) ==
    /\ sheetCall[c].at = "start"
    /\ \/ \E i \in Instances :
             /\ StartInstance(i)
             /\ totals' = [totals EXCEPT ![i] = sheetCall[c].entries]
             /\ \/ sheetCall' = [sheetCall EXCEPT ![c].at = "write", ![c].i = i, ![c].entries = 0]
                \/ Returns(c)
       \/ Returns(c) /\ UNCHANGED << inst, totals >>
    /\ UNCHANGED << sheet, overtaken, crossed >>

SubmitWrites(c) ==
    /\ sheetCall[c].at = "write"
    /\ sheet' = [sheet EXCEPT !.status = "pending_manager_review", !.wf = sheetCall[c].i]
    /\ Returns(c)
    /\ UNCHANGED << inst, totals, overtaken, crossed >>

-----------------------------------------------------------------------------
(* POST /api/tasks/[id]/complete, for a task of a timesheet approval        *)

HoursDecided(c) ==
    /\ \E i \in Instances, v \in Verdicts :
          /\ CompleteReview(i, v, 2)
          /\ overtaken' = (overtaken \/ \E d \in SheetCalls : sheetCall[d].i = i)
          /\ Calls1(c, [NoSheetCall EXCEPT !.at = "find", !.i = i, !.review = inst[i].stage, !.verdict = v])
    /\ UNCHANGED << sheet, totals, crossed >>

HoursFind(c) ==
    /\ sheetCall[c].at = "find"
    /\ IF sheet.wf = sheetCall[c].i THEN sheetCall' = [sheetCall EXCEPT ![c].at = "sync"] ELSE Returns(c)
    /\ UNCHANGED << inst, sheet, totals, overtaken, crossed >>

Outcome(review, verdict) ==
    CASE verdict = "approved" /\ review = "first" -> "pending_hr_review"
      [] verdict = "approved" /\ review # "first" -> "approved"
      [] verdict = "revision_requested" -> "revision_requested"
      [] OTHER -> "rejected"

\* Written whatever the sheet says by now; the write may also be lost.
HoursSync(c) ==
    /\ sheetCall[c].at = "sync"
    /\ \/ /\ sheet' = [sheet EXCEPT !.status = Outcome(sheetCall[c].review, sheetCall[c].verdict)]
          /\ UNCHANGED overtaken
       \/ overtaken' = TRUE /\ UNCHANGED sheet
    /\ Returns(c)
    /\ UNCHANGED << inst, totals, crossed >>

-----------------------------------------------------------------------------
\* The service's operators close an approval: the sheet does not hear of it.
HoursOverruled ==
    /\ \E i \in Instances : \/ EndInstance(i) /\ UNCHANGED overtaken
                            \/ (\E v \in Verdicts : CompleteReview(i, v, 2)) /\ overtaken' = TRUE
    /\ UNCHANGED << sheet, sheetCall, totals, crossed >>

\* They restart one: no sheet knows of it, its hours are those of the old one.
HoursRestarted ==
    /\ \E i, old \in Instances : RestartInstance(i, old) /\ totals' = [totals EXCEPT ![i] = totals[old]]
    /\ UNCHANGED << sheet, sheetCall, overtaken, crossed >>

-----------------------------------------------------------------------------
SheetNext ==
    \/ SheetCreated \/ HoursOverruled \/ HoursRestarted
    \/ \E c \in SheetCalls :
          \/ EntryBegins(c) \/ EntryWrites(c)
          \/ SubmitBegins(c) \/ SubmitStarts(c) \/ SubmitWrites(c)
          \/ HoursDecided(c) \/ HoursFind(c) \/ HoursSync(c)

-----------------------------------------------------------------------------
(* Properties                                                               *)

Due(i) == LET said == inst[i].said
          IN  IF said = << >> THEN "pending_manager_review"
              ELSE Outcome(IF Len(said) = 1 THEN "first" ELSE "second", said[Len(said)])

\* When no review overtook a write and no two submissions crossed, a sheet at rest says what its
\* approval said, and what is under approval or approved is what the total was taken from.  What is
\* cancelled in the service has not been decided: such a sheet waits for a review that never comes.
TimesheetApprovalsHold ==
    (~overtaken /\ ~crossed /\ sheet.wf # 0) =>
       /\ (\A c \in SheetCalls : sheetCall[c].i # sheet.wf) => sheet.status = Due(sheet.wf)
       /\ sheet.status = "approved" => Said(sheet.wf, << "approved", "approved" >>)
       /\ sheet.status \notin Open => sheet.entries = totals[sheet.wf]
=============================================================================
