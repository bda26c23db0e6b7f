--------------------------- MODULE ExpenseReports ---------------------------
(***************************************************************************)
(* Expense reports of the ERP: the form that makes one, attaches its       *)
(* receipt and submits it (components/NewExpenseForm.tsx), the page that   *)
(* submits it again (components/ExpenseDetailView.tsx), the routes they    *)
(* call (under app/api/expenses) and the two reviews                       *)
(* (app/api/tasks/[id]/complete/route.ts).  Every route reads the report,  *)
(* talks to the workflow service and writes, in separate statements, so    *)
(* any two of them interleave.                                             *)
(***************************************************************************)
EXTENDS ApprovalInstances, FiniteSets

CONSTANTS Reports,     \* 1..n
          Calls,       \* browser tabs and the requests they have under way
          MaxItems,    \* versions of a report's line items
          MaxFiles     \* milliseconds in which receipt files are written

ASSUME ExpenseAssumptions == Reports \subseteq Nat \ {0} /\ MaxItems \in Nat \ {0} /\ MaxFiles \in Nat

VARIABLES report,      \* report -> its row
          expCall,     \* tab -> what it is at
          page,        \* the new-expense form: where it is, its pending report, a receipt to retry
          files,       \* receipt files on disk: a report and a time make the name
          written,     \* the time of the last one written
          asked,       \* report -> the items it was submitted with
          late,        \* instances a review was completed on while another write for them was pending, whose write
             \* was lost, or that operators closed
          twice,       \* reports two PATCHes of which overlapped
          sameName     \* reports two receipts of which were uploaded in one millisecond

expenseVars == << report, expCall, page, files, written, asked, late, twice, sameName >>

Statuses == {"none", "DRAFT", "SUBMITTED", "APPROVED_MANAGER", "REJECTED", "REIMBURSED"}
Editable == {"DRAFT", "REJECTED"}
Idle == [at |-> "idle", by |-> "", r |-> 0, i |-> 0, items |-> 0, submit |-> FALSE,
         saw |-> "none", file |-> 0, old |-> 0, verdict |-> "", review |-> "none"]
Steps == {"idle", "attach", "record", "unlink", "submit", "start", "write", "cancel",
          "shown", "find", "sync"}

ExpenseTypeOK ==
    /\ \A r \in Reports : /\ report[r].status \in Statuses
                          /\ report[r].wf \in Instances \cup {0}
                          /\ report[r].items \in 0..MaxItems
                          /\ report[r].receipt \in 0..MaxFiles
                          /\ (report[r].wf = 0) <=> (report[r].status \in {"none", "DRAFT"})
    /\ \A c \in Calls : expCall[c].at \in Steps /\ (expCall[c].at = "idle" => expCall[c] = Idle)
    /\ page.at \in {"open", "left"} /\ page.pending \in Reports \cup {0} /\ page.failed \in BOOLEAN
    /\ \A f \in files : f[1] \in Reports /\ f[2] \in 1..written
    /\ late \subseteq Instances /\ twice \subseteq Reports /\ sameName \subseteq Reports

ExpenseInit ==
    /\ report = [r \in Reports |-> [status |-> "none", wf |-> 0, items |-> 0, receipt |-> 0]]
    /\ expCall = [c \in Calls |-> Idle]
    /\ page = [at |-> "open", pending |-> 0, failed |-> FALSE]
    /\ files = {} /\ written = 0
    /\ asked = [r \in Reports |-> 0]
    /\ late = {} /\ twice = {} /\ sameName = {}

Goes(c, step) == expCall' = [expCall EXCEPT ![c].at = step]
Ends(c) == expCall' = [expCall EXCEPT ![c] = Idle]
Patching(c, r) == expCall[c].r = r /\ expCall[c].at \in {"start", "write"}

-----------------------------------------------------------------------------
(* The form                                                                 *)

\* handleSubmit: the report and its first items in one transaction, then the receipt, then the
\* submission.  When the answer is lost the form is still there and makes another report.
FormSends(c) ==
    /\ page.at = "open" /\ expCall[c].at = "idle"
    /\ \A d \in Calls : expCall[d].by # "form"
    /\ \E r \in Reports, next \in {"attach", "submit", "idle"} :
          /\ report[r].status = "none" /\ \A q \in Reports : q < r => report[q].status # "none"
          /\ report' = [report EXCEPT ![r].status = "DRAFT", ![r].items = 1]
          /\ expCall' = [expCall EXCEPT ![c] =
                IF next = "idle" THEN Idle
                ELSE [Idle EXCEPT !.at = next, !.by = "form", !.r = r, !.submit = TRUE]]
    /\ UNCHANGED << inst, page, files, written, asked, late, twice, sameName >>

\* handleRetry: the receipt that failed, for the report the page remembers.
FormRetries(c) ==
    /\ page.at = "open" /\ page.failed /\ expCall[c].at = "idle"
    /\ \A d \in Calls : expCall[d].by # "retry"
    /\ expCall' = [expCall EXCEPT ![c] =
          [Idle EXCEPT !.at = "attach", !.by = "retry", !.r = page.pending, !.submit = TRUE]]
    /\ UNCHANGED << inst, report, page, files, written, asked, late, twice, sameName >>

\* The upload was refused: the page keeps the receipt for a retry, the handler returns.
UploadFails(c) ==
    /\ page' = IF expCall[c].by = "form" THEN [page EXCEPT !.pending = expCall[c].r, !.failed = TRUE] ELSE page
    /\ Ends(c)

Uploaded(c) ==
    /\ page' = IF expCall[c].by = "retry" THEN [page EXCEPT !.failed = FALSE] ELSE page
    /\ expCall' = [expCall EXCEPT ![c].at = "submit", ![c].file = 0, ![c].old = 0]

\* The receipt route up to its transaction: the status is checked, the old path remembered, the
\* new file written.  Its name is the report and the millisecond, which may be the last upload's.
Names(r, n) == report[r].receipt = n \/ \E d \in Calls : expCall[d].r = r /\ expCall[d].file = n

UploadBegins(c) ==
    /\ expCall[c].at = "attach"
    /\ LET r == expCall[c].r IN
       IF report[r].status \in Editable
          THEN \E now \in {written, written + 1} \cap 1..MaxFiles :
                  /\ written' = now /\ files' = files \cup {<< r, now >>}
                  /\ sameName' = IF Names(r, now) THEN sameName \cup {r} ELSE sameName
                  /\ expCall' = [expCall EXCEPT ![c].at = "record", ![c].file = now, ![c].old = report[r].receipt]
                  /\ UNCHANGED page
          ELSE UploadFails(c) /\ UNCHANGED << files, written, sameName >>
    /\ UNCHANGED << inst, report, asked, late, twice >>

\* The old receipt goes only after the transaction; a failed transaction takes the new file away.
UploadRecords(c) ==
    /\ expCall[c].at = "record"
    /\ \/ /\ report' = [report EXCEPT ![expCall[c].r].receipt = expCall[c].file]
          /\ IF expCall[c].old # 0 THEN Goes(c, "unlink") /\ UNCHANGED page ELSE Uploaded(c)
          /\ UNCHANGED files
       \/ /\ files' = files \ {<< expCall[c].r, expCall[c].file >>}
          /\ UploadFails(c)
          /\ UNCHANGED report
    /\ UNCHANGED << inst, written, asked, late, twice, sameName >>

UploadUnlinks(c) ==
    /\ expCall[c].at = "unlink"
    /\ files' = files \ {<< expCall[c].r, expCall[c].old >>}
    /\ Uploaded(c)
    /\ UNCHANGED << inst, report, written, asked, late, twice, sameName >>

-----------------------------------------------------------------------------
(* The report's own page                                                    *)

\* The page shows the report as it was when it was rendered; it offers to submit a draft and to
\* change and resubmit a rejected report, and nothing else.
TabOpens(c, r) ==
    /\ expCall[c].at = "idle" /\ report[r].status \in Editable
    /\ expCall' = [expCall EXCEPT ![c] =
          [Idle EXCEPT !.at = "shown", !.by = "tab", !.r = r, !.saw = report[r].status]]
    /\ UNCHANGED << inst, report, page, files, written, asked, late, twice, sameName >>

TabActs(c) ==
    /\ expCall[c].at = "shown"
    /\ \/ /\ expCall[c].saw = "DRAFT"
          /\ expCall' = [expCall EXCEPT ![c].at = "submit", ![c].submit = TRUE, ![c].saw = "none"]
       \/ /\ expCall[c].saw = "REJECTED"
          /\ \E n \in 2..MaxItems : expCall' = [expCall EXCEPT
                ![c].at = "submit", ![c].submit = TRUE, ![c].items = n, ![c].saw = "none"]
    /\ UNCHANGED << inst, report, page, files, written, asked, late, twice, sameName >>

\* PATCH with line items alone, which the route also takes.
ItemsSent(c, r) ==
    /\ expCall[c].at = "idle" /\ report[r].status # "none"
    /\ \E n \in 2..MaxItems :
          expCall' = [expCall EXCEPT ![c] = [Idle EXCEPT !.at = "submit", !.by = "tab", !.r = r, !.items = n]]
    /\ UNCHANGED << inst, report, page, files, written, asked, late, twice, sameName >>

-----------------------------------------------------------------------------
(* PATCH /api/expenses/[id]                                                 *)

\* An answer: on success the form moves on to the report, unless the answer is lost.
Answered(c, ok) ==
    /\ page' = IF ok /\ expCall[c].by \in {"form", "retry"} THEN [page EXCEPT !.at = "left"] ELSE page
    /\ Ends(c)

\* The status check, on a report read before anything else happens.
PatchBegins(c) ==
    /\ expCall[c].at = "submit"
    /\ IF report[expCall[c].r].status \in Editable
          THEN /\ Goes(c, IF expCall[c].submit THEN "start" ELSE "write")
               /\ twice' = IF \E d \in Calls \ {c} : Patching(d, expCall[c].r)
                              THEN twice \cup {expCall[c].r} ELSE twice
               /\ UNCHANGED page
          ELSE Answered(c, FALSE) /\ UNCHANGED twice
    /\ UNCHANGED << inst, report, files, written, asked, late, sameName >>

\* The approval is started before the report says so; a lost answer leaves it without a report.
PatchStarts(c) ==
    /\ expCall[c].at = "start"
    /\ \/ \E i \in Instances :
             /\ StartInstance(i)
             /\ \/ expCall' = [expCall EXCEPT ![c].at = "write", ![c].i = i] /\ UNCHANGED page
                \/ Answered(c, FALSE)
       \/ Answered(c, FALSE) /\ UNCHANGED inst
    /\ UNCHANGED << report, files, written, asked, late, twice, sameName >>

\* A variant with a mistake: the transaction writes the status without looking at it again.
PatchWritesBroken(c) ==
    LET r == expCall[c].r
        items == IF expCall[c].items = 0 THEN report[r].items ELSE expCall[c].items
    IN  /\ expCall[c].at = "write"
        /\ report' = [report EXCEPT ![r] =
              IF expCall[c].submit THEN [@ EXCEPT !.items = items, !.status = "SUBMITTED", !.wf = expCall[c].i]
              ELSE [@ EXCEPT !.items = items]]
        /\ asked' = IF expCall[c].submit THEN [asked EXCEPT ![r] = items] ELSE asked
        /\ \E heard \in BOOLEAN : Answered(c, heard)
        /\ UNCHANGED << inst, files, written, late, twice, sameName >>

\* One transaction: the items are replaced first, then the status moves if it still may.  When it
\* may not, the transaction ends without an error, so the items it replaced stay replaced.
PatchWrites(c) ==
    LET r == expCall[c].r
        items == IF expCall[c].items = 0 THEN report[r].items ELSE expCall[c].items
        moves == expCall[c].submit /\ report[r].status \in Editable
    IN  /\ expCall[c].at = "write"
        /\ report' = [report EXCEPT ![r] =
              IF moves THEN [@ EXCEPT !.items = items, !.status = "SUBMITTED", !.wf = expCall[c].i]
              ELSE [@ EXCEPT !.items = items]]
        /\ asked' = IF moves THEN [asked EXCEPT ![r] = items] ELSE asked
        /\ IF expCall[c].submit /\ ~moves THEN Goes(c, "cancel") /\ UNCHANGED page
           ELSE \E heard \in BOOLEAN : Answered(c, heard)
        /\ UNCHANGED << inst, files, written, late, twice, sameName >>

\* The approval that lost is cancelled, if it can be.
PatchCancels(c) ==
    /\ expCall[c].at = "cancel"
    /\ \/ EndInstance(expCall[c].i)
       \/ UNCHANGED inst
    /\ Answered(c, FALSE)
    /\ UNCHANGED << report, files, written, asked, late, twice, sameName >>

-----------------------------------------------------------------------------
(* POST /api/tasks/[id]/complete, for a task of an expense approval         *)

Behind(i) == \E d \in Calls : expCall[d].i = i /\ expCall[d].at \in {"write", "find", "sync"}

\* The service moves on first; 'revision_requested' is refused before it does.
ReviewDecided(c) ==
    /\ expCall[c].at = "idle"
    /\ \E i \in Instances, v \in {"approved", "rejected"} :
          /\ CompleteReview(i, v, 2)
          /\ late' = IF Behind(i) THEN late \cup {i} ELSE late
          /\ expCall' = [expCall EXCEPT ![c] =
                [Idle EXCEPT !.at = "find", !.by = "approver", !.i = i, !.verdict = v,
                             !.review = inst[i].stage]]
    /\ UNCHANGED << report, page, files, written, asked, twice, sameName >>

ReviewFinds(c) ==
    /\ expCall[c].at = "find"
    /\ LET mine == {r \in Reports : report[r].wf = expCall[c].i}
       IN  IF mine = {} THEN Ends(c)
           ELSE \E r \in mine : expCall' = [expCall EXCEPT ![c].at = "sync", ![c].r = r]
    /\ UNCHANGED << inst, report, page, files, written, asked, late, twice, sameName >>

Expected(review) == IF review = "first" THEN "SUBMITTED" ELSE "APPROVED_MANAGER"
NewStatus(review, verdict) ==
    IF verdict # "approved" THEN "REJECTED"
    ELSE IF review = "first" THEN "APPROVED_MANAGER" ELSE "REIMBURSED"

\* The status is written only over the one this review starts from; the write may also be lost.
ReviewSyncs(c) ==
    /\ expCall[c].at = "sync"
    /\ LET r == expCall[c].r IN
       \/ /\ report' = IF report[r].status = Expected(expCall[c].review)
                          THEN [report EXCEPT ![r].status = NewStatus(expCall[c].review, expCall[c].verdict)]
                          ELSE report
          /\ UNCHANGED late
       \/ late' = late \cup {expCall[c].i} /\ UNCHANGED report
    /\ Ends(c)
    /\ UNCHANGED << inst, page, files, written, asked, twice, sameName >>

-----------------------------------------------------------------------------
(* The approval in the service                                              *)

\* Closed there, by hand: nothing brings it to the report, which waits for ever.
ExpenseOverruled ==
    /\ \E i \in Instances : Overrules(i, 2) /\ late' = late \cup {i}
    /\ UNCHANGED << report, expCall, page, files, written, asked, twice, sameName >>

\* Restarted: no report names the new approval.
ExpenseRestarted ==
    /\ \E i, old \in Instances : RestartInstance(i, old)
    /\ UNCHANGED << report, expCall, page, files, written, asked, late, twice, sameName >>

-----------------------------------------------------------------------------
ExpenseNext ==
    \/ ExpenseOverruled \/ ExpenseRestarted
    \/ \E c \in Calls :
       \/ FormSends(c) \/ FormRetries(c)
       \/ UploadBegins(c) \/ UploadRecords(c) \/ UploadUnlinks(c)
       \/ \E r \in Reports : TabOpens(c, r) \/ ItemsSent(c, r)
       \/ TabActs(c)
       \/ PatchBegins(c) \/ PatchStarts(c) \/ PatchWrites(c) \/ PatchCancels(c)
       \/ ReviewDecided(c) \/ ReviewFinds(c) \/ ReviewSyncs(c)

ExpenseSpec == InstInit /\ ExpenseInit /\ [][ExpenseNext]_<< inst, expenseVars >>

-----------------------------------------------------------------------------
(* Properties                                                               *)

StandsFor(r) ==
    LET i == report[r].wf IN
    CASE report[r].status = "APPROVED_MANAGER" -> inst[i].said # << >> /\ inst[i].said[1] = "approved"
      [] report[r].status = "REIMBURSED" -> Said(i, << "approved", "approved" >>)
      [] report[r].status = "REJECTED" -> inst[i].said # << >> /\ inst[i].said[Len(inst[i].said)] = "rejected"
      [] OTHER -> TRUE

Waits(r) ==
    LET i == report[r].wf IN
    CASE report[r].status = "SUBMITTED" -> inst[i].stage = "first"
      [] report[r].status = "APPROVED_MANAGER" -> inst[i].stage = "second"
      [] OTHER -> TRUE

\* However submissions and reviews interleave, and whatever operators do to approvals, a report never
\* claims a verdict its own approval did not give.  When no review overtook the write before it or lost
\* its own, and no operator closed the approval, a report that waits has the review it waits for.  (One
\* whose approval an operator closed stays SUBMITTED or APPROVED_MANAGER for ever: no review can move it,
\* and it is not editable.)  When no two PATCHes of it overlapped, what is under approval is what was
\* submitted.
ExpenseApprovalsHold ==
    \A r \in Reports :
       /\ StandsFor(r)
       /\ (report[r].wf \notin late \cup {0} /\ ~Behind(report[r].wf)) => Waits(r)
       /\ (r \notin twice /\ report[r].status \notin Editable) => report[r].items = asked[r]

\* The receipt a report points at is on disk, whatever uploads overlap or fail, unless two of the report's
\* were uploaded in one millisecond: they share a name, and the one that fails takes the other's file away.
ReceiptsExist ==
    \A r \in Reports \ sameName : report[r].receipt # 0 => << r, report[r].receipt >> \in files
=============================================================================
