------------------------- MODULE ErpWorkflowProofs --------------------------
(***************************************************************************)
(* Documents that wait for two reviews, for any number of reports, sheets, *)
(* requests and approvals: expense reports with their receipts, and        *)
(* timesheets.                                                             *)
(*                                                                         *)
(* The argument: each review is told to its document by one request, which *)
(* knows what was said; an approval belongs to one document or to the      *)
(* request that has started it and not yet told the document.  So a        *)
(* document that says a review was given has been told of it, and one that *)
(* has not been told either still waits for the review or for the request  *)
(* that will tell it.                                                      *)
(***************************************************************************)
EXTENDS ExpenseReports, TimesheetApprovals, TLAPS, FiniteSetTheorems, SequenceTheorems

-----------------------------------------------------------------------------
(* The approvals                                                            *)

InstRow == [stage : Stages, said : Seq(Verdicts)]

\* What an approval's reviews can have said, by how far it is.
Life(x) ==
    /\ x.stage \in {"none", "first"} => x.said = << >>
    /\ x.stage = "second" => x.said = << "approved" >>
    /\ x.stage = "ended" => x.said = << >> \/ x.said = << "approved" >>
    /\ x.stage = "over" => \E v \in Verdicts : x.said = << v >> \/ x.said = << "approved", v >>

InstInv == inst \in [Instances -> InstRow] /\ \A i \in Instances : Life(inst[i])

LEMMA InstInvInit == InstInit => InstInv
<1>1. Unstarted \in InstRow /\ Life(Unstarted)
    <2>1. << >> \in Seq(Verdicts)
        OBVIOUS
    <2>2. QED BY <2>1 DEF Unstarted, InstRow, Life, Stages
<1>2. QED BY <1>1 DEF InstInit, InstInv

LEMMA InstTyped == InstInv => InstTypeOK
<1> SUFFICES ASSUME InstInv PROVE InstTypeOK
    OBVIOUS
<1>1. ASSUME NEW i \in Instances
      PROVE  inst[i].stage \in Stages /\ Len(inst[i].said) <= 2 /\ \A n \in DOMAIN inst[i].said : inst[i].said[n] \in Verdicts
    <2>1. inst[i] \in InstRow /\ inst[i].stage \in Stages /\ inst[i].said \in Seq(Verdicts) /\ Life(inst[i])
        BY DEF InstInv, InstRow
    <2>2. CASE inst[i].said = << >>
        BY <2>1, <2>2
    <2>3. ASSUME NEW v \in Verdicts, inst[i].said = << v >> PROVE Len(inst[i].said) <= 2
        BY <2>3
    <2>4. ASSUME NEW v \in Verdicts, inst[i].said = << "approved", v >> PROVE Len(inst[i].said) <= 2
        BY <2>4
    <2>5. inst[i].said = << >> \/ \E v \in Verdicts : inst[i].said = << v >> \/ inst[i].said = << "approved", v >>
        BY <2>1 DEF Life, Stages, Verdicts
    <2>6. Len(inst[i].said) <= 2
        BY <2>2, <2>3, <2>4, <2>5
    <2>7. \A n \in DOMAIN inst[i].said : inst[i].said[n] \in Verdicts
        BY <2>1
    <2>8. QED BY <2>1, <2>6, <2>7
<1>2. DOMAIN inst = Instances
    BY DEF InstInv
<1>3. QED BY <1>1, <1>2 DEF InstTypeOK

\* An approval that was not started is as it was at the beginning.
LEMMA InstUnstarted == InstInv => \A i \in Instances : inst[i].stage = "none" <=> inst[i] = Unstarted
<1> SUFFICES ASSUME InstInv, NEW i \in Instances PROVE inst[i].stage = "none" <=> inst[i] = Unstarted
    OBVIOUS
<1>1. ASSUME inst[i].stage = "none" PROVE inst[i] = Unstarted
    <2>1. inst[i] \in InstRow /\ inst[i].said = << >>
        BY <1>1 DEF InstInv, Life
    <2>2. \A x \in InstRow : x = [stage |-> x.stage, said |-> x.said]
        BY DEF InstRow
    <2>3. QED BY <1>1, <2>1, <2>2 DEF Unstarted
<1>2. Unstarted.stage = "none"
    BY DEF Unstarted
<1>3. QED BY <1>1, <1>2

\* An approval is changed to a state it can have.
LEMMA InstChanges ==
    ASSUME InstInv, NEW i \in Instances, NEW x \in InstRow, Life(x), inst' = [inst EXCEPT ![i] = x]
    PROVE  InstInv' /\ inst'[i] = x /\ \A j \in Instances : j # i => inst'[j] = inst[j]
BY DEF InstInv

LEMMA InstStarts ==
    ASSUME InstInv, NEW i \in Instances, StartInstance(i)
    PROVE  /\ InstInv' /\ inst[i].stage = "none" /\ inst[i] = Unstarted /\ inst[i].said = << >>
           /\ inst'[i].stage = "first" /\ inst'[i].said = << >>
           /\ \A j \in Instances : j # i => inst'[j] = inst[j]
<1> DEFINE x == [inst[i] EXCEPT !.stage = "first"]
<1>1. inst[i] = Unstarted /\ inst' = [inst EXCEPT ![i] = x]
    BY DEF StartInstance
<1>2. inst[i].stage = "none" /\ inst[i].said = << >> /\ inst[i] \in InstRow
    BY <1>1 DEF Unstarted, InstInv
<1>3. x \in InstRow /\ x.stage = "first" /\ x.said = << >>
    BY <1>2 DEF InstRow, Stages
<1> HIDE DEF x
<1>4. Life(x)
    BY <1>3 DEF Life
<1>5. QED BY <1>1, <1>2, <1>3, <1>4, InstChanges

LEMMA InstEnds ==
    ASSUME InstInv, NEW i \in Instances, EndInstance(i)
    PROVE  /\ InstInv' /\ inst[i].stage \in {"first", "second"} /\ inst'[i].stage = "ended" /\ inst'[i].said = inst[i].said
           /\ \A j \in Instances : j # i => inst'[j] = inst[j]
<1> DEFINE x == [inst[i] EXCEPT !.stage = "ended"]
<1>1. inst[i].stage \in {"first", "second"} /\ inst' = [inst EXCEPT ![i] = x]
    BY DEF EndInstance, OpenTask
<1>2. inst[i] \in InstRow /\ Life(inst[i])
    BY DEF InstInv
<1>3. x \in InstRow /\ x.stage = "ended" /\ x.said = inst[i].said
    BY <1>2 DEF InstRow, Stages
<1> HIDE DEF x
<1>4. Life(x)
    BY <1>1, <1>2, <1>3 DEF Life
<1>5. QED BY <1>1, <1>3, <1>4, InstChanges

\* A second word after a first.
LEMMA TwoSaid == ASSUME NEW S, NEW a \in S, NEW b \in S PROVE Append(<< a >>, b) = << a, b >>
<1>1. << a >> \in Seq(S) /\ Len(<< a >>) = 1
    OBVIOUS
<1>2. /\ Append(<< a >>, b) \in Seq(S) /\ Len(Append(<< a >>, b)) = 2
      /\ Append(<< a >>, b)[1] = a /\ Append(<< a >>, b)[2] = b
    BY <1>1
<1>3. << a, b >> \in Seq(S) /\ Len(<< a, b >>) = 2 /\ << a, b >>[1] = a /\ << a, b >>[2] = b
    OBVIOUS
<1>4. ASSUME NEW s \in Seq(S), NEW t \in Seq(S), Len(s) = 2, Len(t) = 2, s[1] = t[1], s[2] = t[2] PROVE s = t
    <2>1. \A i \in 1..2 : i = 1 \/ i = 2
        OBVIOUS
    <2>2. QED BY <1>4, <2>1, SeqEqual
<1>5. QED BY <1>2, <1>3, <1>4

LEMMA InstReviewed ==
    ASSUME InstInv, NEW i \in Instances, NEW v \in Verdicts, NEW reviews \in {1, 2}, CompleteReview(i, v, reviews)
    PROVE  /\ InstInv'
           /\ \/ inst[i].stage = "first" /\ inst[i].said = << >> /\ inst'[i].said = << v >>
              \/ inst[i].stage = "second" /\ inst[i].said = << "approved" >> /\ inst'[i].said = << "approved", v >>
           /\ inst'[i].stage = IF v = "approved" /\ inst[i].stage = "first" /\ reviews = 2 THEN "second" ELSE "over"
           /\ \A j \in Instances : j # i => inst'[j] = inst[j]
<1> DEFINE x == [stage |-> IF v = "approved" /\ inst[i].stage = "first" /\ reviews = 2 THEN "second" ELSE "over",
                 said  |-> Append(inst[i].said, v)]
<1>1. inst[i].stage \in {"first", "second"} /\ inst' = [inst EXCEPT ![i] = x]
    BY DEF CompleteReview, OpenTask, InstInv
<1>2. inst[i] \in InstRow /\ inst[i].said \in Seq(Verdicts) /\ Life(inst[i])
    BY DEF InstInv, InstRow
<1>3. x \in InstRow
    <2>1. Append(inst[i].said, v) \in Seq(Verdicts)
        BY <1>2
    <2>2. QED BY <2>1 DEF InstRow, Stages
<1>4. /\ x.stage = IF v = "approved" /\ inst[i].stage = "first" /\ reviews = 2 THEN "second" ELSE "over"
      /\ x.said = Append(inst[i].said, v)
    OBVIOUS
<1> HIDE DEF x
<1>5. CASE inst[i].stage = "first"
    <2>1. inst[i].said = << >>
        BY <1>2, <1>5 DEF Life
    <2>2. x.said = << v >>
        BY <1>4, <2>1
    <2>3. Life(x)
        BY <1>4, <2>2 DEF Life
    <2>4. QED BY <1>1, <1>3, <1>4, <1>5, <2>1, <2>2, <2>3, InstChanges
<1>6. CASE inst[i].stage = "second"
    <2>1. inst[i].said = << "approved" >>
        BY <1>2, <1>6 DEF Life
    <2>2. x.said = << "approved", v >>
        <3>1. Append(<< "approved" >>, v) = << "approved", v >>
            BY TwoSaid DEF Verdicts
        <3>2. QED BY <1>4, <2>1, <3>1
    <2>3. x.stage = "over"
        BY <1>4, <1>6
    <2>4. Life(x)
        BY <2>2, <2>3 DEF Life
    <2>5. QED BY <1>1, <1>3, <1>4, <1>6, <2>1, <2>2, <2>4, InstChanges
<1>7. QED BY <1>1, <1>5, <1>6

-----------------------------------------------------------------------------
(* Expense reports                                                          *)

ReportRow == [status : Statuses, wf : Instances \cup {0}, items : 0..MaxItems, receipt : 0..MaxFiles]
ExpenseCall == [at : Steps, by : {"", "form", "retry", "tab", "approver"}, r : Reports \cup {0}, i : Instances \cup {0},
                items : 0..MaxItems, submit : BOOLEAN, saw : Statuses, file : 0..MaxFiles, old : 0..MaxFiles,
                verdict : {"", "approved", "rejected"}, review : {"none", "first", "second"}]
FormPage == [at : {"open", "left"}, pending : Reports \cup {0}, failed : BOOLEAN]

\* What a request holds, by what it is at.
CallFits(s) ==
    /\ s.at = "idle" => s = Idle
    /\ s.at \notin {"idle", "find"} => s.r \in Reports
    /\ s.at \in {"find", "sync"} => s.i \in Instances /\ s.verdict # "" /\ s.review # "none"
    /\ s.at = "cancel" \/ (s.at = "write" /\ s.submit) => s.i \in Instances
    /\ s.at = "start" => s.submit
    /\ s.at = "unlink" => s.old # 0

\* A receipt file is named by a report and a time that has come.
FilesNamed == \A f \in files : \E r \in Reports, n \in 1..written : f = << r, n >>

ExpenseRows ==
    /\ InstInv
    /\ report \in [Reports -> ReportRow]
    /\ \A r \in Reports : report[r].wf = 0 <=> report[r].status \in {"none", "DRAFT"}
    /\ expCall \in [Calls -> ExpenseCall] /\ \A c \in Calls : CallFits(expCall[c])
    /\ page \in FormPage /\ (page.failed => page.pending \in Reports)
    /\ written \in 0..MaxFiles /\ FilesNamed
    /\ asked \in [Reports -> 0..MaxItems]
    /\ late \subseteq Instances /\ twice \subseteq Reports /\ sameName \subseteq Reports

\* As long as no two uploads of a report chose one name: its receipt is stored, the file an upload has written is its
\* own until the report names it, and the one it takes away afterwards is not the report's any more.
Stores(c) == expCall[c].at \in {"record", "unlink"}
StoresFor(c, r) == Stores(c) /\ expCall[c].r = r
StoreInv(r) ==
    /\ report[r].receipt # 0 => << r, report[r].receipt >> \in files
    /\ \A c \in Calls : StoresFor(c, r) =>
          /\ expCall[c].old < expCall[c].file
          /\ expCall[c].at = "unlink" => report[r].receipt # expCall[c].old
    /\ \A c \in Calls : StoresFor(c, r) /\ expCall[c].at = "record" =>
          /\ << r, expCall[c].file >> \in files
          /\ report[r].receipt # expCall[c].file
          /\ \A d \in Calls : StoresFor(d, r) =>
                /\ expCall[d].at = "record" /\ expCall[d].file = expCall[c].file => d = c
                /\ expCall[d].old # expCall[c].file
ReceiptsInv ==
    /\ \A c \in Calls : Stores(c) => expCall[c].file <= written
    /\ \A r \in Reports : report[r].receipt <= written
    /\ \A r \in Reports \ sameName : StoreInv(r)

\* A request about a review that was given, and one that has started an approval and not told the report.
Reviewing(c, i) == expCall[c].at \in {"find", "sync"} /\ expCall[c].i = i
Started(c, i) == expCall[c].i = i /\ (expCall[c].at = "cancel" \/ (expCall[c].at = "write" /\ expCall[c].submit))

Gave(said, review, verdict) ==
    IF review = "first" THEN said # << >> /\ said[1] = verdict ELSE said = << "approved", verdict >>

\* Each review is told once, of what was said; what is told to a report is about its approval; and a report that says
\* what a review said has been told of it.
ReviewsInv ==
    /\ \A c \in Calls, i \in Instances : Reviewing(c, i) => Gave(inst[i].said, expCall[c].review, expCall[c].verdict)
    /\ \A c, d \in Calls, i \in Instances :
          Reviewing(c, i) /\ Reviewing(d, i) /\ expCall[c].review = expCall[d].review => c = d
    /\ \A c \in Calls : expCall[c].at = "sync" => report[expCall[c].r].wf = expCall[c].i
    /\ \A r \in Reports, c \in Calls : Reviewing(c, report[r].wf) =>
          /\ report[r].status = "APPROVED_MANAGER" => expCall[c].review # "first"
          /\ report[r].status \notin {"REJECTED", "REIMBURSED"}
    /\ \A r \in Reports : StandsFor(r)

\* An approval belongs to one report, or to the request that started it.
OwnersInv ==
    /\ \A r \in Reports : report[r].wf # 0 => inst[report[r].wf].stage # "none"
    /\ \A q, r \in Reports : report[q].wf = report[r].wf /\ report[q].wf # 0 => q = r
    /\ \A c \in Calls, i \in Instances : Started(c, i) =>
          /\ inst[i].stage # "none" /\ \A r \in Reports : report[r].wf # i
          /\ \A d \in Calls : Started(d, i) => d = c

\* As long as no review overtakes a write: an approval nobody was told of waits for its first review, and a report
\* that waits has the review it waits for, or is being told of it.
WaitsInv ==
    /\ \A c \in Calls, i \in Instances \ late : Started(c, i) /\ expCall[c].at = "write" =>
          inst[i].stage = "first" /\ \A d \in Calls : ~Reviewing(d, i)
    /\ \A i \in Instances \ late, c, d \in Calls : Reviewing(c, i) /\ Reviewing(d, i) => c = d
    /\ \A r \in Reports : report[r].wf \notin late \cup {0} =>
          /\ report[r].status = "SUBMITTED" =>
                /\ \A c \in Calls : Reviewing(c, report[r].wf) =>
                      expCall[c].review = "first" /\ (expCall[c].verdict = "approved" => inst[report[r].wf].stage = "second")
                /\ (\A c \in Calls : ~Reviewing(c, report[r].wf)) => inst[report[r].wf].stage = "first"
          /\ report[r].status = "APPROVED_MANAGER" =>
                /\ \A c \in Calls : Reviewing(c, report[r].wf) => expCall[c].review = "second"
                /\ (\A c \in Calls : ~Reviewing(c, report[r].wf)) => inst[report[r].wf].stage = "second"

\* A report two PATCHes of which never overlapped can still be edited when one is under way, and has the items it was
\* submitted with when none can.
ItemsInv ==
    \A r \in Reports \ twice :
       /\ \A c \in Calls : Patching(c, r) => report[r].status \in Editable
       /\ \A c, d \in Calls : Patching(c, r) /\ Patching(d, r) => c = d
       /\ report[r].status \notin Editable => report[r].items = asked[r]

ExpenseInv == ExpenseRows /\ ReceiptsInv /\ ReviewsInv /\ OwnersInv /\ WaitsInv /\ ItemsInv

LEMMA ExpenseInvInit == InstInit /\ ExpenseInit => ExpenseInv
<1> SUFFICES ASSUME InstInit, ExpenseInit PROVE ExpenseInv
    OBVIOUS
<1>1. Idle \in ExpenseCall /\ CallFits(Idle) /\ Idle.at = "idle"
    BY ExpenseAssumptions DEF Idle, ExpenseCall, CallFits, Steps, Statuses
<1>2. expCall \in [Calls -> ExpenseCall] /\ \A c \in Calls : expCall[c] = Idle
    BY <1>1 DEF ExpenseInit
<1> DEFINE row == [status |-> "none", wf |-> 0, items |-> 0, receipt |-> 0]
<1>3. row \in ReportRow /\ row.status = "none" /\ row.wf = 0 /\ row.items = 0 /\ row.receipt = 0
    BY ExpenseAssumptions DEF ReportRow, Statuses
<1>4. report \in [Reports -> ReportRow] /\ \A r \in Reports : report[r] = row
    BY <1>3 DEF ExpenseInit
<1> HIDE DEF row
<1>5. asked \in [Reports -> 0..MaxItems] /\ \A r \in Reports : asked[r] = 0
    BY ExpenseAssumptions DEF ExpenseInit
<1>6. page \in FormPage /\ ~page.failed
    BY DEF ExpenseInit, FormPage
<1>7. ExpenseRows
    <2>1. /\ written \in 0..MaxFiles /\ FilesNamed
          /\ late \subseteq Instances /\ twice \subseteq Reports /\ sameName \subseteq Reports
        BY ExpenseAssumptions DEF ExpenseInit, FilesNamed
    <2>2. \A r \in Reports : report[r].wf = 0 /\ report[r].status = "none"
        BY <1>3, <1>4
    <2>3. QED BY <1>1, <1>2, <1>4, <1>5, <1>6, <2>1, <2>2, InstInvInit DEF ExpenseRows, FilesNamed
<1>8. ReceiptsInv
    <2>1. \A c \in Calls : ~Stores(c)
        BY <1>1, <1>2 DEF Stores
    <2>2. \A r \in Reports : report[r].receipt = 0 /\ written = 0
        BY <1>3, <1>4 DEF ExpenseInit
    <2>3. QED BY <2>1, <2>2 DEF ReceiptsInv, StoreInv, StoresFor
<1>9. ReviewsInv
    BY <1>1, <1>2, <1>3, <1>4 DEF ReviewsInv, Reviewing, StandsFor
<1>10. OwnersInv
    BY <1>1, <1>2, <1>3, <1>4 DEF OwnersInv, Started
<1>11. WaitsInv
    BY <1>1, <1>2, <1>3, <1>4 DEF WaitsInv, Started, Reviewing
<1>12. ItemsInv
    BY <1>1, <1>2, <1>3, <1>4, <1>5 DEF ItemsInv, Patching
<1>13. QED BY <1>7, <1>8, <1>9, <1>10, <1>11, <1>12 DEF ExpenseInv

LEMMA ExpenseInvShows == ExpenseInv => InstTypeOK /\ ExpenseTypeOK /\ ExpenseApprovalsHold /\ ReceiptsExist
<1> SUFFICES ASSUME ExpenseInv PROVE InstTypeOK /\ ExpenseTypeOK /\ ExpenseApprovalsHold /\ ReceiptsExist
    OBVIOUS
<1> USE DEF ExpenseInv
<1>1. InstTypeOK
    BY InstTyped DEF ExpenseRows
<1>2. ExpenseTypeOK
    <2>1. \A f \in files : f[1] \in Reports /\ f[2] \in 1..written
        BY DEF ExpenseRows, FilesNamed
    <2>2. QED BY <2>1 DEF ExpenseTypeOK, ExpenseRows, ReportRow, ExpenseCall, CallFits, FormPage
<1>3. ReceiptsExist
    BY DEF ReceiptsInv, StoreInv, ReceiptsExist
<1>4. ASSUME NEW r \in Reports
      PROVE  /\ StandsFor(r)
             /\ (report[r].wf \notin late \cup {0} /\ ~Behind(report[r].wf)) => Waits(r)
             /\ (r \notin twice /\ report[r].status \notin Editable) => report[r].items = asked[r]
    <2>1. ASSUME ~Behind(report[r].wf) PROVE \A c \in Calls : ~Reviewing(c, report[r].wf)
        BY <2>1 DEF Behind, Reviewing
    <2>2. (report[r].wf \notin late \cup {0} /\ ~Behind(report[r].wf)) => Waits(r)
        BY <2>1 DEF WaitsInv, Waits
    <2>3. QED BY <2>2 DEF ReviewsInv, ItemsInv
<1>5. QED BY <1>1, <1>2, <1>3, <1>4 DEF ExpenseApprovalsHold

\* One request changes to a state a request can be in.
LEMMA CallChanges ==
    ASSUME ExpenseRows, NEW c \in Calls, NEW s \in ExpenseCall, expCall' = [expCall EXCEPT ![c] = s]
    PROVE  /\ expCall'[c] = s /\ \A d \in Calls : d # c => expCall'[d] = expCall[d]
           /\ CallFits(s) => expCall' \in [Calls -> ExpenseCall] /\ \A d \in Calls : CallFits(expCall'[d])
BY DEF ExpenseRows

\* What a request changes nothing about that has no review to tell, and no approval but one it is about to cancel.
LEMMA QuietReviews ==
    ASSUME ExpenseRows, ReviewsInv, OwnersInv, WaitsInv, NEW c \in Calls, NEW s \in ExpenseCall,
           expCall' = [expCall EXCEPT ![c] = s],
           s.at \notin {"find", "sync"}, ~(s.at = "write" /\ s.submit),
           s.at = "cancel" => expCall[c].at = "write" /\ expCall[c].submit /\ s.i = expCall[c].i,
           expCall[c].at \in {"find", "sync"} => \A r \in Reports : report[r].wf # expCall[c].i,
           inst' = inst, late' = late,
           \A r \in Reports : /\ report'[r].wf = report[r].wf
                              /\ report'[r].status = report[r].status \/ {report[r].status, report'[r].status} \subseteq {"none", "DRAFT"}
    PROVE  (ReviewsInv /\ OwnersInv /\ WaitsInv)'
<1>1. expCall'[c] = s /\ \A d \in Calls : d # c => expCall'[d] = expCall[d]
    BY CallChanges
<1>2. ASSUME NEW d \in Calls, NEW i
      PROVE  /\ Reviewing(d, i)' => d # c /\ Reviewing(d, i) /\ expCall'[d] = expCall[d]
             /\ Started(d, i)' => Started(d, i)
             /\ Started(d, i)' /\ expCall'[d].at = "write" => d # c /\ expCall'[d] = expCall[d]
    BY <1>1 DEF Reviewing, Started
<1>3. ASSUME NEW d \in Calls, NEW r \in Reports, Reviewing(d, report[r].wf) PROVE Reviewing(d, report[r].wf)' /\ d # c
    <2>1. d # c
        BY <1>3 DEF Reviewing
    <2>2. PICK i : i = report[r].wf
        OBVIOUS
    <2>3. report'[r].wf = i
        BY <2>2
    <2>4. QED BY <1>1, <1>3, <2>1, <2>2, <2>3 DEF Reviewing
<1>4. ReviewsInv'
    <2>1. \A d \in Calls, i \in Instances : Reviewing(d, i)' => Gave(inst'[i].said, expCall'[d].review, expCall'[d].verdict)
        BY <1>2 DEF ReviewsInv
    <2>2. \A d, e \in Calls, i \in Instances :
              Reviewing(d, i)' /\ Reviewing(e, i)' /\ expCall'[d].review = expCall'[e].review => d = e
        BY <1>2 DEF ReviewsInv
    <2>3. ASSUME NEW d \in Calls, expCall'[d].at = "sync" PROVE report'[expCall'[d].r].wf = expCall'[d].i
        <3>1. d # c /\ expCall'[d] = expCall[d] /\ expCall[d].at = "sync"
            BY <2>3, <1>1
        <3>2. PICK q \in Reports : q = expCall[d].r
            BY <3>1 DEF ExpenseRows, CallFits
        <3>3. report[q].wf = expCall[d].i
            BY <3>1, <3>2 DEF ReviewsInv
        <3>4. QED BY <3>1, <3>2, <3>3
    <2>4. ASSUME NEW r \in Reports, NEW d \in Calls, Reviewing(d, report[r].wf)'
          PROVE  /\ report'[r].status = "APPROVED_MANAGER" => expCall'[d].review # "first"
                 /\ report'[r].status \notin {"REJECTED", "REIMBURSED"}
        <3>1. PICK i : i = report[r].wf
            OBVIOUS
        <3>2. Reviewing(d, i)'
            BY <2>4, <3>1 DEF Reviewing
        <3>3. Reviewing(d, i) /\ expCall'[d] = expCall[d]
            BY <3>2, <1>2
        <3>4. QED BY <3>1, <3>3 DEF ReviewsInv
    <2>5. \A r \in Reports : StandsFor(r)'
        BY DEF ReviewsInv, StandsFor, Said
    <2>6. QED BY <2>1, <2>2, <2>3, <2>4, <2>5 DEF ReviewsInv
<1>5. OwnersInv'
    BY <1>2 DEF OwnersInv
<1>6. WaitsInv'
    <2>1. ASSUME NEW d \in Calls, NEW i \in Instances \ late', Started(d, i)', expCall'[d].at = "write"
          PROVE  inst'[i].stage = "first" /\ \A e \in Calls : ~Reviewing(e, i)'
        <3>1. Started(d, i) /\ expCall[d].at = "write"
            BY <2>1, <1>2
        <3>2. QED BY <3>1, <1>2 DEF WaitsInv
    <2>2. \A i \in Instances \ late', d, e \in Calls : Reviewing(d, i)' /\ Reviewing(e, i)' => d = e
        BY <1>2 DEF WaitsInv
    <2>3. ASSUME NEW r \in Reports, report'[r].wf \notin late' \cup {0}
          PROVE  /\ report'[r].status = "SUBMITTED" =>
                       /\ \A d \in Calls : Reviewing(d, report[r].wf)' =>
                             /\ expCall'[d].review = "first"
                             /\ expCall'[d].verdict = "approved" => inst'[report'[r].wf].stage = "second"
                       /\ (\A d \in Calls : ~Reviewing(d, report[r].wf)') => inst'[report'[r].wf].stage = "first"
                 /\ report'[r].status = "APPROVED_MANAGER" =>
                       /\ \A d \in Calls : Reviewing(d, report[r].wf)' => expCall'[d].review = "second"
                       /\ (\A d \in Calls : ~Reviewing(d, report[r].wf)') => inst'[report'[r].wf].stage = "second"
        <3>1. PICK i : i = report[r].wf
            OBVIOUS
        <3>2. report'[r].wf = i /\ i \notin late \cup {0}
            BY <2>3, <3>1
        <3>3. report[r].status \in {"SUBMITTED", "APPROVED_MANAGER"} \/ report'[r].status \notin {"SUBMITTED", "APPROVED_MANAGER"}
            OBVIOUS
        <3>4. \A d \in Calls : (Reviewing(d, i)' <=> Reviewing(d, i)) /\ (Reviewing(d, i) => expCall'[d] = expCall[d])
            <4>1. \A d \in Calls : Reviewing(d, i) => d # c
                BY <1>3, <3>1
            <4>2. QED BY <4>1, <1>1, <1>2 DEF Reviewing
        <3>5. \A d \in Calls : Reviewing(d, report[r].wf)' <=> Reviewing(d, i)'
            BY <3>1, <3>2 DEF Reviewing
        <3>6. QED BY <3>1, <3>2, <3>3, <3>4, <3>5, <2>3 DEF WaitsInv
    <2>4. QED BY <2>1, <2>2, <2>3 DEF WaitsInv
<1>7. QED BY <1>4, <1>5, <1>6

\* A request that changes no report's status or items, and is no PATCH past its check.
LEMMA QuietItems ==
    ASSUME ExpenseRows, ItemsInv, NEW c \in Calls, NEW s \in ExpenseCall, expCall' = [expCall EXCEPT ![c] = s],
           s.at \notin {"start", "write"} \/ (expCall[c].at \in {"start", "write"} /\ s.r = expCall[c].r),
           twice \subseteq twice', asked' = asked,
           \A r \in Reports :
              /\ report[r].status \in Editable => report'[r].status \in Editable
              /\ report'[r].status \notin Editable =>
                    report[r].status \notin Editable /\ report'[r].items = report[r].items
    PROVE  ItemsInv'
<1>1. expCall'[c] = s /\ \A d \in Calls : d # c => expCall'[d] = expCall[d]
    BY CallChanges
<1>2. \A d \in Calls, r \in Reports : Patching(d, r)' => Patching(d, r)
    BY <1>1 DEF Patching
<1>3. QED BY <1>2 DEF ItemsInv

\* A request that stores no receipt.
LEMMA QuietReceipts ==
    ASSUME ExpenseRows, ReceiptsInv, NEW c \in Calls, NEW s \in ExpenseCall, expCall' = [expCall EXCEPT ![c] = s],
           s.at \notin {"record", "unlink"}, UNCHANGED << files, written, sameName >>,
           \A r \in Reports : report'[r].receipt = report[r].receipt
    PROVE  ReceiptsInv'
<1>1. expCall'[c] = s /\ \A d \in Calls : d # c => expCall'[d] = expCall[d]
    BY CallChanges
<1>2. \A d \in Calls : Stores(d)' => d # c /\ Stores(d) /\ expCall'[d] = expCall[d]
    BY <1>1 DEF Stores
<1>3. ASSUME NEW r \in Reports \ sameName PROVE StoreInv(r)'
    <2>1. \A d \in Calls : StoresFor(d, r)' => StoresFor(d, r) /\ expCall'[d] = expCall[d]
        BY <1>2 DEF StoresFor
    <2>2. report'[r].receipt = report[r].receipt /\ StoreInv(r)
        BY DEF ReceiptsInv
    <2>3. QED BY <2>1, <2>2 DEF StoreInv
<1>4. QED BY <1>2, <1>3 DEF ReceiptsInv

\* A request of its own that neither reviews nor patches nor stores.
LEMMA QuietCall ==
    ASSUME ExpenseInv, NEW c \in Calls, NEW s \in ExpenseCall, CallFits(s), expCall' = [expCall EXCEPT ![c] = s],
           s.at \notin {"find", "sync", "cancel", "start", "write", "record", "unlink"},
           expCall[c].at \in {"find", "sync"} => \A r \in Reports : report[r].wf # expCall[c].i,
           UNCHANGED << inst, report, files, written, asked, late, twice, sameName >>,
           page' \in FormPage, page'.failed => page'.pending \in Reports
    PROVE  ExpenseInv'
<1> USE DEF ExpenseInv
<1>1. ExpenseRows'
    <2>1. InstInv'
        BY DEF ExpenseRows, InstInv
    <2>2. QED BY <2>1, CallChanges DEF ExpenseRows, FilesNamed
<1>2. (ReviewsInv /\ OwnersInv /\ WaitsInv)'
    BY QuietReviews
<1>3. ItemsInv'
    BY QuietItems
<1>4. ReceiptsInv'
    BY QuietReceipts
<1>5. QED BY <1>1, <1>2, <1>3, <1>4

LEMMA IdleFits == Idle \in ExpenseCall /\ CallFits(Idle) /\ Idle.at = "idle" /\ Idle.r = 0 /\ Idle.i = 0
BY ExpenseAssumptions DEF Idle, ExpenseCall, CallFits, Steps, Statuses

\* A request ends.
LEMMA CallEnds ==
    ASSUME ExpenseInv, NEW c \in Calls, Ends(c),
           expCall[c].at \in {"find", "sync"} => \A r \in Reports : report[r].wf # expCall[c].i,
           UNCHANGED << inst, report, files, written, asked, late, twice, sameName >>,
           page' \in FormPage, page'.failed => page'.pending \in Reports
    PROVE  ExpenseInv'
BY IdleFits, QuietCall DEF Ends

\* The form, the page of a report and the requests that have nothing to write.
LEMMA FormKeeps ==
    ASSUME ExpenseInv, NEW c \in Calls,
           FormRetries(c) \/ TabActs(c) \/ \E r \in Reports : TabOpens(c, r) \/ ItemsSent(c, r)
    PROVE  ExpenseInv'
<1> USE DEF ExpenseInv
<1>0. Idle \in ExpenseCall /\ expCall[c] \in ExpenseCall /\ CallFits(expCall[c])
    BY IdleFits DEF ExpenseRows
<1>1. page' = page => page' \in FormPage /\ (page'.failed => page'.pending \in Reports)
    BY DEF ExpenseRows
<1>2. CASE FormRetries(c)
    <2> DEFINE s == [Idle EXCEPT !.at = "attach", !.by = "retry", !.r = page.pending, !.submit = TRUE]
    <2>1. page.pending \in Reports
        BY <1>2 DEF FormRetries, ExpenseRows
    <2>2. s \in ExpenseCall /\ s.at = "attach" /\ s.r \in Reports
        BY <1>0, <2>1 DEF ExpenseCall, Steps
    <2>3. CallFits(s)
        BY <2>2 DEF CallFits
    <2>4. /\ expCall[c].at = "idle" /\ expCall' = [expCall EXCEPT ![c] = s]
          /\ UNCHANGED << inst, report, page, files, written, asked, late, twice, sameName >>
        BY <1>2 DEF FormRetries
    <2> HIDE DEF s
    <2>5. QED BY <1>1, <2>2, <2>3, <2>4, QuietCall
<1>3. ASSUME NEW r \in Reports, TabOpens(c, r) PROVE ExpenseInv'
    <2> DEFINE s == [Idle EXCEPT !.at = "shown", !.by = "tab", !.r = r, !.saw = report[r].status]
    <2>1. report[r].status \in Statuses
        BY DEF ExpenseRows, ReportRow
    <2>2. s \in ExpenseCall /\ s.at = "shown" /\ s.r \in Reports
        BY <1>0, <2>1 DEF ExpenseCall, Steps
    <2>3. CallFits(s)
        BY <2>2 DEF CallFits
    <2>4. /\ expCall[c].at = "idle" /\ expCall' = [expCall EXCEPT ![c] = s]
          /\ UNCHANGED << inst, report, page, files, written, asked, late, twice, sameName >>
        BY <1>3 DEF TabOpens
    <2> HIDE DEF s
    <2>5. QED BY <1>1, <2>2, <2>3, <2>4, QuietCall
<1>4. ASSUME NEW r \in Reports, ItemsSent(c, r) PROVE ExpenseInv'
    <2>1. PICK n \in 2..MaxItems :
             expCall' = [expCall EXCEPT ![c] = [Idle EXCEPT !.at = "submit", !.by = "tab", !.r = r, !.items = n]]
        BY <1>4 DEF ItemsSent
    <2> DEFINE s == [Idle EXCEPT !.at = "submit", !.by = "tab", !.r = r, !.items = n]
    <2>2. n \in 0..MaxItems
        BY <2>1
    <2>3. s \in ExpenseCall /\ s.at = "submit" /\ s.r \in Reports
        BY <1>0, <2>2 DEF ExpenseCall, Steps
    <2>4. CallFits(s)
        BY <2>3 DEF CallFits
    <2>5. expCall[c].at = "idle" /\ UNCHANGED << inst, report, page, files, written, asked, late, twice, sameName >>
        BY <1>4 DEF ItemsSent
    <2>6. expCall' = [expCall EXCEPT ![c] = s]
        BY <2>1
    <2> HIDE DEF s
    <2>7. QED BY <1>1, <2>3, <2>4, <2>5, <2>6, QuietCall
<1>5. CASE TabActs(c)
    <2>1. PICK n \in 0..MaxItems :
             expCall' = [expCall EXCEPT ![c] = [expCall[c] EXCEPT !.at = "submit", !.submit = TRUE, !.items = n, !.saw = "none"]]
        <3>1. CASE expCall' = [expCall EXCEPT ![c].at = "submit", ![c].submit = TRUE, ![c].saw = "none"]
            <4>1. expCall[c].items \in 0..MaxItems
                BY <1>0 DEF ExpenseCall
            <4>2. [expCall[c] EXCEPT !.at = "submit", !.submit = TRUE, !.items = expCall[c].items, !.saw = "none"] =
                  [expCall[c] EXCEPT !.at = "submit", !.submit = TRUE, !.saw = "none"]
                <5>1. ASSUME NEW s \in ExpenseCall
                      PROVE  [s EXCEPT !.at = "submit", !.submit = TRUE, !.items = s.items, !.saw = "none"] =
                             [s EXCEPT !.at = "submit", !.submit = TRUE, !.saw = "none"]
                    BY <5>1 DEF ExpenseCall
                <5>2. QED BY <1>0, <5>1
            <4>3. expCall' = [expCall EXCEPT ![c] = [expCall[c] EXCEPT !.at = "submit", !.submit = TRUE, !.saw = "none"]]
                BY <3>1
            <4>4. QED BY <4>1, <4>2, <4>3
        <3>2. ASSUME NEW n \in 2..MaxItems,
                     expCall' = [expCall EXCEPT ![c].at = "submit", ![c].submit = TRUE, ![c].items = n, ![c].saw = "none"]
              PROVE  n \in 0..MaxItems /\
                     expCall' = [expCall EXCEPT ![c] = [expCall[c] EXCEPT !.at = "submit", !.submit = TRUE, !.items = n, !.saw = "none"]]
            <4>1. n \in 0..MaxItems
                OBVIOUS
            <4>2. expCall' = [expCall EXCEPT ![c] = [expCall[c] EXCEPT !.at = "submit", !.submit = TRUE, !.items = n, !.saw = "none"]]
                BY <3>2
            <4>3. QED BY <4>1, <4>2
        <3>3. QED BY <1>5, <3>1, <3>2 DEF TabActs
    <2> DEFINE s == [expCall[c] EXCEPT !.at = "submit", !.submit = TRUE, !.items = n, !.saw = "none"]
    <2>2. expCall[c].at = "shown" /\ UNCHANGED << inst, report, page, files, written, asked, late, twice, sameName >>
        BY <1>5 DEF TabActs
    <2>3. expCall[c].r \in Reports
        <3>1. expCall[c].at \notin {"idle", "find"}
            BY <2>2
        <3>2. QED BY <1>0, <3>1 DEF CallFits
    <2>4. s \in ExpenseCall /\ s.at = "submit" /\ s.r \in Reports
        <3>1. ASSUME NEW x \in ExpenseCall, NEW y, y = [x EXCEPT !.at = "submit", !.submit = TRUE, !.items = n, !.saw = "none"]
              PROVE  y \in ExpenseCall /\ y.at = "submit" /\ y.r = x.r
            BY <3>1 DEF ExpenseCall, Steps, Statuses
        <3>2. QED BY <1>0, <2>3, <3>1
    <2>5. CallFits(s)
        BY <2>4 DEF CallFits
    <2>6. expCall' = [expCall EXCEPT ![c] = s]
        BY <2>1
    <2> HIDE DEF s
    <2>7. QED BY <1>1, <2>2, <2>4, <2>5, <2>6, QuietCall
<1>6. QED BY <1>2, <1>3, <1>4, <1>5

\* A new report, and the request that goes on with it.
LEMMA FormSendsKeeps == ASSUME ExpenseInv, NEW c \in Calls, FormSends(c) PROVE ExpenseInv'
<1> USE DEF ExpenseInv
<1>1. PICK r \in Reports, next \in {"attach", "submit", "idle"} :
         /\ report[r].status = "none"
         /\ report' = [report EXCEPT ![r].status = "DRAFT", ![r].items = 1]
         /\ expCall' = [expCall EXCEPT ![c] =
               IF next = "idle" THEN Idle ELSE [Idle EXCEPT !.at = next, !.by = "form", !.r = r, !.submit = TRUE]]
    BY DEF FormSends
<1> DEFINE s == IF next = "idle" THEN Idle ELSE [Idle EXCEPT !.at = next, !.by = "form", !.r = r, !.submit = TRUE]
           row == [report[r] EXCEPT !.status = "DRAFT", !.items = 1]
<1>2. s \in ExpenseCall /\ s.at = next /\ (next # "idle" => s.r \in Reports) /\ (next = "idle" => s = Idle)
    <2>1. CASE next = "idle"
        BY <2>1, IdleFits
    <2>2. CASE next # "idle"
        BY <2>2, IdleFits DEF ExpenseCall, Steps
    <2>3. QED BY <2>1, <2>2
<1>3. expCall' = [expCall EXCEPT ![c] = s]
    BY <1>1
<1> HIDE DEF s
<1>4. CallFits(s)
    BY <1>2 DEF CallFits
<1>5. report[r] \in ReportRow /\ report[r].wf = 0
    <2>1. report \in [Reports -> ReportRow] /\ (report[r].wf = 0 <=> report[r].status \in {"none", "DRAFT"})
        BY DEF ExpenseRows
    <2>2. QED BY <1>1, <2>1
<1>6. row \in ReportRow /\ row.status = "DRAFT" /\ row.wf = 0 /\ row.receipt = report[r].receipt
    <2>1. 1 \in 0..MaxItems
        BY ExpenseAssumptions
    <2>2. QED BY <1>5, <2>1 DEF ReportRow, Statuses
<1>7. report' = [report EXCEPT ![r] = row]
    BY <1>1 DEF ExpenseRows
<1> HIDE DEF row
<1>8. report' \in [Reports -> ReportRow] /\ report'[r] = row /\ \A q \in Reports : q # r => report'[q] = report[q]
    BY <1>6, <1>7 DEF ExpenseRows
<1>9. /\ expCall[c].at = "idle" /\ UNCHANGED << inst, page, files, written, asked, late, twice, sameName >>
    BY DEF FormSends
<1>10. ExpenseRows'
    <2>1. InstInv'
        BY <1>9 DEF ExpenseRows, InstInv
    <2>2. expCall' \in [Calls -> ExpenseCall] /\ \A d \in Calls : CallFits(expCall'[d])
        BY <1>2, <1>3, <1>4, CallChanges
    <2>3. QED BY <1>6, <1>8, <1>9, <2>1, <2>2 DEF ExpenseRows, FilesNamed
<1>11. (ReviewsInv /\ OwnersInv /\ WaitsInv)'
    <2>1. \A q \in Reports : /\ report'[q].wf = report[q].wf
                             /\ \/ report'[q].status = report[q].status
                                \/ {report[q].status, report'[q].status} \subseteq {"none", "DRAFT"}
        BY <1>1, <1>5, <1>6, <1>8
    <2>2. s.at \notin {"find", "sync", "cancel"} /\ ~(s.at = "write" /\ s.submit)
        BY <1>2
    <2>3. QED BY <1>2, <1>3, <1>9, <2>1, <2>2, QuietReviews
<1>12. ItemsInv'
    <2>1. \A q \in Reports :
              /\ report[q].status \in Editable => report'[q].status \in Editable
              /\ report'[q].status \notin Editable =>
                    report[q].status \notin Editable /\ report'[q].items = report[q].items
        BY <1>1, <1>6, <1>8 DEF Editable
    <2>2. s.at \notin {"start", "write"}
        BY <1>2
    <2>3. QED BY <1>2, <1>3, <1>9, <2>1, <2>2, QuietItems
<1>13. ReceiptsInv'
    <2>1. \A q \in Reports : report'[q].receipt = report[q].receipt
        BY <1>6, <1>8
    <2>2. s.at \notin {"record", "unlink"}
        BY <1>2
    <2>3. QED BY <1>2, <1>3, <1>9, <2>1, <2>2, QuietReceipts
<1>14. QED BY <1>10, <1>11, <1>12, <1>13

\* The upload is refused: the form remembers it.
LEMMA UploadFailsKeeps ==
    ASSUME ExpenseInv, NEW c \in Calls, UploadFails(c), expCall[c].at \in {"attach", "record"},
           UNCHANGED << inst, report, written, asked, late, twice, sameName >>, files' = files
    PROVE  ExpenseInv'
<1> USE DEF ExpenseInv
<1>1. expCall[c] \in ExpenseCall /\ expCall[c].r \in Reports /\ page \in FormPage /\ (page.failed => page.pending \in Reports)
    BY DEF ExpenseRows, CallFits
<1>2. page' \in FormPage /\ (page'.failed => page'.pending \in Reports)
    BY <1>1 DEF UploadFails, FormPage
<1>3. QED BY <1>2, CallEnds DEF UploadFails

\* What an upload does to its own request.
StoreAt(x, a, f, o) == [x EXCEPT !.at = a, !.file = f, !.old = o]

LEMMA StoreCall ==
    ASSUME NEW x \in ExpenseCall, x.r \in Reports, NEW a \in {"record", "unlink", "submit"},
           NEW f \in 0..MaxFiles, NEW o \in 0..MaxFiles, a = "unlink" => o # 0
    PROVE  LET s == StoreAt(x, a, f, o)
           IN  s \in ExpenseCall /\ s.at = a /\ s.r = x.r /\ s.file = f /\ s.old = o /\ CallFits(s)
<1> DEFINE s == StoreAt(x, a, f, o)
<1>1. s \in ExpenseCall /\ s.at = a /\ s.r = x.r /\ s.file = f /\ s.old = o
    BY DEF ExpenseCall, Steps, StoreAt
<1> HIDE DEF s
<1>2. CallFits(s)
    BY <1>1 DEF CallFits
<1>3. QED BY <1>1, <1>2 DEF s

\* An upload changes the receipts, and nothing a review or a PATCH depends on.
LEMMA StoreKeeps ==
    ASSUME ExpenseInv, NEW c \in Calls, NEW s \in ExpenseCall, CallFits(s), expCall' = [expCall EXCEPT ![c] = s],
           s.at \in {"idle", "record", "unlink", "submit"}, expCall[c].at \in {"attach", "record", "unlink"},
           UNCHANGED << inst, asked, late, twice >>, page' \in FormPage, page'.failed => page'.pending \in Reports,
           sameName' \subseteq Reports, report' \in [Reports -> ReportRow],
           \A q \in Reports : /\ report'[q].wf = report[q].wf /\ report'[q].status = report[q].status
                              /\ report'[q].items = report[q].items,
           written' \in 0..MaxFiles, FilesNamed', ReceiptsInv'
    PROVE  ExpenseInv'
<1> USE DEF ExpenseInv
<1>1. ExpenseRows'
    <2>1. InstInv'
        BY DEF ExpenseRows, InstInv
    <2>2. QED BY <2>1, CallChanges DEF ExpenseRows
<1>2. (ReviewsInv /\ OwnersInv /\ WaitsInv)'
    BY QuietReviews
<1>3. ItemsInv'
    BY QuietItems
<1>4. QED BY <1>1, <1>2, <1>3

LEMMA UploadBeginsKeeps == ASSUME ExpenseInv, NEW c \in Calls, UploadBegins(c) PROVE ExpenseInv'
<1> USE DEF ExpenseInv
<1>1. expCall[c].at = "attach" /\ UNCHANGED << inst, report, asked, late, twice >>
    BY DEF UploadBegins
<1>2. CASE report[expCall[c].r].status \notin Editable
    BY <1>1, <1>2, UploadFailsKeeps DEF UploadBegins
<1>3. CASE report[expCall[c].r].status \in Editable
    <2>1. PICK x \in ExpenseCall : x = expCall[c]
        BY DEF ExpenseRows
    <2>2. PICK r \in Reports : r = x.r
        BY <1>1, <2>1 DEF ExpenseRows, CallFits
    <2>3. PICK o \in 0..MaxFiles : o = report[r].receipt
        BY DEF ExpenseRows, ReportRow
    <2>4. PICK now \in {written, written + 1} \cap 1..MaxFiles :
             /\ written' = now /\ files' = files \cup {<< r, now >>} /\ page' = page
             /\ sameName' = IF Names(r, now) THEN sameName \cup {r} ELSE sameName
             /\ expCall' = [expCall EXCEPT ![c].at = "record", ![c].file = now, ![c].old = report[r].receipt]
        BY <1>3, <2>1, <2>2 DEF UploadBegins
    <2>5. /\ written \in Nat /\ now \in Nat /\ now # 0 /\ now \in 0..MaxFiles /\ written <= now
          /\ \A n \in 1..written : n \in 1..now
        BY <2>4, ExpenseAssumptions DEF ExpenseRows
    <2> DEFINE s == StoreAt(x, "record", now, o)
    <2>6. s \in ExpenseCall /\ s.at = "record" /\ s.r = r /\ s.file = now /\ s.old = o /\ CallFits(s)
        BY <2>2, <2>5, StoreCall
    <2>7. expCall' = [expCall EXCEPT ![c] = s]
        BY <2>1, <2>3, <2>4 DEF StoreAt
    <2> HIDE DEF s
    <2>8. expCall'[c] = s /\ \A d \in Calls : d # c => expCall'[d] = expCall[d]
        BY <2>6, <2>7, CallChanges
    <2>9. \A d \in Calls : expCall[d].file \in Nat /\ expCall[d].old \in Nat
        <3>1. \A d \in Calls : expCall[d].file \in 0..MaxFiles /\ expCall[d].old \in 0..MaxFiles
            BY DEF ExpenseRows, ExpenseCall
        <3>2. QED BY <3>1, ExpenseAssumptions
    <2>10. \A q \in Reports : report[q].receipt \in Nat
        BY ExpenseAssumptions DEF ExpenseRows, ReportRow
    <2>11. \A d \in Calls : Stores(d)' => d = c \/ (d # c /\ Stores(d) /\ expCall'[d] = expCall[d])
        BY <2>8 DEF Stores
    <2>12. \A d \in Calls : Stores(d)' => expCall'[d].file <= written'
        <3>1. \A d \in Calls : Stores(d) => expCall[d].file <= written
            BY DEF ReceiptsInv
        <3>2. ASSUME NEW d \in Calls, Stores(d)' PROVE expCall'[d].file <= now
            <4>1. CASE d = c
                BY <4>1, <2>5, <2>6, <2>8
            <4>2. CASE d # c
                <5>1. Stores(d) /\ expCall'[d].file = expCall[d].file /\ expCall[d].file <= written
                    BY <4>2, <3>1, <3>2, <2>11
                <5>2. QED BY <5>1, <2>5, <2>9
            <4>3. QED BY <4>1, <4>2
        <3>3. QED BY <3>2, <2>4
    <2>13. \A q \in Reports : report'[q].receipt <= written'
        <3>1. \A q \in Reports : report[q].receipt <= written
            BY DEF ReceiptsInv
        <3>2. QED BY <1>1, <3>1, <2>4, <2>5, <2>10
    <2>14. ASSUME NEW q \in Reports \ sameName' PROVE StoreInv(q)'
        <3>1. q \notin sameName /\ StoreInv(q)
            BY <2>4 DEF ReceiptsInv
        <3>2. CASE q # r
            <4>1. \A d \in Calls : StoresFor(d, q)' => StoresFor(d, q) /\ expCall'[d] = expCall[d]
                BY <3>2, <2>6, <2>8, <2>11 DEF StoresFor
            <4>2. report'[q].receipt = report[q].receipt /\ \A n : << q, n >> \in files => << q, n >> \in files'
                BY <1>1, <2>4
            <4>3. QED BY <3>1, <4>1, <4>2 DEF StoreInv
        <3>3. CASE q = r
            <4>1. ~Names(r, now)
                BY <3>3, <2>4
            <4>2. o # now /\ o <= written /\ o < now
                <5>1. report[r].receipt <= written
                    BY DEF ReceiptsInv
                <5>2. QED BY <4>1, <5>1, <2>3, <2>5 DEF Names
            <4>3. ASSUME NEW d \in Calls, StoresFor(d, r)', d # c
                  PROVE  /\ StoresFor(d, r) /\ expCall'[d] = expCall[d]
                         /\ expCall[d].file # now /\ expCall[d].old # now
                <5>1. StoresFor(d, r) /\ expCall'[d] = expCall[d] /\ Stores(d)
                    BY <4>3, <2>8 DEF StoresFor, Stores
                <5>2. expCall[d].file # now
                    BY <4>1, <5>1 DEF Names, StoresFor
                <5>3. expCall[d].old < expCall[d].file /\ expCall[d].file <= written
                    BY <3>1, <3>3, <5>1 DEF StoreInv, ReceiptsInv
                <5>4. expCall[d].old # now
                    BY <5>3, <2>5, <2>9
                <5>5. QED BY <5>1, <5>2, <5>4
            <4>4. StoreInv(r)
                BY <3>1, <3>3
            <4>5. report'[r].receipt = o
                BY <1>1, <2>3
            <4>6. o # 0 => << r, o >> \in files'
                BY <4>4, <2>3, <2>4 DEF StoreInv
            <4>7. ASSUME NEW d \in Calls, StoresFor(d, r)'
                  PROVE  expCall'[d].old < expCall'[d].file /\ (expCall'[d].at = "unlink" => o # expCall'[d].old)
                BY <4>2, <4>3, <4>4, <4>7, <2>3, <2>6, <2>8 DEF StoreInv
            <4>8. ASSUME NEW d \in Calls, StoresFor(d, r)', expCall'[d].at = "record"
                  PROVE  /\ << r, expCall'[d].file >> \in files'
                         /\ o # expCall'[d].file
                         /\ \A e \in Calls : StoresFor(e, r)' =>
                               /\ expCall'[e].at = "record" /\ expCall'[e].file = expCall'[d].file => e = d
                               /\ expCall'[e].old # expCall'[d].file
                <5>1. CASE d = c
                    <6>1. expCall'[d].file = now /\ << r, now >> \in files' /\ o # now
                        BY <5>1, <4>2, <2>4, <2>6, <2>8
                    <6>2. ASSUME NEW e \in Calls, StoresFor(e, r)'
                          PROVE  (expCall'[e].file = now => e = c) /\ expCall'[e].old # now
                        BY <6>2, <4>2, <4>3, <2>6, <2>8
                    <6>3. QED BY <5>1, <6>1, <6>2
                <5>2. CASE d # c
                    <6>1. StoresFor(d, r) /\ expCall'[d] = expCall[d] /\ expCall[d].at = "record" /\ expCall[d].file # now
                        BY <5>2, <4>3, <4>8
                    <6>2. << r, expCall[d].file >> \in files' /\ o # expCall[d].file
                        BY <6>1, <4>4, <2>3, <2>4 DEF StoreInv
                    <6>3. ASSUME NEW e \in Calls, StoresFor(e, r)'
                          PROVE  /\ expCall'[e].at = "record" /\ expCall'[e].file = expCall[d].file => e = d
                                 /\ expCall'[e].old # expCall[d].file
                        <7>1. CASE e = c
                            BY <7>1, <6>1, <6>2, <2>6, <2>8
                        <7>2. CASE e # c
                            BY <7>2, <6>1, <6>3, <4>3, <4>4 DEF StoreInv
                        <7>3. QED BY <7>1, <7>2
                    <6>4. QED BY <6>1, <6>2, <6>3
                <5>3. QED BY <5>1, <5>2
            <4>9. QED BY <3>3, <4>5, <4>6, <4>7, <4>8 DEF StoreInv
        <3>4. QED BY <3>2, <3>3
    <2>15. ReceiptsInv'
        BY <2>12, <2>13, <2>14 DEF ReceiptsInv
    <2>16. written' \in 0..MaxFiles /\ FilesNamed'
        <3>1. ASSUME NEW f \in files' PROVE \E q \in Reports, n \in 1..now : f = << q, n >>
            <4>1. CASE f = << r, now >>
                <5>1. now \in 1..now
                    BY <2>5
                <5>2. QED BY <4>1, <5>1
            <4>2. CASE f \in files
                <5>1. PICK q \in Reports, n \in 1..written : f = << q, n >>
                    BY <4>2 DEF ExpenseRows, FilesNamed
                <5>2. n \in 1..now
                    BY <2>5
                <5>3. QED BY <5>1, <5>2
            <4>3. QED BY <3>1, <4>1, <4>2, <2>4
        <3>2. QED BY <3>1, <2>4, <2>5 DEF FilesNamed
    <2>17. page' \in FormPage /\ (page'.failed => page'.pending \in Reports)
        BY <2>4 DEF ExpenseRows
    <2>18. report' \in [Reports -> ReportRow]
        BY <1>1 DEF ExpenseRows
    <2>19. sameName' \subseteq Reports
        BY <2>4 DEF ExpenseRows
    <2>20. QED BY <1>1, <2>4, <2>6, <2>7, <2>15, <2>16, <2>17, <2>18, <2>19, StoreKeeps
<1>4. QED BY <1>2, <1>3

\* A request that had a file to store has stored it, or has taken one away: which receipts there are and who points
\* at them.
LEMMA StoredReceipts ==
    ASSUME ExpenseRows, ReceiptsInv, NEW c \in Calls, NEW s \in ExpenseCall, expCall' = [expCall EXCEPT ![c] = s],
           NEW r \in Reports, Stores(c), r = expCall[c].r, s.at \in {"idle", "unlink", "submit"},
           s.at = "unlink" => /\ expCall[c].at = "record"
                              /\ s.old = expCall[c].old /\ s.file = expCall[c].file /\ s.r = r,
           \/ /\ expCall[c].at = "record" /\ files' = files
              /\ report' = [report EXCEPT ![r].receipt = expCall[c].file]
           \/ /\ expCall[c].at = "record" /\ s.at = "idle" /\ files' = files \ {<< r, expCall[c].file >>} /\ report' = report
           \/ /\ expCall[c].at = "unlink" /\ expCall[c].old # 0 /\ files' = files \ {<< r, expCall[c].old >>}
              /\ report' = report,
           UNCHANGED << written, sameName >>
    PROVE  ReceiptsInv'
<1>1. expCall'[c] = s /\ \A d \in Calls : d # c => expCall'[d] = expCall[d]
    BY CallChanges
<1>2. PICK x \in ExpenseCall : x = expCall[c]
    BY DEF ExpenseRows
<1>3. \A d \in Calls : expCall'[d].at = "record" => d # c /\ expCall'[d] = expCall[d]
    BY <1>1
<1>4. ASSUME NEW d \in Calls, Stores(d)'
      PROVE  /\ Stores(d) /\ expCall'[d].old = expCall[d].old /\ expCall'[d].file = expCall[d].file
             /\ expCall'[d].r = expCall[d].r
             /\ d = c => s.at = "unlink" /\ x.at = "record"
             /\ d # c => expCall'[d] = expCall[d]
    BY <1>1, <1>2, <1>4 DEF Stores
<1>5. \A d \in Calls : Stores(d)' => expCall'[d].file <= written'
    BY <1>4 DEF ReceiptsInv
<1>6. \A d \in Calls : \A q : StoresFor(d, q)' => StoresFor(d, q)
    BY <1>4 DEF StoresFor
<1>7. StoresFor(c, r)
    BY DEF StoresFor
<1>8. \A q \in Reports : report'[q].receipt = report[q].receipt \/ (q = r /\ x.at = "record" /\ report'[q].receipt = x.file)
    BY <1>2 DEF ExpenseRows, ReportRow
<1>9. \A q \in Reports : report'[q].receipt <= written'
    BY <1>2, <1>8 DEF ReceiptsInv
<1>10. ASSUME NEW q \in Reports \ sameName, q # r PROVE StoreInv(q)'
    <2>1. StoreInv(q) /\ report'[q] = report[q]
        BY <1>10 DEF ReceiptsInv, ExpenseRows
    <2>2. \A d \in Calls : StoresFor(d, q)' => StoresFor(d, q) /\ expCall'[d] = expCall[d]
        BY <1>4, <1>6, <1>7, <1>10 DEF StoresFor
    <2>3. \A n : << q, n >> \in files => << q, n >> \in files'
        BY <1>10
    <2>4. QED BY <2>1, <2>2, <2>3 DEF StoreInv
<1>11. ASSUME r \notin sameName PROVE StoreInv(r)'
    <2>1. StoreInv(r)
        BY <1>11 DEF ReceiptsInv
    <2>2. ASSUME NEW d \in Calls, StoresFor(d, r)' PROVE expCall'[d].old < expCall'[d].file
        BY <1>4, <1>6, <2>1, <2>2 DEF StoreInv, StoresFor
    <2>3. ASSUME NEW d \in Calls, StoresFor(d, r)', expCall'[d].at = "record",
                 NEW e \in Calls, StoresFor(e, r)'
          PROVE  /\ StoresFor(d, r) /\ d # c /\ expCall'[d] = expCall[d] /\ expCall[d].at = "record"
                 /\ expCall'[e].at = "record" /\ expCall'[e].file = expCall'[d].file => e = d
                 /\ expCall'[e].old # expCall'[d].file
        <3>1. StoresFor(d, r) /\ StoresFor(e, r) /\ d # c /\ expCall'[d] = expCall[d] /\ expCall[d].at = "record"
            BY <2>3, <1>3, <1>6
        <3>2. expCall'[e].old = expCall[e].old /\ expCall'[e].file = expCall[e].file
            BY <2>3, <1>4 DEF StoresFor
        <3>3. expCall'[e].at = "record" => expCall[e].at = "record"
            BY <1>3
        <3>4. QED BY <3>1, <3>2, <3>3, <2>1 DEF StoreInv
    <2>4. CASE files' = files /\ x.at = "record" /\ report' = [report EXCEPT ![r].receipt = x.file]
        <3>1. report'[r].receipt = x.file
            BY <2>4 DEF ExpenseRows, ReportRow
        <3>2. << r, x.file >> \in files
            BY <2>1, <2>4, <1>2, <1>7 DEF StoreInv
        <3>3. ASSUME NEW d \in Calls, StoresFor(d, r)' PROVE expCall'[d].old # x.file
            <4>1. StoresFor(d, r) /\ expCall'[d].old = expCall[d].old
                BY <3>3, <1>4, <1>6 DEF StoresFor
            <4>2. expCall[c].at = "record" /\ expCall[c].file = x.file
                BY <2>4, <1>2
            <4>3. QED BY <4>1, <4>2, <2>1, <1>7 DEF StoreInv
        <3>4. ASSUME NEW d \in Calls, StoresFor(d, r)', expCall'[d].at = "record"
              PROVE  << r, expCall'[d].file >> \in files' /\ x.file # expCall'[d].file
            <4>1. StoresFor(d, r) /\ d # c /\ expCall'[d] = expCall[d] /\ expCall[d].at = "record"
                BY <3>4, <2>3
            <4>2. expCall[c].at = "record" /\ expCall[c].file = x.file
                BY <2>4, <1>2
            <4>3. QED BY <4>1, <4>2, <2>1, <2>4, <1>7 DEF StoreInv
        <3>5. QED BY <3>1, <3>2, <3>3, <3>4, <2>2, <2>3, <2>4 DEF StoreInv
    <2>5. ASSUME NEW f, files' = files \ {<< r, f >>}, report' = report, report[r].receipt # f, s.at # "unlink",
                 \A d \in Calls : StoresFor(d, r) /\ expCall[d].at = "record" /\ d # c => expCall[d].file # f
          PROVE  StoreInv(r)'
        <3>1. \A n : n # f /\ << r, n >> \in files => << r, n >> \in files'
            BY <2>5
        <3>2. \A d \in Calls : StoresFor(d, r)' => StoresFor(d, r) /\ expCall'[d] = expCall[d]
            BY <2>5, <1>4, <1>6 DEF StoresFor
        <3>3. \A d \in Calls : StoresFor(d, r)' /\ expCall'[d].at = "record" => << r, expCall'[d].file >> \in files'
            BY <2>1, <2>3, <2>5, <3>1 DEF StoreInv
        <3>4. report'[r].receipt # 0 => << r, report'[r].receipt >> \in files'
            BY <2>1, <2>5, <3>1 DEF StoreInv
        <3>5. QED BY <2>1, <2>2, <2>3, <2>5, <3>2, <3>3, <3>4 DEF StoreInv
    <2>6. CASE x.at = "record" /\ s.at = "idle" /\ files' = files \ {<< r, x.file >>} /\ report' = report
        <3>1. /\ report[r].receipt # x.file
              /\ \A d \in Calls : StoresFor(d, r) /\ expCall[d].at = "record" /\ d # c => expCall[d].file # x.file
            BY <2>1, <2>6, <1>2, <1>7 DEF StoreInv
        <3>2. QED BY <2>5, <2>6, <3>1
    <2>7. CASE x.at = "unlink" /\ x.old # 0 /\ files' = files \ {<< r, x.old >>} /\ report' = report
        <3>1. /\ report[r].receipt # x.old
              /\ \A d \in Calls : StoresFor(d, r) /\ expCall[d].at = "record" => expCall[d].file # x.old
            BY <2>1, <2>7, <1>2, <1>7 DEF StoreInv
        <3>2. s.at # "unlink"
            BY <2>7, <1>2
        <3>3. QED BY <2>5, <2>7, <3>1, <3>2
    <2>8. QED BY <1>2, <2>4, <2>6, <2>7
<1>12. QED BY <1>5, <1>9, <1>10, <1>11 DEF ReceiptsInv

LEMMA UploadRecordsKeeps == ASSUME ExpenseInv, NEW c \in Calls, UploadRecords(c) PROVE ExpenseInv'
<1> USE DEF ExpenseInv
<1>1. expCall[c].at = "record" /\ Stores(c) /\ UNCHANGED << inst, written, asked, late, twice, sameName >>
    BY DEF UploadRecords, Stores
<1>2. PICK x \in ExpenseCall : x = expCall[c]
    BY DEF ExpenseRows
<1>3. x.r \in Reports /\ x.file \in 0..MaxFiles /\ x.old \in 0..MaxFiles /\ x.at = "record"
    BY <1>1, <1>2 DEF ExpenseRows, CallFits, ExpenseCall
<1>4. files' \subseteq files => written' \in 0..MaxFiles /\ FilesNamed'
    BY <1>1 DEF ExpenseRows, FilesNamed
<1>5. page \in FormPage /\ (page.failed => page.pending \in Reports) /\ sameName' \subseteq Reports
    BY <1>1 DEF ExpenseRows
<1>6. CASE /\ report' = [report EXCEPT ![expCall[c].r].receipt = expCall[c].file]
           /\ IF expCall[c].old # 0 THEN Goes(c, "unlink") /\ UNCHANGED page ELSE Uploaded(c)
           /\ UNCHANGED files
    <2>1. /\ report' \in [Reports -> ReportRow]
          /\ \A q \in Reports : /\ report'[q].wf = report[q].wf /\ report'[q].status = report[q].status
                                /\ report'[q].items = report[q].items
        BY <1>2, <1>3, <1>6 DEF ExpenseRows, ReportRow
    <2>2. CASE x.old # 0
        <3> DEFINE s == StoreAt(x, "unlink", x.file, x.old)
        <3>1. s \in ExpenseCall /\ s.at = "unlink" /\ s.r = x.r /\ s.old = x.old /\ s.file = x.file /\ CallFits(s)
            BY <1>3, <2>2, StoreCall
        <3>2. s = [x EXCEPT !.at = "unlink"]
            BY DEF ExpenseCall, StoreAt
        <3>3. expCall' = [expCall EXCEPT ![c] = s] /\ page' = page
            <4>1. expCall' = [expCall EXCEPT ![c] = [x EXCEPT !.at = "unlink"]] /\ page' = page
                BY <1>2, <1>6, <2>2 DEF Goes
            <4>2. QED BY <4>1, <3>2
        <3> HIDE DEF s
        <3>4. ReceiptsInv'
            BY <1>1, <1>2, <1>3, <1>6, <3>1, <3>3, StoredReceipts
        <3>5. QED BY <1>1, <1>4, <1>5, <1>6, <2>1, <3>1, <3>3, <3>4, StoreKeeps
    <2>3. CASE x.old = 0
        <3> DEFINE s == StoreAt(x, "submit", 0, 0)
        <3>1. s \in ExpenseCall /\ s.at = "submit" /\ s.r = x.r /\ CallFits(s)
            BY <1>3, ExpenseAssumptions, StoreCall
        <3>2. expCall' = [expCall EXCEPT ![c] = s] /\ page' \in FormPage /\ (page'.failed => page'.pending \in Reports)
            BY <1>2, <1>5, <1>6, <2>3 DEF Uploaded, FormPage, StoreAt
        <3> HIDE DEF s
        <3>3. ReceiptsInv'
            BY <1>1, <1>2, <1>3, <1>6, <3>1, <3>2, StoredReceipts
        <3>4. QED BY <1>1, <1>4, <1>5, <1>6, <2>1, <3>1, <3>2, <3>3, StoreKeeps
    <2>4. QED BY <2>2, <2>3
<1>7. CASE files' = files \ {<< expCall[c].r, expCall[c].file >>} /\ UploadFails(c) /\ UNCHANGED report
    <2>1. Idle \in ExpenseCall /\ CallFits(Idle) /\ Idle.at = "idle" /\ expCall' = [expCall EXCEPT ![c] = Idle]
        BY <1>7, IdleFits DEF UploadFails, Ends
    <2>2. page' \in FormPage /\ (page'.failed => page'.pending \in Reports)
        BY <1>2, <1>3, <1>5, <1>7 DEF UploadFails, FormPage
    <2>3. ReceiptsInv'
        BY <1>1, <1>2, <1>3, <1>7, <2>1, StoredReceipts
    <2>4. report' \in [Reports -> ReportRow] /\ files' \subseteq files
        BY <1>7 DEF ExpenseRows
    <2>5. QED BY <1>1, <1>4, <1>5, <1>7, <2>1, <2>2, <2>3, <2>4, StoreKeeps
<1>8. QED BY <1>6, <1>7 DEF UploadRecords

LEMMA UploadUnlinksKeeps == ASSUME ExpenseInv, NEW c \in Calls, UploadUnlinks(c) PROVE ExpenseInv'
<1> USE DEF ExpenseInv
<1>1. expCall[c].at = "unlink" /\ Stores(c) /\ UNCHANGED << inst, report, written, asked, late, twice, sameName >>
    BY DEF UploadUnlinks, Stores
<1>2. PICK x \in ExpenseCall : x = expCall[c]
    BY DEF ExpenseRows
<1>3. x.r \in Reports /\ x.old # 0
    BY <1>1, <1>2 DEF ExpenseRows, CallFits
<1> DEFINE s == StoreAt(x, "submit", 0, 0)
<1>4. s \in ExpenseCall /\ s.at = "submit" /\ s.r = x.r /\ CallFits(s)
    BY <1>3, ExpenseAssumptions, StoreCall
<1>5. files' = files \ {<< x.r, x.old >>} /\ expCall' = [expCall EXCEPT ![c] = s]
    BY <1>2 DEF UploadUnlinks, Uploaded, StoreAt
<1>6. page' \in FormPage /\ (page'.failed => page'.pending \in Reports)
    BY DEF UploadUnlinks, Uploaded, FormPage, ExpenseRows
<1> HIDE DEF s
<1>7. ReceiptsInv'
    BY <1>1, <1>2, <1>3, <1>4, <1>5, StoredReceipts
<1>8. /\ report' \in [Reports -> ReportRow] /\ written' \in 0..MaxFiles
      /\ FilesNamed' /\ sameName' \subseteq Reports
    BY <1>1, <1>5 DEF ExpenseRows, FilesNamed
<1>9. QED BY <1>1, <1>4, <1>5, <1>6, <1>7, <1>8, StoreKeeps

\* The check of a PATCH.
LEMMA PatchBeginsKeeps == ASSUME ExpenseInv, NEW c \in Calls, PatchBegins(c) PROVE ExpenseInv'
<1> USE DEF ExpenseInv
<1>1. expCall[c].at = "submit" /\ UNCHANGED << inst, report, files, written, asked, late, sameName >>
    BY DEF PatchBegins
<1>2. page \in FormPage /\ (page.failed => page.pending \in Reports)
    BY DEF ExpenseRows
<1>3. PICK x \in ExpenseCall : x = expCall[c]
    BY DEF ExpenseRows
<1>4. PICK r \in Reports : r = x.r
    BY <1>1, <1>3 DEF ExpenseRows, CallFits
<1>5. CASE report[r].status \notin Editable
    BY <1>1, <1>2, <1>3, <1>4, <1>5, CallEnds DEF PatchBegins, Answered
<1>6. CASE report[r].status \in Editable
    <2> DEFINE s == [x EXCEPT !.at = IF x.submit THEN "start" ELSE "write"]
    <2>1. s \in ExpenseCall /\ s.at = (IF x.submit THEN "start" ELSE "write") /\ s.r = r /\ s.submit = x.submit
        BY <1>4 DEF ExpenseCall, Steps
    <2>2. /\ expCall' = [expCall EXCEPT ![c] = s] /\ page' = page
          /\ twice' = IF \E d \in Calls \ {c} : Patching(d, r) THEN twice \cup {r} ELSE twice
        BY <1>3, <1>4, <1>6 DEF PatchBegins, Goes
    <2> HIDE DEF s
    <2>3. CallFits(s)
        BY <2>1 DEF CallFits
    <2>4. expCall'[c] = s /\ \A d \in Calls : d # c => expCall'[d] = expCall[d]
        BY <2>1, <2>2, CallChanges
    <2>5. ExpenseRows'
        <3>1. InstInv'
            BY <1>1 DEF ExpenseRows, InstInv
        <3>2. expCall' \in [Calls -> ExpenseCall] /\ \A d \in Calls : CallFits(expCall'[d])
            BY <2>1, <2>2, <2>3, CallChanges
        <3>3. twice' \subseteq Reports
            BY <2>2 DEF ExpenseRows
        <3>4. QED BY <1>1, <2>2, <3>1, <3>2, <3>3 DEF ExpenseRows, FilesNamed
    <2>6. (ReviewsInv /\ OwnersInv /\ WaitsInv)'
        BY <1>1, <2>1, <2>2, QuietReviews
    <2>7. ReceiptsInv'
        BY <1>1, <2>1, <2>2, QuietReceipts
    <2>8. ItemsInv'
        <3>1. \A d \in Calls, q \in Reports : Patching(d, q)' => (d = c /\ q = r) \/ (d # c /\ Patching(d, q))
            BY <2>1, <2>4 DEF Patching
        <3>2. \A q \in Reports \ twice' : q \in Reports \ twice
            BY <2>2
        <3>3. r \notin twice' => \A d \in Calls : Patching(d, r) => d = c
            BY <2>2
        <3>4. QED BY <1>1, <1>6, <3>1, <3>2, <3>3 DEF ItemsInv
    <2>9. QED BY <2>5, <2>6, <2>7, <2>8
<1>7. QED BY <1>5, <1>6

\* A PATCH starts an approval, and says so itself or is not told.
LEMMA StartedReviews ==
    ASSUME ExpenseRows, ReviewsInv, OwnersInv, WaitsInv, NEW c \in Calls, NEW s \in ExpenseCall,
           expCall' = [expCall EXCEPT ![c] = s], NEW i \in Instances, StartInstance(i),
           s.at \notin {"find", "sync", "cancel"}, s.at = "write" => s.i = i, expCall[c].at = "start",
           report' = report, late' = late
    PROVE  (ReviewsInv /\ OwnersInv /\ WaitsInv)'
<1>1. expCall'[c] = s /\ \A d \in Calls : d # c => expCall'[d] = expCall[d]
    BY CallChanges
<1>2. /\ inst[i].stage = "none" /\ inst[i].said = << >>
      /\ inst'[i].stage = "first" /\ inst'[i].said = << >>
      /\ \A j \in Instances : j # i => inst'[j] = inst[j]
    BY InstStarts DEF ExpenseRows
<1>3. \A r \in Reports : report[r].wf # i /\ (report[r].wf # 0 => inst'[report[r].wf] = inst[report[r].wf])
    <2>1. \A r \in Reports : report[r].wf \in Instances \cup {0}
        BY DEF ExpenseRows, ReportRow
    <2>2. i # 0
        BY InstancesAreNumbered
    <2>3. QED BY <1>2, <2>1, <2>2 DEF OwnersInv
<1>4. \A d \in Calls : ~Reviewing(d, i)
    BY <1>2 DEF ReviewsInv, Gave
<1>5. \A d \in Calls, j \in Instances :
         /\ Reviewing(d, j)' <=> Reviewing(d, j)
         /\ Reviewing(d, j) => d # c /\ j # i /\ expCall'[d] = expCall[d] /\ inst'[j] = inst[j]
    BY <1>1, <1>2, <1>4 DEF Reviewing
<1>6. \A d \in Calls : ~Started(d, i)
    BY <1>2 DEF OwnersInv
<1>7. \A d \in Calls, j \in Instances :
         Started(d, j)' => (d = c /\ j = i) \/ (d # c /\ j # i /\ Started(d, j) /\ expCall'[d] = expCall[d] /\ inst'[j] = inst[j])
    BY <1>1, <1>2, <1>6 DEF Started
<1>8. \A d \in Calls, r \in Reports :
         /\ Reviewing(d, report[r].wf)' <=> Reviewing(d, report[r].wf)
         /\ Reviewing(d, report[r].wf) => d # c /\ expCall'[d] = expCall[d]
    BY <1>1 DEF Reviewing
<1>9. ReviewsInv'
    <2>1. \A d \in Calls : expCall'[d].at = "sync" => d # c /\ expCall'[d] = expCall[d]
        BY <1>1
    <2>2. \A r \in Reports : StandsFor(r)'
        <3>1. \A r \in Reports : report[r].wf = 0 => report[r].status \in {"none", "DRAFT"}
            BY DEF ExpenseRows
        <3>2. QED BY <3>1, <1>3 DEF ReviewsInv, StandsFor, Said
    <2>3. \A d \in Calls, j \in Instances : Reviewing(d, j)' => Gave(inst'[j].said, expCall'[d].review, expCall'[d].verdict)
        BY <1>5 DEF ReviewsInv
    <2>4. \A d, e \in Calls, j \in Instances :
             Reviewing(d, j)' /\ Reviewing(e, j)' /\ expCall'[d].review = expCall'[e].review => d = e
        BY <1>5 DEF ReviewsInv
    <2>5. \A d \in Calls : expCall'[d].at = "sync" => report'[expCall'[d].r].wf = expCall'[d].i
        BY <2>1 DEF ReviewsInv
    <2>6. \A r \in Reports, d \in Calls : Reviewing(d, report[r].wf)' =>
             /\ report'[r].status = "APPROVED_MANAGER" => expCall'[d].review # "first"
             /\ report'[r].status \notin {"REJECTED", "REIMBURSED"}
        BY <1>8 DEF ReviewsInv
    <2>7. QED BY <2>2, <2>3, <2>4, <2>5, <2>6 DEF ReviewsInv
<1>10. OwnersInv'
    BY <1>2, <1>3, <1>7 DEF OwnersInv
<1>11. WaitsInv'
    <2>1. \A d \in Calls, j \in Instances \ late' : Started(d, j)' /\ expCall'[d].at = "write" =>
              inst'[j].stage = "first" /\ \A e \in Calls : ~Reviewing(e, j)'
        BY <1>2, <1>4, <1>5, <1>7 DEF WaitsInv
    <2>2. \A j \in Instances \ late', d, e \in Calls : Reviewing(d, j)' /\ Reviewing(e, j)' => d = e
        BY <1>5 DEF WaitsInv
    <2>3. ASSUME NEW r \in Reports, report'[r].wf \notin late' \cup {0}
          PROVE  /\ report'[r].status = "SUBMITTED" =>
                       /\ \A d \in Calls : Reviewing(d, report[r].wf)' =>
                             /\ expCall'[d].review = "first"
                             /\ expCall'[d].verdict = "approved" => inst'[report'[r].wf].stage = "second"
                       /\ (\A d \in Calls : ~Reviewing(d, report[r].wf)') => inst'[report'[r].wf].stage = "first"
                 /\ report'[r].status = "APPROVED_MANAGER" =>
                       /\ \A d \in Calls : Reviewing(d, report[r].wf)' => expCall'[d].review = "second"
                       /\ (\A d \in Calls : ~Reviewing(d, report[r].wf)') => inst'[report'[r].wf].stage = "second"
        BY <2>3, <1>3, <1>8 DEF WaitsInv
    <2>4. QED BY <2>1, <2>2, <2>3 DEF WaitsInv
<1>12. QED BY <1>9, <1>10, <1>11

LEMMA PatchStartsKeeps == ASSUME ExpenseInv, NEW c \in Calls, PatchStarts(c) PROVE ExpenseInv'
<1> USE DEF ExpenseInv
<1>1. expCall[c].at = "start" /\ UNCHANGED << report, files, written, asked, late, twice, sameName >>
    BY DEF PatchStarts
<1>2. page \in FormPage /\ (page.failed => page.pending \in Reports)
    BY DEF ExpenseRows
<1>3. PICK x \in ExpenseCall : x = expCall[c]
    BY DEF ExpenseRows
<1>4. x.r \in Reports /\ x.submit
    BY <1>1, <1>3 DEF ExpenseRows, CallFits
<1>5. ASSUME NEW i \in Instances, StartInstance(i), NEW s \in ExpenseCall, CallFits(s), s.at \in {"idle", "write"},
             s.at = "write" => s.i = i /\ s.r = x.r, expCall' = [expCall EXCEPT ![c] = s], page' = page
      PROVE  ExpenseInv'
    <2>1. ExpenseRows'
        <3>1. InstInv'
            BY <1>5, InstStarts DEF ExpenseRows
        <3>2. expCall' \in [Calls -> ExpenseCall] /\ \A d \in Calls : CallFits(expCall'[d])
            BY <1>5, CallChanges
        <3>3. QED BY <1>1, <1>5, <3>1, <3>2 DEF ExpenseRows, FilesNamed
    <2>2. (ReviewsInv /\ OwnersInv /\ WaitsInv)'
        BY <1>1, <1>5, StartedReviews
    <2>3. ReceiptsInv'
        BY <1>1, <1>5, QuietReceipts
    <2>4. ItemsInv'
        BY <1>1, <1>3, <1>5, QuietItems
    <2>5. QED BY <2>1, <2>2, <2>3, <2>4
<1>6. ASSUME NEW i \in Instances, StartInstance(i), page' = page, expCall' = [expCall EXCEPT ![c].at = "write", ![c].i = i]
      PROVE  ExpenseInv'
    <2> DEFINE s == [x EXCEPT !.at = "write", !.i = i]
    <2>1. s \in ExpenseCall /\ s.at = "write" /\ s.i = i /\ s.r = x.r
        BY DEF ExpenseCall, Steps
    <2>2. expCall' = [expCall EXCEPT ![c] = s]
        BY <1>3, <1>6
    <2> HIDE DEF s
    <2>3. CallFits(s)
        BY <1>4, <2>1 DEF CallFits
    <2>4. QED BY <1>5, <1>6, <2>1, <2>2, <2>3
<1>7. ASSUME NEW i \in Instances, StartInstance(i), Answered(c, FALSE) PROVE ExpenseInv'
    <2>1. expCall' = [expCall EXCEPT ![c] = Idle] /\ page' = page
        BY <1>7 DEF Answered, Ends
    <2>2. QED BY <1>5, <1>7, <2>1, IdleFits
<1>8. ASSUME Answered(c, FALSE), inst' = inst PROVE ExpenseInv'
    BY <1>1, <1>2, <1>8, CallEnds DEF Answered
<1>9. QED BY <1>6, <1>7, <1>8 DEF PatchStarts

\* A report is submitted: its approval was the request's own.
LEMMA SubmittedReviews ==
    ASSUME ExpenseRows, ReviewsInv, OwnersInv, WaitsInv, NEW c \in Calls, NEW r \in Reports, NEW i \in Instances,
           expCall' = [expCall EXCEPT ![c] = Idle], Started(c, i), expCall[c].at = "write",
           report[r].status \in Editable, report'[r].status = "SUBMITTED", report'[r].wf = i,
           \A q \in Reports : q # r => report'[q] = report[q], inst' = inst, late' = late
    PROVE  (ReviewsInv /\ OwnersInv /\ WaitsInv)'
<1>1. expCall'[c] = Idle /\ \A d \in Calls : d # c => expCall'[d] = expCall[d]
    BY CallChanges, IdleFits
<1>2. \A d \in Calls : \A j : Reviewing(d, j)' <=> Reviewing(d, j)
    BY <1>1, IdleFits DEF Reviewing
<1>3. \A d \in Calls : \A j : Reviewing(d, j) => d # c /\ expCall'[d] = expCall[d]
    BY <1>1 DEF Reviewing
<1>4. \A d \in Calls, j \in Instances : Started(d, j)' => d # c /\ j # i /\ Started(d, j) /\ expCall'[d] = expCall[d]
    BY <1>1, IdleFits DEF Started, OwnersInv
<1>5. \A q \in Reports : report[q].wf # i
    BY DEF OwnersInv
<1>6. i # 0
    BY InstancesAreNumbered
<1>7. \A d \in Calls : expCall[d].at = "sync" => expCall[d].r # r
    <2>1. ASSUME NEW d \in Calls, expCall[d].at = "sync", expCall[d].r = r PROVE FALSE
        <3>1. report[r].wf = expCall[d].i /\ expCall[d].i \in Instances
            BY <2>1 DEF ReviewsInv, ExpenseRows, CallFits
        <3>2. report[r].wf # 0
            BY <3>1, InstancesAreNumbered
        <3>3. report[r].status # "DRAFT"
            BY <3>2 DEF ExpenseRows
        <3>4. Reviewing(d, report[r].wf)
            BY <2>1, <3>1 DEF Reviewing
        <3>5. report[r].status # "REJECTED"
            BY <3>4 DEF ReviewsInv
        <3>6. QED BY <3>3, <3>5 DEF Editable
    <2>2. QED BY <2>1
<1>8. \A d \in Calls : expCall'[d].at = "sync" => d # c /\ expCall'[d] = expCall[d] /\ expCall[d].at = "sync"
    BY <1>1, IdleFits
<1>9. ReviewsInv'
    <2>1. \A d \in Calls, j \in Instances : Reviewing(d, j)' => Gave(inst'[j].said, expCall'[d].review, expCall'[d].verdict)
        BY <1>2, <1>3 DEF ReviewsInv
    <2>2. \A d, e \in Calls, j \in Instances :
             Reviewing(d, j)' /\ Reviewing(e, j)' /\ expCall'[d].review = expCall'[e].review => d = e
        BY <1>2, <1>3 DEF ReviewsInv
    <2>3. ASSUME NEW d \in Calls, expCall'[d].at = "sync" PROVE report'[expCall'[d].r].wf = expCall'[d].i
        <3>1. expCall'[d] = expCall[d] /\ expCall[d].at = "sync" /\ expCall[d].r # r
            BY <1>7, <1>8, <2>3
        <3>2. expCall[d].r \in Reports
            BY <3>1 DEF ExpenseRows, CallFits
        <3>3. report'[expCall[d].r] = report[expCall[d].r]
            BY <3>1, <3>2
        <3>4. QED BY <3>1, <3>3 DEF ReviewsInv
    <2>4. ASSUME NEW q \in Reports, NEW d \in Calls, NEW j, j = report'[q].wf, Reviewing(d, j)'
          PROVE  /\ report'[q].status = "APPROVED_MANAGER" => expCall'[d].review # "first"
                 /\ report'[q].status \notin {"REJECTED", "REIMBURSED"}
        <3>1. CASE q = r
            BY <3>1
        <3>2. CASE q # r
            BY <3>2, <2>4, <1>2, <1>3 DEF ReviewsInv
        <3>3. QED BY <3>1, <3>2
    <2>5. \A q \in Reports, d \in Calls : Reviewing(d, report[q].wf)' =>
              /\ report'[q].status = "APPROVED_MANAGER" => expCall'[d].review # "first"
              /\ report'[q].status \notin {"REJECTED", "REIMBURSED"}
        BY <2>4 DEF Reviewing
    <2>6. \A q \in Reports : StandsFor(q)'
        BY DEF ReviewsInv, StandsFor, Said
    <2>7. QED BY <2>1, <2>2, <2>3, <2>5, <2>6 DEF ReviewsInv
<1>10. OwnersInv'
    <2>1. \A q \in Reports : report'[q].wf # 0 => inst'[report'[q].wf].stage # "none"
        BY DEF OwnersInv
    <2>2. \A p, q \in Reports : report'[p].wf = report'[q].wf /\ report'[p].wf # 0 => p = q
        BY <1>5 DEF OwnersInv
    <2>3. \A d \in Calls, j \in Instances : Started(d, j)' =>
              /\ inst'[j].stage # "none" /\ \A q \in Reports : report'[q].wf # j
              /\ \A e \in Calls : Started(e, j)' => e = d
        BY <1>4 DEF OwnersInv
    <2>4. QED BY <2>1, <2>2, <2>3 DEF OwnersInv
<1>11. WaitsInv'
    <2>1. \A d \in Calls, j \in Instances \ late' : Started(d, j)' /\ expCall'[d].at = "write" =>
              inst'[j].stage = "first" /\ \A e \in Calls : ~Reviewing(e, j)'
        BY <1>2, <1>4 DEF WaitsInv
    <2>2. \A j \in Instances \ late', d, e \in Calls : Reviewing(d, j)' /\ Reviewing(e, j)' => d = e
        BY <1>2 DEF WaitsInv
    <2>3. ASSUME NEW q \in Reports, NEW j, j = report'[q].wf, j \notin late' \cup {0}
          PROVE  /\ report'[q].status = "SUBMITTED" =>
                       /\ \A d \in Calls : Reviewing(d, j)' =>
                             expCall'[d].review = "first" /\ (expCall'[d].verdict = "approved" => inst'[j].stage = "second")
                       /\ (\A d \in Calls : ~Reviewing(d, j)') => inst'[j].stage = "first"
                 /\ report'[q].status = "APPROVED_MANAGER" =>
                       /\ \A d \in Calls : Reviewing(d, j)' => expCall'[d].review = "second"
                       /\ (\A d \in Calls : ~Reviewing(d, j)') => inst'[j].stage = "second"
        <3>1. CASE q = r
            <4>1. j = i /\ i \notin late
                BY <2>3, <3>1
            <4>2. inst[i].stage = "first" /\ \A e \in Calls : ~Reviewing(e, i)
                BY <4>1 DEF WaitsInv
            <4>3. QED BY <3>1, <4>1, <4>2, <1>2
        <3>2. CASE q # r
            <4>1. report'[q] = report[q] /\ j = report[q].wf /\ j \notin late \cup {0}
                BY <2>3, <3>2
            <4>2. QED BY <4>1, <1>2, <1>3 DEF WaitsInv
        <3>3. QED BY <3>1, <3>2
    <2>4. \A q \in Reports : report'[q].wf \notin late' \cup {0} =>
              /\ report'[q].status = "SUBMITTED" =>
                       /\ \A d \in Calls : Reviewing(d, report[q].wf)' =>
                             /\ expCall'[d].review = "first"
                             /\ expCall'[d].verdict = "approved" => inst'[report'[q].wf].stage = "second"
                       /\ (\A d \in Calls : ~Reviewing(d, report[q].wf)') => inst'[report'[q].wf].stage = "first"
              /\ report'[q].status = "APPROVED_MANAGER" =>
                       /\ \A d \in Calls : Reviewing(d, report[q].wf)' => expCall'[d].review = "second"
                       /\ (\A d \in Calls : ~Reviewing(d, report[q].wf)') => inst'[report'[q].wf].stage = "second"
        BY <2>3 DEF Reviewing
    <2>5. QED BY <2>1, <2>2, <2>4 DEF WaitsInv
<1>12. QED BY <1>9, <1>10, <1>11

\* The transaction of a PATCH.
LEMMA PatchWritesKeeps == ASSUME ExpenseInv, NEW c \in Calls, PatchWrites(c) PROVE ExpenseInv'
<1> USE DEF ExpenseInv
<1>1. expCall[c].at = "write" /\ UNCHANGED << inst, files, written, late, twice, sameName >>
    BY DEF PatchWrites
<1>2. PICK x \in ExpenseCall : x = expCall[c]
    BY DEF ExpenseRows
<1>3. PICK r \in Reports : r = x.r
    BY <1>1, <1>2 DEF ExpenseRows, CallFits
<1>4. PICK row \in ReportRow : row = report[r]
    BY DEF ExpenseRows
<1>5. PICK n \in 0..MaxItems : n = IF x.items = 0 THEN row.items ELSE x.items
    BY DEF ExpenseCall, ReportRow
<1> DEFINE moves == x.submit /\ row.status \in Editable
           new == IF moves THEN [row EXCEPT !.items = n, !.status = "SUBMITTED", !.wf = x.i] ELSE [row EXCEPT !.items = n]
<1>6. /\ report' = [report EXCEPT ![r] = new]
      /\ asked' = IF moves THEN [asked EXCEPT ![r] = n] ELSE asked
      /\ IF x.submit /\ ~moves THEN Goes(c, "cancel") /\ UNCHANGED page ELSE \E heard \in BOOLEAN : Answered(c, heard)
    BY <1>2, <1>3, <1>4, <1>5 DEF PatchWrites
<1>7. x.submit => x.i \in Instances /\ x.i # 0
    <2>1. x.submit => x.i \in Instances
        BY <1>1, <1>2 DEF ExpenseRows, CallFits
    <2>2. QED BY <2>1, InstancesAreNumbered
<1>8. /\ new \in ReportRow /\ new.items = n /\ new.receipt = row.receipt
      /\ moves => new.status = "SUBMITTED" /\ new.wf = x.i
      /\ ~moves => new.status = row.status /\ new.wf = row.wf
    BY <1>7 DEF ReportRow, Statuses
<1> HIDE DEF new
<1>9. /\ report' \in [Reports -> ReportRow] /\ report'[r] = new
      /\ \A q \in Reports : q # r => report'[q] = report[q]
    BY <1>6, <1>8 DEF ExpenseRows
<1>10. asked' \in [Reports -> 0..MaxItems] /\ (moves => asked'[r] = n) /\ \A q \in Reports : q # r => asked'[q] = asked[q]
    <2>1. asked \in [Reports -> 0..MaxItems]
        BY DEF ExpenseRows
    <2>2. QED BY <1>6, <2>1
<1>11. page' \in FormPage /\ (page'.failed => page'.pending \in Reports)
    <2>1. page \in FormPage /\ (page.failed => page.pending \in Reports)
        BY DEF ExpenseRows
    <2>2. QED BY <1>6, <2>1 DEF Answered, FormPage
<1>12. \A q \in Reports : report'[q].wf = 0 <=> report'[q].status \in {"none", "DRAFT"}
    <2>1. \A q \in Reports : report[q].wf = 0 <=> report[q].status \in {"none", "DRAFT"}
        BY DEF ExpenseRows
    <2>2. new.wf = 0 <=> new.status \in {"none", "DRAFT"}
        BY <1>4, <1>7, <1>8, <2>1
    <2>3. QED BY <1>9, <2>1, <2>2
<1>13. ASSUME NEW s \in ExpenseCall, CallFits(s), expCall' = [expCall EXCEPT ![c] = s],
              s.at \in {"idle", "cancel"}, (ReviewsInv /\ OwnersInv /\ WaitsInv)'
       PROVE  ExpenseInv'
    <2>1. ExpenseRows'
        <3>1. InstInv'
            BY <1>1 DEF ExpenseRows, InstInv
        <3>2. expCall' \in [Calls -> ExpenseCall] /\ \A d \in Calls : CallFits(expCall'[d])
            BY <1>13, CallChanges
        <3>3. QED BY <1>1, <1>9, <1>10, <1>11, <1>12, <3>1, <3>2 DEF ExpenseRows, FilesNamed
    <2>2. ReceiptsInv'
        <3>1. \A q \in Reports : report'[q].receipt = report[q].receipt
            BY <1>4, <1>8, <1>9
        <3>2. QED BY <1>1, <1>13, <3>1, QuietReceipts
    <2>3. ItemsInv'
        <3>1. \A d \in Calls, q \in Reports : Patching(d, q)' => d # c /\ Patching(d, q)
            BY <1>13, CallChanges DEF Patching
        <3>2. Patching(c, r)
            BY <1>1, <1>2, <1>3 DEF Patching
        <3>3. r \notin twice => row.status \in Editable /\ \A d \in Calls : ~Patching(d, r)'
            BY <1>4, <3>1, <3>2 DEF ItemsInv
        <3>4. ASSUME NEW q \in Reports \ twice'
              PROVE  /\ \A d \in Calls : Patching(d, q)' => report'[q].status \in Editable
                     /\ \A d, e \in Calls : Patching(d, q)' /\ Patching(e, q)' => d = e
                     /\ report'[q].status \notin Editable => report'[q].items = asked'[q]
            <4>1. q \notin twice
                BY <1>1
            <4>2. CASE q = r
                <5>1. CASE moves
                    BY <1>8, <1>9, <1>10, <3>3, <4>1, <4>2, <5>1
                <5>2. CASE ~moves
                    BY <1>4, <1>8, <1>9, <3>3, <4>1, <4>2, <5>2
                <5>3. QED BY <5>1, <5>2
            <4>3. CASE q # r
                BY <1>9, <1>10, <3>1, <4>1, <4>3 DEF ItemsInv
            <4>4. QED BY <4>2, <4>3
        <3>5. QED BY <3>4 DEF ItemsInv
    <2>4. QED BY <1>13, <2>1, <2>2, <2>3
<1>14. CASE moves
    <2>1. expCall' = [expCall EXCEPT ![c] = Idle]
        BY <1>6, <1>14 DEF Answered, Ends
    <2>2. Started(c, x.i) /\ x.i \in Instances
        BY <1>1, <1>2, <1>7, <1>14 DEF Started
    <2>3. (ReviewsInv /\ OwnersInv /\ WaitsInv)'
        BY <1>1, <1>4, <1>8, <1>9, <1>14, <2>1, <2>2, SubmittedReviews
    <2>4. QED BY <1>13, <2>1, <2>3, IdleFits
<1>15. CASE ~moves
    <2>1. \A q \in Reports : report'[q].wf = report[q].wf /\ report'[q].status = report[q].status
        BY <1>4, <1>8, <1>9, <1>15
    <2>2. CASE x.submit
        <3> DEFINE s == [x EXCEPT !.at = "cancel"]
        <3>1. s \in ExpenseCall /\ s.at = "cancel" /\ s.r = r /\ s.i = x.i
            BY <1>3 DEF ExpenseCall, Steps
        <3>2. expCall' = [expCall EXCEPT ![c] = s]
            BY <1>2, <1>6, <1>15, <2>2 DEF Goes
        <3> HIDE DEF s
        <3>3. CallFits(s)
            BY <1>7, <2>2, <3>1 DEF CallFits
        <3>4. (ReviewsInv /\ OwnersInv /\ WaitsInv)'
            BY <1>1, <1>2, <2>1, <2>2, <3>1, <3>2, QuietReviews
        <3>5. QED BY <1>13, <3>1, <3>2, <3>3, <3>4
    <2>3. CASE ~x.submit
        <3>1. expCall' = [expCall EXCEPT ![c] = Idle]
            BY <1>6, <2>3 DEF Answered, Ends
        <3>2. (ReviewsInv /\ OwnersInv /\ WaitsInv)'
            BY <1>1, <2>1, <3>1, IdleFits, QuietReviews
        <3>3. QED BY <1>13, <3>1, <3>2, IdleFits
    <2>4. QED BY <2>2, <2>3
<1>16. QED BY <1>14, <1>15

\* The approval that lost is no report's.
LEMMA PatchCancelsKeeps == ASSUME ExpenseInv, NEW c \in Calls, PatchCancels(c) PROVE ExpenseInv'
<1> USE DEF ExpenseInv
<1>1. /\ expCall[c].at = "cancel" /\ expCall' = [expCall EXCEPT ![c] = Idle] /\ page' = page
      /\ UNCHANGED << report, files, written, asked, late, twice, sameName >>
    BY DEF PatchCancels, Answered, Ends
<1>2. PICK i \in Instances : i = expCall[c].i
    BY <1>1 DEF ExpenseRows, CallFits
<1>3. CASE inst' = inst
    <2>1. page' \in FormPage /\ (page'.failed => page'.pending \in Reports)
        BY <1>1 DEF ExpenseRows
    <2>2. QED BY <1>1, <1>3, <2>1, CallEnds DEF Ends
<1>4. CASE EndInstance(i)
    <2>1. /\ InstInv' /\ inst'[i].stage = "ended" /\ inst'[i].said = inst[i].said
          /\ \A j \in Instances : j # i => inst'[j] = inst[j]
        BY <1>4, InstEnds DEF ExpenseRows
    <2>2. expCall'[c] = Idle /\ \A d \in Calls : d # c => expCall'[d] = expCall[d]
        BY <1>1, CallChanges, IdleFits
    <2>3. Started(c, i)
        BY <1>1, <1>2 DEF Started
    <2>4. \A r \in Reports : report[r].wf # i /\ (report[r].wf # 0 => inst'[report[r].wf] = inst[report[r].wf])
        <3>1. \A r \in Reports : report[r].wf \in Instances \cup {0}
            BY DEF ExpenseRows, ReportRow
        <3>2. QED BY <2>1, <2>3, <3>1 DEF OwnersInv
    <2>5. \A d \in Calls : \A j : Reviewing(d, j)' <=> Reviewing(d, j)
        BY <1>1, <2>2, IdleFits DEF Reviewing
    <2>6. \A d \in Calls : \A j : Reviewing(d, j) => d # c /\ expCall'[d] = expCall[d]
        BY <1>1, <2>2 DEF Reviewing
    <2>7. \A d \in Calls, j \in Instances :
             Started(d, j)' => d # c /\ j # i /\ Started(d, j) /\ expCall'[d] = expCall[d] /\ inst'[j] = inst[j]
        BY <2>1, <2>2, <2>3, IdleFits DEF Started, OwnersInv
    <2>8. \A j \in Instances : inst'[j].said = inst[j].said
        BY <2>1
    <2>9. \A d \in Calls, r \in Reports : Reviewing(d, report[r].wf)' <=> Reviewing(d, report[r].wf)
        BY <1>1, <2>2, IdleFits DEF Reviewing
    <2>10. ReviewsInv'
        <3>1. \A d \in Calls : expCall'[d].at = "sync" => d # c /\ expCall'[d] = expCall[d]
            BY <1>1, <2>2, IdleFits
        <3>2. \A r \in Reports : StandsFor(r)'
            <4>1. \A r \in Reports : report[r].wf = 0 => report[r].status \in {"none", "DRAFT"}
                BY DEF ExpenseRows
            <4>2. QED BY <4>1, <1>1, <2>4 DEF ReviewsInv, StandsFor, Said
        <3>3. \A d \in Calls, j \in Instances : Reviewing(d, j)' => Gave(inst'[j].said, expCall'[d].review, expCall'[d].verdict)
            BY <2>5, <2>6, <2>8 DEF ReviewsInv
        <3>4. \A d, e \in Calls, j \in Instances :
                 Reviewing(d, j)' /\ Reviewing(e, j)' /\ expCall'[d].review = expCall'[e].review => d = e
            BY <2>5, <2>6 DEF ReviewsInv
        <3>5. \A d \in Calls : expCall'[d].at = "sync" => report'[expCall'[d].r].wf = expCall'[d].i
            BY <1>1, <3>1 DEF ReviewsInv
        <3>6. \A r \in Reports, d \in Calls : Reviewing(d, report[r].wf)' =>
                 /\ report'[r].status = "APPROVED_MANAGER" => expCall'[d].review # "first"
                 /\ report'[r].status \notin {"REJECTED", "REIMBURSED"}
            BY <1>1, <2>6, <2>9 DEF ReviewsInv
        <3>7. QED BY <3>2, <3>3, <3>4, <3>5, <3>6 DEF ReviewsInv
    <2>11. OwnersInv'
        BY <1>1, <2>4, <2>7 DEF OwnersInv
    <2>12. WaitsInv'
        <3>1. \A d \in Calls, j \in Instances \ late' : Started(d, j)' /\ expCall'[d].at = "write" =>
                  inst'[j].stage = "first" /\ \A e \in Calls : ~Reviewing(e, j)'
            BY <1>1, <2>5, <2>7 DEF WaitsInv
        <3>2. \A j \in Instances \ late', d, e \in Calls : Reviewing(d, j)' /\ Reviewing(e, j)' => d = e
            BY <1>1, <2>5 DEF WaitsInv
        <3>3. ASSUME NEW r \in Reports, report'[r].wf \notin late' \cup {0}
              PROVE  /\ report'[r].status = "SUBMITTED" =>
                           /\ \A d \in Calls : Reviewing(d, report[r].wf)' =>
                                 /\ expCall'[d].review = "first"
                                 /\ expCall'[d].verdict = "approved" => inst'[report'[r].wf].stage = "second"
                           /\ (\A d \in Calls : ~Reviewing(d, report[r].wf)') => inst'[report'[r].wf].stage = "first"
                     /\ report'[r].status = "APPROVED_MANAGER" =>
                           /\ \A d \in Calls : Reviewing(d, report[r].wf)' => expCall'[d].review = "second"
                           /\ (\A d \in Calls : ~Reviewing(d, report[r].wf)') => inst'[report'[r].wf].stage = "second"
            BY <3>3, <1>1, <2>4, <2>6, <2>9 DEF WaitsInv
        <3>4. QED BY <3>1, <3>2, <3>3 DEF WaitsInv
    <2>13. ReceiptsInv'
        BY <1>1, IdleFits, QuietReceipts
    <2>14. ItemsInv'
        BY <1>1, IdleFits, QuietItems
    <2>15. ExpenseRows'
        <3>1. expCall' \in [Calls -> ExpenseCall] /\ \A d \in Calls : CallFits(expCall'[d])
            BY <1>1, IdleFits, CallChanges
        <3>2. QED BY <1>1, <2>1, <3>1 DEF ExpenseRows, FilesNamed
    <2>16. QED BY <2>10, <2>11, <2>12, <2>13, <2>14, <2>15
<1>5. QED BY <1>2, <1>3, <1>4 DEF PatchCancels

\* What a review that is open finds: what was said before it, and what a report says by then.
LEMMA OpenReview ==
    ASSUME ExpenseRows, ReviewsInv, NEW i \in Instances, NEW v \in Verdicts, CompleteReview(i, v, 2)
    PROVE  /\ InstInv' /\ \A j \in Instances : j # i => inst'[j] = inst[j]
           /\ inst[i].stage \in {"first", "second"}
           /\ inst'[i].stage # "none"
           /\ inst[i].stage = "first" /\ v = "approved" => inst'[i].stage = "second"
           /\ Gave(inst'[i].said, inst[i].stage, v)
           /\ \A d \in Calls : Reviewing(d, i) =>
                 /\ inst[i].stage = "second" /\ expCall[d].review = "first"
                 /\ Gave(inst'[i].said, expCall[d].review, expCall[d].verdict)
           /\ \A r \in Reports : report[r].wf = i =>
                 /\ report[r].status \notin {"REJECTED", "REIMBURSED"}
                 /\ report[r].status = "APPROVED_MANAGER" =>
                       inst[i].stage = "second" /\ inst'[i].said # << >> /\ inst'[i].said[1] = "approved"
<1>1. /\ InstInv'
      /\ \/ inst[i].stage = "first" /\ inst[i].said = << >> /\ inst'[i].said = << v >>
         \/ inst[i].stage = "second" /\ inst[i].said = << "approved" >> /\ inst'[i].said = << "approved", v >>
      /\ inst'[i].stage = IF v = "approved" /\ inst[i].stage = "first" THEN "second" ELSE "over"
      /\ \A j \in Instances : j # i => inst'[j] = inst[j]
    BY InstReviewed DEF ExpenseRows, Verdicts
<1>2. \A d \in Calls : Reviewing(d, i) =>
         Gave(inst[i].said, expCall[d].review, expCall[d].verdict) /\ expCall[d].review \in {"first", "second"}
    BY DEF ReviewsInv, Reviewing, ExpenseRows, CallFits, ExpenseCall
<1>3. \A w : << w >> # << >> /\ << w >>[1] = w /\ Len(<< w >>) = 1
    OBVIOUS
<1>4. \A w : << "approved", w >> # << >> /\ << "approved", w >>[1] = "approved" /\ Len(<< "approved", w >>) = 2
    OBVIOUS
<1>5. \A w : << "approved" >> # << "approved", w >>
    BY <1>3, <1>4
<1>6. Gave(inst'[i].said, inst[i].stage, v)
    BY <1>1, <1>3 DEF Gave
<1>7. ASSUME NEW d \in Calls, Reviewing(d, i)
      PROVE  /\ inst[i].stage = "second" /\ expCall[d].review = "first"
             /\ Gave(inst'[i].said, expCall[d].review, expCall[d].verdict)
    <2>1. inst[i].said # << >>
        BY <1>2, <1>4, <1>7 DEF Gave
    <2>2. inst[i].stage = "second" /\ inst[i].said = << "approved" >> /\ inst'[i].said = << "approved", v >>
        BY <1>1, <2>1
    <2>3. expCall[d].review = "first"
        BY <1>2, <1>5, <1>7, <2>2 DEF Gave
    <2>4. expCall[d].verdict = "approved"
        BY <1>2, <1>3, <1>7, <2>2, <2>3 DEF Gave
    <2>5. QED BY <1>4, <2>2, <2>3, <2>4 DEF Gave
<1>8. ASSUME NEW r \in Reports, report[r].wf = i
      PROVE  /\ report[r].status \notin {"REJECTED", "REIMBURSED"}
             /\ report[r].status = "APPROVED_MANAGER" =>
                   inst[i].stage = "second" /\ inst'[i].said # << >> /\ inst'[i].said[1] = "approved"
    <2>1. StandsFor(r)
        BY DEF ReviewsInv
    <2>2. report[r].status # "REIMBURSED"
        BY <1>1, <1>4, <1>5, <1>8, <2>1 DEF StandsFor, Said
    <2>3. report[r].status # "REJECTED"
        BY <1>1, <1>3, <1>8, <2>1 DEF StandsFor
    <2>4. report[r].status = "APPROVED_MANAGER" => inst[i].stage = "second" /\ inst'[i].said # << >> /\ inst'[i].said[1] = "approved"
        BY <1>1, <1>4, <1>8, <2>1 DEF StandsFor
    <2>5. QED BY <2>2, <2>3, <2>4
<1>9. QED BY <1>1, <1>6, <1>7, <1>8

\* The service has carried out a review; the request that asked for it has yet to tell the report.
LEMMA ReviewDecidedKeeps == ASSUME ExpenseInv, NEW c \in Calls, ReviewDecided(c) PROVE ExpenseInv'
<1> USE DEF ExpenseInv
<1>1. PICK i \in Instances, v \in {"approved", "rejected"} :
         /\ CompleteReview(i, v, 2)
         /\ late' = IF Behind(i) THEN late \cup {i} ELSE late
         /\ expCall' = [expCall EXCEPT ![c] =
               [Idle EXCEPT !.at = "find", !.by = "approver", !.i = i, !.verdict = v, !.review = inst[i].stage]]
    BY DEF ReviewDecided
<1>2. expCall[c].at = "idle" /\ UNCHANGED << report, page, files, written, asked, twice, sameName >>
    BY DEF ReviewDecided
<1>3. /\ InstInv' /\ \A j \in Instances : j # i => inst'[j] = inst[j]
      /\ inst[i].stage \in {"first", "second"}
      /\ inst'[i].stage # "none"
      /\ inst[i].stage = "first" /\ v = "approved" => inst'[i].stage = "second"
      /\ Gave(inst'[i].said, inst[i].stage, v)
      /\ \A d \in Calls : Reviewing(d, i) =>
            /\ inst[i].stage = "second" /\ expCall[d].review = "first"
            /\ Gave(inst'[i].said, expCall[d].review, expCall[d].verdict)
      /\ \A r \in Reports : report[r].wf = i =>
            /\ report[r].status \notin {"REJECTED", "REIMBURSED"}
            /\ report[r].status = "APPROVED_MANAGER" =>
                  inst[i].stage = "second" /\ inst'[i].said # << >> /\ inst'[i].said[1] = "approved"
    BY <1>1, OpenReview DEF Verdicts
<1>4. PICK st \in {"first", "second"} : st = inst[i].stage
    BY <1>3
<1> DEFINE s == [Idle EXCEPT !.at = "find", !.by = "approver", !.i = i, !.verdict = v, !.review = st]
<1>5. s \in ExpenseCall /\ s.at = "find" /\ s.i = i /\ s.verdict = v /\ s.review = st
    BY IdleFits DEF ExpenseCall, Steps
<1>6. expCall' = [expCall EXCEPT ![c] = s]
    BY <1>1, <1>4
<1> HIDE DEF s
<1>7. CallFits(s)
    BY <1>5 DEF CallFits
<1>8. expCall'[c] = s /\ \A d \in Calls : d # c => expCall'[d] = expCall[d]
    BY <1>5, <1>6, CallChanges
<1>9. \A d \in Calls : \A j : Reviewing(d, j)' <=> (d = c /\ j = i) \/ Reviewing(d, j)
    BY <1>2, <1>5, <1>8 DEF Reviewing
<1>10. \A d \in Calls : \A j : Reviewing(d, j) => d # c /\ expCall'[d] = expCall[d]
    BY <1>2, <1>8 DEF Reviewing
<1>11. \A d \in Calls : \A j : Started(d, j)' => d # c /\ Started(d, j) /\ expCall'[d] = expCall[d]
    BY <1>5, <1>8 DEF Started
<1>12. \A j : j \notin late' => j \notin late /\ (j = i => ~Behind(i))
    BY <1>1
<1>13. \A r \in Reports : report[r].wf # 0 /\ report[r].wf # i => inst'[report[r].wf] = inst[report[r].wf]
    BY <1>3 DEF ExpenseRows, ReportRow
<1>14. i # 0
    BY InstancesAreNumbered
<1>15. ReviewsInv'
    <2>1. ASSUME NEW d \in Calls, NEW j \in Instances, Reviewing(d, j)'
          PROVE  Gave(inst'[j].said, expCall'[d].review, expCall'[d].verdict)
        <3>1. CASE d = c /\ j = i
            BY <3>1, <1>3, <1>4, <1>5, <1>8
        <3>2. CASE Reviewing(d, j) /\ j = i
            BY <3>2, <1>3, <1>10
        <3>3. CASE Reviewing(d, j) /\ j # i
            BY <3>3, <1>3, <1>10 DEF ReviewsInv
        <3>4. QED BY <2>1, <1>9, <3>1, <3>2, <3>3
    <2>2. ASSUME NEW d \in Calls, NEW e \in Calls, NEW j \in Instances,
                 Reviewing(d, j)', Reviewing(e, j)', expCall'[d].review = expCall'[e].review
          PROVE  d = e
        <3>1. CASE Reviewing(d, j) /\ Reviewing(e, j)
            BY <3>1, <2>2, <1>10 DEF ReviewsInv
        <3>2. CASE d = c /\ j = i /\ Reviewing(e, j)
            BY <3>2, <2>2, <1>3, <1>4, <1>5, <1>8, <1>10
        <3>3. CASE e = c /\ j = i /\ Reviewing(d, j)
            BY <3>3, <2>2, <1>3, <1>4, <1>5, <1>8, <1>10
        <3>4. QED BY <2>2, <1>9, <3>1, <3>2, <3>3
    <2>3. \A d \in Calls : expCall'[d].at = "sync" => report'[expCall'[d].r].wf = expCall'[d].i
        BY <1>2, <1>5, <1>8 DEF ReviewsInv
    <2>4. ASSUME NEW r \in Reports, NEW d \in Calls, NEW j, j = report[r].wf, Reviewing(d, j)'
          PROVE  /\ report'[r].status = "APPROVED_MANAGER" => expCall'[d].review # "first"
                 /\ report'[r].status \notin {"REJECTED", "REIMBURSED"}
        <3>1. CASE d = c /\ j = i
            BY <3>1, <2>4, <1>2, <1>3, <1>4, <1>5, <1>8
        <3>2. CASE Reviewing(d, j)
            BY <3>2, <2>4, <1>2, <1>10 DEF ReviewsInv
        <3>3. QED BY <2>4, <1>9, <3>1, <3>2
    <2>5. ASSUME NEW r \in Reports PROVE StandsFor(r)'
        <3>1. CASE report[r].wf = i
            BY <3>1, <1>2, <1>3 DEF StandsFor
        <3>2. CASE report[r].wf # i /\ report[r].wf # 0
            BY <3>2, <1>2, <1>13 DEF ReviewsInv, StandsFor, Said
        <3>3. CASE report[r].wf = 0
            <4>1. report[r].status \in {"none", "DRAFT"}
                BY <3>3 DEF ExpenseRows
            <4>2. QED BY <4>1, <1>2 DEF StandsFor
        <3>4. QED BY <3>1, <3>2, <3>3
    <2>6. \A r \in Reports, d \in Calls : Reviewing(d, report[r].wf)' =>
              /\ report'[r].status = "APPROVED_MANAGER" => expCall'[d].review # "first"
              /\ report'[r].status \notin {"REJECTED", "REIMBURSED"}
        BY <2>4, <1>2 DEF Reviewing
    <2>7. QED BY <2>1, <2>2, <2>3, <2>5, <2>6 DEF ReviewsInv
<1>16. OwnersInv'
    <2>1. \A r \in Reports : report'[r].wf # 0 => inst'[report'[r].wf].stage # "none"
        BY <1>2, <1>3, <1>13 DEF OwnersInv
    <2>2. \A q, r \in Reports : report'[q].wf = report'[r].wf /\ report'[q].wf # 0 => q = r
        BY <1>2 DEF OwnersInv
    <2>3. \A d \in Calls, j \in Instances : Started(d, j)' =>
              /\ inst'[j].stage # "none" /\ \A r \in Reports : report'[r].wf # j
              /\ \A e \in Calls : Started(e, j)' => e = d
        BY <1>2, <1>3, <1>11 DEF OwnersInv
    <2>4. QED BY <2>1, <2>2, <2>3 DEF OwnersInv
<1>17. WaitsInv'
    <2>1. ASSUME NEW d \in Calls, NEW j \in Instances \ late', Started(d, j)', expCall'[d].at = "write"
          PROVE  inst'[j].stage = "first" /\ \A e \in Calls : ~Reviewing(e, j)'
        <3>1. Started(d, j) /\ expCall[d].at = "write" /\ expCall[d].i = j /\ j \notin late
            BY <2>1, <1>11, <1>12 DEF Started
        <3>2. j # i
            BY <2>1, <3>1, <1>12 DEF Behind
        <3>3. QED BY <3>1, <3>2, <1>3, <1>9 DEF WaitsInv
    <2>2. ~Behind(i) => \A d \in Calls : ~Reviewing(d, i)
        BY DEF Behind, Reviewing
    <2>3. ASSUME NEW j \in Instances \ late', NEW d \in Calls, NEW e \in Calls, Reviewing(d, j)', Reviewing(e, j)' PROVE d = e
        <3>1. CASE j = i
            BY <3>1, <2>2, <2>3, <1>9, <1>12
        <3>2. CASE j # i
            BY <3>2, <2>3, <1>9, <1>12 DEF WaitsInv
        <3>3. QED BY <3>1, <3>2
    <2>4. ASSUME NEW r \in Reports, NEW j, j = report[r].wf, j \notin late' \cup {0}
          PROVE  /\ report[r].status = "SUBMITTED" =>
                       /\ \A d \in Calls : Reviewing(d, j)' =>
                             expCall'[d].review = "first" /\ (expCall'[d].verdict = "approved" => inst'[j].stage = "second")
                       /\ (\A d \in Calls : ~Reviewing(d, j)') => inst'[j].stage = "first"
                 /\ report[r].status = "APPROVED_MANAGER" =>
                       /\ \A d \in Calls : Reviewing(d, j)' => expCall'[d].review = "second"
                       /\ (\A d \in Calls : ~Reviewing(d, j)') => inst'[j].stage = "second"
        <3>1. CASE j = i
            <4>1. \A d \in Calls : ~Reviewing(d, i)
                BY <3>1, <2>2, <2>4, <1>12
            <4>2. /\ report[r].status = "SUBMITTED" => st = "first"
                  /\ report[r].status = "APPROVED_MANAGER" => st = "second"
                BY <3>1, <4>1, <2>4, <1>4, <1>12 DEF WaitsInv
            <4>3. \A d \in Calls : Reviewing(d, i)' <=> d = c
                BY <4>1, <1>9
            <4>4. QED BY <3>1, <4>2, <4>3, <1>3, <1>4, <1>5, <1>8
        <3>2. CASE j # i
            <4>1. \A d \in Calls : (Reviewing(d, j)' <=> Reviewing(d, j)) /\ (Reviewing(d, j) => expCall'[d] = expCall[d])
                BY <3>2, <1>9, <1>10
            <4>2. inst'[j] = inst[j] /\ j \notin late \cup {0}
                BY <3>2, <2>4, <1>12, <1>13
            <4>3. QED BY <4>1, <4>2, <2>4 DEF WaitsInv
        <3>3. QED BY <3>1, <3>2
    <2>5. \A r \in Reports : report'[r].wf \notin late' \cup {0} =>
              /\ report'[r].status = "SUBMITTED" =>
                       /\ \A d \in Calls : Reviewing(d, report[r].wf)' =>
                             /\ expCall'[d].review = "first"
                             /\ expCall'[d].verdict = "approved" => inst'[report'[r].wf].stage = "second"
                       /\ (\A d \in Calls : ~Reviewing(d, report[r].wf)') => inst'[report'[r].wf].stage = "first"
              /\ report'[r].status = "APPROVED_MANAGER" =>
                       /\ \A d \in Calls : Reviewing(d, report[r].wf)' => expCall'[d].review = "second"
                       /\ (\A d \in Calls : ~Reviewing(d, report[r].wf)') => inst'[report'[r].wf].stage = "second"
        BY <1>2, <2>4 DEF Reviewing
    <2>6. QED BY <2>1, <2>3, <2>5 DEF WaitsInv
<1>18. ReceiptsInv'
    BY <1>2, <1>5, <1>6, QuietReceipts
<1>19. ItemsInv'
    BY <1>2, <1>5, <1>6, QuietItems
<1>20. ExpenseRows'
    <2>1. expCall' \in [Calls -> ExpenseCall] /\ \A d \in Calls : CallFits(expCall'[d])
        BY <1>5, <1>6, <1>7, CallChanges
    <2>2. late' \subseteq Instances
        BY <1>1 DEF ExpenseRows
    <2>3. QED BY <1>2, <1>3, <2>1, <2>2 DEF ExpenseRows, FilesNamed
<1>21. QED BY <1>15, <1>16, <1>17, <1>18, <1>19, <1>20

\* The report the review is about is looked up by its approval.
LEMMA ReviewFindsKeeps == ASSUME ExpenseInv, NEW c \in Calls, ReviewFinds(c) PROVE ExpenseInv'
<1> USE DEF ExpenseInv
<1>1. expCall[c].at = "find" /\ UNCHANGED << inst, report, page, files, written, asked, late, twice, sameName >>
    BY DEF ReviewFinds
<1>2. page' \in FormPage /\ (page'.failed => page'.pending \in Reports)
    BY <1>1 DEF ExpenseRows
<1>3. PICK x \in ExpenseCall : x = expCall[c]
    BY DEF ExpenseRows
<1>4. CASE \A r \in Reports : report[r].wf # x.i
    <2>1. Ends(c)
        BY <1>3, <1>4 DEF ReviewFinds
    <2>2. QED BY <1>1, <1>2, <1>3, <1>4, <2>1, CallEnds
<1>5. ASSUME NEW r \in Reports, report[r].wf = x.i, expCall' = [expCall EXCEPT ![c].at = "sync", ![c].r = r] PROVE ExpenseInv'
    <2> DEFINE s == [x EXCEPT !.at = "sync", !.r = r]
    <2>1. /\ s \in ExpenseCall /\ s.at = "sync" /\ s.r = r /\ s.i = x.i
          /\ s.verdict = x.verdict /\ s.review = x.review
        BY DEF ExpenseCall, Steps
    <2>2. expCall' = [expCall EXCEPT ![c] = s]
        BY <1>3, <1>5
    <2> HIDE DEF s
    <2>3. x.i \in Instances /\ x.verdict # "" /\ x.review # "none"
        BY <1>1, <1>3 DEF ExpenseRows, CallFits
    <2>4. CallFits(s)
        BY <2>1, <2>3 DEF CallFits
    <2>5. expCall'[c] = s /\ \A d \in Calls : d # c => expCall'[d] = expCall[d]
        BY <2>1, <2>2, CallChanges
    <2>6. \A d \in Calls : \A j : (Reviewing(d, j)' <=> Reviewing(d, j)) /\ (Started(d, j)' <=> Started(d, j))
        BY <1>1, <1>3, <2>1, <2>5 DEF Reviewing, Started
    <2>7. \A d \in Calls : expCall'[d].review = expCall[d].review /\ expCall'[d].verdict = expCall[d].verdict
        BY <1>3, <2>1, <2>5
    <2>8. \A d \in Calls, q \in Reports : Reviewing(d, report[q].wf)' <=> Reviewing(d, report[q].wf)
        BY <1>1, <1>3, <2>1, <2>5 DEF Reviewing
    <2>9. ReviewsInv'
        <3>1. \A d \in Calls : expCall'[d].at = "sync" => report'[expCall'[d].r].wf = expCall'[d].i
            <4>1. expCall'[c].r = r /\ expCall'[c].i = x.i
                BY <2>1, <2>5
            <4>2. \A d \in Calls : expCall[d].at = "sync" => report[expCall[d].r].wf = expCall[d].i
                BY DEF ReviewsInv
            <4>3. QED BY <1>1, <1>5, <2>5, <4>1, <4>2
        <3>2. \A q \in Reports : StandsFor(q)'
            BY <1>1 DEF ReviewsInv, StandsFor, Said
        <3>3. QED BY <1>1, <2>6, <2>7, <2>8, <3>1, <3>2 DEF ReviewsInv
    <2>10. OwnersInv'
        BY <1>1, <2>6 DEF OwnersInv
    <2>11. WaitsInv'
        <3>1. \A d \in Calls : \A j : Started(d, j)' /\ expCall'[d].at = "write" => expCall[d].at = "write"
            BY <2>1, <2>5
        <3>2. QED BY <1>1, <2>6, <2>7, <2>8, <3>1 DEF WaitsInv
    <2>12. ReceiptsInv'
        BY <1>1, <2>1, <2>2, QuietReceipts
    <2>13. ItemsInv'
        BY <1>1, <2>1, <2>2, QuietItems
    <2>14. ExpenseRows'
        <3>1. InstInv'
            BY <1>1 DEF ExpenseRows, InstInv
        <3>2. expCall' \in [Calls -> ExpenseCall] /\ \A d \in Calls : CallFits(expCall'[d])
            BY <2>1, <2>2, <2>4, CallChanges
        <3>3. QED BY <1>1, <3>1, <3>2 DEF ExpenseRows, FilesNamed
    <2>15. QED BY <2>9, <2>10, <2>11, <2>12, <2>13, <2>14
<1>6. QED BY <1>3, <1>4, <1>5 DEF ReviewFinds

\* What a review said holds of the report it is told to.
LEMMA ToldStands ==
    ASSUME NEW x \in InstRow, Life(x), NEW v \in {"approved", "rejected"}, NEW review \in {"first", "second"},
           Gave(x.said, review, v)
    PROVE  /\ review = "first" /\ v = "approved" => x.said # << >> /\ x.said[1] = "approved"
           /\ review = "second" /\ v = "approved" => x.said = << "approved", "approved" >>
           /\ v = "rejected" => x.said # << >> /\ x.said[Len(x.said)] = "rejected"
           /\ review = "first" /\ v = "rejected" => \A w : ~Gave(x.said, "second", w)
<1>1. \A w : << w >> # << >> /\ << w >>[1] = w /\ Len(<< w >>) = 1
    OBVIOUS
<1>2. \A w : /\ << "approved", w >> # << >> /\ << "approved", w >>[1] = "approved" /\ << "approved", w >>[2] = w
             /\ Len(<< "approved", w >>) = 2
    OBVIOUS
<1>3. CASE review = "first"
    <2>1. x.said # << >> /\ x.said[1] = v
        BY <1>3 DEF Gave
    <2>2. ASSUME v = "rejected" PROVE x.said[Len(x.said)] = "rejected" /\ \A w : ~Gave(x.said, "second", w)
        <3>1. x.said = << >> \/ x.said = << "approved" >> \/ \E w \in Verdicts : x.said = << w >> \/ x.said = << "approved", w >>
            BY DEF Life, InstRow, Stages
        <3>2. \A w : x.said # << "approved", w >>
            BY <1>2, <2>1, <2>2
        <3>3. PICK w : x.said = << w >>
            BY <2>1, <3>1, <3>2
        <3>4. x.said[Len(x.said)] = "rejected"
            BY <1>1, <2>1, <2>2, <3>3
        <3>5. QED BY <3>2, <3>4 DEF Gave
    <2>3. QED BY <1>3, <2>1, <2>2
<1>4. CASE review = "second"
    <2>1. x.said = << "approved", v >>
        BY <1>4 DEF Gave
    <2>2. QED BY <1>2, <1>4, <2>1
<1>5. QED BY <1>3, <1>4

\* A review is told to its report, or the write is lost.
LEMMA ReviewSyncsKeeps == ASSUME ExpenseInv, NEW c \in Calls, ReviewSyncs(c) PROVE ExpenseInv'
<1> USE DEF ExpenseInv
<1>1. /\ expCall[c].at = "sync" /\ expCall' = [expCall EXCEPT ![c] = Idle]
      /\ UNCHANGED << inst, page, files, written, asked, twice, sameName >>
    BY DEF ReviewSyncs, Ends
<1>2. PICK x \in ExpenseCall : x = expCall[c]
    BY DEF ExpenseRows
<1>3. PICK i \in Instances : i = x.i
    BY <1>1, <1>2 DEF ExpenseRows, CallFits
<1>4. PICK r \in Reports : r = x.r
    BY <1>1, <1>2 DEF ExpenseRows, CallFits
<1>5. x.verdict \in {"approved", "rejected"} /\ x.review \in {"first", "second"}
    BY <1>1, <1>2 DEF ExpenseRows, CallFits, ExpenseCall
<1>6. report[r].wf = i /\ i # 0
    BY <1>1, <1>2, <1>3, <1>4, InstancesAreNumbered DEF ReviewsInv
<1>7. expCall'[c] = Idle /\ \A d \in Calls : d # c => expCall'[d] = expCall[d]
    BY <1>1, CallChanges, IdleFits
<1>8. Reviewing(c, i)
    BY <1>1, <1>2, <1>3 DEF Reviewing
<1>9. \A d \in Calls : \A j : Reviewing(d, j)' <=> d # c /\ Reviewing(d, j)
    BY <1>7, IdleFits DEF Reviewing
<1>10. \A d \in Calls : \A j : Reviewing(d, j)' => expCall'[d] = expCall[d]
    BY <1>7, <1>9
<1>11. \A d \in Calls : \A j : Started(d, j)' => Started(d, j) /\ expCall'[d] = expCall[d]
    BY <1>7, IdleFits DEF Started
<1>12. \A j \in Instances : Reviewing(c, j) => j = i
    BY <1>2, <1>3 DEF Reviewing
<1>13. PICK row \in ReportRow : row = report[r]
    BY DEF ExpenseRows
<1> DEFINE new == NewStatus(x.review, x.verdict)
<1>14. /\ \/ report' = report
          \/ row.status = Expected(x.review) /\ report' = [report EXCEPT ![r] = [row EXCEPT !.status = new]]
       /\ \/ late' = late /\ (row.status # Expected(x.review) => report' = report)
                          /\ (row.status = Expected(x.review) => report' = [report EXCEPT ![r] = [row EXCEPT !.status = new]])
          \/ late' = late \cup {i} /\ report' = report
    BY <1>2, <1>3, <1>4, <1>13 DEF ReviewSyncs
<1>15. /\ new \in {"REJECTED", "APPROVED_MANAGER", "REIMBURSED"}
       /\ Expected(x.review) \in {"SUBMITTED", "APPROVED_MANAGER"}
    BY DEF NewStatus, Expected
<1>16. /\ report' \in [Reports -> ReportRow]
       /\ \A q \in Reports : q # r => report'[q] = report[q]
       /\ report'[r].wf = i /\ report'[r].items = row.items /\ report'[r].receipt = row.receipt
       /\ report'[r].status = row.status \/ (report'[r].status = new /\ row.status = Expected(x.review))
    <2>1. CASE report' = report
        BY <2>1, <1>6, <1>13 DEF ExpenseRows
    <2>2. CASE row.status = Expected(x.review) /\ report' = [report EXCEPT ![r] = [row EXCEPT !.status = new]]
        <3> DEFINE y == [row EXCEPT !.status = new]
        <3>1. y \in ReportRow /\ y.status = new /\ y.wf = row.wf /\ y.items = row.items /\ y.receipt = row.receipt
            BY <1>15 DEF ReportRow, Statuses
        <3> HIDE DEF y, new
        <3>2. report' = [report EXCEPT ![r] = y]
            BY <2>2 DEF y
        <3>3. report' \in [Reports -> ReportRow] /\ report'[r] = y /\ \A q \in Reports : q # r => report'[q] = report[q]
            BY <3>1, <3>2 DEF ExpenseRows
        <3>4. QED BY <2>2, <3>1, <3>3, <1>6, <1>13
    <2>3. QED BY <1>14, <2>1, <2>2
<1>17. \A q \in Reports : report'[q].wf = report[q].wf /\ report'[q].items = report[q].items /\ report'[q].receipt = report[q].receipt
    BY <1>6, <1>13, <1>16
<1>18. Gave(inst[i].said, x.review, x.verdict)
    BY <1>2, <1>8 DEF ReviewsInv
<1>19. inst[i] \in InstRow /\ Life(inst[i])
    BY DEF ExpenseRows, InstInv
<1>20. /\ x.review = "first" /\ x.verdict = "approved" => inst[i].said # << >> /\ inst[i].said[1] = "approved"
       /\ x.review = "second" /\ x.verdict = "approved" => inst[i].said = << "approved", "approved" >>
       /\ x.verdict = "rejected" => inst[i].said # << >> /\ inst[i].said[Len(inst[i].said)] = "rejected"
       /\ x.review = "first" /\ x.verdict = "rejected" => \A w : ~Gave(inst[i].said, "second", w)
    BY <1>5, <1>18, <1>19, ToldStands
<1>21. ReviewsInv'
    <2>1. \A d \in Calls, j \in Instances : Reviewing(d, j)' => Gave(inst'[j].said, expCall'[d].review, expCall'[d].verdict)
        BY <1>1, <1>9, <1>10 DEF ReviewsInv
    <2>2. \A d, e \in Calls, j \in Instances :
             Reviewing(d, j)' /\ Reviewing(e, j)' /\ expCall'[d].review = expCall'[e].review => d = e
        BY <1>9, <1>10 DEF ReviewsInv
    <2>3. ASSUME NEW d \in Calls, expCall'[d].at = "sync" PROVE report'[expCall'[d].r].wf = expCall'[d].i
        <3>1. d # c /\ expCall'[d] = expCall[d]
            BY <2>3, <1>7, IdleFits
        <3>2. expCall[d].r \in Reports /\ report[expCall[d].r].wf = expCall[d].i
            BY <2>3, <3>1 DEF ExpenseRows, CallFits, ReviewsInv
        <3>3. QED BY <3>1, <3>2, <1>17
    <2>4. ASSUME NEW q \in Reports, NEW d \in Calls, NEW j, j = report[q].wf, Reviewing(d, j)'
          PROVE  /\ report'[q].status = "APPROVED_MANAGER" => expCall'[d].review # "first"
                 /\ report'[q].status \notin {"REJECTED", "REIMBURSED"}
        <3>1. d # c /\ Reviewing(d, j) /\ expCall'[d] = expCall[d]
            BY <2>4, <1>9, <1>10
        <3>2. CASE report'[q].status = report[q].status
            BY <2>4, <3>1, <3>2 DEF ReviewsInv
        <3>3. CASE q = r /\ report'[r].status = new /\ row.status = Expected(x.review)
            <4>1. j = i
                BY <2>4, <3>3, <1>6
            <4>2. expCall[d].review # x.review /\ expCall[d].review \in {"first", "second"}
                <5>1. Reviewing(d, i) /\ d # c
                    BY <3>1, <4>1
                <5>2. expCall[d].review # expCall[c].review
                    BY <5>1, <1>8 DEF ReviewsInv
                <5>3. expCall[d] \in ExpenseCall /\ expCall[d].at \in {"find", "sync"} /\ CallFits(expCall[d])
                    BY <5>1 DEF Reviewing, ExpenseRows
                <5>4. QED BY <5>2, <5>3, <1>2 DEF CallFits, ExpenseCall
            <4>3. CASE x.review = "second"
                <5>1. expCall[d].review = "first" /\ report[r].status = "APPROVED_MANAGER"
                    BY <3>3, <4>2, <4>3, <1>13 DEF Expected
                <5>2. QED BY <2>4, <3>1, <3>3, <5>1 DEF ReviewsInv
            <4>4. CASE x.review = "first"
                <5>1. expCall[d].review = "second" /\ Gave(inst[i].said, "second", expCall[d].verdict)
                    BY <3>1, <4>1, <4>2, <4>4 DEF ReviewsInv
                <5>2. x.verdict = "approved"
                    BY <4>4, <5>1, <1>5, <1>20
                <5>3. new = "APPROVED_MANAGER"
                    BY <4>4, <5>2 DEF NewStatus
                <5>4. QED BY <3>1, <3>3, <5>1, <5>3
            <4>5. QED BY <4>3, <4>4, <1>5
        <3>4. QED BY <3>2, <3>3, <1>13, <1>16
    <2>5. ASSUME NEW q \in Reports PROVE StandsFor(q)'
        <3>1. CASE report'[q].status = report[q].status
            BY <3>1, <1>1, <1>17 DEF ReviewsInv, StandsFor, Said
        <3>2. CASE q = r /\ report'[r].status = new
            <4>1. CASE x.verdict = "rejected"
                BY <3>2, <4>1, <1>1, <1>16, <1>20 DEF StandsFor, NewStatus
            <4>2. CASE x.verdict = "approved" /\ x.review = "first"
                BY <3>2, <4>2, <1>1, <1>16, <1>20 DEF StandsFor, NewStatus
            <4>3. CASE x.verdict = "approved" /\ x.review = "second"
                BY <3>2, <4>3, <1>1, <1>16, <1>20 DEF StandsFor, NewStatus, Said
            <4>4. QED BY <4>1, <4>2, <4>3, <1>5
        <3>3. QED BY <3>1, <3>2, <1>13, <1>16
    <2>6. \A q \in Reports, d \in Calls : Reviewing(d, report[q].wf)' =>
              /\ report'[q].status = "APPROVED_MANAGER" => expCall'[d].review # "first"
              /\ report'[q].status \notin {"REJECTED", "REIMBURSED"}
        <3>1. \A q \in Reports, d \in Calls : Reviewing(d, report[q].wf)' => \E j : j = report[q].wf /\ Reviewing(d, j)'
            BY <1>17 DEF Reviewing
        <3>2. QED BY <2>4, <3>1
    <2>7. QED BY <2>1, <2>2, <2>3, <2>5, <2>6 DEF ReviewsInv
<1>22. OwnersInv'
    <2>1. \A q \in Reports : report'[q].wf # 0 => inst'[report'[q].wf].stage # "none"
        BY <1>1, <1>17 DEF OwnersInv
    <2>2. \A p, q \in Reports : report'[p].wf = report'[q].wf /\ report'[p].wf # 0 => p = q
        BY <1>17 DEF OwnersInv
    <2>3. \A d \in Calls, j \in Instances : Started(d, j)' =>
              /\ inst'[j].stage # "none" /\ \A q \in Reports : report'[q].wf # j
              /\ \A e \in Calls : Started(e, j)' => e = d
        BY <1>1, <1>11, <1>17 DEF OwnersInv
    <2>4. QED BY <2>1, <2>2, <2>3 DEF OwnersInv
<1>23. \A j : j \notin late' => j \notin late /\ (j = i => late' = late)
    BY <1>14
<1>24. WaitsInv'
    <2>1. \A d \in Calls, j \in Instances \ late' : Started(d, j)' /\ expCall'[d].at = "write" =>
              inst'[j].stage = "first" /\ \A e \in Calls : ~Reviewing(e, j)'
        BY <1>1, <1>9, <1>11, <1>23 DEF WaitsInv
    <2>2. \A j \in Instances \ late', d, e \in Calls : Reviewing(d, j)' /\ Reviewing(e, j)' => d = e
        BY <1>9, <1>23 DEF WaitsInv
    <2>3. ASSUME NEW q \in Reports, NEW j, j = report[q].wf, j \notin late' \cup {0}
          PROVE  /\ report'[q].status = "SUBMITTED" =>
                       /\ \A d \in Calls : Reviewing(d, j)' =>
                             expCall'[d].review = "first" /\ (expCall'[d].verdict = "approved" => inst'[j].stage = "second")
                       /\ (\A d \in Calls : ~Reviewing(d, j)') => inst'[j].stage = "first"
                 /\ report'[q].status = "APPROVED_MANAGER" =>
                       /\ \A d \in Calls : Reviewing(d, j)' => expCall'[d].review = "second"
                       /\ (\A d \in Calls : ~Reviewing(d, j)') => inst'[j].stage = "second"
        <3>1. j \notin late /\ j \in Instances
            BY <2>3, <1>23 DEF ExpenseRows, ReportRow
        <3>2. CASE q # r
            <4>1. j # i
                BY <2>3, <3>2, <1>6 DEF OwnersInv
            <4>2. \A d \in Calls : (Reviewing(d, j)' <=> Reviewing(d, j)) /\ (Reviewing(d, j) => expCall'[d] = expCall[d])
                BY <3>1, <4>1, <1>7, <1>9, <1>12
            <4>3. QED BY <2>3, <3>1, <3>2, <4>2, <1>1, <1>16 DEF WaitsInv
        <3>3. CASE q = r
            <4>1. j = i /\ late' = late
                BY <2>3, <3>3, <1>6, <1>23
            <4>2. \A d \in Calls : ~Reviewing(d, i)'
                BY <3>1, <4>1, <1>8, <1>9 DEF WaitsInv
            <4>3. /\ row.status = "SUBMITTED" => x.review = "first" /\ (x.verdict = "approved" => inst[i].stage = "second")
                  /\ row.status = "APPROVED_MANAGER" => x.review = "second"
                BY <2>3, <3>1, <3>3, <4>1, <1>2, <1>8, <1>13 DEF WaitsInv
            <4>4. row.status \in {"SUBMITTED", "APPROVED_MANAGER"} => row.status = Expected(x.review)
                BY <4>3 DEF Expected
            <4>5. i \notin late'
                BY <3>1, <4>1
            <4>6. row.status = Expected(x.review) => report'[r].status = new
                <5>1. report' \in [Reports -> ReportRow]
                    BY <1>16
                <5>2. row.status = Expected(x.review) => report' = [report EXCEPT ![r] = [row EXCEPT !.status = new]]
                    BY <4>5, <1>14
                <5>3. report \in [Reports -> ReportRow]
                    BY DEF ExpenseRows
                <5>4. [row EXCEPT !.status = new].status = new
                    BY DEF ReportRow
                <5> HIDE DEF new
                <5>5. QED BY <5>2, <5>3, <5>4
            <4>7. CASE report'[r].status \notin {"SUBMITTED", "APPROVED_MANAGER"}
                BY <3>3, <4>7
            <4>8. CASE report'[r].status \in {"SUBMITTED", "APPROVED_MANAGER"}
                <5>1. row.status = Expected(x.review) /\ report'[r].status = new
                    BY <4>4, <4>6, <4>8, <1>16
                <5>2. new = "APPROVED_MANAGER" /\ x.review = "first" /\ x.verdict = "approved" /\ row.status = "SUBMITTED"
                    BY <4>8, <5>1, <1>5 DEF NewStatus, Expected
                <5>3. QED BY <3>3, <4>1, <4>2, <4>3, <5>1, <5>2, <1>1
            <4>9. QED BY <4>7, <4>8
        <3>4. QED BY <3>2, <3>3
    <2>4. \A q \in Reports : report'[q].wf \notin late' \cup {0} =>
              /\ report'[q].status = "SUBMITTED" =>
                       /\ \A d \in Calls : Reviewing(d, report[q].wf)' =>
                             /\ expCall'[d].review = "first"
                             /\ expCall'[d].verdict = "approved" => inst'[report'[q].wf].stage = "second"
                       /\ (\A d \in Calls : ~Reviewing(d, report[q].wf)') => inst'[report'[q].wf].stage = "first"
              /\ report'[q].status = "APPROVED_MANAGER" =>
                       /\ \A d \in Calls : Reviewing(d, report[q].wf)' => expCall'[d].review = "second"
                       /\ (\A d \in Calls : ~Reviewing(d, report[q].wf)') => inst'[report'[q].wf].stage = "second"
        <3>1. ASSUME NEW q \in Reports, NEW d \in Calls, NEW j, j = report[q].wf PROVE Reviewing(d, report[q].wf)' <=> Reviewing(d, j)'
            BY <3>1, <1>17 DEF Reviewing
        <3>2. QED BY <2>3, <3>1, <1>17
    <2>5. QED BY <2>1, <2>2, <2>4 DEF WaitsInv
<1>25. ReceiptsInv'
    BY <1>1, <1>17, IdleFits, QuietReceipts
<1>26. ItemsInv'
    <2>1. ASSUME NEW q \in Reports
          PROVE  /\ report[q].status \in Editable => report'[q].status \in Editable
                 /\ report'[q].status \notin Editable => report[q].status \notin Editable /\ report'[q].items = report[q].items
        BY <1>13, <1>15, <1>16, <1>17 DEF Editable
    <2>2. QED BY <1>1, <2>1, IdleFits, QuietItems
<1>27. ExpenseRows'
    <2>1. InstInv'
        BY <1>1 DEF ExpenseRows, InstInv
    <2>2. expCall' \in [Calls -> ExpenseCall] /\ \A d \in Calls : CallFits(expCall'[d])
        BY <1>1, IdleFits, CallChanges
    <2>3. \A q \in Reports : report'[q].wf = 0 <=> report'[q].status \in {"none", "DRAFT"}
        <3>1. \A q \in Reports : report[q].wf = 0 <=> report[q].status \in {"none", "DRAFT"}
            BY DEF ExpenseRows
        <3>2. QED BY <3>1, <1>6, <1>13, <1>15, <1>16, <1>17
    <2>4. late' \subseteq Instances
        BY <1>14 DEF ExpenseRows
    <2>5. QED BY <1>1, <1>16, <2>1, <2>2, <2>3, <2>4 DEF ExpenseRows, FilesNamed
<1>28. QED BY <1>21, <1>22, <1>24, <1>25, <1>26, <1>27

\* What happens to an approval in the service changes no request and no row.
LEMMA InServiceKeeps ==
    ASSUME ExpenseInv, NEW i \in Instances, InstInv', \A j \in Instances : j # i => inst'[j] = inst[j],
           inst'[i].stage # "none",
           UNCHANGED << report, expCall, page, files, written, asked, twice, sameName >>,
           late' \subseteq Instances, late \subseteq late',
           i \in late' \/ ((\A c \in Calls : ~Started(c, i) /\ ~Reviewing(c, i)) /\ \A r \in Reports : report[r].wf # i),
           \A c \in Calls : Reviewing(c, i) => Gave(inst'[i].said, expCall[c].review, expCall[c].verdict),
           \A r \in Reports : report[r].wf = i =>
              /\ report[r].status = "APPROVED_MANAGER" => inst'[i].said # << >> /\ inst'[i].said[1] = "approved"
              /\ report[r].status = "REIMBURSED" => inst'[i].said = << "approved", "approved" >>
              /\ report[r].status = "REJECTED" => inst'[i].said # << >> /\ inst'[i].said[Len(inst'[i].said)] = "rejected"
    PROVE  ExpenseInv'
<1> USE DEF ExpenseInv
<1>1. \A c \in Calls : \A j : (Reviewing(c, j)' <=> Reviewing(c, j)) /\ (Started(c, j)' <=> Started(c, j))
    BY DEF Reviewing, Started
<1>2. \A r \in Reports : report[r].wf = 0 \/ report[r].wf \in Instances
    BY DEF ExpenseRows, ReportRow
<1>3. ExpenseRows'
    BY DEF ExpenseRows, FilesNamed
<1>4. ReceiptsInv'
    <2>1. \A c \in Calls : Stores(c)' <=> Stores(c)
        BY DEF Stores
    <2>2. \A r \in Reports, c \in Calls : StoresFor(c, r)' <=> StoresFor(c, r)
        BY <2>1 DEF StoresFor
    <2>3. QED BY <2>1, <2>2 DEF ReceiptsInv, StoreInv
<1>5. ReviewsInv'
    <2>1. \A c \in Calls, j \in Instances : Reviewing(c, j) => Gave(inst'[j].said, expCall[c].review, expCall[c].verdict)
        BY DEF ReviewsInv
    <2>2. ASSUME NEW r \in Reports PROVE StandsFor(r)'
        <3>1. CASE report[r].wf = i
            BY <3>1 DEF StandsFor, Said
        <3>2. CASE report[r].wf # i /\ report[r].wf # 0
            <4>1. inst'[report[r].wf] = inst[report[r].wf]
                BY <3>2, <1>2
            <4>2. QED BY <4>1 DEF ReviewsInv, StandsFor, Said
        <3>3. CASE report[r].wf = 0
            <4>1. report[r].status \in {"none", "DRAFT"}
                BY <3>3 DEF ExpenseRows
            <4>2. QED BY <4>1 DEF StandsFor
        <3>4. QED BY <3>1, <3>2, <3>3
    <2>3. \A r \in Reports, c \in Calls : Reviewing(c, report[r].wf)' <=> Reviewing(c, report[r].wf)
        BY DEF Reviewing
    <2>4. QED BY <1>1, <2>1, <2>2, <2>3 DEF ReviewsInv
<1>6. OwnersInv'
    <2>1. \A j \in Instances : inst[j].stage # "none" => inst'[j].stage # "none"
        OBVIOUS
    <2>2. \A r \in Reports : report'[r].wf # 0 => inst'[report'[r].wf].stage # "none"
        BY <1>2, <2>1 DEF OwnersInv
    <2>3. QED BY <1>1, <2>1, <2>2 DEF OwnersInv
<1>7. WaitsInv'
    <2>1. ASSUME NEW c \in Calls, NEW j \in Instances \ late', Started(c, j)', expCall'[c].at = "write"
          PROVE  inst'[j].stage = "first" /\ \A d \in Calls : ~Reviewing(d, j)'
        <3>1. j # i /\ j \notin late /\ Started(c, j)
            BY <2>1, <1>1
        <3>2. QED BY <2>1, <3>1, <1>1 DEF WaitsInv
    <2>2. \A j \in Instances \ late', c, d \in Calls : Reviewing(c, j)' /\ Reviewing(d, j)' => c = d
        BY <1>1 DEF WaitsInv
    <2>3. ASSUME NEW r \in Reports, report'[r].wf \notin late' \cup {0}
          PROVE  /\ report[r].wf \notin late \cup {0} /\ report'[r] = report[r]
                 /\ inst'[report[r].wf] = inst[report[r].wf]
                 /\ \A c \in Calls : Reviewing(c, report[r].wf)' <=> Reviewing(c, report[r].wf)
        <3>1. report'[r] = report[r] /\ report[r].wf \notin late \cup {0} /\ report[r].wf # i
            BY <2>3
        <3>2. QED BY <3>1, <1>2 DEF Reviewing
    <2>4. QED BY <2>1, <2>2, <2>3 DEF WaitsInv
<1>8. ItemsInv'
    BY DEF ItemsInv, Patching
<1>9. QED BY <1>3, <1>4, <1>5, <1>6, <1>7, <1>8

LEMMA ExpenseOverruledKeeps == ASSUME ExpenseInv, ExpenseOverruled PROVE ExpenseInv'
<1> USE DEF ExpenseInv
<1>1. PICK i \in Instances : Overrules(i, 2) /\ late' = late \cup {i}
    BY DEF ExpenseOverruled
<1>2. UNCHANGED << report, expCall, page, files, written, asked, twice, sameName >> /\ late' \subseteq Instances
    BY <1>1 DEF ExpenseOverruled, ExpenseRows
<1>3. CASE EndInstance(i)
    <2>1. /\ InstInv' /\ inst'[i].stage = "ended" /\ inst'[i].said = inst[i].said
          /\ \A j \in Instances : j # i => inst'[j] = inst[j]
        BY <1>3, InstEnds DEF ExpenseRows
    <2>2. \A c \in Calls : Reviewing(c, i) => Gave(inst'[i].said, expCall[c].review, expCall[c].verdict)
        BY <2>1 DEF ReviewsInv
    <2>3. \A r \in Reports : StandsFor(r)
        BY DEF ReviewsInv
    <2>4. QED BY <1>1, <1>2, <2>1, <2>2, <2>3, InServiceKeeps DEF StandsFor, Said
<1>4. ASSUME NEW v \in Verdicts, CompleteReview(i, v, 2) PROVE ExpenseInv'
    <2>1. /\ InstInv' /\ \A j \in Instances : j # i => inst'[j] = inst[j]
          /\ inst'[i].stage # "none"
          /\ \A d \in Calls : Reviewing(d, i) => Gave(inst'[i].said, expCall[d].review, expCall[d].verdict)
          /\ \A r \in Reports : report[r].wf = i =>
                /\ report[r].status \notin {"REJECTED", "REIMBURSED"}
                /\ report[r].status = "APPROVED_MANAGER" => inst'[i].said # << >> /\ inst'[i].said[1] = "approved"
        BY <1>4, OpenReview
    <2>2. QED BY <1>1, <1>2, <2>1, InServiceKeeps
<1>5. QED BY <1>1, <1>3, <1>4 DEF Overrules

LEMMA ExpenseRestartedKeeps == ASSUME ExpenseInv, ExpenseRestarted PROVE ExpenseInv'
<1> USE DEF ExpenseInv
<1>1. PICK i \in Instances : StartInstance(i)
    BY DEF ExpenseRestarted, RestartInstance
<1>2. UNCHANGED << report, expCall, page, files, written, asked, late, twice, sameName >> /\ late' \subseteq Instances
    BY DEF ExpenseRestarted, ExpenseRows
<1>3. /\ InstInv' /\ inst[i].stage = "none" /\ inst[i].said = << >> /\ inst'[i].stage = "first"
      /\ \A j \in Instances : j # i => inst'[j] = inst[j]
    BY <1>1, InstStarts DEF ExpenseRows
<1>4. \A r \in Reports : report[r].wf # i
    BY <1>3, InstancesAreNumbered DEF OwnersInv
<1>5. \A c \in Calls : ~Started(c, i)
    BY <1>3 DEF OwnersInv
<1>6. \A c \in Calls : ~Reviewing(c, i)
    <2>1. ASSUME NEW c \in Calls, Reviewing(c, i) PROVE FALSE
        <3>1. Gave(<< >>, expCall[c].review, expCall[c].verdict)
            BY <2>1, <1>3 DEF ReviewsInv
        <3>2. \A w : << "approved", w >> # << >>
            OBVIOUS
        <3>3. QED BY <3>1, <3>2 DEF Gave
    <2>2. QED BY <2>1
<1>7. QED BY <1>2, <1>3, <1>4, <1>5, <1>6, InServiceKeeps

LEMMA ExpenseInvNext == ExpenseInv /\ [ExpenseNext]_<< inst, expenseVars >> => ExpenseInv'
<1> SUFFICES ASSUME ExpenseInv, [ExpenseNext]_<< inst, expenseVars >> PROVE ExpenseInv'
    OBVIOUS
<1>1. CASE UNCHANGED << inst, expenseVars >>
    <2>1. UNCHANGED << inst, report, expCall, page, files, written, asked, late, twice, sameName >>
        BY <1>1 DEF expenseVars
    <2>2. InstInv <=> InstInv'
        BY <2>1 DEF InstInv
    <2>3. ExpenseRows'
        BY <2>1, <2>2 DEF ExpenseInv, ExpenseRows, FilesNamed
    <2>4. ReceiptsInv'
        BY <2>1 DEF ExpenseInv, ReceiptsInv, StoreInv, StoresFor, Stores
    <2>5. ReviewsInv'
        BY <2>1 DEF ExpenseInv, ReviewsInv, Reviewing, StandsFor, Said
    <2>6. OwnersInv' /\ WaitsInv'
        BY <2>1 DEF ExpenseInv, OwnersInv, WaitsInv, Started, Reviewing
    <2>7. ItemsInv'
        BY <2>1 DEF ExpenseInv, ItemsInv, Patching
    <2>8. QED BY <2>3, <2>4, <2>5, <2>6, <2>7 DEF ExpenseInv
<1>2. ASSUME NEW c \in Calls, FormSends(c) PROVE ExpenseInv'
    BY <1>2, FormSendsKeeps
<1>3. ASSUME NEW c \in Calls, FormRetries(c) \/ TabActs(c) \/ \E r \in Reports : TabOpens(c, r) \/ ItemsSent(c, r)
      PROVE  ExpenseInv'
    BY <1>3, FormKeeps
<1>4. ASSUME NEW c \in Calls, UploadBegins(c) \/ UploadRecords(c) \/ UploadUnlinks(c) PROVE ExpenseInv'
    BY <1>4, UploadBeginsKeeps, UploadRecordsKeeps, UploadUnlinksKeeps
<1>5. ASSUME NEW c \in Calls, PatchBegins(c) \/ PatchStarts(c) \/ PatchWrites(c) \/ PatchCancels(c) PROVE ExpenseInv'
    BY <1>5, PatchBeginsKeeps, PatchStartsKeeps, PatchWritesKeeps, PatchCancelsKeeps
<1>6. ASSUME NEW c \in Calls, ReviewDecided(c) \/ ReviewFinds(c) \/ ReviewSyncs(c) PROVE ExpenseInv'
    BY <1>6, ReviewDecidedKeeps, ReviewFindsKeeps, ReviewSyncsKeeps
<1>7. CASE ExpenseOverruled \/ ExpenseRestarted
    BY <1>7, ExpenseOverruledKeeps, ExpenseRestartedKeeps
<1>8. QED BY <1>1, <1>2, <1>3, <1>4, <1>5, <1>6, <1>7 DEF ExpenseNext

\* However submissions, uploads and reviews of expense reports interleave and fail, and whatever operators do to the
\* approvals, a report never claims a verdict its approval did not give; it waits for a review that is open, unless a
\* review overtook a write, lost its own, or an operator closed the approval; it was approved with the items it was
\* submitted with, unless two PATCHes of it overlapped; and it points at a receipt that is on disk, unless two of its
\* receipts were uploaded in one millisecond.
THEOREM ExpenseReportsHold == ExpenseSpec => [](InstTypeOK /\ ExpenseTypeOK /\ ExpenseApprovalsHold /\ ReceiptsExist)
<1>1. InstInit /\ ExpenseInit => ExpenseInv
    BY ExpenseInvInit
<1>2. ExpenseInv /\ [ExpenseNext]_<< inst, expenseVars >> => ExpenseInv'
    BY ExpenseInvNext
<1>3. ExpenseInv => InstTypeOK /\ ExpenseTypeOK /\ ExpenseApprovalsHold /\ ReceiptsExist
    BY ExpenseInvShows
<1>4. QED BY <1>1, <1>2, <1>3, PTL DEF ExpenseSpec

-----------------------------------------------------------------------------
(* The approval of a timesheet                                              *)

SheetRow == [status : SheetStatuses, wf : Instances \cup {0}, entries : 0..MaxEntries]
SheetCall == [at : SheetSteps, i : Instances \cup {0}, entries : 0..MaxEntries, review : {"none", "first", "second"},
              verdict : Verdicts \cup {""}]

\* What a request holds, by what it is at.
SheetFits(s) ==
    /\ s.at = "idle" => s = NoSheetCall
    /\ s.at \in {"edit", "start"} => s.i = 0
    /\ s.at = "start" => s.entries # 0
    /\ s.at \in {"write", "find", "sync"} => s.i \in Instances
    /\ s.at \in {"find", "sync"} => s.review # "none" /\ s.verdict \in Verdicts

SheetRows ==
    /\ InstInv
    /\ sheet \in SheetRow /\ (sheet.wf = 0 <=> sheet.status \in {"none", "draft"})
    /\ sheetCall \in [SheetCalls -> SheetCall] /\ \A c \in SheetCalls : SheetFits(sheetCall[c])
    /\ totals \in [Instances -> 0..MaxEntries]
    /\ \A i \in Instances : totals[i] = 0 <=> inst[i].stage = "none"
    /\ sheet.wf # 0 => inst[sheet.wf].stage # "none"
    /\ \A c \in SheetCalls : sheetCall[c].i # 0 => inst[sheetCall[c].i].stage # "none"
    /\ \A c \in SheetCalls : sheetCall[c].at = "sync" => sheet.wf # 0
    /\ overtaken \in BOOLEAN /\ crossed \in BOOLEAN

Undisturbed == ~overtaken /\ ~crossed
Editing(c) == sheetCall[c].at \in {"edit", "start", "write"}
Submitting(c) == sheetCall[c].at \in {"start", "write"}

\* Nothing is said twice about an approval, and the sheet stays as it was read while it is edited or submitted.
EditsInv ==
    Undisturbed =>
       /\ \A c, d \in SheetCalls : sheetCall[c].i # 0 /\ sheetCall[c].i = sheetCall[d].i => c = d
       /\ \A c \in SheetCalls : Editing(c) => sheet.status \in Open
       /\ \A c, d \in SheetCalls : Submitting(c) /\ Editing(d) => c = d
       /\ \A c \in SheetCalls : sheetCall[c].at = "start" => sheetCall[c].entries = sheet.entries
       /\ \A c \in SheetCalls : sheetCall[c].at = "write" =>
             /\ totals[sheetCall[c].i] = sheet.entries /\ inst[sheetCall[c].i].said = << >>
             /\ sheet.wf # sheetCall[c].i

\* What the sheet said before a review it has yet to be told of.
Before(review) == IF review = "first" THEN "pending_manager_review" ELSE "pending_hr_review"

\* The sheet says what its approval said, or is about to be told.
SaysInv ==
    Undisturbed =>
       /\ sheet.wf # 0 /\ (\A c \in SheetCalls : sheetCall[c].i # sheet.wf) => sheet.status = Due(sheet.wf)
       /\ \A c \in SheetCalls : sheetCall[c].i # 0 /\ sheetCall[c].i = sheet.wf =>
             /\ sheetCall[c].at \in {"find", "sync"}
             /\ sheet.status = Before(sheetCall[c].review)
             /\ Due(sheet.wf) = Outcome(sheetCall[c].review, sheetCall[c].verdict)
       /\ \A c \in SheetCalls : sheetCall[c].at = "sync" => sheetCall[c].i = sheet.wf
       /\ sheet.wf # 0 /\ sheet.status \notin Open => sheet.entries = totals[sheet.wf]

SheetInv == SheetRows /\ EditsInv /\ SaysInv

LEMMA NoSheetCallFits == NoSheetCall \in SheetCall /\ SheetFits(NoSheetCall) /\ NoSheetCall.at = "idle" /\ NoSheetCall.i = 0
BY SheetAssumption DEF NoSheetCall, SheetCall, SheetFits, SheetSteps

LEMMA SheetInvInit == InstInit /\ SheetInit => SheetInv
<1> SUFFICES ASSUME InstInit, SheetInit PROVE SheetInv
    OBVIOUS
<1>1. sheetCall \in [SheetCalls -> SheetCall] /\ \A c \in SheetCalls : sheetCall[c] = NoSheetCall
    BY NoSheetCallFits DEF SheetInit
<1>2. sheet \in SheetRow /\ sheet.status = "none" /\ sheet.wf = 0
    BY SheetAssumption DEF SheetInit, SheetRow, SheetStatuses
<1>3. \A i \in Instances : totals[i] = 0 /\ inst[i].stage = "none"
    BY DEF SheetInit, InstInit, Unstarted
<1>4. totals \in [Instances -> 0..MaxEntries]
    BY SheetAssumption DEF SheetInit
<1>5. SheetRows
    BY <1>1, <1>2, <1>3, <1>4, NoSheetCallFits, InstInvInit DEF SheetRows, SheetInit
<1>6. EditsInv
    BY <1>1, NoSheetCallFits DEF EditsInv, Editing, Submitting
<1>7. SaysInv
    BY <1>1, <1>2, NoSheetCallFits DEF SaysInv
<1>8. QED BY <1>5, <1>6, <1>7 DEF SheetInv

\* What an approval's reviews come to.
DueFor(said) ==
    IF said = << >> THEN "pending_manager_review" ELSE Outcome(IF Len(said) = 1 THEN "first" ELSE "second", said[Len(said)])

LEMMA DueForSays ==
    /\ DueFor(<< >>) = "pending_manager_review"
    /\ \A v : DueFor(<< v >>) = Outcome("first", v)
    /\ \A v : DueFor(<< "approved", v >>) = Outcome("second", v)
<1>1. \A v : << v >> # << >> /\ Len(<< v >>) = 1 /\ << v >>[1] = v
    OBVIOUS
<1>2. \A v : << "approved", v >> # << >> /\ Len(<< "approved", v >>) = 2 /\ << "approved", v >>[2] = v
    OBVIOUS
<1>3. QED BY <1>1, <1>2 DEF DueFor

LEMMA SheetInvShows == SheetInv => SheetTypeOK /\ TimesheetApprovalsHold
<1> SUFFICES ASSUME SheetInv PROVE SheetTypeOK /\ TimesheetApprovalsHold
    OBVIOUS
<1>1. \A i \in Instances : inst[i].stage = "none" <=> inst[i] = Unstarted
    <2>1. ASSUME NEW i \in Instances, inst[i].stage = "none" PROVE inst[i] = Unstarted
        <3>1. inst[i] \in InstRow /\ inst[i].said = << >>
            BY <2>1 DEF SheetInv, SheetRows, InstInv, Life
        <3>2. \A x \in InstRow : x = [stage |-> x.stage, said |-> x.said]
            BY DEF InstRow
        <3>3. QED BY <2>1, <3>1, <3>2 DEF Unstarted
    <2>2. Unstarted.stage = "none"
        BY DEF Unstarted
    <2>3. QED BY <2>1, <2>2
<1>2. SheetTypeOK
    BY <1>1 DEF SheetInv, SheetRows, SheetTypeOK, SheetRow, SheetCall, SheetFits
<1>3. ASSUME Undisturbed, sheet.wf # 0
      PROVE  /\ (\A c \in SheetCalls : sheetCall[c].i # sheet.wf) => sheet.status = Due(sheet.wf)
             /\ sheet.status = "approved" => Said(sheet.wf, << "approved", "approved" >>)
             /\ sheet.status \notin Open => sheet.entries = totals[sheet.wf]
    <2>1. PICK i \in Instances : i = sheet.wf
        BY <1>3 DEF SheetInv, SheetRows, SheetRow
    <2>2. (\A c \in SheetCalls : sheetCall[c].i # sheet.wf) => sheet.status = Due(sheet.wf)
        BY <1>3 DEF SheetInv, SaysInv
    <2>3. ASSUME sheet.status = "approved" PROVE inst[i].said = << "approved", "approved" >>
        <3>1. \A c \in SheetCalls : sheetCall[c].i # sheet.wf
            BY <1>3, <2>3 DEF SheetInv, SaysInv, Before
        <3>2. DueFor(inst[i].said) = "approved"
            BY <2>1, <2>2, <2>3, <3>1 DEF Due, DueFor
        <3>3. inst[i].said = << >> \/ \E v \in Verdicts : inst[i].said = << v >> \/ inst[i].said = << "approved", v >>
            BY DEF SheetInv, SheetRows, InstInv, InstRow, Life, Stages, Verdicts
        <3>4. \A v \in Verdicts : Outcome("first", v) # "approved" /\ (Outcome("second", v) = "approved" => v = "approved")
            BY DEF Outcome, Verdicts
        <3>5. QED BY <3>2, <3>3, <3>4, DueForSays
    <2>4. QED BY <1>3, <2>1, <2>2, <2>3 DEF SheetInv, SaysInv, Said
<1>4. QED BY <1>2, <1>3 DEF TimesheetApprovalsHold, Undisturbed

LEMMA SheetCallChanges ==
    ASSUME SheetRows, NEW c \in SheetCalls, NEW s \in SheetCall, sheetCall' = [sheetCall EXCEPT ![c] = s]
    PROVE  /\ sheetCall'[c] = s /\ \A d \in SheetCalls : d # c => sheetCall'[d] = sheetCall[d]
           /\ SheetFits(s) => sheetCall' \in [SheetCalls -> SheetCall] /\ \A d \in SheetCalls : SheetFits(sheetCall'[d])
BY DEF SheetRows

LEMMA SheetCreatedKeeps == ASSUME SheetInv, SheetCreated PROVE SheetInv'
<1> USE DEF SheetInv
<1>1. /\ sheet.status = "none" /\ UNCHANGED << inst, sheetCall, totals, overtaken, crossed >>
      /\ sheet' \in SheetRow /\ sheet'.status = "draft" /\ sheet'.wf = sheet.wf /\ sheet'.entries = sheet.entries
    BY DEF SheetCreated, SheetRows, SheetRow, SheetStatuses
<1>2. sheet.wf = 0
    BY <1>1 DEF SheetRows
<1>3. Undisturbed' <=> Undisturbed
    BY <1>1 DEF Undisturbed
<1>4. Undisturbed => \A c \in SheetCalls : ~Editing(c) /\ sheetCall[c].at # "start" /\ sheetCall[c].at # "write"
    BY <1>1 DEF EditsInv, Open, Editing
<1>5. SheetRows'
    <2>1. InstInv'
        BY <1>1 DEF SheetRows, InstInv
    <2>2. QED BY <1>1, <1>2, <2>1 DEF SheetRows
<1>6. EditsInv'
    BY <1>1, <1>3, <1>4 DEF EditsInv, Editing, Submitting
<1>7. SaysInv'
    BY <1>1, <1>2, <1>3 DEF SaysInv, Open
<1>8. QED BY <1>5, <1>6, <1>7

\* The routes that have read the sheet and have yet to write.
LEMMA SheetBeginsKeeps ==
    ASSUME SheetInv, NEW c \in SheetCalls, EntryBegins(c) \/ SubmitBegins(c) PROVE SheetInv'
<1> USE DEF SheetInv
<1>1. PICK at \in {"edit", "start"}, n \in 0..MaxEntries :
         /\ sheetCall' = [sheetCall EXCEPT ![c] = [NoSheetCall EXCEPT !.at = at, !.entries = n]]
         /\ at = "start" => n # 0 /\ n = sheet.entries
         /\ Meets(c, IF at = "start" THEN {"edit", "start", "write"} ELSE {"start", "write"})
    <2>1. CASE EntryBegins(c)
        BY <2>1 DEF EntryBegins, Calls1
    <2>2. CASE SubmitBegins(c)
        <3>1. sheet.entries \in 0..MaxEntries
            BY DEF SheetRows, SheetRow
        <3>2. QED BY <2>2, <3>1 DEF SubmitBegins, Calls1
    <2>3. QED BY <2>1, <2>2
<1>2. sheet.status \in Open /\ sheetCall[c].at = "idle" /\ UNCHANGED << inst, sheet, totals, overtaken >>
    BY DEF EntryBegins, SubmitBegins, Calls1
<1> DEFINE s == [NoSheetCall EXCEPT !.at = at, !.entries = n]
<1>3. s \in SheetCall /\ s.at = at /\ s.i = 0 /\ s.entries = n
    BY NoSheetCallFits DEF SheetCall, SheetSteps
<1>4. sheetCall' = [sheetCall EXCEPT ![c] = s]
    BY <1>1
<1> HIDE DEF s
<1>5. SheetFits(s)
    BY <1>1, <1>3 DEF SheetFits
<1>6. sheetCall'[c] = s /\ \A d \in SheetCalls : d # c => sheetCall'[d] = sheetCall[d]
    BY <1>3, <1>4, SheetCallChanges
<1>7. sheetCall[c].i = 0
    BY <1>2, NoSheetCallFits DEF SheetRows, SheetFits
<1>8. /\ Undisturbed' => Undisturbed
      /\ Undisturbed' => \A d \in SheetCalls : d # c => ~Submitting(d) /\ (at = "start" => ~Editing(d))
    <2>1. Undisturbed' => Undisturbed
        BY <1>1, <1>2 DEF Meets, Undisturbed
    <2>2. CASE at = "start"
        <3>1. Undisturbed' => ~\E d \in SheetCalls \ {c} : sheetCall[d].at \in {"edit", "start", "write"}
            BY <1>1, <2>2 DEF Meets, Undisturbed
        <3>2. QED BY <2>1, <3>1 DEF Submitting, Editing
    <2>3. CASE at = "edit"
        <3>1. Undisturbed' => ~\E d \in SheetCalls \ {c} : sheetCall[d].at \in {"start", "write"}
            BY <1>1, <2>3 DEF Meets, Undisturbed
        <3>2. QED BY <2>1, <2>3, <3>1 DEF Submitting
    <2>4. QED BY <2>2, <2>3
<1>9. \A d \in SheetCalls : sheetCall'[d].i = sheetCall[d].i /\ (sheetCall[d].i # 0 => sheetCall'[d] = sheetCall[d])
    BY <1>3, <1>6, <1>7
<1>10. SheetRows'
    <2>1. InstInv'
        BY <1>2 DEF SheetRows, InstInv
    <2>2. sheetCall' \in [SheetCalls -> SheetCall] /\ \A d \in SheetCalls : SheetFits(sheetCall'[d])
        BY <1>3, <1>4, <1>5, SheetCallChanges
    <2>3. crossed' \in BOOLEAN
        BY <1>1 DEF Meets, SheetRows
    <2>4. \A d \in SheetCalls : sheetCall'[d].at = "sync" => sheet.wf # 0
        BY <1>3, <1>6 DEF SheetRows
    <2>5. QED BY <1>2, <1>9, <2>1, <2>2, <2>3, <2>4 DEF SheetRows
<1>11. EditsInv'
    <2>1. ASSUME Undisturbed'
          PROVE  /\ \A d, e \in SheetCalls : sheetCall'[d].i # 0 /\ sheetCall'[d].i = sheetCall'[e].i => d = e
                 /\ \A d \in SheetCalls : Editing(d)' => sheet'.status \in Open
                 /\ \A d, e \in SheetCalls : Submitting(d)' /\ Editing(e)' => d = e
                 /\ \A d \in SheetCalls : sheetCall'[d].at = "start" => sheetCall'[d].entries = sheet'.entries
                 /\ \A d \in SheetCalls : sheetCall'[d].at = "write" =>
                       /\ totals'[sheetCall'[d].i] = sheet'.entries /\ inst'[sheetCall'[d].i].said = << >>
                       /\ sheet'.wf # sheetCall'[d].i
        <3>1. \A d \in SheetCalls : Submitting(d)' => d = c /\ at = "start"
            BY <2>1, <1>3, <1>6, <1>8 DEF Submitting
        <3>2. \A e \in SheetCalls : Editing(e)' /\ at = "start" => e = c
            BY <2>1, <1>6, <1>8 DEF Editing
        <3>3. \A d \in SheetCalls : sheetCall'[d].at # "write"
            BY <3>1, <1>3, <1>6 DEF Submitting
        <3>4. \A d \in SheetCalls : sheetCall'[d].at = "start" => sheetCall'[d].entries = sheet'.entries
            BY <2>1, <3>1, <1>1, <1>2, <1>3, <1>6 DEF Submitting
        <3>5. QED BY <2>1, <3>1, <3>2, <3>3, <3>4, <1>2, <1>8, <1>9 DEF EditsInv
    <2>2. QED BY <2>1 DEF EditsInv
<1>12. SaysInv'
    <2>1. \A d \in SheetCalls : sheetCall'[d].at = "sync" => sheetCall[d].at = "sync"
        BY <1>3, <1>6
    <2>2. Due(sheet.wf)' = Due(sheet.wf)
        BY <1>2 DEF Due
    <2>3. QED BY <2>1, <2>2, <1>2, <1>8, <1>9 DEF SaysInv
<1>13. QED BY <1>10, <1>11, <1>12

LEMMA EntryWritesKeeps == ASSUME SheetInv, NEW c \in SheetCalls, EntryWrites(c) PROVE SheetInv'
<1> USE DEF SheetInv
<1>1. /\ sheetCall[c].at = "edit" /\ sheetCall' = [sheetCall EXCEPT ![c] = NoSheetCall]
      /\ UNCHANGED << inst, totals, overtaken, crossed >>
    BY DEF EntryWrites, Returns
<1>2. sheetCall[c] \in SheetCall /\ sheetCall[c].i = 0
    BY <1>1 DEF SheetRows, SheetFits
<1>3. sheet' \in SheetRow /\ sheet'.status = sheet.status /\ sheet'.wf = sheet.wf
    BY <1>2 DEF EntryWrites, SheetRows, SheetRow, SheetCall
<1>4. sheetCall'[c] = NoSheetCall /\ \A d \in SheetCalls : d # c => sheetCall'[d] = sheetCall[d]
    BY <1>1, SheetCallChanges, NoSheetCallFits
<1>5. \A d \in SheetCalls : sheetCall'[d].i = sheetCall[d].i /\ (sheetCall[d].i # 0 => sheetCall'[d] = sheetCall[d])
    BY <1>2, <1>4, NoSheetCallFits
<1>6. Undisturbed' <=> Undisturbed
    BY <1>1 DEF Undisturbed
<1>7. Undisturbed => sheet.status \in Open /\ \A d \in SheetCalls : sheetCall[d].at # "start" /\ sheetCall[d].at # "write"
    BY <1>1 DEF EditsInv, Editing, Submitting
<1>8. \A d \in SheetCalls : sheetCall'[d].at \in {"start", "write", "edit", "sync"} => d # c /\ sheetCall'[d] = sheetCall[d]
    BY <1>4, NoSheetCallFits
<1>9. SheetRows'
    <2>1. InstInv'
        BY <1>1 DEF SheetRows, InstInv
    <2>2. sheetCall' \in [SheetCalls -> SheetCall] /\ \A d \in SheetCalls : SheetFits(sheetCall'[d])
        BY <1>1, NoSheetCallFits, SheetCallChanges
    <2>3. \A d \in SheetCalls : sheetCall'[d].at = "sync" => sheet'.wf # 0
        BY <1>3, <1>8 DEF SheetRows
    <2>4. QED BY <1>1, <1>3, <1>5, <2>1, <2>2, <2>3 DEF SheetRows
<1>10. EditsInv'
    <2>1. \A d \in SheetCalls : (Editing(d)' => Editing(d)) /\ (Submitting(d)' => Submitting(d))
        BY <1>8 DEF Editing, Submitting
    <2>2. Undisturbed' => \A d \in SheetCalls : sheetCall'[d].at # "start" /\ sheetCall'[d].at # "write"
        BY <1>6, <1>7, <1>8
    <2>3. QED BY <1>3, <1>5, <1>6, <2>1, <2>2 DEF EditsInv
<1>11. SaysInv'
    <2>1. PICK i : i = sheet.wf
        OBVIOUS
    <2>2. Due(i)' = Due(i) /\ Due(sheet.wf)' = Due(i)'
        BY <1>1, <1>3, <2>1 DEF Due
    <2>3. QED BY <1>3, <1>5, <1>6, <1>7, <1>8, <2>1, <2>2 DEF SaysInv
<1>12. QED BY <1>9, <1>10, <1>11

LEMMA SubmitStartsKeeps == ASSUME SheetInv, NEW c \in SheetCalls, SubmitStarts(c) PROVE SheetInv'
<1> USE DEF SheetInv
<1>1. sheetCall[c].at = "start" /\ UNCHANGED << sheet, overtaken, crossed >>
    BY DEF SubmitStarts
<1>2. PICK x \in SheetCall : x = sheetCall[c]
    BY DEF SheetRows
<1>3. x.i = 0 /\ x.entries # 0 /\ x.entries \in 0..MaxEntries
    BY <1>1, <1>2 DEF SheetRows, SheetFits, SheetCall
<1>4. Undisturbed' <=> Undisturbed
    BY <1>1 DEF Undisturbed
<1>5. Undisturbed => /\ sheet.status \in Open /\ x.entries = sheet.entries
                     /\ \A d \in SheetCalls : d # c => ~Editing(d)
    BY <1>1, <1>2 DEF EditsInv, Editing, Submitting
<1>6. CASE Returns(c) /\ UNCHANGED << inst, totals >>
    <2>1. sheetCall' = [sheetCall EXCEPT ![c] = NoSheetCall]
        BY <1>6 DEF Returns
    <2>2. sheetCall'[c] = NoSheetCall /\ \A d \in SheetCalls : d # c => sheetCall'[d] = sheetCall[d]
        BY <2>1, SheetCallChanges, NoSheetCallFits
    <2>3. \A d \in SheetCalls : sheetCall'[d].i = sheetCall[d].i /\ (sheetCall[d].i # 0 => sheetCall'[d] = sheetCall[d])
        BY <1>2, <1>3, <2>2, NoSheetCallFits
    <2>4. \A d \in SheetCalls : sheetCall'[d].at \in {"start", "write", "edit", "sync"} => d # c /\ sheetCall'[d] = sheetCall[d]
        BY <2>2, NoSheetCallFits
    <2>5. SheetRows'
        <3>1. InstInv'
            BY <1>6 DEF SheetRows, InstInv
        <3>2. sheetCall' \in [SheetCalls -> SheetCall] /\ \A d \in SheetCalls : SheetFits(sheetCall'[d])
            BY <2>1, NoSheetCallFits, SheetCallChanges
        <3>3. \A d \in SheetCalls : sheetCall'[d].at = "sync" => sheet'.wf # 0
            BY <1>1, <2>4 DEF SheetRows
        <3>4. QED BY <1>1, <1>6, <2>3, <3>1, <3>2, <3>3 DEF SheetRows
    <2>6. EditsInv'
        <3>1. \A d \in SheetCalls : (Editing(d)' => Editing(d) /\ d # c) /\ (Submitting(d)' => Submitting(d))
            BY <2>4 DEF Editing, Submitting
        <3>2. Undisturbed => \A d \in SheetCalls : sheetCall'[d].at # "start" /\ sheetCall'[d].at # "write"
            BY <1>5, <2>2, NoSheetCallFits DEF Editing
        <3>3. QED BY <1>1, <1>4, <2>3, <3>1, <3>2 DEF EditsInv
    <2>7. SaysInv'
        <3>1. Due(sheet.wf)' = Due(sheet.wf)
            BY <1>1, <1>6 DEF Due
        <3>2. QED BY <1>1, <1>4, <1>6, <2>3, <2>4, <3>1 DEF SaysInv
    <2>8. QED BY <2>5, <2>6, <2>7
<1>7. ASSUME NEW i \in Instances, StartInstance(i), totals' = [totals EXCEPT ![i] = sheetCall[c].entries],
             NEW s \in SheetCall, SheetFits(s), sheetCall' = [sheetCall EXCEPT ![c] = s],
             s = NoSheetCall \/ (s.at = "write" /\ s.i = i)
      PROVE  SheetInv'
    <2>1. sheetCall'[c] = s /\ \A d \in SheetCalls : d # c => sheetCall'[d] = sheetCall[d]
        BY <1>7, SheetCallChanges
    <2>2. /\ InstInv' /\ inst[i].stage = "none" /\ inst'[i].stage = "first" /\ inst'[i].said = << >>
          /\ \A j \in Instances : j # i => inst'[j] = inst[j]
        BY <1>7, InstStarts DEF SheetRows
    <2>3. i # 0
        BY InstancesAreNumbered
    <2>4. sheet.wf # i /\ \A d \in SheetCalls : sheetCall[d].i # i
        BY <2>2, <2>3 DEF SheetRows
    <2>5. totals' \in [Instances -> 0..MaxEntries] /\ totals'[i] = x.entries /\ \A j \in Instances : j # i => totals'[j] = totals[j]
        BY <1>2, <1>3, <1>7 DEF SheetRows
    <2>6. \A d \in SheetCalls : d # c /\ sheetCall[d].i # 0 => sheetCall[d].i \in Instances /\ inst'[sheetCall[d].i] = inst[sheetCall[d].i]
        BY <2>2, <2>4 DEF SheetRows, SheetCall
    <2>7. s.i = 0 \/ s.i = i
        BY <1>7, NoSheetCallFits
    <2>8. sheet.wf # 0 => sheet.wf \in Instances /\ inst'[sheet.wf] = inst[sheet.wf] /\ totals'[sheet.wf] = totals[sheet.wf]
        BY <2>2, <2>4, <2>5 DEF SheetRows, SheetRow
    <2>9. \A d \in SheetCalls : sheetCall'[d].at \in {"start", "edit", "sync", "find"} => d # c /\ sheetCall'[d] = sheetCall[d]
        BY <1>7, <2>1, NoSheetCallFits
    <2>10. SheetRows'
        <3>1. sheetCall' \in [SheetCalls -> SheetCall] /\ \A d \in SheetCalls : SheetFits(sheetCall'[d])
            BY <1>7, SheetCallChanges
        <3>2. \A j \in Instances : totals'[j] = 0 <=> inst'[j].stage = "none"
            BY <1>3, <2>2, <2>5 DEF SheetRows
        <3>3. sheet'.wf # 0 => inst'[sheet'.wf].stage # "none"
            BY <1>1, <2>8 DEF SheetRows
        <3>4. \A d \in SheetCalls : sheetCall'[d].i # 0 => inst'[sheetCall'[d].i].stage # "none"
            BY <2>1, <2>2, <2>6, <2>7 DEF SheetRows
        <3>5. \A d \in SheetCalls : sheetCall'[d].at = "sync" => sheet'.wf # 0
            BY <1>1, <2>9 DEF SheetRows
        <3>6. QED BY <1>1, <2>2, <2>5, <3>1, <3>2, <3>3, <3>4, <3>5 DEF SheetRows
    <2>11. EditsInv'
        <3>1. ASSUME Undisturbed'
              PROVE  /\ \A d, e \in SheetCalls : sheetCall'[d].i # 0 /\ sheetCall'[d].i = sheetCall'[e].i => d = e
                     /\ \A d \in SheetCalls : Editing(d)' => sheet'.status \in Open
                     /\ \A d, e \in SheetCalls : Submitting(d)' /\ Editing(e)' => d = e
                     /\ \A d \in SheetCalls : sheetCall'[d].at = "start" => sheetCall'[d].entries = sheet'.entries
                     /\ \A d \in SheetCalls : sheetCall'[d].at = "write" =>
                           /\ totals'[sheetCall'[d].i] = sheet'.entries /\ inst'[sheetCall'[d].i].said = << >>
                           /\ sheet'.wf # sheetCall'[d].i
            <4>1. \A d, e \in SheetCalls : sheetCall'[d].i # 0 /\ sheetCall'[d].i = sheetCall'[e].i => d = e
                BY <3>1, <1>4, <2>1, <2>4, <2>7 DEF EditsInv
            <4>2. \A d \in SheetCalls : Editing(d)' => d = c
                BY <3>1, <1>4, <1>5, <2>1 DEF Editing
            <4>3. \A d \in SheetCalls : Submitting(d)' => d = c /\ s.at = "write" /\ s.i = i
                BY <3>1, <1>4, <1>5, <1>7, <2>1, NoSheetCallFits DEF Editing, Submitting
            <4>4. \A d \in SheetCalls : sheetCall'[d].at # "start"
                BY <4>3, <2>1 DEF Submitting
            <4>5. \A d \in SheetCalls : sheetCall'[d].at = "write" => sheetCall'[d].i = i
                BY <4>3, <2>1 DEF Submitting
            <4>6. QED BY <3>1, <4>1, <4>2, <4>3, <4>4, <4>5, <1>1, <1>4, <1>5, <2>2, <2>4, <2>5
        <3>2. QED BY <3>1 DEF EditsInv
    <2>12. SaysInv'
        <3>1. sheet.wf # 0 => Due(sheet.wf)' = Due(sheet.wf)
            BY <1>1, <2>8 DEF Due
        <3>2. \A d \in SheetCalls : sheetCall'[d].i # 0 /\ sheetCall'[d].i = sheet.wf => d # c /\ sheetCall'[d] = sheetCall[d]
            BY <2>1, <2>4, <2>7
        <3>3. \A d \in SheetCalls : sheetCall[d].i = sheet.wf /\ sheet.wf # 0 => d # c
            BY <1>2, <1>3
        <3>4. QED BY <1>1, <1>4, <2>1, <2>8, <2>9, <3>1, <3>2, <3>3 DEF SaysInv
    <2>13. QED BY <2>10, <2>11, <2>12
<1>8. ASSUME NEW i \in Instances, StartInstance(i), totals' = [totals EXCEPT ![i] = sheetCall[c].entries], Returns(c)
      PROVE  SheetInv'
    BY <1>7, <1>8, NoSheetCallFits DEF Returns
<1>9. ASSUME NEW i \in Instances, StartInstance(i), totals' = [totals EXCEPT ![i] = sheetCall[c].entries],
             sheetCall' = [sheetCall EXCEPT ![c].at = "write", ![c].i = i, ![c].entries = 0]
      PROVE  SheetInv'
    <2> DEFINE s == [x EXCEPT !.at = "write", !.i = i, !.entries = 0]
    <2>1. s \in SheetCall /\ s.at = "write" /\ s.i = i
        <3>1. 0 \in 0..MaxEntries
            BY SheetAssumption
        <3>2. QED BY <3>1 DEF SheetCall, SheetSteps
    <2>2. sheetCall' = [sheetCall EXCEPT ![c] = s]
        BY <1>2, <1>9
    <2> HIDE DEF s
    <2>3. SheetFits(s)
        BY <2>1 DEF SheetFits
    <2>4. QED BY <1>7, <1>9, <2>1, <2>2, <2>3
<1>10. QED BY <1>6, <1>8, <1>9 DEF SubmitStarts

LEMMA SubmitWritesKeeps == ASSUME SheetInv, NEW c \in SheetCalls, SubmitWrites(c) PROVE SheetInv'
<1> USE DEF SheetInv
<1>1. /\ sheetCall[c].at = "write" /\ sheetCall' = [sheetCall EXCEPT ![c] = NoSheetCall]
      /\ UNCHANGED << inst, totals, overtaken, crossed >>
    BY DEF SubmitWrites, Returns
<1>2. PICK i \in Instances : i = sheetCall[c].i
    BY <1>1 DEF SheetRows, SheetFits
<1>3. i # 0 /\ inst[i].stage # "none"
    BY <1>2, InstancesAreNumbered DEF SheetRows
<1>4. sheet' \in SheetRow /\ sheet'.status = "pending_manager_review" /\ sheet'.wf = i /\ sheet'.entries = sheet.entries
    BY <1>2 DEF SubmitWrites, SheetRows, SheetRow, SheetStatuses
<1>5. sheetCall'[c] = NoSheetCall /\ \A d \in SheetCalls : d # c => sheetCall'[d] = sheetCall[d]
    BY <1>1, SheetCallChanges, NoSheetCallFits
<1>6. \A d \in SheetCalls : sheetCall'[d].i # 0 \/ sheetCall'[d].at # "idle" => d # c /\ sheetCall'[d] = sheetCall[d]
    BY <1>5, NoSheetCallFits
<1>7. Undisturbed' <=> Undisturbed
    BY <1>1 DEF Undisturbed
<1>8. ASSUME Undisturbed
      PROVE  /\ sheet.status \in Open /\ totals[i] = sheet.entries /\ inst[i].said = << >>
             /\ \A d \in SheetCalls : d # c => sheetCall[d].i # i /\ ~Editing(d)
             /\ \A d \in SheetCalls : sheetCall[d].at # "sync"
    <2>1. Editing(c) /\ Submitting(c)
        BY <1>1 DEF Editing, Submitting
    <2>2. sheet.status \in Open /\ \A d \in SheetCalls : d # c => ~Editing(d)
        BY <1>8, <2>1 DEF EditsInv
    <2>3. totals[i] = sheet.entries /\ inst[i].said = << >> /\ \A d \in SheetCalls : d # c => sheetCall[d].i # i
        BY <1>1, <1>2, <1>3, <1>8 DEF EditsInv
    <2>4. ASSUME NEW d \in SheetCalls, sheetCall[d].at = "sync" PROVE FALSE
        <3>1. sheetCall[d].i = sheet.wf /\ sheetCall[d].i # 0
            BY <1>8, <2>4, InstancesAreNumbered DEF SaysInv, SheetRows, SheetFits
        <3>2. sheet.status = Before(sheetCall[d].review)
            BY <1>8, <3>1 DEF SaysInv
        <3>3. QED BY <2>2, <3>2 DEF Before, Open
    <2>5. QED BY <2>2, <2>3, <2>4
<1>9. SheetRows'
    <2>1. InstInv'
        BY <1>1 DEF SheetRows, InstInv
    <2>2. sheetCall' \in [SheetCalls -> SheetCall] /\ \A d \in SheetCalls : SheetFits(sheetCall'[d])
        BY <1>1, NoSheetCallFits, SheetCallChanges
    <2>3. \A d \in SheetCalls : sheetCall'[d].i # 0 => inst[sheetCall'[d].i].stage # "none"
        BY <1>6 DEF SheetRows
    <2>4. QED BY <1>1, <1>3, <1>4, <2>1, <2>2, <2>3 DEF SheetRows
<1>10. EditsInv'
    <2>1. ASSUME Undisturbed' PROVE \A d \in SheetCalls : ~Editing(d)' /\ ~Submitting(d)' /\ sheetCall'[d].at # "start" /\ sheetCall'[d].at # "write"
        BY <2>1, <1>5, <1>7, <1>8, NoSheetCallFits DEF Editing, Submitting
    <2>2. Undisturbed' => \A d, e \in SheetCalls : sheetCall'[d].i # 0 /\ sheetCall'[d].i = sheetCall'[e].i => d = e
        BY <1>6, <1>7 DEF EditsInv
    <2>3. QED BY <2>1, <2>2 DEF EditsInv
<1>11. SaysInv'
    <2>1. ASSUME Undisturbed'
          PROVE  /\ sheet'.status = Due(i)' /\ sheet'.entries = totals'[i]
                 /\ \A d \in SheetCalls : sheetCall'[d].i # i /\ sheetCall'[d].at # "sync"
        <3>1. Due(i)' = "pending_manager_review"
            BY <2>1, <1>1, <1>7, <1>8 DEF Due
        <3>2. QED BY <2>1, <3>1, <1>1, <1>3, <1>4, <1>5, <1>7, <1>8, NoSheetCallFits
    <2>2. Due(sheet.wf)' = Due(i)'
        BY <1>4 DEF Due
    <2>3. QED BY <2>1, <2>2, <1>4 DEF SaysInv
<1>12. QED BY <1>9, <1>10, <1>11

LEMMA HoursDecidedKeeps == ASSUME SheetInv, NEW c \in SheetCalls, HoursDecided(c) PROVE SheetInv'
<1> USE DEF SheetInv
<1>1. PICK i \in Instances, v \in Verdicts :
         /\ CompleteReview(i, v, 2)
         /\ overtaken' = (overtaken \/ \E d \in SheetCalls : sheetCall[d].i = i)
         /\ sheetCall[c].at = "idle"
         /\ sheetCall' = [sheetCall EXCEPT ![c] = [NoSheetCall EXCEPT !.at = "find", !.i = i, !.review = inst[i].stage, !.verdict = v]]
    BY DEF HoursDecided, Calls1
<1>2. UNCHANGED << sheet, totals, crossed >>
    BY DEF HoursDecided
<1>3. /\ InstInv'
      /\ \/ inst[i].stage = "first" /\ inst[i].said = << >> /\ inst'[i].said = << v >>
         \/ inst[i].stage = "second" /\ inst[i].said = << "approved" >> /\ inst'[i].said = << "approved", v >>
      /\ inst'[i].stage = IF v = "approved" /\ inst[i].stage = "first" THEN "second" ELSE "over"
      /\ \A j \in Instances : j # i => inst'[j] = inst[j]
    BY <1>1, InstReviewed DEF SheetRows
<1>4. PICK st \in {"first", "second"} : st = inst[i].stage
    BY <1>3
<1> DEFINE s == [NoSheetCall EXCEPT !.at = "find", !.i = i, !.review = st, !.verdict = v]
<1>5. s \in SheetCall /\ s.at = "find" /\ s.i = i /\ s.review = st /\ s.verdict = v
    BY NoSheetCallFits DEF SheetCall, SheetSteps
<1>6. sheetCall' = [sheetCall EXCEPT ![c] = s]
    BY <1>1, <1>4
<1> HIDE DEF s
<1>7. SheetFits(s)
    BY <1>5 DEF SheetFits
<1>8. sheetCall'[c] = s /\ \A d \in SheetCalls : d # c => sheetCall'[d] = sheetCall[d]
    BY <1>5, <1>6, SheetCallChanges
<1>9. i # 0
    BY InstancesAreNumbered
<1>10. /\ Undisturbed' => Undisturbed
       /\ Undisturbed' => \A d \in SheetCalls : sheetCall[d].i # i
    BY <1>1, <1>2 DEF Undisturbed
<1>11. inst[i].stage # "none" /\ inst'[i].stage # "none"
    BY <1>3
<1>12. \A d \in SheetCalls : sheetCall'[d].at \in {"start", "edit", "write", "sync"} => d # c /\ sheetCall'[d] = sheetCall[d]
    BY <1>5, <1>8
<1>13. /\ DueFor(inst[i].said) = Before(st) /\ DueFor(inst'[i].said) = Outcome(st, v)
    <2>1. CASE st = "first"
        BY <2>1, <1>3, <1>4, DueForSays DEF Before
    <2>2. CASE st = "second"
        <3>1. DueFor(<< "approved" >>) = Outcome("first", "approved") /\ DueFor(<< "approved", v >>) = Outcome("second", v)
            BY DueForSays
        <3>2. inst[i].said = << "approved" >> /\ inst'[i].said = << "approved", v >>
            BY <2>2, <1>3, <1>4
        <3>3. Outcome("first", "approved") = Before("second")
            BY DEF Outcome, Before
        <3>4. QED BY <2>2, <3>1, <3>2, <3>3
    <2>3. QED BY <2>1, <2>2
<1>14. SheetRows'
    <2>1. sheetCall' \in [SheetCalls -> SheetCall] /\ \A d \in SheetCalls : SheetFits(sheetCall'[d])
        BY <1>5, <1>6, <1>7, SheetCallChanges
    <2>2. overtaken' \in BOOLEAN
        BY <1>1 DEF SheetRows
    <2>3. \A j \in Instances : inst'[j].stage = "none" <=> inst[j].stage = "none"
        BY <1>3, <1>11
    <2>4. \A d \in SheetCalls : sheetCall'[d].i # 0 => inst'[sheetCall'[d].i].stage # "none"
        <3>1. \A d \in SheetCalls : sheetCall[d].i # 0 => sheetCall[d].i \in Instances /\ inst[sheetCall[d].i].stage # "none"
            BY DEF SheetRows, SheetCall
        <3>2. QED BY <3>1, <2>3, <1>5, <1>8, <1>11
    <2>5. sheet.wf # 0 => inst'[sheet.wf].stage # "none"
        <3>1. sheet.wf # 0 => sheet.wf \in Instances /\ inst[sheet.wf].stage # "none"
            BY DEF SheetRows, SheetRow
        <3>2. QED BY <3>1, <2>3
    <2>6. QED BY <1>2, <1>3, <1>12, <2>1, <2>2, <2>3, <2>4, <2>5 DEF SheetRows
<1>15. EditsInv'
    <2>1. ASSUME Undisturbed'
          PROVE  /\ \A d, e \in SheetCalls : sheetCall'[d].i # 0 /\ sheetCall'[d].i = sheetCall'[e].i => d = e
                 /\ \A d \in SheetCalls : sheetCall'[d].at = "write" =>
                       /\ totals'[sheetCall'[d].i] = sheet'.entries /\ inst'[sheetCall'[d].i].said = << >>
                       /\ sheet'.wf # sheetCall'[d].i
        <3>1. \A d, e \in SheetCalls : sheetCall'[d].i # 0 /\ sheetCall'[d].i = sheetCall'[e].i => d = e
            BY <2>1, <1>5, <1>8, <1>10 DEF EditsInv
        <3>2. ASSUME NEW d \in SheetCalls, sheetCall'[d].at = "write"
              PROVE  /\ totals'[sheetCall'[d].i] = sheet'.entries /\ inst'[sheetCall'[d].i].said = << >>
                     /\ sheet'.wf # sheetCall'[d].i
            <4>1. sheetCall'[d] = sheetCall[d] /\ sheetCall[d].i # i /\ sheetCall[d].i \in Instances
                BY <2>1, <3>2, <1>10, <1>12 DEF SheetRows, SheetFits
            <4>2. QED BY <2>1, <3>2, <4>1, <1>2, <1>3, <1>10 DEF EditsInv
        <3>3. QED BY <3>1, <3>2
    <2>2. \A d \in SheetCalls : (Editing(d)' => Editing(d)) /\ (Submitting(d)' => Submitting(d))
        BY <1>12 DEF Editing, Submitting
    <2>3. QED BY <2>1, <2>2, <1>2, <1>10, <1>12 DEF EditsInv
<1>16. SaysInv'
    <2>1. ASSUME Undisturbed'
          PROVE  /\ sheet.wf # 0 /\ (\A d \in SheetCalls : sheetCall'[d].i # sheet.wf) => sheet.status = Due(sheet.wf)'
                 /\ \A d \in SheetCalls : sheetCall'[d].i # 0 /\ sheetCall'[d].i = sheet.wf =>
                       /\ sheetCall'[d].at \in {"find", "sync"}
                       /\ sheet.status = Before(sheetCall'[d].review)
                       /\ Due(sheet.wf)' = Outcome(sheetCall'[d].review, sheetCall'[d].verdict)
        <3>1. CASE sheet.wf = i
            <4>1. sheet.status = Before(st)
                <5>1. sheet.status = Due(sheet.wf)
                    BY <2>1, <3>1, <1>9, <1>10 DEF SaysInv
                <5>2. QED BY <3>1, <5>1, <1>13 DEF Due, DueFor
            <4>2. Due(sheet.wf)' = Outcome(st, v)
                BY <3>1, <1>2, <1>13 DEF Due, DueFor
            <4>3. \A d \in SheetCalls : sheetCall'[d].i = i => d = c
                BY <2>1, <1>8, <1>10
            <4>4. QED BY <3>1, <4>1, <4>2, <4>3, <1>5, <1>8
        <3>2. CASE sheet.wf # i
            <4>1. sheet.wf # 0 => sheet.wf \in Instances
                BY DEF SheetRows, SheetRow
            <4>2. sheet.wf # 0 => Due(sheet.wf)' = Due(sheet.wf)
                BY <3>2, <4>1, <1>2, <1>3 DEF Due
            <4>3. \A d \in SheetCalls : sheet.wf # 0 => ((sheetCall'[d].i = sheet.wf) <=> (d # c /\ sheetCall[d].i = sheet.wf))
                BY <3>2, <1>1, <1>5, <1>8, NoSheetCallFits
            <4>4. sheetCall[c].i = 0
                BY <1>1, NoSheetCallFits DEF SheetRows, SheetFits
            <4>5. sheet.wf # 0 /\ (\A d \in SheetCalls : sheetCall'[d].i # sheet.wf) => sheet.status = Due(sheet.wf)'
                BY <2>1, <4>2, <4>3, <4>4, <1>10 DEF SaysInv
            <4>6. ASSUME NEW d \in SheetCalls, sheetCall'[d].i # 0, sheetCall'[d].i = sheet.wf
                  PROVE  /\ sheetCall'[d].at \in {"find", "sync"}
                         /\ sheet.status = Before(sheetCall'[d].review)
                         /\ Due(sheet.wf)' = Outcome(sheetCall'[d].review, sheetCall'[d].verdict)
                <5>1. d # c /\ sheetCall'[d] = sheetCall[d]
                    BY <4>3, <4>6, <1>8
                <5>2. QED BY <2>1, <4>2, <4>6, <5>1, <1>10 DEF SaysInv
            <4>7. QED BY <4>5, <4>6
        <3>3. QED BY <3>1, <3>2
    <2>2. QED BY <2>1, <1>2, <1>10, <1>12 DEF SaysInv
<1>17. QED BY <1>14, <1>15, <1>16

LEMMA HoursFindKeeps == ASSUME SheetInv, NEW c \in SheetCalls, HoursFind(c) PROVE SheetInv'
<1> USE DEF SheetInv
<1>1. sheetCall[c].at = "find" /\ UNCHANGED << inst, sheet, totals, overtaken, crossed >>
    BY DEF HoursFind
<1>2. PICK x \in SheetCall : x = sheetCall[c]
    BY DEF SheetRows
<1>3. x.i \in Instances /\ x.i # 0 /\ x.review # "none" /\ x.verdict \in Verdicts
    BY <1>1, <1>2, InstancesAreNumbered DEF SheetRows, SheetFits
<1>4. PICK s \in SheetCall :
         /\ SheetFits(s) /\ sheetCall' = [sheetCall EXCEPT ![c] = s]
         /\ \/ s = NoSheetCall /\ sheet.wf # x.i
            \/ s.at = "sync" /\ s.i = x.i /\ s.review = x.review /\ s.verdict = x.verdict /\ sheet.wf = x.i
    <2>1. CASE sheet.wf # x.i
        BY <1>2, <2>1, NoSheetCallFits DEF HoursFind, Returns
    <2>2. CASE sheet.wf = x.i
        <3> DEFINE s == [x EXCEPT !.at = "sync"]
        <3>1. s \in SheetCall /\ s.at = "sync" /\ s.i = x.i /\ s.review = x.review /\ s.verdict = x.verdict
            BY DEF SheetCall, SheetSteps
        <3>2. sheetCall' = [sheetCall EXCEPT ![c] = s]
            BY <1>2, <2>2 DEF HoursFind
        <3> HIDE DEF s
        <3>3. SheetFits(s)
            BY <1>3, <3>1 DEF SheetFits
        <3>4. QED BY <2>2, <3>1, <3>2, <3>3
    <2>3. QED BY <2>1, <2>2
<1>5. sheetCall'[c] = s /\ \A d \in SheetCalls : d # c => sheetCall'[d] = sheetCall[d]
    BY <1>4, SheetCallChanges
<1>6. \A d \in SheetCalls : sheetCall'[d].at \in {"start", "edit", "write"} => d # c /\ sheetCall'[d] = sheetCall[d]
    BY <1>4, <1>5, NoSheetCallFits
<1>7. \A d \in SheetCalls : sheetCall'[d].i # 0 => sheetCall'[d].i = sheetCall[d].i
    BY <1>2, <1>4, <1>5, NoSheetCallFits
<1>8. Undisturbed' <=> Undisturbed
    BY <1>1 DEF Undisturbed
<1>9. SheetRows'
    <2>1. InstInv'
        BY <1>1 DEF SheetRows, InstInv
    <2>2. sheetCall' \in [SheetCalls -> SheetCall] /\ \A d \in SheetCalls : SheetFits(sheetCall'[d])
        BY <1>4, SheetCallChanges
    <2>3. \A d \in SheetCalls : sheetCall'[d].at = "sync" => sheet'.wf # 0
        BY <1>1, <1>3, <1>4, <1>5, NoSheetCallFits DEF SheetRows
    <2>4. \A d \in SheetCalls : sheetCall'[d].i # 0 => inst'[sheetCall'[d].i].stage # "none"
        BY <1>1, <1>7 DEF SheetRows
    <2>5. QED BY <1>1, <2>1, <2>2, <2>3, <2>4 DEF SheetRows
<1>10. EditsInv'
    <2>1. \A d \in SheetCalls : (Editing(d)' => Editing(d)) /\ (Submitting(d)' => Submitting(d))
        BY <1>6 DEF Editing, Submitting
    <2>2. QED BY <2>1, <1>1, <1>6, <1>7, <1>8 DEF EditsInv
<1>11. SaysInv'
    <2>1. Due(sheet.wf)' = Due(sheet.wf)
        BY <1>1 DEF Due
    <2>2. \A d \in SheetCalls : sheet.wf # 0 => ((sheetCall'[d].i = sheet.wf) <=> (sheetCall[d].i = sheet.wf))
        BY <1>2, <1>4, <1>5, NoSheetCallFits
    <2>3. ASSUME Undisturbed, NEW d \in SheetCalls, sheetCall'[d].i # 0, sheetCall'[d].i = sheet.wf
          PROVE  /\ sheetCall'[d].at \in {"find", "sync"}
                 /\ sheet.status = Before(sheetCall'[d].review)
                 /\ Due(sheet.wf) = Outcome(sheetCall'[d].review, sheetCall'[d].verdict)
        <3>1. /\ sheetCall[d].at \in {"find", "sync"} /\ sheet.status = Before(sheetCall[d].review)
              /\ Due(sheet.wf) = Outcome(sheetCall[d].review, sheetCall[d].verdict)
            BY <2>2, <2>3 DEF SaysInv
        <3>2. CASE d = c
            BY <2>3, <3>1, <3>2, <1>2, <1>4, <1>5, NoSheetCallFits
        <3>3. CASE d # c
            BY <3>1, <3>3, <1>5
        <3>4. QED BY <3>2, <3>3
    <2>4. \A d \in SheetCalls : Undisturbed /\ sheetCall'[d].at = "sync" => sheetCall'[d].i = sheet.wf
        BY <1>4, <1>5, NoSheetCallFits DEF SaysInv
    <2>5. QED BY <1>1, <1>8, <2>1, <2>2, <2>3, <2>4 DEF SaysInv
<1>12. QED BY <1>9, <1>10, <1>11

LEMMA HoursSyncKeeps == ASSUME SheetInv, NEW c \in SheetCalls, HoursSync(c) PROVE SheetInv'
<1> USE DEF SheetInv
<1>1. /\ sheetCall[c].at = "sync" /\ sheetCall' = [sheetCall EXCEPT ![c] = NoSheetCall]
      /\ UNCHANGED << inst, totals, crossed >>
    BY DEF HoursSync, Returns
<1>2. PICK x \in SheetCall : x = sheetCall[c]
    BY DEF SheetRows
<1>3. x.i \in Instances /\ x.i # 0 /\ sheet.wf # 0
    BY <1>1, <1>2, InstancesAreNumbered DEF SheetRows, SheetFits
<1> DEFINE new == Outcome(x.review, x.verdict)
<1>4. /\ sheet' \in SheetRow /\ sheet'.wf = sheet.wf /\ sheet'.entries = sheet.entries
      /\ \/ sheet'.status = new /\ overtaken' = overtaken
         \/ sheet' = sheet /\ overtaken' = TRUE
    <2>1. new \in SheetStatuses
        BY DEF Outcome, SheetStatuses
    <2> HIDE DEF new
    <2>2. \/ sheet' = [sheet EXCEPT !.status = new] /\ overtaken' = overtaken
          \/ sheet' = sheet /\ overtaken' = TRUE
        <3>1. \/ sheet' = [sheet EXCEPT !.status = Outcome(sheetCall[c].review, sheetCall[c].verdict)] /\ overtaken' = overtaken
              \/ sheet' = sheet /\ overtaken' = TRUE
            BY DEF HoursSync
        <3>2. new = Outcome(sheetCall[c].review, sheetCall[c].verdict)
            BY <1>2 DEF new
        <3>3. QED BY <3>1, <3>2
    <2>3. QED BY <2>1, <2>2 DEF SheetRows, SheetRow
<1>5. new \notin {"none", "draft"}
    BY DEF Outcome
<1> HIDE DEF new
<1>6. sheetCall'[c] = NoSheetCall /\ \A d \in SheetCalls : d # c => sheetCall'[d] = sheetCall[d]
    BY <1>1, SheetCallChanges, NoSheetCallFits
<1>7. \A d \in SheetCalls : sheetCall'[d].i # 0 \/ sheetCall'[d].at # "idle" => d # c /\ sheetCall'[d] = sheetCall[d]
    BY <1>6, NoSheetCallFits
<1>8. Undisturbed' => Undisturbed /\ sheet'.status = new
    BY <1>1, <1>4 DEF Undisturbed
<1>9. ASSUME Undisturbed
      PROVE  /\ sheet.wf = x.i /\ sheet.status \notin Open /\ Due(sheet.wf) = new
             /\ \A d \in SheetCalls : ~Editing(d) /\ ~Submitting(d)
             /\ \A d \in SheetCalls : d # c => sheetCall[d].i # x.i
    <2>1. sheet.wf = x.i
        BY <1>1, <1>2, <1>9 DEF SaysInv
    <2>2. sheet.status = Before(x.review) /\ Due(sheet.wf) = new
        BY <1>2, <1>3, <1>9, <2>1 DEF SaysInv, new
    <2>3. sheet.status \notin Open
        BY <2>2 DEF Before, Open
    <2>4. \A d \in SheetCalls : ~Editing(d) /\ ~Submitting(d)
        BY <1>9, <2>3 DEF EditsInv, Editing, Submitting
    <2>5. \A d \in SheetCalls : d # c => sheetCall[d].i # x.i
        BY <1>2, <1>3, <1>9 DEF EditsInv
    <2>6. QED BY <2>1, <2>2, <2>3, <2>4, <2>5
<1>10. SheetRows'
    <2>1. InstInv'
        BY <1>1 DEF SheetRows, InstInv
    <2>2. sheetCall' \in [SheetCalls -> SheetCall] /\ \A d \in SheetCalls : SheetFits(sheetCall'[d])
        BY <1>1, NoSheetCallFits, SheetCallChanges
    <2>3. \A d \in SheetCalls : sheetCall'[d].i # 0 => inst[sheetCall'[d].i].stage # "none"
        BY <1>7 DEF SheetRows
    <2>4. sheet'.status \notin {"none", "draft"}
        BY <1>3, <1>4, <1>5 DEF SheetRows
    <2>5. overtaken' \in BOOLEAN
        BY <1>4 DEF SheetRows
    <2>6. QED BY <1>1, <1>3, <1>4, <2>1, <2>2, <2>3, <2>4, <2>5 DEF SheetRows
<1>11. EditsInv'
    <2>1. ASSUME Undisturbed' PROVE \A d \in SheetCalls : ~Editing(d)' /\ ~Submitting(d)' /\ sheetCall'[d].at # "start" /\ sheetCall'[d].at # "write"
        BY <2>1, <1>6, <1>8, <1>9, NoSheetCallFits DEF Editing, Submitting
    <2>2. Undisturbed' => \A d, e \in SheetCalls : sheetCall'[d].i # 0 /\ sheetCall'[d].i = sheetCall'[e].i => d = e
        BY <1>7, <1>8 DEF EditsInv
    <2>3. QED BY <2>1, <2>2 DEF EditsInv
<1>12. SaysInv'
    <2>1. Due(sheet.wf)' = Due(sheet.wf)
        BY <1>1, <1>4 DEF Due
    <2>2. ASSUME Undisturbed'
          PROVE  /\ sheet'.status = Due(sheet.wf)' /\ sheet'.entries = totals'[sheet'.wf]
                 /\ \A d \in SheetCalls : sheetCall'[d].i # sheet'.wf /\ sheetCall'[d].at # "sync"
        <3>1. sheet.entries = totals[sheet.wf]
            BY <2>2, <1>3, <1>8, <1>9 DEF SaysInv
        <3>2. \A d \in SheetCalls : sheetCall'[d].i # sheet'.wf
            BY <2>2, <1>3, <1>4, <1>6, <1>8, <1>9, NoSheetCallFits
        <3>3. ASSUME NEW d \in SheetCalls, sheetCall'[d].at = "sync" PROVE FALSE
            <4>1. d # c /\ sheetCall[d].at = "sync"
                BY <3>3, <1>6, NoSheetCallFits
            <4>2. sheetCall[d].i = sheet.wf
                BY <2>2, <4>1, <1>8 DEF SaysInv
            <4>3. QED BY <2>2, <4>1, <4>2, <1>8, <1>9
        <3>4. QED BY <2>1, <2>2, <3>1, <3>2, <3>3, <1>1, <1>4, <1>8, <1>9
    <2>3. QED BY <2>2, <1>3, <1>4 DEF SaysInv
<1>13. QED BY <1>10, <1>11, <1>12

\* What happens in the service changes no request and no row; what it says of a started approval is either the same or excused.
LEMMA HoursInServiceKeep ==
    ASSUME SheetInv, InstInv', UNCHANGED << sheet, sheetCall, crossed >>,
           overtaken' \in BOOLEAN, overtaken => overtaken',
           totals' \in [Instances -> 0..MaxEntries],
           \A j \in Instances : totals'[j] = 0 <=> inst'[j].stage = "none",
           \A j \in Instances : inst[j].stage # "none" => inst'[j].stage # "none" /\ totals'[j] = totals[j],
           ~overtaken' => \A j \in Instances : inst[j].stage # "none" => inst'[j].said = inst[j].said
    PROVE  SheetInv'
<1> USE DEF SheetInv
<1>1. sheet.wf # 0 => sheet.wf \in Instances /\ inst[sheet.wf].stage # "none"
    BY DEF SheetRows, SheetRow
<1>2. \A c \in SheetCalls : sheetCall[c].i # 0 => sheetCall[c].i \in Instances /\ inst[sheetCall[c].i].stage # "none"
    BY DEF SheetRows, SheetCall
<1>3. Undisturbed' => Undisturbed /\ ~overtaken'
    BY DEF Undisturbed, SheetRows
<1>4. SheetRows'
    BY <1>1, <1>2 DEF SheetRows
<1>5. EditsInv'
    <2>1. \A c \in SheetCalls : (Editing(c)' <=> Editing(c)) /\ (Submitting(c)' <=> Submitting(c))
        BY DEF Editing, Submitting
    <2>2. \A c \in SheetCalls : sheetCall[c].at = "write" => sheetCall[c].i # 0
        BY InstancesAreNumbered DEF SheetRows, SheetFits
    <2>3. QED BY <1>2, <1>3, <2>1, <2>2 DEF EditsInv
<1>6. SaysInv'
    <2>1. sheet.wf # 0 /\ ~overtaken' => Due(sheet.wf)' = Due(sheet.wf) /\ totals'[sheet.wf] = totals[sheet.wf]
        BY <1>1 DEF Due
    <2>2. QED BY <1>3, <2>1 DEF SaysInv
<1>7. QED BY <1>4, <1>5, <1>6

LEMMA HoursOverruledKeeps == ASSUME SheetInv, HoursOverruled PROVE SheetInv'
<1> USE DEF SheetInv
<1>1. PICK i \in Instances : \/ EndInstance(i) /\ UNCHANGED overtaken
                             \/ (\E v \in Verdicts : CompleteReview(i, v, 2)) /\ overtaken' = TRUE
    BY DEF HoursOverruled
<1>2. UNCHANGED << sheet, sheetCall, totals, crossed >>
    BY DEF HoursOverruled
<1>3. CASE EndInstance(i) /\ UNCHANGED overtaken
    <2>1. /\ InstInv' /\ inst[i].stage # "none" /\ inst'[i].stage # "none" /\ inst'[i].said = inst[i].said
          /\ \A j \in Instances : j # i => inst'[j] = inst[j]
        BY <1>3, InstEnds DEF SheetRows
    <2>2. QED BY <1>2, <1>3, <2>1, HoursInServiceKeep DEF SheetRows
<1>4. ASSUME NEW v \in Verdicts, CompleteReview(i, v, 2), overtaken' = TRUE PROVE SheetInv'
    <2>1. /\ InstInv' /\ inst[i].stage # "none" /\ inst'[i].stage # "none"
          /\ \A j \in Instances : j # i => inst'[j] = inst[j]
        BY <1>4, InstReviewed DEF SheetRows
    <2>2. QED BY <1>2, <1>4, <2>1, HoursInServiceKeep DEF SheetRows
<1>5. QED BY <1>1, <1>3, <1>4

LEMMA HoursRestartedKeeps == ASSUME SheetInv, HoursRestarted PROVE SheetInv'
<1> USE DEF SheetInv
<1>1. PICK i \in Instances, old \in Instances :
         inst[old].stage = "ended" /\ StartInstance(i) /\ totals' = [totals EXCEPT ![i] = totals[old]]
    BY DEF HoursRestarted, RestartInstance
<1>2. UNCHANGED << sheet, sheetCall, overtaken, crossed >>
    BY DEF HoursRestarted
<1>3. /\ InstInv' /\ inst[i].stage = "none" /\ inst'[i].stage = "first"
      /\ \A j \in Instances : j # i => inst'[j] = inst[j]
    BY <1>1, InstStarts DEF SheetRows
<1>4. totals[old] \in 0..MaxEntries /\ totals[old] # 0
    BY <1>1 DEF SheetRows
<1>5. /\ totals' \in [Instances -> 0..MaxEntries] /\ totals'[i] # 0
      /\ \A j \in Instances : j # i => totals'[j] = totals[j]
    BY <1>1, <1>4 DEF SheetRows
<1>6. QED BY <1>2, <1>3, <1>5, HoursInServiceKeep DEF SheetRows

LEMMA SheetInvNext == SheetInv /\ [SheetNext]_<< inst, sheetVars >> => SheetInv'
<1> SUFFICES ASSUME SheetInv, [SheetNext]_<< inst, sheetVars >> PROVE SheetInv'
    OBVIOUS
<1>1. CASE UNCHANGED << inst, sheetVars >>
    <2>1. UNCHANGED << inst, sheet, sheetCall, totals, overtaken, crossed >>
        BY <1>1 DEF sheetVars
    <2>2. SheetRows'
        <3>1. InstInv'
            BY <2>1 DEF SheetInv, SheetRows, InstInv
        <3>2. QED BY <2>1, <3>1 DEF SheetInv, SheetRows
    <2>3. EditsInv'
        BY <2>1 DEF SheetInv, EditsInv, Undisturbed, Editing, Submitting
    <2>4. SaysInv'
        <3>1. Due(sheet.wf)' = Due(sheet.wf)
            BY <2>1 DEF Due
        <3>2. QED BY <2>1, <3>1 DEF SheetInv, SaysInv, Undisturbed
    <2>5. QED BY <2>2, <2>3, <2>4 DEF SheetInv
<1>2. CASE SheetCreated
    BY <1>2, SheetCreatedKeeps
<1>3. ASSUME NEW c \in SheetCalls, EntryBegins(c) \/ SubmitBegins(c) PROVE SheetInv'
    BY <1>3, SheetBeginsKeeps
<1>4. ASSUME NEW c \in SheetCalls, EntryWrites(c) \/ SubmitStarts(c) \/ SubmitWrites(c) PROVE SheetInv'
    BY <1>4, EntryWritesKeeps, SubmitStartsKeeps, SubmitWritesKeeps
<1>5. ASSUME NEW c \in SheetCalls, HoursDecided(c) \/ HoursFind(c) \/ HoursSync(c) PROVE SheetInv'
    BY <1>5, HoursDecidedKeeps, HoursFindKeeps, HoursSyncKeeps
<1>6. CASE HoursOverruled \/ HoursRestarted
    BY <1>6, HoursOverruledKeeps, HoursRestartedKeeps
<1>7. QED BY <1>1, <1>2, <1>3, <1>4, <1>5, <1>6 DEF SheetNext

\* When no review overtook a write and no submissions crossed, a timesheet says what its approval said, and what is
\* under approval is what the total was taken from.  The service's operators may complete a review meanwhile (excused),
\* cancel an approval (its sheet waits as it is) or restart one.
THEOREM TimesheetsHold ==
    InstInit /\ SheetInit /\ [][SheetNext]_<< inst, sheetVars >> => [](SheetTypeOK /\ TimesheetApprovalsHold)
<1>1. InstInit /\ SheetInit => SheetInv
    BY SheetInvInit
<1>2. SheetInv /\ [SheetNext]_<< inst, sheetVars >> => SheetInv'
    BY SheetInvNext
<1>3. SheetInv => SheetTypeOK /\ TimesheetApprovalsHold
    BY SheetInvShows
<1>4. QED BY <1>1, <1>2, <1>3, PTL
=============================================================================
