--------------------------- MODULE ErpPagesProofs ---------------------------
(***************************************************************************)
(* Records and pages of the ERP that no approval is about, for any number  *)
(* of users, entries, requests and answers on the way: the forms of new    *)
(* employees, the audit log and its pages, conversations, and the page of a *)
(* week.                                                                   *)
(*                                                                         *)
(* The argument is the same for each page: a request remembers what it was *)
(* sent for, and the invariant says of every request under way what the    *)
(* server will do with it or has done, and what the page shows meanwhile;  *)
(* what its answer then puts on the page is what is stored.                *)
(***************************************************************************)
EXTENDS EmployeeAccounts, AuditPages, Messaging, TimesheetPage, TLAPS, FiniteSetTheorems, SequenceTheorems

-----------------------------------------------------------------------------
(* New employees                                                            *)

\* What a form holds, and the row of the user.
StaffForm == [role : Roles, valid : BOOLEAN, at : {"idle", "sent", "checked", "created", "answered"}, says : Told,
              tries : Nat, unsure : BOOLEAN]
StaffAccount == [role : Roles \cup {"none"}, by : Hirers \cup {"none"}]

\* Where a manager's request is and what the form says, against who created the user: a request past the creation
\* is the one that created it, one that is not idle says nothing yet, and who created the user still has its
\* request under way, was told so, or lost an answer.
FormTells(m) ==
    /\ hiring[m].at # "idle" => hiring[m].says = "nothing"
    /\ hiring[m].at \in {"created", "answered"} => m \in creations
    /\ hiring[m].at = "answered" => m \in logged
    /\ hiring[m].says = "created" => m \in creations /\ m \in logged
    /\ hiring[m].says = "in use" => account # NoAccount
    /\ hiring[m].says = "error" /\ ~hiring[m].unsure => m \notin creations
    /\ m \in creations => hiring[m].at \in {"created", "answered"} \/ hiring[m].says = "created" \/ hiring[m].unsure

StaffInv ==
    /\ hiring \in [Hirers -> StaffForm]
    /\ account \in StaffAccount /\ visit \in Roles \cup {"none"}
    /\ account = NoAccount => creations = {} /\ visit = "none"
    /\ account # NoAccount => creations = {account.by} /\ account.role \in Roles
    /\ visit = account.role \/ visit = "none" \/ changed
    /\ \A m \in Hirers : FormTells(m)

\* What the form shows of the user follows from the invariant.
LEMMA StaffInvShows == StaffInv => StaffTypeOK /\ FormsTellTheTruth
<1> SUFFICES ASSUME StaffInv PROVE StaffTypeOK /\ FormsTellTheTruth
    OBVIOUS
<1>1. Cardinality(creations) <= 1
    <2>1. CASE account = NoAccount
        BY <2>1, FS_EmptySet DEF StaffInv
    <2>2. CASE account # NoAccount
        <3>1. creations = {account.by}
            BY <2>2 DEF StaffInv
        <3>2. Cardinality({account.by}) = 1
            BY FS_Singleton
        <3>3. QED BY <3>1, <3>2
    <2>3. QED BY <2>1, <2>2
<1>2. account = NoAccount <=> creations = {}
    BY DEF StaffInv
<1>3. \A m \in Hirers : hiring[m].says = "created" => account.by = m
    BY <1>2 DEF StaffInv, FormTells
<1>4. \A m \in Hirers : hiring[m] \in StaffForm
    BY DEF StaffInv
<1>5. account.role \in Roles \cup {"none"}
    BY DEF StaffInv, StaffAccount
<1>6. StaffTypeOK
    BY <1>2, <1>4, <1>5 DEF StaffTypeOK, StaffInv, StaffForm
<1>7. QED BY <1>1, <1>3, <1>6 DEF FormsTellTheTruth, StaffInv, FormTells

LEMMA StaffInvInit == StaffInit => StaffInv
<1> SUFFICES ASSUME StaffInit PROVE StaffInv
    OBVIOUS
<1>1. EmptyForm \in StaffForm
    BY DEF EmptyForm, StaffForm, Roles, Told
<1>2. hiring \in [Hirers -> StaffForm] /\ \A m \in Hirers : hiring[m] = EmptyForm
    BY <1>1 DEF StaffInit
<1>3. \A m \in Hirers : FormTells(m)
    BY <1>2 DEF StaffInit, FormTells, EmptyForm
<1>4. NoAccount \in StaffAccount
    BY DEF NoAccount, StaffAccount
<1>5. QED BY <1>2, <1>3, <1>4 DEF StaffInit, StaffInv, NoAccount

\* A step that changes nothing but one manager's form.
LEMMA FormMoves ==
    ASSUME StaffInv, NEW m \in Hirers, NEW f \in StaffForm, FormIs(m, f),
           UNCHANGED << account, creations, visit, changed >>, logged \subseteq logged',
           FormTells(m)'
    PROVE  StaffInv'
<1>1. hiring' \in [Hirers -> StaffForm]
    BY DEF FormIs, StaffInv
<1>2. ASSUME NEW n \in Hirers, n # m PROVE FormTells(n)'
    <2>1. hiring'[n] = hiring[n]
        BY <1>2 DEF FormIs, StaffInv
    <2>2. QED BY <2>1 DEF StaffInv, FormTells
<1>3. QED BY <1>1, <1>2 DEF StaffInv

LEMMA StaffInvNext == StaffInv /\ [StaffNext]_staffVars => StaffInv'
<1> SUFFICES ASSUME StaffInv, [StaffNext]_staffVars PROVE StaffInv'
    OBVIOUS
<1>0. \A m \in Hirers : hiring[m] \in StaffForm
    BY DEF StaffInv
<1>1. CASE UNCHANGED staffVars
    BY <1>1 DEF staffVars, StaffInv, FormTells
<1>2. ASSUME NEW m \in Hirers, NEW role \in Roles, NEW valid \in BOOLEAN, Fills(m, role, valid) PROVE StaffInv'
    <2> DEFINE f == [hiring[m] EXCEPT !.role = role, !.valid = valid]
    <2>1. f \in StaffForm
        BY <1>0 DEF StaffForm
    <2>2. f.at = hiring[m].at /\ f.says = hiring[m].says /\ f.unsure = hiring[m].unsure
        BY <1>0 DEF StaffForm
    <2>3. hiring'[m] = f /\ FormIs(m, f)
        BY <1>2, <1>0 DEF Fills, FormIs, StaffInv
    <2> HIDE DEF f
    <2>4. FormTells(m)'
        BY <1>2, <2>2, <2>3 DEF Fills, FormTells, StaffInv
    <2>5. QED BY <1>2, <2>1, <2>3, <2>4, FormMoves DEF Fills
<1>3. ASSUME NEW m \in Hirers, Submits(m) PROVE StaffInv'
    <2> DEFINE f == IF hiring[m].valid
               THEN [hiring[m] EXCEPT !.at = "sent", !.tries = @ + 1, !.says = "nothing"]
               ELSE [hiring[m] EXCEPT !.says = "invalid"]
    <2>1. f \in StaffForm
        <3>1. hiring[m].tries \in Nat /\ hiring[m].tries + 1 \in Nat
            BY <1>0 DEF StaffForm
        <3>2. QED BY <1>0, <3>1 DEF StaffForm, Told
    <2>2. f.at \in {"idle", "sent"} /\ f.says \in {"nothing", "invalid"} /\ f.unsure = hiring[m].unsure /\
          (f.at # "idle" => f.says = "nothing")
        BY <1>0, <1>3 DEF StaffForm, Submits
    <2>3. hiring'[m] = f /\ FormIs(m, f)
        BY <1>3, <1>0 DEF Submits, FormIs, StaffInv
    <2> HIDE DEF f
    <2>4. FormTells(m)'
        BY <1>3, <2>2, <2>3 DEF Submits, FormTells, StaffInv
    <2>5. QED BY <1>3, <2>1, <2>3, <2>4, FormMoves DEF Submits
<1>4. ASSUME NEW m \in Hirers, FindsUser(m) PROVE StaffInv'
    <2> DEFINE f == IF account # NoAccount THEN [hiring[m] EXCEPT !.at = "idle", !.says = "in use"]
                    ELSE [hiring[m] EXCEPT !.at = "checked"]
    <2>1. f \in StaffForm
        BY <1>0 DEF StaffForm, Told
    <2>2. /\ f.unsure = hiring[m].unsure
          /\ \/ f.at = "idle" /\ f.says = "in use" /\ account # NoAccount
             \/ f.at = "checked" /\ f.says = hiring[m].says
        <3>1. CASE account # NoAccount
            BY <1>0, <3>1 DEF StaffForm
        <3>2. CASE account = NoAccount
            BY <1>0, <3>2 DEF StaffForm
        <3>3. QED BY <3>1, <3>2
    <2>3. hiring'[m] = f /\ FormIs(m, f)
        BY <1>4, <1>0 DEF FindsUser, FormIs, Says, StaffInv
    <2> HIDE DEF f
    <2>4. FormTells(m)'
        BY <1>4, <2>2, <2>3 DEF FindsUser, FormTells, StaffInv
    <2>5. QED BY <1>4, <2>1, <2>3, <2>4, FormMoves DEF FindsUser
<1>5. ASSUME NEW m \in Hirers, CreatesUser(m), Taken PROVE StaffInv'
    <2> DEFINE f == [hiring[m] EXCEPT !.at = "idle", !.says = "error"]
    <2>1. f \in StaffForm
        BY <1>0 DEF StaffForm, Told
    <2>2. f.at = "idle" /\ f.says = "error" /\ f.unsure = hiring[m].unsure
        BY <1>0 DEF StaffForm
    <2>3. hiring'[m] = f /\ FormIs(m, f)
        BY <1>5, <1>0 DEF CreatesUser, FormIs, Says, StaffInv
    <2> HIDE DEF f
    <2>4. FormTells(m)'
        BY <1>5, <2>2, <2>3 DEF CreatesUser, FormTells, StaffInv
    <2>5. QED BY <1>5, <2>1, <2>3, <2>4, FormMoves DEF CreatesUser
<1>6. ASSUME NEW m \in Hirers, CreatesUser(m), ~Taken PROVE StaffInv'
    <2>0. account = NoAccount /\ creations = {} /\ visit = "none"
        BY <1>6 DEF Taken, StaffInv
    <2> DEFINE f == [hiring[m] EXCEPT !.at = "created"]
    <2>1. f \in StaffForm
        BY <1>0 DEF StaffForm
    <2>2. f.at = "created" /\ f.says = hiring[m].says /\ f.unsure = hiring[m].unsure
        BY <1>0 DEF StaffForm
    <2>3. hiring' = [hiring EXCEPT ![m] = f] /\ hiring'[m] = f
        BY <1>6, <1>0 DEF CreatesUser, FormIs, StaffInv
    <2> HIDE DEF f
    <2>4. /\ account' = [role |-> hiring[m].role, by |-> m] /\ creations' = {m} /\ visit' = "none"
          /\ logged' = logged /\ hiring[m].at = "checked"
        BY <1>6, <2>0 DEF CreatesUser
    <2>5. hiring[m].role \in Roles /\ "none" \notin Roles
        BY <1>0 DEF StaffForm, Roles
    <2>6. account' \in StaffAccount /\ account'.by = m /\ account'.role \in Roles /\ account' # NoAccount
        BY <2>4, <2>5 DEF StaffAccount, NoAccount
    <2>7. ASSUME NEW n \in Hirers, n # m PROVE FormTells(n)'
        <3>1. hiring'[n] = hiring[n]
            BY <2>3, <2>7 DEF StaffInv
        <3>2. n \notin creations' /\ n \notin creations
            BY <2>0, <2>4, <2>7
        <3>3. QED BY <2>4, <2>6, <3>1, <3>2 DEF FormTells, StaffInv
    <2>8. FormTells(m)'
        BY <2>0, <2>2, <2>3, <2>4, <2>6 DEF FormTells, StaffInv
    <2>9. hiring' \in [Hirers -> StaffForm]
        BY <2>1, <2>3 DEF StaffInv
    <2>10. QED BY <2>4, <2>6, <2>7, <2>8, <2>9 DEF StaffInv
<1>7. ASSUME NEW m \in Hirers, LogsUser(m) PROVE StaffInv'
    <2> DEFINE f == [hiring[m] EXCEPT !.at = "answered"]
    <2>1. f \in StaffForm
        BY <1>0 DEF StaffForm
    <2>2. f.at = "answered" /\ f.says = hiring[m].says /\ f.unsure = hiring[m].unsure
        BY <1>0 DEF StaffForm
    <2>3. hiring'[m] = f /\ FormIs(m, f)
        BY <1>7, <1>0 DEF LogsUser, FormIs, StaffInv
    <2> HIDE DEF f
    <2>4. FormTells(m)'
        BY <1>7, <2>2, <2>3 DEF LogsUser, FormTells, StaffInv
    <2>5. QED BY <1>7, <2>1, <2>3, <2>4, FormMoves DEF LogsUser
<1>8. ASSUME NEW m \in Hirers, GoesToEmployee(m) PROVE StaffInv'
    <2> DEFINE f == [hiring[m] EXCEPT !.at = "idle", !.says = "created"]
    <2>1. f \in StaffForm
        BY <1>0 DEF StaffForm, Told
    <2>2. f.at = "idle" /\ f.says = "created" /\ f.unsure = hiring[m].unsure
        BY <1>0 DEF StaffForm
    <2>3. hiring'[m] = f /\ FormIs(m, f)
        BY <1>8, <1>0 DEF GoesToEmployee, FormIs, Says, StaffInv
    <2> HIDE DEF f
    <2>4. FormTells(m)'
        BY <1>8, <2>2, <2>3 DEF GoesToEmployee, FormTells, StaffInv
    <2>5. QED BY <1>8, <2>1, <2>3, <2>4, FormMoves DEF GoesToEmployee
<1>9. ASSUME NEW m \in Hirers, RequestFails(m) PROVE StaffInv'
    <2> DEFINE f == [hiring[m] EXCEPT !.at = "idle", !.says = "error", !.unsure = TRUE]
    <2>1. f \in StaffForm
        BY <1>0 DEF StaffForm, Told
    <2>2. f.at = "idle" /\ f.says = "error" /\ f.unsure
        BY <1>0 DEF StaffForm
    <2>3. hiring'[m] = f /\ FormIs(m, f)
        BY <1>9, <1>0 DEF RequestFails, FormIs, StaffInv
    <2> HIDE DEF f
    <2>4. FormTells(m)'
        BY <1>9, <2>2, <2>3 DEF RequestFails, FormTells, StaffInv
    <2>5. QED BY <1>9, <2>1, <2>3, <2>4, FormMoves DEF RequestFails
<1>10. CASE SignsIn \/ SignsOut
    BY <1>10 DEF SignsIn, SignsOut, StaffInv, FormTells
<1>11. ASSUME NEW role \in Roles, ChangesRole(role) PROVE StaffInv'
    <2>1. account # NoAccount /\ account' = [account EXCEPT !.role = role] /\ "none" \notin Roles
        BY <1>11 DEF ChangesRole, Roles
    <2>2. account'.role = role /\ account'.by = account.by /\ account' \in StaffAccount /\ account' # NoAccount
        BY <2>1 DEF StaffInv, StaffAccount, NoAccount
    <2>3. QED BY <1>11, <2>1, <2>2 DEF ChangesRole, StaffInv, FormTells
<1>12. QED BY <1>1, <1>2, <1>3, <1>4, <1>5, <1>6, <1>7, <1>8, <1>9, <1>10, <1>11 DEF StaffNext

\* However many managers hire one person at once, every form tells what became of its request.
THEOREM StaffForms == StaffSpec => [](StaffTypeOK /\ FormsTellTheTruth)
<1>1. StaffInit => StaffInv
    BY StaffInvInit
<1>2. StaffInv /\ [StaffNext]_staffVars => StaffInv'
    BY StaffInvNext
<1>3. StaffInv => StaffTypeOK /\ FormsTellTheTruth
    BY StaffInvShows
<1>4. QED BY <1>1, <1>2, <1>3, PTL DEF StaffSpec

-----------------------------------------------------------------------------
(* The audit log and its pages                                              *)

LogRow == [action : {"CREATE", "UPDATE"}, before : Nat, after : Nat]
WriterState == [at : {"idle", "read", "written", "done"}, before : Nat, after : Nat]
Began == {w \in Writers : writing[w].at \in {"written", "done"}}
LastEntry == auditLog[Len(auditLog)]

\* The record was written once by each request that got that far at most, and every request and entry knows a value
\* it had.
RecordInv ==
    /\ record \in Nat /\ record <= Cardinality(Began)
    /\ writing \in [Writers -> WriterState] /\ mingled \in BOOLEAN
    /\ auditLog \in Seq(LogRow) /\ Len(auditLog) > 0
    /\ \A w \in Writers : writing[w].after <= record
    /\ \A i \in 1..Len(auditLog) : auditLog[i].after <= record

\* Requests that do not mingle follow one another: at most one is under way, it began where the last entry ends,
\* and the record is there still, or where this request took it.
ChainInv ==
    ~mingled =>
        /\ \A i \in 1..(Len(auditLog) - 1) : auditLog[i + 1].before = auditLog[i].after
        /\ \A v, w \in Reading : v = w
        /\ Reading = {} => LastEntry.after = record
        /\ \A w \in Reading : /\ writing[w].before = LastEntry.after
                              /\ writing[w].at = "read" => record = LastEntry.after
                              /\ writing[w].at = "written" => record = writing[w].after

LEMMA BeganFinite == IsFiniteSet(Began) /\ Cardinality(Began) \in Nat /\ Cardinality(Began) <= Cardinality(Writers)
                     /\ Cardinality(Writers) \in Nat
<1>1. Began \subseteq Writers
    BY DEF Began
<1>2. QED BY <1>1, AuditAssumptions, FS_Subset, FS_CardinalityType

LEMMA RecordInvInit == AuditInit => RecordInv /\ ChainInv
<1> SUFFICES ASSUME AuditInit PROVE RecordInv /\ ChainInv
    OBVIOUS
<1>1. writing \in [Writers -> WriterState] /\ \A w \in Writers : writing[w].at = "idle" /\ writing[w].after = 0
    BY DEF AuditInit, WriterState
<1>2. Began = {} /\ Cardinality(Began) = 0 /\ Reading = {}
    BY <1>1, FS_EmptySet DEF Began, Reading
<1> DEFINE e == [action |-> "CREATE", before |-> 0, after |-> 0]
<1>3. e \in LogRow /\ e.after = 0 /\ auditLog = << e >>
    BY DEF LogRow, AuditInit
<1> HIDE DEF e
<1>4. auditLog \in Seq(LogRow) /\ Len(auditLog) = 1 /\ auditLog[1] = e
    BY <1>3
<1>5. RecordInv
    <2>1. record = 0 /\ mingled = FALSE
        BY DEF AuditInit
    <2>2. \A i \in 1..Len(auditLog) : auditLog[i].after <= record
        <3>1. \A i \in 1..1 : i = 1
            OBVIOUS
        <3>2. QED BY <3>1, <2>1, <1>3, <1>4
    <2>3. record <= Cardinality(Began)
        BY <2>1, <1>2
    <2>4. \A w \in Writers : writing[w].after <= record
        BY <2>1, <1>1
    <2>5. record \in Nat /\ mingled \in BOOLEAN
        BY <2>1
    <2>7. \A n : n = 1 => n > 0
        OBVIOUS
    <2>8. Len(auditLog) > 0
        BY <1>4, <2>7, Zenon
    <2>6. QED BY <2>2, <2>3, <2>4, <2>5, <2>8, <1>1, <1>4 DEF RecordInv
<1>6. ChainInv
    BY <1>2, <1>3, <1>4 DEF AuditInit, ChainInv, LastEntry
<1>7. QED BY <1>5, <1>6

\* findUnique.
LEMMA ReadsKeep == ASSUME RecordInv, ChainInv, NEW w \in Writers, WriteReads(w) PROVE RecordInv' /\ ChainInv'
<1> DEFINE s == [at |-> "read", before |-> record, after |-> record]
<1>1. /\ writing[w].at = "idle" /\ writing' = [writing EXCEPT ![w] = s] /\ mingled' = (mingled \/ Reading # {})
      /\ record' = record /\ auditLog' = auditLog
    BY DEF WriteReads
<1>2. s \in WriterState /\ s.at = "read" /\ s.before = record /\ s.after = record
    BY DEF RecordInv, WriterState
<1> HIDE DEF s
<1>3. writing' \in [Writers -> WriterState] /\ writing'[w] = s /\ \A v \in Writers : v # w => writing'[v] = writing[v]
    BY <1>1, <1>2 DEF RecordInv
<1>4. Began' = Began
    BY <1>1, <1>2, <1>3 DEF Began
<1>5. record <= record
    BY DEF RecordInv
<1>6. RecordInv'
    BY <1>1, <1>2, <1>3, <1>4, <1>5 DEF RecordInv
<1>7. ASSUME ~mingled' PROVE Reading = {} /\ Reading' = {w}
    <2>1. Reading = {}
        BY <1>1, <1>7
    <2>2. QED BY <2>1, <1>2, <1>3 DEF Reading
<1>8. LastEntry' = LastEntry
    BY <1>1 DEF LastEntry
<1>9. ChainInv'
    BY <1>1, <1>2, <1>3, <1>7, <1>8 DEF ChainInv
<1>10. QED BY <1>6, <1>9

\* The update of the record.
LEMMA UpdatesKeep == ASSUME RecordInv, ChainInv, NEW w \in Writers, WriteUpdates(w) PROVE RecordInv' /\ ChainInv'
<1>0. writing[w] \in WriterState /\ record \in Nat
    BY DEF RecordInv
<1>1. /\ writing[w].at = "read" /\ writing' = [writing EXCEPT ![w].at = "written", ![w].after = record + 1]
      /\ record' = record + 1 /\ mingled' = mingled /\ auditLog' = auditLog
    BY DEF WriteUpdates
<1> DEFINE s == [writing[w] EXCEPT !.at = "written", !.after = record + 1]
<1>2. /\ s \in WriterState /\ s.at = "written" /\ s.before = writing[w].before /\ s.after = record + 1
      /\ writing' = [writing EXCEPT ![w] = s]
    BY <1>0, <1>1 DEF RecordInv, WriterState
<1> HIDE DEF s
<1>3. writing' \in [Writers -> WriterState] /\ writing'[w] = s /\ \A v \in Writers : v # w => writing'[v] = writing[v]
    BY <1>1, <1>2 DEF RecordInv
<1>4. Began' = Began \cup {w} /\ w \notin Began
    BY <1>1, <1>2, <1>3 DEF Began
<1>5. Cardinality(Began') = Cardinality(Began) + 1
    BY <1>4, BeganFinite, FS_AddElement
<1>6. record' \in Nat /\ record + 1 <= Cardinality(Began')
    BY <1>0, <1>1, <1>5, BeganFinite DEF RecordInv
<1>7. \A n \in Nat : n <= record => n <= record + 1
    BY <1>0
<1>8. \A v \in Writers : writing'[v].after <= record'
    <2>1. \A v \in Writers : writing[v].after \in Nat /\ writing[v].after <= record
        BY DEF RecordInv, WriterState
    <2>2. writing'[w].after <= record'
        BY <1>0, <1>1, <1>2, <1>3
    <2>3. QED BY <2>1, <2>2, <1>1, <1>3, <1>7
<1>9. \A i \in 1..Len(auditLog) : auditLog[i].after <= record'
    <2>1. \A i \in 1..Len(auditLog) : auditLog[i].after \in Nat /\ auditLog[i].after <= record
        <3>1. \A i \in 1..Len(auditLog) : auditLog[i] \in LogRow
            BY DEF RecordInv
        <3>2. QED BY <3>1 DEF RecordInv, LogRow
    <2>2. QED BY <2>1, <1>1, <1>7
<1>10. RecordInv'
    BY <1>1, <1>3, <1>6, <1>8, <1>9 DEF RecordInv
<1>11. Reading' = Reading /\ w \in Reading
    BY <1>1, <1>2, <1>3 DEF Reading
<1>12. LastEntry' = LastEntry
    BY <1>1 DEF LastEntry
<1>13. ASSUME ~mingled PROVE Reading = {w}
    BY <1>11, <1>13 DEF ChainInv
<1>14. ChainInv'
    BY <1>1, <1>2, <1>3, <1>11, <1>12, <1>13 DEF ChainInv
<1>15. QED BY <1>10, <1>14

\* createAuditLog.
LEMMA LogsKeep == ASSUME RecordInv, ChainInv, NEW w \in Writers, WriteLogs(w) PROVE RecordInv' /\ ChainInv'
<1>0. writing[w] \in WriterState /\ record \in Nat
    BY DEF RecordInv
<1>1. /\ writing[w].at = "written" /\ writing' = [writing EXCEPT ![w].at = "done"]
      /\ record' = record /\ mingled' = mingled /\ auditLog' = Append(auditLog, LogEntry(w))
    BY DEF WriteLogs
<1> DEFINE s == [writing[w] EXCEPT !.at = "done"]
<1>2. s \in WriterState /\ s.at = "done" /\ s.after = writing[w].after /\ writing' = [writing EXCEPT ![w] = s]
    BY <1>0, <1>1 DEF RecordInv, WriterState
<1> HIDE DEF s
<1>3. writing' \in [Writers -> WriterState] /\ writing'[w] = s /\ \A v \in Writers : v # w => writing'[v] = writing[v]
    BY <1>1, <1>2 DEF RecordInv
<1>4. Began' = Began
    BY <1>1, <1>2, <1>3 DEF Began
<1> DEFINE e == LogEntry(w)
<1>5. e \in LogRow /\ e.before = writing[w].before /\ e.after = writing[w].after
    BY <1>0 DEF LogEntry, LogRow, WriterState
<1> HIDE DEF e
<1>6. /\ auditLog' \in Seq(LogRow) /\ Len(auditLog') = Len(auditLog) + 1 /\ auditLog'[Len(auditLog) + 1] = e
      /\ \A i \in 1..Len(auditLog) : auditLog'[i] = auditLog[i]
      /\ Len(auditLog) \in Nat /\ Len(auditLog) > 0
    BY <1>1, <1>5 DEF RecordInv, e
<1>7. \A i \in 1..Len(auditLog') : auditLog'[i].after <= record
    BY <1>5, <1>6 DEF RecordInv
<1>8. RecordInv'
    <2>1. \A v \in Writers : writing'[v].after <= record
        BY <1>2, <1>3 DEF RecordInv
    <2>2. Len(auditLog') > 0
        BY <1>6
    <2>3. QED BY <1>1, <1>3, <1>4, <1>6, <1>7, <2>1, <2>2 DEF RecordInv
<1>9. LastEntry' = e
    BY <1>6 DEF LastEntry
<1>10. ASSUME ~mingled' PROVE Reading = {w} /\ Reading' = {} /\ e.before = LastEntry.after /\ e.after = record
    <2>1. w \in Reading /\ ~mingled
        BY <1>1, <1>10 DEF Reading
    <2>2. Reading = {w}
        BY <2>1 DEF ChainInv
    <2>3. Reading' = {}
        BY <2>2, <1>2, <1>3 DEF Reading
    <2>4. QED BY <2>1, <2>2, <2>3, <1>1, <1>5 DEF ChainInv
<1>11. ASSUME ~mingled', NEW i \in 1..(Len(auditLog') - 1) PROVE auditLog'[i + 1].before = auditLog'[i].after
    <2>1. CASE i = Len(auditLog)
        BY <2>1, <1>6, <1>10, <1>11 DEF LastEntry
    <2>2. CASE i # Len(auditLog)
        <3>1. i \in 1..(Len(auditLog) - 1) /\ i \in 1..Len(auditLog) /\ i + 1 \in 1..Len(auditLog)
            BY <2>2, <1>6
        <3>2. auditLog[i + 1].before = auditLog[i].after
            BY <3>1, <1>1, <1>11 DEF ChainInv
        <3>3. QED BY <3>1, <3>2, <1>6
    <2>3. QED BY <2>1, <2>2
<1>12. ChainInv'
    BY <1>1, <1>9, <1>10, <1>11 DEF ChainInv
<1>13. QED BY <1>8, <1>12

LEMMA FailsKeep == ASSUME RecordInv, ChainInv, NEW w \in Writers, WriteFails(w) PROVE RecordInv' /\ ChainInv'
<1>0. writing[w] \in WriterState /\ record \in Nat
    BY DEF RecordInv
<1>1. /\ w \in Reading /\ writing' = [writing EXCEPT ![w].at = "done"]
      /\ record' = record /\ mingled' = (mingled \/ writing[w].at = "written") /\ auditLog' = auditLog
    BY DEF WriteFails
<1> DEFINE s == [writing[w] EXCEPT !.at = "done"]
<1>2. s \in WriterState /\ s.at = "done" /\ s.after = writing[w].after /\ writing' = [writing EXCEPT ![w] = s]
    BY <1>0, <1>1 DEF RecordInv, WriterState
<1> HIDE DEF s
<1>3. writing' \in [Writers -> WriterState] /\ writing'[w] = s /\ \A v \in Writers : v # w => writing'[v] = writing[v]
    BY <1>1, <1>2 DEF RecordInv
<1>4. Began \subseteq Began' /\ IsFiniteSet(Began')
    <2>1. Began' = Began \cup {w}
        BY <1>1, <1>2, <1>3 DEF Began
    <2>2. QED BY <2>1, BeganFinite, FS_AddElement
<1>5. Cardinality(Began) <= Cardinality(Began') /\ Cardinality(Began') \in Nat
    BY <1>4, FS_Subset, FS_CardinalityType
<1>6. record <= Cardinality(Began')
    BY <1>0, <1>5, BeganFinite DEF RecordInv
<1>7. RecordInv'
    <2>1. \A v \in Writers : writing'[v].after <= record
        BY <1>2, <1>3 DEF RecordInv
    <2>2. QED BY <1>1, <1>3, <1>6, <2>1 DEF RecordInv
<1>8. LastEntry' = LastEntry
    BY <1>1 DEF LastEntry
<1>9. ASSUME ~mingled' PROVE Reading' = {} /\ LastEntry.after = record
    <2>1. Reading = {w} /\ writing[w].at = "read" /\ ~mingled
        BY <1>1, <1>9 DEF ChainInv, Reading
    <2>2. Reading' = {}
        BY <2>1, <1>2, <1>3 DEF Reading
    <2>3. QED BY <2>1, <2>2 DEF ChainInv
<1>10. ChainInv'
    BY <1>1, <1>8, <1>9 DEF ChainInv
<1>11. QED BY <1>7, <1>10

\* How many rows a page of n entries has, when each page holds e.
Fits(n, nth, e) == IF (nth - 1) * e >= n THEN 0 ELSE IF n - (nth - 1) * e > e THEN e ELSE n - (nth - 1) * e

LEMMA FitsGrow ==
    ASSUME NEW n \in Nat, NEW m \in Nat, n <= m, NEW nth \in Nat \ {0}, NEW e \in Nat \ {0}
    PROVE  Fits(n, nth, e) \in 0..e /\ Fits(n, nth, e) <= Fits(m, nth, e)
<1>1. PICK k \in Nat : k = (nth - 1) * e
    OBVIOUS
<1>2. QED BY <1>1 DEF Fits

\* A page that begins before the end has a row, and so have those before it.
LEMMA FitsSome ==
    ASSUME NEW n \in Nat, NEW nth \in Nat \ {0}, NEW e \in Nat \ {0}, (nth - 1) * e < n
    PROVE  Fits(n, nth, e) > 0
<1>1. PICK k \in Nat : k = (nth - 1) * e
    OBVIOUS
<1>2. QED BY <1>1 DEF Fits

\* The page after one that is not the last begins before the end.
LEMMA PagesReach ==
    ASSUME NEW total \in Nat, NEW nth \in Nat \ {0}, NEW e \in Nat \ {0},
           nth < (total + e - 1) \div e
    PROVE  nth * e < total
<1>1. PICK q \in Nat, r \in 0..(e - 1) : q = (total + e - 1) \div e /\ total + e - 1 = q * e + r
    OBVIOUS
<1>2. PICK d \in Nat \ {0} : q = nth + d
    <2>1. q - nth \in Nat \ {0} /\ q = nth + (q - nth)
        BY <1>1
    <2>2. QED BY <2>1
<1>3. q * e = nth * e + d * e
    BY <1>2
<1>4. d * e >= e
    <2>1. PICK c \in Nat : d = c + 1
        <3>1. d - 1 \in Nat /\ d = (d - 1) + 1
            OBVIOUS
        <3>2. QED BY <3>1
    <2>2. d * e = c * e + e /\ c * e \in Nat
        BY <2>1
    <2>3. QED BY <2>2
<1>5. nth * e \in Nat /\ d * e \in Nat
    OBVIOUS
<1>6. QED BY <1>1, <1>3, <1>4, <1>5

\* The answer to a request of the table or the panel, and what the table and the panel hold.
Rows == 0..EntriesPerPage
Fetch == [n : Nat, filter : Filters, page : Nat \ {0}, total : Nat, rows : Rows, todo : SUBSET {"count", "read"},
          past : Rows]
TableData == [filter : Filters, page : Nat, total : Nat, rows : Rows, past : Rows]
TableState == [filter : Filters, page : Nat \ {0}, data : TableData, loading : BOOLEAN, error : BOOLEAN, asked : Nat]
PanelState == [open : BOOLEAN, rows : Rows, asked : Nat]

\* How many entries of a log are of a filter, how many of them a page holds, and a page that does not begin past the
\* end.
Among(log, filter) == Cardinality({i \in 1..Len(log) : filter = "any" \/ log[i].action = filter})
OnPage(log, filter, nth) == Fits(Among(log, filter), nth, EntriesPerPage)
Reaches(log, filter, nth) == nth > 1 => (nth - 1) * EntriesPerPage < Among(log, filter)

\* A request of the table counts and reads no more than there is by now, and no less than when it was sent.
FetchTells(a) ==
    /\ a.n <= table.asked
    /\ a.n = table.asked => a.filter = table.filter /\ a.page = table.page
    /\ "count" \notin a.todo => a.total <= Among(auditLog, a.filter)
    /\ "read" \in a.todo => a.past <= OnPage(auditLog, a.filter, a.page)
    /\ "read" \notin a.todo => a.past <= a.rows
    /\ ~misled => (a.page > 1 => a.past > 0) /\ Reaches(auditLog, a.filter, a.page)

\* What the table shows is of the page and the filter that were chosen.
DataTells ==
    /\ table.data.filter = table.filter /\ table.data.page = table.page
    /\ table.data.total <= Among(auditLog, table.filter)
    /\ table.data.past <= table.data.rows /\ (table.page > 1 => table.data.past > 0)
    /\ Reaches(auditLog, table.filter, table.page)

PagesInv ==
    /\ table \in TableState /\ misled \in BOOLEAN
    /\ \A a \in fetches : a \in Fetch /\ FetchTells(a)
    /\ \A a, b \in fetches : a.n = b.n => a = b
    /\ TableShown /\ ~misled => DataTells
    /\ panel \in PanelState /\ \A a \in peeks : a \in Fetch

AuditInv == RecordInv /\ ChainInv /\ PagesInv

LEMMA AmongType ==
    ASSUME NEW log \in Seq(LogRow), NEW filter
    PROVE  Among(log, filter) \in Nat
<1> DEFINE S == {i \in 1..Len(log) : filter = "any" \/ log[i].action = filter}
<1>1. IsFiniteSet(1..Len(log))
    BY FS_Interval
<1>2. IsFiniteSet(S)
    BY <1>1, FS_Subset
<1>3. QED BY <1>2, FS_CardinalityType DEF Among

LEMMA OnPageType ==
    ASSUME NEW log \in Seq(LogRow), NEW filter, NEW nth \in Nat \ {0}
    PROVE  OnPage(log, filter, nth) \in Rows /\ OnPage(log, filter, nth) \in Nat
<1>1. PICK n \in Nat : n = Among(log, filter)
    BY AmongType
<1>2. Fits(n, nth, EntriesPerPage) \in 0..EntriesPerPage
    <2>1. n <= n
        OBVIOUS
    <2>2. QED BY <2>1, FitsGrow, AuditAssumptions
<1>3. QED BY <1>1, <1>2, AuditAssumptions DEF OnPage, Rows

\* The queries of the route, on the log there is.
LEMMA RoutesCount ==
    ASSUME NEW filter, NEW nth
    PROVE  Matching(filter) = Among(auditLog, filter) /\ RowsOn(filter, nth) = OnPage(auditLog, filter, nth)
BY DEF Matching, Among, RowsOn, OnPage, Fits

\* A page that begins before the end of the log has a row.
LEMMA ReachesRows ==
    ASSUME NEW log \in Seq(LogRow), NEW filter, NEW nth \in Nat \ {0}, Reaches(log, filter, nth), nth > 1
    PROVE  OnPage(log, filter, nth) > 0
<1>1. PICK n \in Nat : n = Among(log, filter)
    BY AmongType
<1>2. (nth - 1) * EntriesPerPage < n
    BY <1>1 DEF Reaches
<1>3. QED BY <1>1, <1>2, FitsSome, AuditAssumptions DEF OnPage

\* What a query finds when the log has one entry more.
LEMMA LogGrows ==
    ASSUME NEW log \in Seq(LogRow), NEW e \in LogRow, NEW filter, NEW nth \in Nat \ {0}
    PROVE  /\ Among(log, filter) <= Among(Append(log, e), filter)
           /\ OnPage(log, filter, nth) <= OnPage(Append(log, e), filter, nth)
           /\ Reaches(log, filter, nth) => Reaches(Append(log, e), filter, nth)
<1>1. PICK more \in Seq(LogRow) : more = Append(log, e)
    <2>1. Append(log, e) \in Seq(LogRow)
        OBVIOUS
    <2>2. QED BY <2>1
<1> DEFINE S == {i \in 1..Len(log) : filter = "any" \/ log[i].action = filter}
           T == {i \in 1..Len(more) : filter = "any" \/ more[i].action = filter}
<1>2. S \subseteq T
    BY <1>1
<1>3. IsFiniteSet(T)
    <2>1. IsFiniteSet(1..Len(more))
        BY FS_Interval
    <2>2. QED BY <2>1, FS_Subset
<1>4. Cardinality(S) <= Cardinality(T)
    BY <1>2, <1>3, FS_Subset
<1>5. PICK n \in Nat, m \in Nat : n = Among(log, filter) /\ m = Among(more, filter)
    BY AmongType
<1>6. n <= m
    BY <1>4, <1>5 DEF Among
<1>7. Fits(n, nth, EntriesPerPage) <= Fits(m, nth, EntriesPerPage)
    BY <1>6, FitsGrow, AuditAssumptions
<1>8. Reaches(log, filter, nth) => Reaches(more, filter, nth)
    <2>1. PICK k \in Nat : k = (nth - 1) * EntriesPerPage
        BY AuditAssumptions
    <2>2. k < n => k < m
        BY <1>6
    <2>3. QED BY <2>1, <2>2, <1>5 DEF Reaches
<1>9. QED BY <1>1, <1>5, <1>6, <1>7, <1>8 DEF OnPage

LEMMA PagesInvInit == AuditInit => PagesInv
<1> SUFFICES ASSUME AuditInit PROVE PagesInv
    OBVIOUS
<1>1. Nothing \in TableData
    BY AuditAssumptions DEF Nothing, TableData, Filters, Rows
<1>2. table \in TableState /\ table.data = Nothing
    BY <1>1 DEF AuditInit, TableState, Filters
<1>3. panel \in PanelState
    BY AuditAssumptions DEF AuditInit, PanelState, Rows
<1>4. fetches = {} /\ peeks = {} /\ misled = FALSE
    BY DEF AuditInit
<1>5. ~TableShown
    BY <1>2 DEF TableShown
<1>6. QED BY <1>2, <1>3, <1>4, <1>5 DEF PagesInv

\* What is shown stays right while the log grows, and when only the record and its writers change.
LEMMA PagesKeptByWriters ==
    ASSUME RecordInv, PagesInv, UNCHANGED tableVars,
           auditLog' = auditLog \/ \E e \in LogRow : auditLog' = Append(auditLog, e)
    PROVE  PagesInv'
<1>0. auditLog \in Seq(LogRow)
    BY DEF RecordInv
<1>1. PICK log \in Seq(LogRow), more \in Seq(LogRow) : log = auditLog /\ more = auditLog'
    BY <1>0
<1>2. ASSUME NEW filter, NEW nth \in Nat \ {0}
      PROVE  /\ Among(log, filter) <= Among(more, filter)
             /\ OnPage(log, filter, nth) <= OnPage(more, filter, nth)
             /\ Reaches(log, filter, nth) => Reaches(more, filter, nth)
    <2>1. CASE more = log
        <3>1. Among(log, filter) \in Nat /\ OnPage(log, filter, nth) \in Nat
            BY AmongType, OnPageType
        <3>2. \A n \in Nat : n <= n
            OBVIOUS
        <3>3. QED BY <2>1, <3>1, <3>2
    <2>2. CASE \E e \in LogRow : auditLog' = Append(auditLog, e)
        <3>1. PICK e \in LogRow : more = Append(log, e)
            BY <2>2, <1>1
        <3>2. QED BY <3>1, LogGrows
    <2>3. QED BY <2>1, <2>2, <1>1
<1>3. \A k, m, n \in Nat : k <= m /\ m <= n => k <= n
    OBVIOUS
<1>4. table' = table /\ fetches' = fetches /\ misled' = misled /\ panel' = panel /\ peeks' = peeks
    BY DEF tableVars
<1>5. ASSUME NEW a \in fetches PROVE FetchTells(a)'
    <2>1. a \in Fetch /\ FetchTells(a)
        BY DEF PagesInv
    <2>2. a.filter \in Filters /\ a.page \in Nat \ {0} /\ a.total \in Nat /\ a.past \in Nat
        BY <2>1, AuditAssumptions DEF Fetch, Rows
    <2>3. "count" \notin a.todo => a.total <= Among(more, a.filter)
        <3>1. Among(log, a.filter) \in Nat /\ Among(more, a.filter) \in Nat
            BY AmongType
        <3>2. QED BY <3>1, <2>1, <2>2, <1>1, <1>2, <1>3 DEF FetchTells
    <2>4. "read" \in a.todo => a.past <= OnPage(more, a.filter, a.page)
        <3>1. OnPage(log, a.filter, a.page) \in Nat /\ OnPage(more, a.filter, a.page) \in Nat
            BY <2>2, OnPageType
        <3>2. QED BY <3>1, <2>1, <2>2, <1>1, <1>2, <1>3 DEF FetchTells
    <2>5. Reaches(log, a.filter, a.page) => Reaches(more, a.filter, a.page)
        BY <2>2, <1>2
    <2>6. QED BY <2>1, <2>3, <2>4, <2>5, <1>1, <1>4 DEF FetchTells
<1>6. TableShown' /\ ~misled' => DataTells'
    <2>1. SUFFICES ASSUME TableShown, ~misled PROVE DataTells'
        BY <1>4 DEF TableShown
    <2>2. DataTells
        BY <2>1 DEF PagesInv
    <2>3. table.filter \in Filters /\ table.page \in Nat \ {0} /\ table.data.total \in Nat
        BY DEF PagesInv, TableState, TableData
    <2>4. table.data.total <= Among(more, table.filter)
        <3>1. Among(log, table.filter) \in Nat /\ Among(more, table.filter) \in Nat
            BY AmongType
        <3>2. QED BY <3>1, <2>2, <2>3, <1>1, <1>2, <1>3 DEF DataTells
    <2>5. Reaches(more, table.filter, table.page)
        BY <2>2, <2>3, <1>1, <1>2 DEF DataTells
    <2>6. QED BY <2>2, <2>4, <2>5, <1>1, <1>4 DEF DataTells
<1>7. QED BY <1>4, <1>5, <1>6 DEF PagesInv, TableShown

\* The table asks for a page that is not past the end, or has shown an older answer.
LEMMA AsksKeep ==
    ASSUME RecordInv, PagesInv, NEW filter \in Filters, NEW nth \in Nat \ {0}, TableAsks(filter, nth),
           misled' \in BOOLEAN, ~misled' => Reaches(auditLog, filter, nth) /\ (misled => fetches = {})
    PROVE  PagesInv'
<1>0. table \in TableState /\ table.asked \in Nat /\ auditLog \in Seq(LogRow)
    BY DEF PagesInv, TableState, RecordInv
<1>1. PICK newest : newest = table.asked
    OBVIOUS
<1>2. PICK most \in Rows : most = OnPage(auditLog, filter, nth)
    BY <1>0, OnPageType
<1> DEFINE t == [table EXCEPT !.filter = filter, !.page = nth, !.loading = TRUE, !.error = FALSE, !.asked = @ + 1]
           b == Asked(newest + 1, filter, nth)
           f == [b EXCEPT !.past = most]
<1>3. table' = t /\ fetches' = fetches \cup {f} /\ auditLog' = auditLog /\ panel' = panel /\ peeks' = peeks
    BY <1>1, <1>2, RoutesCount DEF TableAsks
<1>4. t \in TableState /\ t.asked = newest + 1 /\ t.filter = filter /\ t.page = nth /\ t.loading
    <2>1. newest + 1 \in Nat
        BY <1>0, <1>1
    <2>2. QED BY <1>0, <1>1, <2>1 DEF TableState
<1>5. f \in Fetch /\ f.n = newest + 1 /\ f.filter = filter /\ f.page = nth /\ f.todo = {"count", "read"} /\ f.past = most
    <2>1. newest + 1 \in Nat /\ 0 \in Rows
        BY <1>0, <1>1, AuditAssumptions DEF Rows
    <2>2. b \in Fetch /\ b.n = newest + 1 /\ b.filter = filter /\ b.page = nth /\ b.todo = {"count", "read"}
        BY <2>1 DEF Asked, Fetch
    <2> HIDE DEF b
    <2>3. QED BY <1>2, <2>2 DEF Fetch
<1> HIDE DEF t, b, f
<1>6. ASSUME NEW a \in fetches PROVE a \in Fetch /\ FetchTells(a)' /\ a.n # f.n
    <2>1. a \in Fetch /\ FetchTells(a)
        BY DEF PagesInv
    <2>2. a.n \in Nat
        BY <2>1 DEF Fetch
    <2>3. a.n <= table'.asked /\ a.n # table'.asked /\ a.n # f.n
        <3>1. \A m, n \in Nat : m <= n => m <= n + 1 /\ m # n + 1
            OBVIOUS
        <3>2. a.n <= newest /\ newest \in Nat
            BY <2>1, <1>0, <1>1 DEF FetchTells
        <3>3. QED BY <3>1, <3>2, <2>2, <1>3, <1>4, <1>5
    <2>4. ~misled' => ~misled
        OBVIOUS
    <2>5. QED BY <2>1, <2>3, <2>4, <1>3 DEF FetchTells
<1>7. FetchTells(f)'
    <2>1. most \in Nat /\ newest + 1 \in Nat /\ \A n \in Nat : n <= n
        BY <1>0, <1>1, <1>2, AuditAssumptions DEF Rows
    <2>2. f.past <= OnPage(auditLog', f.filter, f.page)
        BY <2>1, <1>2, <1>3, <1>5
    <2>3. ~misled' => (f.page > 1 => f.past > 0) /\ Reaches(auditLog', f.filter, f.page)
        BY <1>0, <1>2, <1>3, <1>5, ReachesRows
    <2>4. f.n <= table'.asked /\ f.filter = table'.filter /\ f.page = table'.page
        BY <2>1, <1>3, <1>4, <1>5
    <2>5. QED BY <2>2, <2>3, <2>4, <1>5 DEF FetchTells
<1>8. ~TableShown'
    BY <1>3, <1>4 DEF TableShown
<1>9. \A a, c \in fetches' : a.n = c.n => a = c
    BY <1>3, <1>6 DEF PagesInv
<1>10. QED BY <1>3, <1>4, <1>5, <1>6, <1>7, <1>8, <1>9 DEF PagesInv

\* Opening, choosing and paging: the page that is asked for is the first, or begins before the end of the log.
LEMMA ChoicesKeep ==
    ASSUME RecordInv, PagesInv,
           TableOpens \/ (\E filter \in Filters : Chooses(filter)) \/ Previous \/ Following
    PROVE  PagesInv'
<1>0. /\ table \in TableState /\ auditLog \in Seq(LogRow) /\ misled \in BOOLEAN
      /\ table.filter \in Filters /\ table.page \in Nat \ {0} /\ table.data.total \in Nat /\ EntriesPerPage \in Nat \ {0}
    BY AuditAssumptions DEF PagesInv, TableState, TableData, RecordInv
<1>1. \A filter : Reaches(auditLog, filter, 1)
    BY DEF Reaches
<1>2. CASE TableOpens
    <2>1. TableAsks("any", 1) /\ misled' = misled /\ "any" \in Filters
        BY <1>2 DEF TableOpens, Filters
    <2>2. QED BY <1>0, <1>1, <2>1, AsksKeep
<1>3. ASSUME NEW filter \in Filters, Chooses(filter) PROVE PagesInv'
    <2>1. TableAsks(filter, 1) /\ misled' = (misled /\ fetches # {})
        BY <1>3 DEF Chooses, FirstPage
    <2>2. QED BY <1>0, <1>1, <2>1, AsksKeep
<1>4. CASE Previous
    <2>1. PICK nth \in Nat \ {0} : nth = table.page - 1
        BY <1>0, <1>4 DEF Previous
    <2>2. TableShown /\ table.page > 1 /\ TableAsks(table.filter, nth) /\ misled' = misled
        BY <1>4, <2>1 DEF Previous
    <2>3. ASSUME ~misled PROVE Reaches(auditLog, table.filter, nth)
        <3>1. (table.page - 1) * EntriesPerPage < Among(auditLog, table.filter)
            BY <2>2, <2>3 DEF PagesInv, DataTells, Reaches
        <3>2. PICK n \in Nat : n = Among(auditLog, table.filter)
            BY <1>0, AmongType
        <3>3. nth * EntriesPerPage < n
            BY <2>1, <3>1, <3>2
        <3>4. (nth - 1) * EntriesPerPage <= nth * EntriesPerPage
            BY <1>0
        <3>5. (nth - 1) * EntriesPerPage < n
            <4>1. PICK j \in Int, k \in Int : j = (nth - 1) * EntriesPerPage /\ k = nth * EntriesPerPage
                BY <1>0
            <4>2. QED BY <4>1, <3>3, <3>4
        <3>6. QED BY <3>2, <3>5 DEF Reaches
    <2>4. QED BY <1>0, <2>2, <2>3, AsksKeep
<1>5. CASE Following
    <2>1. PICK nth \in Nat \ {0} : nth = table.page + 1
        BY <1>0
    <2>2. TableShown /\ table.page < Pages(table.data.total) /\ TableAsks(table.filter, nth) /\ misled' = misled
        BY <1>5, <2>1 DEF Following
    <2>3. ASSUME ~misled PROVE Reaches(auditLog, table.filter, nth)
        <3>1. table.data.total <= Among(auditLog, table.filter)
            BY <2>2, <2>3 DEF PagesInv, DataTells
        <3>2. PICK n \in Nat : n = Among(auditLog, table.filter)
            BY <1>0, AmongType
        <3>3. PICK total \in Nat, last \in Nat \ {0} : total = table.data.total /\ last = table.page
            BY <1>0
        <3>4. last < (total + EntriesPerPage - 1) \div EntriesPerPage
            BY <2>2, <3>3 DEF Pages
        <3>5. last * EntriesPerPage < total
            BY <1>0, <3>4, PagesReach
        <3>6. nth - 1 = last /\ total <= n
            BY <2>1, <3>1, <3>2, <3>3
        <3>7. (nth - 1) * EntriesPerPage < n
            <4>1. PICK k \in Nat : k = last * EntriesPerPage
                BY <1>0
            <4>2. QED BY <4>1, <3>5, <3>6
        <3>8. QED BY <3>2, <3>7 DEF Reaches
    <2>4. QED BY <1>0, <2>2, <2>3, AsksKeep
<1>6. QED BY <1>2, <1>3, <1>4, <1>5

\* A query of the route.
LEMMA QueriesTell ==
    ASSUME RecordInv, NEW a \in Fetch, NEW query \in a.todo
    PROVE  \E b \in Fetch :
              /\ b = Queried(a, query) /\ b.n = a.n /\ b.filter = a.filter /\ b.page = a.page /\ b.past = a.past
              /\ b.todo = a.todo \ {query}
              /\ b.total = IF query = "count" THEN Among(auditLog, a.filter) ELSE a.total
              /\ b.rows = IF query = "read" THEN OnPage(auditLog, a.filter, a.page) ELSE a.rows
<1>0. auditLog \in Seq(LogRow) /\ a.page \in Nat \ {0}
    BY DEF RecordInv, Fetch
<1>1. PICK total \in Nat : total = IF query = "count" THEN Among(auditLog, a.filter) ELSE a.total
    <2>1. Among(auditLog, a.filter) \in Nat /\ a.total \in Nat
        BY <1>0, AmongType DEF Fetch
    <2>2. QED BY <2>1
<1>2. PICK found \in Rows : found = IF query = "read" THEN OnPage(auditLog, a.filter, a.page) ELSE a.rows
    <2>1. OnPage(auditLog, a.filter, a.page) \in Rows /\ a.rows \in Rows
        BY <1>0, OnPageType DEF Fetch
    <2>2. QED BY <2>1
<1> DEFINE b == [a EXCEPT !.todo = @ \ {query}, !.total = total, !.rows = found]
<1>3. b = Queried(a, query)
    BY <1>1, <1>2, RoutesCount DEF Queried
<1>4. /\ b \in Fetch /\ b.n = a.n /\ b.filter = a.filter /\ b.page = a.page /\ b.past = a.past
      /\ b.todo = a.todo \ {query} /\ b.total = total /\ b.rows = found
    BY DEF Fetch
<1> HIDE DEF b
<1>5. QED BY <1>1, <1>2, <1>3, <1>4

LEMMA TableQueriesKeep == ASSUME RecordInv, PagesInv, NEW a \in fetches, TableQueries(a) PROVE PagesInv'
<1>0. a \in Fetch /\ FetchTells(a) /\ auditLog \in Seq(LogRow) /\ a.page \in Nat \ {0}
    BY DEF PagesInv, RecordInv, Fetch
<1>1. PICK query \in a.todo : fetches' = (fetches \ {a}) \cup {Queried(a, query)}
    BY DEF TableQueries
<1>2. auditLog' = auditLog /\ table' = table /\ misled' = misled /\ panel' = panel /\ peeks' = peeks
    BY DEF TableQueries
<1>3. PICK b \in Fetch :
         /\ b = Queried(a, query) /\ b.n = a.n /\ b.filter = a.filter /\ b.page = a.page /\ b.past = a.past
         /\ b.todo = a.todo \ {query}
         /\ b.total = IF query = "count" THEN Among(auditLog, a.filter) ELSE a.total
         /\ b.rows = IF query = "read" THEN OnPage(auditLog, a.filter, a.page) ELSE a.rows
    BY <1>0, QueriesTell
<1>4. FetchTells(b)'
    <2>1. Among(auditLog, a.filter) \in Nat /\ OnPage(auditLog, a.filter, a.page) \in Nat /\ \A n \in Nat : n <= n
        BY <1>0, AmongType, OnPageType
    <2>2. "count" \notin b.todo => b.total <= Among(auditLog, a.filter)
        BY <1>0, <1>3, <2>1 DEF FetchTells
    <2>3. "read" \in b.todo => b.past <= OnPage(auditLog, a.filter, a.page)
        BY <1>0, <1>3 DEF FetchTells
    <2>4. "read" \notin b.todo => b.past <= b.rows
        BY <1>0, <1>3 DEF FetchTells
    <2>5. QED BY <1>0, <1>2, <1>3, <2>2, <2>3, <2>4 DEF FetchTells
<1>5. ASSUME NEW c \in fetches PROVE FetchTells(c)' /\ c \in Fetch /\ (c # a => c.n # a.n)
    <2>1. FetchTells(c) /\ c \in Fetch /\ (c # a => c.n # a.n)
        BY DEF PagesInv
    <2>2. QED BY <1>2, <2>1 DEF FetchTells
<1>6. fetches' = (fetches \ {a}) \cup {b}
    BY <1>1, <1>3
<1>7. \A c, d \in fetches' : c.n = d.n => c = d
    BY <1>3, <1>5, <1>6 DEF PagesInv
<1>8. TableShown' /\ ~misled' => DataTells'
    BY <1>2 DEF PagesInv, TableShown, DataTells
<1>9. QED BY <1>2, <1>3, <1>4, <1>5, <1>6, <1>7, <1>8 DEF PagesInv

LEMMA TableGetsKeep == ASSUME RecordInv, PagesInv, NEW a \in fetches, TableGets(a) PROVE PagesInv'
<1>0. a \in Fetch /\ FetchTells(a) /\ table \in TableState
    BY DEF PagesInv
<1>1. fetches' = fetches \ {a} /\ auditLog' = auditLog /\ panel' = panel /\ peeks' = peeks
    BY DEF TableGets
<1>2. CASE a.todo = {} /\ misled' = (misled \/ a.n # table.asked) /\
           table' = [table EXCEPT !.loading = FALSE,
              !.data = [filter |-> a.filter, page |-> a.page, total |-> a.total, rows |-> a.rows, past |-> a.past]]
    <2> DEFINE d == [filter |-> a.filter, page |-> a.page, total |-> a.total, rows |-> a.rows, past |-> a.past]
               t == [table EXCEPT !.loading = FALSE, !.data = d]
    <2>1. d \in TableData /\ d.filter = a.filter /\ d.page = a.page /\ d.total = a.total /\ d.rows = a.rows /\ d.past = a.past
        BY <1>0 DEF TableData, Fetch
    <2> HIDE DEF d
    <2>2. t \in TableState /\ t.data = d /\ t.filter = table.filter /\ t.page = table.page /\ t.asked = table.asked
        BY <1>0, <2>1 DEF TableState
    <2>3. table' = t
        BY <1>2 DEF d
    <2> HIDE DEF t
    <2>4. misled' \in BOOLEAN
        BY <1>2
    <2>5. ASSUME NEW c \in fetches PROVE FetchTells(c)'
        <3>1. FetchTells(c)
            BY DEF PagesInv
        <3>2. ~misled' => ~misled
            BY <1>2 DEF PagesInv
        <3>3. QED BY <1>1, <2>2, <2>3, <3>1, <3>2 DEF FetchTells
    <2>6. ASSUME ~misled' PROVE DataTells'
        <3>1. ~misled /\ a.n = table.asked
            BY <1>2, <2>6 DEF PagesInv
        <3>2. /\ a.filter = table.filter /\ a.page = table.page /\ a.total <= Among(auditLog, a.filter)
              /\ a.past <= a.rows /\ (a.page > 1 => a.past > 0) /\ Reaches(auditLog, a.filter, a.page)
            BY <1>0, <1>2, <3>1 DEF FetchTells
        <3>3. QED BY <3>2, <1>1, <2>1, <2>2, <2>3 DEF DataTells
    <2>7. QED BY <1>1, <2>2, <2>3, <2>4, <2>5, <2>6 DEF PagesInv
<1>3. CASE misled' = misled /\ table' = [table EXCEPT !.loading = FALSE, !.error = TRUE]
    <2>1. /\ table' \in TableState /\ table'.error /\ table'.filter = table.filter /\ table'.page = table.page
          /\ table'.asked = table.asked
        BY <1>0, <1>3 DEF TableState
    <2>2. ASSUME NEW c \in fetches PROVE FetchTells(c)'
        <3>1. FetchTells(c)
            BY DEF PagesInv
        <3>2. QED BY <1>1, <1>3, <2>1, <3>1 DEF FetchTells
    <2>3. ~TableShown'
        BY <2>1 DEF TableShown
    <2>4. QED BY <1>1, <1>3, <2>1, <2>2, <2>3 DEF PagesInv
<1>4. QED BY <1>2, <1>3 DEF TableGets

LEMMA PanelKeeps ==
    ASSUME RecordInv, PagesInv, PanelToggles \/ \E a \in peeks : PanelGets(a)
    PROVE  PagesInv'
<1>1. auditLog' = auditLog /\ table' = table /\ fetches' = fetches /\ misled' = misled
    BY DEF PanelToggles, PanelGets
<1>2. \A a \in fetches' : a \in Fetch /\ FetchTells(a)'
    BY <1>1 DEF PagesInv, FetchTells
<1>3. TableShown' /\ ~misled' => DataTells'
    BY <1>1 DEF PagesInv, TableShown, DataTells
<1>4. panel \in PanelState /\ panel.asked \in Nat /\ panel.asked + 1 \in Nat
    BY DEF PagesInv, PanelState
<1>5. CASE PanelToggles
    <2>1. PICK n \in Nat : n = IF panel.open \/ panel.rows > 0 THEN panel.asked ELSE panel.asked + 1
        BY <1>4
    <2>2. panel' = [panel EXCEPT !.open = ~ @, !.asked = n]
        BY <1>5, <2>1 DEF PanelToggles
    <2>3. panel' \in PanelState /\ panel'.asked = n
        BY <1>4, <2>2 DEF PanelState
    <2>4. peeks' \subseteq peeks \cup {Asked(n, "any", 1)}
        BY <1>5, <2>3 DEF PanelToggles
    <2>5. Asked(n, "any", 1) \in Fetch
        BY AuditAssumptions DEF Asked, Fetch, Filters, Rows
    <2>6. QED BY <1>1, <1>2, <1>3, <2>3, <2>4, <2>5 DEF PagesInv
<1>6. ASSUME NEW a \in peeks, PanelGets(a) PROVE panel' \in PanelState /\ \A b \in peeks' : b \in Fetch
    <2>0. a \in Fetch /\ a.rows \in Rows
        BY DEF PagesInv, Fetch
    <2>1. ASSUME NEW query \in a.todo, peeks' = (peeks \ {a}) \cup {Queried(a, query)}, panel' = panel
          PROVE  panel' \in PanelState /\ \A b \in peeks' : b \in Fetch
        <3>1. Queried(a, query) \in Fetch
            BY <2>0, QueriesTell
        <3>2. QED BY <1>4, <2>1, <3>1 DEF PagesInv
    <2>2. CASE peeks' = peeks \ {a} /\ panel' = [panel EXCEPT !.rows = a.rows]
        BY <1>4, <2>0, <2>2 DEF PagesInv, PanelState
    <2>3. CASE peeks' = peeks \ {a} /\ panel' = panel
        BY <1>4, <2>3 DEF PagesInv
    <2>4. QED BY <1>6, <2>1, <2>2, <2>3 DEF PanelGets
<1>7. QED BY <1>1, <1>2, <1>3, <1>5, <1>6 DEF PagesInv

LEMMA AuditInvNext == AuditInv /\ [AuditNext]_auditVars => AuditInv'
<1> SUFFICES ASSUME AuditInv, [AuditNext]_auditVars PROVE AuditInv'
    OBVIOUS
<1> USE DEF AuditInv
<1>1. CASE UNCHANGED auditVars
    <2>1. RecordInv' /\ ChainInv'
        BY <1>1 DEF auditVars, RecordInv, ChainInv, Began, Reading, LastEntry
    <2>2. UNCHANGED tableVars /\ auditLog' = auditLog
        BY <1>1 DEF auditVars, tableVars
    <2>3. QED BY <2>1, <2>2, PagesKeptByWriters
<1>2. ASSUME NEW w \in Writers, WriteReads(w) PROVE AuditInv'
    BY <1>2, ReadsKeep, PagesKeptByWriters DEF WriteReads
<1>3. ASSUME NEW w \in Writers, WriteUpdates(w) PROVE AuditInv'
    BY <1>3, UpdatesKeep, PagesKeptByWriters DEF WriteUpdates
<1>4. ASSUME NEW w \in Writers, WriteLogs(w) PROVE AuditInv'
    <2>1. LogEntry(w) \in LogRow
        BY DEF RecordInv, WriterState, LogEntry, LogRow
    <2>2. QED BY <1>4, <2>1, LogsKeep, PagesKeptByWriters DEF WriteLogs
<1>5. ASSUME NEW w \in Writers, WriteFails(w) PROVE AuditInv'
    BY <1>5, FailsKeep, PagesKeptByWriters DEF WriteFails
<1>6. ASSUME UNCHANGED << record, writing, auditLog, mingled >> PROVE RecordInv' /\ ChainInv'
    BY <1>6 DEF RecordInv, ChainInv, Began, Reading, LastEntry
<1>7. CASE TableOpens \/ (\E filter \in Filters : Chooses(filter)) \/ Previous \/ Following
    BY <1>6, <1>7, ChoicesKeep DEF TableOpens, Chooses, Previous, Following, TableAsks
<1>8. ASSUME NEW a \in fetches, TableQueries(a) \/ TableGets(a) PROVE AuditInv'
    BY <1>6, <1>8, TableQueriesKeep, TableGetsKeep DEF TableQueries, TableGets
<1>9. CASE PanelToggles \/ \E a \in peeks : PanelGets(a)
    BY <1>6, <1>9, PanelKeeps DEF PanelToggles, PanelGets
<1>10. QED BY <1>1, <1>2, <1>3, <1>4, <1>5, <1>7, <1>8, <1>9 DEF AuditNext

LEMMA AuditInvShows == AuditInv => AuditTypeOK /\ LogTellsChanges /\ TableShowsTheChoice
<1> SUFFICES ASSUME AuditInv PROVE AuditTypeOK /\ LogTellsChanges /\ TableShowsTheChoice
    BY DEF AuditInv
<1> USE DEF AuditInv
<1>1. record \in 0..Cardinality(Writers)
    BY BeganFinite DEF RecordInv
<1>2. \A i \in 1..Len(auditLog) : auditLog[i].action \in {"CREATE", "UPDATE"} /\ auditLog[i].after \in 0..Cardinality(Writers)
    <2>1. \A i \in 1..Len(auditLog) : auditLog[i] \in LogRow /\ auditLog[i].after <= record
        BY DEF RecordInv
    <2>2. \A m, n \in Nat : m <= n /\ n \in 0..Cardinality(Writers) => m \in 0..Cardinality(Writers)
        BY BeganFinite
    <2>3. QED BY <1>1, <2>1, <2>2 DEF LogRow, RecordInv
<1>3. AuditTypeOK
    BY <1>1, <1>2 DEF AuditTypeOK, PagesInv, TableState, TableData, PanelState, Rows
<1>4. LogTellsChanges
    BY DEF ChainInv, LogTellsChanges, LastEntry
<1>5. ASSUME TableShown, ~misled PROVE /\ table.data.filter = table.filter /\ table.data.page = table.page
                                       /\ table.data.rows = 0 => table.data.past = 0 /\ table.page = 1
    <2>1. table.data.rows \in Nat /\ table.data.past \in Nat /\ table.page \in Nat \ {0}
        BY AuditAssumptions DEF PagesInv, TableState, TableData, Rows
    <2>2. DataTells
        BY <1>5 DEF PagesInv
    <2>3. QED BY <2>1, <2>2 DEF DataTells
<1>6. QED BY <1>3, <1>4, <1>5 DEF TableShowsTheChoice

\* Requests that do not mingle leave an unbroken log, and paging the log never leads past its end.
THEOREM AuditLogAndPages == AuditSpec => [](AuditTypeOK /\ LogTellsChanges /\ TableShowsTheChoice)
<1>1. AuditInit => AuditInv
    BY RecordInvInit, PagesInvInit DEF AuditInv
<1>2. AuditInv /\ [AuditNext]_auditVars => AuditInv'
    BY AuditInvNext
<1>3. AuditInv => AuditTypeOK /\ LogTellsChanges /\ TableShowsTheChoice
    BY AuditInvShows
<1>4. QED BY <1>1, <1>2, <1>3, PTL DEF AuditSpec

-----------------------------------------------------------------------------
(* The messages                                                             *)

FinderState == [for : Partners \cup {Missing}, at : {"idle", "looking", "creating"}, page : BOOLEAN]
Load == [of : Conversations, page : Nat \ {0}, answered : BOOLEAN, answer : Threads]
SendState == [at : {"idle", "posting", "posted", "failed"}, to : Conversations \cup {0}, post : 0..MaxPosts]

\* The rows of the conversations, and the requests that look for one or make one.
RowsInv ==
    /\ with \in [Conversations -> Partners \cup {Missing}]
    /\ posts \in [Conversations -> 0..MaxPosts]
    /\ \A c \in Conversations : with[c] = Missing => posts[c] = 0
    /\ finder \in [Finders -> FinderState] /\ raced \subseteq Partners
    /\ \A f \in Finders : finder[f].at = "idle" <=> finder[f].for = Missing

\* A partner for whom no two requests overlapped: one request at most is under way for the conversation, and it makes
\* one only while there is none.
FindersInv ==
    \A p \in Partners \ raced :
        /\ \A f, g \in Finders : finder[f].for = p /\ finder[g].for = p => f = g
        /\ \A c, d \in Conversations : with[c] = p /\ with[d] = p => c = d
        /\ \A f \in Finders : finder[f].for = p /\ finder[f].at = "creating" => \A c \in Conversations : with[c] # p

LEMMA RowsInvInit == MessagesInit => RowsInv /\ FindersInv
<1> SUFFICES ASSUME MessagesInit PROVE RowsInv /\ FindersInv
    OBVIOUS
<1>1. NoFinder \in FinderState
    BY DEF NoFinder, FinderState
<1>2. finder \in [Finders -> FinderState] /\ \A f \in Finders : finder[f] = NoFinder
    BY <1>1 DEF MessagesInit
<1>3. with \in [Conversations -> Partners \cup {Missing}] /\ \A c \in Conversations : with[c] = Missing
    BY DEF MessagesInit
<1>4. posts \in [Conversations -> 0..MaxPosts] /\ raced = {} /\ \A c \in Conversations : posts[c] = 0
    BY MessagesAssumptions DEF MessagesInit
<1>5. NoFinder.for = Missing /\ NoFinder.at = "idle"
    BY DEF NoFinder
<1>6. RowsInv
    BY <1>2, <1>3, <1>4, <1>5 DEF RowsInv
<1>7. FindersInv
    BY <1>2, <1>3, <1>5, MessagesAssumptions DEF FindersInv
<1>8. QED BY <1>6, <1>7

\* A request is for a partner, and ends.
LEMMA FinderEnds ==
    ASSUME RowsInv, FindersInv, NEW f \in Finders, finder' = [finder EXCEPT ![f] = NoFinder],
           UNCHANGED << with, posts, raced >>
    PROVE  RowsInv' /\ FindersInv'
<1>1. NoFinder \in FinderState /\ NoFinder.for = Missing /\ NoFinder.at = "idle"
    BY DEF NoFinder, FinderState
<1>2. /\ finder' \in [Finders -> FinderState] /\ finder'[f] = NoFinder
      /\ \A g \in Finders : g # f => finder'[g] = finder[g]
    BY <1>1 DEF RowsInv
<1>3. RowsInv'
    BY <1>1, <1>2 DEF RowsInv
<1>4. FindersInv'
    BY <1>1, <1>2, MessagesAssumptions DEF FindersInv
<1>5. QED BY <1>3, <1>4

LEMMA RowsKeptByFinders ==
    ASSUME RowsInv, FindersInv, NEW f \in Finders,
           \/ \E p \in Partners, here \in BOOLEAN : FinderBegins(f, p, here)
           \/ FinderLooks(f) \/ FinderCreates(f) \/ FinderFails(f)
    PROVE  RowsInv' /\ FindersInv'
<1>0. finder[f] \in FinderState
    BY DEF RowsInv
<1>1. ASSUME NEW p \in Partners, NEW here \in BOOLEAN, FinderBegins(f, p, here) PROVE RowsInv' /\ FindersInv'
    <2> DEFINE s == [for |-> p, at |-> "looking", page |-> here]
    <2>1. /\ finder[f].at = "idle" /\ finder' = [finder EXCEPT ![f] = s]
          /\ raced' = IF \E g \in Finders : finder[g].for = p THEN raced \cup {p} ELSE raced
          /\ with' = with /\ posts' = posts
        BY <1>1 DEF FinderBegins
    <2>2. s \in FinderState /\ s.for = p /\ s.at = "looking"
        BY DEF FinderState
    <2> HIDE DEF s
    <2>3. finder' \in [Finders -> FinderState] /\ finder'[f] = s /\ \A g \in Finders : g # f => finder'[g] = finder[g]
        BY <2>1, <2>2 DEF RowsInv
    <2>4. RowsInv'
        BY <2>1, <2>2, <2>3, MessagesAssumptions DEF RowsInv
    <2>5. ASSUME NEW q \in Partners \ raced'
          PROVE  q \in Partners \ raced /\ (q = p => \A g \in Finders : finder[g].for # q)
        BY <2>1, <2>5
    <2>6. FindersInv'
        BY <2>1, <2>2, <2>3, <2>5 DEF FindersInv
    <2>7. QED BY <2>4, <2>6
<1>2. CASE FinderLooks(f) /\ LooksFor(finder[f].for) # {}
    <2>1. finder' = [finder EXCEPT ![f] = NoFinder] /\ UNCHANGED << with, posts, raced >>
        BY <1>2 DEF FinderLooks, Finds
    <2>2. QED BY <2>1, FinderEnds
<1>3. CASE FinderLooks(f) /\ LooksFor(finder[f].for) = {}
    <2> DEFINE s == [finder[f] EXCEPT !.at = "creating"]
    <2>1. finder[f].at = "looking" /\ finder' = [finder EXCEPT ![f] = s] /\ with' = with /\ posts' = posts /\ raced' = raced
        BY <1>3 DEF FinderLooks
    <2>2. s \in FinderState /\ s.for = finder[f].for /\ s.at = "creating"
        BY <1>0 DEF FinderState
    <2> HIDE DEF s
    <2>3. finder' \in [Finders -> FinderState] /\ finder'[f] = s /\ \A g \in Finders : g # f => finder'[g] = finder[g]
        BY <2>1, <2>2 DEF RowsInv
    <2>4. RowsInv'
        BY <2>1, <2>2, <2>3 DEF RowsInv
    <2>5. \A c \in Conversations : with[c] # finder[f].for
        BY <1>3 DEF LooksFor, Held
    <2>6. FindersInv'
        BY <2>1, <2>2, <2>3, <2>5 DEF FindersInv
    <2>7. QED BY <2>4, <2>6
<1>4. CASE FinderCreates(f)
    <2>1. PICK c \in Conversations \ Created :
             finder[f].at = "creating" /\ with' = [with EXCEPT ![c] = finder[f].for] /\ finder' = [finder EXCEPT ![f] = NoFinder]
             /\ posts' = posts /\ raced' = raced
        BY <1>4 DEF FinderCreates, Finds
    <2>2. PICK p \in Partners : p = finder[f].for
        BY <1>0, <2>1 DEF RowsInv, FinderState
    <2>3. with[c] = Missing
        BY <2>1 DEF Created
    <2>4. NoFinder \in FinderState /\ NoFinder.for = Missing /\ NoFinder.at = "idle" /\ Missing # p
        BY MessagesAssumptions DEF NoFinder, FinderState
    <2>5. /\ finder' \in [Finders -> FinderState] /\ finder'[f] = NoFinder
          /\ \A g \in Finders : g # f => finder'[g] = finder[g]
        BY <2>1, <2>4 DEF RowsInv
    <2>6. /\ with' \in [Conversations -> Partners \cup {Missing}] /\ with'[c] = p
          /\ \A d \in Conversations : d # c => with'[d] = with[d]
        BY <2>1, <2>2 DEF RowsInv
    <2>7. RowsInv'
        BY <2>1, <2>3, <2>4, <2>5, <2>6 DEF RowsInv
    <2>8. ASSUME NEW q \in Partners \ raced'
          PROVE  /\ \A g, h \in Finders : finder'[g].for = q /\ finder'[h].for = q => g = h
                 /\ \A d, e \in Conversations : with'[d] = q /\ with'[e] = q => d = e
                 /\ \A g \in Finders : finder'[g].for = q /\ finder'[g].at = "creating" =>
                       \A d \in Conversations : with'[d] # q
        <3>1. q \in Partners \ raced
            BY <2>1
        <3>2. CASE q = p
            <4>1. (\A d \in Conversations : with[d] # p) /\ \A g \in Finders : g # f => finder[g].for # p
                BY <2>1, <2>2, <3>1, <3>2 DEF FindersInv
            <4>2. QED BY <4>1, <2>4, <2>5, <2>6, <3>2
        <3>3. CASE q # p
            BY <3>1, <3>3, <2>4, <2>5, <2>6, MessagesAssumptions DEF FindersInv
        <3>4. QED BY <3>2, <3>3
    <2>9. FindersInv'
        BY <2>8 DEF FindersInv
    <2>10. QED BY <2>7, <2>9
<1>5. CASE FinderFails(f)
    BY <1>5, FinderEnds DEF FinderFails
<1>6. QED BY <1>1, <1>2, <1>3, <1>4, <1>5

\* Messages of conversation c in the order they were written, none later than the one at place top.
InOrder(s, c, top) ==
    \A k \in 1..Len(s) : s[k].of = c /\ s[k].place <= top /\ (k > 1 => s[k - 1].place < s[k].place)

\* A page of a conversation that holds n messages.
PagePart(c, n, nth) ==
    [of |-> c, page |-> nth, total |-> n,
     shown |-> [k \in 1..Cardinality({ i \in 1..n : i > (nth - 1) * PageSize /\ i <= nth * PageSize }) |->
                   [of |-> c, place |-> (nth - 1) * PageSize + k]]]

\* The page: what is shown, on its way and being sent belongs to conversations there are.
ViewInv ==
    /\ active \in Conversations \cup {0} /\ (active # 0 => with[active] # Missing)
    /\ thread \in Threads /\ \A q \in loads : q \in Load
    /\ sending \in SendState /\ tangled \in BOOLEAN
    /\ sending.at # "idle" => sending.to \in Conversations /\ with[sending.to] # Missing
    /\ sending.at = "posted" => sending.post > 0

\* As long as the page's requests do not cross, it fetches or sends, and not both; what it fetches is the chosen
\* conversation, once; and the thread it shows then is that conversation's, without the message it is sending.
ThreadInv ==
    ~tangled /\ active # 0 =>
        /\ loads # {} => sending.at = "idle"
        /\ \A q, r \in loads : q = r
        /\ \A q \in loads : /\ q.of = active
                            /\ q.answered => q.answer.of = active /\ InOrder(q.answer.shown, active, posts[active])
        /\ loads = {} => thread.of = active /\ InOrder(thread.shown, active, posts[active])
        /\ sending.at # "idle" => sending.to = active
        /\ sending.at = "posted" => sending.post <= posts[active] /\ InOrder(thread.shown, active, sending.post - 1)

MessagesInv == RowsInv /\ FindersInv /\ ViewInv /\ ThreadInv

LEMMA OrderStays ==
    ASSUME NEW s \in Seq(Shown), NEW c, NEW m \in Nat, NEW n \in Nat, m <= n, InOrder(s, c, m)
    PROVE  InOrder(s, c, n)
<1>1. \A k \in 1..Len(s) : s[k] \in Shown
    OBVIOUS
<1>2. \A k \in 1..Len(s) : s[k].place \in Nat
    BY <1>1, MessagesAssumptions DEF Shown
<1>3. \A p \in Nat : p <= m => p <= n
    OBVIOUS
<1>4. QED BY <1>2, <1>3 DEF InOrder

LEMMA OrderAppends ==
    ASSUME NEW s \in Seq(Shown), NEW c, NEW m \in Shown, m.of = c, NEW n \in Nat, n = m.place - 1, InOrder(s, c, n)
    PROVE  InOrder(Append(s, m), c, m.place)
<1>0. m.place \in Nat /\ Len(s) \in Nat
    BY MessagesAssumptions DEF Shown
<1>1. /\ Len(Append(s, m)) = Len(s) + 1 /\ Append(s, m)[Len(s) + 1] = m
      /\ \A k \in 1..Len(s) : Append(s, m)[k] = s[k] /\ s[k] \in Shown
    OBVIOUS
<1>2. \A k \in 1..Len(s) : s[k].place \in Nat /\ s[k].place < m.place
    <2>1. \A k \in 1..Len(s) : s[k].place \in Nat
        BY <1>1, MessagesAssumptions DEF Shown
    <2>2. \A p \in Nat : p <= n => p < m.place
        BY <1>0
    <2>3. QED BY <2>1, <2>2 DEF InOrder
<1>3. ASSUME NEW k \in 1..Len(Append(s, m))
      PROVE  /\ Append(s, m)[k].of = c /\ Append(s, m)[k].place <= m.place
             /\ k > 1 => Append(s, m)[k - 1].place < Append(s, m)[k].place
    <2>1. CASE k = Len(s) + 1
        <3>1. k > 1 => k - 1 \in 1..Len(s)
            BY <1>0, <2>1
        <3>2. m.place <= m.place
            BY <1>0
        <3>3. QED BY <2>1, <3>1, <3>2, <1>1, <1>2
    <2>2. CASE k # Len(s) + 1
        <3>1. k \in 1..Len(s) /\ (k > 1 => k - 1 \in 1..Len(s))
            BY <1>0, <1>1, <2>2
        <3>2. \A p \in Nat : p < m.place => p <= m.place
            BY <1>0
        <3>3. QED BY <3>1, <3>2, <1>1, <1>2 DEF InOrder
    <2>3. QED BY <2>1, <2>2
<1>4. QED BY <1>3 DEF InOrder

\* A page of a thread has messages that are stored, in their order.
LEMMA PagesInOrder ==
    ASSUME NEW c \in Conversations, NEW n \in 0..MaxPosts, NEW nth \in Nat \ {0}
    PROVE  /\ PagePart(c, n, nth) \in Threads /\ PagePart(c, n, nth).of = c
           /\ InOrder(PagePart(c, n, nth).shown, c, n)
<1> DEFINE S == { i \in 1..n : i > (nth - 1) * PageSize /\ i <= nth * PageSize }
           s == [k \in 1..Cardinality(S) |-> [of |-> c, place |-> (nth - 1) * PageSize + k]]
<1>0. n \in Nat /\ MaxPosts \in Nat /\ n <= MaxPosts
    BY MessagesAssumptions
<1>1. PICK low \in Nat, high \in Nat : low = (nth - 1) * PageSize /\ high = nth * PageSize
    BY MessagesAssumptions
<1>2. PICK top \in Nat : top = IF high < n THEN high ELSE n
    BY <1>0
<1>3. S = (low + 1)..top
    BY <1>0, <1>1, <1>2
<1> HIDE DEF S
<1>4. PICK size \in Nat : size = Cardinality(S) /\ (size > 0 => low + size <= n)
    <2>1. Cardinality((low + 1)..top) = IF low + 1 > top THEN 0 ELSE top - (low + 1) + 1
        BY FS_Interval
    <2>2. CASE low + 1 > top
        BY <1>3, <2>1, <2>2
    <2>3. CASE ~(low + 1 > top)
        <3>0. top - (low + 1) + 1 = top - low /\ top - low \in Nat
            BY <2>3
        <3>1. Cardinality(S) = top - low /\ top - low \in Nat
            BY <1>3, <2>1, <2>3, <3>0
        <3>2. low + (top - low) <= n
            BY <1>0, <1>2
        <3>3. QED BY <3>1, <3>2
    <2>4. QED BY <2>2, <2>3
<1>5. s = [k \in 1..size |-> [of |-> c, place |-> low + k]]
    BY <1>1, <1>4
<1> HIDE DEF s
<1>6. \A k \in 1..size : s[k] = [of |-> c, place |-> low + k] /\ low + k \in 1..n
    <2>1. ASSUME NEW k \in 1..size PROVE low + k \in 1..n
        BY <1>0, <1>4
    <2>2. QED BY <1>5, <2>1
<1>7. \A k \in 1..size : s[k] \in Shown /\ s[k].of = c /\ s[k].place = low + k
    <2>0. \A j \in 1..n : j \in 1..MaxPosts
        BY <1>0
    <2>1. \A k \in 1..size : low + k \in 1..MaxPosts
        BY <2>0, <1>6
    <2>2. ASSUME NEW k \in 1..size PROVE s[k] \in Shown /\ s[k].of = c /\ s[k].place = low + k
        <3>1. s[k] = [of |-> c, place |-> low + k] /\ low + k \in 1..MaxPosts
            BY <1>6, <2>1
        <3>2. QED BY <3>1 DEF Shown
    <2>3. QED BY <2>2
<1>8. s \in Seq(Shown) /\ Len(s) = size
    <2>1. s \in [1..size -> Shown]
        BY <1>5, <1>7
    <2>2. QED BY <2>1
<1>9. InOrder(s, c, n)
    <2>1. ASSUME NEW k \in 1..Len(s) PROVE s[k].of = c /\ s[k].place <= n /\ (k > 1 => s[k - 1].place < s[k].place)
        <3>0. k \in 1..size
            BY <1>8
        <3>1. k \in 1..size /\ (k > 1 => k - 1 \in 1..size)
            BY <3>0
        <3>2. s[k].of = c /\ s[k].place <= n
            <4>1. \A j \in 1..n : j <= n
                BY <1>0
            <4>2. QED BY <3>0, <4>1, <1>6, <1>7
        <3>3. k > 1 => s[k - 1].place = low + (k - 1) /\ s[k].place = low + k
            BY <3>1, <1>7
        <3>4. k > 1 => low + (k - 1) < low + k
            BY <3>1
        <3>5. QED BY <3>2, <3>3, <3>4
    <2>2. QED BY <2>1 DEF InOrder
<1>10. PagePart(c, n, nth) = [of |-> c, page |-> nth, total |-> n, shown |-> s]
    BY DEF PagePart, S, s
<1>11. QED BY <1>0, <1>8, <1>9, <1>10 DEF Threads

LEMMA ViewInvInit == MessagesInit => ViewInv /\ ThreadInv
<1> SUFFICES ASSUME MessagesInit PROVE ViewInv /\ ThreadInv
    OBVIOUS
<1>1. NoThread \in Threads
    <2>1. << >> \in Seq(Shown)
        OBVIOUS
    <2>2. QED BY <2>1 DEF NoThread, Threads
<1>2. NotSending \in SendState /\ NotSending.at = "idle"
    BY MessagesAssumptions DEF NotSending, SendState
<1>3. QED BY <1>1, <1>2 DEF MessagesInit, ViewInv, ThreadInv

\* The rows change, and no conversation there is goes away.
LEMMA ViewKeptByRows ==
    ASSUME RowsInv, ViewInv, ThreadInv, UNCHANGED << active, thread, loads, sending, tangled >>, RowsInv',
           \A c \in Conversations : (with[c] # Missing => with'[c] # Missing) /\ posts[c] <= posts'[c]
    PROVE  ViewInv' /\ ThreadInv'
<1>1. ViewInv'
    BY DEF ViewInv
<1>2. ASSUME ~tangled, active # 0
      PROVE  /\ \A q \in loads : q.answered => InOrder(q.answer.shown, active, posts'[active])
             /\ loads = {} => InOrder(thread.shown, active, posts'[active])
             /\ sending.at = "posted" => sending.post <= posts'[active]
    <2>1. active \in Conversations /\ posts[active] \in Nat /\ posts'[active] \in Nat /\ posts[active] <= posts'[active]
        BY <1>2, MessagesAssumptions DEF ViewInv, RowsInv
    <2>2. PICK m \in Nat, n \in Nat : m = posts[active] /\ n = posts'[active] /\ m <= n
        BY <2>1
    <2>3. thread.shown \in Seq(Shown) /\ \A q \in loads : q.answer.shown \in Seq(Shown)
        BY DEF ViewInv, Load, Threads
    <2>4. sending.post \in Nat
        BY MessagesAssumptions DEF ViewInv, SendState
    <2>5. \A p \in Nat : p <= m => p <= n
        BY <2>2
    <2>6. QED BY <1>2, <2>2, <2>3, <2>4, <2>5, OrderStays DEF ThreadInv
<1>3. ThreadInv'
    BY <1>2 DEF ThreadInv
<1>4. QED BY <1>1, <1>3

\* Choosing a conversation there is.
LEMMA ChosenKeeps ==
    ASSUME ViewInv, ThreadInv, NEW c \in Conversations, Chosen(c), UNCHANGED << posts, thread, sending >>,
           with' = with \/ \A d \in Conversations : with[d] # Missing => with'[d] = with[d], with'[c] # Missing
    PROVE  ViewInv' /\ ThreadInv'
<1>1. CASE c = active
    <2>1. UNCHANGED << active, loads, tangled >>
        BY <1>1 DEF Chosen
    <2>2. QED BY <2>1 DEF ViewInv, ThreadInv
<1>2. CASE c # active
    <2> DEFINE q == [of |-> c, page |-> 1, answered |-> FALSE, answer |-> NoThread]
    <2>1. active' = c /\ loads' = loads \cup {q} /\ tangled' = (loads # {} \/ sending.at # "idle")
        BY <1>2 DEF Chosen
    <2>2. NoThread \in Threads
        <3>1. << >> \in Seq(Shown)
            OBVIOUS
        <3>2. QED BY <3>1 DEF NoThread, Threads
    <2>3. q \in Load /\ q.of = c /\ ~q.answered
        BY <2>2 DEF Load
    <2> HIDE DEF q
    <2>4. ViewInv'
        BY <2>1, <2>3 DEF ViewInv
    <2>5. ThreadInv'
        BY <2>1, <2>3 DEF ThreadInv
    <2>6. QED BY <2>4, <2>5
<1>3. QED BY <1>1, <1>2

\* The steps that choose a conversation.
LEMMA ChoosingKeeps ==
    ASSUME RowsInv, ViewInv, ThreadInv,
           (\E c \in Conversations : Selects(c)) \/ \E f \in Finders : FinderLooks(f) \/ FinderCreates(f)
    PROVE  ViewInv' /\ ThreadInv'
<1>1. ASSUME NEW c \in Conversations, Selects(c) PROVE ViewInv' /\ ThreadInv'
    BY <1>1, ChosenKeeps DEF Selects, Created
<1>2. ASSUME UNCHANGED << with, posts, active, thread, loads, sending, tangled >> PROVE ViewInv' /\ ThreadInv'
    BY <1>2 DEF ViewInv, ThreadInv
<1>3. ASSUME NEW f \in Finders, FinderLooks(f) PROVE ViewInv' /\ ThreadInv'
    <2>1. CASE LooksFor(finder[f].for) # {} /\ finder[f].page
        <3>1. PICK c \in Conversations : with[c] = finder[f].for /\ Chosen(c) /\ UNCHANGED << with, posts, thread, sending >>
            BY <1>3, <2>1 DEF FinderLooks, Finds, LooksFor, Held
        <3>2. with[c] # Missing
            BY <1>3, <3>1 DEF FinderLooks, RowsInv
        <3>3. QED BY <3>1, <3>2, ChosenKeeps
    <2>2. CASE LooksFor(finder[f].for) = {} \/ ~finder[f].page
        <3>1. UNCHANGED << with, posts, active, thread, loads, sending, tangled >>
            BY <1>3, <2>2 DEF FinderLooks, Finds
        <3>2. QED BY <1>2, <3>1
    <2>3. QED BY <2>1, <2>2
<1>4. ASSUME NEW f \in Finders, FinderCreates(f) PROVE ViewInv' /\ ThreadInv'
    <2>1. PICK c \in Conversations \ Created : with' = [with EXCEPT ![c] = finder[f].for] /\ Finds(f, c)
        BY <1>4 DEF FinderCreates
    <2>2. finder[f].for # Missing
        BY <1>4 DEF FinderCreates, RowsInv
    <2>3. with[c] = Missing
        BY <2>1 DEF Created
    <2>4. with'[c] # Missing /\ \A d \in Conversations : with[d] # Missing => with'[d] = with[d]
        BY <2>1, <2>2, <2>3 DEF RowsInv
    <2>5. UNCHANGED << posts, thread, sending >>
        BY <1>4 DEF FinderCreates
    <2>6. CASE finder[f].page
        <3>1. Chosen(c)
            BY <2>1, <2>6 DEF Finds
        <3>2. QED BY <2>4, <2>5, <3>1, ChosenKeeps
    <2>7. CASE ~finder[f].page
        <3>1. UNCHANGED << active, loads, tangled >>
            BY <2>1, <2>7 DEF Finds
        <3>2. QED BY <2>4, <2>5, <3>1 DEF ViewInv, ThreadInv
    <2>8. QED BY <2>6, <2>7
<1>5. QED BY <1>1, <1>3, <1>4

\* The fetches.
LEMMA LoadsKeep ==
    ASSUME RowsInv, ViewInv, ThreadInv,
           (\E q \in loads : LoadServed(q) \/ LoadArrives(q) \/ LoadFails(q)) \/ LoadsMore
    PROVE  ViewInv' /\ ThreadInv'
<1>1. ASSUME NEW q \in loads, LoadServed(q) PROVE ViewInv' /\ ThreadInv'
    <2>0. q \in Load /\ q.of \in Conversations /\ q.page \in Nat \ {0}
        BY DEF ViewInv, Load
    <2>1. PICK n \in 0..MaxPosts : n = posts[q.of]
        BY <2>0 DEF RowsInv
    <2>2. PICK t \in Threads : t = PagePart(q.of, n, q.page) /\ t.of = q.of /\ InOrder(t.shown, q.of, n)
        BY <2>0, PagesInOrder
    <2> DEFINE r == [q EXCEPT !.answered = TRUE, !.answer = t]
    <2>3. t = PageOf(q.of, q.page)
        BY <2>1, <2>2 DEF PageOf, PagePart
    <2>4. /\ loads' = (loads \ {q}) \cup {r}
          /\ UNCHANGED << with, posts, active, thread, sending, tangled >>
        BY <1>1, <2>3 DEF LoadServed
    <2>5. r \in Load /\ r.of = q.of /\ r.answer = t /\ r.answered
        BY <2>0 DEF Load
    <2> HIDE DEF r
    <2>6. ViewInv'
        BY <2>4, <2>5 DEF ViewInv
    <2>7. ASSUME ~tangled, active # 0
          PROVE  /\ sending.at = "idle" /\ loads' = {r} /\ r.of = active /\ InOrder(r.answer.shown, active, posts[active])
        BY <2>1, <2>2, <2>4, <2>5, <2>7 DEF ThreadInv
    <2>8. ThreadInv'
        BY <2>2, <2>4, <2>5, <2>7 DEF ThreadInv
    <2>9. QED BY <2>6, <2>8
<1>2. ASSUME NEW q \in loads, LoadArrives(q) PROVE ViewInv' /\ ThreadInv'
    <2>1. q.answered /\ thread' = q.answer /\ loads' = loads \ {q} /\ UNCHANGED << with, posts, active, sending, tangled >>
        BY <1>2 DEF LoadArrives
    <2>2. q \in Load /\ q.answer \in Threads
        BY DEF ViewInv, Load
    <2>3. ViewInv'
        BY <2>1, <2>2 DEF ViewInv
    <2>4. ASSUME ~tangled, active # 0
          PROVE  /\ sending.at = "idle" /\ loads' = {} /\ q.answer.of = active /\ InOrder(q.answer.shown, active, posts[active])
        BY <2>1, <2>4 DEF ThreadInv
    <2>5. ThreadInv'
        BY <2>1, <2>4 DEF ThreadInv
    <2>6. QED BY <2>3, <2>5
<1>3. ASSUME NEW q \in loads, LoadFails(q) PROVE ViewInv' /\ ThreadInv'
    BY <1>3 DEF LoadFails, ViewInv, ThreadInv
<1>4. CASE LoadsMore
    <2> DEFINE q == [of |-> active, page |-> thread.page + 1, answered |-> FALSE, answer |-> NoThread]
    <2>1. active # 0 /\ loads' = {q} /\ tangled' = (sending.at # "idle") /\ UNCHANGED << with, posts, active, thread, sending >>
        BY <1>4 DEF LoadsMore
    <2>2. NoThread \in Threads
        <3>1. << >> \in Seq(Shown)
            OBVIOUS
        <3>2. QED BY <3>1 DEF NoThread, Threads
    <2>3. thread.page + 1 \in Nat \ {0}
        BY DEF ViewInv, Threads
    <2>4. q \in Load /\ q.of = active /\ ~q.answered
        BY <2>1, <2>2, <2>3 DEF Load, ViewInv
    <2>5. \E r \in Load : loads' = {r} /\ r.of = active /\ ~r.answered
        BY <2>1, <2>4
    <2> HIDE DEF q
    <2>6. PICK r \in Load : loads' = {r} /\ r.of = active /\ ~r.answered
        BY <2>5
    <2>7. ViewInv'
        BY <2>1, <2>6 DEF ViewInv
    <2>8. ThreadInv'
        BY <2>1, <2>6 DEF ThreadInv
    <2>9. QED BY <2>7, <2>8
<1>5. QED BY <1>1, <1>2, <1>3, <1>4

\* Sending.
LEMMA SendsKeep ==
    ASSUME RowsInv, ViewInv, ThreadInv, SendBegins \/ SendServed \/ SendAnswered
    PROVE  (RowsInv /\ ViewInv /\ ThreadInv)'
<1>0. \A c \in Conversations : posts[c] \in Nat /\ posts[c] <= MaxPosts
    BY MessagesAssumptions DEF RowsInv
<1>1. CASE SendBegins
    <2> DEFINE s == [at |-> "posting", to |-> active, post |-> 0]
    <2>1. /\ active # 0 /\ sending.at = "idle" /\ sending' = s /\ tangled' = (tangled \/ loads # {})
          /\ UNCHANGED << with, posts, finder, active, thread, loads, raced >>
        BY <1>1 DEF SendBegins
    <2>2. active \in Conversations /\ with[active] # Missing
        BY <2>1 DEF ViewInv
    <2>3. s \in SendState /\ s.at = "posting" /\ s.to = active
        BY <2>2, MessagesAssumptions DEF SendState
    <2> HIDE DEF s
    <2>4. RowsInv'
        BY <2>1 DEF RowsInv
    <2>5. ViewInv'
        BY <2>1, <2>2, <2>3 DEF ViewInv
    <2>6. ThreadInv'
        BY <2>1, <2>3 DEF ThreadInv, ViewInv
    <2>7. QED BY <2>4, <2>5, <2>6
<1>2. ASSUME sending.at = "posting", posts[sending.to] < MaxPosts, posts' = [posts EXCEPT ![sending.to] = @ + 1],
             NEW at \in {"posted", "failed"}, sending' = [sending EXCEPT !.at = at, !.post = posts'[sending.to]],
             UNCHANGED << with, finder, active, thread, loads, raced, tangled >>
      PROVE  (RowsInv /\ ViewInv /\ ThreadInv)'
    <2>1. PICK to \in Conversations : to = sending.to /\ with[to] # Missing
        BY <1>2 DEF ViewInv
    <2>2. PICK n \in Nat : n = posts[to] /\ n + 1 \in 0..MaxPosts
        BY <1>0, <1>2, <2>1, MessagesAssumptions
    <2>3. /\ posts' \in [Conversations -> 0..MaxPosts] /\ posts'[to] = n + 1
          /\ \A c \in Conversations : c # to => posts'[c] = posts[c]
        BY <1>2, <2>1, <2>2 DEF RowsInv
    <2>4. sending \in SendState
        BY DEF ViewInv
    <2>5. sending' \in SendState /\ sending'.at = at /\ sending'.to = to /\ sending'.post = n + 1
        BY <1>2, <2>1, <2>2, <2>3, <2>4 DEF SendState
    <2>6. RowsInv'
        BY <1>2, <2>1, <2>3 DEF RowsInv
    <2>7. ViewInv'
        <3>1. n + 1 > 0
            BY <2>2
        <3>2. QED BY <1>2, <2>1, <2>5, <3>1 DEF ViewInv
    <2>8. ASSUME ~tangled, active # 0
          PROVE  /\ active = to /\ loads = {} /\ thread.of = active /\ InOrder(thread.shown, active, n)
                 /\ thread.shown \in Seq(Shown)
        BY <1>2, <2>1, <2>2, <2>8 DEF ThreadInv, ViewInv, Threads
    <2>9. ASSUME ~tangled, active # 0 PROVE InOrder(thread.shown, active, n + 1)
        <3>1. n <= n + 1 /\ n + 1 \in Nat
            BY <2>2
        <3>2. QED BY <2>8, <2>9, <3>1, OrderStays
    <2>10. n + 1 <= n + 1 /\ (n + 1) - 1 = n
        BY <2>2
    <2>11. ThreadInv'
        BY <1>2, <2>3, <2>5, <2>8, <2>9, <2>10 DEF ThreadInv
    <2>12. QED BY <2>6, <2>7, <2>11
<1>3. CASE sending.at = "posting" /\ sending' = [sending EXCEPT !.at = "failed"] /\
           UNCHANGED << with, posts, finder, active, thread, loads, raced, tangled >>
    <2>1. sending' \in SendState /\ sending'.at = "failed" /\ sending'.to = sending.to
        BY <1>3 DEF ViewInv, SendState
    <2>2. QED BY <1>3, <2>1 DEF RowsInv, ViewInv, ThreadInv
<1>4. CASE SendAnswered
    <2>1. NotSending \in SendState /\ NotSending.at = "idle"
        BY MessagesAssumptions DEF NotSending, SendState
    <2>2. sending' = NotSending /\ UNCHANGED << with, posts, finder, active, loads, raced, tangled >>
        BY <1>4 DEF SendAnswered
    <2>3. RowsInv'
        BY <2>2 DEF RowsInv
    <2>4. CASE sending.at # "posted" \/ thread.of = 0
        <3>1. thread' = thread
            BY <1>4, <2>4 DEF SendAnswered, Appended
        <3>2. ViewInv' /\ ThreadInv'
            BY <2>1, <2>2, <3>1 DEF ViewInv, ThreadInv
        <3>3. QED BY <2>3, <3>2
    <2>5. CASE sending.at = "posted" /\ thread.of # 0
        <3> DEFINE m == [of |-> sending.to, place |-> sending.post]
                   t == [thread EXCEPT !.shown = Append(@, m), !.total = @ + 1]
        <3>1. thread' = t
            BY <1>4, <2>5 DEF SendAnswered, Appended
        <3>2. m \in Shown /\ m.of = sending.to /\ m.place = sending.post
            <4>1. sending.to \in Conversations /\ sending.post \in 1..MaxPosts
                BY <2>5, MessagesAssumptions DEF ViewInv, SendState
            <4>2. QED BY <4>1 DEF Shown
        <3> HIDE DEF m
        <3>3. thread \in Threads /\ thread.shown \in Seq(Shown) /\ thread.total + 1 \in Nat
            BY DEF ViewInv, Threads
        <3>4. Append(thread.shown, m) \in Seq(Shown)
            BY <3>2, <3>3
        <3>5. t \in Threads /\ t.of = thread.of /\ t.shown = Append(thread.shown, m)
            BY <3>3, <3>4 DEF Threads
        <3> HIDE DEF t
        <3>6. ViewInv'
            BY <2>1, <2>2, <3>1, <3>5 DEF ViewInv
        <3>7. ASSUME ~tangled, active # 0
              PROVE  thread.of = active /\ InOrder(t.shown, active, posts[active])
            <4>1. /\ loads = {} /\ thread.of = active /\ sending.to = active /\ sending.post <= posts[active]
                  /\ InOrder(thread.shown, active, sending.post - 1)
                BY <2>5, <3>7 DEF ThreadInv
            <4>2. PICK n \in Nat : n = m.place - 1
                <5>1. m.place - 1 \in Nat
                    BY <3>2, MessagesAssumptions DEF Shown
                <5>2. QED BY <5>1
            <4>3. InOrder(t.shown, active, m.place)
                BY <3>2, <3>3, <3>5, <4>1, <4>2, OrderAppends
            <4>4. m.place \in Nat /\ posts[active] \in Nat /\ t.shown \in Seq(Shown)
                BY <1>0, <3>2, <3>4, <3>5, <4>1, <2>5, MessagesAssumptions DEF ViewInv, SendState
            <4>5. QED BY <3>2, <4>1, <4>3, <4>4, OrderStays
        <3>8. ThreadInv'
            BY <2>1, <2>2, <3>1, <3>5, <3>7 DEF ThreadInv
        <3>9. QED BY <2>3, <3>6, <3>8
    <2>6. QED BY <2>4, <2>5
<1>5. QED BY <1>1, <1>2, <1>3, <1>4 DEF SendServed

LEMMA PostsKeep ==
    ASSUME RowsInv, ViewInv, ThreadInv, NEW c \in Conversations, PartnerPosts(c)
    PROVE  (RowsInv /\ ViewInv /\ ThreadInv)'
<1>0. posts[c] \in Nat /\ MaxPosts \in Nat /\ \A d \in Conversations : posts[d] \in Nat
    BY MessagesAssumptions DEF RowsInv
<1>1. /\ with[c] # Missing /\ posts[c] < MaxPosts /\ posts' = [posts EXCEPT ![c] = @ + 1]
      /\ UNCHANGED << with, finder, active, thread, loads, sending, raced, tangled >>
    BY DEF PartnerPosts, Created
<1>2. posts[c] + 1 \in 0..MaxPosts
    BY <1>0, <1>1
<1>3. /\ posts' \in [Conversations -> 0..MaxPosts] /\ posts'[c] = posts[c] + 1
      /\ \A d \in Conversations : d # c => posts'[d] = posts[d]
    BY <1>1, <1>2 DEF RowsInv
<1>4. RowsInv'
    BY <1>1, <1>3 DEF RowsInv
<1>5. \A d \in Conversations : posts[d] <= posts'[d]
    <2>1. \A n \in Nat : n <= n + 1 /\ n <= n
        OBVIOUS
    <2>2. QED BY <2>1, <1>0, <1>3
<1>6. QED BY <1>1, <1>4, <1>5, ViewKeptByRows

LEMMA MessagesInvNext == MessagesInv /\ [MessagesNext]_messageVars => MessagesInv'
<1> SUFFICES ASSUME MessagesInv, [MessagesNext]_messageVars PROVE MessagesInv'
    OBVIOUS
<1> USE DEF MessagesInv
<1>1. CASE UNCHANGED messageVars
    BY <1>1 DEF messageVars, RowsInv, FindersInv, ViewInv, ThreadInv
<1>2. ASSUME UNCHANGED << with, posts, finder, raced >> PROVE RowsInv' /\ FindersInv'
    BY <1>2 DEF RowsInv, FindersInv
<1>3. ASSUME UNCHANGED << with, finder, raced >> PROVE FindersInv'
    BY <1>3 DEF FindersInv
<1>4. ASSUME NEW c \in Conversations, Selects(c) PROVE MessagesInv'
    BY <1>2, <1>4, ChoosingKeeps DEF Selects
<1>5. ASSUME NEW c \in Conversations, PartnerPosts(c) PROVE MessagesInv'
    BY <1>3, <1>5, PostsKeep DEF PartnerPosts
<1>6. ASSUME NEW f \in Finders, NEW p \in Partners, NEW here \in BOOLEAN, FinderBegins(f, p, here) PROVE MessagesInv'
    <2>1. RowsInv' /\ FindersInv'
        BY <1>6, RowsKeptByFinders
    <2>2. ViewInv' /\ ThreadInv'
        BY <1>6 DEF FinderBegins, ViewInv, ThreadInv
    <2>3. QED BY <2>1, <2>2
<1>7. ASSUME NEW f \in Finders, FinderLooks(f) \/ FinderCreates(f) PROVE MessagesInv'
    BY <1>7, RowsKeptByFinders, ChoosingKeeps
<1>8. ASSUME NEW f \in Finders, FinderFails(f) PROVE MessagesInv'
    <2>1. RowsInv' /\ FindersInv'
        BY <1>8, RowsKeptByFinders
    <2>2. ViewInv' /\ ThreadInv'
        BY <1>8 DEF FinderFails, ViewInv, ThreadInv
    <2>3. QED BY <2>1, <2>2
<1>9. CASE (\E q \in loads : LoadServed(q) \/ LoadArrives(q) \/ LoadFails(q)) \/ LoadsMore
    BY <1>2, <1>9, LoadsKeep DEF LoadServed, LoadArrives, LoadFails, LoadsMore
<1>10. CASE SendBegins \/ SendServed \/ SendAnswered
    BY <1>3, <1>10, SendsKeep DEF SendBegins, SendServed, SendAnswered
<1>11. QED BY <1>1, <1>4, <1>5, <1>6, <1>7, <1>8, <1>9, <1>10 DEF MessagesNext

LEMMA MessagesInvShows == MessagesInv => MessagesTypeOK /\ OneConversation /\ ThreadOfTheChosen
<1> SUFFICES ASSUME MessagesInv PROVE MessagesTypeOK /\ OneConversation /\ ThreadOfTheChosen
    OBVIOUS
<1> USE DEF MessagesInv
<1>1. MessagesTypeOK
    BY DEF MessagesTypeOK, RowsInv, ViewInv, FinderState, SendState, Load
<1>2. ASSUME NEW p \in Partners \ raced PROVE Cardinality(Held(p)) <= 1
    <2>1. \A c, d \in Held(p) : c = d
        BY DEF FindersInv, Held
    <2>2. CASE Held(p) = {}
        BY <2>2, FS_EmptySet
    <2>3. CASE Held(p) # {}
        <3>1. PICK c \in Held(p) : Held(p) = {c}
            BY <2>1, <2>3
        <3>2. Cardinality({c}) = 1
            BY FS_Singleton
        <3>3. QED BY <3>1, <3>2
    <2>4. QED BY <2>2, <2>3
<1>3. ASSUME active # 0, loads = {}, sending.at = "idle", ~tangled
      PROVE  /\ thread.of = active
             /\ \A k \in DOMAIN thread.shown :
                   /\ thread.shown[k].of = active
                   /\ k > 1 => thread.shown[k - 1].place < thread.shown[k].place
    <2>1. thread.of = active /\ InOrder(thread.shown, active, posts[active])
        BY <1>3 DEF ThreadInv
    <2>2. DOMAIN thread.shown = 1..Len(thread.shown)
        BY DEF ViewInv, Threads
    <2>3. QED BY <2>1, <2>2 DEF InOrder
<1>4. QED BY <1>1, <1>2, <1>3 DEF OneConversation, ThreadOfTheChosen

\* Two users have one conversation unless two requests for it overlapped, and the thread shown is the chosen one's.
THEOREM MessagesOfOne == MessagesInit /\ [][MessagesNext]_messageVars =>
                            [](MessagesTypeOK /\ OneConversation /\ ThreadOfTheChosen)
<1>1. MessagesInit => MessagesInv
    BY RowsInvInit, ViewInvInit DEF MessagesInv
<1>2. MessagesInv /\ [MessagesNext]_messageVars => MessagesInv'
    BY MessagesInvNext
<1>3. MessagesInv => MessagesTypeOK /\ OneConversation /\ ThreadOfTheChosen
    BY MessagesInvShows
<1>4. QED BY <1>1, <1>2, <1>3, PTL

-----------------------------------------------------------------------------
(* A week's page                                                            *)

\* The requests of a cell, and the entries it or one of them names.
Sent(key, d) == { q \in saving : q.kind # "submit" /\ q.key = key /\ q.day = d }
Owns(e, key, d) == grid[key][d].id = e \/ \E q \in Sent(key, d) : q.id = e \/ q.was.id = e

\* Entry e is stored as row key says, with h hours on day d.
Stands(e, key, d, h) ==
    e \in EntryIds /\ h # 0 /\ rows[key] # Hidden /\ entries[e] = [hours |-> h, day |-> d, label |-> rows[key]]

Quiet(key, d) == grid[key][d] = Empty \/ Stands(grid[key][d].id, key, d, grid[key][d].hours)

\* What a cell shows and the server stores while a request is under way, by what it is for and what was answered.
CreateTells(q, key, d) ==
    /\ q.was = Empty /\ rows[key] # Hidden /\ grid[key][d].id = 0
    /\ q.answer # "ok" => q.id = 0
    /\ q.answer # "failed" => q.hours # 0 /\ grid[key][d].hours = q.hours
    /\ q.answer = "none" => q.label = rows[key]
    /\ q.answer = "ok" => Stands(q.id, key, d, q.hours)

ChangeTells(q, key, d) ==
    /\ q.answer = "ok" => q.was = Empty
    /\ q.answer = "none" => q.id = q.was.id
    /\ q.answer # "none" => q.id = 0
    /\ q.answer # "ok" => Stands(q.was.id, key, d, q.was.hours)
    /\ q.kind = "delete" => grid[key][d] = Empty
    /\ q.kind = "update" =>
          /\ q.answer # "ok" => grid[key][d].id = q.was.id
          /\ q.answer = "none" => grid[key][d].hours = q.hours /\ q.hours # 0 /\ q.label = rows[key]
          /\ q.answer = "ok" => Stands(grid[key][d].id, key, d, grid[key][d].hours)

RowTells(q, key, d) ==
    /\ q.was = Empty
    /\ q.answer = "ok" => q.id = 0
    /\ q.kind = "drop" => rows[key] = Hidden /\ grid[key][d] = Empty
    /\ q.kind = "label" =>
          /\ q.answer = "none" =>
                /\ grid[key][d].id = q.id /\ grid[key][d].hours = q.hours /\ q.label = rows[key] /\ rows[key] # Hidden
                /\ q.id \in EntryIds /\ q.hours # 0 /\ entries[q.id].hours # 0 /\ entries[q.id].day = d
          /\ q.answer = "ok" => Stands(grid[key][d].id, key, d, grid[key][d].hours)

Tells(q, key, d) ==
    /\ q.kind = "create" => CreateTells(q, key, d)
    /\ q.kind \in {"update", "delete"} => ChangeTells(q, key, d)
    /\ q.kind \in {"label", "drop"} => RowTells(q, key, d)

CellOK(key, d) ==
    /\ Sent(key, d) = {} => Quiet(key, d)
    /\ \A q \in Sent(key, d) : Tells(q, key, d) /\ \A r \in Sent(key, d) : r = q

\* Every cell is right, no entry belongs to two cells, and every stored entry to one.
Agrees ==
    /\ \A key \in Keys, d \in Days : CellOK(key, d)
    /\ \A e \in EntryIds, key, k \in Keys, d, f \in Days : Owns(e, key, d) /\ Owns(e, k, f) => key = k /\ d = f
    /\ \A e \in EntryIds : entries[e].hours # 0 => \E key \in Keys, d \in Days : Owns(e, key, d)

\* Nothing has crossed or failed since the page was loaded, and no row's request is going to be found to have failed.
Sound ==
    /\ view \in {"open", "closed"} /\ ~muddled
    /\ \A q \in saving : q.kind \in {"label", "drop"} => q.answer # "failed"

PageInv == PageTypeOK /\ (Sound => Agrees)

\* The request as it is once it was answered.
WithAnswer(q, answer, id) ==
    [q EXCEPT !.answer = answer, !.id = id, !.label = Blank,
              !.hours = IF q.kind = "create" /\ answer = "ok" THEN q.hours ELSE 0,
              !.was = IF answer = "failed" THEN q.was ELSE Empty]

LEMMA ZeroFits == 0 \in 0..MaxHours /\ 0 \in 0..MaxEntryIds /\ EntryIds \subseteq 0..MaxEntryIds /\ 0 \notin EntryIds
    BY PageAssumptions DEF EntryIds

LEMMA EmptyFits ==
    /\ Empty \in Cell /\ Empty.id = 0 /\ Empty.hours = 0
    /\ NoEntry \in Entry /\ NoEntry.hours = 0 /\ NoEntry.day \in Days
    /\ Labels \subseteq Keys /\ Blank \in Labels /\ Blank # Hidden /\ Hidden \notin Labels
<1>1. \E d \in Days : TRUE
    BY PageAssumptions
<1>2. (CHOOSE d \in Days : TRUE) \in Days
    BY <1>1
<1>3. QED BY <1>2, ZeroFits, PageAssumptions DEF Empty, Cell, NoEntry, Entry, Keys

\* A cell is empty when it names no entry and shows no hours.
LEMMA EmptyIs == \A x \in Cell : x = Empty <=> x.id = 0 /\ x.hours = 0
    BY DEF Cell, Empty

LEMMA WithAnswerFits ==
    ASSUME NEW q \in Save, NEW answer \in {"ok", "failed"}, NEW id \in 0..MaxEntryIds
    PROVE  LET a == WithAnswer(q, answer, id) IN
           /\ a \in Save
           /\ a.kind = q.kind /\ a.key = q.key /\ a.day = q.day /\ a.id = id /\ a.answer = answer /\ a.label = Blank
           /\ a.hours = IF q.kind = "create" /\ answer = "ok" THEN q.hours ELSE 0
           /\ a.was = IF answer = "failed" THEN q.was ELSE Empty
<1> DEFINE h == IF q.kind = "create" /\ answer = "ok" THEN q.hours ELSE 0
           w == IF answer = "failed" THEN q.was ELSE Empty
           a == [q EXCEPT !.answer = answer, !.id = id, !.label = Blank, !.hours = h, !.was = w]
<1>1. h \in 0..MaxHours /\ w \in Cell
    BY ZeroFits, EmptyFits DEF Save
<1> HIDE DEF h, w
<1>2. /\ a \in Save
      /\ a.kind = q.kind /\ a.key = q.key /\ a.day = q.day /\ a.id = id /\ a.answer = answer /\ a.label = Blank
      /\ a.hours = h /\ a.was = w
    BY <1>1, EmptyFits DEF Save
<1>3. QED BY <1>2 DEF WithAnswer, h, w

LEMMA RequestFits ==
    ASSUME PageTypeOK, NEW kind \in {"create", "update", "delete", "label", "drop"}, NEW key \in Keys, NEW d \in Days,
           NEW hours \in 0..MaxHours, rows[key] # Hidden
    PROVE  LET r == Request(kind, key, d, hours) IN
           /\ r \in Save /\ rows[key] \in Labels
           /\ r.kind = kind /\ r.key = key /\ r.day = d /\ r.id = grid[key][d].id /\ r.hours = hours
           /\ r.label = rows[key] /\ r.answer = "none"
           /\ r.was = IF kind \in {"label", "drop"} THEN Empty ELSE grid[key][d]
<1>1. rows[key] \in Labels /\ grid[key] \in [Days -> Cell] /\ grid[key][d] \in Cell /\ grid[key][d].id \in 0..MaxEntryIds
    BY DEF PageTypeOK, Cell
<1> DEFINE w == IF kind \in {"label", "drop"} THEN Empty ELSE grid[key][d]
           i == grid[key][d].id
           l == rows[key]
           r == [kind |-> kind, key |-> key, day |-> d, id |-> i, hours |-> hours, label |-> l, was |-> w, answer |-> "none"]
<1>2. w \in Cell
    BY <1>1, EmptyFits
<1>3. i \in 0..MaxEntryIds /\ l \in Labels
    BY <1>1
<1> HIDE DEF w, i, l
<1>4. r \in Save
    BY <1>2, <1>3 DEF Save
<1>5. /\ r.kind = kind /\ r.key = key /\ r.day = d /\ r.id = i /\ r.hours = hours /\ r.label = l /\ r.answer = "none"
      /\ r.was = w
    OBVIOUS
<1>6. QED BY <1>1, <1>4, <1>5 DEF Request, w, i, l

LEMMA SubmissionFits == Submission \in Save /\ Submission.kind = "submit" /\ Submission.answer = "none"
<1>1. (CHOOSE key \in Keys : TRUE) \in Keys
    BY EmptyFits
<1> DEFINE k == CHOOSE key \in Keys : TRUE
           d == NoEntry.day
           l == NoEntry.label
<1>2. k \in Keys /\ d \in Days /\ l \in Labels
    BY <1>1, EmptyFits DEF Entry
<1>3. Submission = [kind |-> "submit", key |-> k, day |-> d, id |-> 0, hours |-> 0, label |-> l, was |-> Empty, answer |-> "none"]
    BY DEF Submission
<1> HIDE DEF k, d, l
<1>4. QED BY <1>2, <1>3, EmptyFits, ZeroFits DEF Save

\* A cell is put on the grid.
LEMMA ShowFits ==
    ASSUME PageTypeOK, NEW key \in Keys, NEW d \in Days, NEW cell \in Cell, Show(key, d, cell)
    PROVE  /\ grid' \in [Keys -> [Days -> Cell]] /\ grid'[key][d] = cell
           /\ \A k \in Keys, f \in Days : k # key \/ f # d => grid'[k][f] = grid[k][f]
<1>1. grid \in [Keys -> [Days -> Cell]] /\ grid' = [grid EXCEPT ![key] = [grid[key] EXCEPT ![d] = cell]]
    BY DEF PageTypeOK, Show
<1>2. grid[key] \in [Days -> Cell]
    BY <1>1
<1>3. [grid[key] EXCEPT ![d] = cell] \in [Days -> Cell] /\ [grid[key] EXCEPT ![d] = cell][d] = cell
      /\ \A f \in Days \ {d} : [grid[key] EXCEPT ![d] = cell][f] = grid[key][f]
    BY <1>2
<1>4. QED BY <1>1, <1>3

LEMMA ShowTyped ==
    ASSUME PageTypeOK, NEW key \in Keys, NEW d \in Days, NEW cell \in Cell, Show(key, d, cell), rows[key] # Hidden,
           UNCHANGED rows
    PROVE  /\ grid' \in [Keys -> [Days -> Cell]]
           /\ \A k \in Keys : rows'[k] = Hidden => \A f \in Days : grid'[k][f] = Empty
<1>1. /\ grid' \in [Keys -> [Days -> Cell]] /\ grid'[key][d] = cell
      /\ \A k \in Keys, f \in Days : k # key \/ f # d => grid'[k][f] = grid[k][f]
    BY ShowFits
<1>2. \A k \in Keys : rows[k] = Hidden => k # key /\ \A f \in Days : grid[k][f] = Empty
    BY DEF PageTypeOK
<1>3. QED BY <1>1, <1>2

LEMMA EntryFits ==
    ASSUME PageTypeOK, NEW e \in EntryIds, NEW x \in Entry, entries' = [entries EXCEPT ![e] = x]
    PROVE  /\ entries' \in [EntryIds -> Entry] /\ entries'[e] = x
           /\ \A f \in EntryIds \ {e} : entries'[f] = entries[f]
    BY DEF PageTypeOK

\* What Served does to the entries, by what the request is for.
LEMMA ServedDoes ==
    ASSUME PageTypeOK, NEW q \in saving, NEW answer \in {"ok", "failed"}, Served(q, answer)
    PROVE  /\ q \in Save /\ q.answer = "none" /\ open
           /\ q.kind = "create" =>
                \E e \in Fresh : /\ e \in EntryIds
                                 /\ entries' = [entries EXCEPT ![e] = [hours |-> q.hours, day |-> q.day, label |-> q.label]]
                                 /\ saving' = (saving \ {q}) \cup {WithAnswer(q, answer, IF answer = "ok" THEN e ELSE 0)}
           /\ q.kind \in {"update", "label"} =>
                /\ q.id \in Stored /\ q.id \in EntryIds
                /\ entries' = [entries EXCEPT ![q.id] = [hours |-> q.hours, day |-> entries[q.id].day, label |-> q.label]]
                /\ saving' = (saving \ {q}) \cup {WithAnswer(q, answer, 0)}
           /\ q.kind \in {"delete", "drop"} =>
                /\ q.id \in Stored /\ q.id \in EntryIds
                /\ entries' = [entries EXCEPT ![q.id] = NoEntry]
                /\ saving' = (saving \ {q}) \cup {WithAnswer(q, answer, 0)}
           /\ q.kind = "submit" => UNCHANGED entries /\ saving' = (saving \ {q}) \cup {WithAnswer(q, answer, 0)}
<1>1. q \in Save /\ q.answer = "none" /\ open /\ Accepts(q)
    BY DEF PageTypeOK, Served, Accepts
<1>2. CASE q.kind = "create"
    <2> DEFINE e == CHOOSE x \in Fresh : TRUE
    <2>1. e \in Fresh
        BY <1>1, <1>2 DEF Accepts
    <2>2. e \in EntryIds
        BY <2>1 DEF Fresh
    <2>3. /\ entries' = [entries EXCEPT ![e] = [hours |-> q.hours, day |-> q.day, label |-> q.label]]
          /\ AnswerOf(q, answer, IF answer = "ok" THEN e ELSE 0)
        BY <1>2 DEF Served
    <2> HIDE DEF e
    <2>4. saving' = (saving \ {q}) \cup {WithAnswer(q, answer, IF answer = "ok" THEN e ELSE 0)}
        BY <2>3 DEF AnswerOf, WithAnswer
    <2>5. QED BY <1>1, <1>2, <2>1, <2>2, <2>3, <2>4
<1>3. CASE q.kind \in {"update", "label"}
    <2>1. q.id \in Stored /\ q.id \in EntryIds
        BY <1>1, <1>3 DEF Accepts, Stored
    <2>2. entries' = [entries EXCEPT ![q.id].hours = q.hours, ![q.id].label = q.label] /\ AnswerOf(q, answer, 0)
        BY <1>3 DEF Served
    <2>3. entries' = [entries EXCEPT ![q.id] = [hours |-> q.hours, day |-> entries[q.id].day, label |-> q.label]]
        <3>1. entries \in [EntryIds -> Entry] /\ entries[q.id] \in Entry
            BY <2>1 DEF PageTypeOK
        <3>2. [[entries[q.id] EXCEPT !.hours = q.hours] EXCEPT !.label = q.label]
                  = [hours |-> q.hours, day |-> entries[q.id].day, label |-> q.label]
            <4>1. q.hours \in 0..MaxHours /\ q.label \in Labels
                BY <1>1 DEF Save
            <4>2. \A x \in Entry : x = [hours |-> x.hours, day |-> x.day, label |-> x.label]
                BY DEF Entry
            <4> DEFINE y == [[entries[q.id] EXCEPT !.hours = q.hours] EXCEPT !.label = q.label]
            <4>3. y \in Entry /\ y.hours = q.hours /\ y.label = q.label /\ y.day = entries[q.id].day
                BY <3>1, <4>1 DEF Entry
            <4>4. QED BY <4>2, <4>3
        <3>3. QED BY <2>1, <2>2, <3>1, <3>2
    <2>4. QED BY <1>1, <1>3, <2>1, <2>2, <2>3 DEF AnswerOf, WithAnswer
<1>4. CASE q.kind \in {"delete", "drop"}
    <2>1. q.id \in Stored /\ q.id \in EntryIds
        BY <1>1, <1>4 DEF Accepts, Stored
    <2>2. entries' = [entries EXCEPT ![q.id] = NoEntry] /\ AnswerOf(q, answer, 0)
        BY <1>4 DEF Served
    <2>3. QED BY <1>1, <1>4, <2>1, <2>2 DEF AnswerOf, WithAnswer
<1>5. CASE q.kind = "submit"
    <2>1. UNCHANGED entries /\ AnswerOf(q, answer, 0)
        BY <1>5 DEF Served
    <2>2. QED BY <1>1, <1>5, <2>1 DEF AnswerOf, WithAnswer
<1>6. QED BY <1>1, <1>2, <1>3, <1>4, <1>5

\* A grid changes only where there is a row.
LEMMA PutsTyped ==
    ASSUME PageTypeOK, NEW q \in Save, NEW cell \in Cell, Puts(q, cell), UNCHANGED rows
    PROVE  /\ grid' \in [Keys -> [Days -> Cell]]
           /\ \A k \in Keys : rows'[k] = Hidden => \A f \in Days : grid'[k][f] = Empty
<1>1. q.key \in Keys /\ q.day \in Days
    BY DEF Save
<1>2. CASE rows[q.key] = Hidden
    BY <1>2 DEF Puts, PageTypeOK
<1>3. CASE rows[q.key] # Hidden
    BY <1>1, <1>3, ShowTyped DEF Puts
<1>4. QED BY <1>2, <1>3

LEMMA ServedTyped ==
    ASSUME PageTypeOK, NEW q \in saving, NEW answer \in {"ok", "failed"}, Served(q, answer)
    PROVE  PageTypeOK'
<1>1. q \in Save /\ q.hours \in 0..MaxHours /\ q.day \in Days /\ q.label \in Labels /\ q.kind \in {"create", "update", "delete", "label", "drop", "submit"}
    BY DEF PageTypeOK, Save
<1>2. UNCHANGED << view, rows, grid >> /\ open' \in BOOLEAN /\ muddled' \in BOOLEAN
    BY DEF Served, PageTypeOK
<1>3. \A id \in 0..MaxEntryIds : WithAnswer(q, answer, id) \in Save
    BY <1>1, WithAnswerFits
<1>4. entries' \in [EntryIds -> Entry] /\ saving' \subseteq Save
    <2>1. CASE q.kind = "create"
        <3>1. PICK e \in Fresh :
                /\ e \in EntryIds
                /\ entries' = [entries EXCEPT ![e] = [hours |-> q.hours, day |-> q.day, label |-> q.label]]
                /\ saving' = (saving \ {q}) \cup {WithAnswer(q, answer, IF answer = "ok" THEN e ELSE 0)}
            BY <2>1, ServedDoes
        <3>2. (IF answer = "ok" THEN e ELSE 0) \in 0..MaxEntryIds
            BY <3>1, ZeroFits
        <3>3. [hours |-> q.hours, day |-> q.day, label |-> q.label] \in Entry
            BY <1>1 DEF Entry
        <3>4. WithAnswer(q, answer, IF answer = "ok" THEN e ELSE 0) \in Save
            BY <1>3, <3>2
        <3>5. QED BY <3>1, <3>3, <3>4, EntryFits DEF PageTypeOK
    <2>2. CASE q.kind \in {"update", "label"}
        <3>1. /\ q.id \in EntryIds
              /\ entries' = [entries EXCEPT ![q.id] = [hours |-> q.hours, day |-> entries[q.id].day, label |-> q.label]]
              /\ saving' = (saving \ {q}) \cup {WithAnswer(q, answer, 0)}
            BY <2>2, ServedDoes
        <3>2. entries[q.id] \in Entry
            BY <3>1 DEF PageTypeOK
        <3>3. [hours |-> q.hours, day |-> entries[q.id].day, label |-> q.label] \in Entry
            BY <1>1, <3>2 DEF Entry
        <3>4. entries' \in [EntryIds -> Entry]
            BY <3>1, <3>3, EntryFits
        <3>5. saving' \subseteq Save
            BY <1>3, <3>1, ZeroFits DEF PageTypeOK
        <3>6. QED BY <3>4, <3>5
    <2>3. CASE q.kind \in {"delete", "drop"}
        <3>1. /\ q.id \in EntryIds /\ entries' = [entries EXCEPT ![q.id] = NoEntry]
              /\ saving' = (saving \ {q}) \cup {WithAnswer(q, answer, 0)}
            BY <2>3, ServedDoes
        <3>2. entries' \in [EntryIds -> Entry]
            BY <3>1, EmptyFits, EntryFits
        <3>3. saving' \subseteq Save
            BY <1>3, <3>1, ZeroFits DEF PageTypeOK
        <3>4. QED BY <3>2, <3>3
    <2>4. CASE q.kind = "submit"
        <3>1. UNCHANGED entries /\ saving' = (saving \ {q}) \cup {WithAnswer(q, answer, 0)}
            BY <2>4, ServedDoes
        <3>2. QED BY <1>3, <3>1, ZeroFits DEF PageTypeOK
    <2>5. QED BY <1>1, <2>1, <2>2, <2>3, <2>4
<1>5. QED BY <1>2, <1>4 DEF PageTypeOK

LEMMA LoadsTyped == ASSUME PageTypeOK, Loads PROVE PageTypeOK'
<1>1. PICK pick \in [Keys -> [Days -> EntryIds]] :
          grid' = [key \in Keys |-> [d \in Days |->
                        IF key \in Labels /\ At(key, d) # {}
                        THEN [id |-> pick[key][d], hours |-> entries[pick[key][d]].hours] ELSE Empty]]
    BY DEF Loads
<1>2. rows' = [key \in Keys |-> IF key \in Labels /\ \E d \in Days : At(key, d) # {} THEN key ELSE Hidden]
    BY DEF Loads
<1>3. ASSUME NEW key \in Keys, NEW d \in Days
      PROVE  [id |-> pick[key][d], hours |-> entries[pick[key][d]].hours] \in Cell
    <2>1. pick[key][d] \in EntryIds
        OBVIOUS
    <2>2. entries[pick[key][d]] \in Entry
        BY <2>1 DEF PageTypeOK
    <2>3. entries[pick[key][d]].hours \in 0..MaxHours
        BY <2>2 DEF Entry
    <2>4. QED BY <2>1, <2>3, ZeroFits DEF Cell
<1>4. grid' \in [Keys -> [Days -> Cell]]
    BY <1>1, <1>3, EmptyFits
<1>5. rows' \in [Keys -> Labels \cup {Hidden}]
    BY <1>2
<1>6. \A key \in Keys : rows'[key] = Hidden => \A d \in Days : grid'[key][d] = Empty
    <2>1. \A key \in Keys : rows'[key] = Hidden => ~(key \in Labels /\ \E d \in Days : At(key, d) # {})
        BY <1>2, EmptyFits
    <2>2. QED BY <1>1, <2>1
<1>7. view' \in {"loading", "open", "closed", "error"} /\ muddled' \in BOOLEAN /\ UNCHANGED << entries, open, saving >>
    BY DEF Loads
<1>8. QED BY <1>4, <1>5, <1>6, <1>7 DEF PageTypeOK

LEMMA EditTyped ==
    ASSUME PageTypeOK, NEW key \in Keys,
           \/ \E d \in Days, hours \in 0..MaxHours : CellCommitted(key, d, hours)
           \/ key \in NewRows /\ RowAdded(key)
           \/ \E label \in Labels : RowLabelled(key, label)
           \/ RowDropped(key)
    PROVE  PageTypeOK'
<1>1. ASSUME NEW d \in Days, NEW hours \in 0..MaxHours, CellCommitted(key, d, hours) PROVE PageTypeOK'
    <2>1. rows[key] # Hidden /\ UNCHANGED << entries, open, view, rows >> /\ muddled' \in BOOLEAN
        BY <1>1 DEF CellCommitted, Offers, PageTypeOK
    <2>2. PICK kind \in {"create", "update", "delete"} : saving' = saving \cup {Request(kind, key, d, hours)}
        BY <1>1 DEF CellCommitted
    <2>3. saving' \subseteq Save
        BY <2>1, <2>2, RequestFits DEF PageTypeOK
    <2>4. (IF hours = 0 THEN Empty ELSE [id |-> grid[key][d].id, hours |-> hours]) \in Cell
        BY EmptyFits DEF PageTypeOK, Cell
    <2>5. /\ grid' \in [Keys -> [Days -> Cell]]
          /\ \A k \in Keys : rows'[k] = Hidden => \A f \in Days : grid'[k][f] = Empty
        BY <1>1, <2>1, <2>4, ShowTyped DEF CellCommitted
    <2>6. QED BY <2>1, <2>3, <2>5 DEF PageTypeOK
<1>2. CASE RowAdded(key)
    <2>1. UNCHANGED << entries, open, view, grid, saving, muddled >> /\ rows' = [rows EXCEPT ![key] = Blank]
        BY <1>2 DEF RowAdded
    <2>2. rows' \in [Keys -> Labels \cup {Hidden}] /\ \A k \in Keys : rows'[k] = Hidden => rows[k] = Hidden
        BY <2>1, EmptyFits DEF PageTypeOK
    <2>3. QED BY <2>1, <2>2 DEF PageTypeOK
<1>3. ASSUME NEW label \in Labels, RowLabelled(key, label) PROVE PageTypeOK'
    <2>1. rows[key] # Hidden /\ UNCHANGED << entries, open, view, grid >> /\ muddled' \in BOOLEAN
        BY <1>3 DEF RowLabelled, Offers, PageTypeOK
    <2>2. rows' \in [Keys -> Labels \cup {Hidden}] /\ \A k \in Keys : rows'[k] = Hidden => rows[k] = Hidden
        <3>1. rows' = [rows EXCEPT ![key] = label]
            BY <1>3 DEF RowLabelled
        <3>2. QED BY <3>1, EmptyFits DEF PageTypeOK
    <2>3. ASSUME NEW d \in Filled(key) PROVE [Request("label", key, d, grid[key][d].hours) EXCEPT !.label = label] \in Save
        <3>1. d \in Days /\ grid[key][d].hours \in 0..MaxHours
            BY DEF Filled, PageTypeOK, Cell
        <3>2. Request("label", key, d, grid[key][d].hours) \in Save
            BY <2>1, <3>1, RequestFits
        <3>3. QED BY <3>2 DEF Save
    <2>4. saving' \subseteq Save
        BY <1>3, <2>3 DEF RowLabelled, PageTypeOK
    <2>5. QED BY <2>1, <2>2, <2>4 DEF PageTypeOK
<1>4. CASE RowDropped(key)
    <2>1. rows[key] # Hidden /\ UNCHANGED << entries, open, view >> /\ muddled' \in BOOLEAN
        BY <1>4 DEF RowDropped, Offers, PageTypeOK
    <2>2. /\ rows' = [rows EXCEPT ![key] = Hidden]
          /\ grid' = [grid EXCEPT ![key] = [d \in Days |-> Empty]]
        BY <1>4 DEF RowDropped
    <2>3. rows' \in [Keys -> Labels \cup {Hidden}] /\ grid' \in [Keys -> [Days -> Cell]]
        BY <2>2, EmptyFits DEF PageTypeOK
    <2>4. \A k \in Keys : rows'[k] = Hidden => \A d \in Days : grid'[k][d] = Empty
        <3>1. \A d \in Days : grid'[key][d] = Empty
            BY <2>2 DEF PageTypeOK
        <3>2. \A k \in Keys \ {key} : rows'[k] = rows[k] /\ grid'[k] = grid[k]
            BY <2>2 DEF PageTypeOK
        <3>3. QED BY <3>1, <3>2 DEF PageTypeOK
    <2>5. \A d \in Filled(key) : Request("drop", key, d, 0) \in Save
        BY <2>1, RequestFits, ZeroFits DEF Filled
    <2>6. saving' \subseteq Save
        BY <1>4, <2>5 DEF RowDropped, PageTypeOK
    <2>7. QED BY <2>1, <2>3, <2>4, <2>6 DEF PageTypeOK
<1>5. QED BY <1>1, <1>2, <1>3, <1>4

LEMMA PageTyped == ASSUME PageTypeOK, PageNext PROVE PageTypeOK'
<1>1. CASE SheetMoves \/ PageOpens \/ LoadRefused
    BY <1>1 DEF SheetMoves, PageOpens, LoadRefused, PageTypeOK
<1>2. CASE SubmitPressed
    BY <1>2, SubmissionFits DEF SubmitPressed, PageTypeOK
<1>3. ASSUME NEW q \in saving, Refused(q) PROVE PageTypeOK'
    <2>1. WithAnswer(q, "failed", 0) \in Save
        BY WithAnswerFits, ZeroFits DEF PageTypeOK
    <2>2. saving' = (saving \ {q}) \cup {WithAnswer(q, "failed", 0)}
        BY <1>3 DEF Refused, AnswerOf, WithAnswer
    <2>3. QED BY <1>3, <2>1, <2>2 DEF Refused, PageTypeOK
<1>4. ASSUME NEW q \in saving, CellAnswered(q) PROVE PageTypeOK'
    <2>1. q \in Save /\ q.was \in Cell /\ q.answer \in {"none", "ok", "failed"}
        BY DEF PageTypeOK, Save
    <2>2. [id |-> q.id, hours |-> q.hours] \in Cell
        BY <2>1 DEF Save, Cell
    <2>3. UNCHANGED << entries, open, view, rows, muddled >> /\ saving' = saving \ {q}
        BY <1>4 DEF CellAnswered
    <2>4. Puts(q, q.was) \/ Puts(q, [id |-> q.id, hours |-> q.hours]) \/ Puts(q, Empty) \/ UNCHANGED grid
        BY <1>4, <2>1 DEF CellAnswered, Reverted
    <2>5. /\ grid' \in [Keys -> [Days -> Cell]]
          /\ \A k \in Keys : rows'[k] = Hidden => \A f \in Days : grid'[k][f] = Empty
        <3>1. CASE UNCHANGED grid
            BY <2>3, <3>1 DEF PageTypeOK
        <3>2. QED BY <2>1, <2>2, <2>3, <2>4, <3>1, EmptyFits, PutsTyped
    <2>6. QED BY <2>3, <2>5 DEF PageTypeOK
<1>5. ASSUME NEW q \in saving, RowAnswered(q) \/ SubmitAnswered(q) PROVE PageTypeOK'
    BY <1>5 DEF RowAnswered, SubmitAnswered, PageTypeOK
<1>6. QED BY <1>1, <1>2, <1>3, <1>4, <1>5, LoadsTyped, ServedTyped, EditTyped DEF PageNext

\* The entries that belong to none but the cells of row k on days D.
Ours(e, k, D) == \A key \in Keys, d \in Days : Owns(e, key, d) => key = k /\ d \in D

\* A cell stays right while its row, what it shows, its requests and its entries stay.
LEMMA CellStays ==
    ASSUME NEW key \in Keys, NEW d \in Days, CellOK(key, d), rows'[key] = rows[key], grid'[key][d] = grid[key][d],
           Sent(key, d)' = Sent(key, d), \A e \in EntryIds : Owns(e, key, d) => entries'[e] = entries[e]
    PROVE  CellOK(key, d)' /\ \A e : Owns(e, key, d)' <=> Owns(e, key, d)
<1>1. \A e : Owns(e, key, d)' <=> Owns(e, key, d)
    BY DEF Owns
<1>2. \A e, h : Owns(e, key, d) /\ Stands(e, key, d, h) => Stands(e, key, d, h)'
    BY DEF Stands
<1>3. Owns(grid[key][d].id, key, d) /\ \A q \in Sent(key, d) : Owns(q.id, key, d) /\ Owns(q.was.id, key, d)
    BY DEF Owns
<1>4. Quiet(key, d) => Quiet(key, d)'
    <2>1. CASE grid[key][d] = Empty
        BY <2>1 DEF Quiet
    <2>2. CASE Stands(grid[key][d].id, key, d, grid[key][d].hours)
        <3>1. Stands(grid[key][d].id, key, d, grid[key][d].hours)'
            BY <1>3, <2>2 DEF Stands
        <3>2. QED BY <3>1 DEF Quiet
    <2>3. QED BY <2>1, <2>2 DEF Quiet
<1>5. ASSUME NEW q \in Sent(key, d), Tells(q, key, d) PROVE Tells(q, key, d)'
    <2>1. q.kind = "create" => CreateTells(q, key, d)'
        BY <1>3, <1>5 DEF Tells, CreateTells, Stands
    <2>2. q.kind \in {"update", "delete"} => ChangeTells(q, key, d)'
        BY <1>3, <1>5 DEF Tells, ChangeTells, Stands
    <2>3. q.kind \in {"label", "drop"} => RowTells(q, key, d)'
        BY <1>3, <1>5 DEF Tells, RowTells, Stands
    <2>4. QED BY <2>1, <2>2, <2>3 DEF Tells
<1>6. CellOK(key, d)'
    BY <1>4, <1>5 DEF CellOK
<1>7. QED BY <1>1, <1>6

\* A step that touches the cells of one row on some days, and the entries that are theirs alone.
LEMMA CellsStep ==
    ASSUME Agrees, NEW k \in Keys, NEW D \in SUBSET Days,
           \A key \in Keys, d \in Days : ~(key = k /\ d \in D) =>
               rows'[key] = rows[key] /\ grid'[key][d] = grid[key][d] /\ Sent(key, d)' = Sent(key, d),
           \A e \in EntryIds : entries'[e] = entries[e] \/ Ours(e, k, D),
           \A d \in D : CellOK(k, d)',
           \A e \in EntryIds, d \in D : Owns(e, k, d)' => Ours(e, k, D),
           \A e \in EntryIds, d, f \in D : Owns(e, k, d)' /\ Owns(e, k, f)' => d = f,
           \A e \in EntryIds : Ours(e, k, D) /\ entries'[e].hours # 0 => \E d \in D : Owns(e, k, d)'
    PROVE  Agrees'
<1>1. ASSUME NEW key \in Keys, NEW d \in Days, ~(key = k /\ d \in D)
      PROVE  CellOK(key, d)' /\ \A e : Owns(e, key, d)' <=> Owns(e, key, d)
    <2>1. \A e \in EntryIds : Owns(e, key, d) => entries'[e] = entries[e]
        BY <1>1 DEF Ours
    <2>2. CellOK(key, d) /\ rows'[key] = rows[key] /\ grid'[key][d] = grid[key][d] /\ Sent(key, d)' = Sent(key, d)
        BY <1>1 DEF Agrees
    <2>3. QED BY <2>1, <2>2, CellStays
<1>2. ASSUME NEW key \in Keys, NEW d \in Days PROVE CellOK(key, d)'
    BY <1>1
<1>3. ASSUME NEW e \in EntryIds, NEW key \in Keys, NEW j \in Keys, NEW d \in Days, NEW f \in Days,
             Owns(e, key, d)', Owns(e, j, f)'
      PROVE  key = j /\ d = f
    <2>1. CASE key = k /\ d \in D /\ j = k /\ f \in D
        BY <1>3, <2>1
    <2>2. CASE key = k /\ d \in D /\ ~(j = k /\ f \in D)
        BY <1>1, <1>3, <2>2 DEF Ours
    <2>3. CASE ~(key = k /\ d \in D) /\ j = k /\ f \in D
        BY <1>1, <1>3, <2>3 DEF Ours
    <2>4. CASE ~(key = k /\ d \in D) /\ ~(j = k /\ f \in D)
        BY <1>1, <1>3, <2>4 DEF Agrees
    <2>5. QED BY <2>1, <2>2, <2>3, <2>4
<1>4. ASSUME NEW e \in EntryIds, entries'[e].hours # 0 PROVE \E key \in Keys, d \in Days : Owns(e, key, d)'
    <2>1. CASE Ours(e, k, D)
        BY <1>4, <2>1
    <2>2. CASE ~Ours(e, k, D)
        BY <1>1, <2>2 DEF Ours
    <2>3. QED BY <2>1, <2>2
<1>5. QED BY <1>2, <1>3, <1>4 DEF Agrees

\* The same for one cell.
LEMMA CellStep ==
    ASSUME Agrees, NEW k \in Keys, NEW d \in Days, UNCHANGED rows,
           \A key \in Keys, f \in Days : key # k \/ f # d => grid'[key][f] = grid[key][f] /\ Sent(key, f)' = Sent(key, f),
           \A e \in EntryIds : entries'[e] = entries[e] \/ Ours(e, k, {d}),
           CellOK(k, d)',
           \A e \in EntryIds : Owns(e, k, d)' => Ours(e, k, {d}),
           \A e \in EntryIds : Ours(e, k, {d}) /\ entries'[e].hours # 0 => Owns(e, k, d)'
    PROVE  Agrees'
    BY CellsStep

\* What is one cell's, and stored, is owned by that cell.
LEMMA OursStored ==
    ASSUME Agrees, NEW k \in Keys, NEW d \in Days, NEW e \in EntryIds
    PROVE  /\ Owns(e, k, d) => Ours(e, k, {d})
           /\ Ours(e, k, {d}) /\ entries[e].hours # 0 => Owns(e, k, d)
    BY DEF Agrees, Ours

\* The requests of the cells, when one is answered, done with, or sent.
LEMMA SentAnswered ==
    ASSUME Agrees, NEW q \in saving, q.kind # "submit", q.key \in Keys, q.day \in Days, NEW a,
           a.kind = q.kind, a.key = q.key, a.day = q.day, saving' = (saving \ {q}) \cup {a}
    PROVE  /\ q \in Sent(q.key, q.day) /\ Sent(q.key, q.day)' = {a}
           /\ \A key \in Keys, d \in Days : key # q.key \/ d # q.day => Sent(key, d)' = Sent(key, d)
<1>1. q \in Sent(q.key, q.day)
    BY DEF Sent
<1>2. \A r \in Sent(q.key, q.day) : r = q
    BY <1>1 DEF Agrees, CellOK
<1>3. QED BY <1>1, <1>2 DEF Sent

LEMMA SentOver ==
    ASSUME Agrees, NEW q \in saving, q.kind # "submit", q.key \in Keys, q.day \in Days, saving' = saving \ {q}
    PROVE  /\ q \in Sent(q.key, q.day) /\ Sent(q.key, q.day)' = {}
           /\ \A key \in Keys, d \in Days : key # q.key \/ d # q.day => Sent(key, d)' = Sent(key, d)
<1>1. q \in Sent(q.key, q.day)
    BY DEF Sent
<1>2. \A r \in Sent(q.key, q.day) : r = q
    BY <1>1 DEF Agrees, CellOK
<1>3. QED BY <1>1, <1>2 DEF Sent

LEMMA CellTells ==
    ASSUME Agrees, NEW q \in saving, q.kind # "submit", q.key \in Keys, q.day \in Days
    PROVE  /\ Tells(q, q.key, q.day)
           /\ \A e : Owns(e, q.key, q.day) <=> grid[q.key][q.day].id = e \/ q.id = e \/ q.was.id = e
<1>1. q \in Sent(q.key, q.day)
    BY DEF Sent
<1>2. Tells(q, q.key, q.day) /\ \A r \in Sent(q.key, q.day) : r = q
    BY <1>1 DEF Agrees, CellOK
<1>3. QED BY <1>1, <1>2 DEF Owns

\* A step that leaves the cells, their requests and the entries alone.
LEMMA CellsStay ==
    ASSUME Agrees, UNCHANGED << entries, rows, grid >>, \A key \in Keys, d \in Days : Sent(key, d)' = Sent(key, d)
    PROVE  Agrees'
<1>1. ASSUME NEW key \in Keys, NEW d \in Days PROVE CellOK(key, d)' /\ \A e : Owns(e, key, d)' <=> Owns(e, key, d)
    <2>1. CellOK(key, d)
        BY DEF Agrees
    <2>2. QED BY <2>1, CellStays
<1>2. QED BY <1>1 DEF Agrees

\* A request is answered: what is then told of it and of its entries keeps the page right.
LEMMA AnsweredStep ==
    ASSUME Agrees, NEW q \in saving, q.kind # "submit", q.key \in Keys, q.day \in Days, UNCHANGED << rows, grid >>, NEW a,
           a.kind = q.kind, a.key = q.key, a.day = q.day, saving' = (saving \ {q}) \cup {a},
           Tells(a, q.key, q.day)',
           \A e \in EntryIds : entries'[e] = entries[e] \/ Ours(e, q.key, {q.day}),
           \A e \in EntryIds : grid[q.key][q.day].id = e \/ a.id = e \/ a.was.id = e => Ours(e, q.key, {q.day}),
           \A e \in EntryIds : Ours(e, q.key, {q.day}) /\ entries'[e].hours # 0 =>
               grid[q.key][q.day].id = e \/ a.id = e \/ a.was.id = e
    PROVE  Agrees'
<1> DEFINE k == q.key
           d == q.day
<1>1. /\ Sent(k, d)' = {a}
      /\ \A key \in Keys, f \in Days : key # k \/ f # d => Sent(key, f)' = Sent(key, f)
    BY SentAnswered
<1>2. CellOK(k, d)'
    <2>1. \A r \in Sent(k, d)' : r = a
        BY <1>1
    <2>2. Sent(k, d)' # {}
        BY <1>1
    <2>3. QED BY <2>1, <2>2 DEF CellOK
<1>3. \A e : Owns(e, k, d)' <=> grid[k][d].id = e \/ a.id = e \/ a.was.id = e
    BY <1>1 DEF Owns
<1>4. QED BY <1>1, <1>2, <1>3, CellStep

LEMMA ServedAgrees ==
    ASSUME PageTypeOK, Agrees, NEW q \in saving, NEW answer \in {"ok", "failed"}, Served(q, answer), Sound'
    PROVE  Agrees'
<1> DEFINE k == q.key
           d == q.day
<1>1. answer = "ok" /\ UNCHANGED << rows, grid >>
    BY DEF Served, Sound
<1>2. /\ q \in Save /\ q.answer = "none" /\ k \in Keys /\ d \in Days /\ q.kind \in {"create", "update", "delete", "label", "drop", "submit"}
      /\ q.hours \in 0..MaxHours /\ q.label \in Labels /\ grid[k][d] \in Cell
    <2>1. q \in Save /\ q.answer = "none"
        BY ServedDoes
    <2>2. k \in Keys /\ d \in Days /\ q.kind \in {"create", "update", "delete", "label", "drop", "submit"} /\ q.hours \in 0..MaxHours /\ q.label \in Labels
        BY <2>1 DEF Save
    <2>3. grid[k][d] \in Cell
        BY <2>2 DEF PageTypeOK
    <2>4. QED BY <2>1, <2>2, <2>3
<1>3. \A id \in 0..MaxEntryIds : LET a == WithAnswer(q, "ok", id) IN
           /\ a.kind = q.kind /\ a.key = k /\ a.day = d /\ a.id = id /\ a.answer = "ok" /\ a.was = Empty
           /\ a.hours = IF q.kind = "create" THEN q.hours ELSE 0
    BY <1>2, WithAnswerFits
<1>4. CASE q.kind = "submit"
    <2>1. UNCHANGED entries /\ saving' = (saving \ {q}) \cup {WithAnswer(q, "ok", 0)}
        BY <1>1, <1>4, ServedDoes
    <2>2. WithAnswer(q, "ok", 0).kind = "submit"
        BY <1>3, <1>4, ZeroFits
    <2>3. \A key \in Keys, f \in Days : Sent(key, f)' = Sent(key, f)
        BY <1>4, <2>1, <2>2 DEF Sent
    <2>4. QED BY <1>1, <2>1, <2>3, CellsStay
<1>5. CASE q.kind # "submit"
    <2>1. /\ Tells(q, k, d)
          /\ \A e : Owns(e, k, d) <=> grid[k][d].id = e \/ q.id = e \/ q.was.id = e
        BY <1>2, <1>5, CellTells
    <2>2. CASE q.kind = "create"
        <3>1. PICK e \in Fresh :
                /\ e \in EntryIds
                /\ entries' = [entries EXCEPT ![e] = [hours |-> q.hours, day |-> d, label |-> q.label]]
                /\ saving' = (saving \ {q}) \cup {WithAnswer(q, answer, IF answer = "ok" THEN e ELSE 0)}
            BY <2>2, ServedDoes
        <3>0. PICK a : a = WithAnswer(q, "ok", e)
            OBVIOUS
        <3>2. saving' = (saving \ {q}) \cup {a}
            BY <1>1, <3>0, <3>1
        <3>3. /\ a.kind = "create" /\ a.key = k /\ a.day = d /\ a.id = e /\ a.answer = "ok" /\ a.was = Empty
              /\ a.hours = q.hours
            BY <1>3, <2>2, <3>0, <3>1, ZeroFits
        <3>4. /\ q.was = Empty /\ rows[k] # Hidden /\ grid[k][d].id = 0 /\ q.id = 0 /\ q.hours # 0 /\ grid[k][d].hours = q.hours
              /\ q.label = rows[k]
            BY <1>2, <2>1, <2>2 DEF Tells, CreateTells
        <3>5. [hours |-> q.hours, day |-> d, label |-> q.label] \in Entry
            BY <1>2 DEF Entry
        <3>6. entries'[e] = [hours |-> q.hours, day |-> d, label |-> rows[k]] /\ \A x \in EntryIds \ {e} : entries'[x] = entries[x]
            BY <3>1, <3>4, <3>5, EntryFits
        <3>7. Tells(a, k, d)'
            BY <1>1, <3>1, <3>3, <3>4, <3>6 DEF Tells, CreateTells, Stands
        <3>8. ASSUME NEW key \in Keys, NEW f \in Days PROVE ~Owns(e, key, f)
            <4>1. e \in EntryIds /\ entries[e].hours = 0 /\ grid[key][f].id # e /\ \A r \in saving : r.id # e
                BY <3>1 DEF Fresh
            <4>2. ASSUME NEW r \in Sent(key, f) PROVE r.was.id # e
                <5>1. r \in saving /\ r.kind \in {"create", "update", "delete", "label", "drop"} /\ Tells(r, key, f)
                    BY DEF Sent, Agrees, CellOK, PageTypeOK, Save
                <5>2. CASE r.was = Empty
                    BY <4>1, <5>2, ZeroFits, EmptyFits
                <5>3. CASE r.was # Empty
                    <6>1. Stands(r.was.id, key, f, r.was.hours)
                        BY <5>1, <5>3 DEF Tells, CreateTells, ChangeTells, RowTells
                    <6>2. entries[r.was.id].hours # 0
                        BY <6>1 DEF Stands
                    <6>3. QED BY <4>1, <6>2
                <5>4. QED BY <5>2, <5>3
            <4>3. QED BY <4>1, <4>2 DEF Owns, Sent
        <3>9. Ours(e, k, {d})
            BY <3>8 DEF Ours
        <3>10. ASSUME NEW x \in EntryIds PROVE entries'[x] = entries[x] \/ Ours(x, k, {d})
            BY <3>6, <3>9
        <3>11. ASSUME NEW x \in EntryIds PROVE (grid[k][d].id = x \/ a.id = x \/ a.was.id = x) <=> x = e
            BY <3>3, <3>4, ZeroFits, EmptyFits
        <3>12. ASSUME NEW x \in EntryIds, Ours(x, k, {d}), entries'[x].hours # 0 PROVE x = e
            <4>1. ~Owns(x, k, d)
                BY <2>1, <3>4, ZeroFits, EmptyFits
            <4>2. entries[x].hours = 0
                BY <1>2, <3>12, <4>1, OursStored
            <4>3. QED BY <3>6, <3>12, <4>2
        <3>13. \A x \in EntryIds : grid[k][d].id = x \/ a.id = x \/ a.was.id = x => Ours(x, k, {d})
            BY <3>9, <3>11
        <3>14. \A x \in EntryIds : Ours(x, k, {d}) /\ entries'[x].hours # 0 => grid[k][d].id = x \/ a.id = x \/ a.was.id = x
            BY <3>12, <3>11
        <3>15. \A x \in EntryIds : entries'[x] = entries[x] \/ Ours(x, k, {d})
            BY <3>10
        <3>16. a.kind = q.kind /\ a.key = q.key /\ a.day = q.day /\ saving' = (saving \ {q}) \cup {a} /\ Tells(a, q.key, q.day)'
            BY <3>2, <3>3, <3>7, <2>2
        <3>17. QED BY <1>1, <1>2, <1>5, <3>13, <3>14, <3>15, <3>16, AnsweredStep
    <2>0. PICK a : a = WithAnswer(q, "ok", 0)
        OBVIOUS
    <2>3. /\ a.kind = q.kind /\ a.key = k /\ a.day = d /\ a.id = 0 /\ a.answer = "ok" /\ a.was = Empty
          /\ a.hours = IF q.kind = "create" THEN q.hours ELSE 0
        BY <1>3, <2>0, ZeroFits
    <2>4. ASSUME q.kind # "create"
          PROVE  /\ saving' = (saving \ {q}) \cup {a} /\ q.id \in EntryIds /\ Ours(q.id, k, {d})
                 /\ \A x \in EntryIds : Owns(x, k, d) => x = q.id
                 /\ \A x \in EntryIds \ {q.id} : entries'[x] = entries[x]
        <3>1. saving' = (saving \ {q}) \cup {a} /\ q.id \in EntryIds /\ \A x \in EntryIds \ {q.id} : entries'[x] = entries[x]
            <4>1. CASE q.kind \in {"update", "label"}
                <5>1. /\ q.id \in EntryIds /\ saving' = (saving \ {q}) \cup {WithAnswer(q, answer, 0)}
                      /\ entries' = [entries EXCEPT ![q.id] = [hours |-> q.hours, day |-> entries[q.id].day, label |-> q.label]]
                    BY <4>1, ServedDoes
                <5>2. entries \in [EntryIds -> Entry]
                    BY DEF PageTypeOK
                <5>3. QED BY <1>1, <2>0, <5>1, <5>2
            <4>2. CASE q.kind \in {"delete", "drop"}
                <5>1. /\ q.id \in EntryIds /\ saving' = (saving \ {q}) \cup {WithAnswer(q, answer, 0)}
                      /\ entries' = [entries EXCEPT ![q.id] = NoEntry]
                    BY <4>2, ServedDoes
                <5>2. entries \in [EntryIds -> Entry]
                    BY DEF PageTypeOK
                <5>3. QED BY <1>1, <2>0, <5>1, <5>2
            <4>3. QED BY <1>2, <1>5, <2>4, <4>1, <4>2
        <3>2. Ours(q.id, k, {d})
            BY <1>2, <2>1, <3>1, OursStored
        <3>3. \A x \in EntryIds : Owns(x, k, d) => x = q.id
            <4>1. /\ q.kind \in {"update", "delete", "label", "drop"}
                  /\ grid[k][d].id = q.id \/ grid[k][d] = Empty
                  /\ q.was.id = q.id \/ q.was = Empty
                BY <1>2, <1>5, <2>1, <2>4 DEF Tells, ChangeTells, RowTells
            <4>2. QED BY <2>1, <4>1, ZeroFits, EmptyFits
        <3>4. QED BY <3>1, <3>2, <3>3
    <2>5. ASSUME q.kind # "create", NEW x \in EntryIds
          PROVE  /\ entries'[x] = entries[x] \/ Ours(x, k, {d})
                 /\ Ours(x, k, {d}) /\ entries'[x].hours # 0 => x = q.id
        BY <1>2, <2>4, <2>5, OursStored
    <2>6. CASE q.kind \in {"update", "label"}
        <3>1. grid[k][d].id = q.id /\ grid[k][d].hours = q.hours /\ q.hours # 0 /\ q.label = rows[k] /\ rows[k] # Hidden
              /\ entries[q.id].day = d
            BY <1>2, <2>1, <2>6 DEF Tells, ChangeTells, RowTells, Stands
        <3>2. entries' = [entries EXCEPT ![q.id] = [hours |-> q.hours, day |-> entries[q.id].day, label |-> q.label]]
            BY <2>6, ServedDoes
        <3>3. entries'[q.id] = [hours |-> grid[k][d].hours, day |-> d, label |-> rows[k]]
            BY <2>4, <2>6, <3>1, <3>2 DEF PageTypeOK
        <3>4. Stands(grid[k][d].id, k, d, grid[k][d].hours)'
            BY <1>1, <2>4, <2>6, <3>1, <3>3 DEF Stands
        <3>5. Tells(a, k, d)'
            BY <1>1, <2>3, <2>6, <3>4 DEF Tells, ChangeTells, RowTells
        <3>6. ASSUME NEW x \in EntryIds PROVE (grid[k][d].id = x \/ a.id = x \/ a.was.id = x) <=> x = q.id
            BY <2>3, <3>1, ZeroFits, EmptyFits
        <3>7. \A x \in EntryIds : grid[k][d].id = x \/ a.id = x \/ a.was.id = x => Ours(x, k, {d})
            BY <2>4, <2>6, <3>6
        <3>8. \A x \in EntryIds : Ours(x, k, {d}) /\ entries'[x].hours # 0 => grid[k][d].id = x \/ a.id = x \/ a.was.id = x
            BY <2>5, <2>6, <3>6
        <3>9. \A x \in EntryIds : entries'[x] = entries[x] \/ Ours(x, k, {d})
            BY <2>5, <2>6
        <3>10. a.kind = q.kind /\ a.key = q.key /\ a.day = q.day /\ saving' = (saving \ {q}) \cup {a} /\ Tells(a, q.key, q.day)'
            BY <2>3, <2>4, <2>6, <3>5
        <3>11. QED BY <1>1, <1>2, <1>5, <3>7, <3>8, <3>9, <3>10, AnsweredStep
    <2>7. CASE q.kind \in {"delete", "drop"}
        <3>1. grid[k][d] = Empty /\ (q.kind = "drop" => rows[k] = Hidden)
            BY <1>2, <2>1, <2>7 DEF Tells, ChangeTells, RowTells
        <3>2. entries' = [entries EXCEPT ![q.id] = NoEntry]
            BY <2>7, ServedDoes
        <3>3. entries'[q.id].hours = 0
            BY <2>4, <2>7, <3>2, EmptyFits DEF PageTypeOK
        <3>4. Tells(a, k, d)'
            BY <1>1, <2>3, <2>7, <3>1 DEF Tells, ChangeTells, RowTells
        <3>5. ASSUME NEW x \in EntryIds PROVE ~(grid[k][d].id = x \/ a.id = x \/ a.was.id = x)
            BY <2>3, <3>1, ZeroFits, EmptyFits
        <3>6. ASSUME NEW x \in EntryIds PROVE ~(Ours(x, k, {d}) /\ entries'[x].hours # 0)
            BY <2>5, <2>7, <3>3
        <3>7. \A x \in EntryIds : grid[k][d].id = x \/ a.id = x \/ a.was.id = x => Ours(x, k, {d})
            BY <3>5
        <3>8. \A x \in EntryIds : Ours(x, k, {d}) /\ entries'[x].hours # 0 => grid[k][d].id = x \/ a.id = x \/ a.was.id = x
            BY <3>6
        <3>9. \A x \in EntryIds : entries'[x] = entries[x] \/ Ours(x, k, {d})
            BY <2>5, <2>7
        <3>10. a.kind = q.kind /\ a.key = q.key /\ a.day = q.day /\ saving' = (saving \ {q}) \cup {a} /\ Tells(a, q.key, q.day)'
            BY <2>3, <2>4, <2>7, <3>4
        <3>11. QED BY <1>1, <1>2, <1>5, <3>7, <3>8, <3>9, <3>10, AnsweredStep
    <2>8. QED BY <1>2, <1>5, <2>2, <2>6, <2>7
<1>6. QED BY <1>4, <1>5

LEMMA RefusedAgrees ==
    ASSUME PageTypeOK, Agrees, NEW q \in saving, Refused(q), Sound'
    PROVE  Agrees'
<1> DEFINE k == q.key
           d == q.day
<1>0. PICK a : a = WithAnswer(q, "failed", 0)
    OBVIOUS
<1>1. UNCHANGED << entries, rows, grid >> /\ q.answer = "none" /\ saving' = (saving \ {q}) \cup {a}
    BY <1>0 DEF Refused, AnswerOf, WithAnswer
<1>2. q \in Save /\ k \in Keys /\ d \in Days /\ q.kind \in {"create", "update", "delete", "label", "drop", "submit"} /\ q.was \in Cell
    BY DEF Save, PageTypeOK
<1>3. a.kind = q.kind /\ a.key = k /\ a.day = d /\ a.id = 0 /\ a.answer = "failed" /\ a.was = q.was
    BY <1>0, <1>2, WithAnswerFits, ZeroFits
<1>4. q.kind \notin {"label", "drop"}
    <2>1. a \in saving'
        BY <1>1
    <2>2. QED BY <1>3, <2>1 DEF Sound
<1>5. CASE q.kind = "submit"
    <2>1. \A key \in Keys, f \in Days : Sent(key, f)' = Sent(key, f)
        BY <1>1, <1>3, <1>5 DEF Sent
    <2>2. QED BY <1>1, <2>1, CellsStay
<1>6. CASE q.kind # "submit"
    <2>1. /\ Tells(q, k, d)
          /\ \A e : Owns(e, k, d) <=> grid[k][d].id = e \/ q.id = e \/ q.was.id = e
        BY <1>2, <1>6, CellTells
    <2>2. Tells(a, k, d)'
        BY <1>1, <1>2, <1>3, <1>4, <1>6, <2>1 DEF Tells, CreateTells, ChangeTells, Stands
    <2>3. ASSUME NEW x \in EntryIds PROVE Owns(x, k, d) <=> grid[k][d].id = x \/ a.id = x \/ a.was.id = x
        <3>1. q.id = 0 \/ q.id = q.was.id
            BY <1>1, <1>2, <1>4, <1>6, <2>1 DEF Tells, CreateTells, ChangeTells
        <3>2. QED BY <1>3, <2>1, <3>1, ZeroFits
    <2>4. QED BY <1>1, <1>2, <1>3, <1>6, <2>2, <2>3, OursStored, AnsweredStep
<1>7. QED BY <1>5, <1>6

\* A request is done with: the cell is at rest and keeps its entries.
LEMMA OverStep ==
    ASSUME Agrees, NEW q \in saving, q.kind # "submit", q.key \in Keys, q.day \in Days, UNCHANGED << entries, rows >>,
           saving' = saving \ {q},
           \A key \in Keys, f \in Days : key # q.key \/ f # q.day => grid'[key][f] = grid[key][f],
           Quiet(q.key, q.day)',
           \A e \in EntryIds : grid'[q.key][q.day].id = e <=> Owns(e, q.key, q.day)
    PROVE  Agrees'
<1> DEFINE k == q.key
           d == q.day
<1>1. /\ Sent(k, d)' = {}
      /\ \A key \in Keys, f \in Days : key # k \/ f # d => Sent(key, f)' = Sent(key, f)
    BY SentOver
<1>2. CellOK(k, d)'
    BY <1>1 DEF CellOK
<1>3. \A e : Owns(e, k, d)' <=> grid'[k][d].id = e
    BY <1>1 DEF Owns
<1>4. \A e \in EntryIds : Owns(e, k, d)' => Ours(e, k, {d})
    BY <1>3, OursStored
<1>5. \A e \in EntryIds : Ours(e, k, {d}) /\ entries'[e].hours # 0 => Owns(e, k, d)'
    <2>1. \A e \in EntryIds : entries'[e] = entries[e]
        OBVIOUS
    <2>2. QED BY <1>3, <2>1, OursStored
<1>6. \A e \in EntryIds : entries'[e] = entries[e] \/ Ours(e, k, {d})
    OBVIOUS
<1>7. UNCHANGED rows
    OBVIOUS
<1>8. \A key \in Keys, f \in Days : key # k \/ f # d => grid'[key][f] = grid[key][f] /\ Sent(key, f)' = Sent(key, f)
    BY <1>1
<1>9. k \in Keys /\ d \in Days
    OBVIOUS
<1>10. QED BY <1>2, <1>4, <1>5, <1>6, <1>7, <1>8, <1>9, CellStep

LEMMA CellAnsweredAgrees ==
    ASSUME PageTypeOK, Agrees, NEW q \in saving, CellAnswered(q)
    PROVE  Agrees'
<1> DEFINE k == q.key
           d == q.day
<1>1. /\ q.kind \in {"create", "update", "delete"} /\ q.answer # "none" /\ UNCHANGED << entries, rows >>
      /\ saving' = saving \ {q}
    BY DEF CellAnswered
<1>2. /\ q \in Save /\ k \in Keys /\ d \in Days /\ q.answer \in {"none", "ok", "failed"} /\ q.was \in Cell
      /\ q.id \in 0..MaxEntryIds /\ q.hours \in 0..MaxHours
    BY DEF Save, PageTypeOK
<1>3. grid[k][d] \in Cell
    BY <1>2 DEF PageTypeOK
<1>4. /\ Tells(q, k, d)
      /\ \A e : Owns(e, k, d) <=> grid[k][d].id = e \/ q.id = e \/ q.was.id = e
    BY <1>1, <1>2, CellTells
<1>5. \A cell \in Cell : Puts(q, cell) /\ rows[k] # Hidden =>
          /\ grid'[k][d] = cell
          /\ \A key \in Keys, f \in Days : key # k \/ f # d => grid'[key][f] = grid[key][f]
    BY <1>2, ShowFits DEF Puts
<1>6. CASE q.answer = "failed" /\ q.kind = "create"
    <2>1. q.was = Empty /\ rows[k] # Hidden /\ grid[k][d].id = 0 /\ q.id = 0
        BY <1>4, <1>6 DEF Tells, CreateTells
    <2>2. Puts(q, Empty)
        BY <1>6, <2>1 DEF CellAnswered, Reverted
    <2>3. grid'[k][d] = Empty /\ \A key \in Keys, f \in Days : key # k \/ f # d => grid'[key][f] = grid[key][f]
        BY <1>5, <2>1, <2>2, EmptyFits
    <2>4. \A e \in EntryIds : grid'[k][d].id = e <=> Owns(e, k, d)
        BY <1>4, <2>1, <2>3, EmptyFits, ZeroFits
    <2>5. Quiet(k, d)'
        BY <2>3 DEF Quiet
    <2>6. QED BY <1>1, <1>2, <2>3, <2>4, <2>5, OverStep
<1>7. CASE q.answer = "failed" /\ q.kind \in {"update", "delete"}
    <2>1. /\ Stands(q.was.id, k, d, q.was.hours) /\ q.id = 0
          /\ grid[k][d].id = q.was.id \/ grid[k][d] = Empty
        BY <1>4, <1>7 DEF Tells, ChangeTells
    <2>2. Puts(q, q.was) /\ rows[k] # Hidden
        BY <1>7, <2>1 DEF CellAnswered, Reverted, Stands
    <2>3. grid'[k][d] = q.was /\ \A key \in Keys, f \in Days : key # k \/ f # d => grid'[key][f] = grid[key][f]
        BY <1>2, <1>5, <2>2
    <2>4. \A e \in EntryIds : grid'[k][d].id = e <=> Owns(e, k, d)
        BY <1>4, <2>1, <2>3, EmptyFits, ZeroFits
    <2>5. Quiet(k, d)'
        BY <1>1, <2>1, <2>3 DEF Quiet, Stands
    <2>6. QED BY <1>1, <1>2, <2>3, <2>4, <2>5, OverStep
<1>8. CASE q.answer = "ok" /\ q.kind = "create"
    <2>1. q.was = Empty /\ rows[k] # Hidden /\ grid[k][d].id = 0 /\ Stands(q.id, k, d, q.hours)
        BY <1>4, <1>8 DEF Tells, CreateTells
    <2>2. Puts(q, [id |-> q.id, hours |-> q.hours])
        BY <1>8 DEF CellAnswered
    <2>3. [id |-> q.id, hours |-> q.hours] \in Cell
        BY <1>2 DEF Cell
    <2>4. /\ grid'[k][d] = [id |-> q.id, hours |-> q.hours]
          /\ \A key \in Keys, f \in Days : key # k \/ f # d => grid'[key][f] = grid[key][f]
        BY <1>5, <2>1, <2>2, <2>3
    <2>5. grid'[k][d].id = q.id /\ grid'[k][d].hours = q.hours
        BY <2>4
    <2>6. \A e \in EntryIds : grid'[k][d].id = e <=> Owns(e, k, d)
        BY <1>4, <2>1, <2>5, EmptyFits, ZeroFits
    <2>7. Quiet(k, d)'
        BY <1>1, <2>1, <2>5 DEF Quiet, Stands
    <2>8. QED BY <1>1, <1>2, <2>4, <2>6, <2>7, OverStep
<1>9. CASE q.answer = "ok" /\ q.kind = "delete"
    <2>1. q.was = Empty /\ q.id = 0 /\ grid[k][d] = Empty
        BY <1>4, <1>9 DEF Tells, ChangeTells
    <2>2. Puts(q, Empty)
        BY <1>9 DEF CellAnswered
    <2>3. grid'[k][d] = Empty /\ \A key \in Keys, f \in Days : key # k \/ f # d => grid'[key][f] = grid[key][f]
        <3>1. CASE rows[k] # Hidden
            BY <1>5, <2>2, <3>1, EmptyFits
        <3>2. CASE rows[k] = Hidden
            BY <2>1, <2>2, <3>2 DEF Puts
        <3>3. QED BY <3>1, <3>2
    <2>4. \A e \in EntryIds : grid'[k][d].id = e <=> Owns(e, k, d)
        BY <1>4, <2>1, <2>3, EmptyFits, ZeroFits
    <2>5. Quiet(k, d)'
        BY <2>3 DEF Quiet
    <2>6. QED BY <1>1, <1>2, <2>3, <2>4, <2>5, OverStep
<1>10. CASE q.answer = "ok" /\ q.kind = "update"
    <2>1. q.was = Empty /\ q.id = 0 /\ Stands(grid[k][d].id, k, d, grid[k][d].hours)
        BY <1>4, <1>10 DEF Tells, ChangeTells
    <2>2. UNCHANGED grid
        BY <1>10 DEF CellAnswered
    <2>3. \A e \in EntryIds : grid'[k][d].id = e <=> Owns(e, k, d)
        BY <1>4, <2>1, <2>2, EmptyFits, ZeroFits
    <2>4. Quiet(k, d)'
        BY <1>1, <2>1, <2>2 DEF Quiet, Stands
    <2>5. QED BY <1>1, <1>2, <2>2, <2>3, <2>4, OverStep
<1>11. QED BY <1>1, <1>2, <1>6, <1>7, <1>8, <1>9, <1>10

LEMMA RowAnsweredAgrees ==
    ASSUME PageTypeOK, Agrees, NEW q \in saving, RowAnswered(q), Sound'
    PROVE  Agrees'
<1> DEFINE k == q.key
           d == q.day
<1>1. q.kind \in {"label", "drop"} /\ q.answer # "none" /\ UNCHANGED << entries, rows, grid >> /\ saving' = saving \ {q}
    BY DEF RowAnswered
<1>2. q \in Save /\ k \in Keys /\ d \in Days /\ q.answer \in {"none", "ok", "failed"}
    BY DEF Save, PageTypeOK
<1>3. q.answer = "ok"
    BY <1>1, <1>2 DEF RowAnswered, Sound
<1>4. /\ Tells(q, k, d)
      /\ \A e : Owns(e, k, d) <=> grid[k][d].id = e \/ q.id = e \/ q.was.id = e
    BY <1>1, <1>2, CellTells
<1>5. q.was = Empty /\ q.id = 0 /\ (grid[k][d] = Empty \/ Stands(grid[k][d].id, k, d, grid[k][d].hours))
    BY <1>1, <1>3, <1>4 DEF Tells, RowTells
<1>6. \A e \in EntryIds : grid'[k][d].id = e <=> Owns(e, k, d)
    BY <1>1, <1>4, <1>5, EmptyFits, ZeroFits
<1>7. Quiet(k, d)'
    BY <1>1, <1>5 DEF Quiet, Stands
<1>8. QED BY <1>1, <1>2, <1>6, <1>7, OverStep

LEMMA CommittedAgrees ==
    ASSUME PageTypeOK, Agrees, NEW k \in Keys, NEW d \in Days, NEW hours \in 0..MaxHours, CellCommitted(k, d, hours), Sound'
    PROVE  Agrees'
<1>1. rows[k] # Hidden /\ hours # grid[k][d].hours /\ UNCHANGED << entries, rows >> /\ ~Crosses(k, {d})
    BY DEF CellCommitted, Offers, Changes, Sound
<1>2. Sent(k, d) = {}
    BY <1>1 DEF Crosses, Sent
<1>3. Quiet(k, d) /\ grid[k][d] \in Cell
    BY <1>2 DEF Agrees, CellOK, PageTypeOK
<1>4. \A e : Owns(e, k, d) <=> grid[k][d].id = e
    BY <1>2 DEF Owns
<1> DEFINE new == IF hours = 0 THEN Empty ELSE [id |-> grid[k][d].id, hours |-> hours]
<1>5. new \in Cell /\ Show(k, d, new)
    BY <1>3, EmptyFits DEF CellCommitted, Cell
<1>6. grid'[k][d] = new /\ \A key \in Keys, f \in Days : key # k \/ f # d => grid'[key][f] = grid[key][f]
    BY <1>5, ShowFits
<1>7. PICK kind \in {"create", "update", "delete"} :
          /\ saving' = saving \cup {Request(kind, k, d, hours)}
          /\ kind = "delete" <=> hours = 0
          /\ kind = "create" <=> hours # 0 /\ grid[k][d] = Empty
    <2>1. CASE hours = 0
        <3>1. grid[k][d] # Empty
            BY <1>1, <2>1, EmptyFits
        <3>2. saving' = saving \cup {Request("delete", k, d, hours)}
            BY <2>1, <3>1 DEF CellCommitted
        <3>3. QED BY <2>1, <3>2
    <2>2. CASE hours # 0 /\ grid[k][d] = Empty
        <3>1. saving' = saving \cup {Request("create", k, d, hours)}
            BY <2>2 DEF CellCommitted
        <3>2. QED BY <2>2, <3>1
    <2>3. CASE hours # 0 /\ grid[k][d] # Empty
        <3>1. saving' = saving \cup {Request("update", k, d, hours)}
            BY <2>3 DEF CellCommitted
        <3>2. QED BY <2>3, <3>1
    <2>4. QED BY <2>1, <2>2, <2>3
<1>8. PICK r : r = Request(kind, k, d, hours)
    OBVIOUS
<1>9. /\ r.kind = kind /\ r.key = k /\ r.day = d /\ r.id = grid[k][d].id /\ r.hours = hours
      /\ r.label = rows[k] /\ r.answer = "none" /\ r.was = grid[k][d]
    BY <1>1, <1>8, RequestFits
<1>10. Sent(k, d)' = {r} /\ \A key \in Keys, f \in Days : key # k \/ f # d => Sent(key, f)' = Sent(key, f)
    BY <1>2, <1>7, <1>8, <1>9 DEF Sent
<1>11. Tells(r, k, d)'
    <2>1. CASE kind = "create"
        <3>1. grid'[k][d].id = 0 /\ grid'[k][d].hours = hours /\ hours # 0 /\ grid[k][d] = Empty /\ grid[k][d].id = 0
            BY <1>6, <1>7, <2>1, EmptyFits
        <3>2. QED BY <1>1, <1>9, <2>1, <3>1 DEF Tells, CreateTells
    <2>2. CASE kind # "create"
        <3>1. grid[k][d] # Empty
            BY <1>1, <1>7, <2>2, EmptyFits
        <3>2. Stands(grid[k][d].id, k, d, grid[k][d].hours)
            BY <1>3, <3>1 DEF Quiet
        <3>3. Stands(r.was.id, k, d, r.was.hours)'
            BY <1>1, <1>9, <3>2 DEF Stands
        <3>4. IF kind = "delete" THEN grid'[k][d] = Empty ELSE grid'[k][d].id = grid[k][d].id /\ grid'[k][d].hours = hours /\ hours # 0
            BY <1>6, <1>7
        <3>5. QED BY <1>1, <1>7, <1>9, <2>2, <3>3, <3>4 DEF Tells, ChangeTells
    <2>3. QED BY <2>1, <2>2
<1>12. CellOK(k, d)'
    <2>1. \A q \in Sent(k, d)' : q = r
        BY <1>10
    <2>2. Sent(k, d)' # {}
        BY <1>10
    <2>3. QED BY <1>11, <2>1, <2>2 DEF CellOK
<1>13. \A e \in EntryIds : Owns(e, k, d)' <=> Owns(e, k, d)
    <2>1. \A e : Owns(e, k, d)' <=> grid'[k][d].id = e \/ grid[k][d].id = e
        BY <1>9, <1>10 DEF Owns
    <2>2. grid'[k][d].id = grid[k][d].id \/ grid'[k][d].id = 0
        BY <1>6, EmptyFits
    <2>3. QED BY <1>4, <2>1, <2>2, ZeroFits
<1>14. \A e \in EntryIds : Owns(e, k, d)' => Ours(e, k, {d})
    BY <1>13, OursStored
<1>15. \A e \in EntryIds : Ours(e, k, {d}) /\ entries'[e].hours # 0 => Owns(e, k, d)'
    BY <1>1, <1>13, OursStored
<1>16. QED BY <1>1, <1>6, <1>10, <1>12, <1>14, <1>15, CellStep

LEMMA RowAddedAgrees ==
    ASSUME PageTypeOK, Agrees, NEW k \in Keys, RowAdded(k)
    PROVE  Agrees'
<1>1. /\ rows[k] = Hidden /\ (\A q \in saving : q.key # k) /\ UNCHANGED << entries, grid, saving >>
      /\ rows' = [rows EXCEPT ![k] = Blank]
    BY DEF RowAdded
<1>2. ASSUME NEW d \in Days PROVE grid[k][d] = Empty /\ Sent(k, d) = {} /\ Sent(k, d)' = {}
    BY <1>1 DEF PageTypeOK, Sent
<1>3. \A key \in Keys, d \in Days : Sent(key, d)' = Sent(key, d)
    BY <1>1 DEF Sent
<1>4. \A key \in Keys : key # k => rows'[key] = rows[key]
    BY <1>1 DEF PageTypeOK
<1>5. \A d \in Days : CellOK(k, d)'
    BY <1>1, <1>2 DEF CellOK, Quiet
<1>6. \A e \in EntryIds, d \in Days : ~Owns(e, k, d) /\ ~Owns(e, k, d)'
    BY <1>1, <1>2, EmptyFits, ZeroFits DEF Owns
<1>7. \A e \in EntryIds : ~(Ours(e, k, Days) /\ entries'[e].hours # 0)
    BY <1>1, <1>6 DEF Agrees, Ours
<1>8. \A e \in EntryIds : entries'[e] = entries[e]
    BY <1>1
<1>9. \A key \in Keys, d \in Days : ~(key = k /\ d \in Days) =>
          rows'[key] = rows[key] /\ grid'[key][d] = grid[key][d] /\ Sent(key, d)' = Sent(key, d)
    BY <1>1, <1>3, <1>4
<1>10. QED BY <1>5, <1>6, <1>7, <1>8, <1>9, CellsStep

\* A row that nothing is under way for.
LEMMA RowAtRest ==
    ASSUME PageTypeOK, Agrees, NEW k \in Keys, ~Crosses(k, Days)
    PROVE  \A d \in Days : /\ Sent(k, d) = {} /\ Quiet(k, d)
                           /\ \A e \in EntryIds : Owns(e, k, d) <=> grid[k][d].id = e
                           /\ d \in Filled(k) <=> grid[k][d] # Empty
<1> SUFFICES ASSUME NEW d \in Days
             PROVE  /\ Sent(k, d) = {} /\ Quiet(k, d)
                    /\ \A e \in EntryIds : Owns(e, k, d) <=> grid[k][d].id = e
                    /\ d \in Filled(k) <=> grid[k][d] # Empty
    OBVIOUS
<1>1. Sent(k, d) = {}
    BY DEF Crosses, Sent
<1>2. QED BY <1>1 DEF Owns, Agrees, CellOK, Filled

\* The requests of a row, when one is sent for every filled cell.
LEMMA SentForRow ==
    ASSUME NEW k \in Keys, \A d \in Days : Sent(k, d) = {}, NEW R,
           \A r \in R : r.kind # "submit" /\ r.key = k, saving' = saving \cup R
    PROVE  /\ \A d \in Days : Sent(k, d)' = { r \in R : r.day = d }
           /\ \A key \in Keys, d \in Days : key # k => Sent(key, d)' = Sent(key, d)
    BY DEF Sent

LEMMA RowLabelledAgrees ==
    ASSUME PageTypeOK, Agrees, NEW k \in Keys, NEW label \in Labels, RowLabelled(k, label), Sound'
    PROVE  Agrees'
<1>1. /\ rows[k] # Hidden /\ UNCHANGED << entries, grid >> /\ ~Crosses(k, Days)
      /\ rows' = [rows EXCEPT ![k] = label]
    BY DEF RowLabelled, Offers, Sound
<1> DEFINE R == { [Request("label", k, d, grid[k][d].hours) EXCEPT !.label = label] : d \in Filled(k) }
<1>2. saving' = saving \cup R
    BY DEF RowLabelled
<1>3. ASSUME NEW d \in Filled(k)
      PROVE  LET r == [Request("label", k, d, grid[k][d].hours) EXCEPT !.label = label] IN
             /\ d \in Days
             /\ r.kind = "label" /\ r.key = k /\ r.day = d /\ r.id = grid[k][d].id /\ r.hours = grid[k][d].hours
             /\ r.label = label /\ r.answer = "none" /\ r.was = Empty
    <2>1. d \in Days /\ grid[k][d] \in Cell /\ grid[k][d].hours \in 0..MaxHours
        BY DEF Filled, PageTypeOK, Cell
    <2>2. PICK x : x = Request("label", k, d, grid[k][d].hours)
        OBVIOUS
    <2>3. /\ x \in Save /\ x.kind = "label" /\ x.key = k /\ x.day = d /\ x.id = grid[k][d].id /\ x.hours = grid[k][d].hours
          /\ x.answer = "none" /\ x.was = Empty
        BY <1>1, <2>1, <2>2, RequestFits
    <2>4. LET r == [x EXCEPT !.label = label] IN
             /\ r.kind = "label" /\ r.key = k /\ r.day = d /\ r.id = grid[k][d].id /\ r.hours = grid[k][d].hours
             /\ r.label = label /\ r.answer = "none" /\ r.was = Empty
        BY <2>3 DEF Save
    <2>5. QED BY <2>1, <2>2, <2>4
<1>4. PICK S : S = R
    OBVIOUS
<1>5. ASSUME NEW r \in S
      PROVE  /\ r.day \in Filled(k) /\ r.day \in Days
             /\ r.kind = "label" /\ r.key = k /\ r.id = grid[k][r.day].id /\ r.hours = grid[k][r.day].hours
             /\ r.label = label /\ r.answer = "none" /\ r.was = Empty
    <2>1. PICK d \in Filled(k) : r = [Request("label", k, d, grid[k][d].hours) EXCEPT !.label = label]
        BY <1>4
    <2>2. QED BY <1>3, <2>1
<1>6. \A d \in Filled(k) : \E r \in S : r.day = d
    <2>1. ASSUME NEW d \in Filled(k) PROVE \E r \in S : r.day = d
        <3>1. PICK r : r = [Request("label", k, d, grid[k][d].hours) EXCEPT !.label = label]
            OBVIOUS
        <3>2. r \in S /\ r.day = d
            BY <1>3, <1>4, <3>1
        <3>3. QED BY <3>2
    <2>2. QED BY <2>1
<1>7. \A r, x \in S : r.day = x.day => r = x
    <2>1. ASSUME NEW r \in S, NEW x \in S, r.day = x.day PROVE r = x
        <3>1. PICK d \in Filled(k) : r = [Request("label", k, d, grid[k][d].hours) EXCEPT !.label = label]
            BY <1>4
        <3>2. PICK f \in Filled(k) : x = [Request("label", k, f, grid[k][f].hours) EXCEPT !.label = label]
            BY <1>4
        <3>3. r.day = d /\ x.day = f
            BY <1>3, <3>1, <3>2
        <3>4. QED BY <2>1, <3>1, <3>2, <3>3
    <2>2. QED BY <2>1
<1>8. \A d \in Days : /\ Sent(k, d) = {} /\ Quiet(k, d)
                      /\ \A e \in EntryIds : Owns(e, k, d) <=> grid[k][d].id = e
                      /\ d \in Filled(k) <=> grid[k][d] # Empty
    BY <1>1, RowAtRest
<1>9. /\ \A d \in Days : Sent(k, d)' = { r \in S : r.day = d }
      /\ \A key \in Keys, d \in Days : key # k => Sent(key, d)' = Sent(key, d)
    <2>1. saving' = saving \cup S
        BY <1>2, <1>4
    <2>2. \A r \in S : r.kind # "submit" /\ r.key = k
        BY <1>5
    <2>3. QED BY <1>8, <2>1, <2>2, SentForRow
<1>10. rows'[k] = label /\ label # Hidden /\ \A key \in Keys : key # k => rows'[key] = rows[key]
    BY <1>1, EmptyFits DEF PageTypeOK
<1>11. ASSUME NEW d \in Days PROVE CellOK(k, d)'
    <2>1. CASE d \in Filled(k)
        <3>1. Stands(grid[k][d].id, k, d, grid[k][d].hours)
            BY <1>8, <2>1 DEF Quiet
        <3>2. PICK r \in S : r.day = d
            BY <1>6, <2>1
        <3>3. Sent(k, d)' = {r}
            BY <1>7, <1>9, <3>2
        <3>4. Tells(r, k, d)'
            BY <1>1, <1>5, <1>10, <3>1, <3>2 DEF Tells, RowTells, Stands
        <3>5. Sent(k, d)' # {} /\ \A x \in Sent(k, d)' : x = r
            BY <3>3
        <3>6. QED BY <3>4, <3>5 DEF CellOK
    <2>2. CASE d \notin Filled(k)
        <3>1. Sent(k, d)' = {}
            BY <1>5, <1>9, <2>2
        <3>2. grid'[k][d] = Empty
            BY <1>1, <1>8, <2>2
        <3>3. QED BY <3>1, <3>2 DEF CellOK, Quiet
    <2>3. QED BY <2>1, <2>2
<1>12. \A e \in EntryIds, d \in Days : Owns(e, k, d)' <=> Owns(e, k, d)
    <2>1. ASSUME NEW e \in EntryIds, NEW d \in Days PROVE Owns(e, k, d)' <=> grid[k][d].id = e
        <3>1. \A r \in Sent(k, d)' : r.id = grid[k][d].id /\ r.was.id = 0
            BY <1>5, <1>9, EmptyFits
        <3>2. QED BY <1>1, <3>1, ZeroFits DEF Owns
    <2>2. QED BY <1>8, <2>1
<1>13. \A e \in EntryIds, d \in Days : Owns(e, k, d)' => Ours(e, k, Days)
    BY <1>12 DEF Agrees, Ours
<1>14. \A e \in EntryIds, d, f \in Days : Owns(e, k, d)' /\ Owns(e, k, f)' => d = f
    BY <1>12 DEF Agrees
<1>15. \A e \in EntryIds : Ours(e, k, Days) /\ entries'[e].hours # 0 => \E d \in Days : Owns(e, k, d)'
    BY <1>1, <1>12 DEF Agrees, Ours
<1>16. \A key \in Keys, d \in Days : ~(key = k /\ d \in Days) =>
          rows'[key] = rows[key] /\ grid'[key][d] = grid[key][d] /\ Sent(key, d)' = Sent(key, d)
    BY <1>1, <1>9, <1>10
<1>17. \A e \in EntryIds : entries'[e] = entries[e]
    BY <1>1
<1>18. QED BY <1>11, <1>13, <1>14, <1>15, <1>16, <1>17, CellsStep

LEMMA RowDroppedAgrees ==
    ASSUME PageTypeOK, Agrees, NEW k \in Keys, RowDropped(k), Sound'
    PROVE  Agrees'
<1>1. /\ rows[k] # Hidden /\ UNCHANGED entries /\ ~Crosses(k, Days)
      /\ rows' = [rows EXCEPT ![k] = Hidden] /\ grid' = [grid EXCEPT ![k] = [d \in Days |-> Empty]]
    BY DEF RowDropped, Offers, Sound
<1> DEFINE R == { Request("drop", k, d, 0) : d \in Filled(k) }
<1>2. saving' = saving \cup R
    BY DEF RowDropped
<1>3. ASSUME NEW d \in Filled(k)
      PROVE  LET r == Request("drop", k, d, 0) IN
             /\ d \in Days
             /\ r.kind = "drop" /\ r.key = k /\ r.day = d /\ r.id = grid[k][d].id /\ r.answer = "none" /\ r.was = Empty
    <2>1. d \in Days
        BY DEF Filled
    <2>2. QED BY <1>1, <2>1, RequestFits, ZeroFits
<1>4. PICK S : S = R
    OBVIOUS
<1>5. ASSUME NEW r \in S
      PROVE  /\ r.day \in Filled(k) /\ r.day \in Days
             /\ r.kind = "drop" /\ r.key = k /\ r.id = grid[k][r.day].id /\ r.answer = "none" /\ r.was = Empty
    <2>1. PICK d \in Filled(k) : r = Request("drop", k, d, 0)
        BY <1>4
    <2>2. QED BY <1>3, <2>1
<1>6. ASSUME NEW d \in Filled(k) PROVE \E r \in S : r.day = d /\ r.id = grid[k][d].id
    <2>1. PICK r : r = Request("drop", k, d, 0)
        OBVIOUS
    <2>2. r \in S /\ r.day = d /\ r.id = grid[k][d].id
        BY <1>3, <1>4, <2>1
    <2>3. QED BY <2>2
<1>7. \A r, x \in S : r.day = x.day => r = x
    <2>1. ASSUME NEW r \in S, NEW x \in S, r.day = x.day PROVE r = x
        <3>1. PICK d \in Filled(k) : r = Request("drop", k, d, 0)
            BY <1>4
        <3>2. PICK f \in Filled(k) : x = Request("drop", k, f, 0)
            BY <1>4
        <3>3. r.day = d /\ x.day = f
            BY <1>3, <3>1, <3>2
        <3>4. QED BY <2>1, <3>1, <3>2, <3>3
    <2>2. QED BY <2>1
<1>8. \A d \in Days : /\ Sent(k, d) = {} /\ Quiet(k, d)
                      /\ \A e \in EntryIds : Owns(e, k, d) <=> grid[k][d].id = e
                      /\ d \in Filled(k) <=> grid[k][d] # Empty
    BY <1>1, RowAtRest
<1>9. /\ \A d \in Days : Sent(k, d)' = { r \in S : r.day = d }
      /\ \A key \in Keys, d \in Days : key # k => Sent(key, d)' = Sent(key, d)
    <2>1. saving' = saving \cup S
        BY <1>2, <1>4
    <2>2. \A r \in S : r.kind # "submit" /\ r.key = k
        BY <1>5
    <2>3. QED BY <1>8, <2>1, <2>2, SentForRow
<1>10. /\ rows'[k] = Hidden /\ \A d \in Days : grid'[k][d] = Empty
       /\ \A key \in Keys : key # k => rows'[key] = rows[key] /\ grid'[key] = grid[key]
    <2>1. rows \in [Keys -> Labels \cup {Hidden}] /\ grid \in [Keys -> [Days -> Cell]]
        BY DEF PageTypeOK
    <2>2. grid'[k] = [d \in Days |-> Empty]
        BY <1>1, <2>1
    <2>3. QED BY <1>1, <2>1, <2>2
<1>11. ASSUME NEW d \in Days PROVE CellOK(k, d)'
    <2>1. \A r \in Sent(k, d)' : Tells(r, k, d)' /\ \A x \in Sent(k, d)' : x = r
        <3>1. ASSUME NEW r \in S, r.day = d PROVE Tells(r, k, d)'
            BY <1>5, <1>10, <3>1 DEF Tells, RowTells
        <3>2. QED BY <1>7, <1>9, <3>1
    <2>2. Quiet(k, d)'
        BY <1>10 DEF Quiet
    <2>3. QED BY <2>1, <2>2 DEF CellOK
<1>12. ASSUME NEW e \in EntryIds, NEW d \in Days PROVE Owns(e, k, d)' <=> Owns(e, k, d)
    <2>1. Owns(e, k, d)' <=> \E r \in S : r.day = d /\ r.id = e
        <3>1. grid'[k][d].id # e /\ \A r \in S : r.was.id # e
            BY <1>5, <1>10, EmptyFits, ZeroFits
        <3>2. QED BY <1>9, <3>1 DEF Owns
    <2>2. (\E r \in S : r.day = d /\ r.id = e) => grid[k][d].id = e
        BY <1>5
    <2>3. grid[k][d].id = e => \E r \in S : r.day = d /\ r.id = e
        <3>1. grid[k][d].id = e => d \in Filled(k)
            BY <1>8, EmptyFits, ZeroFits
        <3>2. QED BY <1>6, <3>1
    <2>4. QED BY <1>8, <2>1, <2>2, <2>3
<1>13. \A e \in EntryIds, d \in Days : Owns(e, k, d)' => Ours(e, k, Days)
    BY <1>12 DEF Agrees, Ours
<1>14. \A e \in EntryIds, d, f \in Days : Owns(e, k, d)' /\ Owns(e, k, f)' => d = f
    BY <1>12 DEF Agrees
<1>15. \A e \in EntryIds : Ours(e, k, Days) /\ entries'[e].hours # 0 => \E d \in Days : Owns(e, k, d)'
    BY <1>1, <1>12 DEF Agrees, Ours
<1>16. \A key \in Keys, d \in Days : ~(key = k /\ d \in Days) =>
          rows'[key] = rows[key] /\ grid'[key][d] = grid[key][d] /\ Sent(key, d)' = Sent(key, d)
    BY <1>9, <1>10
<1>17. \A e \in EntryIds : entries'[e] = entries[e]
    BY <1>1
<1>18. QED BY <1>11, <1>13, <1>14, <1>15, <1>16, <1>17, CellsStep

\* After a load the cells show the stored entries, one each.
LEMMA LoadsAgrees ==
    ASSUME PageTypeOK, Loads, Sound'
    PROVE  Agrees'
<1>1. UNCHANGED << entries, saving >> /\ saving = {} /\ ~Twins
    BY DEF Loads, Sound
<1>2. PICK pick \in [Keys -> [Days -> EntryIds]] :
          /\ \A label \in Labels, d \in Days : At(label, d) # {} => pick[label][d] \in At(label, d)
          /\ grid' = [key \in Keys |-> [d \in Days |->
                        IF key \in Labels /\ At(key, d) # {}
                        THEN [id |-> pick[key][d], hours |-> entries[pick[key][d]].hours] ELSE Empty]]
    BY DEF Loads
<1>3. rows' = [key \in Keys |-> IF key \in Labels /\ \E d \in Days : At(key, d) # {} THEN key ELSE Hidden]
    BY DEF Loads
<1>4. \A key \in Keys, d \in Days : Sent(key, d)' = {}
    BY <1>1 DEF Sent
<1>5. ASSUME NEW key \in Keys, NEW d \in Days, key \in Labels /\ At(key, d) # {}
      PROVE  /\ grid'[key][d].id = pick[key][d] /\ pick[key][d] \in EntryIds
             /\ entries[pick[key][d]].label = key /\ entries[pick[key][d]].day = d
             /\ Stands(grid[key][d].id, key, d, grid[key][d].hours)'
    <2>1. pick[key][d] \in EntryIds /\ pick[key][d] \in At(key, d)
        BY <1>2, <1>5
    <2>2. /\ entries[pick[key][d]] \in Entry /\ entries[pick[key][d]].hours # 0
          /\ entries[pick[key][d]].label = key /\ entries[pick[key][d]].day = d
        BY <2>1 DEF At, Stored, PageTypeOK
    <2>3. grid'[key][d] = [id |-> pick[key][d], hours |-> entries[pick[key][d]].hours]
        BY <1>2, <1>5
    <2>4. rows'[key] = key /\ key # Hidden
        BY <1>3, <1>5, EmptyFits
    <2>5. \A x \in Entry : x = [hours |-> x.hours, day |-> x.day, label |-> x.label]
        BY DEF Entry
    <2>6. entries'[pick[key][d]] = [hours |-> entries[pick[key][d]].hours, day |-> d, label |-> key]
        BY <1>1, <2>2, <2>5
    <2>7. grid'[key][d].id = pick[key][d] /\ grid'[key][d].hours = entries[pick[key][d]].hours
        BY <2>3
    <2>8. Stands(grid[key][d].id, key, d, grid[key][d].hours)'
        BY <2>1, <2>2, <2>4, <2>6, <2>7 DEF Stands
    <2>9. QED BY <2>1, <2>2, <2>7, <2>8
<1>6. ASSUME NEW key \in Keys, NEW d \in Days, ~(key \in Labels /\ At(key, d) # {}) PROVE grid'[key][d] = Empty
    BY <1>2, <1>6
<1>7. ASSUME NEW key \in Keys, NEW d \in Days PROVE CellOK(key, d)'
    <2>1. Quiet(key, d)'
        <3>1. CASE key \in Labels /\ At(key, d) # {}
            BY <1>5, <3>1 DEF Quiet
        <3>2. CASE ~(key \in Labels /\ At(key, d) # {})
            BY <1>6, <3>2 DEF Quiet
        <3>3. QED BY <3>1, <3>2
    <2>2. QED BY <1>4, <2>1 DEF CellOK
<1>8. ASSUME NEW e \in EntryIds, NEW key \in Keys, NEW d \in Days, Owns(e, key, d)'
      PROVE  entries[e].label = key /\ entries[e].day = d
    <2>1. grid'[key][d].id = e
        BY <1>4, <1>8 DEF Owns
    <2>2. key \in Labels /\ At(key, d) # {}
        BY <1>6, <2>1, EmptyFits, ZeroFits
    <2>3. QED BY <1>5, <2>1, <2>2
<1>9. ASSUME NEW e \in EntryIds, entries'[e].hours # 0 PROVE \E key \in Keys, d \in Days : Owns(e, key, d)'
    <2>1. PICK key \in Labels, d \in Days : entries[e].label = key /\ entries[e].day = d
        BY DEF PageTypeOK, Entry
    <2>2. e \in Stored /\ e \in At(key, d) /\ key \in Keys
        BY <1>1, <1>9, <2>1, EmptyFits DEF Stored, At
    <2>3. pick[key][d] \in At(key, d)
        BY <1>2, <2>2
    <2>4. pick[key][d] = e
        BY <1>1, <2>2, <2>3 DEF At, Twins
    <2>5. grid'[key][d].id = e
        BY <1>5, <2>2, <2>4
    <2>6. QED BY <2>2, <2>5 DEF Owns
<1>10. QED BY <1>7, <1>8, <1>9 DEF Agrees

LEMMA PageInvInit == PageInit => PageInv
<1> SUFFICES ASSUME PageInit PROVE PageInv
    OBVIOUS
<1>1. PageTypeOK
    BY EmptyFits DEF PageInit, PageTypeOK
<1>2. ~Sound
    BY DEF PageInit, Sound
<1>3. QED BY <1>1, <1>2 DEF PageInv

\* With nothing under way, what the cells show is what is stored.
LEMMA PageInvShows == PageInv => PageTypeOK /\ SheetShowsEntries
<1> SUFFICES ASSUME PageInv, view \in {"open", "closed"}, saving = {}, ~muddled PROVE Showing = Kept
    BY DEF PageInv, SheetShowsEntries
<1>1. PageTypeOK /\ Agrees
    BY DEF PageInv, Sound
<1>2. ASSUME NEW key \in Keys, NEW d \in Days
      PROVE  Quiet(key, d) /\ \A e : Owns(e, key, d) <=> grid[key][d].id = e
    <2>1. Sent(key, d) = {}
        BY DEF Sent
    <2>2. QED BY <1>1, <2>1 DEF Agrees, CellOK, Owns
<1>3. ASSUME NEW key \in Keys, NEW d \in Days, grid[key][d] # Empty
      PROVE  /\ grid[key][d].id \in Stored
             /\ entries[grid[key][d].id].hours = grid[key][d].hours /\ entries[grid[key][d].id].day = d
             /\ entries[grid[key][d].id].label = rows[key]
    <2>1. Stands(grid[key][d].id, key, d, grid[key][d].hours)
        BY <1>2, <1>3 DEF Quiet
    <2>2. QED BY <2>1 DEF Stands, Stored
<1>4. ASSUME NEW s \in Showing PROVE s \in Kept
    <2>1. PICK key \in Keys : s \in RowShows(key)
        BY DEF Showing
    <2>2. PICK d \in Filled(key) : s = [id |-> grid[key][d].id, hours |-> grid[key][d].hours, day |-> d, label |-> rows[key]]
        BY <2>1 DEF RowShows
    <2>3. d \in Days /\ grid[key][d] # Empty
        BY DEF Filled
    <2>4. PICK e : e = grid[key][d].id
        OBVIOUS
    <2>5. e \in Stored /\ entries[e].hours = grid[key][d].hours /\ entries[e].day = d /\ entries[e].label = rows[key]
        BY <1>3, <2>3, <2>4
    <2>6. s = [id |-> e, hours |-> entries[e].hours, day |-> entries[e].day, label |-> entries[e].label]
        BY <2>2, <2>4, <2>5
    <2>7. QED BY <2>5, <2>6 DEF Kept
<1>5. ASSUME NEW s \in Kept PROVE s \in Showing
    <2>1. PICK e \in Stored : s = [id |-> e, hours |-> entries[e].hours, day |-> entries[e].day, label |-> entries[e].label]
        BY DEF Kept
    <2>2. e \in EntryIds /\ entries[e].hours # 0
        BY DEF Stored
    <2>3. PICK key \in Keys, d \in Days : Owns(e, key, d)
        BY <1>1, <2>2 DEF Agrees
    <2>4. grid[key][d].id = e /\ grid[key][d] # Empty
        BY <1>2, <2>2, <2>3, EmptyFits, ZeroFits
    <2>5. entries[e].hours = grid[key][d].hours /\ entries[e].day = d /\ entries[e].label = rows[key]
        BY <1>3, <2>4
    <2>6. s = [id |-> grid[key][d].id, hours |-> grid[key][d].hours, day |-> d, label |-> rows[key]] /\ d \in Filled(key)
        BY <2>1, <2>4, <2>5 DEF Filled
    <2>7. QED BY <2>6 DEF Showing, RowShows
<1>6. QED BY <1>4, <1>5

\* What is sound after a step, other than a load, was sound before it.
LEMMA SoundBefore ==
    ASSUME PageTypeOK, PageNext, ~Loads, Sound'
    PROVE  Sound
<1>1. CASE SheetMoves \/ PageOpens \/ LoadRefused \/ SubmitPressed
    BY <1>1 DEF SheetMoves, PageOpens, LoadRefused, SubmitPressed, Sound
<1>2. ASSUME NEW q \in saving, q.answer = "none" /\ \A r \in saving \ {q} : r \in saving', UNCHANGED view, muddled => muddled'
      PROVE  Sound
    BY <1>2 DEF Sound
<1>3. ASSUME NEW q \in saving, NEW answer \in {"ok", "failed"}, Served(q, answer) PROVE Sound
    <2>1. q.answer = "none" /\ UNCHANGED view /\ (muddled => muddled')
        BY <1>3 DEF Served
    <2>2. \A r \in saving \ {q} : r \in saving'
        <3>1. \E id : saving' = (saving \ {q}) \cup {WithAnswer(q, answer, id)}
            <4>1. q.kind \in {"create", "update", "delete", "label", "drop", "submit"}
                BY DEF PageTypeOK, Save
            <4>2. CASE q.kind = "create"
                <5>1. PICK e \in Fresh : saving' = (saving \ {q}) \cup {WithAnswer(q, answer, IF answer = "ok" THEN e ELSE 0)}
                    BY <1>3, <4>2, ServedDoes
                <5>2. QED BY <5>1
            <4>3. CASE q.kind # "create"
                <5>1. saving' = (saving \ {q}) \cup {WithAnswer(q, answer, 0)}
                    BY <1>3, <4>1, <4>3, ServedDoes
                <5>2. QED BY <5>1
            <4>4. QED BY <4>2, <4>3
        <3>2. QED BY <3>1
    <2>3. QED BY <1>2, <2>1, <2>2
<1>4. ASSUME NEW q \in saving, Refused(q) PROVE Sound
    BY <1>2, <1>4 DEF Refused, AnswerOf
<1>5. ASSUME NEW q \in saving, CellAnswered(q) \/ RowAnswered(q) \/ SubmitAnswered(q) PROVE Sound
    <2>1. /\ saving' = saving \ {q} /\ (muddled => muddled') /\ view' \in {"open", "closed"}
          /\ q.kind \in {"label", "drop"} => (q.answer = "failed" => muddled')
          /\ view' = view \/ view' = "loading"
        <3>1. CASE CellAnswered(q)
            BY <3>1 DEF CellAnswered, Sound
        <3>2. CASE RowAnswered(q)
            BY <3>2 DEF RowAnswered, Sound
        <3>3. CASE SubmitAnswered(q)
            BY <3>3 DEF SubmitAnswered, Sound
        <3>4. QED BY <1>5, <3>1, <3>2, <3>3
    <2>2. QED BY <2>1 DEF Sound
<1>6. ASSUME NEW key \in Keys,
             \/ \E d \in Days, hours \in 0..MaxHours : CellCommitted(key, d, hours)
             \/ RowAdded(key)
             \/ \E label \in Labels : RowLabelled(key, label)
             \/ RowDropped(key)
      PROVE  Sound
    <2>1. saving \subseteq saving' /\ UNCHANGED view /\ (muddled => muddled')
        <3>1. ASSUME NEW d \in Days, NEW hours \in 0..MaxHours, CellCommitted(key, d, hours)
              PROVE  saving \subseteq saving' /\ UNCHANGED view /\ (muddled => muddled')
            BY <3>1 DEF CellCommitted
        <3>2. CASE RowAdded(key)
            BY <3>2 DEF RowAdded
        <3>3. ASSUME NEW label \in Labels, RowLabelled(key, label)
              PROVE  saving \subseteq saving' /\ UNCHANGED view /\ (muddled => muddled')
            BY <3>3 DEF RowLabelled
        <3>4. CASE RowDropped(key)
            BY <3>4 DEF RowDropped
        <3>5. QED BY <1>6, <3>1, <3>2, <3>3, <3>4
    <2>2. QED BY <2>1 DEF Sound
<1>7. QED BY <1>1, <1>3, <1>4, <1>5, <1>6 DEF PageNext

LEMMA PageInvNext == PageInv /\ [PageNext]_pageVars => PageInv'
<1> SUFFICES ASSUME PageInv, [PageNext]_pageVars PROVE PageInv'
    OBVIOUS
<1>1. CASE UNCHANGED pageVars
    <2>1. UNCHANGED << entries, open, view, rows, grid, saving, muddled >>
        BY <1>1 DEF pageVars
    <2>2. PageTypeOK' /\ (Sound' => Sound)
        BY <2>1 DEF PageInv, PageTypeOK, Sound
    <2>3. \A key \in Keys, d \in Days : Sent(key, d)' = Sent(key, d)
        BY <2>1 DEF Sent
    <2>4. Agrees => Agrees'
        BY <2>1, <2>3, CellsStay
    <2>5. QED BY <2>2, <2>4 DEF PageInv
<1>2. CASE PageNext
    <2>1. PageTypeOK /\ PageTypeOK'
        BY <1>2, PageTyped DEF PageInv
    <2>2. ASSUME Sound' PROVE Agrees'
        <3>1. CASE Loads
            BY <2>1, <2>2, <3>1, LoadsAgrees
        <3>2. CASE ~Loads
            <4>1. Agrees
                BY <1>2, <2>1, <2>2, <3>2, SoundBefore DEF PageInv
            <4>2. CASE SheetMoves \/ PageOpens \/ LoadRefused
                <5>1. UNCHANGED << entries, rows, grid, saving >>
                    BY <4>2 DEF SheetMoves, PageOpens, LoadRefused
                <5>2. QED BY <4>1, <5>1, CellsStay DEF Sent
            <4>3. CASE SubmitPressed
                <5>1. UNCHANGED << entries, rows, grid >> /\ saving' = saving \cup {Submission}
                    BY <4>3 DEF SubmitPressed
                <5>2. \A key \in Keys, d \in Days : Sent(key, d)' = Sent(key, d)
                    BY <5>1, SubmissionFits DEF Sent
                <5>3. QED BY <4>1, <5>1, <5>2, CellsStay
            <4>4. ASSUME NEW q \in saving, SubmitAnswered(q) PROVE Agrees'
                <5>1. UNCHANGED << entries, rows, grid >> /\ saving' = saving \ {q} /\ q.kind = "submit"
                    BY <4>4 DEF SubmitAnswered
                <5>2. \A key \in Keys, d \in Days : Sent(key, d)' = Sent(key, d)
                    BY <5>1 DEF Sent
                <5>3. QED BY <4>1, <5>1, <5>2, CellsStay
            <4>5. ASSUME NEW q \in saving,
                         \/ \E answer \in {"ok", "failed"} : Served(q, answer)
                         \/ Refused(q) \/ CellAnswered(q) \/ RowAnswered(q)
                  PROVE  Agrees'
                BY <2>1, <2>2, <4>1, <4>5, ServedAgrees, RefusedAgrees, CellAnsweredAgrees, RowAnsweredAgrees
            <4>6. ASSUME NEW key \in Keys,
                         \/ \E d \in Days, hours \in 0..MaxHours : CellCommitted(key, d, hours)
                         \/ RowAdded(key)
                         \/ \E label \in Labels : RowLabelled(key, label)
                         \/ RowDropped(key)
                  PROVE  Agrees'
                BY <2>1, <2>2, <4>1, <4>6, CommittedAgrees, RowAddedAgrees, RowLabelledAgrees, RowDroppedAgrees
            <4>7. QED BY <1>2, <3>2, <4>2, <4>3, <4>4, <4>5, <4>6 DEF PageNext
        <3>3. QED BY <3>1, <3>2
    <2>3. QED BY <2>1, <2>2 DEF PageInv
<1>3. QED BY <1>1, <1>2

\* With nothing under way the week's grid shows what is stored, whatever was refused and in whatever order the page's
\* requests and their answers came.
THEOREM WeekShowsEntries == PageInit /\ [][PageNext]_pageVars => [](PageTypeOK /\ SheetShowsEntries)
<1>1. PageInit => PageInv
    BY PageInvInit
<1>2. PageInv /\ [PageNext]_pageVars => PageInv'
    BY PageInvNext
<1>3. PageInv => PageTypeOK /\ SheetShowsEntries
    BY PageInvShows
<1>4. QED BY <1>1, <1>2, <1>3, PTL
=============================================================================
