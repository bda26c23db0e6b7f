--------------------------- MODULE StatusRequests ---------------------------
(***************************************************************************)
(* An organization's status in the ERP: its owner asks for a change, which *)
(* a manager decides on the organization's page or in the task list, which *)
(* expires after a week, and which the owner can withdraw; a manager also  *)
(* sets the status directly.  The routes (under app/api/organizations and  *)
(* app/api/tasks) write without a condition, long after what they checked. *)
(* The page (components/OrganizationForm.tsx) keeps its own copy of the    *)
(* status and the approval, which no refresh brings up to date, so what it *)
(* sends may be as old as one likes.                                       *)
(***************************************************************************)
EXTENDS ApprovalInstances

CONSTANT OrgCalls      \* requests under way

VARIABLES org,         \* the row: its status and the approval in progress
          orgCall,     \* request -> what it is at
          asks,        \* approval -> the status it asks for
          by,          \* the approval that last changed the status, 0 for none
          refused,     \* approvals whose decision was written here and then refused there
          missed       \* approvals closed while a write about them was pending, or by a review in the service,
                       \* or whose write was lost

orgVars == << org, orgCall, asks, by, refused, missed >>

OrgStatuses == {"active", "inactive", "archived"}
NoOrgCall == [at |-> "idle", i |-> 0, status |-> "", verdict |-> ""]
OrgSteps == {"idle", "start", "write", "cancel", "wclear", "look", "clear", "apply", "signal", "find", "sync"}

StatusTypeOK ==
    /\ org.status \in OrgStatuses /\ org.wf \in Instances \cup {0}
    /\ \A c \in OrgCalls : orgCall[c].at \in OrgSteps /\ (orgCall[c].at = "idle" => orgCall[c] = NoOrgCall)
    /\ \A i \in Instances : asks[i] = "" <=> inst[i] = Unstarted
    /\ by \in Instances \cup {0} /\ refused \subseteq Instances /\ missed \subseteq Instances

StatusInit ==
    /\ org = [status |-> "active", wf |-> 0]
    /\ orgCall = [c \in OrgCalls |-> NoOrgCall]
    /\ asks = [i \in Instances |-> ""]
    /\ by = 0 /\ refused = {} /\ missed = {}

Sends(c, step) == orgCall[c].at = "idle" /\ orgCall' = [orgCall EXCEPT ![c] = step]
Then(c, step) == orgCall' = [orgCall EXCEPT ![c].at = step]
Done(c) == orgCall' = [orgCall EXCEPT ![c] = NoOrgCall]
Pending(i) == \E d \in OrgCalls : orgCall[d].i = i
\* The approval is closed while another request still has something to write about it.
Closes(i, c) == missed' = IF \E d \in OrgCalls \ {c} : orgCall[d].i = i THEN missed \cup {i} ELSE missed

-----------------------------------------------------------------------------
(* POST and DELETE request-status-change                                    *)

\* What the owner's button sends is refused when an approval is in progress or nothing would change.
OwnerAsks(c) ==
    /\ org.wf = 0
    /\ \E s \in {"active", "inactive"} \ {org.status} :
          Sends(c, [NoOrgCall EXCEPT !.at = "start", !.status = s])
    /\ UNCHANGED << inst, org, asks, by, refused, missed >>

RequestStarts(c) ==
    /\ orgCall[c].at = "start"
    /\ \/ \E i \in Instances :
             /\ StartInstance(i)
             /\ asks' = [asks EXCEPT ![i] = orgCall[c].status]
             /\ \/ orgCall' = [orgCall EXCEPT ![c].at = "write", ![c].i = i]
                \/ Done(c)                  \* the answer is lost: an approval nobody remembers
       \/ Done(c) /\ UNCHANGED << inst, asks >>
    /\ UNCHANGED << org, by, refused, missed >>

RequestWrites(c) ==
    /\ orgCall[c].at = "write"
    /\ org' = [org EXCEPT !.wf = orgCall[c].i]
    /\ Done(c)
    /\ UNCHANGED << inst, asks, by, refused, missed >>

OwnerWithdraws(c) ==
    /\ org.wf # 0
    /\ Sends(c, [NoOrgCall EXCEPT !.at = "cancel", !.i = org.wf])
    /\ UNCHANGED << inst, org, asks, by, refused, missed >>

\* Whatever the service answers, the local state is cleared.
WithdrawCancels(c) ==
    /\ orgCall[c].at = "cancel"
    /\ \/ EndInstance(orgCall[c].i) /\ Closes(orgCall[c].i, c)
       \/ UNCHANGED << inst, missed >>
    /\ Then(c, "wclear")
    /\ UNCHANGED << org, asks, by, refused >>

WithdrawClears(c) ==
    /\ orgCall[c].at = "wclear"
    /\ org' = [org EXCEPT !.wf = 0]
    /\ Done(c)
    /\ UNCHANGED << inst, asks, by, refused, missed >>

\* archive, deactivate, reactivate
ManagerSets ==
    /\ \E s \in OrgStatuses \ {org.status} : org' = [org EXCEPT !.status = s]
    /\ by' = 0
    /\ UNCHANGED << inst, orgCall, asks, refused, missed >>

-----------------------------------------------------------------------------
(* POST decision: written here first, then told to the service              *)

ManagerDecides(c) ==
    /\ org.wf # 0
    /\ \E v \in {"approved", "rejected"} :
          Sends(c, [NoOrgCall EXCEPT !.at = "look", !.i = org.wf, !.verdict = v])
    /\ UNCHANGED << inst, org, asks, by, refused, missed >>

\* Without an open task the approval has expired, unless the task is just not on the first page.
DecisionLooks(c) ==
    /\ orgCall[c].at = "look"
    /\ IF OpenTask(orgCall[c].i) THEN Then(c, "apply") \/ Done(c) ELSE Then(c, "clear")
    /\ UNCHANGED << inst, org, asks, by, refused, missed >>

DecisionClears(c) ==
    /\ orgCall[c].at = "clear"
    /\ org' = [org EXCEPT !.wf = 0]
    /\ Done(c)
    /\ UNCHANGED << inst, asks, by, refused, missed >>

Applied(i, verdict) ==
    /\ org' = IF verdict = "approved" THEN [status |-> asks[i], wf |-> 0] ELSE [org EXCEPT !.wf = 0]
    /\ by' = IF verdict = "approved" THEN i ELSE by

DecisionApplies(c) ==
    /\ orgCall[c].at = "apply"
    /\ Applied(orgCall[c].i, orgCall[c].verdict)
    /\ Then(c, "signal")
    /\ UNCHANGED << inst, asks, refused, missed >>

DecisionSignals(c) ==
    /\ orgCall[c].at = "signal"
    /\ LET i == orgCall[c].i IN
       \/ CompleteReview(i, orgCall[c].verdict, 1) /\ Closes(i, c) /\ UNCHANGED refused
       \/ refused' = refused \cup {i} /\ UNCHANGED << inst, missed >>
    /\ Done(c)
    /\ UNCHANGED << org, asks, by >>

-----------------------------------------------------------------------------
(* The task list: the service first, then here; and the week that runs out  *)

RequestDecided(c) ==
    /\ \E i \in Instances, v \in Verdicts :
          /\ CompleteReview(i, v, 1)
          /\ Closes(i, c)
          /\ Sends(c, [NoOrgCall EXCEPT !.at = "find", !.i = i, !.verdict = v])
    /\ UNCHANGED << org, asks, by, refused >>

RequestFinds(c) ==
    /\ orgCall[c].at = "find"
    /\ IF org.wf = orgCall[c].i THEN Then(c, "sync") ELSE Done(c)
    /\ UNCHANGED << inst, org, asks, by, refused, missed >>

RequestSyncs(c) ==
    /\ orgCall[c].at = "sync"
    /\ \/ Applied(orgCall[c].i, orgCall[c].verdict) /\ UNCHANGED missed
       \/ missed' = missed \cup {orgCall[c].i} /\ UNCHANGED << org, by >>
    /\ Done(c)
    /\ UNCHANGED << inst, asks, refused >>

\* After a week, or because the service's operators cancel it.
RequestExpires ==
    /\ \E i \in Instances : EndInstance(i) /\ UNCHANGED missed
    /\ UNCHANGED << org, orgCall, asks, by, refused >>

\* They complete its review, or restart it: the organization does not hear of it.
RequestOverruled ==
    /\ \E i \in Instances : (\E v \in Verdicts : CompleteReview(i, v, 1)) /\ missed' = missed \cup {i}
    /\ UNCHANGED << org, orgCall, asks, by, refused >>

RequestRestarted ==
    /\ \E i, old \in Instances : RestartInstance(i, old) /\ asks' = [asks EXCEPT ![i] = asks[old]]
    /\ UNCHANGED << org, orgCall, by, refused, missed >>

-----------------------------------------------------------------------------
StatusNext ==
    \/ RequestExpires \/ RequestOverruled \/ RequestRestarted \/ ManagerSets
    \/ \E c \in OrgCalls :
          \/ OwnerAsks(c) \/ RequestStarts(c) \/ RequestWrites(c)
          \/ OwnerWithdraws(c) \/ WithdrawCancels(c) \/ WithdrawClears(c)
          \/ ManagerDecides(c) \/ DecisionLooks(c) \/ DecisionClears(c)
          \/ DecisionApplies(c) \/ DecisionSignals(c)
          \/ RequestDecided(c) \/ RequestFinds(c) \/ RequestSyncs(c)

-----------------------------------------------------------------------------
(* Properties                                                               *)

\* A status an approval brought about was approved, except between writing it here and telling the
\* service, and when the service then refuses.  An approval in progress still has its task, or has
\* expired or been cancelled, unless it was closed while a request about it was under way, or by a
\* review in the service.
StatusRequestsHold ==
    /\ by # 0 => \/ Said(by, << "approved" >>)
                 \/ by \in refused
                 \/ \E c \in OrgCalls : orgCall[c].i = by /\ orgCall[c].at = "signal"
    /\ (org.wf # 0 /\ ~Pending(org.wf) /\ org.wf \notin missed) =>
          OpenTask(org.wf) \/ inst[org.wf] = [stage |-> "ended", said |-> << >>]
=============================================================================
