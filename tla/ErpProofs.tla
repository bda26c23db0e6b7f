----------------------------- MODULE ErpProofs ------------------------------
(***************************************************************************)
(* The ERP as a whole, and its documents that wait for one review: the     *)
(* status of organizations and the profiles of employees, for any number of *)
(* requests, approvals, restarts and events.                               *)
(*                                                                         *)
(* The argument for the profiles: an approval is about one request, whose  *)
(* newest approval it is unless the request is astray; what the consumer   *)
(* of the events has not yet seen of an approval is still to be done to    *)
(* the request, so with everything seen a request at rest says what its    *)
(* approval said.  Side by side (ErpInv), the part that moves keeps its own *)
(* invariant, and the others are as they began.                            *)
(***************************************************************************)
EXTENDS MCErp, ErpPagesProofs, ErpWorkflowProofs

-----------------------------------------------------------------------------
(* The status of an organization                                            *)

OrgRow == [status : OrgStatuses, wf : Instances \cup {0}]
OrgCall == [at : OrgSteps, i : Instances \cup {0}, status : {"", "active", "inactive"}, verdict : Verdicts \cup {""}]

\* What a request holds, by what it is at.
OrgFits(s) ==
    /\ s.at = "idle" => s = NoOrgCall
    /\ s.at = "start" => s.i = 0 /\ s.status # ""
    /\ s.at \notin {"idle", "start"} => s.i \in Instances
    /\ s.at \in {"look", "clear", "apply", "signal", "find", "sync"} => s.verdict \in Verdicts

\* Approvals of one review; an approval a review told of has said so.
OrgRows ==
    /\ InstInv
    /\ \A i \in Instances : inst[i].stage # "second" /\ (inst[i].stage = "ended" => inst[i].said = << >>)
    /\ org \in OrgRow /\ (org.wf # 0 => inst[org.wf].stage # "none")
    /\ orgCall \in [OrgCalls -> OrgCall] /\ \A c \in OrgCalls : OrgFits(orgCall[c])
    /\ \A c \in OrgCalls : orgCall[c].i # 0 => inst[orgCall[c].i].stage # "none"
    /\ \A c \in OrgCalls : orgCall[c].at \in {"find", "sync"} => inst[orgCall[c].i].said = << orgCall[c].verdict >>
    /\ asks \in [Instances -> {"", "active", "inactive"}]
    /\ \A i \in Instances : asks[i] = "" <=> inst[i].stage = "none"
    /\ by \in Instances \cup {0} /\ refused \subseteq Instances /\ missed \subseteq Instances

Telling(c, i) == orgCall[c].at \in {"find", "sync"} /\ orgCall[c].i = i
Approves(c, i) == orgCall[c].at = "signal" /\ orgCall[c].i = i /\ orgCall[c].verdict = "approved"
Unsaid(i) == inst[i].stage = "first" \/ (inst[i].stage = "ended" /\ inst[i].said = << >>)

\* What changed the status was approved, or is being told to the service, which may refuse.
ByInv == by # 0 => inst[by].said = << "approved" >> \/ by \in refused \/ \E c \in OrgCalls : Approves(c, by)

\* An approval is written to the organization once, and before anybody but its reviewers knows of it; a decision the
\* service has yet to hear of is about an approval the organization no longer has in progress.
OnceInv ==
    /\ \A d \in OrgCalls : orgCall[d].at = "write" =>
          /\ org.wf # orgCall[d].i
          /\ \A c \in OrgCalls : c # d /\ orgCall[c].i = orgCall[d].i => orgCall[c].at \in {"find", "sync"}
          /\ orgCall[d].i \notin missed => Unsaid(orgCall[d].i)
    /\ \A c \in OrgCalls : orgCall[c].at = "signal" => org.wf # orgCall[c].i

\* The approval in progress is open or expired, unless its reviewer has yet to tell or something about it was missed.
ProgressInv == org.wf # 0 /\ org.wf \notin missed => Unsaid(org.wf) \/ \E c \in OrgCalls : Telling(c, org.wf)

StatusInv == OrgRows /\ ByInv /\ OnceInv /\ ProgressInv

LEMMA NoOrgCallFits == NoOrgCall \in OrgCall /\ OrgFits(NoOrgCall) /\ NoOrgCall.at = "idle" /\ NoOrgCall.i = 0
BY DEF NoOrgCall, OrgCall, OrgFits, OrgSteps

LEMMA StatusInvInit == InstInit /\ StatusInit => StatusInv
<1> SUFFICES ASSUME InstInit, StatusInit PROVE StatusInv
    OBVIOUS
<1>1. orgCall \in [OrgCalls -> OrgCall] /\ \A c \in OrgCalls : orgCall[c] = NoOrgCall
    BY NoOrgCallFits DEF StatusInit
<1>2. org \in OrgRow /\ org.wf = 0
    BY DEF StatusInit, OrgRow, OrgStatuses
<1>3. \A i \in Instances : asks[i] = "" /\ inst[i].stage = "none"
    BY DEF StatusInit, InstInit, Unstarted
<1>4. OrgRows
    BY <1>1, <1>2, <1>3, NoOrgCallFits, InstInvInit DEF OrgRows, StatusInit
<1>5. ByInv
    BY DEF ByInv, StatusInit
<1>6. OnceInv
    BY <1>1, NoOrgCallFits DEF OnceInv
<1>7. ProgressInv
    BY <1>2 DEF ProgressInv
<1>8. QED BY <1>4, <1>5, <1>6, <1>7 DEF StatusInv

LEMMA StatusInvShows == StatusInv => StatusTypeOK /\ StatusRequestsHold
<1> SUFFICES ASSUME StatusInv PROVE StatusTypeOK /\ StatusRequestsHold
    OBVIOUS
<1>1. \A i \in Instances : inst[i].stage = "none" <=> inst[i] = Unstarted
    BY InstUnstarted DEF StatusInv, OrgRows
<1>2. StatusTypeOK
    BY <1>1 DEF StatusInv, OrgRows, StatusTypeOK, OrgRow, OrgCall, OrgFits
<1>3. by # 0 => \/ Said(by, << "approved" >>) \/ by \in refused
                \/ \E c \in OrgCalls : orgCall[c].i = by /\ orgCall[c].at = "signal"
    BY DEF StatusInv, ByInv, Approves, Said
<1>4. ASSUME org.wf # 0, ~Pending(org.wf), org.wf \notin missed
      PROVE  OpenTask(org.wf) \/ inst[org.wf] = [stage |-> "ended", said |-> << >>]
    <2>1. PICK i \in Instances : i = org.wf
        BY <1>4 DEF StatusInv, OrgRows, OrgRow
    <2>2. Unsaid(i)
        BY <1>4, <2>1 DEF StatusInv, ProgressInv, Telling, Pending
    <2>3. \A x \in InstRow : x = [stage |-> x.stage, said |-> x.said]
        BY DEF InstRow
    <2>4. inst[i] \in InstRow
        BY DEF StatusInv, OrgRows, InstInv
    <2>5. QED BY <2>1, <2>2, <2>3, <2>4 DEF Unsaid, OpenTask
<1>5. QED BY <1>2, <1>3, <1>4 DEF StatusRequestsHold

LEMMA OrgCallChanges ==
    ASSUME OrgRows, NEW c \in OrgCalls, NEW s \in OrgCall, orgCall' = [orgCall EXCEPT ![c] = s]
    PROVE  /\ orgCall'[c] = s /\ \A d \in OrgCalls : d # c => orgCall'[d] = orgCall[d]
           /\ OrgFits(s) => orgCall' \in [OrgCalls -> OrgCall] /\ \A d \in OrgCalls : OrgFits(orgCall'[d])
BY DEF OrgRows

\* A request that leaves the approvals alone.
LEMMA StatusQuiet ==
    ASSUME StatusInv, NEW c \in OrgCalls, NEW x \in OrgCall, x = orgCall[c], NEW s \in OrgCall, OrgFits(s),
           orgCall' = [orgCall EXCEPT ![c] = s], inst' = inst, asks' = asks,
           org' \in OrgRow, org'.wf \in {0, org.wf}, by' \in Instances \cup {0},
           refused' = refused, missed \subseteq missed', missed' \subseteq Instances,
           x.at \notin {"write", "signal"}, s.at \notin {"write", "find"},
           s.at = "sync" => x.at = "find" /\ s.i = x.i /\ s.verdict = x.verdict,
           s.i # 0 /\ s.at # "sync" => s.i = org.wf \/ (s.i = x.i /\ x.at \notin {"find", "sync"}),
           s.at = "signal" => org'.wf = 0,
           org'.wf # 0 /\ x.at \in {"find", "sync"} /\ x.i = org'.wf /\ x.i \notin missed' => s.at = "sync",
           \/ by' = by \/ by' = 0
           \/ inst[by'].said = << "approved" >>
           \/ s.at = "signal" /\ s.i = by' /\ s.verdict = "approved"
    PROVE  StatusInv'
<1> USE DEF StatusInv
<1>1. orgCall'[c] = s /\ \A d \in OrgCalls : d # c => orgCall'[d] = orgCall[d]
    BY OrgCallChanges
<1>2. OrgRows'
    <2>1. InstInv'
        BY DEF OrgRows, InstInv
    <2>2. orgCall' \in [OrgCalls -> OrgCall] /\ \A d \in OrgCalls : OrgFits(orgCall'[d])
        BY OrgCallChanges
    <2>3. s.i # 0 => inst[s.i].stage # "none"
        BY DEF OrgRows
    <2>4. s.at \in {"find", "sync"} => inst[s.i].said = << s.verdict >>
        BY DEF OrgRows
    <2>5. \A d \in OrgCalls : orgCall'[d].i # 0 => inst[orgCall'[d].i].stage # "none"
        BY <1>1, <2>3 DEF OrgRows
    <2>6. \A d \in OrgCalls : orgCall'[d].at \in {"find", "sync"} => inst[orgCall'[d].i].said = << orgCall'[d].verdict >>
        BY <1>1, <2>4 DEF OrgRows
    <2>7. org'.wf # 0 => inst[org'.wf].stage # "none"
        BY DEF OrgRows
    <2>8. QED BY <2>1, <2>2, <2>5, <2>6, <2>7 DEF OrgRows
<1>3. ByInv'
    <2>1. PICK b : b = by
        OBVIOUS
    <2>2. CASE by' = b
        <3>1. ASSUME NEW d \in OrgCalls, Approves(d, b) PROVE Approves(d, b)' /\ Approves(d, by)'
            <4>1. d # c
                BY <3>1 DEF Approves
            <4>2. QED BY <1>1, <2>2, <3>1, <4>1 DEF Approves
        <3>2. QED BY <2>1, <2>2, <3>1 DEF ByInv
    <2>3. CASE s.at = "signal" /\ s.i = by' /\ s.verdict = "approved"
        BY <1>1, <2>3 DEF ByInv, Approves
    <2>4. QED BY <2>1, <2>2, <2>3 DEF ByInv
<1>4. \A d \in OrgCalls : orgCall'[d].at = "write" => d # c /\ orgCall'[d] = orgCall[d] /\ orgCall[d].i # 0
    <2>1. \A d \in OrgCalls : orgCall[d].at = "write" => orgCall[d].i \in Instances
        BY DEF OrgRows, OrgFits
    <2>2. QED BY <2>1, <1>1, InstancesAreNumbered
<1>5. OnceInv'
    <2>1. ASSUME NEW d \in OrgCalls, orgCall'[d].at = "write"
          PROVE  /\ org'.wf # orgCall'[d].i
                 /\ \A e \in OrgCalls : e # d /\ orgCall'[e].i = orgCall'[d].i => orgCall'[e].at \in {"find", "sync"}
                 /\ orgCall'[d].i \notin missed' => Unsaid(orgCall[d].i)
        <3>1. d # c /\ orgCall'[d] = orgCall[d] /\ orgCall[d].at = "write" /\ orgCall[d].i # 0
            BY <1>4, <2>1
        <3>2. /\ org.wf # orgCall[d].i
              /\ \A e \in OrgCalls : e # d /\ orgCall[e].i = orgCall[d].i => orgCall[e].at \in {"find", "sync"}
              /\ orgCall[d].i \notin missed => Unsaid(orgCall[d].i)
            BY <3>1 DEF OnceInv
        <3>3. s.i = orgCall[d].i => s.at \in {"find", "sync"}
            BY <3>1, <3>2
        <3>4. QED BY <1>1, <3>1, <3>2, <3>3
    <2>2. \A d \in OrgCalls : orgCall'[d].at = "write" => (Unsaid(orgCall[d].i) <=> Unsaid(orgCall[d].i)')
        BY <1>4 DEF Unsaid
    <2>3. ASSUME NEW d \in OrgCalls, orgCall'[d].at = "signal" PROVE org'.wf # orgCall'[d].i
        <3>1. CASE d = c
            BY <1>1, <2>3, <3>1, InstancesAreNumbered DEF OrgFits
        <3>2. CASE d # c
            <4>1. orgCall'[d] = orgCall[d] /\ orgCall[d].i # 0
                BY <1>1, <2>3, <3>2, InstancesAreNumbered DEF OrgRows, OrgFits
            <4>2. QED BY <2>3, <4>1 DEF OnceInv
        <3>3. QED BY <3>1, <3>2
    <2>4. QED BY <2>1, <2>2, <2>3 DEF OnceInv
<1>6. ProgressInv'
    <2>1. ASSUME NEW w, w = org'.wf, w # 0, w \notin missed' PROVE Unsaid(w)' \/ \E d \in OrgCalls : Telling(d, w)'
        <3>1. w = org.wf /\ w \notin missed
            BY <2>1
        <3>2. CASE Unsaid(w)
            BY <3>2 DEF Unsaid
        <3>3. ASSUME NEW d \in OrgCalls, Telling(d, w) PROVE Telling(d, w)'
            <4>1. CASE d = c
                <5>1. x.at \in {"find", "sync"} /\ x.i = w
                    BY <3>3, <4>1 DEF Telling
                <5>2. s.at = "sync" /\ s.i = w
                    BY <2>1, <5>1
                <5>3. QED BY <1>1, <4>1, <5>2 DEF Telling
            <4>2. CASE d # c
                BY <1>1, <3>3, <4>2 DEF Telling
            <4>3. QED BY <4>1, <4>2
        <3>4. QED BY <2>1, <3>1, <3>2, <3>3 DEF ProgressInv
    <2>2. PICK w : w = org'.wf
        OBVIOUS
    <2>3. \A d \in OrgCalls : Telling(d, org.wf)' <=> Telling(d, w)'
        BY <2>2 DEF Telling
    <2>4. Unsaid(org.wf)' <=> Unsaid(w)'
        BY <2>2 DEF Unsaid
    <2>5. QED BY <2>1, <2>2, <2>3, <2>4 DEF ProgressInv
<1>7. QED BY <1>2, <1>3, <1>5, <1>6

\* A request is sent, having read nothing but the approval in progress.
LEMMA OwnerKeeps == ASSUME StatusInv, NEW c \in OrgCalls, OwnerAsks(c) \/ OwnerWithdraws(c) \/ ManagerDecides(c) PROVE StatusInv'
<1> USE DEF StatusInv
<1>1. PICK x \in OrgCall : x = orgCall[c]
    BY DEF OrgRows
<1>2. x.at = "idle" /\ UNCHANGED << inst, org, asks, by, refused, missed >>
    BY <1>1 DEF OwnerAsks, OwnerWithdraws, ManagerDecides, Sends
<1>3. /\ org \in OrgRow /\ org' \in OrgRow /\ by' \in Instances \cup {0} /\ missed' \subseteq Instances
      /\ org.wf \in Instances \cup {0}
    BY <1>2 DEF OrgRows, OrgRow
<1>4. ASSUME NEW s \in OrgCall, OrgFits(s), orgCall' = [orgCall EXCEPT ![c] = s], s.at \in {"start", "cancel", "look"},
             s.i \in {0, org.wf}
      PROVE  StatusInv'
    BY <1>1, <1>2, <1>3, <1>4, StatusQuiet
<1>5. CASE OwnerAsks(c)
    <2>1. PICK st \in {"active", "inactive"} : orgCall' = [orgCall EXCEPT ![c] = [NoOrgCall EXCEPT !.at = "start", !.status = st]]
        BY <1>5 DEF OwnerAsks, Sends
    <2> DEFINE s == [NoOrgCall EXCEPT !.at = "start", !.status = st]
    <2>2. s \in OrgCall /\ s.at = "start" /\ s.i = 0 /\ s.status # ""
        BY NoOrgCallFits DEF OrgCall, OrgSteps
    <2>3. orgCall' = [orgCall EXCEPT ![c] = s]
        BY <2>1
    <2> HIDE DEF s
    <2>4. OrgFits(s)
        BY <2>2 DEF OrgFits
    <2>5. QED BY <1>4, <2>2, <2>3, <2>4
<1>6. CASE OwnerWithdraws(c)
    <2> DEFINE s == [NoOrgCall EXCEPT !.at = "cancel", !.i = org.wf]
    <2>1. s \in OrgCall /\ s.at = "cancel" /\ s.i = org.wf
        BY <1>3, NoOrgCallFits DEF OrgCall, OrgSteps
    <2>2. orgCall' = [orgCall EXCEPT ![c] = s] /\ org.wf \in Instances
        BY <1>3, <1>6 DEF OwnerWithdraws, Sends
    <2> HIDE DEF s
    <2>3. OrgFits(s)
        BY <2>1, <2>2 DEF OrgFits
    <2>4. QED BY <1>4, <2>1, <2>2, <2>3
<1>7. CASE ManagerDecides(c)
    <2>1. PICK v \in {"approved", "rejected"} :
             orgCall' = [orgCall EXCEPT ![c] = [NoOrgCall EXCEPT !.at = "look", !.i = org.wf, !.verdict = v]]
        BY <1>7 DEF ManagerDecides, Sends
    <2> DEFINE s == [NoOrgCall EXCEPT !.at = "look", !.i = org.wf, !.verdict = v]
    <2>2. s \in OrgCall /\ s.at = "look" /\ s.i = org.wf /\ s.verdict \in Verdicts
        BY <1>3, NoOrgCallFits DEF OrgCall, OrgSteps, Verdicts
    <2>3. orgCall' = [orgCall EXCEPT ![c] = s] /\ org.wf \in Instances
        BY <1>3, <1>7, <2>1 DEF ManagerDecides
    <2> HIDE DEF s
    <2>4. OrgFits(s)
        BY <2>2, <2>3 DEF OrgFits
    <2>5. QED BY <1>4, <2>2, <2>3, <2>4
<1>8. QED BY <1>5, <1>6, <1>7

\* What a request under way does to itself.
OrgStep(x, a) == [x EXCEPT !.at = a]

LEMMA OrgStepFits ==
    ASSUME NEW x \in OrgCall, x.i \in Instances, NEW a \in OrgSteps, a \notin {"idle", "start"},
           a = "wclear" \/ x.verdict \in Verdicts
    PROVE  LET s == OrgStep(x, a)
           IN  s \in OrgCall /\ s.at = a /\ s.i = x.i /\ s.status = x.status /\ s.verdict = x.verdict /\ OrgFits(s)
<1> DEFINE s == OrgStep(x, a)
<1>1. s \in OrgCall /\ s.at = a /\ s.i = x.i /\ s.status = x.status /\ s.verdict = x.verdict
    BY DEF OrgCall, OrgStep
<1> HIDE DEF s
<1>2. OrgFits(s)
    BY <1>1 DEF OrgFits
<1>3. QED BY <1>1, <1>2 DEF s

\* A decision or a withdrawal clears the approval in progress, finds it expired or looks it up.
LEMMA LooksKeeps ==
    ASSUME StatusInv, NEW c \in OrgCalls,
           \/ WithdrawClears(c) \/ DecisionLooks(c) \/ DecisionClears(c) \/ RequestFinds(c)
           \/ WithdrawCancels(c) /\ UNCHANGED << inst, missed >>
    PROVE  StatusInv'
<1> USE DEF StatusInv
<1>1. PICK x \in OrgCall : x = orgCall[c]
    BY DEF OrgRows
<1>2. x.at \in {"wclear", "look", "clear", "find", "cancel"} /\ UNCHANGED << inst, asks, by, refused, missed >>
    BY <1>1 DEF WithdrawClears, DecisionLooks, DecisionClears, RequestFinds, WithdrawCancels
<1>3. x.i \in Instances
    BY <1>1, <1>2 DEF OrgRows, OrgFits
<1>4. by' \in Instances \cup {0} /\ missed' \subseteq Instances /\ org \in OrgRow
    BY <1>2 DEF OrgRows
<1>5. ASSUME org' \in OrgRow, org'.wf \in {0, org.wf}, Done(c), x.at \in {"find", "sync"} => x.i # org'.wf
      PROVE  StatusInv'
    BY <1>1, <1>2, <1>3, <1>4, <1>5, NoOrgCallFits, StatusQuiet DEF Done
<1>6. ASSUME NEW a \in {"apply", "clear", "wclear", "sync"}, Then(c, a), org' = org, a = "sync" <=> x.at = "find",
             a = "wclear" \/ x.at \in {"look", "find"}
      PROVE  StatusInv'
    <2>0. a = "wclear" \/ x.verdict \in Verdicts
        BY <1>1, <1>6 DEF OrgRows, OrgFits
    <2> DEFINE s == OrgStep(x, a)
    <2>1. s \in OrgCall /\ s.at = a /\ s.i = x.i /\ s.verdict = x.verdict /\ OrgFits(s)
        BY <1>3, <2>0, OrgStepFits DEF OrgSteps
    <2>2. orgCall' = [orgCall EXCEPT ![c] = s]
        BY <1>1, <1>6 DEF Then, OrgStep
    <2> HIDE DEF s
    <2>3. s.i # 0 /\ s.at # "sync" => s.i = org.wf \/ (s.i = x.i /\ x.at \notin {"find", "sync"})
        BY <1>2, <1>6, <2>1
    <2>4. QED BY <1>1, <1>2, <1>4, <1>6, <2>1, <2>2, <2>3, StatusQuiet
<1>7. CASE WithdrawClears(c) \/ DecisionClears(c)
    <2>1. org' = [org EXCEPT !.wf = 0] /\ Done(c) /\ x.at \in {"wclear", "clear"}
        BY <1>1, <1>7 DEF WithdrawClears, DecisionClears
    <2>2. org' \in OrgRow /\ org'.wf = 0
        BY <1>4, <2>1 DEF OrgRow
    <2>3. QED BY <1>5, <2>1, <2>2
<1>8. CASE DecisionLooks(c)
    <2>1. org' = org /\ x.at = "look" /\ (Then(c, "apply") \/ Done(c) \/ Then(c, "clear"))
        BY <1>1, <1>8 DEF DecisionLooks
    <2>2. QED BY <1>4, <1>5, <1>6, <2>1
<1>9. CASE RequestFinds(c)
    <2>1. org' = org /\ x.at = "find"
        BY <1>1, <1>9 DEF RequestFinds
    <2>2. CASE org.wf = x.i
        <3>1. Then(c, "sync")
            BY <1>1, <1>9, <2>2 DEF RequestFinds
        <3>2. QED BY <1>6, <2>1, <3>1
    <2>3. CASE org.wf # x.i
        <3>1. Done(c)
            BY <1>1, <1>9, <2>3 DEF RequestFinds
        <3>2. QED BY <1>4, <1>5, <2>1, <2>3, <3>1
    <2>4. QED BY <2>2, <2>3
<1>10. CASE WithdrawCancels(c) /\ UNCHANGED << inst, missed >>
    <2>1. org' = org /\ x.at = "cancel" /\ Then(c, "wclear")
        BY <1>1, <1>10 DEF WithdrawCancels
    <2>2. QED BY <1>6, <2>1
<1>11. QED BY <1>7, <1>8, <1>9, <1>10

\* A decision is written to the organization, before or after the service hears of it.
LEMMA AppliedRow ==
    ASSUME OrgRows, NEW i \in Instances, NEW v \in Verdicts \cup {""}, Applied(i, v), inst[i].stage # "none"
    PROVE  /\ org' \in OrgRow /\ org'.wf = 0 /\ by' \in Instances \cup {0}
           /\ by' = by \/ (by' = i /\ v = "approved")
<1>1. asks[i] \in OrgStatuses
    <2>1. asks[i] \in {"", "active", "inactive"} /\ asks[i] # ""
        BY DEF OrgRows
    <2>2. QED BY <2>1 DEF OrgStatuses
<1>2. org \in OrgRow /\ by \in Instances \cup {0}
    BY DEF OrgRows
<1>3. CASE v = "approved"
    BY <1>1, <1>3 DEF Applied, OrgRow
<1>4. CASE v # "approved"
    BY <1>2, <1>4 DEF Applied, OrgRow
<1>5. QED BY <1>3, <1>4

LEMMA AppliesKeeps == ASSUME StatusInv, NEW c \in OrgCalls, DecisionApplies(c) \/ RequestSyncs(c) PROVE StatusInv'
<1> USE DEF StatusInv
<1>1. PICK x \in OrgCall : x = orgCall[c]
    BY DEF OrgRows
<1>2. PICK i \in Instances : i = x.i
    BY <1>1 DEF OrgRows, OrgFits, DecisionApplies, RequestSyncs
<1>3. inst[i].stage # "none" /\ org \in OrgRow /\ by \in Instances \cup {0} /\ missed \subseteq Instances
    BY <1>1, <1>2, InstancesAreNumbered DEF OrgRows
<1>4. PICK v \in Verdicts : v = x.verdict
    BY <1>1 DEF OrgRows, OrgFits, DecisionApplies, RequestSyncs
<1>5. CASE DecisionApplies(c)
    <2>1. x.at = "apply" /\ Applied(i, v) /\ Then(c, "signal") /\ UNCHANGED << inst, asks, refused, missed >>
        BY <1>1, <1>2, <1>4, <1>5 DEF DecisionApplies
    <2> DEFINE s == OrgStep(x, "signal")
    <2>2. s \in OrgCall /\ s.at = "signal" /\ s.i = i /\ s.verdict = v /\ OrgFits(s)
        BY <1>2, <1>4, OrgStepFits DEF OrgSteps
    <2>3. orgCall' = [orgCall EXCEPT ![c] = s]
        BY <1>1, <2>1 DEF Then, OrgStep
    <2> HIDE DEF s
    <2>4. /\ org' \in OrgRow /\ org'.wf = 0 /\ by' \in Instances \cup {0}
          /\ by' = by \/ (by' = i /\ v = "approved")
        BY <1>3, <2>1, AppliedRow
    <2>5. QED BY <1>1, <1>2, <1>3, <2>1, <2>2, <2>3, <2>4, StatusQuiet
<1>6. CASE RequestSyncs(c)
    <2>1. x.at = "sync" /\ Done(c) /\ UNCHANGED << inst, asks, refused >>
        BY <1>1, <1>6 DEF RequestSyncs
    <2>2. inst[i].said = << v >>
        BY <1>1, <1>2, <1>4, <2>1 DEF OrgRows
    <2>3. CASE Applied(i, v) /\ UNCHANGED missed
        <3>1. /\ org' \in OrgRow /\ org'.wf = 0 /\ by' \in Instances \cup {0}
              /\ by' = by \/ (by' = i /\ v = "approved")
            BY <1>3, <2>3, AppliedRow
        <3>2. QED BY <1>1, <1>3, <2>1, <2>2, <2>3, <3>1, NoOrgCallFits, StatusQuiet DEF Done
    <2>4. CASE missed' = missed \cup {i} /\ UNCHANGED << org, by >>
        BY <1>1, <1>2, <1>3, <2>1, <2>4, NoOrgCallFits, StatusQuiet DEF Done
    <2>5. QED BY <1>1, <1>2, <1>4, <1>6, <2>3, <2>4 DEF RequestSyncs
<1>7. QED BY <1>5, <1>6

\* A manager sets the status.
LEMMA SetsKeeps == ASSUME StatusInv, ManagerSets PROVE StatusInv'
<1> USE DEF StatusInv
<1>1. by' = 0 /\ UNCHANGED << inst, orgCall, asks, refused, missed >> /\ org' \in OrgRow /\ org'.wf = org.wf
    BY DEF ManagerSets, OrgRows, OrgRow
<1>2. OrgRows'
    <2>1. InstInv'
        BY <1>1 DEF OrgRows, InstInv
    <2>2. QED BY <1>1, <2>1 DEF OrgRows
<1>3. ByInv' /\ OnceInv'
    <2>1. \A i \in Instances : Unsaid(i)' <=> Unsaid(i)
        BY <1>1 DEF Unsaid
    <2>2. \A d \in OrgCalls : orgCall[d].at = "write" => orgCall[d].i \in Instances
        BY DEF OrgRows, OrgFits
    <2>3. QED BY <1>1, <2>1, <2>2 DEF ByInv, OnceInv, Unsaid
<1>4. ProgressInv'
    BY <1>1 DEF ProgressInv, Unsaid, Telling
<1>5. QED BY <1>2, <1>3, <1>4

\* An approval of one review is over once it is reviewed, and has said nothing when it is cancelled.
LEMMA OnlyReview ==
    ASSUME OrgRows, NEW i \in Instances, NEW v \in Verdicts, CompleteReview(i, v, 1)
    PROVE  /\ InstInv' /\ inst[i].stage = "first" /\ inst[i].said = << >>
           /\ inst'[i].stage = "over" /\ inst'[i].said = << v >>
           /\ \A j \in Instances : j # i => inst'[j] = inst[j]
<1>1. InstInv /\ inst[i].stage # "second"
    BY DEF OrgRows
<1>0. 1 \in {1, 2} /\ 1 # 2
    OBVIOUS
<1>2. /\ InstInv'
      /\ \/ inst[i].stage = "first" /\ inst[i].said = << >> /\ inst'[i].said = << v >>
         \/ inst[i].stage = "second" /\ inst[i].said = << "approved" >> /\ inst'[i].said = << "approved", v >>
      /\ inst'[i].stage = IF v = "approved" /\ inst[i].stage = "first" /\ 1 = 2 THEN "second" ELSE "over"
      /\ \A j \in Instances : j # i => inst'[j] = inst[j]
    BY <1>0, <1>1, InstReviewed
<1>3. QED BY <1>0, <1>1, <1>2

LEMMA OnlyEnd ==
    ASSUME OrgRows, NEW i \in Instances, EndInstance(i)
    PROVE  /\ InstInv' /\ inst[i].stage = "first" /\ inst[i].said = << >>
           /\ inst'[i].stage = "ended" /\ inst'[i].said = << >>
           /\ \A j \in Instances : j # i => inst'[j] = inst[j]
<1>1. Life(inst[i])
    BY DEF OrgRows, InstInv
<1>2. QED BY <1>1, InstEnds DEF OrgRows, Life

\* What holds of the rows once an approval is over, and one request has gone on.
LEMMA OverRows ==
    ASSUME OrgRows, NEW i \in Instances, NEW c \in OrgCalls, NEW s \in OrgCall, OrgFits(s),
           inst[i].stage = "first", inst[i].said = << >>, InstInv', inst'[i].stage \in {"over", "ended"},
           inst'[i].stage = "ended" => inst'[i].said = << >>,
           \A j \in Instances : j # i => inst'[j] = inst[j],
           orgCall'[c] = s, orgCall' \in [OrgCalls -> OrgCall], \A d \in OrgCalls : d # c => orgCall'[d] = orgCall[d],
           s.i \in {0, i}, s.at \in {"find", "sync"} => s.i = i /\ inst'[i].said = << s.verdict >>,
           UNCHANGED << org, asks, by >>, refused' \subseteq Instances, missed' \subseteq Instances
    PROVE  OrgRows'
<1>1. \A j \in Instances : inst[j].stage # "none" => inst'[j].stage # "none"
    OBVIOUS
<1>2. ASSUME NEW j \in Instances PROVE inst'[j].stage # "second" /\ (inst'[j].stage = "ended" => inst'[j].said = << >>)
    <2>1. CASE j = i
        <3>1. inst'[i].stage # "second"
            OBVIOUS
        <3>2. QED BY <2>1, <3>1
    <2>2. CASE j # i
        <3>1. inst[j].stage # "second" /\ (inst[j].stage = "ended" => inst[j].said = << >>)
            BY DEF OrgRows
        <3>2. inst'[j] = inst[j]
            BY <2>2
        <3>3. QED BY <3>1, <3>2
    <2>3. QED BY <2>1, <2>2
<1>3. org.wf \in Instances \cup {0} /\ \A d \in OrgCalls : orgCall[d].i \in Instances \cup {0}
    BY DEF OrgRows, OrgRow, OrgCall
<1>4. \A d \in OrgCalls : OrgFits(orgCall'[d])
    BY DEF OrgRows
<1>5. ASSUME NEW d \in OrgCalls, orgCall'[d].i # 0 PROVE inst'[orgCall'[d].i].stage # "none"
    <2>1. CASE d = c
        BY <1>5, <2>1
    <2>2. CASE d # c
        <3>1. orgCall'[d] = orgCall[d] /\ orgCall[d].i \in Instances /\ inst[orgCall[d].i].stage # "none"
            BY <1>3, <1>5, <2>2 DEF OrgRows
        <3>2. QED BY <1>1, <3>1
    <2>3. QED BY <2>1, <2>2
<1>6. ASSUME NEW d \in OrgCalls, orgCall'[d].at \in {"find", "sync"} PROVE inst'[orgCall'[d].i].said = << orgCall'[d].verdict >>
    <2>1. CASE d # c
        <3>1. inst[orgCall[d].i].said = << orgCall[d].verdict >> /\ orgCall[d].i \in Instances
            BY <1>6, <2>1 DEF OrgRows, OrgFits
        <3>2. orgCall[d].i # i
            <4>1. \A v : << v >> # << >>
                OBVIOUS
            <4>2. QED BY <3>1, <4>1
        <3>3. QED BY <2>1, <3>1, <3>2
    <2>2. QED BY <1>6, <2>1
<1>7. \A j \in Instances : asks[j] = "" <=> inst'[j].stage = "none"
    BY DEF OrgRows
<1>8. QED BY <1>1, <1>2, <1>3, <1>4, <1>5, <1>6, <1>7 DEF OrgRows

\* An approval is over: its request goes on, a call that has to tell of it being new.
LEMMA OverKeeps ==
    ASSUME StatusInv, NEW i \in Instances, NEW c \in OrgCalls, NEW x \in OrgCall, x = orgCall[c], NEW s \in OrgCall, OrgFits(s),
           inst[i].stage = "first", inst[i].said = << >>, InstInv', inst'[i].stage \in {"over", "ended"},
           inst'[i].stage = "ended" => inst'[i].said = << >>,
           \A j \in Instances : j # i => inst'[j] = inst[j],
           orgCall' = [orgCall EXCEPT ![c] = s],
           s.i \in {0, i}, s.at \in {"find", "sync"} => s.i = i /\ inst'[i].said = << s.verdict >>,
           UNCHANGED << org, asks, by >>, refused' = refused, missed \subseteq missed', missed' \subseteq Instances,
           s.at \notin {"write", "signal"}, x.at \in {"find", "sync", "write"} => s = x,
           x.at = "signal" => x.i = i /\ inst'[i].said = << x.verdict >>,
           s.at \in {"find", "sync"} \/ s.i # i \/ x.i = i \/ s = x,
           inst'[i].stage = "over" => \/ s.at \in {"find", "sync"} /\ \A d \in OrgCalls \ {c} : orgCall[d].i = i => i \in missed'
                                      \/ x.at = "signal"
    PROVE  StatusInv'
<1> USE DEF StatusInv
<1>1. /\ orgCall'[c] = s /\ \A d \in OrgCalls : d # c => orgCall'[d] = orgCall[d]
      /\ orgCall' \in [OrgCalls -> OrgCall]
    BY OrgCallChanges
<1>2. OrgRows'
    BY <1>1, OverRows DEF OrgRows
<1>3. \A v : << v >> # << >>
    OBVIOUS
<1>4. \A j \in Instances : j # i => (Unsaid(j) <=> Unsaid(j)')
    BY DEF Unsaid
<1>5. inst'[i].stage = "ended" => Unsaid(i)'
    BY DEF Unsaid
<1>6. ByInv'
    <2>1. PICK b \in Instances \cup {0} : b = by
        BY DEF OrgRows
    <2>2. CASE b # 0 /\ inst[b].said = << "approved" >>
        BY <1>3, <2>1, <2>2 DEF ByInv
    <2>3. ASSUME NEW d \in OrgCalls, Approves(d, b) PROVE inst'[b].said = << "approved" >> \/ Approves(d, b)'
        <3>1. CASE d = c
            BY <2>3, <3>1 DEF Approves
        <3>2. CASE d # c
            BY <1>1, <2>3, <3>2 DEF Approves
        <3>3. QED BY <3>1, <3>2
    <2>4. b # 0 => inst'[b].said = << "approved" >> \/ b \in refused' \/ \E d \in OrgCalls : Approves(d, b)'
        BY <2>1, <2>2, <2>3 DEF ByInv
    <2>5. \A d \in OrgCalls : Approves(d, by)' <=> Approves(d, b)'
        BY <2>1 DEF Approves
    <2>6. QED BY <2>1, <2>4, <2>5 DEF ByInv
<1>7. OnceInv'
    <2>1. ASSUME NEW d \in OrgCalls, orgCall'[d].at = "write"
          PROVE  /\ d # c /\ orgCall[d].at = "write" /\ orgCall'[d] = orgCall[d] /\ orgCall[d].i \in Instances
                 /\ org.wf # orgCall[d].i
                 /\ \A e \in OrgCalls : e # d /\ orgCall[e].i = orgCall[d].i => orgCall[e].at \in {"find", "sync"}
                 /\ orgCall[d].i \notin missed => Unsaid(orgCall[d].i)
        BY <1>1, <2>1 DEF OnceInv, OrgRows, OrgFits
    <2>2. ASSUME NEW d \in OrgCalls, orgCall'[d].at = "write", NEW e \in OrgCalls, e # d, orgCall'[e].i = orgCall'[d].i
          PROVE  orgCall'[e].at \in {"find", "sync"}
        <3>1. CASE e # c
            BY <1>1, <2>1, <2>2, <3>1
        <3>2. CASE e = c
            <4>1. s.i = orgCall[d].i /\ s.i # 0
                BY <1>1, <2>1, <2>2, <3>2, InstancesAreNumbered
            <4>2. s.i = i
                BY <4>1
            <4>3. x.i = i => x.at \in {"find", "sync"}
                BY <2>1, <2>2, <3>2, <4>1, <4>2
            <4>4. s.at \in {"find", "sync"}
                BY <2>1, <2>2, <3>2, <4>2, <4>3
            <4>5. QED BY <1>1, <3>2, <4>4
        <3>3. QED BY <3>1, <3>2
    <2>3. ASSUME NEW d \in OrgCalls, orgCall'[d].at = "write", orgCall'[d].i \notin missed' PROVE Unsaid(orgCall[d].i)'
        <3>1. PICK j \in Instances : j = orgCall[d].i
            BY <2>1, <2>3
        <3>2. Unsaid(j) /\ orgCall'[d] = orgCall[d] /\ d # c
            BY <2>1, <2>3, <3>1
        <3>3. CASE j # i
            BY <1>4, <3>1, <3>2, <3>3 DEF Unsaid
        <3>4. CASE j = i
            <4>1. inst'[i].stage # "over"
                <5>1. x.at = "signal" => x.i = orgCall[d].i
                    BY <3>1, <3>4
                <5>2. x.at # "signal"
                    BY <2>1, <2>3, <5>1
                <5>3. QED BY <2>3, <3>1, <3>2, <3>4, <5>2
            <4>2. Unsaid(j)'
                BY <1>5, <3>4, <4>1 DEF Unsaid
            <4>3. QED BY <3>1, <3>2, <4>2 DEF Unsaid
        <3>5. QED BY <3>3, <3>4
    <2>5. \A d \in OrgCalls : orgCall'[d].at = "signal" => org'.wf # orgCall'[d].i
        BY <1>1 DEF OnceInv
    <2>6. \A d \in OrgCalls : orgCall'[d].at = "write" => org'.wf # orgCall'[d].i
        BY <2>1
    <2>7. QED BY <2>2, <2>3, <2>5, <2>6 DEF OnceInv
<1>8. ProgressInv'
    <2>1. PICK w \in Instances \cup {0} : w = org.wf
        BY DEF OrgRows, OrgRow
    <2>2. ASSUME w # 0, w \notin missed' PROVE Unsaid(w)' \/ \E d \in OrgCalls : Telling(d, w)'
        <3>1. CASE w = i /\ inst'[i].stage = "over"
            <4>1. x.at # "signal"
                BY <2>1, <3>1 DEF OnceInv
            <4>2. s.at \in {"find", "sync"} /\ s.i = i
                BY <3>1, <4>1
            <4>3. QED BY <1>1, <3>1, <4>2 DEF Telling
        <3>2. CASE w = i /\ inst'[i].stage = "ended"
            BY <1>5, <3>2
        <3>3. CASE w # i /\ Unsaid(w)
            BY <1>4, <2>2, <3>3
        <3>4. ASSUME NEW d \in OrgCalls, Telling(d, w) PROVE Telling(d, w)'
            BY <1>1, <3>4 DEF Telling
        <3>5. QED BY <2>1, <2>2, <3>1, <3>2, <3>3, <3>4 DEF ProgressInv
    <2>3. \A d \in OrgCalls : Telling(d, org.wf)' <=> Telling(d, w)'
        BY <2>1 DEF Telling
    <2>4. Unsaid(org.wf)' <=> Unsaid(w)'
        BY <2>1 DEF Unsaid
    <2>5. QED BY <2>1, <2>2, <2>3, <2>4 DEF ProgressInv
<1>9. QED BY <1>2, <1>6, <1>7, <1>8

\* The approvals that are over because a request said so, or because nobody reviewed them in time.
LEMMA EndsKeeps ==
    ASSUME StatusInv, NEW c \in OrgCalls,
           DecisionSignals(c) \/ RequestDecided(c) \/ (WithdrawCancels(c) /\ EndInstance(orgCall[c].i) /\ Closes(orgCall[c].i, c))
    PROVE  StatusInv'
<1> USE DEF StatusInv
<1>1. PICK x \in OrgCall : x = orgCall[c] /\ OrgFits(x)
    BY DEF OrgRows
<1>2. missed \subseteq Instances /\ refused \subseteq Instances
    BY DEF OrgRows
<1>3. ASSUME NEW i \in Instances, Closes(i, c)
      PROVE  /\ missed \subseteq missed' /\ missed' \subseteq Instances
             /\ \A d \in OrgCalls \ {c} : orgCall[d].i = i => i \in missed'
    BY <1>2, <1>3 DEF Closes
<1>4. CASE WithdrawCancels(c) /\ EndInstance(orgCall[c].i) /\ Closes(orgCall[c].i, c)
    <2>1. PICK i \in Instances : i = x.i
        BY <1>1, <1>4 DEF WithdrawCancels, OrgFits
    <2>2. /\ InstInv' /\ inst[i].stage = "first" /\ inst[i].said = << >>
          /\ inst'[i].stage = "ended" /\ inst'[i].said = << >>
          /\ \A j \in Instances : j # i => inst'[j] = inst[j]
        BY <1>1, <1>4, <2>1, OnlyEnd
    <2>3. missed \subseteq missed' /\ missed' \subseteq Instances
        BY <1>1, <1>3, <1>4, <2>1
    <2>4. x.at = "cancel" /\ Then(c, "wclear") /\ UNCHANGED << org, asks, by, refused >>
        BY <1>1, <1>4 DEF WithdrawCancels
    <2> DEFINE s == OrgStep(x, "wclear")
    <2>5. s \in OrgCall /\ s.at = "wclear" /\ s.i = i /\ OrgFits(s)
        BY <2>1, OrgStepFits DEF OrgSteps
    <2>6. orgCall' = [orgCall EXCEPT ![c] = s]
        BY <1>1, <2>4 DEF Then, OrgStep
    <2> HIDE DEF s
    <2>7. inst'[i].stage # "over"
        BY <2>2
    <2>8. QED BY <1>1, <2>1, <2>2, <2>3, <2>4, <2>5, <2>6, <2>7, OverKeeps
<1>5. CASE RequestDecided(c)
    <2>1. PICK i \in Instances, v \in Verdicts :
             /\ CompleteReview(i, v, 1) /\ Closes(i, c)
             /\ Sends(c, [NoOrgCall EXCEPT !.at = "find", !.i = i, !.verdict = v])
        BY <1>5 DEF RequestDecided
    <2>2. /\ InstInv' /\ inst[i].stage = "first" /\ inst[i].said = << >>
          /\ inst'[i].stage = "over" /\ inst'[i].said = << v >>
          /\ \A j \in Instances : j # i => inst'[j] = inst[j]
        BY <2>1, OnlyReview
    <2>3. /\ missed \subseteq missed' /\ missed' \subseteq Instances
          /\ \A d \in OrgCalls \ {c} : orgCall[d].i = i => i \in missed'
        BY <1>3, <2>1
    <2> DEFINE s == [NoOrgCall EXCEPT !.at = "find", !.i = i, !.verdict = v]
    <2>4. s \in OrgCall /\ s.at = "find" /\ s.i = i /\ s.verdict = v
        BY NoOrgCallFits DEF OrgCall, OrgSteps
    <2>5. x.at = "idle" /\ orgCall' = [orgCall EXCEPT ![c] = s] /\ UNCHANGED << org, asks, by, refused >>
        BY <1>1, <1>5, <2>1 DEF Sends, RequestDecided
    <2> HIDE DEF s
    <2>6. OrgFits(s)
        BY <2>4 DEF OrgFits
    <2>7. QED BY <1>1, <2>2, <2>3, <2>4, <2>5, <2>6, OverKeeps
<1>6. CASE DecisionSignals(c)
    <2>1. PICK i \in Instances : i = x.i
        BY <1>1, <1>6 DEF DecisionSignals, OrgFits
    <2>2. x.at = "signal" /\ orgCall' = [orgCall EXCEPT ![c] = NoOrgCall] /\ UNCHANGED << org, asks, by >>
        BY <1>1, <1>6 DEF DecisionSignals, Done
    <2>3. CASE CompleteReview(i, x.verdict, 1) /\ Closes(i, c) /\ UNCHANGED refused
        <3>1. missed \subseteq missed' /\ missed' \subseteq Instances
            BY <1>3, <2>3
        <3>2. x.verdict \in Verdicts
            BY <1>1, <2>2 DEF OrgFits
        <3>3. QED
            <4>1. /\ InstInv' /\ inst[i].stage = "first" /\ inst[i].said = << >>
                  /\ inst'[i].stage = "over" /\ inst'[i].said = << x.verdict >>
                  /\ \A j \in Instances : j # i => inst'[j] = inst[j]
                BY <2>3, <3>2, OnlyReview
            <4>2. NoOrgCall.at \notin {"find", "sync", "write", "signal"}
                BY NoOrgCallFits
            <4>3. QED BY <1>1, <2>1, <2>2, <2>3, <3>1, <4>1, <4>2, NoOrgCallFits, InstancesAreNumbered, OverKeeps
    <2>4. CASE refused' = refused \cup {i} /\ UNCHANGED << inst, missed >>
        <3>1. /\ orgCall'[c] = NoOrgCall /\ \A d \in OrgCalls : d # c => orgCall'[d] = orgCall[d]
              /\ orgCall' \in [OrgCalls -> OrgCall] /\ \A d \in OrgCalls : OrgFits(orgCall'[d])
            BY <2>2, NoOrgCallFits, OrgCallChanges
        <3>2. OrgRows'
            <4>1. InstInv'
                BY <2>4 DEF OrgRows, InstInv
            <4>2. \A d \in OrgCalls : orgCall'[d].i # 0 => inst[orgCall'[d].i].stage # "none"
                BY <3>1, NoOrgCallFits DEF OrgRows
            <4>3. \A d \in OrgCalls : orgCall'[d].at \in {"find", "sync"} => inst[orgCall'[d].i].said = << orgCall'[d].verdict >>
                BY <3>1, NoOrgCallFits DEF OrgRows
            <4>4. QED BY <2>2, <2>4, <3>1, <4>1, <4>2, <4>3 DEF OrgRows
        <3>3. ByInv'
            <4>1. PICK b \in Instances \cup {0} : b = by
                BY DEF OrgRows
            <4>2. ASSUME NEW d \in OrgCalls, Approves(d, b) PROVE b \in refused' \/ Approves(d, b)'
                <5>1. CASE d = c
                    BY <1>1, <2>1, <2>4, <4>2, <5>1 DEF Approves
                <5>2. CASE d # c
                    BY <3>1, <4>2, <5>2 DEF Approves
                <5>3. QED BY <5>1, <5>2
            <4>3. b # 0 => inst[b].said = << "approved" >> \/ b \in refused' \/ \E d \in OrgCalls : Approves(d, b)'
                BY <2>4, <4>1, <4>2 DEF ByInv
            <4>4. \A d \in OrgCalls : Approves(d, by)' <=> Approves(d, b)'
                BY <2>2, <4>1 DEF Approves
            <4>5. QED BY <2>2, <2>4, <4>1, <4>3, <4>4 DEF ByInv
        <3>4. OnceInv'
            <4>1. ASSUME NEW d \in OrgCalls, orgCall'[d].at = "write"
                  PROVE  /\ org'.wf # orgCall'[d].i
                         /\ \A e \in OrgCalls : e # d /\ orgCall'[e].i = orgCall'[d].i => orgCall'[e].at \in {"find", "sync"}
                         /\ orgCall'[d].i \notin missed' => Unsaid(orgCall[d].i)'
                <5>1. d # c /\ orgCall'[d] = orgCall[d] /\ orgCall[d].i \in Instances
                    BY <3>1, <4>1, NoOrgCallFits DEF OrgRows, OrgFits
                <5>2. /\ org.wf # orgCall[d].i
                      /\ \A e \in OrgCalls : e # d /\ orgCall[e].i = orgCall[d].i => orgCall[e].at \in {"find", "sync"}
                      /\ orgCall[d].i \notin missed => Unsaid(orgCall[d].i)
                    BY <4>1, <5>1 DEF OnceInv
                <5>3. ASSUME NEW e \in OrgCalls, e # d, orgCall'[e].i = orgCall'[d].i PROVE orgCall'[e].at \in {"find", "sync"}
                    <6>1. CASE e = c
                        BY <3>1, <5>1, <5>3, <6>1, NoOrgCallFits, InstancesAreNumbered
                    <6>2. CASE e # c
                        BY <3>1, <5>1, <5>2, <5>3, <6>2
                    <6>3. QED BY <6>1, <6>2
                <5>4. orgCall'[d].i \notin missed' => Unsaid(orgCall[d].i)'
                    BY <2>4, <5>1, <5>2 DEF Unsaid
                <5>5. QED BY <2>2, <5>1, <5>2, <5>3, <5>4
            <4>2. \A d \in OrgCalls : orgCall'[d].at = "signal" => org'.wf # orgCall'[d].i
                <5>1. \A d \in OrgCalls : orgCall'[d].at = "signal" => orgCall'[d] = orgCall[d]
                    BY <3>1, NoOrgCallFits
                <5>2. QED BY <2>2, <5>1 DEF OnceInv
            <4>3. QED BY <4>1, <4>2 DEF OnceInv
        <3>5. ProgressInv'
            <4>1. PICK w : w = org.wf
                OBVIOUS
            <4>2. \A d \in OrgCalls : Telling(d, w) => Telling(d, w)'
                BY <1>1, <2>2, <3>1 DEF Telling
            <4>3. Unsaid(w) <=> Unsaid(w)'
                BY <2>4 DEF Unsaid
            <4>4. \A d \in OrgCalls : Telling(d, org.wf)' <=> Telling(d, w)'
                BY <2>2, <4>1 DEF Telling
            <4>5. Unsaid(org.wf)' <=> Unsaid(w)'
                BY <2>2, <4>1 DEF Unsaid
            <4>6. QED BY <2>2, <2>4, <4>1, <4>2, <4>3, <4>4, <4>5 DEF ProgressInv
        <3>6. QED BY <3>2, <3>3, <3>4, <3>5
    <2>5. QED BY <1>1, <1>6, <2>1, <2>3, <2>4 DEF DecisionSignals
<1>7. QED BY <1>4, <1>5, <1>6

\* What happens in the service changes no request and no row: what is said of an approval stays, and one that says
\* something new is missed.
LEMMA InServiceStays ==
    ASSUME StatusInv, InstInv', UNCHANGED << org, orgCall, by, refused >>, missed \subseteq missed', missed' \subseteq Instances,
           asks' \in [Instances -> {"", "active", "inactive"}],
           \A j \in Instances : asks'[j] = "" <=> inst'[j].stage = "none",
           \A j \in Instances : /\ inst[j].stage # "none" => inst'[j].stage # "none"
                                /\ inst'[j].stage # "second" /\ (inst'[j].stage = "ended" => inst'[j].said = << >>)
                                /\ inst[j].said # << >> => inst'[j].said = inst[j].said
                                /\ Unsaid(j) /\ j \notin missed' => Unsaid(j)'
    PROVE  StatusInv'
<1> USE DEF StatusInv
<1>1. org.wf \in Instances \cup {0} /\ by \in Instances \cup {0} /\ \A d \in OrgCalls : orgCall[d].i \in Instances \cup {0}
    BY DEF OrgRows, OrgRow, OrgCall
<1>2. \A v : << v >> # << >>
    OBVIOUS
<1>3. OrgRows'
    <2>1. \A d \in OrgCalls : orgCall[d].at \in {"find", "sync"} =>
             orgCall[d].i \in Instances /\ inst[orgCall[d].i].said = << orgCall[d].verdict >>
        BY DEF OrgRows, OrgFits
    <2>2. \A d \in OrgCalls : orgCall[d].at \in {"find", "sync"} => inst'[orgCall[d].i].said = << orgCall[d].verdict >>
        BY <1>2, <2>1
    <2>3. QED BY <1>1, <2>2 DEF OrgRows
<1>4. ByInv'
    <2>1. \A d \in OrgCalls : Approves(d, by)' <=> Approves(d, by)
        BY DEF Approves
    <2>2. by # 0 /\ inst[by].said = << "approved" >> => inst'[by].said = << "approved" >>
        BY <1>1, <1>2
    <2>3. QED BY <2>1, <2>2 DEF ByInv
<1>5. OnceInv'
    <2>1. ASSUME NEW d \in OrgCalls, orgCall[d].at = "write", Unsaid(orgCall[d].i), orgCall[d].i \notin missed'
          PROVE  Unsaid(orgCall[d].i)'
        <3>1. PICK j \in Instances : j = orgCall[d].i
            BY <2>1 DEF OrgRows, OrgFits
        <3>2. Unsaid(j)'
            BY <2>1, <3>1
        <3>3. QED BY <3>1, <3>2 DEF Unsaid
    <2>2. QED BY <2>1 DEF OnceInv
<1>6. ProgressInv'
    <2>1. ASSUME org.wf # 0, Unsaid(org.wf), org.wf \notin missed' PROVE Unsaid(org.wf)'
        <3>1. PICK j \in Instances : j = org.wf
            BY <1>1, <2>1
        <3>2. Unsaid(j)'
            BY <2>1, <3>1
        <3>3. QED BY <3>1, <3>2 DEF Unsaid
    <2>2. \A d \in OrgCalls : Telling(d, org.wf)' <=> Telling(d, org.wf)
        BY DEF Telling
    <2>3. QED BY <2>1, <2>2 DEF ProgressInv
<1>7. QED BY <1>3, <1>4, <1>5, <1>6

LEMMA ExpiresKeeps == ASSUME StatusInv, RequestExpires PROVE StatusInv'
<1> USE DEF StatusInv
<1>1. PICK i \in Instances : EndInstance(i) /\ UNCHANGED << org, orgCall, asks, by, refused, missed >>
    BY DEF RequestExpires
<1>2. /\ InstInv' /\ inst[i].stage = "first" /\ inst[i].said = << >>
      /\ inst'[i].stage = "ended" /\ inst'[i].said = << >>
      /\ \A j \in Instances : j # i => inst'[j] = inst[j]
    BY <1>1, OnlyEnd
<1>3. \A j \in Instances : Unsaid(j) => Unsaid(j)'
    BY <1>2 DEF Unsaid
<1>4. QED BY <1>1, <1>2, <1>3, InServiceStays DEF OrgRows

\* A review in the service is missed here.
LEMMA OverruledKeeps == ASSUME StatusInv, RequestOverruled PROVE StatusInv'
<1> USE DEF StatusInv
<1>1. PICK i \in Instances, v \in Verdicts :
         CompleteReview(i, v, 1) /\ missed' = missed \cup {i} /\ UNCHANGED << org, orgCall, asks, by, refused >>
    BY DEF RequestOverruled
<1>2. /\ InstInv' /\ inst[i].stage = "first" /\ inst[i].said = << >> /\ inst'[i].stage = "over"
      /\ \A j \in Instances : j # i => inst'[j] = inst[j]
    BY <1>1, OnlyReview
<1>3. \A j \in Instances : j # i /\ Unsaid(j) => Unsaid(j)'
    BY <1>2 DEF Unsaid
<1>4. QED BY <1>1, <1>2, <1>3, InServiceStays DEF OrgRows

\* A restarted approval asks for what the old one asked for, and is nobody's.
LEMMA RestartedKeeps == ASSUME StatusInv, RequestRestarted PROVE StatusInv'
<1> USE DEF StatusInv
<1>1. PICK i \in Instances, old \in Instances :
         inst[old].stage = "ended" /\ StartInstance(i) /\ asks' = [asks EXCEPT ![i] = asks[old]]
    BY DEF RequestRestarted, RestartInstance
<1>2. UNCHANGED << org, orgCall, by, refused, missed >>
    BY DEF RequestRestarted
<1>3. /\ InstInv' /\ inst[i].stage = "none" /\ inst[i].said = << >> /\ inst'[i].stage = "first" /\ inst'[i].said = << >>
      /\ \A j \in Instances : j # i => inst'[j] = inst[j]
    BY <1>1, InstStarts DEF OrgRows
<1>4. asks[old] \in {"", "active", "inactive"} /\ asks[old] # ""
    BY <1>1 DEF OrgRows
<1>5. /\ asks' \in [Instances -> {"", "active", "inactive"}] /\ asks'[i] # ""
      /\ \A j \in Instances : j # i => asks'[j] = asks[j]
    BY <1>1, <1>4 DEF OrgRows
<1>6. \A j \in Instances : Unsaid(j) => Unsaid(j)'
    BY <1>3 DEF Unsaid
<1>7. \A j \in Instances : asks'[j] = "" <=> inst'[j].stage = "none"
    <2>1. \A j \in Instances : asks[j] = "" <=> inst[j].stage = "none"
        BY DEF OrgRows
    <2>2. ASSUME NEW j \in Instances PROVE asks'[j] = "" <=> inst'[j].stage = "none"
        <3>1. CASE j = i
            BY <3>1, <1>3, <1>5
        <3>2. CASE j # i
            BY <3>2, <2>1, <1>3, <1>5
        <3>3. QED BY <3>1, <3>2
    <2>3. QED BY <2>2
<1>8. ASSUME NEW j \in Instances
      PROVE  /\ inst[j].stage # "none" => inst'[j].stage # "none"
             /\ inst'[j].stage # "second" /\ (inst'[j].stage = "ended" => inst'[j].said = << >>)
             /\ inst[j].said # << >> => inst'[j].said = inst[j].said
    <2>1. inst[j].stage # "second" /\ (inst[j].stage = "ended" => inst[j].said = << >>)
        BY DEF OrgRows
    <2>2. CASE j = i
        BY <2>2, <1>3
    <2>3. CASE j # i
        BY <2>1, <2>3, <1>3
    <2>4. QED BY <2>2, <2>3
<1>9. missed \subseteq missed' /\ missed' \subseteq Instances
    BY <1>2 DEF OrgRows
<1>10. QED BY <1>2, <1>3, <1>5, <1>6, <1>7, <1>8, <1>9, InServiceStays

\* An approval starts; the request goes on to write it to the organization, or never hears of it.
LEMMA StartsKeeps == ASSUME StatusInv, NEW c \in OrgCalls, RequestStarts(c) PROVE StatusInv'
<1> USE DEF StatusInv
<1>1. PICK x \in OrgCall : x = orgCall[c] /\ x.at = "start" /\ x.i = 0 /\ x.status # ""
    BY DEF OrgRows, OrgFits, RequestStarts
<1>2. UNCHANGED << org, by, refused, missed >>
    BY DEF RequestStarts
<1>3. org \in OrgRow /\ by \in Instances \cup {0} /\ missed \subseteq Instances
    BY DEF OrgRows
<1>4. CASE Done(c) /\ UNCHANGED << inst, asks >>
    BY <1>1, <1>2, <1>3, <1>4, NoOrgCallFits, StatusQuiet DEF Done
<1>5. ASSUME NEW i \in Instances, StartInstance(i), asks' = [asks EXCEPT ![i] = x.status],
             NEW s \in OrgCall, OrgFits(s), orgCall' = [orgCall EXCEPT ![c] = s],
             s.at \in {"idle", "write"}, s.i \in {0, i}
      PROVE  StatusInv'
    <2>1. /\ InstInv' /\ inst[i].stage = "none" /\ inst[i].said = << >>
          /\ inst'[i].stage = "first" /\ inst'[i].said = << >>
          /\ \A j \in Instances : j # i => inst'[j] = inst[j]
        BY <1>5, InstStarts DEF OrgRows
    <2>2. /\ orgCall'[c] = s /\ \A d \in OrgCalls : d # c => orgCall'[d] = orgCall[d]
          /\ orgCall' \in [OrgCalls -> OrgCall] /\ \A d \in OrgCalls : OrgFits(orgCall'[d])
        BY <1>5, OrgCallChanges
    <2>3. org.wf \in Instances \cup {0} /\ org.wf # i /\ \A d \in OrgCalls : orgCall[d].i \in Instances \cup {0} /\ orgCall[d].i # i
        <3>1. /\ org.wf \in Instances \cup {0} /\ (org.wf # 0 => inst[org.wf].stage # "none")
              /\ \A d \in OrgCalls : orgCall[d].i \in Instances \cup {0} /\ (orgCall[d].i # 0 => inst[orgCall[d].i].stage # "none")
            BY DEF OrgRows, OrgRow, OrgCall
        <3>2. i # 0
            BY InstancesAreNumbered
        <3>3. QED BY <2>1, <3>1, <3>2
    <2>4. \A j \in Instances : j # i => (Unsaid(j) <=> Unsaid(j)')
        BY <2>1 DEF Unsaid
    <2>5. Unsaid(i)'
        BY <2>1 DEF Unsaid
    <2>6. OrgRows'
        <3>1. \A j \in Instances : inst'[j].stage # "second" /\ (inst'[j].stage = "ended" => inst'[j].said = << >>)
            <4>1. \A j \in Instances : inst[j].stage # "second" /\ (inst[j].stage = "ended" => inst[j].said = << >>)
                BY DEF OrgRows
            <4>2. QED BY <2>1, <4>1
        <3>2. org'.wf # 0 => inst'[org'.wf].stage # "none"
            BY <1>2, <2>1, <2>3 DEF OrgRows
        <3>3. ASSUME NEW d \in OrgCalls, orgCall'[d].i # 0 PROVE inst'[orgCall'[d].i].stage # "none"
            <4>1. CASE d = c
                <5>1. orgCall'[d].i = i
                    BY <2>2, <3>3, <4>1, <1>5
                <5>2. inst'[i].stage # "none"
                    BY <2>1
                <5>3. QED BY <5>1, <5>2
            <4>2. CASE d # c
                <5>1. orgCall'[d] = orgCall[d] /\ orgCall[d].i \in Instances /\ orgCall[d].i # i
                    BY <2>2, <2>3, <3>3, <4>2
                <5>2. inst[orgCall[d].i].stage # "none"
                    BY <3>3, <5>1 DEF OrgRows
                <5>3. inst'[orgCall[d].i] = inst[orgCall[d].i]
                    BY <2>1, <5>1
                <5>4. QED BY <5>1, <5>2, <5>3
            <4>3. QED BY <4>1, <4>2
        <3>4. ASSUME NEW d \in OrgCalls, orgCall'[d].at \in {"find", "sync"}
              PROVE  inst'[orgCall'[d].i].said = << orgCall'[d].verdict >>
            <4>1. d # c
                BY <1>5, <2>2, <3>4
            <4>2. /\ orgCall'[d] = orgCall[d] /\ orgCall[d].i \in Instances /\ orgCall[d].i # i
                  /\ inst[orgCall[d].i].said = << orgCall[d].verdict >>
                BY <2>2, <2>3, <3>4, <4>1 DEF OrgRows, OrgFits
            <4>3. QED BY <2>1, <4>2
        <3>5. x.status \in {"", "active", "inactive"}
            BY DEF OrgCall
        <3>6. asks' \in [Instances -> {"", "active", "inactive"}] /\ \A j \in Instances : asks'[j] = "" <=> inst'[j].stage = "none"
            <4>1. asks \in [Instances -> {"", "active", "inactive"}] /\ \A j \in Instances : asks[j] = "" <=> inst[j].stage = "none"
                BY DEF OrgRows
            <4>2. asks' \in [Instances -> {"", "active", "inactive"}] /\ asks'[i] = x.status /\ \A j \in Instances : j # i => asks'[j] = asks[j]
                <5>1. asks' = [asks EXCEPT ![i] = x.status]
                    BY <1>5
                <5>2. QED BY <3>5, <4>1, <5>1
            <4>3. asks'[i] # "" /\ inst'[i].stage # "none"
                BY <1>1, <2>1, <4>2
            <4>4. ASSUME NEW j \in Instances PROVE asks'[j] = "" <=> inst'[j].stage = "none"
                <5>1. CASE j = i
                    BY <4>3, <5>1
                <5>2. CASE j # i
                    <6>1. asks'[j] = asks[j] /\ inst'[j] = inst[j]
                        BY <2>1, <4>2, <5>2
                    <6>2. QED BY <4>1, <6>1
                <5>3. QED BY <5>1, <5>2
            <4>5. QED BY <4>2, <4>4
        <3>7. QED BY <1>2, <2>1, <2>2, <3>1, <3>2, <3>3, <3>4, <3>6 DEF OrgRows
    <2>7. ByInv'
        <3>1. PICK b \in Instances \cup {0} : b = by
            BY DEF OrgRows
        <3>2. ASSUME NEW d \in OrgCalls, Approves(d, b) PROVE Approves(d, b)'
            <4>1. d # c
                BY <1>1, <3>2 DEF Approves
            <4>2. QED BY <2>2, <3>2, <4>1 DEF Approves
        <3>3. b # 0 /\ inst[b].said = << "approved" >> => inst'[b].said = << "approved" >>
            <4>1. << "approved" >> # << >>
                OBVIOUS
            <4>2. QED BY <2>1, <3>1, <4>1
        <3>4. b # 0 => inst'[b].said = << "approved" >> \/ b \in refused' \/ \E d \in OrgCalls : Approves(d, b)'
            BY <1>2, <3>1, <3>2, <3>3 DEF ByInv
        <3>5. \A d \in OrgCalls : Approves(d, by)' <=> Approves(d, b)'
            BY <1>2, <3>1 DEF Approves
        <3>6. QED BY <1>2, <3>1, <3>4, <3>5 DEF ByInv
    <2>8. OnceInv'
        <3>1. ASSUME NEW d \in OrgCalls, orgCall'[d].at = "write"
              PROVE  /\ org'.wf # orgCall'[d].i
                     /\ \A e \in OrgCalls : e # d /\ orgCall'[e].i = orgCall'[d].i => orgCall'[e].at \in {"find", "sync"}
                     /\ orgCall'[d].i \notin missed' => Unsaid(orgCall[d].i)'
            <4>1. CASE d = c
                <5>1. orgCall'[d].i = i
                    <6>1. s.at = "write" /\ orgCall'[d] = s
                        BY <2>2, <3>1, <4>1
                    <6>2. s.i \in Instances /\ s.i # 0
                        BY <1>5, <6>1, InstancesAreNumbered DEF OrgFits
                    <6>3. QED BY <1>5, <6>1, <6>2
                <5>2. \A e \in OrgCalls : e # d => orgCall'[e].i # i
                    BY <2>2, <2>3, <4>1
                <5>3. Unsaid(orgCall[d].i)'
                    BY <2>5, <5>1 DEF Unsaid
                <5>4. QED BY <1>2, <2>3, <5>1, <5>2, <5>3
            <4>2. CASE d # c
                <5>1. orgCall'[d] = orgCall[d] /\ orgCall[d].at = "write" /\ orgCall[d].i \in Instances /\ orgCall[d].i # i
                    BY <2>2, <2>3, <3>1, <4>2 DEF OrgRows, OrgFits
                <5>2. /\ org.wf # orgCall[d].i
                      /\ \A e \in OrgCalls : e # d /\ orgCall[e].i = orgCall[d].i => orgCall[e].at \in {"find", "sync"}
                      /\ orgCall[d].i \notin missed => Unsaid(orgCall[d].i)
                    BY <5>1 DEF OnceInv
                <5>3. ASSUME NEW e \in OrgCalls, e # d, orgCall'[e].i = orgCall'[d].i PROVE orgCall'[e].at \in {"find", "sync"}
                    <6>1. e # c
                        BY <1>5, <2>2, <5>1, <5>3, InstancesAreNumbered
                    <6>2. QED BY <2>2, <5>1, <5>2, <5>3, <6>1
                <5>4. orgCall'[d].i \notin missed' => Unsaid(orgCall[d].i)'
                    <6>1. PICK j \in Instances : j = orgCall[d].i /\ j # i
                        BY <5>1
                    <6>2. j \notin missed' => Unsaid(j)'
                        BY <1>2, <2>4, <5>2, <6>1
                    <6>3. QED BY <5>1, <6>1, <6>2 DEF Unsaid
                <5>5. QED BY <1>2, <5>1, <5>2, <5>3, <5>4
            <4>3. QED BY <4>1, <4>2
        <3>2. \A d \in OrgCalls : orgCall'[d].at = "signal" => org'.wf # orgCall'[d].i
            BY <1>2, <1>5, <2>2 DEF OnceInv
        <3>3. QED BY <3>1, <3>2 DEF OnceInv
    <2>9. ProgressInv'
        <3>1. PICK w \in Instances \cup {0} : w = org.wf /\ w # i
            BY <2>3
        <3>2. \A d \in OrgCalls : Telling(d, w) => Telling(d, w)'
            BY <1>1, <2>2 DEF Telling
        <3>3. w # 0 /\ w \notin missed => Unsaid(w)' \/ \E d \in OrgCalls : Telling(d, w)'
            BY <2>4, <3>1, <3>2 DEF ProgressInv
        <3>4. \A d \in OrgCalls : Telling(d, org.wf)' <=> Telling(d, w)'
            BY <1>2, <3>1 DEF Telling
        <3>5. Unsaid(org.wf)' <=> Unsaid(w)'
            BY <1>2, <3>1 DEF Unsaid
        <3>6. QED BY <1>2, <3>1, <3>3, <3>4, <3>5 DEF ProgressInv
    <2>10. QED BY <2>6, <2>7, <2>8, <2>9
<1>6. ASSUME NEW i \in Instances, StartInstance(i), asks' = [asks EXCEPT ![i] = orgCall[c].status],
             orgCall' = [orgCall EXCEPT ![c].at = "write", ![c].i = i]
      PROVE  StatusInv'
    <2> DEFINE s == [x EXCEPT !.at = "write", !.i = i]
    <2>1. s \in OrgCall /\ s.at = "write" /\ s.i = i
        BY DEF OrgCall, OrgSteps
    <2>2. orgCall' = [orgCall EXCEPT ![c] = s]
        BY <1>1, <1>6
    <2> HIDE DEF s
    <2>3. OrgFits(s)
        BY <2>1 DEF OrgFits
    <2>4. QED BY <1>1, <1>5, <1>6, <2>1, <2>2, <2>3
<1>7. ASSUME NEW i \in Instances, StartInstance(i), asks' = [asks EXCEPT ![i] = orgCall[c].status], Done(c)
      PROVE  StatusInv'
    BY <1>1, <1>5, <1>7, NoOrgCallFits DEF Done
<1>8. QED BY <1>4, <1>6, <1>7 DEF RequestStarts

\* The approval is written to the organization: nobody else has it.
LEMMA WritesKeeps == ASSUME StatusInv, NEW c \in OrgCalls, RequestWrites(c) PROVE StatusInv'
<1> USE DEF StatusInv
<1>1. PICK i \in Instances : /\ orgCall[c].at = "write" /\ i = orgCall[c].i /\ inst[i].stage # "none"
                             /\ \A e \in OrgCalls : e # c /\ orgCall[e].i = i => orgCall[e].at \in {"find", "sync"}
                             /\ i \notin missed => Unsaid(i)
    <2>1. orgCall[c].at = "write"
        BY DEF RequestWrites
    <2>2. orgCall[c].i \in Instances /\ inst[orgCall[c].i].stage # "none"
        BY <2>1, InstancesAreNumbered DEF OrgRows, OrgFits
    <2>3. QED BY <2>1, <2>2 DEF OnceInv
<1>2. UNCHANGED << inst, asks, by, refused, missed >> /\ org' = [org EXCEPT !.wf = i] /\ orgCall' = [orgCall EXCEPT ![c] = NoOrgCall]
    BY <1>1 DEF RequestWrites, Done
<1>3. org' \in OrgRow /\ org'.wf = i
    BY <1>2 DEF OrgRows, OrgRow
<1>4. /\ orgCall'[c] = NoOrgCall /\ \A d \in OrgCalls : d # c => orgCall'[d] = orgCall[d]
      /\ orgCall' \in [OrgCalls -> OrgCall] /\ \A d \in OrgCalls : OrgFits(orgCall'[d])
    BY <1>2, NoOrgCallFits, OrgCallChanges
<1>5. OrgRows'
    <2>1. InstInv'
        BY <1>2 DEF OrgRows, InstInv
    <2>2. \A d \in OrgCalls : orgCall'[d].i # 0 => inst[orgCall'[d].i].stage # "none"
        BY <1>4, NoOrgCallFits DEF OrgRows
    <2>3. \A d \in OrgCalls : orgCall'[d].at \in {"find", "sync"} => inst[orgCall'[d].i].said = << orgCall'[d].verdict >>
        BY <1>4, NoOrgCallFits DEF OrgRows
    <2>4. QED BY <1>1, <1>2, <1>3, <1>4, <2>1, <2>2, <2>3 DEF OrgRows
<1>6. ByInv'
    <2>1. PICK b : b = by
        OBVIOUS
    <2>2. \A d \in OrgCalls : Approves(d, b) => Approves(d, b)'
        BY <1>1, <1>4 DEF Approves
    <2>3. \A d \in OrgCalls : Approves(d, by)' <=> Approves(d, b)'
        BY <1>2, <2>1 DEF Approves
    <2>4. QED BY <1>2, <2>1, <2>2, <2>3 DEF ByInv
<1>7. OnceInv'
    <2>1. \A d \in OrgCalls : orgCall'[d].at \in {"write", "signal"} =>
             d # c /\ orgCall'[d] = orgCall[d] /\ orgCall[d].i \in Instances /\ orgCall[d].i # i
        BY <1>1, <1>4, NoOrgCallFits DEF OrgRows, OrgFits
    <2>2. ASSUME NEW d \in OrgCalls, orgCall'[d].at = "write"
          PROVE  /\ \A e \in OrgCalls : e # d /\ orgCall'[e].i = orgCall'[d].i => orgCall'[e].at \in {"find", "sync"}
                 /\ orgCall'[d].i \notin missed' => Unsaid(orgCall[d].i)'
        <3>1. orgCall'[d] = orgCall[d] /\ orgCall[d].at = "write" /\ orgCall[d].i \in Instances
            BY <2>1, <2>2
        <3>2. /\ \A e \in OrgCalls : e # d /\ orgCall[e].i = orgCall[d].i => orgCall[e].at \in {"find", "sync"}
              /\ orgCall[d].i \notin missed => Unsaid(orgCall[d].i)
            BY <3>1 DEF OnceInv
        <3>3. \A e \in OrgCalls : e # d /\ orgCall'[e].i = orgCall'[d].i => orgCall'[e].at \in {"find", "sync"}
            BY <1>4, <3>1, <3>2, NoOrgCallFits, InstancesAreNumbered
        <3>4. QED BY <1>2, <3>1, <3>2, <3>3 DEF Unsaid
    <2>3. QED BY <1>3, <2>1, <2>2 DEF OnceInv
<1>8. ProgressInv'
    BY <1>1, <1>2, <1>3 DEF ProgressInv, Unsaid
<1>9. QED BY <1>5, <1>6, <1>7, <1>8

LEMMA StatusInvNext == StatusInv /\ [StatusNext]_<< inst, orgVars >> => StatusInv'
<1> SUFFICES ASSUME StatusInv, [StatusNext]_<< inst, orgVars >> PROVE StatusInv'
    OBVIOUS
<1>1. CASE UNCHANGED << inst, orgVars >>
    <2>1. UNCHANGED << inst, org, orgCall, asks, by, refused, missed >>
        BY <1>1 DEF orgVars
    <2>2. OrgRows'
        BY <2>1 DEF StatusInv, OrgRows, InstInv
    <2>3. ByInv' /\ OnceInv' /\ ProgressInv'
        BY <2>1 DEF StatusInv, ByInv, OnceInv, ProgressInv, Approves, Telling, Unsaid
    <2>4. QED BY <2>2, <2>3 DEF StatusInv
<1>2. CASE RequestExpires
    BY <1>2, ExpiresKeeps
<1>3. CASE ManagerSets
    BY <1>3, SetsKeeps
<1>4. ASSUME NEW c \in OrgCalls, OwnerAsks(c) \/ OwnerWithdraws(c) \/ ManagerDecides(c) PROVE StatusInv'
    BY <1>4, OwnerKeeps
<1>5. ASSUME NEW c \in OrgCalls, RequestStarts(c) PROVE StatusInv'
    BY <1>5, StartsKeeps
<1>6. ASSUME NEW c \in OrgCalls, RequestWrites(c) PROVE StatusInv'
    BY <1>6, WritesKeeps
<1>7. ASSUME NEW c \in OrgCalls, WithdrawCancels(c) PROVE StatusInv'
    <2>1. \/ EndInstance(orgCall[c].i) /\ Closes(orgCall[c].i, c)
          \/ UNCHANGED << inst, missed >>
        BY <1>7 DEF WithdrawCancels
    <2>2. QED BY <1>7, <2>1, LooksKeeps, EndsKeeps
<1>8. ASSUME NEW c \in OrgCalls, WithdrawClears(c) \/ DecisionLooks(c) \/ DecisionClears(c) \/ RequestFinds(c) PROVE StatusInv'
    BY <1>8, LooksKeeps
<1>9. ASSUME NEW c \in OrgCalls, DecisionApplies(c) \/ RequestSyncs(c) PROVE StatusInv'
    BY <1>9, AppliesKeeps
<1>10. ASSUME NEW c \in OrgCalls, DecisionSignals(c) \/ RequestDecided(c) PROVE StatusInv'
    BY <1>10, EndsKeeps
<1>11. CASE RequestOverruled \/ RequestRestarted
    BY <1>11, OverruledKeeps, RestartedKeeps
<1>12. QED BY <1>1, <1>2, <1>3, <1>4, <1>5, <1>6, <1>7, <1>8, <1>9, <1>10, <1>11 DEF StatusNext

\* An organization gets the status of a request that was approved, or that the service refused to know any more; an
\* approval in progress has its task, or has expired or been cancelled in the service, unless it was closed while a
\* request about it was under way or by a review in the service.
THEOREM OrganizationsHold ==
    InstInit /\ StatusInit /\ [][StatusNext]_<< inst, orgVars >> => [](StatusTypeOK /\ StatusRequestsHold)
<1>1. InstInit /\ StatusInit => StatusInv
    BY StatusInvInit
<1>2. StatusInv /\ [StatusNext]_<< inst, orgVars >> => StatusInv'
    BY StatusInvNext
<1>3. StatusInv => StatusTypeOK /\ StatusRequestsHold
    BY StatusInvShows
<1>4. QED BY <1>1, <1>2, <1>3, PTL

-----------------------------------------------------------------------------
(* Changes of an employee's own data                                        *)

RequestRow == [status : RequestStatuses, wf : Instances \cup {0}, content : Data]
AskCall == [at : AskSteps, r : Requests \cup {0}, i : Instances \cup {0}, content : Data, verdict : Verdicts \cup {""}]
StreamEntry == [type : {"Terminated", "Restarted"}, i : Instances, from : Instances \cup {0}]
Reviewed == {"find", "copy", "stamp", "deny"}

\* What a call holds, by what it is at.
AskFits(s) ==
    /\ s.at = "idle" => s = NoAskCall
    /\ s.at \in {"idle", "create"} <=> s.r = 0
    /\ s.at = "write" => s.i \in Instances
    /\ s.at \in Reviewed => s.verdict \in Verdicts
    /\ s.at \in {"copy", "stamp"} => s.verdict = "approved"
    /\ s.at = "deny" => s.verdict # "approved"

\* Approvals are numbered in the order they are started; one of one review never waits for a second.
AboutRows ==
    /\ InstInv
    /\ \A i \in Instances : inst[i].stage # "second" /\ (inst[i].stage = "ended" => inst[i].said = << >>)
    /\ about \in [Instances -> Requests \cup {0}] /\ \A i \in Instances : about[i] = 0 <=> inst[i].stage = "none"
    /\ \A i, j \in Instances : j < i /\ about[i] # 0 => about[j] # 0

\* Requests are numbered in the order they are made, and name approvals about themselves.
RequestRows ==
    /\ request \in [Requests -> RequestRow] /\ profile \in Data /\ patched \subseteq Fields
    /\ \A r \in Requests : request[r].wf # 0 => about[request[r].wf] = r
    /\ \A q, r \in Requests : q < r /\ request[r].status # "none" => request[q].status # "none"
    /\ \A i \in Instances : about[i] # 0 => request[about[i]].status # "none"
    /\ astray \subseteq Requests /\ amended \subseteq Requests /\ doubled \in BOOLEAN

AskRows ==
    /\ askCall \in [AskCalls -> AskCall] /\ \A c \in AskCalls : AskFits(askCall[c])
    /\ \A c \in AskCalls : askCall[c].r # 0 => request[askCall[c].r].status # "none"
    /\ \A c \in AskCalls : askCall[c].at = "write" => about[askCall[c].i] = askCall[c].r

\* What an entry of the stream names was started.
StreamRows ==
    /\ stream \in Seq(StreamEntry) /\ Len(stream) <= MaxEvents /\ seen \in 0..Len(stream)
    /\ \A n \in DOMAIN stream :
          /\ about[stream[n].i] # 0
          /\ stream[n].type = "Restarted" =>
                stream[n].from \in Instances /\ about[stream[n].from] = about[stream[n].i] /\ doubled

ProfileRows == AboutRows /\ RequestRows /\ AskRows /\ StreamRows

\* One call at a time makes a request, and only while none is pending: the pending one is the last.
PendingInv ==
    ~doubled =>
       /\ \A r \in PendingRequests : \A q \in Requests : q > r => request[q].status = "none"
       /\ \A c \in AskCalls : askCall[c].at = "create" =>
             PendingRequests = {} /\ \A d \in AskCalls : askCall[d].at = "create" => d = c

AskAt(c, r, steps) == askCall[c].r = r /\ askCall[c].at \in steps
Unseen(n, r) == n > seen /\ about[stream[n].i] = r
Newest(i, r) == about[i] = r /\ \A j \in Instances : about[j] = r => j <= i

\* A request whose approval is being started: nothing else has happened to it.
StartingInv(r) ==
    /\ \A c \in AskCalls : AskAt(c, r, {"start"}) => \A i \in Instances : about[i] # r
    /\ \A c \in AskCalls : AskAt(c, r, {"write"}) =>
          inst[askCall[c].i].stage = "first" /\ Newest(askCall[c].i, r)
    /\ \A c \in AskCalls : AskAt(c, r, {"start", "write"}) =>
          /\ request[r].status = "PENDING" /\ request[r].wf = 0
          /\ \A n \in DOMAIN stream : ~Unseen(n, r)
          /\ \A d \in AskCalls : AskAt(d, r, {"start", "write"} \cup Reviewed) => d = c

\* A request whose approval was reviewed, and the call that tells it.
ReviewedInv(r) ==
    \A c \in AskCalls : AskAt(c, r, Reviewed) =>
       /\ request[r].status = "PENDING" /\ request[r].wf # 0 /\ inst[request[r].wf].said = << askCall[c].verdict >>
       /\ inst[request[r].wf].stage = "over"
       /\ \A n \in DOMAIN stream : ~Unseen(n, r)
       /\ \A d \in AskCalls : AskAt(d, r, Reviewed) => d = c

\* The approval a request names is its last, unless the entry that says so is still to be read; the entry that says
\* it was terminated comes before that.
NamesInv(r) ==
    request[r].wf # 0 =>
       /\ (\A n \in DOMAIN stream : Unseen(n, r) => stream[n].type = "Terminated") => Newest(request[r].wf, r)
       /\ \A n \in DOMAIN stream : Unseen(n, r) /\ stream[n].type = "Restarted" =>
             /\ Newest(stream[n].i, r) /\ inst[stream[n].i].stage = "first"
             /\ request[r].wf = stream[n].from \/ (request[r].wf = stream[n].i /\ request[r].status = "PENDING")
             /\ \A m \in DOMAIN stream : Unseen(m, r) => m <= n
       /\ \A n \in DOMAIN stream : Unseen(n, r) /\ stream[n].type = "Terminated" =>
             /\ request[r].wf = stream[n].i /\ inst[stream[n].i].stage = "ended"
             /\ request[r].status \in {"PENDING", "CANCELLED"}
             /\ \A m \in DOMAIN stream : Unseen(m, r) => m >= n
       /\ (\A n \in DOMAIN stream : ~Unseen(n, r)) /\ (\A c \in AskCalls : ~AskAt(c, r, Reviewed)) =>
             /\ request[r].status = "PENDING" <=> OpenTask(request[r].wf)
             /\ request[r].status = "APPROVED" => inst[request[r].wf].said = << "approved" >>

\* What holds of a request that did not go astray.
OneRequestInv(r) ==
    /\ request[r].status # "none" /\ request[r].wf = 0 => \E c \in AskCalls : AskAt(c, r, {"start", "write"})
    /\ \A i, j \in Instances : about[i] = r /\ about[j] = r /\ i < j => inst[i].stage = "ended"
    /\ StartingInv(r) /\ ReviewedInv(r) /\ NamesInv(r)

RequestsInv == \A r \in Requests \ astray : OneRequestInv(r)

\* What a request sets is copied to the profile as it stands, and the request is then approved.  A later request that
\* is approved, or about to be, may say otherwise, and so may an edit of the employee.
Clean == astray \cup amended = {} /\ ~doubled
Overwrites(q, f) == (request[q].status = "APPROVED" \/ \E c \in AskCalls : AskAt(c, q, {"stamp"})) /\ request[q].content[f] # 0

CopiedInv ==
    Clean =>
       /\ \A c \in AskCalls : askCall[c].at \in {"copy", "stamp"} => askCall[c].content = request[askCall[c].r].content
       /\ \A c \in AskCalls, f \in Fields \ patched :
             askCall[c].at = "stamp" /\ askCall[c].content[f] # 0 => profile[f] = askCall[c].content[f]
       /\ \A r \in Requests, f \in Fields \ patched :
             request[r].status = "APPROVED" /\ request[r].content[f] # 0 /\ (\A q \in Requests : q > r => ~Overwrites(q, f))
             => profile[f] = request[r].content[f]

ProfileInv == ProfileRows /\ PendingInv /\ RequestsInv /\ CopiedInv

LEMMA NoAskCallFits ==
    /\ NoAskCall \in AskCall /\ AskFits(NoAskCall)
    /\ NoAskCall.at = "idle" /\ NoAskCall.r = 0 /\ NoAskCall.i = 0 /\ NoAskCall.content \in Data /\ NoAskCall.verdict = ""
<1>1. NoData \in Data
    BY DEF NoData, Data
<1>2. QED BY <1>1 DEF NoAskCall, AskCall, AskFits, AskSteps, Reviewed

LEMMA ProfileInvInit == InstInit /\ ProfileInit => ProfileInv
<1> SUFFICES ASSUME InstInit, ProfileInit PROVE ProfileInv
    OBVIOUS
<1>1. askCall \in [AskCalls -> AskCall] /\ \A c \in AskCalls : askCall[c] = NoAskCall
    BY NoAskCallFits DEF ProfileInit
<1>2. request \in [Requests -> RequestRow] /\ \A r \in Requests : request[r].status = "none" /\ request[r].wf = 0
    <2>1. NoData \in Data
        BY DEF NoData, Data
    <2>2. QED BY <2>1 DEF ProfileInit, RequestRow, RequestStatuses
<1>3. about \in [Instances -> Requests \cup {0}] /\ \A i \in Instances : about[i] = 0 /\ inst[i].stage = "none"
    BY DEF ProfileInit, InstInit, Unstarted
<1>4. stream = << >> /\ seen = 0 /\ DOMAIN stream = {} /\ stream \in Seq(StreamEntry) /\ Len(stream) = 0
    BY DEF ProfileInit
<1>5. profile \in Data /\ patched = {} /\ astray = {} /\ doubled = FALSE /\ amended = {}
    BY DEF ProfileInit, NoData, Data
<1>6. AboutRows
    BY <1>3, InstInvInit DEF AboutRows
<1>7. RequestRows
    BY <1>2, <1>3, <1>5 DEF RequestRows
<1>8. AskRows
    BY <1>1, NoAskCallFits DEF AskRows
<1>9. StreamRows
    BY <1>4, ProfileAssumptions DEF StreamRows
<1>10. PendingInv
    BY <1>1, <1>2, NoAskCallFits DEF PendingInv, PendingRequests
<1>11. RequestsInv
    <2>1. ASSUME NEW r \in Requests PROVE OneRequestInv(r)
        <3>1. \A c \in AskCalls : \A steps : steps \subseteq {"start", "write"} \cup Reviewed => ~AskAt(c, r, steps)
            BY <1>1, NoAskCallFits DEF AskAt, Reviewed
        <3>2. \A c \in AskCalls : ~AskAt(c, r, {"start"}) /\ ~AskAt(c, r, {"write"}) /\ ~AskAt(c, r, {"start", "write"}) /\ ~AskAt(c, r, Reviewed)
            BY <3>1
        <3>3. StartingInv(r) /\ ReviewedInv(r)
            BY <3>2 DEF StartingInv, ReviewedInv
        <3>4. NamesInv(r)
            BY <1>2 DEF NamesInv
        <3>5. \A i \in Instances : about[i] # r
            BY <1>3, ProfileAssumptions
        <3>6. QED BY <1>2, <3>3, <3>4, <3>5 DEF OneRequestInv
    <2>2. QED BY <2>1 DEF RequestsInv
<1>12. CopiedInv
    BY <1>1, <1>2, NoAskCallFits DEF CopiedInv
<1>13. QED BY <1>6, <1>7, <1>8, <1>9, <1>10, <1>11, <1>12 DEF ProfileInv, ProfileRows

LEMMA ProfileInvShows == ProfileInv => ProfileTypeOK /\ ProfileUpdatesHold
<1> SUFFICES ASSUME ProfileInv PROVE ProfileTypeOK /\ ProfileUpdatesHold
    OBVIOUS
<1> USE DEF ProfileInv, ProfileRows
<1>1. \A i \in Instances : inst[i].stage = "none" <=> inst[i] = Unstarted
    BY InstUnstarted DEF AboutRows
<1>2. ProfileTypeOK
    <2>1. \A r \in Requests : request[r].status \in RequestStatuses /\ request[r].wf \in Instances \cup {0}
        BY DEF RequestRows, RequestRow
    <2>2. \A c \in AskCalls : askCall[c].at \in AskSteps /\ (askCall[c].at = "idle" => askCall[c] = NoAskCall)
        BY DEF AskRows, AskCall, AskFits
    <2>3. \A i \in Instances : about[i] = 0 <=> inst[i] = Unstarted
        BY <1>1 DEF AboutRows
    <2>4. QED BY <2>1, <2>2, <2>3 DEF ProfileTypeOK, RequestRows, StreamRows
<1>3. ASSUME ~doubled PROVE Cardinality(PendingRequests) <= 1
    <2>1. \A q, r \in PendingRequests : q = r
        <3>1. ASSUME NEW q \in PendingRequests, NEW r \in PendingRequests PROVE q = r
            <4>1. q \in Requests /\ r \in Requests /\ request[q].status # "none" /\ request[r].status # "none"
                BY DEF PendingRequests
            <4>2. ~(q > r) /\ ~(r > q)
                BY <1>3, <4>1 DEF PendingInv
            <4>3. QED BY <4>1, <4>2, ProfileAssumptions
        <3>2. QED BY <3>1
    <2>2. CASE PendingRequests = {}
        BY <2>2, FS_EmptySet
    <2>3. ASSUME NEW r \in PendingRequests PROVE Cardinality(PendingRequests) = 1
        <3>1. PendingRequests = {r}
            BY <2>1, <2>3
        <3>2. QED BY <3>1, FS_Singleton
    <2>4. QED BY <2>2, <2>3
<1>4. ASSUME Drained, NEW r \in Requests \ astray, request[r].status # "none", ~Busy(r)
      PROVE  /\ request[r].wf # 0
             /\ request[r].status = "PENDING" <=> OpenTask(request[r].wf)
             /\ request[r].status = "APPROVED" => Said(request[r].wf, << "approved" >>)
    <2>1. \A c \in AskCalls : \A steps : ~AskAt(c, r, steps)
        BY <1>4 DEF AskAt, Busy
    <2>2. request[r].wf # 0
        BY <1>4, <2>1 DEF RequestsInv, OneRequestInv
    <2>3. \A n \in DOMAIN stream : ~Unseen(n, r)
        BY <1>4 DEF Drained, Unseen, StreamRows
    <2>4. \A c \in AskCalls : ~AskAt(c, r, Reviewed)
        BY <2>1
    <2>5. NamesInv(r)
        BY DEF RequestsInv, OneRequestInv
    <2>6. QED BY <2>2, <2>3, <2>4, <2>5 DEF NamesInv, Said
<1>5. ASSUME astray \cup amended = {}, ~doubled, NEW r \in Requests, NEW f \in Fields \ patched,
             request[r].status = "APPROVED", request[r].content[f] # 0,
             \A q \in Requests : q > r => (request[q].status # "APPROVED" \/ request[q].content[f] = 0) /\ ~Busy(q)
      PROVE  profile[f] = request[r].content[f]
    <2>1. \A q \in Requests, c \in AskCalls : AskAt(c, q, {"stamp"}) => Busy(q)
        BY DEF AskAt, Busy
    <2>2. \A q \in Requests : q > r => ~Overwrites(q, f)
        BY <1>5, <2>1 DEF Overwrites
    <2>3. QED BY <1>5, <2>2 DEF CopiedInv, Clean
<1>6. QED BY <1>2, <1>3, <1>4, <1>5 DEF ProfileUpdatesHold

-----------------------------------------------------------------------------
\* What a step leaves alone of a request, its approvals and the entries about it.
Untouched(r) ==
    /\ request'[r].status = request[r].status /\ request'[r].wf = request[r].wf
    /\ \A i \in Instances : about'[i] = r <=> about[i] = r
    /\ \A i \in Instances : about[i] = r => inst'[i] = inst[i]
    /\ \A n \in DOMAIN stream : n > seen /\ about[stream[n].i] = r =>
          n \in DOMAIN stream' /\ n > seen' /\ stream'[n] = stream[n]
    /\ \A n \in DOMAIN stream' : n > seen' /\ about'[stream'[n].i] = r =>
          n \in DOMAIN stream /\ n > seen /\ stream'[n] = stream[n]
    /\ \A c \in AskCalls : askCall[c].r = r \/ askCall'[c].r = r =>
          \/ askCall[c].at \notin {"start", "write"} \cup Reviewed /\ askCall'[c].at \notin {"start", "write"} \cup Reviewed
          \/ /\ askCall'[c].r = r /\ askCall[c].r = r /\ askCall'[c].i = askCall[c].i /\ askCall'[c].verdict = askCall[c].verdict
             /\ askCall'[c].at = askCall[c].at \/ {askCall[c].at, askCall'[c].at} \subseteq Reviewed

LEMMA EntryRow == ASSUME NEW s \in Seq(StreamEntry), NEW n \in DOMAIN s PROVE s[n] \in StreamEntry /\ s[n].i \in Instances
<1>1. s[n] \in StreamEntry
    OBVIOUS
<1>2. \A e \in StreamEntry : e.i \in Instances
    BY DEF StreamEntry
<1>3. QED BY <1>1, <1>2

LEMMA UntouchedKeeps ==
    ASSUME ProfileRows, StreamRows', NEW r \in Requests, OneRequestInv(r), Untouched(r)
    PROVE  OneRequestInv(r)'
<1> USE DEF ProfileRows
<1>1. PICK a, w : a = request[r].status /\ w = request[r].wf /\ request'[r].status = a /\ request'[r].wf = w
    BY DEF Untouched
<1>2. \A i \in Instances : (about'[i] = r <=> about[i] = r) /\ (about[i] = r => inst'[i] = inst[i])
    BY DEF Untouched
<1>3. \A i \in Instances : Newest(i, r)' <=> Newest(i, r)
    BY <1>2 DEF Newest
<1>4. \A n \in DOMAIN stream : stream[n].i \in Instances
    BY EntryRow DEF StreamRows
<1>5. \A n \in DOMAIN stream' : stream'[n].i \in Instances
    BY EntryRow DEF StreamRows
<1>6. \A n \in DOMAIN stream : Unseen(n, r) => n \in DOMAIN stream' /\ stream'[n] = stream[n] /\ Unseen(n, r)'
    BY <1>2, <1>4 DEF Untouched, Unseen
<1>7. \A n \in DOMAIN stream' : Unseen(n, r)' => n \in DOMAIN stream /\ stream'[n] = stream[n] /\ Unseen(n, r)
    BY <1>2, <1>5 DEF Untouched, Unseen
<1>8. ASSUME NEW c \in AskCalls
      PROVE  /\ AskAt(c, r, {"start"})' <=> AskAt(c, r, {"start"})
             /\ AskAt(c, r, {"write"})' <=> AskAt(c, r, {"write"})
             /\ AskAt(c, r, Reviewed)' <=> AskAt(c, r, Reviewed)
             /\ AskAt(c, r, {"start", "write"})' <=> AskAt(c, r, {"start", "write"})
             /\ AskAt(c, r, {"start", "write"} \cup Reviewed)' <=> AskAt(c, r, {"start", "write"} \cup Reviewed)
             /\ AskAt(c, r, {"start", "write"} \cup Reviewed) =>
                   askCall'[c].i = askCall[c].i /\ askCall'[c].verdict = askCall[c].verdict
    BY DEF Untouched, AskAt, Reviewed
<1>9. StartingInv(r)'
    <2>1. StartingInv(r)
        BY DEF OneRequestInv
    <2>2. \A c \in AskCalls : AskAt(c, r, {"start"})' => \A i \in Instances : about'[i] # r
        BY <1>2, <1>8, <2>1 DEF StartingInv
    <2>3. ASSUME NEW c \in AskCalls, AskAt(c, r, {"write"})'
          PROVE  inst'[askCall'[c].i].stage = "first" /\ Newest(askCall[c].i, r)'
        <3>1. /\ AskAt(c, r, {"write"}) /\ askCall'[c].i = askCall[c].i /\ askCall[c].i \in Instances
            <4>1. AskAt(c, r, {"write"})
                BY <1>8, <2>3
            <4>2. AskAt(c, r, {"start", "write"} \cup Reviewed)
                BY <4>1 DEF AskAt
            <4>3. askCall[c].i \in Instances
                BY <4>1 DEF AskAt, AskRows, AskFits
            <4>4. QED BY <1>8, <4>1, <4>2, <4>3
        <3>2. inst[askCall[c].i].stage = "first" /\ Newest(askCall[c].i, r)
            BY <2>1, <3>1 DEF StartingInv
        <3>3. PICK i \in Instances : i = askCall[c].i
            BY <3>1
        <3>4. Newest(i, r)' /\ about[i] = r
            BY <1>3, <3>2, <3>3 DEF Newest
        <3>5. QED BY <1>2, <3>1, <3>2, <3>3, <3>4 DEF Newest
    <2>4. \A c \in AskCalls : AskAt(c, r, {"start", "write"})' =>
              /\ a = "PENDING" /\ w = 0
              /\ \A n \in DOMAIN stream' : ~Unseen(n, r)'
              /\ \A d \in AskCalls : AskAt(d, r, {"start", "write"} \cup Reviewed)' => d = c
        BY <1>1, <1>7, <1>8, <2>1 DEF StartingInv
    <2>5. QED BY <1>1, <2>2, <2>3, <2>4 DEF StartingInv
<1>10. w # 0 => w \in Instances /\ about[w] = r /\ inst'[w] = inst[w]
    BY <1>1, <1>2 DEF RequestRows, RequestRow
<1>11. ReviewedInv(r)'
    <2>1. ReviewedInv(r)
        BY DEF OneRequestInv
    <2>2. ASSUME NEW c \in AskCalls, AskAt(c, r, Reviewed)'
          PROVE  /\ a = "PENDING" /\ w # 0 /\ inst'[w].said = << askCall'[c].verdict >> /\ inst'[w].stage = "over"
                 /\ \A n \in DOMAIN stream' : ~Unseen(n, r)'
                 /\ \A d \in AskCalls : AskAt(d, r, Reviewed)' => d = c
        <3>1. AskAt(c, r, Reviewed) /\ askCall'[c].verdict = askCall[c].verdict
            <4>1. AskAt(c, r, Reviewed)
                BY <1>8, <2>2
            <4>2. AskAt(c, r, {"start", "write"} \cup Reviewed)
                BY <4>1 DEF AskAt
            <4>3. QED BY <1>8, <4>1, <4>2
        <3>2. QED BY <1>1, <1>7, <1>8, <1>10, <2>1, <3>1 DEF ReviewedInv
    <2>3. QED BY <1>1, <2>2 DEF ReviewedInv
<1>12. NamesInv(r)'
    <2>1. CASE w = 0
        BY <1>1, <2>1 DEF NamesInv
    <2>2. CASE w # 0
        <3>1. NamesInv(r) /\ request[r].wf # 0
            BY <1>1, <2>2 DEF OneRequestInv
        <3>2. (\A n \in DOMAIN stream' : Unseen(n, r)' => stream'[n].type = "Terminated") => Newest(w, r)'
            BY <1>1, <1>3, <1>6, <1>10, <3>1 DEF NamesInv
        <3>3. ASSUME NEW n \in DOMAIN stream', Unseen(n, r)', stream'[n].type = "Restarted"
              PROVE  /\ Newest(stream[n].i, r)' /\ inst'[stream'[n].i].stage = "first"
                     /\ w = stream'[n].from \/ (w = stream'[n].i /\ a = "PENDING")
                     /\ \A m \in DOMAIN stream' : Unseen(m, r)' => m <= n
            <4>1. n \in DOMAIN stream /\ stream'[n] = stream[n] /\ Unseen(n, r)
                BY <1>7, <3>3
            <4>2. PICK i \in Instances : i = stream[n].i
                BY <1>4, <4>1
            <4>3. /\ Newest(i, r) /\ inst[i].stage = "first" /\ (w = stream[n].from \/ (w = i /\ a = "PENDING"))
                  /\ \A m \in DOMAIN stream : Unseen(m, r) => m <= n
                BY <1>1, <3>1, <3>3, <4>1, <4>2 DEF NamesInv
            <4>4. Newest(i, r)' /\ inst'[i] = inst[i]
                BY <1>2, <1>3, <4>3 DEF Newest
            <4>5. Newest(stream[n].i, r)'
                BY <4>1, <4>2, <4>4 DEF Newest
            <4>6. QED BY <1>7, <4>1, <4>2, <4>3, <4>4, <4>5
        <3>4. ASSUME NEW n \in DOMAIN stream', Unseen(n, r)', stream'[n].type = "Terminated"
              PROVE  /\ w = stream'[n].i /\ inst'[stream'[n].i].stage = "ended"
                     /\ a \in {"PENDING", "CANCELLED"}
                     /\ \A m \in DOMAIN stream' : Unseen(m, r)' => m >= n
            <4>1. n \in DOMAIN stream /\ stream'[n] = stream[n] /\ Unseen(n, r)
                BY <1>7, <3>4
            <4>2. /\ w = stream[n].i /\ inst[stream[n].i].stage = "ended" /\ a \in {"PENDING", "CANCELLED"}
                  /\ \A m \in DOMAIN stream : Unseen(m, r) => m >= n
                BY <1>1, <3>1, <3>4, <4>1 DEF NamesInv
            <4>3. QED BY <1>7, <1>10, <2>2, <4>1, <4>2
        <3>5. (\A n \in DOMAIN stream' : ~Unseen(n, r)') /\ (\A c \in AskCalls : ~AskAt(c, r, Reviewed)') =>
                 (a = "PENDING" <=> OpenTask(w)') /\ (a = "APPROVED" => inst'[w].said = << "approved" >>)
            <4>1. OpenTask(w)' <=> OpenTask(w)
                BY <1>10, <2>2 DEF OpenTask
            <4>2. OpenTask(w) <=> OpenTask(request[r].wf)
                BY <1>1
            <4>3. QED BY <1>1, <1>6, <1>8, <1>10, <2>2, <3>1, <4>1, <4>2 DEF NamesInv
        <3>6. OpenTask(request[r].wf)' <=> OpenTask(w)'
            BY <1>1 DEF OpenTask
        <3>7. Newest(request[r].wf, r)' <=> Newest(w, r)'
            BY <1>1 DEF Newest
        <3>8. QED BY <1>1, <3>2, <3>3, <3>4, <3>5, <3>6, <3>7 DEF NamesInv
    <2>3. QED BY <2>1, <2>2
<1>13. request'[r].status # "none" /\ request'[r].wf = 0 => \E c \in AskCalls : AskAt(c, r, {"start", "write"})'
    BY <1>1, <1>8 DEF OneRequestInv
<1>14. \A i, j \in Instances : about'[i] = r /\ about'[j] = r /\ i < j => inst'[i].stage = "ended"
    BY <1>2 DEF OneRequestInv
<1>15. QED BY <1>9, <1>11, <1>12, <1>13, <1>14 DEF OneRequestInv

LEMMA AskChanges ==
    ASSUME AskRows, NEW c \in AskCalls, NEW s \in AskCall, askCall' = [askCall EXCEPT ![c] = s]
    PROVE  /\ askCall'[c] = s /\ \A d \in AskCalls : d # c => askCall'[d] = askCall[d]
           /\ AskFits(s) => askCall' \in [AskCalls -> AskCall] /\ \A d \in AskCalls : AskFits(askCall'[d])
BY DEF AskRows

\* A step of a request that leaves the approvals, the stream and the number of requests alone.
LEMMA StepRows ==
    ASSUME ProfileRows, NEW c \in AskCalls, NEW s \in AskCall, AskFits(s), askCall' = [askCall EXCEPT ![c] = s],
           UNCHANGED << inst, about, stream, seen >>,
           request' \in [Requests -> RequestRow], profile' \in Data /\ patched' \subseteq Fields,
           astray' \subseteq Requests, amended' \subseteq Requests, doubled' \in BOOLEAN, doubled => doubled',
           \A r \in Requests : request'[r].status = "none" <=> request[r].status = "none",
           \A r \in Requests : request'[r].wf # 0 => about[request'[r].wf] = r,
           s.r # 0 => request[s.r].status # "none", s.at = "write" => about[s.i] = s.r
    PROVE  ProfileRows'
<1> USE DEF ProfileRows
<1>1. AboutRows'
    BY DEF AboutRows, InstInv
<1>2. \A i \in Instances : about[i] # 0 => request'[about[i]].status # "none"
    BY DEF AboutRows, RequestRows
<1>3. RequestRows'
    BY <1>2 DEF RequestRows
<1>4. /\ askCall'[c] = s /\ \A d \in AskCalls : d # c => askCall'[d] = askCall[d]
      /\ askCall' \in [AskCalls -> AskCall] /\ \A d \in AskCalls : AskFits(askCall'[d])
    BY AskChanges
<1>5. \A d \in AskCalls : askCall'[d].r # 0 => askCall'[d].r \in Requests /\ request[askCall'[d].r].status # "none"
    <2>1. s.r # 0 => s.r \in Requests
        BY DEF AskCall
    <2>2. \A d \in AskCalls : askCall[d].r # 0 => askCall[d].r \in Requests /\ request[askCall[d].r].status # "none"
        BY DEF AskRows, AskCall
    <2>3. QED BY <1>4, <2>1, <2>2
<1>6. \A d \in AskCalls : askCall'[d].at = "write" => about[askCall'[d].i] = askCall'[d].r
    BY <1>4 DEF AskRows
<1>7. AskRows'
    BY <1>4, <1>5, <1>6 DEF AskRows
<1>8. StreamRows'
    BY DEF StreamRows
<1>9. QED BY <1>1, <1>3, <1>7, <1>8

LEMMA StepPending ==
    ASSUME PendingInv, doubled => doubled',
           \A r \in Requests : /\ request'[r].status = "PENDING" => request[r].status = "PENDING"
                               /\ request[r].status = "none" => request'[r].status = "none",
           \A d \in AskCalls : askCall'[d].at = "create" => askCall[d].at = "create"
    PROVE  PendingInv'
BY DEF PendingInv, PendingRequests

LEMMA StepCopied ==
    ASSUME CopiedInv, astray \subseteq astray', amended \subseteq amended', doubled => doubled',
           Clean' =>
              /\ profile' = profile /\ patched' = patched
              /\ \A r \in Requests : /\ request'[r].status = "APPROVED" <=> request[r].status = "APPROVED"
                                     /\ request[r].status = "APPROVED" => request'[r].content = request[r].content
              /\ \A d \in AskCalls : askCall'[d].at \in {"copy", "stamp"} =>
                    askCall'[d] = askCall[d] /\ request'[askCall[d].r].content = request[askCall[d].r].content
              /\ \A d \in AskCalls : askCall[d].at = "stamp" => askCall'[d] = askCall[d]
    PROVE  CopiedInv'
<1>1. CASE Clean'
    <2>1. Clean
        BY <1>1 DEF Clean
    <2>2. profile' = profile /\ patched' = patched
        BY <1>1
    <2>3. \A d \in AskCalls : askCall'[d].at \in {"copy", "stamp"} => askCall'[d].content = request'[askCall'[d].r].content
        BY <1>1, <2>1 DEF CopiedInv
    <2>4. \A d \in AskCalls, f \in Fields \ patched' :
             askCall'[d].at = "stamp" /\ askCall'[d].content[f] # 0 => profile'[f] = askCall'[d].content[f]
        <3>1. \A d \in AskCalls : askCall'[d].at = "stamp" => askCall'[d] = askCall[d]
            BY <1>1
        <3>2. QED BY <2>1, <2>2, <3>1 DEF CopiedInv
    <2>5. ASSUME NEW q \in Requests, NEW f \in Fields, Overwrites(q, f) PROVE Overwrites(q, f)'
        <3>1. CASE request[q].status = "APPROVED"
            BY <1>1, <2>5, <3>1 DEF Overwrites
        <3>2. CASE request[q].status # "APPROVED"
            <4>1. PICK d \in AskCalls : askCall[d].r = q /\ askCall[d].at = "stamp"
                BY <2>5, <3>2 DEF Overwrites, AskAt
            <4>2. askCall'[d] = askCall[d] /\ request'[q].content = request[q].content
                BY <1>1, <4>1
            <4>3. AskAt(d, q, {"stamp"})'
                BY <4>1, <4>2 DEF AskAt
            <4>4. QED BY <2>5, <4>2, <4>3 DEF Overwrites
        <3>3. QED BY <3>1, <3>2
    <2>6. ASSUME NEW r \in Requests, NEW f \in Fields \ patched', request'[r].status = "APPROVED", request'[r].content[f] # 0,
                 \A q \in Requests : q > r => ~Overwrites(q, f)'
          PROVE  profile'[f] = request'[r].content[f]
        <3>1. request[r].status = "APPROVED" /\ request'[r].content = request[r].content
            BY <1>1, <2>6
        <3>2. \A q \in Requests : q > r => ~Overwrites(q, f)
            BY <2>5, <2>6
        <3>3. f \in Fields \ patched /\ request[r].content[f] # 0
            BY <2>2, <2>6, <3>1
        <3>4. profile[f] = request[r].content[f]
            BY <2>1, <3>1, <3>2, <3>3 DEF CopiedInv
        <3>5. QED BY <2>2, <3>1, <3>4
    <2>7. QED BY <2>3, <2>4, <2>6 DEF CopiedInv
<1>2. QED BY <1>1 DEF CopiedInv

LEMMA StepRequests ==
    ASSUME ProfileInv, StreamRows', astray \subseteq astray',
           \A r \in Requests \ astray' : Untouched(r) \/ OneRequestInv(r)'
    PROVE  RequestsInv'
<1>1. ASSUME NEW r \in Requests \ astray' PROVE OneRequestInv(r)'
    <2>1. OneRequestInv(r)
        BY DEF ProfileInv, RequestsInv
    <2>2. QED BY <2>1, UntouchedKeeps DEF ProfileInv
<1>2. QED BY <1>1 DEF RequestsInv

\* A call that has nothing to do with the start or the review of an approval, or goes on telling of one.
LEMMA StepUntouched ==
    ASSUME ProfileRows, NEW c \in AskCalls, NEW x \in AskCall, x = askCall[c], NEW s \in AskCall,
           askCall' = [askCall EXCEPT ![c] = s], UNCHANGED << inst, about, stream, seen >>, NEW r \in Requests,
           request'[r].status = request[r].status, request'[r].wf = request[r].wf,
           \/ x.at \notin {"start", "write"} \cup Reviewed /\ s.at \notin {"start", "write"} \cup Reviewed
           \/ x.r # r /\ s.r # r
           \/ x.r = s.r /\ s.i = x.i /\ s.verdict = x.verdict /\ {x.at, s.at} \subseteq Reviewed
    PROVE  Untouched(r)
<1>1. askCall'[c] = s /\ \A d \in AskCalls : d # c => askCall'[d] = askCall[d]
    BY AskChanges DEF ProfileRows
<1>2. ASSUME NEW d \in AskCalls, askCall[d].r = r \/ askCall'[d].r = r
      PROVE  \/ askCall[d].at \notin {"start", "write"} \cup Reviewed /\ askCall'[d].at \notin {"start", "write"} \cup Reviewed
             \/ /\ askCall'[d].r = r /\ askCall[d].r = r /\ askCall'[d].i = askCall[d].i /\ askCall'[d].verdict = askCall[d].verdict
                /\ askCall'[d].at = askCall[d].at \/ {askCall[d].at, askCall'[d].at} \subseteq Reviewed
    <2>1. CASE d = c
        BY <1>1, <1>2, <2>1
    <2>2. CASE d # c
        BY <1>1, <1>2, <2>2
    <2>3. QED BY <2>1, <2>2
<1>3. QED BY <1>2 DEF Untouched

-----------------------------------------------------------------------------
\* A request is asked for: the pending one is amended, or one is going to be made.
LEMMA AskBeginsKeeps == ASSUME ProfileInv, NEW c \in AskCalls, AskBegins(c) PROVE ProfileInv'
<1> USE DEF ProfileInv, ProfileRows
<1>1. PICK x \in AskCall : x = askCall[c] /\ AskFits(x)
    BY DEF AskRows
<1>2. /\ UNCHANGED << inst, request, profile, patched, about, stream, seen, astray, amended >>
      /\ doubled' = (doubled \/ (PendingRequests = {} /\ \E d \in AskCalls : askCall[d].at = "create"))
      /\ doubled \in BOOLEAN /\ x.at = "idle"
    BY <1>1 DEF AskBegins, Asks, RequestRows
<1>3. PICK s \in AskCall : /\ askCall' = [askCall EXCEPT ![c] = s] /\ AskFits(s)
                           /\ \/ s.at = "amend" /\ s.r \in PendingRequests
                              \/ s.at = "create" /\ s.r = 0 /\ PendingRequests = {}
    <2>1. PICK n \in Data :
             IF PendingRequests # {}
                THEN \E r \in PendingRequests : Asks(c, [NoAskCall EXCEPT !.at = "amend", !.r = r, !.content = n])
                ELSE Asks(c, [NoAskCall EXCEPT !.at = "create", !.content = n])
        BY DEF AskBegins
    <2>2. ASSUME NEW r \in PendingRequests, Asks(c, [NoAskCall EXCEPT !.at = "amend", !.r = r, !.content = n])
          PROVE  \E s \in AskCall : /\ askCall' = [askCall EXCEPT ![c] = s] /\ AskFits(s) /\ s.at = "amend" /\ s.r = r
        <3> DEFINE s == [NoAskCall EXCEPT !.at = "amend", !.r = r, !.content = n]
        <3>1. r \in Requests /\ r # 0
            BY ProfileAssumptions DEF PendingRequests
        <3>2. s \in AskCall /\ s.at = "amend" /\ s.r = r
            BY <3>1, NoAskCallFits DEF AskCall, AskSteps
        <3>3. askCall' = [askCall EXCEPT ![c] = s]
            BY <2>2 DEF Asks
        <3> HIDE DEF s
        <3>4. AskFits(s)
            BY <3>1, <3>2 DEF AskFits, Reviewed
        <3>5. QED BY <3>2, <3>3, <3>4
    <2>3. ASSUME Asks(c, [NoAskCall EXCEPT !.at = "create", !.content = n])
          PROVE  \E s \in AskCall : /\ askCall' = [askCall EXCEPT ![c] = s] /\ AskFits(s) /\ s.at = "create" /\ s.r = 0
        <3> DEFINE s == [NoAskCall EXCEPT !.at = "create", !.content = n]
        <3>1. s \in AskCall /\ s.at = "create" /\ s.r = 0
            BY NoAskCallFits DEF AskCall, AskSteps
        <3>2. askCall' = [askCall EXCEPT ![c] = s]
            BY <2>3 DEF Asks
        <3> HIDE DEF s
        <3>3. AskFits(s)
            BY <3>1 DEF AskFits, Reviewed
        <3>4. QED BY <3>1, <3>2, <3>3
    <2>4. CASE PendingRequests # {}
        <3>1. PICK r \in PendingRequests : Asks(c, [NoAskCall EXCEPT !.at = "amend", !.r = r, !.content = n])
            BY <2>1, <2>4
        <3>2. QED BY <2>2, <3>1
    <2>5. CASE PendingRequests = {}
        BY <2>1, <2>3, <2>5
    <2>6. QED BY <2>4, <2>5
<1>4. /\ askCall'[c] = s /\ \A d \in AskCalls : d # c => askCall'[d] = askCall[d]
    BY <1>3, AskChanges
<1>5. s.r # 0 => request[s.r].status # "none"
    BY <1>3 DEF PendingRequests
<1>6. ProfileRows'
    <2>1. /\ request' \in [Requests -> RequestRow] /\ profile' \in Data /\ patched' \subseteq Fields
          /\ astray' \subseteq Requests /\ amended' \subseteq Requests /\ doubled' \in BOOLEAN
          /\ \A r \in Requests : request'[r].wf # 0 => about[request'[r].wf] = r
        BY <1>2 DEF RequestRows
    <2>2. QED BY <1>2, <1>3, <1>5, <2>1, StepRows
<1>7. RequestsInv'
    <2>1. \A r \in Requests : Untouched(r)
        <3>1. x.at \notin {"start", "write"} \cup Reviewed /\ s.at \notin {"start", "write"} \cup Reviewed
            BY <1>2, <1>3 DEF Reviewed
        <3>2. QED BY <1>1, <1>2, <1>3, <3>1, StepUntouched
    <2>2. QED BY <1>2, <1>6, <2>1, StepRequests
<1>8. CopiedInv'
    BY <1>1, <1>2, <1>3, <1>4, StepCopied
<1>9. PendingInv'
    <2>1. CASE s.at = "amend"
        <3>1. \A d \in AskCalls : askCall'[d].at = "create" => askCall[d].at = "create"
            BY <1>4, <2>1
        <3>2. QED BY <1>2, <3>1, StepPending
    <2>2. CASE s.at = "create"
        <3>1. ASSUME ~doubled' PROVE PendingRequests = {} /\ ~doubled /\ \A d \in AskCalls : askCall[d].at # "create"
            BY <1>2, <1>3, <2>2, <3>1
        <3>2. \A d \in AskCalls : ~doubled' /\ askCall'[d].at = "create" => d = c
            BY <1>4, <3>1
        <3>3. PendingRequests' = PendingRequests
            BY <1>2 DEF PendingRequests
        <3>4. QED BY <1>2, <3>1, <3>2, <3>3 DEF PendingInv
    <2>3. QED BY <1>3, <2>1, <2>2
<1>10. QED BY <1>6, <1>7, <1>8, <1>9

\* The request is amended, whatever has become of it.
LEMMA AskAmendsKeeps == ASSUME ProfileInv, NEW c \in AskCalls, AskAmends(c) PROVE ProfileInv'
<1> USE DEF ProfileInv, ProfileRows
<1>1. PICK x \in AskCall : x = askCall[c] /\ AskFits(x)
    BY DEF AskRows
<1>2. /\ x.at = "amend" /\ askCall' = [askCall EXCEPT ![c] = NoAskCall]
      /\ UNCHANGED << inst, profile, patched, about, stream, seen, astray, doubled >>
    BY <1>1 DEF AskAmends, Answers
<1>3. PICK q \in Requests : q = x.r
    <2>1. x.r # 0 /\ x.r \in Requests \cup {0}
        BY <1>1, <1>2 DEF AskFits, AskCall
    <2>2. QED BY <2>1
<1> DEFINE row == [request[q] EXCEPT !.content = x.content]
<1>4. request[q] \in RequestRow /\ x.content \in Data /\ request \in [Requests -> RequestRow]
    BY DEF RequestRows, AskCall
<1>5. row \in RequestRow /\ row.status = request[q].status /\ row.wf = request[q].wf
    BY <1>4 DEF RequestRow
<1>6. request' = [request EXCEPT ![q] = row]
    BY <1>1, <1>3 DEF AskAmends
<1>7. /\ amended \subseteq amended' /\ amended' \subseteq Requests
      /\ amended' = {} => /\ request[q].status = "PENDING"
                          /\ \A d \in AskCalls : askCall[d].r = q => askCall[d].at \notin {"copy", "stamp"}
    <2>1. amended' = IF request[q].status # "PENDING" \/ \E d \in AskCalls : askCall[d].r = q /\ askCall[d].at \in {"copy", "stamp"}
                     THEN amended \cup {q} ELSE amended
        BY <1>1, <1>3 DEF AskAmends
    <2>2. QED BY <2>1 DEF RequestRows
<1> HIDE DEF row
<1>8. /\ request' \in [Requests -> RequestRow] /\ request'[q] = row
      /\ \A r \in Requests : r # q => request'[r] = request[r]
      /\ \A r \in Requests : request'[r].status = request[r].status /\ request'[r].wf = request[r].wf
    BY <1>4, <1>5, <1>6
<1>9. /\ askCall'[c] = NoAskCall /\ \A d \in AskCalls : d # c => askCall'[d] = askCall[d]
    BY <1>2, NoAskCallFits, AskChanges
<1>10. ProfileRows'
    <2>1. /\ profile' \in Data /\ patched' \subseteq Fields
          /\ astray' \subseteq Requests /\ amended' \subseteq Requests /\ doubled' \in BOOLEAN
          /\ \A r \in Requests : request'[r].wf # 0 => about[request'[r].wf] = r
        BY <1>2, <1>7, <1>8 DEF RequestRows
    <2>2. NoAskCall \in AskCall /\ AskFits(NoAskCall) /\ NoAskCall.r = 0 /\ NoAskCall.at # "write"
        BY NoAskCallFits
    <2>3. QED BY <1>2, <1>8, <2>1, <2>2, StepRows
<1>11. RequestsInv'
    <2>1. \A r \in Requests : Untouched(r)
        <3>1. x.at \notin {"start", "write"} \cup Reviewed /\ NoAskCall.at \notin {"start", "write"} \cup Reviewed
            BY <1>2, NoAskCallFits DEF Reviewed
        <3>2. NoAskCall \in AskCall
            BY NoAskCallFits
        <3>3. QED BY <1>1, <1>2, <1>8, <3>1, <3>2, StepUntouched
    <2>2. QED BY <1>2, <1>10, <2>1, StepRequests
<1>12. CopiedInv'
    <2>1. ASSUME Clean'
          PROVE  /\ \A r \in Requests : request[r].status = "APPROVED" => request'[r].content = request[r].content
                 /\ \A d \in AskCalls : askCall'[d].at \in {"copy", "stamp"} =>
                       askCall'[d] = askCall[d] /\ request'[askCall[d].r].content = request[askCall[d].r].content
        <3>1. amended' = {}
            BY <2>1 DEF Clean
        <3>2. \A r \in Requests : request[r].status = "APPROVED" => r # q
            BY <1>7, <3>1
        <3>3. ASSUME NEW d \in AskCalls, askCall'[d].at \in {"copy", "stamp"}
              PROVE  askCall'[d] = askCall[d] /\ request'[askCall[d].r].content = request[askCall[d].r].content
            <4>1. d # c /\ askCall'[d] = askCall[d] /\ askCall[d].at \in {"copy", "stamp"}
                BY <1>9, <3>3, NoAskCallFits
            <4>2. askCall[d].r # q
                BY <1>7, <3>1, <4>1
            <4>3. askCall[d].r \in Requests
                <5>1. askCall[d].r # 0 /\ askCall[d].r \in Requests \cup {0}
                    BY <4>1 DEF AskRows, AskFits, AskCall
                <5>2. QED BY <5>1
            <4>4. QED BY <1>8, <4>1, <4>2, <4>3
        <3>4. QED BY <1>8, <3>2, <3>3
    <2>2. \A d \in AskCalls : askCall[d].at = "stamp" => askCall'[d] = askCall[d]
        BY <1>1, <1>2, <1>9
    <2>3. QED BY <1>2, <1>7, <1>8, <2>1, <2>2, StepCopied
<1>13. PendingInv'
    <2>1. \A d \in AskCalls : askCall'[d].at = "create" => askCall[d].at = "create"
        BY <1>9, NoAskCallFits
    <2>2. QED BY <1>2, <1>8, <2>1, StepPending
<1>14. QED BY <1>10, <1>11, <1>12, <1>13

\* What the start of an approval of request q does.
LEMMA ProfileStarts ==
    ASSUME AboutRows, NEW i \in Instances, StartInstance(i), NEW q \in Requests, about' = [about EXCEPT ![i] = q]
    PROVE  /\ AboutRows' /\ about[i] = 0 /\ about'[i] = q /\ inst'[i].stage = "first"
           /\ \A j \in Instances : j # i => about'[j] = about[j] /\ inst'[j] = inst[j]
           /\ \A j \in Instances : about[j] # 0 => j < i
<1>1. /\ InstInv' /\ inst[i].stage = "none" /\ inst'[i].stage = "first" /\ inst'[i].said = << >>
      /\ \A j \in Instances : j # i => inst'[j] = inst[j]
    BY InstStarts DEF AboutRows
<1>2. \A j \in Instances : inst[j].stage # "second" /\ (inst[j].stage = "ended" => inst[j].said = << >>)
    BY DEF AboutRows
<1>3. /\ about \in [Instances -> Requests \cup {0}] /\ \A j \in Instances : about[j] = 0 <=> inst[j].stage = "none"
      /\ \A k, j \in Instances : j < k /\ about[k] # 0 => about[j] # 0
    BY DEF AboutRows
<1>4. /\ about' \in [Instances -> Requests \cup {0}] /\ about'[i] = q /\ q # 0
      /\ \A j \in Instances : j # i => about'[j] = about[j]
    BY <1>3, ProfileAssumptions
<1>5. \A j \in Instances : j < i => about[j] # 0
    <2>1. \A j \in Instances : j < i => inst[j] # Unstarted
        BY DEF StartInstance
    <2>2. \A j \in Instances : inst[j].stage = "none" <=> inst[j] = Unstarted
        BY InstUnstarted DEF AboutRows
    <2>3. QED BY <1>3, <2>1, <2>2
<1>6. about[i] = 0
    BY <1>1, <1>3
<1>7. \A j \in Instances : about[j] # 0 => j < i
    <2>1. ASSUME NEW j \in Instances, about[j] # 0, ~(j < i) PROVE FALSE
        <3>1. j # i /\ ~(i < j)
            BY <1>3, <1>6, <2>1
        <3>2. QED BY <2>1, <3>1, InstancesAreNumbered
    <2>2. QED BY <2>1
<1>8. \A j \in Instances : inst'[j].stage # "second" /\ (inst'[j].stage = "ended" => inst'[j].said = << >>)
    BY <1>1, <1>2
<1>9. ASSUME NEW j \in Instances PROVE about'[j] = 0 <=> inst'[j].stage = "none"
    <2>1. CASE j = i
        BY <1>1, <1>4, <2>1
    <2>2. CASE j # i
        BY <1>1, <1>3, <1>4, <2>2
    <2>3. QED BY <2>1, <2>2
<1>10. ASSUME NEW k \in Instances, NEW j \in Instances, j < k, about'[k] # 0 PROVE about'[j] # 0
    <2>1. CASE j = i
        BY <1>4, <2>1
    <2>2. CASE j # i
        <3>1. CASE k = i
            BY <1>4, <1>5, <1>10, <2>2, <3>1
        <3>2. CASE k # i
            BY <1>3, <1>4, <1>10, <2>2, <3>2
        <3>3. QED BY <3>1, <3>2
    <2>3. QED BY <2>1, <2>2
<1>11. AboutRows'
    BY <1>1, <1>4, <1>8, <1>9, <1>10 DEF AboutRows
<1>12. QED BY <1>1, <1>4, <1>6, <1>7, <1>11

\* The request is made.
LEMMA AskCreatesKeeps == ASSUME ProfileInv, NEW c \in AskCalls, AskCreates(c) PROVE ProfileInv'
<1> USE DEF ProfileInv, ProfileRows
<1>1. PICK x \in AskCall : x = askCall[c] /\ AskFits(x) /\ x.at = "create" /\ x.r = 0
    BY DEF AskRows, AskFits, AskCreates
<1>2. PICK q \in Requests :
         /\ request[q].status = "none" /\ \A r \in Requests : r < q => request[r].status # "none"
         /\ request' = [request EXCEPT ![q] = [status |-> "PENDING", wf |-> 0, content |-> x.content]]
         /\ askCall' = [askCall EXCEPT ![c] = [NoAskCall EXCEPT !.at = "start", !.r = q]]
    BY <1>1 DEF AskCreates
<1>3. UNCHANGED << inst, profile, patched, about, stream, seen, astray, doubled, amended >>
    BY DEF AskCreates
<1> DEFINE s == [NoAskCall EXCEPT !.at = "start", !.r = q]
           row == [status |-> "PENDING", wf |-> 0, content |-> x.content]
<1>4. s \in AskCall /\ s.at = "start" /\ s.r = q /\ q # 0
    BY NoAskCallFits, ProfileAssumptions DEF AskCall, AskSteps
<1>5. row \in RequestRow /\ row.status = "PENDING" /\ row.wf = 0
    BY DEF RequestRow, RequestStatuses, AskCall
<1>6. request' = [request EXCEPT ![q] = row] /\ askCall' = [askCall EXCEPT ![c] = s]
    BY <1>2
<1> HIDE DEF s, row
<1>7. AskFits(s)
    BY <1>4 DEF AskFits, Reviewed
<1>8. /\ request' \in [Requests -> RequestRow] /\ request'[q] = row
      /\ \A r \in Requests : r # q => request'[r] = request[r]
    BY <1>5, <1>6 DEF RequestRows
<1>9. /\ askCall'[c] = s /\ \A d \in AskCalls : d # c => askCall'[d] = askCall[d]
      /\ askCall' \in [AskCalls -> AskCall] /\ \A d \in AskCalls : AskFits(askCall'[d])
    BY <1>4, <1>6, <1>7, AskChanges
<1>10. \A i \in Instances : about[i] # q
    BY <1>2, <1>4 DEF RequestRows
<1>11. \A d \in AskCalls : askCall[d].r # q
    BY <1>2, <1>4 DEF AskRows
<1>12. \A n \in DOMAIN stream : ~Unseen(n, q)
    BY <1>10, EntryRow DEF StreamRows, Unseen
<1>13. ProfileRows'
    <2>1. AboutRows'
        BY <1>3 DEF AboutRows, InstInv
    <2>2. \A r \in Requests : request'[r].wf # 0 => about[request'[r].wf] = r
        BY <1>5, <1>8 DEF RequestRows
    <2>3. ASSUME NEW p \in Requests, NEW r \in Requests, p < r, request'[r].status # "none" PROVE request'[p].status # "none"
        <3>1. CASE p = q
            BY <1>5, <1>8, <3>1
        <3>2. CASE p # q
            <4>1. request[p].status # "none"
                <5>1. CASE r = q
                    BY <1>2, <2>3, <5>1
                <5>2. CASE r # q
                    BY <1>8, <2>3, <5>2 DEF RequestRows
                <5>3. QED BY <5>1, <5>2
            <4>2. QED BY <1>8, <3>2, <4>1
        <3>3. QED BY <3>1, <3>2
    <2>4. ASSUME NEW i \in Instances, about[i] # 0 PROVE request'[about[i]].status # "none"
        <3>1. about[i] \in Requests
            BY <2>4 DEF AboutRows
        <3>2. request[about[i]].status # "none"
            BY <2>4 DEF RequestRows
        <3>3. QED BY <1>2, <1>8, <3>1, <3>2
    <2>5. RequestRows'
        BY <1>3, <1>8, <2>2, <2>3, <2>4 DEF RequestRows
    <2>6. ASSUME NEW d \in AskCalls, askCall'[d].r # 0 PROVE request'[askCall'[d].r].status # "none"
        <3>1. CASE d = c
            BY <1>4, <1>5, <1>8, <1>9, <3>1
        <3>2. CASE d # c
            <4>1. askCall'[d] = askCall[d] /\ askCall[d].r # q /\ askCall[d].r \in Requests
                BY <1>9, <1>11, <2>6, <3>2 DEF AskRows, AskCall
            <4>2. request[askCall[d].r].status # "none"
                BY <2>6, <4>1 DEF AskRows
            <4>3. QED BY <1>8, <4>1, <4>2
        <3>3. QED BY <3>1, <3>2
    <2>7. \A d \in AskCalls : askCall'[d].at = "write" => about[askCall'[d].i] = askCall'[d].r
        BY <1>4, <1>9 DEF AskRows
    <2>8. AskRows'
        BY <1>3, <1>9, <2>6, <2>7 DEF AskRows
    <2>9. StreamRows'
        BY <1>3 DEF StreamRows
    <2>10. QED BY <2>1, <2>5, <2>8, <2>9
<1>14. RequestsInv'
    <2>1. ASSUME NEW r \in Requests, r # q PROVE Untouched(r)
        <3>1. x.r # r /\ s.r # r
            BY <1>1, <1>4, <2>1, ProfileAssumptions
        <3>2. request'[r] = request[r]
            BY <1>8, <2>1
        <3>3. QED BY <1>1, <1>3, <1>4, <1>6, <3>1, <3>2, StepUntouched
    <2>2. OneRequestInv(q)'
        <3>1. request'[q].status = "PENDING" /\ request'[q].wf = 0
            BY <1>5, <1>8
        <3>2. \A d \in AskCalls : askCall'[d].r = q => d = c
            BY <1>9, <1>11
        <3>3. AskAt(c, q, {"start", "write"})' /\ ~AskAt(c, q, {"write"})' /\ ~AskAt(c, q, Reviewed)'
            BY <1>4, <1>9 DEF AskAt, Reviewed
        <3>4. \A d \in AskCalls : \A steps : AskAt(d, q, steps)' => d = c
            BY <3>2 DEF AskAt
        <3>5. \A d \in AskCalls : ~AskAt(d, q, {"write"})' /\ ~AskAt(d, q, Reviewed)'
            BY <3>3, <3>4
        <3>6. \A n \in DOMAIN stream' : ~Unseen(n, q)'
            BY <1>3, <1>12 DEF Unseen
        <3>7. StartingInv(q)'
            <4>1. \A d \in AskCalls : AskAt(d, q, {"start", "write"} \cup Reviewed)' => d = c
                BY <3>4
            <4>2. \A d \in AskCalls : AskAt(d, q, {"start", "write"})' => d = c
                BY <3>4
            <4>3. QED BY <1>3, <1>10, <3>1, <3>5, <3>6, <4>1, <4>2 DEF StartingInv
        <3>8. ReviewedInv(q)' /\ NamesInv(q)'
            BY <3>1, <3>5 DEF ReviewedInv, NamesInv
        <3>9. QED BY <1>3, <1>10, <3>1, <3>3, <3>7, <3>8 DEF OneRequestInv
    <2>3. QED BY <1>3, <1>13, <2>1, <2>2, StepRequests
<1>15. CopiedInv'
    <2>1. \A r \in Requests : /\ request'[r].status = "APPROVED" <=> request[r].status = "APPROVED"
                              /\ request[r].status = "APPROVED" => request'[r].content = request[r].content
        BY <1>2, <1>5, <1>8
    <2>2. ASSUME NEW d \in AskCalls, askCall'[d].at \in {"copy", "stamp"}
          PROVE  askCall'[d] = askCall[d] /\ request'[askCall[d].r].content = request[askCall[d].r].content
        <3>1. d # c /\ askCall'[d] = askCall[d] /\ askCall[d].at \in {"copy", "stamp"}
            BY <1>4, <1>9, <2>2
        <3>2. askCall[d].r # q /\ askCall[d].r \in Requests
            <4>1. askCall[d].r # 0 /\ askCall[d].r \in Requests \cup {0}
                BY <3>1 DEF AskRows, AskFits, AskCall
            <4>2. QED BY <1>11, <4>1
        <3>3. QED BY <1>8, <3>1, <3>2
    <2>3. \A d \in AskCalls : askCall[d].at = "stamp" => askCall'[d] = askCall[d]
        BY <1>1, <1>9
    <2>4. QED BY <1>3, <2>1, <2>2, <2>3, StepCopied
<1>16. PendingInv'
    <2>1. ASSUME ~doubled
          PROVE  /\ PendingRequests' = {q} /\ \A d \in AskCalls : askCall'[d].at # "create"
        <3>1. PendingRequests = {} /\ \A d \in AskCalls : askCall[d].at = "create" => d = c
            BY <1>1, <2>1 DEF PendingInv
        <3>2. \A r \in Requests : request'[r].status = "PENDING" <=> r = q
            BY <1>5, <1>8, <3>1 DEF PendingRequests
        <3>3. \A d \in AskCalls : askCall'[d].at # "create"
            BY <1>4, <1>9, <3>1
        <3>4. QED BY <3>2, <3>3 DEF PendingRequests
    <2>2. ASSUME NEW r \in Requests, r > q PROVE request'[r].status = "none"
        <3>1. r # q /\ q < r
            BY <2>2, ProfileAssumptions
        <3>2. request[r].status = "none"
            BY <1>2, <3>1 DEF RequestRows
        <3>3. QED BY <1>8, <3>1, <3>2
    <2>3. QED BY <1>3, <2>1, <2>2 DEF PendingInv
<1>17. QED BY <1>13, <1>14, <1>15, <1>16

\* The row's approval does not change when another approval is started.
LEMMA StartedRows ==
    ASSUME ProfileRows, AboutRows', NEW i \in Instances, about[i] = 0, NEW q \in Requests, about'[i] = q,
           \A j \in Instances : j # i => about'[j] = about[j],
           request[q].status # "none", UNCHANGED << request, profile, patched, amended >>, astray' \subseteq Requests, doubled' \in BOOLEAN
    PROVE  RequestRows'
<1>1. \A r \in Requests : request[r].wf # 0 => about'[request[r].wf] = r
    <2>1. ASSUME NEW r \in Requests, request[r].wf # 0 PROVE about'[request[r].wf] = r
        <3>1. request[r].wf \in Instances /\ about[request[r].wf] = r
            BY <2>1 DEF ProfileRows, RequestRows, RequestRow
        <3>2. request[r].wf # i
            BY <3>1, ProfileAssumptions
        <3>3. QED BY <3>1, <3>2
    <2>2. QED BY <2>1
<1>2. ASSUME NEW j \in Instances, about'[j] # 0 PROVE request[about'[j]].status # "none"
    <2>1. CASE j = i
        BY <2>1
    <2>2. CASE j # i
        BY <1>2, <2>2 DEF ProfileRows, RequestRows
    <2>3. QED BY <2>1, <2>2
<1>3. QED BY <1>1, <1>2 DEF ProfileRows, RequestRows

\* A call that fails leaves its request astray.
LEMMA GiveUpKeeps ==
    ASSUME ProfileInv, NEW c \in AskCalls, NEW x \in AskCall, x = askCall[c], NEW q \in Requests, q = x.r, x.at # "create",
           astray' = astray \cup {q}, Answers(c), UNCHANGED << inst, request, profile, patched, about, stream, seen, doubled, amended >>
    PROVE  ProfileInv'
<1> USE DEF ProfileInv, ProfileRows
<1>1. askCall' = [askCall EXCEPT ![c] = NoAskCall]
    BY DEF Answers
<1>2. NoAskCall \in AskCall /\ AskFits(NoAskCall) /\ NoAskCall.at = "idle" /\ NoAskCall.r = 0
    BY NoAskCallFits
<1>3. /\ askCall'[c] = NoAskCall /\ \A d \in AskCalls : d # c => askCall'[d] = askCall[d]
    BY <1>1, <1>2, AskChanges
<1>4. ProfileRows'
    <2>1. /\ request' \in [Requests -> RequestRow] /\ profile' \in Data /\ patched' \subseteq Fields
          /\ astray' \subseteq Requests /\ amended' \subseteq Requests /\ doubled' \in BOOLEAN
          /\ \A r \in Requests : request'[r].wf # 0 => about[request'[r].wf] = r
        BY DEF RequestRows
    <2>2. QED BY <1>1, <1>2, <2>1, StepRows
<1>5. RequestsInv'
    <2>1. ASSUME NEW r \in Requests \ astray' PROVE Untouched(r)
        <3>1. r # q /\ r # 0
            BY <2>1, ProfileAssumptions
        <3>2. x.r # r /\ NoAskCall.r # r
            BY <1>2, <3>1
        <3>3. r \in Requests /\ request'[r].status = request[r].status /\ request'[r].wf = request[r].wf
            OBVIOUS
        <3>4. UNCHANGED << inst, about, stream, seen >>
            OBVIOUS
        <3>5. QED BY <1>1, <1>2, <3>2, <3>3, <3>4, StepUntouched
    <2>2. QED BY <1>4, <2>1, StepRequests
<1>6. CopiedInv'
    <2>1. ~(Clean')
        BY DEF Clean
    <2>2. QED BY <2>1, StepCopied
<1>7. PendingInv'
    BY <1>2, <1>3, StepPending
<1>8. QED BY <1>4, <1>5, <1>6, <1>7

\* An approval is started for the request, or the service is not reached.
LEMMA AskStartsKeeps == ASSUME ProfileInv, NEW c \in AskCalls, AskStarts(c) PROVE ProfileInv'
<1> USE DEF ProfileInv, ProfileRows
<1>1. PICK x \in AskCall : x = askCall[c] /\ AskFits(x) /\ x.at = "start"
    BY DEF AskRows, AskStarts
<1>2. PICK q \in Requests : q = x.r /\ request[q].status # "none" /\ q # 0
    <2>1. x.r # 0 /\ x.r \in Requests \cup {0}
        BY <1>1 DEF AskFits, AskCall
    <2>2. QED BY <1>1, <2>1 DEF AskRows
<1>3. UNCHANGED << request, profile, patched, stream, seen, doubled, amended >>
    BY DEF AskStarts
<1>4. CASE astray' = astray \cup {q} /\ Answers(c) /\ UNCHANGED << inst, about >>
    BY <1>1, <1>2, <1>3, <1>4, GiveUpKeeps
<1>5. ASSUME NEW i \in Instances, StartInstance(i), about' = [about EXCEPT ![i] = q],
             askCall' = [askCall EXCEPT ![c].at = "write", ![c].i = i], astray' = astray
      PROVE  ProfileInv'
    <2> DEFINE s == [x EXCEPT !.at = "write", !.i = i]
    <2>1. s \in AskCall /\ s.at = "write" /\ s.r = q /\ s.i = i
        BY <1>2 DEF AskCall, AskSteps
    <2>2. askCall' = [askCall EXCEPT ![c] = s]
        BY <1>1, <1>5
    <2> HIDE DEF s
    <2>3. AskFits(s)
        BY <1>2, <2>1 DEF AskFits, Reviewed
    <2>4. /\ askCall'[c] = s /\ \A d \in AskCalls : d # c => askCall'[d] = askCall[d]
          /\ askCall' \in [AskCalls -> AskCall] /\ \A d \in AskCalls : AskFits(askCall'[d])
        BY <2>1, <2>2, <2>3, AskChanges
    <2>5. /\ AboutRows' /\ about[i] = 0 /\ about'[i] = q /\ inst'[i].stage = "first"
          /\ \A j \in Instances : j # i => about'[j] = about[j] /\ inst'[j] = inst[j]
          /\ \A j \in Instances : about[j] # 0 => j < i
        BY <1>5, ProfileStarts
    <2>6. \A n \in DOMAIN stream : stream[n].i \in Instances /\ stream[n].i # i /\ about'[stream[n].i] = about[stream[n].i]
        <3>1. \A n \in DOMAIN stream : stream[n].i \in Instances /\ about[stream[n].i] # 0
            BY EntryRow DEF StreamRows
        <3>2. QED BY <2>5, <3>1
    <2>7. ProfileRows'
        <3>1. RequestRows'
            <4>1. astray' \subseteq Requests /\ doubled' \in BOOLEAN
                BY <1>3, <1>5 DEF RequestRows
            <4>2. QED BY <1>2, <1>3, <2>5, <4>1, StartedRows
        <3>2. ASSUME NEW d \in AskCalls, askCall'[d].r # 0 PROVE request'[askCall'[d].r].status # "none"
            BY <1>2, <1>3, <2>1, <2>4, <3>2 DEF AskRows
        <3>3. ASSUME NEW d \in AskCalls, askCall'[d].at = "write" PROVE about'[askCall'[d].i] = askCall'[d].r
            <4>1. CASE d = c
                BY <2>1, <2>4, <2>5, <4>1
            <4>2. CASE d # c
                <5>1. askCall'[d] = askCall[d] /\ askCall[d].i \in Instances /\ about[askCall[d].i] = askCall[d].r /\ askCall[d].r # 0
                    BY <2>4, <3>3, <4>2 DEF AskRows, AskFits
                <5>2. QED BY <2>5, <5>1
            <4>3. QED BY <4>1, <4>2
        <3>4. AskRows'
            BY <2>4, <3>2, <3>3 DEF AskRows
        <3>5. StreamRows'
            <4>1. ASSUME NEW n \in DOMAIN stream
                  PROVE  /\ about'[stream[n].i] # 0
                         /\ stream[n].type = "Restarted" =>
                               stream[n].from \in Instances /\ about'[stream[n].from] = about'[stream[n].i] /\ doubled
                <5>1. /\ about[stream[n].i] # 0
                      /\ stream[n].type = "Restarted" =>
                            stream[n].from \in Instances /\ about[stream[n].from] = about[stream[n].i] /\ doubled
                    BY DEF StreamRows
                <5>2. stream[n].type = "Restarted" => stream[n].from # i
                    BY <2>5, <5>1
                <5>3. QED BY <2>5, <2>6, <5>1, <5>2
            <4>2. QED BY <1>3, <4>1 DEF StreamRows
        <3>6. QED BY <2>5, <3>1, <3>4, <3>5
    <2>8. RequestsInv'
        <3>1. ASSUME NEW r \in Requests, r # q PROVE Untouched(r)
            <4>1. r # 0
                BY ProfileAssumptions
            <4>2. \A j \in Instances : (about'[j] = r <=> about[j] = r) /\ (about[j] = r => inst'[j] = inst[j])
                BY <2>5, <3>1, <4>1
            <4>3. \A d \in AskCalls : askCall[d].r = r \/ askCall'[d].r = r => askCall'[d] = askCall[d]
                BY <1>1, <1>2, <2>1, <2>4, <3>1
            <4>4. QED BY <1>3, <2>6, <4>2, <4>3 DEF Untouched
        <3>2. ASSUME q \notin astray PROVE OneRequestInv(q)'
            <4>1. AskAt(c, q, {"start"}) /\ AskAt(c, q, {"start", "write"}) /\ OneRequestInv(q)
                BY <1>1, <1>2, <3>2 DEF AskAt, RequestsInv
            <4>2. /\ \A j \in Instances : about[j] # q
                  /\ request[q].status = "PENDING" /\ request[q].wf = 0
                  /\ \A n \in DOMAIN stream : ~Unseen(n, q)
                  /\ \A d \in AskCalls : AskAt(d, q, {"start", "write"} \cup Reviewed) => d = c
                BY <4>1 DEF OneRequestInv, StartingInv
            <4>3. \A j \in Instances : about'[j] = q <=> j = i
                BY <2>5, <4>2
            <4>4. \A n \in DOMAIN stream' : ~Unseen(n, q)'
                BY <1>3, <2>6, <4>2 DEF Unseen
            <4>5. Newest(i, q)'
                BY <4>3, InstancesAreNumbered DEF Newest
            <4>6. \A d \in AskCalls : AskAt(d, q, {"start", "write"} \cup Reviewed)' => d = c
                BY <2>4, <4>2 DEF AskAt
            <4>7. AskAt(c, q, {"start", "write"})' /\ ~AskAt(c, q, {"start"})' /\ ~AskAt(c, q, Reviewed)'
                BY <2>1, <2>4 DEF AskAt, Reviewed
            <4>8. \A d \in AskCalls : /\ AskAt(d, q, {"start"})' => AskAt(d, q, {"start", "write"} \cup Reviewed)'
                                      /\ AskAt(d, q, {"write"})' => AskAt(d, q, {"start", "write"} \cup Reviewed)'
                                      /\ AskAt(d, q, {"start", "write"})' => AskAt(d, q, {"start", "write"} \cup Reviewed)'
                                      /\ AskAt(d, q, Reviewed)' => AskAt(d, q, {"start", "write"} \cup Reviewed)'
                BY DEF AskAt
            <4>9. askCall'[c].i = i
                BY <2>1, <2>4
            <4>10. StartingInv(q)'
                <5>1. ASSUME NEW d \in AskCalls, AskAt(d, q, {"write"})' PROVE inst'[askCall'[d].i].stage = "first" /\ Newest(askCall[d].i, q)'
                    <6>1. d = c
                        BY <4>6, <4>8, <5>1
                    <6>2. QED BY <2>5, <4>5, <4>9, <6>1 DEF Newest
                <5>2. \A d \in AskCalls : ~AskAt(d, q, {"start"})'
                    BY <4>6, <4>7, <4>8
                <5>3. \A d \in AskCalls : AskAt(d, q, {"start", "write"})' =>
                          \A e \in AskCalls : AskAt(e, q, {"start", "write"} \cup Reviewed)' => e = d
                    BY <4>6, <4>8
                <5>4. QED BY <1>3, <4>2, <4>4, <5>1, <5>2, <5>3 DEF StartingInv
            <4>11. ReviewedInv(q)' /\ NamesInv(q)'
                BY <1>3, <4>2, <4>6, <4>7, <4>8 DEF ReviewedInv, NamesInv
            <4>12. \A j, k \in Instances : about'[j] = q /\ about'[k] = q /\ j < k => inst'[j].stage = "ended"
                BY <4>3, InstancesAreNumbered
            <4>13. QED BY <4>7, <4>10, <4>11, <4>12 DEF OneRequestInv
        <3>3. QED BY <1>5, <2>7, <3>1, <3>2, StepRequests
    <2>9. CopiedInv'
        BY <1>1, <1>3, <1>5, <2>1, <2>4, StepCopied
    <2>10. PendingInv'
        BY <1>3, <2>1, <2>4, StepPending
    <2>11. QED BY <2>7, <2>8, <2>9, <2>10
<1>6. CASE /\ \E i \in Instances :
                /\ StartInstance(i)
                /\ about' = [about EXCEPT ![i] = askCall[c].r]
                /\ askCall' = [askCall EXCEPT ![c].at = "write", ![c].i = i]
           /\ UNCHANGED astray
    BY <1>1, <1>2, <1>5, <1>6
<1>7. QED BY <1>1, <1>2, <1>4, <1>6 DEF AskStarts

\* The approval is written to the request.
LEMMA AskWritesKeeps == ASSUME ProfileInv, NEW c \in AskCalls, AskWrites(c) PROVE ProfileInv'
<1> USE DEF ProfileInv, ProfileRows
<1>1. PICK x \in AskCall : x = askCall[c] /\ AskFits(x) /\ x.at = "write"
    BY DEF AskRows, AskWrites
<1>2. PICK q \in Requests : q = x.r /\ request[q].status # "none" /\ q # 0
    <2>1. x.r # 0 /\ x.r \in Requests \cup {0}
        BY <1>1 DEF AskFits, AskCall
    <2>2. QED BY <1>1, <2>1 DEF AskRows
<1>3. PICK i \in Instances : i = x.i /\ about[i] = q /\ i # 0
    BY <1>1, <1>2, InstancesAreNumbered DEF AskRows, AskFits
<1>4. /\ askCall' = [askCall EXCEPT ![c] = NoAskCall]
      /\ UNCHANGED << inst, profile, patched, about, stream, seen, astray, doubled, amended >>
    BY DEF AskWrites, Answers
<1> DEFINE row == [request[q] EXCEPT !.wf = i]
<1>5. request[q] \in RequestRow /\ request \in [Requests -> RequestRow]
    BY DEF RequestRows
<1>6. row \in RequestRow /\ row.status = request[q].status /\ row.wf = i /\ row.content = request[q].content
    BY <1>5 DEF RequestRow
<1>7. request' = [request EXCEPT ![q] = row]
    BY <1>1, <1>2, <1>3 DEF AskWrites
<1> HIDE DEF row
<1>8. /\ request' \in [Requests -> RequestRow] /\ request'[q] = row
      /\ \A r \in Requests : r # q => request'[r] = request[r]
      /\ \A r \in Requests : request'[r].status = request[r].status /\ request'[r].content = request[r].content
    BY <1>5, <1>6, <1>7
<1>9. NoAskCall \in AskCall /\ AskFits(NoAskCall) /\ NoAskCall.at = "idle" /\ NoAskCall.r = 0
    BY NoAskCallFits
<1>10. askCall'[c] = NoAskCall /\ \A d \in AskCalls : d # c => askCall'[d] = askCall[d]
    BY <1>4, <1>9, AskChanges
<1>11. ProfileRows'
    <2>1. \A r \in Requests : request'[r].wf # 0 => about[request'[r].wf] = r
        BY <1>3, <1>6, <1>8 DEF RequestRows
    <2>2. /\ profile' \in Data /\ patched' \subseteq Fields /\ astray' \subseteq Requests /\ amended' \subseteq Requests /\ doubled' \in BOOLEAN
        BY <1>4 DEF RequestRows
    <2>3. QED BY <1>4, <1>8, <1>9, <2>1, <2>2, StepRows
<1>12. RequestsInv'
    <2>1. ASSUME NEW r \in Requests, r # q PROVE Untouched(r)
        <3>1. x.r # r /\ NoAskCall.r # r /\ request'[r].wf = request[r].wf
            BY <1>2, <1>8, <1>9, <2>1, ProfileAssumptions
        <3>2. QED BY <1>1, <1>4, <1>8, <1>9, <3>1, StepUntouched
    <2>2. ASSUME q \notin astray PROVE OneRequestInv(q)'
        <3>1. AskAt(c, q, {"write"}) /\ AskAt(c, q, {"start", "write"}) /\ OneRequestInv(q)
            BY <1>1, <1>2, <2>2 DEF AskAt, RequestsInv
        <3>2. /\ inst[i].stage = "first" /\ Newest(i, q)
              /\ request[q].status = "PENDING"
              /\ \A n \in DOMAIN stream : ~Unseen(n, q)
              /\ \A d \in AskCalls : AskAt(d, q, {"start", "write"} \cup Reviewed) => d = c
            BY <1>1, <1>3, <3>1 DEF OneRequestInv, StartingInv
        <3>3. \A d \in AskCalls : ~AskAt(d, q, {"start", "write"} \cup Reviewed)'
            BY <1>2, <1>9, <1>10, <3>2 DEF AskAt
        <3>4. \A d \in AskCalls : /\ ~AskAt(d, q, {"start"})' /\ ~AskAt(d, q, {"write"})'
                                  /\ ~AskAt(d, q, {"start", "write"})' /\ ~AskAt(d, q, Reviewed)'
            BY <3>3 DEF AskAt
        <3>5. \A n \in DOMAIN stream' : ~Unseen(n, q)'
            BY <1>4, <3>2 DEF Unseen
        <3>6. StartingInv(q)' /\ ReviewedInv(q)'
            BY <3>4 DEF StartingInv, ReviewedInv
        <3>7. Newest(request[q].wf, q)'
            BY <1>4, <1>6, <1>8, <3>2 DEF Newest
        <3>8. OpenTask(request[q].wf)'
            BY <1>4, <1>6, <1>8, <3>2 DEF OpenTask
        <3>9. NamesInv(q)'
            BY <1>8, <3>2, <3>5, <3>7, <3>8 DEF NamesInv
        <3>10. request'[q].wf # 0
            BY <1>3, <1>6, <1>8
        <3>11. \A j, k \in Instances : about'[j] = q /\ about'[k] = q /\ j < k => inst'[j].stage = "ended"
            BY <1>4, <3>1 DEF OneRequestInv
        <3>12. QED BY <3>6, <3>9, <3>10, <3>11 DEF OneRequestInv
    <2>3. QED BY <1>4, <1>11, <2>1, <2>2, StepRequests
<1>13. CopiedInv'
    <2>1. ASSUME NEW d \in AskCalls, askCall'[d].at \in {"copy", "stamp"}
          PROVE  askCall'[d] = askCall[d] /\ request'[askCall[d].r].content = request[askCall[d].r].content
        <3>1. d # c /\ askCall'[d] = askCall[d] /\ askCall[d].at \in {"copy", "stamp"}
            BY <1>9, <1>10, <2>1
        <3>2. askCall[d].r # 0 /\ askCall[d].r \in Requests \cup {0}
            BY <3>1 DEF AskRows, AskFits, AskCall
        <3>3. QED BY <1>8, <3>1, <3>2
    <2>2. \A d \in AskCalls : askCall[d].at = "stamp" => askCall'[d] = askCall[d]
        BY <1>1, <1>10
    <2>3. QED BY <1>4, <1>8, <2>1, <2>2, StepCopied
<1>14. PendingInv'
    BY <1>4, <1>8, <1>9, <1>10, StepPending
<1>15. QED BY <1>11, <1>12, <1>13, <1>14

\* What telling of a review does to its call.
TellAt(x, a, n) == [x EXCEPT !.at = a, !.content = n]

LEMMA TellFits ==
    ASSUME NEW x \in AskCall, AskFits(x), x.at \in Reviewed, NEW a \in {"copy", "stamp", "deny"}, NEW n \in Data,
           a = "deny" <=> x.verdict # "approved"
    PROVE  LET s == TellAt(x, a, n)
           IN  s \in AskCall /\ AskFits(s) /\ s.at = a /\ s.r = x.r /\ s.i = x.i /\ s.verdict = x.verdict /\ s.content = n
<1> DEFINE s == TellAt(x, a, n)
<1>1. s \in AskCall /\ s.at = a /\ s.r = x.r /\ s.i = x.i /\ s.verdict = x.verdict /\ s.content = n
    BY DEF AskCall, AskSteps, TellAt
<1> HIDE DEF s
<1>2. x.r # 0 /\ x.verdict \in Verdicts
    BY DEF AskFits, Reviewed
<1>3. AskFits(s)
    BY <1>1, <1>2 DEF AskFits, Reviewed
<1>4. QED BY <1>1, <1>3 DEF s

\* The call looks the request up.
LEMMA ProfileFindsKeeps == ASSUME ProfileInv, NEW c \in AskCalls, ProfileFinds(c) PROVE ProfileInv'
<1> USE DEF ProfileInv, ProfileRows
<1>1. PICK x \in AskCall : x = askCall[c] /\ AskFits(x) /\ x.at = "find"
    BY DEF AskRows, ProfileFinds
<1>2. PICK q \in Requests : q = x.r /\ request[q].status # "none" /\ q # 0
    <2>1. x.r # 0 /\ x.r \in Requests \cup {0}
        BY <1>1 DEF AskFits, AskCall
    <2>2. QED BY <1>1, <2>1 DEF AskRows
<1>3. UNCHANGED << inst, request, profile, patched, about, stream, seen, astray, doubled, amended >>
    BY DEF ProfileFinds
<1>4. /\ request' \in [Requests -> RequestRow] /\ profile' \in Data /\ patched' \subseteq Fields
      /\ astray' \subseteq Requests /\ amended' \subseteq Requests /\ doubled' \in BOOLEAN
      /\ \A r \in Requests : request'[r].wf # 0 => about[request'[r].wf] = r
    BY <1>3 DEF RequestRows
<1>5. CASE request[q].status # "PENDING"
    <2>1. askCall' = [askCall EXCEPT ![c] = NoAskCall]
        BY <1>1, <1>2, <1>5 DEF ProfileFinds, Answers
    <2>2. NoAskCall \in AskCall /\ AskFits(NoAskCall) /\ NoAskCall.at = "idle" /\ NoAskCall.r = 0
        BY NoAskCallFits
    <2>3. askCall'[c] = NoAskCall /\ \A d \in AskCalls : d # c => askCall'[d] = askCall[d]
        BY <2>1, <2>2, AskChanges
    <2>4. ProfileRows'
        BY <1>3, <1>4, <2>1, <2>2, StepRows
    <2>5. ASSUME NEW r \in Requests \ astray PROVE Untouched(r)
        <3>1. r # q
            <4>1. AskAt(c, q, Reviewed)
                BY <1>1, <1>2 DEF AskAt, Reviewed
            <4>2. q \notin astray => request[q].status = "PENDING"
                BY <4>1 DEF RequestsInv, OneRequestInv, ReviewedInv
            <4>3. QED BY <1>5, <4>2
        <3>2. x.r # r /\ NoAskCall.r # r
            BY <1>2, <2>2, <3>1, ProfileAssumptions
        <3>3. QED BY <1>1, <1>3, <2>1, <2>2, <3>2, StepUntouched
    <2>6. RequestsInv'
        BY <1>3, <2>4, <2>5, StepRequests
    <2>7. CopiedInv' /\ PendingInv'
        BY <1>1, <1>3, <2>2, <2>3, StepCopied, StepPending
    <2>8. QED BY <2>4, <2>6, <2>7
<1>6. CASE request[q].status = "PENDING"
    <2>1. PICK a \in {"copy", "deny"} : /\ askCall' = [askCall EXCEPT ![c].at = a, ![c].content = request[q].content]
                                        /\ a = "deny" <=> x.verdict # "approved"
        <3> DEFINE a == IF x.verdict = "approved" THEN "copy" ELSE "deny"
        <3>1. askCall' = [askCall EXCEPT ![c].at = a, ![c].content = request[q].content]
            BY <1>1, <1>2, <1>6 DEF ProfileFinds
        <3>2. QED BY <3>1
    <2>2. PICK n \in Data : n = request[q].content
        BY DEF RequestRows, RequestRow
    <2> DEFINE s == TellAt(x, a, n)
    <2>3. /\ s \in AskCall /\ AskFits(s) /\ s.at = a /\ s.r = q /\ s.i = x.i /\ s.verdict = x.verdict /\ s.content = n
        <3>1. x.at \in Reviewed
            BY <1>1 DEF Reviewed
        <3>2. QED BY <1>1, <1>2, <2>1, <3>1, TellFits
    <2>4. askCall' = [askCall EXCEPT ![c] = s]
        BY <1>1, <2>1, <2>2 DEF TellAt
    <2> HIDE DEF s
    <2>5. askCall'[c] = s /\ \A d \in AskCalls : d # c => askCall'[d] = askCall[d]
        BY <2>3, <2>4, AskChanges
    <2>6. ProfileRows'
        BY <1>2, <1>3, <1>4, <2>3, <2>4, StepRows
    <2>7. RequestsInv'
        <3>1. {x.at, s.at} \subseteq Reviewed
            BY <1>1, <2>3 DEF Reviewed
        <3>2. ASSUME NEW r \in Requests PROVE Untouched(r)
            <4>1. request'[r].status = request[r].status /\ request'[r].wf = request[r].wf
                BY <1>3
            <4>2. x.r = s.r /\ s.i = x.i /\ s.verdict = x.verdict
                BY <1>2, <2>3
            <4>3. QED BY <1>1, <1>3, <2>3, <2>4, <3>1, <4>1, <4>2, StepUntouched
        <3>3. QED BY <1>3, <2>6, <3>2, StepRequests
    <2>8. CopiedInv'
        <3>1. CASE Clean'
            <4>1. Clean
                BY <1>3, <3>1 DEF Clean
            <4>2. \A d \in AskCalls, r \in Requests : AskAt(d, r, {"stamp"})' <=> AskAt(d, r, {"stamp"})
                BY <1>1, <2>3, <2>5 DEF AskAt
            <4>3. \A d \in AskCalls : askCall'[d].at \in {"copy", "stamp"} => askCall'[d].content = request[askCall'[d].r].content
                BY <2>2, <2>3, <2>5, <4>1 DEF CopiedInv
            <4>4. \A d \in AskCalls, f \in Fields \ patched :
                      askCall'[d].at = "stamp" /\ askCall'[d].content[f] # 0 => profile[f] = askCall'[d].content[f]
                BY <2>3, <2>5, <4>1 DEF CopiedInv
            <4>5. \A r \in Requests, f \in Fields : Overwrites(r, f)' <=> Overwrites(r, f)
                BY <1>3, <4>2 DEF Overwrites
            <4>6. \A r \in Requests, f \in Fields \ patched :
                      request[r].status = "APPROVED" /\ request[r].content[f] # 0 /\ (\A p \in Requests : p > r => ~Overwrites(p, f)')
                      => profile[f] = request[r].content[f]
                BY <4>1, <4>5 DEF CopiedInv
            <4>7. QED BY <1>3, <4>3, <4>4, <4>6 DEF CopiedInv
        <3>2. QED BY <3>1 DEF CopiedInv
    <2>9. PendingInv'
        BY <1>3, <2>3, <2>5, StepPending
    <2>10. QED BY <2>6, <2>7, <2>8, <2>9
<1>7. QED BY <1>5, <1>6

\* While nothing went astray, one call at a time tells of a review, and what it tells of is the last request.
LEMMA OneTeller ==
    ASSUME ProfileInv, Clean, NEW c \in AskCalls, NEW q \in Requests, AskAt(c, q, Reviewed)
    PROVE  /\ request[q].status = "PENDING"
           /\ \A r \in Requests : request[r].status \notin {"none", "PENDING"} => r < q
           /\ \A d \in AskCalls : askCall[d].at \in Reviewed => d = c
<1> USE DEF ProfileInv
<1>1. astray = {} /\ ~doubled
    BY DEF Clean
<1>2. \A r \in Requests : ReviewedInv(r)
    BY <1>1 DEF RequestsInv, OneRequestInv
<1>3. request[q].status = "PENDING" /\ \A d \in AskCalls : AskAt(d, q, Reviewed) => d = c
    BY <1>2 DEF ReviewedInv
<1>4. \A p, r \in Requests : request[p].status = "PENDING" /\ r > p => request[r].status = "none"
    BY <1>1 DEF PendingInv, PendingRequests
<1>5. \A r \in Requests : request[r].status \notin {"none", "PENDING"} => r < q
    <2>1. ASSUME NEW r \in Requests, request[r].status \notin {"none", "PENDING"} PROVE r < q
        <3>1. ~(r > q) /\ r # q
            BY <1>3, <1>4, <2>1
        <3>2. QED BY <3>1, ProfileAssumptions
    <2>2. QED BY <2>1
<1>6. ASSUME NEW d \in AskCalls, askCall[d].at \in Reviewed PROVE d = c
    <2>1. PICK p \in Requests : p = askCall[d].r
        <3>1. askCall[d].r # 0 /\ askCall[d].r \in Requests \cup {0}
            BY <1>6 DEF ProfileRows, AskRows, AskFits, AskCall, Reviewed
        <3>2. QED BY <3>1
    <2>2. AskAt(d, p, Reviewed)
        BY <1>6, <2>1 DEF AskAt
    <2>3. request[p].status = "PENDING"
        BY <1>2, <2>2 DEF ReviewedInv
    <2>4. ~(p > q) /\ ~(q > p)
        BY <1>3, <1>4, <2>3
    <2>5. p = q
        BY <2>4, ProfileAssumptions
    <2>6. QED BY <1>3, <2>2, <2>5
<1>7. QED BY <1>3, <1>5, <1>6

\* The employee's row is written.
LEMMA ProfileCopiesKeeps == ASSUME ProfileInv, NEW c \in AskCalls, ProfileCopies(c) PROVE ProfileInv'
<1> USE DEF ProfileInv, ProfileRows
<1>1. PICK x \in AskCall : x = askCall[c] /\ AskFits(x) /\ x.at = "copy"
    BY DEF AskRows, ProfileCopies
<1>2. PICK q \in Requests : q = x.r /\ request[q].status # "none" /\ q # 0
    <2>1. x.r # 0 /\ x.r \in Requests \cup {0}
        BY <1>1 DEF AskFits, AskCall
    <2>2. QED BY <1>1, <2>1 DEF AskRows
<1>3. UNCHANGED << inst, request, about, stream, seen, doubled, amended >>
    BY DEF ProfileCopies
<1>4. CASE astray' = astray \cup {q} /\ Answers(c) /\ UNCHANGED << profile, patched >>
    BY <1>1, <1>2, <1>3, <1>4, GiveUpKeeps
<1>5. CASE /\ profile' = Merged(profile, x.content) /\ patched' = {f \in patched : x.content[f] = 0}
           /\ Moves(c, "stamp") /\ UNCHANGED astray
    <2> DEFINE s == [x EXCEPT !.at = "stamp"]
    <2>1. s \in AskCall /\ s.at = "stamp" /\ s.r = q /\ s.i = x.i /\ s.verdict = x.verdict /\ s.content = x.content
        BY <1>2 DEF AskCall, AskSteps
    <2>2. askCall' = [askCall EXCEPT ![c] = s]
        BY <1>1, <1>5 DEF Moves
    <2> HIDE DEF s
    <2>3. AskFits(s)
        <3>1. x.verdict = "approved"
            BY <1>1 DEF AskFits
        <3>2. QED BY <1>2, <2>1, <3>1 DEF AskFits, Reviewed, Verdicts
    <2>4. askCall'[c] = s /\ \A d \in AskCalls : d # c => askCall'[d] = askCall[d]
        BY <2>1, <2>2, AskChanges
    <2>5. ProfileRows'
        <3>1. /\ request' \in [Requests -> RequestRow] /\ profile' \in Data /\ patched' \subseteq Fields
              /\ astray' \subseteq Requests /\ amended' \subseteq Requests /\ doubled' \in BOOLEAN
              /\ \A r \in Requests : request'[r].wf # 0 => about[request'[r].wf] = r
            <4>1. x.content \in Data /\ profile \in Data /\ patched \subseteq Fields
                BY DEF RequestRows, AskCall
            <4>2. profile' \in Data /\ patched' \subseteq Fields
                BY <1>5, <4>1 DEF Merged, Data
            <4>3. QED BY <1>3, <1>5, <4>2 DEF RequestRows
        <3>2. QED BY <1>2, <1>3, <2>1, <2>2, <2>3, <3>1, StepRows
    <2>6. RequestsInv'
        <3>1. {x.at, s.at} \subseteq Reviewed
            BY <1>1, <2>1 DEF Reviewed
        <3>2. ASSUME NEW r \in Requests PROVE Untouched(r)
            <4>1. request'[r].status = request[r].status /\ request'[r].wf = request[r].wf
                BY <1>3
            <4>2. x.r = s.r /\ s.i = x.i /\ s.verdict = x.verdict
                BY <1>2, <2>1
            <4>3. QED BY <1>1, <1>3, <2>1, <2>2, <3>1, <4>1, <4>2, StepUntouched
        <3>3. QED BY <1>5, <2>5, <3>2, StepRequests
    <2>7. CopiedInv'
        <3>1. CASE Clean'
            <4>1. Clean
                BY <1>3, <1>5, <3>1 DEF Clean
            <4>2. AskAt(c, q, Reviewed)
                BY <1>1, <1>2 DEF AskAt, Reviewed
            <4>3. /\ request[q].status = "PENDING"
                  /\ \A r \in Requests : request[r].status \notin {"none", "PENDING"} => r < q
                  /\ \A d \in AskCalls : askCall[d].at \in Reviewed => d = c
                BY <4>1, <4>2, OneTeller
            <4>4. \A d \in AskCalls : askCall'[d].at \in {"copy", "stamp"} => d = c
                BY <2>4, <4>3 DEF Reviewed
            <4>5. x.content = request[q].content
                BY <1>1, <1>2, <4>1 DEF CopiedInv
            <4>6. AskAt(c, q, {"stamp"})'
                BY <2>1, <2>4 DEF AskAt
            <4>7. \A r \in Requests : request'[r].status = "APPROVED" => q > r
                <5>1. ASSUME NEW r \in Requests, request[r].status = "APPROVED" PROVE q > r
                    <6>1. r < q
                        BY <4>3, <5>1
                    <6>2. QED BY <6>1
                <5>2. QED BY <1>3, <5>1
            <4>8. \A d \in AskCalls : askCall'[d].at \in {"copy", "stamp"} =>
                      askCall'[d].content = request'[askCall'[d].r].content /\ askCall'[d].content = x.content
                BY <1>3, <2>1, <2>4, <4>4, <4>5
            <4>9. ASSUME NEW f \in Fields
                  PROVE  /\ x.content[f] # 0 => profile'[f] = x.content[f]
                         /\ x.content[f] = 0 => profile'[f] = profile[f] /\ (f \in patched' <=> f \in patched)
                BY <1>5 DEF Merged
            <4>10. ASSUME NEW r \in Requests, NEW f \in Fields \ patched', request'[r].status = "APPROVED",
                          request'[r].content[f] # 0, \A p \in Requests : p > r => ~Overwrites(p, f)'
                   PROVE  profile'[f] = request'[r].content[f]
                <5>1. x.content[f] = 0
                    BY <1>3, <4>5, <4>6, <4>7, <4>10 DEF Overwrites
                <5>2. \A p \in Requests : p > r => ~Overwrites(p, f)
                    <6>1. ASSUME NEW p \in Requests, p > r, Overwrites(p, f) PROVE FALSE
                        <7>1. CASE request[p].status = "APPROVED"
                            BY <1>3, <4>10, <6>1, <7>1 DEF Overwrites
                        <7>2. CASE request[p].status # "APPROVED"
                            <8>1. PICK d \in AskCalls : askCall[d].at = "stamp"
                                BY <6>1, <7>2 DEF Overwrites, AskAt
                            <8>2. d = c
                                BY <4>3, <8>1 DEF Reviewed
                            <8>3. QED BY <1>1, <8>1, <8>2
                        <7>3. QED BY <7>1, <7>2
                    <6>2. QED BY <6>1
                <5>3. profile[f] = request[r].content[f]
                    BY <1>3, <4>1, <4>9, <4>10, <5>1, <5>2 DEF CopiedInv
                <5>4. QED BY <1>3, <4>9, <5>1, <5>3
            <4>11. QED BY <4>8, <4>9, <4>10 DEF CopiedInv
        <3>2. QED BY <3>1 DEF CopiedInv
    <2>8. PendingInv'
        BY <1>3, <2>1, <2>4, StepPending
    <2>9. QED BY <2>5, <2>6, <2>7, <2>8
<1>6. QED BY <1>1, <1>2, <1>4, <1>5 DEF ProfileCopies

\* The request is approved or denied, and the call is over.
LEMMA ProfileStampsKeeps == ASSUME ProfileInv, NEW c \in AskCalls, ProfileStamps(c) PROVE ProfileInv'
<1> USE DEF ProfileInv, ProfileRows
<1>1. PICK x \in AskCall : x = askCall[c] /\ AskFits(x) /\ x.at \in {"stamp", "deny"}
    BY DEF AskRows, ProfileStamps
<1>2. PICK q \in Requests : q = x.r /\ request[q].status # "none" /\ q # 0
    <2>1. x.r # 0 /\ x.r \in Requests \cup {0}
        BY <1>1 DEF AskFits, AskCall
    <2>2. QED BY <1>1, <2>1 DEF AskRows
<1>3. UNCHANGED << inst, profile, patched, about, stream, seen, doubled, amended >> /\ Answers(c)
    BY DEF ProfileStamps
<1>4. CASE astray' = astray \cup {q} /\ UNCHANGED request
    BY <1>1, <1>2, <1>3, <1>4, GiveUpKeeps
<1>5. CASE request' = [request EXCEPT ![q].status = IF x.at = "stamp" THEN "APPROVED" ELSE "DENIED"] /\ UNCHANGED astray
    <2>0. PICK a \in {"APPROVED", "DENIED"} : a = "APPROVED" <=> x.at = "stamp"
        OBVIOUS
    <2> DEFINE row == [request[q] EXCEPT !.status = a]
    <2>1. request[q] \in RequestRow /\ request \in [Requests -> RequestRow]
        BY DEF RequestRows
    <2>2. row \in RequestRow /\ row.status = a /\ row.wf = request[q].wf /\ row.content = request[q].content
        BY <2>1 DEF RequestRow, RequestStatuses
    <2>3. request' = [request EXCEPT ![q] = row]
        <3>1. a = IF x.at = "stamp" THEN "APPROVED" ELSE "DENIED"
            BY <2>0
        <3>2. QED BY <1>5, <3>1
    <2> HIDE DEF row
    <2>4. /\ request' \in [Requests -> RequestRow] /\ request'[q] = row
          /\ \A r \in Requests : r # q => request'[r] = request[r]
          /\ \A r \in Requests : request'[r].wf = request[r].wf /\ request'[r].content = request[r].content
        BY <2>1, <2>2, <2>3
    <2>5. NoAskCall \in AskCall /\ AskFits(NoAskCall) /\ NoAskCall.at = "idle" /\ NoAskCall.r = 0
        BY NoAskCallFits
    <2>6. askCall' = [askCall EXCEPT ![c] = NoAskCall]
        BY <1>3 DEF Answers
    <2>7. askCall'[c] = NoAskCall /\ \A d \in AskCalls : d # c => askCall'[d] = askCall[d]
        BY <2>5, <2>6, AskChanges
    <2>8. ProfileRows'
        <3>1. \A r \in Requests : request'[r].status = "none" <=> request[r].status = "none"
            BY <1>2, <2>0, <2>2, <2>4
        <3>2. /\ profile' \in Data /\ patched' \subseteq Fields /\ astray' \subseteq Requests /\ amended' \subseteq Requests /\ doubled' \in BOOLEAN
              /\ \A r \in Requests : request'[r].wf # 0 => about[request'[r].wf] = r
            BY <1>3, <1>5, <2>4 DEF RequestRows
        <3>3. QED BY <1>3, <2>4, <2>5, <2>6, <3>1, <3>2, StepRows
    <2>9. AskAt(c, q, Reviewed)
        BY <1>1, <1>2 DEF AskAt, Reviewed
    <2>10. RequestsInv'
        <3>1. ASSUME NEW r \in Requests, r # q PROVE Untouched(r)
            <4>1. r # 0
                BY ProfileAssumptions
            <4>2. x.r # r /\ NoAskCall.r # r /\ request'[r].status = request[r].status /\ request'[r].wf = request[r].wf
                BY <1>2, <2>4, <2>5, <3>1, <4>1
            <4>3. QED BY <1>1, <1>3, <2>5, <2>6, <4>2, StepUntouched
        <3>2. ASSUME q \notin astray PROVE OneRequestInv(q)'
            <4>1. OneRequestInv(q)
                BY <3>2 DEF RequestsInv
            <4>2. PICK w \in Instances : w = request[q].wf /\ w # 0
                BY <2>1, <2>9, <4>1 DEF OneRequestInv, ReviewedInv, RequestRow
            <4>3. /\ inst[w].said = << x.verdict >> /\ inst[w].stage = "over"
                  /\ \A n \in DOMAIN stream : ~Unseen(n, q)
                  /\ \A d \in AskCalls : AskAt(d, q, Reviewed) => d = c
                BY <1>1, <2>9, <4>1, <4>2 DEF OneRequestInv, ReviewedInv
            <4>4. Newest(w, q)
                BY <4>1, <4>2, <4>3 DEF OneRequestInv, NamesInv
            <4>5. \A d \in AskCalls : ~AskAt(d, q, {"start", "write"})
                BY <4>1, <4>2 DEF OneRequestInv, StartingInv
            <4>6. \A d \in AskCalls : /\ ~AskAt(d, q, {"start"})' /\ ~AskAt(d, q, {"write"})'
                                      /\ ~AskAt(d, q, {"start", "write"})' /\ ~AskAt(d, q, Reviewed)'
                <5>1. ASSUME NEW d \in AskCalls PROVE ~AskAt(d, q, {"start", "write"} \cup Reviewed)'
                    <6>1. CASE d = c
                        BY <1>2, <2>5, <2>7, <6>1 DEF AskAt
                    <6>2. CASE d # c
                        BY <2>7, <4>3, <4>5, <6>2 DEF AskAt
                    <6>3. QED BY <6>1, <6>2
                <5>2. QED BY <5>1 DEF AskAt
            <4>7. StartingInv(q)' /\ ReviewedInv(q)'
                BY <4>6 DEF StartingInv, ReviewedInv
            <4>8. \A n \in DOMAIN stream' : ~Unseen(n, q)'
                BY <1>3, <4>3 DEF Unseen
            <4>9. request'[q].wf = w /\ request'[q].status = a
                BY <2>2, <2>4, <4>2
            <4>10. Newest(request[q].wf, q)'
                BY <1>3, <4>4, <4>9 DEF Newest
            <4>11. ~OpenTask(request[q].wf)'
                BY <1>3, <4>3, <4>9 DEF OpenTask
            <4>12. a = "APPROVED" => inst'[w].said = << "approved" >>
                BY <1>1, <1>3, <2>0, <4>3 DEF AskFits
            <4>13. NamesInv(q)'
                BY <2>0, <4>8, <4>9, <4>10, <4>11, <4>12 DEF NamesInv
            <4>14. \A j, k \in Instances : about'[j] = q /\ about'[k] = q /\ j < k => inst'[j].stage = "ended"
                BY <1>3, <4>1 DEF OneRequestInv
            <4>15. QED BY <4>2, <4>7, <4>9, <4>13, <4>14 DEF OneRequestInv
        <3>3. QED BY <1>5, <2>8, <3>1, <3>2, StepRequests
    <2>11. CopiedInv'
        <3>1. CASE Clean'
            <4>1. Clean
                BY <1>3, <1>5, <3>1 DEF Clean
            <4>2. /\ request[q].status = "PENDING"
                  /\ \A r \in Requests : request[r].status \notin {"none", "PENDING"} => r < q
                  /\ \A d \in AskCalls : askCall[d].at \in Reviewed => d = c
                BY <2>9, <4>1, OneTeller
            <4>3. \A d \in AskCalls : askCall'[d].at \notin Reviewed
                BY <2>5, <2>7, <4>2 DEF Reviewed
            <4>4. \A f \in Fields \ patched :
                      x.at = "stamp" /\ request[q].content[f] # 0 => profile[f] = request[q].content[f]
                BY <1>1, <1>2, <4>1 DEF CopiedInv
            <4>5. ASSUME NEW r \in Requests, NEW f \in Fields \ patched', request'[r].status = "APPROVED",
                         request'[r].content[f] # 0, \A p \in Requests : p > r => ~Overwrites(p, f)'
                  PROVE  profile'[f] = request'[r].content[f]
                <5>1. CASE r = q
                    <6>1. x.at = "stamp" /\ request'[q].content = request[q].content
                        BY <2>0, <2>2, <2>4, <4>5, <5>1
                    <6>2. f \in Fields \ patched /\ request[q].content[f] # 0
                        BY <1>3, <4>5, <5>1, <6>1
                    <6>3. profile[f] = request[q].content[f]
                        BY <4>4, <6>1, <6>2
                    <6>4. QED BY <1>3, <5>1, <6>1, <6>3
                <5>2. CASE r # q
                    <6>1. request[r].status = "APPROVED" /\ request'[r] = request[r]
                        BY <2>4, <4>5, <5>2
                    <6>2. q > r
                        BY <4>2, <6>1
                    <6>3. \A p \in Requests : p > r => ~Overwrites(p, f)
                        <7>1. ASSUME NEW p \in Requests, p > r, Overwrites(p, f) PROVE FALSE
                            <8>1. request'[p].content[f] # 0
                                BY <2>4, <7>1 DEF Overwrites
                            <8>2. CASE request[p].status = "APPROVED"
                                <9>1. p # q
                                    BY <4>2, <8>2
                                <9>2. request'[p].status = "APPROVED"
                                    BY <2>4, <8>2, <9>1
                                <9>3. QED BY <4>5, <7>1, <8>1, <9>2 DEF Overwrites
                            <8>3. CASE request[p].status # "APPROVED"
                                <9>1. PICK d \in AskCalls : askCall[d].r = p /\ askCall[d].at = "stamp"
                                    BY <7>1, <8>3 DEF Overwrites, AskAt
                                <9>2. d = c
                                    BY <4>2, <9>1 DEF Reviewed
                                <9>3. p = q /\ x.at = "stamp"
                                    BY <1>1, <1>2, <9>1, <9>2
                                <9>4. request'[p].status = "APPROVED"
                                    BY <2>0, <2>2, <2>4, <9>3
                                <9>5. QED BY <4>5, <7>1, <8>1, <9>4 DEF Overwrites
                            <8>4. QED BY <8>2, <8>3
                        <7>2. QED BY <7>1
                    <6>4. f \in Fields \ patched /\ request[r].content[f] # 0
                        BY <1>3, <4>5, <6>1
                    <6>5. profile[f] = request[r].content[f]
                        BY <4>1, <6>1, <6>3, <6>4 DEF CopiedInv
                    <6>6. QED BY <1>3, <6>1, <6>5
                <5>3. QED BY <5>1, <5>2
            <4>6. QED BY <4>3, <4>5 DEF CopiedInv, Reviewed
        <3>2. QED BY <3>1 DEF CopiedInv
    <2>12. PendingInv'
        <3>1. \A r \in Requests : /\ request'[r].status = "PENDING" => request[r].status = "PENDING"
                                  /\ request[r].status = "none" => request'[r].status = "none"
            BY <1>2, <2>0, <2>2, <2>4
        <3>2. QED BY <1>3, <2>5, <2>7, <3>1, StepPending
    <2>13. QED BY <2>8, <2>10, <2>11, <2>12
<1>6. QED BY <1>1, <1>2, <1>4, <1>5 DEF ProfileStamps

\* An approval of one review is over once it is reviewed, and has said nothing when it is cancelled.
LEMMA OneReview ==
    ASSUME AboutRows, NEW i \in Instances, NEW v \in Verdicts, CompleteReview(i, v, 1)
    PROVE  /\ InstInv' /\ inst[i].stage = "first" /\ inst'[i].stage = "over" /\ inst'[i].said = << v >>
           /\ \A j \in Instances : j # i => inst'[j] = inst[j]
<1>1. InstInv /\ inst[i].stage # "second"
    BY DEF AboutRows
<1>2. 1 \in {1, 2} /\ 1 # 2
    OBVIOUS
<1>3. /\ InstInv'
      /\ \/ inst[i].stage = "first" /\ inst[i].said = << >> /\ inst'[i].said = << v >>
         \/ inst[i].stage = "second" /\ inst[i].said = << "approved" >> /\ inst'[i].said = << "approved", v >>
      /\ inst'[i].stage = IF v = "approved" /\ inst[i].stage = "first" /\ 1 = 2 THEN "second" ELSE "over"
      /\ \A j \in Instances : j # i => inst'[j] = inst[j]
    BY <1>1, <1>2, InstReviewed
<1>4. QED BY <1>1, <1>2, <1>3

LEMMA OneEnd ==
    ASSUME AboutRows, NEW i \in Instances, EndInstance(i)
    PROVE  /\ InstInv' /\ inst[i].stage = "first" /\ inst'[i].stage = "ended" /\ inst'[i].said = << >>
           /\ \A j \in Instances : j # i => inst'[j] = inst[j]
<1>1. Life(inst[i])
    BY DEF AboutRows, InstInv
<1>2. QED BY <1>1, InstEnds DEF AboutRows, Life

\* What an approval that ends leaves of the rows.
LEMMA EndedRows ==
    ASSUME AboutRows, NEW i \in Instances, InstInv', inst[i].stage = "first", inst'[i].stage \in {"over", "ended"},
           inst'[i].stage = "ended" => inst'[i].said = << >>,
           \A j \in Instances : j # i => inst'[j] = inst[j], about' = about
    PROVE  AboutRows'
<1>1. /\ \A j \in Instances : inst[j].stage # "second" /\ (inst[j].stage = "ended" => inst[j].said = << >>)
      /\ \A j \in Instances : about[j] = 0 <=> inst[j].stage = "none"
    BY DEF AboutRows
<1>2. ASSUME NEW j \in Instances
      PROVE  inst'[j].stage # "second" /\ (inst'[j].stage = "ended" => inst'[j].said = << >>) /\ (about[j] = 0 <=> inst'[j].stage = "none")
    <2>1. CASE j = i
        BY <1>1, <2>1
    <2>2. CASE j # i
        BY <1>1, <2>2
    <2>3. QED BY <2>1, <2>2
<1>3. QED BY <1>2 DEF AboutRows

\* An open approval whose request is at rest is the one the request names.
LEMMA AtRest ==
    ASSUME ProfileInv, NEW i \in Instances, inst[i].stage = "first", NEW q \in Requests \ astray, about[i] = q, ~Busy(q), Drained
    PROVE  /\ request[q].wf = i /\ request[q].status = "PENDING" /\ Newest(i, q)
           /\ \A n \in DOMAIN stream : ~Unseen(n, q)
<1> USE DEF ProfileInv, ProfileRows
<1>1. OneRequestInv(q)
    BY DEF RequestsInv
<1>2. \A c \in AskCalls : ~AskAt(c, q, {"start", "write"}) /\ ~AskAt(c, q, Reviewed)
    BY DEF Busy, AskAt
<1>3. i # 0 /\ q # 0
    BY InstancesAreNumbered, ProfileAssumptions
<1>4. request[q].status # "none"
    BY <1>3 DEF RequestRows
<1>5. PICK w \in Instances : w = request[q].wf /\ w # 0
    BY <1>1, <1>2, <1>4 DEF OneRequestInv, RequestRows, RequestRow
<1>6. \A n \in DOMAIN stream : ~Unseen(n, q)
    <2>1. \A n \in DOMAIN stream : ~(n > seen)
        BY DEF StreamRows, Drained
    <2>2. QED BY <2>1 DEF Unseen
<1>7. Newest(w, q) /\ (request[q].status = "PENDING" <=> OpenTask(w))
    BY <1>1, <1>2, <1>5, <1>6 DEF OneRequestInv, NamesInv
<1>8. i = w
    <2>1. ~(i < w)
        BY <1>1, <1>7 DEF OneRequestInv, Newest
    <2>2. i <= w
        BY <1>7 DEF Newest
    <2>3. QED BY <2>1, <2>2, InstancesAreNumbered
<1>9. QED BY <1>5, <1>6, <1>7, <1>8 DEF OpenTask

\* A review is completed, and a call is going to tell of it.
LEMMA ProfileDecidedKeeps == ASSUME ProfileInv, NEW c \in AskCalls, ProfileDecided(c) PROVE ProfileInv'
<1> USE DEF ProfileInv, ProfileRows
<1>1. PICK i \in Instances, v \in Verdicts :
         /\ CompleteReview(i, v, 1) /\ Strays(i) /\ Asks(c, [NoAskCall EXCEPT !.at = "find", !.r = about[i], !.verdict = v])
    BY DEF ProfileDecided
<1>2. UNCHANGED << request, profile, patched, about, stream, seen, doubled, amended >>
    BY DEF ProfileDecided
<1>3. /\ InstInv' /\ inst[i].stage = "first" /\ inst'[i].stage = "over" /\ inst'[i].said = << v >>
      /\ \A j \in Instances : j # i => inst'[j] = inst[j]
    BY <1>1, OneReview
<1>4. PICK q \in Requests : q = about[i] /\ q # 0 /\ request[q].status # "none"
    <2>1. about[i] # 0 /\ about[i] \in Requests
        BY <1>3 DEF AboutRows
    <2>2. QED BY <2>1 DEF RequestRows
<1> DEFINE s == [NoAskCall EXCEPT !.at = "find", !.r = q, !.verdict = v]
<1>5. s \in AskCall /\ s.at = "find" /\ s.r = q /\ s.verdict = v
    BY NoAskCallFits DEF AskCall, AskSteps
<1>6. askCall' = [askCall EXCEPT ![c] = s] /\ askCall[c].at = "idle"
    BY <1>1, <1>4 DEF Asks
<1> HIDE DEF s
<1>7. AskFits(s)
    BY <1>4, <1>5 DEF AskFits, Reviewed
<1>8. /\ askCall'[c] = s /\ \A d \in AskCalls : d # c => askCall'[d] = askCall[d]
      /\ askCall' \in [AskCalls -> AskCall] /\ \A d \in AskCalls : AskFits(askCall'[d])
    BY <1>5, <1>6, <1>7, AskChanges
<1>9. /\ astray \subseteq astray' /\ astray' \subseteq Requests /\ (q \notin astray' => ~Busy(q) /\ Drained)
    BY <1>1, <1>4 DEF Strays, RequestRows
<1>10. ProfileRows'
    <2>1. AboutRows'
        BY <1>2, <1>3, EndedRows
    <2>2. RequestRows'
        BY <1>2, <1>9 DEF RequestRows
    <2>3. \A d \in AskCalls : askCall'[d].r # 0 => request[askCall'[d].r].status # "none"
        BY <1>4, <1>5, <1>8 DEF AskRows
    <2>4. \A d \in AskCalls : askCall'[d].at = "write" => about[askCall'[d].i] = askCall'[d].r
        BY <1>5, <1>8 DEF AskRows
    <2>5. AskRows'
        BY <1>2, <1>8, <2>3, <2>4 DEF AskRows
    <2>6. StreamRows'
        BY <1>2 DEF StreamRows
    <2>7. QED BY <2>1, <2>2, <2>5, <2>6
<1>11. RequestsInv'
    <2>1. ASSUME NEW r \in Requests, r # q PROVE Untouched(r)
        <3>1. r # 0
            BY ProfileAssumptions
        <3>2. \A j \in Instances : (about'[j] = r <=> about[j] = r) /\ (about[j] = r => inst'[j] = inst[j])
            BY <1>2, <1>3, <1>4, <2>1
        <3>3. askCall[c].r = 0
            BY <1>6, NoAskCallFits DEF AskRows, AskFits
        <3>4. \A d \in AskCalls : askCall[d].r = r \/ askCall'[d].r = r => askCall'[d] = askCall[d]
            BY <1>5, <1>8, <2>1, <3>1, <3>3
        <3>5. QED BY <1>2, <3>2, <3>4 DEF Untouched
    <2>2. ASSUME q \notin astray' PROVE OneRequestInv(q)'
        <3>1. q \in Requests \ astray /\ ~Busy(q) /\ Drained /\ OneRequestInv(q)
            BY <1>9, <2>2 DEF RequestsInv
        <3>2. /\ request[q].wf = i /\ request[q].status = "PENDING" /\ Newest(i, q)
              /\ \A n \in DOMAIN stream : ~Unseen(n, q)
            BY <1>3, <1>4, <3>1, AtRest
        <3>3. \A d \in AskCalls : askCall'[d].r = q => d = c
            BY <1>8, <3>1 DEF Busy
        <3>4. \A d \in AskCalls : \A steps : AskAt(d, q, steps)' => d = c
            BY <3>3 DEF AskAt
        <3>5. /\ AskAt(c, q, Reviewed)' /\ ~AskAt(c, q, {"start"})' /\ ~AskAt(c, q, {"write"})' /\ ~AskAt(c, q, {"start", "write"})'
            BY <1>5, <1>8 DEF AskAt, Reviewed
        <3>6. \A n \in DOMAIN stream' : ~Unseen(n, q)'
            BY <1>2, <3>2 DEF Unseen
        <3>7. i # 0
            BY InstancesAreNumbered
        <3>8. \A d \in AskCalls : AskAt(d, q, Reviewed)' =>
                  inst'[i].said = << askCall'[d].verdict >> /\ \A e \in AskCalls : AskAt(e, q, Reviewed)' => e = d
            BY <1>3, <1>5, <1>8, <3>4
        <3>9. StartingInv(q)'
            BY <3>4, <3>5 DEF StartingInv
        <3>10. ReviewedInv(q)'
            BY <1>2, <1>3, <3>2, <3>6, <3>7, <3>8 DEF ReviewedInv
        <3>11. Newest(request[q].wf, q)'
            BY <1>2, <3>2 DEF Newest
        <3>12. NamesInv(q)'
            BY <3>5, <3>6, <3>11 DEF NamesInv
        <3>13. ASSUME NEW j \in Instances, NEW k \in Instances, about'[j] = q, about'[k] = q, j < k PROVE inst'[j].stage = "ended"
            <4>1. about[j] = q /\ about[k] = q /\ inst[j].stage = "ended"
                BY <1>2, <3>1, <3>13 DEF OneRequestInv
            <4>2. j # i
                BY <1>3, <4>1
            <4>3. QED BY <1>3, <4>1, <4>2
        <3>14. request'[q].wf # 0
            BY <1>2, <3>2, <3>7
        <3>15. QED BY <3>9, <3>10, <3>12, <3>13, <3>14 DEF OneRequestInv
    <2>3. QED BY <1>9, <1>10, <2>1, <2>2, StepRequests
<1>12. CopiedInv'
    <2>1. \A d \in AskCalls : askCall'[d].at \in {"copy", "stamp"} => askCall'[d] = askCall[d]
        BY <1>5, <1>8
    <2>2. \A d \in AskCalls : askCall[d].at = "stamp" => askCall'[d] = askCall[d]
        BY <1>6, <1>8
    <2>3. QED BY <1>2, <1>9, <2>1, <2>2, StepCopied
<1>13. PendingInv'
    BY <1>2, <1>5, <1>8, StepPending
<1>14. QED BY <1>10, <1>11, <1>12, <1>13

LEMMA StreamGrows ==
    ASSUME StreamRows, NEW e \in StreamEntry, stream' = Append(stream, e)
    PROVE  /\ stream' \in Seq(StreamEntry) /\ Len(stream') = Len(stream) + 1 /\ Len(stream) \in Nat
           /\ \A n \in DOMAIN stream : n \in DOMAIN stream' /\ stream'[n] = stream[n] /\ n \in Nat /\ n <= Len(stream)
           /\ \A n \in DOMAIN stream' : n \in DOMAIN stream \/ n = Len(stream) + 1
           /\ Len(stream) + 1 \in DOMAIN stream' /\ stream'[Len(stream) + 1] = e
<1>1. stream \in Seq(StreamEntry)
    BY DEF StreamRows
<1>2. /\ stream' \in Seq(StreamEntry) /\ Len(stream') = Len(stream) + 1 /\ Len(stream) \in Nat
      /\ DOMAIN stream' = 1..(Len(stream) + 1) /\ DOMAIN stream = 1..Len(stream)
      /\ \A n \in 1..Len(stream) : stream'[n] = stream[n]
      /\ stream'[Len(stream) + 1] = e
    BY <1>1
<1>3. QED BY <1>2

\* An approval is cancelled; the event stream says so.
LEMMA TerminatesKeeps == ASSUME ProfileInv, Terminates PROVE ProfileInv'
<1> USE DEF ProfileInv, ProfileRows
<1>1. PICK i \in Instances :
         /\ EndInstance(i) /\ Strays(i) /\ stream' = Append(stream, [type |-> "Terminated", i |-> i, from |-> 0])
    BY DEF Terminates
<1>2. UNCHANGED << request, profile, patched, askCall, about, seen, doubled, amended >> /\ Len(stream) < MaxEvents
    BY DEF Terminates
<1>3. /\ InstInv' /\ inst[i].stage = "first" /\ inst'[i].stage = "ended" /\ inst'[i].said = << >>
      /\ \A j \in Instances : j # i => inst'[j] = inst[j]
    BY <1>1, OneEnd
<1>4. PICK q \in Requests : q = about[i] /\ q # 0
    <2>1. about[i] # 0 /\ about[i] \in Requests
        BY <1>3 DEF AboutRows
    <2>2. QED BY <2>1
<1> DEFINE e == [type |-> "Terminated", i |-> i, from |-> 0]
<1>5. e \in StreamEntry /\ e.type = "Terminated" /\ e.i = i
    BY DEF StreamEntry
<1>6. stream' = Append(stream, e)
    BY <1>1
<1> HIDE DEF e
<1>0. PICK l \in Nat : l = Len(stream) + 1
    BY DEF StreamRows
<1>7. /\ stream' \in Seq(StreamEntry) /\ Len(stream') = l /\ Len(stream) \in Nat
      /\ \A n \in DOMAIN stream : n \in DOMAIN stream' /\ stream'[n] = stream[n] /\ n \in Nat /\ n <= Len(stream)
      /\ \A n \in DOMAIN stream' : n \in DOMAIN stream \/ n = l
      /\ l \in DOMAIN stream' /\ stream'[l] = e
    BY <1>0, <1>5, <1>6, StreamGrows
<1>8. seen \in Nat /\ seen <= Len(stream) /\ l > seen /\ l <= MaxEvents /\ seen \in 0..l
    BY <1>0, <1>2, <1>7, ProfileAssumptions DEF StreamRows
<1>9. /\ astray \subseteq astray' /\ astray' \subseteq Requests /\ (q \notin astray' => ~Busy(q) /\ Drained)
    BY <1>1, <1>4 DEF Strays, RequestRows
<1>10. ProfileRows'
    <2>1. AboutRows'
        BY <1>2, <1>3, EndedRows
    <2>2. RequestRows'
        BY <1>2, <1>9 DEF RequestRows
    <2>3. AskRows'
        BY <1>2 DEF AskRows
    <2>4. ASSUME NEW n \in DOMAIN stream'
          PROVE  /\ about[stream'[n].i] # 0
                 /\ stream'[n].type = "Restarted" =>
                       stream'[n].from \in Instances /\ about[stream'[n].from] = about[stream'[n].i] /\ doubled
        <3>1. CASE n = l
            BY <1>4, <1>5, <1>7, <3>1
        <3>2. CASE n \in DOMAIN stream
            BY <1>7, <3>2 DEF StreamRows
        <3>3. QED BY <1>7, <3>1, <3>2
    <2>5. StreamRows'
        BY <1>2, <1>7, <1>8, <2>4 DEF StreamRows
    <2>6. QED BY <2>1, <2>2, <2>3, <2>5
<1>11. RequestsInv'
    <2>1. ASSUME NEW r \in Requests, r # q PROVE Untouched(r)
        <3>1. \A j \in Instances : (about'[j] = r <=> about[j] = r) /\ (about[j] = r => inst'[j] = inst[j])
            BY <1>2, <1>3, <1>4, <2>1
        <3>2. about'[stream'[l].i] # r
            BY <1>2, <1>4, <1>5, <1>7, <2>1
        <3>3. \A n \in DOMAIN stream' : n > seen' /\ about'[stream'[n].i] = r => n \in DOMAIN stream /\ n > seen /\ stream'[n] = stream[n]
            BY <1>2, <1>7, <3>2
        <3>4. \A n \in DOMAIN stream : n > seen => n \in DOMAIN stream' /\ n > seen' /\ stream'[n] = stream[n]
            BY <1>2, <1>7
        <3>5. QED BY <1>2, <3>1, <3>3, <3>4 DEF Untouched
    <2>2. ASSUME q \notin astray' PROVE OneRequestInv(q)'
        <3>1. q \in Requests \ astray /\ ~Busy(q) /\ Drained /\ OneRequestInv(q)
            BY <1>9, <2>2 DEF RequestsInv
        <3>2. /\ request[q].wf = i /\ request[q].status = "PENDING" /\ Newest(i, q)
              /\ \A n \in DOMAIN stream : ~Unseen(n, q)
            BY <1>3, <1>4, <3>1, AtRest
        <3>3. \A d \in AskCalls : \A steps : ~AskAt(d, q, steps)'
            BY <1>2, <3>1 DEF Busy, AskAt
        <3>4. \A n \in DOMAIN stream' : Unseen(n, q)' => n = l
            BY <1>2, <1>7, <3>2 DEF Unseen
        <3>5. Unseen(l, q)'
            BY <1>2, <1>4, <1>5, <1>7, <1>8 DEF Unseen
        <3>6. i # 0
            BY InstancesAreNumbered
        <3>7. StartingInv(q)' /\ ReviewedInv(q)'
            BY <3>3 DEF StartingInv, ReviewedInv
        <3>8. Newest(request[q].wf, q)'
            BY <1>2, <3>2 DEF Newest
        <3>9. ASSUME NEW n \in DOMAIN stream', Unseen(n, q)'
              PROVE  /\ stream'[n].type = "Terminated"
                     /\ request'[q].wf = stream'[n].i /\ inst'[stream'[n].i].stage = "ended" /\ request'[q].status = "PENDING"
                     /\ \A m \in DOMAIN stream' : Unseen(m, q)' => m >= n
            <4>1. n = l
                BY <3>4, <3>9
            <4>2. \A m \in DOMAIN stream' : Unseen(m, q)' => m >= n
                BY <3>4, <4>1
            <4>3. QED BY <1>2, <1>3, <1>5, <1>7, <3>2, <4>1, <4>2
        <3>10. NamesInv(q)'
            BY <1>7, <3>5, <3>8, <3>9 DEF NamesInv
        <3>11. ASSUME NEW j \in Instances, NEW k \in Instances, about'[j] = q, about'[k] = q, j < k PROVE inst'[j].stage = "ended"
            <4>1. about[j] = q /\ about[k] = q /\ inst[j].stage = "ended"
                BY <1>2, <3>1, <3>11 DEF OneRequestInv
            <4>2. j # i
                BY <1>3, <4>1
            <4>3. QED BY <1>3, <4>1, <4>2
        <3>12. request'[q].wf # 0
            BY <1>2, <3>2, <3>6
        <3>13. QED BY <3>7, <3>10, <3>11, <3>12 DEF OneRequestInv
    <2>3. QED BY <1>9, <1>10, <2>1, <2>2, StepRequests
<1>12. CopiedInv'
    BY <1>2, <1>9, StepCopied
<1>13. PendingInv'
    BY <1>2, StepPending
<1>14. QED BY <1>10, <1>11, <1>12, <1>13

\* An approval that is over is cancelled: only the event stream says so.
LEMMA TerminatesAgainKeeps == ASSUME ProfileInv, TerminatesAgain PROVE ProfileInv'
<1> USE DEF ProfileInv, ProfileRows
<1>1. PICK i \in Instances :
         /\ inst[i].stage \in {"over", "ended"} /\ astray' = astray \cup {about[i]}
         /\ stream' = Append(stream, [type |-> "Terminated", i |-> i, from |-> 0])
    BY DEF TerminatesAgain
<1>2. UNCHANGED << inst, request, profile, patched, askCall, about, seen, doubled, amended >> /\ Len(stream) < MaxEvents
    BY DEF TerminatesAgain
<1>3. PICK q \in Requests : q = about[i] /\ q # 0
    <2>1. about[i] # 0 /\ about[i] \in Requests
        BY <1>1 DEF AboutRows
    <2>2. QED BY <2>1
<1> DEFINE e == [type |-> "Terminated", i |-> i, from |-> 0]
<1>4. e \in StreamEntry /\ e.type = "Terminated" /\ e.i = i
    BY DEF StreamEntry
<1>5. stream' = Append(stream, e)
    BY <1>1
<1> HIDE DEF e
<1>6. PICK l \in Nat : l = Len(stream) + 1
    BY DEF StreamRows
<1>7. /\ stream' \in Seq(StreamEntry) /\ Len(stream') = l /\ Len(stream) \in Nat
      /\ \A n \in DOMAIN stream : n \in DOMAIN stream' /\ stream'[n] = stream[n] /\ n \in Nat /\ n <= Len(stream)
      /\ \A n \in DOMAIN stream' : n \in DOMAIN stream \/ n = l
      /\ l \in DOMAIN stream' /\ stream'[l] = e
    BY <1>4, <1>5, <1>6, StreamGrows
<1>8. seen \in Nat /\ seen <= Len(stream) /\ l <= MaxEvents /\ seen \in 0..l
    BY <1>2, <1>6, <1>7, ProfileAssumptions DEF StreamRows
<1>9. astray \subseteq astray' /\ astray' \subseteq Requests /\ q \in astray'
    BY <1>1, <1>3 DEF RequestRows
<1>10. ProfileRows'
    <2>1. AboutRows'
        BY <1>2 DEF AboutRows, InstInv
    <2>2. RequestRows'
        BY <1>2, <1>9 DEF RequestRows
    <2>3. AskRows'
        BY <1>2 DEF AskRows
    <2>4. ASSUME NEW n \in DOMAIN stream'
          PROVE  /\ about[stream'[n].i] # 0
                 /\ stream'[n].type = "Restarted" =>
                       stream'[n].from \in Instances /\ about[stream'[n].from] = about[stream'[n].i] /\ doubled
        <3>1. CASE n = l
            BY <1>3, <1>4, <1>7, <3>1
        <3>2. CASE n \in DOMAIN stream
            BY <1>7, <3>2 DEF StreamRows
        <3>3. QED BY <1>7, <3>1, <3>2
    <2>5. StreamRows'
        BY <1>2, <1>7, <1>8, <2>4 DEF StreamRows
    <2>6. QED BY <2>1, <2>2, <2>3, <2>5
<1>11. RequestsInv'
    <2>1. ASSUME NEW r \in Requests, r # q PROVE Untouched(r)
        <3>1. about'[stream'[l].i] # r
            BY <1>2, <1>3, <1>4, <1>7, <2>1
        <3>2. \A n \in DOMAIN stream' : n > seen' /\ about'[stream'[n].i] = r => n \in DOMAIN stream /\ n > seen /\ stream'[n] = stream[n]
            BY <1>2, <1>7, <3>1
        <3>3. \A n \in DOMAIN stream : n > seen => n \in DOMAIN stream' /\ n > seen' /\ stream'[n] = stream[n]
            BY <1>2, <1>7
        <3>4. QED BY <1>2, <3>2, <3>3 DEF Untouched
    <2>2. QED BY <1>9, <1>10, <2>1, StepRequests
<1>12. CopiedInv'
    BY <1>2, <1>9, StepCopied
<1>13. PendingInv'
    BY <1>2, StepPending
<1>14. QED BY <1>10, <1>11, <1>12, <1>13

\* A review is completed in the service, and no call tells of it.
LEMMA ProfileOverruledKeeps == ASSUME ProfileInv, ProfileOverruled PROVE ProfileInv'
<1> USE DEF ProfileInv, ProfileRows
<1>1. PICK i \in Instances, v \in Verdicts : CompleteReview(i, v, 1) /\ astray' = astray \cup {about[i]}
    BY DEF ProfileOverruled
<1>2. UNCHANGED << request, profile, patched, askCall, about, stream, seen, doubled, amended >>
    BY DEF ProfileOverruled
<1>3. /\ InstInv' /\ inst[i].stage = "first" /\ inst'[i].stage = "over" /\ inst'[i].said = << v >>
      /\ \A j \in Instances : j # i => inst'[j] = inst[j]
    BY <1>1, OneReview
<1>4. PICK q \in Requests : q = about[i]
    <2>1. about[i] # 0 /\ about[i] \in Requests
        BY <1>3 DEF AboutRows
    <2>2. QED BY <2>1
<1>5. astray \subseteq astray' /\ astray' \subseteq Requests /\ q \in astray'
    BY <1>1, <1>4 DEF RequestRows
<1>6. ProfileRows'
    <2>1. AboutRows'
        BY <1>2, <1>3, EndedRows
    <2>2. RequestRows'
        BY <1>2, <1>5 DEF RequestRows
    <2>3. AskRows'
        BY <1>2 DEF AskRows
    <2>4. StreamRows'
        BY <1>2 DEF StreamRows
    <2>5. QED BY <2>1, <2>2, <2>3, <2>4
<1>7. RequestsInv'
    <2>1. ASSUME NEW r \in Requests, r # q PROVE Untouched(r)
        <3>1. \A j \in Instances : about[j] = r => inst'[j] = inst[j]
            BY <1>3, <1>4, <2>1
        <3>2. QED BY <1>2, <3>1 DEF Untouched
    <2>2. QED BY <1>5, <1>6, <2>1, StepRequests
<1>8. CopiedInv'
    BY <1>2, <1>5, StepCopied
<1>9. PendingInv'
    BY <1>2, StepPending
<1>10. QED BY <1>6, <1>7, <1>8, <1>9

\* The employee is edited: what the fields that were not set say, they still say.
LEMMA ProfilePatchedKeeps == ASSUME ProfileInv, ProfilePatched PROVE ProfileInv'
<1> USE DEF ProfileInv, ProfileRows
<1>1. PICK fields \in SUBSET Fields, new \in Data :
         /\ profile' = [f \in Fields |-> IF f \in fields THEN new[f] ELSE profile[f]]
         /\ patched' = patched \cup fields
    BY DEF ProfilePatched
<1>2. UNCHANGED << inst, request, askCall, about, stream, seen, astray, doubled, amended >>
    BY DEF ProfilePatched
<1>3. profile \in Data /\ patched \subseteq Fields
    BY DEF RequestRows
<1>4. profile' \in Data /\ patched' \subseteq Fields
    BY <1>1, <1>3 DEF Data
<1>5. ProfileRows'
    BY <1>2, <1>4 DEF AboutRows, InstInv, RequestRows, AskRows, StreamRows
<1>6. RequestsInv'
    <2>1. \A r \in Requests : Untouched(r)
        BY <1>2 DEF Untouched
    <2>2. QED BY <1>2, <1>5, <2>1, StepRequests
<1>7. CopiedInv'
    <2>1. \A f \in Fields \ patched' : f \in Fields \ patched /\ profile'[f] = profile[f]
        BY <1>1
    <2>2. \A q \in Requests, f \in Fields : Overwrites(q, f)' <=> Overwrites(q, f)
        BY <1>2 DEF Overwrites, AskAt
    <2>3. Clean' <=> Clean
        BY <1>2 DEF Clean
    <2>4. CASE Clean
        <3>1. \A c \in AskCalls : askCall[c].at \in {"copy", "stamp"} => askCall[c].content = request[askCall[c].r].content
            BY <2>4 DEF CopiedInv
        <3>2. \A c \in AskCalls, f \in Fields \ patched' :
                 askCall[c].at = "stamp" /\ askCall[c].content[f] # 0 => profile'[f] = askCall[c].content[f]
            BY <2>1, <2>4 DEF CopiedInv
        <3>3. \A r \in Requests, f \in Fields \ patched' :
                 request[r].status = "APPROVED" /\ request[r].content[f] # 0 /\ (\A q \in Requests : q > r => ~Overwrites(q, f)')
                 => profile'[f] = request[r].content[f]
            BY <2>1, <2>2, <2>4 DEF CopiedInv
        <3>4. QED BY <1>2, <3>1, <3>2, <3>3 DEF CopiedInv
    <2>5. QED BY <2>3, <2>4 DEF CopiedInv
<1>8. PendingInv'
    BY <1>2, StepPending
<1>9. QED BY <1>5, <1>6, <1>7, <1>8

\* A cancelled approval is restarted; the event stream says so.
LEMMA RestartsKeeps == ASSUME ProfileInv, Restarts PROVE ProfileInv'
<1> USE DEF ProfileInv, ProfileRows
<1>1. PICK i \in Instances, old \in Instances :
         /\ inst[old].stage = "ended" /\ StartInstance(i)
         /\ about' = [about EXCEPT ![i] = about[old]]
         /\ astray' = IF Busy(about[old]) \/ Restarted(old) THEN astray \cup {about[old]} ELSE astray
         /\ stream' = Append(stream, [type |-> "Restarted", i |-> i, from |-> old])
    BY DEF Restarts
<1>2. UNCHANGED << request, profile, patched, askCall, seen, amended >> /\ doubled' = TRUE /\ Len(stream) < MaxEvents
    BY DEF Restarts
<1>3. PICK q \in Requests : q = about[old] /\ q # 0 /\ request[q].status # "none"
    <2>1. about[old] # 0 /\ about[old] \in Requests
        BY <1>1 DEF AboutRows
    <2>2. QED BY <2>1 DEF RequestRows
<1>4. /\ AboutRows' /\ about[i] = 0 /\ about'[i] = q /\ inst'[i].stage = "first"
      /\ \A j \in Instances : j # i => about'[j] = about[j] /\ inst'[j] = inst[j]
      /\ \A j \in Instances : about[j] # 0 => j < i
    BY <1>1, <1>3, ProfileStarts
<1> DEFINE e == [type |-> "Restarted", i |-> i, from |-> old]
<1>5. e \in StreamEntry /\ e.type = "Restarted" /\ e.i = i /\ e.from = old
    BY DEF StreamEntry
<1>6. stream' = Append(stream, e)
    BY <1>1
<1> HIDE DEF e
<1>0. PICK l \in Nat : l = Len(stream) + 1
    BY DEF StreamRows
<1>7. /\ stream' \in Seq(StreamEntry) /\ Len(stream') = l /\ Len(stream) \in Nat
      /\ \A n \in DOMAIN stream : n \in DOMAIN stream' /\ stream'[n] = stream[n] /\ n \in Nat /\ n <= Len(stream)
      /\ \A n \in DOMAIN stream' : n \in DOMAIN stream \/ n = l
      /\ l \in DOMAIN stream' /\ stream'[l] = e
    BY <1>0, <1>5, <1>6, StreamGrows
<1>8. seen \in Nat /\ seen <= Len(stream) /\ l > seen /\ l <= MaxEvents /\ seen \in 0..l
    BY <1>0, <1>2, <1>7, ProfileAssumptions DEF StreamRows
<1>9. /\ astray \subseteq astray' /\ astray' \subseteq Requests /\ (q \notin astray' => ~Busy(q) /\ ~Restarted(old))
    BY <1>1, <1>3 DEF RequestRows
<1>10. \A n \in DOMAIN stream : stream[n].i \in Instances /\ stream[n].i # i /\ about'[stream[n].i] = about[stream[n].i]
    <2>1. \A n \in DOMAIN stream : stream[n].i \in Instances /\ about[stream[n].i] # 0
        BY EntryRow DEF StreamRows
    <2>2. QED BY <1>4, <2>1
<1>11. ProfileRows'
    <2>1. RequestRows'
        BY <1>2, <1>3, <1>4, <1>9, StartedRows
    <2>2. ASSUME NEW d \in AskCalls, askCall[d].at = "write" PROVE about'[askCall[d].i] = askCall[d].r
        <3>1. askCall[d].i \in Instances /\ about[askCall[d].i] = askCall[d].r /\ askCall[d].r # 0
            BY <2>2 DEF AskRows, AskFits
        <3>2. QED BY <1>4, <3>1
    <2>3. AskRows'
        BY <1>2, <2>2 DEF AskRows
    <2>4. ASSUME NEW n \in DOMAIN stream'
          PROVE  /\ about'[stream'[n].i] # 0
                 /\ stream'[n].type = "Restarted" =>
                       stream'[n].from \in Instances /\ about'[stream'[n].from] = about'[stream'[n].i]
        <3>1. CASE n = l
            <4>1. old # i
                BY <1>3, <1>4
            <4>2. QED BY <1>3, <1>4, <1>5, <1>7, <3>1, <4>1
        <3>2. CASE n \in DOMAIN stream
            <4>1. /\ about[stream[n].i] # 0
                  /\ stream[n].type = "Restarted" => stream[n].from \in Instances /\ about[stream[n].from] = about[stream[n].i]
                BY <3>2 DEF StreamRows
            <4>2. stream[n].type = "Restarted" => stream[n].from # i
                BY <1>4, <4>1
            <4>3. QED BY <1>4, <1>7, <1>10, <3>2, <4>1, <4>2
        <3>3. QED BY <1>7, <3>1, <3>2
    <2>5. StreamRows'
        BY <1>2, <1>7, <1>8, <2>4 DEF StreamRows
    <2>6. QED BY <1>4, <2>1, <2>3, <2>5
<1>12. RequestsInv'
    <2>1. ASSUME NEW r \in Requests, r # q PROVE Untouched(r)
        <3>1. r # 0
            BY ProfileAssumptions
        <3>2. \A j \in Instances : (about'[j] = r <=> about[j] = r) /\ (about[j] = r => inst'[j] = inst[j])
            BY <1>4, <2>1, <3>1
        <3>3. about'[stream'[l].i] # r
            BY <1>4, <1>5, <1>7, <2>1
        <3>4. \A n \in DOMAIN stream' : n > seen' /\ about'[stream'[n].i] = r => n \in DOMAIN stream /\ n > seen /\ stream'[n] = stream[n]
            BY <1>2, <1>7, <3>3
        <3>5. \A n \in DOMAIN stream : n > seen => n \in DOMAIN stream' /\ n > seen' /\ stream'[n] = stream[n]
            BY <1>2, <1>7
        <3>6. QED BY <1>2, <3>2, <3>4, <3>5 DEF Untouched
    <2>2. ASSUME q \notin astray' PROVE OneRequestInv(q)'
        <3>1. q \in Requests \ astray /\ ~Busy(q) /\ OneRequestInv(q)
            BY <1>9, <2>2 DEF RequestsInv
        <3>2. \A d \in AskCalls : \A steps : ~AskAt(d, q, steps) /\ ~AskAt(d, q, steps)'
            BY <1>2, <3>1 DEF Busy, AskAt
        <3>3. PICK w \in Instances : w = request[q].wf /\ w # 0 /\ request'[q].wf = w
            BY <1>2, <1>3, <3>1, <3>2 DEF OneRequestInv, RequestRows, RequestRow
        <3>4. \A j \in Instances : about[j] = q => j <= old
            <4>1. \A j \in Instances : ~(j > old /\ about[j] = q)
                BY <1>3, <1>9, <2>2 DEF Restarted
            <4>2. \A j \in Instances : ~(j > old) => j <= old
                BY InstancesAreNumbered
            <4>3. QED BY <4>1, <4>2
        <3>5. ASSUME NEW n \in DOMAIN stream, Unseen(n, q) PROVE stream[n].type = "Terminated"
            <4>1. CASE stream[n].type = "Restarted"
                <5>1. PICK k \in Instances : k = stream[n].i
                    BY <1>10
                <5>2. Newest(k, q) /\ inst[k].stage = "first"
                    BY <3>1, <3>3, <3>5, <4>1, <5>1 DEF OneRequestInv, NamesInv
                <5>3. k <= old /\ old <= k
                    BY <1>3, <3>4, <5>2 DEF Newest
                <5>4. k = old
                    BY <5>3, InstancesAreNumbered
                <5>5. QED BY <1>1, <5>2, <5>4
            <4>2. \A x \in StreamEntry : x.type \in {"Terminated", "Restarted"}
                BY DEF StreamEntry
            <4>3. stream[n] \in StreamEntry
                BY EntryRow DEF StreamRows
            <4>4. QED BY <4>1, <4>2, <4>3
        <3>6. w = old
            <4>1. Newest(w, q)
                BY <3>1, <3>3, <3>5 DEF OneRequestInv, NamesInv
            <4>2. w <= old /\ old <= w
                BY <1>3, <3>4, <4>1 DEF Newest
            <4>3. QED BY <4>2, InstancesAreNumbered
        <3>7. \A n \in DOMAIN stream' : Unseen(n, q)' => n = l \/ (n \in DOMAIN stream /\ Unseen(n, q) /\ stream'[n] = stream[n] /\ n <= l)
            BY <1>0, <1>2, <1>7, <1>10 DEF Unseen
        <3>8. Unseen(l, q)'
            BY <1>2, <1>4, <1>5, <1>7, <1>8 DEF Unseen
        <3>9. Newest(i, q)'
            <4>1. \A j \in Instances : j # i /\ about[j] = q => j < i
                BY <1>3, <1>4
            <4>2. \A j \in Instances : j < i => j <= i
                BY InstancesAreNumbered
            <4>3. i <= i
                BY InstancesAreNumbered
            <4>4. QED BY <1>4, <4>1, <4>2, <4>3 DEF Newest
        <3>10. StartingInv(q)' /\ ReviewedInv(q)'
            BY <3>2 DEF StartingInv, ReviewedInv
        <3>11. ASSUME NEW n \in DOMAIN stream', Unseen(n, q)', stream'[n].type = "Restarted"
               PROVE  /\ n = l /\ stream'[n].i = i /\ stream'[n].from = w
                      /\ \A m \in DOMAIN stream' : Unseen(m, q)' => m <= n
            <4>1. n = l
                BY <3>5, <3>7, <3>11
            <4>2. QED BY <1>5, <1>7, <3>6, <3>7, <4>1
        <3>12. ASSUME NEW n \in DOMAIN stream', Unseen(n, q)', stream'[n].type = "Terminated"
               PROVE  /\ w = stream'[n].i /\ inst'[stream'[n].i].stage = "ended" /\ request'[q].status \in {"PENDING", "CANCELLED"}
                      /\ \A m \in DOMAIN stream' : Unseen(m, q)' => m >= n
            <4>1. n \in DOMAIN stream /\ Unseen(n, q) /\ stream'[n] = stream[n] /\ n <= l
                BY <1>5, <1>7, <3>7, <3>12
            <4>2. /\ w = stream[n].i /\ inst[stream[n].i].stage = "ended" /\ request[q].status \in {"PENDING", "CANCELLED"}
                  /\ \A m \in DOMAIN stream : Unseen(m, q) => m >= n
                BY <3>1, <3>3, <3>12, <4>1 DEF OneRequestInv, NamesInv
            <4>3. w # i /\ inst'[w] = inst[w]
                BY <1>4, <1>10, <4>1, <4>2
            <4>4. l >= n
                BY <1>7, <4>1
            <4>5. QED BY <1>2, <3>7, <4>1, <4>2, <4>3, <4>4
        <3>13. ASSUME NEW n \in DOMAIN stream', Unseen(n, q)', stream'[n].type = "Restarted" PROVE Newest(stream[n].i, q)'
            <4>1. stream'[n].i = i
                BY <3>11, <3>13
            <4>2. QED BY <3>9, <4>1 DEF Newest
        <3>14. stream'[l].type = "Restarted"
            BY <1>5, <1>7
        <3>15. NamesInv(q)'
            <4>1. ~(\A n \in DOMAIN stream' : Unseen(n, q)' => stream'[n].type = "Terminated")
                BY <1>7, <3>8, <3>14
            <4>2. ~(\A n \in DOMAIN stream' : ~Unseen(n, q)')
                BY <1>7, <3>8
            <4>3. ASSUME NEW n \in DOMAIN stream', Unseen(n, q)', stream'[n].type = "Restarted" PROVE inst'[stream'[n].i].stage = "first"
                BY <1>4, <3>11, <4>3
            <4>4. QED BY <3>3, <3>11, <3>12, <3>13, <4>1, <4>2, <4>3 DEF NamesInv
        <3>16. ASSUME NEW j \in Instances, NEW k \in Instances, about'[j] = q, about'[k] = q, j < k PROVE inst'[j].stage = "ended"
            <4>1. j # i
                <5>1. k <= i
                    BY <3>9, <3>16 DEF Newest
                <5>2. QED BY <3>16, <5>1, InstancesAreNumbered
            <4>2. about[j] = q /\ inst'[j] = inst[j]
                BY <1>4, <3>16, <4>1
            <4>3. CASE j = old
                BY <1>1, <4>2, <4>3
            <4>4. CASE j # old
                <5>1. j <= old
                    BY <3>4, <4>2
                <5>2. j < old
                    BY <4>4, <5>1, InstancesAreNumbered
                <5>3. inst[j].stage = "ended"
                    BY <1>3, <3>1, <4>2, <5>2 DEF OneRequestInv
                <5>4. QED BY <4>2, <5>3
            <4>5. QED BY <4>3, <4>4
        <3>17. QED BY <3>3, <3>10, <3>15, <3>16 DEF OneRequestInv
    <2>3. QED BY <1>9, <1>11, <2>1, <2>2, StepRequests
<1>13. CopiedInv' /\ PendingInv'
    BY <1>2 DEF CopiedInv, Clean, PendingInv
<1>14. QED BY <1>11, <1>12, <1>13

\* What the consumer makes of an entry about request p.
LEMMA HandledRow ==
    ASSUME ProfileRows, NEW e \in StreamEntry, NEW p \in Requests, about[e.i] = p,
           e.type = "Restarted" => e.from \in Instances /\ about[e.from] = p,
           Handled(e), UNCHANGED about
    PROVE  /\ request' \in [Requests -> RequestRow] /\ \A r \in Requests : r # p => request'[r] = request[r]
           /\ \A r \in Requests : request'[r].content = request[r].content /\ (request'[r].status = "none" <=> request[r].status = "none")
           /\ \A r \in Requests : request'[r].wf # 0 => about[request'[r].wf] = r
           /\ request'[p].wf = IF e.type = "Restarted" /\ request[p].wf = e.from THEN e.i ELSE request[p].wf
           /\ request'[p].status = IF e.type = "Restarted" /\ request[p].wf = e.from THEN "PENDING"
                                   ELSE IF e.type = "Terminated" /\ request[p].wf = e.i /\ request[p].status = "PENDING"
                                        THEN "CANCELLED" ELSE request[p].status
<1> USE DEF ProfileRows
<1>1. e.i \in Instances /\ e.i # 0 /\ e.type \in {"Terminated", "Restarted"} /\ p # 0
    BY InstancesAreNumbered, ProfileAssumptions DEF StreamEntry
<1>2. request \in [Requests -> RequestRow] /\ \A r \in Requests : request[r].wf # 0 => about[request[r].wf] = r
    BY DEF RequestRows
<1>3. \A r \in Requests : request'[r] =
         CASE e.type = "Terminated" /\ request[r].wf = e.i /\ request[r].status = "PENDING" -> [request[r] EXCEPT !.status = "CANCELLED"]
           [] e.type = "Restarted" /\ request[r].wf = e.from -> [request[r] EXCEPT !.wf = e.i, !.status = "PENDING"]
           [] OTHER -> request[r]
    BY DEF Handled
<1>4. ASSUME NEW x \in RequestRow
      PROVE  /\ [x EXCEPT !.status = "CANCELLED"] \in RequestRow
             /\ [x EXCEPT !.status = "CANCELLED"].status = "CANCELLED"
             /\ [x EXCEPT !.status = "CANCELLED"].wf = x.wf
             /\ [x EXCEPT !.status = "CANCELLED"].content = x.content
             /\ [x EXCEPT !.wf = e.i, !.status = "PENDING"] \in RequestRow
             /\ [x EXCEPT !.wf = e.i, !.status = "PENDING"].status = "PENDING"
             /\ [x EXCEPT !.wf = e.i, !.status = "PENDING"].wf = e.i
             /\ [x EXCEPT !.wf = e.i, !.status = "PENDING"].content = x.content
    BY <1>1 DEF RequestRow, RequestStatuses
<1>5. ASSUME NEW r \in Requests, r # p PROVE request'[r] = request[r]
    <2>1. request[r].wf # e.i
        BY <1>1, <1>2, <1>5
    <2>2. e.type = "Restarted" => request[r].wf # e.from
        <3>1. ASSUME e.type = "Restarted", request[r].wf = e.from PROVE FALSE
            <4>1. request[r].wf # 0
                BY <3>1, InstancesAreNumbered
            <4>2. QED BY <1>2, <1>5, <3>1, <4>1
        <3>2. QED BY <3>1
    <2>3. QED BY <1>3, <2>1, <2>2
<1>6. CASE e.type = "Terminated" /\ request[p].wf = e.i /\ request[p].status = "PENDING"
    <2> DEFINE y == [request[p] EXCEPT !.status = "CANCELLED"]
    <2>1. request'[p] = y
        BY <1>3, <1>6
    <2>2. y \in RequestRow /\ y.status = "CANCELLED" /\ y.wf = request[p].wf /\ y.content = request[p].content
        BY <1>2, <1>4
    <2> HIDE DEF y
    <2>3. request' \in [Requests -> RequestRow]
        <3>1. \A r \in Requests : request'[r] \in RequestRow
            BY <1>2, <1>5, <2>1, <2>2
        <3>2. QED BY <3>1 DEF Handled
    <2>4. ASSUME NEW r \in Requests
          PROVE  /\ request'[r].content = request[r].content /\ (request'[r].status = "none" <=> request[r].status = "none")
                 /\ request'[r].wf = request[r].wf
        BY <1>5, <1>6, <2>1, <2>2
    <2>5. request'[p].wf = e.i /\ request'[p].status = "CANCELLED" /\ e.type # "Restarted"
        BY <1>6, <2>1, <2>2
    <2>6. QED BY <1>2, <1>5, <1>6, <2>3, <2>4, <2>5
<1>7. CASE e.type = "Restarted" /\ request[p].wf = e.from
    <2> DEFINE y == [request[p] EXCEPT !.wf = e.i, !.status = "PENDING"]
    <2>1. request'[p] = y
        BY <1>3, <1>7
    <2>2. y \in RequestRow /\ y.status = "PENDING" /\ y.wf = e.i /\ y.content = request[p].content
        BY <1>2, <1>4
    <2> HIDE DEF y
    <2>3. request' \in [Requests -> RequestRow]
        <3>1. \A r \in Requests : request'[r] \in RequestRow
            BY <1>2, <1>5, <2>1, <2>2
        <3>2. QED BY <3>1 DEF Handled
    <2>4. request[p].status # "none"
        BY <1>1 DEF RequestRows
    <2>5. ASSUME NEW r \in Requests
          PROVE  /\ request'[r].content = request[r].content /\ (request'[r].status = "none" <=> request[r].status = "none")
                 /\ request'[r].wf # 0 => about[request'[r].wf] = r
        BY <1>2, <1>5, <2>1, <2>2, <2>4
    <2>6. QED BY <1>5, <1>7, <2>1, <2>2, <2>3, <2>5
<1>8. CASE /\ ~(e.type = "Terminated" /\ request[p].wf = e.i /\ request[p].status = "PENDING")
           /\ ~(e.type = "Restarted" /\ request[p].wf = e.from)
    <2>1. request'[p] = request[p]
        BY <1>3, <1>8
    <2>2. \A r \in Requests : request'[r] = request[r]
        BY <1>5, <2>1
    <2>3. request' \in [Requests -> RequestRow]
        <3>1. \A r \in Requests : request'[r] \in RequestRow
            BY <1>2, <2>2
        <3>2. QED BY <3>1 DEF Handled
    <2>4. QED BY <1>2, <1>8, <2>2, <2>3
<1>9. QED BY <1>6, <1>7, <1>8

\* The consumer reads the next entry of the stream.
LEMMA ConsumesKeeps == ASSUME ProfileInv, Consumes PROVE ProfileInv'
<1> USE DEF ProfileInv, ProfileRows
<1>0. PICK m \in Nat : m = seen + 1 /\ m \in DOMAIN stream
    <2>1. seen \in 0..Len(stream) /\ seen # Len(stream) /\ Len(stream) \in Nat /\ DOMAIN stream = 1..Len(stream)
        BY DEF StreamRows, Consumes, Drained
    <2>2. \A l \in Nat : \A s \in 0..l : s # l => s + 1 \in Nat /\ s + 1 \in 1..l
        OBVIOUS
    <2>3. seen + 1 \in Nat /\ seen + 1 \in 1..Len(stream)
        BY <2>1, <2>2
    <2>4. QED BY <2>1, <2>3
<1>1. PICK e \in StreamEntry : e = stream[m] /\ e.i \in Instances
    BY <1>0, EntryRow DEF StreamRows
<1>2. PICK p \in Requests : p = about[e.i] /\ p # 0 /\ request[p].status # "none"
    <2>1. about[e.i] # 0 /\ about[e.i] \in Requests
        BY <1>0, <1>1 DEF StreamRows, AboutRows
    <2>2. QED BY <1>1, <2>1 DEF RequestRows
<1>3. e.type = "Restarted" => e.from \in Instances /\ about[e.from] = p /\ doubled
    BY <1>0, <1>1, <1>2 DEF StreamRows
<1>4. UNCHANGED << inst, profile, patched, askCall, about, stream, doubled, amended >>
    BY DEF Consumes
<1>5. /\ \/ Handled(e) /\ seen' \in {seen, seen + 1} /\ astray' = IF Busy(p) THEN astray \cup {p} ELSE astray
         \/ seen' = seen + 1 /\ astray' = astray \cup {p} /\ UNCHANGED request
    BY <1>0, <1>1, <1>2 DEF Consumes
<1>6. seen' \in {seen, seen + 1} /\ astray \subseteq astray' /\ astray' \subseteq Requests
    BY <1>5 DEF RequestRows
<1>7. /\ \A n \in DOMAIN stream : n > seen' => n > seen
      /\ \A n \in DOMAIN stream : n > seen => n > seen' \/ n = m
      /\ seen' \in 0..Len(stream)
    <2>1. seen \in Nat /\ seen + 1 <= Len(stream) /\ Len(stream) \in Nat /\ DOMAIN stream = 1..Len(stream)
        BY <1>0 DEF StreamRows
    <2>2. CASE seen' = seen
        BY <2>1, <2>2
    <2>3. CASE seen' = seen + 1
        BY <1>0, <2>1, <2>3
    <2>4. QED BY <1>6, <2>2, <2>3
<1>8. \A n \in DOMAIN stream : /\ Unseen(n, p)' => Unseen(n, p)
                             /\ Unseen(n, p) => Unseen(n, p)' \/ n = m
    BY <1>4, <1>7 DEF Unseen
<1>9b. \A n \in DOMAIN stream : Unseen(n, p)' => Unseen(n, p)
    BY <1>4, <1>7 DEF Unseen
<1>9. Unseen(m, p) /\ DOMAIN stream' = DOMAIN stream
    <2>1. m > seen
        BY <1>0 DEF StreamRows
    <2>2. QED BY <1>1, <1>2, <1>4, <2>1 DEF Unseen
<1>10. \A n \in DOMAIN stream : Unseen(n, p) => n >= m
    BY <1>0 DEF Unseen, StreamRows
<1>11. /\ request' \in [Requests -> RequestRow] /\ \A r \in Requests : r # p => request'[r] = request[r]
       /\ \A r \in Requests : request'[r].content = request[r].content /\ (request'[r].status = "none" <=> request[r].status = "none")
       /\ \A r \in Requests : request'[r].wf # 0 => about[request'[r].wf] = r
    <2>1. CASE Handled(e)
        BY <1>2, <1>3, <1>4, <2>1, HandledRow
    <2>2. CASE request' = request
        BY <2>2 DEF RequestRows
    <2>3. QED BY <1>5, <2>1, <2>2
<1>12. ProfileRows'
    <2>1. AboutRows'
        BY <1>4 DEF AboutRows, InstInv
    <2>2. \A i \in Instances : about[i] # 0 => request'[about[i]].status # "none"
        BY <1>11 DEF AboutRows, RequestRows
    <2>3. RequestRows'
        BY <1>4, <1>6, <1>11, <2>2 DEF RequestRows
    <2>4. \A d \in AskCalls : askCall[d].r # 0 => request'[askCall[d].r].status # "none"
        BY <1>11 DEF AskRows, AskCall
    <2>5. AskRows'
        BY <1>4, <2>4 DEF AskRows
    <2>6. StreamRows'
        BY <1>4, <1>7 DEF StreamRows
    <2>7. QED BY <2>1, <2>3, <2>5, <2>6
<1>13. RequestsInv'
    <2>1. ASSUME NEW r \in Requests, r # p PROVE Untouched(r)
        <3>1. about[stream[m].i] # r
            BY <1>1, <1>2, <2>1
        <3>2. \A n \in DOMAIN stream : about[stream[n].i] = r => (n > seen <=> n > seen')
            BY <1>7, <3>1
        <3>3. request'[r].status = request[r].status /\ request'[r].wf = request[r].wf
            BY <1>11, <2>1
        <3>4. QED BY <1>4, <3>2, <3>3 DEF Untouched
    <2>2. ASSUME p \notin astray' PROVE OneRequestInv(p)'
        <3>1. Handled(e) /\ ~Busy(p) /\ p \notin astray
            BY <1>5, <2>2
        <3>2. OneRequestInv(p)
            BY <3>1 DEF RequestsInv
        <3>3. \A d \in AskCalls : \A steps : ~AskAt(d, p, steps) /\ ~AskAt(d, p, steps)'
            BY <1>4, <3>1 DEF Busy, AskAt
        <3>4. PICK w \in Instances : w = request[p].wf /\ w # 0
            BY <1>2, <3>2, <3>3 DEF OneRequestInv, RequestRows, RequestRow
        <3>5. /\ request'[p].wf = IF e.type = "Restarted" /\ w = e.from THEN e.i ELSE w
              /\ request'[p].status = IF e.type = "Restarted" /\ w = e.from THEN "PENDING"
                                      ELSE IF e.type = "Terminated" /\ w = e.i /\ request[p].status = "PENDING"
                                           THEN "CANCELLED" ELSE request[p].status
            BY <1>2, <1>3, <1>4, <3>1, <3>4, HandledRow
        <3>6. StartingInv(p)' /\ ReviewedInv(p)'
            BY <3>3 DEF StartingInv, ReviewedInv
        <3>7. \A j, k \in Instances : about'[j] = p /\ about'[k] = p /\ j < k => inst'[j].stage = "ended"
            BY <1>4, <3>2 DEF OneRequestInv
        <3>8. NamesInv(p)
            BY <3>2 DEF OneRequestInv
        <3>9. \A i \in Instances : Newest(i, p)' <=> Newest(i, p)
            BY <1>4 DEF Newest
        <3>10. CASE e.type = "Terminated"
            <4>1. w = e.i /\ inst[w].stage = "ended" /\ request[p].status \in {"PENDING", "CANCELLED"}
                BY <1>0, <1>1, <1>9, <3>4, <3>8, <3>10 DEF NamesInv
            <4>2. request'[p].wf = w /\ request'[p].status = "CANCELLED"
                BY <3>5, <3>10, <4>1
            <4>3. (\A n \in DOMAIN stream' : Unseen(n, p)' => stream'[n].type = "Terminated") => Newest(w, p)'
                BY <1>1, <1>4, <1>8, <3>4, <3>8, <3>9, <3>10 DEF NamesInv
            <4>4. ASSUME NEW n \in DOMAIN stream, Unseen(n, p)', stream[n].type = "Restarted"
                  PROVE  /\ Newest(stream[n].i, p)' /\ inst[stream[n].i].stage = "first" /\ w = stream[n].from
                         /\ \A k \in DOMAIN stream : Unseen(k, p)' => k <= n
                <5>1. Unseen(n, p)
                    BY <1>9b, <4>4
                <5>2. /\ Newest(stream[n].i, p) /\ inst[stream[n].i].stage = "first"
                      /\ w = stream[n].from \/ w = stream[n].i
                      /\ \A k \in DOMAIN stream : Unseen(k, p) => k <= n
                    BY <3>4, <3>8, <4>4, <5>1 DEF NamesInv
                <5>3. w # stream[n].i
                    BY <4>1, <5>2
                <5>4. Newest(stream[n].i, p)'
                    BY <1>4, <5>2 DEF Newest
                <5>5. QED BY <1>9b, <5>2, <5>3, <5>4
            <4>5. ASSUME NEW n \in DOMAIN stream, Unseen(n, p)', stream[n].type = "Terminated"
                  PROVE  /\ w = stream[n].i /\ inst[stream[n].i].stage = "ended"
                         /\ \A k \in DOMAIN stream : Unseen(k, p)' => k >= n
                <5>1. Unseen(n, p)
                    BY <1>9b, <4>5
                <5>2. QED BY <1>9b, <3>4, <3>8, <4>5, <5>1 DEF NamesInv
            <4>6. ~OpenTask(w)
                BY <4>1 DEF OpenTask
            <4>7. NamesInv(p)'
                <5>1. Newest(request[p].wf, p)' <=> Newest(w, p)'
                    BY <4>2 DEF Newest
                <5>2. OpenTask(request[p].wf)' <=> OpenTask(w)
                    BY <1>4, <4>2 DEF OpenTask
                <5>3. ASSUME NEW n \in DOMAIN stream', Unseen(n, p)', stream'[n].type = "Restarted"
                      PROVE  /\ Newest(stream[n].i, p)' /\ inst'[stream'[n].i].stage = "first"
                             /\ request'[p].wf = stream'[n].from
                             /\ \A k \in DOMAIN stream' : Unseen(k, p)' => k <= n
                    BY <1>4, <4>2, <4>4, <5>3
                <5>4. ASSUME NEW n \in DOMAIN stream', Unseen(n, p)', stream'[n].type = "Terminated"
                      PROVE  /\ request'[p].wf = stream'[n].i /\ inst'[stream'[n].i].stage = "ended"
                             /\ \A k \in DOMAIN stream' : Unseen(k, p)' => k >= n
                    BY <1>4, <4>2, <4>5, <5>4
                <5>5. QED BY <4>2, <4>3, <4>6, <5>1, <5>2, <5>3, <5>4 DEF NamesInv
            <4>8. QED BY <3>4, <3>6, <3>7, <4>2, <4>7 DEF OneRequestInv
        <3>11. CASE e.type = "Restarted"
            <4>1. /\ Newest(stream[m].i, p) /\ inst[stream[m].i].stage = "first"
                  /\ w = stream[m].from \/ (w = stream[m].i /\ request[p].status = "PENDING")
                  /\ \A n \in DOMAIN stream : Unseen(n, p) => n <= m
                BY <1>0, <1>1, <1>9, <3>4, <3>8, <3>11 DEF NamesInv
            <4>2. PICK i \in Instances : i = e.i /\ Newest(i, p) /\ inst[i].stage = "first"
                BY <1>1, <4>1
            <4>3. request'[p].wf = i /\ request'[p].status = "PENDING"
                BY <1>1, <3>5, <3>11, <4>1, <4>2
            <4>4. \A n \in DOMAIN stream : Unseen(n, p)' => n = m
                <5>1. ASSUME NEW n \in DOMAIN stream, Unseen(n, p)' PROVE n = m
                    <6>1. n >= m /\ n <= m /\ n \in Nat
                        BY <1>9b, <1>10, <4>1, <5>1 DEF StreamRows
                    <6>2. QED BY <6>1
                <5>2. QED BY <5>1
            <4>5. Newest(request[p].wf, p)'
                BY <1>4, <4>2, <4>3 DEF Newest
            <4>6. OpenTask(request[p].wf)'
                BY <1>4, <4>2, <4>3 DEF OpenTask
            <4>7. ASSUME NEW n \in DOMAIN stream', Unseen(n, p)'
                  PROVE  /\ stream'[n].type = "Restarted" /\ Newest(stream[n].i, p)' /\ inst'[stream'[n].i].stage = "first"
                         /\ request'[p].wf = stream'[n].i
                         /\ \A k \in DOMAIN stream' : Unseen(k, p)' => k <= n
                <5>1. n = m
                    BY <1>4, <4>4, <4>7
                <5>2. stream'[n].i = i /\ stream'[n].type = "Restarted"
                    BY <1>1, <1>4, <3>11, <4>2, <5>1
                <5>3. Newest(i, p)'
                    BY <3>9, <4>2
                <5>4. Newest(stream[n].i, p)'
                    BY <5>2, <5>3 DEF Newest
                <5>5. QED BY <1>4, <4>2, <4>3, <4>4, <5>1, <5>2, <5>4
            <4>8. NamesInv(p)'
                BY <4>3, <4>5, <4>6, <4>7 DEF NamesInv
            <4>9. i # 0
                BY InstancesAreNumbered
            <4>10. QED BY <3>6, <3>7, <4>3, <4>8, <4>9 DEF OneRequestInv
        <3>12. QED BY <3>10, <3>11 DEF StreamEntry
    <2>3. QED BY <1>6, <1>12, <2>1, <2>2, StepRequests
<1>14. ASSUME ~doubled
       PROVE  \A r \in Requests : request'[r].status = request[r].status \/ (request[r].status = "PENDING" /\ request'[r].status = "CANCELLED")
    <2>1. e.type = "Terminated"
        BY <1>3, <1>14 DEF StreamEntry
    <2>2. CASE Handled(e)
        <3>1. /\ \A r \in Requests : r # p => request'[r] = request[r]
              /\ request'[p].status = IF e.type = "Restarted" /\ request[p].wf = e.from THEN "PENDING"
                                      ELSE IF e.type = "Terminated" /\ request[p].wf = e.i /\ request[p].status = "PENDING"
                                           THEN "CANCELLED" ELSE request[p].status
            BY <1>2, <1>3, <1>4, <2>2, HandledRow
        <3>2. QED BY <2>1, <3>1
    <2>3. QED BY <1>5, <2>2
<1>15. CopiedInv'
    <2>1. ASSUME Clean'
          PROVE  \A r \in Requests : request'[r].status = "APPROVED" <=> request[r].status = "APPROVED"
        <3>1. ~doubled
            BY <1>4, <2>1 DEF Clean
        <3>2. QED BY <1>14, <3>1
    <2>2. \A d \in AskCalls : askCall[d].at \in {"copy", "stamp"} => askCall[d].r \in Requests
        <3>1. ASSUME NEW d \in AskCalls, askCall[d].at \in {"copy", "stamp"} PROVE askCall[d].r \in Requests
            <4>1. askCall[d].r # 0 /\ askCall[d].r \in Requests \cup {0}
                BY <3>1 DEF AskRows, AskFits, AskCall
            <4>2. QED BY <4>1
        <3>2. QED BY <3>1
    <2>3. QED BY <1>4, <1>6, <1>11, <2>1, <2>2, StepCopied
<1>16. PendingInv'
    <2>1. CASE doubled
        BY <1>4, <2>1 DEF PendingInv
    <2>2. CASE ~doubled
        BY <1>4, <1>14, <2>2, StepPending
    <2>3. QED BY <2>1, <2>2
<1>17. QED BY <1>12, <1>13, <1>15, <1>16

LEMMA ProfileInvNext == ASSUME ProfileInv, [ProfileNext]_<< inst, profileVars >> PROVE ProfileInv'
<1>1. CASE UNCHANGED << inst, profileVars >>
    <2>1. UNCHANGED << inst, request, profile, patched, askCall, about, stream, seen, astray, doubled, amended >>
        BY <1>1 DEF profileVars
    <2>2. ProfileRows'
        BY <2>1 DEF ProfileInv, ProfileRows, AboutRows, InstInv, RequestRows, AskRows, StreamRows
    <2>3. PendingInv'
        BY <2>1 DEF ProfileInv, PendingInv, PendingRequests
    <2>4. RequestsInv'
        <3>1. \A r \in Requests : Untouched(r)
            BY <2>1 DEF Untouched
        <3>2. QED BY <2>1, <2>2, <3>1, StepRequests DEF ProfileRows
    <2>5. CopiedInv'
        BY <2>1, StepCopied DEF ProfileInv
    <2>6. QED BY <2>2, <2>3, <2>4, <2>5 DEF ProfileInv
<1>2. CASE Terminates \/ TerminatesAgain \/ Restarts \/ Consumes \/ ProfileOverruled \/ ProfilePatched
    BY <1>2, TerminatesKeeps, TerminatesAgainKeeps, RestartsKeeps, ConsumesKeeps, ProfileOverruledKeeps, ProfilePatchedKeeps
<1>3. ASSUME NEW c \in AskCalls,
             \/ AskBegins(c) \/ AskAmends(c) \/ AskCreates(c) \/ AskStarts(c) \/ AskWrites(c)
             \/ ProfileDecided(c) \/ ProfileFinds(c) \/ ProfileCopies(c) \/ ProfileStamps(c)
      PROVE  ProfileInv'
    BY <1>3, AskBeginsKeeps, AskAmendsKeeps, AskCreatesKeeps, AskStartsKeeps, AskWritesKeeps,
       ProfileDecidedKeeps, ProfileFindsKeeps, ProfileCopiesKeeps, ProfileStampsKeeps
<1>4. QED BY <1>1, <1>2, <1>3 DEF ProfileNext

\* A profile request at rest that did not go astray is pending exactly while its approval is open, and each field of the
\* employee's row that was not edited since says what the last request approved that sets it says.
THEOREM ProfilesHold ==
    InstInit /\ ProfileInit /\ [][ProfileNext]_<< inst, profileVars >> => [](ProfileTypeOK /\ ProfileUpdatesHold)
<1>1. InstInit /\ ProfileInit => ProfileInv
    BY ProfileInvInit
<1>2. ProfileInv /\ [ProfileNext]_<< inst, profileVars >> => ProfileInv'
    BY ProfileInvNext
<1>3. ProfileInv => ProfileTypeOK /\ ProfileUpdatesHold
    BY ProfileInvShows
<1>4. QED BY <1>1, <1>2, <1>3, PTL

-----------------------------------------------------------------------------
(* The parts side by side                                                   *)

Parts == {"expense", "status", "sheet", "profile", "page", "messages", "audit", "staff"}

\* The part that moves keeps its invariant; an approval workflow that does not move is as it began, whatever became of
\* the instances.
ErpInv ==
    /\ part \in Parts /\ InstInv
    /\ IF part = "expense" THEN ExpenseInv ELSE ExpenseInit
    /\ IF part = "status" THEN StatusInv ELSE StatusInit
    /\ IF part = "sheet" THEN SheetInv ELSE SheetInit
    /\ IF part = "profile" THEN ProfileInv ELSE ProfileInit
    /\ PageInv /\ MessagesInv /\ AuditInv /\ StaffInv

LEMMA PartsHaveInst ==
    /\ ExpenseInv => InstInv
    /\ StatusInv => InstInv
    /\ SheetInv => InstInv
    /\ ProfileInv => InstInv
    BY DEF ExpenseInv, ExpenseRows, StatusInv, OrgRows, SheetInv, SheetRows, ProfileInv, ProfileRows, AboutRows

LEMMA ErpInvInit == ErpInit => ErpInv
<1> SUFFICES ASSUME ErpInit PROVE ErpInv
    OBVIOUS
<1>1. part \in Parts /\ InstInv
    BY InstInvInit DEF ErpInit, Parts
<1>2. ExpenseInv /\ StatusInv /\ SheetInv /\ ProfileInv
    BY ExpenseInvInit, StatusInvInit, SheetInvInit, ProfileInvInit DEF ErpInit
<1>3. PageInv /\ StaffInv
    BY PageInvInit, StaffInvInit DEF ErpInit
<1>4. MessagesInv
    BY RowsInvInit, ViewInvInit DEF ErpInit, MessagesInv
<1>5. AuditInv
    BY RecordInvInit, PagesInvInit DEF ErpInit, AuditInv
<1>6. ExpenseInit /\ StatusInit /\ SheetInit /\ ProfileInit
    BY DEF ErpInit
<1>7. QED BY <1>1, <1>2, <1>3, <1>4, <1>5, <1>6 DEF ErpInv

\* A part that does not move.
LEMMA Rests ==
    /\ ExpenseInit /\ UNCHANGED expenseVars => ExpenseInit'
    /\ StatusInit /\ UNCHANGED orgVars => StatusInit'
    /\ SheetInit /\ UNCHANGED sheetVars => SheetInit'
    /\ ProfileInit /\ UNCHANGED profileVars => ProfileInit'
    /\ PageInv /\ UNCHANGED pageVars => PageInv'
    /\ MessagesInv /\ UNCHANGED messageVars => MessagesInv'
    /\ AuditInv /\ UNCHANGED auditVars => AuditInv'
    /\ StaffInv /\ UNCHANGED staffVars => StaffInv'
<1>1. ExpenseInit /\ UNCHANGED expenseVars => ExpenseInit'
    BY DEF ExpenseInit, expenseVars
<1>2. StatusInit /\ UNCHANGED orgVars => StatusInit'
    BY DEF StatusInit, orgVars
<1>3. SheetInit /\ UNCHANGED sheetVars => SheetInit'
    BY DEF SheetInit, sheetVars
<1>4. ProfileInit /\ UNCHANGED profileVars => ProfileInit'
    BY DEF ProfileInit, profileVars
<1>5. PageInv /\ UNCHANGED pageVars => PageInv'
    BY PageInvNext
<1>6. MessagesInv /\ UNCHANGED messageVars => MessagesInv'
    BY MessagesInvNext
<1>7. AuditInv /\ UNCHANGED auditVars => AuditInv'
    BY AuditInvNext
<1>8. StaffInv /\ UNCHANGED staffVars => StaffInv'
    BY StaffInvNext
<1>9. QED BY <1>1, <1>2, <1>3, <1>4, <1>5, <1>6, <1>7, <1>8

LEMMA InstRests == InstInv /\ UNCHANGED inst => InstInv'
    BY DEF InstInv

LEMMA ErpInvNext == ErpInv /\ [ErpNext]_erpVars => ErpInv'
<1> SUFFICES ASSUME ErpInv, [ErpNext]_erpVars PROVE ErpInv'
    OBVIOUS
<1>1. UNCHANGED part /\ part \in Parts /\ part' \in Parts
    BY DEF ErpInv, ErpNext, erpVars
<1>2. CASE UNCHANGED erpVars
    <2>1. UNCHANGED << inst, expenseVars, orgVars, sheetVars, profileVars, pageVars, messageVars, auditVars, staffVars >>
        BY <1>2 DEF erpVars
    <2>2. (ExpenseInv => ExpenseInv') /\ (StatusInv => StatusInv') /\ (SheetInv => SheetInv') /\ (ProfileInv => ProfileInv')
        BY <2>1, ExpenseInvNext, StatusInvNext, SheetInvNext, ProfileInvNext
    <2>3. QED BY <1>1, <2>1, <2>2, Rests, InstRests DEF ErpInv
<1>3. CASE /\ part = "expense" /\ ExpenseNext
           /\ UNCHANGED << orgVars, sheetVars, profileVars, pageVars, messageVars, auditVars, staffVars >>
    <2>1. ExpenseInv'
        BY <1>3, ExpenseInvNext DEF ErpInv
    <2>2. InstInv'
        BY <2>1 DEF ExpenseInv, ExpenseRows
    <2>3. QED BY <1>1, <1>3, <2>1, <2>2, Rests DEF ErpInv
<1>4. CASE /\ part = "status" /\ StatusNext
           /\ UNCHANGED << expenseVars, sheetVars, profileVars, pageVars, messageVars, auditVars, staffVars >>
    <2>1. StatusInv'
        BY <1>4, StatusInvNext DEF ErpInv
    <2>2. InstInv'
        BY <2>1 DEF StatusInv, OrgRows
    <2>3. QED BY <1>1, <1>4, <2>1, <2>2, Rests DEF ErpInv
<1>5. CASE /\ part = "sheet" /\ SheetNext
           /\ UNCHANGED << expenseVars, orgVars, profileVars, pageVars, messageVars, auditVars, staffVars >>
    <2>1. SheetInv'
        BY <1>5, SheetInvNext DEF ErpInv
    <2>2. InstInv'
        BY <2>1 DEF SheetInv, SheetRows
    <2>3. QED BY <1>1, <1>5, <2>1, <2>2, Rests DEF ErpInv
<1>6. CASE /\ part = "profile" /\ ProfileNext
           /\ UNCHANGED << expenseVars, orgVars, sheetVars, pageVars, messageVars, auditVars, staffVars >>
    <2>1. ProfileInv'
        BY <1>6, ProfileInvNext DEF ErpInv
    <2>2. InstInv'
        BY <2>1 DEF ProfileInv, ProfileRows, AboutRows
    <2>3. QED BY <1>1, <1>6, <2>1, <2>2, Rests DEF ErpInv
<1>7. CASE /\ part = "page" /\ PageNext
           /\ UNCHANGED << inst, expenseVars, orgVars, sheetVars, profileVars, messageVars, auditVars, staffVars >>
    <2>1. PageInv'
        BY <1>7, PageInvNext DEF ErpInv
    <2>2. QED BY <1>1, <1>7, <2>1, Rests, InstRests DEF ErpInv
<1>8. CASE /\ part = "messages" /\ MessagesNext
           /\ UNCHANGED << inst, expenseVars, orgVars, sheetVars, profileVars, pageVars, auditVars, staffVars >>
    <2>1. MessagesInv'
        BY <1>8, MessagesInvNext DEF ErpInv
    <2>2. QED BY <1>1, <1>8, <2>1, Rests, InstRests DEF ErpInv
<1>9. CASE /\ part = "audit" /\ AuditNext
           /\ UNCHANGED << inst, expenseVars, orgVars, sheetVars, profileVars, pageVars, messageVars, staffVars >>
    <2>1. AuditInv'
        BY <1>9, AuditInvNext DEF ErpInv
    <2>2. QED BY <1>1, <1>9, <2>1, Rests, InstRests DEF ErpInv
<1>10. CASE /\ part = "staff" /\ StaffNext
            /\ UNCHANGED << inst, expenseVars, orgVars, sheetVars, profileVars, pageVars, messageVars, auditVars >>
    <2>1. StaffInv'
        BY <1>10, StaffInvNext DEF ErpInv
    <2>2. QED BY <1>1, <1>10, <2>1, Rests, InstRests DEF ErpInv
<1>11. QED BY <1>2, <1>3, <1>4, <1>5, <1>6, <1>7, <1>8, <1>9, <1>10 DEF ErpNext

\* What the approvals promise holds of documents that are as they began.
LEMMA AsBegun ==
    /\ ExpenseInit => ExpenseApprovalsHold /\ ReceiptsExist
    /\ StatusInit => StatusRequestsHold
    /\ SheetInit => TimesheetApprovalsHold
    /\ ProfileInit => ProfileUpdatesHold
<1>1. ASSUME ExpenseInit PROVE ExpenseApprovalsHold /\ ReceiptsExist
    <2>1. \A r \in Reports : report[r].status = "none" /\ report[r].wf = 0 /\ report[r].items = asked[r] /\ report[r].receipt = 0
        BY <1>1 DEF ExpenseInit
    <2>2. \A r \in Reports : StandsFor(r)
        BY <2>1 DEF StandsFor
    <2>3. ExpenseApprovalsHold
        <3>1. SUFFICES ASSUME NEW r \in Reports
                       PROVE  /\ StandsFor(r)
                              /\ (report[r].wf \notin late \cup {0} /\ ~Behind(report[r].wf)) => Waits(r)
                              /\ (r \notin twice /\ report[r].status \notin Editable) => report[r].items = asked[r]
            BY DEF ExpenseApprovalsHold
        <3>2. report[r].wf \in late \cup {0}
            BY <2>1
        <3>3. QED BY <2>1, <2>2, <3>2
    <2>4. ReceiptsExist
        BY <2>1 DEF ReceiptsExist
    <2>5. QED BY <2>3, <2>4
<1>2. ASSUME StatusInit PROVE StatusRequestsHold
    <2>1. by = 0 /\ org.wf = 0
        BY <1>2 DEF StatusInit
    <2>2. QED BY <2>1 DEF StatusRequestsHold
<1>3. ASSUME SheetInit PROVE TimesheetApprovalsHold
    <2>1. sheet.wf = 0
        BY <1>3 DEF SheetInit
    <2>2. QED BY <2>1 DEF TimesheetApprovalsHold
<1>4. ASSUME ProfileInit PROVE ProfileUpdatesHold
    <2>1. \A r \in Requests : request[r].status = "none"
        BY <1>4 DEF ProfileInit
    <2>2. PendingRequests = {}
        BY <2>1 DEF PendingRequests
    <2>3. Cardinality(PendingRequests) = 0
        BY <2>2, FS_EmptySet
    <2>4. Cardinality(PendingRequests) <= 1
        BY <2>3
    <2>5. \A r \in Requests : request[r].status # "none" => FALSE
        BY <2>1
    <2>6. \A r \in Requests : request[r].status = "APPROVED" => FALSE
        BY <2>1
    <2>7. QED BY <2>4, <2>5, <2>6 DEF ProfileUpdatesHold
<1>5. QED BY <1>1, <1>2, <1>3, <1>4

LEMMA ErpInvShows == ErpInv => ErpTypeOK /\ ApprovalsHold /\ RecordsStayTogether /\ PagesShowWhatIsStored
<1> SUFFICES ASSUME ErpInv PROVE ErpTypeOK /\ ApprovalsHold /\ RecordsStayTogether /\ PagesShowWhatIsStored
    OBVIOUS
<1>1. /\ PageTypeOK /\ SheetShowsEntries
      /\ MessagesTypeOK /\ OneConversation /\ ThreadOfTheChosen
      /\ AuditTypeOK /\ LogTellsChanges /\ TableShowsTheChoice
      /\ StaffTypeOK /\ FormsTellTheTruth
    BY PageInvShows, MessagesInvShows, AuditInvShows, StaffInvShows DEF ErpInv
<1>2. InstTypeOK
    BY InstTyped DEF ErpInv
<1>3. ExpenseApprovalsHold /\ ReceiptsExist /\ (part = "expense" => ExpenseTypeOK)
    BY ExpenseInvShows, AsBegun DEF ErpInv
<1>4. StatusRequestsHold /\ (part = "status" => StatusTypeOK)
    BY StatusInvShows, AsBegun DEF ErpInv
<1>5. TimesheetApprovalsHold /\ (part = "sheet" => SheetTypeOK)
    BY SheetInvShows, AsBegun DEF ErpInv
<1>6. ProfileUpdatesHold /\ (part = "profile" => ProfileTypeOK)
    BY ProfileInvShows, AsBegun DEF ErpInv
<1>7. QED BY <1>1, <1>2, <1>3, <1>4, <1>5, <1>6 DEF ErpTypeOK, ApprovalsHold, RecordsStayTogether, PagesShowWhatIsStored

\* However many documents, requests, rows, messages and entries there are, the variables keep their types, and what the
\* routes, the reviews and the pages write is of the kind the schema has.
THEOREM ErpTypes == ErpSpec => []ErpTypeOK
<1>1. ErpInv => ErpTypeOK
    BY ErpInvShows
<1>2. QED BY ErpInvInit, ErpInvNext, <1>1, PTL DEF ErpSpec

\* However submissions, reviews, withdrawals, restarts, expiries and failed writes interleave, and whatever operators
\* complete, cancel and restart in the service and edit of employees, expense reports, timesheets, organizations and
\* profiles say what their approvals said, but for the exceptions the properties name.
THEOREM DocumentsFollowApprovals == ErpSpec => []ApprovalsHold
<1>1. ErpInv => ApprovalsHold
    BY ErpInvShows
<1>2. QED BY ErpInvInit, ErpInvNext, <1>1, PTL DEF ErpSpec

\* However uploads, requests for a conversation, writes and forms overlap and fail, receipts are on disk, two users have
\* one conversation, the audit log goes on where it ended, and a form tells what became of its request.
THEOREM RecordsBelongTogether == ErpSpec => []RecordsStayTogether
<1>1. ErpInv => RecordsStayTogether
    BY ErpInvShows
<1>2. QED BY ErpInvInit, ErpInvNext, <1>1, PTL DEF ErpSpec

\* In whatever order requests, answers and loads come, a page at rest shows what is stored: the week's cells the
\* entries, the thread the messages of the chosen conversation, the table the page and filter that were chosen.
THEOREM PagesShowStored == ErpSpec => []PagesShowWhatIsStored
<1>1. ErpInv => PagesShowWhatIsStored
    BY ErpInvShows
<1>2. QED BY ErpInvInit, ErpInvNext, <1>1, PTL DEF ErpSpec
=============================================================================
