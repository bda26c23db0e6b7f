------------------------- MODULE ApprovalInstances -------------------------
(***************************************************************************)
(* The workflow service as the ERP reaches it over HTTP                    *)
(* (nexus-erp/src/lib/workflow.ts): an approval starts with a first        *)
(* review, an approval that takes two goes on to a second one when the     *)
(* first says yes, and it is over as soon as a review says anything else.  *)
(* A call that fails on the way back has still been carried out.           *)
(***************************************************************************)
EXTENDS Naturals, Sequences

CONSTANT Instances     \* 1..n, in the order they are started

ASSUME InstancesAreNumbered == Instances \subseteq Nat \ {0}

VARIABLE inst          \* instance -> how far it is, and what its reviews said

Verdicts == {"approved", "revision_requested", "rejected"}
Stages == {"none", "first", "second", "over", "ended"}

Unstarted == [stage |-> "none", said |-> << >>]

InstTypeOK ==
    /\ DOMAIN inst = Instances
    /\ \A i \in Instances :
          /\ inst[i].stage \in Stages
          /\ Len(inst[i].said) <= 2
          /\ \A n \in DOMAIN inst[i].said : inst[i].said[n] \in Verdicts

InstInit == inst = [i \in Instances |-> Unstarted]

OpenTask(i) == inst[i].stage \in {"first", "second"}
Said(i, verdicts) == inst[i].said = verdicts

\* startInstance: the next instance, waiting for its first review.
StartInstance(i) ==
    /\ inst[i] = Unstarted
    /\ \A j \in Instances : j < i => inst[j] # Unstarted
    /\ inst' = [inst EXCEPT ![i].stage = "first"]

\* completeTask of the review that is open; the service refuses a task that is not.
CompleteReview(i, verdict, reviews) ==
    /\ OpenTask(i)
    /\ inst' = [inst EXCEPT ![i] =
          [stage |-> IF verdict = "approved" /\ @.stage = "first" /\ reviews = 2 THEN "second" ELSE "over",
           said  |-> Append(@.said, verdict)]]

\* cancelInstance: it ends without a verdict.  When it is over already, nothing happens to it.
EndInstance(i) ==
    /\ OpenTask(i)
    /\ inst' = [inst EXCEPT ![i].stage = "ended"]

-----------------------------------------------------------------------------
(* The service's own operators, and the ERP's managers on the page of an    *)
(* instance, close an approval without the document hearing of it: it is    *)
(* cancelled, or its open review is completed or forced in the service.     *)

Overrules(i, reviews) == EndInstance(i) \/ \E v \in Verdicts : CompleteReview(i, v, reviews)

\* restartInstance: only what was cancelled; a new instance with the variables of the old one, which stays as it is.
RestartInstance(i, old) == inst[old].stage = "ended" /\ StartInstance(i)
=============================================================================
