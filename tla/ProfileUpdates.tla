--------------------------- MODULE ProfileUpdates ---------------------------
(***************************************************************************)
(* Requests to change an employee's own data, reviewed by HR: the route    *)
(* that makes or amends one                                                *)
(* (app/api/employees/[id]/profile-update-requests/route.ts), the review   *)
(* (app/api/tasks/[id]/complete/route.ts), and the consumer of the         *)
(* workflow's event stream (lib/redisConsumer.ts), which cancels a request *)
(* whose approval was terminated and revives it when the approval is       *)
(* restarted.  The stream is read in order, each entry at least once.      *)
(***************************************************************************)
EXTENDS ApprovalInstances, FiniteSets

CONSTANTS Requests,    \* 1..n
          AskCalls,    \* HTTP requests under way
          Fields,      \* of an employee's contact data: phone, street, city, ...
          Contents,    \* what a field can say, 1..n; 0 stands for null
          MaxEvents    \* stream entries ever written

ASSUME ProfileAssumptions == Requests \subseteq Nat \ {0} /\ Contents \subseteq Nat \ {0} /\ MaxEvents \in Nat

Data == [Fields -> Contents \cup {0}]
NoData == [f \in Fields |-> 0]

VARIABLES request,     \* request -> its row
          profile,     \* what the employee's row says
          patched,     \* fields last written by an edit of the employee, not by a request
          askCall,     \* HTTP request -> what it is at
          about,       \* approval -> the request in its variables
          stream,      \* the event stream
          seen,        \* entries acknowledged
          astray,      \* requests whose approval moved while an event or a write about it was pending, was reviewed
                       \* by the service's operators, got none, was cancelled when it was over or restarted twice
          doubled,     \* two calls that found no pending request overlapped, or an approval was restarted
          amended      \* requests changed while they were being approved

profileVars == << request, profile, patched, askCall, about, stream, seen, astray, doubled, amended >>

RequestStatuses == {"none", "PENDING", "APPROVED", "DENIED", "CANCELLED"}
NoAskCall == [at |-> "idle", r |-> 0, i |-> 0, content |-> NoData, verdict |-> ""]
AskSteps == {"idle", "amend", "create", "start", "write", "find", "copy", "stamp", "deny"}

ProfileTypeOK ==
    /\ \A r \in Requests : request[r].status \in RequestStatuses /\ request[r].wf \in Instances \cup {0}
    /\ profile \in Data /\ patched \subseteq Fields
    /\ \A c \in AskCalls : askCall[c].at \in AskSteps /\ (askCall[c].at = "idle" => askCall[c] = NoAskCall)
    /\ \A i \in Instances : about[i] = 0 <=> inst[i] = Unstarted
    /\ seen \in 0..Len(stream) /\ Len(stream) <= MaxEvents
    /\ astray \subseteq Requests /\ amended \subseteq Requests /\ doubled \in BOOLEAN

ProfileInit ==
    /\ request = [r \in Requests |-> [status |-> "none", wf |-> 0, content |-> NoData]]
    /\ profile = NoData /\ patched = {}
    /\ askCall = [c \in AskCalls |-> NoAskCall]
    /\ about = [i \in Instances |-> 0]
    /\ stream = << >> /\ seen = 0
    /\ astray = {} /\ doubled = FALSE /\ amended = {}

Asks(c, call) == askCall[c].at = "idle" /\ askCall' = [askCall EXCEPT ![c] = call]
Moves(c, step) == askCall' = [askCall EXCEPT ![c].at = step]
Answers(c) == askCall' = [askCall EXCEPT ![c] = NoAskCall]
Drained == seen = Len(stream)
Busy(r) == \E c \in AskCalls : askCall[c].r = r
PendingRequests == {r \in Requests : request[r].status = "PENDING"}
\* The approval of i moves while a call or an event about it still has something to write.
Strays(i) == astray' = IF Busy(about[i]) \/ ~Drained THEN astray \cup {about[i]} ELSE astray

\* There is a later approval of the request i is about.
Restarted(i) == \E j \in Instances : j > i /\ about[j] = about[i]

-----------------------------------------------------------------------------
(* POST profile-update-requests                                             *)

\* A pending request is amended in place, as a whole; otherwise one is created.  What is not sent is null.
AskBegins(c) ==
    /\ \E n \in Data :
          IF PendingRequests # {}
             THEN \E r \in PendingRequests : Asks(c, [NoAskCall EXCEPT !.at = "amend", !.r = r, !.content = n])
             ELSE Asks(c, [NoAskCall EXCEPT !.at = "create", !.content = n])
    /\ doubled' = (doubled \/ (PendingRequests = {} /\ \E d \in AskCalls : askCall[d].at = "create"))
    /\ UNCHANGED << inst, request, profile, patched, about, stream, seen, astray, amended >>

\* Whatever has become of the request meanwhile.
AskAmends(c) ==
    /\ askCall[c].at = "amend"
    /\ request' = [request EXCEPT ![askCall[c].r].content = askCall[c].content]
    /\ amended' = IF request[askCall[c].r].status # "PENDING"
                     \/ \E d \in AskCalls : askCall[d].r = askCall[c].r /\ askCall[d].at \in {"copy", "stamp"}
                  THEN amended \cup {askCall[c].r} ELSE amended
    /\ Answers(c)
    /\ UNCHANGED << inst, profile, patched, about, stream, seen, astray, doubled >>

AskCreates(c) ==
    /\ askCall[c].at = "create"
    /\ \E r \in Requests :
          /\ request[r].status = "none" /\ \A q \in Requests : q < r => request[q].status # "none"
          /\ request' = [request EXCEPT ![r] = [status |-> "PENDING", wf |-> 0, content |-> askCall[c].content]]
          /\ askCall' = [askCall EXCEPT ![c] = [NoAskCall EXCEPT !.at = "start", !.r = r]]
    /\ UNCHANGED << inst, profile, patched, about, stream, seen, astray, doubled, amended >>

\* A failed start leaves a pending request without an approval, which every later call only amends.
AskStarts(c) ==
    /\ askCall[c].at = "start"
    /\ \/ /\ \E i \in Instances :
                /\ StartInstance(i)
                /\ about' = [about EXCEPT ![i] = askCall[c].r]
                /\ askCall' = [askCall EXCEPT ![c].at = "write", ![c].i = i]
          /\ UNCHANGED astray
       \/ astray' = astray \cup {askCall[c].r} /\ Answers(c) /\ UNCHANGED << inst, about >>
    /\ UNCHANGED << request, profile, patched, stream, seen, doubled, amended >>

AskWrites(c) ==
    /\ askCall[c].at = "write"
    /\ request' = [request EXCEPT ![askCall[c].r].wf = askCall[c].i]
    /\ Answers(c)
    /\ UNCHANGED << inst, profile, patched, about, stream, seen, astray, doubled, amended >>

-----------------------------------------------------------------------------
(* POST /api/tasks/[id]/complete, for a task of a profile approval          *)

ProfileDecided(c) ==
    /\ \E i \in Instances, v \in Verdicts :
          /\ CompleteReview(i, v, 1)
          /\ Strays(i)
          /\ Asks(c, [NoAskCall EXCEPT !.at = "find", !.r = about[i], !.verdict = v])
    /\ UNCHANGED << request, profile, patched, about, stream, seen, doubled, amended >>

\* Only a pending request is decided; what it asks for is read here.
ProfileFinds(c) ==
    /\ askCall[c].at = "find"
    /\ LET r == askCall[c].r IN
       IF request[r].status # "PENDING" THEN Answers(c)
       ELSE askCall' = [askCall EXCEPT ![c].at = IF askCall[c].verdict = "approved" THEN "copy" ELSE "deny",
                                       ![c].content = request[r].content]
    /\ UNCHANGED << inst, request, profile, patched, about, stream, seen, astray, doubled, amended >>

\* The employee's row first, and of it only what the request sets; the request's row afterwards.  Each write may fail.
Merged(data, content) == [f \in Fields |-> IF content[f] # 0 THEN content[f] ELSE data[f]]

ProfileCopies(c) ==
    /\ askCall[c].at = "copy"
    /\ \/ /\ profile' = Merged(profile, askCall[c].content)
          /\ patched' = {f \in patched : askCall[c].content[f] = 0}
          /\ Moves(c, "stamp") /\ UNCHANGED astray
       \/ astray' = astray \cup {askCall[c].r} /\ Answers(c) /\ UNCHANGED << profile, patched >>
    /\ UNCHANGED << inst, request, about, stream, seen, doubled, amended >>

ProfileStamps(c) ==
    /\ askCall[c].at \in {"stamp", "deny"}
    /\ \/ /\ request' = [request EXCEPT ![askCall[c].r].status =
                IF askCall[c].at = "stamp" THEN "APPROVED" ELSE "DENIED"]
          /\ UNCHANGED astray
       \/ astray' = astray \cup {askCall[c].r} /\ UNCHANGED request
    /\ Answers(c)
    /\ UNCHANGED << inst, profile, patched, about, stream, seen, doubled, amended >>

\* PATCH /api/employees/[id]: a manager, or the employee, sets some of the same fields, or empties them.
ProfilePatched ==
    /\ \E fields \in SUBSET Fields \ {{}}, new \in Data :
          /\ profile' = [f \in Fields |-> IF f \in fields THEN new[f] ELSE profile[f]]
          /\ patched' = patched \cup fields
    /\ UNCHANGED << inst, request, askCall, about, stream, seen, astray, doubled, amended >>

-----------------------------------------------------------------------------
(* The workflow's operators, its event stream and the consumer              *)

Terminates ==
    /\ Len(stream) < MaxEvents
    /\ \E i \in Instances :
          /\ EndInstance(i)
          /\ Strays(i)
          /\ stream' = Append(stream, [type |-> "Terminated", i |-> i, from |-> 0])
    /\ UNCHANGED << request, profile, patched, askCall, about, seen, doubled, amended >>

\* What is cancelled when it is over is announced once more.
TerminatesAgain ==
    /\ Len(stream) < MaxEvents
    /\ \E i \in Instances :
          /\ inst[i].stage \in {"over", "ended"}
          /\ astray' = astray \cup {about[i]}
          /\ stream' = Append(stream, [type |-> "Terminated", i |-> i, from |-> 0])
    /\ UNCHANGED << inst, request, profile, patched, askCall, about, seen, doubled, amended >>

\* An operator completes the review: the request does not hear of it.
ProfileOverruled ==
    /\ \E i \in Instances, v \in Verdicts : CompleteReview(i, v, 1) /\ astray' = astray \cup {about[i]}
    /\ UNCHANGED << request, profile, patched, askCall, about, stream, seen, doubled, amended >>

\* Restarting makes a new instance with the old one's variables.  The old one is left as it is, and may be restarted
\* again: then two approvals of one request are open, and the request knows of one.
Restarts ==
    /\ Len(stream) < MaxEvents
    /\ \E i, old \in Instances :
          /\ inst[old].stage = "ended"
          /\ StartInstance(i)
          /\ about' = [about EXCEPT ![i] = about[old]]
          /\ astray' = IF Busy(about[old]) \/ Restarted(old) THEN astray \cup {about[old]} ELSE astray
          /\ stream' = Append(stream, [type |-> "Restarted", i |-> i, from |-> old])
    /\ doubled' = TRUE
    /\ UNCHANGED << request, profile, patched, askCall, seen, amended >>

Handled(e) ==
    request' = [r \in Requests |->
        CASE e.type = "Terminated" /\ request[r].wf = e.i /\ request[r].status = "PENDING" ->
                [request[r] EXCEPT !.status = "CANCELLED"]
          [] e.type = "Restarted" /\ request[r].wf = e.from ->
                [request[r] EXCEPT !.wf = e.i, !.status = "PENDING"]
          [] OTHER -> request[r]]

\* An entry is acknowledged after it was handled, or failed: a crash in between hands it out again.
Consumes ==
    /\ ~Drained
    /\ LET e == stream[seen + 1] IN
       \/ /\ Handled(e)
          /\ seen' \in {seen, seen + 1}
          /\ astray' = IF Busy(about[e.i]) THEN astray \cup {about[e.i]} ELSE astray
       \/ /\ seen' = seen + 1
          /\ astray' = astray \cup {about[e.i]}
          /\ UNCHANGED request
    /\ UNCHANGED << inst, profile, patched, askCall, about, stream, doubled, amended >>

-----------------------------------------------------------------------------
ProfileNext ==
    \/ Terminates \/ TerminatesAgain \/ Restarts \/ Consumes \/ ProfileOverruled \/ ProfilePatched
    \/ \E c \in AskCalls :
          \/ AskBegins(c) \/ AskAmends(c) \/ AskCreates(c) \/ AskStarts(c) \/ AskWrites(c)
          \/ ProfileDecided(c) \/ ProfileFinds(c) \/ ProfileCopies(c) \/ ProfileStamps(c)

-----------------------------------------------------------------------------
(* Properties                                                               *)

\* An employee has one pending request, unless two calls overlapped or an approval was restarted.
\* A request at rest that did not go astray is pending exactly while its approval is open, and an
\* approved one was approved.  A field of the employee's row says what the last request approved
\* that sets it says, unless the employee was edited since.
ProfileUpdatesHold ==
    /\ ~doubled => Cardinality(PendingRequests) <= 1
    /\ Drained => \A r \in Requests \ astray :
          (request[r].status # "none" /\ ~Busy(r)) =>
             /\ request[r].wf # 0
             /\ request[r].status = "PENDING" <=> OpenTask(request[r].wf)
             /\ request[r].status = "APPROVED" => Said(request[r].wf, << "approved" >>)
    /\ (astray \cup amended = {} /\ ~doubled) =>
          \A r \in Requests, f \in Fields \ patched :
             (/\ request[r].status = "APPROVED" /\ request[r].content[f] # 0
              /\ \A q \in Requests : q > r =>
                    (request[q].status # "APPROVED" \/ request[q].content[f] = 0) /\ ~Busy(q))
             => profile[f] = request[r].content[f]
=============================================================================
