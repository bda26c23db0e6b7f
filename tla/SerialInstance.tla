--------------------------- MODULE SerialInstance ---------------------------
(***************************************************************************)
(* What the application promises about the commands sent to one process    *)
(* instance, whoever sends them: they take effect one after another, each  *)
(* of them at most once, and each on the state the one before it left.     *)
(* CommitProtocol shows how the code keeps the promise.                    *)
(***************************************************************************)
CONSTANTS
    Requests,       \* the cycles somebody starts: routes, workers, timers, signals
    Parts,          \* the tables an instance is spread over
    Content0,       \* the instance as it was created
    Execute(_, _),  \* Execute(a, c): the outcomes of a's command on c, none if it is refused
    Writes(_)       \* the parts the cycle of a writes back

VARIABLES
    content,        \* the instance: a value for each part
    done            \* the requests that took effect

vars == << content, done >>

\* The content after a's outcome r was written over c.
Written(a, r, c) == [p \in Parts |-> IF p \in Writes(a) THEN r[p] ELSE c[p]]

Init == content = Content0 /\ done = {}

Apply(a) ==
    /\ a \notin done
    /\ \E r \in Execute(a, content) : content' = Written(a, r, content)
    /\ done' = done \cup {a}

Next == \E a \in Requests : Apply(a)

Spec == Init /\ [][Next]_vars
=============================================================================
