------------------------------ MODULE Messaging ------------------------------
(***************************************************************************)
(* The messages of the ERP: the routes that find or create a conversation  *)
(* and store a message (app/api/conversations), and one user's page        *)
(* (app/messages/MessagesClient.tsx), which shows the thread that was       *)
(* fetched last under the conversation that was chosen last.               *)
(***************************************************************************)
EXTENDS Naturals, Sequences, FiniteSets

CONSTANTS Partners,   \* the users this one writes with
          Finders,    \* requests that find or create a conversation, of either side
          MaxConversations, MaxPosts,
          PageSize,   \* messages of one page of a thread
          MaxLoads    \* fetches of the page under way

Conversations == 1..MaxConversations
NoThread == [of |-> 0, shown |-> << >>, page |-> 1, total |-> 0]

VARIABLES with,       \* conversation -> its other participant
          posts,      \* conversation -> how many messages it holds
          finder,     \* request -> whom it is for, and whether it has looked
          active,     \* the page: the conversation chosen
          thread,     \* the thread shown: for each message its conversation and place
          loads,      \* fetches under way
          sending,    \* the message under way
          raced,      \* the partners for whom two requests overlapped
          tangled     \* since the last load on its own: requests of the page crossed, or one failed

messageVars == << with, posts, finder, active, thread, loads, sending, raced, tangled >>

Missing == "nobody"

ASSUME MessagesAssumptions ==
    /\ MaxConversations \in Nat /\ MaxPosts \in Nat /\ PageSize \in Nat \ {0}
    /\ Missing \notin Partners

NoFinder == [for |-> Missing, at |-> "idle", page |-> FALSE]
NotSending == [at |-> "idle", to |-> 0, post |-> 0]
Shown == [of : Conversations, place : 1..MaxPosts]
Threads == [of : Conversations \cup {0}, shown : Seq(Shown), page : Nat \ {0}, total : Nat]

MessagesTypeOK ==
    /\ with \in [Conversations -> Partners \cup {Missing}]
    /\ posts \in [Conversations -> 0..MaxPosts]
    /\ \A c \in Conversations : with[c] = Missing => posts[c] = 0
    /\ \A f \in Finders : finder[f].at \in {"idle", "looking", "creating"} /\ finder[f].for \in Partners \cup {Missing}
    /\ active \in Conversations \cup {0} /\ (active # 0 => with[active] # Missing)
    /\ thread \in Threads /\ \A q \in loads : q.answer \in Threads
    /\ sending.at \in {"idle", "posting", "posted", "failed"} /\ raced \subseteq Partners /\ tangled \in BOOLEAN

MessagesInit ==
    /\ with = [c \in Conversations |-> Missing] /\ posts = [c \in Conversations |-> 0]
    /\ finder = [f \in Finders |-> NoFinder]
    /\ active = 0 /\ thread = NoThread /\ loads = {} /\ sending = NotSending
    /\ raced = {} /\ tangled = FALSE

Held(p) == { c \in Conversations : with[c] = p }
Created == { c \in Conversations : with[c] # Missing }

-----------------------------------------------------------------------------
(* Choosing a conversation                                                  *)

\* The effect on the chosen conversation: nothing when it is the one already, a fetch of its first
\* page otherwise; what was fetched before stays shown until then.
Chosen(c) ==
    IF c = active THEN UNCHANGED << active, loads, tangled >>
    ELSE /\ active' = c
         /\ loads' = loads \cup {[of |-> c, page |-> 1, answered |-> FALSE, answer |-> NoThread]}
         /\ tangled' = (loads # {} \/ sending.at # "idle")

\* From the list.
Selects(c) ==
    /\ c \in Created /\ Cardinality(loads) < MaxLoads
    /\ Chosen(c)
    /\ UNCHANGED << with, posts, finder, thread, sending, raced >>

\* POST /api/conversations, or the messages page itself, asked for partner p by this page or by anyone else.
FinderBegins(f, p, here) ==
    /\ finder[f].at = "idle"
    /\ here => \A g \in Finders : ~finder[g].page
    /\ finder' = [finder EXCEPT ![f] = [for |-> p, at |-> "looking", page |-> here]]
    /\ raced' = IF \E g \in Finders : finder[g].for = p THEN raced \cup {p} ELSE raced
    /\ UNCHANGED << with, posts, active, thread, loads, sending, tangled >>

\* Back on the page, the conversation is chosen; elsewhere nothing more happens here.
Finds(f, c) ==
    /\ finder' = [finder EXCEPT ![f] = NoFinder]
    /\ IF finder[f].page THEN Cardinality(loads) < MaxLoads /\ Chosen(c) ELSE UNCHANGED << active, loads, tangled >>

\* As if an existing one were only found once it has messages.
LooksForBroken(p) == { c \in Held(p) : posts[c] # 0 }
\* The first statement: any conversation of the two.
LooksFor(p) == Held(p)

FinderLooks(f) ==
    /\ finder[f].at = "looking"
    /\ IF LooksFor(finder[f].for) # {} THEN \E c \in LooksFor(finder[f].for) : Finds(f, c)
       ELSE finder' = [finder EXCEPT ![f].at = "creating"] /\ UNCHANGED << active, loads, tangled >>
    /\ UNCHANGED << with, posts, thread, sending, raced >>

\* The second statement; nothing in the schema forbids a second conversation of the two.
FinderCreates(f) ==
    /\ finder[f].at = "creating"
    /\ \E c \in Conversations \ Created :
          /\ \A d \in Conversations \ Created : c <= d
          /\ with' = [with EXCEPT ![c] = finder[f].for]
          /\ Finds(f, c)
    /\ UNCHANGED << posts, thread, sending, raced >>

\* Refused, or without an answer.
FinderFails(f) ==
    /\ finder[f].at # "idle"
    /\ finder' = [finder EXCEPT ![f] = NoFinder]
    /\ UNCHANGED << with, posts, active, thread, loads, sending, raced, tangled >>

-----------------------------------------------------------------------------
(* Fetching                                                                 *)

\* GET /api/conversations/[id]/messages: a page counted from the oldest message.
PageOf(c, page) ==
    [of |-> c, page |-> page, total |-> posts[c],
     shown |-> [k \in 1..Cardinality({ i \in 1..posts[c] : i > (page - 1) * PageSize /\ i <= page * PageSize }) |->
                   [of |-> c, place |-> (page - 1) * PageSize + k]]]

LoadServed(q) ==
    /\ ~q.answered
    /\ loads' = (loads \ {q}) \cup {[q EXCEPT !.answered = TRUE, !.answer = PageOf(q.of, q.page)]}
    /\ UNCHANGED << with, posts, finder, active, thread, sending, raced, tangled >>

\* The thread becomes what came last, whichever conversation it was fetched for.
LoadArrives(q) ==
    /\ q.answered
    /\ thread' = q.answer
    /\ loads' = loads \ {q}
    /\ UNCHANGED << with, posts, finder, active, sending, raced, tangled >>

\* A fetch that fails leaves the thread that was there.
LoadFails(q) ==
    /\ loads' = loads \ {q}
    /\ tangled' = TRUE
    /\ UNCHANGED << with, posts, finder, active, thread, sending, raced >>

\* "Load more", once nothing is loading: the next page takes the place of this one.
LoadsMore ==
    /\ active # 0 /\ loads = {} /\ thread.of # 0 /\ thread.total > thread.page * PageSize
    /\ loads' = {[of |-> active, page |-> thread.page + 1, answered |-> FALSE, answer |-> NoThread]}
    /\ tangled' = (sending.at # "idle")
    /\ UNCHANGED << with, posts, finder, active, thread, sending, raced >>

-----------------------------------------------------------------------------
(* Sending                                                                  *)

SendBegins ==
    /\ active # 0 /\ sending.at = "idle"
    /\ sending' = [at |-> "posting", to |-> active, post |-> 0]
    /\ tangled' = (tangled \/ loads # {})
    /\ UNCHANGED << with, posts, finder, active, thread, loads, raced >>

\* POST /api/conversations/[id]/messages.
SendServed ==
    /\ sending.at = "posting"
    /\ \/ /\ posts[sending.to] < MaxPosts
          /\ posts' = [posts EXCEPT ![sending.to] = @ + 1]
          /\ \E at \in {"posted", "failed"} : sending' = [sending EXCEPT !.at = at, !.post = posts'[sending.to]]
       \/ sending' = [sending EXCEPT !.at = "failed"] /\ UNCHANGED posts
    /\ UNCHANGED << with, finder, active, thread, loads, raced, tangled >>

\* As if a message just sent were put before the others.
AppendedBroken(t, m) == IF t.of = 0 THEN t ELSE [t EXCEPT !.shown = << m >> \o @, !.total = @ + 1]
\* The message is put at the end of whatever thread is shown.
Appended(t, m) == IF t.of = 0 THEN t ELSE [t EXCEPT !.shown = Append(@, m), !.total = @ + 1]

SendAnswered ==
    /\ sending.at \in {"posted", "failed"}
    /\ thread' = IF sending.at = "posted" THEN Appended(thread, [of |-> sending.to, place |-> sending.post]) ELSE thread
    /\ sending' = NotSending
    /\ UNCHANGED << with, posts, finder, active, loads, raced, tangled >>

\* The partner writes.
PartnerPosts(c) ==
    /\ c \in Created /\ posts[c] < MaxPosts
    /\ posts' = [posts EXCEPT ![c] = @ + 1]
    /\ UNCHANGED << with, finder, active, thread, loads, sending, raced, tangled >>

-----------------------------------------------------------------------------
MessagesNext ==
    \/ \E c \in Conversations : Selects(c) \/ PartnerPosts(c)
    \/ \E f \in Finders : \/ \E p \in Partners, here \in BOOLEAN : FinderBegins(f, p, here)
                          \/ FinderLooks(f) \/ FinderCreates(f) \/ FinderFails(f)
    \/ \E q \in loads : LoadServed(q) \/ LoadArrives(q) \/ LoadFails(q)
    \/ LoadsMore \/ SendBegins \/ SendServed \/ SendAnswered

-----------------------------------------------------------------------------
(* Properties                                                               *)

\* Two users have one conversation, unless two requests for it overlapped.
OneConversation == \A p \in Partners \ raced : Cardinality(Held(p)) <= 1

\* With nothing under way, the thread shown is that of the chosen conversation, its messages in the
\* order they were written and each once, unless requests of the page crossed or a fetch failed.
ThreadOfTheChosen ==
    (active # 0 /\ loads = {} /\ sending.at = "idle" /\ ~tangled) =>
       /\ thread.of = active
       /\ \A k \in DOMAIN thread.shown :
             /\ thread.shown[k].of = active
             /\ k > 1 => thread.shown[k - 1].place < thread.shown[k].place
=============================================================================
