--------------------------- MODULE ConsoleSession ---------------------------
(***************************************************************************)
(* Who the console says is signed in (AuthContext, App, the sign-in and    *)
(* the invitation page), next to what the server thinks: a session cookie  *)
(* the page cannot read, sent with every request and changed by the        *)
(* answers to some, or a key the tab remembers.  Requests are handled and  *)
(* answered in any order; answers get lost.                                *)
(***************************************************************************)
EXTENDS Naturals, FiniteSets

CONSTANTS Visitors,     \* people who sign in with this browser
          Early,        \* the one of them who may have a session when the page is opened
          MaxSent       \* bound: requests of the page, reloads and what happens to a session elsewhere

ASSUME SessionAssumption == Early \in Visitors /\ "key" \notin Visitors /\ "nobody" \notin Visitors

NoCookie == [who |-> "nobody", n |-> 0]
Cookie(u, n) == [who |-> u, n |-> n]
Shown == {"nobody", "key"} \cup Visitors

VARIABLES
    shownAs,      \* the session of the page
    keyHeld,      \* the tab remembers a key
    asking,       \* the page still asks whether there is a session
    guest,        \* the invitation page: "gone", or what it knows of its link
    submitting,   \* a sign-in or an invitation is being sent: the button is disabled
    saidWhy,      \* why the session ended on its own
    jar,          \* the cookie of the browser
    openSessions, \* the sessions the server accepts
    keyGood,      \* it accepts the key
    offer,        \* who is invited, until the link is used
    outgoing,     \* requests whose answer has not come
    sent,
    mixed,        \* a sign-in was answered while an earlier request was under way
    unheard       \* the page did not ask, or lost the answer about, a session

pageVars == << shownAs, keyHeld, asking, guest, submitting, saidWhy >>
serverVars == << openSessions, keyGood, offer >>
consoleVars == << pageVars, serverVars, jar, outgoing, sent, mixed, unheard >>

Call(what, who) == [n |-> sent + 1, what |-> what, who |-> who, with |-> jar, key |-> keyHeld, answer |-> "none"]

ConsoleTypeOK ==
    /\ shownAs \in Shown /\ keyHeld \in BOOLEAN /\ guest \in {"gone", "unknown", "found", "invalid"}
    /\ saidWhy \in {"nothing", "session ended", "key refused"}
    /\ \A c \in openSessions \cup {jar} : c.who \in Visitors \cup {"nobody"}
    /\ \A c, d \in outgoing : c.n = d.n => c = d

\* Opened (again) with what the tab and the browser hold: a key is taken at its word, else the server is asked.
\* That question goes out with an effect of the first rendering, the one about an invitation with it.
Opened(invited) ==
    /\ shownAs' = (IF keyHeld THEN "key" ELSE "nobody") /\ asking' = ~keyHeld
    /\ guest' = (IF invited THEN "unknown" ELSE "gone")
    /\ submitting' = FALSE /\ saidWhy' = "nothing" /\ mixed' = FALSE /\ unheard' = keyHeld
    /\ outgoing' = {c \in {Call("me", "nobody"), [Call("info", "nobody") EXCEPT !.n = sent + 2]} :
                       IF c.what = "me" THEN ~keyHeld ELSE invited}
    /\ sent' = sent + 2

ConsoleInit ==
    /\ keyHeld \in BOOLEAN /\ keyGood \in BOOLEAN /\ offer \in Visitors \ {Early}
    /\ jar \in {NoCookie, Cookie(Early, 0)} /\ openSessions \in SUBSET ({jar} \ {NoCookie})
    /\ sent = 0 /\ outgoing = {} /\ mixed = FALSE /\ unheard = TRUE
    /\ shownAs = (IF keyHeld THEN "key" ELSE "nobody")
    /\ asking = FALSE /\ guest = "gone" /\ submitting = TRUE /\ saidWhy = "nothing"

Loads(invited) ==
    /\ sent < MaxSent /\ Opened(invited)
    /\ UNCHANGED << keyHeld, jar, serverVars >>

-----------------------------------------------------------------------------
(* What a person does                                                       *)

Sends(c) == outgoing' = outgoing \cup {c} /\ sent' = sent + 1 /\ sent < MaxSent
AtSignIn == shownAs = "nobody" /\ ~asking /\ guest = "gone" /\ ~submitting
AtWork == shownAs # "nobody" /\ ~asking /\ guest = "gone"

SubmitsPassword(u) ==
    /\ AtSignIn /\ Sends(Call("login", u)) /\ submitting' = TRUE
    /\ UNCHANGED << shownAs, keyHeld, asking, guest, saidWhy, jar, serverVars, mixed, unheard >>

\* The key is tried before it is kept.
SubmitsKey ==
    /\ AtSignIn /\ Sends([Call("try key", "key") EXCEPT !.key = TRUE]) /\ submitting' = TRUE
    /\ UNCHANGED << shownAs, keyHeld, asking, guest, saidWhy, jar, serverVars, mixed, unheard >>

AcceptsInvite ==
    /\ guest = "found" /\ ~submitting /\ Sends(Call("accept", offer)) /\ submitting' = TRUE
    /\ UNCHANGED << shownAs, keyHeld, asking, guest, saidWhy, jar, serverVars, mixed, unheard >>

LeavesInvite ==
    /\ guest = "invalid" /\ guest' = "gone"
    /\ UNCHANGED << shownAs, keyHeld, asking, submitting, saidWhy, jar, serverVars, outgoing, sent, mixed, unheard >>

Works ==
    /\ AtWork /\ Sends(Call("call", "nobody"))
    /\ UNCHANGED << pageVars, jar, serverVars, mixed, unheard >>

Store(who) == shownAs' = who /\ keyHeld' = (who = "key")

\* Only a person's session is ended on the server: whose it was is read before the page forgets it.
WasUserBroken == FALSE
WasUser == shownAs \in Visitors
SignsOutHere ==
    /\ AtWork /\ Store("nobody") /\ saidWhy' = "nothing" /\ submitting' = FALSE
    /\ IF WasUser THEN Sends([Call("logout", "nobody") EXCEPT !.key = FALSE]) ELSE UNCHANGED << outgoing, sent >>
    /\ UNCHANGED << asking, guest, jar, serverVars, mixed, unheard >>

-----------------------------------------------------------------------------
(* The server                                                               *)

Answered(c, answer) == outgoing' = (outgoing \ {c}) \cup {[c EXCEPT !.answer = answer]}

\* The session the browser arrived with is retired by a new one.
Welcomes(c, u) ==
    /\ openSessions' = (openSessions \ {c.with}) \cup {Cookie(u, c.n)}
    /\ Answered(c, "welcome")

Handles(c) ==
    /\ c.answer = "none" /\ UNCHANGED << pageVars, jar, sent, mixed, unheard >>
    /\ \/ /\ c.what = "login" /\ (Welcomes(c, c.who) \/ (Answered(c, "refused") /\ UNCHANGED openSessions))
          /\ UNCHANGED << keyGood, offer >>
       \/ /\ c.what = "accept"
          /\ IF offer # "nobody" THEN Welcomes(c, c.who) /\ offer' = "nobody"
             ELSE Answered(c, "refused") /\ UNCHANGED << openSessions, offer >>
          /\ UNCHANGED keyGood
       \/ /\ c.what = "logout" /\ openSessions' = openSessions \ {c.with} /\ Answered(c, "welcome")
          /\ UNCHANGED << keyGood, offer >>
       \/ /\ c.what = "info" /\ Answered(c, IF offer = "nobody" THEN "refused" ELSE "welcome") /\ UNCHANGED serverVars
       \/ /\ c.what \in {"me", "call", "try key"}
          \* A bearer credential wins over the cookie; one that is not accepted is forbidden, not unauthenticated.
          /\ Answered(c, IF c.key THEN (IF keyGood THEN "welcome" ELSE "forbidden")
                         ELSE IF c.with \in openSessions THEN "welcome" ELSE "refused")
          /\ UNCHANGED serverVars

Expires == sent < MaxSent /\ openSessions # {} /\ \E c \in openSessions : openSessions' = openSessions \ {c}
Revoked == sent < MaxSent /\ keyGood /\ keyGood' = FALSE

SessionExpires == Expires /\ sent' = sent + 1 /\ UNCHANGED << pageVars, jar, keyGood, offer, outgoing, mixed, unheard >>
KeyRevoked == Revoked /\ sent' = sent + 1 /\ UNCHANGED << pageVars, jar, openSessions, offer, outgoing, mixed, unheard >>

-----------------------------------------------------------------------------
(* The answers                                                              *)

Rest(c) == outgoing \ {c}
Ok(c) == c.answer = "welcome"

\* The answer to "who am I" counts as long as the page has not been left, whatever was signed in meanwhile.
MeAnswered(c) ==
    /\ c.what = "me" /\ c.answer # "none" /\ outgoing' = Rest(c) /\ asking' = FALSE
    /\ IF Ok(c) THEN Store(c.with.who) ELSE UNCHANGED << shownAs, keyHeld >>
    /\ UNCHANGED << guest, submitting, saidWhy, jar, serverVars, sent, mixed, unheard >>

InfoAnswered(c) ==
    /\ c.what = "info" /\ c.answer # "none" /\ outgoing' = Rest(c)
    /\ guest' = (IF guest = "gone" THEN guest ELSE IF Ok(c) THEN "found" ELSE "invalid")
    /\ UNCHANGED << shownAs, keyHeld, asking, submitting, saidWhy, jar, serverVars, sent, mixed, unheard >>

SignInAnswered(c) ==
    /\ c.what \in {"login", "accept", "try key"} /\ c.answer # "none" /\ outgoing' = Rest(c) /\ submitting' = FALSE
    /\ IF Ok(c)
       THEN /\ Store(c.who) /\ saidWhy' = "nothing" /\ mixed' = (mixed \/ Rest(c) # {})
            /\ jar' = (IF c.what = "try key" THEN jar ELSE Cookie(c.who, c.n))
            /\ guest' = "gone" /\ unheard' = (unheard /\ c.what = "try key")
       ELSE UNCHANGED << shownAs, keyHeld, saidWhy, jar, guest, mixed, unheard >>
    /\ UNCHANGED << asking, serverVars, sent >>

LogoutAnswered(c) ==
    /\ c.what = "logout" /\ c.answer # "none" /\ outgoing' = Rest(c) /\ jar' = NoCookie
    /\ UNCHANGED << pageVars, serverVars, sent, mixed, unheard >>

\* onUnauthorized drops whatever is shown now.
CallAnswered(c) ==
    /\ c.what = "call" /\ c.answer # "none" /\ outgoing' = Rest(c)
    /\ IF c.answer = "refused" /\ shownAs # "nobody"
       THEN /\ Store("nobody") /\ submitting' = FALSE
            /\ saidWhy' = IF shownAs = "key" THEN "key refused" ELSE "session ended"
       ELSE UNCHANGED << shownAs, keyHeld, submitting, saidWhy >>
    /\ UNCHANGED << asking, guest, jar, serverVars, sent, mixed, unheard >>

AnswerLost(c) ==
    /\ outgoing' = Rest(c)
    /\ asking' = (asking /\ c.what # "me")
    /\ submitting' = (submitting /\ c.what \notin {"login", "accept", "try key"})
    /\ guest' = (IF c.what = "info" /\ guest # "gone" THEN "invalid" ELSE guest)
    /\ unheard' = (unheard \/ c.what \in {"me", "login", "accept", "logout"})
    /\ UNCHANGED << shownAs, keyHeld, saidWhy, jar, serverVars, sent, mixed >>

Answers(c) ==
    MeAnswered(c) \/ InfoAnswered(c) \/ SignInAnswered(c) \/ LogoutAnswered(c) \/ CallAnswered(c) \/ AnswerLost(c)

ConsoleNext ==
    \/ \E invited \in BOOLEAN : Loads(invited)
    \/ \E u \in Visitors : SubmitsPassword(u)
    \/ SubmitsKey \/ AcceptsInvite \/ LeavesInvite \/ Works \/ SignsOutHere \/ SessionExpires \/ KeyRevoked
    \/ \E c \in outgoing : Handles(c) \/ Answers(c)

ConsoleSpec == ConsoleInit /\ [][ConsoleNext]_consoleVars

-----------------------------------------------------------------------------
\* Unless a sign-in was answered while something sent before it was under way: who is shown is who the cookie names,
\* a session said to have ended has ended, and a page that shows nobody, with nothing under way and no answer lost,
\* has left no session behind that the browser could use.  A key is remembered exactly while it is what is shown.
ConsoleShowsTheServer ==
    /\ keyHeld <=> shownAs = "key"
    /\ ~mixed =>
          /\ shownAs \in Visitors => jar.who = shownAs
          /\ saidWhy = "session ended" => jar \notin openSessions
          /\ shownAs = "nobody" /\ outgoing = {} /\ ~unheard => jar \notin openSessions
=============================================================================
