--------------------------- MODULE WebhookDelivery ---------------------------
(***************************************************************************)
(* Webhooks of a tenant: registering and deleting them, and sending them   *)
(* the events of the tenant.  An event is sent to the webhooks listed when *)
(* it is published; every delivery resolves the name of its host, checks   *)
(* each answer, connects to one of them and is tried again later if it     *)
(* failed.  Names change where they point to, and the process may stop.    *)
(***************************************************************************)
EXTENDS Naturals, FiniteSets

CONSTANTS
    Hooks,          \* the registrations people make
    HostOf(_),      \* HostOf(h): the host in its URL
    Hosts,
    Addresses,
    Class(_),       \* Class(x): "public", "internal" or "never" for an address
    AllowedHosts,   \* the hosts and addresses an operator trusts
    Events,
    Wants(_, _),    \* Wants(h, e): the filter of h lets e through
    MaxAttempts     \* deliveries are tried so many times

VARIABLES
    registration, \* of each webhook: new, saved or deleted
    published,    \* the events that were published
    pointsTo,     \* the addresses each host resolves to at the moment
    delivery,     \* the deliveries that were started
    connected,    \* how often each of them reached a server
    contacted,    \* the hosts and addresses connections were made to
    subscribed       \* the dispatcher is subscribed

webhookVars == << registration, published, pointsTo, delivery, connected, contacted, subscribed >>

ASSUME WebhookAssumption ==
    /\ MaxAttempts \in Nat \ {0}
    /\ \A h \in Hooks : HostOf(h) \in Hosts
    /\ \A a \in Addresses : Class(a) \in {"public", "internal", "never"}

Ids == Hooks \X Events
NotStarted == [stage |-> "none", attempt |-> 0, left |-> {}]
DeliveryStages == {"none", "sending", "connecting", "waiting", "ok", "failed", "lost"}

----------------------------------------------------------------------------
\* isBlockedAddress: some ranges never pass; internal ones if the operator trusts the address or the name.
IsBlockedAddress(a, host) ==
    \/ Class(a) = "never"
    \/ Class(a) = "internal" /\ a \notin AllowedHosts /\ host \notin AllowedHosts

\* Mutant: one good answer is enough.
TargetBroken(host, answers) == \E a \in answers : ~IsBlockedAddress(a, host)

\* resolveWebhookTarget: there is an answer, and none of the answers is blocked.
Target(host, answers) == answers # {} /\ \A a \in answers : ~IsBlockedAddress(a, host)

WebhooksInit ==
    /\ registration = [h \in Hooks |-> "new"]
    /\ published = {}
    /\ pointsTo \in [Hosts -> SUBSET Addresses]
    /\ delivery = [d \in Ids |-> NotStarted]
    /\ connected = [d \in Ids |-> 0]
    /\ contacted = {} /\ subscribed = TRUE

Becomes(d, x) == delivery' = [delivery EXCEPT ![d] = x]

\* POST /webhooks: the target is checked for an immediate answer, then saved.
Register(h) ==
    /\ registration[h] = "new" /\ Target(HostOf(h), pointsTo[HostOf(h)])
    /\ registration' = [registration EXCEPT ![h] = "saved"]
    /\ UNCHANGED << published, pointsTo, delivery, connected, contacted, subscribed >>

\* DELETE /webhooks/:id.  What is being delivered to it goes on.
DeleteWebhook(h) ==
    /\ registration[h] = "saved"
    /\ registration' = [registration EXCEPT ![h] = "deleted"]
    /\ UNCHANGED << published, pointsTo, delivery, connected, contacted, subscribed >>

\* dispatch: one delivery for each webhook listed that wants the event, or none if the list cannot be read.
Dispatch(e) ==
    /\ subscribed /\ e \notin published /\ published' = published \cup {e}
    /\ \E listed \in {{h \in Hooks : registration[h] = "saved" /\ Wants(h, e)}, {}} :
        delivery' = [d \in Ids |->
            IF d[1] \in listed /\ d[2] = e THEN [stage |-> "sending", attempt |-> 1, left |-> {}] ELSE delivery[d]]
    /\ UNCHANGED << registration, pointsTo, connected, contacted, subscribed >>

\* The name is resolved anew in every attempt.
Resolve(d) ==
    /\ delivery[d].stage = "sending"
    /\ Target(HostOf(d[1]), pointsTo[HostOf(d[1])])
    /\ Becomes(d, [delivery[d] EXCEPT !.stage = "connecting", !.left = pointsTo[HostOf(d[1])]])
    /\ UNCHANGED << registration, published, pointsTo, connected, contacted, subscribed >>

\* Mutant: the addresses that are left are kept for the next attempt.
FailedBroken(d) ==
    Becomes(d, [delivery[d] EXCEPT !.stage = IF subscribed /\ delivery[d].attempt < MaxAttempts THEN "waiting" ELSE "failed"])

\* After a failure: once more after a while, unless it was the last attempt or the dispatcher has stopped.
Failed(d) ==
    Becomes(d, [delivery[d] EXCEPT !.stage = IF subscribed /\ delivery[d].attempt < MaxAttempts THEN "waiting" ELSE "failed",
                                   !.left = {}])

NoTarget(d) ==
    /\ delivery[d].stage = "sending"
    /\ ~Target(HostOf(d[1]), pointsTo[HostOf(d[1])])
    /\ Failed(d)
    /\ UNCHANGED << registration, published, pointsTo, connected, contacted, subscribed >>

\* A checked address cannot be connected to: the next one, if there is one.
Unreachable(d, a) ==
    /\ delivery[d].stage = "connecting" /\ a \in delivery[d].left
    /\ IF delivery[d].left = {a} THEN Failed(d) ELSE Becomes(d, [delivery[d] EXCEPT !.left = @ \ {a}])
    /\ UNCHANGED << registration, published, pointsTo, connected, contacted, subscribed >>

Reaches(d, a) ==
    /\ delivery[d].stage = "connecting" /\ a \in delivery[d].left
    /\ connected' = [connected EXCEPT ![d] = @ + 1]
    /\ contacted' = contacted \cup {<< HostOf(d[1]), a >>}

Accepted(d, a) ==
    /\ Reaches(d, a)
    /\ Becomes(d, [delivery[d] EXCEPT !.stage = "ok", !.left = {}])
    /\ UNCHANGED << registration, published, pointsTo, subscribed >>

\* Mutant: any error goes on to the next address.
RejectedBroken(d, a) ==
    /\ Reaches(d, a)
    /\ IF delivery[d].left = {a} THEN Failed(d) ELSE Becomes(d, [delivery[d] EXCEPT !.left = @ \ {a}])
    /\ UNCHANGED << registration, published, pointsTo, subscribed >>

\* A status outside 2xx, or an error after the connection was there: no other address is tried.
Rejected(d, a) ==
    /\ Reaches(d, a)
    /\ Failed(d)
    /\ UNCHANGED << registration, published, pointsTo, subscribed >>

\* The delay is over.  A timer that was set goes off although the dispatcher has stopped since.
Retry(d) ==
    /\ delivery[d].stage = "waiting"
    /\ Becomes(d, [delivery[d] EXCEPT !.stage = "sending", !.attempt = @ + 1])
    /\ UNCHANGED << registration, published, pointsTo, connected, contacted, subscribed >>

Repoint(host) ==
    /\ \E answers \in SUBSET Addresses : pointsTo' = [pointsTo EXCEPT ![host] = answers]
    /\ UNCHANGED << registration, published, delivery, connected, contacted, subscribed >>

StopDispatcher ==
    /\ subscribed /\ subscribed' = FALSE
    /\ UNCHANGED << registration, published, pointsTo, delivery, connected, contacted >>

\* Deliveries are kept in memory only.
ProcessEnds ==
    /\ subscribed' = FALSE
    /\ delivery' = [d \in Ids |-> IF delivery[d].stage \in {"sending", "connecting", "waiting"}
                                  THEN [delivery[d] EXCEPT !.stage = "lost", !.left = {}] ELSE delivery[d]]
    /\ UNCHANGED << registration, published, pointsTo, connected, contacted >>

Deliver(d) ==
    \/ Resolve(d) \/ NoTarget(d) \/ Retry(d)
    \/ \E a \in Addresses : Unreachable(d, a) \/ Accepted(d, a) \/ Rejected(d, a)

WebhooksNext ==
    \/ \E h \in Hooks : Register(h) \/ DeleteWebhook(h)
    \/ \E e \in Events : Dispatch(e)
    \/ \E d \in Ids : Deliver(d)
    \/ \E host \in Hosts : Repoint(host)
    \/ StopDispatcher \/ ProcessEnds

WebhooksSpec == WebhooksInit /\ [][WebhooksNext]_webhookVars

----------------------------------------------------------------------------
\* Types; only a delivery that is connecting has addresses left.
WebhooksTypeOK ==
    /\ registration \in [Hooks -> {"new", "saved", "deleted"}]
    /\ published \subseteq Events
    /\ pointsTo \in [Hosts -> SUBSET Addresses]
    /\ delivery \in [Ids -> [stage : DeliveryStages, attempt : 0..MaxAttempts, left : SUBSET Addresses]]
    /\ \A d \in Ids : delivery[d].left # {} <=> delivery[d].stage = "connecting"
    /\ connected \in [Ids -> Nat]
    /\ contacted \subseteq Hosts \X Addresses
    /\ subscribed \in BOOLEAN

\* A receiver hears of an event at most once per attempt and never again once it accepted, over all
\* addresses of its host and all retries; and connections only go to addresses that were checked,
\* wherever the name points to when they are made.
DeliveriesKeepToLimits ==
    /\ \A d \in Ids :
        /\ connected[d] <= delivery[d].attempt
        /\ delivery[d].stage \in {"sending", "connecting", "waiting"} =>
             connected[d] <= delivery[d].attempt - (IF delivery[d].stage = "waiting" THEN 0 ELSE 1)
    /\ \A c \in contacted : ~IsBlockedAddress(c[2], c[1])
=============================================================================
