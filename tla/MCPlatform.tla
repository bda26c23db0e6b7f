----------------------------- MODULE MCPlatform -----------------------------
(***************************************************************************)
(* The parts of the platform around the engine, side by side, and with     *)
(* them who may do what in the ERP.  They share no state, so one of them   *)
(* is chosen at the start and only that one moves: every behaviour of      *)
(* every part is there, and their states add up instead of multiplying.    *)
(***************************************************************************)
EXTENDS Accounts, LoginThrottle, TenantRegistry, WebhookDelivery, AccessRights

CONSTANTS p1, p2, b1, t1, t2, k1, k2, m1, m2

MCPeople == {p1, p2}
MCBrowsers == {b1}
MCTenants == {t1}

\* Two attempts on one account from one address, one on it from elsewhere; the account may fail twice,
\* an address once, and there is room for one address.
MCAttempts == {1, 2, 3}
MCGuards == {"a@1", "a@2", "a"}
MCNarrow(x) == IF x = 3 THEN "a@2" ELSE "a@1"
MCUses(x) == {MCNarrow(x), "a"}
MCTables == {{"a@1", "a@2"}, {"a"}}
MCMaxFailures(g) == IF g = "a" THEN 2 ELSE 1

\* One receiver anywhere, one in the allow-listed network; the public name may come to point inside.
MCHooks == {"h1", "h2"}
MCHostOf(h) == IF h = "h1" THEN "out" ELSE "in"
MCClass(a) == IF a = "10.0.0.5" THEN "internal" ELSE "public"
MCWants(h, e) == h = "h1" \/ e = "done"

MCManagers == {m1, m2}
\* One manager asks for anything, two for rights of the table; while a user's rights are read there is one,
\* who waits for the answers.
MCOneManager == \A q \in orders' : q.by = m1
MCWaits == pressed' = pressed \/ orders = {}
MCInTable == \A q \in orders' : q.rows \cap Workflow = {}

VARIABLE part

platformVars == << accountsVars, throttleVars, registryVars, webhookVars >>

PlatformInit ==
    /\ part \in {"accounts", "throttle", "registry", "webhooks", "rights", "check"}
    /\ AccountsInit /\ ThrottleInit /\ RegistryInit
    /\ WebhooksInit /\ AccessInit
    /\ part = "webhooks" \/ pointsTo = [host \in Hosts |-> {}]

PlatformNext ==
    /\ UNCHANGED part
    /\ \/ part = "accounts" /\ AccountsNext /\ UNCHANGED << throttleVars, registryVars, webhookVars, accessVars >>
       \/ part = "throttle" /\ ThrottleNext /\ UNCHANGED << accountsVars, registryVars, webhookVars, accessVars >>
       \/ part = "registry" /\ RegistryNext /\ UNCHANGED << accountsVars, throttleVars, webhookVars, accessVars >>
       \/ part = "webhooks" /\ WebhooksNext /\ UNCHANGED << accountsVars, throttleVars, registryVars, accessVars >>
       \/ /\ part \in {"rights", "check"} /\ AccessNext
          /\ IF part = "check" THEN MCOneManager /\ MCInTable /\ MCWaits ELSE UNCHANGED check /\ (MCOneManager \/ MCInTable)
          /\ UNCHANGED << platformVars >>

PlatformSpec == PlatformInit /\ [][PlatformNext]_<< part, platformVars, accessVars >> /\ (part = "registry" => RegistryFairness)

PlatformTypeOK == AccountsTypeOK /\ ThrottleTypeOK /\ RegistryTypeOK /\ WebhooksTypeOK /\ AccessTypeOK

\* Neither a login throttle nor a webhook goes past its limits.
LimitsHold == LimitHolds /\ DeliveriesKeepToLimits

\* A right or membership that was taken away is gone, and a check finds the rights that were there all along.
RightsHold == WithdrawnStays /\ SteadyRightsFound
=============================================================================
