--------------------------- MODULE TenantRegistry ---------------------------
(***************************************************************************)
(* The life of a tenant: its row in the registry, its schema, its keys,    *)
(* and the background workers the process runs for it.  Creating, deleting *)
(* and suspending take several statements each; requests authenticate      *)
(* first and make sure of the workers afterwards; a periodic sync works on *)
(* a list it read before.                                                  *)
(***************************************************************************)
EXTENDS Naturals, FiniteSets

CONSTANTS
    TenantIds,
    Protected,   \* the tenant that cannot be deleted
    Latest,      \* the number of tenant migrations
    MaxWorkerSets, \* bound: sets of workers made
    MaxJobs,     \* bound: requests under way
    MaxRestarts, \* bound: restarts of the process
    NoTenant

VARIABLES
    row,         \* tenants.status
    schema,      \* migrations applied to the tenant's schema; 0: there is none
    key,         \* the tenant's API key
    behind,      \* TenantSchemaHealth
    running,     \* TenantWorkerManager.running: the set of workers of each tenant, 0 for none
    workers,     \* the sets of workers: whose they are, and how far
    sync,        \* the reconciliation under way, with the list it read
    jobs,        \* requests under way
    restarts

registryVars == << row, schema, key, behind, running, workers, sync, jobs, restarts >>

WorkerSets == 1..MaxWorkerSets
NoSync == [at |-> "idle", list |-> {}]
Job(op, t, at) == [op |-> op, of |-> t, at |-> at]
RegistryOps == {"create", "provision", "repair", "suspend", "delete", "call"}
Stages == {"unused", "starting", "on", "condemned", "ended"}

ASSUME RegistryAssumption ==
    /\ IsFiniteSet(TenantIds) /\ NoTenant \notin TenantIds
    /\ Latest \in Nat \ {0} /\ MaxWorkerSets \in Nat /\ MaxJobs \in Nat /\ MaxRestarts \in Nat

RegistryInit ==
    /\ row = [t \in TenantIds |-> IF t = Protected THEN "active" ELSE "none"]
    /\ schema = [t \in TenantIds |-> IF t = Protected THEN Latest ELSE 0]
    /\ key = [t \in TenantIds |-> "none"]
    /\ behind = {}
    /\ running = [t \in TenantIds |-> 0]
    /\ workers = [w \in WorkerSets |-> [of |-> NoTenant, stage |-> "unused"]]
    /\ sync = NoSync /\ jobs = {} /\ restarts = 0

Registry == << row, schema, key >>
Manager == << running, workers >>

Receives(j) == j \notin jobs /\ Cardinality(jobs) < MaxJobs /\ jobs' = jobs \cup {j}
Goes(j, at) == j \in jobs /\ jobs' = (jobs \ {j}) \cup {[j EXCEPT !.at = at]}
Ends(j) == j \in jobs /\ jobs' = jobs \ {j}

----------------------------------------------------------------------------
(* TenantWorkerManager *)

Unused == {w \in WorkerSets : workers[w].stage = "unused"}

\* ensure, for the tenants of ts that have no workers; one that cannot be started is forgotten at once.
Ensured(ts) ==
    LET new == {t \in ts : running[t] = 0} IN
    \E f \in [new -> Unused \cup {0}] :
        /\ \A s, t \in new : s # t /\ f[s] = f[t] => f[s] = 0
        /\ running' = [t \in TenantIds |-> IF t \in new THEN f[t] ELSE running[t]]
        /\ workers' = [w \in WorkerSets |->
             IF \E t \in new : f[t] = w
             THEN [of |-> CHOOSE t \in new : f[t] = w, stage |-> "starting"] ELSE workers[w]]

\* stopTenant: forgotten at once, stopped once it has started.
Stopped(ts) ==
    /\ running' = [t \in TenantIds |-> IF t \in ts THEN 0 ELSE running[t]]
    /\ workers' = [w \in WorkerSets |->
         IF \E t \in ts : running[t] = w THEN [workers[w] EXCEPT !.stage = "condemned"] ELSE workers[w]]

Started(w) ==
    /\ workers[w].stage = "starting"
    /\ workers' = [workers EXCEPT ![w].stage = "on"]
    /\ UNCHANGED << Registry, behind, running, sync, jobs, restarts >>

\* Mutant: the tenant is forgotten whatever set it has by now.
StartFailsBroken(w) ==
    /\ workers[w].stage \in {"starting", "condemned"}
    /\ workers' = [workers EXCEPT ![w].stage = "ended"]
    /\ running' = [running EXCEPT ![workers[w].of] = 0]
    /\ UNCHANGED << Registry, behind, sync, jobs, restarts >>

\* A failed start is forgotten, if it is still the one the manager has.
StartFails(w) ==
    /\ workers[w].stage \in {"starting", "condemned"}
    /\ workers' = [workers EXCEPT ![w].stage = "ended"]
    /\ running' = [t \in TenantIds |-> IF running[t] = w THEN 0 ELSE running[t]]
    /\ UNCHANGED << Registry, behind, sync, jobs, restarts >>

StopEnds(w) ==
    /\ workers[w].stage = "condemned"
    /\ workers' = [workers EXCEPT ![w].stage = "ended"]
    /\ UNCHANGED << Registry, behind, running, sync, jobs, restarts >>

\* listActiveTenantIds, then ensure for all of the list, then stop those that are not in it.
SyncReads ==
    /\ sync = NoSync
    /\ sync' = [at |-> "read", list |-> {t \in TenantIds : row[t] = "active" /\ schema[t] > 0 /\ t \notin behind}]
    /\ UNCHANGED << Registry, behind, Manager, jobs, restarts >>

SyncEnsures ==
    /\ sync.at = "read"
    /\ sync' = [sync EXCEPT !.at = "ensured"]
    /\ Ensured(sync.list)
    /\ UNCHANGED << Registry, behind, jobs, restarts >>

\* Mutant: only tenants that are suspended are stopped.
SyncStopsBroken ==
    /\ sync.at = "ensured" /\ \A t \in sync.list : running[t] # 0 => workers[running[t]].stage # "starting"
    /\ sync' = NoSync
    /\ Stopped({t \in TenantIds \ sync.list : row[t] = "suspended"})
    /\ UNCHANGED << Registry, behind, jobs, restarts >>

SyncStops ==
    /\ sync.at = "ensured" /\ \A t \in sync.list : running[t] # 0 => workers[running[t]].stage # "starting"
    /\ sync' = NoSync
    /\ Stopped(TenantIds \ sync.list)
    /\ UNCHANGED << Registry, behind, jobs, restarts >>

----------------------------------------------------------------------------
(* POST /tenants and provisionTenantWithKey *)

Create(t) ==
    /\ row[t] = "none"
    /\ row' = [row EXCEPT ![t] = "active"]
    /\ \E op \in {"create", "provision"} : Receives(Job(op, t, "provision"))
    /\ UNCHANGED << schema, key, behind, Manager, sync, restarts >>

\* The command line repairs a tenant that is there.
Repair(t) ==
    /\ row[t] # "none" /\ Receives(Job("repair", t, "provision"))
    /\ UNCHANGED << Registry, behind, Manager, sync, restarts >>

\* migrateTenantSchema: one transaction for each migration.
Migrate(j) ==
    /\ j \in jobs /\ j.at = "provision" /\ schema[j.of] < Latest
    /\ schema' = [schema EXCEPT ![j.of] = @ + 1]
    /\ UNCHANGED << row, key, behind, Manager, sync, jobs, restarts >>

\* Up to date: the row stays, and the command line adds a key; a tenant that is gone takes none.
Provisioned(j) ==
    /\ j.at = "provision" /\ schema[j.of] = Latest /\ Ends(j)
    /\ key' = [key EXCEPT ![j.of] = IF j.op # "create" /\ row[j.of] # "none" THEN "active" ELSE @]
    /\ UNCHANGED << row, schema, behind, Manager, sync, restarts >>

\* A migration failed: the row that was made is deleted again, unless a key refers to it by now; what
\* was applied stays.
ProvisionFails(j) ==
    /\ j.at = "provision" /\ schema[j.of] < Latest /\ Ends(j)
    /\ row' = [row EXCEPT ![j.of] = IF j.op # "repair" /\ key[j.of] = "none" THEN "none" ELSE @]
    /\ UNCHANGED << schema, key, behind, Manager, sync, restarts >>

----------------------------------------------------------------------------
(* PATCH and DELETE /tenants/:id, and its keys *)

Suspend(t) ==
    /\ row[t] \in {"active", "suspended"}
    /\ row' = [row EXCEPT ![t] = "suspended"]
    /\ Receives(Job("suspend", t, "stop"))
    /\ UNCHANGED << schema, key, behind, Manager, sync, restarts >>

Reactivate(t) ==
    /\ row[t] = "suspended" /\ row' = [row EXCEPT ![t] = "active"]
    /\ UNCHANGED << schema, key, behind, Manager, sync, jobs, restarts >>

DeleteTenant(t) ==
    /\ t # Protected /\ row[t] # "none"
    /\ Receives(Job("delete", t, "mark"))
    /\ UNCHANGED << Registry, behind, Manager, sync, restarts >>

MarkDeleting(j) ==
    /\ j.op = "delete" /\ j.at = "mark" /\ Goes(j, "stop")
    /\ row' = [row EXCEPT ![j.of] = IF @ = "none" THEN @ ELSE "deleting"]
    /\ UNCHANGED << schema, key, behind, Manager, sync, restarts >>

\* onTenantDeactivating.
Deactivate(j) ==
    /\ j.at = "stop" /\ (IF j.op = "delete" THEN Goes(j, "drop") ELSE Ends(j))
    /\ Stopped({j.of})
    /\ UNCHANGED << Registry, behind, sync, restarts >>

DropSchema(j) ==
    /\ j.op = "delete" /\ j.at = "drop" /\ Goes(j, "purge")
    /\ schema' = [schema EXCEPT ![j.of] = 0]
    /\ UNCHANGED << row, key, behind, Manager, sync, restarts >>

DeleteTenantAndKeys(j) ==
    /\ j.op = "delete" /\ j.at = "purge" /\ Ends(j)
    /\ row' = [row EXCEPT ![j.of] = "none"] /\ key' = [key EXCEPT ![j.of] = "none"]
    /\ UNCHANGED << schema, behind, Manager, sync, restarts >>

\* A step of a delete or a suspension fails; what was done stays done.
StepFails(j) ==
    /\ j.op \in {"delete", "suspend"} /\ Ends(j)
    /\ UNCHANGED << Registry, behind, Manager, sync, restarts >>

CreateKey(t) ==
    /\ row[t] = "active" /\ key' = [key EXCEPT ![t] = "active"]
    /\ UNCHANGED << row, schema, behind, Manager, sync, jobs, restarts >>

RevokeKey(t) ==
    /\ key[t] = "active" /\ key' = [key EXCEPT ![t] = "revoked"]
    /\ UNCHANGED << row, schema, behind, Manager, sync, jobs, restarts >>

----------------------------------------------------------------------------
(* A request for a tenant's own data *)

\* createAuthMiddleware and createTenantSchemaGuard.
Authenticate(t) ==
    /\ row[t] = "active" /\ key[t] = "active" /\ t \notin behind
    /\ Receives(Job("call", t, "ensure"))
    /\ UNCHANGED << Registry, behind, Manager, sync, restarts >>

\* tenantWorkers.ensure, on the request path.
EnsureWorkers(j) ==
    /\ j.op = "call" /\ j.at = "ensure" /\ Ends(j)
    /\ Ensured({j.of})
    /\ UNCHANGED << Registry, behind, sync, restarts >>

\* The process stops, and starts with migrateAllTenants, where any tenant may fail.
Restart ==
    /\ restarts < MaxRestarts /\ restarts' = restarts + 1
    /\ jobs' = {} /\ sync' = NoSync
    /\ running' = [t \in TenantIds |-> 0]
    /\ workers' = [w \in WorkerSets |-> IF workers[w].stage = "unused" THEN workers[w] ELSE [workers[w] EXCEPT !.stage = "ended"]]
    /\ LET due == {t \in TenantIds : row[t] \notin {"none", "deleting"} /\ schema[t] > 0} IN
        \E failed \in SUBSET {t \in due : schema[t] < Latest} :
            /\ behind' = failed
            /\ schema' = [t \in TenantIds |-> IF t \in due \ failed THEN Latest ELSE schema[t]]
    /\ UNCHANGED << row, key >>

WorkersStep ==
    \/ SyncReads \/ SyncEnsures \/ SyncStops
    \/ \E w \in WorkerSets : Started(w) \/ StopEnds(w)

RegistryNext ==
    \/ WorkersStep \/ Restart
    \/ \E w \in WorkerSets : StartFails(w)
    \/ \E t \in TenantIds :
        \/ Create(t) \/ Repair(t) \/ Suspend(t) \/ Reactivate(t) \/ DeleteTenant(t)
        \/ CreateKey(t) \/ RevokeKey(t) \/ Authenticate(t)
    \/ \E j \in jobs :
        \/ Migrate(j) \/ Provisioned(j) \/ ProvisionFails(j)
        \/ MarkDeleting(j) \/ Deactivate(j) \/ DropSchema(j) \/ DeleteTenantAndKeys(j) \/ StepFails(j)
        \/ EnsureWorkers(j)

\* The sync goes on at its interval, and starts and stops end.
RegistryFairness == WF_registryVars(SyncReads) /\ WF_registryVars(SyncEnsures) /\ WF_registryVars(SyncStops)
    /\ \A w \in WorkerSets : WF_registryVars(Started(w) \/ StartFails(w)) /\ WF_registryVars(StopEnds(w))

RegistrySpec == RegistryInit /\ [][RegistryNext]_registryVars
FairRegistrySpec == RegistrySpec /\ RegistryFairness

----------------------------------------------------------------------------
\* Types; a set of workers has a tenant once it is used.
RegistryTypeOK ==
    /\ row \in [TenantIds -> {"none", "active", "suspended", "deleting"}]
    /\ schema \in [TenantIds -> 0..Latest]
    /\ key \in [TenantIds -> {"none", "active", "revoked"}]
    /\ behind \subseteq TenantIds
    /\ running \in [TenantIds -> WorkerSets \cup {0}]
    /\ workers \in [WorkerSets -> [of : TenantIds \cup {NoTenant}, stage : Stages]]
    /\ \A w \in WorkerSets : workers[w].stage = "unused" <=> workers[w].of = NoTenant
    /\ sync \in [at : {"idle", "read", "ensured"}, list : SUBSET TenantIds]
    /\ jobs \subseteq [op : RegistryOps, of : TenantIds, at : {"provision", "mark", "stop", "drop", "purge", "ensure"}]
    /\ restarts \in 0..MaxRestarts

\* Requests, syncs, removals and failed starts meet in any order: a tenant has at most one set of
\* workers that nobody has told to stop, the one the manager knows, so that its events and timers
\* are served once.
OneSetPerTenant ==
    \A w \in WorkerSets : workers[w].stage \in {"starting", "on"} => running[workers[w].of] = w

\* A tenant that is suspended or deleted loses its workers in the end (or is active again), also when
\* a request that was authenticated before started them anew.
GoneTenantsGoQuiet ==
    \A t \in TenantIds : (row[t] # "active" /\ running[t] # 0) ~> (running[t] = 0 \/ row[t] = "active")
=============================================================================
