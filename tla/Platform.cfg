SPECIFICATION PlatformSpec
CONSTANTS
    p1 = p1
    p2 = p2
    b1 = b1
    t1 = t1
    t2 = t2
    k1 = k1
    k2 = k2
    m1 = m1
    m2 = m2
    People <- MCPeople
    First = p1
    Browsers <- MCBrowsers
    Tenants <- MCTenants
    MaxPasswords = 2
    MaxRequests = 3
    Nobody = Nobody
    Attempts <- MCAttempts
    Guards <- MCGuards
    Uses <- MCUses
    Narrow <- MCNarrow
    Tables <- MCTables
    MaxFailures <- MCMaxFailures
    MaxKeys = 1
    TenantIds <- MCTenants
    Protected = t2
    Latest = 2
    MaxWorkerSets = 2
    MaxJobs = 2
    MaxRestarts = 1
    NoTenant = NoTenant
    Hooks <- MCHooks
    HostOf <- MCHostOf
    Hosts = {"out", "in"}
    Addresses = {"1.1.1.1", "10.0.0.5"}
    Class <- MCClass
    AllowedHosts = {"in"}
    Events = {"done"}
    Wants <- MCWants
    MaxAttempts = 2
    Rights = {"read", "approve"}
    Known = {"read"}
    Workflow = {"approve"}
    Managers <- MCManagers
    MaxOrders = 2
CHECK_DEADLOCK FALSE
INVARIANTS PlatformTypeOK AdministratorRemains OldSessionsEnd LimitsHold OneSetPerTenant RightsHold
PROPERTIES GoneTenantsGoQuiet
