\* Two administration threads and one client, two key rows.
SPECIFICATION Spec
CONSTANTS
    tenantA = tenantA
    acme = acme
    devKey = devKey
    Tenants = {tenantA, acme}
    DevTenants = {tenantA}
    AllowDeleteDev = TRUE
    KeyIds = {k1, k2}
    Secrets = {s1, s2}
    EnvTenant <- MCEnvTenant
    Threads = {a, b}
    Requests = {r1}
    None = None
SYMMETRY Symmetry
INVARIANTS TypeOK AcceptedAsOwner BarredAreRefused
PROPERTIES NeverRevived RevocationIsFinal KeysAreARegistry
CHECK_DEADLOCK FALSE
