\* Two tenants, two products, two licenses, two threads; a license lasts for
\* the unit of the clock it was issued in, or for ever.
SPECIFICATION Spec
CONSTANTS
    Tenants = {"acme", "acme-law"}
    Products = {law, trade}
    Catalogs <- MCCatalogs
    Licenses = {l1, l2}
    Threads = {a, b}
    Durations = {0}
    MaxTime = 1
    None = None
    TenantIds = {"acme", "acme-law"}
    IdLike <- MCIdLike
    Begins <- MCBegins
    EndInTenants = {"tenants"}
SYMMETRY Symmetry
INVARIANTS TypeOK InstalledWasLicensed ActivatedIsInstalled OfferedIsUsable
PROPERTY RefusalIsFinal
CHECK_DEADLOCK FALSE
