\* Two overlapping handlers on one instance, two hosts, two tenants.
SPECIFICATION Spec
CONSTANTS
    Tenants = {d1, d2}
    Instances = {i1}
    Hosts = {h1, h2}
    Threads = {t1, t2}
    None = None
    Anyone = Anyone
    Deleted = Deleted
SYMMETRY Symmetry
INVARIANTS TypeOK HostIsExclusive RowLeadsToRuntime RunningCanBeStopped
CHECK_DEADLOCK FALSE
