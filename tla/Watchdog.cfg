\* One tenant with two containers, idle after two ticks of the clock.
SPECIFICATION Spec
CONSTANTS
    acme = acme
    box1 = box1
    box2 = box2
    Tenants = {acme}
    Containers = {box1, box2}
    TenantOf <- OneTenant
    IdleSeconds = 2
    MaxTime = 3
    None = None
INVARIANT TypeOK
PROPERTIES PicksOnlyIdle StopsOnlyIdle QuietIsStopped
