\* The tenants of the command, built by concurrent requests and dumped at the end.
SPECIFICATION Spec
CONSTANTS
    p1 = p1
    p2 = p2
    p3 = p3
    a = a
    b = b
    c = c
    Requests = {p1, p2, p3}
    Tenants = {a, b, c}
    Known = {a, b}
    NoTenant = NoTenant
    NoStorage = NoStorage
INVARIANTS
    CreatedInItsTenant
    WrittenDumpComplete
PROPERTIES
    EveryRequestAnswered
