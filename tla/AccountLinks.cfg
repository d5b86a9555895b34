SPECIFICATION Spec
CONSTANTS
    Accounts = {a1, a2, a3, a4}
    Apps = {x1, x2}
    Proxies = {p1}
    Photos = {f1}
    Requests = {r1, r2}
    None = None
    MaxAccounts = 2
    MaxLoad = 2
    Operations = 4
SYMMETRY Symmetric
CHECK_DEADLOCK FALSE
INVARIANTS
    TypeOK
    LimitSlack
    TariffSlack
    PhotoAgrees
