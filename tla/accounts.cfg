SPECIFICATION Spec
CONSTANTS
    Request = {r1, r2, r3}
    user = user
    admin = admin
    sandbox = sandbox
    production = production
    name = name
    url = url
    e1 = e1
    e2 = e2
    MerchantUser = {user}
    Admin = {admin}
    Env = {sandbox, production}
    Field = {name, url}
    Email = {e1, e2}
    Held = e1
    None = None
    Second = 2
    TokenTTL = 4
    MaxTime = 4
    MaxSwitches = 2
    Mixes <- MixesValue
SYMMETRY Requests
INVARIANTS TypeOK DeactivationHolds SoleKey KeyKept EditKept SecretKept RegistrationWhole
PROPERTIES SessionEnds FreshSessionWorks
CHECK_DEADLOCK FALSE
