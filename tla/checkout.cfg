SPECIFICATION Spec
CONSTANTS
    Request = {r1, r2, r3}
    cashi = cashi
    plain = plain
    other = other
    gone = gone
    mock = mock
    ip1 = ip1
    ip2 = ip2
    proxy = proxy
    garbled = garbled
    None = None
    NoBucket = NoBucket
    NoConfig = NoConfig
    IP = {ip1, ip2, proxy}
    Proxies = {proxy}
    Unreadable = {garbled}
    Cost = 2
    Burst = 3
    IdleAfter = 6
    Provider = {cashi, plain, other, gone, mock}
    Sandbox = mock
    Defaults <- DefaultsValue
    Rate <- RateValue
    Priority = {1, 2}
    Amount = {1, 3, 5}
    Deadline = {0, 1}
    PlatformMin = 2
    PlatformMax = 3
    Changes <- ChangesValue
    MaxTime = 12
    MaxSwitches = 2
    Mixes <- MixesValue
SYMMETRY Requests
INVARIANTS TypeOK CleanupInvisible AmountsAsQuoted ClosedTakesNoOrder LinkAsAsked RoutedSafely
PROPERTY RateHeld
CHECK_DEADLOCK FALSE
