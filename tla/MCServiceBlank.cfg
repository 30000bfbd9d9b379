CONSTANTS
    None = None
    Nobody = Nobody
    Refused = Refused
    Configs <- MCConfigs
    People <- MCPeople
    EmailOf <- MCEmailOf
    AccountsOf <- MCAccountsOf
    IpOf <- MCIpOf
    ScopesOf <- MCScopesOf
    Rotating = {"slack"}
    Addresses = {"global", "private"}
    Slots = {1, 2}
    MaxRequests = 4
    MaxConsents = 2
    MaxEvents = 1
    MaxConnects = 2
SPECIFICATION MCSpec
INVARIANTS LiveSendsAudited
CHECK_DEADLOCK FALSE
