SPECIFICATION Spec
CONSTANTS
    p = p
    q = q
    u1 = u1
    u2 = u2
    u3 = u3
    Slots <- MCSlots
    Clients <- MCClients
    IPs <- MCIPs
    Accounts <- MCAccounts
    AuthKinds <- MCKinds
    IdKindOf <- MCIdKindsByIp
    AkPrefixes = FALSE
    Prefix <- MCPrefix
    KeyKinds = {1, 2, 3, 4, 5}
    IpPrefix = 0
    IpPrefix2 = 0
    IpAccount <- MCIpAccount
    Salted <- MCSalted
    HLTVExceptIP = p
    ClientsLimit = 1
    Banned <- MCBanned
    UnauthIds <- MCUnauthIds
    NoId = NoId
PROPERTIES
    RefusedLeaveSteam
