SPECIFICATION AdmissionSpec
CONSTANTS
    op = op  user = user  guest = guest
    opkey = opkey  key = key
    home = home  away = away  client = client
    Conns = {op, user}
    Keys = {opkey, key}
    Addrs = {home, away}
    Clients = {client}
    NoKey = NoKey  Nobody = Nobody
    KeyOf <- MCKeyOf  AddrOf <- MCAddrOf  ClientOf <- MCClientOf
    Admins = {opkey}
    Listed = {key}
    Issued = {"ban", "query", "op", "mode", "allow", "import", "reload", "reverify"}
    Queries <- MCQueries
    MaxTries = 2  MaxCommands = 2
PROPERTIES NoBanMissed OpsGetIn AdmittedWasAllowed Reverified
CHECK_DEADLOCK FALSE
