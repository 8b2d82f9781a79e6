SPECIFICATION FairSpec
CONSTANTS
    ann = ann  bob = bob  cat = cat  t1 = t1  t2 = t2
    NoUser = NoUser
    Names <- MCNames
    NoName = ""
    Lower <- MCLower
    MsgBuffer = 1
    Tasks = {t1}
    RoomBuffer = 1
    HistoryLen = 1
    Keyed = {bob, cat}
    Dial <- SameName
    Guest <- MCGuest
    Present <- OnlyBob
    Quieted = {bob}
    OpKeys = {bob, cat}
    EnvUsers = {cat}
    Motd = FALSE
    Lines <- SessionLines
    MaxLines <- OneEach
    HangUps = {}
    Flaky = {cat}
    Users = {bob, cat}
PROPERTIES RoomDrains ClosedLeaves
