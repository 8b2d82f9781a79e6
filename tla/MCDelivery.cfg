SPECIFICATION TraceSpec
CONSTANTS
    ann = ann  bob = bob  cat = cat  t1 = t1  t2 = t2
    NoUser = NoUser
    Names <- MCNames
    NoName = ""
    Lower <- MCLower
    MsgBuffer = 5
    Tasks = {t1}
    RoomBuffer = 10
    HistoryLen = 2
    Keyed = {ann}
    Dial <- MCDial
    Guest <- MCGuest
    Present <- OnlyAnn
    Quieted = {ann}
    OpKeys = {ann}
    EnvUsers = {}
    Motd = FALSE
    Lines <- TalkLines
    MaxLines <- AnnTwo
    HangUps = {}
    Flaky = {}
    Users = {ann, bob}
INVARIANTS NoGapOnJoin
PROPERTIES PublicInOrder
