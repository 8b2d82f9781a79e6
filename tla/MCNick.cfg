SPECIFICATION Spec
CONSTANTS
    ann = ann  bob = bob  cat = cat  t1 = t1  t2 = t2
    NoUser = NoUser
    Names <- MCNames
    NoName = ""
    Lower <- MCLower
    MsgBuffer = 5
    Tasks = {t1}
    RoomBuffer = 10
    HistoryLen = 1
    Keyed = {bob}
    Dial <- Namesakes
    Guest <- MCGuest
    Present <- AnnBob
    Quieted = {ann, bob}
    OpKeys = {bob}
    EnvUsers = {}
    Motd = TRUE
    Lines <- NickLines
    MaxLines <- OneEach
    HangUps = {ann}
    Flaky = {}
    Users = {ann, bob, cat}
INVARIANTS TypeOK JobsConsistent RegistryConsistent
