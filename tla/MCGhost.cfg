SPECIFICATION Spec
CONSTANTS
    ann = ann  bob = bob  cat = cat  t1 = t1  t2 = t2
    NoUser = NoUser
    Names <- MCNames
    NoName = ""
    Lower <- MCLower
    MsgBuffer = 5
    Tasks = {t1}
    RoomBuffer = 10
    HistoryLen = 1
    Keyed = {bob}
    Dial <- MCDial
    Guest <- MCGuest
    Present <- AnnBob
    Quieted = {ann, bob}
    OpKeys = {bob}
    EnvUsers = {}
    Motd = FALSE
    Lines <- RenameLines
    MaxLines <- OneEach
    HangUps = {ann}
    Flaky = {}
    Users = {ann, bob}
INVARIANTS GoneForGood
