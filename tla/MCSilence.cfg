SPECIFICATION SilenceSpec
CONSTANTS
    ann = ann  bob = bob  cat = cat  t1 = t1  t2 = t2
    NoUser = NoUser
    Names <- MCNames
    NoName = ""
    Lower <- MCLower
    MsgBuffer = 5
    Tasks = {t1}
    RoomBuffer = 10
    HistoryLen = 1
    Keyed = {bob}
    Dial <- MCDial
    Guest <- OwnGuests
    Present <- AnnBobCat
    Quieted = {ann, bob, cat}
    OpKeys = {bob}
    EnvUsers = {}
    Motd = FALSE
    Lines <- MuteLines
    MaxLines <- BobTwo
    HangUps = {}
    Flaky = {}
    Users = {ann, bob, cat}
INVARIANTS MutedStaysSilent IgnoredStaysHidden PrivateStaysPrivate
