SPECIFICATION DisplaySpec
CONSTANTS
    Rows = 7
    Cols = 3
    Blank = " "
    Widths = {2, 3}
    Clients <- MCClients
    Words <- MCWords
    MessageRow <- MCMessageRow
    MessageRows = {1}
    MaxLine = 2
    HistoryLen = 1
INVARIANTS TypeOK CursorKnown MessagesStay InputShown
PROPERTIES PasteTold
CHECK_DEADLOCK FALSE
