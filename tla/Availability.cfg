\* Two dates, two calls, under fairness.
CONSTANTS
    Dates <- MCDates
    DayHours = 2
    Rows <- MCRows
    Wanted <- MCWanted
    Requests = {r1, r2}
    Events = {"job", "read", "book", "release", "refund", "update", "column", "stop"}
    Info = Info
    NoPage = NoPage
SPECIFICATION FairSpec
INVARIANTS TypeOK HeldStaysBooked AnswerComplete
PROPERTIES PagesConverge
