CONSTANTS
    Notices = {n1}
    Download = d1
    Alarms = {a1}
    Urls = {u1}
    Empty = Empty
    Timeout = 1
    Cells = {"usage"}
    Values = {v1, v2}
    Beginnings = {v1}
    r1 = r1
    r2 = r2
    r3 = r3
    Requests = {r1, r2, r3}
    KindOf <- MCKindOf
    Null = Null
    MaxEvents = 1
SPECIFICATION Spec
INVARIANTS
    RowsAreMessages
PROPERTIES
    StatusCatchesUp
    NoticesDisappear
