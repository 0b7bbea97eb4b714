SPECIFICATION DashboardSpec
CONSTANTS
    Callers = {c1, c2}
    Keys = {listings, sellers}
    Pinned = {listings}
    MaxId = 3
    Objects = {1, 2, 3, 4, 5}
INVARIANTS DashboardTypeOK CallersGetTheirSnapshot SellersStayHidden PageIsNoOlderThanItsLoad
