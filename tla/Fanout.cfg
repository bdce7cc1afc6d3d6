SPECIFICATION FairSpec
CONSTANTS
    w1 = w1
    w2 = w2
    k1 = k1
    k2 = k2
    user = user
    seat = seat
    Users = Users
    Seats = Seats
    Nobody = Nobody
    Workers = {w1, w2}
    Tasks = {k1, k2}
    Rows = {user, seat}
    Composite = {seat}
    Tables = {Users, Seats}
    MaxCalls = 2
    MaxFaults = 1
    Home <- MC_Home
    TableOf <- MC_TableOf
    Requests <- MC_Requests
INVARIANTS
    TypeOK
    BumpsBounded
    StaleOwed
PROPERTIES
    StaleGoes
