SPECIFICATION Spec
CONSTANTS
    s1 = s1
    s2 = s2
    u1 = u1
    u2 = u2
    o1 = o1
    User = User
    Order = Order
    byPk = byPk
    list = list
    joined = joined
    columns = columns
    Sessions = {s1, s2}
    Matched = {s1, s2}
    Rows = {u1, u2}
    Tables = {User}
    Tracked = {User}
    Stmts = {list}
    EagerStmts = {}
    EnabledStmts = {list}
    Calls = {"select", "execute", "row", "autoflush", "bulk", "rollback"}
    MaxWrites = 2
    MaxVersion = 0
    TableOf <- MC_TableOf
    ModelsOf <- MC_ModelsOf
    CoversOf <- MC_CoversOf
    EntityStmts <- MC_EntityStmts
INVARIANTS
    CommittedRowEvicted
    PendingCovers
PROPERTIES
    EvictsOnlyCommitted
    ImplementsRowFence
SYMMETRY Symmetry
