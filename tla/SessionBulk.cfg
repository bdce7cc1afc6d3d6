SPECIFICATION Spec
CONSTANTS
    s1 = s1
    s2 = s2
    u1 = u1
    u2 = u2
    o1 = o1
    User = User
    Order = Order
    byPk = byPk
    list = list
    joined = joined
    columns = columns
    Sessions = {s1, s2}
    Matched = {s1, s2}
    Rows = {u1, o1}
    Tables = {User, Order}
    Tracked = {User, Order}
    Stmts = {joined}
    EagerStmts = {}
    EnabledStmts = {joined}
    Calls = {"execute", "bulk", "invalidate"}
    MaxWrites = 1
    MaxVersion = 1
    TableOf <- MC_TableOf
    ModelsOf <- MC_ModelsOf
    CoversOf <- MC_CoversOf
    EntityStmts <- MC_EntityStmts
INVARIANTS
    BulkFence
PROPERTIES
    ImplementsFence
SYMMETRY Symmetry
