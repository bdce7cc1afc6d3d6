SPECIFICATION Spec
CONSTANTS
    User = User
    Seat = Seat
    Post = Post
    None = None
    Absent = Absent
    All = All
    Text = Text
    Invalid = Invalid
    Models = {User, Seat, Post}
    Paths <- MC_Paths
    Malformed <- MC_Malformed
    Imported <- MC_Imported
    PathOf <- MC_PathOf
    PrimaryKey <- MC_PrimaryKey
    Database <- MC_Database
    Squeezed <- MC_Squeezed
    Inputs <- MC_Inputs
    Statements <- MC_Statements
    MaxEntries = 1
INVARIANTS
    TypeOK
    ConfigurationMeans
    TrackedStaysFresh
    HitsAnswer
    GetsFindOneRow
CHECK_DEADLOCK FALSE
