----------------------------- MODULE MCReadPolicy -----------------------------
(***************************************************************************)
(* Users with one primary-key column, seats with two, and posts.  Seats    *)
(* are configured under the path of a package that re-exports them.        *)
(***************************************************************************)
EXTENDS ReadPolicy, TLC

CONSTANTS User, Seat, Post

MC_Paths == {"*", "app.User", "app.Seat", "app.Post", "api.Seat", "app.Gone", "User"}
MC_Malformed == {"User"}
MC_Imported ==
    [p \in MC_Paths |-> CASE p = "app.User" -> User
                          [] p \in {"app.Seat", "api.Seat"} -> Seat
                          [] p = "app.Post" -> Post
                          [] OTHER -> None]
MC_PathOf == [m \in Models |-> CASE m = User -> "app.User" [] m = Seat -> "app.Seat" [] OTHER -> "app.Post"]
MC_PrimaryKey == [m \in Models |-> IF m = Seat THEN {"hall", "number"} ELSE {"id"}]

UserRow(id, name) == [of |-> User, at |-> [id |-> id, name |-> name, head |-> id]]
SeatRow(number) == [of |-> Seat, at |-> [hall |-> "1", number |-> number]]
MC_Database == {UserRow("1", "a b"), UserRow("2", "a  b"), SeatRow("1"), SeatRow("2"), [of |-> Post, at |-> [id |-> "1"]]}

MC_Squeezed == [v \in {"1", "2", "a b", "a  b"} |-> IF v = "a  b" THEN "a b" ELSE v]

-----------------------------------------------------------------------------
Raw(ops, timeout) == [ops |-> ops, timeout |-> timeout]

Wildcards == {Absent, None, Text, Raw(Absent, Absent), Raw({"get", "fetch"}, 60), Raw(All, None), Raw(None, 60)}
OwnEntries == {Absent, None, Raw(Absent, 30), Raw(Absent, Absent), Raw({"fetch", "count"}, None), Raw({"get", "bad"}, 30),
               Raw(Text, 30), Raw(None, Absent), Raw(All, 0)}
OtherEntries == {Absent, None, Raw(All, Absent)}

Mapping(f) == [p \in {q \in DOMAIN f : f[q] # Absent} |-> f[p]]
Backend(form, url) == [form |-> form, url |-> url]
Arguments(models, timeout, backend) == [models |-> models, timeout |-> timeout, backend |-> backend]

MC_Models ==
    {Mapping(("*" :> w) @@ ("app.User" :> u) @@ ("app.Post" :> p) @@ ("api.Seat" :> q)) :
        w \in Wildcards, u \in OwnEntries, p \in {Absent, None}, q \in OtherEntries}

MC_Inputs ==
    {Arguments(models, timeout, Backend("string", "scheme")) : models \in MC_Models, timeout \in {0, 10}}
    \cup {Arguments(("app.User" :> None) @@ (p :> Raw(All, 30)), 10, b) :
            p \in {"User", "app.Gone"},
            b \in {Backend("mapping", "scheme"), Backend("mapping", "none"), Backend("other", "scheme")}}

-----------------------------------------------------------------------------
Column(kind, m) == [kind |-> kind, model |-> m]
Compare(criterion, m, key, op, against, value) ==
    [criterion |-> criterion, model |-> m, key |-> key, op |-> op, against |-> against, value |-> value]
Is(criterion, m, key, op, value) == Compare(criterion, m, key, op, "literal", value)

Select(columns, where) ==
    [columns |-> columns, where |-> where, joined |-> {}, eager |-> {}, parameters |-> None, mode |-> "plain"]

Users == Select(<<Column("entity", User)>>, <<>>)
UserBy(key, op, value) == [Users EXCEPT !.where = <<Is(1, User, key, op, value)>>]
GetUser(id) ==
    [Users EXCEPT !.where = <<Compare(1, User, "id", "eq", "parameter", "pk_1")>>, !.parameters = [pk_1 |-> id]]
OwnHeads == [Users EXCEPT !.where = <<Compare(1, User, "id", "eq", "column", "head")>>]
Seats(where) == Select(<<Column("entity", Seat)>>, where)

MC_Statements ==
    {GetUser(id) : id \in {"1", "2"}}
    \cup {UserBy("name", "eq", v) : v \in {"a b", "a  b"}}
    \cup {UserBy("id", "ne", "1"), [Users EXCEPT !.mode = "refresh"], [Users EXCEPT !.eager = {Post}], Users, OwnHeads,
          [Users EXCEPT !.joined = {Post}, !.where = <<Is(1, Post, "id", "eq", "1")>>],
          Select(<<Column("entity", User), Column("alias", User)>>, <<Is(1, User, "id", "eq", "1")>>),
          Select(<<Column("column", User), Column("count", None)>>, <<>>),
          Select(<<Column("count", None)>>, <<>>),
          Select(<<Column("entity", User), Column("entity", Post)>>, <<>>),
          Seats(<<Is(1, Seat, "hall", "eq", "1"), Is(2, Seat, "number", "eq", "2")>>),
          Seats(<<Is(1, Seat, "hall", "eq", "1"), Is(1, Seat, "number", "eq", "2")>>),
          Seats(<<Is(1, Seat, "hall", "eq", "1"), Is(2, Seat, "hall", "eq", "1")>>)}

=============================================================================
