--------------------------- MODULE MCSessionCache ---------------------------
(***************************************************************************)
(* Values for the constants of SessionCache that a configuration cannot    *)
(* write: rows u1 and u2 of the model User and o1 of the model Order.      *)
(***************************************************************************)
EXTENDS SessionCache, TLC

CONSTANTS s1, s2, u1, u2, o1, User, Order, byPk, list, joined, columns

MC_TableOf == [r \in Rows |-> IF r = o1 THEN Order ELSE User]

(* byPk: SELECT of u1; list: users that meet a condition; joined: entities   *)
(* of both models; columns: a column of User, so no entity is returned.      *)
MC_ModelsOf == [q \in Stmts |-> IF q = joined THEN <<User, Order>> ELSE <<User>>]
MC_CoversOf == [q \in Stmts |->
    CASE q = byPk -> Rows \cap {u1}
      [] q = joined -> Rows
      [] OTHER -> Rows \cap {u1, u2}]
MC_EntityStmts == Stmts \ {columns}

Symmetry == Permutations(Sessions)

=============================================================================
