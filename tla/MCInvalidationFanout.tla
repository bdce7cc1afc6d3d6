------------------------- MODULE MCInvalidationFanout -------------------------
(***************************************************************************)
(* Two workers that speak one protocol and commit, and one that speaks     *)
(* another; a user with a plain key and a seat with a composite one.       *)
(***************************************************************************)
EXTENDS InvalidationFanout

CONSTANTS w1, w2, k1, k2, user, seat, Users, Seats

MC_Home == [k \in Tasks |-> IF k = k1 THEN w1 ELSE w2]
MC_TableOf == [r \in Rows |-> IF r = user THEN Users ELSE Seats]

(* A commit that flushed the seat and updated users in bulk; invalidate(Seat). *)
MC_Requests == {[rows |-> {seat}, tables |-> {Users}], [rows |-> {}, tables |-> {Seats}]}

=============================================================================
