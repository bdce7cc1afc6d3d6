---------------------------- MODULE MCRedisPubSub ----------------------------
(***************************************************************************)
(* Two tasks that publish.                                                 *)
(***************************************************************************)
EXTENDS RedisPubSub

CONSTANTS p1, p2

=============================================================================
