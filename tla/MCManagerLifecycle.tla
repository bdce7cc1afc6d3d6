-------------------------- MODULE MCManagerLifecycle --------------------------
(***************************************************************************)
(* Two commits of sync sessions, one of an async session.                  *)
(***************************************************************************)
EXTENDS ManagerLifecycle

CONSTANTS p1, p2, p3

=============================================================================
