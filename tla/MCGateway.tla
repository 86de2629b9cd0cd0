------------------------------- MODULE MCGateway -------------------------------
(***************************************************************************)
(* Gateway for two requests at a time, from one user who signs in and      *)
(* refreshes, and from strangers.                                          *)
(***************************************************************************)
EXTENDS Gateway, TLC

CONSTANTS u1, u2, i1, i2, k1, k2, k3, r1, r2

MCMax == [l \in Limiters |-> CASE l = "api" -> 3 [] l = "refreshAuth" -> 2 [] OTHER -> 1]

MCServed == {"POST /auth/apple", "POST /auth/refresh",
             "POST /projects/:projectId/invitations"}

Symmetry == Permutations(Tokens) \cup Permutations(Requests) \cup Permutations(PublicIds)
=============================================================================
