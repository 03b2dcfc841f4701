-------------------------- MODULE MCSessionManager --------------------------
(* Model values and symmetry for checking SessionManager on small instances. *)
EXTENDS SessionManager, TLC

Symmetry == Permutations(Key) \cup Permutations(Client) \cup Permutations(Conn)
=============================================================================
