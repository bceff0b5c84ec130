--------------------------- MODULE MCAuthSessions ---------------------------
(* An instance of AuthSessions for TLC. *)
EXTENDS AuthSessions, TLC

Interchangeable == Permutations(Thread) \cup Permutations(State)
=============================================================================
