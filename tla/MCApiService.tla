---------------------------- MODULE MCApiService ----------------------------
(* An instance of ApiService for TLC. *)
EXTENDS ApiService, TLC

Interchangeable == Permutations(Job) \cup Permutations(Thread)
=============================================================================
