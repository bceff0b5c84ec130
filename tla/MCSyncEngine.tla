--------------------------- MODULE MCSyncEngine ---------------------------
(* Instances of SyncEngine for TLC. *)
EXTENDS SyncEngine

OneOfEach == [k \in {"death", "call"} |-> 1]
=============================================================================
