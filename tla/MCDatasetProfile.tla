-------------------------- MODULE MCDatasetProfile --------------------------
(* An instance of DatasetProfile for TLC. *)
EXTENDS DatasetProfile

C(kind, value) == [kind |-> kind, value |-> value]

SmallCells == {C("null", 0), C("number", 1), C("number", 90),
               C("numeral", 2), C("loose", 1), C("word", 1)}
=============================================================================
