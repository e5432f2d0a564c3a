--------------------------- MODULE MCDriverSession ---------------------------
(* Two or three calls on one driver of any engine. *)
EXTENDS DriverSession, TLC
CONSTANTS c1, c2, c3
Calls2 == {c1, c2}
Calls3 == {c1, c2, c3}
AllEngines == {"postgresql", "mysql", "sqlserver", "oracle", "mongodb", "dynamodb", "sqlite"}
Symmetry == Permutations(Call)
=============================================================================
