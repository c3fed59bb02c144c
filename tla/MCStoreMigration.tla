--------------------------- MODULE MCStoreMigration ---------------------------
(***************************************************************************)
(* Two processes on a path where nothing stands, or a store of an earlier  *)
(* version with two graph rows, or a database that is no store: somebody   *)
(* else's, one of a later QuantForge, and one whose migration was partial. *)
(* An older store has a backup of version 3.  Both processes initialize    *)
(* and migrate, one writes and the other looks.                            *)
(***************************************************************************)
EXTENDS StoreMigration, TLC

Foreign == [EmptyFile EXCEPT !.objects = {"somebody's table"}]
Future  == [Store(4, {}) EXCEPT !.user_version = 5, !.metadata = 5]
Partial == [Store(3, {}) EXCEPT !.history = 1..2]

Paths ==
    { <<NoFile, NoFile>>, <<Store(2, {5, 8}), Store(3, {5})>>,
      <<Foreign, NoFile>>, <<Future, NoFile>>, <<Partial, NoFile>> }

CONSTANTS m1, m2

OfferedGoals ==
    [p \in Processes |-> IF p = m1 THEN Goals \ {"write"} ELSE {"initialize", "migrate", "write"}]
===============================================================================
