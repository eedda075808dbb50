---------------------------- MODULE MCMigrations ----------------------------
(* Values for the instance of module Migrations that TLC checks: processes *)
(* of the first and of the newest release, migrations of two statements.   *)
EXTENDS Migrations, TLC

CONSTANTS old, new1, new2

MCOpeners == {old, new1, new2}
MCRelease == old :> 1 @@ new1 :> Newest @@ new2 :> Newest
MCStatements == [v \in 1..Newest |-> 2]
=============================================================================
