--------------------------- MODULE MCUpdateAgent ---------------------------
(***************************************************************************)
(* UpdateAgent with a small set of commands: preparing, installing and     *)
(* rolling back version "v2" of one package, with the confirmations of     *)
(* both outcomes, sent in any order, any number of times.                  *)
(***************************************************************************)
EXTENDS UpdateAgent

Command(type, rb, campaign, rollback, seq) ==
  [type |-> type, pkg |-> "p", version |-> "v2", rb |-> rb, rbs |-> <<"v1">>,
   listed |-> {"v1", "v2"}, files |-> {"v2"}, campaign |-> campaign,
   rollback |-> rollback, seq |-> seq]

\* A second update, to "v3", without rollback versions.
ToV3 == [type |-> "ready-update", pkg |-> "p", version |-> "v3", rb |-> None, rbs |-> None,
         listed |-> {"v3"}, files |-> {"v3"}, campaign |-> "c1", rollback |-> FALSE, seq |-> 4]

MCCommands ==
  { Command("query-package", None, None, FALSE, 0),
    Command("prepare-update", None, None, FALSE, 1),
    Command("prepare-update", None, "c1", FALSE, 2),
    Command("ready-update", None, "c1", FALSE, 3),
    Command("ready-update", "v1", "c1", FALSE, 4),
    [Command("ready-update", None, "c1", FALSE, 4) EXCEPT !.listed = {}, !.files = {}],
    ToV3,
    Command("confirm-update", None, "c1", FALSE, 0),
    Command("confirm-update", "v1", "c1", TRUE, 0) }
=============================================================================
