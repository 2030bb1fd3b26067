------------------------------ MODULE MCResume ------------------------------
(* An update from 1 to 3 with rollback to 2 and to 1, with and without a sequence number,
   and one without rollback. *)
EXTENDS Resume

Ready(v, rb, rbs, seq) == [version |-> v, rb |-> rb, rbs |-> rbs, files |-> {rb} \ {None}, seq |-> seq]

MCCommands ==
  {Ready("3", rb, <<"2", "1">>, TRUE) : rb \in {None, "2", "1"}} \cup
  {Ready("3", None, <<"2", "1">>, FALSE), Ready("2", None, None, TRUE)}

OneHandler == <<"/ECU">>
TwoHandlers == <<"/TMPL", "/ECU">>
=============================================================================
