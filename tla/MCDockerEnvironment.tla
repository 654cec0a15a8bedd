------------------------- MODULE MCDockerEnvironment -------------------------
(* Two requests at a time, two writers of one owner: one agent serves the first, the   *)
(* other whatever may get in its way.                                                   *)
EXTENDS DockerEnvironment

CONSTANTS a, b, w1, w2

TwoAgents == {a, b}
TwoWrites == {w1, w2}
NoReads == {}
OneId == {1}

Asked ==
  [w \in {a, b} |->
     IF w = a THEN {<<"acquire", w1>>, <<"execute", w1>>, <<"release", w1>>}
     ELSE {<<"acquire", w1>>, <<"execute", w1>>,
           <<"acquire", w2>>, <<"release", w2>>, <<"delete_data", w2>>, <<"export_data", w2>>}]

=============================================================================
