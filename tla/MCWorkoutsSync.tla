-------------------------- MODULE MCWorkoutsSync --------------------------
(* Three workouts on pages of one, two of them logged at first. *)
EXTENDS WorkoutsSync

CONSTANTS u, v, w, child, orphan

MCAccounts == {<<u, v>>}
MCFaultChoices ==
  {{"edit", "down"}, {"busy", "kill"}, {"edit", "busy"}, {"kill", "orphan"}, {"edit", "tear"}}
TearChoices == {{"edit", "tear"}}
=============================================================================
