---------------------------- MODULE MCRecsDigest ----------------------------
(* Three films, two of them of one genre, with one title each. *)
EXTENDS RecsDigest, TLC

CONSTANTS a, b, c, a1, b1, c1, none

MCMatch == (a1 :> a @@ b1 :> b @@ c1 :> c)
MCGenre == (a :> "drama" @@ b :> "drama" @@ c :> "war")

NoFault == [f \in Faults |-> 0]
MCFaultChoices ==
  { [NoFault EXCEPT !["kill"] = 1], [NoFault EXCEPT !["dismiss"] = 1],
    [NoFault EXCEPT !["push"] = 1, !["answer"] = 1], [NoFault EXCEPT !["buy"] = 1],
    [NoFault EXCEPT !["search"] = 1, !["quota"] = 1, !["branch"] = 1] }
DismissChoices == {[NoFault EXCEPT !["dismiss"] = 1]}
PushChoices == {[NoFault EXCEPT !["push"] = 2]}
=============================================================================
