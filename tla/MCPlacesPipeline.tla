------------------------- MODULE MCPlacesPipeline -------------------------
(* Two saved places, with place_ids of their own or with the same one. *)
EXTENDS PlacesPipeline, TLC

CONSTANTS c1, c2, p1, p2

MCInputKeys == <<c1, c2>>
MCPlaces == {p1, p2}
MCOwn == {(c1 :> p1) @@ (c2 :> p2)}
MCShared == MCOwn \cup {(c1 :> p1) @@ (c2 :> p1)}
MCFaultChoices == {{"call", "quota", "operator"}, {"throw", "kill", "input"}}
MCThrow == {{"throw"}}

=============================================================================
