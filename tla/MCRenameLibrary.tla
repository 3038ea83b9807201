--------------------------- MODULE MCRenameLibrary ---------------------------
(* Two files: a split show, a film twice, a film and an unmatched one. *)
EXTENDS RenameLibrary, TLC

CONSTANTS k1, k2, k3, f1, f2, r1, r2, e1, e2, film, show, none

MCKeys == <<k1, k2, k3>>
MCBytes == f1 :> 1 @@ f2 :> 2
MCRoots == <<r1, r2>>
MCShowOf == e1 :> show @@ e2 :> show @@ film :> film @@ none :> none

Item(f, r, t) == [file |-> f, path |-> [root |-> r, name |-> f], title |-> t]
MCSplit == k1 :> Item(f1, r1, e1) @@ k2 :> Item(f2, r2, e2)
MCTwice == k1 :> Item(f1, r1, film) @@ k2 :> Item(f2, r1, film)
MCMixed == k1 :> Item(f1, r1, e1) @@ k2 :> Item(f2, r2, none)
MCLibraries == {MCSplit, MCTwice, MCMixed}
MCSplitOnly == {MCSplit}

Budget(S) == [f \in Faults |-> IF f \in S THEN 1 ELSE 0]
MCFaultChoices == {Budget({"ask", "rematch"}), Budget({"rekey", "rematch"}), Budget({"ask", "kill"}),
                   Budget({"kill", "rematch"}), Budget({"kill", "edit"}), Budget({"io", "rematch"}),
                   Budget({"walk", "edit"}), Budget({"io", "health", "fetch", "late"})}
=============================================================================
