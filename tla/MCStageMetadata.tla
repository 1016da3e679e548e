--------------------------- MODULE MCStageMetadata ---------------------------
(* Two application threads; the bytes of a title are short strings. *)
EXTENDS StageMetadata, TLC

MCBytes == {" ", "a", "b", "c", "d", "e", "f", "L", "[", "]"}
MCTitles == {<<" ">>, <<" ", "a", " ", "b">>, <<"a", "b", "c", "d", "e", "f">>}
MCDefault == <<"L">>
MCTag == <<"[", "]">>

Symmetry == Permutations(Setters)
=============================================================================
