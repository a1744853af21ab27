---- MODULE MCLibrary ----
(* Library for TLC: three files, the first two of which have the same        *)
(* content, or two that differ.                                              *)
EXTENDS Library, TLC

CONSTANTS same, other

MCFiles == {[name |-> 1, content |-> same], [name |-> 2, content |-> same],
            [name |-> 3, content |-> other]}

MCOther == {f \in MCFiles : f.name # 1}

LibrarySymmetry == Permutations(Ids) \cup Permutations(Workers)
====
