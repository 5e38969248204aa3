------------------------------ MODULE MCCommands ------------------------------
(* An instance of Commands for TLC: two commands at a time. *)
EXTENDS Commands

CONSTANTS p1, p2, m1, m2, d1, d2, d3

MCProc    == {p1, p2}
MCMachine == {m1, m2}
MCDevice  == {d1, d2, d3}

\* The data is shorter than the JSON around it.
MCDataSize == [v \in {1, 2} |-> v - 1]

MCClip == [name : {1}, format : {"text", "png"}]

\* Full IDs or fingerprints, and a prefix that every device has.
MCArgument == {{d} : d \in MCDevice} \cup {MCDevice}

Symmetric == Permutations(MCProc) \cup Permutations(MCMachine) \cup Permutations(MCDevice)
=============================================================================
