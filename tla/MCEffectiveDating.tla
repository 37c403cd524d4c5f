------------------------- MODULE MCEffectiveDating -------------------------
(* EffectiveDating for TLC: ids, types and employees are interchangeable. *)
EXTENDS EffectiveDating, TLC

MCDays == 1 .. 2
Alike == Permutations(Ids) \cup Permutations(Types) \cup Permutations(Employees)
=============================================================================
