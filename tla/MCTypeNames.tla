------------------------------ MODULE MCTypeNames ------------------------------
(* Two names, subranges that agree in one end only, a function in or after *)
(* another.                                                                *)
EXTENDS TypeNames, TLC

MCSymmetry == Permutations(Name)

MCSubranges == {<<0, 1>>, <<1, 1>>, <<0, 0>>}
================================================================================
