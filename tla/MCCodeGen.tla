------------------------------- MODULE MCCodeGen -------------------------------
(* Every program of module Programs, compiled, and each function of its    *)
(* module executed: the steps of CodeGen, then those of Exec.              *)
EXTENDS Exec, Programs
================================================================================
