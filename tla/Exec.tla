--------------------------------- MODULE Exec ----------------------------------
(***************************************************************************)
(* The generated code at work: CodeGen lowers a program, then the LLVM JIT *)
(* (runCode) or lli executes one function of the module, instruction by    *)
(* instruction.  A call is one event of the caller; the functions of the   *)
(* module are run one at a time, each from its own entry block.            *)
(*                                                                         *)
(* `todo' is an auxiliary variable: the statements that Structured still   *)
(* has to run, moved along by the events the blocks produce.  An event     *)
(* Structured does not allow at that point puts `phase' to "diverged".     *)
(* `todo' and `turn' never guard a step of the code.                       *)
(***************************************************************************)
EXTENDS CodeGen

VARIABLES
    phase,    \* of the execution: idle, running, returned (or diverged)
    pc,       \* the next instruction: a block and an index into its code
    todo,     \* auxiliary, see above
    event,    \* the last event of the execution
    turn      \* auxiliary: the number of events so far, modulo 2

run == <<phase, pc, todo, event, turn>>

Pascal == INSTANCE Structured
              WITH Bodies <- {p.body : p \in Program} \cup {f.body : f \in FuncDef}

ExecInit ==
    /\ Init
    /\ Pascal!Init
    /\ pc = [block |-> 1, at |-> 1]

Compile == Next /\ UNCHANGED run

(* runCode: the module is complete, a function of it is entered. *)
Enter ==
    /\ status = "done"
    /\ phase = "idle"
    /\ \E fn \in Fn : /\ pc' = [block |-> fns[fn].entry, at |-> 1]
                      /\ todo' = Pascal!Unfold(fns[fn].body)
    /\ phase' = "running"
    /\ UNCHANGED <<vars, event, turn>>

Instruction == code[pc.block][pc.at]

Executing(ops) == phase = "running" /\ Instruction.op \in ops

Happens(e) ==
    /\ event' = e
    /\ turn' = 1 - turn
    /\ IF e \in Pascal!Events(todo)
       THEN /\ todo' = Pascal!After(todo, e)
            /\ phase' = IF e = Pascal!Return THEN "returned" ELSE "running"
       ELSE /\ phase' = "diverged"
            /\ UNCHANGED todo

Goto(b) == pc' = [block |-> b, at |-> 1]

(* A store or a call *)
StepEvent ==
    /\ Executing({"do", "init", "step"})
    /\ Happens(Pascal!Assign(Instruction.op, Instruction.id))
    /\ pc' = [pc EXCEPT !.at = @ + 1]
    /\ UNCHANGED vars

StepBr ==
    /\ Executing({"br"})
    /\ Goto(Instruction.to)
    /\ UNCHANGED <<vars, phase, todo, event, turn>>

StepCondBr ==
    /\ Executing({"cbr"})
    /\ \E out \in BOOLEAN :
          /\ Happens(Pascal!Test(Instruction.id, out))
          /\ Goto(IF out THEN Instruction.yes ELSE Instruction.no)
    /\ UNCHANGED vars

StepRet ==
    /\ Executing({"ret"})
    /\ Happens(Pascal!Return)
    /\ UNCHANGED <<vars, pc>>

ExecNext == Compile \/ Enter \/ StepEvent \/ StepBr \/ StepCondBr \/ StepRet

(* Compiler and processor both keep going. *)
ExecSpec == ExecInit /\ [][ExecNext]_<<vars, run>> /\ WF_<<vars, run>>(ExecNext)
--------------------------------------------------------------------------------
(* The generated code implements the statements of the source: in each     *)
(* function, whatever the tests evaluate to, the same assignments, calls   *)
(* and tests come in the same order and the function returns exactly when  *)
(* its body is over; it never spins through blocks without an event.       *)
(* (codegen.cpp 555-758, every branch it creates and where.)               *)
Refines == Pascal!Spec
================================================================================
