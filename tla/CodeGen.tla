-------------------------------- MODULE CodeGen --------------------------------
(***************************************************************************)
(* The control-flow lowering of PasGo: src/codegen.cpp walks the syntax    *)
(* tree once and appends LLVM instructions to basic blocks.                *)
(*                                                                         *)
(* The walk keeps one piece of mutable state besides the module it builds: *)
(* STACKofCodeRUN, whose top is "the block under construction"             *)
(* (BASEBLKcurRETURN), and CURRENCTFUNCION, the function new blocks go to. *)
(* Every statement handler pushes and pops that stack, and every handler   *)
(* calls handlers of its children in between.  A handler in progress is a  *)
(* frame of `calls': its local variables and the point where it waits for  *)
(* a child to return.                                                      *)
(*                                                                         *)
(* The code of an expression is one event of the instruction that uses it: *)
(* the only one that creates blocks is UnaryExp with OP_ABS, a node that   *)
(* parser.y never builds (it builds NOT and MINUS, and calls for abs).     *)
(* A case statement is not modelled: parser.y casts the vector of its      *)
(* branches to a CaseStm and appends to that, which is undefined.          *)
(*                                                                         *)
(* `ok' says whether codegen can resolve every name a statement itself     *)
(* evaluates, and every type a function declares; if not, VALUERETGET,     *)
(* getFunction or LLVMTYPERET ends the process with exit(0).  Scope models *)
(* which names those are.                                                  *)
(***************************************************************************)
EXTENDS Integers, Sequences, FiniteSets

CONSTANTS
    Id,         \* names of the events of a statement (a call, a test, a step)
    Stm,        \* the statement nodes, closed under sub-statements
    FuncDef,    \* the function definitions, closed under nested definitions
    Program,    \* the programs to compile
    Height      \* how deep a statement is nested, which no step depends on

(***************************************************************************)
(* "simple" stands for StatementAssign and CallStm, "goto" for a GotoStm,  *)
(* and for an assignment to the field of a record, whose handlers return   *)
(* nullptr and emit nothing.                                               *)
(***************************************************************************)
Kind == {"simple", "goto", "if", "while", "repeat", "for"}

ASSUME StmAssumption ==
    \A s \in Stm : /\ s.kind \in Kind
                   /\ s.id \in Id
                   /\ s.ok \in BOOLEAN
                   /\ s.body \in Seq(Stm)
                   /\ s.alt \in Seq(Stm)

(* The parser builds statements from the inside out: trees of finite depth. *)
Parts(s) == {s.body[i] : i \in DOMAIN s.body} \cup {s.alt[i] : i \in DOMAIN s.alt}

ASSUME HeightAssumption ==
    /\ Height \in [Stm -> Nat]
    /\ \A s \in Stm : \A t \in Parts(s) : Height[t] < Height[s]

ASSUME FuncDefAssumption ==
    \A f \in FuncDef : /\ f.ok \in BOOLEAN
                       /\ f.funcs \in Seq(FuncDef)
                       /\ f.body \in Seq(Stm)

ASSUME ProgramAssumption ==
    \A p \in Program : p.funcs \in Seq(FuncDef) /\ p.body \in Seq(Stm)

VARIABLES
    code,     \* block |-> its instructions, appended in order
    owner,    \* block |-> the function it was created in
    nblk,     \* number of blocks created so far; blocks are 1 .. nblk
    fns,      \* the functions created so far: entry block and source body
    stack,    \* STACKofCodeRUN, top last
    curFn,    \* CURRENCTFUNCION
    calls,    \* the handlers in progress, innermost last
    status    \* of the compiler: running, done or aborted (exit(0))

vars == <<code, owner, nblk, fns, stack, curFn, calls, status>>
--------------------------------------------------------------------------------
(* Instructions *)

Do(id)          == [op |-> "do", id |-> id]      \* an assignment or a call
InitVar(id)     == [op |-> "init", id |-> id]    \* loop variable := start
StepVar(id)     == [op |-> "step", id |-> id]    \* loop variable += step
Br(b)           == [op |-> "br", to |-> b]
CondBr(id, y, n) == [op |-> "cbr", id |-> id, yes |-> y, no |-> n]
Ret             == [op |-> "ret"]

Instr(Blk) == [op : {"do", "init", "step"}, id : Id]
                \cup [op : {"br"}, to : Blk]
                \cup [op : {"cbr"}, id : Id, yes : Blk, no : Blk]
                \cup [op : {"ret"}]

IsTerminator(i) == i.op \in {"br", "cbr", "ret"}

Targets(i) == CASE i.op = "br"  -> {i.to}
                [] i.op = "cbr" -> {i.yes, i.no}
                [] OTHER        -> {}

Block == 1 .. nblk

Top == stack[Len(stack)]
Pop == SubSeq(stack, 1, Len(stack) - 1)

(* BLKpop followed by BLKpush(b) *)
ReplaceTop(b) == [stack EXCEPT ![Len(stack)] = b]

Old(b) == IF b \in Block THEN code[b] ELSE << >>

(* instructions for one block, or for two different ones *)
In(b, out)           == [x \in {b} |-> out]
InTwo(b, out, c, more) == [x \in {b, c} |-> IF x = b THEN out ELSE more]

(* `n' more blocks for function fn, and `out' appended to the blocks of    *)
(* its domain, whether they already end in a terminator or not.            *)
Emit(n, fn, out) ==
    /\ nblk' = nblk + n
    /\ owner' = [b \in 1 .. nblk + n |-> IF b \in Block THEN owner[b] ELSE fn]
    /\ code' = [b \in 1 .. nblk + n |->
                   IF b \in DOMAIN out THEN Old(b) \o out[b] ELSE Old(b)]
--------------------------------------------------------------------------------
(* Frames of the handlers that wait for a child *)

BodyFrame(rest)         == [kind |-> "body", rest |-> rest]
FuncsFrame(defs)        == [kind |-> "funcs", defs |-> defs]
ThenFrame(s, no, merge) == [kind |-> "then", node |-> s, no |-> no, merge |-> merge]
ElseFrame(merge)        == [kind |-> "else", merge |-> merge]
WhileFrame(start, exit) == [kind |-> "while", start |-> start, exit |-> exit]
RepeatFrame(s, loop)    == [kind |-> "repeat", node |-> s, loop |-> loop]
ForFrame(s, start, exit) == [kind |-> "for", node |-> s, start |-> start, exit |-> exit]
FuncFrame(blk, fn)      == [kind |-> "func", blk |-> blk, fn |-> fn]

Frame(Blk, Fn) ==
    [kind : {"body"}, rest : Seq(Stm)]
      \cup [kind : {"funcs"}, defs : Seq(FuncDef)]
      \cup [kind : {"then"}, node : Stm, no : Blk, merge : Blk]
      \cup [kind : {"else"}, merge : Blk]
      \cup [kind : {"while"}, start : Blk, exit : Blk]
      \cup [kind : {"repeat"}, node : Stm, loop : Blk]
      \cup [kind : {"for"}, node : Stm, start : Blk, exit : Blk]
      \cup [kind : {"func"}, blk : Blk, fn : Fn]

Running == status = "running" /\ calls # << >>
Here    == calls[Len(calls)]

Return           == calls' = SubSeq(calls, 1, Len(calls) - 1)
Become(fr)       == calls' = [calls EXCEPT ![Len(calls)] = fr]
(* a handler goes on as `fr' and calls the handler of the list `stms' *)
BecomeAndCall(fr, stms) ==
    calls' = Append([calls EXCEPT ![Len(calls)] = fr], BodyFrame(stms))
--------------------------------------------------------------------------------
(* CODEGENER has created `main', its entry block, and called               *)
(* Program::PascalCodeCreate, which has generated the constants and        *)
(* variables: they add no block, and if one ends the process with exit(0), *)
(* there is no walk to speak of.  The functions come next.                 *)
Init ==
    /\ \E p \in Program :
          /\ calls = <<BodyFrame(p.body), FuncsFrame(p.funcs)>>
          /\ fns = <<[entry |-> 1, body |-> p.body]>>
    /\ nblk = 1
    /\ code = [b \in 1 .. 1 |-> << >>]
    /\ owner = [b \in 1 .. 1 |-> 1]
    /\ stack = <<1>>
    /\ curFn = 1
    /\ status = "running"

(* The statement that Body::PascalCodeCreate generates next. *)
Stmt == Here.rest[1]
Rest == BodyFrame(Tail(Here.rest))

AtStatement(kinds) ==
    /\ Running
    /\ Here.kind = "body"
    /\ Here.rest # << >>
    /\ Stmt.kind \in kinds

(* StatementAssign and CallStm: one event in the current block. *)
EmitSimple ==
    /\ AtStatement({"simple"})
    /\ Stmt.ok
    /\ Emit(0, curFn, In(Top, <<Do(Stmt.id)>>))
    /\ Become(Rest)
    /\ UNCHANGED <<fns, stack, curFn, status>>

(* Mutant: the loop over the statements stays at a goto. *)
SkipGotoStuck ==
    /\ AtStatement({"goto"})
    /\ UNCHANGED vars

(* GotoStm emits nothing, nor does StatementAssign for an OP_DOT. *)
SkipGoto ==
    /\ AtStatement({"goto"})
    /\ Become(Rest)
    /\ UNCHANGED <<code, owner, nblk, fns, stack, curFn, status>>

(* exit(0): a name the statement evaluates, or a type the next function    *)
(* declares, is not found.  A repeat evaluates its condition only after    *)
(* its body.                                                               *)
Abort ==
    /\ \/ AtStatement({"simple", "if", "while", "for"}) /\ ~Stmt.ok
       \/ Running /\ Here.kind = "repeat" /\ ~Here.node.ok
       \/ Running /\ Here.kind = "funcs" /\ Here.defs # << >> /\ ~Here.defs[1].ok
    /\ status' = "aborted"
    /\ UNCHANGED <<code, owner, nblk, fns, stack, curFn, calls>>

(* Body::PascalCodeCreate returns. *)
BodyDone ==
    /\ Running
    /\ Here.kind = "body"
    /\ Here.rest = << >>
    /\ Len(calls) > 1
    /\ Return
    /\ UNCHANGED <<code, owner, nblk, fns, stack, curFn, status>>
--------------------------------------------------------------------------------
(* IfStm::PascalCodeCreate *)

(* Mutant: no block for the else branch, a false test goes to the merge. *)
BeginIfNoElse ==
    LET yes == nblk + 1  merge == nblk + 2 IN
    /\ AtStatement({"if"})
    /\ Stmt.ok
    /\ Emit(2, curFn, In(Top, <<CondBr(Stmt.id, yes, merge)>>))
    /\ stack' = Append(stack, yes)
    /\ calls' = [calls EXCEPT ![Len(calls)] = Rest]
                  \o <<ThenFrame(Stmt, merge, merge), BodyFrame(Stmt.body)>>
    /\ UNCHANGED <<fns, curFn, status>>

BeginIf ==
    LET yes == nblk + 1  no == nblk + 2  merge == nblk + 3 IN
    /\ AtStatement({"if"})
    /\ Stmt.ok
    /\ Emit(3, curFn, In(Top, <<CondBr(Stmt.id, yes, no)>>))
    /\ stack' = Append(stack, yes)
    /\ calls' = [calls EXCEPT ![Len(calls)] = Rest]
                  \o <<ThenFrame(Stmt, no, merge), BodyFrame(Stmt.body)>>
    /\ UNCHANGED <<fns, curFn, status>>

(* Mutant: the then branch does not jump over the else branch. *)
EndThenFallsThrough ==
    /\ Running
    /\ Here.kind = "then"
    /\ Emit(0, curFn, In(Top, << >>))
    /\ stack' = ReplaceTop(Here.no)
    /\ BecomeAndCall(ElseFrame(Here.merge), Here.node.alt)
    /\ UNCHANGED <<fns, curFn, status>>

(* Mutant: the else branch goes to the block of the then branch. *)
EndThenSameBlock ==
    /\ Running
    /\ Here.kind = "then"
    /\ Emit(0, curFn, In(Top, <<Br(Here.merge)>>))
    /\ BecomeAndCall(ElseFrame(Here.merge), Here.node.alt)
    /\ UNCHANGED <<fns, stack, curFn, status>>

EndThen ==
    /\ Running
    /\ Here.kind = "then"
    /\ Emit(0, curFn, In(Top, <<Br(Here.merge)>>))
    /\ stack' = ReplaceTop(Here.no)
    /\ BecomeAndCall(ElseFrame(Here.merge), Here.node.alt)
    /\ UNCHANGED <<fns, curFn, status>>

(* Mutant: the merge block is never pushed. *)
EndElseNoMerge ==
    /\ Running
    /\ Here.kind = "else"
    /\ Emit(0, curFn, In(Top, <<Br(Here.merge)>>))
    /\ Return
    /\ UNCHANGED <<fns, stack, curFn, status>>

EndElse ==
    /\ Running
    /\ Here.kind = "else"
    /\ Emit(0, curFn, In(Top, <<Br(Here.merge)>>))
    /\ stack' = ReplaceTop(Here.merge)
    /\ Return
    /\ UNCHANGED <<fns, curFn, status>>
--------------------------------------------------------------------------------
(* WhileStm::PascalCodeCreate: BLKST holds the test and is popped at once. *)

(* Mutant: both outcomes of the test leave the loop. *)
BeginWhileNever ==
    LET start == nblk + 1  loop == nblk + 2  exit == nblk + 3 IN
    /\ AtStatement({"while"})
    /\ Stmt.ok
    /\ Emit(3, curFn, InTwo(Top, <<Br(start)>>,
                           start, <<CondBr(Stmt.id, exit, exit)>>))
    /\ stack' = Append(stack, loop)
    /\ calls' = [calls EXCEPT ![Len(calls)] = Rest]
                  \o <<WhileFrame(start, exit), BodyFrame(Stmt.body)>>
    /\ UNCHANGED <<fns, curFn, status>>

BeginWhile ==
    LET start == nblk + 1  loop == nblk + 2  exit == nblk + 3 IN
    /\ AtStatement({"while"})
    /\ Stmt.ok
    /\ Emit(3, curFn, InTwo(Top, <<Br(start)>>,
                           start, <<CondBr(Stmt.id, loop, exit)>>))
    /\ stack' = Append(stack, loop)
    /\ calls' = [calls EXCEPT ![Len(calls)] = Rest]
                  \o <<WhileFrame(start, exit), BodyFrame(Stmt.body)>>
    /\ UNCHANGED <<fns, curFn, status>>

EndWhile ==
    /\ Running
    /\ Here.kind = "while"
    /\ Emit(0, curFn, In(Top, <<Br(Here.start)>>))
    /\ stack' = ReplaceTop(Here.exit)
    /\ Return
    /\ UNCHANGED <<fns, curFn, status>>
--------------------------------------------------------------------------------
(* StatementRepeat::PascalCodeCreate: BLKESC is created after the body. *)

BeginRepeat ==
    LET loop == nblk + 1 IN
    /\ AtStatement({"repeat"})
    /\ Emit(1, curFn, In(Top, <<Br(loop)>>))
    /\ stack' = Append(stack, loop)
    /\ calls' = [calls EXCEPT ![Len(calls)] = Rest]
                  \o <<RepeatFrame(Stmt, loop), BodyFrame(Stmt.body)>>
    /\ UNCHANGED <<fns, curFn, status>>

EndRepeat ==
    LET exit == nblk + 1 IN
    /\ Running
    /\ Here.kind = "repeat"
    /\ Here.node.ok
    /\ Emit(1, curFn, In(Top, <<CondBr(Here.node.id, exit, Here.loop)>>))
    /\ stack' = ReplaceTop(exit)
    /\ Return
    /\ UNCHANGED <<fns, curFn, status>>
--------------------------------------------------------------------------------
(* ForStm::PascalCodeCreate: the test for equality with the end value      *)
(* leaves the loop, and the body is generated a second time behind it for  *)
(* that last value.                                                        *)

BeginFor ==
    LET start == nblk + 1  loop == nblk + 2  exit == nblk + 3 IN
    /\ AtStatement({"for"})
    /\ Stmt.ok
    /\ Emit(3, curFn, InTwo(Top, <<InitVar(Stmt.id), Br(start)>>,
                           start, <<CondBr(Stmt.id, exit, loop)>>))
    /\ stack' = Append(stack, loop)
    /\ calls' = [calls EXCEPT ![Len(calls)] = Rest]
                  \o <<ForFrame(Stmt, start, exit), BodyFrame(Stmt.body)>>
    /\ UNCHANGED <<fns, curFn, status>>

(* Mutant: the body is not generated again for the end value. *)
EndForOnce ==
    /\ Running
    /\ Here.kind = "for"
    /\ Emit(0, curFn, In(Top, <<StepVar(Here.node.id), Br(Here.start)>>))
    /\ stack' = ReplaceTop(Here.exit)
    /\ Return
    /\ UNCHANGED <<fns, curFn, status>>

(* The update, the back edge, and the second copy of the body, called from *)
(* the last line of the handler.                                           *)
EndFor ==
    /\ Running
    /\ Here.kind = "for"
    /\ Emit(0, curFn, In(Top, <<StepVar(Here.node.id), Br(Here.start)>>))
    /\ stack' = ReplaceTop(Here.exit)
    /\ Become(BodyFrame(Here.node.body))
    /\ UNCHANGED <<fns, curFn, status>>
--------------------------------------------------------------------------------
(* FuncDef::PascalCodeCreate, called for each element of define->funcDef *)

BeginFunc ==
    LET def == Here.defs[1]  entry == nblk + 1  fn == Len(fns) + 1 IN
    /\ Running
    /\ Here.kind = "funcs"
    /\ Here.defs # << >>
    /\ def.ok
    /\ Emit(1, fn, In(entry, << >>))
    /\ fns' = Append(fns, [entry |-> entry, body |-> def.body])
    /\ stack' = Append(stack, entry)
    /\ curFn' = fn
    /\ calls' = [calls EXCEPT ![Len(calls)] = FuncsFrame(Tail(Here.defs))]
                  \o <<FuncFrame(Top, curFn), BodyFrame(def.body), FuncsFrame(def.funcs)>>
    /\ UNCHANGED status

FuncsDone ==
    /\ Running
    /\ Here.kind = "funcs"
    /\ Here.defs = << >>
    /\ Return
    /\ UNCHANGED <<code, owner, nblk, fns, stack, curFn, status>>

(* Mutant: one BLKpop, whatever the body left on the stack. *)
EndFuncPopsOnce ==
    /\ Running
    /\ Here.kind = "func"
    /\ Emit(0, curFn, In(Top, <<Ret>>))
    /\ stack' = Pop
    /\ curFn' = Here.fn
    /\ Return
    /\ UNCHANGED <<fns, status>>

(* Mutant: CURRENCTFUNCION is not restored. *)
EndFuncStaysCurrent ==
    /\ Running
    /\ Here.kind = "func"
    /\ Emit(0, curFn, In(Top, <<Ret>>))
    /\ \E k \in 1 .. Len(stack) :
          /\ stack[k] = Here.blk
          /\ \A j \in k + 1 .. Len(stack) : stack[j] # Here.blk
          /\ stack' = SubSeq(stack, 1, k)
    /\ Return
    /\ UNCHANGED <<fns, curFn, status>>

(* The return instruction, then BLKpop until the caller's block is on top. *)
EndFunc ==
    /\ Running
    /\ Here.kind = "func"
    /\ Emit(0, curFn, In(Top, <<Ret>>))
    /\ \E k \in 1 .. Len(stack) :
          /\ stack[k] = Here.blk
          /\ \A j \in k + 1 .. Len(stack) : stack[j] # Here.blk
          /\ stack' = SubSeq(stack, 1, k)
    /\ curFn' = Here.fn
    /\ Return
    /\ UNCHANGED <<fns, status>>

(* Program::PascalCodeCreate has returned to CODEGENER. *)
Finish ==
    /\ Running
    /\ Len(calls) = 1
    /\ Here.kind = "body"
    /\ Here.rest = << >>
    /\ Emit(0, curFn, In(Top, <<Ret>>))
    /\ stack' = Pop
    /\ Return
    /\ status' = "done"
    /\ UNCHANGED <<fns, curFn>>

(* The walk is over: nothing of it changes any more. *)
Stopped == status # "running" /\ UNCHANGED vars

Next ==
    \/ EmitSimple \/ SkipGoto \/ Abort \/ BodyDone
    \/ BeginIf \/ EndThen \/ EndElse
    \/ BeginWhile \/ EndWhile
    \/ BeginRepeat \/ EndRepeat
    \/ BeginFor \/ EndFor
    \/ BeginFunc \/ FuncsDone \/ EndFunc
    \/ Finish \/ Stopped

(* One thread walks the tree without ever waiting: it takes its next step. *)
Fairness == WF_vars(Next)

Spec == Init /\ [][Next]_vars /\ Fairness
--------------------------------------------------------------------------------
(* Properties *)

Fn == 1 .. Len(fns)

(* Every variable has its type: blocks and functions that are named exist. *)
TypeOK ==
    /\ nblk \in Nat
    /\ fns \in Seq([entry : Block, body : Seq(Stm)])
    /\ code \in [Block -> Seq(Instr(Block))]
    /\ owner \in [Block -> Fn]
    /\ stack \in Seq(Block)
    /\ curFn \in Fn
    /\ calls \in Seq(Frame(Block, Fn))
    /\ status \in {"running", "done", "aborted"}

Ended(b) == code[b] # << >> /\ IsTerminator(code[b][Len(code[b])])

OpenBlocks == {b \in Block : ~Ended(b)}

(* The blocks a handler in progress still has to complete after its child  *)
(* returns, besides the block on top of the stack.                         *)
Pending(fr) == CASE fr.kind = "then" -> {fr.no, fr.merge}
                 [] fr.kind = "else" -> {fr.merge}
                 [] fr.kind \in {"while", "for"} -> {fr.exit}
                 [] fr.kind = "func" -> {fr.blk}
                 [] OTHER -> {}

PendingIn(c)  == UNION {Pending(c[i]) : i \in 1 .. Len(c)}
PendingBlocks == PendingIn(calls)

(* While the walk runs, the blocks without a terminator are exactly the    *)
(* block on top of STACKofCodeRUN and those the handlers in progress       *)
(* wait to complete: no handler loses a block it created or leaves one     *)
(* behind on the stack unfinished (codegen.cpp, IfStm to StatementRepeat). *)
OpenBlocksAccounted ==
    status = "running" => OpenBlocks = {Top} \cup PendingBlocks

(* The module that CODEGENER writes is well formed, which no LLVM verifier *)
(* pass checks: every block ends in a terminator, has none before it, and  *)
(* branches only inside its own function.                                  *)
WellFormedIR ==
    status = "done" =>
        \A b \in Block :
            /\ Ended(b)
            /\ \A i \in 1 .. Len(code[b]) - 1 : ~IsTerminator(code[b][i])
            /\ \A t \in Targets(code[b][Len(code[b])]) : owner[t] = owner[b]

(* The blocks B and those that control can go to at their ends. *)
Onwards(B) == B \cup UNION {Targets(code[b][Len(code[b])]) : b \in B}

(* The blocks control can reach from the entry of function fn. *)
Reachable(fn) ==
    LET reach[n \in 0 .. nblk] == IF n = 0 THEN {fns[fn].entry} ELSE Onwards(reach[n - 1])
    IN  reach[nblk]

(* In the finished module control can reach every block of every function  *)
(* from its entry, and only blocks of that function: no construct leaves   *)
(* a block dangling (each BasicBlock::Create of codegen.cpp 555-758).      *)
AllReachable ==
    status = "done" =>
        \A fn \in Fn : Reachable(fn) = {b \in Block : owner[b] = fn}

(* The sum of f over a list of statements. *)
Total(f, stms) ==
    LET total[k \in 0 .. Len(stms)] == IF k = 0 THEN 0 ELSE total[k - 1] + f[stms[k]]
    IN  total[Len(stms)]

(* How many calls and assignments the code of a list of statements has.    *)
Copies(stms) ==
    LET copies[s \in Stm] ==
            IF s.kind = "simple" THEN 1
            ELSE IF s.kind = "goto" THEN 0
            ELSE IF s.kind = "for" THEN Total(copies, s.body) + Total(copies, s.body)
            ELSE IF s.kind = "if" THEN Total(copies, s.body) + Total(copies, s.alt)
            ELSE Total(copies, s.body)
    IN  Total(copies, stms)

(* Where function fn has calls and assignments. *)
Generated(fn) ==
    {p \in UNION {{b} \X DOMAIN code[b] : b \in Block} :
        owner[p[1]] = fn /\ code[p[1]][p[2]].op = "do"}

(* The price of the second body behind each for loop (codegen.cpp 711): a  *)
(* call or assignment is generated once, twice for each for statement it   *)
(* is nested in, so the code doubles with each level, and it is generated  *)
(* no more and no less often than that, else the output would differ.      *)
BodyCopies ==
    status = "done" =>
        \A fn \in Fn : Cardinality(Generated(fn)) = Copies(fns[fn].body)

(* The handlers of functions among the frames c, and how many of them are  *)
(* in progress at frame i.                                                 *)
FuncsIn(c)  == {i \in 1 .. Len(c) : c[i].kind = "func"}
Depth(S, i) == Cardinality({j \in S : j <= i})

(* A function is generated on a stack that holds the entry blocks of the   *)
(* functions around it, in order, and nothing else: whatever the body of   *)
(* an earlier function left on STACKofCodeRUN (each if and each loop       *)
(* leaves a block), the loop at codegen.cpp 378 unwound all of it and no   *)
(* more.                                                                   *)
UnwoundStack ==
    Running /\ Here.kind = "funcs" =>
        LET outer == FuncsIn(calls) IN
        /\ Len(stack) = Cardinality(outer) + 1
        /\ \A i \in outer : stack[Depth(outer, i)] = calls[i].blk
        /\ Top = fns[curFn].entry

(* No handler appends to a block that already has its terminator: its      *)
(* InsertAtEnd would put the instruction where control never comes.        *)
FrozenBlocks ==
    [][\A b \in Block : Ended(b) => code'[b] = code[b]]_vars

(* Instructions are only ever appended to a block of the function that is  *)
(* current, also after a nested function was generated in the middle of    *)
(* its parent and FuncDef::PascalCodeCreate unwound the stack.             *)
BuildsCurrentFunction ==
    [][\A b \in Block : code'[b] # code[b] => owner[b] = curFn]_vars

(* The walk ends, with the whole program lowered or with exit(0): neither  *)
(* a handler nor the unwinding of STACKofCodeRUN can get stuck.            *)
Terminates == <>(status # "running")
--------------------------------------------------------------------------------
(* The inductive invariant behind WellFormedIR and OpenBlocksAccounted *)

(* no instruction behind a terminator *)
OneTerminator ==
    \A b \in Block : \A i \in 1 .. Len(code[b]) - 1 : ~IsTerminator(code[b][i])

LocalTargets ==
    \A b \in Block : \A i \in 1 .. Len(code[b]) : \A t \in Targets(code[b][i]) :
        t \in Block /\ owner[t] = owner[b]

(* each open block waits for one handler only *)
WaitedForOnce(c) ==
    /\ \A i, j \in 1 .. Len(c) : i # j => Pending(c[i]) \cap Pending(c[j]) = {}
    /\ \A i \in 1 .. Len(c) : c[i].kind = "then" => c[i].no # c[i].merge

Construct == {"then", "else", "while", "repeat", "for"}

Names(fr) == CASE fr.kind = "then" -> {fr.no, fr.merge}
               [] fr.kind = "else" -> {fr.merge}
               [] fr.kind \in {"while", "for"} -> {fr.start, fr.exit}
               [] fr.kind = "repeat" -> {fr.loop}
               [] OTHER -> {}

(* a statement in progress knows blocks of the current function fn only, a *)
(* function in progress a block of the function it returns to              *)
Owned(fr, fn, own) ==
    /\ \A b \in Names(fr) : own[b] = fn
    /\ fr.kind = "func" => own[fr.blk] = fr.fn

(* no function is generated in the middle of a statement *)
FunctionsOutside(c) ==
    \A i, j \in 1 .. Len(c) :
        i < j /\ c[j].kind \in {"func", "funcs"} => c[i].kind \notin Construct

IInv ==
    /\ TypeOK
    /\ OneTerminator
    /\ LocalTargets
    /\ status = "running" =>
          /\ stack # << >>
          /\ OpenBlocksAccounted
          /\ Top \notin PendingBlocks
          /\ WaitedForOnce(calls)
          /\ owner[Top] = curFn
          /\ \A i \in 1 .. Len(calls) : Owned(calls[i], curFn, owner)
          /\ FunctionsOutside(calls)
    /\ status = "done" => OpenBlocks = {}
================================================================================
