--------------------------------- MODULE Typing --------------------------------
(***************************************************************************)
(* Types: what the semantic checker says of an expression and of the       *)
(* statement it is for (src/semantics.cpp), beside the LLVM value that     *)
(* code generation makes of the same tree (src/codegen.cpp).               *)
(*                                                                         *)
(* Both passes visit the operands of an operator before the operator, from *)
(* left to right.  The model visits a tree once in that order and keeps,   *)
(* for each subexpression whose parent is still to come, what either pass  *)
(* makes of it.  Code is generated only for what the checker accepts.      *)
(*                                                                         *)
(* Left out: fields of records, whose code stops for want of a variable of *)
(* the field's name.                                                       *)
(***************************************************************************)
EXTENDS Integers, Sequences

CONSTANT Depth      \* bound on the subexpressions waiting for their parent

ASSUME DepthAssumption == Depth \in Nat \ {0}

VARIABLES
    operands,   \* the subexpressions waiting for their parent
    phase,      \* checking; rejected, crashed (by the checker), and of an
                \* accepted statement: generated, broken
    stmt,       \* the statement the expressions are for, once it is reached
    errors,     \* whether there is an error: one that the checker reports,
                \* or an expression without a type that it crashes on
    supported   \* whether all of the statement has a typing in Supported

vars == <<operands, phase, stmt, errors, supported>>
--------------------------------------------------------------------------------
(* Types, and what the passes make of an expression *)

Scalar  == {"int", "real", "char", "bool"}
Numeric == {"int", "real"}
Type    == Scalar \cup {"array", "string"}
Null    == "null"       \* a returnType or an llvm::Value* that is null

LLVMInteger == {"i32", "i8", "i1"}
LLVMType    == LLVMInteger \cup {"float", "aggregate"}

LLVMTYPERET(t) ==
    CASE t = "int"   -> "i32"
      [] t = "real"  -> "float"
      [] t = "char"  -> "i8"
      [] t = "bool"  -> "i1"
      [] t = "array" -> "aggregate"
      [] OTHER       -> Null

(* A checked subexpression.  A `reference' is a parameter declared with    *)
(* var.  `crash' says that the checker follows a null pointer if it visits *)
(* the expression; then, as after an error, it has no type.  `ok' says     *)
(* that its code can be built: no null operand, no instruction whose       *)
(* operands violate LLVM's rules, no exit.                                 *)
Node    == {"variable", "reference", "element", "other"}
Operand == [node      : Node,
            type      : Type \cup {Null},
            crash     : BOOLEAN,
            value     : LLVMType \cup {Null},
            ok        : BOOLEAN,
            supported : BOOLEAN]

Expr(node, type, crash, value, ok, sup) ==
    [node |-> node, type |-> type, crash |-> crash, value |-> value, ok |-> ok,
     supported |-> sup /\ type # Null]

Arithmetic == {"OP_ADD", "OP_MINUS", "OP_MULTI"}
Division   == {"OP_DDIV", "OP_MOD"}
Logical    == {"OP_AND", "OP_OR"}
Relation   == {"OP_SMALL", "OP_LARGE", "OP_SMALL_EQUAL", "OP_LARGE_EQUAL",
               "OP_EQUAL", "OP_NOT_EQUAL"}
Operator   == Arithmetic \cup Division \cup Logical \cup Relation

(* The checker's type of a binary operation on operands of types a and b.  *)
Checked(op, a, b) ==
    IF Null \in {a, b} THEN Null
    ELSE IF op \in Arithmetic /\ {a, b} \subseteq Numeric
    THEN IF "real" \in {a, b} THEN "real" ELSE "int"
    ELSE IF \/ op = "OP_DDIV" /\ {a, b} \subseteq Numeric
            \/ op = "OP_MOD" /\ {a, b} = {"int"}
    THEN "int"
    ELSE IF \/ op = "OP_AND" /\ {a, b} = {"bool"}
            \/ op = "OP_OR" /\ {a, b} = {"char"}
            \/ /\ op \in Relation
               /\ a \in Numeric \cup {"char"}
               /\ b \in Numeric \/ a = "char"
    THEN "bool"
    ELSE Null

(* The type of the instruction for it, and LLVM's rule for its operands:   *)
(* both of one type, which add, sub and mul have for either kind of        *)
(* number.  A comparison is an icmp, whatever it compares.                 *)
Result(op, v) == IF op \in Relation THEN "i1" ELSE v

WellFormed(op, v, w) ==
    /\ v = w
    /\ v \in LLVMInteger \cup (IF op \in Arithmetic THEN {"float"} ELSE {})

(* The typings on which the two passes agree. *)
Supported(op, a, b) ==
    /\ a = b
    /\ \/ op \in Arithmetic /\ a \in Numeric
       \/ op \in Division /\ a = "int"
       \/ op = "OP_AND" /\ a = "bool"
       \/ op \in Relation /\ a \in {"int", "char"}

(* The second operand is not visited after an error in the first. *)
Infix(op, x, y) ==
    Expr("other", Checked(op, x.type, y.type),
         x.crash \/ (x.type # Null /\ y.crash),
         Result(op, x.value),
         x.ok /\ y.ok /\ WellFormed(op, x.value, y.value),
         x.supported /\ y.supported /\ Supported(op, x.type, y.type))

(* What a store to a variable of type t needs: a parameter declared with   *)
(* var is a pointer to an i32, whatever its type.                          *)
Slot(node, t) == IF node = "reference" THEN "i32" ELSE LLVMTYPERET(t)

(* Whether code can be built that passes x for a parameter of type t: by   *)
(* value, or by the address of x, which must be that of an i32.            *)
Passes(x, t, byVar) ==
    /\ x.ok
    /\ IF byVar
       THEN x.node = "reference" \/ (x.node \in {"variable", "element"} /\ x.value = "i32")
       ELSE x.value = LLVMTYPERET(t)

Passable(x, t, byVar) ==
    x.supported /\ x.type = t /\ (byVar => t = "int" /\ x.node # "other")
--------------------------------------------------------------------------------
Init ==
    /\ operands = << >>
    /\ phase = "checking"
    /\ stmt = "none"
    /\ errors = FALSE
    /\ supported = FALSE

Checking == phase = "checking"

(* The k-th operand from the end. *)
Last(k) == operands[Len(operands) - k + 1]

(* The last n operands become the operand x. *)
Reduce(n, x) ==
    /\ Checking /\ n <= Len(operands) /\ Len(operands) - n < Depth
    /\ operands' = Append(SubSeq(operands, 1, Len(operands) - n), x)
    /\ errors' = (errors \/ x.type = Null)
    /\ UNCHANGED <<phase, stmt, supported>>
--------------------------------------------------------------------------------
(* Expressions *)

(* Mutant: a boolean is a byte, as in C. *)
ConstantByte(t) ==
    /\ t \in Scalar \cup {"string"}
    /\ Reduce(0, Expr("other", t, FALSE, IF t = "bool" THEN "i8" ELSE LLVMTYPERET(t),
                      TRUE, t # "string"))

(* No code is generated for a string: its value is null. *)
Constant(t) ==
    /\ t \in Scalar \cup {"string"}
    /\ Reduce(0, Expr("other", t, FALSE, LLVMTYPERET(t), TRUE, t # "string"))

(* A variable, a constant by name, a parameter that is passed by value, or *)
(* the name of a function in its own body.                                 *)
Variable(t) ==
    /\ t \in Scalar \cup {"array"}
    /\ Reduce(0, Expr("variable", t, FALSE, LLVMTYPERET(t), TRUE, t \in Scalar))

Reference(t) ==
    /\ t \in Type
    /\ Reduce(0, Expr("reference", t, FALSE, "i32", TRUE, t = "int"))

(* A name that the checker finds and code generation does not, so that     *)
(* VALUERETGET exits: that of a function in the body of another (it is not *)
(* a call), of a local constant, of a variable of an enclosing function.   *)
Unfound(t) ==
    /\ t \in Type
    /\ Reduce(0, Expr("variable", t, FALSE, Null, FALSE, FALSE))

(* A name that is not declared, or that of a procedure: exit as well. *)
Undeclared == Reduce(0, Expr("variable", Null, FALSE, Null, FALSE, FALSE))

(* Mutant: any operand will do. *)
NotAny ==
    /\ operands # << >>
    /\ Reduce(1, Expr("other", "bool", Last(1).crash, "i1",
                      Last(1).ok /\ Last(1).value = "i32", FALSE))

(* `not' is a comparison with an i32, for an operand of type char.         *)
Not ==
    /\ operands # << >>
    /\ LET x == Last(1) IN
       Reduce(1, Expr("other", IF x.type = "char" THEN "bool" ELSE Null, x.crash,
                      "i1", x.ok /\ x.value = "i32", FALSE))

(* The unary minus is built as OP_MINUS, which the checker knows as a      *)
(* binary operator only, and for which no code is generated.               *)
Minus ==
    /\ operands # << >>
    /\ Reduce(1, Expr("other", Null, Last(1).crash, Null, TRUE, FALSE))

(* Mutant: an operand without a type passes for an integer. *)
BinaryForgets(op) ==
    /\ op \in Operator
    /\ Len(operands) >= 2
    /\ LET Typed(x) == [x EXCEPT !.type = IF @ = Null THEN "int" ELSE @] IN
       Reduce(2, Infix(op, Typed(Last(2)), Typed(Last(1))))

Binary(op) ==
    /\ op \in Operator
    /\ Len(operands) >= 2
    /\ Reduce(2, Infix(op, Last(2), Last(1)))

IndexType(t) == t \in {"int", "char"}

(* Whether the code for an index into a variable or parameter can be built. *)
Indexes(node, x) == node = "variable" /\ x.ok /\ x.value \in LLVMInteger

(* An element of type t of an array. *)
Index(node, t) ==
    /\ node \in {"variable", "reference"} /\ t \in Scalar
    /\ operands # << >>
    /\ LET x == Last(1) IN
       Reduce(1, Expr("element", IF IndexType(x.type) THEN t ELSE Null, x.crash,
                      LLVMTYPERET(t), Indexes(node, x),
                      x.supported /\ node = "variable"))

(* An element of what is no array: an error, but for a string, whose type  *)
(* has no type of elements to copy.                                        *)
IndexOther(string) ==
    /\ operands # << >>
    /\ LET x == Last(1) IN
       Reduce(1, Expr("element", Null, x.crash \/ (string /\ IndexType(x.type)),
                      Null, FALSE, FALSE))

(* A function of one parameter of type p, with var in front or not, or a   *)
(* procedure, for which t is null: the type of the result is copied.  The  *)
(* type of an argument is looked at even if it has none.  Code generation  *)
(* finds only what it has generated or is generating, and exits for a      *)
(* function that is declared after the caller.                             *)
Call(p, byVar, t, found) ==
    /\ p \in Scalar /\ byVar \in BOOLEAN /\ t \in Scalar \cup {Null} /\ found \in BOOLEAN
    /\ operands # << >>
    /\ LET x == Last(1) IN
       Reduce(1, Expr("other", IF x.type = p THEN t ELSE Null,
                      x.crash \/ x.type = Null \/ (x.type = p /\ t = Null),
                      IF found THEN LLVMTYPERET(t) ELSE Null,
                      found /\ Passes(x, p, byVar),
                      found /\ Passable(x, p, byVar)))

(* A function that is not declared, such as TOKEN_ABS and the other        *)
(* predeclared ones, or another number of arguments: the types of the      *)
(* arguments are not looked at.                                            *)
CallUnknown(n) ==
    /\ n <= Len(operands)
    /\ Reduce(n, Expr("other", Null, \E k \in 1 .. n : Last(k).crash, Null, FALSE, FALSE))
--------------------------------------------------------------------------------
(* Statements *)

(* The checker crashes, or rejects the statement, or its code is generated, *)
(* which works or not.                                                     *)
Verdict(s, n, crash, legal, ok, sup) ==
    /\ Checking /\ Len(operands) = n
    /\ stmt' = s
    /\ phase' = IF crash THEN "crashed" ELSE IF ~legal THEN "rejected"
                ELSE IF ok THEN "generated" ELSE "broken"
    /\ errors' = (errors \/ (~crash /\ ~legal))
    /\ supported' = sup
    /\ UNCHANGED operands

(* isSameType; two arrays may have different lengths. *)
SameType(a, b) ==
    IF a # b \/ a = "string" THEN {FALSE}
    ELSE IF a = "array" THEN BOOLEAN ELSE {TRUE}

(* Mutant: an integer may be assigned to a real. *)
AssignConverts(node, t) ==
    /\ node \in {"variable", "reference"} /\ t \in Type
    /\ operands # << >>
    /\ LET x == Last(1) IN
       \E legal \in SameType(t, x.type) \cup (IF t = "real" /\ x.type = "int" THEN {TRUE} ELSE {}) :
           Verdict("assign", 1, x.crash, legal,
                   x.ok /\ x.value = Slot(node, t) /\ ~(node = "variable" /\ t = "array"),
                   x.supported /\ (node = "reference" => t = "int"))

(* To a variable of type t.  Code generation exits for an array variable.  *)
Assign(node, t) ==
    /\ node \in {"variable", "reference"} /\ t \in Type
    /\ operands # << >>
    /\ LET x == Last(1) IN
       \E legal \in SameType(t, x.type) :
           Verdict("assign", 1, x.crash, legal,
                   x.ok /\ x.value = Slot(node, t) /\ ~(node = "variable" /\ t = "array"),
                   x.supported /\ (node = "reference" => t = "int"))

(* To a name that is not declared; the right side is not visited. *)
AssignUndeclared == operands # << >> /\ Verdict("assign", 1, FALSE, FALSE, FALSE, FALSE)

(* To a name that code generation does not find. *)
AssignUnfound(t) ==
    /\ t \in Type /\ operands # << >>
    /\ \E legal \in SameType(t, Last(1).type) :
           Verdict("assign", 1, Last(1).crash, legal, FALSE, FALSE)

(* To a constant. *)
AssignConstant ==
    /\ operands # << >>
    /\ Verdict("assign", 1, Last(1).crash, FALSE, FALSE, FALSE)

(* To an element of an array, which is checked like one in an expression.  *)
(* The right side is not visited after an error on the left.               *)
AssignElement ==
    /\ Len(operands) >= 2
    /\ LET e == Last(2)
           x == Last(1)
       IN  /\ e.node = "element"
           /\ Verdict("assign", 2, e.crash \/ (e.type # Null /\ x.crash),
                      e.type # Null /\ x.type = e.type,
                      e.ok /\ x.ok /\ x.value = e.value,
                      e.supported /\ x.supported)

(* The condition of an if, a while and a repeat, whose type is looked at   *)
(* even if it has none.                                                    *)
Condition ==
    /\ operands # << >>
    /\ LET x == Last(1) IN
       Verdict("condition", 1, x.crash \/ x.type = Null, x.type = "bool",
               x.ok /\ x.value = "i1", x.supported)

(* A for statement with a loop variable of type t, or an undeclared one,   *)
(* which the checker never looks up.  The type of the end is looked at     *)
(* only if that of the start is right.  The step adds an i32.              *)
For(node, t) ==
    /\ \/ node \in {"variable", "reference"} /\ t \in Type
       \/ node = "variable" /\ t = Null
    /\ Len(operands) >= 2
    /\ LET x == Last(2)
           y == Last(1)
       IN  Verdict("for", 2,
                   \/ x.crash \/ y.crash \/ x.type = Null
                   \/ IndexType(x.type) /\ y.type = Null,
                   IndexType(x.type) /\ x.type = y.type,
                   /\ Slot(node, t) = "i32"
                   /\ x.ok /\ x.value = "i32" /\ y.ok /\ y.value = "i32",
                   t = "int" /\ x.type = "int" /\ x.supported /\ y.supported)

(* write and writeln: whatever is wrong with their arguments is forgotten. *)
Write ==
    LET all == 1 .. Len(operands) IN
    /\ operands # << >>
    /\ Verdict("write", Len(operands), \E k \in all : operands[k].crash, TRUE,
               \A k \in all : operands[k].ok /\ operands[k].value \in {"i32", "float"},
               \A k \in all : operands[k].supported /\ operands[k].type \in Numeric)

(* Mutant: the type of the result is copied, as by a call in an expression. *)
CallStmPlainCopies(found) ==
    \E procedure \in BOOLEAN : Verdict("callstm", 0, procedure, TRUE, found, found)

(* A procedure without parameters, or a function whose result is not used; *)
(* code generation exits for one that it has not come to yet.              *)
CallStmPlain(found) ==
    /\ found \in BOOLEAN
    /\ Verdict("callstm", 0, FALSE, TRUE, found, found)

CallStm(p, byVar, found) ==
    /\ p \in Scalar /\ byVar \in BOOLEAN /\ found \in BOOLEAN
    /\ operands # << >>
    /\ LET x == Last(1) IN
       Verdict("callstm", 1, x.crash \/ x.type = Null, x.type = p,
               found /\ Passes(x, p, byVar), found /\ Passable(x, p, byVar))

(* An unknown procedure, such as read, or another number of arguments. *)
CallStmUnknown ==
    Verdict("callstm", Len(operands), \E k \in 1 .. Len(operands) : operands[k].crash,
            FALSE, FALSE, FALSE)
--------------------------------------------------------------------------------
Expression ==
    \/ \E t \in Type : Constant(t) \/ Variable(t) \/ Reference(t) \/ Unfound(t)
    \/ Undeclared \/ Not \/ Minus
    \/ \E op \in Operator : Binary(op)
    \/ \E node \in Node, t \in Scalar : Index(node, t)
    \/ \E string \in BOOLEAN : IndexOther(string)
    \/ \E p \in Scalar, t \in Scalar \cup {Null}, byVar, found \in BOOLEAN : Call(p, byVar, t, found)
    \/ \E n \in 0 .. Depth : CallUnknown(n)

Statement ==
    \/ \E node \in Node, t \in Type : Assign(node, t)
    \/ \E node \in Node, t \in Type \cup {Null} : For(node, t)
    \/ \E t \in Type : AssignUnfound(t)
    \/ AssignUndeclared \/ AssignConstant \/ AssignElement \/ Condition \/ Write
    \/ \E p \in Scalar, byVar, found \in BOOLEAN : CallStm(p, byVar, found)
    \/ \E found \in BOOLEAN : CallStmPlain(found)
    \/ CallStmUnknown

Stopped == ~Checking /\ UNCHANGED vars

Next == Expression \/ Statement \/ Stopped

Spec == Init /\ [][Next]_vars
--------------------------------------------------------------------------------
(* Properties *)

TypeOK ==
    /\ operands \in Seq(Operand) /\ Len(operands) <= Depth
    /\ phase \in {"checking", "rejected", "crashed", "generated", "broken"}
    /\ stmt \in {"none", "assign", "condition", "for", "write", "callstm"}
    /\ errors \in BOOLEAN /\ supported \in BOOLEAN

(* An expression whose operators are all used as in Supported has, in the  *)
(* generated code, the LLVM type of the type that the checker gives it,    *)
(* and every instruction in it is well formed.                             *)
Agreement ==
    \A k \in 1 .. Len(operands) :
        LET x == operands[k] IN
        x.supported => /\ x.type \in Scalar
                       /\ ~x.crash
                       /\ x.ok /\ x.value = LLVMTYPERET(x.type)

(* Code generation succeeds for every statement that the checker accepts   *)
(* and that keeps to Supported: branches have an i1, stores and arguments  *)
(* the type of their target, printf what it can print.                     *)
AcceptedCompiles == phase = "broken" => ~supported

(* No code is generated for a program with an error, however deep in its   *)
(* expressions, unless the error is in an argument of write.               *)
ErrorsStop == phase \in {"generated", "broken"} /\ errors => stmt = "write"

(* The checker follows a null pointer only if the program has an error, a  *)
(* procedure in an expression, or an indexed string.                       *)
CrashNeedsError == phase = "crashed" => errors

(* As long as the checker is at work, an error shows in the operands that  *)
(* wait: no operator makes it disappear.  An expression that crashes the   *)
(* checker has no type.                                                    *)
ErrorShows ==
    /\ Checking => (errors <=> \E k \in 1 .. Len(operands) : operands[k].type = Null)
    /\ \A k \in 1 .. Len(operands) : operands[k].crash => operands[k].type = Null

(* The properties above with what they need to be inductive. *)
IInv == TypeOK /\ Agreement /\ AcceptedCompiles /\ ErrorsStop /\ CrashNeedsError /\ ErrorShows

--------------------------------------------------------------------------------
(* What comparisons compute *)

(* The predicate of the icmp for an operator. *)
Predicate(op) ==
    CASE op = "OP_SMALL"       -> "SLT"
      [] op = "OP_LARGE"       -> "SGT"
      [] op = "OP_SMALL_EQUAL" -> "SGE"
      [] op = "OP_LARGE_EQUAL" -> "SLE"
      [] op = "OP_EQUAL"       -> "EQ"
      [] op = "OP_NOT_EQUAL"   -> "NE"

Holds(predicate, x, y) ==
    CASE predicate = "SLT" -> x < y
      [] predicate = "SGT" -> x > y
      [] predicate = "SGE" -> x >= y
      [] predicate = "SLE" -> x <= y
      [] predicate = "EQ"  -> x = y
      [] predicate = "NE"  -> x # y

(* The relation that getOpNameByID names. *)
Named(op, x, y) ==
    CASE op = "OP_SMALL"       -> x < y
      [] op = "OP_LARGE"       -> x > y
      [] op = "OP_SMALL_EQUAL" -> x <= y
      [] op = "OP_LARGE_EQUAL" -> x >= y
      [] op = "OP_EQUAL"       -> x = y
      [] op = "OP_NOT_EQUAL"   -> x # y

(* A comparison that is accepted and well formed computes the relation     *)
(* under whose name it is listed (symbol.cpp) and printed in the tree.     *)
ComparesAsNamed ==
    [][\A op \in Relation :
          Binary(op) /\ operands'[Len(operands')].supported =>
              \A x, y \in -2 .. 2 : Holds(Predicate(op), x, y) <=> Named(op, x, y)]_vars
================================================================================
