--------------------------------- MODULE Scope ---------------------------------
(***************************************************************************)
(* Names: what the semantic checker takes a name to mean (findName of      *)
(* src/tree.cpp walks the fathers of the tree), and what code generation   *)
(* then finds under it (VALUERETGET and getFunction of src/codegen.cpp     *)
(* look into LLVM's symbol tables, which have other rules).                *)
(*                                                                         *)
(* A program is the sequence of its scopes in the order of the source:     *)
(* scope 1 is the program, each other one a function or procedure, and     *)
(* what is written between a scope and one of its functions lies in that   *)
(* scope too. A scope is a record: `father' the scope around it, `name',   *)
(* `value' whether it returns a value, and the sets of names it declares.  *)
(* What a scope declares twice in one class is found under its first       *)
(* declaration on both sides, so that sets are enough for all but the      *)
(* functions.                                                              *)
(*                                                                         *)
(* An entity is what a name stands for: its class and the scope it is      *)
(* declared in.  LLVM renames a newcomer whose name is taken, in the       *)
(* table of the module or of a function, by a number behind the name; no   *)
(* identifier of the program is of that form here, so that the newcomer is *)
(* left out of the table.  `entry' stands for the names of all blocks.     *)
(***************************************************************************)
EXTENDS Integers, Sequences

CONSTANTS
    Name,       \* identifiers of the source, and those LLVM is given besides
    Program     \* the programs to compile

ASSUME NameAssumption == {"main", "printf", "entry"} \subseteq Name

ScopeRecord == [father : Nat, name : Name, value : BOOLEAN,
                params : SUBSET Name, consts : SUBSET Name,
                types : SUBSET Name, vars : SUBSET Name]

ASSUME ProgramAssumption ==
    \A p \in Program :
        /\ p # << >>
        /\ p \in Seq(ScopeRecord)
        /\ p[1].params = {}
        /\ \A s \in 2 .. Len(p) :
              /\ p[s].father \in 1 .. s - 1
              /\ \A t \in p[s].father + 1 .. s - 1 : p[t].father >= p[s].father

VARIABLES
    program,    \* the program that is compiled
    phase,      \* parsed, checked, generating; rejected, aborted, done
    module,     \* symbol table of the LLVM module
    tables,     \* symbol tables of the LLVM functions, those created so far
    curFn,      \* CURRENCTFUNCION
    calls,      \* the FuncDef handlers in progress: their scope and ELDFUNC
    last        \* the name that was looked up last, and what was found

vars == <<program, phase, module, tables, curFn, calls, last>>
--------------------------------------------------------------------------------
Entity(class, scope) == [class |-> class, scope |-> scope]
None      == Entity("none", 0)
Printf    == Entity("func", 0)

Scopes == 1 .. Len(program)

Funcs(s)     == {t \in 2 .. Len(program) : program[t].father = s}
FuncNames(s) == {program[t].name : t \in Funcs(s)}
First(S)     == CHOOSE t \in S : \A u \in S : t <= u
--------------------------------------------------------------------------------
(* The semantic checker: src/tree.cpp and src/semantics.cpp *)

(* What findName finds in scope s before it goes on to its father: the     *)
(* function itself first, then what it declares.                           *)
FindHere(s, n) ==
    LET d == program[s] IN
    IF s # 1 /\ d.name = n     THEN Entity("func", s)
    ELSE IF n \in d.params     THEN Entity("param", s)
    ELSE IF n \in d.consts     THEN Entity("const", s)
    ELSE IF n \in d.types      THEN Entity("type", s)
    ELSE IF n \in d.vars       THEN Entity("var", s)
    ELSE IF n \in FuncNames(s) THEN Entity("func", First({t \in Funcs(s) : program[t].name = n}))
    ELSE None

FindName(n, scope) ==
    LET find[s \in Scopes] ==
            IF FindHere(s, n) # None \/ s = 1 THEN FindHere(s, n)
            ELSE find[program[s].father]
    IN  find[scope]

Disjoint(classes) ==
    \A i, j \in DOMAIN classes : i # j => classes[i] \cap classes[j] = {}

DefineLegal(s) ==
    LET d == program[s] IN Disjoint(<<d.consts, d.types, d.vars, FuncNames(s)>>)

(* Mutant: a parameter may have the name of its function. *)
FuncLegalParam(s) ==
    LET d == program[s]
        defined == d.consts \cup d.types \cup d.vars \cup FuncNames(s)
    IN  DefineLegal(s) /\ d.params \cap defined = {} /\ d.name \notin defined

FuncLegal(s) ==
    LET d == program[s]
        defined == d.consts \cup d.types \cup d.vars \cup FuncNames(s)
    IN  /\ DefineLegal(s)
        /\ d.params \cap ({d.name} \cup defined) = {}
        /\ d.name \notin defined

Legal == DefineLegal(1) /\ \A s \in Scopes \ {1} : FuncLegal(s)

(* VariableExp: a parameter, variable or constant, or a function that      *)
(* returns a value.  CallStm and CallExp: a function.                      *)
LegalVar(n, s) ==
    LET e == FindName(n, s) IN
    \/ e.class \in {"param", "const", "var"}
    \/ e.class = "func" /\ program[e.scope].value

LegalCall(n, s) == FindName(n, s).class = "func"
--------------------------------------------------------------------------------
(* The symbol tables of LLVM *)

Empty == [n \in {} |-> None]

(* `names' are created, all for the same kind of entity e. *)
With(table, names, e) ==
    [n \in DOMAIN table \cup names |-> IF n \in DOMAIN table THEN table[n] ELSE e]

(* Mutant: no slot for the result of a function. *)
FuncTableNoResult(s) ==
    LET d == program[s] IN
    With(With(With(Empty, {"entry"}, Entity("block", s)),
              d.params, Entity("param", s)),
         d.vars, Entity("var", s))

(* A function is created with its first block; then come its parameters,   *)
(* the slot of its result, and its variables.  Its constants and types are *)
(* not generated.                                                          *)
FuncTable(s) ==
    LET d == program[s] IN
    With(With(With(With(Empty, {"entry"}, Entity("block", s)),
                   d.params, Entity("param", s)),
              IF d.value THEN {d.name} ELSE {}, Entity("result", s)),
         d.vars, Entity("var", s))

(* VALUERETGET: global variables before those of the current function *)
Value(n) ==
    IF n \in DOMAIN module /\ module[n].class = "var" THEN module[n]
    ELSE IF n \in DOMAIN tables[curFn]                THEN tables[curFn][n]
    ELSE None

(* pModule->getFunction *)
Function(n) ==
    IF n \in DOMAIN module /\ module[n].class = "func" THEN module[n] ELSE None
--------------------------------------------------------------------------------
Running == phase = "generating"
Here    == calls[Len(calls)].scope

(* the functions of the current scope that are still to be generated *)
Waiting == Funcs(Here) \ DOMAIN tables

NoLookup == [kind |-> "none", name |-> "entry", scope |-> 0, found |-> None]

Lookup(kind, n, found) == [kind |-> kind, name |-> n, scope |-> Here, found |-> found]

Init ==
    /\ program \in Program
    /\ phase = "parsed"
    /\ module = Empty
    /\ tables = [s \in {} |-> Empty]
    /\ curFn = 1
    /\ calls = <<[scope |-> 1, caller |-> 1]>>
    /\ last = NoLookup

(* main: nothing is generated for a program that is not legal. *)
Check ==
    /\ phase = "parsed"
    /\ phase' = IF Legal THEN "checked" ELSE "rejected"
    /\ UNCHANGED <<program, module, tables, curFn, calls, last>>

(* CODEGENER creates `main' with its block, and printf.  The constants of  *)
(* the program become variables of `main', its variables global ones.      *)
DefineProgram ==
    /\ phase = "checked"
    /\ phase' = "generating"
    /\ module' = With(With(With(Empty, {"main"}, Entity("func", 1)), {"printf"}, Printf),
                      program[1].vars, Entity("var", 1))
    /\ tables' = [s \in {1} |-> With(With(Empty, {"entry"}, Entity("block", 1)),
                                     program[1].consts, Entity("const", 1))]
    /\ UNCHANGED <<program, curFn, calls, last>>

(* FuncDef::PascalCodeCreate, up to the functions it defines itself *)
EnterFunc ==
    LET f == First(Waiting) IN
    /\ Running
    /\ Waiting # {}
    /\ module' = With(module, {program[f].name}, Entity("func", f))
    /\ tables' = [s \in DOMAIN tables \cup {f} |->
                     IF s = f THEN FuncTable(f) ELSE tables[s]]
    /\ calls' = Append(calls, [scope |-> f, caller |-> curFn])
    /\ curFn' = f
    /\ last' = NoLookup
    /\ UNCHANGED <<program, phase>>

(* What is not found ends the process: exit(0). *)
LookedUp ==
    /\ phase' = IF last'.found = None THEN "aborted" ELSE phase
    /\ UNCHANGED <<program, module, tables, curFn, calls>>

(* The body of the current scope uses a name, in a way that the checker    *)
(* accepts.                                                                *)
Resolve ==
    /\ Running
    /\ Waiting = {}
    /\ \E n \in Name :
          \/ LegalVar(n, Here) /\ last' = Lookup("var", n, Value(n))
          \/ LegalCall(n, Here) /\ last' = Lookup("call", n, Function(n))
    /\ LookedUp

(* It uses a name in a place the checker has no say in: the loop variable  *)
(* of a for statement, the field of a record, which codegen looks up as a  *)
(* variable, and whatever is written, since CallStm::SEMANT_CHECK_LEGAL    *)
(* takes every write and writeln for legal.                                *)
ResolveUnchecked ==
    /\ Running
    /\ Waiting = {}
    /\ \E n \in Name : \/ last' = Lookup("var", n, Value(n))
                       \/ last' = Lookup("call", n, Function(n))
    /\ LookedUp

(* Mutant: CURRENCTFUNCION is not restored. *)
LeaveFuncStaysCurrent ==
    LET d == program[Here] IN
    /\ Running
    /\ Waiting = {}
    /\ Len(calls) > 1
    /\ last' = IF d.value THEN Lookup("var", d.name, Value(d.name)) ELSE NoLookup
    /\ calls' = SubSeq(calls, 1, Len(calls) - 1)
    /\ UNCHANGED <<program, phase, module, tables, curFn>>

(* The rest of FuncDef::PascalCodeCreate: a function that returns a value  *)
(* loads it from the variable that has its name.                           *)
LeaveFunc ==
    LET d == program[Here] IN
    /\ Running
    /\ Waiting = {}
    /\ Len(calls) > 1
    /\ last' = IF d.value THEN Lookup("var", d.name, Value(d.name)) ELSE NoLookup
    /\ phase' = IF d.value /\ last'.found = None THEN "aborted" ELSE phase
    /\ calls' = SubSeq(calls, 1, Len(calls) - 1)
    /\ curFn' = calls[Len(calls)].caller
    /\ UNCHANGED <<program, module, tables>>

FinishProgram ==
    /\ Running
    /\ Waiting = {}
    /\ Len(calls) = 1
    /\ phase' = "done"
    /\ last' = NoLookup
    /\ UNCHANGED <<program, module, tables, curFn, calls>>

Stopped == phase \in {"rejected", "aborted", "done"} /\ UNCHANGED vars

Next ==
    \/ Check \/ DefineProgram \/ EnterFunc \/ Resolve \/ ResolveUnchecked
    \/ LeaveFunc \/ FinishProgram \/ Stopped

Spec == Init /\ [][Next]_vars
--------------------------------------------------------------------------------
(* Properties *)

Class == {"none", "var", "const", "param", "result", "func", "block"}

(* Names denote entities of scopes of the program; the current function    *)
(* has a symbol table while code is generated.                             *)
TypeOK ==
    LET Found == [class : Class, scope : 0 .. Len(program)] IN
    /\ program \in Seq(ScopeRecord)
    /\ phase \in {"parsed", "checked", "generating", "rejected", "aborted", "done"}
    /\ DOMAIN module \subseteq Name /\ module \in [DOMAIN module -> Found]
    /\ DOMAIN tables \subseteq Scopes
    /\ \A s \in DOMAIN tables : tables[s] \in [DOMAIN tables[s] -> Found]
    /\ curFn \in Scopes
    /\ calls \in Seq([scope : Scopes, caller : Scopes]) /\ calls # << >>
    /\ last \in [kind : {"none", "var", "call"}, name : Name,
                 scope : 0 .. Len(program), found : Found]
    /\ Running => curFn \in DOMAIN tables /\ Here \in DOMAIN tables

(* The declarations of a name in the whole program, the names that LLVM    *)
(* has been given for the compiler's own purposes among them.              *)
Declarations(n) ==
    {Entity("param", s) : s \in {t \in Scopes : n \in program[t].params}}
      \cup {Entity("const", s) : s \in {t \in Scopes : n \in program[t].consts}}
      \cup {Entity("type", s) : s \in {t \in Scopes : n \in program[t].types}}
      \cup {Entity("var", s) : s \in {t \in Scopes : n \in program[t].vars}}
      \cup {Entity("func", s) : s \in {t \in Scopes : t # 1 /\ n = program[t].name}}

Ambiguous(n) == n \in {"main", "printf", "entry"} \/ \E d, e \in Declarations(n) : d # e

(* What a lookup means: the value of a function is in its result slot.     *)
Meaning(l) ==
    LET e == FindName(l.name, l.scope) IN
    IF l.kind = "var" /\ e.class = "func" THEN Entity("result", e.scope) ELSE e

(* What the lookup l can use: as a variable, what is global or local to    *)
(* its scope, and a constant only in the program itself; as a function,    *)
(* one whose heading comes before the end of the scope.                    *)
Usable(e, l) ==
    IF l.kind = "call"
    THEN e.class = "func" /\ (e.scope <= l.scope \/ program[e.scope].father = l.scope)
    ELSE CASE e.class = "var"    -> e.scope \in {1, l.scope}
           [] e.class = "const"  -> e.scope = 1 /\ l.scope = 1
           [] e.class = "param"  -> e.scope = l.scope
           [] e.class = "result" -> e.scope = l.scope /\ program[e.scope].value
           [] OTHER              -> FALSE

(* A name declared only once is found exactly when code at this place can  *)
(* use it, and then as the declaration that the checker found: the static  *)
(* scopes of tree.cpp and the tables that codegen.cpp fills and switches   *)
(* in the middle of nested functions agree as far as they can.  What is    *)
(* written need not be visible to the checker: a variable is not found     *)
(* then, a function is, in the one table that all functions share.         *)
ResolvesAsChecked ==
    last.kind # "none" /\ ~Ambiguous(last.name) =>
        LET meaning == Meaning(last) IN
        IF Usable(meaning, last) THEN last.found = meaning
        ELSE \/ last.found = None
             \/ last.kind = "call" /\ meaning = None

(* Whatever the names are, an instruction never uses a parameter, a        *)
(* variable, a result or a block of another function than the one it is    *)
(* in: LLVM would take such a module and produce garbage.  This needs      *)
(* CURRENCTFUNCION to be right after a nested function was generated.      *)
LocalToFunction ==
    /\ TypeOK
    /\ last.found.class \in {"param", "const", "result", "block"}
           \/ (last.found.class = "var" /\ last.found.scope # 1)
         => last.found.scope = last.scope

(* What is found in the table of the current function is what the checker  *)
(* found, whatever is declared around it and in which order the tables     *)
(* were filled: the checks of FuncDef::SEMANT_CHECK_LEGAL leave no two     *)
(* declarations that would compete for a name in one LLVM function.        *)
LocalsBindRight ==
    last.kind = "var" /\ last.found.scope = last.scope /\ last.scope # 1
        /\ last.found.class # "block"
      => last.found = Meaning(last)

(* codegen.cpp:26 calls a name that it does not find an undeclared         *)
(* variable: then the checker has not found one under that name either.    *)
UndeclaredMeansUndeclared ==
    last.kind = "var" /\ last.found = None =>
        FindName(last.name, last.scope).class \notin {"var", "param", "const"}
================================================================================
