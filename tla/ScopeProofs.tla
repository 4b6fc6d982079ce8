------------------------------ MODULE ScopeProofs ------------------------------
(***************************************************************************)
(* Names mean to the code what they mean to the checker, for all programs: *)
(* any number of functions, nested to any depth, and any declarations.     *)
(***************************************************************************)
EXTENDS Scope, SequenceTheorems, WellFoundedInduction, TLAPS

(* What DefineProgram puts into the table of main *)
MainTable == With(With(Empty, {"entry"}, Entity("block", 1)),
                  program[1].consts, Entity("const", 1))

(* The tables of the functions created so far, the first m scopes in the   *)
(* order of the source, are as they were filled; what is in the table of   *)
(* the module is a global variable, main or printf, or one of them.        *)
TablesInv(m) ==
    /\ m \in Scopes
    /\ DOMAIN tables = 1 .. m
    /\ tables[1] = MainTable
    /\ \A s \in 2 .. m : tables[s] = FuncTable(s)
    /\ program[1].vars \cup {program[f].name : f \in 2 .. m} \subseteq DOMAIN module
    /\ \A n \in DOMAIN module :
          \/ module[n] = Entity("var", 1) /\ n \in program[1].vars
          \/ n \in {"main", "printf"} /\ module[n].class = "func"
          \/ \E f \in 2 .. m : module[n] = Entity("func", f) /\ program[f].name = n

(* The handlers in progress are those of a scope and of the scopes around  *)
(* it, and CURRENCTFUNCION is the innermost; a function that is done has   *)
(* all its functions done, and what was generated since a handler was      *)
(* entered lies in its scope.                                              *)
CallsInv(m) ==
    /\ curFn = Here
    /\ calls[1].scope = 1
    /\ \A k \in DOMAIN calls : calls[k].scope \in 1 .. m
    /\ \A k \in 2 .. Len(calls) : calls[k].caller = calls[k - 1].scope
    /\ \A j, k \in DOMAIN calls : j < k => calls[j].scope < calls[k].scope
    /\ \A s \in 1 .. m : Funcs(s) \subseteq 1 .. m \/ \E k \in DOMAIN calls : calls[k].scope = s
    /\ \A k \in DOMAIN calls : \A t \in calls[k].scope + 1 .. m :
          program[t].father >= calls[k].scope

PhaseInv ==
    /\ program \in Program
    /\ phase \in {"parsed", "checked"} =>
           calls = <<[scope |-> 1, caller |-> 1]>> /\ curFn = 1 /\ tables = [s \in {} |-> Empty]
    /\ phase \in {"checked", "generating"} => Legal
    /\ Running => \E m \in Scopes : TablesInv(m) /\ CallsInv(m)

ScopeInv ==
    TypeOK /\ PhaseInv /\ ResolvesAsChecked /\ LocalToFunction /\ LocalsBindRight
--------------------------------------------------------------------------------
(* What findName finds *)

(* The least-number principle, for sets *)
LEMMA Least ==
    ASSUME NEW T, T \subseteq Nat, T # {}
    PROVE  \E x \in T : \A y \in T : x <= y
<1> DEFINE R == OpToRel(<, Nat)
<1>1. IsWellFoundedOn(R, Nat)
    BY NatLessThanWellFounded
<1>2. \A x, y \in Nat : y < x => <<y, x>> \in R
    BY DEF OpToRel
<1> HIDE DEF R
<1>3. PICK x \in T : \A y \in T : ~(<<y, x>> \in R)
    BY <1>1, WFMin
<1>4. ASSUME NEW y \in T PROVE x <= y
    <2>1. x \in Nat /\ y \in Nat /\ ~(y < x)
        BY <1>2, <1>3
    <2> QED
        BY <2>1
<1> QED
    BY <1>4

LEMMA ProgramType ==
    ASSUME program \in Program
    PROVE  /\ Len(program) \in Nat \ {0} /\ 1 \in Scopes
           /\ DOMAIN program = Scopes
           /\ \A s \in Scopes : program[s] \in ScopeRecord
           /\ \A s \in Scopes \ {1} :
                 /\ program[s].father \in Scopes /\ program[s].father < s
                 /\ \A t \in program[s].father + 1 .. s - 1 :
                        program[t].father >= program[s].father
<1>1. /\ program \in Seq(ScopeRecord) /\ program # << >>
      /\ \A s \in 2 .. Len(program) :
            /\ program[s].father \in 1 .. s - 1
            /\ \A t \in program[s].father + 1 .. s - 1 : program[t].father >= program[s].father
    BY ProgramAssumption
<1>2. Len(program) \in Nat \ {0} /\ Scopes = 1 .. Len(program) /\ Scopes \ {1} = 2 .. Len(program)
    BY <1>1 DEF Scopes
<1>3. \A s \in Scopes : program[s] \in ScopeRecord
    BY <1>1, <1>2
<1>4. DOMAIN program = Scopes
    BY <1>1 DEF Scopes
<1> HIDE DEF ScopeRecord
<1>5. ASSUME NEW s \in Scopes \ {1}
      PROVE  program[s].father \in Scopes /\ program[s].father < s
    BY <1>1, <1>2, <1>5 DEF Scopes
<1> QED
    BY <1>1, <1>2, <1>3, <1>4, <1>5

(* The search ends, since a father comes before its sons: findName is the  *)
(* function that its recursion describes.                                  *)
Up(find, n, s) ==
    IF FindHere(s, n) # None \/ s = 1 THEN FindHere(s, n) ELSE find[program[s].father]

LEMMA FindNameIs ==
    ASSUME program \in Program, NEW n, NEW s \in Scopes
    PROVE  FindName(n, s) = IF FindHere(s, n) # None \/ s = 1 THEN FindHere(s, n)
                            ELSE FindName(n, program[s].father)
<1> DEFINE Good(k) == \E g : g = [t \in 1 .. k |-> Up(g, n, t)]
           Bad == {k \in 1 .. Len(program) : ~Good(k)}
           find == CHOOSE g : g = [t \in Scopes |-> Up(g, n, t)]
<1>1. Good(Len(program))
    <2> SUFFICES ASSUME Len(program) \in Bad PROVE FALSE
        BY ProgramType
    <2>1. PICK k \in Bad : \A j \in Bad : k <= j
        <3>1. Bad \subseteq Nat /\ Bad # {}
            OBVIOUS
        <3> HIDE DEF Bad
        <3> QED
            BY <3>1, Least
    <2> HIDE DEF Good
    <2>2. k \in 1 .. Len(program) /\ ~Good(k) /\ k \in Nat /\ k - 1 \in Nat
        BY <2>1, ProgramType
    <2>3. k - 1 = 0 \/ Good(k - 1)
        BY <2>1, <2>2, ProgramType
    <2>4. Good(0)
        <3> DEFINE nothing == [t \in {} |-> None]
        <3>1. nothing = [t \in 1 .. 0 |-> Up(nothing, n, t)]
            OBVIOUS
        <3> QED
            BY <3>1 DEF Good
    <2>5. PICK g : g = [t \in 1 .. k - 1 |-> Up(g, n, t)]
        BY <2>3, <2>4 DEF Good
    <2> DEFINE h == [t \in 1 .. k |-> IF t = k THEN Up(g, n, k) ELSE g[t]]
    <2>6. ASSUME NEW t \in 1 .. k PROVE Up(h, n, t) = h[t]
        <3>1. t \in Scopes /\ (t # 1 => program[t].father \in 1 .. k - 1)
            BY <2>2, ProgramType DEF Scopes
        <3>2. t # 1 => h[program[t].father] = g[program[t].father]
            BY <2>2, <3>1
        <3>3. Up(h, n, t) = Up(g, n, t)
            BY <3>2 DEF Up
        <3>4. t # k => g[t] = Up(g, n, t)
            BY <2>2, <2>5
        <3> QED
            BY <3>3, <3>4
    <2>7. h = [t \in 1 .. k |-> Up(h, n, t)]
        BY <2>6
    <2> QED
        BY <2>2, <2>7 DEF Good
<1>2. find = [t \in Scopes |-> Up(find, n, t)]
    BY <1>1 DEF Scopes
<1>3. \A t \in Scopes : FindName(n, t) = find[t]
    BY DEF FindName, Up
<1> HIDE DEF find
<1>4. find[s] = Up(find, n, s)
    BY <1>2
<1> QED
    BY <1>3, <1>4, ProgramType DEF Up

LEMMA FindNameKept ==
    ASSUME program' = program
    PROVE  \A n, s : FindName(n, s)' = FindName(n, s)
<1>1. \A s : Funcs(s)' = Funcs(s) /\ FuncNames(s)' = FuncNames(s)
    BY DEF FuncNames, Funcs
<1>2. \A n, s : {t \in Funcs(s)' : program[t].name = n} = {t \in Funcs(s) : program[t].name = n}
    BY <1>1
<1>3. \A n, s : FindHere(s, n)' = FindHere(s, n)
    BY <1>1, <1>2 DEF FindHere
<1> DEFINE Find(n) == CHOOSE f : f = [t \in Scopes |-> Up(f, n, t)]
<1>4. \A f, n : [t \in Scopes |-> Up(f, n, t)]' = [t \in Scopes |-> Up(f, n, t)]
    BY <1>3 DEF Up, Scopes
<1>5. ASSUME NEW n
      PROVE  Find(n)' = Find(n)
    <2> DEFINE Is(f) == f = [t \in Scopes |-> Up(f, n, t)]
    <2>1. \A f : Is(f)' <=> Is(f)
        BY <1>4
    <2> HIDE DEF Is
    <2>2. (CHOOSE f : Is(f)') = (CHOOSE f : Is(f))
        BY <2>1, Zenon
    <2>3. Find(n) = (CHOOSE f : Is(f)) /\ Find(n)' = (CHOOSE f : Is(f)')
        BY Zenon DEF Is
    <2> QED
        BY <2>2, <2>3
<1>6. \A n, s : FindName(n, s) = Find(n)[s]
    BY DEF FindName, Up
<1>7. \A n, s : FindName(n, s)' = Find(n)'[s]
    BY DEF FindName, Up
<1> HIDE DEF Find
<1> QED
    BY <1>5, <1>6, <1>7

LEMMA FirstIs ==
    ASSUME NEW T, T \subseteq Nat, T # {}
    PROVE  First(T) \in T /\ \A u \in T : First(T) <= u
BY Least DEF First

(* Whatever is wrong in some scope is wrong in one whose father is right.  *)
LEMMA OutermostBad ==
    ASSUME program \in Program, NEW Bad, Bad \subseteq Scopes, Bad # {}
    PROVE  \E s \in Bad : s = 1 \/ program[s].father \in Scopes \ Bad
<1> Bad \subseteq Nat
    BY DEF Scopes
<1>1. PICK s \in Bad : \A t \in Bad : s <= t
    BY Least
<1>2. s # 1 => program[s].father \in Scopes /\ program[s].father < s
    BY ProgramType
<1>3. ASSUME s # 1 PROVE program[s].father \notin Bad
    <2>1. s \in Nat /\ program[s].father \in Nat /\ program[s].father < s
        BY <1>2, <1>3 DEF Scopes
    <2> QED
        BY <1>1, <2>1
<1> QED
    BY <1>2, <1>3

LEMMA FuncsType ==
    ASSUME program \in Program, NEW s
    PROVE  /\ Funcs(s) \subseteq Scopes \ {1} /\ Funcs(s) \subseteq Nat
           /\ \A t \in Funcs(s) : program[t].father = s
BY ProgramType DEF Funcs, Scopes

(* What findName sees in one scope is declared under that name, and a      *)
(* function is the scope itself or one of its functions.                   *)
LEMMA FindHereIs ==
    ASSUME program \in Program, NEW n, NEW s \in Scopes
    PROVE  /\ FindHere(s, n) \in Declarations(n) \cup {None}
           /\ FindHere(s, n).class = "func" =>
                 /\ FindHere(s, n).scope \in Scopes \ {1}
                 /\ \/ FindHere(s, n).scope = s
                    \/ program[FindHere(s, n).scope].father = s
<1> DEFINE T == {t \in Funcs(s) : program[t].name = n}
<1>1. n \in FuncNames(s) => First(T) \in T
    BY FirstIs, FuncsType DEF FuncNames
<1>2. n \in FuncNames(s) => /\ First(T) \in Scopes \ {1} /\ program[First(T)].father = s
                            /\ program[First(T)].name = n
    BY <1>1, FuncsType
<1> HIDE DEF T
<1>3. CASE s # 1 /\ program[s].name = n
    BY <1>3 DEF FindHere, Declarations, Entity
<1>4. CASE ~(s # 1 /\ program[s].name = n) /\ n \in program[s].params
    BY <1>4 DEF FindHere, Declarations, Entity
<1>5. CASE ~(s # 1 /\ program[s].name = n) /\ n \notin program[s].params
    BY <1>2, <1>5 DEF FindHere, Declarations, Entity, None, T
<1> QED
    BY <1>3, <1>4, <1>5

LEMMA FindNameType ==
    ASSUME program \in Program, NEW n, NEW s \in Scopes
    PROVE  /\ FindName(n, s) \in Declarations(n) \cup {None}
           /\ FindName(n, s).class = "func" =>
                 /\ FindName(n, s).scope \in Scopes \ {1}
                 /\ FindName(n, s).scope <= s \/ program[FindName(n, s).scope].father <= s
<1> DEFINE Good(t) ==
              /\ FindName(n, t) \in Declarations(n) \cup {None}
              /\ FindName(n, t).class = "func" =>
                    /\ FindName(n, t).scope \in Scopes \ {1}
                    /\ FindName(n, t).scope <= t \/ program[FindName(n, t).scope].father <= t
           Bad == {t \in Scopes : ~Good(t)}
<1>1. SUFFICES ASSUME Bad # {} PROVE FALSE
    OBVIOUS
<1>2. PICK t \in Bad : t = 1 \/ program[t].father \in Scopes \ Bad
    BY <1>1, OutermostBad
<1>3. t \in Scopes /\ ~Good(t)
    OBVIOUS
<1>4. t # 1 => /\ program[t].father \in Scopes /\ Good(program[t].father)
               /\ program[t].father < t
    BY <1>2, ProgramType
<1>5. \A u \in Scopes \ {1} : program[u].father \in Scopes
    BY ProgramType
<1>6. CASE FindHere(t, n) # None \/ t = 1
    <2>1. FindName(n, t) = FindHere(t, n)
        BY <1>3, <1>6, FindNameIs
    <2> QED
        BY <1>3, <1>5, <2>1, FindHereIs DEF Scopes
<1>7. CASE ~(FindHere(t, n) # None \/ t = 1)
    <2>1. FindName(n, t) = FindName(n, program[t].father)
        BY <1>3, <1>7, FindNameIs
    <2> QED
        BY <1>3, <1>4, <1>5, <1>7, <2>1 DEF Scopes
<1> QED
    BY <1>6, <1>7

(* What the program itself declares is seen everywhere, if only as what    *)
(* hides it.                                                               *)
LEMMA GlobalsAreFound ==
    ASSUME program \in Program, NEW n, FindHere(1, n) # None, NEW s \in Scopes
    PROVE  FindName(n, s) # None
<1> DEFINE Bad == {t \in Scopes : FindName(n, t) = None}
<1>1. SUFFICES ASSUME Bad # {} PROVE FALSE
    OBVIOUS
<1>2. PICK t \in Bad : t = 1 \/ program[t].father \in Scopes \ Bad
    BY <1>1, OutermostBad
<1>3. t \in Scopes /\ FindName(n, t) = None
    OBVIOUS
<1> QED
    BY <1>2, <1>3, FindNameIs
(* A name that is declared once in the program *)

LEMMA Unambiguous ==
    ASSUME NEW n, ~Ambiguous(n)
    PROVE  /\ n \notin {"main", "printf", "entry"}
           /\ \A d, e \in Declarations(n) : d = e
           /\ \A e \in Declarations(n) : e # None
BY DEF Ambiguous, Declarations, Entity, None

LEMMA DeclaredHere ==
    ASSUME program \in Program, NEW n, NEW d \in Declarations(n)
    PROVE  d.scope \in Scopes /\ FindHere(d.scope, n) # None
<1>1. PICK s \in Scopes :
          \/ d = Entity("param", s) /\ n \in program[s].params
          \/ d = Entity("const", s) /\ n \in program[s].consts
          \/ d = Entity("type", s) /\ n \in program[s].types
          \/ d = Entity("var", s) /\ n \in program[s].vars
          \/ d = Entity("func", s) /\ s # 1 /\ n = program[s].name
    BY Zenon DEF Declarations
<1>2. d.scope = s
    BY <1>1 DEF Entity
<1>3. FindHere(s, n) # None
    BY <1>1 DEF FindHere, None, Entity
<1> QED
    BY <1>2, <1>3

LEMMA FoundHere ==
    ASSUME program \in Program, NEW n, ~Ambiguous(n), NEW d \in Declarations(n)
    PROVE  /\ FindName(n, d.scope) = d
           /\ d.scope = 1 => \A s \in Scopes : FindName(n, s) = d
<1>1. d.scope \in Scopes /\ FindHere(d.scope, n) # None
    BY DeclaredHere
<1>2. FindName(n, d.scope) # None
    BY <1>1, FindNameIs
<1>3. d.scope = 1 => \A s \in Scopes : FindName(n, s) # None
    BY <1>1, GlobalsAreFound
<1>4. \A s \in Scopes : FindName(n, s) # None => FindName(n, s) = d
    BY FindNameType, Unambiguous
<1> QED
    BY <1>1, <1>2, <1>3, <1>4
--------------------------------------------------------------------------------
(* The symbol tables *)

LEMMA EmptyIs == DOMAIN Empty = {}
BY DEF Empty

LEMMA FuncTableIs ==
    ASSUME NEW s
    PROVE  /\ DOMAIN FuncTable(s) = {"entry"} \cup program[s].params \cup program[s].vars
                 \cup (IF program[s].value THEN {program[s].name} ELSE {})
           /\ \A n \in DOMAIN FuncTable(s) : FuncTable(s)[n] =
                 IF n = "entry" THEN Entity("block", s)
                 ELSE IF n \in program[s].params THEN Entity("param", s)
                 ELSE IF program[s].value /\ n = program[s].name THEN Entity("result", s)
                 ELSE Entity("var", s)
<1> DEFINE A == With(Empty, {"entry"}, Entity("block", s))
<1>1. DOMAIN A = {"entry"} /\ A["entry"] = Entity("block", s)
    BY EmptyIs DEF With
<1> HIDE DEF A
<1> DEFINE B == With(A, program[s].params, Entity("param", s))
<1>2. DOMAIN B = {"entry"} \cup program[s].params
      /\ \A n \in DOMAIN B : B[n] = IF n = "entry" THEN Entity("block", s) ELSE Entity("param", s)
    BY <1>1 DEF With
<1> HIDE DEF B
<1> DEFINE R == IF program[s].value THEN {program[s].name} ELSE {}
<1> HIDE DEF R
<1> DEFINE C == With(B, R, Entity("result", s))
<1>3. DOMAIN C = DOMAIN B \cup R
      /\ \A n \in DOMAIN C : C[n] = IF n \in DOMAIN B THEN B[n] ELSE Entity("result", s)
    BY DEF With
<1> HIDE DEF C
<1> DEFINE D == With(C, program[s].vars, Entity("var", s))
<1>4. DOMAIN D = DOMAIN C \cup program[s].vars
      /\ \A n \in DOMAIN D : D[n] = IF n \in DOMAIN C THEN C[n] ELSE Entity("var", s)
    BY DEF With
<1>5. FuncTable(s) = D
    BY DEF FuncTable, A, B, C, D, R
<1>6. \A n : n \in R <=> program[s].value /\ n = program[s].name
    BY DEF R
<1> HIDE DEF D
<1> QED
    BY <1>2, <1>3, <1>4, <1>5, <1>6 DEF R

LEMMA FuncTableNames ==
    ASSUME NEW s, NEW n
    PROVE  n \in DOMAIN FuncTable(s) <=>
              \/ n = "entry" \/ n \in program[s].params \/ n \in program[s].vars
              \/ program[s].value /\ n = program[s].name
<1> DEFINE D == DOMAIN FuncTable(s)
           R == IF program[s].value THEN {program[s].name} ELSE {}
<1>1. D = {"entry"} \cup program[s].params \cup program[s].vars \cup R
    BY FuncTableIs
<1>2. n \in R <=> program[s].value /\ n = program[s].name
    OBVIOUS
<1> HIDE DEF D, R
<1>3. n \in D <=> \/ n = "entry" \/ n \in program[s].params \/ n \in program[s].vars
                  \/ program[s].value /\ n = program[s].name
    BY <1>1, <1>2
<1> QED
    BY <1>3 DEF D

LEMMA MainTableIs ==
    /\ DOMAIN MainTable = {"entry"} \cup program[1].consts
    /\ \A n \in DOMAIN MainTable : MainTable[n] =
          IF n = "entry" THEN Entity("block", 1) ELSE Entity("const", 1)
<1> DEFINE A == With(Empty, {"entry"}, Entity("block", 1))
<1>1. DOMAIN A = {"entry"} /\ A["entry"] = Entity("block", 1)
    BY EmptyIs DEF With
<1>2. MainTable = With(A, program[1].consts, Entity("const", 1))
    BY DEF MainTable
<1> HIDE DEF A
<1> QED
    BY <1>1, <1>2 DEF With

LEMMA TablesKept ==
    ASSUME program' = program
    PROVE  /\ \A s : FuncTable(s)' = FuncTable(s)
           /\ MainTable' = MainTable
           /\ Scopes' = Scopes
           /\ \A s : Funcs(s)' = Funcs(s)
<1>1. \A s : FuncTable(s)' = FuncTable(s)
    BY DEF FuncTable
<1>2. MainTable' = MainTable
    BY DEF MainTable
<1> QED
    BY <1>1, <1>2 DEF Scopes, Funcs
--------------------------------------------------------------------------------
(* What a lookup finds *)

(* The current function has the table that was made for it. *)
LEMMA CurrentTable ==
    ASSUME TypeOK, program \in Program, NEW m, TablesInv(m), CallsInv(m)
    PROVE  /\ Here \in Scopes /\ Here <= m /\ m \in Scopes /\ m \in Nat /\ curFn = Here
           /\ tables[curFn] = IF Here = 1 THEN MainTable ELSE FuncTable(Here)
<1>1. Len(calls) \in DOMAIN calls
    BY DEF TypeOK
<1>2. Here \in 1 .. m /\ m \in Scopes /\ curFn = Here
    BY <1>1 DEF CallsInv, TablesInv, Here
<1>3. m \in Nat /\ Here \in Nat /\ Here <= m /\ Here \in Scopes
    BY <1>2, ProgramType DEF Scopes
<1>4. Here # 1 => Here \in 2 .. m
    BY <1>2, <1>3
<1> QED
    BY <1>2, <1>3, <1>4 DEF TablesInv

(* VALUERETGET takes a global variable, or else what the table of the      *)
(* current function has.                                                   *)
LEMMA ValueIs ==
    ASSUME NEW m, TablesInv(m), NEW n
    PROVE  /\ \/ Value(n) = Entity("var", 1) /\ n \in program[1].vars
              \/ n \in DOMAIN tables[curFn] /\ Value(n) = tables[curFn][n]
              \/ n \notin DOMAIN tables[curFn] /\ Value(n) = None
           /\ n \in program[1].vars /\ ~Ambiguous(n) => Value(n) = Entity("var", 1)
<1>1. n \in DOMAIN module /\ module[n].class = "var" =>
          module[n] = Entity("var", 1) /\ n \in program[1].vars
    BY DEF TablesInv, Entity
<1>2. ASSUME n \in program[1].vars, ~Ambiguous(n)
      PROVE  n \in DOMAIN module /\ module[n] = Entity("var", 1)
    <2>1. n \in DOMAIN module /\ n \notin {"main", "printf"}
        BY <1>2, Unambiguous DEF TablesInv
    <2>2. ASSUME NEW f \in 2 .. m, program[f].name = n PROVE FALSE
        <3>1. f \in Scopes /\ f # 1 /\ 1 \in Scopes
            BY DEF TablesInv, Scopes
        <3>2. Entity("func", f) \in Declarations(n) /\ Entity("var", 1) \in Declarations(n)
            BY <1>2, <2>2, <3>1 DEF Declarations
        <3> QED
            BY <1>2, <3>2, Unambiguous DEF Entity
    <2> QED
        BY <2>1, <2>2 DEF TablesInv
<1>3. Entity("var", 1).class = "var"
    BY DEF Entity
<1> QED
    BY <1>1, <1>2, <1>3 DEF Value

(* A declaration of each class *)
LEMMA IsDeclared ==
    ASSUME NEW n, NEW s \in Scopes
    PROVE  /\ n \in program[s].params <=> Entity("param", s) \in Declarations(n)
           /\ n \in program[s].consts <=> Entity("const", s) \in Declarations(n)
           /\ n \in program[s].types <=> Entity("type", s) \in Declarations(n)
           /\ n \in program[s].vars <=> Entity("var", s) \in Declarations(n)
           /\ s # 1 /\ n = program[s].name <=> Entity("func", s) \in Declarations(n)
BY DEF Declarations, Entity

LEMMA DeclaredAs ==
    ASSUME NEW n, NEW e \in Declarations(n)
    PROVE  /\ e.class \in {"param", "const", "type", "var", "func"}
           /\ e.scope \in Scopes
           /\ e = Entity(e.class, e.scope)
BY DEF Declarations, Entity

LEMMA VarAsChecked ==
    ASSUME TypeOK, program \in Program, NEW m, TablesInv(m), CallsInv(m),
           NEW n, ~Ambiguous(n),
           NEW l, l = Lookup("var", n, Value(n))
    PROVE  IF Usable(Meaning(l), l) THEN l.found = Meaning(l) ELSE l.found = None
<1> DEFINE e == FindName(n, Here)
<1>1. l.kind = "var" /\ l.name = n /\ l.scope = Here /\ l.found = Value(n)
    BY DEF Lookup
<1>2. Meaning(l) = IF e.class = "func" THEN Entity("result", e.scope) ELSE e
    BY <1>1 DEF Meaning
<1>3. Here \in Scopes /\ 1 \in Scopes /\ program[1].params = {}
    BY CurrentTable, ProgramType, ProgramAssumption
<1>4. e \in Declarations(n) \cup {None}
    BY <1>3, FindNameType
<1>5. n # "entry"
    BY Unambiguous
<1>6. \A d \in Declarations(n) : d.scope \in {1, Here} => e = d
    BY <1>3, FoundHere
<1> HIDE DEF e
<1>7. ASSUME NEW d \in Declarations(n), d.class = "var", d.scope \in {1, Here}, Value(n) = d
      PROVE  Usable(Meaning(l), l) /\ l.found = Meaning(l)
    BY <1>1, <1>2, <1>6, <1>7 DEF Usable
<1>8. CASE n \in program[1].vars
    <2>1. Value(n) = Entity("var", 1) /\ Entity("var", 1) \in Declarations(n)
        BY <1>3, <1>8, ValueIs, IsDeclared
    <2> QED
        BY <1>7, <2>1 DEF Entity
<1>9. CASE n \notin program[1].vars /\ n \in DOMAIN tables[curFn]
    <2>1. Value(n) = tables[curFn][n]
        BY <1>9, ValueIs
    <2>2. CASE Here = 1
        <3>1. n \in program[1].consts /\ Value(n) = Entity("const", 1)
            BY <1>5, <1>9, <2>1, <2>2, CurrentTable, MainTableIs
        <3>2. e = Entity("const", 1)
            BY <1>3, <1>6, <3>1, IsDeclared DEF Entity
        <3> QED
            BY <1>1, <1>2, <2>2, <3>1, <3>2 DEF Usable, Entity
    <2>3. CASE Here # 1
        <3>1. \/ n \in program[Here].params /\ Value(n) = Entity("param", Here)
              \/ program[Here].value /\ n = program[Here].name /\ Value(n) = Entity("result", Here)
              \/ n \in program[Here].vars /\ Value(n) = Entity("var", Here)
            <4>1. tables[curFn] = FuncTable(Here)
                BY <2>3, CurrentTable
            <4>2. n \in DOMAIN FuncTable(Here) /\ Value(n) = FuncTable(Here)[n]
                BY <1>9, <2>1, <4>1
            <4>3. \/ n \in program[Here].params \/ n \in program[Here].vars
                  \/ program[Here].value /\ n = program[Here].name
                BY <1>5, <4>2, FuncTableNames
            <4>4. Value(n) = IF n \in program[Here].params THEN Entity("param", Here)
                             ELSE IF program[Here].value /\ n = program[Here].name
                                  THEN Entity("result", Here) ELSE Entity("var", Here)
                BY <1>5, <4>2, FuncTableIs
            <4> QED
                BY <4>3, <4>4
        <3>2. CASE n \in program[Here].params /\ Value(n) = Entity("param", Here)
            <4>1. e = Entity("param", Here)
                BY <1>3, <1>6, <3>2, IsDeclared DEF Entity
            <4> QED
                BY <1>1, <1>2, <3>2, <4>1 DEF Usable, Entity
        <3>3. CASE program[Here].value /\ n = program[Here].name /\ Value(n) = Entity("result", Here)
            <4>1. e = Entity("func", Here)
                <5>1. Entity("func", Here) \in Declarations(n)
                    BY <1>3, <2>3, <3>3, IsDeclared
                <5> QED
                    BY <1>6, <5>1 DEF Entity
            <4> QED
                BY <1>1, <1>2, <3>3, <4>1 DEF Usable, Entity
        <3>4. CASE n \in program[Here].vars /\ Value(n) = Entity("var", Here)
            BY <1>3, <1>7, <3>4, IsDeclared DEF Entity
        <3> QED
            BY <3>1, <3>2, <3>3, <3>4
    <2> QED
        BY <2>2, <2>3
<1>10. CASE n \notin program[1].vars /\ n \notin DOMAIN tables[curFn]
    <2>1. Value(n) = None
        BY <1>10, ValueIs
    <2>2. Here = 1 => n \notin program[1].consts
        BY <1>10, CurrentTable, MainTableIs
    <2>3. Here # 1 => /\ n \notin program[Here].params /\ n \notin program[Here].vars
                      /\ ~(program[Here].value /\ n = program[Here].name)
        BY <1>10, CurrentTable, FuncTableNames
    <2>4. ASSUME e \in Declarations(n), Usable(Meaning(l), l) PROVE FALSE
        <3>1. e.class \in {"param", "const", "type", "var", "func"} /\ e.scope \in Scopes
              /\ e = Entity(e.class, e.scope)
            BY <2>4, DeclaredAs
        <3>2. CASE e.class = "func"
            <4>1. e.scope = Here /\ program[Here].value
                BY <1>1, <1>2, <2>4, <3>2 DEF Usable, Entity
            <4> QED
                BY <1>3, <2>3, <2>4, <3>1, <3>2, <4>1, IsDeclared
        <3>3. CASE e.class # "func"
            <4>1. \/ e.class = "var" /\ e.scope \in {1, Here}
                  \/ e.class = "const" /\ e.scope = 1 /\ Here = 1
                  \/ e.class = "param" /\ e.scope = Here
                BY <1>1, <1>2, <2>4, <3>1, <3>3 DEF Usable
            <4> QED
                BY <1>3, <1>10, <2>2, <2>3, <2>4, <3>1, <4>1, IsDeclared
        <3> QED
            BY <3>2, <3>3
    <2>5. e = None => ~Usable(Meaning(l), l)
        BY <1>1, <1>2 DEF Usable, None, Entity
    <2> QED
        BY <1>1, <1>4, <2>1, <2>4, <2>5
<1> QED
    BY <1>7, <1>8, <1>9, <1>10

LEMMA CallAsChecked ==
    ASSUME TypeOK, program \in Program, NEW m, TablesInv(m), CallsInv(m), Waiting = {},
           NEW n, ~Ambiguous(n),
           NEW l, l = Lookup("call", n, Function(n))
    PROVE  IF Usable(Meaning(l), l) THEN l.found = Meaning(l)
           ELSE l.found = None \/ Meaning(l) = None
<1> DEFINE e == FindName(n, Here)
<1>1. l.kind = "call" /\ l.name = n /\ l.scope = Here /\ l.found = Function(n)
    BY DEF Lookup
<1>2. Meaning(l) = e
    BY <1>1 DEF Meaning
<1>3. Here \in Scopes /\ Here <= m /\ m \in Scopes /\ m \in Nat /\ Here \in Nat /\ 1 \in Scopes
    BY CurrentTable, ProgramType DEF Scopes
<1>4. e \in Declarations(n) \cup {None}
    BY <1>3, FindNameType
<1>5. n \notin {"main", "printf"}
    BY Unambiguous
<1>6. \/ Function(n) = None
      \/ \E f \in 2 .. m : Function(n) = Entity("func", f) /\ Entity("func", f) \in Declarations(n)
    <2>1. ASSUME NEW f \in 2 .. m, program[f].name = n
          PROVE  Entity("func", f) \in Declarations(n)
        <3>1. f \in Scopes /\ f # 1
            BY <1>3 DEF Scopes
        <3> QED
            BY <2>1, <3>1, IsDeclared
    <2>2. CASE n \in DOMAIN module /\ module[n].class = "func"
        <3>1. module[n] # Entity("var", 1)
            BY <2>2 DEF Entity
        <3>2. PICK f \in 2 .. m : module[n] = Entity("func", f) /\ program[f].name = n
            BY <1>5, <2>2, <3>1 DEF TablesInv
        <3> QED
            BY <2>1, <2>2, <3>2 DEF Function
    <2> QED
        BY <2>2 DEF Function
<1>7. Usable(e, l) <=> e.class = "func" /\ (e.scope <= Here \/ program[e.scope].father = Here)
    BY <1>1 DEF Usable
<1>8. e.class = "func" => e.scope <= Here \/ program[e.scope].father <= Here
    BY <1>3, FindNameType
<1>9. CASE e = None
    BY <1>2, <1>7, <1>9 DEF None, Entity
<1> HIDE DEF e
<1>10. CASE e \in Declarations(n)
    <2>1. \A f : Function(n) = Entity("func", f) /\ Entity("func", f) \in Declarations(n) =>
              e = Entity("func", f)
        BY <1>10, Unambiguous
    <2>2. CASE e.class # "func"
        <3>1. \A f : Entity("func", f).class = "func"
            BY DEF Entity
        <3>2. Function(n) = None
            BY <1>6, <2>1, <2>2, <3>1
        <3> QED
            BY <1>1, <1>2, <1>7, <2>2, <3>2
    <2>3. CASE e.class = "func"
        <3>1. e = Entity("func", e.scope) /\ e.scope \in Scopes
            BY <1>10, <2>3, DeclaredAs
        <3>2. e.scope # 1 /\ program[e.scope].name = n
            BY <1>10, <3>1, IsDeclared
        <3>3. e.scope \in Nat /\ program[e.scope].father \in Nat
            BY <3>1, <3>2, ProgramType DEF Scopes
        <3>4. CASE e.scope <= m
            <4>1. e.scope \in 2 .. m
                BY <1>3, <3>1, <3>2, <3>4 DEF Scopes
            <4>2. n \in DOMAIN module
                BY <3>2, <4>1 DEF TablesInv
            <4>3. n \notin program[1].vars
                <5>1. Entity("var", 1) # e
                    BY <2>3 DEF Entity
                <5>2. Entity("var", 1) \notin Declarations(n)
                    BY <1>10, <5>1, Unambiguous
                <5> QED
                    BY <1>3, <5>2, IsDeclared
            <4>4. PICK f \in 2 .. m : module[n] = Entity("func", f) /\ program[f].name = n
                BY <1>5, <4>2, <4>3 DEF TablesInv
            <4>5. Function(n) = Entity("func", f)
                BY <4>2, <4>4 DEF Function, Entity
            <4>6. Entity("func", f) \in Declarations(n)
                BY <1>3, <4>4, IsDeclared DEF Scopes
            <4>7. Function(n) = e
                BY <2>1, <4>5, <4>6
            <4>8. e.scope > Here => program[e.scope].father >= Here
                <5>1. Len(calls) \in DOMAIN calls /\ Here = calls[Len(calls)].scope
                    BY DEF TypeOK, Here
                <5>2. \A t \in Here + 1 .. m : program[t].father >= Here
                    BY <5>1 DEF CallsInv
                <5> QED
                    BY <1>3, <3>3, <3>4, <5>2
            <4>9. Usable(e, l)
                BY <1>3, <1>7, <1>8, <2>3, <3>3, <4>8
            <4> QED
                BY <1>1, <1>2, <4>7, <4>9
        <3>5. CASE ~(e.scope <= m)
            <4>1. program[e.scope].father # Here
                <5>1. SUFFICES ASSUME program[e.scope].father = Here PROVE FALSE
                    OBVIOUS
                <5>2. e.scope \in Funcs(Here)
                    BY <3>1, <3>2, <5>1 DEF Funcs, Scopes
                <5>3. e.scope \in 1 .. m
                    BY <5>2 DEF Waiting, TablesInv
                <5> QED
                    BY <3>5, <5>3
            <4>2. ~(e.scope <= Here)
                BY <1>3, <3>3, <3>5
            <4>3. ASSUME NEW f \in 2 .. m, Function(n) = Entity("func", f),
                         Entity("func", f) \in Declarations(n)
                  PROVE  FALSE
                <5>1. e = Entity("func", f)
                    BY <2>1, <4>3
                <5>2. e.scope = f
                    BY <5>1 DEF Entity
                <5> QED
                    BY <1>3, <3>5, <4>3, <5>2
            <4> QED
                BY <1>1, <1>2, <1>6, <1>7, <4>1, <4>2, <4>3
        <3> QED
            BY <3>4, <3>5
    <2> QED
        BY <2>2, <2>3
<1> QED
    BY <1>4, <1>9, <1>10

(* Nothing of another function is found. *)
LEMMA ValueType ==
    ASSUME TypeOK, program \in Program, NEW m, TablesInv(m), CallsInv(m), NEW n
    PROVE  /\ Value(n) \in [class : Class, scope : 0 .. Len(program)]
           /\ \/ Value(n) = None
              \/ Value(n) = Entity("var", 1)
              \/ Value(n).scope = Here
           /\ Function(n) \in [class : Class, scope : 0 .. Len(program)]
           /\ Function(n).class \in {"none", "func"}
<1>1. Here \in Scopes /\ curFn = Here /\ Len(program) \in Nat /\ 1 \in Scopes
    BY CurrentTable, ProgramType
<1>2. None \in [class : Class, scope : 0 .. Len(program)] /\ None.class = "none"
    BY <1>1 DEF None, Entity, Class
<1>3. \A c \in Class, s \in Scopes : /\ Entity(c, s) \in [class : Class, scope : 0 .. Len(program)]
                                     /\ Entity(c, s).scope = s
    BY <1>1 DEF Entity, Scopes
<1>4. {"var", "const", "param", "result", "block"} \subseteq Class
    BY DEF Class
<1>5. ASSUME n \in DOMAIN tables[curFn]
      PROVE  \E c \in Class : tables[curFn][n] = Entity(c, Here)
    <2>1. CASE Here = 1
        BY <1>4, <1>5, <2>1, CurrentTable, MainTableIs
    <2>2. CASE Here # 1
        <3>1. tables[curFn] = FuncTable(Here)
            BY <2>2, CurrentTable
        <3> QED
            BY <1>4, <1>5, <3>1, FuncTableIs
    <2> QED
        BY <2>1, <2>2
<1>6. n \in DOMAIN module => module[n] \in [class : Class, scope : 0 .. Len(program)]
    BY DEF TypeOK
<1>7. \/ Function(n) = None
      \/ n \in DOMAIN module /\ Function(n) = module[n] /\ module[n].class = "func"
    BY DEF Function
<1>8. /\ Function(n) \in [class : Class, scope : 0 .. Len(program)]
      /\ Function(n).class \in {"none", "func"}
    BY <1>2, <1>6, <1>7
<1>9. CASE Value(n) = Entity("var", 1)
    BY <1>1, <1>3, <1>4, <1>8, <1>9
<1>10. CASE n \in DOMAIN tables[curFn] /\ Value(n) = tables[curFn][n]
    BY <1>1, <1>3, <1>5, <1>8, <1>10
<1>11. CASE Value(n) = None
    BY <1>2, <1>8, <1>11
<1> QED
    BY <1>9, <1>10, <1>11, ValueIs

(* The declarations of a legal function do not compete. *)
LEMMA LegalNames ==
    ASSUME Legal, NEW s \in Scopes \ {1}, NEW n
    PROVE  /\ n \in program[s].params => n # program[s].name
           /\ n \in program[s].vars => /\ n # program[s].name
                                       /\ n \notin program[s].consts
                                       /\ n \notin program[s].types
<1>1. FuncLegal(s)
    BY DEF Legal
<1> DEFINE cs == <<program[s].consts, program[s].types, program[s].vars, FuncNames(s)>>
<1>2. Disjoint(cs)
    BY <1>1 DEF FuncLegal, DefineLegal
<1>3. 1 \in DOMAIN cs /\ 2 \in DOMAIN cs /\ 3 \in DOMAIN cs
      /\ cs[1] = program[s].consts /\ cs[2] = program[s].types /\ cs[3] = program[s].vars
    OBVIOUS
<1> HIDE DEF cs
<1>4. program[s].consts \cap program[s].vars = {} /\ program[s].types \cap program[s].vars = {}
    BY <1>2, <1>3 DEF Disjoint
<1> QED
    BY <1>1, <1>4 DEF FuncLegal

LEMMA BindsRight ==
    ASSUME TypeOK, program \in Program, Legal, NEW m, TablesInv(m), CallsInv(m), NEW n,
           Value(n).scope = Here, Here # 1, Value(n).class # "block",
           NEW l, l = Lookup("var", n, Value(n))
    PROVE  l.found = Meaning(l)
<1>1. l.kind = "var" /\ l.name = n /\ l.scope = Here /\ l.found = Value(n)
    BY DEF Lookup
<1>2. Here \in Scopes /\ Here \in Nat /\ Here # 0
    BY CurrentTable DEF Scopes
<1>3. tables[curFn] = FuncTable(Here)
    BY CurrentTable
<1>4. n \in DOMAIN FuncTable(Here) /\ Value(n) = FuncTable(Here)[n]
    BY <1>2, <1>3, ValueIs DEF Entity, None
<1>5. Value(n) = IF n = "entry" THEN Entity("block", Here)
                 ELSE IF n \in program[Here].params THEN Entity("param", Here)
                 ELSE IF program[Here].value /\ n = program[Here].name
                      THEN Entity("result", Here) ELSE Entity("var", Here)
    BY <1>4, FuncTableIs
<1>6. n # "entry"
    BY <1>5 DEF Entity
<1>7. FindHere(Here, n) # None => FindName(n, Here) = FindHere(Here, n)
    BY <1>2, FindNameIs
<1>8. CASE n \in program[Here].params
    <2>1. FindHere(Here, n) = Entity("param", Here) /\ Value(n) = Entity("param", Here)
        BY <1>2, <1>5, <1>6, <1>8, LegalNames DEF FindHere
    <2> QED
        BY <1>1, <1>7, <2>1 DEF Meaning, Entity, None
<1>9. CASE n \notin program[Here].params /\ program[Here].value /\ n = program[Here].name
    <2>1. FindHere(Here, n) = Entity("func", Here) /\ Value(n) = Entity("result", Here)
        BY <1>5, <1>6, <1>9 DEF FindHere
    <2> QED
        BY <1>1, <1>7, <2>1 DEF Meaning, Entity, None
<1>10. CASE n \notin program[Here].params /\ ~(program[Here].value /\ n = program[Here].name)
    <2>1. n \in program[Here].vars
        BY <1>4, <1>6, <1>10, FuncTableNames
    <2>2. FindHere(Here, n) = Entity("var", Here) /\ Value(n) = Entity("var", Here)
        BY <1>2, <1>5, <1>6, <1>10, <2>1, LegalNames DEF FindHere
    <2> QED
        BY <1>1, <1>7, <2>2 DEF Meaning, Entity, None
<1> QED
    BY <1>8, <1>9, <1>10
--------------------------------------------------------------------------------
(* The steps *)

(* Code is generated, and the first m scopes have been entered. *)
Generating(m) == Running /\ Legal /\ m \in Scopes /\ TablesInv(m) /\ CallsInv(m)

LEMMA SameProgram ==
    ASSUME program' = program
    PROVE  /\ \A n : Ambiguous(n)' = Ambiguous(n)
           /\ \A l : Meaning(l)' = Meaning(l)
           /\ \A e, l : Usable(e, l)' = Usable(e, l)
           /\ Legal' = Legal
<1>1. \A n : Declarations(n)' = Declarations(n)
    BY DEF Declarations, Scopes
<1>2. \A l : Meaning(l)' = Meaning(l)
    BY FindNameKept DEF Meaning
<1>3. \A s : FuncNames(s)' = FuncNames(s)
    BY DEF FuncNames, Funcs
<1>4. Legal' = Legal
    BY <1>3 DEF Legal, FuncLegal, DefineLegal, Scopes
<1> QED
    BY <1>1, <1>2, <1>4 DEF Ambiguous, Usable

(* What the properties say of the last lookup *)
LookupOK(l) ==
    /\ l.kind # "none" /\ ~Ambiguous(l.name) =>
           IF Usable(Meaning(l), l) THEN l.found = Meaning(l)
           ELSE \/ l.found = None
                \/ l.kind = "call" /\ Meaning(l) = None
    /\ l.found.class \in {"param", "const", "result", "block"}
             \/ (l.found.class = "var" /\ l.found.scope # 1)
           => l.found.scope = l.scope
    /\ l.kind = "var" /\ l.found.scope = l.scope /\ l.scope # 1 /\ l.found.class # "block"
           => l.found = Meaning(l)
    /\ l \in [kind : {"none", "var", "call"}, name : Name, scope : 0 .. Len(program),
              found : [class : Class, scope : 0 .. Len(program)]]

LEMMA LookupSays ==
    ASSUME TypeOK, LookupOK(last)
    PROVE  ResolvesAsChecked /\ LocalToFunction /\ LocalsBindRight
BY DEF LookupOK, ResolvesAsChecked, LocalToFunction, LocalsBindRight

LEMMA SaysLookup ==
    ASSUME ScopeInv
    PROVE  LookupOK(last)
BY DEF LookupOK, ScopeInv, ResolvesAsChecked, LocalToFunction, LocalsBindRight, TypeOK

LEMMA NoLookupOK == program \in Program => LookupOK(NoLookup)
<1> SUFFICES ASSUME program \in Program PROVE LookupOK(NoLookup)
    OBVIOUS
<1>1. 0 \in 0 .. Len(program) /\ "entry" \in Name
    BY ProgramType, NameAssumption
<1> QED
    BY <1>1 DEF LookupOK, NoLookup, None, Entity, Class

LEMMA VarLookup ==
    ASSUME TypeOK, program \in Program, NEW m, Generating(m), NEW n \in Name
    PROVE  LookupOK(Lookup("var", n, Value(n)))
<1> DEFINE l == Lookup("var", n, Value(n))
<1>1. l.kind = "var" /\ l.name = n /\ l.scope = Here /\ l.found = Value(n)
    BY DEF Lookup
<1>2. TablesInv(m) /\ CallsInv(m) /\ Legal
    BY DEF Generating
<1>3. Here \in Scopes /\ Here \in 0 .. Len(program) /\ Len(program) \in Nat /\ Here # 0
    BY <1>2, CurrentTable, ProgramType DEF Scopes
<1>4. l \in [kind : {"none", "var", "call"}, name : Name, scope : 0 .. Len(program),
             found : [class : Class, scope : 0 .. Len(program)]]
    BY <1>2, <1>3, ValueType DEF Lookup
<1>5. ~Ambiguous(n) => IF Usable(Meaning(l), l) THEN l.found = Meaning(l) ELSE l.found = None
    BY <1>2, VarAsChecked
<1>6. Value(n) = None \/ Value(n) = Entity("var", 1) \/ Value(n).scope = Here
    BY <1>2, ValueType
<1>7. l.found.scope = Here /\ Here # 1 /\ l.found.class # "block" => l.found = Meaning(l)
    BY <1>1, <1>2, BindsRight
<1> HIDE DEF l
<1>8. LookupOK(l)
    BY <1>1, <1>3, <1>4, <1>5, <1>6, <1>7 DEF LookupOK, None, Entity
<1> QED
    BY <1>8 DEF l

LEMMA CallLookup ==
    ASSUME TypeOK, program \in Program, NEW m, Generating(m), Waiting = {}, NEW n \in Name
    PROVE  LookupOK(Lookup("call", n, Function(n)))
<1> DEFINE l == Lookup("call", n, Function(n))
<1>1. l.kind = "call" /\ l.name = n /\ l.scope = Here /\ l.found = Function(n)
    BY DEF Lookup
<1>2. TablesInv(m) /\ CallsInv(m)
    BY DEF Generating
<1>3. Here \in 0 .. Len(program)
    BY <1>2, CurrentTable, ProgramType DEF Scopes
<1>4. l \in [kind : {"none", "var", "call"}, name : Name, scope : 0 .. Len(program),
             found : [class : Class, scope : 0 .. Len(program)]]
    BY <1>2, <1>3, ValueType DEF Lookup
<1>5. ~Ambiguous(n) => IF Usable(Meaning(l), l) THEN l.found = Meaning(l)
                       ELSE l.found = None \/ Meaning(l) = None
    BY <1>2, CallAsChecked
<1>6. Function(n).class \in {"none", "func"}
    BY <1>2, ValueType
<1> HIDE DEF l
<1>7. LookupOK(l)
    BY <1>1, <1>4, <1>5, <1>6 DEF LookupOK
<1> QED
    BY <1>7 DEF l
(* TypeOK without the last lookup *)
StateType ==
    LET Found == [class : Class, scope : 0 .. Len(program)] IN
    /\ program \in Seq(ScopeRecord)
    /\ phase \in {"parsed", "checked", "generating", "rejected", "aborted", "done"}
    /\ DOMAIN module \subseteq Name /\ module \in [DOMAIN module -> Found]
    /\ DOMAIN tables \subseteq Scopes
    /\ \A s \in DOMAIN tables : tables[s] \in [DOMAIN tables[s] -> Found]
    /\ curFn \in Scopes
    /\ calls \in Seq([scope : Scopes, caller : Scopes]) /\ calls # << >>
    /\ Running => curFn \in DOMAIN tables /\ Here \in DOMAIN tables

LEMMA StepOK ==
    ASSUME program' = program, StateType', PhaseInv', LookupOK(last')
    PROVE  ScopeInv'
<1>1. LookupOK(last)'
    BY SameProgram DEF LookupOK
<1>2. TypeOK'
    BY <1>1 DEF StateType, LookupOK, TypeOK
<1>3. (ResolvesAsChecked /\ LocalToFunction /\ LocalsBindRight)'
    BY <1>1, <1>2 DEF LookupOK, ResolvesAsChecked, LocalToFunction, LocalsBindRight
<1> QED
    BY <1>2, <1>3 DEF ScopeInv

LEMMA InvGives ==
    ASSUME ScopeInv
    PROVE  /\ TypeOK /\ StateType /\ PhaseInv /\ LookupOK(last) /\ program \in Program
           /\ Running => \E m \in Scopes : Generating(m)
<1>1. TypeOK /\ PhaseInv /\ LookupOK(last)
    BY SaysLookup DEF ScopeInv
<1>2. StateType
    BY <1>1 DEF TypeOK, StateType
<1>3. program \in Program
    BY <1>1 DEF PhaseInv
<1>4. Running => \E m \in Scopes : Generating(m)
    BY <1>1 DEF PhaseInv, Running, Generating
<1> QED
    BY <1>1, <1>2, <1>3, <1>4

(* The next function to be generated is the next one of the source. *)
LEMMA NextFunc ==
    ASSUME TypeOK, program \in Program, NEW m, Generating(m), Waiting # {}
    PROVE  /\ First(Waiting) = m + 1 /\ m \in Nat \ {0} /\ m + 1 \in Scopes \ {1}
           /\ program[m + 1].father = Here
<1> USE DEF Generating
<1>1. Here \in Scopes /\ Here <= m /\ m \in Nat \ {0} /\ Here \in Nat /\ Len(program) \in Nat
    BY CurrentTable, ProgramType DEF Scopes
<1>2. Waiting \subseteq Nat
    BY FuncsType DEF Waiting
<1> DEFINE f == First(Waiting)
<1>3. f \in Waiting /\ \A u \in Waiting : f <= u
    BY <1>2, FirstIs
<1>4. f \in Scopes \ {1} /\ program[f].father = Here /\ f \notin 1 .. m
    BY <1>3, FuncsType DEF Waiting, TablesInv
<1> HIDE DEF f
<1>5. f \in Nat /\ f >= m + 1
    BY <1>1, <1>4 DEF Scopes
<1>6. m + 1 \in Scopes \ {1}
    BY <1>1, <1>4, <1>5 DEF Scopes
<1>7. program[m + 1].father \in 1 .. m
    BY <1>1, <1>6, ProgramType DEF Scopes
<1>8. PICK k \in DOMAIN calls : calls[k].scope = program[m + 1].father
    <2>1. m + 1 \in Funcs(program[m + 1].father) /\ m + 1 \notin 1 .. m
        BY <1>1, <1>6 DEF Funcs, Scopes
    <2> QED
        BY <1>7, <2>1 DEF CallsInv
<1>9. f # m + 1 => program[m + 1].father >= Here
    <2>1. f # m + 1 => m + 1 \in program[f].father + 1 .. f - 1
        BY <1>1, <1>4, <1>5
    <2> QED
        BY <1>4, <2>1, ProgramType
<1>10. f # m + 1 => program[m + 1].father = Here
    <2>1. Len(calls) \in DOMAIN calls /\ k \in 1 .. Len(calls) /\ Len(calls) \in Nat
        BY DEF TypeOK
    <2>2. k # Len(calls) => calls[k].scope < calls[Len(calls)].scope
        BY <2>1 DEF CallsInv
    <2> QED
        BY <1>1, <1>7, <1>8, <1>9, <2>2 DEF Here
<1>11. f # m + 1 => m + 1 \in Waiting
    BY <1>1, <1>6, <1>10 DEF Waiting, Funcs, TablesInv, Scopes
<1>12. f = m + 1
    BY <1>1, <1>3, <1>5, <1>11
<1> QED
    BY <1>1, <1>4, <1>6, <1>12 DEF f

LEMMA CallsPushed ==
    ASSUME TypeOK, program \in Program, NEW m, Generating(m), EnterFunc
    PROVE  CallsInv(m + 1)'
<1>1. /\ First(Waiting) = m + 1 /\ m \in Nat \ {0} /\ m + 1 \in Scopes \ {1}
      /\ program[m + 1].father = Here
    BY NextFunc DEF EnterFunc
<1>2. /\ calls' = Append(calls, [scope |-> m + 1, caller |-> curFn])
      /\ curFn' = m + 1 /\ program' = program
    BY <1>1 DEF EnterFunc
<1>3. CallsInv(m) /\ Here <= m /\ Here \in Nat /\ curFn = Here
    BY CurrentTable DEF Generating, Scopes
<1> DEFINE n == Len(calls)
<1>4. /\ n \in Nat \ {0} /\ DOMAIN calls = 1 .. n /\ DOMAIN calls' = 1 .. n + 1
      /\ Len(calls') = n + 1 /\ Len(calls)' = n + 1
      /\ \A k \in 1 .. n : calls'[k] = calls[k]
      /\ calls'[n + 1].scope = m + 1 /\ calls'[n + 1].caller = Here
    BY <1>2, <1>3 DEF TypeOK
<1>5. Here = calls[n].scope
    BY DEF Here
<1> HIDE DEF n
<1>6. Here' = m + 1
    BY <1>4 DEF Here
<1>7. \A k \in 1 .. n : calls[k].scope \in 1 .. m /\ calls[k].scope <= Here
    <2> SUFFICES ASSUME NEW k \in 1 .. n
                 PROVE  calls[k].scope \in 1 .. m /\ calls[k].scope <= Here
        OBVIOUS
    <2>1. calls[k].scope \in 1 .. m
        BY <1>3, <1>4 DEF CallsInv
    <2>2. k # n => calls[k].scope < calls[n].scope
        BY <1>3, <1>4 DEF CallsInv
    <2> QED
        BY <1>1, <1>3, <1>5, <2>1, <2>2
<1>8. calls'[1].scope = 1
    BY <1>3, <1>4 DEF CallsInv
<1>9. \A k \in DOMAIN calls' : calls'[k].scope \in 1 .. m + 1
    BY <1>1, <1>4, <1>7
<1>10. \A k \in 2 .. Len(calls') : calls'[k].caller = calls'[k - 1].scope
    <2> SUFFICES ASSUME NEW k \in 2 .. n + 1 PROVE calls'[k].caller = calls'[k - 1].scope
        BY <1>4
    <2>1. CASE k = n + 1
        BY <1>4, <1>5, <2>1
    <2>2. CASE k # n + 1
        <3>1. k \in 2 .. n /\ k \in 1 .. n /\ k - 1 \in 1 .. n
            BY <1>4, <2>2
        <3>2. calls[k].caller = calls[k - 1].scope
            BY <1>3, <3>1 DEF CallsInv, n
        <3> QED
            BY <1>4, <3>1, <3>2
    <2> QED
        BY <2>1, <2>2
<1>11. \A j, k \in DOMAIN calls' : j < k => calls'[j].scope < calls'[k].scope
    <2> SUFFICES ASSUME NEW j \in 1 .. n + 1, NEW k \in 1 .. n + 1, j < k
                 PROVE  calls'[j].scope < calls'[k].scope
        BY <1>4
    <2>1. j \in 1 .. n /\ calls'[j] = calls[j]
        BY <1>4
    <2>2. CASE k = n + 1
        BY <1>1, <1>4, <1>7, <2>1, <2>2
    <2>3. CASE k # n + 1
        <3>1. k \in 1 .. n /\ calls'[k] = calls[k]
            BY <1>4, <2>3
        <3> QED
            BY <1>3, <1>4, <2>1, <3>1 DEF CallsInv
    <2> QED
        BY <2>2, <2>3
<1>12. \A s : Funcs(s)' = Funcs(s)
    BY <1>2, TablesKept
<1>13. \A s \in 1 .. m + 1 :
          Funcs(s) \subseteq 1 .. m + 1 \/ \E k \in DOMAIN calls' : calls'[k].scope = s
    <2> SUFFICES ASSUME NEW s \in 1 .. m + 1
                 PROVE  Funcs(s) \subseteq 1 .. m + 1 \/ \E k \in 1 .. n + 1 : calls'[k].scope = s
        BY <1>4
    <2>1. CASE s = m + 1
        BY <1>4, <2>1
    <2>2. CASE s # m + 1
        <3>1. Funcs(s) \subseteq 1 .. m \/ \E k \in 1 .. n : calls[k].scope = s
            BY <1>1, <1>3, <1>4, <2>2 DEF CallsInv
        <3>2. 1 .. m \subseteq 1 .. m + 1 /\ 1 .. n \subseteq 1 .. n + 1
            BY <1>1, <1>4
        <3> QED
            BY <1>4, <3>1, <3>2
    <2> QED
        BY <2>1, <2>2
<1>14. \A k \in DOMAIN calls' : \A t \in calls'[k].scope + 1 .. m + 1 :
          program[t].father >= calls'[k].scope
    <2> SUFFICES ASSUME NEW k \in 1 .. n + 1, NEW t \in calls'[k].scope + 1 .. m + 1
                 PROVE  program[t].father >= calls'[k].scope
        BY <1>4
    <2>1. CASE k = n + 1
        BY <1>1, <1>4, <2>1
    <2>2. CASE k # n + 1
        <3>1. k \in 1 .. n /\ calls'[k] = calls[k]
            BY <1>4, <2>2
        <3>2. t = m + 1 => program[t].father >= calls[k].scope
            BY <1>1, <1>3, <1>7, <3>1
        <3>3. t # m + 1 => t \in calls[k].scope + 1 .. m
            BY <1>1, <1>7, <3>1
        <3> QED
            BY <1>3, <1>4, <3>1, <3>2, <3>3 DEF CallsInv
    <2> QED
        BY <2>1, <2>2
<1> QED
    BY <1>2, <1>6, <1>8, <1>9, <1>10, <1>11, <1>12, <1>13, <1>14 DEF CallsInv

LEMMA CallsPopped ==
    ASSUME TypeOK, program \in Program, NEW m, Generating(m), LeaveFunc
    PROVE  CallsInv(m)' /\ calls' # << >>
<1> DEFINE n == Len(calls)
<1>1. /\ calls' = SubSeq(calls, 1, n - 1) /\ n > 1 /\ Waiting = {}
      /\ curFn' = calls[n].caller /\ program' = program
    BY DEF LeaveFunc
<1>2. /\ n \in Nat /\ DOMAIN calls = 1 .. n /\ DOMAIN calls' = 1 .. n - 1
      /\ Len(calls') = n - 1 /\ Len(calls)' = n - 1
      /\ \A k \in 1 .. n - 1 : calls'[k] = calls[k]
    BY <1>1 DEF TypeOK
<1>3. CallsInv(m) /\ Here = calls[n].scope /\ m \in Nat /\ DOMAIN tables = 1 .. m
    BY CurrentTable DEF Generating, Here, TablesInv
<1>4. \A k \in 2 .. n : calls[k].caller = calls[k - 1].scope
    BY <1>3 DEF CallsInv
<1> HIDE DEF n
<1>5. Here' = calls[n - 1].scope /\ curFn' = Here'
    <2>1. n \in 2 .. n /\ n - 1 \in 1 .. n - 1
        BY <1>1, <1>2
    <2> QED
        BY <1>1, <1>2, <1>4, <2>1 DEF Here
<1>6. 1 .. n - 1 \subseteq 1 .. n /\ 1 \in 1 .. n - 1
    BY <1>1, <1>2
<1>7. \A s : Funcs(s)' = Funcs(s)
    BY <1>1, TablesKept
<1>8. \A s \in 1 .. m : Funcs(s) \subseteq 1 .. m \/ \E k \in DOMAIN calls' : calls'[k].scope = s
    <2> SUFFICES ASSUME NEW s \in 1 .. m, ~(Funcs(s) \subseteq 1 .. m)
                 PROVE  \E k \in 1 .. n - 1 : calls'[k].scope = s
        BY <1>2
    <2>1. PICK k \in 1 .. n : calls[k].scope = s
        BY <1>2, <1>3 DEF CallsInv
    <2>2. k # n
        BY <1>1, <1>3, <2>1 DEF Waiting
    <2> QED
        BY <1>2, <2>1, <2>2
<1>9. \A k \in 2 .. Len(calls') : calls'[k].caller = calls'[k - 1].scope
    <2> SUFFICES ASSUME NEW k \in 2 .. n - 1 PROVE calls'[k].caller = calls'[k - 1].scope
        BY <1>2
    <2>1. k \in 2 .. n /\ k \in 1 .. n - 1 /\ k - 1 \in 1 .. n - 1
        BY <1>2
    <2> QED
        BY <1>2, <1>4, <2>1
<1>10. /\ calls'[1].scope = 1
       /\ \A k \in DOMAIN calls' : calls'[k].scope \in 1 .. m
       /\ \A j, k \in DOMAIN calls' : j < k => calls'[j].scope < calls'[k].scope
       /\ \A k \in DOMAIN calls' : \A t \in calls'[k].scope + 1 .. m :
              program[t].father >= calls'[k].scope
    BY <1>2, <1>3, <1>6 DEF CallsInv
<1>11. calls' # << >>
    BY <1>1, <1>2
<1>12. CallsInv(m)'
    BY <1>1, <1>5, <1>7, <1>8, <1>9, <1>10 DEF CallsInv
<1> QED
    BY <1>11, <1>12

LEMMA FuncTableType ==
    ASSUME program \in Program, NEW s \in Scopes
    PROVE  FuncTable(s) \in [DOMAIN FuncTable(s) -> [class : Class, scope : 0 .. Len(program)]]
<1>1. s \in 0 .. Len(program)
    BY ProgramType DEF Scopes
<1>2. \A n \in DOMAIN FuncTable(s) : FuncTable(s)[n] \in [class : Class, scope : 0 .. Len(program)]
    <2>1. \A n \in DOMAIN FuncTable(s) : \E c \in Class : FuncTable(s)[n] = Entity(c, s)
        BY FuncTableIs DEF Class
    <2>2. \A c \in Class : Entity(c, s) \in [class : Class, scope : 0 .. Len(program)]
        BY <1>1 DEF Entity
    <2> QED
        BY <2>1, <2>2
<1>3. FuncTable(s) = [n \in DOMAIN FuncTable(s) |-> FuncTable(s)[n]]
    BY DEF FuncTable, With
<1> QED
    BY <1>2, <1>3

LEMMA TablesPushed ==
    ASSUME TypeOK, program \in Program, NEW m, Generating(m), EnterFunc
    PROVE  TablesInv(m + 1)' /\ StateType'
<1> DEFINE f == m + 1
           Found == [class : Class, scope : 0 .. Len(program)]
<1>1. /\ First(Waiting) = f /\ m \in Nat \ {0} /\ f \in Scopes \ {1} /\ f \in Nat
      /\ program[f] \in ScopeRecord
    BY NextFunc, ProgramType DEF EnterFunc
<1>2. /\ module' = With(module, {program[f].name}, Entity("func", f))
      /\ tables' = [s \in DOMAIN tables \cup {f} |-> IF s = f THEN FuncTable(f) ELSE tables[s]]
      /\ calls' = Append(calls, [scope |-> f, caller |-> curFn])
      /\ curFn' = f /\ program' = program /\ phase' = phase
    BY <1>1 DEF EnterFunc
<1>3. TablesInv(m)
    BY DEF Generating
<1>4. /\ \A s : FuncTable(s)' = FuncTable(s)
      /\ MainTable' = MainTable /\ Scopes' = Scopes
    BY <1>2, TablesKept
<1>5. f \notin 1 .. m /\ 1 .. m + 1 = 1 .. m \cup {f} /\ 1 \in 1 .. m
    BY <1>1
<1>6. /\ DOMAIN tables' = 1 .. m + 1 /\ tables'[f] = FuncTable(f)
      /\ \A s \in 1 .. m : tables'[s] = tables[s]
    BY <1>2, <1>3, <1>5 DEF TablesInv
<1>7. /\ DOMAIN module' = DOMAIN module \cup {program[f].name}
      /\ \A n \in DOMAIN module : module'[n] = module[n]
      /\ program[f].name \notin DOMAIN module => module'[program[f].name] = Entity("func", f)
    BY <1>2 DEF With
<1>8. \A s \in 2 .. m + 1 : tables'[s] = FuncTable(s)
    <2>1. \A s \in 2 .. m + 1 : s = f \/ (s \in 2 .. m /\ s \in 1 .. m)
        BY <1>1
    <2>2. \A s \in 2 .. m : tables[s] = FuncTable(s)
        BY <1>3 DEF TablesInv
    <2> HIDE DEF f
    <2> QED
        BY <1>6, <2>1, <2>2
<1>9. program[1].vars \cup {program[g].name : g \in 2 .. m + 1} \subseteq DOMAIN module'
    <2>1. \A g \in 2 .. m + 1 : g = f \/ g \in 2 .. m
        BY <1>1
    <2> HIDE DEF f
    <2> QED
        BY <1>3, <1>7, <2>1 DEF TablesInv
<1>10. \A n \in DOMAIN module' :
          \/ module'[n] = Entity("var", 1) /\ n \in program[1].vars
          \/ n \in {"main", "printf"} /\ module'[n].class = "func"
          \/ \E g \in 2 .. m + 1 : module'[n] = Entity("func", g) /\ program[g].name = n
    <2> SUFFICES ASSUME NEW n \in DOMAIN module'
                 PROVE  \/ module'[n] = Entity("var", 1) /\ n \in program[1].vars
                        \/ n \in {"main", "printf"} /\ module'[n].class = "func"
                        \/ \E g \in 2 .. m + 1 : module'[n] = Entity("func", g) /\ program[g].name = n
        OBVIOUS
    <2>1. f \in 2 .. m + 1 /\ 2 .. m \subseteq 2 .. m + 1
        BY <1>1
    <2>2. CASE n \in DOMAIN module
        <3>1. \/ module[n] = Entity("var", 1) /\ n \in program[1].vars
              \/ n \in {"main", "printf"} /\ module[n].class = "func"
              \/ \E g \in 2 .. m : module[n] = Entity("func", g) /\ program[g].name = n
            BY <1>3, <2>2 DEF TablesInv
        <3>2. module'[n] = module[n]
            BY <1>7, <2>2
        <3> HIDE DEF f
        <3> QED
            BY <2>1, <3>1, <3>2
    <2>3. CASE n \notin DOMAIN module
        <3>1. n = program[f].name /\ module'[n] = Entity("func", f)
            BY <1>7, <2>3
        <3> QED
            BY <2>1, <3>1
    <2> QED
        BY <2>2, <2>3
<1>11. TablesInv(m + 1)'
    <2>1. tables'[1] = MainTable
        BY <1>3, <1>5, <1>6 DEF TablesInv
    <2>2. m + 1 \in Scopes'
        BY <1>1, <1>4
    <2>3. DOMAIN tables' = 1 .. m + 1
        BY <1>6
    <2>4. tables'[1] = MainTable' /\ \A s \in 2 .. m + 1 : tables'[s] = FuncTable(s)'
        BY <1>4, <1>8, <2>1
    <2>5. (program[1].vars \cup {program[g].name : g \in 2 .. m + 1} \subseteq DOMAIN module)'
        BY <1>2, <1>9
    <2>6. (\A n \in DOMAIN module :
              \/ module[n] = Entity("var", 1) /\ n \in program[1].vars
              \/ n \in {"main", "printf"} /\ module[n].class = "func"
              \/ \E g \in 2 .. m + 1 : module[n] = Entity("func", g) /\ program[g].name = n)'
        BY <1>2, <1>10
    <2> HIDE DEF f
    <2> QED
        BY <2>2, <2>3, <2>4, <2>5, <2>6 DEF TablesInv
<1>12. StateType'
    <2>1. DOMAIN module' \subseteq Name /\ module' \in [DOMAIN module' -> Found]
        <3>1. program[f].name \in Name /\ Entity("func", f) \in Found
            BY <1>1 DEF ScopeRecord, Entity, Class, Scopes
        <3>2. DOMAIN module \subseteq Name /\ \A n \in DOMAIN module : module[n] \in Found
            BY DEF TypeOK
        <3>3. module' = [n \in DOMAIN module' |-> module'[n]]
            BY <1>2 DEF With
        <3>4. \A n \in DOMAIN module' : module'[n] \in Found
            BY <1>7, <3>1, <3>2
        <3> HIDE DEF Found
        <3> QED
            BY <1>7, <3>1, <3>2, <3>3, <3>4
    <2>2. \A s \in DOMAIN tables' : tables'[s] \in [DOMAIN tables'[s] -> Found]
        <3>1. FuncTable(f) \in [DOMAIN FuncTable(f) -> Found]
            BY <1>1, FuncTableType
        <3>2. \A s \in DOMAIN tables : tables[s] \in [DOMAIN tables[s] -> Found]
            BY DEF TypeOK
        <3> HIDE DEF Found, f
        <3> QED
            BY <1>2, <3>1, <3>2
    <2>3. DOMAIN tables' \subseteq Scopes
        BY <1>1, <1>2 DEF TypeOK
    <2>4. [scope |-> f, caller |-> curFn] \in [scope : Scopes, caller : Scopes]
        BY <1>1 DEF TypeOK
    <2>5. calls' \in Seq([scope : Scopes, caller : Scopes]) /\ calls' # << >>
          /\ calls'[Len(calls')].scope = f
        BY <1>2, <2>4 DEF TypeOK
    <2>6. Here' = f
        BY <2>5 DEF Here
    <2>7. f \in DOMAIN tables'
        BY <1>2
    <2> HIDE DEF f
    <2> QED
        BY <1>1, <1>2, <1>4, <2>1, <2>2, <2>3, <2>5, <2>6, <2>7 DEF StateType, TypeOK
<1> QED
    BY <1>11, <1>12

LEMMA EnterStep ==
    ASSUME ScopeInv, EnterFunc
    PROVE  ScopeInv'
<1>1. TypeOK /\ PhaseInv /\ program \in Program
    BY InvGives
<1>2. PICK m \in Scopes : Generating(m)
    BY InvGives DEF EnterFunc
<1>3. program' = program /\ phase' = phase /\ last' = NoLookup /\ phase = "generating"
    BY DEF EnterFunc, Running
<1>4. TablesInv(m + 1)' /\ CallsInv(m + 1)' /\ StateType' /\ m + 1 \in Scopes
    BY <1>1, <1>2, TablesPushed, CallsPushed, NextFunc DEF EnterFunc
<1>5. Legal' /\ Scopes' = Scopes
    BY <1>1, <1>3, SameProgram, TablesKept DEF PhaseInv
<1>6. PhaseInv'
    BY <1>1, <1>3, <1>4, <1>5 DEF PhaseInv, Running
<1>7. LookupOK(last')
    BY <1>1, <1>3, NoLookupOK
<1> QED
    BY <1>3, <1>4, <1>6, <1>7, StepOK

LEMMA DefineStep ==
    ASSUME ScopeInv, DefineProgram
    PROVE  ScopeInv'
<1> DEFINE Found == [class : Class, scope : 0 .. Len(program)]
           M == With(With(Empty, {"main"}, Entity("func", 1)), {"printf"}, Printf)
<1>1. TypeOK /\ StateType /\ PhaseInv /\ program \in Program /\ LookupOK(last)
    BY InvGives
<1>2. /\ program' = program /\ phase' = "generating" /\ last' = last
      /\ calls' = calls /\ curFn' = 1 /\ calls = <<[scope |-> 1, caller |-> 1]>>
      /\ module' = With(M, program[1].vars, Entity("var", 1))
      /\ tables' = [s \in {1} |-> MainTable]
    BY <1>1 DEF DefineProgram, PhaseInv, MainTable
<1>3. 1 \in Scopes /\ program[1] \in ScopeRecord /\ 1 \in 0 .. Len(program) /\ 0 \in 0 .. Len(program)
    BY <1>1, ProgramType DEF Scopes
<1>4. /\ DOMAIN M = {"main", "printf"}
      /\ \A n \in {"main", "printf"} : M[n] \in {Entity("func", 1), Printf}
    BY DEF With, Empty
<1>5. \A n \in {"main", "printf"} : M[n].class = "func" /\ M[n] \in Found
    BY <1>3, <1>4 DEF Entity, Printf, Class
<1> HIDE DEF M
<1>6. /\ DOMAIN module' = {"main", "printf"} \cup program[1].vars
      /\ \A n \in DOMAIN module' : IF n \in {"main", "printf"} THEN module'[n] = M[n]
                                   ELSE module'[n] = Entity("var", 1)
      /\ module' = [n \in DOMAIN module' |-> module'[n]]
    BY <1>2, <1>4 DEF With
<1>7. Here' = 1 /\ DOMAIN calls' = {1} /\ calls'[1].scope = 1 /\ Len(calls') = 1
      /\ Len(calls)' = 1
    BY <1>2 DEF Here
<1>8. MainTable' = MainTable /\ Scopes' = Scopes /\ Legal' = Legal
    BY <1>2, SameProgram, TablesKept
<1>9. TablesInv(1)'
    <2>1. DOMAIN tables' = 1 .. 1 /\ tables'[1] = MainTable /\ 2 .. 1 = {}
        BY <1>2
    <2> QED
        BY <1>2, <1>3, <1>5, <1>6, <1>8, <2>1 DEF TablesInv
<1>10. CallsInv(1)'
    BY <1>2, <1>7 DEF CallsInv
<1>11. StateType'
    <2>1. DOMAIN module' \subseteq Name /\ module' \in [DOMAIN module' -> Found]
        <3>1. program[1].vars \subseteq Name /\ {"main", "printf"} \subseteq Name
            BY <1>3, NameAssumption DEF ScopeRecord
        <3>2. Entity("var", 1) \in Found
            BY <1>3 DEF Entity, Class
        <3>3. \A n \in DOMAIN module' : module'[n] \in Found
            BY <1>5, <1>6, <3>2
        <3> HIDE DEF Found
        <3> QED
            BY <1>6, <3>1, <3>3
    <2>2. MainTable \in [DOMAIN MainTable -> Found]
        <3>1. \A n \in DOMAIN MainTable : MainTable[n] \in Found
            BY <1>3, MainTableIs DEF Entity, Class
        <3>2. MainTable = [n \in DOMAIN MainTable |-> MainTable[n]]
            BY DEF MainTable, With
        <3> QED
            BY <3>1, <3>2
    <2> HIDE DEF Found
    <2>3. \A s \in DOMAIN tables' : tables'[s] \in [DOMAIN tables'[s] -> Found]
        BY <1>2, <2>2
    <2>4. DOMAIN tables' = {1}
        BY <1>2
    <2>5. program \in Seq(ScopeRecord) /\ calls \in Seq([scope : Scopes, caller : Scopes]) /\ calls # << >>
        BY <1>1 DEF StateType
    <2> QED
        BY <1>2, <1>3, <1>7, <1>8, <2>1, <2>3, <2>4, <2>5 DEF StateType, Found
<1>12. PhaseInv'
    <2>1. Legal
        BY <1>1 DEF PhaseInv, DefineProgram
    <2> QED
        BY <1>1, <1>2, <1>3, <1>8, <1>9, <1>10, <2>1 DEF PhaseInv
<1> QED
    BY <1>1, <1>2, <1>11, <1>12, StepOK

LEMMA LeaveStep ==
    ASSUME ScopeInv, LeaveFunc
    PROVE  ScopeInv'
<1>1. TypeOK /\ StateType /\ PhaseInv /\ program \in Program
    BY InvGives
<1>2. PICK m \in Scopes : Generating(m)
    BY InvGives DEF LeaveFunc
<1>3. /\ program' = program /\ phase' \in {"generating", "aborted"} /\ module' = module
      /\ tables' = tables /\ curFn' = calls[Len(calls)].caller
      /\ Waiting = {} /\ Here \in Scopes
    BY <1>1, <1>2, CurrentTable DEF LeaveFunc, Running, Generating
<1>4. CallsInv(m)' /\ calls' # << >>
    BY <1>1, <1>2, CallsPopped
<1>5. TablesInv(m)'
    <2>1. /\ \A s : FuncTable(s)' = FuncTable(s)
          /\ MainTable' = MainTable /\ Scopes' = Scopes
        BY <1>3, TablesKept
    <2> QED
        BY <1>2, <1>3, <2>1 DEF TablesInv, Generating
<1>6. LookupOK(last')
    <2>1. program[Here].name \in Name
        BY <1>1, <1>3, ProgramType DEF ScopeRecord
    <2>2. last' = NoLookup
          \/ last' = Lookup("var", program[Here].name, Value(program[Here].name))
        BY DEF LeaveFunc
    <2> QED
        BY <1>1, <1>2, <2>1, <2>2, NoLookupOK, VarLookup
<1>7. Legal' /\ Scopes' = Scopes
    BY <1>1, <1>3, SameProgram, TablesKept DEF PhaseInv, LeaveFunc, Running
<1>8. PhaseInv'
    BY <1>1, <1>3, <1>4, <1>5, <1>7 DEF PhaseInv, Running
<1>9. StateType'
    <2>1. calls' \in Seq([scope : Scopes, caller : Scopes])
        <3> DEFINE C == [scope : Scopes, caller : Scopes]
        <3>1. calls \in Seq(C) /\ Len(calls) \in Nat /\ Len(calls) > 1
              /\ calls' = SubSeq(calls, 1, Len(calls) - 1)
            BY <1>1 DEF StateType, LeaveFunc
        <3> HIDE DEF C
        <3>2. \A i \in 1 .. Len(calls) - 1 : calls[i] \in C
            BY <3>1
        <3>3. SubSeq(calls, 1, Len(calls) - 1) \in Seq(C)
            BY <3>1, <3>2, SubSeqProperties
        <3> QED
            BY <3>1, <3>3 DEF C
    <2>2. curFn' \in Scopes
        <3>1. calls \in Seq([scope : Scopes, caller : Scopes]) /\ Len(calls) \in 1 .. Len(calls)
            BY <1>1 DEF StateType, LeaveFunc
        <3>2. \A C : calls \in Seq(C) => calls[Len(calls)] \in C
            BY <3>1
        <3>3. calls[Len(calls)] \in [scope : Scopes, caller : Scopes]
            BY <3>1, <3>2
        <3> QED
            BY <1>3, <3>3
    <2>3. Here' \in 1 .. m /\ curFn' = Here' /\ DOMAIN tables' = 1 .. m
        <3>1. Len(calls') \in DOMAIN calls'
            BY <1>4, <2>1
        <3> QED
            BY <1>4, <1>5, <3>1 DEF CallsInv, TablesInv, Here
    <2> QED
        BY <1>1, <1>3, <1>4, <1>7, <2>1, <2>2, <2>3 DEF StateType
<1> QED
    BY <1>3, <1>6, <1>8, <1>9, StepOK

(* A step that changes nothing but the phase and the last lookup *)
LEMMA QuietStep ==
    ASSUME ScopeInv, LookupOK(last'), UNCHANGED <<program, module, tables, curFn, calls>>,
           \/ phase' = phase
           \/ phase = "parsed" /\ phase' = "checked" /\ Legal
           \/ phase' \in {"rejected", "aborted", "done"}
    PROVE  ScopeInv'
<1>1. TypeOK /\ StateType /\ PhaseInv /\ program \in Program
    BY InvGives
<1>2. /\ program' = program
      /\ \A s : FuncTable(s)' = FuncTable(s)
      /\ MainTable' = MainTable /\ Scopes' = Scopes /\ Legal' = Legal
      /\ \A s : Funcs(s)' = Funcs(s)
    BY SameProgram, TablesKept
<1>3. Here' = Here /\ Len(calls)' = Len(calls)
    BY DEF Here
<1>4. \A m : TablesInv(m)' <=> TablesInv(m)
    BY <1>2 DEF TablesInv
<1>5. \A m : CallsInv(m)' <=> CallsInv(m)
    BY <1>2, <1>3 DEF CallsInv
<1>6. StateType'
    BY <1>1, <1>2, <1>3 DEF StateType, Running
<1>7. PhaseInv'
    BY <1>1, <1>2, <1>4, <1>5 DEF PhaseInv, Running
<1> QED
    BY <1>2, <1>6, <1>7, StepOK

LEMMA ScopeInit == Init => ScopeInv
<1> SUFFICES ASSUME Init PROVE ScopeInv
    OBVIOUS
<1>1. program \in Program /\ program \in Seq(ScopeRecord) /\ 1 \in Scopes
    BY ProgramType, ProgramAssumption DEF Init
<1>2. LookupOK(last)
    BY <1>1, NoLookupOK DEF Init
<1>3. PhaseInv
    BY DEF Init, PhaseInv, Running
<1>4. StateType
    BY <1>1 DEF Init, StateType, Empty, Running
<1>5. TypeOK
    BY <1>2, <1>4 DEF StateType, LookupOK, TypeOK
<1> QED
    BY <1>2, <1>3, <1>5, LookupSays DEF ScopeInv

LEMMA ScopeStep == ScopeInv /\ [Next]_vars => ScopeInv'
<1> SUFFICES ASSUME ScopeInv, [Next]_vars PROVE ScopeInv'
    OBVIOUS
<1>1. TypeOK /\ program \in Program /\ LookupOK(last)
    BY InvGives
<1>2. LookupOK(NoLookup)
    BY <1>1, NoLookupOK
<1>3. CASE Check
    BY <1>1, <1>3, QuietStep DEF Check
<1>4. CASE DefineProgram
    BY <1>4, DefineStep
<1>5. CASE EnterFunc
    BY <1>5, EnterStep
<1>6. CASE Resolve \/ ResolveUnchecked
    <2>1. PICK m \in Scopes : Generating(m)
        BY <1>6, InvGives DEF Resolve, ResolveUnchecked
    <2>2. PICK n \in Name : \/ last' = Lookup("var", n, Value(n))
                            \/ last' = Lookup("call", n, Function(n))
        BY <1>6 DEF Resolve, ResolveUnchecked
    <2>3. Waiting = {}
        BY <1>6 DEF Resolve, ResolveUnchecked
    <2>4. LookupOK(last')
        BY <1>1, <2>1, <2>2, <2>3, VarLookup, CallLookup
    <2> QED
        BY <1>6, <2>4, QuietStep DEF Resolve, ResolveUnchecked, LookedUp
<1>7. CASE LeaveFunc
    BY <1>7, LeaveStep
<1>8. CASE FinishProgram
    BY <1>2, <1>8, QuietStep DEF FinishProgram
<1>9. CASE Stopped \/ UNCHANGED vars
    BY <1>1, <1>9, QuietStep DEF Stopped, vars
<1> QED
    BY <1>3, <1>4, <1>5, <1>6, <1>7, <1>8, <1>9 DEF Next
--------------------------------------------------------------------------------
(* The theorems *)

LEMMA ScopeInvariant == Spec => []ScopeInv
BY ScopeInit, ScopeStep, PTL DEF Spec

(* Code generation, which looks into LLVM's symbol tables in the middle of *)
(* nested functions, finds under a name declared once what findName of     *)
(* tree.cpp found, and finds it wherever it can be used, for every program *)
(* (VALUERETGET, codegen.cpp:16-29; FuncDef, codegen.cpp:232-329).         *)
THEOREM NamesResolveAsChecked == Spec => []ResolvesAsChecked
<1>1. ScopeInv => ResolvesAsChecked
    BY DEF ScopeInv
<1> QED
    BY <1>1, ScopeInvariant, PTL

(* No instruction uses a local entity of another function: CURRENCTFUNCION *)
(* is right again after any nesting of functions.                          *)
THEOREM NamesLocalToFunction == Spec => []LocalToFunction
<1>1. ScopeInv => LocalToFunction
    BY DEF ScopeInv
<1> QED
    BY <1>1, ScopeInvariant, PTL

(* What a function finds in its own table is what the checker found there, *)
(* however its names are chosen: FuncDef::SEMANT_CHECK_LEGAL accepts no    *)
(* declarations that compete.                                              *)
THEOREM NamesBindRight == Spec => []LocalsBindRight
<1>1. ScopeInv => LocalsBindRight
    BY DEF ScopeInv
<1> QED
    BY <1>1, ScopeInvariant, PTL
================================================================================
