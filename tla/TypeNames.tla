------------------------------- MODULE TypeNames -------------------------------
(***************************************************************************)
(* Types in declarations: the objects the actions of src/parser.y make of  *)
(* them, and what the rest of the compiler reads out of these objects.     *)
(*                                                                         *)
(* The parser knows type names from one vector, `tmp', which it replaces   *)
(* at the end of each type section, whatever function that is in.  A name  *)
(* stands for the object itself, not for a copy, and an array type is the  *)
(* object of its index with the element type added: objects are shared and *)
(* change after they were declared.                                        *)
(*                                                                         *)
(* Next to the object goes a term, what the declaration says by the rules  *)
(* of Pascal: a name means its definition in the nearest scope around.     *)
(* `careful' is whether the declarations so far avoided what makes objects *)
(* differ from terms.                                                      *)
(***************************************************************************)
EXTENDS Integers, Sequences, FiniteSets

CONSTANTS
    Name,           \* identifiers used for types
    Base,           \* types that are keywords, of int, real, char, bool, string
    Subranges,      \* the subranges, pairs of literals
    MaxObjects,     \* bounds: objects,
    MaxLength,      \* declarations in the program,
    MaxScopes,      \* nesting of scopes,
    MaxBuild,       \* parts of a type that are parsed but not yet combined,
    Wide            \* number of values of uint64_t

ASSUME BaseAssumption  == Base \subseteq {"int", "real", "char", "bool", "string"}
ASSUME BoundAssumption == {MaxObjects, MaxLength, MaxScopes, MaxBuild, Wide} \subseteq Nat

(* Literals are of type int, which has fewer values than uint64_t. *)
ASSUME SubrangeAssumption ==
    /\ Subranges \subseteq Nat \X Nat
    /\ \A r \in Subranges : r[2] + 1 < Wide

VARIABLES
    heap,       \* the Type objects
    tmp,        \* the parser's vector of type definitions
    section,    \* definitions of the type section that is being parsed
    build,      \* semantic values of the type that is being parsed
    open,       \* the scopes whose declarations are being parsed
    declared,   \* variables and parameters so far
    length,     \* number of declarations so far, functions among them
    careful,
    status      \* parsing, parsed, or the name that ended the parser

typeVars == <<heap, tmp, section, build, open, declared, length, careful, status>>
--------------------------------------------------------------------------------
(* Objects and terms *)

Object(base, lo, hi, child) == [base |-> base, lo |-> lo, hi |-> hi, child |-> child]
Objects == 1 .. Len(heap)

(* A term is an element with the array dimensions around it, outside in.  *)
Type(of)      == [dims |-> << >>, of |-> of]
Scalar(base)  == Type([kind |-> "scalar", base |-> base])
Subrange(r)   == Type([kind |-> "range", range |-> r])
Record        == Type([kind |-> "record"])
Nonsense      == Type([kind |-> "nonsense"])
Array(r, w)   == [dims |-> <<r>> \o w.dims, of |-> w.of]

(* A semantic value of the parser; `easy' is its category in the grammar.  *)
Value(type, easy, want) == [type |-> type, easy |-> easy, want |-> want]
Definition(n, v)        == [name |-> n, type |-> v.type, want |-> v.want]

(* What readers follow: the first element type of an array, the fields of  *)
(* a record, the type of a field; nothing in a scalar, even if it served   *)
(* as the index of an array and got element types.                         *)
Parts(o) ==
    CASE heap[o].base \in Base  -> {}
      [] heap[o].base = "array" -> {heap[o].child[i] : i \in DOMAIN heap[o].child \cap {1}}
      [] OTHER                  -> {heap[o].child[i] : i \in DOMAIN heap[o].child}

(* The objects a type leads to, itself included. *)
Follows(S) == \A o \in S : Parts(o) \subseteq S
Reach(t)   == {o \in Objects : \A S \in SUBSET Objects : t \in S /\ Follows(S) => o \in S}

Acyclic(t) == \A o \in Reach(t) : \A c \in Parts(o) : o \notin Reach(c)
Sound      == {o \in Objects : Acyclic(o)}

Bounds(o)  == <<heap[o].lo, heap[o].hi>>

(* What a reader of the object sees. *)
IsArray(o) == heap[o].base = "array" /\ heap[o].child # << >>

Element(o) ==
    CASE heap[o].base = "array"  -> Subrange(Bounds(o))
      [] heap[o].base = "record" -> Record
      [] OTHER                   -> Scalar(heap[o].base)

Term(t) ==
    LET term[o \in Sound] == IF IsArray(o) THEN Array(Bounds(o), term[heap[o].child[1]]) ELSE Element(o)
    IN  term[t]
--------------------------------------------------------------------------------
(* The parser *)

Last(s)  == s[Len(s)]
Front(s) == SubSeq(s, 1, Len(s) - 1)
Part     == Last(open).part

Scope(part, types) == [part |-> part, types |-> types]

TypesInit ==
    /\ heap = << >> /\ tmp = << >> /\ section = << >> /\ build = << >>
    /\ open = <<Scope("types", << >>)>>
    /\ declared = {}
    /\ length = 0
    /\ careful = TRUE
    /\ status = "parsing"

(* What a name means: findType, which nothing calls, has the same rule.    *)
Visible(n) ==
    {d \in (1 .. Len(open)) \X (1 .. MaxObjects) :
        d[2] \in DOMAIN open[d[1]].types /\ open[d[1]].types[d[2]].name = n}

Meaning(n) ==
    LET d == CHOOSE d \in Visible(n) :
                 \A e \in Visible(n) : e[1] < d[1] \/ (e[1] = d[1] /\ e[2] >= d[2])
    IN  open[d[1]].types[d[2]]

(* A value may be put on another if that is the index of an array; there   *)
(* are no arrays and records in the heads of functions.                    *)
MayBuild(n) ==
    /\ status = "parsing"
    /\ length < MaxLength
    /\ Len(build) < MaxBuild
    /\ build # << >> => Last(build).easy /\ Part # "funcs"
    /\ Len(heap) + n <= MaxObjects

Push(v) == build' = Append(build, v)

SystemType(b) ==
    /\ MayBuild(1)
    /\ heap' = Append(heap, Object(b, 0, 0, << >>))
    /\ Push(Value(Len(heap) + 1, TRUE, Scalar(b)))
    /\ UNCHANGED <<tmp, section, open, declared, length, careful, status>>

(* Mutant: start and end of the subrange are swapped. *)
RangeTypeSwapped(r) ==
    /\ MayBuild(1)
    /\ heap' = Append(heap, Object("array", r[2], r[1], << >>))
    /\ Push(Value(Len(heap) + 1, TRUE, Subrange(r)))
    /\ UNCHANGED <<tmp, section, open, declared, length, careful, status>>

RangeType(r) ==
    /\ MayBuild(1)
    /\ heap' = Append(heap, Object("array", r[1], r[2], << >>))
    /\ Push(Value(Len(heap) + 1, TRUE, Subrange(r)))
    /\ UNCHANGED <<tmp, section, open, declared, length, careful, status>>

Entries(n) == {i \in DOMAIN tmp : tmp[i].name = n}

(* The loop does not stop at the first that matches. *)
NamedType(n) ==
    /\ MayBuild(0)
    /\ \E i \in Entries(n) :
        /\ \A j \in Entries(n) : j <= i
        /\ LET right == Visible(n) # {} /\ Meaning(n).type = tmp[i].type IN
            /\ Push(Value(tmp[i].type, TRUE, IF Visible(n) # {} THEN Meaning(n).want ELSE Nonsense))
            /\ careful' = (careful /\ right)
    /\ UNCHANGED <<heap, tmp, section, open, declared, length, status>>

UndefinedType(n) ==
    /\ MayBuild(0)
    /\ Entries(n) = {}
    /\ status' = n
    /\ UNCHANGED <<heap, tmp, section, build, open, declared, length, careful>>

(* Mutant: the newest element type comes first. *)
WithElementFirst(o, el) == [o EXCEPT !.child = <<el>> \o @]

WithElement(o, el) == [o EXCEPT !.child = Append(@, el)]

IsSubrange(w) == w.dims = << >> /\ w.of.kind = "range"

(* The object of the index becomes the array. *)
ArrayType ==
    /\ status = "parsing" /\ Len(build) >= 2
    /\ LET ix == build[Len(build) - 1]
           el == Last(build)
           o  == heap[ix.type]
       IN  /\ heap' = [heap EXCEPT ![ix.type] = WithElement(o, el.type)]
           /\ build' = Append(Front(Front(build)),
                              Value(ix.type, FALSE,
                                    IF IsSubrange(ix.want) THEN Array(ix.want.of.range, el.want) ELSE Nonsense))
           /\ careful' =
                  /\ careful
                  /\ Acyclic(el.type) /\ ix.type \notin Reach(el.type)
                  /\ o.child # << >> => Term(o.child[1]) = Term(el.type)
    /\ UNCHANGED <<tmp, section, open, declared, length, status>>

(* A field is an object of its own, whose base type nothing sets. *)
RecordType ==
    /\ status = "parsing" /\ Part # "funcs" /\ build # << >>
    /\ Len(heap) + 2 <= MaxObjects
    /\ heap' = heap \o <<Object("unset", 0, 0, <<Last(build).type>>),
                         Object("record", 0, 0, <<Len(heap) + 1>>)>>
    /\ build' = Append(Front(build), Value(Len(heap) + 2, FALSE, Record))
    /\ UNCHANGED <<tmp, section, open, declared, length, careful, status>>

Define(n) ==
    /\ status = "parsing" /\ Part = "types" /\ Len(build) = 1
    /\ section' = Append(section, Definition(n, build[1]))
    /\ open' = [open EXCEPT ![Len(open)].types = Append(@, Definition(n, build[1]))]
    /\ build' = << >>
    /\ length' = length + 1
    /\ UNCHANGED <<heap, tmp, declared, careful, status>>

EndTypes ==
    /\ status = "parsing" /\ Part = "types" /\ build = << >>
    /\ tmp' = IF section = << >> THEN tmp ELSE section
    /\ section' = << >>
    /\ open' = [open EXCEPT ![Len(open)].part = "vars"]
    /\ UNCHANGED <<heap, build, declared, length, careful, status>>

Variable(v, global) == [type |-> v.type, want |-> v.want, global |-> global]

DeclareVar ==
    /\ status = "parsing" /\ Part = "vars" /\ Len(build) = 1
    /\ declared' = declared \cup {Variable(build[1], Len(open) = 1)}
    /\ build' = << >>
    /\ length' = length + 1
    /\ UNCHANGED <<heap, tmp, section, open, careful, status>>

EndVars ==
    /\ status = "parsing" /\ Part = "vars" /\ build = << >>
    /\ open' = [open EXCEPT ![Len(open)].part = "funcs"]
    /\ UNCHANGED <<heap, tmp, section, build, declared, length, careful, status>>

(* Types in the head of a function belong to the scope around it. *)
Param ==
    /\ status = "parsing" /\ Part = "funcs" /\ Len(build) = 1
    /\ declared' = declared \cup {Variable(build[1], FALSE)}
    /\ build' = << >>
    /\ length' = length + 1
    /\ UNCHANGED <<heap, tmp, section, open, careful, status>>

EnterFunc ==
    /\ status = "parsing" /\ Part = "funcs" /\ build = << >>
    /\ Len(open) < MaxScopes /\ length < MaxLength
    /\ open' = Append(open, Scope("types", << >>))
    /\ length' = length + 1
    /\ UNCHANGED <<heap, tmp, section, build, declared, careful, status>>

LeaveFunc ==
    /\ status = "parsing" /\ Part = "funcs" /\ build = << >>
    /\ Len(open) > 1
    /\ open' = Front(open)
    /\ UNCHANGED <<heap, tmp, section, build, declared, length, careful, status>>

Finish ==
    /\ status = "parsing" /\ Part = "funcs" /\ build = << >>
    /\ Len(open) = 1
    /\ status' = "parsed"
    /\ UNCHANGED <<heap, tmp, section, build, open, declared, length, careful>>

TypesStopped == status # "parsing" /\ UNCHANGED typeVars

TypeExpression ==
    \/ \E b \in Base : SystemType(b)
    \/ \E r \in Subranges : RangeType(r)
    \/ \E n \in Name : NamedType(n) \/ UndefinedType(n)
    \/ ArrayType
    \/ RecordType

Declaration ==
    \/ \E n \in Name : Define(n)
    \/ EndTypes \/ DeclareVar \/ EndVars \/ Param
    \/ EnterFunc \/ LeaveFunc \/ Finish

TypesNext == TypeExpression \/ Declaration \/ TypesStopped

TypesSpec == TypesInit /\ [][TypesNext]_typeVars
--------------------------------------------------------------------------------
(* The readers of the objects *)

(* Mutant: off by one. *)
CountWithoutLast(lo, hi) == (hi - lo) % Wide

(* The number of elements, as the unsigned argument of ArrayType::get. *)
Count(lo, hi) == (hi - lo + 1) % Wide

Undefined          == "undefined"
LLVMType(of)       == [dims |-> << >>, of |-> of]
LLVMArray(n, type) == [dims |-> <<n>> \o type.dims, of |-> type.of]

(* LLVMTYPERET.  A string type runs into the uninitialised parent of the   *)
(* block, an incomplete array into an element that does not exist, a field *)
(* into its unset base type.                                               *)
LLVMTYPERET(t) ==
    LET llvm[o \in Sound] ==
            IF IsArray(o) THEN LLVMArray(Count(heap[o].lo, heap[o].hi), llvm[heap[o].child[1]])
            ELSE LLVMType(IF heap[o].base \in {"int", "real", "char", "bool"} THEN heap[o].base ELSE Undefined)
    IN  llvm[t]

(* Mutant: the ends of the arrays are not compared. *)
isSameTypeAnyEnd(t, u) ==
    LET same[p \in Sound \X Sound] ==
            LET x == heap[p[1]]
                y == heap[p[2]]
            IN  /\ x.base = y.base
                /\ x.base \in {"int", "char", "real", "bool", "array"}
                /\ x.base = "array" => x.child # << >> /\ y.child # << >> /\ same[<<x.child[1], y.child[1]>>]
    IN  same[<<t, u>>]

(* isSameType.  Records are the same if the garbage in their fields says   *)
(* so.                                                                     *)
isSameType(t, u) ==
    LET same[p \in Sound \X Sound] ==
            LET x == heap[p[1]]
                y == heap[p[2]]
            IN  /\ x.base = y.base
                /\ x.base \in {"int", "char", "real", "bool", "array"}
                /\ x.base = "array" =>
                       /\ x.hi - y.lo = y.hi - y.lo
                       /\ x.child # << >> /\ y.child # << >>
                       /\ same[<<x.child[1], y.child[1]>>]
    IN  same[<<t, u>>]

(* VarDef::PascalCodeCreate: whether the variable gets its storage, for a  *)
(* global with an initial value of its type.                               *)
Defined(t, global) ==
    LET o == heap[t] IN
    CASE global /\ o.base = "array" ->
             o.child # << >> /\ heap[o.child[1]].base \in {"int", "real", "char"}
      [] global /\ o.base # "array" -> o.base \in {"int", "real"}
      [] OTHER -> LLVMTYPERET(t).of # Undefined
--------------------------------------------------------------------------------
(* Properties *)

(* What a declaration can say, and what has a type. *)
Elements == {Scalar(b).of : b \in Base} \cup {Subrange(r).of : r \in Subranges} \cup {Record.of, Nonsense.of}
Terms    == [dims : Seq(Subranges), of : Elements]

ObjectsUpTo(n) == [base : Base \cup {"array", "record", "unset"}, lo : Nat, hi : Nat, child : Seq(1 .. n)]
Definitions    == [name : Name, type : Objects, want : Terms]

TypesOK ==
    /\ heap \in Seq(ObjectsUpTo(Len(heap)))
    /\ tmp \in Seq(Definitions) /\ section \in Seq(Definitions)
    /\ build \in Seq([type : Objects, easy : BOOLEAN, want : Terms])
    /\ open \in Seq([part : {"types", "vars", "funcs"}, types : Seq(Definitions)]) \ {<< >>}
    /\ declared \subseteq [type : Objects, want : Terms, global : BOOLEAN]
    /\ length \in 0 .. MaxLength
    /\ careful \in BOOLEAN
    /\ status \in {"parsing", "parsed"} \cup Name

(* Types a variable can have: no subrange outside of an index, no records. *)
Complete(w) == w.of.kind = "scalar"

Good == {v \in declared : careful /\ Complete(v.want)}

(* The object of a variable says what its declaration says, however the    *)
(* objects it shares were used before and since, as long as names meant    *)
(* what `tmp' had under them, and no array was given the index of another  *)
(* with a different element type or one that contains it (parser.y 153,    *)
(* 161).                                                                   *)
MeansWhatItSays ==
    /\ TypesOK
    /\ \A v \in Good : Acyclic(v.type) /\ Term(v.type) = v.want

(* Scalars, and arrays of them, that have all their parts.                 *)
Finished(t) ==
    /\ Acyclic(t)
    /\ \A o \in Reach(t) :
           \/ heap[o].base \in Base
           \/ IsArray(o)

(* Whatever the program declares, carefully or not: such a type never      *)
(* changes under the variables that already have it.  A record does when   *)
(* its name is then used as the index of an array.                         *)
FinishedStays ==
    [][\A v \in declared : Finished(v.type) => Finished(v.type)' /\ Term(v.type)' = Term(v.type)]_typeVars

(* The layout a term asks for. *)
Layout(w) == [dims |-> [k \in DOMAIN w.dims |-> w.dims[k][2] - w.dims[k][1] + 1], of |-> w.of.base]

InOrder(w)    == \A k \in DOMAIN w.dims : w.dims[k][1] <= w.dims[k][2] + 1
Stringless(w) == w.of.base # "string"

(* What can be a variable: on the stack, everything without strings; as a  *)
(* global, what VarDef knows an initial value for.                         *)
Definable(w, global) ==
    IF ~global THEN Stringless(w)
    ELSE \/ w.dims = << >> /\ w.of.base \in {"int", "real"}
         \/ Len(w.dims) = 1 /\ w.of.base \in {"int", "real", "char"}

(* Storage: a definable variable is defined, and has room for exactly the  *)
(* elements of its declaration, if its subranges are in order.             *)
RoomAsDeclared ==
    \A v \in Good : InOrder(v.want) /\ Definable(v.want, v.global) =>
        Defined(v.type, v.global) /\ LLVMTYPERET(v.type) = Layout(v.want)

Starts(w) == [k \in DOMAIN w.dims |-> w.dims[k][1]]

(* isSameType compares the ends of arrays and forgets their starts: if the *)
(* starts agree it accepts exactly the types of equal layout, so that an   *)
(* array passed or assigned has the layout that is expected.               *)
SameIsSameLayout ==
    \A v, w \in Good :
        /\ Starts(v.want) = Starts(w.want)
        /\ Stringless(v.want) /\ InOrder(v.want) /\ InOrder(w.want)
        => (isSameType(v.type, w.type) <=> LLVMTYPERET(v.type) = LLVMTYPERET(w.type))
================================================================================
