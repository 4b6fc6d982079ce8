---------------------------------- MODULE Tree ----------------------------------
(***************************************************************************)
(* The syntax tree: what the productions of src/parser.y build with the    *)
(* classes of include/tree.h and the setters of src/tree.cpp.              *)
(*                                                                         *)
(* The parser is a stack of semantic values.  Each action is a reduction:  *)
(* it takes values from the top, makes nodes, hands them their children    *)
(* and puts a value back.  A node knows its father, which the checker      *)
(* follows upwards to find names and labels, so that each reduction writes *)
(* into nodes that others made.  Statement lists are flattened: a          *)
(* statement moves from the Body made around it into the list's Body, and  *)
(* the empty one remains as garbage.                                       *)
(*                                                                         *)
(* Next to the nodes each value carries a term, what the source says.      *)
(* Types are in module TypeNames; here each parameter and result has a     *)
(* type node of its own.  A type given by name is an object that others    *)
(* have too, and PARAMAdd and setReturnType overwrite its father with the  *)
(* function that used it last.  No walk starts at a type.  The case        *)
(* statement, whose list is cast to a node of another class, is left out.  *)
(***************************************************************************)
EXTENDS Integers, Sequences, SequencesExt

CONSTANTS
    Forms,      \* the constructs that programs use, out of AllForms
    MaxArgs,    \* bounds: arguments of a call,
    MaxGroups,  \* groups of parameters,
    MaxNodes    \* nodes

AllForms == {"unary", "binary", "callexp", "assign", "call", "goto", "labelled", "if", "ifelse",
             "repeat", "while", "for", "compound", "label", "constdef", "vardef", "func", "proc"}

ASSUME FormsAssumption == Forms \subseteq AllForms
ASSUME BoundAssumption == {MaxArgs, MaxGroups, MaxNodes} \subseteq Nat

VARIABLES
    heap,       \* the nodes
    stack,      \* the semantic values of the parser
    status      \* parsing, parsed or error

vars == <<heap, stack, status>>
--------------------------------------------------------------------------------
(* Nodes *)

Null == 0
Nodes == 1 .. Len(heap)

(* `scope' is the function or program in whose text the node stands.       *)
Node(kind, kids, scope) == [kind |-> kind, father |-> Null, kids |-> kids, scope |-> scope]

(* The setters: the node takes its children, and they get their father.    *)
Adopt(h, kids, father) ==
    [n \in DOMAIN h |-> IF n \in Range(kids) THEN [h[n] EXCEPT !.father = father] ELSE h[n]]

(* Mutant: the children keep the father they had. *)
TakeWithoutFather(h, father, kids) == [h EXCEPT ![father].kids = @ \o kids]

Take(h, father, kids) == Adopt([h EXCEPT ![father].kids = @ \o kids], kids, father)

(* A constructor call followed by the setters for all children. *)
Build(h, kind, kids, scope) == Adopt(Append(h, Node(kind, kids, scope)), kids, Len(h) + 1)

Term(kind, kids) == [kind |-> kind, kids |-> kids]
--------------------------------------------------------------------------------
(* The parser's stack *)

(* Sorts of values: exp, list (of statements), stm (a statement, as a      *)
(* Body), head (of a function or the program), defs, define and program.   *)
Value(sort, nodes, want) == [sort |-> sort, nodes |-> nodes, want |-> want]

Depth == Len(stack)
Pick(k) == stack[Depth - k + 1]                  \* the k-th from the top
Tops(sorts) ==
    /\ Depth >= Len(sorts)
    /\ \A i \in DOMAIN sorts : stack[Depth - Len(sorts) + i].sort = sorts[i]
Under(k, sort) == Depth > k /\ Pick(k + 1).sort = sort

(* The node of each of the k values on top, which have one.                *)
TopNodes(k) == [i \in 1 .. k |-> stack[Depth - k + i].nodes[1]]
TopWants(k) == FlattenSeq([i \in 1 .. k |-> stack[Depth - k + i].want])

Reduce(k, v) == stack' = Append(SubSeq(stack, 1, Depth - k), v)

(* The function or program whose text is being parsed. *)
Innermost == stack[CHOOSE i \in 1 .. Depth :
                      /\ stack[i].sort = "head"
                      /\ \A j \in i + 1 .. Depth : stack[j].sort # "head"].nodes[1]

May(form, n) == status = "parsing" /\ form \in Forms /\ Len(heap) + n <= MaxNodes

(* An expression or a statement can begin: after `begin' or a `;', after   *)
(* something that ends in an expression, or as the other branch of an if.  *)
Ready ==
    \/ Tops(<<"list">>) \/ Tops(<<"exp">>)
    \/ Tops(<<"exp", "stm">>) /\ "ifelse" \in Forms

Exps(n) == Tops([i \in 1 .. n |-> "exp"]) /\ (n = 0 => Ready)

Init ==
    /\ heap = <<Node("program", << >>, Null)>>
    /\ stack = <<Value("head", <<1>>, << >>), Value("defs", << >>, << >>)>>
    /\ status = "parsing"
--------------------------------------------------------------------------------
(* Expressions *)

Leaf(kind) ==
    /\ status = "parsing" /\ Ready /\ Len(heap) < MaxNodes
    /\ heap' = Build(heap, kind, << >>, Innermost)
    /\ Reduce(0, Value("exp", <<Len(heap) + 1>>, <<Term(kind, << >>)>>))
    /\ UNCHANGED status

(* An expression of the n that are on top. *)
Expression(kind, n) ==
    /\ May(kind, 1) /\ Exps(n)
    /\ heap' = Build(heap, kind, TopNodes(n), Innermost)
    /\ Reduce(n, Value("exp", <<Len(heap) + 1>>, <<Term(kind, TopWants(n))>>))
    /\ UNCHANGED status

(* Mutant: the operands are swapped. *)
BinarySwapped ==
    /\ May("binary", 1) /\ Exps(2)
    /\ heap' = Build(heap, "binary", Reverse(TopNodes(2)), Innermost)
    /\ Reduce(2, Value("exp", <<Len(heap) + 1>>, <<Term("binary", TopWants(2))>>))
    /\ UNCHANGED status

Unary == Expression("unary", 1)
Binary == Expression("binary", 2)
CallExp == \E n \in 0 .. MaxArgs : Expression("callexp", n)
--------------------------------------------------------------------------------
(* Statements *)

(* A statement of n values, in a Body of its own. *)
Statement(kind, kids, n, want) ==
    /\ heap' = LET stm == Build(heap, kind, kids, Innermost) IN
               Build(stm, "body", <<Len(stm)>>, Innermost)
    /\ Reduce(n, Value("stm", <<Len(heap) + 2>>, <<want>>))
    /\ UNCHANGED status

Simple(kind, n) == Statement(kind, TopNodes(n), n, Term(kind, TopWants(n)))

(* The left side is a name, an element or a field. *)
Assign ==
    /\ May("assign", 2) /\ Exps(2)
    /\ LET left == heap[Pick(2).nodes[1]] IN
           left.kind = "var" \/ (left.kind = "binary" /\ heap[left.kids[1]].kind = "var")
    /\ Simple("assign", 2)

CallStm == \E n \in 0 .. MaxArgs : May("call", 2) /\ Exps(n) /\ Simple("call", n)

GotoStm == May("goto", 2) /\ Ready /\ Simple("goto", 0)

(* What the Body of a statement or list stands for in its statement. *)
Block(v) == Term("body", v.want)

(* Without else, the second Body is a new one. *)
If ==
    /\ May("if", 3) /\ Tops(<<"exp", "stm">>)
    /\ LET h   == Append(heap, Node("body", << >>, Innermost))
           if  == Build(h, "if", TopNodes(2) \o <<Len(h)>>, Innermost)
       IN  heap' = Build(if, "body", <<Len(if)>>, Innermost)
    /\ Reduce(2, Value("stm", <<Len(heap) + 3>>,
                       <<Term("if", Pick(2).want \o <<Block(Pick(1)), Term("body", << >>)>>)>>))
    /\ UNCHANGED status

IfElse ==
    /\ May("ifelse", 2) /\ Tops(<<"exp", "stm", "stm">>)
    /\ Statement("if", TopNodes(3), 3,
                 Term("if", Pick(3).want \o <<Block(Pick(2)), Block(Pick(1))>>))

While ==
    /\ May("while", 2) /\ Tops(<<"exp", "stm">>)
    /\ Statement("while", TopNodes(2), 2, Term("while", Pick(2).want \o <<Block(Pick(1))>>))

For ==
    /\ May("for", 2) /\ Tops(<<"exp", "exp", "stm">>)
    /\ Statement("for", TopNodes(3), 3,
                 Term("for", Pick(3).want \o Pick(2).want \o <<Block(Pick(1))>>))

(* The condition comes last in the source and first in the node. *)
Repeat ==
    /\ May("repeat", 2) /\ Tops(<<"list", "exp">>) /\ ~Under(2, "define")
    /\ Statement("repeat", Reverse(TopNodes(2)), 2,
                 Term("repeat", Pick(1).want \o <<Block(Pick(2))>>))

(* `begin' or `repeat' *)
EmptyList ==
    /\ status = "parsing" /\ Len(heap) < MaxNodes
    /\ \/ Tops(<<"define">>)
       \/ {"compound", "repeat"} \cap Forms # {} /\ Ready
    /\ heap' = Build(heap, "body", << >>, Innermost)
    /\ Reduce(0, Value("list", <<Len(heap) + 1>>, << >>))
    /\ UNCHANGED status

ExtendList ==
    /\ status = "parsing" /\ Tops(<<"list", "stm">>)
    /\ heap' = Take(heap, Pick(2).nodes[1], heap[Pick(1).nodes[1]].kids)
    /\ Reduce(2, Value("list", Pick(2).nodes, TopWants(2)))
    /\ UNCHANGED status

Compound ==
    /\ status = "parsing" /\ Tops(<<"list">>)
    /\ "compound" \in Forms \/ Under(1, "define")
    /\ Reduce(1, [Pick(1) EXCEPT !.sort = "stm"])
    /\ UNCHANGED <<heap, status>>

(* A labelled statement is dropped.  There is none with two labels. *)
Labelled ==
    /\ May("labelled", 1) /\ Tops(<<"stm">>) /\ ~Under(1, "define")
    /\ \A i \in DOMAIN Pick(1).want : Pick(1).want[i].kind # "labelled"
    /\ heap' = Build(heap, "body", << >>, Innermost)
    /\ Reduce(1, Value("stm", <<Len(heap) + 1>>, <<Term("labelled", Pick(1).want)>>))
    /\ UNCHANGED status
--------------------------------------------------------------------------------
(* Definitions *)

(* A definition, as its section allows: what comes before it is of one of  *)
(* the kinds `after'.                                                      *)
Declare(kind, after, h, want) ==
    /\ May(kind, Len(h) - Len(heap)) /\ Tops(<<"defs">>)
    /\ \A i \in DOMAIN Pick(1).nodes : heap[Pick(1).nodes[i]].kind \in after
    /\ heap' = h
    /\ Reduce(1, Value("defs", Append(Pick(1).nodes, Len(h)), Append(Pick(1).want, want)))
    /\ UNCHANGED status

(* The number of a label is never stored: a label cannot be told from      *)
(* another (include/tree.h 170), and the model gives it none.              *)
LabelDef == Declare("label", {"label"}, Build(heap, "label", << >>, Innermost), Term("label", << >>))

ConstDef ==
    Declare("constdef", {"label", "constdef"},
            Build(Build(heap, "const", << >>, Innermost), "constdef", <<Len(heap) + 1>>, Innermost),
            Term("constdef", <<Term("const", << >>)>>))

VarDef ==
    Declare("vardef", {"label", "constdef", "vardef"},
            Build(heap, "vardef", << >>, Innermost), Term("vardef", << >>))

(* The head of a procedure.  Each group of parameters makes a type and a   *)
(* FuncDef that owns it; the first FuncDef then takes the types of the     *)
(* others, without becoming their father.                                  *)
Groups(n) ==
    IF n = 0 THEN <<Node("proc", << >>, Innermost)>>
    ELSE [k \in 1 .. 2 * n |->
            IF k % 2 = 1
            THEN [Node("param", << >>, Len(heap) + 2) EXCEPT !.father = Len(heap) + k + 1]
            ELSE Node("proc", IF k > 2 THEN <<Len(heap) + k - 1>>
                              ELSE [i \in 1 .. n |-> Len(heap) + 2 * i - 1], Innermost)]

HeadOf(n) == Len(heap) + IF n = 0 THEN 1 ELSE 2

(* What the head of a function says: its parameters and its result. *)
Signature(n, results) ==
    [i \in 1 .. n |-> Term("param", << >>)] \o [i \in 1 .. results |-> Term("rettype", << >>)]

PushHead(f, signature) ==
    /\ stack' = stack \o <<Value("head", <<f>>, signature), Value("defs", << >>, << >>)>>
    /\ UNCHANGED status

ProcHead ==
    \E n \in 0 .. MaxGroups :
        /\ May("proc", Len(Groups(n))) /\ Tops(<<"defs">>)
        /\ heap' = heap \o Groups(n)
        /\ PushHead(HeadOf(n), Signature(n, 0))

(* Mutant: the parameters keep the FuncDef of their group. *)
FuncHeadKeepsFathers ==
    \E n \in 0 .. MaxGroups :
        /\ May("func", Len(Groups(n)) + 1) /\ Tops(<<"defs">>)
        /\ LET f == HeadOf(n)
               h == heap \o Groups(n)
               r == Append(h, Node("rettype", << >>, f))
           IN  heap' = Take([r EXCEPT ![f].kind = "func"], f, <<Len(r)>>)
        /\ PushHead(HeadOf(n), Signature(n, 1))

(* A function has a result type, and becomes the father of all of them.    *)
FuncHead ==
    \E n \in 0 .. MaxGroups :
        /\ May("func", Len(Groups(n)) + 1) /\ Tops(<<"defs">>)
        /\ LET f == HeadOf(n)
               h == heap \o Groups(n)
               r == Append(h, Node("rettype", << >>, f))
           IN  heap' = Adopt(Take([r EXCEPT ![f].kind = "func"], f, <<Len(r)>>), h[f].kids, f)
        /\ PushHead(HeadOf(n), Signature(n, 1))

Define ==
    /\ status = "parsing" /\ Len(heap) < MaxNodes /\ Tops(<<"defs">>)
    /\ heap' = Build(heap, "define", Pick(1).nodes, Innermost)
    /\ Reduce(1, Value("define", <<Len(heap) + 1>>, <<Term("define", Pick(1).want)>>))
    /\ UNCHANGED status

(* The routine, which is only a pair, gives the head its definitions and   *)
(* its body.                                                               *)
Whole(kind) ==
    Term(kind, Pick(3).want \o Pick(2).want \o <<Block(Pick(1))>>)

EndFunction ==
    /\ status = "parsing" /\ Tops(<<"defs", "head", "define", "stm">>)
    /\ LET f == Pick(3).nodes[1] IN
        /\ heap' = Take(heap, f, TopNodes(2))
        /\ Reduce(4, Value("defs", Append(Pick(4).nodes, f), Append(Pick(4).want, Whole(heap[f].kind))))
    /\ UNCHANGED status

EndProgram ==
    /\ status = "parsing" /\ Tops(<<"head", "define", "stm">>) /\ Depth = 3
    /\ heap' = Take(heap, 1, TopNodes(2))
    /\ Reduce(3, Value("program", <<1>>, <<Whole("program")>>))
    /\ status' = "parsed"

(* yyerror ends the process (symbol.cpp 33). *)
SyntaxError == status = "parsing" /\ status' = "error" /\ heap' = << >> /\ stack' = << >>

Stopped == status # "parsing" /\ UNCHANGED vars

Next ==
    \/ Leaf("var") \/ Leaf("const") \/ Unary \/ Binary \/ CallExp
    \/ Assign \/ CallStm \/ GotoStm \/ If \/ IfElse \/ While \/ For \/ Repeat
    \/ EmptyList \/ ExtendList \/ Compound \/ Labelled
    \/ LabelDef \/ ConstDef \/ VarDef \/ ProcHead \/ FuncHead
    \/ Define \/ EndFunction \/ EndProgram
    \/ SyntaxError \/ Stopped

Spec == Init /\ [][Next]_vars
--------------------------------------------------------------------------------
(* The walks in the tree *)

(* The nodes under a node, itself included. *)
Below(n) ==
    LET below[m \in Nodes] ==
            {m} \cup UNION {below[heap[m].kids[i]] : i \in DOMAIN heap[m].kids}
    IN  below[n]

Scopes == {"program", "func", "proc"}

(* Where findName and canFindLabel stop first on their way up from a node. *)
ScopeFrom(n) ==
    LET walk[m \in {Null} \cup Nodes] ==
            IF m = Null \/ heap[m].kind \in Scopes THEN m ELSE walk[heap[m].father]
    IN  walk[n]

(* The scopes in which canFindLabel looks for a label. *)
LooksIn(n) ==
    LET looks[m \in {Null} \cup Nodes] ==
            LET scope == ScopeFrom(m) IN
            {scope} \cup IF scope = Null \/ heap[scope].kind = "program" THEN {}
                         ELSE looks[heap[scope].father]
    IN  looks[n]
--------------------------------------------------------------------------------
(* Properties *)

Kinds == Scopes \cup
    {"var", "const", "unary", "binary", "callexp", "assign", "call", "goto", "if", "repeat", "while",
     "for", "body", "label", "constdef", "vardef", "param", "rettype", "define"}
Sorts == {"exp", "list", "stm", "head", "defs", "define", "program"}

TypeOK ==
    /\ heap \in Seq([kind : Kinds, father : Nat, kids : Seq(Nat), scope : Nat])
    /\ \A n \in Nodes :
        /\ heap[n].father \in {Null} \cup Nodes /\ heap[n].scope \in {Null} \cup Nodes
        /\ \A i \in DOMAIN heap[n].kids : heap[n].kids[i] \in Nodes
    /\ stack \in Seq([sort : Sorts, nodes : Seq(Nat), want : {stack[k].want : k \in 1 .. Depth}])
    /\ \A k \in 1 .. Depth : \A i \in DOMAIN stack[k].nodes : stack[k].nodes[i] \in Nodes
    /\ status \in {"parsing", "parsed", "error"}

Roots == UNION {Range(stack[k].nodes) : k \in 1 .. Depth}
Alive == UNION {Below(n) : n \in Roots}

(* The groups of a procedure's parameters after the first. *)
Stray(n, i) == heap[n].kind = "proc" /\ heap[heap[n].kids[i]].kind = "param" /\ i > 1

(* Every node that can still come into the tree is the father of its       *)
(* children and of no more than they are, through all moves from Body to   *)
(* Body: the father is where the way down came from.  Only the types of a  *)
(* procedure's later parameter groups look up to a FuncDef that is gone    *)
(* (parser.y 196, 205).                                                    *)
FathersHold ==
    /\ TypeOK
    /\ \A n \in Alive : \A i \in DOMAIN heap[n].kids :
           heap[heap[n].kids[i]].father = n \/ Stray(n, i)

(* The functions around a scope, itself included. *)
Around(scope) ==
    LET around[s \in {Null} \cup Nodes] ==
            IF s = Null THEN {} ELSE {s} \cup around[heap[s].scope]
    IN  around[scope]

(* From every node of the finished tree, the way up leads first to the     *)
(* function in whose text it stands, then to the functions around that, to *)
(* all of them and to no others: findName and canFindLabel, which look     *)
(* there, have the scopes of the source.                                   *)
WalkFindsScope ==
    status = "parsed" =>
        \A n \in Alive : \A i \in DOMAIN heap[n].kids :
            LET kid == heap[heap[n].kids[i]] IN
            Stray(n, i) \/ (ScopeFrom(kid.father) = kid.scope /\ LooksIn(kid.father) = Around(kid.scope))
================================================================================
