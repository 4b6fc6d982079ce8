-------------------------------- MODULE MCPrinter --------------------------------
(* Small programs: every expression of two levels in one place, every     *)
(* statement of two levels over few expressions, and definitions.         *)
EXTENDS Printer

MCNode(kind, kids) == Tree(kind, None, kids)

Variables == {Tree("variable", Name(n), << >>) : n \in {"a", "b"}}

Constants ==
    {Tree("const", l, << >>) :
        l \in {Literal("int", "1"), Literal("char", "1"), Literal("bool", "true"),
               Literal("string", "s"), Literal("string", "t"), Literal("real", 1250), Literal("real", 1252)}}

Leaves == Variables \cup Constants
A == Tree("variable", Name("a"), << >>)
B == Tree("variable", Name("b"), << >>)

Over(E, F) ==
    {Tree("unary", [op |-> "-"], <<e>>) : e \in E}
    \cup {Tree("binary", [op |-> o], <<e, f>>) : o \in {"+", "*"}, e \in E, f \in F}
    \cup {Tree("callexp", Name("f"), as) : as \in {<< >>} \cup {<<e>> : e \in E} \cup {<<e, f>> : e \in E, f \in F}}

MCExprs == Leaves \cup Over(Leaves, Variables) \cup Over(Over({A}, {A, B}), {A} \cup Over({A}, {B}))

Simple ==
    {MCNode("assign", <<A, B>>), Tree("call", Name("p"), << >>), Tree("call", Name("p"), <<A>>),
     Tree("goto", [label |-> 1], << >>)}

MCBody(stms) == MCNode("body", stms)
Bodies(S) == {MCBody(<< >>)} \cup {MCBody(<<s>>) : s \in S}
Bodies2(S, T) == Bodies(S) \cup {MCBody(<<s, t>>) : s \in S, t \in T}

Structured(bodies) ==
    {MCNode("while", <<A, b>>) : b \in bodies}
    \cup {MCNode("repeat", <<b, A>>) : b \in bodies}
    \cup {Tree("for", [iter |-> "a", step |-> d], <<A, B, b>>) : d \in {1, -1}, b \in bodies}
    \cup {MCNode("if", <<A, b, c>>) : b \in bodies, c \in Bodies({Tree("call", Name("p"), <<A>>)})}

Once == Structured(Bodies(Simple))
Twice == Structured(Bodies({MCNode("assign", <<A, B>>)} \cup Structured(Bodies({Tree("call", Name("p"), << >>)}))))

Type(b)     == Tree("type", [base |-> b], << >>)
ArrayType   == Tree("type", [base |-> "array", lo |-> 0, hi |-> 1], <<Type("int")>>)
Params      == {Tree("param", [name |-> "a", formal |-> f], <<Type("int")>>) : f \in BOOLEAN}
Labels      == {Tree("labeldef", [label |-> l], << >>) : l \in 1 .. 2}
Defs(F) ==
    Labels
    \cup {Tree("constdef", Name("a"), <<c>>) : c \in Constants}
    \cup {Tree("typedef", Name("a"), <<t>>) : t \in {Type("string"), Type("char"), ArrayType}}
    \cup {Tree("vardef", Name(n), <<t>>) : n \in {"a", "b"}, t \in {Type("int"), ArrayType}}
    \cup F
Defines(F)  == {MCNode("define", << >>)} \cup {MCNode("define", <<d>>) : d \in Defs(F)}

Funcs(F) ==
    {Tree("func", Name("f"), ps \o <<MCNode("define", ds), b>>) :
        ps \in {<< >>, <<Type("int")>>} \cup {<<p>> : p \in Params} \cup {<<p, Type("int")>> : p \in Params},
        ds \in {<< >>} \cup {<<l>> : l \in Labels} \cup {<<l, f>> : l \in Labels, f \in F} \cup {<<f>> : f \in F},
        b  \in Bodies({Tree("call", Name("p"), << >>)})}

(* A Define keeps a vector for each kind of definition, in this order. *)
Rank(d) == CHOOSE i \in 1 .. 5 : <<"labeldef", "constdef", "typedef", "vardef", "func">>[i] = d.kind

Pairs == {de \in Defs({}) \X Defs(Funcs({})) : Rank(de[1]) <= Rank(de[2])}

MCDefines ==
    Defines(Funcs(Funcs({})))
    \cup {MCNode("define", de) : de \in Pairs}

Program(d, b) == Tree("program", Name("p"), <<d, b>>)
NoDefs        == MCNode("define", << >>)

MCTrees ==
    {Program(NoDefs, MCBody(<<MCNode("assign", <<A, e>>)>>)) : e \in MCExprs}
    \cup {Program(NoDefs, b) : b \in Bodies2(Simple \cup Once \cup Twice, Simple \cup Structured(Bodies({MCNode("assign", <<A, B>>)})))}
    \cup {Program(d, MCBody(<< >>)) : d \in MCDefines}
================================================================================
