------------------------------- MODULE Programs --------------------------------
(***************************************************************************)
(* Small programs for the models of code generation: statements nested to  *)
(* a bounded depth, and functions nested in functions.                     *)
(***************************************************************************)
EXTENDS Integers, Sequences, SequencesExt

CONSTANT Width      \* statements in a list, at most

Name(kind, level) == [kind |-> kind, level |-> level]

Leaf(kind, ok, level) ==
    [kind |-> kind, id |-> Name(kind, level), ok |-> ok, body |-> << >>, alt |-> << >>]

Leaves == {Leaf("simple", TRUE, 1), Leaf("goto", TRUE, 1)}
Other  == Leaf("simple", TRUE, 2)
Bad    == Leaf("simple", FALSE, 1)

(* The structured statements over the given bodies; the event of one tells *)
(* its kind and its level, so that a branch into the wrong one shows.      *)
StructuredStm(bodies, alts, ok, level) ==
    UNION {[kind : {kind}, id : {Name(kind, level)}, ok : {ok}, body : bodies,
            alt : IF kind = "if" THEN alts ELSE {<< >>}] :
               kind \in {"if", "while", "repeat", "for"}}

Inner == StructuredStm(SeqOf(Leaves, 1), {<< >>, <<Other>>}, TRUE, 1)
Lists == SeqOf(Leaves \cup Inner, Width)
Outer == StructuredStm({l \in Lists : Len(l) = 1}, {<< >>} \cup {<<s>> : s \in Inner},
                       TRUE, 2)
Wrong == {Bad} \cup StructuredStm({<< >>, <<Other>>}, {<< >>}, FALSE, 1)
               \cup StructuredStm({<<Bad>>}, {<<Bad>>}, TRUE, 2)

MCStm == Leaves \cup {Other} \cup Inner \cup Outer \cup Wrong
MCHeight ==
    [s \in MCStm |-> IF s \in Leaves \cup {Other, Bad} THEN 0 ELSE IF s \in Inner THEN 1 ELSE 2]
MCId  == {s.id : s \in MCStm}

Bodies == Lists \cup {<<s>> : s \in Outer \cup Wrong}

Fun(ok, funcs, body) == [ok |-> ok, funcs |-> funcs, body |-> body]

(* bodies of functions: empty, straight-line, one construct, two in a row *)
FunBodies == {<< >>, <<Other>>} \cup {<<s>> : s \in {t \in Inner : t.body = << >> /\ t.alt = << >>}}
               \cup {<<s, Other>> : s \in {t \in Inner : t.kind = "while" /\ t.body = << >>}}

Fun1 == {Fun(TRUE, << >>, b) : b \in FunBodies}
           \cup {Fun(FALSE, << >>, << >>), Fun(TRUE, << >>, <<Bad>>)}
Fun2 == {Fun(TRUE, <<f>>, b) : f \in Fun1, b \in FunBodies}
           \cup {Fun(TRUE, <<f, f>>, << >>) : f \in Fun1}
Fun3 == {Fun(TRUE, <<f>>, << >>) : f \in Fun2}

MCFuncDef == Fun1 \cup Fun2 \cup Fun3

MCProgram ==
    [funcs : {<< >>}, body : Bodies]
      \cup [funcs : {<<f>> : f \in MCFuncDef} \cup {<<f, g>> : f, g \in Fun1},
            body : FunBodies]
================================================================================
