-------------------------------- MODULE MCScope --------------------------------
(***************************************************************************)
(* Programs of one to three scopes: two functions next to each other or    *)
(* one in the other, each scope with one declaration, or one that clashes. *)
(***************************************************************************)
EXTENDS Scope

MCName == {"x", "f", "main", "printf", "entry"}

None0  == [params |-> {}, consts |-> {}, types |-> {}, vars |-> {}]

Globals == {None0, [None0 EXCEPT !.consts = {"x"}], [None0 EXCEPT !.consts = {"entry"}],
            [None0 EXCEPT !.types = {"x"}], [None0 EXCEPT !.vars = {"x"}],
            [None0 EXCEPT !.vars = {"f", "main"}],
            [None0 EXCEPT !.vars = {"x"}, !.consts = {"x"}]}

Locals == {None0, [None0 EXCEPT !.params = {"x"}], [None0 EXCEPT !.params = {"f"}],
           [None0 EXCEPT !.params = {"entry"}], [None0 EXCEPT !.consts = {"x"}],
           [None0 EXCEPT !.types = {"x"}], [None0 EXCEPT !.vars = {"x"}],
           [None0 EXCEPT !.vars = {"f"}],
           [None0 EXCEPT !.params = {"x"}, !.vars = {"x"}]}

ScopeOf(father, name, value, d) ==
    [father |-> father, name |-> name, value |-> value, params |-> d.params,
     consts |-> d.consts, types |-> d.types, vars |-> d.vars]

Main   == {ScopeOf(0, "main", FALSE, d) : d \in Globals}
First1 == {ScopeOf(1, n, v, d) : n \in {"f", "x", "main"}, v \in BOOLEAN, d \in Locals}
Second == {ScopeOf(o, n, v, d) : o \in {1, 2}, n \in {"f", "printf", "entry"},
                                 v \in BOOLEAN, d \in Locals}

MCProgram == {<<m>> : m \in Main} \cup {<<m, s>> : m \in Main, s \in First1}
               \cup {<<m, s, t>> : m \in Main, s \in First1, t \in Second}

(* programs that avoid the names LLVM is given for main, printf and blocks *)
Ordinary ==
    {p \in {<<m, s, t>> : m \in Main, s \in First1, t \in Second} :
        \A k \in DOMAIN p :
            (p[k].params \cup p[k].consts \cup p[k].types \cup p[k].vars
               \cup (IF k = 1 THEN {} ELSE {p[k].name}))
              \cap {"main", "printf", "entry"} = {}}
================================================================================
