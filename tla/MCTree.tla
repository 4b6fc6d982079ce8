--------------------------------- MODULE MCTree ---------------------------------
EXTENDS Tree

(* What the tree says under a node. *)
RECURSIVE Denote(_)
Denote(n) == Term(heap[n].kind, [i \in DOMAIN heap[n].kids |-> Denote(heap[n].kids[i])])

RECURSIVE Kept(_)
Kept(terms) ==
    LET some == SelectSeq(terms, LAMBDA t : t.kind # "labelled")
    IN  [i \in DOMAIN some |-> Term(some[i].kind, Kept(some[i].kids))]

(* The tree says what the source says, in the order of the source, but for *)
(* labelled statements, which it has lost (parser.y 238).                  *)
TreeSaysSource ==
    \A k \in 1 .. Depth :
        LET v    == stack[k]
            tree == [i \in DOMAIN v.nodes |-> Denote(v.nodes[i])]
        IN  CASE v.sort \in {"head", "list", "stm"} -> tree[1].kids = Kept(v.want)
              [] OTHER                              -> tree = Kept(v.want)
================================================================================
