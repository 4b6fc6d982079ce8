------------------------------- MODULE TreeProofs -------------------------------
(***************************************************************************)
(* The tree is one, for programs of any size: every node knows its father, *)
(* and the walks upwards pass the scopes of the source.                    *)
(***************************************************************************)
EXTENDS Tree, SequenceTheorems, WellFoundedInduction, TLAPS

(* The nodes that are under some value of the parser or were taken by a    *)
(* node, when R are the nodes of the values: all but those dropped.        *)
Held(h, R) == {n \in DOMAIN h : n \in R \/ \E m \in DOMAIN h : n \in Range(h[m].kids)}

(* The scope that a node's children stand in. *)
ScopeOf(h, n) == IF h[n].kind \in Scopes THEN n ELSE h[n].scope

NodeRecord == [kind : Kinds, father : Nat, kids : Seq(Nat), scope : Nat]

HeapOK(h) ==
    /\ h \in Seq(NodeRecord)
    /\ \A n \in DOMAIN h :
        /\ h[n].father \in {Null} \cup DOMAIN h
        /\ h[n].scope \in {Null} \cup DOMAIN h
        /\ Range(h[n].kids) \subseteq DOMAIN h
        /\ h[n].kind = "program" <=> n = 1
        /\ h[n].scope = Null <=> n = 1
        /\ h[n].scope # Null => h[h[n].scope].kind \in Scopes
        /\ h[n].kind \in Scopes => h[n].scope < n
        /\ h[n].kind = "param" => h[n].kids = << >>

(* The values' nodes are the roots of trees. *)
RootsOK(h, R) ==
    /\ R \subseteq DOMAIN h
    /\ \A r \in R : h[r].father = Null /\ \A m \in DOMAIN h : r \notin Range(h[m].kids)

(* A node that was not dropped is the father of its children, the only one *)
(* that has them, and around them in the text.                             *)
KidsOK(h, R) ==
    \A n \in Held(h, R) : \A i \in DOMAIN h[n].kids :
        /\ \/ h[h[n].kids[i]].father = n
           \/ h[n].kind = "proc" /\ h[h[n].kids[i]].kind = "param" /\ i > 1
        /\ h[h[n].kids[i]].scope = ScopeOf(h, n)
        /\ \A m \in Held(h, R) : h[n].kids[i] \in Range(h[m].kids) => m = n

(* The way down and the way up end. *)
Ranked(h, rank) ==
    /\ rank \in [DOMAIN h -> Nat]
    /\ \E bound \in Nat : \A n \in DOMAIN h : rank[n] < bound
    /\ \A n \in DOMAIN h :
        /\ \A i \in DOMAIN h[n].kids : rank[h[n].kids[i]] < rank[n]
        /\ h[n].father # Null => rank[n] < rank[h[n].father]

Forest(h, R) == HeapOK(h) /\ RootsOK(h, R) /\ KidsOK(h, R) /\ \E rank : Ranked(h, rank)
--------------------------------------------------------------------------------
(* Head i is the innermost one below position k. *)
HeadBelow(i, k) ==
    /\ i < k /\ stack[i].sort = "head"
    /\ \A j \in i + 1 .. k - 1 : stack[j].sort # "head"

(* The nodes of a value stand in the function of the head below it, and    *)
(* are in no other value.                                                  *)
ValueOK(k) ==
    /\ stack[k].sort # "defs" => Len(stack[k].nodes) = 1
    /\ stack[k].sort = "head" => heap[stack[k].nodes[1]].kind \in Scopes
    /\ stack[k].sort \in {"list", "stm"} => heap[stack[k].nodes[1]].kind = "body"
    /\ \A l \in 1 .. Depth : k # l => Range(stack[k].nodes) \cap Range(stack[l].nodes) = {}
    /\ \A i \in 1 .. k : HeadBelow(i, k) =>
           \A r \in Range(stack[k].nodes) : heap[r].scope = stack[i].nodes[1]

ValuesOK ==
    /\ Depth > 0 /\ stack[1].sort = "head" /\ stack[1].nodes = <<1>>
    /\ \A k \in 1 .. Depth : ValueOK(k)

TreeInv ==
    /\ TypeOK
    /\ Forest(heap, Roots)
    /\ status = "parsing" => ValuesOK
    /\ status = "parsed" => Roots = {1}
--------------------------------------------------------------------------------
(* The operations on the heap *)

LEMMA HeapType ==
    ASSUME NEW h \in Seq(NodeRecord)
    PROVE  /\ Len(h) \in Nat /\ DOMAIN h = 1 .. Len(h)
           /\ \A n \in DOMAIN h :
                /\ h[n] \in NodeRecord
                /\ h[n].kids \in Seq(Nat) /\ Len(h[n].kids) \in Nat
                /\ DOMAIN h[n].kids = 1 .. Len(h[n].kids)
                /\ h[n].father \in Nat /\ h[n].scope \in Nat /\ h[n].kind \in Kinds
<1>1. \A n \in DOMAIN h : h[n] \in NodeRecord
    BY LenProperties
<1>2. \A r \in NodeRecord : r.kids \in Seq(Nat) /\ r.father \in Nat /\ r.scope \in Nat /\ r.kind \in Kinds
    BY DEF NodeRecord
<1> QED
    BY <1>1, <1>2, LenProperties

LEMMA RangeConcat ==
    ASSUME NEW s \in Seq(Nat), NEW t \in Seq(Nat)
    PROVE  /\ s \o t \in Seq(Nat)
           /\ Range(s \o t) = Range(s) \cup Range(t)
           /\ Len(s \o t) = Len(s) + Len(t)
           /\ \A i \in 1 .. Len(s) : (s \o t)[i] = s[i]
           /\ \A i \in Len(s) + 1 .. Len(s) + Len(t) : (s \o t)[i] = t[i - Len(s)] /\ i - Len(s) \in DOMAIN t
<1>1. /\ s \o t \in Seq(Nat) /\ Len(s \o t) = Len(s) + Len(t)
      /\ Len(s) \in Nat /\ Len(t) \in Nat
      /\ DOMAIN s = 1 .. Len(s) /\ DOMAIN t = 1 .. Len(t) /\ DOMAIN (s \o t) = 1 .. Len(s) + Len(t)
    BY ConcatProperties, LenProperties
<1>2. \A i \in 1 .. Len(s) + Len(t) : (s \o t)[i] = IF i <= Len(s) THEN s[i] ELSE t[i - Len(s)]
    BY ConcatProperties
<1>3. \A i \in 1 .. Len(s) : (s \o t)[i] = s[i] /\ i \in DOMAIN (s \o t)
    BY <1>1, <1>2
<1>4. \A i \in Len(s) + 1 .. Len(s) + Len(t) : (s \o t)[i] = t[i - Len(s)] /\ i - Len(s) \in DOMAIN t
    BY <1>1, <1>2
<1>5. \A j \in DOMAIN t : (s \o t)[j + Len(s)] = t[j] /\ j + Len(s) \in DOMAIN (s \o t)
    BY <1>1, <1>2
<1>6. Range(s \o t) \subseteq Range(s) \cup Range(t)
    <2> SUFFICES ASSUME NEW i \in DOMAIN (s \o t) PROVE (s \o t)[i] \in Range(s) \cup Range(t)
        BY DEF Range
    <2>1. CASE i <= Len(s)
        BY <2>1, <1>1, <1>3 DEF Range
    <2>2. CASE i > Len(s)
        BY <2>2, <1>1, <1>4 DEF Range
    <2> QED
        BY <2>1, <2>2, <1>1
<1>7. Range(s) \cup Range(t) \subseteq Range(s \o t)
    BY <1>1, <1>3, <1>5 DEF Range
<1> QED
    BY <1>1, <1>3, <1>4, <1>6, <1>7

(* A node without children, which is a tree of its own. *)
LEMMA LeafKeeps ==
    ASSUME NEW h, NEW R, Forest(h, R),
           NEW kind \in Kinds \ Scopes, NEW scope \in DOMAIN h, h[scope].kind \in Scopes
    PROVE  LET b == Append(h, Node(kind, << >>, scope)) IN
           /\ Forest(b, R \cup {Len(h) + 1})
           /\ Len(b) = Len(h) + 1 /\ b[Len(h) + 1] = Node(kind, << >>, scope)
           /\ \A n \in DOMAIN h : b[n] = h[n]
<1> DEFINE top  == Len(h) + 1
           leaf == Node(kind, << >>, scope)
           b    == Append(h, leaf)
           S    == R \cup {top}
<1>1. /\ h \in Seq(NodeRecord) /\ Len(h) \in Nat /\ DOMAIN h = 1 .. Len(h)
      /\ \A n \in DOMAIN h : h[n] \in NodeRecord /\ DOMAIN h[n].kids = 1 .. Len(h[n].kids)
    BY HeapType DEF Forest, HeapOK
<1>2. leaf \in NodeRecord
    BY <1>1 DEF Node, NodeRecord, Null
<1>3. /\ b \in Seq(NodeRecord) /\ Len(b) = top /\ DOMAIN b = 1 .. top
      /\ b[top] = leaf /\ \A n \in DOMAIN h : b[n] = h[n]
    BY <1>1, <1>2
<1>4. /\ leaf.kind = kind /\ leaf.father = Null /\ leaf.kids = << >> /\ leaf.scope = scope
      /\ Range(leaf.kids) = {} /\ DOMAIN leaf.kids = {}
    BY DEF Node, Range
<1>5. DOMAIN b = DOMAIN h \cup {top} /\ top \notin DOMAIN h /\ top # 1
    BY <1>1, <1>3
<1> HIDE DEF b, leaf, top
<1>6. HeapOK(b)
    <2>1. kind # "program"
        BY DEF Scopes
    <2>2. scope # Null
        BY <1>1 DEF Null
    <2>3. b[scope].kind \in Scopes
        BY <1>3
    <2> SUFFICES ASSUME NEW n \in DOMAIN b
                 PROVE  /\ b[n].father \in {Null} \cup DOMAIN b
                        /\ b[n].scope \in {Null} \cup DOMAIN b
                        /\ Range(b[n].kids) \subseteq DOMAIN b
                        /\ b[n].kind = "program" <=> n = 1
                        /\ b[n].scope = Null <=> n = 1
                        /\ b[n].scope # Null => b[b[n].scope].kind \in Scopes
                        /\ b[n].kind \in Scopes => b[n].scope < n
                        /\ b[n].kind = "param" => b[n].kids = << >>
        BY <1>3 DEF HeapOK
    <2>4. CASE n = top
        BY <2>1, <2>2, <2>3, <2>4, <1>3, <1>4, <1>5
    <2>5. CASE n # top
        <3>1. n \in DOMAIN h /\ b[n] = h[n]
            BY <2>5, <1>3, <1>5
        <3>2. /\ h[n].father \in {Null} \cup DOMAIN h
              /\ h[n].scope \in {Null} \cup DOMAIN h
              /\ Range(h[n].kids) \subseteq DOMAIN h
              /\ h[n].kind = "program" <=> n = 1
              /\ h[n].scope = Null <=> n = 1
              /\ h[n].scope # Null => h[h[n].scope].kind \in Scopes
              /\ h[n].kind \in Scopes => h[n].scope < n
              /\ h[n].kind = "param" => h[n].kids = << >>
            BY <3>1 DEF Forest, HeapOK
        <3>3. h[n].scope # Null => b[h[n].scope] = h[h[n].scope]
            BY <3>2, <1>3
        <3> QED
            BY <3>1, <3>2, <3>3, <1>5
    <2> QED
        BY <2>4, <2>5
<1>7. top \notin R /\ \A n \in DOMAIN h : top \notin Range(h[n].kids)
    BY <1>5 DEF Forest, RootsOK, HeapOK
<1>8. RootsOK(b, S)
    <2>1. /\ R \subseteq DOMAIN h
          /\ \A r \in R : h[r].father = Null /\ \A m \in DOMAIN h : r \notin Range(h[m].kids)
        BY DEF Forest, RootsOK
    <2>2. S \subseteq DOMAIN b
        BY <2>1, <1>5
    <2>3. \A r \in S : b[r].father = Null
        BY <2>1, <1>3, <1>4
    <2>4. \A r \in S : \A m \in DOMAIN b : r \notin Range(b[m].kids)
        BY <2>1, <1>3, <1>4, <1>5, <1>7
    <2> QED
        BY <2>2, <2>3, <2>4 DEF RootsOK
<1>9. Held(b, S) = Held(h, R) \cup {top}
    BY <1>3, <1>4, <1>5, <1>7 DEF Held
<1>10. KidsOK(b, S)
    <2> SUFFICES ASSUME NEW n \in Held(b, S), NEW i \in DOMAIN b[n].kids
                 PROVE  /\ \/ b[b[n].kids[i]].father = n
                           \/ b[n].kind = "proc" /\ b[b[n].kids[i]].kind = "param" /\ i > 1
                        /\ b[b[n].kids[i]].scope = ScopeOf(b, n)
                        /\ \A m \in Held(b, S) : b[n].kids[i] \in Range(b[m].kids) => m = n
        BY DEF KidsOK
    <2>1. n \in Held(h, R) /\ n \in DOMAIN h /\ b[n] = h[n]
        BY <1>3, <1>4, <1>9 DEF Held
    <2>2. h[n].kids[i] \in DOMAIN h
        BY <2>1 DEF Forest, HeapOK, Range
    <2>3. ScopeOf(b, n) = ScopeOf(h, n)
        BY <2>1 DEF ScopeOf
    <2>4. \A m \in Held(b, S) : h[n].kids[i] \in Range(b[m].kids) => m \in Held(h, R) /\ b[m] = h[m]
        BY <1>3, <1>4, <1>9 DEF Held
    <2>5. /\ \/ h[h[n].kids[i]].father = n
             \/ h[n].kind = "proc" /\ h[h[n].kids[i]].kind = "param" /\ i > 1
          /\ h[h[n].kids[i]].scope = ScopeOf(h, n)
          /\ \A m \in Held(h, R) : h[n].kids[i] \in Range(h[m].kids) => m = n
        BY <2>1 DEF Forest, KidsOK
    <2>6. b[h[n].kids[i]] = h[h[n].kids[i]]
        BY <2>2, <1>3
    <2>7. \A m \in Held(b, S) : h[n].kids[i] \in Range(b[m].kids) => m = n
        BY <2>4, <2>5
    <2> QED
        BY <2>1, <2>3, <2>5, <2>6, <2>7
<1>11. \E rank : Ranked(b, rank)
    <2>1. PICK rank : Ranked(h, rank)
        BY DEF Forest
    <2> DEFINE new == [n \in DOMAIN b |-> IF n = top THEN 0 ELSE rank[n]]
    <2>2. new \in [DOMAIN b -> Nat]
        BY <2>1, <1>5 DEF Ranked
    <2>3. ASSUME NEW n \in DOMAIN b
          PROVE  /\ \A i \in DOMAIN b[n].kids : new[b[n].kids[i]] < new[n]
                 /\ b[n].father # Null => new[n] < new[b[n].father]
        <3>1. CASE n = top
            BY <3>1, <1>3, <1>4
        <3>2. CASE n # top
            <4>1. n \in DOMAIN h /\ b[n] = h[n]
                BY <3>2, <1>3, <1>5
            <4>2. h[n].father # Null => h[n].father \in DOMAIN h
                BY <4>1 DEF Forest, HeapOK
            <4>3. \A i \in DOMAIN h[n].kids : h[n].kids[i] \in DOMAIN h
                BY <4>1 DEF Forest, HeapOK, Range
            <4> QED
                BY <4>1, <4>2, <4>3, <2>1, <1>5 DEF Ranked
        <3> QED
            BY <3>1, <3>2
    <2>4. PICK bound \in Nat : \A n \in DOMAIN h : rank[n] < bound
        BY <2>1 DEF Ranked
    <2>5. \A n \in DOMAIN b : new[n] < bound + 1
        BY <2>1, <2>4, <1>5 DEF Ranked
    <2>6. bound + 1 \in Nat
        OBVIOUS
    <2>7. Ranked(b, new)
        BY <2>2, <2>3, <2>5, <2>6 DEF Ranked
    <2> QED
        BY <2>7
<1> QED
    BY <1>3, <1>6, <1>8, <1>10, <1>11 DEF Forest, b, leaf, top

LEMMA SameLength ==
    ASSUME NEW a \in Nat, NEW b \in Nat, 1 .. a = 1 .. b
    PROVE  a = b
<1>1. a # 0 => a \in 1 .. b
    OBVIOUS
<1>2. b # 0 => b \in 1 .. a
    OBVIOUS
<1> QED
    BY <1>1, <1>2

(* What t is when node f of h has taken kids. *)
HasTaken(h, t, f, kids) ==
    /\ t \in Seq(NodeRecord) /\ DOMAIN t = DOMAIN h /\ Len(t) = Len(h)
    /\ \A n \in DOMAIN h :
         /\ t[n].kind = h[n].kind /\ t[n].scope = h[n].scope
         /\ t[n].father = IF n \in Range(kids) THEN f ELSE h[n].father
         /\ n # f => t[n].kids = h[n].kids
    /\ t[f].kids = h[f].kids \o kids

LEMMA TakeShape ==
    ASSUME NEW h \in Seq(NodeRecord), NEW f \in DOMAIN h, NEW kids \in Seq(Nat)
    PROVE  HasTaken(h, Take(h, f, kids), f, kids)
<1> DEFINE g == [h EXCEPT ![f].kids = @ \o kids]
           t == Take(h, f, kids)
<1>1. /\ Len(h) \in Nat /\ DOMAIN h = 1 .. Len(h) /\ f \in Nat
      /\ \A n \in DOMAIN h : h[n] \in NodeRecord /\ h[n].kids \in Seq(Nat)
    BY HeapType
<1>2. h[f].kids \o kids \in Seq(Nat)
    BY <1>1, RangeConcat
<1>3. /\ DOMAIN g = DOMAIN h
      /\ \A n \in DOMAIN h : n # f => g[n] = h[n]
      /\ g[f] = [h[f] EXCEPT !.kids = @ \o kids]
    BY <1>1
<1>4. /\ g[f].kids = h[f].kids \o kids /\ g[f].kind = h[f].kind
      /\ g[f].scope = h[f].scope /\ g[f].father = h[f].father
      /\ g[f] \in NodeRecord
    BY <1>1, <1>2, <1>3 DEF NodeRecord
<1>5. \A n \in DOMAIN h : g[n] \in NodeRecord
    BY <1>1, <1>3, <1>4
<1>6. t = [n \in DOMAIN h |-> IF n \in Range(kids) THEN [g[n] EXCEPT !.father = f] ELSE g[n]]
    BY <1>3 DEF Take, Adopt
<1> HIDE DEF g, t
<1>7. \A n \in DOMAIN h :
        /\ t[n] \in NodeRecord /\ t[n].kind = g[n].kind /\ t[n].scope = g[n].scope
        /\ t[n].kids = g[n].kids
        /\ t[n].father = IF n \in Range(kids) THEN f ELSE g[n].father
    BY <1>1, <1>5, <1>6 DEF NodeRecord
<1>8. t \in [1 .. Len(h) -> NodeRecord]
    BY <1>1, <1>6, <1>7
<1>9. t \in Seq(NodeRecord) /\ Len(t) = Len(h) /\ DOMAIN t = DOMAIN h
    <2>1. t \in UNION {[1 .. k -> NodeRecord] : k \in Nat}
        BY <1>1, <1>8
    <2>2. t \in Seq(NodeRecord)
        BY <2>1, SeqDef, Zenon
    <2>3. Len(t) \in Nat /\ DOMAIN t = 1 .. Len(t)
        BY <2>2, LenProperties
    <2>4. DOMAIN t = 1 .. Len(h)
        BY <1>8
    <2>5. Len(t) = Len(h)
        BY <2>3, <2>4, <1>1, SameLength
    <2> QED
        BY <2>2, <2>4, <2>5, <1>1
<1> HIDE DEF NodeRecord
<1>10. \A n \in DOMAIN h :
        /\ g[n].kind = h[n].kind /\ g[n].scope = h[n].scope /\ g[n].father = h[n].father
        /\ n # f => g[n].kids = h[n].kids
    BY <1>3, <1>4
<1>11. \A n \in DOMAIN h :
        /\ t[n].kind = h[n].kind /\ t[n].scope = h[n].scope
        /\ t[n].father = IF n \in Range(kids) THEN f ELSE h[n].father
        /\ n # f => t[n].kids = h[n].kids
    BY <1>7, <1>10
<1>12. t[f].kids = h[f].kids \o kids
    BY <1>4, <1>7
<1>13. HasTaken(h, t, f, kids)
    BY <1>9, <1>11, <1>12 DEF HasTaken
<1> QED
    BY <1>13 DEF t

LEMMA TakenKids ==
    ASSUME NEW h \in Seq(NodeRecord), NEW f \in DOMAIN h, NEW kids \in Seq(Nat)
    PROVE  /\ DOMAIN Take(h, f, kids) = DOMAIN h /\ Len(Take(h, f, kids)) = Len(h)
           /\ \A n \in DOMAIN h : n # f => Take(h, f, kids)[n].kids = h[n].kids
           /\ Range(Take(h, f, kids)[f].kids) = Range(h[f].kids) \cup Range(kids)
<1> DEFINE t == Take(h, f, kids)
<1>1. /\ DOMAIN t = DOMAIN h /\ Len(t) = Len(h)
      /\ \A n \in DOMAIN h : n # f => t[n].kids = h[n].kids
      /\ t[f].kids = h[f].kids \o kids
    <2>1. HasTaken(h, t, f, kids)
        BY TakeShape
    <2> HIDE DEF t
    <2> QED
        BY <2>1 DEF HasTaken
<1>2. h[f].kids \in Seq(Nat)
    BY HeapType
<1>3. Range(h[f].kids \o kids) = Range(h[f].kids) \cup Range(kids)
    BY <1>2, RangeConcat
<1> QED
    BY <1>1, <1>3

(* The nodes are the same, apart from their fathers and children. *)
SameNodes(h, t) ==
    /\ Len(t) = Len(h) /\ DOMAIN t = DOMAIN h
    /\ \A n \in DOMAIN h : t[n].kind = h[n].kind /\ t[n].scope = h[n].scope

(* There is one more node. *)
OneMore(h, b, kind, scope) ==
    /\ Len(h) \in Nat /\ DOMAIN h = 1 .. Len(h)
    /\ Len(b) = Len(h) + 1 /\ DOMAIN b = 1 .. Len(h) + 1
    /\ b[Len(h) + 1].kind = kind /\ b[Len(h) + 1].scope = scope
    /\ \A n \in DOMAIN h : b[n].kind = h[n].kind /\ b[n].scope = h[n].scope

(* The root f takes nodes of its scope which no other node keeps, and of   *)
(* the roots R there remain S.                                             *)
CanTake(h, R, f, kids, S) ==
    /\ f \in R /\ h[f].kind # "param"
    /\ kids \in Seq(Nat) /\ Range(kids) \subseteq DOMAIN h /\ f \notin Range(kids)
    /\ \A c \in Range(kids) : h[c].scope = ScopeOf(h, f)
    /\ S \subseteq R /\ S \cap Range(kids) = {}
    /\ Held(Take(h, f, kids), S) \subseteq Held(h, R)
    /\ \A n \in Held(Take(h, f, kids), S) : Range(h[n].kids) \cap Range(kids) = {}

LEMMA TakeKeeps ==
    ASSUME NEW h, NEW R, NEW f, NEW kids, NEW S, Forest(h, R), CanTake(h, R, f, kids, S)
    PROVE  Forest(Take(h, f, kids), S) /\ SameNodes(h, Take(h, f, kids))
<1> USE DEF CanTake
<1> DEFINE t == Take(h, f, kids)
<1>1. /\ h \in Seq(NodeRecord) /\ Len(h) \in Nat /\ DOMAIN h = 1 .. Len(h) /\ f \in DOMAIN h
      /\ \A n \in DOMAIN h : h[n] \in NodeRecord /\ h[n].kids \in Seq(Nat)
      /\ \A n \in DOMAIN h : DOMAIN h[n].kids = 1 .. Len(h[n].kids) /\ Len(h[n].kids) \in Nat
    BY HeapType DEF Forest, HeapOK, RootsOK
<1>2. /\ t \in Seq(NodeRecord) /\ DOMAIN t = DOMAIN h /\ Len(t) = Len(h)
      /\ \A n \in DOMAIN h :
           /\ t[n].kind = h[n].kind /\ t[n].scope = h[n].scope
           /\ t[n].father = IF n \in Range(kids) THEN f ELSE h[n].father
           /\ n # f => t[n].kids = h[n].kids
      /\ t[f].kids = h[f].kids \o kids
    <2>1. HasTaken(h, t, f, kids)
        BY <1>1, TakeShape
    <2> HIDE DEF t
    <2> QED
        BY <2>1 DEF HasTaken
<1> HIDE DEF t
<1>3. /\ Range(t[f].kids) = Range(h[f].kids) \cup Range(kids)
      /\ \A i \in DOMAIN t[f].kids :
           IF i \in DOMAIN h[f].kids THEN t[f].kids[i] = h[f].kids[i] ELSE t[f].kids[i] \in Range(kids)
    <2>1. h[f].kids \in Seq(Nat) /\ Len(kids) \in Nat /\ DOMAIN kids = 1 .. Len(kids)
        BY <1>1, LenProperties
    <2>2. /\ t[f].kids \in Seq(Nat) /\ Range(t[f].kids) = Range(h[f].kids) \cup Range(kids)
          /\ Len(t[f].kids) = Len(h[f].kids) + Len(kids)
          /\ \A i \in 1 .. Len(h[f].kids) : t[f].kids[i] = h[f].kids[i]
          /\ \A i \in Len(h[f].kids) + 1 .. Len(h[f].kids) + Len(kids) :
                t[f].kids[i] = kids[i - Len(h[f].kids)] /\ i - Len(h[f].kids) \in DOMAIN kids
        BY <2>1, <1>2, RangeConcat
    <2>3. DOMAIN t[f].kids = 1 .. Len(h[f].kids) + Len(kids)
        BY <2>2, LenProperties
    <2>4. \A i \in Len(h[f].kids) + 1 .. Len(h[f].kids) + Len(kids) : t[f].kids[i] \in Range(kids)
        BY <2>2 DEF Range
    <2>5. ASSUME NEW i \in DOMAIN t[f].kids
          PROVE  IF i \in DOMAIN h[f].kids THEN t[f].kids[i] = h[f].kids[i] ELSE t[f].kids[i] \in Range(kids)
        <3>1. i \in 1 .. Len(h[f].kids) + Len(kids) /\ DOMAIN h[f].kids = 1 .. Len(h[f].kids)
            BY <2>3, <1>1
        <3>2. i \in 1 .. Len(h[f].kids) \/ i \in Len(h[f].kids) + 1 .. Len(h[f].kids) + Len(kids)
            BY <3>1, <2>1, <1>1
        <3> QED
            BY <3>1, <3>2, <2>2, <2>4
    <2> QED
        BY <2>2, <2>5
<1>4. \A n \in DOMAIN h : Range(h[n].kids) \subseteq DOMAIN h /\ \A i \in DOMAIN h[n].kids : h[n].kids[i] \in DOMAIN h
    BY DEF Forest, HeapOK, Range
<1>5. /\ h[f].father = Null /\ \A m \in DOMAIN h : f \notin Range(h[m].kids)
      /\ \A r \in S : h[r].father = Null /\ r \in DOMAIN h /\ \A m \in DOMAIN h : r \notin Range(h[m].kids)
    BY DEF Forest, RootsOK
<1>6. HeapOK(t)
    <2> SUFFICES ASSUME NEW n \in DOMAIN h
                 PROVE  /\ t[n].father \in {Null} \cup DOMAIN h
                        /\ t[n].scope \in {Null} \cup DOMAIN h
                        /\ Range(t[n].kids) \subseteq DOMAIN h
                        /\ t[n].kind = "program" <=> n = 1
                        /\ t[n].scope = Null <=> n = 1
                        /\ t[n].scope # Null => t[t[n].scope].kind \in Scopes
                        /\ t[n].kind \in Scopes => t[n].scope < n
                        /\ t[n].kind = "param" => t[n].kids = << >>
        BY <1>2 DEF HeapOK
    <2>1. /\ h[n].father \in {Null} \cup DOMAIN h
          /\ h[n].scope \in {Null} \cup DOMAIN h
          /\ h[n].kind = "program" <=> n = 1
          /\ h[n].scope = Null <=> n = 1
          /\ h[n].scope # Null => h[h[n].scope].kind \in Scopes
          /\ h[n].kind \in Scopes => h[n].scope < n
          /\ h[n].kind = "param" => h[n].kids = << >>
        BY DEF Forest, HeapOK
    <2>2. Range(t[n].kids) \subseteq DOMAIN h
        BY <1>2, <1>3, <1>4
    <2>3. t[n].father \in {Null} \cup DOMAIN h
        BY <2>1, <1>1, <1>2
    <2>4. t[n].kind = "param" => t[n].kids = << >>
        BY <2>1, <1>2
    <2>5. t[n].scope # Null => t[t[n].scope].kind \in Scopes
        BY <2>1, <1>2
    <2> QED
        BY <2>1, <2>2, <2>3, <2>4, <2>5, <1>2
<1>7. RootsOK(t, S)
    BY <1>1, <1>2, <1>3, <1>5 DEF RootsOK
<1>8. KidsOK(t, S)
    <2> SUFFICES ASSUME NEW n \in Held(t, S), NEW i \in DOMAIN t[n].kids
                 PROVE  /\ \/ t[t[n].kids[i]].father = n
                           \/ t[n].kind = "proc" /\ t[t[n].kids[i]].kind = "param" /\ i > 1
                        /\ t[t[n].kids[i]].scope = ScopeOf(t, n)
                        /\ \A m \in Held(t, S) : t[n].kids[i] \in Range(t[m].kids) => m = n
        BY DEF KidsOK
    <2> DEFINE c == t[n].kids[i]
    <2>1. /\ Held(t, S) \subseteq Held(h, R) /\ Held(t, S) \subseteq DOMAIN h
          /\ \A m \in Held(t, S) : Range(h[m].kids) \cap Range(kids) = {}
        BY <1>2 DEF t, Held
    <2>2. ScopeOf(t, n) = ScopeOf(h, n)
        BY <2>1, <1>2 DEF ScopeOf
    <2>3. CASE i \in DOMAIN h[n].kids /\ c = h[n].kids[i]
        <3>1. c \in Range(h[n].kids) /\ c \in DOMAIN h /\ c \notin Range(kids)
            BY <2>1, <2>3, <1>4 DEF Range
        <3>2. /\ \/ h[c].father = n
                 \/ h[n].kind = "proc" /\ h[c].kind = "param" /\ i > 1
              /\ h[c].scope = ScopeOf(h, n)
              /\ \A m \in Held(h, R) : c \in Range(h[m].kids) => m = n
            BY <2>1, <2>3 DEF Forest, KidsOK
        <3> HIDE DEF c
        <3>3. \A m \in Held(t, S) : c \in Range(t[m].kids) => c \in Range(h[m].kids)
            BY <3>1, <2>1, <1>2, <1>3
        <3>4. \A m \in Held(t, S) : c \in Range(t[m].kids) => m = n
            BY <3>2, <3>3, <2>1
        <3>5. t[c].father = h[c].father /\ t[c].kind = h[c].kind /\ t[c].scope = h[c].scope
            BY <3>1, <1>2
        <3>6. t[n].kind = h[n].kind
            BY <2>1, <1>2
        <3> QED
            BY <3>2, <3>4, <3>5, <3>6, <2>2 DEF c
    <2>4. CASE n = f /\ c \in Range(kids)
        <3>1. c \in DOMAIN h /\ h[c].scope = ScopeOf(h, f)
            BY <2>4
        <3>2. t[c].father = n /\ t[c].scope = ScopeOf(t, n)
            BY <3>1, <2>2, <2>4, <1>2
        <3>3. \A m \in Held(t, S) : c \in Range(t[m].kids) => m = n
            BY <2>1, <2>4, <1>2
        <3> QED
            BY <3>2, <3>3
    <2> QED
        BY <2>1, <2>3, <2>4, <1>2, <1>3
<1>9. \E rank : Ranked(t, rank)
    <2>1. PICK rank : Ranked(h, rank)
        BY DEF Forest
    <2>2. PICK bound \in Nat : \A n \in DOMAIN h : rank[n] < bound
        BY <2>1 DEF Ranked
    <2> DEFINE new == [n \in DOMAIN t |-> IF n = f THEN bound ELSE rank[n]]
    <2>3. new \in [DOMAIN t -> Nat] /\ bound + 1 \in Nat /\ \A n \in DOMAIN t : new[n] < bound + 1
        BY <2>1, <2>2, <1>2 DEF Ranked
    <2>4. ASSUME NEW n \in DOMAIN t
          PROVE  /\ \A i \in DOMAIN t[n].kids : new[t[n].kids[i]] < new[n]
                 /\ t[n].father # Null => new[n] < new[t[n].father]
        <3>1. /\ n \in DOMAIN h /\ rank[n] \in Nat
              /\ \A i \in DOMAIN h[n].kids : rank[h[n].kids[i]] < rank[n]
              /\ h[n].father # Null => rank[n] < rank[h[n].father] /\ h[n].father \in DOMAIN h
            BY <2>1, <1>2 DEF Ranked, Forest, HeapOK
        <3>2. \A c \in DOMAIN h : rank[c] < bound /\ rank[c] \in Nat
            BY <2>1, <2>2 DEF Ranked
        <3>3. ASSUME NEW i \in DOMAIN t[n].kids PROVE new[t[n].kids[i]] < new[n]
            <4>1. CASE n = f
                <5>1. t[n].kids[i] \in DOMAIN h /\ t[n].kids[i] # f
                    <6>1. t[n].kids[i] \in Range(h[f].kids) \/ t[n].kids[i] \in Range(kids)
                        BY <4>1, <1>3 DEF Range
                    <6> QED
                        BY <6>1, <4>1, <3>1, <1>4, <1>5
                <5> QED
                    BY <5>1, <4>1, <3>2, <1>2
            <4>2. CASE n # f
                <5>1. i \in DOMAIN h[n].kids /\ t[n].kids[i] = h[n].kids[i]
                    BY <4>2, <3>1, <1>2
                <5>2. h[n].kids[i] \in DOMAIN h /\ h[n].kids[i] # f
                    BY <5>1, <3>1, <1>4, <1>5 DEF Range
                <5> QED
                    BY <5>1, <5>2, <4>2, <3>1, <1>2
            <4> QED
                BY <4>1, <4>2
        <3>4. ASSUME t[n].father # Null PROVE new[n] < new[t[n].father]
            <4>1. CASE n \in Range(kids)
                BY <4>1, <3>1, <3>2, <1>1, <1>2
            <4>2. CASE n \notin Range(kids)
                <5>1. t[n].father = h[n].father /\ n # f
                    BY <4>2, <3>1, <3>4, <1>2, <1>5
                <5> QED
                    BY <5>1, <3>1, <3>2, <3>4, <1>2
            <4> QED
                BY <4>1, <4>2
        <3> QED
            BY <3>3, <3>4
    <2>5. Ranked(t, new)
        BY <2>3, <2>4 DEF Ranked
    <2> QED
        BY <2>5
<1> QED
    BY <1>2, <1>6, <1>7, <1>8, <1>9 DEF Forest, SameNodes, t
(* A root takes other roots. *)
LEMMA TakeRootsKeeps ==
    ASSUME NEW h, NEW R, Forest(h, R), NEW f \in R, h[f].kind # "param",
           NEW kids \in Seq(Nat), Range(kids) \subseteq R \ {f},
           \A c \in Range(kids) : h[c].scope = ScopeOf(h, f)
    PROVE  Forest(Take(h, f, kids), R \ Range(kids)) /\ SameNodes(h, Take(h, f, kids))
<1> DEFINE t == Take(h, f, kids)
           S == R \ Range(kids)
<1>1. /\ h \in Seq(NodeRecord) /\ f \in DOMAIN h /\ Range(kids) \subseteq DOMAIN h /\ R \subseteq DOMAIN h
      /\ \A r \in R : \A m \in DOMAIN h : r \notin Range(h[m].kids)
      /\ h[f].kids \in Seq(Nat)
    BY HeapType DEF Forest, HeapOK, RootsOK
<1>2. /\ DOMAIN t = DOMAIN h /\ Len(t) = Len(h)
      /\ \A n \in DOMAIN h : n # f => t[n].kids = h[n].kids
      /\ Range(t[f].kids) = Range(h[f].kids) \cup Range(kids)
    BY <1>1, TakenKids
<1> HIDE DEF t, S
<1>3. Held(t, S) \subseteq Held(h, R)
    BY <1>1, <1>2 DEF Held, S
<1>4. \A n \in Held(t, S) : Range(h[n].kids) \cap Range(kids) = {}
    BY <1>1, <1>2 DEF Held
<1>5. f \notin Range(kids) /\ S \subseteq R /\ S \cap Range(kids) = {}
    BY DEF S
<1>6. CanTake(h, R, f, kids, S)
    BY <1>1, <1>3, <1>4, <1>5 DEF CanTake, t
<1>7. Forest(t, S) /\ SameNodes(h, t)
    BY <1>6, TakeKeeps DEF t
<1> QED
    BY <1>7 DEF t, S

(* A root takes the children of another one, which is dropped. *)
LEMMA MoveKidsKeeps ==
    ASSUME NEW h, NEW R, Forest(h, R), NEW f \in R, h[f].kind # "param",
           NEW s \in R, f # s, ScopeOf(h, f) = ScopeOf(h, s)
    PROVE  Forest(Take(h, f, h[s].kids), R \ {s}) /\ SameNodes(h, Take(h, f, h[s].kids))
<1> DEFINE kids == h[s].kids
           t    == Take(h, f, kids)
           S    == R \ {s}
<1>1. /\ h \in Seq(NodeRecord) /\ f \in DOMAIN h /\ s \in DOMAIN h /\ R \subseteq DOMAIN h
      /\ Range(kids) \subseteq DOMAIN h
      /\ \A r \in R : \A m \in DOMAIN h : r \notin Range(h[m].kids)
      /\ h[f].kids \in Seq(Nat) /\ kids \in Seq(Nat)
    BY HeapType DEF Forest, HeapOK, RootsOK
<1>2. s \in Held(h, R)
    BY <1>1 DEF Held
<1>3. \A c \in Range(kids) :
        /\ h[c].scope = ScopeOf(h, f)
        /\ \A m \in Held(h, R) : c \in Range(h[m].kids) => m = s
    BY <1>2 DEF Forest, KidsOK, Range
<1>4. /\ DOMAIN t = DOMAIN h /\ Len(t) = Len(h)
      /\ \A n \in DOMAIN h : n # f => t[n].kids = h[n].kids
      /\ Range(t[f].kids) = Range(h[f].kids) \cup Range(kids)
    BY <1>1, TakenKids
<1>5. f \notin Range(kids) /\ S \subseteq R /\ S \cap Range(kids) = {}
    BY <1>1
<1> HIDE DEF t, kids, S
<1>6. Held(t, S) \subseteq Held(h, R)
    BY <1>1, <1>4 DEF Held, kids, S
<1>7. s \notin Held(t, S)
    BY <1>1, <1>4 DEF Held, kids, S
<1>8. \A n \in Held(t, S) : Range(h[n].kids) \cap Range(kids) = {}
    BY <1>3, <1>6, <1>7
<1>9. \A c \in Range(kids) : h[c].scope = ScopeOf(h, f)
    BY <1>3
<1>10. CanTake(h, R, f, kids, S)
    BY <1>1, <1>5, <1>6, <1>8, <1>9 DEF CanTake, t
<1>11. Forest(t, S) /\ SameNodes(h, t)
    BY <1>10, TakeKeeps DEF t
<1> QED
    BY <1>11 DEF t, S, kids

LEMMA DropKeeps ==
    ASSUME NEW h, NEW R, Forest(h, R), NEW S, S \subseteq R
    PROVE  Forest(h, S)
<1>1. Held(h, S) \subseteq Held(h, R)
    BY DEF Held
<1>2. KidsOK(h, S)
    BY <1>1 DEF Forest, KidsOK
<1>3. RootsOK(h, S)
    BY DEF Forest, RootsOK
<1> QED
    BY <1>2, <1>3 DEF Forest

LEMMA RangeSingle ==
    ASSUME NEW x
    PROVE  Range(<<x>>) = {x} /\ DOMAIN <<x>> = {1} /\ <<x>>[1] = x
<1>1. DOMAIN <<x>> = {1} /\ <<x>>[1] = x
    OBVIOUS
<1> QED
    BY <1>1 DEF Range

LEMMA AppendIs ==
    ASSUME NEW T, NEW s \in Seq(T), NEW e \in T
    PROVE  Append(s, e) = [n \in 1 .. Len(s) + 1 |-> IF n = Len(s) + 1 THEN e ELSE s[n]]
<1>1. Len(s) \in Nat /\ DOMAIN s = 1 .. Len(s)
    BY LenProperties
<1>2. Append(s, e) \in Seq(T) /\ Len(Append(s, e)) = Len(s) + 1
    BY <1>1
<1>3. DOMAIN Append(s, e) = 1 .. Len(s) + 1
    BY <1>2, LenProperties
<1>4. \A n \in 1 .. Len(s) + 1 : Append(s, e)[n] = IF n = Len(s) + 1 THEN e ELSE s[n]
    BY <1>1
<1>5. Append(s, e) = [n \in DOMAIN Append(s, e) |-> Append(s, e)[n]]
    BY <1>2, LenProperties
<1> QED
    BY <1>3, <1>4, <1>5

LEMMA BuildIsTake ==
    ASSUME NEW h \in Seq(NodeRecord), NEW kind \in Kinds, NEW kids \in Seq(Nat), NEW scope \in Nat
    PROVE  Build(h, kind, kids, scope) = Take(Append(h, Node(kind, << >>, scope)), Len(h) + 1, kids)
<1> DEFINE top  == Len(h) + 1
           leaf == Node(kind, << >>, scope)
           node == Node(kind, kids, scope)
           a    == Append(h, node)
           b    == Append(h, leaf)
           c    == [b EXCEPT ![top].kids = @ \o kids]
<1>1. Len(h) \in Nat /\ DOMAIN h = 1 .. Len(h) /\ leaf \in NodeRecord /\ node \in NodeRecord
    BY HeapType, EmptySeq DEF Node, NodeRecord, Null
<1>2. /\ a = [n \in 1 .. top |-> IF n = top THEN node ELSE h[n]]
      /\ b = [n \in 1 .. top |-> IF n = top THEN leaf ELSE h[n]]
    BY <1>1, AppendIs
<1>3. << >> \o kids = kids
    BY ConcatEmptySeq
<1>4. [leaf EXCEPT !.kids = @ \o kids] = node
    BY <1>3 DEF Node
<1> HIDE DEF leaf, node
<1>5. c = [n \in 1 .. top |-> IF n = top THEN [leaf EXCEPT !.kids = @ \o kids] ELSE h[n]]
    BY <1>1, <1>2
<1>6. a = c
    BY <1>2, <1>4, <1>5
<1> QED
    BY <1>6 DEF Build, Take, leaf, node

(* A new node takes roots, and is one. *)
CanBuild(h, R, kind, kids, scope) ==
    /\ kind \in Kinds \ (Scopes \cup {"param"})
    /\ kids \in Seq(Nat) /\ Range(kids) \subseteq R
    /\ scope \in DOMAIN h /\ h[scope].kind \in Scopes
    /\ \A c \in Range(kids) : h[c].scope = scope

LEMMA BuildKeeps ==
    ASSUME NEW h, NEW R, NEW kind, NEW kids, NEW scope, Forest(h, R), CanBuild(h, R, kind, kids, scope),
           NEW b, b = Build(h, kind, kids, scope)
    PROVE  Forest(b, (R \ Range(kids)) \cup {Len(h) + 1}) /\ OneMore(h, b, kind, scope)
<1> USE DEF CanBuild
<1> DEFINE top == Len(h) + 1
           a   == Append(h, Node(kind, << >>, scope))
           t   == Take(a, top, kids)
<1>1. /\ h \in Seq(NodeRecord) /\ Len(h) \in Nat /\ DOMAIN h = 1 .. Len(h)
      /\ scope \in Nat /\ R \subseteq DOMAIN h
    BY HeapType DEF Forest, HeapOK, RootsOK
<1>2. Build(h, kind, kids, scope) = t
    BY <1>1, BuildIsTake
<1>3. /\ Forest(a, R \cup {top})
      /\ Len(a) = top /\ a[top] = Node(kind, << >>, scope)
      /\ \A n \in DOMAIN h : a[n] = h[n]
    BY LeafKeeps
<1>4. DOMAIN a = 1 .. top
    BY <1>3, HeapType DEF Forest, HeapOK
<1>5. a[top].kind = kind /\ a[top].scope = scope
    BY <1>3 DEF Node
<1> HIDE DEF a
<1>6. ScopeOf(a, top) = scope
    BY <1>5 DEF ScopeOf
<1>7. top \in R \cup {top} /\ Range(kids) \subseteq (R \cup {top}) \ {top} /\ top \notin Range(kids)
    BY <1>1
<1>8. \A c \in Range(kids) : a[c].scope = ScopeOf(a, top)
    BY <1>1, <1>3, <1>6
<1> DEFINE S == R \cup {top}
<1>12. Forest(a, S) /\ top \in S /\ Range(kids) \subseteq S \ {top} /\ a[top].kind # "param"
    BY <1>3, <1>5, <1>7
<1> HIDE DEF S, top
<1>9. Forest(t, S \ Range(kids)) /\ SameNodes(a, t)
    BY <1>8, <1>12, TakeRootsKeeps
<1> HIDE DEF t
<1> USE DEF S, top
<1>10. (R \cup {top}) \ Range(kids) = (R \ Range(kids)) \cup {top}
    BY <1>7
<1>11. DOMAIN t = 1 .. top
    BY <1>4, <1>9 DEF SameNodes
<1>13. b = t
    BY <1>2
<1>14. Forest(b, (R \ Range(kids)) \cup {top})
    BY <1>9, <1>10, <1>13
<1>15. top \in DOMAIN a /\ \A n \in DOMAIN h : n \in DOMAIN a
    BY <1>1, <1>4
<1>16. b[top].kind = kind /\ b[top].scope = scope
    BY <1>5, <1>9, <1>13, <1>15 DEF SameNodes
<1>17. \A n \in DOMAIN h : b[n].kind = h[n].kind /\ b[n].scope = h[n].scope
    BY <1>3, <1>9, <1>13, <1>15 DEF SameNodes
<1>18. Len(b) = top
    BY <1>3, <1>9, <1>13 DEF SameNodes
<1> QED
    BY <1>1, <1>11, <1>13, <1>14, <1>16, <1>17, <1>18 DEF OneMore
--------------------------------------------------------------------------------
(* The heads of functions *)

LEMMA GroupsShape ==
    ASSUME NEW n \in Nat, heap \in Seq(NodeRecord), Innermost \in Nat
    PROVE  LET L == Len(heap)
               g == Groups(n)
               h == heap \o g
               f == HeadOf(n)
           IN  /\ L \in Nat /\ DOMAIN heap = 1 .. L
               /\ h \in Seq(NodeRecord) /\ Len(h) = L + Len(g) /\ Len(h) \in Nat /\ DOMAIN h = 1 .. Len(h)
               /\ f \in L + 1 .. Len(h) /\ h[f].kind = "proc"
               /\ \A m \in 1 .. L : h[m] = heap[m]
               /\ \A m \in L + 1 .. Len(h) :
                    \/ /\ h[m].kind = "param" /\ h[m].kids = << >> /\ h[m].scope = f
                       /\ h[m].father \in L + 1 .. Len(h) /\ h[h[m].father].kind = "proc"
                    \/ /\ h[m].kind = "proc" /\ h[m].father = Null /\ h[m].scope = Innermost
                       /\ \A c \in Range(h[m].kids) : c \in L + 1 .. Len(h) /\ h[c].kind = "param"
               /\ \A i \in DOMAIN h[f].kids : i > 1 \/ h[h[f].kids[i]].father = f
<1> DEFINE L == Len(heap)
           g == Groups(n)
           h == heap \o g
           f == HeadOf(n)
<1>1. L \in Nat /\ DOMAIN heap = 1 .. L
    BY HeapType
<1>2. CASE n = 0
    <2>1. g = <<Node("proc", << >>, Innermost)>>
        BY <1>2 DEF Groups
    <2>2. Node("proc", << >>, Innermost) \in NodeRecord
        BY EmptySeq DEF Node, NodeRecord, Kinds, Scopes, Null
    <2>3. g \in Seq(NodeRecord) /\ Len(g) = 1 /\ g[1] = Node("proc", << >>, Innermost)
        BY <2>1, <2>2
    <2>4. f = L + 1
        BY <1>2 DEF HeadOf
    <2> HIDE DEF g, f
    <2>5. h \in Seq(NodeRecord) /\ Len(h) = L + 1 /\ DOMAIN h = 1 .. L + 1
        <3>1. h \in Seq(NodeRecord) /\ Len(h) = L + Len(g)
            BY <2>3, ConcatProperties
        <3> HIDE DEF h
        <3> QED
            BY <3>1, <2>3, LenProperties
    <2>6. h[L + 1] = Node("proc", << >>, Innermost) /\ \A m \in 1 .. L : h[m] = heap[m]
        BY <1>1, <2>3, ConcatProperties
    <2> HIDE DEF h
    <2>7. /\ h[L + 1].kind = "proc" /\ h[L + 1].father = Null /\ h[L + 1].scope = Innermost
          /\ h[L + 1].kids = << >> /\ DOMAIN h[L + 1].kids = {} /\ Range(h[L + 1].kids) = {}
        BY <2>6 DEF Node, Range
    <2> QED
        BY <1>1, <2>3, <2>4, <2>5, <2>6, <2>7 DEF g, h, f
<1>3. CASE n # 0
    <2> DEFINE types == [i \in 1 .. n |-> L + 2 * i - 1]
               param(k) == [Node("param", << >>, L + 2) EXCEPT !.father = L + k + 1]
               proc(k) == Node("proc", IF k > 2 THEN <<L + k - 1>> ELSE types, Innermost)
    <2>1. g = [k \in 1 .. 2 * n |-> IF k % 2 = 1 THEN param(k) ELSE proc(k)]
        BY <1>3 DEF Groups
    <2>2. f = L + 2 /\ 2 * n \in Nat /\ 2 * n >= 2 /\ 2 * n \in Nat
        BY <1>3 DEF HeadOf
    <2>3. /\ types \in Seq(Nat) /\ DOMAIN types = 1 .. n
          /\ \A i \in 1 .. n : types[i] = L + 2 * i - 1
        <3>1. types \in [1 .. n -> Nat]
            BY <1>1
        <3>2. types \in UNION {[1 .. k -> Nat] : k \in Nat}
            BY <3>1
        <3>3. types \in Seq(Nat)
            BY <3>2, SeqDef, Zenon
        <3> QED
            BY <3>3
    <2> HIDE DEF types
    <2>4. ASSUME NEW k \in 1 .. 2 * n
          PROVE  /\ param(k) \in NodeRecord /\ param(k).kind = "param" /\ param(k).kids = << >>
                 /\ param(k).scope = L + 2 /\ param(k).father = L + k + 1
        <3>1. param(k) = [kind |-> "param", father |-> L + k + 1, kids |-> << >>, scope |-> L + 2]
            BY DEF Node
        <3>2. L + k + 1 \in Nat /\ L + 2 \in Nat /\ << >> \in Seq(Nat) /\ "param" \in Kinds
            BY <1>1, EmptySeq DEF Kinds
        <3> HIDE DEF L, param
        <3> QED
            BY <3>1, <3>2 DEF NodeRecord
    <2>5. ASSUME NEW k \in 1 .. 2 * n
          PROVE  /\ proc(k) \in NodeRecord /\ proc(k).kind = "proc" /\ proc(k).father = Null
                 /\ proc(k).scope = Innermost
                 /\ proc(k).kids = IF k > 2 THEN <<L + k - 1>> ELSE types
        <3>1. k > 2 => <<L + k - 1>> \in Seq(Nat)
            BY <1>1
        <3> QED
            BY <1>1, <2>3, <3>1 DEF Node, NodeRecord, Kinds, Scopes, Null
    <2> HIDE DEF param, proc
    <2>6. g \in [1 .. 2 * n -> NodeRecord]
        BY <2>1, <2>4, <2>5
    <2>7. g \in Seq(NodeRecord) /\ Len(g) = 2 * n
        <3>1. g \in UNION {[1 .. k -> NodeRecord] : k \in Nat}
            BY <2>2, <2>6
        <3>2. g \in Seq(NodeRecord)
            BY <3>1, SeqDef, Zenon
        <3>3. Len(g) \in Nat /\ 1 .. Len(g) = 1 .. 2 * n
            BY <3>2, <2>6, LenProperties
        <3> QED
            BY <3>2, <3>3, <2>2, SameLength
    <2>8. \A k \in 1 .. 2 * n : g[k] = IF k % 2 = 1 THEN param(k) ELSE proc(k)
        BY <2>1
    <2> HIDE DEF g, f
    <2>9. h \in Seq(NodeRecord) /\ Len(h) = L + 2 * n /\ DOMAIN h = 1 .. L + 2 * n /\ L + 2 * n \in Nat
        <3>1. h \in Seq(NodeRecord) /\ Len(h) = L + 2 * n
            BY <1>1, <2>2, <2>7, ConcatProperties
        <3>2. DOMAIN h = 1 .. Len(h)
            BY <3>1, LenProperties
        <3> HIDE DEF h
        <3> QED
            BY <3>1, <3>2, <1>1, <2>2
    <2>10. \A m \in 1 .. L : h[m] = heap[m]
        BY <1>1, <2>2, <2>7, ConcatProperties
    <2>11. \A k \in 1 .. 2 * n : h[L + k] = g[k]
        BY <1>1, <2>2, <2>7, ConcatProperties
    <2> HIDE DEF h, L
    <2>12. ASSUME NEW k \in 1 .. 2 * n, k % 2 = 1
           PROVE  /\ h[L + k].kind = "param" /\ h[L + k].kids = << >> /\ h[L + k].scope = L + 2
                  /\ h[L + k].father = L + k + 1
                  /\ k + 1 \in 1 .. 2 * n /\ (k + 1) % 2 # 1
        <3>1. h[L + k] = param(k)
            BY <2>8, <2>11, <2>12
        <3>2. k # 2 * n
            BY <2>12
        <3>3. (k + 1) % 2 # 1
            BY <2>12
        <3> QED
            BY <2>4, <3>1, <3>2, <3>3
    <2>13. ASSUME NEW k \in 1 .. 2 * n, k % 2 # 1
           PROVE  /\ h[L + k].kind = "proc" /\ h[L + k].father = Null /\ h[L + k].scope = Innermost
                  /\ h[L + k].kids = IF k > 2 THEN <<L + k - 1>> ELSE types
        BY <2>5, <2>8, <2>11, <2>13
    <2>14. \A i \in 1 .. n : 2 * i - 1 \in 1 .. 2 * n /\ (2 * i - 1) % 2 = 1
        <3> SUFFICES ASSUME NEW i \in 1 .. n PROVE 2 * i - 1 \in 1 .. 2 * n /\ (2 * i - 1) % 2 = 1
            OBVIOUS
        <3> QED
            OBVIOUS
    <2>15. ASSUME NEW k \in 1 .. 2 * n, k % 2 # 1
           PROVE  \A c \in Range(h[L + k].kids) : c \in L + 1 .. L + 2 * n /\ h[c].kind = "param"
        <3>1. CASE k > 2
            <4>1. k - 1 \in 1 .. 2 * n /\ (k - 1) % 2 = 1
                BY <2>15, <3>1
            <4>2. h[L + (k - 1)].kind = "param"
                BY <2>12, <4>1
            <4>3. Range(h[L + k].kids) = {L + (k - 1)}
                <5>1. h[L + k].kids = <<L + k - 1>> /\ L + k - 1 = L + (k - 1)
                    BY <2>13, <2>15, <3>1, <1>1
                <5> QED
                    BY <5>1, RangeSingle
            <4> QED
                BY <1>1, <4>1, <4>2, <4>3
        <3>2. CASE ~(k > 2)
            <4>1. h[L + k].kids = types
                BY <2>13, <2>15, <3>2
            <4>2. ASSUME NEW i \in 1 .. n PROVE types[i] \in L + 1 .. L + 2 * n /\ h[types[i]].kind = "param"
                <5> DEFINE j == 2 * i - 1
                <5>1. types[i] = L + j /\ j \in 1 .. 2 * n /\ j % 2 = 1
                    BY <2>3, <2>14, <1>1
                <5> HIDE DEF j
                <5>2. h[L + j].kind = "param"
                    BY <5>1, <2>12
                <5> QED
                    BY <5>1, <5>2, <1>1
            <4> QED
                BY <4>1, <4>2, <2>3 DEF Range
        <3> QED
            BY <3>1, <3>2
    <2>16. ASSUME NEW m \in L + 1 .. L + 2 * n
           PROVE  \/ /\ h[m].kind = "param" /\ h[m].kids = << >> /\ h[m].scope = L + 2
                     /\ h[m].father \in L + 1 .. L + 2 * n /\ h[h[m].father].kind = "proc"
                  \/ /\ h[m].kind = "proc" /\ h[m].father = Null /\ h[m].scope = Innermost
                     /\ \A c \in Range(h[m].kids) : c \in L + 1 .. L + 2 * n /\ h[c].kind = "param"
        <3>1. PICK k \in 1 .. 2 * n : m = L + k
            <4>1. m - L \in 1 .. 2 * n /\ m = L + (m - L)
                BY <1>1, <2>2
            <4> QED
                BY <4>1
        <3>2. CASE k % 2 = 1
            <4>1. h[L + (k + 1)].kind = "proc"
                BY <2>12, <2>13, <3>2
            <4>2. /\ h[L + k].father = L + k + 1 /\ k + 1 \in 1 .. 2 * n
                  /\ h[L + k].kind = "param" /\ h[L + k].kids = << >> /\ h[L + k].scope = L + 2
                BY <2>12, <3>2
            <4>3. L + k + 1 = L + (k + 1) /\ L + (k + 1) \in L + 1 .. L + 2 * n
                BY <4>2, <1>1, <2>2
            <4> QED
                BY <4>1, <4>2, <4>3, <3>1
        <3>3. CASE k % 2 # 1
            BY <3>1, <3>3, <2>13, <2>15
        <3> QED
            BY <3>2, <3>3
    <2>17. /\ h[L + 2].kind = "proc" /\ h[L + 2].kids = types
           /\ L + 2 \in L + 1 .. L + 2 * n
        <3>1. 2 \in 1 .. 2 * n /\ 2 % 2 # 1 /\ ~(2 > 2)
            BY <2>2
        <3>2. h[L + 2].kind = "proc" /\ h[L + 2].kids = types
            BY <3>1, <2>13
        <3> QED
            BY <3>2, <2>2, <1>1
    <2>18. ASSUME NEW i \in 1 .. n PROVE i > 1 \/ h[types[i]].father = L + 2
        <3>1. i = 1 => types[i] = L + 1
            BY <2>3, <1>1
        <3>2. h[L + 1].father = L + 2
            BY <2>2, <2>12, <1>1
        <3> QED
            BY <3>1, <3>2
    <2>19. /\ h \in Seq(NodeRecord) /\ Len(h) = L + Len(g) /\ Len(h) \in Nat /\ DOMAIN h = 1 .. Len(h)
           /\ f \in L + 1 .. Len(h) /\ h[f].kind = "proc"
           /\ \A m \in 1 .. L : h[m] = heap[m]
        BY <2>2, <2>7, <2>9, <2>10, <2>17
    <2>20. \A m \in L + 1 .. Len(h) :
             \/ /\ h[m].kind = "param" /\ h[m].kids = << >> /\ h[m].scope = f
                /\ h[m].father \in L + 1 .. Len(h) /\ h[h[m].father].kind = "proc"
             \/ /\ h[m].kind = "proc" /\ h[m].father = Null /\ h[m].scope = Innermost
                /\ \A c \in Range(h[m].kids) : c \in L + 1 .. Len(h) /\ h[c].kind = "param"
        BY <2>2, <2>9, <2>16
    <2>21. \A i \in DOMAIN h[f].kids : i > 1 \/ h[h[f].kids[i]].father = f
        BY <2>2, <2>3, <2>17, <2>18
    <2> QED
        BY <1>1, <2>19, <2>20, <2>21 DEF g, h, f, L
<1> QED
    BY <1>2, <1>3

LEMMA HeadKeeps ==
    ASSUME NEW R, Forest(heap, R), NEW n \in Nat, Innermost \in DOMAIN heap, heap[Innermost].kind \in Scopes
    PROVE  LET h == heap \o Groups(n)
               f == HeadOf(n)
           IN  /\ Forest(h, R \cup {f})
               /\ Len(heap) \in Nat /\ DOMAIN heap = 1 .. Len(heap)
               /\ Len(h) \in Nat /\ DOMAIN h = 1 .. Len(h)
               /\ f \in Len(heap) + 1 .. Len(h) /\ h[f].kind = "proc" /\ h[f].scope = Innermost
               /\ \A m \in DOMAIN heap : m \in DOMAIN h /\ h[m] = heap[m]
<1> DEFINE L == Len(heap)
           h == heap \o Groups(n)
           f == HeadOf(n)
           S == R \cup {f}
           Old == 1 .. L
           New == L + 1 .. Len(h)
<1>1. heap \in Seq(NodeRecord) /\ Innermost \in Nat
    BY HeapType DEF Forest, HeapOK
<1>2. /\ L \in Nat /\ DOMAIN heap = Old
      /\ h \in Seq(NodeRecord) /\ Len(h) = L + Len(Groups(n)) /\ Len(h) \in Nat /\ DOMAIN h = 1 .. Len(h)
      /\ f \in New /\ h[f].kind = "proc"
      /\ \A m \in Old : h[m] = heap[m]
      /\ \A i \in DOMAIN h[f].kids : i > 1 \/ h[h[f].kids[i]].father = f
    BY <1>1, GroupsShape
<1>3. \A m \in New :
        \/ /\ h[m].kind = "param" /\ h[m].kids = << >> /\ h[m].scope = f
           /\ h[m].father \in New /\ h[h[m].father].kind = "proc"
        \/ /\ h[m].kind = "proc" /\ h[m].father = Null /\ h[m].scope = Innermost
           /\ \A c \in Range(h[m].kids) : c \in New /\ h[c].kind = "param"
    BY <1>1, GroupsShape
<1> HIDE DEF h, f, L
<1>4. \A m \in DOMAIN h : (m \in Old \/ m \in New) /\ ~(m \in Old /\ m \in New)
    BY <1>2
<1>5. New \subseteq DOMAIN h /\ Old \subseteq DOMAIN h /\ 1 \notin New /\ f \in Nat /\ 1 \in Old
    BY <1>1, <1>2
<1> HIDE DEF Old, New
<1>6. \A m \in Old :
        /\ heap[m].father \in {Null} \cup Old
        /\ heap[m].scope \in {Null} \cup Old
        /\ Range(heap[m].kids) \subseteq Old
        /\ heap[m].kind = "program" <=> m = 1
        /\ heap[m].scope = Null <=> m = 1
        /\ heap[m].scope # Null => heap[heap[m].scope].kind \in Scopes
        /\ heap[m].kind \in Scopes => heap[m].scope < m
        /\ heap[m].kind = "param" => heap[m].kids = << >>
    BY <1>2 DEF Forest, HeapOK
<1>7. \A m \in New : m > Innermost /\ Innermost # Null
    BY <1>1, <1>2 DEF New, Old, Null
<1>8. HeapOK(h)
    <2> SUFFICES ASSUME NEW m \in DOMAIN h
                 PROVE  /\ h[m].father \in {Null} \cup DOMAIN h
                        /\ h[m].scope \in {Null} \cup DOMAIN h
                        /\ Range(h[m].kids) \subseteq DOMAIN h
                        /\ h[m].kind = "program" <=> m = 1
                        /\ h[m].scope = Null <=> m = 1
                        /\ h[m].scope # Null => h[h[m].scope].kind \in Scopes
                        /\ h[m].kind \in Scopes => h[m].scope < m
                        /\ h[m].kind = "param" => h[m].kids = << >>
        BY <1>2 DEF HeapOK
    <2>1. CASE m \in Old
        BY <2>1, <1>2, <1>5, <1>6
    <2>2. CASE m \in New /\ h[m].kind = "param"
        <3>1. /\ h[m].kids = << >> /\ h[m].scope = f /\ h[m].father \in New /\ f # Null
            BY <2>2, <1>2, <1>3, <1>7 DEF New, Null
        <3>2. Range(h[m].kids) = {}
            BY <3>1 DEF Range
        <3> QED
            BY <2>2, <3>1, <3>2, <1>2, <1>5 DEF Scopes
    <2>3. CASE m \in New /\ h[m].kind = "proc"
        <3>1. /\ h[m].scope = Innermost /\ h[m].father = Null /\ Range(h[m].kids) \subseteq New
            BY <2>3, <1>3
        <3>2. h[Innermost].kind \in Scopes /\ Innermost \in DOMAIN h
            BY <1>2, <1>5
        <3> QED
            BY <2>3, <3>1, <3>2, <1>5, <1>7 DEF Scopes
    <2> QED
        BY <2>1, <2>2, <2>3, <1>3, <1>4
<1>9. RootsOK(h, S)
    <2>1. R \subseteq Old /\ \A r \in R : heap[r].father = Null /\ \A m \in Old : r \notin Range(heap[m].kids)
        BY <1>2 DEF Forest, RootsOK
    <2>2. \A m \in New : Range(h[m].kids) \subseteq New /\ f \notin Range(h[m].kids)
        <3>1. \A m \in New : h[m].kind = "param" => Range(h[m].kids) = {}
            BY <1>3 DEF Range
        <3> QED
            BY <3>1, <1>2, <1>3
    <2>3. h[f].father = Null
        BY <1>2, <1>3
    <2>4. \A m \in Old : Range(h[m].kids) \subseteq Old
        BY <1>2, <1>6
    <2> QED
        BY <2>1, <2>2, <2>3, <2>4, <1>2, <1>4, <1>5 DEF RootsOK
<1>10. \A m \in Held(h, S) : m \in Held(heap, R) \/ m = f \/ (m \in New /\ h[m].kind = "param")
    <2> SUFFICES ASSUME NEW m \in Held(h, S), m # f, ~(m \in New /\ h[m].kind = "param")
                 PROVE  m \in Held(heap, R)
        OBVIOUS
    <2>1. CASE m \in R
        BY <2>1 DEF Forest, RootsOK, Held
    <2>2. CASE m \notin R
        <3>1. PICK p \in DOMAIN h : m \in Range(h[p].kids)
            BY <2>2 DEF Held
        <3>2. CASE p \in Old
            BY <3>1, <3>2, <1>2, <1>6 DEF Held
        <3>3. CASE p \in New
            BY <3>1, <3>3, <1>3 DEF Range
        <3> QED
            BY <3>2, <3>3, <1>4
    <2> QED
        BY <2>1, <2>2
<1>11. KidsOK(h, S)
    <2> SUFFICES ASSUME NEW m \in Held(h, S), NEW i \in DOMAIN h[m].kids
                 PROVE  /\ \/ h[h[m].kids[i]].father = m
                           \/ h[m].kind = "proc" /\ h[h[m].kids[i]].kind = "param" /\ i > 1
                        /\ h[h[m].kids[i]].scope = ScopeOf(h, m)
                        /\ \A p \in Held(h, S) : h[m].kids[i] \in Range(h[p].kids) => p = m
        BY DEF KidsOK
    <2>1. CASE m \in Held(heap, R)
        <3>1. m \in Old /\ h[m] = heap[m] /\ heap[m].kids[i] \in Range(heap[m].kids)
            BY <2>1, <1>2 DEF Held, Range
        <3>2. heap[m].kids[i] \in Old
            BY <3>1, <1>6
        <3>3. /\ \/ heap[heap[m].kids[i]].father = m
                 \/ heap[m].kind = "proc" /\ heap[heap[m].kids[i]].kind = "param" /\ i > 1
              /\ heap[heap[m].kids[i]].scope = ScopeOf(heap, m)
              /\ \A p \in Held(heap, R) : heap[m].kids[i] \in Range(heap[p].kids) => p = m
            BY <2>1, <3>1 DEF Forest, KidsOK
        <3>4. ScopeOf(h, m) = ScopeOf(heap, m)
            BY <3>1 DEF ScopeOf
        <3>5. ASSUME NEW p \in Held(h, S), heap[m].kids[i] \in Range(h[p].kids) PROVE p = m
            <4>1. p \in Old
                <5>1. \A q \in New : Range(h[q].kids) \subseteq New
                    BY <1>3 DEF Range
                <5> QED
                    BY <5>1, <3>2, <3>5, <1>2, <1>4, <1>5 DEF Held
            <4>2. p \in Held(heap, R)
                BY <4>1, <1>2, <1>4, <1>5, <1>10
            <4> QED
                BY <4>1, <4>2, <3>3, <3>5, <1>2
        <3> QED
            BY <3>1, <3>2, <3>3, <3>4, <3>5, <1>2
    <2>2. CASE m = f
        <3>1. h[f].kids[i] \in Range(h[f].kids)
            BY <2>2 DEF Range
        <3>2. h[f].kids[i] \in New /\ h[h[f].kids[i]].kind = "param"
            BY <3>1, <1>2, <1>3
        <3>3. i \in DOMAIN h[f].kids /\ i \in Nat
            <4>1. DOMAIN h[f].kids = 1 .. Len(h[f].kids) /\ Len(h[f].kids) \in Nat
                BY <1>2, <1>5, HeapType
            <4> QED
                BY <2>2, <4>1
        <3>4. h[h[f].kids[i]].scope = f /\ ScopeOf(h, f) = f
            BY <3>2, <1>2, <1>3 DEF ScopeOf, Scopes
        <3>5. h[h[f].kids[i]].father = f \/ i > 1
            BY <3>3, <1>2
        <3>6. ASSUME NEW p \in Held(h, S), h[f].kids[i] \in Range(h[p].kids) PROVE p = f
            <4>1. CASE p \in Held(heap, R)
                BY <4>1, <3>2, <3>6, <1>2, <1>4, <1>5, <1>6 DEF Held
            <4>2. CASE p \in New /\ h[p].kind = "param"
                BY <4>2, <3>6, <1>3 DEF Range
            <4> QED
                BY <4>1, <4>2, <1>10
        <3> QED
            BY <2>2, <3>2, <3>4, <3>5, <3>6, <1>2
    <2>3. CASE m \in New /\ h[m].kind = "param"
        BY <2>3, <1>3
    <2> QED
        BY <2>1, <2>2, <2>3, <1>10
<1>12. \E rank : Ranked(h, rank)
    <2>1. PICK rank : Ranked(heap, rank)
        BY DEF Forest
    <2>2. PICK bound \in Nat : \A m \in Old : rank[m] < bound
        BY <2>1, <1>2 DEF Ranked
    <2> DEFINE new == [m \in DOMAIN h |-> IF m \in Old THEN rank[m] ELSE IF h[m].kind = "param" THEN 0 ELSE 1]
    <2>3. \A m \in Old : rank[m] \in Nat
        BY <2>1, <1>2 DEF Ranked
    <2>4. /\ new \in [DOMAIN h -> Nat] /\ bound + 2 \in Nat
          /\ \A m \in DOMAIN h : new[m] < bound + 2
        BY <2>2, <2>3
    <2>5. ASSUME NEW m \in DOMAIN h
          PROVE  /\ \A i \in DOMAIN h[m].kids : new[h[m].kids[i]] < new[m]
                 /\ h[m].father # Null => new[m] < new[h[m].father]
        <3>1. CASE m \in Old
            <4>1. h[m] = heap[m]
                BY <3>1, <1>2
            <4>2. heap[m].father # Null => heap[m].father \in Old
                BY <3>1, <1>6
            <4>3. \A i \in DOMAIN heap[m].kids : heap[m].kids[i] \in Old
                BY <3>1, <1>6 DEF Range
            <4>4. /\ \A i \in DOMAIN heap[m].kids : rank[heap[m].kids[i]] < rank[m]
                  /\ heap[m].father # Null => rank[m] < rank[heap[m].father]
                BY <3>1, <2>1, <1>2 DEF Ranked
            <4> QED
                BY <3>1, <4>1, <4>2, <4>3, <4>4, <1>5
        <3>2. CASE m \in New /\ h[m].kind = "param"
            <4>1. h[m].kids = << >> /\ h[m].father \in New /\ h[h[m].father].kind = "proc"
                BY <3>2, <1>3
            <4>2. new[m] = 0 /\ new[h[m].father] = 1
                BY <4>1, <3>2, <1>4, <1>5
            <4> QED
                BY <4>1, <4>2
        <3>3. CASE m \in New /\ h[m].kind = "proc"
            <4>1. h[m].father = Null /\ \A i \in DOMAIN h[m].kids : h[m].kids[i] \in New /\ h[h[m].kids[i]].kind = "param"
                BY <3>3, <1>3 DEF Range
            <4>2. new[m] = 1 /\ \A i \in DOMAIN h[m].kids : new[h[m].kids[i]] = 0
                BY <4>1, <3>3, <1>4, <1>5
            <4> QED
                BY <4>1, <4>2
        <3> QED
            BY <3>1, <3>2, <3>3, <1>3, <1>4
    <2>6. Ranked(h, new)
        BY <2>4, <2>5 DEF Ranked
    <2> QED
        BY <2>6
<1>13. h[f].scope = Innermost
    BY <1>2, <1>3
<1>14. Forest(h, S)
    BY <1>8, <1>9, <1>11, <1>12 DEF Forest
<1> QED
    BY <1>2, <1>5, <1>13, <1>14 DEF h, f, L, Old, New

(* A procedure's head becomes that of a function, and the father of its    *)
(* children.                                                               *)
BecomesFunction(h, g, f) ==
    /\ g \in Seq(NodeRecord) /\ DOMAIN g = DOMAIN h
    /\ \A n \in DOMAIN h :
          /\ g[n].kind = IF n = f THEN "func" ELSE h[n].kind
          /\ g[n].scope = h[n].scope /\ g[n].kids = h[n].kids
          /\ g[n].father = IF n \in Range(h[f].kids) THEN f ELSE h[n].father

LEMMA FunctionKeeps ==
    ASSUME NEW h, NEW R, Forest(h, R), NEW f \in R, h[f].kind = "proc", NEW g, BecomesFunction(h, g, f)
    PROVE  Forest(g, R)
<1> USE DEF BecomesFunction
<1>1. f \in DOMAIN h /\ f \in Held(h, R) /\ Range(h[f].kids) \subseteq DOMAIN h
    BY DEF Forest, RootsOK, HeapOK, Held
<1>2. Held(g, R) = Held(h, R)
    BY DEF Held
<1>3. HeapOK(g)
    <2> SUFFICES ASSUME NEW n \in DOMAIN h
                 PROVE  /\ g[n].father \in {Null} \cup DOMAIN h
                        /\ g[n].scope \in {Null} \cup DOMAIN h
                        /\ Range(g[n].kids) \subseteq DOMAIN h
                        /\ g[n].kind = "program" <=> n = 1
                        /\ g[n].scope = Null <=> n = 1
                        /\ g[n].scope # Null => g[g[n].scope].kind \in Scopes
                        /\ g[n].kind \in Scopes => g[n].scope < n
                        /\ g[n].kind = "param" => g[n].kids = << >>
        BY DEF HeapOK
    <2>1. /\ h[n].father \in {Null} \cup DOMAIN h
          /\ h[n].scope \in {Null} \cup DOMAIN h
          /\ Range(h[n].kids) \subseteq DOMAIN h
          /\ h[n].kind = "program" <=> n = 1
          /\ h[n].scope = Null <=> n = 1
          /\ h[n].scope # Null => h[h[n].scope].kind \in Scopes
          /\ h[n].kind \in Scopes => h[n].scope < n
          /\ h[n].kind = "param" => h[n].kids = << >>
        BY DEF Forest, HeapOK
    <2>2. \A m \in DOMAIN h : g[m].kind \in Scopes <=> h[m].kind \in Scopes
        BY DEF Scopes
    <2>3. g[n].father \in {Null} \cup DOMAIN h
        BY <2>1, <1>1
    <2>4. g[n].kind = "program" <=> h[n].kind = "program"
        BY <1>1
    <2>5. g[n].kind = "param" => h[n].kind = "param"
        BY <1>1
    <2>6. h[n].scope # Null => h[n].scope \in DOMAIN h
        BY <2>1
    <2> QED
        BY <2>1, <2>2, <2>3, <2>4, <2>5, <2>6
<1>4. RootsOK(g, R)
    BY <1>1 DEF Forest, RootsOK
<1>5. KidsOK(g, R)
    <2> SUFFICES ASSUME NEW n \in Held(h, R), NEW i \in DOMAIN h[n].kids
                 PROVE  /\ \/ g[h[n].kids[i]].father = n
                           \/ g[n].kind = "proc" /\ g[h[n].kids[i]].kind = "param" /\ i > 1
                        /\ g[h[n].kids[i]].scope = ScopeOf(g, n)
                        /\ \A m \in Held(h, R) : h[n].kids[i] \in Range(g[m].kids) => m = n
        BY <1>2 DEF KidsOK, Held
    <2> DEFINE c == h[n].kids[i]
    <2>1. n \in DOMAIN h /\ c \in DOMAIN h /\ c \in Range(h[n].kids)
        BY DEF Held, Forest, HeapOK, Range
    <2>2. /\ \/ h[c].father = n
             \/ h[n].kind = "proc" /\ h[c].kind = "param" /\ i > 1
          /\ h[c].scope = ScopeOf(h, n)
          /\ \A m \in Held(h, R) : c \in Range(h[m].kids) => m = n
        BY DEF Forest, KidsOK
    <2> HIDE DEF c
    <2>3. ScopeOf(g, n) = ScopeOf(h, n)
        BY <2>1 DEF ScopeOf, Scopes
    <2>4. c # f
        BY <2>1 DEF Forest, RootsOK
    <2>5. CASE n = f
        BY <2>1, <2>2, <2>3, <2>5, Zenon DEF c, Held
    <2>6. CASE n # f
        <3>1. c \notin Range(h[f].kids)
            BY <2>2, <2>6, <1>1
        <3> QED
            BY <2>1, <2>2, <2>3, <2>4, <2>6, <3>1 DEF c, Held
    <2> QED
        BY <2>5, <2>6
<1>6. \E rank : Ranked(g, rank)
    <2>1. PICK rank : Ranked(h, rank)
        BY DEF Forest
    <2>2. \A n \in DOMAIN h : n \in Range(h[f].kids) => rank[n] < rank[f]
        BY <2>1, <1>1 DEF Ranked, Range
    <2>3. Ranked(g, rank)
        BY <2>1, <2>2 DEF Ranked
    <2> QED
        BY <2>3
<1> QED
    BY <1>3, <1>4, <1>5, <1>6 DEF Forest
--------------------------------------------------------------------------------
(* The parser's stack *)

(* The least-number principle *)
LEMMA Least ==
    ASSUME NEW T, T \subseteq Nat, T # {}
    PROVE  \E x \in T : \A y \in T : x <= y
<1> DEFINE R == OpToRel(<, Nat)
<1>1. IsWellFoundedOn(R, Nat)
    BY NatLessThanWellFounded
<1>2. \A x, y \in Nat : y < x => <<y, x>> \in R
    BY DEF OpToRel
<1> HIDE DEF R
<1>3. PICK x \in T : \A y \in T : ~(<<y, x>> \in R)
    BY <1>1, WFMin
<1>4. ASSUME NEW y \in T PROVE x <= y
    <2>1. x \in Nat /\ y \in Nat /\ ~(y < x)
        BY <1>2, <1>3
    <2> QED
        BY <2>1
<1> QED
    BY <1>4

ValueRecord(W) == [sort : Sorts, nodes : Seq(Nat), want : W]

LEMMA StackType ==
    ASSUME TypeOK
    PROVE  /\ Depth \in Nat /\ DOMAIN stack = 1 .. Depth
           /\ \A k \in 1 .. Depth :
                /\ stack[k].sort \in Sorts /\ stack[k].nodes \in Seq(Nat)
                /\ stack[k] = Value(stack[k].sort, stack[k].nodes, stack[k].want)
                /\ Range(stack[k].nodes) \subseteq Nodes
                /\ Range(stack[k].nodes) \subseteq Roots
<1> DEFINE W == {stack[k].want : k \in 1 .. Depth}
<1>1. stack \in Seq(ValueRecord(W))
    BY DEF TypeOK, ValueRecord
<1> HIDE DEF W
<1>2. Depth \in Nat /\ DOMAIN stack = 1 .. Depth /\ \A k \in 1 .. Depth : stack[k] \in ValueRecord(W)
    BY <1>1, LenProperties, ElementOfSeq DEF Depth
<1>3. \A r \in ValueRecord(W) :
        r.sort \in Sorts /\ r.nodes \in Seq(Nat) /\ r = Value(r.sort, r.nodes, r.want)
    BY DEF ValueRecord, Value
<1>4. \A k \in 1 .. Depth : Range(stack[k].nodes) \subseteq Nodes
    BY DEF TypeOK, Range
<1>5. \A k \in 1 .. Depth : Range(stack[k].nodes) \subseteq Roots
    BY DEF Roots
<1> QED
    BY <1>2, <1>3, <1>4, <1>5

LEMMA TypeFrom ==
    ASSUME HeapOK(heap'), stack' \in Seq(ValueRecord({stack'[k].want : k \in 1 .. Depth'})),
           \A k \in 1 .. Depth' : Range(stack'[k].nodes) \subseteq DOMAIN heap',
           status' \in {"parsing", "parsed", "error"}
    PROVE  TypeOK'
<1>1. heap' \in Seq(NodeRecord) /\ DOMAIN heap' = Nodes'
    BY HeapType DEF HeapOK, Nodes
<1>2. \A n \in Nodes' :
        /\ heap'[n].father \in {Null} \cup Nodes' /\ heap'[n].scope \in {Null} \cup Nodes'
        /\ \A i \in DOMAIN heap'[n].kids : heap'[n].kids[i] \in Nodes'
    BY <1>1 DEF HeapOK, Range
<1>3. \A k \in 1 .. Depth' : \A i \in DOMAIN stack'[k].nodes : stack'[k].nodes[i] \in Nodes'
    BY <1>1 DEF Range
<1>4. heap' \in Seq([kind : Kinds, father : Nat, kids : Seq(Nat), scope : Nat])
    BY <1>1 DEF NodeRecord
<1>5. stack' \in Seq([sort : Sorts, nodes : Seq(Nat), want : {stack'[k].want : k \in 1 .. Depth'}])
    BY DEF ValueRecord
<1> QED
    BY <1>2, <1>3, <1>4, <1>5 DEF TypeOK

(* What is left of the stack, and what is new *)
LEMMA ReduceIs ==
    ASSUME TypeOK, NEW k \in 0 .. Depth, NEW sort \in Sorts, NEW nodes \in Seq(Nat), NEW want,
           Reduce(k, Value(sort, nodes, want))
    PROVE  /\ Depth' = Depth - k + 1 /\ Depth' \in Nat
           /\ stack'[Depth'] = Value(sort, nodes, want)
           /\ stack'[Depth'].sort = sort /\ stack'[Depth'].nodes = nodes
           /\ \A i \in 1 .. Depth - k : stack'[i] = stack[i]
           /\ stack' \in Seq(ValueRecord({stack'[i].want : i \in 1 .. Depth'}))
<1> DEFINE old == SubSeq(stack, 1, Depth - k)
           V   == {stack[i] : i \in 1 .. Depth - k}
           v   == Value(sort, nodes, want)
<1>1. Depth \in Nat /\ Depth - k \in 0 .. Depth /\ \A i \in 1 .. Depth - k : i \in 1 .. Depth /\ stack[i] \in V
    BY StackType
<1>2. old \in Seq(V) /\ Len(old) = Depth - k /\ \A i \in 1 .. Depth - k : old[i] = stack[i]
    <2>1. PICK d : d = Depth - k
        OBVIOUS
    <2>2. d \in Nat /\ \A i \in 1 .. d : stack[i] \in V
        BY <1>1, <2>1
    <2>3. old = [i \in 1 .. d |-> stack[i]]
        <3>1. SubSeq(stack, 1, d) = [i \in 1 .. d |-> stack[i]]
            BY <2>2
        <3> QED
            BY <2>1, <3>1
    <2> HIDE DEF old, V
    <2>4. old \in [1 .. d -> V]
        BY <2>2, <2>3
    <2>5. old \in Seq(V) /\ Len(old) = d
        BY <2>2, <2>4
    <2> QED
        BY <2>1, <2>3, <2>5
<1>3. old \in Seq(V \cup {v}) /\ v \in V \cup {v}
    BY <1>2, SeqMonotonic
<1>4. stack' = Append(old, v)
    BY DEF Reduce
<1> HIDE DEF old, V, v
<1>5. /\ stack' \in Seq(V \cup {v}) /\ Len(stack') = Depth - k + 1
      /\ stack' = [n \in 1 .. Depth - k + 1 |-> IF n = Depth - k + 1 THEN v ELSE old[n]]
    <2> DEFINE S == V \cup {v}
    <2>1. old \in Seq(S) /\ v \in S
        BY <1>3
    <2> HIDE DEF S
    <2>2. Append(old, v) = [n \in 1 .. Len(old) + 1 |-> IF n = Len(old) + 1 THEN v ELSE old[n]]
        BY <2>1, AppendIs
    <2>3. Append(old, v) \in Seq(S) /\ Len(Append(old, v)) = Len(old) + 1
        BY <2>1
    <2> QED
        BY <2>2, <2>3, <1>2, <1>4 DEF S
<1>6. /\ Depth' = Depth - k + 1 /\ Depth' \in Nat /\ stack'[Depth'] = v
      /\ \A i \in 1 .. Depth - k : stack'[i] = stack[i]
    BY <1>1, <1>2, <1>5 DEF Depth
<1>7. v.sort = sort /\ v.nodes = nodes
    BY DEF v, Value
<1> DEFINE W == {stack'[i].want : i \in 1 .. Depth'}
<1>8. ASSUME NEW i \in 1 .. Depth' PROVE stack'[i] \in ValueRecord(W)
    <2>1. stack'[i].want \in W
        OBVIOUS
    <2> HIDE DEF W
    <2>2. CASE i = Depth'
        BY <2>1, <2>2, <1>6 DEF ValueRecord, Value, v
    <2>3. CASE i # Depth'
        <3>1. i \in 1 .. Depth /\ stack'[i] = stack[i]
            BY <2>3, <1>1, <1>6
        <3>2. /\ stack[i].sort \in Sorts /\ stack[i].nodes \in Seq(Nat)
              /\ stack[i] = Value(stack[i].sort, stack[i].nodes, stack[i].want)
            BY <3>1, StackType
        <3>3. \A w \in W : Value(stack[i].sort, stack[i].nodes, w) \in ValueRecord(W)
            BY <3>2 DEF ValueRecord, Value
        <3> QED
            BY <3>1, <3>2, <3>3, <2>1
    <2> QED
        BY <2>2, <2>3
<1>9. stack' \in [1 .. Depth' -> ValueRecord(W)]
    <2> HIDE DEF W
    <2> QED
        BY <1>5, <1>6, <1>8
<1>10. stack' \in Seq(ValueRecord(W))
    <2> HIDE DEF W
    <2>1. stack' \in UNION {[1 .. n -> ValueRecord(W)] : n \in Nat}
        BY <1>6, <1>9
    <2> QED
        BY <2>1, SeqDef, Zenon
<1> QED
    BY <1>6, <1>7, <1>10 DEF v

(* Below every position but the first there is a head. *)
LEMMA SomeHead ==
    ASSUME TypeOK, ValuesOK, NEW L \in 1 .. Depth
    PROVE  \E i \in 1 .. L : stack[i].sort = "head" /\ \A j \in i + 1 .. L : stack[j].sort # "head"
<1> DEFINE Heads == {i \in 1 .. L : stack[i].sort = "head"}
           T == {L - i : i \in Heads}
<1>1. L \in Nat /\ 1 \in Heads
    BY StackType DEF ValuesOK
<1>2. T \subseteq Nat /\ T # {}
    BY <1>1
<1>3. PICK x \in T : \A y \in T : x <= y
    <2> HIDE DEF T
    <2> QED
        BY <1>2, Least
<1>4. PICK i \in Heads : x = L - i
    OBVIOUS
<1>5. \A j \in Heads : L - i <= L - j
    BY <1>3, <1>4
<1> QED
    BY <1>1, <1>5

LEMMA InnermostIs ==
    ASSUME TypeOK, ValuesOK
    PROVE  /\ \E i \in 1 .. Depth : HeadBelow(i, Depth + 1) /\ Innermost = stack[i].nodes[1]
           /\ Innermost \in Roots /\ heap[Innermost].kind \in Scopes
<1> DEFINE Latest(i) == stack[i].sort = "head" /\ \A j \in i + 1 .. Depth : stack[j].sort # "head"
           top == CHOOSE i \in 1 .. Depth : Latest(i)
<1>1. Depth \in Nat /\ Depth \in 1 .. Depth
    BY StackType DEF ValuesOK
<1>2. PICK i \in 1 .. Depth : Latest(i)
    BY <1>1, SomeHead
<1>3. top \in 1 .. Depth /\ Latest(top)
    <2> HIDE DEF Latest
    <2> QED
        BY <1>2
<1>4. Innermost = stack[top].nodes[1]
    BY DEF Innermost
<1> HIDE DEF top
<1>5. HeadBelow(top, Depth + 1)
    BY <1>1, <1>3 DEF HeadBelow
<1>6. stack[top].nodes \in Seq(Nat) /\ Len(stack[top].nodes) = 1 /\ heap[stack[top].nodes[1]].kind \in Scopes
    BY <1>3, StackType DEF ValuesOK, ValueOK
<1>7. stack[top].nodes[1] \in Range(stack[top].nodes)
    BY <1>6, LenProperties DEF Range
<1> QED
    BY <1>3, <1>4, <1>5, <1>6, <1>7, StackType

(* The nodes of the values above position L *)
Above(L) == UNION {Range(stack[i].nodes) : i \in L + 1 .. Depth}

(* A step replaces the values above position L. *)
Replaces(L) ==
    /\ status = "parsing" /\ status' = "parsing"
    /\ L \in 1 .. Depth /\ Depth' \in Nat /\ Depth' >= L /\ \A i \in 1 .. L : stack'[i] = stack[i]
    /\ stack' \in Seq(ValueRecord({stack'[i].want : i \in 1 .. Depth'}))
    /\ Forest(heap', (Roots \ Above(L)) \cup Above(L)')
    /\ Above(L)' \subseteq Above(L) \cup (DOMAIN heap' \ DOMAIN heap)
    /\ \A n \in DOMAIN heap :
          n \in DOMAIN heap' /\ heap'[n].kind = heap[n].kind /\ heap'[n].scope = heap[n].scope
    /\ \A k \in L + 1 .. Depth' :
        /\ stack'[k].sort # "defs" => Len(stack'[k].nodes) = 1
        /\ stack'[k].sort = "head" => heap'[stack'[k].nodes[1]].kind \in Scopes
        /\ stack'[k].sort \in {"list", "stm"} => heap'[stack'[k].nodes[1]].kind = "body"
        /\ \A l \in L + 1 .. Depth' : k # l => Range(stack'[k].nodes) \cap Range(stack'[l].nodes) = {}
        /\ \A i \in 1 .. k : HeadBelow(i, k)' =>
               \A r \in Range(stack'[k].nodes) : heap'[r].scope = stack'[i].nodes[1]

LEMMA ReplaceKeeps ==
    ASSUME TreeInv, NEW L, Replaces(L)
    PROVE  TreeInv'
<1> DEFINE Rest == UNION {Range(stack[i].nodes) : i \in 1 .. L}
<1>1. /\ TypeOK /\ ValuesOK /\ Forest(heap, Roots) /\ status = "parsing" /\ status' = "parsing"
      /\ Depth \in Nat /\ Depth' \in Nat /\ L \in Nat /\ L >= 1 /\ L <= Depth /\ L <= Depth'
    BY StackType DEF TreeInv, Replaces
<1>2. /\ \A i \in 1 .. L : i \in 1 .. Depth /\ i \in 1 .. Depth' /\ stack'[i] = stack[i]
      /\ \A i \in 1 .. Depth' : i \in 1 .. L \/ i \in L + 1 .. Depth'
      /\ \A i \in 1 .. Depth : i \in 1 .. L \/ i \in L + 1 .. Depth
      /\ \A i \in L + 1 .. Depth' : i \in 1 .. Depth' /\ i \notin 1 .. L
      /\ \A i \in L + 1 .. Depth : i \in 1 .. Depth /\ i \notin 1 .. L
    BY <1>1 DEF Replaces
<1>3. \A i \in 1 .. L : Range(stack[i].nodes) \cap Above(L) = {} /\ Range(stack[i].nodes) \subseteq DOMAIN heap
    <2>1. \A i \in 1 .. L : Range(stack[i].nodes) \subseteq Roots
        BY <1>1, <1>2, StackType
    <2>2. Roots \subseteq DOMAIN heap
        BY <1>1 DEF Forest, RootsOK
    <2>3. ASSUME NEW i \in 1 .. L, NEW r \in Range(stack[i].nodes), r \in Above(L)
          PROVE  FALSE
        <3>1. PICK j \in L + 1 .. Depth : r \in Range(stack[j].nodes)
            BY <2>3 DEF Above
        <3>2. i \in 1 .. Depth /\ j \in 1 .. Depth /\ i # j
            BY <1>2
        <3>3. Range(stack[i].nodes) \cap Range(stack[j].nodes) = {}
            BY <3>2, <1>1 DEF ValuesOK, ValueOK
        <3> QED
            BY <3>1, <3>3, <2>3
    <2> QED
        BY <2>1, <2>2, <2>3
<1>4. Roots = Rest \cup Above(L)
    <2>1. \A r \in Roots : r \in Rest \cup Above(L)
        BY <1>2 DEF Roots, Above
    <2>2. Rest \subseteq Roots /\ Above(L) \subseteq Roots
        BY <1>2 DEF Roots, Above
    <2> QED
        BY <2>1, <2>2
<1>5. Roots' = Rest \cup Above(L)'
    <2>1. ASSUME NEW r \in Roots' PROVE r \in Rest \cup Above(L)'
        <3>1. PICK i \in 1 .. Depth' : r \in Range(stack'[i].nodes)
            BY DEF Roots
        <3>2. CASE i \in 1 .. L
            BY <3>1, <3>2, <1>2
        <3>3. CASE i \in L + 1 .. Depth'
            BY <3>1, <3>3 DEF Above
        <3> QED
            BY <3>2, <3>3, <1>2
    <2>2. ASSUME NEW r \in Rest PROVE r \in Roots'
        BY <1>2 DEF Roots
    <2>3. ASSUME NEW r \in Above(L)' PROVE r \in Roots'
        BY <1>2 DEF Roots, Above
    <2> QED
        BY <2>1, <2>2, <2>3
<1>6. Rest \cap Above(L) = {}
    BY <1>3
<1>7. Roots' = (Roots \ Above(L)) \cup Above(L)'
    <2> HIDE DEF Rest
    <2> QED
        BY <1>4, <1>5, <1>6
<1>8. Forest(heap, Roots)'
    BY <1>7 DEF Replaces
<1>9. \A i \in 1 .. Depth' : Range(stack'[i].nodes) \subseteq DOMAIN heap'
    <2>1. Roots' \subseteq DOMAIN heap'
        BY <1>8 DEF Forest, RootsOK
    <2>2. \A i \in 1 .. Depth' : Range(stack'[i].nodes) \subseteq Roots'
        BY DEF Roots
    <2> QED
        BY <2>1, <2>2
<1>10. TypeOK'
    BY <1>1, <1>8, <1>9, TypeFrom DEF Forest, Replaces
<1>11. \A k \in 1 .. L : \A l \in L + 1 .. Depth' : Range(stack[k].nodes) \cap Range(stack'[l].nodes) = {}
    <2> SUFFICES ASSUME NEW k \in 1 .. L, NEW l \in L + 1 .. Depth',
                        NEW r \in Range(stack[k].nodes), r \in Range(stack'[l].nodes)
                 PROVE  FALSE
        OBVIOUS
    <2>1. r \in Above(L)'
        BY DEF Above
    <2> QED
        BY <2>1, <1>3 DEF Replaces
<1>12. ASSUME NEW k \in 1 .. L PROVE ValueOK(k)'
    <2>1. /\ stack[k].sort # "defs" => Len(stack[k].nodes) = 1
          /\ stack[k].sort = "head" => heap[stack[k].nodes[1]].kind \in Scopes
          /\ stack[k].sort \in {"list", "stm"} => heap[stack[k].nodes[1]].kind = "body"
          /\ \A l \in 1 .. Depth : k # l => Range(stack[k].nodes) \cap Range(stack[l].nodes) = {}
          /\ \A i \in 1 .. k : HeadBelow(i, k) =>
                 \A r \in Range(stack[k].nodes) : heap[r].scope = stack[i].nodes[1]
        BY <1>1, <1>2 DEF ValuesOK, ValueOK
    <2>2. \A r \in Range(stack[k].nodes) :
             r \in DOMAIN heap /\ heap'[r].kind = heap[r].kind /\ heap'[r].scope = heap[r].scope
        BY <1>3 DEF Replaces
    <2>3. Len(stack[k].nodes) = 1 => stack[k].nodes[1] \in Range(stack[k].nodes)
        BY <1>1, <1>2, StackType, LenProperties DEF Range
    <2>4. stack[k].sort \in {"head", "list", "stm"} =>
             heap'[stack[k].nodes[1]].kind = heap[stack[k].nodes[1]].kind
        BY <2>1, <2>2, <2>3
    <2>5. \A l \in 1 .. Depth' : k # l => Range(stack'[k].nodes) \cap Range(stack'[l].nodes) = {}
        BY <2>1, <1>2, <1>11
    <2>6. ASSUME NEW i \in 1 .. k, HeadBelow(i, k)', NEW r \in Range(stack'[k].nodes)
          PROVE  heap'[r].scope = stack'[i].nodes[1]
        <3>1. i \in 1 .. L /\ \A j \in i + 1 .. k - 1 : j \in 1 .. L
            BY <1>1
        <3>2. stack'[i] = stack[i] /\ \A j \in i + 1 .. k - 1 : stack'[j] = stack[j]
            BY <3>1, <1>2
        <3>3. HeadBelow(i, k)
            BY <2>6, <3>2 DEF HeadBelow
        <3> QED
            BY <3>1, <3>2, <3>3, <2>1, <2>2, <1>2
    <2> QED
        BY <2>1, <2>4, <2>5, <2>6, <1>2 DEF ValueOK
<1>13. ASSUME NEW k \in L + 1 .. Depth' PROVE ValueOK(k)'
    <2>1. \A l \in 1 .. Depth' : k # l => Range(stack'[k].nodes) \cap Range(stack'[l].nodes) = {}
        BY <1>2, <1>11 DEF Replaces
    <2> QED
        BY <2>1 DEF Replaces, ValueOK
<1>14. ValuesOK'
    <2>1. Depth' > 0 /\ stack'[1].sort = "head" /\ stack'[1].nodes = <<1>>
        BY <1>1, <1>2 DEF ValuesOK
    <2>2. \A k \in 1 .. Depth' : ValueOK(k)'
        BY <1>2, <1>12, <1>13
    <2> QED
        BY <2>1, <2>2 DEF ValuesOK
<1> QED
    BY <1>1, <1>8, <1>10, <1>14 DEF TreeInv
(* The values that a reduction takes have no head among them. *)
NoHeads(n) == n \in 0 .. Depth /\ \A k \in Depth - n + 1 .. Depth : stack[k].sort # "head"

(* What is above the innermost head stands in its function. *)
LEMMA AboveInnermost ==
    ASSUME TypeOK, ValuesOK, NEW n, NoHeads(n)
    PROVE  /\ n \in 0 .. Depth - 1 /\ Depth - n \in 1 .. Depth
           /\ \A i \in 1 .. Depth - n : HeadBelow(i, Depth - n + 1) => stack[i].nodes[1] = Innermost
           /\ Above(Depth - n) \subseteq Roots
           /\ \A r \in Above(Depth - n) : r \in DOMAIN heap /\ heap[r].scope = Innermost
           /\ Innermost \in DOMAIN heap /\ heap[Innermost].kind \in Scopes
<1>1. Depth \in Nat /\ Depth > 0 /\ n \in 0 .. Depth /\ stack[1].sort = "head"
    BY StackType DEF NoHeads, ValuesOK
<1>2. \A k \in 1 .. Depth : stack[k].sort = "head" => k <= Depth - n
    BY <1>1 DEF NoHeads
<1>3. n \in 0 .. Depth - 1 /\ Depth - n \in 1 .. Depth
    BY <1>1, <1>2
<1>4. PICK t \in 1 .. Depth : HeadBelow(t, Depth + 1) /\ Innermost = stack[t].nodes[1]
    BY InnermostIs
<1>5. t <= Depth - n /\ stack[t].sort = "head" /\ \A j \in t + 1 .. Depth : stack[j].sort # "head"
    BY <1>1, <1>2, <1>4 DEF HeadBelow
<1>6. ASSUME NEW i \in 1 .. Depth - n, HeadBelow(i, Depth - n + 1) PROVE i = t
    <2>1. /\ i \in 1 .. Depth /\ stack[i].sort = "head"
          /\ \A j \in i + 1 .. Depth - n : stack[j].sort # "head"
        BY <1>1, <1>3, <1>6 DEF HeadBelow
    <2>2. i <= t
        BY <2>1, <1>1, <1>5
    <2>3. ~(i < t)
        BY <2>1, <1>1, <1>3, <1>5
    <2> QED
        BY <2>1, <2>2, <2>3
<1>7. ASSUME NEW k \in Depth - n + 1 .. Depth, NEW r \in Range(stack[k].nodes)
      PROVE  heap[r].scope = Innermost /\ r \in Roots
    <2>1. k \in 1 .. Depth /\ t \in 1 .. k
        BY <1>1, <1>3, <1>5
    <2>2. HeadBelow(t, k)
        BY <2>1, <1>1, <1>3, <1>5 DEF HeadBelow
    <2> QED
        BY <2>1, <2>2, <1>4, StackType DEF ValuesOK, ValueOK
<1>8. \A r \in Above(Depth - n) : heap[r].scope = Innermost /\ r \in Roots
    BY <1>7 DEF Above
<1>9. Roots \subseteq DOMAIN heap
    <2>1. Roots \subseteq Nodes
        BY StackType DEF Roots
    <2>2. DOMAIN heap = Nodes
        BY LenProperties DEF Nodes, TypeOK
    <2> QED
        BY <2>1, <2>2
<1> QED
    BY <1>3, <1>4, <1>6, <1>8, <1>9, InnermostIs

(* The nodes of the values on top, for those that have one. *)
LEMMA TopNodesAre ==
    ASSUME TypeOK, ValuesOK, NEW n \in 0 .. Depth,
           \A k \in Depth - n + 1 .. Depth : stack[k].sort # "defs"
    PROVE  /\ TopNodes(n) \in Seq(Nat) /\ Len(TopNodes(n)) = n
           /\ Range(TopNodes(n)) = Above(Depth - n)
<1>1. Depth \in Nat /\ n \in Nat
    BY StackType
<1>2. ASSUME NEW k \in Depth - n + 1 .. Depth
      PROVE  /\ stack[k].nodes[1] \in Nat /\ Range(stack[k].nodes) = {stack[k].nodes[1]}
    <2>1. k \in 1 .. Depth
        BY <1>1
    <2>2. stack[k].nodes \in Seq(Nat) /\ Len(stack[k].nodes) = 1
        BY <2>1, StackType DEF ValuesOK, ValueOK
    <2>3. DOMAIN stack[k].nodes = 1 .. 1 /\ stack[k].nodes[1] \in Nat
        BY <2>2, LenProperties
    <2> QED
        BY <2>3 DEF Range
<1>3. \A i \in 1 .. n : Depth - n + i \in Depth - n + 1 .. Depth
    BY <1>1
<1>4. \A k \in Depth - n + 1 .. Depth : k - (Depth - n) \in 1 .. n /\ Depth - n + (k - (Depth - n)) = k
    BY <1>1
<1>5. TopNodes(n) \in [1 .. n -> Nat]
    BY <1>2, <1>3 DEF TopNodes
<1>6. TopNodes(n) \in Seq(Nat) /\ Len(TopNodes(n)) = n
    <2> DEFINE s == TopNodes(n)
    <2>1. s \in [1 .. n -> Nat]
        BY <1>5
    <2> HIDE DEF s
    <2>2. s \in UNION {[1 .. m -> Nat] : m \in Nat}
        BY <2>1, <1>1
    <2>3. s \in Seq(Nat)
        BY <2>2, SeqDef, Zenon
    <2>4. Len(s) \in Nat /\ DOMAIN s = 1 .. Len(s)
        BY <2>3, LenProperties
    <2>5. Len(s) = n
        BY <2>1, <2>4, <1>1, SameLength
    <2> QED
        BY <2>3, <2>5 DEF s
<1>7. \A i \in 1 .. n : TopNodes(n)[i] \in Range(stack[Depth - n + i].nodes)
    BY <1>2, <1>3 DEF TopNodes
<1>8. \A k \in Depth - n + 1 .. Depth : Range(stack[k].nodes) = {TopNodes(n)[k - (Depth - n)]}
    BY <1>2, <1>4 DEF TopNodes
<1>9. DOMAIN TopNodes(n) = 1 .. n
    BY <1>5
<1>10. Range(TopNodes(n)) \subseteq Above(Depth - n)
    BY <1>3, <1>7, <1>9 DEF Range, Above
<1>11. Above(Depth - n) \subseteq Range(TopNodes(n))
    <2> SUFFICES ASSUME NEW k \in Depth - n + 1 .. Depth, NEW r \in Range(stack[k].nodes)
                 PROVE  r \in Range(TopNodes(n))
        BY DEF Above
    <2>1. r = TopNodes(n)[k - (Depth - n)] /\ k - (Depth - n) \in 1 .. n
        BY <1>4, <1>8
    <2> QED
        BY <2>1, <1>9 DEF Range
<1> QED
    BY <1>6, <1>10, <1>11
(* A reduction takes n values and pushes one, whose nodes stand in scope.  *)
Pushes(n, sort, nodes, scope) ==
    /\ status = "parsing" /\ status' = status
    /\ n \in 0 .. Depth - 1 /\ sort \in Sorts \ {"head"} /\ nodes \in Seq(Nat)
    /\ \E want : Reduce(n, Value(sort, nodes, want))
    /\ sort # "defs" => Len(nodes) = 1
    /\ sort \in {"list", "stm"} => heap'[nodes[1]].kind = "body"
    /\ \A r \in Range(nodes) : heap'[r].scope = scope
    /\ \A i \in 1 .. Depth - n : HeadBelow(i, Depth - n + 1) => stack[i].nodes[1] = scope
    /\ Range(nodes) \subseteq Above(Depth - n) \cup (DOMAIN heap' \ DOMAIN heap)
    /\ Forest(heap', (Roots \ Above(Depth - n)) \cup Range(nodes))
    /\ \A m \in DOMAIN heap :
          m \in DOMAIN heap' /\ heap'[m].kind = heap[m].kind /\ heap'[m].scope = heap[m].scope

LEMMA PushKeeps ==
    ASSUME TreeInv, NEW n, NEW sort, NEW nodes, NEW scope, Pushes(n, sort, nodes, scope)
    PROVE  TreeInv'
<1>0. PICK L : L = Depth - n
    OBVIOUS
<1>1. TypeOK /\ Depth \in Nat /\ n \in 0 .. Depth /\ L \in 1 .. Depth /\ L \in Nat
    BY <1>0, StackType DEF TreeInv, Pushes
<1>2. PICK want : Reduce(n, Value(sort, nodes, want))
    BY DEF Pushes
<1>3. /\ Depth' = L + 1 /\ Depth' \in Nat
      /\ stack'[L + 1].sort = sort /\ stack'[L + 1].nodes = nodes
      /\ \A i \in 1 .. L : stack'[i] = stack[i]
      /\ stack' \in Seq(ValueRecord({stack'[i].want : i \in 1 .. Depth'}))
    BY <1>0, <1>1, <1>2, ReduceIs DEF Pushes
<1>4. /\ status = "parsing" /\ status' = "parsing" /\ sort # "head"
      /\ sort # "defs" => Len(nodes) = 1
      /\ sort \in {"list", "stm"} => heap'[nodes[1]].kind = "body"
      /\ \A r \in Range(nodes) : heap'[r].scope = scope
      /\ \A i \in 1 .. L : HeadBelow(i, L + 1) => stack[i].nodes[1] = scope
      /\ Range(nodes) \subseteq Above(L) \cup (DOMAIN heap' \ DOMAIN heap)
      /\ Forest(heap', (Roots \ Above(L)) \cup Range(nodes))
      /\ \A m \in DOMAIN heap :
          m \in DOMAIN heap' /\ heap'[m].kind = heap[m].kind /\ heap'[m].scope = heap[m].scope
    BY <1>0 DEF Pushes
<1>5. \A k \in L + 1 .. Depth' : k = L + 1
    BY <1>1, <1>3
<1>6. Above(L)' = Range(nodes)
    <2>1. L + 1 \in L + 1 .. Depth'
        BY <1>1, <1>3
    <2>2. Range(stack'[L + 1].nodes) = Range(nodes)
        BY <1>3
    <2>3. Above(L)' = UNION {Range(stack'[i].nodes) : i \in L + 1 .. Depth'}
        BY DEF Above
    <2>4. L + 1 .. Depth' = {L + 1}
        BY <2>1, <1>5
    <2> QED
        BY <2>2, <2>3, <2>4
<1>7. ASSUME NEW i \in 1 .. L + 1, HeadBelow(i, L + 1)', NEW r \in Range(nodes)
      PROVE  heap'[r].scope = stack'[i].nodes[1]
    <2>1. i \in 1 .. L /\ \A j \in i + 1 .. L + 1 - 1 : j \in 1 .. L
        BY <1>1, <1>7 DEF HeadBelow
    <2>2. stack'[i] = stack[i] /\ \A j \in i + 1 .. L + 1 - 1 : stack'[j] = stack[j]
        BY <2>1, <1>3
    <2>3. HeadBelow(i, L + 1)
        BY <2>2, <1>1, <1>7 DEF HeadBelow
    <2> QED
        BY <2>1, <2>2, <2>3, <1>4
<1>8. \A k \in L + 1 .. Depth' :
        /\ stack'[k].sort # "defs" => Len(stack'[k].nodes) = 1
        /\ stack'[k].sort = "head" => heap'[stack'[k].nodes[1]].kind \in Scopes
        /\ stack'[k].sort \in {"list", "stm"} => heap'[stack'[k].nodes[1]].kind = "body"
        /\ \A l \in L + 1 .. Depth' : k # l => Range(stack'[k].nodes) \cap Range(stack'[l].nodes) = {}
        /\ \A i \in 1 .. k : HeadBelow(i, k)' =>
               \A r \in Range(stack'[k].nodes) : heap'[r].scope = stack'[i].nodes[1]
    BY <1>3, <1>4, <1>5, <1>7
<1>9. Depth' >= L
    BY <1>1, <1>3
<1>10. Forest(heap', (Roots \ Above(L)) \cup Above(L)')
    BY <1>4, <1>6
<1>11. Above(L)' \subseteq Above(L) \cup (DOMAIN heap' \ DOMAIN heap)
    BY <1>4, <1>6
<1>12. Replaces(L)
    BY <1>1, <1>3, <1>4, <1>8, <1>9, <1>10, <1>11 DEF Replaces
<1> QED
    BY <1>12, ReplaceKeeps
(* A reduction that makes one node of what it takes, or of some of it. *)
LEMMA BuildPushes ==
    ASSUME TreeInv, status = "parsing", status' = status, NEW n, NoHeads(n),
           NEW kind \in Kinds \ (Scopes \cup {"param"}),
           NEW kids \in Seq(Nat), Range(kids) \subseteq Above(Depth - n),
           NEW sort \in Sorts \ {"head", "defs"}, sort \in {"list", "stm"} => kind = "body",
           heap' = Build(heap, kind, kids, Innermost),
           NEW want, Reduce(n, Value(sort, <<Len(heap) + 1>>, want))
    PROVE  TreeInv'
<1> DEFINE L   == Depth - n
           top == Len(heap) + 1
           In  == Innermost
<1>1. TypeOK /\ ValuesOK /\ Forest(heap, Roots)
    BY DEF TreeInv
<1>2. /\ n \in 0 .. Depth - 1
      /\ \A i \in 1 .. L : HeadBelow(i, L + 1) => stack[i].nodes[1] = In
      /\ Above(L) \subseteq Roots
      /\ \A r \in Above(L) : r \in DOMAIN heap /\ heap[r].scope = In
      /\ In \in DOMAIN heap /\ heap[In].kind \in Scopes
    BY <1>1, AboveInnermost
<1> HIDE DEF In, L
<1>3. CanBuild(heap, Roots, kind, kids, In)
    BY <1>2 DEF CanBuild, L
<1>4. /\ Forest(heap', (Roots \ Range(kids)) \cup {top})
      /\ Len(heap') = top /\ Len(heap) \in Nat
      /\ heap'[top].kind = kind /\ heap'[top].scope = In
      /\ \A m \in DOMAIN heap : heap'[m].kind = heap[m].kind /\ heap'[m].scope = heap[m].scope
      /\ DOMAIN heap = 1 .. Len(heap) /\ DOMAIN heap' = 1 .. top
    <2>1. heap' = Build(heap, kind, kids, In)
        BY DEF In
    <2>2. Forest(heap', (Roots \ Range(kids)) \cup {top}) /\ OneMore(heap, heap', kind, In)
        BY <2>1, <1>1, <1>3, BuildKeeps
    <2> QED
        BY <2>2 DEF OneMore
<1>5. Range(<<top>>) = {top} /\ <<top>>[1] = top /\ Len(<<top>>) = 1 /\ <<top>> \in Seq(Nat)
    BY <1>4, RangeSingle
<1>6. top \in DOMAIN heap' \ DOMAIN heap /\ \A m \in DOMAIN heap : m \in DOMAIN heap'
    BY <1>4
<1>7. (Roots \ Above(L)) \cup {top} \subseteq (Roots \ Range(kids)) \cup {top}
    BY DEF L
<1>8. Forest(heap', (Roots \ Above(L)) \cup {top})
    BY <1>4, <1>7, DropKeeps
<1>9. Reduce(n, Value(sort, <<top>>, want))
    OBVIOUS
<1> HIDE DEF top
<1>10. sort \in {"list", "stm"} => heap'[<<top>>[1]].kind = "body"
    BY <1>4, <1>5
<1>11. \A r \in Range(<<top>>) : heap'[r].scope = In
    BY <1>4, <1>5
<1>12. Range(<<top>>) \subseteq Above(L) \cup (DOMAIN heap' \ DOMAIN heap)
    BY <1>5, <1>6
<1>13. Forest(heap', (Roots \ Above(L)) \cup Range(<<top>>))
    BY <1>5, <1>8
<1>14. Pushes(n, sort, <<top>>, In)
    BY <1>2, <1>4, <1>5, <1>6, <1>9, <1>10, <1>11, <1>12, <1>13, Zenon DEF Pushes, L
<1> QED
    BY <1>14, PushKeeps
Extends(g, h) == \A n \in DOMAIN g : n \in DOMAIN h /\ h[n].kind = g[n].kind /\ h[n].scope = g[n].scope

LEMMA ExtendsOneMore ==
    ASSUME NEW g, NEW h, NEW b, NEW kind, NEW scope, Extends(g, h), OneMore(h, b, kind, scope)
    PROVE  Extends(g, b)
<1>1. \A n \in DOMAIN h : n \in DOMAIN b
    BY DEF OneMore
<1> QED
    BY <1>1 DEF Extends, OneMore

(* The node made last, which stands for what is above position L, is put   *)
(* into a Body.                                                            *)
CanFinish(n, h, T) ==
    /\ status = "parsing" /\ status' = status /\ NoHeads(n)
    /\ Forest(h, T) /\ Extends(heap, h) /\ Roots \ Above(Depth - n) \subseteq T
    /\ Len(h) \in T \ DOMAIN heap /\ h[Len(h)].scope = Innermost
    /\ heap' = Build(h, "body", <<Len(h)>>, Innermost)
    /\ \E want : Reduce(n, Value("stm", <<Len(h) + 1>>, want))

LEMMA FinishKeeps ==
    ASSUME TreeInv, NEW n, NEW h, NEW T, CanFinish(n, h, T)
    PROVE  TreeInv'
<1> DEFINE L   == Depth - n
           top == Len(h) + 1
           In  == Innermost
           kids == <<Len(h)>>
<1>1. TypeOK /\ ValuesOK
    BY DEF TreeInv, CanFinish
<1>2. /\ n \in 0 .. Depth - 1
      /\ \A i \in 1 .. L : HeadBelow(i, L + 1) => stack[i].nodes[1] = In
      /\ Above(L) \subseteq Roots /\ Roots \subseteq DOMAIN heap
      /\ In \in DOMAIN heap /\ heap[In].kind \in Scopes
    BY <1>1, AboveInnermost DEF CanFinish, TreeInv, Forest, RootsOK
<1> HIDE DEF In, L
<1>3. Forest(h, T) /\ Extends(heap, h) /\ Len(h) \in T /\ Len(h) \notin DOMAIN heap /\ h[Len(h)].scope = In
    BY DEF CanFinish, In
<1>4. In \in DOMAIN h /\ h[In].kind \in Scopes /\ Len(h) \in Nat /\ DOMAIN h = 1 .. Len(h) /\ T \subseteq DOMAIN h
    BY <1>2, <1>3, HeapType DEF Extends, Forest, HeapOK, RootsOK
<1>5. /\ Range(kids) = {Len(h)} /\ kids \in Seq(Nat)
      /\ Range(<<top>>) = {top} /\ <<top>>[1] = top /\ Len(<<top>>) = 1 /\ <<top>> \in Seq(Nat)
    BY <1>4, RangeSingle
<1>6. "body" \in Kinds \ (Scopes \cup {"param"})
    BY DEF Kinds, Scopes
<1>7. heap' = Build(h, "body", kids, In)
    BY DEF CanFinish, In
<1> HIDE DEF kids
<1>8. CanBuild(h, T, "body", kids, In)
    BY <1>3, <1>4, <1>5, <1>6 DEF CanBuild
<1>9. Forest(heap', (T \ Range(kids)) \cup {top}) /\ OneMore(h, heap', "body", In)
    BY <1>3, <1>7, <1>8, BuildKeeps
<1>10. Extends(heap, heap')
    BY <1>3, <1>9, ExtendsOneMore
<1>11. top \in DOMAIN heap' \ DOMAIN heap
    <2>1. top \notin DOMAIN h
        BY <1>4
    <2> QED
        BY <2>1, <1>3, <1>9 DEF Extends, OneMore
<1>12. (Roots \ Above(L)) \cup {top} \subseteq (T \ Range(kids)) \cup {top}
    BY <1>2, <1>3, <1>5 DEF CanFinish, L
<1>13. Forest(heap', (Roots \ Above(L)) \cup {top})
    BY <1>9, <1>12, DropKeeps
<1>14. heap'[top].kind = "body" /\ heap'[top].scope = In
    BY <1>9 DEF OneMore
<1>15. \E want : Reduce(n, Value("stm", <<top>>, want))
    BY DEF CanFinish
<1> HIDE DEF top
<1>16. /\ heap'[<<top>>[1]].kind = "body"
       /\ \A r \in Range(<<top>>) : heap'[r].scope = In
       /\ Range(<<top>>) \subseteq Above(L) \cup (DOMAIN heap' \ DOMAIN heap)
       /\ Forest(heap', (Roots \ Above(L)) \cup Range(<<top>>))
    BY <1>5, <1>11, <1>13, <1>14
<1>17. "stm" \in Sorts \ {"head"}
    BY DEF Sorts
<1>18. \A m \in DOMAIN heap :
          m \in DOMAIN heap' /\ heap'[m].kind = heap[m].kind /\ heap'[m].scope = heap[m].scope
    BY <1>10 DEF Extends
<1>19. status = "parsing" /\ status' = status
    BY DEF CanFinish
<1>20. Pushes(n, "stm", <<top>>, In)
    BY <1>2, <1>5, <1>15, <1>16, <1>17, <1>18, <1>19, Zenon DEF Pushes, L
<1> QED
    BY <1>20, PushKeeps

(* A statement takes the nodes that are above position L, or some of them. *)
LEMMA StatementKeeps ==
    ASSUME TreeInv, status = "parsing", NEW n, NoHeads(n),
           NEW kind \in Kinds \ (Scopes \cup {"param"}),
           NEW kids \in Seq(Nat), Range(kids) \subseteq Above(Depth - n),
           NEW want, Statement(kind, kids, n, want)
    PROVE  TreeInv'
<1> DEFINE L == Depth - n
           In == Innermost
           T  == (Roots \ Range(kids)) \cup {Len(heap) + 1}
<1>1. TypeOK /\ ValuesOK /\ Forest(heap, Roots)
    BY DEF TreeInv
<1>2. /\ Above(L) \subseteq Roots
      /\ \A r \in Above(L) : r \in DOMAIN heap /\ heap[r].scope = In
      /\ In \in DOMAIN heap /\ heap[In].kind \in Scopes
    BY <1>1, AboveInnermost
<1>3. PICK h : h = Build(heap, kind, kids, In)
    OBVIOUS
<1>4. heap' = Build(h, "body", <<Len(h)>>, In) /\ status' = status
      /\ Reduce(n, Value("stm", <<Len(heap) + 2>>, <<want>>))
    BY <1>3 DEF Statement
<1> HIDE DEF In, L
<1>5. CanBuild(heap, Roots, kind, kids, In)
    BY <1>2 DEF CanBuild, L
<1>6. Forest(h, T) /\ OneMore(heap, h, kind, In)
    BY <1>1, <1>3, <1>5, BuildKeeps
<1>7. Extends(heap, h)
    BY <1>6 DEF OneMore, Extends
<1>8. Len(h) = Len(heap) + 1 /\ Len(h) \notin DOMAIN heap /\ h[Len(h)].scope = In /\ Len(h) + 1 = Len(heap) + 2
    BY <1>6 DEF OneMore
<1>9. Roots \ Above(L) \subseteq T /\ Len(h) \in T
    BY <1>8 DEF L
<1>10. CanFinish(n, h, T)
    BY <1>4, <1>6, <1>7, <1>8, <1>9 DEF CanFinish, In, L
<1> QED
    BY <1>10, FinishKeeps
--------------------------------------------------------------------------------
(* The actions *)

(* The values that a production names are on the stack. *)
LEMMA TopsAre ==
    ASSUME TypeOK, ValuesOK, NEW n \in Nat, NEW sorts, Len(sorts) = n, DOMAIN sorts = 1 .. n, Tops(sorts),
           \A i \in 1 .. n : sorts[i] # "head"
    PROVE  /\ NoHeads(n) /\ n \in 0 .. Depth
           /\ (\A i \in 1 .. n : sorts[i] # "defs") =>
                 /\ TopNodes(n) \in Seq(Nat) /\ Len(TopNodes(n)) = n
                 /\ Range(TopNodes(n)) \subseteq Above(Depth - n)
<1>1. Depth \in Nat /\ n \in 0 .. Depth
    BY StackType DEF Tops
<1>2. \A i \in 1 .. n : stack[Depth - n + i].sort = sorts[i]
    BY DEF Tops
<1>3. ASSUME NEW k \in Depth - n + 1 .. Depth
      PROVE  k - (Depth - n) \in 1 .. n /\ stack[k].sort = sorts[k - (Depth - n)]
    <2>1. k - (Depth - n) \in 1 .. n /\ Depth - n + (k - (Depth - n)) = k
        BY <1>1
    <2> QED
        BY <2>1, <1>2
<1>4. NoHeads(n)
    BY <1>1, <1>3 DEF NoHeads
<1>5. ASSUME \A i \in 1 .. n : sorts[i] # "defs"
      PROVE  \A k \in Depth - n + 1 .. Depth : stack[k].sort # "defs"
    BY <1>3, <1>5
<1> QED
    BY <1>1, <1>4, <1>5, TopNodesAre

LEMMA ExpsAre ==
    ASSUME TypeOK, ValuesOK, NEW n \in Nat, Exps(n)
    PROVE  /\ NoHeads(n)
           /\ TopNodes(n) \in Seq(Nat) /\ Range(TopNodes(n)) \subseteq Above(Depth - n)
<1> DEFINE sorts == [i \in 1 .. n |-> "exp"]
<1>1. DOMAIN sorts = 1 .. n /\ \A i \in 1 .. n : sorts[i] = "exp"
    OBVIOUS
<1>2. sorts \in [1 .. n -> {"exp"}] /\ Tops(sorts)
    BY DEF Exps
<1> HIDE DEF sorts
<1>3. sorts \in UNION {[1 .. m -> {"exp"}] : m \in Nat}
    BY <1>2
<1>4. sorts \in Seq({"exp"})
    BY <1>3, SeqDef, Zenon
<1>5. Len(sorts) \in Nat /\ DOMAIN sorts = 1 .. Len(sorts)
    BY <1>4, LenProperties
<1>6. Len(sorts) = n
    BY <1>1, <1>5, SameLength
<1> QED
    BY <1>1, <1>2, <1>6, TopsAre

LEMMA Nothing == TypeOK => NoHeads(0)
BY StackType DEF NoHeads

LEMMA LeafKeepsInv ==
    ASSUME TreeInv, NEW kind \in {"var", "const"}, Leaf(kind)
    PROVE  TreeInv'
<1>1. TypeOK /\ NoHeads(0) /\ status = "parsing" /\ status' = status
    BY Nothing DEF TreeInv, Leaf
<1>2. kind \in Kinds \ (Scopes \cup {"param"}) /\ "exp" \in Sorts \ {"head", "defs"}
    BY DEF Kinds, Scopes, Sorts
<1>3. << >> \in Seq(Nat) /\ Range(<< >>) \subseteq Above(Depth - 0)
    BY DEF Range
<1>4. /\ heap' = Build(heap, kind, << >>, Innermost)
      /\ Reduce(0, Value("exp", <<Len(heap) + 1>>, <<Term(kind, << >>)>>))
    BY DEF Leaf
<1> QED
    BY <1>1, <1>2, <1>3, <1>4, BuildPushes

LEMMA ExpressionKeeps ==
    ASSUME TreeInv, NEW kind \in {"unary", "binary", "callexp"}, NEW n \in Nat, Expression(kind, n)
    PROVE  TreeInv'
<1>1. TypeOK /\ ValuesOK /\ status = "parsing" /\ status' = status
    BY DEF TreeInv, Expression, May
<1>2. NoHeads(n) /\ TopNodes(n) \in Seq(Nat) /\ Range(TopNodes(n)) \subseteq Above(Depth - n)
    BY <1>1, ExpsAre DEF Expression
<1>3. kind \in Kinds \ (Scopes \cup {"param"}) /\ "exp" \in Sorts \ {"head", "defs"}
    BY DEF Kinds, Scopes, Sorts
<1>4. /\ heap' = Build(heap, kind, TopNodes(n), Innermost)
      /\ Reduce(n, Value("exp", <<Len(heap) + 1>>, <<Term(kind, TopWants(n))>>))
    BY DEF Expression
<1> QED
    BY <1>1, <1>2, <1>3, <1>4, BuildPushes

LEMMA SimpleKeeps ==
    ASSUME TreeInv, NEW kind \in {"assign", "call", "goto"}, NEW n \in Nat,
           May(kind, 2), n = 0 \/ Exps(n), Simple(kind, n)
    PROVE  TreeInv'
<1>1. TypeOK /\ ValuesOK /\ status = "parsing"
    BY DEF TreeInv, May
<1>2. NoHeads(n) /\ TopNodes(n) \in Seq(Nat) /\ Range(TopNodes(n)) \subseteq Above(Depth - n)
    <2>1. CASE Exps(n)
        BY <2>1, <1>1, ExpsAre
    <2>2. CASE n = 0
        <3>1. NoHeads(0) /\ 0 \in 0 .. Depth /\ \A k \in Depth - 0 + 1 .. Depth : FALSE
            BY <1>1, Nothing, StackType
        <3> QED
            BY <3>1, <2>2, <1>1, TopNodesAre
    <2> QED
        BY <2>1, <2>2
<1>3. kind \in Kinds \ (Scopes \cup {"param"})
    BY DEF Kinds, Scopes
<1>4. Statement(kind, TopNodes(n), n, Term(kind, TopWants(n)))
    BY DEF Simple
<1> QED
    BY <1>1, <1>2, <1>3, <1>4, StatementKeeps

LEMMA IfKeeps ==
    ASSUME TreeInv, If
    PROVE  TreeInv'
<1> DEFINE L    == Depth - 2
           In   == Innermost
           kids == TopNodes(2) \o <<Len(heap) + 1>>
           S    == Roots \cup {Len(heap) + 1}
           T    == (S \ Range(kids)) \cup {Len(heap) + 2}
           want == <<Term("if", Pick(2).want \o <<Block(Pick(1)), Term("body", << >>)>>)>>
<1>1. TypeOK /\ ValuesOK /\ Forest(heap, Roots) /\ status = "parsing" /\ status' = status
    BY DEF TreeInv, If, May
<1>2. NoHeads(2) /\ TopNodes(2) \in Seq(Nat) /\ Range(TopNodes(2)) \subseteq Above(L)
    <2>1. Len(<<"exp", "stm">>) = 2 /\ DOMAIN <<"exp", "stm">> = 1 .. 2
          /\ \A i \in 1 .. 2 : <<"exp", "stm">>[i] \notin {"head", "defs"}
        OBVIOUS
    <2>2. Tops(<<"exp", "stm">>)
        BY DEF If
    <2> QED
        BY <2>1, <2>2, <1>1, TopsAre
<1>3. /\ Above(L) \subseteq Roots
      /\ \A r \in Above(L) : r \in DOMAIN heap /\ heap[r].scope = In
      /\ In \in DOMAIN heap /\ heap[In].kind \in Scopes
    BY <1>1, <1>2, AboveInnermost
<1>4. PICK h : h = Append(heap, Node("body", << >>, In))
    OBVIOUS
<1>5. Len(heap) \in Nat /\ DOMAIN heap = 1 .. Len(heap)
    BY <1>1, HeapType DEF Forest, HeapOK
<1>6. "body" \in Kinds \ Scopes /\ "if" \in Kinds \ (Scopes \cup {"param"})
    BY DEF Kinds, Scopes
<1>7. /\ Forest(h, S) /\ Len(h) = Len(heap) + 1 /\ h[Len(heap) + 1] = Node("body", << >>, In)
      /\ \A n \in DOMAIN heap : h[n] = heap[n]
    BY <1>1, <1>3, <1>4, <1>6, LeafKeeps
<1>8. PICK i : i = Build(h, "if", TopNodes(2) \o <<Len(h)>>, In)
    OBVIOUS
<1>9. /\ heap' = Build(i, "body", <<Len(i)>>, In)
      /\ Reduce(2, Value("stm", <<Len(heap) + 3>>, want))
    BY <1>4, <1>8 DEF If
<1> HIDE DEF In, L
<1>10. DOMAIN h = 1 .. Len(heap) + 1 /\ h[Len(heap) + 1].scope = In
    BY <1>7, HeapType DEF Forest, HeapOK, Node
<1>11. kids \in Seq(Nat) /\ Range(kids) = Range(TopNodes(2)) \cup {Len(heap) + 1}
    <2> DEFINE one == <<Len(heap) + 1>>
    <2>1. one \in Seq(Nat) /\ Range(one) = {Len(heap) + 1}
        BY <1>5, RangeSingle
    <2> HIDE DEF one
    <2>2. TopNodes(2) \o one \in Seq(Nat) /\ Range(TopNodes(2) \o one) = Range(TopNodes(2)) \cup Range(one)
        BY <1>2, <2>1, RangeConcat
    <2> QED
        BY <2>1, <2>2 DEF one
<1>12. i = Build(h, "if", kids, In)
    BY <1>7, <1>8
<1> HIDE DEF kids, want
<1>13. CanBuild(h, S, "if", kids, In)
    <2>1. Range(kids) \subseteq S /\ In \in DOMAIN h /\ h[In].kind \in Scopes
        BY <1>2, <1>3, <1>5, <1>7, <1>10, <1>11
    <2>2. \A c \in Range(kids) : h[c].scope = In
        BY <1>2, <1>3, <1>7, <1>10, <1>11
    <2> QED
        BY <2>1, <2>2, <1>6, <1>11 DEF CanBuild
<1>14. Forest(i, (S \ Range(kids)) \cup {Len(h) + 1}) /\ OneMore(h, i, "if", In)
    BY <1>7, <1>12, <1>13, BuildKeeps
<1>15. Extends(heap, h)
    BY <1>5, <1>7, <1>10 DEF Extends
<1>16. Extends(heap, i)
    BY <1>14, <1>15, ExtendsOneMore
<1>17. Len(h) + 1 = Len(heap) + 2 /\ Len(i) = Len(heap) + 2 /\ Len(i) + 1 = Len(heap) + 3
    BY <1>5, <1>7, <1>14 DEF OneMore
<1>18. i[Len(i)].scope = In /\ Len(i) \in T /\ Len(i) \notin DOMAIN heap
    BY <1>5, <1>14, <1>17 DEF OneMore
<1>19. Forest(i, T) /\ Roots \ Above(L) \subseteq T
    <2>1. Forest(i, T)
        BY <1>14, <1>17
    <2>2. Len(heap) + 1 \notin Roots
        BY <1>1, <1>5 DEF Forest, RootsOK
    <2>3. Roots \ Above(L) \subseteq T
        BY <2>2, <1>2, <1>11
    <2> QED
        BY <2>1, <2>3
<1>20. Reduce(2, Value("stm", <<Len(i) + 1>>, want))
    BY <1>9, <1>17
<1> HIDE DEF T
<1>21. CanFinish(2, i, T)
    BY <1>1, <1>2, <1>9, <1>16, <1>18, <1>19, <1>20 DEF CanFinish, In, L
<1> QED
    BY <1>21, FinishKeeps

LEMMA IfElseKeeps ==
    ASSUME TreeInv, IfElse
    PROVE  TreeInv'
<1>1. TypeOK /\ ValuesOK /\ status = "parsing"
    BY DEF TreeInv, IfElse, May
<1>2. /\ Len(<<"exp", "stm", "stm">>) = 3 /\ DOMAIN <<"exp", "stm", "stm">> = 1 .. 3
      /\ \A i \in 1 .. 3 : <<"exp", "stm", "stm">>[i] \notin {"head", "defs"}
    OBVIOUS
<1>3. Tops(<<"exp", "stm", "stm">>)
    BY DEF IfElse
<1>4. NoHeads(3) /\ TopNodes(3) \in Seq(Nat) /\ Range(TopNodes(3)) \subseteq Above(Depth - 3)
    BY <1>1, <1>2, <1>3, TopsAre
<1>5. "if" \in Kinds \ (Scopes \cup {"param"})
    BY DEF Kinds, Scopes
<1>6. \E want : Statement("if", TopNodes(3), 3, want)
    BY DEF IfElse
<1> QED
    BY <1>1, <1>4, <1>5, <1>6, StatementKeeps

LEMMA WhileKeeps ==
    ASSUME TreeInv, While
    PROVE  TreeInv'
<1>1. TypeOK /\ ValuesOK /\ status = "parsing"
    BY DEF TreeInv, While, May
<1>2. /\ Len(<<"exp", "stm">>) = 2 /\ DOMAIN <<"exp", "stm">> = 1 .. 2
      /\ \A i \in 1 .. 2 : <<"exp", "stm">>[i] \notin {"head", "defs"}
    OBVIOUS
<1>3. Tops(<<"exp", "stm">>)
    BY DEF While
<1>4. NoHeads(2) /\ TopNodes(2) \in Seq(Nat) /\ Range(TopNodes(2)) \subseteq Above(Depth - 2)
    BY <1>1, <1>2, <1>3, TopsAre
<1>5. "while" \in Kinds \ (Scopes \cup {"param"})
    BY DEF Kinds, Scopes
<1>6. \E want : Statement("while", TopNodes(2), 2, want)
    BY DEF While
<1> QED
    BY <1>1, <1>4, <1>5, <1>6, StatementKeeps

LEMMA ForKeeps ==
    ASSUME TreeInv, For
    PROVE  TreeInv'
<1>1. TypeOK /\ ValuesOK /\ status = "parsing"
    BY DEF TreeInv, For, May
<1>2. /\ Len(<<"exp", "exp", "stm">>) = 3 /\ DOMAIN <<"exp", "exp", "stm">> = 1 .. 3
      /\ \A i \in 1 .. 3 : <<"exp", "exp", "stm">>[i] \notin {"head", "defs"}
    OBVIOUS
<1>3. Tops(<<"exp", "exp", "stm">>)
    BY DEF For
<1>4. NoHeads(3) /\ TopNodes(3) \in Seq(Nat) /\ Range(TopNodes(3)) \subseteq Above(Depth - 3)
    BY <1>1, <1>2, <1>3, TopsAre
<1>5. "for" \in Kinds \ (Scopes \cup {"param"})
    BY DEF Kinds, Scopes
<1>6. \E want : Statement("for", TopNodes(3), 3, want)
    BY DEF For
<1> QED
    BY <1>1, <1>4, <1>5, <1>6, StatementKeeps

LEMMA ReverseOfTwo ==
    ASSUME NEW s \in Seq(Nat), Len(s) = 2
    PROVE  Reverse(s) \in Seq(Nat) /\ Range(Reverse(s)) \subseteq Range(s)
<1>1. DOMAIN s = 1 .. 2 /\ s[1] \in Nat /\ s[2] \in Nat
    <2>1. DOMAIN s = 1 .. 2
        BY LenProperties
    <2>2. 1 \in 1 .. 2 /\ 2 \in 1 .. 2
        OBVIOUS
    <2> QED
        BY <2>1, <2>2, ElementOfSeq
<1>2. Reverse(s) = [i \in 1 .. 2 |-> s[2 - i + 1]]
    BY DEF Reverse
<1>3. \A i \in 1 .. 2 : Reverse(s)[i] \in Range(s) /\ Reverse(s)[i] \in Nat
    BY <1>1, <1>2 DEF Range
<1>4. Reverse(s) \in [1 .. 2 -> Nat]
    BY <1>2, <1>3
<1>5. Reverse(s) \in UNION {[1 .. m -> Nat] : m \in Nat}
    BY <1>4
<1>6. Reverse(s) \in Seq(Nat)
    BY <1>5, SeqDef, Zenon
<1> QED
    BY <1>2, <1>3, <1>6 DEF Range

LEMMA RepeatKeeps ==
    ASSUME TreeInv, Repeat
    PROVE  TreeInv'
<1>1. TypeOK /\ ValuesOK /\ status = "parsing"
    BY DEF TreeInv, Repeat, May
<1>2. /\ Len(<<"list", "exp">>) = 2 /\ DOMAIN <<"list", "exp">> = 1 .. 2
      /\ \A i \in 1 .. 2 : <<"list", "exp">>[i] \notin {"head", "defs"}
    OBVIOUS
<1>3. Tops(<<"list", "exp">>)
    BY DEF Repeat
<1>4. NoHeads(2) /\ TopNodes(2) \in Seq(Nat) /\ Len(TopNodes(2)) = 2
      /\ Range(TopNodes(2)) \subseteq Above(Depth - 2)
    BY <1>1, <1>2, <1>3, TopsAre
<1>5. "repeat" \in Kinds \ (Scopes \cup {"param"})
    BY DEF Kinds, Scopes
<1>6. \E want : Statement("repeat", Reverse(TopNodes(2)), 2, want)
    BY DEF Repeat
<1>7. Reverse(TopNodes(2)) \in Seq(Nat) /\ Range(Reverse(TopNodes(2))) \subseteq Above(Depth - 2)
    BY <1>4, ReverseOfTwo
<1> QED
    BY <1>1, <1>4, <1>5, <1>6, <1>7, StatementKeeps

LEMMA EmptyListKeeps ==
    ASSUME TreeInv, EmptyList
    PROVE  TreeInv'
<1>1. TypeOK /\ NoHeads(0) /\ status = "parsing" /\ status' = status
    BY Nothing DEF TreeInv, EmptyList
<1>2. "body" \in Kinds \ (Scopes \cup {"param"}) /\ "list" \in Sorts \ {"head", "defs"}
    BY DEF Kinds, Scopes, Sorts
<1>3. << >> \in Seq(Nat) /\ Range(<< >>) \subseteq Above(Depth - 0)
    BY DEF Range
<1>4. /\ heap' = Build(heap, "body", << >>, Innermost)
      /\ Reduce(0, Value("list", <<Len(heap) + 1>>, << >>))
    BY DEF EmptyList
<1> QED
    BY <1>1, <1>2, <1>3, <1>4, BuildPushes

LEMMA LabelledKeeps ==
    ASSUME TreeInv, Labelled
    PROVE  TreeInv'
<1>1. TypeOK /\ ValuesOK /\ status = "parsing" /\ status' = status
    BY DEF TreeInv, Labelled, May
<1>2. NoHeads(1)
    <2>1. /\ Len(<<"stm">>) = 1 /\ DOMAIN <<"stm">> = 1 .. 1
          /\ \A i \in 1 .. 1 : <<"stm">>[i] # "head"
        OBVIOUS
    <2>2. Tops(<<"stm">>)
        BY DEF Labelled
    <2> QED
        BY <2>1, <2>2, <1>1, TopsAre
<1>3. "body" \in Kinds \ (Scopes \cup {"param"}) /\ "stm" \in Sorts \ {"head", "defs"}
    BY DEF Kinds, Scopes, Sorts
<1>4. << >> \in Seq(Nat) /\ Range(<< >>) \subseteq Above(Depth - 1)
    BY DEF Range
<1>5. /\ heap' = Build(heap, "body", << >>, Innermost)
      /\ \E want : Reduce(1, Value("stm", <<Len(heap) + 1>>, want))
    BY DEF Labelled
<1> QED
    BY <1>1, <1>2, <1>3, <1>4, <1>5, BuildPushes

(* The definitions on top of the stack *)
LEMMA DefsOnTop ==
    ASSUME TypeOK, ValuesOK, Tops(<<"defs">>)
    PROVE  /\ NoHeads(1) /\ Depth \in Nat /\ Depth \in 1 .. Depth
           /\ Pick(1) = stack[Depth] /\ Pick(1).sort = "defs"
           /\ Pick(1).nodes \in Seq(Nat) /\ Range(Pick(1).nodes) = Above(Depth - 1)
<1>1. /\ Len(<<"defs">>) = 1 /\ DOMAIN <<"defs">> = 1 .. 1 /\ <<"defs">>[1] = "defs"
      /\ \A i \in 1 .. 1 : <<"defs">>[i] # "head"
    OBVIOUS
<1>2. NoHeads(1)
    BY <1>1, TopsAre
<1>3. Depth \in Nat /\ Depth >= 1
    BY <1>1, StackType DEF Tops
<1>4. Depth - 1 + 1 = Depth /\ Depth - 1 + 1 .. Depth = {Depth} /\ Depth \in 1 .. Depth
    BY <1>3
<1>5. Pick(1) = stack[Depth]
    BY <1>4 DEF Pick
<1>6. stack[Depth - 1 + 1].sort = "defs"
    BY <1>1 DEF Tops
<1>7. stack[Depth].nodes \in Seq(Nat)
    BY <1>4, StackType
<1>8. Range(stack[Depth].nodes) = Above(Depth - 1)
    BY <1>4 DEF Above
<1> QED
    BY <1>2, <1>3, <1>4, <1>5, <1>6, <1>7, <1>8

LEMMA DefineKeeps ==
    ASSUME TreeInv, Define
    PROVE  TreeInv'
<1>1. TypeOK /\ ValuesOK /\ status = "parsing" /\ status' = status /\ Tops(<<"defs">>)
    BY DEF TreeInv, Define
<1>2. NoHeads(1) /\ Pick(1).nodes \in Seq(Nat) /\ Range(Pick(1).nodes) \subseteq Above(Depth - 1)
    BY <1>1, DefsOnTop
<1>3. "define" \in Kinds \ (Scopes \cup {"param"}) /\ "define" \in Sorts \ {"head", "defs"}
    BY DEF Kinds, Scopes, Sorts
<1>4. /\ heap' = Build(heap, "define", Pick(1).nodes, Innermost)
      /\ \E want : Reduce(1, Value("define", <<Len(heap) + 1>>, want))
    BY DEF Define
<1> QED
    BY <1>1, <1>2, <1>3, <1>4, BuildPushes

LEMMA RangeAppend ==
    ASSUME NEW s \in Seq(Nat), NEW e \in Nat
    PROVE  Append(s, e) \in Seq(Nat) /\ Range(Append(s, e)) = Range(s) \cup {e}
<1> DEFINE all == Append(s, e)
<1>1. all \in Seq(Nat) /\ Len(all) = Len(s) + 1
    OBVIOUS
<1>2. all = [n \in 1 .. Len(s) + 1 |-> IF n = Len(s) + 1 THEN e ELSE s[n]]
    BY AppendIs
<1>3. Len(s) \in Nat /\ DOMAIN s = 1 .. Len(s)
    BY LenProperties
<1> HIDE DEF all
<1>4. \A i \in DOMAIN all : all[i] = e \/ (i \in DOMAIN s /\ all[i] = s[i])
    BY <1>2, <1>3
<1>5. \A i \in DOMAIN s : i \in DOMAIN all /\ all[i] = s[i]
    BY <1>2, <1>3
<1>6. Len(s) + 1 \in DOMAIN all /\ all[Len(s) + 1] = e
    BY <1>2, <1>3
<1>7. Range(all) \subseteq Range(s) \cup {e}
    BY <1>4 DEF Range
<1>8. Range(s) \cup {e} \subseteq Range(all)
    BY <1>5, <1>6 DEF Range
<1> QED
    BY <1>1, <1>7, <1>8 DEF all

(* One more definition, of the last node *)
LEMMA DeclareKeeps ==
    ASSUME TreeInv, NEW kind, NEW after, NEW h, NEW want, Declare(kind, after, h, want),
           Forest(h, Roots \cup {Len(h)}), Extends(heap, h),
           Len(h) \notin DOMAIN heap, h[Len(h)].scope = Innermost
    PROVE  TreeInv'
<1> DEFINE L  == Depth - 1
           In == Innermost
           defs == Pick(1).nodes
           all  == Append(defs, Len(h))
<1>1. /\ TypeOK /\ ValuesOK /\ Forest(heap, Roots) /\ status = "parsing" /\ status' = status
      /\ Tops(<<"defs">>) /\ heap' = h
      /\ \E w : Reduce(1, Value("defs", all, w))
    BY DEF TreeInv, Declare, May
<1>2. NoHeads(1) /\ defs \in Seq(Nat) /\ Range(defs) = Above(L)
    BY <1>1, DefsOnTop
<1>3. /\ 1 \in 0 .. Depth - 1
      /\ \A i \in 1 .. L : HeadBelow(i, L + 1) => stack[i].nodes[1] = In
      /\ Above(L) \subseteq Roots
      /\ \A r \in Above(L) : r \in DOMAIN heap /\ heap[r].scope = In
    BY <1>1, <1>2, AboveInnermost
<1> HIDE DEF L, In, defs
<1>4. Len(h) \in Nat /\ Len(h) \in DOMAIN h
    BY HeapType DEF Forest, HeapOK, RootsOK
<1>5. all \in Seq(Nat) /\ Range(all) = Range(defs) \cup {Len(h)}
    BY <1>2, <1>4, RangeAppend
<1>6. "defs" \in Sorts \ {"head"}
    BY DEF Sorts
<1> HIDE DEF all
<1>7. \A r \in Range(all) : heap'[r].scope = In
    BY <1>1, <1>2, <1>3, <1>5 DEF Extends, In
<1>8. Range(all) \subseteq Above(L) \cup (DOMAIN heap' \ DOMAIN heap)
    BY <1>1, <1>2, <1>4, <1>5
<1>9. (Roots \ Above(L)) \cup Range(all) = Roots \cup {Len(h)}
    BY <1>2, <1>3, <1>5
<1>10. Forest(heap', (Roots \ Above(L)) \cup Range(all))
    BY <1>1, <1>9
<1>11. \A m \in DOMAIN heap :
          m \in DOMAIN heap' /\ heap'[m].kind = heap[m].kind /\ heap'[m].scope = heap[m].scope
    BY <1>1 DEF Extends
<1>12. \E w : Reduce(1, Value("defs", all, w))
    BY <1>1 DEF all, defs
<1>13. Pushes(1, "defs", all, In)
    BY <1>1, <1>3, <1>5, <1>6, <1>7, <1>8, <1>10, <1>11, <1>12 DEF Pushes, L
<1> QED
    BY <1>13, PushKeeps

LEMMA SimpleDefKeeps ==
    ASSUME TreeInv, NEW kind \in {"label", "vardef"}, NEW after, NEW want,
           Declare(kind, after, Build(heap, kind, << >>, Innermost), want)
    PROVE  TreeInv'
<1>1. TypeOK /\ ValuesOK /\ Forest(heap, Roots)
    BY DEF TreeInv, Declare, May
<1>2. Innermost \in DOMAIN heap /\ heap[Innermost].kind \in Scopes
    <2>1. NoHeads(0)
        BY <1>1, Nothing
    <2> QED
        BY <2>1, <1>1, AboveInnermost
<1>3. << >> \in Seq(Nat) /\ Range(<< >>) = {} /\ kind \in Kinds \ (Scopes \cup {"param"})
    BY DEF Range, Kinds, Scopes
<1>4. CanBuild(heap, Roots, kind, << >>, Innermost)
    BY <1>2, <1>3 DEF CanBuild
<1>5. PICK h : h = Build(heap, kind, << >>, Innermost)
    OBVIOUS
<1>6. Forest(h, (Roots \ Range(<< >>)) \cup {Len(heap) + 1}) /\ OneMore(heap, h, kind, Innermost)
    BY <1>1, <1>4, <1>5, BuildKeeps
<1>7. Len(h) = Len(heap) + 1 /\ Len(h) \notin DOMAIN heap /\ h[Len(h)].scope = Innermost
    BY <1>6 DEF OneMore
<1>8. Extends(heap, h)
    BY <1>6 DEF OneMore, Extends
<1>9. Forest(h, Roots \cup {Len(h)})
    BY <1>3, <1>6, <1>7
<1>10. Declare(kind, after, h, want)
    BY <1>5
<1> QED
    BY <1>7, <1>8, <1>9, <1>10, DeclareKeeps

LEMMA ConstDefKeeps ==
    ASSUME TreeInv, ConstDef
    PROVE  TreeInv'
<1> DEFINE c == <<Len(heap) + 1>>
<1>1. TypeOK /\ ValuesOK /\ Forest(heap, Roots)
    BY DEF TreeInv, ConstDef, Declare, May
<1>2. Innermost \in DOMAIN heap /\ heap[Innermost].kind \in Scopes
    <2>1. NoHeads(0)
        BY <1>1, Nothing
    <2> QED
        BY <2>1, <1>1, AboveInnermost
<1>3. /\ << >> \in Seq(Nat) /\ Range(<< >>) = {}
      /\ {"const", "constdef"} \subseteq Kinds \ (Scopes \cup {"param"})
    BY DEF Range, Kinds, Scopes
<1>4. CanBuild(heap, Roots, "const", << >>, Innermost)
    BY <1>2, <1>3 DEF CanBuild
<1>5. PICK g : g = Build(heap, "const", << >>, Innermost)
    OBVIOUS
<1>6. PICK h : h = Build(g, "constdef", c, Innermost)
    OBVIOUS
<1>7. \E want : Declare("constdef", {"label", "constdef"}, h, want)
    BY <1>5, <1>6 DEF ConstDef
<1>8. Forest(g, Roots \cup {Len(heap) + 1}) /\ OneMore(heap, g, "const", Innermost)
    BY <1>1, <1>3, <1>4, <1>5, BuildKeeps
<1>9. c \in Seq(Nat) /\ Range(c) = {Len(heap) + 1}
    BY <1>8, RangeSingle DEF OneMore
<1> HIDE DEF c
<1>10. Extends(heap, g)
    BY <1>8 DEF OneMore, Extends
<1>11. CanBuild(g, Roots \cup {Len(heap) + 1}, "constdef", c, Innermost)
    <2>1. Range(c) \subseteq Roots \cup {Len(heap) + 1} /\ \A k \in Range(c) : g[k].scope = Innermost
        BY <1>8, <1>9 DEF OneMore
    <2>2. Innermost \in DOMAIN g /\ g[Innermost].kind \in Scopes
        BY <1>2, <1>10 DEF Extends
    <2> QED
        BY <2>1, <2>2, <1>3, <1>9 DEF CanBuild
<1>12. /\ Forest(h, ((Roots \cup {Len(heap) + 1}) \ Range(c)) \cup {Len(g) + 1})
       /\ OneMore(g, h, "constdef", Innermost)
    BY <1>6, <1>8, <1>11, BuildKeeps
<1>13. Extends(heap, h)
    BY <1>10, <1>12, ExtendsOneMore
<1>14. Len(h) = Len(g) + 1 /\ Len(h) \notin DOMAIN heap /\ h[Len(h)].scope = Innermost
    BY <1>8, <1>12 DEF OneMore
<1>15. Forest(h, Roots \cup {Len(h)})
    <2>1. Len(heap) + 1 \notin Roots
        BY <1>1, <1>8 DEF Forest, RootsOK, OneMore
    <2>2. ((Roots \cup {Len(heap) + 1}) \ Range(c)) \cup {Len(g) + 1} = Roots \cup {Len(h)}
        BY <2>1, <1>9, <1>14
    <2> QED
        BY <2>2, <1>12
<1> QED
    BY <1>7, <1>13, <1>14, <1>15, DeclareKeeps

LEMMA ExtendListKeeps ==
    ASSUME TreeInv, ExtendList
    PROVE  TreeInv'
<1> DEFINE L  == Depth - 2
           In == Innermost
           f  == Pick(2).nodes[1]
           s  == Pick(1).nodes[1]
<1>1. /\ TypeOK /\ ValuesOK /\ Forest(heap, Roots) /\ status = "parsing" /\ status' = status
      /\ Tops(<<"list", "stm">>) /\ heap' = Take(heap, f, heap[s].kids)
      /\ \E w : Reduce(2, Value("list", Pick(2).nodes, w))
    BY DEF TreeInv, ExtendList
<1>2. /\ Len(<<"list", "stm">>) = 2 /\ DOMAIN <<"list", "stm">> = 1 .. 2
      /\ \A i \in 1 .. 2 : <<"list", "stm">>[i] # "head"
      /\ <<"list", "stm">>[1] = "list" /\ <<"list", "stm">>[2] = "stm"
    OBVIOUS
<1>3. NoHeads(2) /\ Depth \in Nat /\ Depth >= 2
    <2>1. NoHeads(2) /\ 2 \in 0 .. Depth
        BY <1>1, <1>2, TopsAre
    <2>2. Depth \in Nat
        BY <1>1, StackType
    <2> QED
        BY <2>1, <2>2
<1>4. /\ Pick(2) = stack[Depth - 1] /\ Pick(1) = stack[Depth]
      /\ stack[Depth - 1].sort = "list" /\ stack[Depth].sort = "stm"
    <2>1. Depth - 2 + 1 = Depth - 1 /\ Depth - 2 + 2 = Depth /\ Depth - 1 + 1 = Depth
        BY <1>3
    <2>2. Pick(2) = stack[Depth - 2 + 1] /\ Pick(1) = stack[Depth - 1 + 1]
        BY DEF Pick
    <2>3. stack[Depth - 2 + 1].sort = "list" /\ stack[Depth - 2 + 2].sort = "stm"
        BY <1>1, <1>2 DEF Tops
    <2> QED
        BY <2>1, <2>2, <2>3
<1>5. Depth - 1 \in 1 .. Depth /\ Depth \in 1 .. Depth /\ Depth - 1 # Depth
    BY <1>3
<1>6. /\ Pick(2).nodes \in Seq(Nat) /\ Len(Pick(2).nodes) = 1 /\ heap[f].kind = "body"
      /\ Pick(1).nodes \in Seq(Nat) /\ Len(Pick(1).nodes) = 1
      /\ Range(Pick(2).nodes) \cap Range(Pick(1).nodes) = {}
    BY <1>1, <1>4, <1>5, StackType DEF ValuesOK, ValueOK
<1>7. Range(Pick(2).nodes) = {f} /\ Range(Pick(1).nodes) = {s}
    BY <1>6, LenProperties DEF Range
<1>8. Above(L) = {f, s} /\ f # s
    <2>1. Depth - 2 + 1 .. Depth = {Depth - 1, Depth}
        BY <1>3
    <2>2. Above(L) = Range(stack[Depth - 1].nodes) \cup Range(stack[Depth].nodes)
        BY <2>1 DEF Above
    <2> QED
        BY <2>2, <1>4, <1>6, <1>7
<1>9. /\ 2 \in 0 .. Depth - 1
      /\ \A i \in 1 .. L : HeadBelow(i, L + 1) => stack[i].nodes[1] = In
      /\ Above(L) \subseteq Roots
      /\ \A r \in Above(L) : r \in DOMAIN heap /\ heap[r].scope = In
    BY <1>1, <1>3, AboveInnermost
<1> HIDE DEF L, In, f, s
<1>10. ScopeOf(heap, f) = ScopeOf(heap, s) /\ heap[f].kind # "param"
    <2>1. heap[s].kind = "body"
        BY <1>1, <1>4, <1>5 DEF ValuesOK, ValueOK, s
    <2> QED
        BY <2>1, <1>6, <1>8, <1>9 DEF ScopeOf, Scopes
<1>11. Forest(heap', Roots \ {s}) /\ SameNodes(heap, heap')
    BY <1>1, <1>8, <1>9, <1>10, MoveKidsKeeps
<1>12. (Roots \ Above(L)) \cup Range(Pick(2).nodes) = Roots \ {s}
    BY <1>7, <1>8, <1>9
<1>13. "list" \in Sorts \ {"head"}
    BY DEF Sorts
<1>14. heap'[f].kind = "body" /\ heap'[f].scope = In
    BY <1>6, <1>8, <1>9, <1>11 DEF SameNodes
<1>15. Pick(2).nodes[1] = f
    BY DEF f
<1> DEFINE nodes == Pick(2).nodes
<1> HIDE DEF nodes
<1>16. /\ nodes \in Seq(Nat) /\ Len(nodes) = 1 /\ Range(nodes) = {f} /\ nodes[1] = f
       /\ \E w : Reduce(2, Value("list", nodes, w))
       /\ Forest(heap', (Roots \ Above(L)) \cup Range(nodes))
    BY <1>1, <1>6, <1>7, <1>11, <1>12, <1>15 DEF nodes
<1>17. \A m \in DOMAIN heap :
          m \in DOMAIN heap' /\ heap'[m].kind = heap[m].kind /\ heap'[m].scope = heap[m].scope
    BY <1>11 DEF SameNodes
<1>18. Range(nodes) \subseteq Above(L)
    BY <1>8, <1>16
<1>19. Pushes(2, "list", nodes, In)
    BY <1>1, <1>9, <1>13, <1>14, <1>16, <1>17, <1>18 DEF Pushes, L
<1> QED
    BY <1>19, PushKeeps

LEMMA CompoundKeeps ==
    ASSUME TreeInv, Compound
    PROVE  TreeInv'
<1> DEFINE L  == Depth - 1
           In == Innermost
           nodes == stack[Depth].nodes
<1>1. /\ TypeOK /\ ValuesOK /\ Forest(heap, Roots) /\ status = "parsing" /\ status' = status
      /\ Tops(<<"list">>) /\ heap' = heap
      /\ Reduce(1, [Pick(1) EXCEPT !.sort = "stm"])
    BY DEF TreeInv, Compound
<1>2. /\ Len(<<"list">>) = 1 /\ DOMAIN <<"list">> = 1 .. 1 /\ <<"list">>[1] = "list"
      /\ \A i \in 1 .. 1 : <<"list">>[i] # "head"
    OBVIOUS
<1>3. NoHeads(1)
    BY <1>1, <1>2, TopsAre
<1>4. Depth \in Nat /\ Depth >= 1
    BY <1>1, <1>2, StackType DEF Tops
<1>5. Depth - 1 + 1 = Depth /\ Depth - 1 + 1 .. Depth = {Depth} /\ Depth \in 1 .. Depth
    BY <1>4
<1>6. Pick(1) = stack[Depth]
    BY <1>5 DEF Pick
<1>7. stack[Depth].sort = "list"
    <2>1. stack[Depth - 1 + 1].sort = "list"
        BY <1>1, <1>2 DEF Tops
    <2> QED
        BY <2>1, <1>5
<1>8. /\ nodes \in Seq(Nat) /\ Len(nodes) = 1 /\ heap[nodes[1]].kind = "body"
      /\ stack[Depth] = Value("list", nodes, stack[Depth].want)
    BY <1>1, <1>5, <1>7, StackType DEF ValuesOK, ValueOK
<1>9. Range(nodes) = Above(L)
    BY <1>5 DEF Above
<1>10. \E w : Reduce(1, Value("stm", nodes, w))
    <2>1. [Pick(1) EXCEPT !.sort = "stm"] = Value("stm", nodes, stack[Depth].want)
        BY <1>6, <1>8 DEF Value
    <2> QED
        BY <2>1, <1>1
<1>11. /\ 1 \in 0 .. Depth - 1
       /\ \A i \in 1 .. L : HeadBelow(i, L + 1) => stack[i].nodes[1] = In
       /\ Above(L) \subseteq Roots
       /\ \A r \in Above(L) : r \in DOMAIN heap /\ heap[r].scope = In
    BY <1>1, <1>3, AboveInnermost
<1> HIDE DEF L, In, nodes
<1>12. (Roots \ Above(L)) \cup Range(nodes) = Roots
    BY <1>9, <1>11
<1>13. "stm" \in Sorts \ {"head"}
    BY DEF Sorts
<1>14. Pushes(1, "stm", nodes, In)
    BY <1>1, <1>8, <1>9, <1>10, <1>11, <1>12, <1>13 DEF Pushes, L
<1> QED
    BY <1>14, PushKeeps

(* The head of a function opens its text. *)
LEMMA HeadOpens ==
    ASSUME TreeInv, status = "parsing", NEW f \in Nat, NEW sig, PushHead(f, sig),
           Forest(heap', Roots \cup {f}), Extends(heap, heap'),
           f \in DOMAIN heap' \ DOMAIN heap, heap'[f].kind \in Scopes, heap'[f].scope = Innermost
    PROVE  TreeInv'
<1> DEFINE head == Value("head", <<f>>, sig)
           defs == Value("defs", << >>, << >>)
           V    == {stack[i] : i \in 1 .. Depth}
           U    == V \cup {head, defs}
           W    == {stack'[i].want : i \in 1 .. Depth'}
           two  == <<head, defs>>
<1>1. /\ TypeOK /\ ValuesOK /\ status' = status /\ stack' = stack \o two
      /\ Depth \in Nat /\ Depth >= 1 /\ DOMAIN stack = 1 .. Depth
    BY StackType DEF TreeInv, PushHead, ValuesOK
<1>2. PICK L : L = Depth
    OBVIOUS
<1>3. /\ head.sort = "head" /\ head.nodes = <<f>> /\ defs.sort = "defs" /\ defs.nodes = << >>
      /\ head = Value("head", <<f>>, head.want) /\ defs = Value("defs", << >>, defs.want)
    BY DEF Value
<1>4. stack \in Seq(V)
    <2>1. stack \in [1 .. Depth -> V]
        <3>1. stack = [i \in 1 .. Depth |-> stack[i]]
            BY <1>1, LenProperties DEF TypeOK
        <3> QED
            BY <3>1
    <2>2. stack \in UNION {[1 .. m -> V] : m \in Nat}
        BY <2>1, <1>1
    <2> QED
        BY <2>2, SeqDef, Zenon
<1>5. stack \in Seq(U) /\ two \in Seq(U) /\ Len(two) = 2 /\ two[1] = head /\ two[2] = defs
    BY <1>4, SeqMonotonic
<1> HIDE DEF head, defs, V, U, two
<1>6. /\ stack \o two \in Seq(U) /\ Len(stack \o two) = Len(stack) + Len(two)
      /\ \A i \in 1 .. Len(stack) + Len(two) :
            (stack \o two)[i] = IF i <= Len(stack) THEN stack[i] ELSE two[i - Len(stack)]
    BY <1>5, ConcatProperties
<1>7. /\ stack' \in Seq(U) /\ Depth' = L + 2 /\ Depth' \in Nat /\ L \in Nat /\ L >= 1
      /\ \A i \in 1 .. L + 2 : stack'[i] = IF i <= L THEN stack[i] ELSE two[i - L]
    BY <1>1, <1>2, <1>5, <1>6 DEF Depth
<1>8. /\ \A i \in 1 .. L : stack'[i] = stack[i]
      /\ stack'[L + 1] = head /\ stack'[L + 2] = defs
      /\ \A i \in 1 .. L + 2 : i \in 1 .. L \/ i = L + 1 \/ i = L + 2
    <2>1. L + 1 - L = 1 /\ L + 2 - L = 2 /\ L + 1 \in 1 .. L + 2 /\ L + 2 \in 1 .. L + 2
          /\ ~(L + 1 <= L) /\ ~(L + 2 <= L) /\ \A i \in 1 .. L : i \in 1 .. L + 2 /\ i <= L
        BY <1>7
    <2>2. \A i \in 1 .. L + 2 : i \in 1 .. L \/ i = L + 1 \/ i = L + 2
        BY <1>7
    <2> QED
        BY <2>1, <2>2, <1>5, <1>7
<1>9. stack' \in Seq(ValueRecord(W))
    <2>1. ASSUME NEW i \in 1 .. Depth'
          PROVE  /\ stack'[i].sort \in Sorts /\ stack'[i].nodes \in Seq(Nat)
                 /\ stack'[i] = Value(stack'[i].sort, stack'[i].nodes, stack'[i].want)
        <3>1. CASE i \in 1 .. L
            BY <3>1, <1>1, <1>2, <1>8, StackType
        <3>2. CASE i = L + 1
            <4>1. <<f>> \in Seq(Nat) /\ "head" \in Sorts
                BY DEF Sorts
            <4> QED
                BY <4>1, <3>2, <1>3, <1>8
        <3>3. CASE i = L + 2
            <4>1. << >> \in Seq(Nat) /\ "defs" \in Sorts
                BY DEF Sorts
            <4> QED
                BY <4>1, <3>3, <1>3, <1>8
        <3> QED
            BY <3>1, <3>2, <3>3, <1>7, <1>8
    <2>2. ASSUME NEW i \in 1 .. Depth' PROVE stack'[i] \in ValueRecord(W)
        <3>1. stack'[i].want \in W
            OBVIOUS
        <3> HIDE DEF W
        <3>2. \A s \in Sorts, n \in Seq(Nat), w \in W : Value(s, n, w) \in ValueRecord(W)
            BY DEF ValueRecord, Value
        <3> QED
            BY <3>1, <3>2, <2>1
    <2> HIDE DEF W
    <2>3. stack' \in [1 .. Depth' -> ValueRecord(W)]
        <3>1. DOMAIN stack' = 1 .. Depth' /\ stack' = [i \in DOMAIN stack' |-> stack'[i]]
            BY <1>7, LenProperties DEF Depth
        <3> QED
            BY <3>1, <2>2
    <2>4. stack' \in UNION {[1 .. m -> ValueRecord(W)] : m \in Nat}
        BY <1>7, <2>3
    <2> QED
        BY <2>4, SeqDef, Zenon
<1>10. /\ \A i \in 1 .. L : HeadBelow(i, L + 1) => stack[i].nodes[1] = Innermost
       /\ Above(L) = {}
    <2>1. NoHeads(0) /\ Depth - 0 = L
        BY <1>1, <1>2, Nothing
    <2>2. L + 1 .. Depth = {}
        BY <1>1, <1>2
    <2> QED
        BY <2>1, <2>2, <1>1, AboveInnermost DEF Above
<1>11. /\ Range(<<f>>) = {f} /\ Len(<<f>>) = 1 /\ <<f>>[1] = f /\ Range(<< >>) = {}
    BY RangeSingle DEF Range
<1>12. \A k \in L + 1 .. Depth' : k = L + 1 \/ k = L + 2
    BY <1>7
<1>13. Above(L)' = {f}
    <2>1. Above(L)' = UNION {Range(stack'[i].nodes) : i \in L + 1 .. Depth'}
        BY DEF Above
    <2>2. L + 1 .. Depth' = {L + 1, L + 2}
        BY <1>7
    <2> QED
        BY <2>1, <2>2, <1>3, <1>8, <1>11
<1>14. ASSUME NEW i \in 1 .. L + 1, HeadBelow(i, L + 1)'
       PROVE  stack'[i].nodes[1] = Innermost
    <2>1. i \in 1 .. L /\ \A j \in i + 1 .. L + 1 - 1 : j \in 1 .. L
        BY <1>7, <1>14 DEF HeadBelow
    <2>2. stack'[i] = stack[i] /\ \A j \in i + 1 .. L + 1 - 1 : stack'[j] = stack[j]
        BY <2>1, <1>8
    <2>3. HeadBelow(i, L + 1)
        BY <2>2, <1>7, <1>14 DEF HeadBelow
    <2> QED
        BY <2>1, <2>2, <2>3, <1>10
<1>15. ASSUME NEW k \in L + 1 .. Depth'
       PROVE  /\ stack'[k].sort # "defs" => Len(stack'[k].nodes) = 1
              /\ stack'[k].sort = "head" => heap'[stack'[k].nodes[1]].kind \in Scopes
              /\ stack'[k].sort \in {"list", "stm"} => heap'[stack'[k].nodes[1]].kind = "body"
              /\ \A l \in L + 1 .. Depth' : k # l => Range(stack'[k].nodes) \cap Range(stack'[l].nodes) = {}
              /\ \A i \in 1 .. k : HeadBelow(i, k)' =>
                     \A r \in Range(stack'[k].nodes) : heap'[r].scope = stack'[i].nodes[1]
    <2>1. CASE k = L + 1
        BY <2>1, <1>3, <1>8, <1>11, <1>12, <1>14
    <2>2. CASE k = L + 2
        BY <2>2, <1>3, <1>8, <1>11
    <2> QED
        BY <2>1, <2>2, <1>12
<1>16. L \in 1 .. Depth /\ Depth' >= L
    BY <1>1, <1>2, <1>7
<1>17. Forest(heap', (Roots \ Above(L)) \cup Above(L)')
    BY <1>10, <1>13
<1>18. Above(L)' \subseteq Above(L) \cup (DOMAIN heap' \ DOMAIN heap)
    BY <1>13
<1>19. Replaces(L)
    BY <1>1, <1>7, <1>8, <1>9, <1>15, <1>16, <1>17, <1>18 DEF Replaces, Extends
<1> QED
    BY <1>19, ReplaceKeeps

LEMMA ProcHeadKeeps ==
    ASSUME TreeInv, ProcHead
    PROVE  TreeInv'
<1>1. PICK n \in 0 .. MaxGroups :
        /\ May("proc", Len(Groups(n))) /\ heap' = heap \o Groups(n)
        /\ PushHead(HeadOf(n), Signature(n, 0))
    BY DEF ProcHead
<1>2. TypeOK /\ ValuesOK /\ Forest(heap, Roots) /\ status = "parsing" /\ n \in Nat
    BY <1>1, BoundAssumption DEF TreeInv, May
<1>3. Innermost \in DOMAIN heap /\ heap[Innermost].kind \in Scopes
    <2>1. NoHeads(0)
        BY <1>2, Nothing
    <2> QED
        BY <2>1, <1>2, AboveInnermost
<1>4. PICK f : f = HeadOf(n)
    OBVIOUS
<1>5. /\ Forest(heap', Roots \cup {f})
      /\ Len(heap) \in Nat /\ DOMAIN heap = 1 .. Len(heap)
      /\ Len(heap') \in Nat /\ DOMAIN heap' = 1 .. Len(heap')
      /\ f \in Len(heap) + 1 .. Len(heap') /\ heap'[f].kind = "proc" /\ heap'[f].scope = Innermost
      /\ \A m \in DOMAIN heap : m \in DOMAIN heap' /\ heap'[m] = heap[m]
    BY <1>1, <1>2, <1>3, <1>4, HeadKeeps
<1>6. Extends(heap, heap')
    BY <1>5 DEF Extends
<1>7. f \in Nat /\ f \in DOMAIN heap' \ DOMAIN heap /\ heap'[f].kind \in Scopes
    BY <1>5 DEF Scopes
<1>8. PushHead(f, Signature(n, 0))
    BY <1>1, <1>4
<1> QED
    BY <1>2, <1>5, <1>6, <1>7, <1>8, HeadOpens

(* A head of a procedure takes its result type and becomes that of a       *)
(* function.                                                               *)
HasResult(h, g, f) ==
    /\ DOMAIN g = 1 .. Len(h) + 1
    /\ \A n \in DOMAIN h : g[n].scope = h[n].scope /\ (n # f => g[n].kind = h[n].kind)
    /\ g[f].kind = "func"

LEMMA ResultKeeps ==
    ASSUME NEW h, NEW R, Forest(h, R), NEW f \in R, h[f].kind = "proc",
           NEW r, r = Append(h, Node("rettype", << >>, f)),
           NEW g, g = Adopt(Take([r EXCEPT ![f].kind = "func"], f, <<Len(r)>>), h[f].kids, f)
    PROVE  Forest(g, R) /\ HasResult(h, g, f)
<1> DEFINE top == Len(h) + 1
           q   == [r EXCEPT ![f].kind = "func"]
           res == <<top>>
           t   == Take(r, f, res)
           u   == Take(q, f, res)
           S   == R \cup {top}
<1>1. /\ h \in Seq(NodeRecord) /\ Len(h) \in Nat /\ DOMAIN h = 1 .. Len(h) /\ R \subseteq DOMAIN h
      /\ h[f].kids \in Seq(Nat)
    BY HeapType DEF Forest, HeapOK, RootsOK
<1>2. /\ Forest(r, S) /\ Len(r) = top /\ r[top] = Node("rettype", << >>, f)
      /\ \A n \in DOMAIN h : r[n] = h[n]
    <2>1. "rettype" \in Kinds \ Scopes /\ f \in DOMAIN h /\ h[f].kind \in Scopes
        BY <1>1 DEF Kinds, Scopes
    <2> QED
        BY <2>1, LeafKeeps
<1>3. r \in Seq(NodeRecord) /\ DOMAIN r = 1 .. top /\ \A n \in 1 .. top : r[n] \in NodeRecord
    BY <1>2, HeapType DEF Forest, HeapOK
<1>4. res \in Seq(Nat) /\ Range(res) = {top}
    BY <1>1, RangeSingle
<1>5. f \in DOMAIN r /\ r[f].kind = "proc" /\ r[f].kids = h[f].kids /\ r[top].scope = f /\ f # top
    BY <1>1, <1>2, <1>3 DEF Node
<1> HIDE DEF res, t
<1>6. Forest(t, S \ Range(res)) /\ SameNodes(r, t)
    <2>1. Range(res) \subseteq S \ {f} /\ \A c \in Range(res) : r[c].scope = ScopeOf(r, f)
        BY <1>4, <1>5 DEF ScopeOf, Scopes
    <2>2. f \in S
        OBVIOUS
    <2> HIDE DEF S
    <2> QED
        BY <2>1, <2>2, <1>2, <1>4, <1>5, TakeRootsKeeps DEF t
<1>7. Forest(t, R) /\ t[f].kind = "proc"
    <2>1. S \ Range(res) = R
        BY <1>1, <1>4
    <2> QED
        BY <2>1, <1>5, <1>6 DEF SameNodes
<1>8. /\ DOMAIN t = DOMAIN r
      /\ \A n \in DOMAIN r :
           /\ t[n].kind = r[n].kind /\ t[n].scope = r[n].scope
           /\ t[n].father = IF n \in Range(res) THEN f ELSE r[n].father
           /\ n # f => t[n].kids = r[n].kids
      /\ t[f].kids = r[f].kids \o res
    <2>1. HasTaken(r, t, f, res)
        BY <1>3, <1>4, <1>5, TakeShape DEF t
    <2> QED
        BY <2>1 DEF HasTaken
<1> HIDE DEF S
<1>9. /\ DOMAIN q = DOMAIN r /\ \A n \in DOMAIN r : n # f => q[n] = r[n]
      /\ q[f] = [r[f] EXCEPT !.kind = "func"]
    BY <1>3, <1>5
<1>10. /\ q[f].kind = "func" /\ q[f].kids = r[f].kids /\ q[f].father = r[f].father /\ q[f].scope = r[f].scope
       /\ q[f] \in NodeRecord
    <2>1. r[f] \in NodeRecord /\ "func" \in Kinds
        BY <1>3, <1>5 DEF Kinds, Scopes
    <2>2. PICK x : x = r[f]
        OBVIOUS
    <2>3. PICK y : y = [x EXCEPT !.kind = "func"]
        OBVIOUS
    <2>4. y.kind = "func" /\ y.kids = x.kids /\ y.father = x.father /\ y.scope = x.scope /\ y \in NodeRecord
        BY <2>1, <2>2, <2>3 DEF NodeRecord
    <2>5. q[f] = y
        BY <2>2, <2>3, <1>9
    <2> HIDE DEF q
    <2> QED
        BY <2>2, <2>4, <2>5
<1>11. q \in Seq(NodeRecord)
    <2>1. \A n \in 1 .. top : q[n] \in NodeRecord
        BY <1>3, <1>9, <1>10
    <2>2. q \in [1 .. top -> NodeRecord]
        BY <2>1, <1>3
    <2>0. top \in Nat
        BY <1>1
    <2> HIDE DEF q, top
    <2>3. q \in UNION {[1 .. m -> NodeRecord] : m \in Nat}
        BY <2>0, <2>2
    <2> QED
        BY <2>3, SeqDef, Zenon
<1> HIDE DEF q
<1>12. /\ u \in Seq(NodeRecord) /\ DOMAIN u = DOMAIN q
       /\ \A n \in DOMAIN q :
            /\ u[n].kind = q[n].kind /\ u[n].scope = q[n].scope
            /\ u[n].father = IF n \in Range(res) THEN f ELSE q[n].father
            /\ n # f => u[n].kids = q[n].kids
       /\ u[f].kids = q[f].kids \o res
    <2>1. HasTaken(q, u, f, res)
        BY <1>4, <1>5, <1>9, <1>11, TakeShape
    <2> HIDE DEF u
    <2> QED
        BY <2>1 DEF HasTaken
<1>13. g = [n \in DOMAIN u |-> IF n \in Range(h[f].kids) THEN [u[n] EXCEPT !.father = f] ELSE u[n]]
    BY <1>2 DEF Adopt, q, res
<1> HIDE DEF u, top
<1>14. DOMAIN g = 1 .. top /\ DOMAIN u = 1 .. top /\ DOMAIN t = 1 .. top
    BY <1>3, <1>8, <1>9, <1>12, <1>13
<1>15. \A n \in 1 .. top : u[n] \in NodeRecord
    BY <1>12, <1>14, HeapType
<1>16. f \in Nat /\ top \in Nat
    BY <1>1 DEF top
<1>17. ASSUME NEW n \in 1 .. top
       PROVE  /\ g[n].kind = u[n].kind /\ g[n].scope = u[n].scope /\ g[n].kids = u[n].kids
              /\ g[n].father = IF n \in Range(h[f].kids) THEN f ELSE u[n].father
              /\ g[n] \in NodeRecord
    <2>1. u[n] \in NodeRecord
        BY <1>15
    <2> QED
        BY <2>1, <1>13, <1>14, <1>16 DEF NodeRecord
<1>18. g \in Seq(NodeRecord)
    <2>1. g \in [1 .. top -> NodeRecord]
        BY <1>13, <1>14, <1>17
    <2>2. g \in UNION {[1 .. m -> NodeRecord] : m \in Nat}
        BY <2>1, <1>16
    <2> QED
        BY <2>2, SeqDef, Zenon
<1>19. Range(t[f].kids) = Range(h[f].kids) \cup {top}
    BY <1>1, <1>4, <1>5, <1>8, RangeConcat
<1>20. ASSUME NEW n \in DOMAIN t
       PROVE  /\ g[n].kind = IF n = f THEN "func" ELSE t[n].kind
              /\ g[n].scope = t[n].scope /\ g[n].kids = t[n].kids
              /\ g[n].father = IF n \in Range(t[f].kids) THEN f ELSE t[n].father
    <2>1. n \in 1 .. top /\ n \in DOMAIN r /\ n \in DOMAIN q
        BY <1>3, <1>9, <1>14
    <2>2. q[n].father = r[n].father /\ q[n].kids = r[n].kids /\ q[n].scope = r[n].scope
          /\ q[n].kind = IF n = f THEN "func" ELSE r[n].kind
        BY <2>1, <1>9, <1>10
    <2>3. u[n].kids = t[n].kids
        BY <2>1, <2>2, <1>8, <1>10, <1>12
    <2>4. u[n].father = t[n].father /\ (n = top => t[n].father = f)
        BY <2>1, <2>2, <1>4, <1>8, <1>12
    <2>5. g[n].kind = u[n].kind /\ u[n].kind = q[n].kind /\ t[n].kind = r[n].kind
        BY <2>1, <1>8, <1>12, <1>17
    <2>6. g[n].scope = u[n].scope /\ u[n].scope = q[n].scope /\ t[n].scope = r[n].scope
        BY <2>1, <1>8, <1>12, <1>17
    <2>7. g[n].father = IF n \in Range(t[f].kids) THEN f ELSE t[n].father
        <3>1. g[n].father = IF n \in Range(h[f].kids) THEN f ELSE t[n].father
            BY <2>1, <2>4, <1>17
        <3> QED
            BY <3>1, <2>4, <1>19
    <2>8. g[n].kids = t[n].kids
        BY <2>1, <2>3, <1>17
    <2> QED
        BY <2>2, <2>5, <2>6, <2>7, <2>8
<1>21. Forest(g, R)
    <2>1. BecomesFunction(t, g, f)
        BY <1>14, <1>18, <1>20 DEF BecomesFunction
    <2> QED
        BY <2>1, <1>7, FunctionKeeps
<1>22. ASSUME NEW n \in DOMAIN h
       PROVE  g[n].scope = h[n].scope /\ (n # f => g[n].kind = h[n].kind)
    <2>1. n \in DOMAIN r /\ n \in DOMAIN t /\ r[n] = h[n]
        BY <1>1, <1>2, <1>3, <1>14 DEF top
    <2>2. t[n].kind = r[n].kind /\ t[n].scope = r[n].scope
        BY <2>1, <1>8
    <2>3. g[n].kind = (IF n = f THEN "func" ELSE t[n].kind) /\ g[n].scope = t[n].scope
        BY <2>1, <1>20
    <2> QED
        BY <2>1, <2>2, <2>3
<1>23. g[f].kind = "func"
    BY <1>5, <1>8, <1>20
<1> QED
    BY <1>14, <1>21, <1>22, <1>23 DEF top, HasResult

LEMMA FuncHeadKeeps ==
    ASSUME TreeInv, FuncHead
    PROVE  TreeInv'
<1>1. PICK n \in 0 .. MaxGroups :
        /\ May("func", Len(Groups(n)) + 1)
        /\ LET f == HeadOf(n)
               h == heap \o Groups(n)
               r == Append(h, Node("rettype", << >>, f))
           IN  heap' = Adopt(Take([r EXCEPT ![f].kind = "func"], f, <<Len(r)>>), h[f].kids, f)
        /\ PushHead(HeadOf(n), Signature(n, 1))
    BY DEF FuncHead
<1>2. TypeOK /\ ValuesOK /\ Forest(heap, Roots) /\ status = "parsing" /\ n \in Nat
    BY <1>1, BoundAssumption DEF TreeInv, May
<1>3. Innermost \in DOMAIN heap /\ heap[Innermost].kind \in Scopes
    <2>1. NoHeads(0)
        BY <1>2, Nothing
    <2> QED
        BY <2>1, <1>2, AboveInnermost
<1>4. PICK f : f = HeadOf(n)
    OBVIOUS
<1>5. PICK h : h = heap \o Groups(n)
    OBVIOUS
<1>6. PICK r : r = Append(h, Node("rettype", << >>, f))
    OBVIOUS
<1>7. heap' = Adopt(Take([r EXCEPT ![f].kind = "func"], f, <<Len(r)>>), h[f].kids, f)
    BY <1>1, <1>4, <1>5, <1>6
<1>8. /\ Forest(h, Roots \cup {f})
      /\ Len(heap) \in Nat /\ DOMAIN heap = 1 .. Len(heap)
      /\ Len(h) \in Nat /\ DOMAIN h = 1 .. Len(h)
      /\ f \in Len(heap) + 1 .. Len(h) /\ h[f].kind = "proc" /\ h[f].scope = Innermost
      /\ \A m \in DOMAIN heap : m \in DOMAIN h /\ h[m] = heap[m]
    BY <1>2, <1>3, <1>4, <1>5, HeadKeeps
<1>9. f \in Roots \cup {f} /\ f \in DOMAIN h
    BY <1>8
<1>10. /\ Forest(heap', Roots \cup {f}) /\ DOMAIN heap' = 1 .. Len(h) + 1
       /\ \A m \in DOMAIN h : heap'[m].scope = h[m].scope /\ (m # f => heap'[m].kind = h[m].kind)
       /\ heap'[f].kind = "func"
    <2> DEFINE R == Roots \cup {f}
    <2>1. Forest(h, R) /\ f \in R
        BY <1>8
    <2> HIDE DEF R
    <2>2. Forest(heap', R) /\ HasResult(h, heap', f)
        BY <2>1, <1>6, <1>7, <1>8, ResultKeeps
    <2> QED
        BY <2>2 DEF R, HasResult
<1>11. Extends(heap, heap')
    BY <1>8, <1>10 DEF Extends
<1>12. f \in Nat /\ f \in DOMAIN heap' \ DOMAIN heap /\ heap'[f].kind \in Scopes /\ heap'[f].scope = Innermost
    BY <1>8, <1>9, <1>10 DEF Scopes
<1>13. PushHead(f, Signature(n, 1))
    BY <1>1, <1>4
<1> QED
    BY <1>2, <1>10, <1>11, <1>12, <1>13, HeadOpens
(* The routine on top of the stack: its head takes the other two. *)
Routine ==
    /\ TypeOK /\ ValuesOK /\ Forest(heap, Roots) /\ Depth >= 3
    /\ stack[Depth - 2].sort = "head" /\ stack[Depth - 1].sort = "define" /\ stack[Depth].sort = "stm"

LEMMA RoutineEnds ==
    ASSUME Routine, NEW f, f = stack[Depth - 2].nodes[1], NEW g, g = Take(heap, f, TopNodes(2))
    PROVE  /\ Forest(g, Roots \ Above(Depth - 2)) /\ SameNodes(heap, g)
           /\ f \in Roots \ Above(Depth - 2) /\ Range(stack[Depth - 2].nodes) = {f}
           /\ Above(Depth - 2) \subseteq Roots /\ f \in Nat
<1> DEFINE kids == TopNodes(2)
<1>1. Depth \in Nat /\ Depth >= 3 /\ TypeOK /\ ValuesOK /\ Forest(heap, Roots)
    BY StackType DEF Routine
<1>2. /\ Depth - 2 \in 1 .. Depth
      /\ \A k \in Depth - 2 + 1 .. Depth : k \in 1 .. Depth /\ k # Depth - 2 /\ (k = Depth - 1 \/ k = Depth)
    BY <1>1
<1>3. \A k \in Depth - 2 + 1 .. Depth : stack[k].sort \notin {"head", "defs"}
    BY <1>2 DEF Routine
<1>4. NoHeads(2) /\ 2 \in 0 .. Depth
    BY <1>1, <1>3 DEF NoHeads
<1>5. kids \in Seq(Nat) /\ Range(kids) = Above(Depth - 2)
    BY <1>1, <1>3, <1>4, TopNodesAre
<1>6. /\ Above(Depth - 2) \subseteq Roots
      /\ \A r \in Above(Depth - 2) : heap[r].scope = Innermost
      /\ \A i \in 1 .. Depth - 2 : HeadBelow(i, Depth - 2 + 1) => stack[i].nodes[1] = Innermost
    BY <1>1, <1>4, AboveInnermost
<1>7. HeadBelow(Depth - 2, Depth - 2 + 1) /\ Depth - 2 \in 1 .. Depth - 2
    BY <1>1 DEF HeadBelow, Routine
<1>8. f = Innermost
    BY <1>6, <1>7
<1>9. stack[Depth - 2].nodes \in Seq(Nat) /\ Len(stack[Depth - 2].nodes) = 1 /\ heap[f].kind \in Scopes
    BY <1>1, <1>2, StackType DEF ValuesOK, ValueOK, Routine
<1>10. Range(stack[Depth - 2].nodes) = {f} /\ f \in Nat
    BY <1>9, LenProperties, ElementOfSeq DEF Range
<1>11. f \in Roots
    BY <1>1, <1>2, <1>10, StackType
<1>12. f \notin Above(Depth - 2)
    <2> SUFFICES ASSUME NEW k \in Depth - 2 + 1 .. Depth, f \in Range(stack[k].nodes) PROVE FALSE
        BY DEF Above
    <2>1. Range(stack[Depth - 2].nodes) \cap Range(stack[k].nodes) = {}
        BY <1>1, <1>2 DEF ValuesOK, ValueOK
    <2> QED
        BY <2>1, <1>10
<1>13. heap[f].kind # "param" /\ ScopeOf(heap, f) = f
    BY <1>9 DEF ScopeOf, Scopes
<1> HIDE DEF kids
<1>14. Range(kids) \subseteq Roots \ {f} /\ \A c \in Range(kids) : heap[c].scope = ScopeOf(heap, f)
    BY <1>5, <1>6, <1>8, <1>12, <1>13
<1>15. g = Take(heap, f, kids)
    BY DEF kids
<1>16. Forest(g, Roots \ Range(kids)) /\ SameNodes(heap, g)
    <2>1. Forest(Take(heap, f, kids), Roots \ Range(kids)) /\ SameNodes(heap, Take(heap, f, kids))
        <3>1. Forest(heap, Roots) /\ f \in Roots /\ heap[f].kind # "param" /\ kids \in Seq(Nat)
            BY <1>1, <1>5, <1>11, <1>13
        <3> QED
            BY <3>1, <1>14, TakeRootsKeeps
    <2> QED
        BY <2>1, <1>15
<1> QED
    BY <1>5, <1>6, <1>10, <1>11, <1>12, <1>16

LEMMA EndFunctionKeeps ==
    ASSUME TreeInv, EndFunction
    PROVE  TreeInv'
<1> DEFINE L    == Depth - 4
           f    == Pick(3).nodes[1]
           defs == Pick(4).nodes
           all  == Append(defs, f)
           scope == heap[f].scope
           sorts == <<"defs", "head", "define", "stm">>
<1>1. /\ TypeOK /\ ValuesOK /\ Forest(heap, Roots) /\ status = "parsing" /\ status' = status
      /\ Tops(sorts)
      /\ heap' = Take(heap, f, TopNodes(2))
      /\ \E want : Reduce(4, Value("defs", all, want))
    BY DEF TreeInv, EndFunction
<1>2. Depth \in Nat /\ Depth >= 4
    BY <1>1, StackType DEF Tops
<1>3. /\ Depth - 4 + 1 = Depth - 3 /\ Depth - 4 + 2 = Depth - 2 /\ Depth - 4 + 3 = Depth - 1
      /\ Depth - 4 + 4 = Depth /\ Depth - 3 + 1 = Depth - 2
    BY <1>2
<1>4. /\ stack[Depth - 3].sort = "defs" /\ stack[Depth - 2].sort = "head"
      /\ stack[Depth - 1].sort = "define" /\ stack[Depth].sort = "stm"
    <2>1. /\ stack[Depth - 4 + 1].sort = "defs" /\ stack[Depth - 4 + 2].sort = "head"
          /\ stack[Depth - 4 + 3].sort = "define" /\ stack[Depth - 4 + 4].sort = "stm"
        BY <1>1 DEF Tops
    <2> QED
        BY <2>1, <1>3
<1>5. Pick(4) = stack[Depth - 3] /\ Pick(3) = stack[Depth - 2]
    BY <1>2 DEF Pick
<1>6. /\ L \in 1 .. Depth /\ 4 \in 0 .. Depth - 1 /\ L + 1 = Depth - 3
      /\ Depth - 3 \in 1 .. Depth /\ Depth - 2 \in 1 .. Depth /\ Depth - 3 # Depth - 2
    <2>1. Depth - 3 # 1
        BY <1>1, <1>4 DEF ValuesOK
    <2> QED
        BY <2>1, <1>2
<1>7. Routine
    BY <1>1, <1>2, <1>4 DEF Routine
<1>8. /\ Forest(heap', Roots \ Above(Depth - 2)) /\ SameNodes(heap, heap')
      /\ f \in Roots \ Above(Depth - 2) /\ Range(stack[Depth - 2].nodes) = {f}
      /\ Above(Depth - 2) \subseteq Roots /\ f \in Nat
    <2>1. f = stack[Depth - 2].nodes[1]
        BY <1>5
    <2> HIDE DEF f
    <2> QED
        BY <2>1, <1>1, <1>7, RoutineEnds
<1> HIDE DEF f
<1>9. /\ defs = stack[Depth - 3].nodes /\ defs \in Seq(Nat)
      /\ Range(defs) \subseteq Roots
    BY <1>1, <1>5, <1>6, StackType
<1>10. Above(L) = Range(defs) \cup {f} \cup Above(Depth - 2)
    <2>1. L + 1 .. Depth = {Depth - 3, Depth - 2} \cup (Depth - 2 + 1 .. Depth)
        BY <1>2, <1>6
    <2>2. Above(L) = Range(stack[Depth - 3].nodes) \cup Range(stack[Depth - 2].nodes)
                     \cup UNION {Range(stack[i].nodes) : i \in Depth - 2 + 1 .. Depth}
        BY <2>1 DEF Above
    <2> QED
        BY <2>2, <1>8, <1>9 DEF Above
<1>11. Range(defs) \cap Above(Depth - 2) = {}
    <2> SUFFICES ASSUME NEW k \in Depth - 2 + 1 .. Depth, NEW r \in Range(defs), r \in Range(stack[k].nodes)
                 PROVE  FALSE
        BY DEF Above
    <2>1. k \in 1 .. Depth /\ k # Depth - 3
        BY <1>2
    <2>2. Range(stack[Depth - 3].nodes) \cap Range(stack[k].nodes) = {}
        BY <2>1, <1>1, <1>6 DEF ValuesOK, ValueOK
    <2> QED
        BY <2>2, <1>9
<1>12. ASSUME NEW i \in 1 .. L, HeadBelow(i, L + 1)
       PROVE  /\ stack[i].nodes[1] = scope
              /\ \A r \in Range(defs) : heap[r].scope = stack[i].nodes[1]
    <2>1. i \in 1 .. Depth - 3 /\ i \in 1 .. Depth - 2
        BY <1>2, <1>6
    <2>2. HeadBelow(i, Depth - 3)
        BY <1>6, <1>12
    <2>3. HeadBelow(i, Depth - 2)
        <3>1. \A j \in i + 1 .. Depth - 2 - 1 : j \in i + 1 .. Depth - 3 - 1 \/ j = Depth - 3
            BY <1>2, <2>1
        <3>2. i < Depth - 2
            BY <1>2, <2>1
        <3> QED
            BY <3>1, <3>2, <2>2, <1>4 DEF HeadBelow
    <2>4. heap[f].scope = stack[i].nodes[1]
        BY <2>1, <2>3, <1>1, <1>6, <1>8 DEF ValuesOK, ValueOK
    <2>5. \A r \in Range(defs) : heap[r].scope = stack[i].nodes[1]
        BY <2>1, <2>2, <1>1, <1>6, <1>9 DEF ValuesOK, ValueOK
    <2> QED
        BY <2>4, <2>5
<1>13. PICK i \in 1 .. L : HeadBelow(i, L + 1)
    <2>1. PICK i \in 1 .. L : stack[i].sort = "head" /\ \A j \in i + 1 .. L : stack[j].sort # "head"
        BY <1>1, <1>6, SomeHead
    <2>2. i < L + 1 /\ \A j \in i + 1 .. L + 1 - 1 : j \in i + 1 .. L
        BY <1>2, <1>6
    <2>3. \A j \in i + 1 .. L + 1 - 1 : stack[j].sort # "head"
        BY <2>1, <2>2
    <2>4. L \in Nat
        BY <1>2, <1>6
    <2> HIDE DEF L
    <2>5. HeadBelow(i, L + 1)
        BY <2>1, <2>2, <2>3, <2>4 DEF HeadBelow
    <2> QED
        BY <2>5
<1>14. \A r \in Range(defs) : heap[r].scope = scope
    BY <1>12, <1>13
<1> HIDE DEF defs
<1>15. all \in Seq(Nat) /\ Range(all) = Range(defs) \cup {f}
    BY <1>8, <1>9, RangeAppend
<1> HIDE DEF all, L, scope
<1>16. \A m \in DOMAIN heap :
          m \in DOMAIN heap' /\ heap'[m].kind = heap[m].kind /\ heap'[m].scope = heap[m].scope
    BY <1>8 DEF SameNodes
<1>17. Roots \subseteq DOMAIN heap
    BY <1>1 DEF Forest, RootsOK
<1>18. \A r \in Range(all) : heap'[r].scope = scope
    BY <1>8, <1>9, <1>14, <1>15, <1>16, <1>17 DEF scope
<1>19. Range(all) \subseteq Above(L)
    BY <1>10, <1>15
<1>20. (Roots \ Above(L)) \cup Range(all) \subseteq Roots \ Above(Depth - 2)
    BY <1>8, <1>9, <1>10, <1>11, <1>15
<1>21. Forest(heap', (Roots \ Above(L)) \cup Range(all))
    BY <1>8, <1>20, DropKeeps
<1>22. "defs" \in Sorts \ {"head"}
    BY DEF Sorts
<1>23. Pushes(4, "defs", all, scope)
    BY <1>1, <1>6, <1>12, <1>15, <1>16, <1>18, <1>19, <1>21, <1>22 DEF Pushes, L
<1> QED
    BY <1>23, PushKeeps

LEMMA EndProgramKeeps ==
    ASSUME TreeInv, EndProgram
    PROVE  TreeInv'
<1>1. /\ TypeOK /\ ValuesOK /\ Forest(heap, Roots) /\ status = "parsing" /\ status' = "parsed"
      /\ Tops(<<"head", "define", "stm">>) /\ Depth = 3
      /\ heap' = Take(heap, 1, TopNodes(2))
      /\ \E want : Reduce(3, Value("program", <<1>>, want))
    BY DEF TreeInv, EndProgram
<1>2. /\ Depth - 2 = 1 /\ Depth - 1 = 2 /\ Depth \in Nat
      /\ Depth - 3 + 1 = 1 /\ Depth - 3 + 2 = 2 /\ Depth - 3 + 3 = 3 /\ 3 \in 0 .. Depth
    BY <1>1
<1>3. stack[1].sort = "head" /\ stack[2].sort = "define" /\ stack[3].sort = "stm"
    <2>1. /\ stack[Depth - 3 + 1].sort = "head" /\ stack[Depth - 3 + 2].sort = "define"
          /\ stack[Depth - 3 + 3].sort = "stm"
        BY <1>1 DEF Tops
    <2> QED
        BY <2>1, <1>2
<1>4. stack[1].nodes = <<1>> /\ stack[1].nodes[1] = 1
    BY <1>1 DEF ValuesOK
<1>5. Routine
    BY <1>1, <1>2, <1>3 DEF Routine
<1>6. /\ Forest(heap', Roots \ Above(1)) /\ 1 \in Roots \ Above(1) /\ Range(stack[1].nodes) = {1}
    BY <1>1, <1>2, <1>4, <1>5, RoutineEnds
<1>7. Roots = {1} \cup Above(1)
    <2>1. 1 .. Depth = {1} \cup (1 + 1 .. Depth)
        BY <1>1
    <2>2. Roots = Range(stack[1].nodes) \cup UNION {Range(stack[i].nodes) : i \in 1 + 1 .. Depth}
        BY <2>1 DEF Roots
    <2> QED
        BY <2>2, <1>6 DEF Above
<1>8. Forest(heap', {1})
    <2>1. Roots \ Above(1) = {1}
        BY <1>6, <1>7
    <2> QED
        BY <2>1, <1>6
<1>9. <<1>> \in Seq(Nat) /\ Range(<<1>>) = {1} /\ "program" \in Sorts
    BY RangeSingle DEF Sorts
<1>10. /\ Depth' = 1 /\ stack'[1].nodes = <<1>>
       /\ stack' \in Seq(ValueRecord({stack'[i].want : i \in 1 .. Depth'}))
    <2>1. PICK want : Reduce(3, Value("program", <<1>>, want))
        BY <1>1
    <2>2. /\ Depth' = Depth - 3 + 1 /\ stack'[Depth'].nodes = <<1>>
          /\ stack' \in Seq(ValueRecord({stack'[i].want : i \in 1 .. Depth'}))
        <3>1. PICK k \in 0 .. Depth, s \in Sorts, nodes \in Seq(Nat) :
                    k = 3 /\ s = "program" /\ nodes = <<1>>
            BY <1>2, <1>9
        <3>2. Reduce(k, Value(s, nodes, want))
            BY <2>1, <3>1
        <3>3. /\ Depth' = Depth - k + 1 /\ stack'[Depth'].nodes = nodes
              /\ stack' \in Seq(ValueRecord({stack'[i].want : i \in 1 .. Depth'}))
            BY <3>2, <1>1, ReduceIs
        <3> QED
            BY <3>1, <3>3
    <2> QED
        BY <2>2, <1>2
<1>11. Roots' = {1}
    <2>1. 1 .. Depth' = {1}
        BY <1>10
    <2>2. Roots' = UNION {Range(stack'[i].nodes) : i \in {1}}
        BY <2>1 DEF Roots
    <2> QED
        BY <2>2, <1>9, <1>10
<1>12. \A k \in 1 .. Depth' : Range(stack'[k].nodes) \subseteq DOMAIN heap'
    <2>1. 1 \in DOMAIN heap'
        BY <1>8 DEF Forest, RootsOK
    <2>2. \A k \in 1 .. Depth' : k = 1
        BY <1>10
    <2> QED
        BY <2>1, <2>2, <1>9, <1>10
<1>13. TypeOK'
    BY <1>1, <1>8, <1>10, <1>12, TypeFrom DEF Forest
<1> QED
    BY <1>1, <1>8, <1>11, <1>13 DEF TreeInv

LEMMA ErrorKeeps ==
    ASSUME TreeInv, SyntaxError
    PROVE  TreeInv'
<1>1. heap' = << >> /\ stack' = << >> /\ status' = "error"
    BY DEF SyntaxError
<1>2. DOMAIN heap' = {} /\ Depth' = 0 /\ heap' \in Seq(NodeRecord)
    BY <1>1 DEF Depth
<1>3. Roots' = {}
    BY <1>2 DEF Roots
<1>4. HeapOK(heap') /\ RootsOK(heap', {}) /\ KidsOK(heap', {})
    BY <1>2 DEF HeapOK, RootsOK, KidsOK, Held
<1>5. \E rank : Ranked(heap', rank)
    <2> DEFINE none == [n \in {} |-> 0]
    <2>1. none \in [DOMAIN heap' -> Nat] /\ 0 \in Nat
        BY <1>2
    <2>2. Ranked(heap', none)
        BY <2>1, <1>2 DEF Ranked
    <2> QED
        BY <2>2
<1>6. Forest(heap, Roots)'
    BY <1>3, <1>4, <1>5 DEF Forest
<1>7. /\ stack' \in Seq(ValueRecord({stack'[k].want : k \in 1 .. Depth'}))
      /\ \A k \in 1 .. Depth' : Range(stack'[k].nodes) \subseteq DOMAIN heap'
    BY <1>1, <1>2
<1>8. TypeOK'
    BY <1>1, <1>4, <1>7, TypeFrom
<1> QED
    BY <1>1, <1>6, <1>8 DEF TreeInv

LEMMA TreeInvInit == Init => TreeInv
<1> SUFFICES ASSUME Init PROVE TreeInv
    OBVIOUS
<1> DEFINE root == Node("program", << >>, Null)
           head == Value("head", <<1>>, << >>)
           defs == Value("defs", << >>, << >>)
<1>1. heap = <<root>> /\ stack = <<head, defs>> /\ status = "parsing"
    BY DEF Init
<1>2. /\ root.kind = "program" /\ root.father = 0 /\ root.kids = << >> /\ root.scope = 0
      /\ root = [kind |-> "program", father |-> 0, kids |-> << >>, scope |-> 0]
      /\ head.sort = "head" /\ head.nodes = <<1>> /\ head.want = << >>
      /\ defs.sort = "defs" /\ defs.nodes = << >> /\ defs.want = << >>
    BY DEF Node, Value, Null
<1>3. "program" \in Kinds /\ "program" \in Scopes /\ {"head", "defs"} \subseteq Sorts
    BY DEF Kinds, Scopes, Sorts
<1>4. root \in NodeRecord
    <2>1. << >> \in Seq(Nat) /\ 0 \in Nat
        OBVIOUS
    <2> HIDE DEF root
    <2> QED
        BY <2>1, <1>2, <1>3 DEF NodeRecord
<1> HIDE DEF root
<1>5. heap \in Seq(NodeRecord) /\ Len(heap) = 1 /\ DOMAIN heap = {1} /\ heap[1] = root
    BY <1>1, <1>4
<1>6. /\ Range(<<1>>) = {1} /\ Len(<<1>>) = 1 /\ <<1>>[1] = 1 /\ <<1>> \in Seq(Nat)
      /\ Range(<< >>) = {} /\ DOMAIN << >> = {} /\ << >> \in Seq(Nat)
    BY RangeSingle DEF Range
<1>7. /\ Depth = 2 /\ stack[1] = head /\ stack[2] = defs
      /\ 1 .. Depth = {1, 2}
    BY <1>1 DEF Depth
<1>8. Roots = {1}
    BY <1>2, <1>6, <1>7 DEF Roots
<1>9. HeapOK(heap)
    BY <1>2, <1>3, <1>5, <1>6 DEF HeapOK, Null
<1>10. RootsOK(heap, {1}) /\ KidsOK(heap, {1})
    <2>1. \A n \in DOMAIN heap : n = 1 /\ heap[n].kids = << >> /\ Range(heap[n].kids) = {} /\ heap[n].father = Null
        BY <1>2, <1>5, <1>6 DEF Null
    <2>2. RootsOK(heap, {1})
        BY <2>1, <1>5 DEF RootsOK
    <2>3. KidsOK(heap, {1})
        BY <2>1, <1>6 DEF KidsOK, Held
    <2> QED
        BY <2>2, <2>3
<1>11. \E rank : Ranked(heap, rank)
    <2> DEFINE low == [n \in {1} |-> 0]
    <2>1. low \in [DOMAIN heap -> Nat] /\ \A n \in DOMAIN heap : low[n] < 1
        BY <1>5
    <2>2. 1 \in Nat
        OBVIOUS
    <2>3. Ranked(heap, low)
        BY <2>1, <2>2, <1>2, <1>5, <1>6 DEF Ranked, Null
    <2> QED
        BY <2>3
<1>12. Forest(heap, Roots)
    BY <1>8, <1>9, <1>10, <1>11 DEF Forest
<1>13. TypeOK
    <2> DEFINE W == {stack[k].want : k \in 1 .. Depth}
               V == [sort : Sorts, nodes : Seq(Nat), want : W]
    <2>1. head.want \in W /\ defs.want \in W
        BY <1>7
    <2> HIDE DEF W
    <2>2. head \in V /\ defs \in V
        BY <2>1, <1>2, <1>3, <1>6 DEF Value
    <2> HIDE DEF V, head, defs
    <2>3. stack \in Seq(V)
        BY <2>2, <1>1
    <2>4. heap \in Seq([kind : Kinds, father : Nat, kids : Seq(Nat), scope : Nat])
        BY <1>5 DEF NodeRecord
    <2>5. Nodes = {1}
        BY <1>5 DEF Nodes
    <2>6. \A n \in Nodes :
            /\ heap[n].father \in {Null} \cup Nodes /\ heap[n].scope \in {Null} \cup Nodes
            /\ \A i \in DOMAIN heap[n].kids : heap[n].kids[i] \in Nodes
        BY <2>5, <1>2, <1>5, <1>6 DEF Null
    <2>7. \A k \in 1 .. Depth : \A i \in DOMAIN stack[k].nodes : stack[k].nodes[i] \in Nodes
        <3>1. DOMAIN <<1>> = {1}
            OBVIOUS
        <3> QED
            BY <3>1, <2>5, <1>2, <1>6, <1>7
    <2> QED
        BY <2>3, <2>4, <2>6, <2>7, <1>1 DEF TypeOK, V, W
<1>14. ValuesOK
    <2>1. ValueOK(1)
        <3>1. \A i \in 1 .. 1 : ~HeadBelow(i, 1)
            BY DEF HeadBelow
        <3> QED
            BY <3>1, <1>2, <1>3, <1>5, <1>6, <1>7 DEF ValueOK
    <2>2. ValueOK(2)
        BY <1>2, <1>6, <1>7 DEF ValueOK
    <2> QED
        BY <2>1, <2>2, <1>2, <1>7 DEF ValuesOK
<1> QED
    BY <1>1, <1>12, <1>13, <1>14 DEF TreeInv

LEMMA TreeInvStep == TreeInv /\ [Next]_vars => TreeInv'
<1> SUFFICES ASSUME TreeInv, [Next]_vars PROVE TreeInv'
    OBVIOUS
<1>1. CASE Leaf("var") \/ Leaf("const")
    BY <1>1, LeafKeepsInv
<1>2. CASE Unary
    BY <1>2, ExpressionKeeps DEF Unary
<1>3. CASE Binary
    BY <1>3, ExpressionKeeps DEF Binary
<1>4. CASE CallExp
    <2>1. PICK n \in 0 .. MaxArgs : Expression("callexp", n)
        BY <1>4 DEF CallExp
    <2>2. n \in Nat
        BY BoundAssumption
    <2> QED
        BY <2>1, <2>2, ExpressionKeeps
<1>5. CASE Assign
    BY <1>5, SimpleKeeps DEF Assign
<1>6. CASE CallStm
    <2>1. PICK n \in 0 .. MaxArgs : May("call", 2) /\ Exps(n) /\ Simple("call", n)
        BY <1>6 DEF CallStm
    <2>2. n \in Nat
        BY BoundAssumption
    <2> QED
        BY <2>1, <2>2, SimpleKeeps
<1>7. CASE GotoStm
    BY <1>7, SimpleKeeps DEF GotoStm
<1>8. CASE If
    BY <1>8, IfKeeps
<1>9. CASE IfElse
    BY <1>9, IfElseKeeps
<1>10. CASE While
    BY <1>10, WhileKeeps
<1>11. CASE For
    BY <1>11, ForKeeps
<1>12. CASE Repeat
    BY <1>12, RepeatKeeps
<1>13. CASE EmptyList
    BY <1>13, EmptyListKeeps
<1>14. CASE ExtendList
    BY <1>14, ExtendListKeeps
<1>15. CASE Compound
    BY <1>15, CompoundKeeps
<1>16. CASE Labelled
    BY <1>16, LabelledKeeps
<1>17. CASE LabelDef
    BY <1>17, SimpleDefKeeps DEF LabelDef
<1>18. CASE ConstDef
    BY <1>18, ConstDefKeeps
<1>19. CASE VarDef
    BY <1>19, SimpleDefKeeps DEF VarDef
<1>20. CASE ProcHead
    BY <1>20, ProcHeadKeeps
<1>21. CASE FuncHead
    BY <1>21, FuncHeadKeeps
<1>22. CASE Define
    BY <1>22, DefineKeeps
<1>23. CASE EndFunction
    BY <1>23, EndFunctionKeeps
<1>24. CASE EndProgram
    BY <1>24, EndProgramKeeps
<1>25. CASE SyntaxError
    BY <1>25, ErrorKeeps
<1>26. CASE Stopped \/ UNCHANGED vars
    <2>1. heap' = heap /\ stack' = stack /\ status' = status
        BY <1>26 DEF Stopped, vars
    <2>2. Depth' = Depth /\ Nodes' = Nodes /\ Roots' = Roots
        BY <2>1 DEF Depth, Nodes, Roots
    <2>3. TypeOK'
        BY <2>1, <2>2 DEF TreeInv, TypeOK
    <2>4. Forest(heap, Roots)'
        BY <2>1, <2>2 DEF TreeInv
    <2>5. ValuesOK => ValuesOK'
        <3>1. \A i, k : HeadBelow(i, k)' <=> HeadBelow(i, k)
            BY <2>1 DEF HeadBelow
        <3>2. \A k : ValueOK(k) => ValueOK(k)'
            BY <3>1, <2>1, <2>2 DEF ValueOK
        <3> QED
            BY <3>2, <2>1, <2>2 DEF ValuesOK
    <2> QED
        BY <2>1, <2>2, <2>3, <2>4, <2>5 DEF TreeInv
<1> QED
    BY <1>1, <1>2, <1>3, <1>4, <1>5, <1>6, <1>7, <1>8, <1>9, <1>10, <1>11, <1>12, <1>13, <1>14, <1>15,
       <1>16, <1>17, <1>18, <1>19, <1>20, <1>21, <1>22, <1>23, <1>24, <1>25, <1>26 DEF Next

(* The parser builds a forest: Spec keeps TreeInv. *)
THEOREM TreeInvariant == Spec => []TreeInv
BY TreeInvInit, TreeInvStep, PTL DEF Spec
--------------------------------------------------------------------------------
(* The walks *)

(* What can be reached by succ: the function exists whatever succ is, also *)
(* where a definition by recursion would not end.                          *)
Reaches(D, succ, c) ==
    c \in [D -> SUBSET D] /\ \A m \in D : c[m] = {m} \cup UNION {c[x] : x \in succ[m]}

LEMMA ReachExists ==
    ASSUME NEW D, NEW succ \in [D -> SUBSET D]
    PROVE  \E c : Reaches(D, succ, c)
<1> DEFINE Closed(S) == \A x \in S : succ[x] \subseteq S
           c == [m \in D |-> {x \in D : \A S \in SUBSET D : m \in S /\ Closed(S) => x \in S}]
<1>1. c \in [D -> SUBSET D]
    OBVIOUS
<1>2. ASSUME NEW m \in D PROVE m \in c[m] /\ Closed(c[m])
    <2>1. m \in c[m]
        OBVIOUS
    <2>2. ASSUME NEW x \in c[m], NEW y \in succ[x] PROVE y \in c[m]
        <3>1. x \in D /\ y \in D
            BY <1>1
        <3>2. ASSUME NEW S \in SUBSET D, m \in S, Closed(S) PROVE y \in S
            <4>1. x \in S
                BY <3>2
            <4> QED
                BY <4>1, <3>2
        <3> HIDE DEF Closed
        <3> QED
            BY <3>1, <3>2
    <2> QED
        BY <2>1, <2>2
<1>3. ASSUME NEW m \in D, NEW S \in SUBSET D, m \in S, Closed(S) PROVE c[m] \subseteq S
    BY <1>3
<1>4. ASSUME NEW m \in D PROVE c[m] = {m} \cup UNION {c[x] : x \in succ[m]}
    <2> DEFINE S == {m} \cup UNION {c[x] : x \in succ[m]}
    <2>1. \A x \in succ[m] : x \in D /\ x \in c[m]
        BY <1>2
    <2>2. \A x \in succ[m] : c[x] \subseteq c[m]
        <3> HIDE DEF c, Closed
        <3>1. c[m] \in SUBSET D /\ Closed(c[m])
            BY <1>1, <1>2
        <3> QED
            BY <3>1, <2>1, <1>3
    <2>3. S \subseteq c[m]
        <3>1. m \in c[m]
            BY <1>2
        <3> HIDE DEF c
        <3> QED
            BY <3>1, <2>2
    <2>4. S \in SUBSET D /\ m \in S
        BY <2>3, <1>1
    <2>5. Closed(S)
        <3> SUFFICES ASSUME NEW x \in S PROVE succ[x] \subseteq S
            OBVIOUS
        <3>1. CASE x = m
            <4>1. \A y \in succ[m] : y \in c[y]
                BY <2>1, <1>2
            <4> HIDE DEF c
            <4> QED
                BY <4>1, <3>1
        <3>2. ASSUME NEW y \in succ[m], x \in c[y] PROVE succ[x] \subseteq S
            <4>1. Closed(c[y])
                BY <2>1, <1>2
            <4> HIDE DEF c
            <4> QED
                BY <4>1, <3>2
        <3> HIDE DEF c
        <3> QED
            BY <3>1, <3>2
    <2> HIDE DEF S, c, Closed
    <2>6. c[m] \subseteq S
        BY <2>4, <2>5, <1>3
    <2> QED
        BY <2>3, <2>6 DEF S
<1> HIDE DEF c
<1>5. Reaches(D, succ, c)
    BY <1>1, <1>4 DEF Reaches
<1> QED
    BY <1>5

(* The function that Below defines *)
BelowFun == CHOOSE f : f = [m \in Nodes |-> {m} \cup UNION {f[heap[m].kids[i]] : i \in DOMAIN heap[m].kids}]

LEMMA BelowIs ==
    ASSUME NEW n
    PROVE  Below(n) = BelowFun[n]
BY DEF Below, BelowFun
KidsOf == [m \in Nodes |-> {heap[m].kids[i] : i \in DOMAIN heap[m].kids}]

LEMMA BelowFunIs ==
    ASSUME TypeOK
    PROVE  \A m \in Nodes : BelowFun[m] = {m} \cup UNION {BelowFun[heap[m].kids[i]] : i \in DOMAIN heap[m].kids}
<1> DEFINE Eq(f) == f = [m \in Nodes |-> {m} \cup UNION {f[heap[m].kids[i]] : i \in DOMAIN heap[m].kids}]
<1>1. \A m \in Nodes : \A i \in DOMAIN heap[m].kids : heap[m].kids[i] \in Nodes
    BY DEF TypeOK
<1>2. KidsOf \in [Nodes -> SUBSET Nodes]
    BY <1>1 DEF KidsOf
<1>3. PICK c : Reaches(Nodes, KidsOf, c)
    BY <1>2, ReachExists
<1>4. ASSUME NEW m \in Nodes PROVE c[m] = {m} \cup UNION {c[heap[m].kids[i]] : i \in DOMAIN heap[m].kids}
    <2>1. {c[x] : x \in KidsOf[m]} = {c[heap[m].kids[i]] : i \in DOMAIN heap[m].kids}
        BY DEF KidsOf
    <2> QED
        BY <2>1, <1>3 DEF Reaches
<1>5. c = [m \in Nodes |-> {m} \cup UNION {c[heap[m].kids[i]] : i \in DOMAIN heap[m].kids}]
    BY <1>3, <1>4 DEF Reaches
<1>6. \E f : Eq(f)
    BY <1>5
<1>7. Eq(BelowFun)
    <2>1. BelowFun = CHOOSE f : Eq(f)
        BY DEF BelowFun
    <2> HIDE DEF Eq
    <2> QED
        BY <2>1, <1>6
<1> QED
    BY <1>7

(* What is under a node that was not dropped was not dropped, and was come *)
(* to from a node under it.                                                *)
LEMMA UnderHeld ==
    ASSUME TypeOK, Forest(heap, Roots), NEW n \in Held(heap, Roots), NEW x \in Below(n)
    PROVE  /\ x \in Held(heap, Roots)
           /\ x # n => \E p \in Below(n) : x \in Range(heap[p].kids)
<1> DEFINE H == Held(heap, Roots)
           Good(m) == \A y \in BelowFun[m] :
                         y \in H /\ (y # m => \E p \in BelowFun[m] : y \in Range(heap[p].kids))
           Bad == {m \in H : ~Good(m)}
<1>1. PICK rank : Ranked(heap, rank)
    BY DEF Forest
<1>2. DOMAIN heap = Nodes /\ H \subseteq Nodes
    BY LenProperties DEF TypeOK, Nodes, Held
<1>3. \A m \in Nodes : BelowFun[m] = {m} \cup UNION {BelowFun[heap[m].kids[i]] : i \in DOMAIN heap[m].kids}
    BY BelowFunIs
<1>4. ASSUME NEW m \in H, \A k \in H : rank[k] < rank[m] => Good(k)
      PROVE  Good(m)
    <2> SUFFICES ASSUME NEW y \in BelowFun[m]
                 PROVE  y \in H /\ (y # m => \E p \in BelowFun[m] : y \in Range(heap[p].kids))
        OBVIOUS
    <2>1. m \in Nodes /\ m \in BelowFun[m]
        BY <1>2, <1>3
    <2>2. CASE y = m
        BY <2>2
    <2>3. ASSUME NEW i \in DOMAIN heap[m].kids, y \in BelowFun[heap[m].kids[i]]
          PROVE  y \in H /\ \E p \in BelowFun[m] : y \in Range(heap[p].kids)
        <3> DEFINE k == heap[m].kids[i]
        <3>1. k \in H /\ k \in Range(heap[m].kids)
            BY <2>1, <1>2 DEF Held, Range, TypeOK
        <3>2. rank[k] < rank[m]
            BY <2>1, <1>1, <1>2 DEF Ranked
        <3>3. Good(k)
            BY <3>1, <3>2, <1>4
        <3>4. BelowFun[k] \subseteq BelowFun[m]
            BY <2>1, <1>3
        <3> HIDE DEF k, H
        <3>5. y \in BelowFun[k]
            BY <2>3 DEF k
        <3> QED
            BY <3>1, <3>3, <3>4, <3>5, <2>1
    <2> QED
        BY <2>1, <2>2, <2>3, <1>3
<1> HIDE DEF Good
<1>5. Bad = {}
    <2> SUFFICES ASSUME Bad # {} PROVE FALSE
        OBVIOUS
    <2> DEFINE T == {rank[m] : m \in Bad}
    <2>1. T \subseteq Nat /\ T # {}
        BY <1>1, <1>2 DEF Ranked
    <2> HIDE DEF T
    <2>2. PICK t \in T : \A s \in T : t <= s
        BY <2>1, Least
    <2> USE DEF T
    <2>3. PICK m \in Bad : t = rank[m]
        BY <2>2
    <2>4. \A k \in H : rank[k] < rank[m] => k \notin Bad
        <3>1. \A k \in Bad : rank[m] <= rank[k] /\ rank[k] \in Nat /\ rank[m] \in Nat
            BY <2>1, <2>2, <2>3
        <3> QED
            BY <3>1
    <2>5. \A k \in H : rank[k] < rank[m] => Good(k)
        BY <2>4
    <2> QED
        BY <2>3, <2>5, <1>4
<1>6. Good(n) /\ Below(n) = BelowFun[n]
    BY <1>5, BelowIs
<1> QED
    BY <1>6 DEF Good

LEMMA AliveHeld ==
    ASSUME TypeOK, Forest(heap, Roots)
    PROVE  Alive \subseteq Held(heap, Roots) /\ Alive \subseteq Nodes
<1>1. Roots \subseteq Held(heap, Roots)
    BY DEF Forest, RootsOK, Held
<1>2. Alive \subseteq Held(heap, Roots)
    BY <1>1, UnderHeld DEF Alive
<1>3. DOMAIN heap = Nodes
    BY LenProperties DEF TypeOK, Nodes
<1> QED
    BY <1>2, <1>3 DEF Held

LEMMA FathersAreRight == TreeInv => FathersHold
<1> SUFFICES ASSUME TreeInv PROVE FathersHold
    OBVIOUS
<1>1. TypeOK /\ Forest(heap, Roots)
    BY DEF TreeInv
<1>2. ASSUME NEW n \in Alive, NEW i \in DOMAIN heap[n].kids
      PROVE  heap[heap[n].kids[i]].father = n \/ Stray(n, i)
    <2>1. n \in Held(heap, Roots)
        BY <1>1, AliveHeld
    <2> QED
        BY <2>1, <1>1 DEF Forest, KidsOK, Stray
<1> QED
    BY <1>1, <1>2 DEF FathersHold

(* Through all moves from Body to Body, and when a procedure's head        *)
(* becomes a function's, each node of the tree is the father of its        *)
(* children (parser.y 196-240, tree.cpp): for programs of any size.        *)
THEOREM FathersStayRight == Spec => []FathersHold
BY TreeInvariant, FathersAreRight, PTL
--------------------------------------------------------------------------------
Places == {Null} \cup Nodes
Stops(m) == m = Null \/ heap[m].kind \in Scopes

(* The functions that ScopeFrom, LooksIn and Around define *)
WalkFun == CHOOSE f : f = [m \in {Null} \cup Nodes |->
                             IF m = Null \/ heap[m].kind \in Scopes THEN m ELSE f[heap[m].father]]

LooksFun == CHOOSE f : f = [m \in {Null} \cup Nodes |->
                              {ScopeFrom(m)} \cup
                              IF ScopeFrom(m) = Null \/ heap[ScopeFrom(m)].kind = "program" THEN {}
                              ELSE f[heap[ScopeFrom(m)].father]]

AroundFun == CHOOSE f : f = [s \in {Null} \cup Nodes |-> IF s = Null THEN {} ELSE {s} \cup f[heap[s].scope]]

LEMMA WalksAre ==
    ASSUME NEW n
    PROVE  ScopeFrom(n) = WalkFun[n] /\ LooksIn(n) = LooksFun[n] /\ Around(n) = AroundFun[n]
<1>1. ScopeFrom(n) = WalkFun[n]
    BY DEF ScopeFrom, WalkFun
<1>2. LooksIn(n) = LooksFun[n]
    BY DEF LooksIn, LooksFun
<1>3. Around(n) = AroundFun[n]
    BY DEF Around, AroundFun
<1> QED
    BY <1>1, <1>2, <1>3

LEMMA WalkFunIs ==
    ASSUME TypeOK
    PROVE  \A m \in Places : WalkFun[m] = IF Stops(m) THEN m ELSE WalkFun[heap[m].father]
<1> DEFINE Eq(f) == f = [m \in {Null} \cup Nodes |->
                           IF m = Null \/ heap[m].kind \in Scopes THEN m ELSE f[heap[m].father]]
           succ == [m \in Places |-> IF Stops(m) THEN {} ELSE {heap[m].father}]
<1>1. \A m \in Places : ~Stops(m) => heap[m].father \in Places
    BY DEF TypeOK, Places, Stops
<1>2. succ \in [Places -> SUBSET Places]
    BY <1>1
<1>3. PICK c : Reaches(Places, succ, c)
    <2> HIDE DEF succ
    <2> QED
        BY <1>2, ReachExists
<1> DEFINE T(m) == {x \in c[m] : Stops(x)}
           w == [m \in Places |-> CHOOSE x : x \in T(m)]
<1>4. ASSUME NEW m \in Places PROVE w[m] = IF Stops(m) THEN m ELSE w[heap[m].father]
    <2>1. CASE Stops(m)
        <3>1. c[m] = {m}
            BY <2>1, <1>3 DEF Reaches
        <3>2. T(m) = {m}
            BY <2>1, <3>1
        <3> QED
            BY <2>1, <3>2
    <2>2. CASE ~Stops(m)
        <3>1. succ[m] = {heap[m].father} /\ heap[m].father \in Places
            BY <2>2, <1>1
        <3>2. c[m] = {m} \cup c[heap[m].father]
            BY <3>1, <1>3 DEF Reaches
        <3>3. T(m) = T(heap[m].father)
            BY <2>2, <3>2
        <3> QED
            BY <2>2, <3>1, <3>3
    <2> QED
        BY <2>1, <2>2
<1>5. Eq(w)
    <2>1. w = [m \in Places |-> w[m]]
        OBVIOUS
    <2> HIDE DEF w
    <2>2. w = [m \in Places |-> IF Stops(m) THEN m ELSE w[heap[m].father]]
        BY <2>1, <1>4
    <2> QED
        BY <2>2 DEF Places, Stops
<1>6. Eq(WalkFun)
    <2>1. WalkFun = CHOOSE f : Eq(f)
        BY DEF WalkFun
    <2>2. \E f : Eq(f)
        BY <1>5
    <2> HIDE DEF Eq
    <2> QED
        BY <2>1, <2>2
<1> QED
    BY <1>6 DEF Places, Stops

LEMMA AroundFunIs ==
    ASSUME TypeOK
    PROVE  \A s \in Places : AroundFun[s] = IF s = Null THEN {} ELSE {s} \cup AroundFun[heap[s].scope]
<1> DEFINE Eq(f) == f = [s \in {Null} \cup Nodes |-> IF s = Null THEN {} ELSE {s} \cup f[heap[s].scope]]
           succ == [s \in Places |-> IF s = Null THEN {} ELSE {heap[s].scope}]
<1>1. \A s \in Places : s # Null => heap[s].scope \in Places
    BY DEF TypeOK, Places
<1>2. succ \in [Places -> SUBSET Places]
    BY <1>1
<1>3. PICK c : Reaches(Places, succ, c)
    <2> HIDE DEF succ
    <2> QED
        BY <1>2, ReachExists
<1> DEFINE w == [s \in Places |-> c[s] \ {Null}]
<1>4. ASSUME NEW s \in Places PROVE w[s] = IF s = Null THEN {} ELSE {s} \cup w[heap[s].scope]
    <2>1. CASE s = Null
        <3>1. c[s] = {s}
            BY <2>1, <1>3 DEF Reaches
        <3> QED
            BY <2>1, <3>1
    <2>2. CASE s # Null
        <3>1. succ[s] = {heap[s].scope} /\ heap[s].scope \in Places
            BY <2>2, <1>1
        <3>2. c[s] = {s} \cup c[heap[s].scope]
            BY <3>1, <1>3 DEF Reaches
        <3> QED
            BY <2>2, <3>1, <3>2
    <2> QED
        BY <2>1, <2>2
<1>5. Eq(w)
    <2>1. w = [s \in Places |-> IF s = Null THEN {} ELSE {s} \cup w[heap[s].scope]]
        BY <1>4
    <2> HIDE DEF w
    <2> QED
        BY <2>1 DEF Places
<1>6. Eq(AroundFun)
    <2>1. AroundFun = CHOOSE f : Eq(f)
        BY DEF AroundFun
    <2>2. \E f : Eq(f)
        BY <1>5
    <2> HIDE DEF Eq
    <2> QED
        BY <2>1, <2>2
<1> QED
    BY <1>6 DEF Places
(* Induction on a rank, for a set *)
LEMMA ByRank ==
    ASSUME NEW N, NEW Good, NEW rank \in [N -> Nat],
           \A n \in N : (\A k \in N : rank[k] < rank[n] => k \in Good) => n \in Good
    PROVE  N \subseteq Good
<1> DEFINE Bad == N \ Good
           T   == {rank[m] : m \in Bad}
<1> SUFFICES ASSUME Bad # {} PROVE FALSE
    OBVIOUS
<1>1. T \subseteq Nat /\ T # {}
    OBVIOUS
<1> HIDE DEF T
<1>2. PICK t \in T : \A s \in T : t <= s
    BY <1>1, Least
<1> USE DEF T
<1>3. PICK m \in Bad : t = rank[m]
    BY <1>2
<1>4. \A k \in Bad : rank[m] <= rank[k] /\ rank[k] \in Nat /\ rank[m] \in Nat
    BY <1>1, <1>2, <1>3
<1>5. \A k \in N : rank[k] < rank[m] => k \in Good
    BY <1>4
<1> QED
    BY <1>3, <1>5

(* Induction upwards: fathers first *)
LEMMA FromTheTop ==
    ASSUME TypeOK, NEW rank, Ranked(heap, rank), NEW Good,
           \A n \in Nodes : (\A k \in Nodes : rank[n] < rank[k] => k \in Good) => n \in Good
    PROVE  Nodes \subseteq Good
<1>1. DOMAIN heap = Nodes
    BY LenProperties DEF TypeOK, Nodes
<1>2. PICK bound \in Nat : \A n \in Nodes : rank[n] < bound
    BY <1>1 DEF Ranked
<1>3. rank \in [Nodes -> Nat]
    BY <1>1 DEF Ranked
<1> DEFINE down == [n \in Nodes |-> bound - rank[n]]
<1>4. down \in [Nodes -> Nat]
    BY <1>2, <1>3
<1>5. \A n, k \in Nodes : down[k] < down[n] <=> rank[n] < rank[k]
    BY <1>2, <1>3
<1> HIDE DEF down
<1>6. \A n \in Nodes : (\A k \in Nodes : down[k] < down[n] => k \in Good) => n \in Good
    BY <1>5
<1> QED
    BY <1>4, <1>6, ByRank

LEMMA WalkStays ==
    ASSUME TypeOK, Forest(heap, Roots), NEW m \in Places
    PROVE  ScopeFrom(m) \in Places
<1> DEFINE Good == {n \in Nodes : WalkFun[n] \in Places}
<1>1. PICK rank : Ranked(heap, rank)
    BY DEF Forest
<1>2. \A n \in Places : WalkFun[n] = IF Stops(n) THEN n ELSE WalkFun[heap[n].father]
    BY WalkFunIs
<1>3. DOMAIN heap = Nodes
    BY LenProperties DEF TypeOK, Nodes
<1>4. ASSUME NEW n \in Nodes, \A k \in Nodes : rank[n] < rank[k] => k \in Good
      PROVE  n \in Good
    <2>1. CASE Stops(n)
        BY <2>1, <1>2 DEF Places
    <2>2. CASE ~Stops(n) /\ heap[n].father = Null
        BY <2>2, <1>2 DEF Places, Stops
    <2>3. CASE ~Stops(n) /\ heap[n].father # Null
        <3>1. heap[n].father \in Nodes /\ rank[n] < rank[heap[n].father]
            BY <2>3, <1>1, <1>3 DEF TypeOK, Ranked
        <3>2. heap[n].father \in Good
            BY <3>1, <1>4
        <3> QED
            BY <2>3, <3>2, <1>2 DEF Places
    <2> QED
        BY <2>1, <2>2, <2>3
<1> HIDE DEF Good
<1>5. Nodes \subseteq Good
    BY <1>1, <1>4, FromTheTop
<1>6. WalkFun[m] \in Places
    BY <1>2, <1>5 DEF Good, Places, Stops
<1> QED
    BY <1>6, WalksAre

LEMMA LooksFunIs ==
    ASSUME TypeOK, Forest(heap, Roots)
    PROVE  \A m \in Places :
              LooksFun[m] = {ScopeFrom(m)} \cup
                            IF ScopeFrom(m) = Null \/ heap[ScopeFrom(m)].kind = "program" THEN {}
                            ELSE LooksFun[heap[ScopeFrom(m)].father]
<1> DEFINE End(m) == ScopeFrom(m) = Null \/ heap[ScopeFrom(m)].kind = "program"
           Up(m)  == heap[ScopeFrom(m)].father
           Eq(f)  == f = [m \in {Null} \cup Nodes |->
                            {ScopeFrom(m)} \cup
                            IF ScopeFrom(m) = Null \/ heap[ScopeFrom(m)].kind = "program" THEN {}
                            ELSE f[heap[ScopeFrom(m)].father]]
           succ == [m \in Places |-> IF End(m) THEN {} ELSE {Up(m)}]
<1>1. \A m \in Places : ~End(m) => Up(m) \in Places
    BY WalkStays DEF TypeOK, Places
<1> HIDE DEF End, Up
<1>2. succ \in [Places -> SUBSET Places]
    BY <1>1
<1>3. PICK c : Reaches(Places, succ, c)
    <2> HIDE DEF succ
    <2> QED
        BY <1>2, ReachExists
<1> DEFINE w == [m \in Places |-> {ScopeFrom(x) : x \in c[m]}]
<1>4. ASSUME NEW m \in Places PROVE w[m] = {ScopeFrom(m)} \cup IF End(m) THEN {} ELSE w[Up(m)]
    <2>1. CASE End(m)
        <3>1. c[m] = {m}
            BY <2>1, <1>3 DEF Reaches
        <3> QED
            BY <2>1, <3>1
    <2>2. CASE ~End(m)
        <3>1. succ[m] = {Up(m)} /\ Up(m) \in Places
            BY <2>2, <1>1
        <3>2. c[m] = {m} \cup c[Up(m)]
            BY <3>1, <1>3 DEF Reaches
        <3> QED
            BY <2>2, <3>1, <3>2
    <2> QED
        BY <2>1, <2>2
<1>5. Eq(w)
    <2>1. w = [m \in Places |-> w[m]]
        OBVIOUS
    <2> HIDE DEF w
    <2>2. w = [m \in Places |-> {ScopeFrom(m)} \cup IF End(m) THEN {} ELSE w[Up(m)]]
        BY <2>1, <1>4
    <2> QED
        BY <2>2 DEF Places, End, Up
<1>6. Eq(LooksFun)
    <2>1. LooksFun = CHOOSE f : Eq(f)
        BY DEF LooksFun
    <2>2. \E f : Eq(f)
        BY <1>5
    <2> HIDE DEF Eq
    <2> QED
        BY <2>1, <2>2
<1> QED
    BY <1>6 DEF Places
(* The nodes of the finished tree that have children *)
Inner == {n \in Alive : DOMAIN heap[n].kids # {}}

(* Where a finished tree's walks from a node lead, by what is above it. *)
LEMMA InnerWalks ==
    ASSUME TreeInv, status = "parsed", NEW n \in Inner
    PROVE  ScopeFrom(n) = ScopeOf(heap, n) /\ LooksFun[n] = AroundFun[ScopeOf(heap, n)]
<1> DEFINE S(m) == ScopeOf(heap, m)
           Right(m) == /\ S(m) \in Inner /\ heap[S(m)].kind \in Scopes
                       /\ ScopeFrom(m) = S(m)
                       /\ LooksFun[m] = AroundFun[S(m)]
<1>1. TypeOK /\ Forest(heap, Roots) /\ Roots = {1}
    BY DEF TreeInv
<1>2. PICK rank : Ranked(heap, rank)
    BY <1>1 DEF Forest
<1> DEFINE Good == {m \in Nodes : m \in Inner => Right(m) /\ rank[m] <= rank[S(m)]}
<1>3. DOMAIN heap = Nodes /\ Inner \subseteq Nodes /\ Nodes \subseteq Places
    BY <1>1, AliveHeld, LenProperties DEF TypeOK, Nodes, Inner, Places
<1>4. \A m \in Places : ScopeFrom(m) = IF Stops(m) THEN m ELSE ScopeFrom(heap[m].father)
    BY <1>1, WalkFunIs, WalksAre
<1>5. rank \in [Nodes -> Nat]
    BY <1>2, <1>3 DEF Ranked
<1>6. ASSUME NEW m \in Inner, m # 1
      PROVE  \E p \in Inner : heap[m].father = p /\ heap[m].scope = S(p) /\ rank[m] < rank[p]
    <2>1. m \in Below(1) /\ Alive = Below(1) /\ 1 \in Held(heap, Roots)
        BY <1>1, AliveHeld DEF Inner, Alive, Held, Forest, RootsOK
    <2>2. PICK p \in Alive : m \in Range(heap[p].kids)
        BY <2>1, <1>1, <1>6, UnderHeld
    <2>3. PICK i \in DOMAIN heap[p].kids : heap[p].kids[i] = m
        BY <2>2 DEF Range
    <2>4. p \in Inner /\ p \in Held(heap, Roots) /\ p \in Nodes
        BY <2>2, <2>3, <1>1, AliveHeld DEF Inner
    <2>5. heap[m].kind # "param"
        <3>1. heap[m].kind = "param" => heap[m].kids = << >>
            BY <1>1, <1>3 DEF Forest, HeapOK
        <3>2. DOMAIN heap[m].kids # {}
            BY DEF Inner
        <3> QED
            BY <3>1, <3>2
    <2>6. heap[m].father = p /\ heap[m].scope = S(p)
        BY <2>3, <2>4, <2>5, <1>1 DEF Forest, KidsOK
    <2>7. rank[m] < rank[p]
        BY <2>3, <2>4, <1>2, <1>3 DEF Ranked
    <2> QED
        BY <2>4, <2>6, <2>7
<1> HIDE DEF Good
<1>7. ASSUME NEW m \in Nodes, \A k \in Nodes : rank[m] < rank[k] => k \in Good
      PROVE  m \in Good
    <2> SUFFICES ASSUME m \in Inner PROVE Right(m) /\ rank[m] <= rank[S(m)]
        BY DEF Good
    <2>1. /\ S(m) \in Inner /\ heap[S(m)].kind \in Scopes /\ ScopeFrom(m) = S(m)
          /\ rank[m] <= rank[S(m)]
        <3>1. CASE heap[m].kind \in Scopes
            BY <3>1, <1>3, <1>4, <1>5 DEF ScopeOf, Stops
        <3>2. CASE heap[m].kind \notin Scopes
            <4>1. m # 1
                BY <3>2, <1>1, <1>3 DEF Forest, HeapOK, Scopes
            <4>2. PICK p \in Inner : heap[m].father = p /\ heap[m].scope = S(p) /\ rank[m] < rank[p]
                BY <4>1, <1>6
            <4>3. Right(p) /\ rank[p] <= rank[S(p)]
                BY <4>2, <1>3, <1>7 DEF Good
            <4>4. S(m) = S(p)
                BY <3>2, <4>2 DEF ScopeOf
            <4>5. m # Null
                BY DEF Null, Nodes
            <4>6. ScopeFrom(m) = ScopeFrom(p)
                BY <3>2, <4>2, <4>5, <1>3, <1>4 DEF Stops
            <4>7. rank[m] \in Nat /\ rank[p] \in Nat /\ rank[S(p)] \in Nat
                BY <4>2, <4>3, <1>3, <1>5
            <4> QED
                BY <4>2, <4>3, <4>4, <4>6, <4>7
        <3> QED
            BY <3>1, <3>2
    <2> DEFINE s == S(m)
    <2>2. s \in Nodes /\ s \in Places /\ m \in Places /\ s # Null
        <3>1. s \in Inner /\ m \in Inner
            BY <2>1
        <3>2. \A x \in Inner : x \in Nodes /\ x \in Places
            BY <1>3
        <3>3. \A x \in Nodes : x # Null
            BY DEF Null, Nodes
        <3> HIDE DEF s
        <3> QED
            BY <3>1, <3>2, <3>3
    <2>3. LooksFun[m] = {s} \cup IF heap[s].kind = "program" THEN {} ELSE LooksFun[heap[s].father]
        BY <2>1, <2>2, <1>1, LooksFunIs
    <2>4. AroundFun[s] = {s} \cup AroundFun[heap[s].scope]
        BY <2>2, <1>1, AroundFunIs
    <2>5. LooksFun[m] = AroundFun[s]
        <3>1. CASE heap[s].kind = "program"
            <4>1. s = 1 /\ heap[s].scope = Null
                BY <3>1, <2>2, <1>1, <1>3 DEF Forest, HeapOK
            <4>2. AroundFun[Null] = {}
                BY <1>1, AroundFunIs DEF Places
            <4> QED
                BY <3>1, <4>1, <4>2, <2>3, <2>4
        <3>2. CASE heap[s].kind # "program"
            <4>1. s # 1
                BY <3>2, <2>2, <1>1, <1>3 DEF Forest, HeapOK
            <4>2. PICK p \in Inner : heap[s].father = p /\ heap[s].scope = S(p) /\ rank[s] < rank[p]
                BY <4>1, <2>1, <1>6
            <4>3. rank[m] < rank[p]
                <5>1. rank[m] \in Nat /\ rank[s] \in Nat /\ rank[p] \in Nat
                    BY <4>2, <2>2, <1>3, <1>5
                <5> QED
                    BY <5>1, <4>2, <2>1
            <4>4. Right(p)
                BY <4>2, <4>3, <1>3, <1>7 DEF Good
            <4> QED
                BY <3>2, <4>2, <4>4, <2>3, <2>4
        <3> QED
            BY <3>1, <3>2
    <2> QED
        BY <2>1, <2>5
<1>8. Nodes \subseteq Good
    BY <1>1, <1>2, <1>7, FromTheTop
<1>9. Right(n)
    BY <1>3, <1>8 DEF Good
<1> QED
    BY <1>9

LEMMA WalksAreRight == TreeInv => WalkFindsScope
<1> SUFFICES ASSUME TreeInv, status = "parsed",
                    NEW n \in Alive, NEW i \in DOMAIN heap[n].kids, ~Stray(n, i)
             PROVE  LET kid == heap[heap[n].kids[i]] IN
                    ScopeFrom(kid.father) = kid.scope /\ LooksIn(kid.father) = Around(kid.scope)
    BY DEF WalkFindsScope
<1> DEFINE kid == heap[heap[n].kids[i]]
<1>1. TypeOK /\ Forest(heap, Roots)
    BY DEF TreeInv
<1>2. n \in Held(heap, Roots)
    BY <1>1, AliveHeld
<1>3. kid.father = n /\ kid.scope = ScopeOf(heap, n)
    BY <1>1, <1>2 DEF Forest, KidsOK, Stray
<1>4. n \in Inner
    BY DEF Inner
<1> QED
    BY <1>3, <1>4, InnerWalks, WalksAre

(* In the finished tree the way up from every node leads to the functions  *)
(* around it in the text and to no others, which is what findName and      *)
(* canFindLabel (semantics.cpp) rely on: for programs of any size.         *)
THEOREM WalksAreThoseOfSource == Spec => []WalkFindsScope
BY TreeInvariant, WalksAreRight, PTL
================================================================================
