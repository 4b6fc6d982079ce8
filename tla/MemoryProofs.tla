------------------------------ MODULE MemoryProofs ------------------------------
(***************************************************************************)
(* Pointers of a compiled program lead to live variables, through any      *)
(* chain of calls, and what leaves an object is an element of an array     *)
(* that starts behind 0.                                                   *)
(***************************************************************************)
EXTENDS Memory, TLAPS

IInv == TypeOK /\ PointersLive

(* The slots of a call, one by one. *)
LEMMA ModeType ==
    ASSUME NEW p \in Proc, NEW n \in Slots(p)
    PROVE  n \in Nat /\ Mode(p, n) \in {"var", "value"} /\ Mode(p, 0) = "value" /\ 0 \in Slots(p)
<1>1. Formals[p] \in Seq({"var", "value"})  BY ProcAssumption
<1>2. Len(Formals[p]) \in Nat  BY <1>1
<1>3. n \in Nat /\ (n # 0 => n \in 1 .. Len(Formals[p]))  BY <1>2 DEF Slots
<1>4. n # 0 => Formals[p][n] \in {"var", "value"}  BY <1>1, <1>3
<1> QED  BY <1>2, <1>3, <1>4 DEF Mode, Slots

LEMMA CellsDiffer ==
    /\ \A o1, o2, i1, i2 : Cell(o1, i1) = Cell(o2, i2) <=> o1 = o2 /\ i1 = i2
    /\ \A k1, k2, n1, n2 : Local(k1, n1) = Local(k2, n2) <=> k1 = k2 /\ n1 = n2
    /\ \A x, k, n : Global(x) # Local(k, n)
<1>1. \A o1, o2, i1, i2 : Cell(o1, i1) = Cell(o2, i2) <=> o1 = o2 /\ i1 = i2  BY DEF Cell
<1>2. \A k1, k2, n1, n2 : Local(k1, n1) = Local(k2, n2) <=> k1 = k2 /\ n1 = n2  BY DEF Local
<1>3. \A x, k, n : Global(x).kind = "global" /\ Local(k, n).kind = "local"  BY DEF Global, Local
<1> QED  BY <1>1, <1>2, <1>3

(* What the cells of calls up to the k-th are. *)
LEMMA DataCellsAre ==
    ASSUME NEW k \in Nat, NEW c
    PROVE  c \in DataCells(k) <=>
              \/ c \in NamedGlobals
              \/ \E j \in 1 .. k : \E n \in Slots(frames[j].proc) :
                    Mode(frames[j].proc, n) = "value" /\ c = Cell(Local(j, n), 0)
BY DEF DataCells

LEMMA CellsAre ==
    ASSUME NEW fs, NEW c
    PROVE  c \in Cells(fs) <=>
              \/ c \in GlobalCells
              \/ \E j \in DOMAIN fs : \E n \in Slots(fs[j].proc) : c = Cell(Local(j, n), 0)
BY DEF Cells, FrameCells

LEMMA GlobalsApart ==
    ASSUME NEW k, NEW n
    PROVE  Cell(Local(k, n), 0) \notin GlobalCells
BY CellsDiffer DEF GlobalCells

LEMMA NamedGlobalsExist == NamedGlobals \subseteq GlobalCells
BY DEF NamedGlobals, GlobalCells

LEMMA DepthType ==
    ASSUME IInv
    PROVE  /\ Depth \in Nat /\ DOMAIN frames = 1 .. Depth
           /\ \A k \in 1 .. Depth : frames[k].proc \in Proc
           /\ Depth <= MaxDepth /\ MaxDepth \in Nat
<1> DEFINE F == [proc : Proc, dest : SUBSET AllCells]
<1>1. frames \in Seq(F)  BY DEF IInv, TypeOK
<1> HIDE DEF F
<1>2. Depth \in Nat /\ DOMAIN frames = 1 .. Depth /\ \A k \in 1 .. Depth : frames[k] \in F
  BY <1>1 DEF Depth
<1>3. \A k \in 1 .. Depth : frames[k].proc \in Proc  BY <1>2 DEF F
<1> QED  BY <1>2, <1>3, DepthAssumption DEF IInv, TypeOK

LEMMA DataCellsExist ==
    ASSUME IInv, NEW k \in 0 .. Depth
    PROVE  /\ DataCells(k) \subseteq DataCells(Depth)
           /\ DataCells(k) \subseteq Cells(frames) /\ DataCells(k) \subseteq AllCells
<1>1. Depth \in Nat /\ DOMAIN frames = 1 .. Depth  BY DepthType
<1>2. 1 .. k \subseteq 1 .. Depth /\ k \in Nat  BY <1>1
<1>3. DataCells(k) \subseteq DataCells(Depth) /\ DataCells(k) \subseteq Cells(frames)
  BY <1>1, <1>2, DataCellsAre, CellsAre, NamedGlobalsExist
<1>4. Cells(frames) \subseteq AllCells
  <2>1. \A j \in 1 .. Depth : j \in 1 .. MaxDepth /\ frames[j].proc \in Proc  BY DepthType
  <2> QED  BY <1>1, <2>1 DEF Cells, AllCells
<1> QED  BY <1>3, <1>4

(* A slot of a var parameter is not data. *)
LEMMA PointersApart ==
    ASSUME IInv, NEW k \in 1 .. Depth, NEW n \in Slots(frames[k].proc),
           Mode(frames[k].proc, n) = "var", NEW j \in Nat
    PROVE  Cell(Local(k, n), 0) \notin DataCells(j)
BY DepthType, DataCellsAre, GlobalsApart, CellsDiffer, NamedGlobalsExist

LEMMA ReferencesAre ==
    ASSUME NEW r \in References
    PROVE  \/ \E v \in Var : r = Global(v)
           \/ \E a \in Arr : \E i \in Lo[a] .. Hi[a] : r = Element(a, i)
           \/ Depth # 0 /\ \E n \in Slots(frames[Depth].proc) : r = Slot(n)
<1> DEFINE E == UNION {{Element(a, i) : i \in Lo[a] .. Hi[a]} : a \in Arr}
           P == {Slot(n) : n \in Slots(frames[Depth].proc)}
<1>1. CASE Depth = 0
  <2>1. References = {Global(v) : v \in Var} \cup E \cup {}  BY <1>1 DEF References
  <2> QED  BY <2>1
<1>2. CASE Depth # 0
  <2>1. References = {Global(v) : v \in Var} \cup E \cup P  BY <1>2 DEF References
  <2> QED  BY <1>2, <2>1
<1> QED  BY <1>1, <1>2

(* The address of a reference is data, or outside of an array.  An element *)
(* of an array that starts at 0 is inside.                                 *)
LEMMA AddressOfReference ==
    ASSUME IInv, NEW r \in References
    PROVE  /\ Safe(r) => Address(r) \in DataCells(Depth)
           /\ ~Safe(r) => r.kind = "element" /\ Lo[r.name] # 0
<1>1. DOMAIN mem = Cells(frames)  BY DEF IInv, TypeOK
<1>2. Depth \in Nat  BY DepthType
<1>3. DataCells(Depth) \subseteq Cells(frames)  BY DataCellsExist, <1>2
<1>4. CASE \E v \in Var : r = Global(v)
  <2>1. PICK v \in Var : r = Global(v)  BY <1>4
  <2>2. r.kind = "global" /\ r.name = v  BY <2>1 DEF Global
  <2>3. Address(r) = Cell(Global(v), 0)  BY <2>2 DEF Address
  <2>4. Address(r) \in DataCells(Depth)  BY <1>2, <2>3, DataCellsAre DEF NamedGlobals
  <2> QED  BY <1>1, <1>3, <2>4 DEF Safe
<1>5. CASE \E a \in Arr : \E i \in Lo[a] .. Hi[a] : r = Element(a, i)
  <2>0. PICK a \in Arr : \E i \in Lo[a] .. Hi[a] : r = Element(a, i)  BY <1>5
  <2>1. PICK i \in Lo[a] .. Hi[a] : r = Element(a, i)  BY <2>0
  <2>2. r.kind = "element" /\ r.name = a /\ r.index = i  BY <2>1 DEF Element
  <2>3. Address(r) = Cell(Global(a), i)  BY <2>2 DEF Address
  <2>4. Lo[a] \in Nat /\ Hi[a] \in Nat  BY ArrAssumption
  <2>5. i \in 0 .. Length(a) - 1 => Address(r) \in DataCells(Depth)
    BY <1>2, <2>3, DataCellsAre DEF NamedGlobals
  <2>6. ASSUME Address(r) \in Cells(frames) PROVE Address(r) \in DataCells(Depth)
    <3>1. ~(\E j \in DOMAIN frames : \E n \in Slots(frames[j].proc) : Address(r) = Cell(Local(j, n), 0))
      BY <2>3, CellsDiffer
    <3>2. Address(r) \in GlobalCells  BY <2>6, <3>1, CellsAre
    <3>3. \A v \in Var : Global(v) # Global(a)  BY NamesAssumption DEF Global
    <3>4. \A x : Global(x) = Global(a) => x = a  BY DEF Global
    <3>5. i \in 0 .. Length(a) - 1  BY <2>3, <3>2, <3>3, <3>4, CellsDiffer DEF GlobalCells
    <3> QED  BY <2>5, <3>5
  <2>7. Lo[a] = 0 => i \in 0 .. Length(a) - 1  BY <2>4 DEF Length
  <2>8. Safe(r) <=> Address(r) \in Cells(frames)  BY <1>1, <2>2 DEF Safe
  <2> QED  BY <1>3, <2>2, <2>5, <2>6, <2>7, <2>8
<1>6. CASE Depth # 0 /\ \E n \in Slots(frames[Depth].proc) : r = Slot(n)
  <2>1. PICK n \in Slots(frames[Depth].proc) : r = Slot(n)  BY <1>6
  <2>2. r.kind = "slot" /\ r.slot = n  BY <2>1 DEF Slot
  <2>3. Depth \in 1 .. Depth /\ Depth - 1 \in 0 .. Depth  BY <1>2, <1>6
  <2>4. frames[Depth].proc \in Proc  BY <2>3, DepthType
  <2>5. CASE Mode(frames[Depth].proc, n) = "var"
    <3>1. Address(r) = mem[Cell(Local(Depth, n), 0)]  BY <2>2, <2>5 DEF Address, Own
    <3>2. Address(r) \in DataCells(Depth - 1)  BY <2>3, <2>5, <3>1 DEF IInv, PointersLive
    <3> QED  BY <1>1, <1>3, <2>3, <3>2, DataCellsExist DEF Safe
  <2>6. CASE Mode(frames[Depth].proc, n) = "value"
    <3>1. Address(r) = Cell(Local(Depth, n), 0)  BY <2>2, <2>6 DEF Address, Own
    <3>2. Address(r) \in DataCells(Depth)  BY <1>2, <2>3, <2>6, <3>1, DataCellsAre
    <3> QED  BY <1>1, <1>3, <3>2 DEF Safe
  <2> QED  BY <2>4, <2>5, <2>6, ModeType
<1> QED  BY <1>4, <1>5, <1>6, ReferencesAre

(* What a step leaves of the calls keeps its data cells. *)
LEMMA SameCalls ==
    ASSUME NEW k \in Nat, \A j \in 1 .. k : frames'[j].proc = frames[j].proc
    PROVE  DataCells(k)' = DataCells(k)
<1> DEFINE D(p, j) == {Cell(Local(j, n), 0) : n \in {m \in Slots(p) : Mode(p, m) = "value"}}
<1>1. DataCells(k) = NamedGlobals \cup UNION {D(frames[j].proc, j) : j \in 1 .. k}  BY DEF DataCells
<1>2. DataCells(k)' = NamedGlobals \cup UNION {D(frames'[j].proc, j) : j \in 1 .. k}
  BY DEF DataCells
<1> HIDE DEF D
<1>3. \A j \in 1 .. k : D(frames'[j].proc, j) = D(frames[j].proc, j)  OBVIOUS
<1> QED  BY <1>1, <1>2, <1>3

(* What is read from data is a value. *)
LEMMA SourcesAreValues ==
    ASSUME IInv, NEW s \in Sources, Safe(s)
    PROVE  ValuesOf(s) \subseteq Value
<1>1. CASE s \in References
  <2>1. CASE s.kind = "literal"
    <3>1. FALSE
      BY <1>1, <2>1, ReferencesAre DEF Global, Element, Slot
    <3> QED  BY <3>1
  <2>2. CASE s.kind # "literal"
    <3>1. Address(s) \in DataCells(Depth)  BY <1>1, AddressOfReference
    <3>2. mem[Address(s)] \in Value \cup {Undef}  BY <3>1 DEF IInv, TypeOK
    <3> QED  BY <2>2, <3>2 DEF ValuesOf, Reads
  <2> QED  BY <2>1, <2>2
<1>2. CASE s \in {Literal(v) : v \in Value}
  BY <1>2 DEF Literal, ValuesOf
<1> QED  BY <1>1, <1>2 DEF Sources

LEMMA InitInvariant == Init => IInv
<1> SUFFICES ASSUME Init PROVE IInv  OBVIOUS
<1>1. frames = << >> /\ Depth = 0 /\ 1 .. Depth = {}  BY DEF Init, Depth
<1>2. frames \in Seq([proc : Proc, dest : SUBSET AllCells])  BY <1>1
<1>3. Depth <= MaxDepth  BY <1>1, DepthAssumption
<1>4. mem \in [Cells(frames) -> {Zero}]  BY <1>1 DEF Init
<1>5. DataCells(Depth) \subseteq Cells(frames)  BY <1>1, DataCellsAre, CellsAre, NamedGlobalsExist
<1>6. TypeOK  BY <1>1, <1>2, <1>3, <1>4, <1>5, ValueAssumption DEF TypeOK, Init
<1>7. PointersLive  BY <1>1 DEF PointersLive
<1> QED  BY <1>6, <1>7 DEF IInv

(* An assignment changes a data cell, by a value. *)
LEMMA AssignInvariant ==
    ASSUME IInv, NEW t \in References, NEW s \in Sources, Assign(t, s)
    PROVE  IInv'
<1>1. PICK v \in ValuesOf(s) : mem' = [mem EXCEPT ![Address(t)] = v]  BY DEF Assign
<1>2. frames' = frames /\ status' = status /\ Safe(t) /\ Safe(s)  BY DEF Assign
<1>3. v \in Value  BY <1>1, <1>2, SourcesAreValues
<1>4. Address(t) \in DataCells(Depth)  BY <1>2, AddressOfReference
<1>5. Depth' = Depth /\ Cells(frames)' = Cells(frames) /\ \A k : DataCells(k)' = DataCells(k)
  BY <1>2 DEF Depth, DataCells
<1>6. Depth \in Nat  BY DepthType
<1>7. DataCells(Depth) \subseteq Cells(frames)  BY <1>6, DataCellsExist
<1>8. TypeOK'
  <2>1. mem' \in [Cells(frames) -> Value \cup {Undef} \cup AllCells]
    BY <1>1, <1>3, <1>4, <1>7 DEF IInv, TypeOK
  <2>2. \A c \in DataCells(Depth) : mem'[c] \in Value \cup {Undef}
    BY <1>1, <1>3, <1>7 DEF IInv, TypeOK
  <2> QED  BY <1>2, <1>5, <2>1, <2>2 DEF IInv, TypeOK
<1>9. PointersLive'
  <2> SUFFICES ASSUME NEW k \in 1 .. Depth, NEW n \in Slots(frames[k].proc),
                      Mode(frames[k].proc, n) = "var"
               PROVE  mem'[Cell(Local(k, n), 0)] = mem[Cell(Local(k, n), 0)]
    BY <1>2, <1>5 DEF IInv, PointersLive
  <2>1. Cell(Local(k, n), 0) \notin DataCells(Depth)  BY <1>6, PointersApart
  <2>2. Cell(Local(k, n), 0) \in DOMAIN mem
    BY DepthType, CellsAre DEF IInv, TypeOK
  <2> QED  BY <1>1, <1>4, <2>1, <2>2
<1> QED  BY <1>8, <1>9 DEF IInv

(* The cells of the data of a new call come on top of what was there. *)
LEMMA NewCallData ==
    ASSUME NEW k \in Nat, NEW p, \A j \in 1 .. k : frames'[j].proc = frames[j].proc,
           frames'[k + 1].proc = p
    PROVE  DataCells(k + 1)' =
              DataCells(k) \cup {Cell(Local(k + 1, n), 0) : n \in {m \in Slots(p) : Mode(p, m) = "value"}}
<1> DEFINE D(q, j) == {Cell(Local(j, n), 0) : n \in {m \in Slots(q) : Mode(q, m) = "value"}}
<1>1. DataCells(k) = NamedGlobals \cup UNION {D(frames[j].proc, j) : j \in 1 .. k}  BY DEF DataCells
<1>2. DataCells(k + 1)' = NamedGlobals \cup UNION {D(frames'[j].proc, j) : j \in 1 .. k + 1}
  BY DEF DataCells
<1> SUFFICES DataCells(k + 1)' = DataCells(k) \cup D(p, k + 1)  OBVIOUS
<1> HIDE DEF D
<1>3. \A j \in 1 .. k : D(frames'[j].proc, j) = D(frames[j].proc, j)  OBVIOUS
<1>4. \A j : j \in 1 .. k + 1 <=> j \in 1 .. k \/ j = k + 1  OBVIOUS
<1> QED  BY <1>1, <1>2, <1>3, <1>4

(* What a call does to the frames and the cells. *)
LEMMA CallFrames ==
    ASSUME IInv, NEW p \in Proc, NEW args \in Arguments(p), NEW dest \in SUBSET References,
           Call(p, args, dest)
    PROVE  /\ Depth' = Depth + 1 /\ Depth' <= MaxDepth
           /\ frames' \in Seq([proc : Proc, dest : SUBSET AllCells])
           /\ \A j \in 1 .. Depth : frames'[j] = frames[j]
           /\ frames'[Depth + 1].proc = p /\ frames'[Depth + 1].dest \subseteq DataCells(Depth)
           /\ \A c : c \in Cells(frames)' <=>
                  c \in Cells(frames) \/ \E n \in Slots(p) : c = Cell(Local(Depth + 1, n), 0)
           /\ \A n : Cell(Local(Depth + 1, n), 0) \notin Cells(frames)
           /\ \A k \in 0 .. Depth : DataCells(k)' = DataCells(k)
           /\ DataCells(Depth)' =
                  DataCells(Depth) \cup {Cell(Local(Depth + 1, n), 0) : n \in {m \in Slots(p) : Mode(p, m) = "value"}}
<1> DEFINE F == [proc : Proc, dest : SUBSET AllCells]
           new == [proc |-> p, dest |-> {Address(r) : r \in dest}]
<1>1. frames' = Append(frames, new) /\ Depth < MaxDepth /\ \A r \in dest : Safe(r)  BY DEF Call
<1>2. Depth \in Nat /\ DOMAIN frames = 1 .. Depth /\ MaxDepth \in Nat  BY DepthType
<1>3. new.dest \subseteq DataCells(Depth)  BY <1>1, AddressOfReference
<1>4. new \in F  BY <1>2, <1>3, DataCellsExist
<1>5. frames \in Seq(F)  BY DEF IInv, TypeOK
<1>6. new.proc = p  OBVIOUS
<1> HIDE DEF F, new
<1>7. /\ Depth' = Depth + 1 /\ frames' \in Seq(F) /\ DOMAIN frames' = 1 .. Depth + 1
      /\ \A j \in 1 .. Depth : frames'[j] = frames[j]
      /\ frames'[Depth + 1] = new
  BY <1>1, <1>4, <1>5 DEF Depth
<1>8. \A c : c \in Cells(frames)' <=>
          c \in Cells(frames) \/ \E n \in Slots(p) : c = Cell(Local(Depth + 1, n), 0)
  <2>1. \A c : c \in Cells(frames)' <=>
          c \in GlobalCells \/ \E j \in 1 .. Depth + 1 : \E n \in Slots(frames'[j].proc) : c = Cell(Local(j, n), 0)
    BY <1>7, CellsAre
  <2>2. \A c : c \in Cells(frames) <=>
          c \in GlobalCells \/ \E j \in 1 .. Depth : \E n \in Slots(frames[j].proc) : c = Cell(Local(j, n), 0)
    BY <1>2, CellsAre
  <2>3. \A j : j \in 1 .. Depth + 1 <=> j \in 1 .. Depth \/ j = Depth + 1  BY <1>2
  <2> QED  BY <1>6, <1>7, <2>1, <2>2, <2>3
<1>9. \A n : Cell(Local(Depth + 1, n), 0) \notin Cells(frames)
  BY <1>2, CellsAre, GlobalsApart, CellsDiffer
<1>10. \A k \in 0 .. Depth : DataCells(k)' = DataCells(k)
  <2> TAKE k \in 0 .. Depth
  <2>1. k \in Nat /\ \A j \in 1 .. k : frames'[j].proc = frames[j].proc  BY <1>2, <1>7
  <2> QED  BY <2>1, SameCalls
<1>11. DataCells(Depth)' =
          DataCells(Depth) \cup {Cell(Local(Depth + 1, n), 0) : n \in {m \in Slots(p) : Mode(p, m) = "value"}}
  <2>1. PICK k \in Nat : k = Depth  BY <1>2
  <2>2. /\ \A j \in 1 .. k : frames'[j].proc = frames[j].proc
        /\ frames'[k + 1].proc = p
    BY <1>6, <1>7, <2>1
  <2>3. DataCells(k + 1)' =
           DataCells(k) \cup {Cell(Local(k + 1, n), 0) : n \in {m \in Slots(p) : Mode(p, m) = "value"}}
    BY <2>2, NewCallData
  <2>4. Depth' = k + 1  BY <1>7, <2>1
  <2>5. DataCells(Depth)' = DataCells(k + 1)'  BY <2>4
  <2> QED  BY <2>1, <2>3, <2>5
<1> QED  BY <1>1, <1>2, <1>3, <1>6, <1>7, <1>8, <1>9, <1>10, <1>11 DEF F

LEMMA CallInvariant ==
    ASSUME IInv, NEW p \in Proc, NEW args \in Arguments(p), NEW dest \in SUBSET References,
           Call(p, args, dest)
    PROVE  IInv'
<1>1. /\ Depth' = Depth + 1 /\ Depth' <= MaxDepth
      /\ frames' \in Seq([proc : Proc, dest : SUBSET AllCells])
      /\ \A j \in 1 .. Depth : frames'[j] = frames[j]
      /\ frames'[Depth + 1].proc = p /\ frames'[Depth + 1].dest \subseteq DataCells(Depth)
      /\ \A n : Cell(Local(Depth + 1, n), 0) \notin Cells(frames)
      /\ \A k \in 0 .. Depth : DataCells(k)' = DataCells(k)
  BY CallFrames
<1>2. \A c : c \in Cells(frames)' <=>
          c \in Cells(frames) \/ \E n \in Slots(p) : c = Cell(Local(Depth + 1, n), 0)
  BY CallFrames
<1>3. DataCells(Depth)' =
          DataCells(Depth) \cup {Cell(Local(Depth + 1, n), 0) : n \in {m \in Slots(p) : Mode(p, m) = "value"}}
  BY CallFrames
<1>4. PICK v \in [1 .. Len(Formals[p]) -> Value] :
         mem' = [c \in Cells(frames') |->
                    IF c \in DOMAIN mem THEN mem[c]
                    ELSE IF c.object.slot = 0 THEN Undef
                    ELSE IF Mode(p, c.object.slot) = "var" THEN Address(args[c.object.slot])
                    ELSE v[c.object.slot]]
  BY DEF Call
<1>5. Depth \in Nat /\ DOMAIN mem = Cells(frames) /\ status' = status
  BY DepthType DEF IInv, TypeOK, Call
<1>6. \A c \in Cells(frames) : c \in Cells(frames') /\ mem'[c] = mem[c]
  BY <1>2, <1>4, <1>5
<1>7. ASSUME NEW n \in Slots(p)
      PROVE  LET c == Cell(Local(Depth + 1, n), 0)
             IN  /\ n = 0 => mem'[c] = Undef
                 /\ n # 0 /\ Mode(p, n) = "value" => mem'[c] \in Value
                 /\ Mode(p, n) = "var" => mem'[c] \in DataCells(Depth)
  <2> DEFINE c == Cell(Local(Depth + 1, n), 0)
  <2>1. c \in Cells(frames') /\ c \notin DOMAIN mem  BY <1>1, <1>2, <1>5
  <2>2. c.object.slot = n  BY DEF Cell, Local
  <2>3. mem'[c] = IF n = 0 THEN Undef ELSE IF Mode(p, n) = "var" THEN Address(args[n]) ELSE v[n]
    BY <1>4, <2>1, <2>2
  <2>4. n # 0 => n \in 1 .. Len(Formals[p])  BY ModeType DEF Slots
  <2>5. Mode(p, n) = "var" => n # 0  BY ModeType
  <2>6. ASSUME Mode(p, n) = "var" PROVE Address(args[n]) \in DataCells(Depth)
    <3>1. n \in DOMAIN args /\ args[n] \in References  BY <2>4, <2>5, <2>6 DEF Arguments
    <3>2. Safe(args[n])  BY <3>1 DEF Call
    <3> QED  BY <3>1, <3>2, AddressOfReference
  <2> QED  BY <2>3, <2>4, <2>5, <2>6
<1>8. DataCells(Depth) \subseteq Cells(frames) /\ DataCells(Depth) \subseteq AllCells
  BY <1>5, DataCellsExist
<1>9. TypeOK'
  <2>1. ASSUME NEW c \in Cells(frames') PROVE mem'[c] \in Value \cup {Undef} \cup AllCells
    <3>1. CASE c \in Cells(frames)  BY <1>6, <3>1 DEF IInv, TypeOK
    <3>2. CASE \E n \in Slots(p) : c = Cell(Local(Depth + 1, n), 0)
      BY <1>7, <1>8, <3>2, ModeType
    <3> QED  BY <1>2, <2>1, <3>1, <3>2
  <2>2. mem' \in [Cells(frames') -> Value \cup {Undef} \cup AllCells]  BY <1>4, <2>1
  <2>3. ASSUME NEW c \in DataCells(Depth)' PROVE mem'[c] \in Value \cup {Undef}
    <3>1. CASE c \in DataCells(Depth)  BY <1>6, <1>8, <3>1 DEF IInv, TypeOK
    <3>2. CASE \E n \in Slots(p) : Mode(p, n) = "value" /\ c = Cell(Local(Depth + 1, n), 0)
      BY <1>7, <3>2
    <3> QED  BY <1>3, <2>3, <3>1, <3>2
  <2> QED  BY <1>1, <1>5, <2>2, <2>3 DEF IInv, TypeOK
<1>10. ASSUME NEW k \in 1 .. Depth + 1
       PROVE  /\ frames'[k].dest \subseteq DataCells(k - 1)'
              /\ \A n \in Slots(frames'[k].proc) :
                    Mode(frames'[k].proc, n) = "var" => mem'[Cell(Local(k, n), 0)] \in DataCells(k - 1)'
  <2>1. k - 1 \in 0 .. Depth  BY <1>5
  <2>2. DataCells(k - 1)' = DataCells(k - 1)  BY <1>1, <2>1
  <2>3. CASE k = Depth + 1
    <3>1. k - 1 = Depth  BY <1>5, <2>3
    <3> QED  BY <1>1, <1>7, <2>2, <2>3, <3>1
  <2>4. CASE k \in 1 .. Depth
    <3>1. \A n \in Slots(frames[k].proc) : Cell(Local(k, n), 0) \in Cells(frames)
      BY <2>4, DepthType, CellsAre
    <3> QED  BY <1>1, <1>6, <2>2, <2>4, <3>1 DEF IInv, PointersLive
  <2> QED  BY <1>5, <2>3, <2>4
<1>11. PointersLive'  BY <1>1, <1>10 DEF PointersLive
<1> QED  BY <1>9, <1>11 DEF IInv

(* A return drops the last call; what is left is the caller's.             *)
LEMMA ReturnFrames ==
    ASSUME IInv, Return
    PROVE  /\ Depth' = Depth - 1 /\ Depth \in Nat \ {0}
           /\ frames' \in Seq([proc : Proc, dest : SUBSET AllCells])
           /\ \A j \in 1 .. Depth - 1 : frames'[j] = frames[j]
           /\ \A c : c \in Cells(frames)' => c \in Cells(frames)
           /\ \A k \in 0 .. Depth - 1 : DataCells(k)' = DataCells(k)
           /\ DataCells(Depth)' = DataCells(Depth - 1)
           /\ \A j \in 1 .. Depth - 1 : \A n \in Slots(frames[j].proc) :
                  Cell(Local(j, n), 0) \in Cells(frames)'
           /\ DataCells(Depth - 1) \subseteq Cells(frames)'
<1> DEFINE F == [proc : Proc, dest : SUBSET AllCells]
<1>1. frames' = SubSeq(frames, 1, Depth - 1) /\ Depth > 0  BY DEF Return
<1>2. frames \in Seq(F) /\ Depth \in Nat /\ DOMAIN frames = 1 .. Depth  BY DepthType DEF IInv, TypeOK
<1> HIDE DEF F
<1>3. /\ Depth' = Depth - 1 /\ frames' \in Seq(F) /\ DOMAIN frames' = 1 .. Depth - 1
      /\ \A j \in 1 .. Depth - 1 : frames'[j] = frames[j]
  BY <1>1, <1>2 DEF Depth
<1>4. \A c : c \in Cells(frames)' <=>
          c \in GlobalCells \/ \E j \in 1 .. Depth - 1 : \E n \in Slots(frames[j].proc) : c = Cell(Local(j, n), 0)
  <2>1. \A c : c \in Cells(frames)' <=>
            c \in GlobalCells \/ \E j \in 1 .. Depth - 1 : \E n \in Slots(frames'[j].proc) : c = Cell(Local(j, n), 0)
    BY <1>3, CellsAre
  <2> QED  BY <1>3, <2>1
<1>5. \A c : c \in Cells(frames)' => c \in Cells(frames)
  BY <1>2, <1>4, CellsAre
<1>6. \A k \in 0 .. Depth - 1 : DataCells(k)' = DataCells(k)
  <2> TAKE k \in 0 .. Depth - 1
  <2>1. k \in Nat /\ \A j \in 1 .. k : frames'[j].proc = frames[j].proc  BY <1>2, <1>3
  <2> QED  BY <2>1, SameCalls
<1>7. DataCells(Depth)' = DataCells(Depth - 1)
  <2>1. PICK k \in Nat : k = Depth - 1  BY <1>1, <1>2
  <2>2. DataCells(Depth)' = DataCells(k)'  BY <1>3, <2>1
  <2> QED  BY <1>6, <2>1, <2>2
<1>8. DataCells(Depth - 1) \subseteq Cells(frames)'
  BY <1>1, <1>2, <1>4, DataCellsAre, NamedGlobalsExist
<1>9. \A j \in 1 .. Depth - 1 : \A n \in Slots(frames[j].proc) : Cell(Local(j, n), 0) \in Cells(frames)'
  BY <1>4
<1> QED  BY <1>1, <1>2, <1>3, <1>5, <1>6, <1>7, <1>8, <1>9 DEF F

LEMMA ReturnInvariant ==
    ASSUME IInv, Return
    PROVE  IInv'
<1>1. /\ Depth' = Depth - 1 /\ Depth \in Nat \ {0}
      /\ frames' \in Seq([proc : Proc, dest : SUBSET AllCells])
      /\ \A j \in 1 .. Depth - 1 : frames'[j] = frames[j]
      /\ \A c : c \in Cells(frames)' => c \in Cells(frames)
      /\ \A k \in 0 .. Depth - 1 : DataCells(k)' = DataCells(k)
      /\ DataCells(Depth)' = DataCells(Depth - 1)
  BY ReturnFrames
<1>2. /\ \A j \in 1 .. Depth - 1 : \A n \in Slots(frames[j].proc) :
            Cell(Local(j, n), 0) \in Cells(frames)'
      /\ DataCells(Depth - 1) \subseteq Cells(frames)'
  BY ReturnFrames
<1>3. PICK v \in Reads(Own(0)) :
         mem' = [c \in Cells(frames') |-> IF c \in frames[Depth].dest THEN v ELSE mem[c]]
  BY DEF Return
<1>4. Depth <= MaxDepth /\ MaxDepth \in Nat /\ frames[Depth].proc \in Proc /\ status' = status
  BY <1>1, DepthType DEF Return
<1>5. v \in Value
  <2>1. 0 \in Slots(frames[Depth].proc) /\ Mode(frames[Depth].proc, 0) = "value"
    <3>1. Formals[frames[Depth].proc] \in Seq({"var", "value"})  BY <1>4, ProcAssumption
    <3> QED  BY <3>1 DEF Slots, Mode
  <2>2. Own(0) \in DataCells(Depth)  BY <1>1, <2>1, DataCellsAre DEF Own
  <2>3. mem[Own(0)] \in Value \cup {Undef}  BY <2>2 DEF IInv, TypeOK
  <2> QED  BY <1>3, <2>3 DEF Reads
<1>6. frames[Depth].dest \subseteq DataCells(Depth - 1)  BY <1>1 DEF IInv, PointersLive
<1>7. DataCells(Depth - 1) \subseteq DataCells(Depth)  BY <1>1, DataCellsExist
<1>8. TypeOK'
  <2>1. mem' \in [Cells(frames') -> Value \cup {Undef} \cup AllCells]
    BY <1>1, <1>3, <1>5 DEF IInv, TypeOK
  <2>2. \A c \in DataCells(Depth - 1) : mem'[c] \in Value \cup {Undef}
    BY <1>2, <1>3, <1>5, <1>7 DEF IInv, TypeOK
  <2> QED  BY <1>1, <1>4, <2>1, <2>2 DEF IInv, TypeOK
<1>9. ASSUME NEW k \in 1 .. Depth - 1
      PROVE  /\ frames'[k].dest \subseteq DataCells(k - 1)'
             /\ \A n \in Slots(frames'[k].proc) :
                   Mode(frames'[k].proc, n) = "var" => mem'[Cell(Local(k, n), 0)] \in DataCells(k - 1)'
  <2>1. k \in 1 .. Depth /\ k - 1 \in 0 .. Depth - 1 /\ frames'[k] = frames[k]  BY <1>1
  <2>2. DataCells(k - 1)' = DataCells(k - 1)  BY <1>1, <2>1
  <2>3. ASSUME NEW n \in Slots(frames[k].proc), Mode(frames[k].proc, n) = "var"
        PROVE  mem'[Cell(Local(k, n), 0)] = mem[Cell(Local(k, n), 0)]
    <3>1. Cell(Local(k, n), 0) \notin DataCells(Depth - 1)  BY <1>1, <2>1, <2>3, PointersApart
    <3> QED  BY <1>2, <1>3, <1>6, <3>1
  <2> QED  BY <2>1, <2>2, <2>3 DEF IInv, PointersLive
<1>10. PointersLive'  BY <1>1, <1>9 DEF PointersLive
<1> QED  BY <1>8, <1>10 DEF IInv

(* Steps that leave memory and calls alone. *)
LEMMA SameMemory ==
    ASSUME IInv, UNCHANGED <<mem, frames>>, status' \in {"running", "undefined"}
    PROVE  IInv'
<1>1. /\ Depth' = Depth /\ Cells(frames)' = Cells(frames) /\ \A k : DataCells(k)' = DataCells(k)
      /\ mem' = mem /\ frames' = frames
  BY DEF Depth, DataCells
<1> QED  BY <1>1 DEF IInv, TypeOK, PointersLive

LEMMA NextInvariant == IInv /\ [Next]_vars => IInv'
<1> SUFFICES ASSUME IInv, [Next]_vars PROVE IInv'  OBVIOUS
<1>1. CASE \E t \in References, s \in Sources : Assign(t, s)
  BY <1>1, AssignInvariant
<1>2. ASSUME NEW p \in Proc, NEW r \in References, NEW args \in Arguments(p), NEW dest \in {{}, {r}},
             Call(p, args, dest)
      PROVE  IInv'
  <2>1. dest \in SUBSET References  OBVIOUS
  <2> QED  BY <1>2, <2>1, CallInvariant
<1>3. CASE Return  BY <1>3, ReturnInvariant
<1>4. CASE Overrun  BY <1>4, SameMemory DEF Overrun
<1>5. CASE UNCHANGED vars
  BY <1>5, SameMemory DEF vars, IInv, TypeOK
<1> QED  BY <1>1, <1>2, <1>3, <1>4, <1>5 DEF Next

THEOREM Inductive == Spec => []IInv
<1> QED  BY InitInvariant, NextInvariant, PTL DEF Spec

(* Cells of data hold values and nothing else, in any program. *)
THEOREM MemoryTypeCorrect == Spec => []TypeOK
<1>1. IInv => TypeOK  BY DEF IInv
<1> QED  BY <1>1, Inductive, PTL

(* Var parameters lead to live data in one step, through any chain of      *)
(* calls, and results have a place (codegen.cpp 305, 413-416, 491-493).    *)
THEOREM PointersStayLive == Spec => []PointersLive
<1>1. IInv => PointersLive  BY DEF IInv
<1> QED  BY <1>1, Inductive, PTL

(* Only elements of arrays that start behind 0 are outside of memory       *)
(* (codegen.cpp 50, 884).                                                  *)
THEOREM StartsOverrun == Spec => []OverrunNeedsStart
<1>1. IInv => OverrunNeedsStart  BY AddressOfReference DEF OverrunNeedsStart
<1> QED  BY <1>1, Inductive, PTL
--------------------------------------------------------------------------------
(* Cells and pointers implement the variables of PascalStore. *)

(* The two modules build the same locations and references. *)
LEMMA SameNames ==
    /\ \A x : Pascal!Global(x) = Global(x)
    /\ \A x, i : Pascal!Element(x, i) = Element(x, i)
    /\ \A k, n : Pascal!Local(k, n) = Local(k, n)
    /\ \A n : Pascal!Slot(n) = Slot(n)
    /\ \A v : Pascal!Literal(v) = Literal(v)
    /\ \A p : Pascal!Slots(p) = Slots(p)
    /\ \A p, n : Pascal!Mode(p, n) = Mode(p, n)
BY DEF Pascal!Global, Pascal!Element, Pascal!Local, Pascal!Slot, Pascal!Literal, Pascal!Slots, Pascal!Mode,
       Global, Element, Local, Slot, Literal, Slots, Mode

LEMMA Kinds ==
    /\ \A x : Global(x).kind = "global" /\ Global(x).name = x
    /\ \A x, i : Element(x, i).kind = "element" /\ Element(x, i).name = x /\ Element(x, i).index = i
    /\ \A k, n : Local(k, n).kind = "local" /\ Local(k, n).slot = n
    /\ \A n : Slot(n).kind = "slot" /\ Slot(n).slot = n
    /\ \A v : Literal(v).kind = "literal" /\ Literal(v).value = v
    /\ \A o, i : Cell(o, i).object = o /\ Cell(o, i).offset = i
BY DEF Global, Element, Local, Slot, Literal, Cell

LEMMA LocsAre ==
    ASSUME NEW l
    PROVE  l \in Locs <=>
              \/ \E v \in Var : l = Global(v)
              \/ \E a \in Arr : \E i \in Lo[a] .. Hi[a] : l = Element(a, i)
              \/ \E k \in 1 .. Depth : \E n \in Slots(frames[k].proc) :
                    Mode(frames[k].proc, n) = "value" /\ l = Local(k, n)
BY DEF Locs

LEMMA FramesShape ==
    ASSUME IInv
    PROVE  /\ Depth \in Nat /\ Pascal!Depth = Depth /\ DOMAIN framesOf = 1 .. Depth
           /\ \A k \in 1 .. Depth :
                /\ framesOf[k].proc = frames[k].proc
                /\ framesOf[k].dest = {LocOf(c) : c \in frames[k].dest}
                /\ framesOf[k].bind = [n \in Slots(frames[k].proc) |->
                      IF Mode(frames[k].proc, n) = "var" THEN LocOf(mem[Cell(Local(k, n), 0)])
                      ELSE Local(k, n)]
<1>1. Depth \in Nat  BY DepthType
<1>2. Len(framesOf) = Depth  BY <1>1 DEF framesOf
<1> QED  BY <1>1, <1>2 DEF framesOf, Pascal!Depth

(* Every location of the Pascal program is one of Locs. *)
LEMMA PascalLocsAre ==
    ASSUME NEW ps, NEW l
    PROVE  l \in Pascal!Locs(ps) <=>
              \/ \E v \in Var : l = Global(v)
              \/ \E a \in Arr : \E i \in Lo[a] .. Hi[a] : l = Element(a, i)
              \/ \E k \in DOMAIN ps : \E n \in Slots(ps[k]) : Mode(ps[k], n) = "value" /\ l = Local(k, n)
BY SameNames DEF Pascal!Locs, Pascal!GlobalLocs, Pascal!OwnLocs

LEMMA SameLocs ==
    /\ Pascal!Locs(Pascal!ProcsOf(framesOf)) = Locs
    /\ Pascal!Locs(Pascal!ProcsOf(framesOf')) = Locs'
<1>1. /\ DOMAIN framesOf = 1 .. Depth /\ \A k \in 1 .. Depth : framesOf[k].proc = frames[k].proc
      /\ DOMAIN framesOf' = 1 .. Depth' /\ \A k \in 1 .. Depth' : framesOf'[k].proc = frames'[k].proc
  BY DEF framesOf
<1> DEFINE now == Pascal!ProcsOf(framesOf)
           then == Pascal!ProcsOf(framesOf')
<1>2. /\ DOMAIN now = 1 .. Depth /\ \A k \in 1 .. Depth : now[k] = frames[k].proc
      /\ DOMAIN then = 1 .. Depth' /\ \A k \in 1 .. Depth' : then[k] = frames'[k].proc
  BY <1>1 DEF Pascal!ProcsOf
<1> HIDE DEF now, then
<1>3. \A l : l \in Locs' <=>
         \/ \E v \in Var : l = Global(v)
         \/ \E a \in Arr : \E i \in Lo[a] .. Hi[a] : l = Element(a, i)
         \/ \E k \in 1 .. Depth' : \E n \in Slots(frames'[k].proc) :
               Mode(frames'[k].proc, n) = "value" /\ l = Local(k, n)
  BY DEF Locs
<1>4. ASSUME NEW l PROVE l \in Pascal!Locs(now) <=> l \in Locs
  <2>1. l \in Pascal!Locs(now) <=>
           \/ \E v \in Var : l = Global(v)
           \/ \E a \in Arr : \E i \in Lo[a] .. Hi[a] : l = Element(a, i)
           \/ \E k \in DOMAIN now : \E n \in Slots(now[k]) : Mode(now[k], n) = "value" /\ l = Local(k, n)
    BY PascalLocsAre
  <2> QED  BY <1>2, <2>1, LocsAre
<1>5. ASSUME NEW l PROVE l \in Pascal!Locs(then) <=> l \in Locs'
  <2>1. l \in Pascal!Locs(then) <=>
           \/ \E v \in Var : l = Global(v)
           \/ \E a \in Arr : \E i \in Lo[a] .. Hi[a] : l = Element(a, i)
           \/ \E k \in DOMAIN then : \E n \in Slots(then[k]) : Mode(then[k], n) = "value" /\ l = Local(k, n)
    BY PascalLocsAre
  <2> QED  BY <1>2, <2>1, <1>3
<1>6. Pascal!Locs(now) = Locs /\ Pascal!Locs(then) = Locs'  BY <1>4, <1>5
<1> QED  BY <1>6 DEF now, then

LEMMA SameReferences ==
    ASSUME IInv
    PROVE  Pascal!References = References /\ Pascal!Sources = Sources
<1>1. Pascal!GlobalLocs =
         {Global(v) : v \in Var} \cup (UNION {{Element(a, i) : i \in Lo[a] .. Hi[a]} : a \in Arr})
  BY SameNames DEF Pascal!GlobalLocs
<1>2. CASE Depth = 0
  <2>1. Pascal!References = Pascal!GlobalLocs \cup {}  BY <1>2, FramesShape DEF Pascal!References
  <2>2. References = {Global(v) : v \in Var} \cup (UNION {{Element(a, i) : i \in Lo[a] .. Hi[a]} : a \in Arr}) \cup {}
    BY <1>2 DEF References
  <2> QED  BY <1>1, <2>1, <2>2, SameNames DEF Pascal!Sources, Sources
<1>3. CASE Depth # 0
  <2>0. Depth \in 1 .. Depth  BY <1>3, FramesShape
  <2>1. Pascal!References = Pascal!GlobalLocs \cup {Slot(n) : n \in Slots(frames[Depth].proc)}
    <3>1. framesOf[Depth].proc = frames[Depth].proc /\ Pascal!Depth = Depth
      BY <2>0, FramesShape
    <3>2. Pascal!References
             = Pascal!GlobalLocs \cup {Pascal!Slot(n) : n \in Pascal!Slots(framesOf[Depth].proc)}
      BY <1>3, <3>1 DEF Pascal!References
    <3> QED  BY <3>1, <3>2, SameNames
  <2>2. References = {Global(v) : v \in Var} \cup (UNION {{Element(a, i) : i \in Lo[a] .. Hi[a]} : a \in Arr})
                        \cup {Slot(n) : n \in Slots(frames[Depth].proc)}
    BY <1>3 DEF References
  <2> QED  BY <1>1, <2>1, <2>2, SameNames DEF Pascal!Sources, Sources
<1> QED  BY <1>2, <1>3

(* Named cells and locations are one to one. *)
LEMMA CellsAndLocs ==
    ASSUME IInv
    PROVE  /\ \A c \in DataCells(Depth) : LocOf(c) \in Locs /\ CellOf(LocOf(c)) = c
           /\ \A l \in Locs : LocOf(CellOf(l)) = l
           /\ \A l \in Locs : CellOf(l) \in DOMAIN mem => CellOf(l) \in DataCells(Depth)
<1>1. Depth \in Nat /\ DOMAIN mem = Cells(frames)  BY DepthType DEF IInv, TypeOK
<1>2. ASSUME NEW v \in Var
      PROVE  /\ LocOf(Cell(Global(v), 0)) = Global(v) /\ CellOf(Global(v)) = Cell(Global(v), 0)
             /\ Cell(Global(v), 0) \in DataCells(Depth)
  <2>1. v \notin Arr  BY NamesAssumption
  <2> QED  BY <1>1, <2>1, Kinds, DataCellsAre DEF LocOf, CellOf, NamedGlobals
<1>3. ASSUME NEW a \in Arr, NEW i
      PROVE  LocOf(Cell(Global(a), i)) = Element(a, i) /\ CellOf(Element(a, i)) = Cell(Global(a), i)
  BY Kinds DEF LocOf, CellOf
<1>4. ASSUME NEW k, NEW n
      PROVE  LocOf(Cell(Local(k, n), 0)) = Local(k, n) /\ CellOf(Local(k, n)) = Cell(Local(k, n), 0)
  BY Kinds DEF LocOf, CellOf
<1>5. ASSUME NEW c \in DataCells(Depth) PROVE LocOf(c) \in Locs /\ CellOf(LocOf(c)) = c
  <2>1. \/ \E v \in Var : c = Cell(Global(v), 0)
        \/ \E a \in Arr : \E i \in Lo[a] .. Hi[a] : c = Cell(Global(a), i)
        \/ \E j \in 1 .. Depth : \E n \in Slots(frames[j].proc) :
              Mode(frames[j].proc, n) = "value" /\ c = Cell(Local(j, n), 0)
    BY <1>1, DataCellsAre DEF NamedGlobals
  <2> QED  BY <1>2, <1>3, <1>4, <2>1, LocsAre
<1>6. \A l \in Locs : LocOf(CellOf(l)) = l
  BY <1>2, <1>3, <1>4, LocsAre
<1>7. ASSUME NEW a \in Arr, NEW i \in Lo[a] .. Hi[a], Cell(Global(a), i) \in DOMAIN mem
      PROVE  Cell(Global(a), i) \in DataCells(Depth)
  <2>1. \A j, n : Cell(Global(a), i) # Cell(Local(j, n), 0)  BY CellsDiffer
  <2>2. Cell(Global(a), i) \in GlobalCells  BY <1>1, <1>7, <2>1, CellsAre
  <2>3. \A v \in Var : Global(v) # Global(a)  BY NamesAssumption, Kinds
  <2>4. \A x : Global(x) = Global(a) => x = a  BY Kinds
  <2>5. i \in 0 .. Length(a) - 1  BY <2>2, <2>3, <2>4, CellsDiffer DEF GlobalCells
  <2> QED  BY <1>1, <2>5, DataCellsAre DEF NamedGlobals
<1>8. ASSUME NEW l \in Locs, CellOf(l) \in DOMAIN mem PROVE CellOf(l) \in DataCells(Depth)
  BY <1>1, <1>2, <1>3, <1>4, <1>7, <1>8, LocsAre, DataCellsAre
<1> QED  BY <1>5, <1>6, <1>8

LEMMA StoreAt ==
    ASSUME IInv
    PROVE  /\ DOMAIN storeOf = Locs
           /\ \A c \in DataCells(Depth) : storeOf[LocOf(c)] = mem[c]
<1>1. DataCells(Depth) \subseteq DOMAIN mem  BY DepthType, DataCellsExist DEF IInv, TypeOK
<1> QED  BY <1>1, CellsAndLocs DEF storeOf

(* A reference denotes the location of its address. *)
LEMMA Denotes ==
    ASSUME IInv, NEW r \in References, Safe(r)
    PROVE  Pascal!Denoted(r) = LocOf(Address(r)) /\ Address(r) \in DataCells(Depth)
<1>1. Address(r) \in DataCells(Depth)  BY AddressOfReference
<1>2. CASE \E v \in Var : r = Global(v)
  <2>1. PICK v \in Var : r = Global(v)  BY <1>2
  <2>2. Address(r) = Cell(Global(v), 0) /\ v \notin Arr  BY <2>1, Kinds, NamesAssumption DEF Address
  <2>3. LocOf(Address(r)) = r  BY <2>1, <2>2, Kinds DEF LocOf
  <2> QED  BY <1>1, <2>1, <2>3, Kinds DEF Pascal!Denoted
<1>3. CASE \E a \in Arr : \E i \in Lo[a] .. Hi[a] : r = Element(a, i)
  <2>1. PICK a \in Arr : \E i \in Lo[a] .. Hi[a] : r = Element(a, i)  BY <1>3
  <2>2. PICK i \in Lo[a] .. Hi[a] : r = Element(a, i)  BY <2>1
  <2>3. Address(r) = Cell(Global(a), i)  BY <2>2, Kinds DEF Address
  <2>4. LocOf(Address(r)) = r  BY <2>2, <2>3, Kinds DEF LocOf
  <2> QED  BY <1>1, <2>2, <2>4, Kinds DEF Pascal!Denoted
<1>4. CASE Depth # 0 /\ \E n \in Slots(frames[Depth].proc) : r = Slot(n)
  <2>1. PICK n \in Slots(frames[Depth].proc) : r = Slot(n)  BY <1>4
  <2>2. Depth \in 1 .. Depth /\ Pascal!Depth = Depth  BY <1>4, FramesShape
  <2>3. Pascal!Denoted(r) = framesOf[Depth].bind[n]  BY <2>1, <2>2, Kinds DEF Pascal!Denoted
  <2>4. framesOf[Depth].bind[n] =
           IF Mode(frames[Depth].proc, n) = "var" THEN LocOf(mem[Cell(Local(Depth, n), 0)]) ELSE Local(Depth, n)
    BY <2>2, FramesShape
  <2>5. Address(r) = IF Mode(frames[Depth].proc, n) = "var" THEN mem[Cell(Local(Depth, n), 0)]
                     ELSE Cell(Local(Depth, n), 0)
    BY <2>1, Kinds DEF Address, Own
  <2>6. LocOf(Cell(Local(Depth, n), 0)) = Local(Depth, n)  BY Kinds DEF LocOf
  <2> QED  BY <1>1, <2>3, <2>4, <2>5, <2>6
<1> QED  BY <1>2, <1>3, <1>4, ReferencesAre

LEMMA SameReads ==
    ASSUME IInv, NEW c \in DataCells(Depth)
    PROVE  Pascal!Reads(LocOf(c)) = Reads(c)
BY StoreAt DEF Pascal!Reads, Reads

LEMMA SameValues ==
    ASSUME IInv, NEW s \in Sources, Safe(s)
    PROVE  Pascal!ValuesOf(s) = ValuesOf(s)
<1>1. CASE s \in References
  BY <1>1, Denotes, SameReads DEF Pascal!ValuesOf, ValuesOf
<1>2. CASE s \in {Literal(v) : v \in Value}
  BY <1>2, Kinds DEF Pascal!ValuesOf, ValuesOf
<1> QED  BY <1>1, <1>2 DEF Sources

LEMMA InitRefines == Init => Pascal!Init
<1> SUFFICES ASSUME Init PROVE Pascal!Init  OBVIOUS
<1>1. IInv  BY InitInvariant
<1>2. frames = << >> /\ Depth = 0 /\ mem = [c \in Cells(<< >>) |-> Zero]  BY DEF Init, Depth
<1>3. framesOf = << >>  BY <1>2 DEF framesOf
<1>4. Pascal!ProcsOf(framesOf) = << >>  BY <1>3 DEF Pascal!ProcsOf
<1>5. Pascal!Locs(<< >>) = Locs  BY <1>1, <1>4, SameLocs
<1>6. storeOf = [l \in Locs |-> Zero]  BY <1>2 DEF storeOf
<1> QED  BY <1>3, <1>5, <1>6 DEF Pascal!Init

LEMMA AssignRefines ==
    ASSUME IInv, NEW t \in References, NEW s \in Sources, Assign(t, s)
    PROVE  Pascal!Assign(t, s)
<1>1. PICK v \in ValuesOf(s) : mem' = [mem EXCEPT ![Address(t)] = v]  BY DEF Assign
<1>2. frames' = frames /\ Safe(t) /\ Safe(s)  BY DEF Assign
<1>3. v \in Pascal!ValuesOf(s)  BY <1>1, <1>2, SameValues
<1>4. Pascal!Denoted(t) = LocOf(Address(t)) /\ Address(t) \in DataCells(Depth)  BY <1>2, Denotes
<1>5. DOMAIN mem = Cells(frames) /\ Depth \in Nat  BY DepthType DEF IInv, TypeOK
<1>6. Address(t) \in DOMAIN mem  BY <1>4, <1>5, DataCellsExist
<1>7. DOMAIN mem' = DOMAIN mem /\ Locs' = Locs /\ Depth' = Depth  BY <1>1, <1>2 DEF Locs, Depth
<1>8. framesOf' = framesOf
  <2>1. \A k \in 1 .. Depth : \A n \in Slots(frames[k].proc) :
           Mode(frames[k].proc, n) = "var" => mem'[Cell(Local(k, n), 0)] = mem[Cell(Local(k, n), 0)]
    <3> SUFFICES ASSUME NEW k \in 1 .. Depth, NEW n \in Slots(frames[k].proc),
                        Mode(frames[k].proc, n) = "var"
                 PROVE  mem'[Cell(Local(k, n), 0)] = mem[Cell(Local(k, n), 0)]
      OBVIOUS
    <3>1. Cell(Local(k, n), 0) \notin DataCells(Depth)  BY <1>5, PointersApart
    <3>2. Cell(Local(k, n), 0) \in DOMAIN mem  BY <1>5, DepthType, CellsAre
    <3> QED  BY <1>1, <1>4, <3>1, <3>2
  <2> DEFINE B(m, k) == [n \in Slots(frames[k].proc) |->
                            IF Mode(frames[k].proc, n) = "var" THEN LocOf(m[Cell(Local(k, n), 0)])
                            ELSE Local(k, n)]
             R(m) == [k \in 1 .. Depth |->
                         [proc |-> frames[k].proc, bind |-> B(m, k), dest |-> {LocOf(c) : c \in frames[k].dest}]]
  <2>2. \A k \in 1 .. Depth : B(mem', k) = B(mem, k)  BY <2>1
  <2>3. framesOf = R(mem) /\ framesOf' = R(mem')  BY <1>2, <1>7 DEF framesOf
  <2> HIDE DEF B
  <2>4. R(mem') = R(mem)  BY <2>2
  <2> QED  BY <2>3, <2>4
<1>9. storeOf' = [storeOf EXCEPT ![LocOf(Address(t))] = v]
  <2>1. \A l \in Locs : CellOf(l) = Address(t) <=> l = LocOf(Address(t))
    BY <1>4, CellsAndLocs
  <2>2. storeOf' = [l \in Locs |-> IF CellOf(l) \in DOMAIN mem THEN mem'[CellOf(l)] ELSE Zero]
    BY <1>7 DEF storeOf
  <2>3. \A l \in Locs : CellOf(l) \in DOMAIN mem =>
           mem'[CellOf(l)] = IF l = LocOf(Address(t)) THEN v ELSE mem[CellOf(l)]
    BY <1>1, <2>1
  <2>4. CellOf(LocOf(Address(t))) \in DOMAIN mem  BY <1>4, <1>6, CellsAndLocs
  <2> QED  BY <2>2, <2>3, <2>4 DEF storeOf
<1> QED  BY <1>3, <1>4, <1>8, <1>9 DEF Pascal!Assign

(* The k-th call of the Pascal program, with memory m. *)
FrameAt(m, f, k) ==
    [proc |-> f.proc,
     bind |-> [n \in Slots(f.proc) |->
                  IF Mode(f.proc, n) = "var" THEN LocOf(m[Cell(Local(k, n), 0)]) ELSE Local(k, n)],
     dest |-> {LocOf(c) : c \in f.dest}]

LEMMA FramesOfAre ==
    /\ framesOf = [k \in 1 .. Depth |-> FrameAt(mem, frames[k], k)]
    /\ framesOf' = [k \in 1 .. Depth' |-> FrameAt(mem', frames'[k], k)]
BY DEF framesOf, FrameAt

LEMMA SameFrame ==
    ASSUME NEW m1, NEW m2, NEW f, NEW k,
           \A n \in Slots(f.proc) :
              Mode(f.proc, n) = "var" => m1[Cell(Local(k, n), 0)] = m2[Cell(Local(k, n), 0)]
    PROVE  FrameAt(m1, f, k) = FrameAt(m2, f, k)
<1> DEFINE B(m) == [n \in Slots(f.proc) |->
                       IF Mode(f.proc, n) = "var" THEN LocOf(m[Cell(Local(k, n), 0)]) ELSE Local(k, n)]
<1>1. B(m1) = B(m2)  OBVIOUS
<1>2. \A m : FrameAt(m, f, k) = [proc |-> f.proc, bind |-> B(m), dest |-> {LocOf(c) : c \in f.dest}]
  BY DEF FrameAt
<1> HIDE DEF B
<1> QED  BY <1>1, <1>2

LEMMA CallRefines ==
    ASSUME IInv, NEW p \in Proc, NEW args \in Arguments(p), NEW dest \in SUBSET References,
           Call(p, args, dest)
    PROVE  Pascal!Call(p, args, dest)
<1>1. /\ Depth' = Depth + 1 /\ frames'[Depth + 1].proc = p
      /\ \A j \in 1 .. Depth : frames'[j] = frames[j]
      /\ \A n : Cell(Local(Depth + 1, n), 0) \notin Cells(frames)
  BY CallFrames
<1>2. \A c : c \in Cells(frames)' <=>
          c \in Cells(frames) \/ \E n \in Slots(p) : c = Cell(Local(Depth + 1, n), 0)
  BY CallFrames
<1>3. /\ Depth < MaxDepth /\ (\A n \in DOMAIN args : Safe(args[n])) /\ \A r \in dest : Safe(r)
      /\ frames' = Append(frames, [proc |-> p, dest |-> {Address(r) : r \in dest}])
  BY DEF Call
<1>4. /\ Depth \in Nat /\ Pascal!Depth = Depth /\ DOMAIN mem = Cells(frames)
      /\ \A k \in 1 .. Depth : frames[k].proc \in Proc
  BY DepthType, FramesShape DEF IInv, TypeOK
<1>5. DOMAIN args = 1 .. Len(Formals[p]) /\ \A n \in DOMAIN args :
         args[n] \in Sources /\ (Mode(p, n) = "var" => args[n] \in References)
  BY DEF Arguments
<1>6. PICK v \in [1 .. Len(Formals[p]) -> Value] :
        /\ \A n \in DOMAIN v : Mode(p, n) = "value" => v[n] \in ValuesOf(args[n])
        /\ mem' = [c \in Cells(frames') |->
                      IF c \in DOMAIN mem THEN mem[c]
                      ELSE IF c.object.slot = 0 THEN Undef
                      ELSE IF Mode(p, c.object.slot) = "var" THEN Address(args[c.object.slot])
                      ELSE v[c.object.slot]]
  BY DEF Call
<1>7. \A c \in Cells(frames) : c \in DOMAIN mem' /\ mem'[c] = mem[c]  BY <1>2, <1>4, <1>6
<1>8. ASSUME NEW n \in Slots(p)
      PROVE  /\ Cell(Local(Depth + 1, n), 0) \in DOMAIN mem'
             /\ mem'[Cell(Local(Depth + 1, n), 0)] =
                   IF n = 0 THEN Undef ELSE IF Mode(p, n) = "var" THEN Address(args[n]) ELSE v[n]
  BY <1>1, <1>2, <1>4, <1>6, Kinds
<1>9. \A n \in Slots(p) : n # 0 => n \in 1 .. Len(Formals[p])  BY ModeType DEF Slots
<1>10. framesOf' = Append(framesOf,
                          [proc |-> p,
                           bind |-> [n \in Slots(p) |->
                                        IF Mode(p, n) = "var" THEN Pascal!Denoted(args[n]) ELSE Local(Depth + 1, n)],
                           dest |-> {Pascal!Denoted(r) : r \in dest}])
  <2> DEFINE new == [proc |-> p, dest |-> {Address(r) : r \in dest}]
             bind == [n \in Slots(p) |->
                         IF Mode(p, n) = "var" THEN Pascal!Denoted(args[n]) ELSE Local(Depth + 1, n)]
             newOf == [proc |-> p, bind |-> bind, dest |-> {Pascal!Denoted(r) : r \in dest}]
  <2>1. frames'[Depth + 1] = new  BY <1>3, <1>4, DepthType DEF Depth, IInv, TypeOK
  <2>2. \A k \in 1 .. Depth : FrameAt(mem', frames'[k], k) = FrameAt(mem, frames[k], k)
    <3> TAKE k \in 1 .. Depth
    <3>1. \A n \in Slots(frames[k].proc) : Cell(Local(k, n), 0) \in Cells(frames)  BY DepthType, CellsAre
    <3>2. \A n \in Slots(frames[k].proc) : mem'[Cell(Local(k, n), 0)] = mem[Cell(Local(k, n), 0)]
      BY <1>7, <3>1
    <3> QED  BY <1>1, <3>2, SameFrame
  <2>3. [n \in Slots(p) |->
            IF Mode(p, n) = "var" THEN LocOf(mem'[Cell(Local(Depth + 1, n), 0)]) ELSE Local(Depth + 1, n)]
        = bind
    <3>1. ASSUME NEW n \in Slots(p), Mode(p, n) = "var"
          PROVE  LocOf(mem'[Cell(Local(Depth + 1, n), 0)]) = Pascal!Denoted(args[n])
      <4>1. n # 0  BY <3>1, ModeType
      <4>2. args[n] \in References /\ Safe(args[n])  BY <1>3, <1>5, <1>9, <3>1, <4>1
      <4> QED  BY <1>8, <3>1, <4>1, <4>2, Denotes
    <3> QED  BY <3>1
  <2>4. {LocOf(c) : c \in {Address(r) : r \in dest}} = {Pascal!Denoted(r) : r \in dest}
    BY <1>3, Denotes
  <2>5. FrameAt(mem', new, Depth + 1) = newOf  BY <2>3, <2>4 DEF FrameAt
  <2> HIDE DEF new, newOf
  <2>6. framesOf' = [k \in 1 .. Depth + 1 |-> IF k = Depth + 1 THEN newOf ELSE FrameAt(mem, frames[k], k)]
    BY <1>1, <1>4, <2>1, <2>2, <2>5, FramesOfAre
  <2>7. framesOf = [k \in 1 .. Depth |-> FrameAt(mem, frames[k], k)]  BY FramesOfAre
  <2>8. Append(framesOf, newOf) = [k \in 1 .. Depth + 1 |-> IF k = Depth + 1 THEN newOf ELSE FrameAt(mem, frames[k], k)]
    BY <1>4, <2>7
  <2> QED  BY <2>6, <2>8 DEF newOf
<1>11. storeOf' = [l \in Locs' |->
                      IF l \in DOMAIN storeOf THEN storeOf[l] ELSE IF l.slot = 0 THEN Undef ELSE v[l.slot]]
  <2>1. \A l : l \in Locs' <=>
           l \in Locs \/ \E n \in Slots(p) : Mode(p, n) = "value" /\ l = Local(Depth + 1, n)
    <3>1. \A l : l \in Locs' <=>
            \/ \E x \in Var : l = Global(x)
            \/ \E a \in Arr : \E i \in Lo[a] .. Hi[a] : l = Element(a, i)
            \/ \E k \in 1 .. Depth + 1 : \E n \in Slots(frames'[k].proc) :
                  Mode(frames'[k].proc, n) = "value" /\ l = Local(k, n)
      BY <1>1 DEF Locs
    <3>2. \A k : k \in 1 .. Depth + 1 <=> k \in 1 .. Depth \/ k = Depth + 1  BY <1>4
    <3> QED  BY <1>1, <3>1, <3>2, LocsAre
  <2>2. storeOf' = [l \in Locs' |-> IF CellOf(l) \in DOMAIN mem' THEN mem'[CellOf(l)] ELSE Zero]
    BY DEF storeOf
  <2>3. ASSUME NEW l \in Locs
        PROVE  (IF CellOf(l) \in DOMAIN mem' THEN mem'[CellOf(l)] ELSE Zero) = storeOf[l]
    <3>1. \A n : CellOf(l) # Cell(Local(Depth + 1, n), 0)
      <4>1. \A n : LocOf(Cell(Local(Depth + 1, n), 0)) = Local(Depth + 1, n)  BY Kinds DEF LocOf
      <4>2. \A n : l # Local(Depth + 1, n)  BY <1>4, LocsAre, Kinds, CellsDiffer
      <4> QED  BY <4>1, <4>2, CellsAndLocs
    <3>2. CellOf(l) \in DOMAIN mem' <=> CellOf(l) \in DOMAIN mem  BY <1>2, <1>4, <1>6, <3>1
    <3> QED  BY <1>4, <1>7, <3>2 DEF storeOf
  <2>4. ASSUME NEW n \in Slots(p), Mode(p, n) = "value"
        PROVE  LET l == Local(Depth + 1, n)
               IN  /\ l \notin Locs
                   /\ (IF CellOf(l) \in DOMAIN mem' THEN mem'[CellOf(l)] ELSE Zero)
                        = IF l.slot = 0 THEN Undef ELSE v[l.slot]
    <3>1. Local(Depth + 1, n) \notin Locs  BY <1>4, LocsAre, Kinds, CellsDiffer
    <3>2. CellOf(Local(Depth + 1, n)) = Cell(Local(Depth + 1, n), 0)  BY Kinds DEF CellOf
    <3> QED  BY <1>8, <2>4, <3>1, <3>2, Kinds
  <2>5. DOMAIN storeOf = Locs  BY StoreAt
  <2> QED  BY <2>1, <2>2, <2>3, <2>4, <2>5
<1>12. \A n \in DOMAIN v : Mode(p, n) = "value" => v[n] \in Pascal!ValuesOf(args[n])
  BY <1>3, <1>5, <1>6, SameValues
<1>13. Pascal!Locs(Pascal!ProcsOf(framesOf'))  = Locs'
  BY SameLocs
<1> QED  BY <1>3, <1>4, <1>6, <1>10, <1>11, <1>12, <1>13, SameNames DEF Pascal!Call

LEMMA ReturnRefines ==
    ASSUME IInv, Return
    PROVE  Pascal!Return
<1>1. /\ Depth' = Depth - 1 /\ Depth \in Nat \ {0}
      /\ \A j \in 1 .. Depth - 1 : frames'[j] = frames[j]
      /\ \A c : c \in Cells(frames)' => c \in Cells(frames)
  BY ReturnFrames
<1>2. /\ \A j \in 1 .. Depth - 1 : \A n \in Slots(frames[j].proc) : Cell(Local(j, n), 0) \in Cells(frames)'
      /\ DataCells(Depth - 1) \subseteq Cells(frames)'
  BY ReturnFrames
<1>3. PICK v \in Reads(Own(0)) :
         mem' = [c \in Cells(frames') |-> IF c \in frames[Depth].dest THEN v ELSE mem[c]]
  BY DEF Return
<1>4. frames[Depth].proc \in Proc /\ Pascal!Depth = Depth /\ DOMAIN mem = Cells(frames)
  BY <1>1, DepthType, FramesShape DEF IInv, TypeOK
<1>5. frames[Depth].dest \subseteq DataCells(Depth - 1) /\ DataCells(Depth - 1) \subseteq DataCells(Depth)
  BY <1>1, DataCellsExist DEF IInv, PointersLive
<1>6. v \in Pascal!Reads(Pascal!Local(Depth, 0))
  <2>1. 0 \in Slots(frames[Depth].proc) /\ Mode(frames[Depth].proc, 0) = "value"
    <3>1. Formals[frames[Depth].proc] \in Seq({"var", "value"})  BY <1>4, ProcAssumption
    <3> QED  BY <3>1 DEF Slots, Mode
  <2>2. Own(0) \in DataCells(Depth)  BY <1>1, <2>1, DataCellsAre DEF Own
  <2>3. LocOf(Own(0)) = Local(Depth, 0)  BY Kinds DEF LocOf, Own
  <2> QED  BY <1>3, <2>2, <2>3, SameReads, SameNames
<1>7. framesOf' = SubSeq(framesOf, 1, Depth - 1)
  <2>1. \A k \in 1 .. Depth - 1 : FrameAt(mem', frames'[k], k) = FrameAt(mem, frames[k], k)
    <3> TAKE k \in 1 .. Depth - 1
    <3>1. k \in 1 .. Depth /\ Depth - 1 \in Nat  BY <1>1
    <3>2. ASSUME NEW n \in Slots(frames[k].proc), Mode(frames[k].proc, n) = "var"
          PROVE  mem'[Cell(Local(k, n), 0)] = mem[Cell(Local(k, n), 0)]
      <4>1. Cell(Local(k, n), 0) \notin frames[Depth].dest  BY <1>5, <3>1, <3>2, PointersApart
      <4> QED  BY <1>2, <1>3, <4>1
    <3> QED  BY <1>1, <3>2, SameFrame
  <2>2. framesOf' = [k \in 1 .. Depth - 1 |-> FrameAt(mem, frames[k], k)]  BY <1>1, <2>1, FramesOfAre
  <2>3. framesOf = [k \in 1 .. Depth |-> FrameAt(mem, frames[k], k)]  BY FramesOfAre
  <2>4. SubSeq(framesOf, 1, Depth - 1) = [k \in 1 .. Depth - 1 |-> FrameAt(mem, frames[k], k)]
    BY <1>1, <2>3
  <2> QED  BY <2>2, <2>4
<1>8. storeOf' = [l \in Locs' |-> IF l \in framesOf[Depth].dest THEN v ELSE storeOf[l]]
  <2>1. framesOf[Depth].dest = {LocOf(c) : c \in frames[Depth].dest}
    <3>1. Depth \in 1 .. Depth  BY <1>1
    <3> QED  BY <3>1, FramesShape
  <2>2. storeOf' = [l \in Locs' |-> IF CellOf(l) \in DOMAIN mem' THEN mem'[CellOf(l)] ELSE Zero]
    BY DEF storeOf
  <2>3. ASSUME NEW l \in Locs'
        PROVE  l \in Locs /\ (CellOf(l) \in DOMAIN mem' <=> CellOf(l) \in DOMAIN mem)
    <3>1. \/ \E x \in Var : l = Global(x)
          \/ \E a \in Arr : \E i \in Lo[a] .. Hi[a] : l = Element(a, i)
          \/ \E k \in 1 .. Depth - 1 : \E n \in Slots(frames[k].proc) :
                Mode(frames[k].proc, n) = "value" /\ l = Local(k, n)
      BY <1>1, <2>3 DEF Locs
    <3>2. l \in Locs  BY <1>1, <3>1, LocsAre
    <3>3. DOMAIN mem' = Cells(frames)'  BY <1>3
    <3>4. CASE \E k \in 1 .. Depth - 1 : \E n \in Slots(frames[k].proc) : l = Local(k, n)
      <4>1. \A k, n : CellOf(Local(k, n)) = Cell(Local(k, n), 0)  BY Kinds DEF CellOf
      <4> QED  BY <1>1, <1>2, <1>4, <3>2, <3>3, <3>4, <4>1
    <3>5. CASE \E x : CellOf(l).object = Global(x)
      <4>1. \A j, n : CellOf(l) # Cell(Local(j, n), 0)  BY <3>5, Kinds, CellsDiffer
      <4>2. CellOf(l) \in Cells(frames) <=> CellOf(l) \in GlobalCells  BY <4>1, CellsAre
      <4>3. CellOf(l) \in Cells(frames)' <=> CellOf(l) \in GlobalCells  BY <4>1, CellsAre
      <4> QED  BY <1>4, <3>2, <3>3, <4>2, <4>3
    <3> QED  BY <3>1, <3>4, <3>5, Kinds DEF CellOf
  <2>4. ASSUME NEW l \in Locs'
        PROVE  (IF CellOf(l) \in DOMAIN mem' THEN mem'[CellOf(l)] ELSE Zero)
                 = IF l \in framesOf[Depth].dest THEN v ELSE storeOf[l]
    <3>1. l \in framesOf[Depth].dest <=> CellOf(l) \in frames[Depth].dest
      BY <1>5, <2>1, <2>3, CellsAndLocs
    <3>2. CellOf(l) \in frames[Depth].dest => CellOf(l) \in DOMAIN mem'  BY <1>2, <1>3, <1>5
    <3>3. CellOf(l) \in DOMAIN mem' => mem'[CellOf(l)] = IF CellOf(l) \in frames[Depth].dest THEN v ELSE mem[CellOf(l)]
      BY <1>3
    <3> QED  BY <2>3, <3>1, <3>2, <3>3 DEF storeOf
  <2> QED  BY <2>2, <2>4
<1>9. Pascal!Locs(Pascal!ProcsOf(framesOf')) = Locs'  BY SameLocs
<1> QED  BY <1>1, <1>4, <1>6, <1>7, <1>8, <1>9 DEF Pascal!Return

LEMMA NextRefines == IInv /\ [Next]_vars => [Pascal!Next]_(Pascal!vars)
<1> SUFFICES ASSUME IInv, [Next]_vars PROVE [Pascal!Next]_(Pascal!vars)  OBVIOUS
<1>1. CASE \E t \in References, s \in Sources : Assign(t, s)
  BY <1>1, AssignRefines, SameReferences DEF Pascal!Next
<1>2. ASSUME NEW p \in Proc, NEW r \in References, NEW args \in Arguments(p), NEW dest \in {{}, {r}},
             Call(p, args, dest)
      PROVE  Pascal!Next
  <2>1. Pascal!Call(p, args, dest)  BY <1>2, CallRefines
  <2>2. args \in Pascal!Arguments(p)  BY SameReferences, SameNames DEF Arguments, Pascal!Arguments
  <2> QED  BY <2>1, <2>2, SameReferences DEF Pascal!Next
<1>3. CASE Return  BY <1>3, ReturnRefines DEF Pascal!Next
<1>4. CASE UNCHANGED <<mem, frames>>
  BY <1>4 DEF Pascal!vars, storeOf, framesOf, Locs, Depth
<1> QED  BY <1>1, <1>2, <1>3, <1>4 DEF Next, Overrun, vars

(* The compiled program does with cells and pointers what the Pascal       *)
(* program does with its variables, for any functions and any depth of     *)
(* calls, until it leaves its memory.                                      *)
THEOREM MemoryImplementsPascal == Spec => Refines
<1> QED  BY InitRefines, NextRefines, Inductive, PTL DEF Spec, Refines, Pascal!Spec
================================================================================
