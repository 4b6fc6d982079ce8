--------------------------------- MODULE Memory ---------------------------------
(***************************************************************************)
(* The memory of a compiled program: the globals and stack slots that      *)
(* src/codegen.cpp makes for variables, parameters and results, and the    *)
(* loads, stores and element addresses it generates for their uses.        *)
(*                                                                         *)
(* A var parameter is a pointer, which is stored in a slot of its own; a   *)
(* use loads from the slot until it has no pointer.  An array has room for *)
(* as many elements as its subrange, and the index is the offset as it is, *)
(* without the start of the subrange.                                      *)
(*                                                                         *)
(* All data are integers (a var parameter is an i32* whatever its type,    *)
(* see module Typing); arrays are not passed.  An address outside of its   *)
(* object is undefined behaviour: the model ends there.                    *)
(***************************************************************************)
EXTENDS Integers, Sequences

CONSTANTS
    Var, Arr, Lo, Hi, Proc, Formals,    \* as in PascalStore
    Value, Zero, Undef, MaxDepth

ASSUME NamesAssumption == Var \cap Arr = {}
ASSUME ArrAssumption   == Lo \in [Arr -> Nat] /\ Hi \in [Arr -> Nat]
ASSUME ProcAssumption  == Formals \in [Proc -> Seq({"var", "value"})]
ASSUME ValueAssumption == Zero \in Value /\ Undef \notin Value
ASSUME DepthAssumption == MaxDepth \in Nat

VARIABLES
    mem,        \* the content of each cell: a value or a cell
    frames,     \* the calls in progress
    status      \* running or undefined

vars == <<mem, frames, status>>
--------------------------------------------------------------------------------
(* Objects are the globals and, for each call, the slots of its result (0) *)
(* and parameters; cells are at offsets in objects.                        *)
Global(x)     == [kind |-> "global", name |-> x]
Local(k, n)   == [kind |-> "local", depth |-> k, slot |-> n]
Cell(o, i)    == [object |-> o, offset |-> i]

(* References in the program text, and constants. *)
Element(a, i) == [kind |-> "element", name |-> a, index |-> i]
Slot(n)       == [kind |-> "slot", slot |-> n]
Literal(v)    == [kind |-> "literal", value |-> v]

Slots(p)   == 0 .. Len(Formals[p])
Mode(p, n) == IF n = 0 THEN "value" ELSE Formals[p][n]

(* Mutant: the last element has no room. *)
LengthShort(a) == Hi[a] - Lo[a]

Length(a) == Hi[a] - Lo[a] + 1

GlobalCells ==
    {Cell(Global(v), 0) : v \in Var}
    \cup UNION {{Cell(Global(a), i) : i \in 0 .. Length(a) - 1} : a \in Arr}
FrameCells(k, p) == {Cell(Local(k, n), 0) : n \in Slots(p)}
Cells(fs)        == GlobalCells \cup UNION {FrameCells(k, fs[k].proc) : k \in DOMAIN fs}

Depth == Len(frames)

References ==
    {Global(v) : v \in Var}
    \cup (UNION {{Element(a, i) : i \in Lo[a] .. Hi[a]} : a \in Arr})
    \cup IF Depth = 0 THEN {} ELSE {Slot(n) : n \in Slots(frames[Depth].proc)}
Sources == References \cup {Literal(v) : v \in Value}

(* The slot of a parameter or result, of the call in progress. *)
Own(n) == Cell(Local(Depth, n), 0)

(* Mutant: a pointer is not followed. *)
AddressOfSlot(r) ==
    CASE r.kind = "global"  -> Cell(Global(r.name), 0)
      [] r.kind = "element" -> Cell(Global(r.name), r.index)
      [] r.kind = "slot"    -> Own(r.slot)

Address(r) ==
    CASE r.kind = "global"  -> Cell(Global(r.name), 0)
      [] r.kind = "element" -> Cell(Global(r.name), r.index)
      [] r.kind = "slot"    ->
             IF Mode(frames[Depth].proc, r.slot) = "var" THEN mem[Own(r.slot)] ELSE Own(r.slot)

Safe(s) == s.kind # "literal" => Address(s) \in DOMAIN mem

(* A slot that was not stored to has an undefined value. *)
Reads(c)    == IF mem[c] = Undef THEN Value ELSE {mem[c]}
ValuesOf(s) == IF s.kind = "literal" THEN {s.value} ELSE Reads(Address(s))
--------------------------------------------------------------------------------
Init ==
    /\ mem = [c \in Cells(<< >>) |-> Zero]
    /\ frames = << >>
    /\ status = "running"

Assign(t, s) ==
    /\ status = "running" /\ Safe(t) /\ Safe(s)
    /\ \E v \in ValuesOf(s) : mem' = [mem EXCEPT ![Address(t)] = v]
    /\ UNCHANGED <<frames, status>>

(* The arguments for var parameters are references (the code ends the      *)
(* compiler for others).                                                   *)
Arguments(p) ==
    {args \in [1 .. Len(Formals[p]) -> Sources] :
        \A n \in DOMAIN args : Mode(p, n) = "var" => args[n] \in References}

(* The slots of a new call, of which that of the result is not stored to.  *)
(* The address for the result is known before the call.                    *)
Call(p, args, dest) ==
    /\ status = "running" /\ Depth < MaxDepth
    /\ \A n \in DOMAIN args : Safe(args[n])
    /\ \A r \in dest : Safe(r)
    /\ frames' = Append(frames, [proc |-> p, dest |-> {Address(r) : r \in dest}])
    /\ \E v \in [1 .. Len(Formals[p]) -> Value] :
        /\ \A n \in DOMAIN v : Mode(p, n) = "value" => v[n] \in ValuesOf(args[n])
        /\ mem' = [c \in Cells(frames') |->
                      IF c \in DOMAIN mem THEN mem[c]
                      ELSE IF c.object.slot = 0 THEN Undef
                      ELSE IF Mode(p, c.object.slot) = "var" THEN Address(args[c.object.slot])
                      ELSE v[c.object.slot]]
    /\ UNCHANGED status

(* Mutant: the result is stored in the caller's slot. *)
ReturnToSlot ==
    /\ status = "running" /\ Depth > 0
    /\ frames' = SubSeq(frames, 1, Depth - 1)
    /\ \E v \in Reads(Own(0)) :
        mem' = [c \in Cells(frames') |->
                   IF frames[Depth].dest # {} /\ c = Cell(Local(Depth - 1, 0), 0) THEN v ELSE mem[c]]
    /\ UNCHANGED status

Return ==
    /\ status = "running" /\ Depth > 0
    /\ frames' = SubSeq(frames, 1, Depth - 1)
    /\ \E v \in Reads(Own(0)) :
        mem' = [c \in Cells(frames') |-> IF c \in frames[Depth].dest THEN v ELSE mem[c]]
    /\ UNCHANGED status

Overrun ==
    /\ status = "running"
    /\ \E r \in References : ~Safe(r)
    /\ status' = "undefined"
    /\ UNCHANGED <<mem, frames>>

Next ==
    \/ \E t \in References, s \in Sources : Assign(t, s)
    \/ \E p \in Proc, r \in References :
          \E args \in Arguments(p), dest \in {{}, {r}} : Call(p, args, dest)
    \/ Return
    \/ Overrun

Spec == Init /\ [][Next]_vars
--------------------------------------------------------------------------------
(* Properties *)

(* Cells that hold values and that the program can name, of the calls up   *)
(* to the k-th: not the slots of var parameters, nor elements below the    *)
(* start of a subrange.                                                    *)
NamedGlobals ==
    {Cell(Global(v), 0) : v \in Var}
    \cup UNION {{Cell(Global(a), i) : i \in (Lo[a] .. Hi[a]) \cap (0 .. Length(a) - 1)} : a \in Arr}
DataCells(k) ==
    NamedGlobals
    \cup UNION {{Cell(Local(j, n), 0) : n \in {m \in Slots(frames[j].proc) : Mode(frames[j].proc, m) = "value"}} :
                   j \in 1 .. k}

AllCells == GlobalCells \cup UNION {FrameCells(k, p) : k \in 1 .. MaxDepth, p \in Proc}

TypeOK ==
    /\ frames \in Seq([proc : Proc, dest : SUBSET AllCells])
    /\ Depth <= MaxDepth
    /\ mem \in [Cells(frames) -> Value \cup {Undef} \cup AllCells]
    /\ \A c \in DataCells(Depth) : mem[c] \in Value \cup {Undef}
    /\ status \in {"running", "undefined"}

(* A pointer leads to a variable of a caller, or a global, that is still   *)
(* there, and never to another pointer, through any chain of calls with    *)
(* var parameters: the loads of a use end after one step, and the result   *)
(* of a call has a place to go (codegen.cpp 305, 413-416, 491-493).        *)
PointersLive ==
    \A k \in 1 .. Depth :
        /\ frames[k].dest \subseteq DataCells(k - 1)
        /\ \A n \in Slots(frames[k].proc) :
              Mode(frames[k].proc, n) = "var" => mem[Cell(Local(k, n), 0)] \in DataCells(k - 1)

(* Whatever was passed by reference before, a program that keeps to its     *)
(* subranges finds all its variables in their objects, but for elements of *)
(* arrays that start behind 0 (codegen.cpp 50, 884).                       *)
OverrunNeedsStart ==
    \A r \in References : ~Safe(r) => r.kind = "element" /\ Lo[r.name] # 0

(* The Pascal variables in memory. *)
LocOf(c) ==
    IF c.object.kind = "local" THEN c.object
    ELSE IF c.object.name \in Arr THEN Element(c.object.name, c.offset)
    ELSE c.object

CellOf(l) == IF l.kind = "element" THEN Cell(Global(l.name), l.index) ELSE Cell(l, 0)

Locs ==
    {Global(v) : v \in Var}
    \cup (UNION {{Element(a, i) : i \in Lo[a] .. Hi[a]} : a \in Arr})
    \cup UNION {{Local(k, n) : n \in {m \in Slots(frames[k].proc) : Mode(frames[k].proc, m) = "value"}} :
                   k \in 1 .. Depth}

(* Elements that have no cell stay as they were at the start. *)
storeOf == [l \in Locs |-> IF CellOf(l) \in DOMAIN mem THEN mem[CellOf(l)] ELSE Zero]

framesOf ==
    [k \in 1 .. Depth |->
        [proc |-> frames[k].proc,
         bind |-> [n \in Slots(frames[k].proc) |->
                      IF Mode(frames[k].proc, n) = "var" THEN LocOf(mem[Cell(Local(k, n), 0)])
                      ELSE Local(k, n)],
         dest |-> {LocOf(c) : c \in frames[k].dest}]]

Pascal == INSTANCE PascalStore WITH store <- storeOf, frames <- framesOf

(* Until it leaves its memory, the compiled program does with cells and    *)
(* pointers what the Pascal program does with its variables: the elements  *)
(* and parameters that share a location share a cell, and no others.       *)
Refines == Pascal!Spec
================================================================================
