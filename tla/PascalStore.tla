------------------------------- MODULE PascalStore -------------------------------
(***************************************************************************)
(* Variables of a Pascal program: what assignments, calls and returns mean *)
(* without machine addresses.  A name denotes a location, a value          *)
(* parameter one of its own, a var parameter that of its argument; a       *)
(* location holds what was stored there last.                              *)
(***************************************************************************)
EXTENDS Integers, Sequences

CONSTANTS
    Var,        \* global variables,
    Arr,        \* global arrays,
    Lo, Hi,     \* their subranges
    Proc,       \* functions
    Formals,    \* the modes of their parameters, "var" or "value"
    Value,      \* integers,
    Zero,       \* the initial one,
    Undef,      \* what a variable holds before it is assigned
    MaxDepth    \* bound: calls in progress

VARIABLES
    store,      \* the content of each location
    frames      \* the calls in progress

vars == <<store, frames>>
--------------------------------------------------------------------------------
(* Locations, and the references of a program text: the slots of a call    *)
(* are its result, 0, and its parameters.                                  *)
Global(x)     == [kind |-> "global", name |-> x]
Element(a, i) == [kind |-> "element", name |-> a, index |-> i]
Local(k, n)   == [kind |-> "local", depth |-> k, slot |-> n]
Slot(n)       == [kind |-> "slot", slot |-> n]
Literal(v)    == [kind |-> "literal", value |-> v]

Slots(p)   == 0 .. Len(Formals[p])
Mode(p, n) == IF n = 0 THEN "value" ELSE Formals[p][n]

GlobalLocs ==
    {Global(v) : v \in Var} \cup UNION {{Element(a, i) : i \in Lo[a] .. Hi[a]} : a \in Arr}
OwnLocs(k, p) == {Local(k, n) : n \in {m \in Slots(p) : Mode(p, m) = "value"}}
Locs(procs)   == GlobalLocs \cup UNION {OwnLocs(k, procs[k]) : k \in DOMAIN procs}

ProcsOf(fs) == [k \in DOMAIN fs |-> fs[k].proc]

Depth == Len(frames)

References ==
    GlobalLocs \cup IF Depth = 0 THEN {} ELSE {Slot(n) : n \in Slots(frames[Depth].proc)}
Sources == References \cup {Literal(v) : v \in Value}

Denoted(r) == IF r.kind = "slot" THEN frames[Depth].bind[r.slot] ELSE r

(* A variable that was not assigned can have any value. *)
Reads(l)    == IF store[l] = Undef THEN Value ELSE {store[l]}
ValuesOf(s) == IF s.kind = "literal" THEN {s.value} ELSE Reads(Denoted(s))
--------------------------------------------------------------------------------
Init ==
    /\ store = [l \in Locs(<< >>) |-> Zero]
    /\ frames = << >>

Assign(t, s) ==
    /\ \E v \in ValuesOf(s) : store' = [store EXCEPT ![Denoted(t)] = v]
    /\ UNCHANGED frames

Arguments(p) ==
    {args \in [1 .. Len(Formals[p]) -> Sources] :
        \A n \in DOMAIN args : Mode(p, n) = "var" => args[n] \in References}

(* The call of a function, whose result goes to dest: to one location or   *)
(* to none.                                                                *)
Call(p, args, dest) ==
    /\ Depth < MaxDepth
    /\ frames' = Append(frames,
                        [proc |-> p,
                         bind |-> [n \in Slots(p) |->
                                      IF Mode(p, n) = "var" THEN Denoted(args[n]) ELSE Local(Depth + 1, n)],
                         dest |-> {Denoted(r) : r \in dest}])
    /\ \E v \in [1 .. Len(Formals[p]) -> Value] :
        /\ \A n \in DOMAIN v : Mode(p, n) = "value" => v[n] \in ValuesOf(args[n])
        /\ store' = [l \in Locs(ProcsOf(frames')) |->
                        IF l \in DOMAIN store THEN store[l]
                        ELSE IF l.slot = 0 THEN Undef ELSE v[l.slot]]

Return ==
    /\ Depth > 0
    /\ frames' = SubSeq(frames, 1, Depth - 1)
    /\ \E v \in Reads(Local(Depth, 0)) :
        store' = [l \in Locs(ProcsOf(frames')) |->
                     IF l \in frames[Depth].dest THEN v ELSE store[l]]

Next ==
    \/ \E t \in References, s \in Sources : Assign(t, s)
    \/ \E p \in Proc, r \in References :
          \E args \in Arguments(p), dest \in {{}, {r}} : Call(p, args, dest)
    \/ Return

Spec == Init /\ [][Next]_vars
================================================================================
