------------------------------ MODULE Structured -------------------------------
(***************************************************************************)
(* What one function of a compiled program promises to do: run the         *)
(* statements of its Pascal body in order, as the tree that parser.y       *)
(* builds describes them, with no notion of blocks or branches.  Tests     *)
(* have any outcome.  A labelled statement and a goto do nothing: the      *)
(* parser drops the first and codegen the second, as it does with an       *)
(* assignment to the field of a record.                                    *)
(***************************************************************************)
EXTENDS Integers, Sequences

CONSTANTS
    Stm,        \* the statements, closed under sub-statements
    Bodies      \* the function bodies that may be run: lists of statements

VARIABLES
    phase,    \* idle, running or returned
    todo,     \* the statements still to run, a loop in progress among them
    event,    \* what happened last
    turn      \* flips with each event, so that an event that repeats shows

vars == <<phase, todo, event, turn>>
--------------------------------------------------------------------------------
(* Events *)

Assign(op, id) == [op |-> op, id |-> id]       \* op: "do", "init" or "step"
Test(id, out)  == [op |-> "test", id |-> id, out |-> out]
Return         == [op |-> "ret"]
Nothing        == [op |-> "none"]

(* A loop in progress, to be continued at its next point of evaluation. *)
At(point, s) == [kind |-> point, of |-> s]

Todo == Seq(Stm \cup [kind : {"until", "forTest", "forStep"}, of : Stm])

(* goto is skipped; a repeat runs its body before its first test. *)
Unfold(list) ==
    LET unfold[l \in Todo] ==
            IF l = << >> THEN l
            ELSE IF l[1].kind = "goto" THEN unfold[Tail(l)]
            ELSE IF l[1].kind = "repeat"
                 THEN unfold[l[1].body \o <<At("until", l[1])>> \o Tail(l)]
            ELSE l
    IN  unfold[list]

(* The events that may come next when `list' is still to run. *)
Events(list) ==
    IF list = << >> THEN {Return}
    ELSE LET s == list[1] IN
         CASE s.kind = "simple"  -> {Assign("do", s.id)}
           [] s.kind = "for"     -> {Assign("init", s.id)}
           [] s.kind = "forStep" -> {Assign("step", s.of.id)}
           [] s.kind \in {"if", "while"} -> {Test(s.id, out) : out \in BOOLEAN}
           [] s.kind \in {"until", "forTest"} -> {Test(s.of.id, out) : out \in BOOLEAN}

(* What is to be run after event e.  The body of a for statement runs for  *)
(* every value up to and including the end value: the variable is compared *)
(* before the body and stepped only after a value that was not the last.   *)
After(list, e) ==
    IF list = << >> THEN list
    ELSE LET s == list[1]  rest == Tail(list) IN
    Unfold(
      CASE s.kind = "simple"  -> rest
        [] s.kind = "if"      -> (IF e.out THEN s.body ELSE s.alt) \o rest
        [] s.kind = "while"   -> IF e.out THEN s.body \o list ELSE rest
        [] s.kind = "until"   -> IF e.out THEN rest ELSE s.of.body \o list
        [] s.kind = "for"     -> <<At("forTest", s)>> \o rest
        [] s.kind = "forStep" -> <<At("forTest", s.of)>> \o rest
        [] s.kind = "forTest" ->
              IF e.out THEN s.of.body \o rest
              ELSE s.of.body \o <<At("forStep", s.of)>> \o rest)
--------------------------------------------------------------------------------
Init == phase = "idle" /\ todo = << >> /\ event = Nothing /\ turn = 0

Start == /\ phase = "idle"
         /\ phase' = "running"
         /\ \E b \in Bodies : todo' = Unfold(b)
         /\ UNCHANGED <<event, turn>>

Run(e) == /\ phase = "running"
          /\ e \in Events(todo)
          /\ event' = e
          /\ turn' = 1 - turn
          /\ todo' = After(todo, e)
          /\ phase' = IF e = Return THEN "returned" ELSE "running"

Next == Start \/ \E e \in Events(todo) : Run(e)

(* A function that has been called goes on to its next event. *)
Fairness == WF_vars(\E e \in Events(todo) : Run(e))

Spec == Init /\ [][Next]_vars /\ Fairness
================================================================================
