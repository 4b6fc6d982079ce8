--------------------------------- MODULE ForLoop -------------------------------
(***************************************************************************)
(* The for statement at run time, with the numbers that Exec leaves out.   *)
(* ForStm::PascalCodeCreate compares the loop variable with the end value  *)
(* for equality, before the body; the step is an `add' that wraps around;  *)
(* the body is generated twice, the second time for the end value itself.  *)
(* Both the variable and the end value are evaluated again by every test,  *)
(* so that a body which assigns to them changes the course of the loop.    *)
(***************************************************************************)
EXTENDS Integers, Sequences

CONSTANT N      \* number of values of an integer, 2^32 in the code

ASSUME NAssumption == N \in Nat \ {0} /\ N % 2 = 0

VARIABLES
    pc,         \* the block: init, test, body, step, last (the second body), done
    i,          \* the loop variable
    end,        \* the value of the expression behind `to'
    start, dir, \* the initial value, and 1 for `to', -1 for `downto'
    ran,        \* the values the body has run for, until it assigns
    touched     \* whether the body has assigned to i or to a part of `end'

vars == <<pc, i, end, start, dir, ran, touched>>

Half    == N \div 2
Integer == -Half .. Half - 1
Wrap(x) == ((x + Half) % N) - Half

(* The variable is not initialised: any value. *)
Init ==
    /\ pc = "init"
    /\ i \in Integer /\ start \in Integer /\ end \in Integer
    /\ dir \in {1, -1}
    /\ ran = << >>
    /\ touched = FALSE

Assign ==
    /\ pc = "init"
    /\ i' = start
    /\ pc' = "test"
    /\ UNCHANGED <<end, start, dir, ran, touched>>

(* Mutant: the test compares with `greater', as a for statement of C. *)
TestGreater ==
    /\ pc = "test"
    /\ pc' = IF (i - end) * dir > 0 THEN "done" ELSE "body"
    /\ UNCHANGED <<i, end, start, dir, ran, touched>>

(* Mutant: the loop is left one value later, and without a second body. *)
TestOneLater ==
    /\ pc = "test"
    /\ pc' = IF i = Wrap(end + dir) THEN "done" ELSE "body"
    /\ UNCHANGED <<i, end, start, dir, ran, touched>>

(* Mutant: no second body. *)
TestExclusive ==
    /\ pc = "test"
    /\ pc' = IF i = end THEN "done" ELSE "body"
    /\ UNCHANGED <<i, end, start, dir, ran, touched>>

Test ==
    /\ pc = "test"
    /\ pc' = IF i = end THEN "last" ELSE "body"
    /\ UNCHANGED <<i, end, start, dir, ran, touched>>

(* The record stops one entry after the longest loop there is. *)
Recorded(q) == IF touched \/ Len(q) > N THEN q ELSE Append(q, i)

Body ==
    /\ pc \in {"body", "last"}
    /\ pc' = IF pc = "body" THEN "step" ELSE "done"
    /\ ran' = Recorded(ran)
    /\ \/ UNCHANGED <<i, end, touched>>
       \/ /\ i' \in Integer /\ end' \in Integer
          /\ touched' = TRUE
    /\ UNCHANGED <<start, dir>>

(* Mutant: downto counts up. *)
NextValueUp ==
    /\ pc = "step"
    /\ i' = Wrap(i + 1)
    /\ pc' = "test"
    /\ UNCHANGED <<end, start, dir, ran, touched>>

NextValue ==
    /\ pc = "step"
    /\ i' = Wrap(i + dir)
    /\ pc' = "test"
    /\ UNCHANGED <<end, start, dir, ran, touched>>

Stopped == pc = "done" /\ UNCHANGED vars

Next == Assign \/ Test \/ Body \/ NextValue \/ Stopped

(* The processor goes on to the next instruction. *)
Spec == Init /\ [][Next]_vars /\ WF_vars(Next)
--------------------------------------------------------------------------------
(* Properties *)

(* The variables stay integers of the machine. *)
TypeOK ==
    /\ pc \in {"init", "test", "body", "step", "last", "done"}
    /\ i \in Integer /\ end \in Integer /\ start \in Integer
    /\ dir \in {1, -1}
    /\ ran \in Seq(Integer)
    /\ touched \in BOOLEAN

Upwards   == dir = 1 /\ start <= end
Downwards == dir = -1 /\ end <= start

(* A loop with a range that is not empty never lets its variable leave the *)
(* range, at no block of the loop: no step overflows, not even when the    *)
(* end value is the largest or smallest integer, since the test for the    *)
(* end value comes before the step (codegen.cpp 691-710).                  *)
StaysInRange ==
    pc # "init" /\ ~touched =>
        /\ Upwards => start <= i /\ i <= end
        /\ Downwards => end <= i /\ i <= start

(* StaysInRange with what it needs to be inductive: the step is taken only *)
(* from a value that is not the last one.                                  *)
RangeInv ==
    /\ TypeOK
    /\ StaysInRange
    /\ pc \in {"body", "step"} /\ ~touched => i # end

(* The body has run for consecutive values that began with the start       *)
(* value, each once: going from the body to its second copy neither skips  *)
(* nor repeats a value.                                                    *)
RunsInOrder ==
    ~touched => ran = [k \in 1 .. Len(ran) |-> Wrap(start + (k - 1) * dir)]

(* When the loop is over, the body has run for every value up to and with  *)
(* the end value.  An empty range is none for this code: it runs from the  *)
(* start value around all integers to the end value.                       *)
RunsToTheEnd ==
    pc = "done" /\ ~touched =>
        /\ Len(ran) = (((end - start) * dir) % N) + 1
        /\ ran[Len(ran)] = end

(* The loop ends, whatever its range, unless the body interferes. *)
Ends == <>(pc = "done" \/ touched)
================================================================================
