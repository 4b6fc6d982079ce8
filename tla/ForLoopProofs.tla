----------------------------- MODULE ForLoopProofs -----------------------------
(***************************************************************************)
(* The for statement never steps its variable out of a range that is not   *)
(* empty, and runs its body for each value from the start value to the end *)
(* value once and in order, for integers of any width.                     *)
(***************************************************************************)
EXTENDS ForLoop, TLAPS

(* The sum that an add instruction leaves in its register is an integer of *)
(* the machine.                                                            *)
LEMMA WrapType ==
    ASSUME NEW x \in Int
    PROVE  Wrap(x) \in Integer
<1>1. N \in Nat /\ N > 0 /\ Half \in Int /\ N = 2 * Half
    BY NAssumption DEF Half
<1>2. (x + Half) % N \in 0 .. N - 1
    BY <1>1
<1> QED
    BY <1>1, <1>2 DEF Wrap, Integer

(* An addition that does not overflow is exact. *)
LEMMA WrapExact ==
    ASSUME NEW x \in Integer
    PROVE  Wrap(x) = x
<1>1. N \in Nat /\ N > 0 /\ Half \in Int /\ N = 2 * Half
    BY NAssumption DEF Half
<1>2. x \in Int /\ x + Half \in 0 .. N - 1
    BY <1>1 DEF Integer
<1>3. (x + Half) % N = x + Half
    BY <1>1, <1>2
<1> QED
    BY <1>2, <1>3, <1>1 DEF Wrap

LEMMA IntegerIsInt == Integer \subseteq Int
    BY NAssumption DEF Integer, Half

LEMMA RangeInit == Init => RangeInv
<1> SUFFICES ASSUME Init PROVE RangeInv
    OBVIOUS
<1>1. pc = "init" /\ ran \in Seq(Integer)
    BY DEF Init
<1>2. TypeOK
    BY <1>1 DEF Init, TypeOK
<1> QED
    BY <1>1, <1>2 DEF RangeInv, StaysInRange

LEMMA RangeStep ==
    ASSUME RangeInv, [Next]_vars
    PROVE  RangeInv'
<1> USE IntegerIsInt DEF RangeInv, TypeOK
<1>1. CASE Assign
    <2>1. TypeOK' /\ pc' = "test"
        BY <1>1 DEF Assign
    <2>2. StaysInRange'
        BY <1>1 DEF Assign, StaysInRange, Upwards, Downwards
    <2> QED
        BY <2>1, <2>2
<1>2. CASE Test
    BY <1>2 DEF Test, StaysInRange, Upwards, Downwards
<1>3. CASE Body
    <2>1. ran' \in Seq(Integer)
        BY <1>3 DEF Body, Recorded
    <2>2. TypeOK'
        BY <1>3, <2>1 DEF Body
    <2>3. CASE touched'
        BY <2>2, <2>3 DEF StaysInRange
    <2>4. CASE ~touched'
        BY <1>3, <2>2, <2>4 DEF Body, StaysInRange, Upwards, Downwards
    <2> QED
        BY <2>3, <2>4
<1>4. CASE NextValue
    <2>1. i' = Wrap(i + dir) /\ pc' = "test" /\ pc = "step"
          /\ UNCHANGED <<end, start, dir, ran, touched>>
        BY <1>4 DEF NextValue
    <2>2. i' \in Integer
        BY <2>1, WrapType
    <2>3. TypeOK'
        BY <2>1, <2>2
    <2>4. ASSUME ~touched, Upwards
          PROVE  start' <= i' /\ i' <= end'
        <3>1. dir = 1 /\ start <= i /\ i < end
            BY <2>1, <2>4 DEF StaysInRange, Upwards
        <3>2. i + dir \in Integer
            BY <3>1, NAssumption DEF Integer, Half
        <3> QED
            BY <2>1, <3>1, <3>2, WrapExact
    <2>5. ASSUME ~touched, Downwards
          PROVE  end' <= i' /\ i' <= start'
        <3>1. dir = -1 /\ end < i /\ i <= start
            BY <2>1, <2>5 DEF StaysInRange, Downwards
        <3>2. i + dir \in Integer
            BY <3>1, NAssumption DEF Integer, Half
        <3> QED
            BY <2>1, <3>1, <3>2, WrapExact
    <2>6. StaysInRange'
        BY <2>1, <2>4, <2>5 DEF StaysInRange, Upwards, Downwards
    <2> QED
        BY <2>1, <2>3, <2>6
<1>5. CASE Stopped \/ UNCHANGED vars
    BY <1>5 DEF Stopped, vars, StaysInRange, Upwards, Downwards
<1> QED
    BY <1>1, <1>2, <1>3, <1>4, <1>5 DEF Next

(* RangeInv holds in every state of every for statement. *)
THEOREM RangeInvariant == Spec => []RangeInv
<1>1. Init => RangeInv
    BY RangeInit
<1>2. RangeInv /\ [Next]_vars => RangeInv'
    BY RangeStep
<1> QED
    BY <1>1, <1>2, PTL DEF Spec

(* The variable of a for statement over a range that is not empty stays in *)
(* that range, also when the range ends at the largest or the smallest     *)
(* integer (codegen.cpp, ForStm::PascalCodeCreate).                        *)
THEOREM NoOverflow == Spec => []StaysInRange
<1>1. RangeInv => StaysInRange
    BY DEF RangeInv
<1> QED
    BY <1>1, RangeInvariant, PTL

(* The variables of a for statement stay integers of the machine.          *)
THEOREM ForLoopTypeCorrect == Spec => []TypeOK
<1>1. RangeInv => TypeOK
    BY DEF RangeInv
<1> QED
    BY <1>1, RangeInvariant, PTL
--------------------------------------------------------------------------------
(* Arithmetic of the machine *)

(* The remainder is the only number below N that differs by a multiple     *)
(* of N.                                                                   *)
LEMMA ModUnique ==
    ASSUME NEW q \in Int, NEW r \in 0 .. N - 1
    PROVE  (q * N + r) % N = r
BY NAssumption

LEMMA ModExists ==
    ASSUME NEW x \in Int
    PROVE  \E q \in Int : x = q * N + (x % N)
<1>1. N \in Int /\ N > 0
    BY NAssumption
<1>2. x \div N \in Int /\ x % N \in Int
    BY <1>1
<1>3. x = N * (x \div N) + (x % N)
    BY <1>1
<1>4. x = (x \div N) * N + (x % N)
    BY <1>1, <1>2, <1>3
<1> QED
    BY <1>2, <1>4

LEMMA ModShift ==
    ASSUME NEW x \in Int, NEW k \in Int
    PROVE  (x + k * N) % N = x % N
<1>1. N \in Int /\ x % N \in 0 .. N - 1
    BY NAssumption
<1>2. PICK q \in Int : x = q * N + (x % N)
    BY ModExists
<1>3. q + k \in Int /\ x + k * N = (q + k) * N + (x % N)
    <2> DEFINE r == x % N
    <2>1. r \in Int /\ x = q * N + r
        BY <1>1, <1>2
    <2> HIDE DEF r
    <2>2. (q + k) * N = q * N + k * N
        BY <1>1
    <2>3. x + k * N = (q + k) * N + r
        BY <1>1, <2>1, <2>2
    <2> QED
        BY <2>3 DEF r
<1> QED
    BY <1>1, <1>3, ModUnique

(* Wrapping around adds or takes away a multiple of N, and does not see    *)
(* one.                                                                    *)
LEMMA WrapMultiple ==
    ASSUME NEW x \in Int
    PROVE  \E q \in Int : Wrap(x) = x + q * N
<1> DEFINE r == (x + Half) % N
<1>1. N \in Int /\ Half \in Int /\ x + Half \in Int /\ r \in Int
    BY NAssumption DEF Half
<1>2. PICK q \in Int : x + Half = q * N + r
    BY <1>1, ModExists
<1>3. Wrap(x) = r - Half
    BY DEF Wrap
<1> HIDE DEF r
<1>4. -q \in Int /\ Wrap(x) = x + (-q) * N
    <2>1. -q \in Int /\ (-q) * N = -(q * N) /\ q * N \in Int
        BY <1>1
    <2> QED
        BY <1>1, <1>2, <1>3, <2>1
<1> QED
    BY <1>4

LEMMA WrapShift ==
    ASSUME NEW x \in Int, NEW k \in Int
    PROVE  Wrap(x + k * N) = Wrap(x)
<1>1. N \in Int /\ Half \in Int
    BY NAssumption DEF Half
<1>2. x + Half \in Int /\ x + k * N + Half = (x + Half) + k * N
    BY <1>1
<1> QED
    BY <1>2, ModShift DEF Wrap

(* Adding in steps wraps around as adding all at once.                     *)
LEMMA WrapAdd ==
    ASSUME NEW x \in Int, NEW d \in Int
    PROVE  Wrap(Wrap(x) + d) = Wrap(x + d)
<1>1. PICK q \in Int : Wrap(x) = x + q * N
    BY WrapMultiple
<1>2. N \in Int /\ x + d \in Int /\ Wrap(x) + d = (x + d) + q * N
    BY <1>1, NAssumption
<1> QED
    BY <1>2, WrapShift

(* Numbers less than N apart are wrapped to different integers.            *)
LEMMA WrapInjective ==
    ASSUME NEW x \in Int, NEW y \in Int, x - y < N, y - x < N,
           Wrap(x) = Wrap(y)
    PROVE  x = y
<1>1. N \in Int
    BY NAssumption
<1>2. PICK p \in Int : Wrap(x) = x + p * N
    BY WrapMultiple
<1>3. PICK q \in Int : Wrap(y) = y + q * N
    BY WrapMultiple
<1>4. q - p \in Int /\ (q - p) * N = x - y
    <2>1. q * N \in Int /\ p * N \in Int /\ (q - p) * N = q * N - p * N
        BY <1>1
    <2>2. x + p * N = y + q * N
        BY <1>2, <1>3
    <2> QED
        BY <2>1, <2>2
<1>5. \A d \in Int : -N < d * N /\ d * N < N => d = 0
    BY NAssumption
<1>6. q - p = 0
    BY <1>1, <1>4, <1>5
<1> QED
    BY <1>1, <1>4, <1>6
--------------------------------------------------------------------------------
(* Each value once, up to the end value *)

(* The steps from the start value to the end value.                        *)
Distance == ((end - start) * dir) % N

(* The k-th value after the start value.                                   *)
Value(k) == Wrap(start + k * dir)

(* RunsInOrder and RunsToTheEnd with what they need to be inductive: the   *)
(* loop variable is as many steps from the start value as the body has     *)
(* run, and the end value has not been passed.                             *)
CountInv ==
    /\ TypeOK
    /\ ~touched =>
        /\ \A k \in 1 .. Len(ran) : ran[k] = Value(k - 1)
        /\ pc = "init" => Len(ran) = 0
        /\ pc \in {"test", "body", "last"} =>
               Len(ran) <= Distance /\ i = Value(Len(ran))
        /\ pc = "body" => i # end
        /\ pc = "last" => i = end
        /\ pc = "step" =>
               Len(ran) \in 1 .. Distance /\ i = Value(Len(ran) - 1)
        /\ pc = "done" => Len(ran) = Distance + 1

LEMMA DistanceType ==
    ASSUME TypeOK
    PROVE  Distance \in 0 .. N - 1 /\ N \in Nat
<1>1. N \in Nat /\ N > 0
    BY NAssumption
<1>2. end - start \in Int /\ dir \in {1, -1}
    BY IntegerIsInt DEF TypeOK
<1>3. (end - start) * dir \in Int
    BY <1>2
<1> QED
    BY <1>1, <1>3 DEF Distance

(* Of the values within N steps, only the one after Distance steps is the  *)
(* end value.                                                              *)
LEMMA EndValue ==
    ASSUME TypeOK, NEW k \in 0 .. N - 1
    PROVE  Value(k) = end <=> k = Distance
<1>1. N \in Int /\ start \in Int /\ end \in Integer /\ end \in Int /\ k \in Int
      /\ dir \in {1, -1} /\ Distance \in 0 .. N - 1
    BY IntegerIsInt, NAssumption, DistanceType DEF TypeOK
<1>2. PICK q \in Int : (end - start) * dir = q * N + Distance
    <2>1. (end - start) * dir \in Int
        BY <1>1
    <2> QED
        BY <2>1, ModExists DEF Distance
<1>3. \E p \in Int : start + Distance * dir = end + p * N
    <2>1. CASE dir = 1
        <3>1. -q \in Int /\ (-q) * N = -(q * N)
            BY <1>1
        <3>2. start + Distance * dir = end + (-q) * N
            BY <1>1, <1>2, <2>1, <3>1
        <3> QED
            BY <3>1, <3>2
    <2>2. CASE dir = -1
        <3>1. (end - start) * dir = start - end /\ Distance * dir = -Distance
            BY <1>1, <2>2
        <3>2. start + Distance * dir = end + q * N
            BY <1>1, <1>2, <3>1
        <3> QED
            BY <3>2
    <2> QED
        BY <1>1, <2>1, <2>2
<1>4. Value(Distance) = end
    <2>1. PICK p \in Int : start + Distance * dir = end + p * N
        BY <1>3
    <2>2. Wrap(end + p * N) = end
        BY <1>1, WrapShift, WrapExact
    <2> QED
        BY <2>1, <2>2 DEF Value
<1>5. ASSUME Value(k) = end
      PROVE  k = Distance
    <2>1. start + k * dir \in Int /\ start + Distance * dir \in Int
        BY <1>1
    <2>2. /\ (start + k * dir) - (start + Distance * dir) < N
          /\ (start + Distance * dir) - (start + k * dir) < N
        BY <1>1
    <2>3. start + k * dir = start + Distance * dir
        BY <1>4, <1>5, <2>1, <2>2, WrapInjective DEF Value
    <2> QED
        BY <1>1, <2>3
<1> QED
    BY <1>4, <1>5

LEMMA CountInit == Init => CountInv
<1> SUFFICES ASSUME Init PROVE CountInv
    OBVIOUS
<1>1. TypeOK
    BY RangeInit DEF RangeInv
<1>2. pc = "init" /\ Len(ran) = 0
    BY DEF Init
<1> QED
    BY <1>1, <1>2 DEF CountInv

LEMMA CountAssign ==
    ASSUME CountInv, TypeOK', Assign
    PROVE  CountInv'
<1>1. start \in Integer /\ start \in Int /\ dir \in {1, -1}
    BY IntegerIsInt DEF CountInv, TypeOK
<1>2. start + 0 * dir = start
    BY <1>1
<1>3. Value(0) = start
    BY <1>1, <1>2, WrapExact DEF Value
<1>4. Distance' = Distance /\ (\A k : Value(k)' = Value(k))
    BY DEF Assign, Distance, Value
<1>5. 0 <= Distance
    BY DistanceType DEF CountInv
<1> QED
    BY <1>3, <1>4, <1>5 DEF CountInv, Assign

LEMMA CountTest ==
    ASSUME CountInv, TypeOK', Test
    PROVE  CountInv'
<1>1. Distance' = Distance /\ Value(Len(ran))' = Value(Len(ran))
      /\ (\A k : Value(k)' = Value(k))
    BY DEF Test, Distance, Value
<1> QED
    BY <1>1 DEF CountInv, Test

LEMMA CountBody ==
    ASSUME CountInv, TypeOK', Body
    PROVE  CountInv'
<1>1. CASE touched'
    BY <1>1 DEF CountInv
<1>2. CASE ~touched'
    <2>1. ~touched /\ UNCHANGED <<i, end, touched, start, dir>>
          /\ pc \in {"body", "last"} /\ ran' = Recorded(ran)
          /\ pc' = IF pc = "body" THEN "step" ELSE "done"
        BY <1>2 DEF Body
    <2>2. Distance' = Distance /\ (\A k : Value(k)' = Value(k))
        BY <2>1 DEF Distance, Value
    <2> DEFINE n == Len(ran)
    <2>3. n \in Nat /\ n <= Distance /\ i = Value(n) /\ ran \in Seq(Integer)
          /\ \A k \in 1 .. n : ran[k] = Value(k - 1)
        BY <2>1 DEF CountInv, TypeOK
    <2>4. Distance \in 0 .. N - 1 /\ N \in Nat
        BY DistanceType DEF CountInv
    <2>5. ran' = Append(ran, i) /\ Len(ran') = n + 1
        <3>1. ~(n > N)
            BY <2>3, <2>4
        <3> QED
            BY <2>1, <2>3, <3>1 DEF Recorded
    <2>6. \A k \in 1 .. Len(ran') : ran'[k] = Value(k - 1)
        <3> TAKE k \in 1 .. Len(ran')
        <3>1. CASE k = n + 1
            BY <2>3, <2>5, <3>1
        <3>2. CASE k \in 1 .. n
            BY <2>3, <2>5, <3>2
        <3> QED
            BY <2>3, <2>5, <3>1, <3>2
    <2>7. n \in 0 .. N - 1
        BY <2>3, <2>4
    <2>8. n = Distance <=> i = end
        BY <2>3, <2>7, EndValue DEF CountInv
    <2>9. CASE pc = "body"
        <3>1. pc' = "step" /\ i # end
            BY <2>1, <2>9 DEF CountInv
        <3>2. Len(ran') \in 1 .. Distance /\ Len(ran') - 1 = n
            BY <2>3, <2>4, <2>5, <2>8, <3>1
        <3> QED
            BY <2>1, <2>2, <2>3, <2>6, <3>1, <3>2 DEF CountInv
    <2>10. CASE pc = "last"
        <3>1. pc' = "done" /\ i = end
            BY <2>1, <2>10 DEF CountInv
        <3>2. Len(ran') = Distance + 1
            BY <2>5, <2>8, <3>1
        <3> QED
            BY <2>1, <2>2, <2>6, <3>1, <3>2 DEF CountInv
    <2> QED
        BY <2>1, <2>9, <2>10
<1> QED
    BY <1>1, <1>2

LEMMA CountNextValue ==
    ASSUME CountInv, TypeOK', NextValue
    PROVE  CountInv'
<1>1. pc = "step" /\ pc' = "test" /\ i' = Wrap(i + dir)
      /\ UNCHANGED <<end, start, dir, ran, touched>>
    BY DEF NextValue
<1>2. Distance' = Distance /\ (\A k : Value(k)' = Value(k))
    BY <1>1 DEF Distance, Value
<1>3. ASSUME ~touched
      PROVE  Len(ran) <= Distance /\ i' = Value(Len(ran))
    <2> DEFINE n == Len(ran)
    <2>1. n \in Int /\ n <= Distance /\ i = Value(n - 1)
        BY <1>1, <1>3, DistanceType DEF CountInv, TypeOK
    <2>2. start \in Int /\ dir \in {1, -1} /\ dir \in Int
        BY IntegerIsInt DEF CountInv, TypeOK
    <2>3. start + (n - 1) * dir \in Int /\ (start + (n - 1) * dir) + dir = start + n * dir
        BY <2>1, <2>2
    <2>4. Wrap(Wrap(start + (n - 1) * dir) + dir) = Wrap(start + n * dir)
        BY <2>2, <2>3, WrapAdd
    <2> QED
        BY <1>1, <2>1, <2>4 DEF Value
<1> QED
    BY <1>1, <1>2, <1>3 DEF CountInv

LEMMA CountStep == RangeInv /\ CountInv /\ [Next]_vars => CountInv'
<1> SUFFICES ASSUME RangeInv, CountInv, [Next]_vars PROVE CountInv'
    OBVIOUS
<1>1. TypeOK'
    BY RangeStep DEF RangeInv
<1>2. CASE Stopped \/ UNCHANGED vars
    <2>1. UNCHANGED vars
        BY <1>2 DEF Stopped
    <2>2. Distance' = Distance /\ (\A k : Value(k)' = Value(k))
        BY <2>1 DEF vars, Distance, Value
    <2> QED
        BY <1>1, <2>1, <2>2 DEF CountInv, vars
<1> QED
    BY <1>1, <1>2, CountAssign, CountTest, CountBody, CountNextValue DEF Next

LEMMA CountInvariant == Spec => []CountInv
BY CountInit, CountStep, RangeInvariant, PTL DEF Spec

(* The two copies of the body together skip no value and repeat none, for  *)
(* integers of any width (codegen.cpp, ForStm::PascalCodeCreate).          *)
THEOREM EachValueInOrder == Spec => []RunsInOrder
<1>1. CountInv => RunsInOrder
    <2> SUFFICES ASSUME CountInv, ~touched
                 PROVE  ran = [k \in 1 .. Len(ran) |-> Wrap(start + (k - 1) * dir)]
        BY DEF RunsInOrder
    <2>1. ran \in Seq(Integer)
        BY DEF CountInv, TypeOK
    <2>2. \A k \in 1 .. Len(ran) : ran[k] = Wrap(start + (k - 1) * dir)
        BY DEF CountInv, Value
    <2>3. DOMAIN ran = 1 .. Len(ran) /\ ran = [k \in DOMAIN ran |-> ran[k]]
        BY <2>1
    <2> QED
        BY <2>2, <2>3
<1> QED
    BY <1>1, CountInvariant, PTL

(* A loop that is over has run for every value from the start value to the *)
(* end value, and around all integers if the range was empty.              *)
THEOREM LoopRunsToTheEnd == Spec => []RunsToTheEnd
<1>1. CountInv => RunsToTheEnd
    <2> SUFFICES ASSUME CountInv, pc = "done", ~touched
                 PROVE  Len(ran) = Distance + 1 /\ ran[Len(ran)] = end
        BY DEF RunsToTheEnd, Distance
    <2>1. Distance \in 0 .. N - 1
        BY DistanceType DEF CountInv
    <2>2. Len(ran) = Distance + 1 /\ Len(ran) \in 1 .. Len(ran) /\ Len(ran) - 1 = Distance
        BY <2>1 DEF CountInv
    <2>3. ran[Len(ran)] = Value(Distance)
        BY <2>2 DEF CountInv
    <2> QED
        BY <2>1, <2>2, <2>3, EndValue DEF CountInv
<1> QED
    BY <1>1, CountInvariant, PTL
================================================================================
