------------------------------ MODULE TypingProofs -----------------------------
(***************************************************************************)
(* The two passes agree on the types of the statements in Supported, and   *)
(* errors show until the verdict, for expressions of any depth.            *)
(***************************************************************************)
EXTENDS Typing, TLAPS

(* What every operand on its own satisfies. *)
Sound(x) ==
    /\ x \in Operand
    /\ x.supported => /\ x.type \in Scalar /\ ~x.crash
                      /\ x.ok /\ x.value = LLVMTYPERET(x.type)
    /\ x.crash => x.type = Null

Untyped == \E k \in 1 .. Len(operands) : operands[k].type = Null

(* The LLVM type of a type. *)
LEMMA Lowering ==
    /\ LLVMTYPERET("int") = "i32" /\ LLVMTYPERET("real") = "float"
    /\ LLVMTYPERET("char") = "i8" /\ LLVMTYPERET("bool") = "i1"
    /\ LLVMTYPERET("array") = "aggregate" /\ LLVMTYPERET("string") = Null
    /\ LLVMTYPERET(Null) = Null
BY DEF LLVMTYPERET, Null

LEMMA LoweringType ==
    ASSUME NEW t \in Type \cup {Null}
    PROVE  LLVMTYPERET(t) \in LLVMType \cup {Null}
BY Lowering DEF Type, Scalar, LLVMType, LLVMInteger

(* The type invariant and the properties of operands, put together. *)
LEMMA OperandsSound ==
    ASSUME IInv
    PROVE  /\ operands \in Seq(Operand)
           /\ \A k \in 1 .. Len(operands) : Sound(operands[k])
BY DEF IInv, TypeOK, Agreement, ErrorShows, Sound

LEMMA LastSound ==
    ASSUME IInv, NEW k \in 1 .. Len(operands)
    PROVE  Sound(Last(k))
<1>1. Len(operands) \in Nat
  BY OperandsSound
<1>2. Len(operands) - k + 1 \in 1 .. Len(operands)
  BY <1>1
<1>. QED BY <1>2, OperandsSound DEF Last

(* Operands are replaced by one that is sound and hides no error of theirs. *)
LEMMA ReduceKeeps ==
    ASSUME IInv, NEW n \in Nat, NEW STATE x, Sound(x), Reduce(n, x),
           \A k \in 1 .. n : Last(k).type = Null => x.type = Null
    PROVE  IInv'
<1>. DEFINE m == Len(operands) - n
<1>1. /\ operands \in Seq(Operand) /\ Len(operands) \in Nat
      /\ Checking /\ m \in 0 .. Len(operands) /\ m < Depth /\ Depth \in Nat
      /\ operands' = Append(SubSeq(operands, 1, m), x)
      /\ errors' = (errors \/ x.type = Null)
      /\ UNCHANGED <<phase, stmt, supported>>
  BY OperandsSound, DepthAssumption DEF Reduce
<1>2. /\ SubSeq(operands, 1, m) \in Seq(Operand)
      /\ Len(SubSeq(operands, 1, m)) = m
      /\ \A k \in 1 .. m : SubSeq(operands, 1, m)[k] = operands[k]
  BY <1>1
<1>. HIDE DEF m
<1>3. /\ operands' \in Seq(Operand) /\ Len(operands') = m + 1
      /\ \A k \in 1 .. m : operands'[k] = operands[k]
      /\ operands'[m + 1] = x
  <2>. DEFINE q == SubSeq(operands, 1, m)
  <2>1. q \in Seq(Operand) /\ Len(q) = m /\ m \in Nat /\ x \in Operand /\ operands' = Append(q, x)
    BY <1>1, <1>2 DEF Sound
  <2>2. \A k \in 1 .. m : q[k] = operands[k]
    BY <1>2
  <2>. HIDE DEF q
  <2>3. /\ operands' \in Seq(Operand) /\ Len(operands') = m + 1
        /\ \A k \in 1 .. m : operands'[k] = q[k]
        /\ operands'[m + 1] = x
    BY <2>1
  <2>. QED BY <2>2, <2>3
<1>4. \A k \in 1 .. Len(operands') : Sound(operands'[k])
  <2>1. \A k \in 1 .. m : Sound(operands[k])
    BY <1>1, OperandsSound
  <2>2. \A k \in 1 .. m + 1 : k \in 1 .. m \/ k = m + 1
    BY <1>1
  <2>. QED BY <1>3, <2>1, <2>2
<1>5. TypeOK'
  BY <1>1, <1>3 DEF IInv, TypeOK, Sound, Checking
<1>6. Agreement'
  BY <1>4 DEF Sound, Agreement
<1>7. Untyped => (Untyped' \/ \E k \in 1 .. n : Last(k).type = Null)
  <2>1. ASSUME NEW k \in 1 .. Len(operands), operands[k].type = Null, k > m
        PROVE  \E j \in 1 .. n : Last(j).type = Null
    <3>1. Len(operands) - k + 1 \in 1 .. n
      BY <1>1, <2>1 DEF m
    <3>2. Last(Len(operands) - k + 1) = operands[k]
      BY <1>1 DEF Last
    <3>. QED BY <2>1, <3>1, <3>2
  <2>2. ASSUME NEW k \in 1 .. Len(operands), operands[k].type = Null, k \in 1 .. m
        PROVE  Untyped'
    BY <1>1, <1>3, <2>2 DEF Untyped
  <2>3. \A k \in 1 .. Len(operands) : k > m \/ k \in 1 .. m
    BY <1>1
  <2>. QED BY <2>1, <2>2, <2>3 DEF Untyped
<1>8. x.type = Null => Untyped'
  BY <1>1, <1>3 DEF Untyped
<1>9. Untyped' => Untyped \/ x.type = Null
  <2>1. \A k \in 1 .. m + 1 : (k \in 1 .. Len(operands) /\ k \in 1 .. m) \/ k = m + 1
    BY <1>1
  <2>. QED BY <1>1, <1>3, <2>1 DEF Untyped
<1>10. errors' <=> Untyped'
  <2>1. errors <=> Untyped
    BY <1>1 DEF IInv, ErrorShows, Untyped
  <2>. QED BY <1>1, <2>1, <1>7, <1>8, <1>9
<1>11. ErrorShows'
  BY <1>4, <1>10 DEF ErrorShows, Untyped, Sound
<1>12. AcceptedCompiles' /\ ErrorsStop' /\ CrashNeedsError'
  BY <1>1 DEF Checking, AcceptedCompiles, ErrorsStop, CrashNeedsError
<1>. QED BY <1>5, <1>6, <1>11, <1>12 DEF IInv

(* A verdict keeps the invariant if it crashes on errors only, accepts no  *)
(* error but in a write, and generates what is supported.                  *)
LEMMA VerdictKeeps ==
    ASSUME IInv, NEW s \in {"assign", "condition", "for", "write", "callstm"},
           NEW STATE n, NEW STATE crash, NEW STATE legal, NEW STATE ok, NEW STATE sup,
           sup \in BOOLEAN,
           Verdict(s, n, crash, legal, ok, sup),
           crash => Untyped,
           ~crash /\ legal /\ s # "write" => ~Untyped,
           ~crash /\ legal /\ sup => ok
    PROVE  IInv'
<1>1. /\ Checking /\ UNCHANGED operands /\ stmt' = s /\ supported' = sup
      /\ phase' = IF crash THEN "crashed" ELSE IF ~legal THEN "rejected"
                  ELSE IF ok THEN "generated" ELSE "broken"
      /\ errors' = (errors \/ (~crash /\ ~legal))
  BY DEF Verdict
<1>2. errors <=> Untyped
  BY <1>1 DEF IInv, ErrorShows, Untyped
<1>3. TypeOK'
  BY <1>1 DEF IInv, TypeOK
<1>4. Agreement'
  BY <1>1 DEF IInv, Agreement
<1>5. AcceptedCompiles'
  BY <1>1 DEF AcceptedCompiles
<1>6. ErrorsStop'
  BY <1>1, <1>2 DEF ErrorsStop
<1>7. CrashNeedsError'
  BY <1>1, <1>2 DEF CrashNeedsError
<1>8. ErrorShows'
  BY <1>1 DEF IInv, ErrorShows, Checking
<1>. QED BY <1>3, <1>4, <1>5, <1>6, <1>7, <1>8 DEF IInv
--------------------------------------------------------------------------------
(* Expressions *)

LEMMA ScalarTypes == Scalar \subseteq Type /\ Null \notin Type
BY DEF Type, Scalar, Null

(* A new operand on top of the others. *)
LEMMA LeafKeeps ==
    ASSUME IInv, NEW STATE x, Sound(x), Reduce(0, x)
    PROVE  IInv'
BY ReduceKeeps

LEMMA KeepConstant == ASSUME IInv, NEW t, Constant(t) PROVE IInv'
<1>. DEFINE x == Expr("other", t, FALSE, LLVMTYPERET(t), TRUE, t # "string")
<1>1. t \in Scalar \cup {"string"} /\ t \in Type /\ Reduce(0, x)
  BY DEF Constant, Type
<1>2. LLVMTYPERET(t) \in LLVMType \cup {Null}
  BY <1>1, LoweringType
<1>3. Sound(x)
  BY <1>1, <1>2 DEF Expr, Sound, Operand, Node
<1>. QED BY <1>1, <1>3, LeafKeeps

LEMMA KeepVariable == ASSUME IInv, NEW t, Variable(t) PROVE IInv'
<1>. DEFINE x == Expr("variable", t, FALSE, LLVMTYPERET(t), TRUE, t \in Scalar)
<1>1. t \in Scalar \cup {"array"} /\ t \in Type /\ Reduce(0, x)
  BY DEF Variable, Type
<1>2. LLVMTYPERET(t) \in LLVMType \cup {Null}
  BY <1>1, LoweringType
<1>3. Sound(x)
  BY <1>1, <1>2 DEF Expr, Sound, Operand, Node
<1>. QED BY <1>1, <1>3, LeafKeeps

LEMMA KeepReference == ASSUME IInv, NEW t, Reference(t) PROVE IInv'
<1>. DEFINE x == Expr("reference", t, FALSE, "i32", TRUE, t = "int")
<1>1. t \in Type /\ Reduce(0, x)
  BY DEF Reference
<1>2. "i32" \in LLVMType \cup {Null} /\ "int" \in Scalar /\ LLVMTYPERET("int") = "i32"
  BY Lowering DEF LLVMType, LLVMInteger, Scalar
<1>3. Sound(x)
  BY <1>1, <1>2 DEF Expr, Sound, Operand, Node
<1>. QED BY <1>1, <1>3, LeafKeeps

LEMMA KeepUndeclared == ASSUME IInv, Undeclared PROVE IInv'
<1>. DEFINE x == Expr("variable", Null, FALSE, Null, FALSE, FALSE)
<1>1. Sound(x)
  BY DEF Expr, Sound, Operand, Node
<1>. QED BY <1>1, LeafKeeps DEF Undeclared

LEMMA KeepUnfound == ASSUME IInv, NEW t, Unfound(t) PROVE IInv'
<1>. DEFINE x == Expr("variable", t, FALSE, Null, FALSE, FALSE)
<1>1. t \in Type /\ Reduce(0, x)
  BY DEF Unfound, Type
<1>2. Sound(x)
  BY <1>1 DEF Expr, Sound, Operand, Node
<1>. QED BY <1>1, <1>2, LeafKeeps

(* The last operands, where there are some. *)
LEMMA Last1 ==
    ASSUME IInv, operands # << >>
    PROVE  Len(operands) \in Nat /\ 1 \in 1 .. Len(operands) /\ Sound(Last(1))
<1>1. Len(operands) \in Nat /\ 1 \in 1 .. Len(operands)
  BY OperandsSound
<1>. QED BY <1>1, LastSound

LEMMA Last2 ==
    ASSUME IInv, Len(operands) >= 2
    PROVE  Sound(Last(1)) /\ Sound(Last(2))
<1>1. 1 \in 1 .. Len(operands) /\ 2 \in 1 .. Len(operands)
  BY OperandsSound
<1>. QED BY <1>1, LastSound

(* An operation on the last operand. *)
LEMMA UnaryKeeps ==
    ASSUME IInv, NEW STATE x, Sound(x), Reduce(1, x),
           Last(1).type = Null => x.type = Null
    PROVE  IInv'
BY ReduceKeeps

LEMMA KeepNot == ASSUME IInv, Not PROVE IInv'
<1>. DEFINE y == Last(1)
            t == IF y.type = "char" THEN "bool" ELSE Null
            x == Expr("other", t, y.crash, "i1", y.ok /\ y.value = "i32", FALSE)
<1>1. operands # << >> /\ Reduce(1, x)
  BY DEF Not
<1>2. Sound(y)
  BY <1>1, Last1
<1>3. t \in Type \cup {Null} /\ (y.type = Null => t = Null) /\ (y.crash => t = Null)
  BY <1>2 DEF Type, Scalar, Null, Sound
<1>4. Sound(x) /\ x.type = t
  <2>. HIDE DEF t, y
  <2>. QED BY <1>2, <1>3 DEF Expr, Sound, Operand, Node, LLVMType, LLVMInteger
<1>. QED BY <1>1, <1>3, <1>4, UnaryKeeps

LEMMA KeepMinus == ASSUME IInv, Minus PROVE IInv'
<1>. DEFINE y == Last(1)
            x == Expr("other", Null, y.crash, Null, TRUE, FALSE)
<1>1. operands # << >> /\ Reduce(1, x)
  BY DEF Minus
<1>2. Sound(y)
  BY <1>1, Last1
<1>3. Sound(x) /\ x.type = Null
  <2>. HIDE DEF y
  <2>. QED BY <1>2 DEF Expr, Sound, Operand, Node
<1>. QED BY <1>1, <1>3, UnaryKeeps

(* The checker gives an operation one of its types, and none after an      *)
(* error in an operand.                                                    *)
LEMMA CheckedType ==
    ASSUME NEW op, NEW a, NEW b
    PROVE  /\ Checked(op, a, b) \in Type \cup {Null}
           /\ a = Null \/ b = Null => Checked(op, a, b) = Null
BY DEF Checked, Type, Scalar

(* The operations that the two passes agree on. *)
LEMMA SupportedAgrees ==
    ASSUME NEW op \in Operator, NEW a \in Scalar, NEW b \in Scalar, Supported(op, a, b)
    PROVE  /\ Checked(op, a, b) \in Scalar
           /\ Result(op, LLVMTYPERET(a)) = LLVMTYPERET(Checked(op, a, b))
           /\ WellFormed(op, LLVMTYPERET(a), LLVMTYPERET(b))
<1>1. a = b /\ Null \notin {a, b}
  BY ScalarTypes DEF Supported, Type
<1>2. CASE op \in Arithmetic /\ a \in Numeric
  <2>1. op \notin Relation
    BY <1>2 DEF Arithmetic, Relation
  <2>2. Checked(op, a, b) = a
    BY <1>1, <1>2 DEF Checked, Numeric
  <2>. QED BY <1>1, <1>2, <2>1, <2>2, Lowering DEF Result, WellFormed, Numeric, LLVMInteger
<1>3. CASE op \in Division /\ a = "int"
  <2>1. op \notin Relation /\ op \notin Arithmetic
    BY <1>3 DEF Division, Relation, Arithmetic
  <2>2. Checked(op, a, b) = "int"
    BY <1>1, <1>3, <2>1 DEF Checked, Numeric, Division
  <2>. QED BY <1>1, <1>3, <2>1, <2>2, Lowering DEF Result, WellFormed, LLVMInteger
<1>4. CASE op = "OP_AND" /\ a = "bool"
  <2>1. op \notin Relation /\ op \notin Arithmetic
    BY <1>4 DEF Relation, Arithmetic
  <2>2. Checked(op, a, b) = "bool"
    BY <1>1, <1>4, <2>1 DEF Checked
  <2>. QED BY <1>1, <1>4, <2>1, <2>2, Lowering DEF Result, WellFormed, LLVMInteger
<1>5. CASE op \in Relation /\ a \in {"int", "char"}
  <2>1. op \notin Arithmetic /\ op \notin Division
    BY <1>5 DEF Relation, Arithmetic, Division
  <2>2. Checked(op, a, b) = "bool"
    BY <1>1, <1>5, <2>1 DEF Checked, Numeric, Division
  <2>. QED BY <1>1, <1>5, <2>1, <2>2, Lowering DEF Result, WellFormed, LLVMInteger, Scalar
<1>. QED BY <1>2, <1>3, <1>4, <1>5 DEF Supported

LEMMA KeepBinary == ASSUME IInv, NEW op, Binary(op) PROVE IInv'
<1>. DEFINE x == Last(2)
            y == Last(1)
            t == Checked(op, x.type, y.type)
            v == Result(op, x.value)
<1>1. op \in Operator /\ Len(operands) >= 2 /\ Reduce(2, Infix(op, x, y))
  BY DEF Binary
<1>2. Sound(x) /\ Sound(y)
  BY <1>1, Last2
<1>3. t \in Type \cup {Null} /\ (x.type = Null \/ y.type = Null => t = Null)
  BY CheckedType
<1>4. v \in LLVMType \cup {Null}
  BY <1>2 DEF Sound, Operand, Result, LLVMType, LLVMInteger
<1>5. x.supported /\ y.supported /\ Supported(op, x.type, y.type) =>
          /\ t \in Scalar /\ v = LLVMTYPERET(t)
          /\ WellFormed(op, x.value, y.value)
          /\ x.ok /\ y.ok /\ ~x.crash /\ ~y.crash
  BY <1>1, <1>2, SupportedAgrees DEF Sound
<1>6. WellFormed(op, x.value, y.value) \in BOOLEAN /\ Supported(op, x.type, y.type) \in BOOLEAN
  BY DEF WellFormed, Supported
<1>7. Infix(op, x, y) =
          Expr("other", t, x.crash \/ (x.type # Null /\ y.crash), v,
               x.ok /\ y.ok /\ WellFormed(op, x.value, y.value),
               x.supported /\ y.supported /\ Supported(op, x.type, y.type))
  BY DEF Infix
<1>8. Sound(Infix(op, x, y)) /\ Infix(op, x, y).type = t
  <2>. DEFINE c == x.crash \/ (x.type # Null /\ y.crash)
              o == x.ok /\ y.ok /\ WellFormed(op, x.value, y.value)
              u == x.supported /\ y.supported /\ Supported(op, x.type, y.type)
  <2>1. c \in BOOLEAN /\ o \in BOOLEAN /\ u \in BOOLEAN
    BY <1>2, <1>6 DEF Sound, Operand
  <2>2. c => t = Null
    BY <1>2, <1>3 DEF Sound
  <2>3. u => t \in Scalar /\ v = LLVMTYPERET(t) /\ o /\ ~c
    BY <1>5
  <2>4. Infix(op, x, y) = Expr("other", t, c, v, o, u)
    BY <1>7
  <2>. HIDE DEF c, o, u, t, v
  <2>. QED BY <1>3, <1>4, <2>1, <2>2, <2>3, <2>4 DEF Expr, Sound, Operand, Node
<1>9. \A k \in 1 .. 2 : Last(k).type = Null => Infix(op, x, y).type = Null
  <2>1. \A k \in 1 .. 2 : k = 1 \/ k = 2
    OBVIOUS
  <2>. QED BY <1>3, <1>8, <2>1
<1>. QED BY <1>1, <1>8, <1>9, ReduceKeeps

LEMMA KeepIndex == ASSUME IInv, NEW node, NEW t, Index(node, t) PROVE IInv'
<1>. DEFINE y == Last(1)
            u == IF IndexType(y.type) THEN t ELSE Null
            x == Expr("element", u, y.crash, LLVMTYPERET(t), Indexes(node, y),
                      y.supported /\ node = "variable")
<1>1. t \in Scalar /\ operands # << >> /\ Reduce(1, x)
  BY DEF Index
<1>2. Sound(y)
  BY <1>1, Last1
<1>3. u \in Type \cup {Null} /\ (y.type = Null => u = Null) /\ (u # Null => u = t /\ IndexType(y.type))
  BY <1>1 DEF Type, Null, IndexType
<1>4. y.supported /\ node = "variable" /\ u # Null => Indexes(node, y)
  BY <1>2, <1>3, Lowering DEF Sound, IndexType, Indexes, LLVMInteger
<1>5. LLVMTYPERET(t) \in LLVMType \cup {Null} /\ Indexes(node, y) \in BOOLEAN
  BY <1>1, <1>2, LoweringType DEF Type, Indexes, Sound, Operand
<1>6. Sound(x) /\ x.type = u
  <2>. DEFINE o == Indexes(node, y)
  <2>. HIDE DEF u, y, o
  <2>. QED BY <1>1, <1>2, <1>3, <1>4, <1>5 DEF Expr, Sound, Operand, Node
<1>. QED BY <1>1, <1>3, <1>6, UnaryKeeps

LEMMA KeepIndexOther == ASSUME IInv, NEW string \in BOOLEAN, IndexOther(string) PROVE IInv'
<1>. DEFINE y == Last(1)
            c == y.crash \/ (string /\ IndexType(y.type))
            x == Expr("element", Null, c, Null, FALSE, FALSE)
<1>1. operands # << >> /\ Reduce(1, x)
  BY DEF IndexOther
<1>2. c \in BOOLEAN
  BY <1>1, Last1 DEF Sound, Operand, IndexType
<1>3. Sound(x) /\ x.type = Null
  <2>. HIDE DEF c
  <2>. QED BY <1>2 DEF Expr, Sound, Operand, Node
<1>. QED BY <1>1, <1>3, UnaryKeeps

(* An argument that is passed as in Supported can be passed. *)
LEMMA PassableSound ==
    ASSUME NEW x, Sound(x), NEW p \in Scalar, NEW byVar \in BOOLEAN
    PROVE  /\ Passes(x, p, byVar) \in BOOLEAN /\ Passable(x, p, byVar) \in BOOLEAN
           /\ Passable(x, p, byVar) => /\ Passes(x, p, byVar) /\ x.type = p
                                       /\ ~x.crash /\ x.type # Null
BY Lowering, ScalarTypes DEF Passes, Passable, Sound, Operand, Node

LEMMA KeepCall ==
    ASSUME IInv, NEW p, NEW byVar, NEW t, NEW found, Call(p, byVar, t, found) PROVE IInv'
<1>. DEFINE y == Last(1)
            u == IF y.type = p THEN t ELSE Null
            c == y.crash \/ y.type = Null \/ (y.type = p /\ t = Null)
            w == IF found THEN LLVMTYPERET(t) ELSE Null
            x == Expr("other", u, c, w, found /\ Passes(y, p, byVar), found /\ Passable(y, p, byVar))
<1>1. /\ p \in Scalar /\ byVar \in BOOLEAN /\ t \in Scalar \cup {Null} /\ t \in Type \cup {Null}
      /\ found \in BOOLEAN /\ operands # << >> /\ Reduce(1, x)
  BY DEF Call, Type
<1>2. Sound(y)
  BY <1>1, Last1
<1>3. /\ Passes(y, p, byVar) \in BOOLEAN /\ Passable(y, p, byVar) \in BOOLEAN
      /\ Passable(y, p, byVar) => /\ Passes(y, p, byVar) /\ y.type = p
                                  /\ ~y.crash /\ y.type # Null
  BY <1>1, <1>2, PassableSound
<1>4. /\ u \in Type \cup {Null} /\ (y.type = Null => u = Null) /\ (c => u = Null)
      /\ c \in BOOLEAN /\ (u # Null => u = t /\ t \in Scalar)
      /\ ~y.crash /\ y.type # Null /\ u # Null => ~c
  BY <1>1, <1>2, ScalarTypes DEF Sound, Operand
<1>5. w \in LLVMType \cup {Null}
  BY <1>1, LoweringType
<1>6. Sound(x) /\ x.type = u
  <2>. DEFINE o == found /\ Passes(y, p, byVar)
              s == found /\ Passable(y, p, byVar)
              v == w
  <2>1. o \in BOOLEAN /\ s \in BOOLEAN
    BY <1>1, <1>3
  <2>2. s /\ u # Null => u \in Scalar /\ o /\ ~c /\ v = LLVMTYPERET(u)
    BY <1>1, <1>3, <1>4
  <2>3. c \in BOOLEAN /\ (c => u = Null) /\ u \in Type \cup {Null} /\ v \in LLVMType \cup {Null}
    BY <1>4, <1>5
  <2>4. x = Expr("other", u, c, v, o, s)
    OBVIOUS
  <2>. HIDE DEF u, o, s, c, v, x
  <2>. QED BY <2>1, <2>2, <2>3, <2>4 DEF Expr, Sound, Operand, Node
<1>. QED BY <1>1, <1>4, <1>6, UnaryKeeps

LEMMA KeepCallUnknown == ASSUME IInv, NEW n \in 0 .. Depth, CallUnknown(n) PROVE IInv'
<1>. DEFINE c == \E k \in 1 .. n : Last(k).crash
            x == Expr("other", Null, c, Null, FALSE, FALSE)
<1>1. Reduce(n, x)
  BY DEF CallUnknown
<1>. HIDE DEF c
<1>3. n \in Nat
  BY DepthAssumption
<1>2. Sound(x) /\ x.type = Null
  <2>1. c \in BOOLEAN
    BY DEF c
  <2>. QED BY <2>1 DEF Expr, Sound, Operand, Node
<1>4. \A k \in 1 .. n : Last(k).type = Null => x.type = Null
  BY <1>2
<1>. HIDE DEF x
<1>. QED BY <1>1, <1>2, <1>3, <1>4, ReduceKeeps
--------------------------------------------------------------------------------
(* Statements *)

(* Operands that have a type, and no error if they are all there are. *)
LEMMA OneOperand ==
    ASSUME IInv, operands # << >>
    PROVE  /\ Sound(Last(1))
           /\ Last(1).type = Null => Untyped
           /\ Len(operands) = 1 /\ Untyped => Last(1).type = Null
<1>1. Len(operands) \in Nat /\ 1 \in 1 .. Len(operands) /\ Sound(Last(1))
  BY Last1
<1>2. Last(1) = operands[Len(operands)] /\ Len(operands) \in 1 .. Len(operands)
  BY <1>1 DEF Last
<1>3. Len(operands) = 1 => \A k \in 1 .. Len(operands) : k = Len(operands)
  BY <1>1
<1>. QED BY <1>1, <1>2, <1>3 DEF Untyped

LEMMA TwoOperands ==
    ASSUME IInv, Len(operands) >= 2
    PROVE  /\ Sound(Last(1)) /\ Sound(Last(2))
           /\ Last(1).type = Null \/ Last(2).type = Null => Untyped
           /\ Len(operands) = 2 /\ Untyped => Last(1).type = Null \/ Last(2).type = Null
<1>1. Len(operands) \in Nat /\ Sound(Last(1)) /\ Sound(Last(2))
  BY OperandsSound, Last2
<1>2. /\ Last(1) = operands[Len(operands)] /\ Len(operands) \in 1 .. Len(operands)
      /\ Last(2) = operands[Len(operands) - 1] /\ Len(operands) - 1 \in 1 .. Len(operands)
  BY <1>1 DEF Last
<1>3. Len(operands) = 2 => \A k \in 1 .. Len(operands) : k = Len(operands) \/ k = Len(operands) - 1
  BY <1>1
<1>. QED BY <1>1, <1>2, <1>3 DEF Untyped

(* What a reference to an integer is stored in. *)
LEMMA SlotOf ==
    ASSUME NEW node, NEW t, node = "reference" => t = "int"
    PROVE  Slot(node, t) = LLVMTYPERET(t)
BY Lowering DEF Slot

LEMMA KeepAssign == ASSUME IInv, NEW node, NEW t, Assign(node, t) PROVE IInv'
<1>. DEFINE x == Last(1)
            o == x.ok /\ x.value = Slot(node, t) /\ ~(node = "variable" /\ t = "array")
            s == x.supported /\ (node = "reference" => t = "int")
<1>1. operands # << >> /\ node \in {"variable", "reference"}
  BY DEF Assign
<1>2. PICK legal \in SameType(t, x.type) : Verdict("assign", 1, x.crash, legal, o, s)
  BY DEF Assign
<1>3. Sound(x) /\ Len(operands) = 1 /\ (x.type = Null <=> Untyped)
  BY <1>1, <1>2, OneOperand DEF Verdict
<1>4. legal => x.type = t /\ t # "string"
  BY <1>2 DEF SameType
<1>5. t \in Type
  BY DEF Assign
<1>6. x.crash => Untyped
  BY <1>3 DEF Sound
<1>7. legal => ~Untyped
  BY <1>3, <1>4, <1>5, ScalarTypes
<1>8. legal /\ s => o
  <2>1. SUFFICES ASSUME legal, s PROVE o
    OBVIOUS
  <2>2. x.type = t /\ t \in Scalar /\ x.ok /\ x.value = LLVMTYPERET(t)
    BY <1>3, <1>4, <2>1 DEF Sound
  <2>3. Slot(node, t) = LLVMTYPERET(t)
    BY <2>1, SlotOf
  <2>. QED BY <2>2, <2>3 DEF Scalar
<1>9. s \in BOOLEAN
  BY <1>3 DEF Sound, Operand
<1>. HIDE DEF x, o, s
<1>. QED BY <1>2, <1>6, <1>7, <1>8, <1>9, VerdictKeeps

LEMMA KeepAssignConstant == ASSUME IInv, AssignConstant PROVE IInv'
<1>. DEFINE x == Last(1)
<1>1. operands # << >> /\ Verdict("assign", 1, x.crash, FALSE, FALSE, FALSE)
  BY DEF AssignConstant
<1>2. x.crash => Untyped
  BY <1>1, OneOperand DEF Sound
<1>. HIDE DEF x
<1>. QED BY <1>1, <1>2, VerdictKeeps

LEMMA KeepAssignUndeclared == ASSUME IInv, AssignUndeclared PROVE IInv'
<1>1. Verdict("assign", 1, FALSE, FALSE, FALSE, FALSE)
  BY DEF AssignUndeclared
<1>. QED BY <1>1, VerdictKeeps

LEMMA KeepAssignUnfound == ASSUME IInv, NEW t, AssignUnfound(t) PROVE IInv'
<1>. DEFINE x == Last(1)
            c == x.crash
            s == FALSE
<1>1. operands # << >> /\ t \in Type
  BY DEF AssignUnfound
<1>2. PICK legal \in SameType(t, x.type) : Verdict("assign", 1, c, legal, s, s)
  BY DEF AssignUnfound
<1>3. Sound(x) /\ (x.type = Null <=> Untyped)
  BY <1>1, <1>2, OneOperand DEF Verdict
<1>4. c => Untyped
  BY <1>3 DEF Sound
<1>5. legal => x.type = t
  BY <1>2 DEF SameType
<1>6. legal => ~Untyped
  BY <1>1, <1>3, <1>5, ScalarTypes
<1>7. s \in BOOLEAN /\ ~s
  OBVIOUS
<1>. HIDE DEF c, s
<1>. QED BY <1>2, <1>4, <1>6, <1>7, VerdictKeeps

LEMMA KeepAssignElement == ASSUME IInv, AssignElement PROVE IInv'
<1>. DEFINE e == Last(2)
            x == Last(1)
            c == e.crash \/ (e.type # Null /\ x.crash)
            l == e.type # Null /\ x.type = e.type
            o == e.ok /\ x.ok /\ x.value = e.value
            s == e.supported /\ x.supported
<1>1. Len(operands) >= 2 /\ Verdict("assign", 2, c, l, o, s)
  BY DEF AssignElement
<1>2. /\ Sound(e) /\ Sound(x)
      /\ (x.type = Null \/ e.type = Null <=> Untyped)
  BY <1>1, TwoOperands DEF Verdict
<1>3. c => Untyped
  BY <1>2 DEF Sound
<1>4. l => ~Untyped
  BY <1>2
<1>5. l /\ s => o
  BY <1>2 DEF Sound
<1>6. s \in BOOLEAN
  BY <1>2 DEF Sound, Operand
<1>. HIDE DEF c, l, o, s
<1>. QED BY <1>1, <1>3, <1>4, <1>5, <1>6, VerdictKeeps

LEMMA KeepCondition == ASSUME IInv, Condition PROVE IInv'
<1>. DEFINE x == Last(1)
            c == x.crash \/ x.type = Null
            l == x.type = "bool"
            o == x.ok /\ x.value = "i1"
            s == x.supported
<1>1. operands # << >> /\ Verdict("condition", 1, c, l, o, s)
  BY DEF Condition
<1>2. Sound(x) /\ (x.type = Null <=> Untyped)
  BY <1>1, OneOperand DEF Verdict
<1>3. c => Untyped
  BY <1>2 DEF Sound
<1>4. l => ~Untyped
  BY <1>2 DEF Null
<1>5. l /\ s => o
  BY <1>2, Lowering DEF Sound
<1>6. s \in BOOLEAN
  BY <1>2 DEF Sound, Operand
<1>. HIDE DEF c, l, o, s
<1>. QED BY <1>1, <1>3, <1>4, <1>5, <1>6, VerdictKeeps

LEMMA KeepFor == ASSUME IInv, NEW node, NEW t, For(node, t) PROVE IInv'
<1>. DEFINE x == Last(2)
            y == Last(1)
            c == \/ x.crash \/ y.crash \/ x.type = Null
                 \/ IndexType(x.type) /\ y.type = Null
            l == IndexType(x.type) /\ x.type = y.type
            o == /\ Slot(node, t) = "i32"
                 /\ x.ok /\ x.value = "i32" /\ y.ok /\ y.value = "i32"
            s == t = "int" /\ x.type = "int" /\ x.supported /\ y.supported
<1>1. Len(operands) >= 2 /\ Verdict("for", 2, c, l, o, s)
  BY DEF For
<1>2. /\ Sound(x) /\ Sound(y)
      /\ (x.type = Null \/ y.type = Null <=> Untyped)
  BY <1>1, TwoOperands DEF Verdict
<1>3. c => Untyped
  BY <1>2 DEF Sound
<1>4. l => ~Untyped
  BY <1>2 DEF IndexType, Null
<1>5. l /\ s => o
  <2>1. t = "int" => Slot(node, t) = "i32"
    BY Lowering DEF Slot
  <2>. QED BY <1>2, <2>1, Lowering DEF Sound
<1>6. s \in BOOLEAN
  BY <1>2 DEF Sound, Operand
<1>. HIDE DEF c, l, o, s
<1>. QED BY <1>1, <1>3, <1>4, <1>5, <1>6, VerdictKeeps

LEMMA KeepWrite == ASSUME IInv, Write PROVE IInv'
<1>. DEFINE all == 1 .. Len(operands)
            c == \E k \in all : operands[k].crash
            o == \A k \in all : operands[k].ok /\ operands[k].value \in {"i32", "float"}
            s == \A k \in all : operands[k].supported /\ operands[k].type \in Numeric
<1>1. Verdict("write", Len(operands), c, TRUE, o, s)
  BY DEF Write
<1>2. c => Untyped
  BY OperandsSound DEF Sound, Untyped
<1>3. s => o
  BY OperandsSound, Lowering DEF Sound, Numeric
<1>4. s \in BOOLEAN
  OBVIOUS
<1>. HIDE DEF c, o, s
<1>. QED BY <1>1, <1>2, <1>3, <1>4, VerdictKeeps

LEMMA KeepCallStmPlain == ASSUME IInv, NEW found, CallStmPlain(found) PROVE IInv'
<1>1. found \in BOOLEAN /\ Len(operands) = 0 /\ Verdict("callstm", 0, FALSE, TRUE, found, found)
  BY DEF CallStmPlain, Verdict
<1>2. ~Untyped
  BY <1>1 DEF Untyped
<1>. QED BY <1>1, <1>2, VerdictKeeps

LEMMA KeepCallStm ==
    ASSUME IInv, NEW p, NEW byVar, NEW found, CallStm(p, byVar, found) PROVE IInv'
<1>. DEFINE x == Last(1)
            c == x.crash \/ x.type = Null
            l == x.type = p
            o == found /\ Passes(x, p, byVar)
            s == found /\ Passable(x, p, byVar)
<1>1. /\ operands # << >> /\ p \in Scalar /\ byVar \in BOOLEAN /\ found \in BOOLEAN
      /\ Verdict("callstm", 1, c, l, o, s)
  BY DEF CallStm
<1>2. Sound(x) /\ (x.type = Null <=> Untyped)
  BY <1>1, OneOperand DEF Verdict
<1>3. c => Untyped
  BY <1>2 DEF Sound
<1>4. l => ~Untyped
  BY <1>1, <1>2, ScalarTypes
<1>5. (s => o) /\ s \in BOOLEAN
  BY <1>1, <1>2, PassableSound
<1>. HIDE DEF c, l, o, s
<1>. QED BY <1>1, <1>3, <1>4, <1>5, VerdictKeeps

LEMMA KeepCallStmUnknown == ASSUME IInv, CallStmUnknown PROVE IInv'
<1>. DEFINE c == \E k \in 1 .. Len(operands) : operands[k].crash
<1>1. Verdict("callstm", Len(operands), c, FALSE, FALSE, FALSE)
  BY DEF CallStmUnknown
<1>2. c => Untyped
  BY OperandsSound DEF Sound, Untyped
<1>. HIDE DEF c
<1>. QED BY <1>1, <1>2, VerdictKeeps
--------------------------------------------------------------------------------
LEMMA InitInv == Init => IInv
<1>1. SUFFICES ASSUME Init PROVE IInv
  OBVIOUS
<1>2. operands = << >> /\ operands \in Seq(Operand) /\ Len(operands) = 0
  BY <1>1 DEF Init
<1>3. TypeOK
  <2>1. /\ phase = "checking" /\ stmt = "none"
        /\ errors \in BOOLEAN /\ supported \in BOOLEAN
    BY <1>1 DEF Init
  <2>2. Len(operands) <= Depth
    BY <1>2, DepthAssumption
  <2>. QED BY <1>2, <2>1, <2>2 DEF TypeOK
<1>4. Agreement /\ ErrorShows
  BY <1>1, <1>2 DEF Init, Agreement, ErrorShows
<1>5. AcceptedCompiles /\ ErrorsStop /\ CrashNeedsError
  BY <1>1 DEF Init, AcceptedCompiles, ErrorsStop, CrashNeedsError
<1>. QED BY <1>3, <1>4, <1>5 DEF IInv

LEMMA ExpressionKeeps == ASSUME IInv, Expression PROVE IInv'
<1>1. CASE \E t \in Type : Constant(t) \/ Variable(t) \/ Reference(t) \/ Unfound(t)
  BY <1>1, KeepConstant, KeepVariable, KeepReference, KeepUnfound
<1>2. CASE Undeclared \/ Not \/ Minus
  BY <1>2, KeepUndeclared, KeepNot, KeepMinus
<1>3. CASE \E op \in Operator : Binary(op)
  BY <1>3, KeepBinary
<1>4. CASE \E node \in Node, t \in Scalar : Index(node, t)
  BY <1>4, KeepIndex
<1>5. CASE \E string \in BOOLEAN : IndexOther(string)
  BY <1>5, KeepIndexOther
<1>6. CASE \E p \in Scalar, t \in Scalar \cup {Null}, byVar, found \in BOOLEAN : Call(p, byVar, t, found)
  BY <1>6, KeepCall
<1>7. CASE \E n \in 0 .. Depth : CallUnknown(n)
  BY <1>7, KeepCallUnknown
<1>. QED BY <1>1, <1>2, <1>3, <1>4, <1>5, <1>6, <1>7 DEF Expression

LEMMA StatementKeeps == ASSUME IInv, Statement PROVE IInv'
<1>1. CASE \/ \E node \in Node, t \in Type : Assign(node, t)
           \/ \E node \in Node, t \in Type \cup {Null} : For(node, t)
  BY <1>1, KeepAssign, KeepFor
<1>2. CASE \/ \E t \in Type : AssignUnfound(t)
           \/ AssignUndeclared \/ AssignConstant \/ AssignElement \/ Condition \/ Write
  BY <1>2, KeepAssignUnfound, KeepAssignUndeclared, KeepAssignConstant, KeepAssignElement, KeepCondition, KeepWrite
<1>3. CASE \E p \in Scalar, byVar, found \in BOOLEAN : CallStm(p, byVar, found)
  BY <1>3, KeepCallStm
<1>4. CASE (\E found \in BOOLEAN : CallStmPlain(found)) \/ CallStmUnknown
  BY <1>4, KeepCallStmPlain, KeepCallStmUnknown
<1>. QED BY <1>1, <1>2, <1>3, <1>4 DEF Statement

(* A step of either pass keeps the invariant. *)
LEMMA StepKeeps == IInv /\ [Next]_vars => IInv'
<1>1. SUFFICES ASSUME IInv, [Next]_vars PROVE IInv'
  OBVIOUS
<1>2. CASE UNCHANGED vars
  <2>1. /\ UNCHANGED <<operands, phase, stmt, errors, supported>>
        /\ TypeOK /\ Agreement /\ AcceptedCompiles /\ ErrorsStop /\ CrashNeedsError /\ ErrorShows
    BY <1>1, <1>2 DEF IInv, vars
  <2>2. TypeOK' /\ Agreement'
    BY <2>1 DEF TypeOK, Agreement
  <2>3. AcceptedCompiles' /\ ErrorsStop' /\ CrashNeedsError'
    BY <2>1 DEF AcceptedCompiles, ErrorsStop, CrashNeedsError
  <2>4. ErrorShows'
    BY <2>1 DEF ErrorShows, Checking
  <2>. QED BY <2>2, <2>3, <2>4 DEF IInv
<1>. QED BY <1>1, <1>2, ExpressionKeeps, StatementKeeps DEF Next, Stopped

(* The state stays well formed, and errors show in the operands that wait  *)
(* for as long as the checker is at work on the statement.                 *)
THEOREM Invariant == Spec => []IInv
BY InitInv, StepKeeps, PTL DEF Spec

THEOREM TypesOK == Spec => []TypeOK
<1>1. IInv => TypeOK
  BY DEF IInv
<1>. QED BY <1>1, Invariant, PTL

(* The code of an expression that keeps to Supported has the LLVM type of  *)
(* the type that the checker gives it, however deep it is.                 *)
THEOREM PassesAgree == Spec => []Agreement
<1>1. IInv => Agreement
  BY DEF IInv
<1>. QED BY <1>1, Invariant, PTL

(* Code can be generated for every accepted statement that keeps to        *)
(* Supported.                                                              *)
THEOREM SupportedCompiles == Spec => []AcceptedCompiles
<1>1. IInv => AcceptedCompiles
  BY DEF IInv
<1>. QED BY <1>1, Invariant, PTL

(* No error is lost before code generation but in an argument of write.    *)
THEOREM NoErrorLost == Spec => []ErrorsStop
<1>1. IInv => ErrorsStop
  BY DEF IInv
<1>. QED BY <1>1, Invariant, PTL

(* The checker follows a null pointer only if the program has an error, a  *)
(* procedure in an expression, or an indexed string.                       *)
THEOREM CrashAfterError == Spec => []CrashNeedsError
<1>1. IInv => CrashNeedsError
  BY DEF IInv
<1>. QED BY <1>1, Invariant, PTL

(* An error shows in the operands that wait until the verdict. *)
THEOREM ErrorsShow == Spec => []ErrorShows
<1>1. IInv => ErrorShows
  BY DEF IInv
<1>. QED BY <1>1, Invariant, PTL
================================================================================
