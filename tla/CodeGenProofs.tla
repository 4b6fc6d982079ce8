----------------------------- MODULE CodeGenProofs -----------------------------
(***************************************************************************)
(* First the types of CodeGen, then IInv, an inductive invariant.  A step  *)
(* of a handler does two things: it completes open blocks (Emit) and it    *)
(* moves frames, so the proof has lemmas about each and puts them together *)
(* per action.  Then what a function leaves on the stack of blocks, that   *)
(* control comes to every block of a function from its entry, how often    *)
(* each statement of a body is generated, and last that the code, executed *)
(* as Exec does, runs the statements of the source.                        *)
(***************************************************************************)
EXTENDS Exec, SequenceTheorems, FiniteSetTheorems, WellFoundedInduction, TLAPS

(* More blocks make more instructions, frames and sequences of them. *)
LEMMA InstrMonotonic ==
    ASSUME NEW A, NEW B, A \subseteq B
    PROVE  Instr(A) \subseteq Instr(B)
  BY DEF Instr

LEMMA InstrType ==
    ASSUME NEW B
    PROVE  /\ Ret \in Instr(B)
           /\ \A b \in B : Br(b) \in Instr(B)
           /\ \A id \in Id : /\ Do(id) \in Instr(B)
                             /\ InitVar(id) \in Instr(B)
                             /\ StepVar(id) \in Instr(B)
                             /\ \A y \in B, n \in B : CondBr(id, y, n) \in Instr(B)
  BY DEF Ret, Br, Do, InitVar, StepVar, CondBr, Instr

LEMMA FrameMonotonic ==
    ASSUME NEW A, NEW B, NEW F, NEW G, A \subseteq B, F \subseteq G
    PROVE  Frame(A, F) \subseteq Frame(B, G)
  BY DEF Frame

LEMMA SeqSubset ==
    ASSUME NEW A, NEW B, A \subseteq B, NEW s \in Seq(A)
    PROVE  s \in Seq(B)
  OBVIOUS

LEMMA FnsMonotonic ==
    ASSUME NEW A, NEW B, A \subseteq B
    PROVE  Seq([entry : A, body : Seq(Stm)]) \subseteq Seq([entry : B, body : Seq(Stm)])
<1>. DEFINE R == [entry : A, body : Seq(Stm)]
            T == [entry : B, body : Seq(Stm)]
<1>1. R \subseteq T
  OBVIOUS
<1>. HIDE DEF R, T
<1>2. ASSUME NEW s \in Seq(R) PROVE s \in Seq(T)
  BY <1>1, SeqSubset
<1>. QED BY <1>2 DEF R, T

LEMMA ConcatOne ==
    ASSUME NEW S, NEW s \in Seq(S), NEW x \in S
    PROVE  /\ s \o <<x>> \in Seq(S)
           /\ Len(s \o <<x>>) = Len(s) + 1
           /\ \A i \in 1 .. Len(s) : (s \o <<x>>)[i] = s[i]
           /\ (s \o <<x>>)[Len(s) + 1] = x
  OBVIOUS

LEMMA ConcatTwo ==
    ASSUME NEW S, NEW s \in Seq(S), NEW x \in S, NEW y \in S
    PROVE  /\ s \o <<x, y>> \in Seq(S)
           /\ Len(s \o <<x, y>>) = Len(s) + 2
           /\ \A i \in 1 .. Len(s) : (s \o <<x, y>>)[i] = s[i]
           /\ (s \o <<x, y>>)[Len(s) + 1] = x
           /\ (s \o <<x, y>>)[Len(s) + 2] = y
  OBVIOUS

LEMMA ExceptLast ==
    ASSUME NEW S, NEW s \in Seq(S), s # << >>, NEW x \in S
    PROVE  /\ [s EXCEPT ![Len(s)] = x] \in Seq(S)
           /\ Len([s EXCEPT ![Len(s)] = x]) = Len(s)
           /\ \A i \in 1 .. Len(s) - 1 : [s EXCEPT ![Len(s)] = x][i] = s[i]
           /\ [s EXCEPT ![Len(s)] = x][Len(s)] = x
  OBVIOUS

LEMMA Prefix ==
    ASSUME NEW S, NEW s \in Seq(S), NEW k \in 0 .. Len(s)
    PROVE  /\ SubSeq(s, 1, k) \in Seq(S)
           /\ Len(SubSeq(s, 1, k)) = k
           /\ \A i \in 1 .. k : SubSeq(s, 1, k)[i] = s[i]
  OBVIOUS
--------------------------------------------------------------------------------
(* What Emit does to a well-typed module. *)

NewBlocks(n) == nblk + 1 .. nblk + n

LEMMA EmitType ==
    ASSUME TypeOK, NEW n \in Nat, NEW STATE fn, NEW STATE out, Emit(n, fn, out),
           Fn \subseteq Fn', fn \in Fn',
           DOMAIN out \subseteq Block \cup NewBlocks(n),
           \A b \in DOMAIN out : out[b] \in Seq(Instr(1 .. nblk + n))
    PROVE  /\ nblk' = nblk + n
           /\ nblk' \in Nat
           /\ Block' = Block \cup NewBlocks(n)
           /\ Block \subseteq Block'
           /\ code' \in [Block' -> Seq(Instr(Block'))]
           /\ owner' \in [Block' -> Fn']
<1>1. /\ nblk' = nblk + n /\ nblk' \in Nat
      /\ Block' = 1 .. nblk + n
      /\ Block' = Block \cup NewBlocks(n)
      /\ Block \subseteq Block'
  BY DEF TypeOK, Emit, Block, NewBlocks
<1>2. \A b \in Block' : Old(b) \in Seq(Instr(Block'))
  <2>1. Instr(Block) \subseteq Instr(Block')
    BY <1>1, InstrMonotonic
  <2>2. \A b \in Block : code[b] \in Seq(Instr(Block'))
    BY <2>1, SeqSubset DEF TypeOK
  <2>. QED BY <2>2 DEF Old
<1>3. code' \in [Block' -> Seq(Instr(Block'))]
  <2>1. \A b \in Block' :
           (IF b \in DOMAIN out THEN Old(b) \o out[b] ELSE Old(b)) \in Seq(Instr(Block'))
    BY <1>1, <1>2, ConcatProperties
  <2>. QED BY <1>1, <2>1 DEF Emit
<1>4. owner' \in [Block' -> Fn']
  BY <1>1 DEF Emit, TypeOK
<1>. QED BY <1>1, <1>3, <1>4
--------------------------------------------------------------------------------
(* The frames of a well-typed state, and what the actions make of `calls'. *)

LEMMA HereType ==
    ASSUME TypeOK, Running
    PROVE  /\ Len(calls) \in 1 .. Len(calls)
           /\ Here \in Frame(Block, Fn)
           /\ Here.kind = "body"   => Here.rest \in Seq(Stm)
           /\ Here.kind = "funcs"  => Here.defs \in Seq(FuncDef)
           /\ Here.kind = "then"   => Here.node \in Stm /\ Here.no \in Block /\ Here.merge \in Block
           /\ Here.kind = "else"   => Here.merge \in Block
           /\ Here.kind = "while"  => Here.start \in Block /\ Here.exit \in Block
           /\ Here.kind = "repeat" => Here.node \in Stm /\ Here.loop \in Block
           /\ Here.kind = "for"    => Here.node \in Stm /\ Here.start \in Block /\ Here.exit \in Block
           /\ Here.kind = "func"   => Here.blk \in Block /\ Here.fn \in Fn
<1>1. Len(calls) \in 1 .. Len(calls) /\ Here \in Frame(Block, Fn)
  BY DEF TypeOK, Running, Here
<1>. QED BY <1>1 DEF Frame

LEMMA StmtType ==
    ASSUME TypeOK, NEW K, AtStatement(K)
    PROVE  /\ Stmt \in Stm
           /\ Stmt.id \in Id /\ Stmt.body \in Seq(Stm) /\ Stmt.alt \in Seq(Stm)
           /\ Rest.kind = "body" /\ Rest \in Frame(Block, Fn)
  BY HereType, StmAssumption DEF AtStatement, Stmt, Rest, BodyFrame, Frame

LEMMA TopType ==
    ASSUME TypeOK, stack # << >>
    PROVE  Top \in Block
  BY DEF TypeOK, Top

(* A handler goes on as x and enters y, which enters z. *)
LEMMA CallsPushed ==
    ASSUME NEW F, NEW c \in Seq(F), c # << >>, NEW x \in F, NEW y \in F, NEW z \in F
    PROVE  LET d == [c EXCEPT ![Len(c)] = x] \o <<y, z>> IN
           /\ d \in Seq(F)
           /\ Len(d) = Len(c) + 2
           /\ \A i \in 1 .. Len(c) - 1 : d[i] = c[i]
           /\ d[Len(c)] = x
           /\ d[Len(c) + 1] = y
           /\ d[Len(c) + 2] = z
  OBVIOUS

(* A handler goes on as x and enters y. *)
LEMMA CallsCalled ==
    ASSUME NEW F, NEW c \in Seq(F), c # << >>, NEW x \in F, NEW y \in F
    PROVE  LET d == Append([c EXCEPT ![Len(c)] = x], y) IN
           /\ d \in Seq(F)
           /\ Len(d) = Len(c) + 1
           /\ \A i \in 1 .. Len(c) - 1 : d[i] = c[i]
           /\ d[Len(c)] = x
           /\ d[Len(c) + 1] = y
  OBVIOUS
--------------------------------------------------------------------------------
(* Type correctness *)

TypeInv == TypeOK /\ (status = "running" => stack # << >>)

(* What is left to prove of TypeInv' for a step that only emits code for   *)
(* functions that exist and moves from frame to frame.                     *)
LEMMA TypeLowering ==
    ASSUME TypeInv, Running, NEW n \in Nat, NEW STATE out,
           Emit(n, curFn, out), fns' = fns, curFn' = curFn, status' = status,
           DOMAIN out \subseteq Block \cup NewBlocks(n),
           \A b \in DOMAIN out : out[b] \in Seq(Instr(1 .. nblk + n)),
           stack' \in Seq(1 .. nblk + n), stack' # << >>,
           calls' \in Seq(Frame(1 .. nblk + n, Fn))
    PROVE  TypeInv'
<1>1. Fn' = Fn /\ curFn \in Fn'
  BY DEF Fn, TypeInv, TypeOK
<1>2. /\ nblk' \in Nat
      /\ nblk' = nblk + n
      /\ Block \subseteq Block'
      /\ code' \in [Block' -> Seq(Instr(Block'))]
      /\ owner' \in [Block' -> Fn']
  BY <1>1, EmitType DEF TypeInv
<1>3. Block' = 1 .. nblk + n
  BY <1>2 DEF Block
<1>4. fns' \in Seq([entry : Block', body : Seq(Stm)])
  BY <1>2, FnsMonotonic DEF TypeInv, TypeOK
<1>5. stack' \in Seq(Block') /\ calls' \in Seq(Frame(Block', Fn'))
  BY <1>1, <1>3
<1>6. curFn' \in Fn' /\ status' \in {"running", "done", "aborted"}
  BY <1>1 DEF TypeInv, TypeOK
<1>. QED BY <1>2, <1>4, <1>5, <1>6 DEF TypeInv, TypeOK

THEOREM TypeInit == Init => TypeInv
<1>1. SUFFICES ASSUME Init PROVE TypeInv
  OBVIOUS
<1>2. PICK p \in Program : /\ calls = <<BodyFrame(p.body), FuncsFrame(p.funcs)>>
                           /\ fns = <<[entry |-> 1, body |-> p.body]>>
  BY <1>1 DEF Init
<1>3. /\ p.body \in Seq(Stm) /\ p.funcs \in Seq(FuncDef)
  BY ProgramAssumption
<1>4. Block = {1} /\ Fn = {1} /\ 1 \in Block
  BY <1>1, <1>2 DEF Init, Block, Fn
<1>5. fns \in Seq([entry : Block, body : Seq(Stm)])
  BY <1>2, <1>3, <1>4
<1>6. calls \in Seq(Frame(Block, Fn))
  <2>1. BodyFrame(p.body) \in Frame(Block, Fn) /\ FuncsFrame(p.funcs) \in Frame(Block, Fn)
    BY <1>3 DEF BodyFrame, FuncsFrame, Frame
  <2>. QED BY <1>2, <2>1
<1>7. code \in [Block -> Seq(Instr(Block))] /\ owner \in [Block -> Fn]
  BY <1>1, <1>4 DEF Init
<1>8. stack \in Seq(Block) /\ stack # << >>
  BY <1>1, <1>4 DEF Init
<1>. QED BY <1>1, <1>4, <1>5, <1>6, <1>7, <1>8 DEF Init, TypeInv, TypeOK

(* The pieces of a step: the blocks that may be pushed, the frames. *)
LEMMA Pieces ==
    ASSUME TypeInv, status = "running", calls # << >>, NEW n \in Nat
    PROVE  /\ Running /\ TypeOK /\ stack # << >> /\ Top \in Block
           /\ Block \subseteq 1 .. nblk + n
           /\ stack \in Seq(1 .. nblk + n)
           /\ Frame(Block, Fn) \subseteq Frame(1 .. nblk + n, Fn)
           /\ calls \in Seq(Frame(1 .. nblk + n, Fn))
<1>1. /\ Running /\ TypeOK /\ stack # << >> /\ Top \in Block
      /\ Block \subseteq 1 .. nblk + n
  BY TopType DEF Running, TypeInv, TypeOK, Block
<1>2. stack \in Seq(1 .. nblk + n)
  BY <1>1, SeqSubset DEF TypeOK
<1>4. Frame(Block, Fn) \subseteq Frame(1 .. nblk + n, Fn)
  BY <1>1, FrameMonotonic
<1>5. calls \in Seq(Frame(1 .. nblk + n, Fn))
  BY <1>1, <1>4, SeqSubset DEF TypeOK
<1>. QED BY <1>1, <1>2, <1>4, <1>5

LEMMA TypeSimple == TypeInv /\ EmitSimple => TypeInv'
<1>. SUFFICES ASSUME TypeInv, EmitSimple PROVE TypeInv'
  OBVIOUS
<1>. DEFINE out == In(Top, <<Do(Stmt.id)>>)
            F == Frame(1 .. nblk + 0, Fn)
<1>1. /\ Running /\ TypeOK /\ stack # << >> /\ Top \in Block
      /\ calls \in Seq(F) /\ Rest \in F
  BY Pieces, StmtType DEF EmitSimple, AtStatement, Running
<1>2. /\ DOMAIN out \subseteq Block \cup NewBlocks(0)
      /\ \A b \in DOMAIN out : out[b] \in Seq(Instr(1 .. nblk + 0))
  BY <1>1, StmtType DEF EmitSimple, Do, Instr, In
<1>3. stack' \in Seq(1 .. nblk + 0) /\ stack' # << >>
  BY <1>1 DEF EmitSimple, TypeOK, Block
<1>4. calls' \in Seq(F)
  BY <1>1, ExceptLast DEF EmitSimple, Become, Running
<1>. QED BY <1>1, <1>2, <1>3, <1>4, TypeLowering DEF EmitSimple

LEMMA TypeIf == TypeInv /\ BeginIf => TypeInv'
<1>. SUFFICES ASSUME TypeInv, BeginIf PROVE TypeInv'
  OBVIOUS
<1>. DEFINE out == In(Top, <<CondBr(Stmt.id, nblk + 1, nblk + 2)>>)
            F == Frame(1 .. nblk + 3, Fn)
            inner == ThenFrame(Stmt, nblk + 2, nblk + 3)
<1>1. /\ Running /\ TypeOK /\ stack # << >> /\ Top \in Block /\ nblk \in Nat
      /\ Block \subseteq 1 .. nblk + 3
      /\ stack \in Seq(1 .. nblk + 3)
      /\ calls \in Seq(F) /\ Rest \in F
  BY Pieces, StmtType DEF BeginIf, AtStatement, Running, TypeOK
<1>2. /\ DOMAIN out \subseteq Block \cup NewBlocks(3)
      /\ \A b \in DOMAIN out : out[b] \in Seq(Instr(1 .. nblk + 3))
  BY <1>1, StmtType DEF BeginIf, NewBlocks, CondBr, In, Instr
<1>3. stack' \in Seq(1 .. nblk + 3) /\ stack' # << >>
  <2>1. stack' = Append(stack, nblk + 1) /\ nblk + 1 \in 1 .. nblk + 3
    BY <1>1 DEF BeginIf
  <2>. QED BY <1>1, <2>1
<1>4. calls' \in Seq(F)
  <2>1. inner \in F /\ BodyFrame(Stmt.body) \in F
    BY <1>1, StmtType DEF BeginIf, ThenFrame, BodyFrame, Frame
  <2>. QED BY <1>1, <2>1, CallsPushed DEF BeginIf, Running
<1>. QED BY <1>1, <1>2, <1>3, <1>4, TypeLowering DEF BeginIf

LEMMA TypeWhile == TypeInv /\ BeginWhile => TypeInv'
<1>. SUFFICES ASSUME TypeInv, BeginWhile PROVE TypeInv'
  OBVIOUS
<1>. DEFINE out == InTwo(Top, <<Br(nblk + 1)>>, nblk + 1, <<CondBr(Stmt.id, nblk + 2, nblk + 3)>>)
            F == Frame(1 .. nblk + 3, Fn)
            inner == WhileFrame(nblk + 1, nblk + 3)
<1>1. /\ Running /\ TypeOK /\ stack # << >> /\ Top \in Block /\ nblk \in Nat
      /\ Block \subseteq 1 .. nblk + 3
      /\ stack \in Seq(1 .. nblk + 3)
      /\ calls \in Seq(F) /\ Rest \in F
  BY Pieces, StmtType DEF BeginWhile, AtStatement, Running, TypeOK
<1>2. /\ DOMAIN out \subseteq Block \cup NewBlocks(3)
      /\ \A b \in DOMAIN out : out[b] \in Seq(Instr(1 .. nblk + 3))
  <2>1. /\ <<Br(nblk + 1)>> \in Seq(Instr(1 .. nblk + 3))
        /\ <<CondBr(Stmt.id, nblk + 2, nblk + 3)>> \in Seq(Instr(1 .. nblk + 3))
    BY <1>1, StmtType DEF BeginWhile, Br, CondBr, Instr
  <2>2. DOMAIN out = {Top, nblk + 1} /\ nblk + 1 \in NewBlocks(3)
    BY <1>1 DEF InTwo, NewBlocks
  <2>3. \A b \in {Top, nblk + 1} : out[b] \in Seq(Instr(1 .. nblk + 3))
    BY <2>1 DEF InTwo
  <2>. QED BY <1>1, <2>2, <2>3
<1>3. stack' \in Seq(1 .. nblk + 3) /\ stack' # << >>
  <2>1. stack' = Append(stack, nblk + 2) /\ nblk + 2 \in 1 .. nblk + 3
    BY <1>1 DEF BeginWhile
  <2>. QED BY <1>1, <2>1
<1>4. calls' \in Seq(F)
  <2>1. inner \in F /\ BodyFrame(Stmt.body) \in F
    BY <1>1, StmtType DEF BeginWhile, WhileFrame, BodyFrame, Frame
  <2>. QED BY <1>1, <2>1, CallsPushed DEF BeginWhile, Running
<1>. QED BY <1>1, <1>2, <1>3, <1>4, TypeLowering DEF BeginWhile

LEMMA TypeRepeat == TypeInv /\ BeginRepeat => TypeInv'
<1>. SUFFICES ASSUME TypeInv, BeginRepeat PROVE TypeInv'
  OBVIOUS
<1>. DEFINE out == In(Top, <<Br(nblk + 1)>>)
            F == Frame(1 .. nblk + 1, Fn)
            inner == RepeatFrame(Stmt, nblk + 1)
<1>1. /\ Running /\ TypeOK /\ stack # << >> /\ Top \in Block /\ nblk \in Nat
      /\ Block \subseteq 1 .. nblk + 1
      /\ stack \in Seq(1 .. nblk + 1)
      /\ calls \in Seq(F) /\ Rest \in F
  BY Pieces, StmtType DEF BeginRepeat, AtStatement, Running, TypeOK
<1>2. /\ DOMAIN out \subseteq Block \cup NewBlocks(1)
      /\ \A b \in DOMAIN out : out[b] \in Seq(Instr(1 .. nblk + 1))
  BY <1>1, StmtType DEF BeginRepeat, NewBlocks, Br, In, Instr
<1>3. stack' \in Seq(1 .. nblk + 1) /\ stack' # << >>
  <2>1. stack' = Append(stack, nblk + 1) /\ nblk + 1 \in 1 .. nblk + 1
    BY <1>1 DEF BeginRepeat
  <2>. QED BY <1>1, <2>1
<1>4. calls' \in Seq(F)
  <2>1. inner \in F /\ BodyFrame(Stmt.body) \in F
    BY <1>1, StmtType DEF BeginRepeat, RepeatFrame, BodyFrame, Frame
  <2>. QED BY <1>1, <2>1, CallsPushed DEF BeginRepeat, Running
<1>. QED BY <1>1, <1>2, <1>3, <1>4, TypeLowering DEF BeginRepeat

LEMMA TypeFor == TypeInv /\ BeginFor => TypeInv'
<1>. SUFFICES ASSUME TypeInv, BeginFor PROVE TypeInv'
  OBVIOUS
<1>. DEFINE out == InTwo(Top, <<InitVar(Stmt.id), Br(nblk + 1)>>,
                         nblk + 1, <<CondBr(Stmt.id, nblk + 3, nblk + 2)>>)
            F == Frame(1 .. nblk + 3, Fn)
            inner == ForFrame(Stmt, nblk + 1, nblk + 3)
<1>1. /\ Running /\ TypeOK /\ stack # << >> /\ Top \in Block /\ nblk \in Nat
      /\ Block \subseteq 1 .. nblk + 3
      /\ stack \in Seq(1 .. nblk + 3)
      /\ calls \in Seq(F) /\ Rest \in F
  BY Pieces, StmtType DEF BeginFor, AtStatement, Running, TypeOK
<1>2. /\ DOMAIN out \subseteq Block \cup NewBlocks(3)
      /\ \A b \in DOMAIN out : out[b] \in Seq(Instr(1 .. nblk + 3))
  <2>1. /\ <<InitVar(Stmt.id), Br(nblk + 1)>> \in Seq(Instr(1 .. nblk + 3))
        /\ <<CondBr(Stmt.id, nblk + 3, nblk + 2)>> \in Seq(Instr(1 .. nblk + 3))
    BY <1>1, StmtType DEF BeginFor, InitVar, Br, CondBr, Instr
  <2>2. DOMAIN out = {Top, nblk + 1} /\ nblk + 1 \in NewBlocks(3)
    BY <1>1 DEF InTwo, NewBlocks
  <2>3. \A b \in {Top, nblk + 1} : out[b] \in Seq(Instr(1 .. nblk + 3))
    BY <2>1 DEF InTwo
  <2>. QED BY <1>1, <2>2, <2>3
<1>3. stack' \in Seq(1 .. nblk + 3) /\ stack' # << >>
  <2>1. stack' = Append(stack, nblk + 2) /\ nblk + 2 \in 1 .. nblk + 3
    BY <1>1 DEF BeginFor
  <2>. QED BY <1>1, <2>1
<1>4. calls' \in Seq(F)
  <2>1. inner \in F /\ BodyFrame(Stmt.body) \in F
    BY <1>1, StmtType DEF BeginFor, ForFrame, BodyFrame, Frame
  <2>. QED BY <1>1, <2>1, CallsPushed DEF BeginFor, Running
<1>. QED BY <1>1, <1>2, <1>3, <1>4, TypeLowering DEF BeginFor

LEMMA TypeThen == TypeInv /\ EndThen => TypeInv'
<1>. SUFFICES ASSUME TypeInv, EndThen PROVE TypeInv'
  OBVIOUS
<1>. DEFINE out == In(Top, <<Br(Here.merge)>>)
            F == Frame(1 .. nblk + 0, Fn)
<1>1. /\ Running /\ TypeOK /\ stack # << >> /\ Top \in Block /\ nblk \in Nat
      /\ Block \subseteq 1 .. nblk + 0
      /\ stack \in Seq(1 .. nblk + 0)
      /\ calls \in Seq(F)
  BY Pieces DEF EndThen, Running, TypeOK
<1>2. Here.merge \in Block /\ Here.no \in Block /\ Here.node \in Stm
  BY <1>1, HereType, StmAssumption DEF EndThen
<1>3. /\ DOMAIN out \subseteq Block \cup NewBlocks(0)
      /\ \A b \in DOMAIN out : out[b] \in Seq(Instr(1 .. nblk + 0))
  <2>1. Br(Here.merge) \in Instr(1 .. nblk + 0)
    BY <1>1, <1>2, InstrType
  <2>2. <<Br(Here.merge)>> \in Seq(Instr(1 .. nblk + 0))
    BY <2>1
  <2>. QED BY <1>1, <2>2 DEF In
<1>4. stack' \in Seq(1 .. nblk + 0) /\ stack' # << >>
  <2>1. stack' = ReplaceTop(Here.no) /\ Here.no \in 1 .. nblk + 0
    BY <1>1, <1>2 DEF EndThen
  <2>. QED BY <1>1, <2>1 DEF ReplaceTop
<1>5. calls' \in Seq(F)
  <2>1. ElseFrame(Here.merge) \in F /\ BodyFrame(Here.node.alt) \in F
    BY <1>1, <1>2, StmAssumption DEF ElseFrame, BodyFrame, Frame
  <2>. QED BY <1>1, <2>1, CallsCalled DEF EndThen, BecomeAndCall, Running
<1>. QED BY <1>1, <1>3, <1>4, <1>5, TypeLowering DEF EndThen

LEMMA TypeElse == TypeInv /\ EndElse => TypeInv'
<1>. SUFFICES ASSUME TypeInv, EndElse PROVE TypeInv'
  OBVIOUS
<1>. DEFINE out == In(Top, <<Br(Here.merge)>>)
            F == Frame(1 .. nblk + 0, Fn)
<1>1. /\ Running /\ TypeOK /\ stack # << >> /\ Top \in Block /\ nblk \in Nat
      /\ Block \subseteq 1 .. nblk + 0
      /\ stack \in Seq(1 .. nblk + 0)
      /\ calls \in Seq(F)
  BY Pieces DEF EndElse, Running, TypeOK
<1>2. Here.merge \in Block
  BY <1>1, HereType, StmAssumption DEF EndElse
<1>3. /\ DOMAIN out \subseteq Block \cup NewBlocks(0)
      /\ \A b \in DOMAIN out : out[b] \in Seq(Instr(1 .. nblk + 0))
  <2>1. Br(Here.merge) \in Instr(1 .. nblk + 0)
    BY <1>1, <1>2, InstrType
  <2>2. <<Br(Here.merge)>> \in Seq(Instr(1 .. nblk + 0))
    BY <2>1
  <2>. QED BY <1>1, <2>2 DEF In
<1>4. stack' \in Seq(1 .. nblk + 0) /\ stack' # << >>
  <2>1. stack' = ReplaceTop(Here.merge) /\ Here.merge \in 1 .. nblk + 0
    BY <1>1, <1>2 DEF EndElse
  <2>. QED BY <1>1, <2>1 DEF ReplaceTop
<1>5. calls' \in Seq(F)
  BY <1>1, Prefix DEF EndElse, Return, Running
<1>. QED BY <1>1, <1>3, <1>4, <1>5, TypeLowering DEF EndElse

LEMMA TypeEndWhile == TypeInv /\ EndWhile => TypeInv'
<1>. SUFFICES ASSUME TypeInv, EndWhile PROVE TypeInv'
  OBVIOUS
<1>. DEFINE out == In(Top, <<Br(Here.start)>>)
            F == Frame(1 .. nblk + 0, Fn)
<1>1. /\ Running /\ TypeOK /\ stack # << >> /\ Top \in Block /\ nblk \in Nat
      /\ Block \subseteq 1 .. nblk + 0
      /\ stack \in Seq(1 .. nblk + 0)
      /\ calls \in Seq(F)
  BY Pieces DEF EndWhile, Running, TypeOK
<1>2. Here.start \in Block /\ Here.exit \in Block
  BY <1>1, HereType, StmAssumption DEF EndWhile
<1>3. /\ DOMAIN out \subseteq Block \cup NewBlocks(0)
      /\ \A b \in DOMAIN out : out[b] \in Seq(Instr(1 .. nblk + 0))
  <2>1. Br(Here.start) \in Instr(1 .. nblk + 0)
    BY <1>1, <1>2, InstrType
  <2>2. <<Br(Here.start)>> \in Seq(Instr(1 .. nblk + 0))
    BY <2>1
  <2>. QED BY <1>1, <2>2 DEF In
<1>4. stack' \in Seq(1 .. nblk + 0) /\ stack' # << >>
  <2>1. stack' = ReplaceTop(Here.exit) /\ Here.exit \in 1 .. nblk + 0
    BY <1>1, <1>2 DEF EndWhile
  <2>. QED BY <1>1, <2>1 DEF ReplaceTop
<1>5. calls' \in Seq(F)
  BY <1>1, Prefix DEF EndWhile, Return, Running
<1>. QED BY <1>1, <1>3, <1>4, <1>5, TypeLowering DEF EndWhile

LEMMA TypeEndRepeat == TypeInv /\ EndRepeat => TypeInv'
<1>. SUFFICES ASSUME TypeInv, EndRepeat PROVE TypeInv'
  OBVIOUS
<1>. DEFINE out == In(Top, <<CondBr(Here.node.id, nblk + 1, Here.loop)>>)
            F == Frame(1 .. nblk + 1, Fn)
<1>1. /\ Running /\ TypeOK /\ stack # << >> /\ Top \in Block /\ nblk \in Nat
      /\ Block \subseteq 1 .. nblk + 1
      /\ stack \in Seq(1 .. nblk + 1)
      /\ calls \in Seq(F)
  BY Pieces DEF EndRepeat, Running, TypeOK
<1>2. Here.loop \in Block /\ Here.node \in Stm /\ Here.node.id \in Id
  BY <1>1, HereType, StmAssumption DEF EndRepeat
<1>3. /\ DOMAIN out \subseteq Block \cup NewBlocks(1)
      /\ \A b \in DOMAIN out : out[b] \in Seq(Instr(1 .. nblk + 1))
  <2>0. nblk + 1 \in 1 .. nblk + 1
    BY <1>1
  <2>3. Here.loop \in 1 .. nblk + 1
    BY <1>1, <1>2
  <2>1. CondBr(Here.node.id, nblk + 1, Here.loop) \in Instr(1 .. nblk + 1)
    BY <1>2, <2>0, <2>3, InstrType
  <2>2. <<CondBr(Here.node.id, nblk + 1, Here.loop)>> \in Seq(Instr(1 .. nblk + 1))
    BY <2>1
  <2>. QED BY <1>1, <2>2 DEF In
<1>4. stack' \in Seq(1 .. nblk + 1) /\ stack' # << >>
  <2>1. stack' = ReplaceTop(nblk + 1) /\ nblk + 1 \in 1 .. nblk + 1
    BY <1>1, <1>2 DEF EndRepeat
  <2>. QED BY <1>1, <2>1 DEF ReplaceTop
<1>5. calls' \in Seq(F)
  BY <1>1, Prefix DEF EndRepeat, Return, Running
<1>. QED BY <1>1, <1>3, <1>4, <1>5, TypeLowering DEF EndRepeat

LEMMA TypeEndFor == TypeInv /\ EndFor => TypeInv'
<1>. SUFFICES ASSUME TypeInv, EndFor PROVE TypeInv'
  OBVIOUS
<1>. DEFINE out == In(Top, <<StepVar(Here.node.id), Br(Here.start)>>)
            F == Frame(1 .. nblk + 0, Fn)
<1>1. /\ Running /\ TypeOK /\ stack # << >> /\ Top \in Block /\ nblk \in Nat
      /\ Block \subseteq 1 .. nblk + 0
      /\ stack \in Seq(1 .. nblk + 0)
      /\ calls \in Seq(F)
  BY Pieces DEF EndFor, Running, TypeOK
<1>2. Here.start \in Block /\ Here.exit \in Block /\ Here.node \in Stm /\ Here.node.id \in Id
  BY <1>1, HereType, StmAssumption DEF EndFor
<1>3. /\ DOMAIN out \subseteq Block \cup NewBlocks(0)
      /\ \A b \in DOMAIN out : out[b] \in Seq(Instr(1 .. nblk + 0))
  <2>1. StepVar(Here.node.id) \in Instr(1 .. nblk + 0) /\ Br(Here.start) \in Instr(1 .. nblk + 0)
    BY <1>1, <1>2, InstrType
  <2>2. <<StepVar(Here.node.id), Br(Here.start)>> \in Seq(Instr(1 .. nblk + 0))
    BY <2>1
  <2>. QED BY <1>1, <2>2 DEF In
<1>4. stack' \in Seq(1 .. nblk + 0) /\ stack' # << >>
  <2>1. stack' = ReplaceTop(Here.exit) /\ Here.exit \in 1 .. nblk + 0
    BY <1>1, <1>2 DEF EndFor
  <2>. QED BY <1>1, <2>1 DEF ReplaceTop
<1>5. calls' \in Seq(F)
  <2>1. BodyFrame(Here.node.body) \in F
    BY <1>1, <1>2, StmAssumption DEF BodyFrame, Frame
  <2>. QED BY <1>1, <2>1, ExceptLast DEF EndFor, Become, Running
<1>. QED BY <1>1, <1>3, <1>4, <1>5, TypeLowering DEF EndFor

LEMMA TypeSilent == TypeInv /\ (SkipGoto \/ BodyDone \/ FuncsDone) => TypeInv'
<1>. SUFFICES ASSUME TypeInv, SkipGoto \/ BodyDone \/ FuncsDone PROVE TypeInv'
  OBVIOUS
<1>1. /\ Running /\ TypeOK /\ calls \in Seq(Frame(Block, Fn))
      /\ UNCHANGED <<code, owner, nblk, fns, stack, curFn, status>>
  BY DEF SkipGoto, BodyDone, FuncsDone, AtStatement, TypeInv, TypeOK
<1>2. calls' \in Seq(Frame(Block, Fn))
  <2>1. CASE SkipGoto
    BY <1>1, <2>1, StmtType, ExceptLast DEF SkipGoto, Become, Running
  <2>2. CASE BodyDone \/ FuncsDone
    BY <1>1, <2>2, Prefix DEF BodyDone, FuncsDone, Return, Running
  <2>. QED BY <2>1, <2>2
<1>3. Block' = Block /\ Fn' = Fn
  BY <1>1 DEF Block, Fn
<1>. QED BY <1>1, <1>2, <1>3 DEF TypeInv, TypeOK

LEMMA TypeFunc == TypeInv /\ BeginFunc => TypeInv'
<1>. SUFFICES ASSUME TypeInv, BeginFunc PROVE TypeInv'
  OBVIOUS
<1>. DEFINE def == Here.defs[1]
            fn == Len(fns) + 1
            out == In(nblk + 1, << >>)
            record == [entry |-> nblk + 1, body |-> def.body]
            x == FuncsFrame(Tail(Here.defs))
            y == <<FuncFrame(Top, curFn), BodyFrame(def.body), FuncsFrame(def.funcs)>>
<1>1. /\ Running /\ TypeOK /\ stack # << >> /\ Top \in Block /\ nblk \in Nat
      /\ Block \subseteq 1 .. nblk + 1
      /\ stack \in Seq(1 .. nblk + 1)
  BY Pieces DEF BeginFunc, Running, TypeOK
<1>2. /\ Here.defs \in Seq(FuncDef) /\ Tail(Here.defs) \in Seq(FuncDef)
      /\ def.body \in Seq(Stm) /\ def.funcs \in Seq(FuncDef)
  BY <1>1, HereType, FuncDefAssumption DEF BeginFunc
<1>3. fns' = Append(fns, record) /\ Fn' = 1 .. fn /\ Fn \subseteq Fn' /\ fn \in Fn'
  <2>1. fns' = Append(fns, record)
    BY DEF BeginFunc
  <2>2. Len(fns') = fn /\ Len(fns) \in Nat
    BY <1>1, <2>1 DEF TypeOK
  <2>. QED BY <2>1, <2>2 DEF Fn
<1>4. /\ nblk' = nblk + 1 /\ nblk' \in Nat
      /\ Block \subseteq Block'
      /\ code' \in [Block' -> Seq(Instr(Block'))]
      /\ owner' \in [Block' -> Fn']
  <2>1. DOMAIN out = {nblk + 1} /\ nblk + 1 \in NewBlocks(1) /\ out[nblk + 1] = << >>
    BY <1>1 DEF In, NewBlocks
  <2>2. Emit(1, fn, out)
    BY DEF BeginFunc
  <2>3. << >> \in Seq(Instr(1 .. nblk + 1))
    OBVIOUS
  <2>4. DOMAIN out \subseteq Block \cup NewBlocks(1)
    BY <2>1
  <2>5. \A b \in DOMAIN out : out[b] \in Seq(Instr(1 .. nblk + 1))
    BY <2>1, <2>3
  <2>. QED BY <1>1, <1>3, <2>2, <2>4, <2>5, EmitType
<1>5. Block' = 1 .. nblk + 1 /\ nblk + 1 \in Block'
  BY <1>1, <1>4 DEF Block
<1>6. fns' \in Seq([entry : Block', body : Seq(Stm)])
  <2>1. fns \in Seq([entry : Block', body : Seq(Stm)])
    BY <1>1, <1>4, FnsMonotonic DEF TypeOK
  <2>2. record \in [entry : Block', body : Seq(Stm)]
    BY <1>2, <1>5
  <2>. QED BY <1>3, <2>1, <2>2
<1>7. stack' \in Seq(Block') /\ stack' # << >>
  <2>1. stack' = Append(stack, nblk + 1)
    BY DEF BeginFunc
  <2>. QED BY <1>1, <1>5, <2>1
<1>8. calls' \in Seq(Frame(Block', Fn'))
  <2>1. calls \in Seq(Frame(Block', Fn'))
    <3>1. Frame(Block, Fn) \subseteq Frame(Block', Fn')
      <4>1. Block \subseteq Block' /\ Fn \subseteq Fn'
        BY <1>3, <1>4
      <4>. QED BY <4>1, FrameMonotonic
    <3>. QED BY <1>1, <3>1, SeqSubset DEF TypeOK
  <2>2. /\ x \in Frame(Block', Fn')
        /\ FuncFrame(Top, curFn) \in Frame(Block', Fn')
        /\ BodyFrame(def.body) \in Frame(Block', Fn')
        /\ FuncsFrame(def.funcs) \in Frame(Block', Fn')
    BY <1>1, <1>2, <1>3, <1>4 DEF FuncsFrame, FuncFrame, BodyFrame, Frame, TypeOK
  <2>3. [calls EXCEPT ![Len(calls)] = x] \in Seq(Frame(Block', Fn')) /\ y \in Seq(Frame(Block', Fn'))
    BY <1>1, <2>1, <2>2, ExceptLast DEF Running
  <2>. QED BY <2>3, ConcatProperties DEF BeginFunc
<1>9. curFn' \in Fn' /\ status' = status
  BY <1>3 DEF BeginFunc
<1>. QED BY <1>1, <1>4, <1>6, <1>7, <1>8, <1>9 DEF TypeInv, TypeOK

LEMMA TypeReturn == TypeInv /\ (EndFunc \/ Finish) => TypeInv'
<1>. SUFFICES ASSUME TypeInv, EndFunc \/ Finish PROVE TypeInv'
  OBVIOUS
<1>. DEFINE out == In(Top, <<Ret>>)
<1>1. /\ Running /\ TypeOK /\ stack # << >> /\ Top \in Block /\ nblk \in Nat
      /\ fns' = fns /\ Fn' = Fn /\ curFn \in Fn'
  BY Pieces DEF EndFunc, Finish, Running, TypeOK, Fn
<1>2. /\ nblk' = nblk + 0 /\ nblk' \in Nat
      /\ code' \in [Block' -> Seq(Instr(Block'))]
      /\ owner' \in [Block' -> Fn']
  <2>1. DOMAIN out = {Top} /\ out[Top] = <<Ret>>
    BY DEF In
  <2>2. <<Ret>> \in Seq(Instr(1 .. nblk + 0))
    BY InstrType
  <2>3. Emit(0, curFn, out)
    BY DEF EndFunc, Finish
  <2>. QED BY <1>1, <2>1, <2>2, <2>3, EmitType
<1>3. Block' = Block
  BY <1>1, <1>2 DEF Block
<1>4. calls' \in Seq(Frame(Block, Fn))
  <2>1. calls' = SubSeq(calls, 1, Len(calls) - 1) /\ calls \in Seq(Frame(Block, Fn))
    BY <1>1 DEF EndFunc, Finish, Return, TypeOK
  <2>2. Len(calls) - 1 \in 0 .. Len(calls)
    BY <1>1, <2>1 DEF Running
  <2>. QED BY <2>1, <2>2, Prefix
<1>5. CASE EndFunc
  <2>1. stack' \in Seq(Block) /\ stack' # << >>
    <3>1. PICK k \in 1 .. Len(stack) : stack' = SubSeq(stack, 1, k)
      BY <1>5 DEF EndFunc
    <3>2. stack \in Seq(Block) /\ k \in 0 .. Len(stack)
      BY <1>1 DEF TypeOK
    <3>3. stack' \in Seq(Block) /\ Len(stack') = k
      BY <3>1, <3>2, Prefix
    <3>. QED BY <3>3
  <2>2. curFn' \in Fn' /\ status' = status
    BY <1>1, <1>5, HereType DEF EndFunc
  <2>. QED BY <1>1, <1>2, <1>3, <1>4, <2>1, <2>2 DEF TypeInv, TypeOK
<1>6. CASE Finish
  <2>1. stack' \in Seq(Block)
    BY <1>1, <1>6, Prefix DEF Finish, Pop, TypeOK
  <2>2. curFn' \in Fn' /\ status' = "done"
    BY <1>1, <1>6 DEF Finish
  <2>. QED BY <1>1, <1>2, <1>3, <1>4, <2>1, <2>2 DEF TypeInv, TypeOK
<1>. QED BY <1>5, <1>6

LEMMA TypeUnchanged == TypeInv /\ (Abort \/ Stopped \/ UNCHANGED vars) => TypeInv'
<1>. SUFFICES ASSUME TypeInv, Abort \/ Stopped \/ UNCHANGED vars PROVE TypeInv'
  OBVIOUS
<1>1. /\ UNCHANGED <<code, owner, nblk, fns, stack, curFn, calls>>
      /\ status' = status \/ status' = "aborted"
  BY DEF Abort, Stopped, vars
<1>2. Block' = Block /\ Fn' = Fn
  BY <1>1 DEF Block, Fn
<1>. QED BY <1>1, <1>2 DEF TypeInv, TypeOK

(* The lowering preserves types: every block, function and statement that  *)
(* an instruction, a frame or the stack names exists.                      *)
THEOREM TypeStep == TypeInv /\ [Next]_vars => TypeInv'
  BY TypeSimple, TypeSilent, TypeUnchanged, TypeIf, TypeThen, TypeElse, TypeWhile,
     TypeEndWhile, TypeRepeat, TypeEndRepeat, TypeFor, TypeEndFor, TypeFunc, TypeReturn
     DEF Next

(* Type correctness of code generation, for all programs. *)
THEOREM TypeCorrect == Spec => []TypeOK
<1>1. TypeInv => TypeOK
  BY DEF TypeInv
<1>. QED BY <1>1, TypeInit, TypeStep, PTL DEF Spec


(* A run of instructions that ends a block: one terminator, at its end. *)
Closing(s) ==
    /\ s # << >>
    /\ IsTerminator(s[Len(s)])
    /\ \A i \in 1 .. Len(s) - 1 : ~IsTerminator(s[i])

LEMMA CloseSequence ==
    ASSUME NEW S, NEW s \in Seq(S), NEW t \in Seq(S), Closing(t),
           \A i \in 1 .. Len(s) : ~IsTerminator(s[i])
    PROVE  Closing(s \o t)
<1>1. /\ Len(s) \in Nat /\ Len(t) \in Nat /\ Len(t) > 0
      /\ Len(s \o t) = Len(s) + Len(t)
  BY DEF Closing
<1>2. \A i \in 1 .. Len(s) + Len(t) :
         (s \o t)[i] = IF i <= Len(s) THEN s[i] ELSE t[i - Len(s)]
  OBVIOUS
<1>3. (s \o t)[Len(s) + Len(t)] = t[Len(t)]
  BY <1>1, <1>2
<1>4. \A i \in 1 .. Len(s) + Len(t) - 1 : ~IsTerminator((s \o t)[i])
  <2>1. SUFFICES ASSUME NEW i \in 1 .. Len(s) + Len(t) - 1
                 PROVE  ~IsTerminator((s \o t)[i])
    OBVIOUS
  <2>2. CASE i <= Len(s)
    BY <1>1, <1>2, <2>2
  <2>3. CASE i > Len(s)
    <3>1. (s \o t)[i] = t[i - Len(s)] /\ i - Len(s) \in 1 .. Len(t) - 1
      BY <1>1, <1>2, <2>3
    <3>. QED BY <3>1 DEF Closing
  <2>. QED BY <1>1, <2>2, <2>3
<1>5. s \o t # << >>
  BY <1>1
<1>. QED BY <1>1, <1>3, <1>4, <1>5 DEF Closing
--------------------------------------------------------------------------------
(* Frames *)

LEMMA InPending ==
    ASSUME NEW c, NEW b
    PROVE  b \in PendingIn(c) <=> \E i \in 1 .. Len(c) : b \in Pending(c[i])
  BY DEF PendingIn

(* A statement or function is entered: frame x goes on, y waits for the    *)
(* frames above it.                                                        *)
Pushed(c, d) ==
    /\ Len(c) \in Nat /\ Len(c) > 0 /\ Len(d) \in Nat /\ Len(d) > Len(c)
    /\ WaitedForOnce(c)
    /\ \A i \in 1 .. Len(c) - 1 : d[i] = c[i]
    /\ Pending(c[Len(c)]) = {}
    /\ Pending(d[Len(c)]) = {} /\ d[Len(c)].kind # "then"
    /\ Pending(d[Len(c) + 1]) \cap PendingIn(c) = {}
    /\ d[Len(c) + 1].kind = "then" => d[Len(c) + 1].no # d[Len(c) + 1].merge
    /\ \A i \in Len(c) + 2 .. Len(d) : d[i].kind \in {"body", "funcs"}

LEMMA PendingPushed ==
    ASSUME NEW c, NEW d, Pushed(c, d)
    PROVE  /\ PendingIn(d) = PendingIn(c) \cup Pending(d[Len(c) + 1])
           /\ WaitedForOnce(d)
<1>. USE DEF Pushed
<1>. DEFINE n == Len(c)
            m == Len(d)
            x == d[Len(c)]
            y == d[Len(c) + 1]
<1>1. /\ n \in Nat /\ n > 0 /\ m \in Nat /\ m > n
      /\ \A i \in 1 .. m : i \in 1 .. n - 1 \/ i = n \/ i = n + 1 \/ i \in n + 2 .. m
      /\ \A i \in 1 .. n - 1 : i \in 1 .. m
      /\ n + 1 \in 1 .. m
  OBVIOUS
<1>2. \A i \in 1 .. n - 1 : Pending(d[i]) = Pending(c[i])
  OBVIOUS
<1>3. /\ Pending(d[n]) = {} /\ Pending(d[n + 1]) = Pending(y)
      /\ \A i \in n + 2 .. m : Pending(d[i]) = {}
  BY DEF Pending
<1>4. 1 .. n = (1 .. n - 1) \cup {n}
  BY <1>1
<1>5. PendingIn(d) = PendingIn(c) \cup Pending(y)
  <2>1. ASSUME NEW b, b \in PendingIn(d) PROVE b \in PendingIn(c) \cup Pending(y)
    <3>1. PICK i \in 1 .. m : b \in Pending(d[i])
      BY <2>1, InPending
    <3>2. CASE i \in 1 .. n - 1
      BY <1>2, <1>4, <3>1, <3>2, InPending
    <3>. QED BY <1>1, <1>3, <3>1, <3>2
  <2>2. ASSUME NEW b, b \in PendingIn(c) PROVE b \in PendingIn(d)
    <3>1. PICK i \in 1 .. n : b \in Pending(c[i])
      BY <2>2, InPending
    <3>2. i \in 1 .. n - 1
      BY <1>4, <3>1
    <3>. QED BY <1>1, <1>2, <3>1, <3>2, InPending
  <2>3. ASSUME NEW b \in Pending(y) PROVE b \in PendingIn(d)
    BY <1>1, <1>3, InPending
  <2>. QED BY <2>1, <2>2, <2>3
<1>6. \A i, j \in 1 .. m : i # j => Pending(d[i]) \cap Pending(d[j]) = {}
  <2>1. \A i \in 1 .. n - 1 : Pending(c[i]) \subseteq PendingIn(c)
    BY <1>4 DEF PendingIn
  <2>2. \A i, j \in 1 .. n - 1 : i # j => Pending(c[i]) \cap Pending(c[j]) = {}
    BY <1>4 DEF WaitedForOnce
  <2>3. \A i \in 1 .. n - 1 : Pending(c[i]) \cap Pending(y) = {}
    BY <2>1
  <2>4. SUFFICES ASSUME NEW i \in 1 .. m, NEW j \in 1 .. m, i # j
                 PROVE  Pending(d[i]) \cap Pending(d[j]) = {}
    OBVIOUS
  <2>. HIDE DEF n, m, x, y, Pushed
  <2>5. CASE i \in n + 2 .. m \/ j \in n + 2 .. m \/ i = n \/ j = n
    BY <1>3, <2>5
  <2>6. CASE i \in 1 .. n - 1 /\ j \in 1 .. n - 1
    BY <1>2, <2>2, <2>4, <2>6
  <2>7. CASE i \in 1 .. n - 1 /\ j = n + 1
    BY <1>2, <1>3, <2>3, <2>7
  <2>8. CASE i = n + 1 /\ j \in 1 .. n - 1
    BY <1>2, <1>3, <2>3, <2>8
  <2>. QED BY <1>1, <2>4, <2>5, <2>6, <2>7, <2>8
<1>7. \A i \in 1 .. m : d[i].kind = "then" => d[i].no # d[i].merge
  BY <1>1, <1>4 DEF WaitedForOnce
<1>. QED BY <1>5, <1>6, <1>7 DEF WaitedForOnce

(* The innermost handler goes on as x, and may enter z; x waits for no     *)
(* block that the handler did not wait for.                                *)
Replaced(c, d) ==
    /\ Len(c) \in Nat /\ Len(c) > 0 /\ Len(d) \in {Len(c), Len(c) + 1}
    /\ WaitedForOnce(c)
    /\ \A i \in 1 .. Len(c) - 1 : d[i] = c[i]
    /\ Pending(d[Len(c)]) \subseteq Pending(c[Len(c)]) /\ d[Len(c)].kind # "then"
    /\ Len(d) = Len(c) + 1 => d[Len(c) + 1].kind = "body"

LEMMA PendingReplaced ==
    ASSUME NEW c, NEW d, Replaced(c, d)
    PROVE  /\ PendingIn(d) = (PendingIn(c) \ Pending(c[Len(c)])) \cup Pending(d[Len(c)])
           /\ WaitedForOnce(d)
<1>. USE DEF Replaced
<1>. DEFINE x == d[Len(c)]
            n == Len(c)
            m == Len(d)
<1>1. /\ n \in Nat /\ n > 0 /\ m \in {n, n + 1}
      /\ 1 .. n = (1 .. n - 1) \cup {n}
      /\ \A i \in 1 .. m : i \in 1 .. n - 1 \/ i = n \/ i = n + 1
  OBVIOUS
<1>2. \A i \in 1 .. n - 1 : Pending(d[i]) = Pending(c[i])
  OBVIOUS
<1>3. /\ Pending(d[n]) = Pending(x)
      /\ m = n + 1 => Pending(d[n + 1]) = {}
  BY DEF Pending
<1>4. \A i \in 1 .. n - 1 : Pending(c[i]) \cap Pending(c[n]) = {}
  <2>1. \A i \in 1 .. n - 1 : i \in 1 .. n /\ n \in 1 .. n /\ i # n
    BY <1>1
  <2>. QED BY <2>1 DEF WaitedForOnce
<1>5. n \in 1 .. m /\ \A i \in 1 .. n - 1 : i \in 1 .. m /\ i \in 1 .. n
  BY <1>1
<1>6. \A i \in 1 .. m : d[i].kind = "then" => d[i].no # d[i].merge
  BY <1>1, <1>5 DEF WaitedForOnce
<1>7. PendingIn(d) = (PendingIn(c) \ Pending(c[n])) \cup Pending(x)
  <2>1. ASSUME NEW b, b \in PendingIn(d)
        PROVE  b \in (PendingIn(c) \ Pending(c[n])) \cup Pending(x)
    <3>1. PICK i \in 1 .. m : b \in Pending(d[i])
      BY <2>1, InPending
    <3>2. CASE i \in 1 .. n - 1
      BY <1>2, <1>4, <1>5, <3>1, <3>2, InPending
    <3>3. CASE i = n
      BY <1>3, <3>1, <3>3
    <3>4. i # n + 1
      BY <1>1, <1>3, <3>1
    <3>. QED BY <1>1, <3>2, <3>3, <3>4
  <2>2. ASSUME NEW b, b \in PendingIn(c), b \notin Pending(c[n]) PROVE b \in PendingIn(d)
    <3>1. PICK i \in 1 .. n : b \in Pending(c[i])
      BY <2>2, InPending
    <3>2. i \in 1 .. n - 1
      BY <1>1, <2>2, <3>1
    <3>. QED BY <1>2, <1>5, <3>1, <3>2, InPending
  <2>3. ASSUME NEW b \in Pending(x) PROVE b \in PendingIn(d)
    BY <1>3, <1>5, InPending
  <2>. QED BY <2>1, <2>2, <2>3
<1>8. \A i, j \in 1 .. m : i # j => Pending(d[i]) \cap Pending(d[j]) = {}
  <2>1. \A i, j \in 1 .. n - 1 : i # j => Pending(c[i]) \cap Pending(c[j]) = {}
    BY <1>5 DEF WaitedForOnce
  <2>2. \A i \in 1 .. n - 1 : Pending(c[i]) \cap Pending(x) = {}
    BY <1>4
  <2>3. SUFFICES ASSUME NEW i \in 1 .. m, NEW j \in 1 .. m, i # j
                 PROVE  Pending(d[i]) \cap Pending(d[j]) = {}
    OBVIOUS
  <2>4. i = n + 1 => Pending(d[i]) = {}
    BY <1>1, <1>3
  <2>5. j = n + 1 => Pending(d[j]) = {}
    BY <1>1, <1>3
  <2>. HIDE DEF n, m, Replaced
  <2>6. CASE i \in 1 .. n - 1 /\ j \in 1 .. n - 1
    BY <1>2, <2>1, <2>3, <2>6
  <2>7. CASE i \in 1 .. n - 1 /\ j = n
    BY <1>2, <1>3, <2>2, <2>7
  <2>8. CASE i = n /\ j \in 1 .. n - 1
    BY <1>2, <1>3, <2>2, <2>8
  <2>. QED BY <1>1, <2>3, <2>4, <2>5, <2>6, <2>7, <2>8
<1>. QED BY <1>6, <1>7, <1>8 DEF WaitedForOnce

(* The innermost handler returns. *)
Returned(c, d) ==
    /\ Len(c) \in Nat /\ Len(c) > 0 /\ Len(d) = Len(c) - 1
    /\ WaitedForOnce(c)
    /\ \A i \in 1 .. Len(c) - 1 : d[i] = c[i]

LEMMA PendingReturned ==
    ASSUME NEW c, NEW d, Returned(c, d)
    PROVE  /\ PendingIn(d) = PendingIn(c) \ Pending(c[Len(c)])
           /\ WaitedForOnce(d)
<1>. USE DEF Returned
<1>. DEFINE n == Len(c)
<1>1. /\ n \in Nat /\ n > 0 /\ Len(d) = n - 1
      /\ 1 .. n = (1 .. n - 1) \cup {n}
  OBVIOUS
<1>2. \A i \in 1 .. n - 1 : d[i] = c[i] /\ i \in 1 .. n
  BY <1>1
<1>3. WaitedForOnce(d)
  BY <1>1, <1>2 DEF WaitedForOnce
<1>4. \A i \in 1 .. n - 1 : Pending(c[i]) \cap Pending(c[n]) = {}
  <2>1. \A i \in 1 .. n - 1 : i \in 1 .. n /\ n \in 1 .. n /\ i # n
    BY <1>1
  <2>. QED BY <2>1 DEF WaitedForOnce
<1>5. ASSUME NEW b PROVE b \in PendingIn(d) <=> b \in PendingIn(c) /\ b \notin Pending(c[n])
  <2>1. b \in PendingIn(d) <=> \E i \in 1 .. n - 1 : b \in Pending(c[i])
    BY <1>1, <1>2, InPending
  <2>2. b \in PendingIn(c) <=> b \in Pending(c[n]) \/ \E i \in 1 .. n - 1 : b \in Pending(c[i])
    BY <1>1, InPending
  <2>. QED BY <1>4, <2>1, <2>2
<1>. QED BY <1>3, <1>5

NoFunctionAdded(c, d) ==
    \A i \in 1 .. Len(d) :
       \/ i < Len(c) /\ d[i] = c[i]
       \/ i >= Len(c) /\ d[i].kind \notin {"func", "funcs"}

LEMMA FunctionsOutsideKept ==
    ASSUME NEW c, NEW d, Len(c) \in Nat, Len(d) \in Nat,
           FunctionsOutside(c), NoFunctionAdded(c, d)
    PROVE  FunctionsOutside(d)
<1>. USE DEF NoFunctionAdded
<1>. SUFFICES ASSUME NEW i \in 1 .. Len(d), NEW j \in 1 .. Len(d),
                     i < j, d[j].kind \in {"func", "funcs"}
              PROVE  d[i].kind \notin Construct
  BY DEF FunctionsOutside
<1>1. j < Len(c) /\ d[j] = c[j] /\ d[i] = c[i]
  OBVIOUS
<1>2. i \in 1 .. Len(c) /\ j \in 1 .. Len(c)
  BY <1>1
<1>. QED BY <1>1, <1>2 DEF FunctionsOutside

LEMMA OwnedKept ==
    ASSUME NEW B, NEW F, NEW fr \in Frame(B, F), NEW fn, NEW own, Owned(fr, fn, own),
           NEW more, \A b \in B : more[b] = own[b]
    PROVE  Owned(fr, fn, more)
<1>1. Names(fr) \subseteq B /\ (fr.kind = "func" => fr.blk \in B)
  BY DEF Names, Frame
<1>. QED BY <1>1 DEF Owned

LEMMA PendingType ==
    ASSUME TypeOK
    PROVE  PendingBlocks \subseteq Block
<1>1. \A fr \in Frame(Block, Fn) : Pending(fr) \subseteq Block
  BY DEF Pending, Frame
<1>2. ASSUME NEW b \in PendingBlocks PROVE b \in Block
  <2>1. PICK i \in 1 .. Len(calls) : b \in Pending(calls[i])
    BY InPending DEF PendingBlocks
  <2>. QED BY <1>1, <2>1 DEF TypeOK
<1>. QED BY <1>2
--------------------------------------------------------------------------------
(* Blocks *)

(* A step of a handler completes the block on top, and possibly some of    *)
(* the blocks it creates.                                                  *)
Closes(n, out) ==
    /\ n \in Nat
    /\ Emit(n, curFn, out)
    /\ Top \in DOMAIN out /\ DOMAIN out \subseteq {Top} \cup NewBlocks(n)
    /\ \A b \in DOMAIN out :
          /\ out[b] \in Seq(Instr(1 .. nblk + n))
          /\ Closing(out[b])
          /\ \A i \in 1 .. Len(out[b]) : \A t \in Targets(out[b][i]) :
                t \in NewBlocks(n) \/ (t \in Block /\ owner[t] = curFn)

LEMMA EmitCloses ==
    ASSUME TypeOK, TypeOK', OneTerminator, LocalTargets,
           Top \in Block, ~Ended(Top), owner[Top] = curFn,
           NEW n, NEW STATE out, Closes(n, out)
    PROVE  /\ OneTerminator'
           /\ LocalTargets'
           /\ OpenBlocks' = (OpenBlocks \ {Top}) \cup (NewBlocks(n) \ DOMAIN out)
           /\ \A b \in Block : owner'[b] = owner[b]
           /\ \A b \in NewBlocks(n) : owner'[b] = curFn
           /\ \A b \in Block : b # Top => code'[b] = code[b]
<1>. USE DEF Closes
<1>. DEFINE I == Instr(1 .. nblk + n)
<1>1. /\ nblk \in Nat /\ nblk' = nblk + n
      /\ Block' = 1 .. nblk + n
      /\ Block' = Block \cup NewBlocks(n)
      /\ Block \cap NewBlocks(n) = {}
  <2>1. nblk \in Nat /\ n \in Nat /\ nblk' = nblk + n
    BY DEF TypeOK, Emit
  <2>2. Block = 1 .. nblk /\ Block' = 1 .. nblk + n /\ NewBlocks(n) = nblk + 1 .. nblk + n
    BY <2>1 DEF Block, NewBlocks
  <2>3. Block' = Block \cup NewBlocks(n) /\ Block \cap NewBlocks(n) = {}
    BY <2>1, <2>2, SMT
  <2>. QED BY <2>1, <2>2, <2>3
<1>2. /\ \A b \in Block : owner'[b] = owner[b]
      /\ \A b \in NewBlocks(n) : owner'[b] = curFn
  BY <1>1 DEF Emit
<1>3. \A b \in Block : b # Top => code'[b] = code[b]
  BY <1>1 DEF Emit, Old
<1>4. \A b \in NewBlocks(n) : b \notin DOMAIN out => code'[b] = << >>
  BY <1>1 DEF Emit, Old
<1>5. \A b \in NewBlocks(n) : b \in DOMAIN out => code'[b] = out[b]
  <2>1. \A b \in NewBlocks(n) : b \in DOMAIN out => code'[b] = << >> \o out[b]
    BY <1>1 DEF Emit, Old
  <2>2. \A q \in Seq(I) : << >> \o q = q
    OBVIOUS
  <2>. QED BY <2>1, <2>2
<1>6. code'[Top] = code[Top] \o out[Top]
  BY <1>1 DEF Emit, Old
<1>7. \A i \in 1 .. Len(code[Top]) : ~IsTerminator(code[Top][i])
  <2>1. code[Top] \in Seq(Instr(Block))
    BY DEF TypeOK
  <2>2. \A i \in 1 .. Len(code[Top]) : i \in 1 .. Len(code[Top]) - 1 \/ i = Len(code[Top])
    BY <2>1
  <2>3. code[Top] # << >> => ~IsTerminator(code[Top][Len(code[Top])])
    BY DEF Ended
  <2>. QED BY <2>1, <2>2, <2>3 DEF OneTerminator
<1>8. Closing(code'[Top])
  <2>1. code[Top] \in Seq(I)
    <3>1. Instr(Block) \subseteq I
      BY <1>1, InstrMonotonic
    <3>2. code[Top] \in Seq(Instr(Block))
      BY DEF TypeOK
    <3>. QED BY <3>1, <3>2, SeqSubset
  <2>2. out[Top] \in Seq(I) /\ Closing(out[Top])
    OBVIOUS
  <2>. HIDE DEF I
  <2>. QED BY <1>6, <1>7, <2>1, <2>2, CloseSequence
<1>9. ASSUME NEW b \in Block'
      PROVE  \/ b = Top
             \/ b \in Block /\ b # Top
             \/ b \in NewBlocks(n) /\ b \in DOMAIN out
             \/ b \in NewBlocks(n) /\ b \notin DOMAIN out
  BY <1>1
<1>10. OneTerminator'
  <2>1. SUFFICES ASSUME NEW b \in Block', NEW i \in 1 .. Len(code'[b]) - 1
                 PROVE  ~IsTerminator(code'[b][i])
    BY DEF OneTerminator
  <2>2. CASE b = Top
    BY <1>8, <2>2 DEF Closing
  <2>3. CASE b \in Block /\ b # Top
    BY <1>3, <2>3 DEF OneTerminator
  <2>4. CASE b \in NewBlocks(n) /\ b \in DOMAIN out
    BY <1>5, <2>4 DEF Closing
  <2>5. CASE b \in NewBlocks(n) /\ b \notin DOMAIN out
    BY <1>4, <2>5
  <2>. QED BY <1>9, <2>2, <2>3, <2>4, <2>5
<1>11. LocalTargets'
  <2>1. SUFFICES ASSUME NEW b \in Block', NEW i \in 1 .. Len(code'[b]),
                        NEW t \in Targets(code'[b][i])
                 PROVE  t \in Block' /\ owner'[t] = owner'[b]
    BY DEF LocalTargets
  <2>2. ASSUME t \in NewBlocks(n) \/ (t \in Block /\ owner[t] = curFn), owner'[b] = curFn
        PROVE  t \in Block' /\ owner'[t] = owner'[b]
    BY <1>1, <1>2, <2>2
  <2>3. ASSUME b \in Block, NEW k \in 1 .. Len(code[b]), t \in Targets(code[b][k])
        PROVE  t \in Block' /\ owner'[t] = owner'[b]
    BY <1>1, <1>2, <2>3 DEF LocalTargets
  <2>4. CASE b = Top
    <3>1. /\ Len(code[Top]) \in Nat /\ Len(out[Top]) \in Nat
          /\ Len(code'[Top]) = Len(code[Top]) + Len(out[Top])
          /\ \A k \in 1 .. Len(code[Top]) + Len(out[Top]) :
                code'[Top][k] = IF k <= Len(code[Top]) THEN code[Top][k]
                                ELSE out[Top][k - Len(code[Top])]
      <4>1. code[Top] \in Seq(Instr(Block)) /\ out[Top] \in Seq(I)
        BY DEF TypeOK
      <4>. HIDE DEF I
      <4>. QED BY <1>6, <4>1
    <3>2. CASE i <= Len(code[Top])
      <4>1. i \in 1 .. Len(code[Top]) /\ code'[b][i] = code[Top][i]
        BY <2>4, <3>1, <3>2
      <4>. QED BY <2>3, <2>4, <4>1
    <3>3. CASE i > Len(code[Top])
      <4>1. /\ i - Len(code[Top]) \in 1 .. Len(out[Top])
            /\ code'[b][i] = out[Top][i - Len(code[Top])]
        <5>1. i \in 1 .. Len(code[Top]) + Len(out[Top])
          BY <2>4, <3>1
        <5>2. i - Len(code[Top]) \in 1 .. Len(out[Top]) /\ ~(i <= Len(code[Top]))
          BY <3>1, <3>3, <5>1
        <5>. QED BY <2>4, <3>1, <5>1, <5>2
      <4>2. t \in NewBlocks(n) \/ (t \in Block /\ owner[t] = curFn)
        BY <4>1
      <4>3. owner'[b] = curFn
        BY <1>2, <2>4
      <4>. QED BY <2>2, <4>2, <4>3
    <3>. QED BY <2>4, <3>1, <3>2, <3>3
  <2>5. CASE b \in Block /\ b # Top
    BY <1>3, <2>3, <2>5
  <2>6. CASE b \in NewBlocks(n) /\ b \in DOMAIN out
    BY <1>2, <1>5, <2>2, <2>6
  <2>7. CASE b \in NewBlocks(n) /\ b \notin DOMAIN out
    BY <1>4, <2>7
  <2>. QED BY <1>9, <2>4, <2>5, <2>6, <2>7
<1>12. OpenBlocks' = (OpenBlocks \ {Top}) \cup (NewBlocks(n) \ DOMAIN out)
  <2>1. \A b \in Block : b # Top => (Ended(b)' <=> Ended(b))
    BY <1>3 DEF Ended
  <2>2. \A b \in Block : b = Top => Ended(b)'
    BY <1>8 DEF Ended, Closing
  <2>3. \A b \in NewBlocks(n) : b \in DOMAIN out => Ended(b)'
    BY <1>5 DEF Ended, Closing
  <2>4. \A b \in NewBlocks(n) : b \notin DOMAIN out => ~Ended(b)'
    BY <1>4 DEF Ended
  <2>5. \A b : b \in OpenBlocks' <=> b \in Block' /\ ~Ended(b)'
    BY DEF OpenBlocks
  <2>6. \A b : b \in OpenBlocks <=> b \in Block /\ ~Ended(b)
    BY DEF OpenBlocks
  <2>. QED BY <1>1, <1>9, <2>1, <2>2, <2>3, <2>4, <2>5, <2>6
<1>. QED BY <1>2, <1>3, <1>10, <1>11, <1>12
--------------------------------------------------------------------------------
(* Steps *)

(* What the invariant says of a state in which the walk runs. *)
LEMMA RunningFacts ==
    ASSUME IInv, Running
    PROVE  /\ TypeInv /\ TypeOK /\ OneTerminator /\ LocalTargets
           /\ stack # << >> /\ Top \in Block /\ ~Ended(Top) /\ owner[Top] = curFn
           /\ OpenBlocks = {Top} \cup PendingBlocks
           /\ Top \notin PendingBlocks
           /\ PendingBlocks \subseteq Block
           /\ WaitedForOnce(calls)
           /\ FunctionsOutside(calls)
           /\ \A i \in 1 .. Len(calls) : Owned(calls[i], curFn, owner) /\ calls[i] \in Frame(Block, Fn)
           /\ Len(calls) \in 1 .. Len(calls)
           /\ Pending(Here) \subseteq PendingBlocks
           /\ calls \in Seq(Frame(Block, Fn)) /\ calls # << >>
<1>1. TypeInv /\ TypeOK /\ stack # << >> /\ Top \in Block
  BY TopType DEF IInv, TypeInv, Running
<1>2. /\ OpenBlocks = {Top} \cup PendingBlocks
      /\ Top \notin PendingBlocks /\ owner[Top] = curFn
      /\ WaitedForOnce(calls) /\ FunctionsOutside(calls)
      /\ \A i \in 1 .. Len(calls) : Owned(calls[i], curFn, owner)
      /\ OneTerminator /\ LocalTargets
  BY DEF IInv, Running, OpenBlocksAccounted
<1>3. ~Ended(Top)
  BY <1>2 DEF OpenBlocks
<1>4. calls \in Seq(Frame(Block, Fn)) /\ calls # << >> /\ Len(calls) \in 1 .. Len(calls)
  BY <1>1 DEF TypeOK, Running
<1>5. \A i \in 1 .. Len(calls) : calls[i] \in Frame(Block, Fn)
  BY <1>4
<1>6. Pending(Here) \subseteq PendingBlocks
  BY <1>4, InPending DEF Here, PendingBlocks
<1>. QED BY <1>1, <1>2, <1>3, <1>4, <1>5, <1>6, PendingType

(* The frames of a statement handler that calls its body: the handler of   *)
(* the list goes on as x, y waits for z.                                   *)
Entered(c, d) ==
    /\ Len(c) \in Nat /\ Len(c) > 0 /\ Len(d) = Len(c) + 2
    /\ WaitedForOnce(c) /\ FunctionsOutside(c)
    /\ \A i \in 1 .. Len(c) - 1 : d[i] = c[i]
    /\ c[Len(c)].kind = "body" /\ d[Len(c)].kind = "body" /\ d[Len(c) + 2].kind = "body"
    /\ d[Len(c) + 1].kind \in Construct
    /\ d[Len(c) + 1].kind = "then" => d[Len(c) + 1].no # d[Len(c) + 1].merge
    /\ Pending(d[Len(c) + 1]) \cap PendingIn(c) = {}

LEMMA EnterFrames ==
    ASSUME NEW c, NEW d, Entered(c, d)
    PROVE  /\ PendingIn(d) = PendingIn(c) \cup Pending(d[Len(c) + 1])
           /\ WaitedForOnce(d)
           /\ FunctionsOutside(d)
           /\ \A i \in 1 .. Len(d) :
                 \/ i \in 1 .. Len(c) - 1 /\ d[i] = c[i]
                 \/ d[i].kind = "body"
                 \/ i = Len(c) + 1
<1>. USE DEF Entered
<1>. DEFINE m == Len(c)
<1>1. m \in Nat /\ m > 0 /\ Len(d) = m + 2
  OBVIOUS
<1>2. \A i \in 1 .. m - 1 : d[i] = c[i]
  OBVIOUS
<1>3. ASSUME NEW i \in 1 .. Len(d)
      PROVE  i \in 1 .. m - 1 \/ i = m \/ i = m + 1 \/ i = m + 2
  BY <1>1, <1>2
<1>4. \A i \in m + 2 .. Len(d) : d[i].kind \in {"body", "funcs"}
  BY <1>1
<1>5. Pending(c[m]) = {} /\ Pending(d[m]) = {}
  BY DEF Pending
<1>6. PendingIn(d) = PendingIn(c) \cup Pending(d[Len(c) + 1]) /\ WaitedForOnce(d)
  <2>1. Pushed(c, d)
    BY <1>1, <1>4, <1>5 DEF Pushed
  <2>. QED BY <2>1, PendingPushed
<1>7. d[m + 1].kind \notin {"func", "funcs"}
  BY DEF Construct
<1>8. NoFunctionAdded(c, d)
  BY <1>1, <1>3, <1>7 DEF NoFunctionAdded
<1>9. FunctionsOutside(d)
  BY <1>1, <1>8, FunctionsOutsideKept
<1>10. ASSUME NEW i \in 1 .. Len(d)
       PROVE  \/ i \in 1 .. Len(c) - 1 /\ d[i] = c[i]
              \/ d[i].kind = "body"
              \/ i = Len(c) + 1
  BY <1>1, <1>3
<1>. QED BY <1>6, <1>9, <1>10

(* A statement handler has created its blocks and calls its body. *)
EnterStep(n, out, to, y) ==
    /\ Closes(n, out)
    /\ curFn' = curFn /\ fns' = fns /\ status' = status
    /\ stack' = Append(stack, to)
    /\ y \in Frame(1 .. nblk + n, Fn)
    /\ y.kind \in Construct
    /\ y.kind = "then" => y.no # y.merge
    /\ Names(y) \subseteq NewBlocks(n)
    /\ to \notin Pending(y)
    /\ NewBlocks(n) \ DOMAIN out = {to} \cup Pending(y)
    /\ calls' = [calls EXCEPT ![Len(calls)] = Rest] \o <<y, BodyFrame(Stmt.body)>>

LEMMA EnterStatement ==
    ASSUME IInv, TypeInv', NEW K, AtStatement(K),
           NEW n, NEW STATE out, NEW STATE to, NEW STATE y, EnterStep(n, out, to, y)
    PROVE  IInv'
<1>. USE DEF EnterStep
<1>. DEFINE F == Frame(1 .. nblk + n, Fn)
<1>1. Running /\ Here.kind = "body"
  BY DEF AtStatement
<1>2. /\ TypeInv /\ TypeOK /\ OneTerminator /\ LocalTargets
      /\ stack # << >> /\ Top \in Block /\ ~Ended(Top) /\ owner[Top] = curFn
      /\ OpenBlocks = {Top} \cup PendingBlocks
      /\ Top \notin PendingBlocks
      /\ PendingBlocks \subseteq Block
      /\ WaitedForOnce(calls)
      /\ FunctionsOutside(calls)
      /\ \A i \in 1 .. Len(calls) : Owned(calls[i], curFn, owner) /\ calls[i] \in Frame(Block, Fn)
  BY <1>1, RunningFacts
<1>3. TypeOK' /\ nblk \in Nat /\ n \in Nat /\ status = "running" /\ status' = "running"
  BY <1>1, <1>2 DEF TypeInv, TypeOK, Running, Closes
<1>4. /\ OneTerminator' /\ LocalTargets'
      /\ OpenBlocks' = (OpenBlocks \ {Top}) \cup (NewBlocks(n) \ DOMAIN out)
      /\ \A b \in Block : owner'[b] = owner[b]
      /\ \A b \in NewBlocks(n) : owner'[b] = curFn
  BY <1>2, <1>3, EmitCloses
<1>5. NewBlocks(n) \cap Block = {}
  BY <1>3 DEF NewBlocks, Block
<1>6. /\ PendingIn(calls') = PendingIn(calls) \cup Pending(y)
      /\ WaitedForOnce(calls')
      /\ FunctionsOutside(calls')
      /\ \A i \in 1 .. Len(calls') :
            \/ i \in 1 .. Len(calls) - 1 /\ calls'[i] = calls[i]
            \/ calls'[i].kind = "body"
            \/ i = Len(calls) + 1
      /\ calls'[Len(calls) + 1] = y
  <2>1. BodyFrame(Stmt.body) \in F /\ Rest \in F
    BY <1>2, StmtType DEF Rest, BodyFrame, Frame
  <2>2. calls \in Seq(F) /\ calls # << >> /\ y \in F
    BY <1>1, <1>2, <1>3, Pieces DEF Running
  <2>5. /\ Len(calls) \in Nat /\ Len(calls) > 0 /\ Len(calls') = Len(calls) + 2
        /\ \A i \in 1 .. Len(calls) - 1 : calls'[i] = calls[i]
        /\ calls'[Len(calls)] = Rest
        /\ calls'[Len(calls) + 1] = y
        /\ calls'[Len(calls) + 2] = BodyFrame(Stmt.body)
    <3>. HIDE DEF F
    <3>. QED BY <2>1, <2>2, CallsPushed
  <2>3. /\ calls[Len(calls)].kind = "body" /\ Rest.kind = "body"
        /\ BodyFrame(Stmt.body).kind = "body"
    BY <1>1 DEF Here, Rest, BodyFrame
  <2>4. Pending(y) \cap PendingIn(calls) = {}
    BY <1>2, <1>5 DEF PendingBlocks
  <2>6. Entered(calls, calls')
    BY <1>2, <2>3, <2>4, <2>5 DEF Entered
  <2>7. /\ PendingIn(calls') = PendingIn(calls) \cup Pending(calls'[Len(calls) + 1])
        /\ WaitedForOnce(calls')
        /\ FunctionsOutside(calls')
        /\ \A i \in 1 .. Len(calls') :
              \/ i \in 1 .. Len(calls) - 1 /\ calls'[i] = calls[i]
              \/ calls'[i].kind = "body"
              \/ i = Len(calls) + 1
    BY <2>6, EnterFrames
  <2>. QED BY <2>5, <2>7
<1>7. Len(calls) - 1 \in Nat /\ \A i \in 1 .. Len(calls) - 1 : i \in 1 .. Len(calls)
  BY <1>1, <1>2 DEF Running, TypeOK
<1>8. PendingBlocks' = PendingBlocks \cup Pending(y) /\ WaitedForOnce(calls)'
  BY <1>6 DEF PendingBlocks
<1>9. Top' = to /\ to \in NewBlocks(n)
  BY <1>2 DEF Top, TypeOK
<1>10. OpenBlocksAccounted' /\ (Top \notin PendingBlocks)' /\ (owner[Top] = curFn)'
  BY <1>2, <1>4, <1>5, <1>8, <1>9 DEF OpenBlocksAccounted
<1>11. ASSUME NEW i \in 1 .. Len(calls') PROVE Owned(calls'[i], curFn', owner')
  <2>1. CASE i \in 1 .. Len(calls) - 1 /\ calls'[i] = calls[i]
    <3>1. calls[i] \in Frame(Block, Fn) /\ Owned(calls[i], curFn, owner)
      BY <1>2, <1>7, <2>1
    <3>. QED BY <1>4, <2>1, <3>1, OwnedKept
  <2>2. CASE calls'[i].kind = "body"
    BY <2>2 DEF Owned, Names
  <2>3. CASE i = Len(calls) + 1
    BY <1>4, <1>6, <2>3 DEF Owned, Construct
  <2>. QED BY <1>6, <2>1, <2>2, <2>3
<1>12. FunctionsOutside(calls)'
  BY <1>6
<1>13. stack' # << >>
  BY <1>3 DEF TypeInv
<1>. QED BY <1>3, <1>4, <1>8, <1>10, <1>11, <1>12, <1>13 DEF IInv

(* A statement handler goes on after its body, or returns; it waits for    *)
(* the blocks Q now.                                                       *)
LeaveStep(n, out, to, Q) ==
    /\ Closes(n, out) /\ DOMAIN out = {Top}
    /\ curFn' = curFn /\ fns' = fns /\ status' = status
    /\ stack' = ReplaceTop(to)
    /\ to \notin Q
    /\ {to} \cup Q = Pending(Here) \cup NewBlocks(n)
    /\ to \in Names(Here) \cup NewBlocks(n)
    /\ PendingIn(calls') = (PendingIn(calls) \ Pending(Here)) \cup Q
    /\ WaitedForOnce(calls')
    /\ FunctionsOutside(calls')
    /\ \A i \in 1 .. Len(calls') :
          \/ i \in 1 .. Len(calls) - 1 /\ calls'[i] = calls[i]
          \/ calls'[i].kind # "func" /\ Names(calls'[i]) \subseteq Names(Here)

LEMMA LeaveStatement ==
    ASSUME IInv, TypeInv', Running, Here.kind \in Construct,
           NEW n, NEW STATE out, NEW STATE to, NEW STATE Q, LeaveStep(n, out, to, Q)
    PROVE  IInv'
<1>. USE DEF LeaveStep
<1>1. /\ TypeInv /\ TypeOK /\ OneTerminator /\ LocalTargets
      /\ stack # << >> /\ Top \in Block /\ ~Ended(Top) /\ owner[Top] = curFn
      /\ OpenBlocks = {Top} \cup PendingBlocks
      /\ Top \notin PendingBlocks
      /\ PendingBlocks \subseteq Block
      /\ \A i \in 1 .. Len(calls) : Owned(calls[i], curFn, owner) /\ calls[i] \in Frame(Block, Fn)
      /\ Len(calls) \in 1 .. Len(calls)
      /\ Pending(Here) \subseteq PendingBlocks
  BY RunningFacts
<1>2. TypeOK' /\ nblk \in Nat /\ n \in Nat /\ status = "running" /\ status' = "running"
  BY <1>1 DEF TypeInv, TypeOK, Running, Closes
<1>3. /\ OneTerminator' /\ LocalTargets'
      /\ OpenBlocks' = (OpenBlocks \ {Top}) \cup NewBlocks(n)
      /\ \A b \in Block : owner'[b] = owner[b]
      /\ \A b \in NewBlocks(n) : owner'[b] = curFn
  <2>1. /\ OneTerminator' /\ LocalTargets'
        /\ OpenBlocks' = (OpenBlocks \ {Top}) \cup (NewBlocks(n) \ DOMAIN out)
        /\ \A b \in Block : owner'[b] = owner[b]
        /\ \A b \in NewBlocks(n) : owner'[b] = curFn
    BY <1>1, <1>2, EmitCloses
  <2>2. Top \notin NewBlocks(n)
    BY <1>1, <1>2 DEF NewBlocks, Block
  <2>. QED BY <2>1, <2>2
<1>4. NewBlocks(n) \cap Block = {}
  BY <1>2 DEF NewBlocks, Block
<1>5. PendingBlocks' = (PendingBlocks \ Pending(Here)) \cup Q
  BY DEF PendingBlocks
<1>6. Top' = to /\ stack' # << >>
  BY <1>1 DEF Top, TypeOK, ReplaceTop
<1>7. OpenBlocks' = {to} \cup PendingBlocks'
  BY <1>1, <1>3, <1>5
<1>8. to \notin PendingBlocks'
  BY <1>1, <1>4, <1>5
<1>9. Here \in Frame(Block, Fn) /\ \A b \in Names(Here) : owner[b] = curFn
  BY <1>1 DEF Here, Owned
<1>10. \A b \in Names(Here) : owner'[b] = curFn
  <2>1. Names(Here) \subseteq Block
    BY <1>9 DEF Names, Frame
  <2>. QED BY <1>3, <1>9, <2>1
<1>11. OpenBlocksAccounted' /\ (Top \notin PendingBlocks)' /\ (owner[Top] = curFn)'
  BY <1>3, <1>6, <1>7, <1>8, <1>10 DEF OpenBlocksAccounted
<1>12. ASSUME NEW i \in 1 .. Len(calls') PROVE Owned(calls'[i], curFn', owner')
  <2>1. CASE i \in 1 .. Len(calls) - 1 /\ calls'[i] = calls[i]
    <3>1. i \in 1 .. Len(calls)
      BY <1>1, <2>1
    <3>2. calls[i] \in Frame(Block, Fn) /\ Owned(calls[i], curFn, owner)
      BY <1>1, <3>1
    <3>. QED BY <1>3, <2>1, <3>2, OwnedKept
  <2>2. CASE calls'[i].kind # "func" /\ Names(calls'[i]) \subseteq Names(Here)
    BY <1>10, <2>2 DEF Owned
  <2>. QED BY <2>1, <2>2
<1>13. WaitedForOnce(calls)' /\ FunctionsOutside(calls)'
  OBVIOUS
<1>. QED BY <1>2, <1>3, <1>6, <1>11, <1>12, <1>13 DEF IInv

(* The frames of a handler that returns *)
LEMMA ReturnFrames ==
    ASSUME IInv, Running, Return
    PROVE  /\ PendingIn(calls') = PendingIn(calls) \ Pending(Here)
           /\ WaitedForOnce(calls')
           /\ FunctionsOutside(calls')
           /\ Len(calls') = Len(calls) - 1
           /\ \A i \in 1 .. Len(calls') : i \in 1 .. Len(calls) - 1 /\ calls'[i] = calls[i]
<1>1. /\ calls \in Seq(Frame(Block, Fn)) /\ calls # << >>
      /\ WaitedForOnce(calls) /\ FunctionsOutside(calls)
  BY RunningFacts
<1>2. /\ Len(calls) \in Nat /\ Len(calls) > 0 /\ Len(calls') = Len(calls) - 1
      /\ Len(calls') \in Nat
      /\ \A i \in 1 .. Len(calls) - 1 : calls'[i] = calls[i]
  <2>1. calls' = SubSeq(calls, 1, Len(calls) - 1)
    BY DEF Return
  <2>2. Len(calls) \in Nat /\ Len(calls) > 0 /\ Len(calls) - 1 \in 0 .. Len(calls)
    BY <1>1
  <2>3. /\ Len(calls') = Len(calls) - 1
        /\ \A i \in 1 .. Len(calls) - 1 : calls'[i] = calls[i]
    BY <1>1, <2>1, <2>2, Prefix
  <2>. QED BY <2>2, <2>3
<1>3. Returned(calls, calls')
  BY <1>1, <1>2 DEF Returned
<1>4. NoFunctionAdded(calls, calls')
  BY <1>2 DEF NoFunctionAdded
<1>5. FunctionsOutside(calls')
  BY <1>1, <1>2, <1>4, FunctionsOutsideKept
<1>6. PendingIn(calls') = PendingIn(calls) \ Pending(calls[Len(calls)]) /\ WaitedForOnce(calls')
  BY <1>3, PendingReturned
<1>. QED BY <1>2, <1>5, <1>6 DEF Here

(* The frames of a handler that goes on as x, and may call a list of       *)
(* statements                                                              *)
Continues(x) ==
    /\ Len(calls') \in {Len(calls), Len(calls) + 1}
    /\ \A i \in 1 .. Len(calls) - 1 : calls'[i] = calls[i]
    /\ calls'[Len(calls)] = x
    /\ Len(calls') = Len(calls) + 1 => calls'[Len(calls) + 1].kind = "body"
    /\ x.kind \notin {"then", "func", "funcs"}
    /\ Pending(x) \subseteq Pending(Here)
    /\ Names(x) \subseteq Names(Here)

LEMMA ContinueFrames ==
    ASSUME IInv, Running, NEW STATE x, Continues(x)
    PROVE  /\ PendingIn(calls') = (PendingIn(calls) \ Pending(Here)) \cup Pending(x)
           /\ WaitedForOnce(calls')
           /\ FunctionsOutside(calls')
           /\ \A i \in 1 .. Len(calls') :
                 \/ i \in 1 .. Len(calls) - 1 /\ calls'[i] = calls[i]
                 \/ calls'[i].kind # "func" /\ Names(calls'[i]) \subseteq Names(Here)
<1>. USE DEF Continues
<1>1. /\ calls \in Seq(Frame(Block, Fn)) /\ calls # << >>
      /\ WaitedForOnce(calls) /\ FunctionsOutside(calls)
  BY RunningFacts
<1>2. Len(calls) \in Nat /\ Len(calls) > 0 /\ Len(calls') \in Nat
  BY <1>1
<1>3. ASSUME NEW i \in 1 .. Len(calls')
      PROVE  i \in 1 .. Len(calls) - 1 \/ i = Len(calls) \/ calls'[i].kind = "body"
  BY <1>2
<1>4. Replaced(calls, calls')
  BY <1>1, <1>2 DEF Replaced, Here
<1>5. /\ PendingIn(calls') = (PendingIn(calls) \ Pending(calls[Len(calls)])) \cup Pending(calls'[Len(calls)])
      /\ WaitedForOnce(calls')
  BY <1>4, PendingReplaced
<1>6. ASSUME NEW i \in 1 .. Len(calls')
      PROVE  \/ i < Len(calls) /\ calls'[i] = calls[i]
             \/ i >= Len(calls) /\ calls'[i].kind \notin {"func", "funcs"}
  BY <1>2
<1>7. NoFunctionAdded(calls, calls')
  BY <1>6 DEF NoFunctionAdded
<1>8. FunctionsOutside(calls')
  BY <1>1, <1>2, <1>7, FunctionsOutsideKept
<1>9. ASSUME NEW i \in 1 .. Len(calls')
      PROVE  \/ i \in 1 .. Len(calls) - 1 /\ calls'[i] = calls[i]
             \/ calls'[i].kind # "func" /\ Names(calls'[i]) \subseteq Names(Here)
  <2>1. CASE calls'[i].kind = "body"
    BY <2>1 DEF Names
  <2>. QED BY <1>3, <2>1
<1>. QED BY <1>5, <1>8, <1>9 DEF Here
--------------------------------------------------------------------------------
(* What the handlers emit *)

LEMMA ClosingOne ==
    ASSUME NEW i, IsTerminator(i)
    PROVE  Closing(<<i>>)
  BY DEF Closing

LEMMA ClosingTwo ==
    ASSUME NEW i, NEW j, ~IsTerminator(i), IsTerminator(j)
    PROVE  Closing(<<i, j>>)
  BY DEF Closing

MayTarget(b, n) == b \in NewBlocks(n) \/ (b \in Block /\ owner[b] = curFn)

(* s may end a block of the current function, n blocks being new *)
Ending(s, n) ==
    /\ s \in Seq(Instr(1 .. nblk + n))
    /\ Closing(s)
    /\ \A i \in 1 .. Len(s) : \A t \in Targets(s[i]) : MayTarget(t, n)

LEMMA ClosesTop ==
    ASSUME Top \in Block, NEW n \in Nat, NEW STATE s, Ending(s, n), Emit(n, curFn, In(Top, s))
    PROVE  Closes(n, In(Top, s)) /\ DOMAIN In(Top, s) = {Top}
<1>1. DOMAIN In(Top, s) = {Top} /\ In(Top, s)[Top] = s
  BY DEF In
<1>. QED BY <1>1 DEF Closes, Ending, MayTarget

EndsTwo(n, s, b, r, out) ==
    /\ n \in Nat
    /\ Ending(s, n) /\ Ending(r, n) /\ b \in NewBlocks(n)
    /\ out = InTwo(Top, s, b, r)
    /\ Emit(n, curFn, out)

LEMMA ClosesTwo ==
    ASSUME nblk \in Nat, Top \in Block, NEW n, NEW STATE s, NEW STATE b, NEW STATE r,
           NEW STATE out, EndsTwo(n, s, b, r, out)
    PROVE  Closes(n, out) /\ DOMAIN out = {Top, b}
<1>. USE DEF EndsTwo
<1>1. DOMAIN out = {Top, b} /\ out[Top] = s
  BY DEF InTwo
<1>2. b # Top
  BY DEF NewBlocks, Block
<1>3. out[b] = r
  BY <1>2 DEF InTwo
<1>. QED BY <1>1, <1>3 DEF Closes, Ending, MayTarget
--------------------------------------------------------------------------------
(* One lemma per action *)

LEMMA InvType == IInv => TypeInv
  BY DEF IInv, TypeInv

(* What a handler that begins a statement starts from, with n new blocks. *)
LEMMA Beginning ==
    ASSUME IInv, NEW K, AtStatement(K), NEW n \in Nat
    PROVE  /\ TypeInv /\ Running /\ nblk \in Nat /\ Top \in Block
           /\ Stmt.id \in Id /\ Stmt \in Stm
           /\ NewBlocks(n) \subseteq 1 .. nblk + n
<1>1. Running /\ TypeInv /\ nblk \in Nat /\ Top \in Block
  BY RunningFacts DEF AtStatement, TypeOK
<1>. QED BY <1>1, StmtType DEF NewBlocks, TypeInv

LEMMA SafeIf == IInv /\ BeginIf => IInv'
<1>. SUFFICES ASSUME IInv, BeginIf PROVE IInv'
  OBVIOUS
<1>. DEFINE yes == nblk + 1
            no == nblk + 2
            merge == nblk + 3
            s == <<CondBr(Stmt.id, yes, no)>>
            y == ThenFrame(Stmt, no, merge)
<1>1. /\ AtStatement({"if"})
      /\ TypeInv /\ nblk \in Nat /\ Top \in Block /\ Stmt.id \in Id /\ Stmt \in Stm
  BY Beginning DEF BeginIf
<1>2. /\ yes \in NewBlocks(3) /\ no \in NewBlocks(3) /\ merge \in NewBlocks(3)
      /\ NewBlocks(3) = {yes, no, merge}
      /\ NewBlocks(3) \subseteq 1 .. nblk + 3
  BY <1>1 DEF NewBlocks
<1>3. NewBlocks(3) \cap Block = {}
  BY <1>1 DEF NewBlocks, Block
<1>4. Closes(3, In(Top, s)) /\ DOMAIN In(Top, s) = {Top}
  <2>1. CondBr(Stmt.id, yes, no) \in Instr(1 .. nblk + 3)
    BY <1>1, <1>2, InstrType
  <2>2. IsTerminator(CondBr(Stmt.id, yes, no)) /\ Targets(CondBr(Stmt.id, yes, no)) = {yes, no}
    BY DEF CondBr, IsTerminator, Targets
  <2>3. Closing(s) /\ s \in Seq(Instr(1 .. nblk + 3))
    BY <2>1, <2>2, ClosingOne
  <2>4. \A i \in 1 .. Len(s) : \A t \in Targets(s[i]) : MayTarget(t, 3)
    BY <1>2, <2>2 DEF MayTarget
  <2>5. Emit(3, curFn, In(Top, s))
    BY DEF BeginIf
  <2>6. Ending(s, 3)
    BY <2>3, <2>4 DEF Ending
  <2>. QED BY <1>1, <2>5, <2>6, ClosesTop
<1>5. /\ y.kind = "then" /\ y.no = no /\ y.merge = merge
      /\ y \in Frame(1 .. nblk + 3, Fn)
  BY <1>1, <1>2 DEF ThenFrame, Frame
<1>6. Names(y) = {no, merge} /\ Pending(y) = {no, merge} /\ yes # no /\ yes # merge /\ no # merge
  BY <1>1, <1>5 DEF Names, Pending
<1>7. EnterStep(3, In(Top, s), yes, y)
  <2>1. NewBlocks(3) \ DOMAIN In(Top, s) = {yes} \cup Pending(y)
    BY <1>1, <1>2, <1>3, <1>4, <1>6
  <2>2. yes \notin Pending(y) /\ Names(y) \subseteq NewBlocks(3)
    BY <1>2, <1>6
  <2>3. y.kind \in Construct
    BY <1>5 DEF Construct
  <2>4. /\ stack' = Append(stack, yes)
        /\ calls' = [calls EXCEPT ![Len(calls)] = Rest] \o <<y, BodyFrame(Stmt.body)>>
        /\ curFn' = curFn /\ fns' = fns /\ status' = status
    BY DEF BeginIf
  <2>. HIDE DEF y
  <2>. QED BY <1>4, <1>5, <1>6, <2>1, <2>2, <2>3, <2>4 DEF EnterStep
<1>8. TypeInv'
  BY <1>1, TypeIf
<1>. QED BY <1>1, <1>7, <1>8, EnterStatement

LEMMA SafeWhile == IInv /\ BeginWhile => IInv'
<1>. SUFFICES ASSUME IInv, BeginWhile PROVE IInv'
  OBVIOUS
<1>. DEFINE start == nblk + 1
            loop == nblk + 2
            exit == nblk + 3
            s == <<Br(start)>>
            r == <<CondBr(Stmt.id, loop, exit)>>
            y == WhileFrame(start, exit)
            out == InTwo(Top, s, start, r)
<1>1. /\ AtStatement({"while"})
      /\ TypeInv /\ nblk \in Nat /\ Top \in Block /\ Stmt.id \in Id /\ Stmt \in Stm
  BY Beginning DEF BeginWhile
<1>2. /\ start \in NewBlocks(3) /\ loop \in NewBlocks(3) /\ exit \in NewBlocks(3)
      /\ NewBlocks(3) = {start, loop, exit}
      /\ NewBlocks(3) \subseteq 1 .. nblk + 3
      /\ start # loop /\ start # exit /\ loop # exit
  BY <1>1 DEF NewBlocks
<1>3. NewBlocks(3) \cap Block = {}
  BY <1>1 DEF NewBlocks, Block
<1>4. Closes(3, out) /\ DOMAIN out = {Top, start}
  <2>1. Br(start) \in Instr(1 .. nblk + 3) /\ CondBr(Stmt.id, loop, exit) \in Instr(1 .. nblk + 3)
    BY <1>1, <1>2, InstrType
  <2>2. /\ IsTerminator(Br(start)) /\ Targets(Br(start)) = {start}
        /\ IsTerminator(CondBr(Stmt.id, loop, exit)) /\ Targets(CondBr(Stmt.id, loop, exit)) = {loop, exit}
    BY DEF Br, CondBr, IsTerminator, Targets
  <2>3. Closing(s) /\ s \in Seq(Instr(1 .. nblk + 3))
    BY <2>1, <2>2, ClosingOne
  <2>4. Closing(r) /\ r \in Seq(Instr(1 .. nblk + 3))
    BY <2>1, <2>2, ClosingOne
  <2>5. /\ \A i \in 1 .. Len(s) : \A t \in Targets(s[i]) : MayTarget(t, 3)
        /\ \A i \in 1 .. Len(r) : \A t \in Targets(r[i]) : MayTarget(t, 3)
    BY <1>2, <2>2, <2>3 DEF MayTarget
  <2>6. Emit(3, curFn, out)
    BY DEF BeginWhile
  <2>7. Ending(s, 3) /\ Ending(r, 3)
    BY <2>3, <2>4, <2>5 DEF Ending
  <2>8. EndsTwo(3, s, start, r, out)
    BY <1>2, <2>6, <2>7 DEF EndsTwo
  <2>. HIDE DEF s, r, start, loop, exit, y, out
  <2>. QED BY <1>1, <2>8, ClosesTwo
<1>5. y.kind = "while" /\ y.start = start /\ y.exit = exit /\ y \in Frame(1 .. nblk + 3, Fn)
  BY <1>1, <1>2 DEF WhileFrame, Frame
<1>6. Names(y) = {start, exit} /\ Pending(y) = {exit}
  BY <1>5 DEF Names, Pending
<1>7. EnterStep(3, out, loop, y)
  <2>1. NewBlocks(3) \ DOMAIN out = {loop} \cup Pending(y)
    BY <1>1, <1>2, <1>3, <1>4, <1>6
  <2>2. loop \notin Pending(y) /\ Names(y) \subseteq NewBlocks(3)
    BY <1>2, <1>6
  <2>3. y.kind \in Construct /\ y.kind # "then"
    BY <1>5 DEF Construct
  <2>4. /\ stack' = Append(stack, loop)
        /\ calls' = [calls EXCEPT ![Len(calls)] = Rest] \o <<y, BodyFrame(Stmt.body)>>
        /\ curFn' = curFn /\ fns' = fns /\ status' = status
    BY DEF BeginWhile
  <2>. HIDE DEF y, out
  <2>. QED BY <1>4, <1>5, <1>6, <2>1, <2>2, <2>3, <2>4 DEF EnterStep
<1>8. TypeInv'
  BY <1>1, TypeWhile
<1>. HIDE DEF y, out
<1>. QED BY <1>1, <1>7, <1>8, EnterStatement

LEMMA SafeFor == IInv /\ BeginFor => IInv'
<1>. SUFFICES ASSUME IInv, BeginFor PROVE IInv'
  OBVIOUS
<1>. DEFINE start == nblk + 1
            loop == nblk + 2
            exit == nblk + 3
            s == <<InitVar(Stmt.id), Br(start)>>
            r == <<CondBr(Stmt.id, exit, loop)>>
            y == ForFrame(Stmt, start, exit)
            out == InTwo(Top, s, start, r)
<1>1. /\ AtStatement({"for"})
      /\ TypeInv /\ nblk \in Nat /\ Top \in Block /\ Stmt.id \in Id /\ Stmt \in Stm
  BY Beginning DEF BeginFor
<1>2. /\ start \in NewBlocks(3) /\ loop \in NewBlocks(3) /\ exit \in NewBlocks(3)
      /\ NewBlocks(3) = {start, loop, exit}
      /\ NewBlocks(3) \subseteq 1 .. nblk + 3
      /\ start # loop /\ start # exit /\ loop # exit
  BY <1>1 DEF NewBlocks
<1>3. NewBlocks(3) \cap Block = {}
  BY <1>1 DEF NewBlocks, Block
<1>4. Closes(3, out) /\ DOMAIN out = {Top, start}
  <2>1. Br(start) \in Instr(1 .. nblk + 3) /\ CondBr(Stmt.id, exit, loop) \in Instr(1 .. nblk + 3)
    BY <1>1, <1>2, InstrType
  <2>2. /\ IsTerminator(Br(start)) /\ Targets(Br(start)) = {start}
        /\ IsTerminator(CondBr(Stmt.id, exit, loop)) /\ Targets(CondBr(Stmt.id, exit, loop)) = {loop, exit}
    BY DEF Br, CondBr, IsTerminator, Targets
  <2>3. /\ Closing(s) /\ s \in Seq(Instr(1 .. nblk + 3))
        /\ Targets(InitVar(Stmt.id)) = {}
    <3>1. InitVar(Stmt.id) \in Instr(1 .. nblk + 3)
      BY <1>1, InstrType
    <3>2. ~IsTerminator(InitVar(Stmt.id)) /\ Targets(InitVar(Stmt.id)) = {}
      BY DEF InitVar, IsTerminator, Targets
    <3>. QED BY <2>1, <2>2, <3>1, <3>2, ClosingTwo
  <2>4. Closing(r) /\ r \in Seq(Instr(1 .. nblk + 3))
    BY <2>1, <2>2, ClosingOne
  <2>5. /\ \A i \in 1 .. Len(s) : \A t \in Targets(s[i]) : MayTarget(t, 3)
        /\ \A i \in 1 .. Len(r) : \A t \in Targets(r[i]) : MayTarget(t, 3)
    BY <1>2, <2>2, <2>3 DEF MayTarget
  <2>6. Emit(3, curFn, out)
    BY DEF BeginFor
  <2>7. Ending(s, 3) /\ Ending(r, 3)
    BY <2>3, <2>4, <2>5 DEF Ending
  <2>8. EndsTwo(3, s, start, r, out)
    BY <1>2, <2>6, <2>7 DEF EndsTwo
  <2>. HIDE DEF s, r, start, loop, exit, y, out
  <2>. QED BY <1>1, <2>8, ClosesTwo
<1>5. y.kind = "for" /\ y.start = start /\ y.exit = exit /\ y \in Frame(1 .. nblk + 3, Fn)
  BY <1>1, <1>2 DEF ForFrame, Frame
<1>6. Names(y) = {start, exit} /\ Pending(y) = {exit}
  BY <1>5 DEF Names, Pending
<1>7. EnterStep(3, out, loop, y)
  <2>1. NewBlocks(3) \ DOMAIN out = {loop} \cup Pending(y)
    BY <1>1, <1>2, <1>3, <1>4, <1>6
  <2>2. loop \notin Pending(y) /\ Names(y) \subseteq NewBlocks(3)
    BY <1>2, <1>6
  <2>3. y.kind \in Construct /\ y.kind # "then"
    BY <1>5 DEF Construct
  <2>4. /\ stack' = Append(stack, loop)
        /\ calls' = [calls EXCEPT ![Len(calls)] = Rest] \o <<y, BodyFrame(Stmt.body)>>
        /\ curFn' = curFn /\ fns' = fns /\ status' = status
    BY DEF BeginFor
  <2>. HIDE DEF y, out
  <2>. QED BY <1>4, <1>5, <1>6, <2>1, <2>2, <2>3, <2>4 DEF EnterStep
<1>8. TypeInv'
  BY <1>1, TypeFor
<1>. HIDE DEF y, out
<1>. QED BY <1>1, <1>7, <1>8, EnterStatement

LEMMA SafeRepeat == IInv /\ BeginRepeat => IInv'
<1>. SUFFICES ASSUME IInv, BeginRepeat PROVE IInv'
  OBVIOUS
<1>. DEFINE loop == nblk + 1
            s == <<Br(loop)>>
            y == RepeatFrame(Stmt, loop)
<1>1. /\ AtStatement({"repeat"})
      /\ TypeInv /\ nblk \in Nat /\ Top \in Block /\ Stmt.id \in Id /\ Stmt \in Stm
  BY Beginning DEF BeginRepeat
<1>2. loop \in NewBlocks(1) /\ NewBlocks(1) = {loop} /\ NewBlocks(1) \subseteq 1 .. nblk + 1
  BY <1>1 DEF NewBlocks
<1>3. NewBlocks(1) \cap Block = {}
  BY <1>1 DEF NewBlocks, Block
<1>4. Closes(1, In(Top, s)) /\ DOMAIN In(Top, s) = {Top}
  <2>1. Br(loop) \in Instr(1 .. nblk + 1)
    BY <1>1, <1>2, InstrType
  <2>2. IsTerminator(Br(loop)) /\ Targets(Br(loop)) = {loop}
    BY DEF Br, IsTerminator, Targets
  <2>3. Closing(s) /\ s \in Seq(Instr(1 .. nblk + 1))
    BY <2>1, <2>2, ClosingOne
  <2>4. \A i \in 1 .. Len(s) : \A t \in Targets(s[i]) : MayTarget(t, 1)
    BY <1>2, <2>2 DEF MayTarget
  <2>5. Emit(1, curFn, In(Top, s))
    BY DEF BeginRepeat
  <2>6. Ending(s, 1)
    BY <2>3, <2>4 DEF Ending
  <2>. QED BY <1>1, <2>5, <2>6, ClosesTop
<1>5. y.kind = "repeat" /\ y.loop = loop /\ y \in Frame(1 .. nblk + 1, Fn)
  BY <1>1, <1>2 DEF RepeatFrame, Frame
<1>6. Names(y) = {loop} /\ Pending(y) = {}
  BY <1>1, <1>5 DEF Names, Pending
<1>7. EnterStep(1, In(Top, s), loop, y)
  <2>1. NewBlocks(1) \ DOMAIN In(Top, s) = {loop} \cup Pending(y)
    BY <1>1, <1>2, <1>3, <1>4, <1>6
  <2>2. loop \notin Pending(y) /\ Names(y) \subseteq NewBlocks(1)
    BY <1>2, <1>6
  <2>3. y.kind \in Construct /\ y.kind # "then"
    BY <1>5 DEF Construct
  <2>4. /\ stack' = Append(stack, loop)
        /\ calls' = [calls EXCEPT ![Len(calls)] = Rest] \o <<y, BodyFrame(Stmt.body)>>
        /\ curFn' = curFn /\ fns' = fns /\ status' = status
    BY DEF BeginRepeat
  <2>. HIDE DEF y
  <2>. QED BY <1>4, <1>5, <1>6, <2>1, <2>2, <2>3, <2>4 DEF EnterStep
<1>8. TypeInv'
  BY <1>1, TypeRepeat
<1>. QED BY <1>1, <1>7, <1>8, EnterStatement

LEMMA SafeElse == IInv /\ EndElse => IInv'
<1>. SUFFICES ASSUME IInv, EndElse PROVE IInv'
  OBVIOUS
<1>. DEFINE exit == Here.merge
            s == <<Br(Here.merge)>>
<1>1. /\ Running /\ Here.kind = "else" /\ Return
      /\ TypeInv /\ nblk \in Nat /\ Top \in Block
  BY RunningFacts DEF EndElse, TypeOK
<1>2. Here.merge \in Block
  BY <1>1, HereType, StmAssumption DEF TypeInv
<1>3. Names(Here) = {Here.merge} /\ Pending(Here) = {Here.merge}
  BY <1>1 DEF Names, Pending
<1>4. \A b \in Names(Here) : b \in Block /\ owner[b] = curFn
  <2>1. /\ Owned(calls[Len(calls)], curFn, owner)
        /\ Here \in Frame(Block, Fn)
    BY <1>1, RunningFacts DEF Here
  <2>. QED BY <2>1 DEF Owned, Here, Names, Frame
<1>5. NewBlocks(0) = {}
  BY <1>1 DEF NewBlocks
<1>6. Closes(0, In(Top, s)) /\ DOMAIN In(Top, s) = {Top}
  <2>1. Br(Here.merge) \in Instr(1 .. nblk + 0)
    <3>1. \A b \in {Here.merge} : b \in 1 .. nblk + 0
      BY <1>1, <1>2 DEF Block
    <3>. QED BY <1>2, <3>1, InstrType
  <2>2. IsTerminator(Br(Here.merge)) /\ Targets(Br(Here.merge)) = {Here.merge}
    BY DEF Br, CondBr, IsTerminator, Targets
  <2>3. Closing(s) /\ s \in Seq(Instr(1 .. nblk + 0))
    BY <2>1, <2>2, ClosingOne
  <2>4. \A i \in 1 .. Len(s) : \A t \in Targets(s[i]) : MayTarget(t, 0)
    BY <1>3, <1>4, <1>5, <2>2 DEF MayTarget
  <2>5. Emit(0, curFn, In(Top, s))
    BY DEF EndElse
  <2>6. Ending(s, 0)
    BY <2>3, <2>4 DEF Ending
  <2>. QED BY <1>1, <2>5, <2>6, ClosesTop
<1>7. LeaveStep(0, In(Top, s), exit, {})
  <2>1. {exit} \cup {} = Pending(Here) \cup NewBlocks(0)
    BY <1>3, <1>5
  <2>2. exit \in Names(Here) \cup NewBlocks(0)
    BY <1>3, <1>5
  <2>3. /\ stack' = ReplaceTop(exit)
        /\ curFn' = curFn /\ fns' = fns /\ status' = status
    BY DEF EndElse
  <2>4. /\ PendingIn(calls') = (PendingIn(calls) \ Pending(Here)) \cup {}
        /\ WaitedForOnce(calls')
        /\ FunctionsOutside(calls')
        /\ \A i \in 1 .. Len(calls') : i \in 1 .. Len(calls) - 1 /\ calls'[i] = calls[i]
    BY <1>1, ReturnFrames
  <2>. HIDE DEF s, exit
  <2>. QED BY <1>6, <2>1, <2>2, <2>3, <2>4 DEF LeaveStep
<1>8. TypeInv'
  BY <1>1, TypeElse
<1>9. Here.kind \in Construct
  BY <1>1 DEF Construct
<1>. HIDE DEF s, exit
<1>. QED BY <1>1, <1>7, <1>8, <1>9, LeaveStatement

LEMMA SafeEndWhile == IInv /\ EndWhile => IInv'
<1>. SUFFICES ASSUME IInv, EndWhile PROVE IInv'
  OBVIOUS
<1>. DEFINE exit == Here.exit
            s == <<Br(Here.start)>>
<1>1. /\ Running /\ Here.kind = "while" /\ Return
      /\ TypeInv /\ nblk \in Nat /\ Top \in Block
  BY RunningFacts DEF EndWhile, TypeOK
<1>2. Here.start \in Block /\ Here.exit \in Block
  BY <1>1, HereType, StmAssumption DEF TypeInv
<1>3. Names(Here) = {Here.start, Here.exit} /\ Pending(Here) = {Here.exit}
  BY <1>1 DEF Names, Pending
<1>4. \A b \in Names(Here) : b \in Block /\ owner[b] = curFn
  <2>1. /\ Owned(calls[Len(calls)], curFn, owner)
        /\ Here \in Frame(Block, Fn)
    BY <1>1, RunningFacts DEF Here
  <2>. QED BY <2>1 DEF Owned, Here, Names, Frame
<1>5. NewBlocks(0) = {}
  BY <1>1 DEF NewBlocks
<1>6. Closes(0, In(Top, s)) /\ DOMAIN In(Top, s) = {Top}
  <2>1. Br(Here.start) \in Instr(1 .. nblk + 0)
    <3>1. \A b \in {Here.start} : b \in 1 .. nblk + 0
      BY <1>1, <1>2 DEF Block
    <3>. QED BY <1>2, <3>1, InstrType
  <2>2. IsTerminator(Br(Here.start)) /\ Targets(Br(Here.start)) = {Here.start}
    BY DEF Br, CondBr, IsTerminator, Targets
  <2>3. Closing(s) /\ s \in Seq(Instr(1 .. nblk + 0))
    BY <2>1, <2>2, ClosingOne
  <2>4. \A i \in 1 .. Len(s) : \A t \in Targets(s[i]) : MayTarget(t, 0)
    BY <1>3, <1>4, <1>5, <2>2 DEF MayTarget
  <2>5. Emit(0, curFn, In(Top, s))
    BY DEF EndWhile
  <2>6. Ending(s, 0)
    BY <2>3, <2>4 DEF Ending
  <2>. QED BY <1>1, <2>5, <2>6, ClosesTop
<1>7. LeaveStep(0, In(Top, s), exit, {})
  <2>1. {exit} \cup {} = Pending(Here) \cup NewBlocks(0)
    BY <1>3, <1>5
  <2>2. exit \in Names(Here) \cup NewBlocks(0)
    BY <1>3, <1>5
  <2>3. /\ stack' = ReplaceTop(exit)
        /\ curFn' = curFn /\ fns' = fns /\ status' = status
    BY DEF EndWhile
  <2>4. /\ PendingIn(calls') = (PendingIn(calls) \ Pending(Here)) \cup {}
        /\ WaitedForOnce(calls')
        /\ FunctionsOutside(calls')
        /\ \A i \in 1 .. Len(calls') : i \in 1 .. Len(calls) - 1 /\ calls'[i] = calls[i]
    BY <1>1, ReturnFrames
  <2>. HIDE DEF s, exit
  <2>. QED BY <1>6, <2>1, <2>2, <2>3, <2>4 DEF LeaveStep
<1>8. TypeInv'
  BY <1>1, TypeEndWhile
<1>9. Here.kind \in Construct
  BY <1>1 DEF Construct
<1>. HIDE DEF s, exit
<1>. QED BY <1>1, <1>7, <1>8, <1>9, LeaveStatement

LEMMA SafeEndRepeat == IInv /\ EndRepeat => IInv'
<1>. SUFFICES ASSUME IInv, EndRepeat PROVE IInv'
  OBVIOUS
<1>. DEFINE exit == nblk + 1
            s == <<CondBr(Here.node.id, exit, Here.loop)>>
<1>1. /\ Running /\ Here.kind = "repeat" /\ Return
      /\ TypeInv /\ nblk \in Nat /\ Top \in Block
  BY RunningFacts DEF EndRepeat, TypeOK
<1>2. Here.loop \in Block /\ Here.node.id \in Id
  BY <1>1, HereType, StmAssumption DEF TypeInv
<1>3. Names(Here) = {Here.loop} /\ Pending(Here) = {}
  BY <1>1 DEF Names, Pending
<1>4. \A b \in Names(Here) : b \in Block /\ owner[b] = curFn
  <2>1. /\ Owned(calls[Len(calls)], curFn, owner)
        /\ Here \in Frame(Block, Fn)
    BY <1>1, RunningFacts DEF Here
  <2>. QED BY <2>1 DEF Owned, Here, Names, Frame
<1>5. NewBlocks(1) = {exit}
  BY <1>1 DEF NewBlocks
<1>6. Closes(1, In(Top, s)) /\ DOMAIN In(Top, s) = {Top}
  <2>1. CondBr(Here.node.id, exit, Here.loop) \in Instr(1 .. nblk + 1)
    <3>1. \A b \in {exit, Here.loop} : b \in 1 .. nblk + 1
      BY <1>1, <1>2 DEF Block
    <3>. QED BY <1>2, <3>1, InstrType
  <2>2. IsTerminator(CondBr(Here.node.id, exit, Here.loop)) /\ Targets(CondBr(Here.node.id, exit, Here.loop)) = {exit, Here.loop}
    BY DEF Br, CondBr, IsTerminator, Targets
  <2>3. Closing(s) /\ s \in Seq(Instr(1 .. nblk + 1))
    BY <2>1, <2>2, ClosingOne
  <2>4. \A i \in 1 .. Len(s) : \A t \in Targets(s[i]) : MayTarget(t, 1)
    BY <1>3, <1>4, <1>5, <2>2 DEF MayTarget
  <2>5. Emit(1, curFn, In(Top, s))
    BY DEF EndRepeat
  <2>6. Ending(s, 1)
    BY <2>3, <2>4 DEF Ending
  <2>. QED BY <1>1, <2>5, <2>6, ClosesTop
<1>7. LeaveStep(1, In(Top, s), exit, {})
  <2>1. {exit} \cup {} = Pending(Here) \cup NewBlocks(1)
    BY <1>3, <1>5
  <2>2. exit \in Names(Here) \cup NewBlocks(1)
    BY <1>3, <1>5
  <2>3. /\ stack' = ReplaceTop(exit)
        /\ curFn' = curFn /\ fns' = fns /\ status' = status
    BY DEF EndRepeat
  <2>4. /\ PendingIn(calls') = (PendingIn(calls) \ Pending(Here)) \cup {}
        /\ WaitedForOnce(calls')
        /\ FunctionsOutside(calls')
        /\ \A i \in 1 .. Len(calls') : i \in 1 .. Len(calls) - 1 /\ calls'[i] = calls[i]
    BY <1>1, ReturnFrames
  <2>. HIDE DEF s, exit
  <2>. QED BY <1>6, <2>1, <2>2, <2>3, <2>4 DEF LeaveStep
<1>8. TypeInv'
  BY <1>1, TypeEndRepeat
<1>9. Here.kind \in Construct
  BY <1>1 DEF Construct
<1>. HIDE DEF s, exit
<1>. QED BY <1>1, <1>7, <1>8, <1>9, LeaveStatement

LEMMA SafeThen == IInv /\ EndThen => IInv'
<1>. SUFFICES ASSUME IInv, EndThen PROVE IInv'
  OBVIOUS
<1>. DEFINE s == <<Br(Here.merge)>>
            x == ElseFrame(Here.merge)
            z == BodyFrame(Here.node.alt)
            F == Frame(Block, Fn)
<1>1. /\ Running /\ Here.kind = "then" /\ calls \in Seq(F) /\ calls # << >>
      /\ TypeInv /\ nblk \in Nat /\ Top \in Block /\ WaitedForOnce(calls)
      /\ Len(calls) \in 1 .. Len(calls)
  BY RunningFacts DEF EndThen, TypeOK
<1>2. Here.no \in Block /\ Here.merge \in Block /\ Here.node \in Stm
  BY <1>1, HereType DEF TypeInv
<1>3. Names(Here) = {Here.no, Here.merge} /\ Pending(Here) = {Here.no, Here.merge}
  BY <1>1 DEF Names, Pending
<1>4. Here.no # Here.merge
  BY <1>1 DEF WaitedForOnce, Here
<1>5. \A b \in Names(Here) : b \in Block /\ owner[b] = curFn
  <2>1. Owned(calls[Len(calls)], curFn, owner) /\ Here \in Frame(Block, Fn)
    BY <1>1, RunningFacts DEF Here
  <2>. QED BY <2>1 DEF Owned, Here, Names, Frame
<1>6. NewBlocks(0) = {}
  BY <1>1 DEF NewBlocks
<1>7. Closes(0, In(Top, s)) /\ DOMAIN In(Top, s) = {Top}
  <2>1. Br(Here.merge) \in Instr(1 .. nblk + 0)
    <3>1. Here.merge \in 1 .. nblk + 0
      BY <1>1, <1>2 DEF Block
    <3>. QED BY <3>1, InstrType
  <2>2. IsTerminator(Br(Here.merge)) /\ Targets(Br(Here.merge)) = {Here.merge}
    BY DEF Br, IsTerminator, Targets
  <2>3. Closing(s) /\ s \in Seq(Instr(1 .. nblk + 0))
    BY <2>1, <2>2, ClosingOne
  <2>4. \A i \in 1 .. Len(s) : \A t \in Targets(s[i]) : MayTarget(t, 0)
    BY <1>3, <1>5, <2>2 DEF MayTarget
  <2>5. Emit(0, curFn, In(Top, s))
    BY DEF EndThen
  <2>6. Ending(s, 0)
    BY <2>3, <2>4 DEF Ending
  <2>. QED BY <1>1, <2>5, <2>6, ClosesTop
<1>8. Continues(x)
  <2>1. x \in F /\ z \in F
    BY <1>2, StmAssumption DEF ElseFrame, BodyFrame, Frame
  <2>2. x.kind = "else" /\ x.merge = Here.merge /\ z.kind = "body"
    BY DEF ElseFrame, BodyFrame
  <2>3. Pending(x) = {Here.merge} /\ Names(x) = {Here.merge}
    BY <2>2 DEF Pending, Names
  <2>4. calls' = Append([calls EXCEPT ![Len(calls)] = x], z)
    BY DEF EndThen, BecomeAndCall
  <2>. HIDE DEF x, z, F
  <2>5. /\ Len(calls') = Len(calls) + 1
        /\ \A i \in 1 .. Len(calls) - 1 : calls'[i] = calls[i]
        /\ calls'[Len(calls)] = x /\ calls'[Len(calls) + 1] = z
    BY <1>1, <2>1, <2>4, CallsCalled
  <2>. QED BY <1>3, <2>2, <2>3, <2>5 DEF Continues
<1>9. LeaveStep(0, In(Top, s), Here.no, Pending(x))
  <2>1. Pending(x) = {Here.merge}
    BY DEF Pending, ElseFrame
  <2>2. {Here.no} \cup Pending(x) = Pending(Here) \cup NewBlocks(0) /\ Here.no \notin Pending(x)
    BY <1>3, <1>4, <1>6, <2>1
  <2>3. Here.no \in Names(Here) \cup NewBlocks(0)
    BY <1>3
  <2>4. /\ stack' = ReplaceTop(Here.no)
        /\ curFn' = curFn /\ fns' = fns /\ status' = status
    BY DEF EndThen
  <2>. HIDE DEF s, x
  <2>5. /\ PendingIn(calls') = (PendingIn(calls) \ Pending(Here)) \cup Pending(x)
        /\ WaitedForOnce(calls')
        /\ FunctionsOutside(calls')
        /\ \A i \in 1 .. Len(calls') :
              \/ i \in 1 .. Len(calls) - 1 /\ calls'[i] = calls[i]
              \/ calls'[i].kind # "func" /\ Names(calls'[i]) \subseteq Names(Here)
    BY <1>1, <1>8, ContinueFrames
  <2>. QED BY <1>7, <2>2, <2>3, <2>4, <2>5 DEF LeaveStep
<1>10. TypeInv'
  BY <1>1, TypeThen
<1>11. Here.kind \in Construct
  BY <1>1 DEF Construct
<1>. HIDE DEF s, x
<1>. QED BY <1>1, <1>9, <1>10, <1>11, LeaveStatement

LEMMA SafeEndFor == IInv /\ EndFor => IInv'
<1>. SUFFICES ASSUME IInv, EndFor PROVE IInv'
  OBVIOUS
<1>. DEFINE s == <<StepVar(Here.node.id), Br(Here.start)>>
            x == BodyFrame(Here.node.body)
            F == Frame(Block, Fn)
<1>1. /\ Running /\ Here.kind = "for" /\ calls \in Seq(F) /\ calls # << >>
      /\ TypeInv /\ nblk \in Nat /\ Top \in Block
  BY RunningFacts DEF EndFor, TypeOK
<1>2. Here.start \in Block /\ Here.exit \in Block /\ Here.node \in Stm /\ Here.node.id \in Id
  BY <1>1, HereType, StmAssumption DEF TypeInv
<1>3. Names(Here) = {Here.start, Here.exit} /\ Pending(Here) = {Here.exit}
  BY <1>1 DEF Names, Pending
<1>4. \A b \in Names(Here) : b \in Block /\ owner[b] = curFn
  <2>1. Owned(calls[Len(calls)], curFn, owner) /\ Here \in Frame(Block, Fn)
    BY <1>1, RunningFacts DEF Here
  <2>. QED BY <2>1 DEF Owned, Here, Names, Frame
<1>5. NewBlocks(0) = {}
  BY <1>1 DEF NewBlocks
<1>6. Closes(0, In(Top, s)) /\ DOMAIN In(Top, s) = {Top}
  <2>1. Br(Here.start) \in Instr(1 .. nblk + 0) /\ StepVar(Here.node.id) \in Instr(1 .. nblk + 0)
    <3>1. Here.start \in 1 .. nblk + 0
      BY <1>1, <1>2 DEF Block
    <3>. QED BY <1>2, <3>1, InstrType
  <2>2. /\ IsTerminator(Br(Here.start)) /\ Targets(Br(Here.start)) = {Here.start}
        /\ ~IsTerminator(StepVar(Here.node.id)) /\ Targets(StepVar(Here.node.id)) = {}
    BY DEF Br, StepVar, IsTerminator, Targets
  <2>3. Closing(s) /\ s \in Seq(Instr(1 .. nblk + 0))
    BY <2>1, <2>2, ClosingTwo
  <2>4. \A i \in 1 .. Len(s) : \A t \in Targets(s[i]) : MayTarget(t, 0)
    BY <1>3, <1>4, <2>2 DEF MayTarget
  <2>5. Emit(0, curFn, In(Top, s))
    BY DEF EndFor
  <2>6. Ending(s, 0)
    BY <2>3, <2>4 DEF Ending
  <2>. QED BY <1>1, <2>5, <2>6, ClosesTop
<1>7. Continues(x)
  <2>1. x \in F
    BY <1>2, StmAssumption DEF BodyFrame, Frame
  <2>2. x.kind = "body" /\ Pending(x) = {} /\ Names(x) = {}
    BY DEF BodyFrame, Pending, Names
  <2>3. calls' = [calls EXCEPT ![Len(calls)] = x]
    BY DEF EndFor, Become
  <2>. HIDE DEF x, F
  <2>4. /\ Len(calls') = Len(calls)
        /\ \A i \in 1 .. Len(calls) - 1 : calls'[i] = calls[i]
        /\ calls'[Len(calls)] = x
    BY <1>1, <2>1, <2>3, ExceptLast
  <2>. QED BY <1>1, <2>2, <2>4 DEF Continues
<1>8. LeaveStep(0, In(Top, s), Here.exit, Pending(x))
  <2>1. Pending(x) = {}
    BY DEF Pending, BodyFrame
  <2>2. {Here.exit} \cup Pending(x) = Pending(Here) \cup NewBlocks(0) /\ Here.exit \notin Pending(x)
    BY <1>3, <1>5, <2>1
  <2>3. Here.exit \in Names(Here) \cup NewBlocks(0)
    BY <1>3
  <2>4. /\ stack' = ReplaceTop(Here.exit)
        /\ curFn' = curFn /\ fns' = fns /\ status' = status
    BY DEF EndFor
  <2>. HIDE DEF s, x
  <2>5. /\ PendingIn(calls') = (PendingIn(calls) \ Pending(Here)) \cup Pending(x)
        /\ WaitedForOnce(calls')
        /\ FunctionsOutside(calls')
        /\ \A i \in 1 .. Len(calls') :
              \/ i \in 1 .. Len(calls) - 1 /\ calls'[i] = calls[i]
              \/ calls'[i].kind # "func" /\ Names(calls'[i]) \subseteq Names(Here)
    BY <1>1, <1>7, ContinueFrames
  <2>. QED BY <1>6, <2>2, <2>3, <2>4, <2>5 DEF LeaveStep
<1>9. TypeInv'
  BY <1>1, TypeEndFor
<1>10. Here.kind \in Construct
  BY <1>1 DEF Construct
<1>. HIDE DEF s, x
<1>. QED BY <1>1, <1>8, <1>9, <1>10, LeaveStatement

(* A list of statements or of functions goes on, or is done. *)
LEMMA SilentFrames ==
    ASSUME IInv, Running,
           \/ \E K : AtStatement(K) /\ Become(Rest)
           \/ Here.kind \in {"body", "funcs"} /\ Return
    PROVE  /\ PendingIn(calls') = PendingIn(calls)
           /\ WaitedForOnce(calls')
           /\ FunctionsOutside(calls')
           /\ \A i \in 1 .. Len(calls') :
                 \/ i \in 1 .. Len(calls) - 1 /\ calls'[i] = calls[i]
                 \/ calls'[i].kind # "func" /\ Names(calls'[i]) = {}
<1>. DEFINE F == Frame(Block, Fn)
<1>1. calls \in Seq(F) /\ calls # << >> /\ TypeInv
  BY RunningFacts
<1>2. CASE \E K : AtStatement(K) /\ Become(Rest)
  <2>0. PICK K : AtStatement(K) /\ Become(Rest)
    BY <1>2
  <2>1. Here.kind = "body" /\ Rest \in F
    BY <1>1, <2>0, StmtType DEF AtStatement, TypeInv
  <2>2. Pending(Here) = {} /\ Names(Here) = {}
    BY <2>1 DEF Pending, Names
  <2>3. Rest.kind = "body" /\ Pending(Rest) = {} /\ Names(Rest) = {}
    BY DEF Rest, BodyFrame, Pending, Names
  <2>4. calls' = [calls EXCEPT ![Len(calls)] = Rest]
    BY <2>0 DEF Become
  <2>. HIDE DEF F
  <2>5. /\ Len(calls') = Len(calls)
        /\ \A i \in 1 .. Len(calls) - 1 : calls'[i] = calls[i]
        /\ calls'[Len(calls)] = Rest
    BY <1>1, <2>1, <2>4, ExceptLast
  <2>6. Continues(Rest)
    BY <1>1, <2>3, <2>5 DEF Continues
  <2>7. /\ PendingIn(calls') = (PendingIn(calls) \ Pending(Here)) \cup Pending(Rest)
        /\ WaitedForOnce(calls')
        /\ FunctionsOutside(calls')
        /\ \A i \in 1 .. Len(calls') :
              \/ i \in 1 .. Len(calls) - 1 /\ calls'[i] = calls[i]
              \/ calls'[i].kind # "func" /\ Names(calls'[i]) \subseteq Names(Here)
    BY <2>6, ContinueFrames
  <2>. QED BY <2>2, <2>3, <2>7
<1>3. CASE Here.kind \in {"body", "funcs"} /\ Return
  <2>1. Pending(Here) = {}
    BY <1>3 DEF Pending
  <2>. QED BY <1>3, <2>1, ReturnFrames
<1>. QED BY <1>2, <1>3

(* The invariant, after a step that moved frames only, from what it keeps. *)
LEMMA SafeSilent == IInv /\ (SkipGoto \/ BodyDone \/ FuncsDone) => IInv'
<1>. SUFFICES ASSUME IInv, SkipGoto \/ BodyDone \/ FuncsDone PROVE IInv'
  OBVIOUS
<1>1. Running /\ UNCHANGED <<code, owner, nblk, fns, stack, curFn, status>>
  BY DEF SkipGoto, BodyDone, FuncsDone, AtStatement
<1>2. /\ PendingIn(calls') = PendingIn(calls)
      /\ WaitedForOnce(calls')
      /\ FunctionsOutside(calls')
      /\ \A i \in 1 .. Len(calls') :
            \/ i \in 1 .. Len(calls) - 1 /\ calls'[i] = calls[i]
            \/ calls'[i].kind # "func" /\ Names(calls'[i]) = {}
  BY <1>1, SilentFrames DEF SkipGoto, BodyDone, FuncsDone
<1>3. /\ OneTerminator /\ LocalTargets
      /\ stack # << >> /\ owner[Top] = curFn
      /\ OpenBlocks = {Top} \cup PendingBlocks
      /\ Top \notin PendingBlocks
      /\ \A i \in 1 .. Len(calls) : Owned(calls[i], curFn, owner)
      /\ Len(calls) \in 1 .. Len(calls)
  BY <1>1, RunningFacts
<1>4. Block' = Block /\ OpenBlocks' = OpenBlocks /\ Top' = Top /\ PendingBlocks' = PendingBlocks
  BY <1>1, <1>2 DEF Block, OpenBlocks, Ended, Top, PendingBlocks
<1>5. OneTerminator' /\ LocalTargets'
  BY <1>1, <1>3, <1>4 DEF OneTerminator, LocalTargets
<1>6. ASSUME NEW i \in 1 .. Len(calls') PROVE Owned(calls'[i], curFn', owner')
  <2>1. CASE i \in 1 .. Len(calls) - 1 /\ calls'[i] = calls[i]
    <3>1. i \in 1 .. Len(calls)
      BY <1>3, <2>1
    <3>. QED BY <1>1, <1>3, <2>1, <3>1
  <2>2. CASE calls'[i].kind # "func" /\ Names(calls'[i]) = {}
    BY <2>2 DEF Owned
  <2>. QED BY <1>2, <2>1, <2>2
<1>7. TypeInv' /\ status' = "running"
  BY <1>1, InvType, TypeSilent DEF Running
<1>8. /\ OpenBlocksAccounted' /\ (Top \notin PendingBlocks)' /\ (owner[Top] = curFn)'
      /\ WaitedForOnce(calls)' /\ FunctionsOutside(calls)' /\ stack' # << >>
  BY <1>1, <1>2, <1>3, <1>4 DEF OpenBlocksAccounted
<1>. QED BY <1>5, <1>6, <1>7, <1>8 DEF IInv, TypeInv

(* An event that is no terminator is appended to the open block on top. *)
LEMMA EmitAppends ==
    ASSUME IInv, Running, NEW STATE i, i \in Instr(Block), ~IsTerminator(i), Targets(i) = {},
           Emit(0, curFn, In(Top, <<i>>))
    PROVE  /\ OneTerminator' /\ LocalTargets'
           /\ Block' = Block
           /\ OpenBlocks' = OpenBlocks
           /\ \A b \in Block : owner'[b] = owner[b]
           /\ \A b \in Block : b # Top => code'[b] = code[b]
<1>1. /\ TypeOK /\ nblk \in Nat /\ Top \in Block /\ ~Ended(Top)
      /\ OneTerminator /\ LocalTargets
  BY RunningFacts DEF TypeOK
<1>2. DOMAIN In(Top, <<i>>) = {Top} /\ In(Top, <<i>>)[Top] = <<i>>
  BY DEF In
<1>3. Block' = Block /\ 1 .. nblk + 0 = Block
  BY <1>1 DEF Emit, Block
<1>4. /\ \A b \in Block : owner'[b] = owner[b]
      /\ \A b \in Block : b # Top => code'[b] = code[b]
      /\ code'[Top] = code[Top] \o <<i>>
  BY <1>1, <1>2, <1>3 DEF Emit, Old
<1>5. code[Top] \in Seq(Instr(Block))
  BY <1>1 DEF TypeOK
<1>6. /\ Len(code[Top]) \in Nat
      /\ Len(code'[Top]) = Len(code[Top]) + 1
      /\ \A k \in 1 .. Len(code[Top]) : code'[Top][k] = code[Top][k]
      /\ code'[Top][Len(code[Top]) + 1] = i
  <2>. DEFINE S == Instr(Block)
  <2>1. code[Top] \in Seq(S) /\ i \in S
    BY <1>5
  <2>. HIDE DEF S
  <2>. QED BY <1>4, <2>1
<1>7. \A k \in 1 .. Len(code[Top]) : ~IsTerminator(code[Top][k])
  <2>1. \A k \in 1 .. Len(code[Top]) : k \in 1 .. Len(code[Top]) - 1 \/ k = Len(code[Top])
    BY <1>6
  <2>2. code[Top] # << >> => ~IsTerminator(code[Top][Len(code[Top])])
    BY <1>1 DEF Ended
  <2>. QED BY <1>1, <1>5, <2>1, <2>2 DEF OneTerminator
<1>8. OneTerminator'
  <2>1. SUFFICES ASSUME NEW b \in Block, NEW k \in 1 .. Len(code'[b]) - 1
                 PROVE  ~IsTerminator(code'[b][k])
    BY <1>3 DEF OneTerminator
  <2>2. CASE b = Top
    <3>1. k \in 1 .. Len(code[Top])
      BY <1>6, <2>2
    <3>. QED BY <1>6, <1>7, <2>2, <3>1
  <2>3. CASE b # Top
    BY <1>1, <1>4, <2>3 DEF OneTerminator
  <2>. QED BY <2>2, <2>3
<1>9. LocalTargets'
  <2>1. SUFFICES ASSUME NEW b \in Block, NEW k \in 1 .. Len(code'[b]), NEW t \in Targets(code'[b][k])
                 PROVE  t \in Block /\ owner'[t] = owner'[b]
    BY <1>3 DEF LocalTargets
  <2>2. CASE b = Top
    <3>1. k \in 1 .. Len(code[Top]) \/ k = Len(code[Top]) + 1
      BY <1>6, <2>2
    <3>2. k \in 1 .. Len(code[Top]) /\ code'[b][k] = code[Top][k]
      BY <1>6, <2>2, <3>1
    <3>. QED BY <1>1, <1>4, <2>2, <3>2 DEF LocalTargets
  <2>3. CASE b # Top
    BY <1>1, <1>4, <2>3 DEF LocalTargets
  <2>. QED BY <2>2, <2>3
<1>10. OpenBlocks' = OpenBlocks
  <2>1. \A b \in Block : b # Top => (Ended(b)' <=> Ended(b))
    BY <1>4 DEF Ended
  <2>2. \A b \in Block : b = Top => ~Ended(b)'
    BY <1>6 DEF Ended
  <2>3. \A b : b \in OpenBlocks' <=> b \in Block /\ ~Ended(b)'
    BY <1>3 DEF OpenBlocks
  <2>4. \A b : b \in OpenBlocks <=> b \in Block /\ ~Ended(b)
    BY DEF OpenBlocks
  <2>. QED BY <1>1, <2>1, <2>2, <2>3, <2>4
<1>. QED BY <1>3, <1>4, <1>8, <1>9, <1>10

LEMMA SafeSimple == IInv /\ EmitSimple => IInv'
<1>. SUFFICES ASSUME IInv, EmitSimple PROVE IInv'
  OBVIOUS
<1>1. /\ AtStatement({"simple"}) /\ Become(Rest)
      /\ UNCHANGED <<fns, stack, curFn, status>>
      /\ Emit(0, curFn, In(Top, <<Do(Stmt.id)>>))
  BY DEF EmitSimple
<1>2. /\ Running /\ TypeInv /\ Stmt.id \in Id
      /\ OneTerminator /\ LocalTargets
      /\ stack # << >> /\ Top \in Block /\ owner[Top] = curFn
      /\ OpenBlocks = {Top} \cup PendingBlocks
      /\ Top \notin PendingBlocks
      /\ \A i \in 1 .. Len(calls) : Owned(calls[i], curFn, owner) /\ calls[i] \in Frame(Block, Fn)
      /\ Len(calls) \in 1 .. Len(calls)
  BY <1>1, RunningFacts, StmtType DEF AtStatement
<1>3. /\ Do(Stmt.id) \in Instr(Block)
      /\ ~IsTerminator(Do(Stmt.id)) /\ Targets(Do(Stmt.id)) = {}
  BY <1>2 DEF Do, Instr, IsTerminator, Targets
<1>4. /\ OneTerminator' /\ LocalTargets'
      /\ Block' = Block /\ OpenBlocks' = OpenBlocks
      /\ \A b \in Block : owner'[b] = owner[b]
  BY <1>1, <1>2, <1>3, EmitAppends
<1>5. /\ PendingIn(calls') = PendingIn(calls)
      /\ WaitedForOnce(calls')
      /\ FunctionsOutside(calls')
      /\ \A i \in 1 .. Len(calls') :
            \/ i \in 1 .. Len(calls) - 1 /\ calls'[i] = calls[i]
            \/ calls'[i].kind # "func" /\ Names(calls'[i]) = {}
  BY <1>1, <1>2, SilentFrames
<1>6. ASSUME NEW i \in 1 .. Len(calls') PROVE Owned(calls'[i], curFn', owner')
  <2>1. CASE i \in 1 .. Len(calls) - 1 /\ calls'[i] = calls[i]
    <3>1. i \in 1 .. Len(calls)
      BY <1>2, <2>1
    <3>2. calls[i] \in Frame(Block, Fn) /\ Owned(calls[i], curFn, owner)
      BY <1>2, <3>1
    <3>. QED BY <1>1, <1>4, <2>1, <3>2, OwnedKept
  <2>2. CASE calls'[i].kind # "func" /\ Names(calls'[i]) = {}
    BY <2>2 DEF Owned
  <2>. QED BY <1>5, <2>1, <2>2
<1>7. Top' = Top /\ PendingBlocks' = PendingBlocks
  BY <1>1, <1>5 DEF Top, PendingBlocks
<1>8. TypeInv' /\ status' = "running"
  BY <1>1, <1>2, TypeSimple DEF Running
<1>9. /\ OpenBlocksAccounted' /\ (Top \notin PendingBlocks)' /\ (owner[Top] = curFn)'
      /\ WaitedForOnce(calls)' /\ FunctionsOutside(calls)' /\ stack' # << >>
  BY <1>1, <1>2, <1>4, <1>5, <1>7 DEF OpenBlocksAccounted
<1>. QED BY <1>4, <1>6, <1>8, <1>9 DEF IInv, TypeInv

LEMMA SafeUnchanged == IInv /\ (Abort \/ Stopped \/ UNCHANGED vars) => IInv'
<1>. SUFFICES ASSUME IInv, Abort \/ Stopped \/ UNCHANGED vars PROVE IInv'
  OBVIOUS
<1>1. /\ UNCHANGED <<code, owner, nblk, fns, stack, curFn, calls>>
      /\ status' = status \/ status' = "aborted"
  BY DEF Abort, Stopped, vars
<1>2. Block' = Block /\ OpenBlocks' = OpenBlocks /\ Top' = Top /\ PendingBlocks' = PendingBlocks
  BY <1>1 DEF Block, OpenBlocks, Ended, Top, PendingBlocks
<1>3. TypeInv' /\ OneTerminator' /\ LocalTargets'
  BY <1>1, <1>2, InvType, TypeUnchanged DEF IInv, OneTerminator, LocalTargets
<1>. QED BY <1>1, <1>2, <1>3 DEF IInv, TypeInv, OpenBlocksAccounted

LEMMA SafeInit == Init => IInv
<1>. SUFFICES ASSUME Init PROVE IInv
  OBVIOUS
<1>1. PICK p \in Program : calls = <<BodyFrame(p.body), FuncsFrame(p.funcs)>>
  BY DEF Init
<1>2. Len(calls) = 2 /\ calls[1].kind = "body" /\ calls[2].kind = "funcs"
  BY <1>1 DEF BodyFrame, FuncsFrame
<1>3. TypeOK
  BY TypeInit DEF TypeInv
<1>4. /\ Block = {1} /\ code[1] = << >> /\ owner[1] = 1 /\ Top = 1
      /\ stack # << >> /\ curFn = 1 /\ status = "running"
  BY DEF Init, Block, Top
<1>5. \A i \in 1 .. Len(calls) : calls[i].kind \in {"body", "funcs"}
  BY <1>2
<1>6. \A i \in 1 .. Len(calls) : Pending(calls[i]) = {} /\ Names(calls[i]) = {}
  BY <1>5 DEF Pending, Names
<1>7. PendingBlocks = {}
  BY <1>6 DEF PendingBlocks, PendingIn
<1>8. OpenBlocks = {1}
  BY <1>4 DEF OpenBlocks, Ended
<1>9. OneTerminator /\ LocalTargets
  BY <1>4 DEF OneTerminator, LocalTargets
<1>10. WaitedForOnce(calls) /\ FunctionsOutside(calls)
  BY <1>5, <1>6 DEF WaitedForOnce, FunctionsOutside, Construct
<1>11. \A i \in 1 .. Len(calls) : Owned(calls[i], curFn, owner)
  BY <1>5, <1>6 DEF Owned
<1>. QED BY <1>3, <1>4, <1>7, <1>8, <1>9, <1>10, <1>11 DEF IInv, OpenBlocksAccounted
--------------------------------------------------------------------------------
(* Functions *)

(* A list of functions, or a function, is not inside a statement. *)
LEMMA NoStatementAround ==
    ASSUME IInv, Running, Here.kind \in {"func", "funcs"}
    PROVE  \A i \in 1 .. Len(calls) : Names(calls[i]) = {} /\ calls[i].kind \notin Construct
<1>1. FunctionsOutside(calls) /\ calls # << >> /\ calls \in Seq(Frame(Block, Fn))
  BY RunningFacts
<1>2. Len(calls) \in 1 .. Len(calls) /\ Len(calls) \in Nat
  BY <1>1
<1>3. ASSUME NEW i \in 1 .. Len(calls) PROVE calls[i].kind \notin Construct
  <2>1. CASE i = Len(calls)
    BY <2>1 DEF Construct, Here
  <2>2. CASE i < Len(calls)
    BY <1>1, <1>2, <2>2 DEF FunctionsOutside, Here
  <2>. QED BY <1>2, <2>1, <2>2
<1>. QED BY <1>3 DEF Names, Construct

(* A function is entered: its handler calls those of its functions and of  *)
(* its body, the first of them first.                                      *)
LEMMA FuncPushed ==
    ASSUME IInv, BeginFunc
    PROVE  LET m == Len(calls) IN
           /\ m \in Nat /\ m > 0 /\ Len(calls') = m + 3
           /\ \A i \in 1 .. m - 1 : calls'[i] = calls[i]
           /\ calls'[m] = FuncsFrame(Tail(Here.defs))
           /\ calls'[m + 1] = FuncFrame(Top, curFn)
           /\ calls'[m + 2] = BodyFrame(Here.defs[1].body)
           /\ calls'[m + 3] = FuncsFrame(Here.defs[1].funcs)
<1>. DEFINE m == Len(calls)
            x == FuncsFrame(Tail(Here.defs))
            y == FuncFrame(Top, curFn)
            z == BodyFrame(Here.defs[1].body)
            u == FuncsFrame(Here.defs[1].funcs)
            c == [calls EXCEPT ![m] = x]
<1>1. calls \in Seq(Frame(Block, Fn)) /\ calls # << >> /\ m \in Nat /\ m > 0
  BY RunningFacts DEF BeginFunc
<1>2. calls' = c \o <<y, z, u>>
  BY DEF BeginFunc
<1>3. Len(c) = m /\ c \in Seq({calls[i] : i \in 1 .. m} \cup {x})
  BY <1>1
<1>4. <<y, z, u>> \in Seq({y, z, u}) /\ Len(<<y, z, u>>) = 3
  OBVIOUS
<1>5. c[m] = x /\ \A i \in 1 .. m - 1 : c[i] = calls[i]
  BY <1>1
<1>. HIDE DEF c, x, y, z, u, m
<1>6. /\ Len(calls') = m + 3
      /\ \A i \in 1 .. m : calls'[i] = c[i]
      /\ calls'[m + 1] = y /\ calls'[m + 2] = z /\ calls'[m + 3] = u
  BY <1>1, <1>2, <1>3, <1>4
<1>7. /\ \A i \in 1 .. m - 1 : calls'[i] = calls[i]
      /\ calls'[m] = x
  BY <1>1, <1>5, <1>6
<1>. QED BY <1>1, <1>6, <1>7 DEF m, x, y, z, u

LEMMA SafeFunc == IInv /\ BeginFunc => IInv'
<1>. SUFFICES ASSUME IInv, BeginFunc PROVE IInv'
  OBVIOUS
<1>. DEFINE def == Here.defs[1]
            entry == nblk + 1
            fn == Len(fns) + 1
            x == FuncsFrame(Tail(Here.defs))
            y == FuncFrame(Top, curFn)
            z == BodyFrame(def.body)
            u == FuncsFrame(def.funcs)
            m == Len(calls)
            own == owner'
<1>1. /\ Running /\ Here.kind = "funcs"
      /\ Emit(1, fn, In(entry, << >>))
      /\ stack' = Append(stack, entry) /\ curFn' = fn /\ status' = status
      /\ calls' = [calls EXCEPT ![m] = x] \o <<y, z, u>>
  BY DEF BeginFunc
<1>2. /\ TypeInv /\ TypeOK /\ OneTerminator /\ LocalTargets
      /\ stack # << >> /\ Top \in Block /\ ~Ended(Top) /\ owner[Top] = curFn
      /\ OpenBlocks = {Top} \cup PendingBlocks
      /\ Top \notin PendingBlocks
      /\ PendingBlocks \subseteq Block
      /\ WaitedForOnce(calls)
      /\ \A i \in 1 .. m : Owned(calls[i], curFn, owner) /\ calls[i] \in Frame(Block, Fn)
      /\ calls \in Seq(Frame(Block, Fn)) /\ calls # << >>
  BY <1>1, RunningFacts
<1>3. TypeInv' /\ status = "running" /\ status' = "running"
  BY <1>1, <1>2, TypeFunc DEF Running
<1>4. nblk \in Nat /\ Block' = Block \cup {entry} /\ entry \notin Block /\ entry \in Block'
  <2>1. nblk \in Nat /\ nblk' = nblk + 1
    BY <1>1, <1>2 DEF TypeOK, Emit
  <2>2. Block = 1 .. nblk /\ Block' = 1 .. nblk + 1
    BY <2>1 DEF Block
  <2>. QED BY <2>1, <2>2
<1>5. /\ \A b \in Block : code'[b] = code[b] /\ owner'[b] = owner[b]
      /\ code'[entry] = << >> /\ owner'[entry] = fn
  <2>1. DOMAIN In(entry, << >>) = {entry} /\ In(entry, << >>)[entry] = << >>
    BY DEF In
  <2>2. \A b \in Block' : code'[b] = IF b = entry THEN << >> \o << >> ELSE Old(b)
    BY <1>1, <1>4, <2>1 DEF Emit, Old, Block
  <2>3. \A b \in Block' : owner'[b] = IF b \in Block THEN owner[b] ELSE fn
    BY <1>1, <1>4 DEF Emit, Block
  <2>4. << >> \o << >> = << >>
    OBVIOUS
  <2>. QED BY <1>4, <2>2, <2>3, <2>4 DEF Old
<1>6. OneTerminator' /\ LocalTargets'
  <2>1. OneTerminator'
    BY <1>2, <1>4, <1>5 DEF OneTerminator
  <2>2. LocalTargets'
    BY <1>2, <1>4, <1>5 DEF LocalTargets
  <2>. QED BY <2>1, <2>2
<1>7. OpenBlocks' = OpenBlocks \cup {entry}
  <2>1. \A b \in Block : Ended(b)' <=> Ended(b)
    BY <1>5 DEF Ended
  <2>2. \A b : b = entry => ~Ended(b)'
    BY <1>5 DEF Ended
  <2>3. \A b : b \in OpenBlocks' <=> b \in Block' /\ ~Ended(b)'
    BY DEF OpenBlocks
  <2>4. \A b : b \in OpenBlocks <=> b \in Block /\ ~Ended(b)
    BY DEF OpenBlocks
  <2>. QED BY <1>4, <2>1, <2>2, <2>3, <2>4
<1>8. Top' = entry /\ stack' # << >>
  <2>1. stack \in Seq(Block)
    BY <1>2 DEF TypeOK
  <2>2. Len(stack') = Len(stack) + 1 /\ stack'[Len(stack) + 1] = entry
    BY <1>1, <2>1
  <2>3. stack' # << >>
    BY <1>3 DEF TypeInv
  <2>. QED BY <2>2, <2>3 DEF Top
<1>9. /\ m \in Nat /\ m > 0 /\ Len(calls') = m + 3
      /\ \A i \in 1 .. m - 1 : calls'[i] = calls[i]
      /\ calls'[m] = x /\ calls'[m + 1] = y /\ calls'[m + 2] = z /\ calls'[m + 3] = u
  BY FuncPushed
<1>10. /\ x.kind = "funcs" /\ z.kind = "body" /\ u.kind = "funcs"
       /\ y.kind = "func" /\ y.blk = Top /\ y.fn = curFn
  BY DEF FuncsFrame, FuncFrame, BodyFrame
<1>11. PendingIn(calls') = PendingIn(calls) \cup {Top} /\ WaitedForOnce(calls')
  <2>1. Pending(x) = {} /\ Pending(y) = {Top} /\ Pending(calls[m]) = {}
    BY <1>1, <1>10 DEF Pending, Here
  <2>. HIDE DEF x, y, z, u, m
  <2>2. \A i \in m + 2 .. Len(calls') : calls'[i].kind \in {"body", "funcs"}
    BY <1>9, <1>10
  <2>3. Pending(y) \cap PendingIn(calls) = {}
    BY <1>2, <2>1 DEF PendingBlocks
  <2>4. Pushed(calls, calls')
    BY <1>2, <1>9, <1>10, <2>1, <2>2, <2>3 DEF Pushed, m
  <2>5. /\ PendingIn(calls') = PendingIn(calls) \cup Pending(calls'[Len(calls) + 1])
        /\ WaitedForOnce(calls')
    BY <2>4, PendingPushed
  <2>. QED BY <1>9, <2>1, <2>5 DEF m
<1>12. OpenBlocksAccounted' /\ (Top \notin PendingBlocks)' /\ (owner[Top] = curFn)'
  BY <1>1, <1>2, <1>4, <1>5, <1>7, <1>8, <1>11 DEF OpenBlocksAccounted, PendingBlocks
<1>13. \A i \in 1 .. m : Names(calls[i]) = {} /\ calls[i].kind \notin Construct
  BY <1>1, NoStatementAround
<1>14. ASSUME NEW i \in 1 .. Len(calls')
       PROVE  \/ i \in 1 .. m - 1 /\ i \in 1 .. m /\ calls'[i] = calls[i]
              \/ calls'[i] = y
              \/ calls'[i].kind \in {"body", "funcs"}
  <2>. HIDE DEF x, y, z, u, m
  <2>. QED BY <1>9, <1>10
<1>15. ASSUME NEW i \in 1 .. Len(calls')
       PROVE  Owned(calls'[i], curFn', owner') /\ calls'[i].kind \notin Construct
  <2>. HIDE DEF x, y, z, u
  <2>1. CASE i \in 1 .. m - 1 /\ i \in 1 .. m /\ calls'[i] = calls[i]
    <3>1. calls[i] \in Frame(Block, Fn) /\ Owned(calls[i], curFn, owner) /\ Names(calls[i]) = {}
      BY <1>2, <1>13, <2>1
    <3>2. calls[i].kind = "func" => calls[i].blk \in Block
      BY <3>1 DEF Frame
    <3>. QED BY <1>5, <1>13, <2>1, <3>1, <3>2 DEF Owned
  <2>2. CASE calls'[i] = y
    <3>1. Names(y) = {}
      BY <1>10 DEF Names
    <3>. QED BY <1>2, <1>5, <1>10, <2>2, <3>1 DEF Owned, Construct
  <2>3. CASE calls'[i].kind \in {"body", "funcs"}
    BY <2>3 DEF Owned, Names, Construct
  <2>. QED BY <1>14, <2>1, <2>2, <2>3
<1>16. FunctionsOutside(calls)'
  BY <1>15 DEF FunctionsOutside
<1>. HIDE DEF x, y, z, u, m
<1>. QED BY <1>3, <1>6, <1>8, <1>11, <1>12, <1>15, <1>16 DEF IInv, TypeInv

(* A function is complete: its last block gets the return instruction. *)
LEMMA CloseFunction ==
    ASSUME IInv, Running, TypeInv', Emit(0, curFn, In(Top, <<Ret>>))
    PROVE  /\ OneTerminator' /\ LocalTargets'
           /\ OpenBlocks' = OpenBlocks \ {Top}
           /\ \A b \in Block : owner'[b] = owner[b]
           /\ \A b \in Block : b # Top => code'[b] = code[b]
<1>. DEFINE out == In(Top, <<Ret>>)
<1>1. /\ TypeOK /\ OneTerminator /\ LocalTargets /\ nblk \in Nat
      /\ Top \in Block /\ ~Ended(Top) /\ owner[Top] = curFn
  BY RunningFacts DEF TypeOK
<1>2. Closes(0, out) /\ DOMAIN out = {Top}
  <2>1. Ret \in Instr(1 .. nblk + 0)
    BY InstrType
  <2>2. IsTerminator(Ret) /\ Targets(Ret) = {}
    BY DEF Ret, IsTerminator, Targets
  <2>3. Closing(<<Ret>>) /\ <<Ret>> \in Seq(Instr(1 .. nblk + 0))
    BY <2>1, <2>2, ClosingOne
  <2>4. Ending(<<Ret>>, 0)
    BY <2>2, <2>3 DEF Ending
  <2>. QED BY <1>1, <2>4, ClosesTop
<1>3. NewBlocks(0) = {}
  BY <1>1 DEF NewBlocks
<1>4. TypeOK'
  BY DEF TypeInv
<1>. HIDE DEF out
<1>5. /\ OneTerminator' /\ LocalTargets'
      /\ OpenBlocks' = (OpenBlocks \ {Top}) \cup (NewBlocks(0) \ DOMAIN out)
      /\ \A b \in Block : owner'[b] = owner[b]
      /\ \A b \in Block : b # Top => code'[b] = code[b]
  BY <1>1, <1>2, <1>4, EmitCloses
<1>. QED BY <1>3, <1>5

LEMMA SafeEndFunc == IInv /\ EndFunc => IInv'
<1>. SUFFICES ASSUME IInv, EndFunc PROVE IInv'
  OBVIOUS
<1>1. /\ Running /\ Here.kind = "func" /\ Return
      /\ Emit(0, curFn, In(Top, <<Ret>>))
      /\ curFn' = Here.fn /\ status' = status
  BY DEF EndFunc
<1>2. /\ TypeInv /\ TypeOK /\ Top \in Block
      /\ OpenBlocks = {Top} \cup PendingBlocks
      /\ Top \notin PendingBlocks
      /\ Pending(Here) \subseteq PendingBlocks
      /\ \A i \in 1 .. Len(calls) : Owned(calls[i], curFn, owner) /\ calls[i] \in Frame(Block, Fn)
      /\ Len(calls) \in 1 .. Len(calls)
  BY <1>1, RunningFacts
<1>3. TypeInv' /\ status = "running" /\ status' = "running"
  BY <1>1, <1>2, TypeReturn DEF Running
<1>4. /\ OneTerminator' /\ LocalTargets'
      /\ OpenBlocks' = OpenBlocks \ {Top}
      /\ \A b \in Block : owner'[b] = owner[b]
  BY <1>1, <1>3, CloseFunction
<1>5. Here.blk \in Block /\ owner[Here.blk] = Here.fn /\ Pending(Here) = {Here.blk}
  <2>1. Here \in Frame(Block, Fn) /\ Owned(Here, curFn, owner)
    BY <1>2 DEF Here
  <2>. QED BY <1>1, <2>1 DEF Owned, Frame, Pending
<1>6. Top' = Here.blk /\ stack' # << >>
  <2>1. PICK k \in 1 .. Len(stack) : stack[k] = Here.blk /\ stack' = SubSeq(stack, 1, k)
    BY DEF EndFunc
  <2>2. stack \in Seq(Block) /\ k \in 0 .. Len(stack) /\ k \in 1 .. k
    BY <1>2 DEF TypeOK
  <2>3. Len(stack') = k /\ stack'[k] = stack[k]
    BY <2>1, <2>2, Prefix
  <2>4. stack' # << >>
    BY <1>3 DEF TypeInv
  <2>. QED BY <2>1, <2>3, <2>4 DEF Top
<1>7. /\ PendingIn(calls') = PendingIn(calls) \ Pending(Here)
      /\ WaitedForOnce(calls')
      /\ FunctionsOutside(calls')
      /\ \A i \in 1 .. Len(calls') : i \in 1 .. Len(calls) - 1 /\ calls'[i] = calls[i]
  BY <1>1, ReturnFrames
<1>8. PendingBlocks' = PendingBlocks \ {Here.blk}
  BY <1>5, <1>7 DEF PendingBlocks
<1>9. OpenBlocksAccounted' /\ (Top \notin PendingBlocks)' /\ (owner[Top] = curFn)'
  BY <1>1, <1>2, <1>4, <1>5, <1>6, <1>8 DEF OpenBlocksAccounted
<1>10. ASSUME NEW i \in 1 .. Len(calls') PROVE Owned(calls'[i], curFn', owner')
  <2>1. i \in 1 .. Len(calls) /\ calls'[i] = calls[i]
    BY <1>2, <1>7
  <2>2. calls[i] \in Frame(Block, Fn) /\ Owned(calls[i], curFn, owner) /\ Names(calls[i]) = {}
    BY <1>1, <1>2, <2>1, NoStatementAround
  <2>3. calls[i].kind = "func" => calls[i].blk \in Block
    BY <2>2 DEF Frame
  <2>. QED BY <1>4, <2>1, <2>2, <2>3 DEF Owned
<1>11. WaitedForOnce(calls)' /\ FunctionsOutside(calls)'
  BY <1>7
<1>. QED BY <1>3, <1>4, <1>6, <1>9, <1>10, <1>11 DEF IInv, TypeInv

LEMMA SafeFinish == IInv /\ Finish => IInv'
<1>. SUFFICES ASSUME IInv, Finish PROVE IInv'
  OBVIOUS
<1>1. /\ Running /\ Len(calls) = 1 /\ Here.kind = "body"
      /\ Emit(0, curFn, In(Top, <<Ret>>)) /\ status' = "done"
  BY DEF Finish
<1>2. TypeInv /\ OpenBlocks = {Top} \cup PendingBlocks
  BY <1>1, RunningFacts
<1>3. TypeInv'
  BY <1>2, TypeReturn
<1>4. OneTerminator' /\ LocalTargets' /\ OpenBlocks' = OpenBlocks \ {Top}
  BY <1>1, <1>3, CloseFunction
<1>5. PendingBlocks = {}
  <2>1. Pending(calls[1]) = {}
    BY <1>1 DEF Here, Pending
  <2>. QED BY <1>1, <2>1 DEF PendingBlocks, PendingIn
<1>6. OpenBlocks' = {}
  BY <1>2, <1>4, <1>5
<1>. QED BY <1>1, <1>3, <1>4, <1>6 DEF IInv, TypeInv
--------------------------------------------------------------------------------
(* Theorems *)

LEMMA SafeStep == IInv /\ [Next]_vars => IInv'
  BY SafeSimple, SafeSilent, SafeUnchanged, SafeIf, SafeThen, SafeElse, SafeWhile, SafeEndWhile,
     SafeRepeat, SafeEndRepeat, SafeFor, SafeEndFor, SafeFunc, SafeEndFunc, SafeFinish
     DEF Next

(* IInv holds in every reachable state, for all programs. *)
THEOREM InductiveInvariant == Spec => []IInv
  BY SafeInit, SafeStep, PTL DEF Spec

(* While the walk runs, the block on top of STACKofCodeRUN and those the   *)
(* handlers in progress wait for are the blocks without a terminator, for  *)
(* all programs: no handler of codegen.cpp leaves a block unfinished.      *)
THEOREM BlocksAccounted == Spec => []OpenBlocksAccounted
<1>1. IInv => OpenBlocksAccounted
  BY DEF IInv, OpenBlocksAccounted
<1>. QED BY <1>1, InductiveInvariant, PTL

(* The IR of every program that is lowered to its end is well formed:      *)
(* every block ends in its only terminator, and branches stay in their     *)
(* function.                                                               *)
THEOREM WellFormedResult == Spec => []WellFormedIR
<1>1. IInv => WellFormedIR
  <2>1. SUFFICES ASSUME IInv, status = "done", NEW b \in Block
                 PROVE  /\ Ended(b)
                        /\ \A i \in 1 .. Len(code[b]) - 1 : ~IsTerminator(code[b][i])
                        /\ \A t \in Targets(code[b][Len(code[b])]) : owner[t] = owner[b]
    BY DEF WellFormedIR
  <2>2. Ended(b)
    BY <2>1 DEF IInv, OpenBlocks
  <2>3. \A i \in 1 .. Len(code[b]) - 1 : ~IsTerminator(code[b][i])
    BY <2>1 DEF IInv, OneTerminator
  <2>4. Len(code[b]) \in 1 .. Len(code[b])
    BY <2>1, <2>2 DEF IInv, TypeOK, Ended
  <2>5. \A t \in Targets(code[b][Len(code[b])]) : owner[t] = owner[b]
    BY <2>1, <2>4 DEF IInv, LocalTargets
  <2>. QED BY <2>2, <2>3, <2>5
<1>. QED BY <1>1, InductiveInvariant, PTL

LEMMA EmitKeeps ==
    ASSUME nblk \in Nat, NEW n \in Nat, NEW f, NEW STATE out, Emit(n, f, out),
           \A b \in Block : b \in DOMAIN out => b = Top
    PROVE  \A b \in Block : b # Top => code'[b] = code[b]
  BY DEF Emit, Old, Block

(* A step writes to the block on top, which is open, and to new blocks. *)
LEMMA WritesTop ==
    ASSUME IInv, [Next]_vars
    PROVE  \A b \in Block : code'[b] # code[b] => ~Ended(b) /\ owner[b] = curFn
<1>1. ASSUME Running, \A b \in Block : b # Top => code'[b] = code[b]
      PROVE  \A b \in Block : code'[b] # code[b] => ~Ended(b) /\ owner[b] = curFn
  <2>1. ~Ended(Top) /\ owner[Top] = curFn
    BY <1>1, RunningFacts
  <2>. QED BY <1>1, <2>1
<1>2. CASE UNCHANGED code
  BY <1>2
<1>3. ASSUME Running PROVE nblk \in Nat
  BY <1>3, RunningFacts DEF TypeOK
<1>4. ASSUME NEW s, NEW f, NEW n \in Nat, Running, Emit(n, f, In(Top, s))
      PROVE  \A b \in Block : b # Top => code'[b] = code[b]
  BY <1>3, <1>4, EmitKeeps DEF In
<1>5. ASSUME NEW s, NEW r, Running, Emit(3, curFn, InTwo(Top, s, nblk + 1, r))
      PROVE  \A b \in Block : b # Top => code'[b] = code[b]
  <2>1. \A b \in Block : b # nblk + 1
    BY <1>3, <1>5 DEF Block
  <2>2. DOMAIN InTwo(Top, s, nblk + 1, r) = {Top, nblk + 1}
    BY DEF InTwo
  <2>. QED BY <1>3, <1>5, <2>1, <2>2, EmitKeeps
<1>6. CASE EmitSimple \/ BeginIf \/ BeginRepeat
  <2>1. Running
    BY <1>6 DEF EmitSimple, BeginIf, BeginRepeat, AtStatement
  <2>2. \E s : \/ Emit(0, curFn, In(Top, s))
               \/ Emit(1, curFn, In(Top, s))
               \/ Emit(3, curFn, In(Top, s))
    BY <1>6 DEF EmitSimple, BeginIf, BeginRepeat
  <2>. QED BY <1>1, <1>4, <2>1, <2>2
<1>7. CASE EndThen \/ EndElse \/ EndWhile \/ EndRepeat \/ EndFor \/ EndFunc \/ Finish
  <2>1. Running
    BY <1>7 DEF EndThen, EndElse, EndWhile, EndRepeat, EndFor, EndFunc, Finish
  <2>2. \E s : Emit(0, curFn, In(Top, s)) \/ Emit(1, curFn, In(Top, s))
    BY <1>7 DEF EndThen, EndElse, EndWhile, EndRepeat, EndFor, EndFunc, Finish
  <2>. QED BY <1>1, <1>4, <2>1, <2>2
<1>8. CASE BeginWhile \/ BeginFor
  <2>1. Running
    BY <1>8 DEF BeginWhile, BeginFor, AtStatement
  <2>2. \E s, r : Emit(3, curFn, InTwo(Top, s, nblk + 1, r))
    BY <1>8 DEF BeginWhile, BeginFor
  <2>. QED BY <1>1, <1>5, <2>1, <2>2
<1>9. CASE BeginFunc
  <2>1. Running /\ Emit(1, Len(fns) + 1, In(nblk + 1, << >>))
    BY <1>9 DEF BeginFunc
  <2>2. \A b \in Block : b \notin DOMAIN In(nblk + 1, << >>)
    BY <1>3, <2>1 DEF In, Block
  <2>3. \A b \in Block : b # Top => code'[b] = code[b]
    BY <1>3, <2>1, <2>2, EmitKeeps
  <2>. QED BY <1>1, <2>1, <2>3
<1>. QED BY <1>2, <1>6, <1>7, <1>8, <1>9
     DEF Next, SkipGoto, Abort, BodyDone, FuncsDone, Stopped, vars

(* No instruction is appended to a block that has its terminator, for all  *)
(* programs.                                                               *)
THEOREM BlocksFrozen == Spec => FrozenBlocks
<1>1. IInv /\ [Next]_vars => [\A b \in Block : Ended(b) => code'[b] = code[b]]_vars
  BY WritesTop
<1>. QED BY <1>1, InductiveInvariant, PTL DEF Spec, FrozenBlocks

(* Instructions are appended to blocks of CURRENCTFUNCION only, for all    *)
(* programs, however deeply functions are nested.                          *)
THEOREM CurrentFunctionBuilt == Spec => BuildsCurrentFunction
<1>1. IInv /\ [Next]_vars => [\A b \in Block : code'[b] # code[b] => owner[b] = curFn]_vars
  BY WritesTop
<1>. QED BY <1>1, InductiveInvariant, PTL DEF Spec, BuildsCurrentFunction
--------------------------------------------------------------------------------
(* The stack that a function is generated on *)

(* UnwoundStack with what it needs to be inductive.  The functions in      *)
(* progress have their blocks below everything that the current function   *)
(* has pushed, its own blocks are above them, and since each function has  *)
(* a higher number than those around it, the block that EndFunc looks for  *)
(* is not among them.                                                      *)
StackInv ==
    /\ IInv
    /\ UnwoundStack
    /\ Running =>
          /\ Len(stack) > Cardinality(FuncsIn(calls))
          /\ \A i \in FuncsIn(calls) :
                /\ stack[Depth(FuncsIn(calls), i)] = calls[i].blk
                /\ calls[i].blk = fns[calls[i].fn].entry
                /\ calls[i].fn < curFn
                /\ \A j \in FuncsIn(calls) : i < j => calls[i].fn < calls[j].fn
          /\ \A k \in Cardinality(FuncsIn(calls)) + 1 .. Len(stack) : owner[stack[k]] = curFn
          /\ \A i \in 1 .. Len(calls) - 1 :
                calls[i].kind = "funcs" => calls[i + 1].kind = "func"

LEMMA FuncsInFinite ==
    ASSUME NEW c, Len(c) \in Nat
    PROVE  IsFiniteSet(FuncsIn(c)) /\ Cardinality(FuncsIn(c)) \in Nat
<1>1. IsFiniteSet(1 .. Len(c)) /\ FuncsIn(c) \subseteq 1 .. Len(c)
  BY FS_Interval DEF FuncsIn
<1>. QED BY <1>1, FS_Subset, FS_CardinalityType

LEMMA DepthBounds ==
    ASSUME NEW S \in SUBSET Nat, IsFiniteSet(S), NEW i \in S
    PROVE  Depth(S, i) \in 1 .. Cardinality(S)
<1>. DEFINE T == {j \in S : j <= i}
<1>1. T \subseteq S /\ i \in T
  OBVIOUS
<1>2. IsFiniteSet(T) /\ Cardinality(T) <= Cardinality(S)
  BY <1>1, FS_Subset
<1>3. Cardinality(T) \in Nat /\ Cardinality(S) \in Nat
  BY <1>2, FS_CardinalityType
<1>4. Cardinality(T) # 0
  BY <1>1, <1>2, FS_EmptySet
<1>. QED BY <1>2, <1>3, <1>4 DEF Depth

(* One more function, at a frame above the others. *)
LEMMA DepthPushed ==
    ASSUME NEW S \in SUBSET Nat, IsFiniteSet(S), NEW m \in Nat, \A i \in S : i < m
    PROVE  /\ Cardinality(S \cup {m}) = Cardinality(S) + 1
           /\ Depth(S \cup {m}, m) = Cardinality(S) + 1
           /\ \A i \in S : Depth(S \cup {m}, i) = Depth(S, i)
<1>1. m \notin S
  OBVIOUS
<1>2. Cardinality(S \cup {m}) = Cardinality(S) + 1
  BY <1>1, FS_AddElement
<1>3. {j \in S \cup {m} : j <= m} = S \cup {m}
  <2>1. \A j \in S \cup {m} : j <= m
    OBVIOUS
  <2>. QED BY <2>1, Zenon
<1>4. ASSUME NEW i \in S
      PROVE  {j \in S \cup {m} : j <= i} = {j \in S : j <= i}
  OBVIOUS
<1>. QED BY <1>2, <1>3, <1>4 DEF Depth

LEMMA EmitOwner ==
    ASSUME nblk \in Nat, NEW n \in Nat, NEW f, NEW STATE out, Emit(n, f, out)
    PROVE  /\ \A b \in Block : owner'[b] = owner[b]
           /\ \A b \in NewBlocks(n) : owner'[b] = f
  BY DEF Emit, Block, NewBlocks

(* A step of a statement handler, or of a list that returns: the frames of *)
(* functions stay, and the stack changes at its top only.                  *)
StatementStep(b) ==
    /\ Running /\ Here.kind # "func"
    /\ Len(calls') >= Len(calls) - 1
    /\ \A i \in 1 .. Len(calls) - 1 : calls'[i] = calls[i]
    /\ \A i \in Len(calls) .. Len(calls') : calls'[i].kind \notin {"func", "funcs"}
    /\ \A x \in Block : owner'[x] = owner[x]
    /\ owner'[b] = curFn
    /\ stack' \in {stack, ReplaceTop(b), Append(stack, b)}
    /\ UNCHANGED <<curFn, fns>>

LEMMA StackTopMoves ==
    ASSUME IInv, NEW STATE b, StatementStep(b)
    PROVE  /\ Len(stack') >= Len(stack)
           /\ \A k \in 1 .. Len(stack) - 1 : stack'[k] = stack[k]
           /\ \A k \in Len(stack) .. Len(stack') : owner'[stack'[k]] = curFn
<1>1. stack \in Seq(Block) /\ Len(stack) \in Nat /\ Len(stack) > 0
      /\ Top \in Block /\ owner[Top] = curFn /\ owner'[Top] = curFn
  BY RunningFacts DEF StatementStep, TypeOK
<1>2. CASE stack' = stack
  BY <1>1, <1>2 DEF Top
<1>3. CASE stack' = ReplaceTop(b)
  <2>1. Len(stack') = Len(stack) /\ stack'[Len(stack)] = b
        /\ \A k \in 1 .. Len(stack) - 1 : stack'[k] = stack[k]
    BY <1>1, <1>3 DEF ReplaceTop
  <2>. QED BY <1>1, <2>1 DEF StatementStep
<1>4. CASE stack' = Append(stack, b)
  <2>1. Len(stack') = Len(stack) + 1 /\ stack'[Len(stack) + 1] = b
        /\ \A k \in 1 .. Len(stack) : stack'[k] = stack[k]
    BY <1>1, <1>4
  <2>2. \A k \in Len(stack) .. Len(stack') : k = Len(stack) \/ k = Len(stack) + 1
    BY <1>1, <2>1
  <2>. QED BY <1>1, <2>1, <2>2 DEF StatementStep, Top
<1>. QED BY <1>2, <1>3, <1>4 DEF StatementStep

LEMMA StatementStack ==
    ASSUME StackInv, IInv', NEW STATE b, StatementStep(b)
    PROVE  StackInv'
<1>. DEFINE m == Len(calls)
            F == FuncsIn(calls)
            D == Cardinality(F)
<1>1. SUFFICES ASSUME Running' PROVE StackInv'
  BY <1>1 DEF StackInv, UnwoundStack
<1>2. /\ IInv /\ Running /\ m \in Nat /\ m > 0 /\ Len(calls') \in Nat /\ Len(calls') > 0
      /\ Len(calls') >= m - 1 /\ Len(stack) \in Nat /\ Len(stack') \in Nat
  <2>1. IInv /\ Running
    BY DEF StackInv, StatementStep
  <2>2. calls \in Seq(Frame(Block, Fn)) /\ calls # << >> /\ stack \in Seq(Block)
    BY <2>1, RunningFacts DEF TypeOK
  <2>3. calls' \in Seq(Frame(Block, Fn)') /\ calls' # << >> /\ stack' \in Seq(Block')
    BY <1>1 DEF IInv, TypeOK, Running
  <2>. QED BY <2>1, <2>2, <2>3 DEF StatementStep
<1>3. /\ Len(stack) > D
      /\ \A i \in F : /\ stack[Depth(F, i)] = calls[i].blk
                       /\ calls[i].blk = fns[calls[i].fn].entry
                       /\ calls[i].fn < curFn
                       /\ \A j \in F : i < j => calls[i].fn < calls[j].fn
      /\ \A k \in D + 1 .. Len(stack) : owner[stack[k]] = curFn
      /\ \A i \in 1 .. m - 1 : calls[i].kind = "funcs" => calls[i + 1].kind = "func"
  BY <1>2 DEF StackInv
<1>4. /\ \A i \in 1 .. m - 1 : calls'[i] = calls[i]
      /\ \A i \in m .. Len(calls') : calls'[i].kind \notin {"func", "funcs"}
      /\ calls[m].kind # "func"
  BY DEF StatementStep, Here
<1>5. FuncsIn(calls') = F /\ \A i \in F : i \in 1 .. m - 1 /\ calls'[i] = calls[i]
  <2>1. \A i \in F : i \in 1 .. m - 1 /\ i \in 1 .. Len(calls')
    BY <1>2, <1>4 DEF FuncsIn
  <2>2. \A i \in FuncsIn(calls') : i \in 1 .. m - 1
    BY <1>2, <1>4 DEF FuncsIn
  <2>. QED BY <1>2, <1>4, <2>1, <2>2 DEF FuncsIn
<1>6. \A i \in 1 .. Len(calls') - 1 :
         calls'[i].kind = "funcs" => calls'[i + 1].kind = "func"
  <2>1. SUFFICES ASSUME NEW i \in 1 .. Len(calls') - 1, calls'[i].kind = "funcs"
                 PROVE  calls'[i + 1].kind = "func"
    OBVIOUS
  <2>2. i \in 1 .. m - 1
    BY <1>2, <1>4, <2>1
  <2>3. calls[i + 1].kind = "func"
    BY <1>3, <1>4, <2>1, <2>2
  <2>4. i + 1 \in 1 .. m - 1
    BY <1>2, <1>4, <2>2, <2>3
  <2>. QED BY <1>4, <2>3, <2>4
<1>7. Here'.kind # "funcs"
  <2>1. Here' = calls'[Len(calls')]
    BY DEF Here
  <2>2. CASE Len(calls') = m - 1
    BY <1>2, <1>3, <1>4, <2>1, <2>2
  <2>3. CASE Len(calls') >= m
    BY <1>2, <1>4, <2>1, <2>3
  <2>. QED BY <1>2, <2>2, <2>3
<1>8. IsFiniteSet(F) /\ D \in Nat /\ F \in SUBSET Nat
  BY <1>2, FuncsInFinite DEF FuncsIn
<1>. HIDE DEF F, D
<1>9. /\ Len(stack') >= Len(stack)
      /\ \A k \in 1 .. Len(stack) - 1 : stack'[k] = stack[k]
      /\ \A k \in Len(stack) .. Len(stack') : owner'[stack'[k]] = curFn
  BY <1>2, StackTopMoves
<1>10. \A i \in F : stack'[Depth(F, i)] = calls[i].blk
  <2>1. SUFFICES ASSUME NEW i \in F PROVE stack'[Depth(F, i)] = calls[i].blk
    OBVIOUS
  <2>2. Depth(F, i) \in 1 .. D
    BY <1>8, DepthBounds DEF D
  <2>3. Depth(F, i) \in 1 .. Len(stack) - 1
    BY <1>2, <1>3, <1>8, <2>2
  <2>. QED BY <1>3, <1>9, <2>3
<1>11. \A k \in D + 1 .. Len(stack') : owner'[stack'[k]] = curFn
  <2>1. SUFFICES ASSUME NEW k \in D + 1 .. Len(stack'), k < Len(stack)
                 PROVE  owner'[stack'[k]] = curFn
    BY <1>2, <1>8, <1>9
  <2>2. k \in 1 .. Len(stack) - 1 /\ k \in D + 1 .. Len(stack)
    BY <1>2, <1>8, <2>1
  <2>3. stack \in Seq(Block)
    BY <1>2 DEF IInv, TypeOK
  <2>4. stack[k] \in Block
    BY <2>2, <2>3
  <2>. QED BY <1>3, <1>9, <2>2, <2>4 DEF StatementStep
<1>12. UnwoundStack'
  BY <1>7 DEF UnwoundStack
<1>13. curFn' = curFn /\ fns' = fns
  BY DEF StatementStep
<1>14. Len(stack') > D
  BY <1>2, <1>3, <1>8, <1>9
<1>15. FuncsIn(calls)' = F /\ Cardinality(FuncsIn(calls)') = D
  BY <1>5 DEF D
<1>16. \A i \in F :
          /\ stack'[Depth(F, i)] = calls'[i].blk
          /\ calls'[i].blk = fns'[calls'[i].fn].entry
          /\ calls'[i].fn < curFn'
          /\ \A j \in F : i < j => calls'[i].fn < calls'[j].fn
  BY <1>3, <1>5, <1>10, <1>13
<1>. QED BY <1>6, <1>11, <1>12, <1>13, <1>14, <1>15, <1>16 DEF StackInv

LEMMA StackPushed ==
    ASSUME IInv, Running, NEW STATE x, NEW STATE y, NEW STATE z,
           calls' = [calls EXCEPT ![Len(calls)] = x] \o <<y, z>>,
           {x.kind, y.kind, z.kind} \cap {"func", "funcs"} = {}
    PROVE  /\ Len(calls') >= Len(calls) - 1
           /\ \A i \in 1 .. Len(calls) - 1 : calls'[i] = calls[i]
           /\ \A i \in Len(calls) .. Len(calls') : calls'[i].kind \notin {"func", "funcs"}
<1>. DEFINE F == Frame(Block, Fn) \cup {x, y, z}
<1>1. calls \in Seq(Frame(Block, Fn)) /\ calls # << >>
  BY RunningFacts
<1>2. calls \in Seq(F) /\ x \in F /\ y \in F /\ z \in F
  BY <1>1, SeqSubset
<1>3. Len(calls) \in Nat
  BY <1>1
<1>. HIDE DEF F
<1>4. /\ Len(calls') = Len(calls) + 2
      /\ \A i \in 1 .. Len(calls) - 1 : calls'[i] = calls[i]
      /\ calls'[Len(calls)] = x /\ calls'[Len(calls) + 1] = y /\ calls'[Len(calls) + 2] = z
  BY <1>1, <1>2, CallsPushed
<1>5. \A i \in Len(calls) .. Len(calls') :
         i = Len(calls) \/ i = Len(calls) + 1 \/ i = Len(calls) + 2
  BY <1>3, <1>4
<1>6. x.kind \notin {"func", "funcs"} /\ y.kind \notin {"func", "funcs"}
      /\ z.kind \notin {"func", "funcs"}
  BY Zenon
<1>7. \A i \in Len(calls) .. Len(calls') : calls'[i].kind \notin {"func", "funcs"}
  BY <1>4, <1>5, <1>6
<1>8. Len(calls') >= Len(calls) - 1
  BY <1>3, <1>4
<1>9. \A i \in 1 .. Len(calls) - 1 : calls'[i] = calls[i]
  BY <1>4
<1>. QED BY <1>7, <1>8, <1>9, Zenon

LEMMA StackEnter ==
    ASSUME StackInv, IInv', NEW n \in {1, 3}, NEW STATE out, NEW STATE b, NEW STATE y,
           Running, Here.kind = "body", y.kind \in Construct,
           Emit(n, curFn, out), b \in NewBlocks(n), stack' = Append(stack, b),
           calls' = [calls EXCEPT ![Len(calls)] = Rest] \o <<y, BodyFrame(Stmt.body)>>,
           UNCHANGED <<curFn, fns>>
    PROVE  StackInv'
<1>1. IInv /\ nblk \in Nat
  BY RunningFacts DEF StackInv, TypeOK
<1>2. (\A x \in Block : owner'[x] = owner[x]) /\ owner'[b] = curFn
  BY <1>1, EmitOwner
<1>3. Rest.kind = "body" /\ BodyFrame(Stmt.body).kind = "body"
  BY DEF Rest, BodyFrame
<1>4. y.kind \notin {"func", "funcs"}
  BY DEF Construct
<1>5. /\ Len(calls') >= Len(calls) - 1
      /\ \A i \in 1 .. Len(calls) - 1 : calls'[i] = calls[i]
      /\ \A i \in Len(calls) .. Len(calls') : calls'[i].kind \notin {"func", "funcs"}
  BY <1>1, <1>3, <1>4, StackPushed
<1>6. StatementStep(b)
  BY <1>2, <1>5 DEF StatementStep
<1>. QED BY <1>6, StatementStack

LEMMA StackBegin ==
    ASSUME StackInv, IInv', BeginIf \/ BeginWhile \/ BeginRepeat \/ BeginFor
    PROVE  StackInv'
<1>1. Running /\ Here.kind = "body" /\ nblk \in Nat
  BY RunningFacts DEF StackInv, BeginIf, BeginWhile, BeginRepeat, BeginFor, AtStatement, TypeOK
<1>2. nblk + 1 \in NewBlocks(1) /\ nblk + 1 \in NewBlocks(3) /\ nblk + 2 \in NewBlocks(3)
  BY <1>1 DEF NewBlocks
<1>3. CASE BeginIf
  <2>. DEFINE y == ThenFrame(Stmt, nblk + 2, nblk + 3)
              out == In(Top, <<CondBr(Stmt.id, nblk + 1, nblk + 2)>>)
  <2>1. y.kind \in Construct
    BY DEF ThenFrame, Construct
  <2>2. /\ Emit(3, curFn, out) /\ stack' = Append(stack, nblk + 1)
        /\ calls' = [calls EXCEPT ![Len(calls)] = Rest] \o <<y, BodyFrame(Stmt.body)>>
        /\ UNCHANGED <<curFn, fns>>
    BY <1>3 DEF BeginIf
  <2>. HIDE DEF y, out
  <2>. QED BY <1>1, <1>2, <2>1, <2>2, StackEnter
<1>4. CASE BeginWhile
  <2>. DEFINE y == WhileFrame(nblk + 1, nblk + 3)
              out == InTwo(Top, <<Br(nblk + 1)>>,
                           nblk + 1, <<CondBr(Stmt.id, nblk + 2, nblk + 3)>>)
  <2>1. y.kind \in Construct
    BY DEF WhileFrame, Construct
  <2>2. /\ Emit(3, curFn, out) /\ stack' = Append(stack, nblk + 2)
        /\ calls' = [calls EXCEPT ![Len(calls)] = Rest] \o <<y, BodyFrame(Stmt.body)>>
        /\ UNCHANGED <<curFn, fns>>
    BY <1>4 DEF BeginWhile
  <2>. HIDE DEF y, out
  <2>. QED BY <1>1, <1>2, <2>1, <2>2, StackEnter
<1>5. CASE BeginRepeat
  <2>. DEFINE y == RepeatFrame(Stmt, nblk + 1)
              out == In(Top, <<Br(nblk + 1)>>)
  <2>1. y.kind \in Construct
    BY DEF RepeatFrame, Construct
  <2>2. /\ Emit(1, curFn, out) /\ stack' = Append(stack, nblk + 1)
        /\ calls' = [calls EXCEPT ![Len(calls)] = Rest] \o <<y, BodyFrame(Stmt.body)>>
        /\ UNCHANGED <<curFn, fns>>
    BY <1>5 DEF BeginRepeat
  <2>. HIDE DEF y, out
  <2>. QED BY <1>1, <1>2, <2>1, <2>2, StackEnter
<1>6. CASE BeginFor
  <2>. DEFINE y == ForFrame(Stmt, nblk + 1, nblk + 3)
              out == InTwo(Top, <<InitVar(Stmt.id), Br(nblk + 1)>>,
                           nblk + 1, <<CondBr(Stmt.id, nblk + 3, nblk + 2)>>)
  <2>1. y.kind \in Construct
    BY DEF ForFrame, Construct
  <2>2. /\ Emit(3, curFn, out) /\ stack' = Append(stack, nblk + 2)
        /\ calls' = [calls EXCEPT ![Len(calls)] = Rest] \o <<y, BodyFrame(Stmt.body)>>
        /\ UNCHANGED <<curFn, fns>>
    BY <1>6 DEF BeginFor
  <2>. HIDE DEF y, out
  <2>. QED BY <1>1, <1>2, <2>1, <2>2, StackEnter
<1>. QED BY <1>3, <1>4, <1>5, <1>6

(* A handler returns, or goes on in its own frame, or calls one list more. *)
LEMMA StackReturned ==
    ASSUME IInv, Running, Return
    PROVE  /\ Len(calls') >= Len(calls) - 1
           /\ \A i \in 1 .. Len(calls) - 1 : calls'[i] = calls[i]
           /\ \A i \in Len(calls) .. Len(calls') : calls'[i].kind \notin {"func", "funcs"}
<1>1. calls \in Seq(Frame(Block, Fn)) /\ Len(calls) \in Nat /\ Len(calls) > 0
  BY RunningFacts
<1>2. Len(calls') = Len(calls) - 1 /\ \A i \in 1 .. Len(calls) - 1 : calls'[i] = calls[i]
  <2>1. Len(calls) - 1 \in 0 .. Len(calls) /\ calls' = SubSeq(calls, 1, Len(calls) - 1)
    BY <1>1 DEF Return
  <2>. QED BY <1>1, <2>1, Prefix
<1>. QED BY <1>1, <1>2

LEMMA StackContinues ==
    ASSUME IInv, Running, NEW STATE x, Become(x), x.kind \notin {"func", "funcs"}
    PROVE  /\ Len(calls') >= Len(calls) - 1
           /\ \A i \in 1 .. Len(calls) - 1 : calls'[i] = calls[i]
           /\ \A i \in Len(calls) .. Len(calls') : calls'[i].kind \notin {"func", "funcs"}
<1>1. calls \in Seq(Frame(Block, Fn)) /\ Len(calls) \in Nat /\ Len(calls) > 0
  BY RunningFacts
<1>2. /\ Len(calls') = Len(calls)
      /\ \A i \in 1 .. Len(calls) - 1 : calls'[i] = calls[i]
      /\ calls'[Len(calls)] = x
  BY <1>1 DEF Become
<1>. QED BY <1>1, <1>2

LEMMA StackCalls ==
    ASSUME IInv, Running, NEW STATE x, NEW STATE l, BecomeAndCall(x, l),
           x.kind \notin {"func", "funcs"}
    PROVE  /\ Len(calls') >= Len(calls) - 1
           /\ \A i \in 1 .. Len(calls) - 1 : calls'[i] = calls[i]
           /\ \A i \in Len(calls) .. Len(calls') : calls'[i].kind \notin {"func", "funcs"}
<1>. DEFINE F == Frame(Block, Fn) \cup {x, BodyFrame(l)}
<1>1. calls \in Seq(Frame(Block, Fn)) /\ calls # << >> /\ Len(calls) \in Nat
  BY RunningFacts
<1>2. calls \in Seq(F) /\ x \in F /\ BodyFrame(l) \in F
  BY <1>1, SeqSubset
<1>. HIDE DEF F
<1>3. /\ Len(calls') = Len(calls) + 1
      /\ \A i \in 1 .. Len(calls) - 1 : calls'[i] = calls[i]
      /\ calls'[Len(calls)] = x /\ calls'[Len(calls) + 1] = BodyFrame(l)
  BY <1>1, <1>2, CallsCalled DEF BecomeAndCall
<1>4. \A i \in Len(calls) .. Len(calls') : i = Len(calls) \/ i = Len(calls) + 1
  BY <1>1, <1>3
<1>5. BodyFrame(l).kind = "body"
  BY DEF BodyFrame
<1>. QED BY <1>1, <1>3, <1>4, <1>5

(* The blocks that a handler knows are blocks of the current function. *)
LEMMA HereOwned ==
    ASSUME IInv, Running
    PROVE  \A b \in Names(Here) : b \in Block /\ owner[b] = curFn
<1>1. Owned(Here, curFn, owner) /\ Here \in Frame(Block, Fn)
  BY RunningFacts DEF Here
<1>. QED BY <1>1 DEF Owned, Names, Frame

LEMMA StackEnd ==
    ASSUME StackInv, IInv', EndThen \/ EndElse \/ EndWhile \/ EndRepeat \/ EndFor
    PROVE  StackInv'
<1>1. IInv /\ Running /\ nblk \in Nat /\ Here.kind \in Construct
  BY RunningFacts DEF StackInv, EndThen, EndElse, EndWhile, EndRepeat, EndFor, TypeOK, Construct
<1>2. /\ Len(calls') >= Len(calls) - 1
      /\ \A i \in 1 .. Len(calls) - 1 : calls'[i] = calls[i]
      /\ \A i \in Len(calls) .. Len(calls') : calls'[i].kind \notin {"func", "funcs"}
  <2>1. CASE EndThen
    BY <1>1, <2>1, StackCalls DEF EndThen, ElseFrame
  <2>2. CASE EndElse \/ EndWhile \/ EndRepeat
    BY <1>1, <2>2, StackReturned DEF EndElse, EndWhile, EndRepeat
  <2>3. CASE EndFor
    BY <1>1, <2>3, StackContinues DEF EndFor, BodyFrame
  <2>. QED BY <2>1, <2>2, <2>3
<1>3. \A n \in {0, 1} : \A out : Emit(n, curFn, out) =>
         /\ \A x \in Block : owner'[x] = owner[x]
         /\ \A x \in NewBlocks(n) : owner'[x] = curFn
  BY <1>1, EmitOwner
<1>4. /\ \A x \in Block : owner'[x] = owner[x]
      /\ EndRepeat => owner'[nblk + 1] = curFn
  <2>1. \E n \in {0, 1} : \E out : Emit(n, curFn, out)
    BY DEF EndThen, EndElse, EndWhile, EndRepeat, EndFor
  <2>2. EndRepeat => \E out : Emit(1, curFn, out)
    BY DEF EndRepeat
  <2>3. nblk + 1 \in NewBlocks(1)
    BY <1>1 DEF NewBlocks
  <2>. QED BY <1>3, <2>1, <2>2, <2>3
<1>5. \A b \in Names(Here) : owner'[b] = curFn
  BY <1>1, <1>4, HereOwned
<1>6. UNCHANGED <<curFn, fns>>
  BY DEF EndThen, EndElse, EndWhile, EndRepeat, EndFor
<1>7. CASE EndThen
  <2>1. Here.no \in Names(Here) /\ stack' = ReplaceTop(Here.no)
    BY <1>7 DEF EndThen, Names
  <2>2. StatementStep(Here.no)
    BY <1>1, <1>2, <1>4, <1>5, <1>6, <2>1 DEF StatementStep, Construct
  <2>. QED BY <2>2, StatementStack
<1>8. CASE EndElse
  <2>1. Here.merge \in Names(Here) /\ stack' = ReplaceTop(Here.merge)
    BY <1>8 DEF EndElse, Names
  <2>2. StatementStep(Here.merge)
    BY <1>1, <1>2, <1>4, <1>5, <1>6, <2>1 DEF StatementStep, Construct
  <2>. QED BY <2>2, StatementStack
<1>9. CASE EndWhile \/ EndFor
  <2>1. Here.exit \in Names(Here) /\ stack' = ReplaceTop(Here.exit)
    BY <1>9 DEF EndWhile, EndFor, Names
  <2>2. StatementStep(Here.exit)
    BY <1>1, <1>2, <1>4, <1>5, <1>6, <2>1 DEF StatementStep, Construct
  <2>. QED BY <2>2, StatementStack
<1>10. CASE EndRepeat
  <2>1. stack' = ReplaceTop(nblk + 1)
    BY <1>10 DEF EndRepeat
  <2>2. StatementStep(nblk + 1)
    BY <1>1, <1>2, <1>4, <1>6, <1>10, <2>1 DEF StatementStep, Construct
  <2>. QED BY <2>2, StatementStack
<1>. QED BY <1>7, <1>8, <1>9, <1>10

LEMMA StackKept ==
    ASSUME StackInv, IInv', EmitSimple \/ SkipGoto \/ BodyDone \/ FuncsDone
    PROVE  StackInv'
<1>1. IInv /\ Running /\ nblk \in Nat /\ Top \in Block /\ owner[Top] = curFn
      /\ Here.kind \in {"body", "funcs"}
  BY RunningFacts DEF StackInv, EmitSimple, SkipGoto, BodyDone, FuncsDone, AtStatement, TypeOK
<1>2. /\ Len(calls') >= Len(calls) - 1
      /\ \A i \in 1 .. Len(calls) - 1 : calls'[i] = calls[i]
      /\ \A i \in Len(calls) .. Len(calls') : calls'[i].kind \notin {"func", "funcs"}
  <2>1. CASE EmitSimple \/ SkipGoto
    BY <1>1, <2>1, StackContinues DEF EmitSimple, SkipGoto, Rest, BodyFrame
  <2>2. CASE BodyDone \/ FuncsDone
    BY <1>1, <2>2, StackReturned DEF BodyDone, FuncsDone
  <2>. QED BY <2>1, <2>2
<1>3. \A x \in Block : owner'[x] = owner[x]
  <2>1. CASE EmitSimple
    <3>1. Emit(0, curFn, In(Top, <<Do(Stmt.id)>>))
      BY <2>1 DEF EmitSimple
    <3>. QED BY <1>1, <3>1, EmitOwner
  <2>2. CASE SkipGoto \/ BodyDone \/ FuncsDone
    BY <2>2 DEF SkipGoto, BodyDone, FuncsDone
  <2>. QED BY <2>1, <2>2
<1>4. stack' = stack /\ UNCHANGED <<curFn, fns>>
  BY DEF EmitSimple, SkipGoto, BodyDone, FuncsDone
<1>5. StatementStep(Top)
  BY <1>1, <1>2, <1>3, <1>4 DEF StatementStep
<1>. QED BY <1>5, StatementStack

LEMMA StackInit == Init => StackInv
<1>. SUFFICES ASSUME Init PROVE StackInv
  OBVIOUS
<1>1. IInv
  BY SafeInit
<1>2. /\ Len(calls) = 2 /\ calls[1].kind = "body" /\ calls[2].kind = "funcs"
      /\ stack = <<1>> /\ owner = [b \in 1 .. 1 |-> 1] /\ curFn = 1
      /\ Len(fns) = 1 /\ fns[1].entry = 1
  BY DEF Init, BodyFrame, FuncsFrame
<1>3. FuncsIn(calls) = {} /\ Cardinality(FuncsIn(calls)) = 0
  <2>1. FuncsIn(calls) = {}
    BY <1>2 DEF FuncsIn
  <2>. QED BY <2>1, FS_EmptySet
<1>4. Len(stack) = 1 /\ Top = 1 /\ stack[1] = 1 /\ owner[1] = 1
  BY <1>2 DEF Top
<1>5. UnwoundStack
  BY <1>2, <1>3, <1>4 DEF UnwoundStack
<1>6. \A k \in 0 + 1 .. Len(stack) : owner[stack[k]] = curFn
  BY <1>2, <1>4
<1>7. \A i \in 1 .. Len(calls) - 1 : calls[i].kind # "funcs"
  BY <1>2
<1>. QED BY <1>1, <1>3, <1>4, <1>5, <1>6, <1>7 DEF StackInv

LEMMA StackFunc ==
    ASSUME StackInv, IInv', BeginFunc
    PROVE  StackInv'
<1>. DEFINE m == Len(calls)
            F == FuncsIn(calls)
            D == Cardinality(F)
            G == F \cup {m + 1}
            fn == Len(fns) + 1
            entry == nblk + 1
<1>1. /\ IInv /\ Running /\ Here.kind = "funcs" /\ nblk \in Nat
      /\ calls[m].kind = "funcs" /\ calls \in Seq(Frame(Block, Fn))
      /\ stack \in Seq(Block) /\ Len(stack) \in Nat /\ Len(stack) > 0 /\ Top \in Block
      /\ Len(fns) \in Nat /\ curFn \in 1 .. Len(fns)
      /\ fns \in Seq([entry : Block, body : Seq(Stm)])
  <2>1. IInv /\ Running /\ Here.kind = "funcs"
    BY DEF StackInv, BeginFunc
  <2>2. TypeOK /\ stack # << >> /\ Top \in Block /\ calls \in Seq(Frame(Block, Fn))
    BY <2>1, RunningFacts
  <2>3. /\ nblk \in Nat /\ stack \in Seq(Block) /\ curFn \in 1 .. Len(fns)
        /\ fns \in Seq([entry : Block, body : Seq(Stm)])
    BY <2>2 DEF TypeOK, Fn
  <2>. QED BY <2>1, <2>2, <2>3 DEF Here
<1>2. /\ m \in Nat /\ m > 0 /\ Len(calls') = m + 3
      /\ \A i \in 1 .. m - 1 : calls'[i] = calls[i]
      /\ calls'[m].kind = "funcs" /\ calls'[m + 2].kind = "body" /\ calls'[m + 3].kind = "funcs"
      /\ calls'[m + 1].kind = "func" /\ calls'[m + 1].blk = Top /\ calls'[m + 1].fn = curFn
  BY <1>1, FuncPushed DEF FuncsFrame, FuncFrame, BodyFrame
<1>3. FuncsIn(calls') = G /\ \A i \in F : i \in 1 .. m - 1 /\ i < m + 1
  <2>1. \A i \in F : i \in 1 .. m - 1 /\ i < m + 1
    BY <1>1, <1>2 DEF FuncsIn
  <2>2. ASSUME NEW i \in 1 .. m + 3
        PROVE  \/ i \in 1 .. m - 1 /\ i \in 1 .. m /\ calls'[i] = calls[i]
               \/ i = m + 1
               \/ i \notin 1 .. m - 1 /\ i # m + 1 /\ calls'[i].kind # "func"
    BY <1>2
  <2>3. m + 1 \in FuncsIn(calls')
    BY <1>2 DEF FuncsIn
  <2>4. F \subseteq FuncsIn(calls')
    BY <1>2, <2>1 DEF FuncsIn
  <2>5. FuncsIn(calls') \subseteq G
    BY <1>2, <2>2 DEF FuncsIn
  <2>. QED BY <2>1, <2>3, <2>4, <2>5
<1>4. IsFiniteSet(F) /\ D \in Nat /\ F \in SUBSET Nat /\ m + 1 \in Nat
  BY <1>2, FuncsInFinite DEF FuncsIn
<1>. HIDE DEF F, D
<1>5. /\ Cardinality(G) = D + 1 /\ Depth(G, m + 1) = D + 1
      /\ \A i \in F : Depth(G, i) = Depth(F, i) /\ Depth(F, i) \in 1 .. D
  BY <1>3, <1>4, DepthPushed, DepthBounds DEF D
<1>6. /\ Len(stack) = D + 1 /\ Top = fns[curFn].entry /\ Top = stack[D + 1]
      /\ \A i \in F : /\ stack[Depth(F, i)] = calls[i].blk
                       /\ calls[i].blk = fns[calls[i].fn].entry
                       /\ calls[i].fn < curFn
                       /\ \A j \in F : i < j => calls[i].fn < calls[j].fn
      /\ \A i \in 1 .. m - 1 : calls[i].kind = "funcs" => calls[i + 1].kind = "func"
  BY <1>1 DEF StackInv, UnwoundStack, F, D, Top
<1>7. /\ stack' = Append(stack, entry) /\ curFn' = fn
      /\ fns' = Append(fns, [entry |-> entry, body |-> Here.defs[1].body])
      /\ Emit(1, fn, In(entry, << >>))
  BY DEF BeginFunc
<1>8. /\ Len(stack') = D + 2 /\ stack'[D + 2] = entry
      /\ \A k \in 1 .. D + 1 : stack'[k] = stack[k]
  BY <1>1, <1>4, <1>6, <1>7
<1>9. /\ fns'[fn].entry = entry
      /\ \A f \in 1 .. Len(fns) : fns'[f] = fns[f]
  BY <1>1, <1>7
<1>10. owner'[entry] = fn
  <2>1. entry \in NewBlocks(1)
    BY <1>1 DEF NewBlocks
  <2>. QED BY <1>1, <1>7, <2>1, EmitOwner
<1>11. \A i \in F : calls'[i] = calls[i] /\ calls[i].fn \in 1 .. Len(fns)
  <2>1. SUFFICES ASSUME NEW i \in F PROVE calls'[i] = calls[i] /\ calls[i].fn \in 1 .. Len(fns)
    OBVIOUS
  <2>2. i \in 1 .. m - 1 /\ i \in 1 .. m /\ calls[i].kind = "func"
    BY <1>2, <1>3, <2>1 DEF F, FuncsIn
  <2>3. calls[i] \in Frame(Block, Fn)
    BY <1>1, <2>2
  <2>. QED BY <1>2, <2>2, <2>3 DEF Frame, Fn
<1>12. \A i \in G : /\ stack'[Depth(G, i)] = calls'[i].blk
                    /\ calls'[i].blk = fns'[calls'[i].fn].entry
                    /\ calls'[i].fn < fn
                    /\ \A j \in G : i < j => calls'[i].fn < calls'[j].fn
  <2>1. SUFFICES ASSUME NEW i \in G
                 PROVE  /\ stack'[Depth(G, i)] = calls'[i].blk
                        /\ calls'[i].blk = fns'[calls'[i].fn].entry
                        /\ calls'[i].fn < fn
                        /\ \A j \in G : i < j => calls'[i].fn < calls'[j].fn
    OBVIOUS
  <2>2. CASE i = m + 1
    <3>1. stack'[D + 1] = Top
      BY <1>4, <1>6, <1>8
    <3>2. \A j \in G : ~(i < j)
      BY <1>2, <1>3, <2>2
    <3>3. curFn < fn /\ fns'[curFn] = fns[curFn]
      BY <1>1, <1>9
    <3>. QED BY <1>2, <1>5, <1>6, <2>2, <3>1, <3>2, <3>3
  <2>3. CASE i \in F
    <3>1. calls'[i] = calls[i] /\ calls[i].fn \in 1 .. Len(fns)
      BY <1>11, <2>3
    <3>2. stack'[Depth(G, i)] = calls[i].blk
      <4>1. Depth(G, i) = Depth(F, i) /\ Depth(F, i) \in 1 .. D
        BY <1>5, <2>3
      <4>2. Depth(F, i) \in 1 .. D + 1
        BY <1>4, <4>1
      <4>3. stack'[Depth(F, i)] = stack[Depth(F, i)]
        BY <1>8, <4>2
      <4>. QED BY <1>6, <2>3, <4>1, <4>3
    <3>3. \A j \in G : i < j => calls[i].fn < calls'[j].fn
      <4>1. SUFFICES ASSUME NEW j \in G, i < j PROVE calls[i].fn < calls'[j].fn
        OBVIOUS
      <4>2. CASE j = m + 1
        BY <1>2, <1>6, <2>3, <4>2
      <4>3. CASE j \in F
        BY <1>6, <1>11, <2>3, <4>1, <4>3
      <4>. QED BY <4>1, <4>2, <4>3
    <3>4. calls[i].fn < fn
      BY <1>1, <1>6, <2>3, <3>1
    <3>. QED BY <1>6, <1>9, <2>3, <3>1, <3>2, <3>3, <3>4
  <2>. QED BY <2>1, <2>2, <2>3
<1>13. \A k \in D + 2 .. Len(stack') : owner'[stack'[k]] = fn
  <2>1. \A k \in D + 2 .. Len(stack') : k = D + 2
    BY <1>4, <1>8
  <2>. QED BY <1>8, <1>10, <2>1
<1>14. \A i \in 1 .. Len(calls') - 1 : calls'[i].kind = "funcs" => calls'[i + 1].kind = "func"
  <2>1. SUFFICES ASSUME NEW i \in 1 .. m + 2, calls'[i].kind = "funcs"
                 PROVE  calls'[i + 1].kind = "func"
    BY <1>2
  <2>2. CASE i \in 1 .. m - 1
    <3>1. calls[i + 1].kind = "func"
      BY <1>2, <1>6, <2>1, <2>2
    <3>2. i + 1 \in 1 .. m - 1
      BY <1>1, <1>2, <2>2, <3>1
    <3>. QED BY <1>2, <3>1, <3>2
  <2>3. CASE i = m \/ i = m + 1 \/ i = m + 2
    BY <1>2, <2>1, <2>3
  <2>. QED BY <1>2, <2>1, <2>2, <2>3
<1>15. Top' = entry
  BY <1>8 DEF Top
<1>. HIDE DEF G, fn, entry
<1>16. FuncsIn(calls)' = G /\ Cardinality(FuncsIn(calls)') = D + 1 /\ Len(stack') = (D + 1) + 1
       /\ Len(stack') > D + 1
       /\ \A k \in (D + 1) + 1 .. Len(stack') : owner'[stack'[k]] = fn
  BY <1>3, <1>4, <1>5, <1>8, <1>13
<1>17. UnwoundStack'
  BY <1>7, <1>9, <1>12, <1>15, <1>16 DEF UnwoundStack
<1>. QED BY <1>7, <1>12, <1>14, <1>16, <1>17 DEF StackInv

LEMMA StackEndFunc ==
    ASSUME StackInv, IInv', EndFunc
    PROVE  StackInv'
<1>. DEFINE m == Len(calls)
            F == FuncsIn(calls)
            G == FuncsIn(calls')
            C == Cardinality(G)
<1>1. /\ IInv /\ Running /\ Here.kind = "func" /\ Here = calls[m]
      /\ m \in Nat /\ m > 0 /\ calls \in Seq(Frame(Block, Fn))
      /\ stack \in Seq(Block) /\ Len(stack) \in Nat /\ nblk \in Nat
      /\ Here \in Frame(Block, Fn) /\ Owned(Here, curFn, owner) /\ curFn \in Nat
  <2>1. IInv /\ Running /\ Here.kind = "func"
    BY DEF StackInv, EndFunc
  <2>2. /\ TypeOK /\ calls \in Seq(Frame(Block, Fn)) /\ calls # << >>
        /\ Here \in Frame(Block, Fn) /\ Owned(Here, curFn, owner)
    BY <2>1, RunningFacts DEF Here
  <2>3. nblk \in Nat /\ stack \in Seq(Block) /\ curFn \in 1 .. Len(fns) /\ Len(fns) \in Nat
    BY <2>2 DEF TypeOK, Fn
  <2>. QED BY <2>1, <2>2, <2>3 DEF Here
<1>2. /\ Here.blk \in Block /\ owner[Here.blk] = Here.fn /\ Here.fn \in Nat
  BY <1>1 DEF Frame, Owned, Fn
<1>3. Len(calls') = m - 1 /\ \A i \in 1 .. m - 1 : calls'[i] = calls[i]
  <2>1. m - 1 \in 0 .. Len(calls) /\ calls' = SubSeq(calls, 1, m - 1)
    BY <1>1 DEF EndFunc, Return
  <2>. QED BY <1>1, <2>1, Prefix
<1>4. F = G \cup {m} /\ \A i \in G : i < m /\ i \in F /\ calls'[i] = calls[i]
  BY <1>1, <1>3 DEF FuncsIn
<1>5. IsFiniteSet(G) /\ C \in Nat /\ G \in SUBSET Nat
  <2>1. Len(calls') \in Nat
    BY <1>1, <1>3
  <2>. QED BY <2>1, FuncsInFinite DEF FuncsIn
<1>. HIDE DEF F, G, C
<1>6. /\ Cardinality(F) = C + 1 /\ Depth(F, m) = C + 1
      /\ \A i \in G : Depth(F, i) = Depth(G, i) /\ Depth(G, i) \in 1 .. C
  BY <1>1, <1>4, <1>5, DepthPushed, DepthBounds DEF C
<1>7. /\ Len(stack) > C + 1
      /\ \A i \in F : /\ stack[Depth(F, i)] = calls[i].blk
                       /\ calls[i].blk = fns[calls[i].fn].entry
                       /\ calls[i].fn < curFn
                       /\ \A j \in F : i < j => calls[i].fn < calls[j].fn
      /\ \A k \in (C + 1) + 1 .. Len(stack) : owner[stack[k]] = curFn
      /\ \A i \in 1 .. m - 1 : calls[i].kind = "funcs" => calls[i + 1].kind = "func"
  BY <1>1, <1>6 DEF StackInv, F
<1>8. m \in F /\ stack[C + 1] = Here.blk /\ Here.fn < curFn /\ Here.blk = fns[Here.fn].entry
  BY <1>1, <1>4, <1>6, <1>7
<1>9. stack' = SubSeq(stack, 1, C + 1)
  <2>1. PICK k \in 1 .. Len(stack) :
            /\ stack[k] = Here.blk
            /\ \A j \in k + 1 .. Len(stack) : stack[j] # Here.blk
            /\ stack' = SubSeq(stack, 1, k)
    BY DEF EndFunc
  <2>2. ~(k < C + 1)
    BY <1>5, <1>7, <1>8, <2>1
  <2>3. ~(k > C + 1)
    <3>1. ASSUME k > C + 1 PROVE FALSE
      <4>1. k \in (C + 1) + 1 .. Len(stack)
        BY <1>5, <2>1, <3>1
      <4>2. owner[Here.blk] = curFn
        BY <1>7, <2>1, <4>1
      <4>. QED BY <1>1, <1>2, <1>8, <4>2
    <3>. QED BY <3>1
  <2>4. k = C + 1
    BY <1>5, <2>1, <2>2, <2>3
  <2>. QED BY <2>1, <2>4
<1>10. Len(stack') = C + 1 /\ \A k \in 1 .. C + 1 : stack'[k] = stack[k]
  BY <1>1, <1>5, <1>7, <1>9, Prefix
<1>11. curFn' = Here.fn /\ fns' = fns /\ \A b \in Block : owner'[b] = owner[b]
  <2>1. Emit(0, curFn, In(Top, <<Ret>>))
    BY DEF EndFunc
  <2>. QED BY <1>1, <2>1, EmitOwner DEF EndFunc
<1>12. \A i \in G : /\ stack'[Depth(G, i)] = calls'[i].blk
                    /\ calls'[i].blk = fns'[calls'[i].fn].entry
                    /\ calls'[i].fn < curFn'
                    /\ \A j \in G : i < j => calls'[i].fn < calls'[j].fn
  <2>1. SUFFICES ASSUME NEW i \in G
                 PROVE  /\ stack'[Depth(G, i)] = calls'[i].blk
                        /\ calls'[i].blk = fns'[calls'[i].fn].entry
                        /\ calls'[i].fn < curFn'
                        /\ \A j \in G : i < j => calls'[i].fn < calls'[j].fn
    OBVIOUS
  <2>2. i \in F /\ i < m /\ calls'[i] = calls[i]
    BY <1>4, <2>1
  <2>3. stack'[Depth(G, i)] = stack[Depth(F, i)]
    BY <1>5, <1>6, <1>10, <2>1
  <2>4. calls[i].fn < curFn'
    BY <1>1, <1>7, <1>8, <1>11, <2>2
  <2>5. \A j \in G : i < j => calls[i].fn < calls'[j].fn
    BY <1>4, <1>7, <2>2
  <2>. QED BY <1>7, <1>11, <2>2, <2>3, <2>4, <2>5
<1>13. Top' = Here.blk
  <2>1. C + 1 \in 1 .. C + 1
    BY <1>5
  <2>. QED BY <1>8, <1>10, <2>1 DEF Top
<1>14. \A k \in C + 1 .. Len(stack') : owner'[stack'[k]] = curFn'
  <2>1. \A k \in C + 1 .. Len(stack') : k = C + 1 /\ k \in 1 .. C + 1
    BY <1>5, <1>10
  <2>. QED BY <1>2, <1>8, <1>10, <1>11, <2>1
<1>15. \A i \in 1 .. Len(calls') - 1 : calls'[i].kind = "funcs" => calls'[i + 1].kind = "func"
  <2>1. ASSUME NEW i \in 1 .. Len(calls') - 1, calls'[i].kind = "funcs"
        PROVE  calls'[i + 1].kind = "func"
    <3>1. i \in 1 .. m - 1 /\ i + 1 \in 1 .. m - 1
      BY <1>1, <1>3
    <3>2. calls[i + 1].kind = "func"
      BY <1>3, <1>7, <2>1, <3>1
    <3>. QED BY <1>3, <3>1, <3>2
  <2>. QED BY <2>1
<1>16. FuncsIn(calls)' = G /\ Cardinality(FuncsIn(calls)') = C
  BY DEF G, C
<1>17. UnwoundStack'
  BY <1>8, <1>10, <1>11, <1>12, <1>13, <1>16 DEF UnwoundStack
<1>18. Len(stack') > C
  BY <1>5, <1>10
<1>. QED BY <1>12, <1>14, <1>15, <1>16, <1>17, <1>18 DEF StackInv

LEMMA StackStep == StackInv /\ [Next]_vars => StackInv'
<1>. SUFFICES ASSUME StackInv, [Next]_vars PROVE StackInv'
  OBVIOUS
<1>1. IInv'
  BY SafeStep DEF StackInv
<1>2. CASE Abort \/ Finish
  <2>1. ~Running'
    BY <1>2 DEF Abort, Finish, Running
  <2>. QED BY <1>1, <2>1 DEF StackInv, UnwoundStack
<1>3. CASE Stopped \/ UNCHANGED vars
  <2>1. UNCHANGED vars
    BY <1>3 DEF Stopped
  <2>. QED BY <1>1, <2>1 DEF vars, StackInv, UnwoundStack, Running, Here, Top, FuncsIn, Depth
<1>. QED BY <1>1, <1>2, <1>3, StackBegin, StackEnd, StackKept, StackFunc, StackEndFunc DEF Next

(* Every function is generated on a stack of the entry blocks around it,   *)
(* whatever the functions and statements before it have pushed, for all    *)
(* programs (codegen.cpp, FuncDef::PascalCodeCreate).                      *)
THEOREM StackUnwound == Spec => []UnwoundStack
<1>1. StackInv => UnwoundStack
  BY DEF StackInv
<1>. QED BY <1>1, StackInit, StackStep, PTL DEF Spec

--------------------------------------------------------------------------------
(* Every block can be reached *)

(* Control cannot leave the blocks S, as far as they are complete. *)
Closed(S) == \A b \in S : Ended(b) => Targets(code[b][Len(code[b])]) \subseteq S

(* The blocks behind the if statements whose true branch is in progress:   *)
(* nothing leads there yet.                                                *)
Merges(c) == {c[i].merge : i \in {j \in 1 .. Len(c) : c[j].kind = "then"}}

(* Whoever follows control from an entry comes to every block of the       *)
(* function that something leads to.                                       *)
ReachInv ==
    /\ IInv
    /\ \A fn \in Fn : owner[fns[fn].entry] = fn
    /\ \A S \in SUBSET Block : Closed(S) =>
          \A b \in Block \ Merges(calls) : fns[owner[b]].entry \in S => b \in S
    /\ status = "done" => calls = << >>

LEMMA EntryType ==
    ASSUME TypeOK
    PROVE  \A fn \in Fn : fns[fn].entry \in Block
<1>. DEFINE R == [entry : Block, body : Seq(Stm)]
<1>1. fns \in Seq(R)
  BY DEF TypeOK
<1>2. \A r \in R : r.entry \in Block
  OBVIOUS
<1>. HIDE DEF R
<1>3. \A fn \in Fn : fns[fn] \in R
  BY <1>1 DEF Fn
<1>. QED BY <1>2, <1>3

(* What was reached stays so: complete blocks do not change. *)
LEMMA StillReached ==
    ASSUME ReachInv, IInv', [Next]_vars,
           \A b \in Block : owner'[b] = owner[b],
           \A fn \in Fn : fns'[fn] = fns[fn],
           NEW S, Closed(S)'
    PROVE  \A b \in Block \ Merges(calls) : fns'[owner'[b]].entry \in S => b \in S
<1>. DEFINE T == S \cap Block
<1>1. IInv /\ TypeOK /\ LocalTargets
  BY DEF ReachInv, IInv
<1>2. \A b \in Block : Ended(b) => code'[b] = code[b]
  BY <1>1, WritesTop
<1>3. Closed(T)
  <2>1. SUFFICES ASSUME NEW b \in T, Ended(b)
                 PROVE  Targets(code[b][Len(code[b])]) \subseteq T
    BY DEF Closed
  <2>2. code'[b] = code[b]
    BY <1>2, <2>1
  <2>3. Ended(b)'
    BY <2>1, <2>2 DEF Ended
  <2>4. Targets(code[b][Len(code[b])]) \subseteq S
    <3>1. Targets(code'[b][Len(code'[b])]) \subseteq S
      BY <2>3 DEF Closed
    <3>. QED BY <2>2, <3>1
  <2>5. code[b] \in Seq(Instr(Block)) /\ Len(code[b]) \in 1 .. Len(code[b])
    BY <1>1, <2>1 DEF TypeOK, Ended
  <2>6. Targets(code[b][Len(code[b])]) \subseteq Block
    BY <1>1, <2>5 DEF LocalTargets
  <2>. QED BY <2>4, <2>6
<1>4. ASSUME NEW b \in Block \ Merges(calls), fns'[owner'[b]].entry \in S
      PROVE  b \in S
  <2>1. owner'[b] = owner[b] /\ owner[b] \in Fn
    BY <1>1 DEF TypeOK
  <2>2. fns[owner[b]].entry \in Block
    BY <1>1, <2>1, EntryType
  <2>3. fns[owner[b]].entry \in T
    BY <1>4, <2>1, <2>2
  <2>4. T \in SUBSET Block
    OBVIOUS
  <2>5. b \in T
    BY <1>3, <2>3, <2>4 DEF ReachInv
  <2>. QED BY <2>5
<1>. QED BY <1>4

(* A step that leads from the block on top to every block it creates, and  *)
(* to the one an if it ends the true branch of goes on with.               *)
ReachStep(n) ==
    /\ Running
    /\ n \in Nat /\ nblk' = nblk + n /\ fns' = fns
    /\ \A b \in Block : owner'[b] = owner[b]
    /\ \A b \in NewBlocks(n) : owner'[b] = curFn
    /\ Len(calls') >= Len(calls) - 1 /\ \A i \in 1 .. Len(calls) - 1 : calls'[i] = calls[i]
    /\ \A S : Closed(S)' /\ Top \in S =>
          /\ NewBlocks(n) \subseteq S \cup Merges(calls')
          /\ Here.kind = "then" => Here.merge \in S
    /\ status' = "done" => calls' = << >>

LEMMA ReachKept ==
    ASSUME ReachInv, IInv', [Next]_vars, NEW n, ReachStep(n)
    PROVE  ReachInv'
<1>1. /\ IInv /\ TypeOK /\ nblk \in Nat /\ n \in Nat /\ Running
      /\ Top \in Block /\ owner[Top] = curFn /\ Top \notin PendingBlocks
      /\ Len(calls) \in Nat /\ Len(calls) > 0 /\ Here = calls[Len(calls)]
  BY RunningFacts DEF ReachInv, ReachStep, TypeOK, Here
<1>2. /\ Block' = Block \cup NewBlocks(n) /\ Fn' = Fn
      /\ \A b \in NewBlocks(n) : b \notin Block
  BY <1>1 DEF ReachStep, Block, Fn, NewBlocks
<1>3. \A fn \in Fn' : owner'[fns'[fn].entry] = fn
  <2>1. \A fn \in Fn : fns[fn].entry \in Block /\ owner[fns[fn].entry] = fn
    BY <1>1, EntryType DEF ReachInv
  <2>. QED BY <1>2, <2>1 DEF ReachStep
<1>4. \A i \in 1 .. Len(calls) : calls[i].kind = "then" =>
         /\ calls[i].merge \in PendingBlocks /\ calls[i].merge \in Block
         /\ owner[calls[i].merge] = curFn
  <2>1. \A i \in 1 .. Len(calls) : Owned(calls[i], curFn, owner) /\ calls[i] \in Frame(Block, Fn)
    BY <1>1, RunningFacts
  <2>2. \A i \in 1 .. Len(calls) : calls[i].kind = "then" => calls[i].merge \in Pending(calls[i])
    BY DEF Pending
  <2>. QED BY <2>1, <2>2 DEF Owned, Names, Frame, PendingBlocks, PendingIn
<1>5. \A b \in Merges(calls) : b \in Merges(calls') \/ (Here.kind = "then" /\ b = Here.merge)
  <2>1. SUFFICES ASSUME NEW i \in 1 .. Len(calls), calls[i].kind = "then"
                 PROVE  calls[i].merge \in Merges(calls') \/ (Here.kind = "then" /\ calls[i].merge = Here.merge)
    BY DEF Merges
  <2>2. CASE i = Len(calls)
    BY <1>1, <2>1, <2>2
  <2>3. CASE i # Len(calls)
    <3>1. i \in 1 .. Len(calls) - 1 /\ calls'[i] = calls[i]
      BY <1>1, <2>3 DEF ReachStep
    <3>2. i \in 1 .. Len(calls')
      BY <1>1, <3>1 DEF ReachStep
    <3>. QED BY <2>1, <3>1, <3>2 DEF Merges
  <2>. QED BY <2>2, <2>3
<1>6. ASSUME NEW S \in SUBSET Block', Closed(S)',
             NEW b \in Block' \ Merges(calls'), fns'[owner'[b]].entry \in S
      PROVE  b \in S
  <2>1. \A x \in Block \ Merges(calls) : fns'[owner'[x]].entry \in S => x \in S
    BY <1>6, StillReached DEF ReachStep
  <2>2. CASE b \in Block \ Merges(calls)
    BY <1>6, <2>1, <2>2
  <2>3. CASE ~(b \in Block \ Merges(calls))
    <3>1. b \in NewBlocks(n) \/ (Here.kind = "then" /\ b = Here.merge)
      BY <1>2, <1>5, <1>6, <2>3
    <3>2. owner'[b] = curFn
      <4>1. CASE b \in NewBlocks(n)
        BY <4>1 DEF ReachStep
      <4>2. CASE Here.kind = "then" /\ b = Here.merge
        BY <4>2, <1>1, <1>4 DEF ReachStep
      <4>. QED BY <3>1, <4>1, <4>2
    <3>3. Top \notin Merges(calls)
      BY <1>1, <1>4 DEF Merges
    <3>4. owner'[Top] = curFn
      BY <1>1 DEF ReachStep
    <3>5. Top \in S
      BY <1>1, <1>6, <2>1, <3>2, <3>3, <3>4
    <3>. QED BY <1>6, <3>1, <3>5 DEF ReachStep
  <2>. QED BY <2>2, <2>3
<1>. QED BY <1>3, <1>6 DEF ReachInv, ReachStep

(* What was written last decides whether and where a block leads. *)
LEMMA LastWritten ==
    ASSUME TypeOK, NEW n \in Nat, NEW f, NEW STATE out, Emit(n, f, out),
           NEW b \in 1 .. nblk + n, b \in DOMAIN out,
           NEW A, out[b] \in Seq(A), IsTerminator(out[b][Len(out[b])]), out[b] # << >>,
           NEW S, Closed(S)', b \in S
    PROVE  Targets(out[b][Len(out[b])]) \subseteq S
<1>1. code'[b] = Old(b) \o out[b]
  BY DEF Emit
<1>2. \E B : Old(b) \in Seq(B)
  <2>1. CASE b \in Block
    BY <2>1 DEF Old, TypeOK
  <2>2. CASE b \notin Block
    <3>1. << >> \in Seq({})
      OBVIOUS
    <3>. QED BY <2>2, <3>1 DEF Old
  <2>. QED BY <2>1, <2>2
<1>3. PICK B : Old(b) \in Seq(B)
  BY <1>2
<1>4. PICK s : s = Old(b)
  OBVIOUS
<1>5. PICK t : t = out[b]
  OBVIOUS
<1>6. /\ Len(s) \in Nat /\ Len(t) \in Nat /\ Len(t) > 0 /\ Len(s \o t) = Len(s) + Len(t)
      /\ (s \o t)[Len(s) + Len(t)] = t[Len(t)]
      /\ s \o t # << >>
  BY <1>3, <1>4, <1>5
<1>7. code'[b] = s \o t
  BY <1>1, <1>4, <1>5
<1>8. code'[b] # << >> /\ code'[b][Len(code'[b])] = out[b][Len(out[b])]
  BY <1>5, <1>6, <1>7
<1>9. Ended(b)'
  BY <1>8 DEF Ended
<1>. QED BY <1>8, <1>9 DEF Closed

(* The same for the block on top, when something ends it. *)
LEMMA TopLeads ==
    ASSUME IInv, Running, NEW n \in Nat, NEW STATE out, Emit(n, curFn, out), Top \in DOMAIN out,
           NEW A, out[Top] \in Seq(A), IsTerminator(out[Top][Len(out[Top])]), out[Top] # << >>,
           NEW S, Closed(S)', Top \in S
    PROVE  Targets(out[Top][Len(out[Top])]) \subseteq S
<1>1. TypeOK /\ Top \in 1 .. nblk + n
  BY RunningFacts DEF TypeOK, Block
<1>. QED BY <1>1, LastWritten

LEMMA BranchLeads ==
    ASSUME IInv, Running, NEW n \in Nat, NEW i, Emit(n, curFn, In(Top, <<i>>)), IsTerminator(i),
           NEW S, Closed(S)', Top \in S
    PROVE  Targets(i) \subseteq S
<1>1. PICK t : t = <<i>>
  OBVIOUS
<1>2. t \in Seq({i}) /\ t # << >> /\ t[Len(t)] = i
  BY <1>1
<1>3. Top \in DOMAIN In(Top, t) /\ In(Top, t)[Top] = t
  BY DEF In
<1>4. Emit(n, curFn, In(Top, t))
  BY <1>1
<1>5. Targets(In(Top, t)[Top][Len(In(Top, t)[Top])]) \subseteq S
  BY <1>2, <1>3, <1>4, TopLeads
<1>. QED BY <1>2, <1>3, <1>5

LEMMA ReachBegin ==
    ASSUME ReachInv, IInv', [Next]_vars, BeginIf \/ BeginWhile \/ BeginRepeat \/ BeginFor
    PROVE  ReachInv'
<1>1. IInv /\ Running /\ Here.kind = "body" /\ nblk \in Nat /\ Top \in Block /\ status # "done"
  BY RunningFacts DEF ReachInv, BeginIf, BeginWhile, BeginRepeat, BeginFor, AtStatement, TypeOK, Running
<1>2. Len(calls') >= Len(calls) - 1 /\ \A i \in 1 .. Len(calls) - 1 : calls'[i] = calls[i]
  <2>1. PICK y : /\ y.kind \in Construct
                 /\ calls' = [calls EXCEPT ![Len(calls)] = Rest] \o <<y, BodyFrame(Stmt.body)>>
    <3>1. /\ ThenFrame(Stmt, nblk + 2, nblk + 3).kind \in Construct
          /\ WhileFrame(nblk + 1, nblk + 3).kind \in Construct
          /\ RepeatFrame(Stmt, nblk + 1).kind \in Construct
          /\ ForFrame(Stmt, nblk + 1, nblk + 3).kind \in Construct
      BY DEF ThenFrame, WhileFrame, RepeatFrame, ForFrame, Construct
    <3>. QED BY <3>1 DEF BeginIf, BeginWhile, BeginRepeat, BeginFor
  <2>2. {Rest.kind, y.kind, BodyFrame(Stmt.body).kind} \cap {"func", "funcs"} = {}
    BY <2>1 DEF Rest, BodyFrame, Construct
  <2>. QED BY <1>1, <2>1, <2>2, StackPushed
<1>3. fns' = fns /\ status' # "done"
  BY <1>1 DEF BeginIf, BeginWhile, BeginRepeat, BeginFor
<1>4. ASSUME NEW n \in Nat, NEW out, Emit(n, curFn, out)
      PROVE  /\ nblk' = nblk + n
             /\ \A b \in Block : owner'[b] = owner[b]
             /\ \A b \in NewBlocks(n) : owner'[b] = curFn
  <2>1. nblk' = nblk + n
    BY <1>4 DEF Emit
  <2>. QED BY <1>1, <1>4, <2>1, EmitOwner
<1>5. CASE BeginIf
  <2>1. PICK i : i = CondBr(Stmt.id, nblk + 1, nblk + 2)
    OBVIOUS
  <2>2. Emit(3, curFn, In(Top, <<i>>)) /\ IsTerminator(i) /\ Targets(i) = {nblk + 1, nblk + 2}
    BY <1>5, <2>1 DEF BeginIf, CondBr, IsTerminator, Targets
  <2>3. nblk + 3 \in Merges(calls')
    <3>1. calls \in Seq(Frame(Block, Fn)) /\ Len(calls) > 0
      BY <1>1, RunningFacts
    <3>2. /\ Len(calls) + 1 \in 1 .. Len(calls')
          /\ calls'[Len(calls) + 1] = ThenFrame(Stmt, nblk + 2, nblk + 3)
      BY <1>5, <3>1 DEF BeginIf
    <3>. QED BY <3>2 DEF Merges, ThenFrame
  <2>4. ASSUME NEW S, Closed(S)', Top \in S
        PROVE  NewBlocks(3) \subseteq S \cup Merges(calls')
    <3>1. Targets(i) \subseteq S
      BY <1>1, <2>2, <2>4, BranchLeads
    <3>. QED BY <1>1, <2>2, <2>3, <3>1 DEF NewBlocks
  <2>5. ReachStep(3)
    BY <1>1, <1>2, <1>3, <1>4, <2>2, <2>4 DEF ReachStep
  <2>. QED BY <2>5, ReachKept
<1>6. CASE BeginRepeat
  <2>1. PICK i : i = Br(nblk + 1)
    OBVIOUS
  <2>2. Emit(1, curFn, In(Top, <<i>>)) /\ IsTerminator(i) /\ Targets(i) = {nblk + 1}
    BY <1>6, <2>1 DEF BeginRepeat, Br, IsTerminator, Targets
  <2>3. ASSUME NEW S, Closed(S)', Top \in S
        PROVE  NewBlocks(1) \subseteq S
    <3>1. Targets(i) \subseteq S
      BY <1>1, <2>2, <2>3, BranchLeads
    <3>. QED BY <1>1, <2>2, <3>1 DEF NewBlocks
  <2>4. ReachStep(1)
    BY <1>1, <1>2, <1>3, <1>4, <2>2, <2>3 DEF ReachStep
  <2>. QED BY <2>4, ReachKept
<1>7. ASSUME NEW s, NEW i, NEW A, s \in Seq(A), s # << >>, s[Len(s)] = Br(nblk + 1),
             IsTerminator(i), Targets(i) = {nblk + 2, nblk + 3},
             NEW STATE out, out = InTwo(Top, s, nblk + 1, <<i>>), Emit(3, curFn, out)
      PROVE  ReachInv'
  <2>1. /\ Top # nblk + 1 /\ DOMAIN out = {Top, nblk + 1}
        /\ out[Top] = s /\ out[nblk + 1] = <<i>>
    BY <1>1, <1>7 DEF InTwo, Block
  <2>2. IsTerminator(Br(nblk + 1)) /\ Targets(Br(nblk + 1)) = {nblk + 1}
    BY DEF Br, IsTerminator, Targets
  <2>3. ASSUME NEW S, Closed(S)', Top \in S
        PROVE  NewBlocks(3) \subseteq S
    <3>1. nblk + 1 \in S
      <4>1. Targets(out[Top][Len(out[Top])]) \subseteq S
        BY <1>1, <1>7, <2>1, <2>2, <2>3, TopLeads
      <4>. QED BY <4>1, <1>7, <2>1, <2>2
    <3>2. nblk + 2 \in S /\ nblk + 3 \in S
      <4>1. TypeOK /\ nblk + 1 \in 1 .. nblk + 3
        BY <1>1 DEF IInv
      <4>2. PICK t : t = <<i>>
        OBVIOUS
      <4>3. /\ t \in Seq({i}) /\ t # << >> /\ t[Len(t)] = i /\ out[nblk + 1] = t
        BY <4>2, <2>1
      <4>4. nblk + 1 \in DOMAIN out /\ 3 \in Nat
        BY <2>1
      <4>5. Targets(t[Len(t)]) \subseteq S
        BY <1>7, <2>3, <3>1, <4>1, <4>3, <4>4, LastWritten
      <4>. QED BY <4>3, <4>5, <1>7
    <3>. QED BY <1>1, <3>1, <3>2 DEF NewBlocks
  <2>4. ReachStep(3)
    BY <1>1, <1>2, <1>3, <1>4, <1>7, <2>3 DEF ReachStep
  <2>. QED BY <2>4, ReachKept
<1>8. CASE BeginWhile
  <2>1. PICK s, i : s = <<Br(nblk + 1)>> /\ i = CondBr(Stmt.id, nblk + 2, nblk + 3)
    OBVIOUS
  <2>2. s \in Seq({Br(nblk + 1)}) /\ s # << >> /\ s[Len(s)] = Br(nblk + 1)
    BY <2>1
  <2>3. IsTerminator(i) /\ Targets(i) = {nblk + 2, nblk + 3}
    BY <2>1 DEF CondBr, IsTerminator, Targets
  <2>4. Emit(3, curFn, InTwo(Top, s, nblk + 1, <<i>>))
    BY <1>8, <2>1 DEF BeginWhile
  <2>. QED BY <1>7, <2>2, <2>3, <2>4
<1>9. CASE BeginFor
  <2>1. PICK s, i : /\ s = <<InitVar(Stmt.id), Br(nblk + 1)>>
                    /\ i = CondBr(Stmt.id, nblk + 3, nblk + 2)
    OBVIOUS
  <2>2. s \in Seq({InitVar(Stmt.id), Br(nblk + 1)}) /\ s # << >> /\ s[Len(s)] = Br(nblk + 1)
    BY <2>1
  <2>3. IsTerminator(i) /\ Targets(i) = {nblk + 2, nblk + 3}
    BY <2>1 DEF CondBr, IsTerminator, Targets
  <2>4. Emit(3, curFn, InTwo(Top, s, nblk + 1, <<i>>))
    BY <1>9, <2>1 DEF BeginFor
  <2>. QED BY <1>7, <2>2, <2>3, <2>4
<1>. QED BY <1>5, <1>6, <1>8, <1>9

LEMMA ReachEnd ==
    ASSUME ReachInv, IInv', [Next]_vars, EndThen \/ EndElse \/ EndWhile \/ EndRepeat \/ EndFor
    PROVE  ReachInv'
<1>1. IInv /\ Running /\ Here.kind \in Construct /\ nblk \in Nat /\ status # "done"
  BY RunningFacts DEF ReachInv, EndThen, EndElse, EndWhile, EndRepeat, EndFor, TypeOK, Running, Construct
<1>2. Len(calls') >= Len(calls) - 1 /\ \A i \in 1 .. Len(calls) - 1 : calls'[i] = calls[i]
  <2>1. CASE EndThen
    BY <1>1, <2>1, StackCalls DEF EndThen, ElseFrame
  <2>2. CASE EndElse \/ EndWhile \/ EndRepeat
    BY <1>1, <2>2, StackReturned DEF EndElse, EndWhile, EndRepeat
  <2>3. CASE EndFor
    BY <1>1, <2>3, StackContinues DEF EndFor, BodyFrame
  <2>. QED BY <2>1, <2>2, <2>3
<1>3. fns' = fns /\ status' # "done"
  BY <1>1 DEF EndThen, EndElse, EndWhile, EndRepeat, EndFor
<1>4. ASSUME NEW n \in Nat, NEW out, Emit(n, curFn, out)
      PROVE  /\ nblk' = nblk + n
             /\ \A b \in Block : owner'[b] = owner[b]
             /\ \A b \in NewBlocks(n) : owner'[b] = curFn
  BY <1>1, <1>4, EmitOwner DEF Emit
<1>5. CASE EndThen
  <2>1. PICK i : i = Br(Here.merge)
    OBVIOUS
  <2>2. Emit(0, curFn, In(Top, <<i>>)) /\ IsTerminator(i) /\ Targets(i) = {Here.merge}
    BY <1>5, <2>1 DEF EndThen, Br, IsTerminator, Targets
  <2>3. ASSUME NEW S, Closed(S)', Top \in S
        PROVE  Here.merge \in S
    BY <1>1, <2>2, <2>3, BranchLeads
  <2>4. NewBlocks(0) = {}
    BY <1>1 DEF NewBlocks
  <2>5. ReachStep(0)
    BY <1>1, <1>2, <1>3, <1>4, <2>2, <2>3, <2>4 DEF ReachStep
  <2>. QED BY <2>5, ReachKept
<1>6. CASE EndElse \/ EndWhile \/ EndFor
  <2>1. \E out : Emit(0, curFn, out)
    BY <1>6 DEF EndElse, EndWhile, EndFor
  <2>2. NewBlocks(0) = {} /\ Here.kind # "then"
    BY <1>1, <1>6 DEF NewBlocks, EndElse, EndWhile, EndFor
  <2>3. ReachStep(0)
    BY <1>1, <1>2, <1>3, <1>4, <2>1, <2>2 DEF ReachStep
  <2>. QED BY <2>3, ReachKept
<1>7. CASE EndRepeat
  <2>1. PICK i : i = CondBr(Here.node.id, nblk + 1, Here.loop)
    OBVIOUS
  <2>2. Emit(1, curFn, In(Top, <<i>>)) /\ IsTerminator(i) /\ nblk + 1 \in Targets(i)
    BY <1>7, <2>1 DEF EndRepeat, CondBr, IsTerminator, Targets
  <2>3. ASSUME NEW S, Closed(S)', Top \in S
        PROVE  NewBlocks(1) \subseteq S
    <3>1. Targets(i) \subseteq S
      BY <1>1, <2>2, <2>3, BranchLeads
    <3>. QED BY <1>1, <2>2, <3>1 DEF NewBlocks
  <2>4. Here.kind # "then"
    BY <1>7 DEF EndRepeat
  <2>5. ReachStep(1)
    BY <1>1, <1>2, <1>3, <1>4, <2>2, <2>3, <2>4 DEF ReachStep
  <2>. QED BY <2>5, ReachKept
<1>. QED BY <1>5, <1>6, <1>7

(* The steps that create no block and end no true branch. *)
LEMMA ReachPlain ==
    ASSUME ReachInv, IInv', [Next]_vars,
           EmitSimple \/ SkipGoto \/ BodyDone \/ FuncsDone \/ EndFunc \/ Finish
    PROVE  ReachInv'
<1>1. /\ IInv /\ Running /\ nblk \in Nat /\ Here.kind # "then"
  BY RunningFacts DEF ReachInv, EmitSimple, SkipGoto, BodyDone, FuncsDone, EndFunc, Finish, TypeOK,
                      AtStatement
<1>2. Len(calls') >= Len(calls) - 1 /\ \A i \in 1 .. Len(calls) - 1 : calls'[i] = calls[i]
  <2>1. CASE EmitSimple \/ SkipGoto
    <3>1. Become(Rest) /\ Rest.kind = "body"
      BY <2>1 DEF EmitSimple, SkipGoto, Rest, BodyFrame
    <3>. QED BY <1>1, <3>1, StackContinues
  <2>2. CASE BodyDone \/ FuncsDone \/ EndFunc \/ Finish
    BY <1>1, <2>2, StackReturned DEF BodyDone, FuncsDone, EndFunc, Finish
  <2>. QED BY <2>1, <2>2
<1>3. /\ fns' = fns /\ nblk' = nblk + 0
      /\ \A b \in Block : owner'[b] = owner[b]
  <2>1. CASE EmitSimple \/ EndFunc \/ Finish
    <3>1. \E out : Emit(0, curFn, out)
      BY <2>1 DEF EmitSimple, EndFunc, Finish
    <3>2. nblk' = nblk + 0
      BY <3>1 DEF Emit
    <3>3. \A b \in Block : owner'[b] = owner[b]
      BY <1>1, <3>1, EmitOwner
    <3>4. fns' = fns
      BY <2>1 DEF EmitSimple, EndFunc, Finish
    <3>. QED BY <3>2, <3>3, <3>4
  <2>2. CASE SkipGoto \/ BodyDone \/ FuncsDone
    BY <1>1, <2>2 DEF SkipGoto, BodyDone, FuncsDone
  <2>. QED BY <2>1, <2>2
<1>4. NewBlocks(0) = {}
  BY <1>1 DEF NewBlocks
<1>5. status' = "done" => calls' = << >>
  <2>1. CASE Finish
    <3>1. calls \in Seq(Frame(Block, Fn)) /\ Len(calls) = 1
      BY <1>1, <2>1, RunningFacts DEF Finish
    <3>. QED BY <2>1, <3>1 DEF Finish, Return
  <2>2. CASE ~Finish
    BY <1>1, <2>2 DEF EmitSimple, SkipGoto, BodyDone, FuncsDone, EndFunc, Running
  <2>. QED BY <2>1, <2>2
<1>6. ReachStep(0)
  BY <1>1, <1>2, <1>3, <1>4, <1>5 DEF ReachStep
<1>. QED BY <1>6, ReachKept

LEMMA ReachInit == Init => ReachInv
<1>. SUFFICES ASSUME Init PROVE ReachInv
  OBVIOUS
<1>1. IInv
  BY SafeInit
<1>2. nblk = 1 /\ Len(fns) = 1 /\ fns[1].entry = 1 /\ owner = [b \in 1 .. 1 |-> 1] /\ status = "running"
  BY DEF Init
<1>3. Block = {1} /\ Fn = {1} /\ owner[1] = 1
  BY <1>2 DEF Block, Fn
<1>. QED BY <1>1, <1>2, <1>3 DEF ReachInv

(* A new function begins with its entry. *)
LEMMA ReachFunc ==
    ASSUME ReachInv, IInv', [Next]_vars, BeginFunc
    PROVE  ReachInv'
<1>. DEFINE m == Len(fns) + 1
            e == nblk + 1
<1>1. /\ IInv /\ TypeOK /\ Running /\ Here.kind = "funcs" /\ nblk \in Nat /\ status # "done"
  BY RunningFacts DEF ReachInv, BeginFunc, TypeOK, Running
<1>2. /\ nblk' = nblk + 1 /\ status' # "done"
      /\ \A b \in Block : owner'[b] = owner[b]
      /\ owner'[e] = m
  <2>1. Emit(1, m, In(e, << >>)) /\ e \in NewBlocks(1)
    BY <1>1 DEF BeginFunc, NewBlocks
  <2>2. /\ \A b \in Block : owner'[b] = owner[b]
        /\ \A b \in NewBlocks(1) : owner'[b] = m
    BY <1>1, <2>1, EmitOwner
  <2>. QED BY <1>1, <2>1, <2>2 DEF Emit, BeginFunc
<1>3. /\ \A fn \in Fn : fns'[fn] = fns[fn]
      /\ Fn' = Fn \cup {m} /\ fns'[m].entry = e
  <2>1. PICK r : r = [entry |-> e, body |-> Here.defs[1].body]
    OBVIOUS
  <2>2. fns' = Append(fns, r) /\ r.entry = e
    BY <2>1 DEF BeginFunc
  <2>3. \E R : fns \in Seq(R)
    BY <1>1 DEF TypeOK
  <2>. QED BY <2>2, <2>3 DEF Fn
<1>4. Block' = Block \cup {e} /\ e \notin Block
  BY <1>1, <1>2 DEF Block
<1>5. \A fn \in Fn' : owner'[fns'[fn].entry] = fn
  <2>1. \A fn \in Fn : fns[fn].entry \in Block /\ owner[fns[fn].entry] = fn
    BY <1>1, EntryType DEF ReachInv
  <2>. QED BY <1>2, <1>3, <2>1
<1>6. Merges(calls) = {}
  <2>1. \A i \in 1 .. Len(calls) : calls[i].kind # "then"
    BY <1>1, NoStatementAround DEF Construct
  <2>. QED BY <2>1 DEF Merges
<1>7. ASSUME NEW S \in SUBSET Block', Closed(S)',
             NEW b \in Block' \ Merges(calls'), fns'[owner'[b]].entry \in S
      PROVE  b \in S
  <2>1. \A x \in Block \ Merges(calls) : fns'[owner'[x]].entry \in S => x \in S
    BY <1>2, <1>3, <1>7, StillReached
  <2>. QED BY <1>2, <1>3, <1>4, <1>6, <1>7, <2>1
<1>. QED BY <1>1, <1>2, <1>5, <1>7 DEF ReachInv

LEMMA ReachUnchanged ==
    ASSUME ReachInv, IInv', Abort \/ Stopped \/ UNCHANGED vars
    PROVE  ReachInv'
<1>1. /\ UNCHANGED <<code, owner, nblk, fns, calls>>
      /\ status' = "done" => status = "done"
  BY DEF Abort, Stopped, vars
<1>2. Block' = Block /\ Fn' = Fn /\ \A S : Closed(S)' <=> Closed(S)
  BY <1>1 DEF Block, Fn, Closed, Ended
<1>. QED BY <1>1, <1>2 DEF ReachInv

LEMMA ReachInvStep == ReachInv /\ [Next]_vars => ReachInv'
<1>. SUFFICES ASSUME ReachInv, [Next]_vars PROVE ReachInv'
  OBVIOUS
<1>1. IInv'
  BY SafeStep DEF ReachInv
<1>. QED BY <1>1, ReachBegin, ReachEnd, ReachPlain, ReachFunc, ReachUnchanged DEF Next

(* Every set of natural numbers that is not empty has a least element. *)
LEMMA Least ==
  ASSUME NEW T, T \subseteq Nat, T # {}
  PROVE  \E x \in T : \A y \in T : x <= y
<1>. DEFINE R == OpToRel(<, Nat)
<1>1. IsWellFoundedOn(R, Nat)
  BY NatLessThanWellFounded
<1>2. \A x, y \in Nat : y < x => <<y, x>> \in R
  BY DEF OpToRel
<1>. HIDE DEF R
<1>3. PICK x \in T : \A y \in T : ~(<<y, x>> \in R)
  BY <1>1, WFMin
<1>4. ASSUME NEW y \in T PROVE x <= y
  <2>1. x \in Nat /\ y \in Nat /\ ~(y < x)
    BY <1>2, <1>3
  <2>. QED
    BY <2>1
<1>. QED
  BY <1>4

(* F adds elements of U, which has N of them. *)
Adds(F, N, U) ==
    /\ N \in Nat /\ U = 1 .. N
    /\ F \in [SUBSET U -> SUBSET U] /\ \A B \in SUBSET U : B \subseteq F[B]

(* Steps(r, N, U, F): r is what F makes of r[0] in up to N steps. *)
Steps(r, N, U, F) ==
    /\ N \in Nat /\ F \in [SUBSET U -> SUBSET U]
    /\ r \in [0 .. N -> SUBSET U]
    /\ \A n \in 1 .. N : r[n] = F[r[n - 1]]

LEMMA StepsExist ==
    ASSUME NEW N, NEW U, NEW F, Adds(F, N, U), NEW A, A \subseteq U
    PROVE  \E r : Steps(r, N, U, F) /\ r[0] = A
<1>0. N \in Nat /\ F \in [SUBSET U -> SUBSET U] /\ A \in SUBSET U
  BY DEF Adds
<1>. DEFINE Bad == {n \in Nat : ~\E r : Steps(r, n, U, F) /\ r[0] = A}
<1>. SUFFICES ASSUME Bad # {} PROVE FALSE
  BY <1>0
<1>1. PICK n \in Bad : \A k \in Bad : n <= k
  <2>1. Bad \subseteq Nat
    OBVIOUS
  <2>. HIDE DEF Bad
  <2>. QED BY <2>1, Least
<1>2. n # 0
  <2>1. Steps([k \in 0 .. 0 |-> A], 0, U, F)
    BY <1>0 DEF Steps
  <2>2. [k \in 0 .. 0 |-> A][0] = A
    OBVIOUS
  <2>. QED BY <2>1, <2>2, <1>1
<1>3. n - 1 \in Nat /\ n - 1 \notin Bad
  BY <1>1, <1>2
<1>4. PICK r : Steps(r, n - 1, U, F) /\ r[0] = A
  BY <1>3
<1>5. PICK s : s = [k \in 0 .. n |-> IF k = n THEN F[r[n - 1]] ELSE r[k]]
  OBVIOUS
<1>6. /\ n \in Nat /\ n > 0 /\ n - 1 \in 0 .. n - 1
      /\ \A k \in 0 .. n : k = n \/ k \in 0 .. n - 1
      /\ \A k \in 1 .. n : k - 1 \in 0 .. n - 1
  BY <1>1, <1>2
<1>7. r \in [0 .. n - 1 -> SUBSET U] /\ \A k \in 1 .. n - 1 : r[k] = F[r[k - 1]]
  BY <1>4 DEF Steps
<1>8. s \in [0 .. n -> SUBSET U]
  BY <1>0, <1>5, <1>6, <1>7
<1>9. \A k \in 1 .. n : s[k] = F[s[k - 1]]
  <2>1. SUFFICES ASSUME NEW k \in 1 .. n PROVE s[k] = F[s[k - 1]]
    OBVIOUS
  <2>2. k \in 0 .. n /\ k - 1 \in 0 .. n /\ k - 1 # n
    BY <1>6, <2>1
  <2>3. s[k - 1] = r[k - 1]
    BY <1>5, <2>2
  <2>4. CASE k = n
    BY <1>5, <2>2, <2>3, <2>4
  <2>5. CASE k # n
    <3>1. k \in 1 .. n - 1 /\ s[k] = r[k]
      BY <1>5, <1>6, <2>2, <2>5
    <3>. QED BY <1>7, <2>3, <3>1
  <2>. QED BY <2>4, <2>5
<1>10. s[0] = A
  BY <1>4, <1>5, <1>6
<1>11. Steps(s, n, U, F) /\ s[0] = A
  BY <1>0, <1>6, <1>8, <1>9, <1>10 DEF Steps
<1>. QED BY <1>1, <1>11

(* N steps are enough for N elements, when none is ever taken away. *)
LEMMA StepsEnd ==
    ASSUME NEW N, NEW U, NEW F, Adds(F, N, U), NEW r, Steps(r, N, U, F), r[0] # {}
    PROVE  F[r[N]] = r[N]
<1>0. U = 1 .. N /\ \A B \in SUBSET U : B \subseteq F[B]
  BY DEF Adds
<1>. SUFFICES ASSUME F[r[N]] # r[N] PROVE FALSE
  OBVIOUS
<1>1. /\ N \in Nat /\ \A n \in 1 .. N : r[n] = F[r[n - 1]] /\ n - 1 \in 0 .. N /\ n \in 0 .. N
      /\ \A n \in 0 .. N : r[n] \in SUBSET U
  BY DEF Steps
<1>2. ASSUME NEW n \in 1 .. N PROVE r[n] # r[n - 1]
  <2>1. SUFFICES ASSUME r[n] = r[n - 1] PROVE FALSE
    OBVIOUS
  <2>. DEFINE Bad == {k \in n .. N : r[k] # r[n - 1]}
  <2>2. r[N] = r[n - 1]
    <3>1. SUFFICES ASSUME Bad # {} PROVE FALSE
      BY <1>1, <1>2
    <3>2. Bad \subseteq Nat
      BY <1>1, <1>2
    <3>3. PICK k \in Bad : \A j \in Bad : k <= j
      <4>. HIDE DEF Bad
      <4>. QED BY <3>1, <3>2, Least
    <3>4. k # n /\ k \in n .. N
      BY <2>1, <3>3
    <3>5. k \in 1 .. N /\ k - 1 \in n .. N /\ ~(k <= k - 1)
      BY <1>1, <1>2, <3>4
    <3>6. r[k - 1] = r[n - 1]
      BY <3>3, <3>5
    <3>7. r[k] = F[r[n - 1]]
      BY <1>1, <3>5, <3>6
    <3>. QED BY <1>1, <1>2, <2>1, <3>3, <3>7
  <2>. QED BY <1>1, <1>2, <2>1, <2>2
<1>3. IsFiniteSet(U) /\ Cardinality(U) = N
  <2>1. U = 1 .. N /\ N \in Int
    BY <1>0, <1>1
  <2>. QED BY <1>1, <2>1, FS_Interval
<1>4. \A n \in 0 .. N : IsFiniteSet(r[n]) /\ Cardinality(r[n]) \in Nat /\ Cardinality(r[n]) <= N
  <2>1. SUFFICES ASSUME NEW n \in 0 .. N
                 PROVE  IsFiniteSet(r[n]) /\ Cardinality(r[n]) \in Nat /\ Cardinality(r[n]) <= N
    OBVIOUS
  <2>2. IsFiniteSet(r[n]) /\ Cardinality(r[n]) <= N
    BY <1>1, <1>3, FS_Subset
  <2>. QED BY <2>2, FS_CardinalityType
<1>5. \A n \in 0 .. N : Cardinality(r[n]) >= n + 1
  <2>. DEFINE Bad == {n \in 0 .. N : ~(Cardinality(r[n]) >= n + 1)}
  <2>1. SUFFICES ASSUME Bad # {} PROVE FALSE
    OBVIOUS
  <2>2. Bad \subseteq Nat
    OBVIOUS
  <2>3. PICK n \in Bad : \A k \in Bad : n <= k
    <3>. HIDE DEF Bad
    <3>. QED BY <2>1, <2>2, Least
  <2>4. n \in 0 .. N /\ Cardinality(r[n]) < n + 1 /\ Cardinality(r[n]) \in Nat
    BY <1>4, <2>3
  <2>5. n # 0
    <3>1. 0 \in 0 .. N
      BY <1>1
    <3>2. Cardinality(r[0]) # 0
      BY <1>4, <3>1, FS_EmptySet
    <3>. QED BY <1>4, <2>4, <3>1, <3>2
  <2>6. n \in 1 .. N /\ n - 1 \in 0 .. N /\ ~(n <= n - 1)
    BY <1>1, <2>4, <2>5
  <2>7. Cardinality(r[n - 1]) >= n /\ Cardinality(r[n - 1]) \in Nat
    BY <1>4, <2>3, <2>6
  <2>8. r[n - 1] \subseteq r[n] /\ r[n - 1] # r[n]
    BY <1>0, <1>1, <1>2, <2>6
  <2>9. Cardinality(r[n - 1]) <= Cardinality(r[n]) /\ Cardinality(r[n - 1]) # Cardinality(r[n])
    BY <1>4, <2>4, <2>8, FS_Subset
  <2>. QED BY <2>4, <2>6, <2>7, <2>9
<1>6. N \in 0 .. N
  BY <1>1
<1>. QED BY <1>1, <1>4, <1>5, <1>6

LEMMA ReachableIs ==
    ASSUME IInv, status = "done", NEW fn \in Fn
    PROVE  /\ Reachable(fn) \subseteq Block /\ fns[fn].entry \in Reachable(fn)
           /\ Closed(Reachable(fn))
           /\ \A S \in SUBSET Block : fns[fn].entry \in S /\ Closed(S) => Reachable(fn) \subseteq S
<1>. DEFINE e == fns[fn].entry
            F == [B \in SUBSET Block |-> Onwards(B)]
            Def(g) == [n \in 0 .. nblk |-> IF n = 0 THEN {e} ELSE Onwards(g[n - 1])]
            reach == CHOOSE g : g = Def(g)
<1>1. TypeOK /\ LocalTargets /\ e \in Block /\ nblk \in Nat
  BY EntryType DEF IInv, TypeOK
<1>2. \A b \in Block : Ended(b)
  BY DEF IInv, OpenBlocks
<1>3. \A b \in Block : Targets(code[b][Len(code[b])]) \subseteq Block
  <2>1. SUFFICES ASSUME NEW b \in Block PROVE Targets(code[b][Len(code[b])]) \subseteq Block
    OBVIOUS
  <2>2. code[b] \in Seq(Instr(Block)) /\ code[b] # << >>
    BY <1>1, <1>2 DEF TypeOK, Ended
  <2>3. Len(code[b]) \in 1 .. Len(code[b])
    BY <2>2
  <2>. QED BY <1>1, <2>3 DEF LocalTargets
<1>4. \A B \in SUBSET Block : Onwards(B) \in SUBSET Block /\ B \subseteq Onwards(B)
  BY <1>3 DEF Onwards
<1>5. F \in [SUBSET Block -> SUBSET Block] /\ \A B \in SUBSET Block : F[B] = Onwards(B)
  BY <1>4
<1>. HIDE DEF F
<1>6. PICK r : Steps(r, nblk, Block, F) /\ r[0] = {e}
  <2>1. {e} \subseteq Block /\ Adds(F, nblk, Block)
    BY <1>1, <1>4, <1>5 DEF Adds, Block
  <2>2. PICK A : A = {e} /\ A \subseteq Block
    BY <2>1
  <2>3. \E r : Steps(r, nblk, Block, F) /\ r[0] = A
    BY <2>1, <2>2, StepsExist
  <2>. QED BY <2>2, <2>3
<1>7. r = Def(r)
  <2>1. r \in [0 .. nblk -> SUBSET Block] /\ \A n \in 1 .. nblk : r[n] = F[r[n - 1]]
    BY <1>6 DEF Steps
  <2>2. \A n \in 0 .. nblk : n = 0 \/ (n \in 1 .. nblk /\ n - 1 \in 0 .. nblk)
    BY <1>1
  <2>3. \A n \in 0 .. nblk : r[n] = IF n = 0 THEN {e} ELSE Onwards(r[n - 1])
    BY <1>5, <1>6, <2>1, <2>2
  <2>. QED BY <2>1, <2>3
<1>8. reach = Def(reach)
  <2>. HIDE DEF Def
  <2>. QED BY <1>7
<1>9. Reachable(fn) = reach[nblk]
  BY DEF Reachable
<1>10. \A n \in 0 .. nblk : reach[n] = IF n = 0 THEN {e} ELSE Onwards(reach[n - 1])
  <2>. HIDE DEF reach
  <2>. QED BY <1>8
<1>. HIDE DEF reach, Def
<1>11. \A n \in 0 .. nblk : /\ reach[n] \in SUBSET Block
                            /\ \A S \in SUBSET Block : e \in S /\ Closed(S) => reach[n] \subseteq S
  <2>. DEFINE Good(n) == /\ reach[n] \in SUBSET Block
                         /\ \A S \in SUBSET Block : e \in S /\ Closed(S) => reach[n] \subseteq S
              Bad == {n \in 0 .. nblk : ~Good(n)}
  <2>1. SUFFICES ASSUME Bad # {} PROVE FALSE
    OBVIOUS
  <2>2. Bad \subseteq Nat
    OBVIOUS
  <2>3. PICK n \in Bad : \A k \in Bad : n <= k
    <3>. HIDE DEF Bad
    <3>. QED BY <2>1, <2>2, Least
  <2>4. n # 0
    <3>1. Good(0)
      BY <1>1, <1>10
    <3>. HIDE DEF Good
    <3>. QED BY <2>3, <3>1
  <2>5. n - 1 \in 0 .. nblk /\ ~(n <= n - 1) /\ n \in 0 .. nblk
    <3>. HIDE DEF Good
    <3>. QED BY <1>1, <2>3, <2>4
  <2>6. Good(n - 1)
    <3>. HIDE DEF Good
    <3>. QED BY <2>3, <2>5
  <2>7. reach[n] = Onwards(reach[n - 1])
    BY <1>10, <2>4, <2>5
  <2>8. ASSUME NEW S \in SUBSET Block, e \in S, Closed(S) PROVE reach[n] \subseteq S
    <3>1. reach[n - 1] \subseteq S
      BY <2>6, <2>8
    <3>2. \A b \in reach[n - 1] : Targets(code[b][Len(code[b])]) \subseteq S
      BY <1>2, <2>8, <3>1 DEF Closed
    <3>. QED BY <2>7, <3>1, <3>2 DEF Onwards
  <2>9. Good(n)
    BY <1>4, <2>6, <2>7, <2>8
  <2>. HIDE DEF Good
  <2>. QED BY <2>3, <2>9
<1>12. Steps(reach, nblk, Block, F) /\ reach[0] = {e}
  <2>1. reach \in [0 .. nblk -> SUBSET Block]
    <3>1. reach = [n \in 0 .. nblk |-> reach[n]]
      BY <1>8 DEF Def
    <3>. QED BY <1>11, <3>1
  <2>2. \A n \in 1 .. nblk : n \in 0 .. nblk /\ n # 0 /\ n - 1 \in 0 .. nblk
    BY <1>1
  <2>3. \A n \in 1 .. nblk : reach[n] = F[reach[n - 1]]
    BY <1>5, <1>10, <1>11, <2>2
  <2>4. 0 \in 0 .. nblk
    BY <1>1
  <2>. QED BY <1>1, <1>5, <1>10, <2>1, <2>3, <2>4 DEF Steps
<1>13. F[reach[nblk]] = reach[nblk]
  <2>1. Adds(F, nblk, Block)
    BY <1>1, <1>4, <1>5 DEF Adds, Block
  <2>2. reach[0] # {}
    BY <1>12
  <2>. QED BY <1>12, <2>1, <2>2, StepsEnd
<1>14. nblk \in 0 .. nblk /\ reach[nblk] \in SUBSET Block
  BY <1>1, <1>11
<1>15. Closed(reach[nblk])
  BY <1>5, <1>13, <1>14 DEF Closed, Onwards
<1>16. e \in reach[nblk]
  <2>. DEFINE Bad == {n \in 0 .. nblk : e \notin reach[n]}
  <2>1. SUFFICES ASSUME Bad # {} PROVE FALSE
    BY <1>14
  <2>2. PICK n \in Bad : \A k \in Bad : n <= k
    <3>1. Bad \subseteq Nat
      OBVIOUS
    <3>. HIDE DEF Bad
    <3>. QED BY <2>1, <3>1, Least
  <2>3. n # 0
    BY <1>12, <2>2
  <2>4. n \in 0 .. nblk /\ n - 1 \in 0 .. nblk /\ ~(n <= n - 1)
    BY <1>1, <2>2, <2>3
  <2>5. e \in reach[n - 1]
    BY <2>2, <2>4
  <2>. QED BY <1>10, <2>2, <2>3, <2>4, <2>5 DEF Onwards
<1>. QED BY <1>9, <1>11, <1>14, <1>15, <1>16

LEMMA AllAreReached == ReachInv => AllReachable
<1>. SUFFICES ASSUME ReachInv, status = "done", NEW fn \in Fn
              PROVE  Reachable(fn) = {b \in Block : owner[b] = fn}
  BY DEF AllReachable
<1>1. IInv /\ TypeOK /\ LocalTargets
  BY DEF ReachInv, IInv
<1>. DEFINE own == {b \in Block : owner[b] = fn}
<1>2. Merges(calls) = {}
  BY DEF ReachInv, Merges
<1>3. fns[fn].entry \in own
  BY <1>1, EntryType DEF ReachInv
<1>4. Closed(own)
  <2>1. SUFFICES ASSUME NEW b \in own, Ended(b)
                 PROVE  Targets(code[b][Len(code[b])]) \subseteq own
    BY DEF Closed
  <2>2. code[b] \in Seq(Instr(Block)) /\ code[b] # << >>
    BY <1>1, <2>1 DEF TypeOK, Ended
  <2>3. Len(code[b]) \in 1 .. Len(code[b])
    BY <2>2
  <2>. QED BY <1>1, <2>1, <2>3 DEF LocalTargets
<1>5. Reachable(fn) \subseteq own
  BY <1>1, <1>3, <1>4, ReachableIs
<1>6. own \subseteq Reachable(fn)
  BY <1>1, <1>2, ReachableIs DEF ReachInv
<1>. QED BY <1>5, <1>6

(* In the finished module control comes from the entry of a function to    *)
(* every block of it and to no other: no handler of codegen.cpp (555-758)  *)
(* leaves a block dangling, for any program and any nesting.               *)
THEOREM BlocksReached == Spec => []AllReachable
<1>1. Spec => []ReachInv
  BY ReachInit, ReachInvStep, PTL DEF Spec
<1>. QED BY <1>1, AllAreReached, PTL
--------------------------------------------------------------------------------
(* How often statements are generated *)

(* Values in V for the elements of D, that of an element from those below. *)
Recursion(D, V, rank, B) ==
    /\ rank \in [D -> Nat]
    /\ B \in [D -> [[D -> V] -> V]]
    /\ \A s \in D : \A f, g \in [D -> V] :
          (\A t \in D : rank[t] < rank[s] => f[t] = g[t]) => B[s][f] = B[s][g]

(* f obeys B for the elements of a rank below n. *)
Upto(f, n, D, V, rank, B) ==
    f \in [D -> V] /\ \A s \in D : rank[s] < n => f[s] = B[s][f]

LEMMA SomeUpto ==
    ASSUME NEW D, NEW V, NEW rank, NEW B, Recursion(D, V, rank, B), V # {}
    PROVE  \A n \in Nat : \E f : Upto(f, n, D, V, rank, B)
<1>. DEFINE Bad == {n \in Nat : ~\E f : Upto(f, n, D, V, rank, B)}
<1>. SUFFICES ASSUME Bad # {} PROVE FALSE
  OBVIOUS
<1>1. PICK n \in Bad : \A k \in Bad : n <= k
  <2>1. Bad \subseteq Nat
    OBVIOUS
  <2>. HIDE DEF Bad
  <2>. QED BY <2>1, Least
<1>2. PICK v : v \in V
  OBVIOUS
<1>3. rank \in [D -> Nat] /\ B \in [D -> [[D -> V] -> V]]
  BY DEF Recursion
<1>4. n # 0
  <2>1. Upto([s \in D |-> v], 0, D, V, rank, B)
    <3>1. \A s \in D : rank[s] \in Nat
      BY <1>3
    <3>2. \A s \in D : ~(rank[s] < 0)
      BY <3>1
    <3>. QED BY <1>2, <3>2 DEF Upto
  <2>. QED BY <2>1, <1>1
<1>5. n \in Nat /\ n - 1 \in Nat /\ n - 1 \notin Bad
  BY <1>1, <1>4
<1>6. PICK g : Upto(g, n - 1, D, V, rank, B)
  BY <1>5
<1>7. PICK f : f = [s \in D |-> IF rank[s] < n THEN B[s][g] ELSE v]
  OBVIOUS
<1>8. g \in [D -> V] /\ \A s \in D : rank[s] < n - 1 => g[s] = B[s][g]
  BY <1>6 DEF Upto
<1>9. f \in [D -> V]
  BY <1>2, <1>3, <1>7, <1>8
<1>10. ASSUME NEW s \in D, rank[s] < n PROVE f[s] = B[s][f]
  <2>1. f[s] = B[s][g]
    BY <1>7, <1>10
  <2>2. ASSUME NEW t \in D, rank[t] < rank[s] PROVE f[t] = g[t]
    <3>1. rank[t] \in Nat /\ rank[s] \in Nat
      BY <1>3
    <3>2. rank[t] < n - 1 /\ rank[t] < n
      BY <1>5, <1>10, <2>2, <3>1
    <3>. QED BY <1>7, <1>8, <3>2
  <2>3. B[s][f] = B[s][g]
    BY <1>8, <1>9, <2>2 DEF Recursion
  <2>. QED BY <2>1, <2>3
<1>11. Upto(f, n, D, V, rank, B)
  BY <1>9, <1>10 DEF Upto
<1>. QED BY <1>1, <1>11

LEMMA UptoAgree ==
    ASSUME NEW D, NEW V, NEW rank, NEW B, Recursion(D, V, rank, B),
           NEW n \in Nat, NEW m \in Nat, NEW f, NEW g,
           Upto(f, n, D, V, rank, B), Upto(g, m, D, V, rank, B)
    PROVE  \A s \in D : rank[s] < n /\ rank[s] < m => f[s] = g[s]
<1>. DEFINE Bad == {r \in Nat : \E s \in D : rank[s] = r /\ r < n /\ r < m /\ f[s] # g[s]}
<1>1. rank \in [D -> Nat] /\ f \in [D -> V] /\ g \in [D -> V]
  BY DEF Recursion, Upto
<1>2. Bad = {}
  <2>1. SUFFICES ASSUME Bad # {} PROVE FALSE
    OBVIOUS
  <2>2. PICK r \in Bad : \A k \in Bad : r <= k
    <3>1. Bad \subseteq Nat
      OBVIOUS
    <3>. HIDE DEF Bad
    <3>. QED BY <2>1, <3>1, Least
  <2>3. PICK s \in D : rank[s] = r /\ r < n /\ r < m /\ f[s] # g[s]
    BY <2>2
  <2>4. ASSUME NEW t \in D, rank[t] < rank[s] PROVE f[t] = g[t]
    <3>1. rank[t] \in Nat /\ r \in Nat
      BY <1>1, <2>2
    <3>2. ~(r <= rank[t]) /\ rank[t] < n /\ rank[t] < m
      BY <2>3, <2>4, <3>1
    <3>3. rank[t] \notin Bad
      BY <2>2, <3>2
    <3>. QED BY <3>1, <3>2, <3>3
  <2>5. B[s][f] = B[s][g]
    BY <1>1, <2>4 DEF Recursion
  <2>6. f[s] = B[s][f] /\ g[s] = B[s][g]
    BY <2>3 DEF Upto
  <2>. QED BY <2>3, <2>5, <2>6
<1>3. ASSUME NEW s \in D, rank[s] < n, rank[s] < m PROVE f[s] = g[s]
  <2>1. rank[s] \in Nat /\ rank[s] \notin Bad
    BY <1>1, <1>2
  <2>. QED BY <1>3, <2>1
<1>. QED BY <1>3

(* What is defined from the elements below exists. *)
LEMMA RecursionExists ==
    ASSUME NEW D, NEW V, NEW rank, NEW B, Recursion(D, V, rank, B), V # {}
    PROVE  \E f \in [D -> V] : \A s \in D : f[s] = B[s][f]
<1>1. rank \in [D -> Nat] /\ B \in [D -> [[D -> V] -> V]]
  BY DEF Recursion
<1>2. PICK F : F = [n \in Nat |-> CHOOSE f : Upto(f, n, D, V, rank, B)]
  OBVIOUS
<1>3. \A n \in Nat : Upto(F[n], n, D, V, rank, B)
  BY <1>2, SomeUpto
<1>4. PICK f : f = [s \in D |-> F[rank[s] + 1][s]]
  OBVIOUS
<1>5. ASSUME NEW s \in D
      PROVE  /\ rank[s] \in Nat /\ rank[s] + 1 \in Nat /\ rank[s] < rank[s] + 1
             /\ f[s] = F[rank[s] + 1][s]
             /\ F[rank[s] + 1] \in [D -> V]
             /\ F[rank[s] + 1][s] = B[s][F[rank[s] + 1]]
  <2>1. rank[s] \in Nat
    BY <1>1
  <2>2. rank[s] + 1 \in Nat /\ rank[s] < rank[s] + 1
    BY <2>1
  <2>3. Upto(F[rank[s] + 1], rank[s] + 1, D, V, rank, B)
    BY <1>3, <2>2
  <2>. QED BY <1>4, <2>1, <2>2, <2>3 DEF Upto
<1>6. f \in [D -> V]
  BY <1>4, <1>5
<1>7. ASSUME NEW s \in D PROVE f[s] = B[s][f]
  <2>1. PICK n : n = rank[s] + 1
    OBVIOUS
  <2>2. PICK g : g = F[n]
    OBVIOUS
  <2>3. ASSUME NEW t \in D, rank[t] < rank[s] PROVE f[t] = g[t]
    <3>1. rank[t] + 1 \in Nat /\ rank[t] < rank[t] + 1 /\ n \in Nat /\ rank[t] < n
      BY <1>5, <2>1, <2>3
    <3>2. Upto(F[rank[t] + 1], rank[t] + 1, D, V, rank, B) /\ Upto(g, n, D, V, rank, B)
      BY <1>3, <2>2, <3>1
    <3>3. F[rank[t] + 1][t] = g[t]
      BY <3>1, <3>2, UptoAgree
    <3>. QED BY <1>5, <3>3
  <2>4. g \in [D -> V] /\ f[s] = g[s] /\ g[s] = B[s][g]
    BY <1>5, <2>1, <2>2
  <2>5. B[s][f] = B[s][g]
    BY <1>6, <2>3, <2>4 DEF Recursion
  <2>. QED BY <2>4, <2>5
<1>. QED BY <1>6, <1>7

(* t are the sums of f over the beginnings of q. *)
Sums(t, f, q) ==
    /\ t \in [0 .. Len(q) -> Nat] /\ t[0] = 0
    /\ \A k \in 1 .. Len(q) : t[k] = t[k - 1] + f[q[k]]

Countable(f, q) == Len(q) \in Nat /\ \A k \in 1 .. Len(q) : f[q[k]] \in Nat

LEMMA TotalIs ==
    ASSUME NEW f, NEW q, Countable(f, q)
    PROVE  \E t : Sums(t, f, q) /\ Total(f, q) = t[Len(q)]
<1>. DEFINE N == Len(q)
            D == 0 .. N
            B == [k \in D |-> [g \in [D -> Nat] |-> IF k = 0 THEN 0 ELSE g[k - 1] + f[q[k]]]]
            R == [k \in D |-> k]
            Def(g) == [k \in D |-> IF k = 0 THEN 0 ELSE g[k - 1] + f[q[k]]]
            total == CHOOSE g : g = Def(g)
<1>1. N \in Nat /\ \A k \in 1 .. N : f[q[k]] \in Nat
  BY DEF Countable
<1>2. \A k \in D : k = 0 \/ (k \in 1 .. N /\ k - 1 \in D /\ k - 1 < k)
  BY <1>1
<1>3. B \in [D -> [[D -> Nat] -> Nat]]
  <2>1. SUFFICES ASSUME NEW k \in D, NEW g \in [D -> Nat]
                 PROVE  (IF k = 0 THEN 0 ELSE g[k - 1] + f[q[k]]) \in Nat
    OBVIOUS
  <2>2. CASE k = 0
    BY <2>2
  <2>3. CASE k # 0
    <3>1. k \in 1 .. N /\ k - 1 \in D
      BY <1>2, <2>3
    <3>2. g[k - 1] \in Nat /\ f[q[k]] \in Nat
      BY <1>1, <3>1
    <3>. QED BY <2>3, <3>2
  <2>. QED BY <2>2, <2>3
<1>4. Recursion(D, Nat, R, B)
  <2>1. R \in [D -> Nat]
    BY <1>1
  <2>2. ASSUME NEW k \in D, NEW g \in [D -> Nat], NEW h \in [D -> Nat],
               \A j \in D : R[j] < R[k] => g[j] = h[j]
        PROVE  B[k][g] = B[k][h]
    <3>1. B[k][g] = (IF k = 0 THEN 0 ELSE g[k - 1] + f[q[k]])
          /\ B[k][h] = (IF k = 0 THEN 0 ELSE h[k - 1] + f[q[k]])
      OBVIOUS
    <3>2. k # 0 => g[k - 1] = h[k - 1]
      BY <1>2, <2>2
    <3>. QED BY <3>1, <3>2
  <2>. QED BY <1>3, <2>1, <2>2 DEF Recursion
<1>5. PICK g \in [D -> Nat] : \A k \in D : g[k] = B[k][g]
  <2>. HIDE DEF B, R, D
  <2>. QED BY <1>4, RecursionExists
<1>6. g = Def(g)
  BY <1>5
<1>7. total = Def(total)
  BY <1>6
<1>8. \A k \in D : total[k] = IF k = 0 THEN 0 ELSE total[k - 1] + f[q[k]]
  BY <1>7
<1>9. Total(f, q) = total[N]
  BY DEF Total
<1>. HIDE DEF total, Def, B, R
<1>10. \A k \in D : total[k] \in Nat
  <2>. DEFINE Bad == {k \in D : total[k] \notin Nat}
  <2>1. SUFFICES ASSUME Bad # {} PROVE FALSE
    OBVIOUS
  <2>2. PICK k \in Bad : \A j \in Bad : k <= j
    <3>1. Bad \subseteq Nat
      BY <1>1
    <3>. HIDE DEF Bad
    <3>. QED BY <2>1, <3>1, Least
  <2>3. k # 0
    BY <1>1, <1>8, <2>2
  <2>4. k \in 1 .. N /\ k - 1 \in D /\ ~(k <= k - 1)
    BY <1>1, <1>2, <2>2, <2>3
  <2>5. total[k - 1] \in Nat /\ f[q[k]] \in Nat
    BY <1>1, <2>2, <2>4
  <2>. QED BY <1>8, <2>2, <2>3, <2>5
<1>11. PICK t : t = [k \in D |-> total[k]]
  OBVIOUS
<1>12. N \in D /\ 0 \in D /\ \A k \in 1 .. N : k \in D /\ k - 1 \in D /\ k # 0
  BY <1>1
<1>13. Sums(t, f, q)
  <2>1. t \in [D -> Nat]
    BY <1>10, <1>11
  <2>2. t[0] = 0
    BY <1>8, <1>11, <1>12
  <2>3. \A k \in 1 .. N : t[k] = t[k - 1] + f[q[k]]
    BY <1>8, <1>11, <1>12
  <2>. QED BY <2>1, <2>2, <2>3 DEF Sums
<1>. QED BY <1>9, <1>11, <1>12, <1>13

(* Lists whose statements count alike have one sum. *)
LEMMA SameTotal ==
    ASSUME NEW f, NEW q, Countable(f, q), NEW g, \A k \in 1 .. Len(q) : f[q[k]] = g[q[k]]
    PROVE  Total(f, q) \in Nat /\ Total(g, q) = Total(f, q)
<1>1. Countable(g, q)
  BY DEF Countable
<1>2. PICK t : Sums(t, f, q) /\ Total(f, q) = t[Len(q)]
  BY TotalIs
<1>3. PICK u : Sums(u, g, q) /\ Total(g, q) = u[Len(q)]
  BY <1>1, TotalIs
<1>4. Len(q) \in Nat
  BY DEF Countable
<1>5. t \in [0 .. Len(q) -> Nat] /\ t[0] = 0 /\ \A k \in 1 .. Len(q) : t[k] = t[k - 1] + f[q[k]]
  BY <1>2 DEF Sums
<1>6. u \in [0 .. Len(q) -> Nat] /\ u[0] = 0 /\ \A k \in 1 .. Len(q) : u[k] = u[k - 1] + g[q[k]]
  BY <1>3 DEF Sums
<1>7. \A k \in 0 .. Len(q) : t[k] = u[k]
  <2>. DEFINE Bad == {k \in 0 .. Len(q) : t[k] # u[k]}
  <2>1. SUFFICES ASSUME Bad # {} PROVE FALSE
    OBVIOUS
  <2>2. PICK k \in Bad : \A j \in Bad : k <= j
    <3>1. Bad \subseteq Nat
      BY <1>4
    <3>. HIDE DEF Bad
    <3>. QED BY <2>1, <3>1, Least
  <2>3. k # 0
    BY <1>5, <1>6, <2>2
  <2>4. k \in 1 .. Len(q) /\ k - 1 \in 0 .. Len(q) /\ ~(k <= k - 1)
    BY <1>4, <2>2, <2>3
  <2>5. t[k - 1] = u[k - 1]
    BY <2>2, <2>4
  <2>. QED BY <1>5, <1>6, <2>2, <2>4, <2>5
<1>8. Len(q) \in 0 .. Len(q)
  BY <1>4
<1>. QED BY <1>2, <1>3, <1>5, <1>7, <1>8

(* A list counts as much as its first statement and the others. *)
LEMMA TotalOfList ==
    ASSUME NEW S, NEW q \in Seq(S), NEW f, \A s \in S : f[s] \in Nat
    PROVE  /\ q = << >> => Total(f, q) = 0
           /\ q # << >> => Total(f, q) = f[q[1]] + Total(f, Tail(q))
<1>0. Countable(f, q)
  BY DEF Countable
<1>1. PICK t : Sums(t, f, q) /\ Total(f, q) = t[Len(q)]
  BY <1>0, TotalIs
<1>2. t \in [0 .. Len(q) -> Nat] /\ t[0] = 0 /\ \A k \in 1 .. Len(q) : t[k] = t[k - 1] + f[q[k]]
  BY <1>1 DEF Sums
<1>3. ASSUME q # << >> PROVE Total(f, q) = f[q[1]] + Total(f, Tail(q))
  <2>1. PICK r : r = Tail(q)
    OBVIOUS
  <2>2. PICK n : n = Len(r)
    OBVIOUS
  <2>3. r \in Seq(S) /\ n \in Nat /\ Len(q) = n + 1 /\ \A k \in 1 .. n : r[k] = q[k + 1]
    BY <1>3, <2>1, <2>2
  <2>4. Countable(f, r)
    BY <2>3 DEF Countable
  <2>5. PICK u : Sums(u, f, r) /\ Total(f, r) = u[n]
    BY <2>2, <2>4, TotalIs
  <2>6. u \in [0 .. n -> Nat] /\ u[0] = 0 /\ \A k \in 1 .. n : u[k] = u[k - 1] + f[r[k]]
    BY <2>2, <2>5 DEF Sums
  <2>7. q[1] \in S /\ f[q[1]] \in Nat
    BY <1>3
  <2>8. \A k \in 0 .. n : t[k + 1] = f[q[1]] + u[k]
    <3>. DEFINE Bad == {k \in 0 .. n : t[k + 1] # f[q[1]] + u[k]}
    <3>1. SUFFICES ASSUME Bad # {} PROVE FALSE
      OBVIOUS
    <3>2. PICK k \in Bad : \A j \in Bad : k <= j
      <4>1. Bad \subseteq Nat
        BY <2>3
      <4>. HIDE DEF Bad
      <4>. QED BY <3>1, <4>1, Least
    <3>3. k \in 0 .. n /\ k \in Nat /\ k + 1 \in 1 .. Len(q) /\ k + 1 - 1 = k
      BY <2>3, <3>2
    <3>4. t[k + 1] = t[k] + f[q[k + 1]]
      BY <1>2, <3>3
    <3>5. k # 0
      BY <1>2, <2>6, <2>7, <3>2, <3>4
    <3>6. k \in 1 .. n /\ k - 1 \in 0 .. n /\ ~(k <= k - 1) /\ k - 1 + 1 = k
      BY <2>3, <3>3, <3>5
    <3>7. t[k] = f[q[1]] + u[k - 1]
      BY <3>2, <3>6
    <3>8. u[k] = u[k - 1] + f[q[k + 1]]
      BY <2>3, <2>6, <3>6
    <3>9. u[k - 1] \in Nat /\ f[q[k + 1]] \in Nat
      <4>1. q[k + 1] \in S
        BY <3>3
      <4>. QED BY <2>6, <3>6, <4>1
    <3>. QED BY <2>7, <3>2, <3>4, <3>7, <3>8, <3>9
  <2>9. n \in 0 .. n
    BY <2>3
  <2>. QED BY <1>1, <2>1, <2>3, <2>5, <2>8, <2>9
<1>. QED BY <1>1, <1>2, <1>3

(* What a statement comes to, at f for the statements in it. *)
Weight(f, s) ==
    IF s.kind = "simple" THEN 1
    ELSE IF s.kind = "goto" THEN 0
    ELSE IF s.kind = "for" THEN Total(f, s.body) + Total(f, s.body)
    ELSE IF s.kind = "if" THEN Total(f, s.body) + Total(f, s.alt)
    ELSE Total(f, s.body)

LEMMA PartsAre ==
    ASSUME NEW s \in Stm
    PROVE  /\ s.body \in Seq(Stm) /\ s.alt \in Seq(Stm)
           /\ \A k \in 1 .. Len(s.body) : s.body[k] \in Stm /\ Height[s.body[k]] < Height[s]
           /\ \A k \in 1 .. Len(s.alt) : s.alt[k] \in Stm /\ Height[s.alt[k]] < Height[s]
<1>1. s.body \in Seq(Stm) /\ s.alt \in Seq(Stm)
  BY StmAssumption
<1>2. DOMAIN s.body = 1 .. Len(s.body) /\ DOMAIN s.alt = 1 .. Len(s.alt)
  BY <1>1
<1>3. \A t \in Parts(s) : Height[t] < Height[s]
  BY HeightAssumption
<1>. QED BY <1>1, <1>2, <1>3 DEF Parts

(* It depends on the statements in it only. *)
LEMMA SameWeight ==
    ASSUME NEW s \in Stm, NEW f, NEW g,
           \A t \in Stm : Height[t] < Height[s] => f[t] \in Nat /\ f[t] = g[t]
    PROVE  Weight(f, s) \in Nat /\ Weight(g, s) = Weight(f, s)
<1>1. Countable(f, s.body) /\ Countable(f, s.alt)
  BY PartsAre DEF Countable
<1>2. /\ \A k \in 1 .. Len(s.body) : f[s.body[k]] = g[s.body[k]]
      /\ \A k \in 1 .. Len(s.alt) : f[s.alt[k]] = g[s.alt[k]]
  BY PartsAre
<1>3. /\ Total(f, s.body) \in Nat /\ Total(g, s.body) = Total(f, s.body)
      /\ Total(f, s.alt) \in Nat /\ Total(g, s.alt) = Total(f, s.alt)
  BY <1>1, <1>2, SameTotal
<1>. QED BY <1>3 DEF Weight

(* The recursion in Copies has a value. *)
LEMMA CopiesIs ==
    \E c \in [Stm -> Nat] :
        /\ \A s \in Stm : c[s] = Weight(c, s)
        /\ \A q : Copies(q) = Total(c, q)
<1>. DEFINE B == [s \in Stm |-> [g \in [Stm -> Nat] |-> Weight(g, s)]]
            Def(g) ==
                [s \in Stm |->
                    IF s.kind = "simple" THEN 1
                    ELSE IF s.kind = "goto" THEN 0
                    ELSE IF s.kind = "for" THEN Total(g, s.body) + Total(g, s.body)
                    ELSE IF s.kind = "if" THEN Total(g, s.body) + Total(g, s.alt)
                    ELSE Total(g, s.body)]
            copies == CHOOSE g : g = Def(g)
<1>1. B \in [Stm -> [[Stm -> Nat] -> Nat]]
  BY SameWeight
<1>2. Recursion(Stm, Nat, Height, B)
  <2>1. ASSUME NEW s \in Stm, NEW f \in [Stm -> Nat], NEW g \in [Stm -> Nat],
               \A t \in Stm : Height[t] < Height[s] => f[t] = g[t]
        PROVE  B[s][f] = B[s][g]
    <3>1. Weight(f, s) = Weight(g, s)
      BY <2>1, SameWeight
    <3>. QED BY <3>1
  <2>. HIDE DEF B
  <2>. QED BY <1>1, <2>1, HeightAssumption DEF Recursion
<1>3. PICK g \in [Stm -> Nat] : \A s \in Stm : g[s] = B[s][g]
  <2>. HIDE DEF B
  <2>. QED BY <1>2, RecursionExists
<1>4. \A s \in Stm : g[s] = Weight(g, s)
  BY <1>3
<1>5. g = Def(g)
  BY <1>4 DEF Weight
<1>6. copies = Def(copies)
  BY <1>5
<1>7. \A q : Copies(q) = Total(copies, q)
  BY DEF Copies
<1>. HIDE DEF copies
<1>8. \A s \in Stm : copies[s] = Weight(copies, s)
  BY <1>6 DEF Weight
<1>9. copies = [s \in Stm |-> copies[s]]
  BY <1>6
<1>10. \A s \in Stm : copies[s] \in Nat
  <2>. DEFINE Bad == {n \in Nat : \E s \in Stm : Height[s] = n /\ copies[s] \notin Nat}
  <2>1. Bad = {}
    <3>1. SUFFICES ASSUME Bad # {} PROVE FALSE
      OBVIOUS
    <3>2. PICK n \in Bad : \A j \in Bad : n <= j
      <4>1. Bad \subseteq Nat
        OBVIOUS
      <4>. HIDE DEF Bad
      <4>. QED BY <3>1, <4>1, Least
    <3>3. PICK s \in Stm : Height[s] = n /\ copies[s] \notin Nat
      BY <3>2
    <3>4. ASSUME NEW t \in Stm, Height[t] < Height[s] PROVE copies[t] \in Nat
      <4>1. Height[t] \in Nat /\ Height[s] \in Nat
        BY HeightAssumption
      <4>2. ~(n <= Height[t])
        BY <3>3, <3>4, <4>1
      <4>3. Height[t] \notin Bad
        BY <3>2, <4>2
      <4>. QED BY <4>1, <4>3
    <3>5. Weight(copies, s) \in Nat
      BY <3>4, SameWeight
    <3>. QED BY <1>8, <3>3, <3>5
  <2>2. \A s \in Stm : Height[s] \in Nat /\ Height[s] \notin Bad
    BY <2>1, HeightAssumption
  <2>. QED BY <2>2
<1>11. copies \in [Stm -> Nat]
  BY <1>9, <1>10
<1>. QED BY <1>7, <1>8, <1>11

(* What is left of a list after its first statement, and what that adds. *)
LEMMA CopiesOf ==
    ASSUME NEW q \in Seq(Stm)
    PROVE  /\ Copies(q) \in Nat
           /\ q = << >> => Copies(q) = 0
           /\ q # << >> =>
                 LET s == q[1] IN
                 /\ Copies(Tail(q)) \in Nat /\ Copies(s.body) \in Nat /\ Copies(s.alt) \in Nat
                 /\ s.kind = "simple" => Copies(q) = 1 + Copies(Tail(q))
                 /\ s.kind = "goto" => Copies(q) = Copies(Tail(q))
                 /\ s.kind = "for" => Copies(q) = Copies(s.body) + Copies(s.body) + Copies(Tail(q))
                 /\ s.kind = "if" => Copies(q) = Copies(s.body) + Copies(s.alt) + Copies(Tail(q))
                 /\ s.kind \in {"while", "repeat"} => Copies(q) = Copies(s.body) + Copies(Tail(q))
<1>1. PICK c \in [Stm -> Nat] :
         /\ \A s \in Stm : c[s] = Weight(c, s)
         /\ \A r : Copies(r) = Total(c, r)
  BY CopiesIs
<1>2. ASSUME NEW r \in Seq(Stm) PROVE Copies(r) \in Nat
  <2>1. Countable(c, r)
    BY DEF Countable
  <2>2. Total(c, r) \in Nat
    BY <2>1, SameTotal
  <2>. QED BY <1>1, <2>2
<1>3. q = << >> => Copies(q) = 0
  BY <1>1, TotalOfList
<1>4. ASSUME NEW s, q # << >>, s = q[1]
      PROVE  /\ Copies(Tail(q)) \in Nat /\ Copies(s.body) \in Nat /\ Copies(s.alt) \in Nat
             /\ s.kind = "simple" => Copies(q) = 1 + Copies(Tail(q))
             /\ s.kind = "goto" => Copies(q) = Copies(Tail(q))
             /\ s.kind = "for" => Copies(q) = Copies(s.body) + Copies(s.body) + Copies(Tail(q))
             /\ s.kind = "if" => Copies(q) = Copies(s.body) + Copies(s.alt) + Copies(Tail(q))
             /\ s.kind \in {"while", "repeat"} => Copies(q) = Copies(s.body) + Copies(Tail(q))
  <2>1. s \in Stm /\ Tail(q) \in Seq(Stm) /\ s.body \in Seq(Stm) /\ s.alt \in Seq(Stm)
    BY <1>4, StmAssumption
  <2>2. Copies(Tail(q)) \in Nat /\ Copies(s.body) \in Nat /\ Copies(s.alt) \in Nat
    BY <1>2, <2>1
  <2>3. Copies(q) = Weight(c, s) + Copies(Tail(q))
    BY <1>1, <1>4, <2>1, TotalOfList
  <2>4. Copies(s.body) = Total(c, s.body) /\ Copies(s.alt) = Total(c, s.alt)
    BY <1>1
  <2>. QED BY <2>2, <2>3, <2>4 DEF Weight
<1>. QED BY <1>2, <1>3, <1>4
--------------------------------------------------------------------------------
(* What a handler in progress still has to generate, its callees apart *)

Work(fr) ==
    IF fr.kind = "body" THEN Copies(fr.rest)
    ELSE IF fr.kind = "then" THEN Copies(fr.node.alt)
    ELSE IF fr.kind = "for" THEN Copies(fr.node.body)
    ELSE 0

LEMMA WorkIs ==
    /\ \A B, F : \A fr \in Frame(B, F) : Work(fr) \in Nat
    /\ \A q : Work(BodyFrame(q)) = Copies(q)
    /\ \A defs : Work(FuncsFrame(defs)) = 0
    /\ \A s, no, merge : Work(ThenFrame(s, no, merge)) = Copies(s.alt)
    /\ \A merge : Work(ElseFrame(merge)) = 0
    /\ \A start, exit : Work(WhileFrame(start, exit)) = 0
    /\ \A s, loop : Work(RepeatFrame(s, loop)) = 0
    /\ \A s, start, exit : Work(ForFrame(s, start, exit)) = Copies(s.body)
<1>1. ASSUME NEW B, NEW F, NEW fr \in Frame(B, F) PROVE Work(fr) \in Nat
  <2>1. /\ fr.kind = "body" => fr.rest \in Seq(Stm)
        /\ fr.kind \in {"then", "for"} => fr.node \in Stm
    BY DEF Frame
  <2>2. fr.kind \in {"then", "for"} => fr.node.body \in Seq(Stm) /\ fr.node.alt \in Seq(Stm)
    BY <2>1, StmAssumption
  <2>. QED BY <2>1, <2>2, CopiesOf DEF Work
<1>. QED BY <1>1 DEF Work, BodyFrame, FuncsFrame, ThenFrame, ElseFrame, WhileFrame, RepeatFrame, ForFrame

(* d[i]: what the frames up to i still have to generate for the function   *)
(* that frame i is about.                                                  *)
Due(c, d) ==
    /\ d \in [0 .. Len(c) -> Nat] /\ d[0] = 0
    /\ \A i \in 1 .. Len(c) : d[i] = IF c[i].kind = "func" THEN 0 ELSE d[i - 1] + Work(c[i])

(* The handler on top goes on as e[m] and those above it, none of them a   *)
(* function's.                                                             *)
Moves(c, e, m) ==
    /\ m \in Nat /\ m = Len(c) /\ m > 0
    /\ Len(e) \in m - 1 .. m + 2
    /\ \A i \in 1 .. m - 1 : e[i] = c[i]
    /\ \A i \in m .. Len(e) : e[i].kind # "func" /\ Work(e[i]) \in Nat

(* The work of the frames from m on. *)
WorkFrom(e, m) ==
    IF Len(e) = m - 1 THEN 0
    ELSE IF Len(e) = m THEN Work(e[m])
    ELSE IF Len(e) = m + 1 THEN Work(e[m]) + Work(e[m + 1])
    ELSE Work(e[m]) + Work(e[m + 1]) + Work(e[m + 2])

LEMMA DueMoves ==
    ASSUME NEW c, NEW d, Due(c, d), NEW e, NEW m, Moves(c, e, m)
    PROVE  \E x : /\ Due(e, x)
                  /\ \A i \in 0 .. m - 1 : x[i] = d[i]
                  /\ x[Len(e)] = d[m - 1] + WorkFrom(e, m)
<1>. DEFINE n == Len(e)
            x == [i \in 0 .. n |->
                    IF i <= m - 1 THEN d[i]
                    ELSE IF i = m THEN d[m - 1] + Work(e[m])
                    ELSE IF i = m + 1 THEN d[m - 1] + Work(e[m]) + Work(e[m + 1])
                    ELSE d[m - 1] + Work(e[m]) + Work(e[m + 1]) + Work(e[m + 2])]
<1>1. /\ m \in Nat /\ m > 0 /\ m = Len(c) /\ n \in m - 1 .. m + 2 /\ n \in Nat
      /\ \A i \in 1 .. m - 1 : e[i] = c[i]
      /\ \A i \in m .. n : e[i].kind # "func" /\ Work(e[i]) \in Nat
  BY DEF Moves
<1>2. /\ d \in [0 .. m -> Nat] /\ d[0] = 0
      /\ \A i \in 1 .. m : d[i] = IF c[i].kind = "func" THEN 0 ELSE d[i - 1] + Work(c[i])
  BY <1>1 DEF Due
<1>. HIDE DEF n
<1>3. /\ n >= m => m \in m .. n
      /\ n >= m + 1 => m + 1 \in m .. n
      /\ n = m + 2 => m + 2 \in m .. n
      /\ d[m - 1] \in Nat
  BY <1>1, <1>2
<1>4. ASSUME NEW i \in 0 .. n
      PROVE  /\ i <= m - 1 => x[i] = d[i] /\ x[i] \in Nat
             /\ i = m => x[i] = d[m - 1] + Work(e[m]) /\ x[i] \in Nat
             /\ i = m + 1 => x[i] = d[m - 1] + Work(e[m]) + Work(e[m + 1]) /\ x[i] \in Nat
             /\ i = m + 2 => x[i] = d[m - 1] + Work(e[m]) + Work(e[m + 1]) + Work(e[m + 2]) /\ x[i] \in Nat
             /\ i <= m - 1 \/ i = m \/ i = m + 1 \/ i = m + 2
  <2>1. i \in Nat /\ i <= m + 2 /\ i <= n
    BY <1>1
  <2>2. CASE i <= m - 1
    <3>1. i \in 0 .. m
      BY <1>1, <2>1, <2>2
    <3>. QED BY <1>1, <1>2, <2>1, <2>2, <3>1
  <2>3. CASE i = m
    BY <1>1, <1>3, <2>1, <2>3
  <2>4. CASE i = m + 1
    <3>1. n >= m + 1
      BY <1>1, <2>1, <2>4
    <3>2. Work(e[m]) \in Nat /\ Work(e[m + 1]) \in Nat
      BY <1>1, <1>3, <3>1
    <3>3. ~(i <= m - 1) /\ i # m /\ i # m + 2 /\ i \in 0 .. n
      BY <1>1, <2>1, <2>4
    <3>4. x[i] = d[m - 1] + Work(e[m]) + Work(e[m + 1])
      BY <2>4, <3>3
    <3>5. x[i] \in Nat
      BY <1>3, <3>2, <3>4
    <3>. HIDE DEF x
    <3>. QED BY <2>4, <3>3, <3>4, <3>5
  <2>5. CASE i = m + 2
    <3>1. n = m + 2
      BY <1>1, <2>1, <2>5
    <3>2. Work(e[m]) \in Nat /\ Work(e[m + 1]) \in Nat /\ Work(e[m + 2]) \in Nat
      BY <1>1, <1>3, <3>1
    <3>3. ~(i <= m - 1) /\ i # m /\ i # m + 1 /\ i \in 0 .. n
      BY <1>1, <2>1, <2>5
    <3>4. x[i] = d[m - 1] + Work(e[m]) + Work(e[m + 1]) + Work(e[m + 2])
      BY <3>3
    <3>5. x[i] \in Nat
      BY <1>3, <3>2, <3>4
    <3>. HIDE DEF x
    <3>. QED BY <2>5, <3>3, <3>4, <3>5
  <2>. HIDE DEF x
  <2>. QED BY <1>1, <2>1, <2>2, <2>3, <2>4, <2>5
<1>5. x = [i \in 0 .. n |-> x[i]]
  OBVIOUS
<1>. HIDE DEF x
<1>6. x \in [0 .. n -> Nat]
  BY <1>4, <1>5
<1>7. \A i \in 0 .. m - 1 : x[i] = d[i]
  <2>1. \A i \in 0 .. m - 1 : i \in 0 .. n /\ i <= m - 1
    BY <1>1
  <2>. QED BY <1>4, <2>1
<1>8. x[0] = 0
  <2>1. 0 \in 0 .. m - 1
    BY <1>1
  <2>. QED BY <1>2, <1>7, <2>1
<1>9. ASSUME NEW i \in 1 .. n
      PROVE  x[i] = IF e[i].kind = "func" THEN 0 ELSE x[i - 1] + Work(e[i])
  <2>1. i \in 0 .. n /\ i - 1 \in 0 .. n /\ i \in Nat
    BY <1>1
  <2>2. CASE i <= m - 1
    <3>1. i \in 1 .. m /\ i \in 1 .. m - 1 /\ i - 1 \in 0 .. m - 1 /\ i \in 0 .. m - 1
      BY <1>1, <2>1, <2>2
    <3>. QED BY <1>1, <1>2, <1>7, <3>1
  <2>3. CASE i = m
    <3>1. i \in m .. n /\ i - 1 = m - 1 /\ m - 1 \in 0 .. m - 1
      BY <1>1, <2>3
    <3>. QED BY <1>1, <1>4, <1>7, <2>1, <2>3, <3>1
  <2>4. CASE i = m + 1
    <3>1. i \in m .. n /\ i - 1 = m
      BY <1>1, <2>4
    <3>. QED BY <1>1, <1>4, <2>1, <2>4, <3>1
  <2>5. CASE i = m + 2
    <3>1. i \in m .. n /\ i - 1 = m + 1
      BY <1>1, <2>5
    <3>. QED BY <1>1, <1>4, <2>1, <2>5, <3>1
  <2>. QED BY <1>4, <2>1, <2>2, <2>3, <2>4, <2>5
<1>10. Due(e, x)
  BY <1>6, <1>8, <1>9 DEF Due, n
<1>11. x[n] = d[m - 1] + WorkFrom(e, m)
  <2>1. n \in 0 .. n
    BY <1>1
  <2>2. CASE n = m - 1
    <3>1. n \in 0 .. m - 1
      BY <1>1, <2>2
    <3>. QED BY <1>3, <1>7, <2>2, <3>1 DEF WorkFrom, n
  <2>3. CASE n = m
    BY <1>1, <1>4, <2>1, <2>3 DEF WorkFrom, n
  <2>4. CASE n = m + 1
    <3>1. WorkFrom(e, m) = Work(e[m]) + Work(e[m + 1])
      BY <1>1, <2>4 DEF WorkFrom, n
    <3>2. Work(e[m]) \in Nat /\ Work(e[m + 1]) \in Nat
      BY <1>1, <1>3, <2>4
    <3>3. x[n] = d[m - 1] + Work(e[m]) + Work(e[m + 1])
      BY <1>4, <2>1, <2>4
    <3>. QED BY <1>3, <3>1, <3>2, <3>3
  <2>5. CASE n = m + 2
    <3>1. WorkFrom(e, m) = Work(e[m]) + Work(e[m + 1]) + Work(e[m + 2])
      BY <1>1, <2>5 DEF WorkFrom, n
    <3>2. Work(e[m]) \in Nat /\ Work(e[m + 1]) \in Nat /\ Work(e[m + 2]) \in Nat
      BY <1>1, <1>3, <2>5
    <3>3. x[n] = d[m - 1] + Work(e[m]) + Work(e[m + 1]) + Work(e[m + 2])
      BY <1>4, <2>1, <2>5
    <3>. QED BY <1>3, <3>1, <3>2, <3>3
  <2>6. n = m - 1 \/ n = m \/ n = m + 1 \/ n = m + 2
    BY <1>1
  <2>. QED BY <2>2, <2>3, <2>4, <2>5, <2>6
<1>12. Due(e, x) /\ (\A i \in 0 .. m - 1 : x[i] = d[i]) /\ x[Len(e)] = d[m - 1] + WorkFrom(e, m)
  BY <1>7, <1>10, <1>11 DEF n
<1>. QED BY <1>12
--------------------------------------------------------------------------------
(* What is generated *)

LEMMA GeneratedIs ==
    ASSUME NEW fn
    PROVE  \A b, i : <<b, i>> \in Generated(fn) <=>
                        b \in Block /\ i \in DOMAIN code[b] /\ owner[b] = fn /\ code[b][i].op = "do"
  BY DEF Generated

LEMMA GeneratedPairs ==
    ASSUME NEW fn
    PROVE  \A p \in Generated(fn) : p = <<p[1], p[2]>>
  BY DEF Generated

LEMMA GeneratedIsNext ==
    ASSUME NEW fn
    PROVE  /\ \A b, i : <<b, i>> \in Generated(fn)' <=>
                        b \in Block' /\ i \in DOMAIN code'[b] /\ owner'[b] = fn /\ code'[b][i].op = "do"
           /\ \A p \in Generated(fn)' : p = <<p[1], p[2]>>
  BY DEF Generated

(* Instructions without a call or an assignment. *)
Quiet(s) == (\E A : s \in Seq(A)) /\ \A i \in 1 .. Len(s) : s[i].op # "do"

LEMMA ConcatQuiet ==
    ASSUME NEW A, NEW s \in Seq(A), NEW t, Quiet(t)
    PROVE  \A i : i \in DOMAIN (s \o t) /\ (s \o t)[i].op = "do" <=> i \in DOMAIN s /\ s[i].op = "do"
<1>1. PICK B : t \in Seq(B)
  BY DEF Quiet
<1>2. /\ Len(s) \in Nat /\ Len(t) \in Nat /\ Len(s \o t) = Len(s) + Len(t)
      /\ DOMAIN s = 1 .. Len(s) /\ DOMAIN (s \o t) = 1 .. Len(s) + Len(t)
      /\ \A i \in 1 .. Len(s) : (s \o t)[i] = s[i]
      /\ \A i \in Len(s) + 1 .. Len(s) + Len(t) : (s \o t)[i] = t[i - Len(s)]
  <2>1. s \in Seq(A \cup B) /\ t \in Seq(A \cup B)
    BY <1>1, SeqSubset
  <2>2. s \o t \in Seq(A \cup B)
    BY <2>1
  <2>. QED BY <2>1, <2>2
<1>3. \A i \in Len(s) + 1 .. Len(s) + Len(t) : (s \o t)[i].op # "do"
  <2>1. \A i \in Len(s) + 1 .. Len(s) + Len(t) : i - Len(s) \in 1 .. Len(t)
    BY <1>2
  <2>. QED BY <1>2, <2>1 DEF Quiet
<1>4. \A i \in 1 .. Len(s) + Len(t) : i \in 1 .. Len(s) \/ i \in Len(s) + 1 .. Len(s) + Len(t)
  BY <1>2
<1>5. \A i \in 1 .. Len(s) : i \in 1 .. Len(s) + Len(t)
  BY <1>2
<1>. QED BY <1>2, <1>3, <1>4, <1>5

LEMMA EmitQuiet ==
    ASSUME TypeOK, NEW n \in Nat, NEW STATE f, NEW STATE out, Emit(n, f, out),
           \A b \in DOMAIN out : Quiet(out[b])
    PROVE  \A fn : Generated(fn)' = Generated(fn)
<1>1. SUFFICES ASSUME NEW fn PROVE Generated(fn)' = Generated(fn)
  OBVIOUS
<1>2. /\ nblk \in Nat /\ Block' = 1 .. nblk + n /\ \A b \in Block : b \in Block'
      /\ \A b \in Block : owner'[b] = owner[b]
      /\ \A b \in Block' : code'[b] = IF b \in DOMAIN out THEN Old(b) \o out[b] ELSE Old(b)
  BY DEF TypeOK, Emit, Block
<1>3. ASSUME NEW b \in Block'
      PROVE  \A i : i \in DOMAIN code'[b] /\ code'[b][i].op = "do" <=> i \in DOMAIN Old(b) /\ Old(b)[i].op = "do"
  <2>1. \E A : Old(b) \in Seq(A)
    <3>1. CASE b \in Block
      BY <3>1 DEF Old, TypeOK
    <3>2. CASE b \notin Block
      <4>1. << >> \in Seq({})
        OBVIOUS
      <4>. QED BY <3>2, <4>1 DEF Old
    <3>. QED BY <3>1, <3>2
  <2>2. CASE b \in DOMAIN out
    <3>1. code'[b] = Old(b) \o out[b] /\ Quiet(out[b])
      BY <1>2, <2>2
    <3>2. PICK s : s = Old(b)
      OBVIOUS
    <3>3. PICK t : t = out[b]
      OBVIOUS
    <3>4. \A i : i \in DOMAIN (s \o t) /\ (s \o t)[i].op = "do" <=> i \in DOMAIN s /\ s[i].op = "do"
      BY <2>1, <3>1, <3>2, <3>3, ConcatQuiet
    <3>5. code'[b] = s \o t
      BY <3>1, <3>2, <3>3
    <3>. QED BY <3>2, <3>4, <3>5
  <2>3. CASE b \notin DOMAIN out
    BY <1>2, <2>3
  <2>. QED BY <2>2, <2>3
<1>4. ASSUME NEW b, NEW i PROVE <<b, i>> \in Generated(fn)' <=> <<b, i>> \in Generated(fn)
  <2>1. CASE b \in Block
    <3>1. Old(b) = code[b] /\ owner'[b] = owner[b] /\ b \in Block'
      BY <1>2, <2>1 DEF Old
    <3>2. i \in DOMAIN code'[b] /\ code'[b][i].op = "do" <=> i \in DOMAIN code[b] /\ code[b][i].op = "do"
      BY <1>3, <3>1
    <3>. QED BY <2>1, <3>1, <3>2, GeneratedIs, GeneratedIsNext
  <2>2. CASE b \notin Block
    <3>1. <<b, i>> \notin Generated(fn)
      BY <2>2, GeneratedIs
    <3>2. ASSUME b \in Block' PROVE ~(i \in DOMAIN code'[b] /\ code'[b][i].op = "do")
      <4>1. Old(b) = << >>
        BY <2>2 DEF Old
      <4>. QED BY <1>3, <3>2, <4>1
    <3>. QED BY <3>1, <3>2, GeneratedIsNext
  <2>. QED BY <2>1, <2>2
<1>5. \A p \in Generated(fn) : p = <<p[1], p[2]>>
  BY GeneratedPairs
<1>6. \A p \in Generated(fn)' : p = <<p[1], p[2]>>
  BY GeneratedIsNext
<1>. QED BY <1>4, <1>5, <1>6

(* A call or an assignment is one more for the current function. *)
LEMMA EmitDo ==
    ASSUME IInv, Running, NEW STATE id, id \in Id, Emit(0, curFn, In(Top, <<Do(id)>>)),
           NEW f, f = curFn
    PROVE  /\ \A fn : fn # f => Generated(fn)' = Generated(fn)
           /\ \E p : p \notin Generated(f) /\ Generated(f)' = Generated(f) \cup {p}
<1>1. /\ TypeOK /\ nblk \in Nat /\ Top \in Block /\ owner[Top] = f
  BY RunningFacts DEF TypeOK
<1>2. DOMAIN In(Top, <<Do(id)>>) = {Top} /\ In(Top, <<Do(id)>>)[Top] = <<Do(id)>>
  BY DEF In
<1>3. Block' = Block /\ 1 .. nblk + 0 = Block
  BY <1>1 DEF Emit, Block
<1>4. /\ \A b \in Block : owner'[b] = owner[b]
      /\ \A b \in Block : b # Top => code'[b] = code[b]
      /\ code'[Top] = code[Top] \o <<Do(id)>>
  BY <1>1, <1>2, <1>3 DEF Emit, Old
<1>5. code[Top] \in Seq(Instr(Block)) /\ Do(id) \in Instr(Block) /\ Do(id).op = "do"
  BY <1>1 DEF TypeOK, Do, Instr
<1>6. PICK s : s = code[Top]
  OBVIOUS
<1>7. PICK x : x = Do(id)
  OBVIOUS
<1>8. /\ Len(s) \in Nat /\ DOMAIN s = 1 .. Len(s) /\ DOMAIN (s \o <<x>>) = 1 .. Len(s) + 1
      /\ \A k \in 1 .. Len(s) : (s \o <<x>>)[k] = s[k]
      /\ (s \o <<x>>)[Len(s) + 1] = x
  <2>. DEFINE S == Instr(Block)
  <2>1. s \in Seq(S) /\ x \in S
    BY <1>5, <1>6, <1>7
  <2>. HIDE DEF S
  <2>. QED BY <2>1
<1>9. code'[Top] = s \o <<x>> /\ x.op = "do"
  BY <1>4, <1>5, <1>6, <1>7
<1>10. ASSUME NEW i
       PROVE  i \in DOMAIN code'[Top] /\ code'[Top][i].op = "do"
                 <=> (i \in DOMAIN code[Top] /\ code[Top][i].op = "do") \/ i = Len(s) + 1
  <2>1. i \in 1 .. Len(s) + 1 <=> i \in 1 .. Len(s) \/ i = Len(s) + 1
    BY <1>8
  <2>. QED BY <1>6, <1>8, <1>9, <2>1
<1>11. PICK p : p = <<Top, Len(s) + 1>>
  OBVIOUS
<1>12. p \notin Generated(f)
  <2>1. Len(s) + 1 \notin DOMAIN code[Top]
    BY <1>6, <1>8
  <2>. QED BY <1>11, <2>1, GeneratedIs
<1>13. ASSUME NEW fn, NEW b, NEW i
       PROVE  <<b, i>> \in Generated(fn)' <=>
                 <<b, i>> \in Generated(fn) \/ (fn = f /\ b = Top /\ i = Len(s) + 1)
  <2>1. <<b, i>> \in Generated(fn)' <=>
           b \in Block /\ i \in DOMAIN code'[b] /\ owner[b] = fn /\ code'[b][i].op = "do"
    BY <1>3, <1>4, GeneratedIsNext
  <2>2. CASE b = Top
    BY <1>1, <1>10, <2>1, <2>2, GeneratedIs
  <2>3. CASE b # Top
    BY <1>4, <2>1, <2>3, GeneratedIs
  <2>. QED BY <2>2, <2>3
<1>14. \A fn : (\A q \in Generated(fn) : q = <<q[1], q[2]>>) /\ (\A q \in Generated(fn)' : q = <<q[1], q[2]>>)
  BY GeneratedPairs, GeneratedIsNext
<1>15. ASSUME NEW fn, fn # f PROVE Generated(fn)' = Generated(fn)
  <2>1. ASSUME NEW q \in Generated(fn)' PROVE q \in Generated(fn)
    <3>1. q = <<q[1], q[2]>>
      BY <1>14
    <3>. QED BY <1>13, <1>15, <3>1
  <2>2. ASSUME NEW q \in Generated(fn) PROVE q \in Generated(fn)'
    <3>1. q = <<q[1], q[2]>>
      BY <1>14
    <3>. QED BY <1>13, <1>15, <3>1
  <2>. QED BY <2>1, <2>2
<1>16. Generated(f)' = Generated(f) \cup {p}
  <2>1. ASSUME NEW q \in Generated(f)' PROVE q \in Generated(f) \cup {p}
    <3>1. q = <<q[1], q[2]>>
      BY <1>14
    <3>. QED BY <1>11, <1>13, <3>1
  <2>2. ASSUME NEW q \in Generated(f) \cup {p} PROVE q \in Generated(f)'
    <3>1. CASE q = p
      BY <1>11, <1>13, <3>1
    <3>2. CASE q \in Generated(f)
      <4>1. q = <<q[1], q[2]>>
        BY <1>14, <3>2
      <4>. QED BY <1>13, <3>2, <4>1
    <3>. QED BY <2>2, <3>1, <3>2
  <2>. QED BY <2>1, <2>2
<1>. QED BY <1>12, <1>15, <1>16

LEMMA QuietOnes ==
    /\ Quiet(<< >>)
    /\ \A x : x.op # "do" => Quiet(<<x>>)
    /\ \A x, y : x.op # "do" /\ y.op # "do" => Quiet(<<x, y>>)
<1>1. Quiet(<< >>)
  <2>1. << >> \in Seq({}) /\ Len(<< >>) = 0
    OBVIOUS
  <2>. QED BY <2>1 DEF Quiet
<1>2. ASSUME NEW x, x.op # "do" PROVE Quiet(<<x>>)
  <2>1. <<x>> \in Seq({x}) /\ Len(<<x>>) = 1 /\ <<x>>[1] = x
    OBVIOUS
  <2>2. \A i \in 1 .. 1 : i = 1
    OBVIOUS
  <2>. QED BY <1>2, <2>1, <2>2 DEF Quiet
<1>3. ASSUME NEW x, NEW y, x.op # "do", y.op # "do" PROVE Quiet(<<x, y>>)
  <2>1. <<x, y>> \in Seq({x, y}) /\ Len(<<x, y>>) = 2 /\ <<x, y>>[1] = x /\ <<x, y>>[2] = y
    OBVIOUS
  <2>2. \A i \in 1 .. 2 : i = 1 \/ i = 2
    OBVIOUS
  <2>. QED BY <1>3, <2>1, <2>2 DEF Quiet
<1>. QED BY <1>1, <1>2, <1>3

LEMMA QuietInstr ==
    /\ \A b : Quiet(<<Br(b)>>)
    /\ \A id, y, n : Quiet(<<CondBr(id, y, n)>>)
    /\ \A id, b : Quiet(<<InitVar(id), Br(b)>>) /\ Quiet(<<StepVar(id), Br(b)>>)
    /\ Quiet(<<Ret>>) /\ Quiet(<< >>)
<1>1. /\ \A b : Br(b).op # "do"
      /\ \A id, y, n : CondBr(id, y, n).op # "do"
      /\ \A id : InitVar(id).op # "do" /\ StepVar(id).op # "do"
      /\ Ret.op # "do"
  BY DEF Br, CondBr, InitVar, StepVar, Ret
<1>. QED BY <1>1, QuietOnes

LEMMA EmitsNone ==
    ASSUME TypeOK, NEW n \in Nat, NEW STATE f, NEW STATE b, NEW STATE s, NEW STATE c, NEW STATE t,
           Quiet(s), Quiet(t), Emit(n, f, In(b, s)) \/ Emit(n, f, InTwo(b, s, c, t))
    PROVE  \A fn : Generated(fn)' = Generated(fn)
<1>1. \A x \in DOMAIN In(b, s) : Quiet(In(b, s)[x])
  BY DEF In
<1>2. \A x \in DOMAIN InTwo(b, s, c, t) : Quiet(InTwo(b, s, c, t)[x])
  BY DEF InTwo
<1>. QED BY <1>1, <1>2, EmitQuiet
--------------------------------------------------------------------------------
(* How the actions move the work *)

LEMMA MovesReturn ==
    ASSUME TypeOK, Running, Return
    PROVE  Moves(calls, calls', Len(calls)) /\ WorkFrom(calls', Len(calls)) = 0
<1>1. /\ Len(calls) \in Nat /\ Len(calls) > 0 /\ Len(calls') = Len(calls) - 1
      /\ \A i \in 1 .. Len(calls) - 1 : calls'[i] = calls[i]
  <2>1. calls \in Seq(Frame(Block, Fn)) /\ Len(calls) \in Nat /\ Len(calls) > 0
    BY DEF TypeOK, Running
  <2>2. Len(calls) - 1 \in 0 .. Len(calls)
    BY <2>1
  <2>. QED BY <2>1, <2>2, Prefix DEF Return
<1>. QED BY <1>1 DEF Moves, WorkFrom

LEMMA MovesBecome ==
    ASSUME TypeOK, Running, NEW STATE x, Become(x), x.kind # "func", Work(x) \in Nat
    PROVE  Moves(calls, calls', Len(calls)) /\ WorkFrom(calls', Len(calls)) = Work(x)
<1>1. /\ Len(calls) \in Nat /\ Len(calls) > 0 /\ Len(calls') = Len(calls)
      /\ \A i \in 1 .. Len(calls) - 1 : calls'[i] = calls[i]
      /\ calls'[Len(calls)] = x
  <2>1. calls \in Seq(Frame(Block, Fn)) /\ Len(calls) \in Nat /\ Len(calls) > 0 /\ calls # << >>
    BY DEF TypeOK, Running
  <2>2. calls \in Seq(Frame(Block, Fn) \cup {x})
    BY <2>1, SeqSubset
  <2>. QED BY <2>1, <2>2, ExceptLast DEF Become
<1>2. \A i \in Len(calls) .. Len(calls') : i = Len(calls)
  BY <1>1
<1>. QED BY <1>1, <1>2 DEF Moves, WorkFrom

LEMMA MovesCall ==
    ASSUME TypeOK, Running, NEW STATE x, NEW STATE q, BecomeAndCall(x, q),
           x.kind # "func", Work(x) \in Nat, q \in Seq(Stm)
    PROVE  Moves(calls, calls', Len(calls)) /\ WorkFrom(calls', Len(calls)) = Work(x) + Copies(q)
<1>1. /\ Len(calls) \in Nat /\ Len(calls) > 0 /\ Len(calls') = Len(calls) + 1
      /\ \A i \in 1 .. Len(calls) - 1 : calls'[i] = calls[i]
      /\ calls'[Len(calls)] = x /\ calls'[Len(calls) + 1] = BodyFrame(q)
  <2>1. calls \in Seq(Frame(Block, Fn)) /\ Len(calls) \in Nat /\ Len(calls) > 0 /\ calls # << >>
    BY DEF TypeOK, Running
  <2>2. calls \in Seq(Frame(Block, Fn) \cup {x, BodyFrame(q)})
    BY <2>1, SeqSubset
  <2>. QED BY <2>1, <2>2, CallsCalled DEF BecomeAndCall
<1>2. \A i \in Len(calls) .. Len(calls') : i = Len(calls) \/ i = Len(calls) + 1
  BY <1>1
<1>3. BodyFrame(q).kind # "func" /\ Work(BodyFrame(q)) = Copies(q) /\ Copies(q) \in Nat
  BY WorkIs, CopiesOf DEF BodyFrame
<1>. QED BY <1>1, <1>2, <1>3 DEF Moves, WorkFrom

LEMMA MovesEnter ==
    ASSUME TypeOK, Running, NEW STATE x, NEW STATE y, NEW STATE q,
           calls' = [calls EXCEPT ![Len(calls)] = x] \o <<y, BodyFrame(q)>>,
           x.kind # "func", Work(x) \in Nat, y.kind # "func", Work(y) \in Nat, q \in Seq(Stm)
    PROVE  /\ Moves(calls, calls', Len(calls))
           /\ WorkFrom(calls', Len(calls)) = Work(x) + Work(y) + Copies(q)
<1>1. /\ Len(calls) \in Nat /\ Len(calls) > 0 /\ Len(calls') = Len(calls) + 2
      /\ \A i \in 1 .. Len(calls) - 1 : calls'[i] = calls[i]
      /\ calls'[Len(calls)] = x /\ calls'[Len(calls) + 1] = y /\ calls'[Len(calls) + 2] = BodyFrame(q)
  <2>1. calls \in Seq(Frame(Block, Fn)) /\ Len(calls) \in Nat /\ Len(calls) > 0 /\ calls # << >>
    BY DEF TypeOK, Running
  <2>2. calls \in Seq(Frame(Block, Fn) \cup {x, y, BodyFrame(q)})
    BY <2>1, SeqSubset
  <2>. QED BY <2>1, <2>2, CallsPushed
<1>2. \A i \in Len(calls) .. Len(calls') : i = Len(calls) \/ i = Len(calls) + 1 \/ i = Len(calls) + 2
  BY <1>1
<1>3. BodyFrame(q).kind # "func" /\ Work(BodyFrame(q)) = Copies(q) /\ Copies(q) \in Nat
  BY WorkIs, CopiesOf DEF BodyFrame
<1>4. \A i \in Len(calls) .. Len(calls') : calls'[i].kind # "func" /\ Work(calls'[i]) \in Nat
  BY <1>1, <1>2, <1>3
<1>5. Moves(calls, calls', Len(calls))
  <2>1. Len(calls') \in Len(calls) - 1 .. Len(calls) + 2
    BY <1>1
  <2>2. PICK n : n = Len(calls)
    OBVIOUS
  <2>3. Moves(calls, calls', n)
    BY <1>1, <1>4, <2>1, <2>2, Zenon DEF Moves
  <2>. QED BY <2>2, <2>3
<1>6. WorkFrom(calls', Len(calls)) = Work(x) + Work(y) + Copies(q)
  BY <1>1, <1>3 DEF WorkFrom
<1>. QED BY <1>5, <1>6
--------------------------------------------------------------------------------
Made == [fn \in Fn |-> Cardinality(Generated(fn))]

(* BodyCopies with what it needs to be inductive: what a function has and  *)
(* what its handlers still have to generate is what its body asks for.     *)
Counts(d) ==
    /\ Due(calls, d)
    /\ Made[curFn] + d[Len(calls)] = Copies(fns[curFn].body)
    /\ \A i \in FuncsIn(calls) : Made[calls[i].fn] + d[i - 1] = Copies(fns[calls[i].fn].body)
    /\ \A fn \in Fn :
          fn # curFn /\ (\A i \in FuncsIn(calls) : fn # calls[i].fn) =>
             Made[fn] = Copies(fns[fn].body)

CopiesInv ==
    /\ StackInv
    /\ \A fn \in Fn : IsFiniteSet(Generated(fn))
    /\ Running => \E d : Counts(d)
    /\ BodyCopies

LEMMA CountsNext ==
    ASSUME NEW x, Counts(x)'
    PROVE  (\E d : Counts(d))'
  OBVIOUS

(* The functions in progress. *)
LEMMA InProgress ==
    ASSUME StackInv, Running
    PROVE  /\ IInv /\ TypeOK /\ curFn \in Fn /\ calls \in Seq(Frame(Block, Fn))
           /\ Len(calls) \in Nat /\ Len(calls) > 0 /\ Here = calls[Len(calls)]
           /\ \A i \in FuncsIn(calls) : /\ i \in 1 .. Len(calls)
                                        /\ calls[i].fn \in Fn /\ calls[i].fn # curFn
                                        /\ \A j \in FuncsIn(calls) : i # j => calls[i].fn # calls[j].fn
<1>1. IInv /\ TypeOK /\ curFn \in Fn /\ calls \in Seq(Frame(Block, Fn)) /\ Here = calls[Len(calls)]
      /\ Len(calls) \in Nat /\ Len(calls) > 0
  BY DEF StackInv, IInv, TypeOK, Here, Running
<1>2. \A i \in 1 .. Len(calls) : calls[i].kind = "func" => calls[i].fn \in Fn
  <2>1. \A fr \in Frame(Block, Fn) : fr.kind = "func" => fr.fn \in Fn
    BY DEF Frame
  <2>. QED BY <1>1, <2>1
<1>3. \A i \in FuncsIn(calls) : i \in 1 .. Len(calls) /\ calls[i].kind = "func"
  BY DEF FuncsIn
<1>4. \A fn \in Fn : fn \in Nat
  BY DEF Fn
<1>5. \A i \in FuncsIn(calls) : /\ calls[i].fn < curFn
                                /\ \A j \in FuncsIn(calls) : i < j => calls[i].fn < calls[j].fn
  BY DEF StackInv
<1>6. ASSUME NEW i \in FuncsIn(calls), NEW j \in FuncsIn(calls), i # j
      PROVE  calls[i].fn # calls[j].fn
  <2>1. i \in Nat /\ j \in Nat /\ calls[i].fn \in Nat /\ calls[j].fn \in Nat
    BY <1>1, <1>2, <1>3, <1>4
  <2>2. i < j \/ j < i
    BY <1>6, <2>1
  <2>. QED BY <1>5, <2>1, <2>2
<1>. QED BY <1>1, <1>2, <1>3, <1>4, <1>5, <1>6

(* A step of a handler that is not a function's, and n more for the        *)
(* current function.                                                       *)
CopyStep(n) ==
    /\ Running /\ Here.kind # "func"
    /\ Moves(calls, calls', Len(calls))
    /\ n \in Nat /\ Work(Here) = WorkFrom(calls', Len(calls)) + n
    /\ WorkFrom(calls', Len(calls)) \in Nat
    /\ UNCHANGED <<fns, curFn, status>>
    /\ \A fn \in Fn : IsFiniteSet(Generated(fn)')
    /\ Made'[curFn] = Made[curFn] + n
    /\ \A fn \in Fn : fn # curFn => Made'[fn] = Made[fn]

LEMMA CopiesKept ==
    ASSUME CopiesInv, StackInv', NEW n, CopyStep(n)
    PROVE  CopiesInv'
<1>. DEFINE m == Len(calls)
<1>1. /\ Running /\ StackInv /\ Moves(calls, calls', m) /\ Here.kind # "func"
      /\ Fn' = Fn /\ fns' = fns /\ curFn' = curFn /\ status' = status /\ status = "running"
  BY DEF CopyStep, CopiesInv, Fn, Running
<1>2. PICK d : Counts(d)
  BY <1>1 DEF CopiesInv
<1>3. /\ curFn \in Fn /\ m \in Nat /\ m > 0 /\ Here = calls[m]
      /\ \A i \in FuncsIn(calls) : i \in 1 .. m /\ calls[i].fn \in Fn /\ calls[i].fn # curFn
  BY <1>1, InProgress
<1>4. PICK x : /\ Due(calls', x)
               /\ \A i \in 0 .. m - 1 : x[i] = d[i]
               /\ x[Len(calls')] = d[m - 1] + WorkFrom(calls', m)
  BY <1>1, <1>2, DueMoves DEF Counts
<1>5. /\ d[m] = d[m - 1] + Work(calls[m]) /\ d[m] \in Nat /\ d[m - 1] \in Nat
  <2>1. m \in 1 .. m /\ m \in 0 .. m /\ m - 1 \in 0 .. m
    BY <1>3
  <2>2. d \in [0 .. m -> Nat] /\ \A i \in 1 .. m : d[i] = IF calls[i].kind = "func" THEN 0 ELSE d[i - 1] + Work(calls[i])
    BY <1>2 DEF Counts, Due
  <2>. QED BY <1>1, <1>3, <2>1, <2>2
<1>6. FuncsIn(calls') = FuncsIn(calls) /\ \A i \in FuncsIn(calls) : i - 1 \in 0 .. m - 1 /\ calls'[i] = calls[i]
  <2>1. /\ Len(calls') \in m - 1 .. m + 2
        /\ \A i \in 1 .. m - 1 : calls'[i] = calls[i]
        /\ \A i \in m .. Len(calls') : calls'[i].kind # "func"
    BY <1>1 DEF Moves
  <2>2. ASSUME NEW i \in FuncsIn(calls) PROVE i \in 1 .. m - 1 /\ i \in 1 .. Len(calls') /\ calls[i].kind = "func"
    <3>1. i \in 1 .. m /\ calls[i].kind = "func"
      BY DEF FuncsIn
    <3>2. i # m
      BY <1>1, <1>3, <3>1
    <3>. QED BY <1>3, <2>1, <3>1, <3>2
  <2>3. ASSUME NEW i \in 1 .. Len(calls'), calls'[i].kind = "func" PROVE i \in 1 .. m - 1 /\ i \in 1 .. m
    <3>1. i \notin m .. Len(calls')
      BY <2>1, <2>3
    <3>. QED BY <1>3, <2>1, <3>1
  <2>4. \A i : i \in FuncsIn(calls') <=> i \in 1 .. Len(calls') /\ calls'[i].kind = "func"
    BY DEF FuncsIn
  <2>5. \A i : i \in FuncsIn(calls) <=> i \in 1 .. m /\ calls[i].kind = "func"
    BY DEF FuncsIn
  <2>6. \A i : i \in FuncsIn(calls') <=> i \in FuncsIn(calls)
    BY <2>1, <2>2, <2>3, <2>4, <2>5
  <2>7. \A i \in FuncsIn(calls) : i - 1 \in 0 .. m - 1
    BY <1>3, <2>2
  <2>. QED BY <2>1, <2>2, <2>6, <2>7
<1>7. \A fn \in Fn' : IsFiniteSet(Generated(fn)')
  BY <1>1 DEF CopyStep
<1>8. Made[curFn] \in Nat /\ n \in Nat
  BY <1>3, FS_CardinalityType DEF CopiesInv, Made, CopyStep
<1>9. Made'[curFn] + x[Len(calls')] = Copies(fns[curFn].body)
  <2>1. Made[curFn] + d[m] = Copies(fns[curFn].body)
    BY <1>2 DEF Counts
  <2>2. Work(calls[m]) = WorkFrom(calls', m) + n /\ WorkFrom(calls', m) \in Nat
    BY <1>3 DEF CopyStep
  <2>3. Made'[curFn] = Made[curFn] + n
    BY DEF CopyStep
  <2>. QED BY <1>4, <1>5, <1>8, <2>1, <2>2, <2>3
<1>10. ASSUME NEW i \in FuncsIn(calls')
       PROVE  Made'[calls'[i].fn] + x[i - 1] = Copies(fns[calls'[i].fn].body)
  <2>1. i \in FuncsIn(calls) /\ i - 1 \in 0 .. m - 1 /\ calls'[i] = calls[i]
        /\ calls[i].fn # curFn /\ calls[i].fn \in Fn
    BY <1>3, <1>6
  <2>2. Made[calls[i].fn] + d[i - 1] = Copies(fns[calls[i].fn].body)
    BY <1>2, <2>1 DEF Counts
  <2>3. Made'[calls[i].fn] = Made[calls[i].fn]
    BY <2>1 DEF CopyStep
  <2>. QED BY <1>4, <2>1, <2>2, <2>3
<1>11. ASSUME NEW fn \in Fn, fn # curFn, \A i \in FuncsIn(calls') : fn # calls'[i].fn
       PROVE  Made'[fn] = Copies(fns[fn].body)
  <2>1. \A i \in FuncsIn(calls) : fn # calls[i].fn
    BY <1>6, <1>11
  <2>2. Made[fn] = Copies(fns[fn].body)
    BY <1>2, <1>11, <2>1 DEF Counts
  <2>. QED BY <1>11, <2>2 DEF CopyStep
<1>12. Counts(x)'
  BY <1>1, <1>4, <1>9, <1>10, <1>11 DEF Counts
<1>13. (\E e : Counts(e))'
  BY <1>12, CountsNext
<1>. QED BY <1>1, <1>7, <1>13 DEF CopiesInv, BodyCopies

LEMMA NoneMade ==
    ASSUME CopiesInv, fns' = fns, \A fn : Generated(fn)' = Generated(fn)
    PROVE  (\A fn \in Fn : IsFiniteSet(Generated(fn)')) /\ Made' = Made /\ Fn' = Fn
<1>1. Fn' = Fn
  BY DEF Fn
<1>. QED BY <1>1 DEF Made, CopiesInv

(* An action that generates no call and no assignment. *)
LEMMA CopiesMoved ==
    ASSUME CopiesInv, StackInv', Running, Here.kind # "func", UNCHANGED <<fns, curFn, status>>,
           \A fn : Generated(fn)' = Generated(fn),
           Moves(calls, calls', Len(calls)), Work(Here) = WorkFrom(calls', Len(calls))
    PROVE  CopiesInv'
<1>1. (\A fn \in Fn : IsFiniteSet(Generated(fn)')) /\ Made' = Made
  BY NoneMade
<1>2. StackInv /\ curFn \in Fn /\ TypeOK
  BY InProgress DEF CopiesInv
<1>3. Work(Here) \in Nat
  BY <1>2, HereType, WorkIs
<1>4. \A fn \in Fn : Made[fn] \in Nat
  BY FS_CardinalityType DEF CopiesInv, Made
<1>5. CopyStep(0)
  BY <1>1, <1>2, <1>3, <1>4 DEF CopyStep
<1>. QED BY <1>5, CopiesKept

(* What the statement that comes next and the rest of its list come to. *)
LEMMA StmtWork ==
    ASSUME TypeOK, NEW K, AtStatement(K)
    PROVE  /\ Running /\ Here.kind = "body" /\ Rest.kind = "body"
           /\ Work(Here) \in Nat /\ Work(Rest) \in Nat
           /\ Stmt.body \in Seq(Stm) /\ Stmt.alt \in Seq(Stm)
           /\ Copies(Stmt.body) \in Nat /\ Copies(Stmt.alt) \in Nat
           /\ Stmt.kind = "simple" => Work(Here) = 1 + Work(Rest)
           /\ Stmt.kind = "goto" => Work(Here) = Work(Rest)
           /\ Stmt.kind = "for" => Work(Here) = Copies(Stmt.body) + Copies(Stmt.body) + Work(Rest)
           /\ Stmt.kind = "if" => Work(Here) = Copies(Stmt.body) + Copies(Stmt.alt) + Work(Rest)
           /\ Stmt.kind \in {"while", "repeat"} => Work(Here) = Copies(Stmt.body) + Work(Rest)
<1>1. Running /\ Here.kind = "body" /\ Here.rest # << >> /\ Here.rest \in Seq(Stm) /\ Rest.kind = "body"
  BY HereType, StmtType DEF AtStatement
<1>2. Work(Here) = Copies(Here.rest) /\ Work(Rest) = Copies(Tail(Here.rest))
  BY <1>1, WorkIs DEF Work, Rest
<1>3. Stmt.body \in Seq(Stm) /\ Stmt.alt \in Seq(Stm) /\ Stmt = Here.rest[1]
  BY StmtType DEF Stmt
<1>4. PICK s : s = Here.rest[1]
  OBVIOUS
<1>5. PICK q : q = Here.rest
  OBVIOUS
<1>6. /\ Copies(q) \in Nat
      /\ Copies(Tail(q)) \in Nat /\ Copies(s.body) \in Nat /\ Copies(s.alt) \in Nat
      /\ s.kind = "simple" => Copies(q) = 1 + Copies(Tail(q))
      /\ s.kind = "goto" => Copies(q) = Copies(Tail(q))
      /\ s.kind = "for" => Copies(q) = Copies(s.body) + Copies(s.body) + Copies(Tail(q))
      /\ s.kind = "if" => Copies(q) = Copies(s.body) + Copies(s.alt) + Copies(Tail(q))
      /\ s.kind \in {"while", "repeat"} => Copies(q) = Copies(s.body) + Copies(Tail(q))
  BY <1>1, <1>4, <1>5, CopiesOf
<1>. QED BY <1>1, <1>2, <1>3, <1>4, <1>5, <1>6

LEMMA CopiesSimple == CopiesInv /\ EmitSimple /\ StackInv' => CopiesInv'
<1>. SUFFICES ASSUME CopiesInv, EmitSimple, StackInv' PROVE CopiesInv'
  OBVIOUS
<1>1. /\ AtStatement({"simple"}) /\ Emit(0, curFn, In(Top, <<Do(Stmt.id)>>)) /\ Become(Rest)
      /\ UNCHANGED <<fns, curFn, status>>
  BY DEF EmitSimple
<1>2. Running /\ Stmt.kind = "simple"
  BY <1>1 DEF AtStatement
<1>3. StackInv /\ IInv /\ TypeOK /\ curFn \in Fn
  BY <1>2, InProgress DEF CopiesInv
<1>4. /\ Here.kind = "body" /\ Rest.kind = "body" /\ Work(Rest) \in Nat /\ Stmt.id \in Id
      /\ Work(Here) = 1 + Work(Rest)
  BY <1>1, <1>2, <1>3, StmtWork, StmtType
<1>5. Moves(calls, calls', Len(calls)) /\ WorkFrom(calls', Len(calls)) = Work(Rest)
  BY <1>1, <1>2, <1>3, <1>4, MovesBecome
<1>6. PICK f : f = curFn
  OBVIOUS
<1>7. PICK p : p \notin Generated(f) /\ Generated(f)' = Generated(f) \cup {p}
  BY <1>1, <1>2, <1>3, <1>4, <1>6, EmitDo
<1>8. \A fn : fn # f => Generated(fn)' = Generated(fn)
  BY <1>1, <1>2, <1>3, <1>4, <1>6, EmitDo
<1>9. \A fn \in Fn : IsFiniteSet(Generated(fn))
  BY DEF CopiesInv
<1>10. /\ IsFiniteSet(Generated(f)') /\ Cardinality(Generated(f)') = Cardinality(Generated(f)) + 1
  BY <1>3, <1>6, <1>7, <1>9, FS_AddElement
<1>11. Fn' = Fn
  BY <1>1 DEF Fn
<1>12. \A fn \in Fn : IsFiniteSet(Generated(fn)')
  BY <1>8, <1>9, <1>10
<1>13. /\ Made'[f] = Made[f] + 1
       /\ \A fn \in Fn : fn # f => Made'[fn] = Made[fn]
  BY <1>3, <1>6, <1>8, <1>10, <1>11 DEF Made
<1>14. CopyStep(1)
  BY <1>1, <1>2, <1>4, <1>5, <1>6, <1>12, <1>13 DEF CopyStep
<1>. QED BY <1>14, CopiesKept

LEMMA CopiesGoto == CopiesInv /\ SkipGoto /\ StackInv' => CopiesInv'
<1>. SUFFICES ASSUME CopiesInv, SkipGoto, StackInv' PROVE CopiesInv'
  OBVIOUS
<1>1. /\ AtStatement({"goto"}) /\ Become(Rest)
      /\ UNCHANGED <<fns, curFn, status>> /\ UNCHANGED <<code, owner, nblk>>
  BY DEF SkipGoto
<1>2. Running /\ Stmt.kind = "goto" /\ TypeOK
  BY <1>1, InProgress DEF AtStatement, CopiesInv
<1>3. Here.kind = "body" /\ Rest.kind = "body" /\ Work(Rest) \in Nat /\ Work(Here) = Work(Rest)
  BY <1>1, <1>2, StmtWork
<1>4. Moves(calls, calls', Len(calls)) /\ WorkFrom(calls', Len(calls)) = Work(Rest)
  BY <1>1, <1>2, <1>3, MovesBecome
<1>5. \A fn : Generated(fn)' = Generated(fn)
  BY <1>1 DEF Generated, Block
<1>. QED BY <1>1, <1>2, <1>3, <1>4, <1>5, CopiesMoved

LEMMA CopiesIf == CopiesInv /\ BeginIf /\ StackInv' => CopiesInv'
<1>. SUFFICES ASSUME CopiesInv, BeginIf, StackInv' PROVE CopiesInv'
  OBVIOUS
<1>. DEFINE y == ThenFrame(Stmt, nblk + 2, nblk + 3)
<1>1. /\ AtStatement({"if"}) /\ Emit(3, curFn, In(Top, <<CondBr(Stmt.id, nblk + 1, nblk + 2)>>))
      /\ calls' = [calls EXCEPT ![Len(calls)] = Rest] \o <<y, BodyFrame(Stmt.body)>>
      /\ UNCHANGED <<fns, curFn, status>>
  BY DEF BeginIf
<1>2. Running /\ Stmt.kind = "if" /\ TypeOK
  BY <1>1, InProgress DEF AtStatement, CopiesInv
<1>3. /\ Here.kind = "body" /\ Rest.kind = "body" /\ Work(Rest) \in Nat /\ Stmt.body \in Seq(Stm)
      /\ Copies(Stmt.body) \in Nat /\ Copies(Stmt.alt) \in Nat
      /\ Work(Here) = Copies(Stmt.body) + Copies(Stmt.alt) + Work(Rest)
  BY <1>1, <1>2, StmtWork
<1>4. y.kind # "func" /\ Work(y) = Copies(Stmt.alt)
  BY WorkIs DEF ThenFrame
<1>5. /\ Moves(calls, calls', Len(calls))
      /\ WorkFrom(calls', Len(calls)) = Work(Rest) + Work(y) + Copies(Stmt.body)
  <2>. HIDE DEF y
  <2>. QED BY <1>1, <1>2, <1>3, <1>4, MovesEnter
<1>6. \A fn : Generated(fn)' = Generated(fn)
  BY <1>1, <1>2, QuietInstr, EmitsNone
<1>7. Work(Here) = WorkFrom(calls', Len(calls))
  BY <1>3, <1>4, <1>5
<1>. QED BY <1>1, <1>2, <1>3, <1>5, <1>6, <1>7, CopiesMoved

LEMMA CopiesWhile == CopiesInv /\ BeginWhile /\ StackInv' => CopiesInv'
<1>. SUFFICES ASSUME CopiesInv, BeginWhile, StackInv' PROVE CopiesInv'
  OBVIOUS
<1>. DEFINE y == WhileFrame(nblk + 1, nblk + 3)
<1>1. /\ AtStatement({"while"})
      /\ Emit(3, curFn, InTwo(Top, <<Br(nblk + 1)>>, nblk + 1, <<CondBr(Stmt.id, nblk + 2, nblk + 3)>>))
      /\ calls' = [calls EXCEPT ![Len(calls)] = Rest] \o <<y, BodyFrame(Stmt.body)>>
      /\ UNCHANGED <<fns, curFn, status>>
  BY DEF BeginWhile
<1>2. Running /\ Stmt.kind = "while" /\ TypeOK
  BY <1>1, InProgress DEF AtStatement, CopiesInv
<1>3. /\ Here.kind = "body" /\ Rest.kind = "body" /\ Work(Rest) \in Nat /\ Stmt.body \in Seq(Stm)
      /\ Copies(Stmt.body) \in Nat
      /\ Work(Here) = Copies(Stmt.body) + Work(Rest)
  BY <1>1, <1>2, StmtWork
<1>4. y.kind # "func" /\ Work(y) = 0 /\ Work(y) \in Nat
  <2>1. Work(y) = 0
    BY WorkIs
  <2>. QED BY <2>1 DEF WhileFrame
<1>5. /\ Moves(calls, calls', Len(calls))
      /\ WorkFrom(calls', Len(calls)) = Work(Rest) + Work(y) + Copies(Stmt.body)
  <2>. HIDE DEF y
  <2>. QED BY <1>1, <1>2, <1>3, <1>4, MovesEnter
<1>6. \A fn : Generated(fn)' = Generated(fn)
  BY <1>1, <1>2, QuietInstr, EmitsNone
<1>7. Work(Here) = WorkFrom(calls', Len(calls))
  BY <1>3, <1>4, <1>5
<1>. QED BY <1>1, <1>2, <1>3, <1>5, <1>6, <1>7, CopiesMoved

LEMMA CopiesRepeat == CopiesInv /\ BeginRepeat /\ StackInv' => CopiesInv'
<1>. SUFFICES ASSUME CopiesInv, BeginRepeat, StackInv' PROVE CopiesInv'
  OBVIOUS
<1>. DEFINE y == RepeatFrame(Stmt, nblk + 1)
<1>1. /\ AtStatement({"repeat"}) /\ Emit(1, curFn, In(Top, <<Br(nblk + 1)>>))
      /\ calls' = [calls EXCEPT ![Len(calls)] = Rest] \o <<y, BodyFrame(Stmt.body)>>
      /\ UNCHANGED <<fns, curFn, status>>
  BY DEF BeginRepeat
<1>2. Running /\ Stmt.kind = "repeat" /\ TypeOK
  BY <1>1, InProgress DEF AtStatement, CopiesInv
<1>3. /\ Here.kind = "body" /\ Rest.kind = "body" /\ Work(Rest) \in Nat /\ Stmt.body \in Seq(Stm)
      /\ Copies(Stmt.body) \in Nat
      /\ Work(Here) = Copies(Stmt.body) + Work(Rest)
  BY <1>1, <1>2, StmtWork
<1>4. y.kind # "func" /\ Work(y) = 0 /\ Work(y) \in Nat
  <2>1. Work(y) = 0
    BY WorkIs
  <2>. QED BY <2>1 DEF RepeatFrame
<1>5. /\ Moves(calls, calls', Len(calls))
      /\ WorkFrom(calls', Len(calls)) = Work(Rest) + Work(y) + Copies(Stmt.body)
  <2>. HIDE DEF y
  <2>. QED BY <1>1, <1>2, <1>3, <1>4, MovesEnter
<1>6. \A fn : Generated(fn)' = Generated(fn)
  BY <1>1, <1>2, QuietInstr, EmitsNone
<1>7. Work(Here) = WorkFrom(calls', Len(calls))
  BY <1>3, <1>4, <1>5
<1>. QED BY <1>1, <1>2, <1>3, <1>5, <1>6, <1>7, CopiesMoved

LEMMA CopiesFor == CopiesInv /\ BeginFor /\ StackInv' => CopiesInv'
<1>. SUFFICES ASSUME CopiesInv, BeginFor, StackInv' PROVE CopiesInv'
  OBVIOUS
<1>. DEFINE y == ForFrame(Stmt, nblk + 1, nblk + 3)
<1>1. /\ AtStatement({"for"})
      /\ Emit(3, curFn, InTwo(Top, <<InitVar(Stmt.id), Br(nblk + 1)>>,
                              nblk + 1, <<CondBr(Stmt.id, nblk + 3, nblk + 2)>>))
      /\ calls' = [calls EXCEPT ![Len(calls)] = Rest] \o <<y, BodyFrame(Stmt.body)>>
      /\ UNCHANGED <<fns, curFn, status>>
  BY DEF BeginFor
<1>2. Running /\ Stmt.kind = "for" /\ TypeOK
  BY <1>1, InProgress DEF AtStatement, CopiesInv
<1>3. /\ Here.kind = "body" /\ Rest.kind = "body" /\ Work(Rest) \in Nat /\ Stmt.body \in Seq(Stm)
      /\ Copies(Stmt.body) \in Nat
      /\ Work(Here) = Copies(Stmt.body) + Copies(Stmt.body) + Work(Rest)
  BY <1>1, <1>2, StmtWork
<1>4. y.kind # "func" /\ Work(y) = Copies(Stmt.body)
  BY WorkIs DEF ForFrame
<1>5. /\ Moves(calls, calls', Len(calls))
      /\ WorkFrom(calls', Len(calls)) = Work(Rest) + Work(y) + Copies(Stmt.body)
  <2>. HIDE DEF y
  <2>. QED BY <1>1, <1>2, <1>3, <1>4, MovesEnter
<1>6. \A fn : Generated(fn)' = Generated(fn)
  BY <1>1, <1>2, QuietInstr, EmitsNone
<1>7. Work(Here) = WorkFrom(calls', Len(calls))
  BY <1>3, <1>4, <1>5
<1>. QED BY <1>1, <1>2, <1>3, <1>5, <1>6, <1>7, CopiesMoved

LEMMA CopiesThen == CopiesInv /\ EndThen /\ StackInv' => CopiesInv'
<1>. SUFFICES ASSUME CopiesInv, EndThen, StackInv' PROVE CopiesInv'
  OBVIOUS
<1>1. /\ Running /\ Here.kind = "then" /\ Emit(0, curFn, In(Top, <<Br(Here.merge)>>))
      /\ BecomeAndCall(ElseFrame(Here.merge), Here.node.alt)
      /\ UNCHANGED <<fns, curFn, status>>
  BY DEF EndThen
<1>2. TypeOK /\ Here.node \in Stm
  BY <1>1, InProgress, HereType DEF CopiesInv
<1>3. Here.node.alt \in Seq(Stm) /\ Copies(Here.node.alt) \in Nat
  BY <1>2, StmAssumption, CopiesOf
<1>4. Work(Here) = Copies(Here.node.alt)
  BY <1>1 DEF Work
<1>5. ElseFrame(Here.merge).kind # "func" /\ Work(ElseFrame(Here.merge)) = 0
  BY WorkIs DEF ElseFrame
<1>6. Moves(calls, calls', Len(calls)) /\ WorkFrom(calls', Len(calls)) = 0 + Copies(Here.node.alt)
  BY <1>1, <1>2, <1>3, <1>5, MovesCall
<1>7. \A fn : Generated(fn)' = Generated(fn)
  BY <1>1, <1>2, QuietInstr, EmitsNone
<1>8. Work(Here) = WorkFrom(calls', Len(calls))
  BY <1>3, <1>4, <1>6
<1>. QED BY <1>1, <1>6, <1>7, <1>8, CopiesMoved

LEMMA CopiesEndFor == CopiesInv /\ EndFor /\ StackInv' => CopiesInv'
<1>. SUFFICES ASSUME CopiesInv, EndFor, StackInv' PROVE CopiesInv'
  OBVIOUS
<1>1. /\ Running /\ Here.kind = "for"
      /\ Emit(0, curFn, In(Top, <<StepVar(Here.node.id), Br(Here.start)>>))
      /\ Become(BodyFrame(Here.node.body))
      /\ UNCHANGED <<fns, curFn, status>>
  BY DEF EndFor
<1>2. TypeOK /\ Here.node \in Stm
  BY <1>1, InProgress, HereType DEF CopiesInv
<1>3. Here.node.body \in Seq(Stm) /\ Copies(Here.node.body) \in Nat
  BY <1>2, StmAssumption, CopiesOf
<1>4. Work(Here) = Copies(Here.node.body)
  BY <1>1 DEF Work
<1>5. /\ BodyFrame(Here.node.body).kind # "func"
      /\ Work(BodyFrame(Here.node.body)) = Copies(Here.node.body)
  BY WorkIs DEF BodyFrame
<1>6. Moves(calls, calls', Len(calls)) /\ WorkFrom(calls', Len(calls)) = Copies(Here.node.body)
  BY <1>1, <1>2, <1>3, <1>5, MovesBecome
<1>7. \A fn : Generated(fn)' = Generated(fn)
  BY <1>1, <1>2, QuietInstr, EmitsNone
<1>. QED BY <1>1, <1>4, <1>6, <1>7, CopiesMoved

(* The handlers that return with nothing left to do. *)
LEMMA CopiesReturned ==
    CopiesInv /\ (BodyDone \/ EndElse \/ EndWhile \/ EndRepeat \/ FuncsDone) /\ StackInv' => CopiesInv'
<1>. SUFFICES ASSUME CopiesInv, BodyDone \/ EndElse \/ EndWhile \/ EndRepeat \/ FuncsDone, StackInv'
              PROVE  CopiesInv'
  OBVIOUS
<1>1. Running /\ Return /\ Here.kind # "func" /\ UNCHANGED <<fns, curFn, status>>
  BY DEF BodyDone, EndElse, EndWhile, EndRepeat, FuncsDone
<1>2. TypeOK
  BY <1>1, InProgress DEF CopiesInv
<1>3. Work(Here) = 0
  <2>1. CASE BodyDone
    <3>1. << >> \in Seq(Stm)
      OBVIOUS
    <3>. QED BY <2>1, <3>1, CopiesOf DEF BodyDone, Work
  <2>2. CASE EndElse \/ EndWhile \/ EndRepeat \/ FuncsDone
    BY <2>2 DEF EndElse, EndWhile, EndRepeat, FuncsDone, Work
  <2>. QED BY <2>1, <2>2
<1>4. \A fn : Generated(fn)' = Generated(fn)
  <2>1. CASE BodyDone \/ FuncsDone
    BY <2>1 DEF BodyDone, FuncsDone, Generated, Block
  <2>2. CASE EndElse
    <3>1. Emit(0, curFn, In(Top, <<Br(Here.merge)>>))
      BY <2>2 DEF EndElse
    <3>. QED BY <1>2, <3>1, QuietInstr, EmitsNone
  <2>3. CASE EndWhile
    <3>1. Emit(0, curFn, In(Top, <<Br(Here.start)>>))
      BY <2>3 DEF EndWhile
    <3>. QED BY <1>2, <3>1, QuietInstr, EmitsNone
  <2>4. CASE EndRepeat
    <3>1. Emit(1, curFn, In(Top, <<CondBr(Here.node.id, nblk + 1, Here.loop)>>))
      BY <2>4 DEF EndRepeat
    <3>. QED BY <1>2, <3>1, QuietInstr, EmitsNone
  <2>. QED BY <2>1, <2>2, <2>3, <2>4
<1>5. Moves(calls, calls', Len(calls)) /\ WorkFrom(calls', Len(calls)) = 0
  BY <1>1, <1>2, MovesReturn
<1>. QED BY <1>1, <1>3, <1>4, <1>5, CopiesMoved
(* A function is entered: of it all is still to be generated, the others   *)
(* wait with what they had left.                                           *)
LEMMA CopiesFunc == CopiesInv /\ BeginFunc /\ StackInv' => CopiesInv'
<1>. SUFFICES ASSUME CopiesInv, BeginFunc, StackInv' PROVE CopiesInv'
  OBVIOUS
<1>. DEFINE m == Len(calls)
<1>1. PICK def : def = Here.defs[1]
  OBVIOUS
<1>2. PICK f : f = Len(fns) + 1
  OBVIOUS
<1>3. /\ Running /\ Here.kind = "funcs" /\ Here.defs # << >> /\ StackInv
      /\ Emit(1, f, In(nblk + 1, << >>)) /\ curFn' = f /\ status' = status /\ status = "running"
      /\ fns' = Append(fns, [entry |-> nblk + 1, body |-> def.body])
  BY <1>1, <1>2 DEF BeginFunc, Running, CopiesInv
<1>4. /\ IInv /\ TypeOK /\ curFn \in Fn /\ m \in Nat /\ m > 0 /\ Here = calls[m]
      /\ \A i \in FuncsIn(calls) : i \in 1 .. m /\ calls[i].fn \in Fn /\ calls[i].fn # curFn
  BY <1>3, InProgress
<1>5. /\ Here.defs \in Seq(FuncDef) /\ def \in FuncDef
      /\ def.body \in Seq(Stm) /\ Copies(def.body) \in Nat
  <2>1. Here.defs \in Seq(FuncDef)
    BY <1>3, <1>4, HereType
  <2>2. def \in FuncDef
    BY <1>1, <1>3, <2>1
  <2>. QED BY <2>1, <2>2, FuncDefAssumption, CopiesOf
<1>6. /\ Len(fns) \in Nat /\ Fn' = Fn \cup {f} /\ f \notin Fn
      /\ fns'[f].body = def.body /\ \A fn \in Fn : fns'[fn] = fns[fn]
  <2>1. Len(fns) \in Nat /\ fns \in Seq([entry : Block, body : Seq(Stm)])
    BY <1>4 DEF TypeOK
  <2>2. PICK r : r = [entry |-> nblk + 1, body |-> def.body]
    OBVIOUS
  <2>3. fns \in Seq([entry : Block, body : Seq(Stm)] \cup {r}) /\ fns' = Append(fns, r)
    BY <1>3, <2>1, <2>2, SeqSubset
  <2>4. /\ Len(fns') = Len(fns) + 1 /\ fns'[Len(fns) + 1] = r
        /\ \A fn \in 1 .. Len(fns) : fns'[fn] = fns[fn]
    BY <2>3
  <2>. QED BY <1>2, <2>1, <2>2, <2>4 DEF Fn
<1>7. \A fn : Generated(fn)' = Generated(fn)
  BY <1>3, <1>4, QuietInstr, EmitsNone
<1>8. Generated(f) = {}
  <2>1. \A b \in Block : owner[b] # f
    BY <1>4, <1>6 DEF TypeOK
  <2>. QED BY <2>1 DEF Generated
<1>9. IsFiniteSet(Generated(f)') /\ Cardinality(Generated(f)') = 0
  BY <1>7, <1>8, FS_EmptySet
<1>10. /\ \A fn \in Fn' : IsFiniteSet(Generated(fn)')
       /\ Made'[f] = 0 /\ \A fn \in Fn : Made'[fn] = Made[fn]
  BY <1>6, <1>7, <1>9 DEF CopiesInv, Made
<1>11. PICK d : Counts(d)
  BY <1>3 DEF CopiesInv
<1>12. /\ d \in [0 .. m -> Nat] /\ d[0] = 0
       /\ \A i \in 1 .. m : d[i] = IF calls[i].kind = "func" THEN 0 ELSE d[i - 1] + Work(calls[i])
  BY <1>11 DEF Counts, Due
<1>13. d[m] = d[m - 1] /\ d[m] \in Nat
  <2>1. Work(Here) = 0
    BY <1>3 DEF Work
  <2>2. m \in 1 .. m /\ m \in 0 .. m /\ m - 1 \in 0 .. m
    BY <1>4
  <2>. QED BY <1>3, <1>4, <1>12, <2>1, <2>2
<1>14. /\ Len(calls') = m + 3
       /\ \A i \in 1 .. m - 1 : calls'[i] = calls[i]
       /\ calls'[m].kind = "funcs" /\ Work(calls'[m]) = 0
       /\ calls'[m + 1].kind = "func" /\ calls'[m + 1].fn = curFn
       /\ calls'[m + 2].kind = "body" /\ Work(calls'[m + 2]) = Copies(def.body)
       /\ calls'[m + 3].kind = "funcs" /\ Work(calls'[m + 3]) = 0
  <2>1. /\ \A q : BodyFrame(q).kind = "body" /\ FuncsFrame(q).kind = "funcs"
        /\ \A b, fn : FuncFrame(b, fn).kind = "func" /\ FuncFrame(b, fn).fn = fn
    BY DEF BodyFrame, FuncsFrame, FuncFrame
  <2>. QED BY <1>1, <1>3, <1>4, <2>1, FuncPushed, WorkIs
<1>15. PICK x : x = [i \in 0 .. m + 3 |->
                        IF i <= m THEN d[i] ELSE IF i = m + 1 THEN 0 ELSE Copies(def.body)]
  OBVIOUS
<1>. HIDE DEF m
<1>16. /\ x[m + 3] = Copies(def.body)
       /\ \A i \in 0 .. m : x[i] = d[i]
  BY <1>4, <1>15
<1>17. Due(calls', x)
  <2>1. x \in [0 .. Len(calls') -> Nat] /\ x[0] = 0
    BY <1>4, <1>5, <1>12, <1>14, <1>15
  <2>2. ASSUME NEW i \in 1 .. Len(calls')
        PROVE  x[i] = IF calls'[i].kind = "func" THEN 0 ELSE x[i - 1] + Work(calls'[i])
    <3>1. CASE i \in 1 .. m - 1
      <4>1. i \in 1 .. m /\ i \in 0 .. m /\ i - 1 \in 0 .. m
        BY <1>4, <3>1
      <4>. QED BY <1>12, <1>14, <1>16, <3>1, <4>1
    <3>2. CASE i = m
      <4>1. m \in 0 .. m /\ m - 1 \in 0 .. m /\ d[m - 1] \in Nat
        BY <1>4, <1>13
      <4>. QED BY <1>13, <1>14, <1>16, <3>2, <4>1
    <3>3. CASE i = m + 1
      BY <1>4, <1>14, <1>15, <3>3
    <3>4. CASE i = m + 2 \/ i = m + 3
      BY <1>4, <1>5, <1>14, <1>15, <3>4
    <3>. QED BY <1>4, <1>14, <3>1, <3>2, <3>3, <3>4
  <2>. QED BY <2>1, <2>2 DEF Due
<1>18. /\ \A i \in FuncsIn(calls) : /\ i \in FuncsIn(calls') /\ i - 1 \in 0 .. m
                                    /\ calls'[i] = calls[i]
       /\ m + 1 \in FuncsIn(calls')
       /\ \A i \in FuncsIn(calls') : i \in FuncsIn(calls) \/ i = m + 1
  <2>1. ASSUME NEW i \in FuncsIn(calls) PROVE i \in 1 .. m - 1 /\ calls[i].kind = "func"
    <3>1. i \in 1 .. m /\ calls[i].kind = "func"
      BY DEF FuncsIn, m
    <3>. QED BY <1>3, <1>4, <3>1
  <2>2. ASSUME NEW i \in FuncsIn(calls) PROVE i \in FuncsIn(calls') /\ i - 1 \in 0 .. m /\ calls'[i] = calls[i]
    BY <1>4, <1>14, <2>1 DEF FuncsIn
  <2>3. m + 1 \in FuncsIn(calls')
    BY <1>4, <1>14 DEF FuncsIn
  <2>4. ASSUME NEW i \in FuncsIn(calls') PROVE i \in FuncsIn(calls) \/ i = m + 1
    <3>1. i \in 1 .. m + 3 /\ calls'[i].kind = "func"
      BY <1>14 DEF FuncsIn
    <3>2. i \in 1 .. m - 1 \/ i = m + 1
      BY <1>4, <1>14, <3>1
    <3>3. \A j \in 1 .. m - 1 : j \in 1 .. m
      BY <1>4
    <3>. QED BY <1>14, <3>1, <3>2, <3>3 DEF FuncsIn, m
  <2>. QED BY <2>2, <2>3, <2>4
<1>19. Made'[f] + x[Len(calls')] = Copies(fns'[f].body)
  BY <1>5, <1>6, <1>10, <1>14, <1>16
<1>20. ASSUME NEW i \in FuncsIn(calls')
       PROVE  Made'[calls'[i].fn] + x[i - 1] = Copies(fns'[calls'[i].fn].body)
  <2>1. CASE i \in FuncsIn(calls)
    <3>1. calls'[i] = calls[i] /\ i - 1 \in 0 .. m /\ calls[i].fn \in Fn
      BY <1>4, <1>18, <2>1
    <3>2. Made[calls[i].fn] + d[i - 1] = Copies(fns[calls[i].fn].body)
      BY <1>11, <2>1 DEF Counts
    <3>. QED BY <1>6, <1>10, <1>16, <3>1, <3>2
  <2>2. CASE i = m + 1
    <3>1. calls'[i].fn = curFn /\ i - 1 = m /\ m \in 0 .. m
      BY <1>4, <1>14, <2>2
    <3>2. Made[curFn] + d[m] = Copies(fns[curFn].body)
      BY <1>11 DEF Counts, m
    <3>. QED BY <1>4, <1>6, <1>10, <1>16, <3>1, <3>2
  <2>. QED BY <1>18, <2>1, <2>2
<1>21. ASSUME NEW fn \in Fn', fn # f, \A i \in FuncsIn(calls') : fn # calls'[i].fn
       PROVE  Made'[fn] = Copies(fns'[fn].body)
  <2>1. fn \in Fn /\ fn # curFn
    BY <1>6, <1>14, <1>18, <1>21
  <2>2. \A i \in FuncsIn(calls) : fn # calls[i].fn
    BY <1>18, <1>21
  <2>3. Made[fn] = Copies(fns[fn].body)
    BY <1>11, <2>1, <2>2 DEF Counts
  <2>. QED BY <1>6, <1>10, <2>1, <2>3
<1>22. Counts(x)'
  BY <1>3, <1>17, <1>19, <1>20, <1>21 DEF Counts
<1>23. (\E e : Counts(e))'
  BY <1>22, CountsNext
<1>. QED BY <1>3, <1>10, <1>23 DEF CopiesInv, BodyCopies

(* A function is left: all of it has been generated.                       *)
LEMMA CopiesEndFunc == CopiesInv /\ EndFunc /\ StackInv' => CopiesInv'
<1>. SUFFICES ASSUME CopiesInv, EndFunc, StackInv' PROVE CopiesInv'
  OBVIOUS
<1>. DEFINE m == Len(calls)
<1>1. /\ Running /\ Here.kind = "func" /\ Emit(0, curFn, In(Top, <<Ret>>)) /\ Return
      /\ curFn' = Here.fn /\ fns' = fns /\ status' = status /\ status = "running" /\ StackInv
  BY DEF EndFunc, Running, CopiesInv
<1>2. /\ IInv /\ TypeOK /\ curFn \in Fn /\ m \in Nat /\ m > 0 /\ Here = calls[m]
      /\ calls \in Seq(Frame(Block, Fn))
      /\ \A i \in FuncsIn(calls) : /\ i \in 1 .. m /\ calls[i].fn \in Fn /\ calls[i].fn # curFn
                                   /\ \A j \in FuncsIn(calls) : i # j => calls[i].fn # calls[j].fn
  BY <1>1, InProgress
<1>3. (\A fn \in Fn : IsFiniteSet(Generated(fn)')) /\ Made' = Made /\ Fn' = Fn
  <2>1. \A fn : Generated(fn)' = Generated(fn)
    BY <1>1, <1>2, QuietInstr, EmitsNone
  <2>. QED BY <1>1, <2>1, NoneMade
<1>4. PICK d : Counts(d)
  BY <1>1 DEF CopiesInv
<1>5. /\ d \in [0 .. m -> Nat] /\ d[0] = 0
      /\ \A i \in 1 .. m : d[i] = IF calls[i].kind = "func" THEN 0 ELSE d[i - 1] + Work(calls[i])
  BY <1>4 DEF Counts, Due
<1>6. Len(calls') = m - 1 /\ \A i \in 1 .. m - 1 : calls'[i] = calls[i]
  <2>1. m - 1 \in 0 .. Len(calls) /\ calls' = SubSeq(calls, 1, m - 1)
    BY <1>1, <1>2 DEF Return
  <2>. QED BY <1>2, <2>1, Prefix
<1>7. PICK x : x = [i \in 0 .. m - 1 |-> d[i]]
  OBVIOUS
<1>8. m \in FuncsIn(calls) /\ d[m] = 0
  BY <1>1, <1>2, <1>5 DEF FuncsIn
<1>. HIDE DEF m
<1>9. \A i \in FuncsIn(calls') : i \in FuncsIn(calls) /\ i - 1 \in 0 .. m - 1 /\ calls'[i] = calls[i] /\ i # m
  BY <1>2, <1>6 DEF FuncsIn, m
<1>10. \A i \in FuncsIn(calls) : i = m \/ (i \in FuncsIn(calls') /\ calls'[i] = calls[i])
  BY <1>2, <1>6 DEF FuncsIn, m
<1>11. Due(calls', x)
  <2>1. x \in [0 .. Len(calls') -> Nat] /\ x[0] = 0
    BY <1>2, <1>5, <1>6, <1>7
  <2>2. ASSUME NEW i \in 1 .. Len(calls')
        PROVE  x[i] = IF calls'[i].kind = "func" THEN 0 ELSE x[i - 1] + Work(calls'[i])
    <3>1. i \in 1 .. m - 1 /\ i \in 1 .. m /\ i \in 0 .. m - 1 /\ i - 1 \in 0 .. m - 1
      BY <1>2, <1>6, <2>2
    <3>. QED BY <1>5, <1>6, <1>7, <3>1
  <2>. QED BY <2>1, <2>2 DEF Due
<1>12. Made'[curFn'] + x[Len(calls')] = Copies(fns[curFn'].body)
  <2>1. m - 1 \in 0 .. m - 1
    BY <1>2
  <2>2. Made[calls[m].fn] + d[m - 1] = Copies(fns[calls[m].fn].body)
    BY <1>4, <1>8 DEF Counts
  <2>. QED BY <1>1, <1>2, <1>3, <1>6, <1>7, <2>1, <2>2
<1>13. ASSUME NEW i \in FuncsIn(calls')
       PROVE  Made'[calls'[i].fn] + x[i - 1] = Copies(fns[calls'[i].fn].body)
  <2>1. Made[calls[i].fn] + d[i - 1] = Copies(fns[calls[i].fn].body)
    BY <1>4, <1>9 DEF Counts
  <2>. QED BY <1>3, <1>7, <1>9, <2>1
<1>14. ASSUME NEW fn \in Fn, fn # curFn', \A i \in FuncsIn(calls') : fn # calls'[i].fn
       PROVE  Made'[fn] = Copies(fns[fn].body)
  <2>1. CASE fn = curFn
    <3>1. Made[curFn] + d[m] = Copies(fns[curFn].body)
      BY <1>4 DEF Counts, m
    <3>2. Made[curFn] \in Nat
      BY <1>2, FS_CardinalityType DEF CopiesInv, Made
    <3>. QED BY <1>3, <1>8, <2>1, <3>1, <3>2
  <2>2. CASE fn # curFn
    <3>1. \A i \in FuncsIn(calls) : fn # calls[i].fn
      BY <1>1, <1>2, <1>10, <1>14
    <3>. QED BY <1>3, <1>4, <2>2, <3>1 DEF Counts
  <2>. QED BY <2>1, <2>2
<1>15. Counts(x)'
  BY <1>1, <1>3, <1>11, <1>12, <1>13, <1>14 DEF Counts
<1>16. (\E e : Counts(e))'
  BY <1>15, CountsNext
<1>. QED BY <1>1, <1>3, <1>16 DEF CopiesInv, BodyCopies

(* The body of the program is complete, and no function is in progress.    *)
LEMMA CopiesFinish == CopiesInv /\ Finish /\ StackInv' => CopiesInv'
<1>. SUFFICES ASSUME CopiesInv, Finish, StackInv' PROVE CopiesInv'
  OBVIOUS
<1>1. /\ Running /\ Len(calls) = 1 /\ Here.kind = "body" /\ Here.rest = << >> /\ Here = calls[1]
      /\ Emit(0, curFn, In(Top, <<Ret>>)) /\ fns' = fns /\ status' = "done"
  BY DEF Finish, Here
<1>2. TypeOK /\ curFn \in Fn
  BY <1>1, InProgress DEF CopiesInv
<1>3. (\A fn \in Fn : IsFiniteSet(Generated(fn)')) /\ Made' = Made /\ Fn' = Fn
  <2>1. \A fn : Generated(fn)' = Generated(fn)
    BY <1>1, <1>2, QuietInstr, EmitsNone
  <2>. QED BY <1>1, <2>1, NoneMade
<1>4. PICK d : Counts(d)
  BY <1>1 DEF CopiesInv
<1>5. d[1] = 0
  <2>1. << >> \in Seq(Stm)
    OBVIOUS
  <2>2. Work(calls[1]) = 0
    BY <1>1, <2>1, CopiesOf DEF Work
  <2>3. d[0] = 0 /\ d[1] = d[0] + Work(calls[1])
    BY <1>1, <1>4 DEF Counts, Due
  <2>. QED BY <2>2, <2>3
<1>6. FuncsIn(calls) = {}
  BY <1>1 DEF FuncsIn
<1>7. ASSUME NEW fn \in Fn PROVE Made[fn] = Copies(fns[fn].body)
  <2>1. CASE fn = curFn
    <3>1. Made[curFn] + d[1] = Copies(fns[curFn].body)
      BY <1>1, <1>4 DEF Counts
    <3>2. Made[curFn] \in Nat
      BY <1>2, FS_CardinalityType DEF CopiesInv, Made
    <3>. QED BY <1>5, <2>1, <3>1, <3>2
  <2>2. CASE fn # curFn
    BY <1>4, <1>6, <2>2 DEF Counts
  <2>. QED BY <2>1, <2>2
<1>8. \A fn \in Fn : Made'[fn] = Cardinality(Generated(fn)')
  BY <1>3 DEF Made
<1>9. BodyCopies'
  BY <1>1, <1>3, <1>7, <1>8 DEF BodyCopies
<1>10. ~Running'
  BY <1>1 DEF Running
<1>. QED BY <1>3, <1>9, <1>10 DEF CopiesInv

LEMMA CopiesUnchanged == CopiesInv /\ (Abort \/ Stopped \/ UNCHANGED vars) /\ StackInv' => CopiesInv'
<1>. SUFFICES ASSUME CopiesInv, Abort \/ Stopped \/ UNCHANGED vars, StackInv' PROVE CopiesInv'
  OBVIOUS
<1>1. /\ UNCHANGED <<code, owner, nblk, fns, curFn, calls>>
      /\ status' = "aborted" \/ status' = status
  BY DEF Abort, Stopped, vars
<1>2. \A fn : Generated(fn)' = Generated(fn)
  BY <1>1 DEF Generated, Block
<1>3. (\A fn \in Fn : IsFiniteSet(Generated(fn)')) /\ Made' = Made /\ Fn' = Fn
  BY <1>1, <1>2, NoneMade
<1>4. CASE status' = "aborted"
  <2>1. ~Running' /\ BodyCopies'
    BY <1>4 DEF Running, BodyCopies
  <2>. QED BY <1>3, <2>1 DEF CopiesInv
<1>5. CASE status' = status
  <2>1. BodyCopies'
    BY <1>1, <1>2, <1>3, <1>5 DEF CopiesInv, BodyCopies
  <2>2. Running' => Running
    BY <1>1, <1>5 DEF Running
  <2>3. ASSUME Running' PROVE (\E d : Counts(d))'
    <3>1. PICK d : Counts(d)
      BY <2>2, <2>3 DEF CopiesInv
    <3>2. Counts(d)'
      BY <1>1, <1>3, <3>1 DEF Counts
    <3>. QED BY <3>2, CountsNext
  <2>. QED BY <1>3, <2>1, <2>3 DEF CopiesInv
<1>. QED BY <1>1, <1>4, <1>5

LEMMA CopiesStep == CopiesInv /\ [Next]_vars => CopiesInv'
<1>. SUFFICES ASSUME CopiesInv, [Next]_vars PROVE CopiesInv'
  OBVIOUS
<1>1. StackInv'
  BY StackStep DEF CopiesInv
<1>. QED BY <1>1, CopiesSimple, CopiesGoto, CopiesIf, CopiesWhile, CopiesRepeat, CopiesFor,
            CopiesThen, CopiesEndFor, CopiesReturned, CopiesFunc, CopiesEndFunc, CopiesFinish,
            CopiesUnchanged DEF Next

LEMMA CopiesInit == Init => CopiesInv
<1>. SUFFICES ASSUME Init PROVE CopiesInv
  OBVIOUS
<1>1. StackInv
  BY StackInit
<1>2. PICK p \in Program : /\ calls = <<BodyFrame(p.body), FuncsFrame(p.funcs)>>
                           /\ fns = <<[entry |-> 1, body |-> p.body]>>
  BY DEF Init
<1>3. PICK q : q = p.body
  OBVIOUS
<1>4. Copies(q) \in Nat
  BY <1>3, ProgramAssumption, CopiesOf
<1>5. /\ Len(calls) = 2 /\ calls[1] = BodyFrame(q) /\ calls[2] = FuncsFrame(p.funcs)
      /\ Fn = {1} /\ fns[1].body = q /\ curFn = 1 /\ status = "running"
  BY <1>2, <1>3 DEF Init, Fn
<1>6. \A fn : Generated(fn) = {}
  BY DEF Init, Generated, Block
<1>7. \A fn \in Fn : IsFiniteSet(Generated(fn)) /\ Made[fn] = 0
  BY <1>6, FS_EmptySet DEF Made
<1>8. FuncsIn(calls) = {}
  BY <1>5 DEF FuncsIn, BodyFrame, FuncsFrame
<1>9. PICK d : d = [i \in 0 .. 2 |-> IF i = 0 THEN 0 ELSE Copies(q)]
  OBVIOUS
<1>10. Due(calls, d)
  <2>1. d \in [0 .. 2 -> Nat] /\ d[0] = 0 /\ d[1] = Copies(q) /\ d[2] = Copies(q)
    BY <1>4, <1>9
  <2>2. /\ calls[1].kind # "func" /\ calls[2].kind # "func"
        /\ Work(calls[1]) = Copies(q) /\ Work(calls[2]) = 0
    BY <1>5, WorkIs DEF BodyFrame, FuncsFrame
  <2>3. \A i \in 1 .. 2 : (i = 1 /\ i - 1 = 0) \/ (i = 2 /\ i - 1 = 1)
    OBVIOUS
  <2>. QED BY <1>4, <1>5, <2>1, <2>2, <2>3 DEF Due
<1>11. Counts(d)
  BY <1>4, <1>5, <1>7, <1>8, <1>9, <1>10 DEF Counts
<1>. QED BY <1>1, <1>5, <1>7, <1>11 DEF CopiesInv, BodyCopies

(* A compiled function has each call and each assignment of its body     *)
(* once, twice for each for statement around it, for all programs: the     *)
(* second body of ForStm::PascalCodeCreate is generated for no other       *)
(* function, and nothing is generated twice or lost on the way.            *)
THEOREM EachCopyGenerated == Spec => []BodyCopies
<1>1. CopiesInv => BodyCopies
  BY DEF CopiesInv
<1>. QED BY <1>1, CopiesInit, CopiesStep, PTL DEF Spec
--------------------------------------------------------------------------------
(* The meaning of the code: an annotation c says for each instruction what *)
(* is still to be run of its function when control comes to it.  `Means'   *)
(* is the invariant of the walk, over the frames in progress.              *)

(* The list to go on with, from the next statement that does something. *)
ToRun(list) == Pascal!Unfold(list)

(* What a list of things to run is made of. *)
Piece == Stm \cup [kind : {"until", "forTest", "forStep"}, of : Stm]

(* Statements are pieces, and a point of a loop is one that is no          *)
(* statement.                                                              *)
LEMMA PieceIs ==
    /\ Pascal!Todo = Seq(Piece)
    /\ Stm \subseteq Piece
    /\ \A s \in Stm :
          /\ s.kind \in Kind /\ s.body \in Seq(Stm) /\ s.alt \in Seq(Stm)
          /\ s.body \in Seq(Piece) /\ s.alt \in Seq(Piece)
    /\ \A p \in {"until", "forTest", "forStep"} : \A s \in Stm :
          /\ Pascal!At(p, s) \in Piece \ Stm
          /\ Pascal!At(p, s).kind = p /\ Pascal!At(p, s).of = s
<1>1. Stm \subseteq Piece
  BY DEF Piece
<1>2. ASSUME NEW s \in Stm
      PROVE  /\ s.kind \in Kind /\ s.body \in Seq(Stm) /\ s.alt \in Seq(Stm)
             /\ s.body \in Seq(Piece) /\ s.alt \in Seq(Piece)
  <2>1. s.kind \in Kind /\ s.body \in Seq(Stm) /\ s.alt \in Seq(Stm)
    BY StmAssumption
  <2>. QED BY <1>1, <2>1, SeqSubset
<1>3. ASSUME NEW p \in {"until", "forTest", "forStep"}, NEW s \in Stm
      PROVE  /\ Pascal!At(p, s) \in Piece \ Stm
             /\ Pascal!At(p, s).kind = p /\ Pascal!At(p, s).of = s
  <2>1. Pascal!At(p, s).kind = p /\ Pascal!At(p, s).of = s /\ Pascal!At(p, s) \in Piece
    BY DEF Pascal!At, Piece
  <2>2. p \notin Kind
    BY DEF Kind
  <2>3. Pascal!At(p, s) \notin Stm
    BY <1>2, <2>1, <2>2
  <2>. QED BY <2>1, <2>3
<1>. QED BY <1>1, <1>2, <1>3 DEF Pascal!Todo, Piece

(* Two lists together count as much as each. *)
LEMMA TotalOfBoth ==
    ASSUME NEW S, NEW f, \A s \in S : f[s] \in Nat, NEW b \in Seq(S)
    PROVE  \A a \in Seq(S) : /\ Total(f, a) \in Nat
                             /\ Total(f, a \o b) = Total(f, a) + Total(f, b)
<1>1. \A q \in Seq(S) : Total(f, q) \in Nat
  <2>1. SUFFICES ASSUME NEW q \in Seq(S) PROVE Total(f, q) \in Nat
    OBVIOUS
  <2>2. Countable(f, q)
    BY DEF Countable
  <2>. QED BY <2>2, SameTotal
<1>. DEFINE Bad == {n \in Nat : \E a \in Seq(S) :
                       Len(a) = n /\ Total(f, a \o b) # Total(f, a) + Total(f, b)}
<1>2. Bad = {}
  <2>1. SUFFICES ASSUME Bad # {} PROVE FALSE
    OBVIOUS
  <2>2. PICK n \in Bad : \A k \in Bad : n <= k
    <3>1. Bad \subseteq Nat
      OBVIOUS
    <3>. HIDE DEF Bad
    <3>. QED BY <2>1, <3>1, Least
  <2>3. PICK a \in Seq(S) : Len(a) = n /\ Total(f, a \o b) # Total(f, a) + Total(f, b)
    BY <2>2
  <2>4. a # << >>
    <3>1. SUFFICES ASSUME a = << >> PROVE FALSE
      OBVIOUS
    <3>2. a \o b = b
      BY <3>1
    <3>3. Total(f, a) = 0
      BY <3>1, TotalOfList
    <3>. QED BY <1>1, <2>3, <3>2, <3>3
  <2>5. PICK r : r = Tail(a)
    OBVIOUS
  <2>6. PICK w : w = a \o b
    OBVIOUS
  <2>7. /\ r \in Seq(S) /\ Len(r) = n - 1 /\ Len(r) \in Nat /\ ~(n <= Len(r))
        /\ w \in Seq(S) /\ w # << >> /\ w[1] = a[1] /\ Tail(w) = r \o b
        /\ a[1] \in S
    BY <2>3, <2>4, <2>5, <2>6
  <2>8. Total(f, r \o b) = Total(f, r) + Total(f, b)
    BY <2>2, <2>7
  <2>9. Total(f, a) = f[a[1]] + Total(f, r) /\ Total(f, w) = f[a[1]] + Total(f, r \o b)
    BY <2>4, <2>5, <2>7, TotalOfList
  <2>10. f[a[1]] \in Nat /\ Total(f, r) \in Nat /\ Total(f, b) \in Nat
    BY <1>1, <2>7
  <2>11. Total(f, w) # Total(f, a) + Total(f, b)
    BY <2>3, <2>6
  <2>. QED BY <2>8, <2>9, <2>10, <2>11
<1>3. ASSUME NEW a \in Seq(S) PROVE Total(f, a \o b) = Total(f, a) + Total(f, b)
  <2>1. Len(a) \in Nat /\ Len(a) \notin Bad
    BY <1>2
  <2>. QED BY <2>1
<1>. QED BY <1>1, <1>3

(* Statements have sizes such that a repeat is larger than what it unfolds *)
(* to.                                                                     *)
LEMMA SizesExist ==
    \E z : /\ \A x \in Piece : z[x] \in Nat /\ z[x] > 0
           /\ \A s \in Stm : z[s] = 2 + Total(z, s.body)
           /\ \A x \in Piece \ Stm : z[x] = 1
<1>. DEFINE B == [s \in Stm |-> [g \in [Stm -> Nat] |-> 2 + Total(g, s.body)]]
<1>1. ASSUME NEW s \in Stm, NEW g, \A t \in Stm : Height[t] < Height[s] => g[t] \in Nat
      PROVE  Countable(g, s.body) /\ Total(g, s.body) \in Nat
  <2>1. Countable(g, s.body)
    BY <1>1, PartsAre DEF Countable
  <2>. QED BY <2>1, SameTotal
<1>2. B \in [Stm -> [[Stm -> Nat] -> Nat]]
  <2>1. ASSUME NEW s \in Stm, NEW g \in [Stm -> Nat] PROVE 2 + Total(g, s.body) \in Nat
    <3>1. Total(g, s.body) \in Nat
      BY <1>1
    <3>. QED BY <3>1
  <2>. QED BY <2>1
<1>3. Recursion(Stm, Nat, Height, B)
  <2>1. ASSUME NEW s \in Stm, NEW f \in [Stm -> Nat], NEW g \in [Stm -> Nat],
               \A t \in Stm : Height[t] < Height[s] => f[t] = g[t]
        PROVE  B[s][f] = B[s][g]
    <3>1. Countable(f, s.body)
      BY <1>1
    <3>2. \A k \in 1 .. Len(s.body) : f[s.body[k]] = g[s.body[k]]
      BY <2>1, PartsAre
    <3>3. Total(g, s.body) = Total(f, s.body)
      BY <3>1, <3>2, SameTotal
    <3>. QED BY <3>3
  <2>. HIDE DEF B
  <2>. QED BY <1>2, <2>1, HeightAssumption DEF Recursion
<1>4. PICK w \in [Stm -> Nat] : \A s \in Stm : w[s] = B[s][w]
  <2>. HIDE DEF B
  <2>. QED BY <1>3, RecursionExists
<1>5. PICK z : z = [x \in Piece |-> IF x \in Stm THEN w[x] ELSE 1]
  OBVIOUS
<1>6. ASSUME NEW s \in Stm PROVE z[s] = w[s] /\ z[s] = 2 + Total(z, s.body) /\ z[s] \in Nat /\ z[s] > 0
  <2>1. z[s] = w[s] /\ w[s] = 2 + Total(w, s.body)
    BY <1>4, <1>5, PieceIs
  <2>2. Countable(w, s.body) /\ Total(w, s.body) \in Nat
    BY <1>1
  <2>3. \A k \in 1 .. Len(s.body) : w[s.body[k]] = z[s.body[k]]
    BY <1>5, PartsAre, PieceIs
  <2>4. Total(z, s.body) = Total(w, s.body)
    BY <2>2, <2>3, SameTotal
  <2>. QED BY <2>1, <2>2, <2>4
<1>7. \A x \in Piece \ Stm : z[x] = 1
  BY <1>5
<1>. QED BY <1>6, <1>7

(* The recursion in Unfold has a value. *)
LEMMA UnfoldIs ==
    \A l \in Pascal!Todo :
        /\ l = << >> => ToRun(l) = l
        /\ l # << >> =>
              /\ l[1].kind = "goto" => ToRun(l) = ToRun(Tail(l))
              /\ l[1].kind = "repeat" =>
                    ToRun(l) = ToRun(l[1].body \o <<Pascal!At("until", l[1])>> \o Tail(l))
              /\ l[1].kind \notin {"goto", "repeat"} => ToRun(l) = l
<1>. DEFINE T == Pascal!Todo
            next(l) == l[1].body \o <<Pascal!At("until", l[1])>> \o Tail(l)
            Def(g) ==
                [l \in T |-> IF l = << >> THEN l
                             ELSE IF l[1].kind = "goto" THEN g[Tail(l)]
                             ELSE IF l[1].kind = "repeat" THEN g[next(l)]
                             ELSE l]
            unfold == CHOOSE g : g = Def(g)
            B == [l \in T |-> [g \in [T -> T] |->
                    IF l = << >> THEN l
                    ELSE IF l[1].kind = "goto" THEN g[Tail(l)]
                    ELSE IF l[1].kind = "repeat" THEN g[next(l)]
                    ELSE l]]
<1>1. PICK z : /\ \A x \in Piece : z[x] \in Nat /\ z[x] > 0
               /\ \A s \in Stm : z[s] = 2 + Total(z, s.body)
               /\ \A x \in Piece \ Stm : z[x] = 1
  BY SizesExist
<1>2. PICK rank : rank = [l \in T |-> Total(z, l)]
  OBVIOUS
<1>3. T = Seq(Piece)
  BY PieceIs
<1>4. \A l \in T : Total(z, l) \in Nat
  BY <1>1, <1>3, TotalOfBoth
<1>5. ASSUME NEW l \in T, l # << >>
      PROVE  /\ Tail(l) \in T /\ rank[Tail(l)] < rank[l]
             /\ l[1].kind = "repeat" => next(l) \in T /\ rank[next(l)] < rank[l]
  <2>1. PICK s, r : s = l[1] /\ r = Tail(l)
    OBVIOUS
  <2>2. s \in Piece /\ r \in T
    BY <1>3, <1>5, <2>1
  <2>3. Total(z, l) = z[s] + Total(z, r) /\ z[s] \in Nat /\ z[s] > 0
    BY <1>1, <1>3, <1>5, <2>1, <2>2, TotalOfList
  <2>4. Total(z, r) \in Nat
    BY <1>4, <2>2
  <2>5. ASSUME s.kind = "repeat"
        PROVE  /\ s.body \o <<Pascal!At("until", s)>> \o r \in T
               /\ Total(z, s.body \o <<Pascal!At("until", s)>> \o r) < Total(z, l)
    <3>1. s \in Stm
      BY <2>2, <2>5 DEF Piece
    <3>2. PICK p : p = Pascal!At("until", s)
      OBVIOUS
    <3>3. p \in Piece /\ p \notin Stm /\ s.body \in Seq(Piece) /\ s.body \in T
      BY <1>3, <3>1, <3>2, PieceIs
    <3>4. PICK a, b : a = <<p>> /\ b = s.body \o a
      OBVIOUS
    <3>5. a \in Seq(Piece) /\ a # << >> /\ a[1] = p /\ Tail(a) = << >> /\ << >> \in Seq(Piece)
      BY <3>3, <3>4
    <3>6. b \in Seq(Piece) /\ b \o r \in Seq(Piece)
      BY <1>3, <2>2, <3>3, <3>4, <3>5
    <3>7. Total(z, a) = 1
      <4>1. Total(z, a) = z[p] + Total(z, << >>) /\ Total(z, << >>) = 0
        BY <1>1, <3>5, TotalOfList
      <4>. QED BY <1>1, <3>3, <4>1
    <3>8. Total(z, b) = Total(z, s.body) + Total(z, a)
      <4>1. \A x \in Piece : z[x] \in Nat
        BY <1>1
      <4>2. Total(z, s.body \o a) = Total(z, s.body) + Total(z, a)
        BY <3>3, <3>5, <4>1, TotalOfBoth
      <4>. QED BY <3>4, <4>2
    <3>9. Total(z, b \o r) = Total(z, b) + Total(z, r)
      <4>1. r \in Seq(Piece) /\ \A x \in Piece : z[x] \in Nat
        BY <1>1, <1>3, <2>2
      <4>. QED BY <3>6, <4>1, TotalOfBoth
    <3>10. z[s] = 2 + Total(z, s.body) /\ Total(z, s.body) \in Nat
      BY <1>1, <1>4, <3>1, <3>3
    <3>11. Total(z, b \o r) < Total(z, l)
      BY <2>3, <2>4, <3>7, <3>8, <3>9, <3>10
    <3>. QED BY <1>3, <3>2, <3>4, <3>6, <3>11
  <2>6. Total(z, r) < Total(z, l)
    BY <2>3, <2>4
  <2>. QED BY <1>2, <1>5, <2>1, <2>2, <2>5, <2>6
<1>6. B \in [T -> [[T -> T] -> T]]
  <2>1. ASSUME NEW l \in T, NEW g \in [T -> T]
        PROVE  (IF l = << >> THEN l
                ELSE IF l[1].kind = "goto" THEN g[Tail(l)]
                ELSE IF l[1].kind = "repeat" THEN g[next(l)]
                ELSE l) \in T
    <3>. HIDE DEF T, next
    <3>. QED BY <1>5
  <2>. HIDE DEF T, next
  <2>. QED BY <2>1
<1>7. Recursion(T, T, rank, B)
  <2>1. ASSUME NEW l \in T, NEW f \in [T -> T], NEW g \in [T -> T],
               \A t \in T : rank[t] < rank[l] => f[t] = g[t]
        PROVE  B[l][f] = B[l][g]
    <3>1. l # << >> => f[Tail(l)] = g[Tail(l)] /\ (l[1].kind = "repeat" => f[next(l)] = g[next(l)])
      <4>. HIDE DEF T, next
      <4>. QED BY <1>5, <2>1
    <3>. HIDE DEF T, next
    <3>. QED BY <3>1
  <2>2. rank \in [T -> Nat]
    BY <1>2, <1>4
  <2>. HIDE DEF B, T
  <2>. QED BY <1>6, <2>1, <2>2 DEF Recursion
<1>8. PICK g \in [T -> T] : \A l \in T : g[l] = B[l][g]
  <2>1. << >> \in T
    BY <1>3
  <2>. HIDE DEF B, T
  <2>. QED BY <1>7, <2>1, RecursionExists
<1>9. g = Def(g)
  <2>. HIDE DEF T, next
  <2>. QED BY <1>8
<1>10. unfold = Def(unfold)
  <2>. HIDE DEF Def
  <2>. QED BY <1>9
<1>11. \A l : ToRun(l) = unfold[l]
  BY DEF ToRun, Pascal!Unfold
<1>. HIDE DEF unfold
<1>12. \A l \in T : unfold[l] = IF l = << >> THEN l
                               ELSE IF l[1].kind = "goto" THEN unfold[Tail(l)]
                               ELSE IF l[1].kind = "repeat" THEN unfold[next(l)]
                               ELSE l
  <2>. HIDE DEF T, next
  <2>. QED BY <1>10
<1>. QED BY <1>11, <1>12

(* The list l is statement s and r. *)
Begins(l, s, r) ==
    l \in Pascal!Todo /\ l # << >> /\ s \in Stm /\ l[1] = s /\ r = Tail(l)

(* An assignment may come next, with `next' to be run after it. *)
Assigned(op, id, now, next) ==
    LET e == Pascal!Assign(op, id) IN
    e \in Pascal!Events(now) /\ next = Pascal!After(now, e)

(* A test comes next, with `yes' or `no' to be run after it. *)
Tested(id, now, yes, no) ==
    /\ \A out \in BOOLEAN : Pascal!Test(id, out) \in Pascal!Events(now)
    /\ yes = Pascal!After(now, Pascal!Test(id, TRUE))
    /\ no = Pascal!After(now, Pascal!Test(id, FALSE))

(* The events of a list with a given first statement or point, and what is *)
(* left of it then.                                                        *)
LEMMA AfterStatement ==
    ASSUME NEW l, NEW s, NEW r, Begins(l, s, r)
    PROVE  /\ s.kind = "simple" => Assigned("do", s.id, l, ToRun(r))
           /\ s.kind = "for" => Assigned("init", s.id, l, <<Pascal!At("forTest", s)>> \o r)
           /\ s.kind = "if" => Tested(s.id, l, ToRun(s.body \o r), ToRun(s.alt \o r))
           /\ s.kind = "while" => Tested(s.id, l, ToRun(s.body \o l), ToRun(r))
<1>. USE DEF Begins
<1>1. r \in Pascal!Todo /\ l \in Seq(Piece) /\ r \in Seq(Piece)
  BY PieceIs
<1>2. s.kind = "simple" =>
         LET e == Pascal!Assign("do", s.id) IN
         e \in Pascal!Events(l) /\ Pascal!After(l, e) = ToRun(r)
  BY DEF Pascal!Events, Pascal!After, Pascal!Assign, ToRun
<1>3. ASSUME s.kind = "for", NEW e, e = Pascal!Assign("init", s.id)
      PROVE  /\ e \in Pascal!Events(l)
             /\ Pascal!After(l, e) = <<Pascal!At("forTest", s)>> \o r
  <2>1. e \in Pascal!Events(l)
    BY <1>3 DEF Pascal!Events
  <2>2. PICK q : q = <<Pascal!At("forTest", s)>> \o r
    OBVIOUS
  <2>3. q \in Pascal!Todo /\ q # << >> /\ q[1].kind = "forTest"
    <3>1. Pascal!At("forTest", s) \in Piece /\ Pascal!At("forTest", s).kind = "forTest"
      BY PieceIs
    <3>2. q \in Seq(Piece) /\ q # << >> /\ q[1] = Pascal!At("forTest", s)
      BY <1>1, <2>2, <3>1
    <3>. QED BY <3>1, <3>2, PieceIs
  <2>4. ToRun(q) = q
    BY <2>3, UnfoldIs
  <2>5. Pascal!After(l, e) = ToRun(q)
    BY <1>3, <2>2 DEF Pascal!After, ToRun
  <2>. QED BY <2>1, <2>2, <2>4, <2>5
<1>4. ASSUME s.kind \in {"if", "while"}, NEW out \in BOOLEAN
      PROVE  Pascal!Test(s.id, out) \in Pascal!Events(l)
  BY <1>4 DEF Pascal!Events
<1>5. ASSUME NEW out \in BOOLEAN PROVE Pascal!Test(s.id, out).out = out
  BY DEF Pascal!Test
<1>6. ASSUME NEW e, s.kind = "if"
      PROVE  Pascal!After(l, e) = ToRun((IF e.out THEN s.body ELSE s.alt) \o r)
  BY <1>6 DEF Pascal!After, ToRun
<1>7. ASSUME NEW e, s.kind = "while"
      PROVE  Pascal!After(l, e) = ToRun(IF e.out THEN s.body \o l ELSE r)
  BY <1>7 DEF Pascal!After, ToRun
<1>8. s.kind = "if" =>
         /\ Pascal!After(l, Pascal!Test(s.id, TRUE)) = ToRun(s.body \o r)
         /\ Pascal!After(l, Pascal!Test(s.id, FALSE)) = ToRun(s.alt \o r)
  BY <1>5, <1>6
<1>9. s.kind = "while" =>
         /\ Pascal!After(l, Pascal!Test(s.id, TRUE)) = ToRun(s.body \o l)
         /\ Pascal!After(l, Pascal!Test(s.id, FALSE)) = ToRun(r)
  BY <1>5, <1>7
<1>10. s.kind = "for" => Assigned("init", s.id, l, <<Pascal!At("forTest", s)>> \o r)
  BY <1>3 DEF Assigned
<1>11. s.kind = "simple" => Assigned("do", s.id, l, ToRun(r))
  BY <1>2 DEF Assigned
<1>12. s.kind = "if" => Tested(s.id, l, ToRun(s.body \o r), ToRun(s.alt \o r))
  BY <1>4, <1>8 DEF Tested
<1>13. s.kind = "while" => Tested(s.id, l, ToRun(s.body \o l), ToRun(r))
  BY <1>4, <1>9 DEF Tested
<1>. QED BY <1>10, <1>11, <1>12, <1>13

(* The same for a loop in progress. *)
LEMMA AfterPoint ==
    ASSUME NEW r \in Pascal!Todo, NEW s \in Stm, NEW p \in {"until", "forTest", "forStep"},
           NEW l, l = <<Pascal!At(p, s)>> \o r
    PROVE  /\ l \in Pascal!Todo /\ ToRun(l) = l
           /\ p = "forStep" => Assigned("step", s.id, l, <<Pascal!At("forTest", s)>> \o r)
           /\ p = "until" => Tested(s.id, l, ToRun(r), ToRun(s.body \o l))
           /\ p = "forTest" =>
                 Tested(s.id, l, ToRun(s.body \o r), ToRun(s.body \o <<Pascal!At("forStep", s)>> \o r))
<1>1. ASSUME NEW q \in {"until", "forTest", "forStep"}, NEW a, a = <<Pascal!At(q, s)>> \o r
      PROVE  /\ a \in Pascal!Todo /\ a # << >> /\ a[1].kind = q /\ a[1].of = s /\ Tail(a) = r
             /\ ToRun(a) = a
  <2>1. PICK x : x = Pascal!At(q, s)
    OBVIOUS
  <2>2. x \in Piece /\ x.kind = q /\ x.of = s
    BY <2>1, PieceIs
  <2>3. r \in Seq(Piece) /\ a = <<x>> \o r
    BY <1>1, <2>1, PieceIs
  <2>4. a \in Seq(Piece) /\ a # << >> /\ a[1] = x /\ Tail(a) = r
    BY <2>2, <2>3
  <2>5. a \in Pascal!Todo /\ a[1].kind \notin {"goto", "repeat"}
    BY <2>2, <2>4, PieceIs
  <2>6. ToRun(a) = a
    BY <2>4, <2>5, UnfoldIs
  <2>. QED BY <2>2, <2>4, <2>5, <2>6
<1>2. l \in Pascal!Todo /\ l # << >> /\ l[1].kind = p /\ l[1].of = s /\ Tail(l) = r /\ ToRun(l) = l
  BY <1>1
<1>3. ASSUME p = "forStep", NEW e, e = Pascal!Assign("step", s.id)
      PROVE  /\ e \in Pascal!Events(l)
             /\ Pascal!After(l, e) = <<Pascal!At("forTest", s)>> \o r
  <2>1. e \in Pascal!Events(l)
    BY <1>2, <1>3 DEF Pascal!Events
  <2>2. Pascal!After(l, e) = ToRun(<<Pascal!At("forTest", s)>> \o r)
    BY <1>2, <1>3 DEF Pascal!After, ToRun
  <2>. QED BY <1>1, <2>1, <2>2
<1>4. ASSUME p # "forStep", NEW out \in BOOLEAN
      PROVE  Pascal!Test(s.id, out) \in Pascal!Events(l)
  BY <1>2, <1>4 DEF Pascal!Events
<1>5. ASSUME NEW out \in BOOLEAN PROVE Pascal!Test(s.id, out).out = out
  BY DEF Pascal!Test
<1>6. ASSUME NEW e, p = "until"
      PROVE  Pascal!After(l, e) = ToRun(IF e.out THEN r ELSE s.body \o l)
  BY <1>2, <1>6 DEF Pascal!After, ToRun
<1>7. ASSUME NEW e, p = "forTest"
      PROVE  Pascal!After(l, e) = ToRun(IF e.out THEN s.body \o r
                                    ELSE s.body \o <<Pascal!At("forStep", s)>> \o r)
  BY <1>2, <1>7 DEF Pascal!After, ToRun
<1>8. p = "until" =>
         /\ Pascal!After(l, Pascal!Test(s.id, TRUE)) = ToRun(r)
         /\ Pascal!After(l, Pascal!Test(s.id, FALSE)) = ToRun(s.body \o l)
  BY <1>5, <1>6
<1>9. p = "forTest" =>
         /\ Pascal!After(l, Pascal!Test(s.id, TRUE)) = ToRun(s.body \o r)
         /\ Pascal!After(l, Pascal!Test(s.id, FALSE))
               = ToRun(s.body \o <<Pascal!At("forStep", s)>> \o r)
  BY <1>5, <1>7
<1>10. p = "forStep" => Assigned("step", s.id, l, <<Pascal!At("forTest", s)>> \o r)
  BY <1>3 DEF Assigned
<1>11. p = "until" => Tested(s.id, l, ToRun(r), ToRun(s.body \o l))
  BY <1>4, <1>8 DEF Tested
<1>12. p = "forTest" =>
          Tested(s.id, l, ToRun(s.body \o r), ToRun(s.body \o <<Pascal!At("forStep", s)>> \o r))
  BY <1>4, <1>9 DEF Tested
<1>. QED BY <1>2, <1>10, <1>11, <1>12

(* c[b][i]: what is still to be run when control is at instruction i of b. *)
Runs(in, now, next, c) ==
    /\ in.op \in {"do", "init", "step"} => Assigned(in.op, in.id, now, next)
    /\ in.op = "br" => c[in.to][1] = now
    /\ in.op = "cbr" => Tested(in.id, now, c[in.yes][1], c[in.no][1])
    /\ in.op = "ret" => now = << >>

(* The code cd does what c says. *)
Follows(cd, c) ==
    \A b \in DOMAIN cd : \A i \in 1 .. Len(cd[b]) : Runs(cd[b][i], c[b][i], c[b][i + 1], c)

(* An empty block, from which v is to be run. *)
Awaits(cd, c, b, v) == cd[b] = << >> /\ c[b][1] = v

(* A handler that was called where r was to be run after it and that now   *)
(* waits where k is: the blocks it knows are annotated so.                 *)
Waits(cd, c, fr, r, k) ==
    /\ fr.kind = "body" => k = fr.rest \o r
    /\ fr.kind \in {"funcs", "then", "else"} => k = r
    /\ fr.kind = "then" => Awaits(cd, c, fr.no, ToRun(fr.node.alt \o r))
    /\ fr.kind \in {"then", "else"} => Awaits(cd, c, fr.merge, ToRun(r))
    /\ fr.kind = "while" => c[fr.start][1] = ToRun(k) /\ Awaits(cd, c, fr.exit, ToRun(r))
    /\ fr.kind = "repeat" =>
          /\ k = <<Pascal!At("until", fr.node)>> \o r
          /\ c[fr.loop][1] = ToRun(fr.node.body \o k)
    /\ fr.kind = "for" =>
          /\ k = <<Pascal!At("forStep", fr.node)>> \o r
          /\ c[fr.start][1] = <<Pascal!At("forTest", fr.node)>> \o r
          /\ Awaits(cd, c, fr.exit, ToRun(fr.node.body \o r))
    /\ fr.kind = "func" => k = << >> /\ c[fr.blk][Len(cd[fr.blk]) + 1] = ToRun(r)

(* k[i]: what is to be run when frame i goes on; on top, the last of them. *)
Chain(cd, cs, top, c, k) ==
    /\ k \in [0 .. Len(cs) -> Pascal!Todo] /\ k[0] = << >>
    /\ \A i \in 1 .. Len(cs) : Waits(cd, c, cs[i], k[i - 1], k[i])
    /\ c[top][Len(cd[top]) + 1] = ToRun(k[Len(cs)])

(* d says the same as c of the code cd. *)
Extends(cd, c, d) == \A b \in DOMAIN cd : \A i \in 1 .. Len(cd[b]) + 1 : d[b][i] = c[b][i]

(* cd1 is the code cd of the blocks B with `out' added, for the blocks B1. *)
Grows(B, cd, B1, cd1, out) ==
    /\ B \subseteq B1
    /\ cd \in [B -> Seq(Instr(B))] /\ cd1 \in [B1 -> Seq(Instr(B1))]
    /\ \A b \in DOMAIN out : b \in B1 /\ out[b] \in Seq(Instr(B1))
    /\ \A b \in B : cd1[b] = IF b \in DOMAIN out THEN cd[b] \o out[b] ELSE cd[b]
    /\ \A b \in B1 \ B : cd1[b] = IF b \in DOMAIN out THEN out[b] ELSE << >>

(* The added code does what d says. *)
Does(B, cd, out, d) ==
    \A b \in DOMAIN out :
        LET n == IF b \in B THEN Len(cd[b]) ELSE 0 IN
        \A j \in 1 .. Len(out[b]) : Runs(out[b][j], d[b][n + j], d[b][n + j + 1], d)

(* What an instruction does depends on the annotations of its targets      *)
(* only.                                                                   *)
LEMMA RunsStill ==
    ASSUME NEW B, NEW in \in Instr(B), NEW now, NEW next, NEW c, NEW d,
           Runs(in, now, next, c), \A b \in B : d[b][1] = c[b][1]
    PROVE  Runs(in, now, next, d)
<1>1. /\ in.op = "br" => in.to \in B
      /\ in.op = "cbr" => in.yes \in B /\ in.no \in B
  BY DEF Instr
<1>. QED BY <1>1 DEF Runs

(* Code that is added and does what it is said to do: all of the code      *)
(* does.                                                                   *)
LEMMA FollowsOn ==
    ASSUME NEW B, NEW B1, NEW cd, NEW cd1, NEW out, Grows(B, cd, B1, cd1, out),
           NEW c, NEW d, Follows(cd, c), Extends(cd, c, d), Does(B, cd, out, d)
    PROVE  Follows(cd1, d)
<1>1. DOMAIN cd = B /\ DOMAIN cd1 = B1 /\ B \subseteq B1
  BY DEF Grows
<1>2. \A b \in B : cd[b] \in Seq(Instr(B)) /\ Len(cd[b]) \in Nat
  BY DEF Grows
<1>3. ASSUME NEW b \in B PROVE d[b][1] = c[b][1]
  <2>1. 1 \in 1 .. Len(cd[b]) + 1
    BY <1>2
  <2>. QED BY <1>1, <2>1 DEF Extends
<1>4. ASSUME NEW b \in B, NEW i \in 1 .. Len(cd[b])
      PROVE  Runs(cd[b][i], d[b][i], d[b][i + 1], d)
  <2>1. cd[b][i] \in Instr(B)
    BY <1>2
  <2>2. Runs(cd[b][i], c[b][i], c[b][i + 1], c)
    BY <1>1 DEF Follows
  <2>3. i \in 1 .. Len(cd[b]) + 1 /\ i + 1 \in 1 .. Len(cd[b]) + 1
    BY <1>2
  <2>4. d[b][i] = c[b][i] /\ d[b][i + 1] = c[b][i + 1]
    BY <1>1, <2>3 DEF Extends
  <2>. QED BY <1>3, <2>1, <2>2, <2>4, RunsStill
<1>5. ASSUME NEW b \in B1, NEW i \in 1 .. Len(cd1[b])
      PROVE  Runs(cd1[b][i], d[b][i], d[b][i + 1], d)
  <2>1. CASE b \in B /\ b \notin DOMAIN out
    BY <1>4, <2>1 DEF Grows
  <2>2. CASE b \notin B /\ b \notin DOMAIN out
    <3>1. cd1[b] = << >>
      BY <2>2 DEF Grows
    <3>. QED BY <3>1
  <2>3. CASE b \in B /\ b \in DOMAIN out
    <3>1. cd1[b] = cd[b] \o out[b] /\ cd[b] \in Seq(Instr(B)) /\ out[b] \in Seq(Instr(B1))
      BY <1>2, <2>3 DEF Grows
    <3>2. PICK p, q : p = cd[b] /\ q = out[b]
      OBVIOUS
    <3>3. PICK n : n = Len(p)
      OBVIOUS
    <3>4. p \in Seq(Instr(B1)) /\ q \in Seq(Instr(B1)) /\ n \in Nat /\ Len(q) \in Nat
      <4>1. Instr(B) \subseteq Instr(B1)
        BY <1>1, InstrMonotonic
      <4>. QED BY <3>1, <3>2, <3>3, <4>1, SeqSubset
    <3>5. /\ i \in 1 .. n + Len(q)
          /\ i <= n => (p \o q)[i] = p[i]
          /\ i > n => (p \o q)[i] = q[i - n]
      <4>1. Len(p \o q) = n + Len(q)
        BY <3>3, <3>4
      <4>2. i \in 1 .. n + Len(q)
        BY <3>1, <3>2, <4>1
      <4>. QED BY <3>3, <3>4, <4>2
    <3>6. CASE i <= n
      <4>1. i \in 1 .. Len(cd[b])
        BY <3>2, <3>3, <3>4, <3>5, <3>6
      <4>2. cd1[b][i] = cd[b][i]
        BY <3>1, <3>2, <3>5, <3>6
      <4>. QED BY <1>4, <2>3, <4>1, <4>2
    <3>7. CASE i > n
      <4>1. PICK j : j = i - n
        OBVIOUS
      <4>2. j \in 1 .. Len(q) /\ n + j = i
        BY <3>4, <3>5, <3>7, <4>1
      <4>3. cd1[b][i] = q[j]
        BY <3>1, <3>2, <3>5, <3>7, <4>1
      <4>4. Runs(out[b][j], d[b][n + j], d[b][n + j + 1], d)
        BY <2>3, <3>2, <3>3, <4>2 DEF Does
      <4>. QED BY <3>2, <4>2, <4>3, <4>4
    <3>8. i <= n \/ i > n
      BY <3>4, <3>5
    <3>. QED BY <3>6, <3>7, <3>8
  <2>4. CASE b \notin B /\ b \in DOMAIN out
    <3>1. cd1[b] = out[b]
      BY <2>4 DEF Grows
    <3>2. Runs(out[b][i], d[b][0 + i], d[b][0 + i + 1], d)
      BY <2>4, <3>1 DEF Does
    <3>3. 0 + i = i
      OBVIOUS
    <3>. QED BY <3>1, <3>2, <3>3
  <2>. QED BY <2>1, <2>2, <2>3, <2>4
<1>. QED BY <1>1, <1>5 DEF Follows

(* A handler goes on waiting as long as nothing is added to its blocks.    *)
LEMMA WaitsStill ==
    ASSUME NEW B, NEW F, NEW fr \in Frame(B, F), NEW cd, DOMAIN cd = B,
           \A b \in B : Len(cd[b]) \in Nat,
           NEW cd1, \A b \in Pending(fr) : cd1[b] = cd[b],
           NEW c, NEW d, Extends(cd, c, d), NEW r, NEW k, Waits(cd, c, fr, r, k)
    PROVE  Waits(cd1, d, fr, r, k)
<1>1. ASSUME NEW b \in B
      PROVE  d[b][1] = c[b][1] /\ d[b][Len(cd[b]) + 1] = c[b][Len(cd[b]) + 1]
  <2>1. 1 \in 1 .. Len(cd[b]) + 1 /\ Len(cd[b]) + 1 \in 1 .. Len(cd[b]) + 1
    OBVIOUS
  <2>. QED BY <2>1 DEF Extends
<1>2. /\ fr.kind = "then" => fr.no \in B /\ fr.merge \in B /\ Pending(fr) = {fr.no, fr.merge}
      /\ fr.kind = "else" => fr.merge \in B /\ Pending(fr) = {fr.merge}
      /\ fr.kind \in {"while", "for"} => fr.start \in B /\ fr.exit \in B /\ Pending(fr) = {fr.exit}
      /\ fr.kind = "repeat" => fr.loop \in B
      /\ fr.kind = "func" => fr.blk \in B /\ Pending(fr) = {fr.blk}
  BY DEF Frame, Pending
<1>3. fr.kind = "then" => Waits(cd1, d, fr, r, k)
  BY <1>1, <1>2 DEF Waits, Awaits
<1>4. fr.kind = "else" => Waits(cd1, d, fr, r, k)
  BY <1>1, <1>2 DEF Waits, Awaits
<1>5. fr.kind = "while" => Waits(cd1, d, fr, r, k)
  BY <1>1, <1>2 DEF Waits, Awaits
<1>6. fr.kind = "for" => Waits(cd1, d, fr, r, k)
  BY <1>1, <1>2 DEF Waits, Awaits
<1>7. fr.kind = "repeat" => Waits(cd1, d, fr, r, k)
  BY <1>1, <1>2 DEF Waits
<1>8. fr.kind = "func" => Waits(cd1, d, fr, r, k)
  BY <1>1, <1>2 DEF Waits
<1>9. fr.kind \in {"body", "funcs"} => Waits(cd1, d, fr, r, k)
  BY DEF Waits
<1>10. fr.kind \in {"body", "funcs", "then", "else", "while", "repeat", "for", "func"}
  BY DEF Frame
<1>. QED BY <1>3, <1>4, <1>5, <1>6, <1>7, <1>8, <1>9, <1>10

(* The frames from the last of cs on are new in es, and x is to be run     *)
(* when they go on.                                                        *)
Renews(cs, es, x, k) ==
    /\ Len(cs) \in Nat /\ Len(cs) > 0
    /\ x \in Seq(Pascal!Todo)
    /\ Len(es) = Len(cs) - 1 + Len(x)
    /\ \A i \in 1 .. Len(cs) - 1 : es[i] = cs[i]

(* What is to be run where the frame above the j-th new one returns to. *)
Under(x, j, k) == IF j = 0 THEN k ELSE x[j]

(* From the frames cs on cd to the frames es on cd1. *)
ChainStep(B, F, cs, cd, cd1, c, d, k, es, x, top1) ==
    /\ cs \in Seq(Frame(B, F)) /\ DOMAIN cd = B /\ \A b \in B : Len(cd[b]) \in Nat
    /\ \A i \in 1 .. Len(cs) - 1 : \A b \in Pending(cs[i]) : cd1[b] = cd[b]
    /\ Extends(cd, c, d)
    /\ Renews(cs, es, x, k)
    /\ \A j \in 1 .. Len(x) :
          Waits(cd1, d, es[Len(cs) - 1 + j], Under(x, j - 1, k[Len(cs) - 1]), x[j])
    /\ d[top1][Len(cd1[top1]) + 1] = ToRun(Under(x, Len(x), k[Len(cs) - 1]))

(* The chain of what is to be run goes on through the new frames. *)
LEMMA ChainOn ==
    ASSUME NEW B, NEW F, NEW cs, NEW cd, NEW cd1, NEW c, NEW d, NEW k, NEW es, NEW x, NEW top1,
           ChainStep(B, F, cs, cd, cd1, c, d, k, es, x, top1),
           NEW top, Chain(cd, cs, top, c, k)
    PROVE  \E kk : Chain(cd1, es, top1, d, kk)
<1>. USE DEF ChainStep
<1>1. PICK m : m = Len(cs)
  OBVIOUS
<1>2. PICK n : n = Len(x)
  OBVIOUS
<1>3. /\ m \in Nat /\ m > 0 /\ n \in Nat /\ x \in Seq(Pascal!Todo) /\ Len(es) = m - 1 + n
      /\ \A i \in 1 .. m - 1 : es[i] = cs[i]
  BY <1>1, <1>2 DEF Renews
<1>4. /\ k \in [0 .. m -> Pascal!Todo] /\ k[0] = << >>
      /\ \A i \in 1 .. m : Waits(cd, c, cs[i], k[i - 1], k[i])
  BY <1>1 DEF Chain
<1>5. PICK kk : kk = [i \in 0 .. m - 1 + n |-> IF i <= m - 1 THEN k[i] ELSE x[i - (m - 1)]]
  OBVIOUS
<1>6. kk \in [0 .. m - 1 + n -> Pascal!Todo] /\ kk[0] = << >>
  <2>1. ASSUME NEW i \in 0 .. m - 1 + n
        PROVE  (IF i <= m - 1 THEN k[i] ELSE x[i - (m - 1)]) \in Pascal!Todo
    <3>1. CASE i <= m - 1
      <4>1. i \in 0 .. m
        BY <1>3, <3>1
      <4>. QED BY <1>4, <3>1, <4>1
    <3>2. CASE ~(i <= m - 1)
      <4>1. i - (m - 1) \in 1 .. n
        BY <1>3, <3>2
      <4>2. x[i - (m - 1)] \in Pascal!Todo
        BY <1>2, <1>3, <4>1
      <4>. QED BY <3>2, <4>2
    <3>. QED BY <3>1, <3>2
  <2>2. 0 \in 0 .. m - 1 + n /\ 0 <= m - 1
    BY <1>3
  <2>. QED BY <1>4, <1>5, <2>1, <2>2
<1>7. \A i \in 0 .. m - 1 : kk[i] = k[i]
  BY <1>3, <1>5
<1>8. \A j \in 0 .. n : kk[m - 1 + j] = Under(x, j, k[m - 1])
  <2>1. SUFFICES ASSUME NEW j \in 0 .. n PROVE kk[m - 1 + j] = Under(x, j, k[m - 1])
    OBVIOUS
  <2>2. m - 1 + j \in 0 .. m - 1 + n /\ (m - 1 + j <= m - 1 <=> j = 0) /\ m - 1 + j - (m - 1) = j
        /\ m - 1 + 0 = m - 1
    BY <1>3
  <2>3. CASE j = 0
    <3>1. m - 1 + j = m - 1 /\ m - 1 \in 0 .. m - 1
      BY <1>3, <2>3
    <3>. QED BY <1>7, <2>3, <3>1 DEF Under
  <2>4. CASE j # 0
    <3>1. kk[m - 1 + j] = x[j]
      <4>1. PICK i : i = m - 1 + j
        OBVIOUS
      <4>2. i \in 0 .. m - 1 + n /\ ~(i <= m - 1)
        BY <2>2, <2>4, <4>1
      <4>3. kk[i] = x[i - (m - 1)]
        BY <1>5, <4>2
      <4>4. i - (m - 1) = j
        BY <1>3, <4>1
      <4>5. kk[i] = x[j]
        BY <4>3, <4>4
      <4>. QED BY <4>1, <4>5
    <3>. QED BY <2>4, <3>1 DEF Under
  <2>. QED BY <2>3, <2>4
<1>9. ASSUME NEW i \in 1 .. Len(es) PROVE Waits(cd1, d, es[i], kk[i - 1], kk[i])
  <2>1. CASE i <= m - 1
    <3>1. i \in 1 .. m /\ i \in 1 .. m - 1 /\ i \in 0 .. m - 1 /\ i - 1 \in 0 .. m - 1
      BY <1>3, <2>1
    <3>2. es[i] = cs[i] /\ cs[i] \in Frame(B, F) /\ Waits(cd, c, cs[i], k[i - 1], k[i])
      BY <1>1, <1>3, <1>4, <3>1
    <3>3. \A b \in Pending(cs[i]) : cd1[b] = cd[b]
      BY <1>1, <3>1
    <3>4. Waits(cd1, d, cs[i], k[i - 1], k[i])
      <4>1. PICK fr, r, h : fr = cs[i] /\ r = k[i - 1] /\ h = k[i]
        OBVIOUS
      <4>2. fr \in Frame(B, F) /\ Waits(cd, c, fr, r, h) /\ \A b \in Pending(fr) : cd1[b] = cd[b]
        BY <3>2, <3>3, <4>1
      <4>3. Waits(cd1, d, fr, r, h)
        BY <4>2, WaitsStill
      <4>. QED BY <4>1, <4>3
    <3>. QED BY <1>7, <3>1, <3>2, <3>4
  <2>2. CASE i > m - 1
    <3>1. PICK j : j = i - (m - 1)
      OBVIOUS
    <3>2. j \in 1 .. n /\ m - 1 + j = i /\ j \in 0 .. n /\ j - 1 \in 0 .. n /\ m - 1 + (j - 1) = i - 1
      BY <1>3, <2>2, <3>1
    <3>3. Waits(cd1, d, es[m - 1 + j], Under(x, j - 1, k[m - 1]), x[j])
      BY <1>1, <1>2, <3>2
    <3>4. kk[i - 1] = Under(x, j - 1, k[m - 1]) /\ kk[i] = x[j]
      <4>1. kk[m - 1 + j] = Under(x, j, k[m - 1]) /\ j # 0
        BY <1>8, <3>2
      <4>2. kk[m - 1 + (j - 1)] = Under(x, j - 1, k[m - 1])
        BY <1>8, <3>2
      <4>. QED BY <3>2, <4>1, <4>2 DEF Under
    <3>. QED BY <3>2, <3>3, <3>4
  <2>3. i \in 1 .. m - 1 + n
    BY <1>3
  <2>4. i <= m - 1 \/ i > m - 1
    BY <1>3, <2>3
  <2>. QED BY <2>1, <2>2, <2>4
<1>10. d[top1][Len(cd1[top1]) + 1] = ToRun(kk[Len(es)])
  <2>1. n \in 0 .. n
    BY <1>3
  <2>2. kk[m - 1 + n] = Under(x, n, k[m - 1])
    BY <1>8, <2>1
  <2>. QED BY <1>1, <1>2, <1>3, <2>2
<1>11. Chain(cd1, es, top1, d, kk)
  BY <1>3, <1>6, <1>9, <1>10 DEF Chain
<1>. QED BY <1>11

(* Annotations can be extended by one for the second instruction added to  *)
(* top, and by those of the new blocks.                                    *)
Fits(B, cd, top, N) ==
    DOMAIN cd = B /\ (\A b \in B : Len(cd[b]) \in Nat) /\ top \in B /\ N \cap B = {}

ExtendedBy(cd, c, d, top, N, g, mid) ==
    /\ Extends(cd, c, d)
    /\ d[top][Len(cd[top]) + 2] = mid
    /\ \A b \in N : \A i \in Nat : d[b][i] = g[b]

LEMMA Extension ==
    ASSUME NEW B, NEW cd, NEW top, NEW N, Fits(B, cd, top, N), NEW c, NEW g, NEW mid
    PROVE  \E d : ExtendedBy(cd, c, d, top, N, g, mid)
<1>. USE DEF Fits
<1>1. PICK n : n = Len(cd[top])
  OBVIOUS
<1>2. PICK d : d = [b \in B \cup N |-> [i \in Nat |->
                      IF b \in N THEN g[b] ELSE IF b = top /\ i = n + 2 THEN mid ELSE c[b][i]]]
  OBVIOUS
<1>3. ASSUME NEW b \in B, NEW i \in 1 .. Len(cd[b]) + 1 PROVE d[b][i] = c[b][i]
  <2>1. i \in Nat /\ b \notin N
    OBVIOUS
  <2>2. b = top => i # n + 2
    BY <1>1
  <2>. QED BY <1>2, <2>1, <2>2
<1>4. d[top][n + 2] = mid
  <2>1. n + 2 \in Nat /\ top \notin N
    BY <1>1
  <2>. QED BY <1>2, <2>1
<1>5. \A b \in N : \A i \in Nat : d[b][i] = g[b]
  BY <1>2
<1>6. ExtendedBy(cd, c, d, top, N, g, mid)
  BY <1>1, <1>3, <1>4, <1>5 DEF Extends, ExtendedBy
<1>. QED BY <1>6

(* When each instruction does what its annotation says. *)
LEMMA RunsOf ==
    ASSUME NEW now, NEW next, NEW d
    PROVE  /\ \A b : d[b][1] = now => Runs(Br(b), now, next, d)
           /\ \A id, y, n :
                 Tested(id, now, d[y][1], d[n][1]) => Runs(CondBr(id, y, n), now, next, d)
           /\ now = << >> => Runs(Ret, now, next, d)
           /\ \A id : Assigned("do", id, now, next) => Runs(Do(id), now, next, d)
           /\ \A id : Assigned("init", id, now, next) => Runs(InitVar(id), now, next, d)
           /\ \A id : Assigned("step", id, now, next) => Runs(StepVar(id), now, next, d)
<1>1. \A b : d[b][1] = now => Runs(Br(b), now, next, d)
  BY DEF Runs, Br
<1>2. ASSUME NEW id, NEW y, NEW n, Tested(id, now, d[y][1], d[n][1])
      PROVE  Runs(CondBr(id, y, n), now, next, d)
  BY <1>2 DEF Runs, CondBr
<1>3. now = << >> => Runs(Ret, now, next, d)
  BY DEF Runs, Ret
<1>4. \A id : Assigned("do", id, now, next) => Runs(Do(id), now, next, d)
  BY DEF Runs, Do
<1>5. \A id : Assigned("init", id, now, next) => Runs(InitVar(id), now, next, d)
  BY DEF Runs, InitVar
<1>6. \A id : Assigned("step", id, now, next) => Runs(StepVar(id), now, next, d)
  BY DEF Runs, StepVar
<1>. QED BY <1>1, <1>2, <1>3, <1>4, <1>5, <1>6

(* One instruction is added to a block, or some to one and one to a new    *)
(* one.                                                                    *)
LEMMA DoesOne ==
    ASSUME NEW B, NEW cd, NEW b \in B, NEW d, NEW in,
           Len(cd[b]) \in Nat, Runs(in, d[b][Len(cd[b]) + 1], d[b][Len(cd[b]) + 2], d)
    PROVE  Does(B, cd, In(b, <<in>>), d)
<1>1. PICK out : out = In(b, <<in>>)
  OBVIOUS
<1>2. DOMAIN out = {b} /\ out[b] = <<in>> /\ Len(out[b]) = 1
  BY <1>1 DEF In
<1>3. Len(cd[b]) + 1 + 1 = Len(cd[b]) + 2
  OBVIOUS
<1>4. \A j \in 1 .. Len(out[b]) : j = 1
  BY <1>2
<1>5. ASSUME NEW j \in 1 .. Len(out[b])
      PROVE  Runs(out[b][j], d[b][Len(cd[b]) + j], d[b][Len(cd[b]) + j + 1], d)
  BY <1>2, <1>3, <1>4
<1>. QED BY <1>1, <1>2, <1>5 DEF Does

LEMMA DoesTwo ==
    ASSUME NEW B, NEW cd, NEW b \in B, NEW d, NEW s, NEW in, NEW x, x \notin B,
           \A j \in 1 .. Len(s) : Runs(s[j], d[b][Len(cd[b]) + j], d[b][Len(cd[b]) + j + 1], d),
           Runs(in, d[x][1], d[x][2], d)
    PROVE  Does(B, cd, InTwo(b, s, x, <<in>>), d)
<1>1. PICK out : out = InTwo(b, s, x, <<in>>)
  OBVIOUS
<1>2. /\ DOMAIN out = {b, x} /\ out[b] = s /\ out[x] = <<in>> /\ Len(out[x]) = 1 /\ b # x
      /\ out[x][1] = in
  BY <1>1 DEF InTwo
<1>3. ASSUME NEW j \in 1 .. Len(out[x])
      PROVE  Runs(out[x][j], d[x][0 + j], d[x][0 + j + 1], d)
  <2>1. j = 1 /\ 0 + j = 1 /\ 0 + j + 1 = 2
    BY <1>2
  <2>. QED BY <1>2, <2>1
<1>. QED BY <1>1, <1>2, <1>3 DEF Does

(* Emit adds code as Grows says. *)
LEMMA EmitGrows ==
    ASSUME TypeOK, TypeOK', stack # << >>, NEW n \in Nat, NEW STATE fn, NEW STATE out, Emit(n, fn, out),
           DOMAIN out \subseteq {Top} \cup NewBlocks(n),
           \A b \in DOMAIN out : out[b] \in Seq(Instr(1 .. nblk + n))
    PROVE  /\ Grows(Block, code, Block', code', out)
           /\ Block' = Block \cup NewBlocks(n) /\ NewBlocks(n) \cap Block = {}
<1>1. /\ nblk \in Nat /\ nblk' = nblk + n /\ Block' = 1 .. nblk + n
      /\ Block' = Block \cup NewBlocks(n) /\ NewBlocks(n) \cap Block = {}
      /\ DOMAIN out \subseteq Block'
  <2>1. nblk \in Nat /\ nblk' = nblk + n /\ Top \in Block
    BY TopType DEF TypeOK, Emit
  <2>. QED BY <2>1 DEF Block, NewBlocks
<1>2. code \in [Block -> Seq(Instr(Block))] /\ code' \in [Block' -> Seq(Instr(Block'))]
  BY DEF TypeOK
<1>3. \A b \in Block' : code'[b] = IF b \in DOMAIN out THEN Old(b) \o out[b] ELSE Old(b)
  BY <1>1 DEF Emit
<1>4. \A b \in DOMAIN out : << >> \o out[b] = out[b]
  OBVIOUS
<1>. QED BY <1>1, <1>2, <1>3, <1>4 DEF Grows, Old
--------------------------------------------------------------------------------
(* The invariant: c annotates the code made so far; from the entry of a    *)
(* function its body is to be run; and while the walk is on, the block on  *)
(* top is where the frames, from the outermost to the innermost, go on.    *)
Means(c) ==
    /\ Follows(code, c)
    /\ \A fn \in Fn : c[fns[fn].entry][1] = ToRun(fns[fn].body)
    /\ Running => \E k : Chain(code, calls, Top, c, k)

(* A step that adds `out' to the code, of which d is an annotation then,   *)
(* and goes on with frames that wait where x is.                           *)
Lowers(c, k, d, out, x) ==
    /\ Grows(Block, code, Block', code', out)
    /\ DOMAIN out \cap Block \subseteq {Top}
    /\ Extends(code, c, d) /\ Does(Block, code, out, d)
    /\ Renews(calls, calls', x, k)
    /\ \A j \in 1 .. Len(x) :
          Waits(code', d, calls'[Len(calls) - 1 + j], Under(x, j - 1, k[Len(calls) - 1]), x[j])
    /\ d[Top'][Len(code'[Top']) + 1] = ToRun(Under(x, Len(x), k[Len(calls) - 1]))

(* Types of the code. *)
LEMMA CodeFacts ==
    ASSUME TypeOK
    PROVE  /\ DOMAIN code = Block
           /\ \A b \in Block : code[b] \in Seq(Instr(Block)) /\ Len(code[b]) \in Nat
           /\ \A fn \in Fn : fns[fn].entry \in Block
<1>1. code \in [Block -> Seq(Instr(Block))]
  BY DEF TypeOK
<1>. QED BY <1>1, EntryType

(* A handler that lowers its statement so keeps the invariant. *)
LEMMA MeansStep ==
    ASSUME IInv, IInv', Running, NEW c, NEW k, NEW d, NEW STATE out, NEW x,
           Means(c), Chain(code, calls, Top, c, k), Lowers(c, k, d, out, x),
           \A fn \in Fn' : d[fns'[fn].entry][1] = ToRun(fns'[fn].body)
    PROVE  Means(d)'
<1>. USE DEF Lowers
<1>1. /\ TypeOK /\ Top \in Block /\ Top \notin PendingBlocks /\ calls \in Seq(Frame(Block, Fn))
      /\ DOMAIN code = Block /\ \A b \in Block : Len(code[b]) \in Nat
  BY RunningFacts, CodeFacts
<1>2. Follows(code', d)
  BY FollowsOn DEF Means
<1>3. ASSUME NEW i \in 1 .. Len(calls) - 1, NEW b \in Pending(calls[i]) PROVE code'[b] = code[b]
  <2>1. i \in 1 .. Len(calls)
    BY <1>1
  <2>2. b \in PendingBlocks /\ PendingBlocks \subseteq Block
    BY <2>1, <1>1, RunningFacts, InPending DEF PendingBlocks
  <2>3. b \notin DOMAIN out
    BY <1>1, <2>2
  <2>. QED BY <2>2, <2>3 DEF Grows
<1>4. \E kk : Chain(code', calls', Top', d, kk)
  <2>1. PICK cd1, es, top1, m : cd1 = code' /\ es = calls' /\ top1 = Top' /\ m = Len(calls)
    OBVIOUS
  <2>2. \A i \in 1 .. Len(calls) - 1 : \A b \in Pending(calls[i]) : cd1[b] = code[b]
    BY <1>3, <2>1
  <2>3. \A j \in 1 .. Len(x) :
           Waits(cd1, d, es[Len(calls) - 1 + j], Under(x, j - 1, k[Len(calls) - 1]), x[j])
    BY <2>1
  <2>4. d[top1][Len(cd1[top1]) + 1] = ToRun(Under(x, Len(x), k[Len(calls) - 1]))
    BY <2>1
  <2>5. Renews(calls, es, x, k)
    BY <2>1
  <2>7. PICK B, F, cs, cd, top : B = Block /\ F = Fn /\ cs = calls /\ cd = code /\ top = Top
    OBVIOUS
  <2>8. /\ cs \in Seq(Frame(B, F)) /\ DOMAIN cd = B /\ \A b \in B : Len(cd[b]) \in Nat
        /\ \A i \in 1 .. Len(cs) - 1 : \A b \in Pending(cs[i]) : cd1[b] = cd[b]
        /\ Extends(cd, c, d) /\ Chain(cd, cs, top, c, k) /\ Renews(cs, es, x, k)
    BY <1>1, <2>2, <2>5, <2>7
  <2>9. \A j \in 1 .. Len(x) :
           Waits(cd1, d, es[Len(cs) - 1 + j], Under(x, j - 1, k[Len(cs) - 1]), x[j])
    BY <2>3, <2>7
  <2>10. d[top1][Len(cd1[top1]) + 1] = ToRun(Under(x, Len(x), k[Len(cs) - 1]))
    BY <2>4, <2>7
  <2>6. \E kk : Chain(cd1, es, top1, d, kk)
    <3>1. ChainStep(B, F, cs, cd, cd1, c, d, k, es, x, top1)
      BY <2>8, <2>9, <2>10 DEF ChainStep
    <3>. QED BY <2>8, <3>1, ChainOn
  <2>. QED BY <2>1, <2>6
<1>. QED BY <1>2, <1>4 DEF Means

(* Lists that are put together. *)
LEMMA TodoParts ==
    /\ << >> \in Pascal!Todo
    /\ \A q \in Seq(Stm) : \A r \in Pascal!Todo : q \o r \in Pascal!Todo
    /\ \A s \in Stm : \A r \in Pascal!Todo :
          s.body \in Seq(Stm) /\ s.alt \in Seq(Stm)
          /\ s.body \o r \in Pascal!Todo /\ s.alt \o r \in Pascal!Todo
<1>1. ASSUME NEW q \in Seq(Stm), NEW r \in Pascal!Todo PROVE q \o r \in Pascal!Todo
  <2>1. q \in Seq(Piece) /\ r \in Seq(Piece)
    BY PieceIs, SeqSubset
  <2>2. q \o r \in Seq(Piece)
    BY <2>1
  <2>. QED BY <2>2, PieceIs
<1>2. << >> \in Pascal!Todo
  BY PieceIs
<1>. QED BY <1>1, <1>2, PieceIs

(* The frame on top, and where its caller goes on. *)
LEMMA ChainTop ==
    ASSUME TypeOK, Running, NEW c, NEW k, Chain(code, calls, Top, c, k)
    PROVE  /\ Len(calls) \in Nat /\ Len(calls) > 0
           /\ k[Len(calls)] \in Pascal!Todo /\ k[Len(calls) - 1] \in Pascal!Todo
           /\ Waits(code, c, Here, k[Len(calls) - 1], k[Len(calls)])
           /\ c[Top][Len(code[Top]) + 1] = ToRun(k[Len(calls)])
<1>1. Len(calls) \in Nat /\ Len(calls) > 0
  BY DEF TypeOK, Running
<1>2. /\ Len(calls) \in 1 .. Len(calls) /\ Len(calls) \in 0 .. Len(calls)
      /\ Len(calls) - 1 \in 0 .. Len(calls)
  BY <1>1
<1>. QED BY <1>1, <1>2 DEF Chain, Here

(* Statement s is next, l with it still to be run in its function, r after *)
(* it, and h after its list.                                               *)
AtNext(K, c, k, l, h, r, s) ==
    /\ AtStatement(K) /\ Chain(code, calls, Top, c, k)
    /\ l = k[Len(calls)] /\ h = k[Len(calls) - 1] /\ r = Tail(Here.rest) \o h /\ s = Stmt

(* The statement that is next is the head of what is to be run, and so     *)
(* does the block on top say.                                              *)
LEMMA StmtHead ==
    ASSUME TypeOK, NEW K, NEW c, NEW k, NEW l, NEW h, NEW r, NEW s, AtNext(K, c, k, l, h, r, s)
    PROVE  /\ s.kind \in K /\ Begins(l, s, r)
           /\ s \in Stm /\ l \in Pascal!Todo /\ l # << >> /\ l[1] = s /\ Tail(l) = r
           /\ r \in Pascal!Todo /\ h \in Pascal!Todo
           /\ c[Top][Len(code[Top]) + 1] = ToRun(l)
           /\ s.kind \notin {"goto", "repeat"} => ToRun(l) = l
<1>. USE DEF AtNext
<1>1. Running /\ Here.kind = "body" /\ Here.rest # << >> /\ Here.rest \in Seq(Stm) /\ s.kind \in K
  BY HereType DEF AtStatement
<1>2. /\ l \in Pascal!Todo /\ h \in Pascal!Todo /\ l = Here.rest \o h
      /\ c[Top][Len(code[Top]) + 1] = ToRun(l)
  BY <1>1, ChainTop DEF Waits
<1>3. PICK q : q = Here.rest
  OBVIOUS
<1>4. q \in Seq(Piece) /\ h \in Seq(Piece) /\ q # << >> /\ s = q[1]
  BY <1>1, <1>2, <1>3, PieceIs, SeqSubset DEF Stmt
<1>5. l # << >> /\ l[1] = s /\ Tail(l) = r /\ r \in Seq(Piece)
  <2>1. l = q \o h /\ r = Tail(q) \o h
    BY <1>2, <1>3
  <2>2. q \o h # << >> /\ (q \o h)[1] = q[1] /\ Tail(q \o h) = Tail(q) \o h
        /\ Tail(q) \o h \in Seq(Piece)
    BY <1>4
  <2>. QED BY <1>4, <2>1, <2>2
<1>6. s \in Stm
  BY StmtType
<1>7. s.kind \notin {"goto", "repeat"} => ToRun(l) = l
  BY <1>2, <1>5, UnfoldIs
<1>. QED BY <1>1, <1>2, <1>5, <1>6, <1>7, PieceIs DEF Begins

(* Annotations of the entries of functions stay. *)
LEMMA EntriesStill ==
    ASSUME TypeOK, NEW c, Means(c), NEW d, Extends(code, c, d), fns' = fns
    PROVE  \A fn \in Fn' : d[fns'[fn].entry][1] = ToRun(fns'[fn].body)
<1>1. Fn' = Fn
  BY DEF Fn
<1>2. ASSUME NEW fn \in Fn PROVE d[fns[fn].entry][1] = c[fns[fn].entry][1]
  <2>1. fns[fn].entry \in Block /\ DOMAIN code = Block /\ Len(code[fns[fn].entry]) \in Nat
    BY CodeFacts
  <2>2. 1 \in 1 .. Len(code[fns[fn].entry]) + 1
    BY <2>1
  <2>. QED BY <2>1, <2>2 DEF Extends
<1>. QED BY <1>1, <1>2 DEF Means

(* The code that a step adds to the block on top, and to a block it makes. *)
AddsCode(c, d, n, out) ==
    /\ n \in Nat /\ Emit(n, curFn, out)
    /\ DOMAIN out \subseteq {Top} \cup NewBlocks(n)
    /\ \A b \in DOMAIN out : out[b] \in Seq(Instr(1 .. nblk + n))
    /\ Extends(code, c, d) /\ Does(Block, code, out, d)
    /\ fns' = fns

(* A statement handler calls the handler of its body; y waits where h is. *)
Enters(c, k, d, n, out, y, to, h) ==
    /\ AddsCode(c, d, n, out)
    /\ calls' = [calls EXCEPT ![Len(calls)] = Rest] \o <<y, BodyFrame(Stmt.body)>>
    /\ y \in Frame(1 .. nblk + n, Fn)
    /\ stack' = Append(stack, to)
    /\ to \in NewBlocks(n) \ DOMAIN out
    /\ h \in Pascal!Todo
    /\ Waits(code', d, y, Tail(Here.rest) \o k[Len(calls) - 1], h)
    /\ d[to][1] = ToRun(Stmt.body \o h)

(* Beginning a statement keeps the invariant. *)
LEMMA MeansEnter ==
    ASSUME IInv, IInv', NEW K, AtStatement(K), NEW c, Means(c), NEW k, Chain(code, calls, Top, c, k),
           NEW d, NEW n, NEW STATE out, NEW STATE y, NEW STATE to, NEW h,
           Enters(c, k, d, n, out, y, to, h)
    PROVE  Means(d)'
<1>. USE DEF Enters, AddsCode
<1>1. Running /\ TypeOK /\ TypeOK' /\ stack # << >> /\ nblk \in Nat /\ n \in Nat
  BY RunningFacts DEF AtStatement, IInv, TypeOK
<1>2. PICK m, g, r, s : m = Len(calls) /\ g = k[m - 1] /\ r = Tail(Here.rest) \o g /\ s = Stmt
  OBVIOUS
<1>3. /\ s \in Stm /\ r \in Pascal!Todo /\ g \in Pascal!Todo
      /\ s.body \o h \in Pascal!Todo /\ s.body \in Seq(Stm)
      /\ m \in Nat /\ m > 0
  <2>1. m \in Nat /\ m > 0
    BY <1>1, <1>2, ChainTop
  <2>2. s \in Stm /\ r \in Pascal!Todo /\ g \in Pascal!Todo
    <3>1. PICK l : l = k[Len(calls)]
      OBVIOUS
    <3>2. g = k[Len(calls) - 1]
      BY <1>2
    <3>3. AtNext(K, c, k, l, g, r, s)
      BY <1>2, <3>1, <3>2 DEF AtNext
    <3>. QED BY <1>1, <3>3, StmtHead
  <2>. QED BY <2>1, <2>2, TodoParts
<1>4. PICK x : x = <<r, h, s.body \o h>>
  OBVIOUS
<1>5. x \in Seq(Pascal!Todo) /\ Len(x) = 3 /\ x[1] = r /\ x[2] = h /\ x[3] = s.body \o h
  BY <1>3, <1>4
<1>6. /\ Grows(Block, code, Block', code', out)
      /\ Block' = Block \cup NewBlocks(n) /\ NewBlocks(n) \cap Block = {}
  BY <1>1, EmitGrows
<1>7. DOMAIN out \cap Block \subseteq {Top}
  BY <1>6
<1>8. /\ Len(calls') = m + 2
      /\ \A i \in 1 .. m - 1 : calls'[i] = calls[i]
      /\ calls'[m] = Rest /\ calls'[m + 1] = y /\ calls'[m + 2] = BodyFrame(s.body)
  <2>1. PICK F : F = Frame(1 .. nblk + n, Fn)
    OBVIOUS
  <2>2. calls \in Seq(F) /\ calls # << >> /\ Rest \in F /\ BodyFrame(s.body) \in F /\ y \in F
    <3>1. BodyFrame(s.body) \in F
      BY <1>3, <2>1 DEF BodyFrame, Frame
    <3>2. Rest \in F
      BY <1>1, <2>1, StmtType DEF Rest, BodyFrame, Frame
    <3>3. TypeInv
      BY InvType
    <3>. QED BY <1>1, <2>1, <3>1, <3>2, <3>3, Pieces DEF Running
  <2>. QED BY <1>2, <2>2, CallsPushed
<1>9. Renews(calls, calls', x, k)
  BY <1>2, <1>3, <1>5, <1>8 DEF Renews
<1>10. ASSUME NEW j \in 1 .. Len(x)
       PROVE  Waits(code', d, calls'[m - 1 + j], Under(x, j - 1, k[m - 1]), x[j])
  <2>1. CASE j = 1
    <3>1. Under(x, j - 1, k[m - 1]) = g /\ calls'[m - 1 + j] = Rest
      BY <1>2, <1>3, <1>8, <2>1 DEF Under
    <3>2. Waits(code', d, Rest, g, r)
      BY <1>2 DEF Waits, Rest, BodyFrame
    <3>. QED BY <1>5, <2>1, <3>1, <3>2
  <2>2. CASE j = 2
    <3>1. Under(x, j - 1, k[m - 1]) = r /\ calls'[m - 1 + j] = y
      BY <1>3, <1>5, <1>8, <2>2 DEF Under
    <3>2. Waits(code', d, y, r, h)
      BY <1>2
    <3>. QED BY <1>5, <2>2, <3>1, <3>2
  <2>3. CASE j = 3
    <3>1. Under(x, j - 1, k[m - 1]) = h /\ calls'[m - 1 + j] = BodyFrame(s.body)
      BY <1>3, <1>5, <1>8, <2>3 DEF Under
    <3>2. Waits(code', d, BodyFrame(s.body), h, s.body \o h)
      BY DEF Waits, BodyFrame
    <3>. QED BY <1>5, <2>3, <3>1, <3>2
  <2>4. j = 1 \/ j = 2 \/ j = 3
    BY <1>5
  <2>. QED BY <2>1, <2>2, <2>3, <2>4
<1>11. d[Top'][Len(code'[Top']) + 1] = ToRun(Under(x, Len(x), k[Len(calls) - 1]))
  <2>1. Top' = to
    BY <1>1 DEF Top, TypeOK
  <2>2. code'[to] = << >>
    BY <1>6 DEF Grows
  <2>3. Under(x, Len(x), k[Len(calls) - 1]) = s.body \o h
    BY <1>5 DEF Under
  <2>4. d[to][Len(<< >>) + 1] = d[to][1]
    OBVIOUS
  <2>. QED BY <1>2, <2>1, <2>2, <2>3, <2>4
<1>12. Lowers(c, k, d, out, x)
  BY <1>2, <1>6, <1>7, <1>9, <1>10, <1>11 DEF Lowers
<1>13. \A fn \in Fn' : d[fns'[fn].entry][1] = ToRun(fns'[fn].body)
  BY <1>1, EntriesStill
<1>. QED BY <1>1, <1>12, <1>13, MeansStep

(* Annotations with g[1], g[2], ... for the next blocks.                   *)
Marks(c, d, n, g, mid) ==
    /\ Extends(code, c, d)
    /\ d[Top][Len(code[Top]) + 1] = c[Top][Len(code[Top]) + 1]
    /\ d[Top][Len(code[Top]) + 2] = mid
    /\ \A j \in 1 .. n : d[nblk + j][1] = g[j]

(* Such annotations exist. *)
LEMMA ExtendCode ==
    ASSUME IInv, Running, NEW c, NEW n \in Nat, NEW g, NEW mid
    PROVE  \E d : Marks(c, d, n, g, mid)
<1>1. /\ Top \in Block /\ DOMAIN code = Block /\ \A b \in Block : Len(code[b]) \in Nat
      /\ nblk \in Nat
  BY RunningFacts, CodeFacts DEF TypeOK
<1>2. NewBlocks(n) \cap Block = {} /\ \A j \in 1 .. n : nblk + j \in NewBlocks(n) /\ nblk + j - nblk = j
  BY <1>1 DEF NewBlocks, Block
<1>3. PICK h : h = [b \in NewBlocks(n) |-> g[b - nblk]]
  OBVIOUS
<1>4. PICK B, N, cd, top : B = Block /\ N = NewBlocks(n) /\ cd = code /\ top = Top
  OBVIOUS
<1>5. Fits(B, cd, top, N)
  BY <1>1, <1>2, <1>4 DEF Fits
<1>9. PICK d : ExtendedBy(cd, c, d, top, N, h, mid)
  BY <1>5, Extension
<1>6. /\ Extends(cd, c, d)
      /\ d[top][Len(cd[top]) + 2] = mid
      /\ \A b \in N : \A i \in Nat : d[b][i] = h[b]
  BY <1>9 DEF ExtendedBy
<1>7. d[Top][Len(code[Top]) + 1] = c[Top][Len(code[Top]) + 1]
  <2>1. Len(code[Top]) + 1 \in 1 .. Len(code[Top]) + 1
    BY <1>1
  <2>. QED BY <1>1, <1>4, <1>6, <2>1 DEF Extends
<1>8. ASSUME NEW j \in 1 .. n PROVE d[nblk + j][1] = g[j]
  <2>1. PICK b : b = nblk + j
    OBVIOUS
  <2>2. b \in N /\ b - nblk = j
    BY <1>1, <1>2, <1>4, <2>1
  <2>3. d[b][1] = h[b] /\ h[b] = g[j]
    BY <1>3, <1>4, <1>6, <2>2
  <2>. QED BY <2>1, <2>3
<1>10. Marks(c, d, n, g, mid)
  BY <1>4, <1>6, <1>7, <1>8 DEF Marks
<1>. QED BY <1>10

(* What holds when a statement handler begins. *)
LEMMA StmtFacts ==
    ASSUME IInv, NEW K, AtStatement(K), NEW c, Means(c)
    PROVE  /\ Running /\ TypeOK /\ Top \in Block /\ nblk \in Nat /\ Len(code[Top]) \in Nat
           /\ Block = 1 .. nblk
           /\ \E k, l, h, r, s : AtNext(K, c, k, l, h, r, s)
<1>1. Running /\ TypeOK /\ Top \in Block /\ nblk \in Nat /\ Len(code[Top]) \in Nat
  BY RunningFacts, CodeFacts DEF AtStatement, TypeOK
<1>2. PICK k : Chain(code, calls, Top, c, k)
  BY <1>1 DEF Means
<1>3. PICK l, h, s : l = k[Len(calls)] /\ h = k[Len(calls) - 1] /\ s = Stmt
  OBVIOUS
<1>4. PICK r : r = Tail(Here.rest) \o h
  OBVIOUS
<1>5. AtNext(K, c, k, l, h, r, s)
  BY <1>2, <1>3, <1>4 DEF AtNext
<1>. QED BY <1>1, <1>5 DEF Block

(* An annotation of the next state, whichever. *)
LEMMA MeansNext ==
    ASSUME NEW d, Means(d)'
    PROVE  (\E e : Means(e))'
  OBVIOUS

(* One lemma for each handler that begins a statement: what is to be run   *)
(* at each block it makes.                                                 *)
LEMMA MeansIf ==
    ASSUME IInv, IInv', BeginIf, NEW c, Means(c)
    PROVE  (\E e : Means(e))'
<1>. DEFINE out == In(Top, <<CondBr(Stmt.id, nblk + 1, nblk + 2)>>)
            y == ThenFrame(Stmt, nblk + 2, nblk + 3)
            to == nblk + 1
<1>1. /\ AtStatement({"if"}) /\ Emit(3, curFn, out) /\ fns' = fns
      /\ stack' = Append(stack, to)
      /\ calls' = [calls EXCEPT ![Len(calls)] = Rest] \o <<y, BodyFrame(Stmt.body)>>
  BY DEF BeginIf
<1>2. /\ Running /\ TypeOK /\ Top \in Block /\ nblk \in Nat /\ Len(code[Top]) \in Nat
      /\ Block = 1 .. nblk
  BY <1>1, StmtFacts
<1>3. PICK k, l, h, r, s : AtNext({"if"}, c, k, l, h, r, s)
  BY <1>1, StmtFacts
<1>4. /\ s \in Stm /\ s.kind = "if" /\ s = Stmt
      /\ l \in Pascal!Todo /\ Begins(l, s, r)
      /\ r \in Pascal!Todo
      /\ c[Top][Len(code[Top]) + 1] = l
      /\ r = Tail(Here.rest) \o k[Len(calls) - 1]
      /\ Chain(code, calls, Top, c, k)
  <2>1. s.kind \in {"if"} /\ (s.kind \notin {"goto", "repeat"} => ToRun(l) = l)
    BY <1>2, <1>3, StmtHead
  <2>2. /\ s = Stmt /\ r = Tail(Here.rest) \o k[Len(calls) - 1] /\ Chain(code, calls, Top, c, k)
    BY <1>3 DEF AtNext
  <2>3. /\ s \in Stm /\ l \in Pascal!Todo /\ Begins(l, s, r) /\ r \in Pascal!Todo
        /\ c[Top][Len(code[Top]) + 1] = ToRun(l)
    BY <1>2, <1>3, StmtHead
  <2>. QED BY <2>1, <2>2, <2>3
<1>5. PICK g : g = <<ToRun(s.body \o r), ToRun(s.alt \o r), ToRun(r)>>
  OBVIOUS
<1>14. PICK d : Marks(c, d, 3, g, << >>)
  BY <1>2, ExtendCode
<1>6. /\ Extends(code, c, d)
      /\ d[Top][Len(code[Top]) + 1] = c[Top][Len(code[Top]) + 1]
      /\ \A j \in 1 .. 3 : d[nblk + j][1] = g[j]
  BY <1>14 DEF Marks
<1>7. /\ d[nblk + 1][1] = ToRun(s.body \o r) /\ d[nblk + 2][1] = ToRun(s.alt \o r)
      /\ d[nblk + 3][1] = ToRun(r)
  BY <1>5, <1>6
<1>8. Does(Block, code, out, d)
  <2>1. Tested(s.id, l, ToRun(s.body \o r), ToRun(s.alt \o r))
    BY <1>4, AfterStatement
  <2>2. Runs(CondBr(s.id, nblk + 1, nblk + 2), l, d[Top][Len(code[Top]) + 2], d)
    BY <1>7, <2>1, RunsOf
  <2>. QED BY <1>2, <1>4, <1>6, <2>2, DoesOne
<1>9. /\ DOMAIN out \subseteq {Top} \cup NewBlocks(3)
      /\ \A b \in DOMAIN out : out[b] \in Seq(Instr(1 .. nblk + 3))
  BY <1>1, <1>2, StmtType DEF CondBr, In, Instr
<1>10. AddsCode(c, d, 3, out)
  BY <1>1, <1>6, <1>8, <1>9 DEF AddsCode
<1>11. to \in NewBlocks(3) \ DOMAIN out /\ y \in Frame(1 .. nblk + 3, Fn)
  BY <1>2, <1>4 DEF NewBlocks, In, ThenFrame, Frame
<1>12. Waits(code', d, y, r, r)
  <2>1. TypeOK' /\ stack # << >>
    BY <1>2, RunningFacts DEF IInv
  <2>2. Grows(Block, code, Block', code', out) /\ Block' = Block \cup NewBlocks(3)
    BY <1>1, <1>2, <1>9, <2>1, EmitGrows
  <2>3. /\ nblk + 2 \in Block' \ Block /\ nblk + 2 \notin DOMAIN out
        /\ nblk + 3 \in Block' \ Block /\ nblk + 3 \notin DOMAIN out
    BY <1>2, <2>2 DEF NewBlocks, In
  <2>4. code'[nblk + 2] = << >> /\ code'[nblk + 3] = << >>
    BY <2>2, <2>3 DEF Grows
  <2>. QED BY <1>4, <1>7, <2>4 DEF Waits, Awaits, ThenFrame
<1>13. Enters(c, k, d, 3, out, y, to, r)
  BY <1>1, <1>4, <1>7, <1>10, <1>11, <1>12 DEF Enters
<1>. HIDE DEF out, y, to
<1>15. Means(d)'
  BY <1>1, <1>4, <1>13, MeansEnter
<1>. QED BY <1>15, MeansNext

LEMMA MeansWhile ==
    ASSUME IInv, IInv', BeginWhile, NEW c, Means(c)
    PROVE  (\E e : Means(e))'
<1>. DEFINE out == InTwo(Top, <<Br(nblk + 1)>>, nblk + 1, <<CondBr(Stmt.id, nblk + 2, nblk + 3)>>)
            y == WhileFrame(nblk + 1, nblk + 3)
            to == nblk + 2
<1>1. /\ AtStatement({"while"}) /\ Emit(3, curFn, out) /\ fns' = fns
      /\ stack' = Append(stack, to)
      /\ calls' = [calls EXCEPT ![Len(calls)] = Rest] \o <<y, BodyFrame(Stmt.body)>>
  BY DEF BeginWhile
<1>2. /\ Running /\ TypeOK /\ Top \in Block /\ nblk \in Nat /\ Len(code[Top]) \in Nat
      /\ Block = 1 .. nblk
  BY <1>1, StmtFacts
<1>3. PICK k, l, h, r, s : AtNext({"while"}, c, k, l, h, r, s)
  BY <1>1, StmtFacts
<1>4. /\ s \in Stm /\ s.kind = "while" /\ s = Stmt
      /\ l \in Pascal!Todo /\ Begins(l, s, r)
      /\ r \in Pascal!Todo
      /\ c[Top][Len(code[Top]) + 1] = l /\ ToRun(l) = l
      /\ r = Tail(Here.rest) \o k[Len(calls) - 1]
      /\ Chain(code, calls, Top, c, k)
  <2>1. s.kind \in {"while"} /\ (s.kind \notin {"goto", "repeat"} => ToRun(l) = l)
    BY <1>2, <1>3, StmtHead
  <2>2. /\ s = Stmt /\ r = Tail(Here.rest) \o k[Len(calls) - 1] /\ Chain(code, calls, Top, c, k)
    BY <1>3 DEF AtNext
  <2>3. /\ s \in Stm /\ l \in Pascal!Todo /\ Begins(l, s, r) /\ r \in Pascal!Todo
        /\ c[Top][Len(code[Top]) + 1] = ToRun(l)
    BY <1>2, <1>3, StmtHead
  <2>. QED BY <2>1, <2>2, <2>3
<1>5. PICK g : g = <<l, ToRun(s.body \o l), ToRun(r)>>
  OBVIOUS
<1>14. PICK d : Marks(c, d, 3, g, << >>)
  BY <1>2, ExtendCode
<1>6. /\ Extends(code, c, d)
      /\ d[Top][Len(code[Top]) + 1] = c[Top][Len(code[Top]) + 1]
      /\ \A j \in 1 .. 3 : d[nblk + j][1] = g[j]
  BY <1>14 DEF Marks
<1>7. d[nblk + 1][1] = l /\ d[nblk + 2][1] = ToRun(s.body \o l) /\ d[nblk + 3][1] = ToRun(r)
  BY <1>5, <1>6
<1>8. Does(Block, code, out, d)
  <2>1. Tested(s.id, l, ToRun(s.body \o l), ToRun(r))
    BY <1>4, AfterStatement
  <2>2. Runs(CondBr(s.id, nblk + 2, nblk + 3), l, d[nblk + 1][2], d)
    BY <1>7, <2>1, RunsOf
  <2>3. Runs(Br(nblk + 1), l, d[Top][Len(code[Top]) + 2], d)
    BY <1>7, RunsOf
  <2>4. PICK q : q = <<Br(nblk + 1)>>
    OBVIOUS
  <2>5. ASSUME NEW j \in 1 .. Len(q)
        PROVE  Runs(q[j], d[Top][Len(code[Top]) + j], d[Top][Len(code[Top]) + j + 1], d)
    <3>1. j = 1 /\ q[j] = Br(nblk + 1) /\ Len(code[Top]) + 1 + 1 = Len(code[Top]) + 2
      BY <1>2, <2>4
    <3>. QED BY <1>4, <1>6, <2>3, <3>1
  <2>6. nblk + 1 \notin Block
    BY <1>2
  <2>7. Does(Block, code, InTwo(Top, q, nblk + 1, <<CondBr(s.id, nblk + 2, nblk + 3)>>), d)
    BY <1>2, <1>7, <2>2, <2>5, <2>6, DoesTwo
  <2>. QED BY <1>4, <2>4, <2>7
<1>9. /\ DOMAIN out \subseteq {Top} \cup NewBlocks(3)
      /\ \A b \in DOMAIN out : out[b] \in Seq(Instr(1 .. nblk + 3))
  <2>1. /\ <<Br(nblk + 1)>> \in Seq(Instr(1 .. nblk + 3))
        /\ <<CondBr(Stmt.id, nblk + 2, nblk + 3)>> \in Seq(Instr(1 .. nblk + 3))
    BY <1>1, <1>2, StmtType DEF Br, CondBr, Instr
  <2>2. DOMAIN out = {Top, nblk + 1} /\ nblk + 1 \in NewBlocks(3)
    BY <1>2 DEF InTwo, NewBlocks
  <2>3. \A b \in {Top, nblk + 1} : out[b] \in Seq(Instr(1 .. nblk + 3))
    BY <2>1 DEF InTwo
  <2>. QED BY <2>2, <2>3
<1>10. AddsCode(c, d, 3, out)
  BY <1>1, <1>6, <1>8, <1>9 DEF AddsCode
<1>11. to \in NewBlocks(3) \ DOMAIN out /\ y \in Frame(1 .. nblk + 3, Fn)
  BY <1>2, <1>4 DEF NewBlocks, InTwo, WhileFrame, Frame
<1>12. Waits(code', d, y, r, l)
  <2>1. TypeOK' /\ stack # << >>
    BY <1>2, RunningFacts DEF IInv
  <2>2. Grows(Block, code, Block', code', out) /\ Block' = Block \cup NewBlocks(3)
    BY <1>1, <1>2, <1>9, <2>1, EmitGrows
  <2>3. /\ nblk + 3 \in Block' \ Block /\ nblk + 3 \notin DOMAIN out
    BY <1>2, <2>2 DEF NewBlocks, InTwo
  <2>4. code'[nblk + 3] = << >>
    BY <2>2, <2>3 DEF Grows
  <2>. QED BY <1>4, <1>7, <2>4 DEF Waits, Awaits, WhileFrame
<1>13. Enters(c, k, d, 3, out, y, to, l)
  BY <1>1, <1>4, <1>7, <1>10, <1>11, <1>12 DEF Enters
<1>. HIDE DEF out, y, to
<1>15. Means(d)'
  BY <1>1, <1>4, <1>13, MeansEnter
<1>. QED BY <1>15, MeansNext

(* A point of a loop between two lists. *)
LEMMA PointBetween ==
    ASSUME NEW s \in Stm, NEW r \in Pascal!Todo
    PROVE  \A p \in {"until", "forTest", "forStep"} :
              \A h : h = <<Pascal!At(p, s)>> \o r =>
                 h \in Pascal!Todo /\ s.body \o <<Pascal!At(p, s)>> \o r = s.body \o h
<1>. SUFFICES ASSUME NEW p \in {"until", "forTest", "forStep"}, NEW h, h = <<Pascal!At(p, s)>> \o r
              PROVE  h \in Pascal!Todo /\ s.body \o <<Pascal!At(p, s)>> \o r = s.body \o h
  OBVIOUS
<1>1. PICK x, q : x = Pascal!At(p, s) /\ q = s.body
  OBVIOUS
<1>2. x \in Piece /\ q \in Seq(Piece) /\ r \in Seq(Piece)
  BY <1>1, PieceIs
<1>3. h \in Seq(Piece) /\ q \o <<x>> \o r = q \o (<<x>> \o r)
  <2>1. PICK a : a = <<x>>
    OBVIOUS
  <2>2. a \in Seq(Piece)
    BY <1>2, <2>1
  <2>3. a \o r \in Seq(Piece)
    BY <1>2, <2>2
  <2>4. (q \o a) \o r = q \o (a \o r)
    BY <1>2, <2>2, ConcatAssociative
  <2>5. h = a \o r
    BY <1>1, <2>1
  <2>. QED BY <2>1, <2>3, <2>4, <2>5
<1>. QED BY <1>1, <1>3, PieceIs

LEMMA MeansRepeat ==
    ASSUME IInv, IInv', BeginRepeat, NEW c, Means(c)
    PROVE  (\E e : Means(e))'
<1>. DEFINE out == In(Top, <<Br(nblk + 1)>>)
            y == RepeatFrame(Stmt, nblk + 1)
            to == nblk + 1
<1>1. /\ AtStatement({"repeat"}) /\ Emit(1, curFn, out) /\ fns' = fns
      /\ stack' = Append(stack, to)
      /\ calls' = [calls EXCEPT ![Len(calls)] = Rest] \o <<y, BodyFrame(Stmt.body)>>
  BY DEF BeginRepeat
<1>2. /\ Running /\ TypeOK /\ Top \in Block /\ nblk \in Nat /\ Len(code[Top]) \in Nat
      /\ Block = 1 .. nblk
  BY <1>1, StmtFacts
<1>3. PICK k, l, f, r, s : AtNext({"repeat"}, c, k, l, f, r, s)
  BY <1>1, StmtFacts
<1>4. PICK h : h = <<Pascal!At("until", s)>> \o r
  OBVIOUS
<1>5. /\ s \in Stm /\ s.kind = "repeat" /\ s = Stmt
      /\ h \in Pascal!Todo /\ r \in Pascal!Todo
      /\ c[Top][Len(code[Top]) + 1] = ToRun(s.body \o h)
      /\ r = Tail(Here.rest) \o k[Len(calls) - 1]
      /\ Chain(code, calls, Top, c, k)
  <2>1. s.kind \in {"repeat"}
    BY <1>2, <1>3, StmtHead
  <2>2. /\ s = Stmt /\ r = Tail(Here.rest) \o k[Len(calls) - 1] /\ Chain(code, calls, Top, c, k)
    BY <1>3 DEF AtNext
  <2>3. /\ s \in Stm /\ l \in Pascal!Todo /\ l # << >> /\ l[1] = s /\ Tail(l) = r /\ r \in Pascal!Todo
        /\ c[Top][Len(code[Top]) + 1] = ToRun(l)
    BY <1>2, <1>3, StmtHead
  <2>4. ToRun(l) = ToRun(s.body \o <<Pascal!At("until", s)>> \o r)
    BY <2>1, <2>3, UnfoldIs
  <2>5. h \in Pascal!Todo /\ s.body \o <<Pascal!At("until", s)>> \o r = s.body \o h
    <3>1. s \in Stm /\ r \in Pascal!Todo
      BY <2>3
    <3>2. \A q : q = <<Pascal!At("until", s)>> \o r =>
                 q \in Pascal!Todo /\ s.body \o <<Pascal!At("until", s)>> \o r = s.body \o q
      BY <3>1, PointBetween
    <3>. QED BY <1>4, <3>2
  <2>. QED BY <2>1, <2>2, <2>3, <2>4, <2>5
<1>6. PICK g : g = <<ToRun(s.body \o h)>>
  OBVIOUS
<1>7. PICK d : Marks(c, d, 1, g, << >>)
  BY <1>2, ExtendCode
<1>8. /\ Extends(code, c, d)
      /\ d[Top][Len(code[Top]) + 1] = ToRun(s.body \o h)
      /\ d[nblk + 1][1] = ToRun(s.body \o h)
  BY <1>5, <1>6, <1>7 DEF Marks
<1>9. Does(Block, code, out, d)
  <2>1. Runs(Br(nblk + 1), ToRun(s.body \o h), d[Top][Len(code[Top]) + 2], d)
    BY <1>8, RunsOf
  <2>. QED BY <1>2, <1>8, <2>1, DoesOne
<1>10. /\ DOMAIN out \subseteq {Top} \cup NewBlocks(1)
       /\ \A b \in DOMAIN out : out[b] \in Seq(Instr(1 .. nblk + 1))
  BY <1>2 DEF Br, In, Instr
<1>11. AddsCode(c, d, 1, out)
  BY <1>1, <1>8, <1>9, <1>10 DEF AddsCode
<1>12. to \in NewBlocks(1) \ DOMAIN out /\ y \in Frame(1 .. nblk + 1, Fn)
  BY <1>2, <1>5 DEF NewBlocks, In, RepeatFrame, Frame
<1>13. Waits(code', d, y, r, h)
  BY <1>4, <1>5, <1>8 DEF Waits, RepeatFrame
<1>14. Enters(c, k, d, 1, out, y, to, h)
  BY <1>1, <1>5, <1>8, <1>11, <1>12, <1>13 DEF Enters
<1>. HIDE DEF out, y, to
<1>15. Means(d)'
  BY <1>1, <1>5, <1>14, MeansEnter
<1>. QED BY <1>15, MeansNext

LEMMA MeansFor ==
    ASSUME IInv, IInv', BeginFor, NEW c, Means(c)
    PROVE  (\E e : Means(e))'
<1>. DEFINE out == InTwo(Top, <<InitVar(Stmt.id), Br(nblk + 1)>>,
                         nblk + 1, <<CondBr(Stmt.id, nblk + 3, nblk + 2)>>)
            y == ForFrame(Stmt, nblk + 1, nblk + 3)
            to == nblk + 2
<1>1. /\ AtStatement({"for"}) /\ Emit(3, curFn, out) /\ fns' = fns
      /\ stack' = Append(stack, to)
      /\ calls' = [calls EXCEPT ![Len(calls)] = Rest] \o <<y, BodyFrame(Stmt.body)>>
  BY DEF BeginFor
<1>2. /\ Running /\ TypeOK /\ Top \in Block /\ nblk \in Nat /\ Len(code[Top]) \in Nat
      /\ Block = 1 .. nblk
  BY <1>1, StmtFacts
<1>3. PICK k, l, f, r, s : AtNext({"for"}, c, k, l, f, r, s)
  BY <1>1, StmtFacts
<1>4. /\ s \in Stm /\ s.kind = "for" /\ s = Stmt
      /\ Begins(l, s, r) /\ r \in Pascal!Todo
      /\ c[Top][Len(code[Top]) + 1] = l
      /\ r = Tail(Here.rest) \o k[Len(calls) - 1]
      /\ Chain(code, calls, Top, c, k)
  <2>1. s.kind \in {"for"} /\ (s.kind \notin {"goto", "repeat"} => ToRun(l) = l)
    BY <1>2, <1>3, StmtHead
  <2>2. /\ s = Stmt /\ r = Tail(Here.rest) \o k[Len(calls) - 1] /\ Chain(code, calls, Top, c, k)
    BY <1>3 DEF AtNext
  <2>3. /\ s \in Stm /\ Begins(l, s, r) /\ r \in Pascal!Todo /\ c[Top][Len(code[Top]) + 1] = ToRun(l)
    BY <1>2, <1>3, StmtHead
  <2>. QED BY <2>1, <2>2, <2>3
<1>5. PICK t, h : t = <<Pascal!At("forTest", s)>> \o r /\ h = <<Pascal!At("forStep", s)>> \o r
  OBVIOUS
<1>6. PICK g : g = <<t, ToRun(s.body \o h), ToRun(s.body \o r)>>
  OBVIOUS
<1>7. PICK d : Marks(c, d, 3, g, t)
  BY <1>2, ExtendCode
<1>8. /\ Extends(code, c, d)
      /\ d[Top][Len(code[Top]) + 1] = l /\ d[Top][Len(code[Top]) + 2] = t
      /\ d[nblk + 1][1] = t /\ d[nblk + 2][1] = ToRun(s.body \o h)
      /\ d[nblk + 3][1] = ToRun(s.body \o r)
  BY <1>4, <1>6, <1>7 DEF Marks
<1>9. h \in Pascal!Todo /\ s.body \o <<Pascal!At("forStep", s)>> \o r = s.body \o h
  <2>1. s \in Stm /\ r \in Pascal!Todo
    BY <1>4
  <2>2. \A q : q = <<Pascal!At("forStep", s)>> \o r =>
               q \in Pascal!Todo /\ s.body \o <<Pascal!At("forStep", s)>> \o r = s.body \o q
    BY <2>1, PointBetween
  <2>. QED BY <1>5, <2>2
<1>10. Does(Block, code, out, d)
  <2>1. Tested(s.id, t, ToRun(s.body \o r), ToRun(s.body \o h))
    BY <1>4, <1>5, <1>9, AfterPoint
  <2>2. Assigned("init", s.id, l, t)
    BY <1>4, <1>5, AfterStatement
  <2>3. Runs(CondBr(s.id, nblk + 3, nblk + 2), t, d[nblk + 1][2], d)
    BY <1>8, <2>1, RunsOf
  <2>4. Runs(InitVar(s.id), l, t, d)
    BY <2>2, RunsOf
  <2>5. Runs(Br(nblk + 1), t, d[Top][Len(code[Top]) + 3], d)
    BY <1>8, RunsOf
  <2>6. PICK q : q = <<InitVar(s.id), Br(nblk + 1)>>
    OBVIOUS
  <2>7. ASSUME NEW j \in 1 .. Len(q)
        PROVE  Runs(q[j], d[Top][Len(code[Top]) + j], d[Top][Len(code[Top]) + j + 1], d)
    <3>1. CASE j = 1
      <4>1. /\ q[j] = InitVar(s.id) /\ Len(code[Top]) + j = Len(code[Top]) + 1
            /\ Len(code[Top]) + j + 1 = Len(code[Top]) + 2
        BY <1>2, <2>6, <3>1
      <4>. QED BY <1>8, <2>4, <4>1
    <3>2. CASE j = 2
      <4>1. /\ q[j] = Br(nblk + 1) /\ Len(code[Top]) + j = Len(code[Top]) + 2
            /\ Len(code[Top]) + j + 1 = Len(code[Top]) + 3
        BY <1>2, <2>6, <3>2
      <4>. QED BY <1>8, <2>5, <4>1
    <3>3. j = 1 \/ j = 2
      BY <2>6
    <3>. QED BY <3>1, <3>2, <3>3
  <2>8. nblk + 1 \notin Block
    BY <1>2
  <2>9. Does(Block, code, InTwo(Top, q, nblk + 1, <<CondBr(s.id, nblk + 3, nblk + 2)>>), d)
    BY <1>2, <1>8, <2>3, <2>7, <2>8, DoesTwo
  <2>. QED BY <1>4, <2>6, <2>9
<1>11. /\ DOMAIN out \subseteq {Top} \cup NewBlocks(3)
       /\ \A b \in DOMAIN out : out[b] \in Seq(Instr(1 .. nblk + 3))
  <2>1. PICK I : I = Instr(1 .. nblk + 3)
    OBVIOUS
  <2>2. InitVar(Stmt.id) \in I /\ Br(nblk + 1) \in I /\ CondBr(Stmt.id, nblk + 3, nblk + 2) \in I
    <3>1. nblk + 1 \in 1 .. nblk + 3 /\ nblk + 2 \in 1 .. nblk + 3 /\ nblk + 3 \in 1 .. nblk + 3
      BY <1>2
    <3>2. Stmt.id \in Id
      BY <1>1, <1>2, StmtType
    <3>. QED BY <2>1, <3>1, <3>2, InstrType
  <2>3. /\ <<InitVar(Stmt.id), Br(nblk + 1)>> \in Seq(I)
        /\ <<CondBr(Stmt.id, nblk + 3, nblk + 2)>> \in Seq(I)
    BY <2>2
  <2>4. DOMAIN out = {Top, nblk + 1} /\ nblk + 1 \in NewBlocks(3)
    BY <1>2 DEF InTwo, NewBlocks
  <2>5. \A b \in {Top, nblk + 1} : out[b] \in Seq(I)
    BY <2>3 DEF InTwo
  <2>. QED BY <2>1, <2>4, <2>5
<1>12. AddsCode(c, d, 3, out)
  BY <1>1, <1>8, <1>10, <1>11 DEF AddsCode
<1>13. to \in NewBlocks(3) \ DOMAIN out /\ y \in Frame(1 .. nblk + 3, Fn)
  BY <1>2, <1>4 DEF NewBlocks, InTwo, ForFrame, Frame
<1>14. Waits(code', d, y, r, h)
  <2>1. TypeOK' /\ stack # << >>
    BY <1>2, RunningFacts DEF IInv
  <2>2. Grows(Block, code, Block', code', out) /\ Block' = Block \cup NewBlocks(3)
    BY <1>1, <1>2, <1>11, <2>1, EmitGrows
  <2>3. /\ nblk + 3 \in Block' \ Block /\ nblk + 3 \notin DOMAIN out
    BY <1>2, <2>2 DEF NewBlocks, InTwo
  <2>4. code'[nblk + 3] = << >>
    BY <2>2, <2>3 DEF Grows
  <2>. QED BY <1>4, <1>5, <1>8, <2>4 DEF Waits, Awaits, ForFrame
<1>15. Enters(c, k, d, 3, out, y, to, h)
  BY <1>1, <1>4, <1>8, <1>9, <1>12, <1>13, <1>14 DEF Enters
<1>. HIDE DEF out, y, to
<1>16. Means(d)'
  BY <1>1, <1>4, <1>15, MeansEnter
<1>. QED BY <1>16, MeansNext

(* The frame on top was called where h was to be run after it, and waits   *)
(* where l is.                                                             *)
OnTop(c, k, h, l) ==
    /\ Chain(code, calls, Top, c, k)
    /\ h = k[Len(calls) - 1] /\ l = k[Len(calls)]

(* What holds when a handler goes on after its child has returned. *)
LEMMA OnTopFacts ==
    ASSUME IInv, Running, NEW c, Means(c)
    PROVE  /\ TypeOK /\ Top \in Block /\ nblk \in Nat /\ Len(code[Top]) \in Nat
           /\ Block = 1 .. nblk
           /\ Len(calls) \in Nat /\ Len(calls) > 0
           /\ \E k, h, l : OnTop(c, k, h, l)
           /\ \A b \in Pending(Here) : b \in Block /\ b # Top
<1>1. /\ TypeOK /\ Top \in Block /\ nblk \in Nat /\ Len(code[Top]) \in Nat
      /\ Len(calls) \in Nat /\ Len(calls) > 0
  BY RunningFacts, CodeFacts DEF TypeOK, Running
<1>2. PICK k : Chain(code, calls, Top, c, k)
  BY DEF Means
<1>3. PICK h, l : h = k[Len(calls) - 1] /\ l = k[Len(calls)]
  OBVIOUS
<1>4. OnTop(c, k, h, l)
  BY <1>2, <1>3 DEF OnTop
<1>5. \A b \in Pending(Here) : b \in Block /\ b # Top
  BY RunningFacts
<1>. QED BY <1>1, <1>4, <1>5 DEF Block

LEMMA OnTopMeans ==
    ASSUME TypeOK, Running, NEW c, NEW k, NEW h, NEW l, OnTop(c, k, h, l)
    PROVE  /\ h \in Pascal!Todo /\ l \in Pascal!Todo
           /\ Waits(code, c, Here, h, l)
           /\ c[Top][Len(code[Top]) + 1] = ToRun(l)
           /\ Chain(code, calls, Top, c, k)
           /\ h = k[Len(calls) - 1]
  BY ChainTop DEF OnTop

(* A handler appends to its block and goes on in block `to'. *)
Leaves(c, k, d, n, out, x, to) ==
    /\ AddsCode(c, d, n, out) /\ DOMAIN out = {Top}
    /\ stack' = ReplaceTop(to)
    /\ to \in NewBlocks(n) \/ (to \in Pending(Here) /\ code[to] = << >>)
    /\ Renews(calls, calls', x, k)
    /\ \A j \in 1 .. Len(x) :
          Waits(code', d, calls'[Len(calls) - 1 + j], Under(x, j - 1, k[Len(calls) - 1]), x[j])
    /\ d[to][1] = ToRun(Under(x, Len(x), k[Len(calls) - 1]))

(* The blocks that the handler on top waits to complete are still empty. *)
LEMMA PendingStays ==
    ASSUME IInv, Running, NEW n \in Nat, NEW STATE out, Emit(n, curFn, out), DOMAIN out = {Top}
    PROVE  \A b \in Pending(Here) : code'[b] = code[b]
<1>1. ASSUME NEW b \in Pending(Here) PROVE code'[b] = code[b]
  <2>1. b \in Block /\ b # Top /\ nblk \in Nat
    BY RunningFacts DEF TypeOK
  <2>2. b \in 1 .. nblk + n /\ b \notin DOMAIN out
    BY <2>1 DEF Block
  <2>. QED BY <2>1, <2>2 DEF Emit, Old
<1>. QED BY <1>1

(* Going on in another block keeps the invariant. *)
LEMMA MeansLeave ==
    ASSUME IInv, IInv', Running, NEW c, Means(c), NEW k, Chain(code, calls, Top, c, k),
           NEW d, NEW n, NEW STATE out, NEW x, NEW STATE to, Leaves(c, k, d, n, out, x, to)
    PROVE  Means(d)'
<1>. USE DEF Leaves, AddsCode
<1>1. /\ TypeOK /\ TypeOK' /\ stack # << >> /\ nblk \in Nat /\ n \in Nat
      /\ stack \in Seq(Block) /\ Top \in Block
  BY RunningFacts DEF IInv, TypeOK
<1>2. /\ Grows(Block, code, Block', code', out)
      /\ Block' = Block \cup NewBlocks(n) /\ NewBlocks(n) \cap Block = {}
  BY <1>1, EmitGrows
<1>3. DOMAIN out \cap Block \subseteq {Top}
  OBVIOUS
<1>4. Top' = to
  BY <1>1 DEF Top, ReplaceTop
<1>5. code'[to] = << >>
  <2>1. CASE to \in NewBlocks(n)
    <3>1. to \in Block' \ Block /\ to \notin DOMAIN out
      BY <1>1, <1>2, <2>1
    <3>. QED BY <1>2, <3>1 DEF Grows
  <2>2. CASE to \in Pending(Here) /\ code[to] = << >>
    BY <1>1, <2>2, PendingStays
  <2>. QED BY <2>1, <2>2
<1>6. d[Top'][Len(code'[Top']) + 1] = ToRun(Under(x, Len(x), k[Len(calls) - 1]))
  <2>1. d[to][Len(<< >>) + 1] = d[to][1]
    OBVIOUS
  <2>. QED BY <1>4, <1>5, <2>1
<1>7. Lowers(c, k, d, out, x)
  BY <1>2, <1>3, <1>6 DEF Lowers
<1>8. \A fn \in Fn' : d[fns'[fn].entry][1] = ToRun(fns'[fn].body)
  BY <1>1, EntriesStill
<1>. QED BY <1>7, <1>8, MeansStep

(* What the frames are after a handler returned or went on. *)
LEMMA RenewsNone ==
    ASSUME TypeOK, Running, Return, NEW k, NEW x, x = << >>
    PROVE  /\ Renews(calls, calls', x, k) /\ Len(x) = 0
           /\ Under(x, Len(x), k[Len(calls) - 1]) = k[Len(calls) - 1]
<1>1. calls \in Seq(Frame(Block, Fn)) /\ calls # << >>
  BY DEF TypeOK, Running
<1>2. /\ Len(calls) \in Nat /\ Len(calls) > 0 /\ Len(calls') = Len(calls) - 1
      /\ \A i \in 1 .. Len(calls) - 1 : calls'[i] = calls[i]
  <2>1. Len(calls) \in Nat /\ Len(calls) > 0 /\ Len(calls) - 1 \in 0 .. Len(calls)
    BY <1>1
  <2>. QED BY <1>1, <2>1, Prefix DEF Return
<1>. QED BY <1>2 DEF Renews, Under

(* The list x is h, or g and h. *)
One(x, h)    == h \in Pascal!Todo /\ x = <<h>>
Two(x, g, h) == g \in Pascal!Todo /\ h \in Pascal!Todo /\ x = <<g, h>>

(* One or two frames are on top now, where one was before. *)
OneOn(fr, k, x, h) ==
    /\ Renews(calls, calls', x, k) /\ Len(x) = 1
    /\ calls'[Len(calls) - 1 + 1] = fr
    /\ Under(x, 1 - 1, k[Len(calls) - 1]) = k[Len(calls) - 1] /\ x[1] = h
    /\ Under(x, Len(x), k[Len(calls) - 1]) = h

TwoOn(fr, stms, k, x, g, h) ==
    /\ Renews(calls, calls', x, k) /\ Len(x) = 2
    /\ calls'[Len(calls) - 1 + 1] = fr
    /\ calls'[Len(calls) - 1 + 2] = BodyFrame(stms)
    /\ Under(x, 1 - 1, k[Len(calls) - 1]) = k[Len(calls) - 1] /\ x[1] = g
    /\ Under(x, 2 - 1, k[Len(calls) - 1]) = g /\ x[2] = h
    /\ Under(x, Len(x), k[Len(calls) - 1]) = h

LEMMA RenewsOne ==
    ASSUME TypeOK, Running, NEW STATE fr, Become(fr), NEW k, NEW h, NEW x, One(x, h)
    PROVE  OneOn(fr, k, x, h)
<1>1. calls \in Seq(Frame(Block, Fn)) /\ calls # << >>
  BY DEF TypeOK, Running
<1>2. /\ Len(calls) \in Nat /\ Len(calls) > 0 /\ Len(calls') = Len(calls)
      /\ \A i \in 1 .. Len(calls) - 1 : calls'[i] = calls[i]
      /\ calls'[Len(calls)] = fr /\ Len(calls) - 1 + 1 = Len(calls)
  BY <1>1 DEF Become
<1>3. x \in Seq(Pascal!Todo) /\ Len(x) = 1 /\ x[1] = h
  BY DEF One
<1>. QED BY <1>2, <1>3 DEF OneOn, Renews, Under

LEMMA RenewsTwo ==
    ASSUME TypeOK, Running, NEW STATE fr, NEW STATE stms, BecomeAndCall(fr, stms),
           fr \in Frame(Block, Fn), stms \in Seq(Stm), NEW k,
           NEW g, NEW h, NEW x, Two(x, g, h)
    PROVE  TwoOn(fr, stms, k, x, g, h)
<1>1. calls \in Seq(Frame(Block, Fn)) /\ calls # << >>
  BY DEF TypeOK, Running
<1>2. PICK F, y : F = Frame(Block, Fn) /\ y = BodyFrame(stms)
  OBVIOUS
<1>3. y \in F
  BY <1>2 DEF BodyFrame, Frame
<1>4. /\ Len(calls) \in Nat /\ Len(calls) > 0 /\ Len(calls') = Len(calls) + 1
      /\ \A i \in 1 .. Len(calls) - 1 : calls'[i] = calls[i]
      /\ calls'[Len(calls)] = fr /\ calls'[Len(calls) + 1] = y
      /\ Len(calls) - 1 + 1 = Len(calls) /\ Len(calls) - 1 + 2 = Len(calls) + 1
  <2>1. calls' = Append([calls EXCEPT ![Len(calls)] = fr], y)
    BY <1>2 DEF BecomeAndCall
  <2>2. calls \in Seq(F) /\ fr \in F
    BY <1>1, <1>2
  <2>3. Len(calls) \in Nat /\ Len(calls) > 0
    BY <1>1
  <2>. QED BY <1>1, <1>3, <2>1, <2>2, <2>3, CallsCalled
<1>5. x \in Seq(Pascal!Todo) /\ Len(x) = 2 /\ x[1] = g /\ x[2] = h
  BY DEF Two
<1>6. Renews(calls, calls', x, k)
  <2>1. Len(calls') = Len(calls) - 1 + Len(x)
    BY <1>4, <1>5
  <2>. QED BY <1>4, <1>5, <2>1 DEF Renews
<1>. QED BY <1>2, <1>4, <1>5, <1>6 DEF TwoOn, Under

(* One lemma for each handler that goes on after its child. *)
LEMMA MeansElse ==
    ASSUME IInv, IInv', EndElse, NEW c, Means(c)
    PROVE  (\E e : Means(e))'
<1>. DEFINE out == In(Top, <<Br(Here.merge)>>)
            to == Here.merge
<1>1. /\ Running /\ Here.kind = "else" /\ Emit(0, curFn, out) /\ fns' = fns
      /\ stack' = ReplaceTop(to) /\ Return
  BY DEF EndElse
<1>2. /\ TypeOK /\ Top \in Block /\ nblk \in Nat /\ Len(code[Top]) \in Nat /\ Block = 1 .. nblk
      /\ \A b \in Pending(Here) : b \in Block /\ b # Top
  BY <1>1, OnTopFacts
<1>3. PICK k, h, l : OnTop(c, k, h, l)
  BY <1>1, OnTopFacts
<1>4. /\ Waits(code, c, Here, h, l) /\ c[Top][Len(code[Top]) + 1] = ToRun(l)
      /\ Chain(code, calls, Top, c, k) /\ h = k[Len(calls) - 1]
  BY <1>1, <1>2, <1>3, OnTopMeans
<1>5. /\ l = h /\ code[to] = << >> /\ c[to][1] = ToRun(h)
      /\ to \in Pending(Here) /\ to \in Block /\ to # Top
  BY <1>1, <1>2, <1>4 DEF Waits, Awaits, Pending
<1>6. PICK d : Marks(c, d, 0, << >>, << >>)
  BY <1>1, ExtendCode
<1>7. Extends(code, c, d) /\ d[Top][Len(code[Top]) + 1] = ToRun(h) /\ d[to][1] = ToRun(h)
  <2>1. Extends(code, c, d) /\ d[Top][Len(code[Top]) + 1] = c[Top][Len(code[Top]) + 1]
    BY <1>6 DEF Marks
  <2>2. to \in DOMAIN code /\ 1 \in 1 .. Len(code[to]) + 1
    BY <1>2, <1>5, CodeFacts
  <2>3. d[to][1] = c[to][1]
    BY <2>1, <2>2 DEF Extends
  <2>. QED BY <1>4, <1>5, <2>1, <2>3
<1>8. Does(Block, code, out, d)
  <2>1. Runs(Br(to), ToRun(h), d[Top][Len(code[Top]) + 2], d)
    BY <1>7, RunsOf
  <2>. QED BY <1>2, <1>7, <2>1, DoesOne
<1>9. DOMAIN out = {Top} /\ \A b \in DOMAIN out : out[b] \in Seq(Instr(1 .. nblk + 0))
  BY <1>2, <1>5 DEF Br, In, Instr
<1>10. AddsCode(c, d, 0, out)
  BY <1>1, <1>7, <1>8, <1>9 DEF AddsCode
<1>11. PICK x : x = << >>
  OBVIOUS
<1>12. Leaves(c, k, d, 0, out, x, to)
  <2>1. /\ Renews(calls, calls', x, k) /\ Len(x) = 0
        /\ Under(x, Len(x), k[Len(calls) - 1]) = h
    BY <1>1, <1>2, <1>4, <1>11, RenewsNone
  <2>2. 1 .. Len(x) = {}
    BY <2>1
  <2>. QED BY <1>1, <1>5, <1>7, <1>9, <1>10, <2>1, <2>2 DEF Leaves
<1>. HIDE DEF out, to
<1>13. Means(d)'
  BY <1>1, <1>4, <1>12, MeansLeave
<1>. QED BY <1>13, MeansNext

LEMMA MeansEndWhile ==
    ASSUME IInv, IInv', EndWhile, NEW c, Means(c)
    PROVE  (\E e : Means(e))'
<1>. DEFINE out == In(Top, <<Br(Here.start)>>)
            to == Here.exit
<1>1. /\ Running /\ Here.kind = "while" /\ Emit(0, curFn, out) /\ fns' = fns
      /\ stack' = ReplaceTop(to) /\ Return
  BY DEF EndWhile
<1>2. /\ TypeOK /\ Top \in Block /\ nblk \in Nat /\ Len(code[Top]) \in Nat /\ Block = 1 .. nblk
      /\ \A b \in Pending(Here) : b \in Block /\ b # Top
  BY <1>1, OnTopFacts
<1>3. PICK k, h, l : OnTop(c, k, h, l)
  BY <1>1, OnTopFacts
<1>4. /\ Waits(code, c, Here, h, l) /\ c[Top][Len(code[Top]) + 1] = ToRun(l)
      /\ Chain(code, calls, Top, c, k) /\ h = k[Len(calls) - 1]
  BY <1>1, <1>2, <1>3, OnTopMeans
<1>5. /\ c[Here.start][1] = ToRun(l) /\ code[to] = << >> /\ c[to][1] = ToRun(h)
      /\ to \in Pending(Here) /\ to \in Block /\ Here.start \in Block
  BY <1>1, <1>2, <1>4, HereType DEF Waits, Awaits, Pending
<1>6. PICK d : Marks(c, d, 0, << >>, << >>)
  BY <1>1, ExtendCode
<1>7. /\ Extends(code, c, d) /\ d[Top][Len(code[Top]) + 1] = ToRun(l) /\ d[to][1] = ToRun(h)
      /\ d[Here.start][1] = ToRun(l)
  <2>1. Extends(code, c, d) /\ d[Top][Len(code[Top]) + 1] = c[Top][Len(code[Top]) + 1]
    BY <1>6 DEF Marks
  <2>2. \A b \in Block : b \in DOMAIN code /\ 1 \in 1 .. Len(code[b]) + 1
    BY <1>2, CodeFacts
  <2>3. d[to][1] = c[to][1] /\ d[Here.start][1] = c[Here.start][1]
    BY <1>5, <2>1, <2>2 DEF Extends
  <2>. QED BY <1>4, <1>5, <2>1, <2>3
<1>8. Does(Block, code, out, d)
  <2>1. Runs(Br(Here.start), ToRun(l), d[Top][Len(code[Top]) + 2], d)
    BY <1>7, RunsOf
  <2>. QED BY <1>2, <1>7, <2>1, DoesOne
<1>9. DOMAIN out = {Top} /\ \A b \in DOMAIN out : out[b] \in Seq(Instr(1 .. nblk + 0))
  BY <1>2, <1>5 DEF Br, In, Instr
<1>10. AddsCode(c, d, 0, out)
  BY <1>1, <1>7, <1>8, <1>9 DEF AddsCode
<1>11. PICK x : x = << >>
  OBVIOUS
<1>12. Leaves(c, k, d, 0, out, x, to)
  <2>1. /\ Renews(calls, calls', x, k) /\ Len(x) = 0
        /\ Under(x, Len(x), k[Len(calls) - 1]) = h
    BY <1>1, <1>2, <1>4, <1>11, RenewsNone
  <2>2. 1 .. Len(x) = {}
    BY <2>1
  <2>. QED BY <1>1, <1>5, <1>7, <1>9, <1>10, <2>1, <2>2 DEF Leaves
<1>. HIDE DEF out, to
<1>13. Means(d)'
  BY <1>1, <1>4, <1>12, MeansLeave
<1>. QED BY <1>13, MeansNext

LEMMA MeansEndRepeat ==
    ASSUME IInv, IInv', EndRepeat, NEW c, Means(c)
    PROVE  (\E e : Means(e))'
<1>. DEFINE out == In(Top, <<CondBr(Here.node.id, nblk + 1, Here.loop)>>)
            to == nblk + 1
<1>1. /\ Running /\ Here.kind = "repeat" /\ Emit(1, curFn, out) /\ fns' = fns
      /\ stack' = ReplaceTop(to) /\ Return
  BY DEF EndRepeat
<1>2. /\ TypeOK /\ Top \in Block /\ nblk \in Nat /\ Len(code[Top]) \in Nat /\ Block = 1 .. nblk
  BY <1>1, OnTopFacts
<1>3. PICK k, h, l : OnTop(c, k, h, l)
  BY <1>1, OnTopFacts
<1>4. /\ Waits(code, c, Here, h, l) /\ c[Top][Len(code[Top]) + 1] = ToRun(l)
      /\ Chain(code, calls, Top, c, k) /\ h = k[Len(calls) - 1] /\ h \in Pascal!Todo
  BY <1>1, <1>2, <1>3, OnTopMeans
<1>5. PICK s : s = Here.node
  OBVIOUS
<1>6. /\ s \in Stm /\ s.id \in Id /\ Here.loop \in Block
      /\ l = <<Pascal!At("until", s)>> \o h /\ c[Here.loop][1] = ToRun(s.body \o l)
  BY <1>1, <1>2, <1>4, <1>5, HereType, StmAssumption DEF Waits
<1>7. ToRun(l) = l /\ Tested(s.id, l, ToRun(h), ToRun(s.body \o l))
  <2>1. PICK p : p = "until"
    OBVIOUS
  <2>2. p \in {"until", "forTest", "forStep"} /\ l = <<Pascal!At(p, s)>> \o h
    BY <1>6, <2>1
  <2>3. ToRun(l) = l /\ (p = "until" => Tested(s.id, l, ToRun(h), ToRun(s.body \o l)))
    BY <1>4, <1>6, <2>2, AfterPoint
  <2>. QED BY <2>1, <2>3
<1>8. PICK g : g = <<ToRun(h)>>
  OBVIOUS
<1>9. PICK d : Marks(c, d, 1, g, << >>)
  BY <1>1, ExtendCode
<1>10. /\ Extends(code, c, d) /\ d[Top][Len(code[Top]) + 1] = l /\ d[to][1] = ToRun(h)
       /\ d[Here.loop][1] = ToRun(s.body \o l)
  <2>1. /\ Extends(code, c, d) /\ d[Top][Len(code[Top]) + 1] = c[Top][Len(code[Top]) + 1]
        /\ \A j \in 1 .. 1 : d[nblk + j][1] = g[j]
    BY <1>9 DEF Marks
  <2>2. \A b \in Block : b \in DOMAIN code /\ 1 \in 1 .. Len(code[b]) + 1
    BY <1>2, CodeFacts
  <2>3. d[Here.loop][1] = c[Here.loop][1]
    BY <1>6, <2>1, <2>2 DEF Extends
  <2>4. d[to][1] = ToRun(h)
    <3>1. 1 \in 1 .. 1 /\ g[1] = ToRun(h)
      BY <1>8
    <3>2. d[nblk + 1][1] = g[1]
      BY <2>1, <3>1
    <3>. QED BY <3>1, <3>2
  <2>. QED BY <1>4, <1>6, <1>7, <2>1, <2>3, <2>4
<1>11. Does(Block, code, out, d)
  <2>1. Tested(s.id, l, d[to][1], d[Here.loop][1])
    BY <1>7, <1>10
  <2>2. Runs(CondBr(s.id, to, Here.loop), l, d[Top][Len(code[Top]) + 2], d)
    BY <2>1, RunsOf
  <2>. QED BY <1>2, <1>5, <1>10, <2>2, DoesOne
<1>12. DOMAIN out = {Top} /\ \A b \in DOMAIN out : out[b] \in Seq(Instr(1 .. nblk + 1))
  <2>1. CondBr(Here.node.id, nblk + 1, Here.loop) \in Instr(1 .. nblk + 1)
    <3>1. nblk + 1 \in 1 .. nblk + 1 /\ Here.loop \in 1 .. nblk + 1 /\ Here.node.id \in Id
      BY <1>2, <1>5, <1>6
    <3>. QED BY <3>1, InstrType
  <2>. QED BY <2>1 DEF In
<1>13. AddsCode(c, d, 1, out)
  BY <1>1, <1>10, <1>11, <1>12 DEF AddsCode
<1>14. PICK x : x = << >>
  OBVIOUS
<1>15. Leaves(c, k, d, 1, out, x, to)
  <2>1. /\ Renews(calls, calls', x, k) /\ Len(x) = 0
        /\ Under(x, Len(x), k[Len(calls) - 1]) = h
    BY <1>1, <1>2, <1>4, <1>14, RenewsNone
  <2>2. 1 .. Len(x) = {}
    BY <2>1
  <2>3. to \in NewBlocks(1)
    BY <1>2 DEF NewBlocks
  <2>. QED BY <1>1, <1>10, <1>12, <1>13, <2>1, <2>2, <2>3 DEF Leaves
<1>. HIDE DEF out, to
<1>16. Means(d)'
  BY <1>1, <1>4, <1>15, MeansLeave
<1>. QED BY <1>16, MeansNext

LEMMA MeansThen ==
    ASSUME IInv, IInv', EndThen, NEW c, Means(c)
    PROVE  (\E e : Means(e))'
<1>. DEFINE out == In(Top, <<Br(Here.merge)>>)
            to == Here.no
            fr == ElseFrame(Here.merge)
<1>1. /\ Running /\ Here.kind = "then" /\ Emit(0, curFn, out) /\ fns' = fns
      /\ stack' = ReplaceTop(to) /\ BecomeAndCall(fr, Here.node.alt)
  BY DEF EndThen
<1>2. /\ TypeOK /\ Top \in Block /\ nblk \in Nat /\ Len(code[Top]) \in Nat /\ Block = 1 .. nblk
      /\ \A b \in Pending(Here) : b \in Block /\ b # Top
  BY <1>1, OnTopFacts
<1>3. PICK k, h, l : OnTop(c, k, h, l)
  BY <1>1, OnTopFacts
<1>4. /\ Waits(code, c, Here, h, l) /\ c[Top][Len(code[Top]) + 1] = ToRun(l)
      /\ Chain(code, calls, Top, c, k) /\ h = k[Len(calls) - 1] /\ h \in Pascal!Todo
  BY <1>1, <1>2, <1>3, OnTopMeans
<1>5. PICK q : q = Here.node.alt
  OBVIOUS
<1>6. /\ l = h /\ code[to] = << >> /\ c[to][1] = ToRun(q \o h)
      /\ code[Here.merge] = << >> /\ c[Here.merge][1] = ToRun(h)
      /\ Here.merge \in Pending(Here) /\ Here.merge \in Block
      /\ to \in Pending(Here) /\ to \in Block
  BY <1>1, <1>2, <1>4, <1>5 DEF Waits, Awaits, Pending
<1>7. q \in Seq(Stm) /\ q \o h \in Pascal!Todo
  <2>1. Here.node \in Stm
    BY <1>1, <1>2, HereType
  <2>. QED BY <1>4, <1>5, <2>1, TodoParts
<1>8. PICK d : Marks(c, d, 0, << >>, << >>)
  BY <1>1, ExtendCode
<1>9. /\ Extends(code, c, d) /\ d[Top][Len(code[Top]) + 1] = ToRun(h) /\ d[to][1] = ToRun(q \o h)
      /\ d[Here.merge][1] = ToRun(h)
  <2>1. Extends(code, c, d) /\ d[Top][Len(code[Top]) + 1] = c[Top][Len(code[Top]) + 1]
    BY <1>8 DEF Marks
  <2>2. \A b \in Block : b \in DOMAIN code /\ 1 \in 1 .. Len(code[b]) + 1
    BY <1>2, CodeFacts
  <2>3. d[to][1] = c[to][1] /\ d[Here.merge][1] = c[Here.merge][1]
    BY <1>6, <2>1, <2>2 DEF Extends
  <2>. QED BY <1>4, <1>6, <2>1, <2>3
<1>10. Does(Block, code, out, d)
  <2>1. Runs(Br(Here.merge), ToRun(h), d[Top][Len(code[Top]) + 2], d)
    BY <1>9, RunsOf
  <2>. QED BY <1>2, <1>9, <2>1, DoesOne
<1>11. DOMAIN out = {Top} /\ \A b \in DOMAIN out : out[b] \in Seq(Instr(1 .. nblk + 0))
  BY <1>2, <1>6 DEF Br, In, Instr
<1>12. AddsCode(c, d, 0, out)
  BY <1>1, <1>9, <1>10, <1>11 DEF AddsCode
<1>13. PICK x : x = <<h, q \o h>>
  OBVIOUS
<1>14. fr \in Frame(Block, Fn)
  BY <1>6 DEF ElseFrame, Frame
<1>15. /\ Renews(calls, calls', x, k) /\ Len(x) = 2
       /\ calls'[Len(calls) - 1 + 1] = fr
       /\ calls'[Len(calls) - 1 + 2] = BodyFrame(Here.node.alt)
       /\ Under(x, 1 - 1, k[Len(calls) - 1]) = k[Len(calls) - 1] /\ x[1] = h
       /\ Under(x, 2 - 1, k[Len(calls) - 1]) = h /\ x[2] = q \o h
       /\ Under(x, Len(x), k[Len(calls) - 1]) = q \o h
  <2>1. PICK w : w = q \o h
    OBVIOUS
  <2>2. Two(x, h, w) /\ Here.node.alt \in Seq(Stm)
    BY <1>4, <1>5, <1>7, <1>13, <2>1 DEF Two
  <2>3. TwoOn(fr, Here.node.alt, k, x, h, w)
    <3>. HIDE DEF fr
    <3>. QED BY <1>1, <1>2, <1>4, <1>14, <2>2, RenewsTwo
  <2>. QED BY <2>1, <2>3 DEF TwoOn
<1>16. Waits(code', d, fr, h, h)
  <2>1. code'[Here.merge] = << >>
    BY <1>1, <1>6, <1>11, PendingStays
  <2>. QED BY <1>9, <2>1 DEF Waits, Awaits, ElseFrame
<1>17. Waits(code', d, BodyFrame(Here.node.alt), h, q \o h)
  BY <1>5 DEF Waits, BodyFrame
<1>18. Leaves(c, k, d, 0, out, x, to)
  <2>1. ASSUME NEW j \in 1 .. Len(x)
        PROVE  Waits(code', d, calls'[Len(calls) - 1 + j], Under(x, j - 1, k[Len(calls) - 1]), x[j])
    <3>1. CASE j = 1
      BY <1>4, <1>15, <1>16, <3>1
    <3>2. CASE j = 2
      BY <1>15, <1>17, <3>2
    <3>. QED BY <1>15, <3>1, <3>2
  <2>. HIDE DEF out, to, fr
  <2>2. d[to][1] = ToRun(Under(x, Len(x), k[Len(calls) - 1]))
    BY <1>9, <1>15
  <2>. QED BY <1>1, <1>6, <1>11, <1>12, <1>15, <2>1, <2>2 DEF Leaves
<1>. HIDE DEF out, to
<1>19. Means(d)'
  BY <1>1, <1>4, <1>18, MeansLeave
<1>. QED BY <1>19, MeansNext

LEMMA MeansEndFor ==
    ASSUME IInv, IInv', EndFor, NEW c, Means(c)
    PROVE  (\E e : Means(e))'
<1>. DEFINE out == In(Top, <<StepVar(Here.node.id), Br(Here.start)>>)
            to == Here.exit
            fr == BodyFrame(Here.node.body)
<1>1. /\ Running /\ Here.kind = "for" /\ Emit(0, curFn, out) /\ fns' = fns
      /\ stack' = ReplaceTop(to) /\ Become(fr)
  BY DEF EndFor
<1>2. /\ TypeOK /\ Top \in Block /\ nblk \in Nat /\ Len(code[Top]) \in Nat /\ Block = 1 .. nblk
      /\ \A b \in Pending(Here) : b \in Block /\ b # Top
  BY <1>1, OnTopFacts
<1>3. PICK k, h, l : OnTop(c, k, h, l)
  BY <1>1, OnTopFacts
<1>4. /\ Waits(code, c, Here, h, l) /\ c[Top][Len(code[Top]) + 1] = ToRun(l)
      /\ Chain(code, calls, Top, c, k) /\ h = k[Len(calls) - 1] /\ h \in Pascal!Todo
  BY <1>1, <1>2, <1>3, OnTopMeans
<1>5. PICK s : s = Here.node
  OBVIOUS
<1>6. PICK t : t = <<Pascal!At("forTest", s)>> \o h
  OBVIOUS
<1>7. /\ s \in Stm /\ s.id \in Id /\ Here.start \in Block
      /\ l = <<Pascal!At("forStep", s)>> \o h /\ c[Here.start][1] = t
      /\ code[to] = << >> /\ c[to][1] = ToRun(s.body \o h)
      /\ to \in Pending(Here) /\ to \in Block
  BY <1>1, <1>2, <1>4, <1>5, <1>6, HereType, StmAssumption DEF Waits, Awaits, Pending
<1>8. ToRun(l) = l /\ Assigned("step", s.id, l, t)
  <2>1. PICK p : p = "forStep"
    OBVIOUS
  <2>2. p \in {"until", "forTest", "forStep"} /\ l = <<Pascal!At(p, s)>> \o h
    BY <1>7, <2>1
  <2>3. /\ ToRun(l) = l
        /\ p = "forStep" => Assigned("step", s.id, l, <<Pascal!At("forTest", s)>> \o h)
    BY <1>4, <1>7, <2>2, AfterPoint
  <2>. QED BY <1>6, <2>1, <2>3
<1>9. s.body \o h \in Pascal!Todo
  BY <1>4, <1>7, TodoParts
<1>10. PICK d : Marks(c, d, 0, << >>, t)
  BY <1>1, ExtendCode
<1>11. /\ Extends(code, c, d) /\ d[Top][Len(code[Top]) + 1] = l
       /\ d[Top][Len(code[Top]) + 2] = t /\ d[to][1] = ToRun(s.body \o h)
       /\ d[Here.start][1] = t
  <2>1. /\ Extends(code, c, d) /\ d[Top][Len(code[Top]) + 1] = c[Top][Len(code[Top]) + 1]
        /\ d[Top][Len(code[Top]) + 2] = t
    BY <1>10 DEF Marks
  <2>2. \A b \in Block : b \in DOMAIN code /\ 1 \in 1 .. Len(code[b]) + 1
    BY <1>2, CodeFacts
  <2>3. d[to][1] = c[to][1] /\ d[Here.start][1] = c[Here.start][1]
    BY <1>7, <2>1, <2>2 DEF Extends
  <2>. QED BY <1>4, <1>7, <1>8, <2>1, <2>3
<1>12. Does(Block, code, out, d)
  <2>1. Runs(StepVar(s.id), l, t, d)
    BY <1>8, RunsOf
  <2>2. Runs(Br(Here.start), t, d[Top][Len(code[Top]) + 3], d)
    BY <1>11, RunsOf
  <2>3. out = [b \in {Top} |-> <<StepVar(s.id), Br(Here.start)>>]
    BY <1>5 DEF In
  <2>4. DOMAIN out = {Top} /\ Len(out[Top]) = 2
        /\ out[Top][1] = StepVar(s.id) /\ out[Top][2] = Br(Here.start)
    BY <2>3
  <2>. HIDE DEF out
  <2>5. ASSUME NEW j \in 1 .. Len(out[Top])
        PROVE  Runs(out[Top][j], d[Top][Len(code[Top]) + j], d[Top][Len(code[Top]) + j + 1], d)
    <3>1. CASE j = 1
      <4>1. Len(code[Top]) + j + 1 = Len(code[Top]) + 2 /\ Len(code[Top]) + j = Len(code[Top]) + 1
        BY <1>2, <3>1
      <4>. QED BY <1>11, <2>1, <2>4, <3>1, <4>1
    <3>2. CASE j = 2
      <4>1. Len(code[Top]) + j + 1 = Len(code[Top]) + 3 /\ Len(code[Top]) + j = Len(code[Top]) + 2
        BY <1>2, <3>2
      <4>. QED BY <1>11, <2>2, <2>4, <3>2, <4>1
    <3>. QED BY <2>4, <3>1, <3>2
  <2>. QED BY <1>2, <2>4, <2>5 DEF Does
<1>13. DOMAIN out = {Top} /\ \A b \in DOMAIN out : out[b] \in Seq(Instr(1 .. nblk + 0))
  <2>1. PICK I : I = Instr(1 .. nblk + 0)
    OBVIOUS
  <2>2. StepVar(Here.node.id) \in I /\ Br(Here.start) \in I
    <3>1. Here.start \in 1 .. nblk + 0 /\ Here.node.id \in Id
      BY <1>2, <1>5, <1>7
    <3>. QED BY <2>1, <3>1, InstrType
  <2>3. <<StepVar(Here.node.id), Br(Here.start)>> \in Seq(I)
    BY <2>2
  <2>. QED BY <2>1, <2>3 DEF In
<1>14. AddsCode(c, d, 0, out)
  BY <1>1, <1>11, <1>12, <1>13 DEF AddsCode
<1>15. PICK w, x : w = s.body \o h /\ x = <<w>>
  OBVIOUS
<1>16. /\ Renews(calls, calls', x, k) /\ Len(x) = 1
       /\ calls'[Len(calls) - 1 + 1] = fr
       /\ Under(x, 1 - 1, k[Len(calls) - 1]) = k[Len(calls) - 1] /\ x[1] = w
       /\ Under(x, Len(x), k[Len(calls) - 1]) = w
  <2>1. One(x, w)
    BY <1>9, <1>15 DEF One
  <2>2. OneOn(fr, k, x, w)
    <3>. HIDE DEF fr
    <3>. QED BY <1>1, <1>2, <2>1, RenewsOne
  <2>. QED BY <2>2 DEF OneOn
<1>17. Waits(code', d, fr, h, w)
  BY <1>5, <1>15 DEF Waits, BodyFrame
<1>18. Leaves(c, k, d, 0, out, x, to)
  <2>1. ASSUME NEW j \in 1 .. Len(x)
        PROVE  Waits(code', d, calls'[Len(calls) - 1 + j], Under(x, j - 1, k[Len(calls) - 1]), x[j])
    <3>1. j = 1
      BY <1>16
    <3>. QED BY <1>4, <1>16, <1>17, <3>1
  <2>. HIDE DEF out, to, fr
  <2>2. d[to][1] = ToRun(Under(x, Len(x), k[Len(calls) - 1]))
    BY <1>11, <1>15, <1>16
  <2>. QED BY <1>1, <1>7, <1>13, <1>14, <1>16, <2>1, <2>2 DEF Leaves
<1>. HIDE DEF out, to
<1>19. Means(d)'
  BY <1>1, <1>4, <1>18, MeansLeave
<1>. QED BY <1>19, MeansNext

(* A step that adds no code. *)
Silent(c, k, x) ==
    /\ UNCHANGED <<code, nblk, fns, stack>>
    /\ Renews(calls, calls', x, k)
    /\ \A j \in 1 .. Len(x) :
          Waits(code, c, calls'[Len(calls) - 1 + j], Under(x, j - 1, k[Len(calls) - 1]), x[j])
    /\ ToRun(k[Len(calls)]) = ToRun(Under(x, Len(x), k[Len(calls) - 1]))

(* A step without code keeps the invariant. *)
LEMMA MeansSilent ==
    ASSUME IInv, IInv', Running, NEW c, Means(c), NEW k, Chain(code, calls, Top, c, k),
           NEW x, Silent(c, k, x)
    PROVE  Means(c)'
<1>. USE DEF Silent
<1>1. TypeOK /\ code \in [Block -> Seq(Instr(Block))] /\ Block' = Block
  BY RunningFacts DEF TypeOK, Block
<1>2. PICK out : out = << >>
  OBVIOUS
<1>3. DOMAIN out = {}
  BY <1>2
<1>4. Grows(Block, code, Block', code', out)
  BY <1>1, <1>3 DEF Grows
<1>5. Extends(code, c, c) /\ Does(Block, code, out, c)
  BY <1>3 DEF Extends, Does
<1>6. Top' = Top /\ c[Top'][Len(code'[Top']) + 1] = ToRun(Under(x, Len(x), k[Len(calls) - 1]))
  BY <1>1, ChainTop DEF Top
<1>7. Lowers(c, k, c, out, x)
  BY <1>3, <1>4, <1>5, <1>6 DEF Lowers
<1>8. \A fn \in Fn' : c[fns'[fn].entry][1] = ToRun(fns'[fn].body)
  BY <1>1, <1>5, EntriesStill
<1>. QED BY <1>7, <1>8, MeansStep

(* A goto, and a list that is over. *)
LEMMA MeansGoto ==
    ASSUME IInv, IInv', SkipGoto, NEW c, Means(c)
    PROVE  (\E e : Means(e))'
<1>1. /\ AtStatement({"goto"}) /\ Become(Rest) /\ UNCHANGED <<code, nblk, fns, stack>>
  BY DEF SkipGoto
<1>2. Running /\ TypeOK
  BY <1>1, StmtFacts
<1>3. PICK k, l, h, r, s : AtNext({"goto"}, c, k, l, h, r, s)
  BY <1>1, StmtFacts
<1>4. /\ s.kind = "goto" /\ l \in Pascal!Todo /\ l # << >> /\ l[1] = s /\ Tail(l) = r
      /\ r \in Pascal!Todo /\ l = k[Len(calls)] /\ h = k[Len(calls) - 1]
      /\ Chain(code, calls, Top, c, k) /\ r = Tail(Here.rest) \o h
  <2>1. s.kind \in {"goto"} /\ l \in Pascal!Todo /\ l # << >> /\ l[1] = s /\ Tail(l) = r
        /\ r \in Pascal!Todo
    BY <1>2, <1>3, StmtHead
  <2>. QED BY <1>3, <2>1 DEF AtNext
<1>5. PICK x : x = <<r>>
  OBVIOUS
<1>6. OneOn(Rest, k, x, r)
  <2>1. One(x, r)
    BY <1>4, <1>5 DEF One
  <2>. QED BY <1>1, <1>2, <2>1, RenewsOne
<1>7. ToRun(l) = ToRun(r)
  BY <1>4, UnfoldIs
<1>8. Waits(code, c, Rest, h, r)
  BY <1>4 DEF Waits, Rest, BodyFrame
<1>9. Silent(c, k, x)
  <2>1. /\ Renews(calls, calls', x, k) /\ Len(x) = 1
        /\ calls'[Len(calls) - 1 + 1] = Rest
        /\ Under(x, 1 - 1, k[Len(calls) - 1]) = h /\ x[1] = r
        /\ Under(x, Len(x), k[Len(calls) - 1]) = r
    BY <1>4, <1>6 DEF OneOn
  <2>2. ASSUME NEW j \in 1 .. Len(x)
        PROVE  Waits(code, c, calls'[Len(calls) - 1 + j], Under(x, j - 1, k[Len(calls) - 1]), x[j])
    <3>1. j = 1
      BY <2>1
    <3>. QED BY <1>8, <2>1, <3>1
  <2>. QED BY <1>1, <1>4, <1>7, <2>1, <2>2 DEF Silent
<1>10. Means(c)'
  BY <1>2, <1>4, <1>9, MeansSilent
<1>. QED BY <1>10, MeansNext

LEMMA MeansDone ==
    ASSUME IInv, IInv', BodyDone \/ FuncsDone, NEW c, Means(c)
    PROVE  (\E e : Means(e))'
<1>1. /\ Running /\ Return /\ UNCHANGED <<code, nblk, fns, stack>>
      /\ Here.kind = "funcs" \/ (Here.kind = "body" /\ Here.rest = << >>)
  BY DEF BodyDone, FuncsDone
<1>2. TypeOK
  BY <1>1, OnTopFacts
<1>3. PICK k, h, l : OnTop(c, k, h, l)
  BY <1>1, OnTopFacts
<1>4. /\ Waits(code, c, Here, h, l) /\ h \in Pascal!Todo /\ l = k[Len(calls)]
      /\ Chain(code, calls, Top, c, k) /\ h = k[Len(calls) - 1]
  BY <1>1, <1>2, <1>3, OnTopMeans DEF OnTop
<1>5. l = h
  <2>1. << >> \o h = h
    BY <1>4, PieceIs
  <2>. QED BY <1>1, <1>4, <2>1 DEF Waits
<1>6. PICK x : x = << >>
  OBVIOUS
<1>7. Silent(c, k, x)
  <2>1. /\ Renews(calls, calls', x, k) /\ Len(x) = 0
        /\ Under(x, Len(x), k[Len(calls) - 1]) = h
    BY <1>1, <1>2, <1>4, <1>6, RenewsNone
  <2>2. 1 .. Len(x) = {}
    BY <2>1
  <2>. QED BY <1>1, <1>4, <1>5, <2>1, <2>2 DEF Silent
<1>8. Means(c)'
  BY <1>1, <1>4, <1>7, MeansSilent
<1>. QED BY <1>8, MeansNext

(* An assignment or a call. *)
LEMMA MeansSimple ==
    ASSUME IInv, IInv', EmitSimple, NEW c, Means(c)
    PROVE  (\E e : Means(e))'
<1>. DEFINE out == In(Top, <<Do(Stmt.id)>>)
<1>1. /\ AtStatement({"simple"}) /\ Emit(0, curFn, out) /\ Become(Rest)
      /\ fns' = fns /\ stack' = stack
  BY DEF EmitSimple
<1>2. /\ Running /\ TypeOK /\ Top \in Block /\ nblk \in Nat /\ Len(code[Top]) \in Nat
      /\ Block = 1 .. nblk
  BY <1>1, StmtFacts
<1>3. PICK k, l, h, r, s : AtNext({"simple"}, c, k, l, h, r, s)
  BY <1>1, StmtFacts
<1>4. /\ s \in Stm /\ s.kind = "simple" /\ s = Stmt
      /\ Begins(l, s, r) /\ r \in Pascal!Todo
      /\ c[Top][Len(code[Top]) + 1] = l
      /\ r = Tail(Here.rest) \o h /\ h = k[Len(calls) - 1]
      /\ Chain(code, calls, Top, c, k)
  <2>1. s.kind \in {"simple"} /\ (s.kind \notin {"goto", "repeat"} => ToRun(l) = l)
    BY <1>2, <1>3, StmtHead
  <2>2. /\ s = Stmt /\ r = Tail(Here.rest) \o h /\ h = k[Len(calls) - 1]
        /\ Chain(code, calls, Top, c, k)
    BY <1>3 DEF AtNext
  <2>3. /\ s \in Stm /\ Begins(l, s, r) /\ r \in Pascal!Todo /\ c[Top][Len(code[Top]) + 1] = ToRun(l)
    BY <1>2, <1>3, StmtHead
  <2>. QED BY <2>1, <2>2, <2>3
<1>5. PICK mid : mid = ToRun(r)
  OBVIOUS
<1>6. PICK d : Marks(c, d, 0, << >>, mid)
  BY <1>2, ExtendCode
<1>7. Extends(code, c, d) /\ d[Top][Len(code[Top]) + 1] = l /\ d[Top][Len(code[Top]) + 2] = mid
  BY <1>4, <1>6 DEF Marks
<1>8. Does(Block, code, out, d)
  <2>1. Assigned("do", s.id, l, mid)
    BY <1>4, <1>5, AfterStatement
  <2>2. Runs(Do(s.id), l, mid, d)
    BY <2>1, RunsOf
  <2>. QED BY <1>2, <1>4, <1>7, <2>2, DoesOne
<1>9. DOMAIN out = {Top} /\ \A b \in DOMAIN out : out[b] \in Seq(Instr(1 .. nblk + 0))
  <2>1. Do(Stmt.id) \in Instr(1 .. nblk + 0)
    BY <1>1, <1>2, StmtType, InstrType
  <2>. QED BY <2>1 DEF In
<1>10. Grows(Block, code, Block', code', out)
  BY <1>1, <1>2, <1>9, RunningFacts, EmitGrows DEF IInv
<1>11. PICK x : x = <<r>>
  OBVIOUS
<1>12. OneOn(Rest, k, x, r)
  <2>1. One(x, r)
    BY <1>4, <1>11 DEF One
  <2>. QED BY <1>1, <1>2, <2>1, RenewsOne
<1>13. Waits(code', d, Rest, h, r)
  BY <1>4 DEF Waits, Rest, BodyFrame
<1>14. d[Top'][Len(code'[Top']) + 1] = ToRun(r)
  <2>1. Top' = Top
    BY <1>1 DEF Top
  <2>2. code'[Top] = code[Top] \o <<Do(Stmt.id)>>
    BY <1>2, <1>9, <1>10 DEF Grows, In
  <2>3. PICK q, i, I : q = code[Top] /\ i = Do(Stmt.id) /\ I = Instr(Block)
    OBVIOUS
  <2>4. q \in Seq(I) /\ i \in I
    BY <1>1, <1>2, <2>3, CodeFacts, StmtType, InstrType
  <2>5. Len(q \o <<i>>) = Len(q) + 1 /\ Len(q) + 1 + 1 = Len(q) + 2
    BY <2>4
  <2>. QED BY <1>5, <1>7, <2>1, <2>2, <2>3, <2>5
<1>15. Lowers(c, k, d, out, x)
  <2>1. /\ Renews(calls, calls', x, k) /\ Len(x) = 1
        /\ calls'[Len(calls) - 1 + 1] = Rest
        /\ Under(x, 1 - 1, k[Len(calls) - 1]) = h /\ x[1] = r
        /\ Under(x, Len(x), k[Len(calls) - 1]) = r
    BY <1>4, <1>12 DEF OneOn
  <2>2. ASSUME NEW j \in 1 .. Len(x)
        PROVE  Waits(code', d, calls'[Len(calls) - 1 + j], Under(x, j - 1, k[Len(calls) - 1]), x[j])
    <3>1. j = 1
      BY <2>1
    <3>. QED BY <1>13, <2>1, <3>1
  <2>. HIDE DEF out
  <2>. QED BY <1>7, <1>8, <1>9, <1>10, <1>14, <2>1, <2>2 DEF Lowers
<1>16. \A fn \in Fn' : d[fns'[fn].entry][1] = ToRun(fns'[fn].body)
  BY <1>1, <1>2, <1>7, EntriesStill
<1>. HIDE DEF out
<1>17. Means(d)'
  BY <1>2, <1>4, <1>15, <1>16, MeansStep
<1>. QED BY <1>17, MeansNext

(* A function begins with its own body to run and nothing after it; its    *)
(* caller goes on where the caller was.                                    *)
LEMMA MeansFunc ==
    ASSUME IInv, IInv', BeginFunc, NEW c, Means(c)
    PROVE  (\E e : Means(e))'
<1>. DEFINE out == In(nblk + 1, << >>)
<1>1. /\ Running /\ Here.kind = "funcs" /\ Here.defs # << >>
      /\ Emit(1, Len(fns) + 1, out)
      /\ fns' = Append(fns, [entry |-> nblk + 1, body |-> Here.defs[1].body])
      /\ stack' = Append(stack, nblk + 1)
  BY DEF BeginFunc
<1>2. /\ TypeOK /\ Top \in Block /\ nblk \in Nat /\ Len(code[Top]) \in Nat /\ Block = 1 .. nblk
      /\ Len(calls) \in Nat /\ Len(calls) > 0
  BY <1>1, OnTopFacts
<1>3. PICK k, h, l : OnTop(c, k, h, l)
  BY <1>1, OnTopFacts
<1>4. /\ Waits(code, c, Here, h, l) /\ c[Top][Len(code[Top]) + 1] = ToRun(l)
      /\ Chain(code, calls, Top, c, k) /\ h = k[Len(calls) - 1] /\ h \in Pascal!Todo
  BY <1>1, <1>2, <1>3, OnTopMeans
<1>5. l = h
  BY <1>1, <1>4 DEF Waits
<1>6. PICK body : body = Here.defs[1].body
  OBVIOUS
<1>7. body \in Seq(Stm) /\ body \in Pascal!Todo /\ << >> \in Pascal!Todo /\ body \o << >> = body
  <2>1. Here.defs \in Seq(FuncDef)
    BY <1>1, <1>2, HereType
  <2>2. body \in Seq(Stm)
    BY <1>1, <1>6, <2>1, FuncDefAssumption
  <2>3. body \in Seq(Piece)
    BY <2>2, PieceIs, SeqSubset
  <2>4. body \o << >> = body
    BY <2>2
  <2>. QED BY <2>2, <2>3, <2>4, PieceIs
<1>8. PICK g : g = <<ToRun(body)>>
  OBVIOUS
<1>9. PICK d : Marks(c, d, 1, g, << >>)
  BY <1>1, ExtendCode
<1>10. Extends(code, c, d) /\ d[Top][Len(code[Top]) + 1] = ToRun(h) /\ d[nblk + 1][1] = ToRun(body)
  <2>1. /\ Extends(code, c, d) /\ d[Top][Len(code[Top]) + 1] = c[Top][Len(code[Top]) + 1]
        /\ \A j \in 1 .. 1 : d[nblk + j][1] = g[j]
    BY <1>9 DEF Marks
  <2>2. 1 \in 1 .. 1 /\ g[1] = ToRun(body)
    BY <1>8
  <2>3. d[nblk + 1][1] = g[1]
    BY <2>1, <2>2
  <2>. QED BY <1>4, <1>5, <2>1, <2>2, <2>3
<1>11. DOMAIN out = {nblk + 1} /\ out[nblk + 1] = << >>
  BY DEF In
<1>12. Does(Block, code, out, d)
  <2>1. \A b \in DOMAIN out : out[b] = << >> /\ 1 .. Len(out[b]) = {}
    BY <1>11
  <2>. HIDE DEF out
  <2>. QED BY <2>1 DEF Does
<1>13. /\ Grows(Block, code, Block', code', out)
       /\ Block' = Block \cup NewBlocks(1) /\ nblk + 1 \in NewBlocks(1) \ Block
  <2>1. nblk + 1 \in NewBlocks(1) /\ nblk + 1 \notin Block
    BY <1>2 DEF NewBlocks
  <2>2. DOMAIN out \subseteq {Top} \cup NewBlocks(1)
        /\ \A b \in DOMAIN out : out[b] \in Seq(Instr(1 .. nblk + 1))
    <3>1. << >> \in Seq(Instr(1 .. nblk + 1))
      OBVIOUS
    <3>2. \A b \in DOMAIN out : b = nblk + 1 /\ out[b] = << >>
      BY <1>11
    <3>. HIDE DEF out
    <3>. QED BY <2>1, <3>1, <3>2
  <2>. HIDE DEF out
  <2>. QED BY <1>1, <1>2, <2>1, <2>2, RunningFacts, EmitGrows DEF IInv
<1>. HIDE DEF out
<1>14. code'[Top] = code[Top] /\ code'[nblk + 1] = << >>
  <2>1. Top \notin DOMAIN out
    BY <1>2, <1>11, <1>13
  <2>. QED BY <1>2, <1>11, <1>13, <2>1 DEF Grows
<1>15. PICK m : m = Len(calls)
  OBVIOUS
<1>16. /\ m \in Nat /\ m > 0 /\ Len(calls') = m + 3
       /\ \A i \in 1 .. m - 1 : calls'[i] = calls[i]
       /\ calls'[m] = FuncsFrame(Tail(Here.defs))
       /\ calls'[m + 1] = FuncFrame(Top, curFn)
       /\ calls'[m + 2] = BodyFrame(Here.defs[1].body)
       /\ calls'[m + 3] = FuncsFrame(Here.defs[1].funcs)
  BY <1>15, FuncPushed
<1>17. PICK x : x = <<h, << >>, body, body>>
  OBVIOUS
<1>18. /\ x \in Seq(Pascal!Todo) /\ Len(x) = 4
       /\ x[1] = h /\ x[2] = << >> /\ x[3] = body /\ x[4] = body
  BY <1>4, <1>7, <1>17
<1>19. Renews(calls, calls', x, k)
  <2>1. m + 3 = m - 1 + 4
    BY <1>16
  <2>. QED BY <1>15, <1>16, <1>18, <2>1 DEF Renews
<1>20. ASSUME NEW j \in 1 .. Len(x)
       PROVE  Waits(code', d, calls'[Len(calls) - 1 + j], Under(x, j - 1, k[Len(calls) - 1]), x[j])
  <2>1. CASE j = 1
    <3>1. Under(x, j - 1, k[Len(calls) - 1]) = h /\ Len(calls) - 1 + j = m
      BY <1>4, <1>15, <1>16, <2>1 DEF Under
    <3>2. Waits(code', d, FuncsFrame(Tail(Here.defs)), h, h)
      BY DEF Waits, FuncsFrame
    <3>. QED BY <1>16, <1>18, <2>1, <3>1, <3>2
  <2>2. CASE j = 2
    <3>1. Under(x, j - 1, k[Len(calls) - 1]) = h /\ Len(calls) - 1 + j = m + 1
      BY <1>15, <1>16, <1>18, <2>2 DEF Under
    <3>2. Waits(code', d, FuncFrame(Top, curFn), h, << >>)
      BY <1>10, <1>14 DEF Waits, FuncFrame
    <3>. QED BY <1>16, <1>18, <2>2, <3>1, <3>2
  <2>3. CASE j = 3
    <3>1. Under(x, j - 1, k[Len(calls) - 1]) = << >> /\ Len(calls) - 1 + j = m + 2
      BY <1>15, <1>16, <1>18, <2>3 DEF Under
    <3>2. Waits(code', d, BodyFrame(Here.defs[1].body), << >>, body)
      BY <1>6, <1>7 DEF Waits, BodyFrame
    <3>. QED BY <1>16, <1>18, <2>3, <3>1, <3>2
  <2>4. CASE j = 4
    <3>1. Under(x, j - 1, k[Len(calls) - 1]) = body /\ Len(calls) - 1 + j = m + 3
      BY <1>15, <1>16, <1>18, <2>4 DEF Under
    <3>2. Waits(code', d, FuncsFrame(Here.defs[1].funcs), body, body)
      BY DEF Waits, FuncsFrame
    <3>. QED BY <1>16, <1>18, <2>4, <3>1, <3>2
  <2>5. j = 1 \/ j = 2 \/ j = 3 \/ j = 4
    BY <1>18
  <2>. QED BY <2>1, <2>2, <2>3, <2>4, <2>5
<1>21. d[Top'][Len(code'[Top']) + 1] = ToRun(Under(x, Len(x), k[Len(calls) - 1]))
  <2>1. Top' = nblk + 1
    BY <1>1, <1>2 DEF Top, TypeOK
  <2>2. Under(x, Len(x), k[Len(calls) - 1]) = body
    BY <1>18 DEF Under
  <2>3. Len(<< >>) + 1 = 1
    OBVIOUS
  <2>. QED BY <1>10, <1>14, <2>1, <2>2, <2>3
<1>22. Lowers(c, k, d, out, x)
  <2>1. DOMAIN out \cap Block \subseteq {Top}
    BY <1>11, <1>13
  <2>. QED BY <1>10, <1>12, <1>13, <1>19, <1>20, <1>21, <2>1 DEF Lowers
<1>23. ASSUME NEW fn \in Fn' PROVE d[fns'[fn].entry][1] = ToRun(fns'[fn].body)
  <2>1. fns \in Seq([entry : Block, body : Seq(Stm)]) /\ Len(fns) \in Nat
    BY <1>2 DEF TypeOK
  <2>2. CASE fn \in Fn
    <3>1. fns'[fn] = fns[fn]
      BY <1>1, <2>1, <2>2 DEF Fn
    <3>2. d[fns[fn].entry][1] = c[fns[fn].entry][1]
      <4>1. fns[fn].entry \in Block /\ DOMAIN code = Block /\ Len(code[fns[fn].entry]) \in Nat
        BY <1>2, <2>2, CodeFacts
      <4>2. 1 \in 1 .. Len(code[fns[fn].entry]) + 1
        BY <4>1
      <4>. QED BY <1>10, <4>1, <4>2 DEF Extends
    <3>. QED BY <2>2, <3>1, <3>2 DEF Means
  <2>3. CASE fn \notin Fn
    <3>1. Len(fns') = Len(fns) + 1
      BY <1>1, <2>1
    <3>2. fn = Len(fns) + 1
      BY <2>1, <2>3, <3>1 DEF Fn
    <3>3. fns'[fn] = [entry |-> nblk + 1, body |-> Here.defs[1].body]
      BY <1>1, <2>1, <3>2
    <3>. QED BY <1>6, <1>10, <3>3
  <2>. QED BY <2>2, <2>3
<1>24. Means(d)'
  BY <1>1, <1>4, <1>22, <1>23, MeansStep
<1>. QED BY <1>24, MeansNext

(* The return instruction comes where nothing is left to be run. *)
LEMMA MeansEndFunc ==
    ASSUME IInv, IInv', EndFunc, NEW c, Means(c)
    PROVE  (\E e : Means(e))'
<1>. DEFINE out == In(Top, <<Ret>>)
<1>1. Running /\ Here.kind = "func" /\ Emit(0, curFn, out) /\ fns' = fns /\ Return
  BY DEF EndFunc
<1>2. /\ TypeOK /\ Top \in Block /\ nblk \in Nat /\ Len(code[Top]) \in Nat /\ Block = 1 .. nblk
      /\ \A b \in Pending(Here) : b \in Block /\ b # Top
  BY <1>1, OnTopFacts
<1>3. PICK k, h, l : OnTop(c, k, h, l)
  BY <1>1, OnTopFacts
<1>4. /\ Waits(code, c, Here, h, l) /\ c[Top][Len(code[Top]) + 1] = ToRun(l)
      /\ Chain(code, calls, Top, c, k) /\ h = k[Len(calls) - 1]
  BY <1>1, <1>2, <1>3, OnTopMeans
<1>5. PICK to : to = Here.blk
  OBVIOUS
<1>6. l = << >> /\ c[to][Len(code[to]) + 1] = ToRun(h) /\ to \in Pending(Here) /\ to \in Block
  BY <1>1, <1>2, <1>4, <1>5 DEF Waits, Pending
<1>7. ToRun(l) = << >>
  BY <1>6, TodoParts, UnfoldIs
<1>8. Top' = to
  <2>1. PICK n \in 1 .. Len(stack) : stack[n] = to /\ stack' = SubSeq(stack, 1, n)
    BY <1>5 DEF EndFunc
  <2>2. stack \in Seq(Block) /\ Len(stack) \in Nat
    BY <1>2 DEF TypeOK
  <2>3. Len(stack') = n /\ stack'[n] = stack[n]
    BY <2>1, <2>2
  <2>. QED BY <2>1, <2>3 DEF Top
<1>9. PICK d : Marks(c, d, 0, << >>, << >>)
  BY <1>1, ExtendCode
<1>10. /\ Extends(code, c, d) /\ d[Top][Len(code[Top]) + 1] = << >>
       /\ d[to][Len(code[to]) + 1] = ToRun(h)
  <2>1. Extends(code, c, d) /\ d[Top][Len(code[Top]) + 1] = c[Top][Len(code[Top]) + 1]
    BY <1>9 DEF Marks
  <2>2. to \in DOMAIN code /\ Len(code[to]) + 1 \in 1 .. Len(code[to]) + 1
    BY <1>2, <1>6, CodeFacts
  <2>3. d[to][Len(code[to]) + 1] = c[to][Len(code[to]) + 1]
    BY <2>1, <2>2 DEF Extends
  <2>. QED BY <1>4, <1>6, <1>7, <2>1, <2>3
<1>11. Does(Block, code, out, d)
  <2>1. Runs(Ret, << >>, d[Top][Len(code[Top]) + 2], d)
    BY RunsOf
  <2>. QED BY <1>2, <1>10, <2>1, DoesOne
<1>12. DOMAIN out = {Top} /\ \A b \in DOMAIN out : out[b] \in Seq(Instr(1 .. nblk + 0))
  BY <1>2 DEF Ret, In, Instr
<1>. HIDE DEF out
<1>13. Grows(Block, code, Block', code', out) /\ code'[to] = code[to]
  <2>1. Grows(Block, code, Block', code', out)
    BY <1>1, <1>2, <1>12, RunningFacts, EmitGrows DEF IInv
  <2>2. code'[to] = code[to]
    BY <1>1, <1>6, <1>12, PendingStays
  <2>. QED BY <2>1, <2>2
<1>14. PICK x : x = << >>
  OBVIOUS
<1>15. Lowers(c, k, d, out, x)
  <2>1. /\ Renews(calls, calls', x, k) /\ Len(x) = 0
        /\ Under(x, Len(x), k[Len(calls) - 1]) = h
    BY <1>1, <1>2, <1>4, <1>14, RenewsNone
  <2>2. 1 .. Len(x) = {}
    BY <2>1
  <2>3. d[Top'][Len(code'[Top']) + 1] = ToRun(h)
    BY <1>8, <1>10, <1>13
  <2>. QED BY <1>10, <1>11, <1>12, <1>13, <2>1, <2>2, <2>3 DEF Lowers
<1>16. \A fn \in Fn' : d[fns'[fn].entry][1] = ToRun(fns'[fn].body)
  BY <1>1, <1>2, <1>10, EntriesStill
<1>17. Means(d)'
  BY <1>1, <1>4, <1>15, <1>16, MeansStep
<1>. QED BY <1>17, MeansNext

(* The main program returns when nothing is left to be run. *)
LEMMA MeansFinish ==
    ASSUME IInv, IInv', Finish, NEW c, Means(c)
    PROVE  (\E e : Means(e))'
<1>. DEFINE out == In(Top, <<Ret>>)
<1>1. /\ Running /\ Len(calls) = 1 /\ Here.kind = "body" /\ Here.rest = << >>
      /\ Emit(0, curFn, out) /\ fns' = fns /\ status' = "done"
  BY DEF Finish
<1>2. /\ TypeOK /\ Top \in Block /\ nblk \in Nat /\ Len(code[Top]) \in Nat /\ Block = 1 .. nblk
  BY <1>1, OnTopFacts
<1>3. PICK k, h, l : OnTop(c, k, h, l)
  BY <1>1, OnTopFacts
<1>4. /\ Waits(code, c, Here, h, l) /\ c[Top][Len(code[Top]) + 1] = ToRun(l)
      /\ Chain(code, calls, Top, c, k) /\ h = k[Len(calls) - 1]
  BY <1>1, <1>2, <1>3, OnTopMeans
<1>5. l = << >>
  <2>1. Len(calls) - 1 = 0
    BY <1>1
  <2>2. k[0] = << >>
    BY <1>4 DEF Chain
  <2>3. h = << >>
    BY <1>4, <2>1, <2>2
  <2>4. l = Here.rest \o h
    BY <1>1, <1>4 DEF Waits
  <2>. QED BY <1>1, <2>3, <2>4
<1>6. ToRun(l) = << >>
  BY <1>5, TodoParts, UnfoldIs
<1>7. PICK d : Marks(c, d, 0, << >>, << >>)
  BY <1>1, ExtendCode
<1>8. Extends(code, c, d) /\ d[Top][Len(code[Top]) + 1] = << >>
  BY <1>4, <1>6, <1>7 DEF Marks
<1>9. Does(Block, code, out, d)
  <2>1. Runs(Ret, << >>, d[Top][Len(code[Top]) + 2], d)
    BY RunsOf
  <2>. QED BY <1>2, <1>8, <2>1, DoesOne
<1>10. DOMAIN out = {Top} /\ \A b \in DOMAIN out : out[b] \in Seq(Instr(1 .. nblk + 0))
  BY <1>2 DEF Ret, In, Instr
<1>. HIDE DEF out
<1>11. Grows(Block, code, Block', code', out)
  BY <1>1, <1>2, <1>10, RunningFacts, EmitGrows DEF IInv
<1>12. Follows(code', d)
  BY <1>8, <1>9, <1>11, FollowsOn DEF Means
<1>13. \A fn \in Fn' : d[fns'[fn].entry][1] = ToRun(fns'[fn].body)
  BY <1>1, <1>2, <1>8, EntriesStill
<1>14. Means(d)'
  BY <1>1, <1>12, <1>13 DEF Means, Running
<1>. QED BY <1>14, MeansNext

(* Nothing more is lowered. *)
LEMMA MeansUnchanged ==
    ASSUME IInv, Abort \/ Stopped \/ UNCHANGED vars, NEW c, Means(c)
    PROVE  (\E e : Means(e))'
<1>1. code' = code /\ fns' = fns /\ Fn' = Fn
  BY DEF Abort, Stopped, vars, Fn
<1>2. (Running => \E k : Chain(code, calls, Top, c, k))'
  <2>1. CASE Abort
    BY <2>1 DEF Abort, Running
  <2>2. CASE Stopped \/ UNCHANGED vars
    BY <2>2 DEF Stopped, vars, Running, Top, Means
  <2>. QED BY <2>1, <2>2
<1>3. Means(c)'
  BY <1>1, <1>2 DEF Means
<1>. QED BY <1>3, MeansNext

(* At the start the whole program is to be run. *)
LEMMA MeansInit ==
    ASSUME Init
    PROVE  \E c : Means(c)
<1>1. PICK p \in Program : /\ calls = <<BodyFrame(p.body), FuncsFrame(p.funcs)>>
                           /\ fns = <<[entry |-> 1, body |-> p.body]>>
  BY DEF Init
<1>2. PICK body : body = p.body
  OBVIOUS
<1>3. body \in Pascal!Todo /\ body \o << >> = body /\ << >> \in Pascal!Todo
  <2>1. body \in Seq(Stm)
    BY <1>2, ProgramAssumption
  <2>2. body \in Seq(Piece) /\ body \o << >> = body
    BY <2>1, PieceIs, SeqSubset
  <2>. QED BY <2>2, PieceIs
<1>4. PICK c : c = [b \in {1} |-> [i \in {1} |-> ToRun(body)]]
  OBVIOUS
<1>5. c[1][1] = ToRun(body)
  BY <1>4
<1>6. DOMAIN code = {1} /\ code[1] = << >> /\ Top = 1
  BY DEF Init, Top
<1>7. Follows(code, c)
  BY <1>6 DEF Follows
<1>8. \A fn \in Fn : c[fns[fn].entry][1] = ToRun(fns[fn].body)
  BY <1>1, <1>2, <1>5 DEF Fn
<1>9. PICK k : k = [i \in 0 .. 2 |-> IF i = 0 THEN << >> ELSE body]
  OBVIOUS
<1>10. /\ k \in [0 .. 2 -> Pascal!Todo]
       /\ k[0] = << >> /\ k[1] = body /\ k[2] = body
  BY <1>3, <1>9
<1>11. Len(calls) = 2 /\ calls[1] = BodyFrame(body) /\ calls[2] = FuncsFrame(p.funcs)
  BY <1>1, <1>2
<1>12. ASSUME NEW i \in 1 .. 2 PROVE Waits(code, c, calls[i], k[i - 1], k[i])
  <2>1. CASE i = 1
    <3>1. Waits(code, c, BodyFrame(body), << >>, body)
      BY <1>3 DEF Waits, BodyFrame
    <3>2. i - 1 = 0
      BY <2>1
    <3>. QED BY <1>10, <1>11, <2>1, <3>1, <3>2
  <2>2. CASE i = 2
    <3>1. Waits(code, c, FuncsFrame(p.funcs), body, body)
      BY DEF Waits, FuncsFrame
    <3>2. i - 1 = 1
      BY <2>2
    <3>. QED BY <1>10, <1>11, <2>2, <3>1, <3>2
  <2>. QED BY <2>1, <2>2
<1>13. c[Top][Len(code[Top]) + 1] = ToRun(k[2])
  <2>1. Len(<< >>) + 1 = 1
    OBVIOUS
  <2>. QED BY <1>5, <1>6, <1>10, <2>1
<1>14. Chain(code, calls, Top, c, k)
  BY <1>10, <1>11, <1>12, <1>13 DEF Chain
<1>15. Means(c)
  BY <1>7, <1>8, <1>14 DEF Means
<1>. QED BY <1>15

(* Every step of the walk keeps the invariant. *)
LEMMA MeansAlways ==
    ASSUME IInv, IInv', [Next]_vars, \E c : Means(c)
    PROVE  (\E c : Means(c))'
<1>1. PICK c : Means(c)
  OBVIOUS
<1>2. CASE BeginIf
  BY <1>1, <1>2, MeansIf
<1>3. CASE BeginWhile
  BY <1>1, <1>3, MeansWhile
<1>4. CASE BeginRepeat
  BY <1>1, <1>4, MeansRepeat
<1>5. CASE BeginFor
  BY <1>1, <1>5, MeansFor
<1>6. CASE EndThen
  BY <1>1, <1>6, MeansThen
<1>7. CASE EndElse
  BY <1>1, <1>7, MeansElse
<1>8. CASE EndWhile
  BY <1>1, <1>8, MeansEndWhile
<1>9. CASE EndRepeat
  BY <1>1, <1>9, MeansEndRepeat
<1>10. CASE EndFor
  BY <1>1, <1>10, MeansEndFor
<1>11. CASE EmitSimple
  BY <1>1, <1>11, MeansSimple
<1>12. CASE SkipGoto
  BY <1>1, <1>12, MeansGoto
<1>13. CASE BodyDone \/ FuncsDone
  BY <1>1, <1>13, MeansDone
<1>14. CASE BeginFunc
  BY <1>1, <1>14, MeansFunc
<1>15. CASE EndFunc
  BY <1>1, <1>15, MeansEndFunc
<1>16. CASE Finish
  BY <1>1, <1>16, MeansFinish
<1>17. CASE Abort \/ Stopped \/ UNCHANGED vars
  BY <1>1, <1>17, MeansUnchanged
<1>. QED BY <1>2, <1>3, <1>4, <1>5, <1>6, <1>7, <1>8, <1>9, <1>10, <1>11, <1>12, <1>13,
            <1>14, <1>15, <1>16, <1>17 DEF Next

(* Every function of the module comes from a body of the program. *)
Sourced == \A fn \in Fn : fns[fn].body \in {p.body : p \in Program} \cup {f.body : f \in FuncDef}

LEMMA SourcedInit == Init => Sourced
<1>. SUFFICES ASSUME Init PROVE Sourced
  OBVIOUS
<1>1. PICK p \in Program : fns = <<[entry |-> 1, body |-> p.body]>>
  BY DEF Init
<1>. QED BY <1>1 DEF Sourced, Fn

LEMMA SourcedStep == TypeOK /\ Sourced /\ [Next]_vars => Sourced'
<1>. SUFFICES ASSUME TypeOK, Sourced, [Next]_vars PROVE Sourced'
  OBVIOUS
<1>1. CASE fns' = fns
  BY <1>1 DEF Sourced, Fn
<1>2. CASE BeginFunc
  <2>1. /\ Running /\ Here.kind = "funcs" /\ Here.defs # << >>
        /\ fns' = Append(fns, [entry |-> nblk + 1, body |-> Here.defs[1].body])
    BY <1>2 DEF BeginFunc
  <2>2. Here.defs[1] \in FuncDef
    BY <2>1, HereType
  <2>3. /\ Len(fns) \in Nat /\ Len(fns') = Len(fns) + 1
        /\ \A fn \in 1 .. Len(fns) : fns'[fn] = fns[fn]
        /\ fns'[Len(fns) + 1].body = Here.defs[1].body
    BY <2>1 DEF TypeOK
  <2>4. \A fn \in 1 .. Len(fns) + 1 : fn \in 1 .. Len(fns) \/ fn = Len(fns) + 1
    BY <2>3
  <2>. QED BY <2>2, <2>3, <2>4 DEF Sourced, Fn
<1>3. fns' = fns \/ BeginFunc
  BY DEF Next, vars, EmitSimple, SkipGoto, Abort, BodyDone, BeginIf, EndThen, EndElse, BeginWhile,
         EndWhile, BeginRepeat, EndRepeat, BeginFor, EndFor, FuncsDone, EndFunc, Finish, Stopped
<1>. QED BY <1>1, <1>2, <1>3

(* What is still to be run is what c says at the instruction that is next. *)
Stands(c) ==
    phase = "running" =>
        /\ pc.block \in Block /\ pc.at \in 1 .. Len(code[pc.block])
        /\ todo = c[pc.block][pc.at]

(* The invariant of compiler and processor together. *)
ExecInv ==
    /\ IInv /\ Sourced
    /\ \E c : Means(c) /\ Stands(c)
    /\ pc \in [block : Nat, at : Nat]
    /\ phase \in {"idle", "running", "returned"}
    /\ phase # "idle" => status = "done"

(* A step of Structured, or none. *)
Allowed == [Pascal!Next]_(Pascal!vars)

(* What a step of the processor starts from. *)
LEMMA AtInstruction ==
    ASSUME ExecInv, phase = "running", NEW c, Means(c), Stands(c)
    PROVE  /\ status = "done" /\ TypeOK
           /\ \A b \in Block : Len(code[b]) \in Nat /\ 1 \in 1 .. Len(code[b])
           /\ pc.block \in Block /\ pc.at \in 1 .. Len(code[pc.block])
           /\ Instruction \in Instr(Block)
           /\ Runs(Instruction, todo, c[pc.block][pc.at + 1], c)
           /\ ~IsTerminator(Instruction) => pc.at + 1 \in 1 .. Len(code[pc.block])
<1>1. /\ status = "done" /\ TypeOK /\ OpenBlocks = {}
      /\ pc.block \in Block /\ pc.at \in 1 .. Len(code[pc.block]) /\ todo = c[pc.block][pc.at]
  BY DEF ExecInv, IInv, Stands
<1>2. ASSUME NEW b \in Block
      PROVE  /\ code[b] \in Seq(Instr(Block)) /\ Len(code[b]) \in Nat /\ 1 \in 1 .. Len(code[b])
             /\ IsTerminator(code[b][Len(code[b])])
  <2>1. code[b] \in Seq(Instr(Block)) /\ code[b] # << >> /\ IsTerminator(code[b][Len(code[b])])
    BY <1>1, CodeFacts DEF OpenBlocks, Ended
  <2>. QED BY <2>1
<1>3. Instruction \in Instr(Block)
  BY <1>1, <1>2 DEF Instruction
<1>4. Runs(Instruction, todo, c[pc.block][pc.at + 1], c)
  BY <1>1, CodeFacts DEF Means, Follows, Instruction
<1>5. ~IsTerminator(Instruction) => pc.at + 1 \in 1 .. Len(code[pc.block])
  <2>1. ASSUME ~IsTerminator(Instruction) PROVE pc.at # Len(code[pc.block])
    BY <1>1, <1>2, <2>1 DEF Instruction
  <2>. QED BY <1>1, <1>2, <2>1
<1>. QED BY <1>1, <1>2, <1>3, <1>4, <1>5

(* The code stays what it is, and so does what it means. *)
LEMMA MeaningStays ==
    ASSUME ExecInv, UNCHANGED vars
    PROVE  /\ IInv' /\ Sourced' /\ Block' = Block /\ code' = code /\ status' = status
           /\ \A c : Means(c) => Means(c)'
<1>1. IInv'
  BY SafeStep DEF ExecInv
<1>2. Sourced'
  BY SourcedStep DEF ExecInv, IInv
<1>3. Block' = Block /\ code' = code /\ status' = status
  BY DEF vars, Block
<1>4. ASSUME NEW c, Means(c) PROVE Means(c)'
  BY <1>4 DEF vars, Means, Running, Top, Fn
<1>. QED BY <1>1, <1>2, <1>3, <1>4

(* One lemma for each step: it keeps the invariant and is one Structured   *)
(* takes, or nothing to Structured.                                        *)
LEMMA RunsEnter == ExecInv /\ Enter => ExecInv' /\ Allowed
<1>. SUFFICES ASSUME ExecInv, Enter PROVE ExecInv' /\ Allowed
  OBVIOUS
<1>1. UNCHANGED vars /\ status = "done" /\ phase = "idle" /\ phase' = "running"
      /\ UNCHANGED <<event, turn>>
  BY DEF Enter
<1>2. PICK fn \in Fn : /\ pc' = [block |-> fns[fn].entry, at |-> 1]
                       /\ todo' = ToRun(fns[fn].body)
  BY DEF Enter, ToRun
<1>3. PICK c : Means(c)
  BY DEF ExecInv
<1>4. fns[fn].entry \in Block /\ 1 \in 1 .. Len(code[fns[fn].entry]) /\ nblk \in Nat
  <2>1. TypeOK /\ OpenBlocks = {} /\ nblk \in Nat
    BY <1>1 DEF ExecInv, IInv, TypeOK
  <2>2. fns[fn].entry \in Block /\ code[fns[fn].entry] \in Seq(Instr(Block))
    BY <1>2, <2>1, CodeFacts
  <2>3. code[fns[fn].entry] # << >>
    BY <2>1, <2>2 DEF OpenBlocks, Ended
  <2>. QED BY <2>1, <2>2, <2>3
<1>5. Stands(c)'
  BY <1>1, <1>2, <1>3, <1>4, MeaningStays DEF Stands, Means
<1>6. pc' \in [block : Nat, at : Nat]
  BY <1>2, <1>4 DEF Block
<1>7. ExecInv'
  BY <1>1, <1>3, <1>5, <1>6, MeaningStays DEF ExecInv
<1>8. Pascal!Start
  BY <1>1, <1>2 DEF Pascal!Start, ExecInv, Sourced, ToRun
<1>. QED BY <1>7, <1>8 DEF Allowed, Pascal!Next

(* An event that may come next is one Structured takes. *)
LEMMA EventTaken ==
    ASSUME phase = "running", NEW CONSTANT e, Happens(e), e \in Pascal!Events(todo)
    PROVE  /\ Allowed /\ todo' = Pascal!After(todo, e)
           /\ phase' = IF e = Pascal!Return THEN "returned" ELSE "running"
<1>1. /\ event' = e /\ turn' = 1 - turn /\ todo' = Pascal!After(todo, e)
      /\ phase' = IF e = Pascal!Return THEN "returned" ELSE "running"
  BY DEF Happens
<1>2. Pascal!Run(e)
  BY <1>1 DEF Pascal!Run
<1>. QED BY <1>1, <1>2 DEF Allowed, Pascal!Next

LEMMA RunsEvent == ExecInv /\ StepEvent => ExecInv' /\ Allowed
<1>. SUFFICES ASSUME ExecInv, StepEvent PROVE ExecInv' /\ Allowed
  OBVIOUS
<1>1. /\ phase = "running" /\ Instruction.op \in {"do", "init", "step"} /\ UNCHANGED vars
      /\ Happens(Pascal!Assign(Instruction.op, Instruction.id))
      /\ pc' = [pc EXCEPT !.at = @ + 1]
  BY DEF StepEvent, Executing
<1>2. PICK c : Means(c) /\ Stands(c)
  BY DEF ExecInv
<1>3. PICK e : e = Pascal!Assign(Instruction.op, Instruction.id)
  OBVIOUS
<1>4. /\ status = "done"
      /\ pc.block \in Block /\ pc.at \in 1 .. Len(code[pc.block])
      /\ pc.at + 1 \in 1 .. Len(code[pc.block])
      /\ e \in Pascal!Events(todo) /\ Pascal!After(todo, e) = c[pc.block][pc.at + 1]
  <2>1. ~IsTerminator(Instruction)
    BY <1>1 DEF IsTerminator
  <2>2. Runs(Instruction, todo, c[pc.block][pc.at + 1], c)
    BY <1>1, <1>2, AtInstruction
  <2>3. Assigned(Instruction.op, Instruction.id, todo, c[pc.block][pc.at + 1])
    BY <1>1, <2>2 DEF Runs
  <2>. QED BY <1>1, <1>2, <1>3, <2>1, <2>3, AtInstruction DEF Assigned
<1>5. e # Pascal!Return
  BY <1>1, <1>3 DEF Pascal!Assign, Pascal!Return
<1>6. Allowed /\ todo' = c[pc.block][pc.at + 1] /\ phase' = "running"
  BY <1>1, <1>3, <1>4, <1>5, EventTaken
<1>7. pc' \in [block : Nat, at : Nat] /\ pc'.block = pc.block /\ pc'.at = pc.at + 1
  BY <1>1 DEF ExecInv
<1>8. Stands(c)'
  BY <1>1, <1>4, <1>6, <1>7, MeaningStays DEF Stands
<1>9. ExecInv'
  BY <1>1, <1>2, <1>4, <1>6, <1>7, <1>8, MeaningStays DEF ExecInv
<1>. QED BY <1>6, <1>9

LEMMA RunsBr == ExecInv /\ StepBr => ExecInv' /\ Allowed
<1>. SUFFICES ASSUME ExecInv, StepBr PROVE ExecInv' /\ Allowed
  OBVIOUS
<1>1. /\ phase = "running" /\ Instruction.op = "br" /\ UNCHANGED vars
      /\ pc' = [block |-> Instruction.to, at |-> 1]
      /\ UNCHANGED <<phase, todo, event, turn>>
  BY DEF StepBr, Executing, Goto
<1>2. PICK c : Means(c) /\ Stands(c)
  BY DEF ExecInv
<1>3. /\ status = "done" /\ Instruction.to \in Block /\ Block \subseteq Nat
      /\ 1 \in 1 .. Len(code[Instruction.to]) /\ c[Instruction.to][1] = todo
  <2>1. Instruction \in Instr(Block) /\ Runs(Instruction, todo, c[pc.block][pc.at + 1], c)
    BY <1>1, <1>2, AtInstruction
  <2>2. Instruction.to \in Block /\ c[Instruction.to][1] = todo
    BY <1>1, <2>1 DEF Instr, Runs
  <2>3. Block \subseteq Nat
    BY DEF ExecInv, IInv, TypeOK, Block
  <2>. QED BY <1>1, <1>2, <2>2, <2>3, AtInstruction
<1>4. pc' \in [block : Nat, at : Nat] /\ pc'.block = Instruction.to /\ pc'.at = 1
  BY <1>1, <1>3
<1>5. Stands(c)'
  BY <1>1, <1>3, <1>4, MeaningStays DEF Stands
<1>6. ExecInv'
  BY <1>1, <1>2, <1>3, <1>4, <1>5, MeaningStays DEF ExecInv
<1>7. Allowed
  BY <1>1 DEF Allowed, Pascal!vars
<1>. QED BY <1>6, <1>7

LEMMA RunsCondBr == ExecInv /\ StepCondBr => ExecInv' /\ Allowed
<1>. SUFFICES ASSUME ExecInv, StepCondBr PROVE ExecInv' /\ Allowed
  OBVIOUS
<1>1. phase = "running" /\ Instruction.op = "cbr" /\ UNCHANGED vars
  BY DEF StepCondBr, Executing
<1>2. PICK out \in BOOLEAN :
         /\ Happens(Pascal!Test(Instruction.id, out))
         /\ pc' = [block |-> IF out THEN Instruction.yes ELSE Instruction.no, at |-> 1]
  BY DEF StepCondBr, Goto
<1>3. PICK c : Means(c) /\ Stands(c)
  BY DEF ExecInv
<1>4. PICK e : e = Pascal!Test(Instruction.id, out)
  OBVIOUS
<1>5. PICK to : to = IF out THEN Instruction.yes ELSE Instruction.no
  OBVIOUS
<1>6. /\ status = "done" /\ to \in Block /\ Block \subseteq Nat
      /\ 1 \in 1 .. Len(code[to])
      /\ e \in Pascal!Events(todo) /\ Pascal!After(todo, e) = c[to][1]
  <2>1. Instruction \in Instr(Block) /\ Runs(Instruction, todo, c[pc.block][pc.at + 1], c)
    BY <1>1, <1>3, AtInstruction
  <2>2. Instruction.yes \in Block /\ Instruction.no \in Block
    BY <1>1, <2>1 DEF Instr
  <2>3. Tested(Instruction.id, todo, c[Instruction.yes][1], c[Instruction.no][1])
    BY <1>1, <2>1 DEF Runs
  <2>4. e \in Pascal!Events(todo)
    BY <1>4, <2>3 DEF Tested
  <2>5. Pascal!After(todo, e) = c[to][1]
    <3>1. CASE out = TRUE
      BY <1>4, <1>5, <2>3, <3>1 DEF Tested
    <3>2. CASE out = FALSE
      BY <1>4, <1>5, <2>3, <3>2 DEF Tested
    <3>. QED BY <3>1, <3>2
  <2>6. to \in Block
    BY <1>5, <2>2
  <2>7. Block \subseteq Nat
    BY DEF ExecInv, IInv, TypeOK, Block
  <2>. QED BY <1>1, <1>3, <2>4, <2>5, <2>6, <2>7, AtInstruction
<1>7. e # Pascal!Return
  BY <1>4 DEF Pascal!Test, Pascal!Return
<1>8. Allowed /\ todo' = c[to][1] /\ phase' = "running"
  BY <1>1, <1>2, <1>4, <1>6, <1>7, EventTaken
<1>9. pc' \in [block : Nat, at : Nat] /\ pc'.block = to /\ pc'.at = 1
  BY <1>2, <1>5, <1>6
<1>10. Stands(c)'
  BY <1>1, <1>6, <1>8, <1>9, MeaningStays DEF Stands
<1>11. ExecInv'
  BY <1>1, <1>3, <1>6, <1>8, <1>9, <1>10, MeaningStays DEF ExecInv
<1>. QED BY <1>8, <1>11

LEMMA RunsRet == ExecInv /\ StepRet => ExecInv' /\ Allowed
<1>. SUFFICES ASSUME ExecInv, StepRet PROVE ExecInv' /\ Allowed
  OBVIOUS
<1>1. phase = "running" /\ Instruction.op = "ret" /\ UNCHANGED vars /\ UNCHANGED pc
      /\ Happens(Pascal!Return)
  BY DEF StepRet, Executing
<1>2. PICK c : Means(c) /\ Stands(c)
  BY DEF ExecInv
<1>3. PICK e : e = Pascal!Return
  OBVIOUS
<1>4. status = "done" /\ e \in Pascal!Events(todo)
  <2>1. status = "done" /\ Runs(Instruction, todo, c[pc.block][pc.at + 1], c)
    BY <1>1, <1>2, AtInstruction
  <2>2. todo = << >>
    BY <1>1, <2>1 DEF Runs
  <2>. QED BY <1>3, <2>1, <2>2 DEF Pascal!Events
<1>5. Allowed /\ phase' = "returned"
  BY <1>1, <1>3, <1>4, EventTaken
<1>6. Stands(c)'
  BY <1>5 DEF Stands
<1>7. ExecInv'
  BY <1>1, <1>2, <1>4, <1>5, <1>6, MeaningStays DEF ExecInv
<1>. QED BY <1>5, <1>7

LEMMA RunsCompile == ExecInv /\ (Compile \/ UNCHANGED <<vars, run>>) => ExecInv' /\ Allowed
<1>. SUFFICES ASSUME ExecInv, Compile \/ UNCHANGED <<vars, run>> PROVE ExecInv' /\ Allowed
  OBVIOUS
<1>1. [Next]_vars /\ UNCHANGED <<phase, pc, todo, event, turn>>
  BY DEF Compile, run
<1>2. Allowed
  BY <1>1 DEF Allowed, Pascal!vars
<1>3. IInv /\ IInv' /\ Sourced'
  BY <1>1, SafeStep, SourcedStep DEF ExecInv, IInv
<1>4. CASE phase = "idle"
  <2>1. (\E c : Means(c))'
    BY <1>1, <1>3, MeansAlways DEF ExecInv
  <2>2. \A c : Stands(c)'
    BY <1>1, <1>4 DEF Stands
  <2>. QED BY <1>1, <1>2, <1>3, <1>4, <2>1, <2>2 DEF ExecInv
<1>5. CASE phase # "idle"
  <2>1. status = "done"
    BY <1>5 DEF ExecInv
  <2>2. UNCHANGED vars
    BY <1>1, <2>1 DEF Next, Running, AtStatement, EmitSimple, SkipGoto, Abort, BodyDone, BeginIf,
       EndThen, EndElse, BeginWhile, EndWhile, BeginRepeat, EndRepeat, BeginFor, EndFor, BeginFunc,
       FuncsDone, EndFunc, Finish, Stopped
  <2>3. PICK c : Means(c) /\ Stands(c)
    BY DEF ExecInv
  <2>4. Stands(c)'
    BY <1>1, <2>2, <2>3, MeaningStays DEF Stands
  <2>. QED BY <1>1, <1>2, <2>1, <2>2, <2>3, <2>4, MeaningStays DEF ExecInv
<1>. QED BY <1>4, <1>5

LEMMA ExecBegins == ExecInit => ExecInv /\ Pascal!Init
<1>. SUFFICES ASSUME ExecInit PROVE ExecInv /\ Pascal!Init
  OBVIOUS
<1>1. Init /\ Pascal!Init /\ pc = [block |-> 1, at |-> 1]
  BY DEF ExecInit
<1>2. phase = "idle"
  BY <1>1 DEF Pascal!Init
<1>3. PICK c : Means(c)
  BY <1>1, MeansInit
<1>4. Stands(c)
  BY <1>2 DEF Stands
<1>. QED BY <1>1, <1>2, <1>3, <1>4, SafeInit, SourcedInit DEF ExecInv

(* The generated code implements the statements of the source, for every   *)
(* program: the processor starts in a state Structured starts in, and each *)
(* of its steps is one Structured allows, or none of its business. So the  *)
(* assignments, calls and tests come in the order the source has them in,  *)
(* whatever the tests evaluate to, and a function returns only when its    *)
(* body is over (codegen.cpp 555-758 for the statements, 378 for the       *)
(* functions). It is Exec's Refines without the fairness, which TLC        *)
(* checks: that the code never spins through blocks without an event.      *)
THEOREM CompiledAsWritten == ExecSpec => Pascal!Init /\ [][Pascal!Next]_(Pascal!vars)
<1>1. ExecInv /\ [ExecNext]_<<vars, run>> => ExecInv' /\ Allowed
  BY RunsEnter, RunsEvent, RunsBr, RunsCondBr, RunsRet, RunsCompile DEF ExecNext
<1>. QED BY <1>1, ExecBegins, PTL DEF ExecSpec, Allowed
================================================================================
