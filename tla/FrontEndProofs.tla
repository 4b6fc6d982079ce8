---------------------------- MODULE FrontEndProofs -----------------------------
(***************************************************************************)
(* The two stores of the front end that the rest of the compiler reads:    *)
(* what the parser reads from the table of identifiers is what the lexer   *)
(* put there, for tables and entries of any size and any texts; and the    *)
(* objects of types say what the declarations say, for any number of       *)
(* objects, names, scopes and declarations.                                *)
(***************************************************************************)
EXTENDS InternTable, TypeNames, FiniteSetTheorems, TLAPS
--------------------------------------------------------------------------------
(* The table of identifiers *)

LEMMA EntryNat ==
    ASSUME NEW i \in Nat
    PROVE  Entry(i) \in Nat /\ EntryLen \in Nat /\ EntryLen = IdLen + 1
BY SizeAssumption DEF Entry, EntryLen

LEMMA TableNat == TableSize * EntryLen \in Nat
<1>1. TableSize \in Nat
    BY SizeAssumption
<1> QED
    BY <1>1, EntryNat DEF Entry

(* Entries follow each other: each ends before the next one begins.        *)
LEMMA EntriesApart ==
    ASSUME NEW i \in Nat, NEW j \in Nat, i < j
    PROVE  Entry(i) + EntryLen <= Entry(j)
<1>1. EntryLen \in Nat
    BY EntryNat
<1>2. PICK d \in Nat : j = i + 1 + d
    <2>1. j - i - 1 \in Nat /\ j = i + 1 + (j - i - 1)
        OBVIOUS
    <2> QED
        BY <2>1
<1>3. (i + 1 + d) * EntryLen = i * EntryLen + EntryLen + d * EntryLen
    BY <1>1, <1>2
<1>4. d * EntryLen \in Nat /\ i * EntryLen \in Nat
    BY <1>1
<1> QED
    BY <1>1, <1>2, <1>3, <1>4 DEF Entry

(* A token is a text of characters and one of the four types.              *)
LEMMA TokenType ==
    ASSUME NEW k \in Tokens
    PROVE  k \in [text : Seq(Char), type : {0, 1, 2, 4}]
<1>1. CASE \E t \in Identifiers \cup Reals \cup Strings, y \in {0, 1, 4} :
               k = Token(t, y)
    BY <1>1, TextAssumption DEF Token
<1>2. CASE \E c \in Characters : k = Token(<<c>>, 2)
    <2>1. PICK c \in Char : k = Token(<<c>>, 2)
        BY <1>2, TextAssumption
    <2>2. <<c>> \in Seq(Char)
        BY <2>1
    <2> QED
        BY <2>1, <2>2 DEF Token
<1> QED
    BY <1>1, <1>2 DEF Tokens

(* The inductive invariant: what was given out stays where it is.          *)
IInv == TypeOK /\ ReadBack
--------------------------------------------------------------------------------
LEMMA TableInit == Init => IInv
<1> SUFFICES ASSUME Init PROVE IInv
    OBVIOUS
<1>1. << >> \in Seq(Char) /\ 0 \in Byte /\ 0 \in 0 .. TableSize
    BY SizeAssumption DEF Byte
<1>2. TypeOK
    BY <1>1 DEF Init, TypeOK, Token
<1>3. ReadBack
    BY DEF Init, ReadBack
<1> QED
    BY <1>2, <1>3 DEF IInv

(* A text that fits can be read from the entry it has just been stored in. *)
LEMMA StoredIsNamed ==
    ASSUME NEW i \in Nat, NEW k \in Tokens,
           Fits(k), Entry(i) + Len(k.text) < TableSize * EntryLen
    PROVE  Names(Stored(i, k), i, k.text)
<1>1. k.text \in Seq(Char) /\ Len(k.text) \in Nat /\ IdLen \in Nat /\ IdLen >= 2
      /\ TableSize \in Nat
    BY TokenType, SizeAssumption
<1>2. Entry(i) \in Nat /\ EntryLen \in Nat /\ TableSize * EntryLen \in Nat
    BY EntryNat, TableNat
<1>3. Len(k.text) < IdLen \/ (Len(k.text) = IdLen /\ k.type = 0)
    BY <1>1 DEF Fits
<1>4. Entry(i) + Len(k.text) \in Bytes
    BY <1>1, <1>2 DEF Bytes
<1>5. Stored(i, k)[Entry(i) + Len(k.text)] = 0
    <2>1. CASE Len(k.text) < IdLen
        <3>1. Entry(i) + Len(k.text) # Entry(i) + IdLen
            BY <1>1, <1>2, <2>1
        <3> QED
            BY <1>4, <3>1 DEF Stored
    <2>2. CASE Len(k.text) = IdLen /\ k.type = 0
        BY <1>4, <2>2 DEF Stored
    <2> QED
        BY <1>3, <2>1, <2>2
<1>6. ASSUME NEW n \in 1 .. Len(k.text)
      PROVE  Stored(i, k)[Entry(i) + n - 1] = k.text[n]
    <2> DEFINE b == Entry(i) + n - 1
    <2>1. n \in Nat /\ 1 <= n /\ n <= Len(k.text) /\ Len(k.text) <= IdLen
        BY <1>1, <1>3, <1>6
    <2>2. b \in Nat /\ b < Entry(i) + Len(k.text) /\ b >= Entry(i)
          /\ b - Entry(i) + 1 = n
        BY <1>1, <1>2, <2>1
    <2>3. b \in Bytes
        BY <1>1, <1>2, <1>4, <2>2 DEF Bytes
    <2> HIDE DEF b
    <2>4. b # Entry(i) + IdLen /\ b # Entry(i) + Len(k.text)
          /\ b \in Entry(i) .. Entry(i) + Len(k.text) - 1
        BY <1>1, <1>2, <2>1, <2>2
    <2>5. Stored(i, k)[b] = k.text[b - Entry(i) + 1]
        BY <2>3, <2>4 DEF Stored
    <2> QED
        BY <2>2, <2>5 DEF b
<1> QED
    BY <1>1, <1>3, <1>5, <1>6 DEF Names

(* A new entry leaves the entries before it as they are.                   *)
LEMMA OthersKept ==
    ASSUME NEW i \in Nat, NEW j \in Nat, i < j,
           NEW k \in Tokens, NEW t \in Seq(Char),
           mem \in [Bytes -> Byte],
           Entry(j) <= TableSize * EntryLen,
           Names(mem, i, t)
    PROVE  Names(Stored(j, k), i, t)
<1>1. IdLen \in Nat /\ Len(t) \in Nat /\ Len(t) <= IdLen /\ TableSize \in Nat
      /\ Len(k.text) \in Nat
    BY SizeAssumption, TokenType DEF Names
<1>2. Entry(i) \in Nat /\ Entry(j) \in Nat /\ EntryLen = IdLen + 1
      /\ TableSize * EntryLen \in Nat
    BY EntryNat, TableNat
<1>3. Entry(i) + EntryLen <= Entry(j)
    BY EntriesApart
<1>4. ASSUME NEW b \in Entry(i) .. Entry(i) + IdLen
      PROVE  Stored(j, k)[b] = mem[b]
    <2>1. b \in Nat /\ b < Entry(j) /\ b \in Bytes
        BY <1>1, <1>2, <1>3, <1>4 DEF Bytes
    <2>2. b # Entry(j) + IdLen /\ b # Entry(j) + Len(k.text)
          /\ b \notin Entry(j) .. Entry(j) + Len(k.text) - 1
        BY <1>1, <1>2, <2>1
    <2> QED
        BY <2>1, <2>2 DEF Stored
<1>5. Entry(i) + Len(t) \in Entry(i) .. Entry(i) + IdLen
    BY <1>1, <1>2
<1>6. \A n \in 1 .. Len(t) : Entry(i) + n - 1 \in Entry(i) .. Entry(i) + IdLen
    BY <1>1, <1>2
<1> QED
    BY <1>4, <1>5, <1>6 DEF Names
--------------------------------------------------------------------------------
LEMMA InsertKeeps ==
    ASSUME IInv, NEW k \in Tokens, Insert(k)
    PROVE  IInv'
<1>1. curr \in Nat /\ curr < TableSize /\ TableSize \in Nat /\ curr' = curr + 1
      /\ Entry(curr) + Len(k.text) < TableSize * EntryLen
    <2>1. TableSize \in Nat /\ curr \in 0 .. TableSize
        BY SizeAssumption DEF IInv, TypeOK
    <2>2. curr \in Nat /\ curr <= TableSize
        BY <2>1
    <2>3. Entry(curr) \in Nat /\ TableSize * EntryLen \in Nat /\ Len(k.text) \in Nat
        BY <2>2, TokenType, EntryNat, TableNat
    <2>4. ~(curr >= TableSize) /\ ~(Entry(curr) + Len(k.text) >= TableSize * EntryLen)
        BY DEF Insert, OverrunsTable
    <2>5. curr' = curr + 1
        BY DEF Insert
    <2>6. Entry(curr) + Len(k.text) < TableSize * EntryLen
        BY <2>3, <2>4
    <2> QED
        BY <2>1, <2>2, <2>4, <2>5, <2>6
<1>2. k.text \in Seq(Char) /\ Len(k.text) \in Nat /\ k.type \in {0, 1, 2, 4}
    BY TokenType
<1>3. Entry(curr) \in Nat /\ Entry(curr) <= TableSize * EntryLen
      /\ TableSize * EntryLen \in Nat
    <2>1. Entry(curr) \in Nat /\ TableSize * EntryLen \in Nat
        BY <1>1, EntryNat, TableNat
    <2> QED
        BY <1>1, <1>2, <2>1
<1>4. mem' \in [Bytes -> Byte]
    <2>1. ASSUME NEW b \in Bytes,
                 b \in Entry(curr) .. Entry(curr) + Len(k.text) - 1
          PROVE  k.text[b - Entry(curr) + 1] \in Byte
        <3>1. b - Entry(curr) + 1 \in 1 .. Len(k.text)
            BY <1>2, <1>3, <2>1
        <3>2. k.text[b - Entry(curr) + 1] \in Char
            BY <1>2, <3>1
        <3> QED
            BY <3>2 DEF Char, Byte
    <2>2. k.type \in Byte /\ 0 \in Byte
        BY <1>2 DEF Byte
    <2>4. \A b \in Bytes : mem[b] \in Byte
        BY DEF IInv, TypeOK
    <2>3. mem' = Stored(curr, k)
        BY DEF Insert
    <2> QED
        BY <2>1, <2>2, <2>3, <2>4 DEF Stored
<1>5. given' = given \cup {Given(k, curr)}
    BY DEF Insert
<1>6. TypeOK'
    <2>1. \A i \in 0 .. curr - 1 : i \in 0 .. curr' - 1
        BY <1>1
    <2>2. Given(k, curr) \in [token : Tokens, index : 0 .. curr' - 1]
        BY <1>1 DEF Given
    <2>3. given' \subseteq [token : Tokens, index : 0 .. curr' - 1]
        BY <1>5, <2>1, <2>2 DEF IInv, TypeOK
    <2>4. curr' \in 0 .. TableSize
        BY <1>1
    <2>5. last' \in [text : Seq(Char), type : {0, 1, 2, 4}] /\ fault' = fault
        BY TokenType DEF Insert
    <2> QED
        BY <1>4, <2>3, <2>4, <2>5 DEF IInv, TypeOK
<1>7. ASSUME NEW g \in given', Fits(g.token)
      PROVE  Names(Stored(curr, k), g.index, g.token.text)
    <2>1. CASE g = Given(k, curr)
        <3>1. g.token = k /\ g.index = curr
            BY <2>1 DEF Given
        <3> QED
            BY <1>1, <1>7, <3>1, StoredIsNamed
    <2>2. CASE g \in given
        <3>1. g.token \in Tokens /\ g.index \in Nat /\ g.index < curr
            BY <1>1, <2>2 DEF IInv, TypeOK
        <3>2. g.token.text \in Seq(Char)
            BY <3>1, TokenType
        <3>3. Names(mem, g.index, g.token.text)
            BY <1>7, <2>2 DEF IInv, ReadBack
        <3> QED
            BY <1>1, <1>3, <3>1, <3>2, <3>3, OthersKept DEF IInv, TypeOK
    <2> QED
        BY <1>5, <1>7, <2>1, <2>2
<1>8. ReadBack'
    BY <1>7 DEF ReadBack, Insert
<1> QED
    BY <1>6, <1>8 DEF IInv

LEMMA FoundKeeps ==
    ASSUME IInv, NEW k \in Tokens, Found(k)
    PROVE  IInv'
<1>1. PICK i \in Matches(k.text) : given' = given \cup {Given(k, i)}
    BY DEF Found
<1>2. i \in 0 .. curr - 1 /\ Names(mem, i, k.text)
    BY <1>1 DEF Matches
<1>3. Given(k, i) \in [token : Tokens, index : 0 .. curr - 1]
    BY <1>2 DEF Given
<1>4. mem' = mem /\ curr' = curr /\ fault' = fault /\ last' = k
    BY DEF Found
<1>5. TypeOK'
    BY <1>1, <1>3, <1>4, TokenType DEF IInv, TypeOK
<1>6. ReadBack'
    BY <1>1, <1>2, <1>4 DEF IInv, ReadBack, Given
<1> QED
    BY <1>5, <1>6 DEF IInv

LEMMA OverrunKeeps ==
    ASSUME IInv, NEW k \in Tokens, Overrun(k)
    PROVE  IInv'
<1>1. mem' = mem /\ curr' = curr /\ given' = given /\ last' = k
      /\ fault' \in {"none", "STR", "lower", "table"}
    BY DEF Overrun
<1>2. TypeOK'
    BY <1>1, TokenType DEF IInv, TypeOK
<1>3. ReadBack'
    BY <1>1 DEF IInv, ReadBack
<1> QED
    BY <1>2, <1>3 DEF IInv

LEMMA TableStep == IInv /\ [Next]_vars => IInv'
<1> SUFFICES ASSUME IInv, [Next]_vars PROVE IInv'
    OBVIOUS
<1>1. ASSUME NEW k \in Tokens, Overrun(k) \/ Found(k) \/ Insert(k)
      PROVE  IInv'
    BY <1>1, OverrunKeeps, FoundKeeps, InsertKeeps
<1>2. CASE Stopped \/ UNCHANGED vars
    BY <1>2 DEF Stopped, vars, IInv, TypeOK, ReadBack
<1> QED
    BY <1>1, <1>2 DEF Next

LEMMA TableInvariant == Spec => []IInv
BY TableInit, TableStep, PTL DEF Spec

(* The indices the lexer returns are indices of the table.                 *)
THEOREM InternTableTypeCorrect == Spec => []TypeOK
<1>1. IInv => TypeOK
    BY DEF IInv
<1> QED
    BY <1>1, TableInvariant, PTL

(* The parser finds, under every index it was given, the text the index    *)
(* was given for (lexer.l, Conversion; parser.y, PASCALiconTable[$n].id).  *)
THEOREM TextsKept == Spec => []ReadBack
<1>1. IInv => ReadBack
    BY DEF IInv
<1> QED
    BY <1>1, TableInvariant, PTL
--------------------------------------------------------------------------------
(* One entry for each text *)

TextsGiven == {g.token.text : g \in given}

(* OneEntryEach with what it needs to be inductive: no entry is there that *)
(* no index was given for, so that what is found again was given before.   *)
OneEntryInv ==
    /\ IInv
    /\ IsFiniteSet(TextsGiven)
    /\ \A i \in 0 .. curr - 1 : \E g \in given : g.index = i
    /\ OneEntryEach

(* Since the byte that ends a text is no character, an entry can be read   *)
(* as one text only.                                                       *)
LEMMA OneTextPerEntry ==
    ASSUME NEW m, NEW i \in Nat, NEW s \in Seq(Char), NEW t \in Seq(Char),
           Names(m, i, s), Names(m, i, t)
    PROVE  s = t
<1>1. Entry(i) \in Nat
    BY EntryNat
<1>2. ASSUME NEW u \in Seq(Char), NEW v \in Seq(Char), Len(u) < Len(v),
             Names(m, i, u), Names(m, i, v)
      PROVE  FALSE
    <2>1. Len(u) \in Nat /\ Len(v) \in Nat /\ Len(u) + 1 \in 1 .. Len(v)
        BY <1>2
    <2>2. m[Entry(i) + (Len(u) + 1) - 1] = v[Len(u) + 1]
        BY <1>2, <2>1 DEF Names
    <2>3. Entry(i) + (Len(u) + 1) - 1 = Entry(i) + Len(u)
        BY <1>1, <2>1
    <2>4. v[Len(u) + 1] = 0
        BY <1>2, <2>2, <2>3 DEF Names
    <2>5. v[Len(u) + 1] \in Char
        BY <1>2, <2>1
    <2> QED
        BY <2>4, <2>5 DEF Char
<1>3. Len(s) = Len(t)
    <2>1. ~(Len(s) < Len(t)) /\ ~(Len(t) < Len(s))
        BY <1>2
    <2>2. Len(s) \in Nat /\ Len(t) \in Nat
        OBVIOUS
    <2> QED
        BY <2>1, <2>2
<1>4. \A n \in 1 .. Len(s) : s[n] = t[n]
    BY <1>3 DEF Names
<1> QED
    BY <1>3, <1>4

(* What was given out can be read, and texts that fit stay distinct.       *)
LEMMA GivenRead ==
    ASSUME IInv, AllFit, NEW g \in given
    PROVE  /\ g.index \in 0 .. curr - 1 /\ g.index \in Nat
           /\ g.token.text \in Seq(Char)
           /\ Names(mem, g.index, g.token.text)
<1>1. g.token \in Tokens /\ g.index \in 0 .. curr - 1 /\ curr \in Nat
    BY SizeAssumption DEF IInv, TypeOK
<1> QED
    BY <1>1, TokenType DEF IInv, ReadBack, AllFit

LEMMA OneEntryInit == Init => OneEntryInv
<1> SUFFICES ASSUME Init PROVE OneEntryInv
    OBVIOUS
<1>1. IInv
    BY TableInit
<1>2. TextsGiven = {} /\ curr = 0 /\ given = {}
    BY DEF Init, TextsGiven
<1>3. IsFiniteSet(TextsGiven) /\ Cardinality(TextsGiven) = 0
    BY <1>2, FS_EmptySet
<1> QED
    BY <1>1, <1>2, <1>3 DEF OneEntryInv, OneEntryEach, TextsGiven

LEMMA InsertKeepsOneEntry ==
    ASSUME OneEntryInv, NEW k \in Tokens, Insert(k)
    PROVE  OneEntryInv'
<1>1. IInv /\ IInv'
    BY InsertKeeps DEF OneEntryInv
<1>2. curr \in Nat /\ curr' = curr + 1 /\ given' = given \cup {Given(k, curr)}
    BY <1>1, SizeAssumption DEF IInv, TypeOK, Insert
<1>3. Given(k, curr).token.text = k.text /\ Given(k, curr).index = curr
    BY DEF Given
<1>4. TextsGiven' = TextsGiven \cup {k.text}
    BY <1>2, <1>3 DEF TextsGiven
<1>5. IsFiniteSet(TextsGiven')
    BY <1>4, FS_AddElement DEF OneEntryInv
<1>6. \A i \in 0 .. curr' - 1 : \E g \in given' : g.index = i
    <2> TAKE i \in 0 .. curr' - 1
    <2>1. i = curr \/ i \in 0 .. curr - 1
        BY <1>2
    <2> QED
        BY <1>2, <1>3, <2>1 DEF OneEntryInv
<1>7. ASSUME AllFit'
      PROVE  /\ curr' = Cardinality(TextsGiven')
             /\ \A g, h \in given' :
                    (g.token.text = h.token.text) <=> (g.index = h.index)
    <2>1. AllFit
        BY <1>2, <1>7 DEF AllFit
    <2>2. curr = Cardinality(TextsGiven)
          /\ \A g, h \in given : (g.token.text = h.token.text) <=> (g.index = h.index)
        BY <2>1 DEF OneEntryInv, OneEntryEach, TextsGiven
    <2>3. ASSUME NEW g \in given
          PROVE  g.token.text # k.text /\ g.index # curr
        <3>1. g.index \in 0 .. curr - 1 /\ Names(mem, g.index, g.token.text)
            BY <1>1, <2>1, GivenRead
        <3>2. g.index \notin Matches(k.text)
            BY DEF Insert
        <3> QED
            BY <1>2, <3>1, <3>2 DEF Matches
    <2>4. k.text \notin TextsGiven
        BY <2>3 DEF TextsGiven
    <2>5. Cardinality(TextsGiven') = Cardinality(TextsGiven) + 1
        BY <1>4, <2>4, FS_AddElement DEF OneEntryInv
    <2> QED
        BY <1>2, <1>3, <2>2, <2>3, <2>5
<1>8. OneEntryEach'
    BY <1>7 DEF OneEntryEach, TextsGiven
<1> QED
    BY <1>1, <1>5, <1>6, <1>8 DEF OneEntryInv

LEMMA FoundKeepsOneEntry ==
    ASSUME OneEntryInv, NEW k \in Tokens, Found(k)
    PROVE  OneEntryInv'
<1>1. IInv /\ IInv'
    BY FoundKeeps DEF OneEntryInv
<1>2. PICK i \in Matches(k.text) : given' = given \cup {Given(k, i)}
    BY DEF Found
<1>3. curr \in Nat /\ curr' = curr /\ mem' = mem
    BY <1>1, SizeAssumption DEF IInv, TypeOK, Found
<1>4. i \in Nat /\ i \in 0 .. curr - 1 /\ Names(mem, i, k.text) /\ k.text \in Seq(Char)
    BY <1>2, <1>3, TokenType DEF Matches
<1>5. Given(k, i).token.text = k.text /\ Given(k, i).index = i
    BY DEF Given
<1>6. TextsGiven' = TextsGiven \cup {k.text}
    BY <1>2, <1>5 DEF TextsGiven
<1>7. IsFiniteSet(TextsGiven')
    BY <1>6, FS_AddElement DEF OneEntryInv
<1>8. \A n \in 0 .. curr' - 1 : \E g \in given' : g.index = n
    BY <1>2, <1>3 DEF OneEntryInv
<1>9. ASSUME AllFit'
      PROVE  /\ curr' = Cardinality(TextsGiven')
             /\ \A g, h \in given' :
                    (g.token.text = h.token.text) <=> (g.index = h.index)
    <2>1. AllFit
        BY <1>2, <1>9 DEF AllFit
    <2>2. curr = Cardinality(TextsGiven)
          /\ \A g, h \in given : (g.token.text = h.token.text) <=> (g.index = h.index)
        BY <2>1 DEF OneEntryInv, OneEntryEach, TextsGiven
    <2>3. PICK e \in given : e.index = i
        BY <1>4 DEF OneEntryInv
    <2>4. e.token.text = k.text
        BY <1>1, <1>4, <2>1, <2>3, GivenRead, OneTextPerEntry
    <2>5. TextsGiven' = TextsGiven
        BY <1>6, <2>3, <2>4 DEF TextsGiven
    <2> QED
        BY <1>2, <1>3, <1>5, <2>2, <2>3, <2>4, <2>5
<1>10. OneEntryEach'
    BY <1>9 DEF OneEntryEach, TextsGiven
<1> QED
    BY <1>1, <1>7, <1>8, <1>10 DEF OneEntryInv

LEMMA OneEntryStep == OneEntryInv /\ [Next]_vars => OneEntryInv'
<1> SUFFICES ASSUME OneEntryInv, [Next]_vars PROVE OneEntryInv'
    OBVIOUS
<1>1. ASSUME NEW k \in Tokens, Found(k) \/ Insert(k)
      PROVE  OneEntryInv'
    BY <1>1, FoundKeepsOneEntry, InsertKeepsOneEntry
<1>2. CASE (\E k \in Tokens : Overrun(k)) \/ Stopped \/ UNCHANGED vars
    <2>1. IInv'
        BY TableStep DEF OneEntryInv
    <2>2. curr' = curr /\ given' = given
        BY <1>2 DEF Overrun, Stopped, vars
    <2> QED
        BY <2>1, <2>2 DEF OneEntryInv, OneEntryEach, AllFit, TextsGiven
<1> QED
    BY <1>1, <1>2 DEF Next

(* As long as every text fits, the lexer gives equal texts the same index  *)
(* and different texts different ones, and the table has no entry that no  *)
(* text was given (lexer.l, Conversion).                                   *)
THEOREM OneEntryForEachText == Spec => []OneEntryEach
<1>1. OneEntryInv => OneEntryEach
    BY DEF OneEntryInv
<1> QED
    BY <1>1, OneEntryInit, OneEntryStep, PTL DEF Spec
--------------------------------------------------------------------------------
(* Types: correctness of terms and objects *)

LEMMA SeqOfMore ==
    ASSUME NEW A, NEW B, A \subseteq B
    PROVE  Seq(A) \subseteq Seq(B)
OBVIOUS

LEMMA HeapType ==
    ASSUME TypesOK
    PROVE  /\ Len(heap) \in Nat /\ heap \in Seq(ObjectsUpTo(Len(heap)))
           /\ \A o \in Objects :
                /\ heap[o].base \in Base \cup {"array", "record", "unset"}
                /\ heap[o].lo \in Nat /\ heap[o].hi \in Nat
                /\ heap[o].child \in Seq(Objects)
<1> DEFINE S == ObjectsUpTo(Len(heap))
<1>1. heap \in Seq(S) /\ Len(heap) \in Nat
    BY DEF TypesOK
<1>2. \A x \in S : /\ x.base \in Base \cup {"array", "record", "unset"}
                   /\ x.lo \in Nat /\ x.hi \in Nat /\ x.child \in Seq(Objects)
    BY DEF ObjectsUpTo, Objects
<1> HIDE DEF S
<1>3. \A o \in Objects : heap[o] \in S
    BY <1>1 DEF Objects
<1> QED
    BY <1>1, <1>2, <1>3 DEF S

(* More objects leave everything that has a type its type. *)
LEMMA TypesMonotonic ==
    ASSUME NEW A, NEW B, A \subseteq B
    PROVE  /\ Seq([name : Name, type : A, want : Terms]) \subseteq Seq([name : Name, type : B, want : Terms])
           /\ Seq([type : A, easy : BOOLEAN, want : Terms]) \subseteq Seq([type : B, easy : BOOLEAN, want : Terms])
           /\ [type : A, want : Terms, global : BOOLEAN] \subseteq [type : B, want : Terms, global : BOOLEAN]
           /\ Seq([part : {"types", "vars", "funcs"}, types : Seq([name : Name, type : A, want : Terms])])
                \subseteq Seq([part : {"types", "vars", "funcs"}, types : Seq([name : Name, type : B, want : Terms])])
<1>1. [name : Name, type : A, want : Terms] \subseteq [name : Name, type : B, want : Terms]
    OBVIOUS
<1>2. [type : A, easy : BOOLEAN, want : Terms] \subseteq [type : B, easy : BOOLEAN, want : Terms]
    OBVIOUS
<1>3. [type : A, want : Terms, global : BOOLEAN] \subseteq [type : B, want : Terms, global : BOOLEAN]
    OBVIOUS
<1>4. Seq([name : Name, type : A, want : Terms]) \subseteq Seq([name : Name, type : B, want : Terms])
    BY <1>1, SeqOfMore
<1>5. [part : {"types", "vars", "funcs"}, types : Seq([name : Name, type : A, want : Terms])]
        \subseteq [part : {"types", "vars", "funcs"}, types : Seq([name : Name, type : B, want : Terms])]
    BY <1>4
<1>6. Seq([type : A, easy : BOOLEAN, want : Terms]) \subseteq Seq([type : B, easy : BOOLEAN, want : Terms])
    BY <1>2, SeqOfMore
<1>7. Seq([part : {"types", "vars", "funcs"}, types : Seq([name : Name, type : A, want : Terms])])
        \subseteq Seq([part : {"types", "vars", "funcs"}, types : Seq([name : Name, type : B, want : Terms])])
    BY <1>5, SeqOfMore
<1> QED
    BY <1>3, <1>4, <1>6, <1>7

(* The terms that the rules of the grammar make. *)
LEMMA TermsMade ==
    /\ \A b \in Base : Scalar(b) \in Terms
    /\ \A r \in Subranges : Subrange(r) \in Terms
    /\ Record \in Terms /\ Nonsense \in Terms
    /\ \A r \in Subranges, w \in Terms : Array(r, w) \in Terms
    /\ \A w \in Terms : IsSubrange(w) => w.of.range \in Subranges
<1>1. \A e \in Elements : Type(e) \in Terms
    BY DEF Type, Terms
<1>2. /\ \A b \in Base : Scalar(b) = Type(Scalar(b).of) /\ Scalar(b).of \in Elements
      /\ \A r \in Subranges : Subrange(r) = Type(Subrange(r).of) /\ Subrange(r).of \in Elements
      /\ Record = Type(Record.of) /\ Record.of \in Elements
      /\ Nonsense = Type(Nonsense.of) /\ Nonsense.of \in Elements
    BY DEF Scalar, Subrange, Record, Nonsense, Type, Elements
<1>3. ASSUME NEW r \in Subranges, NEW w \in Terms PROVE Array(r, w) \in Terms
    <2>1. w.dims \in Seq(Subranges) /\ w.of \in Elements
        BY DEF Terms
    <2>2. <<r>> \o w.dims \in Seq(Subranges)
        BY <2>1
    <2> QED
        BY <2>1, <2>2 DEF Array, Terms
<1>4. \A e \in Elements : e.kind = "range" => e.range \in Subranges
    BY DEF Elements, Scalar, Subrange, Record, Nonsense, Type
<1>5. \A w \in Terms : w.of \in Elements
    BY DEF Terms
<1> QED
    BY <1>1, <1>2, <1>3, <1>4, <1>5 DEF IsSubrange
--------------------------------------------------------------------------------
(* Objects a type leads to *)

LEMMA PartsType ==
    ASSUME TypesOK
    PROVE  \A o \in Objects : Parts(o) \subseteq Objects
<1> SUFFICES ASSUME NEW o \in Objects PROVE Parts(o) \subseteq Objects
    OBVIOUS
<1>1. heap[o].child \in Seq(Objects)
    BY HeapType
<1>2. \A n \in DOMAIN heap[o].child : heap[o].child[n] \in Objects
    BY <1>1
<1> QED
    BY <1>2 DEF Parts

LEMMA ReachIs ==
    ASSUME TypesOK, NEW t \in Objects
    PROVE  /\ Reach(t) \subseteq Objects /\ t \in Reach(t) /\ Follows(Reach(t))
           /\ \A S \in SUBSET Objects : t \in S /\ Follows(S) => Reach(t) \subseteq S
<1>1. Reach(t) \subseteq Objects /\ t \in Reach(t)
    BY DEF Reach
<1>2. ASSUME NEW o \in Reach(t), NEW c \in Parts(o) PROVE c \in Reach(t)
    <2>1. c \in Objects
        BY <1>1, PartsType
    <2>2. \A S \in SUBSET Objects : t \in S /\ Follows(S) => c \in S
        BY <1>2 DEF Reach, Follows
    <2> QED
        BY <2>1, <2>2 DEF Reach
<1>3. \A S \in SUBSET Objects : t \in S /\ Follows(S) => Reach(t) \subseteq S
    BY DEF Reach
<1> QED
    BY <1>1, <1>2, <1>3 DEF Follows

LEMMA SoundParts ==
    ASSUME TypesOK, NEW o \in Sound, NEW c \in Parts(o)
    PROVE  /\ o \in Objects /\ c \in Sound
           /\ c \in Reach(o) /\ Reach(c) \subseteq Reach(o) /\ o \notin Reach(c)
<1>1. o \in Objects /\ Acyclic(o)
    BY DEF Sound
<1>2. o \in Reach(o) /\ Follows(Reach(o)) /\ Reach(o) \subseteq Objects
    BY <1>1, ReachIs
<1>3. c \in Reach(o) /\ c \in Objects
    BY <1>2 DEF Follows
<1>4. Reach(c) \subseteq Reach(o)
    BY <1>2, <1>3, ReachIs
<1>5. o \notin Reach(c)
    BY <1>1, <1>2 DEF Acyclic
<1>6. Acyclic(c)
    BY <1>1, <1>4 DEF Acyclic
<1> QED
    BY <1>1, <1>3, <1>4, <1>5, <1>6 DEF Sound

LEMMA SoundReach ==
    ASSUME TypesOK, NEW t \in Sound, NEW o \in Reach(t)
    PROVE  o \in Sound
<1>1. t \in Objects /\ Acyclic(t)
    BY DEF Sound
<1>2. Follows(Reach(t)) /\ Reach(t) \subseteq Objects
    BY <1>1, ReachIs
<1>3. o \in Objects /\ Reach(o) \subseteq Reach(t)
    BY <1>2, ReachIs
<1> QED
    BY <1>1, <1>3 DEF Acyclic, Sound

(* Parts lead to fewer objects. *)
Rank(o) == Cardinality(Reach(o))

LEMMA RankDecreases ==
    ASSUME TypesOK, NEW o \in Sound
    PROVE  /\ Rank(o) \in Nat /\ Rank(o) > 0 /\ Rank(o) <= Len(heap)
           /\ \A c \in Parts(o) : c \in Sound /\ Rank(c) \in Nat /\ Rank(c) < Rank(o)
<1>1. IsFiniteSet(Objects) /\ Cardinality(Objects) = Len(heap)
    <2>1. Len(heap) \in Nat
        BY HeapType
    <2>2. \A n \in Nat : IsFiniteSet(1 .. n) /\ Cardinality(1 .. n) = n
        <3> TAKE n \in Nat
        <3>1. Cardinality(1 .. n) = IF 1 > n THEN 0 ELSE n - 1 + 1
            BY FS_Interval
        <3> QED
            BY <3>1, FS_Interval
    <2> QED
        BY <2>1, <2>2 DEF Objects
<1>2. o \in Objects /\ Reach(o) \subseteq Objects /\ o \in Reach(o)
    BY ReachIs DEF Sound
<1>3. IsFiniteSet(Reach(o)) /\ Rank(o) <= Len(heap)
    BY <1>1, <1>2, FS_Subset DEF Rank
<1>4. Rank(o) \in Nat /\ Rank(o) # 0
    BY <1>2, <1>3, FS_CardinalityType, FS_EmptySet DEF Rank
<1>5. ASSUME NEW c \in Parts(o)
      PROVE  c \in Sound /\ Rank(c) \in Nat /\ Rank(c) < Rank(o)
    <2>1. c \in Sound /\ Reach(c) \subseteq Reach(o) /\ Reach(c) # Reach(o)
        BY <1>2, SoundParts
    <2>2. IsFiniteSet(Reach(c)) /\ Cardinality(Reach(c)) \in Nat
          /\ Cardinality(Reach(c)) < Cardinality(Reach(o))
        BY <1>3, <2>1, FS_Subset, FS_CardinalityType
    <2> QED
        BY <2>1, <2>2 DEF Rank
<1> QED
    BY <1>3, <1>4, <1>5
--------------------------------------------------------------------------------
(* What readers make of an object follows from what they make of its parts *)

LEMMA FirstPart ==
    ASSUME TypesOK, NEW o \in Sound, IsArray(o)
    PROVE  /\ heap[o].child[1] \in Parts(o) /\ heap[o].child[1] \in Sound
           /\ Rank(heap[o].child[1]) \in Nat /\ Rank(heap[o].child[1]) < Rank(o)
<1>1. o \in Objects
    BY DEF Sound
<1>2. heap[o].child \in Seq(Objects)
    BY <1>1, HeapType
<1>3. heap[o].base = "array" /\ heap[o].child # << >>
    BY DEF IsArray
<1>4. 1 \in DOMAIN heap[o].child
    BY <1>2, <1>3
<1>5. heap[o].base \notin Base
    BY <1>3, BaseAssumption
<1>6. heap[o].child[1] \in Parts(o)
    BY <1>3, <1>4, <1>5 DEF Parts
<1> QED
    BY <1>6, RankDecreases

TermWith(f, o) == IF IsArray(o) THEN Array(Bounds(o), f[heap[o].child[1]]) ELSE Element(o)

LLVMWith(f, o) ==
    IF IsArray(o) THEN LLVMArray(Count(heap[o].lo, heap[o].hi), f[heap[o].child[1]])
    ELSE LLVMType(IF heap[o].base \in {"int", "real", "char", "bool"} THEN heap[o].base ELSE Undefined)

SameWith(f, p) ==
    LET x == heap[p[1]]
        y == heap[p[2]]
    IN  /\ x.base = y.base
        /\ x.base \in {"int", "char", "real", "bool", "array"}
        /\ x.base = "array" =>
               /\ x.hi - y.lo = y.hi - y.lo
               /\ x.child # << >> /\ y.child # << >>
               /\ f[<<x.child[1], y.child[1]>>]

(* The three readers in one, to show once that they are functions. *)
Reader == {"term", "llvm", "same"}

ReaderWith(r, f, x) ==
    CASE r = "term" -> TermWith(f, x)
      [] r = "llvm" -> LLVMWith(f, x)
      [] r = "same" -> SameWith(f, x)

Subjects(r)  == IF r = "same" THEN Sound \X Sound ELSE Sound
Height(r, x) == IF r = "same" THEN Rank(x[1]) ELSE Rank(x)
Low(r, n)    == {x \in Subjects(r) : Height(r, x) <= n}

LEMMA ReaderHeight ==
    ASSUME TypesOK, NEW r \in Reader, NEW x \in Subjects(r)
    PROVE  Height(r, x) \in Nat /\ Height(r, x) > 0 /\ Height(r, x) <= Len(heap)
BY RankDecreases DEF Subjects, Height, Reader

LEMMA ReaderDepends ==
    ASSUME TypesOK, NEW r \in Reader, NEW x \in Subjects(r), NEW f, NEW g,
           \A y \in Subjects(r) : Height(r, y) < Height(r, x) => f[y] = g[y]
    PROVE  ReaderWith(r, f, x) = ReaderWith(r, g, x)
<1>1. CASE r # "same"
    <2>1. x \in Sound /\ \A y \in Sound : Rank(y) < Rank(x) => f[y] = g[y]
        BY <1>1 DEF Subjects, Height
    <2>2. IsArray(x) => f[heap[x].child[1]] = g[heap[x].child[1]]
        BY <2>1, FirstPart
    <2>3. TermWith(f, x) = TermWith(g, x)
        BY <2>2 DEF TermWith
    <2>4. LLVMWith(f, x) = LLVMWith(g, x)
        BY <2>2 DEF LLVMWith
    <2> QED
        BY <1>1, <2>3, <2>4 DEF ReaderWith, Reader
<1>2. CASE r = "same"
    <2>1. /\ x[1] \in Sound /\ x[2] \in Sound
          /\ \A a, b \in Sound : Rank(a) < Rank(x[1]) => f[<<a, b>>] = g[<<a, b>>]
        BY <1>2 DEF Subjects, Height
    <2>2. IsArray(x[1]) /\ IsArray(x[2])
          => f[<<heap[x[1]].child[1], heap[x[2]].child[1]>>] = g[<<heap[x[1]].child[1], heap[x[2]].child[1]>>]
        BY <2>1, FirstPart
    <2>3. SameWith(f, x) = SameWith(g, x)
        BY <2>2 DEF SameWith, IsArray
    <2> QED
        BY <1>2, <2>3 DEF ReaderWith
<1> QED
    BY <1>1, <1>2

LEMMA LeastNumber ==
    ASSUME NEW T, T \subseteq Nat, T # {}
    PROVE  \E x \in T : \A y \in T : x <= y
<1> DEFINE R == OpToRel(<, Nat)
<1>1. IsWellFoundedOn(R, Nat)
    BY NatLessThanWellFounded
<1>2. \A x, y \in Nat : y < x => <<y, x>> \in R
    BY DEF OpToRel
<1> HIDE DEF R
<1>3. PICK x \in T : \A y \in T : ~(<<y, x>> \in R)
    BY <1>1, WFMin
<1>4. ASSUME NEW y \in T PROVE x <= y
    <2>1. x \in Nat /\ y \in Nat /\ ~(y < x)
        BY <1>2, <1>3
    <2> QED
        BY <2>1
<1> QED
    BY <1>4

LEMMA ReaderExists ==
    ASSUME TypesOK, NEW r \in Reader
    PROVE  \E f : f = [x \in Subjects(r) |-> ReaderWith(r, f, x)]
<1> DEFINE Settled(n) == \E g : g = [x \in Low(r, n) |-> ReaderWith(r, g, x)]
           Bad == {n \in Nat : ~Settled(n)}
<1>1. Bad = {}
    <2> SUFFICES ASSUME Bad # {} PROVE FALSE
        OBVIOUS
    <2>1. PICK n \in Bad : \A m \in Bad : n <= m
        <3>1. Bad \subseteq Nat
            OBVIOUS
        <3> HIDE DEF Bad
        <3> QED
            BY <3>1, LeastNumber
    <2>2. n \in Nat /\ ~Settled(n) /\ \A m \in Nat : m < n => Settled(m)
        <3> HIDE DEF Settled
        <3>1. \A m \in Nat : m < n => m \notin Bad
            BY <2>1
        <3> QED
            BY <2>1, <3>1
    <2>3. n # 0
        <3>1. Low(r, 0) = {}
            BY ReaderHeight DEF Low
        <3> DEFINE g == [x \in {} |-> 0]
        <3>2. g = [x \in Low(r, 0) |-> ReaderWith(r, g, x)]
            BY <3>1
        <3>3. Settled(0)
            BY <3>2
        <3> HIDE DEF Settled
        <3> QED
            BY <2>2, <3>3
    <2>4. Settled(n - 1)
        <3> HIDE DEF Settled
        <3> QED
            BY <2>2, <2>3
    <2>5. PICK g : g = [x \in Low(r, n - 1) |-> ReaderWith(r, g, x)]
        BY <2>4
    <2> DEFINE h == [x \in Low(r, n) |-> ReaderWith(r, g, x)]
    <2>6. \A y \in Low(r, n - 1) : y \in Low(r, n) /\ g[y] = ReaderWith(r, g, y)
        <3>1. \A y \in Low(r, n - 1) : y \in Low(r, n)
            BY <2>2, <2>3, ReaderHeight DEF Low
        <3> QED
            BY <2>5, <3>1
    <2>7. \A y \in Low(r, n - 1) : g[y] = h[y]
        BY <2>6
    <2> HIDE DEF h
    <2>8. \A x \in Low(r, n) : ReaderWith(r, g, x) = ReaderWith(r, h, x)
        <3>1. SUFFICES ASSUME NEW x \in Low(r, n) PROVE ReaderWith(r, g, x) = ReaderWith(r, h, x)
            OBVIOUS
        <3>2. x \in Subjects(r) /\ Height(r, x) <= n
            BY DEF Low
        <3>3. ASSUME NEW y \in Subjects(r), Height(r, y) < Height(r, x) PROVE g[y] = h[y]
            <4>1. Height(r, y) <= n - 1
                BY <2>2, <3>2, <3>3, ReaderHeight
            <4> QED
                BY <2>7, <4>1 DEF Low
        <3> QED
            BY <3>2, <3>3, ReaderDepends
    <2>9. h = [x \in Low(r, n) |-> ReaderWith(r, h, x)]
        BY <2>8 DEF h
    <2> QED
        BY <2>2, <2>9
<1>2. Low(r, Len(heap)) = Subjects(r)
    BY ReaderHeight DEF Low
<1>3. Len(heap) \in Nat
    BY HeapType
<1>4. Settled(Len(heap))
    <2> HIDE DEF Settled
    <2> QED
        BY <1>1, <1>3
<1> QED
    BY <1>2, <1>4

LEMMA TermIs ==
    ASSUME TypesOK, NEW o \in Sound
    PROVE  Term(o) = IF IsArray(o) THEN Array(Bounds(o), Term(heap[o].child[1])) ELSE Element(o)
<1> DEFINE term == CHOOSE f : f = [x \in Sound |-> TermWith(f, x)]
<1>1. term = [x \in Sound |-> TermWith(term, x)]
    <2>1. \E f : f = [x \in Subjects("term") |-> ReaderWith("term", f, x)]
        BY ReaderExists DEF Reader
    <2>2. \E f : f = [x \in Sound |-> TermWith(f, x)]
        BY <2>1 DEF Subjects, ReaderWith
    <2> QED
        BY <2>2
<1>2. \A t : Term(t) = term[t]
    BY DEF Term, TermWith
<1> HIDE DEF term
<1>3. term[o] = TermWith(term, o)
    BY <1>1
<1> QED
    BY <1>2, <1>3, FirstPart DEF TermWith

LEMMA LLVMIs ==
    ASSUME TypesOK, NEW o \in Sound
    PROVE  LLVMTYPERET(o) =
               IF IsArray(o) THEN LLVMArray(Count(heap[o].lo, heap[o].hi), LLVMTYPERET(heap[o].child[1]))
               ELSE LLVMType(IF heap[o].base \in {"int", "real", "char", "bool"} THEN heap[o].base ELSE Undefined)
<1> DEFINE llvm == CHOOSE f : f = [x \in Sound |-> LLVMWith(f, x)]
<1>1. llvm = [x \in Sound |-> LLVMWith(llvm, x)]
    <2>1. \E f : f = [x \in Subjects("llvm") |-> ReaderWith("llvm", f, x)]
        BY ReaderExists DEF Reader
    <2>2. \E f : f = [x \in Sound |-> LLVMWith(f, x)]
        BY <2>1 DEF Subjects, ReaderWith
    <2> QED
        BY <2>2
<1>2. \A t : LLVMTYPERET(t) = llvm[t]
    BY DEF LLVMTYPERET, LLVMWith
<1> HIDE DEF llvm
<1>3. llvm[o] = LLVMWith(llvm, o)
    BY <1>1
<1> QED
    BY <1>2, <1>3 DEF LLVMWith

LEMMA SameIs ==
    ASSUME TypesOK, NEW t \in Sound, NEW u \in Sound
    PROVE  isSameType(t, u) <=>
               /\ heap[t].base = heap[u].base
               /\ heap[t].base \in {"int", "char", "real", "bool", "array"}
               /\ heap[t].base = "array" =>
                      /\ heap[t].hi - heap[u].lo = heap[u].hi - heap[u].lo
                      /\ heap[t].child # << >> /\ heap[u].child # << >>
                      /\ isSameType(heap[t].child[1], heap[u].child[1])
<1> DEFINE same == CHOOSE f : f = [p \in Sound \X Sound |-> SameWith(f, p)]
<1>1. same = [p \in Sound \X Sound |-> SameWith(same, p)]
    <2>1. \E f : f = [p \in Subjects("same") |-> ReaderWith("same", f, p)]
        BY ReaderExists DEF Reader
    <2>2. \E f : f = [p \in Sound \X Sound |-> SameWith(f, p)]
        BY <2>1 DEF Subjects, ReaderWith
    <2> QED
        BY <2>2
<1>2. \A v, w : isSameType(v, w) = same[<<v, w>>]
    BY DEF isSameType, SameWith
<1> HIDE DEF same
<1>3. same[<<t, u>>] = SameWith(same, <<t, u>>)
    BY <1>1
<1> QED
    BY <1>2, <1>3 DEF SameWith
--------------------------------------------------------------------------------
(* Type correctness of the objects and of what refers to them *)

LEMMA LengthNat == {MaxObjects, MaxLength, MaxScopes, MaxBuild, Wide} \subseteq Nat /\ MaxLength \in Nat
BY BoundAssumption

LEMMA OpenType ==
    ASSUME TypesOK
    PROVE  /\ Len(open) \in Nat \ {0} /\ Len(open) \in DOMAIN open /\ open # << >>
           /\ \A i \in DOMAIN open : open[i].types \in Seq(Definitions)
           /\ Len(open) > 1 =>
                Front(open) \in Seq([part : {"types", "vars", "funcs"}, types : Seq(Definitions)]) \ {<< >>}
<1> DEFINE S == [part : {"types", "vars", "funcs"}, types : Seq(Definitions)]
<1>1. open \in Seq(S) /\ open # << >>
    BY DEF TypesOK
<1>2. \A x \in S : x.types \in Seq(Definitions)
    OBVIOUS
<1> HIDE DEF S
<1>3. Len(open) \in Nat \ {0} /\ Len(open) \in DOMAIN open /\ \A i \in DOMAIN open : open[i] \in S
    BY <1>1
<1>4. Len(open) > 1 => Front(open) \in Seq(S) \ {<< >>}
    BY <1>1, <1>3 DEF Front
<1> QED
    BY <1>1, <1>2, <1>3, <1>4 DEF S

LEMMA BuildType ==
    ASSUME TypesOK
    PROVE  \A i \in DOMAIN build : build[i].type \in Objects /\ build[i].want \in Terms
<1> DEFINE S == [type : Objects, easy : BOOLEAN, want : Terms]
<1>1. build \in Seq(S)
    BY DEF TypesOK
<1>2. \A x \in S : x.type \in Objects /\ x.want \in Terms
    OBVIOUS
<1> HIDE DEF S
<1> QED
    BY <1>1, <1>2

(* The meaning of a visible name is one of its definitions. *)
LEMMA MeaningIs ==
    ASSUME TypesOK, NEW n, Visible(n) # {}
    PROVE  \E i \in DOMAIN open : \E k \in DOMAIN open[i].types : Meaning(n) = open[i].types[k]
<1> DEFINE Best(d) == \A e \in Visible(n) : e[1] < d[1] \/ (e[1] = d[1] /\ e[2] >= d[2])
<1>1. \A e \in Visible(n) : /\ e[1] \in DOMAIN open /\ e[2] \in DOMAIN open[e[1]].types
                            /\ e[1] \in Nat /\ e[2] \in Nat /\ Len(open) - e[1] \in Nat
    BY OpenType, BoundAssumption DEF Visible
<1>2. \E d \in Visible(n) : Best(d)
    <2> DEFINE Depths == {Len(open) - e[1] : e \in Visible(n)}
    <2>1. Depths \subseteq Nat /\ Depths # {}
        BY <1>1
    <2>2. PICK a \in Visible(n) : \A e \in Visible(n) : Len(open) - a[1] <= Len(open) - e[1]
        <3>1. PICK x \in Depths : \A y \in Depths : x <= y
            <4> HIDE DEF Depths
            <4> QED
                BY <2>1, LeastNumber
        <3> QED
            BY <3>1
    <2> DEFINE Numbers == {e[2] : e \in {f \in Visible(n) : f[1] = a[1]}}
    <2>3. Numbers \subseteq Nat /\ Numbers # {}
        BY <1>1, <2>2
    <2>4. PICK d \in Visible(n) : d[1] = a[1] /\ \A e \in Visible(n) : e[1] = a[1] => d[2] <= e[2]
        <3>1. PICK x \in Numbers : \A y \in Numbers : x <= y
            <4> HIDE DEF Numbers
            <4> QED
                BY <2>3, LeastNumber
        <3> QED
            BY <3>1
    <2>5. ASSUME NEW e \in Visible(n) PROVE e[1] < d[1] \/ (e[1] = d[1] /\ e[2] >= d[2])
        <3>1. Len(open) \in Nat /\ e[1] \in Nat /\ e[2] \in Nat /\ d[1] \in Nat /\ d[2] \in Nat
            BY <1>1, OpenType
        <3>2. Len(open) - a[1] <= Len(open) - e[1] /\ d[1] = a[1]
            BY <2>2, <2>4
        <3>3. e[1] <= d[1]
            BY <3>1, <3>2
        <3>4. e[1] = d[1] => d[2] <= e[2]
            BY <2>4
        <3> QED
            BY <3>1, <3>3, <3>4
    <2> QED
        BY <2>5
<1>3. PICK d \in Visible(n) : Meaning(n) = open[d[1]].types[d[2]]
    <2> DEFINE d == CHOOSE d \in Visible(n) : Best(d)
    <2>1. d \in Visible(n)
        BY <1>2
    <2>2. Meaning(n) = open[d[1]].types[d[2]]
        BY DEF Meaning
    <2> HIDE DEF d
    <2> QED
        BY <2>1, <2>2
<1> QED
    BY <1>1, <1>3

LEMMA MeaningType ==
    ASSUME TypesOK, NEW n, Visible(n) # {}
    PROVE  Meaning(n).want \in Terms
<1>1. PICK i \in DOMAIN open : \E k \in DOMAIN open[i].types : Meaning(n) = open[i].types[k]
    BY MeaningIs
<1>2. open[i].types \in Seq(Definitions)
    BY OpenType
<1>3. \A k \in DOMAIN open[i].types : open[i].types[k] \in Definitions
    BY <1>2
<1> QED
    BY <1>1, <1>3 DEF Definitions

(* The heap grows, and nothing else has to change. *)
LEMMA HeapGrows ==
    ASSUME TypesOK, heap' \in Seq(ObjectsUpTo(Len(heap'))), Len(heap') >= Len(heap),
           NEW v \in [type : Objects', easy : BOOLEAN, want : Terms],
           NEW b \in Seq([type : Objects, easy : BOOLEAN, want : Terms]), build' = Append(b, v),
           careful' \in BOOLEAN, UNCHANGED <<tmp, section, open, declared, length, status>>
    PROVE  TypesOK'
<1>1. Len(heap) \in Nat /\ Len(heap') \in Nat
    BY HeapType
<1>2. Objects \subseteq Objects'
    BY <1>1 DEF Objects
<1>3. /\ tmp' \in Seq(Definitions') /\ section' \in Seq(Definitions')
      /\ b \in Seq([type : Objects', easy : BOOLEAN, want : Terms])
      /\ open' \in Seq([part : {"types", "vars", "funcs"}, types : Seq(Definitions')])
      /\ declared' \subseteq [type : Objects', want : Terms, global : BOOLEAN]
    BY <1>2, TypesMonotonic DEF TypesOK, Definitions
<1>4. build' \in Seq([type : Objects', easy : BOOLEAN, want : Terms])
    <2> DEFINE V == [type : Objects', easy : BOOLEAN, want : Terms]
    <2>1. b \in Seq(V) /\ v \in V
        BY <1>3
    <2> HIDE DEF V
    <2>2. build' \in Seq(V)
        BY <2>1
    <2> QED
        BY <2>2 DEF V
<1>5. open' # << >> /\ length' \in 0 .. MaxLength /\ status' \in {"parsing", "parsed"} \cup Name
    BY DEF TypesOK
<1> QED
    BY <1>3, <1>4, <1>5 DEF TypesOK, Terms, Elements

LEMMA ObjectMade ==
    ASSUME NEW n \in Nat, NEW base \in Base \cup {"array", "record", "unset"}, NEW lo \in Nat, NEW hi \in Nat,
           NEW child \in Seq(1 .. n)
    PROVE  Object(base, lo, hi, child) \in ObjectsUpTo(n)
BY DEF Object, ObjectsUpTo

LEMMA ObjectsMore ==
    ASSUME NEW m \in Nat, NEW n \in Nat, m <= n
    PROVE  /\ ObjectsUpTo(m) \subseteq ObjectsUpTo(n)
           /\ Seq(ObjectsUpTo(m)) \subseteq Seq(ObjectsUpTo(n))
<1>1. 1 .. m \subseteq 1 .. n
    OBVIOUS
<1>2. Seq(1 .. m) \subseteq Seq(1 .. n)
    BY <1>1, SeqOfMore
<1>3. ObjectsUpTo(m) \subseteq ObjectsUpTo(n)
    BY <1>2 DEF ObjectsUpTo
<1> QED
    BY <1>3, SeqOfMore

LEMMA NewObject ==
    ASSUME TypesOK, NEW x \in ObjectsUpTo(Len(heap) + 1), heap' = Append(heap, x)
    PROVE  /\ heap' \in Seq(ObjectsUpTo(Len(heap'))) /\ Len(heap') = Len(heap) + 1
           /\ Len(heap) + 1 \in Objects' /\ heap'[Len(heap) + 1] = x
           /\ \A o \in Objects : o \in Objects' /\ heap'[o] = heap[o]
<1>1. Len(heap) \in Nat /\ heap \in Seq(ObjectsUpTo(Len(heap)))
    BY HeapType
<1>2. heap \in Seq(ObjectsUpTo(Len(heap) + 1))
    BY <1>1, ObjectsMore
<1> DEFINE S == ObjectsUpTo(Len(heap) + 1)
<1>3. heap \in Seq(S) /\ x \in S
    BY <1>2
<1> HIDE DEF S
<1>4. /\ heap' \in Seq(S) /\ Len(heap') = Len(heap) + 1 /\ heap'[Len(heap) + 1] = x
      /\ \A o \in 1 .. Len(heap) : heap'[o] = heap[o]
    BY <1>1, <1>3
<1> QED
    BY <1>1, <1>4 DEF S, Objects

LEMMA SystemTypeOK == ASSUME TypesOK, NEW b \in Base, SystemType(b) PROVE TypesOK'
<1> DEFINE x == Object(b, 0, 0, << >>)
           v == Value(Len(heap) + 1, TRUE, Scalar(b))
<1>1. Len(heap) \in Nat
    BY HeapType
<1>2. heap' = Append(heap, x) /\ build' = Append(build, v)
    BY DEF SystemType, Push
<1>3. x \in ObjectsUpTo(Len(heap) + 1)
    <2>1. Len(heap) + 1 \in Nat /\ << >> \in Seq(1 .. Len(heap) + 1)
        BY <1>1
    <2> QED
        BY <1>1, <2>1, ObjectMade
<1> HIDE DEF x
<1>4. /\ heap' \in Seq(ObjectsUpTo(Len(heap'))) /\ Len(heap') = Len(heap) + 1 /\ Len(heap) + 1 \in Objects'
    BY <1>2, <1>3, NewObject
<1>5. v \in [type : Objects', easy : BOOLEAN, want : Terms]
    BY <1>4, TermsMade DEF Value
<1> HIDE DEF v
<1>6. /\ build \in Seq([type : Objects, easy : BOOLEAN, want : Terms]) /\ careful' \in BOOLEAN
      /\ UNCHANGED <<tmp, section, open, declared, length, status>>
    BY DEF SystemType, TypesOK
<1>7. Len(heap') >= Len(heap)
    BY <1>1, <1>4
<1> QED
    BY <1>2, <1>4, <1>5, <1>6, <1>7, HeapGrows

LEMMA RangeTypeOK == ASSUME TypesOK, NEW r \in Subranges, RangeType(r) PROVE TypesOK'
<1> DEFINE x == Object("array", r[1], r[2], << >>)
           v == Value(Len(heap) + 1, TRUE, Subrange(r))
<1>1. Len(heap) \in Nat /\ r[1] \in Nat /\ r[2] \in Nat
    BY HeapType, SubrangeAssumption
<1>2. heap' = Append(heap, x) /\ build' = Append(build, v)
    BY DEF RangeType, Push
<1>3. x \in ObjectsUpTo(Len(heap) + 1)
    <2>1. Len(heap) + 1 \in Nat /\ << >> \in Seq(1 .. Len(heap) + 1)
        BY <1>1
    <2> QED
        BY <1>1, <2>1, ObjectMade
<1> HIDE DEF x
<1>4. /\ heap' \in Seq(ObjectsUpTo(Len(heap'))) /\ Len(heap') = Len(heap) + 1 /\ Len(heap) + 1 \in Objects'
    BY <1>2, <1>3, NewObject
<1>5. v \in [type : Objects', easy : BOOLEAN, want : Terms]
    BY <1>4, TermsMade DEF Value
<1> HIDE DEF v
<1>6. /\ build \in Seq([type : Objects, easy : BOOLEAN, want : Terms]) /\ careful' \in BOOLEAN
      /\ UNCHANGED <<tmp, section, open, declared, length, status>>
    BY DEF RangeType, TypesOK
<1>7. Len(heap') >= Len(heap)
    BY <1>1, <1>4
<1> QED
    BY <1>2, <1>4, <1>5, <1>6, <1>7, HeapGrows

(* The values that a rule takes from the stack of the parser. *)
LEMMA BuildEnds ==
    ASSUME TypesOK
    PROVE  /\ build # << >> => /\ Last(build).type \in Objects /\ Last(build).want \in Terms
                              /\ Last(build) = build[Len(build)] /\ Len(build) \in DOMAIN build
                              /\ Front(build) \in Seq([type : Objects, easy : BOOLEAN, want : Terms])
           /\ Len(build) >= 2 =>
                 /\ build # << >> /\ Len(build) - 1 \in DOMAIN build
                 /\ build[Len(build) - 1].type \in Objects /\ build[Len(build) - 1].want \in Terms
                 /\ Front(Front(build)) \in Seq([type : Objects, easy : BOOLEAN, want : Terms])
<1> DEFINE S == [type : Objects, easy : BOOLEAN, want : Terms]
<1>1. build \in Seq(S) /\ Len(build) \in Nat
    BY DEF TypesOK
<1> HIDE DEF S
<1>2. ASSUME build # << >>
      PROVE  Front(build) \in Seq(S) /\ Len(Front(build)) = Len(build) - 1 /\ Len(build) \in DOMAIN build
    <2>1. Len(build) >= 1 /\ Len(build) \in DOMAIN build
        BY <1>1, <1>2
    <2>2. \A k \in 1 .. Len(build) - 1 : build[k] \in S
        BY <1>1
    <2> DEFINE n == Len(build) - 1
    <2>3. n \in Nat /\ 1 \in Int /\ build \in Seq(S)
        BY <1>1, <2>1
    <2>4. Front(build) = SubSeq(build, 1, n)
        BY DEF Front
    <2> HIDE DEF n
    <2>5. Front(build) \in Seq(S)
        BY <1>1, <2>3, <2>4, <2>2 DEF n
    <2>6. Len(Front(build)) = n
        BY <2>3, <2>4
    <2> QED
        BY <2>1, <2>5, <2>6 DEF n
<1>3. Len(build) >= 2 => build # << >> /\ Len(build) - 1 \in DOMAIN build
    BY <1>1
<1>4. Len(build) >= 2 => Front(Front(build)) \in Seq(S)
    BY <1>1, <1>2, <1>3 DEF Front
<1> QED
    BY <1>2, <1>3, <1>4, BuildType DEF S, Last

LEMMA NamedTypeOK == ASSUME TypesOK, NEW n, NamedType(n) PROVE TypesOK'
<1> DEFINE w == IF Visible(n) # {} THEN Meaning(n).want ELSE Nonsense
<1>1. w \in Terms
    BY MeaningType, TermsMade
<1>2. \A i \in DOMAIN tmp : tmp[i].type \in Objects
    <2>1. tmp \in Seq(Definitions)
        BY DEF TypesOK
    <2>2. \A d \in Definitions : d.type \in Objects
        BY DEF Definitions
    <2> QED
        BY <2>1, <2>2
<1>3. PICK i \in Entries(n) : build' = Append(build, Value(tmp[i].type, TRUE, w)) /\ careful' \in BOOLEAN
    BY DEF NamedType, Push, TypesOK
<1> HIDE DEF w
<1> DEFINE v == Value(tmp[i].type, TRUE, w)
<1>4. Objects' = Objects /\ UNCHANGED <<heap, tmp, section, open, declared, length, status>>
    BY DEF NamedType, Objects
<1>5. v \in [type : Objects', easy : BOOLEAN, want : Terms]
    BY <1>1, <1>2, <1>4 DEF Value, Entries
<1>6. heap' \in Seq(ObjectsUpTo(Len(heap'))) /\ Len(heap') >= Len(heap)
    BY <1>4, HeapType
<1>7. build \in Seq([type : Objects, easy : BOOLEAN, want : Terms])
    BY DEF TypesOK
<1> HIDE DEF v
<1>8. build' = Append(build, v)
    BY <1>3 DEF v
<1> QED
    BY <1>3, <1>4, <1>5, <1>6, <1>7, <1>8, HeapGrows

LEMMA ArrayHeap ==
    ASSUME TypesOK, ArrayType
    PROVE  LET ix == build[Len(build) - 1]
               el == Last(build)
           IN  /\ ix.type \in Objects /\ ix.want \in Terms /\ el.type \in Objects /\ el.want \in Terms
               /\ heap' \in Seq(ObjectsUpTo(Len(heap'))) /\ Len(heap') = Len(heap) /\ Objects' = Objects
               /\ \A o \in Objects \ {ix.type} : heap'[o] = heap[o]
               /\ heap'[ix.type].base = heap[ix.type].base
               /\ heap'[ix.type].lo = heap[ix.type].lo /\ heap'[ix.type].hi = heap[ix.type].hi
               /\ heap'[ix.type].child = Append(heap[ix.type].child, el.type)
<1> DEFINE ix == build[Len(build) - 1]
           el == Last(build)
           o  == ix.type
           x  == [heap[o] EXCEPT !.child = Append(@, el.type)]
           S  == ObjectsUpTo(Len(heap))
<1>1. /\ heap' = [heap EXCEPT ![o] = x]
      /\ ix.type \in Objects /\ ix.want \in Terms /\ el.type \in Objects /\ el.want \in Terms
    BY BuildEnds DEF ArrayType, WithElement
<1>2. heap \in Seq(S) /\ Len(heap) \in Nat
    BY HeapType
<1> HIDE DEF ix, el
<1>3. heap[o] \in S
    BY <1>1, <1>2 DEF Objects
<1>4. /\ x \in S /\ x.base = heap[o].base /\ x.lo = heap[o].lo /\ x.hi = heap[o].hi
      /\ x.child = Append(heap[o].child, el.type)
    <2>1. heap[o].child \in Seq(1 .. Len(heap))
        BY <1>3 DEF ObjectsUpTo
    <2>2. Append(heap[o].child, el.type) \in Seq(1 .. Len(heap))
        BY <1>1, <2>1 DEF Objects
    <2> QED
        BY <1>3, <2>2 DEF ObjectsUpTo
<1> HIDE DEF x, S
<1>5. heap' \in Seq(S) /\ Len(heap') = Len(heap) /\ heap'[o] = x /\ \A p \in Objects \ {o} : heap'[p] = heap[p]
    BY <1>1, <1>2, <1>4 DEF Objects
<1>6. Objects' = Objects
    BY <1>5 DEF Objects
<1>7. heap' \in Seq(ObjectsUpTo(Len(heap')))
    BY <1>5 DEF S
<1> QED
    BY <1>1, <1>4, <1>5, <1>6, <1>7 DEF ix, el

LEMMA ArrayTypeOK == ASSUME TypesOK, ArrayType PROVE TypesOK'
<1> DEFINE ix == build[Len(build) - 1]
           el == Last(build)
           w  == IF IsSubrange(ix.want) THEN Array(ix.want.of.range, el.want) ELSE Nonsense
           v  == Value(ix.type, FALSE, w)
<1>1. /\ Objects' = Objects /\ heap' \in Seq(ObjectsUpTo(Len(heap'))) /\ Len(heap') = Len(heap)
      /\ ix.type \in Objects /\ ix.want \in Terms /\ el.want \in Terms
    BY ArrayHeap
<1>2. Len(heap) \in Nat
    BY HeapType
<1>3. /\ build' = Append(Front(Front(build)), v)
      /\ Front(Front(build)) \in Seq([type : Objects, easy : BOOLEAN, want : Terms])
    BY BuildEnds DEF ArrayType
<1>4. w \in Terms
    BY <1>1, TermsMade
<1> HIDE DEF w
<1>5. v \in [type : Objects', easy : BOOLEAN, want : Terms]
    BY <1>1, <1>4 DEF Value
<1>6. careful' \in BOOLEAN /\ UNCHANGED <<tmp, section, open, declared, length, status>>
    BY DEF ArrayType
<1>7. Len(heap') >= Len(heap)
    BY <1>1, <1>2
<1> DEFINE b == Front(Front(build))
<1> HIDE DEF v, b
<1>8. b \in Seq([type : Objects, easy : BOOLEAN, want : Terms]) /\ build' = Append(b, v)
    BY <1>3 DEF b
<1> QED
    BY <1>1, <1>5, <1>6, <1>7, <1>8, HeapGrows

LEMMA RecordHeap ==
    ASSUME TypesOK, RecordType
    PROVE  LET n == Len(heap)
           IN  /\ build # << >> /\ n \in Nat /\ Last(build).type \in Objects
               /\ heap' \in Seq(ObjectsUpTo(Len(heap'))) /\ Len(heap') = n + 2 /\ Objects' = Objects \cup {n + 1, n + 2}
               /\ \A o \in Objects : heap'[o] = heap[o]
               /\ heap'[n + 1] = Object("unset", 0, 0, <<Last(build).type>>)
               /\ heap'[n + 2] = Object("record", 0, 0, <<n + 1>>)
<1> DEFINE n == Len(heap)
           t == Last(build).type
           x == Object("unset", 0, 0, <<t>>)
           y == Object("record", 0, 0, <<n + 1>>)
           S == ObjectsUpTo(n + 2)
<1>1. heap' = heap \o <<x, y>> /\ build # << >>
    BY DEF RecordType
<1>2. t \in Objects
    BY <1>1, BuildEnds
<1>3. n \in Nat /\ heap \in Seq(ObjectsUpTo(n))
    BY HeapType
<1> HIDE DEF n, t
<1>4. t \in 1 .. n
    BY <1>2 DEF Objects, n
<1>5. heap \in Seq(S) /\ n + 2 \in Nat
    BY <1>3, ObjectsMore
<1>6. x \in S /\ y \in S
    <2>1. <<t>> \in Seq(1 .. n + 2) /\ <<n + 1>> \in Seq(1 .. n + 2)
        BY <1>3, <1>4
    <2> QED
        BY <1>5, <2>1, ObjectMade
<1> HIDE DEF x, y, S
<1>7. <<x, y>> \in Seq(S) /\ Len(<<x, y>>) = 2
    BY <1>6
<1>8. /\ heap' \in Seq(S) /\ Len(heap') = n + 2 /\ heap'[n + 1] = x /\ heap'[n + 2] = y
      /\ \A o \in 1 .. n : heap'[o] = heap[o]
    BY <1>1, <1>3, <1>5, <1>7 DEF n
<1>9. Objects' = Objects \cup {n + 1, n + 2}
    BY <1>3, <1>8 DEF Objects, n
<1> QED
    BY <1>1, <1>2, <1>3, <1>8, <1>9 DEF Objects, n, t, x, y, S

LEMMA RecordTypeOK == ASSUME TypesOK, RecordType PROVE TypesOK'
<1> DEFINE v == Value(Len(heap) + 2, FALSE, Record)
           b == Front(build)
<1>1. /\ Objects' = Objects \cup {Len(heap) + 1, Len(heap) + 2} /\ heap' \in Seq(ObjectsUpTo(Len(heap')))
      /\ Len(heap') = Len(heap) + 2 /\ Len(heap) \in Nat /\ build # << >>
    BY RecordHeap
<1>2. build' = Append(b, v) /\ b \in Seq([type : Objects, easy : BOOLEAN, want : Terms])
    BY <1>1, BuildEnds DEF RecordType
<1>3. v \in [type : Objects', easy : BOOLEAN, want : Terms]
    BY <1>1, TermsMade DEF Value
<1>4. careful' \in BOOLEAN /\ UNCHANGED <<tmp, section, open, declared, length, status>>
    BY DEF RecordType, TypesOK
<1>5. Len(heap') >= Len(heap)
    BY <1>1
<1> HIDE DEF v, b
<1> QED
    BY <1>1, <1>2, <1>3, <1>4, <1>5, HeapGrows

(* Types are only begun when there is room for one more declaration. *)
Room == build # << >> => length < MaxLength

LEMMA HeapStays ==
    ASSUME TypesOK, UNCHANGED heap,
           tmp' \in Seq(Definitions), section' \in Seq(Definitions),
           build' \in Seq([type : Objects, easy : BOOLEAN, want : Terms]),
           open' \in Seq([part : {"types", "vars", "funcs"}, types : Seq(Definitions)]) \ {<< >>},
           declared' \subseteq [type : Objects, want : Terms, global : BOOLEAN],
           length' \in 0 .. MaxLength, careful' \in BOOLEAN, status' \in {"parsing", "parsed"} \cup Name
    PROVE  TypesOK'
<1>1. Objects' = Objects /\ Definitions' = Definitions /\ Terms' = Terms
    BY DEF Objects, Definitions, Terms, Elements
<1>2. heap' \in Seq(ObjectsUpTo(Len(heap')))
    BY DEF TypesOK
<1> QED
    BY <1>1, <1>2 DEF TypesOK

LEMMA TypesOKIs ==
    ASSUME TypesOK
    PROVE  /\ tmp \in Seq(Definitions) /\ section \in Seq(Definitions)
           /\ build \in Seq([type : Objects, easy : BOOLEAN, want : Terms])
           /\ open \in Seq([part : {"types", "vars", "funcs"}, types : Seq(Definitions)]) \ {<< >>}
           /\ declared \subseteq [type : Objects, want : Terms, global : BOOLEAN]
           /\ length \in 0 .. MaxLength /\ careful \in BOOLEAN /\ status \in {"parsing", "parsed"} \cup Name
           /\ << >> \in Seq(Definitions) /\ << >> \in Seq([type : Objects, easy : BOOLEAN, want : Terms])
BY DEF TypesOK

LEMMA PartChanges ==
    ASSUME TypesOK, NEW p \in {"types", "vars", "funcs"}
    PROVE  [open EXCEPT ![Len(open)].part = p]
               \in Seq([part : {"types", "vars", "funcs"}, types : Seq(Definitions)]) \ {<< >>}
<1> DEFINE D == Seq(Definitions)
           S == [part : {"types", "vars", "funcs"}, types : D]
           x == [open[Len(open)] EXCEPT !.part = p]
<1>1. open \in Seq(S) /\ open # << >>
    BY DEF TypesOK
<1> HIDE DEF D
<1>2. \A y \in S : [y EXCEPT !.part = p] \in S
    OBVIOUS
<1> HIDE DEF S
<1>3. Len(open) \in DOMAIN open /\ open[Len(open)] \in S
    BY <1>1
<1>4. x \in S
    BY <1>2, <1>3
<1> HIDE DEF x
<1>5. [open EXCEPT ![Len(open)] = x] \in Seq(S) \ {<< >>}
    BY <1>1, <1>3, <1>4
<1> QED
    BY <1>5 DEF x, S, D

LEMMA TypesGrow ==
    ASSUME TypesOK, NEW d \in Definitions
    PROVE  [open EXCEPT ![Len(open)].types = Append(@, d)]
               \in Seq([part : {"types", "vars", "funcs"}, types : Seq(Definitions)]) \ {<< >>}
<1> DEFINE S == [part : {"types", "vars", "funcs"}, types : Seq(Definitions)]
           x == [open[Len(open)] EXCEPT !.types = Append(@, d)]
<1>1. open \in Seq(S) /\ open # << >>
    BY DEF TypesOK
<1>2. \A y \in S : [y EXCEPT !.types = Append(@, d)] \in S
    <2> SUFFICES ASSUME NEW y \in S PROVE [y EXCEPT !.types = Append(@, d)] \in S
        OBVIOUS
    <2> DEFINE D == Definitions
    <2>1. y.types \in Seq(D) /\ d \in D
        OBVIOUS
    <2> HIDE DEF D
    <2>2. Append(y.types, d) \in Seq(D)
        BY <2>1
    <2> QED
        BY <2>2 DEF D
<1> HIDE DEF S
<1>3. Len(open) \in DOMAIN open /\ open[Len(open)] \in S
    BY <1>1
<1>4. x \in S
    BY <1>2, <1>3
<1> HIDE DEF x
<1>5. [open EXCEPT ![Len(open)] = x] \in Seq(S) \ {<< >>}
    BY <1>1, <1>3, <1>4
<1> QED
    BY <1>5 DEF x, S

LEMMA OneType ==
    ASSUME TypesOK, Room, Len(build) = 1
    PROVE  /\ build[1].type \in Objects /\ build[1].want \in Terms /\ length + 1 \in 0 .. MaxLength
           /\ 1 \in DOMAIN build
<1> DEFINE S == [type : Objects, easy : BOOLEAN, want : Terms]
<1>1. build # << >> /\ 1 \in DOMAIN build
    <2>1. build \in Seq(S)
        BY TypesOKIs
    <2> HIDE DEF S
    <2> QED
        BY <2>1
<1>2. length \in Nat /\ length < MaxLength /\ MaxLength \in Nat
    BY <1>1, TypesOKIs, BoundAssumption DEF Room
<1> QED
    BY <1>1, <1>2, BuildType

LEMMA DefineOK == ASSUME TypesOK, Room, NEW n \in Name, Define(n) PROVE TypesOK'
<1> DEFINE d == Definition(n, build[1])
           D == Definitions
<1>1. /\ Len(build) = 1 /\ section' = Append(section, d) /\ build' = << >> /\ length' = length + 1
      /\ open' = [open EXCEPT ![Len(open)].types = Append(@, d)]
      /\ UNCHANGED <<heap, tmp, declared, careful, status>>
    BY DEF Define
<1>2. d \in D
    BY <1>1, OneType DEF Definition, Definitions
<1>3. section \in Seq(D)
    BY TypesOKIs
<1> HIDE DEF d, D
<1>4. section' \in Seq(D)
    BY <1>1, <1>2, <1>3
<1>5. open' \in Seq([part : {"types", "vars", "funcs"}, types : Seq(Definitions)]) \ {<< >>}
    BY <1>1, <1>2, TypesGrow DEF D
<1>6. length' \in 0 .. MaxLength
    BY <1>1, OneType
<1> QED
    BY <1>1, <1>4, <1>5, <1>6, TypesOKIs, HeapStays DEF D

LEMMA VariableMade ==
    ASSUME TypesOK, Room, Len(build) = 1, NEW global \in BOOLEAN
    PROVE  declared \cup {Variable(build[1], global)} \subseteq [type : Objects, want : Terms, global : BOOLEAN]
<1>1. Variable(build[1], global) \in [type : Objects, want : Terms, global : BOOLEAN]
    BY OneType DEF Variable
<1> QED
    BY <1>1, TypesOKIs

LEMMA DeclareVarOK == ASSUME TypesOK, Room, DeclareVar PROVE TypesOK'
<1>1. /\ Len(build) = 1 /\ build' = << >> /\ length' = length + 1
      /\ declared' = declared \cup {Variable(build[1], Len(open) = 1)}
      /\ UNCHANGED <<heap, tmp, section, open, careful, status>>
    BY DEF DeclareVar
<1>2. length' \in 0 .. MaxLength
    BY <1>1, OneType
<1>3. (Len(open) = 1) \in BOOLEAN
    OBVIOUS
<1>4. declared' \subseteq [type : Objects, want : Terms, global : BOOLEAN]
    BY <1>1, <1>3, VariableMade
<1> QED
    BY <1>1, <1>2, <1>4, TypesOKIs, HeapStays

LEMMA ParamOK == ASSUME TypesOK, Room, Param PROVE TypesOK'
<1>1. /\ Len(build) = 1 /\ build' = << >> /\ length' = length + 1
      /\ declared' = declared \cup {Variable(build[1], FALSE)}
      /\ UNCHANGED <<heap, tmp, section, open, careful, status>>
    BY DEF Param
<1>2. length' \in 0 .. MaxLength
    BY <1>1, OneType
<1>3. declared' \subseteq [type : Objects, want : Terms, global : BOOLEAN]
    BY <1>1, VariableMade
<1> QED
    BY <1>1, <1>2, <1>3, TypesOKIs, HeapStays

LEMMA EndTypesOK == ASSUME TypesOK, EndTypes PROVE TypesOK'
<1>1. /\ tmp' = IF section = << >> THEN tmp ELSE section
      /\ section' = << >> /\ open' = [open EXCEPT ![Len(open)].part = "vars"]
      /\ UNCHANGED <<heap, build, declared, length, careful, status>>
    BY DEF EndTypes
<1>2. tmp' \in Seq(Definitions)
    BY <1>1, TypesOKIs
<1>3. open' \in Seq([part : {"types", "vars", "funcs"}, types : Seq(Definitions)]) \ {<< >>}
    BY <1>1, PartChanges
<1> QED
    BY <1>1, <1>2, <1>3, TypesOKIs, HeapStays

LEMMA EndVarsOK == ASSUME TypesOK, EndVars PROVE TypesOK'
<1>1. /\ open' = [open EXCEPT ![Len(open)].part = "funcs"]
      /\ UNCHANGED <<heap, tmp, section, build, declared, length, careful, status>>
    BY DEF EndVars
<1>2. open' \in Seq([part : {"types", "vars", "funcs"}, types : Seq(Definitions)]) \ {<< >>}
    BY <1>1, PartChanges
<1> QED
    BY <1>1, <1>2, TypesOKIs, HeapStays

LEMMA EnterFuncOK == ASSUME TypesOK, EnterFunc PROVE TypesOK'
<1> DEFINE S == [part : {"types", "vars", "funcs"}, types : Seq(Definitions)]
           x == Scope("types", << >>)
<1>1. /\ open' = Append(open, x) /\ length < MaxLength /\ length' = length + 1
      /\ UNCHANGED <<heap, tmp, section, build, declared, careful, status>>
    BY DEF EnterFunc
<1>2. x \in S /\ open \in Seq(S)
    BY TypesOKIs DEF Scope
<1> HIDE DEF S, x
<1>3. open' \in Seq(S) \ {<< >>}
    BY <1>1, <1>2
<1>4. length' \in 0 .. MaxLength
    BY <1>1, TypesOKIs, BoundAssumption
<1> QED
    BY <1>1, <1>3, <1>4, TypesOKIs, HeapStays DEF S

LEMMA LeaveFuncOK == ASSUME TypesOK, LeaveFunc PROVE TypesOK'
<1>1. open' = Front(open) /\ Len(open) > 1 /\ UNCHANGED <<heap, tmp, section, build, declared, length, careful, status>>
    BY DEF LeaveFunc
<1>2. open' \in Seq([part : {"types", "vars", "funcs"}, types : Seq(Definitions)]) \ {<< >>}
    BY <1>1, OpenType
<1> QED
    BY <1>1, <1>2, TypesOKIs, HeapStays

LEMMA StatusOK ==
    ASSUME TypesOK, status' \in {"parsing", "parsed"} \cup Name,
           UNCHANGED <<heap, tmp, section, build, open, declared, length, careful>>
    PROVE  TypesOK'
BY TypesOKIs, HeapStays

LEMMA TypesOKInit == TypesInit => TypesOK /\ Room
<1> SUFFICES ASSUME TypesInit PROVE TypesOK /\ Room
    OBVIOUS
<1> DEFINE S == [part : {"types", "vars", "funcs"}, types : Seq(Definitions)]
<1>1. << >> \in Seq(Definitions) /\ << >> \in Seq(ObjectsUpTo(Len(heap)))
      /\ << >> \in Seq([type : Objects, easy : BOOLEAN, want : Terms])
    OBVIOUS
<1>2. Scope("types", << >>) \in S
    BY DEF Scope
<1> HIDE DEF S
<1>3. open \in Seq(S) \ {<< >>}
    BY <1>2 DEF TypesInit
<1>4. length \in 0 .. MaxLength
    BY BoundAssumption DEF TypesInit
<1> QED
    BY <1>1, <1>3, <1>4 DEF TypesInit, TypesOK, Room, S

LEMMA TypesOKNext == TypesOK /\ Room /\ [TypesNext]_typeVars => TypesOK' /\ Room'
<1> SUFFICES ASSUME TypesOK, Room, [TypesNext]_typeVars PROVE TypesOK' /\ Room'
    OBVIOUS
<1>1. TypesOK'
    <2>1. CASE \E b \in Base : SystemType(b)
        BY <2>1, SystemTypeOK
    <2>2. CASE \E r \in Subranges : RangeType(r)
        BY <2>2, RangeTypeOK
    <2>3. CASE \E n \in Name : NamedType(n)
        BY <2>3, NamedTypeOK
    <2>4. CASE \E n \in Name : UndefinedType(n)
        BY <2>4, StatusOK DEF UndefinedType
    <2>5. CASE ArrayType
        BY <2>5, ArrayTypeOK
    <2>6. CASE RecordType
        BY <2>6, RecordTypeOK
    <2>7. CASE \E n \in Name : Define(n)
        BY <2>7, DefineOK
    <2>8. CASE EndTypes \/ EndVars
        BY <2>8, EndTypesOK, EndVarsOK
    <2>9. CASE DeclareVar \/ Param
        BY <2>9, DeclareVarOK, ParamOK
    <2>10. CASE EnterFunc \/ LeaveFunc
        BY <2>10, EnterFuncOK, LeaveFuncOK
    <2>11. CASE Finish
        BY <2>11, StatusOK DEF Finish
    <2>12. CASE UNCHANGED typeVars
        BY <2>12, StatusOK, TypesOKIs DEF typeVars
    <2> QED
        BY <2>1, <2>2, <2>3, <2>4, <2>5, <2>6, <2>7, <2>8, <2>9, <2>10, <2>11, <2>12
            DEF TypesNext, TypeExpression, Declaration, TypesStopped
<1>2. Room'
    <2>1. CASE \E b \in Base : SystemType(b)
        BY <2>1 DEF SystemType, MayBuild, Room
    <2>2. CASE \E r \in Subranges : RangeType(r)
        BY <2>2 DEF RangeType, MayBuild, Room
    <2>3. CASE \E n \in Name : NamedType(n)
        BY <2>3 DEF NamedType, MayBuild, Room
    <2>4. CASE \E n \in Name : UndefinedType(n)
        BY <2>4 DEF UndefinedType, Room
    <2>5. CASE ArrayType
        BY <2>5, BuildEnds DEF ArrayType, Room
    <2>6. CASE RecordType
        BY <2>6 DEF RecordType, Room
    <2>7. CASE \E n \in Name : Define(n)
        BY <2>7 DEF Define, Room
    <2>8. CASE EndTypes \/ EndVars
        BY <2>8 DEF EndTypes, EndVars, Room
    <2>9. CASE DeclareVar \/ Param
        BY <2>9 DEF DeclareVar, Param, Room
    <2>10. CASE EnterFunc \/ LeaveFunc
        BY <2>10 DEF EnterFunc, LeaveFunc, Room
    <2>11. CASE Finish
        BY <2>11 DEF Finish, Room
    <2>12. CASE UNCHANGED typeVars
        BY <2>12 DEF typeVars, Room
    <2> QED
        BY <2>1, <2>2, <2>3, <2>4, <2>5, <2>6, <2>7, <2>8, <2>9, <2>10, <2>11, <2>12
            DEF TypesNext, TypeExpression, Declaration, TypesStopped
<1> QED
    BY <1>1, <1>2
--------------------------------------------------------------------------------
(* Objects that mean what their declarations say *)

(* A declaration says nothing of a record or of what no rule makes, and of *)
(* a subrange only its ends: it may have become the index of an array.     *)
Says(o, e) ==
    /\ e.kind = "scalar" => heap[o].base = e.base
    /\ e.kind = "range"  => heap[o].base = "array" /\ Bounds(o) = e.range

(* Behind the object are arrays, one per dimension, and then its element. *)
Path(o, w) == {p \in [1 .. Len(w.dims) + 1 -> Objects] : p[1] = o}

Means(o, w) ==
    \E p \in Path(o, w) :
        /\ \A k \in 1 .. Len(w.dims) :
               IsArray(p[k]) /\ Bounds(p[k]) = w.dims[k] /\ heap[p[k]].child[1] = p[k + 1]
        /\ Says(p[Len(w.dims) + 1], w.of)

(* The term without its first dimension. *)
Inner(w) == [dims |-> Tail(w.dims), of |-> w.of]

LEMMA InnerTerm ==
    ASSUME NEW w \in Terms
    PROVE  /\ Len(w.dims) \in Nat /\ w.of \in Elements /\ w.dims \in Seq(Subranges)
           /\ w = [dims |-> w.dims, of |-> w.of]
           /\ w.dims # << >> => /\ Inner(w) \in Terms /\ Len(Inner(w).dims) = Len(w.dims) - 1
                                /\ w.dims[1] \in Subranges
                                /\ w.dims = <<w.dims[1]>> \o Inner(w).dims
                                /\ \A k \in 1 .. Len(w.dims) - 1 : Inner(w).dims[k] = w.dims[k + 1]
<1>1. w.dims \in Seq(Subranges) /\ w.of \in Elements /\ w = [dims |-> w.dims, of |-> w.of]
    BY DEF Terms
<1>2. ASSUME w.dims # << >>
      PROVE  /\ Tail(w.dims) \in Seq(Subranges) /\ Len(Tail(w.dims)) = Len(w.dims) - 1
             /\ w.dims[1] \in Subranges /\ w.dims = <<w.dims[1]>> \o Tail(w.dims)
             /\ \A k \in 1 .. Len(w.dims) - 1 : Tail(w.dims)[k] = w.dims[k + 1]
    BY <1>1, <1>2
<1> QED
    BY <1>1, <1>2 DEF Inner, Terms

LEMMA ArrayTerm ==
    ASSUME NEW r \in Subranges, NEW w \in Terms
    PROVE  /\ Array(r, w).dims # << >> /\ Array(r, w).dims[1] = r /\ Inner(Array(r, w)) = w
           /\ Array(r, w).of = w.of
<1>1. w.dims \in Seq(Subranges) /\ w = [dims |-> w.dims, of |-> w.of]
    BY InnerTerm
<1>2. <<r>> \o w.dims # << >> /\ (<<r>> \o w.dims)[1] = r /\ Tail(<<r>> \o w.dims) = w.dims
    BY <1>1
<1> QED
    BY <1>1, <1>2 DEF Array, Inner

LEMMA MeansIs ==
    ASSUME TypesOK, NEW o \in Objects, NEW w \in Terms
    PROVE  Means(o, w) <=>
               IF w.dims = << >> THEN Says(o, w.of)
               ELSE IsArray(o) /\ Bounds(o) = w.dims[1] /\ Means(heap[o].child[1], Inner(w))
<1> DEFINE n == Len(w.dims)
<1>1. n \in Nat /\ (w.dims = << >> <=> n = 0)
    BY InnerTerm
<1>2. CASE w.dims = << >>
    <2>1. ASSUME Means(o, w) PROVE Says(o, w.of)
        BY <1>1, <1>2, <2>1 DEF Means, Path
    <2>2. ASSUME Says(o, w.of) PROVE Means(o, w)
        <3> DEFINE p == [k \in 1 .. n + 1 |-> o]
        <3>1. p \in Path(o, w) /\ p[n + 1] = o
            BY <1>1, <1>2 DEF Path
        <3> HIDE DEF p
        <3> QED
            BY <1>1, <1>2, <2>2, <3>1 DEF Means
    <2> QED
        BY <1>2, <2>1, <2>2
<1>3. CASE w.dims # << >>
    <2> DEFINE v == Inner(w)
    <2>1. /\ Len(v.dims) = n - 1 /\ v.of = w.of /\ n >= 1
          /\ \A k \in 1 .. n - 1 : v.dims[k] = w.dims[k + 1]
        BY <1>1, <1>3, InnerTerm DEF Inner
    <2> HIDE DEF v
    <2>2. ASSUME Means(o, w) PROVE IsArray(o) /\ Bounds(o) = w.dims[1] /\ Means(heap[o].child[1], v)
        <3>1. PICK p \in Path(o, w) :
                  /\ \A k \in 1 .. n : IsArray(p[k]) /\ Bounds(p[k]) = w.dims[k] /\ heap[p[k]].child[1] = p[k + 1]
                  /\ Says(p[n + 1], w.of)
            BY <2>2 DEF Means
        <3>2. p \in [1 .. n + 1 -> Objects] /\ p[1] = o
            BY DEF Path
        <3>3. IsArray(o) /\ Bounds(o) = w.dims[1] /\ heap[o].child[1] = p[2]
            BY <1>1, <2>1, <3>1, <3>2
        <3> DEFINE q == [k \in 1 .. Len(v.dims) + 1 |-> p[k + 1]]
        <3>4. q \in Path(heap[o].child[1], v) /\ \A k \in 1 .. Len(v.dims) + 1 : q[k] = p[k + 1]
            BY <1>1, <2>1, <3>2, <3>3 DEF Path
        <3> HIDE DEF q
        <3>5. \A k \in 1 .. Len(v.dims) :
                  IsArray(q[k]) /\ Bounds(q[k]) = v.dims[k] /\ heap[q[k]].child[1] = q[k + 1]
            BY <1>1, <2>1, <3>1, <3>4
        <3>6. Says(q[Len(v.dims) + 1], v.of)
            BY <1>1, <2>1, <3>1, <3>4
        <3> QED
            BY <3>3, <3>4, <3>5, <3>6 DEF Means
    <2>3. ASSUME IsArray(o), Bounds(o) = w.dims[1], Means(heap[o].child[1], v) PROVE Means(o, w)
        <3>1. PICK q \in Path(heap[o].child[1], v) :
                  /\ \A k \in 1 .. Len(v.dims) :
                         IsArray(q[k]) /\ Bounds(q[k]) = v.dims[k] /\ heap[q[k]].child[1] = q[k + 1]
                  /\ Says(q[Len(v.dims) + 1], v.of)
            BY <2>3 DEF Means
        <3>2. q \in [1 .. n -> Objects] /\ q[1] = heap[o].child[1]
            BY <1>1, <2>1 DEF Path
        <3> DEFINE p == [k \in 1 .. n + 1 |-> IF k = 1 THEN o ELSE q[k - 1]]
        <3>3. p \in Path(o, w) /\ p[1] = o /\ \A k \in 1 .. n : p[k + 1] = q[k]
            BY <1>1, <3>2 DEF Path
        <3> HIDE DEF p
        <3>4. ASSUME NEW k \in 1 .. n
              PROVE  IsArray(p[k]) /\ Bounds(p[k]) = w.dims[k] /\ heap[p[k]].child[1] = p[k + 1]
            <4>1. CASE k = 1
                BY <1>1, <2>1, <2>3, <3>2, <3>3, <4>1
            <4>2. CASE k # 1
                <5>1. k - 1 \in 1 .. n - 1 /\ (k - 1) + 1 = k /\ k - 1 \in 1 .. n
                    BY <1>1, <4>2
                <5>2. p[k] = q[k - 1] /\ p[k + 1] = q[k] /\ v.dims[k - 1] = w.dims[k]
                    BY <2>1, <3>3, <5>1
                <5> QED
                    BY <2>1, <3>1, <5>1, <5>2
            <4> QED
                BY <4>1, <4>2
        <3>5. Says(p[n + 1], w.of)
            BY <1>1, <2>1, <3>1, <3>3
        <3> QED
            BY <3>3, <3>4, <3>5 DEF Means
    <2> QED
        BY <1>3, <2>2, <2>3 DEF v
<1> QED
    BY <1>2, <1>3

(* What a step may do to objects: add element types to arrays. *)
Kept ==
    \A o \in Objects :
        /\ o \in Objects' /\ Bounds(o)' = Bounds(o) /\ heap'[o].base = heap[o].base
        /\ IsArray(o) => IsArray(o)' /\ heap'[o].child[1] = heap[o].child[1]

LEMMA MeansKept ==
    ASSUME TypesOK, Kept, NEW o \in Objects, NEW w \in Terms, Means(o, w)
    PROVE  Means(o, w)'
<1> DEFINE n == Len(w.dims)
<1>1. PICK p \in Path(o, w) :
          /\ \A k \in 1 .. n : IsArray(p[k]) /\ Bounds(p[k]) = w.dims[k] /\ heap[p[k]].child[1] = p[k + 1]
          /\ Says(p[n + 1], w.of)
    BY DEF Means
<1>2. n \in Nat
    BY InnerTerm
<1>3. p \in [1 .. n + 1 -> Objects] /\ p[1] = o
    BY DEF Path
<1>4. \A k \in 1 .. n + 1 : p[k] \in Objects
    BY <1>3
<1>5. p \in Path(o, w)'
    <2>1. \A k \in 1 .. n + 1 : p[k] \in Objects'
        BY <1>4 DEF Kept
    <2> QED
        BY <1>3, <2>1 DEF Path
<1>6. \A k \in 1 .. n : IsArray(p[k])' /\ Bounds(p[k])' = w.dims[k] /\ heap'[p[k]].child[1] = p[k + 1]
    BY <1>1, <1>2, <1>4 DEF Kept
<1>7. p[n + 1] \in Objects
    BY <1>2, <1>4
<1>8. Says(p[n + 1], w.of)'
    BY <1>1, <1>7 DEF Kept, Says
<1> QED
    BY <1>5, <1>6, <1>8 DEF Means

(* What holds of elements, and of arrays when it holds of their elements,  *)
(* holds of everything that means a term.                                  *)
LEMMA ByDimensions ==
    ASSUME TypesOK, NEW T,
           \A o \in Sound, w \in Terms :
               Means(o, w) /\ (w.dims # << >> => <<heap[o].child[1], Inner(w)>> \in T) => <<o, w>> \in T
    PROVE  \A o \in Sound, w \in Terms : Means(o, w) => <<o, w>> \in T
<1> DEFINE Bad == {n \in Nat : \E o \in Sound, w \in Terms : Len(w.dims) = n /\ Means(o, w) /\ <<o, w>> \notin T}
<1> SUFFICES Bad = {}
    BY InnerTerm
<1> SUFFICES ASSUME Bad # {} PROVE FALSE
    OBVIOUS
<1>1. PICK n \in Bad : \A m \in Bad : n <= m
    <2>1. Bad \subseteq Nat
        OBVIOUS
    <2> HIDE DEF Bad
    <2> QED
        BY <2>1, LeastNumber
<1>2. PICK o \in Sound, w \in Terms : Len(w.dims) = n /\ Means(o, w) /\ <<o, w>> \notin T
    BY <1>1
<1>3. w.dims # << >> /\ <<heap[o].child[1], Inner(w)>> \notin T
    BY <1>2
<1>4. o \in Objects
    BY DEF Sound
<1>5. IsArray(o) /\ Means(heap[o].child[1], Inner(w))
    BY <1>2, <1>3, <1>4, MeansIs
<1>6. heap[o].child[1] \in Sound /\ Inner(w) \in Terms /\ Len(Inner(w).dims) = n - 1
    BY <1>2, <1>3, <1>5, FirstPart, InnerTerm
<1>7. n \in Nat /\ n - 1 \in Nat
    BY <1>2, <1>6, InnerTerm
<1>8. n - 1 \in Bad
    BY <1>3, <1>5, <1>6, <1>7
<1> HIDE DEF Bad
<1> QED
    BY <1>1, <1>7, <1>8

(* The same for terms that readers see, with the least rank. *)
Pairs == Nat \X Nat

LEMMA TermType ==
    ASSUME TypesOK, NEW t \in Sound
    PROVE  \E d \in Seq(Pairs) : Term(t).dims = d /\ Term(t) = [dims |-> d, of |-> Term(t).of]
<1> DEFINE Typed(o) == \E d \in Seq(Pairs) : Term(o).dims = d /\ Term(o) = [dims |-> d, of |-> Term(o).of]
           Bad == {n \in Nat : \E o \in Sound : Rank(o) = n /\ ~Typed(o)}
<1>1. Bad = {}
    <2> SUFFICES ASSUME Bad # {} PROVE FALSE
        OBVIOUS
    <2>1. PICK n \in Bad : \A m \in Bad : n <= m
        <3>1. Bad \subseteq Nat
            OBVIOUS
        <3> HIDE DEF Bad
        <3> QED
            BY <3>1, LeastNumber
    <2>2. PICK o \in Sound : Rank(o) = n /\ ~Typed(o)
        BY <2>1
    <2>3. CASE ~IsArray(o)
        <3>1. Term(o) = Element(o)
            BY <2>3, TermIs
        <3>2. Element(o).dims = << >> /\ Element(o) = [dims |-> << >>, of |-> Element(o).of]
            BY DEF Element, Subrange, Record, Scalar, Type
        <3>3. << >> \in Seq(Pairs)
            OBVIOUS
        <3> QED
            BY <2>2, <3>1, <3>2, <3>3
    <2>4. CASE IsArray(o)
        <3> DEFINE c == heap[o].child[1]
        <3>1. c \in Sound /\ Rank(c) \in Nat /\ Rank(c) < n
            BY <2>2, <2>4, FirstPart
        <3>2. Term(o) = Array(Bounds(o), Term(c))
            BY <2>4, TermIs
        <3>3. Rank(c) \in Nat /\ n \in Nat /\ Rank(c) \notin Bad
            <4> HIDE DEF Bad
            <4>1. n \in Nat
                BY <2>1 DEF Bad
            <4> QED
                BY <2>1, <3>1, <4>1
        <3>4. Typed(c)
            BY <3>1, <3>3
        <3> HIDE DEF c
        <3>5. PICK d \in Seq(Pairs) : Term(c).dims = d
            BY <3>4
        <3>6. Bounds(o) \in Pairs
            BY HeapType DEF Bounds, Sound, Pairs
        <3>7. <<Bounds(o)>> \o d \in Seq(Pairs)
            BY <3>6
        <3> DEFINE s == <<Bounds(o)>> \o d
        <3>8. s \in Seq(Pairs) /\ Term(o) = [dims |-> s, of |-> Term(c).of]
            BY <3>2, <3>5, <3>7 DEF Array
        <3>9. Typed(o)
            <4> HIDE DEF s
            <4>1. Term(o).dims = s /\ Term(o).of = Term(c).of
                BY <3>8
            <4> QED
                BY <3>8, <4>1
        <3> HIDE DEF Typed
        <3> QED
            BY <2>2, <3>9
    <2> QED
        BY <2>3, <2>4
<1>2. Rank(t) \in Nat
    BY RankDecreases
<1>3. Typed(t)
    BY <1>1, <1>2
<1> QED
    BY <1>3

(* A term says whether the object is an array, and of what. *)
LEMMA TermArray ==
    ASSUME TypesOK, NEW o \in Sound, NEW c \in Sound, Term(o) = Term(c), IsArray(o)
    PROVE  IsArray(c) /\ Bounds(c) = Bounds(o) /\ Term(heap[c].child[1]) = Term(heap[o].child[1])
<1>1. heap[o].child[1] \in Sound
    BY FirstPart
<1>2. PICK d \in Seq(Pairs) : /\ Term(heap[o].child[1]).dims = d
                                   /\ Term(heap[o].child[1]) = [dims |-> d, of |-> Term(heap[o].child[1]).of]
    BY <1>1, TermType
<1>3. Term(o) = [dims |-> <<Bounds(o)>> \o d, of |-> Term(heap[o].child[1]).of]
    BY <1>2, TermIs DEF Array
<1>4. Bounds(o) \in Pairs /\ Bounds(c) \in Pairs
    BY HeapType DEF Bounds, Sound, Pairs
<1>5. Term(c).dims # << >>
    BY <1>2, <1>3, <1>4
<1>6. IsArray(c)
    <2>1. Element(c).dims = << >>
        BY DEF Element, Subrange, Record, Scalar, Type
    <2> QED
        BY <1>5, <2>1, TermIs
<1>7. heap[c].child[1] \in Sound
    BY <1>6, FirstPart
<1>8. PICK f \in Seq(Pairs) : /\ Term(heap[c].child[1]).dims = f
                                   /\ Term(heap[c].child[1]) = [dims |-> f, of |-> Term(heap[c].child[1]).of]
    BY <1>7, TermType
<1>9. Term(c) = [dims |-> <<Bounds(c)>> \o f, of |-> Term(heap[c].child[1]).of]
    BY <1>6, <1>8, TermIs DEF Array
<1>10. <<Bounds(o)>> \o d = <<Bounds(c)>> \o f /\ Term(heap[c].child[1]).of = Term(heap[o].child[1]).of
    <2> DEFINE a == <<Bounds(o)>> \o d
               b == <<Bounds(c)>> \o f
               x == Term(heap[o].child[1]).of
               y == Term(heap[c].child[1]).of
    <2>1. [dims |-> a, of |-> x] = [dims |-> b, of |-> y]
        BY <1>3, <1>9
    <2> HIDE DEF a, b, x, y
    <2>2. a = b /\ x = y
        BY <2>1
    <2> QED
        BY <2>2 DEF a, b, x, y
<1>11. Bounds(o) = Bounds(c) /\ d = f
    <2> DEFINE x == Bounds(o)
               y == Bounds(c)
    <2>1. x \in Pairs /\ y \in Pairs /\ <<x>> \o d = <<y>> \o f
        BY <1>4, <1>10
    <2> HIDE DEF x, y
    <2>2. Tail(<<x>> \o d) = d /\ (<<x>> \o d)[1] = x
        BY <2>1
    <2>3. Tail(<<y>> \o f) = f /\ (<<y>> \o f)[1] = y
        BY <2>1
    <2>4. x = y /\ d = f
        BY <2>1, <2>2, <2>3
    <2> QED
        BY <2>4 DEF x, y
<1> QED
    BY <1>2, <1>6, <1>8, <1>10, <1>11

(* An object that reads like one that means what was declared means it. *)
LEMMA MeansByTerm ==
    ASSUME TypesOK, NEW e \in Sound, NEW c \in Sound, NEW w \in Terms, Means(e, w), Term(c) = Term(e)
    PROVE  Means(c, w)
<1> DEFINE T == {x \in Sound \X Terms : \A a \in Sound : Term(a) = Term(x[1]) => Means(a, x[2])}
<1>1. ASSUME NEW o \in Sound, NEW v \in Terms, Means(o, v),
             v.dims # << >> => <<heap[o].child[1], Inner(v)>> \in T
      PROVE  <<o, v>> \in T
    <2> SUFFICES ASSUME NEW a \in Sound, Term(a) = Term(o) PROVE Means(a, v)
        OBVIOUS
    <2>1. o \in Objects /\ a \in Objects
        BY DEF Sound
    <2>2. CASE v.dims # << >>
        <3>1. IsArray(o) /\ Bounds(o) = v.dims[1] /\ Means(heap[o].child[1], Inner(v))
            BY <1>1, <2>1, <2>2, MeansIs
        <3>2. IsArray(a) /\ Bounds(a) = Bounds(o) /\ Term(heap[a].child[1]) = Term(heap[o].child[1])
            BY <3>1, TermArray
        <3>3. heap[a].child[1] \in Sound
            BY <3>2, FirstPart
        <3>4. Means(heap[a].child[1], Inner(v))
            BY <1>1, <2>2, <3>2, <3>3
        <3> QED
            BY <2>1, <2>2, <3>1, <3>2, <3>4, MeansIs
    <2>3. CASE v.dims = << >>
        <3>1. Says(o, v.of)
            BY <1>1, <2>1, <2>3, MeansIs
        <3>2. Says(a, v.of)
            <4>1. CASE IsArray(o)
                <5>1. IsArray(a) /\ Bounds(a) = Bounds(o)
                    BY <4>1, TermArray
                <5> QED
                    BY <3>1, <4>1, <5>1 DEF Says, IsArray
            <4>2. CASE ~IsArray(o)
                <5>1. ~IsArray(a)
                    BY <4>2, TermArray
                <5>2. Element(o) = Element(a)
                    BY <4>2, <5>1, TermIs
                <5>3. Element(o).of = Element(a).of
                    BY <5>2
                <5>4. v.of \in Elements
                    BY InnerTerm
                <5>5. CASE v.of.kind = "scalar"
                    <6>1. heap[o].base = v.of.base /\ v.of.base \in Base
                        BY <3>1, <5>4, <5>5 DEF Says, Elements, Scalar, Subrange, Record, Nonsense, Type
                    <6>2. Element(o).of = [kind |-> "scalar", base |-> v.of.base]
                        BY <6>1, BaseAssumption DEF Element, Scalar, Type
                    <6>3. heap[a].base = v.of.base
                        BY <5>3, <6>2 DEF Element, Scalar, Subrange, Record, Type
                    <6> QED
                        BY <5>5, <6>3 DEF Says
                <5>6. CASE v.of.kind = "range"
                    <6>1. heap[o].base = "array" /\ Bounds(o) = v.of.range
                        BY <3>1, <5>6 DEF Says
                    <6>2. Element(o).of = [kind |-> "range", range |-> v.of.range]
                        BY <6>1 DEF Element, Subrange, Type
                    <6>3. heap[a].base = "array" /\ Bounds(a) = v.of.range
                        BY <5>3, <6>2 DEF Element, Scalar, Subrange, Record, Type
                    <6> QED
                        BY <5>6, <6>3 DEF Says
                <5> QED
                    BY <5>5, <5>6 DEF Says
            <4> QED
                BY <4>1, <4>2
        <3> QED
            BY <2>1, <2>3, <3>2, MeansIs
    <2> QED
        BY <2>2, <2>3
<1> HIDE DEF T
<1>2. <<e, w>> \in T
    BY <1>1, ByDimensions
<1> QED
    BY <1>2 DEF T
--------------------------------------------------------------------------------
(* What the readers make of an object that means a complete term *)

LEMMA CompleteTerm ==
    ASSUME NEW w \in Terms, Complete(w)
    PROVE  /\ w.of.base \in Base /\ w.of = [kind |-> "scalar", base |-> w.of.base]
           /\ w.dims # << >> => Complete(Inner(w))
<1>1. w.of \in Elements
    BY InnerTerm
<1>2. w.of.base \in Base /\ w.of = [kind |-> "scalar", base |-> w.of.base]
    BY <1>1 DEF Complete, Elements, Scalar, Subrange, Record, Nonsense, Type
<1> QED
    BY <1>2 DEF Complete, Inner

(* An object is an array exactly if its complete term has a dimension. *)
LEMMA MeansShape ==
    ASSUME TypesOK, NEW o \in Objects, NEW w \in Terms, Means(o, w), Complete(w)
    PROVE  /\ IsArray(o) <=> w.dims # << >>
           /\ w.dims = << >> => heap[o].base = w.of.base
           /\ w.dims # << >> => Bounds(o) = w.dims[1] /\ Means(heap[o].child[1], Inner(w))
<1>1. w.of.base \in Base /\ w.of.kind = "scalar"
    BY CompleteTerm DEF Complete
<1>2. w.dims = << >> => heap[o].base = w.of.base
    BY <1>1, MeansIs DEF Says
<1>3. w.dims # << >> => IsArray(o) /\ Bounds(o) = w.dims[1] /\ Means(heap[o].child[1], Inner(w))
    BY MeansIs
<1>4. w.dims = << >> => ~IsArray(o)
    BY <1>1, <1>2, BaseAssumption DEF IsArray
<1> QED
    BY <1>2, <1>3, <1>4

LEMMA MeansTerm ==
    ASSUME TypesOK, NEW t \in Sound, NEW want \in Terms, Means(t, want), Complete(want)
    PROVE  Term(t) = want
<1> DEFINE T == {x \in Sound \X Terms : Complete(x[2]) => Term(x[1]) = x[2]}
<1>1. ASSUME NEW o \in Sound, NEW w \in Terms, Means(o, w),
             w.dims # << >> => <<heap[o].child[1], Inner(w)>> \in T
      PROVE  <<o, w>> \in T
    <2> SUFFICES ASSUME Complete(w) PROVE Term(o) = w
        OBVIOUS
    <2>1. o \in Objects
        BY DEF Sound
    <2>2. w = [dims |-> w.dims, of |-> w.of] /\ w.of.base \in Base /\ w.of = [kind |-> "scalar", base |-> w.of.base]
        BY InnerTerm, CompleteTerm
    <2>3. CASE w.dims = << >>
        <3>1. ~IsArray(o) /\ heap[o].base = w.of.base
            BY <1>1, <2>1, <2>3, MeansShape
        <3>2. Element(o) = Scalar(w.of.base)
            BY <2>2, <3>1, BaseAssumption DEF Element
        <3>3. Scalar(w.of.base) = w
            BY <2>2, <2>3 DEF Scalar, Type
        <3> QED
            BY <3>1, <3>2, <3>3, TermIs
    <2>4. CASE w.dims # << >>
        <3>1. IsArray(o) /\ Bounds(o) = w.dims[1]
            BY <1>1, <2>1, <2>4, MeansShape
        <3>2. Term(heap[o].child[1]) = Inner(w)
            BY <1>1, <2>4, CompleteTerm
        <3>3. w.dims = <<w.dims[1]>> \o Inner(w).dims /\ Inner(w).of = w.of
            BY <2>4, InnerTerm DEF Inner
        <3>4. Term(o) = Array(w.dims[1], Inner(w))
            BY <3>1, <3>2, TermIs
        <3> QED
            BY <2>2, <3>3, <3>4 DEF Array
    <2> QED
        BY <2>3, <2>4
<1> HIDE DEF T
<1>2. <<t, want>> \in T
    BY <1>1, ByDimensions
<1> QED
    BY <1>2 DEF T

(* The type in LLVM of what a term declares. *)
Asked(w) ==
    [dims |-> [k \in DOMAIN w.dims |-> Count(w.dims[k][1], w.dims[k][2])],
     of   |-> IF w.of.base = "string" THEN Undefined ELSE w.of.base]

LEMMA MeansLLVM ==
    ASSUME TypesOK, NEW t \in Sound, NEW want \in Terms, Means(t, want), Complete(want)
    PROVE  LLVMTYPERET(t) = Asked(want)
<1> DEFINE T == {x \in Sound \X Terms : Complete(x[2]) => LLVMTYPERET(x[1]) = Asked(x[2])}
<1>1. ASSUME NEW o \in Sound, NEW w \in Terms, Means(o, w),
             w.dims # << >> => <<heap[o].child[1], Inner(w)>> \in T
      PROVE  <<o, w>> \in T
    <2> SUFFICES ASSUME Complete(w) PROVE LLVMTYPERET(o) = Asked(w)
        OBVIOUS
    <2>1. o \in Objects
        BY DEF Sound
    <2>2. w.of.base \in Base
        BY CompleteTerm
    <2>3. CASE w.dims = << >>
        <3>1. ~IsArray(o) /\ heap[o].base = w.of.base
            BY <1>1, <2>1, <2>3, MeansShape
        <3>2. w.of.base \in {"int", "real", "char", "bool"} <=> w.of.base # "string"
            BY <2>2, BaseAssumption
        <3>3. LLVMTYPERET(o) = LLVMType(IF w.of.base = "string" THEN Undefined ELSE w.of.base)
            BY <3>1, <3>2, LLVMIs
        <3>4. [k \in DOMAIN w.dims |-> Count(w.dims[k][1], w.dims[k][2])] = << >>
            BY <2>3
        <3> QED
            BY <3>3, <3>4 DEF LLVMType, Asked
    <2>4. CASE w.dims # << >>
        <3>1. IsArray(o) /\ Bounds(o) = w.dims[1]
            BY <1>1, <2>1, <2>4, MeansShape
        <3>2. LLVMTYPERET(heap[o].child[1]) = Asked(Inner(w))
            BY <1>1, <2>4, CompleteTerm
        <3>3. LLVMTYPERET(o) = LLVMArray(Count(w.dims[1][1], w.dims[1][2]), Asked(Inner(w)))
            BY <3>1, <3>2, LLVMIs DEF Bounds
        <3> DEFINE s(d) == [k \in DOMAIN d |-> Count(d[k][1], d[k][2])]
        <3>4. s(w.dims) = <<Count(w.dims[1][1], w.dims[1][2])>> \o s(Inner(w).dims)
            <4> DEFINE d == w.dims
                       e == Inner(w).dims
                       C == {Count(r[1], r[2]) : r \in Subranges}
            <4>1. /\ d \in Seq(Subranges) /\ e \in Seq(Subranges) /\ Len(d) = Len(e) + 1
                  /\ \A k \in 1 .. Len(e) : e[k] = d[k + 1]
                <5>1. Inner(w) \in Terms /\ Len(e) = Len(d) - 1 /\ Len(d) \in Nat
                      /\ \A k \in 1 .. Len(d) - 1 : e[k] = d[k + 1]
                    BY <2>4, InnerTerm
                <5>2. d \in Seq(Subranges) /\ e \in Seq(Subranges)
                    BY <5>1, InnerTerm
                <5> HIDE DEF d, e
                <5> QED
                    BY <5>1, <5>2
            <4> HIDE DEF d, e
            <4>2. s(e) \in Seq(C) /\ Len(s(e)) = Len(e) /\ s(d) \in Seq(C) /\ Len(s(d)) = Len(d)
                BY <4>1
            <4>3. /\ \A k \in 1 .. Len(e) : s(e)[k] = s(d)[k + 1]
                  /\ s(d)[1] = Count(d[1][1], d[1][2])
                BY <4>1
            <4> HIDE DEF s, C
            <4>4. s(d) = <<s(d)[1]>> \o s(e)
                <5>1. PICK a : a = s(d)
                    OBVIOUS
                <5>2. PICK b : b = s(e)
                    OBVIOUS
                <5>3. /\ a \in Seq(C) /\ b \in Seq(C) /\ Len(a) = Len(b) + 1
                      /\ \A k \in 1 .. Len(b) : b[k] = a[k + 1]
                    BY <4>1, <4>2, <4>3, <5>1, <5>2
                <5>4. a = <<a[1]>> \o b
                    BY <5>3
                <5> QED
                    BY <5>1, <5>2, <5>4
            <4> QED
                BY <4>3, <4>4 DEF d, e
        <3>5. Asked(w).dims = s(w.dims) /\ Asked(Inner(w)).dims = s(Inner(w).dims)
            BY DEF Asked
        <3>6. Asked(Inner(w)).of = Asked(w).of /\ Asked(w) = [dims |-> Asked(w).dims, of |-> Asked(w).of]
            BY DEF Asked, Inner
        <3> HIDE DEF s
        <3> QED
            BY <3>3, <3>4, <3>5, <3>6 DEF LLVMArray
    <2> QED
        BY <2>3, <2>4
<1> HIDE DEF T
<1>2. <<t, want>> \in T
    BY <1>1, ByDimensions
<1> QED
    BY <1>2 DEF T

(* Types that isSameType takes for the same: it compares the ends. *)
SameEnds(v, w) ==
    /\ v.of.base = w.of.base /\ v.of.base # "string"
    /\ Len(v.dims) = Len(w.dims) /\ \A k \in 1 .. Len(v.dims) : v.dims[k][2] = w.dims[k][2]

LEMMA SameEndsInner ==
    ASSUME NEW v \in Terms, NEW w \in Terms, v.dims # << >>, w.dims # << >>
    PROVE  SameEnds(v, w) <=> v.dims[1][2] = w.dims[1][2] /\ SameEnds(Inner(v), Inner(w))
<1> DEFINE m == Len(v.dims)
           n == Len(w.dims)
<1>1. /\ m \in Nat /\ m # 0 /\ n \in Nat /\ n # 0
      /\ Len(Inner(v).dims) = m - 1 /\ Len(Inner(w).dims) = n - 1
      /\ \A k \in 1 .. m - 1 : Inner(v).dims[k] = v.dims[k + 1]
      /\ \A k \in 1 .. n - 1 : Inner(w).dims[k] = w.dims[k + 1]
      /\ Inner(v).of = v.of /\ Inner(w).of = w.of
    BY InnerTerm DEF Inner
<1> HIDE DEF m, n
<1>2. ASSUME SameEnds(v, w) PROVE v.dims[1][2] = w.dims[1][2] /\ SameEnds(Inner(v), Inner(w))
    <2>1. m = n /\ \A k \in 1 .. m : v.dims[k][2] = w.dims[k][2]
        BY <1>2 DEF SameEnds, m, n
    <2>2. ASSUME NEW k \in 1 .. m - 1 PROVE Inner(v).dims[k][2] = Inner(w).dims[k][2]
        <3>1. k + 1 \in 1 .. m /\ k \in 1 .. n - 1
            BY <1>1, <2>1
        <3>2. v.dims[k + 1][2] = w.dims[k + 1][2]
            BY <2>1, <3>1
        <3> QED
            BY <1>1, <3>1, <3>2
    <2> QED
        BY <1>1, <1>2, <2>1, <2>2 DEF SameEnds
<1>3. ASSUME v.dims[1][2] = w.dims[1][2], SameEnds(Inner(v), Inner(w)) PROVE SameEnds(v, w)
    <2>1. m - 1 = n - 1 /\ \A k \in 1 .. m - 1 : Inner(v).dims[k][2] = Inner(w).dims[k][2]
        BY <1>1, <1>3 DEF SameEnds
    <2>2. ASSUME NEW k \in 1 .. m PROVE v.dims[k][2] = w.dims[k][2]
        <3>1. CASE k = 1
            BY <1>3, <3>1
        <3>2. CASE k # 1
            <4>1. k - 1 \in 1 .. m - 1 /\ (k - 1) + 1 = k /\ m = n
                BY <1>1, <2>1, <3>2
            <4>2. Inner(v).dims[k - 1] = v.dims[k] /\ Inner(w).dims[k - 1] = w.dims[k]
                BY <1>1, <4>1
            <4> QED
                BY <2>1, <4>1, <4>2
        <3> QED
            BY <3>1, <3>2
    <2> QED
        BY <1>1, <1>3, <2>1, <2>2 DEF SameEnds, m, n
<1> QED
    BY <1>2, <1>3

LEMMA MeansSame ==
    ASSUME TypesOK, NEW t \in Sound, NEW u \in Sound, NEW v0 \in Terms, NEW w0 \in Terms,
           Means(t, v0), Means(u, w0), Complete(v0), Complete(w0)
    PROVE  isSameType(t, u) <=> SameEnds(v0, w0)
<1> DEFINE T == {x \in Sound \X Terms :
                    \A p \in Sound, w \in Terms :
                        Complete(x[2]) /\ Means(p, w) /\ Complete(w) =>
                            (isSameType(x[1], p) <=> SameEnds(x[2], w))}
<1>1. ASSUME NEW o \in Sound, NEW v \in Terms, Means(o, v),
             v.dims # << >> => <<heap[o].child[1], Inner(v)>> \in T
      PROVE  <<o, v>> \in T
    <2> SUFFICES ASSUME NEW p \in Sound, NEW w \in Terms, Complete(v), Means(p, w), Complete(w)
                 PROVE  isSameType(o, p) <=> SameEnds(v, w)
        OBVIOUS
    <2>1. o \in Objects /\ p \in Objects
        BY DEF Sound
    <2>2. /\ IsArray(o) <=> v.dims # << >>
          /\ v.dims = << >> => heap[o].base = v.of.base
          /\ v.dims # << >> => Bounds(o) = v.dims[1] /\ Means(heap[o].child[1], Inner(v))
        BY <1>1, <2>1, MeansShape
    <2>3. /\ IsArray(p) <=> w.dims # << >>
          /\ w.dims = << >> => heap[p].base = w.of.base
          /\ w.dims # << >> => Bounds(p) = w.dims[1] /\ Means(heap[p].child[1], Inner(w))
        BY <2>1, MeansShape
    <2>4. v.of.base \in Base /\ w.of.base \in Base
        BY CompleteTerm
    <2>5. Len(v.dims) \in Nat /\ Len(w.dims) \in Nat /\ (v.dims = << >> <=> Len(v.dims) = 0)
          /\ (w.dims = << >> <=> Len(w.dims) = 0)
        BY InnerTerm
    <2>6. CASE v.dims = << >> /\ w.dims = << >>
        <3>1. heap[o].base = v.of.base /\ heap[p].base = w.of.base /\ heap[o].base # "array"
            BY <2>2, <2>3, <2>4, <2>6, BaseAssumption
        <3>2. isSameType(o, p) <=> v.of.base = w.of.base /\ v.of.base # "string"
            BY <2>4, <3>1, BaseAssumption, SameIs
        <3>3. Len(v.dims) = Len(w.dims) /\ 1 .. Len(v.dims) = {}
            BY <2>5, <2>6
        <3> QED
            BY <3>2, <3>3 DEF SameEnds
    <2>7. CASE (v.dims = << >>) # (w.dims = << >>)
        <3>1. heap[o].base # heap[p].base
            BY <2>2, <2>3, <2>4, <2>7, BaseAssumption DEF IsArray
        <3>2. ~isSameType(o, p)
            BY <3>1, SameIs
        <3>3. ~SameEnds(v, w)
            BY <2>5, <2>7 DEF SameEnds
        <3> QED
            BY <3>2, <3>3
    <2>8. CASE v.dims # << >> /\ w.dims # << >>
        <3>1. IsArray(o) /\ IsArray(p) /\ heap[o].hi = v.dims[1][2] /\ heap[p].hi = w.dims[1][2]
            BY <2>2, <2>3, <2>8 DEF Bounds
        <3>2. heap[o].hi \in Nat /\ heap[p].hi \in Nat /\ heap[p].lo \in Nat
            BY <2>1, HeapType
        <3>3. isSameType(o, p) <=> /\ heap[o].hi = heap[p].hi
                                   /\ isSameType(heap[o].child[1], heap[p].child[1])
            BY <3>1, <3>2, SameIs DEF IsArray
        <3>4. heap[p].child[1] \in Sound /\ Inner(w) \in Terms /\ Complete(Inner(w)) /\ Complete(Inner(v))
            BY <2>8, <3>1, FirstPart, InnerTerm, CompleteTerm
        <3>5. isSameType(heap[o].child[1], heap[p].child[1]) <=> SameEnds(Inner(v), Inner(w))
            BY <1>1, <2>3, <2>8, <3>4
        <3> QED
            BY <2>8, <3>1, <3>3, <3>5, SameEndsInner
    <2> QED
        BY <2>6, <2>7, <2>8
<1> HIDE DEF T
<1>2. <<t, v0>> \in T
    BY <1>1, ByDimensions
<1> QED
    BY <1>2 DEF T
--------------------------------------------------------------------------------
(* Objects stay acyclic while the declarations are careful *)

LEMMA AllSound ==
    ASSUME \A x \in Objects : \A c \in Parts(x) : x \notin Reach(c)
    PROVE  Sound = Objects
<1>1. \A o \in Objects : Reach(o) \subseteq Objects
    BY DEF Reach
<1> QED
    BY <1>1 DEF Sound, Acyclic

LEMMA AllSoundNext ==
    (\A x \in Objects : \A c \in Parts(x) : x \notin Reach(c))' => Sound' = Objects'
<1>1. (\A x \in Objects : \A c \in Parts(x) : x \notin Reach(c)) => Sound = Objects
    BY AllSound
<1>2. ((\A x \in Objects : \A c \in Parts(x) : x \notin Reach(c)) => Sound = Objects)'
    BY <1>1, PTL
<1> QED
    BY <1>2

LEMMA SoundIs ==
    ASSUME TypesOK, Sound = Objects
    PROVE  \A x \in Objects : \A c \in Parts(x) : c \in Objects /\ x \notin Reach(c)
BY SoundParts

(* A set that is closed under following parts holds what they lead to. *)
LEMMA ReachNext ==
    ASSUME NEW t, NEW S, S \subseteq Objects', t \in S, \A x \in S : Parts(x)' \subseteq S
    PROVE  Reach(t)' \subseteq S
BY DEF Reach, Follows

LEMMA ReachKept ==
    ASSUME TypesOK, \A x \in Objects : x \in Objects' /\ Parts(x)' = Parts(x), NEW t \in Objects
    PROVE  Reach(t)' \subseteq Reach(t)
<1>1. Reach(t) \subseteq Objects /\ t \in Reach(t) /\ Follows(Reach(t))
    BY ReachIs
<1>2. Reach(t) \subseteq Objects' /\ \A x \in Reach(t) : Parts(x)' \subseteq Reach(t)
    BY <1>1 DEF Follows
<1> QED
    BY <1>1, <1>2, ReachNext

(* One new object without parts. *)
LEMMA SoundLeaf ==
    ASSUME TypesOK, Sound = Objects, NEW n, Objects' = Objects \cup {n}, Parts(n)' = {},
           \A x \in Objects : heap'[x] = heap[x]
    PROVE  Sound' = Objects'
<1>1. \A x \in Objects : x \in Objects' /\ Parts(x)' = Parts(x)
    BY DEF Parts
<1>2. ASSUME NEW x \in Objects', NEW c \in Parts(x)' PROVE x \notin Reach(c)'
    <2>1. x \in Objects /\ c \in Parts(x)
        BY <1>1, <1>2
    <2>2. c \in Objects /\ x \notin Reach(c)
        BY <2>1, SoundIs
    <2> QED
        BY <1>1, <2>2, ReachKept
<1> QED
    BY <1>2, AllSoundNext

(* A field, and a record of it. *)
LEMMA SoundRecord ==
    ASSUME TypesOK, Sound = Objects, RecordType
    PROVE  Sound' = Objects'
<1>a. PICK n : n = Len(heap)
    OBVIOUS
<1>b. PICK t : t = Last(build).type
    OBVIOUS
<1>1. /\ n \in Nat /\ t \in Objects /\ Objects' = Objects \cup {n + 1, n + 2}
      /\ \A o \in Objects : heap'[o] = heap[o]
      /\ heap'[n + 1] = Object("unset", 0, 0, <<t>>)
      /\ heap'[n + 2] = Object("record", 0, 0, <<n + 1>>)
    BY <1>a, <1>b, RecordHeap
<1>2. n + 1 \notin Objects /\ n + 2 \notin Objects
    BY <1>a, <1>1 DEF Objects
<1>3. \A x \in Objects : x \in Objects' /\ Parts(x)' = Parts(x)
    BY <1>1 DEF Parts
<1>4. Parts(n + 1)' = {t}
    <2>1. heap'[n + 1].base = "unset" /\ heap'[n + 1].child = <<t>>
        BY <1>1 DEF Object
    <2>2. {<<t>>[i] : i \in DOMAIN <<t>>} = {t}
        OBVIOUS
    <2> QED
        BY <2>1, <2>2, BaseAssumption DEF Parts
<1>5. Parts(n + 2)' = {n + 1}
    <2>1. heap'[n + 2].base = "record" /\ heap'[n + 2].child = <<n + 1>>
        BY <1>1 DEF Object
    <2>2. {<<n + 1>>[i] : i \in DOMAIN <<n + 1>>} = {n + 1}
        OBVIOUS
    <2> QED
        BY <2>1, <2>2, BaseAssumption DEF Parts
<1>6. Reach(t)' \subseteq Reach(t) /\ Reach(t) \subseteq Objects /\ t \in Reach(t) /\ Follows(Reach(t))
    BY <1>1, <1>3, ReachKept, ReachIs
<1>7. Reach(n + 1)' \subseteq {n + 1} \cup Reach(t)
    <2> DEFINE S == {n + 1} \cup Reach(t)
    <2>1. S \subseteq Objects' /\ n + 1 \in S
        BY <1>1, <1>6
    <2>2. \A x \in S : Parts(x)' \subseteq S
        BY <1>3, <1>4, <1>6 DEF Follows
    <2> HIDE DEF S
    <2>3. Reach(n + 1)' \subseteq S
        BY <2>1, <2>2, ReachNext
    <2> QED
        BY <2>3 DEF S
<1>8. ASSUME NEW x \in Objects', NEW c \in Parts(x)' PROVE x \notin Reach(c)'
    <2>1. CASE x = n + 1
        BY <1>2, <1>4, <1>6, <1>8, <2>1
    <2>2. CASE x = n + 2
        <3>1. c = n + 1 /\ n + 2 # n + 1
            BY <1>1, <1>5, <1>8, <2>2
        <3> QED
            BY <1>2, <1>6, <1>7, <2>2, <3>1
    <2>3. CASE x \in Objects
        <3>1. c \in Objects /\ x \notin Reach(c)
            BY <1>3, <1>8, <2>3, SoundIs
        <3> QED
            BY <1>3, <3>1, ReachKept
    <2> QED
        BY <1>1, <2>1, <2>2, <2>3
<1> QED
    BY <1>8, AllSoundNext

(* An element type that leads back to the index is not careful. *)
LEMMA SoundArray ==
    ASSUME TypesOK, Sound = Objects, ArrayType, careful'
    PROVE  Sound' = Objects'
<1>a. PICK ix : ix = build[Len(build) - 1].type
    OBVIOUS
<1>b. PICK el : el = Last(build).type
    OBVIOUS
<1>1. ix \notin Reach(el)
    BY <1>a, <1>b DEF ArrayType
<1>2. /\ ix \in Objects /\ el \in Objects /\ Objects' = Objects
      /\ \A o \in Objects \ {ix} : heap'[o] = heap[o]
      /\ heap'[ix].base = heap[ix].base /\ heap'[ix].child = Append(heap[ix].child, el)
    BY <1>a, <1>b, ArrayHeap
<1>3. \A x \in Objects \ {ix} : Parts(x)' = Parts(x)
    BY <1>2 DEF Parts
<1>4. Parts(ix)' \subseteq Parts(ix) \cup {el}
    <2> DEFINE s == heap[ix].child
    <2>1. s \in Seq(Objects)
        BY <1>2, HeapType
    <2>2. /\ \A i \in DOMAIN Append(s, el) : Append(s, el)[i] = el \/ (i \in DOMAIN s /\ Append(s, el)[i] = s[i])
        BY <1>2, <2>1
    <2> HIDE DEF s
    <2>3. CASE heap[ix].base \in Base
        BY <1>2, <2>3 DEF Parts
    <2>4. CASE heap[ix].base = "array"
        <3>1. heap'[ix].base = "array" /\ "array" \notin Base
            BY <1>2, <2>4, BaseAssumption
        <3>2. Parts(ix)' = {Append(s, el)[i] : i \in DOMAIN Append(s, el) \cap {1}}
            BY <1>2, <3>1 DEF Parts, s
        <3>3. Parts(ix) = {s[i] : i \in DOMAIN s \cap {1}}
            BY <2>4, <3>1 DEF Parts, s
        <3> QED
            BY <2>2, <3>2, <3>3
    <2>5. CASE heap[ix].base \notin Base /\ heap[ix].base # "array"
        <3>1. Parts(ix)' = {Append(s, el)[i] : i \in DOMAIN Append(s, el)}
            BY <1>2, <2>5 DEF Parts, s
        <3>2. Parts(ix) = {s[i] : i \in DOMAIN s}
            BY <2>5 DEF Parts, s
        <3> QED
            BY <2>2, <3>1, <3>2
    <2> QED
        BY <2>3, <2>4, <2>5
<1>5. /\ Reach(el) \subseteq Objects /\ el \in Reach(el) /\ Follows(Reach(el))
      /\ \A S \in SUBSET Objects : el \in S /\ Follows(S) => Reach(el) \subseteq S
    BY <1>2, ReachIs
<1>6. ASSUME NEW c \in Objects, ix \notin Reach(c) PROVE Reach(c)' \subseteq Reach(c)
    <2>1. Reach(c) \subseteq Objects' /\ c \in Reach(c) /\ Follows(Reach(c))
        BY <1>2, ReachIs
    <2>2. \A x \in Reach(c) : Parts(x)' \subseteq Reach(c)
        BY <1>2, <1>3, <1>6, <2>1 DEF Follows
    <2> QED
        BY <2>1, <2>2, ReachNext
<1>7. ASSUME NEW c \in Objects PROVE Reach(c)' \subseteq Reach(c) \cup Reach(el)
    <2> DEFINE S == Reach(c) \cup Reach(el)
    <2>1. Reach(c) \subseteq Objects' /\ c \in Reach(c) /\ Follows(Reach(c))
        BY <1>2, ReachIs
    <2>2. \A x \in S : Parts(x)' \subseteq S
        BY <1>2, <1>3, <1>4, <1>5, <2>1 DEF Follows
    <2>3. S \subseteq Objects' /\ c \in S
        BY <1>2, <1>5, <2>1
    <2> HIDE DEF S
    <2>4. Reach(c)' \subseteq S
        BY <2>2, <2>3, ReachNext
    <2> QED
        BY <2>4 DEF S
<1>8. ASSUME NEW x \in Objects', NEW c \in Parts(x)' PROVE x \notin Reach(c)'
    <2>1. CASE x = ix
        <3>1. c \in Objects /\ ix \notin Reach(c)
            BY <1>1, <1>2, <1>4, <1>8, <2>1, SoundIs
        <3> QED
            BY <1>6, <2>1, <3>1
    <2>2. CASE x # ix
        <3>1. x \in Objects /\ c \in Parts(x) /\ c \in Objects /\ x \notin Reach(c)
            BY <1>2, <1>3, <1>8, <2>2, SoundIs
        <3>2. CASE ix \in Reach(c)
            <4>1. x \notin Reach(el)
                <5> SUFFICES ASSUME x \in Reach(el) PROVE FALSE
                    OBVIOUS
                <5>1. c \in Reach(el)
                    BY <1>5, <3>1 DEF Follows
                <5>2. Reach(c) \subseteq Reach(el)
                    BY <1>5, <3>1, <5>1, ReachIs
                <5> QED
                    BY <1>1, <3>2, <5>2
            <4> QED
                BY <1>7, <3>1, <4>1
        <3>3. CASE ix \notin Reach(c)
            BY <1>6, <3>1, <3>3
        <3> QED
            BY <3>2, <3>3
    <2> QED
        BY <2>1, <2>2
<1> QED
    BY <1>8, AllSoundNext
--------------------------------------------------------------------------------
(* The inductive invariant: after careful declarations every object is     *)
(* acyclic, and what is being built, what a name stands for and what a     *)
(* variable has means what was declared.                                   *)
Values(s) == {s[i] : i \in DOMAIN s}
Claims    == Values(build) \cup declared \cup UNION {Values(open[i].types) : i \in DOMAIN open}

Meant == Sound = Objects /\ \A v \in Claims : Means(v.type, v.want)

TypesInv == TypesOK /\ Room /\ (careful => Meant)

LEMMA ClaimTypes ==
    ASSUME TypesOK
    PROVE  \A v \in Claims : v.type \in Objects /\ v.want \in Terms
<1>1. \A v \in Values(build) : v.type \in Objects /\ v.want \in Terms
    BY BuildType DEF Values
<1>2. \A v \in declared : v.type \in Objects /\ v.want \in Terms
    <2>1. declared \subseteq [type : Objects, want : Terms, global : BOOLEAN]
        BY TypesOKIs
    <2> QED
        BY <2>1
<1>3. \A i \in DOMAIN open : \A v \in Values(open[i].types) : v.type \in Objects /\ v.want \in Terms
    <2>1. \A i \in DOMAIN open : open[i].types \in Seq(Definitions)
        BY OpenType
    <2>2. \A d \in Definitions : d.type \in Objects /\ d.want \in Terms
        BY DEF Definitions
    <2>3. \A s \in Seq(Definitions) : \A v \in Values(s) : v \in Definitions
        BY DEF Values
    <2> QED
        BY <2>1, <2>2, <2>3
<1>4. ASSUME NEW v \in UNION {Values(open[i].types) : i \in DOMAIN open} PROVE v.type \in Objects /\ v.want \in Terms
    <2>1. PICK i \in DOMAIN open : v \in Values(open[i].types)
        OBVIOUS
    <2> QED
        BY <1>3, <2>1
<1>5. ASSUME NEW v \in Claims PROVE v.type \in Objects /\ v.want \in Terms
    BY <1>1, <1>2, <1>4, <1>5 DEF Claims
<1> QED
    BY <1>5

LEMMA TypesInvInit == TypesInit => TypesInv
<1> SUFFICES ASSUME TypesInit PROVE TypesInv
    OBVIOUS
<1>1. TypesOK /\ Room
    BY TypesOKInit
<1>2. Objects = {}
    BY DEF TypesInit, Objects
<1>3. Claims = {}
    BY DEF TypesInit, Scope, Claims, Values
<1> QED
    BY <1>1, <1>2, <1>3 DEF TypesInv, Meant, Sound

(* What was meant is still meant if the heap only grows. *)
LEMMA MeantKept ==
    ASSUME TypesOK, Meant, Kept, Sound' = Objects', \A v \in Claims' : v \in Claims \/ Means(v.type, v.want)'
    PROVE  Meant'
<1>1. ASSUME NEW v \in Claims' PROVE Means(v.type, v.want)'
    BY ClaimTypes, MeansKept DEF Meant
<1> QED
    BY <1>1 DEF Meant

(* Steps that leave the objects alone. *)
LEMMA MeantSame ==
    ASSUME TypesOK, Meant, UNCHANGED heap, \A v \in Claims' : \E u \in Claims : v.type = u.type /\ v.want = u.want
    PROVE  Meant'
<1>1. Objects' = Objects /\ \A o : Parts(o)' = Parts(o)
    BY DEF Objects, Parts
<1>2. \A o : Reach(o)' = Reach(o)
    BY <1>1 DEF Reach, Follows
<1>3. Sound' = Sound
    BY <1>1, <1>2 DEF Sound, Acyclic
<1>4. \A o, w : Means(o, w)' = Means(o, w)
    BY <1>1 DEF Means, Path, IsArray, Bounds, Says
<1>5. ASSUME NEW v \in Claims' PROVE Means(v.type, v.want)'
    <2>1. PICK u \in Claims : v.type = u.type /\ v.want = u.want
        BY <1>5
    <2>2. Means(v.type, v.want)
        BY <2>1 DEF Meant
    <2> QED
        BY <1>4, <2>2
<1> QED
    BY <1>1, <1>3, <1>5 DEF Meant

(* What a sequence holds that was changed at its ends. *)
LEMMA ValuesOf ==
    ASSUME NEW S, NEW s \in Seq(S)
    PROVE  /\ \A x : Values(Append(s, x)) = Values(s) \cup {x}
           /\ s # << >> => Values(Front(s)) \subseteq Values(s) /\ Last(s) \in Values(s)
           /\ Len(s) >= 2 => s[Len(s) - 1] \in Values(s) /\ Values(Front(Front(s))) \subseteq Values(s)
<1>1. Len(s) \in Nat /\ DOMAIN s = 1 .. Len(s)
    OBVIOUS
<1>2. ASSUME NEW x PROVE Values(Append(s, x)) = Values(s) \cup {x}
    <2> DEFINE R == S \cup {x}
    <2>0. s \in Seq(R) /\ x \in R
        BY SeqOfMore
    <2> HIDE DEF R
    <2>1. /\ Append(s, x) \in Seq(R) /\ Len(Append(s, x)) = Len(s) + 1 /\ Append(s, x)[Len(s) + 1] = x
          /\ \A i \in 1 .. Len(s) : Append(s, x)[i] = s[i]
        BY <1>1, <2>0
    <2>2. DOMAIN Append(s, x) = 1 .. Len(s) + 1
        BY <2>1
    <2> QED
        BY <1>1, <2>1, <2>2 DEF Values
<1>3. ASSUME NEW r \in Seq(S), r # << >>
      PROVE  /\ Front(r) \in Seq(S) /\ Len(Front(r)) = Len(r) - 1 /\ \A i \in 1 .. Len(r) - 1 : Front(r)[i] = r[i]
             /\ Values(Front(r)) \subseteq Values(r)
    <2> DEFINE n == Len(r) - 1
    <2>1. n \in Nat /\ DOMAIN r = 1 .. n + 1 /\ \A i \in 1 .. n : r[i] \in S
        BY <1>3
    <2>2. Front(r) = SubSeq(r, 1, n)
        BY DEF Front
    <2> HIDE DEF n
    <2>3. Front(r) \in Seq(S)
        BY <2>1, <2>2
    <2>4. Len(Front(r)) = n
        BY <2>1, <2>2
    <2>5. \A i \in 1 .. n : Front(r)[i] = r[i]
        BY <2>1, <2>2
    <2>6. DOMAIN Front(r) = 1 .. n
        BY <2>3, <2>4
    <2>7. Values(Front(r)) \subseteq Values(r)
        BY <2>1, <2>5, <2>6 DEF Values
    <2> QED
        BY <2>3, <2>4, <2>5, <2>7 DEF n
<1>4. s # << >> => Last(s) \in Values(s)
    BY <1>1 DEF Last, Values
<1>5. ASSUME Len(s) >= 2
      PROVE  s[Len(s) - 1] \in Values(s) /\ Values(Front(Front(s))) \subseteq Values(s)
    <2>1. s # << >> /\ Len(s) - 1 \in DOMAIN s
        BY <1>1, <1>5
    <2>2. Front(s) \in Seq(S) /\ Len(Front(s)) = Len(s) - 1
        BY <1>3, <2>1
    <2>3. Front(s) # << >>
        BY <1>1, <1>5, <2>2
    <2> QED
        BY <1>3, <2>1, <2>2, <2>3 DEF Values
<1> QED
    BY <1>2, <1>3, <1>4, <1>5
--------------------------------------------------------------------------------
(* Every step keeps the meanings *)

LEMMA BuildSeq == TypesOK => build \in Seq([type : Objects, easy : BOOLEAN, want : Terms])
BY TypesOKIs

LEMMA MeansIsAll ==
    TypesOK => \A o \in Objects, w \in Terms :
        Means(o, w) <=> IF w.dims = << >> THEN Says(o, w.of)
                        ELSE IsArray(o) /\ Bounds(o) = w.dims[1] /\ Means(heap[o].child[1], Inner(w))
BY MeansIs

LEMMA MeansIsNext ==
    (TypesOK => \A o \in Objects, w \in Terms :
        Means(o, w) <=> IF w.dims = << >> THEN Says(o, w.of)
                        ELSE IsArray(o) /\ Bounds(o) = w.dims[1] /\ Means(heap[o].child[1], Inner(w)))'
BY MeansIsAll, PTL

LEMMA PushClaims ==
    ASSUME TypesOK, UNCHANGED <<open, declared>>, NEW v, NEW S, NEW b \in Seq(S),
           Values(b) \subseteq Values(build), build' = Append(b, v)
    PROVE  Claims' \subseteq Claims \cup {v}
<1>1. Values(build') \subseteq Values(build) \cup {v}
    BY ValuesOf
<1>2. PICK U : U = UNION {Values(open[i].types) : i \in DOMAIN open}
    OBVIOUS
<1>3. Claims = Values(build) \cup declared \cup U
    BY <1>2 DEF Claims
<1>4. Claims' = Values(build') \cup declared \cup U
    BY <1>2 DEF Claims, Values
<1> QED
    BY <1>1, <1>3, <1>4

(* No step takes anything from an object. *)
LEMMA ArrayKept == ASSUME TypesOK, ArrayType PROVE Kept
<1>1. PICK o : o = build[Len(build) - 1].type
    OBVIOUS
<1>2. PICK e : e = Last(build).type
    OBVIOUS
<1>3. /\ o \in Objects /\ e \in Objects /\ Objects' = Objects
      /\ \A p \in Objects \ {o} : heap'[p] = heap[p]
      /\ heap'[o].base = heap[o].base /\ heap'[o].lo = heap[o].lo /\ heap'[o].hi = heap[o].hi
      /\ heap'[o].child = Append(heap[o].child, e)
    BY <1>1, <1>2, ArrayHeap
<1>4. heap[o].child \in Seq(Objects)
    BY <1>3, HeapType
<1> SUFFICES ASSUME NEW p \in Objects
             PROVE  /\ p \in Objects' /\ Bounds(p)' = Bounds(p) /\ heap'[p].base = heap[p].base
                    /\ IsArray(p) => IsArray(p)' /\ heap'[p].child[1] = heap[p].child[1]
    BY DEF Kept
<1>5. CASE p = o
    <2>1. heap[o].child # << >> => /\ Append(heap[o].child, e) # << >>
                                   /\ Append(heap[o].child, e)[1] = heap[o].child[1]
        BY <1>3, <1>4
    <2> QED
        BY <1>3, <1>5, <2>1 DEF Bounds, IsArray
<1>6. CASE p # o
    BY <1>3, <1>6 DEF Bounds, IsArray
<1> QED
    BY <1>5, <1>6

LEMMA KeptNext == ASSUME TypesOK, [TypesNext]_typeVars PROVE Kept
<1>1. CASE \E b \in Base : SystemType(b)
    <2>1. PICK b \in Base : heap' = Append(heap, Object(b, 0, 0, << >>))
        BY <1>1 DEF SystemType
    <2>2. Len(heap) \in Nat
        BY HeapType
    <2>3. \A o \in Objects : o \in Objects' /\ heap'[o] = heap[o]
        <3>1. Len(heap) + 1 \in Nat /\ << >> \in Seq(1 .. Len(heap) + 1)
            BY <2>2
        <3>2. Object(b, 0, 0, << >>) \in ObjectsUpTo(Len(heap) + 1)
            BY <3>1, ObjectMade
        <3> QED
            BY <2>1, <3>2, NewObject
    <2> QED
        BY <2>3 DEF Kept, IsArray, Bounds
<1>2. CASE \E r \in Subranges : RangeType(r)
    <2>1. PICK r \in Subranges : heap' = Append(heap, Object("array", r[1], r[2], << >>))
        BY <1>2 DEF RangeType
    <2>2. Len(heap) \in Nat /\ r[1] \in Nat /\ r[2] \in Nat
        BY HeapType, SubrangeAssumption
    <2>3. \A o \in Objects : o \in Objects' /\ heap'[o] = heap[o]
        <3>1. Len(heap) + 1 \in Nat /\ << >> \in Seq(1 .. Len(heap) + 1)
            BY <2>2
        <3>2. Object("array", r[1], r[2], << >>) \in ObjectsUpTo(Len(heap) + 1)
            BY <2>2, <3>1, ObjectMade
        <3> QED
            BY <2>1, <3>2, NewObject
    <2> QED
        BY <2>3 DEF Kept, IsArray, Bounds
<1>3. CASE ArrayType
    BY <1>3, ArrayKept
<1>4. CASE RecordType
    <2>1. \A o \in Objects : o \in Objects' /\ heap'[o] = heap[o]
        BY <1>4, RecordHeap
    <2> QED
        BY <2>1 DEF Kept, IsArray, Bounds
<1>5. CASE UNCHANGED heap
    BY <1>5 DEF Kept, Objects, IsArray, Bounds
<1>6. \/ \E b \in Base : SystemType(b)
      \/ \E r \in Subranges : RangeType(r)
      \/ ArrayType \/ RecordType \/ UNCHANGED heap
    BY DEF TypesNext, TypeExpression, Declaration, TypesStopped, NamedType, UndefinedType, Define, EndTypes,
           DeclareVar, EndVars, Param, EnterFunc, LeaveFunc, Finish, typeVars
<1> QED
    BY <1>1, <1>2, <1>3, <1>4, <1>5, <1>6

LEMMA SystemTypeMeant == ASSUME TypesOK, TypesOK', Meant, NEW b \in Base, SystemType(b) PROVE Meant'
<1>1. PICK n : n = Len(heap) + 1
    OBVIOUS
<1>2. PICK v : v = Value(n, TRUE, Scalar(b))
    OBVIOUS
<1>3. Len(heap) \in Nat /\ heap' = Append(heap, Object(b, 0, 0, << >>)) /\ build' = Append(build, v)
      /\ UNCHANGED <<open, declared>>
    BY <1>1, <1>2, HeapType DEF SystemType, Push
<1>4. Object(b, 0, 0, << >>) \in ObjectsUpTo(Len(heap) + 1)
    <2>1. Len(heap) + 1 \in Nat /\ << >> \in Seq(1 .. Len(heap) + 1)
        BY <1>3
    <2> QED
        BY <1>3, <2>1, ObjectMade
<1>5. /\ Len(heap') = Len(heap) + 1 /\ heap'[n] = Object(b, 0, 0, << >>) /\ n \in Objects'
      /\ \A o \in Objects : o \in Objects' /\ heap'[o] = heap[o]
    BY <1>1, <1>3, <1>4, NewObject
<1>6. Objects' = Objects \cup {n}
    BY <1>1, <1>3, <1>5 DEF Objects
<1>7. Parts(n)' = {}
    BY <1>5 DEF Parts, Object
<1>8. Sound' = Objects'
    BY <1>5, <1>6, <1>7, SoundLeaf DEF Meant
<1>9. Kept
    BY <1>5 DEF Kept, IsArray, Bounds
<1>10. Means(v.type, v.want)'
    <2>1. v.type = n /\ v.want = Scalar(b) /\ Scalar(b) \in Terms
        BY <1>2, TermsMade DEF Value
    <2>2. Scalar(b).dims = << >> /\ Scalar(b).of = [kind |-> "scalar", base |-> b]
        BY DEF Scalar, Type
    <2>3. Says(n, Scalar(b).of)'
        BY <1>5, <2>2 DEF Says, Object
    <2>4. Means(n, Scalar(b))'
        BY <1>5, <2>1, <2>2, <2>3, MeansIsNext
    <2> QED
        BY <2>1, <2>4
<1>11. Claims' \subseteq Claims \cup {v}
    BY <1>3, BuildSeq, PushClaims
<1> QED
    BY <1>8, <1>9, <1>10, <1>11, MeantKept

LEMMA RangeTypeMeant == ASSUME TypesOK, TypesOK', Meant, NEW r \in Subranges, RangeType(r) PROVE Meant'
<1>1. PICK n : n = Len(heap) + 1
    OBVIOUS
<1>2. PICK v : v = Value(n, TRUE, Subrange(r))
    OBVIOUS
<1>3. Len(heap) \in Nat /\ heap' = Append(heap, Object("array", r[1], r[2], << >>)) /\ build' = Append(build, v)
      /\ UNCHANGED <<open, declared>>
    BY <1>1, <1>2, HeapType DEF RangeType, Push
<1>4. Object("array", r[1], r[2], << >>) \in ObjectsUpTo(Len(heap) + 1)
    <2>1. Len(heap) + 1 \in Nat /\ << >> \in Seq(1 .. Len(heap) + 1) /\ r[1] \in Nat /\ r[2] \in Nat
        BY <1>3, SubrangeAssumption
    <2> QED
        BY <2>1, ObjectMade
<1>5. /\ Len(heap') = Len(heap) + 1 /\ heap'[n] = Object("array", r[1], r[2], << >>) /\ n \in Objects'
      /\ \A o \in Objects : o \in Objects' /\ heap'[o] = heap[o]
    BY <1>1, <1>3, <1>4, NewObject
<1>6. Objects' = Objects \cup {n}
    BY <1>1, <1>3, <1>5 DEF Objects
<1>7. Parts(n)' = {}
    BY <1>5, BaseAssumption DEF Parts, Object
<1>8. Sound' = Objects'
    BY <1>5, <1>6, <1>7, SoundLeaf DEF Meant
<1>9. Kept
    BY <1>5 DEF Kept, IsArray, Bounds
<1>10. Means(v.type, v.want)'
    <2>1. v.type = n /\ v.want = Subrange(r) /\ Subrange(r) \in Terms
        BY <1>2, TermsMade DEF Value
    <2>2. Subrange(r).dims = << >> /\ Subrange(r).of = [kind |-> "range", range |-> r] /\ r = <<r[1], r[2]>>
        BY SubrangeAssumption DEF Subrange, Type
    <2>3. Says(n, Subrange(r).of)'
        BY <1>5, <2>2 DEF Says, Object, Bounds
    <2>4. Means(n, Subrange(r))'
        BY <1>5, <2>1, <2>2, <2>3, MeansIsNext
    <2> QED
        BY <2>1, <2>4
<1>11. Claims' \subseteq Claims \cup {v}
    BY <1>3, BuildSeq, PushClaims
<1> QED
    BY <1>8, <1>9, <1>10, <1>11, MeantKept

LEMMA NamedTypeMeant == ASSUME TypesOK, Meant, NEW n, NamedType(n), careful' PROVE Meant'
<1>1. PICK i \in Entries(n) : /\ Visible(n) # {} /\ Meaning(n).type = tmp[i].type
                              /\ build' = Append(build, Value(tmp[i].type, TRUE, Meaning(n).want))
    BY DEF NamedType, Push
<1>2. PICK v : v = Value(tmp[i].type, TRUE, Meaning(n).want)
    OBVIOUS
<1>3. Meaning(n) \in Claims
    BY <1>1, MeaningIs DEF Claims, Values
<1>4. UNCHANGED <<heap, open, declared>>
    BY DEF NamedType
<1>5. Claims' \subseteq Claims \cup {v}
    BY <1>1, <1>2, <1>4, BuildSeq, PushClaims
<1>6. v.type = Meaning(n).type /\ v.want = Meaning(n).want
    BY <1>1, <1>2 DEF Value
<1> QED
    BY <1>3, <1>4, <1>5, <1>6, MeantSame

LEMMA ArrayTypeMeant == ASSUME TypesOK, TypesOK', Meant, ArrayType, careful' PROVE Meant'
<1>1. PICK ix : ix = build[Len(build) - 1]
    OBVIOUS
<1>2. PICK el : el = Last(build)
    OBVIOUS
<1>3. PICK o : o = ix.type
    OBVIOUS
<1>4. PICK v : v = Value(o, FALSE, IF IsSubrange(ix.want) THEN Array(ix.want.of.range, el.want) ELSE Nonsense)
    OBVIOUS
<1>5. /\ o \in Objects /\ ix.want \in Terms /\ el.type \in Objects /\ el.want \in Terms
      /\ Objects' = Objects
      /\ \A p \in Objects \ {o} : heap'[p] = heap[p]
      /\ heap'[o].base = heap[o].base /\ heap'[o].lo = heap[o].lo /\ heap'[o].hi = heap[o].hi
      /\ heap'[o].child = Append(heap[o].child, el.type)
    BY <1>1, <1>2, <1>3, ArrayHeap
<1>6. /\ Len(build) >= 2 /\ build' = Append(Front(Front(build)), v) /\ UNCHANGED <<open, declared>>
      /\ heap[o].child # << >> => Term(heap[o].child[1]) = Term(el.type)
    BY <1>1, <1>2, <1>3, <1>4 DEF ArrayType
<1>7. ix \in Claims /\ el \in Claims /\ Claims' \subseteq Claims \cup {v}
    <2> DEFINE S == [type : Objects, easy : BOOLEAN, want : Terms]
    <2>1. build \in Seq(S)
        BY BuildSeq
    <2>2. Front(Front(build)) \in Seq(S)
        BY <1>6, BuildEnds
    <2> HIDE DEF S
    <2>3. build # << >>
        BY <1>6, <2>1
    <2>4. ix \in Values(build) /\ el \in Values(build) /\ Values(Front(Front(build))) \subseteq Values(build)
        BY <1>1, <1>2, <1>6, <2>1, <2>3, ValuesOf
    <2> DEFINE b == Front(Front(build))
    <2>5. b \in Seq(S) /\ Values(b) \subseteq Values(build) /\ build' = Append(b, v)
        BY <1>6, <2>2, <2>4
    <2> HIDE DEF b
    <2>6. Claims' \subseteq Claims \cup {v}
        BY <1>6, <2>5, PushClaims
    <2> QED
        BY <2>4, <2>6 DEF Claims
<1>8. Means(o, ix.want) /\ Means(el.type, el.want)
    BY <1>3, <1>7 DEF Meant
<1>9. heap[o].child \in Seq(Objects)
    BY <1>5, HeapType
<1>10. Kept
    BY ArrayKept
<1>11. Means(v.type, v.want)'
    <2>1. CASE ~IsSubrange(ix.want)
        <3>1. v.type = o /\ v.want = Nonsense /\ Nonsense \in Terms
            BY <1>4, <2>1, TermsMade DEF Value
        <3>2. Nonsense.dims = << >> /\ Nonsense.of = [kind |-> "nonsense"]
            BY DEF Nonsense, Type
        <3>3. Says(o, Nonsense.of)'
            BY <3>2 DEF Says
        <3>4. Means(o, Nonsense)'
            BY <1>5, <3>1, <3>2, <3>3, MeansIsNext
        <3> QED
            BY <3>1, <3>4
    <2>2. CASE IsSubrange(ix.want)
        <3>1. PICK r : r = ix.want.of.range
            OBVIOUS
        <3>2. r \in Subranges /\ v.type = o /\ v.want = Array(r, el.want) /\ Array(r, el.want) \in Terms
            BY <1>4, <1>5, <2>2, <3>1, TermsMade DEF Value
        <3>3. heap[o].base = "array" /\ Bounds(o) = r
            BY <1>5, <1>8, <2>2, <3>1, MeansIs DEF IsSubrange, Says
        <3>4. PICK c : c = heap'[o].child[1]
            OBVIOUS
        <3>5. c \in Objects /\ Means(c, el.want)
            <4>1. CASE heap[o].child = << >>
                <5>1. c = el.type
                    BY <1>5, <3>4, <4>1
                <5> QED
                    BY <1>5, <1>8, <5>1
            <4>2. CASE heap[o].child # << >>
                <5>1. c = heap[o].child[1] /\ c \in Objects
                    BY <1>5, <1>9, <3>4, <4>2
                <5>2. c \in Sound /\ el.type \in Sound
                    BY <1>5, <5>1 DEF Meant
                <5> QED
                    BY <1>5, <1>6, <1>8, <4>2, <5>1, <5>2, MeansByTerm
            <4> QED
                BY <4>1, <4>2
        <3>6. Means(c, el.want)'
            BY <1>5, <1>10, <3>5, MeansKept
        <3>7. IsArray(o)' /\ Bounds(o)' = r
            <4>1. Append(heap[o].child, el.type) # << >>
                BY <1>5, <1>9
            <4> QED
                BY <1>5, <3>3, <4>1 DEF IsArray, Bounds
        <3>8. /\ Array(r, el.want).dims # << >> /\ Array(r, el.want).dims[1] = r
              /\ Inner(Array(r, el.want)) = el.want
            BY <1>5, <3>2, ArrayTerm
        <3>9. PICK w : w = Array(r, el.want)
            OBVIOUS
        <3>10. PICK e : e = el.want
            OBVIOUS
        <3>11. w \in Terms /\ w.dims # << >> /\ w.dims[1] = r /\ Inner(w) = e /\ Means(c, e)' /\ v.want = w
            BY <3>2, <3>6, <3>8, <3>9, <3>10
        <3>12. Means(heap[o].child[1], e)'
            BY <3>4, <3>11
        <3>13. Means(o, w)'
            BY <1>5, <3>7, <3>11, <3>12, MeansIsNext
        <3> QED
            BY <3>2, <3>11, <3>13
    <2> QED
        BY <2>1, <2>2
<1>12. Sound' = Objects'
    BY SoundArray DEF Meant
<1> QED
    BY <1>7, <1>10, <1>11, <1>12, MeantKept

LEMMA RecordTypeMeant == ASSUME TypesOK, TypesOK', Meant, RecordType PROVE Meant'
<1>1. PICK n : n = Len(heap) + 2
    OBVIOUS
<1>2. PICK v : v = Value(n, FALSE, Record)
    OBVIOUS
<1>3. /\ Len(heap) \in Nat /\ build # << >> /\ Objects' = Objects \cup {Len(heap) + 1, Len(heap) + 2}
      /\ \A o \in Objects : heap'[o] = heap[o]
    BY RecordHeap
<1>4. n \in Objects' /\ Kept
    BY <1>1, <1>3 DEF Kept, IsArray, Bounds
<1>5. UNCHANGED <<open, declared>> /\ build' = Append(Front(build), v)
    BY <1>1, <1>2 DEF RecordType
<1>6. Means(v.type, v.want)'
    <2>1. v.type = n /\ v.want = Record /\ Record \in Terms
        BY <1>2, TermsMade DEF Value
    <2>2. Record.dims = << >> /\ Record.of = [kind |-> "record"]
        BY DEF Record, Type
    <2>3. Says(n, Record.of)'
        BY <2>2 DEF Says
    <2>4. Means(n, Record)'
        BY <1>4, <2>1, <2>2, <2>3, MeansIsNext
    <2> QED
        BY <2>1, <2>4
<1>7. Claims' \subseteq Claims \cup {v}
    <2> DEFINE b == Front(build)
               S == [type : Objects, easy : BOOLEAN, want : Terms]
    <2>1. build \in Seq(S) /\ b \in Seq(S)
        BY <1>3, BuildSeq, BuildEnds
    <2> HIDE DEF S
    <2>2. Values(b) \subseteq Values(build)
        BY <1>3, <2>1, ValuesOf
    <2>3. build' = Append(b, v)
        BY <1>5
    <2> HIDE DEF b
    <2> QED
        BY <1>5, <2>1, <2>2, <2>3, PushClaims
<1>8. Sound' = Objects'
    BY SoundRecord DEF Meant
<1> QED
    BY <1>4, <1>6, <1>7, <1>8, MeantKept

LEMMA DefineMeant == ASSUME TypesOK, Meant, NEW n, Define(n) PROVE Meant'
<1>1. PICK d : d = Definition(n, build[1])
    OBVIOUS
<1>2. /\ Len(build) = 1 /\ build' = << >> /\ UNCHANGED <<heap, declared>>
      /\ open' = [open EXCEPT ![Len(open)].types = Append(@, d)]
    BY <1>1 DEF Define
<1>3. build[1] \in Claims /\ d.type = build[1].type /\ d.want = build[1].want
    <2> DEFINE S == [type : Objects, easy : BOOLEAN, want : Terms]
    <2>1. build \in Seq(S)
        BY BuildSeq
    <2> HIDE DEF S
    <2>2. build[1] \in Values(build)
        BY <1>2, <2>1 DEF Values
    <2> QED
        BY <1>1, <2>2 DEF Claims, Definition
<1>4. ASSUME NEW i \in DOMAIN open' PROVE Values(open'[i].types) \subseteq Claims \cup {d}
    <2>1. i \in DOMAIN open /\ open[i].types \in Seq(Definitions)
        BY <1>2, <1>4, OpenType
    <2>2. Values(open[i].types) \subseteq Claims
        BY <2>1 DEF Claims
    <2>3. open'[i].types = open[i].types \/ open'[i].types = Append(open[i].types, d)
        BY <1>2, <2>1
    <2>4. Values(Append(open[i].types, d)) = Values(open[i].types) \cup {d}
        BY <2>1, ValuesOf
    <2> QED
        BY <2>2, <2>3, <2>4
<1>5. Values(build') = {}
    BY <1>2 DEF Values
<1>6. Claims' \subseteq Claims \cup {d}
    <2> SUFFICES ASSUME NEW v \in Claims' PROVE v \in Claims \cup {d}
        OBVIOUS
    <2>1. CASE v \in declared
        BY <2>1 DEF Claims
    <2>2. CASE \E i \in DOMAIN open' : v \in Values(open'[i].types)
        BY <1>4, <2>2
    <2> QED
        BY <1>2, <1>5, <2>1, <2>2 DEF Claims, Values
<1> QED
    BY <1>2, <1>3, <1>6, MeantSame

(* Steps that declare a variable. *)
LEMMA VariableMeant ==
    ASSUME TypesOK, Meant, NEW global, Len(build) = 1, build' = << >>, UNCHANGED <<heap, open>>,
           declared' = declared \cup {Variable(build[1], global)}
    PROVE  Meant'
<1>1. PICK d : d = Variable(build[1], global)
    OBVIOUS
<1>2. build[1] \in Claims /\ d.type = build[1].type /\ d.want = build[1].want
    <2> DEFINE S == [type : Objects, easy : BOOLEAN, want : Terms]
    <2>1. build \in Seq(S)
        BY BuildSeq
    <2> HIDE DEF S
    <2>2. build[1] \in Values(build)
        BY <2>1 DEF Values
    <2> QED
        BY <1>1, <2>2 DEF Claims, Variable
<1>3. Values(build') = {}
    BY DEF Values
<1>4. PICK U : U = UNION {Values(open[i].types) : i \in DOMAIN open}
    OBVIOUS
<1>5. Claims = Values(build) \cup declared \cup U
    BY <1>4 DEF Claims
<1>6. Claims' = declared \cup {d} \cup U
    BY <1>1, <1>3, <1>4 DEF Claims, Values
<1> QED
    BY <1>2, <1>5, <1>6, MeantSame

(* Steps between declarations: no scope gets other types. *)
LEMMA ScopesMeant ==
    ASSUME TypesOK, Meant, UNCHANGED <<heap, build, declared>>,
           \A i \in DOMAIN open' : \/ open'[i].types = << >>
                                   \/ i \in DOMAIN open /\ open'[i].types = open[i].types
    PROVE  Meant'
<1>1. ASSUME NEW v \in Claims' PROVE v \in Claims
    <2>1. CASE v \in declared \/ v \in Values(build)
        BY <2>1 DEF Claims
    <2>2. CASE \E i \in DOMAIN open' : v \in Values(open'[i].types)
        <3>1. PICK i \in DOMAIN open' : v \in Values(open'[i].types)
            BY <2>2
        <3>2. open'[i].types # << >>
            BY <3>1 DEF Values
        <3>3. i \in DOMAIN open /\ v \in Values(open[i].types)
            BY <3>1, <3>2
        <3> QED
            BY <3>3 DEF Claims
    <2> QED
        BY <1>1, <2>1, <2>2 DEF Claims, Values
<1> QED
    BY <1>1, MeantSame

LEMMA TypesInvNext == TypesInv /\ [TypesNext]_typeVars => TypesInv'
<1> SUFFICES ASSUME TypesInv, [TypesNext]_typeVars PROVE TypesInv'
    OBVIOUS
<1>1. TypesOK /\ Room /\ TypesOK' /\ Room' /\ (careful => Meant)
    BY TypesOKNext DEF TypesInv
<1>2. ASSUME careful' PROVE Meant'
    <2>1. careful /\ Meant
        <3>1. careful
            BY <1>2 DEF TypesNext, TypeExpression, Declaration, TypesStopped, SystemType, RangeType, NamedType,
                        UndefinedType, ArrayType, RecordType, Define, EndTypes, DeclareVar, EndVars, Param,
                        EnterFunc, LeaveFunc, Finish, typeVars
        <3> QED
            BY <1>1, <3>1
    <2>2. CASE \E b \in Base : SystemType(b)
        BY <1>1, <2>1, <2>2, SystemTypeMeant
    <2>3. CASE \E r \in Subranges : RangeType(r)
        BY <1>1, <2>1, <2>3, RangeTypeMeant
    <2>4. CASE \E n \in Name : NamedType(n)
        BY <1>1, <1>2, <2>1, <2>4, NamedTypeMeant
    <2>5. CASE ArrayType
        BY <1>1, <1>2, <2>1, <2>5, ArrayTypeMeant
    <2>6. CASE RecordType
        BY <1>1, <2>1, <2>6, RecordTypeMeant
    <2>7. CASE \E n \in Name : Define(n)
        BY <1>1, <2>1, <2>7, DefineMeant
    <2>8. CASE DeclareVar
        BY <1>1, <2>1, <2>8, VariableMeant DEF DeclareVar
    <2>9. CASE Param
        BY <1>1, <2>1, <2>9, VariableMeant DEF Param
    <2>10. CASE EndTypes \/ EndVars
        <3> DEFINE S == [part : {"types", "vars", "funcs"}, types : Seq(Definitions)]
        <3>1. \A i \in DOMAIN open' : i \in DOMAIN open /\ open'[i].types = open[i].types
            <4>1. PICK p : open' = [open EXCEPT ![Len(open)].part = p]
                BY <2>10 DEF EndTypes, EndVars
            <4>2. open \in Seq(S)
                BY <1>1, TypesOKIs
            <4>3. \A x \in S : [x EXCEPT !.part = p].types = x.types
                OBVIOUS
            <4> HIDE DEF S
            <4>4. \A i \in DOMAIN open : open[i] \in S
                BY <4>2
            <4> QED
                BY <4>1, <4>3, <4>4
        <3> QED
            BY <1>1, <2>1, <2>10, <3>1, ScopesMeant DEF EndTypes, EndVars
    <2>11. CASE EnterFunc
        <3> DEFINE S == [part : {"types", "vars", "funcs"}, types : Seq(Definitions)]
                   x == Scope("types", << >>)
        <3>1. open \in Seq(S) /\ x \in S /\ x.types = << >> /\ open' = Append(open, x)
            BY <1>1, <2>11, TypesOKIs DEF Scope, EnterFunc
        <3> HIDE DEF S, x
        <3>2. \A i \in DOMAIN open' : \/ open'[i] = x
                                      \/ i \in DOMAIN open /\ open'[i] = open[i]
            BY <3>1
        <3>3. \A i \in DOMAIN open' : \/ open'[i].types = << >>
                                      \/ i \in DOMAIN open /\ open'[i].types = open[i].types
            BY <3>1, <3>2
        <3> QED
            BY <1>1, <2>1, <2>11, <3>3, ScopesMeant DEF EnterFunc
    <2>12. CASE LeaveFunc
        <3> DEFINE S == [part : {"types", "vars", "funcs"}, types : Seq(Definitions)]
        <3>1. open \in Seq(S) /\ Len(open) > 1 /\ open' = SubSeq(open, 1, Len(open) - 1)
            BY <1>1, <2>12, TypesOKIs DEF LeaveFunc, Front
        <3> HIDE DEF S
        <3>2. \A i \in DOMAIN open' : i \in DOMAIN open /\ open'[i] = open[i]
            BY <3>1
        <3> QED
            BY <1>1, <2>1, <2>12, <3>2, ScopesMeant DEF LeaveFunc
    <2>13. CASE (\E n \in Name : UndefinedType(n)) \/ Finish \/ UNCHANGED typeVars
        <3>1. UNCHANGED <<heap, build, open, declared>>
            BY <2>13 DEF UndefinedType, Finish, typeVars
        <3> QED
            BY <1>1, <2>1, <3>1, ScopesMeant
    <2> QED
        BY <2>2, <2>3, <2>4, <2>5, <2>6, <2>7, <2>8, <2>9, <2>10, <2>11, <2>12, <2>13
            DEF TypesNext, TypeExpression, Declaration, TypesStopped
<1> QED
    BY <1>1, <1>2 DEF TypesInv

(* The types of objects, terms and scopes. *)
THEOREM TypesTypeCorrect == TypesSpec => []TypesOK
<1>1. TypesInv => TypesOK
    BY DEF TypesInv
<1> QED
    BY <1>1, TypesInvInit, TypesInvNext, PTL DEF TypesSpec

(* After careful declarations the object of every variable of a complete   *)
(* type reads as the variable was declared, whatever the program declares. *)
THEOREM ObjectsMeanWhatTheySay == TypesSpec => []MeansWhatItSays
<1>1. ASSUME TypesInv PROVE MeansWhatItSays
    <2> SUFFICES ASSUME NEW v \in Good PROVE Acyclic(v.type) /\ Term(v.type) = v.want
        BY <1>1 DEF TypesInv, MeansWhatItSays
    <2>1. v \in declared /\ Complete(v.want) /\ TypesOK /\ Meant
        BY <1>1 DEF Good, TypesInv
    <2>2. v \in Claims /\ v.type \in Objects /\ v.want \in Terms
        BY <2>1, ClaimTypes DEF Claims
    <2>3. v.type \in Sound /\ Means(v.type, v.want)
        BY <2>1, <2>2 DEF Meant
    <2> QED
        BY <2>1, <2>2, <2>3, MeansTerm DEF Sound
<1>2. TypesInv => MeansWhatItSays
    BY <1>1
<1> QED
    BY <1>2, TypesInvInit, TypesInvNext, PTL DEF TypesSpec

LEMMA DimsElement ==
    ASSUME NEW w \in Terms, NEW k \in DOMAIN w.dims
    PROVE  w.dims[k] \in Subranges
<1>1. PICK d : d = w.dims
    OBVIOUS
<1>2. d \in Seq(Subranges) /\ k \in DOMAIN d
    BY <1>1, InnerTerm
<1>3. d[k] \in Subranges
    BY <1>2
<1> QED
    BY <1>1, <1>3

(* Storage has room for exactly what was declared. *)
THEOREM RoomIsAsDeclared == TypesSpec => []RoomAsDeclared
<1>1. ASSUME TypesInv PROVE RoomAsDeclared
    <2> SUFFICES ASSUME NEW v \in Good, InOrder(v.want), Definable(v.want, v.global)
                 PROVE  Defined(v.type, v.global) /\ LLVMTYPERET(v.type) = Layout(v.want)
        BY DEF RoomAsDeclared
    <2>1. v \in declared /\ Complete(v.want) /\ TypesOK /\ Meant
        BY <1>1 DEF Good, TypesInv
    <2>2. v \in Claims /\ v.type \in Objects /\ v.want \in Terms
        BY <2>1, ClaimTypes DEF Claims
    <2>3. v.type \in Sound /\ Means(v.type, v.want)
        BY <2>1, <2>2 DEF Meant
    <2>4. LLVMTYPERET(v.type) = Asked(v.want)
        BY <2>1, <2>2, <2>3, MeansLLVM
    <2>5. PICK w \in Terms : w = v.want
        BY <2>2
    <2>6. PICK t \in Sound : t = v.type
        BY <2>3
    <2>7. w.of.base \in Base /\ w.of.base # "string"
        <3>1. w.of.base \in Base
            BY <2>1, <2>5, CompleteTerm
        <3> QED
            BY <2>5, <3>1 DEF Definable, Stringless
    <2>8. Asked(w) = Layout(w)
        <3>1. \A k \in DOMAIN w.dims : Count(w.dims[k][1], w.dims[k][2]) = w.dims[k][2] - w.dims[k][1] + 1
            <4> SUFFICES ASSUME NEW k \in DOMAIN w.dims
                         PROVE  Count(w.dims[k][1], w.dims[k][2]) = w.dims[k][2] - w.dims[k][1] + 1
                OBVIOUS
            <4>1. PICK r \in Subranges : r = w.dims[k]
                BY DimsElement
            <4>2. PICK lo \in Nat : lo = r[1]
                BY SubrangeAssumption
            <4>3. PICK hi \in Nat : hi = r[2]
                BY SubrangeAssumption
            <4>4. lo <= hi + 1 /\ hi + 1 < Wide /\ Wide \in Nat
                BY <2>5, <4>1, <4>2, <4>3, SubrangeAssumption, BoundAssumption DEF InOrder
            <4>5. hi - lo + 1 \in 0 .. Wide - 1
                BY <4>4
            <4>6. \A m \in 0 .. Wide - 1 : m % Wide = m
                BY <4>4
            <4> QED
                BY <4>1, <4>2, <4>3, <4>5, <4>6 DEF Count
        <3> QED
            BY <2>7, <3>1 DEF Asked, Layout
    <2>9. Defined(t, v.global)
        <3>1. t \in Objects /\ Means(t, w) /\ Complete(w) /\ Len(w.dims) \in Nat
            BY <2>1, <2>3, <2>5, <2>6, InnerTerm DEF Sound
        <3>2. CASE ~v.global
            <4>1. LLVMTYPERET(t).of # Undefined
                BY <2>4, <2>5, <2>6, <2>7, BaseAssumption DEF Asked, Undefined
            <4> QED
                BY <3>2, <4>1 DEF Defined
        <3>3. CASE v.global /\ w.dims = << >>
            <4>1. w.of.base \in {"int", "real"}
                BY <2>5, <3>3 DEF Definable
            <4>2. heap[t].base = w.of.base
                BY <2>1, <3>1, <3>3, MeansShape
            <4> QED
                BY <3>3, <4>1, <4>2 DEF Defined
        <3>4. CASE v.global /\ w.dims # << >>
            <4>1. Len(w.dims) = 1 /\ w.of.base \in {"int", "real", "char"}
                BY <2>5, <3>4 DEF Definable
            <4>2. IsArray(t) /\ Means(heap[t].child[1], Inner(w))
                BY <2>1, <3>1, <3>4, MeansShape
            <4>3. Inner(w) \in Terms /\ Inner(w).dims = << >> /\ Complete(Inner(w)) /\ Inner(w).of = w.of
                <5>1. Inner(w) \in Terms /\ Len(Inner(w).dims) = Len(w.dims) - 1
                    BY <3>4, InnerTerm
                <5>2. PICK u \in Terms : u = Inner(w)
                    BY <5>1
                <5>3. Len(u.dims) = 0
                    BY <4>1, <5>1, <5>2
                <5>4. u.dims = << >>
                    BY <5>3, InnerTerm
                <5>5. Complete(Inner(w)) /\ Inner(w).of = w.of
                    BY <3>1, <3>4, CompleteTerm DEF Inner
                <5> QED
                    BY <5>2, <5>4, <5>5
            <4>4. heap[t].child[1] \in Objects
                BY <2>1, <4>2, FirstPart DEF Sound
            <4>5. heap[heap[t].child[1]].base = w.of.base
                BY <2>1, <4>2, <4>3, <4>4, MeansShape
            <4> QED
                BY <3>4, <4>1, <4>2, <4>5 DEF Defined, IsArray
        <3>5. v.global \in BOOLEAN
            BY <2>1, TypesOKIs
        <3> QED
            BY <3>2, <3>3, <3>4, <3>5
    <2> QED
        BY <2>4, <2>5, <2>6, <2>8, <2>9
<1>2. TypesInv => RoomAsDeclared
    BY <1>1
<1> QED
    BY <1>2, TypesInvInit, TypesInvNext, PTL DEF TypesSpec

(* Of terms with the same starts, those with the same ends ask for the     *)
(* same layout.                                                            *)
LEMMA EndsAreLayout ==
    ASSUME NEW v \in Terms, NEW w \in Terms, Complete(v), Complete(w), Starts(v) = Starts(w), Stringless(v),
           InOrder(v), InOrder(w)
    PROVE  SameEnds(v, w) <=> Asked(v) = Asked(w)
<1>1. /\ DOMAIN v.dims = 1 .. Len(v.dims) /\ DOMAIN w.dims = 1 .. Len(w.dims)
      /\ Len(v.dims) \in Nat /\ Len(w.dims) \in Nat
    <2>1. v.dims \in Seq(Subranges) /\ w.dims \in Seq(Subranges)
        BY InnerTerm
    <2> QED
        BY <2>1
<1>2. v.of.base \in Base /\ w.of.base \in Base /\ v.of.base # "string"
    BY CompleteTerm DEF Stringless
<1>3. DOMAIN Starts(v) = DOMAIN v.dims /\ DOMAIN Starts(w) = DOMAIN w.dims
    BY DEF Starts
<1>4. DOMAIN v.dims = DOMAIN w.dims /\ Len(v.dims) = Len(w.dims)
    BY <1>1, <1>3
<1>5. ASSUME NEW k \in DOMAIN v.dims
      PROVE  /\ Count(v.dims[k][1], v.dims[k][2]) = Count(w.dims[k][1], w.dims[k][2])
                <=> v.dims[k][2] = w.dims[k][2]
    <2>1. v.dims[k] \in Subranges /\ w.dims[k] \in Subranges
        BY <1>4, DimsElement
    <2>2. PICK lo \in Nat : lo = v.dims[k][1]
        BY <2>1, SubrangeAssumption
    <2>3. PICK a \in Nat : a = v.dims[k][2]
        BY <2>1, SubrangeAssumption
    <2>4. PICK b \in Nat : b = w.dims[k][2]
        BY <2>1, SubrangeAssumption
    <2>5. w.dims[k][1] = lo
        BY <1>4, <2>2 DEF Starts
    <2>6. lo <= a + 1 /\ lo <= b + 1 /\ a + 1 < Wide /\ b + 1 < Wide /\ Wide \in Nat
        BY <1>4, <2>1, <2>2, <2>3, <2>4, <2>5, SubrangeAssumption, BoundAssumption DEF InOrder
    <2>7. a - lo + 1 \in 0 .. Wide - 1 /\ b - lo + 1 \in 0 .. Wide - 1
        BY <2>6
    <2>8. \A m \in 0 .. Wide - 1 : m % Wide = m
        BY <2>6
    <2>9. Count(lo, a) = a - lo + 1 /\ Count(lo, b) = b - lo + 1
        BY <2>7, <2>8 DEF Count
    <2> QED
        BY <2>2, <2>3, <2>4, <2>5, <2>9
<1>6. Asked(v).of = v.of.base /\ (Asked(w).of = v.of.base <=> w.of.base = v.of.base)
    BY <1>2, BaseAssumption DEF Asked, Undefined
<1>7. Asked(v).dims = Asked(w).dims <=> \A k \in DOMAIN v.dims : v.dims[k][2] = w.dims[k][2]
    <2> DEFINE f == [k \in DOMAIN v.dims |-> Count(v.dims[k][1], v.dims[k][2])]
               g == [k \in DOMAIN v.dims |-> Count(w.dims[k][1], w.dims[k][2])]
    <2>1. Asked(v).dims = f /\ Asked(w).dims = g
        BY <1>4 DEF Asked
    <2>2. f = g <=> \A k \in DOMAIN v.dims : Count(v.dims[k][1], v.dims[k][2]) = Count(w.dims[k][1], w.dims[k][2])
        OBVIOUS
    <2> HIDE DEF f, g
    <2> QED
        BY <1>5, <2>1, <2>2
<1>8. Asked(v) = Asked(w) <=> Asked(v).dims = Asked(w).dims /\ Asked(v).of = Asked(w).of
    BY DEF Asked
<1> QED
    BY <1>1, <1>2, <1>4, <1>6, <1>7, <1>8 DEF SameEnds

(* isSameType accepts exactly the types of equal layout. *)
THEOREM SameTypeIsSameLayout == TypesSpec => []SameIsSameLayout
<1>1. ASSUME TypesInv PROVE SameIsSameLayout
    <2> SUFFICES ASSUME NEW v \in Good, NEW w \in Good, Starts(v.want) = Starts(w.want),
                        Stringless(v.want), InOrder(v.want), InOrder(w.want)
                 PROVE  isSameType(v.type, w.type) <=> LLVMTYPERET(v.type) = LLVMTYPERET(w.type)
        BY DEF SameIsSameLayout
    <2>1. v \in declared /\ Complete(v.want) /\ w \in declared /\ Complete(w.want) /\ TypesOK /\ Meant
        BY <1>1 DEF Good, TypesInv
    <2>2. v.type \in Objects /\ v.want \in Terms /\ w.type \in Objects /\ w.want \in Terms
        BY <2>1, ClaimTypes DEF Claims
    <2>3. v.type \in Sound /\ Means(v.type, v.want) /\ w.type \in Sound /\ Means(w.type, w.want)
        BY <2>1, <2>2 DEF Meant, Claims
    <2>4. LLVMTYPERET(v.type) = Asked(v.want) /\ LLVMTYPERET(w.type) = Asked(w.want)
        BY <2>1, <2>2, <2>3, MeansLLVM
    <2>5. isSameType(v.type, w.type) <=> SameEnds(v.want, w.want)
        BY <2>1, <2>2, <2>3, MeansSame
    <2>6. SameEnds(v.want, w.want) <=> Asked(v.want) = Asked(w.want)
        BY <2>1, <2>2, EndsAreLayout
    <2> QED
        BY <2>4, <2>5, <2>6
<1>2. TypesInv => SameIsSameLayout
    BY <1>1
<1> QED
    BY <1>2, TypesInvInit, TypesInvNext, PTL DEF TypesSpec
--------------------------------------------------------------------------------
(* Finished types *)

LEMMA FinishedParts ==
    ASSUME TypesOK, NEW t \in Objects, Finished(t), NEW o \in Reach(t)
    PROVE  o \in Objects /\ o \in Sound /\ Finished(o)
<1>1. t \in Sound
    BY DEF Finished, Sound
<1>2. o \in Sound /\ Acyclic(o) /\ o \in Objects
    BY <1>1, SoundReach DEF Sound
<1>3. Reach(o) \subseteq Reach(t)
    BY <1>2, ReachIs
<1> QED
    BY <1>2, <1>3 DEF Finished

LEMMA ChildType == TypesOK => \A o \in Objects : heap[o].child \in Seq(Objects)
BY HeapType

LEMMA ChildTypeNext == (TypesOK => \A o \in Objects : heap[o].child \in Seq(Objects))'
BY ChildType, PTL

LEMMA FinishedKept ==
    ASSUME TypesOK, TypesOK', Kept, NEW t \in Objects, Finished(t)
    PROVE  Finished(t)' /\ t \in Sound'
<1>1. Reach(t) \subseteq Objects /\ t \in Reach(t) /\ Follows(Reach(t)) /\ Acyclic(t)
    BY ReachIs DEF Finished
<1>2. ASSUME NEW o \in Reach(t)
      PROVE  o \in Objects' /\ Parts(o)' = Parts(o) /\ (heap'[o].base \in Base \/ IsArray(o)')
    <2>1. o \in Objects
        BY <1>1
    <2>2. o \in Objects' /\ heap'[o].base = heap[o].base
        BY <2>1 DEF Kept
    <2>3. CASE heap[o].base \in Base
        <3>1. heap'[o].base \in Base
            BY <2>2, <2>3
        <3>2. Parts(o) = {}
            BY <2>3, BaseAssumption DEF Parts
        <3>3. Parts(o)' = {}
            BY <3>1, BaseAssumption DEF Parts
        <3> QED
            BY <2>2, <3>1, <3>2, <3>3
    <2>4. CASE IsArray(o)
        <3>1. IsArray(o)' /\ heap'[o].child[1] = heap[o].child[1]
            BY <2>1, <2>4 DEF Kept
        <3>2. "array" \notin Base
            BY BaseAssumption
        <3>3. heap[o].base = "array" /\ heap'[o].base = "array"
            BY <2>2, <2>4 DEF IsArray
        <3>4. heap[o].child \in Seq(Objects) /\ heap[o].child # << >>
            BY <2>1, <2>4, HeapType DEF IsArray
        <3>5. Parts(o) = {heap[o].child[1]}
            <4>1. DOMAIN heap[o].child \cap {1} = {1}
                BY <3>4
            <4> QED
                BY <3>2, <3>3, <4>1 DEF Parts
        <3>6. Parts(o)' = {heap'[o].child[1]}
            <4>1. heap'[o].child \in Seq(Objects') /\ heap'[o].child # << >>
                BY <2>2, <3>1, ChildTypeNext DEF IsArray
            <4>2. DOMAIN heap'[o].child \cap {1} = {1}
                BY <4>1
            <4> QED
                BY <3>2, <3>3, <4>2 DEF Parts
        <3> QED
            BY <2>2, <3>1, <3>5, <3>6
    <2>5. heap[o].base \in Base \/ IsArray(o)
        BY DEF Finished
    <2> QED
        BY <2>2, <2>3, <2>4, <2>5
<1>3. ASSUME NEW c \in Reach(t) PROVE Reach(c)' \subseteq Reach(c) /\ Reach(c) \subseteq Reach(t)
    <2>1. c \in Objects /\ Reach(c) \subseteq Reach(t) /\ c \in Reach(c) /\ Follows(Reach(c))
        BY <1>1, ReachIs
    <2>2. Reach(c) \subseteq Objects' /\ \A x \in Reach(c) : Parts(x)' \subseteq Reach(c)
        BY <1>2, <2>1 DEF Follows
    <2> QED
        BY <2>1, <2>2, ReachNext
<1>4. Acyclic(t)'
    <2> SUFFICES ASSUME NEW o \in Reach(t)', NEW c \in Parts(o)' PROVE o \notin Reach(c)'
        BY DEF Acyclic
    <2>1. o \in Reach(t) /\ c \in Parts(o)
        BY <1>1, <1>2, <1>3
    <2>2. c \in Reach(t) /\ o \notin Reach(c)
        BY <1>1, <2>1 DEF Follows, Acyclic
    <2> QED
        BY <1>3, <2>2
<1> QED
    BY <1>1, <1>2, <1>3, <1>4 DEF Finished, Sound

LEMMA TermIsAll ==
    TypesOK => \A o \in Sound :
        Term(o) = IF IsArray(o) THEN Array(Bounds(o), Term(heap[o].child[1])) ELSE Element(o)
BY TermIs

LEMMA TermIsNext ==
    (TypesOK => \A o \in Sound :
        Term(o) = IF IsArray(o) THEN Array(Bounds(o), Term(heap[o].child[1])) ELSE Element(o))'
BY TermIsAll, PTL

LEMMA FinishedTerm ==
    ASSUME TypesOK, TypesOK', Kept, NEW t \in Objects, Finished(t)
    PROVE  Term(t)' = Term(t)
<1> DEFINE Bad == {n \in Nat : \E o \in Objects : Finished(o) /\ Rank(o) = n /\ Term(o)' # Term(o)}
<1>1. Bad = {}
    <2> SUFFICES ASSUME Bad # {} PROVE FALSE
        OBVIOUS
    <2>1. PICK n \in Bad : \A m \in Bad : n <= m
        <3>1. Bad \subseteq Nat
            OBVIOUS
        <3> HIDE DEF Bad
        <3> QED
            BY <3>1, LeastNumber
    <2>2. PICK o \in Objects : Finished(o) /\ Rank(o) = n /\ Term(o)' # Term(o)
        BY <2>1
    <2>3. o \in Sound /\ o \in Sound'
        BY <2>2, FinishedKept DEF Finished, Sound
    <2>4. Bounds(o)' = Bounds(o) /\ heap'[o].base = heap[o].base
        BY DEF Kept
    <2>5. CASE IsArray(o)
        <3>1. PICK c : c = heap[o].child[1]
            OBVIOUS
        <3>2. IsArray(o)' /\ heap'[o].child[1] = c
            BY <2>5, <3>1 DEF Kept
        <3>3. c \in Parts(o) /\ c \in Sound /\ Rank(c) \in Nat /\ Rank(c) < Rank(o)
            BY <2>3, <2>5, <3>1, FirstPart
        <3>4. c \in Reach(o)
            BY <2>3, <3>3, SoundParts
        <3>5. c \in Objects /\ Finished(c)
            BY <2>2, <3>4, FinishedParts
        <3>6. Rank(c) \notin Bad
            <4>1. n \in Nat /\ Rank(c) < n
                BY <2>1, <2>2, <3>3
            <4> HIDE DEF Bad
            <4> QED
                BY <2>1, <3>3, <4>1
        <3>7. Term(c)' = Term(c)
            BY <3>3, <3>5, <3>6
        <3>8. Term(heap[o].child[1])' = Term(c)
            BY <3>2, <3>7
        <3>9. Term(o)' = Array(Bounds(o)', Term(heap[o].child[1])')
            BY <2>3, <3>2, TermIsNext DEF Array
        <3>10. Term(o) = Array(Bounds(o), Term(c))
            BY <2>3, <2>5, <3>1, TermIs
        <3> QED
            BY <2>2, <2>4, <3>8, <3>9, <3>10
    <2>6. CASE ~IsArray(o)
        <3>1. heap[o].base \in Base
            <4>1. o \in Reach(o)
                BY ReachIs
            <4> QED
                BY <2>2, <2>6, <4>1 DEF Finished
        <3>2. ~IsArray(o)' /\ Element(o)' = Element(o)
            BY <2>4, <3>1, BaseAssumption DEF IsArray, Element
        <3> QED
            BY <2>2, <2>3, <2>6, <3>2, TermIs, TermIsNext
    <2> QED
        BY <2>5, <2>6
<1>2. Rank(t) \in Nat
    BY RankDecreases DEF Finished, Sound
<1> QED
    BY <1>1, <1>2

(* A finished type never changes under the variables that have it.         *)
THEOREM FinishedTypesStay == TypesSpec => FinishedStays
<1>1. ASSUME TypesInv, [TypesNext]_typeVars
      PROVE  \A v \in declared : Finished(v.type) => Finished(v.type)' /\ Term(v.type)' = Term(v.type)
    <2>1. TypesOK /\ TypesOK' /\ Kept
        BY <1>1, TypesOKNext, KeptNext DEF TypesInv
    <2> SUFFICES ASSUME NEW v \in declared, Finished(v.type)
                 PROVE  Finished(v.type)' /\ Term(v.type)' = Term(v.type)
        OBVIOUS
    <2>2. v.type \in Objects
        BY <2>1, ClaimTypes DEF Claims
    <2> QED
        BY <2>1, <2>2, FinishedKept, FinishedTerm
<1>2. TypesInv /\ [TypesNext]_typeVars =>
          [\A v \in declared : Finished(v.type) => Finished(v.type)' /\ Term(v.type)' = Term(v.type)]_typeVars
    BY <1>1
<1> QED
    BY <1>2, TypesInvInit, TypesInvNext, PTL DEF TypesSpec, FinishedStays
================================================================================
