------------------------------ MODULE InternTable ------------------------------
(***************************************************************************)
(* The table of identifiers and literals: Conversion of src/lexer.l gives  *)
(* a text its index in PASCALiconTable, and the actions of the parser read *)
(* the text behind an index later.                                         *)
(*                                                                         *)
(* The table is modelled as the memory it is, because its limits are about *)
(* that memory: an entry is IdLen bytes for the text and one byte for the  *)
(* type, entries follow each other without a gap, and strcpy writes as far *)
(* as the text goes.  A text is a sequence of nonzero bytes.  A write that *)
(* leaves the table, or one of the two buffers on the stack, is undefined: *)
(* `fault' says which, and nothing is said of the process afterwards.      *)
(***************************************************************************)
EXTENDS Integers, Sequences, FiniteSets

CONSTANTS
    IdLen,          \* ID_LENTH, 50
    TableSize,      \* symbolTable_SIZE, 50
    LowerLen,       \* size of identifyOFLOWER, 100
    Identifiers,    \* texts the lexer takes for IDENTIFY,
    Reals,          \* for REALNUM,
    Characters,     \* the character between the quotes of CONSTOFcharacter,
    Strings         \* and what is between those of CONSTOFstring

Char == 32 .. 126

ASSUME SizeAssumption ==
    /\ IdLen \in Nat /\ IdLen >= 2
    /\ TableSize \in Nat
    /\ LowerLen \in Nat

ASSUME TextAssumption ==
    /\ Identifiers \cup Reals \cup Strings \subseteq Seq(Char)
    /\ Characters \subseteq Char

VARIABLES
    mem,        \* the bytes of PASCALiconTable
    curr,       \* PASCLsymboltableSIZECURR
    given,      \* the tokens that were given an index, with the index
    last,       \* the last token
    fault       \* what was overrun: none, STR, lower, table

vars == <<mem, curr, given, last, fault>>
--------------------------------------------------------------------------------
Token(t, type)  == [text |-> t, type |-> type]
Given(k, i)     == [token |-> k, index |-> i]

(* The second argument of Conversion. *)
Tokens ==
    {Token(t, 0) : t \in Identifiers} \cup {Token(t, 1) : t \in Reals}
      \cup {Token(<<c>>, 2) : c \in Characters} \cup {Token(t, 4) : t \in Strings}

EntryLen == IdLen + 1
Entry(i) == i * EntryLen
Bytes    == 0 .. TableSize * EntryLen - 1

(* The table has no initialiser, and static storage is zero. *)
Init ==
    /\ mem = [a \in Bytes |-> 0]
    /\ curr = 0
    /\ given = {}
    /\ last = Token(<< >>, 0)
    /\ fault = "none"

(* strcmp: entry i and t agree up to and with the byte that ends t.  No    *)
(* longer text is read than the table has: a text that fills its entry     *)
(* meets the type of that entry, which is no character.                    *)
Names(m, i, t) ==
    /\ Len(t) <= IdLen
    /\ \A k \in 1 .. Len(t) : m[Entry(i) + k - 1] = t[k]
    /\ m[Entry(i) + Len(t)] = 0

(* Mutant: the first entry is not looked at. *)
MatchesAfterFirst(t) == {i \in 1 .. curr - 1 : Names(mem, i, t)}

Matches(t) == {i \in 0 .. curr - 1 : Names(mem, i, t)}

(* Mutant: the text is copied without the byte that ends it. *)
StoredUnterminated(i, k) ==
    [a \in Bytes |->
        IF a = Entry(i) + IdLen THEN k.type
        ELSE IF a \in Entry(i) .. Entry(i) + Len(k.text) - 1
            THEN k.text[a - Entry(i) + 1]
        ELSE mem[a]]

(* strcpy of the text, then the assignment to the type. *)
Stored(i, k) ==
    [a \in Bytes |->
        IF a = Entry(i) + IdLen THEN k.type
        ELSE IF a = Entry(i) + Len(k.text) THEN 0
        ELSE IF a \in Entry(i) .. Entry(i) + Len(k.text) - 1
            THEN k.text[a - Entry(i) + 1]
        ELSE mem[a]]

(* strcpy copies the text with its closing quote into STR, before the      *)
(* quote is cut off.                                                       *)
OverrunsSTR(k)   == k.type = 4 /\ Len(k.text) + 2 > IdLen
OverrunsLower(k) == Len(k.text) >= LowerLen

(* Mutant: room for one entry more than there is. *)
OverrunsTableLate(k) == curr > TableSize

OverrunsTable(k) ==
    \/ curr >= TableSize
    \/ Entry(curr) + Len(k.text) >= TableSize * EntryLen

Overrun(k) ==
    /\ fault = "none"
    /\ \/ OverrunsSTR(k) /\ fault' = "STR"
       \/ ~OverrunsSTR(k) /\ OverrunsLower(k) /\ fault' = "lower"
       \/ /\ ~OverrunsSTR(k) /\ ~OverrunsLower(k)
          /\ Matches(k.text) = {} /\ OverrunsTable(k)
          /\ fault' = "table"
    /\ last' = k
    /\ UNCHANGED <<mem, curr, given>>

(* The loop looks at every entry and keeps the last that matches. *)
Found(k) ==
    /\ fault = "none"
    /\ ~OverrunsSTR(k) /\ ~OverrunsLower(k)
    /\ \E i \in Matches(k.text) :
        /\ \A j \in Matches(k.text) : j <= i
        /\ given' = given \cup {Given(k, i)}
    /\ last' = k
    /\ UNCHANGED <<mem, curr, fault>>

Insert(k) ==
    /\ fault = "none"
    /\ ~OverrunsSTR(k) /\ ~OverrunsLower(k)
    /\ Matches(k.text) = {} /\ ~OverrunsTable(k)
    /\ mem' = Stored(curr, k)
    /\ curr' = curr + 1
    /\ given' = given \cup {Given(k, curr)}
    /\ last' = k
    /\ UNCHANGED fault

Stopped == fault # "none" /\ UNCHANGED vars

Next == (\E k \in Tokens : Overrun(k) \/ Found(k) \/ Insert(k)) \/ Stopped

Spec == Init /\ [][Next]_vars
--------------------------------------------------------------------------------
(* Properties *)

Byte == 0 .. 126

(* The counter stays a number of entries, the indices that were given out  *)
(* are below it.                                                           *)
TypeOK ==
    /\ mem \in [Bytes -> Byte]
    /\ curr \in 0 .. TableSize
    /\ given \subseteq [token : Tokens, index : 0 .. curr - 1]
    /\ last \in [text : Seq(Char), type : {0, 1, 2, 4}]
    /\ fault \in {"none", "STR", "lower", "table"}

(* What an entry can hold.  An identifier may fill its entry: the type of  *)
(* an identifier is 0, which ends the text.                                *)
Fits(k) ==
    IF k.type = 4 THEN Len(k.text) + 2 <= IdLen
    ELSE Len(k.text) < IdLen \/ (Len(k.text) = IdLen /\ k.type = 0)

AllFit == \A g \in given : Fits(g.token)

(* As long as nothing is overrun, the parser finds under an index the text *)
(* that the index was given for, however much later it looks and whatever  *)
(* was put into the table in between: texts that do not fit, too, spill    *)
(* only where nothing is yet (lexer.l 155, and PASCALiconTable[$n].id in   *)
(* parser.y).                                                              *)
ReadBack ==
    \A g \in given : Fits(g.token) => Names(mem, g.index, g.token.text)

(* Texts that fit get one entry each, however often they occur, and no two *)
(* of them the same, though the search compares with every entry and keeps *)
(* the last that matches.  Without AllFit this fails: a longer text is a   *)
(* new entry at each occurrence, and hides an older one that it begins     *)
(* with.                                                                   *)
OneEntryEach ==
    AllFit =>
        /\ curr = Cardinality({g.token.text : g \in given})
        /\ \A g, h \in given :
               (g.token.text = h.token.text) <=> (g.index = h.index)
================================================================================
