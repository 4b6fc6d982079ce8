--------------------------------- MODULE Printer ---------------------------------
(***************************************************************************)
(* The file a.tree: what print_rec of src/treeprint.cpp writes for a tree. *)
(*                                                                         *)
(* Every node prints entries, each a bar for its layer, a label, what it   *)
(* says, and the parts under it one layer further in.  Two statements do   *)
(* not begin a line, a Body adds no layer, and types, goto and missing     *)
(* nodes print a text without a bar.  main prints before it checks: only   *)
(* constants have a returnType.  A Define prints its constants, types,     *)
(* variables and functions, and no word of its labels.                     *)
(*                                                                         *)
(* Case statements (no tree can be built) and records (fields print an     *)
(* unset type) are left out.                                               *)
(***************************************************************************)
EXTENDS Integers, Sequences, SequencesExt

CONSTANT Trees      \* the trees that are printed

VARIABLES
    tree,           \* the argument of visualizeTree
    file            \* the file, a sequence of pieces

vars == <<tree, file>>

None == [none |-> TRUE]
--------------------------------------------------------------------------------
(* Trees: `is' holds the names, operators, literals and labels of a node;  *)
(* the parts of a define are those of its five vectors, one after another. *)

Tree(kind, is, kids) == [kind |-> kind, is |-> is, kids |-> kids]
Name(n)              == [name |-> n]
Literal(base, val)   == [base |-> base, val |-> val]
ReturnType(t) ==
    IF t.kind = "const" THEN Tree("type", [base |-> t.is.base], << >>) ELSE Tree("null", None, << >>)

(* %.2f, of a real in thousandths. *)
Hundredths(r) == (r + 5) \div 10

(* Value: strings have no case of their own.  Integers, characters and     *)
(* truth values print as they are.                                         *)
Shown(l) ==
    CASE l.base = "real"   -> [real |-> Hundredths(l.val)]
      [] l.base = "string" -> [error |-> "There is something wrong. The type is unrecognized."]
      [] OTHER             -> [text |-> l.val]
--------------------------------------------------------------------------------
(* Entries *)

EntryOn(line, label, is, parts) == [line |-> line, label |-> label, is |-> is, parts |-> parts]
Says(label, is)    == EntryOn(TRUE, label, is, << >>)
Holds(label, part) == EntryOn(TRUE, label, None, <<part>>)

(* What does not start with a newline. *)
Continues(label, part) == EntryOn(FALSE, label, None, <<part>>)

(* The vectors of a Define in the order of the printer; labelDef is none.  *)
Sections ==
    <<[kind |-> "constdef", label |-> "const"], [kind |-> "typedef", label |-> "type"],
      [kind |-> "vardef", label |-> "var"], [kind |-> "func", label |-> "function"]>>

(* A parameter: its name, then its type and whether it is declared var. *)
Parameter(p) == <<Says("var_name", Name(p.is.name)),
                  EntryOn(TRUE, "arg_is_formal_parameter", [formal |-> p.is.formal], p.kids)>>

KidsOf(t, kind) == SelectSeq(t.kids, LAMBDA k : k.kind = kind)

SectionEntries(t, section) ==
    [i \in DOMAIN KidsOf(t, section.kind) |-> Holds(section.label, KidsOf(t, section.kind)[i])]

ExpressionEntries(t) ==
    LET kid(i) == t.kids[i] IN
    CASE t.kind = "binary" ->
             <<Says("bin_op", t.is), Holds("operand 1", kid(1)), Holds("operand 2", kid(2)),
               Holds("returnType", ReturnType(t))>>
      [] t.kind = "unary" ->
             <<Says("una_op", t.is), Holds("operand", kid(1)), Holds("returnType", ReturnType(t))>>
      [] t.kind = "callexp" ->
             <<Says("func_name", t.is), EntryOn(TRUE, "args", None, t.kids), Holds("returnType", ReturnType(t))>>
      [] t.kind = "const" ->
             <<Says("const_value", Shown(t.is)), Holds("returnType", ReturnType(t))>>
      [] t.kind = "variable" -> <<Says("var_name", t.is), Holds("returnType", ReturnType(t))>>

StatementEntries(t) ==
    LET kid(i) == t.kids[i] IN
    CASE t.kind = "assign"   -> <<Holds("left", kid(1)), Holds("right", kid(2))>>
      [] t.kind = "call"     -> <<Says("proc", t.is), EntryOn(TRUE, "args", None, t.kids)>>
      [] t.kind = "for" ->
             <<Says("iter", Name(t.is.iter)), Holds("start", kid(1)), Holds("end", kid(2)),
               Says("step", [step |-> t.is.step]), Holds("body", kid(3))>>
      [] t.kind = "if" ->
             <<Holds("condition", kid(1)), Holds("true_body", kid(2)), Holds("false_body", kid(3))>>
      [] t.kind = "repeat"   -> <<Continues("body", kid(1)), Holds("condition", kid(2))>>
      [] t.kind = "while"    -> <<Continues("condition", kid(1)), Holds("body", kid(2))>>
      [] OTHER -> ExpressionEntries(t)

Entries(t) ==
    LET kid(i) == t.kids[i] IN
    CASE t.kind = "program"  -> <<Says("Name", t.is), Holds("Define", kid(1)), Holds("Body", kid(2))>>
      [] t.kind = "define"   -> FlattenSeq([i \in DOMAIN Sections |-> SectionEntries(t, Sections[i])])
      [] t.kind = "constdef" -> <<Says("const_name", t.is), Holds("const_value", kid(1))>>
      [] t.kind = "typedef"  -> <<Says("type_name", t.is), Holds("structure", kid(1))>>
      [] t.kind = "vardef"   -> <<Says("var_name", t.is), Holds("structure", kid(1))>>
      [] t.kind = "func" ->
             <<Says("func_name", t.is), Says("args", None)>>
             \o FlattenSeq([i \in DOMAIN KidsOf(t, "param") |-> Parameter(KidsOf(t, "param")[i])])
             \o [i \in DOMAIN KidsOf(t, "type") |-> Holds("returnType", KidsOf(t, "type")[i])]
             \o <<Holds("defines", kid(Len(t.kids) - 1)), Holds("body", kid(Len(t.kids)))>>
      [] OTHER -> StatementEntries(t)
--------------------------------------------------------------------------------
(* Text *)

Piece(line, layer, label, is) == [line |-> line, layer |-> layer, label |-> label, is |-> is]
Inline(is)                    == <<[inline |-> is]>>

(* Types have no bars, and string types no text of their own. *)
RECURSIVE TypeText(_)
TypeText(t) ==
    IF t.is.base = "array"
    THEN Inline([from |-> t.is.lo, to |-> t.is.hi]) \o TypeText(t.kids[1])
    ELSE Inline(IF t.is.base = "string" THEN [error |-> "The type cannot be recognised."] ELSE [type |-> t.is.base])

(* Mutant: the body of a loop or function is taken for a Body. *)
InnerButBody(layer, label) == IF label = "body" THEN layer ELSE layer + 1

Inner(layer, label) == layer + 1

RECURSIVE Text(_, _)
Text(t, layer) ==
    LET entry(e) ==
            <<Piece(e.line, layer, e.label, e.is)>>
            \o FlattenSeq([i \in DOMAIN e.parts |-> Text(e.parts[i], Inner(layer, e.label))])
    IN  CASE t.kind = "null" -> Inline(None)
          [] t.kind = "goto" -> Inline([error |-> "The node is unrecognised."])
          [] t.kind = "type" -> TypeText(t)
          [] t.kind = "body" -> FlattenSeq([i \in DOMAIN t.kids |-> Text(t.kids[i], layer)])
          [] OTHER           -> FlattenSeq([i \in DOMAIN Entries(t) |-> entry(Entries(t)[i])])

Init ==
    /\ tree \in Trees
    /\ file = << >>

visualizeTree ==
    /\ file' = Text(tree, 0)
    /\ UNCHANGED tree

Next == visualizeTree

Spec == Init /\ [][Next]_vars
--------------------------------------------------------------------------------
(* Properties *)

(* What the file tells of a tree: not its label definitions, nor the texts *)
(* of strings, nor what is beyond the second decimal of a real.            *)
RECURSIVE Told(_)
Told(t) ==
    LET kids == SelectSeq(t.kids, LAMBDA k : k.kind # "labeldef") IN
    Tree(t.kind,
         IF t.kind = "const" THEN [base |-> t.is.base, shown |-> Shown(t.is)] ELSE t.is,
         [i \in DOMAIN kids |-> Told(kids[i])])

RECURSIVE HasGoto(_)
HasGoto(t) == t.kind = "goto" \/ \E i \in DOMAIN t.kids : HasGoto(t.kids[i])

Stories == {<<Text(t, 0), Told(t)>> : t \in {u \in Trees : ~HasGoto(u)}}

(* Two trees without goto and with the same file are the same tree but for *)
(* label definitions, texts of strings and further decimals: no two other  *)
(* nestings, orders or kinds of nodes print alike, though bodies add no    *)
(* layer and loops continue the line before them (treeprint.cpp:119, 302). *)
(* A goto has no bar: in or behind a loop, it prints alike.                *)
FileTellsTree ==
    file # << >> /\ ~HasGoto(tree) =>
        \A s \in Stories : Len(s[1]) = Len(file) /\ s[1] = file => s[2] = Told(tree)
================================================================================
