--------------------------------- MODULE Driver --------------------------------
(***************************************************************************)
(* The files that a compilation leaves behind, and `make test'.            *)
(*                                                                         *)
(* src/main.cpp writes a.tree and a.bc into the working directory and ends *)
(* at the first phase that fails, mostly with exit status 0.  The loop of  *)
(* the Makefile runs it for each case, moves the two files to the          *)
(* directory of the case, and runs three LLVM tools on them; its commands  *)
(* are joined by `;', so that nothing stops the loop but an interrupt.     *)
(* Files outlive all of this: they are removed only by `make clean_test'.  *)
(*                                                                         *)
(* The content of a file is the source it was made from: a case, a version *)
(* of that case, and how far the tools get with that version.              *)
(*                                                                         *)
(* A source may be edited, and whatever runs interrupted, at any time.     *)
(* The commands (the compiler by hand, make test, make clean_test) are     *)
(* given one after the other, as in one shell.                             *)
(***************************************************************************)
EXTENDS Integers, Sequences

CONSTANTS
    Cases,          \* the sequence of test cases, in the order of the loop
    MaxVersion      \* bound: a case is edited so often

Case == {Cases[i] : i \in DOMAIN Cases}

ASSUME CasesAssumption ==
    /\ Cases \in Seq(Case)
    /\ \A i, j \in DOMAIN Cases : i # j => Cases[i] # Cases[j]

ASSUME VersionAssumption == MaxVersion \in Nat \ {0}

VARIABLES
    source,     \* case |-> its version, and how far the tools get with it
    cwd,        \* a.bc and a.tree
    dir,        \* case |-> the files in its directory
    at,         \* what is being done: by whom, on which input, which step
    fresh       \* auxiliary: clean_test ran, and since then only full tests

vars == <<source, cwd, dir, at, fresh>>

Position(c) == CHOOSE i \in DOMAIN Cases : Cases[i] = c

(* noparse: yyerror ends the process with exit(1).  nocode: the semantic   *)
(* checker rejects, codegen gives up with exit(0), or either crashes.      *)
(* noll: there is bitcode, but llvm-dis cannot read it.  noasm: llvm-dis   *)
(* reads it, but llc rejects the IR; nothing in the compiler verifies the  *)
(* module, and it is ill-typed for some sources (Typing).                  *)
Outcome == {"noparse", "nocode", "noll", "noasm", "ok"}

Compiled == {"noll", "noasm", "ok"}

(* A version of a case, as the compiler read it. *)
Input == [case : Case, version : 1 .. MaxVersion, outcome : Outcome]

NoFile     == [case |-> "none", version |-> 0, outcome |-> "none"]
Current(c) == [case |-> c, version |-> source[c].version, outcome |-> source[c].outcome]
File       == Input \cup {NoFile}

(* Whether llvm-dis, and llc behind it, can do their work. *)
Disassembles(f) == f.outcome \in {"noasm", "ok"}
Assembles(f)    == f.outcome = "ok"

NoFiles == [bc |-> NoFile, tree |-> NoFile, out |-> NoFile, ll |-> NoFile, s |-> NoFile]
--------------------------------------------------------------------------------
Idle        == [step |-> "idle"]
Doing(steps) == at.step \in steps
Step(step)  == [at EXCEPT !.step = step]
TestCase    == at.input.case

Init ==
    /\ source \in [Case -> [version : {1}, outcome : Outcome]]
    /\ cwd = [bc |-> NoFile, tree |-> NoFile]
    /\ dir = [c \in Case |-> NoFiles]
    /\ at = Idle
    /\ fresh = TRUE

(* The programmer changes a test case, also one that is being compiled. *)
Edit(c) ==
    /\ source[c].version < MaxVersion
    /\ \E o \in Outcome :
          source' = [source EXCEPT ![c] = [version |-> @.version + 1, outcome |-> o]]
    /\ fresh' = FALSE
    /\ UNCHANGED <<cwd, dir, at>>

(* make clean_test *)
Clean ==
    /\ Doing({"idle"})
    /\ cwd' = [bc |-> NoFile, tree |-> NoFile]
    /\ dir' = [c \in Case |-> NoFiles]
    /\ fresh' = TRUE
    /\ UNCHANGED <<source, at>>

(* ./PasGo test/c.pas *)
CompileAlone(c) ==
    /\ Doing({"idle"})
    /\ at' = [step |-> "parse", by |-> "user", input |-> Current(c)]
    /\ fresh' = FALSE
    /\ UNCHANGED <<source, cwd, dir>>

(* make test *)
StartTest ==
    /\ Doing({"idle"})
    /\ Cases # << >>
    /\ at' = [step |-> "parse", by |-> "test", input |-> Current(Cases[1])]
    /\ UNCHANGED <<source, cwd, dir, fresh>>
--------------------------------------------------------------------------------
(* main.cpp *)

Exited == IF at.by = "test" THEN Step("mvbc") ELSE Idle

(* Mutant: a tree that is there is not overwritten. *)
ParseKeepsTree ==
    /\ Doing({"parse"})
    /\ IF at.input.outcome = "noparse"
       THEN at' = Exited /\ UNCHANGED cwd
       ELSE /\ at' = Step("codegen")
            /\ cwd' = IF cwd.tree # NoFile THEN cwd ELSE [cwd EXCEPT !.tree = at.input]
    /\ UNCHANGED <<source, dir, fresh>>

(* doyyparse, then visualizeTree *)
Parse ==
    /\ Doing({"parse"})
    /\ IF at.input.outcome = "noparse"
       THEN at' = Exited /\ UNCHANGED cwd
       ELSE at' = Step("codegen") /\ cwd' = [cwd EXCEPT !.tree = at.input]
    /\ UNCHANGED <<source, dir, fresh>>

(* SEMANT_CHECK_LEGAL, then CODEGENER, which opens a.bc when it is done *)
Generate ==
    /\ Doing({"codegen"})
    /\ IF at.input.outcome \in Compiled
       THEN at' = Step("run") /\ cwd' = [cwd EXCEPT !.bc = at.input]
       ELSE at' = Exited /\ UNCHANGED cwd
    /\ UNCHANGED <<source, dir, fresh>>

(* runCode: the compiled program runs in the compiler and may never end,   *)
(* so that nothing but Interrupt gets out of this step.                    *)
RunCode ==
    /\ Doing({"run"})
    /\ at' = Exited
    /\ UNCHANGED <<source, cwd, dir, fresh>>
--------------------------------------------------------------------------------
(* The rest of the loop of `make test' *)

(* Mutant: cp instead of mv. *)
CpBc ==
    /\ Doing({"mvbc"})
    /\ dir' = IF cwd.bc = NoFile THEN dir ELSE [dir EXCEPT ![TestCase].bc = cwd.bc]
    /\ at' = Step("mvtree")
    /\ UNCHANGED <<source, cwd, fresh>>

(* mv: the file keeps its content; without a source the target stays. *)
MvBc ==
    /\ Doing({"mvbc"})
    /\ IF cwd.bc = NoFile THEN UNCHANGED <<cwd, dir>>
       ELSE /\ dir' = [dir EXCEPT ![TestCase].bc = cwd.bc]
            /\ cwd' = [cwd EXCEPT !.bc = NoFile]
    /\ at' = Step("mvtree")
    /\ UNCHANGED <<source, fresh>>

MvTree ==
    /\ Doing({"mvtree"})
    /\ IF cwd.tree = NoFile THEN UNCHANGED <<cwd, dir>>
       ELSE /\ dir' = [dir EXCEPT ![TestCase].tree = cwd.tree]
            /\ cwd' = [cwd EXCEPT !.tree = NoFile]
    /\ at' = Step("lli")
    /\ UNCHANGED <<source, fresh>>

(* The shell truncates the output file before lli starts. *)
Lli ==
    /\ Doing({"lli"})
    /\ dir' = [dir EXCEPT ![TestCase].out = dir[TestCase].bc]
    /\ at' = Step("dis")
    /\ UNCHANGED <<source, cwd, fresh>>

(* Mutant: the disassembly is not replaced when it is there. *)
DisOnce ==
    /\ Doing({"dis"})
    /\ dir' = IF dir[TestCase].ll # NoFile \/ ~Disassembles(dir[TestCase].bc) THEN dir
              ELSE [dir EXCEPT ![TestCase].ll = dir[TestCase].bc]
    /\ at' = Step("llc")
    /\ UNCHANGED <<source, cwd, fresh>>

(* llvm-dis opens its output when it has read the bitcode: without bitcode *)
(* that it can read, the disassembly of an earlier run stays.              *)
Dis ==
    /\ Doing({"dis"})
    /\ dir' = IF Disassembles(dir[TestCase].bc)
              THEN [dir EXCEPT ![TestCase].ll = dir[TestCase].bc]
              ELSE dir
    /\ at' = Step("llc")
    /\ UNCHANGED <<source, cwd, fresh>>

NextCase ==
    LET i == Position(TestCase) IN
    IF i = Len(Cases) THEN Idle
    ELSE [step |-> "parse", by |-> "test", input |-> Current(Cases[i + 1])]

(* llc rejects IR that it cannot parse before it opens its output, and the *)
(* assembly of an earlier run stays; it rejects IR that does not verify    *)
(* after that, and takes its output away.                                  *)
Llc ==
    /\ Doing({"llc"})
    /\ IF Assembles(dir[TestCase].ll)
       THEN dir' = [dir EXCEPT ![TestCase].s = dir[TestCase].ll]
       ELSE \E left \in {dir[TestCase].s, NoFile} : dir' = [dir EXCEPT ![TestCase].s = left]
    /\ at' = NextCase
    /\ UNCHANGED <<source, cwd, fresh>>

(* Ctrl-C, or a kill: whatever runs is gone, the files stay. *)
Interrupt ==
    /\ ~Doing({"idle"})
    /\ at' = Idle
    /\ fresh' = FALSE
    /\ UNCHANGED <<source, cwd, dir>>

Next ==
    \/ \E c \in Case : Edit(c) \/ CompileAlone(c)
    \/ Clean \/ StartTest \/ Interrupt
    \/ Parse \/ Generate \/ RunCode
    \/ MvBc \/ MvTree \/ Lli \/ Dis \/ Llc

Spec == Init /\ [][Next]_vars
--------------------------------------------------------------------------------
(* Properties *)

(* Files come from versions of cases; a step is one of main or of the loop. *)
TypeOK ==
    /\ source \in [Case -> [version : 1 .. MaxVersion, outcome : Outcome]]
    /\ cwd \in [bc : File, tree : File]
    /\ dir \in [Case -> [bc : File, tree : File, out : File, ll : File, s : File]]
    /\ at \in {Idle} \cup
              [step : {"parse", "codegen", "run"}, by : {"user", "test"}, input : Input] \cup
              [step : {"mvbc", "mvtree", "lli", "dis", "llc"}, by : {"test"}, input : Input]
    /\ fresh \in BOOLEAN

(* A test that starts on clean directories publishes nothing that is not   *)
(* of the case itself and of its present source, whichever of the cases    *)
(* before it failed to compile and at which phase (Makefile:74-85): each   *)
(* iteration takes its own a.bc and a.tree away before the next begins.    *)
CleanTestIsExact ==
    fresh => \A c \in Case : \A f \in {"bc", "tree", "out", "ll", "s"} :
                dir[c][f] \in {NoFile, Current(c)}

(* One file is not made from a later version than another of its case. *)
Lags(f, g) == f = NoFile \/ (g # NoFile /\ (f.case = g.case => f.version <= g.version))

(* When the loop leaves a case, the output in its directory is that of the *)
(* bitcode there, and so are the disassembly and the assembly as far as    *)
(* the tools can make them, also when the bitcode is an old one that this  *)
(* iteration did not replace.  What is left beside bitcode that a tool     *)
(* rejected is from an earlier run: no edit during a run, no interrupt and *)
(* no bitcode of another case makes it one of a later version              *)
(* (Makefile:80-84).                                                       *)
DerivedTogether ==
    [][Llc => LET d == dir'[TestCase] IN
              /\ d.out = d.bc
              /\ IF Disassembles(d.bc) THEN d.ll = d.bc ELSE Lags(d.ll, d.bc)
              /\ IF Assembles(d.bc) THEN d.s = d.bc ELSE Lags(d.s, d.bc)]_vars

(* a.bc never lies in the working directory without a tree, and that tree  *)
(* is of the same source or of a later compilation: main.cpp writes the    *)
(* tree first and the loop moves the bitcode away first.                   *)
TreeWithCode ==
    /\ TypeOK
    /\ cwd.bc # NoFile =>
           /\ cwd.tree # NoFile
           /\ cwd.tree.case = cwd.bc.case => cwd.tree.version >= cwd.bc.version
================================================================================
