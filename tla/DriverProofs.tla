------------------------------ MODULE DriverProofs -----------------------------
(***************************************************************************)
(* What `make test' leaves behind, for any number of test cases and edits. *)
(***************************************************************************)
EXTENDS Driver, TLAPS

(* The bitcode in all directories, and what was made of it. *)
Made == {dir[c][f] : c \in Case, f \in {"bc", "ll", "s"}}

Older(x, y) == x # NoFile /\ x.case = y.case => x.version <= y.version

(* No file is newer than its source, and the order in which files are made *)
(* is that of the versions: a compilation reads a version that no file is  *)
(* newer than, and its bitcode is what every later file comes from.        *)
AgeInv ==
    /\ \A x \in Made \cup {cwd.bc} : x # NoFile => x.version <= source[x.case].version
    /\ at.step # "idle" => at.input.version <= source[TestCase].version
    /\ cwd.bc # NoFile => \A x \in Made : Older(x, cwd.bc)
    /\ at.step \in {"parse", "codegen"} => \A x \in Made \cup {cwd.bc} : Older(x, at.input)

(* TreeWithCode: the tree is written before the bitcode and moved after it. *)
TreeInv ==
    /\ cwd.bc # NoFile =>
           /\ cwd.tree # NoFile
           /\ cwd.tree.case = cwd.bc.case => cwd.tree.version >= cwd.bc.version
    /\ at.step = "codegen" => cwd.tree = at.input
    /\ at.step = "mvtree" => cwd.bc = NoFile

(* DerivedTogether: what is in the directory of the case when the loop     *)
(* comes to its last command, and nothing there is newer than its bitcode. *)
DeriveInv ==
    /\ \A c \in Case : Lags(dir[c].ll, dir[c].bc) /\ Lags(dir[c].s, dir[c].bc)
    /\ at.step \in {"dis", "llc"} => dir[TestCase].out = dir[TestCase].bc
    /\ at.step = "llc" /\ Disassembles(dir[TestCase].bc) =>
           dir[TestCase].ll = dir[TestCase].bc

(* CleanTestIsExact: the working directory is empty between the cases, and *)
(* holds nothing but files of the present case during one.                 *)
ExactInv ==
    /\ CleanTestIsExact
    /\ fresh =>
        /\ at.step \in {"idle", "parse", "lli", "dis", "llc"} =>
               cwd.bc = NoFile /\ cwd.tree = NoFile
        /\ at.step # "idle" =>
               /\ at.by = "test"
               /\ at.input = Current(TestCase)
               /\ cwd.bc \in {NoFile, Current(TestCase)}
               /\ cwd.tree \in {NoFile, Current(TestCase)}

DriverInv == TypeOK /\ AgeInv /\ TreeInv /\ DeriveInv /\ ExactInv
--------------------------------------------------------------------------------
(* Steps, files and directories *)

Running == [step : {"parse", "codegen", "run"}, by : {"user", "test"}, input : Input]
Looping == [step : {"mvbc", "mvtree", "lli", "dis", "llc"}, by : {"test"}, input : Input]

Directory == [bc : File, tree : File, out : File, ll : File, s : File]

LEMMA SourceType ==
    ASSUME TypeOK, NEW c \in Case
    PROVE  /\ source[c].version \in 1 .. MaxVersion /\ source[c].version \in Nat
           /\ Current(c) \in Input /\ Current(c).case = c /\ Current(c).version = source[c].version
           /\ Current(c) # NoFile
BY VersionAssumption DEF TypeOK, Current, Input, NoFile

LEMMA NoFileType == NoFile \in File
BY DEF File

LEMMA FileType ==
    ASSUME NEW f \in File, f # NoFile
    PROVE  f.case \in Case /\ f.version \in 1 .. MaxVersion /\ f.version \in Nat
BY VersionAssumption DEF File, Input

LEMMA InputType ==
    ASSUME NEW f \in Input
    PROVE  /\ f \in File /\ f # NoFile /\ f.case \in Case
           /\ f.version \in 1 .. MaxVersion /\ f.version \in Nat
BY VersionAssumption DEF File, Input, NoFile

LEMMA AtType ==
    ASSUME TypeOK
    PROVE  /\ at = Idle \/ at \in Running \/ at \in Looping
           /\ at.step = "idle" <=> at = Idle
           /\ at.step # "idle" =>
                  at.input \in Input /\ TestCase \in Case /\ at.by \in {"user", "test"}
           /\ at.step \in {"mvbc", "mvtree", "lli", "dis", "llc"} => at.by = "test"
BY DEF TypeOK, Running, Looping, Idle, TestCase, Input

LEMMA StepIs ==
    ASSUME TypeOK, at.step # "idle", NEW t
    PROVE  Step(t).step = t /\ Step(t).input = at.input /\ Step(t).by = at.by
BY AtType DEF Step, Running, Looping

LEMMA StepType ==
    ASSUME TypeOK, at.step # "idle",
           NEW t \in {"parse", "codegen", "run", "mvbc", "mvtree", "lli", "dis", "llc"}
    PROVE  /\ t \in {"parse", "codegen", "run"} => Step(t) \in Running
           /\ t \in {"mvbc", "mvtree", "lli", "dis", "llc"} /\ at.by = "test" => Step(t) \in Looping
BY AtType DEF Step, Running, Looping

LEMMA ExitedIs ==
    ASSUME TypeOK, at.step # "idle"
    PROVE  /\ Exited \in {Idle} \cup Looping
           /\ \/ Exited = Idle /\ at.by = "user"
              \/ Exited.step = "mvbc" /\ Exited.input = at.input /\ Exited.by = "test"
BY AtType, StepIs, StepType DEF Exited

LEMMA NextCaseIs ==
    ASSUME TypeOK, at.step # "idle"
    PROVE  /\ NextCase \in {Idle} \cup Running
           /\ NextCase.step \in {"idle", "parse"}
           /\ NextCase.step = "parse" =>
                  NextCase.by = "test" /\ NextCase.input = Current(NextCase.input.case)
<1>1. PICK p \in DOMAIN Cases : Cases[p] = TestCase
    BY AtType DEF Case
<1>2. Position(TestCase) \in DOMAIN Cases
    BY <1>1 DEF Position
<1>3. ASSUME Position(TestCase) # Len(Cases)
      PROVE  Cases[Position(TestCase) + 1] \in Case
    <2>1. Position(TestCase) + 1 \in DOMAIN Cases
        BY <1>2, <1>3, CasesAssumption
    <2> QED
        BY <2>1 DEF Case
<1>4. ASSUME NEW c \in Case
      PROVE  /\ [step |-> "parse", by |-> "test", input |-> Current(c)] \in Running
             /\ Current(Current(c).case) = Current(c)
    BY SourceType DEF Running
<1> QED
    BY <1>3, <1>4 DEF NextCase, Idle

(* One file of one directory changes. *)
Put(c, f, x) ==
    /\ dir'[c][f] = x
    /\ \A d \in Case : \A g \in {"bc", "tree", "out", "ll", "s"} :
           d # c \/ g # f => dir'[d][g] = dir[d][g]
    /\ dir' \in [Case -> Directory]

LEMMA PutFile ==
    ASSUME TypeOK, NEW c \in Case, NEW x \in File
    PROVE  /\ dir' = [dir EXCEPT ![c].bc = x] => Put(c, "bc", x)
           /\ dir' = [dir EXCEPT ![c].tree = x] => Put(c, "tree", x)
           /\ dir' = [dir EXCEPT ![c].out = x] => Put(c, "out", x)
           /\ dir' = [dir EXCEPT ![c].ll = x] => Put(c, "ll", x)
           /\ dir' = [dir EXCEPT ![c].s = x] => Put(c, "s", x)
<1>1. dir \in [Case -> Directory]
    BY DEF TypeOK, Directory
<1>2. CASE dir' = [dir EXCEPT ![c].bc = x]
    BY <1>1, <1>2 DEF Put, Directory
<1>3. CASE dir' = [dir EXCEPT ![c].tree = x]
    BY <1>1, <1>3 DEF Put, Directory
<1>4. CASE dir' = [dir EXCEPT ![c].out = x]
    BY <1>1, <1>4 DEF Put, Directory
<1>5. CASE dir' = [dir EXCEPT ![c].ll = x]
    BY <1>1, <1>5 DEF Put, Directory
<1>6. CASE dir' = [dir EXCEPT ![c].s = x]
    BY <1>1, <1>6 DEF Put, Directory
<1> QED
    BY <1>2, <1>3, <1>4, <1>5, <1>6
(* The five commands of the loop that write into a directory: which file,  *)
(* and what it becomes.                                                    *)
LEMMA LoopWrites ==
    ASSUME TypeOK
    PROVE  /\ MvBc => TestCase \in Case /\ (IF cwd.bc = NoFile THEN dir' = dir
                                           ELSE Put(TestCase, "bc", cwd.bc))
           /\ MvTree => TestCase \in Case /\ (IF cwd.tree = NoFile THEN dir' = dir
                                             ELSE Put(TestCase, "tree", cwd.tree))
           /\ Lli => TestCase \in Case /\ Put(TestCase, "out", dir[TestCase].bc)
           /\ Dis => TestCase \in Case /\ (IF Disassembles(dir[TestCase].bc)
                                          THEN Put(TestCase, "ll", dir[TestCase].bc)
                                          ELSE dir' = dir)
           /\ Llc => TestCase \in Case /\ (IF Assembles(dir[TestCase].ll)
                                          THEN Put(TestCase, "s", dir[TestCase].ll)
                                          ELSE \/ Put(TestCase, "s", dir[TestCase].s)
                                               \/ Put(TestCase, "s", NoFile))
<1>1. at.step # "idle" => TestCase \in Case
    BY AtType
<1>2. NoFile \in File /\ \A c \in Case : dir[c].bc \in File /\ dir[c].ll \in File /\ dir[c].s \in File
    BY NoFileType DEF TypeOK
<1>3. cwd.bc \in File /\ cwd.tree \in File
    BY DEF TypeOK
<1> QED
    BY <1>1, <1>2, <1>3, PutFile DEF MvBc, MvTree, Lli, Dis, Llc, Doing

LEMMA DirectoryType ==
    ASSUME NEW c, NEW f, NEW x, Put(c, f, x)
    PROVE  dir' \in [Case -> [bc : File, tree : File, out : File, ll : File, s : File]]
BY DEF Put, Directory
--------------------------------------------------------------------------------
(* Types *)

LEMMA TypeInit == Init => TypeOK
<1> SUFFICES ASSUME Init PROVE TypeOK
    OBVIOUS
<1>1. 1 \in 1 .. MaxVersion
    BY VersionAssumption
<1>2. source \in [Case -> [version : 1 .. MaxVersion, outcome : Outcome]]
    BY <1>1 DEF Init
<1> QED
    BY <1>2, NoFileType DEF Init, TypeOK, NoFiles

LEMMA TypeStep == TypeOK /\ [Next]_vars => TypeOK'
<1> SUFFICES ASSUME TypeOK, [Next]_vars PROVE TypeOK'
    OBVIOUS
<1> DEFINE A == {Idle} \cup Running \cup Looping
<1>1. TypeOK <=> /\ source \in [Case -> [version : 1 .. MaxVersion, outcome : Outcome]]
                 /\ cwd \in [bc : File, tree : File]
                 /\ dir \in [Case -> [bc : File, tree : File, out : File, ll : File, s : File]]
                 /\ at \in A
                 /\ fresh \in BOOLEAN
    BY DEF TypeOK, Running, Looping
<1>2. TypeOK' <=> /\ source' \in [Case -> [version : 1 .. MaxVersion, outcome : Outcome]]
                  /\ cwd' \in [bc : File, tree : File]
                  /\ dir' \in [Case -> [bc : File, tree : File, out : File, ll : File, s : File]]
                  /\ at' \in A
                  /\ fresh' \in BOOLEAN
    BY DEF TypeOK, Running, Looping
<1>3. ASSUME NEW c \in Case, Edit(c) PROVE TypeOK'
    <2>1. source[c].version + 1 \in 1 .. MaxVersion
        BY <1>3, SourceType, VersionAssumption DEF Edit
    <2>2. PICK o \in Outcome :
              source' = [source EXCEPT ![c] = [version |-> source[c].version + 1, outcome |-> o]]
        BY <1>3 DEF Edit
    <2>3. source' \in [Case -> [version : 1 .. MaxVersion, outcome : Outcome]]
        BY <1>1, <2>1, <2>2
    <2> HIDE DEF A
    <2> QED
        BY <1>1, <1>2, <1>3, <2>3 DEF Edit
<1>4. ASSUME NEW c \in Case, CompileAlone(c) PROVE TypeOK'
    <2>1. at' \in Running
        BY <1>4, SourceType DEF CompileAlone, Running
    <2> QED
        BY <1>1, <1>2, <1>4, <2>1 DEF CompileAlone
<1>5. CASE StartTest
    <2>1. Cases[1] \in Case
        BY <1>5, CasesAssumption DEF StartTest, Case
    <2>2. at' \in Running
        BY <1>5, <2>1, SourceType DEF StartTest, Running
    <2> QED
        BY <1>1, <1>2, <1>5, <2>2 DEF StartTest
<1>6. CASE Clean
    BY <1>1, <1>2, <1>6, NoFileType DEF Clean, NoFiles
<1>7. CASE Interrupt
    BY <1>1, <1>2, <1>7 DEF Interrupt
<1>8. CASE Parse \/ Generate \/ RunCode
    <2>1. at.step \in {"parse", "codegen", "run"}
        BY <1>8 DEF Parse, Generate, RunCode, Doing
    <2>2. at' \in A
        BY <1>8, <2>1, ExitedIs, StepType DEF Parse, Generate, RunCode
    <2>3. at.input \in File
        BY <2>1, AtType, InputType
    <2>4. cwd' \in [bc : File, tree : File]
        BY <1>1, <1>8, <2>3 DEF Parse, Generate, RunCode
    <2>5. source' = source /\ dir' = dir /\ fresh' = fresh
        BY <1>8 DEF Parse, Generate, RunCode
    <2> HIDE DEF A
    <2> QED
        BY <1>1, <1>2, <2>2, <2>4, <2>5
<1>9. CASE MvBc \/ MvTree \/ Lli \/ Dis \/ Llc
    <2>1. at.step \in {"mvbc", "mvtree", "lli", "dis", "llc"}
        BY <1>9 DEF MvBc, MvTree, Lli, Dis, Llc, Doing
    <2>2. at' \in A
        BY <1>9, <2>1, AtType, NextCaseIs, StepType DEF MvBc, MvTree, Lli, Dis, Llc
    <2>3. cwd' \in [bc : File, tree : File]
        BY <1>1, <1>9, NoFileType DEF MvBc, MvTree, Lli, Dis, Llc
    <2>4. dir' \in [Case -> [bc : File, tree : File, out : File, ll : File, s : File]]
        BY <1>1, <1>9, LoopWrites, DirectoryType
    <2>5. source' = source /\ fresh' = fresh
        BY <1>9 DEF MvBc, MvTree, Lli, Dis, Llc
    <2> HIDE DEF A
    <2> QED
        BY <1>1, <1>2, <2>2, <2>3, <2>4, <2>5
<1>10. CASE UNCHANGED vars
    BY <1>1, <1>2, <1>10 DEF vars
<1> QED
    BY <1>3, <1>4, <1>5, <1>6, <1>7, <1>8, <1>9, <1>10 DEF Next
--------------------------------------------------------------------------------
(* The order in which files are made *)

(* No step makes bitcode, a disassembly or an assembly of a version that   *)
(* is not there already, except where the bitcode comes in.                *)
LEMMA MadeFrom ==
    ASSUME TypeOK, [Next]_vars
    PROVE  \A x \in Made' : x \in Made \/ x = NoFile \/ (MvBc /\ x = cwd.bc)
<1> SUFFICES ASSUME NEW c \in Case, NEW f \in {"bc", "ll", "s"}
             PROVE  \/ dir'[c][f] \in Made
                    \/ dir'[c][f] = NoFile
                    \/ MvBc /\ dir'[c][f] = cwd.bc
    BY DEF Made
<1>1. \A d \in Case : \A g \in {"bc", "ll", "s"} : dir[d][g] \in Made
    BY DEF Made
<1>2. CASE Clean
    BY <1>2 DEF Clean, NoFiles
<1>3. CASE \/ \E d \in Case : Edit(d) \/ CompileAlone(d)
           \/ StartTest \/ Interrupt \/ Parse \/ Generate \/ RunCode \/ UNCHANGED vars
    <2>1. dir' = dir
        BY <1>3 DEF Edit, CompileAlone, StartTest, Interrupt, Parse, Generate, RunCode, vars
    <2> QED
        BY <1>1, <2>1
<1>4. CASE MvBc
    BY <1>1, <1>4, LoopWrites DEF Put
<1>5. CASE MvTree \/ Lli
    <2>1. dir'[c][f] = dir[c][f]
        BY <1>5, LoopWrites DEF Put
    <2> QED
        BY <1>1, <2>1
<1>6. CASE Dis
    BY <1>1, <1>6, LoopWrites DEF Put
<1>7. CASE Llc
    BY <1>1, <1>7, LoopWrites DEF Put
<1> QED
    BY <1>2, <1>3, <1>4, <1>5, <1>6, <1>7 DEF Next

(* What a step does to the bitcode in the working directory and to what is *)
(* being compiled, for all but Edit, Clean and MvBc.                       *)
Begins ==
    /\ cwd'.bc = cwd.bc
    /\ at'.step # "idle" => at'.input \in Input /\ at'.input = Current(at'.input.case)

Continues ==
    /\ cwd'.bc = cwd.bc
    /\ at'.step # "idle" => at'.input = at.input /\ at.step # "idle"
    /\ at'.step \in {"parse", "codegen"} => at.step \in {"parse", "codegen"}

MakesCode ==
    /\ at.step = "codegen" /\ at'.step \notin {"parse", "codegen", "idle"}
    /\ cwd'.bc = at.input /\ at'.input = at.input

LEMMA CompilerStep ==
    ASSUME TypeOK, TypeOK'
    PROVE  /\ (\E c \in Case : CompileAlone(c)) \/ StartTest \/ Llc => Begins
           /\ Parse \/ RunCode \/ MvTree \/ Lli \/ Dis \/ Interrupt \/ UNCHANGED vars => Continues
           /\ Generate => MakesCode \/ Continues
<1>1. ASSUME NEW c \in Case, CompileAlone(c) PROVE Begins
    BY <1>1, SourceType DEF CompileAlone, Begins
<1>2. ASSUME StartTest PROVE Begins
    <2>1. Cases[1] \in Case
        BY <1>2, CasesAssumption DEF StartTest, Case
    <2> QED
        BY <1>2, <2>1, SourceType DEF StartTest, Begins
<1>3. ASSUME Llc PROVE Begins
    <2>1. at' = NextCase /\ cwd' = cwd /\ source' = source /\ at.step = "llc"
        BY <1>3 DEF Llc, Doing
    <2>2. NextCase \in {Idle} \cup Running /\ NextCase.step \in {"idle", "parse"}
          /\ (NextCase.step = "parse" => NextCase.input = Current(NextCase.input.case))
        BY <2>1, NextCaseIs
    <2> QED
        BY <2>1, <2>2 DEF Begins, Running, Idle
<1>4. ASSUME Parse \/ RunCode \/ MvTree \/ Lli \/ Dis PROVE Continues
    <2>1. at.step \in {"parse", "run", "mvtree", "lli", "dis"}
        BY <1>4 DEF Parse, RunCode, MvTree, Lli, Dis, Doing
    <2>2. cwd'.bc = cwd.bc
        BY <1>4 DEF Parse, RunCode, MvTree, Lli, Dis, TypeOK
    <2>3. at' = Exited \/ (at' = Step("codegen") /\ at.step = "parse") \/ at' \in {Step("lli"), Step("dis"), Step("llc")}
        BY <1>4 DEF Parse, RunCode, MvTree, Lli, Dis, Doing
    <2>4. Exited = Idle \/ (Exited.step = "mvbc" /\ Exited.input = at.input)
        BY <2>1, ExitedIs
    <2>5. \A t \in {"codegen", "lli", "dis", "llc"} : Step(t).step = t /\ Step(t).input = at.input
        BY <2>1, StepIs
    <2> QED
        BY <2>1, <2>2, <2>3, <2>4, <2>5 DEF Continues, Idle
<1>5. ASSUME Interrupt \/ UNCHANGED vars PROVE Continues
    BY <1>5 DEF Interrupt, vars, Continues, Idle
<1>6. ASSUME Generate PROVE MakesCode \/ Continues
    <2>1. at.step = "codegen"
        BY <1>6 DEF Generate, Doing
    <2>2. Exited = Idle \/ (Exited.step = "mvbc" /\ Exited.input = at.input)
        BY <2>1, ExitedIs
    <2>3. Step("run").step = "run" /\ Step("run").input = at.input
        BY <2>1, StepIs
    <2>4. \/ at' = Step("run") /\ cwd'.bc = at.input
          \/ at' = Exited /\ cwd'.bc = cwd.bc
        BY <1>6 DEF Generate, TypeOK
    <2> QED
        BY <2>1, <2>2, <2>3, <2>4 DEF Continues, MakesCode, Idle
<1> QED
    BY <1>1, <1>2, <1>3, <1>4, <1>5, <1>6

LEMMA AgeKept ==
    ASSUME DriverInv, TypeOK', [Next]_vars
    PROVE  AgeInv'
<1> USE DEF DriverInv
<1>1. Made \subseteq File /\ Made' \subseteq File /\ cwd.bc \in File /\ cwd'.bc \in File
    BY DEF TypeOK, Made
<1>2. \A c \in Case : source[c].version \in Nat /\ source'[c].version \in Nat
    <2>1. \A c \in Case : source[c].version \in Nat
        BY SourceType
    <2>2. \A c \in Case : source'[c].version \in 1 .. MaxVersion
        BY DEF TypeOK
    <2> QED
        BY <2>1, <2>2, VersionAssumption
<1>3. at.step # "idle" => at.input \in Input /\ TestCase = at.input.case
    BY AtType DEF TestCase
<1>4. ASSUME NEW c \in Case, Edit(c) PROVE AgeInv'
    <2>1. Made' = Made /\ cwd' = cwd /\ at' = at /\ TestCase' = TestCase
        BY <1>4 DEF Edit, Made, TestCase
    <2>2. \A d \in Case : source'[d].version >= source[d].version
        BY <1>2, <1>4 DEF Edit, TypeOK
    <2>3. \A x \in Made \cup {cwd.bc} : x # NoFile => x.version <= source'[x.case].version
        <3> SUFFICES ASSUME NEW x \in Made \cup {cwd.bc}, x # NoFile
                     PROVE  x.version <= source'[x.case].version
            OBVIOUS
        <3>1. x.case \in Case /\ x.version \in Nat
            BY <1>1, FileType
        <3>2. x.version <= source[x.case].version
            BY DEF AgeInv
        <3> QED
            BY <1>2, <2>2, <3>1, <3>2
    <2>4. at.step # "idle" => at.input.version <= source'[TestCase].version
        <3> SUFFICES ASSUME at.step # "idle" PROVE at.input.version <= source'[TestCase].version
            OBVIOUS
        <3>1. TestCase \in Case /\ at.input.version \in Nat
            BY <1>3, AtType, InputType
        <3> QED
            BY <1>2, <2>2, <3>1 DEF AgeInv
    <2> QED
        BY <2>1, <2>3, <2>4 DEF AgeInv
<1>5. CASE Clean
    <2>1. \A x \in Made' : x = NoFile
        BY <1>5 DEF Clean, Made, NoFiles
    <2>2. cwd'.bc = NoFile /\ at'.step = "idle"
        BY <1>5 DEF Clean, Doing
    <2> QED
        BY <2>1, <2>2 DEF AgeInv
<1>6. CASE MvBc
    <2>1. /\ at.step = "mvbc" /\ at'.step = "mvtree" /\ at'.input = at.input
          /\ cwd'.bc = NoFile /\ source' = source /\ TestCase' = TestCase
        BY <1>6, StepIs DEF MvBc, Doing, TypeOK, TestCase
    <2>2. \A x \in Made' : x \in Made \cup {cwd.bc} \/ x = NoFile
        BY MadeFrom
    <2> QED
        BY <2>1, <2>2 DEF AgeInv
<1>7. ASSUME ~MvBc, source' = source PROVE \A x \in Made' : x \in Made \/ x = NoFile
    BY <1>7, MadeFrom
<1>8. ASSUME ~MvBc, source' = source, Begins PROVE AgeInv'
    <2>1. \A x \in Made' \cup {cwd'.bc} : x \in Made \cup {cwd.bc} \/ x = NoFile
        BY <1>7, <1>8 DEF Begins
    <2>2. \A x \in Made' \cup {cwd'.bc} : x # NoFile => x.version <= source'[x.case].version
        BY <1>8, <2>1 DEF AgeInv
    <2>3. ASSUME at'.step # "idle"
          PROVE  at'.input.version = source'[at'.input.case].version
                 /\ at'.input.version \in Nat
        BY <1>8, <2>3, InputType DEF Begins, Current
    <2>4. cwd'.bc # NoFile => \A x \in Made' : Older(x, cwd'.bc)
        BY <1>7, <1>8 DEF Begins, AgeInv, Older
    <2>5. at'.step # "idle" => \A x \in Made' \cup {cwd'.bc} : Older(x, at'.input)
        BY <2>2, <2>3 DEF Older
    <2>6. TestCase' = at'.input.case
        BY DEF TestCase
    <2>7. at'.step # "idle" => at'.input.version <= source'[at'.input.case].version
        BY <2>3
    <2> QED
        BY <2>2, <2>4, <2>5, <2>6, <2>7 DEF AgeInv
<1>9. ASSUME ~MvBc, source' = source, Continues PROVE AgeInv'
    <2>1. \A x \in Made' \cup {cwd'.bc} : x \in Made \cup {cwd.bc} \/ x = NoFile
        BY <1>7, <1>9 DEF Continues
    <2>2. at'.step # "idle" => at'.input.version <= source'[TestCase'].version
        BY <1>9 DEF AgeInv, Continues, TestCase
    <2>3. at'.step \in {"parse", "codegen"} => \A x \in Made' \cup {cwd'.bc} : Older(x, at'.input)
        BY <1>9, <2>1 DEF AgeInv, Continues, Older
    <2>4. cwd'.bc # NoFile => \A x \in Made' : Older(x, cwd'.bc)
        BY <1>7, <1>9 DEF AgeInv, Continues, Older
    <2>5. \A x \in Made' \cup {cwd'.bc} : x # NoFile => x.version <= source'[x.case].version
        BY <1>9, <2>1 DEF AgeInv
    <2> QED
        BY <2>2, <2>3, <2>4, <2>5 DEF AgeInv
<1>10. ASSUME ~MvBc, source' = source, MakesCode PROVE AgeInv'
    <2>1. at.step = "codegen" /\ at.input \in Input /\ cwd'.bc = at.input /\ at'.input = at.input
        BY <1>3, <1>10 DEF MakesCode
    <2>2. at'.step \notin {"parse", "codegen"} /\ TestCase' = TestCase
        BY <1>10 DEF MakesCode, TestCase
    <2>3. \A x \in Made' : Older(x, cwd'.bc)
        BY <1>7, <1>10, <2>1 DEF AgeInv, Older
    <2>4. at.input.version <= source'[TestCase].version
        BY <1>10, <2>1 DEF AgeInv
    <2>5. \A x \in Made' \cup {cwd'.bc} : x # NoFile => x.version <= source'[x.case].version
        BY <1>3, <1>7, <1>10, <2>1, <2>4 DEF AgeInv
    <2> QED
        BY <2>1, <2>2, <2>3, <2>4, <2>5 DEF AgeInv
<1>11. ASSUME ~MvBc, ~Clean, ~\E c \in Case : Edit(c)
       PROVE  source' = source /\ (Begins \/ Continues \/ MakesCode)
    <2>1. source' = source
        BY <1>11 DEF Next, CompileAlone, StartTest, Interrupt, Parse, Generate, RunCode,
                     MvTree, Lli, Dis, Llc, vars
    <2> QED
        BY <1>11, <2>1, CompilerStep DEF Next
<1> QED
    BY <1>4, <1>5, <1>6, <1>8, <1>9, <1>10, <1>11

(* The tree and the bitcode in the working directory *)

LEMMA TreeKept ==
    ASSUME DriverInv, TypeOK', [Next]_vars
    PROVE  TreeInv'
<1> USE DEF DriverInv
<1>1. CASE \/ \E c \in Case : Edit(c) \/ CompileAlone(c)
           \/ StartTest \/ Interrupt \/ RunCode \/ Lli \/ Dis \/ Llc \/ UNCHANGED vars
    <2>1. cwd' = cwd
        BY <1>1 DEF Edit, CompileAlone, StartTest, Interrupt, RunCode, Lli, Dis, Llc, vars
    <2>2. at'.step \notin {"codegen", "mvtree"} \/ at' = at
        BY <1>1, ExitedIs, NextCaseIs, StepIs
           DEF Edit, CompileAlone, StartTest, Interrupt, RunCode, Lli, Dis, Llc, vars, Idle, Doing
    <2> QED
        BY <2>1, <2>2 DEF TreeInv
<1>2. CASE Clean
    BY <1>2 DEF TreeInv, Clean, Doing
<1>3. CASE Parse
    <2>1. at.step = "parse" /\ at.input \in Input /\ TestCase = at.input.case
        BY <1>3, AtType DEF Parse, Doing, TestCase
    <2>2. CASE at.input.outcome = "noparse"
        <3>1. cwd' = cwd /\ at'.step \notin {"codegen", "mvtree"}
            BY <1>3, <2>1, <2>2, ExitedIs DEF Parse, Idle
        <3> QED
            BY <3>1 DEF TreeInv
    <2>3. CASE at.input.outcome # "noparse"
        <3>1. /\ cwd'.bc = cwd.bc /\ cwd'.tree = at.input
              /\ at'.step = "codegen" /\ at'.input = at.input
            BY <1>3, <2>1, <2>3, StepIs DEF Parse, TypeOK
        <3>2. cwd.bc # NoFile /\ at.input.case = cwd.bc.case => at.input.version >= cwd.bc.version
            <4>1. Older(cwd.bc, at.input) /\ cwd.bc \in File
                BY <2>1 DEF AgeInv, TypeOK
            <4> QED
                BY <2>1, <4>1, FileType, InputType DEF Older
        <3> QED
            BY <2>1, <3>1, <3>2, InputType DEF TreeInv
    <2> QED
        BY <2>2, <2>3
<1>4. CASE Generate
    <2>1. at.step = "codegen" /\ at.input \in Input
        BY <1>4, AtType DEF Generate, Doing
    <2>2. CASE at.input.outcome \in Compiled
        <3>1. cwd'.tree = cwd.tree /\ cwd'.bc = at.input /\ at'.step = "run"
            BY <1>4, <2>1, <2>2, StepIs DEF Generate, TypeOK
        <3>2. cwd.tree = at.input
            BY <2>1 DEF TreeInv
        <3> QED
            BY <2>1, <3>1, <3>2, InputType DEF TreeInv
    <2>3. CASE at.input.outcome \notin Compiled
        <3>1. cwd' = cwd /\ at'.step \notin {"codegen", "mvtree"}
            BY <1>4, <2>1, <2>3, ExitedIs DEF Generate, Idle
        <3> QED
            BY <3>1 DEF TreeInv
    <2> QED
        BY <2>2, <2>3
<1>5. CASE MvBc
    <2>1. cwd'.bc = NoFile /\ at'.step = "mvtree"
        BY <1>5, StepIs DEF MvBc, Doing, TypeOK
    <2> QED
        BY <2>1 DEF TreeInv
<1>6. CASE MvTree
    <2>1. at.step = "mvtree" /\ cwd'.bc = cwd.bc /\ at'.step = "lli"
        BY <1>6, StepIs DEF MvTree, Doing, TypeOK
    <2> QED
        BY <2>1 DEF TreeInv
<1> QED
    BY <1>1, <1>2, <1>3, <1>4, <1>5, <1>6 DEF Next

(* What the loop derives from the bitcode *)

LEMMA DeriveKept ==
    ASSUME DriverInv, TypeOK', [Next]_vars
    PROVE  DeriveInv'
<1> USE DEF DriverInv
<1>1. CASE \/ \E c \in Case : Edit(c) \/ CompileAlone(c)
           \/ StartTest \/ Interrupt \/ Parse \/ Generate \/ RunCode \/ UNCHANGED vars
    <2>1. dir' = dir
        BY <1>1 DEF Edit, CompileAlone, StartTest, Interrupt, Parse, Generate, RunCode, vars
    <2>2. at' = at \/ at'.step \notin {"dis", "llc"}
        BY <1>1, ExitedIs, StepIs
           DEF Edit, CompileAlone, StartTest, Interrupt, Parse, Generate, RunCode, vars, Idle, Doing
    <2> QED
        BY <2>1, <2>2 DEF DeriveInv, TestCase
<1>2. CASE Clean
    BY <1>2 DEF DeriveInv, Clean, NoFiles, Doing, Lags
<1>3. CASE MvBc
    <2>1. at.step = "mvbc" /\ at'.step = "mvtree" /\ TestCase \in Case
        BY <1>3, StepIs, AtType DEF MvBc, Doing
    <2>2. CASE cwd.bc = NoFile
        <3>1. dir' = dir
            BY <1>3, <2>2, LoopWrites
        <3> QED
            BY <2>1, <3>1 DEF DeriveInv
    <2>3. CASE cwd.bc # NoFile
        <3>1. Put(TestCase, "bc", cwd.bc)
            BY <1>3, <2>3, LoopWrites
        <3>2. Older(dir[TestCase].ll, cwd.bc) /\ Older(dir[TestCase].s, cwd.bc)
            <4>1. dir[TestCase].ll \in Made /\ dir[TestCase].s \in Made
                BY <2>1 DEF Made
            <4> QED
                BY <2>3, <4>1 DEF AgeInv
        <3>3. Lags(dir[TestCase].ll, cwd.bc) /\ Lags(dir[TestCase].s, cwd.bc)
            BY <2>3, <3>2 DEF Older, Lags
        <3> QED
            BY <2>1, <3>1, <3>3 DEF DeriveInv, Put
    <2> QED
        BY <2>2, <2>3
<1>4. CASE MvTree
    <2>1. at'.step = "lli"
        BY <1>4, StepIs DEF MvTree, Doing
    <2>2. \A c \in Case : \A f \in {"bc", "ll", "s"} : dir'[c][f] = dir[c][f]
        BY <1>4, LoopWrites DEF Put
    <2> QED
        BY <2>1, <2>2 DEF DeriveInv
<1>5. CASE Lli
    <2>1. at'.step = "dis" /\ TestCase' = TestCase /\ TestCase \in Case
        BY <1>5, StepIs, AtType DEF Lli, Doing, TestCase
    <2>2. Put(TestCase, "out", dir[TestCase].bc)
        BY <1>5, LoopWrites
    <2> QED
        BY <2>1, <2>2 DEF DeriveInv, Put
<1>6. CASE Dis
    <2>1. at.step = "dis" /\ at'.step = "llc" /\ TestCase' = TestCase /\ TestCase \in Case
        BY <1>6, StepIs, AtType DEF Dis, Doing, TestCase
    <2>2. CASE ~Disassembles(dir[TestCase].bc)
        <3>1. dir' = dir
            BY <1>6, <2>2, LoopWrites
        <3> QED
            BY <2>1, <2>2, <3>1 DEF DeriveInv
    <2>3. CASE Disassembles(dir[TestCase].bc)
        <3>1. Put(TestCase, "ll", dir[TestCase].bc)
            BY <1>6, <2>3, LoopWrites
        <3>2. Lags(dir[TestCase].bc, dir[TestCase].bc)
            <4>1. dir[TestCase].bc \in File
                BY <2>1 DEF TypeOK
            <4> QED
                BY <4>1, FileType DEF Lags
        <3> QED
            BY <2>1, <3>1, <3>2 DEF DeriveInv, Put
    <2> QED
        BY <2>2, <2>3
<1>7. CASE Llc
    <2>1. at.step = "llc" /\ at'.step \notin {"dis", "llc"} /\ TestCase \in Case
        BY <1>7, NextCaseIs, AtType DEF Llc, Doing
    <2>2. PICK x \in {dir[TestCase].ll, dir[TestCase].s, NoFile} : Put(TestCase, "s", x)
        BY <1>7, LoopWrites
    <2>3. Lags(x, dir[TestCase].bc)
        BY <2>1 DEF DeriveInv, Lags
    <2> QED
        BY <2>1, <2>2, <2>3 DEF DeriveInv, Put
<1> QED
    BY <1>1, <1>2, <1>3, <1>4, <1>5, <1>6, <1>7 DEF Next

(* The files of a test that began on clean directories *)

Files == {"bc", "tree", "out", "ll", "s"}

LEMMA ExactKept ==
    ASSUME DriverInv, TypeOK', [Next]_vars
    PROVE  ExactInv'
<1> USE DEF DriverInv
<1>1. ASSUME fresh, \A c \in Case : Current(c)' = Current(c),
             \A c \in Case : \A f \in Files : dir'[c][f] \in {dir[c][f], NoFile, Current(c)}
      PROVE  CleanTestIsExact'
    BY <1>1 DEF ExactInv, CleanTestIsExact, Files
<1>2. CASE \/ \E c \in Case : Edit(c) \/ CompileAlone(c)
           \/ Interrupt
    BY <1>2 DEF Edit, CompileAlone, Interrupt, ExactInv, CleanTestIsExact
<1>3. CASE Clean
    BY <1>3 DEF Clean, ExactInv, CleanTestIsExact, NoFiles, Doing
<1>4. ASSUME StartTest \/ Parse \/ Generate \/ RunCode \/ MvBc \/ MvTree \/ Lli \/ Dis \/ Llc
             \/ UNCHANGED vars
      PROVE  source' = source /\ fresh' = fresh /\ \A c : Current(c)' = Current(c)
    BY <1>4 DEF StartTest, Parse, Generate, RunCode, MvBc, MvTree, Lli, Dis, Llc, vars, Current
<1>5. ASSUME ~fresh, ~fresh' PROVE ExactInv'
    BY <1>5 DEF ExactInv, CleanTestIsExact
<1>6. CASE UNCHANGED vars
    BY <1>6 DEF vars, ExactInv, CleanTestIsExact, Current, TestCase
<1>7. ASSUME fresh, StartTest PROVE ExactInv'
    <2>1. at.step = "idle" /\ at'.step = "parse" /\ at'.by = "test" /\ dir' = dir /\ cwd' = cwd
        BY <1>7 DEF StartTest, Doing
    <2>2. at'.input = Current(TestCase')
        BY <1>7, CompilerStep, <2>1 DEF Begins, TestCase
    <2>3. CleanTestIsExact'
        BY <1>1, <1>4, <1>7, <2>1
    <2> QED
        BY <1>4, <1>7, <2>1, <2>2, <2>3 DEF ExactInv
<1>8. ASSUME fresh, Parse \/ Generate \/ RunCode PROVE ExactInv'
    <2>1. at.step \in {"parse", "codegen", "run"} /\ at.by = "test" /\ at.input = Current(TestCase)
        BY <1>8 DEF Parse, Generate, RunCode, Doing, ExactInv
    <2>2. dir' = dir /\ at'.input = at.input /\ at'.by = "test"
          /\ at'.step \in {"codegen", "run", "mvbc"}
        <3>1. Exited.step = "mvbc" /\ Exited.input = at.input /\ Exited.by = "test"
            BY <2>1, ExitedIs
        <3>2. \A t \in {"codegen", "run"} :
                  Step(t).step = t /\ Step(t).input = at.input /\ Step(t).by = "test"
            BY <2>1, StepIs
        <3>3. dir' = dir /\ at' \in {Exited, Step("codegen"), Step("run")}
            BY <1>8 DEF Parse, Generate, RunCode
        <3> QED
            BY <3>1, <3>2, <3>3
    <2>3. TestCase' = TestCase /\ at'.input = Current(TestCase)
        BY <2>1, <2>2 DEF TestCase
    <2>4. /\ cwd'.bc \in {cwd.bc, Current(TestCase)}
          /\ cwd'.tree \in {cwd.tree, Current(TestCase)}
        BY <1>8, <2>1 DEF Parse, Generate, RunCode, TypeOK
    <2>5. CleanTestIsExact'
        BY <1>1, <1>4, <1>8, <2>2
    <2> QED
        BY <1>4, <1>8, <2>1, <2>2, <2>3, <2>4, <2>5 DEF ExactInv
<1>9. ASSUME fresh, MvBc PROVE ExactInv'
    <2>1. at.step = "mvbc" /\ at.by = "test" /\ TestCase \in Case
          /\ at'.step = "mvtree" /\ at'.by = "test" /\ at'.input = at.input
        BY <1>9, AtType, StepIs DEF MvBc, Doing
    <2>2. cwd'.bc = NoFile /\ cwd'.tree = cwd.tree
        BY <1>9 DEF MvBc, TypeOK
    <2>3. \A c \in Case : \A f \in Files : dir'[c][f] \in {dir[c][f], NoFile, Current(c)}
        BY <1>9, <2>1, LoopWrites DEF Put, Files, ExactInv
    <2>4. CleanTestIsExact'
        BY <1>1, <1>4, <1>9, <2>3
    <2> QED
        BY <1>4, <1>9, <2>1, <2>2, <2>4 DEF ExactInv, TestCase
<1>10. ASSUME fresh, MvTree PROVE ExactInv'
    <2>1. at.step = "mvtree" /\ at.by = "test" /\ TestCase \in Case
          /\ at'.step = "lli" /\ at'.by = "test" /\ at'.input = at.input
        BY <1>10, AtType, StepIs DEF MvTree, Doing
    <2>2. cwd'.bc = NoFile /\ cwd'.tree = NoFile
        BY <1>10, <2>1 DEF MvTree, TypeOK, TreeInv
    <2>3. \A c \in Case : \A f \in Files : dir'[c][f] \in {dir[c][f], NoFile, Current(c)}
        BY <1>10, <2>1, LoopWrites DEF Put, Files, ExactInv
    <2>4. CleanTestIsExact'
        BY <1>1, <1>4, <1>10, <2>3
    <2> QED
        BY <1>4, <1>10, <2>1, <2>2, <2>4 DEF ExactInv, TestCase
<1>11. ASSUME fresh, Lli \/ Dis \/ Llc PROVE ExactInv'
    <2>1. at.step \in {"lli", "dis", "llc"} /\ TestCase \in Case /\ cwd' = cwd
        BY <1>11, AtType DEF Lli, Dis, Llc, Doing
    <2>2. at'.step \in {"idle", "parse", "dis", "llc"} /\ (at'.step # "idle" => at'.by = "test")
        <3>1. at.by = "test" /\ at' \in {Step("dis"), Step("llc"), NextCase}
            BY <1>11, <2>1, AtType DEF Lli, Dis, Llc
        <3>2. \A t \in {"dis", "llc"} : Step(t).step = t /\ Step(t).by = "test"
            BY <2>1, <3>1, StepIs
        <3> QED
            BY <2>1, <3>1, <3>2, NextCaseIs
    <2>3. \A f \in Files : dir[TestCase][f] \in {NoFile, Current(TestCase)}
        BY <1>11, <2>1 DEF ExactInv, CleanTestIsExact, Files
    <2>4. at'.step # "idle" => at'.input = Current(TestCase')
        <3>1. at.input = Current(TestCase)
            BY <1>11, <2>1 DEF ExactInv
        <3> QED
            BY <1>11, <3>1, CompilerStep DEF Begins, Continues, TestCase
    <2>5. \A c \in Case : \A f \in Files : dir'[c][f] \in {dir[c][f], NoFile, Current(c)}
        BY <1>11, <2>1, <2>3, LoopWrites DEF Put, Files
    <2>6. CleanTestIsExact'
        BY <1>1, <1>4, <1>11, <2>5
    <2> QED
        BY <1>4, <1>11, <2>1, <2>2, <2>4, <2>6 DEF ExactInv
<1>12. fresh \in BOOLEAN /\ fresh' \in BOOLEAN
    BY DEF TypeOK
<1> QED
    BY <1>2, <1>3, <1>4, <1>5, <1>6, <1>7, <1>8, <1>9, <1>10, <1>11, <1>12 DEF Next
--------------------------------------------------------------------------------
(* The theorems *)

LEMMA DriverInit == Init => DriverInv
<1> SUFFICES ASSUME Init PROVE DriverInv
    OBVIOUS
<1>1. TypeOK
    BY TypeInit
<1>2. AgeInv
    BY DEF Init, AgeInv, Made, NoFiles, Idle, Older
<1>3. TreeInv /\ DeriveInv /\ ExactInv
    BY DEF Init, TreeInv, DeriveInv, ExactInv, CleanTestIsExact, NoFiles, Idle, Lags
<1> QED
    BY <1>1, <1>2, <1>3 DEF DriverInv

LEMMA DriverStep == DriverInv /\ [Next]_vars => DriverInv'
<1> SUFFICES ASSUME DriverInv, [Next]_vars PROVE DriverInv'
    OBVIOUS
<1>1. TypeOK'
    BY TypeStep DEF DriverInv
<1>2. AgeInv' /\ TreeInv' /\ DeriveInv' /\ ExactInv'
    BY <1>1, AgeKept, TreeKept, DeriveKept, ExactKept
<1> QED
    BY <1>1, <1>2 DEF DriverInv

LEMMA DriverInvariant == Spec => []DriverInv
BY DriverInit, DriverStep, PTL DEF Spec

(* The working directory never holds bitcode without a tree of the same or *)
(* of a later compilation, whatever is compiled, moved, edited or          *)
(* interrupted (main.cpp, Makefile:74-85).                                 *)
THEOREM TreeComesWithCode == Spec => []TreeWithCode
<1>1. DriverInv => TreeWithCode
    BY DEF DriverInv, TreeInv, TreeWithCode
<1> QED
    BY <1>1, DriverInvariant, PTL

(* A test on clean directories publishes for each of any number of cases   *)
(* nothing but files made from its present source (Makefile:74-85).        *)
THEOREM CleanTestPublishesExactly == Spec => []CleanTestIsExact
<1>1. DriverInv => CleanTestIsExact
    BY DEF DriverInv, ExactInv
<1> QED
    BY <1>1, DriverInvariant, PTL

(* Whenever the last command of the loop is through, the output of the     *)
(* case is of the bitcode in its directory, and the disassembly and the    *)
(* assembly are as far as llvm-dis and llc can read it; what they leave of *)
(* an earlier run is of no later version (Makefile:80-84).                 *)
THEOREM DerivedFromOneBitcode == Spec => DerivedTogether
<1> DEFINE Together(d) ==
              /\ d.out = d.bc
              /\ IF Disassembles(d.bc) THEN d.ll = d.bc ELSE Lags(d.ll, d.bc)
              /\ IF Assembles(d.bc) THEN d.s = d.bc ELSE Lags(d.s, d.bc)
<1>1. ASSUME DriverInv, DriverInv', Llc PROVE Together(dir'[TestCase])
    <2>1. TestCase \in Case /\ at.step = "llc"
        BY <1>1, AtType DEF Llc, Doing, DriverInv
    <2>2. PICK x \in {dir[TestCase].ll, dir[TestCase].s, NoFile} :
              /\ Put(TestCase, "s", x)
              /\ Assembles(dir[TestCase].ll) => x = dir[TestCase].ll
        BY <1>1, LoopWrites DEF DriverInv
    <2>3. Put(TestCase, "s", x) /\ (Assembles(dir[TestCase].ll) => x = dir[TestCase].ll)
        BY <2>2
    <2>4. /\ dir'[TestCase].out = dir[TestCase].out /\ dir'[TestCase].bc = dir[TestCase].bc
          /\ dir'[TestCase].ll = dir[TestCase].ll /\ dir'[TestCase].s = x
        BY <2>1, <2>3 DEF Put
    <2>5. /\ dir[TestCase].out = dir[TestCase].bc
          /\ Disassembles(dir[TestCase].bc) => dir[TestCase].ll = dir[TestCase].bc
        BY <1>1, <2>1 DEF DriverInv, DeriveInv
    <2>6. Lags(dir'[TestCase].ll, dir'[TestCase].bc) /\ Lags(dir'[TestCase].s, dir'[TestCase].bc)
        BY <1>1, <2>1 DEF DriverInv, DeriveInv
    <2>7. Assembles(dir[TestCase].bc) => Disassembles(dir[TestCase].bc)
        BY DEF Assembles, Disassembles
    <2> QED
        BY <2>3, <2>4, <2>5, <2>6, <2>7
<1>2. DriverInv /\ DriverInv' /\ [Next]_vars => [Llc => Together(dir'[TestCase])]_vars
    BY <1>1
<1> QED
    BY <1>2, DriverInvariant, PTL DEF Spec, DerivedTogether
================================================================================
