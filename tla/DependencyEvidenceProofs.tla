---------------------- MODULE DependencyEvidenceProofs ----------------------
(***************************************************************************)
(* Proofs about DependencyEvidence, for any number of invocations, any     *)
(* packages and versions and any changes by hand.  A command promises what *)
(* its files will hold: every step writes a list of files one by one, so a *)
(* promise is kept by what is still to be written or by what is written.   *)
(***************************************************************************)
EXTENDS DependencyEvidence, SequenceTheorems, TLAPS

\* What a file can hold: only completion.json has digests.
Stored == [state : States, packages : Graphs \cup {None}, findings : 0..1,
           digests : {None} \cup [Listed -> Content]]

Entry == [file : SuccessfulOutputs, says : Stored]

\* What is about to be written.
Pending == ToSet(todo)

\* The files have their types, and so has what is to be written.
Typed ==
    /\ files \in [SuccessfulOutputs -> Stored]
    /\ \A o \in Listed : files[o].digests = None
    /\ by \in [SuccessfulOutputs -> Run \cup {None}]
    /\ stray \in BOOLEAN
    /\ lock \in Graphs /\ env \in Graphs
    /\ changes \in 0..MaxChanges
    /\ used \subseteq Run
    /\ run \in Run \cup {None}
    /\ pc \in Setup \cup Generation \cup Ended
    /\ todo \in Seq(Entry)
    /\ \A w \in Pending : w.file \in Listed => w.says.digests = None
    /\ found \in Found

\* Once the writes of W are done, the file of e holds what e says.
Will(fs, W, e) ==
    /\ \A w \in W : w.file = e.file => w.says = e.says
    /\ fs[e.file] = e.says \/ \E w \in W : w.file = e.file

Promised(e) == Will(files, Pending, e)

\* The file is not among those to be written.
Spares(W, o) == \A w \in W : w.file # o

Untouched(o) == Spares(Pending, o)

\* Once the writes are done, the file is there.
Remains(fs, W, o) ==
    /\ \A w \in W : w.file = o => w.says # Missing
    /\ fs[o] # Missing \/ ~Spares(W, o)

\* The packages and findings that a set of files shows agree.
Parity(fs, count) ==
    /\ \A o \in {"lock-selection.json", "dependency-tree.json", "installed-packages.json",
                 "pip-audit.json", "sbom.cdx.json"} :
         fs[o].packages = fs["lock-export.txt"].packages
    /\ fs["pip-audit.json"].findings = fs["sbom.cdx.json"].findings
    /\ count = fs["sbom.cdx.json"].findings
    /\ fs["parity.json"].state = "exact"
    /\ fs["diagnostics.json"].state = "complete"

\* A whole completion.json names the digests of a parity.
Sound(c) == c.state = "text" => Parity(c.digests, c.findings)

Completions ==
    /\ Sound(files["completion.json"])
    /\ \A w \in Pending : w.file = "completion.json" => Sound(w.says)

\* Past its removals, every file was written or removed by the current run.
OwnFiles ==
    /\ pc = "setup" => \A o \in SuccessfulOutputs : by[o] = run \/ ~Untouched(o)
    /\ pc \in {"scanner", "generate", "complete", "failed"} \cup Generation =>
         \A o \in SuccessfulOutputs : by[o] = run

\* Steps that come after a given one, when nothing fails.
Passed == {"complete"}
Confirming == {"confirm"} \cup Passed
Validating == {"validate"} \cup Confirming
Requiring == {"require"} \cup Validating
Comparing == {"compare"} \cup Requiring
Browsing == {"browsers", "scan", "parse"} \cup Comparing
Inventorying == {"inventory"} \cup Browsing
Treeing == {"tree"} \cup Inventorying

\* What the setup leaves: no completion, and its two logs.
SetUp ==
    /\ pc \in Setup => Promised(Write("completion.json", Missing))
    /\ pc \in {"scanner", "generate"} => Untouched("completion.json")
    /\ pc \in {"scanner", "generate"} => Promised(Text("bootstrap.log"))
    /\ pc = "generate" => Promised(Text("scanner-install.log"))
    /\ pc \in Generation =>
         \A o \in ToSet(SetupOutputs) : files[o] # Missing /\ Untouched(o)

\* What the reports of a generation hold, and that they agree.
Generated ==
    /\ pc \in Treeing => /\ Promised(Packages("lock-export.txt", found.lock))
                         /\ Promised(Packages("lock-selection.json", found.lock))
    /\ pc \in Inventorying => Promised(Packages("dependency-tree.json", found.tree))
    /\ pc \in Browsing => Promised(Packages("installed-packages.json", found.installed))
    /\ pc \in Comparing => /\ Promised(Results("pip-audit.json", found.audit))
                           /\ Promised(Results("sbom.cdx.json", found.sbom))
                           /\ found.audit.findings = found.sbom.findings
    /\ pc \in Requiring =>
         Promised(Write("parity.json", Holding(IF ExactParity THEN "exact" ELSE "mismatch")))
    /\ pc \in Validating => ExactParity /\ Promised(Diagnose("complete"))

\* What completion.json holds, and that it is the last file.
Sealed ==
    /\ pc \in Confirming => /\ Promised(Write("completion.json", Completion))
                            /\ \A o \in Listed : Untouched(o)
    /\ pc = "complete" =>
         todo = <<>> /\ \A o \in SuccessfulOutputs : files[o] # Missing

\* What a failure reports.
Reported ==
    pc = "failed" =>
      /\ Promised(Write("completion.json", Missing))
      /\ Promised(Diagnose("failed"))
      /\ \A o \in ToSet(SetupOutputs) : Remains(files, Pending, o)

\* The inductive invariant.
EvidenceInv ==
    Typed /\ Completions /\ OwnFiles /\ SetUp /\ Generated /\ Sealed /\ Reported

-----------------------------------------------------------------------------
(* The outputs, and what is written to them. *)

LEMMA SetupNames == ToSet(SetupOutputs) = {"bootstrap.log", "scanner-install.log"}
BY DEF ToSet, SetupOutputs

LEMMA GeneratedNames ==
    ToSet(GeneratedOutputs) =
      {"diagnostics.json", "metadata.json", "lock-export.txt", "lock-selection.json",
       "installed-packages.json", "dependency-tree.json", "playwright-browser-metadata.json",
       "pip-audit.json", "pip-audit.txt", "sbom.cdx.json", "scanner-status.json",
       "scanner.stderr.log", "parity.json", "completion.json"}
BY DEF ToSet, GeneratedOutputs

\* The sixteen outputs; completion.json is not listed in itself.
LEMMA OutputNames ==
    /\ SuccessfulOutputs =
         {"bootstrap.log", "scanner-install.log", "diagnostics.json", "metadata.json",
          "lock-export.txt", "lock-selection.json", "installed-packages.json",
          "dependency-tree.json", "playwright-browser-metadata.json", "pip-audit.json",
          "pip-audit.txt", "sbom.cdx.json", "scanner-status.json", "scanner.stderr.log",
          "parity.json", "completion.json"}
    /\ Listed = SuccessfulOutputs \ {"completion.json"}
BY SetupNames, GeneratedNames DEF SuccessfulOutputs, Listed

\* What is written is typed, and has digests in completion.json only.
LEMMA EntryTypes ==
    ASSUME NEW o \in SuccessfulOutputs
    PROVE  /\ \A st \in States : /\ Holding(st) \in Stored
                                 /\ Write(o, Holding(st)) \in Entry
           /\ Text(o) \in Entry
           /\ \A g \in Graphs : Packages(o, g) \in Entry
           /\ \A report \in Report : Results(o, report) \in Entry
<1>1. \A st \in States : Holding(st) \in Stored
  BY DEF Holding, Stored
<1>2. Holding("text") \in Stored
  BY <1>1 DEF States
<1>3. \A g \in Graphs : [Holding("text") EXCEPT !.packages = g] \in Stored
  BY <1>2 DEF Stored
<1>4. \A report \in Report :
        [Holding("text") EXCEPT !.packages = report.packages, !.findings = report.findings]
          \in Stored
  BY <1>2 DEF Stored, Report
<1> QED
  BY <1>1, <1>2, <1>3, <1>4 DEF Entry, Write, Text, Packages, Results

\* Two selections without a difference are the same selection.
LEMMA ExactIsEqual ==
    ASSUME NEW g \in Graphs, NEW h \in Graphs, Exact(g, h)
    PROVE  g = h
<1>1. g \in [Name -> Version \cup {Absent}] /\ h \in [Name -> Version \cup {Absent}]
  BY EvidenceAssumption
<1>2. ASSUME NEW n \in Name PROVE g[n] = h[n]
  BY DEF Exact, Selected
<1> QED
  BY <1>1, <1>2

\* The elements of short and of joined sequences.
LEMMA Elements ==
    /\ ToSet(<<>>) = {}
    /\ \A a : ToSet(<<a>>) = {a}
    /\ \A a, b : ToSet(<<a, b>>) = {a, b}
    /\ \A a, b, c : ToSet(<<a, b, c>>) = {a, b, c}
BY DEF ToSet

LEMMA JoinedElements ==
    ASSUME NEW S, NEW s \in Seq(S), NEW t \in Seq(S)
    PROVE  ToSet(s \o t) = ToSet(s) \cup ToSet(t)
<1>1. /\ DOMAIN s = 1..Len(s) /\ DOMAIN t = 1..Len(t) /\ DOMAIN (s \o t) = 1..(Len(s) + Len(t))
      /\ Len(s) \in Nat /\ Len(t) \in Nat
  OBVIOUS
<1>2. ASSUME NEW i \in DOMAIN s PROVE i \in DOMAIN (s \o t) /\ (s \o t)[i] = s[i]
  BY <1>1
<1>3. ASSUME NEW i \in DOMAIN t
      PROVE  Len(s) + i \in DOMAIN (s \o t) /\ (s \o t)[Len(s) + i] = t[i]
  BY <1>1
<1>4. ASSUME NEW i \in DOMAIN (s \o t) PROVE (s \o t)[i] \in ToSet(s) \cup ToSet(t)
  <2>1. CASE i \in DOMAIN s
    BY <1>2, <2>1 DEF ToSet
  <2>2. CASE i \notin DOMAIN s
    <3>1. i - Len(s) \in DOMAIN t /\ i = Len(s) + (i - Len(s))
      BY <1>1, <2>2
    <3> QED
      BY <1>3, <3>1 DEF ToSet
  <2> QED
    BY <2>1, <2>2
<1>5. ToSet(s \o t) \subseteq ToSet(s) \cup ToSet(t)
  BY <1>4 DEF ToSet
<1>6. ASSUME NEW i \in DOMAIN s PROVE s[i] \in ToSet(s \o t)
  BY <1>2 DEF ToSet
<1>7. ASSUME NEW i \in DOMAIN t PROVE t[i] \in ToSet(s \o t)
  BY <1>3 DEF ToSet
<1>8. ToSet(s) \subseteq ToSet(s \o t)
  BY <1>6 DEF ToSet
<1>9. ToSet(t) \subseteq ToSet(s \o t)
  BY <1>7 DEF ToSet
<1> QED
  BY <1>5, <1>8, <1>9

\* The same, for a last entry after others.
LEMMA AddedEntry ==
    ASSUME NEW s \in Seq(Entry), NEW w \in Entry
    PROVE  s \o <<w>> \in Seq(Entry) /\ ToSet(s \o <<w>>) = ToSet(s) \cup {w}
<1> DEFINE last == <<w>>
<1>1. last \in Seq(Entry) /\ ToSet(last) = {w}
  BY Elements
<1> HIDE DEF last
<1>2. s \o last \in Seq(Entry)
  BY <1>1
<1>3. ToSet(s \o last) = ToSet(s) \cup {w}
  BY <1>1, JoinedElements
<1> QED
  BY <1>2, <1>3 DEF last

LEMMA RemovalEntries ==
    ASSUME NEW outputs \in Seq(SuccessfulOutputs)
    PROVE  /\ Removals(outputs) \in Seq(Entry)
           /\ ToSet(Removals(outputs)) = {Write(o, Missing) : o \in ToSet(outputs)}
<1>1. \A o \in SuccessfulOutputs : Write(o, Missing) \in Entry
  BY EntryTypes DEF States, Missing
<1>2. /\ DOMAIN Removals(outputs) = 1..Len(outputs) /\ Len(outputs) \in Nat
      /\ \A i \in 1..Len(outputs) : Removals(outputs)[i] = Write(outputs[i], Missing)
      /\ \A i \in 1..Len(outputs) : outputs[i] \in SuccessfulOutputs
  BY DEF Removals
<1>3. Removals(outputs) \in [1..Len(outputs) -> Entry]
  BY <1>1, <1>2 DEF Removals
<1> QED
  BY <1>2, <1>3 DEF ToSet

\* Of the files to be written, the first one is written.
LEMMA FirstWrite ==
    ASSUME NEW ts \in Seq(Entry), ts # <<>>
    PROVE  /\ Head(ts) \in Entry
           /\ Tail(ts) \in Seq(Entry)
           /\ ToSet(ts) = {Head(ts)} \cup ToSet(Tail(ts))
<1>1. Head(ts) = ts[1] /\ Head(ts) \in Entry /\ 1 \in DOMAIN ts /\ Tail(ts) \in Seq(Entry)
  OBVIOUS
<1>2. ASSUME NEW i \in DOMAIN Tail(ts) PROVE i + 1 \in DOMAIN ts /\ Tail(ts)[i] = ts[i + 1]
  OBVIOUS
<1>3. ASSUME NEW i \in DOMAIN ts, i # 1
      PROVE  i - 1 \in DOMAIN Tail(ts) /\ ts[i] = Tail(ts)[i - 1]
  <2>1. /\ Len(ts) \in Nat /\ i \in 1..Len(ts) /\ i - 1 \in 1..(Len(ts) - 1)
        /\ (i - 1) + 1 = i
    BY <1>3
  <2>2. DOMAIN Tail(ts) = 1..(Len(ts) - 1)
    OBVIOUS
  <2>3. i - 1 \in DOMAIN Tail(ts)
    BY <2>1, <2>2
  <2> QED
    BY <1>2, <2>1, <2>3
<1>4. ToSet(Tail(ts)) \subseteq ToSet(ts)
  BY <1>2 DEF ToSet
<1>5. Head(ts) \in ToSet(ts)
  BY <1>1 DEF ToSet
<1>6. ASSUME NEW i \in DOMAIN ts, i # 1 PROVE ts[i] \in ToSet(Tail(ts))
  BY <1>3, <1>6 DEF ToSet
<1>7. ASSUME NEW w \in ToSet(ts) PROVE w \in {Head(ts)} \cup ToSet(Tail(ts))
  <2>1. PICK i \in DOMAIN ts : w = ts[i]
    BY DEF ToSet
  <2> QED
    BY <1>1, <1>6, <2>1
<1> QED
  BY <1>1, <1>4, <1>5, <1>7

\* Writing a file that is to be written keeps every promise.
LEMMA WriteKeepsPromise ==
    ASSUME NEW fs \in [SuccessfulOutputs -> Stored], NEW w \in Entry, NEW W,
           NEW e, e.file \in SuccessfulOutputs, Will(fs, {w} \cup W, e)
    PROVE  Will([fs EXCEPT ![w.file] = w.says], W, e)
<1>1. CASE w.file = e.file
  BY <1>1 DEF Will, Entry
<1>2. CASE w.file # e.file
  BY <1>2 DEF Will, Entry
<1> QED
  BY <1>1, <1>2

LEMMA WriteKeepsFile ==
    ASSUME NEW fs \in [SuccessfulOutputs -> Stored], NEW w \in Entry, NEW W,
           NEW o \in SuccessfulOutputs, Remains(fs, {w} \cup W, o)
    PROVE  Remains([fs EXCEPT ![w.file] = w.says], W, o)
<1>1. CASE w.file = o
  BY <1>1 DEF Remains, Spares, Entry
<1>2. CASE w.file # o
  BY <1>2 DEF Remains, Spares, Entry
<1> QED
  BY <1>1, <1>2

-----------------------------------------------------------------------------
(* The steps keep the invariant. *)

LEMMA Start == Init => EvidenceInv
<1> SUFFICES ASSUME Init PROVE EvidenceInv
  OBVIOUS
<1>1. Missing \in Stored /\ Missing.digests = None /\ Missing.state = "missing"
  BY EntryTypes, OutputNames DEF States, Missing, Holding
<1>2. todo \in Seq(Entry) /\ Pending = {}
  BY Elements DEF Init, Pending
<1>3. found \in Found
  BY DEF Init, Found, Report
<1>4. Typed
  <2>1. /\ files \in [SuccessfulOutputs -> Stored]
        /\ by \in [SuccessfulOutputs -> Run \cup {None}]
        /\ \A o \in Listed : files[o].digests = None
    BY <1>1 DEF Init, Listed
  <2>2. changes \in 0..MaxChanges
    BY EvidenceAssumption DEF Init
  <2>3. /\ stray \in BOOLEAN /\ lock \in Graphs /\ env \in Graphs
        /\ used \subseteq Run /\ run \in Run \cup {None} /\ pc \in Ended
    BY DEF Init, Ended
  <2> QED
    BY <1>2, <1>3, <2>1, <2>2, <2>3 DEF Typed
<1>5. Completions
  BY <1>1, <1>2, OutputNames DEF Init, Completions, Sound
<1>6. pc = "idle"
  BY DEF Init
<1>7. OwnFiles /\ SetUp /\ Reported
  BY <1>6 DEF OwnFiles, SetUp, Reported, Setup, Generation
<1>8. Generated /\ Sealed
  BY <1>6 DEF Generated, Sealed, Treeing, Inventorying, Browsing, Comparing, Requiring,
      Validating, Confirming, Passed
<1> QED
  BY <1>4, <1>5, <1>7, <1>8 DEF EvidenceInv

\* A write that does not come to its end spoils no other file.
LEMMA Interruption ==
    ASSUME EvidenceInv, Interrupts, run' = run
    PROVE  /\ files' \in [SuccessfulOutputs -> Stored]
           /\ \A o \in Listed : files'[o].digests = None
           /\ by' \in [SuccessfulOutputs -> Run \cup {None}]
           /\ Sound(files'["completion.json"])
           /\ \A o \in SuccessfulOutputs :
                /\ Untouched(o) => files'[o] = files[o] /\ by'[o] = by[o]
                /\ by[o] = run => by'[o] = run'
                /\ files[o] # Missing => files'[o] # Missing
           /\ todo = <<>> => UNCHANGED <<files, by>>
<1>1. Typed /\ Completions
  BY DEF EvidenceInv
<1>2. CASE UNCHANGED <<files, by>>
  BY <1>1, <1>2 DEF Typed, Completions
<1>3. CASE /\ todo # <<>>
           /\ files' = [files EXCEPT ![Head(todo).file] = Holding("torn")]
           /\ by' = [by EXCEPT ![Head(todo).file] = run]
  <2>1. Head(todo) \in Entry /\ Head(todo) \in Pending
    BY <1>1, <1>3, FirstWrite DEF Typed, Pending
  <2>2. Head(todo).file \in SuccessfulOutputs
    BY <2>1 DEF Entry
  <2>3. /\ Holding("torn") \in Stored /\ Holding("torn").digests = None
        /\ Holding("torn").state = "torn" /\ Holding("torn") # Missing
    BY <2>2, EntryTypes DEF Holding, States, Missing
  <2>4. /\ files \in [SuccessfulOutputs -> Stored]
        /\ by \in [SuccessfulOutputs -> Run \cup {None}]
        /\ run \in Run \cup {None}
        /\ Listed \subseteq SuccessfulOutputs
        /\ \A o \in Listed : files[o].digests = None
    BY <1>1 DEF Typed, Listed
  <2>5. files' \in [SuccessfulOutputs -> Stored] /\ by' \in [SuccessfulOutputs -> Run \cup {None}]
    BY <1>3, <2>2, <2>3, <2>4
  <2>6. \A o \in SuccessfulOutputs :
          /\ o # Head(todo).file => files'[o] = files[o] /\ by'[o] = by[o]
          /\ o = Head(todo).file => files'[o] = Holding("torn") /\ by'[o] = run
    BY <1>3, <2>4
  <2>7. \A o \in Listed : files'[o].digests = None
    BY <2>3, <2>4, <2>6
  <2>8. Sound(files'["completion.json"])
    BY <1>1, <2>3, <2>6, OutputNames DEF Sound, Completions
  <2>9. \A o \in SuccessfulOutputs :
                /\ Untouched(o) => files'[o] = files[o] /\ by'[o] = by[o]
                /\ by[o] = run => by'[o] = run'
                /\ files[o] # Missing => files'[o] # Missing
    BY <2>1, <2>3, <2>6 DEF Untouched, Spares
  <2> QED
    BY <1>3, <2>5, <2>7, <2>8, <2>9
<1> QED
  BY <1>2, <1>3 DEF Interrupts

\* A command that has ended promises no reports.
LEMMA EndedHasNoReports ==
    ASSUME pc' \in {"idle", "failed", "killed"}
    PROVE  SetUp' /\ Generated' /\ Sealed'
BY DEF SetUp, Setup, Generation, Generated, Sealed, Treeing, Inventorying, Browsing, Comparing,
    Requiring, Validating, Confirming, Passed

LEMMA KilledKeeps ==
    ASSUME EvidenceInv, Killed
    PROVE  EvidenceInv'
<1>1. /\ files' \in [SuccessfulOutputs -> Stored]
      /\ \A o \in Listed : files'[o].digests = None
      /\ by' \in [SuccessfulOutputs -> Run \cup {None}]
      /\ Sound(files'["completion.json"])
  BY Interruption DEF Killed
<1>2. pc' = "killed" /\ todo' = <<>> /\ todo' \in Seq(Entry) /\ Pending' = {}
  BY Elements DEF Killed, Pending
<1>3. Typed'
  BY <1>1, <1>2 DEF EvidenceInv, Typed, Killed, world, Ended
<1>4. Completions'
  BY <1>1, <1>2 DEF Completions
<1>5. OwnFiles' /\ Reported'
  BY <1>2 DEF OwnFiles, Reported, Generation
<1> QED
  BY <1>2, <1>3, <1>4, <1>5, EndedHasNoReports DEF EvidenceInv

LEMMA ByHandKeeps ==
    ASSUME EvidenceInv, ByHand
    PROVE  EvidenceInv'
<1>1. UNCHANGED <<files, by, used, run, pc, todo, found>> /\ Pending' = Pending
  BY DEF ByHand, Pending
<1>2. lock' \in Graphs /\ env' \in Graphs /\ stray' \in BOOLEAN
  BY DEF ByHand, EvidenceInv, Typed
<1>3. changes' \in 0..MaxChanges
  BY EvidenceAssumption DEF ByHand, EvidenceInv, Typed
<1>4. Typed'
  BY <1>1, <1>2, <1>3 DEF EvidenceInv, Typed
<1>5. Completions' /\ OwnFiles'
  BY <1>1 DEF EvidenceInv, Completions, OwnFiles, Untouched
<1>6. SetUp' /\ Reported'
  BY <1>1 DEF EvidenceInv, SetUp, Reported, Promised, Untouched
<1>7. ExactParity' = ExactParity
  BY <1>1 DEF ExactParity
<1>8. Generated'
  BY <1>1, <1>7 DEF EvidenceInv, Generated, Promised
<1>9. Sealed'
  BY <1>1 DEF EvidenceInv, Sealed, Promised, Untouched, Completion
<1> QED
  BY <1>4, <1>5, <1>6, <1>8, <1>9 DEF EvidenceInv

LEMMA SetupFailsKeeps ==
    ASSUME EvidenceInv, SetupFails
    PROVE  EvidenceInv'
<1> DEFINE Log(o) == IF files'[o] = Missing THEN <<Text(o)>> ELSE <<>>
<1>1. /\ files' \in [SuccessfulOutputs -> Stored]
      /\ \A o \in Listed : files'[o].digests = None
      /\ by' \in [SuccessfulOutputs -> Run \cup {None}]
      /\ Sound(files'["completion.json"])
      /\ \A o \in SuccessfulOutputs :
           /\ Untouched(o) => files'[o] = files[o] /\ by'[o] = by[o]
           /\ by[o] = run => by'[o] = run'
  BY Interruption DEF SetupFails
<1>2. /\ Text("bootstrap.log") \in Entry /\ Text("scanner-install.log") \in Entry
      /\ Diagnose("failed") \in Entry
  BY EntryTypes, OutputNames DEF Diagnose, States
<1>3. /\ \A o : Text(o).file = o /\ Text(o).says # Missing /\ Text(o).says.digests = None
      /\ Diagnose("failed").file = "diagnostics.json" /\ Diagnose("failed").says.digests = None
  BY DEF Text, Write, Holding, Missing, Diagnose
<1>4. /\ Log("bootstrap.log") \in Seq(Entry) /\ Log("scanner-install.log") \in Seq(Entry)
      /\ <<Diagnose("failed")>> \in Seq(Entry)
  BY <1>2
<1>5. \A o : ToSet(Log(o)) = IF files'[o] = Missing THEN {Text(o)} ELSE {}
  BY Elements
<1>6. todo' = Log("bootstrap.log") \o Log("scanner-install.log") \o <<Diagnose("failed")>>
  BY DEF SetupFails, Unless
<1> HIDE DEF Log
<1>7. todo' \in Seq(Entry)
  BY <1>4, <1>6
<1>8. Pending' = ToSet(Log("bootstrap.log")) \cup ToSet(Log("scanner-install.log"))
                   \cup {Diagnose("failed")}
  <2>1. Log("bootstrap.log") \o Log("scanner-install.log") \in Seq(Entry)
    BY <1>4
  <2>2. ToSet(Log("bootstrap.log") \o Log("scanner-install.log"))
          = ToSet(Log("bootstrap.log")) \cup ToSet(Log("scanner-install.log"))
    BY <1>4, JoinedElements
  <2>3. ToSet((Log("bootstrap.log") \o Log("scanner-install.log")) \o <<Diagnose("failed")>>)
          = ToSet(Log("bootstrap.log") \o Log("scanner-install.log")) \cup {Diagnose("failed")}
    BY <1>2, <2>1, AddedEntry
  <2> QED
    BY <1>6, <2>2, <2>3 DEF Pending
<1>9. \A w \in Pending' :
        \/ w = Diagnose("failed")
        \/ w = Text("bootstrap.log") /\ files'["bootstrap.log"] = Missing
        \/ w = Text("scanner-install.log") /\ files'["scanner-install.log"] = Missing
  BY <1>5, <1>8
<1>10. /\ Diagnose("failed") \in Pending'
       /\ \A o \in ToSet(SetupOutputs) : files'[o] = Missing => Text(o) \in Pending'
  BY <1>5, <1>8, SetupNames
<1>11. Typed'
  <2>1. /\ pc' = "failed" /\ UNCHANGED <<stray, lock, env, changes, used, run, found>>
    BY DEF SetupFails, world
  <2>2. \A w \in Pending' : w.says.digests = None
    BY <1>3, <1>9
  <2> QED
    BY <1>1, <1>7, <2>1, <2>2 DEF EvidenceInv, Typed, Ended
<1>12. Completions'
  BY <1>1, <1>3, <1>9 DEF Completions
<1>13. Reported'
  <2>1. pc \in Setup /\ (pc = "setup" => todo = <<>>)
    BY DEF SetupFails
  <2>2. Promised(Write("completion.json", Missing)) /\ Untouched("completion.json")
    BY <2>1, Elements DEF EvidenceInv, SetUp, Setup, Untouched, Spares, Pending
  <2>3. files["completion.json"] = Missing
    BY <2>2 DEF Promised, Will, Write, Untouched, Spares
  <2>4. files'["completion.json"] = Missing
    BY <1>1, <2>2, <2>3, OutputNames
  <2>5. Will(files', Pending', Write("completion.json", Missing))
    BY <1>3, <1>9, <2>4 DEF Will, Write
  <2>6. Will(files', Pending', Diagnose("failed"))
    BY <1>3, <1>9, <1>10 DEF Will
  <2>7. ASSUME NEW o \in ToSet(SetupOutputs)
        PROVE  Remains(files', Pending', o)
    BY <1>3, <1>9, <1>10, SetupNames DEF Remains, Spares
  <2> QED
    BY <2>5, <2>6, <2>7 DEF Reported, Promised
<1>14. OwnFiles'
  <2>1. pc \in Setup /\ (pc = "setup" => todo = <<>>) /\ pc' = "failed"
    BY DEF SetupFails
  <2>2. \A o \in SuccessfulOutputs : by[o] = run
    BY <2>1, Elements DEF EvidenceInv, OwnFiles, Setup, Untouched, Spares, Pending
  <2> QED
    BY <1>1, <2>1, <2>2 DEF OwnFiles
<1> QED
  BY <1>11, <1>12, <1>13, <1>14, EndedHasNoReports DEF EvidenceInv, SetupFails

LEMMA GenerationFailsKeeps ==
    ASSUME EvidenceInv, GenerationFails
    PROVE  EvidenceInv'
<1>1. /\ files' \in [SuccessfulOutputs -> Stored]
      /\ \A o \in Listed : files'[o].digests = None
      /\ by' \in [SuccessfulOutputs -> Run \cup {None}]
      /\ Sound(files'["completion.json"])
      /\ \A o \in SuccessfulOutputs :
           /\ Untouched(o) => files'[o] = files[o] /\ by'[o] = by[o]
           /\ by[o] = run => by'[o] = run'
  BY Interruption DEF GenerationFails
<1>2. /\ Write("completion.json", Missing) \in Entry /\ Diagnose("failed") \in Entry
  BY EntryTypes, OutputNames DEF Diagnose, States, Missing
<1>3. /\ Write("completion.json", Missing).file = "completion.json"
      /\ Write("completion.json", Missing).says = Missing
      /\ Missing.digests = None /\ Missing.state = "missing"
      /\ Diagnose("failed").file = "diagnostics.json" /\ Diagnose("failed").says.digests = None
  BY DEF Write, Holding, Missing, Diagnose
<1>4. /\ todo' = <<Write("completion.json", Missing), Diagnose("failed")>>
      /\ pc \in Generation /\ pc' = "failed"
      /\ UNCHANGED <<stray, lock, env, changes, used, run, found>>
  BY DEF GenerationFails, world
<1>5. todo' \in Seq(Entry)
  BY <1>2, <1>4
<1>6. Pending' = {Write("completion.json", Missing), Diagnose("failed")}
  BY <1>4, Elements DEF Pending
<1>7. Typed'
  BY <1>1, <1>3, <1>4, <1>5, <1>6 DEF EvidenceInv, Typed, Ended
<1>8. Completions'
  BY <1>1, <1>3, <1>6 DEF Completions, Sound
<1>9. Reported'
  <2>1. Will(files', Pending', Write("completion.json", Missing))
    BY <1>3, <1>6 DEF Will
  <2>2. Will(files', Pending', Diagnose("failed"))
    BY <1>3, <1>6 DEF Will
  <2>3. ASSUME NEW o \in ToSet(SetupOutputs)
        PROVE  Remains(files', Pending', o)
    <3>1. files[o] # Missing /\ Untouched(o) /\ o \in SuccessfulOutputs
      BY <1>4 DEF EvidenceInv, SetUp, SuccessfulOutputs
    <3>2. files'[o] # Missing
      BY <1>1, <3>1
    <3> QED
      BY <1>3, <1>6, <3>2, SetupNames DEF Remains
  <2> QED
    BY <2>1, <2>2, <2>3 DEF Reported, Promised
<1>10. OwnFiles'
  BY <1>1, <1>4 DEF EvidenceInv, OwnFiles
<1> QED
  BY <1>4, <1>7, <1>8, <1>9, <1>10, EndedHasNoReports DEF EvidenceInv

\* Before the lock is exported nothing is promised of the reports.
LEMMA NoReportsYet ==
    ASSUME pc' \in Setup \cup {"verify", "export"}
    PROVE  Generated' /\ Sealed'
BY DEF Setup, Generated, Sealed, Treeing, Inventorying, Browsing, Comparing, Requiring,
    Validating, Confirming, Passed

LEMMA BeginKeeps ==
    ASSUME EvidenceInv, NEW r \in Run, Begin(r)
    PROVE  EvidenceInv'
<1>1. /\ pc' = "setup" /\ run' = r /\ used' = used \cup {r}
      /\ UNCHANGED <<files, by, stray, lock, env, changes, found>>
      /\ todo' = Removals(SetupOutputs \o GeneratedOutputs)
  BY DEF Begin, world
<1>2. SetupOutputs \in Seq(SuccessfulOutputs) /\ GeneratedOutputs \in Seq(SuccessfulOutputs)
  BY OutputNames DEF SetupOutputs, GeneratedOutputs
<1>3. /\ SetupOutputs \o GeneratedOutputs \in Seq(SuccessfulOutputs)
      /\ ToSet(SetupOutputs \o GeneratedOutputs) = SuccessfulOutputs
  BY <1>2, JoinedElements DEF SuccessfulOutputs
<1>4. /\ todo' \in Seq(Entry)
      /\ Pending' = {Write(o, Missing) : o \in SuccessfulOutputs}
  BY <1>1, <1>3, RemovalEntries DEF Pending
<1>5. /\ \A w \in Pending' : w.says = Missing
      /\ \A o \in SuccessfulOutputs : \E w \in Pending' : w.file = o
      /\ Missing.digests = None /\ Missing.state = "missing"
  <2>1. \A o : Write(o, Missing).file = o /\ Write(o, Missing).says = Missing
    BY DEF Write
  <2>2. Missing.digests = None /\ Missing.state = "missing"
    BY DEF Missing, Holding
  <2> QED
    BY <1>4, <2>1, <2>2
<1>6. Typed'
  BY <1>1, <1>4, <1>5 DEF EvidenceInv, Typed, Setup
<1>7. Completions'
  BY <1>1, <1>5 DEF EvidenceInv, Completions, Sound
<1>8. OwnFiles'
  BY <1>1, <1>5 DEF OwnFiles, Untouched, Spares, Generation
<1>9. SetUp'
  <2>1. Will(files', Pending', Write("completion.json", Missing))
    BY <1>5, OutputNames DEF Will, Write
  <2> QED
    BY <1>1, <2>1 DEF SetUp, Promised, Generation
<1>10. Reported'
  BY <1>1 DEF Reported
<1> QED
  BY <1>1, <1>6, <1>7, <1>8, <1>9, <1>10, NoReportsYet DEF EvidenceInv, Setup

\* The next step of a command starts when every file is written: what was
\* promised of them is kept unless the step writes them again.
LEMMA NextStep ==
    ASSUME EvidenceInv, todo = <<>>, pc \in Setup \cup Generation,
           pc' \in {"scanner", "generate", "complete"} \cup Generation,
           UNCHANGED <<files, by, stray, lock, changes, used, run>>,
           env' \in Graphs, found' \in Found, todo' \in Seq(Entry),
           \A w \in Pending' : w.file \in Listed => w.says.digests = None,
           \A w \in Pending' : w.file = "completion.json" => Sound(w.says)
    PROVE  /\ Typed' /\ Completions' /\ OwnFiles' /\ Reported'
           /\ \A e : Promised(e) => files[e.file] = e.says
           /\ \A e : files[e.file] = e.says /\ Spares(Pending', e.file) => Will(files', Pending', e)
           /\ \A e \in Pending' : (\A w \in Pending' : w.file = e.file => w = e)
                                    => Will(files', Pending', e)
<1>1. Pending = {}
  BY Elements DEF Pending
<1>2. Typed'
  BY DEF EvidenceInv, Typed, Setup, Ended
<1>3. Completions'
  BY DEF EvidenceInv, Completions
<1>4. \A o \in SuccessfulOutputs : by[o] = run
  BY <1>1 DEF EvidenceInv, OwnFiles, Setup, Untouched, Spares
<1>5. OwnFiles'
  BY <1>4 DEF OwnFiles, Generation
<1>6. Reported'
  BY DEF Reported, Generation
<1>7. \A e : Promised(e) => files[e.file] = e.says
  BY <1>1 DEF Promised, Will
<1>8. \A e : files[e.file] = e.says /\ Spares(Pending', e.file) => Will(files', Pending', e)
  BY DEF Will, Spares
<1>9. \A e \in Pending' : (\A w \in Pending' : w.file = e.file => w = e)
                                    => Will(files', Pending', e)
  BY DEF Will
<1> QED
  BY <1>2, <1>3, <1>5, <1>6, <1>7, <1>8, <1>9

LEMMA BootstrappedKeeps ==
    ASSUME EvidenceInv, Bootstrapped
    PROVE  EvidenceInv'
<1>1. /\ pc = "setup" /\ todo = <<>> /\ pc' = "scanner" /\ todo' = <<Text("bootstrap.log")>>
      /\ env' = lock /\ UNCHANGED <<files, by, stray, lock, changes, used, run, found>>
  BY DEF Bootstrapped, Goto
<1>2. Text("bootstrap.log") \in Entry
  BY EntryTypes, OutputNames
<1>3. Text("bootstrap.log").file = "bootstrap.log" /\ Text("bootstrap.log").says.digests = None
  BY DEF Text, Write, Holding
<1>4. Pending' = {Text("bootstrap.log")} /\ todo' \in Seq(Entry)
  BY <1>1, <1>2, Elements DEF Pending
<1>5. env' \in Graphs /\ found' \in Found
  BY <1>1 DEF EvidenceInv, Typed
<1>6. /\ Typed' /\ Completions' /\ OwnFiles' /\ Reported'
      /\ \A e : Promised(e) => files[e.file] = e.says
      /\ \A e : files[e.file] = e.says /\ Spares(Pending', e.file) => Will(files', Pending', e)
      /\ \A e \in Pending' : (\A w \in Pending' : w.file = e.file => w = e)
                               => Will(files', Pending', e)
  BY <1>1, <1>3, <1>4, <1>5, NextStep DEF Setup
<1>7. /\ Will(files', Pending', Write("completion.json", Missing))
      /\ Spares(Pending', "completion.json")
  <2>1. Promised(Write("completion.json", Missing))
    BY <1>1 DEF EvidenceInv, SetUp, Setup
  <2>2. /\ Spares(Pending', "completion.json")
        /\ Write("completion.json", Missing).file = "completion.json"
    BY <1>3, <1>4 DEF Spares, Write
  <2> QED
    BY <1>6, <2>1, <2>2
<1>8. Will(files', Pending', Text("bootstrap.log"))
  BY <1>4, <1>6
<1>9. SetUp'
  BY <1>1, <1>7, <1>8 DEF SetUp, Promised, Untouched, Generation
<1> QED
  BY <1>1, <1>6, <1>9, NoReportsYet DEF EvidenceInv, Setup

LEMMA ScannerInstalledKeeps ==
    ASSUME EvidenceInv, ScannerInstalled
    PROVE  EvidenceInv'
<1>1. /\ pc = "scanner" /\ todo = <<>> /\ pc' = "generate"
      /\ todo' = <<Text("scanner-install.log")>>
      /\ UNCHANGED <<files, by, stray, lock, env, changes, used, run, found>>
  BY DEF ScannerInstalled, Goto, world
<1>2. Text("scanner-install.log") \in Entry
  BY EntryTypes, OutputNames
<1>3. /\ \A o : Text(o).file = o /\ Text(o).says.digests = None
      /\ Write("completion.json", Missing).file = "completion.json"
  BY DEF Text, Write, Holding
<1>4. Pending' = {Text("scanner-install.log")} /\ todo' \in Seq(Entry)
  BY <1>1, <1>2, Elements DEF Pending
<1>5. env' \in Graphs /\ found' \in Found
  BY <1>1 DEF EvidenceInv, Typed
<1>6. /\ Typed' /\ Completions' /\ OwnFiles' /\ Reported'
      /\ \A e : Promised(e) => files[e.file] = e.says
      /\ \A e : files[e.file] = e.says /\ Spares(Pending', e.file) => Will(files', Pending', e)
      /\ \A e \in Pending' : (\A w \in Pending' : w.file = e.file => w = e)
                               => Will(files', Pending', e)
  BY <1>1, <1>3, <1>4, <1>5, NextStep DEF Setup
<1>7. Promised(Write("completion.json", Missing)) /\ Promised(Text("bootstrap.log"))
  BY <1>1 DEF EvidenceInv, SetUp, Setup
<1>8. Spares(Pending', "completion.json") /\ Spares(Pending', "bootstrap.log")
  BY <1>3, <1>4 DEF Spares
<1>9. Will(files', Pending', Write("completion.json", Missing))
  BY <1>3, <1>6, <1>7, <1>8
<1>10. Will(files', Pending', Text("bootstrap.log"))
  BY <1>3, <1>6, <1>7, <1>8
<1>11. Will(files', Pending', Text("scanner-install.log"))
  BY <1>4, <1>6
<1>12. SetUp'
  BY <1>1, <1>8, <1>9, <1>10, <1>11 DEF SetUp, Promised, Untouched, Generation
<1> QED
  BY <1>1, <1>6, <1>12, NoReportsYet DEF EvidenceInv, Setup

LEMMA StartGenerationKeeps ==
    ASSUME EvidenceInv, StartGeneration
    PROVE  EvidenceInv'
<1>1. /\ pc = "generate" /\ todo = <<>> /\ pc' = "verify"
      /\ todo' = Removals(GeneratedOutputs) \o <<Diagnose("running")>>
      /\ UNCHANGED <<files, by, stray, lock, env, changes, used, run, found>>
  BY DEF StartGeneration, Goto, world
<1>2. /\ Diagnose("running") \in Entry /\ Diagnose("running").file = "diagnostics.json"
      /\ Diagnose("running").says.digests = None
  BY EntryTypes, OutputNames DEF Diagnose, States, Write, Holding
<1>3. GeneratedOutputs \in Seq(SuccessfulOutputs)
  BY OutputNames DEF GeneratedOutputs
<1>4. /\ Removals(GeneratedOutputs) \in Seq(Entry)
      /\ ToSet(Removals(GeneratedOutputs)) = {Write(o, Missing) : o \in ToSet(GeneratedOutputs)}
  BY <1>3, RemovalEntries
<1>5. ToSet(todo') = ToSet(Removals(GeneratedOutputs)) \cup {Diagnose("running")}
  BY <1>1, <1>2, <1>4, AddedEntry
<1>6. /\ todo' \in Seq(Entry)
      /\ Pending' = {Write(o, Missing) : o \in ToSet(GeneratedOutputs)} \cup {Diagnose("running")}
  BY <1>1, <1>2, <1>4, <1>5, AddedEntry DEF Pending
<1>7. /\ \A o : Text(o).file = o /\ Text(o).says # Missing
      /\ \A o : Write(o, Missing).file = o /\ Write(o, Missing).says = Missing
      /\ Missing.digests = None /\ Missing.state = "missing"
  BY DEF Text, Write, Holding, Missing
<1>8. /\ \A w \in Pending' : w.file \in Listed => w.says.digests = None
      /\ \A w \in Pending' : w.file = "completion.json" => Sound(w.says)
  BY <1>2, <1>6, <1>7 DEF Sound
<1>9. env' \in Graphs /\ found' \in Found
  BY <1>1 DEF EvidenceInv, Typed
<1>10. /\ Typed' /\ Completions' /\ OwnFiles' /\ Reported'
       /\ \A e : Promised(e) => files[e.file] = e.says
  BY <1>1, <1>6, <1>8, <1>9, NextStep DEF Setup, Generation
<1>11. Promised(Text("bootstrap.log")) /\ Promised(Text("scanner-install.log"))
  BY <1>1 DEF EvidenceInv, SetUp
<1>12. \A o \in ToSet(SetupOutputs) : files[o] # Missing
  BY <1>7, <1>10, <1>11, SetupNames
<1>13. \A o \in ToSet(SetupOutputs) : Spares(Pending', o)
  BY <1>2, <1>6, <1>7, SetupNames, GeneratedNames DEF Spares
<1>14. SetUp'
  BY <1>1, <1>12, <1>13 DEF SetUp, Untouched, Setup
<1> QED
  BY <1>1, <1>10, <1>14, NoReportsYet DEF EvidenceInv

LEMMA Stages ==
    /\ Passed = {"complete"}
    /\ Confirming = {"confirm", "complete"}
    /\ Validating = {"validate", "confirm", "complete"}
    /\ Requiring = {"require", "validate", "confirm", "complete"}
    /\ Comparing = {"compare", "require", "validate", "confirm", "complete"}
    /\ Browsing = {"browsers", "scan", "parse", "compare", "require", "validate", "confirm",
                   "complete"}
    /\ Inventorying = {"inventory", "browsers", "scan", "parse", "compare", "require", "validate",
                       "confirm", "complete"}
    /\ Treeing = {"tree", "inventory", "browsers", "scan", "parse", "compare", "require",
                  "validate", "confirm", "complete"}
BY DEF Passed, Confirming, Validating, Requiring, Comparing, Browsing, Inventorying, Treeing

LEMMA EntryFields ==
    /\ \A o, what : Write(o, what).file = o /\ Write(o, what).says = what
    /\ \A state : Holding(state).digests = None /\ Holding(state).state = state
    /\ \A o : Text(o).file = o /\ Text(o).says.digests = None
    /\ \A o, g : Packages(o, g).file = o /\ Packages(o, g).says.digests = None
    /\ \A o, report : Results(o, report).file = o /\ Results(o, report).says.digests = None
    /\ \A status : /\ Diagnose(status).file = "diagnostics.json"
                   /\ Diagnose(status).says = Holding(status)
BY DEF Write, Holding, Text, Packages, Results, Diagnose

\* A step of the generation that writes reports.
LEMMA GenerationStep ==
    ASSUME EvidenceInv, todo = <<>>, pc \in Generation,
           pc' \in Generation \cup {"complete"},
           UNCHANGED <<files, by, stray, lock, env, changes, used, run>>,
           found' \in Found, todo' \in Seq(Entry),
           \A w \in Pending' : w.file \in Listed => w.says.digests = None,
           \A w \in Pending' : w.file = "completion.json" => Sound(w.says),
           Spares(Pending', "bootstrap.log"), Spares(Pending', "scanner-install.log")
    PROVE  /\ Typed' /\ Completions' /\ OwnFiles' /\ Reported' /\ SetUp'
           /\ \A e : Promised(e) /\ Spares(Pending', e.file) => Will(files', Pending', e)
           /\ \A e \in Pending' : (\A w \in Pending' : w.file = e.file => w = e)
                                    => Will(files', Pending', e)
<1>1. env' \in Graphs
  BY DEF EvidenceInv, Typed
<1>2. /\ Typed' /\ Completions' /\ OwnFiles' /\ Reported'
      /\ \A e : Promised(e) => files[e.file] = e.says
      /\ \A e : files[e.file] = e.says /\ Spares(Pending', e.file) => Will(files', Pending', e)
      /\ \A e \in Pending' : (\A w \in Pending' : w.file = e.file => w = e)
                               => Will(files', Pending', e)
  BY <1>1, NextStep
<1>3. \A o \in ToSet(SetupOutputs) : files'[o] # Missing /\ Spares(Pending', o)
  BY SetupNames DEF EvidenceInv, SetUp
<1>4. SetUp'
  BY <1>3 DEF SetUp, Untouched, Setup, Generation
<1> QED
  BY <1>2, <1>4

LEMMA VerifiedKeeps ==
    ASSUME EvidenceInv, Verified
    PROVE  EvidenceInv'
<1>1. /\ pc = "verify" /\ todo = <<>> /\ pc' = "export" /\ todo' = <<>>
      /\ UNCHANGED <<files, by, stray, lock, env, changes, used, run, found>>
  BY DEF Verified, Goto, world
<1>2. Pending' = {} /\ todo' \in Seq(Entry) /\ found' \in Found
  BY <1>1, Elements DEF Pending, EvidenceInv, Typed
<1>3. Typed' /\ Completions' /\ OwnFiles' /\ Reported' /\ SetUp'
  BY <1>1, <1>2, GenerationStep DEF Generation, Spares
<1> QED
  BY <1>1, <1>3, NoReportsYet DEF EvidenceInv

LEMMA ExportedKeeps ==
    ASSUME EvidenceInv, Exported
    PROVE  EvidenceInv'
<1> DEFINE W == {Packages("lock-export.txt", lock), Packages("lock-selection.json", lock)}
<1>1. /\ pc = "export" /\ todo = <<>> /\ pc' = "tree"
      /\ todo' = <<Packages("lock-export.txt", lock), Packages("lock-selection.json", lock)>>
      /\ UNCHANGED <<files, by, stray, lock, env, changes, used, run>>
      /\ found' = [found EXCEPT !.lock = lock]
  BY DEF Exported, Goto, world
<1>2. lock \in Graphs /\ found \in Found
  BY DEF EvidenceInv, Typed
<1>3. W \subseteq Entry
  BY <1>2, EntryTypes, OutputNames
<1>4. Pending' = W /\ todo' \in Seq(Entry)
  BY <1>1, <1>3, Elements DEF Pending
<1>5. found' \in Found /\ found'.lock = lock
  BY <1>1, <1>2 DEF Found
<1>6. /\ Typed' /\ Completions' /\ OwnFiles' /\ Reported' /\ SetUp'
      /\ \A e \in Pending' : (\A w \in Pending' : w.file = e.file => w = e)
                               => Will(files', Pending', e)
  <2>1. pc \in Generation /\ pc' \in Generation
    BY <1>1 DEF Generation
  <2>2. \A w \in Pending' : w.says.digests = None /\ w.file # "completion.json"
    BY <1>4, EntryFields
  <2>3. Spares(Pending', "bootstrap.log") /\ Spares(Pending', "scanner-install.log")
    BY <1>4, EntryFields DEF Spares
  <2> QED
    BY <1>1, <1>4, <1>5, <2>1, <2>2, <2>3, GenerationStep
<1>7. /\ Will(files', Pending', Packages("lock-export.txt", lock))
      /\ Will(files', Pending', Packages("lock-selection.json", lock))
  BY <1>4, <1>6, EntryFields
<1>8. Generated'
  BY <1>1, <1>5, <1>7, Stages DEF Generated, Promised
<1>9. Sealed'
  BY <1>1, Stages DEF Sealed
<1> QED
  BY <1>6, <1>8, <1>9 DEF EvidenceInv

\* What the export has written is kept.
LEMMA LockIsKept ==
    ASSUME Generated, pc \in Treeing, found'.lock = found.lock,
           \A e : Promised(e) /\ Spares(Pending', e.file) => Will(files', Pending', e),
           Spares(Pending', "lock-export.txt"), Spares(Pending', "lock-selection.json")
    PROVE  /\ Will(files', Pending', Packages("lock-export.txt", found'.lock))
           /\ Will(files', Pending', Packages("lock-selection.json", found'.lock))
BY EntryFields DEF Generated

LEMMA TreeReadKeeps ==
    ASSUME EvidenceInv, TreeRead
    PROVE  EvidenceInv'
<1> DEFINE W == {Packages("dependency-tree.json", lock)}
<1>1. /\ pc = "tree" /\ todo = <<>> /\ pc' = "inventory"
      /\ todo' = <<Packages("dependency-tree.json", lock)>>
      /\ UNCHANGED <<files, by, stray, lock, env, changes, used, run>>
      /\ found' = [found EXCEPT !.tree = lock]
  BY DEF TreeRead, Goto, world
<1>2. lock \in Graphs /\ found \in Found
  BY DEF EvidenceInv, Typed
<1>3. W \subseteq Entry
  BY <1>2, EntryTypes, OutputNames
<1>4. Pending' = W /\ todo' \in Seq(Entry)
  BY <1>1, <1>3, Elements DEF Pending
<1>5. found' \in Found /\ found'.lock = found.lock /\ found'.tree = lock
  BY <1>1, <1>2 DEF Found
<1>6. /\ Typed' /\ Completions' /\ OwnFiles' /\ Reported' /\ SetUp'
      /\ \A e : Promised(e) /\ Spares(Pending', e.file) => Will(files', Pending', e)
      /\ \A e \in Pending' : (\A w \in Pending' : w.file = e.file => w = e)
                               => Will(files', Pending', e)
  <2>1. pc \in Generation /\ pc' \in Generation
    BY <1>1 DEF Generation
  <2>2. \A w \in Pending' : w.says.digests = None /\ w.file # "completion.json"
    BY <1>4, EntryFields
  <2>3. Spares(Pending', "bootstrap.log") /\ Spares(Pending', "scanner-install.log")
    BY <1>4, EntryFields DEF Spares
  <2> QED
    BY <1>1, <1>4, <1>5, <2>1, <2>2, <2>3, GenerationStep
<1>7. Spares(Pending', "lock-export.txt") /\ Spares(Pending', "lock-selection.json")
  BY <1>4, EntryFields DEF Spares
<1>8. /\ Will(files', Pending', Packages("lock-export.txt", found'.lock))
      /\ Will(files', Pending', Packages("lock-selection.json", found'.lock))
  BY <1>1, <1>5, <1>6, <1>7, LockIsKept, Stages DEF EvidenceInv
<1>9. Will(files', Pending', Packages("dependency-tree.json", lock))
  BY <1>4, <1>6
<1>10. Generated'
  BY <1>1, <1>5, <1>8, <1>9, Stages DEF Generated, Promised
<1>11. Sealed'
  BY <1>1, Stages DEF Sealed
<1> QED
  BY <1>6, <1>10, <1>11 DEF EvidenceInv

\* So is what the tree has written.
LEMMA TreeIsKept ==
    ASSUME Generated, pc \in Inventorying, found'.tree = found.tree,
           \A e : Promised(e) /\ Spares(Pending', e.file) => Will(files', Pending', e),
           Spares(Pending', "dependency-tree.json")
    PROVE  Will(files', Pending', Packages("dependency-tree.json", found'.tree))
BY EntryFields DEF Generated

LEMMA InventoriedKeeps ==
    ASSUME EvidenceInv, Inventoried
    PROVE  EvidenceInv'
<1> DEFINE W == {Packages("installed-packages.json", env)}
<1>1. /\ pc = "inventory" /\ todo = <<>> /\ pc' = "browsers"
      /\ todo' = <<Packages("installed-packages.json", env)>>
      /\ UNCHANGED <<files, by, stray, lock, env, changes, used, run>>
      /\ found' = [found EXCEPT !.installed = env]
  BY DEF Inventoried, Goto, world
<1>2. env \in Graphs /\ found \in Found
  BY DEF EvidenceInv, Typed
<1>3. W \subseteq Entry
  BY <1>2, EntryTypes, OutputNames
<1>4. Pending' = W /\ todo' \in Seq(Entry)
  BY <1>1, <1>3, Elements DEF Pending
<1>5. /\ found' \in Found /\ found'.lock = found.lock /\ found'.tree = found.tree
      /\ found'.installed = env
  BY <1>1, <1>2 DEF Found
<1>6. /\ Typed' /\ Completions' /\ OwnFiles' /\ Reported' /\ SetUp'
      /\ \A e : Promised(e) /\ Spares(Pending', e.file) => Will(files', Pending', e)
      /\ \A e \in Pending' : (\A w \in Pending' : w.file = e.file => w = e)
                               => Will(files', Pending', e)
  <2>1. pc \in Generation /\ pc' \in Generation
    BY <1>1 DEF Generation
  <2>2. \A w \in Pending' : w.says.digests = None /\ w.file # "completion.json"
    BY <1>4, EntryFields
  <2>3. Spares(Pending', "bootstrap.log") /\ Spares(Pending', "scanner-install.log")
    BY <1>4, EntryFields DEF Spares
  <2> QED
    BY <1>1, <1>4, <1>5, <2>1, <2>2, <2>3, GenerationStep
<1>7. /\ Spares(Pending', "lock-export.txt") /\ Spares(Pending', "lock-selection.json")
      /\ Spares(Pending', "dependency-tree.json")
  BY <1>4, EntryFields DEF Spares
<1>8. /\ Will(files', Pending', Packages("lock-export.txt", found'.lock))
      /\ Will(files', Pending', Packages("lock-selection.json", found'.lock))
  BY <1>1, <1>5, <1>6, <1>7, LockIsKept, Stages DEF EvidenceInv
<1>9. Will(files', Pending', Packages("dependency-tree.json", found'.tree))
  BY <1>1, <1>5, <1>6, <1>7, TreeIsKept, Stages DEF EvidenceInv
<1>10. Will(files', Pending', Packages("installed-packages.json", env))
  BY <1>4, <1>6
<1>11. Generated'
  BY <1>1, <1>5, <1>8, <1>9, <1>10, Stages DEF Generated, Promised
<1>12. Sealed'
  BY <1>1, Stages DEF Sealed
<1> QED
  BY <1>6, <1>11, <1>12 DEF EvidenceInv

\* Before the scanner has run, the reports are on the packages.
LEMMA InputsAreKept ==
    ASSUME Generated, pc \in Browsing, found'.lock = found.lock, found'.tree = found.tree,
           found'.installed = found.installed,
           \A e : Promised(e) /\ Spares(Pending', e.file) => Will(files', Pending', e),
           Spares(Pending', "lock-export.txt"), Spares(Pending', "lock-selection.json"),
           Spares(Pending', "dependency-tree.json"), Spares(Pending', "installed-packages.json")
    PROVE  /\ Will(files', Pending', Packages("lock-export.txt", found'.lock))
           /\ Will(files', Pending', Packages("lock-selection.json", found'.lock))
           /\ Will(files', Pending', Packages("dependency-tree.json", found'.tree))
           /\ Will(files', Pending', Packages("installed-packages.json", found'.installed))
<1>1. pc \in Treeing /\ pc \in Inventorying
  BY Stages
<1> QED
  BY <1>1, LockIsKept, TreeIsKept, EntryFields DEF Generated

LEMMA BrowsersReadKeeps ==
    ASSUME EvidenceInv, BrowsersRead
    PROVE  EvidenceInv'
<1> DEFINE W == {Text("playwright-browser-metadata.json")}
<1>1. /\ pc = "browsers" /\ todo = <<>> /\ pc' = "scan"
      /\ todo' = <<Text("playwright-browser-metadata.json")>>
      /\ UNCHANGED <<files, by, stray, lock, env, changes, used, run, found>>
  BY DEF BrowsersRead, Goto, world
<1>2. found \in Found
  BY DEF EvidenceInv, Typed
<1>3. W \subseteq Entry
  BY EntryTypes, OutputNames
<1>4. Pending' = W /\ todo' \in Seq(Entry)
  BY <1>1, <1>3, Elements DEF Pending
<1>5. found' \in Found
  BY <1>1, <1>2
<1>6. /\ Typed' /\ Completions' /\ OwnFiles' /\ Reported' /\ SetUp'
      /\ \A e : Promised(e) /\ Spares(Pending', e.file) => Will(files', Pending', e)
      /\ \A e \in Pending' : (\A w \in Pending' : w.file = e.file => w = e)
                               => Will(files', Pending', e)
  <2>1. pc \in Generation /\ pc' \in Generation
    BY <1>1 DEF Generation
  <2>2. \A w \in Pending' : w.says.digests = None /\ w.file # "completion.json"
    BY <1>4, EntryFields
  <2>3. Spares(Pending', "bootstrap.log") /\ Spares(Pending', "scanner-install.log")
    BY <1>4, EntryFields DEF Spares
  <2> QED
    BY <1>1, <1>4, <1>5, <2>1, <2>2, <2>3, GenerationStep
<1>7. /\ Spares(Pending', "lock-export.txt") /\ Spares(Pending', "lock-selection.json")
      /\ Spares(Pending', "dependency-tree.json") /\ Spares(Pending', "installed-packages.json")
  BY <1>4, EntryFields DEF Spares
<1>8. /\ Will(files', Pending', Packages("lock-export.txt", found'.lock))
      /\ Will(files', Pending', Packages("lock-selection.json", found'.lock))
      /\ Will(files', Pending', Packages("dependency-tree.json", found'.tree))
      /\ Will(files', Pending', Packages("installed-packages.json", found'.installed))
  BY <1>1, <1>6, <1>7, InputsAreKept, Stages DEF EvidenceInv
<1>9. Generated'
  BY <1>1, <1>8, Stages DEF Generated, Promised
<1>10. Sealed'
  BY <1>1, Stages DEF Sealed
<1> QED
  BY <1>6, <1>9, <1>10 DEF EvidenceInv

LEMMA ScannedKeeps ==
    ASSUME EvidenceInv, NEW audit \in Report, NEW sbom \in Report, Scanned(audit, sbom)
    PROVE  EvidenceInv'
<1> DEFINE W == {Text("scanner.stderr.log"), Text("scanner-status.json")}
<1>1. /\ pc = "scan" /\ todo = <<>> /\ pc' = "parse"
      /\ todo' = <<Text("scanner.stderr.log"), Text("scanner-status.json")>>
      /\ UNCHANGED <<files, by, stray, lock, env, changes, used, run>>
      /\ found' = [found EXCEPT !.audit = audit, !.sbom = sbom]
  BY DEF Scanned, Goto, world
<1>2. found \in Found
  BY DEF EvidenceInv, Typed
<1>3. W \subseteq Entry
  BY EntryTypes, OutputNames
<1>4. Pending' = W /\ todo' \in Seq(Entry)
  BY <1>1, <1>3, Elements DEF Pending
<1>5. /\ found' \in Found /\ found'.lock = found.lock /\ found'.tree = found.tree
      /\ found'.installed = found.installed
  BY <1>1, <1>2 DEF Found
<1>6. /\ Typed' /\ Completions' /\ OwnFiles' /\ Reported' /\ SetUp'
      /\ \A e : Promised(e) /\ Spares(Pending', e.file) => Will(files', Pending', e)
      /\ \A e \in Pending' : (\A w \in Pending' : w.file = e.file => w = e)
                               => Will(files', Pending', e)
  <2>1. pc \in Generation /\ pc' \in Generation
    BY <1>1 DEF Generation
  <2>2. \A w \in Pending' : w.says.digests = None /\ w.file # "completion.json"
    BY <1>4, EntryFields
  <2>3. Spares(Pending', "bootstrap.log") /\ Spares(Pending', "scanner-install.log")
    BY <1>4, EntryFields DEF Spares
  <2> QED
    BY <1>1, <1>4, <1>5, <2>1, <2>2, <2>3, GenerationStep
<1>7. /\ Spares(Pending', "lock-export.txt") /\ Spares(Pending', "lock-selection.json")
      /\ Spares(Pending', "dependency-tree.json") /\ Spares(Pending', "installed-packages.json")
  BY <1>4, EntryFields DEF Spares
<1>8. /\ Will(files', Pending', Packages("lock-export.txt", found'.lock))
      /\ Will(files', Pending', Packages("lock-selection.json", found'.lock))
      /\ Will(files', Pending', Packages("dependency-tree.json", found'.tree))
      /\ Will(files', Pending', Packages("installed-packages.json", found'.installed))
  BY <1>1, <1>5, <1>6, <1>7, InputsAreKept, Stages DEF EvidenceInv
<1>9. Generated'
  BY <1>1, <1>8, Stages DEF Generated, Promised
<1>10. Sealed'
  BY <1>1, Stages DEF Sealed
<1> QED
  BY <1>6, <1>9, <1>10 DEF EvidenceInv

LEMMA ParsedKeeps ==
    ASSUME EvidenceInv, Parsed
    PROVE  EvidenceInv'
<1> DEFINE W == {Results("pip-audit.json", found.audit), Results("sbom.cdx.json", found.sbom),
                 Text("pip-audit.txt")}
<1>1. /\ pc = "parse" /\ todo = <<>> /\ pc' = "compare"
      /\ todo' = <<Results("pip-audit.json", found.audit), Results("sbom.cdx.json", found.sbom),
                   Text("pip-audit.txt")>>
      /\ UNCHANGED <<files, by, stray, lock, env, changes, used, run, found>>
      /\ found.audit.findings = found.sbom.findings
  BY DEF Parsed, Goto, world
<1>2. found \in Found /\ found.audit \in Report /\ found.sbom \in Report
  BY DEF EvidenceInv, Typed, Found
<1>3. W \subseteq Entry
  BY <1>2, EntryTypes, OutputNames
<1>4. Pending' = W /\ todo' \in Seq(Entry)
  BY <1>1, <1>3, Elements DEF Pending
<1>5. found' \in Found
  BY <1>1, <1>2
<1>6. /\ Typed' /\ Completions' /\ OwnFiles' /\ Reported' /\ SetUp'
      /\ \A e : Promised(e) /\ Spares(Pending', e.file) => Will(files', Pending', e)
      /\ \A e \in Pending' : (\A w \in Pending' : w.file = e.file => w = e)
                               => Will(files', Pending', e)
  <2>1. pc \in Generation /\ pc' \in Generation
    BY <1>1 DEF Generation
  <2>2. \A w \in Pending' : w.says.digests = None /\ w.file # "completion.json"
    BY <1>4, EntryFields
  <2>3. Spares(Pending', "bootstrap.log") /\ Spares(Pending', "scanner-install.log")
    BY <1>4, EntryFields DEF Spares
  <2> QED
    BY <1>1, <1>4, <1>5, <2>1, <2>2, <2>3, GenerationStep
<1>7. /\ Spares(Pending', "lock-export.txt") /\ Spares(Pending', "lock-selection.json")
      /\ Spares(Pending', "dependency-tree.json") /\ Spares(Pending', "installed-packages.json")
  BY <1>4, EntryFields DEF Spares
<1>8. /\ Will(files', Pending', Packages("lock-export.txt", found'.lock))
      /\ Will(files', Pending', Packages("lock-selection.json", found'.lock))
      /\ Will(files', Pending', Packages("dependency-tree.json", found'.tree))
      /\ Will(files', Pending', Packages("installed-packages.json", found'.installed))
  BY <1>1, <1>6, <1>7, InputsAreKept, Stages DEF EvidenceInv
<1>9. /\ Will(files', Pending', Results("pip-audit.json", found.audit))
      /\ Will(files', Pending', Results("sbom.cdx.json", found.sbom))
  BY <1>4, <1>6, EntryFields
<1>10. Generated'
  BY <1>1, <1>8, <1>9, Stages DEF Generated, Promised
<1>11. Sealed'
  BY <1>1, Stages DEF Sealed
<1> QED
  BY <1>6, <1>10, <1>11 DEF EvidenceInv

\* After it, so are those on both reports.
LEMMA ReportsAreKept ==
    ASSUME Generated, pc \in Comparing, found' = found,
           \A e : Promised(e) /\ Spares(Pending', e.file) => Will(files', Pending', e),
           Spares(Pending', "lock-export.txt"), Spares(Pending', "lock-selection.json"),
           Spares(Pending', "dependency-tree.json"), Spares(Pending', "installed-packages.json"),
           Spares(Pending', "pip-audit.json"), Spares(Pending', "sbom.cdx.json")
    PROVE  /\ Will(files', Pending', Packages("lock-export.txt", found'.lock))
           /\ Will(files', Pending', Packages("lock-selection.json", found'.lock))
           /\ Will(files', Pending', Packages("dependency-tree.json", found'.tree))
           /\ Will(files', Pending', Packages("installed-packages.json", found'.installed))
           /\ Will(files', Pending', Results("pip-audit.json", found'.audit))
           /\ Will(files', Pending', Results("sbom.cdx.json", found'.sbom))
           /\ found'.audit.findings = found'.sbom.findings
<1>1. pc \in Browsing
  BY Stages
<1>2. /\ Will(files', Pending', Packages("lock-export.txt", found'.lock))
      /\ Will(files', Pending', Packages("lock-selection.json", found'.lock))
      /\ Will(files', Pending', Packages("dependency-tree.json", found'.tree))
      /\ Will(files', Pending', Packages("installed-packages.json", found'.installed))
  BY <1>1, InputsAreKept
<1>3. /\ Promised(Results("pip-audit.json", found.audit))
      /\ Promised(Results("sbom.cdx.json", found.sbom))
      /\ found.audit.findings = found.sbom.findings
  BY DEF Generated
<1> QED
  BY <1>2, <1>3, EntryFields

\* And, after the comparison, its verdict.
LEMMA VerdictIsKept ==
    ASSUME Generated, pc \in Requiring, found' = found,
           \A e : Promised(e) /\ Spares(Pending', e.file) => Will(files', Pending', e),
           Spares(Pending', "parity.json")
    PROVE  Will(files', Pending',
          Write("parity.json", Holding(IF ExactParity' THEN "exact" ELSE "mismatch")))
<1>1. ExactParity' = ExactParity
  BY DEF ExactParity
<1>2. Promised(Write("parity.json", Holding(IF ExactParity THEN "exact" ELSE "mismatch")))
  BY DEF Generated
<1> QED
  BY <1>1, <1>2, EntryFields

LEMMA ComparedKeeps ==
    ASSUME EvidenceInv, Compared
    PROVE  EvidenceInv'
<1> DEFINE verdict == Holding(IF ExactParity THEN "exact" ELSE "mismatch")
           W == {Write("parity.json", verdict)}
<1>1. /\ pc = "compare" /\ todo = <<>> /\ pc' = "require"
      /\ todo' = <<Write("parity.json", verdict)>>
      /\ UNCHANGED <<files, by, stray, lock, env, changes, used, run, found>>
  BY DEF Compared, Goto, world
<1>2. found \in Found
  BY DEF EvidenceInv, Typed
<1>3. W \subseteq Entry
  BY EntryTypes, OutputNames DEF States
<1>4. Pending' = W /\ todo' \in Seq(Entry)
  BY <1>1, <1>3, Elements DEF Pending
<1>5. found' \in Found
  BY <1>1, <1>2
<1>6. /\ Typed' /\ Completions' /\ OwnFiles' /\ Reported' /\ SetUp'
      /\ \A e : Promised(e) /\ Spares(Pending', e.file) => Will(files', Pending', e)
      /\ \A e \in Pending' : (\A w \in Pending' : w.file = e.file => w = e)
                               => Will(files', Pending', e)
  <2>1. pc \in Generation /\ pc' \in Generation
    BY <1>1 DEF Generation
  <2>2. \A w \in Pending' : w.says.digests = None /\ w.file # "completion.json"
    BY <1>4, EntryFields
  <2>3. Spares(Pending', "bootstrap.log") /\ Spares(Pending', "scanner-install.log")
    BY <1>4, EntryFields DEF Spares
  <2> QED
    BY <1>1, <1>4, <1>5, <2>1, <2>2, <2>3, GenerationStep
<1>7. /\ Spares(Pending', "lock-export.txt") /\ Spares(Pending', "lock-selection.json")
      /\ Spares(Pending', "dependency-tree.json") /\ Spares(Pending', "installed-packages.json")
      /\ Spares(Pending', "pip-audit.json") /\ Spares(Pending', "sbom.cdx.json")
  BY <1>4, EntryFields DEF Spares
<1>8. /\ Will(files', Pending', Packages("lock-export.txt", found'.lock))
      /\ Will(files', Pending', Packages("lock-selection.json", found'.lock))
      /\ Will(files', Pending', Packages("dependency-tree.json", found'.tree))
      /\ Will(files', Pending', Packages("installed-packages.json", found'.installed))
      /\ Will(files', Pending', Results("pip-audit.json", found'.audit))
      /\ Will(files', Pending', Results("sbom.cdx.json", found'.sbom))
      /\ found'.audit.findings = found'.sbom.findings
  BY <1>1, <1>6, <1>7, ReportsAreKept, Stages DEF EvidenceInv
<1>9. Will(files', Pending', Write("parity.json", verdict))
  BY <1>4, <1>6
<1>10. ExactParity' = ExactParity
  BY <1>1 DEF ExactParity
<1>11. Generated'
  BY <1>1, <1>8, <1>9, <1>10, Stages DEF Generated, Promised
<1>12. Sealed'
  BY <1>1, Stages DEF Sealed
<1> QED
  BY <1>6, <1>11, <1>12 DEF EvidenceInv

LEMMA ParityRequiredKeeps ==
    ASSUME EvidenceInv, ParityRequired
    PROVE  EvidenceInv'
<1> DEFINE W == {Packages("metadata.json", lock), Diagnose("complete")}
<1>1. /\ pc = "require" /\ todo = <<>> /\ pc' = "validate" /\ ExactParity
      /\ todo' = <<Packages("metadata.json", lock), Diagnose("complete")>>
      /\ UNCHANGED <<files, by, stray, lock, env, changes, used, run, found>>
  BY DEF ParityRequired, Goto, world
<1>2. found \in Found /\ lock \in Graphs
  BY DEF EvidenceInv, Typed
<1>3. W \subseteq Entry
  BY <1>2, EntryTypes, OutputNames DEF States, Diagnose
<1>4. Pending' = W /\ todo' \in Seq(Entry)
  BY <1>1, <1>3, Elements DEF Pending
<1>5. found' \in Found
  BY <1>1, <1>2
<1>6. /\ Typed' /\ Completions' /\ OwnFiles' /\ Reported' /\ SetUp'
      /\ \A e : Promised(e) /\ Spares(Pending', e.file) => Will(files', Pending', e)
      /\ \A e \in Pending' : (\A w \in Pending' : w.file = e.file => w = e)
                               => Will(files', Pending', e)
  <2>1. pc \in Generation /\ pc' \in Generation
    BY <1>1 DEF Generation
  <2>2. \A w \in Pending' : w.says.digests = None /\ w.file # "completion.json"
    BY <1>4, EntryFields
  <2>3. Spares(Pending', "bootstrap.log") /\ Spares(Pending', "scanner-install.log")
    BY <1>4, EntryFields DEF Spares
  <2> QED
    BY <1>1, <1>4, <1>5, <2>1, <2>2, <2>3, GenerationStep
<1>7. /\ Spares(Pending', "lock-export.txt") /\ Spares(Pending', "lock-selection.json")
      /\ Spares(Pending', "dependency-tree.json") /\ Spares(Pending', "installed-packages.json")
      /\ Spares(Pending', "pip-audit.json") /\ Spares(Pending', "sbom.cdx.json")
      /\ Spares(Pending', "parity.json")
  BY <1>4, EntryFields DEF Spares
<1>8. /\ Will(files', Pending', Packages("lock-export.txt", found'.lock))
      /\ Will(files', Pending', Packages("lock-selection.json", found'.lock))
      /\ Will(files', Pending', Packages("dependency-tree.json", found'.tree))
      /\ Will(files', Pending', Packages("installed-packages.json", found'.installed))
      /\ Will(files', Pending', Results("pip-audit.json", found'.audit))
      /\ Will(files', Pending', Results("sbom.cdx.json", found'.sbom))
      /\ found'.audit.findings = found'.sbom.findings
  BY <1>1, <1>6, <1>7, ReportsAreKept, Stages DEF EvidenceInv
<1>9. Will(files', Pending',
          Write("parity.json", Holding(IF ExactParity' THEN "exact" ELSE "mismatch")))
  BY <1>1, <1>6, <1>7, VerdictIsKept, Stages DEF EvidenceInv
<1>10. Will(files', Pending', Diagnose("complete"))
  BY <1>4, <1>6, EntryFields
<1>11. ExactParity'
  BY <1>1 DEF ExactParity
<1>12. Generated'
  BY <1>1, <1>8, <1>9, <1>10, <1>11, Stages DEF Generated, Promised
<1>13. Sealed'
  BY <1>1, Stages DEF Sealed
<1> QED
  BY <1>6, <1>12, <1>13 DEF EvidenceInv

\* From the validation on, all that was promised of the reports is kept.
LEMMA GeneratedIsKept ==
    ASSUME EvidenceInv, pc \in Validating, found' = found,
           \A e : Promised(e) /\ Spares(Pending', e.file) => Will(files', Pending', e),
           \A o \in Listed : Spares(Pending', o)
    PROVE  Generated'
<1>1. Generated
  BY DEF EvidenceInv
<1>2. pc \in Comparing /\ pc \in Requiring
  BY Stages
<1>3. /\ Spares(Pending', "lock-export.txt") /\ Spares(Pending', "lock-selection.json")
      /\ Spares(Pending', "dependency-tree.json") /\ Spares(Pending', "installed-packages.json")
      /\ Spares(Pending', "pip-audit.json") /\ Spares(Pending', "sbom.cdx.json")
      /\ Spares(Pending', "parity.json") /\ Spares(Pending', "diagnostics.json")
  BY OutputNames
<1>4. /\ Will(files', Pending', Packages("lock-export.txt", found'.lock))
      /\ Will(files', Pending', Packages("lock-selection.json", found'.lock))
      /\ Will(files', Pending', Packages("dependency-tree.json", found'.tree))
      /\ Will(files', Pending', Packages("installed-packages.json", found'.installed))
      /\ Will(files', Pending', Results("pip-audit.json", found'.audit))
      /\ Will(files', Pending', Results("sbom.cdx.json", found'.sbom))
      /\ found'.audit.findings = found'.sbom.findings
  BY <1>1, <1>2, <1>3, ReportsAreKept
<1>5. Will(files', Pending',
          Write("parity.json", Holding(IF ExactParity' THEN "exact" ELSE "mismatch")))
  BY <1>1, <1>2, <1>3, VerdictIsKept
<1>6. ExactParity /\ Promised(Diagnose("complete"))
  BY <1>1 DEF Generated
<1>7. Will(files', Pending', Diagnose("complete"))
  BY <1>3, <1>6, EntryFields
<1>8. ExactParity'
  BY <1>6 DEF ExactParity
<1> QED
  BY <1>4, <1>5, <1>7, <1>8 DEF Generated, Promised

\* When the reports are written and found exact, the files agree.
LEMMA FilesAgree ==
    ASSUME EvidenceInv, pc = "validate", todo = <<>>,
           NEW fs, \A o \in Listed : fs[o] = files[o]
    PROVE  Parity(fs, found.audit.findings)
<1>1. \A e : Promised(e) => files[e.file] = e.says
  BY Elements DEF Promised, Will, Pending
<1>2. /\ Promised(Packages("lock-export.txt", found.lock))
      /\ Promised(Packages("lock-selection.json", found.lock))
      /\ Promised(Packages("dependency-tree.json", found.tree))
      /\ Promised(Packages("installed-packages.json", found.installed))
      /\ Promised(Results("pip-audit.json", found.audit))
      /\ Promised(Results("sbom.cdx.json", found.sbom))
      /\ found.audit.findings = found.sbom.findings
      /\ Promised(Write("parity.json", Holding(IF ExactParity THEN "exact" ELSE "mismatch")))
      /\ ExactParity /\ Promised(Diagnose("complete"))
  BY Stages DEF EvidenceInv, Generated
<1>3. /\ files["lock-export.txt"] = Packages("lock-export.txt", found.lock).says
      /\ files["lock-selection.json"] = Packages("lock-selection.json", found.lock).says
      /\ files["dependency-tree.json"] = Packages("dependency-tree.json", found.tree).says
      /\ files["installed-packages.json"]
           = Packages("installed-packages.json", found.installed).says
      /\ files["pip-audit.json"] = Results("pip-audit.json", found.audit).says
      /\ files["sbom.cdx.json"] = Results("sbom.cdx.json", found.sbom).says
      /\ files["parity.json"] = Holding("exact")
      /\ files["diagnostics.json"] = Holding("complete")
  BY <1>1, <1>2, EntryFields
<1>4. /\ \A o, g : Packages(o, g).says.packages = g
      /\ \A o, report : /\ Results(o, report).says.packages = report.packages
                        /\ Results(o, report).says.findings = report.findings
  BY DEF Packages, Results, Write, Holding
<1>5. /\ found.lock \in Graphs /\ found.tree \in Graphs /\ found.installed \in Graphs
      /\ found.audit.packages \in Graphs /\ found.sbom.packages \in Graphs
  BY DEF EvidenceInv, Typed, Found, Report
<1>6. /\ found.tree = found.lock /\ found.installed = found.lock
      /\ found.audit.packages = found.lock /\ found.sbom.packages = found.lock
  <2>1. /\ Exact(found.lock, found.tree) /\ Exact(found.lock, found.installed)
        /\ Exact(found.lock, found.audit.packages) /\ Exact(found.lock, found.sbom.packages)
    BY <1>2 DEF ExactParity
  <2> QED
    BY <1>5, <2>1, ExactIsEqual
<1> QED
  BY <1>2, <1>3, <1>4, <1>6, OutputNames, EntryFields DEF Parity

LEMMA ValidatedKeeps ==
    ASSUME EvidenceInv, Validated
    PROVE  EvidenceInv'
<1>1. /\ pc = "validate" /\ todo = <<>> /\ pc' = "confirm"
      /\ todo' = <<Write("completion.json", Completion)>>
      /\ UNCHANGED <<files, by, stray, lock, env, changes, used, run, found>>
  BY DEF Validated, Goto, world
<1>2. /\ Completion.state = "text" /\ Completion.findings = found.audit.findings
      /\ Completion.digests = [o \in Listed |-> files[o]]
  BY DEF Completion, Holding
<1>3. [o \in Listed |-> files[o]] \in [Listed -> Content]
  <2>1. ASSUME NEW o \in Listed PROVE files[o] \in Content
    BY DEF EvidenceInv, Typed, Stored, Content, Listed
  <2> QED
    BY <2>1
<1>4. Write("completion.json", Completion) \in Entry
  <2>1. found.audit.findings \in 0..1
    BY DEF EvidenceInv, Typed, Found, Report
  <2>2. Completion \in Stored
    BY <1>3, <2>1 DEF Completion, Holding, Stored, States
  <2> QED
    BY <2>2, OutputNames DEF Write, Entry
<1>5. /\ Pending' = {Write("completion.json", Completion)}
      /\ todo' \in Seq(Entry) /\ found' \in Found
  BY <1>1, <1>4, Elements DEF Pending, EvidenceInv, Typed
<1>6. Sound(Completion)
  <2>1. \A o \in Listed : Completion.digests[o] = files[o]
    BY <1>2
  <2> QED
    BY <1>1, <1>2, <2>1, FilesAgree DEF Sound
<1>7. \A o \in Listed : Spares(Pending', o)
  BY <1>5, EntryFields, OutputNames DEF Spares
<1>8. /\ Typed' /\ Completions' /\ OwnFiles' /\ Reported' /\ SetUp'
      /\ \A e : Promised(e) /\ Spares(Pending', e.file) => Will(files', Pending', e)
      /\ \A e \in Pending' : (\A w \in Pending' : w.file = e.file => w = e)
                               => Will(files', Pending', e)
  <2>1. pc \in Generation /\ pc' \in Generation
    BY <1>1 DEF Generation
  <2>2. \A w \in Pending' : w.file = "completion.json" /\ w.file \notin Listed /\ Sound(w.says)
    BY <1>5, <1>6, EntryFields, OutputNames
  <2>3. Spares(Pending', "bootstrap.log") /\ Spares(Pending', "scanner-install.log")
    BY <1>7, OutputNames
  <2> QED
    BY <1>1, <1>5, <2>1, <2>2, <2>3, GenerationStep
<1>9. Generated'
  BY <1>1, <1>7, <1>8, GeneratedIsKept, Stages
<1>10. Completion' = Completion
  BY <1>1 DEF Completion
<1>11. Will(files', Pending', Write("completion.json", Completion'))
  BY <1>5, <1>8, <1>10
<1>12. Sealed'
  BY <1>1, <1>7, <1>11, Stages DEF Sealed, Promised, Untouched
<1> QED
  BY <1>8, <1>9, <1>12 DEF EvidenceInv

LEMMA ConfirmedKeeps ==
    ASSUME EvidenceInv, Confirmed
    PROVE  EvidenceInv'
<1>1. /\ pc = "confirm" /\ todo = <<>> /\ pc' = "complete" /\ todo' = <<>>
      /\ UNCHANGED <<files, by, stray, lock, env, changes, used, run, found>>
      /\ \A o \in SuccessfulOutputs : files[o] # Missing
  BY DEF Confirmed, Goto, world, CompleteOutputs
<1>2. Pending' = {} /\ todo' \in Seq(Entry) /\ found' \in Found
  BY <1>1, Elements DEF Pending, EvidenceInv, Typed
<1>3. \A o : Spares(Pending', o)
  BY <1>2 DEF Spares
<1>4. /\ Typed' /\ Completions' /\ OwnFiles' /\ Reported' /\ SetUp'
      /\ \A e : Promised(e) /\ Spares(Pending', e.file) => Will(files', Pending', e)
  BY <1>1, <1>2, <1>3, GenerationStep DEF Generation
<1>5. Generated'
  BY <1>1, <1>3, <1>4, GeneratedIsKept, Stages
<1>6. Promised(Write("completion.json", Completion)) /\ Completion' = Completion
  BY <1>1, Stages DEF EvidenceInv, Sealed, Completion
<1>7. Will(files', Pending', Write("completion.json", Completion'))
  BY <1>3, <1>4, <1>6
<1>8. Sealed'
  BY <1>1, <1>3, <1>7 DEF Sealed, Promised, Untouched
<1> QED
  BY <1>4, <1>5, <1>8 DEF EvidenceInv

\* Writing the next file.
LEMMA WriteFileKeeps ==
    ASSUME EvidenceInv, WriteFile
    PROVE  EvidenceInv'
<1> DEFINE first == Head(todo)
<1>1. /\ todo # <<>> /\ todo' = Tail(todo)
      /\ files' = [files EXCEPT ![first.file] = first.says]
      /\ by' = [by EXCEPT ![first.file] = run]
      /\ UNCHANGED <<stray, lock, env, changes, used, run, pc, found>>
  BY DEF WriteFile, world
<1>2. /\ files \in [SuccessfulOutputs -> Stored] /\ todo \in Seq(Entry)
      /\ by \in [SuccessfulOutputs -> Run \cup {None}] /\ run \in Run \cup {None}
      /\ \A o \in Listed : files[o].digests = None
      /\ \A w \in Pending : w.file \in Listed => w.says.digests = None
      /\ Listed \subseteq SuccessfulOutputs
  BY DEF EvidenceInv, Typed, Listed
<1>3. /\ first \in Entry /\ todo' \in Seq(Entry)
      /\ Pending = {first} \cup Pending'
  BY <1>1, <1>2, FirstWrite DEF Pending
<1>4. first.file \in SuccessfulOutputs /\ first.says \in Stored /\ first \in Pending
  BY <1>3 DEF Entry
<1> HIDE DEF first
<1>5. \A o \in SuccessfulOutputs :
        /\ o = first.file => files'[o] = first.says /\ by'[o] = run
        /\ o # first.file => files'[o] = files[o] /\ by'[o] = by[o]
  BY <1>1, <1>2, <1>4
<1>6. \A e : e.file \in SuccessfulOutputs /\ Promised(e) => Will(files', Pending', e)
  BY <1>1, <1>2, <1>3, WriteKeepsPromise DEF Promised
<1>7. \A o \in SuccessfulOutputs :
        Untouched(o) => Spares(Pending', o) /\ files'[o] = files[o]
  BY <1>3, <1>4, <1>5 DEF Untouched, Spares
<1>8. Typed'
  <2>1. /\ files' \in [SuccessfulOutputs -> Stored]
        /\ by' \in [SuccessfulOutputs -> Run \cup {None}]
    BY <1>1, <1>2, <1>4
  <2>2. \A o \in Listed : files'[o].digests = None
    BY <1>2, <1>4, <1>5
  <2>3. \A w \in Pending' : w.file \in Listed => w.says.digests = None
    BY <1>2, <1>3
  <2> QED
    BY <1>1, <1>3, <2>1, <2>2, <2>3 DEF EvidenceInv, Typed
<1>9. Completions'
  <2>1. \A w \in Pending : w.file = "completion.json" => Sound(w.says)
    BY DEF EvidenceInv, Completions
  <2>2. Sound(files["completion.json"])
    BY DEF EvidenceInv, Completions
  <2>3. Sound(files'["completion.json"])
    BY <1>4, <1>5, <2>1, <2>2, OutputNames
  <2> QED
    BY <1>3, <2>1, <2>3 DEF Completions
<1>10. OwnFiles'
  <2>1. ASSUME pc = "setup", NEW o \in SuccessfulOutputs
        PROVE  by'[o] = run' \/ ~Spares(Pending', o)
    <3>1. by[o] = run \/ ~Spares(Pending, o)
      BY <2>1 DEF EvidenceInv, OwnFiles, Untouched
    <3> QED
      BY <1>1, <1>3, <1>5, <3>1 DEF Spares
  <2>2. ASSUME pc \in {"scanner", "generate", "complete", "failed"} \cup Generation,
               NEW o \in SuccessfulOutputs
        PROVE  by'[o] = run'
    <3>1. by[o] = run
      BY <2>2 DEF EvidenceInv, OwnFiles
    <3> QED
      BY <1>1, <1>5, <3>1
  <2> QED
    BY <1>1, <2>1, <2>2 DEF OwnFiles, Untouched
<1>11. \A o \in ToSet(SetupOutputs) : o \in SuccessfulOutputs
  BY DEF SuccessfulOutputs
<1>12. SetUp'
  <2>1. pc \in Setup => Will(files', Pending', Write("completion.json", Missing))
    BY <1>6, EntryFields, OutputNames DEF EvidenceInv, SetUp
  <2>2. pc \in {"scanner", "generate"} => Spares(Pending', "completion.json")
    BY <1>7, OutputNames DEF EvidenceInv, SetUp
  <2>3. pc \in {"scanner", "generate"} => Will(files', Pending', Text("bootstrap.log"))
    BY <1>6, EntryFields, OutputNames DEF EvidenceInv, SetUp
  <2>4. pc = "generate" => Will(files', Pending', Text("scanner-install.log"))
    BY <1>6, EntryFields, OutputNames DEF EvidenceInv, SetUp
  <2>5. ASSUME pc \in Generation, NEW o \in ToSet(SetupOutputs)
        PROVE  files'[o] # Missing /\ Spares(Pending', o)
    BY <1>7, <1>11, <2>5 DEF EvidenceInv, SetUp
  <2> QED
    BY <1>1, <2>1, <2>2, <2>3, <2>4, <2>5 DEF SetUp, Promised, Untouched
<1>13. Generated'
  <2>1. Generated
    BY DEF EvidenceInv
  <2>2. pc \in Treeing =>
          /\ Will(files', Pending', Packages("lock-export.txt", found.lock))
          /\ Will(files', Pending', Packages("lock-selection.json", found.lock))
    BY <1>6, <2>1, EntryFields, OutputNames DEF Generated
  <2>3. pc \in Inventorying => Will(files', Pending', Packages("dependency-tree.json", found.tree))
    BY <1>6, <2>1, EntryFields, OutputNames DEF Generated
  <2>4. pc \in Browsing =>
          Will(files', Pending', Packages("installed-packages.json", found.installed))
    BY <1>6, <2>1, EntryFields, OutputNames DEF Generated
  <2>5. pc \in Comparing =>
          /\ Will(files', Pending', Results("pip-audit.json", found.audit))
          /\ Will(files', Pending', Results("sbom.cdx.json", found.sbom))
          /\ found.audit.findings = found.sbom.findings
    BY <1>6, <2>1, EntryFields, OutputNames DEF Generated
  <2>6. pc \in Requiring =>
          Will(files', Pending',
               Write("parity.json", Holding(IF ExactParity THEN "exact" ELSE "mismatch")))
    BY <1>6, <2>1, EntryFields, OutputNames DEF Generated
  <2>7. pc \in Validating => ExactParity /\ Will(files', Pending', Diagnose("complete"))
    BY <1>6, <2>1, EntryFields, OutputNames DEF Generated
  <2>8. ExactParity' = ExactParity
    BY <1>1 DEF ExactParity
  <2> QED
    BY <1>1, <2>2, <2>3, <2>4, <2>5, <2>6, <2>7, <2>8 DEF Generated, Promised
<1>14. Sealed'
  <2>1. pc # "complete"
    BY <1>1 DEF EvidenceInv, Sealed
  <2>2. ASSUME pc \in Confirming
        PROVE  /\ Will(files', Pending', Write("completion.json", Completion'))
               /\ \A o \in Listed : Spares(Pending', o)
    <3>1. /\ Promised(Write("completion.json", Completion))
          /\ \A o \in Listed : Untouched(o)
      BY <2>2 DEF EvidenceInv, Sealed
    <3>2. \A o \in Listed : files'[o] = files[o] /\ Spares(Pending', o)
      BY <1>2, <1>7, <3>1
    <3>3. Completion' = Completion
      BY <1>1, <3>2 DEF Completion
    <3> QED
      BY <1>6, <3>1, <3>2, <3>3, EntryFields, OutputNames
  <2> QED
    BY <1>1, <2>1, <2>2 DEF Sealed, Promised, Untouched
<1>15. Reported'
  <2>1. ASSUME pc = "failed"
        PROVE  /\ Will(files', Pending', Write("completion.json", Missing))
               /\ Will(files', Pending', Diagnose("failed"))
    BY <1>6, <2>1, EntryFields, OutputNames DEF EvidenceInv, Reported
  <2>2. ASSUME pc = "failed", NEW o \in ToSet(SetupOutputs)
        PROVE  Remains(files', Pending', o)
    <3>1. Remains(files, {first} \cup Pending', o)
      BY <1>3, <2>2 DEF EvidenceInv, Reported
    <3> QED
      BY <1>1, <1>2, <1>3, <1>11, <3>1, WriteKeepsFile
  <2> QED
    BY <1>1, <2>1, <2>2 DEF Reported, Promised
<1> QED
  BY <1>8, <1>9, <1>10, <1>12, <1>13, <1>14, <1>15 DEF EvidenceInv

LEMMA StutterKeeps ==
    ASSUME EvidenceInv, UNCHANGED vars
    PROVE  EvidenceInv'
<1>1. /\ UNCHANGED <<files, by, stray, lock, env, changes, used, run, pc, todo, found>>
      /\ Pending' = Pending
  BY DEF vars, world, Pending
<1>2. Typed'
  BY <1>1 DEF EvidenceInv, Typed
<1>3. Completions' /\ OwnFiles' /\ SetUp' /\ Reported'
  BY <1>1 DEF EvidenceInv, Completions, OwnFiles, SetUp, Reported, Promised, Untouched
<1>4. ExactParity' = ExactParity /\ Completion' = Completion
  BY <1>1 DEF ExactParity, Completion
<1>5. Generated'
  BY <1>1, <1>4 DEF EvidenceInv, Generated, Promised
<1>6. Sealed'
  BY <1>1, <1>4 DEF EvidenceInv, Sealed, Promised, Untouched
<1> QED
  BY <1>2, <1>3, <1>5, <1>6 DEF EvidenceInv

LEMMA StepKeeps == EvidenceInv /\ [Next]_vars => EvidenceInv'
<1> SUFFICES ASSUME EvidenceInv, [Next]_vars PROVE EvidenceInv'
  OBVIOUS
<1>1. ASSUME NEW r \in Run, Begin(r) PROVE EvidenceInv'
  BY <1>1, BeginKeeps
<1>2. ASSUME NEW audit \in Report, NEW sbom \in Report, Scanned(audit, sbom) PROVE EvidenceInv'
  BY <1>2, ScannedKeeps
<1> QED
  BY <1>1, <1>2, WriteFileKeeps, BootstrappedKeeps, ScannerInstalledKeeps, SetupFailsKeeps,
     StartGenerationKeeps, VerifiedKeeps, ExportedKeeps, TreeReadKeeps, InventoriedKeeps,
     BrowsersReadKeeps, ParsedKeeps, ComparedKeeps, ParityRequiredKeeps, ValidatedKeeps,
     ConfirmedKeeps, GenerationFailsKeeps, KilledKeeps, ByHandKeeps, StutterKeeps DEF Next

LEMMA EvidenceKept == Spec => []EvidenceInv
BY Start, StepKeeps, PTL DEF Spec

-----------------------------------------------------------------------------

\* The files, what is to be written and what was parsed keep their types.
THEOREM TypeCorrect == Spec => []TypeOK
<1>1. EvidenceInv => TypeOK
  <2> SUFFICES ASSUME EvidenceInv PROVE TypeOK
    OBVIOUS
  <2> DEFINE last == files["completion.json"]
  <2>1. Typed
    BY DEF EvidenceInv
  <2>2. ASSUME NEW o \in Listed PROVE files[o] \in Content
    BY <2>1 DEF Typed, Stored, Content, Listed
  <2>3. last \in Stored
    BY <2>1, OutputNames DEF Typed
  <2>4. [last EXCEPT !.digests = None] \in Content
    BY <2>3 DEF Stored, Content
  <2>5. last.digests = None \/ last.digests \in [Listed -> Content]
    BY <2>3 DEF Stored
  <2>6. DOMAIN files = SuccessfulOutputs
    BY <2>1 DEF Typed
  <2>7. ASSUME NEW i \in DOMAIN todo PROVE todo[i].file \in SuccessfulOutputs
    <3>1. todo \in Seq(Entry)
      BY <2>1 DEF Typed
    <3>2. todo[i] \in Entry
      BY <3>1
    <3> QED
      BY <3>2 DEF Entry
  <2> QED
    BY <2>1, <2>2, <2>4, <2>5, <2>6, <2>7 DEF Typed, TypeOK
<1> QED
  BY <1>1, EvidenceKept, PTL

\* Whatever was killed, has failed or was changed by hand before: a directory
\* that validates shows the same packages in every report and the same
\* findings in both, since a completion.json that is whole names the digests
\* of files that agreed when _write_completion ran.
THEOREM ValidatedAgrees == Spec => []ValidatedMeansParity
<1>1. EvidenceInv => ValidatedMeansParity
  <2> SUFFICES ASSUME EvidenceInv, Validates PROVE ValidatedMeansParity
    BY DEF ValidatedMeansParity
  <2> DEFINE c == files["completion.json"]
  <2>1. Parity(c.digests, c.findings)
    BY DEF EvidenceInv, Completions, Sound, Validates
  <2>2. \A o \in Listed : files[o] = c.digests[o]
    BY DEF Validates
  <2> HIDE DEF c
  <2>3. Parity(files, c.findings)
    BY <2>1, <2>2, OutputNames DEF Parity
  <2> QED
    BY <2>3 DEF Parity, ValidatedMeansParity, c
<1> QED
  BY <1>1, EvidenceKept, PTL

\* A command that ends with success leaves sixteen files, all of them its own,
\* and a completion.json with their digests.
THEOREM SuccessValidates == Spec => []SuccessIsValidated
<1>1. EvidenceInv => SuccessIsValidated
  <2> SUFFICES ASSUME EvidenceInv, pc = "complete", ~stray
               PROVE  Validates /\ \A o \in SuccessfulOutputs : by[o] = run
    BY DEF SuccessIsValidated
  <2>1. /\ Promised(Write("completion.json", Completion)) /\ todo = <<>>
        /\ \A o \in SuccessfulOutputs : files[o] # Missing
    BY Stages DEF EvidenceInv, Sealed
  <2>2. files["completion.json"] = Completion
    BY <2>1, Elements, EntryFields DEF Promised, Will, Pending
  <2>3. Completion.state = "text" /\ \A o \in Listed : Completion.digests[o] = files[o]
    BY DEF Completion, Holding
  <2>4. Validates
    BY <2>1, <2>2, <2>3 DEF Validates, CompleteOutputs
  <2>5. \A o \in SuccessfulOutputs : by[o] = run
    BY DEF EvidenceInv, OwnFiles
  <2> QED
    BY <2>4, <2>5
<1> QED
  BY <1>1, EvidenceKept, PTL

\* When write_failure_diagnostics or the handler of the generation is done,
\* there is no completion, there are diagnostics of this run and its two logs.
THEOREM FailureReports == Spec => []FailureIsReported
<1>1. EvidenceInv => FailureIsReported
  <2> SUFFICES ASSUME EvidenceInv, pc = "failed", todo = <<>>
               PROVE  /\ files["completion.json"] = Missing
                      /\ files["diagnostics.json"].state = "failed"
                      /\ by["diagnostics.json"] = run
                      /\ \A o \in ToSet(SetupOutputs) : files[o] # Missing /\ by[o] = run
    BY DEF FailureIsReported
  <2>1. /\ Promised(Write("completion.json", Missing)) /\ Promised(Diagnose("failed"))
        /\ \A o \in ToSet(SetupOutputs) : Remains(files, Pending, o)
    BY DEF EvidenceInv, Reported
  <2>2. Pending = {}
    BY Elements DEF Pending
  <2>3. files["completion.json"] = Missing /\ files["diagnostics.json"] = Holding("failed")
    BY <2>1, <2>2, EntryFields DEF Promised, Will
  <2>4. \A o \in ToSet(SetupOutputs) : files[o] # Missing
    BY <2>1, <2>2 DEF Remains, Spares
  <2>5. \A o \in SuccessfulOutputs : by[o] = run
    BY DEF EvidenceInv, OwnFiles
  <2> QED
    BY <2>3, <2>4, <2>5, EntryFields, SetupNames, OutputNames
<1> QED
  BY <1>1, EvidenceKept, PTL
=============================================================================
