------------------------ MODULE EvidenceFilesProofs ------------------------
(***************************************************************************)
(* Theorems about EvidenceFiles, for every set of operators, of responses  *)
(* and of pools: what a bundle stores of a response, what its manifest     *)
(* lists, and that bundles and reports of one block agree.                 *)
(***************************************************************************)
EXTENDS EvidenceFiles, Folding

\* Manifest::add_file leaves a list of entries.
LEMMA AddFileType ==
  ASSUME NEW E, NEW list \in Seq(E), NEW e \in E
  PROVE  AddFile(list, e) \in Seq(E)
<1> DEFINE S == {i \in DOMAIN list : list[i].path < e.path}
           k == 1 + Cardinality(S)
<1>1. DOMAIN list = 1 .. Len(list) /\ Len(list) \in Nat
  OBVIOUS
<1>2. Cardinality(S) \in 0 .. Len(list)
  <2>1. IsFiniteSet(1 .. Len(list)) /\ Cardinality(1 .. Len(list)) = Len(list)
    <3>1. \A a, b \in Int : Cardinality(a .. b) = IF a > b THEN 0 ELSE b - a + 1
      BY FS_Interval
    <3>2. IsFiniteSet(1 .. Len(list))
      BY <1>1, FS_Interval
    <3> QED BY <1>1, <3>1, <3>2
  <2>2. S \in SUBSET (1 .. Len(list))
    BY <1>1
  <2> HIDE DEF S
  <2>3. Cardinality(S) \in Nat /\ Cardinality(S) <= Cardinality(1 .. Len(list))
    BY <2>1, <2>2, FS_Subset, FS_CardinalityType
  <2> QED BY <1>1, <2>1, <2>3
<1>3. k - 1 \in 0 .. Len(list) /\ k \in 1 .. Len(list) + 1
  <2> HIDE DEF S
  <2> QED BY <1>1, <1>2
<1>4. AddFile(list, e) = SubSeq(list, 1, k - 1) \o <<e>> \o SubSeq(list, k, Len(list))
  BY DEF AddFile, InsertAt
<1> HIDE DEF k
<1>5. SubSeq(list, 1, k - 1) \in Seq(E) /\ SubSeq(list, k, Len(list)) \in Seq(E) /\ <<e>> \in Seq(E)
  BY <1>1, <1>3
<1> QED BY <1>4, <1>5

\* The list of a manifest is built one entry after the other.
Inserts(g, list) ==
  g[0] = <<>> /\ \A n \in 1 .. Len(list) : g[n] = AddFile(g[n - 1], list[n])

LEMMA BuildSteps ==
  ASSUME NEW E, NEW list \in Seq(E)
  PROVE  \E g : Inserts(g, list) /\ FoldLeft(AddFile, <<>>, list) = g[Len(list)]
<1> DEFINE len == Len(list)
           Step(i) == [s \in SUBSET (1 .. len) |->
                         IF s = {} THEN <<>> ELSE AddFile(i[s \ {Max(s)}], list[Max(s)])]
           iter == CHOOSE i : i = Step(i)
           F == [n \in 1 .. len |-> [v \in Seq(E) |-> AddFile(v, list[n])]]
<1>1. len \in Nat /\ DOMAIN list = 1 .. len /\ \A n \in 1 .. len : list[n] \in E
  OBVIOUS
<1>2. F \in [1 .. len -> [Seq(E) -> Seq(E)]]
  <2>1. \A n \in 1 .. len : \A v \in Seq(E) : AddFile(v, list[n]) \in Seq(E)
    BY <1>1, AddFileType
  <2> QED BY <2>1
<1>3. <<>> \in Seq(E)
  OBVIOUS
<1>4. PICK g \in [SUBSET (1 .. len) -> Seq(E)] :
        \A s \in SUBSET (1 .. len) :
          g[s] = IF s = {} THEN <<>> ELSE F[Max(s)][g[s \ {Max(s)}]]
  <2> HIDE DEF len, F
  <2>1. IsStep(len, Seq(E), F)
    BY <1>2 DEF IsStep
  <2>2. HasLeftFold(len, Seq(E), <<>>, F)
    BY <1>1, <1>3, <2>1, FoldLeftExists
  <2> QED BY <2>2 DEF HasLeftFold
<1>5. g = Step(g)
  <2>1. ASSUME NEW s \in SUBSET (1 .. len), s # {}
        PROVE F[Max(s)][g[s \ {Max(s)}]] = AddFile(g[s \ {Max(s)}], list[Max(s)])
    <3>1. Max(s) \in 1 .. len
      <4>1. s \in SUBSET Nat /\ \A x \in s : x <= len
        BY <1>1
      <4>2. Max(s) \in s
        <5> HIDE DEF len
        <5> QED BY <1>1, <2>1, <4>1, GreatestNat
      <4> QED BY <4>2
    <3>2. g[s \ {Max(s)}] \in Seq(E)
      OBVIOUS
    <3> HIDE DEF len
    <3> QED BY <3>1, <3>2
  <2> HIDE DEF F, len
  <2> QED BY <1>4, <2>1
<1>6. iter = Step(iter)
  BY <1>5
<1>7. FoldLeft(AddFile, <<>>, list) = iter[1 .. len]
  BY <1>1 DEF FoldLeft, MapThenFoldSet
<1> DEFINE h == [n \in 0 .. len |-> iter[1 .. n]]
<1>8. \A s \in SUBSET (1 .. len) :
        iter[s] = IF s = {} THEN <<>> ELSE AddFile(iter[s \ {Max(s)}], list[Max(s)])
  <2> HIDE DEF iter
  <2> QED BY <1>6
<1> HIDE DEF iter, len
<1>9. h[0] = <<>>
  <2>1. 1 .. 0 = {} /\ 0 \in 0 .. len
    BY <1>1
  <2> QED BY <1>8, <2>1
<1>10. ASSUME NEW n \in 1 .. len PROVE h[n] = AddFile(h[n - 1], list[n])
  <2>1. n \in Nat /\ n # 0 /\ n - 1 \in 0 .. len /\ n \in 0 .. len
    BY <1>1
  <2>2. Max(1 .. n) = n /\ (1 .. n) \ {n} = 1 .. n - 1
    BY <2>1, MaxOfPrefix
  <2>3. 1 .. n \in SUBSET (1 .. len) /\ 1 .. n # {}
    <3>1. len \in Nat /\ n \in Nat /\ n <= len /\ 1 <= n
      BY <1>1, SMT
    <3>2. \A i \in 1 .. n : i \in 1 .. len
      BY <3>1, SMT
    <3>3. n \in 1 .. n
      BY <3>1, SMT
    <3> QED BY <3>2, <3>3
  <2> DEFINE s == 1 .. n
  <2> HIDE DEF s
  <2>4. iter[s] = AddFile(iter[s \ {n}], list[n])
    BY <1>8, <2>2, <2>3 DEF s
  <2> QED BY <2>1, <2>2, <2>4 DEF s
<1>11. FoldLeft(AddFile, <<>>, list) = h[len]
  BY <1>1, <1>7
<1> HIDE DEF h
<1> QED BY <1>9, <1>10, <1>11 DEF Inserts, len

LEMMA Joined ==
  ASSUME NEW E, NEW x \in E, NEW y \in E
  PROVE  <<x>> \o <<y>> = <<x, y>>
<1> DEFINE s == <<x>>
           t == <<y>>
<1>1. s \in Seq(E) /\ Len(s) = 1 /\ s[1] = x /\ t \in Seq(E) /\ Len(t) = 1 /\ t[1] = y
  OBVIOUS
<1> HIDE DEF s, t
<1>2. /\ s \o t \in Seq(E)
      /\ Len(s \o t) = Len(s) + Len(t)
      /\ \A i \in 1 .. Len(s) + Len(t) : (s \o t)[i] = IF i <= Len(s) THEN s[i] ELSE t[i - Len(s)]
  <2>1. \A u, v \in Seq(E) : u \o v \in Seq(E)
    OBVIOUS
  <2>2. \A u, v \in Seq(E) : Len(u \o v) = Len(u) + Len(v)
    OBVIOUS
  <2>3. \A u, v \in Seq(E) : \A i \in 1 .. Len(u) + Len(v) :
          (u \o v)[i] = IF i <= Len(u) THEN u[i] ELSE v[i - Len(u)]
    OBVIOUS
  <2> QED BY <1>1, <2>1, <2>2, <2>3
<1> DEFINE r == s \o t
<1> HIDE DEF r
<1>3. r \in Seq(E) /\ Len(r) = 2 /\ r[1] = x /\ r[2] = y
  BY <1>1, <1>2 DEF r
<1>4. r = <<x, y>>
  BY <1>3
<1> QED BY <1>4 DEF r, s, t

\* The three files of a bundle, in the order of their paths.
LEMMA ThreeSorted ==
  ASSUME NEW E, NEW n \in E, NEW b \in E, NEW p \in E,
         n.path = 3, b.path = 1, p.path = 2
  PROVE  FoldLeft(AddFile, <<>>, <<n, b, p>>) = <<b, p, n>>
<1> DEFINE list == <<n, b, p>>
<1>1. list \in Seq(E) /\ Len(list) = 3 /\ list[1] = n /\ list[2] = b /\ list[3] = p
  OBVIOUS
<1> HIDE DEF list
<1>2. PICK g : Inserts(g, list) /\ FoldLeft(AddFile, <<>>, list) = g[Len(list)]
  BY <1>1, BuildSteps
<1>3. /\ g[0] = <<>> /\ g[1] = AddFile(g[0], n) /\ g[2] = AddFile(g[1], b) /\ g[3] = AddFile(g[2], p)
      /\ FoldLeft(AddFile, <<>>, list) = g[3]
  <2>1. \A k \in 1 .. 3 : g[k] = AddFile(g[k - 1], list[k])
    BY <1>1, <1>2 DEF Inserts
  <2>2. g[1] = AddFile(g[1 - 1], list[1]) /\ g[2] = AddFile(g[2 - 1], list[2])
        /\ g[3] = AddFile(g[3 - 1], list[3])
    BY <2>1
  <2>3. 1 - 1 = 0 /\ 2 - 1 = 1 /\ 3 - 1 = 2
    OBVIOUS
  <2>4. g[0] = <<>> /\ FoldLeft(AddFile, <<>>, list) = g[3]
    BY <1>1, <1>2 DEF Inserts
  <2> QED BY <1>1, <2>2, <2>3, <2>4
<1>e. Cardinality({}) = 0
  BY FS_EmptySet
<1>4. AddFile(<<>>, n) = <<n>>
  <2>1. {i \in DOMAIN <<>> : <<>>[i].path < n.path} = {}
    OBVIOUS
  <2>2. AddFile(<<>>, n) = InsertAt(<<>>, 1, n)
    BY <1>e, <2>1 DEF AddFile
  <2> QED BY <2>2 DEF InsertAt
<1>5. AddFile(<<n>>, b) = <<b, n>>
  <2>1. {i \in DOMAIN <<n>> : <<n>>[i].path < b.path} = {}
    OBVIOUS
  <2>2. 1 + Cardinality({i \in DOMAIN <<n>> : <<n>>[i].path < b.path}) = 1
    BY <1>e, <2>1
  <2>3. AddFile(<<n>>, b) = InsertAt(<<n>>, 1, b)
    BY <2>2 DEF AddFile
  <2> DEFINE s == <<n>>
  <2>s. s \in Seq(E) /\ Len(s) = 1 /\ s[1] = n
    OBVIOUS
  <2>4. SubSeq(s, 1, 1 - 1) = <<>> /\ SubSeq(s, 1, Len(s)) = s
    <3> HIDE DEF s
    <3>1. SubSeq(s, 1, 1 - 1) \in Seq(E) /\ Len(SubSeq(s, 1, 1 - 1)) = 0
      BY <2>s
    <3>2. SubSeq(s, 1, Len(s)) = s
      BY <2>s
    <3> QED BY <3>1, <3>2
  <2>5. <<>> \o <<b>> \o <<n>> = <<b, n>>
    <3>1. <<>> \o <<b>> = <<b>>
      OBVIOUS
    <3>2. <<b>> \o <<n>> = <<b, n>>
      BY Joined
    <3> QED BY <3>1, <3>2
  <2> QED BY <2>3, <2>4, <2>5 DEF InsertAt
<1>6. AddFile(<<b, n>>, p) = <<b, p, n>>
  <2>1. {i \in DOMAIN <<b, n>> : <<b, n>>[i].path < p.path} = {1}
    OBVIOUS
  <2>2. Cardinality({1}) = 1
    BY FS_Singleton
  <2>3. 1 + Cardinality({i \in DOMAIN <<b, n>> : <<b, n>>[i].path < p.path}) = 2
    BY <2>1, <2>2
  <2>4. AddFile(<<b, n>>, p) = InsertAt(<<b, n>>, 2, p)
    BY <2>3 DEF AddFile
  <2> QED BY <2>4 DEF InsertAt
<1> QED BY <1>3, <1>4, <1>5, <1>6 DEF list

\* A path recorded for the first time is added to the list.
LEMMA RecordNew ==
  ASSUME NEW E, NEW list \in Seq(E), NEW e \in E,
         \A i \in 1 .. Len(list) : list[i].path # e.path
  PROVE  RecordFile(list, e) = Append(list, e)
<1> DEFINE kept == {f \in Range(list) : f.path # e.path}
<1>1. \A i \in 1 .. Len(list) : list[i] \in kept
  BY DEF Range
<1> HIDE DEF kept
<1>2. Retain(list, kept) = list
  BY <1>1, RetainAll
<1> QED BY <1>2 DEF RecordFile, kept

-----------------------------------------------------------------------------
\* The greatest index that states a figure is the only one no other exceeds.
LEMMA StatedIsLastWord ==
  ASSUME NEW r, r.pools \in Seq(Range(r.pools)), r.pools \notin {Absent, Text},
         NEW p, NEW f \in Fields
  PROVE  Stated(Project(r), p, f) = LastWord(r, p, f)
<1> DEFINE words == {i \in DOMAIN r.pools : r.pools[i].id = p /\ r.pools[i][f] # Absent}
           file == Project(r)
           stating == {i \in DOMAIN file.pools : file.pools[i].id = p /\ file.pools[i][f] # Absent}
<1>1. file.pools = [i \in DOMAIN r.pools |-> ProjectPool(r.pools[i])]
  BY DEF Project
<1>2. \A i \in DOMAIN r.pools : file.pools[i].id = r.pools[i].id /\ file.pools[i][f] = r.pools[i][f]
  BY <1>1 DEF ProjectPool, Fields, Figures
<1>3. stating = words
  BY <1>1, <1>2
<1>4. Stated(file, p, f) = IF stating = {} THEN Absent ELSE file.pools[Max(stating)][f]
  BY DEF Stated
<1>5. LastWord(r, p, f) = IF words = {} THEN Absent
                          ELSE r.pools[CHOOSE i \in words : \A j \in words : j <= i][f]
  BY DEF LastWord
<1>6. DOMAIN r.pools = 1 .. Len(r.pools) /\ Len(r.pools) \in Nat
  OBVIOUS
<1>7. words \in SUBSET Nat /\ words \subseteq DOMAIN r.pools /\ \A i \in words : i <= Len(r.pools)
  BY <1>6
<1> HIDE DEF words, stating, file
<1>8. CASE words = {}
  BY <1>3, <1>4, <1>5, <1>8 DEF file
<1>9. CASE words # {}
  <2> DEFINE m == Max(words)
             last(i) == \A j \in words : j <= i
  <2>1. m \in words /\ \A j \in words : m >= j
    BY <1>6, <1>7, <1>9, GreatestNat
  <2> HIDE DEF m
  <2>2. \A i \in words : last(i) <=> i = m
    BY <1>7, <2>1
  <2> HIDE DEF last
  <2>3. (CHOOSE i \in words : last(i)) = m
    BY <2>1, <2>2
  <2>4. LastWord(r, p, f) = r.pools[m][f]
    BY <1>5, <1>9, <2>3 DEF last
  <2>5. Stated(file, p, f) = file.pools[m][f]
    BY <1>3, <1>4, <1>9 DEF m
  <2>6. file.pools[m][f] = r.pools[m][f]
    BY <1>2, <1>7, <2>1
  <2> QED BY <2>4, <2>5, <2>6 DEF file
<1> QED BY <1>8, <1>9

\* Capture stores exactly the responses that state what a comparison needs.
LEMMA UsableIsStates ==
  ASSUME NEW r \in Responses
  PROVE  Usable(Height, Project(r)) <=> States(r)
<1> DEFINE file == Project(r)
<1>1. Height \notin {Absent, Text}
  BY HeightAssumption
<1>2. CASE r.pools \in {Absent, Text}
  <2>1. file.pools = <<>> /\ DOMAIN <<>> = {}
    BY <1>2 DEF Project
  <2>2. ASSUME NEW p \in Reconstructed PROVE p \in Missing(Parsed(file))
    <3>1. {i \in DOMAIN file.pools : file.pools[i].id = p /\ file.pools[i]["balance"] # Absent} = {}
      BY <2>1
    <3>2. Stated(file, p, "balance") = Absent
      BY <3>1 DEF Stated
    <3>3. p \in Pools /\ "balance" \in Fields
      BY PoolAssumption DEF Fields, Figures
    <3> HIDE DEF file
    <3>4. Parsed(file).state[p]["balance"] = Absent
      BY <3>2, <3>3 DEF Parsed
    <3> QED BY <3>4 DEF Missing
  <2>3. ~ Usable(Height, file)
    BY <2>2, PoolAssumption DEF Usable
  <2> QED BY <1>2, <2>3 DEF States
<1>3. CASE r.pools \notin {Absent, Text}
  <2>1. r.pools \in Seq(Range(r.pools))
    BY <1>3, ResponseAssumption
  <2>2. /\ file.hash = r.hash /\ file.height = r.height
        /\ file.pools = [i \in DOMAIN r.pools |-> ProjectPool(r.pools[i])]
    BY <1>3 DEF Project
  <2>3. /\ DOMAIN file.pools = DOMAIN r.pools
        /\ \A i \in DOMAIN r.pools :
             file.pools[i].id = r.pools[i].id /\ \A f \in Fields : file.pools[i][f] = r.pools[i][f]
    BY <2>2 DEF ProjectPool, Fields, Figures
  <2>4. ASSUME NEW p \in Reconstructed
        PROVE  Parsed(file).state[p].balance = LastWord(r, p, "balance")
    <3>1. p \in Pools /\ "balance" \in Fields
      BY PoolAssumption DEF Fields, Figures
    <3>2. Stated(file, p, "balance") = LastWord(r, p, "balance")
      BY <1>3, <2>1, <3>1, StatedIsLastWord
    <3> HIDE DEF file
    <3> QED BY <3>1, <3>2 DEF Parsed
  <2>5. Missing(Parsed(file)) = {} <=> \A p \in Reconstructed : LastWord(r, p, "balance") # Absent
    <3> HIDE DEF file
    <3> QED BY <2>4 DEF Missing
  <2>6. Parsed(file).height = r.height
    BY <2>2 DEF Parsed
  <2> HIDE DEF file
  <2>7. ~ Unreadable(file) <=>
          /\ r.hash \notin {Absent, Text} /\ r.height \notin {Absent, Text}
          /\ \A i \in DOMAIN r.pools :
               /\ r.pools[i].id \notin {Absent, Text}
               /\ \A f \in Fields : r.pools[i][f] # Text
               /\ r.pools[i].id \in Pools =>
                    \A f \in Figures : r.pools[i][f] = Absent \/ InMoneyRange(r.pools[i][f])
    <3>1. Figures \subseteq Fields
      BY DEF Fields
    <3>2. ASSUME NEW i \in DOMAIN r.pools
          PROVE  ~ (\/ file.pools[i].id \in {Absent, Text}
                    \/ \E f \in Fields : file.pools[i][f] = Text
                    \/ /\ file.pools[i].id \in Pools
                       /\ \E f \in Figures :
                            file.pools[i][f] # Absent /\ ~ InMoneyRange(file.pools[i][f]))
                 <=> /\ r.pools[i].id \notin {Absent, Text}
                     /\ \A f \in Fields : r.pools[i][f] # Text
                     /\ r.pools[i].id \in Pools =>
                          \A f \in Figures : r.pools[i][f] = Absent \/ InMoneyRange(r.pools[i][f])
      <4>1. file.pools[i].id = r.pools[i].id /\ \A f \in Fields : file.pools[i][f] = r.pools[i][f]
        BY <2>3
      <4> QED BY <3>1, <4>1, Zenon
    <3>3. DOMAIN file.pools = DOMAIN r.pools /\ file.hash = r.hash /\ file.height = r.height
      BY <2>2, <2>3
    <3> QED BY <3>2, <3>3, Zenon DEF Unreadable
  <2> QED BY <1>1, <1>3, <2>5, <2>6, <2>7 DEF Usable, States, file
<1> QED BY <1>2, <1>3

-----------------------------------------------------------------------------
\* A session that has finished, and one that writes its reports.
Writing == {"json", "markdown", "digest"}
Late == {"finished"} \cup Writing

NodeFile(o) == Stored("node", o)
BlockFile(r) == Stored("block", r.hash)
PoolsFile(r) == Stored("pools", Project(r))
Listed(p, f) == Entry(p, f.content, f.size)

\* The list of a session that has all its files.
Listing(o) ==
  <<Listed(NodePath, NodeFile(o)), Listed(BlockPath, BlockFile(source[o])),
    Listed(PoolsPath, PoolsFile(source[o]))>>

\* The report of a bundle, from the response it was captured from.
Computed(o) ==
  [bundle |-> BundleId(Network, Interval(Height, Height)),
   block |-> <<"block", source[o].hash>>,
   figures |-> [p \in Reconstructed |-> [f \in Figures |-> LastWord(source[o], p, f)]],
   warnings |-> {}]

OnOperators(f) == f = [o \in Operators |-> f[o]]

Shape ==
  /\ OnOperators(pc) /\ OnOperators(files) /\ OnOperators(disk) /\ OnOperators(source)
  /\ OnOperators(refused) /\ OnOperators(manifest) /\ OnOperators(report) /\ OnOperators(reports)
  /\ \A o \in Operators :
       /\ disk[o] = [p \in Files |-> disk[o][p]]
       /\ reports[o] = [p \in ReportFiles |-> reports[o][p]]

\* The pair of files of the block comes from one response that can be used.
SourceInv(o) ==
  /\ IF source[o] = Nothing
       THEN disk[o][BlockPath] = Nothing /\ disk[o][PoolsPath] = Nothing
       ELSE /\ source[o] \in Responses /\ Usable(Height, Project(source[o]))
            /\ disk[o][BlockPath] = BlockFile(source[o])
            /\ disk[o][PoolsPath] = PoolsFile(source[o])
  /\ refused[o] # Nothing => refused[o] \in Responses /\ ~ Usable(Height, Project(refused[o]))

\* What the session has recorded, by the step it is at.
ListInv(o) ==
  /\ pc[o] \in {"start", "height", "end"} \cup Late
  /\ pc[o] # "start" => disk[o][NodePath] = NodeFile(o)
  /\ pc[o] = "height" => files[o] = <<Listed(NodePath, NodeFile(o))>>
  /\ pc[o] \in {"end"} \cup Late => source[o] # Nothing /\ files[o] = Listing(o)

\* Nothing but its own bundle is in a manifest or a report.
OutcomeInv(o) ==
  /\ IF pc[o] \in Late
       THEN /\ manifest[o] = Build(Network, Interval(Height, Height), files[o])
            /\ report[o] \in {Nothing, Computed(o)}
            /\ \A p \in ReportFiles : reports[o][p] \in {Nothing, Torn, Computed(o)}
       ELSE /\ manifest[o] = Nothing /\ report[o] = Nothing
            /\ \A p \in ReportFiles : reports[o][p] = Nothing
  /\ pc[o] \in Writing => report[o] = Computed(o)

BundleInv == Shape /\ \A o \in Operators : SourceInv(o) /\ ListInv(o) /\ OutcomeInv(o)

\* Everything the invariant says of an operator is about its own bundle.
Own(o) == <<pc[o], files[o], disk[o], source[o], refused[o], manifest[o], report[o], reports[o]>>

LEMMA OwnStays ==
  ASSUME NEW q \in Operators, SourceInv(q), ListInv(q), OutcomeInv(q), Own(q)' = Own(q)
  PROVE  SourceInv(q)' /\ ListInv(q)' /\ OutcomeInv(q)'
<1>1. /\ pc'[q] = pc[q] /\ files'[q] = files[q] /\ disk'[q] = disk[q] /\ source'[q] = source[q]
      /\ refused'[q] = refused[q] /\ manifest'[q] = manifest[q] /\ report'[q] = report[q]
      /\ reports'[q] = reports[q]
  BY DEF Own
<1>2. SourceInv(q)'
  BY <1>1 DEF SourceInv
<1>3. ListInv(q)'
  BY <1>1 DEF ListInv, Listing
<1>4. OutcomeInv(q)'
  BY <1>1 DEF OutcomeInv, Computed
<1> QED BY <1>2, <1>3, <1>4

\* So a step of one operator keeps it if it keeps what is said of that one.
LEMMA OneMoves ==
  ASSUME BundleInv, NEW o \in Operators, Shape',
         \A q \in Operators : q # o => Own(q)' = Own(q),
         SourceInv(o)', ListInv(o)', OutcomeInv(o)'
  PROVE  BundleInv'
<1>1. ASSUME NEW q \in Operators PROVE SourceInv(q)' /\ ListInv(q)' /\ OutcomeInv(q)'
  <2>1. CASE q = o
    BY <2>1
  <2>2. CASE q # o
    BY <2>2, OwnStays DEF BundleInv
  <2> QED BY <2>1, <2>2
<1> QED BY <1>1 DEF BundleInv

\* The list grows by the files of the session in turn.
InTurn(o, n, b, p) ==
  Recorded(o, Recorded(o, <<Listed(NodePath, n)>>, BlockPath, b), PoolsPath, p)
    = <<Listed(NodePath, n), Listed(BlockPath, b), Listed(PoolsPath, p)>>

LEMMA RecordedInTurn ==
  ASSUME NEW o, NEW n, NEW b, NEW p
  PROVE  /\ Recorded(o, <<>>, NodePath, n) = <<Listed(NodePath, n)>>
         /\ InTurn(o, n, b, p)
<1> DEFINE x == Listed(NodePath, n)
           y == Listed(BlockPath, b)
           z == Listed(PoolsPath, p)
           E == {x, y, z}
<1>1. x.path = 3 /\ y.path = 1 /\ z.path = 2 /\ x \in E /\ y \in E /\ z \in E
  BY DEF Listed, Entry, NodePath, BlockPath, PoolsPath
<1>2. /\ Recorded(o, <<>>, NodePath, n) = RecordFile(<<>>, x)
      /\ \A list : Recorded(o, list, BlockPath, b) = RecordFile(list, y)
      /\ \A list : Recorded(o, list, PoolsPath, p) = RecordFile(list, z)
  BY DEF Recorded, Listed
<1> HIDE DEF x, y, z, E
<1>3. RecordFile(<<>>, x) = <<x>>
  <2> DEFINE none == <<>>
  <2>1. none \in Seq(E) /\ \A i \in 1 .. Len(none) : none[i].path # x.path
    OBVIOUS
  <2>2. Append(none, x) = <<x>>
    OBVIOUS
  <2> HIDE DEF none
  <2>3. RecordFile(none, x) = Append(none, x)
    BY <1>1, <2>1, RecordNew
  <2> QED BY <2>2, <2>3 DEF none
<1>4. RecordFile(<<x>>, y) = <<x, y>>
  <2>1. <<x>> \in Seq(E) /\ Len(<<x>>) = 1 /\ <<x>>[1] = x
    BY <1>1
  <2>2. \A i \in 1 .. Len(<<x>>) : <<x>>[i].path # y.path
    BY <1>1, <2>1
  <2>3. RecordFile(<<x>>, y) = Append(<<x>>, y)
    BY <1>1, <2>1, <2>2, RecordNew
  <2> QED BY <2>3
<1>5. RecordFile(<<x, y>>, z) = <<x, y, z>>
  <2>1. <<x, y>> \in Seq(E) /\ Len(<<x, y>>) = 2 /\ <<x, y>>[1] = x /\ <<x, y>>[2] = y
    BY <1>1
  <2>2. \A i \in 1 .. Len(<<x, y>>) : <<x, y>>[i].path # z.path
    BY <1>1, <2>1
  <2>3. RecordFile(<<x, y>>, z) = Append(<<x, y>>, z)
    BY <1>1, <2>1, <2>2, RecordNew
  <2> QED BY <2>3
<1> QED BY <1>2, <1>3, <1>4, <1>5 DEF x, y, z, InTurn

-----------------------------------------------------------------------------
LEMMA InitBundle == Init => BundleInv
<1> SUFFICES ASSUME Init PROVE BundleInv
  OBVIOUS
<1>1. Shape
  BY DEF Init, Shape, OnOperators
<1>2. ASSUME NEW o \in Operators PROVE SourceInv(o) /\ ListInv(o) /\ OutcomeInv(o)
  <2>1. SourceInv(o)
    BY DEF Init, SourceInv, Files, BlockPath, PoolsPath
  <2>2. ListInv(o) /\ OutcomeInv(o)
    BY DEF Init, ListInv, OutcomeInv, Late, Writing
  <2> QED BY <2>1, <2>2
<1> QED BY <1>1, <1>2 DEF BundleInv

LEMMA PathFacts ==
  /\ {NodePath, BlockPath, PoolsPath} = Files
  /\ NodePath # BlockPath /\ NodePath # PoolsPath /\ BlockPath # PoolsPath
BY DEF Files, NodePath, BlockPath, PoolsPath

LEMMA WriteNodeInfoKeeps ==
  ASSUME BundleInv, NEW o \in Operators, WriteNodeInfo(o)
  PROVE  BundleInv'
<1>1. /\ Shape /\ SourceInv(o) /\ ListInv(o) /\ OutcomeInv(o)
  BY DEF BundleInv
<1>2. Shape' /\ \A q \in Operators : q # o => Own(q)' = Own(q)
  BY <1>1 DEF WriteNodeInfo, GoTo, reportVars, Shape, OnOperators, Own
<1>3. /\ pc[o] = "start" /\ pc'[o] = "height" /\ source'[o] = source[o] /\ refused'[o] = Nothing
      /\ manifest'[o] = manifest[o] /\ report'[o] = report[o] /\ reports'[o] = reports[o]
      /\ disk'[o] = [disk[o] EXCEPT ![NodePath] = NodeFile(o)]
      /\ files'[o] = Recorded(o, <<>>, NodePath, NodeFile(o))
  BY <1>1 DEF WriteNodeInfo, GoTo, reportVars, Shape, OnOperators, NodeFile
<1>4. /\ disk'[o][NodePath] = NodeFile(o) /\ disk'[o][BlockPath] = disk[o][BlockPath]
      /\ disk'[o][PoolsPath] = disk[o][PoolsPath]
  <2>1. DOMAIN disk[o] = Files
    BY <1>1 DEF Shape
  <2> QED BY <1>3, <2>1, PathFacts
<1>5. files'[o] = <<Listed(NodePath, NodeFile(o))>>
  BY <1>3, RecordedInTurn
<1>6. SourceInv(o)'
  BY <1>1, <1>3, <1>4 DEF SourceInv
<1>7. ListInv(o)'
  BY <1>3, <1>4, <1>5 DEF ListInv, Late, Writing
<1>8. OutcomeInv(o)'
  BY <1>1, <1>3 DEF OutcomeInv, Late, Writing
<1> QED BY <1>2, <1>6, <1>7, <1>8, OneMoves

LEMMA FetchHeightKeeps ==
  ASSUME BundleInv, NEW o \in Operators, FetchHeight(o)
  PROVE  BundleInv'
<1>1. /\ Shape /\ SourceInv(o) /\ ListInv(o) /\ OutcomeInv(o)
  BY DEF BundleInv
<1>2. /\ pc[o] = "height" /\ UNCHANGED <<manifest, report, reports>>
  BY DEF FetchHeight, reportVars
<1>3. PICK r \in Responses :
        LET block == Stored("block", r.hash)
            pools == Stored("pools", Project(r))
        IN  IF Usable(Height, Project(r))
              THEN /\ GoTo(o, "end")
                   /\ disk' = [disk EXCEPT ![o][BlockPath] = block, ![o][PoolsPath] = pools]
                   /\ files' = [files EXCEPT ![o] =
                        Recorded(o, Recorded(o, files[o], BlockPath, block), PoolsPath, pools)]
                   /\ source' = [source EXCEPT ![o] = r]
                   /\ UNCHANGED refused
              ELSE /\ GoTo(o, "start")
                   /\ refused' = [refused EXCEPT ![o] = r]
                   /\ UNCHANGED <<disk, files, source>>
  BY DEF FetchHeight
<1>4. CASE Usable(Height, Project(r))
  <2> DEFINE old == disk[o]
             new == [[old EXCEPT ![BlockPath] = BlockFile(r)] EXCEPT ![PoolsPath] = PoolsFile(r)]
  <2>1. /\ pc' = [pc EXCEPT ![o] = "end"]
        /\ disk' = [disk EXCEPT ![o] = new]
        /\ files' = [files EXCEPT ![o] =
             Recorded(o, Recorded(o, files[o], BlockPath, BlockFile(r)), PoolsPath, PoolsFile(r))]
        /\ source' = [source EXCEPT ![o] = r]
        /\ refused' = refused
    BY <1>1, <1>3, <1>4 DEF GoTo, BlockFile, PoolsFile, Shape, OnOperators
  <2>2. /\ new[NodePath] = old[NodePath] /\ new[BlockPath] = BlockFile(r) /\ new[PoolsPath] = PoolsFile(r)
        /\ new = [p \in Files |-> new[p]]
    <3>1. old = [p \in Files |-> old[p]]
      BY <1>1 DEF Shape
    <3>2. DOMAIN old = Files
      BY <3>1
    <3> HIDE DEF old
    <3> QED BY <3>1, <3>2, PathFacts
  <2> HIDE DEF new
  <2>3. Shape' /\ \A q \in Operators : q # o => Own(q)' = Own(q)
    BY <1>1, <1>2, <2>1, <2>2 DEF Shape, OnOperators, Own
  <2>4. /\ pc'[o] = "end" /\ disk'[o] = new /\ source'[o] = r /\ refused'[o] = refused[o]
        /\ manifest'[o] = manifest[o] /\ report'[o] = report[o] /\ reports'[o] = reports[o]
        /\ files'[o] = Recorded(o, Recorded(o, files[o], BlockPath, BlockFile(r)), PoolsPath, PoolsFile(r))
    BY <1>1, <1>2, <2>1 DEF Shape, OnOperators
  <2>5. files'[o] = Listing(o)'
    <3>1. files[o] = <<Listed(NodePath, NodeFile(o))>>
      BY <1>1, <1>2 DEF ListInv
    <3> DEFINE n == NodeFile(o)
               b == BlockFile(r)
               p == PoolsFile(r)
    <3> HIDE DEF n, b, p
    <3>r. InTurn(o, n, b, p)
      BY RecordedInTurn
    <3>2. Recorded(o, Recorded(o, files[o], BlockPath, b), PoolsPath, p)
            = <<Listed(NodePath, n), Listed(BlockPath, b), Listed(PoolsPath, p)>>
      BY <3>1, <3>r DEF n, InTurn
    <3>3. Listing(o)' = <<Listed(NodePath, NodeFile(o)), Listed(BlockPath, BlockFile(r)), Listed(PoolsPath, PoolsFile(r))>>
      BY <2>4 DEF Listing, NodeFile
    <3> QED BY <2>4, <3>2, <3>3 DEF n, b, p
  <2>6. r # Nothing
    BY ResponseAssumption
  <2>7. SourceInv(o)'
    BY <1>1, <1>4, <2>2, <2>4, <2>6 DEF SourceInv
  <2>8. ListInv(o)'
    <3>1. disk'[o][NodePath] = NodeFile(o)
      BY <1>1, <1>2, <2>2, <2>4 DEF ListInv
    <3> QED BY <2>4, <2>5, <2>6, <3>1 DEF ListInv, Late, Writing
  <2>9. OutcomeInv(o)'
    BY <1>1, <1>2, <2>4 DEF OutcomeInv, Late, Writing
  <2> QED BY <2>3, <2>7, <2>8, <2>9, OneMoves
<1>5. CASE ~ Usable(Height, Project(r))
  <2>1. /\ pc' = [pc EXCEPT ![o] = "start"] /\ refused' = [refused EXCEPT ![o] = r]
        /\ UNCHANGED <<disk, files, source>>
    BY <1>3, <1>5 DEF GoTo
  <2>2. Shape' /\ \A q \in Operators : q # o => Own(q)' = Own(q)
    BY <1>1, <1>2, <2>1 DEF Shape, OnOperators, Own
  <2>3. /\ pc'[o] = "start" /\ disk'[o] = disk[o] /\ source'[o] = source[o] /\ refused'[o] = r
        /\ manifest'[o] = manifest[o] /\ report'[o] = report[o] /\ reports'[o] = reports[o]
    BY <1>1, <1>2, <2>1 DEF Shape, OnOperators
  <2>4. SourceInv(o)'
    BY <1>1, <1>5, <2>3 DEF SourceInv
  <2>5. ListInv(o)'
    BY <2>3 DEF ListInv, Late, Writing
  <2>6. OutcomeInv(o)'
    BY <1>1, <1>2, <2>3 DEF OutcomeInv, Late, Writing
  <2> QED BY <2>2, <2>4, <2>5, <2>6, OneMoves
<1> QED BY <1>4, <1>5

LEMMA AdoptHeightKeeps ==
  ASSUME BundleInv, NEW o \in Operators, AdoptHeight(o)
  PROVE  BundleInv'
<1>1. /\ Shape /\ SourceInv(o) /\ ListInv(o) /\ OutcomeInv(o)
  BY DEF BundleInv
<1>2. /\ pc[o] = "height" /\ HeightPresent(o) /\ pc' = [pc EXCEPT ![o] = "end"]
      /\ files' = [files EXCEPT ![o] =
           Recorded(o, Recorded(o, files[o], BlockPath, disk[o][BlockPath]), PoolsPath, disk[o][PoolsPath])]
      /\ UNCHANGED <<disk, source, refused, manifest, report, reports>>
  BY DEF AdoptHeight, GoTo, reportVars
<1>3. Shape' /\ \A q \in Operators : q # o => Own(q)' = Own(q)
  BY <1>1, <1>2 DEF Shape, OnOperators, Own
<1>4. /\ pc'[o] = "end" /\ disk'[o] = disk[o] /\ source'[o] = source[o] /\ refused'[o] = refused[o]
      /\ manifest'[o] = manifest[o] /\ report'[o] = report[o] /\ reports'[o] = reports[o]
      /\ files'[o] = Recorded(o, Recorded(o, files[o], BlockPath, disk[o][BlockPath]), PoolsPath, disk[o][PoolsPath])
  BY <1>1, <1>2 DEF Shape, OnOperators
\* What is found is what an earlier session stored.
<1>5. /\ source[o] # Nothing
      /\ disk[o][BlockPath] = BlockFile(source[o]) /\ disk[o][PoolsPath] = PoolsFile(source[o])
  BY <1>1, <1>2 DEF SourceInv, HeightPresent
<1>6. files'[o] = Listing(o)'
  <2>1. files[o] = <<Listed(NodePath, NodeFile(o))>>
    BY <1>1, <1>2 DEF ListInv
  <2> DEFINE n == NodeFile(o)
             b == BlockFile(source[o])
             p == PoolsFile(source[o])
  <2> HIDE DEF n, b, p
  <2>f. InTurn(o, n, b, p)
    BY RecordedInTurn
  <2>r. Recorded(o, Recorded(o, files[o], BlockPath, b), PoolsPath, p)
          = <<Listed(NodePath, n), Listed(BlockPath, b), Listed(PoolsPath, p)>>
    BY <2>1, <2>f DEF n, InTurn
  <2>2. Recorded(o, Recorded(o, files[o], BlockPath, disk[o][BlockPath]), PoolsPath, disk[o][PoolsPath]) = Listing(o)
    BY <1>5, <2>r DEF Listing, n, b, p
  <2>3. Listing(o)' = Listing(o)
    BY <1>4 DEF Listing
  <2> QED BY <1>4, <2>2, <2>3
<1>7. SourceInv(o)'
  BY <1>1, <1>4 DEF SourceInv
<1>8. ListInv(o)'
  BY <1>1, <1>2, <1>4, <1>5, <1>6 DEF ListInv, Late, Writing
<1>9. OutcomeInv(o)'
  BY <1>1, <1>2, <1>4 DEF OutcomeInv, Late, Writing
<1> QED BY <1>3, <1>7, <1>8, <1>9, OneMoves

LEMMA InterruptKeeps ==
  ASSUME BundleInv, NEW o \in Operators, Interrupt(o)
  PROVE  BundleInv'
<1>1. /\ Shape /\ SourceInv(o) /\ ListInv(o) /\ OutcomeInv(o)
  BY DEF BundleInv
<1>2. /\ pc[o] \in {"height", "end"} /\ pc' = [pc EXCEPT ![o] = "start"]
      /\ UNCHANGED <<files, disk, source, refused, manifest, report, reports>>
  BY DEF Interrupt, GoTo, captureVars, reportVars
<1>3. Shape' /\ \A q \in Operators : q # o => Own(q)' = Own(q)
  BY <1>1, <1>2 DEF Shape, OnOperators, Own
<1>4. /\ pc'[o] = "start" /\ disk'[o] = disk[o] /\ source'[o] = source[o] /\ refused'[o] = refused[o]
      /\ manifest'[o] = manifest[o] /\ report'[o] = report[o] /\ reports'[o] = reports[o]
  BY <1>1, <1>2 DEF Shape, OnOperators
<1>5. SourceInv(o)'
  BY <1>1, <1>4 DEF SourceInv
<1>6. ListInv(o)'
  BY <1>4 DEF ListInv, Late, Writing
<1>7. OutcomeInv(o)'
  BY <1>1, <1>2, <1>4 DEF OutcomeInv, Late, Writing
<1> QED BY <1>3, <1>5, <1>6, <1>7, OneMoves

LEMMA FinishKeeps ==
  ASSUME BundleInv, NEW o \in Operators, Finish(o)
  PROVE  BundleInv'
<1>1. /\ Shape /\ SourceInv(o) /\ ListInv(o) /\ OutcomeInv(o)
  BY DEF BundleInv
<1>2. /\ pc[o] = "end" /\ pc' = [pc EXCEPT ![o] = "finished"]
      /\ manifest' = [manifest EXCEPT ![o] = Build(Network, Interval(Height, Height), files[o])]
      /\ UNCHANGED <<files, disk, source, refused, report, reports>>
  BY DEF Finish, GoTo, captureVars, reportVars
<1>3. Shape' /\ \A q \in Operators : q # o => Own(q)' = Own(q)
  BY <1>1, <1>2 DEF Shape, OnOperators, Own
<1>4. /\ pc'[o] = "finished" /\ files'[o] = files[o] /\ disk'[o] = disk[o] /\ source'[o] = source[o]
      /\ refused'[o] = refused[o] /\ report'[o] = report[o] /\ reports'[o] = reports[o]
      /\ manifest'[o] = Build(Network, Interval(Height, Height), files[o])
  BY <1>1, <1>2 DEF Shape, OnOperators
<1>5. SourceInv(o)'
  BY <1>1, <1>4 DEF SourceInv
<1>6. ListInv(o)'
  BY <1>1, <1>2, <1>4 DEF ListInv, Listing, Late, Writing
<1>7. OutcomeInv(o)'
  <2>1. report[o] = Nothing /\ \A p \in ReportFiles : reports[o][p] = Nothing
    BY <1>1, <1>2 DEF OutcomeInv, Late, Writing
  <2> QED BY <1>4, <2>1 DEF OutcomeInv, Late, Writing
<1> QED BY <1>3, <1>5, <1>6, <1>7, OneMoves

-----------------------------------------------------------------------------
\* The manifest a session with all its files has, or will have.
ManifestOf(o) == Build(Network, Interval(Height, Height), files[o])

LEMMA ManifestFacts ==
  ASSUME BundleInv, NEW o \in Operators, pc[o] \in {"end"} \cup Late
  PROVE  /\ ManifestOf(o).major = SchemaMajor /\ ManifestOf(o).network = Network
         /\ ManifestOf(o).interval = Interval(Height, Height)
         /\ ManifestOf(o).id = BundleId(Network, Interval(Height, Height))
         /\ DOMAIN ManifestOf(o).files = Files
         /\ \A p \in Files : ManifestOf(o).files[p] = Entry(p, disk[o][p].content, disk[o][p].size)
         /\ \E E : ManifestOf(o).files \in Seq(E)
         /\ source[o] \in Responses
         /\ disk[o][NodePath] = NodeFile(o) /\ disk[o][BlockPath] = BlockFile(source[o])
         /\ disk[o][PoolsPath] = PoolsFile(source[o])
<1>1. /\ Shape /\ SourceInv(o) /\ ListInv(o)
  BY DEF BundleInv
<1>2. /\ source[o] # Nothing /\ files[o] = Listing(o) /\ disk[o][NodePath] = NodeFile(o)
  BY <1>1 DEF ListInv, Late, Writing
<1>3. /\ source[o] \in Responses /\ disk[o][BlockPath] = BlockFile(source[o])
      /\ disk[o][PoolsPath] = PoolsFile(source[o])
  BY <1>1, <1>2 DEF SourceInv
<1> DEFINE n == Listed(NodePath, NodeFile(o))
           b == Listed(BlockPath, BlockFile(source[o]))
           p == Listed(PoolsPath, PoolsFile(source[o]))
<1>4. FoldLeft(AddFile, <<>>, files[o]) = <<b, p, n>>
  <2>1. n.path = 3 /\ b.path = 1 /\ p.path = 2
    BY DEF Listed, Entry, NodePath, BlockPath, PoolsPath
  <2>2. files[o] = <<n, b, p>>
    BY <1>2 DEF Listing
  <2> HIDE DEF n, b, p
  <2>3. n \in {n, b, p} /\ b \in {n, b, p} /\ p \in {n, b, p}
    OBVIOUS
  <2>4. FoldLeft(AddFile, <<>>, <<n, b, p>>) = <<b, p, n>>
    BY <2>1, <2>3, ThreeSorted
  <2> QED BY <2>2, <2>4
<1>5. /\ ManifestOf(o).major = SchemaMajor /\ ManifestOf(o).network = Network
      /\ ManifestOf(o).interval = Interval(Height, Height)
      /\ ManifestOf(o).id = BundleId(Network, Interval(Height, Height))
      /\ ManifestOf(o).files = <<b, p, n>>
  <2> HIDE DEF n, b, p
  <2> QED BY <1>4 DEF ManifestOf, Build
<1>6. DOMAIN <<b, p, n>> = Files
  BY DEF Files
<1>7. ASSUME NEW q \in Files
      PROVE  <<b, p, n>>[q] = Entry(q, disk[o][q].content, disk[o][q].size)
  <2>1. /\ b = Entry(BlockPath, disk[o][BlockPath].content, disk[o][BlockPath].size)
        /\ p = Entry(PoolsPath, disk[o][PoolsPath].content, disk[o][PoolsPath].size)
        /\ n = Entry(NodePath, disk[o][NodePath].content, disk[o][NodePath].size)
    BY <1>2, <1>3 DEF Listed
  <2>2. q = 1 \/ q = 2 \/ q = 3
    BY DEF Files
  <2> HIDE DEF n, b, p
  <2>3. <<b, p, n>>[1] = b /\ <<b, p, n>>[2] = p /\ <<b, p, n>>[3] = n
    OBVIOUS
  <2> QED BY <2>1, <2>2, <2>3 DEF BlockPath, PoolsPath, NodePath
<1> HIDE DEF n, b, p
<1>8. <<b, p, n>> \in Seq({b, p, n})
  OBVIOUS
<1> QED BY <1>2, <1>3, <1>5, <1>6, <1>7, <1>8

LEMMA EntryIs ==
  ASSUME NEW p, NEW c, NEW s
  PROVE  Entry(p, c, s).path = p /\ Entry(p, c, s).sha256 = c /\ Entry(p, c, s).size = s
BY DEF Entry

\* It is one its own reader accepts.
LEMMA ManifestLoads ==
  ASSUME BundleInv, NEW o \in Operators, pc[o] \in {"end"} \cup Late
  PROVE  Loads(ManifestOf(o))
<1> DEFINE m == ManifestOf(o)
<1>1. /\ m.major = SchemaMajor /\ m.network = Network /\ m.interval = Interval(Height, Height)
      /\ m.id = BundleId(Network, Interval(Height, Height)) /\ DOMAIN m.files = Files
      /\ \A p \in Files : m.files[p] = Entry(p, disk[o][p].content, disk[o][p].size)
      /\ source[o] \in Responses
      /\ disk[o][NodePath] = NodeFile(o) /\ disk[o][BlockPath] = BlockFile(source[o])
      /\ disk[o][PoolsPath] = PoolsFile(source[o])
  BY ManifestFacts
<1> HIDE DEF m
<1>2. GoodInterval(m.interval)
  BY <1>1, HeightAssumption DEF Interval, GoodInterval
<1>3. \A p \in Files : m.files[p].path = p /\ m.files[p].sha256 = disk[o][p].content
  BY <1>1, EntryIs
<1>4. \A p \in Files : disk[o][p].content \notin MalformedDigests
  <2>1. /\ disk[o][NodePath].content \notin MalformedDigests
        /\ disk[o][BlockPath].content \notin MalformedDigests
        /\ disk[o][PoolsPath].content \notin MalformedDigests
    BY <1>1, BundleAssumption DEF NodeFile, BlockFile, PoolsFile, Stored
  <2> QED BY <2>1, PathFacts
<1>5. GoodFiles(m.files)
  <2>1. \A p \in Files : p \notin UnsafePaths
    BY BundleAssumption
  <2>2. \A p \in Files \ {1} : m.files[p - 1].path < m.files[p].path
    <3> SUFFICES ASSUME NEW p \in Files, p # 1 PROVE m.files[p - 1].path < m.files[p].path
      OBVIOUS
    <3>1. p \in Nat /\ p - 1 \in Files
      BY DEF Files
    <3>2. m.files[p - 1].path = p - 1 /\ m.files[p].path = p
      BY <1>3, <3>1
    <3> QED BY <3>1, <3>2
  <2> QED BY <1>1, <1>3, <1>4, <2>1, <2>2 DEF GoodFiles
<1> QED BY <1>1, <1>2, <1>5 DEF Loads, m

\* What is read back from the pools file is what the response says.
LEMMA ReadBack ==
  ASSUME NEW o \in Operators, SourceInv(o), source[o] # Nothing
  PROVE  /\ source[o] \in Responses /\ States(source[o])
         /\ Document(disk[o][PoolsPath]) = Project(source[o])
         /\ \A p \in Pools : \A f \in Fields :
              Parsed(Document(disk[o][PoolsPath])).state[p][f] = LastWord(source[o], p, f)
<1>1. /\ source[o] \in Responses /\ Usable(Height, Project(source[o]))
      /\ disk[o][PoolsPath] = PoolsFile(source[o])
  BY DEF SourceInv
<1>2. States(source[o])
  BY <1>1, UsableIsStates
<1>3. Document(disk[o][PoolsPath]) = Project(source[o])
  BY <1>1 DEF Document, PoolsFile, Stored
<1>4. ASSUME NEW p \in Pools, NEW f \in Fields
      PROVE  Parsed(Project(source[o])).state[p][f] = LastWord(source[o], p, f)
  <2> DEFINE r == source[o]
  <2>1. r.pools \notin {Absent, Text} /\ r.pools \in Seq(Range(r.pools))
    BY <1>1, <1>2, ResponseAssumption DEF States
  <2> HIDE DEF r
  <2>2. Stated(Project(r), p, f) = LastWord(r, p, f)
    BY <2>1, StatedIsLastWord
  <2> DEFINE file == Project(r)
  <2> HIDE DEF file
  <2>3. Parsed(file).state[p][f] = Stated(file, p, f)
    BY DEF Parsed
  <2> QED BY <2>2, <2>3 DEF r, file
<1> QED BY <1>1, <1>2, <1>3, <1>4

\* The report of a finished bundle is a function of the response alone.
LEMMA ReportIsComputed ==
  ASSUME BundleInv, NEW o \in Operators, pc[o] \in Late
  PROVE  ReportOf(o) = Computed(o)
<1>1. SourceInv(o) /\ ListInv(o) /\ OutcomeInv(o)
  BY DEF BundleInv
<1>2. manifest[o] = ManifestOf(o) /\ source[o] # Nothing
  BY <1>1 DEF OutcomeInv, ListInv, ManifestOf
<1>3. /\ manifest[o].id = BundleId(Network, Interval(Height, Height))
      /\ DOMAIN manifest[o].files = Files
      /\ \A p \in Files : manifest[o].files[p] = Entry(p, disk[o][p].content, disk[o][p].size)
      /\ disk[o][BlockPath] = BlockFile(source[o])
  BY <1>2, ManifestFacts
<1>4. UnlistedPaths(o) = {}
  <2>1. \A p \in Files : manifest[o].files[p].path = p
    BY <1>3, EntryIs
  <2> QED BY <1>3, <2>1 DEF UnlistedPaths, GeneratedPaths
<1>5. \A p \in Reconstructed : \A f \in Figures :
        Parsed(Document(disk[o][PoolsPath])).state[p][f] = LastWord(source[o], p, f)
  BY <1>1, <1>2, ReadBack, PoolAssumption DEF Fields
<1>6. disk[o][BlockPath].content = <<"block", source[o].hash>>
  BY <1>3 DEF BlockFile, Stored
<1> QED BY <1>3, <1>4, <1>5, <1>6 DEF ReportOf, Computed

-----------------------------------------------------------------------------
LEMMA ReconcileKeeps ==
  ASSUME BundleInv, NEW o \in Operators, Reconcile(o)
  PROVE  BundleInv'
<1>1. /\ Shape /\ SourceInv(o) /\ ListInv(o) /\ OutcomeInv(o)
  BY DEF BundleInv
<1>2. /\ pc[o] = "finished" /\ pc' = [pc EXCEPT ![o] = "json"]
      /\ report' = [report EXCEPT ![o] = ReportOf(o)]
      /\ UNCHANGED <<files, disk, source, refused, manifest, reports>>
  BY DEF Reconcile, GoTo, captureVars
<1>3. Shape' /\ \A q \in Operators : q # o => Own(q)' = Own(q)
  BY <1>1, <1>2 DEF Shape, OnOperators, Own
<1>4. /\ pc'[o] = "json" /\ files'[o] = files[o] /\ disk'[o] = disk[o] /\ source'[o] = source[o]
      /\ refused'[o] = refused[o] /\ manifest'[o] = manifest[o] /\ reports'[o] = reports[o]
      /\ report'[o] = ReportOf(o)
  BY <1>1, <1>2 DEF Shape, OnOperators
<1>5. SourceInv(o)'
  BY <1>1, <1>4 DEF SourceInv
<1>6. ListInv(o)'
  BY <1>1, <1>2, <1>4 DEF ListInv, Listing, Late, Writing
<1>7. OutcomeInv(o)'
  <2>1. pc[o] \in Late
    BY <1>2 DEF Late
  <2>2. ReportOf(o) = Computed(o)
    BY <2>1, ReportIsComputed
  <2>3. Computed(o)' = Computed(o)
    BY <1>4 DEF Computed
  <2>4. pc'[o] \in Late
    BY <1>4 DEF Late, Writing
  <2> QED BY <1>1, <1>4, <2>1, <2>2, <2>3, <2>4 DEF OutcomeInv
<1> QED BY <1>3, <1>5, <1>6, <1>7, OneMoves

\* Writing a report, to its end or not, puts nothing else in its place.
LEMMA WritingKeeps ==
  ASSUME BundleInv, NEW o \in Operators, pc[o] \in Writing,
         NEW step \in Late, NEW path \in ReportFiles, NEW content \in {Torn, report[o]},
         GoTo(o, step), reports' = [reports EXCEPT ![o][path] = content],
         UNCHANGED <<captureVars, manifest, report>>
  PROVE  BundleInv'
<1>1. /\ Shape /\ SourceInv(o) /\ ListInv(o) /\ OutcomeInv(o)
  BY DEF BundleInv
<1>2. /\ pc' = [pc EXCEPT ![o] = step]
      /\ UNCHANGED <<files, disk, source, refused, manifest, report>>
  BY DEF GoTo, captureVars
<1> DEFINE old == reports[o]
           new == [old EXCEPT ![path] = content]
<1>3. /\ reports' = [reports EXCEPT ![o] = new]
      /\ new = [p \in ReportFiles |-> IF p = path THEN content ELSE old[p]]
  BY <1>1 DEF Shape, OnOperators
<1> HIDE DEF new, old
<1>f. new = [p \in ReportFiles |-> new[p]]
  <2> DEFINE F == [p \in ReportFiles |-> IF p = path THEN content ELSE old[p]]
  <2>1. F = [p \in ReportFiles |-> F[p]]
    OBVIOUS
  <2>2. new = F
    BY <1>3
  <2> HIDE DEF F
  <2> QED BY <2>1, <2>2
<1>r. reports'[o] = new /\ \A q \in Operators : q # o => reports'[q] = reports[q]
  BY <1>1, <1>3 DEF Shape, OnOperators
<1>4. Shape' /\ \A q \in Operators : q # o => Own(q)' = Own(q)
  <2>1. OnOperators(pc') /\ OnOperators(reports')
    BY <1>1, <1>2, <1>3 DEF Shape, OnOperators
  <2>2. \A q \in Operators : reports'[q] = [p \in ReportFiles |-> reports'[q][p]]
    BY <1>1, <1>f, <1>r DEF Shape
  <2>3. Shape'
    BY <1>1, <1>2, <2>1, <2>2 DEF Shape, OnOperators
  <2>4. \A q \in Operators : q # o => pc'[q] = pc[q]
    BY <1>1, <1>2 DEF Shape, OnOperators
  <2> QED BY <1>2, <1>r, <2>3, <2>4 DEF Own
<1>5. /\ pc'[o] = step /\ files'[o] = files[o] /\ disk'[o] = disk[o] /\ source'[o] = source[o]
      /\ refused'[o] = refused[o] /\ manifest'[o] = manifest[o] /\ report'[o] = report[o]
      /\ reports'[o] = new
  BY <1>1, <1>2, <1>3 DEF Shape, OnOperators
<1>6. pc[o] \in Late /\ pc[o] \notin {"start", "height"} /\ step \notin {"start", "height"}
  BY DEF Late, Writing
<1>7. SourceInv(o)'
  BY <1>1, <1>5 DEF SourceInv
<1>8. ListInv(o)'
  BY <1>1, <1>5, <1>6 DEF ListInv, Listing
<1>9. OutcomeInv(o)'
  <2>1. Computed(o)' = Computed(o)
    BY <1>5 DEF Computed
  <2>2. report[o] = Computed(o) /\ manifest[o] = Build(Network, Interval(Height, Height), files[o])
    BY <1>1, <1>6 DEF OutcomeInv
  <2>3. \A p \in ReportFiles : new[p] \in {Nothing, Torn, Computed(o)}
    BY <1>1, <1>3, <1>6, <2>2 DEF OutcomeInv, old
  <2> QED BY <1>5, <2>1, <2>2, <2>3 DEF OutcomeInv, old
<1> QED BY <1>4, <1>7, <1>8, <1>9, OneMoves

LEMMA ReportsKeep ==
  ASSUME BundleInv, NEW o \in Operators, WriteReports(o) \/ InterruptReports(o)
  PROVE  BundleInv'
<1>0. {"markdown", "digest", "finished"} \subseteq Late /\ {ReportJson, ReportMarkdown, ReportHash} \subseteq ReportFiles
  BY DEF Late, Writing, ReportFiles, ReportJson, ReportMarkdown, ReportHash
<1>1. ASSUME NEW step \in Writing, NEW path \in ReportFiles, NEW next \in Late, WriteReport(o, step, path, next)
      PROVE  BundleInv'
  BY <1>1, WritingKeeps DEF WriteReport
<1>2. ASSUME NEW step \in Writing, NEW path \in ReportFiles, TearReport(o, step, path)
      PROVE  BundleInv'
  BY <1>0, <1>2, WritingKeeps DEF TearReport
<1> QED BY <1>0, <1>1, <1>2 DEF WriteReports, InterruptReports, Writing

LEMMA StepBundle == BundleInv /\ [Next]_vars => BundleInv'
<1> SUFFICES ASSUME BundleInv, [Next]_vars PROVE BundleInv'
  OBVIOUS
<1>1. CASE UNCHANGED vars
  <2>1. UNCHANGED <<pc, files, disk, source, refused, manifest, report, reports>>
    BY <1>1 DEF vars, captureVars
  <2>2. Shape' /\ \A q \in Operators : Own(q)' = Own(q)
    BY <2>1 DEF BundleInv, Shape, OnOperators, Own
  <2> QED BY <2>2, OwnStays DEF BundleInv
<1>2. CASE Next
  <2>1. PICK o \in Operators : CaptureStep(o) \/ Reconcile(o) \/ WriteReports(o) \/ InterruptReports(o)
    BY <1>2 DEF Next
  <2>2. CASE CaptureStep(o)
    BY <2>2, WriteNodeInfoKeeps, FetchHeightKeeps, AdoptHeightKeeps, InterruptKeeps, FinishKeeps DEF CaptureStep
  <2>3. CASE Reconcile(o)
    BY <2>3, ReconcileKeeps
  <2>4. CASE WriteReports(o) \/ InterruptReports(o)
    BY <2>4, ReportsKeep
  <2> QED BY <2>1, <2>2, <2>3, <2>4
<1> QED BY <1>1, <1>2

\* Whatever an operator's directory, list, manifest and reports hold comes from one
\* usable response of its own (writer.rs, commands/reconcile.rs).
THEOREM BundlesAreOwn == Spec => []BundleInv
BY InitBundle, StepBundle, PTL DEF Spec

-----------------------------------------------------------------------------
LEMMA StoredFollows == BundleInv => StoredIsWhatWasSaid
<1> SUFFICES ASSUME BundleInv, NEW o \in Operators
             PROVE  /\ refused[o] # Nothing => ~ States(refused[o])
                    /\ source[o] # Nothing =>
                         /\ States(source[o])
                         /\ Usable(Height, Document(disk[o][PoolsPath]))
                         /\ \A p \in Pools : \A f \in Fields :
                              Parsed(Document(disk[o][PoolsPath])).state[p][f] = LastWord(source[o], p, f)
  BY DEF StoredIsWhatWasSaid
<1>1. SourceInv(o)
  BY DEF BundleInv
<1>2. refused[o] # Nothing => ~ States(refused[o])
  BY <1>1, UsableIsStates DEF SourceInv
<1>3. source[o] # Nothing => Usable(Height, Document(disk[o][PoolsPath]))
  BY <1>1, ReadBack DEF SourceInv
<1> QED BY <1>1, <1>2, <1>3, ReadBack

\* For every pool, response and schedule, a capture refuses a response exactly
\* when it could not have been used, and reads back of what it stores what the
\* node said, an omission staying one (pool_state_file.rs, plan.rs).
THEOREM NothingIsMisread == Spec => []StoredIsWhatWasSaid
BY BundlesAreOwn, StoredFollows, PTL

LEMMA AgreeFollows == BundleInv => IndependentCapturesAgree
<1> SUFFICES ASSUME BundleInv, NEW o \in Finished, NEW q \in Finished
             PROVE  /\ SameEntries(source[o], source[q]) => Evidence(manifest[o]) = Evidence(manifest[q])
                    /\ SameFigures(source[o], source[q]) =>
                         Parsed(Document(disk[o][PoolsPath])) = Parsed(Document(disk[q][PoolsPath]))
  BY DEF IndependentCapturesAgree
<1>1. ASSUME NEW x \in Finished
      PROVE  /\ x \in Operators /\ pc[x] \in Late /\ manifest[x] = ManifestOf(x)
             /\ source[x] # Nothing /\ SourceInv(x)
  BY <1>1 DEF Finished, BundleInv, OutcomeInv, ListInv, ManifestOf
<1>2. ASSUME NEW x \in Finished
      PROVE  Evidence(manifest[x])
               = {Entry(BlockPath, <<"block", source[x].hash>>, 1), Entry(PoolsPath, <<"pools", Project(source[x])>>, 1)}
  <2> DEFINE list == manifest[x].files
  <2>1. /\ DOMAIN list = Files
        /\ \A p \in Files : list[p] = Entry(p, disk[x][p].content, disk[x][p].size)
        /\ disk[x][BlockPath] = BlockFile(source[x]) /\ disk[x][PoolsPath] = PoolsFile(source[x])
    BY <1>1, ManifestFacts
  <2>2. \A p \in Files : list[p].path = p
    BY <2>1, EntryIs
  <2>3. list[BlockPath] = Entry(BlockPath, <<"block", source[x].hash>>, 1)
    BY <2>1, PathFacts DEF BlockFile, Stored
  <2>4. list[PoolsPath] = Entry(PoolsPath, <<"pools", Project(source[x])>>, 1)
    BY <2>1, PathFacts DEF PoolsFile, Stored
  <2>5. Evidence(manifest[x]) = {list[i] : i \in {i \in DOMAIN list : list[i].path # NodePath}}
    BY DEF Evidence
  <2> HIDE DEF list
  <2>6. {i \in DOMAIN list : list[i].path # NodePath} = {BlockPath, PoolsPath}
    BY <2>1, <2>2, PathFacts
  <2> QED BY <2>3, <2>4, <2>5, <2>6
<1>3. ASSUME NEW x \in Finished
      PROVE  /\ Document(disk[x][PoolsPath]) = Project(source[x])
             /\ States(source[x]) /\ source[x] \in Responses
             /\ \A p \in Pools : \A f \in Fields :
                  Stated(Project(source[x]), p, f) = LastWord(source[x], p, f)
  <2>1. /\ Document(disk[x][PoolsPath]) = Project(source[x]) /\ States(source[x]) /\ source[x] \in Responses
    BY <1>1, ReadBack
  <2>2. source[x].pools \notin {Absent, Text} /\ source[x].pools \in Seq(Range(source[x].pools))
    BY <2>1, ResponseAssumption DEF States
  <2> QED BY <2>1, <2>2, StatedIsLastWord
<1> DEFINE r == source[o]
           s == source[q]
<1>4. ASSUME SameEntries(r, s) PROVE Project(r) = Project(s) /\ r.hash = s.hash
  <2>1. /\ r.hash = s.hash /\ r.height = s.height /\ Len(r.pools) = Len(s.pools)
        /\ \A i \in DOMAIN r.pools : \A f \in Fields \cup {"id"} : r.pools[i][f] = s.pools[i][f]
    BY <1>4 DEF SameEntries, SameFigures
  <2>2. /\ r.pools \notin {Absent, Text} /\ s.pools \notin {Absent, Text}
        /\ r.pools \in Seq(Range(r.pools)) /\ s.pools \in Seq(Range(s.pools))
    BY <1>3, ResponseAssumption DEF States
  <2> HIDE DEF r, s
  <2>3. DOMAIN r.pools = DOMAIN s.pools
    <3>1. DOMAIN r.pools = 1 .. Len(r.pools) /\ DOMAIN s.pools = 1 .. Len(s.pools)
      BY <2>2
    <3> QED BY <2>1, <3>1
  <2>4. \A i \in DOMAIN r.pools : ProjectPool(r.pools[i]) = ProjectPool(s.pools[i])
    BY <2>1 DEF ProjectPool, Fields, Figures
  <2> QED BY <2>1, <2>2, <2>3, <2>4 DEF Project
<1>5. SameEntries(r, s) => Evidence(manifest[o]) = Evidence(manifest[q])
  BY <1>2, <1>4
<1>6. ASSUME SameFigures(r, s) PROVE Parsed(Project(r)) = Parsed(Project(s))
  <2>1. /\ r.hash = s.hash /\ r.height = s.height
        /\ \A p \in Pools : \A f \in Fields : LastWord(r, p, f) = LastWord(s, p, f)
    BY <1>6 DEF SameFigures
  <2>2. \A p \in Pools : \A f \in Fields : Stated(Project(r), p, f) = Stated(Project(s), p, f)
    BY <1>3, <2>1
  <2>3. Project(r).hash = r.hash /\ Project(r).height = r.height
        /\ Project(s).hash = s.hash /\ Project(s).height = s.height
    BY DEF Project
  <2> HIDE DEF r, s
  <2> QED BY <2>1, <2>2, <2>3 DEF Parsed
<1> QED BY <1>3, <1>5, <1>6

\* However many operators there are and whatever their nodes add, two captures of
\* one block agree on its evidence, byte for byte or in what is read from it
\* (pool_state_file.rs, plan.rs).
THEOREM CapturesAgree == Spec => []IndependentCapturesAgree
BY BundlesAreOwn, AgreeFollows, PTL

\* A report is computed from the response alone, and no file of the folder holds
\* anything else.
LEMMA ReportsFollow == BundleInv => ReportsAgree
<1> SUFFICES ASSUME BundleInv PROVE ReportsAgree
  OBVIOUS
<1>1. ASSUME NEW o \in Operators, report[o] # Nothing
      PROVE  report[o] = Computed(o)
  BY <1>1 DEF BundleInv, OutcomeInv
<1>2. ASSUME NEW o \in Operators, NEW q \in Operators, SameFigures(source[o], source[q])
      PROVE  Computed(o) = Computed(q)
  <2>1. /\ source[o].hash = source[q].hash
        /\ \A p \in Reconstructed : \A f \in Figures : LastWord(source[o], p, f) = LastWord(source[q], p, f)
    BY <1>2, PoolAssumption DEF SameFigures, Fields
  <2> QED BY <2>1 DEF Computed
<1>3. ASSUME NEW o \in Operators
      PROVE  \/ reports[o][ReportJson] \in {Nothing, Torn, reports[o][ReportHash]}
             \/ reports[o][ReportHash] \in {Nothing, Torn}
  <2>1. \A p \in ReportFiles : reports[o][p] \in {Nothing, Torn, Computed(o)}
    BY DEF BundleInv, OutcomeInv
  <2>2. ReportJson \in ReportFiles /\ ReportHash \in ReportFiles
    BY DEF ReportFiles, ReportJson, ReportHash
  <2> QED BY <2>1, <2>2
<1> QED BY <1>1, <1>2, <1>3 DEF ReportsAgree, Finished

\* Whatever else their nodes say, and however often each reconciles over what
\* earlier runs left, two operators get one report of one block
\* (commands/reconcile.rs).
THEOREM ReportsAreOne == Spec => []ReportsAgree
BY BundlesAreOwn, ReportsFollow, PTL

\* The sizes of three files of one byte.
LEMMA SumOfThree ==
  ASSUME NEW f, DOMAIN f = Files, \A p \in Files : f[p] = 1
  PROVE  SumFunction(f) = 3
<1> DEFINE S(n) == SumFunctionOnSet(f, 1 .. n)
<1>1. f[1] = 1 /\ f[2] = 1 /\ f[3] = 1
  BY DEF Files
<1>2. ASSUME NEW n \in {0, 1, 2} PROVE S(n + 1) = f[n + 1] + S(n)
  <2>1. \A i \in 1 .. n + 1 : f[i] \in Int
    BY DEF Files
  <2>2. 1 \in Int /\ n \in Int /\ 1 <= n + 1
    OBVIOUS
  <2> QED BY <2>1, <2>2, SumUpTo
<1>3. S(0) = 0
  <2>1. 1 .. 0 = {}
    OBVIOUS
  <2> QED BY <2>1, SumEmpty
<1>4. SumFunction(f) = S(3)
  BY DEF SumFunction, Files
<1> HIDE DEF S
<1>5. S(0 + 1) = f[0 + 1] + S(0) /\ S(1 + 1) = f[1 + 1] + S(1) /\ S(2 + 1) = f[2 + 1] + S(2)
  BY <1>2
<1>6. 0 + 1 = 1 /\ 1 + 1 = 2 /\ 2 + 1 = 3
  OBVIOUS
<1>7. S(1) = f[1] + S(0) /\ S(2) = f[2] + S(1) /\ S(3) = f[3] + S(2)
  BY <1>5, <1>6
<1> QED BY <1>1, <1>3, <1>4, <1>7

LEMMA ListsFollow == BundleInv => ManifestListsBundle
<1> SUFFICES ASSUME BundleInv, NEW o \in Operators
             PROVE  /\ pc[o] = "end" => Loads(ManifestOf(o))
                    /\ pc[o] = "finished" =>
                         /\ manifest[o].files = [p \in Files |-> Entry(p, disk[o][p].content, disk[o][p].size)]
                         /\ TotalFits(manifest[o])
  BY DEF ManifestListsBundle, ManifestOf
<1>1. pc[o] = "end" => Loads(ManifestOf(o))
  BY ManifestLoads
<1>2. ASSUME pc[o] = "finished"
      PROVE  /\ manifest[o].files = [p \in Files |-> Entry(p, disk[o][p].content, disk[o][p].size)]
             /\ TotalFits(manifest[o])
  <2> DEFINE l == manifest[o].files
             f == [i \in DOMAIN l |-> l[i].size]
  <2>1. pc[o] \in Late
    BY <1>2 DEF Late
  <2>2. manifest[o] = ManifestOf(o)
    BY <2>1 DEF BundleInv, OutcomeInv, ManifestOf
  <2>3. /\ DOMAIN l = Files /\ \E E : l \in Seq(E)
        /\ \A p \in Files : l[p] = Entry(p, disk[o][p].content, disk[o][p].size)
        /\ disk[o][NodePath] = NodeFile(o) /\ disk[o][BlockPath] = BlockFile(source[o])
        /\ disk[o][PoolsPath] = PoolsFile(source[o])
    BY <2>1, <2>2, ManifestFacts
  <2> HIDE DEF l
  <2>4. l = [p \in Files |-> Entry(p, disk[o][p].content, disk[o][p].size)]
    <3>1. l = [i \in DOMAIN l |-> l[i]]
      BY <2>3
    <3> QED BY <2>3, <3>1
  <2>5. \A p \in Files : f[p] = 1
    <3>1. \A p \in Files : l[p].size = disk[o][p].size
      BY <2>3, EntryIs
    <3>2. disk[o][NodePath].size = 1 /\ disk[o][BlockPath].size = 1 /\ disk[o][PoolsPath].size = 1
      BY <2>3 DEF NodeFile, BlockFile, PoolsFile, Stored
    <3> QED BY <2>3, <3>1, <3>2, PathFacts
  <2>6. SumFunction(f) = 3
    <3>1. DOMAIN f = Files
      BY <2>3
    <3> HIDE DEF f
    <3> QED BY <2>5, <3>1, SumOfThree
  <2>7. 3 <= MaxSize
    <3>1. \A a, b \in Int : Cardinality(a .. b) = IF a > b THEN 0 ELSE b - a + 1
      BY FS_Interval
    <3> DEFINE one == 1
               three == 3
    <3>2. one \in Int /\ three \in Int /\ ~ (one > three) /\ three - one + 1 = 3
      OBVIOUS
    <3> HIDE DEF one, three
    <3>3. Cardinality(one .. three) = 3
      BY <3>1, <3>2
    <3>4. Cardinality(Files) = 3
      BY <3>3 DEF Files, one, three
    <3> QED BY <3>4, BundleAssumption
  <2>8. TotalSize(manifest[o]) = SumFunction(f)
    BY DEF TotalSize, l
  <2> QED BY <2>4, <2>6, <2>7, <2>8 DEF TotalFits, l
<1> QED BY <1>1, <1>2

\* The manifest of every capture that has its files is one its own reader accepts,
\* and lists what is on disk, once and in order (writer.rs, manifest.rs).
THEOREM ManifestsListBundles == Spec => []ManifestListsBundle
BY BundlesAreOwn, ListsFollow, PTL

-----------------------------------------------------------------------------
\* A list in strict order has no path twice.
LEMMA StrictlyOrdered ==
  ASSUME NEW n \in Nat, NEW f, \A i \in 1 .. n : f[i] \in Int,
         \A i \in (1 .. n) \ {1} : f[i - 1] < f[i]
  PROVE  \A i, j \in 1 .. n : f[i] = f[j] => i = j
<1> DEFINE G == {k \in Nat : \A i \in 1 .. n : i + k + 1 <= n => f[i] < f[i + k + 1]}
<1>1. ASSUME NEW i \in 1 .. n, i + 1 <= n PROVE f[i] < f[i + 1]
  <2>1. i + 1 \in (1 .. n) \ {1} /\ (i + 1) - 1 = i
    BY <1>1
  <2> QED BY <2>1
<1>2. 0 \in G
  <2>1. ASSUME NEW i \in 1 .. n, i + 0 + 1 <= n PROVE f[i] < f[i + 0 + 1]
    <3>1. i + 0 + 1 = i + 1
      OBVIOUS
    <3> QED BY <1>1, <2>1, <3>1
  <2> QED BY <2>1
<1>3. ASSUME NEW k \in Nat, k \in G PROVE k + 1 \in G
  <2>1. ASSUME NEW i \in 1 .. n, i + (k + 1) + 1 <= n PROVE f[i] < f[i + (k + 1) + 1]
    <3> DEFINE j == i + k + 1
    <3>1. j \in 1 .. n /\ j + 1 <= n /\ i + (k + 1) + 1 = j + 1 /\ j + 1 \in 1 .. n
      BY <2>1
    <3>2. f[i] < f[j]
      BY <1>3, <3>1
    <3> HIDE DEF j
    <3>3. f[j] < f[j + 1]
      BY <1>1, <3>1
    <3>4. f[i] \in Int /\ f[j] \in Int /\ f[j + 1] \in Int
      BY <3>1
    <3> DEFINE x == f[i]
               y == f[j]
               z == f[j + 1]
    <3>5. x < y /\ y < z /\ x \in Int /\ y \in Int /\ z \in Int
      BY <3>2, <3>3, <3>4
    <3> HIDE DEF x, y, z
    <3>6. x < z
      BY <3>5
    <3> QED BY <3>1, <3>6 DEF x, z
  <2> QED BY <2>1
<1>4. Nat \subseteq G
  <2> HIDE DEF G
  <2> QED BY <1>2, <1>3, AllNat
<1>5. ASSUME NEW i \in 1 .. n, NEW j \in 1 .. n, i < j PROVE f[i] < f[j]
  <2> DEFINE k == j - i - 1
  <2>1. k \in Nat /\ i + k + 1 = j /\ j <= n
    BY <1>5
  <2> HIDE DEF k
  <2>2. k \in G
    <3> HIDE DEF G
    <3> QED BY <1>4, <2>1
  <2>3. i + k + 1 <= n => f[i] < f[i + k + 1]
    BY <2>2
  <2> QED BY <2>1, <2>3
<1> SUFFICES ASSUME NEW i \in 1 .. n, NEW j \in 1 .. n, f[i] = f[j] PROVE i = j
  OBVIOUS
<1>6. ~ (i < j) /\ ~ (j < i)
  <2>1. f[i] \in Int /\ f[j] \in Int /\ ~ (f[i] < f[j]) /\ ~ (f[j] < f[i])
    OBVIOUS
  <2> QED BY <1>5, <2>1
<1> QED BY <1>6

IsList(l) == \E n \in Nat : DOMAIN l = 1 .. n

\* One change to a list of entries leaves a list.
LEMMA ChangedIsList ==
  ASSUME NEW E, NEW l \in Seq(E), NEW c \in EntriesChanged(l)
  PROVE  IsList(c)
<1>1. DOMAIN l = 1 .. Len(l) /\ Len(l) \in Nat
  OBVIOUS
<1>2. \A s \in Seq(E) : IsList(s)
  BY DEF IsList
<1>3. ASSUME NEW i \in DOMAIN l
      PROVE  /\ SubSeq(l, 1, i - 1) \in Seq(E) /\ SubSeq(l, i, Len(l)) \in Seq(E)
             /\ SubSeq(l, i + 1, Len(l)) \in Seq(E)
  BY <1>1
<1>4. \A s, t \in Seq(E) : s \o t \in Seq(E)
  OBVIOUS
<1>5. ASSUME NEW i \in DOMAIN l PROVE RemoveAt(l, i) \in Seq(E)
  BY <1>3, <1>4 DEF RemoveAt
<1>6. ASSUME NEW i \in DOMAIN l, NEW j \in DOMAIN l PROVE InsertAt(l, i, l[j]) \in Seq(E)
  <2>1. <<l[j]>> \in Seq(E)
    <3>1. l[j] \in E
      OBVIOUS
    <3> QED BY <3>1
  <2> QED BY <1>3, <1>4, <2>1 DEF InsertAt
<1>7. CASE \E i \in DOMAIN l : c = RemoveAt(l, i)
  BY <1>2, <1>5, <1>7
<1>8. CASE \E i, j \in DOMAIN l : c = InsertAt(l, i, l[j])
  BY <1>2, <1>6, <1>8
<1>9. CASE DOMAIN c = DOMAIN l
  BY <1>1, <1>9 DEF IsList
<1> QED BY <1>7, <1>8, <1>9 DEF EntriesChanged

LEMMA ChangedFiles ==
  ASSUME NEW E, NEW n, NEW i, NEW l, FoldLeft(AddFile, <<>>, l) \in Seq(E),
         NEW m \in ManifestsChanged(Build(n, i, l))
  PROVE  IsList(m.files)
<1> DEFINE built == Build(n, i, l)
           list == FoldLeft(AddFile, <<>>, l)
<1>1. IsList(list)
  <2> HIDE DEF list
  <2> QED BY DEF IsList, list
<1>2. CASE \E c \in EntriesChanged(list) : m = [built EXCEPT !.files = c]
  <2>1. PICK c \in EntriesChanged(list) : m = [built EXCEPT !.files = c]
    BY <1>2
  <2>2. m.files = c
    BY <2>1 DEF Build
  <2>3. IsList(c)
    <3> HIDE DEF list
    <3> QED BY ChangedIsList DEF list
  <2> QED BY <2>2, <2>3
<1>3. CASE m.files = list
  BY <1>1, <1>3
<1>4. built.files = list
  BY DEF Build
<1> QED BY <1>2, <1>3, <1>4 DEF ManifestsChanged, Build

\* A directory in which every file is there, with its size and its bytes, is as
\* it was.
IsFile(f) == f = [content |-> f.content, size |-> f.size]

LEMMA SameDisk ==
  ASSUME NEW D, D = [p \in Files |-> D[p]], \A p \in Files : IsFile(D[p]),
         NEW d \in DisksChanged(D),
         \A p \in Files : d[p] # Nothing /\ d[p].content = D[p].content /\ d[p].size = D[p].size
  PROVE  d = D
<1>0. DOMAIN D = Files
  OBVIOUS
<1>1. ASSUME NEW p \in Files, NEW f, d = [D EXCEPT ![p] = f], IsFile(f)
      PROVE  d = D
  <2>1. d[p] = f
    BY <1>0, <1>1
  <2>2. f.content = D[p].content /\ f.size = D[p].size
    BY <2>1
  <2>3. f = D[p]
    BY <1>1, <2>2 DEF IsFile
  <2>4. \A q \in Files : d[q] = D[q]
    BY <1>0, <1>1, <2>3
  <2>5. d = [q \in Files |-> d[q]]
    BY <1>0, <1>1
  <2> QED BY <2>4, <2>5
<1>2. ASSUME NEW p \in Files, NEW c
      PROVE  /\ [D EXCEPT ![p].content = c] = [D EXCEPT ![p] = [content |-> c, size |-> D[p].size]]
             /\ [D EXCEPT ![p].size = c] = [D EXCEPT ![p] = [content |-> D[p].content, size |-> c]]
  <2> DEFINE old == D[p]
  <2>1. old = [content |-> old.content, size |-> old.size]
    BY DEF IsFile
  <2> HIDE DEF old
  <2>2. /\ [old EXCEPT !.content = c] = [content |-> c, size |-> old.size]
        /\ [old EXCEPT !.size = c] = [content |-> old.content, size |-> c]
    BY <2>1
  <2>3. /\ [D EXCEPT ![p].content = c] = [D EXCEPT ![p] = [old EXCEPT !.content = c]]
        /\ [D EXCEPT ![p].size = c] = [D EXCEPT ![p] = [old EXCEPT !.size = c]]
    BY DEF old
  <2> QED BY <2>2, <2>3 DEF old
<1>3. ASSUME NEW c, NEW s PROVE IsFile([content |-> c, size |-> s])
  BY DEF IsFile
<1>4. CASE d = D
  BY <1>4
<1>5. CASE \E p \in Files : d = [D EXCEPT ![p] = Nothing]
  <2>1. PICK p \in Files : d = [D EXCEPT ![p] = Nothing]
    BY <1>5
  <2> QED BY <1>0, <2>1
<1>6. CASE \E p \in Files : d = [D EXCEPT ![p].content = <<"other">>]
  <2>1. PICK p \in Files : d = [D EXCEPT ![p].content = <<"other">>]
    BY <1>6
  <2> DEFINE c == <<"other">>
             f == [content |-> c, size |-> D[p].size]
  <2> HIDE DEF c
  <2>2. d = [D EXCEPT ![p] = f]
    BY <1>2, <2>1 DEF c
  <2>3. IsFile(f)
    BY <1>3
  <2> HIDE DEF f
  <2> QED BY <1>1, <2>2, <2>3
<1>7. CASE \E p \in Files : d = [D EXCEPT ![p].size = 2]
  <2>1. PICK p \in Files : d = [D EXCEPT ![p].size = 2]
    BY <1>7
  <2> DEFINE f == [content |-> D[p].content, size |-> 2]
  <2>2. d = [D EXCEPT ![p] = f]
    <3>1. [D EXCEPT ![p].size = 2] = [D EXCEPT ![p] = f]
      BY <1>2
    <3> QED BY <2>1, <3>1
  <2>3. IsFile(f)
    BY <1>3
  <2> HIDE DEF f
  <2> QED BY <1>1, <2>2, <2>3
<1> QED BY <1>4, <1>5, <1>6, <1>7 DEF DisksChanged

LEMMA ValidatedFollows == BundleInv => ValidatedIsFinished
<1> SUFFICES ASSUME BundleInv, NEW o \in JustFinished,
                    NEW m \in ManifestsChanged(manifest[o]), NEW d \in DisksChanged(disk[o])
             PROVE  /\ Loads(m) /\ Validates(m, manifest[o], d) => m = manifest[o] /\ d = disk[o]
                    /\ Loads(m) /\ Validates(m, Nothing, d) =>
                         /\ EvidenceComplete(m, d)
                         /\ \A i, j \in DOMAIN m.files :
                              /\ m.files[i].path \notin UnsafePaths
                              /\ m.files[i].path = m.files[j].path => i = j
  BY DEF ValidatedIsFinished
<1>1. /\ o \in Operators /\ manifest[o] # Nothing /\ pc[o] \in Late
      /\ manifest[o] = ManifestOf(o)
      /\ disk[o] = [p \in Files |-> disk[o][p]]
  BY DEF JustFinished, Finished, BundleInv, Shape, OutcomeInv, ManifestOf
<1> DEFINE l == manifest[o].files
<1>2. /\ DOMAIN l = Files /\ \E E : l \in Seq(E)
      /\ \A p \in Files : l[p] = Entry(p, disk[o][p].content, disk[o][p].size)
      /\ disk[o][NodePath] = NodeFile(o) /\ disk[o][BlockPath] = BlockFile(source[o])
      /\ disk[o][PoolsPath] = PoolsFile(source[o])
  BY <1>1, ManifestFacts
<1>3. DOMAIN d = Files
  BY <1>1 DEF DisksChanged
<1>4. ASSUME Validates(m, manifest[o], d) PROVE m = manifest[o] /\ d = disk[o]
  <2>1. m = manifest[o]
    BY <1>1, <1>4 DEF Validates
  <2>2. ASSUME NEW p \in Files
        PROVE  d[p] # Nothing /\ d[p].content = disk[o][p].content /\ d[p].size = disk[o][p].size
    <3>1. Matches(d, l[p])
      BY <1>2, <1>4, <2>1 DEF Validates
    <3>2. l[p].path = p /\ l[p].sha256 = disk[o][p].content /\ l[p].size = disk[o][p].size
      BY <1>2, EntryIs
    <3> HIDE DEF l
    <3> QED BY <3>1, <3>2 DEF Matches
  <2>3. ASSUME NEW p \in Files PROVE IsFile(disk[o][p])
    <3>1. /\ IsFile(disk[o][NodePath]) /\ IsFile(disk[o][BlockPath]) /\ IsFile(disk[o][PoolsPath])
      BY <1>2 DEF NodeFile, BlockFile, PoolsFile, Stored, IsFile
    <3> QED BY <3>1, PathFacts
  <2> QED BY <1>1, <2>1, <2>2, <2>3, SameDisk
<1>5. ASSUME Loads(m), Validates(m, Nothing, d)
      PROVE  /\ EvidenceComplete(m, d)
             /\ \A i, j \in DOMAIN m.files :
                  /\ m.files[i].path \notin UnsafePaths
                  /\ m.files[i].path = m.files[j].path => i = j
  <2>1. \A i \in DOMAIN m.files : m.files[i].path \in Files /\ d[m.files[i].path] # Nothing
    BY <1>3, <1>5 DEF Validates, Matches
  <2>2. EvidenceComplete(m, d)
    BY <1>3, <2>1 DEF EvidenceComplete
  <2>3. GoodFiles(m.files)
    BY <1>5 DEF Loads
  <2>4. IsList(m.files)
    <3>1. PICK E : l \in Seq(E)
      BY <1>2
    <3>2. l = FoldLeft(AddFile, <<>>, files[o])
      BY <1>1 DEF ManifestOf, Build
    <3>3. m \in ManifestsChanged(Build(Network, Interval(Height, Height), files[o]))
      BY <1>1 DEF ManifestOf
    <3>4. FoldLeft(AddFile, <<>>, files[o]) \in Seq(E)
      BY <3>1, <3>2
    <3> QED BY <3>3, <3>4, ChangedFiles
  <2>5. PICK n \in Nat : DOMAIN m.files = 1 .. n
    BY <2>4 DEF IsList
  <2> DEFINE f == [i \in 1 .. n |-> m.files[i].path]
  <2>6. \A i \in 1 .. n : f[i] \in Int
    BY <2>1, <2>5 DEF Files
  <2>7. \A i \in (1 .. n) \ {1} : f[i - 1] < f[i]
    <3> SUFFICES ASSUME NEW i \in (1 .. n) \ {1} PROVE f[i - 1] < f[i]
      OBVIOUS
    <3>1. i - 1 \in 1 .. n
      OBVIOUS
    <3>2. m.files[i - 1].path < m.files[i].path
      BY <2>3, <2>5 DEF GoodFiles
    <3> QED BY <3>1, <3>2
  <2>8. \A i, j \in 1 .. n : f[i] = f[j] => i = j
    <3> HIDE DEF f
    <3> QED BY <2>6, <2>7, StrictlyOrdered
  <2>9. \A i \in DOMAIN m.files : m.files[i].path \notin UnsafePaths
    BY <2>3 DEF GoodFiles
  <2> QED BY <2>2, <2>5, <2>8, <2>9
<1> QED BY <1>4, <1>5

\* Of one change to any finished bundle: what is pinned and validates is what its
\* capture finished; what validates unpinned is complete and lists no path twice
\* and none outside (manifest.rs, validation.rs).
THEOREM OnlyFinishedValidates == Spec => []ValidatedIsFinished
BY BundlesAreOwn, ValidatedFollows, PTL
=============================================================================
