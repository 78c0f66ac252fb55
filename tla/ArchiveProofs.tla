--------------------------- MODULE ArchiveProofs ---------------------------
(***************************************************************************)
(* Theorems about Archive: what success of `capture --archive` and of      *)
(* `verify` guarantees, for every set of archives and bundles.             *)
(***************************************************************************)
EXTENDS ArchiveSafety, Folding

\* The archive and the digest that stand while a command is at each step.
StandingInv ==
  /\ archive = Absent => digest = Absent
  /\ pc \in {"capture", "create"} => overwrite \/ archive = Absent
  /\ pc \in {"append", "digest"} => archive # Absent /\ (overwrite \/ digest = Absent)
  /\ pc \in {"extract", "judge"} => archive # Absent
  /\ pc # "append" => left = {}
  /\ pc # "idle" => exit = "none"

\* What has been extracted is what the entries before the position hold.
ExtractionInv ==
  /\ pc \in {"extract", "judge"} =>
       /\ index <= Len(archive.entries) + 1
       /\ \A p \in Paths : HoldsLast(index - 1, p)
  /\ pc = "judge" => ~ archive.cut /\ index = Len(archive.entries) + 1

IInv == TypeOK /\ StandingInv /\ DigestIsOfArchive /\ ExtractionInv /\ ReproducedIsWhole

-----------------------------------------------------------------------------
\* A packed file is an entry that delivers what it declares.
LEMMA PackedEntry ==
  ASSUME NEW p \in Paths, bundle[p] \in Contents
  PROVE  EntryOf(bundle, p) \in Entry
BY SizeAssumption DEF EntryOf, Entry, Kinds

\* What survives of an archive is an archive.
LEMMA BeginningIsArchive ==
  ASSUME archive \in Archives, NEW a \in Beginnings
  PROVE  a \in Archives
<1>1. PICK n \in 0 .. Len(archive.entries) : a = [entries |-> SubSeq(archive.entries, 1, n), cut |-> TRUE]
  BY DEF Beginnings
<1>2. archive.entries \in Seq(Entry)
  BY DEF Archives
<1>3. SubSeq(archive.entries, 1, n) \in Seq(Entry)
  BY <1>2
<1>. QED BY <1>1, <1>3 DEF Archives

\* Absent is neither an archive nor a torn digest.
LEMMA Sentinels == Absent \notin Archives /\ Torn # Absent /\ Torn \notin Archives
BY ContentAssumption

\* The extraction directory is empty when a command starts.
LEMMA EmptyTyped ==
  /\ Empty \in Directory
  /\ 0 \in 0 .. MaxEntries /\ 0 \in 0 .. MaxTotal /\ 0 \in 0 .. MaxFaults
  /\ 1 \in Nat \ {0}
<1>1. Empty \in Directory
  BY DEF Empty, Directory
<1>2. MaxEntries \in Nat /\ MaxTotal \in Nat /\ MaxFaults \in Nat
  BY LimitAssumption
<1>. QED BY <1>1, <1>2

LEMMA InitIInv == Init => IInv
<1>. SUFFICES ASSUME Init PROVE IInv
  OBVIOUS
<1>1. TypeOK
  BY ContentAssumption, EmptyTyped DEF Init, TypeOK, Steps, Exits
<1>. QED BY <1>1
  DEF Init, IInv, StandingInv, DigestIsOfArchive, ExtractionInv, ReproducedIsWhole

-----------------------------------------------------------------------------
LEMMA CaptureToStep == ASSUME IInv, NEW o \in BOOLEAN, CaptureTo(o) PROVE IInv'
<1>. USE DEF CaptureTo, Finish, published
<1>1. TypeOK'
  BY EmptyTyped DEF IInv, TypeOK, Steps, Exits, Files
<1>2. StandingInv'
  BY DEF IInv, StandingInv, ArchiveFree
<1>. QED BY <1>1, <1>2 DEF IInv, DigestIsOfArchive, ExtractionInv, ReproducedIsWhole

LEMMA CapturedStep == ASSUME IInv, Captured PROVE IInv'
<1>. USE DEF Captured
<1>1. TypeOK'
  BY ContentAssumption DEF IInv, TypeOK, StandingInv, Steps, extraction
<1>2. StandingInv'
  BY DEF IInv, StandingInv
<1>. QED BY <1>1, <1>2 DEF IInv, StandingInv, DigestIsOfArchive, ExtractionInv, ReproducedIsWhole

LEMMA CreateArchiveStep == ASSUME IInv, CreateArchive PROVE IInv'
<1>. USE DEF CreateArchive
<1>1. archive' \in Archives
  BY DEF Archives
<1>2. TypeOK'
  BY <1>1 DEF IInv, TypeOK, Steps, extraction, Files
<1>3. StandingInv'
  BY <1>1, Sentinels DEF IInv, StandingInv
<1>. QED BY <1>2, <1>3 DEF IInv, StandingInv, DigestIsOfArchive, ExtractionInv, ReproducedIsWhole

LEMMA AppendEntryStep == ASSUME IInv, AppendEntry PROVE IInv'
<1>. USE DEF AppendEntry
<1>1. archive \in Archives
  BY DEF IInv, TypeOK, StandingInv
<1>2. PICK p \in left :
        archive' = [archive EXCEPT !.entries = Append(@, EntryOf(bundle, p))]
  OBVIOUS
<1>3. p \in Paths /\ bundle[p] \in Contents
  BY DEF IInv, TypeOK, Files, Directory
<1>4. archive' \in Archives
  <2>1. EntryOf(bundle, p) \in Entry
    BY <1>3, PackedEntry
  <2>2. archive.entries \in Seq(Entry) /\ archive.cut \in BOOLEAN
    BY <1>1 DEF Archives
  <2>3. Append(archive.entries, EntryOf(bundle, p)) \in Seq(Entry)
    BY <2>1, <2>2
  <2>. QED BY <1>1, <1>2, <2>3 DEF Archives
<1>5. TypeOK'
  BY <1>4 DEF IInv, TypeOK, Steps, extraction
<1>6. StandingInv'
  BY <1>4, Sentinels DEF IInv, StandingInv
<1>. QED BY <1>5, <1>6 DEF IInv, StandingInv, DigestIsOfArchive, ExtractionInv, ReproducedIsWhole

LEMMA FinishArchiveStep == ASSUME IInv, FinishArchive PROVE IInv'
<1>. USE DEF FinishArchive
<1>1. archive \in Archives
  BY DEF IInv, TypeOK, StandingInv
<1>2. archive' \in Archives
  <2>1. CASE archive' = [archive EXCEPT !.cut = FALSE]
    BY <1>1, <2>1 DEF Archives
  <2>2. CASE archive' \in Beginnings
    BY <1>1, <2>2, BeginningIsArchive
  <2>. QED BY <2>1, <2>2
<1>3. TypeOK'
  BY <1>2, LimitAssumption DEF IInv, TypeOK, Steps, extraction
<1>4. StandingInv'
  BY <1>2, Sentinels DEF IInv, StandingInv
<1>. QED BY <1>3, <1>4 DEF IInv, StandingInv, DigestIsOfArchive, ExtractionInv, ReproducedIsWhole

LEMMA WriteDigestStep == ASSUME IInv, WriteDigest PROVE IInv'
<1>. USE DEF WriteDigest, Finish
<1>1. TypeOK'
  BY DEF IInv, TypeOK, StandingInv, Steps, Exits, extraction
<1>2. StandingInv'
  BY DEF IInv, StandingInv
<1>3. DigestIsOfArchive'
  BY DEF IInv, StandingInv, DigestIsOfArchive
<1>. QED BY <1>1, <1>2, <1>3 DEF IInv, ExtractionInv, ReproducedIsWhole

LEMMA DieStep == ASSUME IInv, Die PROVE IInv'
<1>. USE DEF Die, Finish
<1>1. archive' \in Archives \cup {Absent} /\ (archive # Absent => archive' # Absent) /\ (archive = Absent => archive' = archive)
  <2>1. CASE pc = "append"
    <3>1. archive \in Archives /\ archive # Absent
      BY <2>1 DEF IInv, TypeOK, StandingInv
    <3>. QED BY <2>1, <3>1, BeginningIsArchive, Sentinels
  <2>2. CASE pc # "append"
    BY <2>2 DEF IInv, TypeOK
  <2>. QED BY <2>1, <2>2
<1>2. TypeOK'
  BY <1>1, LimitAssumption DEF IInv, TypeOK, Steps, Exits, extraction
<1>3. StandingInv'
  BY <1>1 DEF IInv, StandingInv
<1>. QED BY <1>2, <1>3 DEF IInv, DigestIsOfArchive, ExtractionInv, ReproducedIsWhole

-----------------------------------------------------------------------------
LEMMA VerifyStep ==
  ASSUME IInv, NEW e \in {Absent} \cup {Report(d) : d \in Bundles}, Verify(e) PROVE IInv'
<1>. USE DEF Verify, published
<1>1. e \in [EvidencePaths -> Contents \cup {Absent}] \cup {Absent}
  BY ContentAssumption, PathAssumption DEF Report, Directory
<1>2. TypeOK'
  BY <1>1, EmptyTyped DEF IInv, TypeOK, Steps, Exits, Files
<1>3. StandingInv'
  BY DEF IInv, StandingInv
<1>4. archive \in Archives
  BY DEF IInv, TypeOK
<1>5. Len(archive.entries) \in Nat
  BY <1>4 DEF Archives
<1>6. ExtractionInv'
  BY <1>5 DEF ExtractionInv, HoldsLast, Empty, Places
<1>. QED BY <1>2, <1>3, <1>6 DEF IInv, DigestIsOfArchive, ReproducedIsWhole

\* One more entry: its file becomes the last at its path.
LEMMA OneMore ==
  ASSUME NEW n \in Nat \ {0}, NEW p \in Paths, TypeOK, UNCHANGED archive,
         HoldsLast(n - 1, p),
         \/ archive.entries[n].kind # "file" /\ UNCHANGED extracted
         \/ /\ archive.entries[n].kind = "file"
            /\ extracted' = [extracted EXCEPT ![archive.entries[n].path] = archive.entries[n].content]
  PROVE  HoldsLast(n, p)'
<1>1. 1 .. n = 1 .. n - 1 \cup {n} /\ n \in 1 .. n /\ n + 1 .. n = {}
  OBVIOUS
<1>2. \A i \in 1 .. n - 1 : i + 1 .. n = i + 1 .. n - 1 \cup {n}
  OBVIOUS
<1>3. extracted \in [Paths -> Contents \cup {Absent}]
  BY DEF TypeOK, Directory
<1>4. \A i : Places(i, p)' <=> Places(i, p)
  BY DEF Places
<1>5. CASE Places(n, p)
  <2>1. extracted'[p] = archive.entries[n].content
    BY <1>3, <1>5 DEF Places
  <2>. QED BY <1>1, <1>4, <1>5, <2>1 DEF HoldsLast
<1>6. CASE ~ Places(n, p)
  <2>1. extracted'[p] = extracted[p]
    BY <1>3, <1>6 DEF Places
  <2>2. CASE (\A i \in 1 .. n - 1 : ~ Places(i, p)) /\ extracted[p] = Absent
    BY <1>1, <1>4, <1>6, <2>1, <2>2 DEF HoldsLast
  <2>3. CASE \E i \in 1 .. n - 1 :
               /\ Places(i, p)
               /\ \A j \in i + 1 .. n - 1 : ~ Places(j, p)
               /\ extracted[p] = archive.entries[i].content
    <3>1. PICK i \in 1 .. n - 1 :
            /\ Places(i, p)
            /\ \A j \in i + 1 .. n - 1 : ~ Places(j, p)
            /\ extracted[p] = archive.entries[i].content
      BY <2>3
    <3>2. i \in 1 .. n /\ \A j \in i + 1 .. n : ~ Places(j, p)
      BY <1>1, <1>2, <1>6, <3>1
    <3>. QED BY <1>4, <2>1, <3>1, <3>2 DEF HoldsLast
  <2>. QED BY <2>2, <2>3 DEF HoldsLast
<1>. QED BY <1>5, <1>6

LEMMA ExtractEntryStep == ASSUME IInv, ExtractEntry PROVE IInv'
<1>. USE DEF ExtractEntry, published
<1>1. archive \in Archives /\ archive.entries \in Seq(Entry) /\ Len(archive.entries) \in Nat
  BY DEF IInv, TypeOK, StandingInv, Archives
<1>2. index \in 1 .. Len(archive.entries)
  BY <1>1 DEF IInv, TypeOK
<1>3. Current \in Entry
  BY <1>1, <1>2 DEF Current
<1>4. CASE Refused
  <2>1. TypeOK'
    BY <1>4 DEF Refused, Finish, extraction, IInv, TypeOK, Steps, Exits
  <2>2. StandingInv'
    BY <1>4 DEF Refused, Finish, IInv, StandingInv
  <2>. QED BY <1>4, <2>1, <2>2
    DEF Refused, Finish, IInv, DigestIsOfArchive, ExtractionInv, ReproducedIsWhole
<1>5. CASE Skipped
  <2>1. TypeOK'
    BY <1>2, <1>5 DEF Skipped, IInv, TypeOK
  <2>2. StandingInv'
    BY <1>5 DEF Skipped, IInv, StandingInv
  <2>3. \A p \in Paths : HoldsLast(index - 1, p)'
    <3>. SUFFICES ASSUME NEW p \in Paths, NEW n \in Nat \ {0}, n = index PROVE HoldsLast(n, p)'
      BY <1>2, <1>5 DEF Skipped, HoldsLast, Places
    <3>1. HoldsLast(n - 1, p)
      BY DEF IInv, ExtractionInv
    <3>2. archive.entries[n].kind # "file" /\ UNCHANGED extracted
      BY <1>5 DEF Skipped, Current
    <3>. QED BY <3>1, <3>2, OneMore DEF IInv
  <2>4. ExtractionInv'
    BY <1>1, <1>2, <1>5, <2>3 DEF Skipped, ExtractionInv
  <2>. QED BY <1>5, <2>1, <2>2, <2>4 DEF Skipped, IInv, StandingInv, DigestIsOfArchive, ReproducedIsWhole
<1>6. CASE Written
  <2>1. TypeOK'
    <3>1. Current.path \in Paths /\ Current.content \in Contents /\ Current.declared \in Nat
      BY <1>3 DEF Entry
    <3>2. extracted' \in Directory
      BY <1>6, <3>1 DEF Written, IInv, TypeOK, Directory
    <3>3. count' \in 0 .. MaxEntries /\ total' \in 0 .. MaxTotal
      BY <1>6, <3>1, LimitAssumption DEF Written, Fits, IInv, TypeOK
    <3>. QED BY <1>2, <1>6, <3>2, <3>3 DEF Written, Finish, IInv, TypeOK, Steps, Exits
  <2>2. StandingInv'
    BY <1>6 DEF Written, Finish, IInv, StandingInv
  <2>3. CASE Size[Current.content] = Current.declared
    <3>1. index' = index + 1 /\ pc' = pc /\ exit' = exit
      BY <1>6, <2>3 DEF Written
    <3>2. \A p \in Paths : HoldsLast(index - 1, p)'
      <4>. SUFFICES ASSUME NEW p \in Paths, NEW n \in Nat \ {0}, n = index PROVE HoldsLast(n, p)'
        BY <1>2, <3>1 DEF HoldsLast, Places
      <4>1. HoldsLast(n - 1, p)
        BY DEF IInv, ExtractionInv
      <4>2. /\ archive.entries[n].kind = "file"
            /\ extracted' = [extracted EXCEPT ![archive.entries[n].path] = archive.entries[n].content]
        BY <1>6 DEF Written, Current
      <4>. QED BY <4>1, <4>2, OneMore DEF IInv
    <3>3. ExtractionInv'
      BY <1>1, <1>2, <3>1, <3>2 DEF ExtractionInv
    <3>. QED BY <2>1, <2>2, <3>1, <3>3 DEF IInv, StandingInv, DigestIsOfArchive, ReproducedIsWhole
  <2>4. CASE Size[Current.content] # Current.declared
    BY <1>6, <2>1, <2>2, <2>4
    DEF Written, Finish, IInv, DigestIsOfArchive, ExtractionInv, ReproducedIsWhole
  <2>. QED BY <2>3, <2>4
<1>. QED BY <1>4, <1>5, <1>6

LEMMA EndOfArchiveStep == ASSUME IInv, EndOfArchive PROVE IInv'
<1>. USE DEF EndOfArchive, Finish, published, extraction
<1>1. archive \in Archives /\ archive.entries \in Seq(Entry) /\ Len(archive.entries) \in Nat
  BY DEF IInv, TypeOK, StandingInv, Archives
<1>2. TypeOK'
  BY DEF IInv, TypeOK, Steps, Exits
<1>3. StandingInv'
  BY DEF IInv, StandingInv
<1>4. \A n, p : HoldsLast(n, p)' <=> HoldsLast(n, p)
  BY DEF HoldsLast, Places
<1>5. ExtractionInv'
  <2>1. CASE archive.cut
    BY <2>1 DEF ExtractionInv
  <2>2. CASE ~ archive.cut
    <3>1. index = Len(archive.entries) + 1
      BY <1>1 DEF IInv, TypeOK, ExtractionInv
    <3>2. \A p \in Paths : HoldsLast(index - 1, p)
      BY DEF IInv, ExtractionInv
    <3>. QED BY <1>4, <2>2, <3>1, <3>2 DEF ExtractionInv
  <2>. QED BY <2>1, <2>2
<1>. QED BY <1>2, <1>3, <1>5 DEF IInv, StandingInv, DigestIsOfArchive, ReproducedIsWhole

LEMMA JudgeStep == ASSUME IInv, Judge PROVE IInv'
<1>. USE DEF Judge, Finish, published, extraction
<1>1. archive.entries \in Seq(Entry) /\ Len(archive.entries) \in Nat
  BY DEF IInv, TypeOK, StandingInv, Archives
<1>2. TypeOK'
  BY DEF IInv, TypeOK, Steps, Exits
<1>3. StandingInv'
  BY DEF IInv, StandingInv
<1>4. \A n, p : HoldsLast(n, p)' <=> HoldsLast(n, p)
  BY DEF HoldsLast, Places
<1>5. ReproducedIsWhole'
  <2>. SUFFICES ASSUME exit' = "reproduced"
                PROVE  /\ ~ archive.cut
                       /\ \A p \in Paths : HoldsLast(Len(archive.entries), p)
                       /\ extracted \in Passing
                       /\ expected # Absent => Report(extracted) = expected
    BY <1>4 DEF ReproducedIsWhole, Report
  <2>1. ~ archive.cut /\ index - 1 = Len(archive.entries)
    BY <1>1 DEF IInv, ExtractionInv
  <2>2. \A p \in Paths : HoldsLast(index - 1, p)
    BY DEF IInv, ExtractionInv
  <2>. QED BY <2>1, <2>2 DEF Mismatch
<1>. QED BY <1>2, <1>3, <1>5 DEF IInv, DigestIsOfArchive, ExtractionInv

LEMMA Stutters == ASSUME IInv, UNCHANGED vars PROVE IInv'
BY DEF IInv, vars, published, extraction, TypeOK, Files, StandingInv, DigestIsOfArchive,
       ExtractionInv, HoldsLast, Places, ReproducedIsWhole, Report

LEMMA NextIInv == IInv /\ [Next]_vars => IInv'
BY CaptureToStep, CapturedStep, CreateArchiveStep, AppendEntryStep, FinishArchiveStep,
   WriteDigestStep, DieStep, VerifyStep, ExtractEntryStep, EndOfArchiveStep, JudgeStep, Stutters
   DEF Next

LEMMA Invariance == Spec => []IInv
BY InitIInv, NextIInv, PTL DEF Spec

-----------------------------------------------------------------------------
\* Archive, digest and extraction are well typed, and the running count and
\* total stay within their limits (limits.rs).
THEOREM TypeCorrect == Spec => []TypeOK
BY Invariance, PTL DEF IInv

\* A capture that succeeds leaves the archive's own digest beside it
\* (pack_with_digest), whatever stood there before.
THEOREM DigestMatches == Spec => []DigestIsOfArchive
BY Invariance, PTL DEF IInv

\* Success of verify means the whole archive, nothing but the archive, and the
\* report hash asked for (verify.rs, main.rs).
THEOREM ReproductionIsWhole == Spec => []ReproducedIsWhole
BY Invariance, PTL DEF IInv

\* What stands is replaced only when asked (refuse_existing_archive).
THEOREM NothingReplaced == Spec => NothingReplacedUnasked
<1>1. IInv /\ [Next]_vars =>
        [/\ archive # Absent /\ archive' # archive /\ pc # "append" => overwrite
         /\ digest # Absent /\ digest' # digest => overwrite]_vars
  BY DEF IInv, StandingInv, Next, CaptureTo, Captured, CreateArchive, AppendEntry, FinishArchive,
         WriteDigest, Die, Verify, ExtractEntry, EndOfArchive, Judge, published, vars
<1>. QED BY <1>1, Invariance, PTL DEF Spec, NothingReplacedUnasked

-----------------------------------------------------------------------------
\* A file written over another or for the first time, and what all the files
\* then occupy.
WrittenTo(d, e, p, c) ==
  /\ d \in Directory /\ IsFiniteSet(Files(d)) /\ p \in Paths /\ c \in Contents
  /\ e = [d EXCEPT ![p] = c]
GrownBy(d, e, p, c) ==
  /\ Files(e) = Files(d) \cup {p} /\ IsFiniteSet(Files(e))
  /\ Cardinality(Files(e)) <= Cardinality(Files(d)) + 1
  /\ \A q \in Files(e) : Size[e[q]] = IF q = p THEN Size[c] ELSE Size[d[q]]
  /\ SumFunction(Sizes(e)) \in Int /\ SumFunction(Sizes(d)) \in Int
  /\ SumFunction(Sizes(e)) <= SumFunction(Sizes(d)) + Size[c]

LEMMA OneMoreFile == ASSUME NEW d, NEW e, NEW p, NEW c, WrittenTo(d, e, p, c) PROVE GrownBy(d, e, p, c)
<1>0. /\ d \in Directory /\ IsFiniteSet(Files(d)) /\ p \in Paths /\ c \in Contents
      /\ e = [d EXCEPT ![p] = c]
  BY DEF WrittenTo
<1>1. d \in [Paths -> Contents \cup {Absent}] /\ e \in [Paths -> Contents \cup {Absent}]
  BY <1>0 DEF Directory
<1>2. c # Absent
  BY <1>0, ContentAssumption
<1>3. Files(e) = Files(d) \cup {p}
  BY <1>0, <1>1, <1>2 DEF Files
<1>4. IsFiniteSet(Files(e)) /\ Cardinality(Files(e)) <= Cardinality(Files(d)) + 1
  <2> DEFINE F == Files(d)
  <2>1. IsFiniteSet(F)
    BY <1>0
  <2> HIDE DEF F
  <2>2. Cardinality(F) \in Nat
    BY <2>1, FS_CardinalityType
  <2>3. IsFiniteSet(F \cup {p}) /\ Cardinality(F \cup {p}) = IF p \in F THEN Cardinality(F) ELSE Cardinality(F) + 1
    BY <2>1, FS_AddElement
  <2>4. Cardinality(F \cup {p}) <= Cardinality(F) + 1
    BY <2>2, <2>3
  <2>. QED BY <1>3, <2>3, <2>4 DEF F
<1>5. \A q \in Files(e) : Size[e[q]] = IF q = p THEN Size[c] ELSE Size[d[q]]
  BY <1>0, <1>1, <1>3 DEF Files
<1> DEFINE f == Sizes(d)
           g == Sizes(e)
           S == Files(d)
<1>6. /\ \A q \in S : f[q] \in Nat /\ f[q] = Size[d[q]]
      /\ \A q \in S \cup {p} : g[q] \in Nat /\ g[q] = IF q = p THEN Size[c] ELSE Size[d[q]]
  BY <1>0, <1>1, <1>3, <1>5, SizeAssumption DEF Sizes, Files
<1>7. SumFunction(Sizes(d)) = SumFunctionOnSet(f, S) /\ SumFunction(Sizes(e)) = SumFunctionOnSet(g, S \cup {p})
  BY <1>3 DEF SumFunction, Sizes
<1> HIDE DEF f, g, S
<1> DEFINE R == S \ {p}
<1>8. IsFiniteSet(S) /\ IsFiniteSet(R)
  BY <1>0, FS_RemoveElement DEF S
<1>9. R \in SUBSET S /\ R \cup {p} = S \cup {p} /\ p \notin R
  OBVIOUS
<1> HIDE DEF R
<1>10. \A q \in R : f[q] \in Nat /\ g[q] \in Nat /\ f[q] = g[q]
  BY <1>6, <1>9
<1>11. SumFunctionOnSet(f, R) = SumFunctionOnSet(g, R)
  BY <1>8, <1>10, SumEqual
<1>12. SumFunctionOnSet(f, R) <= SumFunctionOnSet(f, S)
  BY <1>6, <1>8, <1>9, SumPart
<1>13. g[p] = Size[c] /\ g[p] \in Nat
  BY <1>6
<1>14. SumFunctionOnSet(g, R \cup {p}) = g[p] + SumFunctionOnSet(g, R)
  BY <1>8, <1>9, <1>10, <1>13, SumAdd
<1>15. SumFunctionOnSet(f, S) \in Int
  BY <1>6, <1>8, SumType
<1>16. SumFunctionOnSet(g, R) \in Int
  BY <1>8, <1>10, SumType
<1>17. /\ SumFunctionOnSet(g, S \cup {p}) \in Int
       /\ SumFunctionOnSet(g, S \cup {p}) <= SumFunctionOnSet(f, S) + Size[c]
  <2>1. SumFunctionOnSet(g, S \cup {p}) = Size[c] + SumFunctionOnSet(f, R)
    BY <1>9, <1>11, <1>13, <1>14
  <2>2. Size[c] \in Nat /\ SumFunctionOnSet(f, R) \in Int
    BY <1>11, <1>13, <1>16
  <2>. QED BY <1>12, <1>15, <2>1, <2>2
<1>. QED BY <1>3, <1>4, <1>5, <1>7, <1>15, <1>17 DEF S, GrownBy

\* What stands in the extraction directory has been counted, in entries and in
\* bytes; an entry that replaces another is counted again.
CountedInv ==
  /\ IsFiniteSet(Files(extracted)) /\ Cardinality(Files(extracted)) <= count
  /\ \A p \in Files(extracted) : Size[extracted[p]] <= MaxEntry
  /\ SumFunction(Sizes(extracted)) <= total

LEMMA EmptyCounted == ASSUME extracted = Empty, count = 0, total = 0 PROVE CountedInv
<1>1. Files(extracted) = {}
  BY DEF Files, Empty
<1>2. SumFunction(Sizes(extracted)) = 0
  BY <1>1, SumEmpty DEF SumFunction, Sizes
<1>. QED BY <1>1, <1>2, FS_EmptySet DEF CountedInv

LEMMA WrittenCounted == ASSUME IInv, CountedInv, ExtractEntry, Written PROVE CountedInv'
<1>1. index \in 1 .. Len(archive.entries) /\ archive.entries \in Seq(Entry)
  BY DEF ExtractEntry, IInv, TypeOK, StandingInv, Archives
<1>2. Current \in Entry
  BY <1>1 DEF Current
<1>3. /\ Current.path \in Paths /\ Current.content \in Contents /\ Current.declared \in Nat
      /\ Size[Current.content] <= Current.declared
  BY <1>2 DEF Entry
<1>4. /\ extracted' = [extracted EXCEPT ![Current.path] = Current.content]
      /\ count' = count + 1 /\ total' = total + Current.declared /\ Current.declared <= MaxEntry
  BY DEF Written, Fits
<1>5. extracted \in Directory /\ count \in Nat /\ total \in Nat /\ MaxEntry \in Nat /\ Size[Current.content] \in Nat
  BY <1>3, LimitAssumption, SizeAssumption DEF IInv, TypeOK
<1>6. Cardinality(Files(extracted)) \in Nat
  BY FS_CardinalityType DEF CountedInv
<1>7. /\ Files(extracted') = Files(extracted) \cup {Current.path} /\ IsFiniteSet(Files(extracted'))
      /\ Cardinality(Files(extracted')) <= Cardinality(Files(extracted)) + 1
      /\ \A q \in Files(extracted') :
           Size[extracted'[q]] = IF q = Current.path THEN Size[Current.content] ELSE Size[extracted[q]]
      /\ SumFunction(Sizes(extracted')) \in Int /\ SumFunction(Sizes(extracted)) \in Int
      /\ SumFunction(Sizes(extracted')) <= SumFunction(Sizes(extracted)) + Size[Current.content]
  <2> DEFINE d == extracted
             e == extracted'
             p == Current.path
             c == Current.content
  <2>1. WrittenTo(d, e, p, c)
    BY <1>3, <1>4, <1>5 DEF CountedInv, WrittenTo
  <2> HIDE DEF d, e, p, c
  <2>2. GrownBy(d, e, p, c)
    BY <2>1, OneMoreFile
  <2>. QED BY <2>2 DEF d, e, p, c, GrownBy
<1>8. Cardinality(Files(extracted')) \in Nat
  BY <1>7, FS_CardinalityType
<1>9. Cardinality(Files(extracted')) <= count'
  BY <1>4, <1>5, <1>6, <1>7, <1>8 DEF CountedInv
<1>10. SumFunction(Sizes(extracted')) <= total'
  BY <1>3, <1>4, <1>5, <1>7 DEF CountedInv
<1>11. \A q \in Files(extracted') : Size[extracted'[q]] <= MaxEntry
  <2>1. Size[Current.content] <= MaxEntry
    BY <1>3, <1>4, <1>5
  <2>2. \A q \in Files(extracted') : q # Current.path => Size[extracted[q]] <= MaxEntry
    BY <1>7 DEF CountedInv
  <2>. QED BY <1>7, <2>1, <2>2
<1>. QED BY <1>7, <1>9, <1>10, <1>11 DEF CountedInv, Files, Sizes

LEMMA NextCounted == IInv /\ CountedInv /\ [Next]_vars => CountedInv'
<1>. SUFFICES ASSUME IInv, CountedInv, [Next]_vars PROVE CountedInv'
  OBVIOUS
<1>s. UNCHANGED extraction => CountedInv'
  BY DEF extraction, CountedInv, Files, Sizes
<1>e. extracted' = Empty /\ count' = 0 /\ total' = 0 => CountedInv'
  <2>. SUFFICES ASSUME extracted' = Empty, count' = 0, total' = 0 PROVE CountedInv'
    OBVIOUS
  <2>1. Files(extracted)' = {}
    BY DEF Files, Empty
  <2>2. SumFunction(Sizes(extracted))' = 0
    BY <2>1, SumEmpty DEF SumFunction, Sizes
  <2>. QED BY <2>1, <2>2, FS_EmptySet DEF CountedInv
<1>1. CASE \E o \in BOOLEAN : CaptureTo(o)
  BY <1>1, <1>e DEF CaptureTo
<1>2. CASE Captured \/ CreateArchive \/ AppendEntry \/ FinishArchive \/ WriteDigest \/ Die \/ EndOfArchive \/ Judge
  BY <1>2, <1>s DEF Captured, CreateArchive, AppendEntry, FinishArchive, WriteDigest, Die, EndOfArchive, Judge
<1>3. CASE \E e \in {Absent} \cup {Report(d) : d \in Bundles} : Verify(e)
  BY <1>3, <1>e DEF Verify
<1>4. CASE ExtractEntry
  <2>1. CASE Refused
    BY <2>1, <1>s DEF Refused
  <2>2. CASE Skipped
    BY <2>2 DEF Skipped, CountedInv, Files, Sizes
  <2>3. CASE Written
    BY <1>4, <2>3, WrittenCounted
  <2>. QED BY <1>4, <2>1, <2>2, <2>3 DEF ExtractEntry
<1>5. CASE UNCHANGED vars
  BY <1>5, <1>s DEF vars
<1>. QED BY <1>1, <1>2, <1>3, <1>4, <1>5 DEF Next

LEMMA CountedIsBounded == IInv /\ CountedInv => ExtractionIsBounded
<1>. SUFFICES ASSUME IInv, CountedInv PROVE ExtractionIsBounded
  OBVIOUS
<1>1. count \in Nat /\ count <= MaxEntries /\ total \in Nat /\ total <= MaxTotal /\ MaxEntries \in Nat /\ MaxTotal \in Nat
  BY LimitAssumption DEF IInv, TypeOK
<1>2. Cardinality(Files(extracted)) \in Nat
  BY FS_CardinalityType DEF CountedInv
<1>3. SumFunction(Sizes(extracted)) \in Int
  <2>1. \A p \in Files(extracted) : Sizes(extracted)[p] \in Int
    BY SizeAssumption DEF IInv, TypeOK, Directory, Files, Sizes
  <2>2. SumFunction(Sizes(extracted)) = SumFunctionOnSet(Sizes(extracted), Files(extracted))
    BY DEF SumFunction, Sizes
  <2>. QED BY <2>1, <2>2, SumType DEF CountedInv
<1>. QED BY <1>1, <1>2, <1>3 DEF CountedInv, ExtractionIsBounded

\* Whatever the archive, the files extraction has written never exceed a limit
\* (extract.rs, limits.rs).
THEOREM ExtractionStaysBounded == Spec => []ExtractionIsBounded
<1>1. Init => CountedInv
  BY EmptyCounted DEF Init
<1>. QED BY <1>1, InitIInv, NextIInv, NextCounted, CountedIsBounded, PTL DEF Spec

-----------------------------------------------------------------------------
Seen(n) == {archive.entries[i].path : i \in 1 .. n}

\* A whole packing holds every file of its bundle once.
LEMMA PackedFacts ==
  ASSUME archive \in Archives, NEW b \in Directory, IsPacked(archive, b)
  PROVE  /\ Len(archive.entries) \in Nat /\ Len(archive.entries) = Cardinality(Files(b))
         /\ IsFiniteSet(Files(b))
         /\ \A i \in 1 .. Len(archive.entries) :
              /\ archive.entries[i].path \in Files(b)
              /\ archive.entries[i].kind = "file"
              /\ archive.entries[i].content = b[archive.entries[i].path]
              /\ archive.entries[i].declared = Size[b[archive.entries[i].path]]
         /\ \A p \in Files(b) : \E i \in 1 .. Len(archive.entries) : archive.entries[i].path = p
         /\ \A i, j \in 1 .. Len(archive.entries) : archive.entries[i].path = archive.entries[j].path => i = j
<1> DEFINE entries == archive.entries
           n == Len(entries)
<1>1. /\ entries \in Seq(Entry) /\ n \in Nat /\ DOMAIN entries = 1 .. n /\ n = Cardinality(Files(b))
      /\ {entries[i] : i \in 1 .. n} = {EntryOf(b, p) : p \in Files(b)}
  <2>1. entries \in Seq(Entry)
    BY DEF Archives
  <2>2. n \in Nat /\ DOMAIN entries = 1 .. n
    BY <2>1
  <2>3. n = Cardinality(Files(b)) /\ {entries[i] : i \in DOMAIN entries} = {EntryOf(b, p) : p \in Files(b)}
    BY DEF IsPacked
  <2> HIDE DEF entries, n
  <2>. QED BY <2>1, <2>2, <2>3
<1> HIDE DEF entries, n
<1>2. \A i \in 1 .. n : \E p \in Files(b) : entries[i] = EntryOf(b, p)
  BY <1>1
<1>3. \A i \in 1 .. n :
        /\ entries[i].path \in Files(b) /\ entries[i].kind = "file"
        /\ entries[i].content = b[entries[i].path] /\ entries[i].declared = Size[b[entries[i].path]]
  <2>1. \A p : /\ EntryOf(b, p).path = p /\ EntryOf(b, p).kind = "file"
               /\ EntryOf(b, p).content = b[p] /\ EntryOf(b, p).declared = Size[b[p]]
    BY DEF EntryOf
  <2> TAKE i \in 1 .. n
  <2>2. PICK p \in Files(b) : entries[i] = EntryOf(b, p)
    BY <1>2
  <2>. QED BY <2>1, <2>2
<1>4. ASSUME NEW p \in Files(b) PROVE \E i \in 1 .. n : entries[i].path = p
  <2>1. PICK i \in 1 .. n : entries[i] = EntryOf(b, p)
    BY <1>1
  <2>. QED BY <2>1 DEF EntryOf
<1> DEFINE S == 1 .. n
           T == Files(b)
           f == [i \in S |-> entries[i].path]
<1>5. f \in Surjection(S, T)
  BY <1>3, <1>4 DEF Surjection
<1>6. IsFiniteSet(S) /\ Cardinality(S) = Cardinality(T)
  BY <1>1, FS_Interval
<1>7. IsFiniteSet(T) /\ f \in Injection(S, T)
  <2> HIDE DEF S, T, f
  <2>. QED BY <1>5, <1>6, FS_Surjection
<1>8. \A i, j \in S : f[i] = f[j] => i = j
  BY <1>7 DEF Injection, IsInjective
<1>. QED BY <1>1, <1>3, <1>4, <1>7, <1>8 DEF entries, n

\* The archive packs a sound bundle that extraction has room for.
Restorable(b) == b \in Bundles \cap Passing /\ IsPacked(archive, b) /\ WithinLimits(b)

\* The count and the total are then those of the files already restored.
RestoringInv ==
  \A b : Restorable(b) /\ pc = "extract" =>
    count = index - 1 /\ total = SumFunctionOnSet(Sizes(b), Seen(index - 1))

\* The next file is not refused, and is added to them.
LEMMA NextIsRestored ==
  ASSUME IInv, RestoringInv, NEW b, Restorable(b), ExtractEntry
  PROVE  /\ index' = index + 1 /\ UNCHANGED <<pc, exit>>
         /\ count' = index' - 1 /\ total' = SumFunctionOnSet(Sizes(b), Seen(index' - 1))
<1>1. b \in Directory /\ IsPacked(archive, b) /\ WithinLimits(b)
  BY ContentAssumption DEF Restorable
<1>2. archive \in Archives /\ index \in Nat \ {0} /\ pc = "extract" /\ index <= Len(archive.entries)
  BY DEF IInv, TypeOK, StandingInv, ExtractEntry
<1> DEFINE n == Len(archive.entries)
           S == Files(b)
           f == Sizes(b)
           p == archive.entries[index].path
           T == Seen(index - 1)
<1>3. /\ n \in Nat /\ index \in 1 .. n /\ n = Cardinality(S) /\ IsFiniteSet(S)
      /\ \A i \in 1 .. n : archive.entries[i].path \in S
      /\ \A i, j \in 1 .. n : archive.entries[i].path = archive.entries[j].path => i = j
  BY <1>1, <1>2, PackedFacts
<1>4. /\ Current.path = p /\ p \in S /\ Current.kind = "file"
      /\ Current.content = b[p] /\ Current.declared = Size[b[p]]
  BY <1>1, <1>2, <1>3, PackedFacts DEF Current
<1>5. n <= MaxEntries /\ Size[b[p]] <= MaxEntry /\ Depth[p] <= MaxDepth
  BY <1>1, <1>3, <1>4 DEF WithinLimits
<1>6. \A q \in S : f[q] = Size[b[q]] /\ f[q] \in Nat
  BY <1>1, SizeAssumption DEF Sizes, Files, Directory
<1>7. SumFunctionOnSet(f, S) <= MaxTotal
  BY <1>1 DEF WithinLimits, SumFunction, Sizes
<1>8. T \in SUBSET S /\ p \notin T
  <2>1. ASSUME NEW i \in 1 .. index - 1 PROVE archive.entries[i].path \in S /\ archive.entries[i].path # p
    BY <1>3
  <2>. QED BY <2>1 DEF Seen
<1>9. Seen(index) = T \cup {p}
  <2>1. 1 .. index = (1 .. index - 1) \cup {index}
    BY <1>2
  <2>. QED BY <2>1 DEF Seen
<1>10. count = index - 1 /\ total = SumFunctionOnSet(f, T)
  BY <1>2 DEF RestoringInv
<1> HIDE DEF n, S, f, p, T
<1>11. IsFiniteSet(T) /\ (\A q \in T : f[q] \in Int) /\ f[p] \in Int
  BY <1>3, <1>4, <1>6, <1>8, FS_Subset
<1>12. SumFunctionOnSet(f, T \cup {p}) = f[p] + SumFunctionOnSet(f, T)
  BY <1>8, <1>11, SumAdd
<1>13. SumFunctionOnSet(f, T \cup {p}) <= SumFunctionOnSet(f, S)
  <2> DEFINE U == T \cup {p}
  <2>1. U \in SUBSET S
    BY <1>4, <1>8
  <2> HIDE DEF U
  <2>2. SumFunctionOnSet(f, U) <= SumFunctionOnSet(f, S)
    BY <1>3, <1>6, <2>1, SumPart
  <2>. QED BY <2>2 DEF U
<1>14. SumFunctionOnSet(f, T) \in Int /\ SumFunctionOnSet(f, S) \in Int /\ MaxTotal \in Int /\ MaxEntries \in Int
  BY <1>3, <1>6, <1>11, SumType, LimitAssumption
<1>15. total + Current.declared = SumFunctionOnSet(f, T \cup {p}) /\ total + Current.declared <= MaxTotal
  BY <1>4, <1>6, <1>7, <1>10, <1>11, <1>12, <1>13, <1>14
<1>16. count + 1 <= MaxEntries
  BY <1>3, <1>5, <1>10, <1>14
<1>17. Acceptable(Current) /\ Fits(Current) /\ Size[Current.content] = Current.declared
  BY <1>4, <1>5, <1>15, <1>16 DEF Acceptable, Fits
<1>18. Written
  BY <1>4, <1>17 DEF ExtractEntry, Refused, Skipped
<1>19. /\ index' = index + 1 /\ UNCHANGED <<pc, exit, archive>>
       /\ count' = count + 1 /\ total' = total + Current.declared
  BY <1>17, <1>18 DEF Written, ExtractEntry, published
<1>20. index' - 1 = index
  BY <1>2, <1>19
<1>21. count' = index' - 1
  BY <1>2, <1>10, <1>19, <1>20
<1>22. total' = SumFunctionOnSet(f, Seen(index' - 1))
  BY <1>9, <1>15, <1>19, <1>20
<1>. QED BY <1>19, <1>21, <1>22 DEF f

\* At the end the directory is the bundle.
LEMMA RestoredIsBundle ==
  ASSUME IInv, NEW b, Restorable(b), pc = "judge"
  PROVE  extracted = b
<1>1. b \in Directory /\ archive \in Archives /\ extracted \in Directory /\ IsPacked(archive, b)
  BY ContentAssumption DEF IInv, TypeOK, StandingInv, Restorable
<1> DEFINE n == Len(archive.entries)
<1>2. /\ n \in Nat
      /\ \A i \in 1 .. n :
           /\ archive.entries[i].path \in Files(b)
           /\ archive.entries[i].kind = "file"
           /\ archive.entries[i].content = b[archive.entries[i].path]
      /\ \A p \in Files(b) : \E i \in 1 .. n : archive.entries[i].path = p
  BY <1>1, PackedFacts
<1>3. \A p \in Paths : HoldsLast(n, p)
  <2>1. index - 1 = n
    BY <1>2 DEF IInv, ExtractionInv
  <2>. QED BY <2>1 DEF IInv, ExtractionInv
<1> HIDE DEF n
<1>4. ASSUME NEW p \in Paths PROVE extracted[p] = b[p]
  <2>1. CASE p \in Files(b)
    <3>1. PICK i \in 1 .. n : Places(i, p)
      BY <1>2, <2>1 DEF Places
    <3>2. \E j \in 1 .. n : Places(j, p) /\ extracted[p] = archive.entries[j].content
      BY <1>3, <3>1 DEF HoldsLast
    <3>. QED BY <1>2, <3>2 DEF Places
  <2>2. CASE p \notin Files(b)
    <3>1. \A i \in 1 .. n : ~ Places(i, p)
      BY <1>2, <2>2 DEF Places
    <3>2. extracted[p] = Absent
      BY <1>3, <3>1 DEF HoldsLast
    <3>. QED BY <2>2, <3>2 DEF Files
  <2>. QED BY <2>1, <2>2
<1>. QED BY <1>1, <1>4 DEF Directory

LEMMA NextRestoring == IInv /\ RestoringInv /\ [Next]_vars => RestoringInv'
<1>. SUFFICES ASSUME IInv, RestoringInv, [Next]_vars PROVE RestoringInv'
  OBVIOUS
<1>n. pc' # "extract" => RestoringInv'
  BY DEF RestoringInv
<1>a. archive' = archive => \A b, n : (Restorable(b)' <=> Restorable(b)) /\ Seen(n)' = Seen(n)
  BY DEF Restorable, IsPacked, WithinLimits, Sizes, Files, EntryOf, Seen
<1>1. CASE (\E o \in BOOLEAN : CaptureTo(o)) \/ Captured \/ CreateArchive \/ AppendEntry \/ FinishArchive
             \/ WriteDigest \/ Die \/ EndOfArchive \/ Judge
  BY <1>1, <1>n DEF CaptureTo, Captured, CreateArchive, AppendEntry, FinishArchive, WriteDigest, Die, EndOfArchive,
                    Judge, Finish
<1>2. CASE \E e \in {Absent} \cup {Report(d) : d \in Bundles} : Verify(e)
  <2>1. index' = 1 /\ count' = 0 /\ total' = 0
    BY <1>2 DEF Verify
  <2>2. Seen(index - 1)' = {}
    BY <2>1 DEF Seen
  <2>. QED BY <2>1, <2>2, SumEmpty DEF RestoringInv
<1>3. CASE ExtractEntry
  <2>. SUFFICES ASSUME NEW b, Restorable(b)
                PROVE  count' = index' - 1 /\ total' = SumFunctionOnSet(Sizes(b), Seen(index' - 1))
    BY <1>a, <1>3 DEF RestoringInv, ExtractEntry, published, Seen, Sizes, Files
  <2>. QED BY <1>3, NextIsRestored
<1>4. CASE UNCHANGED vars
  BY <1>4, <1>a DEF vars, published, extraction, RestoringInv, Seen
<1>. QED BY <1>1, <1>2, <1>3, <1>4 DEF Next

LEMMA NextReproduced == IInv /\ RestoringInv /\ PackedIsReproduced /\ [Next]_vars => PackedIsReproduced'
<1>. SUFFICES ASSUME IInv, RestoringInv, PackedIsReproduced, [Next]_vars,
                     NEW b \in Bundles \cap Passing, IsPacked(archive', b), WithinLimits(b),
                     expected' \in {Absent, Report(b)},
                     exit' \in {"reproduced", "checksFailed", "rejected", "unusable"}
              PROVE  exit' = "reproduced" /\ extracted' = b
  BY DEF PackedIsReproduced, WithinLimits, Report, Sizes, Files, IsPacked, EntryOf
<1>r. archive' = archive => Restorable(b)
  BY DEF Restorable
<1>1. CASE (\E o \in BOOLEAN : CaptureTo(o)) \/ WriteDigest \/ Die
             \/ (\E e \in {Absent} \cup {Report(d) : d \in Bundles} : Verify(e))
  BY <1>1 DEF CaptureTo, WriteDigest, Die, Verify, Finish
<1>2. CASE Captured \/ CreateArchive \/ AppendEntry \/ FinishArchive
  BY <1>2 DEF Captured, CreateArchive, AppendEntry, FinishArchive, IInv, StandingInv
<1>3. CASE ExtractEntry
  <2>1. archive' = archive /\ pc = "extract"
    BY <1>3 DEF ExtractEntry, published
  <2>2. exit' = exit
    BY <1>3, <1>r, <2>1, NextIsRestored
  <2>. QED BY <2>1, <2>2 DEF IInv, StandingInv
<1>4. CASE EndOfArchive
  <2>1. archive' = archive /\ pc = "extract"
    BY <1>4 DEF EndOfArchive, published
  <2>2. ~ archive.cut
    BY <2>1 DEF IsPacked
  <2>3. exit' = exit
    BY <1>4, <2>2 DEF EndOfArchive
  <2>. QED BY <2>1, <2>3 DEF IInv, StandingInv
<1>5. CASE Judge
  <2>1. archive' = archive /\ pc = "judge" /\ UNCHANGED <<expected, extracted>>
    BY <1>5 DEF Judge, published, extraction
  <2>2. extracted = b
    BY <1>r, <2>1, RestoredIsBundle
  <2>3. extracted \in Passing /\ extracted \notin Failing /\ ~ Mismatch
    BY <2>1, <2>2, ContentAssumption DEF Mismatch
  <2>. QED BY <1>5, <2>1, <2>2, <2>3 DEF Judge, Finish
<1>6. CASE UNCHANGED vars
  BY <1>6 DEF vars, published, extraction, PackedIsReproduced
<1>. QED BY <1>1, <1>2, <1>3, <1>4, <1>5, <1>6 DEF Next

\* What pack has packed whole, extract gives back file for file, and verify
\* accepts it (pack.rs, extract.rs, verify.rs).
THEOREM PackedIsRestored == Spec => []PackedIsReproduced
<1>1. Init => RestoringInv /\ PackedIsReproduced
  BY DEF Init, RestoringInv, PackedIsReproduced
<1>. QED BY <1>1, InitIInv, NextIInv, NextRestoring, NextReproduced, PTL DEF Spec
=============================================================================
