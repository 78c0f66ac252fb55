---------------------------- MODULE EvidenceFiles ----------------------------
(***************************************************************************)
(* Operators who capture one block, each from a node of its own, as often  *)
(* as it takes: what their bundles store for it and what the manifests say *)
(* (src/capture/fetch.rs, src/capture/writer.rs, over PoolStateFile and    *)
(* ManifestFile), and the reports they make of them (commands/reconcile).  *)
(* The steps of a capture and what may interrupt each are in Capture; here *)
(* a session has three, and the files are looked into.                     *)
(***************************************************************************)
EXTENDS PoolStateFile, ManifestFile

CONSTANTS
  Operators,
  Responses,   \* what a node may answer for the block asked for
  Height,      \* the height asked for
  Network,
  Torn         \* part of a file

\* The files, by the rank of their paths: blocks/H.hex, blocks/H.pools.json and
\* rpc/node-info.json.
BlockPath == 1
PoolsPath == 2
NodePath == 3
Files == 1 .. 3

ASSUME HeightAssumption == Height \in Nat \ {0} /\ {Absent, Text} \cap Int = {}

\* `pools` is a list where it is not something else.
ASSUME ResponseAssumption ==
  /\ Nothing \notin Responses
  /\ \A r \in Responses : r.pools \in {Absent, Text} \/ r.pools \in Seq(Range(r.pools))

\* The reports in the bundle's own folder: report.json, report.md, report.sha256.
ReportJson == 5
ReportMarkdown == 6
ReportHash == 7
ReportFiles == 5 .. 7

VARIABLES
  pc,        \* the step each operator's session is at
  files,     \* BundleWriter::files
  disk,      \* what is in each operator's directory
  source,    \* the response the pools file was made of
  refused,   \* the response that ended the last session
  manifest,  \* the manifest of a finished bundle
  report,    \* what the reconciliation under way, or the last one, computed
  reports    \* what is in the bundle's folder of reports

captureVars == <<files, disk, source, refused>>
vars == <<pc, captureVars, manifest, report, reports>>

\* What a file holds; every size is one.
Stored(kind, body) == [content |-> <<kind, body>>, size |-> 1]
Document(f) == f.content[2]

\* The paths of a bundle are safe, their sizes do not overflow, and a digest that
\* was computed is 64 lower-case hexadecimal characters.
ASSUME BundleAssumption ==
  /\ Files \cap UnsafePaths = {} /\ Cardinality(Files) <= MaxSize
  /\ \A o \in Operators : <<"node", o>> \notin MalformedDigests
  /\ \A r \in Responses :
       <<"block", r.hash>> \notin MalformedDigests /\ <<"pools", Project(r)>> \notin MalformedDigests

Init ==
  /\ pc = [o \in Operators |-> "start"]
  /\ files = [o \in Operators |-> <<>>]
  /\ disk = [o \in Operators |-> [p \in Files |-> Nothing]]
  /\ source = [o \in Operators |-> Nothing]
  /\ refused = [o \in Operators |-> Nothing]
  /\ manifest = [o \in Operators |-> Nothing]
  /\ report = [o \in Operators |-> Nothing]
  /\ reports = [o \in Operators |-> [p \in ReportFiles |-> Nothing]]

reportVars == <<report, reports>>

GoTo(o, step) == pc' = [pc EXCEPT ![o] = step]
Recorded(o, list, p, f) == RecordFile(list, Entry(p, f.content, f.size))

\* write_node_responses: what the node said of itself, with the moment in it.
WriteNodeInfo(o) ==
  LET f == Stored("node", o)
  IN  /\ pc[o] = "start"
      /\ GoTo(o, "height")
      /\ disk' = [disk EXCEPT ![o][NodePath] = f]
      /\ files' = [files EXCEPT ![o] = Recorded(o, <<>>, NodePath, f)]
      /\ refused' = [refused EXCEPT ![o] = Nothing]
      /\ UNCHANGED <<source, manifest, reportVars>>

HeightPresent(o) == disk[o][BlockPath] # Nothing /\ disk[o][PoolsPath] # Nothing

\* fetch::height: a response that cannot be used ends the session before anything
\* of it is written; one that can is stored as its projection.  Here the request
\* for the block's bytes finds the same block; that it may not is in Capture.
FetchHeight(o) ==
  /\ pc[o] = "height"
  /\ ~ HeightPresent(o)
  /\ \E r \in Responses :
       LET block == Stored("block", r.hash)
           pools == Stored("pools", Project(r))
       IN  IF Usable(Height, Project(r))
             THEN /\ GoTo(o, "end")
                  /\ disk' = [disk EXCEPT ![o][BlockPath] = block, ![o][PoolsPath] = pools]
                  /\ files' = [files EXCEPT ![o] =
                       Recorded(o, Recorded(o, files[o], BlockPath, block), PoolsPath, pools)]
                  /\ source' = [source EXCEPT ![o] = r]
                  /\ UNCHANGED refused
             ELSE /\ GoTo(o, "start")
                  /\ refused' = [refused EXCEPT ![o] = r]
                  /\ UNCHANGED <<disk, files, source>>
  /\ UNCHANGED <<manifest, reportVars>>

\* A resumed session takes over what it finds, read by the same parser.
AdoptHeight(o) ==
  /\ pc[o] = "height"
  /\ HeightPresent(o)
  /\ Usable(Height, Document(disk[o][PoolsPath]))
  /\ GoTo(o, "end")
  /\ files' = [files EXCEPT ![o] =
       Recorded(o, Recorded(o, files[o], BlockPath, disk[o][BlockPath]),
                PoolsPath, disk[o][PoolsPath])]
  /\ UNCHANGED <<disk, source, refused, manifest, reportVars>>

\* The session ends early; the directory stays.
Interrupt(o) ==
  /\ pc[o] \in {"height", "end"}
  /\ GoTo(o, "start")
  /\ UNCHANGED <<captureVars, manifest, reportVars>>

\* BundleWriter::finish.
Finish(o) ==
  LET m == Build(Network, Interval(Height, Height), files[o])
  IN  /\ pc[o] = "end"
      /\ Loads(m)
      /\ GoTo(o, "finished")
      /\ manifest' = [manifest EXCEPT ![o] = m]
      /\ UNCHANGED <<captureVars, reportVars>>

-----------------------------------------------------------------------------
\* Slip: the rendered report is taken for evidence nobody listed.
HashedPaths == {ReportJson, ReportHash}

\* layout::GENERATED_PATHS, but for the digest of the manifest.
GeneratedPaths == ReportFiles

\* collect_unlisted.
UnlistedPaths(o) ==
  ({p \in Files : disk[o][p] # Nothing} \cup {p \in ReportFiles : reports[o][p] # Nothing})
    \ ({manifest[o].files[i].path : i \in DOMAIN manifest[o].files} \cup GeneratedPaths)

\* What the report is a function of: the identity of the bundle, its blocks, the
\* figures of the reconstructed pools and the warnings, and nothing else of the
\* manifest or of the node's responses.
ReportOf(o) ==
  [bundle |-> manifest[o].id,
   block |-> disk[o][BlockPath].content,
   figures |-> [p \in Reconstructed |-> [f \in Figures |->
                  Parsed(Document(disk[o][PoolsPath])).state[p][f]]],
   warnings |-> UnlistedPaths(o)]

\* reconcile: the evidence is validated and the report computed.
Reconcile(o) ==
  /\ pc[o] = "finished"
  /\ Loads(manifest[o]) /\ Validates(manifest[o], manifest[o], disk[o])
  /\ GoTo(o, "json")
  /\ report' = [report EXCEPT ![o] = ReportOf(o)]
  /\ UNCHANGED <<captureVars, manifest, reports>>

\* write_reports: one file after the other, each written in place.
WriteReport(o, step, path, next) ==
  /\ pc[o] = step
  /\ GoTo(o, next)
  /\ reports' = [reports EXCEPT ![o][path] = report[o]]
  /\ UNCHANGED <<captureVars, manifest, report>>

WriteReports(o) ==
  \/ WriteReport(o, "json", ReportJson, "markdown")
  \/ WriteReport(o, "markdown", ReportMarkdown, "digest")
  \/ WriteReport(o, "digest", ReportHash, "finished")

\* The process ends in the middle of a file.
TearReport(o, step, path) ==
  /\ pc[o] = step
  /\ GoTo(o, "finished")
  /\ reports' = [reports EXCEPT ![o][path] = Torn]
  /\ UNCHANGED <<captureVars, manifest, report>>

InterruptReports(o) ==
  \/ TearReport(o, "json", ReportJson)
  \/ TearReport(o, "markdown", ReportMarkdown)
  \/ TearReport(o, "digest", ReportHash)

CaptureStep(o) ==
  WriteNodeInfo(o) \/ FetchHeight(o) \/ AdoptHeight(o) \/ Interrupt(o) \/ Finish(o)

Next ==
  \E o \in Operators :
    CaptureStep(o) \/ Reconcile(o) \/ WriteReports(o) \/ InterruptReports(o)

Spec == Init /\ [][Next]_vars

-----------------------------------------------------------------------------
Finished == {o \in Operators : manifest[o] # Nothing}

\* Not reconciled yet: neither files nor manifest change any more.
JustFinished == {o \in Finished : report[o] = Nothing}

\* What a response states about a pool, read without the code: its last word.
LastWord(r, pool, field) ==
  LET words == {i \in DOMAIN r.pools : r.pools[i].id = pool /\ r.pools[i][field] # Absent}
  IN  IF words = {} THEN Absent
      ELSE r.pools[CHOOSE i \in words : \A j \in words : j <= i][field]

\* The same block with the same figures, by whatever node, whenever asked.
SameFigures(r, s) ==
  /\ r.hash = s.hash /\ r.height = s.height
  /\ \A p \in Pools : \A f \in Fields : LastWord(r, p, f) = LastWord(s, p, f)

\* The same entries in the same order, but for what depends on the moment.
SameEntries(r, s) ==
  /\ SameFigures(r, s)
  /\ Len(r.pools) = Len(s.pools)
  /\ \A i \in DOMAIN r.pools : \A f \in Fields \cup {"id"} : r.pools[i][f] = s.pools[i][f]

Evidence(m) == {m.files[i] : i \in {i \in DOMAIN m.files : m.files[i].path # NodePath}}

\* Two operators who capture one block agree: byte for byte, digests included,
\* when their nodes list the pools alike, and in what is read from the files
\* however the nodes list them, whenever they asked and however often each
\* capture was resumed (src/evidence/pool_state_file.rs:11, plan.rs:140).
IndependentCapturesAgree ==
  \A o, q \in Finished :
    /\ SameEntries(source[o], source[q]) => Evidence(manifest[o]) = Evidence(manifest[q])
    /\ SameFigures(source[o], source[q]) =>
         Parsed(Document(disk[o][PoolsPath])) = Parsed(Document(disk[q][PoolsPath]))

\* Two operators get one report of one block when their nodes state the same
\* figures, however these list the pools and whatever else they say, and as often
\* as each reconciles, over reports left whole or torn by earlier runs; and a whole
\* digest beside a whole report is its own (src/commands/reconcile.rs:345,
\* src/evidence/layout.rs:44).
ReportsAgree ==
  /\ \A o, q \in Finished :
       /\ report[o] # Nothing /\ report[q] # Nothing
       /\ SameFigures(source[o], source[q])
       => report[o] = report[q]
  /\ \A o \in Operators :
       reports[o][ReportJson] \in {Nothing, Torn, reports[o][ReportHash]}
         \/ reports[o][ReportHash] \in {Nothing, Torn}

\* Everything a comparison needs is in the response.
States(r) ==
  /\ r.hash \notin {Absent, Text} /\ r.height = Height
  /\ r.pools \notin {Absent, Text}
  /\ \A i \in DOMAIN r.pools :
       /\ r.pools[i].id \notin {Absent, Text}
       /\ \A f \in Fields : r.pools[i][f] # Text
       /\ r.pools[i].id \in Pools =>
            \A f \in Figures : r.pools[i][f] = Absent \/ InMoneyRange(r.pools[i][f])
  /\ \A p \in Reconstructed : LastWord(r, p, "balance") # Absent

\* A session ends at a response exactly when the response could not have been used
\* later; what is stored can be read back by the same parser and says of each pool
\* what the node said, an omission staying an omission
\* (src/evidence/pool_state_file.rs:26, src/capture/plan.rs:118).
StoredIsWhatWasSaid ==
  \A o \in Operators :
    /\ refused[o] # Nothing => ~ States(refused[o])
    /\ source[o] # Nothing =>
         /\ States(source[o])
         /\ Usable(Height, Document(disk[o][PoolsPath]))
         /\ \A p \in Pools : \A f \in Fields :
              Parsed(Document(disk[o][PoolsPath])).state[p][f] = LastWord(source[o], p, f)

\* A capture that has all its files finishes: its manifest is accepted by its own
\* reader and lists every file once, in order, as it is on disk
\* (src/capture/writer.rs:172, src/evidence/manifest.rs:190).
ManifestListsBundle ==
  \A o \in Operators :
    /\ pc[o] = "end" => Loads(Build(Network, Interval(Height, Height), files[o]))
    /\ pc[o] = "finished" =>
         /\ manifest[o].files =
              [p \in Files |-> Entry(p, disk[o][p].content, disk[o][p].size)]
         /\ TotalFits(manifest[o])

-----------------------------------------------------------------------------
\* One change made to a finished bundle by somebody else.
EntriesChanged(l) ==
  {RemoveAt(l, i) : i \in DOMAIN l}
    \cup {InsertAt(l, i, l[j]) : i, j \in DOMAIN l}
    \cup {[l EXCEPT ![i] = l[j], ![j] = l[i]] : i, j \in DOMAIN l}
    \cup {[l EXCEPT ![i].path = p] : i \in DOMAIN l, p \in UnsafePaths}
    \cup {[l EXCEPT ![i].sha256 = c] : i \in DOMAIN l, c \in MalformedDigests}
    \cup {[l EXCEPT ![i].size = 2] : i \in DOMAIN l}

ManifestsChanged(m) ==
  {m} \cup {[m EXCEPT !.files = l] : l \in EntriesChanged(m.files)}
      \cup {[m EXCEPT !.major = SchemaMajor + 1]}
      \cup {[m EXCEPT !.network = n] : n \in Networks}
      \cup {[m EXCEPT !.interval = i] :
              i \in {Interval(Height + 1, Height), Interval(Height, Height + 1),
                     [m.interval EXCEPT !.anchor = 0], [m.interval EXCEPT !.count = 2]}}

DisksChanged(d) ==
  {d} \cup {[d EXCEPT ![p] = Nothing] : p \in Files}
      \cup {[d EXCEPT ![p].content = <<"other">>] : p \in Files}
      \cup {[d EXCEPT ![p].size = 2] : p \in Files}

\* Whatever is changed in a bundle pinned by its digest, what still loads and
\* validates is what its capture finished; and pinned or not, what loads and
\* validates names no path outside the bundle, each path once, and is complete to
\* `inspect` (src/evidence/validation.rs:81, src/commands/inspect.rs:49).
ValidatedIsFinished ==
  \A o \in JustFinished :
    \A m \in ManifestsChanged(manifest[o]), d \in DisksChanged(disk[o]) :
      /\ Loads(m) /\ Validates(m, manifest[o], d) => m = manifest[o] /\ d = disk[o]
      /\ Loads(m) /\ Validates(m, Nothing, d) =>
           /\ EvidenceComplete(m, d)
           /\ \A i, j \in DOMAIN m.files :
                /\ m.files[i].path \notin UnsafePaths
                /\ m.files[i].path = m.files[j].path => i = j
=============================================================================
