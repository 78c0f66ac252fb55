---------------------------- MODULE ManifestFile ----------------------------
(***************************************************************************)
(* The manifest as a file: how its list is built (Manifest::add_file), the *)
(* structure a reader requires before it opens anything                    *)
(* (validate_structure), the comparison with the directory                 *)
(* (validate_bundle) and what `inspect` says without it.                   *)
(*                                                                         *)
(* A path is its rank in the order of strings; UnsafePaths are those that  *)
(* validate_relative_path rejects.  A digest is the content it is computed *)
(* from, or one of MalformedDigests.                                       *)
(***************************************************************************)
EXTENDS Lists

CONSTANTS
  Networks,
  UnsafePaths,
  MalformedDigests,  \* not 64 characters, not hexadecimal, or upper case
  SchemaMajor,       \* the major component of SCHEMA_VERSION
  MaxSize,           \* u64::MAX
  Nothing            \* no such file

ASSUME SchemaAssumption == SchemaMajor \in Nat /\ MaxSize \in Nat

Entry(path, content, size) == [path |-> path, sha256 |-> content, size |-> size]

\* Slip: the entry goes to the end, where capture wrote it.
AddFileLast(files, entry) == Append(files, entry)

\* Manifest::add_file: before the first path that is not smaller.
AddFile(files, entry) ==
  InsertAt(files, 1 + Cardinality({i \in DOMAIN files : files[i].path < entry.path}), entry)

\* BundleWriter::record: a path recorded again replaces its entry.
RecordFile(files, entry) ==
  Append(Retain(files, {e \in Range(files) : e.path # entry.path}), entry)

\* derive_bundle_id.
BundleId(network, i) == <<network, i.anchor, i.end>>

\* Manifest::interval, from a HeightInterval.
Interval(start, end) ==
  [anchor |-> start - 1, start |-> start, end |-> end, count |-> end - start + 1]

\* build_manifest and finish, as far as validate_structure reads them.
Build(network, interval, files) ==
  [major |-> SchemaMajor, id |-> BundleId(network, interval), network |-> network,
   interval |-> interval, files |-> FoldLeft(AddFile, <<>>, files)]

\* validate_interval.
GoodInterval(i) ==
  /\ i.start \in 1 .. i.end
  /\ i.anchor = i.start - 1
  /\ i.count = i.end - i.start + 1

\* validate_files, in one pass over the list.
GoodFiles(files) ==
  /\ \A i \in DOMAIN files :
       files[i].path \notin UnsafePaths /\ files[i].sha256 \notin MalformedDigests
  /\ \A i \in DOMAIN files \ {1} : files[i - 1].path < files[i].path

\* validate_structure.
Loads(m) ==
  /\ m.major = SchemaMajor
  /\ m.id = BundleId(m.network, m.interval)
  /\ GoodInterval(m.interval)
  /\ GoodFiles(m.files)

-----------------------------------------------------------------------------
\* The manifest against a directory: `disk` maps paths to [content, size] or
\* Nothing, `pinned` is what manifest.sha256 was computed from, or Nothing.

\* Slip: a file of the right size is taken for the right file.
MatchesInSize(disk, e) ==
  /\ e.path \in DOMAIN disk
  /\ disk[e.path] # Nothing
  /\ disk[e.path].size = e.size

Matches(disk, e) ==
  /\ e.path \in DOMAIN disk
  /\ disk[e.path] # Nothing
  /\ disk[e.path].size = e.size
  /\ disk[e.path].content = e.sha256

\* validate_bundle without a failure.
Validates(m, pinned, disk) ==
  /\ pinned \in {Nothing, m}
  /\ \A i \in DOMAIN m.files : Matches(disk, m.files[i])

\* inspect: evidence_complete, and the total size, which may not fit.
EvidenceComplete(m, disk) ==
  \A i \in DOMAIN m.files :
    m.files[i].path \in DOMAIN disk /\ disk[m.files[i].path] # Nothing

TotalSize(m) == SumFunction([i \in DOMAIN m.files |-> m.files[i].size])
TotalFits(m) == TotalSize(m) <= MaxSize
=============================================================================
