------------------------------ MODULE Archive ------------------------------
(***************************************************************************)
(* The published archive: `capture --archive` packs a finished bundle and  *)
(* writes the digest beside it, `verify` extracts an archive and           *)
(* reconciles what it holds (src/evidence/archive, src/commands/capture.rs *)
(* and verify.rs, src/main.rs).  The two commands run in any order on one  *)
(* archive path, and a capture can die between any two writes.             *)
(*                                                                         *)
(* A directory maps paths to contents.  A digest is the archive it is      *)
(* computed from, a report hash the evidence it is computed from.          *)
(***************************************************************************)
EXTENDS Integers, Sequences

CONSTANTS
  Paths,         \* bundle paths, numbered in their sorted order
  EvidencePaths, \* those a report is computed from
  Contents,      \* what a file may hold
  Size,          \* its size in bytes
  Depth,         \* the number of components of a path
  Bundles,       \* the bundles a capture may finish
  Found,         \* the archives that may be there at first
  Passing,       \* the directories that reconcile without a failed check
  Failing,       \* those that reconcile with one
  MaxTotal, MaxEntries, MaxEntry, MaxDepth,   \* ExtractionLimits
  MaxFaults,     \* bound on interruptions and lost writes
  Absent, Torn

Directory == [Paths -> Contents \cup {Absent}]
Empty == [p \in Paths |-> Absent]

\* A directory entry has nothing to write; a link or an unsafe path is refused.
Kinds == {"file", "skipped", "refused"}
\* At the end of a stream an entry may deliver less than its header declares.
Entry ==
  {e \in [path : Paths, kind : Kinds, content : Contents, declared : Nat] : Size[e.content] <= e.declared}
\* cut: the stream ends before the end of the archive.
Archives == [entries : Seq(Entry), cut : BOOLEAN]

ASSUME PathAssumption == Paths \subseteq Nat /\ EvidencePaths \subseteq Paths
ASSUME SizeAssumption == Size \in [Contents -> Nat] /\ Depth \in [Paths -> Nat]
ASSUME LimitAssumption == {MaxTotal, MaxEntries, MaxEntry, MaxDepth, MaxFaults} \subseteq Nat
ASSUME ContentAssumption ==
  /\ Bundles \cup Passing \cup Failing \subseteq Directory
  /\ Found \subseteq Archives
  /\ Passing \cap Failing = {}
  /\ Absent \notin Contents \cup Archives \cup [EvidencePaths -> Contents \cup {Absent}]
  /\ Torn \notin Archives \cup {Absent}

VARIABLES
  bundle,     \* the directory last captured
  archive,    \* the archive file
  digest,     \* the digest file
  pc,         \* what the command is doing
  overwrite,  \* --overwrite
  expected,   \* --expected-report-hash
  left,       \* paths still to be packed
  index,      \* the entry being extracted
  extracted,  \* the extraction directory
  count, total,  \* entries and declared bytes so far
  exit,       \* how the last command ended
  faults

published == <<bundle, archive, digest>>
extraction == <<index, extracted, count, total>>
vars == <<published, pc, overwrite, expected, left, extraction, exit, faults>>

Report(directory) == [p \in EvidencePaths |-> directory[p]]

Exits == {"none", "published", "died", "refused", "reproduced", "checksFailed", "rejected", "unusable"}

Init ==
  /\ bundle = Empty
  /\ archive \in Found \cup {Absent}
  /\ digest = Absent
  /\ pc = "idle" /\ overwrite = FALSE /\ expected = Absent
  /\ left = {}
  /\ index = 1 /\ extracted = Empty /\ count = 0 /\ total = 0
  /\ exit = "none" /\ faults = 0

\* rejected: any error of extraction; unusable: any of what follows it.
Finish(result) == pc' = "idle" /\ exit' = result

-----------------------------------------------------------------------------
\* capture --archive.

\* Slip: the digest is looked for instead of the archive.
DigestFree == digest = Absent

ArchiveFree == archive = Absent

\* refuse_existing_archive, before the node is asked anything.
CaptureTo(o) ==
  /\ pc = "idle"
  /\ overwrite' = o
  /\ expected' = Absent
  /\ index' = 1 /\ extracted' = Empty /\ count' = 0 /\ total' = 0
  /\ IF o \/ ArchiveFree THEN pc' = "capture" /\ exit' = "none" ELSE Finish("refused")
  /\ UNCHANGED <<published, left, faults>>

\* run::run: see Capture.
Captured ==
  /\ pc = "capture"
  /\ bundle' \in Bundles
  /\ pc' = "create"
  /\ UNCHANGED <<archive, digest, overwrite, expected, left, extraction, exit, faults>>

Files(directory) == {p \in Paths : directory[p] # Absent}

\* The paths are collected before File::create truncates.
CreateArchive ==
  /\ pc = "create"
  /\ left' = Files(bundle)
  /\ archive' = [entries |-> <<>>, cut |-> TRUE]
  /\ pc' = "append"
  /\ UNCHANGED <<bundle, digest, overwrite, expected, extraction, exit, faults>>

EntryOf(directory, p) ==
  [path |-> p, kind |-> "file", content |-> directory[p], declared |-> Size[directory[p]]]

AppendEntry ==
  /\ pc = "append"
  /\ \E p \in left :
       /\ \A q \in left : p <= q
       /\ archive' = [archive EXCEPT !.entries = Append(@, EntryOf(bundle, p))]
       /\ left' = left \ {p}
  /\ UNCHANGED <<bundle, digest, pc, overwrite, expected, extraction, exit, faults>>

\* What may have reached the disk of the archive being written.
Beginnings ==
  {[entries |-> SubSeq(archive.entries, 1, n), cut |-> TRUE] : n \in 0 .. Len(archive.entries)}

\* The encoder is finished, and its BufWriter dropped: an error of that last
\* write is ignored.
FinishArchive ==
  /\ pc = "append" /\ left = {}
  /\ \/ archive' = [archive EXCEPT !.cut = FALSE] /\ UNCHANGED faults
     \/ /\ faults < MaxFaults /\ faults' = faults + 1
        /\ archive' \in Beginnings
  /\ pc' = "digest"
  /\ UNCHANGED <<bundle, digest, overwrite, expected, left, extraction, exit>>

\* Slip: a digest that is there is left alone.
WriteMissingDigest ==
  /\ pc = "digest"
  /\ digest' = IF digest = Absent THEN archive ELSE digest
  /\ Finish("published")
  /\ UNCHANGED <<bundle, archive, overwrite, expected, left, extraction, faults>>

WriteDigest ==
  /\ pc = "digest"
  /\ digest' = archive
  /\ Finish("published")
  /\ UNCHANGED <<bundle, archive, overwrite, expected, left, extraction, faults>>

\* An error or the end of the process; what is half written stays.
Die ==
  /\ pc \in {"capture", "create", "append", "digest"}
  /\ faults < MaxFaults /\ faults' = faults + 1
  /\ IF pc = "append" THEN archive' \in Beginnings ELSE UNCHANGED archive
  /\ IF pc = "digest" THEN digest' \in {digest, Torn} ELSE UNCHANGED digest
  /\ left' = {}
  /\ Finish("died")
  /\ UNCHANGED <<bundle, overwrite, expected, extraction>>

-----------------------------------------------------------------------------
\* verify.

Verify(e) ==
  /\ pc = "idle" /\ archive # Absent
  /\ expected' = e
  /\ index' = 1 /\ extracted' = Empty /\ count' = 0 /\ total' = 0
  /\ pc' = "extract" /\ exit' = "none" /\ overwrite' = FALSE
  /\ UNCHANGED <<published, left, faults>>

Current == archive.entries[index]

Acceptable(entry) == entry.kind # "refused" /\ Depth[entry.path] <= MaxDepth

\* Slips: the entry at hand is left out of the total, and a total at its limit
\* is refused.
FitsBefore(entry) ==
  /\ entry.declared <= MaxEntry
  /\ count + 1 <= MaxEntries
  /\ total <= MaxTotal
FitsBelow(entry) ==
  /\ entry.declared <= MaxEntry
  /\ count + 1 <= MaxEntries
  /\ total + entry.declared < MaxTotal

\* check_entry_size, check_entry_count, check_running_total.
Fits(entry) ==
  /\ entry.declared <= MaxEntry
  /\ count + 1 <= MaxEntries
  /\ total + entry.declared <= MaxTotal

Refused ==
  /\ ~ Acceptable(Current) \/ (Current.kind = "file" /\ ~ Fits(Current))
  /\ Finish("rejected")
  /\ UNCHANGED extraction

\* classify: accepted, and not counted.
Skipped ==
  /\ Acceptable(Current) /\ Current.kind = "skipped"
  /\ index' = index + 1
  /\ UNCHANGED <<extracted, count, total, pc, exit>>

\* write_entry; what was delivered is compared with what was declared once it
\* has been written, and tar delivers no more than declared.
Written ==
  /\ Acceptable(Current) /\ Current.kind = "file" /\ Fits(Current)
  /\ extracted' = [extracted EXCEPT ![Current.path] = Current.content]
  /\ count' = count + 1
  /\ total' = total + Current.declared
  /\ IF Size[Current.content] = Current.declared
     THEN index' = index + 1 /\ UNCHANGED <<pc, exit>>
     ELSE Finish("rejected") /\ UNCHANGED index

ExtractEntry ==
  /\ pc = "extract" /\ index <= Len(archive.entries)
  /\ Refused \/ Skipped \/ Written
  /\ UNCHANGED <<published, overwrite, expected, left, faults>>

EndOfArchive ==
  /\ pc = "extract" /\ index > Len(archive.entries)
  /\ IF archive.cut THEN Finish("rejected") ELSE pc' = "judge" /\ UNCHANGED exit
  /\ UNCHANGED <<published, overwrite, expected, left, extraction, faults>>

\* Slip: the hashes are compared only when a check has failed.
MismatchIfFailing == expected # Absent /\ extracted \in Failing /\ Report(extracted) # expected

\* hash_matches() == Some(false).
Mismatch == expected # Absent /\ Report(extracted) # expected

\* The directory is validated and reconciled (Verify, Judgement), and the exit
\* code drawn from the report hash and the overall status.
Judge ==
  /\ pc = "judge"
  /\ Finish(IF extracted \notin Passing \cup Failing THEN "unusable"
            ELSE IF Mismatch \/ extracted \in Failing THEN "checksFailed"
            ELSE "reproduced")
  /\ UNCHANGED <<published, overwrite, expected, left, extraction, faults>>

-----------------------------------------------------------------------------
Next ==
  \/ \E o \in BOOLEAN : CaptureTo(o)
  \/ Captured \/ CreateArchive \/ AppendEntry \/ FinishArchive \/ WriteDigest \/ Die
  \/ \E e \in {Absent} \cup {Report(d) : d \in Bundles} : Verify(e)
  \/ ExtractEntry \/ EndOfArchive \/ Judge

Spec == Init /\ [][Next]_vars

Steps == {"idle", "capture", "create", "append", "digest", "extract", "judge"}

TypeOK ==
  /\ bundle \in Directory
  /\ archive \in Archives \cup {Absent}
  /\ digest \in Archives \cup {Absent, Torn}
  /\ pc \in Steps
  /\ overwrite \in BOOLEAN
  /\ expected \in [EvidencePaths -> Contents \cup {Absent}] \cup {Absent}
  /\ left \subseteq Files(bundle)
  /\ index \in Nat \ {0}
  /\ extracted \in Directory
  /\ count \in 0 .. MaxEntries /\ total \in 0 .. MaxTotal
  /\ exit \in Exits
  /\ faults \in 0 .. MaxFaults
=============================================================================
