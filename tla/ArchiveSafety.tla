--------------------------- MODULE ArchiveSafety ---------------------------
(***************************************************************************)
(* What the archive, its digest and the exit code of `verify` can be       *)
(* relied on for.                                                          *)
(***************************************************************************)
EXTENDS Archive, FiniteSets, Functions

\* An archive that stands, finished or not, and its digest are replaced only
\* when asked, although they are looked for before the capture and written
\* long after it, and one of them may stand without the other (capture.rs,
\* refuse_existing_archive).
NothingReplacedUnasked ==
  [][/\ archive # Absent /\ archive' # archive /\ pc # "append" => overwrite
     /\ digest # Absent /\ digest' # digest => overwrite]_vars

\* A capture that succeeds leaves the digest of the archive beside it, also
\* over the remains of commands that died (pack.rs, pack_with_digest).
DigestIsOfArchive == exit = "published" => archive # Absent /\ digest = archive

-----------------------------------------------------------------------------
Places(i, p) == archive.entries[i].kind = "file" /\ archive.entries[i].path = p

\* What extracting the first n entries leaves at a path: the last of them there.
HoldsLast(n, p) ==
  \/ /\ \A i \in 1 .. n : ~ Places(i, p)
     /\ extracted[p] = Absent
  \/ \E i \in 1 .. n :
       /\ Places(i, p)
       /\ \A j \in i + 1 .. n : ~ Places(j, p)
       /\ extracted[p] = archive.entries[i].content

\* Exit code 0 of verify means that the whole archive was read, that what was
\* reconciled is what it holds, that no check failed, and that the report
\* hash is the published one when one was given (verify.rs, main.rs).
ReproducedIsWhole ==
  exit = "reproduced" =>
    /\ ~ archive.cut
    /\ \A p \in Paths : HoldsLast(Len(archive.entries), p)
    /\ extracted \in Passing
    /\ expected # Absent => \E d \in Passing : extracted = d /\ Report(d) = expected

Sizes(directory) == [p \in Files(directory) |-> Size[directory[p]]]

\* However an archive is made, what extraction has written at any moment
\* stays within the limits, refused or not (extract.rs, limits.rs).
ExtractionIsBounded ==
  /\ Cardinality(Files(extracted)) <= MaxEntries
  /\ \A p \in Files(extracted) : Size[extracted[p]] <= MaxEntry
  /\ SumFunction(Sizes(extracted)) <= MaxTotal

-----------------------------------------------------------------------------
\* A bundle that extraction has room for, at its limits included.
WithinLimits(b) ==
  /\ Cardinality(Files(b)) <= MaxEntries
  /\ \A p \in Files(b) : Size[b[p]] <= MaxEntry /\ Depth[p] <= MaxDepth
  /\ SumFunction(Sizes(b)) <= MaxTotal

\* The archive a whole packing of the bundle makes.
IsPacked(a, b) ==
  /\ a # Absent /\ ~ a.cut
  /\ Len(a.entries) = Cardinality(Files(b))
  /\ {a.entries[i] : i \in DOMAIN a.entries} = {EntryOf(b, p) : p \in Files(b)}

\* What pack has packed, extract restores: a whole archive of a sound bundle
\* within the limits is reproduced, file for file, by whoever verifies it
\* against its own report hash or against none (pack.rs, extract.rs).
PackedIsReproduced ==
  \A b \in Bundles \cap Passing :
    (/\ IsPacked(archive, b) /\ WithinLimits(b)
     /\ expected \in {Absent, Report(b)}
     /\ exit \in {"reproduced", "checksFailed", "rejected", "unusable"})
    => exit = "reproduced" /\ extracted = b

\* A capture that succeeds leaves the finished bundle packed whole, for a third
\* party to reproduce the result from (args.rs, --archive).
PublishedIsWhole == exit = "published" => IsPacked(archive, bundle)
=============================================================================
