------------------------------- MODULE Bundle -------------------------------
(***************************************************************************)
(* The evidence bundle: the files of src/evidence/layout.rs, what each may *)
(* hold, and the manifest that lists them (src/evidence/manifest.rs).      *)
(*                                                                         *)
(* File contents are abstract values, and a SHA-256 digest is the content  *)
(* it was computed from: two digests are equal exactly when the contents   *)
(* are.  The canonical digest of a manifest is likewise the manifest.      *)
(***************************************************************************)
EXTENDS Blockchain

CONSTANTS
  Intervals,    \* the intervals an operator may ask for
  Stamps,       \* contents of files that vary with the time of capture
  ToolVersion,  \* the content of metadata/tool-version.txt
  Absent,       \* no such file, or nothing known
  Torn          \* the content of a file not completely written

\* HeightInterval::new: an interval is not empty and has an anchor below it.
ASSUME IntervalAssumption ==
  /\ Intervals \subseteq [start : Heights \ {0}, end : Heights]
  /\ \A i \in Intervals : i.start <= i.end

AnchorHeight(i) == i.start - 1
InInterval(h, i) == i.start <= h /\ h <= i.end

-----------------------------------------------------------------------------
\* The bundle layout: one path per file, the height being 0 for the files
\* that belong to no interval block.

MetaKinds == {"nodeInfo", "chainStart", "anchorPools", "chainEnd",
              "environment", "command", "toolVersion"}
FixedKinds == MetaKinds \cup {"anchorBlock"}
Seals == {"manifest", "manifestHash"}

File(kind) == [kind |-> kind, height |-> 0]
BlockFile(h) == [kind |-> "block", height |-> h]
PoolsFile(h) == [kind |-> "pools", height |-> h]

\* The files a manifest lists, and all files.
Evidence == {File(k) : k \in FixedKinds}
              \cup {BlockFile(h) : h \in Heights} \cup {PoolsFile(h) : h \in Heights}
Paths == Evidence \cup {File(k) : k \in Seals}

\* The folder a file is in.
Folder(p) ==
  CASE p.kind \in Seals -> "root"
    [] p.kind \in {"anchorBlock", "anchorPools"} -> "anchor"
    [] p.kind \in {"block", "pools"} -> "blocks"
    [] p.kind \in {"nodeInfo", "chainStart", "chainEnd"} -> "rpc"
    [] OTHER -> "metadata"

\* What the node says of a block: which block it is, and whether the balances
\* of both reconstructed pools are there.
PoolRecord == [block : Blocks, usable : BOOLEAN]

EvidenceContent == Blocks \cup PoolRecord \cup Stamps \cup Intervals \cup {ToolVersion}
Listing == [Evidence -> EvidenceContent \cup {Absent}]
Manifest == [interval : Intervals, anchor : PoolRecord, end : PoolRecord, files : Listing]
Content == EvidenceContent \cup Manifest

\* The kind of content the tool writes under each path.
ContentOf(p) ==
  CASE p.kind \in {"block", "anchorBlock"} -> Blocks
    [] p.kind \in {"pools", "anchorPools"} -> PoolRecord
    [] p.kind = "command" -> Intervals
    [] p.kind = "toolVersion" -> {ToolVersion}
    [] p.kind \in Seals -> Manifest
    [] OTHER -> Stamps

ASSUME SentinelAssumption ==
  /\ Absent \notin Content
  /\ Torn \notin Content
  /\ Absent # Torn

NothingListed == [p \in Evidence |-> Absent]
EmptyDirectory == [p \in Paths |-> Absent]
=============================================================================
