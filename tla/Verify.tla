------------------------------- MODULE Verify -------------------------------
(***************************************************************************)
(* The offline half: `reconcile` and `verify` over a bundle directory      *)
(* (src/commands/reconcile.rs, src/reconcile/binding.rs, continuity.rs).   *)
(* The walk reads the manifest, validates the bundle, then reads the       *)
(* anchor and every height in ascending order, returning the first error;  *)
(* the links are walked afterwards and a broken one only fails a check.    *)
(*                                                                         *)
(* The accounting over the blocks is left out here: it can turn a pass     *)
(* into a failure and never the reverse.                                   *)
(***************************************************************************)
EXTENDS Validation

CONSTANT Directories   \* the bundle directories that may be verified

\* A file that cannot be read ends the command with an error of its own.
ASSUME DirectoriesAssumption == \A d \in Directories : Readable(d.disk)

VARIABLES
  dir,      \* the directory, [disk, partial]; nobody writes to it meanwhile
  phase,    \* where the walk is
  at,       \* the height being read or linked
  intact,   \* whether every link so far holds
  verdict   \* the result, or "pending"

vars == <<dir, phase, at, intact, verdict>>

Verdicts == {"pending", "noManifest", "invalid", "missing", "discontinuous",
             "unbound", "unusable", "failed", "warned", "passed"}
\* The verdicts with exit code 0.
Accepted == {"warned", "passed"}

file(p) == dir.disk[p]
manifest == ManifestOf(dir.disk)
interval == manifest.interval

Init ==
  /\ dir \in Directories
  /\ phase = "validate"
  /\ at = 0
  /\ intact = TRUE
  /\ verdict = "pending"

Conclude(v) ==
  /\ verdict' = v
  /\ phase' = "done"
  /\ UNCHANGED <<dir, at, intact>>

GoTo(p, h) ==
  /\ phase' = p
  /\ at' = h
  /\ UNCHANGED <<dir, intact, verdict>>

\* load_manifest, then the gate on validate_bundle.
Validate ==
  /\ phase = "validate"
  /\ IF ~ HasManifest(dir.disk) THEN Conclude("noManifest")
     ELSE IF ~ IsValid(dir.disk) THEN Conclude("invalid")
     ELSE GoTo("anchor", AnchorHeight(interval))

\* parse_block_hex: the height a block claims is the one expected of it.
ClaimsHeight(block, h) == HeightOf[block] = h

\* Slip: only the height a record declares is compared.
DescribesHeight(record, block, h) == HeightOf[record.block] = h

\* check_pool_state_describes_block: the record's height and hash.
Describes(record, block, h) == HeightOf[record.block] = h /\ record.block = block

\* read_anchor_block, read_pool_state, binding; without an anchor block there
\* is nothing to bind to.
ReadAnchor ==
  /\ phase = "anchor"
  /\ LET block == file(File("anchorBlock"))
         record == file(File("anchorPools"))
     IN IF block # Absent /\ ~ ClaimsHeight(block, at) THEN Conclude("discontinuous")
        ELSE IF record = Absent THEN Conclude("missing")
        ELSE IF block # Absent /\ ~ Describes(record, block, at) THEN Conclude("unbound")
        ELSE GoTo("heights", interval.start)

ReadHeight ==
  /\ phase = "heights"
  /\ LET block == file(BlockFile(at))
         record == file(PoolsFile(at))
     IN IF block = Absent THEN Conclude("missing")
        ELSE IF ~ ClaimsHeight(block, at) THEN Conclude("discontinuous")
        ELSE IF record = Absent THEN Conclude("missing")
        ELSE IF ~ Describes(record, block, at) THEN Conclude("unbound")
        ELSE IF at < interval.end THEN GoTo("heights", at + 1)
        ELSE GoTo("links", interval.start)

\* ChainEndpoints: the anchor hash is computed from the anchor block, or the
\* manifest's claim without one; the end hash is always the manifest's claim.
AnchorHash ==
  IF file(File("anchorBlock")) # Absent THEN file(File("anchorBlock")) ELSE manifest.anchor.block

\* Slip: every block is linked to the anchor.
PreviousIsAnchor(h) == AnchorHash

Previous(h) == IF h = interval.start THEN AnchorHash ELSE file(BlockFile(h - 1))

LinkHolds(h) == Parent[file(BlockFile(h))] = Previous(h)
EndHolds == file(BlockFile(interval.end)) = manifest.end.block

\* verify_linkage: the first failure stops it.
Link ==
  /\ phase = "links"
  /\ IF ~ LinkHolds(at)
     THEN intact' = FALSE /\ phase' = "report" /\ UNCHANGED <<dir, at, verdict>>
     ELSE IF at < interval.end THEN GoTo("links", at + 1)
     ELSE intact' = EndHolds /\ phase' = "report" /\ UNCHANGED <<dir, at, verdict>>

\* require_balance on the anchor is an error; the rest is the registry's
\* overall status: any failed check, else any warning, else a pass.
Report ==
  /\ phase = "report"
  /\ IF ~ file(File("anchorPools")).usable THEN Conclude("unusable")
     ELSE IF ~ intact \/ file(File("anchorBlock")) = Absent THEN Conclude("failed")
     ELSE IF Unlisted(dir.disk, dir.partial) # {} THEN Conclude("warned")
     ELSE Conclude("passed")

Next == Validate \/ ReadAnchor \/ ReadHeight \/ Link \/ Report

Spec == Init /\ [][Next]_vars

-----------------------------------------------------------------------------
TypeOK ==
  /\ Readable(dir.disk)
  /\ phase \in {"validate", "anchor", "heights", "links", "report", "done"}
  /\ at \in Heights
  /\ intact \in BOOLEAN
  /\ verdict \in Verdicts

\* A bundle that verifies with exit code 0 is one chain: there is a branch
\* that holds its anchor block and every block of its interval, each pool
\* record belongs to the block it lies beside, and the manifest's end hash is
\* that branch's block at the end height.
AcceptedIsOneChain == verdict \in Accepted => OneChain(dir.disk)

\* The converse: verification refuses no bundle that a capture of one chain
\* would have sealed (SuccessIsVerifiable of CaptureSafety), nor warns of it.
SealedChainPasses ==
  phase = "done" /\ SealedOneChain(dir.disk, dir.partial) => verdict = "passed"
=============================================================================
