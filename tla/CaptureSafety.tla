--------------------------- MODULE CaptureSafety ---------------------------
(***************************************************************************)
(* What a capture promises about the directory it leaves behind, whatever  *)
(* sessions were interrupted before.                                       *)
(***************************************************************************)
EXTENDS Capture

Finished == outcome = "ok"

\* A file that exists under its final name is complete: no interruption of
\* write_atomically leaves a torn one (writer.rs).
CompleteNames == \A p \in Paths : disk[p] # Torn

\* The entries recorded for the manifest describe what is on disk, for files
\* written and for files adopted from an earlier session (writer.rs, adopt).
RecordedIsPresent ==
  \A p \in Evidence : recorded[p] # Absent => disk[p] = recorded[p]

\* A session that succeeds leaves exactly the files of the interval asked for,
\* all listed, unaltered and pinned, whatever it adopted from the sessions
\* before it.
SuccessIsSealed ==
  Finished => Sealed(disk) /\ ManifestOf(disk).interval = req.interval

\* It leaves nothing else in the directory, so verification raises no warning:
\* no block of another interval and no leftover of an interrupted write.
SuccessIsClean == Finished => Unlisted(disk, partial) = {}

RecordPaths == {File("anchorPools")} \cup {PoolsFile(h) : h \in Heights}

\* No file is stored that the tool would refuse to read back: every stored
\* pool record has both balances, however the node wavered (fetch.rs).
StoredRecordsUsable ==
  \A p \in RecordPaths :
    disk[p] # Absent => disk[p].usable

\* Resuming keeps what was captured: a height whose two files are there, and
\* the anchor block, are never rewritten by a resumed session (run.rs, fetch.rs).
ResumeKeepsEvidence ==
  [][pc # "idle" /\ req.mode = "resume" =>
       /\ \A h \in Heights : disk[BlockFile(h)] # Absent /\ disk[PoolsFile(h)] # Absent =>
            disk'[BlockFile(h)] = disk[BlockFile(h)] /\ disk'[PoolsFile(h)] = disk[PoolsFile(h)]
       /\ disk[File("anchorBlock")] # Absent =>
            disk'[File("anchorBlock")] = disk[File("anchorBlock")]]_vars

\* A doomed session costs nothing: until the node has been accepted (its tip
\* far enough, its anchor record usable) no file is created, replaced or
\* deleted, not even by --overwrite (run.rs, plan.rs).
DoomedSessionTouchesNothing ==
  [][<<disk, partial>>' # <<disk, partial>> =>
       /\ tip >= req.interval.end + TipDistance
       /\ mem.anchor # Absent /\ mem.anchor.usable]_vars

-----------------------------------------------------------------------------
\* The evidence of a successful capture is one chain, from the anchor to the end
\* that the manifest claims.
SuccessIsOneChain == Finished => OneChain(disk)

\* A capture that succeeds leaves a directory that verification, elsewhere and
\* later, passes without a warning (SealedChainPasses of Verify), whatever
\* sessions it was pieced together from (run.rs, reconcile.rs).
SuccessIsVerifiable == Finished => Readable(disk) /\ SealedOneChain(disk, partial)

\* Every block and record stored for a height is the one the node now has
\* there: nothing stored is ever reorganised out.
StoredIsSettled ==
  \A h \in Heights :
    /\ disk[BlockFile(h)] # Absent => disk[BlockFile(h)] = BlockAt[chain][h]
    /\ disk[PoolsFile(h)] # Absent => disk[PoolsFile(h)].block = BlockAt[chain][h]

\* In a finished bundle each pool record belongs to the block beside it.
SuccessIsBound ==
  Finished =>
    \A h \in req.interval.start .. req.interval.end :
      disk[PoolsFile(h)].block = disk[BlockFile(h)]

\* However often sessions are interrupted, an operator who keeps coming back
\* ends up with a finished capture.
ResumeConverges == []<>Finished
=============================================================================
