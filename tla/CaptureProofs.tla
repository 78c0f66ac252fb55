--------------------------- MODULE CaptureProofs ---------------------------
(***************************************************************************)
(* Proofs about Capture, for every set of chains, intervals and modes and  *)
(* every bound, in three parts: what is under a final name is whole and    *)
(* recorded; a capture that succeeds leaves a sealed bundle; what the tip  *)
(* distance buys.                                                          *)
(***************************************************************************)
EXTENDS CaptureSafety, TLAPS

\* What a session has read and not yet stored, by the step it is at.
Closing == {"recheck", "chainEnd", "environment", "command", "toolVersion"} \cup Seals

UsableRecord(r) == r \in PoolRecord /\ r.usable

MemoryInv ==
  /\ pc \notin {"idle", "preflight"} => mem.stamp \in Stamps
  /\ pc \notin {"idle", "preflight", "probe"} => UsableRecord(mem.anchor)
  /\ pc \in {"anchorBlock", "getObject", "block"} => mem.hex \in Blocks
  /\ pc \in HeightWrites => UsableRecord(mem.pools)
  /\ pc \in Closing => mem.last \in PoolRecord

\* The current height lies in the interval.
CursorInv == pc # "idle" => InInterval(cursor, req.interval)

\* Nothing is recorded before the directory has been opened.
OpeningInv == pc \in {"idle", "preflight", "probe", "open", "clear"} => recorded = NothingListed

\* Only a writing step is half-way through a file, only the removal half-way
\* through a folder; a partial file that has been synced holds what the step
\* has to write.
WriteInv ==
  /\ stage # "ready" => pc \in WriteSteps \cup {"clear"}
  /\ pc \in WriteSteps => stage \in {"ready", "created", "synced"}
  /\ stage \in {"created", "synced"} => pc \in WriteSteps
  /\ stage = "synced" => partial[Target] = Body

IInv ==
  /\ TypeOK
  /\ CompleteNames
  /\ RecordedIsPresent
  /\ StoredRecordsUsable
  /\ MemoryInv
  /\ CursorInv
  /\ OpeningInv
  /\ WriteInv

-----------------------------------------------------------------------------
\* Operators.

\* What the tool writes under a path is never one of the two sentinels.
LEMMA ContentIsReal ==
  ASSUME NEW p \in Paths
  PROVE  Absent \notin ContentOf(p) /\ Torn \notin ContentOf(p)
BY SentinelAssumption
   DEF ContentOf, Content, EvidenceContent, Paths, Evidence, File, BlockFile, PoolsFile,
       FixedKinds, MetaKinds, Seals

LEMMA RecordPathsArePaths == RecordPaths \subseteq Paths
<1>1. File("anchorPools") \in {File(k) : k \in FixedKinds}
  BY DEF FixedKinds, MetaKinds
<1> QED BY <1>1 DEF RecordPaths, Paths, Evidence

\* A writing step has a file to write.
LEMMA TargetIsPath ==
  ASSUME TypeOK, pc \in WriteSteps
  PROVE  Target \in Paths
BY DEF TypeOK, Target, WriteSteps, HeightWrites, Paths, Evidence, File, BlockFile, PoolsFile

\* The manifest built at the end is a manifest.
LEMMA ManifestIsManifest ==
  ASSUME TypeOK, MemoryInv, pc \in Seals
  PROVE  BuiltManifest \in Manifest
<1>1. mem.anchor \in PoolRecord /\ mem.last \in PoolRecord
  BY DEF MemoryInv, Closing, Seals, UsableRecord
<1> QED BY <1>1 DEF BuiltManifest, Manifest, TypeOK

\* What a step writes is what belongs under its path.
LEMMA BodyFits ==
  ASSUME TypeOK, MemoryInv, pc \in WriteSteps
  PROVE  Body \in ContentOf(Target)
<1>1. CASE pc \in Seals
  BY <1>1, ManifestIsManifest
     DEF Body, Target, ContentOf, File, Seals
<1>2. CASE pc \in HeightWrites
  BY <1>2 DEF Body, Target, ContentOf, BlockFile, PoolsFile, HeightWrites, Seals,
              MemoryInv, UsableRecord
<1>3. CASE pc \in FixedKinds
  BY <1>3 DEF Body, Target, ContentOf, File, FixedKinds, MetaKinds, HeightWrites, Seals,
              MemoryInv, UsableRecord, TypeOK
<1> QED BY <1>1, <1>2, <1>3 DEF WriteSteps

\* The content of the files a manifest lists.
LEMMA EvidenceFits ==
  ASSUME NEW p \in Evidence
  PROVE  ContentOf(p) \subseteq EvidenceContent
BY DEF ContentOf, EvidenceContent, Evidence, File, BlockFile, PoolsFile,
       FixedKinds, MetaKinds, Seals

\* A directory stays well typed when one file is replaced.
LEMMA DirectoryUpdate ==
  ASSUME NEW d, DirectoryTypeOK(d), NEW p \in Paths,
         NEW v \in ContentOf(p) \cup {Absent, Torn}
  PROVE  DirectoryTypeOK([d EXCEPT ![p] = v])
BY DEF DirectoryTypeOK

\* A rename publishes what the step had to write, and disturbs nothing else.
LEMMA RenamePublishes ==
  ASSUME IInv, pc \in WriteSteps, Rename(Target)
  PROVE  /\ disk' = [disk EXCEPT ![Target] = Body]
         /\ DirectoryTypeOK(disk') /\ DirectoryTypeOK(partial')
         /\ CompleteNames'
         /\ StoredRecordsUsable'
<1>1. Target \in Paths /\ Body \in ContentOf(Target)
  BY TargetIsPath, BodyFits DEF IInv
<1>2. disk' = [disk EXCEPT ![Target] = Body]
  BY DEF IInv, WriteInv, Rename
<1>3. DirectoryTypeOK(disk') /\ DirectoryTypeOK(partial')
  <2>1. DirectoryTypeOK([disk EXCEPT ![Target] = Body])
    BY <1>1, DirectoryUpdate DEF IInv, TypeOK
  <2>2. DirectoryTypeOK([partial EXCEPT ![Target] = Absent])
    BY <1>1, DirectoryUpdate DEF IInv, TypeOK
  <2> QED BY <1>2, <2>1, <2>2 DEF Rename
<1>4. CompleteNames'
  BY <1>1, <1>2, ContentIsReal DEF IInv, CompleteNames, TypeOK, DirectoryTypeOK
<1>5. StoredRecordsUsable'
  <2> SUFFICES ASSUME NEW p \in RecordPaths,
                      disk'[p] # Absent
               PROVE  disk'[p].usable
    BY DEF StoredRecordsUsable
  <2>1. CASE p = Target
    <3>1. Body \in {mem.anchor, mem.pools} /\ Body.usable
      BY <2>1 DEF IInv, MemoryInv, UsableRecord, Target, Body, File, BlockFile, PoolsFile,
                  RecordPaths, WriteSteps, HeightWrites, FixedKinds, MetaKinds, Seals
    <3> QED BY <2>1, <3>1, <1>1, <1>2 DEF IInv, TypeOK, DirectoryTypeOK
  <2>2. CASE p # Target
    BY <2>2, <1>1, <1>2 DEF IInv, StoredRecordsUsable, TypeOK, DirectoryTypeOK
  <2> QED BY <2>1, <2>2
<1> QED BY <1>2, <1>3, <1>4, <1>5

-----------------------------------------------------------------------------
\* Steps.  Most actions end the session, move on without touching the
\* directory, or work on one file; one lemma for each.

\* The end of a session, when the directory is sound.
LEMMA StopKeeps ==
  ASSUME IInv, NEW how \in Outcomes, Stop(how), NodeTypeOK', faults' \in 0 .. MaxFaults,
         DirectoryTypeOK(disk'), DirectoryTypeOK(partial'),
         CompleteNames', StoredRecordsUsable'
  PROVE  IInv'
<1>1. EmptyMemory \in Memory /\ NothingListed \in Listing /\ 0 \in Heights
  BY ChainAssumption DEF EmptyMemory, Memory, NothingListed, Listing, Heights
<1>2. TypeOK'
  BY <1>1 DEF IInv, TypeOK, Stop
<1>3. RecordedIsPresent' /\ MemoryInv' /\ CursorInv' /\ OpeningInv' /\ WriteInv'
  BY DEF Stop, RecordedIsPresent, NothingListed, MemoryInv, CursorInv, OpeningInv, WriteInv,
         Closing, Seals, HeightWrites
<1> QED BY <1>2, <1>3 DEF IInv

\* A step that leaves the directory alone.
LEMMA ContinueKeeps ==
  ASSUME IInv, NEW step \in WriteSteps \cup ReadSteps, NEW memory \in Memory,
         stage = "ready", pc # "idle",
         step \in {"preflight", "probe", "open", "clear"}
           => pc \in {"preflight", "probe", "open", "clear"},
         Continue(step, memory), UNCHANGED <<nodeVars, faults>>, MemoryInv'
  PROVE  IInv'
<1>1. TypeOK'
  BY DEF IInv, TypeOK, NodeTypeOK, Continue, nodeVars, dirVars
<1>2. CompleteNames' /\ RecordedIsPresent' /\ StoredRecordsUsable'
  BY DEF IInv, CompleteNames, RecordedIsPresent, StoredRecordsUsable, Continue, dirVars
<1>3. CursorInv' /\ OpeningInv' /\ WriteInv'
  BY DEF IInv, CursorInv, OpeningInv, WriteInv, Continue, dirVars, InInterval, WriteSteps,
         ReadSteps, FixedKinds, MetaKinds, Seals, HeightWrites
<1> QED BY <1>1, <1>2, <1>3 DEF IInv

LEMMA StartKeeps ==
  ASSUME IInv, NEW m \in Modes, NEW i \in Intervals, Start(m, i)
  PROVE  IInv'
<1>1. TypeOK'
  BY IntervalAssumption DEF IInv, TypeOK, NodeTypeOK, Start, nodeVars, dirVars, ReadSteps, Outcomes
<1>2. CompleteNames' /\ RecordedIsPresent' /\ StoredRecordsUsable'
  BY DEF IInv, CompleteNames, RecordedIsPresent, StoredRecordsUsable, Start, dirVars
<1>3. InInterval(i.start, i)
  BY IntervalAssumption, ChainAssumption DEF InInterval, Heights
<1>4. MemoryInv' /\ CursorInv' /\ OpeningInv' /\ WriteInv'
  BY <1>3 DEF IInv, MemoryInv, CursorInv, OpeningInv, WriteInv, Start, dirVars, Closing,
              Seals, HeightWrites, WriteSteps, FixedKinds, MetaKinds
<1> QED BY <1>1, <1>2, <1>4 DEF IInv

LEMMA NodeKeeps ==
  ASSUME IInv, NodeStep
  PROVE  IInv'
<1>1. NodeTypeOK'
  <2>1. CASE GrowTip
    BY <2>1, ChainAssumption DEF IInv, TypeOK, NodeTypeOK, GrowTip, Heights
  <2>2. ASSUME NEW c \in Chains, Reorg(c) PROVE NodeTypeOK'
    BY <2>2, NodeAssumption DEF IInv, TypeOK, NodeTypeOK, Reorg
  <2> QED BY <2>1, <2>2 DEF NodeStep
<1>2. UNCHANGED <<dirVars, sessionVars, faults>>
  BY DEF NodeStep
<1>3. TypeOK'
  BY <1>1, <1>2 DEF IInv, TypeOK, dirVars, sessionVars
<1>4. UNCHANGED <<Target, Body>>
  BY <1>2 DEF Target, Body, BuiltManifest, sessionVars
<1>5. CompleteNames' /\ RecordedIsPresent' /\ StoredRecordsUsable' /\ MemoryInv'
      /\ CursorInv' /\ OpeningInv' /\ WriteInv'
  BY <1>2, <1>4 DEF IInv, CompleteNames, RecordedIsPresent, StoredRecordsUsable, MemoryInv,
     CursorInv, OpeningInv, WriteInv, dirVars, sessionVars
<1> QED BY <1>3, <1>5 DEF IInv

LEMMA InterruptKeeps ==
  ASSUME IInv, Interrupt
  PROVE  IInv'
<1>1. faults' \in 0 .. MaxFaults
  BY CaptureAssumption DEF IInv, TypeOK, Interrupt
<1>2. /\ NodeTypeOK' /\ DirectoryTypeOK(disk') /\ DirectoryTypeOK(partial')
      /\ CompleteNames' /\ StoredRecordsUsable'
  BY DEF IInv, TypeOK, NodeTypeOK, CompleteNames, StoredRecordsUsable, Interrupt, nodeVars, dirVars
<1> QED BY <1>1, <1>2, StopKeeps DEF Interrupt, Outcomes

\* A refusal ends the session with the directory as it is.
LEMMA RefusalKeeps ==
  ASSUME IInv, Stop("refused"), UNCHANGED <<nodeVars, dirVars, faults>>
  PROVE  IInv'
<1>1. /\ NodeTypeOK' /\ DirectoryTypeOK(disk') /\ DirectoryTypeOK(partial')
      /\ CompleteNames' /\ StoredRecordsUsable' /\ faults' \in 0 .. MaxFaults
  BY DEF IInv, TypeOK, NodeTypeOK, CompleteNames, StoredRecordsUsable, nodeVars, dirVars
<1> QED BY <1>1, StopKeeps DEF Outcomes

\* The node answers for a height with a record.
LEMMA AnswersAreRecords ==
  ASSUME NodeTypeOK, NEW h \in Heights, NEW answer \in BlockObjects(h), PoolStateUsable(answer)
  PROVE  UsableRecord(answer) /\ answer.block = BlockAt[chain][h]
<1>1. PICK u \in BOOLEAN : answer = [block |-> BlockAt[chain][h], usable |-> u]
  BY DEF BlockObjects
<1>2. BlockAt[chain][h] \in Blocks
  BY ChainAssumption DEF NodeTypeOK
<1> QED BY <1>1, <1>2 DEF PoolStateUsable, UsableRecord, PoolRecord

\* Outside the writing steps and the removal, no file is half-way.
LEMMA IdleStage ==
  ASSUME IInv, pc \in ReadSteps \ {"clear"}
  PROVE  stage = "ready" /\ pc # "idle"
BY DEF IInv, TypeOK, WriteInv, ReadSteps, WriteSteps, HeightWrites, FixedKinds, MetaKinds, Seals

LEMMA PreflightKeeps ==
  ASSUME IInv, Preflight
  PROVE  IInv'
<1>1. CASE TipDistanceOK(req.interval.end)
  <2>1. PICK s \in Stamps : Continue("probe", [mem EXCEPT !.stamp = s])
    BY <1>1 DEF Preflight
  <2> DEFINE memory == [mem EXCEPT !.stamp = s]
  <2>2. memory \in Memory /\ memory.stamp = s
    BY DEF IInv, TypeOK, Memory
  <2>3. MemoryInv'
    BY <2>1, <2>2 DEF Continue, MemoryInv, Closing, Seals, HeightWrites
  <2>4. stage = "ready" /\ pc = "preflight"
    BY IdleStage DEF Preflight, ReadSteps
  <2>5. UNCHANGED <<nodeVars, faults>>
    BY DEF Preflight
  <2> HIDE DEF memory
  <2> QED BY <2>1, <2>2, <2>3, <2>4, <2>5, ContinueKeeps DEF ReadSteps, memory
<1>2. CASE ~ TipDistanceOK(req.interval.end)
  BY <1>2, RefusalKeeps DEF Preflight, nodeVars, dirVars
<1> QED BY <1>1, <1>2

LEMMA ProbeKeeps ==
  ASSUME IInv, Probe
  PROVE  IInv'
<1>1. PICK answer \in BlockObjects(AnchorHeight(req.interval)) :
        /\ PoolStateUsable(answer)
        /\ Continue("open", [mem EXCEPT !.anchor = answer])
  BY DEF Probe
<1>2. AnchorHeight(req.interval) \in Heights
  BY IntervalAssumption, ChainAssumption DEF IInv, TypeOK, AnchorHeight, Heights
<1>3. UsableRecord(answer)
  BY <1>1, <1>2, AnswersAreRecords DEF IInv, TypeOK
<1> DEFINE memory == [mem EXCEPT !.anchor = answer]
<1>4. memory \in Memory /\ memory.anchor = answer /\ memory.stamp = mem.stamp
  BY <1>3 DEF IInv, TypeOK, Memory, UsableRecord
<1>5. MemoryInv'
  BY <1>1, <1>3, <1>4 DEF Continue, IInv, MemoryInv, Closing, Seals, HeightWrites, Probe
<1>6. stage = "ready" /\ pc = "probe" /\ UNCHANGED <<nodeVars, faults>>
  BY IdleStage DEF Probe, ReadSteps
<1>7. Continue("open", memory)
  BY <1>1
<1> HIDE DEF memory
<1> QED BY <1>4, <1>5, <1>6, <1>7, ContinueKeeps DEF ReadSteps

LEMMA OpenKeeps ==
  ASSUME IInv, Open
  PROVE  IInv'
<1>1. CASE Opened = "refused"
  BY <1>1, RefusalKeeps DEF Open, nodeVars, dirVars
<1>2. CASE Opened # "refused"
  <2>1. Continue(Opened, mem) /\ UNCHANGED <<nodeVars, faults>> /\ pc = "open"
    BY <1>2 DEF Open
  <2>2. Opened \in {"nodeInfo", "clear"}
    BY <1>2, CaptureAssumption DEF Opened, IInv, TypeOK, OutputModes
  <2>3. stage = "ready" /\ mem \in Memory
    BY <2>1, IdleStage DEF ReadSteps, IInv, TypeOK
  <2>4. MemoryInv'
    BY <2>1, <2>2 DEF Continue, IInv, MemoryInv, Closing, Seals, HeightWrites
  <2> QED
    BY <2>1, <2>2, <2>3, <2>4, ContinueKeeps DEF ReadSteps, WriteSteps, FixedKinds, MetaKinds
<1> QED BY <1>1, <1>2

LEMMA ClearOneKeeps ==
  ASSUME IInv, NEW p \in Paths, ClearOne(p)
  PROVE  IInv'
<1>1. \/ disk' = [disk EXCEPT ![p] = Absent] /\ partial' = partial
      \/ disk' = disk /\ partial' = [partial EXCEPT ![p] = Absent]
  BY DEF ClearOne
<1>2. DirectoryTypeOK([disk EXCEPT ![p] = Absent]) /\ DirectoryTypeOK([partial EXCEPT ![p] = Absent])
  BY DirectoryUpdate DEF IInv, TypeOK
<1>3. DirectoryTypeOK(disk') /\ DirectoryTypeOK(partial')
  BY <1>1, <1>2 DEF IInv, TypeOK
<1>4. stage' \in {"ready", "anchor", "blocks", "rpc", "metadata"}
  BY DEF ClearOne, Folder
<1>5. TypeOK'
  BY <1>3, <1>4 DEF IInv, TypeOK, NodeTypeOK, ClearOne, nodeVars
<1>6. \A o \in Paths : disk'[o] \in {disk[o], Absent}
  BY <1>1 DEF IInv, TypeOK, DirectoryTypeOK
<1>7. CompleteNames' /\ StoredRecordsUsable'
  <2>1. CompleteNames'
    BY <1>6, SentinelAssumption DEF IInv, CompleteNames
  <2>2. \A o \in RecordPaths : disk'[o] \in {disk[o], Absent}
    BY <1>6, RecordPathsArePaths
  <2>3. StoredRecordsUsable'
    BY <2>2 DEF IInv, StoredRecordsUsable, RecordPaths
  <2> QED BY <2>1, <2>3
<1>8. RecordedIsPresent'
  BY DEF IInv, OpeningInv, NothingListed, RecordedIsPresent, ClearOne
<1>9. MemoryInv' /\ CursorInv' /\ OpeningInv' /\ WriteInv'
  BY <1>4 DEF IInv, MemoryInv, CursorInv, OpeningInv, WriteInv, ClearOne, WriteSteps,
     HeightWrites, FixedKinds, MetaKinds, Seals
<1> QED BY <1>5, <1>7, <1>8, <1>9 DEF IInv

LEMMA ClearedKeeps ==
  ASSUME IInv, Cleared
  PROVE  IInv'
<1>1. MemoryInv'
  BY DEF Cleared, Continue, IInv, MemoryInv, Closing, Seals, HeightWrites
<1>2. mem \in Memory /\ pc = "clear" /\ stage = "ready"
  BY DEF Cleared, IInv, TypeOK
<1> QED BY <1>1, <1>2, ContinueKeeps DEF Cleared, WriteSteps, FixedKinds, MetaKinds

LEMMA CreatePartialKeeps ==
  ASSUME IInv, CreatePartial
  PROVE  IInv'
<1>1. Target \in Paths
  BY TargetIsPath DEF IInv, CreatePartial
<1>2. DirectoryTypeOK([partial EXCEPT ![Target] = Torn])
  BY <1>1, DirectoryUpdate DEF IInv, TypeOK
<1>3. TypeOK'
  BY <1>2 DEF IInv, TypeOK, NodeTypeOK, CreatePartial, nodeVars
<1>4. CompleteNames' /\ RecordedIsPresent' /\ StoredRecordsUsable'
  BY DEF IInv, CompleteNames, RecordedIsPresent, StoredRecordsUsable, CreatePartial
<1>5. MemoryInv' /\ CursorInv' /\ OpeningInv' /\ WriteInv'
  BY DEF IInv, MemoryInv, CursorInv, OpeningInv, WriteInv, CreatePartial
<1> QED BY <1>3, <1>4, <1>5 DEF IInv

LEMMA FillAndSyncKeeps ==
  ASSUME IInv, FillAndSync
  PROVE  IInv'
<1>1. Target \in Paths /\ Body \in ContentOf(Target)
  BY TargetIsPath, BodyFits DEF IInv, FillAndSync
<1>2. DirectoryTypeOK([partial EXCEPT ![Target] = Body])
  BY <1>1, DirectoryUpdate DEF IInv, TypeOK
<1>3. TypeOK'
  BY <1>2 DEF IInv, TypeOK, NodeTypeOK, FillAndSync, nodeVars
<1>4. CompleteNames' /\ RecordedIsPresent' /\ StoredRecordsUsable'
  BY DEF IInv, CompleteNames, RecordedIsPresent, StoredRecordsUsable, FillAndSync
<1>5. MemoryInv' /\ CursorInv' /\ OpeningInv'
  BY DEF IInv, MemoryInv, CursorInv, OpeningInv, FillAndSync
<1>6. UNCHANGED <<Target, Body>>
  BY DEF Target, Body, BuiltManifest, FillAndSync
<1>7. WriteInv'
  BY <1>1, <1>6 DEF IInv, TypeOK, DirectoryTypeOK, WriteInv, FillAndSync
<1> QED BY <1>3, <1>4, <1>5, <1>7 DEF IInv

\* Recording what has just been published keeps the record true.
LEMMA RecordKeeps ==
  ASSUME IInv, pc \in FixedKinds \cup HeightWrites, Rename(Target),
         recorded' = [recorded EXCEPT ![Target] = Body]
  PROVE  recorded' \in Listing /\ RecordedIsPresent'
<1>1. pc \in WriteSteps
  BY DEF WriteSteps
<1>2. Target \in Evidence /\ Target \in Paths
  BY <1>1, TargetIsPath
     DEF IInv, TypeOK, Target, Evidence, HeightWrites, FixedKinds, MetaKinds
<1>3. Body \in EvidenceContent /\ disk' = [disk EXCEPT ![Target] = Body]
  BY <1>1, <1>2, BodyFits, EvidenceFits, RenamePublishes DEF IInv
<1>4. recorded' \in Listing
  BY <1>2, <1>3 DEF IInv, TypeOK, Listing
<1>5. Evidence \subseteq Paths
  BY DEF Paths
<1>6. RecordedIsPresent'
  BY <1>2, <1>3, <1>5 DEF IInv, TypeOK, Listing, DirectoryTypeOK, RecordedIsPresent
<1> QED BY <1>4, <1>6

LEMMA PublishFileKeeps ==
  ASSUME IInv, PublishFile
  PROVE  IInv'
<1>1. pc \in WriteSteps /\ pc \in FixedKinds \cup HeightWrites
  BY DEF PublishFile, WriteSteps, HeightWrites
<1>2. /\ DirectoryTypeOK(disk') /\ DirectoryTypeOK(partial')
      /\ CompleteNames' /\ StoredRecordsUsable'
  BY <1>1, RenamePublishes DEF PublishFile
<1>3. recorded' \in Listing /\ RecordedIsPresent'
  BY <1>1, RecordKeeps DEF PublishFile
<1>4. pc' \in WriteSteps \cup {"getAnchor", "getBlock"}
  BY DEF PublishFile, Following, FixedKinds, MetaKinds, WriteSteps, HeightWrites, Seals
<1>5. TypeOK'
  BY <1>2, <1>3, <1>4 DEF IInv, TypeOK, NodeTypeOK, PublishFile, nodeVars, ReadSteps
<1>6. MemoryInv' /\ CursorInv' /\ OpeningInv' /\ WriteInv'
  BY <1>4 DEF IInv, MemoryInv, CursorInv, OpeningInv, WriteInv, PublishFile, Following,
     Closing, FixedKinds, MetaKinds, WriteSteps, HeightWrites, Seals
<1> QED BY <1>2, <1>3, <1>5, <1>6 DEF IInv

\* The walk over the interval stays in the interval.
LEMMA NextHeightStays ==
  ASSUME IInv, pc # "idle", NextHeight, UNCHANGED req
  PROVE  pc' \in {"getBlock", "recheck"} /\ cursor' \in Heights /\ InInterval(cursor', req.interval)
BY IntervalAssumption, ChainAssumption
   DEF IInv, TypeOK, CursorInv, InInterval, NextHeight, Heights

LEMMA PublishPoolsKeeps ==
  ASSUME IInv, PublishPools
  PROVE  IInv'
<1>1. pc \in WriteSteps /\ pc \in FixedKinds \cup HeightWrites /\ pc # "idle"
  BY DEF PublishPools, WriteSteps, HeightWrites
<1>2. /\ DirectoryTypeOK(disk') /\ DirectoryTypeOK(partial')
      /\ CompleteNames' /\ StoredRecordsUsable'
  BY <1>1, RenamePublishes DEF PublishPools
<1>3. recorded' \in Listing /\ RecordedIsPresent'
  BY <1>1, RecordKeeps DEF PublishPools
<1>4. pc' \in {"getBlock", "recheck"} /\ cursor' \in Heights /\ InInterval(cursor', req.interval)
  BY <1>1, NextHeightStays DEF PublishPools
<1>5. mem' \in Memory /\ mem' = [mem EXCEPT !.last = mem.pools] /\ mem.pools \in PoolRecord
  BY DEF PublishPools, IInv, TypeOK, MemoryInv, HeightWrites, UsableRecord, Memory
<1>6. TypeOK'
  BY <1>2, <1>3, <1>4, <1>5 DEF IInv, TypeOK, NodeTypeOK, PublishPools, nodeVars, ReadSteps
<1>7. MemoryInv'
  BY <1>4, <1>5 DEF IInv, TypeOK, Memory, MemoryInv, PublishPools, Closing, Seals, HeightWrites
<1>8. CursorInv' /\ OpeningInv' /\ WriteInv'
  BY <1>4 DEF CursorInv, OpeningInv, WriteInv, PublishPools, WriteSteps, FixedKinds, MetaKinds,
              HeightWrites, Seals
<1> QED BY <1>2, <1>3, <1>6, <1>7, <1>8 DEF IInv

LEMMA PublishManifestKeeps ==
  ASSUME IInv, PublishManifest
  PROVE  IInv'
<1>1. pc \in WriteSteps /\ Target = File("manifest")
  BY DEF PublishManifest, WriteSteps, Seals, Target
<1>2. /\ DirectoryTypeOK(disk') /\ DirectoryTypeOK(partial')
      /\ CompleteNames' /\ StoredRecordsUsable'
      /\ disk' = [disk EXCEPT ![Target] = Body]
  BY <1>1, RenamePublishes DEF PublishManifest
<1>3. RecordedIsPresent'
  <2>1. \A p \in Evidence : p \in Paths /\ p # File("manifest")
    BY DEF Evidence, Paths, File, BlockFile, PoolsFile, FixedKinds, MetaKinds
  <2> QED BY <1>1, <1>2, <2>1
          DEF IInv, TypeOK, DirectoryTypeOK, RecordedIsPresent, PublishManifest
<1>4. TypeOK'
  BY <1>2 DEF IInv, TypeOK, NodeTypeOK, PublishManifest, nodeVars, WriteSteps, Seals
<1>5. MemoryInv' /\ CursorInv' /\ OpeningInv' /\ WriteInv'
  BY DEF IInv, MemoryInv, CursorInv, OpeningInv, WriteInv, PublishManifest, Closing, WriteSteps,
         FixedKinds, MetaKinds, HeightWrites, Seals
<1> QED BY <1>2, <1>3, <1>4, <1>5 DEF IInv

LEMMA PublishDigestKeeps ==
  ASSUME IInv, PublishDigest
  PROVE  IInv'
<1>1. pc \in WriteSteps
  BY DEF PublishDigest, WriteSteps, Seals
<1>2. /\ DirectoryTypeOK(disk') /\ DirectoryTypeOK(partial')
      /\ CompleteNames' /\ StoredRecordsUsable'
  BY <1>1, RenamePublishes DEF PublishDigest
<1>3. NodeTypeOK' /\ faults' \in 0 .. MaxFaults
  BY DEF IInv, TypeOK, NodeTypeOK, PublishDigest, nodeVars
<1> QED BY <1>2, <1>3, StopKeeps DEF PublishDigest, Outcomes

LEMMA AdoptAnchorKeeps ==
  ASSUME IInv, AdoptAnchor
  PROVE  IInv'
<1>1. File("anchorBlock") \in Evidence /\ File("anchorBlock") \in Paths
  BY DEF Paths, Evidence, FixedKinds
<1>2. disk[File("anchorBlock")] \in EvidenceContent
  BY <1>1, EvidenceFits DEF IInv, TypeOK, DirectoryTypeOK, CompleteNames, AdoptAnchor
<1>3. recorded' \in Listing /\ RecordedIsPresent'
  BY <1>1, <1>2 DEF IInv, TypeOK, Listing, RecordedIsPresent, AdoptAnchor, dirVars
<1>4. TypeOK'
  BY <1>3 DEF IInv, TypeOK, NodeTypeOK, AdoptAnchor, nodeVars, dirVars, WriteSteps, FixedKinds,
              MetaKinds
<1>5. CompleteNames' /\ StoredRecordsUsable'
  BY DEF IInv, CompleteNames, StoredRecordsUsable, AdoptAnchor, dirVars
<1>6. stage = "ready"
  BY IdleStage DEF AdoptAnchor, ReadSteps
<1>7. MemoryInv' /\ CursorInv' /\ OpeningInv' /\ WriteInv'
  BY <1>6 DEF IInv, MemoryInv, CursorInv, OpeningInv, WriteInv, AdoptAnchor, Closing, WriteSteps,
         FixedKinds, MetaKinds, HeightWrites, Seals
<1> QED BY <1>3, <1>4, <1>5, <1>7 DEF IInv

\* The paths of one height.
LEMMA HeightPaths ==
  ASSUME NEW h \in Heights
  PROVE  /\ BlockFile(h) \in Evidence /\ PoolsFile(h) \in Evidence
         /\ BlockFile(h) \in Paths /\ PoolsFile(h) \in Paths
         /\ BlockFile(h) # PoolsFile(h)
BY DEF Evidence, Paths, BlockFile, PoolsFile

LEMMA AdoptHeightKeeps ==
  ASSUME IInv, AdoptHeight
  PROVE  IInv'
<1>1. cursor \in Heights
  BY DEF IInv, TypeOK
<1>2. /\ disk[BlockFile(cursor)] \in EvidenceContent
      /\ disk[PoolsFile(cursor)] \in EvidenceContent
  <2>1. HeightPresent(cursor)
    BY DEF AdoptHeight
  <2> QED BY <1>1, <2>1, HeightPaths, EvidenceFits
          DEF IInv, TypeOK, DirectoryTypeOK, CompleteNames, HeightPresent
<1>3. disk[PoolsFile(cursor)] \in PoolRecord
  <2>1. ContentOf(PoolsFile(cursor)) = PoolRecord
    BY DEF ContentOf, PoolsFile, Seals
  <2> QED BY <1>1, <2>1, HeightPaths
          DEF IInv, TypeOK, DirectoryTypeOK, CompleteNames, HeightPresent, AdoptHeight
<1>4. recorded' \in Listing /\ RecordedIsPresent'
  BY <1>1, <1>2, HeightPaths DEF IInv, TypeOK, Listing, RecordedIsPresent, AdoptHeight, dirVars
<1>5. pc' \in {"getBlock", "recheck"} /\ cursor' \in Heights /\ InInterval(cursor', req.interval)
  BY NextHeightStays DEF AdoptHeight
<1>6. mem' \in Memory /\ mem' = [mem EXCEPT !.last = disk[PoolsFile(cursor)]]
  BY <1>3 DEF IInv, TypeOK, Memory, AdoptHeight
<1>7. TypeOK'
  BY <1>4, <1>5, <1>6 DEF IInv, TypeOK, NodeTypeOK, AdoptHeight, nodeVars, dirVars, ReadSteps
<1>8. CompleteNames' /\ StoredRecordsUsable'
  BY DEF IInv, CompleteNames, StoredRecordsUsable, AdoptHeight, dirVars
<1>9. stage = "ready"
  BY IdleStage DEF AdoptHeight, ReadSteps
<1>10. MemoryInv'
  BY <1>3, <1>5, <1>6 DEF IInv, TypeOK, Memory, MemoryInv, AdoptHeight, Closing, Seals, HeightWrites
<1>11. CursorInv' /\ OpeningInv' /\ WriteInv'
  BY <1>5, <1>9 DEF CursorInv, OpeningInv, WriteInv, AdoptHeight, WriteSteps, FixedKinds, MetaKinds,
                    HeightWrites, Seals
<1> QED BY <1>4, <1>7, <1>8, <1>10, <1>11 DEF IInv

LEMMA FetchAnchorKeeps ==
  ASSUME IInv, FetchAnchor
  PROVE  IInv'
<1> DEFINE block  == BlockAt[chain][AnchorHeight(req.interval)]
           memory == [mem EXCEPT !.hex = block]
<1>1. AnchorHeight(req.interval) \in Heights
  BY IntervalAssumption, ChainAssumption DEF IInv, TypeOK, AnchorHeight, Heights
<1>2. block \in Blocks
  BY <1>1, ChainAssumption DEF IInv, TypeOK, NodeTypeOK
<1>3. Continue("anchorBlock", memory) /\ UNCHANGED <<nodeVars, faults>> /\ pc = "getAnchor"
  BY DEF FetchAnchor
<1> HIDE DEF block
<1>4. memory \in Memory
  BY <1>2 DEF IInv, TypeOK, Memory
<1>5. MemoryInv'
  BY <1>2, <1>3 DEF Continue, IInv, TypeOK, Memory, MemoryInv, Closing, Seals, HeightWrites
<1>6. stage = "ready"
  BY <1>3, IdleStage DEF ReadSteps
<1> HIDE DEF memory
<1> QED BY <1>3, <1>4, <1>5, <1>6, ContinueKeeps DEF WriteSteps, FixedKinds

LEMMA FetchBlockKeeps ==
  ASSUME IInv, FetchBlock
  PROVE  IInv'
<1> DEFINE block  == BlockAt[chain][cursor]
           memory == [mem EXCEPT !.hex = block]
<1>1. block \in Blocks
  BY ChainAssumption DEF IInv, TypeOK, NodeTypeOK
<1>2. Continue("getObject", memory) /\ UNCHANGED <<nodeVars, faults>> /\ pc = "getBlock"
  BY DEF FetchBlock
<1> HIDE DEF block
<1>3. memory \in Memory
  BY <1>1 DEF IInv, TypeOK, Memory
<1>4. MemoryInv'
  BY <1>1, <1>2 DEF Continue, IInv, TypeOK, Memory, MemoryInv, Closing, Seals, HeightWrites
<1>5. stage = "ready"
  BY <1>2, IdleStage DEF ReadSteps
<1> HIDE DEF memory
<1> QED BY <1>2, <1>3, <1>4, <1>5, ContinueKeeps DEF ReadSteps

LEMMA FetchObjectKeeps ==
  ASSUME IInv, FetchObject
  PROVE  IInv'
<1>1. PICK answer \in BlockObjects(cursor) :
        PoolStateUsable(answer) /\ Continue("block", [mem EXCEPT !.pools = answer])
  BY DEF FetchObject
<1> DEFINE memory == [mem EXCEPT !.pools = answer]
<1>2. UsableRecord(answer)
  BY <1>1, AnswersAreRecords DEF IInv, TypeOK
<1>3. memory \in Memory
  BY <1>2 DEF IInv, TypeOK, Memory, UsableRecord
<1>4. pc = "getObject" /\ UNCHANGED <<nodeVars, faults>> /\ Continue("block", memory)
  BY <1>1 DEF FetchObject
<1>5. MemoryInv'
  BY <1>2, <1>4 DEF Continue, IInv, TypeOK, Memory, MemoryInv, Closing, Seals, HeightWrites
<1>6. stage = "ready"
  BY <1>4, IdleStage DEF ReadSteps
<1> HIDE DEF memory
<1> QED BY <1>3, <1>4, <1>5, <1>6, ContinueKeeps DEF WriteSteps, HeightWrites

LEMMA RecheckKeeps ==
  ASSUME IInv, Recheck
  PROVE  IInv'
<1>1. CASE Continue("chainEnd", mem)
  <2>1. pc = "recheck" /\ UNCHANGED <<nodeVars, faults>> /\ mem \in Memory
    BY DEF Recheck, IInv, TypeOK
  <2>2. MemoryInv'
    BY <1>1, <2>1 DEF Continue, IInv, MemoryInv, Closing, Seals, HeightWrites
  <2>3. stage = "ready"
    BY <2>1, IdleStage DEF ReadSteps
  <2> QED BY <1>1, <2>1, <2>2, <2>3, ContinueKeeps DEF WriteSteps, FixedKinds, MetaKinds
<1>2. CASE Stop("refused") /\ UNCHANGED dirVars
  BY <1>2, RefusalKeeps DEF Recheck, nodeVars, dirVars
<1> QED BY <1>1, <1>2 DEF Recheck

-----------------------------------------------------------------------------
\* The invariant.

LEMMA SessionKeeps ==
  ASSUME IInv, Session
  PROVE  IInv'
BY PreflightKeeps, ProbeKeeps, OpenKeeps, ClearOneKeeps, ClearedKeeps, CreatePartialKeeps,
   FillAndSyncKeeps, PublishFileKeeps, PublishPoolsKeeps, PublishManifestKeeps,
   PublishDigestKeeps, AdoptAnchorKeeps, FetchAnchorKeeps, AdoptHeightKeeps, FetchBlockKeeps,
   FetchObjectKeeps, RecheckKeeps
   DEF Session

LEMMA StepKeeps == IInv /\ [Next]_vars => IInv'
<1> SUFFICES ASSUME IInv, [Next]_vars PROVE IInv'
  OBVIOUS
<1>1. CASE Operator
  BY <1>1, StartKeeps DEF Operator
<1>2. CASE NodeStep
  BY <1>2, NodeKeeps
<1>3. CASE Session
  BY <1>3, SessionKeeps
<1>4. CASE Interrupt
  BY <1>4, InterruptKeeps
<1>5. CASE UNCHANGED vars
  <2>1. UNCHANGED <<Target, Body>>
    BY <1>5 DEF Target, Body, BuiltManifest, vars, sessionVars
  <2> QED
    BY <1>5, <2>1 DEF vars, nodeVars, dirVars, sessionVars, IInv, TypeOK, NodeTypeOK,
       CompleteNames, RecordedIsPresent, StoredRecordsUsable, MemoryInv, CursorInv, OpeningInv,
       WriteInv
<1> QED BY <1>1, <1>2, <1>3, <1>4, <1>5 DEF Next

LEMMA InitHolds == Init => IInv
<1> SUFFICES ASSUME Init PROVE IInv
  OBVIOUS
<1>1. EmptyMemory \in Memory /\ NothingListed \in Listing /\ 0 \in Heights
  BY ChainAssumption DEF EmptyMemory, Memory, NothingListed, Listing, Heights
<1>2. DirectoryTypeOK(EmptyDirectory)
  BY DEF DirectoryTypeOK, EmptyDirectory
<1>3. TypeOK
  BY <1>1, <1>2, NodeAssumption, CaptureAssumption
     DEF Init, NodeInit, TypeOK, NodeTypeOK, Outcomes
<1>4. CompleteNames /\ RecordedIsPresent /\ StoredRecordsUsable
  BY RecordPathsArePaths, SentinelAssumption
     DEF Init, CompleteNames, RecordedIsPresent, StoredRecordsUsable, EmptyDirectory, NothingListed
<1>5. MemoryInv /\ CursorInv /\ OpeningInv /\ WriteInv
  BY DEF Init, MemoryInv, CursorInv, OpeningInv, WriteInv, Closing, Seals, HeightWrites,
         WriteSteps, FixedKinds, MetaKinds
<1> QED BY <1>3, <1>4, <1>5 DEF IInv

\* The inductive invariant holds in every behaviour of the capture.
THEOREM Invariance == Spec => []IInv
BY InitHolds, StepKeeps, PTL DEF Spec

\* Every variable keeps its type; each file holds what belongs under its path.
THEOREM TypeCorrect == Spec => []TypeOK
BY Invariance, PTL DEF IInv

\* No interruption of write_atomically leaves a torn file under a final name.
THEOREM NamesAreComplete == Spec => []CompleteNames
BY Invariance, PTL DEF IInv

\* What a session has recorded for the manifest is on disk.
THEOREM RecordsArePresent == Spec => []RecordedIsPresent
BY Invariance, PTL DEF IInv

\* Every stored pool record has the balances the verification needs.
THEOREM RecordsAreUsable == Spec => []StoredRecordsUsable
BY Invariance, PTL DEF IInv

-----------------------------------------------------------------------------
(***************************************************************************)
(* Proof that a capture that succeeds leaves a sealed bundle: every file   *)
(* of the interval asked for is there, listed, unaltered and pinned, after *)
(* any number of interrupted sessions; and, where no directory is          *)
(* overwritten, nothing else is there and resuming keeps what it finds.    *)
(***************************************************************************)
\* The files of fixed name a session has recorded, by the step it is at.
FixedDone ==
  CASE pc = "chainStart" -> {"nodeInfo"}
    [] pc \in {"getAnchor", "anchorBlock"} -> {"nodeInfo", "chainStart"}
    [] pc = "anchorPools" -> {"nodeInfo", "chainStart", "anchorBlock"}
    [] pc \in {"getBlock", "getObject", "block", "pools", "recheck", "chainEnd"} ->
         {"nodeInfo", "chainStart", "anchorBlock", "anchorPools"}
    [] pc = "environment" -> FixedKinds \ {"environment", "command", "toolVersion"}
    [] pc = "command" -> FixedKinds \ {"command", "toolVersion"}
    [] pc = "toolVersion" -> FixedKinds \ {"toolVersion"}
    [] pc \in Seals -> FixedKinds
    [] OTHER -> {}

\* The heights both of whose files it has recorded.
HeightsDone ==
  IF pc \in {"getBlock", "getObject", "block", "pools"} THEN req.interval.start .. cursor - 1
  ELSE IF pc \in Closing THEN req.interval.start .. req.interval.end
  ELSE {}

InDone(p) ==
  \/ \E k \in FixedDone : p = File(k)
  \/ \E h \in HeightsDone : p = BlockFile(h) \/ p = PoolsFile(h)
  \/ pc = "pools" /\ p = BlockFile(cursor)

\* The record holds the files written or adopted so far, and no others.
ListedInv == \A p \in Evidence : recorded[p] # Absent <=> InDone(p)

\* The walk starts at the start height.
StartInv ==
  pc \in {"preflight", "probe", "open", "clear", "nodeInfo", "chainStart", "getAnchor",
         "anchorBlock", "anchorPools"} => cursor = req.interval.start

\* The digest is written when the manifest it pins is on disk.
PinnedInv == pc = "manifestHash" => disk[File("manifest")] = BuiltManifest

OutcomeInv == outcome = "ok" => pc = "idle"

SInv == IInv /\ ListedInv /\ StartInv /\ PinnedInv /\ OutcomeInv /\ SuccessIsSealed

-----------------------------------------------------------------------------
LEMMA RequestFacts ==
  ASSUME TypeOK
  PROVE  /\ req.interval \in Intervals
         /\ req.interval.start \in Nat \ {0} /\ req.interval.end \in Nat
         /\ req.interval.start <= req.interval.end
         /\ cursor \in Nat
         /\ \A h \in req.interval.start .. req.interval.end : h \in Heights
BY IntervalAssumption, ChainAssumption DEF TypeOK, Heights

LEMMA EmptyRange == ASSUME NEW n \in Nat PROVE n .. n - 1 = {}
OBVIOUS

\* With the manifest built, the record is the list the interval calls for.
LEMMA ListIsRequired ==
  ASSUME TypeOK, ListedInv, pc \in Seals
  PROVE  Listed(BuiltManifest) = Required(req.interval)
<1>1. FixedDone = FixedKinds /\ HeightsDone = req.interval.start .. req.interval.end
  BY DEF FixedDone, HeightsDone, Closing, Seals
<1>2. \A p : InDone(p) <=> p \in Required(req.interval)
  BY <1>1 DEF InDone, Required, Seals
<1>3. Required(req.interval) \subseteq Evidence
  BY RequestFacts DEF Required, Evidence
<1>4. Listed(BuiltManifest) = {p \in Evidence : recorded[p] # Absent}
  BY DEF Listed, BuiltManifest
<1> QED BY <1>2, <1>3, <1>4 DEF ListedInv

\* Writing the digest seals the bundle.
LEMMA DigestSeals ==
  ASSUME SInv, PublishDigest
  PROVE  SuccessIsSealed'
<1>1. pc = "manifestHash" /\ pc \in WriteSteps /\ Target = File("manifestHash") /\ Body = BuiltManifest
  BY DEF PublishDigest, WriteSteps, Seals, Target, Body
<1>2. disk' = [disk EXCEPT ![File("manifestHash")] = BuiltManifest] /\ DOMAIN disk = Paths
  BY <1>1, RenamePublishes DEF SInv, IInv, TypeOK, DirectoryTypeOK, PublishDigest
<1>3. /\ File("manifest") \in Paths /\ File("manifestHash") \in Paths
      /\ File("manifest") # File("manifestHash")
      /\ \A p \in Evidence : p \in Paths /\ p # File("manifestHash")
  BY DEF Paths, Evidence, Seals, File, BlockFile, PoolsFile, FixedKinds, MetaKinds
<1>4. ManifestOf(disk') = BuiltManifest /\ disk'[File("manifestHash")] = BuiltManifest
  BY <1>1, <1>2, <1>3 DEF ManifestOf, SInv, PinnedInv
<1>5. BuiltManifest \in Manifest
  BY <1>1, ManifestIsManifest DEF SInv, IInv, Seals
<1>6. HasManifest(disk')
  BY <1>4, <1>5, SentinelAssumption DEF HasManifest, ManifestOf, Content
<1>7. Listed(BuiltManifest) = Required(req.interval)
  BY <1>1, ListIsRequired DEF SInv, IInv, Seals
<1>8. \A p \in Listed(BuiltManifest) : disk'[p] = recorded[p]
  BY <1>2, <1>3 DEF Listed, BuiltManifest, SInv, IInv, RecordedIsPresent
<1>9. IsValid(disk')
  BY <1>4, <1>8 DEF IsValid, DigestMismatch, Damaged, BuiltManifest
<1>10. ManifestOf(disk').interval = req.interval /\ req' = req
  BY <1>4 DEF BuiltManifest, PublishDigest, Stop
<1> QED BY <1>4, <1>6, <1>7, <1>9, <1>10 DEF SuccessIsSealed, Sealed

-----------------------------------------------------------------------------
\* The record follows the step.

LEMMA StopLists ==
  ASSUME NEW how, Stop(how)
  PROVE  ListedInv' /\ StartInv' /\ PinnedInv'
<1>1. \A p : ~ InDone(p)'
  BY DEF Stop, InDone, FixedDone, HeightsDone, Closing, Seals
<1> QED BY <1>1 DEF Stop, ListedInv, StartInv, PinnedInv, NothingListed

\* A written file joins the record.
LEMMA WriteRecords ==
  ASSUME IInv, pc \in FixedKinds \cup HeightWrites,
         recorded' = [recorded EXCEPT ![Target] = Body]
  PROVE  \A p \in Evidence : recorded'[p] # Absent <=> recorded[p] # Absent \/ p = Target
<1>1. pc \in WriteSteps
  BY DEF WriteSteps
<1>2. Body # Absent
  BY <1>1, TargetIsPath, BodyFits, ContentIsReal DEF IInv
<1> QED BY <1>2 DEF IInv, TypeOK, Listing

LEMMA PublishFileLists ==
  ASSUME IInv, ListedInv, StartInv, PublishFile
  PROVE  ListedInv'
<1>1. /\ pc \in FixedKinds \cup HeightWrites /\ pc \in FixedKinds \cup {"block"}
      /\ recorded' = [recorded EXCEPT ![Target] = Body]
      /\ pc' = Following(pc) /\ UNCHANGED <<req, cursor>>
  BY DEF PublishFile, HeightWrites
<1>2. \A p : InDone(p)' <=> InDone(p) \/ p = Target
  <2>1. CASE pc = "block"
    <3>1. pc' = "pools" /\ Target = BlockFile(cursor) /\ Target' = PoolsFile(cursor)
      BY <1>1, <2>1 DEF Following, Target
    <3>2. HeightsDone' = HeightsDone /\ FixedDone' = FixedDone
      <4>1. HeightsDone' = HeightsDone
        BY <1>1, <2>1, <3>1 DEF HeightsDone
      <4>2. FixedDone' = FixedDone
        BY <2>1, <3>1 DEF FixedDone, Seals
      <4> QED BY <4>1, <4>2
    <3> QED BY <1>1, <2>1, <3>1, <3>2 DEF InDone
  <2>2. CASE pc \in FixedKinds
    <3>1. HeightsDone' = HeightsDone
      <4>1. CASE pc = "anchorPools"
        <5>1. pc' = "getBlock" /\ cursor = req.interval.start
          BY <1>1, <4>1 DEF Following, StartInv
        <5>2. HeightsDone = {} /\ HeightsDone' = cursor .. cursor - 1
          BY <1>1, <4>1, <5>1 DEF HeightsDone, Closing, Seals
        <5>3. cursor .. cursor - 1 = {}
          BY EmptyRange, RequestFacts DEF IInv
        <5> QED BY <5>2, <5>3
      <4>2. CASE pc # "anchorPools"
        BY <1>1, <2>2, <4>2 DEF Following, HeightsDone, Closing, Seals, FixedKinds, MetaKinds
      <4> QED BY <4>1, <4>2
    <3>2. FixedDone' = FixedDone \cup {pc}
      BY <1>1, <2>2 DEF Following, FixedDone, FixedKinds, MetaKinds, Seals
    <3>3. Target = File(pc) /\ pc # "pools" /\ pc' # "pools"
      BY <1>1, <2>2 DEF Target, Following, FixedKinds, MetaKinds
    <3> QED BY <1>1, <3>1, <3>2, <3>3 DEF InDone
  <2> QED BY <1>1, <2>1, <2>2
<1> QED BY <1>1, <1>2, WriteRecords DEF ListedInv

\* Moving on from a height adds it to the heights done.
LEMMA HeightCounts ==
  ASSUME IInv, pc \in {"getBlock", "pools"}, NextHeight, UNCHANGED req
  PROVE  /\ HeightsDone' = HeightsDone \cup {cursor}
         /\ FixedDone' = FixedDone
         /\ pc' \in {"getBlock", "recheck"}
<1>1. /\ req.interval.start \in Nat /\ req.interval.end \in Nat /\ cursor \in Nat
      /\ req.interval.start <= cursor /\ cursor <= req.interval.end
  BY RequestFacts DEF IInv, CursorInv, InInterval
<1>2. HeightsDone = req.interval.start .. cursor - 1
  BY DEF HeightsDone
<1>3. CASE cursor < req.interval.end
  <2>1. pc' = "getBlock" /\ cursor' = cursor + 1
    BY <1>3 DEF NextHeight
  <2>2. HeightsDone' = req.interval.start .. (cursor + 1) - 1
    BY <2>1 DEF HeightsDone
  <2>3. FixedDone' = FixedDone
    BY <2>1 DEF FixedDone, Seals
  <2> QED BY <1>1, <1>2, <2>1, <2>2, <2>3
<1>4. CASE ~ (cursor < req.interval.end)
  <2>1. pc' = "recheck" /\ cursor = req.interval.end
    BY <1>1, <1>4 DEF NextHeight
  <2>2. HeightsDone' = req.interval.start .. cursor
    BY <2>1 DEF HeightsDone, Closing
  <2>3. FixedDone' = FixedDone
    BY <2>1 DEF FixedDone, Seals
  <2> QED BY <1>1, <1>2, <2>1, <2>2, <2>3
<1> QED BY <1>3, <1>4

LEMMA PublishPoolsLists ==
  ASSUME IInv, ListedInv, PublishPools
  PROVE  ListedInv'
<1>1. /\ pc = "pools" /\ pc \in FixedKinds \cup HeightWrites /\ Target = PoolsFile(cursor)
      /\ recorded' = [recorded EXCEPT ![Target] = Body]
      /\ NextHeight /\ UNCHANGED req
  BY DEF PublishPools, HeightWrites, Target
<1>2. \A p : InDone(p)' <=> InDone(p) \/ p = Target
  BY <1>1, HeightCounts DEF InDone
<1> QED BY <1>1, <1>2, WriteRecords DEF ListedInv

LEMMA AdoptHeightLists ==
  ASSUME IInv, ListedInv, AdoptHeight
  PROVE  ListedInv'
<1>1. /\ pc = "getBlock" /\ HeightPresent(cursor) /\ NextHeight /\ UNCHANGED req
      /\ recorded' = [recorded EXCEPT ![BlockFile(cursor)] = disk[BlockFile(cursor)],
                                      ![PoolsFile(cursor)] = disk[PoolsFile(cursor)]]
  BY DEF AdoptHeight
<1>2. \A p : InDone(p)' <=> InDone(p) \/ p = BlockFile(cursor) \/ p = PoolsFile(cursor)
  BY <1>1, HeightCounts DEF InDone
<1>3. \A p \in Evidence : recorded'[p] # Absent <=>
                            recorded[p] # Absent \/ p = BlockFile(cursor) \/ p = PoolsFile(cursor)
  <2>1. cursor \in Heights /\ DOMAIN recorded = Evidence
    BY DEF IInv, TypeOK, Listing
  <2> QED BY <1>1, <2>1, HeightPaths DEF HeightPresent
<1> QED BY <1>2, <1>3 DEF ListedInv

LEMMA AdoptAnchorLists ==
  ASSUME IInv, ListedInv, AdoptAnchor
  PROVE  ListedInv'
<1>1. /\ pc = "getAnchor" /\ pc' = "anchorPools" /\ UNCHANGED <<req, cursor>>
      /\ disk[File("anchorBlock")] # Absent
      /\ recorded' = [recorded EXCEPT ![File("anchorBlock")] = disk[File("anchorBlock")]]
  BY DEF AdoptAnchor
<1>2. FixedDone' = FixedDone \cup {"anchorBlock"} /\ HeightsDone' = HeightsDone
  BY <1>1 DEF FixedDone, HeightsDone, Closing, Seals
<1>3. \A p : InDone(p)' <=> InDone(p) \/ p = File("anchorBlock")
  BY <1>1, <1>2 DEF InDone
<1>4. \A p \in Evidence : recorded'[p] # Absent <=> recorded[p] # Absent \/ p = File("anchorBlock")
  BY <1>1 DEF IInv, TypeOK, Listing
<1> QED BY <1>3, <1>4 DEF ListedInv

\* Steps of the same stage of the record.
LEMMA SameStage ==
  ASSUME ListedInv, UNCHANGED <<recorded, req, cursor>>,
         FixedDone' = FixedDone, HeightsDone' = HeightsDone, pc # "pools", pc' # "pools"
  PROVE  ListedInv'
BY DEF ListedInv, InDone

\* Every step of a session that goes on keeps the record in step.
LEMMA SessionLists ==
  ASSUME IInv, ListedInv, StartInv, Session, pc' # "idle"
  PROVE  ListedInv' /\ StartInv'
<1>1. CASE PublishFile
  BY <1>1, PublishFileLists
     DEF PublishFile, Following, StartInv, FixedKinds, MetaKinds
<1>2. CASE PublishPools
  BY <1>2, PublishPoolsLists DEF PublishPools, NextHeight, StartInv
<1>3. CASE AdoptHeight
  BY <1>3, AdoptHeightLists DEF AdoptHeight, NextHeight, StartInv
<1>4. CASE AdoptAnchor
  BY <1>4, AdoptAnchorLists DEF AdoptAnchor, StartInv
<1>5. CASE \/ \E p \in Paths : ClearOne(p)
           \/ CreatePartial \/ FillAndSync
  <2>1. UNCHANGED <<pc, recorded, req, cursor>>
    BY <1>5 DEF ClearOne, CreatePartial, FillAndSync
  <2> QED BY <2>1 DEF ListedInv, StartInv, InDone, FixedDone, HeightsDone
<1>6. CASE PublishManifest
  <2>1. pc = "manifest" /\ pc' = "manifestHash" /\ UNCHANGED <<recorded, req, cursor>>
    BY <1>6 DEF PublishManifest
  <2>2. FixedDone' = FixedDone /\ HeightsDone' = HeightsDone
    BY <2>1 DEF FixedDone, HeightsDone, Closing, Seals
  <2> QED BY <2>1, <2>2, SameStage DEF StartInv
<1>7. CASE Preflight \/ Probe \/ Open \/ Cleared
  <2>1. /\ pc \in {"preflight", "probe", "open", "clear"}
        /\ pc' \in {"probe", "open", "clear", "nodeInfo"}
        /\ UNCHANGED <<recorded, req, cursor>>
    BY <1>7, CaptureAssumption
       DEF Preflight, Probe, Open, Opened, Cleared, Continue, Stop, IInv, TypeOK, OutputModes
  <2>2. FixedDone' = FixedDone /\ HeightsDone' = HeightsDone
    BY <2>1 DEF FixedDone, HeightsDone, Closing, Seals
  <2> QED BY <2>1, <2>2, SameStage DEF StartInv
<1>8. CASE FetchAnchor \/ FetchBlock \/ FetchObject \/ Recheck
  <2>1. /\ \/ pc = "getAnchor" /\ pc' = "anchorBlock"
           \/ pc = "getBlock" /\ pc' = "getObject"
           \/ pc = "getObject" /\ pc' = "block"
           \/ pc = "recheck" /\ pc' = "chainEnd"
        /\ UNCHANGED <<recorded, req, cursor>>
    BY <1>8 DEF FetchAnchor, FetchBlock, FetchObject, Recheck, Continue, Stop
  <2>2. FixedDone' = FixedDone /\ HeightsDone' = HeightsDone
    BY <2>1 DEF FixedDone, HeightsDone, Closing, Seals
  <2> QED BY <2>1, <2>2, SameStage DEF StartInv
<1>9. CASE PublishDigest
  BY <1>9 DEF PublishDigest, Stop
<1> QED BY <1>1, <1>2, <1>3, <1>4, <1>5, <1>6, <1>7, <1>8, <1>9 DEF Session

LEMMA SessionPins ==
  ASSUME IInv, PinnedInv, Session, pc' # "idle"
  PROVE  PinnedInv'
<1>1. CASE PublishManifest
  <2>1. pc \in WriteSteps /\ Target = File("manifest") /\ Body = BuiltManifest
    BY <1>1 DEF PublishManifest, WriteSteps, Seals, Target, Body
  <2>2. disk' = [disk EXCEPT ![File("manifest")] = BuiltManifest]
    BY <1>1, <2>1, RenamePublishes DEF PublishManifest
  <2>3. File("manifest") \in DOMAIN disk
    BY DEF IInv, TypeOK, DirectoryTypeOK, Paths, Seals
  <2>4. BuiltManifest' = BuiltManifest
    BY <1>1 DEF PublishManifest, BuiltManifest
  <2> QED BY <2>2, <2>3, <2>4 DEF PinnedInv
<1>2. CASE CreatePartial \/ FillAndSync
  BY <1>2 DEF CreatePartial, FillAndSync, PinnedInv, BuiltManifest
<1>3. CASE ~ (PublishManifest \/ CreatePartial \/ FillAndSync)
  <2>1. pc' # "manifestHash"
    BY <1>3, CaptureAssumption
       DEF Session, Preflight, Probe, Open, Opened, ClearOne, Cleared, PublishFile, Following,
           PublishPools, NextHeight, PublishDigest, AdoptAnchor, FetchAnchor, AdoptHeight,
           FetchBlock, FetchObject, Recheck, Continue, Stop, FixedKinds, MetaKinds, IInv, TypeOK,
           OutputModes
  <2> QED BY <2>1 DEF PinnedInv
<1> QED BY <1>1, <1>2, <1>3

LEMMA SealedKeeps ==
  ASSUME SInv, [Next]_vars
  PROVE  (ListedInv /\ StartInv /\ PinnedInv /\ OutcomeInv /\ SuccessIsSealed)'
<1>0. IInv /\ ListedInv /\ StartInv /\ PinnedInv /\ OutcomeInv /\ SuccessIsSealed
  BY DEF SInv
<1>1. CASE Operator
  <2>1. PICK m \in Modes, i \in Intervals : Start(m, i)
    BY <1>1 DEF Operator
  <2>2. \A p : ~ InDone(p)'
    BY <2>1 DEF Start, InDone, FixedDone, HeightsDone, Closing, Seals
  <2>3. recorded' = NothingListed
    BY <1>0, <2>1 DEF Start, IInv, OpeningInv
  <2> QED BY <2>1, <2>2, <2>3
          DEF Start, ListedInv, NothingListed, StartInv, PinnedInv, OutcomeInv, SuccessIsSealed,
              Finished
<1>2. CASE Interrupt
  BY <1>2, StopLists DEF Interrupt, Stop, OutcomeInv, SuccessIsSealed, Finished
<1>3. CASE NodeStep \/ UNCHANGED vars
  <2>1. UNCHANGED <<disk, sessionVars>>
    BY <1>3 DEF NodeStep, vars, dirVars
  <2> QED BY <1>0, <2>1
          DEF sessionVars, ListedInv, StartInv, InDone, FixedDone, HeightsDone, PinnedInv, BuiltManifest,
              OutcomeInv, SuccessIsSealed, Finished, Sealed, HasManifest, ManifestOf, IsValid,
              DigestMismatch, Damaged, Listed
<1>4. CASE Session
  <2>1. CASE PublishDigest
    BY <2>1, DigestSeals, StopLists DEF PublishDigest, Stop, OutcomeInv
  <2>2. CASE ~ PublishDigest /\ pc' = "idle"
    <3>1. Stop("refused")
      BY <1>4, <2>2, CaptureAssumption
         DEF Session, Preflight, Probe, Open, Opened, ClearOne, Cleared, CreatePartial,
             FillAndSync, PublishFile, Following, PublishPools, NextHeight, PublishManifest,
             AdoptAnchor, FetchAnchor, AdoptHeight, FetchBlock, FetchObject, Recheck, Continue,
             WriteSteps, FixedKinds, MetaKinds, HeightWrites, Seals, IInv, TypeOK, OutputModes, SInv
    <3> QED BY <3>1, StopLists DEF Stop, OutcomeInv, SuccessIsSealed, Finished
  <2>3. CASE ~ PublishDigest /\ pc' # "idle"
    <3>1. outcome' = outcome /\ pc # "idle"
      BY <1>4, <2>3
         DEF Session, Preflight, Probe, Open, ClearOne, Cleared, CreatePartial, FillAndSync,
             PublishFile, PublishPools, PublishManifest, AdoptAnchor, FetchAnchor, AdoptHeight,
             FetchBlock, FetchObject, Recheck, Continue, Stop, WriteSteps, FixedKinds, MetaKinds,
             HeightWrites, Seals
    <3>2. outcome' # "ok"
      BY <1>0, <3>1 DEF OutcomeInv
    <3> QED BY <1>0, <1>4, <2>3, <3>2, SessionLists, SessionPins
            DEF OutcomeInv, SuccessIsSealed, Finished
  <2> QED BY <2>1, <2>2, <2>3
<1> QED BY <1>1, <1>2, <1>3, <1>4 DEF Next

LEMMA SealedAlways == Spec => []SInv
<1>1. Init => ListedInv /\ StartInv /\ PinnedInv /\ OutcomeInv /\ SuccessIsSealed
  <2> SUFFICES ASSUME Init PROVE ListedInv /\ StartInv /\ PinnedInv /\ OutcomeInv /\ SuccessIsSealed
    OBVIOUS
  <2>1. pc = "idle" /\ outcome = "none" /\ recorded = NothingListed
    BY DEF Init
  <2>2. \A p : ~ InDone(p)
    BY <2>1 DEF InDone, FixedDone, HeightsDone, Closing, Seals
  <2> QED BY <2>1, <2>2
          DEF ListedInv, NothingListed, StartInv, PinnedInv, OutcomeInv, SuccessIsSealed, Finished
<1>2. IInv /\ ListedInv /\ StartInv /\ PinnedInv /\ OutcomeInv /\ SuccessIsSealed /\ [Next]_vars
        => (ListedInv /\ StartInv /\ PinnedInv /\ OutcomeInv /\ SuccessIsSealed)'
  BY SealedKeeps DEF SInv
<1> QED BY <1>1, <1>2, Invariance, PTL DEF Spec, SInv

\* A session that succeeds leaves exactly the files of the interval asked for,
\* listed, unaltered and pinned, whatever it adopted from interrupted ones.
THEOREM SuccessSeals == Spec => []SuccessIsSealed
<1>1. SInv => SuccessIsSealed
  BY DEF SInv
<1> QED BY <1>1, SealedAlways, PTL

-----------------------------------------------------------------------------
(***************************************************************************)
(* Directories that are created and resumed, and never overwritten.        *)
(***************************************************************************)

NeverOverwritten == "overwrite" \notin Modes

\* A height's record is written after its block, and neither it nor the anchor
\* block is written again once it is there.
OrderInv ==
  /\ pc # "clear"
  /\ \A h \in Heights : disk[PoolsFile(h)] # Absent => disk[BlockFile(h)] # Absent
  /\ pc \in {"getObject", "block", "pools"} => disk[PoolsFile(cursor)] = Absent
  /\ pc = "pools" => disk[BlockFile(cursor)] # Absent
  /\ pc = "anchorBlock" => disk[File("anchorBlock")] = Absent

\* An interrupted write leaves its partial file only beside what a resumed
\* session will write again.
LeftoverInv ==
  /\ \A h \in Heights :
       partial[BlockFile(h)] # Absent \/ partial[PoolsFile(h)] # Absent
         => disk[PoolsFile(h)] = Absent
  /\ partial[File("anchorBlock")] # Absent => disk[File("anchorBlock")] = Absent

\* What this session has recorded has no partial file left.
TidyInv ==
  /\ \A p \in Evidence : recorded[p] # Absent => partial[p] = Absent
  /\ pc = "manifestHash" => partial[File("manifest")] = Absent

\* Once the directory is open it holds no height outside the interval.
HeldInv ==
  pc \notin {"idle", "preflight", "probe", "open"} =>
    \A h \in Heights :
      ~ InInterval(h, req.interval) =>
        /\ disk[BlockFile(h)] = Absent /\ disk[PoolsFile(h)] = Absent
        /\ partial[BlockFile(h)] = Absent /\ partial[PoolsFile(h)] = Absent

KInv == OrderInv /\ LeftoverInv /\ TidyInv /\ HeldInv /\ SuccessIsClean

\* Which file a writing step is at.
LEMMA TargetCases ==
  ASSUME pc \in WriteSteps
  PROVE  /\ \A h : Target = BlockFile(h) <=> pc = "block" /\ h = cursor
         /\ \A h : Target = PoolsFile(h) <=> pc = "pools" /\ h = cursor
         /\ \A k \in FixedKinds \cup Seals : Target = File(k) <=> pc = k
         /\ pc \in Seals => Target \notin Evidence
         /\ pc \in FixedKinds \cup HeightWrites <=> pc \notin Seals
BY DEF Target, WriteSteps, HeightWrites, FixedKinds, MetaKinds, Seals, Evidence,
       File, BlockFile, PoolsFile

\* The file being written has not been recorded by this session.
LEMMA TargetUnrecorded ==
  ASSUME IInv, ListedInv, pc \in FixedKinds \cup HeightWrites
  PROVE  Target \in Evidence /\ recorded[Target] = Absent
<1>1. Target \in Evidence
  BY DEF IInv, TypeOK, Target, Evidence, HeightWrites, FixedKinds, MetaKinds
<1>2. ~ InDone(Target)
  <2>1. CASE pc \in FixedKinds
    <3>1. pc \notin FixedDone /\ pc # "pools"
      BY <2>1 DEF FixedDone, FixedKinds, MetaKinds, Seals
    <3> QED BY <2>1, <3>1 DEF InDone, Target, HeightWrites, FixedKinds, MetaKinds,
                              File, BlockFile, PoolsFile
  <2>2. CASE pc \in HeightWrites
    <3>1. cursor \notin HeightsDone /\ FixedDone \subseteq FixedKinds
      BY <2>2, RequestFacts DEF IInv, HeightsDone, FixedDone, HeightWrites, FixedKinds, MetaKinds, Seals
    <3> QED BY <2>2, <3>1 DEF InDone, Target, HeightWrites, FixedKinds, MetaKinds,
                              File, BlockFile, PoolsFile
  <2> QED BY <2>1, <2>2
<1> QED BY <1>1, <1>2 DEF ListedInv

\* A session that is running has not ended well yet.
LEMMA RunningIsClean ==
  ASSUME OutcomeInv, pc # "idle", outcome' = outcome
  PROVE  SuccessIsClean'
BY DEF OutcomeInv, SuccessIsClean, Finished

LEMMA PartialKeeps ==
  ASSUME SInv, KInv, CreatePartial \/ FillAndSync
  PROVE  KInv'
<1>0. IInv /\ ListedInv /\ OutcomeInv /\ OrderInv /\ LeftoverInv /\ TidyInv /\ HeldInv
  BY DEF SInv, KInv
<1>1. pc \in WriteSteps /\ UNCHANGED <<disk, pc, req, cursor, recorded, outcome>>
  BY DEF CreatePartial, FillAndSync
<1>2. \A p \in Paths : p # Target => partial'[p] = partial[p]
  BY <1>0 DEF CreatePartial, FillAndSync, IInv, TypeOK, DirectoryTypeOK
<1>3. OrderInv'
  BY <1>0, <1>1 DEF OrderInv
<1>4. File("anchorBlock") \in Paths /\ File("manifest") \in Paths
      /\ "anchorBlock" \in FixedKinds /\ "manifest" \in Seals
  BY DEF Paths, Evidence, FixedKinds, Seals
<1>5. LeftoverInv'
  <2>1. \A h \in Heights :
          partial'[BlockFile(h)] # Absent \/ partial'[PoolsFile(h)] # Absent
            => disk[PoolsFile(h)] = Absent
    BY <1>0, <1>1, <1>2, HeightPaths, TargetCases DEF LeftoverInv, OrderInv
  <2>2. partial'[File("anchorBlock")] # Absent => disk[File("anchorBlock")] = Absent
    BY <1>0, <1>1, <1>2, <1>4, TargetCases DEF LeftoverInv, OrderInv
  <2> QED BY <1>1, <2>1, <2>2 DEF LeftoverInv
<1>6. TidyInv'
  <2>1. \A p \in Evidence : recorded[p] # Absent => p # Target /\ p \in Paths
    BY <1>0, <1>1, TargetCases, TargetUnrecorded DEF Paths
  <2>2. pc = "manifestHash" => Target # File("manifest")
    BY <1>1, <1>4, TargetCases
  <2> QED BY <1>0, <1>1, <1>2, <1>4, <2>1, <2>2 DEF TidyInv
<1>7. HeldInv'
  <2>1. \A h \in Heights : ~ InInterval(h, req.interval) => Target # BlockFile(h) /\ Target # PoolsFile(h)
    BY <1>0, <1>1, TargetCases DEF IInv, CursorInv, WriteSteps, FixedKinds, MetaKinds, Seals, HeightWrites
  <2> QED BY <1>0, <1>1, <1>2, <2>1, HeightPaths DEF HeldInv
<1>8. SuccessIsClean'
  BY <1>0, <1>1, RunningIsClean DEF WriteSteps, FixedKinds, MetaKinds, Seals, HeightWrites
<1> QED BY <1>3, <1>5, <1>6, <1>7, <1>8 DEF KInv

\* What a rename does to the two directories.
LEMMA RenameMoves ==
  ASSUME IInv, pc \in WriteSteps, Rename(Target)
  PROVE  /\ Target \in Paths
         /\ disk'[Target] = Body /\ Body # Absent /\ partial'[Target] = Absent
         /\ \A p \in Paths : p # Target => disk'[p] = disk[p] /\ partial'[p] = partial[p]
<1>1. Target \in Paths /\ Body \in ContentOf(Target)
  BY TargetIsPath, BodyFits DEF IInv
<1>2. Body # Absent
  BY <1>1, ContentIsReal
<1> QED BY <1>1, <1>2, RenamePublishes DEF Rename, IInv, TypeOK, DirectoryTypeOK

LEMMA PublishKeeps ==
  ASSUME SInv, KInv, PublishFile \/ PublishPools \/ PublishManifest
  PROVE  KInv'
<1>0. IInv /\ ListedInv /\ OutcomeInv /\ OrderInv /\ LeftoverInv /\ TidyInv /\ HeldInv
  BY DEF SInv, KInv
<1>1. pc \in WriteSteps /\ Rename(Target) /\ UNCHANGED <<req, outcome>>
  BY DEF PublishFile, PublishPools, PublishManifest, WriteSteps, HeightWrites, Seals
<1>2. /\ disk'[Target] = Body /\ Body # Absent /\ partial'[Target] = Absent
      /\ \A p \in Paths : p # Target => disk'[p] = disk[p] /\ partial'[p] = partial[p]
  BY <1>0, <1>1, RenameMoves
<1>3. /\ pc' \notin {"idle", "clear", "getObject", "block", "anchorBlock"}
      /\ pc' = "pools" => pc = "block" /\ cursor' = cursor
      /\ pc' = "manifestHash" => pc = "manifest"
  BY DEF PublishFile, PublishPools, PublishManifest, Following, NextHeight, FixedKinds, MetaKinds
<1>4. /\ File("anchorBlock") \in Paths /\ File("manifest") \in Paths /\ Evidence \subseteq Paths
      /\ "anchorBlock" \in FixedKinds /\ "manifest" \in Seals
  BY DEF Paths, Evidence, FixedKinds, Seals
<1>5. cursor \in Heights /\ InInterval(cursor, req.interval)
  BY <1>0, <1>1 DEF IInv, TypeOK, CursorInv, WriteSteps, FixedKinds, MetaKinds, Seals, HeightWrites
<1>6. OrderInv'
  <2>1. \A h \in Heights : disk'[PoolsFile(h)] # Absent => disk'[BlockFile(h)] # Absent
    BY <1>0, <1>1, <1>2, HeightPaths, TargetCases DEF OrderInv
  <2>2. pc' = "pools" => disk'[PoolsFile(cursor')] = Absent /\ disk'[BlockFile(cursor')] # Absent
    BY <1>0, <1>1, <1>2, <1>3, <1>5, HeightPaths, TargetCases DEF OrderInv
  <2> QED BY <1>3, <2>1, <2>2 DEF OrderInv
<1>7. LeftoverInv'
  <2>1. ASSUME NEW h \in Heights, partial'[BlockFile(h)] # Absent \/ partial'[PoolsFile(h)] # Absent
        PROVE  disk'[PoolsFile(h)] = Absent
    <3>1. disk[PoolsFile(h)] = Absent
      BY <1>0, <1>2, <2>1, HeightPaths DEF LeftoverInv
    <3>2. CASE Target = PoolsFile(h)
      <4>1. pc = "pools" /\ h = cursor
        BY <1>1, <3>2, TargetCases
      <4>2. recorded[BlockFile(h)] # Absent
        BY <1>0, <4>1, HeightPaths DEF ListedInv, InDone
      <4>3. partial[BlockFile(h)] = Absent
        BY <1>0, <4>2, HeightPaths DEF TidyInv
      <4> QED BY <1>2, <2>1, <3>2, <4>3, HeightPaths
    <3> QED BY <1>2, <3>1, <3>2, HeightPaths
  <2>2. partial'[File("anchorBlock")] # Absent => disk'[File("anchorBlock")] = Absent
    BY <1>0, <1>2, <1>4 DEF LeftoverInv
  <2> QED BY <2>1, <2>2 DEF LeftoverInv
<1>8. TidyInv'
  <2>1. \A p \in Evidence : recorded'[p] # Absent => recorded[p] # Absent \/ p = Target
    BY <1>0 DEF PublishFile, PublishPools, PublishManifest, IInv, TypeOK, Listing
  <2>2. pc = "manifest" => Target = File("manifest")
    BY <1>1, <1>4, TargetCases
  <2> QED BY <1>0, <1>2, <1>3, <1>4, <2>1, <2>2 DEF TidyInv
<1>9. HeldInv'
  <2>1. \A h \in Heights : ~ InInterval(h, req.interval) => Target # BlockFile(h) /\ Target # PoolsFile(h)
    BY <1>1, <1>5, TargetCases
  <2>2. pc \notin {"idle", "preflight", "probe", "open"}
    BY <1>1 DEF WriteSteps, FixedKinds, MetaKinds, Seals, HeightWrites
  <2> QED BY <1>0, <1>1, <1>2, <2>1, <2>2, HeightPaths DEF HeldInv
<1>10. SuccessIsClean'
  BY <1>0, <1>1, RunningIsClean DEF WriteSteps, FixedKinds, MetaKinds, Seals, HeightWrites
<1> QED BY <1>6, <1>7, <1>8, <1>9, <1>10 DEF KInv

\* Evidence that the interval does not call for belongs to another height.
LEMMA OtherHeights ==
  ASSUME TypeOK, NEW p \in Evidence \ Required(req.interval)
  PROVE  \E h \in Heights : ~ InInterval(h, req.interval) /\ p \in {BlockFile(h), PoolsFile(h)}
<1>1. PICK h \in Heights : p \in {BlockFile(h), PoolsFile(h)}
  BY DEF Evidence, Required
<1>2. h \notin req.interval.start .. req.interval.end
  BY <1>1 DEF Required
<1>3. ~ InInterval(h, req.interval)
  BY <1>2, RequestFacts, ChainAssumption DEF InInterval, Heights
<1> QED BY <1>1, <1>3

\* The end of a session that leaves the directory alone.
LEMMA StopOrders ==
  ASSUME OrderInv, LeftoverInv, NEW how, Stop(how), UNCHANGED dirVars
  PROVE  OrderInv' /\ LeftoverInv' /\ TidyInv' /\ HeldInv'
BY DEF Stop, OrderInv, LeftoverInv, TidyInv, HeldInv, NothingListed, dirVars

\* The last rename leaves no file but those listed.
LEMMA DigestKeeps ==
  ASSUME SInv, KInv, PublishDigest
  PROVE  KInv'
<1>0. IInv /\ ListedInv /\ OrderInv /\ LeftoverInv /\ TidyInv /\ HeldInv
  BY DEF SInv, KInv
<1>1. /\ pc = "manifestHash" /\ pc \in WriteSteps /\ pc \in Seals
      /\ Rename(Target) /\ Stop("ok") /\ Target = File("manifestHash")
  BY DEF PublishDigest, WriteSteps, Seals, Target
<1>2. /\ partial'[Target] = Absent
      /\ \A p \in Paths : p # Target => disk'[p] = disk[p] /\ partial'[p] = partial[p]
  BY <1>0, <1>1, RenameMoves
<1>3. Target \notin Evidence /\ Evidence \subseteq Paths
  BY <1>1, TargetCases DEF Paths
<1>4. \A p \in Evidence : disk'[p] = disk[p] /\ partial'[p] = partial[p]
  BY <1>2, <1>3
<1>5. {BlockFile(h) : h \in Heights} \cup {PoolsFile(h) : h \in Heights} \cup {File("anchorBlock")}
        \subseteq Evidence
  BY DEF Evidence, FixedKinds
<1>6. OrderInv' /\ LeftoverInv' /\ TidyInv' /\ HeldInv'
  BY <1>0, <1>1, <1>4, <1>5 DEF Stop, OrderInv, LeftoverInv, TidyInv, HeldInv, NothingListed
<1>7. Listed(ManifestOf(disk')) = Required(req.interval)
  <2>1. SuccessIsSealed' /\ Finished'
    BY <1>1, DigestSeals DEF Stop, Finished
  <2> QED BY <1>1, <2>1 DEF SuccessIsSealed, Sealed, Stop
<1>8. \A p \in Required(req.interval) : p \in Evidence /\ recorded[p] # Absent
  BY <1>0, <1>1, ListIsRequired DEF IInv, Listed, BuiltManifest
<1>9. \A p \in Evidence \ Required(req.interval) : disk'[p] = Absent /\ partial'[p] = Absent
  <2> SUFFICES ASSUME NEW p \in Evidence \ Required(req.interval)
               PROVE  disk[p] = Absent /\ partial[p] = Absent
    BY <1>4
  <2>1. PICK h \in Heights : ~ InInterval(h, req.interval) /\ p \in {BlockFile(h), PoolsFile(h)}
    BY <1>0, OtherHeights DEF IInv
  <2> QED BY <1>0, <1>1, <2>1 DEF HeldInv
<1>10. \A p \in Paths : partial'[p] = Absent
  <2>1. \A p \in Required(req.interval) : partial'[p] = Absent
    BY <1>0, <1>4, <1>8 DEF TidyInv
  <2>2. partial'[File("manifest")] = Absent
    BY <1>0, <1>1, <1>2 DEF TidyInv, Paths, Seals, File
  <2>3. \A p \in Paths : p \in Evidence \/ p = File("manifest") \/ p = Target
    BY <1>1 DEF Paths, Seals
  <2> QED BY <1>2, <1>9, <2>1, <2>2, <2>3
<1>11. SuccessIsClean'
  BY <1>7, <1>9, <1>10 DEF SuccessIsClean, Unlisted
<1> QED BY <1>6, <1>11 DEF KInv

\* Steps that leave the directory and the record alone.
LEMMA QuietKeeps ==
  ASSUME SInv, KInv, UNCHANGED <<dirVars, req, cursor, recorded, outcome>>, pc # "idle",
         pc' \notin {"clear", "pools", "manifestHash"},
         pc' \in {"getObject", "block"} => disk[PoolsFile(cursor)] = Absent,
         pc' = "anchorBlock" => disk[File("anchorBlock")] = Absent,
         pc' \notin {"idle", "preflight", "probe", "open"} =>
           \/ pc \notin {"idle", "preflight", "probe", "open"}
           \/ \A h \in HeldHeights : InInterval(h, req.interval)
  PROVE  KInv'
<1>1. OrderInv' /\ LeftoverInv' /\ TidyInv'
  BY DEF KInv, OrderInv, LeftoverInv, TidyInv, dirVars
<1>2. HeldInv'
  BY DEF KInv, HeldInv, HeldHeights, dirVars
<1>3. SuccessIsClean'
  BY RunningIsClean DEF SInv
<1> QED BY <1>1, <1>2, <1>3 DEF KInv

LEMMA RefuseKeeps ==
  ASSUME KInv, NEW how \in Outcomes \ {"ok"}, Stop(how), UNCHANGED dirVars
  PROVE  KInv'
BY StopOrders DEF KInv, Stop, SuccessIsClean, Finished

LEMMA OpenTidies ==
  ASSUME NeverOverwritten, SInv, KInv, Open
  PROVE  KInv'
<1>1. req.mode \in {"create", "resume"} /\ pc = "open"
  BY CaptureAssumption DEF NeverOverwritten, SInv, IInv, TypeOK, OutputModes, Open
<1>2. CASE Opened = "refused"
  BY <1>2, RefuseKeeps DEF Open, Outcomes
<1>3. CASE Opened # "refused"
  <2>1. Continue("nodeInfo", mem)
    BY <1>1, <1>3 DEF Open, Opened
  <2>2. \A h \in HeldHeights : InInterval(h, req.interval)
    <3>1. CASE req.mode = "create"
      <4>1. DirectoryEmpty
        BY <1>3, <3>1 DEF Opened
      <4>2. HeldHeights = {}
        BY <4>1, HeightPaths DEF DirectoryEmpty, EmptyDirectory, HeldHeights
      <4> QED BY <4>2
    <3>2. CASE req.mode = "resume"
      BY <1>3, <3>2 DEF Opened
    <3> QED BY <1>1, <3>1, <3>2
  <2> QED BY <1>1, <2>1, <2>2, QuietKeeps DEF Continue
<1> QED BY <1>2, <1>3

\* What is adopted is complete, so nothing partial stands beside it.
LEMMA AdoptKeeps ==
  ASSUME SInv, KInv, AdoptAnchor \/ AdoptHeight
  PROVE  KInv'
<1>0. IInv /\ OutcomeInv /\ OrderInv /\ LeftoverInv /\ TidyInv /\ HeldInv
  BY DEF SInv, KInv
<1>1. /\ UNCHANGED <<disk, partial, req, outcome>>
      /\ pc \in {"getAnchor", "getBlock"} /\ pc' \in {"anchorPools", "getBlock", "recheck"}
  BY DEF AdoptAnchor, AdoptHeight, NextHeight, dirVars
<1>2. OrderInv' /\ LeftoverInv' /\ HeldInv'
  BY <1>0, <1>1 DEF OrderInv, LeftoverInv, HeldInv
<1>3. TidyInv'
  <2>1. \A p \in Evidence : recorded'[p] # Absent => recorded[p] # Absent \/ partial[p] = Absent
    <3>1. CASE AdoptAnchor
      BY <1>0, <3>1 DEF AdoptAnchor, LeftoverInv, IInv, TypeOK, Listing
    <3>2. CASE AdoptHeight
      <4>1. /\ cursor \in Heights /\ disk[PoolsFile(cursor)] # Absent
            /\ \A p \in Evidence : recorded'[p] # recorded[p] =>
                 p \in {BlockFile(cursor), PoolsFile(cursor)}
        BY <1>0, <3>2 DEF AdoptHeight, HeightPresent, IInv, TypeOK, Listing
      <4> QED BY <1>0, <4>1 DEF LeftoverInv
    <3> QED BY <3>1, <3>2
  <2> QED BY <1>0, <1>1, <2>1 DEF TidyInv
<1>4. SuccessIsClean'
  BY <1>0, <1>1, RunningIsClean
<1> QED BY <1>2, <1>3, <1>4 DEF KInv

LEMMA CleanKeeps ==
  ASSUME NeverOverwritten, SInv, KInv, [Next]_vars
  PROVE  KInv'
<1>0. OrderInv /\ pc # "clear"
  BY DEF KInv, OrderInv
<1>1. CASE Operator
  <2>1. PICK m \in Modes, i \in Intervals : Start(m, i)
    BY <1>1 DEF Operator
  <2> QED BY <2>1 DEF Start, KInv, OrderInv, LeftoverInv, TidyInv, HeldInv, SuccessIsClean, Finished,
                      dirVars
<1>2. CASE NodeStep \/ UNCHANGED vars
  <2>1. UNCHANGED <<disk, partial, pc, req, cursor, recorded, outcome>>
    BY <1>2 DEF NodeStep, vars, dirVars, sessionVars
  <2> QED BY <2>1 DEF KInv, OrderInv, LeftoverInv, TidyInv, HeldInv, SuccessIsClean, Finished,
                      Unlisted, Listed, ManifestOf
<1>3. CASE Interrupt
  BY <1>3, RefuseKeeps DEF Interrupt, Outcomes
<1>4. CASE (\E p \in Paths : ClearOne(p)) \/ Cleared
  BY <1>0, <1>4 DEF ClearOne, Cleared
<1>5. CASE CreatePartial \/ FillAndSync
  BY <1>5, PartialKeeps
<1>6. CASE PublishFile \/ PublishPools \/ PublishManifest
  BY <1>6, PublishKeeps
<1>7. CASE PublishDigest
  BY <1>7, DigestKeeps
<1>8. CASE AdoptAnchor \/ AdoptHeight
  BY <1>8, AdoptKeeps
<1>9. CASE Open
  BY <1>9, OpenTidies
<1>10. CASE Preflight \/ Recheck
  <2>1. CASE Stop("refused") /\ UNCHANGED dirVars
    BY <2>1, RefuseKeeps DEF Outcomes
  <2>2. CASE ~ (Stop("refused") /\ UNCHANGED dirVars)
    <3>1. /\ UNCHANGED <<dirVars, req, cursor, recorded, outcome>>
          /\ \/ pc = "preflight" /\ pc' = "probe"
             \/ pc = "recheck" /\ pc' = "chainEnd"
      BY <1>10, <2>2 DEF Preflight, Recheck, Continue
    <3> QED BY <3>1, QuietKeeps
  <2> QED BY <2>1, <2>2
<1>11. CASE Probe \/ FetchAnchor \/ FetchBlock \/ FetchObject
  <2>1. /\ UNCHANGED <<dirVars, req, cursor, recorded, outcome>>
        /\ \/ pc = "probe" /\ pc' = "open"
           \/ pc = "getAnchor" /\ pc' = "anchorBlock" /\ disk[File("anchorBlock")] = Absent
           \/ pc = "getBlock" /\ pc' = "getObject" /\ ~ HeightPresent(cursor)
           \/ pc = "getObject" /\ pc' = "block"
    BY <1>11 DEF Probe, FetchAnchor, FetchBlock, FetchObject, Continue
  <2>2. pc' \in {"getObject", "block"} => disk[PoolsFile(cursor)] = Absent
    BY <1>0, <2>1 DEF OrderInv, HeightPresent, SInv, IInv, TypeOK
  <2> QED BY <2>1, <2>2, QuietKeeps
<1> QED BY <1>1, <1>2, <1>3, <1>4, <1>5, <1>6, <1>7, <1>8, <1>9, <1>10, <1>11 DEF Next, Session

LEMMA CleanAlways == NeverOverwritten => (Spec => [](SInv /\ KInv))
<1> SUFFICES ASSUME NeverOverwritten PROVE Spec => [](SInv /\ KInv)
  OBVIOUS
<1>1. Init => KInv
  <2> SUFFICES ASSUME Init PROVE KInv
    OBVIOUS
  <2>1. File("anchorBlock") \in Paths
    BY DEF Paths, Evidence, FixedKinds
  <2> QED BY <2>1, HeightPaths DEF Init, KInv, OrderInv, LeftoverInv, TidyInv, HeldInv, NothingListed,
                                  EmptyDirectory, SuccessIsClean, Finished
<1>2. SInv /\ KInv /\ [Next]_vars => KInv'
  BY CleanKeeps
<1> QED BY <1>1, <1>2, SealedAlways, PTL DEF Spec

\* When no directory is overwritten, a session that succeeds leaves nothing but
\* what its manifest lists, however many sessions were interrupted before it:
\* no block of another interval and no leftover of an interrupted write.
THEOREM SuccessLeavesNothingElse == NeverOverwritten => (Spec => []SuccessIsClean)
<1>1. SInv /\ KInv => SuccessIsClean
  BY DEF KInv
<1> QED BY <1>1, CleanAlways, PTL

\* When no directory is overwritten, resuming never rewrites a height whose two
\* files are there, nor the anchor block.
THEOREM ResumingKeepsEvidence == NeverOverwritten => (Spec => ResumeKeepsEvidence)
<1> DEFINE Kept == /\ \A h \in Heights : disk[BlockFile(h)] # Absent /\ disk[PoolsFile(h)] # Absent =>
                        disk'[BlockFile(h)] = disk[BlockFile(h)] /\ disk'[PoolsFile(h)] = disk[PoolsFile(h)]
                   /\ disk[File("anchorBlock")] # Absent =>
                        disk'[File("anchorBlock")] = disk[File("anchorBlock")]
<1>1. ASSUME SInv, KInv, [Next]_vars PROVE Kept
  <2>0. IInv /\ OrderInv /\ pc # "clear"
    BY <1>1 DEF SInv, KInv, OrderInv
  <2>1. CASE disk' = disk
    BY <2>1
  <2>2. CASE disk' # disk
    <3>1. pc \in WriteSteps /\ Rename(Target)
      BY <1>1, <2>0, <2>2
         DEF Next, Operator, Start, NodeStep, Session, Interrupt, Preflight, Probe, Open, ClearOne,
             Cleared, CreatePartial, FillAndSync, PublishFile, PublishPools, PublishManifest,
             PublishDigest, AdoptAnchor, FetchAnchor, AdoptHeight, FetchBlock, FetchObject, Recheck,
             Continue, Stop, vars, dirVars, WriteSteps, HeightWrites, Seals
    <3>2. \A p \in Paths : p # Target => disk'[p] = disk[p]
      BY <2>0, <3>1, RenameMoves
    <3>3. File("anchorBlock") \in Paths /\ "anchorBlock" \in FixedKinds
      BY DEF Paths, Evidence, FixedKinds
    <3>4. \A h \in Heights : disk[BlockFile(h)] # Absent /\ disk[PoolsFile(h)] # Absent
                               => Target # BlockFile(h) /\ Target # PoolsFile(h)
      BY <2>0, <3>1, TargetCases DEF OrderInv
    <3>5. disk[File("anchorBlock")] # Absent => Target # File("anchorBlock")
      BY <2>0, <3>1, <3>3, TargetCases DEF OrderInv
    <3> QED BY <3>2, <3>3, <3>4, <3>5, HeightPaths
  <2> QED BY <2>1, <2>2
<1>2. SInv /\ KInv /\ [Next]_vars => [pc # "idle" /\ req.mode = "resume" => Kept]_vars
  BY <1>1
<1> QED BY <1>2, CleanAlways, PTL DEF Spec, ResumeKeepsEvidence

-----------------------------------------------------------------------------
(***************************************************************************)
(* Proofs about what the tip distance buys: no session touches the         *)
(* directory before the node's tip is far enough, and, when no             *)
(* reorganisation is deeper than the tip distance, nothing a capture       *)
(* stores is ever reorganised out, over any number of sessions, and a      *)
(* finished capture is one chain.                                          *)
(***************************************************************************)
\* Once preflight has passed, the end height is far enough below the tip.
SafeTip == pc \notin {"idle", "preflight"} => req.interval.end + TipDistance <= tip

LEMMA IntervalHeights ==
  ASSUME TypeOK
  PROVE  /\ req.interval \in Intervals
         /\ req.interval.start \in Nat /\ req.interval.end \in Nat
         /\ tip \in Nat /\ cursor \in Nat /\ TipDistance \in Nat
BY IntervalAssumption, ChainAssumption, CaptureAssumption DEF TypeOK, NodeTypeOK, Heights

LEMMA SafeTipKeeps ==
  ASSUME IInv, SafeTip, [Next]_vars
  PROVE  SafeTip'
<1>0. TypeOK
  BY DEF IInv
<1>1. CASE Operator
  BY <1>1 DEF Operator, Start, SafeTip
<1>2. CASE NodeStep
  <2>1. tip' >= tip /\ UNCHANGED <<pc, req>>
    BY <1>0, <1>2, IntervalHeights DEF NodeStep, GrowTip, Reorg, sessionVars
  <2>2. tip' \in Nat
    BY <1>0, <1>2, IntervalHeights DEF NodeStep, GrowTip, Reorg
  <2> QED BY <1>0, <2>1, <2>2, IntervalHeights DEF SafeTip
<1>3. CASE Session
  <2>1. CASE Preflight
    BY <1>0, <2>1, IntervalHeights
       DEF Preflight, Continue, Stop, TipDistanceOK, SafeTip, nodeVars
  <2>2. CASE ~ Preflight
    <3>1. UNCHANGED <<tip, req>> /\ pc \notin {"idle", "preflight"}
      BY <1>3, <2>2 DEF Session, Probe, Open, ClearOne, Cleared, CreatePartial, FillAndSync,
         PublishFile, PublishPools, PublishManifest, PublishDigest, AdoptAnchor, FetchAnchor,
         AdoptHeight, FetchBlock, FetchObject, Recheck, Continue, Stop, nodeVars, WriteSteps,
         FixedKinds, MetaKinds, HeightWrites, Seals
    <3> QED BY <3>1 DEF SafeTip
  <2> QED BY <2>1, <2>2
<1>4. CASE Interrupt
  BY <1>4 DEF Interrupt, Stop, SafeTip
<1>5. CASE UNCHANGED vars
  BY <1>5 DEF vars, nodeVars, sessionVars, SafeTip
<1> QED BY <1>1, <1>2, <1>3, <1>4, <1>5 DEF Next

LEMMA SafeTipAlways == Spec => [](IInv /\ SafeTip)
<1>1. Init => SafeTip
  BY DEF Init, SafeTip
<1> QED BY <1>1, InitHolds, StepKeeps, SafeTipKeeps, PTL DEF Spec

\* A doomed session touches nothing: every change of the directory happens
\* with the tip far enough and a usable anchor record in hand.
THEOREM DoomedSessionsTouchNothing == Spec => DoomedSessionTouchesNothing
<1>1. ASSUME IInv, SafeTip, [Next]_vars, <<disk, partial>>' # <<disk, partial>>
      PROVE  /\ tip >= req.interval.end + TipDistance
             /\ mem.anchor # Absent /\ mem.anchor.usable
  <2>1. pc \in WriteSteps \cup {"clear"}
    BY <1>1 DEF Next, vars, dirVars, sessionVars, Operator, Start, NodeStep, Session, Interrupt,
       Preflight, Probe, Open, ClearOne, Cleared, CreatePartial, FillAndSync, PublishFile,
       PublishPools, PublishManifest, PublishDigest, AdoptAnchor, FetchAnchor, AdoptHeight,
       FetchBlock, FetchObject, Recheck, Continue, WriteSteps, FixedKinds, MetaKinds,
       HeightWrites, Seals
  <2>2. pc \notin {"idle", "preflight", "probe"}
    BY <2>1 DEF WriteSteps, FixedKinds, MetaKinds, HeightWrites, Seals
  <2>3. UsableRecord(mem.anchor) /\ req.interval.end + TipDistance <= tip
    BY <1>1, <2>2 DEF IInv, MemoryInv, SafeTip
  <2>4. Absent \notin PoolRecord
    BY SentinelAssumption DEF Content, EvidenceContent
  <2>5. TypeOK
    BY <1>1 DEF IInv
  <2> QED BY <2>3, <2>4, <2>5, IntervalHeights DEF UsableRecord
<1> QED BY <1>1, SafeTipAlways, PTL DEF DoomedSessionTouchesNothing, Spec

-----------------------------------------------------------------------------
\* Reorganisations no deeper than the tip distance.

Shallow == MaxReorgDepth <= TipDistance

\* Block b is the chain's block at h, too far below the tip to be replaced.
SettledAt(h, b) == h + TipDistance <= tip /\ b = BlockAt[chain][h]

StoredSettled ==
  \A h \in Heights :
    /\ disk[BlockFile(h)] # Absent => SettledAt(h, disk[BlockFile(h)])
    /\ disk[PoolsFile(h)] # Absent => SettledAt(h, disk[PoolsFile(h)].block)

\* What has been read for the current height and is still to be stored.
PendingSettled ==
  /\ pc \in {"getObject", "block"} => mem.hex = BlockAt[chain][cursor]
  /\ pc \in HeightWrites => mem.pools.block = BlockAt[chain][cursor]

\* A step of the node leaves the blocks it had at settled heights.
LEMMA SettledStays ==
  ASSUME Shallow, TypeOK, NodeStep, NEW h \in Heights, h + TipDistance <= tip
  PROVE  h + TipDistance <= tip' /\ BlockAt[chain'][h] = BlockAt[chain][h]
<1>1. h \in Nat /\ MaxReorgDepth \in Nat /\ TipDistance \in Nat /\ tip \in Nat
  BY IntervalHeights, NodeAssumption, ChainAssumption DEF Heights
<1>2. CASE GrowTip
  BY <1>1, <1>2 DEF GrowTip
<1>3. ASSUME NEW c \in Chains, Reorg(c)
      PROVE  h + TipDistance <= tip' /\ BlockAt[chain'][h] = BlockAt[chain][h]
  <2>1. h + MaxReorgDepth <= tip
    BY <1>1 DEF Shallow
  <2> QED BY <1>3, <2>1 DEF Reorg
<1> QED BY <1>2, <1>3 DEF NodeStep

\* The current height is settled once preflight has passed.
LEMMA CursorSettled ==
  ASSUME IInv, SafeTip, pc \notin {"idle", "preflight"}
  PROVE  cursor \in Heights /\ cursor + TipDistance <= tip
<1>1. TypeOK /\ InInterval(cursor, req.interval)
  BY DEF IInv, CursorInv
<1> QED BY <1>1, IntervalHeights DEF SafeTip, InInterval, TypeOK

LEMMA NodeKeepsSettled ==
  ASSUME Shallow, IInv, SafeTip, StoredSettled, PendingSettled, NodeStep
  PROVE  StoredSettled' /\ PendingSettled'
<1>1. TypeOK /\ UNCHANGED <<disk, pc, mem, cursor>>
  BY DEF IInv, NodeStep, dirVars, sessionVars
<1>2. StoredSettled'
  BY <1>1, SettledStays DEF StoredSettled, SettledAt
<1>3. PendingSettled'
  <2>1. CASE pc \in {"getObject", "block", "pools"}
    BY <1>1, <2>1, CursorSettled, SettledStays DEF PendingSettled, HeightWrites
  <2>2. CASE pc \notin {"getObject", "block", "pools"}
    BY <1>1, <2>2 DEF PendingSettled, HeightWrites
  <2> QED BY <2>1, <2>2
<1> QED BY <1>2, <1>3

\* A rename of the current height's file stores a settled block.
LEMMA RenameKeepsSettled ==
  ASSUME IInv, SafeTip, StoredSettled, PendingSettled, pc \in WriteSteps, Rename(Target),
         UNCHANGED nodeVars
  PROVE  StoredSettled'
<1>1. Target \in Paths /\ disk' = [disk EXCEPT ![Target] = Body] /\ TypeOK
  BY RenamePublishes, TargetIsPath DEF IInv
<1>2. cursor \in Heights /\ cursor + TipDistance <= tip
  BY CursorSettled DEF WriteSteps, FixedKinds, MetaKinds, HeightWrites, Seals
<1>3. UNCHANGED <<chain, tip>>
  BY DEF nodeVars
<1> SUFFICES ASSUME NEW h \in Heights
             PROVE  /\ disk'[BlockFile(h)] # Absent => SettledAt(h, disk'[BlockFile(h)])
                    /\ disk'[PoolsFile(h)] # Absent => SettledAt(h, disk'[PoolsFile(h)].block)
  BY <1>3 DEF StoredSettled, SettledAt
<1>4. BlockFile(h) = Target => h = cursor /\ Body = mem.hex /\ pc = "block"
  BY DEF Target, Body, BlockFile, PoolsFile, File, WriteSteps, FixedKinds, MetaKinds,
         HeightWrites, Seals
<1>5. PoolsFile(h) = Target => h = cursor /\ Body = mem.pools /\ pc = "pools"
  BY DEF Target, Body, BlockFile, PoolsFile, File, WriteSteps, FixedKinds, MetaKinds,
         HeightWrites, Seals
<1>6. disk'[BlockFile(h)] # Absent => SettledAt(h, disk'[BlockFile(h)])
  BY <1>1, <1>2, <1>4, HeightPaths
     DEF TypeOK, DirectoryTypeOK, StoredSettled, PendingSettled, SettledAt
<1>7. disk'[PoolsFile(h)] # Absent => SettledAt(h, disk'[PoolsFile(h)].block)
  BY <1>1, <1>2, <1>5, HeightPaths
     DEF TypeOK, DirectoryTypeOK, StoredSettled, PendingSettled, SettledAt, HeightWrites
<1> QED BY <1>6, <1>7

LEMMA SettledKeeps ==
  ASSUME Shallow, IInv, SafeTip, StoredSettled, PendingSettled, [Next]_vars
  PROVE  StoredSettled' /\ PendingSettled'
<1>1. CASE NodeStep
  BY <1>1, NodeKeepsSettled
<1>2. CASE Operator \/ Interrupt \/ UNCHANGED vars
  BY <1>2 DEF Operator, Start, Interrupt, Stop, vars, nodeVars, dirVars, sessionVars,
     StoredSettled, PendingSettled, SettledAt, HeightWrites
<1>3. CASE Session
  <2>1. UNCHANGED nodeVars
    BY <1>3 DEF Session, Preflight, Probe, Open, ClearOne, Cleared, CreatePartial, FillAndSync,
       PublishFile, PublishPools, PublishManifest, PublishDigest, AdoptAnchor, FetchAnchor,
       AdoptHeight, FetchBlock, FetchObject, Recheck
  <2>2. CASE PublishFile \/ PublishPools \/ PublishManifest \/ PublishDigest
    <3>1. pc \in WriteSteps /\ Rename(Target)
      BY <2>2 DEF PublishFile, PublishPools, PublishManifest, PublishDigest, WriteSteps,
         HeightWrites, Seals
    <3>2. StoredSettled'
      BY <2>1, <3>1, RenameKeepsSettled
    <3>3. PendingSettled'
      BY <2>2, <2>1 DEF PublishFile, PublishPools, PublishManifest, PublishDigest, Following,
         NextHeight, Stop, PendingSettled, nodeVars, HeightWrites, FixedKinds, MetaKinds
    <3> QED BY <3>2, <3>3
  <2>3. CASE \E p \in Paths : ClearOne(p)
    <3>1. PICK p \in Paths : ClearOne(p)
      BY <2>3
    <3>2. \A o \in Paths : disk'[o] \in {disk[o], Absent}
      BY <3>1 DEF ClearOne, IInv, TypeOK, DirectoryTypeOK
    <3>3. StoredSettled'
      BY <2>1, <3>2, HeightPaths DEF StoredSettled, SettledAt, nodeVars
    <3>4. PendingSettled'
      BY <3>1 DEF ClearOne, PendingSettled, HeightWrites
    <3> QED BY <3>3, <3>4
  <2>4. CASE FetchBlock \/ FetchObject
    <3>1. UNCHANGED <<disk, cursor>>
      BY <2>4 DEF FetchBlock, FetchObject, Continue, dirVars
    <3>2. PendingSettled'
      <4>1. CASE FetchBlock
        BY <2>1, <4>1 DEF FetchBlock, Continue, PendingSettled, nodeVars, HeightWrites, IInv,
           TypeOK, Memory
      <4>2. CASE FetchObject
        <5>1. PICK answer \in BlockObjects(cursor) :
                PoolStateUsable(answer) /\ Continue("block", [mem EXCEPT !.pools = answer])
          BY <4>2 DEF FetchObject
        <5>2. answer.block = BlockAt[chain][cursor]
          BY <5>1, AnswersAreRecords DEF IInv, TypeOK
        <5> QED BY <2>1, <4>2, <5>1, <5>2
                DEF FetchObject, Continue, PendingSettled, nodeVars, HeightWrites, IInv,
                    TypeOK, Memory
      <4> QED BY <2>4, <4>1, <4>2
    <3> QED BY <2>1, <3>1, <3>2 DEF StoredSettled, SettledAt, nodeVars
  <2>5. CASE \/ Preflight \/ Probe \/ Open \/ Cleared \/ CreatePartial \/ FillAndSync
             \/ AdoptAnchor \/ FetchAnchor \/ AdoptHeight \/ Recheck
    <3>1. UNCHANGED disk
      BY <2>5 DEF Preflight, Probe, Open, Cleared, CreatePartial, FillAndSync, AdoptAnchor,
         FetchAnchor, AdoptHeight, Recheck, Continue, dirVars
    <3>2. PendingSettled'
      BY <2>1, <2>5, CaptureAssumption
         DEF Preflight, Probe, Open, Opened, Cleared, CreatePartial, FillAndSync,
         AdoptAnchor, FetchAnchor, AdoptHeight, NextHeight, Recheck, Continue, Stop,
         PendingSettled, nodeVars, HeightWrites, IInv, TypeOK, OutputModes
    <3> QED BY <2>1, <3>1, <3>2 DEF StoredSettled, SettledAt, nodeVars
  <2> QED BY <1>3, <2>2, <2>3, <2>4, <2>5 DEF Session
<1> QED BY <1>1, <1>2, <1>3 DEF Next

\* When no reorganisation is deeper than the tip distance, every stored block
\* and record stays the one the node has at its height: the reason
\* guard::check_tip_distance gives for refusing to capture near the tip.
THEOREM StoredStaysSettled == Shallow => (Spec => []StoredIsSettled)
<1> SUFFICES ASSUME Shallow PROVE Spec => []StoredIsSettled
  OBVIOUS
<1>1. Init => StoredSettled /\ PendingSettled
  BY HeightPaths DEF Init, StoredSettled, PendingSettled, EmptyDirectory, HeightWrites
<1>2. IInv /\ SafeTip /\ StoredSettled /\ PendingSettled /\ [Next]_vars
        => (StoredSettled /\ PendingSettled)'
  BY SettledKeeps
<1>3. StoredSettled => StoredIsSettled
  BY DEF StoredSettled, StoredIsSettled, SettledAt
<1>4. Spec => [](StoredSettled /\ PendingSettled)
  BY <1>1, <1>2, SafeTipAlways, PTL DEF Spec
<1> QED BY <1>3, <1>4, PTL

-----------------------------------------------------------------------------
(***************************************************************************)
(* A successful capture is one chain when no reorganisation is deeper than *)
(* the tip distance and all captures into the directory start at the same  *)
(* height.  Both conditions are needed: capture_unbound shows what happens *)
(* without the first, and without the second an interval can adopt the     *)
(* anchor of another.                                                      *)
(***************************************************************************)

SameStart == \A i, j \in Intervals : i.start = j.start

\* Block b is the settled block at the anchor height.
AnchoredAt(b) == SettledAt(AnchorHeight(req.interval), b)

AnchorSettled ==
  /\ disk[File("anchorBlock")] # Absent => AnchoredAt(disk[File("anchorBlock")])
  /\ disk[File("anchorPools")] # Absent => AnchoredAt(disk[File("anchorPools")].block)
  /\ mem.anchor # Absent => AnchoredAt(mem.anchor.block)
  /\ pc = "anchorBlock" => AnchoredAt(mem.hex)

LEMMA AnchorFacts ==
  ASSUME TypeOK
  PROVE  /\ AnchorHeight(req.interval) \in Heights
         /\ AnchorHeight(req.interval) \in Nat
         /\ AnchorHeight(req.interval) < req.interval.end
         /\ req.interval.end \in Nat /\ tip \in Nat /\ TipDistance \in Nat
         /\ File("anchorBlock") \in Paths /\ File("anchorPools") \in Paths
         /\ File("anchorBlock") # File("anchorPools")
<1>1. File("anchorBlock") \in Paths /\ File("anchorPools") \in Paths
  BY DEF Paths, Evidence, FixedKinds, MetaKinds
<1>2. File("anchorBlock") # File("anchorPools")
  BY DEF File
<1> QED BY <1>1, <1>2, IntervalHeights, IntervalAssumption, ChainAssumption
        DEF AnchorHeight, Heights

\* Once preflight has passed, what the node has at the anchor is settled.
LEMMA AnchorReadSettled ==
  ASSUME TypeOK, SafeTip, pc \notin {"idle", "preflight"}
  PROVE  AnchoredAt(BlockAt[chain][AnchorHeight(req.interval)])
BY AnchorFacts DEF SafeTip, AnchoredAt, SettledAt

LEMMA AnchorNode ==
  ASSUME Shallow, TypeOK, AnchorSettled, NodeStep
  PROVE  AnchorSettled'
<1>1. UNCHANGED <<disk, mem, pc, req>>
  BY DEF NodeStep, dirVars, sessionVars
<1>2. \A b : AnchoredAt(b) => AnchoredAt(b)'
  BY <1>1, AnchorFacts, SettledStays DEF AnchoredAt, SettledAt
<1> QED BY <1>1, <1>2 DEF AnchorSettled

\* Steps that leave the node and the request alone.
LEMMA AnchorCarried ==
  ASSUME AnchorSettled, UNCHANGED <<chain, tip, req>>,
         disk'[File("anchorBlock")] \in {disk[File("anchorBlock")], Absent},
         disk'[File("anchorPools")] \in {disk[File("anchorPools")], Absent},
         mem'.anchor \in {mem.anchor, Absent},
         pc' # "anchorBlock" \/ (pc = "anchorBlock" /\ mem'.hex = mem.hex)
  PROVE  AnchorSettled'
BY DEF AnchorSettled, AnchoredAt, SettledAt

LEMMA AnchorRename ==
  ASSUME IInv, AnchorSettled, pc \in WriteSteps, Rename(Target), UNCHANGED <<nodeVars, req>>,
         mem'.anchor \in {mem.anchor, Absent}, pc' # "anchorBlock"
  PROVE  AnchorSettled'
<1>1. disk' = [disk EXCEPT ![Target] = Body] /\ TypeOK
  BY RenamePublishes DEF IInv
<1>2. Target = File("anchorBlock") => pc = "anchorBlock" /\ Body = mem.hex
  BY DEF Target, Body, BlockFile, PoolsFile, File, WriteSteps, FixedKinds, MetaKinds,
         HeightWrites, Seals
<1>3. Target = File("anchorPools") => pc = "anchorPools" /\ Body = mem.anchor /\ mem.anchor # Absent
  <2>1. Absent \notin PoolRecord
    BY SentinelAssumption DEF Content, EvidenceContent
  <2> QED BY <2>1 DEF Target, Body, BlockFile, PoolsFile, File, WriteSteps, FixedKinds, MetaKinds,
         HeightWrites, Seals, IInv, MemoryInv, UsableRecord
<1>4. \A b : AnchoredAt(b)' <=> AnchoredAt(b)
  BY DEF AnchoredAt, SettledAt, nodeVars
<1>5. \/ disk'[File("anchorBlock")] = disk[File("anchorBlock")]
      \/ pc = "anchorBlock" /\ disk'[File("anchorBlock")] = mem.hex
  BY <1>1, <1>2, AnchorFacts DEF TypeOK, DirectoryTypeOK
<1>6. \/ disk'[File("anchorPools")] = disk[File("anchorPools")]
      \/ mem.anchor # Absent /\ disk'[File("anchorPools")] = mem.anchor
  BY <1>1, <1>3, AnchorFacts DEF TypeOK, DirectoryTypeOK
<1> QED BY <1>4, <1>5, <1>6 DEF AnchorSettled


\* Every step keeps what is known of the anchor settled.
LEMMA AnchorKeeps ==
  ASSUME Shallow, SameStart, IInv, SafeTip, AnchorSettled, [Next]_vars
  PROVE  AnchorSettled'
<1>0. TypeOK
  BY DEF IInv
<1>1. CASE NodeStep
  BY <1>0, <1>1, AnchorNode
<1>2. CASE Operator
  <2>1. PICK m \in Modes, i \in Intervals : Start(m, i)
    BY <1>2 DEF Operator
  <2>2. AnchorHeight(i) = AnchorHeight(req.interval)
    BY <1>0, IntervalHeights DEF SameStart, AnchorHeight
  <2> QED BY <2>1, <2>2 DEF Start, AnchorSettled, AnchoredAt, SettledAt, nodeVars, dirVars
<1>3. CASE Interrupt
  BY <1>3, AnchorCarried DEF Interrupt, Stop, EmptyMemory, nodeVars, dirVars
<1>4. CASE UNCHANGED vars
  BY <1>4 DEF vars, nodeVars, dirVars, sessionVars, AnchorSettled, AnchoredAt, SettledAt
<1>5. CASE PublishFile \/ PublishPools \/ PublishManifest \/ PublishDigest
  <2>1. pc \in WriteSteps /\ Rename(Target) /\ UNCHANGED <<nodeVars, req>>
    BY <1>5 DEF PublishFile, PublishPools, PublishManifest, PublishDigest, Stop, WriteSteps,
       HeightWrites, Seals
  <2>2. pc' # "anchorBlock"
    BY <1>5 DEF PublishFile, PublishPools, PublishManifest, PublishDigest, Stop, Following,
       NextHeight, FixedKinds, MetaKinds
  <2>3. mem'.anchor \in {mem.anchor, Absent}
    BY <1>0, <1>5 DEF PublishFile, PublishPools, PublishManifest, PublishDigest, Stop,
       EmptyMemory, TypeOK, Memory
  <2> QED BY <2>1, <2>2, <2>3, AnchorRename
<1>6. CASE Probe
  <2>1. PICK answer \in BlockObjects(AnchorHeight(req.interval)) :
          PoolStateUsable(answer) /\ Continue("open", [mem EXCEPT !.anchor = answer])
    BY <1>6 DEF Probe
  <2>2. answer.block = BlockAt[chain][AnchorHeight(req.interval)]
    BY <1>0, <2>1, AnchorFacts, AnswersAreRecords DEF TypeOK
  <2>3. AnchoredAt(answer.block)
    BY <1>0, <1>6, <2>2, AnchorReadSettled DEF Probe
  <2> QED BY <1>0, <1>6, <2>1, <2>3
          DEF Probe, Continue, AnchorSettled, AnchoredAt, SettledAt, nodeVars, dirVars,
              TypeOK, Memory
<1>7. CASE FetchAnchor
  <2>1. AnchoredAt(BlockAt[chain][AnchorHeight(req.interval)])
    BY <1>0, <1>7, AnchorReadSettled DEF FetchAnchor
  <2> QED BY <1>0, <1>7, <2>1
          DEF FetchAnchor, Continue, AnchorSettled, AnchoredAt, SettledAt, nodeVars, dirVars,
              TypeOK, Memory
<1>8. CASE \E p \in Paths : ClearOne(p)
  <2>1. PICK p \in Paths : ClearOne(p)
    BY <1>8
  <2>2. \A o \in Paths : disk'[o] \in {disk[o], Absent}
    BY <1>0, <2>1 DEF ClearOne, TypeOK, DirectoryTypeOK
  <2> QED BY <1>0, <2>1, <2>2, AnchorFacts, AnchorCarried DEF ClearOne, nodeVars
<1>9. CASE \/ Preflight \/ Open \/ Cleared \/ CreatePartial \/ FillAndSync
           \/ AdoptAnchor \/ AdoptHeight \/ FetchBlock \/ FetchObject \/ Recheck
  <2>1. UNCHANGED <<chain, tip, req, disk>>
    BY <1>9 DEF Preflight, Open, Cleared, CreatePartial, FillAndSync, AdoptAnchor, AdoptHeight,
       FetchBlock, FetchObject, Recheck, Continue, Stop, nodeVars, dirVars
  <2>2. mem'.anchor \in {mem.anchor, Absent}
    BY <1>0, <1>9 DEF Preflight, Open, Cleared, CreatePartial, FillAndSync, AdoptAnchor,
       AdoptHeight, FetchBlock, FetchObject, Recheck, Continue, Stop, EmptyMemory, TypeOK, Memory
  <2>3. pc' # "anchorBlock" \/ (pc = "anchorBlock" /\ mem'.hex = mem.hex)
    BY <1>0, <1>9, CaptureAssumption
       DEF Preflight, Open, Opened, Cleared, CreatePartial, FillAndSync, AdoptAnchor, AdoptHeight,
       NextHeight, FetchBlock, FetchObject, Recheck, Continue, Stop, TypeOK, OutputModes
  <2> QED BY <2>1, <2>2, <2>3, AnchorCarried
<1> QED BY <1>1, <1>2, <1>3, <1>4, <1>5, <1>6, <1>7, <1>8, <1>9 DEF Next, Session

-----------------------------------------------------------------------------
\* The record a session closes with is the one stored for the end height, and
\* so is the end that a finished manifest claims.
EndInv ==
  /\ pc \in Closing => mem.last = disk[PoolsFile(req.interval.end)]
  /\ Finished => ManifestOf(disk).end = disk[PoolsFile(req.interval.end)]

\* Moving on to the closing steps means the cursor was at the end.
LEMMA LastIsEnd ==
  ASSUME IInv, pc # "idle", NextHeight, pc' \in Closing
  PROVE  cursor = req.interval.end
<1>1. pc' = "recheck"
  BY DEF NextHeight, Closing, Seals
<1>2. ~ (cursor < req.interval.end)
  BY <1>1 DEF NextHeight
<1> QED BY <1>2, RequestFacts DEF IInv, CursorInv, InInterval

\* Steps that leave the request, the record read last and the file alone.
LEMMA EndCarried ==
  ASSUME EndInv, pc' \in Closing => pc \in Closing /\ mem'.last = mem.last,
         disk'[PoolsFile(req.interval.end)] = disk[PoolsFile(req.interval.end)],
         UNCHANGED req, outcome' # "ok"
  PROVE  EndInv'
BY DEF EndInv, Finished

\* A closing step publishes a file of fixed name, never the end record.
LEMMA ClosingWrites ==
  ASSUME IInv, pc \in Closing \ {"recheck"}, Rename(Target)
  PROVE  disk'[PoolsFile(req.interval.end)] = disk[PoolsFile(req.interval.end)]
<1>1. pc \in WriteSteps /\ Target = File(pc) /\ pc # "pools"
  BY DEF Closing, WriteSteps, Target, FixedKinds, MetaKinds, Seals
<1>2. disk' = [disk EXCEPT ![Target] = Body]
  BY <1>1, RenamePublishes
<1>3. Target # PoolsFile(req.interval.end)
  BY <1>1 DEF File, PoolsFile
<1>4. PoolsFile(req.interval.end) \in Paths
  BY RequestFacts, HeightPaths DEF IInv
<1> QED BY <1>2, <1>3, <1>4 DEF IInv, TypeOK, DirectoryTypeOK

LEMMA EndKeeps ==
  ASSUME SInv, EndInv, [Next]_vars
  PROVE  EndInv'
<1>0. IInv /\ TypeOK /\ PinnedInv /\ OutcomeInv
  BY DEF SInv, IInv
<1>1. CASE Operator
  BY <1>1 DEF Operator, Start, EndInv, Finished, Closing, Seals
<1>2. CASE Interrupt
  BY <1>2 DEF Interrupt, Stop, EndInv, Finished, Closing, Seals
<1>3. CASE NodeStep \/ UNCHANGED vars
  BY <1>3 DEF NodeStep, vars, dirVars, sessionVars, EndInv, Finished, ManifestOf
<1>4. CASE PublishDigest
  <2>1. pc = "manifestHash" /\ pc \in Closing \ {"recheck"} /\ pc \in WriteSteps
        /\ Target = File("manifestHash") /\ Rename(Target) /\ req' = req /\ pc' = "idle"
    BY <1>4 DEF PublishDigest, Stop, Closing, WriteSteps, Seals, Target
  <2>2. disk' = [disk EXCEPT ![File("manifestHash")] = Body]
    BY <1>0, <2>1, RenamePublishes
  <2>3. File("manifest") # File("manifestHash") /\ File("manifest") \in Paths
    BY DEF File, Paths, Seals
  <2>4. disk'[File("manifest")] = BuiltManifest
    BY <1>0, <2>1, <2>2, <2>3 DEF PinnedInv, TypeOK, DirectoryTypeOK
  <2>5. ManifestOf(disk').end = mem.last
    BY <2>4 DEF ManifestOf, BuiltManifest
  <2>6. disk'[PoolsFile(req.interval.end)] = disk[PoolsFile(req.interval.end)]
    BY <1>0, <2>1, ClosingWrites
  <2> QED BY <2>1, <2>5, <2>6 DEF EndInv, Closing, Seals
<1>5. CASE PublishPools
  <2>1. pc = "pools" /\ pc \in WriteSteps /\ Target = PoolsFile(cursor) /\ Body = mem.pools
        /\ Rename(Target) /\ NextHeight /\ UNCHANGED <<req, outcome>>
        /\ mem' = [mem EXCEPT !.last = mem.pools]
    BY <1>5 DEF PublishPools, WriteSteps, HeightWrites, Target, Body, FixedKinds, MetaKinds, Seals
  <2>2. disk'[PoolsFile(cursor)] = mem.pools
    BY <1>0, <2>1, RenamePublishes, TargetIsPath DEF TypeOK, DirectoryTypeOK
  <2>3. mem'.last = mem.pools
    BY <1>0, <2>1 DEF TypeOK, Memory
  <2>4. ~ Finished'
    BY <1>0, <2>1 DEF OutcomeInv, Finished
  <2> QED BY <1>0, <2>1, <2>2, <2>3, <2>4, LastIsEnd DEF EndInv
<1>6. CASE AdoptHeight
  <2>1. pc = "getBlock" /\ NextHeight /\ UNCHANGED <<req, outcome, disk>>
        /\ mem' = [mem EXCEPT !.last = disk[PoolsFile(cursor)]]
    BY <1>6 DEF AdoptHeight, dirVars
  <2>2. mem'.last = disk[PoolsFile(cursor)]
    BY <1>0, <2>1 DEF TypeOK, Memory
  <2>3. ~ Finished'
    BY <1>0, <2>1 DEF OutcomeInv, Finished
  <2> QED BY <1>0, <2>1, <2>2, <2>3, LastIsEnd DEF EndInv
<1>7. CASE PublishFile \/ PublishManifest
  <2>1. UNCHANGED <<req, mem, outcome>> /\ Rename(Target) /\ outcome' # "ok"
    BY <1>0, <1>7 DEF PublishFile, PublishManifest, OutcomeInv, FixedKinds, MetaKinds
  <2>2. CASE pc \in Closing \ {"recheck"}
    BY <1>0, <2>1, <2>2, ClosingWrites, EndCarried
  <2>3. CASE pc \notin Closing \ {"recheck"}
    <3>1. pc' \notin Closing
      BY <1>7, <2>3 DEF PublishFile, PublishManifest, Following, Closing, Seals, FixedKinds, MetaKinds
    <3> QED BY <2>1, <3>1 DEF EndInv, Finished
  <2> QED BY <2>2, <2>3
<1>8. CASE Recheck
  BY <1>0, <1>8, EndCarried
     DEF Recheck, Continue, Stop, dirVars, OutcomeInv, Closing, Seals
<1>9. CASE CreatePartial \/ FillAndSync
  BY <1>0, <1>9, EndCarried DEF CreatePartial, FillAndSync, OutcomeInv, WriteSteps, FixedKinds,
     MetaKinds, HeightWrites, Seals
<1>10. CASE \/ Preflight \/ Probe \/ Open \/ (\E p \in Paths : ClearOne(p)) \/ Cleared
            \/ AdoptAnchor \/ FetchAnchor \/ FetchBlock \/ FetchObject
  <2>1. pc' \notin Closing
    BY <1>0, <1>10, CaptureAssumption
       DEF Preflight, Probe, Open, Opened, ClearOne, Cleared, AdoptAnchor, FetchAnchor, FetchBlock,
           FetchObject, Continue, Stop, Closing, Seals, TypeOK, OutputModes
  <2>2. outcome' # "ok"
    BY <1>0, <1>10
       DEF Preflight, Probe, Open, ClearOne, Cleared, AdoptAnchor, FetchAnchor, FetchBlock,
           FetchObject, Continue, Stop, OutcomeInv
  <2> QED BY <2>1, <2>2 DEF EndInv, Finished
<1> QED BY <1>1, <1>2, <1>3, <1>4, <1>5, <1>6, <1>7, <1>8, <1>9, <1>10 DEF Next, Session

LEMMA EndAlways == Spec => []EndInv
<1>1. Init => EndInv
  BY DEF Init, EndInv, Finished, Closing, Seals
<1>2. SInv /\ EndInv /\ [Next]_vars => EndInv'
  BY EndKeeps
<1> QED BY <1>1, <1>2, SealedAlways, PTL DEF Spec

\* A sealed directory holds every file its interval calls for.
LEMMA SealedHolds ==
  ASSUME Sealed(disk), NEW p \in Required(ManifestOf(disk).interval)
  PROVE  p \in Evidence /\ disk[p] # Absent
BY DEF Sealed, IsValid, Damaged, Listed

\* What is settled is on the chain the node follows, anchor included.
LEMMA SettledIsOneChain ==
  ASSUME TypeOK, StoredSettled, AnchorSettled, EndInv, SuccessIsSealed
  PROVE  SuccessIsOneChain
<1> SUFFICES ASSUME Finished
             PROVE  OneChain(disk)
  BY DEF SuccessIsOneChain
<1>1. Sealed(disk) /\ ManifestOf(disk).interval = req.interval
  BY DEF SuccessIsSealed
<1>2. AnchoredOn(disk, req.interval, chain)
  <2>1. {File("anchorBlock"), File("anchorPools")} \subseteq Required(req.interval)
    BY DEF Required, FixedKinds, MetaKinds
  <2>2. disk[File("anchorBlock")] # Absent /\ disk[File("anchorPools")] # Absent
    BY <1>1, <2>1, SealedHolds
  <2> QED BY <2>2 DEF AnchorSettled, AnchoredAt, SettledAt, AnchoredOn
<1>3. OnChain(disk, req.interval, chain)
  <2> SUFFICES ASSUME NEW h \in req.interval.start .. req.interval.end
               PROVE  /\ disk[BlockFile(h)] = BlockAt[chain][h]
                      /\ disk[PoolsFile(h)] # Absent
                      /\ disk[PoolsFile(h)].block = BlockAt[chain][h]
    BY DEF OnChain
  <2>1. {BlockFile(h), PoolsFile(h)} \subseteq Required(req.interval)
    BY DEF Required
  <2>2. disk[BlockFile(h)] # Absent /\ disk[PoolsFile(h)] # Absent
    BY <1>1, <2>1, SealedHolds
  <2>3. h \in Heights
    BY IntervalHeights, IntervalAssumption, ChainAssumption DEF Heights
  <2> QED BY <2>2, <2>3 DEF StoredSettled, SettledAt
<1>4. chain \in Chains
  BY DEF TypeOK, NodeTypeOK
<1>5. ManifestOf(disk).end.block = BlockAt[chain][req.interval.end]
  <2>1. req.interval.end \in req.interval.start .. req.interval.end
    BY RequestFacts
  <2> QED BY <1>3, <2>1 DEF EndInv, OnChain
<1> QED BY <1>1, <1>2, <1>3, <1>4, <1>5 DEF OneChain

\* When reorganisations are no deeper than the tip distance and every capture
\* into the directory starts at one height, the evidence of a capture that
\* succeeds is one chain, anchor included, whatever sessions it was pieced
\* together from.
THEOREM SuccessMakesOneChain == Shallow /\ SameStart => (Spec => []SuccessIsOneChain)
<1> SUFFICES ASSUME Shallow, SameStart PROVE Spec => []SuccessIsOneChain
  OBVIOUS
<1>1. Init => StoredSettled /\ PendingSettled /\ AnchorSettled
  BY HeightPaths, AnchorFacts, InitHolds
     DEF Init, StoredSettled, PendingSettled, AnchorSettled, EmptyDirectory, EmptyMemory,
         HeightWrites, IInv
<1>2. IInv /\ SafeTip /\ StoredSettled /\ PendingSettled /\ AnchorSettled /\ [Next]_vars
        => (StoredSettled /\ PendingSettled /\ AnchorSettled)'
  BY SettledKeeps, AnchorKeeps
<1>3. IInv /\ StoredSettled /\ AnchorSettled /\ EndInv /\ SuccessIsSealed => SuccessIsOneChain
  BY SettledIsOneChain DEF IInv
<1>4. Spec => [](StoredSettled /\ PendingSettled /\ AnchorSettled)
  BY <1>1, <1>2, SafeTipAlways, PTL DEF Spec
<1> QED BY <1>3, <1>4, SafeTipAlways, EndAlways, SuccessSeals, PTL

\* Where, besides, no directory is overwritten, such a capture leaves exactly
\* what verification passes without a warning: SealedChainPasses of Verify has
\* these two facts as its hypothesis.
THEOREM SuccessVerifies == Shallow /\ SameStart /\ NeverOverwritten => (Spec => []SuccessIsVerifiable)
<1>1. ASSUME IInv, SuccessIsSealed, SuccessIsClean, SuccessIsOneChain
      PROVE  SuccessIsVerifiable
  <2> SUFFICES ASSUME Finished PROVE Readable(disk) /\ SealedOneChain(disk, partial)
    BY DEF SuccessIsVerifiable
  <2>1. Readable(disk)
    BY <1>1 DEF IInv, TypeOK, DirectoryTypeOK, CompleteNames, Readable
  <2>2. Sealed(disk) /\ OneChain(disk) /\ Unlisted(disk, partial) = {}
    BY <1>1 DEF SuccessIsSealed, SuccessIsOneChain, SuccessIsClean
  <2>3. disk[File("anchorPools")].usable
    <3>1. File("anchorPools") \in Required(ManifestOf(disk).interval)
      BY DEF Required, FixedKinds, MetaKinds
    <3> QED BY <1>1, <2>2, <3>1, SealedHolds DEF IInv, StoredRecordsUsable, RecordPaths
  <2> QED BY <2>1, <2>2, <2>3 DEF SealedOneChain
<1> QED BY <1>1, Invariance, SuccessSeals, SuccessLeavesNothingElse, SuccessMakesOneChain, PTL
=============================================================================
