------------------------------ MODULE Capture ------------------------------
(***************************************************************************)
(* The `capture` command: preflight, opening the output directory, writing *)
(* the evidence files one by one, re-reading the end block, and writing    *)
(* the manifest and its digest last (src/capture/run.rs, fetch.rs,         *)
(* plan.rs, guard.rs, writer.rs).                                          *)
(*                                                                         *)
(* A session is one execution of the command.  Any session may be          *)
(* interrupted between two steps, by an error returned from the node or    *)
(* the filesystem or by the death of the process; either way its memory is *)
(* gone and the directory stays as it is, for the next session to find.    *)
(***************************************************************************)
EXTENDS Node, Validation

CONSTANTS
  Modes,        \* the output modes the operator uses
  TipDistance,  \* --tip-distance
  MaxFaults     \* bound: interruptions in one behaviour

OutputModes == {"create", "overwrite", "resume"}

ASSUME CaptureAssumption ==
  /\ Modes \subseteq OutputModes
  /\ TipDistance \in Nat
  /\ MaxFaults \in Nat

VARIABLES
  disk,      \* the content under each final name
  partial,   \* the content under each `.partial` name
  pc,        \* the step the session is at, or "idle"
  req,       \* the request of the current or last session
  cursor,    \* the interval height being captured
  stage,     \* how far write_atomically is with the current file, or the
             \* folder being removed
  mem,       \* what the session has read from the node
  recorded,  \* the entries recorded for the manifest
  outcome,   \* how the last session ended
  faults     \* interruptions so far

dirVars == <<disk, partial>>
sessionVars == <<pc, req, cursor, stage, mem, recorded, outcome>>
vars == <<nodeVars, dirVars, sessionVars, faults>>

EmptyMemory ==
  [stamp |-> Absent, anchor |-> Absent, hex |-> Absent, pools |-> Absent, last |-> Absent]

Memory ==
  [stamp : Stamps \cup {Absent}, anchor : PoolRecord \cup {Absent},
   hex : Blocks \cup {Absent}, pools : PoolRecord \cup {Absent},
   last : PoolRecord \cup {Absent}]

\* The steps that write a file, and those that do not.
HeightWrites == {"block", "pools"}
WriteSteps == FixedKinds \cup Seals \cup HeightWrites
ReadSteps == {"preflight", "probe", "open", "clear", "getAnchor", "getBlock",
              "getObject", "recheck"}
Outcomes == {"none", "running", "ok", "refused", "interrupted"}

Init ==
  /\ NodeInit
  /\ disk = EmptyDirectory
  /\ partial = EmptyDirectory
  /\ pc = "idle"
  /\ req \in [mode : Modes, interval : Intervals]
  /\ cursor = 0
  /\ stage = "ready"
  /\ mem = EmptyMemory
  /\ recorded = NothingListed
  /\ outcome = "none"
  /\ faults = 0

\* The session ends; nothing it held in memory survives it.
Stop(how) ==
  /\ pc' = "idle"
  /\ outcome' = how
  /\ cursor' = 0
  /\ stage' = "ready"
  /\ mem' = EmptyMemory
  /\ recorded' = NothingListed
  /\ UNCHANGED req

\* The session moves on without touching the directory.
Continue(step, memory) ==
  /\ pc' = step
  /\ mem' = memory
  /\ UNCHANGED <<req, cursor, stage, recorded, outcome, dirVars>>

\* The operator runs the command.
Start(mode, interval) ==
  /\ pc = "idle"
  /\ pc' = "preflight"
  /\ req' = [mode |-> mode, interval |-> interval]
  /\ cursor' = interval.start
  /\ outcome' = "running"
  /\ UNCHANGED <<nodeVars, dirVars, stage, mem, recorded, faults>>

-----------------------------------------------------------------------------
\* Guards.

\* Slip: the margin beyond the end height is forgotten.
TipReached(end) == tip >= end

\* guard::check_tip_distance.
TipDistanceOK(end) == tip >= end + TipDistance

\* guard::check_pool_state_usable, through plan::parse_pool_state.
PoolStateUsable(state) == state.usable

\* guard::check_end_block_unchanged.
EndBlockUnchanged(before, after) == before.block = after.block

\* What getblock with verbosity 1 answers for a height: the block the node
\* now has there, without its balances while a database upgrade is running.
BlockObjects(h) ==
  {[block |-> BlockAt[chain][h], usable |-> u] :
     u \in IF faults < MaxFaults THEN BOOLEAN ELSE {TRUE}}

\* Heights that have a file under blocks/, finished or partial: the file name
\* is read up to its first dot, so `.partial` names count.
HeldHeights ==
  {h \in Heights : \E p \in {BlockFile(h), PoolsFile(h)} :
                      disk[p] # Absent \/ partial[p] # Absent}

DirectoryEmpty == disk = EmptyDirectory /\ partial = EmptyDirectory

-----------------------------------------------------------------------------
\* plan::preflight.

Preflight ==
  /\ pc = "preflight"
  /\ IF TipDistanceOK(req.interval.end)
     THEN \E s \in Stamps : Continue("probe", [mem EXCEPT !.stamp = s])
     ELSE Stop("refused") /\ UNCHANGED dirVars
  /\ UNCHANGED <<nodeVars, faults>>

\* The anchor is probed; an unusable answer is an error, hence an Interrupt.
Probe ==
  /\ pc = "probe"
  /\ \E answer \in BlockObjects(AnchorHeight(req.interval)) :
       /\ PoolStateUsable(answer)
       /\ Continue("open", [mem EXCEPT !.anchor = answer])
  /\ UNCHANGED <<nodeVars, faults>>

\* Slips: --overwrite writes over the old bundle without removing it, and
\* --resume insists on a directory free of interrupted writes.
OpenedInPlace ==
  IF req.mode = "create" /\ ~ DirectoryEmpty THEN "refused"
  ELSE IF req.mode = "resume" /\ \E h \in HeldHeights : ~ InInterval(h, req.interval)
  THEN "refused" ELSE "nodeInfo"

OpenedTidyOnly ==
  IF DirectoryEmpty \/ (req.mode = "resume" /\ partial = EmptyDirectory)
  THEN "nodeInfo" ELSE "refused"

\* BundleWriter::open and, when resuming, ensure_no_blocks_outside: the step
\* the session continues with, or "refused".
Opened ==
  CASE req.mode = "create" -> IF DirectoryEmpty THEN "nodeInfo" ELSE "refused"
    [] req.mode = "overwrite" ->
         IF DirectoryEmpty THEN "nodeInfo"
         ELSE IF disk[File("manifest")] # Absent THEN "clear" ELSE "refused"
    [] req.mode = "resume" ->
         IF \A h \in HeldHeights : InInterval(h, req.interval)
         THEN "nodeInfo" ELSE "refused"

Open ==
  /\ pc = "open"
  /\ IF Opened = "refused"
     THEN Stop("refused") /\ UNCHANGED dirVars
     ELSE Continue(Opened, mem)
  /\ UNCHANGED <<nodeVars, faults>>

\* remove_dir_all deletes one entry at a time, the entries of a directory in
\* no particular order, and empties a folder it has entered before the next.
ClearOne(p) ==
  /\ pc = "clear"
  /\ stage \in {"ready", Folder(p)}
  /\ \/ /\ disk[p] # Absent
        /\ disk' = [disk EXCEPT ![p] = Absent]
        /\ UNCHANGED partial
     \/ /\ partial[p] # Absent
        /\ partial' = [partial EXCEPT ![p] = Absent]
        /\ UNCHANGED disk
  /\ stage' = IF Folder(p) # "root"
                 /\ \E o \in Paths : Folder(o) = Folder(p)
                                       /\ (disk'[o] # Absent \/ partial'[o] # Absent)
              THEN Folder(p) ELSE "ready"
  /\ UNCHANGED <<nodeVars, pc, req, cursor, mem, recorded, outcome, faults>>

Cleared ==
  /\ pc = "clear" /\ stage = "ready"
  /\ DirectoryEmpty
  /\ Continue("nodeInfo", mem)
  /\ UNCHANGED <<nodeVars, faults>>

-----------------------------------------------------------------------------
\* write_atomically: create the partial file, fill and sync it, rename it.

\* Slip: both files of a height are given the block's path.
BlockTarget == IF pc \in HeightWrites THEN BlockFile(cursor) ELSE File(pc)

Target ==
  IF pc = "block" THEN BlockFile(cursor)
  ELSE IF pc = "pools" THEN PoolsFile(cursor)
  ELSE File(pc)

\* build_manifest and finish: the summary figures come from the probe and from
\* the last height captured, the file list from what was recorded.
BuiltManifest ==
  [interval |-> req.interval, anchor |-> mem.anchor, end |-> mem.last, files |-> recorded]

Body ==
  CASE pc \in {"nodeInfo", "chainStart", "chainEnd", "environment"} -> mem.stamp
    [] pc \in {"anchorBlock", "block"} -> mem.hex
    [] pc = "anchorPools" -> mem.anchor
    [] pc = "pools" -> mem.pools
    [] pc = "command" -> req.interval
    [] pc = "toolVersion" -> ToolVersion
    [] pc \in Seals -> BuiltManifest

CreatePartial ==
  /\ pc \in WriteSteps /\ stage = "ready"
  /\ partial' = [partial EXCEPT ![Target] = Torn]
  /\ stage' = "created"
  /\ UNCHANGED <<nodeVars, disk, pc, req, cursor, mem, recorded, outcome, faults>>

FillAndSync ==
  /\ pc \in WriteSteps /\ stage = "created"
  /\ partial' = [partial EXCEPT ![Target] = Body]
  /\ stage' = "synced"
  /\ UNCHANGED <<nodeVars, disk, pc, req, cursor, mem, recorded, outcome, faults>>

\* Slip: renamed before the contents are known to be written.
RenameUnsynced(p) ==
  /\ stage \in {"created", "synced"}
  /\ disk' = [disk EXCEPT ![p] = partial[p]]
  /\ partial' = [partial EXCEPT ![p] = Absent]

\* fs::rename: whatever the partial file holds appears under the final name.
Rename(p) ==
  /\ stage = "synced"
  /\ disk' = [disk EXCEPT ![p] = partial[p]]
  /\ partial' = [partial EXCEPT ![p] = Absent]

\* The step after a file of its own has been published.
Following(step) ==
  CASE step = "nodeInfo" -> "chainStart"
    [] step = "chainStart" -> "getAnchor"
    [] step = "anchorBlock" -> "anchorPools"
    [] step = "anchorPools" -> "getBlock"
    [] step = "block" -> "pools"
    [] step = "chainEnd" -> "environment"
    [] step = "environment" -> "command"
    [] step = "command" -> "toolVersion"
    [] step = "toolVersion" -> "manifest"

\* BundleWriter::record after the rename: the digest of what was written.
PublishFile ==
  /\ pc \in (FixedKinds \cup {"block"})
  /\ Rename(Target)
  /\ recorded' = [recorded EXCEPT ![Target] = Body]
  /\ pc' = Following(pc)
  /\ stage' = "ready"
  /\ UNCHANGED <<nodeVars, req, cursor, mem, outcome, faults>>

\* The next height, or the closing re-read once the last one is in.
NextHeight ==
  IF cursor < req.interval.end
  THEN pc' = "getBlock" /\ cursor' = cursor + 1
  ELSE pc' = "recheck" /\ cursor' = cursor

PublishPools ==
  /\ pc = "pools"
  /\ Rename(Target)
  /\ recorded' = [recorded EXCEPT ![Target] = Body]
  /\ mem' = [mem EXCEPT !.last = mem.pools]
  /\ stage' = "ready"
  /\ NextHeight
  /\ UNCHANGED <<nodeVars, req, outcome, faults>>

PublishManifest ==
  /\ pc = "manifest"
  /\ Rename(Target)
  /\ pc' = "manifestHash"
  /\ stage' = "ready"
  /\ UNCHANGED <<nodeVars, req, cursor, mem, recorded, outcome, faults>>

PublishDigest ==
  /\ pc = "manifestHash"
  /\ Rename(Target)
  /\ Stop("ok")
  /\ UNCHANGED <<nodeVars, faults>>

-----------------------------------------------------------------------------
\* write_anchor: bytes already present are adopted, otherwise fetched.

\* Slip: the digest of an adopted anchor is taken from the node's answer.
AdoptAnchorUnread ==
  /\ pc = "getAnchor"
  /\ disk[File("anchorBlock")] # Absent
  /\ recorded' = [recorded EXCEPT ![File("anchorBlock")] = mem.anchor.block]
  /\ pc' = "anchorPools"
  /\ UNCHANGED <<nodeVars, dirVars, req, cursor, stage, mem, outcome, faults>>

AdoptAnchor ==
  /\ pc = "getAnchor"
  /\ disk[File("anchorBlock")] # Absent
  /\ recorded' = [recorded EXCEPT ![File("anchorBlock")] = disk[File("anchorBlock")]]
  /\ pc' = "anchorPools"
  /\ UNCHANGED <<nodeVars, dirVars, req, cursor, stage, mem, outcome, faults>>

FetchAnchor ==
  /\ pc = "getAnchor"
  /\ disk[File("anchorBlock")] = Absent
  /\ Continue("anchorBlock",
              [mem EXCEPT !.hex = BlockAt[chain][AnchorHeight(req.interval)]])
  /\ UNCHANGED <<nodeVars, faults>>

\* fetch::height.  Both files present: adopt both.  Otherwise two calls to the
\* node, which may follow another chain by the second, then two writes.

\* Slip: what is on disk is never looked for.
NeverPresent(h) == FALSE

HeightPresent(h) == disk[BlockFile(h)] # Absent /\ disk[PoolsFile(h)] # Absent

\* Slip: a block found on disk is skipped without being recorded.
AdoptPoolsOnly ==
  /\ pc = "getBlock"
  /\ HeightPresent(cursor)
  /\ PoolStateUsable(disk[PoolsFile(cursor)])
  /\ recorded' = [recorded EXCEPT ![PoolsFile(cursor)] = disk[PoolsFile(cursor)]]
  /\ mem' = [mem EXCEPT !.last = disk[PoolsFile(cursor)]]
  /\ NextHeight
  /\ UNCHANGED <<nodeVars, dirVars, req, stage, outcome, faults>>

AdoptHeight ==
  /\ pc = "getBlock"
  /\ HeightPresent(cursor)
  /\ PoolStateUsable(disk[PoolsFile(cursor)])
  /\ recorded' = [recorded EXCEPT ![BlockFile(cursor)] = disk[BlockFile(cursor)],
                                  ![PoolsFile(cursor)] = disk[PoolsFile(cursor)]]
  /\ mem' = [mem EXCEPT !.last = disk[PoolsFile(cursor)]]
  /\ NextHeight
  /\ UNCHANGED <<nodeVars, dirVars, req, stage, outcome, faults>>

FetchBlock ==
  /\ pc = "getBlock"
  /\ ~ HeightPresent(cursor)
  /\ Continue("getObject", [mem EXCEPT !.hex = BlockAt[chain][cursor]])
  /\ UNCHANGED <<nodeVars, faults>>

FetchObject ==
  /\ pc = "getObject"
  /\ \E answer \in BlockObjects(cursor) :
       /\ PoolStateUsable(answer)
       /\ Continue("block", [mem EXCEPT !.pools = answer])
  /\ UNCHANGED <<nodeVars, faults>>

\* The end block is read again, then getblockchaininfo for the closing file.
Recheck ==
  /\ pc = "recheck"
  /\ \E answer \in BlockObjects(req.interval.end) :
       /\ PoolStateUsable(answer)
       /\ IF EndBlockUnchanged(mem.last, answer)
          THEN Continue("chainEnd", mem)
          ELSE Stop("refused") /\ UNCHANGED dirVars
  /\ UNCHANGED <<nodeVars, faults>>

-----------------------------------------------------------------------------
\* An error is returned, or the process dies.
Interrupt ==
  /\ pc # "idle"
  /\ faults < MaxFaults
  /\ faults' = faults + 1
  /\ Stop("interrupted")
  /\ UNCHANGED <<nodeVars, dirVars>>

\* The operator, the node, the session.
Operator == \E m \in Modes, i \in Intervals : Start(m, i)

NodeStep ==
  /\ GrowTip \/ \E c \in Chains : Reorg(c)
  /\ UNCHANGED <<dirVars, sessionVars, faults>>

Session ==
  \/ Preflight \/ Probe \/ Open \/ (\E p \in Paths : ClearOne(p)) \/ Cleared
  \/ CreatePartial \/ FillAndSync
  \/ PublishFile \/ PublishPools \/ PublishManifest \/ PublishDigest
  \/ AdoptAnchor \/ FetchAnchor \/ AdoptHeight \/ FetchBlock \/ FetchObject \/ Recheck

Next == Operator \/ NodeStep \/ Session \/ Interrupt

Spec == Init /\ [][Next]_vars

\* A running session takes its next step, the tip keeps advancing, and the
\* operator comes back to every mode again and again.
FairSpec ==
  /\ Spec
  /\ WF_vars(Session)
  /\ WF_vars(GrowTip /\ UNCHANGED <<dirVars, sessionVars, faults>>)
  /\ \A m \in Modes : SF_vars(\E i \in Intervals : Start(m, i))

-----------------------------------------------------------------------------
DirectoryTypeOK(d) ==
  /\ DOMAIN d = Paths
  /\ \A p \in Paths : d[p] \in ContentOf(p) \cup {Absent, Torn}

TypeOK ==
  /\ NodeTypeOK
  /\ DirectoryTypeOK(disk)
  /\ DirectoryTypeOK(partial)
  /\ pc \in WriteSteps \cup ReadSteps \cup {"idle"}
  /\ req \in [mode : Modes, interval : Intervals]
  /\ cursor \in Heights
  /\ stage \in {"ready", "created", "synced", "anchor", "blocks", "rpc", "metadata"}
  /\ mem \in Memory
  /\ recorded \in Listing
  /\ outcome \in Outcomes
  /\ faults \in 0 .. MaxFaults
=============================================================================
