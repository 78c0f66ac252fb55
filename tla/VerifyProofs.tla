---------------------------- MODULE VerifyProofs ----------------------------
(***************************************************************************)
(* Proofs about Verify, for every directory, chain and interval: a bundle  *)
(* accepted with exit code 0 is one chain, and a sealed bundle of one      *)
(* chain is accepted.                                                      *)
(***************************************************************************)
EXTENDS Verify, TLAPS

AnchorBlock == file(File("anchorBlock"))
AnchorRecord == file(File("anchorPools"))

\* What has been checked of the anchor and of height h.
AnchorChecked ==
  /\ AnchorRecord # Absent
  /\ AnchorBlock # Absent =>
       HeightOf[AnchorBlock] = AnchorHeight(interval) /\ AnchorRecord.block = AnchorBlock

Checked(h) ==
  /\ file(BlockFile(h)) # Absent
  /\ HeightOf[file(BlockFile(h))] = h
  /\ file(PoolsFile(h)) # Absent
  /\ file(PoolsFile(h)).block = file(BlockFile(h))

\* The anchor and the heights up to n are one chain.
LinkedTo(n) ==
  \E c \in Chains :
    /\ AnchorBlock = BlockAt[c][AnchorHeight(interval)]
    /\ \A h \in interval.start .. n : file(BlockFile(h)) = BlockAt[c][h]

WalkInv ==
  /\ phase \notin {"validate", "done"} => HasManifest(dir.disk)
  /\ phase \notin {"done"} => verdict = "pending"
  /\ phase = "anchor" => at = AnchorHeight(interval)
  /\ phase \in {"heights", "links", "report"} => AnchorChecked
  /\ phase \in {"heights", "links"} => InInterval(at, interval)
  /\ phase = "heights" => \A h \in interval.start .. at - 1 : Checked(h)
  /\ phase \in {"links", "report"} => \A h \in interval.start .. interval.end : Checked(h)
  /\ phase = "links" /\ AnchorBlock # Absent => LinkedTo(at - 1)
  /\ phase = "report" /\ AnchorBlock # Absent /\ intact => LinkedTo(interval.end) /\ EndHolds
  /\ verdict \in Accepted =>
       /\ HasManifest(dir.disk)
       /\ AnchorBlock # Absent
       /\ AnchorChecked
       /\ \A h \in interval.start .. interval.end : Checked(h)
       /\ LinkedTo(interval.end) /\ EndHolds

IInv == TypeOK /\ WalkInv

-----------------------------------------------------------------------------
LEMMA IntervalFacts ==
  ASSUME TypeOK, HasManifest(dir.disk)
  PROVE  /\ manifest \in Manifest /\ interval \in Intervals
         /\ interval.start \in Nat \ {0} /\ interval.end \in Nat /\ interval.start <= interval.end
         /\ MaxTip \in Nat /\ interval.end <= MaxTip
         /\ AnchorHeight(interval) \in Nat /\ AnchorHeight(interval) < interval.start
<1>1. File("manifest") \in Paths
  BY DEF Paths, Seals
<1>2. manifest \in ContentOf(File("manifest"))
  BY <1>1 DEF TypeOK, Readable, HasManifest, ManifestOf, manifest
<1>3. manifest \in Manifest
  BY <1>2 DEF ContentOf, File, Seals
<1>4. interval \in Intervals
  BY <1>3 DEF Manifest, interval
<1> QED BY <1>3, <1>4, IntervalAssumption, ChainAssumption DEF Heights, AnchorHeight

\* What is read from a path, when it is there.
LEMMA FileFacts ==
  ASSUME TypeOK
  PROVE  /\ AnchorBlock \in Blocks \cup {Absent} /\ AnchorRecord \in PoolRecord \cup {Absent}
         /\ \A h \in Heights : /\ file(BlockFile(h)) \in Blocks \cup {Absent}
                               /\ file(PoolsFile(h)) \in PoolRecord \cup {Absent}
<1>1. File("anchorBlock") \in Paths /\ File("anchorPools") \in Paths
  BY DEF Paths, Evidence, FixedKinds, MetaKinds
<1>2. \A h \in Heights : BlockFile(h) \in Paths /\ PoolsFile(h) \in Paths
  BY DEF Paths, Evidence
<1>3. /\ ContentOf(File("anchorBlock")) = Blocks /\ ContentOf(File("anchorPools")) = PoolRecord
      /\ \A h \in Heights : ContentOf(BlockFile(h)) = Blocks /\ ContentOf(PoolsFile(h)) = PoolRecord
  BY DEF ContentOf, File, BlockFile, PoolsFile, Seals
<1> QED BY <1>1, <1>2, <1>3 DEF TypeOK, Readable, file, AnchorBlock, AnchorRecord

\* A block whose parent is on a chain is on a chain with everything below it.
LEMMA ParentPutsOnChain ==
  ASSUME NEW c \in Chains, NEW b \in Blocks, NEW h \in Heights \ {0},
         HeightOf[b] = h, Parent[b] = BlockAt[c][h - 1]
  PROVE  \E d \in Chains : /\ b = BlockAt[d][h]
                           /\ \A k \in 0 .. h - 1 : BlockAt[d][k] = BlockAt[c][k]
<1>1. PICK d \in Chains, k \in Heights : b = BlockAt[d][k]
  BY ChainAssumption
<1>2. k = h
  BY <1>1, ChainAssumption
<1>3. BlockAt[d][h - 1] = BlockAt[c][h - 1]
  BY <1>1, <1>2, ChainAssumption
<1>4. h - 1 \in Heights
  BY ChainAssumption DEF Heights
<1> QED BY <1>1, <1>2, <1>3, <1>4, ChainAssumption

-----------------------------------------------------------------------------
\* The steps of the walk.

LEMMA ValidateKeeps ==
  ASSUME IInv, Validate
  PROVE  IInv'
<1>1. CASE verdict' \in {"noManifest", "invalid"} /\ phase' = "done" /\ UNCHANGED <<dir, at, intact>>
  BY <1>1 DEF IInv, TypeOK, WalkInv, Verdicts, Accepted
<1>2. CASE HasManifest(dir.disk) /\ GoTo("anchor", AnchorHeight(interval))
  <2>1. AnchorHeight(interval) \in Heights
    BY <1>2, IntervalFacts DEF IInv, Heights
  <2> QED BY <1>2, <2>1 DEF IInv, TypeOK, WalkInv, Validate, GoTo, Accepted, interval, manifest,
                            ManifestOf
<1> QED BY <1>1, <1>2 DEF Validate, Conclude

LEMMA ReadAnchorKeeps ==
  ASSUME IInv, ReadAnchor
  PROVE  IInv'
<1>1. CASE verdict' \in {"discontinuous", "missing", "unbound"} /\ phase' = "done"
           /\ UNCHANGED <<dir, at, intact>>
  BY <1>1 DEF IInv, TypeOK, WalkInv, Verdicts, Accepted
<1>2. CASE /\ AnchorBlock # Absent => ClaimsHeight(AnchorBlock, at)
           /\ AnchorRecord # Absent
           /\ AnchorBlock # Absent => Describes(AnchorRecord, AnchorBlock, at)
           /\ GoTo("heights", interval.start)
  <2>1. HasManifest(dir.disk) /\ at = AnchorHeight(interval) /\ verdict = "pending"
    BY DEF ReadAnchor, IInv, WalkInv
  <2>2. AnchorChecked
    BY <1>2, <2>1 DEF AnchorChecked, ClaimsHeight, Describes
  <2>3. InInterval(interval.start, interval) /\ interval.start \in Heights
    BY <2>1, IntervalFacts DEF IInv, InInterval, Heights
  <2>4. UNCHANGED <<AnchorBlock, AnchorRecord, interval>> /\ dir' = dir
    BY <1>2 DEF GoTo, AnchorBlock, AnchorRecord, file, interval, manifest
  <2>5. interval.start .. interval.start - 1 = {}
    BY <2>1, IntervalFacts DEF IInv
  <2>6. TypeOK'
    BY <1>2, <2>3 DEF IInv, TypeOK, GoTo
  <2>7. WalkInv'
    BY <1>2, <2>1, <2>2, <2>3, <2>4, <2>5
       DEF WalkInv, GoTo, AnchorChecked, Accepted, InInterval
  <2> QED BY <2>6, <2>7 DEF IInv
<1> QED BY <1>1, <1>2 DEF ReadAnchor, Conclude, AnchorBlock, AnchorRecord

LEMMA ReadHeightKeeps ==
  ASSUME IInv, ReadHeight
  PROVE  IInv'
<1>1. CASE verdict' \in {"discontinuous", "missing", "unbound"} /\ phase' = "done"
           /\ UNCHANGED <<dir, at, intact>>
  BY <1>1 DEF IInv, TypeOK, WalkInv, Verdicts, Accepted
<1>2. CASE /\ file(BlockFile(at)) # Absent
           /\ ClaimsHeight(file(BlockFile(at)), at)
           /\ file(PoolsFile(at)) # Absent
           /\ Describes(file(PoolsFile(at)), file(BlockFile(at)), at)
           /\ \/ at < interval.end /\ GoTo("heights", at + 1)
              \/ ~ (at < interval.end) /\ GoTo("links", interval.start)
  <2>1. /\ HasManifest(dir.disk) /\ AnchorChecked /\ verdict = "pending"
        /\ InInterval(at, interval)
        /\ \A h \in interval.start .. at - 1 : Checked(h)
    BY DEF ReadHeight, IInv, WalkInv
  <2>2. Checked(at)
    BY <1>2 DEF Checked, ClaimsHeight, Describes
  <2>3. at \in Nat /\ interval.start \in Nat /\ interval.end \in Nat /\ interval.end \in Heights
        /\ interval.start \in Heights /\ interval.start <= interval.end
    BY <2>1, IntervalFacts, ChainAssumption DEF IInv, TypeOK, Heights
  <2>4. \A h \in interval.start .. at : Checked(h)
    BY <2>1, <2>2, <2>3
  <2>5. /\ UNCHANGED <<AnchorBlock, AnchorRecord, interval>> /\ dir' = dir
        /\ \A h : Checked(h)' <=> Checked(h)
    BY <1>2 DEF GoTo, AnchorBlock, AnchorRecord, file, interval, manifest, Checked
  <2>6. CASE at < interval.end /\ GoTo("heights", at + 1)
    <3>1. at + 1 \in Heights /\ InInterval(at + 1, interval) /\ (at + 1) - 1 = at
      BY <2>1, <2>3, <2>6, ChainAssumption DEF Heights, InInterval
    <3>2. TypeOK'
      BY <2>6, <3>1 DEF IInv, TypeOK, GoTo
    <3>3. WalkInv'
      BY <2>1, <2>4, <2>5, <2>6, <3>1 DEF WalkInv, GoTo, AnchorChecked, Accepted, InInterval
    <3> QED BY <3>2, <3>3 DEF IInv
  <2>7. CASE ~ (at < interval.end) /\ GoTo("links", interval.start)
    <3>1. at = interval.end /\ InInterval(interval.start, interval)
      BY <2>1, <2>3, <2>7 DEF InInterval
    <3>2. TypeOK'
      BY <2>3, <2>7 DEF IInv, TypeOK, GoTo
    <3>3. AnchorBlock # Absent => LinkedTo(interval.start - 1)
      <4>1. interval.start .. interval.start - 1 = {}
        BY <2>3
      <4>2. ASSUME AnchorBlock # Absent
            PROVE  \E c \in Chains : AnchorBlock = BlockAt[c][AnchorHeight(interval)]
        BY <2>1, <4>2, FileFacts, ChainAssumption DEF AnchorChecked, IInv
      <4> QED BY <4>1, <4>2 DEF LinkedTo
    <3>4. LinkedTo(interval.start - 1)' <=> LinkedTo(interval.start - 1)
      BY <2>5 DEF LinkedTo, file
    <3>5. WalkInv'
      BY <2>1, <2>4, <2>5, <2>7, <3>1, <3>3, <3>4
         DEF WalkInv, GoTo, AnchorChecked, Accepted, InInterval
    <3> QED BY <3>2, <3>5 DEF IInv
  <2> QED BY <1>2, <2>6, <2>7
<1> QED BY <1>1, <1>2 DEF ReadHeight, Conclude

\* One more link extends the chain that the anchor and the heights before are on.
LEMMA LinkExtends ==
  ASSUME IInv, phase = "links", AnchorBlock # Absent, LinkHolds(at)
  PROVE  LinkedTo(at)
<1>1. /\ HasManifest(dir.disk) /\ AnchorChecked /\ InInterval(at, interval)
      /\ \A h \in interval.start .. interval.end : Checked(h)
      /\ LinkedTo(at - 1)
  BY DEF IInv, WalkInv
<1>2. PICK c \in Chains : /\ AnchorBlock = BlockAt[c][AnchorHeight(interval)]
                          /\ \A h \in interval.start .. at - 1 : file(BlockFile(h)) = BlockAt[c][h]
  BY <1>1 DEF LinkedTo
<1>3. /\ at \in Nat /\ at \in Heights \ {0} /\ interval.start \in Nat \ {0} /\ interval.end \in Nat
      /\ interval.start <= at /\ at <= interval.end
      /\ AnchorHeight(interval) = interval.start - 1
  BY <1>1, IntervalFacts DEF IInv, TypeOK, InInterval, Heights, AnchorHeight
<1>4. Checked(at) /\ file(BlockFile(at)) \in Blocks
  <2>1. Checked(at)
    BY <1>1, <1>3
  <2> QED BY <2>1, <1>3, FileFacts DEF Checked, IInv
<1>5. Parent[file(BlockFile(at))] = BlockAt[c][at - 1]
  <2>1. CASE at = interval.start
    BY <2>1, <1>2, <1>3 DEF LinkHolds, Previous, AnchorHash, AnchorBlock
  <2>2. CASE at # interval.start
    BY <2>2, <1>2, <1>3 DEF LinkHolds, Previous
  <2> QED BY <2>1, <2>2
<1>6. PICK d \in Chains : /\ file(BlockFile(at)) = BlockAt[d][at]
                          /\ \A k \in 0 .. at - 1 : BlockAt[d][k] = BlockAt[c][k]
  BY <1>3, <1>4, <1>5, ParentPutsOnChain DEF Checked
<1>7. AnchorBlock = BlockAt[d][AnchorHeight(interval)]
  BY <1>2, <1>3, <1>6
<1>8. \A h \in interval.start .. at : file(BlockFile(h)) = BlockAt[d][h]
  BY <1>2, <1>3, <1>6
<1> QED BY <1>7, <1>8 DEF LinkedTo

LEMMA LinkKeeps ==
  ASSUME IInv, Link
  PROVE  IInv'
<1>1. /\ HasManifest(dir.disk) /\ AnchorChecked /\ verdict = "pending" /\ phase = "links"
      /\ InInterval(at, interval)
      /\ \A h \in interval.start .. interval.end : Checked(h)
  BY DEF Link, IInv, WalkInv
<1>2. dir' = dir /\ verdict' = verdict
  BY DEF Link, GoTo
<1>3. /\ UNCHANGED <<AnchorBlock, AnchorRecord, interval, EndHolds>>
      /\ \A h : Checked(h)' <=> Checked(h)
      /\ \A n : LinkedTo(n)' <=> LinkedTo(n)
  BY <1>2 DEF AnchorBlock, AnchorRecord, file, interval, manifest, Checked, LinkedTo, EndHolds
<1>4. at \in Nat /\ interval.end \in Nat /\ interval.start \in Nat /\ at <= interval.end
      /\ MaxTip \in Nat /\ interval.end <= MaxTip
  BY <1>1, IntervalFacts DEF IInv, TypeOK, Heights, InInterval
<1>5. CASE ~ LinkHolds(at)
  BY <1>1, <1>2, <1>3, <1>5
     DEF Link, IInv, TypeOK, WalkInv, AnchorChecked, Accepted
<1>6. CASE LinkHolds(at) /\ at < interval.end
  <2>1. GoTo("links", at + 1)
    BY <1>6 DEF Link
  <2>2. at + 1 \in Heights /\ InInterval(at + 1, interval) /\ (at + 1) - 1 = at
    BY <1>1, <1>4, <1>6 DEF Heights, InInterval
  <2>3. TypeOK'
    BY <2>1, <2>2 DEF IInv, TypeOK, GoTo
  <2>4. AnchorBlock # Absent => LinkedTo(at)
    BY <1>1, <1>6, LinkExtends
  <2>5. WalkInv'
    BY <1>1, <1>3, <2>1, <2>2, <2>4 DEF WalkInv, GoTo, AnchorChecked, Accepted, InInterval
  <2> QED BY <2>3, <2>5 DEF IInv
<1>7. CASE LinkHolds(at) /\ ~ (at < interval.end)
  <2>1. intact' = EndHolds /\ phase' = "report" /\ UNCHANGED <<dir, at, verdict>>
    BY <1>7 DEF Link
  <2>2. at = interval.end
    BY <1>4, <1>7
  <2>3. AnchorBlock # Absent => LinkedTo(interval.end)
    BY <1>1, <1>7, <2>2, LinkExtends
  <2>4. TypeOK'
    BY <2>1 DEF IInv, TypeOK, EndHolds
  <2>5. WalkInv'
    BY <1>1, <1>3, <2>1, <2>3 DEF WalkInv, AnchorChecked, Accepted
  <2> QED BY <2>4, <2>5 DEF IInv
<1> QED BY <1>5, <1>6, <1>7

LEMMA ReportKeeps ==
  ASSUME IInv, Report
  PROVE  IInv'
<1>1. /\ phase' = "done" /\ verdict' \in {"unusable", "failed", "warned", "passed"}
      /\ UNCHANGED <<dir, at, intact>>
      /\ verdict' \in Accepted => intact /\ AnchorBlock # Absent
  BY DEF Report, Conclude, Accepted, AnchorBlock
<1>2. /\ UNCHANGED <<AnchorBlock, AnchorRecord, interval, EndHolds>>
      /\ \A h : Checked(h)' <=> Checked(h)
      /\ \A n : LinkedTo(n)' <=> LinkedTo(n)
  BY <1>1 DEF AnchorBlock, AnchorRecord, file, interval, manifest, Checked, LinkedTo, EndHolds
<1>3. phase = "report"
  BY DEF Report
<1> QED BY <1>1, <1>2, <1>3 DEF IInv, TypeOK, WalkInv, Verdicts, AnchorChecked

LEMMA InitHolds == Init => IInv
BY DirectoriesAssumption, ChainAssumption
   DEF Init, IInv, TypeOK, WalkInv, Verdicts, Accepted, Heights

LEMMA StepKeeps == IInv /\ [Next]_vars => IInv'
<1> SUFFICES ASSUME IInv, [Next]_vars PROVE IInv'
  OBVIOUS
<1>1. CASE UNCHANGED vars
  BY <1>1 DEF vars, IInv, TypeOK, WalkInv, AnchorBlock, AnchorRecord, file, interval, manifest,
              AnchorChecked, Checked, LinkedTo, EndHolds
<1> QED BY <1>1, ValidateKeeps, ReadAnchorKeeps, ReadHeightKeeps, LinkKeeps, ReportKeeps DEF Next

\* Below its position the walk has established agreement with one branch
\* (reconcile_with_manifest).
THEOREM Invariance == Spec => []IInv
BY InitHolds, StepKeeps, PTL DEF Spec

\* The walk stays at heights there are, and its verdict is one of those the
\* command has an exit code for.
THEOREM TypeCorrect == Spec => []TypeOK
BY Invariance, PTL DEF IInv

\* A bundle that is accepted is one chain, with every record beside its block:
\* what the anchor, binding and continuity checks establish together.
THEOREM Soundness == Spec => []AcceptedIsOneChain
<1>1. IInv => AcceptedIsOneChain
  <2> SUFFICES ASSUME IInv, verdict \in Accepted
               PROVE  \E c \in Chains : /\ AnchoredOn(dir.disk, interval, c)
                                        /\ OnChain(dir.disk, interval, c)
                                        /\ manifest.end.block = BlockAt[c][interval.end]
    BY DEF AcceptedIsOneChain, OneChain, interval, manifest
  <2>1. /\ HasManifest(dir.disk) /\ AnchorBlock # Absent /\ AnchorChecked
        /\ \A h \in interval.start .. interval.end : Checked(h)
        /\ LinkedTo(interval.end) /\ EndHolds
    BY DEF IInv, WalkInv
  <2>2. PICK c \in Chains :
          /\ AnchorBlock = BlockAt[c][AnchorHeight(interval)]
          /\ \A h \in interval.start .. interval.end : file(BlockFile(h)) = BlockAt[c][h]
    BY <2>1 DEF LinkedTo
  <2>3. interval.end \in interval.start .. interval.end
    BY <2>1, IntervalFacts DEF IInv
  <2>4. AnchoredOn(dir.disk, interval, c)
    BY <2>1, <2>2 DEF AnchoredOn, AnchorChecked, AnchorBlock, AnchorRecord, file
  <2>5. OnChain(dir.disk, interval, c)
    BY <2>1, <2>2 DEF OnChain, Checked, file
  <2>6. manifest.end.block = BlockAt[c][interval.end]
    BY <2>1, <2>2, <2>3 DEF EndHolds
  <2> QED BY <2>4, <2>5, <2>6
<1> QED BY <1>1, Invariance, PTL

-----------------------------------------------------------------------------
\* A sealed bundle of one chain passes.

Impeccable == SealedOneChain(dir.disk, dir.partial)

NeverRefused ==
  Impeccable =>
    /\ phase = "done" => verdict = "passed"
    /\ phase = "report" => intact

\* Each check of the walk holds of a bundle that is one chain.
LEMMA SealedChainFacts ==
  ASSUME TypeOK, Impeccable
  PROVE  /\ HasManifest(dir.disk) /\ IsValid(dir.disk)
         /\ AnchorBlock # Absent /\ AnchorRecord # Absent
         /\ HeightOf[AnchorBlock] = AnchorHeight(interval) /\ AnchorRecord.block = AnchorBlock
         /\ \A h \in interval.start .. interval.end :
              /\ Checked(h)
              /\ LinkHolds(h)
         /\ EndHolds
<1>1. HasManifest(dir.disk) /\ IsValid(dir.disk)
  BY DEF Impeccable, SealedOneChain, Sealed
<1>2. PICK c \in Chains :
        /\ AnchoredOn(dir.disk, interval, c) /\ OnChain(dir.disk, interval, c)
        /\ manifest.end.block = BlockAt[c][interval.end]
  BY DEF Impeccable, SealedOneChain, OneChain, interval, manifest
<1>3. /\ interval.start \in Nat \ {0} /\ interval.end \in Nat /\ interval.start <= interval.end
      /\ MaxTip \in Nat /\ interval.end <= MaxTip /\ AnchorHeight(interval) = interval.start - 1
  BY <1>1, IntervalFacts DEF AnchorHeight
<1>4. AnchorHeight(interval) \in Heights
  BY <1>3 DEF Heights
<1>5. Absent \notin Blocks
  BY SentinelAssumption DEF Content, EvidenceContent
<1>6. /\ AnchorBlock = BlockAt[c][AnchorHeight(interval)]
      /\ AnchorRecord # Absent /\ AnchorRecord.block = AnchorBlock
  BY <1>2 DEF AnchoredOn, AnchorBlock, AnchorRecord, file
<1>7. AnchorBlock # Absent /\ HeightOf[AnchorBlock] = AnchorHeight(interval)
  BY <1>4, <1>5, <1>6, ChainAssumption
<1>8. ASSUME NEW h \in interval.start .. interval.end
      PROVE  Checked(h) /\ LinkHolds(h)
  <2>1. h \in Heights \ {0} /\ h \in Nat
    BY <1>3 DEF Heights
  <2>2. /\ file(BlockFile(h)) = BlockAt[c][h] /\ file(PoolsFile(h)) # Absent
        /\ file(PoolsFile(h)).block = BlockAt[c][h]
    BY <1>2 DEF OnChain, file
  <2>3. Checked(h)
    BY <1>5, <2>1, <2>2, ChainAssumption DEF Checked
  <2>4. Parent[file(BlockFile(h))] = BlockAt[c][h - 1]
    BY <2>1, <2>2, ChainAssumption
  <2>5. CASE h = interval.start
    BY <1>3, <1>6, <1>7, <2>3, <2>4, <2>5 DEF LinkHolds, Previous, AnchorHash, AnchorBlock
  <2>6. CASE h # interval.start
    <3>1. h - 1 \in interval.start .. interval.end
      BY <1>3, <2>1, <2>6
    <3>2. file(BlockFile(h - 1)) = BlockAt[c][h - 1]
      BY <1>2, <3>1 DEF OnChain, file
    <3> QED BY <2>3, <2>4, <2>6, <3>2 DEF LinkHolds, Previous
  <2> QED BY <2>5, <2>6
<1>9. EndHolds
  BY <1>2, <1>3 DEF EndHolds, OnChain, file
<1> QED BY <1>1, <1>6, <1>7, <1>8, <1>9

LEMMA NeverRefusedKeeps ==
  ASSUME IInv, NeverRefused, [Next]_vars
  PROVE  NeverRefused'
<1>1. dir' = dir
  BY DEF Next, vars, Validate, ReadAnchor, ReadHeight, Link, Report, Conclude, GoTo
<1>2. Impeccable' <=> Impeccable
  BY <1>1 DEF Impeccable
<1> SUFFICES ASSUME Impeccable
             PROVE  /\ phase' = "done" => verdict' = "passed"
                    /\ phase' = "report" => intact'
  BY <1>2 DEF NeverRefused
<1>3. /\ HasManifest(dir.disk) /\ IsValid(dir.disk)
      /\ AnchorBlock # Absent /\ AnchorRecord # Absent
      /\ HeightOf[AnchorBlock] = AnchorHeight(interval) /\ AnchorRecord.block = AnchorBlock
      /\ \A h \in interval.start .. interval.end : Checked(h) /\ LinkHolds(h)
      /\ EndHolds
  BY SealedChainFacts DEF IInv
<1>4. /\ phase = "anchor" => at = AnchorHeight(interval)
      /\ phase \in {"heights", "links"} => at \in interval.start .. interval.end
  <2>1. phase \in {"heights", "links"} => InInterval(at, interval)
    BY DEF IInv, WalkInv
  <2>2. at \in Int /\ interval.start \in Int /\ interval.end \in Int
    BY <1>3, IntervalFacts DEF IInv, TypeOK, Heights
  <2> QED BY <2>1, <2>2 DEF InInterval, IInv, WalkInv
<1>5. CASE Validate
  BY <1>3, <1>5 DEF Validate, GoTo
<1>6. CASE ReadAnchor
  BY <1>3, <1>4, <1>6
     DEF ReadAnchor, GoTo, ClaimsHeight, Describes, AnchorBlock, AnchorRecord
<1>7. CASE ReadHeight
  BY <1>3, <1>4, <1>7 DEF ReadHeight, GoTo, ClaimsHeight, Describes, Checked
<1>8. CASE Link
  BY <1>3, <1>4, <1>8 DEF Link, GoTo
<1>9. CASE Report
  BY <1>3, <1>9 DEF Report, Conclude, NeverRefused, Impeccable, SealedOneChain, AnchorBlock, file
<1>10. CASE UNCHANGED vars
  BY <1>10 DEF vars, NeverRefused
<1> QED BY <1>5, <1>6, <1>7, <1>8, <1>9, <1>10 DEF Next

\* What a capture of one chain seals is accepted without a warning.
THEOREM Completeness == Spec => []SealedChainPasses
<1>1. Init => NeverRefused
  BY DEF Init, NeverRefused
<1>2. IInv /\ NeverRefused /\ [Next]_vars => NeverRefused'
  BY NeverRefusedKeeps
<1>3. NeverRefused => SealedChainPasses
  BY DEF NeverRefused, Impeccable, SealedChainPasses
<1> QED BY <1>1, <1>2, <1>3, Invariance, PTL DEF Spec
=============================================================================
