----------------------------- MODULE Validation -----------------------------
(***************************************************************************)
(* validate_bundle (src/evidence/validation.rs): do the bytes on disk      *)
(* still match what the manifest claims?  A bundle directory is a pair d,  *)
(* q: the contents under final names and under `.partial` names.           *)
(***************************************************************************)
EXTENDS Bundle

HasManifest(d) == d[File("manifest")] # Absent
ManifestOf(d) == d[File("manifest")]

Listed(m) == {p \in Evidence : m.files[p] # Absent}

\* verify_manifest_digest: an absent digest is only a warning.
DigestMismatch(d) == d[File("manifestHash")] \notin {Absent, ManifestOf(d)}

\* Listed files that are missing, or whose size or digest differs.
Damaged(d) == {p \in Listed(ManifestOf(d)) : d[p] # ManifestOf(d).files[p]}

\* ValidationReport::is_valid.
IsValid(d) == ~ DigestMismatch(d) /\ Damaged(d) = {}

\* collect_unlisted: every file but the manifest, its digest and what it
\* lists; a leftover `.partial` name is one.
Unlisted(d, q) ==
  {p \in Evidence \ Listed(ManifestOf(d)) : d[p] # Absent}
    \cup {p \in Paths : q[p] # Absent}

-----------------------------------------------------------------------------
\* What a finished bundle promises, stated independently of how it is checked.

\* The files the manifest's interval calls for, and no others.
Required(i) ==
  {File(k) : k \in FixedKinds}
    \cup {BlockFile(h) : h \in i.start .. i.end}
    \cup {PoolsFile(h) : h \in i.start .. i.end}

\* Every promised file is there, listed and unaltered, and the manifest is
\* pinned.
Sealed(d) ==
  /\ HasManifest(d)
  /\ Listed(ManifestOf(d)) = Required(ManifestOf(d).interval)
  /\ d[File("manifestHash")] = ManifestOf(d)
  /\ IsValid(d)

\* The blocks of interval i and the records beside them are those of chain c.
OnChain(d, i, c) ==
  \A h \in i.start .. i.end :
    /\ d[BlockFile(h)] = BlockAt[c][h]
    /\ d[PoolsFile(h)] # Absent
    /\ d[PoolsFile(h)].block = BlockAt[c][h]

AnchoredOn(d, i, c) ==
  /\ d[File("anchorBlock")] = BlockAt[c][AnchorHeight(i)]
  /\ d[File("anchorPools")] # Absent
  /\ d[File("anchorPools")].block = BlockAt[c][AnchorHeight(i)]

\* One chain has the anchor, the blocks of the interval with their records, and
\* the end that the manifest claims.
OneChain(d) ==
  LET i == ManifestOf(d).interval
  IN  \E c \in Chains :
        AnchoredOn(d, i, c) /\ OnChain(d, i, c) /\ ManifestOf(d).end.block = BlockAt[c][i.end]

\* Every file that is there can be read as what its path calls for.
Readable(d) == \A p \in Paths : d[p] \in ContentOf(p) \cup {Absent}

\* A sealed bundle of one chain, with nothing else in its directory.
SealedOneChain(d, q) ==
  /\ Sealed(d) /\ OneChain(d)
  /\ Unlisted(d, q) = {}
  /\ d[File("anchorPools")].usable
=============================================================================
