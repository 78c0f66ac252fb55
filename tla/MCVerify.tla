------------------------------ MODULE MCVerify ------------------------------
(* Verification of every small directory: an interval of two heights, two    *)
(* branches that part above the anchor, and files that may be missing, at    *)
(* the wrong height, of the wrong branch, unlisted, altered or left over.    *)
EXTENDS Verify, MCChain

Interval == [start |-> 1, end |-> 2]
MCIntervals == {Interval}

Record(b) == [block |-> b, usable |-> TRUE]
Unusable(b) == [block |-> b, usable |-> FALSE]
Base == MCBlock(CHOOSE c \in Chains : TRUE, 0)
Level(h) == {MCBlock(c, h) : c \in Chains}

AnchorBlocks == {Base, MCBlock(CHOOSE c \in Chains : TRUE, 1), Absent}
AnchorRecords == {Record(Base), Unusable(Base), Absent} \cup {Record(b) : b \in Level(1)}
FirstBlocks == Level(1) \cup {Absent, Base}
FirstRecords == {Record(b) : b \in Level(1)} \cup {Absent}
LastBlocks == Level(2) \cup {MCBlock(CHOOSE c \in Chains : TRUE, 1)}
LastRecords == {Record(b) : b \in Level(2)}

Held(ab, ar, b1, r1, b2, r2) ==
  [p \in Evidence |->
     CASE p = File("anchorBlock") -> ab
       [] p = File("anchorPools") -> ar
       [] p = BlockFile(1) -> b1
       [] p = PoolsFile(1) -> r1
       [] p = BlockFile(2) -> b2
       [] p = PoolsFile(2) -> r2
       [] p = File("command") -> Interval
       [] p = File("toolVersion") -> ToolVersion
       [] p.kind \in FixedKinds -> CHOOSE s \in Stamps : TRUE
       [] OTHER -> Absent]

Holdings ==
  {Held(ab, ar, b1, r1, b2, r2) :
     ab \in AnchorBlocks, ar \in AnchorRecords, b1 \in FirstBlocks,
     r1 \in FirstRecords, b2 \in LastBlocks, r2 \in LastRecords}

\* The files of one branch.
OfBranch(c) ==
  Held(Base, Record(Base), MCBlock(c, 1), Record(MCBlock(c, 1)), MCBlock(c, 2), Record(MCBlock(c, 2)))

Claim(files, e) ==
  [interval |-> Interval, anchor |-> Record(Base), end |-> Record(e), files |-> files]

NoLeftover == [p \in Paths |-> Absent]
OneLeftover == [NoLeftover EXCEPT ![BlockFile(2)] = Torn]

Directory(held, m, seal, q) ==
  [disk |-> [p \in Paths |-> IF p = File("manifest") THEN m
                             ELSE IF p = File("manifestHash") THEN seal
                             ELSE held[p]],
   partial |-> q]

\* Whatever is held, listed in full and pinned.
Resealed ==
  {Directory(held, Claim(held, e), Claim(held, e), NoLeftover) :
     held \in Holdings, e \in Level(2)}

\* One branch, with a listing that omits or misstates a file, a digest file
\* that is missing or pins another manifest, a leftover, or no manifest.
Listings(held) ==
  {held,
   [held EXCEPT ![PoolsFile(2)] = Absent],
   [held EXCEPT ![File("anchorBlock")] = Absent],
   [held EXCEPT ![BlockFile(2)] = Base]}

Disturbed(held, m) ==
  {Directory(held, m, seal, q) :
     seal \in {m, Absent, [m EXCEPT !.anchor = Unusable(Base)]}, q \in {NoLeftover, OneLeftover}}

MCDirectories ==
  Resealed
    \cup UNION {Disturbed(OfBranch(c), Claim(files, e)) :
                  c \in Chains, files \in UNION {Listings(OfBranch(d)) : d \in Chains}, e \in Level(2)}
    \cup {Directory(OfBranch(c), Absent, Absent, NoLeftover) : c \in Chains}
=============================================================================
