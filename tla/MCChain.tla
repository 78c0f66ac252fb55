------------------------------ MODULE MCChain ------------------------------
(* A small family of chains for TLC.  Chain n leaves a common trunk at      *)
(* height n and shares nothing with any other from there on; a chain that   *)
(* leaves above MaxTip is the trunk itself.                                 *)
EXTENDS Blockchain

MCBlock(c, h) == [branch |-> IF h < c THEN 0 ELSE c, level |-> h]
MCBlockAt == [c \in Chains |-> [h \in 0 .. MaxTip |-> MCBlock(c, h)]]
MCBlocks == {MCBlock(c, h) : c \in Chains, h \in 0 .. MaxTip}
MCHeightOf == [b \in MCBlocks |-> b.level]
MCParent ==
  [b \in {x \in MCBlocks : x.level > 0} |->
     IF b.branch = 0 THEN MCBlock(b.level, b.level - 1) ELSE MCBlock(b.branch, b.level - 1)]
=============================================================================
