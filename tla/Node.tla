-------------------------------- MODULE Node --------------------------------
(***************************************************************************)
(* The node a capture reads from.  It is not part of the repository: it is *)
(* modelled from what src/rpc/method.rs asks of it and from what the       *)
(* capture guards say about it.  The node follows one chain at a time; its *)
(* tip advances, and a reorganisation makes it follow another chain.       *)
(***************************************************************************)
EXTENDS Blockchain

CONSTANTS
  MaxReorgDepth,  \* a reorganisation replaces at most this many blocks below the tip
  MaxReorgs,      \* bound: reorganisations in one behaviour
  FirstTips       \* the tips the node may have when a behaviour begins

ASSUME NodeAssumption ==
  /\ MaxReorgDepth \in Nat
  /\ MaxReorgs \in Nat
  /\ FirstTips \subseteq Heights

VARIABLES
  chain,   \* the chain the node follows
  tip,     \* the height of its validated tip
  reorgs   \* reorganisations so far

nodeVars == <<chain, tip, reorgs>>

NodeTypeOK ==
  /\ chain \in Chains
  /\ tip \in Heights
  /\ reorgs \in 0 .. MaxReorgs

NodeInit ==
  /\ chain \in Chains
  /\ tip \in FirstTips
  /\ reorgs = 0

\* A block is appended: the tip advances.
GrowTip ==
  /\ tip < MaxTip
  /\ tip' = tip + 1
  /\ UNCHANGED <<chain, reorgs>>

\* The node abandons its chain for one that differs only in the last
\* MaxReorgDepth blocks below the tip.
Reorg(c) ==
  /\ reorgs < MaxReorgs
  /\ c # chain
  /\ \A h \in Heights : h + MaxReorgDepth <= tip => BlockAt[c][h] = BlockAt[chain][h]
  /\ chain' = c
  /\ reorgs' = reorgs + 1
  /\ UNCHANGED tip
=============================================================================
