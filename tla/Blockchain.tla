----------------------------- MODULE Blockchain -----------------------------
(***************************************************************************)
(* Blocks and the chains they form, as far as the tool relies on them.     *)
(* A block is an opaque value that carries its height and its parent, as   *)
(* a header does.  Hash chaining is an assumption: two chains that hold    *)
(* the same block hold the same blocks below it.                           *)
(***************************************************************************)
EXTENDS Integers

CONSTANTS
  Chains,     \* the branches the network may follow
  Blocks,     \* block identities; equal identities mean equal bytes and hash
  MaxTip,     \* bound: no chain grows beyond this height
  BlockAt,    \* BlockAt[c][h] is the block of chain c at height h
  HeightOf,   \* the height a block claims
  Parent      \* the previous-block hash a block carries

Heights == 0 .. MaxTip

ASSUME ChainAssumption ==
  /\ MaxTip \in Nat
  /\ BlockAt \in [Chains -> [Heights -> Blocks]]
  /\ HeightOf \in [Blocks -> Heights]
  /\ \A b \in Blocks : \E c \in Chains, h \in Heights : b = BlockAt[c][h]
  /\ \A c \in Chains, h \in Heights : HeightOf[BlockAt[c][h]] = h
  /\ \A c \in Chains, h \in Heights \ {0} : Parent[BlockAt[c][h]] = BlockAt[c][h - 1]
  /\ \A c, d \in Chains, h \in Heights :
       BlockAt[c][h] = BlockAt[d][h] => \A k \in 0 .. h : BlockAt[c][k] = BlockAt[d][k]
=============================================================================
