--------------------------- MODULE MCEvidenceFiles ---------------------------
(***************************************************************************)
(* One block in the answers of nodes of several kinds: of other releases,  *)
(* at other moments, upgrading their database, or at fault.                *)
(***************************************************************************)
EXTENDS EvidenceFiles, TLC

MCPools == {"sapling", "orchard", "ironwood"}
MCReconstructed == {"orchard", "ironwood"}
MCMalformedDigests == {<<"short">>, <<"UPPER">>}

Pool(id, balance) ==
  [id |-> id, balance |-> balance, delta |-> 1, monitored |-> balance # 0,
   float |-> Absent]

Sapling == Pool("sapling", 1)
Orchard == Pool("orchard", 2)
Ironwood == Pool("ironwood", 0)
\* A pool of a later upgrade, in another unit.
Later == Pool("lockbox2", MaxMoney + 1)

\* Nodes as they should be: other orders, other pools, more or fewer fields.
Sound ==
  {<<Orchard, Ironwood>>, <<Ironwood, Orchard>>, <<Sapling, Orchard, Ironwood>>,
   <<Sapling, Orchard, Later, Ironwood>>,
   <<[Orchard EXCEPT !.float = 7], Ironwood>>,
   <<[Orchard EXCEPT !.monitored = Absent], Ironwood>>,
   <<[Orchard EXCEPT !.delta = Absent], Ironwood>>}

\* Nodes that repeat a pool, leave a figure out or state what is no amount.
Faulty ==
  {<<Orchard, Ironwood, [Orchard EXCEPT !.balance = 1]>>,
   <<Orchard, Ironwood, [Orchard EXCEPT !.balance = Absent]>>,
   <<Orchard>>, <<>>,
   <<Orchard, [Ironwood EXCEPT !.balance = Absent]>>,
   <<Orchard, [Ironwood EXCEPT !.balance = Text]>>,
   <<Orchard, [Ironwood EXCEPT !.balance = MaxMoney]>>,
   <<Orchard, [Ironwood EXCEPT !.delta = -MaxMoney - 1]>>,
   <<Orchard, Ironwood, [Later EXCEPT !.id = Absent]>>,
   <<Orchard, Ironwood, [Later EXCEPT !.delta = Text]>>}

Answer(pools, moment) ==
  [hash |-> "block", height |-> Height, pools |-> pools,
   confirmations |-> moment, next |-> IF moment = 1 THEN Absent ELSE "next"]

\* The answer is about something else, or is not what was asked for.
Stray ==
  LET r == Answer(<<Orchard, Ironwood>>, 1)
  IN  {[r EXCEPT !.height = Height + 1], [r EXCEPT !.height = Absent],
       [r EXCEPT !.hash = Text], [r EXCEPT !.hash = "sibling"],
       [r EXCEPT !.pools = Absent], [r EXCEPT !.pools = Text]}

MCResponses ==
  {Answer(p, 1) : p \in Sound \cup Faulty} \cup {Answer(<<Orchard, Ironwood>>, 2)} \cup Stray
=============================================================================
