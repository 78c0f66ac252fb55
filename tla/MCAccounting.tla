---------------------------- MODULE MCAccounting ----------------------------
(* Small intervals around the activation height: what an honest node reports  *)
(* of every small pair of blocks, what a node with other balances of its own  *)
(* would, and honest evidence with one thing wrong.                           *)
EXTENDS Reports

Values == - MaxMoney .. MaxMoney

Tx(o, i) == [value |-> [p \in Pools |-> IF p = "orchard" THEN o ELSE i], native |-> TRUE]
Moving(p, v) == IF p = "orchard" THEN Tx(v, 0) ELSE Tx(0, v)

One(p) == {<<>>} \cup {<<Moving(p, v)>> : v \in Values \ {0}}
Two(p) == One(p) \cup {<<Moving(p, v), Moving(p, w)>> : v, w \in Values \ {0}}
Crossing == {<<Tx(v, w)>> : v, w \in Values}

Balances(o, i) == [p \in Pools |-> IF p = "orchard" THEN o ELSE i]
Anchors == {Balances(o, i) : o \in {0, MaxMoney}, i \in {0, 1}}

Lost(block, p) == MapThenSumSet(LAMBDA i : block[i].value[p], DOMAIN block)
Held(blocks, anchor, s, h) ==
  [p \in Pools |-> anchor[p] - MapThenSumSet(LAMBDA k : Lost(blocks[k], p), s .. h)]

\* What a node that holds those balances reports of the interval s .. e.
Report(s, e, blocks, anchor, held) ==
  [start |-> s, end |-> e, blocks |-> blocks,
   anchor |-> [balance |-> anchor, delta |-> Balances(0, 0)],
   records |-> [h \in s .. e |->
      [balance |-> held[h],
       delta |-> [p \in Pools |-> held[h][p] - (IF h = s THEN anchor[p] ELSE held[h - 1][p])]]],
   declared |-> [anchor |-> anchor, end |-> held[e], activation |-> Activation],
   linked |-> TRUE, anchorBlock |-> TRUE, unlisted |-> FALSE]

Honest(s, e, blocks, anchor) ==
  Report(s, e, blocks, anchor, [h \in s .. e |-> Held(blocks, anchor, s, h)])

Pairs(B) == {<<b, c>> : b, c \in B}
Singles(h, B) == {[k \in {h} |-> b] : b \in B}

HonestReports ==
  UNION {{Honest(1, 2, blocks, a) : blocks \in Pairs(Two(p)) \cup Pairs(Crossing), a \in Anchors} : p \in Pools}
    \cup UNION {{Honest(h, h, blocks, a) : blocks \in Singles(h, Two(p)), a \in Anchors} : h \in 1 .. 2, p \in Pools}

\* A node whose own balances are none the blocks lead to.
OtherReports ==
  UNION {{Report(1, 2, blocks, a, <<Balances(o, i), Balances(q, i)>>) :
            blocks \in Pairs(One(p)), a \in Anchors, o, q \in 0 .. MaxMoney, i \in 0 .. 1} : p \in Pools}
    \cup UNION {{Report(h, h, blocks, a, [k \in {h} |-> Balances(o, 0)]) :
                  blocks \in Singles(h, Two(p)), a \in Anchors, o \in 0 .. MaxMoney} : h \in 1 .. 2, p \in Pools}

Bases ==
  {Honest(1, 2, << <<Moving("orchard", v)>>, <<Tx(1, -1)>> >>, Balances(MaxMoney - 1, 0)) : v \in {-1, 1}}
    \cup {Honest(2, 2, [k \in {2} |-> <<Tx(1, -1), Tx(0, 1)>>], Balances(1, 0))}

Other(v) == {v, Absent, MaxMoney + 1}

Disturbed(e) ==
  {[e EXCEPT !.records[h].balance[p] = v] : h \in e.start .. e.end, p \in Pools, v \in Other(0)}
    \cup {[e EXCEPT !.records[h].delta[p] = v] : h \in e.start .. e.end, p \in Pools, v \in Other(2)}
    \cup {[e EXCEPT !.anchor.balance[p] = v] : p \in Pools, v \in Other(1)}
    \cup {[e EXCEPT !.anchor.delta[p] = v] : p \in Pools, v \in Other(1)}
    \cup {[e EXCEPT !.declared.anchor[p] = 2] : p \in Pools}
    \cup {[e EXCEPT !.declared.end[p] = 2] : p \in Pools}
    \cup {[e EXCEPT !.declared.activation = 3], [e EXCEPT !.linked = FALSE],
          [e EXCEPT !.anchorBlock = FALSE], [e EXCEPT !.unlisted = TRUE],
          [e EXCEPT !.blocks[e.end][1].native = FALSE]}
    \cup {[e EXCEPT !.blocks[e.end][1].value[p] = MaxMoney + 1] : p \in Pools}

\* Figures are 64-bit integers, and a manifest states amounts of money.
WithinLong(e) ==
  /\ \A h \in e.start .. e.end : e.records[h] \in Record
  /\ e.declared.end \in [Pools -> Money]

MCEvidence ==
  {e \in HonestReports \cup OtherReports \cup Bases \cup UNION {Disturbed(e) : e \in Bases} : WithinLong(e)}
=============================================================================
