---------------------------- MODULE MCPrunedBlocks ----------------------------
(* Every shard tree of depth two in one workchain beside an unsplit one, as    *)
(* blocks of the three networks; the legacy network has blocks of two versions.*)
EXTENDS PrunedBlocks

\* The leaf sets of binary trees.
MCTrees[d \in 0..2] ==
  IF d = 0 THEN {{<<>>}}
  ELSE {{<<>>}} \cup {{<<0>> \o s : s \in l} \cup {<<1>> \o s : s \in r} :
                        l, r \in MCTrees[d - 1]}

\* A seqno of its own for each shard.
MCTops(tree) ==
  [s \in {<<0>> \o t : t \in tree} \cup {<<1>>} |-> FoldLeft(LAMBDA n, bit : 2 * n + bit, 1, s)]

MCPaths == UNION {[1..n -> {0, 1}] : n \in 0..3}
MCShards == {<<w>> \o p : w \in {0, 1, 2}, p \in MCPaths}

MCTxs == {{}, {<<1, 1>>}, {<<1, 2>>, <<2, 1>>}}

MCBlock(format, version, custom, after_fork, txs) ==
  [format |-> format, version |-> version, seqno |-> 5, txs |-> txs,
   info |-> [version |-> 6 + version, after_fork |-> after_fork, vert_seqno |-> 1],
   extra |-> [version |-> version, wrapped |-> format = "legacy" /\ version = 2],
   custom |-> custom]

MCNone == [there |-> FALSE, version |-> 0, descr |-> 0, tops |-> <<>>]
MCCustom(version, descr) ==
  {[there |-> TRUE, version |-> version, descr |-> descr, tops |-> MCTops(tree)] :
     tree \in MCTrees[2]}

MCOf(format, version, customs) ==
  {MCBlock(format, version, c, f, txs) :
     c \in customs \cup {MCNone}, f \in BOOLEAN, txs \in MCTxs}

MCBlocks ==
  MCOf("ton", 1, MCCustom(1, 11)) \cup MCOf("tycho", 2, MCCustom(1, 10))
    \cup MCOf("legacy", 1, MCCustom(1, 10)) \cup MCOf("legacy", 2, MCCustom(2, 14))
===============================================================================
