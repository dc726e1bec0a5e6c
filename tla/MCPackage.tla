------------------------------ MODULE MCPackage ------------------------------
(* Small checkpoints of every layout, and the orders given for them.       *)
EXTENDS Package, Bitwise

MCXor(a, b) == a ^^ b

T(name, comp, layer, part, proj, shape) ==
  [name |-> name, comp |-> comp, cap |-> IF comp = "vision" THEN "vision" ELSE "text",
   layer |-> layer, part |-> part, proj |-> proj, shape |-> shape]

E(bits, group, sym) == [bits |-> bits, group |-> group, sym |-> sym]

Q4 == [experts_routed |-> E(4, 3, FALSE), ple_table |-> E(2, 4, TRUE), ple_index |-> E(4, 2, FALSE),
       norm |-> E(16, -1, FALSE), attn |-> E(4, 3, FALSE), vision |-> E(8, 2, TRUE)]

Core == <<T(3, "norm", 0, -1, 0, <<3>>), T(1, "attn", 0, -1, 0, <<3, 4>>),
          T(2, "attn", 1, -1, 0, <<2, 3>>), T(9, "vision", 0, -1, 0, <<2, 2>>)>>

FusedBanks == <<T(11, "experts_routed", 0, -1, Down, <<2, 2, 3>>), T(12, "experts_routed", 0, -1, GateUp, <<2, 2, 2>>),
           T(13, "experts_routed", 1, -1, GateUp, <<2, 2, 2>>), T(14, "experts_routed", 1, -1, Down, <<2, 2, 3>>)>>

\* Tensors of an expert's own; one projection, a pair, or gate, up and down.
Own(layer, e, proj, shape) == T(20 + 20 * layer + 4 * e + proj, "experts_routed", layer, e, proj, shape)
OwnTensors == [k \in 1..12 |-> Own((k - 1) \div 4, (k - 1) % 4, GateUp, <<2, 2>>)]
Pair(layer, e)  == <<Own(layer, e, Down, <<2, 1>>), Own(layer, e, GateUp, <<2, 2>>)>>
Split(layer, e) == <<Own(layer, e, Down, <<2, 1>>), Own(layer, e, Up, <<1, 2>>), Own(layer, e, Gate, <<1, 2>>)>>

Table(width, count) == <<T(6, "ple_table", 0, 1, 0, <<count, width>>), T(5, "ple_table", 0, 0, 0, <<3, width>>),
                        T(7, "ple_table", 0, 2, 0, <<1, width>>), T(8, "ple_index", 0, -1, 0, <<2>>)>>

Heads(offsets, sizes) == [ngram |-> 3, offsets |-> offsets, sizes |-> sizes, multipliers |-> <<5, 11, 7>>]
GoodHeads == Heads(<<0, 2>>, <<2, 4>>)

Order(tensors, experts, precision, profile, heads) ==
  [tensors |-> tensors, experts |-> experts, precision |-> precision, profile |-> profile,
   heads |-> heads, features |-> {"text"}, offcentre |-> {}, padding |-> 1]

Whole2  == Order(Core \o FusedBanks \o Table(4, 2), 2, Q4, "full", GoodHeads)
Canary4 == Order(Core \o OwnTensors \o Table(4, 2), 4, Q4, "canary", GoodHeads)

MCOrders == {
  Whole2, Canary4,
  [Whole2 EXCEPT !.profile = "canary", !.features = {"text", "vision"}],
  [Canary4 EXCEPT !.profile = "full", !.features = {"text", "vision"}],
  \* an expert more than the config knows
  [Canary4 EXCEPT !.profile = "full", !.experts = 3],
  \* a row larger than a page; fp16 tensors only beside it
  Order(<<T(3, "norm", 0, -1, 0, <<3>>)>> \o Table(16, 1), 0,
        [Q4 EXCEPT !["ple_table"] = E(8, 16, TRUE)], "full", Heads(<<0, 2>>, <<2, 3>>)),
  \* experts of their own tensors: a pair of two layers, and gate, up and down
  Order(Core \o Pair(0, 0) \o Pair(0, 1) \o Pair(1, 0) \o Pair(1, 1), 2, Q4, "full", GoodHeads),
  Order(Core \o Split(0, 0) \o Split(0, 1), 2, Q4, "full", GoodHeads),
  \* wider than fp16, kept as fp16
  [Whole2 EXCEPT !.precision["attn"] = E(32, -1, FALSE), !.padding = -1],
  \* no routing in the config: the experts are not packaged
  [Whole2 EXCEPT !.experts = 0],
  \* a head that leaves the table, first and last
  [Whole2 EXCEPT !.heads = Heads(<<3, 4>>, <<5, 2>>)],
  [Whole2 EXCEPT !.heads = Heads(<<0, 2>>, <<2, 9>>)],
  \* no table: the hash tensors are dense
  Order(Core \o <<T(8, "ple_index", 0, -1, 0, <<2>>)>>, 0, Q4, "full", GoodHeads),
  \* refused: layouts mixed, expert missing, bank too narrow, shapes that differ, profile
  [Whole2 EXCEPT !.tensors = @ \o <<Own(0, 0, GateUp, <<2, 2>>)>>],
  [Canary4 EXCEPT !.tensors = Core \o Tail(OwnTensors)],
  [Whole2 EXCEPT !.experts = 3],
  [Canary4 EXCEPT !.tensors = Core \o Tail(OwnTensors) \o <<Own(0, 0, GateUp, <<2, 3>>)>>],
  [Whole2 EXCEPT !.profile = "half"],
  \* failing: fp16 experts, fp16 rows, rows that end inside a byte
  [Whole2 EXCEPT !.precision["experts_routed"] = E(16, -1, FALSE)],
  [Whole2 EXCEPT !.precision["ple_table"] = E(16, -1, FALSE)],
  Order(Core \o Table(3, 8), 0, Q4, "full", GoodHeads),
  \* failing: codes wider than a byte
  [Whole2 EXCEPT !.precision["attn"] = E(12, 2, FALSE)] }

\* Weights of attention tensor 1 that do not straddle zero.
MCOffcentre == {[Whole2 EXCEPT !.offcentre = {1}]}

MCHistories == {<<2>>, <<0, 1>>, <<1, 2, 1>>, <<2, 2, 0, 1>>, <<1, 1, 2>>}
==============================================================================
