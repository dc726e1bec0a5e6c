------------------------------ MODULE MCOffline ------------------------------
(***************************************************************************)
(* Four parts that run alone, before any package is served: the scan of a  *)
(* checkpoint, the tiler, the quantization pipeline and the cache          *)
(* simulation.  A behaviour is that of one of them; the others are not     *)
(* called.                                                                 *)
(***************************************************************************)
EXTENDS LayerPipeline, CheckpointScan, MatrixTiler, CacheSimulation

\* The pipeline is off before its first process is started.
ToolsInit ==
  /\ Init
  /\ \/ ScanInit /\ TileIdle /\ SimIdle
     \/ ScanIdle /\ TileInit /\ SimIdle
     \/ ScanIdle /\ TileIdle /\ SimInit
     \/ ScanIdle /\ TileIdle /\ SimIdle

OnlyPipeline == ScanIdle /\ TileIdle /\ SimIdle

ToolsNext ==
  \/ ScanNext /\ UNCHANGED <<vars, tileVars, simVars>>
  \/ TileNext /\ UNCHANGED <<vars, scanVars, simVars>>
  \/ SimNext /\ UNCHANGED <<vars, scanVars, tileVars>>
  \/ OnlyPipeline /\ Next /\ UNCHANGED <<scanVars, tileVars, simVars>>

toolsVars == <<vars, scanVars, tileVars, simVars>>

ToolsSpec == ToolsInit /\ [][ToolsNext]_toolsVars /\ ScanFair /\ WF_vars(Progress)

-----------------------------------------------------------------------------
\* The pipeline quantizes four tensors, of which the first two share a shard,
\* the third fills one by itself and the fourth is larger than its limit.
MCOrder == <<"norm", "up", "down", "head">>
MCBytes == [norm |-> 1, up |-> 2, down |-> 3, head |-> 5]

T(shape, at, len, width) == [shape |-> shape, at |-> at, len |-> len, width |-> width]
File(size, header, tensors) ==
  [size |-> size, header |-> header, parses |-> TRUE, tensors |-> tensors]

\* A matrix of two bytes an element with a vector, the same matrix again, a
\* bank of experts; a file shorter than the first request for its header, one
\* that does not parse, one with wrong lengths, one cut short.
First == File(26, 10, (1 :> T(<<2, 3>>, 0, 12, 2)) @@ (2 :> T(<<4>>, 12, 4, 1)))
Again == File(32, 20, 1 :> T(<<2, 3>>, 0, 12, 2))
Bank  == File(36, 20, 3 :> T(<<2, 2, 2>>, 0, 16, 2))
Small == File(14, 10, 4 :> T(<<2, 2>>, 0, 4, 1))
Bad   == [size |-> 40, header |-> 20, parses |-> FALSE, tensors |-> <<>>]
Odd   == File(60, 20, (1 :> T(<<2, 3>>, 0, 13, 2)) @@ (3 :> T(<<2, 2, 2>>, 8, 32, 2)))
Cut   == File(28, 20, 3 :> T(<<2, 2, 2>>, 0, 16, 2))

Repository(held, map, total) == [files |-> held, map |-> map, total |-> total]

Repositories ==
  { Repository(1 :> First @@ 2 :> Bank @@ 3 :> Again, 1 :> 1 @@ 2 :> 1 @@ 3 :> 2, 32),
    Repository(1 :> First @@ 2 :> Bank @@ 3 :> Again, 1 :> 3 @@ 2 :> 1 @@ 3 :> 2, 32),
    Repository(1 :> First @@ 2 :> Small, 1 :> 1 @@ 2 :> 1 @@ 4 :> 2, 20),
    Repository(1 :> First @@ 2 :> Bad, 1 :> 1 @@ 5 :> 2, 0),
    Repository(1 :> Odd @@ 2 :> Cut, <<>>, 99),
    Repository(1 :> First, 1 :> 1 @@ 2 :> 1 @@ 5 :> 2, 16),
    Repository(<<>>, <<>>, 0) }

MCScanJobs ==
  {[files |-> r.files, map |-> r.map, total |-> r.total, local |-> l, table |-> t,
    strict |-> s, fast |-> f, retries |-> 2] :
      r \in Repositories, l \in BOOLEAN, t \in BOOLEAN, s \in BOOLEAN, f \in BOOLEAN}

Shapes == {<<20>>, <<8, 3>>, <<21, 3>>, <<24, 3>>, <<40, 4>>, <<27, 5>>, <<30, 1>>,
           <<9, 2, 3>>, <<3, 21, 3>>, <<2, 30, 1>>}

MCTileJobs ==
  {[shape |-> s, expert |-> e, bytes |-> b, bits |-> q, group |-> g, sym |-> q = 2, cap |-> c] :
      s \in Shapes, e \in BOOLEAN, b \in {1, 2}, q \in {2, 4}, g \in {0, 2, 4},
      c \in {20, 40, 60, 80, 120}}

MCKeys == 1 .. 4

\* Keys numbered in the order they first occur.
Numbered(n) ==
  {f \in [1 .. n -> MCKeys] : \A i \in 1 .. n : f[i] = 1 \/ \E j \in 1 .. i - 1 : f[j] = f[i] - 1}

\* A token for every event, or two prompts whose tokens alternate.
MCTraces ==
  {[i \in 1 .. 7 |-> [token |-> i, key |-> f[i]]] : f \in Numbered(7)}
  \cup {[i \in 1 .. 5 |-> [token |-> i % 2, key |-> f[i]]] : f \in Numbered(5)}

MCSweeps == {<<1, 2>>, <<3>>}
=============================================================================
