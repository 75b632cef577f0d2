------------------------------ MODULE Files_proofs -----------------------------
(***************************************************************************)
(* Proofs about the readers of files, for any file, network and            *)
(* dictionary.                                                             *)
(*                                                                         *)
(* The darknet builder.  What is built so far (BuiltSoFar) says why the    *)
(* marked outputs are those of a whole network; for the numbers the blocks *)
(* are merged by, that each block behind [net] has added one tensor        *)
(* (Counted).  Tensors and weights are typed (TensorsTyped), and the       *)
(* tensors solve darknet's equation of channels, so that the weights used  *)
(* are those that darknet would use (LayersInv).                           *)
(*                                                                         *)
(* The configuration parser.  The parts of the configuration stay in their *)
(* ranges (ParserType); every group read so far could be read, but for the *)
(* line read last (ReadInv); and the slots up to the number reached hold   *)
(* what the enabled groups say, the free ones the defaults (SlotsInv).     *)
(* The sources read are those of the enabled groups, in their order, and   *)
(* each component has the GPU asked for (SourcesInv, GpuInv).  The first m *)
(* sources expanded, each slot behind them is one part of one of them, and *)
(* each part has one slot (Expanding), by induction along the table.       *)
(*                                                                         *)
(* The plate parser.  There is a confidence for each character             *)
(* (PlateInv), and what a call holds is typed (CallTyped).                 *)
(***************************************************************************)
EXTENDS Files, DataInduction, FiniteSetTheorems, FunctionTheorems, TLAPS

Phases == {"parse", "build", "done", "engine", "no_engine", "aborted", "undefined"}
Unbuildable == NeverBuilt \cup Channels
Over == {"done", "engine", "no_engine"}

PhaseTyped ==
  /\ network \in Networks
  /\ y_phase \in Phases
  /\ index \in 0..NumBlocks

\* Every block before index was built, and nothing has gone wrong with them.
BuiltSoFar ==
  /\ y_phase \in {"parse", "build"} =>
       /\ status = "SUCCESS"
       /\ \A k \in 1..index : network.blocks[k].type \notin Unbuildable
  /\ outputs => y_phase \in Over

OutputsInv == PhaseTyped /\ BuiltSoFar /\ OutputsAreComplete

\* A network is a sequence of blocks.
LEMMA BlocksAreSeq ==
  ASSUME PhaseTyped
  PROVE  network.blocks \in Seq(BlockOf) /\ NumBlocks \in Nat
<1>1. network \in NetworkOf
  BY NetworksAssumption DEF PhaseTyped
<1>2. network.blocks \in Seq(BlockOf)
  BY <1>1 DEF NetworkOf
<1>3. QED BY <1>2 DEF NumBlocks

\* Each block has the fields of a block.
LEMMA BlockTyped ==
  ASSUME PhaseTyped, Building
  PROVE  /\ Block \in BlockOf /\ Block = network.blocks[index + 1]
         /\ index + 1 \in 1..NumBlocks /\ index + 1 \in 0..NumBlocks
<1>1. index \in Nat /\ index + 1 \in 1..NumBlocks
  BY BlocksAreSeq DEF PhaseTyped, Building
<1>2. QED BY <1>1, BlocksAreSeq DEF Block, NumBlocks

\* A block that was built and is not of a type that never is.
LEMMA NextBlock ==
  ASSUME OutputsInv, Building, Block.type \notin Unbuildable,
         index' = index + 1, UNCHANGED <<network, y_phase, status, outputs>>
  PROVE  OutputsInv'
<1>1. y_phase = "build" /\ index \in Nat /\ outputs = outputs' /\ network' = network
  BY BlocksAreSeq DEF OutputsInv, PhaseTyped, Building
<1>2. PhaseTyped'
  BY <1>1, BlockTyped DEF OutputsInv, PhaseTyped, NumBlocks
<1>3. ~outputs
  BY <1>1 DEF OutputsInv, BuiltSoFar, Over
<1>4. \A k \in 1..index' : network'.blocks[k].type \notin Unbuildable
  <2>1. \A k \in 1..(index + 1) : k \in 1..index \/ k = index + 1
    BY <1>1
  <2>2. \A k \in 1..index : network.blocks[k].type \notin Unbuildable
    BY <1>1 DEF OutputsInv, BuiltSoFar
  <2>3. network.blocks[index + 1].type \notin Unbuildable
    BY BlockTyped DEF OutputsInv
  <2>4. QED BY <1>1, <2>1, <2>2, <2>3
<1>5. BuiltSoFar'
  BY <1>1, <1>3, <1>4 DEF OutputsInv, BuiltSoFar
<1>6. OutputsAreComplete'
  BY <1>1, <1>3 DEF OutputsAreComplete
<1>7. QED BY <1>2, <1>5, <1>6 DEF OutputsInv

\* The builder stops before its outputs are marked, or has stopped.
LEMMA StopsHere ==
  ASSUME OutputsInv, ~outputs, UNCHANGED <<network, index, outputs>>,
         y_phase' \in {"done", "no_engine", "aborted", "undefined"}
  PROVE  OutputsInv'
<1>1. PhaseTyped'
  BY DEF OutputsInv, PhaseTyped, Phases, NumBlocks
<1>2. BuiltSoFar' /\ OutputsAreComplete'
  BY DEF BuiltSoFar, OutputsAreComplete
<1>3. QED BY <1>1, <1>2 DEF OutputsInv

\* While the builder is at work no output is marked.
LEMMA NothingMarked ==
  ASSUME OutputsInv, y_phase \in {"parse", "build"}
  PROVE  ~outputs
BY DEF OutputsInv, BuiltSoFar, Over

\* Building is one of two phases.
LEMMA BuildingPhase == Building => y_phase \in {"parse", "build"}
BY DEF Building

\* A block with weights keeps the invariant: it is one that can be built, or ends the build.
LEMMA WeightedKeeps ==
  ASSUME OutputsInv, WeightedStep
  PROVE  OutputsInv'
<1>1. Building /\ Block.type \in Weighted /\ ~outputs
  BY NothingMarked, BuildingPhase
  DEF WeightedStep, WeightedLacksKey, BatchnormAborts, WeightedFails, WeightedBuilt, WeightsOverrun, Types, Weighted
<1>2. Block.type \notin Unbuildable
  BY <1>1 DEF Weighted, Unbuildable, NeverBuilt, Channels
<1>3. CASE WeightedBuilt
  BY <1>1, <1>2, <1>3, NextBlock DEF WeightedBuilt, Advance
<1>4. CASE WeightedLacksKey \/ BatchnormAborts \/ WeightedFails \/ WeightsOverrun
  BY <1>1, <1>4, StopsHere DEF WeightedLacksKey, BatchnormAborts, WeightedFails, WeightsOverrun, Leave, Abort, Undefined
<1>5. QED BY <1>3, <1>4 DEF WeightedStep

\* So does a shortcut or a sam block.
LEMMA MergeKeeps ==
  ASSUME OutputsInv, MergeStep
  PROVE  OutputsInv'
<1>1. Building /\ ~outputs
  BY NothingMarked, BuildingPhase
  DEF MergeStep, MergeAborts, MergeFails, ShortcutBuilt, SamBuilt, Types
<1>2. CASE ShortcutBuilt \/ SamBuilt
  <2>1. Block.type \notin Unbuildable
    BY <1>2 DEF ShortcutBuilt, SamBuilt, Types, Unbuildable, NeverBuilt, Channels
  <2>2. QED BY <1>1, <1>2, <2>1, NextBlock DEF ShortcutBuilt, SamBuilt, Merge, Advance
<1>3. CASE MergeAborts \/ MergeFails
  BY <1>1, <1>3, StopsHere DEF MergeAborts, MergeFails, Abort, Leave
<1>4. QED BY <1>2, <1>3 DEF MergeStep

\* So does a route.
LEMMA RouteKeeps ==
  ASSUME OutputsInv, RouteStep
  PROVE  OutputsInv'
<1>1. Building /\ Block.type = "route" /\ ~outputs
  BY NothingMarked, BuildingPhase
  DEF RouteStep, RouteFails, RouteUndefined, RouteAborts, RouteBuilt, Types
<1>2. Block.type \notin Unbuildable
  BY <1>1 DEF Unbuildable, NeverBuilt, Channels
<1>3. CASE RouteBuilt
  BY <1>1, <1>2, <1>3, NextBlock DEF RouteBuilt, Advance
<1>4. CASE RouteFails \/ RouteUndefined \/ RouteAborts
  BY <1>1, <1>4, StopsHere DEF RouteFails, RouteUndefined, RouteAborts, Leave, Undefined, Abort
<1>5. QED BY <1>3, <1>4 DEF RouteStep

\* So does a block that has neither weights nor other layers.
LEMMA PlainKeeps ==
  ASSUME OutputsInv, PlainStep
  PROVE  OutputsInv'
<1>1. Building /\ ~outputs
  BY NothingMarked, BuildingPhase
  DEF PlainStep, NetBlock, DropoutBlock, UnsupportedBlock, RefusedBlock, UpsampleFails,
      UpsampleBuilt, DetectionBlock, Types
<1>2. CASE NetBlock \/ DropoutBlock \/ UpsampleBuilt \/ DetectionBlock
  <2>1. Block.type \notin Unbuildable
    BY <1>2 DEF NetBlock, DropoutBlock, UpsampleBuilt, DetectionBlock, Types, Detections,
                Unbuildable, NeverBuilt, Channels
  <2>2. index' = index + 1 /\ UNCHANGED <<network, y_phase, status, outputs>>
    BY <1>2 DEF NetBlock, DropoutBlock, UpsampleBuilt, DetectionBlock, Advance
  <2>3. QED BY <1>1, <2>1, <2>2, NextBlock
<1>3. CASE UnsupportedBlock \/ RefusedBlock \/ UpsampleFails
  BY <1>1, <1>3, StopsHere DEF UnsupportedBlock, RefusedBlock, UpsampleFails, Leave
<1>4. QED BY <1>2, <1>3 DEF PlainStep

\* So does the end of the build: outputs are marked behind the last block only.
LEMMA EndKeeps ==
  ASSUME OutputsInv, EndStep
  PROVE  OutputsInv'
<1>1. CASE Incomplete \/ PluginRefused
  <2>1. ~outputs
    BY <1>1, NothingMarked DEF Incomplete, PluginRefused
  <2>2. QED BY <1>1, <2>1, StopsHere DEF Incomplete, PluginRefused, Leave
<1>2. CASE MarkOutputs
  <2>1. /\ y_phase = "build" /\ y_phase' = "done" /\ index = NumBlocks /\ Complete
        /\ UNCHANGED <<network, index, status, weight_ptr, yolo_inputs>>
    BY <1>2 DEF MarkOutputs, build_vars
  <2>2. /\ status = "SUCCESS"
        /\ \A k \in 1..NumBlocks : network.blocks[k].type \notin Unbuildable
    BY <2>1 DEF OutputsInv, BuiltSoFar
  <2>3. PhaseTyped'
    BY <2>1 DEF OutputsInv, PhaseTyped, Phases, NumBlocks
  <2>4. BuiltSoFar'
    BY <2>1 DEF BuiltSoFar, Over
  <2>5. OutputsAreComplete'
    BY <2>1, <2>2 DEF OutputsAreComplete, Complete, NumBlocks, Loaded, YoloCount, Unbuildable
  <2>6. QED BY <2>3, <2>4, <2>5 DEF OutputsInv
<1>3. CASE NoEngine \/ BuildEngine
  <2>1. /\ y_phase = "done" /\ y_phase' \in {"no_engine", "engine"}
        /\ y_phase' = "engine" => outputs
        /\ UNCHANGED <<network, index, status, outputs, weight_ptr, yolo_inputs>>
    BY <1>3 DEF NoEngine, BuildEngine, build_vars
  <2>2. PhaseTyped'
    BY <2>1 DEF OutputsInv, PhaseTyped, Phases, NumBlocks
  <2>3. BuiltSoFar'
    BY <2>1 DEF BuiltSoFar, Over
  <2>4. OutputsAreComplete'
    BY <2>1 DEF OutputsInv, OutputsAreComplete, NumBlocks, Loaded, YoloCount
  <2>5. QED BY <2>2, <2>3, <2>4 DEF OutputsInv
<1>4. QED BY <1>1, <1>2, <1>3 DEF EndStep

\* Every step keeps what was built so far.
LEMMA OutputsStep == OutputsInv /\ [YoloNext]_yolo_vars => OutputsInv'
<1> SUFFICES ASSUME OutputsInv, [YoloNext]_yolo_vars
             PROVE  OutputsInv'
  OBVIOUS
<1>1. CASE ParseConfigBlocks
  <2>1. ~outputs /\ y_phase = "parse"
    BY <1>1, NothingMarked DEF ParseConfigBlocks
  <2>2. CASE Unreadable
    BY <1>1, <2>1, <2>2, StopsHere DEF ParseConfigBlocks
  <2>3. CASE ~Unreadable
    <3>1. y_phase' = "build" /\ UNCHANGED <<network, index, status, outputs>>
      BY <1>1, <2>3 DEF ParseConfigBlocks
    <3>2. PhaseTyped'
      BY <3>1 DEF OutputsInv, PhaseTyped, Phases, NumBlocks
    <3>3. BuiltSoFar' /\ OutputsAreComplete'
      BY <2>1, <3>1 DEF OutputsInv, BuiltSoFar, OutputsAreComplete
    <3>4. QED BY <3>2, <3>3 DEF OutputsInv
  <2>4. QED BY <2>2, <2>3
<1>2. CASE NoInput
  <2>1. ~outputs
    BY <1>2, NothingMarked DEF NoInput
  <2>2. QED BY <1>2, <2>1, StopsHere DEF NoInput, Leave
<1>3. CASE UNCHANGED yolo_vars
  BY <1>3 DEF yolo_vars, build_vars, OutputsInv, PhaseTyped, BuiltSoFar, OutputsAreComplete,
              NumBlocks, Loaded, YoloCount
<1>4. QED
  BY <1>1, <1>2, <1>3, WeightedKeeps, MergeKeeps, RouteKeeps, PlainKeeps, EndKeeps DEF YoloNext

\* Nothing is built yet.
LEMMA OutputsInit == YoloInit => OutputsInv
<1> SUFFICES ASSUME YoloInit PROVE OutputsInv
  OBVIOUS
<1>1. network \in Networks /\ index = 0 /\ y_phase = "parse" /\ status = "SUCCESS" /\ outputs = FALSE
  BY DEF YoloInit
<1>2. NumBlocks \in Nat
  BY <1>1, NetworksAssumption DEF NetworkOf, NumBlocks
<1>3. PhaseTyped
  BY <1>1, <1>2 DEF PhaseTyped, Phases
<1>4. BuiltSoFar /\ OutputsAreComplete
  BY <1>1 DEF BuiltSoFar, OutputsAreComplete
<1>5. QED BY <1>3, <1>4 DEF OutputsInv

\* The invariant of the builder.
LEMMA OutputsAlways == YoloSpec => []OutputsInv
BY OutputsInit, OutputsStep, PTL DEF YoloSpec

\* Only a network every block of which was built has outputs or becomes an engine,
\* whatever the network file and however many weights there are.
THEOREM OutputsAreAlwaysComplete == YoloSpec => []OutputsAreComplete
<1>1. OutputsInv => OutputsAreComplete
  BY DEF OutputsInv
<1>2. QED BY <1>1, OutputsAlways, PTL

-------------------------------------------------------------------------------
(* The numbers of the blocks. *)

IsSeq(s) == \E A : s \in Seq(A)

\* A tensor for every block behind [net] when darknet numbers the blocks, and never
\* more than blocks.
Counted ==
  /\ IsSeq(tensor_outputs)
  /\ Len(tensor_outputs) <= index
  /\ Numbered(network) /\ index > 0 => Len(tensor_outputs) = index - 1

NamesInv == PhaseTyped /\ Counted /\ NamesAsDarknet

\* A sequence with one element more, whatever the elements are.
LEMMA AppendOne ==
  ASSUME NEW s, NEW c, IsSeq(s)
  PROVE  IsSeq(Append(s, c)) /\ Len(Append(s, c)) = Len(s) + 1 /\ Len(s) \in Nat
<1>1. PICK A : s \in Seq(A)
  BY DEF IsSeq
<1>2. s \in Seq(A \cup {c}) /\ c \in A \cup {c}
  BY <1>1
<1>3. Append(s, c) \in Seq(A \cup {c}) /\ Len(Append(s, c)) = Len(s) + 1 /\ Len(s) \in Nat
  BY <1>2
<1>4. QED BY <1>3 DEF IsSeq

\* The blocks of a file with darknet's numbers, seen from the block to build.
LEMMA BlockNumbered ==
  ASSUME PhaseTyped, Building, Numbered(network)
  PROVE  /\ Block.type = "net" <=> index = 0
         /\ Block.type # "dropout"
<1>1. index \in Nat /\ index + 1 \in 1..Len(network.blocks) /\ Block = network.blocks[index + 1]
  BY BlockTyped DEF PhaseTyped, NumBlocks
<1>2. QED BY <1>1 DEF Numbered

\* A block that adds its tensor keeps the count.
LEMMA AdvanceCounts ==
  ASSUME PhaseTyped, Counted, Building, Block.type # "net", NEW c, Advance(c)
  PROVE  Counted'
<1>1. index \in Nat /\ index' = index + 1 /\ network' = network
  BY DEF Advance, PhaseTyped
<1>2. /\ IsSeq(tensor_outputs') /\ Len(tensor_outputs) \in Nat
      /\ Len(tensor_outputs') = Len(tensor_outputs) + 1
  BY AppendOne DEF Counted, Advance
<1>3. Len(tensor_outputs') <= index'
  BY <1>1, <1>2 DEF Counted
<1>4. ASSUME Numbered(network) PROVE Len(tensor_outputs') = index' - 1
  <2>1. index > 0
    BY <1>1, <1>4, BlockNumbered
  <2>2. Len(tensor_outputs) = index - 1
    BY <1>4, <2>1 DEF Counted
  <2>3. QED BY <1>1, <1>2, <2>2
<1>5. QED BY <1>1, <1>2, <1>3, <1>4 DEF Counted, IsSeq

\* A block that adds none keeps it when it is [net] or dropout, or is not passed.
LEMMA PassingCounts ==
  ASSUME PhaseTyped, Counted, Building, Block.type \in {"net", "dropout"},
         index' = index + 1, UNCHANGED <<network, tensor_outputs>>
  PROVE  Counted'
<1>1. index \in Nat /\ Len(tensor_outputs) \in Nat
  BY AppendOne DEF PhaseTyped, Counted
<1>2. Len(tensor_outputs) <= index + 1
  BY <1>1 DEF Counted
<1>3. ASSUME Numbered(network) PROVE Len(tensor_outputs) = index' - 1
  <2>1. index = 0
    BY <1>3, BlockNumbered
  <2>2. Len(tensor_outputs) = 0
    BY <1>1, <2>1 DEF Counted
  <2>3. QED BY <2>1, <2>2
<1>4. QED BY <1>2, <1>3 DEF Counted, IsSeq

\* What a block is merged from, by the numbers it gives.
NamedRight(e) ==
  /\ e.position < e.block
  /\ Numbered(network) =>
       e.position = DarknetLayer(e.block, e.layer) /\ e.position < e.block - 1

\* The layer a shortcut names by its distance.
LEMMA MergeNames ==
  ASSUME PhaseTyped, Counted, Building, MergedIsThere
  PROVE  NamedRight([block |-> index, layer |-> Block.from, position |-> MergedFrom])
<1>1. index \in Nat /\ Block.from \in Int /\ MergedFrom \in Int
  BY BlockTyped DEF PhaseTyped, BlockOf, MergedFrom
<1>2. MergedFrom < index - 2 /\ MergedFrom < index - 1 /\ MergedFrom < index
  BY <1>1 DEF MergedIsThere
<1>3. MergedFrom = DarknetLayer(index, Block.from)
  <2>1. CASE Block.from > 0
    BY <1>1, <2>1 DEF MergedFrom, DarknetLayer
  <2>2. CASE Block.from = 0
    BY <1>1, <1>2, <2>2 DEF MergedFrom
  <2>3. CASE Block.from < 0
    BY <1>1, <2>3 DEF MergedFrom, DarknetLayer
  <2>4. QED BY <1>1, <2>1, <2>2, <2>3
<1>4. QED BY <1>2, <1>3 DEF NamedRight

\* The layers a route names.
LEMMA RouteNames ==
  ASSUME PhaseTyped, Counted, Building, Block.type = "route", RouteIsThere,
         NEW k \in 1..Len(Block.layers)
  PROVE  NamedRight([block |-> index, layer |-> Block.layers[k],
                     position |-> Position(Block.layers[k])])
<1>1. index \in Nat /\ Len(tensor_outputs) \in Nat
  BY AppendOne DEF PhaseTyped, Counted
<1>2. Block.layers[k] \in Int
  BY BlockTyped DEF BlockOf
<1>3. Position(Block.layers[k]) \in 0..(Len(tensor_outputs) - 1)
  BY DEF RouteIsThere, Routed
<1>4. Position(Block.layers[k]) < index
  BY <1>1, <1>3 DEF Counted
<1>5. ASSUME Numbered(network)
      PROVE  /\ Position(Block.layers[k]) = DarknetLayer(index, Block.layers[k])
             /\ Position(Block.layers[k]) < index - 1
  <2>1. index > 0
    BY <1>1, <1>5, BlockNumbered
  <2>2. Len(tensor_outputs) = index - 1
    BY <1>5, <2>1 DEF Counted
  <2>3. QED BY <1>1, <1>2, <1>3, <2>2 DEF Position, DarknetLayer
<1>6. QED BY <1>4, <1>5 DEF NamedRight

\* A step that merges nothing but by the right names keeps the property.
LEMMA SameNames ==
  ASSUME NamesAsDarknet, network' = network,
         \A e \in merged' : e \in merged \/ NamedRight(e)
  PROVE  NamesAsDarknet'
<1>1. \A e \in merged' :
        /\ e.position < e.block
        /\ Numbered(network) =>
             e.position = DarknetLayer(e.block, e.layer) /\ e.position < e.block - 1
  BY DEF NamesAsDarknet, NamedRight
<1>2. QED BY <1>1 DEF NamesAsDarknet

\* Every step but those that merge and those that pass a block leaves the numbers alone.
LEMMA NamesStep == NamesInv /\ PhaseTyped' /\ [YoloNext]_yolo_vars => NamesInv'
<1> SUFFICES ASSUME NamesInv, PhaseTyped', [YoloNext]_yolo_vars
             PROVE  NamesInv'
  OBVIOUS
<1>0. PhaseTyped /\ Counted /\ NamesAsDarknet
  BY DEF NamesInv
<1>1. ASSUME UNCHANGED <<network, index, tensor_outputs, merged>> PROVE NamesInv'
  BY <1>0, <1>1 DEF NamesInv, Counted, IsSeq, NamesAsDarknet
<1>2. ASSUME Building, Block.type # "net", NEW c, Advance(c), merged' = merged PROVE NamesInv'
  <2>1. Counted'
    BY <1>0, <1>2, AdvanceCounts
  <2>2. NamesAsDarknet'
    BY <1>0, <1>2, SameNames DEF Advance
  <2>3. QED BY <2>1, <2>2 DEF NamesInv
<1>3. CASE WeightedBuilt
  BY <1>2, <1>3 DEF WeightedBuilt, Types, Weighted
<1>4. CASE UpsampleBuilt
  BY <1>2, <1>4 DEF UpsampleBuilt, Types
<1>5. CASE DetectionBlock
  BY <1>2, <1>5 DEF DetectionBlock, Types, Detections
<1>6. CASE NetBlock \/ DropoutBlock
  <2>1. /\ Building /\ Block.type \in {"net", "dropout"} /\ index' = index + 1
        /\ UNCHANGED <<network, tensor_outputs, merged>>
    BY <1>6 DEF NetBlock, DropoutBlock, Types, build_vars
  <2>2. Counted'
    BY <1>0, <2>1, PassingCounts
  <2>3. NamesAsDarknet'
    BY <1>0, <2>1, SameNames
  <2>4. QED BY <2>2, <2>3 DEF NamesInv
<1>7. CASE ShortcutBuilt \/ SamBuilt
  <2>1. Building /\ Block.type # "net" /\ MergedIsThere /\ Merge
    BY <1>7 DEF ShortcutBuilt, SamBuilt, Types
  <2>2. Counted'
    BY <1>0, <2>1, AdvanceCounts DEF Merge
  <2>3. NamesAsDarknet'
    BY <1>0, <2>1, MergeNames, SameNames DEF Merge, Advance
  <2>4. QED BY <2>2, <2>3 DEF NamesInv
<1>8. CASE RouteBuilt
  <2>1. Building /\ Block.type = "route" /\ RouteIsThere
    BY <1>8 DEF RouteBuilt, Types
  <2>2. /\ Advance(Sliced(Joined)) /\ network' = network
        /\ merged' = merged \cup
             {[block |-> index, layer |-> Block.layers[k], position |-> Position(Block.layers[k])] :
                k \in 1..Len(Block.layers)}
    BY <1>8 DEF RouteBuilt, Advance
  <2>3. Counted'
    BY <1>0, <2>1, <2>2, AdvanceCounts
  <2>4. \A k \in 1..Len(Block.layers) :
          NamedRight([block |-> index, layer |-> Block.layers[k],
                      position |-> Position(Block.layers[k])])
    BY <1>0, <2>1, RouteNames
  <2>5. NamesAsDarknet'
    BY <1>0, <2>2, <2>4, SameNames
  <2>6. QED BY <2>3, <2>5 DEF NamesInv
<1>9. CASE ParseConfigBlocks \/ NoInput
  BY <1>1, <1>9 DEF ParseConfigBlocks, NoInput, Leave, build_vars
<1>10. CASE WeightedLacksKey \/ BatchnormAborts \/ WeightedFails \/ WeightsOverrun
  BY <1>1, <1>10 DEF WeightedLacksKey, BatchnormAborts, WeightedFails, WeightsOverrun, Leave, Abort, Undefined, build_vars
<1>11. CASE MergeAborts \/ MergeFails
  BY <1>1, <1>11 DEF MergeAborts, MergeFails, Leave, Abort, build_vars
<1>12. CASE RouteFails \/ RouteUndefined \/ RouteAborts
  BY <1>1, <1>12 DEF RouteFails, RouteUndefined, RouteAborts, Leave, Undefined, Abort, build_vars
<1>13. CASE UnsupportedBlock \/ RefusedBlock \/ UpsampleFails
  BY <1>1, <1>13 DEF UnsupportedBlock, RefusedBlock, UpsampleFails, Leave
<1>14. CASE EndStep
  BY <1>1, <1>14 DEF EndStep, Incomplete, PluginRefused, MarkOutputs, NoEngine, BuildEngine,
                     Leave, build_vars
<1>15. CASE UNCHANGED yolo_vars
  BY <1>1, <1>15 DEF yolo_vars, build_vars
<1>16. QED
  BY <1>3, <1>4, <1>5, <1>6, <1>7, <1>8, <1>9, <1>10, <1>11, <1>12, <1>13, <1>14, <1>15
  DEF YoloNext, WeightedStep, MergeStep, RouteStep, PlainStep

\* Nothing is counted and nothing named before the first block.
LEMMA NamesInit == YoloInit => NamesInv
<1> SUFFICES ASSUME YoloInit PROVE NamesInv
  OBVIOUS
<1>1. PhaseTyped
  BY OutputsInit DEF OutputsInv
<1>2. tensor_outputs = <<>> /\ index = 0 /\ merged = {}
  BY DEF YoloInit
<1>3. IsSeq(tensor_outputs) /\ Len(tensor_outputs) = 0
  BY <1>2 DEF IsSeq
<1>4. QED BY <1>1, <1>2, <1>3 DEF NamesInv, Counted, NamesAsDarknet

\* A block is merged with the layers darknet means by the numbers it gives, and with
\* one before it, whatever the network file.
THEOREM NamesAreAsDarknet == YoloSpec => []NamesAsDarknet
<1>1. YoloInit => NamesInv
  BY NamesInit
<1>2. NamesInv => NamesAsDarknet
  BY DEF NamesInv
<1>3. OutputsInv => PhaseTyped
  BY DEF OutputsInv
<1>4. QED BY <1>1, <1>2, <1>3, NamesStep, OutputsAlways, PTL DEF YoloSpec

-------------------------------------------------------------------------------
(* The types of the builder. *)

\* A sequence of naturals has sums, and Total is the last of them.
LEMMA TotalIs ==
  ASSUME NEW s \in Seq(Nat)
  PROVE  Total(s) \in Nat
<1> DEFINE Solves(f, m) == f = [j \in 0..m |-> IF j = 0 THEN 0 ELSE f[j - 1] + s[j]]
           S == {m \in Nat : m <= Len(s) => \E f : Solves(f, m) /\ \A j \in 0..m : f[j] \in Nat}
<1>1. Len(s) \in Nat
  OBVIOUS
<1>2. 0 \in S
  <2>1. Solves([j \in 0..0 |-> 0], 0)
    OBVIOUS
  <2>2. \A j \in 0..0 : [i \in 0..0 |-> 0][j] \in Nat
    OBVIOUS
  <2>3. QED BY <2>1, <2>2
<1>3. ASSUME NEW m \in Nat, m \in S PROVE m + 1 \in S
  <2> SUFFICES ASSUME m + 1 <= Len(s)
               PROVE  \E f : Solves(f, m + 1) /\ \A j \in 0..(m + 1) : f[j] \in Nat
    OBVIOUS
  <2>1. PICK f : Solves(f, m) /\ \A j \in 0..m : f[j] \in Nat
    BY <1>1, <1>3
  <2> DEFINE g == [j \in 0..(m + 1) |-> IF j = m + 1 THEN f[m] + s[m + 1] ELSE f[j]]
  <2>2. \A j \in 0..m : f[j] = IF j = 0 THEN 0 ELSE f[j - 1] + s[j]
    BY <2>1
  <2>3. s[m + 1] \in Nat
    BY <1>1
  <2>4. ASSUME NEW j \in 0..(m + 1)
        PROVE  g[j] \in Nat /\ g[j] = IF j = 0 THEN 0 ELSE g[j - 1] + s[j]
    <3>1. CASE j = m + 1
      BY <2>1, <2>3, <3>1
    <3>2. CASE j \in 1..m
      <4>1. g[j] = f[j] /\ g[j - 1] = f[j - 1] /\ j # 0
        BY <3>2
      <4> HIDE DEF g
      <4>2. QED BY <2>1, <2>2, <3>2, <4>1
    <3>3. CASE j = 0
      BY <2>1, <2>2, <3>3
    <3>4. QED BY <3>1, <3>2, <3>3
  <2>5. g = [j \in 0..(m + 1) |-> g[j]]
    OBVIOUS
  <2> HIDE DEF g
  <2>6. Solves(g, m + 1)
    BY <2>4, <2>5
  <2> HIDE DEF Solves
  <2>7. QED BY <2>4, <2>6
<1>4. PICK f : Solves(f, Len(s)) /\ \A j \in 0..Len(s) : f[j] \in Nat
  <2> HIDE DEF S
  <2>1. Len(s) \in S
    BY <1>1, <1>2, <1>3, SetInduction
  <2>2. QED BY <1>1, <2>1 DEF S
<1> DEFINE t == CHOOSE h : Solves(h, Len(s))
<1>5. Solves(t, Len(s))
  BY <1>4, Zenon
<1>6. Total(s) = t[Len(s)]
  BY Zenon DEF Total
<1> HIDE DEF t
<1>7. \A j \in 0..Len(s) : t[j] = IF j = 0 THEN 0 ELSE t[j - 1] + s[j]
  BY <1>5
<1> DEFINE T == {m \in Nat : m <= Len(s) => t[m] \in Nat}
<1>8. 0 \in T
  BY <1>1, <1>7
<1>9. ASSUME NEW m \in Nat, m \in T PROVE m + 1 \in T
  <2> SUFFICES ASSUME m + 1 <= Len(s) PROVE t[m + 1] \in Nat
    OBVIOUS
  <2>1. t[m + 1] = t[m] + s[m + 1] /\ t[m] \in Nat /\ s[m + 1] \in Nat
    BY <1>1, <1>7, <1>9
  <2>2. QED BY <2>1
<1>10. Len(s) \in T
  <2> HIDE DEF T
  <2>1. QED BY <1>1, <1>8, <1>9, SetInduction
<1>11. QED BY <1>1, <1>6, <1>10

\* What the members of the builder range over.
TensorsTyped ==
  /\ status \in {"SUCCESS", "INVALID_PARAMS", "CONFIG_FAILED"}
  /\ tensor_outputs \in Seq(Nat) /\ previous \in Nat
  /\ weight_ptr \in Nat /\ yolo_inputs \in Nat
  /\ outputs \in BOOLEAN
  /\ merged \subseteq [block : Nat, layer : Int, position : Nat]

\* A product of naturals, and a part of one.
LEMMA Products ==
  /\ \A a, b \in Nat : a * b \in Nat
  /\ \A a \in Nat, b \in Nat \ {0} : a \div b \in Nat
OBVIOUS

\* What a block reads is a number of weights.
LEMMA NeedsIs ==
  ASSUME NEW b \in BlockOf, previous \in Nat
  PROVE  Needs(b) \in Nat /\ WeightedChannels(b) \in Nat
<1>1. b.filters \in Nat /\ b.size \in Nat /\ b.groups \in Nat
  BY DEF BlockOf
<1>2. BatchnormNeeds(b) \in Nat
  BY <1>1 DEF BatchnormNeeds
<1>3. b.filters * previous * b.size * b.size \in Nat
  <2>1. b.filters * previous \in Nat
    BY <1>1, Products
  <2>2. b.filters * previous * b.size \in Nat
    BY <1>1, <2>1, Products
  <2>3. QED BY <1>1, <2>2, Products
<1>4. (b.filters * previous * b.size * b.size) \div (IF b.groups = 0 THEN 1 ELSE b.groups) \in Nat
  <2>1. (IF b.groups = 0 THEN 1 ELSE b.groups) \in Nat \ {0}
    BY <1>1
  <2>2. QED BY <1>3, <2>1, Products
<1>5. DeconvolutionNeeds(b) \in Nat
  <2>1. (IF b.bias THEN b.filters ELSE 0) \in Nat
    BY <1>1
  <2>2. QED BY <1>4, <2>1 DEF DeconvolutionNeeds
<1>6. QED BY <1>1, <1>2, <1>5 DEF Needs, WeightedChannels

\* A tensor of so many channels more.
LEMMA AdvanceTyped ==
  ASSUME TensorsTyped, NEW c \in Nat, Advance(c)
  PROVE  tensor_outputs' \in Seq(Nat) /\ previous' \in Nat /\ UNCHANGED <<status, outputs>>
BY DEF TensorsTyped, Advance

\* The channels of a route are a number.
LEMMA JoinedIs ==
  ASSUME PhaseTyped, TensorsTyped, Building, RouteIsThere
  PROVE  Joined \in Nat /\ Sliced(Joined) \in Nat
<1>1. Block.layers \in Seq(Int) /\ Block.groups \in Nat
  BY BlockTyped DEF BlockOf
<1>2. tensor_outputs \in Seq(Nat)
  BY DEF TensorsTyped
<1> DEFINE s == [k \in 1..Len(Block.layers) |-> tensor_outputs[Position(Block.layers[k]) + 1]]
<1>3. ASSUME NEW k \in 1..Len(Block.layers) PROVE tensor_outputs[Position(Block.layers[k]) + 1] \in Nat
  <2>1. Position(Block.layers[k]) \in 0..(Len(tensor_outputs) - 1)
    BY DEF RouteIsThere, Routed
  <2> DEFINE p == Position(Block.layers[k])
  <2> HIDE DEF p
  <2>2. p + 1 \in 1..Len(tensor_outputs)
    BY <1>2, <2>1 DEF p
  <2>3. QED BY <1>2, <2>2 DEF p
<1>4. s \in Seq(Nat)
  BY <1>1, <1>3
<1>5. Joined \in Nat
  <2> HIDE DEF s
  <2>1. Total(s) \in Nat
    BY <1>4, TotalIs
  <2>2. QED BY <2>1 DEF Joined, s
<1>6. Sliced(Joined) \in Nat
  <2> HIDE DEF s
  <2>1. CASE Block.groups = 0
    BY <1>5, <2>1 DEF Sliced
  <2>2. CASE Block.groups # 0
    <3>1. Joined \div Block.groups \in Nat
      BY <1>1, <1>5, <2>2, Products
    <3>2. QED BY <2>2, <3>1 DEF Sliced
  <2>3. QED BY <2>1, <2>2
<1>7. QED BY <1>5, <1>6

\* Each step keeps the members in their ranges.
LEMMA TensorsStep == PhaseTyped /\ TensorsTyped /\ [YoloNext]_yolo_vars => TensorsTyped'
<1> SUFFICES ASSUME PhaseTyped, TensorsTyped, [YoloNext]_yolo_vars
             PROVE  TensorsTyped'
  OBVIOUS
<1>1. ASSUME UNCHANGED <<tensor_outputs, previous, weight_ptr, yolo_inputs, merged>>,
             status' \in {"SUCCESS", "INVALID_PARAMS", "CONFIG_FAILED"}, outputs' \in BOOLEAN
      PROVE  TensorsTyped'
  BY <1>1 DEF TensorsTyped
<1>2. /\ status \in {"SUCCESS", "INVALID_PARAMS", "CONFIG_FAILED"} /\ outputs \in BOOLEAN
      /\ previous \in Nat /\ weight_ptr \in Nat /\ yolo_inputs \in Nat
  BY DEF TensorsTyped
<1>3. CASE WeightedStep
  <2>1. Building
    BY <1>3 DEF WeightedStep, WeightedLacksKey, BatchnormAborts, WeightedFails, WeightedBuilt, WeightsOverrun, Types
  <2>2. Needs(Block) \in Nat /\ WeightedChannels(Block) \in Nat
    BY <1>2, <2>1, BlockTyped, NeedsIs
  <2>3. weight_ptr + Needs(Block) \in Nat
    BY <1>2, <2>2
  <2>4. CASE WeightedBuilt
    <3>1. /\ Advance(WeightedChannels(Block)) /\ weight_ptr' \in Nat
          /\ UNCHANGED <<yolo_inputs, merged>>
      BY <2>3, <2>4 DEF WeightedBuilt
    <3>2. QED BY <2>2, <3>1, AdvanceTyped DEF TensorsTyped
  <2>5. CASE WeightedFails
    BY <2>3, <2>5 DEF WeightedFails, Leave, TensorsTyped
  <2>6. CASE WeightedLacksKey \/ BatchnormAborts \/ WeightsOverrun
    BY <1>1, <1>2, <2>6 DEF WeightedLacksKey, BatchnormAborts, WeightsOverrun, Leave, Abort, Undefined, build_vars
  <2>7. QED BY <1>3, <2>4, <2>5, <2>6 DEF WeightedStep
<1>4. CASE MergeStep
  <2>1. CASE ShortcutBuilt \/ SamBuilt
    <3>1. Building /\ MergedIsThere /\ Merge
      BY <2>1 DEF ShortcutBuilt, SamBuilt, Types
    <3>2. Advance(previous) /\ UNCHANGED <<weight_ptr, yolo_inputs>>
          /\ merged' = merged \cup {[block |-> index, layer |-> Block.from, position |-> MergedFrom]}
      BY <3>1 DEF Merge
    <3>3. index \in Nat /\ Block.from \in Int /\ MergedFrom \in Nat
      BY <3>1, BlockTyped DEF PhaseTyped, BlockOf, MergedIsThere
    <3>4. merged' \subseteq [block : Nat, layer : Int, position : Nat]
      BY <3>2, <3>3 DEF TensorsTyped
    <3>5. QED BY <1>2, <3>2, <3>4, AdvanceTyped DEF TensorsTyped
  <2>2. CASE MergeAborts \/ MergeFails
    BY <1>1, <1>2, <2>2 DEF MergeAborts, MergeFails, Leave, Abort, build_vars
  <2>3. QED BY <1>4, <2>1, <2>2 DEF MergeStep
<1>5. CASE RouteStep
  <2>1. CASE RouteBuilt
    <3>1. /\ Building /\ RouteIsThere /\ Advance(Sliced(Joined))
          /\ UNCHANGED <<weight_ptr, yolo_inputs>>
          /\ merged' = merged \cup
               {[block |-> index, layer |-> Block.layers[k], position |-> Position(Block.layers[k])] :
                  k \in 1..Len(Block.layers)}
      BY <2>1 DEF RouteBuilt, Types
    <3>2. index \in Nat /\ Block.layers \in Seq(Int)
      BY <3>1, BlockTyped DEF PhaseTyped, BlockOf
    <3>3. \A k \in 1..Len(Block.layers) : Block.layers[k] \in Int /\ Position(Block.layers[k]) \in Nat
      BY <3>1, <3>2 DEF RouteIsThere, Routed
    <3>4. merged' \subseteq [block : Nat, layer : Int, position : Nat]
      BY <3>1, <3>2, <3>3 DEF TensorsTyped
    <3>5. QED BY <1>2, <3>1, <3>4, JoinedIs, AdvanceTyped DEF TensorsTyped
  <2>2. CASE RouteFails \/ RouteUndefined \/ RouteAborts
    BY <1>1, <1>2, <2>2 DEF RouteFails, RouteUndefined, RouteAborts, Leave, Undefined, Abort, build_vars
  <2>3. QED BY <1>5, <2>1, <2>2 DEF RouteStep
<1>6. CASE UpsampleBuilt \/ DetectionBlock
  <2>1. Advance(previous) /\ UNCHANGED <<weight_ptr, merged>> /\ yolo_inputs' \in Nat
    BY <1>2, <1>6 DEF UpsampleBuilt, DetectionBlock
  <2>2. QED BY <1>2, <2>1, AdvanceTyped DEF TensorsTyped
<1>7. CASE NetBlock \/ DropoutBlock \/ UnsupportedBlock \/ RefusedBlock \/ UpsampleFails
  BY <1>1, <1>2, <1>7
  DEF NetBlock, DropoutBlock, UnsupportedBlock, RefusedBlock, UpsampleFails, Leave, build_vars
<1>8. CASE EndStep
  BY <1>1, <1>2, <1>8 DEF EndStep, Incomplete, PluginRefused, MarkOutputs, NoEngine, BuildEngine,
                          Leave, build_vars
<1>9. CASE ParseConfigBlocks \/ NoInput
  BY <1>1, <1>2, <1>9 DEF ParseConfigBlocks, NoInput, Leave, build_vars
<1>10. CASE UNCHANGED yolo_vars
  BY <1>1, <1>2, <1>10 DEF yolo_vars, build_vars
<1>11. QED
  BY <1>3, <1>4, <1>5, <1>6, <1>7, <1>8, <1>9, <1>10 DEF YoloNext, PlainStep

\* So are they before the first block.
LEMMA TensorsInit == YoloInit => TensorsTyped
<1> SUFFICES ASSUME YoloInit PROVE TensorsTyped
  OBVIOUS
<1>1. network.channels \in Nat
  BY NetworksAssumption DEF YoloInit, NetworkOf
<1>2. /\ status = "SUCCESS" /\ tensor_outputs = <<>> /\ previous = network.channels
      /\ weight_ptr = 0 /\ yolo_inputs = 0 /\ outputs = FALSE /\ merged = {}
  BY DEF YoloInit
<1>3. tensor_outputs \in Seq(Nat)
  BY <1>2
<1>4. QED BY <1>1, <1>2, <1>3 DEF TensorsTyped

\* Every reachable state of the builder is well typed: no sum of channels and no number
\* of weights is negative, whatever the network file and however far it is built.
THEOREM BuilderTypeCorrect == YoloSpec => []YoloTypeOK
<1>1. YoloInit => TensorsTyped
  BY TensorsInit
<1>2. PhaseTyped /\ TensorsTyped => YoloTypeOK
  BY NetworksAssumption DEF PhaseTyped, Phases, TensorsTyped, YoloTypeOK
<1>3. OutputsInv => PhaseTyped
  BY DEF OutputsInv
<1>4. QED BY <1>1, <1>2, <1>3, TensorsStep, OutputsAlways, PTL DEF YoloSpec

-------------------------------------------------------------------------------
(* The channels and weights of darknet. *)

\* The equation of DarknetChannels.
BlockChannels(n, C, k) ==
  IF k = 0 THEN n.channels
  ELSE LET b == n.blocks[k]
           named == [j \in 1..Len(b.layers) |-> C[DarknetLayer(k - 1, b.layers[j]) + 2]]
       IN CASE b.type = "deconvolutional" -> b.filters
            [] b.type = "route" -> Total(named) \div (IF b.groups = 0 THEN 1 ELSE b.groups)
            [] OTHER -> C[k - 1]

\* A route names layers that come before it.
NamesEarlier(n, k) ==
  n.blocks[k].type = "route" =>
    \A j \in 1..Len(n.blocks[k].layers) :
      DarknetLayer(k - 1, n.blocks[k].layers[j]) + 2 \in 0..(k - 1)

\* The equation type by type.
LEMMA ChannelsByType ==
  ASSUME NEW n, NEW C, NEW k \in Nat \ {0}
  PROVE  LET b == n.blocks[k] IN
         /\ b.type = "deconvolutional" => BlockChannels(n, C, k) = b.filters
         /\ b.type = "route" =>
              BlockChannels(n, C, k) =
                Total([j \in 1..Len(b.layers) |-> C[DarknetLayer(k - 1, b.layers[j]) + 2]])
                  \div (IF b.groups = 0 THEN 1 ELSE b.groups)
         /\ b.type \notin {"deconvolutional", "route"} => BlockChannels(n, C, k) = C[k - 1]
<1> DEFINE b == n.blocks[k]
           sum == Total([j \in 1..Len(b.layers) |-> C[DarknetLayer(k - 1, b.layers[j]) + 2]])
           share == sum \div (IF b.groups = 0 THEN 1 ELSE b.groups)
<1>1. k # 0
  OBVIOUS
<1>2. BlockChannels(n, C, k) =
        CASE b.type = "deconvolutional" -> b.filters
          [] b.type = "route" -> share
          [] OTHER -> C[k - 1]
  BY <1>1, Zenon DEF BlockChannels
<1> HIDE DEF share, b
<1>3. /\ b.type = "deconvolutional" => BlockChannels(n, C, k) = b.filters
      /\ b.type = "route" => BlockChannels(n, C, k) = share
      /\ b.type \notin {"deconvolutional", "route"} => BlockChannels(n, C, k) = C[k - 1]
  <2>1. CASE b.type = "deconvolutional"
    <3>1. b.type # "route"
      BY <2>1
    <3>2. QED BY <1>2, <2>1, <3>1
  <2>2. CASE b.type = "route"
    <3>1. b.type # "deconvolutional"
      BY <2>2
    <3>2. QED BY <1>2, <2>2, <3>1
  <2>3. CASE b.type \notin {"deconvolutional", "route"}
    BY <1>2, <2>3
  <2>4. QED BY <2>1, <2>2, <2>3
<1>4. QED BY <1>3, Zenon DEF share, b

\* A block that is neither a deconvolution nor a route keeps the channels.
LEMMA ChannelsKept ==
  ASSUME NEW n, NEW C, NEW k \in Nat \ {0},
         n.blocks[k].type # "deconvolutional", n.blocks[k].type # "route"
  PROVE  BlockChannels(n, C, k) = C[k - 1]
<1>1. n.blocks[k].type \notin {"deconvolutional", "route"}
  OBVIOUS
<1>2. QED BY <1>1, ChannelsByType, Zenon

\* It says the same of two functions that agree up to a block.
LEMMA ChannelsAgree ==
  ASSUME NEW n, NEW C, NEW D, NEW k \in Nat \ {0}, NamesEarlier(n, k),
         \A i \in 0..(k - 1) : C[i] = D[i]
  PROVE  BlockChannels(n, C, k) = BlockChannels(n, D, k)
<1> DEFINE b == n.blocks[k]
           at(j) == DarknetLayer(k - 1, b.layers[j]) + 2
<1>1. CASE b.type = "deconvolutional"
  <2>1. BlockChannels(n, C, k) = b.filters /\ BlockChannels(n, D, k) = b.filters
    BY <1>1, ChannelsByType, Zenon
  <2>2. QED BY <2>1
<1>2. CASE b.type = "route"
  <2>1. \A j \in 1..Len(b.layers) : at(j) \in 0..(k - 1)
    BY <1>2 DEF NamesEarlier
  <2> HIDE DEF at
  <2>2. [j \in 1..Len(b.layers) |-> C[at(j)]] = [j \in 1..Len(b.layers) |-> D[at(j)]]
    BY <2>1
  <2>3. /\ BlockChannels(n, C, k) = Total([j \in 1..Len(b.layers) |-> C[at(j)]])
                                      \div (IF b.groups = 0 THEN 1 ELSE b.groups)
        /\ BlockChannels(n, D, k) = Total([j \in 1..Len(b.layers) |-> D[at(j)]])
                                      \div (IF b.groups = 0 THEN 1 ELSE b.groups)
    BY <1>2, ChannelsByType, Zenon DEF at
  <2> DEFINE f == [j \in 1..Len(b.layers) |-> C[at(j)]]
             g == [j \in 1..Len(b.layers) |-> D[at(j)]]
             groups == IF b.groups = 0 THEN 1 ELSE b.groups
  <2>4. f = g /\ BlockChannels(n, C, k) = Total(f) \div groups
              /\ BlockChannels(n, D, k) = Total(g) \div groups
    BY <2>2, <2>3, Zenon
  <2> HIDE DEF f, g, groups
  <2>5. QED BY <2>4
<1>3. CASE b.type \notin {"deconvolutional", "route"}
  <2>1. k - 1 \in 0..(k - 1)
    OBVIOUS
  <2>2. BlockChannels(n, C, k) = C[k - 1] /\ BlockChannels(n, D, k) = D[k - 1]
    BY <1>3, ChannelsByType
  <2>3. QED BY <2>1, <2>2
<1>4. QED BY <1>1, <1>2, <1>3

\* What satisfies the equation are darknet's channels, when no route names a later layer.
LEMMA ChannelsAre ==
  ASSUME NEW n, NEW m \in Nat, NEW C,
         C = [k \in 0..m |-> BlockChannels(n, C, k)],
         \A k \in 1..m : NamesEarlier(n, k)
  PROVE  DarknetChannels(n, m) = C
<1> DEFINE Solves(f) == f = [k \in 0..m |-> BlockChannels(n, f, k)]
           D == CHOOSE f : Solves(f)
<1>1. Solves(C)
  OBVIOUS
<1>2. Solves(D)
  BY <1>1, Zenon
<1>3. DarknetChannels(n, m) = D
  BY Zenon DEF DarknetChannels, BlockChannels
<1> HIDE DEF D
<1> DEFINE S == {k \in Nat : k <= m => \A i \in 0..k : C[i] = D[i]}
<1>4. 0 \in S
  <2>1. C[0] = BlockChannels(n, C, 0) /\ D[0] = BlockChannels(n, D, 0)
    BY <1>1, <1>2
  <2>2. BlockChannels(n, C, 0) = n.channels /\ BlockChannels(n, D, 0) = n.channels
    BY DEF BlockChannels
  <2>3. QED BY <2>1, <2>2
<1>5. ASSUME NEW k \in Nat, k \in S PROVE k + 1 \in S
  <2> SUFFICES ASSUME k + 1 <= m PROVE \A i \in 0..(k + 1) : C[i] = D[i]
    OBVIOUS
  <2>1. \A i \in 0..k : C[i] = D[i]
    <3>1. k <= m
      OBVIOUS
    <3>2. k <= m => \A i \in 0..k : C[i] = D[i]
      BY <1>5, Zenon
    <3>3. QED BY <3>1, <3>2, Zenon
  <2>2. k + 1 \in 0..m /\ k + 1 \in 1..m /\ (k + 1) - 1 = k /\ k + 1 \in Nat \ {0}
    OBVIOUS
  <2>3. C[k + 1] = BlockChannels(n, C, k + 1) /\ D[k + 1] = BlockChannels(n, D, k + 1)
    BY <1>1, <1>2, <2>2
  <2>4. NamesEarlier(n, k + 1)
    BY <2>2
  <2>5. BlockChannels(n, C, k + 1) = BlockChannels(n, D, k + 1)
    BY <2>1, <2>2, <2>4, ChannelsAgree
  <2>6. \A i \in 0..(k + 1) : i \in 0..k \/ i = k + 1
    OBVIOUS
  <2>7. QED BY <2>1, <2>3, <2>5, <2>6
<1>6. \A k \in Nat : k \in S
  <2> HIDE DEF S
  <2>1. QED BY <1>4, <1>5, SetInduction
<1>7. \A i \in 0..m : C[i] = D[i]
  BY <1>6
<1>8. C = [k \in 0..m |-> C[k]] /\ D = [k \in 0..m |-> D[k]]
  <2> HIDE DEF S
  <2>1. C = [k \in 0..m |-> C[k]]
    BY <1>1
  <2>2. D = [k \in 0..m |-> D[k]]
    BY <1>2
  <2>3. QED BY <2>1, <2>2
<1>9. C = D
  <2> HIDE DEF S, Solves
  <2>1. QED BY <1>7, <1>8
<1>10. QED BY <1>3, <1>9

\* The weights of so many blocks are the sum of what each needs.
LEMMA WeightsAre ==
  ASSUME NEW n, NEW m \in Nat
  PROVE  /\ DarknetWeights(n, m)[0] = 0
         /\ \A k \in 1..m :
              DarknetWeights(n, m)[k] =
                DarknetWeights(n, m)[k - 1]
                  + DarknetNeeds(n.blocks[k], DarknetChannels(n, m)[k - 1])
<1> DEFINE C == DarknetChannels(n, m)
           need(k) == DarknetNeeds(n.blocks[k], C[k - 1])
           Solves(f, l) == f = [k \in 0..l |-> IF k = 0 THEN 0 ELSE f[k - 1] + need(k)]
           W == CHOOSE f : Solves(f, m)
<1>1. DarknetWeights(n, m) = W
  BY Zenon DEF DarknetWeights
<1> HIDE DEF need
<1> DEFINE S == {l \in Nat : \E f : Solves(f, l)}
<1>2. 0 \in S
  <2>1. Solves([k \in 0..0 |-> 0], 0)
    OBVIOUS
  <2>2. QED BY <2>1
<1>3. ASSUME NEW l \in Nat, l \in S PROVE l + 1 \in S
  <2>1. PICK f : Solves(f, l)
    BY <1>3
  <2> DEFINE g == [k \in 0..(l + 1) |-> IF k = l + 1 THEN f[l] + need(l + 1) ELSE f[k]]
  <2>2. \A k \in 0..l : f[k] = IF k = 0 THEN 0 ELSE f[k - 1] + need(k)
    BY <2>1
  <2>3. ASSUME NEW k \in 0..(l + 1) PROVE g[k] = IF k = 0 THEN 0 ELSE g[k - 1] + need(k)
    <3>1. CASE k = l + 1
      BY <3>1
    <3>2. CASE k \in 1..l
      <4>1. g[k] = f[k] /\ g[k - 1] = f[k - 1] /\ k # 0
        BY <3>2
      <4> HIDE DEF g
      <4>2. QED BY <2>2, <3>2, <4>1
    <3>3. CASE k = 0
      BY <2>2, <3>3
    <3>4. QED BY <3>1, <3>2, <3>3
  <2>4. g = [k \in 0..(l + 1) |-> g[k]]
    OBVIOUS
  <2> HIDE DEF g
  <2>5. Solves(g, l + 1)
    BY <2>3, <2>4
  <2> HIDE DEF Solves
  <2>6. QED BY <2>5
<1>4. PICK f : Solves(f, m)
  <2> HIDE DEF S
  <2>1. m \in S
    BY <1>2, <1>3, SetInduction
  <2>2. QED BY <2>1 DEF S
<1>5. Solves(W, m)
  BY <1>4, Zenon
<1> HIDE DEF W
<1>6. \A k \in 0..m : W[k] = IF k = 0 THEN 0 ELSE W[k - 1] + need(k)
  BY <1>5
<1>7. W[0] = 0 /\ \A k \in 1..m : W[k] = W[k - 1] + need(k)
  BY <1>6
<1>8. QED BY <1>1, <1>7, Zenon DEF need

\* One block more.
LEMMA WeightsMore ==
  ASSUME NEW n, NEW m \in Nat,
         \A k \in 0..m : DarknetChannels(n, m + 1)[k] = DarknetChannels(n, m)[k]
  PROVE  /\ DarknetWeights(n, m + 1)[m + 1] =
              DarknetWeights(n, m)[m] + DarknetNeeds(n.blocks[m + 1], DarknetChannels(n, m)[m])
         /\ Plain(n, m + 1) =>
              /\ Plain(n, m)
              /\ SaysAsDarknet(n.blocks[m + 1], DarknetChannels(n, m)[m])
<1> DEFINE C == DarknetChannels(n, m)
           D == DarknetChannels(n, m + 1)
           V == DarknetWeights(n, m)
           W == DarknetWeights(n, m + 1)
           need(k) == DarknetNeeds(n.blocks[k], C[k - 1])
<1>1. \A k \in 0..m : D[k] = C[k]
  OBVIOUS
<1>2. V[0] = 0 /\ \A k \in 1..m : V[k] = V[k - 1] + need(k)
  BY WeightsAre
<1>3. W[0] = 0 /\ \A k \in 1..(m + 1) : W[k] = W[k - 1] + DarknetNeeds(n.blocks[k], D[k - 1])
  <2>1. m + 1 \in Nat
    OBVIOUS
  <2> HIDE DEF D, W
  <2>2. QED BY <2>1, WeightsAre DEF D, W
<1>4. Plain(n, m + 1) =>
        /\ Plain(n, m)
        /\ SaysAsDarknet(n.blocks[m + 1], C[m])
  <2> SUFFICES ASSUME Plain(n, m + 1)
               PROVE  /\ Plain(n, m)
                      /\ SaysAsDarknet(n.blocks[m + 1], C[m])
    OBVIOUS
  <2>1. \A k \in 1..(m + 1) : SaysAsDarknet(n.blocks[k], D[k - 1])
    BY DEF Plain
  <2>2. \A k \in 1..(m + 1) : D[k - 1] = C[k - 1]
    <3> HIDE DEF C, D
    <3>1. QED BY <1>1
  <2>3. \A k \in 1..m : SaysAsDarknet(n.blocks[k], C[k - 1])
    <3> HIDE DEF C, D
    <3>1. \A k \in 1..m : k \in 1..(m + 1)
      OBVIOUS
    <3>2. QED BY <2>1, <2>2, <3>1
  <2>4. Plain(n, m)
    BY <2>3 DEF Plain
  <2>5. m + 1 \in 1..(m + 1) /\ (m + 1) - 1 = m
    OBVIOUS
  <2> HIDE DEF C, D
  <2>6. QED BY <2>1, <2>2, <2>4, <2>5
<1> HIDE DEF C, D, V, W
<1>5. \A k \in 1..(m + 1) : W[k] = W[k - 1] + need(k)
  BY <1>1, <1>3
<1> HIDE DEF need
<1> DEFINE S == {k \in Nat : k <= m => W[k] = V[k]}
<1>6. 0 \in S
  BY <1>2, <1>3
<1>7. ASSUME NEW k \in Nat, k \in S PROVE k + 1 \in S
  <2> SUFFICES ASSUME k + 1 <= m PROVE W[k + 1] = V[k + 1]
    OBVIOUS
  <2>1. W[k] = V[k] /\ k + 1 \in 1..m /\ k + 1 \in 1..(m + 1) /\ (k + 1) - 1 = k
    BY <1>7
  <2>2. W[k + 1] = W[k] + need(k + 1) /\ V[k + 1] = V[k] + need(k + 1)
    BY <1>2, <1>5, <2>1
  <2>3. QED BY <2>1, <2>2
<1>8. m \in S
  <2> HIDE DEF S
  <2>1. QED BY <1>6, <1>7, SetInduction
<1>9. W[m + 1] = V[m] + need(m + 1)
  <2>1. W[m] = V[m] /\ m + 1 \in 1..(m + 1) /\ (m + 1) - 1 = m
    BY <1>8
  <2>2. QED BY <1>5, <2>1
<1>10. need(m + 1) = DarknetNeeds(n.blocks[m + 1], C[m])
  <2>1. (m + 1) - 1 = m
    OBVIOUS
  <2>2. QED BY <2>1 DEF need
<1>11. QED BY <1>4, <1>9, <1>10 DEF C, D, V, W

\* The channels behind each block so far, as the builder has them.
TensorChannels ==
  [k \in 0..index |-> IF k <= 1 THEN network.channels ELSE tensor_outputs[k - 1]]

\* They are darknet's, and so are the weights read.
LayersInv ==
  Numbered(network) =>
    /\ y_phase = "parse" => index = 0 /\ previous = network.channels /\ weight_ptr = 0
    /\ y_phase = "build" =>
         /\ \A k \in 0..index :
              TensorChannels[k] = BlockChannels(network, TensorChannels, k)
         /\ \A k \in 1..index : NamesEarlier(network, k)
         /\ previous = TensorChannels[index]
         /\ Plain(network, index) => weight_ptr = DarknetWeights(network, index)[index]

\* The builder's channels are those of darknet's definition.
LEMMA DarknetsAre ==
  ASSUME PhaseTyped, LayersInv, Numbered(network), y_phase = "build"
  PROVE  DarknetChannels(network, index) = TensorChannels
<1>1. index \in Nat
  BY BlocksAreSeq DEF PhaseTyped
<1>2. TensorChannels = [k \in 0..index |-> TensorChannels[k]]
  BY DEF TensorChannels
<1> DEFINE C == TensorChannels
<1> HIDE DEF C
<1>3. C = [k \in 0..index |-> BlockChannels(network, C, k)]
  <2>1. \A k \in 0..index : C[k] = BlockChannels(network, C, k)
    BY DEF LayersInv, C
  <2>2. C = [k \in 0..index |-> C[k]]
    BY <1>2 DEF C
  <2>3. QED BY <2>1, <2>2
<1>4. \A k \in 1..index : NamesEarlier(network, k)
  BY DEF LayersInv
<1>5. DarknetChannels(network, index) = C
  BY <1>1, <1>3, <1>4, ChannelsAre
<1>6. QED BY <1>5 DEF C

\* What a block with weights needs is what darknet writes for it.
LEMMA NeedsAsDarknet ==
  ASSUME NEW b \in BlockOf, b.type \in Weighted, previous \in Nat,
         SaysAsDarknet(b, previous)
  PROVE  Needs(b) = DarknetNeeds(b, previous)
<1>1. b.filters \in Nat /\ b.size \in Nat /\ b.groups \in Nat
  BY DEF BlockOf
<1>2. CASE b.type = "batchnorm"
  BY <1>2 DEF Needs, BatchnormNeeds, DarknetNeeds, SaysAsDarknet
<1>3. CASE b.type = "deconvolutional"
  <2> DEFINE g == IF b.groups = 0 THEN 1 ELSE b.groups
             q == previous \div g
  <2>1. g \in Nat \ {0} /\ q \in Nat
    BY <1>1, Products
  <2>2. previous = g * q
    <3>1. previous % g = 0
      BY <1>1, <1>3 DEF SaysAsDarknet
    <3> HIDE DEF g
    <3>2. QED BY <2>1, <3>1
  <2> HIDE DEF g, q
  <2>3. b.filters * previous * b.size * b.size = g * (b.filters * q * b.size * b.size)
    BY <1>1, <2>1, <2>2
  <2>4. ASSUME NEW x \in Nat PROVE (g * x) \div g = x
    BY <2>1
  <2>5. b.filters * q * b.size * b.size \in Nat
    <3>1. b.filters * q \in Nat
      BY <1>1, <2>1, Products
    <3>2. b.filters * q * b.size \in Nat
      BY <1>1, <3>1, Products
    <3>3. QED BY <1>1, <3>2, Products
  <2>6. (b.filters * previous * b.size * b.size) \div g = b.filters * q * b.size * b.size
    BY <2>3, <2>4, <2>5
  <2>7. b.type # "batchnorm"
    BY <1>3
  <2>8. Needs(b) = b.filters + (b.filters * previous * b.size * b.size) \div g
    BY <1>3, <2>7 DEF Needs, DeconvolutionNeeds, SaysAsDarknet, g
  <2>9. DarknetNeeds(b, previous) = b.filters + b.filters * q * b.size * b.size
    BY <1>3, <2>7 DEF DarknetNeeds, g, q
  <2>10. QED BY <2>6, <2>8, <2>9
<1>4. QED BY <1>2, <1>3 DEF Weighted

\* A block that adds its tensor: what is left to show is that its channels and its
\* weights are darknet's.
LEMMA LayerMore ==
  ASSUME PhaseTyped, PhaseTyped', TensorsTyped, Counted, LayersInv, Building, Numbered(network),
         index > 0, NEW c \in Nat, Advance(c), UNCHANGED y_phase, weight_ptr' \in Nat,
         NamesEarlier(network, index + 1),
         c = BlockChannels(network, TensorChannels, index + 1),
         DarknetNeeds(Block, previous) = weight_ptr' - weight_ptr \/
           ~SaysAsDarknet(Block, previous)
  PROVE  LayersInv'
<1>1. index \in Nat /\ y_phase = "build" /\ index' = index + 1 /\ network' = network
      /\ Block = network.blocks[index + 1] /\ previous' = c
      /\ tensor_outputs' = Append(tensor_outputs, c)
  BY BlocksAreSeq DEF PhaseTyped, Building, Advance, Block
<1>2. tensor_outputs \in Seq(Nat) /\ Len(tensor_outputs) = index - 1 /\ weight_ptr \in Nat
  BY DEF TensorsTyped, Counted
<1>3. tensor_outputs'[index] = c /\ \A k \in 1..(index - 1) : tensor_outputs'[k] = tensor_outputs[k]
  BY <1>1, <1>2
<1> DEFINE C == TensorChannels
           D == TensorChannels'
<1>4. D = [k \in 0..(index + 1) |-> IF k <= 1 THEN network.channels ELSE tensor_outputs'[k - 1]]
  BY <1>1 DEF TensorChannels
<1> HIDE DEF C, D
<1>5. D[index + 1] = c
  <2>1. index + 1 \in 0..(index + 1) /\ ~(index + 1 <= 1) /\ (index + 1) - 1 = index
    BY <1>1
  <2>2. D[index + 1] = tensor_outputs'[(index + 1) - 1]
    BY <1>4, <2>1
  <2>3. QED BY <1>3, <2>1, <2>2
<1>6. ASSUME NEW k \in 0..index PROVE D[k] = C[k]
  <2>1. D[k] = IF k <= 1 THEN network.channels ELSE tensor_outputs'[k - 1]
    <3>1. k \in 0..(index + 1)
      BY <1>1
    <3>2. QED BY <1>4, <3>1
  <2>2. C[k] = IF k <= 1 THEN network.channels ELSE tensor_outputs[k - 1]
    BY <1>1 DEF C, TensorChannels
  <2>3. ~(k <= 1) => k - 1 \in 1..(index - 1)
    BY <1>1
  <2>4. QED BY <1>3, <2>1, <2>2, <2>3
<1>7. previous = C[index] /\ \A k \in 0..index : C[k] = BlockChannels(network, C, k)
  BY <1>1 DEF LayersInv, C
<1>8. \A k \in 1..(index + 1) : NamesEarlier(network, k)
  <2>1. \A k \in 1..index : NamesEarlier(network, k)
    BY <1>1 DEF LayersInv
  <2>2. \A k \in 1..(index + 1) : k \in 1..index \/ k = index + 1
    BY <1>1
  <2>3. QED BY <2>1, <2>2
<1>9. \A k \in 0..(index + 1) : D[k] = BlockChannels(network, D, k)
  <2>1. ASSUME NEW k \in 1..(index + 1) PROVE BlockChannels(network, D, k) = BlockChannels(network, C, k)
    <3>1. \A i \in 0..(k - 1) : D[i] = C[i]
      BY <1>1, <1>6
    <3>2. k \in Nat \ {0} /\ NamesEarlier(network, k)
      BY <1>1, <1>8
    <3>3. QED BY <3>1, <3>2, ChannelsAgree
  <2>2. D[0] = BlockChannels(network, D, 0)
    <3>1. D[0] = C[0] /\ C[0] = BlockChannels(network, C, 0)
      BY <1>1, <1>6, <1>7
    <3>2. QED BY <3>1 DEF BlockChannels
  <2>3. \A k \in 1..index : D[k] = BlockChannels(network, D, k)
    <3>1. \A k \in 1..index : k \in 0..index /\ k \in 1..(index + 1)
      BY <1>1
    <3>2. QED BY <1>6, <1>7, <2>1, <3>1
  <2>4. D[index + 1] = BlockChannels(network, D, index + 1)
    <3>1. index + 1 \in 1..(index + 1)
      BY <1>1
    <3>2. QED BY <1>5, <2>1, <3>1 DEF C
  <2>5. \A k \in 0..(index + 1) : k = 0 \/ k \in 1..index \/ k = index + 1
    BY <1>1
  <2>6. QED BY <2>2, <2>3, <2>4, <2>5
<1>10. DarknetChannels(network, index) = C
  BY <1>1, DarknetsAre DEF C
<1>11. DarknetChannels(network, index + 1) = D
  <2>1. D = [k \in 0..(index + 1) |-> BlockChannels(network, D, k)]
    <3>1. D = [k \in 0..(index + 1) |-> D[k]]
      BY <1>4
    <3>2. QED BY <1>9, <3>1
  <2>2. index + 1 \in Nat
    BY <1>1
  <2>3. QED BY <1>8, <2>1, <2>2, ChannelsAre
<1>12. Plain(network, index + 1) =>
         weight_ptr' = DarknetWeights(network, index + 1)[index + 1]
  <2> SUFFICES ASSUME Plain(network, index + 1)
               PROVE  weight_ptr' = DarknetWeights(network, index + 1)[index + 1]
    OBVIOUS
  <2>1. \A k \in 0..index : DarknetChannels(network, index + 1)[k] = DarknetChannels(network, index)[k]
    BY <1>6, <1>10, <1>11
  <2>2. /\ DarknetWeights(network, index + 1)[index + 1] =
             DarknetWeights(network, index)[index]
               + DarknetNeeds(network.blocks[index + 1], DarknetChannels(network, index)[index])
        /\ Plain(network, index)
        /\ SaysAsDarknet(network.blocks[index + 1], DarknetChannels(network, index)[index])
    BY <1>1, <2>1, WeightsMore
  <2>3. weight_ptr = DarknetWeights(network, index)[index]
    BY <1>1, <2>2 DEF LayersInv
  <2>4. DarknetNeeds(Block, previous) = weight_ptr' - weight_ptr
    BY <1>1, <1>7, <1>10, <2>2
  <2>5. DarknetWeights(network, index + 1)[index + 1] = weight_ptr + (weight_ptr' - weight_ptr)
    BY <1>1, <1>7, <1>10, <2>2, <2>3, <2>4
  <2>6. QED BY <1>2, <2>5
<1>13. QED
  <2>1. y_phase' = "build" /\ network' = network /\ index' = index + 1
    BY <1>1
  <2>2. /\ \A k \in 0..index' : TensorChannels'[k] = BlockChannels(network', TensorChannels', k)
        /\ \A k \in 1..index' : NamesEarlier(network', k)
        /\ previous' = TensorChannels'[index']
        /\ Plain(network', index') => weight_ptr' = DarknetWeights(network', index')[index']
    BY <1>1, <1>5, <1>8, <1>9, <1>12 DEF D
  <2>3. QED BY <2>1, <2>2 DEF LayersInv

\* A block that is not the first of a numbered file is behind [net].
LEMMA BehindNet ==
  ASSUME PhaseTyped, Building, Numbered(network), Block.type # "net"
  PROVE  index > 0 /\ index \in Nat
<1>1. index \in Nat
  BY BlocksAreSeq DEF PhaseTyped
<1>2. QED BY <1>1, BlockNumbered

\* A route that is there names earlier layers and joins the channels that darknet does.
LEMMA RouteAsDarknet ==
  ASSUME PhaseTyped, TensorsTyped, Counted, Building, Numbered(network),
         Block.type = "route", RouteIsThere
  PROVE  /\ NamesEarlier(network, index + 1)
         /\ Sliced(Joined) = BlockChannels(network, TensorChannels, index + 1)
<1> DEFINE b == network.blocks[index + 1]
           at(j) == DarknetLayer((index + 1) - 1, b.layers[j]) + 2
<1>1. index > 0 /\ index \in Nat /\ Len(tensor_outputs) = index - 1 /\ Block = b
      /\ tensor_outputs \in Seq(Nat)
  BY BehindNet DEF Counted, Block, TensorsTyped
<1>2. b.layers \in Seq(Int) /\ b.groups \in Nat
  BY <1>1, BlockTyped DEF BlockOf
<1> HIDE DEF b
<1>3. ASSUME NEW j \in 1..Len(b.layers)
      PROVE  /\ at(j) \in 0..index
             /\ TensorChannels[at(j)] = tensor_outputs[Position(b.layers[j]) + 1]
  <2>1. Position(b.layers[j]) \in 0..(index - 2) /\ b.layers[j] \in Int
    <3>1. j \in 1..Len(Block.layers) /\ Block.layers[j] = b.layers[j]
      BY <1>1
    <3>2. Position(b.layers[j]) \in 0..(Len(tensor_outputs) - 1)
      BY <3>1 DEF RouteIsThere, Routed
    <3>3. Len(tensor_outputs) - 1 = index - 2
      BY <1>1
    <3>4. QED BY <1>2, <3>2, <3>3
  <2>2. at(j) = Position(b.layers[j]) + 2
    BY <1>1, <2>1 DEF DarknetLayer, Position
  <2> DEFINE p == Position(b.layers[j])
  <2>3. p \in 0..(index - 2) /\ at(j) = p + 2
    BY <2>1, <2>2
  <2> HIDE DEF p, at
  <2>4. at(j) \in 0..index /\ ~(at(j) <= 1) /\ at(j) - 1 = p + 1
    BY <1>1, <2>3
  <2>5. TensorChannels[at(j)] = tensor_outputs[p + 1]
    BY <2>4 DEF TensorChannels
  <2>6. QED BY <2>4, <2>5 DEF p
<1>4. NamesEarlier(network, index + 1)
  <2>1. (index + 1) - 1 = index
    BY <1>1
  <2>2. \A j \in 1..Len(b.layers) : at(j) \in 0..((index + 1) - 1)
    <3> HIDE DEF at
    <3>1. QED BY <1>3, <2>1
  <2>3. QED BY <2>2, Zenon DEF NamesEarlier, b
<1>5. Sliced(Joined) = BlockChannels(network, TensorChannels, index + 1)
  <2> DEFINE f == [j \in 1..Len(b.layers) |-> tensor_outputs[Position(b.layers[j]) + 1]]
             g == [j \in 1..Len(b.layers) |-> TensorChannels[at(j)]]
             groups == IF b.groups = 0 THEN 1 ELSE b.groups
  <2>1. f = g
    <3> HIDE DEF at
    <3>1. QED BY <1>3
  <2>2. Joined = Total(f)
    BY <1>1, Zenon DEF Joined
  <2>3. b.type = "route" /\ index + 1 \in Nat \ {0}
    BY <1>1
  <2>4. BlockChannels(network, TensorChannels, index + 1) = Total(g) \div groups
    BY <2>3, ChannelsByType, Zenon DEF b
  <2>5. Joined \in Nat
    BY JoinedIs
  <2> HIDE DEF f, g
  <2>6. CASE b.groups = 0
    <3>1. Sliced(Joined) = Joined /\ groups = 1
      BY <1>1, <2>6 DEF Sliced
    <3>2. Joined \div 1 = Joined
      BY <2>5
    <3>3. QED BY <2>1, <2>2, <2>4, <3>1, <3>2
  <2>7. CASE b.groups # 0
    <3>1. Sliced(Joined) = Joined \div b.groups /\ groups = b.groups
      BY <1>1, <2>7 DEF Sliced
    <3>2. QED BY <2>1, <2>2, <2>4, <3>1
  <2>8. QED BY <2>6, <2>7
<1>6. QED BY <1>4, <1>5

\* A block that keeps the channels and reads no weights.
LEMMA PlainLayer ==
  ASSUME PhaseTyped, PhaseTyped', TensorsTyped, Counted, LayersInv, Building, Numbered(network),
         Block.type \notin {"net", "route"} \cup Weighted,
         Advance(previous), UNCHANGED <<y_phase, weight_ptr>>
  PROVE  LayersInv'
<1>1. index > 0 /\ index \in Nat /\ y_phase = "build" /\ Block = network.blocks[index + 1]
  BY BehindNet DEF Building, Block
<1>2. Block.type \notin {"deconvolutional", "route", "batchnorm"}
  BY DEF Weighted
<1>3. NamesEarlier(network, index + 1)
  BY <1>1, <1>2 DEF NamesEarlier
<1>4. (index + 1) - 1 = index /\ index + 1 \in Nat \ {0}
  BY <1>1
<1>5. BlockChannels(network, TensorChannels, index + 1) = TensorChannels[(index + 1) - 1]
  BY <1>1, <1>2, <1>4, ChannelsKept
<1>6. previous = TensorChannels[index] /\ previous \in Nat /\ weight_ptr \in Nat
  BY <1>1 DEF LayersInv, TensorsTyped
<1>7. DarknetNeeds(Block, previous) = 0
  BY <1>2 DEF DarknetNeeds
<1>8. QED BY <1>1, <1>3, <1>4, <1>5, <1>6, <1>7, LayerMore

\* A block with weights.
LEMMA WeightedLayer ==
  ASSUME PhaseTyped, PhaseTyped', TensorsTyped, Counted, LayersInv, Numbered(network), WeightedBuilt
  PROVE  LayersInv'
<1>1. /\ Building /\ Block.type \in Weighted /\ weight_ptr' = weight_ptr + Needs(Block)
      /\ Advance(WeightedChannels(Block)) /\ UNCHANGED y_phase
  BY DEF WeightedBuilt, Types
<1>2. Block.type # "net" /\ Block.type # "route"
  BY <1>1 DEF Weighted
<1>3. index > 0 /\ index \in Nat /\ y_phase = "build" /\ Block = network.blocks[index + 1]
  BY <1>1, <1>2, BehindNet DEF Building, Block
<1>4. (index + 1) - 1 = index /\ index + 1 \in Nat \ {0}
  BY <1>3
<1>5. Block \in BlockOf /\ previous \in Nat /\ weight_ptr \in Nat /\ previous = TensorChannels[index]
  BY <1>1, <1>3, BlockTyped DEF LayersInv, TensorsTyped
<1>6. Needs(Block) \in Nat /\ WeightedChannels(Block) \in Nat
  BY <1>5, NeedsIs
<1>7. NamesEarlier(network, index + 1)
  BY <1>2, <1>3 DEF NamesEarlier
<1>8. WeightedChannels(Block) = BlockChannels(network, TensorChannels, index + 1)
  <2>1. CASE Block.type = "deconvolutional"
    <3>1. BlockChannels(network, TensorChannels, index + 1) = Block.filters
      BY <1>3, <1>4, <2>1, ChannelsByType, Zenon
    <3>2. QED BY <2>1, <3>1 DEF WeightedChannels
  <2>2. CASE Block.type = "batchnorm"
    <3>1. Block.type \notin {"deconvolutional", "route"}
      BY <2>2
    <3>2. BlockChannels(network, TensorChannels, index + 1) = TensorChannels[(index + 1) - 1]
      BY <1>3, <1>4, <3>1, ChannelsByType, Zenon
    <3>3. QED BY <1>4, <1>5, <2>2, <3>2 DEF WeightedChannels
  <2>3. QED BY <1>1, <2>1, <2>2 DEF Weighted
<1>9. DarknetNeeds(Block, previous) = weight_ptr' - weight_ptr \/
        ~SaysAsDarknet(Block, previous)
  <2> SUFFICES ASSUME SaysAsDarknet(Block, previous)
               PROVE  DarknetNeeds(Block, previous) = weight_ptr' - weight_ptr
    OBVIOUS
  <2>1. Needs(Block) = DarknetNeeds(Block, previous)
    BY <1>1, <1>5, NeedsAsDarknet
  <2>2. QED BY <1>1, <1>5, <1>6, <2>1
<1>10. weight_ptr' \in Nat
  BY <1>1, <1>5, <1>6
<1>11. QED BY <1>1, <1>3, <1>6, <1>7, <1>8, <1>9, <1>10, LayerMore

\* [net] adds no tensor, and the channels behind it are the input's.
LEMMA NetLayer ==
  ASSUME PhaseTyped, PhaseTyped', LayersInv, Numbered(network), NetBlock
  PROVE  LayersInv'
<1>1. /\ y_phase = "build" /\ y_phase' = "build" /\ index' = index + 1 /\ network' = network
      /\ previous' = previous /\ weight_ptr' = weight_ptr /\ tensor_outputs' = tensor_outputs
      /\ Building /\ Block.type = "net" /\ Block = network.blocks[index + 1]
  BY DEF NetBlock, Types, Building, build_vars, Block
<1>2. index = 0
  BY <1>1, BlockNumbered
<1>3. TensorChannels' = [k \in 0..1 |-> network.channels]
  BY <1>1, <1>2 DEF TensorChannels
<1>4. previous = network.channels
  BY <1>1, <1>2 DEF LayersInv, TensorChannels
<1> DEFINE C == TensorChannels
           D == TensorChannels'
<1>5. D[0] = network.channels /\ D[1] = network.channels /\ C[0] = network.channels
  BY <1>2, <1>3 DEF TensorChannels
<1>6. D = [k \in 0..1 |-> D[k]]
  BY <1>3
<1> HIDE DEF C, D
<1>7. NamesEarlier(network, 1)
  BY <1>1, <1>2 DEF NamesEarlier
<1>8. \A k \in 0..1 : D[k] = BlockChannels(network, D, k)
  <2>1. D[0] = BlockChannels(network, D, 0)
    BY <1>5 DEF BlockChannels
  <2>2. /\ index + 1 \in Nat \ {0} /\ index + 1 = 1 /\ (index + 1) - 1 = 0
        /\ Block.type \notin {"deconvolutional", "route"} /\ Block = network.blocks[index + 1]
    BY <1>1, <1>2
  <2>3. BlockChannels(network, D, index + 1) = D[(index + 1) - 1]
    BY <2>2, ChannelsByType, Zenon
  <2>4. QED BY <1>5, <2>1, <2>2, <2>3
<1>9. DarknetChannels(network, 1) = D
  <2>1. D = [k \in 0..1 |-> BlockChannels(network, D, k)]
    BY <1>6, <1>8
  <2>2. \A k \in 1..1 : NamesEarlier(network, k)
    BY <1>7
  <2>3. 1 \in Nat
    OBVIOUS
  <2>4. QED BY <2>1, <2>2, <2>3, ChannelsAre
<1>10. DarknetChannels(network, 0) = C
  BY <1>1, <1>2, DarknetsAre DEF C
<1>11. Plain(network, 1) => weight_ptr = DarknetWeights(network, 1)[1]
  <2> SUFFICES ASSUME Plain(network, 1) PROVE weight_ptr = DarknetWeights(network, 1)[1]
    OBVIOUS
  <2>1. 0 \in Nat /\ 0 + 1 = 1 /\ \A k \in 0..0 : k = 0
    OBVIOUS
  <2>2. \A k \in 0..0 : DarknetChannels(network, 0 + 1)[k] = DarknetChannels(network, 0)[k]
    BY <1>5, <1>9, <1>10, <2>1
  <2>3. /\ DarknetWeights(network, 0 + 1)[0 + 1] =
             DarknetWeights(network, 0)[0]
               + DarknetNeeds(network.blocks[0 + 1], DarknetChannels(network, 0)[0])
        /\ Plain(network, 0 + 1) => Plain(network, 0)
    BY <2>1, <2>2, WeightsMore
  <2>4. weight_ptr = DarknetWeights(network, 0)[0] /\ DarknetWeights(network, 0)[0] = 0
    BY <1>1, <1>2, <2>1, <2>3, WeightsAre DEF LayersInv
  <2>5. DarknetNeeds(network.blocks[0 + 1], DarknetChannels(network, 0)[0]) = 0
    BY <1>1, <1>2 DEF DarknetNeeds
  <2>6. QED BY <2>1, <2>3, <2>4, <2>5
<1>12. /\ \A k \in 0..index' : TensorChannels'[k] = BlockChannels(network', TensorChannels', k)
       /\ \A k \in 1..index' : NamesEarlier(network', k)
       /\ previous' = TensorChannels'[index']
       /\ Plain(network', index') => weight_ptr' = DarknetWeights(network', index')[index']
  BY <1>1, <1>2, <1>4, <1>5, <1>7, <1>8, <1>11 DEF D
<1>13. QED BY <1>1, <1>12 DEF LayersInv

\* Each step keeps the channels and the weights darknet's.
LEMMA LayersStep ==
  PhaseTyped /\ PhaseTyped' /\ TensorsTyped /\ Counted /\ LayersInv /\ [YoloNext]_yolo_vars => LayersInv'
<1> SUFFICES ASSUME PhaseTyped, PhaseTyped', TensorsTyped, Counted, LayersInv, [YoloNext]_yolo_vars
             PROVE  LayersInv'
  OBVIOUS
<1>1. network' = network
  BY DEF YoloNext, ParseConfigBlocks, NoInput, Leave, WeightedStep, WeightedLacksKey, BatchnormAborts, WeightedFails,
         WeightedBuilt, WeightsOverrun, Undefined, MergeStep, MergeAborts, MergeFails, ShortcutBuilt,
         SamBuilt, Merge, Advance, Abort, RouteStep, RouteFails, RouteUndefined, RouteAborts,
         RouteBuilt, PlainStep, NetBlock, DropoutBlock, UnsupportedBlock, RefusedBlock, UpsampleFails,
         UpsampleBuilt, DetectionBlock, EndStep, Incomplete, PluginRefused, MarkOutputs, NoEngine,
         BuildEngine, yolo_vars
<1> SUFFICES ASSUME Numbered(network) PROVE LayersInv'
  BY <1>1 DEF LayersInv
<1>2. ASSUME y_phase' \notin {"parse", "build"} PROVE LayersInv'
  BY <1>2 DEF LayersInv
<1>3. CASE ParseConfigBlocks
  <2>1. CASE Unreadable
    BY <1>2, <1>3, <2>1 DEF ParseConfigBlocks
  <2>2. CASE ~Unreadable
    <3>1. /\ y_phase = "parse" /\ y_phase' = "build" /\ index' = index /\ previous' = previous
          /\ weight_ptr' = weight_ptr /\ tensor_outputs' = tensor_outputs
      BY <1>3, <2>2 DEF ParseConfigBlocks, build_vars
    <3>2. index = 0 /\ previous = network.channels /\ weight_ptr = 0
      BY <3>1 DEF LayersInv
    <3>3. TensorChannels' = [k \in 0..0 |-> network.channels]
      BY <1>1, <3>1, <3>2 DEF TensorChannels
    <3>4. \A k \in 0..index' : TensorChannels'[k] = BlockChannels(network', TensorChannels', k)
      BY <1>1, <3>1, <3>2, <3>3 DEF BlockChannels
    <3>5. previous' = TensorChannels'[index']
      BY <3>1, <3>2, <3>3
    <3>6. weight_ptr' = DarknetWeights(network', index')[index']
      <4>1. 0 \in Nat
        OBVIOUS
      <4>2. DarknetWeights(network, 0)[0] = 0
        BY <4>1, WeightsAre
      <4>3. QED BY <1>1, <3>1, <3>2, <4>2
    <3>7. \A k \in 1..index' : NamesEarlier(network', k)
      BY <3>1, <3>2
    <3>8. QED BY <1>1, <3>1, <3>4, <3>5, <3>6, <3>7 DEF LayersInv
  <2>3. QED BY <2>1, <2>2
<1>4. CASE NoInput
  BY <1>2, <1>4 DEF NoInput, Leave
<1>5. CASE WeightedBuilt
  BY <1>5, WeightedLayer
<1>6. CASE ShortcutBuilt \/ SamBuilt
  <2>1. /\ Building /\ Block.type \in {"shortcut", "sam"} /\ Advance(previous)
        /\ UNCHANGED <<y_phase, weight_ptr>>
    BY <1>6 DEF ShortcutBuilt, SamBuilt, Types, Merge
  <2>2. Block.type \notin {"net", "route"} \cup Weighted
    BY <2>1 DEF Weighted
  <2>3. QED BY <2>1, <2>2, PlainLayer
<1>7. CASE UpsampleBuilt \/ DetectionBlock
  <2>1. /\ Building /\ Block.type \in {"upsample", "yolo", "region"} /\ Advance(previous)
        /\ UNCHANGED <<y_phase, weight_ptr>>
    BY <1>7 DEF UpsampleBuilt, DetectionBlock, Types, Detections
  <2>2. Block.type \notin {"net", "route"} \cup Weighted
    BY <2>1 DEF Weighted
  <2>3. QED BY <2>1, <2>2, PlainLayer
<1>8. CASE RouteBuilt
  <2>1. /\ Building /\ Block.type = "route" /\ RouteIsThere /\ Advance(Sliced(Joined))
        /\ UNCHANGED <<y_phase, weight_ptr>>
    BY <1>8 DEF RouteBuilt, Types
  <2>2. index > 0
    BY <2>1, BehindNet
  <2>3. /\ NamesEarlier(network, index + 1)
        /\ Sliced(Joined) = BlockChannels(network, TensorChannels, index + 1)
    BY <2>1, RouteAsDarknet
  <2>4. Sliced(Joined) \in Nat
    BY <2>1, JoinedIs
  <2>5. weight_ptr \in Nat /\ DarknetNeeds(Block, previous) = 0
    BY <2>1 DEF TensorsTyped, DarknetNeeds
  <2>6. QED BY <2>1, <2>2, <2>3, <2>4, <2>5, LayerMore
<1>9. CASE NetBlock
  BY <1>9, NetLayer
<1>10. CASE DropoutBlock
  BY <1>10, BlockNumbered DEF DropoutBlock, Types
<1>11. CASE WeightedLacksKey \/ BatchnormAborts \/ WeightedFails \/ WeightsOverrun
  BY <1>2, <1>11 DEF WeightedLacksKey, BatchnormAborts, WeightedFails, WeightsOverrun, Leave, Abort, Undefined
<1>12. CASE MergeAborts \/ MergeFails
  BY <1>2, <1>12 DEF MergeAborts, MergeFails, Leave, Abort
<1>13. CASE RouteFails \/ RouteUndefined \/ RouteAborts
  BY <1>2, <1>13 DEF RouteFails, RouteUndefined, RouteAborts, Leave, Undefined, Abort
<1>14. CASE UnsupportedBlock \/ RefusedBlock \/ UpsampleFails
  BY <1>2, <1>14 DEF UnsupportedBlock, RefusedBlock, UpsampleFails, Leave
<1>15. CASE EndStep
  BY <1>2, <1>15 DEF EndStep, Incomplete, PluginRefused, MarkOutputs, NoEngine, BuildEngine, Leave
<1>16. CASE UNCHANGED yolo_vars
  <2>1. UNCHANGED <<network, y_phase, index, previous, weight_ptr, tensor_outputs>>
    BY <1>16 DEF yolo_vars, build_vars
  <2>2. TensorChannels' = TensorChannels
    BY <2>1 DEF TensorChannels
  <2>3. QED BY <2>1, <2>2 DEF LayersInv
<1>17. QED
  BY <1>3, <1>4, <1>5, <1>6, <1>7, <1>8, <1>9, <1>10, <1>11, <1>12, <1>13, <1>14, <1>15, <1>16
  DEF YoloNext, WeightedStep, MergeStep, RouteStep, PlainStep

\* While the builder goes on, the tensor the next block takes has darknet's channels and
\* the position in the weights is where darknet's next block begins, whatever the network.
THEOREM WeightsAreAsDarknet == YoloSpec => []WeightsAsDarknet
<1>1. YoloInit => LayersInv
  BY DEF YoloInit, LayersInv
<1>2. PhaseTyped /\ LayersInv => WeightsAsDarknet
  <2> SUFFICES ASSUME PhaseTyped, LayersInv, y_phase = "build", Numbered(network)
               PROVE  /\ previous = DarknetChannels(network, index)[index]
                      /\ Plain(network, index) => weight_ptr = DarknetWeights(network, index)[index]
    BY DEF WeightsAsDarknet
  <2>1. DarknetChannels(network, index) = TensorChannels
    BY DarknetsAre
  <2>2. QED BY <2>1 DEF LayersInv
<1>3. YoloSpec => [](PhaseTyped /\ TensorsTyped)
  <2>1. YoloInit => TensorsTyped
    BY TensorsInit
  <2>2. OutputsInv => PhaseTyped
    BY DEF OutputsInv
  <2>3. QED BY <2>1, <2>2, TensorsStep, OutputsAlways, PTL DEF YoloSpec
<1>4. YoloSpec => []Counted
  <2>1. YoloInit => NamesInv
    BY NamesInit
  <2>2. NamesInv => Counted
    BY DEF NamesInv
  <2>3. QED BY <1>3, <2>1, <2>2, NamesStep, PTL DEF YoloSpec
<1>5. QED BY <1>1, <1>2, <1>3, <1>4, LayersStep, PTL DEF YoloSpec

-----------------------------------------------------------------------------
(* One group *)

EngineKinds == {"secondary-gie", "primary-gie", "sink"}
Faulty == {"value", "rule"}

\* What the outcome and the component of a group that is read can be.
ReadsWell(p, g, c) ==
  /\ p.outcome \in {"ok", "failed", "thrown"}
  /\ p.component \in {c, Put(g, c), AtLeastOne(Put(g, c)), [Put(g, c) EXCEPT !.is_parsed = TRUE]}
  /\ g.kind \in {"secondary-gie", "sink"} => p.component \in {c, Put(g, c)}
  /\ g.kind \notin EngineKinds =>
       p.component \in {Put(g, c), AtLeastOne(Put(g, c)), [Put(g, c) EXCEPT !.is_parsed = TRUE]}

\* How the reading of a group can end, by the faults it has.
LEMMA OutcomesAre ==
  ASSUME NEW g \in Groups
  PROVE  /\ IniOutcome(g) \in {"ok", "failed"} /\ (IniOutcome(g) = "ok" <=> g.fault \notin Faulty)
         /\ YamlOutcome(g) \in {"ok", "failed", "thrown"} /\ (YamlOutcome(g) = "ok" <=> g.fault \notin Faulty)
         /\ StrictOutcome(g) \in {"ok", "failed", "thrown"} /\ (StrictOutcome(g) = "ok" => g.fault \notin Faulty)
<1>1. IniOutcome(g) \in {"ok", "failed"} /\ (IniOutcome(g) = "ok" <=> g.fault \notin Faulty)
  BY DEF IniOutcome, Faulty
<1>2. YamlOutcome(g) \in {"ok", "failed", "thrown"} /\ (YamlOutcome(g) = "ok" <=> g.fault \notin Faulty)
  BY DEF YamlOutcome, Faulty
<1>3. StrictOutcome(g) \in {"ok", "failed", "thrown"} /\ (StrictOutcome(g) = "ok" => g.fault \notin Faulty)
  BY <1>2 DEF StrictOutcome, Faulty
<1>4. QED BY <1>1, <1>2, <1>3

\* An INI group: it is read as a whole, or an engine or a sink is left alone.
LEMMA IniGroupReads ==
  ASSUME NEW g \in Groups, g.kind \in IniKinds, g.kind # "source-csv", NEW c
  PROVE  /\ ReadsWell(ParseIni(g, c), g, c)
         /\ ParseIni(g, c).outcome = "ok" /\ (g.kind \in EngineKinds => Enabled(g)) => g.fault \notin Faulty
         /\ g.kind \in EngineKinds =>
              /\ Enabled(g) => ParseIni(g, c).component = Put(g, c)
              /\ ~Enabled(g) => ParseIni(g, c).component = c
<1> DEFINE p == ParseIni(g, c)
           pc == Put(g, c)
           Fine(q) == /\ q.outcome \in {"ok", "failed", "thrown"}
                      /\ q.outcome = "ok" => g.fault \notin Faulty
                      /\ q.component \in {pc, AtLeastOne(pc), [pc EXCEPT !.is_parsed = TRUE]}
<1>0. g.kind \in {"source", "primary-gie", "secondary-gie", "pre-process", "secondary-pre-process", "sink",
                  "message-consumer", "streammux", "osd", "tracker", "tiled-display", "img-save", "analytics",
                  "message-converter", "tests"}
  BY DEF IniKinds, Kinds, SlotKinds, SingleKinds
<1>1. ASSUME NEW d PROVE Fine(Parsed(IniOutcome(g), pc)) /\ Fine(Parsed(IniOutcome(g), AtLeastOne(pc)))
                         /\ Fine(Parsed(IniOutcome(g), [pc EXCEPT !.is_parsed = TRUE]))
  BY OutcomesAre DEF Parsed
<1>2. CASE g.kind \notin EngineKinds
  <2>1. Fine(p)
    <3>1. CASE g.kind = "source"
      BY <3>1, <1>1, Zenon DEF ParseIni, parse_source
    <3>2. CASE g.kind \in {"pre-process", "secondary-pre-process"}
      BY <3>2, <1>1 DEF ParseIni, parse_preprocess
    <3>3. CASE g.kind = "message-consumer"
      BY <3>3, <1>1 DEF ParseIni, parse_msgconsumer
    <3>4. CASE g.kind = "streammux"
      BY <3>4, <1>1 DEF ParseIni, parse_streammux
    <3>5. CASE g.kind = "osd"
      BY <3>5, <1>1 DEF ParseIni, parse_osd
    <3>6. CASE g.kind = "tracker"
      BY <3>6, <1>1 DEF ParseIni, parse_tracker
    <3>7. CASE g.kind = "tiled-display"
      BY <3>7, <1>1 DEF ParseIni, parse_tiled_display
    <3>8. CASE g.kind = "img-save"
      BY <3>8, <1>1 DEF ParseIni, parse_image_save
    <3>9. CASE g.kind = "analytics"
      BY <3>9, <1>1 DEF ParseIni, parse_analytics
    <3>10. CASE g.kind = "message-converter"
      BY <3>10, <1>1 DEF ParseIni, parse_msgconv
    <3>11. CASE g.kind = "tests"
      BY <3>11, <1>1 DEF ParseIni, parse_tests
    <3>12. QED
      BY <1>0, <1>2, <3>1, <3>2, <3>3, <3>4, <3>5, <3>6, <3>7, <3>8, <3>9, <3>10, <3>11 DEF EngineKinds
  <2>2. QED BY <1>2, <2>1 DEF ReadsWell, EngineKinds
<1>3. CASE g.kind = "sink"
  <2>1. p = IF Enabled(g) THEN Parsed(IniOutcome(g), pc) ELSE Parsed("ok", c)
    BY <1>3 DEF ParseIni, parse_sink
  <2> HIDE DEF p, pc
  <2>2. QED BY <2>1, <1>3, OutcomesAre DEF p, pc, Parsed, ReadsWell, EngineKinds
<1>4. CASE g.kind \in {"primary-gie", "secondary-gie"}
  <2>1. p = IF ~Enabled(g) THEN Parsed("ok", c)
            ELSE Parsed(IF pc.config_file THEN IniOutcome(g) ELSE "failed", pc)
    BY <1>4 DEF ParseIni, parse_gie
  <2>2. CASE ~Enabled(g)
    BY <2>1, <2>2, <1>4 DEF Parsed, ReadsWell, EngineKinds
  <2>3. CASE Enabled(g)
    BY <2>1, <2>3, <1>4, OutcomesAre DEF Parsed, ReadsWell, EngineKinds
  <2>4. QED BY <2>2, <2>3
<1>5. QED BY <1>2, <1>3, <1>4 DEF EngineKinds

\* A YAML group, or a line of the CSV file.
LEMMA YamlGroupReads ==
  ASSUME NEW g \in Groups, g.kind \in YamlKinds \cup {"source"}, NEW c
  PROVE  /\ ReadsWell(ParseYaml(g, c), g, c)
         /\ ParseYaml(g, c).outcome = "ok" /\ (g.kind \in EngineKinds => ~Disabled(g)) => g.fault \notin Faulty
         /\ g.kind \in EngineKinds =>
              /\ Disabled(g) => ParseYaml(g, c).component = c
              /\ ~Disabled(g) => ParseYaml(g, c).component = Put(g, c)
<1> DEFINE p == ParseYaml(g, c)
           pc == Put(g, c)
           Fine(q) == /\ q.outcome \in {"ok", "failed", "thrown"}
                      /\ q.outcome = "ok" => g.fault \notin Faulty
                      /\ q.component \in {pc, AtLeastOne(pc), [pc EXCEPT !.is_parsed = TRUE]}
<1>0. g.kind \in {"source", "primary-gie", "secondary-gie", "pre-process", "sink",
                  "message-consumer", "streammux", "osd", "tracker", "tiled-display", "img-save", "analytics",
                  "message-converter", "tests"}
  BY DEF YamlKinds, IniKinds, Kinds, SlotKinds, SingleKinds
<1>1. /\ Fine(Parsed(YamlOutcome(g), pc)) /\ Fine(Parsed(YamlOutcome(g), AtLeastOne(pc)))
      /\ Fine(Parsed(StrictOutcome(g), [pc EXCEPT !.is_parsed = TRUE])) /\ Fine(Parsed(StrictOutcome(g), pc))
  BY OutcomesAre DEF Parsed
<1>2. CASE g.kind \notin EngineKinds
  <2>1. Fine(p)
    <3>1. CASE g.kind = "source"
      BY <3>1, <1>1, Zenon DEF ParseYaml, parse_source_yaml
    <3>2. CASE g.kind = "pre-process"
      BY <3>2, <1>1 DEF ParseYaml, parse_preprocess_yaml
    <3>3. CASE g.kind = "message-consumer"
      BY <3>3, <1>1 DEF ParseYaml, parse_msgconsumer_yaml
    <3>4. CASE g.kind = "streammux"
      BY <3>4, <1>1 DEF ParseYaml, parse_streammux_yaml
    <3>5. CASE g.kind = "osd"
      BY <3>5, <1>1 DEF ParseYaml, parse_osd_yaml
    <3>6. CASE g.kind = "tracker"
      BY <3>6, <1>1 DEF ParseYaml, parse_tracker_yaml
    <3>7. CASE g.kind = "tiled-display"
      BY <3>7, <1>1 DEF ParseYaml, parse_tiled_display_yaml
    <3>8. CASE g.kind = "img-save"
      BY <3>8, <1>1 DEF ParseYaml, parse_image_save_yaml
    <3>9. CASE g.kind = "analytics"
      BY <3>9, <1>1 DEF ParseYaml, parse_analytics_yaml
    <3>10. CASE g.kind = "message-converter"
      BY <3>10, <1>1 DEF ParseYaml, parse_msgconv_yaml
    <3>11. CASE g.kind = "tests"
      BY <3>11, <1>1 DEF ParseYaml, parse_tests_yaml
    <3>12. QED
      BY <1>0, <1>2, <3>1, <3>2, <3>3, <3>4, <3>5, <3>6, <3>7, <3>8, <3>9, <3>10, <3>11 DEF EngineKinds
  <2>2. QED BY <1>2, <2>1 DEF ReadsWell, EngineKinds
<1>3. CASE g.kind = "sink"
  <2>1. p = IF Disabled(g) THEN Parsed("ok", c) ELSE Parsed(YamlOutcome(g), pc)
    BY <1>3 DEF ParseYaml, parse_sink_yaml
  <2> HIDE DEF p, pc
  <2>2. QED BY <2>1, <1>3, OutcomesAre DEF p, pc, Parsed, ReadsWell, EngineKinds
<1>4. CASE g.kind \in {"primary-gie", "secondary-gie"}
  <2>1. p = IF Disabled(g) THEN Parsed("ok", c)
            ELSE Parsed(IF pc.config_file \/ YamlOutcome(g) # "ok" THEN YamlOutcome(g) ELSE "failed", pc)
    BY <1>4 DEF ParseYaml, parse_gie_yaml
  <2>2. CASE Disabled(g)
    BY <2>1, <2>2, <1>4 DEF Parsed, ReadsWell, EngineKinds
  <2>3. CASE ~Disabled(g)
    BY <2>1, <2>3, <1>4, OutcomesAre DEF Parsed, ReadsWell, EngineKinds
  <2>4. QED BY <2>2, <2>3
<1>5. QED BY <1>2, <1>3, <1>4 DEF EngineKinds

-----------------------------------------------------------------------------
(* What is stored *)

\* Tables of the right sizes.
Shaped(c) ==
  /\ {"single", "slots", "num", "total_num_sources", "source_list_enabled", "source_attr_all_parsed"} \subseteq DOMAIN c
  /\ DOMAIN c.single = SingleKinds /\ DOMAIN c.slots = SlotKinds /\ DOMAIN c.num = SlotKinds
  /\ \A k \in SlotKinds : DOMAIN c.slots[k] = 1..MaxSlots[k]

\* The component is in the first free slot of its kind, which it takes when it is enabled.
SlotStored(s, g, c) ==
  /\ Shaped(s)
  /\ s.single = config.single
  /\ \A k \in SlotKinds : k # g.kind => s.num[k] = config.num[k]
  /\ c.enable => s.num[g.kind] = config.num[g.kind] + 1
  /\ ~c.enable => s.num[g.kind] = config.num[g.kind]
  /\ \A k \in SlotKinds : \A n \in 1..MaxSlots[k] :
       s.slots[k][n] = IF k = g.kind /\ n = config.num[k] + 1 THEN c ELSE config.slots[k][n]
  /\ s.total_num_sources = config.total_num_sources
  /\ s.source_list_enabled = config.source_list_enabled
  /\ DOMAIN s = DOMAIN config

\* A group of which there are many goes to the first free slot and takes it when it is enabled.
LEMMA StoredInSlot ==
  ASSUME Shaped(config), NEW g \in Groups, g.kind \in SlotKinds, NEW c,
         config.num[g.kind] \in 0..MaxSlots[g.kind], ~Full(g)
  PROVE  SlotStored(Stored(g, c), g, c)
<1> DEFINE next == config.num[g.kind] + 1
           slots == [config.slots EXCEPT ![g.kind] = [config.slots[g.kind] EXCEPT ![next] = c]]
           num == [config.num EXCEPT ![g.kind] = IF c.enable THEN config.num[g.kind] + 1 ELSE config.num[g.kind]]
<1>1. next \in 1..MaxSlots[g.kind]
  BY MaxSlotsAssumption DEF Full
<1>2. Stored(g, c) = [[config EXCEPT !.slots = slots] EXCEPT !.num = num]
  BY Zenon DEF Stored
<1>3. /\ DOMAIN slots = SlotKinds /\ DOMAIN num = SlotKinds
      /\ \A k \in SlotKinds : DOMAIN slots[k] = 1..MaxSlots[k]
      /\ \A k \in SlotKinds : k # g.kind => num[k] = config.num[k]
      /\ c.enable => num[g.kind] = config.num[g.kind] + 1
      /\ ~c.enable => num[g.kind] = config.num[g.kind]
      /\ \A k \in SlotKinds : \A n \in 1..MaxSlots[k] :
           slots[k][n] = IF k = g.kind /\ n = config.num[k] + 1 THEN c ELSE config.slots[k][n]
  BY <1>1 DEF Shaped
<1> HIDE DEF slots, num
<1>4. /\ Stored(g, c).slots = slots /\ Stored(g, c).num = num /\ Stored(g, c).single = config.single
      /\ Stored(g, c).total_num_sources = config.total_num_sources
      /\ Stored(g, c).source_list_enabled = config.source_list_enabled
      /\ DOMAIN Stored(g, c) = DOMAIN config
  BY <1>2 DEF Shaped
<1>5. QED BY <1>3, <1>4 DEF Shaped, SlotStored

\* The others have a place of their own.
LEMMA StoredAlone ==
  ASSUME Shaped(config), NEW g \in Groups, g.kind \in SingleKinds, NEW c
  PROVE  /\ Shaped(Stored(g, c))
         /\ Stored(g, c).slots = config.slots /\ Stored(g, c).num = config.num
         /\ \A k \in SingleKinds : Stored(g, c).single[k] = IF k = g.kind THEN c ELSE config.single[k]
         /\ Stored(g, c).total_num_sources = config.total_num_sources
         /\ Stored(g, c).source_list_enabled = config.source_list_enabled
         /\ DOMAIN Stored(g, c) = DOMAIN config
<1> DEFINE single == [config.single EXCEPT ![g.kind] = c]
<1>1. g.kind \notin SlotKinds
  BY DEF SlotKinds, SingleKinds
<1>2. Stored(g, c) = [config EXCEPT !.single = single]
  BY <1>1, Zenon DEF Stored
<1>3. DOMAIN single = SingleKinds /\ \A k \in SingleKinds : single[k] = IF k = g.kind THEN c ELSE config.single[k]
  BY DEF Shaped
<1> HIDE DEF single
<1>4. QED BY <1>2, <1>3 DEF Shaped

-----------------------------------------------------------------------------
(* The expansion of the sources *)

SourceTyped(s) == DOMAIN Source \subseteq DOMAIN s /\ s.num_sources \in Int
SourcesTyped(c) == \A n \in 1..MaxSlots["source"] : SourceTyped(c.slots["source"][n])

\* What the expansion of some sources leaves as it was, and the types of the rest.
ExpandKeeps(c) ==
  /\ Shaped(c) /\ SourcesTyped(c)
  /\ c.single = config.single
  /\ c.total_num_sources = config.total_num_sources
  /\ c.source_list_enabled = config.source_list_enabled
  /\ \A k \in SlotKinds \ {"source"} : c.num[k] = config.num[k] /\ c.slots[k] = config.slots[k]
  /\ c.num["source"] \in 0..MaxSlots["source"]
  /\ DOMAIN c = DOMAIN config \cup {"fits"}

\* At least one.
LEMMA Max1Is == \A n \in Int : Max1(n) \in Nat /\ Max1(n) >= 1
BY DEF Max1

\* A part is a source of its own.
LEMMA PartTyped ==
  ASSUME NEW s, SourceTyped(s), NEW j
  PROVE  /\ SourceTyped([s EXCEPT !.num_sources = Max1(@)])
         /\ [s EXCEPT !.num_sources = Max1(@)].num_sources = Max1(s.num_sources)
         /\ SourceTyped(Part([s EXCEPT !.num_sources = Max1(@)], j))
<1>1. "num_sources" \in DOMAIN s
  BY DEF SourceTyped, Source
<1>2. Max1(s.num_sources) \in Int
  BY Max1Is DEF SourceTyped
<1> DEFINE t == [s EXCEPT !.num_sources = Max1(@)]
<1>3. DOMAIN t = DOMAIN s /\ t.num_sources = Max1(s.num_sources)
  BY <1>1
<1> HIDE DEF t
<1>4. SourceTyped(t)
  BY <1>2, <1>3 DEF SourceTyped
<1>5. DOMAIN Part(t, j) = DOMAIN t /\ Part(t, j).num_sources = t.num_sources
  BY <1>1, <1>3 DEF Part
<1>6. SourceTyped(Part(t, j))
  BY <1>4, <1>5 DEF SourceTyped
<1>7. QED BY <1>3, <1>4, <1>6 DEF t

\* One source, with the slots behind the last for its further parts.
Parted(c, i) == [c.slots["source"][i] EXCEPT !.num_sources = Max1(@)]
PartsOf(c, i) == Max1(c.slots["source"][i].num_sources)

\* One source: nothing to expand, no room, or its parts behind the last slot.
LEMMA ExpandIs ==
  ASSUME NEW c, Shaped(c), SourcesTyped(c), c.num["source"] \in 0..MaxSlots["source"],
         NEW i \in 1..MaxSlots["source"], "fits" \in DOMAIN c
  PROVE  LET n == c.num["source"]
             last == n + PartsOf(c, i) - 1
         IN \/ /\ ~c.fits \/ c.slots["source"][i].type # "multi"
               /\ Expand(c, i) = c
            \/ /\ c.fits /\ c.slots["source"][i].type = "multi" /\ last > MaxSlots["source"]
               /\ Expand(c, i) = [c EXCEPT !.fits = FALSE]
            \/ /\ c.fits /\ c.slots["source"][i].type = "multi" /\ last <= MaxSlots["source"]
               /\ last \in n..MaxSlots["source"]
               /\ \A k \in SlotKinds \ {"source"} :
                    Expand(c, i).num[k] = c.num[k] /\ Expand(c, i).slots[k] = c.slots[k]
               /\ Expand(c, i).num["source"] = last
               /\ \A k \in 1..MaxSlots["source"] :
                    Expand(c, i).slots["source"][k] =
                      IF k = i THEN Part(Parted(c, i), 0)
                      ELSE IF k \in (n + 1)..last THEN Part(Parted(c, i), k - n) ELSE c.slots["source"][k]
               /\ Shaped(Expand(c, i)) /\ DOMAIN Expand(c, i) = DOMAIN c
               /\ Expand(c, i).fits /\ Expand(c, i).single = c.single
               /\ Expand(c, i).total_num_sources = c.total_num_sources
               /\ Expand(c, i).source_list_enabled = c.source_list_enabled
<1> DEFINE n == c.num["source"]
           s == Parted(c, i)
           last == n + s.num_sources - 1
           table == [k \in 1..MaxSlots["source"] |->
                       IF k = i THEN Part(s, 0)
                       ELSE IF k \in (n + 1)..last THEN Part(s, k - n) ELSE c.slots["source"][k]]
           num == [c.num EXCEPT !["source"] = last]
           slots == [c.slots EXCEPT !["source"] = table]
<1>0. MaxSlots["source"] \in Nat /\ "source" \in SlotKinds
  BY MaxSlotsAssumption DEF SlotKinds
<1>1. s.num_sources = PartsOf(c, i) /\ PartsOf(c, i) \in Nat /\ PartsOf(c, i) >= 1
  <2>1. SourceTyped(c.slots["source"][i])
    BY DEF SourcesTyped
  <2>2. QED BY <2>1, PartTyped, Max1Is DEF Parted, PartsOf, SourceTyped
<1>2. DOMAIN c.slots["source"] = 1..MaxSlots["source"]
  BY <1>0 DEF Shaped
<1>3. Expand(c, i) =
        IF ~c.fits \/ c.slots["source"][i].type # "multi" THEN c
        ELSE IF last > MaxSlots["source"] THEN [c EXCEPT !.fits = FALSE]
        ELSE [[c EXCEPT !.num = num] EXCEPT !.slots = slots]
  <2>1. [c EXCEPT !.num["source"] = last] = [c EXCEPT !.num = num]
    OBVIOUS
  <2>2. [[c EXCEPT !.num = num] EXCEPT !.slots["source"] = table] = [[c EXCEPT !.num = num] EXCEPT !.slots = slots]
    BY DEF Shaped
  <2>3. QED BY <1>2, <2>1, <2>2 DEF Expand, Parted
<1>4. CASE ~c.fits \/ c.slots["source"][i].type # "multi"
  BY <1>3, <1>4
<1>5. CASE c.fits /\ c.slots["source"][i].type = "multi" /\ last > MaxSlots["source"]
  BY <1>3, <1>5, <1>1
<1>6. CASE c.fits /\ c.slots["source"][i].type = "multi" /\ ~(last > MaxSlots["source"])
  <2>1. Expand(c, i) = [[c EXCEPT !.num = num] EXCEPT !.slots = slots]
    BY <1>3, <1>6, Zenon
  <2>2. last \in n..MaxSlots["source"] /\ last <= MaxSlots["source"] /\ last = n + PartsOf(c, i) - 1
    BY <1>0, <1>1, <1>6
  <2>3. /\ DOMAIN num = SlotKinds /\ DOMAIN slots = SlotKinds
        /\ num["source"] = last /\ slots["source"] = table
        /\ \A k \in SlotKinds \ {"source"} : num[k] = c.num[k] /\ slots[k] = c.slots[k]
    BY <1>0 DEF Shaped
  <2>4. /\ DOMAIN table = 1..MaxSlots["source"]
        /\ \A k \in 1..MaxSlots["source"] :
             table[k] = IF k = i THEN Part(s, 0)
                        ELSE IF k \in (n + 1)..last THEN Part(s, k - n) ELSE c.slots["source"][k]
    OBVIOUS
  <2> HIDE DEF num, slots, table, last
  <2>5. /\ Expand(c, i).num = num /\ Expand(c, i).slots = slots /\ DOMAIN Expand(c, i) = DOMAIN c
        /\ Expand(c, i).fits = c.fits /\ Expand(c, i).single = c.single
        /\ Expand(c, i).total_num_sources = c.total_num_sources
        /\ Expand(c, i).source_list_enabled = c.source_list_enabled
    BY <2>1 DEF Shaped
  <2>6. Shaped(Expand(c, i))
    <3>1. \A k \in SlotKinds : DOMAIN slots[k] = 1..MaxSlots[k]
      BY <2>3, <2>4 DEF Shaped
    <3>2. QED BY <2>3, <2>5, <3>1 DEF Shaped
  <2>7. QED BY <2>2, <2>3, <2>4, <2>5, <2>6, <1>6
<1>7. QED BY <1>4, <1>5, <1>6

\* The expansion of a source keeps what that of those before it kept.
LEMMA ExpandStep ==
  ASSUME NEW c, ExpandKeeps(c), NEW i \in 1..MaxSlots["source"]
  PROVE  ExpandKeeps(Expand(c, i))
<1> DEFINE e == Expand(c, i)
           n == c.num["source"]
           last == n + PartsOf(c, i) - 1
<1>0. Shaped(c) /\ SourcesTyped(c) /\ c.num["source"] \in 0..MaxSlots["source"] /\ "fits" \in DOMAIN c
  BY DEF ExpandKeeps
<1>1. CASE e = c
  BY <1>1
<1>2. CASE e = [c EXCEPT !.fits = FALSE]
  <2>1. /\ e.num = c.num /\ e.slots = c.slots /\ e.single = c.single /\ DOMAIN e = DOMAIN c
        /\ e.total_num_sources = c.total_num_sources /\ e.source_list_enabled = c.source_list_enabled
    BY <1>0, <1>2 DEF Shaped
  <2> HIDE DEF e
  <2>2. Shaped(e) /\ SourcesTyped(e)
    BY <1>0, <2>1 DEF Shaped, SourcesTyped
  <2>3. ExpandKeeps(e)
    BY <2>1, <2>2 DEF ExpandKeeps
  <2>4. QED BY <2>3 DEF e
<1>3. CASE /\ last \in n..MaxSlots["source"]
           /\ \A k \in SlotKinds \ {"source"} : e.num[k] = c.num[k] /\ e.slots[k] = c.slots[k]
           /\ e.num["source"] = last
           /\ \A k \in 1..MaxSlots["source"] :
                e.slots["source"][k] =
                  IF k = i THEN Part(Parted(c, i), 0)
                  ELSE IF k \in (n + 1)..last THEN Part(Parted(c, i), k - n) ELSE c.slots["source"][k]
           /\ Shaped(e) /\ DOMAIN e = DOMAIN c
           /\ e.single = c.single
           /\ e.total_num_sources = c.total_num_sources
           /\ e.source_list_enabled = c.source_list_enabled
  <2>1. SourceTyped(c.slots["source"][i])
    BY <1>0 DEF SourcesTyped
  <2>2. \A j : SourceTyped(Part(Parted(c, i), j))
    BY <2>1, PartTyped DEF Parted
  <2> HIDE DEF e, last, n
  <2>3. \A k \in 1..MaxSlots["source"] : SourceTyped(e.slots["source"][k])
    BY <1>0, <1>3, <2>2 DEF SourcesTyped
  <2>4. last \in 0..MaxSlots["source"]
    BY <1>0, <1>3, MaxSlotsAssumption DEF n, SlotKinds
  <2>5. ExpandKeeps(e)
    BY <1>3, <2>3, <2>4 DEF ExpandKeeps, SourcesTyped
  <2>6. QED BY <2>5 DEF e
<1>4. QED
  <2>1. \/ e = c \/ e = [c EXCEPT !.fits = FALSE]
        \/ /\ last \in n..MaxSlots["source"]
           /\ \A k \in SlotKinds \ {"source"} : e.num[k] = c.num[k] /\ e.slots[k] = c.slots[k]
           /\ e.num["source"] = last
           /\ \A k \in 1..MaxSlots["source"] :
                e.slots["source"][k] =
                  IF k = i THEN Part(Parted(c, i), 0)
                  ELSE IF k \in (n + 1)..last THEN Part(Parted(c, i), k - n) ELSE c.slots["source"][k]
           /\ Shaped(e) /\ DOMAIN e = DOMAIN c
           /\ e.single = c.single
           /\ e.total_num_sources = c.total_num_sources
           /\ e.source_list_enabled = c.source_list_enabled
    BY <1>0, ExpandIs
  <2>2. QED BY <1>1, <1>2, <1>3, <2>1, Zenon

\* The recursive definition of ExpandAll has a solution.
IsExpanded(e) ==
  e = [i \in 0..config.num["source"] |->
         IF i = 0 THEN Overlaid(config, [fits |-> TRUE]) ELSE Expand(e[i - 1], i)]
Expanded == CHOOSE e : IsExpanded(e)

\* There is such a function, by induction over the number of sources.
LEMMA ExpandedIs ==
  ASSUME config.num["source"] \in Nat
  PROVE  /\ ExpandAll = Expanded[config.num["source"]]
         /\ IsExpanded(Expanded)
<1> DEFINE base == Overlaid(config, [fits |-> TRUE])
           Solves(n, e) == e = [i \in 0..n |-> IF i = 0 THEN base ELSE Expand(e[i - 1], i)]
           T == {n \in Nat : \E e : Solves(n, e)}
<1> HIDE DEF base
<1>1. 0 \in T
  <2> DEFINE e == [i \in 0..0 |-> base]
  <2>1. e = [i \in 0..0 |-> IF i = 0 THEN base ELSE Expand(e[i - 1], i)]
    OBVIOUS
  <2>2. QED BY <2>1
<1>2. ASSUME NEW n \in Nat, n \in T PROVE n + 1 \in T
  <2>1. PICK e : Solves(n, e)
    BY <1>2
  <2> DEFINE f == [i \in 0..(n + 1) |-> IF i = n + 1 THEN Expand(e[n], n + 1) ELSE e[i]]
  <2>2. DOMAIN f = 0..(n + 1) /\ f[n + 1] = Expand(e[n], n + 1) /\ \A i \in 0..n : f[i] = e[i]
    OBVIOUS
  <2>3. e[0] = base /\ \A i \in 1..n : e[i] = Expand(e[i - 1], i)
    BY <2>1
  <2>4. \A i \in 0..(n + 1) : f[i] = IF i = 0 THEN base ELSE Expand(f[i - 1], i)
    <3> SUFFICES ASSUME NEW i \in 0..(n + 1) PROVE f[i] = IF i = 0 THEN base ELSE Expand(f[i - 1], i)
      OBVIOUS
    <3> HIDE DEF f
    <3>1. CASE i = 0
      BY <3>1, <2>2, <2>3
    <3>2. CASE i = n + 1
      <4>1. f[i - 1] = e[n]
        BY <3>2, <2>2
      <4>2. QED BY <3>2, <4>1, <2>2
    <3>3. CASE i \in 1..n
      <4>1. i - 1 \in 0..n /\ i \in 0..n
        BY <3>3
      <4>2. QED BY <3>3, <4>1, <2>2, <2>3
    <3>4. QED BY <3>1, <3>2, <3>3
  <2>5. f = [i \in 0..(n + 1) |-> IF i = 0 THEN base ELSE Expand(f[i - 1], i)]
    <3>1. f = [i \in 0..(n + 1) |-> f[i]]
      OBVIOUS
    <3> HIDE DEF f
    <3>2. [i \in 0..(n + 1) |-> f[i]] = [i \in 0..(n + 1) |-> IF i = 0 THEN base ELSE Expand(f[i - 1], i)]
      BY <2>4
    <3>3. QED BY <3>1, <3>2
  <2>6. \E g : Solves(n + 1, g)
    BY <2>5
  <2>7. QED BY <2>6
<1>3. config.num["source"] \in T
  <2> HIDE DEF T
  <2>1. QED BY <1>1, <1>2, SetInduction
<1>4. \E e : IsExpanded(e)
  BY <1>3 DEF IsExpanded, base
<1>5. IsExpanded(Expanded)
  BY <1>4, Zenon DEF Expanded
<1>6. ExpandAll = Expanded[config.num["source"]]
  BY Zenon DEF ExpandAll, Expanded, IsExpanded
<1>7. QED BY <1>5, <1>6

\* The expansion of all sources, by the same induction.
LEMMA ExpandAllKeeps ==
  ASSUME Shaped(config), SourcesTyped(config), config.num["source"] \in 0..MaxSlots["source"], "fits" \notin DOMAIN config
  PROVE  ExpandKeeps(ExpandAll)
<1> DEFINE n == config.num["source"]
           base == Overlaid(config, [fits |-> TRUE])
           T == {m \in Nat : m <= n => ExpandKeeps(Expanded[m])}
<1>0. n \in Nat /\ n <= MaxSlots["source"] /\ MaxSlots["source"] \in Nat
  BY MaxSlotsAssumption DEF SlotKinds
<1>1. /\ Expanded[0] = base
      /\ \A m \in 1..n : Expanded[m] = Expand(Expanded[m - 1], m)
  BY <1>0, ExpandedIs DEF IsExpanded
<1>2. ExpandKeeps(base)
  <2>1. /\ DOMAIN base = DOMAIN config \cup {"fits"}
        /\ \A f \in DOMAIN config : base[f] = config[f]
    BY DEF Overlaid
  <2> HIDE DEF base
  <2>2. /\ base.num = config.num /\ base.slots = config.slots /\ base.single = config.single
        /\ base.total_num_sources = config.total_num_sources /\ base.source_list_enabled = config.source_list_enabled
    BY <2>1 DEF Shaped
  <2>3. Shaped(base) /\ SourcesTyped(base)
    BY <2>1, <2>2 DEF Shaped, SourcesTyped
  <2>4. QED BY <2>1, <2>2, <2>3 DEF ExpandKeeps
<1> HIDE DEF base
<1>3. 0 \in T
  BY <1>1, <1>2
<1>4. ASSUME NEW m \in Nat, m \in T PROVE m + 1 \in T
  <2>1. SUFFICES ASSUME m + 1 <= n PROVE ExpandKeeps(Expanded[m + 1])
    OBVIOUS
  <2>2. ExpandKeeps(Expanded[m])
    BY <1>0, <1>4, <2>1
  <2>3. m + 1 \in 1..n /\ m + 1 \in 1..MaxSlots["source"] /\ (m + 1) - 1 = m
    BY <1>0, <2>1
  <2>4. Expanded[m + 1] = Expand(Expanded[m], m + 1)
    BY <1>1, <2>3
  <2>5. QED BY <2>2, <2>3, <2>4, ExpandStep
<1>5. n \in T
  <2> HIDE DEF T, n
  <2>1. QED BY <1>0, <1>3, <1>4, SetInduction
<1>6. QED BY <1>0, <1>5, ExpandedIs

-----------------------------------------------------------------------------
(* The readers: types *)

\* Where the parse is, and the groups it has met by then.
Stages ==
  /\ stage = "start" => file = <<>>
  /\ stage \in {"attr_all", "list"} => format = "INI"
  /\ stage \in {"groups", "rows", "checks"} => format # "NONE"
  /\ stage = "rows" => format = "YAML"
  /\ stage = "attr_all" => \A i \in DOMAIN file : file[i].kind = "application"
  /\ stage = "list" => \A i \in DOMAIN file :
                         \/ file[i].kind = "application"
                         \/ file[i].kind = "source-attr-all" /\ file[i].name \in removed
  /\ parse_err => format = "YAML"

\* The configuration: its tables, their counters, and no source of a list.
ConfigTyped(c) ==
  /\ Shaped(c) /\ SourcesTyped(c) /\ "fits" \notin DOMAIN c
  /\ \A k \in SlotKinds : c.num[k] \in 0..MaxSlots[k]
  /\ c.total_num_sources = 0 /\ c.source_list_enabled = FALSE

ParserType ==
  /\ format \in {"NONE", "INI", "YAML"}
  /\ file \in Seq(Groups) /\ Len(file) <= MaxGroups
  /\ stage \in {"start", "attr_all", "list", "groups", "rows", "checks", "done"}
  /\ parse_err \in BOOLEAN
  /\ result \in {"pending", "accepted", "rejected", "thrown"}
  /\ (stage = "done") <=> (result # "pending")
  /\ Stages
  /\ result # "rejected" => ConfigTyped(config)
  /\ Shaped(config)

\* The next group of a file.
LEMMA UnreadIs ==
  ASSUME file \in Seq(Groups), Len(file) <= MaxGroups, NEW kinds, NEW g \in Unread(kinds)
  PROVE  /\ g \in Groups /\ g.kind \in kinds
         /\ Append(file, g) \in Seq(Groups) /\ Len(Append(file, g)) <= MaxGroups
         /\ DOMAIN file = 1..Len(file) /\ DOMAIN Append(file, g) = 1..(Len(file) + 1) /\ Len(file) \in Nat
         /\ \A i \in 1..Len(file) : Append(file, g)[i] = file[i] /\ file[i].name # g.name /\ file[i] \in Groups
         /\ Append(file, g)[Len(file) + 1] = g
<1>1. Len(file) # MaxGroups /\ g \in {h \in Groups : h.kind \in kinds /\ \A i \in DOMAIN file : file[i].name # h.name}
  BY DEF Unread
<1>2. MaxGroups \in Nat
  BY GroupsAssumption
<1>3. QED BY <1>1, <1>2

\* How a step that reads a group ends.
LEMMA GoesIs ==
  ASSUME NEW outcome \in {"ok", "failed", "thrown"}, NEW next, Goes(outcome, next)
  PROVE  \/ outcome = "ok" /\ stage' = next /\ result' = result
         \/ outcome = "failed" /\ stage' = "done" /\ result' = "rejected"
         \/ outcome = "thrown" /\ stage' = "done" /\ result' = "thrown"
BY DEF Goes, End

\* The component a group finds, with the GPU of the application or without.
LEMMA BeforeTyped ==
  ASSUME ConfigTyped(config), NEW g \in Groups, g.kind = "source", ~Full(g)
  PROVE  SourceTyped(Before(g))
<1>1. config.num["source"] + 1 \in 1..MaxSlots["source"]
  BY MaxSlotsAssumption DEF ConfigTyped, Full, SlotKinds
<1>2. SourceTyped(Target(g))
  BY <1>1 DEF Target, ConfigTyped, SourcesTyped, SlotKinds
<1>3. SourceTyped([Target(g) EXCEPT !.gpu_id = global_gpu_id])
  BY <1>2 DEF SourceTyped, Source
<1>4. QED BY <1>2, <1>3 DEF Before

\* What is read into a source is a source.
LEMMA ReadTyped ==
  ASSUME NEW g \in Groups, NEW c, SourceTyped(c), NEW p, ReadsWell(p, g, c)
  PROVE  SourceTyped(p.component)
<1> DEFINE pc == Put(g, c)
<1>1. SourceTyped(pc)
  <2>1. DOMAIN pc = DOMAIN g.keys \cup DOMAIN c
    BY DEF Put, Overlaid
  <2>2. "num_sources" \in DOMAIN c
    BY DEF SourceTyped, Source
  <2>3. pc.num_sources = IF "num_sources" \in DOMAIN g.keys THEN g.keys.num_sources ELSE c.num_sources
    BY <2>2 DEF Put, Overlaid
  <2>4. pc.num_sources \in Int
    BY <2>3, GroupsAssumption DEF SourceTyped
  <2>5. QED BY <2>1, <2>4 DEF SourceTyped
<1> HIDE DEF pc
<1>2. SourceTyped(AtLeastOne(pc))
  <2>1. SourceTyped([pc EXCEPT !.num_sources = 1])
    BY <1>1 DEF SourceTyped, Source
  <2>2. QED BY <1>1, <2>1 DEF AtLeastOne
<1>3. SourceTyped([pc EXCEPT !.is_parsed = TRUE])
  BY <1>1 DEF SourceTyped, Source
<1>4. QED BY <1>1, <1>2, <1>3 DEF ReadsWell, pc

\* Storing keeps the configuration what it is.
LEMMA StoredTyped ==
  ASSUME ConfigTyped(config), NEW g \in Groups, g.kind \in SlotKinds \cup SingleKinds, ~Full(g),
         NEW c, g.kind = "source" => SourceTyped(c)
  PROVE  ConfigTyped(Stored(g, c))
<1> DEFINE s == Stored(g, c)
<1>0. \A k \in SlotKinds : config.num[k] \in 0..MaxSlots[k] /\ MaxSlots[k] \in Nat
  BY MaxSlotsAssumption DEF ConfigTyped
<1>1. CASE g.kind \in SlotKinds
  <2>1. /\ Shaped(s)
        /\ \A k \in SlotKinds : k # g.kind => s.num[k] = config.num[k]
        /\ c.enable => s.num[g.kind] = config.num[g.kind] + 1
        /\ ~c.enable => s.num[g.kind] = config.num[g.kind]
        /\ \A k \in SlotKinds : \A n \in 1..MaxSlots[k] :
             s.slots[k][n] = IF k = g.kind /\ n = config.num[k] + 1 THEN c ELSE config.slots[k][n]
        /\ s.total_num_sources = config.total_num_sources
        /\ s.source_list_enabled = config.source_list_enabled
        /\ DOMAIN s = DOMAIN config
    <3>1. Shaped(config) /\ config.num[g.kind] \in 0..MaxSlots[g.kind]
      BY <1>0, <1>1 DEF ConfigTyped
    <3>2. SlotStored(Stored(g, c), g, c)
      BY <1>1, <3>1, StoredInSlot
    <3>3. QED BY <3>2 DEF SlotStored
  <2> HIDE DEF s
  <2>2. \A k \in SlotKinds : s.num[k] \in 0..MaxSlots[k]
    BY <1>0, <1>1, <2>1 DEF Full
  <2>3. SourcesTyped(s)
    BY <2>1 DEF SourcesTyped, ConfigTyped, SlotKinds
  <2>4. ConfigTyped(s)
    BY <2>1, <2>2, <2>3 DEF ConfigTyped
  <2>5. QED BY <2>4 DEF s
<1>2. CASE g.kind \in SingleKinds
  <2>1. /\ Shaped(s)
        /\ s.slots = config.slots /\ s.num = config.num
        /\ s.total_num_sources = config.total_num_sources
        /\ s.source_list_enabled = config.source_list_enabled
        /\ DOMAIN s = DOMAIN config
    BY <1>2, StoredAlone DEF ConfigTyped
  <2> HIDE DEF s
  <2>2. ConfigTyped(s)
    BY <2>1 DEF ConfigTyped, SourcesTyped
  <2>3. QED BY <2>2 DEF s
<1>3. QED BY <1>1, <1>2

\* A zeroed source.
LEMMA DefaultSource == Default["source"] = Source
<1>1. "source" \in SlotKinds \cup SingleKinds
  BY DEF SlotKinds
<1>2. QED BY <1>1 DEF Default

\* The zeroed configuration.
LEMMA ParserInit == Init => ParserType
<1> SUFFICES ASSUME Init PROVE ParserType
  OBVIOUS
<1> USE DEF Init
<1>1. Shaped(config)
  BY DEF Shaped, AppConfig
<1>2. SourceTyped(Source)
  BY DEF SourceTyped, Source
<1>3. SourcesTyped(config)
  <2>1. \A n \in 1..MaxSlots["source"] : config.slots["source"][n] = Source
    BY DefaultSource DEF AppConfig, SlotKinds
  <2>2. QED BY <1>2, <2>1 DEF SourcesTyped
<1>4. ConfigTyped(config)
  <2>1. /\ "fits" \notin DOMAIN config /\ \A k \in SlotKinds : config.num[k] = 0
        /\ config.total_num_sources = 0 /\ config.source_list_enabled = FALSE
    BY DEF AppConfig
  <2>2. QED BY <1>1, <1>3, <2>1, MaxSlotsAssumption DEF ConfigTyped
<1>5. Stages
  BY DEF Stages
<1>6. file \in Seq(Groups) /\ Len(file) <= MaxGroups
  BY GroupsAssumption
<1>7. QED BY <1>1, <1>4, <1>5, <1>6 DEF ParserType

\* A step that stores what a group leaves.
LEMMA ReadStep ==
  ASSUME ParserType, result = "pending", NEW g \in Groups,
         g.kind \in SlotKinds \cup SingleKinds, ~Full(g), NEW p, ReadsWell(p, g, Before(g))
  PROVE  ConfigTyped(Stored(g, p.component)) /\ Shaped(Stored(g, p.component))
<1>1. ConfigTyped(config)
  BY DEF ParserType
<1>2. g.kind = "source" => SourceTyped(p.component)
  BY <1>1, BeforeTyped, ReadTyped
<1>3. ConfigTyped(Stored(g, p.component))
  BY <1>1, <1>2, StoredTyped
<1>4. QED BY <1>3 DEF ConfigTyped

\* [source-attr-all] gives its component to no source: there are none yet.
LEMMA SourceAllStored ==
  ASSUME ConfigTyped(config), NEW g \in Groups, g.kind = "source-attr-all", NEW c
  PROVE  LET s == set_source_all_configs([Stored(g, c) EXCEPT !.source_attr_all_parsed = TRUE])
         IN /\ ConfigTyped(s) /\ s.num = config.num
            /\ \A k \in SlotKinds : \A n \in 1..MaxSlots[k] : s.slots[k][n] = config.slots[k][n]
            /\ \A k \in SingleKinds \ {"source-attr-all"} : s.single[k] = config.single[k]
<1> DEFINE t == [Stored(g, c) EXCEPT !.source_attr_all_parsed = TRUE]
           table == [i \in DOMAIN t.slots["source"] |->
                       IF i <= t.total_num_sources THEN t.single["source-attr-all"]
                       ELSE t.slots["source"][i]]
           s == [t EXCEPT !.slots = [t.slots EXCEPT !["source"] = table]]
<1>0. g.kind \in SingleKinds /\ g.kind \notin SlotKinds /\ "source" \in SlotKinds
  BY DEF SingleKinds, SlotKinds
<1>1. ConfigTyped(Stored(g, c)) /\ Stored(g, c).slots = config.slots /\ Stored(g, c).num = config.num
      /\ \A k \in SingleKinds \ {"source-attr-all"} : Stored(g, c).single[k] = config.single[k]
  <2>1. ConfigTyped(Stored(g, c))
    BY <1>0, StoredTyped DEF Full
  <2>2. QED BY <1>0, <2>1, StoredAlone DEF ConfigTyped
<1>2. /\ DOMAIN t = DOMAIN Stored(g, c) /\ t.slots = config.slots /\ t.num = config.num
      /\ t.single = Stored(g, c).single /\ t.total_num_sources = 0 /\ t.source_list_enabled = FALSE
  BY <1>1 DEF ConfigTyped, Shaped
<1> HIDE DEF t
<1>3. DOMAIN table = 1..MaxSlots["source"] /\ \A i \in 1..MaxSlots["source"] : table[i] = t.slots["source"][i]
  <2>1. DOMAIN t.slots["source"] = 1..MaxSlots["source"] /\ t.total_num_sources = 0
    BY <1>0, <1>2 DEF ConfigTyped, Shaped
  <2>2. \A i \in 1..MaxSlots["source"] : ~(i <= 0)
    OBVIOUS
  <2>3. QED BY <2>1, <2>2
<1> HIDE DEF table
<1>4. /\ DOMAIN s = DOMAIN t /\ s.num = t.num /\ s.single = t.single
      /\ s.total_num_sources = 0 /\ s.source_list_enabled = FALSE
      /\ s.slots = [t.slots EXCEPT !["source"] = table]
  BY <1>1, <1>2 DEF ConfigTyped, Shaped
<1>5. /\ DOMAIN s.slots = SlotKinds
      /\ \A k \in SlotKinds : DOMAIN s.slots[k] = 1..MaxSlots[k]
      /\ \A k \in SlotKinds : \A n \in 1..MaxSlots[k] : s.slots[k][n] = config.slots[k][n]
  BY <1>1, <1>2, <1>3, <1>4 DEF ConfigTyped, Shaped
<1>6. s = set_source_all_configs(t)
  BY DEF set_source_all_configs, table
<1> HIDE DEF s
<1>7. SourcesTyped(s)
  BY <1>0, <1>5 DEF SourcesTyped, ConfigTyped
<1>8. ConfigTyped(s)
  BY <1>1, <1>2, <1>4, <1>5, <1>7 DEF ConfigTyped, Shaped
<1>9. /\ s.num = config.num /\ s.single = Stored(g, c).single
      /\ s = set_source_all_configs([Stored(g, c) EXCEPT !.source_attr_all_parsed = TRUE])
  BY <1>2, <1>4, <1>6 DEF t
<1>10. QED BY <1>1, <1>5, <1>8, <1>9

-----------------------------------------------------------------------------
(* One lemma for each step of the parse.  A step that leaves the groups and  *)
(* the configuration alone only has to keep its place among the stages.      *)

\* [application] comes first and has a place of its own.
LEMMA ReadAppTyped == ParserType /\ ReadApp => ParserType'
<1> SUFFICES ASSUME ParserType, ReadApp PROVE ParserType'
  OBVIOUS
<1> DEFINE next == IF format = "INI" THEN "attr_all" ELSE "groups"
<1>0. /\ stage = "start" /\ format \in {"INI", "YAML"} /\ result = "pending" /\ file = <<>>
      /\ UNCHANGED <<format, removed, parse_err>>
      /\ ConfigTyped(config) /\ Shaped(config)
  BY DEF ParserType, ReadApp, Stages, ConfigTyped
<1>1. CASE stage' = next /\ UNCHANGED <<file, config, result>>
  <2>1. Stages'
    BY <1>0, <1>1 DEF Stages, ParserType
  <2>2. UNCHANGED <<file, config, result, format, parse_err>> /\ stage' \in {"attr_all", "groups"}
    BY <1>0, <1>1
  <2>3. QED BY <1>0, <2>1, <2>2 DEF ParserType, ConfigTyped, Shaped, SourcesTyped
<1>2. ASSUME NEW g \in Unread({"application"}),
             LET p == IF format = "INI" THEN parse_app(g, Target(g)) ELSE parse_app_yaml(g, Target(g))
             IN /\ file' = Append(file, g)
                /\ config' = Stored(g, p.component)
                /\ Goes(p.outcome, next)
      PROVE ParserType'
  <2> DEFINE p == IF format = "INI" THEN parse_app(g, Target(g)) ELSE parse_app_yaml(g, Target(g))
  <2>1. p.outcome \in {"ok", "failed", "thrown"}
    BY OutcomesAre, UnreadIs DEF ParserType, parse_app, parse_app_yaml, Parsed
  <2> HIDE DEF p
  <2>2. file' = Append(file, g) /\ config' = Stored(g, p.component) /\ Goes(p.outcome, next)
    BY <1>2 DEF p
  <2>3. g \in Groups /\ g.kind = "application" /\ g.kind \in SingleKinds /\ ~Full(g)
    BY UnreadIs DEF ParserType, SingleKinds, SlotKinds, Full
  <2>4. ConfigTyped(config') /\ Shaped(config')
    <3>1. ConfigTyped(Stored(g, p.component))
      BY <1>0, <2>3, StoredTyped
    <3>2. QED BY <2>2, <3>1 DEF ConfigTyped
  <2>5. file' \in Seq(Groups) /\ Len(file') <= MaxGroups /\ \A i \in DOMAIN file' : file'[i].kind = "application"
    BY <1>0, <2>2, <2>3, UnreadIs DEF ParserType
  <2>6. \/ stage' = next /\ result' = result
        \/ stage' = "done" /\ result' \in {"rejected", "thrown"}
    BY <2>1, <2>2, GoesIs
  <2>7. Stages'
    BY <1>0, <2>5, <2>6 DEF Stages, ParserType
  <2>8. QED BY <1>0, <2>4, <2>5, <2>6, <2>7 DEF ParserType, ConfigTyped, Shaped, SourcesTyped
<1>3. QED BY <1>1, <1>2 DEF ReadApp

\* [source-attr-all] is removed when it has been read.
LEMMA ReadSourceAllTyped == ParserType /\ ReadSourceAll => ParserType'
<1> SUFFICES ASSUME ParserType, ReadSourceAll PROVE ParserType'
  OBVIOUS
<1>0. /\ stage = "attr_all" /\ format = "INI" /\ result = "pending"
      /\ \A i \in DOMAIN file : file[i].kind = "application"
      /\ UNCHANGED <<format, parse_err>>
      /\ ConfigTyped(config) /\ Shaped(config)
  BY DEF ParserType, ReadSourceAll, Stages, ConfigTyped
<1>1. CASE stage' = "list" /\ UNCHANGED <<file, config, removed, result>>
  <2>1. Stages'
    BY <1>0, <1>1 DEF Stages, ParserType
  <2>2. QED BY <1>0, <1>1, <2>1 DEF ParserType, ConfigTyped, Shaped, SourcesTyped
<1>2. ASSUME NEW g \in Unread({"source-attr-all"}),
             LET p == parse_source_all(g, Before(g))
             IN /\ file' = Append(file, g)
                /\ config' = set_source_all_configs([Stored(g, p.component) EXCEPT
                                                       !.source_attr_all_parsed = TRUE])
                /\ removed' = removed \cup {g.name}
                /\ Goes(p.outcome, "list")
      PROVE ParserType'
  <2> DEFINE p == parse_source_all(g, Before(g))
  <2>1. p.outcome \in {"ok", "failed", "thrown"}
    BY DEF parse_source_all, Parsed
  <2> HIDE DEF p
  <2>2. /\ file' = Append(file, g) /\ removed' = removed \cup {g.name} /\ Goes(p.outcome, "list")
        /\ config' = set_source_all_configs([Stored(g, p.component) EXCEPT !.source_attr_all_parsed = TRUE])
    BY <1>2 DEF p
  <2>3. g \in Groups /\ g.kind = "source-attr-all"
    BY UnreadIs DEF ParserType
  <2>4. ConfigTyped(config')
    BY <1>0, <2>2, <2>3, SourceAllStored
  <2>5. /\ file' \in Seq(Groups) /\ Len(file') <= MaxGroups
        /\ \A i \in DOMAIN file' : \/ file'[i].kind = "application"
                                   \/ file'[i].kind = "source-attr-all" /\ file'[i].name \in removed'
    BY <1>0, <2>2, <2>3, UnreadIs DEF ParserType
  <2>6. \/ stage' = "list" /\ result' = result
        \/ stage' = "done" /\ result' \in {"rejected", "thrown"}
    BY <2>1, <2>2, GoesIs
  <2>7. Stages'
    BY <1>0, <2>5, <2>6 DEF Stages, ParserType
  <2>8. QED BY <1>0, <2>4, <2>5, <2>6, <2>7 DEF ParserType, ConfigTyped, Shaped, SourcesTyped
<1>3. QED BY <1>1, <1>2 DEF ReadSourceAll

\* [source-list] counts as many sources as it likes, but is refused.
LEMMA ReadSourceListTyped == ParserType /\ ReadSourceList => ParserType'
<1> SUFFICES ASSUME ParserType, ReadSourceList PROVE ParserType'
  OBVIOUS
<1>0. /\ stage = "list" /\ format = "INI" /\ result = "pending"
      /\ \A i \in DOMAIN file : \/ file[i].kind = "application"
                                \/ file[i].kind = "source-attr-all" /\ file[i].name \in removed
      /\ UNCHANGED <<format, parse_err>>
      /\ ConfigTyped(config) /\ Shaped(config)
  BY DEF ParserType, ReadSourceList, Stages, ConfigTyped
<1>1. CASE stage' = "groups" /\ UNCHANGED <<file, config, removed, result>>
  <2>1. Stages'
    BY <1>0, <1>1 DEF Stages, ParserType
  <2>2. QED BY <1>0, <1>1, <2>1 DEF ParserType, ConfigTyped, Shaped, SourcesTyped
<1>2. ASSUME NEW g \in Unread({"source-list"}),
             LET p == parse_source_list(g, config)
             IN /\ file' = Append(file, g)
                /\ config' = [p.component EXCEPT !.num["source"] = p.component.total_num_sources,
                                                 !.source_list_enabled = TRUE]
                /\ removed' = removed \cup {g.name}
                /\ Goes(IF p.outcome = "ok" /\ ~HasSourceAll THEN "failed" ELSE p.outcome, "groups")
      PROVE ParserType'
  <2> DEFINE p == parse_source_list(g, config)
             total == IF "num_source_bins" \in DOMAIN g.keys THEN g.keys.num_source_bins
                      ELSE IF "uris" \in DOMAIN g.keys THEN g.keys.num_strings ELSE config.total_num_sources
             num == [config.num EXCEPT !["source"] = total]
  <2>1. g \in Groups /\ g.kind = "source-list"
    BY UnreadIs DEF ParserType
  <2>2. ~HasSourceAll
    BY <1>0 DEF HasSourceAll
  <2>3. p.outcome \in {"ok", "failed"}
    BY <2>1, OutcomesAre DEF parse_source_list, Parsed
  <2>4. stage' = "done" /\ result' = "rejected"
    BY <1>2, <2>2, <2>3 DEF Goes, End
  <2>5. Shaped(config')
    <3>1. config' = [[[config EXCEPT !.total_num_sources = total] EXCEPT !.num = num]
                       EXCEPT !.source_list_enabled = TRUE]
      <4>1. p.component = [config EXCEPT !.total_num_sources = total]
        BY DEF parse_source_list, Parsed
      <4>2. DOMAIN p.component = DOMAIN config /\ p.component.total_num_sources = total /\ p.component.num = config.num
        BY <1>0, <4>1 DEF Shaped
      <4> HIDE DEF p, total
      <4>3. config' = [[p.component EXCEPT !.num["source"] = p.component.total_num_sources]
                         EXCEPT !.source_list_enabled = TRUE]
        BY <1>2 DEF p
      <4>4. [p.component EXCEPT !.num["source"] = p.component.total_num_sources] = [p.component EXCEPT !.num = num]
        BY <4>2
      <4>5. QED BY <4>1, <4>3, <4>4
    <3>2. DOMAIN num = DOMAIN config.num
      OBVIOUS
    <3> HIDE DEF num, total
    <3>3. /\ DOMAIN config' = DOMAIN config /\ config'.slots = config.slots
          /\ config'.single = config.single /\ config'.num = num
      BY <1>0, <3>1 DEF Shaped
    <3>4. QED BY <1>0, <3>2, <3>3 DEF Shaped
  <2>6. file' \in Seq(Groups) /\ Len(file') <= MaxGroups
    BY <1>2, UnreadIs DEF ParserType
  <2>7. Stages'
    BY <1>0, <2>4 DEF Stages, ParserType
  <2>8. QED BY <1>0, <2>4, <2>5, <2>6, <2>7 DEF ParserType, Shaped
<1>3. QED BY <1>1, <1>2 DEF ReadSourceList

\* The groups a file may have in any order have a reader.
LEMMA KindsSplit ==
  /\ IniKinds \ {"source-csv"} \subseteq SlotKinds \cup SingleKinds
  /\ YamlKinds \cup {"source"} \subseteq SlotKinds \cup SingleKinds
BY DEF IniKinds, YamlKinds, Kinds, SlotKinds, SingleKinds

\* What the loops over the groups have in common: a group is met, and either it is
\* refused as it is, or what it was read into is stored and its outcome looked at.
GroupMet(g, p, next) ==
  /\ file' = Append(file, g)
  /\ UNCHANGED <<format, removed>>
  /\ \/ /\ stage' = "done" /\ result' \in {"rejected", "thrown"} /\ UNCHANGED <<config, parse_err>>
     \/ /\ g.kind \in SlotKinds \cup SingleKinds /\ ~Full(g) /\ ReadsWell(p, g, Before(g))
        /\ config' = Stored(g, p.component)
        /\ \/ stage' = next /\ result' = result
           \/ stage' = "done" /\ result' \in {"rejected", "thrown"}

\* Such a step keeps the types.
LEMMA GroupMetTyped ==
  ASSUME ParserType, result = "pending", NEW kinds, NEW g \in Unread(kinds), NEW p,
         NEW next \in {"groups", "rows"},
         format # "NONE", next = "rows" => format = "YAML",
         parse_err' \in BOOLEAN, parse_err' => format = "YAML", GroupMet(g, p, next)
  PROVE  ParserType'
<1>1. g \in Groups /\ file' \in Seq(Groups) /\ Len(file') <= MaxGroups /\ format' = format
  BY UnreadIs DEF ParserType, GroupMet
<1>2. ConfigTyped(config) /\ Shaped(config)
  BY DEF ParserType
<1>3. ConfigTyped(config') /\ Shaped(config')
  <2>1. CASE config' = config
    BY <1>2, <2>1 DEF ConfigTyped, SourcesTyped, Shaped
  <2>2. CASE /\ g.kind \in SlotKinds \cup SingleKinds /\ ~Full(g) /\ ReadsWell(p, g, Before(g))
             /\ config' = Stored(g, p.component)
    <3>1. ConfigTyped(Stored(g, p.component)) /\ Shaped(Stored(g, p.component))
      BY <1>1, <2>2, ReadStep
    <3>2. QED BY <2>2, <3>1
  <2>3. QED BY <2>1, <2>2 DEF GroupMet
<1>4. \/ stage' = next /\ result' = "pending"
      \/ stage' = "done" /\ result' \in {"rejected", "thrown"}
  BY DEF GroupMet
<1>5. Stages'
  BY <1>1, <1>4 DEF Stages, ParserType
<1>6. QED BY <1>1, <1>3, <1>4, <1>5 DEF ParserType, ConfigTyped, SourcesTyped, Shaped

\* The loop of parse_ini.
LEMMA IniGroupMet ==
  ASSUME ParserType, NEW g \in Unread(IniKinds), stage = "groups", format = "INI",
         file' = Append(file, g),
         IF g.kind = "source-csv" \/ Full(g)
         THEN End("rejected") /\ UNCHANGED config
         ELSE LET p == ParseIni(g, Before(g))
              IN config' = Stored(g, p.component) /\ Goes(p.outcome, "groups"),
         UNCHANGED <<format, removed, parse_err>>
  PROVE  /\ GroupMet(g, ParseIni(g, Before(g)), "groups")
         /\ stage' # "done" => /\ g.kind # "source-csv" /\ ~Full(g)
                               /\ ParseIni(g, Before(g)).outcome = "ok"
                               /\ config' = Stored(g, ParseIni(g, Before(g)).component)
<1>1. g \in Groups /\ g.kind \in IniKinds
  BY UnreadIs DEF ParserType
<1>2. CASE g.kind = "source-csv" \/ Full(g)
  BY <1>2 DEF GroupMet, End
<1>3. CASE ~(g.kind = "source-csv" \/ Full(g))
  <2> DEFINE p == ParseIni(g, Before(g))
  <2>1. ReadsWell(p, g, Before(g)) /\ g.kind \in SlotKinds \cup SingleKinds
    BY <1>1, <1>3, IniGroupReads, KindsSplit
  <2>2. config' = Stored(g, p.component) /\ Goes(p.outcome, "groups")
    BY <1>3
  <2> HIDE DEF p
  <2>3. \/ p.outcome = "ok" /\ stage' = "groups" /\ result' = result
        \/ stage' = "done" /\ result' \in {"rejected", "thrown"}
    BY <2>1, <2>2, GoesIs DEF ReadsWell
  <2>4. GroupMet(g, p, "groups")
    BY <1>3, <2>1, <2>2, <2>3 DEF GroupMet
  <2>5. QED BY <1>3, <2>2, <2>3, <2>4 DEF p
<1>4. QED BY <1>2, <1>3

\* The loop of parse_yaml.
LEMMA YamlGroupMet ==
  ASSUME ParserType, NEW g \in Unread(YamlKinds), stage = "groups", format = "YAML",
         file' = Append(file, g),
         IF Full(g) \/ AsksForEnable(g)
         THEN End(IF Full(g) THEN "rejected" ELSE "thrown") /\ UNCHANGED config
         ELSE LET p == ParseYaml(g, Before(g))
              IN config' = Stored(g, p.component) /\ Goes(p.outcome, "groups"),
         UNCHANGED <<format, removed, parse_err>>
  PROVE  /\ GroupMet(g, ParseYaml(g, Before(g)), "groups")
         /\ stage' # "done" => /\ ~Full(g) /\ ~AsksForEnable(g)
                               /\ ParseYaml(g, Before(g)).outcome = "ok"
                               /\ config' = Stored(g, ParseYaml(g, Before(g)).component)
<1>1. g \in Groups /\ g.kind \in YamlKinds
  BY UnreadIs DEF ParserType
<1>2. CASE Full(g) \/ AsksForEnable(g)
  BY <1>2 DEF GroupMet, End
<1>3. CASE ~(Full(g) \/ AsksForEnable(g))
  <2> DEFINE p == ParseYaml(g, Before(g))
  <2>1. ReadsWell(p, g, Before(g)) /\ g.kind \in SlotKinds \cup SingleKinds
    BY <1>1, YamlGroupReads, KindsSplit
  <2>2. config' = Stored(g, p.component) /\ Goes(p.outcome, "groups")
    BY <1>3
  <2> HIDE DEF p
  <2>3. \/ p.outcome = "ok" /\ stage' = "groups" /\ result' = result
        \/ stage' = "done" /\ result' \in {"rejected", "thrown"}
    BY <2>1, <2>2, GoesIs DEF ReadsWell
  <2>4. GroupMet(g, p, "groups")
    BY <1>3, <2>1, <2>2, <2>3 DEF GroupMet
  <2>5. QED BY <1>3, <2>2, <2>3, <2>4 DEF p
<1>4. QED BY <1>2, <1>3

\* A line of the CSV file.
LEMMA RowMet ==
  ASSUME ParserType, NEW g \in Unread({"source"}), stage = "rows",
         file' = Append(file, g),
         IF Full(g) THEN End("rejected") /\ UNCHANGED <<config, parse_err>>
         ELSE LET p == ParseYaml(g, Before(g))
              IN /\ config' = Stored(g, p.component)
                 /\ parse_err' = (p.outcome = "failed")
                 /\ IF p.outcome = "thrown" THEN End("thrown") ELSE UNCHANGED <<stage, result>>,
         UNCHANGED <<format, removed>>
  PROVE  /\ GroupMet(g, ParseYaml(g, Before(g)), "rows")
         /\ parse_err' \in BOOLEAN
         /\ stage' # "done" => /\ ~Full(g)
                               /\ config' = Stored(g, ParseYaml(g, Before(g)).component)
                               /\ ParseYaml(g, Before(g)).outcome = "ok" \/ parse_err'
<1>1. g \in Groups /\ g.kind = "source" /\ g.kind \in YamlKinds \cup {"source"} /\ parse_err \in BOOLEAN
  BY UnreadIs DEF ParserType
<1>2. CASE Full(g)
  BY <1>1, <1>2 DEF GroupMet, End
<1>3. CASE ~Full(g)
  <2> DEFINE p == ParseYaml(g, Before(g))
  <2>1. ReadsWell(p, g, Before(g)) /\ g.kind \in SlotKinds \cup SingleKinds
    BY <1>1, YamlGroupReads, KindsSplit
  <2>2. /\ config' = Stored(g, p.component) /\ parse_err' = (p.outcome = "failed")
        /\ IF p.outcome = "thrown" THEN End("thrown") ELSE UNCHANGED <<stage, result>>
    BY <1>3
  <2> HIDE DEF p
  <2>3. \/ p.outcome # "thrown" /\ stage' = "rows" /\ result' = result
        \/ stage' = "done" /\ result' \in {"rejected", "thrown"}
    BY <2>2 DEF End
  <2>4. GroupMet(g, p, "rows")
    BY <1>3, <2>1, <2>2, <2>3 DEF GroupMet
  <2>5. stage' # "done" => p.outcome = "ok" \/ parse_err'
    BY <2>1, <2>2, <2>3 DEF ReadsWell
  <2>6. QED BY <1>3, <2>2, <2>4, <2>5 DEF p
<1>4. QED BY <1>2, <1>3

\* The three loops are made of such steps.
LEMMA GroupsTyped == ParserType /\ (ReadIniGroup \/ ReadYamlGroup \/ ReadRow) => ParserType'
<1>1. ASSUME ParserType, ReadIniGroup PROVE ParserType'
  <2>1. PICK g \in Unread(IniKinds) : GroupMet(g, ParseIni(g, Before(g)), "groups")
    BY <1>1, IniGroupMet DEF ReadIniGroup
  <2>2. result = "pending" /\ format = "INI" /\ parse_err' \in BOOLEAN /\ ~parse_err'
    BY <1>1 DEF ParserType, Stages, ReadIniGroup
  <2>3. QED BY <1>1, <2>1, <2>2, GroupMetTyped
<1>2. ASSUME ParserType, ReadYamlGroup PROVE ParserType'
  <2>1. PICK g \in Unread(YamlKinds) : GroupMet(g, ParseYaml(g, Before(g)), "groups")
    BY <1>2, YamlGroupMet DEF ReadYamlGroup
  <2>2. result = "pending" /\ format = "YAML" /\ parse_err' \in BOOLEAN
    BY <1>2 DEF ParserType, Stages, ReadYamlGroup
  <2>3. QED BY <1>2, <2>1, <2>2, GroupMetTyped
<1>3. ASSUME ParserType, ReadRow PROVE ParserType'
  <2>1. PICK g \in Unread({"source"}) : GroupMet(g, ParseYaml(g, Before(g)), "rows") /\ parse_err' \in BOOLEAN
    BY <1>3, RowMet DEF ReadRow
  <2>2. result = "pending" /\ format = "YAML"
    BY <1>3 DEF ParserType, Stages, ReadRow
  <2>3. QED BY <1>3, <2>1, <2>2, GroupMetTyped
<1>4. QED BY <1>1, <1>2, <1>3

\* The steps that leave the configuration alone.
LEMMA PlainStepsTyped ==
  ParserType /\ (Unrecognized \/ IgnoreYamlGroup \/ OpenCsv \/ EndOfRows \/ EndOfFile) => ParserType'
<1> SUFFICES ASSUME ParserType, Unrecognized \/ IgnoreYamlGroup \/ OpenCsv \/ EndOfRows \/ EndOfFile
             PROVE ParserType'
  OBVIOUS
<1>1. /\ config' = config /\ format' = format /\ removed' = removed /\ parse_err' = parse_err
      /\ result = "pending"
  BY DEF Unrecognized, IgnoreYamlGroup, OpenCsv, EndOfRows, EndOfFile, ParserType
<1>2. file' \in Seq(Groups) /\ Len(file') <= MaxGroups
  <2>1. CASE file' = file
    BY <2>1 DEF ParserType
  <2>2. CASE \E kinds : \E g \in Unread(kinds) : file' = Append(file, g)
    BY <2>2, UnreadIs DEF ParserType
  <2>3. QED BY <2>1, <2>2, Zenon DEF Unrecognized, IgnoreYamlGroup, OpenCsv, EndOfRows, EndOfFile
<1>3. \/ stage' = "done" /\ result' \in {"rejected", "thrown"}
      \/ stage' \in {"groups", "rows", "checks"} /\ result' = "pending" /\ format # "NONE"
         /\ (stage' = "rows" => format = "YAML")
  <2>1. CASE Unrecognized
    BY <2>1 DEF Unrecognized, End
  <2>2. CASE IgnoreYamlGroup
    BY <1>1, <2>2 DEF IgnoreYamlGroup
  <2>3. CASE OpenCsv
    <3>1. PICK g \in Unread({"source-csv"}) : Goes(YamlOutcome(g), IF g.keys.opens THEN "rows" ELSE "groups")
      BY <2>3 DEF OpenCsv
    <3>2. YamlOutcome(g) \in {"ok", "failed", "thrown"}
      BY OutcomesAre, UnreadIs DEF ParserType
    <3>3. QED BY <1>1, <2>3, <3>1, <3>2, GoesIs DEF OpenCsv
  <2>4. CASE EndOfRows
    <3>1. format = "YAML"
      BY <2>4 DEF EndOfRows, ParserType, Stages
    <3>2. QED BY <1>1, <2>4, <3>1, GoesIs DEF EndOfRows
  <2>5. CASE EndOfFile
    BY <1>1, <2>5 DEF EndOfFile, ParserType, Stages
  <2>6. QED BY <2>1, <2>2, <2>3, <2>4, <2>5
<1>4. Stages'
  BY <1>1, <1>3 DEF Stages, ParserType
<1>5. QED BY <1>1, <1>2, <1>3, <1>4 DEF ParserType, ConfigTyped, SourcesTyped, Shaped

\* The checks: the expansion keeps the types and the limit of the sources.
LEMMA CheckTyped == ParserType /\ Check => ParserType'
<1> SUFFICES ASSUME ParserType, Check PROVE ParserType'
  OBVIOUS
<1>1. /\ ConfigTyped(config) /\ Shaped(config) /\ stage' = "done" /\ result' \in {"accepted", "rejected"}
      /\ file' = file /\ format' = format /\ parse_err' = parse_err
  BY DEF ParserType, Check, End
<1>2. CASE config' = config
  BY <1>1, <1>2 DEF ParserType, ConfigTyped, SourcesTyped, Shaped, Stages
<1>3. CASE config' = [f \in DOMAIN config |-> ExpandAll[f]]
  <2> DEFINE e == ExpandAll
  <2>1. ExpandKeeps(e)
    BY <1>1, ExpandAllKeeps DEF ConfigTyped, SlotKinds
  <2> HIDE DEF e
  <2>2. /\ DOMAIN config' = DOMAIN config /\ config'.num = e.num /\ config'.slots = e.slots
        /\ config'.single = e.single /\ config'.total_num_sources = e.total_num_sources
        /\ config'.source_list_enabled = e.source_list_enabled
    BY <1>1, <1>3 DEF Shaped, e
  <2>3. Shaped(config') /\ SourcesTyped(config')
    BY <1>1, <2>1, <2>2 DEF ExpandKeeps, Shaped, SourcesTyped
  <2>4. \A k \in SlotKinds : config'.num[k] \in 0..MaxSlots[k]
    BY <1>1, <2>1, <2>2 DEF ExpandKeeps, ConfigTyped
  <2>5. ConfigTyped(config')
    BY <1>1, <2>1, <2>2, <2>3, <2>4 DEF ConfigTyped, ExpandKeeps
  <2>6. QED BY <1>1, <2>3, <2>5 DEF ParserType, ConfigTyped, SourcesTyped, Shaped, Stages
<1>4. QED BY <1>2, <1>3 DEF Check

\* Every step keeps the types.
LEMMA ParserNext == ParserType /\ [Next]_vars => ParserType'
<1>1. ParserType /\ UNCHANGED vars => ParserType'
  BY DEF vars, ParserType, ConfigTyped, SourcesTyped, Shaped, Stages
<1>2. QED
  BY <1>1, ReadAppTyped, ReadSourceAllTyped, ReadSourceListTyped, GroupsTyped, PlainStepsTyped, CheckTyped
  DEF Next

\* The types of the parser: no counter of components leaves its table, except for a
\* moment in a file that is refused.
THEOREM ParserTypeCorrect == Spec => []TypeOK
<1>1. ParserType => TypeOK
  BY DEF ParserType, TypeOK, ConfigTyped, Shaped
<1>2. QED BY ParserInit, ParserNext, <1>1, PTL DEF Spec

-----------------------------------------------------------------------------
(* An accepted file is readable.                                            *)

\* What AcceptedIsReadable says of a group.
Readable(i) ==
  (file[i].kind # "source-attr-all" /\ IsRead(i) /\ ~NotLastRow(i)) => file[i].fault \notin Faulty

\* While the parse is not given up every group read so far is readable, but for the line
\* of the CSV file read last, which parse_err still speaks of.
ReadInv ==
  result \in {"pending", "accepted"} =>
    \A i \in DOMAIN file :
      Readable(i) \/ (stage = "rows" /\ parse_err /\ file[i].kind = "source")

\* A group that has been read stays as readable as it is.
LEMMA ReadableStays ==
  ASSUME ParserType, NEW kinds, NEW g \in Unread(kinds), file' = Append(file, g), format' = format,
         NEW i \in DOMAIN file, Readable(i)
  PROVE  Readable(i)'
<1>1. /\ DOMAIN file = 1..Len(file) /\ DOMAIN file' = 1..(Len(file) + 1) /\ Len(file) \in Nat
      /\ \A j \in DOMAIN file : file'[j] = file[j] /\ j \in DOMAIN file'
  BY UnreadIs DEF ParserType
<1>2. file'[i] = file[i]
  BY <1>1
<1>3. IsRead(i)' <=> IsRead(i)
  BY <1>2 DEF IsRead, Enabled, Disabled
<1>4. NotLastRow(i) => NotLastRow(i)'
  BY <1>1, <1>2 DEF NotLastRow
<1>5. QED BY <1>2, <1>3, <1>4 DEF Readable

\* A group met is the last of the file.
LEMMA LastIs ==
  ASSUME ParserType, NEW kinds, NEW g \in Unread(kinds), file' = Append(file, g)
  PROVE  file'[Len(file')] = g /\ Len(file') = Len(file) + 1 /\ g \in Groups /\ g.kind \in kinds
BY UnreadIs DEF ParserType

\* A step that meets a readable group, and leaves no line of the CSV file behind.
LEMMA ReadableMet ==
  ASSUME ParserType, ReadInv, result = "pending", stage # "rows",
         NEW kinds, NEW g \in Unread(kinds), file' = Append(file, g), format' = format,
         result' \in {"pending", "accepted"} => Readable(Len(file))'
  PROVE  ReadInv'
<1> SUFFICES ASSUME result' \in {"pending", "accepted"}, NEW i \in DOMAIN file' PROVE Readable(i)'
  BY DEF ReadInv
<1>1. DOMAIN file = 1..Len(file) /\ DOMAIN file' = 1..(Len(file) + 1) /\ Len(file) \in Nat
      /\ Len(file') = Len(file) + 1
  BY UnreadIs, LastIs DEF ParserType
<1>2. CASE i = Len(file)'
  BY <1>2
<1>3. CASE i \in DOMAIN file
  <2>1. Readable(i)
    BY <1>3 DEF ReadInv
  <2>2. QED BY <1>3, <2>1, ReadableStays
<1>4. QED BY <1>1, <1>2, <1>3

\* [application] is refused for no value that can be converted.
LEMMA ReadAppReadable == ParserType /\ ReadInv /\ ReadApp => ReadInv'
<1> SUFFICES ASSUME ParserType, ReadInv, ReadApp PROVE ReadInv'
  OBVIOUS
<1>0. stage = "start" /\ result = "pending" /\ format' = format /\ stage # "rows"
  BY DEF ParserType, ReadApp
<1>1. CASE UNCHANGED <<file, config, result>>
  BY <1>0, <1>1 DEF ReadInv, Readable, IsRead, NotLastRow, Enabled, Disabled
<1>2. CASE ~UNCHANGED <<file, config, result>>
  <2> DEFINE p(g) == IF format = "INI" THEN parse_app(g, Target(g)) ELSE parse_app_yaml(g, Target(g))
             next == IF format = "INI" THEN "attr_all" ELSE "groups"
  <2>1. PICK g \in Unread({"application"}) : file' = Append(file, g) /\ Goes(p(g).outcome, next)
    BY <1>2 DEF ReadApp
  <2>2. g \in Groups /\ g.kind = "application" /\ file'[Len(file')] = g
    BY <2>1, LastIs
  <2>3. /\ p(g).outcome \in {"ok", "failed", "thrown"}
        /\ p(g).outcome = "ok" => g.fault \notin Faulty
    BY <2>2, OutcomesAre, GroupsAssumption DEF parse_app, parse_app_yaml, Parsed, Faulty
  <2> HIDE DEF p, next
  <2>4. result' \in {"pending", "accepted"} => p(g).outcome = "ok"
    BY <2>1, <2>3, GoesIs
  <2>5. result' \in {"pending", "accepted"} => Readable(Len(file))'
    BY <2>2, <2>3, <2>4 DEF Readable
  <2>6. QED BY <1>0, <2>1, <2>5, ReadableMet
<1>3. QED BY <1>1, <1>2

\* [source-attr-all] is not asked for.
LEMMA ReadSourceAllReadable == ParserType /\ ReadInv /\ ReadSourceAll => ReadInv'
<1> SUFFICES ASSUME ParserType, ReadInv, ReadSourceAll PROVE ReadInv'
  OBVIOUS
<1>0. stage = "attr_all" /\ result = "pending" /\ format' = format /\ stage # "rows"
  BY DEF ParserType, ReadSourceAll
<1>1. CASE UNCHANGED <<file, config, removed, result>>
  BY <1>0, <1>1 DEF ReadInv, Readable, IsRead, NotLastRow, Enabled, Disabled
<1>2. CASE ~UNCHANGED <<file, config, removed, result>>
  <2>1. PICK g \in Unread({"source-attr-all"}) : file' = Append(file, g)
    BY <1>2 DEF ReadSourceAll
  <2>2. g.kind = "source-attr-all" /\ file'[Len(file')] = g
    BY <2>1, LastIs
  <2>3. Readable(Len(file))'
    BY <2>2 DEF Readable
  <2>4. QED BY <1>0, <2>1, <2>3, ReadableMet
<1>3. QED BY <1>1, <1>2

\* A [source-list] is always refused.
LEMMA SourceListRefused ==
  ASSUME ParserType, ReadSourceList
  PROVE  \/ UNCHANGED <<format, file, config, removed, parse_err, result>> /\ stage' = "groups"
         \/ stage' = "done" /\ result' = "rejected"
<1>1. CASE stage' = "groups" /\ UNCHANGED <<file, config, removed, result>>
  BY <1>1 DEF ReadSourceList
<1>2. CASE ~(stage' = "groups" /\ UNCHANGED <<file, config, removed, result>>)
  <2> DEFINE p(g) == parse_source_list(g, config)
  <2>1. PICK g \in Unread({"source-list"}) :
          Goes(IF p(g).outcome = "ok" /\ ~HasSourceAll THEN "failed" ELSE p(g).outcome, "groups")
    BY <1>2 DEF ReadSourceList
  <2>2. g \in Groups
    BY UnreadIs DEF ParserType
  <2>3. ~HasSourceAll
    BY DEF HasSourceAll, ParserType, Stages, ReadSourceList
  <2>4. p(g).outcome \in {"ok", "failed"}
    BY <2>2, OutcomesAre DEF parse_source_list, Parsed
  <2> HIDE DEF p
  <2>5. stage' = "done" /\ result' = "rejected"
    BY <2>1, <2>3, <2>4 DEF Goes, End
  <2>6. QED BY <2>5
<1>3. QED BY <1>1, <1>2

\* A group that is read well has no fault.
LEMMA GroupsReadable == ParserType /\ ReadInv /\ (ReadIniGroup \/ ReadYamlGroup) => ReadInv'
<1>1. ASSUME ParserType, ReadInv, ReadIniGroup PROVE ReadInv'
  <2>0. stage = "groups" /\ result = "pending" /\ format = "INI" /\ format' = format /\ stage # "rows"
    BY <1>1 DEF ParserType, ReadIniGroup
  <2> DEFINE p(g) == ParseIni(g, Before(g))
  <2>1. PICK g \in Unread(IniKinds) :
          /\ GroupMet(g, p(g), "groups")
          /\ stage' # "done" => g.kind # "source-csv" /\ p(g).outcome = "ok"
    BY <1>1, IniGroupMet DEF ReadIniGroup
  <2>2. g \in Groups /\ g.kind \in IniKinds /\ file' = Append(file, g) /\ file'[Len(file')] = g
    BY <1>1, <2>1, LastIs DEF GroupMet
  <2>3. result' \in {"pending", "accepted"} => stage' # "done"
    BY <2>0, <2>1 DEF GroupMet
  <2>4. ASSUME result' \in {"pending", "accepted"} PROVE Readable(Len(file))'
    <3>1. (g.kind \in EngineKinds => Enabled(g)) => g.fault \notin Faulty
      BY <2>1, <2>2, <2>3, <2>4, IniGroupReads
    <3>2. IsRead(Len(file))' => (g.kind \in EngineKinds => Enabled(g))
      BY <2>0, <2>2 DEF IsRead, EngineKinds
    <3>3. QED BY <2>2, <3>1, <3>2 DEF Readable
  <2>5. QED BY <1>1, <2>0, <2>2, <2>4, ReadableMet
<1>2. ASSUME ParserType, ReadInv, ReadYamlGroup PROVE ReadInv'
  <2>0. stage = "groups" /\ result = "pending" /\ format = "YAML" /\ format' = format /\ stage # "rows"
    BY <1>2 DEF ParserType, ReadYamlGroup
  <2> DEFINE p(g) == ParseYaml(g, Before(g))
  <2>1. PICK g \in Unread(YamlKinds) :
          /\ GroupMet(g, p(g), "groups")
          /\ stage' # "done" => p(g).outcome = "ok"
    BY <1>2, YamlGroupMet DEF ReadYamlGroup
  <2>2. g \in Groups /\ g.kind \in YamlKinds /\ file' = Append(file, g) /\ file'[Len(file')] = g
    BY <1>2, <2>1, LastIs DEF GroupMet
  <2>3. result' \in {"pending", "accepted"} => stage' # "done"
    BY <2>0, <2>1 DEF GroupMet
  <2>4. ASSUME result' \in {"pending", "accepted"} PROVE Readable(Len(file))'
    <3>1. (g.kind \in EngineKinds => ~Disabled(g)) => g.fault \notin Faulty
      BY <2>1, <2>2, <2>3, <2>4, YamlGroupReads
    <3>2. IsRead(Len(file))' => (g.kind \in EngineKinds => ~Disabled(g))
      BY <2>0, <2>2 DEF IsRead, EngineKinds
    <3>3. QED BY <2>2, <3>1, <3>2 DEF Readable
  <2>5. QED BY <1>2, <2>0, <2>2, <2>4, ReadableMet
<1>3. QED BY <1>1, <1>2

\* Another line: the one before it is no longer the last.
LEMMA RowsReadable == ParserType /\ ReadInv /\ ReadRow => ReadInv'
<1> SUFFICES ASSUME ParserType, ReadInv, ReadRow PROVE ReadInv'
  OBVIOUS
<1>0. stage = "rows" /\ result = "pending" /\ format = "YAML" /\ format' = format
  BY DEF ParserType, ReadRow, Stages
<1> DEFINE p(g) == ParseYaml(g, Before(g))
<1>1. PICK g \in Unread({"source"}) :
        /\ GroupMet(g, p(g), "rows")
        /\ stage' # "done" => p(g).outcome = "ok" \/ parse_err'
  BY RowMet DEF ReadRow
<1>2. g \in Groups /\ g.kind = "source" /\ file' = Append(file, g) /\ file'[Len(file')] = g
  BY <1>1, LastIs DEF GroupMet
<1> SUFFICES ASSUME result' \in {"pending", "accepted"}, NEW i \in DOMAIN file'
             PROVE  Readable(i)' \/ (stage' = "rows" /\ parse_err' /\ file'[i].kind = "source")
  BY DEF ReadInv
<1>3. stage' # "done" /\ stage' = "rows"
  BY <1>0, <1>1 DEF GroupMet
<1>4. /\ DOMAIN file = 1..Len(file) /\ DOMAIN file' = 1..(Len(file) + 1) /\ Len(file) \in Nat
      /\ \A j \in DOMAIN file : file'[j] = file[j]
      /\ Len(file') = Len(file) + 1
  BY <1>2, UnreadIs, LastIs DEF ParserType
<1>5. CASE i = Len(file) + 1
  <2>1. g.kind \notin EngineKinds /\ g.kind \in YamlKinds \cup {"source"}
    BY <1>2 DEF EngineKinds
  <2>2. p(g).outcome = "ok" => g.fault \notin Faulty
    BY <1>2, <2>1, YamlGroupReads
  <2>3. QED BY <1>1, <1>2, <1>3, <1>5, <2>2 DEF Readable
<1>6. CASE i \in DOMAIN file /\ Readable(i)
  BY <1>1, <1>2, <1>0, <1>6, ReadableStays
<1>7. CASE i \in DOMAIN file /\ file[i].kind = "source"
  <2>1. NotLastRow(i)'
    BY <1>0, <1>2, <1>4, <1>7 DEF NotLastRow
  <2>2. QED BY <2>1 DEF Readable
<1>8. QED BY <1>0, <1>4, <1>5, <1>6, <1>7 DEF ReadInv

\* The lines end well only if parse_err says so of the last.
LEMMA PlainStepsReadable ==
  ParserType /\ ReadInv /\ (Unrecognized \/ IgnoreYamlGroup \/ OpenCsv \/ EndOfRows \/ EndOfFile \/ Check) => ReadInv'
<1> SUFFICES ASSUME ParserType, ReadInv,
                    Unrecognized \/ IgnoreYamlGroup \/ OpenCsv \/ EndOfRows \/ EndOfFile \/ Check
             PROVE ReadInv'
  OBVIOUS
<1>0. result = "pending" /\ format' = format /\ parse_err' = parse_err
  BY DEF ParserType, Unrecognized, IgnoreYamlGroup, OpenCsv, EndOfRows, EndOfFile, Check
<1>1. ASSUME file' = file, stage # "rows" \/ ~parse_err \/ result' = "rejected" PROVE ReadInv'
  BY <1>0, <1>1 DEF ReadInv, Readable, IsRead, NotLastRow, Enabled, Disabled
<1>2. CASE Unrecognized \/ EndOfFile \/ Check
  BY <1>1, <1>2 DEF Unrecognized, EndOfFile, Check
<1>3. CASE EndOfRows
  <2>1. file' = file /\ (parse_err => result' = "rejected")
    BY <1>3, GoesIs DEF EndOfRows
  <2>2. QED BY <1>1, <2>1 DEF ParserType
<1>4. CASE IgnoreYamlGroup
  <2>1. PICK g \in Unread({"secondary-pre-process", "source-list", "source-attr-all"}) : file' = Append(file, g)
    BY <1>4 DEF IgnoreYamlGroup
  <2>2. /\ g.kind \in {"secondary-pre-process", "source-list", "source-attr-all"}
        /\ file'[Len(file')] = g /\ format = "YAML" /\ stage # "rows"
    BY <1>4, <2>1, LastIs DEF IgnoreYamlGroup
  <2>3. Readable(Len(file))'
    BY <1>0, <2>2 DEF Readable, IsRead
  <2>4. QED BY <1>0, <2>1, <2>2, <2>3, ReadableMet
<1>5. CASE OpenCsv
  <2>1. PICK g \in Unread({"source-csv"}) :
          /\ file' = Append(file, g)
          /\ Goes(YamlOutcome(g), IF g.keys.opens THEN "rows" ELSE "groups")
    BY <1>5 DEF OpenCsv
  <2>2. g \in Groups /\ file'[Len(file')] = g /\ stage # "rows"
    BY <1>5, <2>1, LastIs DEF OpenCsv
  <2>3. result' \in {"pending", "accepted"} => g.fault \notin Faulty
    BY <2>1, <2>2, OutcomesAre, GoesIs
  <2>4. result' \in {"pending", "accepted"} => Readable(Len(file))'
    BY <2>2, <2>3 DEF Readable
  <2>5. QED BY <1>0, <2>1, <2>2, <2>4, ReadableMet
<1>6. QED BY <1>2, <1>3, <1>4, <1>5

\* Every step keeps what was read readable.
LEMMA ReadNext == ParserType /\ ReadInv /\ [Next]_vars => ReadInv'
<1>1. ParserType /\ ReadInv /\ UNCHANGED vars => ReadInv'
  BY DEF vars, ReadInv, Readable, IsRead, NotLastRow, Enabled, Disabled
<1>2. ParserType /\ ReadInv /\ ReadSourceList => ReadInv'
  <2> SUFFICES ASSUME ParserType, ReadInv, ReadSourceList PROVE ReadInv'
    OBVIOUS
  <2>1. CASE UNCHANGED <<format, file, config, removed, parse_err, result>> /\ stage = "list"
    BY <2>1 DEF ReadInv, Readable, IsRead, NotLastRow, Enabled, Disabled
  <2>2. CASE result' = "rejected"
    BY <2>2 DEF ReadInv
  <2>3. QED BY <2>1, <2>2, SourceListRefused DEF ReadSourceList
<1>3. QED
  BY <1>1, <1>2, ReadAppReadable, ReadSourceAllReadable, GroupsReadable, RowsReadable, PlainStepsReadable
  DEF Next

\* "return true if parsed successfully": an accepted file holds no group, of those that
\* are read, with a value that cannot be read or is refused.
THEOREM AcceptedFilesAreReadable == Spec => []AcceptedIsReadable
<1>1. Init => ReadInv
  BY DEF Init, ReadInv
<1>2. ParserType /\ ReadInv => AcceptedIsReadable
  <2> SUFFICES ASSUME ParserType, ReadInv, Accepted, NEW i \in DOMAIN file,
                      file[i].kind # "source-attr-all" /\ IsRead(i) /\ ~NotLastRow(i)
               PROVE  file[i].fault \notin {"value", "rule"}
    BY DEF AcceptedIsReadable
  <2>1. stage = "done"
    BY DEF ParserType, Accepted
  <2>2. QED BY <2>1 DEF ReadInv, Readable, Accepted, Faulty
<1>3. QED BY ParserInit, ParserNext, ReadNext, <1>1, <1>2, PTL DEF Spec

-----------------------------------------------------------------------------
(* An accepted file has the engines and sinks it enables.                   *)

SlotNumbered == {"secondary-gie", "sink"}

\* The same but for the GPU.
Alike(a, b) == [a EXCEPT !.gpu_id = 0] = [b EXCEPT !.gpu_id = 0]

\* Components are alike member by member.
LEMMA AlikeIs ==
  ASSUME NEW a, NEW b
  PROVE  Alike(a, b) <=> DOMAIN a = DOMAIN b /\ \A f \in DOMAIN a \ {"gpu_id"} : a[f] = b[f]
<1>1. ASSUME Alike(a, b) PROVE DOMAIN a = DOMAIN b /\ \A f \in DOMAIN a \ {"gpu_id"} : a[f] = b[f]
  <2> DEFINE x == [a EXCEPT !.gpu_id = 0]
             y == [b EXCEPT !.gpu_id = 0]
  <2>1. DOMAIN x = DOMAIN a /\ \A f \in DOMAIN a \ {"gpu_id"} : x[f] = a[f]
    OBVIOUS
  <2>2. DOMAIN y = DOMAIN b /\ \A f \in DOMAIN b \ {"gpu_id"} : y[f] = b[f]
    OBVIOUS
  <2>3. x = y
    BY <1>1 DEF Alike
  <2> HIDE DEF x, y
  <2>4. QED BY <2>1, <2>2, <2>3
<1>2. ASSUME DOMAIN a = DOMAIN b /\ \A f \in DOMAIN a \ {"gpu_id"} : a[f] = b[f] PROVE Alike(a, b)
  BY <1>2 DEF Alike
<1>3. QED BY <1>1, <1>2

\* Likeness can be chained.
LEMMA AlikeTransitive ==
  ASSUME NEW a, NEW b, NEW c, Alike(a, b), Alike(b, c) PROVE Alike(a, c)
BY DEF Alike

\* The GPU a component has before its group is read shows nowhere else in it.
LEMMA PutAlike ==
  ASSUME NEW g, NEW a, NEW b, Alike(a, b) PROVE Alike(Put(g, a), Put(g, b))
<1>1. DOMAIN a = DOMAIN b /\ \A f \in DOMAIN a \ {"gpu_id"} : a[f] = b[f]
  BY AlikeIs
<1>2. DOMAIN Put(g, a) = DOMAIN g.keys \cup DOMAIN a /\ DOMAIN Put(g, b) = DOMAIN g.keys \cup DOMAIN b
  BY DEF Put, Overlaid
<1>3. \A f \in DOMAIN Put(g, a) \ {"gpu_id"} : Put(g, a)[f] = Put(g, b)[f]
  BY <1>1 DEF Put, Overlaid
<1>4. QED BY <1>1, <1>2, <1>3, AlikeIs

\* The GPU of the application is all that is put into a component beforehand.
LEMMA BeforeAlike ==
  ASSUME NEW g PROVE Alike(Before(g), Target(g))
<1>1. Alike([Target(g) EXCEPT !.gpu_id = global_gpu_id], Target(g))
  BY DEF Alike
<1>2. Alike(Target(g), Target(g))
  BY DEF Alike
<1>3. QED BY <1>1, <1>2 DEF Before

\* Engines and sinks are off by default.
LEMMA DefaultsOff ==
  ASSUME NEW k \in SlotNumbered
  PROVE  k \in SlotKinds /\ {"enable", "gpu_id"} \subseteq DOMAIN Default[k] /\ Default[k].enable = FALSE
<1>1. k \in SlotKinds
  BY DEF SlotNumbered, SlotKinds
<1>2. Default["secondary-gie"] = Gie /\ Default["sink"] = [enable |-> FALSE, gpu_id |-> 0, type |-> "none"]
  BY DEF Default, SlotKinds, SingleKinds
<1>3. QED BY <1>1, <1>2 DEF SlotNumbered, Gie

\* The components of a kind are those its groups enable.
Matches(k) ==
  /\ config.num[k] = Cardinality(EnabledOf(k))
  /\ \A i \in EnabledOf(k) : Alike(SlotOf(k, i), Put(file[i], Default[k]))
  /\ \A n \in (config.num[k] + 1)..MaxSlots[k] : Alike(config.slots[k][n], Default[k])

SlotsInv ==
  result \in {"pending", "accepted"} =>
    \A k \in SlotNumbered : (format = "INI" \/ Says({k})) => Matches(k)

\* The place of a group among the enabled ones of its kind.
Rank(k, i) == Cardinality({j \in EnabledOf(k) : j <= i})

\* Ranks are numbers from one to the number of enabled groups.
LEMMA EnabledFinite ==
  ASSUME file \in Seq(Groups), NEW k
  PROVE  /\ EnabledOf(k) \subseteq 1..Len(file) /\ IsFiniteSet(EnabledOf(k)) /\ Cardinality(EnabledOf(k)) \in Nat
         /\ \A i \in EnabledOf(k) : Rank(k, i) \in 1..Cardinality(EnabledOf(k))
<1>1. EnabledOf(k) \subseteq 1..Len(file) /\ Len(file) \in Nat
  BY DEF EnabledOf
<1>2. IsFiniteSet(1..Len(file))
  BY <1>1, FS_Interval
<1>3. IsFiniteSet(EnabledOf(k)) /\ Cardinality(EnabledOf(k)) \in Nat
  BY <1>1, <1>2, FS_Subset, FS_CardinalityType
<1>4. ASSUME NEW i \in EnabledOf(k) PROVE Rank(k, i) \in 1..Cardinality(EnabledOf(k))
  <2> DEFINE S == {j \in EnabledOf(k) : j <= i}
  <2>1. S \subseteq EnabledOf(k) /\ i \in S
    BY <1>1
  <2> HIDE DEF S
  <2>2. IsFiniteSet(S) /\ Cardinality(S) <= Cardinality(EnabledOf(k)) /\ Cardinality(S) \in Nat
    BY <1>3, <2>1, FS_Subset, FS_CardinalityType
  <2>3. Cardinality(S) # 0
    BY <2>1, <2>2, FS_EmptySet
  <2>4. QED BY <1>3, <2>2, <2>3 DEF Rank, S
<1>5. QED BY <1>1, <1>3, <1>4

\* A group more: it is enabled itself, or the enabled ones are the same.
LEMMA EnabledMore ==
  ASSUME ParserType, NEW kinds, NEW g \in Unread(kinds), file' = Append(file, g), NEW k
  PROVE  /\ g.kind = k /\ Enabled(g) => EnabledOf(k)' = EnabledOf(k) \cup {Len(file) + 1}
         /\ g.kind # k \/ ~Enabled(g) => EnabledOf(k)' = EnabledOf(k)
         /\ \A i \in EnabledOf(k) : file'[i] = file[i] /\ Rank(k, i)' = Rank(k, i)
         /\ Says({k})' => Says({k}) /\ (g.kind = k => "enable" \in DOMAIN g.keys)
<1>1. /\ DOMAIN file = 1..Len(file) /\ DOMAIN file' = 1..(Len(file) + 1) /\ Len(file) \in Nat
      /\ \A i \in DOMAIN file : file'[i] = file[i]
      /\ file'[Len(file) + 1] = g
  BY UnreadIs DEF ParserType
<1>2. /\ g.kind = k /\ Enabled(g) => EnabledOf(k)' = EnabledOf(k) \cup {Len(file) + 1}
      /\ g.kind # k \/ ~Enabled(g) => EnabledOf(k)' = EnabledOf(k)
  <2>1. ASSUME NEW i
        PROVE  i \in EnabledOf(k)' <=> i \in EnabledOf(k) \/ (g.kind = k /\ Enabled(g) /\ i = Len(file) + 1)
    <3>1. CASE i = Len(file) + 1
      <4>1. i \notin DOMAIN file /\ i \in DOMAIN file' /\ file'[i] = g
        BY <1>1, <3>1
      <4>2. QED BY <3>1, <4>1 DEF EnabledOf, Enabled
    <3>2. CASE i # Len(file) + 1
      <4>1. i \in DOMAIN file' <=> i \in DOMAIN file
        BY <1>1, <3>2
      <4>2. QED BY <1>1, <3>2, <4>1 DEF EnabledOf, Enabled
    <3>3. QED BY <3>1, <3>2
  <2>2. QED BY <2>1
<1>3. \A i \in EnabledOf(k) : i \in DOMAIN file /\ file'[i] = file[i]
  BY <1>1 DEF EnabledOf
<1>4. ASSUME NEW i \in EnabledOf(k) PROVE Rank(k, i)' = Rank(k, i)
  <2>1. {j \in EnabledOf(k)' : j <= i} = {j \in EnabledOf(k) : j <= i}
    BY <1>1, <1>2, <1>3
  <2>2. QED BY <2>1 DEF Rank
<1>5. Says({k})' => Says({k}) /\ (g.kind = k => "enable" \in DOMAIN g.keys)
  BY <1>1 DEF Says
<1>6. QED BY <1>2, <1>3, <1>4, <1>5

\* The slot of a group is that of its rank.
LEMMA SlotOfIs == \A k, i : SlotOf(k, i) = config.slots[k][Rank(k, i)]
BY DEF SlotOf, Rank

\* Nothing is counted: the slots that are taken are the same, the others still free.
LEMMA MatchesKept ==
  ASSUME ParserType, ConfigTyped(config), NEW k \in SlotNumbered, Matches(k), config'.num[k] = config.num[k],
         \A n \in 1..MaxSlots[k] :
           \/ config'.slots[k][n] = config.slots[k][n]
           \/ n = config.num[k] + 1 /\ Alike(config'.slots[k][n], Default[k]),
         EnabledOf(k)' = EnabledOf(k),
         \A i \in EnabledOf(k) : file'[i] = file[i]
  PROVE  Matches(k)'
<1>0. config.num[k] \in 0..MaxSlots[k] /\ MaxSlots[k] \in Nat /\ config.num[k] = Cardinality(EnabledOf(k))
  BY DefaultsOff, MaxSlotsAssumption DEF ConfigTyped, Matches
<1>1. ASSUME NEW i \in EnabledOf(k) PROVE Alike(SlotOf(k, i), Put(file[i], Default[k]))'
  <2>1. Rank(k, i) \in 1..config.num[k] /\ Rank(k, i)' = Rank(k, i)
    BY <1>0, EnabledFinite DEF ParserType, Rank
  <2>2. config'.slots[k][Rank(k, i)] = config.slots[k][Rank(k, i)]
    BY <1>0, <2>1
  <2>3. Alike(SlotOf(k, i), Put(file[i], Default[k]))
    BY DEF Matches
  <2>4. SlotOf(k, i)' = SlotOf(k, i)
    BY <2>1, <2>2 DEF SlotOf, Rank
  <2>5. file'[i] = file[i]
    OBVIOUS
  <2>6. Alike(SlotOf(k, i)', Put(file'[i], Default[k]))
    BY <2>3, <2>4, <2>5
  <2>7. QED BY <2>6
<1>2. ASSUME NEW n \in (config.num[k] + 1)..MaxSlots[k] PROVE Alike(config'.slots[k][n], Default[k])
  <2>1. n \in 1..MaxSlots[k] /\ Alike(config.slots[k][n], Default[k])
    BY <1>0 DEF Matches
  <2>2. QED BY <2>1
<1>3. config'.num[k] = Cardinality(EnabledOf(k)')
  BY <1>0
<1>4. QED BY <1>1, <1>2, <1>3 DEF Matches

\* An enabled group takes the first free slot.
LEMMA MatchesMore ==
  ASSUME ParserType, ConfigTyped(config), NEW k \in SlotNumbered, Matches(k),
         NEW kinds, NEW g \in Unread(kinds), file' = Append(file, g), g.kind = k, Enabled(g),
         NEW c, Alike(c, Put(g, Default[k])),
         config'.num[k] = config.num[k] + 1,
         \A n \in 1..MaxSlots[k] :
           config'.slots[k][n] = IF n = config.num[k] + 1 THEN c ELSE config.slots[k][n],
         config.num[k] + 1 \in 1..MaxSlots[k]
  PROVE  Matches(k)'
<1> DEFINE last == Len(file) + 1
<1>0. /\ config.num[k] \in 0..MaxSlots[k] /\ MaxSlots[k] \in Nat /\ config.num[k] = Cardinality(EnabledOf(k))
      /\ Len(file) \in Nat /\ file'[last] = g
  BY DefaultsOff, MaxSlotsAssumption, UnreadIs DEF ConfigTyped, Matches, ParserType
<1>1. EnabledOf(k)' = EnabledOf(k) \cup {last} /\ EnabledOf(k) \subseteq 1..Len(file) /\ IsFiniteSet(EnabledOf(k))
  BY EnabledMore, EnabledFinite DEF ParserType
<1>2. last \notin EnabledOf(k)
  BY <1>0, <1>1
<1>3. Cardinality(EnabledOf(k)') = config.num[k] + 1
  <2>1. Cardinality(EnabledOf(k) \cup {last}) = Cardinality(EnabledOf(k)) + 1
    BY <1>1, <1>2, FS_AddElement, Zenon
  <2>2. QED BY <1>0, <1>1, <2>1
<1>4. ASSUME NEW i \in EnabledOf(k)' PROVE Alike(SlotOf(k, i), Put(file[i], Default[k]))'
  <2>1. CASE i = last
    <3>1. {j \in EnabledOf(k)' : j <= last} = EnabledOf(k)'
      BY <1>0, <1>1
    <3>2. SlotOf(k, i)' = c
      BY <1>3, <2>1, <3>1 DEF SlotOf
    <3>3. file'[i] = g
      BY <1>0, <2>1
    <3>4. Alike(SlotOf(k, i)', Put(file'[i], Default[k]))
      BY <3>2, <3>3
    <3>5. QED BY <3>4
  <2>2. CASE i \in EnabledOf(k)
    <3>1. Rank(k, i) \in 1..config.num[k] /\ Rank(k, i)' = Rank(k, i) /\ file'[i] = file[i]
      BY <1>0, <2>2, EnabledFinite, EnabledMore DEF ParserType
    <3>2. config'.slots[k][Rank(k, i)] = config.slots[k][Rank(k, i)]
      <4> DEFINE r == Rank(k, i)
      <4>1. r \in 1..config.num[k]
        BY <3>1
      <4> HIDE DEF r
      <4>2. r \in 1..MaxSlots[k] /\ r # config.num[k] + 1
        BY <1>0, <4>1
      <4>3. config'.slots[k][r] = config.slots[k][r]
        BY <4>2
      <4>4. QED BY <4>3 DEF r
    <3>3. SlotOf(k, i)' = SlotOf(k, i)
      BY <3>1, <3>2 DEF SlotOf, Rank
    <3>4. Alike(SlotOf(k, i)', Put(file'[i], Default[k]))
      BY <2>2, <3>1, <3>3 DEF Matches
    <3>5. QED BY <3>4
  <2>3. QED BY <1>1, <2>1, <2>2
<1>5. ASSUME NEW n \in (config'.num[k] + 1)..MaxSlots[k] PROVE Alike(config'.slots[k][n], Default[k])
  <2>1. n \in 1..MaxSlots[k] /\ n # config.num[k] + 1 /\ n \in (config.num[k] + 1)..MaxSlots[k]
    BY <1>0
  <2>2. QED BY <2>1 DEF Matches
<1>6. QED BY <1>3, <1>4, <1>5 DEF Matches

\* A step that changes no slot and no counter of these kinds, and meets no group of them.
LEMMA SlotsKept ==
  ASSUME ParserType, SlotsInv, result = "pending", format' = format,
         \A k \in SlotNumbered : /\ config'.num[k] = config.num[k]
                             /\ \A n \in 1..MaxSlots[k] : config'.slots[k][n] = config.slots[k][n],
         \/ file' = file
         \/ \E kinds : \E g \in Unread(kinds) : file' = Append(file, g) /\ g.kind \notin SlotNumbered
  PROVE  SlotsInv'
<1> SUFFICES ASSUME NEW k \in SlotNumbered, (format = "INI" \/ Says({k}))' PROVE Matches(k)'
  BY DEF SlotsInv
<1>1. ConfigTyped(config)
  BY DEF ParserType
<1>2. /\ EnabledOf(k)' = EnabledOf(k) /\ \A i \in EnabledOf(k) : file'[i] = file[i]
      /\ Says({k})' => Says({k})
  <2>1. CASE file' = file
    BY <2>1 DEF EnabledOf, Enabled, Says
  <2>2. ASSUME NEW kinds, NEW g \in Unread(kinds), file' = Append(file, g), g.kind \notin SlotNumbered
        PROVE  /\ EnabledOf(k)' = EnabledOf(k) /\ \A i \in EnabledOf(k) : file'[i] = file[i]
               /\ Says({k})' => Says({k})
    <3>1. g.kind # k
      BY <2>2
    <3>2. QED BY <2>2, <3>1, EnabledMore
  <2>3. QED BY <2>1, <2>2
<1>3. Matches(k)
  BY <1>2 DEF SlotsInv
<1>4. QED BY <1>1, <1>2, <1>3, MatchesKept

\* A group that is met: one of these kinds goes to its slot, or leaves it as it was.
LEMMA SlotsMet ==
  ASSUME ParserType, SlotsInv, result = "pending", format' = format,
         NEW kinds, NEW g \in Unread(kinds), file' = Append(file, g),
         g.kind \in SlotKinds \cup SingleKinds, ~Full(g),
         NEW c, config' = Stored(g, c),
         (g.kind \in SlotNumbered /\ (format = "INI" \/ "enable" \in DOMAIN g.keys)) =>
           /\ Enabled(g) => c = Put(g, Before(g))
           /\ ~Enabled(g) => c = Before(g)
  PROVE  SlotsInv'
<1>0. ConfigTyped(config) /\ Shaped(config) /\ g \in Groups
  BY UnreadIs DEF ParserType, ConfigTyped
<1>7. ASSUME g.kind \in SlotKinds
      PROVE  /\ \A k \in SlotKinds : k # g.kind => config'.num[k] = config.num[k]
             /\ c.enable => config'.num[g.kind] = config.num[g.kind] + 1
             /\ ~c.enable => config'.num[g.kind] = config.num[g.kind]
             /\ \A k \in SlotKinds : \A n \in 1..MaxSlots[k] :
                  config'.slots[k][n] = IF k = g.kind /\ n = config.num[k] + 1 THEN c ELSE config.slots[k][n]
  <2>1. config.num[g.kind] \in 0..MaxSlots[g.kind]
    BY <1>0, <1>7 DEF ConfigTyped
  <2>2. SlotStored(Stored(g, c), g, c)
    BY <1>0, <1>7, <2>1, StoredInSlot
  <2>3. QED BY <2>2 DEF SlotStored
<1>1. CASE g.kind \notin SlotNumbered
  <2>1. \A k \in SlotNumbered : /\ config'.num[k] = config.num[k]
                            /\ \A n \in 1..MaxSlots[k] : config'.slots[k][n] = config.slots[k][n]
    <3> SUFFICES ASSUME NEW k \in SlotNumbered
                 PROVE  /\ config'.num[k] = config.num[k]
                        /\ \A n \in 1..MaxSlots[k] : config'.slots[k][n] = config.slots[k][n]
      OBVIOUS
    <3>1. CASE g.kind \in SlotKinds
      <4>1. config.num[g.kind] \in 0..MaxSlots[g.kind] /\ k \in SlotKinds /\ k # g.kind
        BY <1>0, <1>1, <3>1, DefaultsOff DEF ConfigTyped
      <4>2. QED BY <1>7, <3>1, <4>1
    <3>2. CASE g.kind \in SingleKinds
      BY <1>0, <3>2, StoredAlone
    <3>3. QED BY <3>1, <3>2
  <2>2. QED BY <1>1, <2>1, SlotsKept
<1>2. CASE g.kind \in SlotNumbered
  <2> SUFFICES ASSUME NEW k \in SlotNumbered, (format = "INI" \/ Says({k}))' PROVE Matches(k)'
    BY DEF SlotsInv
  <2>0. /\ k \in SlotKinds /\ {"enable", "gpu_id"} \subseteq DOMAIN Default[k] /\ Default[k].enable = FALSE
        /\ config.num[k] \in 0..MaxSlots[k] /\ MaxSlots[k] \in Nat
    BY <1>0, DefaultsOff, MaxSlotsAssumption DEF ConfigTyped
  <2>1. /\ format = "INI" \/ Says({k})
        /\ g.kind = k => format = "INI" \/ "enable" \in DOMAIN g.keys
    BY EnabledMore
  <2>2. Matches(k)
    BY <2>1 DEF SlotsInv
  <2>3. g.kind \in SlotKinds /\ config.num[g.kind] \in 0..MaxSlots[g.kind]
    BY <1>0, <1>2, DefaultsOff DEF ConfigTyped
  <2>5. /\ g.kind # k \/ ~Enabled(g) => EnabledOf(k)' = EnabledOf(k)
        /\ \A i \in EnabledOf(k) : file'[i] = file[i]
    BY EnabledMore
  <2>6. CASE g.kind # k
    <3>1. config'.num[k] = config.num[k] /\ \A n \in 1..MaxSlots[k] : config'.slots[k][n] = config.slots[k][n]
      BY <2>0, <1>7, <2>3, <2>6
    <3>2. EnabledOf(k)' = EnabledOf(k)
      BY <2>5, <2>6
    <3>3. QED BY <1>0, <2>2, <2>5, <3>1, <3>2, MatchesKept
  <2>7. CASE g.kind = k
    <3>1. config.num[k] + 1 \in 1..MaxSlots[k]
      BY <2>0, <2>7 DEF Full
    <3>2. Alike(Before(g), Default[k])
      <4>1. Target(g) = config.slots[k][config.num[k] + 1]
        BY <2>0, <2>7 DEF Target
      <4>2. Alike(Target(g), Default[k])
        BY <2>0, <2>2, <3>1, <4>1 DEF Matches
      <4>3. QED BY <4>2, BeforeAlike, AlikeTransitive
    <3>3. (Enabled(g) => c = Put(g, Before(g))) /\ (~Enabled(g) => c = Before(g))
      BY <1>2, <2>1, <2>7
    <3>4. CASE Enabled(g)
      <4>1. c = Put(g, Before(g)) /\ Alike(c, Put(g, Default[k]))
        BY <3>2, <3>3, <3>4, PutAlike
      <4>2. c.enable
        BY <4>1, <3>4 DEF Put, Overlaid, Enabled
      <4>3. config'.num[k] = config.num[k] + 1
            /\ \A n \in 1..MaxSlots[k] :
                 config'.slots[k][n] = IF n = config.num[k] + 1 THEN c ELSE config.slots[k][n]
        BY <2>0, <1>7, <2>3, <2>7, <4>2
      <4>4. QED BY <1>0, <2>2, <2>7, <3>1, <3>4, <4>1, <4>3, MatchesMore
    <3>5. CASE ~Enabled(g)
      <4>1. c = Before(g) /\ Alike(c, Default[k])
        BY <3>2, <3>3, <3>5
      <4>2. c.enable = FALSE
        BY <2>0, <4>1, AlikeIs
      <4>3. config'.num[k] = config.num[k]
        BY <1>7, <2>3, <2>7, <4>2
      <4>4. \A n \in 1..MaxSlots[k] :
              \/ config'.slots[k][n] = config.slots[k][n]
              \/ n = config.num[k] + 1 /\ Alike(config'.slots[k][n], Default[k])
        BY <2>0, <1>7, <2>3, <2>7, <4>1
      <4>5. EnabledOf(k)' = EnabledOf(k)
        BY <2>5, <3>5
      <4>6. QED BY <1>0, <2>2, <2>5, <4>3, <4>4, <4>5, MatchesKept
    <3>6. QED BY <3>4, <3>5
  <2>8. QED BY <2>6, <2>7
<1>3. QED BY <1>1, <1>2

\* [application] is no engine and no sink.
LEMMA ReadAppSlots == ParserType /\ SlotsInv /\ ReadApp => SlotsInv'
<1> SUFFICES ASSUME ParserType, SlotsInv, ReadApp PROVE SlotsInv'
  OBVIOUS
<1>0. result = "pending" /\ format' = format
  BY DEF ParserType, ReadApp
<1>1. CASE UNCHANGED <<file, config, result>>
  <2>1. config' = config /\ file' = file
    BY <1>1
  <2>2. QED BY <1>0, <2>1, SlotsKept
<1>2. CASE ~UNCHANGED <<file, config, result>>
  <2> DEFINE p(g) == IF format = "INI" THEN parse_app(g, Target(g)) ELSE parse_app_yaml(g, Target(g))
  <2>1. PICK g \in Unread({"application"}) : file' = Append(file, g) /\ config' = Stored(g, p(g).component)
    BY <1>2 DEF ReadApp
  <2>2. g.kind = "application" /\ g.kind \in SingleKinds /\ g.kind \notin SlotNumbered /\ ~Full(g)
    BY UnreadIs DEF ParserType, SingleKinds, SlotKinds, Full, SlotNumbered
  <2> HIDE DEF p
  <2>3. QED BY <1>0, <2>1, <2>2, SlotsMet
<1>3. QED BY <1>1, <1>2

\* Nor is [source-attr-all], and it gives nothing to a slot.
LEMMA ReadSourceAllSlots == ParserType /\ SlotsInv /\ ReadSourceAll => SlotsInv'
<1> SUFFICES ASSUME ParserType, SlotsInv, ReadSourceAll PROVE SlotsInv'
  OBVIOUS
<1>0. result = "pending" /\ format' = format /\ ConfigTyped(config)
  BY DEF ParserType, ReadSourceAll
<1>1. CASE UNCHANGED <<file, config, removed, result>>
  <2>1. config' = config /\ file' = file
    BY <1>1
  <2>2. QED BY <1>0, <2>1, SlotsKept
<1>2. CASE ~UNCHANGED <<file, config, removed, result>>
  <2> DEFINE p(g) == parse_source_all(g, Before(g))
  <2>1. PICK g \in Unread({"source-attr-all"}) :
          /\ file' = Append(file, g)
          /\ config' = set_source_all_configs([Stored(g, p(g).component) EXCEPT !.source_attr_all_parsed = TRUE])
    BY <1>2 DEF ReadSourceAll
  <2>2. g \in Groups /\ g.kind = "source-attr-all" /\ g.kind \notin SlotNumbered
    BY UnreadIs DEF ParserType, SlotNumbered
  <2> HIDE DEF p
  <2>3. config'.num = config.num
        /\ \A k \in SlotKinds : \A n \in 1..MaxSlots[k] : config'.slots[k][n] = config.slots[k][n]
    BY <1>0, <2>1, <2>2, SourceAllStored
  <2>4. \A k \in SlotNumbered : /\ config'.num[k] = config.num[k]
                            /\ \A n \in 1..MaxSlots[k] : config'.slots[k][n] = config.slots[k][n]
    BY <2>3, DefaultsOff
  <2>5. QED BY <1>0, <2>1, <2>2, <2>4, SlotsKept
<1>3. QED BY <1>1, <1>2

\* The three loops over the groups keep the slots those of the groups.
LEMMA GroupsSlots == ParserType /\ SlotsInv /\ (ReadIniGroup \/ ReadYamlGroup \/ ReadRow) => SlotsInv'
<1>0. SlotNumbered \subseteq EngineKinds
  BY DEF SlotNumbered, EngineKinds
<1>1. ASSUME ParserType, SlotsInv, ReadIniGroup PROVE SlotsInv'
  <2> DEFINE p(g) == ParseIni(g, Before(g))
  <2>0. result = "pending" /\ format' = format /\ stage = "groups"
    BY <1>1 DEF ParserType, ReadIniGroup
  <2>1. PICK g \in Unread(IniKinds) :
          /\ GroupMet(g, p(g), "groups")
          /\ stage' # "done" => g.kind # "source-csv" /\ ~Full(g) /\ config' = Stored(g, p(g).component)
    BY <1>1, IniGroupMet DEF ReadIniGroup
  <2>2. g \in Groups /\ g.kind \in IniKinds /\ file' = Append(file, g)
    BY <1>1, <2>1, UnreadIs DEF ParserType, GroupMet
  <2>3. CASE stage' = "done"
    BY <2>0, <2>1, <2>3 DEF SlotsInv, GroupMet
  <2>4. CASE stage' # "done"
    <3>1. g.kind \in EngineKinds => /\ Enabled(g) => p(g).component = Put(g, Before(g))
                                    /\ ~Enabled(g) => p(g).component = Before(g)
      BY <2>1, <2>2, <2>4, IniGroupReads
    <3>2. g.kind \in SlotKinds \cup SingleKinds /\ ~Full(g) /\ config' = Stored(g, p(g).component)
      BY <2>1, <2>2, <2>4, KindsSplit
    <3> HIDE DEF p
    <3>3. QED BY <1>0, <1>1, <2>0, <2>2, <3>1, <3>2, SlotsMet
  <2>5. QED BY <2>3, <2>4
<1>2. ASSUME ParserType, SlotsInv, ReadYamlGroup PROVE SlotsInv'
  <2> DEFINE p(g) == ParseYaml(g, Before(g))
  <2>0. result = "pending" /\ format' = format /\ stage = "groups" /\ format # "INI"
    BY <1>2 DEF ParserType, ReadYamlGroup
  <2>1. PICK g \in Unread(YamlKinds) :
          /\ GroupMet(g, p(g), "groups")
          /\ stage' # "done" => ~Full(g) /\ config' = Stored(g, p(g).component)
    BY <1>2, YamlGroupMet DEF ReadYamlGroup
  <2>2. g \in Groups /\ g.kind \in YamlKinds /\ file' = Append(file, g)
    BY <1>2, <2>1, UnreadIs DEF ParserType, GroupMet
  <2>3. CASE stage' = "done"
    BY <2>0, <2>1, <2>3 DEF SlotsInv, GroupMet
  <2>4. CASE stage' # "done"
    <3>1. g.kind \in EngineKinds => /\ Disabled(g) => p(g).component = Before(g)
                                    /\ ~Disabled(g) => p(g).component = Put(g, Before(g))
      BY <2>2, YamlGroupReads
    <3>2. g.kind \in SlotKinds \cup SingleKinds /\ ~Full(g) /\ config' = Stored(g, p(g).component)
      BY <2>1, <2>2, <2>4, KindsSplit
    <3>3. "enable" \in DOMAIN g.keys => (Disabled(g) <=> ~Enabled(g))
      BY DEF Disabled, Enabled
    <3> HIDE DEF p
    <3>4. "enable" \in DOMAIN g.keys /\ g.kind \in SlotNumbered =>
            /\ Enabled(g) => p(g).component = Put(g, Before(g))
            /\ ~Enabled(g) => p(g).component = Before(g)
      BY <1>0, <3>1, <3>3
    <3>5. QED BY <1>2, <2>0, <2>2, <3>2, <3>4, SlotsMet
  <2>5. QED BY <2>3, <2>4
<1>3. ASSUME ParserType, SlotsInv, ReadRow PROVE SlotsInv'
  <2> DEFINE p(g) == ParseYaml(g, Before(g))
  <2>0. result = "pending" /\ format' = format /\ stage = "rows"
    BY <1>3 DEF ParserType, ReadRow
  <2>1. PICK g \in Unread({"source"}) :
          /\ GroupMet(g, p(g), "rows")
          /\ stage' # "done" => ~Full(g) /\ config' = Stored(g, p(g).component)
    BY <1>3, RowMet DEF ReadRow
  <2>2. g.kind = "source" /\ g.kind \in SlotKinds /\ g.kind \notin SlotNumbered /\ file' = Append(file, g)
    BY <1>3, <2>1, UnreadIs DEF ParserType, GroupMet, SlotKinds, SlotNumbered
  <2>3. CASE stage' = "done"
    BY <2>0, <2>1, <2>3 DEF SlotsInv, GroupMet
  <2>4. CASE stage' # "done"
    <3> HIDE DEF p
    <3>1. ~Full(g) /\ config' = Stored(g, p(g).component)
      BY <2>1, <2>4
    <3>2. QED BY <1>3, <2>0, <2>2, <3>1, SlotsMet
  <2>5. QED BY <2>3, <2>4
<1>4. QED BY <1>1, <1>2, <1>3

\* The steps that store nothing.
LEMMA PlainStepsSlots ==
  ParserType /\ SlotsInv /\ (Unrecognized \/ IgnoreYamlGroup \/ OpenCsv \/ EndOfRows \/ EndOfFile) => SlotsInv'
<1> SUFFICES ASSUME ParserType, SlotsInv, Unrecognized \/ IgnoreYamlGroup \/ OpenCsv \/ EndOfRows \/ EndOfFile
             PROVE SlotsInv'
  OBVIOUS
<1>1. config' = config /\ format' = format /\ result = "pending"
  BY DEF Unrecognized, IgnoreYamlGroup, OpenCsv, EndOfRows, EndOfFile, ParserType
<1>2. \/ file' = file
      \/ \E kinds : \E g \in Unread(kinds) : file' = Append(file, g) /\ g.kind \notin SlotNumbered
  <2>1. CASE Unrecognized \/ EndOfRows \/ EndOfFile
    BY <2>1 DEF Unrecognized, EndOfRows, EndOfFile
  <2>2. CASE IgnoreYamlGroup
    <3> DEFINE ignored == {"secondary-pre-process", "source-list", "source-attr-all"}
    <3>1. PICK g \in Unread(ignored) : file' = Append(file, g)
      BY <2>2 DEF IgnoreYamlGroup
    <3>2. g.kind \notin SlotNumbered
      BY UnreadIs DEF ParserType, SlotNumbered
    <3> HIDE DEF ignored
    <3>3. QED BY <3>1, <3>2
  <2>3. CASE OpenCsv
    <3>1. PICK g \in Unread({"source-csv"}) : file' = Append(file, g)
      BY <2>3 DEF OpenCsv
    <3>2. g.kind \notin SlotNumbered
      BY UnreadIs DEF ParserType, SlotNumbered
    <3>3. QED BY <3>1, <3>2
  <2>4. QED BY <2>1, <2>2, <2>3
<1>3. QED BY <1>1, <1>2, SlotsKept

\* The expansion is of sources alone.
LEMMA CheckSlots == ParserType /\ SlotsInv /\ Check => SlotsInv'
<1> SUFFICES ASSUME ParserType, SlotsInv, Check PROVE SlotsInv'
  OBVIOUS
<1>1. ConfigTyped(config) /\ file' = file /\ format' = format /\ result = "pending"
  BY DEF ParserType, Check
<1>2. \A k \in SlotNumbered : k \in SlotKinds \ {"source"}
  BY DEF SlotNumbered, SlotKinds
<1>3. \A k \in SlotNumbered : /\ config'.num[k] = config.num[k]
                          /\ \A n \in 1..MaxSlots[k] : config'.slots[k][n] = config.slots[k][n]
  <2>1. CASE config' = config
    BY <2>1
  <2>2. CASE config' = [f \in DOMAIN config |-> ExpandAll[f]]
    <3> DEFINE e == ExpandAll
    <3>1. ExpandKeeps(e)
      BY <1>1, ExpandAllKeeps DEF ConfigTyped, SlotKinds
    <3> HIDE DEF e
    <3>2. config'.num = e.num /\ config'.slots = e.slots
      BY <1>1, <2>2 DEF ConfigTyped, Shaped, e
    <3>3. QED BY <1>2, <3>1, <3>2 DEF ExpandKeeps
  <2>3. QED BY <2>1, <2>2 DEF Check
<1>4. QED BY <1>1, <1>3, SlotsKept

\* All slots are free.
LEMMA SlotsInit == Init => SlotsInv
<1> SUFFICES ASSUME Init, NEW k \in SlotNumbered PROVE Matches(k)
  BY DEF SlotsInv
<1>1. EnabledOf(k) = {}
  BY DEF EnabledOf, Init
<1>2. config.num[k] = 0 /\ \A n \in 1..MaxSlots[k] : config.slots[k][n] = Default[k]
  BY DefaultsOff DEF Init, AppConfig
<1>3. config.num[k] = Cardinality(EnabledOf(k))
  BY <1>1, <1>2, FS_EmptySet
<1>4. \A n \in 1..MaxSlots[k] : Alike(config.slots[k][n], Default[k])
  BY <1>2 DEF Alike
<1>5. QED BY <1>1, <1>2, <1>3, <1>4 DEF Matches

\* Every step keeps the slots those of the groups.
LEMMA SlotsNext == ParserType /\ SlotsInv /\ [Next]_vars => SlotsInv'
<1>1. ParserType /\ SlotsInv /\ UNCHANGED vars => SlotsInv'
  BY DEF vars, SlotsInv, Matches, EnabledOf, Enabled, SlotOf, Says
<1>2. ParserType /\ SlotsInv /\ ReadSourceList => SlotsInv'
  <2> SUFFICES ASSUME ParserType, SlotsInv, ReadSourceList PROVE SlotsInv'
    OBVIOUS
  <2>1. CASE UNCHANGED <<format, file, config, removed, parse_err, result>>
    <3>1. result = "pending"
      BY DEF ParserType, ReadSourceList
    <3>2. QED BY <2>1, <3>1, SlotsKept
  <2>2. CASE result' = "rejected"
    BY <2>2 DEF SlotsInv
  <2>3. QED BY <2>1, <2>2, SourceListRefused
<1>3. QED
  BY <1>1, <1>2, ReadAppSlots, ReadSourceAllSlots, GroupsSlots, PlainStepsSlots, CheckSlots
  DEF Next

\* Engines and sinks: an accepted file has as many as it enables, each with exactly what
\* its own group says over the defaults, in the order of the file.
THEOREM SlotsAlwaysMatch == Spec => []SlotsMatchGroups
<1>1. SlotsInv => SlotsMatchGroups
  BY DEF SlotsInv, SlotsMatchGroups, Matches, Alike, Accepted, SlotNumbered
<1>2. QED BY ParserInit, ParserNext, SlotsInit, SlotsNext, <1>1, PTL DEF Spec

-----------------------------------------------------------------------------
(* An accepted file has the GPUs and the sources it asks for.               *)

Slotted == {"source", "secondary-gie", "sink"}
AloneKinds == {"streammux", "osd", "primary-gie", "tracker", "tiled-display", "img-save"}

\* A group of which there are many has the GPU it asked for.
GpuServed(k, i) ==
  (Wanted(file[i]) # NoGpu /\ (k = "sink" => ~MutedBefore(i))) => SlotOf(k, i).gpu_id = Wanted(file[i])

\* And one of which there is one.
AloneServed(i) ==
  LET g == file[i]
  IN /\ g.kind \in AloneKinds
     /\ g.kind = "primary-gie" => Enabled(g)
     /\ Wanted(g) # NoGpu
     => config.single[g.kind].gpu_id = Wanted(g)

\* What an enabled source says of itself is in the slot.
SourceIs(g, s) ==
  /\ s.enable = TRUE /\ s.part = NoGpu
  /\ "uri" \in DOMAIN g.keys => s.uri = g.keys.uri
  /\ "type" \in DOMAIN g.keys => s.type = g.keys.type
  /\ "num_sources" \in DOMAIN g.keys => Max1(s.num_sources) = Max1(g.keys.num_sources)

SourcesInv ==
  /\ config.num["source"] = Cardinality(EnabledOf("source"))
  /\ \A r \in 1..config.num["source"] : \E i \in EnabledOf("source") : Rank("source", i) = r
  /\ \A i \in EnabledOf("source") : SourceIs(file[i], SlotOf("source", i)) /\ GpuServed("source", i)
  /\ \A n \in (config.num["source"] + 1)..MaxSlots["source"] :
       config.slots["source"][n].enable = FALSE /\ config.slots["source"][n].part = NoGpu

GpuInv ==
  /\ \A k \in SlotNumbered : (format = "INI" \/ Says({k})) =>
       \A i \in EnabledOf(k) : GpuServed(k, i)
  /\ \A k \in AloneKinds : "gpu_id" \in DOMAIN config.single[k]
  /\ \A i \in DOMAIN file : AloneServed(i)

PlacedInv == result = "pending" => SourcesInv /\ GpuInv

\* The file stays or gets another group.
FileGrows ==
  \/ file' = file
  \/ \E kinds : \E g \in Unread(kinds) : file' = Append(file, g)

\* What the groups so far say and ask for does not change.
LEMMA GroupsStay ==
  ASSUME ParserType, FileGrows, config'.single["application"] = config.single["application"]
  PROVE  /\ DOMAIN file \subseteq DOMAIN file'
         /\ \A i \in DOMAIN file : file'[i] = file[i] /\ MutedBefore(i)' = MutedBefore(i)
         /\ \A i \in DOMAIN file : Wanted(file[i])' = Wanted(file[i])
<1>1. /\ DOMAIN file = 1..Len(file) /\ Len(file) \in Nat
      /\ DOMAIN file \subseteq DOMAIN file' /\ \A i \in DOMAIN file : file'[i] = file[i]
  <2>1. DOMAIN file = 1..Len(file) /\ Len(file) \in Nat
    BY DEF ParserType
  <2>2. CASE file' = file
    BY <2>1, <2>2
  <2>3. ASSUME NEW kinds, NEW g \in Unread(kinds), file' = Append(file, g)
        PROVE  DOMAIN file \subseteq DOMAIN file' /\ \A i \in DOMAIN file : file'[i] = file[i]
    <3>1. DOMAIN Append(file, g) = 1..(Len(file) + 1) /\ \A i \in 1..Len(file) : Append(file, g)[i] = file[i]
      BY UnreadIs DEF ParserType
    <3>2. QED BY <2>1, <2>3, <3>1
  <2>4. QED BY <2>1, <2>2, <2>3 DEF FileGrows
<1>2. ASSUME NEW i \in DOMAIN file PROVE MutedBefore(i)' = MutedBefore(i)
  <2>1. \A j \in 1..(i - 1) : j \in DOMAIN file
    BY <1>1
  <2>2. \A j \in 1..(i - 1) : file'[j] = file[j]
    BY <1>1, <2>1
  <2>3. QED BY <2>2 DEF MutedBefore
<1>3. ASSUME NEW i \in DOMAIN file PROVE Wanted(file[i])' = Wanted(file[i])
  BY <1>1 DEF Wanted, global_gpu_id
<1>4. QED BY <1>1, <1>2, <1>3

\* Nor does the slot of one that is enabled, if the slots taken are left alone.
LEMMA SlotStays ==
  ASSUME ParserType, FileGrows, NEW k \in Slotted, config.num[k] = Cardinality(EnabledOf(k)),
         \A n \in 1..config.num[k] : config'.slots[k][n] = config.slots[k][n],
         NEW i \in EnabledOf(k)
  PROVE  i \in DOMAIN file /\ SlotOf(k, i)' = SlotOf(k, i) /\ Rank(k, i)' = Rank(k, i)
<1>1. Rank(k, i) \in 1..config.num[k]
  BY EnabledFinite DEF ParserType
<1>2. Rank(k, i)' = Rank(k, i)
  <2>1. CASE file' = file
    BY <2>1 DEF Rank, EnabledOf, Enabled
  <2>2. QED BY <2>1, EnabledMore DEF FileGrows
<1>3. SlotOf(k, i)' = config'.slots[k][Rank(k, i)]
  BY <1>2 DEF SlotOf, Rank
<1>4. SlotOf(k, i)' = SlotOf(k, i)
  BY <1>1, <1>3, SlotOfIs
<1>5. QED BY <1>2, <1>4 DEF EnabledOf

\* So that what is served stays served.
LEMMA ServedStays ==
  ASSUME ParserType, FileGrows, NEW k \in Slotted, config.num[k] = Cardinality(EnabledOf(k)),
         \A n \in 1..config.num[k] : config'.slots[k][n] = config.slots[k][n],
         config'.single["application"] = config.single["application"],
         NEW i \in EnabledOf(k)
  PROVE  /\ GpuServed(k, i) => GpuServed(k, i)'
         /\ SourceIs(file[i], SlotOf(k, i)) => SourceIs(file'[i], SlotOf(k, i)')
<1>1. i \in DOMAIN file /\ SlotOf(k, i)' = SlotOf(k, i)
  BY SlotStays
<1>2. file'[i] = file[i] /\ MutedBefore(i)' = MutedBefore(i) /\ Wanted(file[i])' = Wanted(file[i])
  BY <1>1, GroupsStay
<1>3. GpuServed(k, i) => GpuServed(k, i)'
  <2> DEFINE w == Wanted(file[i])
             s == SlotOf(k, i)
             m == MutedBefore(i)
  <2>1. w' = w /\ s' = s /\ m' = m
    BY <1>1, <1>2
  <2>2. GpuServed(k, i) <=> ((w # NoGpu /\ (k = "sink" => ~m)) => s.gpu_id = w)
    BY DEF GpuServed
  <2>3. GpuServed(k, i)' <=> ((w' # NoGpu /\ (k = "sink" => ~m')) => s'.gpu_id = w')
    BY DEF GpuServed
  <2> HIDE DEF w, s, m
  <2>4. QED BY <2>1, <2>2, <2>3
<1>4. SourceIs(file[i], SlotOf(k, i)) => SourceIs(file'[i], SlotOf(k, i)')
  BY <1>1, <1>2
<1>5. QED BY <1>3, <1>4

\* An enabled group more takes the place behind the others.
LEMMA SlotTaken ==
  ASSUME ParserType, NEW k \in Slotted, config.num[k] = Cardinality(EnabledOf(k)),
         NEW kinds, NEW g \in Unread(kinds), file' = Append(file, g), g.kind = k, Enabled(g),
         NEW last, last = Len(file) + 1
  PROVE  /\ file'[last] = g /\ EnabledOf(k)' = EnabledOf(k) \cup {last} /\ last \notin EnabledOf(k)
         /\ Cardinality(EnabledOf(k)') = config.num[k] + 1
         /\ Rank(k, last)' = config.num[k] + 1
         /\ SlotOf(k, last)' = config'.slots[k][config.num[k] + 1]
         /\ (MutedBefore(last)' <=> StaleError)
<1>0. Len(file) \in Nat /\ file'[last] = g /\ DOMAIN file = 1..Len(file) /\ \A i \in 1..Len(file) : file'[i] = file[i]
  BY UnreadIs DEF ParserType
<1>1. EnabledOf(k)' = EnabledOf(k) \cup {last} /\ EnabledOf(k) \subseteq 1..Len(file) /\ IsFiniteSet(EnabledOf(k))
  BY EnabledMore, EnabledFinite DEF ParserType
<1>2. last \notin EnabledOf(k)
  BY <1>0, <1>1
<1>3. Cardinality(EnabledOf(k)') = config.num[k] + 1
  <2>1. Cardinality(EnabledOf(k) \cup {last}) = Cardinality(EnabledOf(k)) + 1
    BY <1>1, <1>2, FS_AddElement, Zenon
  <2>2. QED BY <1>1, <2>1
<1>4. {j \in EnabledOf(k)' : j <= last} = EnabledOf(k)'
  BY <1>0, <1>1
<1>5. Rank(k, last)' = config.num[k] + 1
  BY <1>3, <1>4 DEF Rank
<1>6. SlotOf(k, last)' = config'.slots[k][config.num[k] + 1]
  BY <1>3, <1>4 DEF SlotOf
<1>7. MutedBefore(last)' <=> StaleError
  <2>1. 1..(last - 1) = DOMAIN file
    BY <1>0
  <2>2. MutedBefore(last)' <=> \E j \in 1..(last - 1) : file'[j].kind = "sink" /\ "enable" \notin DOMAIN file'[j].keys
    BY DEF MutedBefore
  <2>3. StaleError <=> \E j \in DOMAIN file : file[j].kind = "sink" /\ "enable" \notin DOMAIN file[j].keys
    BY DEF StaleError
  <2>4. QED BY <1>0, <2>1, <2>2, <2>3
<1>8. QED BY <1>0, <1>1, <1>2, <1>3, <1>5, <1>6, <1>7

\* What is read into a source: its keys, and never less than one source.
SourceRead(g, c) == IF "num_sources" \in DOMAIN g.keys THEN AtLeastOne(Put(g, c)) ELSE Put(g, c)

\* Both files read a source the same way.
LEMMA SourceReadIs ==
  ASSUME NEW g \in Groups, g.kind = "source", NEW c
  PROVE  ParseIni(g, c).component = SourceRead(g, c) /\ ParseYaml(g, c).component = SourceRead(g, c)
<1> DEFINE out == IniOutcome(g)
           yout == YamlOutcome(g)
           got == SourceRead(g, c)
<1>1. ParseIni(g, c) = Parsed(out, got)
  <2>1. ParseIni(g, c) = parse_source(g, c)
    BY DEF ParseIni
  <2>2. QED BY <2>1, Zenon DEF parse_source, SourceRead
<1>2. ParseYaml(g, c) = Parsed(yout, got)
  <2>1. ParseYaml(g, c) = parse_source_yaml(g, c)
    BY DEF ParseYaml
  <2>2. QED BY <2>1, Zenon DEF parse_source_yaml, SourceRead
<1> HIDE DEF out, yout, got
<1>3. ParseIni(g, c).component = got /\ ParseYaml(g, c).component = got
  BY <1>1, <1>2 DEF Parsed
<1>4. QED BY <1>3 DEF got

\* The members of what is put over a component.
LEMMA PutIs ==
  ASSUME NEW g, NEW c
  PROVE  /\ DOMAIN Put(g, c) = DOMAIN g.keys \cup DOMAIN c
         /\ \A f \in DOMAIN g.keys : Put(g, c)[f] = g.keys[f]
         /\ \A f \in DOMAIN c \ DOMAIN g.keys : Put(g, c)[f] = c[f]
BY DEF Put, Overlaid

\* What the last touches leave as it is.
LEMMA TouchedIs ==
  ASSUME NEW c
  PROVE  /\ DOMAIN AtLeastOne(c) = DOMAIN c /\ DOMAIN [c EXCEPT !.is_parsed = TRUE] = DOMAIN c
         /\ \A f \in DOMAIN c \ {"num_sources"} : AtLeastOne(c)[f] = c[f]
         /\ \A f \in DOMAIN c \ {"is_parsed"} : [c EXCEPT !.is_parsed = TRUE][f] = c[f]
<1>1. DOMAIN AtLeastOne(c) = DOMAIN c /\ \A f \in DOMAIN c \ {"num_sources"} : AtLeastOne(c)[f] = c[f]
  <2>1. CASE c.num_sources < 1
    BY <2>1 DEF AtLeastOne
  <2>2. CASE ~(c.num_sources < 1)
    BY <2>2 DEF AtLeastOne
  <2>3. QED BY <2>1, <2>2
<1>2. QED BY <1>1

\* The GPU a component has in the end is the one its group wants.
LEMMA GpuPut ==
  ASSUME NEW g, g.kind \in GpuKinds, "gpu_id" \in DOMAIN Target(g), Wanted(g) # NoGpu,
         g.kind = "sink" => Enabled(g) /\ (format = "INI" => ~StaleError)
  PROVE  "gpu_id" \in DOMAIN Put(g, Before(g)) /\ Put(g, Before(g)).gpu_id = Wanted(g)
<1>1. "gpu_id" \in DOMAIN Before(g) /\ (TakesGlobalGpu(g) => Before(g).gpu_id = global_gpu_id)
  BY DEF Before
<1>2. "gpu_id" \in DOMAIN Put(g, Before(g))
  BY <1>1, PutIs
<1>3. CASE "gpu_id" \in DOMAIN g.keys
  <2>1. Put(g, Before(g)).gpu_id = g.keys.gpu_id
    BY <1>3, PutIs
  <2>2. QED BY <1>2, <1>3, <2>1 DEF Wanted
<1>4. CASE "gpu_id" \notin DOMAIN g.keys
  <2>1. Wanted(g) = global_gpu_id
    BY <1>4 DEF Wanted
  <2>2. TakesGlobalGpu(g)
    BY <2>1 DEF TakesGlobalGpu
  <2>3. Put(g, Before(g)).gpu_id = Before(g).gpu_id
    <3>1. "gpu_id" \in DOMAIN Before(g) \ DOMAIN g.keys
      BY <1>1, <1>4
    <3> DEFINE b == Before(g)
               p == Put(g, b)
    <3>2. \A f \in DOMAIN b \ DOMAIN g.keys : p[f] = b[f]
      BY PutIs
    <3> HIDE DEF b, p
    <3>3. p["gpu_id"] = b["gpu_id"]
      BY <3>1, <3>2 DEF b
    <3>4. QED BY <3>3 DEF p, b
  <2>4. QED BY <1>1, <1>2, <2>1, <2>2, <2>3
<1>5. QED BY <1>3, <1>4

\* An enabled source is what its group says, over a slot that is free.
LEMMA SourcePut ==
  ASSUME NEW g \in Groups, g.kind = "source", SourceTyped(Target(g)),
         Target(g).enable = FALSE, Target(g).part = NoGpu,
         NEW s, s = SourceRead(g, Before(g))
  PROVE  /\ s.enable = Enabled(g) /\ s.part = NoGpu
         /\ Enabled(g) => SourceIs(g, s) /\ (Wanted(g) # NoGpu => s.gpu_id = Wanted(g))
<1> DEFINE b == Before(g)
           c == Put(g, b)
<1>1. {"enable", "part", "uri", "type", "num_sources", "gpu_id"} \subseteq DOMAIN Target(g)
  BY DEF SourceTyped, Source
<1>2. DOMAIN b = DOMAIN Target(g) /\ \A f \in DOMAIN b \ {"gpu_id"} : b[f] = Target(g)[f]
  BY DEF Before
<1> HIDE DEF b
<1>3. DOMAIN c = DOMAIN g.keys \cup DOMAIN b
      /\ (\A f \in DOMAIN g.keys : c[f] = g.keys[f]) /\ \A f \in DOMAIN b \ DOMAIN g.keys : c[f] = b[f]
  BY PutIs
<1>4. Wanted(g) # NoGpu => c.gpu_id = Wanted(g)
  BY <1>1, GpuPut DEF b, GpuKinds
<1> HIDE DEF c
<1>5. s = IF "num_sources" \in DOMAIN g.keys THEN AtLeastOne(c) ELSE c
  BY Zenon DEF SourceRead, b, c
<1>6. DOMAIN s = DOMAIN c /\ \A f \in DOMAIN c \ {"num_sources"} : s[f] = c[f]
  <2>1. DOMAIN AtLeastOne(c) = DOMAIN c /\ \A f \in DOMAIN c \ {"num_sources"} : AtLeastOne(c)[f] = c[f]
    BY TouchedIs
  <2>2. s = AtLeastOne(c) \/ s = c
    BY <1>5
  <2>3. QED BY <2>1, <2>2
<1>7. "enable" \in DOMAIN c /\ "part" \in DOMAIN c /\ "uri" \in DOMAIN c /\ "type" \in DOMAIN c
      /\ "num_sources" \in DOMAIN c /\ "gpu_id" \in DOMAIN c
  BY <1>1, <1>2, <1>3
<1>8. c.enable = Enabled(g)
  <2>1. CASE "enable" \in DOMAIN g.keys
    <3>1. c.enable = g.keys.enable /\ g.keys.enable \in BOOLEAN
      BY <1>3, <2>1, GroupsAssumption
    <3>2. QED BY <2>1, <3>1 DEF Enabled
  <2>2. CASE "enable" \notin DOMAIN g.keys
    <3>1. c.enable = FALSE
      BY <1>1, <1>2, <1>3, <2>2
    <3>2. Enabled(g) = FALSE
      BY <2>2 DEF Enabled
    <3>3. QED BY <3>1, <3>2
  <2>3. QED BY <2>1, <2>2
<1>9. c.part = NoGpu
  <2>1. "part" \notin DOMAIN g.keys
    BY GroupsAssumption
  <2>2. QED BY <1>1, <1>2, <1>3, <2>1
<1>10. s.enable = Enabled(g) /\ s.part = NoGpu /\ (Wanted(g) # NoGpu => s.gpu_id = Wanted(g))
  BY <1>4, <1>6, <1>7, <1>8, <1>9
<1>11. /\ "uri" \in DOMAIN g.keys => s.uri = g.keys.uri
       /\ "type" \in DOMAIN g.keys => s.type = g.keys.type
  BY <1>3, <1>6, <1>7
<1>12. ASSUME "num_sources" \in DOMAIN g.keys PROVE Max1(s.num_sources) = Max1(g.keys.num_sources)
  <2>1. c.num_sources = g.keys.num_sources /\ c.num_sources \in Int
    BY <1>3, <1>12, GroupsAssumption
  <2>2. s = IF c.num_sources < 1 THEN [c EXCEPT !.num_sources = 1] ELSE c
    BY <1>5, <1>12 DEF AtLeastOne
  <2>3. s.num_sources = IF c.num_sources < 1 THEN 1 ELSE c.num_sources
    BY <1>7, <2>2
  <2>4. QED BY <2>1, <2>3 DEF Max1
<1>13. ASSUME Enabled(g) PROVE SourceIs(g, s)
  <2>1. s.enable = TRUE
    BY <1>10, <1>13 DEF Enabled
  <2>2. QED BY <1>10, <1>11, <1>12, <2>1 DEF SourceIs
<1>14. QED BY <1>10, <1>13

\* No source is counted: those there are stay, the free slots stay free.
LEMMA SourcesKept ==
  ASSUME ParserType, ConfigTyped(config), SourcesInv, FileGrows, EnabledOf("source")' = EnabledOf("source"),
         config'.single["application"] = config.single["application"],
         config'.num["source"] = config.num["source"],
         \A n \in 1..MaxSlots["source"] :
           \/ config'.slots["source"][n] = config.slots["source"][n]
           \/ /\ n = config.num["source"] + 1
              /\ config'.slots["source"][n].enable = FALSE /\ config'.slots["source"][n].part = NoGpu
  PROVE  SourcesInv'
<1> DEFINE E == EnabledOf("source")
           n0 == config.num["source"]
<1>0. n0 \in 0..MaxSlots["source"] /\ MaxSlots["source"] \in Nat /\ n0 = Cardinality(E) /\ "source" \in Slotted
  BY MaxSlotsAssumption DEF ConfigTyped, SlotKinds, SourcesInv, Slotted
<1>1. \A n \in 1..n0 : config'.slots["source"][n] = config.slots["source"][n]
  BY <1>0
<1>2. \A i \in E : /\ Rank("source", i)' = Rank("source", i)
                   /\ GpuServed("source", i) => GpuServed("source", i)'
                   /\ SourceIs(file[i], SlotOf("source", i)) => SourceIs(file'[i], SlotOf("source", i)')
  BY <1>0, <1>1, SlotStays, ServedStays
<1>3. config'.num["source"] = Cardinality(E')
  BY <1>0
<1>4. \A r \in 1..config'.num["source"] : \E i \in E' : Rank("source", i)' = r
  <2> SUFFICES ASSUME NEW r \in 1..n0 PROVE \E i \in E : Rank("source", i)' = r
    OBVIOUS
  <2>1. PICK i \in E : Rank("source", i) = r
    BY DEF SourcesInv
  <2>2. QED BY <1>2, <2>1
<1>5. \A i \in E' : SourceIs(file'[i], SlotOf("source", i)') /\ GpuServed("source", i)'
  BY <1>2 DEF SourcesInv
<1>6. \A n \in (config'.num["source"] + 1)..MaxSlots["source"] :
         config'.slots["source"][n].enable = FALSE /\ config'.slots["source"][n].part = NoGpu
  <2> SUFFICES ASSUME NEW n \in (n0 + 1)..MaxSlots["source"]
               PROVE  config'.slots["source"][n].enable = FALSE /\ config'.slots["source"][n].part = NoGpu
    OBVIOUS
  <2>1. n \in 1..MaxSlots["source"]
    BY <1>0
  <2>2. config.slots["source"][n].enable = FALSE /\ config.slots["source"][n].part = NoGpu
    BY DEF SourcesInv
  <2>3. QED BY <2>1, <2>2
<1>7. QED BY <1>3, <1>4, <1>5, <1>6 DEF SourcesInv

\* An enabled one takes the first free slot.
LEMMA SourcesMore ==
  ASSUME ParserType, ConfigTyped(config), SourcesInv,
         NEW kinds, NEW g \in Unread(kinds), file' = Append(file, g), g.kind = "source", Enabled(g),
         NEW c, SourceIs(g, c), Wanted(g) # NoGpu => c.gpu_id = Wanted(g),
         config'.single["application"] = config.single["application"],
         config'.num["source"] = config.num["source"] + 1,
         \A n \in 1..MaxSlots["source"] :
           config'.slots["source"][n] = IF n = config.num["source"] + 1 THEN c ELSE config.slots["source"][n],
         config.num["source"] + 1 \in 1..MaxSlots["source"]
  PROVE  SourcesInv'
<1> DEFINE E == EnabledOf("source")
           n0 == config.num["source"]
<1>0. n0 \in 0..MaxSlots["source"] /\ MaxSlots["source"] \in Nat /\ n0 = Cardinality(E) /\ "source" \in Slotted
  BY MaxSlotsAssumption DEF ConfigTyped, SlotKinds, SourcesInv, Slotted
<1>1. FileGrows
  BY DEF FileGrows
<1>2. \A n \in 1..n0 : config'.slots["source"][n] = config.slots["source"][n]
  BY <1>0
<1>3. \A i \in E : /\ Rank("source", i)' = Rank("source", i)
                   /\ GpuServed("source", i) => GpuServed("source", i)'
                   /\ SourceIs(file[i], SlotOf("source", i)) => SourceIs(file'[i], SlotOf("source", i)')
  BY <1>0, <1>1, <1>2, SlotStays, ServedStays
<1>4. PICK last : last = Len(file) + 1
  OBVIOUS
<1>5. /\ file'[last] = g /\ E' = E \cup {last}
      /\ Cardinality(E') = n0 + 1
      /\ Rank("source", last)' = n0 + 1
      /\ SlotOf("source", last)' = config'.slots["source"][n0 + 1]
  BY <1>0, <1>4, SlotTaken
<1>6. SlotOf("source", last)' = c
  BY <1>5
<1>7. Wanted(g)' = Wanted(g)
  BY DEF Wanted, global_gpu_id
<1>8. SourceIs(file'[last], SlotOf("source", last)')
  BY <1>5, <1>6
<1>9. GpuServed("source", last)'
  <2> DEFINE w == Wanted(file[last])
             s == SlotOf("source", last)
  <2>1. w' = Wanted(g) /\ s' = c
    BY <1>5, <1>6, <1>7 DEF Wanted, global_gpu_id
  <2>2. (w' # NoGpu => s'.gpu_id = w') => GpuServed("source", last)'
    BY DEF GpuServed
  <2> HIDE DEF w, s
  <2>3. QED BY <2>1, <2>2
<1>10. config'.num["source"] = Cardinality(E')
  BY <1>5
<1>11. \A r \in 1..config'.num["source"] : \E i \in E' : Rank("source", i)' = r
  <2> SUFFICES ASSUME NEW r \in 1..(n0 + 1) PROVE \E i \in E' : Rank("source", i)' = r
    OBVIOUS
  <2>1. CASE r = n0 + 1
    BY <1>5, <2>1
  <2>2. CASE r \in 1..n0
    <3>1. PICK i \in E : Rank("source", i) = r
      BY <2>2 DEF SourcesInv
    <3>2. QED BY <1>3, <1>5, <3>1
  <2>3. QED BY <1>0, <2>1, <2>2
<1>12. \A i \in E' : SourceIs(file'[i], SlotOf("source", i)') /\ GpuServed("source", i)'
  <2> SUFFICES ASSUME NEW i \in E' PROVE SourceIs(file'[i], SlotOf("source", i)') /\ GpuServed("source", i)'
    OBVIOUS
  <2>1. CASE i = last
    BY <1>8, <1>9, <2>1
  <2>2. CASE i \in E
    <3>1. SourceIs(file[i], SlotOf("source", i)) /\ GpuServed("source", i)
      BY <2>2 DEF SourcesInv
    <3>2. QED BY <1>3, <2>2, <3>1
  <2>3. QED BY <1>5, <2>1, <2>2
<1>13. \A n \in (config'.num["source"] + 1)..MaxSlots["source"] :
         config'.slots["source"][n].enable = FALSE /\ config'.slots["source"][n].part = NoGpu
  <2> SUFFICES ASSUME NEW n \in (config'.num["source"] + 1)..MaxSlots["source"]
               PROVE  config'.slots["source"][n].enable = FALSE /\ config'.slots["source"][n].part = NoGpu
    OBVIOUS
  <2>1. n \in 1..MaxSlots["source"] /\ n # n0 + 1 /\ n \in (n0 + 1)..MaxSlots["source"]
    BY <1>0
  <2>2. config.slots["source"][n].enable = FALSE /\ config.slots["source"][n].part = NoGpu
    BY <2>1 DEF SourcesInv
  <2>3. QED BY <2>1, <2>2
<1>14. QED BY <1>10, <1>11, <1>12, <1>13 DEF SourcesInv

\* A source that is met.
LEMMA SourcesMet ==
  ASSUME ParserType, ConfigTyped(config), SourcesInv,
         NEW kinds, NEW g \in Unread(kinds), file' = Append(file, g), g.kind = "source", ~Full(g),
         NEW c, c = SourceRead(g, Before(g)), config' = Stored(g, c)
  PROVE  SourcesInv'
<1>0. g \in Groups /\ "source" \in SlotKinds /\ Shaped(config)
      /\ config.num["source"] \in 0..MaxSlots["source"] /\ MaxSlots["source"] \in Nat
  BY UnreadIs, MaxSlotsAssumption DEF ParserType, SlotKinds, ConfigTyped
<1>1. config.num["source"] + 1 \in 1..MaxSlots["source"]
  BY <1>0 DEF Full
<1>2. Target(g) = config.slots["source"][config.num["source"] + 1]
  BY <1>0 DEF Target
<1>3. SourceTyped(Target(g)) /\ Target(g).enable = FALSE /\ Target(g).part = NoGpu
  <2>1. SourceTyped(Target(g))
    BY <1>1, <1>2 DEF ConfigTyped, SourcesTyped
  <2>2. config.num["source"] + 1 \in (config.num["source"] + 1)..MaxSlots["source"]
    BY <1>0, <1>1
  <2>3. QED BY <1>2, <2>1, <2>2 DEF SourcesInv
<1>4. /\ c.enable = Enabled(g) /\ c.part = NoGpu
      /\ Enabled(g) => SourceIs(g, c) /\ (Wanted(g) # NoGpu => c.gpu_id = Wanted(g))
  BY <1>0, <1>3, SourcePut
<1>5. /\ config'.single = config.single
      /\ c.enable => config'.num["source"] = config.num["source"] + 1
      /\ ~c.enable => config'.num["source"] = config.num["source"]
      /\ \A n \in 1..MaxSlots["source"] :
           config'.slots["source"][n] = IF n = config.num["source"] + 1 THEN c ELSE config.slots["source"][n]
  <2>1. SlotStored(Stored(g, c), g, c)
    BY <1>0, StoredInSlot
  <2>2. QED BY <1>0, <2>1 DEF SlotStored
<1>6. CASE Enabled(g)
  BY <1>1, <1>4, <1>5, <1>6, SourcesMore
<1>7. CASE ~Enabled(g)
  <2>1. EnabledOf("source")' = EnabledOf("source") /\ FileGrows
    BY <1>7, EnabledMore DEF FileGrows
  <2>2. c.enable = FALSE /\ c.part = NoGpu
    BY <1>4, <1>7
  <2>3. QED BY <1>5, <2>1, <2>2, SourcesKept
<1>8. QED BY <1>6, <1>7

-----------------------------------------------------------------------------
\* A step that meets no group with a GPU and touches none.
LEMMA GpuKept ==
  ASSUME ParserType, SlotsInv, GpuInv, result = "pending", format' = format,
         \/ file' = file
         \/ \E kinds : \E g \in Unread(kinds) : file' = Append(file, g) /\ g.kind \notin SlotNumbered \cup AloneKinds,
         \A k \in SlotNumbered : \A n \in 1..config.num[k] : config'.slots[k][n] = config.slots[k][n],
         \A k \in AloneKinds \cup {"application"} : config'.single[k] = config.single[k]
  PROVE  GpuInv'
<1>0. FileGrows /\ SlotNumbered \subseteq Slotted
  BY DEF FileGrows, SlotNumbered, Slotted
<1>1. ASSUME NEW k \in SlotNumbered, (format = "INI" \/ Says({k}))', NEW i \in EnabledOf(k)'
      PROVE  GpuServed(k, i)'
  <2>1. EnabledOf(k)' = EnabledOf(k) /\ (Says({k})' => Says({k}))
    <3>1. CASE file' = file
      BY <3>1 DEF EnabledOf, Enabled, Says
    <3>2. ASSUME NEW kinds, NEW g \in Unread(kinds), file' = Append(file, g), g.kind \notin SlotNumbered
          PROVE  EnabledOf(k)' = EnabledOf(k) /\ (Says({k})' => Says({k}))
      <4>1. g.kind # k
        BY <3>2
      <4>2. QED BY <3>2, <4>1, EnabledMore
    <3>3. QED BY <3>1, <3>2
  <2>2. format = "INI" \/ Says({k})
    BY <1>1, <2>1
  <2>3. config.num[k] = Cardinality(EnabledOf(k))
    BY <2>2 DEF SlotsInv, Matches
  <2>4. GpuServed(k, i)
    BY <1>1, <2>1, <2>2 DEF GpuInv
  <2>5. i \in EnabledOf(k) /\ k \in Slotted
    BY <1>0, <1>1, <2>1
  <2>6. QED BY <1>0, <2>3, <2>4, <2>5, ServedStays
<1>2. \A k \in AloneKinds : "gpu_id" \in DOMAIN config'.single[k]
  BY DEF GpuInv
<1>3. ASSUME NEW i \in DOMAIN file' PROVE AloneServed(i)'
  <2>1. CASE i \in DOMAIN file
    <3>1. AloneServed(i)
      BY <2>1 DEF GpuInv
    <3>2. file'[i] = file[i] /\ Wanted(file[i])' = Wanted(file[i])
      BY <1>0, <2>1, GroupsStay
    <3>3. QED BY <3>1, <3>2 DEF AloneServed, Enabled
  <2>2. CASE i \notin DOMAIN file
    <3>1. PICK kinds : \E g \in Unread(kinds) : file' = Append(file, g) /\ g.kind \notin SlotNumbered \cup AloneKinds
      BY <1>3, <2>2
    <3>2. PICK g \in Unread(kinds) : file' = Append(file, g) /\ g.kind \notin SlotNumbered \cup AloneKinds
      BY <3>1
    <3>3. file'[i] = g
      BY <1>3, <2>2, <3>2, UnreadIs DEF ParserType
    <3>4. QED BY <3>2, <3>3 DEF AloneServed
  <2>3. QED BY <2>1, <2>2
<1>4. QED BY <1>1, <1>2, <1>3 DEF GpuInv

\* An engine or a sink that is met.
LEMMA GpuMetSlot ==
  ASSUME ParserType, SlotsInv, GpuInv, result = "pending", format' = format,
         NEW kinds, NEW g \in Unread(kinds), file' = Append(file, g), g.kind \in SlotNumbered, ~Full(g),
         NEW c, config' = Stored(g, c),
         format = "INI" \/ "enable" \in DOMAIN g.keys =>
           /\ Enabled(g) => c = Put(g, Before(g))
           /\ ~Enabled(g) => c = Before(g)
  PROVE  GpuInv'
<1>0. FileGrows /\ SlotNumbered \subseteq Slotted \cap SlotKinds /\ SlotNumbered \subseteq GpuKinds
      /\ g \in Groups /\ ConfigTyped(config) /\ Shaped(config)
  BY UnreadIs DEF FileGrows, SlotNumbered, Slotted, SlotKinds, GpuKinds, ParserType, ConfigTyped
<1>1. /\ config'.single = config.single
      /\ \A k \in SlotKinds : \A n \in 1..MaxSlots[k] :
           config'.slots[k][n] = IF k = g.kind /\ n = config.num[k] + 1 THEN c ELSE config.slots[k][n]
  <2>1. config.num[g.kind] \in 0..MaxSlots[g.kind]
    BY <1>0 DEF ConfigTyped
  <2>2. SlotStored(Stored(g, c), g, c)
    BY <1>0, <2>1, StoredInSlot
  <2>3. QED BY <2>2 DEF SlotStored
<1>2. ASSUME NEW k \in SlotNumbered, (format = "INI" \/ Says({k}))', NEW i \in EnabledOf(k)'
      PROVE  GpuServed(k, i)'
  <2>0. /\ k \in SlotKinds /\ k \in Slotted /\ config.num[k] \in 0..MaxSlots[k] /\ MaxSlots[k] \in Nat
        /\ "gpu_id" \in DOMAIN Default[k]
    BY <1>0, DefaultsOff, MaxSlotsAssumption DEF ConfigTyped
  <2>1. format = "INI" \/ Says({k})
    BY <1>2, EnabledMore
  <2>2. g.kind = k => format = "INI" \/ "enable" \in DOMAIN g.keys
    BY <1>2, EnabledMore
  <2>3. Matches(k)
    BY <2>1 DEF SlotsInv
  <2>4. config.num[k] = Cardinality(EnabledOf(k))
    BY <2>3 DEF Matches
  <2>5. \A n \in 1..config.num[k] : config'.slots[k][n] = config.slots[k][n]
    BY <1>1, <2>0
  <2>6. CASE i \in EnabledOf(k)
    <3>1. GpuServed(k, i)
      BY <2>1, <2>6 DEF GpuInv
    <3>2. QED BY <1>0, <1>1, <2>0, <2>4, <2>5, <2>6, <3>1, ServedStays
  <2>7. CASE i \notin EnabledOf(k)
    <3>1. g.kind = k /\ Enabled(g)
      BY <1>2, <2>7, EnabledMore
    <3>2. PICK last : last = Len(file) + 1
      OBVIOUS
    <3>3. /\ file'[last] = g /\ EnabledOf(k)' = EnabledOf(k) \cup {last}
          /\ SlotOf(k, last)' = config'.slots[k][config.num[k] + 1]
          /\ MutedBefore(last)' <=> StaleError
      BY <2>0, <2>4, <3>1, <3>2, SlotTaken
    <3>4. i = last
      BY <1>2, <2>7, <3>3
    <3>5. config.num[k] + 1 \in 1..MaxSlots[k]
      BY <2>0, <3>1 DEF Full
    <3>6. SlotOf(k, last)' = c
      BY <1>1, <2>0, <3>1, <3>3, <3>5
    <3>7. c = Put(g, Before(g))
      BY <2>2, <3>1
    <3>8. "gpu_id" \in DOMAIN Target(g)
      <4>1. Target(g) = config.slots[k][config.num[k] + 1]
        BY <2>0, <3>1 DEF Target
      <4>2. config.num[k] + 1 \in (config.num[k] + 1)..MaxSlots[k]
        BY <2>0, <3>5
      <4>3. Alike(Target(g), Default[k])
        BY <2>3, <4>1, <4>2 DEF Matches
      <4>4. DOMAIN Target(g) = DOMAIN Default[k]
        BY <4>3, AlikeIs
      <4>5. QED BY <2>0, <4>4
    <3>9. Wanted(g)' = Wanted(g)
      BY <1>1 DEF Wanted, global_gpu_id
    <3>10. ASSUME Wanted(g) # NoGpu, k = "sink" => ~StaleError PROVE c.gpu_id = Wanted(g)
      <4>1. g.kind \in GpuKinds /\ (g.kind = "sink" => Enabled(g) /\ (format = "INI" => ~StaleError))
        BY <1>0, <3>1, <3>10
      <4>2. QED BY <3>7, <3>8, <3>10, <4>1, GpuPut
    <3>11. QED
      <4> DEFINE w == Wanted(file[last])
                 s == SlotOf(k, last)
                 m == MutedBefore(last)
      <4>1. w' = Wanted(g) /\ s' = c /\ (m' <=> StaleError)
        BY <3>3, <3>6, <3>9 DEF Wanted, global_gpu_id
      <4>2. ((w' # NoGpu /\ (k = "sink" => ~m')) => s'.gpu_id = w') => GpuServed(k, last)'
        BY DEF GpuServed
      <4> HIDE DEF w, s, m
      <4>3. QED BY <3>4, <3>10, <4>1, <4>2
  <2>8. QED BY <2>6, <2>7
<1>3. \A k \in AloneKinds : "gpu_id" \in DOMAIN config'.single[k]
  BY <1>1 DEF GpuInv
<1>4. ASSUME NEW i \in DOMAIN file' PROVE AloneServed(i)'
  <2>1. CASE i \in DOMAIN file
    <3>1. AloneServed(i)
      BY <2>1 DEF GpuInv
    <3>2. file'[i] = file[i] /\ Wanted(file[i])' = Wanted(file[i])
      BY <1>0, <1>1, <2>1, GroupsStay
    <3>3. QED BY <1>1, <3>1, <3>2 DEF AloneServed, Enabled
  <2>2. CASE i \notin DOMAIN file
    <3>1. file'[i] = g
      BY <1>4, <2>2, UnreadIs DEF ParserType
    <3>2. g.kind \notin AloneKinds
      BY DEF AloneKinds, SlotNumbered
    <3>3. QED BY <3>1, <3>2 DEF AloneServed
  <2>3. QED BY <2>1, <2>2
<1>5. QED BY <1>2, <1>3, <1>4 DEF GpuInv

\* A group that a file has once: no other is read into its component.
LEMMA GpuMetAlone ==
  ASSUME ParserType, SlotsInv, GpuInv, result = "pending", format' = format,
         NEW kinds, NEW g \in Unread(kinds), file' = Append(file, g), g.kind \in AloneKinds,
         NEW c, config' = Stored(g, c),
         IF g.kind = "primary-gie"
         THEN c \in {Before(g), Put(g, Before(g))} /\ (Enabled(g) => c = Put(g, Before(g)))
         ELSE c \in {Put(g, Before(g)), AtLeastOne(Put(g, Before(g))), [Put(g, Before(g)) EXCEPT !.is_parsed = TRUE]}
  PROVE  GpuInv'
<1>0. FileGrows /\ SlotNumbered \subseteq Slotted /\ AloneKinds \subseteq SingleKinds \cap GpuKinds
      /\ g \in Groups /\ ConfigTyped(config) /\ Shaped(config) /\ AloneKinds \cap SlotKinds = {}
      /\ "application" \in SingleKinds /\ "application" \notin AloneKinds
  BY UnreadIs DEF FileGrows, SlotNumbered, Slotted, SlotKinds, AloneKinds, SingleKinds, GpuKinds, ParserType, ConfigTyped
<1>1. /\ \A k \in SingleKinds : config'.single[k] = IF k = g.kind THEN c ELSE config.single[k]
      /\ config'.slots = config.slots
  BY <1>0, StoredAlone
<1>2. Target(g) = config.single[g.kind] /\ "gpu_id" \in DOMAIN Target(g)
  BY <1>0 DEF Target, GpuInv
<1>3. "gpu_id" \in DOMAIN c
  <2> DEFINE b == Before(g)
             p == Put(g, b)
  <2>1. "gpu_id" \in DOMAIN b
    BY <1>2 DEF Before
  <2>2. "gpu_id" \in DOMAIN p
    <3>1. DOMAIN p = DOMAIN g.keys \cup DOMAIN b
      BY PutIs, Zenon
    <3> HIDE DEF b, p
    <3>2. QED BY <2>1, <3>1
  <2> HIDE DEF b, p
  <2>3. "gpu_id" \in DOMAIN AtLeastOne(p) /\ "gpu_id" \in DOMAIN [p EXCEPT !.is_parsed = TRUE]
    BY <2>2, TouchedIs
  <2>4. c \in {b, p, AtLeastOne(p), [p EXCEPT !.is_parsed = TRUE]}
    BY DEF b, p
  <2>5. QED BY <2>1, <2>2, <2>3, <2>4
<1>4. ASSUME Wanted(g) # NoGpu, g.kind = "primary-gie" => Enabled(g) PROVE c.gpu_id = Wanted(g)
  <2> DEFINE p == Put(g, Before(g))
  <2>1. g.kind \in GpuKinds /\ g.kind # "sink"
    BY <1>0 DEF AloneKinds
  <2>2. "gpu_id" \in DOMAIN p /\ p.gpu_id = Wanted(g)
    BY <1>2, <1>4, <2>1, GpuPut
  <2>3. c \in {p, AtLeastOne(p), [p EXCEPT !.is_parsed = TRUE]}
    BY <1>4
  <2> HIDE DEF p
  <2>4. AtLeastOne(p)["gpu_id"] = p["gpu_id"] /\ [p EXCEPT !.is_parsed = TRUE]["gpu_id"] = p["gpu_id"]
    BY <2>2, TouchedIs
  <2>5. QED BY <2>2, <2>3, <2>4
<1>5. ASSUME NEW k \in SlotNumbered, (format = "INI" \/ Says({k}))', NEW i \in EnabledOf(k)'
      PROVE  GpuServed(k, i)'
  <2>1. g.kind # k
    BY DEF AloneKinds, SlotNumbered
  <2>2. EnabledOf(k)' = EnabledOf(k) /\ (format = "INI" \/ Says({k}))
    BY <1>5, <2>1, EnabledMore
  <2>3. config.num[k] = Cardinality(EnabledOf(k))
    BY <2>2 DEF SlotsInv, Matches
  <2>4. GpuServed(k, i)
    BY <1>5, <2>2 DEF GpuInv
  <2>5. i \in EnabledOf(k) /\ k \in Slotted /\ config'.single["application"] = config.single["application"]
    BY <1>0, <1>1, <1>5, <2>2
  <2>6. \A n \in 1..config.num[k] : config'.slots[k][n] = config.slots[k][n]
    BY <1>1
  <2>7. QED BY <1>0, <2>3, <2>4, <2>5, <2>6, ServedStays
<1>6. \A k \in AloneKinds : "gpu_id" \in DOMAIN config'.single[k]
  BY <1>0, <1>1, <1>3 DEF GpuInv
<1>7. ASSUME NEW i \in DOMAIN file' PROVE AloneServed(i)'
  <2>0. config'.single["application"] = config.single["application"]
    BY <1>0, <1>1
  <2>1. CASE i \in DOMAIN file
    <3>1. AloneServed(i)
      BY <2>1 DEF GpuInv
    <3>2. file'[i] = file[i] /\ Wanted(file[i])' = Wanted(file[i])
      BY <1>0, <2>0, <2>1, GroupsStay
    <3>3. file[i].kind \in AloneKinds => file[i].kind # g.kind
      <4>1. file[i] \in Groups /\ file[i].name # g.name
        BY <2>1, UnreadIs DEF ParserType
      <4>2. QED BY <1>0, <4>1, GroupsAssumption
    <3>4. file[i].kind \in AloneKinds => config'.single[file[i].kind] = config.single[file[i].kind]
      BY <1>0, <1>1, <3>3
    <3>5. QED BY <3>1, <3>2, <3>4 DEF AloneServed, Enabled
  <2>2. CASE i \notin DOMAIN file
    <3>1. file'[i] = g
      BY <1>7, <2>2, UnreadIs DEF ParserType
    <3>2. Wanted(g)' = Wanted(g)
      BY <2>0 DEF Wanted, global_gpu_id
    <3>3. config'.single[g.kind] = c
      BY <1>0, <1>1
    <3>4. QED BY <1>4, <3>1, <3>2, <3>3 DEF AloneServed, Enabled
  <2>3. QED BY <2>1, <2>2
<1>8. QED BY <1>5, <1>6, <1>7 DEF GpuInv

\* A step that counts and stores no source keeps the sources.
LEMMA SourcesApart ==
  ASSUME ParserType, ConfigTyped(config), SourcesInv,
         \/ file' = file
         \/ \E kinds : \E g \in Unread(kinds) : file' = Append(file, g) /\ g.kind # "source",
         config'.single["application"] = config.single["application"],
         config'.num["source"] = config.num["source"],
         \A n \in 1..MaxSlots["source"] : config'.slots["source"][n] = config.slots["source"][n]
  PROVE  SourcesInv'
<1>1. FileGrows
  BY DEF FileGrows
<1>2. EnabledOf("source")' = EnabledOf("source")
  <2>1. CASE file' = file
    BY <2>1 DEF EnabledOf, Enabled
  <2>2. QED BY <2>1, EnabledMore
<1>3. QED BY <1>1, <1>2, SourcesKept

\* What was read into a component, as far as sources and GPUs go.
Fits(g, c) ==
  /\ g.kind = "source" => c = SourceRead(g, Before(g))
  /\ g.kind \in SlotNumbered /\ (format = "INI" \/ "enable" \in DOMAIN g.keys) =>
       /\ Enabled(g) => c = Put(g, Before(g))
       /\ ~Enabled(g) => c = Before(g)
  /\ g.kind \in AloneKinds =>
       IF g.kind = "primary-gie"
       THEN c \in {Before(g), Put(g, Before(g))} /\ (Enabled(g) => c = Put(g, Before(g)))
       ELSE c \in {Put(g, Before(g)), AtLeastOne(Put(g, Before(g))), [Put(g, Before(g)) EXCEPT !.is_parsed = TRUE]}

\* A group that is met and stored.
LEMMA PlacedMet ==
  ASSUME ParserType, SlotsInv, SourcesInv, GpuInv, result = "pending", format' = format,
         NEW kinds, NEW g \in Unread(kinds), file' = Append(file, g),
         g.kind \in SlotKinds \cup SingleKinds, g.kind # "application", ~Full(g),
         NEW c, config' = Stored(g, c), Fits(g, c)
  PROVE  SourcesInv' /\ GpuInv'
<1>0. /\ g \in Groups /\ ConfigTyped(config) /\ Shaped(config)
      /\ SlotNumbered \subseteq SlotKinds /\ SlotNumbered \cap AloneKinds = {} /\ "source" \notin SlotNumbered
      /\ AloneKinds \cap SlotKinds = {} /\ AloneKinds \cup {"application"} \subseteq SingleKinds /\ "source" \in SlotKinds
      /\ SlotKinds \cap SingleKinds = {}
  BY UnreadIs DEF ParserType, ConfigTyped, SlotNumbered, AloneKinds, SlotKinds, SingleKinds
<1>1. ASSUME g.kind \in SlotKinds
      PROVE  /\ config'.single = config.single
             /\ \A k \in SlotKinds : k # g.kind => config'.num[k] = config.num[k]
             /\ \A k \in SlotKinds : \A n \in 1..MaxSlots[k] :
                  config'.slots[k][n] = IF k = g.kind /\ n = config.num[k] + 1 THEN c ELSE config.slots[k][n]
  <2>1. config.num[g.kind] \in 0..MaxSlots[g.kind]
    BY <1>0, <1>1 DEF ConfigTyped
  <2>2. SlotStored(Stored(g, c), g, c)
    BY <1>0, <1>1, <2>1, StoredInSlot
  <2>3. QED BY <2>2 DEF SlotStored
<1>2. ASSUME g.kind \in SingleKinds
      PROVE  /\ config'.slots = config.slots /\ config'.num = config.num
             /\ \A k \in SingleKinds : config'.single[k] = IF k = g.kind THEN c ELSE config.single[k]
  BY <1>0, <1>2, StoredAlone
<1>3. /\ config'.single["application"] = config.single["application"]
      /\ g.kind # "source" => config'.num["source"] = config.num["source"]
      /\ g.kind # "source" => \A n \in 1..MaxSlots["source"] : config'.slots["source"][n] = config.slots["source"][n]
  <2>1. CASE g.kind \in SlotKinds
    BY <1>0, <1>1, <2>1
  <2>2. CASE g.kind \in SingleKinds
    BY <1>0, <1>2, <2>2
  <2>3. QED BY <2>1, <2>2
<1>4. SourcesInv'
  <2>1. CASE g.kind = "source"
    BY <1>0, <2>1, SourcesMet DEF Fits
  <2>2. CASE g.kind # "source"
    BY <1>0, <1>3, <2>2, SourcesApart
  <2>3. QED BY <2>1, <2>2
<1>5. GpuInv'
  <2>1. CASE g.kind \in SlotNumbered
    BY <2>1, GpuMetSlot DEF Fits
  <2>2. CASE g.kind \in AloneKinds
    BY <2>2, GpuMetAlone DEF Fits
  <2>3. CASE g.kind \notin SlotNumbered \cup AloneKinds
    <3>1. \A k \in SlotNumbered : \A n \in 1..config.num[k] : config'.slots[k][n] = config.slots[k][n]
      <4> SUFFICES ASSUME NEW k \in SlotNumbered, NEW n \in 1..config.num[k]
                   PROVE  config'.slots[k][n] = config.slots[k][n]
        OBVIOUS
      <4>1. k # g.kind /\ k \in SlotKinds /\ n \in 1..MaxSlots[k]
        BY <1>0, <2>3, MaxSlotsAssumption DEF ConfigTyped
      <4>2. CASE g.kind \in SlotKinds
        BY <1>1, <4>1, <4>2
      <4>3. CASE g.kind \in SingleKinds
        BY <1>2, <4>3
      <4>4. QED BY <4>2, <4>3
    <3>2. \A k \in AloneKinds \cup {"application"} : config'.single[k] = config.single[k]
      <4>1. CASE g.kind \in SlotKinds
        BY <1>1, <4>1
      <4>2. CASE g.kind \in SingleKinds
        BY <1>0, <1>2, <2>3, <4>2
      <4>3. QED BY <4>1, <4>2
    <3>3. QED BY <2>3, <3>1, <3>2, GpuKept
  <2>4. QED BY <2>1, <2>2, <2>3
<1>6. QED BY <1>4, <1>5

\* A step that stores nothing at all.
LEMMA PlacedKept ==
  ASSUME ParserType, SlotsInv, SourcesInv, GpuInv, result = "pending", format' = format,
         \/ file' = file
         \/ \E kinds : \E g \in Unread(kinds) :
              file' = Append(file, g) /\ g.kind \notin SlotNumbered \cup AloneKinds \cup {"source"},
         config'.num = config.num,
         \A k \in SlotKinds : \A n \in 1..MaxSlots[k] : config'.slots[k][n] = config.slots[k][n],
         \A k \in SingleKinds \ {"source-attr-all"} : config'.single[k] = config.single[k]
  PROVE  SourcesInv' /\ GpuInv'
<1>0. /\ ConfigTyped(config) /\ SlotNumbered \subseteq SlotKinds /\ "source" \in SlotKinds
      /\ AloneKinds \cup {"application"} \subseteq SingleKinds \ {"source-attr-all"}
  BY DEF ParserType, SlotNumbered, AloneKinds, SlotKinds, SingleKinds
<1>1. \A k \in AloneKinds \cup {"application"} : config'.single[k] = config.single[k]
  BY <1>0
<1>2. SourcesInv'
  <2>1. config'.single["application"] = config.single["application"]
        /\ \A n \in 1..MaxSlots["source"] : config'.slots["source"][n] = config.slots["source"][n]
    BY <1>0, <1>1
  <2>2. \/ file' = file
        \/ \E kinds : \E g \in Unread(kinds) : file' = Append(file, g) /\ g.kind # "source"
    OBVIOUS
  <2>3. QED BY <1>0, <2>1, <2>2, SourcesApart
<1>3. GpuInv'
  <2>1. \A k \in SlotNumbered : \A n \in 1..config.num[k] : config'.slots[k][n] = config.slots[k][n]
    <3> SUFFICES ASSUME NEW k \in SlotNumbered, NEW n \in 1..config.num[k]
                 PROVE  config'.slots[k][n] = config.slots[k][n]
      OBVIOUS
    <3>1. k \in SlotKinds /\ n \in 1..MaxSlots[k]
      BY <1>0, MaxSlotsAssumption DEF ConfigTyped
    <3>2. QED BY <3>1
  <2>2. \/ file' = file
        \/ \E kinds : \E g \in Unread(kinds) : file' = Append(file, g) /\ g.kind \notin SlotNumbered \cup AloneKinds
    OBVIOUS
  <2>3. QED BY <1>1, <2>1, <2>2, GpuKept
<1>4. QED BY <1>2, <1>3

\* No group was met, and every slot is free.
LEMMA PlacedInit == Init => PlacedInv
<1> SUFFICES ASSUME Init PROVE SourcesInv /\ GpuInv
  BY DEF PlacedInv
<1>1. file = <<>> /\ \A k : EnabledOf(k) = {}
  BY DEF Init, EnabledOf
<1>2. config = AppConfig
  BY DEF Init
<1>3. config.num["source"] = 0 /\ \A n \in 1..MaxSlots["source"] : config.slots["source"][n] = Source
  BY <1>2, DefaultSource DEF AppConfig, SlotKinds
<1>4. SourcesInv
  <2>1. Cardinality(EnabledOf("source")) = 0
    BY <1>1, FS_EmptySet
  <2>2. MaxSlots["source"] \in Nat
    BY MaxSlotsAssumption DEF SlotKinds
  <2>3. \A n \in (config.num["source"] + 1)..MaxSlots["source"] : n \in 1..MaxSlots["source"]
    BY <1>3, <2>2
  <2>4. Source.enable = FALSE /\ Source.part = NoGpu
    BY DEF Source
  <2>5. QED BY <1>1, <1>3, <2>1, <2>3, <2>4 DEF SourcesInv
<1>5. \A k \in AloneKinds : "gpu_id" \in DOMAIN config.single[k]
  <2> SUFFICES ASSUME NEW k \in AloneKinds PROVE "gpu_id" \in DOMAIN config.single[k]
    OBVIOUS
  <2>1. k \in SingleKinds /\ config.single[k] = Default[k]
    BY <1>2 DEF AppConfig, AloneKinds, SingleKinds
  <2>2. Default[k] \in {Gie, Element, [gpu_id |-> 0, is_parsed |-> FALSE]}
    BY <2>1 DEF Default, AloneKinds
  <2>3. QED BY <2>1, <2>2 DEF Gie, Element
<1>6. GpuInv
  BY <1>1, <1>5 DEF GpuInv
<1>7. QED BY <1>4, <1>6

\* [application] comes before all others, so that its GPU is known to them.
LEMMA ReadAppPlaced == ParserType /\ SlotsInv /\ PlacedInv /\ ReadApp => PlacedInv'
<1> SUFFICES ASSUME ParserType, SlotsInv, PlacedInv, ReadApp PROVE SourcesInv' /\ GpuInv'
  BY DEF PlacedInv
<1>0. /\ result = "pending" /\ format' = format /\ file = <<>> /\ SourcesInv /\ GpuInv /\ ConfigTyped(config)
  BY DEF ParserType, Stages, ReadApp, PlacedInv
<1>1. CASE UNCHANGED <<file, config, result>>
  <2>1. config' = config /\ file' = file
    BY <1>1
  <2>2. QED BY <1>0, <2>1, PlacedKept
<1>2. CASE ~UNCHANGED <<file, config, result>>
  <2> DEFINE p(g) == IF format = "INI" THEN parse_app(g, Target(g)) ELSE parse_app_yaml(g, Target(g))
  <2>1. PICK g \in Unread({"application"}) : file' = Append(file, g) /\ config' = Stored(g, p(g).component)
    BY <1>2 DEF ReadApp
  <2>2. g \in Groups /\ g.kind = "application" /\ g.kind \in SingleKinds
    BY UnreadIs DEF ParserType, SingleKinds
  <2> HIDE DEF p
  <2>3. /\ config'.slots = config.slots /\ config'.num = config.num
        /\ \A k \in SingleKinds \ {"application"} : config'.single[k] = config.single[k]
    BY <1>0, <2>1, <2>2, StoredAlone DEF ConfigTyped
  <2>4. \A k \in Slotted : EnabledOf(k)' = {} /\ EnabledOf(k) = {}
    <3>1. \A k \in Slotted : EnabledOf(k) = {}
      BY <1>0 DEF EnabledOf
    <3>2. \A k \in Slotted : g.kind # k
      BY <2>2 DEF Slotted
    <3>3. QED BY <2>1, <3>1, <3>2, EnabledMore
  <2>5. SlotNumbered \subseteq Slotted /\ "source" \in Slotted /\ AloneKinds \subseteq SingleKinds \ {"application"}
    BY DEF SlotNumbered, Slotted, AloneKinds, SingleKinds
  <2>6. SourcesInv'
    <3>1. EnabledOf("source") = {} /\ EnabledOf("source")' = {}
      BY <2>4, <2>5
    <3>2. config.num["source"] = 0
      BY <1>0, <3>1, FS_EmptySet DEF SourcesInv
    <3>3. config.num["source"] = Cardinality(EnabledOf("source")')
      BY <1>0, <3>1 DEF SourcesInv
    <3>4. QED BY <1>0, <2>3, <3>1, <3>2, <3>3 DEF SourcesInv
  <2>7. GpuInv'
    <3>1. \A i \in DOMAIN file' : file'[i] = g
      BY <1>0, <2>1
    <3>2. \A i \in DOMAIN file' : AloneServed(i)'
      BY <2>2, <3>1 DEF AloneServed, AloneKinds
    <3>3. \A k \in AloneKinds : "gpu_id" \in DOMAIN config'.single[k]
      BY <1>0, <2>3, <2>5 DEF GpuInv
    <3>4. QED BY <2>4, <2>5, <3>2, <3>3 DEF GpuInv
  <2>8. QED BY <2>6, <2>7
<1>3. QED BY <1>1, <1>2

\* [source-attr-all] gives nothing to a slot.
LEMMA ReadSourceAllPlaced == ParserType /\ SlotsInv /\ PlacedInv /\ ReadSourceAll => PlacedInv'
<1> SUFFICES ASSUME ParserType, SlotsInv, PlacedInv, ReadSourceAll PROVE SourcesInv' /\ GpuInv'
  BY DEF PlacedInv
<1>0. result = "pending" /\ format' = format /\ ConfigTyped(config) /\ SourcesInv /\ GpuInv
  BY DEF ParserType, ReadSourceAll, PlacedInv
<1>1. CASE UNCHANGED <<file, config, removed, result>>
  <2>1. config' = config /\ file' = file
    BY <1>1
  <2>2. QED BY <1>0, <2>1, PlacedKept
<1>2. CASE ~UNCHANGED <<file, config, removed, result>>
  <2> DEFINE p(g) == parse_source_all(g, Before(g))
  <2>1. PICK g \in Unread({"source-attr-all"}) :
          /\ file' = Append(file, g)
          /\ config' = set_source_all_configs([Stored(g, p(g).component) EXCEPT !.source_attr_all_parsed = TRUE])
    BY <1>2 DEF ReadSourceAll
  <2>2. g \in Groups /\ g.kind = "source-attr-all" /\ g.kind \notin SlotNumbered \cup AloneKinds \cup {"source"}
    BY UnreadIs DEF ParserType, SlotNumbered, AloneKinds
  <2> HIDE DEF p
  <2>3. /\ config'.num = config.num
        /\ \A k \in SlotKinds : \A n \in 1..MaxSlots[k] : config'.slots[k][n] = config.slots[k][n]
        /\ \A k \in SingleKinds \ {"source-attr-all"} : config'.single[k] = config.single[k]
    BY <1>0, <2>1, <2>2, SourceAllStored
  <2>4. QED BY <1>0, <2>1, <2>2, <2>3, PlacedKept
<1>3. QED BY <1>1, <1>2

\* The three loops over the groups.
LEMMA GroupsPlaced == ParserType /\ SlotsInv /\ PlacedInv /\ (ReadIniGroup \/ ReadYamlGroup \/ ReadRow) => PlacedInv'
<1>0. SlotNumbered \subseteq EngineKinds /\ "primary-gie" \in EngineKinds /\ "source" \notin EngineKinds
      /\ \A k \in AloneKinds : k # "primary-gie" => k \notin EngineKinds
  BY DEF SlotNumbered, EngineKinds, AloneKinds
<1>1. ASSUME ParserType, SlotsInv, PlacedInv, ReadIniGroup, result' = "pending" PROVE SourcesInv' /\ GpuInv'
  <2> DEFINE p(g) == ParseIni(g, Before(g))
  <2>0. /\ result = "pending" /\ format' = format /\ stage = "groups" /\ SourcesInv /\ GpuInv /\ stage' # "done"
    <3>1. stage' # "done"
      BY <1>1, GroupsTyped DEF ParserType
    <3>2. QED BY <1>1, <3>1 DEF ParserType, ReadIniGroup, PlacedInv
  <2>1. PICK g \in Unread(IniKinds) :
          /\ GroupMet(g, p(g), "groups")
          /\ stage' # "done" => g.kind # "source-csv" /\ ~Full(g) /\ config' = Stored(g, p(g).component)
    BY <1>1, IniGroupMet DEF ReadIniGroup
  <2>2. g \in Groups /\ g.kind \in IniKinds /\ file' = Append(file, g) /\ g.kind # "application"
    BY <1>1, <2>1, UnreadIs DEF ParserType, GroupMet, IniKinds
  <2>3. g.kind \in SlotKinds \cup SingleKinds /\ ~Full(g) /\ config' = Stored(g, p(g).component)
    BY <2>0, <2>1, <2>2, KindsSplit
  <2>4. ReadsWell(p(g), g, Before(g))
        /\ (g.kind \in EngineKinds => /\ Enabled(g) => p(g).component = Put(g, Before(g))
                                      /\ ~Enabled(g) => p(g).component = Before(g))
    BY <2>0, <2>1, <2>2, IniGroupReads
  <2>5. g.kind = "source" => p(g).component = SourceRead(g, Before(g))
    BY <2>2, SourceReadIs
  <2> HIDE DEF p
  <2>6. Fits(g, p(g).component)
    BY <1>0, <2>4, <2>5 DEF Fits, ReadsWell
  <2>7. QED BY <1>1, <2>0, <2>2, <2>3, <2>6, PlacedMet
<1>2. ASSUME ParserType, SlotsInv, PlacedInv, ReadYamlGroup, result' = "pending" PROVE SourcesInv' /\ GpuInv'
  <2> DEFINE p(g) == ParseYaml(g, Before(g))
  <2>0. /\ result = "pending" /\ format' = format /\ stage = "groups" /\ SourcesInv /\ GpuInv /\ stage' # "done"
        /\ format = "YAML"
    <3>1. stage' # "done"
      BY <1>2, GroupsTyped DEF ParserType
    <3>2. QED BY <1>2, <3>1 DEF ParserType, ReadYamlGroup, PlacedInv
  <2>1. PICK g \in Unread(YamlKinds) :
          /\ GroupMet(g, p(g), "groups")
          /\ stage' # "done" => ~Full(g) /\ config' = Stored(g, p(g).component)
    BY <1>2, YamlGroupMet DEF ReadYamlGroup
  <2>2. g \in Groups /\ g.kind \in YamlKinds /\ file' = Append(file, g) /\ g.kind \notin {"application", "source"}
    BY <1>2, <2>1, UnreadIs DEF ParserType, GroupMet, IniKinds, YamlKinds
  <2>3. g.kind \in SlotKinds \cup SingleKinds /\ ~Full(g) /\ config' = Stored(g, p(g).component)
    BY <2>0, <2>1, <2>2, KindsSplit
  <2>4. ReadsWell(p(g), g, Before(g))
        /\ (g.kind \in EngineKinds => /\ Disabled(g) => p(g).component = Before(g)
                                      /\ ~Disabled(g) => p(g).component = Put(g, Before(g)))
    BY <2>2, YamlGroupReads
  <2>5. /\ Enabled(g) => ~Disabled(g)
        /\ "enable" \in DOMAIN g.keys => (Disabled(g) <=> ~Enabled(g))
    BY DEF Disabled, Enabled
  <2> HIDE DEF p
  <2>6. Fits(g, p(g).component)
    BY <1>0, <2>0, <2>2, <2>4, <2>5 DEF Fits, ReadsWell
  <2>7. QED BY <1>2, <2>0, <2>2, <2>3, <2>6, PlacedMet
<1>3. ASSUME ParserType, SlotsInv, PlacedInv, ReadRow, result' = "pending" PROVE SourcesInv' /\ GpuInv'
  <2> DEFINE p(g) == ParseYaml(g, Before(g))
  <2>0. /\ result = "pending" /\ format' = format /\ stage = "rows" /\ SourcesInv /\ GpuInv /\ stage' # "done"
    <3>1. stage' # "done"
      BY <1>3, GroupsTyped DEF ParserType
    <3>2. QED BY <1>3, <3>1 DEF ParserType, ReadRow, PlacedInv
  <2>1. PICK g \in Unread({"source"}) :
          /\ GroupMet(g, p(g), "rows")
          /\ stage' # "done" => ~Full(g) /\ config' = Stored(g, p(g).component)
    BY <1>3, RowMet DEF ReadRow
  <2>2. g \in Groups /\ g.kind = "source" /\ file' = Append(file, g) /\ g.kind \in SlotKinds
        /\ g.kind # "application" /\ g.kind \notin SlotNumbered \cup AloneKinds
    BY <1>3, <2>1, UnreadIs DEF ParserType, GroupMet, SlotKinds, SlotNumbered, AloneKinds
  <2>3. p(g).component = SourceRead(g, Before(g))
    BY <2>2, SourceReadIs
  <2> HIDE DEF p
  <2>4. Fits(g, p(g).component) /\ ~Full(g) /\ config' = Stored(g, p(g).component)
    BY <2>0, <2>1, <2>2, <2>3 DEF Fits
  <2>5. QED BY <1>3, <2>0, <2>2, <2>4, PlacedMet
<1>4. QED BY <1>1, <1>2, <1>3 DEF PlacedInv

\* The steps that store nothing.
LEMMA PlainStepsPlaced ==
  ParserType /\ SlotsInv /\ PlacedInv /\ (Unrecognized \/ IgnoreYamlGroup \/ OpenCsv \/ EndOfRows \/ EndOfFile)
    => PlacedInv'
<1> SUFFICES ASSUME ParserType, SlotsInv, PlacedInv,
                    Unrecognized \/ IgnoreYamlGroup \/ OpenCsv \/ EndOfRows \/ EndOfFile
             PROVE  SourcesInv' /\ GpuInv'
  BY DEF PlacedInv
<1>1. config' = config /\ format' = format /\ result = "pending" /\ SourcesInv /\ GpuInv
  BY DEF Unrecognized, IgnoreYamlGroup, OpenCsv, EndOfRows, EndOfFile, ParserType, PlacedInv
<1> DEFINE others == SlotNumbered \cup AloneKinds \cup {"source"}
<1>2. \/ file' = file
      \/ \E kinds : \E g \in Unread(kinds) : file' = Append(file, g) /\ g.kind \notin others
  <2>1. CASE Unrecognized \/ EndOfRows \/ EndOfFile
    BY <2>1 DEF Unrecognized, EndOfRows, EndOfFile
  <2>2. CASE IgnoreYamlGroup
    <3> DEFINE ignored == {"secondary-pre-process", "source-list", "source-attr-all"}
    <3>1. PICK g \in Unread(ignored) : file' = Append(file, g)
      BY <2>2 DEF IgnoreYamlGroup
    <3>2. g.kind \notin others
      BY UnreadIs DEF ParserType, SlotNumbered, AloneKinds
    <3> HIDE DEF ignored, others
    <3>3. QED BY <3>1, <3>2
  <2>3. CASE OpenCsv
    <3>1. PICK g \in Unread({"source-csv"}) : file' = Append(file, g)
      BY <2>3 DEF OpenCsv
    <3>2. g.kind \notin others
      BY UnreadIs DEF ParserType, SlotNumbered, AloneKinds
    <3> HIDE DEF others
    <3>3. QED BY <3>1, <3>2
  <2>4. QED BY <2>1, <2>2, <2>3
<1>3. QED BY <1>1, <1>2, PlacedKept

\* Every step: the checks end the parse, a list of sources is refused.
LEMMA PlacedNext == ParserType /\ SlotsInv /\ PlacedInv /\ [Next]_vars => PlacedInv'
<1>1. ASSUME ParserType, SlotsInv, PlacedInv, UNCHANGED vars, result' = "pending" PROVE SourcesInv' /\ GpuInv'
  <2>1. format' = format /\ file' = file /\ config' = config /\ result = "pending"
    BY <1>1 DEF vars
  <2>2. SourcesInv /\ GpuInv
    BY <1>1, <2>1 DEF PlacedInv
  <2>3. QED BY <1>1, <2>1, <2>2, PlacedKept
<1>2. ASSUME ParserType, SlotsInv, PlacedInv, ReadSourceList, result' = "pending" PROVE SourcesInv' /\ GpuInv'
  <2>1. UNCHANGED <<format, file, config, removed, parse_err, result>>
    BY <1>2, SourceListRefused
  <2>2. SourcesInv /\ GpuInv /\ result = "pending"
    BY <1>2, <2>1 DEF PlacedInv
  <2>3. QED BY <1>2, <2>1, <2>2, PlacedKept
<1>3. Check => result' # "pending"
  BY DEF Check, End
<1>4. QED
  BY <1>1, <1>2, <1>3, ReadAppPlaced, ReadSourceAllPlaced, GroupsPlaced, PlainStepsPlaced DEF Next, PlacedInv

-----------------------------------------------------------------------------
(* The expansion: each source is in the slots that stand for it, no slot      *)
(* stands for two.                                                           *)

\* The sources as they were read, and the parts each stands for.
Read(r) == config.slots["source"][r]
PartsRead(r) == IF Read(r).type = "multi" THEN 0..(Max1(Read(r).num_sources) - 1) ELSE {NoGpu}

\* The sources read are all there, each with another uri.
AllRead ==
  /\ config.num["source"] \in 0..MaxSlots["source"] /\ MaxSlots["source"] \in Nat
  /\ SourcesTyped(config)
  /\ \A r \in 1..config.num["source"] : Read(r).enable = TRUE /\ Read(r).part = NoGpu
  /\ \A q, r \in 1..config.num["source"] : Read(q).uri = Read(r).uri => q = r

\* A slot behind the first m sources: one of these, or a part of one.
Slots(c, m) == (1..c.num["source"]) \ ((m + 1)..config.num["source"])
Stands(c, s, r) ==
  LET t == c.slots["source"][s]
  IN /\ t.uri = Read(r).uri /\ t.part \in PartsRead(r) /\ t.gpu_id = Read(r).gpu_id
     /\ t.enable = TRUE /\ t.type # "multi"
Same(c, s, t) ==
  c.slots["source"][s].uri = c.slots["source"][t].uri /\ c.slots["source"][s].part = c.slots["source"][t].part

\* When the first m sources are expanded.
Expanding(c, m) ==
  /\ c.num["source"] \in config.num["source"]..MaxSlots["source"]
  /\ \A r \in (m + 1)..config.num["source"] : c.slots["source"][r] = Read(r)
  /\ \A s \in Slots(c, m) : \E r \in 1..m : Stands(c, s, r)
  /\ \A r \in 1..m : \A j \in PartsRead(r) :
       \E s \in Slots(c, m) : Stands(c, s, r) /\ c.slots["source"][s].part = j
  /\ \A s, t \in Slots(c, m) : Same(c, s, t) => s = t

\* One more, which is one uri: it stands for itself.
LEMMA ExpandingPlain ==
  ASSUME AllRead, NEW c, NEW m \in Nat, m + 1 \in 1..config.num["source"], Expanding(c, m),
         Read(m + 1).type # "multi"
  PROVE  Expanding(c, m + 1)
<1> DEFINE n0 == config.num["source"]
           n == c.num["source"]
           last == m + 1
           T == c.slots["source"]
<1>0. n0 \in Nat /\ n \in Nat /\ n0 <= n /\ last \in 1..n0 /\ n \in n0..MaxSlots["source"] /\ last \in Nat
  BY DEF AllRead, Expanding
<1>1. Slots(c, last) = Slots(c, m) \cup {last} /\ last \notin Slots(c, m)
  BY <1>0 DEF Slots
<1>2. T[last] = Read(last) /\ PartsRead(last) = {NoGpu}
  BY <1>0 DEF Expanding, PartsRead
<1>3. Stands(c, last, last) /\ T[last].part = NoGpu
  BY <1>0, <1>2 DEF Stands, AllRead
<1>4. \A r \in (last + 1)..n0 : T[r] = Read(r)
  BY <1>0 DEF Expanding
<1>5. \A s \in Slots(c, last) : \E r \in 1..last : Stands(c, s, r)
  <2> SUFFICES ASSUME NEW s \in Slots(c, last) PROVE \E r \in 1..last : Stands(c, s, r)
    OBVIOUS
  <2>1. CASE s = last
    BY <1>0, <1>3, <2>1
  <2>2. CASE s \in Slots(c, m)
    <3>1. PICK r \in 1..m : Stands(c, s, r)
      BY <2>2 DEF Expanding
    <3>2. r \in 1..last
      BY <1>0
    <3>3. QED BY <3>1, <3>2
  <2>3. QED BY <1>1, <2>1, <2>2
<1>6. \A r \in 1..last : \A j \in PartsRead(r) :
        \E s \in Slots(c, last) : Stands(c, s, r) /\ T[s].part = j
  <2> SUFFICES ASSUME NEW r \in 1..last, NEW j \in PartsRead(r)
               PROVE  \E s \in Slots(c, last) : Stands(c, s, r) /\ T[s].part = j
    OBVIOUS
  <2>1. CASE r = last
    BY <1>1, <1>2, <1>3, <2>1
  <2>2. CASE r \in 1..m
    <3>1. PICK s \in Slots(c, m) : Stands(c, s, r) /\ T[s].part = j
      BY <2>2 DEF Expanding
    <3>2. QED BY <1>1, <3>1
  <2>3. QED BY <1>0, <2>1, <2>2
<1>7. \A s, t \in Slots(c, last) : Same(c, s, t) => s = t
  <2>1. ASSUME NEW s \in Slots(c, m) PROVE T[s].uri # T[last].uri
    <3>1. PICK r \in 1..m : Stands(c, s, r)
      BY DEF Expanding
    <3>2. r \in 1..n0 /\ r # last
      BY <1>0
    <3>3. Read(r).uri # Read(last).uri
      BY <1>0, <3>2 DEF AllRead
    <3>4. QED BY <1>2, <3>1, <3>3 DEF Stands
  <2> SUFFICES ASSUME NEW s \in Slots(c, last), NEW t \in Slots(c, last), Same(c, s, t) PROVE s = t
    OBVIOUS
  <2>2. T[s].uri = T[t].uri
    BY DEF Same
  <2>3. CASE s \in Slots(c, m) /\ t \in Slots(c, m)
    BY <2>3 DEF Expanding
  <2>4. QED BY <1>1, <2>1, <2>2, <2>3
<1> HIDE DEF n0, n, T
<1>8. QED BY <1>0, <1>4, <1>5, <1>6, <1>7 DEF Expanding, n0, n, T

\* The parts of one source in a row.
LEMMA PartIs ==
  ASSUME NEW s, SourceTyped(s), NEW j
  PROVE  LET p == Part([s EXCEPT !.num_sources = Max1(@)], j)
         IN /\ p.uri = s.uri /\ p.part = j /\ p.gpu_id = s.gpu_id /\ p.enable = s.enable /\ p.type = "uri"
<1> DEFINE q == [s EXCEPT !.num_sources = Max1(@)]
<1>1. {"uri", "part", "gpu_id", "enable", "type"} \subseteq DOMAIN s
  BY DEF SourceTyped, Source
<1>2. DOMAIN q = DOMAIN s /\ \A f \in {"uri", "part", "gpu_id", "enable", "type"} : q[f] = s[f]
  BY <1>1
<1> HIDE DEF q
<1>3. LET p == Part(q, j)
      IN p.uri = q.uri /\ p.part = j /\ p.gpu_id = q.gpu_id /\ p.enable = q.enable /\ p.type = "uri"
  BY <1>1, <1>2 DEF Part
<1>4. QED BY <1>2, <1>3 DEF q

\* One more, of several uris: its parts are in its own slot and behind the last.
LEMMA ExpandingParts ==
  ASSUME AllRead, NEW c, NEW e, NEW m \in Nat, m + 1 \in 1..config.num["source"], Expanding(c, m),
         Read(m + 1).type = "multi",
         LET n == c.num["source"]
             last == n + Max1(Read(m + 1).num_sources) - 1
         IN /\ last \in n..MaxSlots["source"] /\ e.num["source"] = last
            /\ \A k \in 1..MaxSlots["source"] :
                 e.slots["source"][k] =
                   IF k = m + 1 THEN Part([Read(m + 1) EXCEPT !.num_sources = Max1(@)], 0)
                   ELSE IF k \in (n + 1)..last THEN Part([Read(m + 1) EXCEPT !.num_sources = Max1(@)], k - n)
                   ELSE c.slots["source"][k]
  PROVE  Expanding(e, m + 1)
<1> DEFINE n0 == config.num["source"]
           n == c.num["source"]
           this == m + 1
           p == Max1(Read(this).num_sources)
           last == n + p - 1
           S == c.slots["source"]
           T == e.slots["source"]
           New == {this} \cup ((n + 1)..last)
           at(j) == IF j = 0 THEN this ELSE n + j
<1>0. /\ n0 \in Nat /\ n \in Nat /\ n0 <= n /\ this \in 1..n0 /\ this \in Nat /\ m \in Nat
      /\ MaxSlots["source"] \in Nat /\ n <= MaxSlots["source"] /\ this <= n0
  BY DEF AllRead, Expanding
<1>1. p \in Nat /\ p >= 1 /\ last \in Nat /\ n <= last /\ last <= MaxSlots["source"] /\ e.num["source"] = last
  <2>1. SourceTyped(Read(this))
    BY <1>0 DEF AllRead, SourcesTyped, Read
  <2>2. p \in Nat /\ p >= 1
    BY <2>1, Max1Is DEF SourceTyped
  <2>3. QED BY <1>0, <2>2
<1>2. PartsRead(this) = 0..(p - 1)
  BY DEF PartsRead
<1>3. \A j \in 0..(p - 1) : /\ at(j) \in 1..MaxSlots["source"] /\ at(j) \in New
                            /\ T[at(j)] = Part([Read(this) EXCEPT !.num_sources = Max1(@)], j)
  <2> SUFFICES ASSUME NEW j \in 0..(p - 1)
               PROVE  /\ at(j) \in 1..MaxSlots["source"] /\ at(j) \in New
                      /\ T[at(j)] = Part([Read(this) EXCEPT !.num_sources = Max1(@)], j)
    OBVIOUS
  <2>1. CASE j = 0
    BY <1>0, <1>1, <2>1
  <2>2. CASE j # 0
    <3>1. n + j \in 1..MaxSlots["source"] /\ n + j # this /\ n + j \in (n + 1)..last /\ (n + j) - n = j
      BY <1>0, <1>1, <2>2
    <3>2. at(j) = n + j
      BY <2>2
    <3>3. QED BY <3>1, <3>2
  <2>3. QED BY <2>1, <2>2
<1>4. \A s \in New : \E j \in 0..(p - 1) : s = at(j)
  <2> SUFFICES ASSUME NEW s \in New PROVE \E j \in 0..(p - 1) : s = at(j)
    OBVIOUS
  <2>1. CASE s = this
    BY <1>1, <2>1
  <2>2. CASE s \in (n + 1)..last
    <3>1. s - n \in 0..(p - 1) /\ s - n # 0 /\ n + (s - n) = s
      BY <1>0, <1>1, <2>2
    <3>2. QED BY <3>1
  <2>3. QED BY <2>1, <2>2
<1>5. \A s \in Slots(c, m) : s \in 1..MaxSlots["source"] /\ s \notin New /\ T[s] = S[s]
  <2> SUFFICES ASSUME NEW s \in Slots(c, m) PROVE s \in 1..MaxSlots["source"] /\ s \notin New /\ T[s] = S[s]
    OBVIOUS
  <2>1. s \in 1..n /\ s # this
    BY <1>0 DEF Slots
  <2>2. s \in 1..MaxSlots["source"] /\ s \notin (n + 1)..last
    BY <1>0, <1>1, <2>1
  <2>3. QED BY <2>1, <2>2
<1>6. Slots(e, this) = Slots(c, m) \cup New
  <2> SUFFICES ASSUME NEW s PROVE s \in Slots(e, this) <=> s \in Slots(c, m) \/ s \in New
    OBVIOUS
  <2>1. s \in Slots(e, this) <=> s \in 1..last /\ s \notin (this + 1)..n0
    BY <1>1 DEF Slots
  <2>2. s \in Slots(c, m) <=> s \in 1..n /\ s \notin this..n0
    BY DEF Slots
  <2> HIDE DEF this, last
  <2>3. QED BY <1>0, <1>1, <2>1, <2>2
<1>7. \A r \in (this + 1)..n0 : T[r] = Read(r)
  <2> SUFFICES ASSUME NEW r \in (this + 1)..n0 PROVE T[r] = Read(r)
    OBVIOUS
  <2>1. r \in 1..MaxSlots["source"] /\ r # this /\ r \notin (n + 1)..last /\ r \in (m + 1)..n0
    BY <1>0, <1>1
  <2>2. T[r] = S[r]
    BY <2>1
  <2>3. QED BY <2>1, <2>2 DEF Expanding
<1>8. \A j \in 0..(p - 1) : Stands(e, at(j), this) /\ T[at(j)].part = j
  <2> SUFFICES ASSUME NEW j \in 0..(p - 1) PROVE Stands(e, at(j), this) /\ T[at(j)].part = j
    OBVIOUS
  <2>1. SourceTyped(Read(this)) /\ Read(this).enable = TRUE
    BY <1>0 DEF AllRead, SourcesTyped, Read
  <2>2. /\ T[at(j)].uri = Read(this).uri /\ T[at(j)].part = j /\ T[at(j)].gpu_id = Read(this).gpu_id
        /\ T[at(j)].enable = TRUE /\ T[at(j)].type = "uri"
    BY <1>3, <2>1, PartIs
  <2> HIDE DEF T, at
  <2>3. QED BY <1>2, <2>2 DEF Stands, T
<1>9. \A s \in Slots(c, m) : \A r : Stands(c, s, r) <=> Stands(e, s, r)
  BY <1>5 DEF Stands
<1> HIDE DEF T, S, at, New, last, p, n, this, n0
<1>10. \A s \in Slots(e, this) : \E r \in 1..this : Stands(e, s, r)
  <2> SUFFICES ASSUME NEW s \in Slots(e, this) PROVE \E r \in 1..this : Stands(e, s, r)
    OBVIOUS
  <2>1. CASE s \in New
    <3>1. this \in 1..this
      BY <1>0
    <3>2. QED BY <1>4, <1>8, <2>1, <3>1
  <2>2. CASE s \in Slots(c, m)
    <3>1. PICK r \in 1..m : Stands(c, s, r)
      BY <2>2 DEF Expanding
    <3>2. r \in 1..this
      BY <1>0 DEF this
    <3>3. QED BY <1>9, <2>2, <3>1, <3>2
  <2>3. QED BY <1>6, <2>1, <2>2
<1>11. \A r \in 1..this : \A j \in PartsRead(r) : \E s \in Slots(e, this) : Stands(e, s, r) /\ T[s].part = j
  <2> SUFFICES ASSUME NEW r \in 1..this, NEW j \in PartsRead(r)
               PROVE  \E s \in Slots(e, this) : Stands(e, s, r) /\ T[s].part = j
    OBVIOUS
  <2>1. CASE r = this
    <3>1. j \in 0..(p - 1)
      BY <1>2, <2>1
    <3>2. at(j) \in Slots(e, this)
      BY <1>3, <1>6, <3>1
    <3>3. QED BY <1>8, <2>1, <3>1, <3>2
  <2>2. CASE r \in 1..m
    <3>1. PICK s \in Slots(c, m) : Stands(c, s, r) /\ S[s].part = j
      BY <2>2 DEF Expanding, S
    <3>2. QED BY <1>5, <1>6, <1>9, <3>1
  <2>3. QED BY <1>0, <2>1, <2>2 DEF this
<1>12. \A s, t \in Slots(e, this) : Same(e, s, t) => s = t
  <2>1. ASSUME NEW s \in Slots(c, m) PROVE T[s].uri # Read(this).uri
    <3>1. PICK r \in 1..m : Stands(c, s, r)
      BY DEF Expanding
    <3>2. r \in 1..n0 /\ r # this
      BY <1>0 DEF this
    <3>3. Read(r).uri # Read(this).uri
      BY <1>0, <3>2 DEF AllRead, n0
    <3>4. QED BY <1>5, <3>1, <3>3 DEF Stands, S
  <2>2. ASSUME NEW s \in New PROVE T[s].uri = Read(this).uri
    BY <1>4, <1>8 DEF Stands, T
  <2> SUFFICES ASSUME NEW s \in Slots(e, this), NEW t \in Slots(e, this), Same(e, s, t) PROVE s = t
    OBVIOUS
  <2>3. T[s].uri = T[t].uri /\ T[s].part = T[t].part
    BY DEF Same, T
  <2>4. CASE s \in Slots(c, m) /\ t \in Slots(c, m)
    <3>1. Same(c, s, t)
      BY <1>5, <2>3, <2>4 DEF Same, S
    <3>2. QED BY <2>4, <3>1 DEF Expanding
  <2>5. CASE s \in New /\ t \in New
    <3>1. PICK i \in 0..(p - 1) : s = at(i)
      BY <1>4, <2>5
    <3>2. PICK j \in 0..(p - 1) : t = at(j)
      BY <1>4, <2>5
    <3>3. i = j
      BY <1>8, <2>3, <3>1, <3>2
    <3>4. QED BY <3>1, <3>2, <3>3
  <2>6. QED BY <1>6, <2>1, <2>2, <2>3, <2>4, <2>5
<1>13. e.num["source"] \in n0..MaxSlots["source"]
  BY <1>0, <1>1
<1>14. QED BY <1>7, <1>10, <1>11, <1>12, <1>13 DEF Expanding, n0, T, this

\* All sources are expanded, by induction along the table.
LEMMA AllExpanded ==
  ASSUME ConfigTyped(config), AllRead, ExpandAll.fits
  PROVE  Expanding(ExpandAll, config.num["source"])
<1> DEFINE n0 == config.num["source"]
           base == Overlaid(config, [fits |-> TRUE])
           T == {m \in Nat : m <= n0 => /\ ExpandKeeps(Expanded[m])
                                        /\ Expanded[m].fits => Expanding(Expanded[m], m)}
<1>0. n0 \in Nat /\ n0 <= MaxSlots["source"] /\ MaxSlots["source"] \in Nat /\ "fits" \notin DOMAIN config
  BY DEF AllRead, ConfigTyped
<1>1. /\ Expanded[0] = base
      /\ \A m \in 1..n0 : Expanded[m] = Expand(Expanded[m - 1], m)
  BY <1>0, ExpandedIs DEF IsExpanded
<1>2. ExpandKeeps(base) /\ base.num = config.num /\ base.slots = config.slots
  <2>1. /\ DOMAIN base = DOMAIN config \cup {"fits"}
        /\ \A f \in DOMAIN config : base[f] = config[f]
    BY <1>0 DEF Overlaid
  <2>2. Shaped(config) /\ SourcesTyped(config) /\ n0 \in 0..MaxSlots["source"]
    BY DEF ConfigTyped, AllRead
  <2> HIDE DEF base
  <2>3. /\ base.num = config.num /\ base.slots = config.slots /\ base.single = config.single
        /\ base.total_num_sources = config.total_num_sources /\ base.source_list_enabled = config.source_list_enabled
    BY <2>1, <2>2 DEF Shaped
  <2>4. Shaped(base) /\ SourcesTyped(base)
    BY <2>1, <2>2, <2>3 DEF Shaped, SourcesTyped
  <2>5. QED BY <2>1, <2>2, <2>3, <2>4 DEF ExpandKeeps
<1> HIDE DEF base
<1>3. 0 \in T
  <2>1. Slots(base, 0) = {}
    BY <1>0, <1>2 DEF Slots
  <2>2. Expanding(base, 0)
    BY <1>0, <1>2, <2>1 DEF Expanding, Read
  <2>3. QED BY <1>1, <1>2, <2>2
<1>4. ASSUME NEW m \in Nat, m \in T PROVE m + 1 \in T
  <2> DEFINE c == Expanded[m]
             e == Expanded[m + 1]
             n == c.num["source"]
             last == n + PartsOf(c, m + 1) - 1
  <2>1. SUFFICES ASSUME m + 1 <= n0 PROVE ExpandKeeps(e) /\ (e.fits => Expanding(e, m + 1))
    OBVIOUS
  <2>2. ExpandKeeps(c) /\ (c.fits => Expanding(c, m))
    BY <1>0, <1>4, <2>1
  <2>3. m + 1 \in 1..n0 /\ m + 1 \in 1..MaxSlots["source"] /\ (m + 1) - 1 = m
    BY <1>0, <2>1
  <2>4. e = Expand(c, m + 1)
    BY <1>1, <2>3
  <2> HIDE DEF c, e
  <2>5. ExpandKeeps(e)
    BY <2>2, <2>3, <2>4, ExpandStep
  <2>6. /\ Shaped(c) /\ SourcesTyped(c) /\ n \in 0..MaxSlots["source"] /\ "fits" \in DOMAIN c
    BY <2>2 DEF ExpandKeeps
  <2>7. ASSUME e.fits PROVE Expanding(e, m + 1)
    <3>0. LET taken == c.num["source"]
              end == taken + PartsOf(c, m + 1) - 1
          IN \/ /\ ~c.fits \/ c.slots["source"][m + 1].type # "multi"
                /\ Expand(c, m + 1) = c
             \/ /\ c.fits /\ c.slots["source"][m + 1].type = "multi" /\ end > MaxSlots["source"]
                /\ Expand(c, m + 1) = [c EXCEPT !.fits = FALSE]
             \/ /\ c.fits /\ c.slots["source"][m + 1].type = "multi" /\ end <= MaxSlots["source"]
                /\ end \in taken..MaxSlots["source"]
                /\ \A k \in SlotKinds \ {"source"} :
                     Expand(c, m + 1).num[k] = c.num[k] /\ Expand(c, m + 1).slots[k] = c.slots[k]
                /\ Expand(c, m + 1).num["source"] = end
                /\ \A k \in 1..MaxSlots["source"] :
                     Expand(c, m + 1).slots["source"][k] =
                       IF k = m + 1 THEN Part(Parted(c, m + 1), 0)
                       ELSE IF k \in (taken + 1)..end THEN Part(Parted(c, m + 1), k - taken) ELSE c.slots["source"][k]
                /\ Shaped(Expand(c, m + 1)) /\ DOMAIN Expand(c, m + 1) = DOMAIN c
                /\ Expand(c, m + 1).fits /\ Expand(c, m + 1).single = c.single
                /\ Expand(c, m + 1).total_num_sources = c.total_num_sources
                /\ Expand(c, m + 1).source_list_enabled = c.source_list_enabled
      BY <2>3, <2>6, ExpandIs
    <3>1. \/ /\ ~c.fits \/ c.slots["source"][m + 1].type # "multi"
             /\ e = c
          \/ e = [c EXCEPT !.fits = FALSE]
          \/ /\ c.fits /\ c.slots["source"][m + 1].type = "multi"
             /\ last \in n..MaxSlots["source"]
             /\ e.num["source"] = last
             /\ \A k \in 1..MaxSlots["source"] :
                  e.slots["source"][k] =
                    IF k = m + 1 THEN Part(Parted(c, m + 1), 0)
                    ELSE IF k \in (n + 1)..last THEN Part(Parted(c, m + 1), k - n) ELSE c.slots["source"][k]
      BY <2>4, <3>0, Zenon
    <3>2. c.fits => Expanding(c, m) /\ c.slots["source"][m + 1] = Read(m + 1)
      BY <2>2, <2>3 DEF Expanding
    <3>3. CASE e = [c EXCEPT !.fits = FALSE]
      <4>1. e.fits = FALSE
        BY <2>6, <3>3
      <4>2. QED BY <2>7, <4>1
    <3>4. CASE e = c /\ (~c.fits \/ c.slots["source"][m + 1].type # "multi")
      <4>1. c.fits /\ Read(m + 1).type # "multi"
        BY <2>7, <3>2, <3>4
      <4>2. Expanding(c, m + 1)
        BY <2>3, <3>2, <4>1, ExpandingPlain
      <4>3. QED BY <3>4, <4>2
    <3>5. CASE /\ c.fits /\ c.slots["source"][m + 1].type = "multi"
               /\ last \in n..MaxSlots["source"]
               /\ e.num["source"] = last
               /\ \A k \in 1..MaxSlots["source"] :
                    e.slots["source"][k] =
                      IF k = m + 1 THEN Part(Parted(c, m + 1), 0)
                      ELSE IF k \in (n + 1)..last THEN Part(Parted(c, m + 1), k - n) ELSE c.slots["source"][k]
      <4>1. Expanding(c, m) /\ Read(m + 1).type = "multi"
        BY <3>2, <3>5
      <4>2. /\ PartsOf(c, m + 1) = Max1(Read(m + 1).num_sources)
            /\ Parted(c, m + 1) = [Read(m + 1) EXCEPT !.num_sources = Max1(@)]
        BY <3>2, <3>5 DEF PartsOf, Parted
      <4>3. QED BY <2>3, <3>5, <4>1, <4>2, ExpandingParts
    <3>6. QED BY <3>1, <3>3, <3>4, <3>5
  <2>8. QED BY <2>5, <2>7
<1>5. n0 \in T
  <2> HIDE DEF T, n0
  <2>1. QED BY <1>0, <1>3, <1>4, SetInduction
<1>6. QED BY <1>0, <1>5, ExpandedIs

\* The sources read are those of the groups.
LEMMA ReadAre ==
  ASSUME ParserType, ConfigTyped(config), SourcesInv, UrisDiffer
  PROVE  /\ AllRead
         /\ \A r \in 1..config.num["source"] : \E i \in EnabledOf("source") : Rank("source", i) = r
         /\ \A i \in EnabledOf("source") :
              LET r == Rank("source", i)
              IN /\ r \in 1..config.num["source"]
                 /\ SourceIs(file[i], Read(r))
                 /\ Read(r).uri = file[i].keys.uri
                 /\ Wanted(file[i]) # NoGpu => Read(r).gpu_id = Wanted(file[i])
<1> DEFINE E == EnabledOf("source")
           n0 == config.num["source"]
<1>1. n0 = Cardinality(E) /\ \A i \in E : Rank("source", i) \in 1..n0
  BY EnabledFinite DEF ParserType, SourcesInv
<1>2. \A i \in E : SlotOf("source", i) = Read(Rank("source", i))
  BY SlotOfIs DEF Read
<1>3. ASSUME NEW i \in E
      PROVE  /\ SourceIs(file[i], Read(Rank("source", i)))
             /\ Read(Rank("source", i)).uri = file[i].keys.uri
             /\ Wanted(file[i]) # NoGpu => Read(Rank("source", i)).gpu_id = Wanted(file[i])
  <2>1. SourceIs(file[i], SlotOf("source", i)) /\ GpuServed("source", i)
    BY DEF SourcesInv
  <2>2. "uri" \in DOMAIN file[i].keys
    BY DEF UrisDiffer
  <2>3. Wanted(file[i]) # NoGpu => SlotOf("source", i).gpu_id = Wanted(file[i])
    BY <2>1 DEF GpuServed
  <2>4. SlotOf("source", i).uri = file[i].keys.uri
    BY <2>1, <2>2 DEF SourceIs
  <2>5. QED BY <1>2, <2>1, <2>3, <2>4
<1>4. \A r \in 1..n0 : \E i \in E : Rank("source", i) = r
  BY DEF SourcesInv
<1>5. \A r \in 1..n0 : Read(r).enable = TRUE /\ Read(r).part = NoGpu
  BY <1>3, <1>4 DEF SourceIs
<1>6. ASSUME NEW q \in 1..n0, NEW r \in 1..n0, Read(q).uri = Read(r).uri PROVE q = r
  <2>1. PICK i \in E : Rank("source", i) = q
    BY <1>4
  <2>2. PICK j \in E : Rank("source", j) = r
    BY <1>4
  <2>3. file[i].keys.uri = file[j].keys.uri
    BY <1>3, <1>6, <2>1, <2>2
  <2>4. i = j
    BY <2>3 DEF UrisDiffer
  <2>5. QED BY <2>1, <2>2, <2>4
<1>7. AllRead
  <2>1. n0 \in 0..MaxSlots["source"] /\ MaxSlots["source"] \in Nat /\ SourcesTyped(config)
    BY MaxSlotsAssumption DEF ConfigTyped, SlotKinds
  <2>2. QED BY <1>5, <1>6, <2>1 DEF AllRead
<1>8. QED BY <1>1, <1>3, <1>4, <1>7

\* Slots that each stand for one part are as many as the parts.
LEMMA AsManyAs ==
  ASSUME NEW n \in Nat, NEW W, NEW f \in [1..n -> W],
         \A w \in W : \E s \in 1..n : f[s] = w,
         \A s, t \in 1..n : f[s] = f[t] => s = t
  PROVE  Cardinality(W) = n
<1>1. f \in Injection(1..n, W)
  BY Fun_IsInj
<1>2. f \in Surjection(1..n, W)
  BY Fun_IsSurj
<1>3. ExistsBijection(1..n, W)
  BY <1>1, <1>2 DEF ExistsBijection, Bijection
<1>4. QED BY <1>3, FS_CountingElements

\* Every slot of the expansion is one part of one group, and every part has a slot.
LEMMA ExpandedAre ==
  ASSUME ParserType, ConfigTyped(config), SourcesInv, UrisDiffer, ExpandAll.fits
  PROVE  LET n == ExpandAll.num["source"]
         IN /\ n \in Nat
            /\ \A s \in 1..n : \E i \in EnabledOf("source") : Stands(ExpandAll, s, Rank("source", i))
            /\ \A i \in EnabledOf("source") : \A j \in PartsRead(Rank("source", i)) :
                 \E s \in 1..n : /\ Stands(ExpandAll, s, Rank("source", i))
                                 /\ ExpandAll.slots["source"][s].part = j
            /\ \A s, t \in 1..n : Same(ExpandAll, s, t) => s = t
<1> DEFINE e == ExpandAll
           n == e.num["source"]
           n0 == config.num["source"]
<1>1. AllRead /\ Expanding(e, n0)
  BY ReadAre, AllExpanded
<1>2. /\ \A r \in 1..n0 : \E i \in EnabledOf("source") : Rank("source", i) = r
      /\ \A i \in EnabledOf("source") : Rank("source", i) \in 1..n0
  BY ReadAre
<1> HIDE DEF e
<1>3. n0 \in Nat /\ n \in Nat
  BY <1>1 DEF AllRead, Expanding
<1>4. Slots(e, n0) = 1..n
  BY <1>3 DEF Slots
<1>5. \A s \in 1..n : \E r \in 1..n0 : Stands(e, s, r)
  BY <1>1, <1>4 DEF Expanding
<1>6. \A r \in 1..n0 : \A j \in PartsRead(r) : \E s \in 1..n : Stands(e, s, r) /\ e.slots["source"][s].part = j
  BY <1>1, <1>4 DEF Expanding
<1>7. \A s, t \in 1..n : Same(e, s, t) => s = t
  BY <1>1, <1>4 DEF Expanding
<1> HIDE DEF n, n0
<1>8. \A s \in 1..n : \E i \in EnabledOf("source") : Stands(e, s, Rank("source", i))
  BY <1>2, <1>5
<1>9. \A i \in EnabledOf("source") : \A j \in PartsRead(Rank("source", i)) :
        \E s \in 1..n : Stands(e, s, Rank("source", i)) /\ e.slots["source"][s].part = j
  BY <1>2, <1>6
<1>10. QED BY <1>3, <1>7, <1>8, <1>9 DEF n, e

\* Each has the GPU of the group it is of.
LEMMA ExpandedGpu ==
  ASSUME ParserType, ConfigTyped(config), SourcesInv, UrisDiffer, ExpandAll.fits,
         NEW i \in EnabledOf("source"), Wanted(file[i]) # NoGpu,
         NEW s \in 1..ExpandAll.num["source"], ExpandAll.slots["source"][s].uri = file[i].keys.uri
  PROVE  ExpandAll.slots["source"][s].gpu_id = Wanted(file[i])
<1>1. PICK j \in EnabledOf("source") : Stands(ExpandAll, s, Rank("source", j))
  BY ExpandedAre
<1>2. /\ Read(Rank("source", j)).uri = file[j].keys.uri
      /\ Wanted(file[j]) # NoGpu => Read(Rank("source", j)).gpu_id = Wanted(file[j])
  BY ReadAre
<1>3. /\ ExpandAll.slots["source"][s].uri = file[j].keys.uri
      /\ ExpandAll.slots["source"][s].gpu_id = Read(Rank("source", j)).gpu_id
  BY <1>1, <1>2 DEF Stands
<1>4. j = i
  BY <1>3 DEF UrisDiffer
<1>5. QED BY <1>2, <1>3, <1>4

\* The uris and parts a file asks for.
Asked == UNION {{<<file[i].keys.uri, j>> : j \in Parts(file[i])} : i \in EnabledOf("source")}

\* They are the slots of the expansion, each once.
LEMMA ExpandedAsked ==
  ASSUME ParserType, ConfigTyped(config), SourcesInv, UrisDiffer, SourcesSaid, ExpandAll.fits
  PROVE  LET n == ExpandAll.num["source"]
             slot == ExpandAll.slots["source"]
         IN /\ {<<slot[s].uri, slot[s].part>> : s \in 1..n} = Asked
            /\ Cardinality(Asked) = n
            /\ \A s \in 1..n : slot[s].enable /\ slot[s].type # "multi"
<1> DEFINE e == ExpandAll
           n == e.num["source"]
           slot == e.slots["source"]
           E == EnabledOf("source")
           f == [s \in 1..n |-> <<slot[s].uri, slot[s].part>>]
<1>1. /\ n \in Nat
      /\ \A s \in 1..n : \E i \in E : Stands(e, s, Rank("source", i))
      /\ \A i \in E : \A j \in PartsRead(Rank("source", i)) :
           \E s \in 1..n : Stands(e, s, Rank("source", i)) /\ slot[s].part = j
      /\ \A s, t \in 1..n : Same(e, s, t) => s = t
  BY ExpandedAre
<1>2. ASSUME NEW i \in E
      PROVE  /\ Read(Rank("source", i)).uri = file[i].keys.uri
             /\ PartsRead(Rank("source", i)) = Parts(file[i])
  <2>1. Read(Rank("source", i)).uri = file[i].keys.uri /\ SourceIs(file[i], Read(Rank("source", i)))
    BY ReadAre
  <2>2. /\ "type" \in DOMAIN file[i].keys
        /\ file[i].keys.type = "multi" => "num_sources" \in DOMAIN file[i].keys
    BY DEF SourcesSaid
  <2>3. /\ Read(Rank("source", i)).type = file[i].keys.type
        /\ file[i].keys.type = "multi" => Max1(Read(Rank("source", i)).num_sources) = Max1(file[i].keys.num_sources)
    BY <2>1, <2>2 DEF SourceIs
  <2>4. PartsRead(Rank("source", i)) = Parts(file[i])
    BY <2>3 DEF PartsRead, Parts
  <2>5. QED BY <2>1, <2>4
<1> HIDE DEF e, n, slot, E
<1>3. \A s \in 1..n : f[s] \in Asked
  <2> SUFFICES ASSUME NEW s \in 1..n PROVE <<slot[s].uri, slot[s].part>> \in Asked
    OBVIOUS
  <2>1. PICK i \in E : Stands(e, s, Rank("source", i))
    BY <1>1
  <2>2. slot[s].uri = file[i].keys.uri /\ slot[s].part \in Parts(file[i])
    BY <1>2, <2>1 DEF Stands, slot
  <2>3. QED BY <2>2 DEF Asked, E
<1>4. \A w \in Asked : \E s \in 1..n : f[s] = w
  <2> SUFFICES ASSUME NEW w \in Asked PROVE \E s \in 1..n : <<slot[s].uri, slot[s].part>> = w
    OBVIOUS
  <2>1. PICK i \in E : \E j \in Parts(file[i]) : w = <<file[i].keys.uri, j>>
    BY DEF Asked, E
  <2>2. PICK j \in Parts(file[i]) : w = <<file[i].keys.uri, j>>
    BY <2>1
  <2>3. PICK s \in 1..n : Stands(e, s, Rank("source", i)) /\ slot[s].part = j
    BY <1>1, <1>2
  <2>4. slot[s].uri = file[i].keys.uri
    BY <1>2, <2>3 DEF Stands, slot
  <2>5. QED BY <2>2, <2>3, <2>4
<1>5. \A s, t \in 1..n : f[s] = f[t] => s = t
  <2> SUFFICES ASSUME NEW s \in 1..n, NEW t \in 1..n, f[s] = f[t] PROVE s = t
    OBVIOUS
  <2>1. slot[s].uri = slot[t].uri /\ slot[s].part = slot[t].part
    OBVIOUS
  <2>2. Same(e, s, t)
    BY <2>1 DEF Same, slot
  <2>3. QED BY <1>1, <2>2
<1>6. \A s \in 1..n : slot[s].enable /\ slot[s].type # "multi"
  <2> SUFFICES ASSUME NEW s \in 1..n PROVE slot[s].enable /\ slot[s].type # "multi"
    OBVIOUS
  <2>1. PICK i \in E : Stands(e, s, Rank("source", i))
    BY <1>1
  <2>2. QED BY <2>1 DEF Stands, slot
<1>7. {<<slot[s].uri, slot[s].part>> : s \in 1..n} = Asked
  BY <1>3, <1>4
<1>8. Cardinality(Asked) = n
  <2>1. f \in [1..n -> Asked]
    BY <1>3
  <2> HIDE DEF f
  <2>2. QED BY <1>1, <1>4, <1>5, <2>1, AsManyAs
<1>9. QED BY <1>6, <1>7, <1>8 DEF n, slot, e

\* What an accepted file has is the expansion of what was read.
LEMMA CheckAccepts ==
  ASSUME ParserType, Check, result' = "accepted"
  PROVE  /\ result = "pending" /\ format \in {"INI", "YAML"} /\ format' = format /\ file' = file
         /\ ConfigTyped(config) /\ ExpandAll.fits /\ ExpandKeeps(ExpandAll)
         /\ config'.num = ExpandAll.num /\ config'.slots = ExpandAll.slots /\ config'.single = config.single
         /\ config'.source_list_enabled = FALSE /\ config'.total_num_sources = 0
<1>1. /\ ConfigTyped(config) /\ result = "pending" /\ format' = format /\ file' = file
      /\ format \in {"INI", "YAML"}
  BY DEF ParserType, Check, Stages
<1>2. ExpandKeeps(ExpandAll)
  BY <1>1, ExpandAllKeeps DEF ConfigTyped, SlotKinds
<1>3. ExpandAll.fits /\ config' = [f \in DOMAIN config |-> ExpandAll[f]]
  BY DEF Check, End
<1> DEFINE e == ExpandAll
<1>4. /\ ExpandKeeps(e) /\ e.fits /\ config' = [f \in DOMAIN config |-> e[f]]
  BY <1>2, <1>3
<1> HIDE DEF e
<1>5. /\ config'.num = e.num /\ config'.slots = e.slots /\ config'.single = e.single
      /\ config'.total_num_sources = e.total_num_sources /\ config'.source_list_enabled = e.source_list_enabled
  BY <1>1, <1>4 DEF ConfigTyped, Shaped
<1>6. e.single = config.single /\ e.total_num_sources = 0 /\ e.source_list_enabled = FALSE
  BY <1>1, <1>4 DEF ExpandKeeps, ConfigTyped
<1>7. QED BY <1>1, <1>2, <1>3, <1>5, <1>6 DEF e

\* So that its sources are those asked for.
LEMMA CheckExpanded == ParserType /\ PlacedInv /\ Check => SourcesExpanded'
<1> SUFFICES ASSUME ParserType, PlacedInv, Check, result' = "accepted", UrisDiffer', SourcesSaid'
             PROVE  LET n == config'.num["source"]
                        slot == config'.slots["source"]
                    IN /\ {<<slot[i].uri, slot[i].part>> : i \in 1..n} = Asked'
                       /\ Cardinality(Asked') = n
                       /\ \A i \in 1..n : slot[i].enable /\ slot[i].type # "multi"
                       /\ ~config'.source_list_enabled /\ config'.total_num_sources = 0
  BY DEF SourcesExpanded, Accepted, Asked
<1>1. /\ result = "pending" /\ file' = file /\ ConfigTyped(config) /\ ExpandAll.fits
      /\ config'.num = ExpandAll.num /\ config'.slots = ExpandAll.slots
      /\ config'.source_list_enabled = FALSE /\ config'.total_num_sources = 0
  BY CheckAccepts
<1>2. EnabledOf("source")' = EnabledOf("source")
  BY <1>1 DEF EnabledOf, Enabled
<1>3. Asked' = Asked
  BY <1>1, <1>2 DEF Asked, Parts
<1>4. UrisDiffer /\ SourcesSaid
  BY <1>1, <1>2 DEF UrisDiffer, SourcesSaid
<1>5. SourcesInv
  BY <1>1 DEF PlacedInv
<1>6. LET n == ExpandAll.num["source"]
          slot == ExpandAll.slots["source"]
      IN /\ {<<slot[s].uri, slot[s].part>> : s \in 1..n} = Asked
         /\ Cardinality(Asked) = n
         /\ \A s \in 1..n : slot[s].enable /\ slot[s].type # "multi"
  BY <1>1, <1>4, <1>5, ExpandedAsked
<1>7. QED BY <1>1, <1>3, <1>6, Zenon

\* What GpuPrecedence says of a group.
Precedes(i) ==
  LET g == file[i]
  IN CASE g.kind = "source" -> Enabled(g) /\ UrisDiffer => GpuOfSource(g)
       [] g.kind \in {"secondary-gie", "sink"} ->
            (/\ Enabled(g)
             /\ format = "YAML" => Says({g.kind})
             /\ g.kind = "sink" => ~MutedBefore(i))
              => SlotOf(g.kind, i).gpu_id = Wanted(g)
       [] g.kind \in {"source-attr-all", "primary-gie"} ->
            (Enabled(g) /\ g.kind = "primary-gie") => config.single[g.kind].gpu_id = Wanted(g)
       [] OTHER -> config.single[g.kind].gpu_id = Wanted(g)

\* And its GPUs.
LEMMA CheckGpu == ParserType /\ PlacedInv /\ Check => GpuPrecedence'
<1> SUFFICES ASSUME ParserType, PlacedInv, Check, result' = "accepted"
             PROVE  GpuPrecedence'
  BY DEF GpuPrecedence, Accepted
<1>1. /\ result = "pending" /\ format \in {"INI", "YAML"} /\ format' = format /\ file' = file
      /\ ConfigTyped(config) /\ ExpandAll.fits /\ ExpandKeeps(ExpandAll)
      /\ config'.num = ExpandAll.num /\ config'.slots = ExpandAll.slots /\ config'.single = config.single
  BY CheckAccepts
<1>2. SourcesInv /\ GpuInv
  BY <1>1 DEF PlacedInv
<1>3. \A k : EnabledOf(k)' = EnabledOf(k)
  BY <1>1 DEF EnabledOf, Enabled
<1>4. UrisDiffer' => UrisDiffer
  BY <1>1, <1>3 DEF UrisDiffer
<1>5. \A i \in DOMAIN file : Wanted(file[i])' = Wanted(file[i])
  BY <1>1 DEF Wanted, global_gpu_id
<1>6. \A k : Says({k})' => Says({k})
  BY <1>1 DEF Says
<1>7. \A i : MutedBefore(i)' <=> MutedBefore(i)
  BY <1>1 DEF MutedBefore
<1>8. \A k \in SlotNumbered : \A i \in EnabledOf(k) : SlotOf(k, i)' = SlotOf(k, i)
  <2>1. \A k \in SlotNumbered : config'.slots[k] = config.slots[k]
    BY <1>1 DEF ExpandKeeps, SlotNumbered, SlotKinds
  <2>2. QED BY <1>3, <2>1 DEF SlotOf
<1>9. DOMAIN file' = DOMAIN file /\ \A i \in DOMAIN file : file'[i] = file[i]
  BY <1>1
<1>10. ASSUME NEW i \in DOMAIN file, file[i].kind = "source", Enabled(file[i]), Wanted(file[i]) # NoGpu, UrisDiffer
       PROVE  GpuOfSource(file[i])'
  <2>1. i \in EnabledOf("source")
    BY <1>10 DEF EnabledOf
  <2>2. \A s \in 1..ExpandAll.num["source"] :
          ExpandAll.slots["source"][s].uri = file[i].keys.uri => ExpandAll.slots["source"][s].gpu_id = Wanted(file[i])
    BY <1>1, <1>2, <1>10, <2>1, ExpandedGpu
  <2>3. \A s \in 1..config'.num["source"] :
          config'.slots["source"][s].uri = file'[i].keys.uri => config'.slots["source"][s].gpu_id = Wanted(file[i])'
    BY <1>1, <1>5, <1>9, <2>2, Zenon
  <2>4. QED BY <2>3 DEF GpuOfSource
<1>11. ASSUME NEW i \in DOMAIN file, NEW k \in SlotNumbered, file[i].kind = k, Enabled(file[i]), Wanted(file[i]) # NoGpu,
              format = "YAML" => Says({k}), k = "sink" => ~MutedBefore(i)
       PROVE  SlotOf(k, i)'.gpu_id = Wanted(file[i])
  <2>1. i \in EnabledOf(k)
    BY <1>11 DEF EnabledOf
  <2>2. format = "INI" \/ Says({k})
    BY <1>1, <1>11
  <2>3. GpuServed(k, i)
    BY <1>2, <2>1, <2>2 DEF GpuInv
  <2>4. SlotOf(k, i).gpu_id = Wanted(file[i])
    BY <1>11, <2>3 DEF GpuServed
  <2>5. SlotOf(k, i)' = SlotOf(k, i)
    BY <1>8, <2>1
  <2>6. QED BY <2>4, <2>5
<1>12. ASSUME NEW i \in DOMAIN file, file[i].kind \in AloneKinds,
              file[i].kind = "primary-gie" => Enabled(file[i]), Wanted(file[i]) # NoGpu
       PROVE  config'.single[file[i].kind].gpu_id = Wanted(file[i])
  <2>1. AloneServed(i)
    BY <1>2 DEF GpuInv
  <2>2. config.single[file[i].kind].gpu_id = Wanted(file[i])
    BY <1>12, <2>1 DEF AloneServed
  <2>3. QED BY <1>1, <2>2
<1>13. ASSUME NEW i \in DOMAIN file, file[i].kind \in GpuKinds, Wanted(file[i]) # NoGpu
       PROVE  Precedes(i)'
  <2> PICK k : k = file[i].kind
    OBVIOUS
  <2>1. file'[i] = file[i] /\ file'[i].kind = k /\ Wanted(file[i])' = Wanted(file[i]) /\ (Enabled(file[i])' <=> Enabled(file[i]))
    BY <1>5, <1>9 DEF Enabled
  <2>2. k \in {"source", "source-attr-all"} \cup SlotNumbered \cup AloneKinds
    BY <1>13 DEF GpuKinds, SlotNumbered, AloneKinds
  <2>3. CASE k = "source"
    <3>1. Enabled(file[i])' /\ UrisDiffer' => GpuOfSource(file[i])'
      BY <1>4, <1>10, <1>13, <2>1, <2>3
    <3>2. QED BY <2>1, <2>3, <3>1 DEF Precedes
  <2>4. CASE k \in SlotNumbered
    <3>1. (/\ Enabled(file[i])'
           /\ format' = "YAML" => Says({k})'
           /\ k = "sink" => ~MutedBefore(i)') => SlotOf(k, i)'.gpu_id = Wanted(file[i])
      BY <1>1, <1>6, <1>7, <1>11, <1>13, <2>1, <2>4
    <3>2. SlotOf(file[i].kind, i)' = SlotOf(k, i)'
      BY <2>1 DEF SlotOf, EnabledOf
    <3>3. Says({file[i].kind})' <=> Says({k})'
      BY <2>1 DEF Says
    <3>4. k \in {"secondary-gie", "sink"} /\ k # "source"
      BY <2>4 DEF SlotNumbered
    <3>5. QED BY <2>1, <3>1, <3>2, <3>3, <3>4 DEF Precedes
  <2>5. CASE k \in AloneKinds
    <3>1. (k = "primary-gie" => Enabled(file[i])) => config'.single[k].gpu_id = Wanted(file[i])
      BY <1>12, <1>13, <2>5
    <3>2. k \notin {"source", "secondary-gie", "sink", "source-attr-all"}
      BY <2>5 DEF AloneKinds
    <3>3. QED BY <2>1, <3>1, <3>2 DEF Precedes
  <2>6. CASE k = "source-attr-all"
    BY <2>1, <2>6 DEF Precedes
  <2>7. QED BY <2>2, <2>3, <2>4, <2>5, <2>6
<1>14. \A i \in DOMAIN file' : (file'[i].kind \in GpuKinds /\ Wanted(file[i])' # NoGpu) => Precedes(i)'
  BY <1>5, <1>9, <1>13
<1>15. QED BY <1>14 DEF GpuPrecedence, Precedes

\* Only the checks accept a file.
LEMMA AcceptedOnlyByCheck ==
  ASSUME ParserType, [Next]_vars, result' = "accepted"
  PROVE  Check \/ UNCHANGED vars
<1>1. ReadApp => result' # "accepted"
  <2> SUFFICES ASSUME ReadApp, result' # result PROVE result' # "accepted"
    BY DEF ParserType, ReadApp
  <2> DEFINE p(g) == IF format = "INI" THEN parse_app(g, Target(g)) ELSE parse_app_yaml(g, Target(g))
             next == IF format = "INI" THEN "attr_all" ELSE "groups"
  <2>1. PICK g \in Unread({"application"}) : Goes(p(g).outcome, next)
    BY DEF ReadApp
  <2>2. g \in Groups
    BY UnreadIs DEF ParserType
  <2>3. p(g).outcome \in {"ok", "failed", "thrown"}
    BY <2>2, OutcomesAre DEF parse_app, parse_app_yaml, Parsed
  <2> HIDE DEF p, next
  <2>4. QED BY <2>1, <2>3, GoesIs
<1>2. ReadSourceAll => result' # "accepted"
  <2> SUFFICES ASSUME ReadSourceAll, result' # result PROVE result' # "accepted"
    BY DEF ParserType, ReadSourceAll
  <2> DEFINE p(g) == parse_source_all(g, Before(g))
  <2>1. PICK g \in Unread({"source-attr-all"}) : Goes(p(g).outcome, "list")
    BY DEF ReadSourceAll
  <2>2. p(g).outcome \in {"ok", "failed", "thrown"}
    BY DEF parse_source_all, Parsed
  <2> HIDE DEF p
  <2>3. QED BY <2>1, <2>2, GoesIs
<1>3. ReadSourceList => result' # "accepted"
  <2>1. ReadSourceList => result = "pending"
    BY DEF ParserType, ReadSourceList
  <2>2. QED BY <2>1, SourceListRefused
<1>4. ReadIniGroup => result' # "accepted"
  <2> SUFFICES ASSUME ReadIniGroup PROVE result' # "accepted"
    OBVIOUS
  <2>1. result = "pending"
    BY DEF ParserType, ReadIniGroup
  <2> DEFINE p(g) == ParseIni(g, Before(g))
  <2>2. PICK g \in Unread(IniKinds) : GroupMet(g, p(g), "groups")
    BY IniGroupMet DEF ReadIniGroup
  <2> HIDE DEF p
  <2>3. QED BY <2>1, <2>2 DEF GroupMet
<1>5. ReadYamlGroup => result' # "accepted"
  <2> SUFFICES ASSUME ReadYamlGroup PROVE result' # "accepted"
    OBVIOUS
  <2>1. result = "pending"
    BY DEF ParserType, ReadYamlGroup
  <2> DEFINE p(g) == ParseYaml(g, Before(g))
  <2>2. PICK g \in Unread(YamlKinds) : GroupMet(g, p(g), "groups")
    BY YamlGroupMet DEF ReadYamlGroup
  <2> HIDE DEF p
  <2>3. QED BY <2>1, <2>2 DEF GroupMet
<1>6. ReadRow => result' # "accepted"
  <2> SUFFICES ASSUME ReadRow PROVE result' # "accepted"
    OBVIOUS
  <2>1. result = "pending"
    BY DEF ParserType, ReadRow
  <2> DEFINE p(g) == ParseYaml(g, Before(g))
  <2>2. PICK g \in Unread({"source"}) : GroupMet(g, p(g), "rows")
    BY RowMet DEF ReadRow
  <2> HIDE DEF p
  <2>3. QED BY <2>1, <2>2 DEF GroupMet
<1>7. OpenCsv => result' # "accepted"
  <2> SUFFICES ASSUME OpenCsv PROVE result' # "accepted"
    OBVIOUS
  <2>1. PICK g \in Unread({"source-csv"}) : Goes(YamlOutcome(g), IF g.keys.opens THEN "rows" ELSE "groups")
    BY DEF OpenCsv
  <2>2. YamlOutcome(g) \in {"ok", "failed", "thrown"}
    BY OutcomesAre, UnreadIs DEF ParserType
  <2>3. result = "pending"
    BY DEF ParserType, OpenCsv
  <2>4. QED BY <2>1, <2>2, <2>3, GoesIs
<1>8. EndOfRows => result' # "accepted"
  BY GoesIs DEF ParserType, EndOfRows
<1>9. Unrecognized \/ IgnoreYamlGroup \/ EndOfFile => result' # "accepted"
  BY DEF ParserType, Unrecognized, IgnoreYamlGroup, EndOfFile, End
<1>10. QED BY <1>1, <1>2, <1>3, <1>4, <1>5, <1>6, <1>7, <1>8, <1>9 DEF Next

\* "if gpu_id for ... component is present, it will override the value set using
\* global_gpu_id".
THEOREM GpuAlwaysPrecedes == Spec => []GpuPrecedence
<1>1. Init => GpuPrecedence
  BY DEF Init, GpuPrecedence, Accepted
<1>2. ParserType /\ PlacedInv /\ GpuPrecedence /\ [Next]_vars => GpuPrecedence'
  <2>1. ASSUME UNCHANGED vars, GpuPrecedence PROVE GpuPrecedence'
    <3>1. format' = format /\ file' = file /\ config' = config /\ result' = result
      BY <2>1 DEF vars
    <3>2. ASSUME NEW i
          PROVE  (Precedes(i)' <=> Precedes(i)) /\ Wanted(file[i])' = Wanted(file[i])
      <4>1. Wanted(file[i])' = Wanted(file[i]) /\ (Enabled(file[i])' <=> Enabled(file[i])) /\ (UrisDiffer' <=> UrisDiffer)
            /\ (GpuOfSource(file[i])' <=> GpuOfSource(file[i])) /\ (MutedBefore(i)' <=> MutedBefore(i))
            /\ (Says({file[i].kind})' <=> Says({file[i].kind})) /\ SlotOf(file[i].kind, i)' = SlotOf(file[i].kind, i)
        BY <3>1 DEF Wanted, global_gpu_id, Enabled, UrisDiffer, EnabledOf, GpuOfSource, MutedBefore, Says, SlotOf
      <4>2. QED BY <3>1, <4>1 DEF Precedes
    <3>3. \A i \in DOMAIN file : (Accepted /\ file[i].kind \in GpuKinds /\ Wanted(file[i]) # NoGpu) => Precedes(i)
      BY <2>1 DEF GpuPrecedence, Precedes
    <3>4. \A i \in DOMAIN file' : (Accepted' /\ file'[i].kind \in GpuKinds /\ Wanted(file[i])' # NoGpu) => Precedes(i)'
      BY <3>1, <3>2, <3>3 DEF Accepted
    <3>5. QED BY <3>4 DEF GpuPrecedence, Precedes
  <2>2. result' # "accepted" => GpuPrecedence'
    BY DEF GpuPrecedence, Accepted
  <2>3. QED BY <2>1, <2>2, CheckGpu, AcceptedOnlyByCheck
<1>3. QED BY <1>1, <1>2, ParserInit, ParserNext, SlotsInit, SlotsNext, PlacedInit, PlacedNext, PTL DEF Spec

\* The uris an accepted file stands for are exactly its sources, each once.
THEOREM SourcesAlwaysExpanded == Spec => []SourcesExpanded
<1>1. Init => SourcesExpanded
  BY DEF Init, SourcesExpanded, Accepted
<1>2. ParserType /\ PlacedInv /\ SourcesExpanded /\ [Next]_vars => SourcesExpanded'
  <2>1. ASSUME UNCHANGED vars, SourcesExpanded PROVE SourcesExpanded'
    BY <2>1 DEF vars, SourcesExpanded, Accepted, Enabled, UrisDiffer, SourcesSaid, EnabledOf, Parts
  <2>2. result' # "accepted" => SourcesExpanded'
    BY DEF SourcesExpanded, Accepted
  <2>3. QED BY <2>1, <2>2, CheckExpanded, AcceptedOnlyByCheck
<1>3. QED BY <1>1, <1>2, ParserInit, ParserNext, SlotsInit, SlotsNext, PlacedInit, PlacedNext, PTL DEF Spec

-------------------------------------------------------------------------------
(* The plate parser.  With single characters in the dictionary the plate is as  *)
(* long as there are confidences (WholeLabel), by induction over the labels     *)
(* kept; the invariant keeps that count and what a reported plate was made of.  *)

\* The character positions among the first n labels kept.
Kept(n) == {k \in 1..n : label_indexes[k] # Blank}

\* What one label adds to the plate.
JoinedWith(l, v) == IF v = Blank THEN l ELSE l \o Localize(dictionary[v + 1])

Glyphs == Digits \cup Letters

PlateTyped ==
  /\ dictionary \in Seq(Seq(Characters \ {NUL}))
  /\ p_phase \in {"idle", "read", "undefined", "thrown"}
  /\ {ready, has_conf, has_str} \subseteq BOOLEAN
  /\ label_indexes \in Seq(0..Len(dictionary))
  /\ bank \in Seq(BOOLEAN)
  /\ ready \/ (p_phase = "idle" /\ label_indexes = <<>> /\ bank = <<>>)

\* An entry of one letter or digit is localized to one of them.
LEMMA LocalizedGlyph ==
  ASSUME NEW c \in Glyphs \cup {"q"}
  PROVE  Localize(<<c>>) \in Seq(Glyphs) /\ Len(Localize(<<c>>)) = 1
<1> DEFINE up == [k \in 1..Len(<<c>>) |-> Upper(<<c>>[k])]
<1>1. Upper(c) \in Glyphs
  BY DEF Upper, Glyphs, Digits, Letters
<1>2. up = <<Upper(c)>>
  OBVIOUS
<1>3. up \in Seq(Glyphs) /\ Len(up) = 1
  BY <1>1, <1>2
<1>4. <<"O">> \in Seq(Glyphs) /\ <<"1">> \in Seq(Glyphs) /\ Len(<<"O">>) = 1 /\ Len(<<"1">>) = 1
  BY DEF Glyphs, Digits, Letters
<1>5. Localize(<<c>>) \in {<<"O">>, <<"1">>, up}
  <2> HIDE DEF up
  <2>1. Localize(<<c>>) = CASE up = <<"Q">> -> <<"O">>
                            [] up = <<"J">> -> <<"1">>
                            [] OTHER -> up
    BY Zenon DEF Localize, up
  <2>2. CASE up = <<"Q">>
    <3>1. up # <<"J">>
      BY <2>2
    <3>2. QED BY <2>1, <2>2, <3>1
  <2>3. CASE up = <<"J">>
    BY <2>1, <2>3
  <2>4. CASE up # <<"Q">> /\ up # <<"J">>
    BY <2>1, <2>4
  <2>5. QED BY <2>2, <2>3, <2>4
<1>6. QED BY <1>3, <1>4, <1>5

\* So is each entry of a dictionary of single characters.
LEMMA EntryIsGlyph ==
  ASSUME PlateTyped, SingleCharacters, ready,
         NEW v \in 0..Len(dictionary), v # Blank
  PROVE  Localize(dictionary[v + 1]) \in Seq(Glyphs) /\ Len(Localize(dictionary[v + 1])) = 1
<1>1. v + 1 \in 1..Len(dictionary)
  BY DEF Blank, labels_size, PlateTyped
<1>2. dictionary[v + 1] \in Seq(Characters \ {NUL}) /\ Len(dictionary[v + 1]) = 1
      /\ dictionary[v + 1][1] # "-"
  BY <1>1 DEF PlateTyped, SingleCharacters
<1>3. PICK c \in Characters \ {NUL} : c = dictionary[v + 1][1]
  BY <1>2
<1>4. dictionary[v + 1] = <<c>>
  BY <1>2, <1>3
<1>5. c \in Glyphs \cup {"q"}
  BY <1>2, <1>3 DEF Characters, Glyphs
<1>6. QED BY <1>4, <1>5, LocalizedGlyph

\* The recursive function of Label exists and is what its equation says.
LEMMA LabelEquation ==
  ASSUME label_indexes \in Seq(0..Len(dictionary))
  PROVE  \E f : /\ f[0] = <<>>
                /\ \A k \in 1..Len(label_indexes) :
                     f[k] = JoinedWith(f[k - 1], label_indexes[k])
                /\ Label = f[Len(label_indexes)]
<1> DEFINE n == Len(label_indexes)
           Eq(f, k) == f[k] = IF k = 0 THEN <<>>
                              ELSE IF label_indexes[k] = Blank THEN f[k - 1]
                              ELSE f[k - 1] \o Localize(dictionary[label_indexes[k] + 1])
           Solves(f, m) == f = [k \in 0..m |->
                              IF k = 0 THEN <<>>
                              ELSE IF label_indexes[k] = Blank THEN f[k - 1]
                              ELSE f[k - 1] \o Localize(dictionary[label_indexes[k] + 1])]
           S == {m \in Nat : \E f : Solves(f, m)}
<1>1. n \in Nat
  OBVIOUS
<1>2. 0 \in S
  <2>1. Solves([k \in 0..0 |-> <<>>], 0)
    OBVIOUS
  <2>2. QED BY <2>1
<1>3. ASSUME NEW m \in Nat, m \in S PROVE m + 1 \in S
  <2>1. PICK f : Solves(f, m)
    BY <1>3
  <2> DEFINE next == IF label_indexes[m + 1] = Blank THEN f[m]
                     ELSE f[m] \o Localize(dictionary[label_indexes[m + 1] + 1])
             g == [k \in 0..(m + 1) |-> IF k = m + 1 THEN next ELSE f[k]]
  <2>2. \A k \in 0..m : g[k] = f[k]
    OBVIOUS
  <2>3. g[m + 1] = next
    OBVIOUS
  <2>4. \A k \in 0..m : Eq(f, k)
    BY <2>1
  <2>5. ASSUME NEW k \in 0..(m + 1) PROVE Eq(g, k)
    <3>1. CASE k = m + 1
      <4>1. g[k] = next /\ g[k - 1] = f[m] /\ k # 0
        BY <2>2, <2>3, <3>1
      <4> HIDE DEF g
      <4>2. QED BY <3>1, <4>1
    <3>2. CASE k = 0
      <4>1. g[k] = f[k] /\ Eq(f, k)
        BY <2>2, <2>4, <3>2
      <4> HIDE DEF g
      <4>2. QED BY <3>2, <4>1
    <3>3. CASE k \in 1..m
      <4>1. g[k] = f[k] /\ g[k - 1] = f[k - 1] /\ Eq(f, k) /\ k # 0
        BY <2>2, <2>4, <3>3
      <4> HIDE DEF g
      <4>2. QED BY <4>1
    <3>4. QED BY <3>1, <3>2, <3>3
  <2>6. g = [k \in 0..(m + 1) |-> g[k]]
    OBVIOUS
  <2>7. Solves(g, m + 1)
    <3> HIDE DEF g
    <3>1. QED BY <2>5, <2>6
  <2>8. QED
    <3> HIDE DEF Solves, g
    <3>1. QED BY <2>7
<1>4. PICK f : Solves(f, n)
  <2> HIDE DEF S
  <2>1. n \in S
    BY <1>1, <1>2, <1>3, SetInduction
  <2>2. QED BY <2>1 DEF S
<1> DEFINE j == CHOOSE h : Solves(h, n)
<1>5. Solves(j, n)
  BY <1>4, Zenon
<1>6. Label = j[n]
  BY Zenon DEF Label
<1> HIDE DEF j
<1>7. j[0] = <<>>
  BY <1>1, <1>5
<1>8. \A k \in 1..n : j[k] = JoinedWith(j[k - 1], label_indexes[k])
  <2>1. \A k \in 0..n : Eq(j, k)
    BY <1>5
  <2>2. QED BY <2>1, <1>1 DEF JoinedWith
<1>9. QED BY <1>6, <1>7, <1>8

\* One position more.
LEMMA KeptNext ==
  ASSUME label_indexes \in Seq(0..Len(dictionary)), NEW k \in 1..Len(label_indexes)
  PROVE  /\ IsFiniteSet(Kept(k)) /\ IsFiniteSet(Kept(k - 1))
         /\ label_indexes[k] = Blank => Kept(k) = Kept(k - 1)
         /\ label_indexes[k] # Blank => Cardinality(Kept(k)) = Cardinality(Kept(k - 1)) + 1
<1>1. IsFiniteSet(1..k) /\ IsFiniteSet(1..(k - 1))
  BY FS_Interval
<1>2. Kept(k) \subseteq 1..k /\ Kept(k - 1) \subseteq 1..(k - 1)
  BY DEF Kept
<1>3. IsFiniteSet(Kept(k)) /\ IsFiniteSet(Kept(k - 1))
  BY <1>1, <1>2, FS_Subset
<1>4. label_indexes[k] = Blank => Kept(k) = Kept(k - 1)
  BY DEF Kept
<1>5. ASSUME label_indexes[k] # Blank
      PROVE  Cardinality(Kept(k)) = Cardinality(Kept(k - 1)) + 1
  <2>1. Kept(k) = Kept(k - 1) \cup {k} /\ k \notin Kept(k - 1)
    BY <1>5 DEF Kept
  <2>2. QED BY <1>3, <2>1, FS_AddElement
<1>6. QED BY <1>3, <1>4, <1>5

\* What the concatenation of two sequences is.
LEMMA Joining ==
  ASSUME NEW G, NEW a \in Seq(G), NEW b \in Seq(G)
  PROVE  a \o b \in Seq(G) /\ Len(a \o b) = Len(a) + Len(b)
OBVIOUS

\* With single characters each label that is no separator is one character of the plate.
LEMMA LabelOfGlyphs ==
  ASSUME PlateTyped, SingleCharacters, ready
  PROVE  Label \in Seq(Glyphs) /\ Len(Label) = Cardinality(Kept(Len(label_indexes)))
<1> DEFINE n == Len(label_indexes)
<1>1. label_indexes \in Seq(0..Len(dictionary)) /\ n \in Nat
  BY DEF PlateTyped
<1>2. PICK f : /\ f[0] = <<>>
               /\ \A k \in 1..n : f[k] = JoinedWith(f[k - 1], label_indexes[k])
               /\ Label = f[n]
  BY <1>1, LabelEquation
<1> DEFINE Good(k) == f[k] \in Seq(Glyphs) /\ Len(f[k]) = Cardinality(Kept(k))
           S == {k \in Nat : k <= n => Good(k)}
<1>3. 0 \in S
  <2>1. Kept(0) = {}
    BY DEF Kept
  <2>2. Cardinality(Kept(0)) = 0
    BY <2>1, FS_EmptySet
  <2>3. f[0] \in Seq(Glyphs) /\ Len(f[0]) = 0
    BY <1>2
  <2>4. QED BY <2>2, <2>3
<1>4. ASSUME NEW m \in Nat, m \in S PROVE m + 1 \in S
  <2> SUFFICES ASSUME m + 1 <= n PROVE Good(m + 1)
    OBVIOUS
  <2>1. Good(m) /\ m + 1 \in 1..n
    BY <1>1, <1>4
  <2>2. f[m + 1] = JoinedWith(f[m], label_indexes[m + 1])
    BY <1>2, <2>1
  <2>3. label_indexes[m + 1] \in 0..Len(dictionary)
    BY <1>1, <2>1
  <2>4. /\ label_indexes[m + 1] = Blank => Kept(m + 1) = Kept(m)
        /\ label_indexes[m + 1] # Blank => Cardinality(Kept(m + 1)) = Cardinality(Kept(m)) + 1
    <3>1. (m + 1) - 1 = m
      OBVIOUS
    <3>2. QED BY <1>1, <2>1, <3>1, KeptNext
  <2>5. CASE label_indexes[m + 1] = Blank
    BY <2>1, <2>2, <2>4, <2>5 DEF JoinedWith
  <2>6. CASE label_indexes[m + 1] # Blank
    <3> DEFINE e == Localize(dictionary[label_indexes[m + 1] + 1])
    <3>1. e \in Seq(Glyphs) /\ Len(e) = 1
      BY <2>3, <2>6, EntryIsGlyph
    <3>2. f[m + 1] = f[m] \o e
      BY <2>2, <2>6 DEF JoinedWith
    <3> HIDE DEF e
    <3>3. f[m + 1] \in Seq(Glyphs) /\ Len(f[m + 1]) = Len(f[m]) + 1
      BY <2>1, <3>1, <3>2, Joining
    <3>4. QED BY <2>1, <2>4, <2>6, <3>3
  <2>7. QED BY <2>5, <2>6
<1>5. n \in S
  <2> HIDE DEF S
  <2>1. QED BY <1>1, <1>3, <1>4, SetInduction
<1>6. QED BY <1>1, <1>2, <1>5

\* The first NUL behind a sequence without one ends it.
LEMMA WholeCString ==
  ASSUME NEW l \in Seq(Glyphs)
  PROVE  CString(l) = l
<1> DEFINE t == l \o <<NUL>>
           I == {i \in 1..Len(t) : t[i] = NUL}
<1>1. Len(t) = Len(l) + 1 /\ t[Len(l) + 1] = NUL /\ \A i \in 1..Len(l) : t[i] = l[i]
  OBVIOUS
<1>2. NUL \notin Glyphs
  BY DEF NUL, Glyphs, Digits, Letters
<1>3. \A i \in 1..Len(l) : l[i] \in Glyphs
  OBVIOUS
<1>4. I = {Len(l) + 1}
  <2> HIDE DEF t
  <2>1. Len(l) \in Nat
    OBVIOUS
  <2>2. \A i \in 1..Len(l) : t[i] # NUL
    BY <1>1, <1>2, <1>3
  <2>3. QED BY <1>1, <2>1, <2>2
<1>5. Min(I) = Len(l) + 1
  <2> HIDE DEF I
  <2>1. QED BY <1>4 DEF Min
<1>6. SelectInSeq(t, LAMBDA c : c = NUL) = Len(l) + 1
  <2>1. SelectInSeq(t, LAMBDA c : c = NUL) = IF I # {} THEN Min(I) ELSE 0
    BY Zenon DEF SelectInSeq
  <2> HIDE DEF I
  <2>2. QED BY <1>4, <1>5, <2>1
<1>7. CString(l) = SubSeq(l, 1, Len(l))
  <2>1. CString(l) = SubSeq(l, 1, SelectInSeq(t, LAMBDA c : c = NUL) - 1)
    BY Zenon DEF CString
  <2>2. (Len(l) + 1) - 1 = Len(l)
    OBVIOUS
  <2>3. QED BY <1>6, <2>1, <2>2
<1>8. QED BY <1>7

\* What the mask makes of a label of letters and digits.
LEMMA TransformOfGlyphs ==
  ASSUME NEW label \in Seq(Glyphs), Len(label) >= 4
  PROVE  /\ Transform(label) \in Seq(Glyphs) /\ Len(Transform(label)) = Len(label)
         /\ Transform(label) # label =>
              \A k \in 2..4 : Transform(label)[k] = label[k] /\ label[k] \in Digits
<1> DEFINE l == [k \in 1..Len(label) |-> IF label[k] \in Digits \cup Letters THEN label[k] ELSE NUL]
           Corrected(k) == CASE k = 1 -> As(l[k], FrontLetters)
                             [] k = 5 -> As(l[k], FifthLetters)
                             [] k = 6 -> As(l[k], SixthLetters)
                             [] OTHER -> l[k]
           corrected == [k \in 1..Len(l) |-> Corrected(k)]
<1>1. l = label
  BY DEF Glyphs
<1>2. Transform(label) = IF ~MatchesMask(l) THEN l ELSE corrected
  BY Zenon DEF Transform
<1> HIDE DEF l
<1>3. CASE ~MatchesMask(l)
  <2>1. Transform(label) = label
    BY <1>1, <1>2, <1>3
  <2>2. QED BY <2>1
<1>4. CASE MatchesMask(l)
  <2>1. Transform(label) = corrected
    BY <1>2, <1>4
  <2>2. ASSUME NEW k \in 1..Len(label) PROVE Corrected(k) \in Glyphs
    <3>1. l[k] \in Glyphs
      BY <1>1
    <3>2. ASSUME NEW c \in Glyphs
          PROVE  {As(c, FrontLetters), As(c, FifthLetters), As(c, SixthLetters)} \subseteq Glyphs
      BY DEF As, FrontLetters, FifthLetters, SixthLetters, Glyphs, Digits, Letters
    <3>3. CASE k = 1
      BY <3>1, <3>2, <3>3
    <3>4. CASE k = 5
      BY <3>1, <3>2, <3>4
    <3>5. CASE k = 6
      BY <3>1, <3>2, <3>5
    <3>6. CASE k \notin {1, 5, 6}
      BY <3>1, <3>6
    <3>7. QED BY <3>3, <3>4, <3>5, <3>6
  <2>3. \A k \in 2..4 : Corrected(k) = l[k]
    OBVIOUS
  <2> HIDE DEF Corrected
  <2>4. corrected \in Seq(Glyphs) /\ Len(corrected) = Len(label)
    BY <1>1, <2>2
  <2>5. \A k \in 2..4 : corrected[k] = label[k]
    BY <1>1, <2>3
  <2>6. \A k \in 2..4 : label[k] \in Digits
    BY <1>1, <1>4 DEF MatchesMask
  <2> HIDE DEF corrected
  <2>7. QED BY <2>1, <2>4, <2>5, <2>6
<1>5. QED BY <1>3, <1>4

-------------------------------------------------------------------------------
(* The invariant. *)

\* What is known of a plate that was reported.
Reported ==
  /\ p_phase = "idle" /\ ready
  /\ LongEnough /\ \A k \in 1..Len(bank) : bank[k]
  /\ plate = CString(Transform(Label))

PlateInv ==
  /\ PlateTyped
  /\ ~has_conf => bank = <<>>
  /\ ConfidencePerCharacter
  /\ MINIMAL_CHAR_LEN >= 3 /\ SingleCharacters => p_phase # "undefined"
  /\ plate # <<>> => Reported

\* The invariant holds before the first plate.
LEMMA PlateInitInv == PlateInit => PlateInv
<1> SUFFICES ASSUME PlateInit PROVE PlateInv
  OBVIOUS
<1>1. dictionary \in Seq(Seq(Characters \ {NUL}))
  BY PlateAssumption DEF PlateInit
<1>2. label_indexes \in Seq(0..Len(dictionary)) /\ bank \in Seq(BOOLEAN)
  BY DEF PlateInit
<1>3. {ready, has_conf, has_str} \subseteq BOOLEAN
  BY DEF PlateInit
<1>4. PlateTyped
  BY <1>1, <1>2, <1>3, Zenon DEF PlateInit, PlateTyped
<1>5. QED BY <1>4 DEF PlateInit, PlateInv, ConfidencePerCharacter

\* The characters among the labels kept.
Chars == Cardinality({k \in 1..Len(label_indexes) : label_indexes[k] # Blank})

\* A label that is kept is one character more, or a separator.
LEMMA CharsTaken ==
  ASSUME label_indexes \in Seq(0..Len(dictionary)), NEW v,
         label_indexes' = Append(label_indexes, v), Blank' = Blank
  PROVE  /\ v = Blank => Chars' = Chars
         /\ v # Blank => Chars' = Chars + 1
<1> DEFINE n == Len(label_indexes)
           K == {k \in 1..n : label_indexes[k] # Blank}
           K2 == {k \in 1..Len(label_indexes') : label_indexes'[k] # Blank'}
<1>1. n \in Nat /\ Len(label_indexes') = n + 1
  OBVIOUS
<1>2. (\A k \in 1..n : label_indexes'[k] = label_indexes[k]) /\ label_indexes'[n + 1] = v
  OBVIOUS
<1>3. IsFiniteSet(K)
  <2>1. IsFiniteSet(1..n) /\ K \subseteq 1..n
    BY <1>1, FS_Interval
  <2>2. QED BY <2>1, FS_Subset
<1>4. Chars = Cardinality(K) /\ Chars' = Cardinality(K2)
  BY DEF Chars
<1>5. ASSUME v = Blank PROVE K2 = K
  BY <1>1, <1>2, <1>5
<1>6. ASSUME v # Blank PROVE Cardinality(K2) = Cardinality(K) + 1
  <2>1. K2 = K \cup {n + 1} /\ n + 1 \notin K
    BY <1>1, <1>2, <1>6
  <2>2. QED BY <1>3, <2>1, FS_AddElement
<1> HIDE DEF K, K2
<1>7. QED BY <1>4, <1>5, <1>6

\* Label as an operator of what it depends on.
LabelOf(d, s, blank) ==
  LET joined[k \in 0..Len(s)] ==
        IF k = 0 THEN <<>>
        ELSE IF s[k] = blank THEN joined[k - 1]
        ELSE joined[k - 1] \o Localize(d[s[k] + 1])
  IN joined[Len(s)]

\* The plate of a label stays while its labels do.
LEMMA ReportedStays ==
  ASSUME UNCHANGED <<dictionary, ready, label_indexes, bank>>
  PROVE  Label' = Label /\ LongEnough' = LongEnough /\ Blank' = Blank
<1>1. Blank' = Blank
  BY DEF Blank, labels_size
<1>2. Label = LabelOf(dictionary, label_indexes, Blank)
  BY Zenon DEF Label, LabelOf
<1>3. Label' = LabelOf(dictionary', label_indexes', Blank')
  BY Zenon DEF Label, LabelOf
<1>4. Label' = Label
  BY <1>1, <1>2, <1>3
<1>5. QED BY <1>1, <1>4 DEF LongEnough

\* A label of single characters has as many characters as there are confidences.
LEMMA WholeLabel ==
  ASSUME PlateInv, MINIMAL_CHAR_LEN >= 3, SingleCharacters, LongEnough, p_phase # "thrown"
  PROVE  Label \in Seq(Glyphs) /\ Len(Label) = Len(bank) /\ Len(Label) >= 4
<1>1. bank \in Seq(BOOLEAN) /\ Len(bank) > MINIMAL_CHAR_LEN /\ MINIMAL_CHAR_LEN \in Nat
  BY PlateAssumption DEF PlateInv, PlateTyped, LongEnough
<1>2. Len(bank) >= 4
  BY <1>1
<1>3. bank # <<>>
  BY <1>2
<1>4. has_conf /\ ready
  BY <1>3 DEF PlateInv, PlateTyped
<1>5. Len(bank) = Chars
  BY <1>4 DEF PlateInv, ConfidencePerCharacter, Chars
<1>6. Label \in Seq(Glyphs) /\ Len(Label) = Cardinality(Kept(Len(label_indexes)))
  BY <1>4, LabelOfGlyphs DEF PlateInv
<1>7. Cardinality(Kept(Len(label_indexes))) = Chars
  BY DEF Kept, Chars
<1>8. QED BY <1>2, <1>5, <1>6, <1>7

-------------------------------------------------------------------------------
(* The steps. *)

\* An output that is read leaves the plate of the last call to nobody.
LEMMA OutputTaken ==
  ASSUME PlateInv, NEW v \in 0..Blank, TakeOutput(v)
  PROVE  /\ ready /\ ready' = ready /\ dictionary' = dictionary /\ plate' = <<>>
         /\ p_phase = "read" /\ has_conf' = has_conf /\ has_str' = has_str
         /\ Blank' = Blank /\ v \in 0..Len(dictionary)
         /\ label_indexes' \in Seq(0..Len(dictionary))
         /\ IsNew(v) => label_indexes' = Append(label_indexes, v)
         /\ ~IsNew(v) => label_indexes' = label_indexes
<1>1. p_phase = "read" /\ ready /\ plate = <<>>
  BY DEF TakeOutput, Reading, PlateInv, PlateTyped, Reported
<1>2. v \in 0..Len(dictionary)
  BY <1>1 DEF Blank, labels_size
<1>3. ready' = ready /\ dictionary' = dictionary /\ plate' = plate
      /\ has_conf' = has_conf /\ has_str' = has_str
  BY DEF TakeOutput, call_vars
<1>4. Blank' = Blank
  BY <1>3 DEF Blank, labels_size
<1>5. /\ IsNew(v) => label_indexes' = Append(label_indexes, v)
      /\ ~IsNew(v) => label_indexes' = label_indexes
  BY DEF TakeOutput
<1>6. label_indexes \in Seq(0..Len(dictionary))
  BY DEF PlateInv, PlateTyped
<1>7. label_indexes' \in Seq(0..Len(dictionary))
  <2>1. CASE IsNew(v)
    BY <1>2, <1>5, <1>6, <2>1
  <2>2. CASE ~IsNew(v)
    BY <1>5, <1>6, <2>2
  <2>3. QED BY <2>1, <2>2
<1>8. QED BY <1>1, <1>2, <1>3, <1>4, <1>5, <1>7

\* What ConfidencePerCharacter says, with the count named.
LEMMA ConfidenceIs ==
  /\ ConfidencePerCharacter <=> (has_conf /\ p_phase # "thrown" => Len(bank) = Chars)
  /\ ConfidencePerCharacter' <=> (has_conf' /\ p_phase' # "thrown" => Len(bank') = Chars')
BY DEF ConfidencePerCharacter, Chars

\* What is kept of a call in which no plate has been reported.
LEMMA NoPlate ==
  ASSUME PlateInv, ready, dictionary' = dictionary, ready' = ready,
         UNCHANGED <<has_conf, has_str>>, plate' = <<>>,
         label_indexes' \in Seq(0..Len(dictionary)), bank' \in Seq(BOOLEAN),
         p_phase' \in {"idle", "read", "thrown"},
         ~has_conf => bank' = <<>>, ConfidencePerCharacter'
  PROVE  PlateInv'
<1>1. PlateTyped'
  BY Zenon DEF PlateTyped, PlateInv
<1>2. QED BY <1>1 DEF PlateInv

\* Each step keeps the invariant: a character that is taken brings its confidence
\* with it, and a plate is reported of a label as long as there are confidences.
LEMMA PlateStep ==
  ASSUME PlateInv, [PlateNext]_plate_vars
  PROVE  PlateInv'
<1>1. CASE Start
  <2>1. /\ dictionary' = dictionary /\ ready' = TRUE /\ p_phase' = "read" /\ plate' = <<>>
        /\ label_indexes' = <<>> /\ bank' = <<>> /\ has_conf' \in BOOLEAN /\ has_str' \in BOOLEAN
    BY <1>1 DEF Start
  <2>2. PlateTyped'
    <3>1. label_indexes' \in Seq(0..Len(dictionary')) /\ bank' \in Seq(BOOLEAN)
      BY <2>1
    <3>2. {ready, has_conf, has_str}' \subseteq BOOLEAN
      BY <2>1
    <3>3. QED BY <2>1, <3>1, <3>2, Zenon DEF PlateTyped, PlateInv
  <2>3. Chars' = 0
    <3>1. {k \in 1..Len(label_indexes') : label_indexes'[k] # Blank'} = {}
      BY <2>1
    <3>2. QED BY <3>1, FS_EmptySet DEF Chars
  <2>4. Len(bank') = 0
    BY <2>1
  <2>5. QED BY <2>1, <2>2, <2>3, <2>4, ConfidenceIs DEF PlateInv
<1>2. CASE SkipOutput \/ NoOutputs
  <2>1. /\ p_phase = "read" /\ p_phase' = p_phase /\ dictionary' = dictionary /\ ready' = ready
        /\ has_conf' = has_conf /\ has_str' = has_str /\ plate' = plate
        /\ label_indexes' = label_indexes /\ bank' = bank
    BY <1>2 DEF SkipOutput, NoOutputs, Reading, call_vars
  <2>2. ready /\ plate = <<>>
    BY <2>1 DEF PlateInv, PlateTyped, Reported
  <2>3. ConfidencePerCharacter'
    BY <2>1, ReportedStays DEF PlateInv, ConfidencePerCharacter
  <2>4. QED BY <2>1, <2>2, <2>3, NoPlate DEF PlateInv, PlateTyped
<1>3. CASE PlainOutput
  <2>1. PICK v \in 0..Blank : ~HasConfidence(v) /\ TakeOutput(v) /\ UNCHANGED <<bank, p_phase>>
    BY <1>3 DEF PlainOutput
  <2>2. /\ ready /\ ready' = ready /\ dictionary' = dictionary /\ plate' = <<>>
        /\ p_phase = "read" /\ has_conf' = has_conf /\ has_str' = has_str
        /\ Blank' = Blank /\ v \in 0..Len(dictionary)
        /\ label_indexes' \in Seq(0..Len(dictionary))
        /\ IsNew(v) => label_indexes' = Append(label_indexes, v)
        /\ ~IsNew(v) => label_indexes' = label_indexes
    BY <2>1, OutputTaken
  <2>3. has_conf => Chars' = Chars
    <3>1. CASE ~IsNew(v)
      BY <2>2, <3>1 DEF Chars
    <3>2. CASE IsNew(v) /\ v = Blank
      BY <2>2, <3>2, CharsTaken DEF PlateInv, PlateTyped
    <3>3. QED BY <2>1, <3>1, <3>2 DEF HasConfidence
  <2>4. ConfidencePerCharacter'
    BY <2>1, <2>2, <2>3, ConfidenceIs DEF PlateInv
  <2>5. QED BY <2>1, <2>2, <2>4, NoPlate DEF PlateInv, PlateTyped
<1>4. CASE CharacterOutput
  <2>1. PICK v \in 0..Blank, enough \in BOOLEAN :
          /\ HasConfidence(v) /\ TakeOutput(v)
          /\ IF Len(bank) < SOFTMAX_SIZE
               THEN bank' = Append(bank, enough) /\ UNCHANGED p_phase
               ELSE p_phase' = "thrown" /\ UNCHANGED bank
    BY <1>4 DEF CharacterOutput
  <2>2. /\ ready /\ ready' = ready /\ dictionary' = dictionary /\ plate' = <<>>
        /\ p_phase = "read" /\ has_conf' = has_conf /\ has_str' = has_str
        /\ Blank' = Blank /\ v \in 0..Len(dictionary)
        /\ label_indexes' \in Seq(0..Len(dictionary))
        /\ IsNew(v) => label_indexes' = Append(label_indexes, v)
    BY <2>1, OutputTaken
  <2>3. has_conf /\ IsNew(v) /\ v # Blank
    BY <2>1 DEF HasConfidence
  <2>4. bank \in Seq(BOOLEAN) /\ label_indexes \in Seq(0..Len(dictionary))
    BY DEF PlateInv, PlateTyped
  <2>5. CASE Len(bank) < SOFTMAX_SIZE
    <3>1. bank' = Append(bank, enough) /\ p_phase' = p_phase
      BY <2>1, <2>5
    <3>2. Chars' = Chars + 1
      BY <2>2, <2>3, <2>4, CharsTaken
    <3>3. Len(bank') = Len(bank) + 1 /\ bank' \in Seq(BOOLEAN)
      BY <2>4, <3>1
    <3>4. Len(bank) = Chars
      BY <2>2, <2>3, ConfidenceIs DEF PlateInv
    <3>5. ConfidencePerCharacter'
      BY <3>2, <3>3, <3>4, ConfidenceIs
    <3>6. QED BY <2>2, <2>3, <3>1, <3>3, <3>5, NoPlate
  <2>6. CASE ~(Len(bank) < SOFTMAX_SIZE)
    <3>1. bank' = bank /\ p_phase' = "thrown"
      BY <2>1, <2>6
    <3>2. ConfidencePerCharacter'
      BY <3>1, ConfidenceIs
    <3>3. QED BY <2>2, <2>3, <2>4, <3>1, <3>2, NoPlate
  <2>7. QED BY <2>5, <2>6
<1>5. CASE TooShort
  <2>1. /\ p_phase = "read" /\ p_phase' = "idle" /\ dictionary' = dictionary /\ ready' = ready
        /\ has_conf' = has_conf /\ has_str' = has_str /\ plate' = plate
        /\ label_indexes' = label_indexes /\ bank' = bank
    BY <1>5 DEF TooShort, Ended, call_vars, decode_vars
  <2>2. ready /\ plate = <<>>
    BY <2>1 DEF PlateInv, PlateTyped, Reported
  <2>3. ConfidencePerCharacter'
    BY <2>1, ReportedStays DEF PlateInv, ConfidencePerCharacter
  <2>4. QED BY <2>1, <2>2, <2>3, NoPlate DEF PlateInv, PlateTyped
<1>6. CASE MaskOverrun
  <2>1. /\ p_phase = "read" /\ p_phase' = "undefined" /\ dictionary' = dictionary /\ ready' = ready
        /\ has_conf' = has_conf /\ has_str' = has_str /\ plate' = plate
        /\ label_indexes' = label_indexes /\ bank' = bank /\ LongEnough /\ Len(Label) < 4
    BY <1>6 DEF MaskOverrun, Ended, call_vars, decode_vars
  <2>2. ready /\ plate = <<>>
    BY <2>1 DEF PlateInv, PlateTyped, Reported
  <2>3. ~(MINIMAL_CHAR_LEN >= 3 /\ SingleCharacters)
    <3>1. SUFFICES ASSUME MINIMAL_CHAR_LEN >= 3, SingleCharacters PROVE FALSE
      OBVIOUS
    <3>2. Label \in Seq(Glyphs) /\ Len(Label) >= 4
      BY <2>1, <3>1, WholeLabel
    <3>3. Len(Label) \in Nat
      BY <3>2
    <3>4. QED BY <2>1, <3>2, <3>3
  <2>4. ConfidencePerCharacter'
    BY <2>1, ReportedStays DEF PlateInv, ConfidencePerCharacter
  <2>5. PlateTyped'
    BY <2>1, <2>2 DEF PlateInv, PlateTyped
  <2>6. SingleCharacters' = SingleCharacters
    BY <2>1 DEF SingleCharacters
  <2>7. QED BY <2>1, <2>2, <2>3, <2>4, <2>5, <2>6 DEF PlateInv
<1>7. CASE Report
  <2>1. /\ p_phase = "read" /\ p_phase' = "idle" /\ dictionary' = dictionary /\ ready' = ready
        /\ has_conf' = has_conf /\ has_str' = has_str
        /\ label_indexes' = label_indexes /\ bank' = bank /\ LongEnough
    BY <1>7 DEF Report, Ended, call_vars, decode_vars
  <2>2. ready
    BY <2>1 DEF PlateInv, PlateTyped
  <2>3. plate' = IF \A k \in 1..Len(bank) : bank[k] THEN CString(Transform(Label)) ELSE <<>>
    BY <1>7, Zenon DEF Report
  <2>4. ConfidencePerCharacter'
    BY <2>1, ReportedStays DEF PlateInv, ConfidencePerCharacter
  <2>5. PlateTyped'
    BY <2>1, <2>2 DEF PlateInv, PlateTyped
  <2>6. plate' # <<>> => Reported'
    <3>1. Label' = Label /\ LongEnough' = LongEnough
      BY <2>1, ReportedStays
    <3>2. ASSUME plate' # <<>>
          PROVE  plate' = CString(Transform(Label)) /\ \A k \in 1..Len(bank) : bank[k]
      BY <2>3, <3>2
    <3>3. QED BY <2>1, <2>2, <3>1, <3>2 DEF Reported
  <2>7. QED BY <2>1, <2>4, <2>5, <2>6 DEF PlateInv
<1>8. CASE UNCHANGED plate_vars
  <2>1. /\ p_phase' = p_phase /\ dictionary' = dictionary /\ ready' = ready
        /\ has_conf' = has_conf /\ has_str' = has_str /\ plate' = plate
        /\ label_indexes' = label_indexes /\ bank' = bank
    BY <1>8 DEF plate_vars, call_vars, decode_vars
  <2>2. Label' = Label /\ LongEnough' = LongEnough /\ Blank' = Blank
    BY <2>1, ReportedStays
  <2>3. ConfidencePerCharacter'
    BY <2>1, <2>2 DEF PlateInv, ConfidencePerCharacter
  <2>4. PlateTyped'
    BY <2>1 DEF PlateInv, PlateTyped
  <2>5. Reported => Reported'
    BY <2>1, <2>2 DEF Reported
  <2>6. SingleCharacters' = SingleCharacters
    BY <2>1 DEF SingleCharacters
  <2>7. QED BY <2>1, <2>3, <2>4, <2>5, <2>6 DEF PlateInv
<1>9. QED BY <1>1, <1>2, <1>3, <1>4, <1>5, <1>6, <1>7, <1>8 DEF PlateNext

\* The invariant gives the property: nothing of the label is lost in the report.
LEMMA ReportedIsWhole ==
  ASSUME PlateInv, MINIMAL_CHAR_LEN >= 3
  PROVE  PlatesAreWhole
<1> SUFFICES ASSUME SingleCharacters, plate # <<>>
             PROVE  /\ Len(plate) = Len(bank) /\ Len(plate) > MINIMAL_CHAR_LEN
                    /\ \A k \in 1..Len(bank) : bank[k]
                    /\ plate # Label =>
                         \A k \in 2..4 : plate[k] = Label[k] /\ plate[k] \in Digits
  BY DEF PlateInv, PlatesAreWhole
<1>1. Reported
  BY DEF PlateInv
<1>2. Label \in Seq(Glyphs) /\ Len(Label) = Len(bank) /\ Len(Label) >= 4
  BY <1>1, WholeLabel DEF Reported
<1>3. /\ Transform(Label) \in Seq(Glyphs) /\ Len(Transform(Label)) = Len(Label)
      /\ Transform(Label) # Label =>
           \A k \in 2..4 : Transform(Label)[k] = Label[k] /\ Label[k] \in Digits
  BY <1>2, TransformOfGlyphs
<1>4. plate = Transform(Label)
  BY <1>1, <1>3, WholeCString DEF Reported
<1>5. Len(bank) > MINIMAL_CHAR_LEN /\ \A k \in 1..Len(bank) : bank[k]
  BY <1>1 DEF Reported, LongEnough
<1>6. QED BY <1>2, <1>3, <1>4, <1>5

\* For a minimum of at least three characters, which is what the code has: with a
\* dictionary of single letters and digits no call reads behind a label, and a plate
\* that is reported has all the characters read, each with enough confidence, and
\* those of its mask are digits that stay (nvinfer_custom_lpr_parser.cpp tests the
\* confidences and then reads the label).
THEOREM PlatesAlwaysWhole ==
  ASSUME MINIMAL_CHAR_LEN >= 3
  PROVE  PlateSpec => []PlatesAreWhole
<1>1. PlateInv /\ [PlateNext]_plate_vars => PlateInv'
  BY PlateStep
<1>2. PlateInv => PlatesAreWhole
  BY ReportedIsWhole
<1>3. QED BY PlateInitInv, <1>1, <1>2, PTL DEF PlateSpec

-------------------------------------------------------------------------------
(* The labels kept are the changes of the reading, in its order: prev is the   *)
(* last label there was, so that a label is new exactly where it differs from  *)
(* the one before, and one that is kept takes the next place (Joins).          *)

\* What prev is: the last label there was.
PrevInv ==
  \/ Valid = {} /\ prev = InitialPrev
  \/ \E j \in Valid : (\A i \in Valid : i <= j) /\ prev = read[j]

Upto(k) == {j \in Changes : j <= k}

Joins ==
  /\ Len(label_indexes) = Cardinality(Changes)
  /\ \A k \in Changes : label_indexes[Cardinality(Upto(k))] = read[k]

RunsInv ==
  /\ read \in Seq(Int)
  /\ ready /\ Len(dictionary) < InitialPrev => PrevInv /\ Joins

\* One output more leaves what was read before as it is.
LEMMA ValidOn ==
  ASSUME read \in Seq(Int), NEW v \in Int, read' = Append(read, v), Blank' = Blank
  PROVE  LET n == Len(read) IN
         /\ n \in Nat /\ Len(read') = n + 1 /\ read'[n + 1] = v
         /\ \A k \in 1..n : read'[k] = read[k]
         /\ v \in 0..Blank => Valid' = Valid \cup {n + 1}
         /\ v \notin 0..Blank => Valid' = Valid
<1> DEFINE n == Len(read)
<1>1. n \in Nat /\ Len(read') = n + 1 /\ read'[n + 1] = v
  OBVIOUS
<1>2. \A k \in 1..n : read'[k] = read[k]
  OBVIOUS
<1>3. 1..(n + 1) = 1..n \cup {n + 1}
  BY <1>1
<1>4. Valid' = {k \in 1..(n + 1) : read'[k] \in 0..Blank}
  BY <1>1 DEF Valid
<1> HIDE DEF n
<1>5. Valid = {k \in 1..n : read[k] \in 0..Blank}
  BY DEF Valid, n
<1>6. ASSUME v \in 0..Blank PROVE Valid' = Valid \cup {n + 1}
  BY <1>1, <1>2, <1>3, <1>4, <1>5, <1>6
<1>7. ASSUME v \notin 0..Blank PROVE Valid' = Valid
  BY <1>1, <1>2, <1>3, <1>4, <1>5, <1>7
<1>8. QED BY <1>1, <1>2, <1>6, <1>7 DEF n

\* Where the labels are.
LEMMA ValidIn ==
  ASSUME read \in Seq(Int)
  PROVE  Valid \subseteq 1..Len(read) /\ Changes \subseteq Valid /\ Valid \subseteq Nat
BY DEF Valid, Changes

\* What was a change stays one.
LEMMA ChangesStay ==
  ASSUME read \in Seq(Int), NEW v \in Int, read' = Append(read, v), Blank' = Blank
  PROVE  /\ \A k \in 1..Len(read) : k \in Changes' <=> k \in Changes
         /\ v \notin 0..Blank => Changes' = Changes
<1> DEFINE n == Len(read)
<1>1. /\ n \in Nat /\ Len(read') = n + 1 /\ read'[n + 1] = v
      /\ \A k \in 1..n : read'[k] = read[k]
      /\ v \in 0..Blank => Valid' = Valid \cup {n + 1}
      /\ v \notin 0..Blank => Valid' = Valid
  BY ValidOn
<1>2. Valid \subseteq 1..n /\ Changes \subseteq Valid
  BY ValidIn
<1> HIDE DEF n
<1>3. \A k \in 1..n : k \in Valid' <=> k \in Valid
  BY <1>1
<1>4. \A k \in Valid' : k \in Valid \/ k = n + 1
  BY <1>1
<1>5. ASSUME NEW k \in 1..n PROVE k \in Changes' <=> k \in Changes
  <2>1. ASSUME NEW j \in Valid, j < k
        PROVE  (\A i \in (j + 1)..(k - 1) : i \notin Valid')
                 <=> (\A i \in (j + 1)..(k - 1) : i \notin Valid)
    <3>1. \A i \in (j + 1)..(k - 1) : i \in 1..n
      BY <1>1, <1>2, <2>1
    <3>2. QED BY <3>1, <1>3
  <2>2. \A j \in Valid' : j < k => j \in Valid
    BY <1>1, <1>4
  <2>3. \A j \in Valid : j \in Valid' /\ read'[j] = read[j]
    BY <1>1, <1>2
  <2>4. read'[k] = read[k]
    BY <1>1
  <2>5. k \in Changes' <=> k \in Valid' /\ \A j \in Valid' :
          (j < k /\ \A i \in (j + 1)..(k - 1) : i \notin Valid') => read'[j] # read'[k]
    BY DEF Changes
  <2>6. k \in Changes <=> k \in Valid /\ \A j \in Valid :
          (j < k /\ \A i \in (j + 1)..(k - 1) : i \notin Valid) => read[j] # read[k]
    BY DEF Changes
  <2>7. ASSUME k \in Changes PROVE k \in Changes'
    <3>1. ASSUME NEW j \in Valid', j < k, \A i \in (j + 1)..(k - 1) : i \notin Valid'
          PROVE  read'[j] # read'[k]
      <4>1. j \in Valid
        BY <2>2, <3>1
      <4>2. \A i \in (j + 1)..(k - 1) : i \notin Valid
        BY <2>1, <3>1, <4>1
      <4>3. read[j] # read[k]
        BY <2>6, <2>7, <3>1, <4>1, <4>2
      <4>4. QED BY <2>3, <2>4, <4>1, <4>3
    <3>2. k \in Valid'
      BY <1>3, <2>6, <2>7
    <3>3. QED BY <2>5, <3>1, <3>2
  <2>8. ASSUME k \in Changes' PROVE k \in Changes
    <3>1. ASSUME NEW j \in Valid, j < k, \A i \in (j + 1)..(k - 1) : i \notin Valid
          PROVE  read[j] # read[k]
      <4>1. j \in Valid'
        BY <2>3
      <4>2. \A i \in (j + 1)..(k - 1) : i \notin Valid'
        BY <2>1, <3>1
      <4>3. read'[j] # read'[k]
        BY <2>5, <2>8, <3>1, <4>1, <4>2
      <4>4. QED BY <2>3, <2>4, <4>3
    <3>2. k \in Valid
      BY <1>3, <2>5, <2>8
    <3>3. QED BY <2>6, <3>1, <3>2
  <2>9. QED BY <2>7, <2>8
<1>6. ASSUME v \notin 0..Blank PROVE Changes' = Changes
  <2>1. Changes' \subseteq Valid'
    BY DEF Changes
  <2>2. Valid' \subseteq 1..n /\ Changes \subseteq 1..n
    BY <1>1, <1>2, <1>6
  <2>3. QED BY <1>5, <2>1, <2>2
<1>7. QED BY <1>5, <1>6 DEF n

\* A label is a change exactly if it is not the last one there was.
LEMMA ChangeIsNew ==
  ASSUME read \in Seq(Int), NEW v \in 0..Blank, read' = Append(read, v), Blank' = Blank,
         Blank \in Nat, Blank < InitialPrev, PrevInv
  PROVE  /\ IsNew(v) => Changes' = Changes \cup {Len(read) + 1}
         /\ ~IsNew(v) => Changes' = Changes
<1> DEFINE n == Len(read)
<1>0. v \in Int
  OBVIOUS
<1>1. /\ n \in Nat /\ Len(read') = n + 1 /\ read'[n + 1] = v
      /\ \A k \in 1..n : read'[k] = read[k]
      /\ Valid' = Valid \cup {n + 1}
  BY <1>0, ValidOn
<1>2. Valid \subseteq 1..n /\ Changes \subseteq Valid
  BY ValidIn
<1>3. \A k \in 1..n : k \in Changes' <=> k \in Changes
  BY <1>0, ChangesStay
<1>4. Changes' \subseteq Valid'
  BY DEF Changes
<1> HIDE DEF n
<1>5. Changes' \subseteq Changes \cup {n + 1} /\ Changes \subseteq Changes'
  BY <1>1, <1>2, <1>3, <1>4
<1>6. n + 1 \in Changes' <=> \A j \in Valid' :
        (j < n + 1 /\ \A i \in (j + 1)..((n + 1) - 1) : i \notin Valid') => read'[j] # read'[n + 1]
  BY <1>1 DEF Changes
<1>7. IsNew(v) <=> n + 1 \in Changes'
  <2>1. CASE Valid = {} /\ prev = InitialPrev
    <3>1. v # prev
      BY <2>1, PlateAssumption
    <3>2. n + 1 \in Changes'
      BY <1>1, <1>6, <2>1
    <3>3. QED BY <3>1, <3>2 DEF IsNew
  <2>2. CASE \E j \in Valid : (\A i \in Valid : i <= j) /\ prev = read[j]
    <3>1. PICK j \in Valid : (\A i \in Valid : i <= j) /\ prev = read[j]
      BY <2>2
    <3>2. j \in 1..n /\ read'[j] = read[j]
      BY <1>1, <1>2, <3>1
    <3>3. IsNew(v) <=> v # read[j]
      <4>1. read # <<>>
        BY <3>2 DEF n
      <4>2. QED BY <3>1, <4>1 DEF IsNew
    <3>4. ASSUME n + 1 \in Changes' PROVE v # read[j]
      <4>1. \A i \in (j + 1)..((n + 1) - 1) : i \notin Valid'
        <5>1. \A i \in (j + 1)..((n + 1) - 1) : i \in Int /\ i > j /\ i # n + 1
          BY <1>1, <3>2
        <5>2. \A i \in Valid : ~(i > j)
          BY <1>1, <1>2, <3>1, <3>2
        <5>3. QED BY <1>1, <5>1, <5>2
      <4>2. j \in Valid' /\ j < n + 1
        BY <1>1, <3>2
      <4>3. read'[j] # read'[n + 1]
        BY <1>6, <3>4, <4>1, <4>2
      <4>4. QED BY <1>1, <3>2, <4>3
    <3>5. ASSUME v # read[j] PROVE n + 1 \in Changes'
      <4>1. ASSUME NEW l \in Valid', l < n + 1,
                   \A i \in (l + 1)..((n + 1) - 1) : i \notin Valid'
            PROVE  read'[l] # read'[n + 1]
        <5>1. l \in Valid /\ l <= j /\ l \in 1..n
          BY <1>1, <1>2, <3>1, <4>1
        <5>2. l = j
          <6>1. SUFFICES ASSUME l < j PROVE FALSE
            BY <5>1, <3>2
          <6>2. j \in (l + 1)..((n + 1) - 1)
            BY <1>1, <3>2, <5>1, <6>1
          <6>3. QED BY <1>1, <3>1, <4>1, <6>2
        <5>3. QED BY <1>1, <3>2, <3>5, <5>2
      <4>2. QED BY <1>6, <4>1
    <3>6. QED BY <3>3, <3>4, <3>5
  <2>3. QED BY <2>1, <2>2 DEF PrevInv
<1>8. QED BY <1>5, <1>7 DEF n

\* The changes are finitely many, and each has a place among them.
LEMMA ChangesCounted ==
  ASSUME read \in Seq(Int)
  PROVE  /\ IsFiniteSet(Changes) /\ Cardinality(Changes) \in Nat
         /\ Len(read) + 1 \notin Changes
         /\ \A k \in Changes : Cardinality(Upto(k)) \in 1..Cardinality(Changes)
<1>1. Changes \subseteq 1..Len(read) /\ Len(read) \in Nat
  BY ValidIn
<1>2. IsFiniteSet(1..Len(read))
  BY <1>1, FS_Interval
<1>3. IsFiniteSet(Changes) /\ Cardinality(Changes) \in Nat
  BY <1>1, <1>2, FS_Subset, FS_CardinalityType
<1>4. ASSUME NEW k \in Changes PROVE Cardinality(Upto(k)) \in 1..Cardinality(Changes)
  <2>1. Upto(k) \subseteq Changes /\ k \in Upto(k)
    BY <1>1 DEF Upto
  <2>2. IsFiniteSet(Upto(k)) /\ Cardinality(Upto(k)) <= Cardinality(Changes)
    BY <1>3, <2>1, FS_Subset
  <2>3. Cardinality(Upto(k)) \in Nat /\ Cardinality(Upto(k)) # 0
    BY <2>1, <2>2, FS_CardinalityType, FS_EmptySet
  <2>4. QED BY <1>3, <2>2, <2>3
<1>5. QED BY <1>1, <1>3, <1>4

\* A label taken is kept exactly if it is a change.
LEMMA JoinsTaken ==
  ASSUME read \in Seq(Int), label_indexes \in Seq(0..Len(dictionary)),
         NEW v \in 0..Blank, Blank \in Nat, Blank < InitialPrev,
         read' = Append(read, v), Blank' = Blank, prev' = v,
         IsNew(v) => label_indexes' = Append(label_indexes, v),
         ~IsNew(v) => label_indexes' = label_indexes,
         PrevInv, Joins
  PROVE  PrevInv' /\ Joins'
<1> DEFINE n == Len(read)
           m == Len(label_indexes)
<1>0. v \in Int
  OBVIOUS
<1>1. /\ n \in Nat /\ Len(read') = n + 1 /\ read'[n + 1] = v
      /\ \A k \in 1..n : read'[k] = read[k]
      /\ Valid' = Valid \cup {n + 1}
  BY <1>0, ValidOn
<1>2. Valid \subseteq 1..n /\ Changes \subseteq 1..n
  BY ValidIn
<1>3. PrevInv'
  <2>1. n + 1 \in Valid' /\ prev' = read'[n + 1]
    BY <1>1
  <2>2. \A i \in Valid' : i <= n + 1
    BY <1>1, <1>2
  <2>3. QED BY <2>1, <2>2 DEF PrevInv
<1>4. /\ IsFiniteSet(Changes) /\ Cardinality(Changes) \in Nat
      /\ n + 1 \notin Changes
      /\ \A k \in Changes : Cardinality(Upto(k)) \in 1..Cardinality(Changes)
  BY ChangesCounted
<1>5. m = Cardinality(Changes) /\ \A k \in Changes : label_indexes[Cardinality(Upto(k))] = read[k]
  BY DEF Joins
<1>6. CASE ~IsNew(v)
  <2>1. Changes' = Changes /\ label_indexes' = label_indexes
    BY <1>6, ChangeIsNew
  <2>2. \A k \in Changes : Upto(k)' = Upto(k)
    BY <2>1 DEF Upto
  <2>3. QED BY <1>1, <1>2, <1>3, <1>5, <2>1, <2>2 DEF Joins
<1>7. CASE IsNew(v)
  <2>1. Changes' = Changes \cup {n + 1} /\ label_indexes' = Append(label_indexes, v)
    BY <1>7, ChangeIsNew
  <2>2. Cardinality(Changes') = m + 1
    BY <1>4, <1>5, <2>1, FS_AddElement
  <2>3. Len(label_indexes') = m + 1 /\ label_indexes'[m + 1] = v
        /\ \A k \in 1..m : label_indexes'[k] = label_indexes[k]
    BY <2>1
  <2> HIDE DEF n, m
  <2>4. ASSUME NEW k \in Changes'
        PROVE  label_indexes'[Cardinality({j \in Changes' : j <= k})] = read'[k]
    <3>1. CASE k = n + 1
      <4>1. {j \in Changes' : j <= k} = Changes'
        <5>1. \A j \in Changes' : j <= k
          BY <1>1, <1>2, <2>1, <3>1
        <5>2. QED BY <5>1
      <4>2. QED BY <1>1, <2>2, <2>3, <3>1, <4>1
    <3>2. CASE k \in Changes
      <4>1. {j \in Changes' : j <= k} = Upto(k)
        BY <1>1, <1>2, <2>1, <3>2 DEF Upto
      <4>2. Cardinality(Upto(k)) \in 1..m
        BY <1>4, <1>5, <3>2
      <4>3. read'[k] = read[k]
        BY <1>1, <1>2, <3>2
      <4>4. QED BY <1>5, <2>3, <3>2, <4>1, <4>2, <4>3
    <3>3. QED BY <2>1, <3>1, <3>2
  <2>5. QED BY <1>3, <2>2, <2>3, <2>4 DEF Joins, Upto
<1>8. QED BY <1>6, <1>7

\* An output that is no label leaves what was read before as it is.
LEMMA JoinsSkipped ==
  ASSUME read \in Seq(Int), NEW v \in Int, v \notin 0..Blank,
         read' = Append(read, v), Blank' = Blank, prev' = prev,
         label_indexes' = label_indexes, PrevInv, Joins
  PROVE  PrevInv' /\ Joins'
<1>1. /\ Valid' = Valid /\ \A k \in 1..Len(read) : read'[k] = read[k]
  BY ValidOn
<1>2. Changes' = Changes
  BY ChangesStay
<1>3. Valid \subseteq 1..Len(read) /\ Changes \subseteq 1..Len(read)
  BY ValidIn
<1>4. PrevInv'
  BY <1>1, <1>3 DEF PrevInv
<1>5. \A k \in Changes : Upto(k)' = Upto(k) /\ read'[k] = read[k]
  BY <1>1, <1>2, <1>3 DEF Upto
<1>6. Joins'
  <2>1. Cardinality(Changes)' = Cardinality(Changes)
    BY <1>2
  <2>2. ASSUME NEW k \in Changes'
        PROVE  label_indexes'[Cardinality({j \in Changes' : j <= k})] = read'[k]
    <3>1. {j \in Changes' : j <= k} = Upto(k)
      BY <1>2 DEF Upto
    <3>2. QED BY <1>2, <1>5, <3>1 DEF Joins
  <2>3. QED BY <1>2, <2>1, <2>2 DEF Joins, Upto
<1>7. QED BY <1>4, <1>6

\* Nothing has been read before the first plate.
LEMMA RunsInitInv == PlateInit => RunsInv
BY DEF PlateInit, RunsInv

\* Each output read keeps the labels joined.
LEMMA RunsStep ==
  ASSUME PlateInv, RunsInv, [PlateNext]_plate_vars
  PROVE  RunsInv'
<1>0. read \in Seq(Int) /\ label_indexes \in Seq(0..Len(dictionary)) /\ Len(dictionary) \in Nat
      /\ OutputValues \subseteq Int
  BY PlateAssumption DEF RunsInv, PlateInv, PlateTyped
<1>1. CASE Start
  <2>1. read' = <<>> /\ label_indexes' = <<>> /\ prev' = InitialPrev
    BY <1>1 DEF Start
  <2>2. Valid' = {} /\ Changes' = {}
    BY <2>1 DEF Valid, Changes
  <2>3. PrevInv' /\ Joins'
    BY <2>1, <2>2, FS_EmptySet DEF PrevInv, Joins
  <2>4. read' \in Seq(Int)
    BY <2>1
  <2>5. QED BY <2>3, <2>4 DEF RunsInv
<1>2. CASE SkipOutput \/ NoOutputs
  <2>1. /\ p_phase = "read" /\ dictionary' = dictionary /\ ready' = ready
        /\ label_indexes' = label_indexes /\ prev' = prev
    BY <1>2 DEF SkipOutput, NoOutputs, Reading
  <2>2. PICK v \in Int : v \notin 0..Blank /\ read' = Append(read, v)
    <3>1. CASE SkipOutput
      BY <1>0, <3>1 DEF SkipOutput
    <3>2. CASE NoOutputs
      <4>1. -1 \in Int /\ -1 \notin 0..Blank
        BY <1>0 DEF Blank, labels_size
      <4>2. QED BY <3>2, <4>1 DEF NoOutputs
    <3>3. QED BY <1>2, <3>1, <3>2
  <2>3. Blank' = Blank
    BY <2>1 DEF Blank, labels_size
  <2>4. read' \in Seq(Int)
    BY <1>0, <2>2
  <2>5. ASSUME ready, Len(dictionary) < InitialPrev PROVE PrevInv' /\ Joins'
    <3>1. PrevInv /\ Joins
      BY <2>5 DEF RunsInv
    <3>2. QED BY <1>0, <2>1, <2>2, <2>3, <3>1, JoinsSkipped
  <2>6. QED BY <2>1, <2>4, <2>5 DEF RunsInv
<1>3. CASE PlainOutput \/ CharacterOutput
  <2>1. PICK v \in 0..Blank : TakeOutput(v)
    BY <1>3 DEF PlainOutput, CharacterOutput
  <2>2. /\ ready /\ ready' = ready /\ dictionary' = dictionary /\ Blank' = Blank
        /\ IsNew(v) => label_indexes' = Append(label_indexes, v)
        /\ ~IsNew(v) => label_indexes' = label_indexes
    BY <2>1, OutputTaken
  <2>3. read' = Append(read, v) /\ prev' = v
    BY <2>1 DEF TakeOutput
  <2>4. Blank = Len(dictionary)
    BY <2>2 DEF Blank, labels_size
  <2>5. v \in Int /\ read' \in Seq(Int)
    BY <1>0, <2>3
  <2>6. ASSUME Len(dictionary) < InitialPrev PROVE PrevInv' /\ Joins'
    <3>1. PrevInv /\ Joins /\ Blank \in Nat /\ Blank < InitialPrev
      BY <1>0, <2>2, <2>4, <2>6 DEF RunsInv
    <3>2. QED BY <1>0, <2>2, <2>3, <3>1, JoinsTaken
  <2>7. QED BY <2>2, <2>5, <2>6 DEF RunsInv
<1>4. CASE TooShort \/ MaskOverrun \/ Report \/ UNCHANGED plate_vars
  <2>1. UNCHANGED <<dictionary, ready, read, prev, label_indexes>>
    BY <1>4 DEF TooShort, MaskOverrun, Report, plate_vars, decode_vars
  <2>2. Blank' = Blank
    BY <2>1 DEF Blank, labels_size
  <2>3. Valid' = Valid
    BY <2>1, <2>2 DEF Valid
  <2>4. Changes' = Changes
    BY <2>1, <2>3 DEF Changes
  <2>5. PrevInv' = PrevInv
    BY <2>1, <2>3 DEF PrevInv
  <2>6. Joins' = Joins
    BY <2>1, <2>4 DEF Joins, Upto
  <2>7. QED BY <2>1, <2>5, <2>6 DEF RunsInv
<1>5. QED BY <1>1, <1>2, <1>3, <1>4 DEF PlateNext

\* The labels kept and their confidences come of the same changes of the reading,
\* whatever the network's outputs are (IsNew looks at prev alone, and the labels and
\* the confidences are put in two vectors).
THEOREM LabelsAlwaysAsRead ==
  PlateSpec => []LabelsAsRead
<1>1. PlateInv /\ [PlateNext]_plate_vars => PlateInv'
  BY PlateStep
<1>2. PlateInv /\ RunsInv /\ [PlateNext]_plate_vars => RunsInv'
  BY RunsStep
<1>3. PlateInv /\ RunsInv => LabelsAsRead
  BY DEF PlateInv, RunsInv, LabelsAsRead, RunsAreJoined, Joins, Upto
<1>4. QED BY PlateInitInv, RunsInitInv, <1>1, <1>2, <1>3, PTL DEF PlateSpec

-------------------------------------------------------------------------------
(* The types of the parser: a plate is cut at its first NUL, so that whatever  *)
(* the dictionary holds, no character of a plate is one.                       *)

Chosen == Characters \ {NUL}

\* An entry has characters only, before it is localized and after.
LEMMA LocalizedTyped ==
  ASSUME NEW e \in Seq(Chosen)
  PROVE  Localize(e) \in Seq(Chosen)
<1> DEFINE up == [k \in 1..Len(e) |-> Upper(e[k])]
<1>1. \A c \in Chosen : Upper(c) \in Chosen
  BY DEF Chosen, Upper, Characters, Digits, Letters, NUL
<1>2. up \in Seq(Chosen)
  BY <1>1
<1>3. <<"O">> \in Seq(Chosen) /\ <<"1">> \in Seq(Chosen)
  BY DEF Chosen, Characters, Digits, Letters, NUL
<1>4. Localize(e) = CASE up = <<"Q">> -> <<"O">>
                      [] up = <<"J">> -> <<"1">>
                      [] OTHER -> up
  BY Zenon DEF Localize
<1> HIDE DEF up
<1>5. CASE up = <<"Q">>
  <2>1. up # <<"J">>
    BY <1>5
  <2>2. QED BY <1>3, <1>4, <1>5, <2>1
<1>6. CASE up = <<"J">>
  <2>1. up # <<"Q">>
    BY <1>6
  <2>2. QED BY <1>3, <1>4, <1>6, <2>1
<1>7. CASE up # <<"Q">> /\ up # <<"J">>
  BY <1>2, <1>4, <1>7
<1>8. QED BY <1>5, <1>6, <1>7

\* The label is a sequence of characters.
LEMMA LabelTyped ==
  ASSUME PlateTyped, ready
  PROVE  Label \in Seq(Chosen)
<1> DEFINE n == Len(label_indexes)
<1>1. label_indexes \in Seq(0..Len(dictionary)) /\ n \in Nat /\ dictionary \in Seq(Seq(Chosen))
      /\ Blank = Len(dictionary)
  BY DEF PlateTyped, Chosen, Blank, labels_size
<1>2. PICK f : /\ f[0] = <<>>
               /\ \A k \in 1..n : f[k] = JoinedWith(f[k - 1], label_indexes[k])
               /\ Label = f[n]
  BY <1>1, LabelEquation
<1> DEFINE S == {k \in Nat : k <= n => f[k] \in Seq(Chosen)}
<1>3. 0 \in S
  <2>1. <<>> \in Seq(Chosen)
    OBVIOUS
  <2>2. QED BY <1>2, <2>1
<1>4. ASSUME NEW m \in Nat, m \in S PROVE m + 1 \in S
  <2> SUFFICES ASSUME m + 1 <= n PROVE f[m + 1] \in Seq(Chosen)
    OBVIOUS
  <2>1. f[m] \in Seq(Chosen) /\ m + 1 \in 1..n /\ (m + 1) - 1 = m
    BY <1>1, <1>4
  <2>2. f[m + 1] = JoinedWith(f[m], label_indexes[m + 1])
    BY <1>2, <2>1
  <2> DEFINE v == label_indexes[m + 1]
  <2>3. v \in 0..Len(dictionary)
    BY <1>1, <2>1
  <2> HIDE DEF v
  <2>4. CASE v = Blank
    BY <2>1, <2>2, <2>4 DEF JoinedWith, v
  <2>5. CASE v # Blank
    <3> DEFINE e == Localize(dictionary[v + 1])
    <3>1. dictionary[v + 1] \in Seq(Chosen)
      BY <1>1, <2>3, <2>5
    <3>2. e \in Seq(Chosen)
      BY <3>1, LocalizedTyped
    <3>3. f[m + 1] = f[m] \o e
      BY <2>2, <2>5 DEF JoinedWith, v
    <3> HIDE DEF e
    <3>4. QED BY <2>1, <3>2, <3>3, Joining
  <2>6. QED BY <2>4, <2>5
<1>5. n \in S
  <2> HIDE DEF S
  <2>1. QED BY <1>1, <1>3, <1>4, SetInduction
<1>6. QED BY <1>1, <1>2, <1>5

\* The mask makes letters, digits and NULs of any label.
LEMMA TransformTyped ==
  ASSUME NEW label \in Seq(Chosen)
  PROVE  Transform(label) \in Seq(Glyphs \cup {NUL})
<1> DEFINE l == [k \in 1..Len(label) |-> IF label[k] \in Digits \cup Letters THEN label[k] ELSE NUL]
           Corrected(k) == CASE k = 1 -> As(l[k], FrontLetters)
                             [] k = 5 -> As(l[k], FifthLetters)
                             [] k = 6 -> As(l[k], SixthLetters)
                             [] OTHER -> l[k]
           corrected == [k \in 1..Len(l) |-> Corrected(k)]
<1>1. l \in Seq(Glyphs \cup {NUL})
  BY DEF Glyphs
<1>2. Transform(label) = IF ~MatchesMask(l) THEN l ELSE corrected
  BY Zenon DEF Transform
<1> HIDE DEF l
<1>3. ASSUME NEW k \in 1..Len(l) PROVE Corrected(k) \in Glyphs \cup {NUL}
  <2>1. l[k] \in Glyphs \cup {NUL}
    BY <1>1
  <2>2. ASSUME NEW c \in Glyphs \cup {NUL}
        PROVE  {As(c, FrontLetters), As(c, FifthLetters), As(c, SixthLetters)}
                 \subseteq Glyphs \cup {NUL}
    BY DEF As, FrontLetters, FifthLetters, SixthLetters, Glyphs, Digits, Letters, NUL
  <2>3. CASE k = 1
    BY <2>1, <2>2, <2>3
  <2>4. CASE k = 5
    BY <2>1, <2>2, <2>4
  <2>5. CASE k = 6
    BY <2>1, <2>2, <2>5
  <2>6. CASE k \notin {1, 5, 6}
    BY <2>1, <2>6
  <2>7. QED BY <2>3, <2>4, <2>5, <2>6
<1> HIDE DEF Corrected
<1>4. corrected \in Seq(Glyphs \cup {NUL})
  BY <1>1, <1>3
<1> HIDE DEF corrected
<1>5. QED BY <1>1, <1>2, <1>4

\* strdup takes what stands before the first NUL.
LEMMA CutCString ==
  ASSUME NEW l \in Seq(Glyphs \cup {NUL})
  PROVE  CString(l) \in Seq(Chosen)
<1> DEFINE t == l \o <<NUL>>
           I == {i \in 1..Len(t) : t[i] = NUL}
           m == Min(I)
<1>1. /\ Len(l) \in Nat /\ Len(t) = Len(l) + 1 /\ t[Len(l) + 1] = NUL
      /\ \A i \in 1..Len(l) : t[i] = l[i]
  OBVIOUS
<1> HIDE DEF t
<1>2. I \subseteq Nat /\ Len(l) + 1 \in I
  BY <1>1
<1>3. m \in I /\ \A i \in I : m <= i
  <2> HIDE DEF I
  <2>1. \E x \in I : \A y \in I : x <= y
    BY <1>2, LeastElement
  <2>2. QED BY <2>1, Zenon DEF Min
<1>4. CString(l) = SubSeq(l, 1, m - 1)
  <2>1. SelectInSeq(t, LAMBDA c : c = NUL) = IF I # {} THEN m ELSE 0
    BY Zenon DEF SelectInSeq
  <2>2. I # {}
    BY <1>2
  <2>3. CString(l) = SubSeq(l, 1, SelectInSeq(t, LAMBDA c : c = NUL) - 1)
    BY Zenon DEF CString, t
  <2> HIDE DEF I, m
  <2>4. QED BY <2>1, <2>2, <2>3
<1>5. m \in 1..(Len(l) + 1)
  BY <1>1, <1>3
<1> HIDE DEF m
<1>6. ASSUME NEW i \in 1..(m - 1) PROVE l[i] \in Chosen
  <2>1. i \in 1..Len(l) /\ i < m
    BY <1>1, <1>5
  <2>2. i \notin I
    <3> HIDE DEF I
    <3>1. QED BY <1>3, <1>5, <2>1
  <2>3. l[i] # NUL
    BY <1>1, <2>1, <2>2
  <2>4. l[i] \in Glyphs
    BY <2>1, <2>3
  <2>5. Glyphs \subseteq Chosen
    BY DEF Glyphs, Chosen, Characters, Digits, Letters, NUL
  <2>6. QED BY <2>4, <2>5
<1>7. SubSeq(l, 1, m - 1) \in Seq(Chosen)
  <2>1. SubSeq(l, 1, m - 1) = [i \in 1..(m - 1) |-> l[i]]
    BY <1>1, <1>5
  <2>2. m - 1 \in Nat
    BY <1>5
  <2>3. QED BY <1>6, <2>1, <2>2
<1>8. QED BY <1>4, <1>7

\* What the types add to the invariant.
CallTyped ==
  /\ read \in Seq(OutputValues \cup {-1}) /\ Len(read) <= SeqLen
  /\ prev \in Nat
  /\ Len(bank) <= SOFTMAX_SIZE
  /\ plate \in Seq(Chosen)

\* One output more.
LEMMA ReadMore ==
  ASSUME CallTyped, Reading, NEW v \in OutputValues \cup {-1}, read' = Append(read, v)
  PROVE  read' \in Seq(OutputValues \cup {-1}) /\ Len(read') <= SeqLen
<1>1. read \in Seq(OutputValues \cup {-1}) /\ Len(read) < SeqLen /\ SeqLen \in Nat
  BY PlateAssumption DEF CallTyped, Reading
<1>2. read' \in Seq(OutputValues \cup {-1}) /\ Len(read') = Len(read) + 1 /\ Len(read) \in Nat
  BY <1>1
<1>3. QED BY <1>1, <1>2

\* Each step keeps a call's members in their ranges.
LEMMA CallStep ==
  ASSUME PlateInv, CallTyped, [PlateNext]_plate_vars
  PROVE  CallTyped'
<1>0. /\ read \in Seq(OutputValues \cup {-1}) /\ Len(read) <= SeqLen /\ prev \in Nat
      /\ bank \in Seq(BOOLEAN) /\ Len(bank) <= SOFTMAX_SIZE /\ plate \in Seq(Chosen)
      /\ SeqLen \in Nat /\ SOFTMAX_SIZE \in Nat /\ InitialPrev \in Nat
  BY PlateAssumption DEF CallTyped, PlateInv, PlateTyped
<1>1. CASE Start
  <2>1. read' = <<>> /\ prev' = InitialPrev /\ bank' = <<>> /\ plate' = <<>>
    BY <1>1 DEF Start
  <2>2. read' \in Seq(OutputValues \cup {-1}) /\ Len(read') = 0 /\ Len(bank') = 0
        /\ plate' \in Seq(Chosen)
    BY <2>1
  <2>3. QED BY <1>0, <2>1, <2>2 DEF CallTyped
<1>2. CASE SkipOutput \/ NoOutputs
  <2>1. /\ Reading /\ UNCHANGED <<prev, bank, plate>>
        /\ \E v \in OutputValues \cup {-1} : read' = Append(read, v)
    BY <1>2 DEF SkipOutput, NoOutputs
  <2>2. read' \in Seq(OutputValues \cup {-1}) /\ Len(read') <= SeqLen
    BY <2>1, ReadMore
  <2>3. QED BY <1>0, <2>1, <2>2 DEF CallTyped
<1>3. CASE PlainOutput \/ CharacterOutput
  <2>1. PICK v \in OutputValues \cap (0..Blank) : TakeOutput(v)
    BY <1>3 DEF PlainOutput, CharacterOutput
  <2>2. Reading /\ read' = Append(read, v) /\ prev' = v /\ plate' = plate /\ v \in Nat
    BY <2>1 DEF TakeOutput
  <2>3. read' \in Seq(OutputValues \cup {-1}) /\ Len(read') <= SeqLen
    BY <2>1, <2>2, ReadMore
  <2>4. Len(bank') <= SOFTMAX_SIZE
    <3>1. bank' = bank \/ \E b \in BOOLEAN : Len(bank) < SOFTMAX_SIZE /\ bank' = Append(bank, b)
      BY <1>3 DEF PlainOutput, CharacterOutput
    <3>2. QED BY <1>0, <3>1
  <2>5. QED BY <1>0, <2>2, <2>3, <2>4 DEF CallTyped
<1>4. CASE Report
  <2>1. UNCHANGED <<read, prev, bank>>
    BY <1>4 DEF Report, decode_vars
  <2>2. ready /\ PlateTyped
    BY <1>4 DEF Report, Ended, PlateInv, PlateTyped
  <2>3. CString(Transform(Label)) \in Seq(Chosen)
    BY <2>2, LabelTyped, TransformTyped, CutCString
  <2>4. plate' \in Seq(Chosen)
    <3>1. plate' = CString(Transform(Label)) \/ plate' = <<>>
      BY <1>4 DEF Report
    <3>2. <<>> \in Seq(Chosen)
      OBVIOUS
    <3>3. QED BY <2>3, <3>1, <3>2
  <2>5. QED BY <1>0, <2>1, <2>4 DEF CallTyped
<1>5. CASE TooShort \/ MaskOverrun \/ UNCHANGED plate_vars
  <2>1. UNCHANGED <<read, prev, bank, plate>>
    BY <1>5 DEF TooShort, MaskOverrun, plate_vars, decode_vars
  <2>2. QED BY <1>0, <2>1 DEF CallTyped
<1>6. QED BY <1>1, <1>2, <1>3, <1>4, <1>5 DEF PlateNext

\* Every reachable state of the parser is well typed, for any dictionary and outputs:
\* the confidences stay within their room, and a plate has no NUL.
THEOREM PlateTypeCorrect == PlateSpec => []PlateTypeOK
<1>1. PlateInit => CallTyped
  <2> SUFFICES ASSUME PlateInit PROVE CallTyped
    OBVIOUS
  <2>1. read = <<>> /\ prev = InitialPrev /\ bank = <<>> /\ plate = <<>>
    BY DEF PlateInit
  <2>2. read \in Seq(OutputValues \cup {-1}) /\ Len(read) = 0 /\ Len(bank) = 0 /\ plate \in Seq(Chosen)
    BY <2>1
  <2>3. QED BY <2>1, <2>2, PlateAssumption DEF CallTyped
<1>2. PlateInv /\ [PlateNext]_plate_vars => PlateInv'
  BY PlateStep
<1>3. PlateInv /\ CallTyped /\ [PlateNext]_plate_vars => CallTyped'
  BY CallStep
<1>4. PlateInv /\ CallTyped => PlateTypeOK
  BY DEF PlateInv, PlateTyped, CallTyped, PlateTypeOK, Chosen
<1>5. QED BY PlateInitInv, <1>1, <1>2, <1>3, <1>4, PTL DEF PlateSpec

-------------------------------------------------------------------------------
(* The three readers together. *)

\* Every state of the readers is well typed, whichever of them a behaviour is: one that
\* is at rest stays as it began.
THEOREM FilesAlwaysTyped == PartsSpec => []FilesTypeOK
<1>1. PartsInit => Init /\ YoloInit /\ PlateInit
  BY Zenon DEF PartsInit
<1>2. [PartsNext]_<<part, vars, yolo_vars, plate_vars>> =>
        [Next]_vars /\ [YoloNext]_yolo_vars /\ [PlateNext]_plate_vars
  BY Zenon DEF PartsNext
<1>3. PartsSpec => Spec /\ YoloSpec /\ PlateSpec
  BY <1>1, <1>2, PTL DEF PartsSpec, Spec, YoloSpec, PlateSpec
<1>4. TypeOK /\ YoloTypeOK /\ PlateTypeOK => FilesTypeOK
  BY Zenon DEF FilesTypeOK
<1>5. QED BY <1>3, <1>4, ParserTypeCorrect, BuilderTypeCorrect, PlateTypeCorrect, PTL
=============================================================================
