----------------------------- MODULE YoloNetwork -----------------------------
(***************************************************************************)
(* The builder of the darknet networks (src/yolo: yolo.cpp, layers/,       *)
(* utils.cpp): from the blocks of the network file and the numbers         *)
(* of the weights file to a TensorRT network whose three outputs are       *)
(* marked, block after block.                                              *)
(*                                                                         *)
(* A block reads its weights from where the one before it stopped and adds *)
(* one tensor to tensor_outputs; those that merge layers name the others   *)
(* by their distance or by their number.  TensorRT is outside: it may      *)
(* refuse any layer.                                                       *)
(***************************************************************************)
EXTENDS Integers, Sequences, FiniteSets

CONSTANT Networks   \* the network files and weights considered

\* A block of the network file; what its type does not use is left at 0.
BlockOf ==
  [type : STRING,
   complete : BOOLEAN,       \* it has all the keys its type requires
   from : Int,
   layers : Seq(Int),        \* <<>>: the key is missing or empty
   filters : Nat, size : Nat, bias : BOOLEAN,
   groups : Nat,             \* 0: no such key
   group_id : Int,           \* -1: no such key
   activation : STRING]
NetworkOf ==
  [blocks : Seq(BlockOf),
   channels : Nat,           \* of the input
   weights : Nat,            \* numbers in the file, behind its header
   supported : BOOLEAN]      \* the file's name has .weights

ASSUME NetworksAssumption == Networks \subseteq NetworkOf

VARIABLES
  network,
  y_phase,        \* "parse", "build", "done", "engine", "no_engine", "aborted" or "undefined"
  index,          \* i: the block to build next
  status,
  tensor_outputs, \* the channels of each tensor
  previous,       \* the channels of the tensor the next block takes
  weight_ptr,
  yolo_inputs,    \* yolo_count_inputs
  outputs,        \* the three outputs are marked
  merged          \* history: which position of tensor_outputs a block was merged from

build_vars == <<tensor_outputs, previous, weight_ptr, yolo_inputs, merged>>
yolo_vars == <<network, y_phase, index, status, outputs, build_vars>>

-------------------------------------------------------------------------------
(* The types of blocks. *)

Detections == {"yolo", "region"}

\* Types whose layer compares the type with two names by ||: no type is both,
\* so that the layer refuses each of them.
NeverBuilt ==
  {"conv", "convolutional", "implicit", "implicit_add", "implicit_mul",
   "max", "maxpool", "avg", "avgpool", "reorg", "reorg3d"}
Channels == {"shift_channels", "control_channels"}   \* refused as well
Merges == {"shortcut", "sam"}
Weighted == {"deconvolutional", "batchnorm"}
Known ==
  NeverBuilt \cup Channels \cup Merges \cup Weighted \cup Detections
  \cup {"net", "route", "upsample", "dropout"}

Activations ==
  {"linear", "relu", "sigmoid", "logistic", "tanh", "leaky", "softplus", "mish",
   "silu", "swish", "hardsigmoid", "hardswish"}

NumBlocks == Len(network.blocks)
Block == network.blocks[index + 1]
Building == y_phase = "build" /\ index < NumBlocks
Types(S) == Building /\ Block.type \in S

\* load_weights: nothing is read of a file with another name.
Loaded == IF network.supported THEN network.weights ELSE 0

\* m_yolo_count
YoloCount == Cardinality({k \in 1..NumBlocks : network.blocks[k].type \in Detections})

YoloInit ==
  /\ network \in Networks
  /\ y_phase = "parse"
  /\ index = 0
  /\ status = "SUCCESS"
  /\ tensor_outputs = <<>>
  /\ previous = network.channels
  /\ weight_ptr = 0
  /\ yolo_inputs = 0
  /\ outputs = FALSE
  /\ merged = {}

-------------------------------------------------------------------------------
(* Before the first block. *)

\* A block without a type, and a [net] or a detection without its keys, end the
\* program (map::at throws, assert), and so does a weights file without a weight.
Unreadable ==
  \/ \E k \in 1..NumBlocks :
       LET b == network.blocks[k] IN
       \/ b.type = "none"
       \/ b.type \in Detections \cup {"net"} /\ ~b.complete
  \/ network.supported /\ network.weights = 0

ParseConfigBlocks ==
  /\ y_phase = "parse"
  /\ y_phase' = IF Unreadable THEN "aborted" ELSE "build"
  /\ UNCHANGED <<network, index, status, outputs, build_vars>>

-------------------------------------------------------------------------------
(* How a block ends. *)

Abort ==
  /\ y_phase' = "aborted"
  /\ UNCHANGED <<network, index, status, outputs, build_vars>>

\* goto done, with this status
Leave(s) ==
  /\ y_phase' = "done"
  /\ status' = s
  /\ UNCHANGED <<network, index, outputs, tensor_outputs, previous, yolo_inputs, merged>>

\* The next block takes the tensor of this one, which has these channels.
Advance(channels) ==
  /\ index' = index + 1
  /\ previous' = channels
  /\ tensor_outputs' = Append(tensor_outputs, channels)
  /\ UNCHANGED <<network, status, outputs>>

\* A position that is not in tensor_outputs, or a weight behind the last one, is
\* read all the same: the program may crash, or go on with what it has found.
Undefined == y_phase' = "undefined" /\ UNCHANGED <<network, index, status, outputs, build_vars>>

\* TensorRT refuses the input.
NoInput ==
  /\ y_phase = "build" /\ index = 0
  /\ Leave(status)
  /\ UNCHANGED weight_ptr

-------------------------------------------------------------------------------
(* Blocks that build nothing. *)

NetBlock ==
  /\ Types({"net"})
  /\ index' = index + 1
  /\ UNCHANGED <<network, y_phase, status, outputs, build_vars>>

\* It adds no tensor: the positions of all that follow shift by one.
DropoutBlock ==
  /\ Types({"dropout"})
  /\ index' = index + 1
  /\ UNCHANGED <<network, y_phase, status, outputs, build_vars>>

UnsupportedBlock ==
  /\ Building /\ Block.type \notin Known
  /\ Leave("INVALID_PARAMS")
  /\ UNCHANGED weight_ptr

RefusedBlock ==
  /\ Types(NeverBuilt)
  /\ Leave(status)
  /\ UNCHANGED weight_ptr

-------------------------------------------------------------------------------
(* Blocks with weights. *)

\* Mutant: the groups do not make the kernels smaller.
DeconvolutionNeeds_NoGroups(b) ==
  (IF b.bias THEN b.filters ELSE 0) + b.filters * previous * b.size * b.size

\* What the block reads: a bias for each filter and the kernels of its groups,
\* or four numbers a filter.
DeconvolutionNeeds(b) ==
  (IF b.bias THEN b.filters ELSE 0)
  + (b.filters * previous * b.size * b.size) \div (IF b.groups = 0 THEN 1 ELSE b.groups)
BatchnormNeeds(b) == 4 * b.filters
Needs(b) == IF b.type = "batchnorm" THEN BatchnormNeeds(b) ELSE DeconvolutionNeeds(b)

\* The scale keeps the channels, the deconvolution has one per filter.
WeightedChannels(b) == IF b.type = "batchnorm" THEN previous ELSE b.filters

WeightedLacksKey ==
  /\ Types(Weighted) /\ ~Block.complete
  /\ Leave(status)
  /\ UNCHANGED weight_ptr

\* The key that is missing is the activation, which is not looked for (map::at throws).
BatchnormAborts ==
  /\ Types({"batchnorm"}) /\ ~Block.complete
  /\ Abort

WeightedFails ==
  /\ Types(Weighted) /\ Block.complete
  /\ weight_ptr' = weight_ptr + Needs(Block)
  /\ Leave(status)

WeightedBuilt ==
  /\ Types(Weighted) /\ Block.complete
  /\ Block.type = "batchnorm" => Block.activation \in Activations
  /\ weight_ptr' = weight_ptr + Needs(Block)
  /\ Advance(WeightedChannels(Block))
  /\ UNCHANGED <<y_phase, yolo_inputs, merged>>

WeightsOverrun ==
  /\ Types(Weighted) /\ Block.complete
  /\ weight_ptr + Needs(Block) > Loaded
  /\ Undefined

-------------------------------------------------------------------------------
(* Blocks that merge the tensor before them with an earlier one. *)

\* A positive number is a position, a negative one the distance.
MergedFrom == IF Block.from > 0 THEN Block.from ELSE index + Block.from - 1

\* The three asserts; the subtractions are unsigned.
MergedIsThere ==
  /\ Block.complete
  /\ index >= 2 /\ index - 2 < Len(tensor_outputs)
  /\ MergedFrom \in 0..(Len(tensor_outputs) - 1)
  /\ MergedFrom < index - 2

MergeAborts ==
  /\ Types(Merges \cup Channels) /\ ~MergedIsThere
  /\ Abort

\* TensorRT refuses the layer, it is one of those never built, or the activation
\* of a shortcut is not known.
MergeFails ==
  /\ Types(Merges \cup Channels) /\ MergedIsThere
  /\ Leave(status)
  /\ UNCHANGED weight_ptr

Merge ==
  /\ Advance(previous)
  /\ merged' = merged \cup {[block |-> index, layer |-> Block.from, position |-> MergedFrom]}
  /\ UNCHANGED <<y_phase, weight_ptr, yolo_inputs>>

ShortcutBuilt ==
  /\ Types({"shortcut"}) /\ MergedIsThere
  /\ Block.activation \in Activations
  /\ Merge

\* It does not look at what the activation returns.
SamBuilt ==
  /\ Types({"sam"}) /\ MergedIsThere
  /\ Merge

-------------------------------------------------------------------------------
(* A route takes one earlier tensor, or several joined. *)

\* Mutant: the layers before this one are counted from the last but one.
Position_FromLast(l) == IF l < 0 THEN Len(tensor_outputs) + l - 1 ELSE l

Position(l) == IF l < 0 THEN Len(tensor_outputs) + l ELSE l

Routed == {k \in 1..Len(Block.layers) : Position(Block.layers[k]) \in 0..(Len(tensor_outputs) - 1)}
RouteIsThere == Routed = 1..Len(Block.layers)

Total(s) ==
  LET t[j \in 0..Len(s)] == IF j = 0 THEN 0 ELSE t[j - 1] + s[j] IN t[Len(s)]

\* The channels of the tensors joined.
Joined == Total([k \in 1..Len(Block.layers) |-> tensor_outputs[Position(Block.layers[k]) + 1]])

\* Of the groups a route may take one.
Sliced(channels) == IF Block.groups = 0 THEN channels ELSE channels \div Block.groups

RouteFails ==
  /\ Types({"route"})
  /\ Block.layers = <<>> \/ RouteIsThere
  /\ Leave(status)
  /\ UNCHANGED weight_ptr

\* The check that a position exists is never true.
RouteUndefined ==
  /\ Types({"route"}) /\ ~RouteIsThere
  /\ Undefined

\* groups without a group_id
RouteAborts ==
  /\ Types({"route"}) /\ Block.layers # <<>> /\ RouteIsThere
  /\ Block.groups > 0 /\ Block.group_id = -1
  /\ Abort

RouteBuilt ==
  /\ Types({"route"}) /\ Block.layers # <<>> /\ RouteIsThere
  /\ Block.groups > 0 => Block.group_id # -1
  /\ Advance(Sliced(Joined))
  /\ merged' = merged \cup
       {[block |-> index, layer |-> Block.layers[k], position |-> Position(Block.layers[k])] :
          k \in 1..Len(Block.layers)}
  /\ UNCHANGED <<y_phase, weight_ptr, yolo_inputs>>

-------------------------------------------------------------------------------
(* The other blocks. *)

UpsampleFails ==
  /\ Types({"upsample"})
  /\ Leave(status)
  /\ UNCHANGED weight_ptr

UpsampleBuilt ==
  /\ Types({"upsample"}) /\ Block.complete
  /\ Advance(previous)
  /\ UNCHANGED <<y_phase, weight_ptr, yolo_inputs, merged>>

\* The tensor before it becomes an input of the detection plugin.
DetectionBlock ==
  /\ Types(Detections)
  /\ yolo_inputs' = yolo_inputs + 1
  /\ Advance(previous)
  /\ UNCHANGED <<y_phase, weight_ptr, merged>>

-------------------------------------------------------------------------------
(* Behind the last block. *)

\* Mutant: weights that are left over are not noticed.
Complete_WeightsLeft == weight_ptr <= Loaded /\ yolo_inputs = YoloCount

\* All weights used, and every detection counted has been met.
Complete == weight_ptr = Loaded /\ yolo_inputs = YoloCount

Incomplete ==
  /\ y_phase = "build" /\ index = NumBlocks
  /\ ~Complete
  /\ Leave(IF weight_ptr # Loaded THEN "INVALID_PARAMS" ELSE "CONFIG_FAILED")
  /\ UNCHANGED weight_ptr

PluginRefused ==
  /\ y_phase = "build" /\ index = NumBlocks
  /\ Complete
  /\ Leave(status)
  /\ UNCHANGED weight_ptr

MarkOutputs ==
  /\ y_phase = "build" /\ index = NumBlocks
  /\ Complete /\ YoloCount > 0
  /\ y_phase' = "done"
  /\ outputs' = TRUE
  /\ UNCHANGED <<network, index, status, build_vars>>

\* createEngine: TensorRT builds no engine of a network without outputs, and may
\* fail for other reasons.
NoEngine ==
  /\ y_phase = "done"
  /\ y_phase' = "no_engine"
  /\ UNCHANGED <<network, index, status, outputs, build_vars>>

BuildEngine ==
  /\ y_phase = "done" /\ status = "SUCCESS" /\ outputs
  /\ y_phase' = "engine"
  /\ UNCHANGED <<network, index, status, outputs, build_vars>>

-------------------------------------------------------------------------------
WeightedStep ==
  WeightedLacksKey \/ BatchnormAborts \/ WeightedFails \/ WeightedBuilt \/ WeightsOverrun
MergeStep == MergeAborts \/ MergeFails \/ ShortcutBuilt \/ SamBuilt
RouteStep == RouteFails \/ RouteUndefined \/ RouteAborts \/ RouteBuilt
PlainStep ==
  \/ NetBlock \/ DropoutBlock \/ UnsupportedBlock \/ RefusedBlock
  \/ UpsampleFails \/ UpsampleBuilt \/ DetectionBlock
EndStep == Incomplete \/ PluginRefused \/ MarkOutputs \/ NoEngine \/ BuildEngine

YoloNext ==
  ParseConfigBlocks \/ NoInput \/ WeightedStep \/ MergeStep \/ RouteStep \/ PlainStep \/ EndStep

YoloSpec == YoloInit /\ [][YoloNext]_yolo_vars

-------------------------------------------------------------------------------
(* What the builder promises. *)

YoloTypeOK ==
  /\ network \in NetworkOf
  /\ y_phase \in {"parse", "build", "done", "engine", "no_engine", "aborted", "undefined"}
  /\ index \in 0..NumBlocks
  /\ status \in {"SUCCESS", "INVALID_PARAMS", "CONFIG_FAILED"}
  /\ tensor_outputs \in Seq(Nat) /\ previous \in Nat
  /\ weight_ptr \in Nat /\ yolo_inputs \in Nat
  /\ outputs \in BOOLEAN
  /\ merged \subseteq [block : Nat, layer : Int, position : Nat]

\* A network has outputs only when every block of it was built, none of a type the
\* builder cannot build, every weight of the file was used and every detection
\* became an input of the plugin; and only such a network becomes an engine
\* (buildYoloNetwork stops at many places, most of them with the status SUCCESS).
OutputsAreComplete ==
  /\ outputs =>
       /\ index = NumBlocks /\ status = "SUCCESS"
       /\ weight_ptr = Loaded
       /\ yolo_inputs = YoloCount
       /\ \A k \in 1..NumBlocks : network.blocks[k].type \notin NeverBuilt \cup Channels
  /\ y_phase = "engine" => outputs

\* Darknet counts the layers behind [net] from 0: by it, a block b means these.
DarknetLayer(b, l) == IF l < 0 THEN b - 1 + l ELSE l

\* The file begins with its only [net] and has no dropout, which darknet counts.
Numbered(n) ==
  \A k \in 1..Len(n.blocks) :
    /\ n.blocks[k].type = "net" <=> k = 1
    /\ n.blocks[k].type # "dropout"

\* The channels behind each of the first m blocks as darknet defines them.
DarknetChannels(n, m) ==
  LET C[k \in 0..m] ==
        IF k = 0 THEN n.channels
        ELSE LET b == n.blocks[k]
                 named == [j \in 1..Len(b.layers) |-> C[DarknetLayer(k - 1, b.layers[j]) + 2]]
             IN CASE b.type = "deconvolutional" -> b.filters
                  [] b.type = "route" -> Total(named) \div (IF b.groups = 0 THEN 1 ELSE b.groups)
                  [] OTHER -> C[k - 1]
  IN C

\* The weights of a block as darknet writes them, of one that takes this many channels:
\* a batchnorm has four numbers for each of these, a deconvolution always has a bias.
DarknetNeeds(b, channels) ==
  CASE b.type = "batchnorm" -> 4 * channels
    [] b.type = "deconvolutional" ->
         b.filters
         + b.filters * (channels \div (IF b.groups = 0 THEN 1 ELSE b.groups)) * b.size * b.size
    [] OTHER -> 0

\* And those of the first m blocks.
DarknetWeights(n, m) ==
  LET C == DarknetChannels(n, m)
      W[k \in 0..m] == IF k = 0 THEN 0 ELSE W[k - 1] + DarknetNeeds(n.blocks[k], C[k - 1])
  IN W

\* What a block says of its weights is what darknet has for so many channels: a
\* batchnorm's filters are the channels, a deconvolution has its bias, and its groups
\* divide the channels.
SaysAsDarknet(b, channels) ==
  /\ b.type = "batchnorm" => b.filters = channels
  /\ b.type = "deconvolutional" =>
       b.bias /\ (b.groups # 0 => channels % b.groups = 0)

\* So do the first m blocks.
Plain(n, m) == \A k \in 1..m : SaysAsDarknet(n.blocks[k], DarknetChannels(n, m)[k - 1])

\* A block is merged with the layers darknet means by the numbers it gives, and never
\* with one still to come; nor with itself, in a file where [net] has the first number
\* and no layer, so that a block's own layer is at the position before its number
\* (shortcut and sam count from the block, route from the tensors there are; both must
\* come to the same).
NamesAsDarknet ==
  \A e \in merged :
    /\ e.position < e.block
    /\ Numbered(network) =>
         e.position = DarknetLayer(e.block, e.layer) /\ e.position < e.block - 1

\* Each block reads the weights that darknet has written for it, and the tensor it
\* takes has darknet's channels: the position in the file is nowhere stored, it
\* follows from what all blocks before have read (weight_ptr is shared by all layers).
\* Left out: weights behind a block that says otherwise than darknet has it, which the
\* code believes (filters, bias), or for which it rounds another product down (groups).
WeightsAsDarknet ==
  y_phase = "build" /\ Numbered(network) =>
    /\ previous = DarknetChannels(network, index)[index]
    /\ Plain(network, index) => weight_ptr = DarknetWeights(network, index)[index]
==============================================================================
