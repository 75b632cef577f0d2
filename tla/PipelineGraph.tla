---------------------------- MODULE PipelineGraph ----------------------------
(***************************************************************************)
(* The graph of elements that create_pipeline (src/app.cpp) makes for a    *)
(* configuration, the links that the sources' pads add while it plays, and *)
(* what destroy_pipeline leaves behind for the next create_pipeline.       *)
(*                                                                         *)
(* A node is <<bin, index, element>> and the graph is the set of its       *)
(* links, from source to sink; ghost pads are the elements they stand for. *)
(* The pad sink_<i> of the muxer and the pad src_<i> of the demuxer are    *)
(* nodes of their own.  What a create_..._bin function makes is the chain  *)
(* of its elements.  Pointers that outlive a pipeline are the number of    *)
(* the build that set them, 0 for null: one of an earlier build dangles.   *)
(***************************************************************************)
EXTENDS Integers, Sequences, FiniteSets

CONSTANTS
  Configs,      \* the configurations considered
  MaxSources,   \* MAX_SOURCE_BINS
  MaxSinks,     \* MAX_SINK_BINS, which is also the size of g_servers
  Codecs,       \* those cb_rtspsrc_select_stream knows
  Other,        \* a codec it does not know
  MaxBuilds     \* bound: pipelines built one after the other

SourceTypes == {"csi", "v4l2", "uri", "rtsp"}
SinkTypes == {"egl", "fake", "file", "rtsp", "broker"}
Stages ==
  {"preprocess", "primary_gie", "tracker", "analytics", "secondary_preprocess", "secondary_gie"}

Indices == 0..(MaxSources - 1)
Slots == 1..MaxSinks

SinkConfig == [type : SinkTypes, source : Indices, demux : BOOLEAN]

\* What create_pipeline reads of an AppConfig.
IsConfig(c) ==
  /\ c.mode \in {"disabled", "enabled", "parallel"}
  /\ \E n \in Indices : c.sources \in [0..n -> SourceTypes]
  /\ c.sinks \in Seq(SinkConfig) /\ Len(c.sinks) <= MaxSinks
  /\ {c.osd, c.msg_conv} \subseteq BOOLEAN
  /\ c.stages \subseteq Stages

ASSUME GraphAssumption ==
  /\ MaxSources \in Nat \ {0} /\ MaxSinks \in Nat \ {0} /\ MaxBuilds \in Nat \ {0}
  /\ \A c \in Configs : IsConfig(c)
  /\ Other \notin Codecs

VARIABLES
  config,
  phase,       \* how far create_pipeline has come, or what became of it
  step,        \* the source or the stage it is at
  builds,      \* calls of create_pipeline so far
  fault,       \* history: an element could not be created, or a caps filter not linked
  links,       \* of the present pipeline
  upstream, downstream,   \* sink_elem and src_elem of create_common_elements
  mux, demuxer,           \* pipeline.multi_src_bin.streammux, pipeline.demuxer
  instances,   \* instance_bins[i] with the element its probe is on
  sub_bins,    \* instance_bins[0].sink.sub_bins[k].sink
  num_bins,    \* instance_bins[i].sink.num_bins
  servers,     \* g_server_count
  timer,       \* AnalyticsBin::timer
  stream,      \* the codec a camera's session was set up with
  depay,       \* SourceBin::depay, with its codec
  parser,      \* SourceBin::parser
  eos          \* the nodes the teardown sent an EOS to

build_vars == <<config, phase, step, builds, fault>>
pointer_vars == <<mux, demuxer, instances, sub_bins, num_bins, servers, timer>>
pad_vars == <<stream, depay, parser>>
vars == <<build_vars, links, upstream, downstream, pointer_vars, pad_vars, eos>>

NoStage == "none"
NoStream == "none"
NoDepay == [codec |-> "none", build |-> 0]

Sources == DOMAIN config.sources
Sinks == DOMAIN config.sinks
Building == {"demux", "instances", "demuxed", "common", "broker", "last"}

TypeOK ==
  /\ config \in Configs
  /\ phase \in Building \cup {"new", "built", "failed", "crashed", "destroyed", "over", "lost"}
  /\ step \in 0..(Cardinality(Stages) + MaxSources)
  /\ builds \in 0..MaxBuilds
  /\ fault \in BOOLEAN
  /\ {upstream, downstream} \subseteq Stages \cup {NoStage, "common_tee"}
  /\ {mux, demuxer} \subseteq 0..builds
  /\ instances \in [Indices -> 0..builds]
  /\ sub_bins \in [Slots -> 0..builds]
  /\ num_bins \in [Indices -> 0..(MaxBuilds * MaxSinks)]
  /\ servers \in 0..(MaxBuilds * MaxSinks)
  /\ timer \in {"null", "live", "freed"}
  /\ stream \in [Indices -> Codecs \cup {Other, NoStream}]
  /\ depay \in [Indices -> {NoDepay} \cup [codec : Codecs, build : 1..MaxBuilds]]
  /\ parser \in [Indices -> 0..builds]

Init ==
  /\ config \in Configs
  /\ phase = "new"
  /\ step = 0
  /\ builds = 0
  /\ fault = FALSE
  /\ links = {}
  /\ upstream = NoStage /\ downstream = NoStage
  /\ mux = 0 /\ demuxer = 0
  /\ instances = [i \in Indices |-> 0]
  /\ sub_bins = [k \in Slots |-> 0]
  /\ num_bins = [i \in Indices |-> 0]
  /\ servers = 0
  /\ timer = "null"
  /\ stream = [i \in Indices |-> NoStream]
  /\ depay = [i \in Indices |-> NoDepay]
  /\ parser = [i \in Indices |-> 0]
  /\ eos = {}

-------------------------------------------------------------------------------
(* Bins *)

Chain(bin, i, elements) ==
  {<<<<bin, i, elements[n]>>, <<bin, i, elements[n + 1]>>>> : n \in 1..(Len(elements) - 1)}

Src(i, element) == <<"source", i, element>>
MuxPad(i) == <<"mux", i, "sink">>
Mux == <<"mux", 0, "src">>
DemuxPad(i) == <<"demuxer", i, "src">>
Demuxer == <<"demuxer", 0, "sink">>
TilerTee == <<"tiler_tee", 0, "tee">>

CameraSourceBin(i) ==
  IF config.sources[i] = "csi" THEN Chain("source", i, <<"src_elem", "cap_filter">>)
  ELSE Chain("source", i, <<"src_elem", "cap_filter1", "nvvidconv1", "nvvidconv2", "cap_filter">>)

\* src_elem joins in cb_newpad
UriDecodeSrcBin(i) ==
  Chain("source", i, <<"tee", "queue", "nvvidconv", "cap_filter1">>)
    \cup Chain("source", i, <<"tee", "fakequeue", "fakesink">>)

\* src_elem, depay and parser join in cb_newpad3 and cb_rtspsrc_select_stream, decodebin in cb_newpad2
RtspSrcBin(i) ==
  Chain("source", i, <<"tee_rtsp_pre_decode", "dec_que", "decodebin">>)
    \cup Chain("source", i, <<"src_que", "tee_rtsp_post_decode", "nvvidconv", "cap_filter1">>)

SourceBin(i) ==
  CASE config.sources[i] = "uri" -> UriDecodeSrcBin(i)
    [] config.sources[i] = "rtsp" -> RtspSrcBin(i)
    [] OTHER -> CameraSourceBin(i)

SourceOut(i) == Src(i, IF config.sources[i] \in {"uri", "rtsp"} THEN "cap_filter1" ELSE "cap_filter")

\* link_element_to_streammux_sink_pad
MuxLinks(i) == {<<SourceOut(i), MuxPad(i)>>, <<MuxPad(i), Mux>>}

TiledDisplayBin == <<"queue", "tiler">>

RenderBin(type) ==
  IF type = "egl" THEN <<"queue", "transform", "cap_filter", "sink">> ELSE <<"queue", "cap_filter", "sink">>
EncodeFileBin == <<"queue", "transform", "cap_filter", "encoder", "codecparse", "mux", "sink">>
UdpsinkBin == <<"queue", "transform", "cap_filter", "encoder", "codecparse", "rtppay", "sink">>
\* Mutant: the broker has no queue of its own.
MsgConvBrokerBin_NoQueue == <<"transform", "sink">>
MsgConvBrokerBin == <<"queue", "transform", "sink">>

SubBinElements(k) ==
  CASE config.sinks[k].type = "file" -> EncodeFileBin
    [] config.sinks[k].type = "rtsp" -> UdpsinkBin
    [] config.sinks[k].type = "broker" -> MsgConvBrokerBin
    [] OTHER -> RenderBin(config.sinks[k].type)
SubBin(k) == Chain("sub_bin", k, SubBinElements(k))
SubBinIn(k) == <<"sub_bin", k, SubBinElements(k)[1]>>
SinkOf(k) == <<"sub_bin", k, "sink">>

IsBroker(k) == config.sinks[k].type = "broker"
Servers(slots) == Cardinality({k \in slots : config.sinks[k].type = "rtsp"})

\* Sinks of a bin behind its tee; a broker waits for the common tee.
TeeAndSinks(bin, i, slots) ==
  Chain(bin, i, <<"queue", "tee">>)
    \cup (UNION {SubBin(k) : k \in slots})
    \cup {<<<<bin, i, "tee">>, SubBinIn(k)>> : k \in {k \in slots : ~IsBroker(k)}}

Fallback(bin, i) ==
  Chain("fallback", i, RenderBin("fake")) \cup {<<<<bin, i, "tee">>, <<"fallback", i, "queue">>>>}

\* Sinks that create_sink_bin builds for instance i, all of them enabled.
SlotsOf(i) == {k \in Sinks : config.sinks[k].source = i /\ ~config.sinks[k].demux}
SinksSoFar(i) == num_bins[i] + Cardinality(SlotsOf(i))
NeedsFallback(i) == SinksSoFar(i) = 0

OsdBin == <<"queue", "nvvidconv", "conv_queue", "nvosd">>
Osd(bin, i, sink_bin) ==
  IF config.osd
  THEN Chain(bin, i, OsdBin)
         \cup {<<<<bin, i, "nvosd">>, <<sink_bin, i, "queue">>>>}
  ELSE {}

Instance(i) ==
  TeeAndSinks("sink_bin", i, SlotsOf(i))
    \cup (IF NeedsFallback(i) THEN Fallback("sink_bin", i) ELSE {})
    \cup Osd("osd", i, "sink_bin")
InstanceIn(i) == IF config.osd THEN <<"osd", i, "queue">> ELSE <<"sink_bin", i, "queue">>

\* Writing behind the table of servers: nothing, or a crash.
AfterServing(n, next) == IF servers + n > MaxSinks THEN {next, "crashed"} ELSE {next}

\* What create_processing_instance leaves in the InstanceBin.
CreateProcessingInstance(i) ==
  /\ num_bins' = [num_bins EXCEPT ![i] = IF NeedsFallback(i) THEN 1 ELSE SinksSoFar(i)]
  /\ servers' = servers + Servers(SlotsOf(i))
  /\ instances' = [instances EXCEPT ![i] = builds]
  /\ sub_bins' = [k \in Slots |->
                    IF i = 0 /\ (k \in SlotsOf(0) \/ (k = 1 /\ NeedsFallback(0))) THEN builds ELSE sub_bins[k]]

-------------------------------------------------------------------------------
(* create_pipeline *)

CreateMultiSourceBin ==
  /\ phase \in {"new", "destroyed"}
  /\ builds < MaxBuilds
  /\ builds' = builds + 1
  /\ mux' = builds'
  /\ links' = UNION {SourceBin(i) \cup MuxLinks(i) : i \in Sources}
  /\ phase' = IF config.mode = "parallel" THEN "demux" ELSE "instances"
  /\ step' = 0
  /\ upstream' = NoStage /\ downstream' = NoStage
  /\ eos' = {}
  /\ UNCHANGED <<config, fault, demuxer, instances, sub_bins, num_bins, servers, timer, pad_vars>>

DemuxSlots == {k \in Sinks : config.sinks[k].demux}

\* The branch of tiler and demuxer in parallel.
CreateDemuxPipeline ==
  /\ phase = "demux"
  /\ demuxer' = builds
  /\ servers' = servers + Servers(DemuxSlots)
  /\ IF DemuxSlots = {}
     THEN phase' = "failed" /\ UNCHANGED links
     ELSE LET first == CHOOSE k \in DemuxSlots : \A l \in DemuxSlots : k <= l
              pad == DemuxPad(config.sinks[first].source)
          IN /\ links' = links \cup TeeAndSinks("demux_sink_bin", 0, DemuxSlots)
                              \cup Osd("demux_osd", 0, "demux_sink_bin")
                              \cup {<<TilerTee, Demuxer>>, <<Demuxer, pad>>,
                                    <<pad, IF config.osd THEN <<"demux_osd", 0, "queue">>
                                                         ELSE <<"demux_sink_bin", 0, "queue">>>>}
             /\ phase' \in AfterServing(Servers(DemuxSlots), "instances")
  /\ UNCHANGED <<config, step, builds, fault, upstream, downstream, mux, instances, sub_bins, num_bins,
                 timer, pad_vars, eos>>

\* The sink a probe is put on: null crashes, a dangling one may do anything.
AfterProbing(made, next) ==
  IF made = builds THEN {next} ELSE IF made = 0 THEN {"crashed"} ELSE {next, "failed", "crashed"}

CreateTiledInstance ==
  /\ phase = "instances"
  /\ config.mode = "enabled"
  /\ CreateProcessingInstance(0)
  /\ links' = links \cup Instance(0) \cup Chain("tiled_display", 0, TiledDisplayBin)
                \cup {<<<<"tiled_display", 0, "tiler">>, InstanceIn(0)>>,
                      <<TilerTee, <<"tiled_display", 0, "queue">>>>}
  /\ step' = 1
  /\ \E served \in AfterServing(Servers(SlotsOf(0)), "common") :
       phase' \in IF served = "crashed" THEN {served} ELSE AfterProbing(sub_bins'[1], "common")
  /\ UNCHANGED <<config, builds, fault, upstream, downstream, mux, demuxer, timer, pad_vars, eos>>

\* Without the tiler alone; its name is taken if there is one already, and it stays out of the pipeline.
CreateDemuxer ==
  /\ phase = "instances"
  /\ config.mode # "enabled"
  /\ demuxer' = builds
  /\ phase' = "demuxed"
  /\ step' = 0
  /\ UNCHANGED <<config, builds, fault, links, upstream, downstream, mux, instances, sub_bins, num_bins,
                 servers, timer, pad_vars, eos>>

DemuxerIsLoose == config.mode = "parallel"

\* is_sink_available_for_source_id: no instance for a source without a sink.
SkipInstance ==
  /\ phase = "demuxed" /\ step \in Sources
  /\ SlotsOf(step) = {}
  /\ step' = step + 1
  /\ UNCHANGED <<config, phase, builds, fault, links, upstream, downstream, pointer_vars, pad_vars, eos>>

CreateDemuxedInstance ==
  LET i == step IN
  /\ phase = "demuxed" /\ step \in Sources
  /\ SlotsOf(i) # {}
  /\ CreateProcessingInstance(i)
  /\ links' = links \cup Instance(i)
                \cup (IF DemuxerIsLoose THEN {} ELSE {<<Demuxer, DemuxPad(i)>>, <<DemuxPad(i), InstanceIn(i)>>})
  /\ phase' \in AfterServing(Servers(SlotsOf(i)), IF DemuxerIsLoose THEN "failed" ELSE "demuxed")
  /\ step' = step + 1
  /\ UNCHANGED <<config, builds, fault, upstream, downstream, mux, demuxer, timer, pad_vars, eos>>

InstancesCreated ==
  /\ phase = "demuxed" /\ step \notin Sources
  /\ phase' = "common"
  /\ step' = 1
  /\ UNCHANGED <<config, builds, fault, links, upstream, downstream, pointer_vars, pad_vars, eos>>

-------------------------------------------------------------------------------
(* create_common_elements: from the last stage to the first *)

\* Mutant: the tracker before the engine whose objects it tracks.
CreationOrder_TrackerFirst ==
  <<"secondary_gie", "secondary_preprocess", "analytics", "primary_gie", "tracker", "preprocess">>
CreationOrder ==
  <<"secondary_gie", "secondary_preprocess", "analytics", "tracker", "primary_gie", "preprocess">>

PreprocessBin == <<"queue", "preprocess">>
PrimaryGieBin == <<"queue", "nvvidconv", "gie">>
TrackingBin == <<"tracker">>
AnalyticsBin == <<"queue", "analytics_elem">>
\* The way past the engines, which hang on the tee: see SecondaryGie.
SecondaryPreprocessBin == <<"tee", "queue">>
SecondaryGieBin == <<"tee", "queue">>

StageBin ==
  [preprocess |-> PreprocessBin, primary_gie |-> PrimaryGieBin, tracker |-> TrackingBin,
   analytics |-> AnalyticsBin, secondary_preprocess |-> SecondaryPreprocessBin,
   secondary_gie |-> SecondaryGieBin, common_tee |-> <<"tee">>]
StageIn(s) == <<s, 0, StageBin[s][1]>>
StageOut(s) == <<s, 0, StageBin[s][Len(StageBin[s])]>>

Enabled(s) ==
  /\ s \in config.stages
  /\ s \in {"secondary_gie", "secondary_preprocess"} => "primary_gie" \in config.stages

\* Mutant: the last stage is forgotten when another one is put before it.
NewDownstream_Last(s) == s
NewDownstream(s) == IF downstream = NoStage THEN s ELSE downstream

AddStage ==
  LET s == CreationOrder[step] IN
  /\ phase = "common" /\ step <= Len(CreationOrder)
  /\ Enabled(s)
  /\ links' = links \cup Chain(s, 0, StageBin[s])
                \cup (IF upstream = NoStage THEN {} ELSE {<<StageOut(s), StageIn(upstream)>>})
  /\ upstream' = s
  /\ downstream' = NewDownstream(s)
  /\ timer' = IF s = "analytics" /\ timer = "null" THEN "live" ELSE timer
  /\ step' = step + 1
  /\ UNCHANGED <<config, phase, builds, fault, mux, demuxer, instances, sub_bins, num_bins, servers, pad_vars, eos>>

SkipStage ==
  /\ phase = "common" /\ step <= Len(CreationOrder)
  /\ ~Enabled(CreationOrder[step])
  /\ step' = step + 1
  /\ UNCHANGED <<config, phase, builds, fault, links, upstream, downstream, pointer_vars, pad_vars, eos>>

MsgConv == <<"msg_conv", 0, "msg_conv">>

AddCommonTee ==
  /\ phase = "common" /\ step > Len(CreationOrder)
  /\ phase' = "broker"
  /\ IF downstream = NoStage THEN UNCHANGED <<links, downstream>>
     ELSE /\ links' = links \cup IF config.msg_conv
                                 THEN {<<StageOut(downstream), MsgConv>>, <<MsgConv, StageIn("common_tee")>>}
                                 ELSE {<<StageOut(downstream), StageIn("common_tee")>>}
          /\ downstream' = "common_tee"
  /\ UNCHANGED <<config, step, builds, fault, upstream, pointer_vars, pad_vars, eos>>

-------------------------------------------------------------------------------
(* add_and_link_broker_sink and the links that close the graph *)

Brokers == {k \in Sinks : IsBroker(k)}

\* Every broker must be a sink of the first instance, and there must be a common tee.
AddAndLinkBrokerSinks ==
  /\ phase = "broker"
  /\ IF Brokers = {} \/ (downstream # NoStage /\ \A k \in Brokers : sub_bins[k] # 0)
     THEN /\ phase' = "last"
          /\ links' = links \cup {<<StageIn("common_tee"), SubBinIn(k)>> : k \in Brokers}
     ELSE phase' = "failed" /\ UNCHANGED links
  /\ UNCHANGED <<config, step, builds, fault, upstream, downstream, pointer_vars, pad_vars, eos>>

LinkAll ==
  LET last == IF config.mode = "enabled" THEN TilerTee ELSE Demuxer IN
  /\ phase = "last"
  /\ IF DemuxerIsLoose THEN phase' = "failed" /\ UNCHANGED links
     ELSE /\ phase' = "built"
          /\ links' = links \cup IF downstream = NoStage THEN {<<Mux, last>>}
                                 ELSE {<<StageOut(downstream), last>>, <<Mux, StageIn(upstream)>>}
  /\ UNCHANGED <<config, step, builds, fault, upstream, downstream, pointer_vars, pad_vars, eos>>

\* An element cannot be created or linked: what was made so far, and perhaps
\* the element that a later teardown asks for, is left as it is.
BuildFails ==
  /\ phase \in Building \cup {"new", "destroyed"}
  /\ phase' = "failed"
  /\ fault' = TRUE
  /\ IF phase \in {"new", "destroyed"}
     THEN /\ builds < MaxBuilds
          /\ builds' = builds + 1
          /\ mux' \in {mux, builds'}
          /\ UNCHANGED demuxer
     ELSE /\ demuxer' \in IF phase \in {"demux", "instances"} /\ config.mode # "enabled"
                          THEN {demuxer, builds} ELSE {demuxer}
          /\ UNCHANGED <<builds, mux>>
  /\ instances' \in
       CASE phase = "demuxed" /\ step \in Sources -> {instances, [instances EXCEPT ![step] = builds]}
         [] phase = "instances" /\ config.mode = "enabled" -> {instances, [instances EXCEPT ![0] = builds]}
         [] OTHER -> {instances}
  /\ eos' = {}
  /\ UNCHANGED <<config, step, links, upstream, downstream, sub_bins, num_bins, servers, timer, pad_vars>>

-------------------------------------------------------------------------------
(* Pads that appear while the pipeline plays *)

Linked(i, a, b) == <<Src(i, a), Src(i, b)>> \in links

\* cb_newpad
UriPadAdded(i) ==
  /\ phase = "built" /\ config.sources[i] = "uri"
  /\ links' = links \cup {<<Src(i, "src_elem"), Src(i, "tee")>>}
  /\ UNCHANGED <<build_vars, upstream, downstream, pointer_vars, pad_vars, eos>>

\* Mutant: a codec that is not supported gets a depayloader as well.
Supported_Any(codec) == TRUE
Supported(codec) == codec \in Codecs

\* cb_rtspsrc_select_stream, which makes the depayloader the first time only
SelectStream(i, codec) ==
  /\ phase = "built" /\ config.sources[i] = "rtsp" /\ stream[i] = NoStream
  /\ IF depay[i] = NoDepay
     THEN /\ Supported(codec)
          /\ depay' = [depay EXCEPT ![i] = [codec |-> codec, build |-> builds]]
          /\ parser' = [parser EXCEPT ![i] = builds]
          /\ links' = links \cup Chain("source", i, <<"depay", "parser", "tee_rtsp_pre_decode">>)
     ELSE UNCHANGED <<depay, parser, links>>
  /\ stream' = [stream EXCEPT ![i] = codec]
  /\ UNCHANGED <<build_vars, upstream, downstream, pointer_vars, eos>>

\* cb_newpad3: a pad of the wrong codec does not link, a depayloader that is gone may do anything
RtspPadAdded(i) ==
  /\ phase = "built" /\ config.sources[i] = "rtsp" /\ stream[i] # NoStream
  /\ IF depay[i].build # builds THEN phase' \in {"built", "crashed"} /\ UNCHANGED links
     ELSE /\ stream[i] = depay[i].codec
          /\ links' = links \cup {<<Src(i, "src_elem"), Src(i, "depay")>>}
          /\ UNCHANGED phase
  /\ UNCHANGED <<config, step, builds, fault, upstream, downstream, pointer_vars, pad_vars, eos>>

\* cb_newpad2
DecodedPadAdded(i) ==
  /\ phase = "built" /\ Linked(i, "src_elem", "depay")
  /\ links' = links \cup {<<Src(i, "decodebin"), Src(i, "src_que")>>}
  /\ UNCHANGED <<build_vars, upstream, downstream, pointer_vars, pad_vars, eos>>

\* reset_source_pipeline: in NULL the bin's elements take their pads back. The parser
\* gets an event; before the session is set up it is still the former pipeline's.
SourceReset(i) ==
  /\ phase = "built" /\ config.sources[i] = "rtsp"
  /\ stream' = [stream EXCEPT ![i] = NoStream]
  /\ links' = links \ {<<Src(i, "src_elem"), Src(i, "depay")>>, <<Src(i, "decodebin"), Src(i, "src_que")>>}
  /\ phase' \in {"built"} \cup IF parser[i] \in {0, builds} THEN {} ELSE {"lost"}
  /\ UNCHANGED <<config, step, builds, fault, upstream, downstream, pointer_vars, depay, parser, eos>>

-------------------------------------------------------------------------------
(* destroy_pipeline *)

\* Mutant: the EOS goes to the first pad of the muxer only.
EosPads_First == IF demuxer # 0 THEN {Demuxer} ELSE {MuxPad(0)}
EosPads == IF demuxer # 0 THEN {Demuxer} ELSE {MuxPad(i) : i \in Sources}

\* Mutant: the depayloaders of cameras are kept.
ClearedDepay_Kept == depay
ClearedDepay == [i \in Indices |-> IF i \in Sources /\ config.sources[i] = "rtsp" THEN NoDepay ELSE depay[i]]

\* It touches an element of an earlier pipeline, or the timer it has freed before.
TeardownDangles ==
  \/ demuxer # 0 /\ demuxer # builds
  \/ demuxer = 0 /\ mux \notin {0, builds}
  \/ \E i \in Sources : instances[i] \notin {0, builds}
  \/ Enabled("analytics") /\ timer = "freed"

DestroyPipeline ==
  /\ phase \in {"built", "failed"}
  /\ eos' = EosPads
  /\ links' = {}
  /\ timer' = IF Enabled("analytics") /\ timer = "live" THEN "freed" ELSE timer
  /\ depay' = ClearedDepay
  /\ stream' = [i \in Indices |-> NoStream]
  /\ UNCHANGED parser
  /\ phase' \in (IF TeardownDangles THEN {"lost"} ELSE {}) \cup {IF phase = "built" THEN "destroyed" ELSE "over"}
  /\ UNCHANGED <<config, step, builds, fault, upstream, downstream, mux, demuxer, instances, sub_bins, num_bins,
                 servers>>

Next ==
  \/ CreateMultiSourceBin \/ CreateDemuxPipeline \/ CreateTiledInstance \/ CreateDemuxer
  \/ SkipInstance \/ CreateDemuxedInstance \/ InstancesCreated
  \/ AddStage \/ SkipStage \/ AddCommonTee
  \/ AddAndLinkBrokerSinks \/ LinkAll \/ BuildFails
  \/ \E i \in Sources :
       \/ UriPadAdded(i) \/ RtspPadAdded(i) \/ DecodedPadAdded(i) \/ SourceReset(i)
       \/ \E codec \in Codecs \cup {Other} : SelectStream(i, codec)
  \/ DestroyPipeline

Spec == Init /\ [][Next]_vars

-------------------------------------------------------------------------------
(* What is asked of the graph *)

Nodes == {link[1] : link \in links} \cup {link[2] : link \in links}

\* Nodes that can be reached from those of "from" by the links of "via".
Reach(from, via) ==
  LET reach[n \in 0..Cardinality(Nodes)] ==
        IF n = 0 THEN [all |-> from, new |-> from]
        ELSE LET near == reach[n - 1]
                 next == {link[2] : link \in {l \in via : l[1] \in near.new}} \ near.all
             IN IF near.new = {} THEN near ELSE [all |-> near.all \cup next, new |-> next]
  IN reach[Cardinality(Nodes)].all

\* Frames of source i leave the demuxer by their own pad.
Frames(i) ==
  Reach({Src(i, "src_elem")}, {link \in links : link[1] = Demuxer => link[2] = DemuxPad(i)})

\* All pads of all sources have appeared.
Delivers(i) ==
  CASE config.sources[i] = "uri" -> Linked(i, "src_elem", "tee")
    [] config.sources[i] = "rtsp" -> Linked(i, "src_elem", "depay") /\ Linked(i, "decodebin", "src_que")
    [] OTHER -> TRUE
Playing == phase = "built" /\ \A i \in Sources : Delivers(i)

\* What the comments and the groups of the configuration ask for: no tiler and
\* demuxer at once, the broker where the analytics are, a sink for what the
\* tiler shows in the first slot, and no more RTSP sinks than servers.
Sound ==
  /\ config.mode # "parallel"
  /\ \A k \in Brokers : config.sinks[k].source = 0 /\ ~config.sinks[k].demux
  /\ Brokers # {} => \E s \in Stages : Enabled(s)
  /\ config.mode = "enabled" => 1 \in SlotsOf(0)
  /\ Servers(Sinks) * MaxBuilds <= MaxSinks

\* The sources whose frames sink k is for (SinkSubBinConfig::source_id, app.cpp:973-981):
\* the tiler shows all of them, the broker gets the data of all.
SourcesOf(k) ==
  IF config.sinks[k].demux THEN {}
  ELSE IF config.mode = "enabled" THEN (IF config.sinks[k].source = 0 THEN Sources ELSE {})
  ELSE IF IsBroker(k) THEN Sources
  ELSE {config.sinks[k].source} \cap Sources

\* While all sources deliver, each sink gets the frames of exactly the sources
\* it is configured for, in the first pipeline and in every recreated one.
SinksAreFed ==
  Playing /\ Sound =>
    LET fed == [i \in Sources |-> Frames(i)]
    IN \A k \in Sinks : {i \in Sources : SinkOf(k) \in fed[i]} = SourcesOf(k)

\* An element that gets frames has somewhere to hand them: a pad that is not
\* linked ends a stream with an error, unless it is the demuxer's or the
\* sink tee's, for which that is allowed (allow-not-linked, sinks.cpp:839).
NoDeadEnds ==
  Playing /\ Sound =>
    \A i \in Sources : \A node \in Frames(i) :
      \/ node[3] \in {"sink", "fakesink"} /\ node[1] # "mux"
      \/ node = Demuxer
      \/ node[1] = "sink_bin" /\ node[3] = "tee"
      \/ \E link \in links : link[1] = node

Queues == {"queue", "dec_que", "src_que", "fakequeue", "conv_queue"}

\* Frames come where they are wanted and nowhere to an end before.
FramesArrive == SinksAreFed /\ NoDeadEnds

\* Of the branches of a tee at most one shares its thread: two branches
\* without a queue wait for each other's preroll.
BranchesQueued ==
  phase = "built" =>
    \A node \in {node \in Nodes : node[3] \in {"tee", "tee_rtsp_pre_decode", "tee_rtsp_post_decode"}} :
      Cardinality({link \in links : link[1] = node /\ link[2][3] \notin Queues}) <= 1

\* Frames pass the enabled stages in the order that their metadata asks for:
\* preprocessing, detection, tracking, line crossings, secondary engines, and
\* all of them before the message converter and the tee with the broker.
StagesInOrder ==
  phase = "built" =>
    LET order == <<"preprocess", "primary_gie", "tracker", "analytics",
                   "secondary_preprocess", "secondary_gie", "common_tee">>
        passed == {n \in 1..Len(order) : order[n] = "common_tee" \/ Enabled(order[n])}
        behind == [n \in passed |-> Reach({StageIn(order[n])}, links)]
    IN \A m, n \in passed : m < n =>
         /\ StageIn(order[n]) \in behind[m]
         /\ StageIn(order[m]) \notin behind[n]

\* A sound configuration is built unless an element cannot be created, as often
\* as it is recreated, and its sources' pads meet nothing that a former pipeline left.
BuildsUnlessFaulty == Sound /\ phase \in {"failed", "crashed"} => fault

\* The muxer hands on an EOS when all its pads have got one.
EosReaches(pads) ==
  Reach((pads \ {MuxPad(i) : i \in Indices})
          \cup (IF \A i \in Sources : MuxPad(i) \in pads THEN {Mux} ELSE {}), links)

\* The EOS of a teardown reaches every file that is being written: an mp4 file
\* without it cannot be played.
EosEndsFiles ==
  [][DestroyPipeline /\ Playing /\ Sound =>
       \A k \in Sinks : config.sinks[k].type = "file" /\ SourcesOf(k) # {} =>
         SinkOf(k) \in EosReaches(eos')]_vars

\* "When user sets tiler group enable=2, all sinks with the key:
\* link-only-to-demux=1 shall be linked to demuxer's src_[source_id] pad"
\* (tiled_display.hpp:10-16): such a pipeline is built unless an element is missing.
ParallelIsBuilt == config.mode = "parallel" /\ phase = "failed" => fault
===============================================================================
