------------------------- MODULE PipelineGraph_proofs -------------------------
(* Proofs about the graph that create_pipeline makes, for any set of configurations, *)
(* any number of sources, sinks and pipelines built one after the other.             *)
EXTENDS PipelineGraph, DataInduction, FiniteSetTheorems, TLAPS

(* The configuration *)

\* What the assumption on Configs says of the one that was read.
LEMMA ConfigFacts ==
  ASSUME config \in Configs
  PROVE  /\ config.mode \in {"disabled", "enabled", "parallel"}
         /\ Sources \subseteq Indices /\ 0 \in Sources
         /\ \A i \in Sources : config.sources[i] \in SourceTypes
         /\ Sinks = 1..Len(config.sinks) /\ Len(config.sinks) \in Nat /\ Len(config.sinks) <= MaxSinks
         /\ Sinks \subseteq Slots
         /\ \A k \in Sinks : config.sinks[k] \in SinkConfig
         /\ {config.osd, config.msg_conv} \subseteq BOOLEAN
         /\ config.stages \subseteq Stages
<1>1. IsConfig(config)
  BY GraphAssumption
<1>2. PICK n \in Indices : config.sources \in [0..n -> SourceTypes]
  BY <1>1 DEF IsConfig
<1>3. Sources = 0..n /\ n \in Nat /\ n < MaxSources
  BY <1>2, GraphAssumption DEF Sources, Indices
<1>4. Sources \subseteq Indices /\ 0 \in Sources
  BY <1>3, GraphAssumption DEF Indices
<1>5. \A i \in Sources : config.sources[i] \in SourceTypes
  BY <1>2, <1>3
<1>6. config.sinks \in Seq(SinkConfig) /\ Len(config.sinks) <= MaxSinks
  BY <1>1 DEF IsConfig
<1>7. Sinks = 1..Len(config.sinks) /\ Len(config.sinks) \in Nat
  BY <1>6 DEF Sinks
<1>8. \A k \in Sinks : config.sinks[k] \in SinkConfig
  BY <1>6, <1>7
<1>9. Sinks \subseteq Slots
  BY <1>6, <1>7, GraphAssumption DEF Slots
<1>10. QED BY <1>1, <1>4, <1>5, <1>6, <1>7, <1>8, <1>9 DEF IsConfig

\* Sets of sinks are finite and no larger than the slots.
LEMMA SinksFinite ==
  ASSUME config \in Configs, NEW S \in SUBSET Sinks
  PROVE  IsFiniteSet(S) /\ Cardinality(S) \in Nat /\ Cardinality(S) <= MaxSinks
<1>1. IsFiniteSet(Sinks) /\ Cardinality(Sinks) <= MaxSinks
  <2>1. Sinks = 1..Len(config.sinks) /\ Len(config.sinks) \in Nat /\ Len(config.sinks) <= MaxSinks
    BY ConfigFacts
  <2>2. 1 \in Int /\ Len(config.sinks) \in Int
    BY <2>1
  <2>3. IsFiniteSet(1..Len(config.sinks)) /\
        Cardinality(1..Len(config.sinks)) = IF 1 > Len(config.sinks) THEN 0 ELSE Len(config.sinks) - 1 + 1
    BY <2>2, FS_Interval
  <2>4. QED BY <2>1, <2>3
<1>2. IsFiniteSet(S) /\ Cardinality(S) <= Cardinality(Sinks)
  BY <1>1, FS_Subset
<1>3. Cardinality(S) \in Nat /\ Cardinality(Sinks) \in Nat
  BY <1>1, <1>2, FS_CardinalityType
<1>4. QED BY <1>1, <1>2, <1>3, GraphAssumption

RtspSinks(slots) == {k \in slots : config.sinks[k].type = "rtsp"}

\* Servers are counted slot by slot.
LEMMA ServersAdd ==
  ASSUME config \in Configs, NEW A \in SUBSET Sinks, NEW B \in SUBSET Sinks
  PROVE  /\ Servers(A) \in Nat /\ Servers(B) \in Nat /\ Servers(A) <= MaxSinks
         /\ A \subseteq B => Servers(A) <= Servers(B)
         /\ A \cap B = {} => Servers(A \cup B) = Servers(A) + Servers(B)
<1> DEFINE RA == RtspSinks(A)
           RB == RtspSinks(B)
<1>1. /\ Servers(A) = Cardinality(RA) /\ Servers(B) = Cardinality(RB)
      /\ Servers(A \cup B) = Cardinality(RtspSinks(A \cup B))
  BY Zenon DEF Servers, RtspSinks
<1>2. RA \in SUBSET Sinks /\ RB \in SUBSET Sinks
  BY DEF RtspSinks
<1>3. /\ IsFiniteSet(RA) /\ Cardinality(RA) \in Nat /\ Cardinality(RA) <= MaxSinks
      /\ IsFiniteSet(RB) /\ Cardinality(RB) \in Nat
  BY <1>2, SinksFinite
<1>4. ASSUME A \subseteq B PROVE Servers(A) <= Servers(B)
  <2>1. RA \in SUBSET RB
    BY <1>4 DEF RtspSinks
  <2>2. QED BY <2>1, <1>1, <1>3, FS_Subset
<1>5. ASSUME A \cap B = {} PROVE Servers(A \cup B) = Servers(A) + Servers(B)
  <2>1. RtspSinks(A \cup B) = RA \cup RB /\ RA \cap RB = {}
    BY <1>5 DEF RtspSinks
  <2>2. Cardinality(RA \cup RB) = Cardinality(RA) + Cardinality(RB) - Cardinality(RA \cap RB)
    BY <1>3, FS_Union
  <2>3. Cardinality(RA \cap RB) = 0
    BY <2>1, FS_EmptySet
  <2>4. Servers(A \cup B) = Cardinality(RA \cup RB)
    BY <2>1, <1>1, Zenon
  <2> HIDE DEF RA, RB
  <2>5. QED BY <2>2, <2>3, <2>4, <1>1, <1>3
<1>6. QED BY <1>1, <1>3, <1>4, <1>5

\* There are six stages.
LEMMA SixStages == Cardinality(Stages) = 6
<1>1. IsFiniteSet({}) /\ Cardinality({}) = 0
  BY FS_EmptySet
<1>2. IsFiniteSet({"preprocess"}) /\ Cardinality({"preprocess"}) = 1
  BY FS_Singleton
<1> DEFINE two == {"preprocess"} \cup {"primary_gie"}
           three == two \cup {"tracker"}
           four == three \cup {"analytics"}
           five == four \cup {"secondary_preprocess"}
<1>3. IsFiniteSet(two) /\ Cardinality(two) = 2
  BY <1>2, FS_AddElement
<1>4. IsFiniteSet(three) /\ Cardinality(three) = 3
  <2>1. "tracker" \notin two
    OBVIOUS
  <2> HIDE DEF two
  <2>2. QED BY <2>1, <1>3, FS_AddElement
<1>5. IsFiniteSet(four) /\ Cardinality(four) = 4
  <2>1. "analytics" \notin three
    OBVIOUS
  <2> HIDE DEF three
  <2>2. QED BY <2>1, <1>4, FS_AddElement
<1>6. IsFiniteSet(five) /\ Cardinality(five) = 5
  <2>1. "secondary_preprocess" \notin four
    OBVIOUS
  <2> HIDE DEF four
  <2>2. QED BY <2>1, <1>5, FS_AddElement
<1>7. Cardinality(five \cup {"secondary_gie"}) = 6
  <2>1. "secondary_gie" \notin five
    OBVIOUS
  <2> HIDE DEF five
  <2>2. QED BY <2>1, <1>6, FS_AddElement
<1>8. Stages = five \cup {"secondary_gie"}
  BY DEF Stages
<1>9. QED BY <1>7, <1>8

\* One build more makes room for one more set of slots.
LEMMA Rooms ==
  ASSUME NEW b \in Nat, NEW c \in Nat, NEW m \in Nat, b <= c
  PROVE  b * m \in Nat /\ c * m \in Nat /\ (b + 1) * m = b * m + m /\ b * m <= c * m
<1>1. b * m \in Nat /\ c * m \in Nat /\ (b + 1) * m = b * m + m
  OBVIOUS
<1>2. PICK d \in Nat : c = b + d
  <2>1. c - b \in Nat /\ c = b + (c - b)
    OBVIOUS
  <2>2. QED BY <2>1
<1>3. c * m = b * m + d * m /\ d * m \in Nat
  BY <1>2
<1>4. QED BY <1>1, <1>3

-------------------------------------------------------------------------------
(* Types *)

Made == {"built", "failed", "crashed", "destroyed", "over", "lost"}

\* The types of the variables, without the bounds of the two tables.
GraphType ==
  /\ config \in Configs
  /\ phase \in Building \cup Made \cup {"new"}
  /\ step \in 0..(6 + MaxSources)
  /\ builds \in 0..MaxBuilds
  /\ phase = "new" \/ builds >= 1
  /\ fault \in BOOLEAN
  /\ {upstream, downstream} \subseteq Stages \cup {NoStage, "common_tee"}
  /\ {mux, demuxer} \subseteq 0..builds
  /\ instances \in [Indices -> 0..builds]
  /\ sub_bins \in [Slots -> 0..builds]
  /\ num_bins \in [Indices -> Nat]
  /\ servers \in Nat
  /\ timer \in {"null", "live", "freed"}
  /\ stream \in [Indices -> Codecs \cup {Other, NoStream}]
  /\ depay \in [Indices -> {NoDepay} \cup [codec : Codecs, build : 1..MaxBuilds]]
  /\ parser \in [Indices -> 0..builds]

\* Nothing is built yet.
LEMMA GraphTypeInit == Init => GraphType
<1> SUFFICES ASSUME Init PROVE GraphType
  OBVIOUS
<1>1. builds = 0 /\ 0 \in 0..MaxBuilds /\ 0 \in 0..builds /\ step = 0 /\ 0 \in 0..(6 + MaxSources)
  BY GraphAssumption DEF Init
<1>2. {upstream, downstream} \subseteq Stages \cup {NoStage, "common_tee"}
  BY DEF Init
<1>3. /\ instances \in [Indices -> 0..builds] /\ sub_bins \in [Slots -> 0..builds]
      /\ parser \in [Indices -> 0..builds] /\ {mux, demuxer} \subseteq 0..builds
  BY <1>1 DEF Init
<1>4. num_bins \in [Indices -> Nat] /\ servers \in Nat
  BY DEF Init
<1>5. /\ stream \in [Indices -> Codecs \cup {Other, NoStream}]
      /\ depay \in [Indices -> {NoDepay} \cup [codec : Codecs, build : 1..MaxBuilds]]
  BY DEF Init
<1>6. config \in Configs /\ phase = "new" /\ fault \in BOOLEAN /\ timer \in {"null", "live", "freed"}
  BY DEF Init
<1>7. QED BY <1>1, <1>2, <1>3, <1>4, <1>5, <1>6 DEF GraphType

\* A table of builds stays one when there are more of them.
LEMMA MoreBuilds ==
  ASSUME NEW b \in Nat, NEW c \in Nat, b <= c, NEW S, NEW f \in [S -> 0..b]
  PROVE  f \in [S -> 0..c]
OBVIOUS

\* What a processing instance writes keeps its type.
LEMMA InstanceTyped ==
  ASSUME GraphType, builds >= 1, NEW i \in Sources, CreateProcessingInstance(i)
  PROVE  /\ instances' \in [Indices -> 0..builds]
         /\ sub_bins' \in [Slots -> 0..builds]
         /\ num_bins' \in [Indices -> Nat]
         /\ servers' \in Nat
<1>1. i \in Indices /\ builds \in 0..builds
  BY ConfigFacts DEF GraphType
<1>2. SlotsOf(i) \in SUBSET Sinks
  BY DEF SlotsOf
<1>3. Cardinality(SlotsOf(i)) \in Nat /\ Servers(SlotsOf(i)) \in Nat
  BY <1>2, SinksFinite, ServersAdd DEF GraphType
<1>4. SinksSoFar(i) \in Nat
  BY <1>1, <1>3 DEF SinksSoFar, GraphType
<1>5. instances' \in [Indices -> 0..builds]
  BY <1>1 DEF CreateProcessingInstance, GraphType
<1>6. num_bins' \in [Indices -> Nat]
  BY <1>1, <1>4 DEF CreateProcessingInstance, GraphType
<1>7. sub_bins' \in [Slots -> 0..builds]
  BY <1>1 DEF CreateProcessingInstance, GraphType
<1>8. servers' \in Nat
  BY <1>3 DEF CreateProcessingInstance, GraphType
<1>9. QED BY <1>5, <1>6, <1>7, <1>8

\* Every step keeps the types.
LEMMA GraphTypeNext == GraphType /\ [Next]_vars => GraphType'
<1> SUFFICES ASSUME GraphType, [Next]_vars
             PROVE  GraphType'
  OBVIOUS
<1> USE GraphAssumption
<1>0. /\ config \in Configs /\ step \in Nat /\ builds \in Nat /\ MaxBuilds \in Nat
      /\ \A i \in Sources : i \in Indices /\ i < MaxSources /\ i \in Nat
      /\ 0 \in Sources
  BY ConfigFacts DEF GraphType, Indices
<1>1. CASE CreateMultiSourceBin
  <2>1. builds' = builds + 1 /\ builds' \in 1..MaxBuilds /\ builds <= builds'
    BY <1>1 DEF CreateMultiSourceBin, GraphType
  <2>2. /\ instances' \in [Indices -> 0..builds'] /\ sub_bins' \in [Slots -> 0..builds']
        /\ parser' \in [Indices -> 0..builds']
    BY <1>1, <2>1, MoreBuilds DEF CreateMultiSourceBin, GraphType, pad_vars
  <2>3. {mux', demuxer'} \subseteq 0..builds'
    BY <1>1, <2>1 DEF CreateMultiSourceBin, GraphType
  <2>4. phase' \in Building /\ step' = 0 /\ upstream' = NoStage /\ downstream' = NoStage
    BY <1>1 DEF CreateMultiSourceBin, Building
  <2>5. UNCHANGED <<config, fault, num_bins, servers, timer, stream, depay>>
    BY <1>1 DEF CreateMultiSourceBin, pad_vars
  <2>6. QED BY <2>1, <2>2, <2>3, <2>4, <2>5 DEF GraphType
<1>2. CASE CreateDemuxPipeline
  <2>1. Servers(DemuxSlots) \in Nat
    BY <1>0, ServersAdd DEF DemuxSlots
  <2>2. servers' \in Nat /\ demuxer' = builds
    BY <1>2, <2>1 DEF CreateDemuxPipeline, GraphType
  <2>3. phase' \in {"failed", "instances", "crashed"} /\ phase = "demux"
    BY <1>2, Zenon DEF CreateDemuxPipeline, AfterServing
  <2>4. UNCHANGED <<config, step, builds, fault, upstream, downstream, mux, instances, sub_bins, num_bins,
                    timer, stream, depay, parser>>
    BY <1>2 DEF CreateDemuxPipeline, pad_vars
  <2>5. QED BY <2>2, <2>3, <2>4 DEF GraphType, Building, Made
<1>3. CASE CreateTiledInstance
  <2>1. CreateProcessingInstance(0) /\ builds >= 1
    BY <1>3 DEF CreateTiledInstance, GraphType
  <2>2. PICK served \in {"common", "crashed"} :
          phase' \in IF served = "crashed" THEN {served} ELSE AfterProbing(sub_bins'[1], "common")
    BY <1>3, Zenon DEF CreateTiledInstance, AfterServing
  <2>3. phase' \in {"common", "failed", "crashed"}
    BY <2>2 DEF AfterProbing
  <2>4. UNCHANGED <<config, builds, fault, upstream, downstream, mux, demuxer, timer, stream, depay, parser>>
        /\ step' = 1
    BY <1>3 DEF CreateTiledInstance, pad_vars
  <2>5. /\ instances' \in [Indices -> 0..builds] /\ sub_bins' \in [Slots -> 0..builds]
        /\ num_bins' \in [Indices -> Nat] /\ servers' \in Nat
    BY <2>1, <1>0, InstanceTyped
  <2>6. QED BY <2>1, <2>3, <2>4, <2>5, <1>0 DEF GraphType, Building, Made
<1>4. CASE CreateDemuxer
  BY <1>4, <1>0 DEF CreateDemuxer, GraphType, Building, pad_vars
<1>5. CASE SkipInstance
  BY <1>5, <1>0 DEF SkipInstance, GraphType, pad_vars, pointer_vars
<1>6. CASE CreateDemuxedInstance
  <2>1. CreateProcessingInstance(step) /\ step \in Sources /\ builds >= 1
    BY <1>6 DEF CreateDemuxedInstance, GraphType
  <2>2. phase' \in {"failed", "demuxed", "crashed"}
    BY <1>6, Zenon DEF CreateDemuxedInstance, AfterServing
  <2>3. UNCHANGED <<config, builds, fault, upstream, downstream, mux, demuxer, timer, stream, depay, parser>>
        /\ step' = step + 1
    BY <1>6 DEF CreateDemuxedInstance, pad_vars
  <2>4. /\ instances' \in [Indices -> 0..builds] /\ sub_bins' \in [Slots -> 0..builds]
        /\ num_bins' \in [Indices -> Nat] /\ servers' \in Nat
    BY <2>1, InstanceTyped
  <2>5. step' \in 0..(6 + MaxSources)
    BY <2>1, <2>3, <1>0
  <2>6. QED BY <2>1, <2>2, <2>3, <2>4, <2>5 DEF GraphType, Building, Made
<1>7. CASE InstancesCreated
  BY <1>7 DEF InstancesCreated, GraphType, Building, pad_vars, pointer_vars
<1>8. CASE AddStage \/ SkipStage
  <2>1. phase = "common" /\ phase' = "common" /\ step <= 6 /\ step' = step + 1
    BY <1>8 DEF AddStage, SkipStage, CreationOrder
  <2>2. step' \in 0..(6 + MaxSources)
    BY <2>1, <1>0
  <2>3. UNCHANGED <<config, builds, fault, mux, demuxer, instances, sub_bins, num_bins, servers, stream, depay, parser>>
    BY <1>8 DEF AddStage, SkipStage, pad_vars, pointer_vars
  <2>4. timer' \in {"null", "live", "freed"}
    BY <1>8, Zenon DEF AddStage, SkipStage, pointer_vars, GraphType
  <2>5. {upstream', downstream'} \subseteq Stages \cup {NoStage, "common_tee"}
    <3>1. CASE SkipStage
      BY <3>1 DEF SkipStage, GraphType
    <3>2. CASE AddStage
      <4> DEFINE s == CreationOrder[step]
      <4>1. s \in Stages
        BY <3>2, <1>0, ConfigFacts DEF AddStage, Enabled
      <4>2. upstream' = s /\ downstream' \in {s, downstream}
        BY <3>2, Zenon DEF AddStage, NewDownstream
      <4> HIDE DEF s
      <4>3. QED BY <4>1, <4>2 DEF GraphType
    <3>3. QED BY <3>1, <3>2, <1>8
  <2>6. QED BY <2>1, <2>2, <2>3, <2>4, <2>5 DEF GraphType, Building
<1>9. CASE AddCommonTee
  <2>1. phase = "common" /\ phase' = "broker" /\ downstream' \in {downstream, "common_tee"}
    BY <1>9, Zenon DEF AddCommonTee
  <2>2. UNCHANGED <<config, step, builds, fault, upstream, mux, demuxer, instances, sub_bins, num_bins, servers,
                    timer, stream, depay, parser>>
    BY <1>9 DEF AddCommonTee, pad_vars, pointer_vars
  <2>3. QED BY <2>1, <2>2 DEF GraphType, Building
<1>10. CASE AddAndLinkBrokerSinks \/ LinkAll
  <2>1. phase \in {"broker", "last"} /\ phase' \in {"last", "failed", "built"}
    BY <1>10, Zenon DEF AddAndLinkBrokerSinks, LinkAll
  <2>2. UNCHANGED <<config, step, builds, fault, upstream, downstream, mux, demuxer, instances, sub_bins, num_bins,
                    servers, timer, stream, depay, parser>>
    BY <1>10 DEF AddAndLinkBrokerSinks, LinkAll, pad_vars, pointer_vars
  <2>3. QED BY <2>1, <2>2 DEF GraphType, Building, Made
<1>11. CASE BuildFails
  <2>1. /\ phase' = "failed" /\ fault' = TRUE
        /\ UNCHANGED <<config, step, upstream, downstream, sub_bins, num_bins, servers, timer, stream, depay, parser>>
    BY <1>11 DEF BuildFails, pad_vars
  <2>2. /\ builds' \in 1..MaxBuilds /\ builds <= builds'
        /\ {mux', demuxer'} \subseteq 0..builds'
    <3>1. CASE phase \in {"new", "destroyed"}
      <4>1. /\ builds < MaxBuilds /\ builds' = builds + 1
            /\ mux' \in {mux, builds'} /\ demuxer' = demuxer
        BY <1>11, <3>1 DEF BuildFails
      <4>2. QED BY <4>1 DEF GraphType
    <3>2. CASE phase \notin {"new", "destroyed"}
      <4>1. builds' = builds /\ mux' = mux /\ demuxer' \in {demuxer, builds}
        BY <1>11, <3>2 DEF BuildFails
      <4>2. QED BY <4>1, <3>2 DEF GraphType
    <3>3. QED BY <3>1, <3>2
  <2>3. instances' \in [Indices -> 0..builds']
    <3>1. \/ instances' = instances
          \/ \E j \in Indices : instances' = [instances EXCEPT ![j] = builds]
      <4>1. 0 \in Indices
        BY <1>0
      <4>2. CASE phase = "demuxed" /\ step \in Sources
        BY <1>11, <4>2, <1>0, Zenon DEF BuildFails
      <4>3. CASE phase = "instances"
        BY <1>11, <4>3, <4>1 DEF BuildFails
      <4>4. CASE phase # "instances" /\ ~(phase = "demuxed" /\ step \in Sources)
        BY <1>11, <4>4 DEF BuildFails
      <4>5. QED BY <4>2, <4>3, <4>4
    <3>2. builds \in 0..builds' /\ instances \in [Indices -> 0..builds']
      BY <2>2, <1>0, MoreBuilds DEF GraphType
    <3>3. QED BY <3>1, <3>2
  <2>4. sub_bins' \in [Slots -> 0..builds'] /\ parser' \in [Indices -> 0..builds']
    BY <2>1, <2>2, <1>0, MoreBuilds DEF GraphType
  <2>5. QED BY <2>1, <2>2, <2>3, <2>4 DEF GraphType, Made
<1>12. ASSUME NEW i \in Sources, UriPadAdded(i) \/ DecodedPadAdded(i) PROVE GraphType'
  BY <1>12 DEF UriPadAdded, DecodedPadAdded, GraphType, build_vars, pointer_vars, pad_vars
<1>13. ASSUME NEW i \in Sources, RtspPadAdded(i) PROVE GraphType'
  <2>1. phase = "built" /\ phase' \in {"built", "crashed"}
    BY <1>13, Zenon DEF RtspPadAdded
  <2>2. UNCHANGED <<config, step, builds, fault, upstream, downstream, mux, demuxer, instances, sub_bins, num_bins,
                    servers, timer, stream, depay, parser>>
    BY <1>13 DEF RtspPadAdded, pad_vars, pointer_vars
  <2>3. QED BY <2>1, <2>2 DEF GraphType, Made
<1>14. ASSUME NEW i \in Sources, SourceReset(i) PROVE GraphType'
  <2>1. phase = "built" /\ phase' \in {"built", "lost"}
    BY <1>14, Zenon DEF SourceReset
  <2>2. UNCHANGED <<config, step, builds, fault, upstream, downstream, mux, demuxer, instances, sub_bins, num_bins,
                    servers, timer, depay, parser>>
    BY <1>14 DEF SourceReset, pointer_vars
  <2>3. stream' \in [Indices -> Codecs \cup {Other, NoStream}]
    BY <1>14 DEF SourceReset, GraphType
  <2>4. QED BY <2>1, <2>2, <2>3 DEF GraphType, Made
<1>15. ASSUME NEW i \in Sources, NEW codec \in Codecs \cup {Other}, SelectStream(i, codec) PROVE GraphType'
  <2>1. phase = "built" /\ i \in Indices /\ builds \in 1..MaxBuilds
    BY <1>15, <1>0 DEF SelectStream, GraphType
  <2>2. UNCHANGED <<config, phase, step, builds, fault, upstream, downstream, mux, demuxer, instances, sub_bins,
                    num_bins, servers, timer>>
    BY <1>15 DEF SelectStream, build_vars, pointer_vars
  <2>3. stream' \in [Indices -> Codecs \cup {Other, NoStream}]
    BY <1>15 DEF SelectStream, GraphType
  <2>4. /\ depay' \in [Indices -> {NoDepay} \cup [codec : Codecs, build : 1..MaxBuilds]]
        /\ parser' \in [Indices -> 0..builds]
    <3>1. CASE depay[i] = NoDepay
      <4>1. /\ codec \in Codecs
            /\ depay' = [depay EXCEPT ![i] = [codec |-> codec, build |-> builds]]
            /\ parser' = [parser EXCEPT ![i] = builds]
        BY <1>15, <3>1 DEF SelectStream, Supported
      <4>2. [codec |-> codec, build |-> builds] \in [codec : Codecs, build : 1..MaxBuilds]
        BY <4>1, <2>1
      <4>3. builds \in 0..builds
        BY <2>1
      <4>4. QED BY <4>1, <4>2, <4>3 DEF GraphType
    <3>2. CASE depay[i] # NoDepay
      BY <1>15, <3>2 DEF SelectStream, GraphType
    <3>3. QED BY <3>1, <3>2
  <2>5. QED BY <2>2, <2>3, <2>4 DEF GraphType
<1>16. CASE DestroyPipeline
  <2>1. phase \in {"built", "failed"} /\ phase' \in {"lost", "destroyed", "over"}
    BY <1>16, Zenon DEF DestroyPipeline
  <2>2. UNCHANGED <<config, step, builds, fault, upstream, downstream, mux, demuxer, instances, sub_bins, num_bins,
                    servers, parser>>
    BY <1>16 DEF DestroyPipeline
  <2>3. timer' \in {"null", "live", "freed"}
    BY <1>16, Zenon DEF DestroyPipeline, GraphType
  <2>4. stream' \in [Indices -> Codecs \cup {Other, NoStream}]
    BY <1>16 DEF DestroyPipeline
  <2>5. depay' \in [Indices -> {NoDepay} \cup [codec : Codecs, build : 1..MaxBuilds]]
    BY <1>16 DEF DestroyPipeline, ClearedDepay, GraphType
  <2>6. QED BY <2>1, <2>2, <2>3, <2>4, <2>5 DEF GraphType, Made
<1>17. CASE UNCHANGED vars
  BY <1>17 DEF vars, build_vars, pointer_vars, pad_vars, GraphType
<1>18. QED
  BY <1>1, <1>2, <1>3, <1>4, <1>5, <1>6, <1>7, <1>8, <1>9, <1>10, <1>11, <1>12, <1>13, <1>14, <1>15, <1>16, <1>17
     DEF Next

-------------------------------------------------------------------------------
(* The two tables that grow with every pipeline *)

Instancing == {"demux", "instances", "demuxed"}

\* The sinks whose servers are counted when phase is p and step is n; at most these.
Served(p, n) ==
  {k \in Sinks : p # "demux" /\ (config.sinks[k].demux \/ (p = "demuxed" /\ config.sinks[k].source < n))}

\* What num_bins[i] and g_server_count can have come to: an instance is made, and a
\* sink is served, once in each pipeline.
NotYet(i) == phase \in {"demux", "instances"} \/ (phase = "demuxed" /\ step <= i)
Counted ==
  /\ \A i \in Indices : num_bins[i] <= (IF NotYet(i) THEN builds - 1 ELSE builds) * MaxSinks
  /\ servers <= builds * Servers(Sinks)
  /\ phase \in Instancing => servers <= (builds - 1) * Servers(Sinks) + Servers(Served(phase, step))

\* Serving sinks that were not served adds to those that were.
LEMMA ServeMore ==
  ASSUME GraphType, Counted, phase \in Instancing,
         NEW A \in SUBSET Sinks, A \cap Served(phase, step) = {}
  PROVE  /\ Servers(A) \in Nat
         /\ servers + Servers(A) <= (builds - 1) * Servers(Sinks) + Servers(Served(phase, step) \cup A)
         /\ servers + Servers(A) <= builds * Servers(Sinks)
<1> DEFINE B == Served(phase, step)
           total == Servers(Sinks)
<1>1. B \in SUBSET Sinks /\ B \cup A \in SUBSET Sinks
  BY DEF Served
<1>2. /\ Servers(A) \in Nat /\ Servers(B) \in Nat /\ Servers(B \cup A) \in Nat /\ total \in Nat
      /\ Servers(B \cup A) = Servers(B) + Servers(A)
      /\ Servers(B \cup A) <= total
  <2>1. B \cap A = {}
    OBVIOUS
  <2>2. config \in Configs
    BY DEF GraphType
  <2> HIDE DEF B
  <2>3. Servers(B \cup A) = Servers(B) + Servers(A) /\ Servers(A) \in Nat /\ Servers(B) \in Nat
    BY <2>1, <2>2, <1>1, ServersAdd
  <2>4. Servers(B \cup A) <= total /\ total \in Nat /\ Servers(B \cup A) \in Nat
    BY <2>2, <1>1, ServersAdd
  <2>5. QED BY <2>3, <2>4
<1>3. servers <= (builds - 1) * total + Servers(B) /\ servers \in Nat
  BY DEF Counted, GraphType
<1>4. builds - 1 \in Nat /\ (builds - 1) + 1 = builds
  BY GraphAssumption DEF GraphType, Instancing
<1>5. (builds - 1) * total \in Nat /\ ((builds - 1) + 1) * total = (builds - 1) * total + total
  BY <1>2, <1>4, Rooms
<1> HIDE DEF B, total
<1>6. servers + Servers(A) <= (builds - 1) * total + Servers(B \cup A)
  BY <1>2, <1>3, <1>5
<1>7. servers + Servers(A) <= builds * total
  <2>1. builds * total = (builds - 1) * total + total
    BY <1>4, <1>5
  <2> DEFINE old == (builds - 1) * total
             all == builds * total
  <2>2. all = old + total /\ old \in Nat /\ servers + Servers(A) <= old + Servers(B \cup A)
    BY <2>1, <1>5, <1>6
  <2> HIDE DEF old, all
  <2>3. servers + Servers(A) <= all
    BY <2>2, <1>2, <1>3
  <2>4. QED BY <2>3 DEF all
<1>8. QED BY <1>2, <1>6, <1>7 DEF B, total

\* What a processing instance adds to its own entry of num_bins, in a pipeline that had none of it.
LEMMA InstanceCounted ==
  ASSUME GraphType, Counted, NEW i \in Sources, NotYet(i), CreateProcessingInstance(i)
  PROVE  /\ num_bins'[i] <= builds * MaxSinks
         /\ \A j \in Indices \ {i} : num_bins'[j] = num_bins[j]
<1>1. i \in Indices /\ SlotsOf(i) \in SUBSET Sinks
  BY ConfigFacts DEF GraphType, SlotsOf
<1>2. Cardinality(SlotsOf(i)) \in Nat /\ Cardinality(SlotsOf(i)) <= MaxSinks
  BY <1>1, SinksFinite DEF GraphType
<1>3. builds - 1 \in Nat /\ (builds - 1) + 1 = builds
  BY GraphAssumption DEF GraphType, NotYet
<1>4. (builds - 1) * MaxSinks \in Nat /\ ((builds - 1) + 1) * MaxSinks = (builds - 1) * MaxSinks + MaxSinks
  BY <1>3, Rooms, GraphAssumption
<1>5. num_bins[i] \in Nat /\ num_bins[i] <= (builds - 1) * MaxSinks
  BY <1>1 DEF GraphType, Counted
<1>6. num_bins'[i] \in {1, SinksSoFar(i)}
  BY <1>1, Zenon DEF CreateProcessingInstance, GraphType
<1>7. SinksSoFar(i) <= builds * MaxSinks /\ 1 <= builds * MaxSinks
  BY <1>2, <1>3, <1>4, <1>5, GraphAssumption DEF SinksSoFar
<1>8. \A j \in Indices \ {i} : num_bins'[j] = num_bins[j]
  BY <1>1 DEF CreateProcessingInstance, GraphType
<1>9. QED BY <1>6, <1>7, <1>8

\* Which sinks are served depends on the configuration, the phase and the step.
LEMMA ServedNext ==
  ASSUME UNCHANGED config
  PROVE  /\ Servers(Sinks)' = Servers(Sinks)
         /\ Servers(Served(phase, step))' = Servers(Served(phase', step'))
<1>1. Sinks' = Sinks
  BY DEF Sinks
<1>2. Servers(Sinks)' = Servers(Sinks)
  BY <1>1 DEF Servers
<1>3. Served(phase, step)' = Served(phase', step')
  BY <1>1 DEF Served
<1>4. Servers(Served(phase, step))' = Servers(Served(phase', step'))
  BY <1>3 DEF Servers
<1>5. QED BY <1>2, <1>4

\* At first there are neither sinks nor servers.
LEMMA CountedInit == Init => Counted
<1> SUFFICES ASSUME Init PROVE Counted
  OBVIOUS
<1>1. config \in Configs /\ builds = 0 /\ servers = 0 /\ phase = "new" /\ \A i \in Indices : num_bins[i] = 0
  BY DEF Init
<1>2. Servers(Sinks) \in Nat
  BY <1>1, ServersAdd
<1>3. 0 * MaxSinks = 0 /\ 0 * Servers(Sinks) = 0
  BY <1>2, GraphAssumption
<1>4. QED BY <1>1, <1>3 DEF Counted, NotYet, Instancing

\* A step that counts nothing and does not go back to before an instance.
LEMMA CountedRests ==
  ASSUME GraphType, Counted, GraphType', UNCHANGED <<config, servers, num_bins>>,
         builds' \in {builds, builds + 1},
         phase' \notin Instancing
  PROVE  Counted'
<1>1. builds \in Nat /\ builds' \in Nat /\ builds <= builds' /\ MaxSinks \in Nat /\ servers \in Nat
  BY GraphAssumption DEF GraphType
<1>2. Servers(Sinks) \in Nat /\ Servers(Sinks)' = Servers(Sinks)
  BY ServersAdd DEF GraphType, Servers, Sinks
<1>3. builds * MaxSinks <= builds' * MaxSinks /\ builds * Servers(Sinks) <= builds' * Servers(Sinks)
      /\ builds * MaxSinks \in Nat /\ builds' * MaxSinks \in Nat
      /\ builds * Servers(Sinks) \in Nat /\ builds' * Servers(Sinks) \in Nat
  BY <1>1, <1>2, Rooms
<1>4. servers' <= builds' * Servers(Sinks)'
  BY <1>1, <1>2, <1>3 DEF Counted
<1>5. ASSUME NEW i \in Indices PROVE num_bins'[i] <= builds' * MaxSinks
  <2>1. num_bins[i] \in Nat
    BY DEF GraphType
  <2>2. num_bins[i] <= builds * MaxSinks
    <3>1. CASE ~NotYet(i)
      BY <3>1 DEF Counted
    <3>2. CASE NotYet(i)
      <4>1. builds - 1 \in Nat /\ builds - 1 <= builds
        BY <3>2, <1>1 DEF NotYet, GraphType
      <4>2. (builds - 1) * MaxSinks <= builds * MaxSinks /\ (builds - 1) * MaxSinks \in Nat
        BY <4>1, <1>1, Rooms
      <4>3. num_bins[i] <= (builds - 1) * MaxSinks
        BY <3>2 DEF Counted
      <4>4. QED BY <4>2, <4>3, <2>1, <1>3
    <3>3. QED BY <3>1, <3>2
  <2>3. QED BY <2>1, <2>2, <1>3
<1>6. \A i \in Indices : ~NotYet(i)'
  BY DEF NotYet, Instancing
<1>7. QED BY <1>4, <1>5, <1>6 DEF Counted

\* A build adds at most its sinks to the tables.
LEMMA CountedNext == GraphType /\ GraphType' /\ Counted /\ [Next]_vars => Counted'
<1> SUFFICES ASSUME GraphType, GraphType', Counted, [Next]_vars
             PROVE  Counted'
  OBVIOUS
<1>0. config \in Configs /\ step \in Nat /\ builds \in Nat /\ MaxSinks \in Nat
  BY GraphAssumption DEF GraphType
<1>1. CASE CreateMultiSourceBin
  <2>1. /\ builds' = builds + 1 /\ phase \in {"new", "destroyed"} /\ phase' \in {"demux", "instances"}
        /\ UNCHANGED <<config, servers, num_bins>> /\ builds' - 1 = builds
    BY <1>1, <1>0 DEF CreateMultiSourceBin
  <2>2. ~NotYet(0) /\ \A i \in Indices : num_bins[i] <= builds * MaxSinks
    BY <2>1 DEF Counted, NotYet
  <2>3. \A i \in Indices : num_bins'[i] <= (builds' - 1) * MaxSinks
    BY <2>1, <2>2
  <2>4. \A i \in Indices : NotYet(i)'
    BY <2>1 DEF NotYet
  <2>5. /\ Servers(Sinks)' = Servers(Sinks) /\ Servers(Sinks) \in Nat
        /\ Servers(Served(phase, step))' \in Nat
    <3>1. config' \in Configs /\ Sinks' = Sinks
      BY <2>1, <1>0 DEF Sinks
    <3>2. Servers(Sinks)' = Servers(Sinks) /\ Servers(Sinks) \in Nat
      BY <2>1, <1>0, ServersAdd DEF Servers, Sinks
    <3>3. Served(phase', step') \in SUBSET Sinks
      BY DEF Served
    <3>4. Servers(Served(phase', step')) \in Nat
      BY <3>3, <1>0, ServersAdd
    <3>5. Servers(Served(phase, step))' = Servers(Served(phase', step'))
      BY <2>1, ServedNext
    <3>6. QED BY <3>2, <3>4, <3>5
  <2>6. builds * Servers(Sinks) \in Nat /\ builds * Servers(Sinks) <= builds' * Servers(Sinks)
        /\ builds' * Servers(Sinks) \in Nat
    BY <2>1, <2>5, <1>0, Rooms
  <2>7. servers \in Nat /\ servers <= builds * Servers(Sinks)
    BY DEF Counted, GraphType
  <2>8. servers' <= builds' * Servers(Sinks)'
    BY <2>1, <2>5, <2>6, <2>7
  <2>9. servers' <= (builds' - 1) * Servers(Sinks)' + Servers(Served(phase, step))'
    BY <2>1, <2>5, <2>6, <2>7
  <2>10. QED BY <2>3, <2>4, <2>8, <2>9 DEF Counted
<1>2. CASE CreateDemuxPipeline
  <2>1. phase = "demux" /\ servers' = servers + Servers(DemuxSlots)
        /\ UNCHANGED <<config, step, builds, num_bins>>
    BY <1>2 DEF CreateDemuxPipeline
  <2>2. phase' \in {"failed", "instances", "crashed"}
    BY <1>2, Zenon DEF CreateDemuxPipeline, AfterServing
  <2>3. DemuxSlots \in SUBSET Sinks /\ Served(phase, step) = {}
    BY <2>1 DEF DemuxSlots, Served
  <2>4. /\ servers' <= (builds - 1) * Servers(Sinks) + Servers(DemuxSlots)
        /\ servers' <= builds * Servers(Sinks)
    <3>1. Served(phase, step) \cup DemuxSlots = DemuxSlots /\ DemuxSlots \cap Served(phase, step) = {}
      BY <2>3
    <3>2. phase \in Instancing
      BY <2>1 DEF Instancing
    <3>3. QED BY <3>1, <3>2, <2>1, <2>3, ServeMore
  <2>5. DemuxSlots = Served("instances", step)
    BY DEF DemuxSlots, Served
  <2>6. Servers(Sinks)' = Servers(Sinks) /\ Servers(Served(phase, step))' = Servers(Served(phase', step))
    BY <2>1, ServedNext
  <2>7. \A i \in Indices : NotYet(i) /\ (NotYet(i)' \/ ~NotYet(i)')
    BY <2>1 DEF NotYet
  <2>8. CASE phase' = "instances"
    <3>1. \A i \in Indices : NotYet(i)' /\ num_bins'[i] <= (builds' - 1) * MaxSinks
      BY <2>1, <2>7, <2>8 DEF Counted, NotYet
    <3>2. servers' <= builds' * Servers(Sinks)'
      BY <2>1, <2>4, <2>6
    <3>3. servers' <= (builds' - 1) * Servers(Sinks)' + Servers(Served(phase, step))'
      BY <2>1, <2>4, <2>5, <2>6, <2>8
    <3>4. QED BY <3>1, <3>2, <3>3 DEF Counted
  <2>9. CASE phase' # "instances"
    <3>1. phase' \notin Instancing /\ \A i \in Indices : ~NotYet(i)'
      BY <2>2, <2>9 DEF Instancing, NotYet
    <3>2. builds - 1 \in Nat /\ builds - 1 <= builds
      BY <2>1, <1>0 DEF GraphType
    <3>3. (builds - 1) * MaxSinks <= builds * MaxSinks /\ (builds - 1) * MaxSinks \in Nat
          /\ builds * MaxSinks \in Nat
      BY <3>2, <1>0, Rooms
    <3>4. ASSUME NEW i \in Indices PROVE num_bins'[i] <= builds' * MaxSinks
      <4>1. num_bins[i] <= (builds - 1) * MaxSinks /\ num_bins[i] \in Nat
        BY <2>7 DEF Counted, GraphType
      <4>2. QED BY <4>1, <3>3, <2>1
    <3>5. servers' <= builds' * Servers(Sinks)'
      BY <2>1, <2>4, <2>6
    <3>6. QED BY <3>1, <3>4, <3>5 DEF Counted
  <2>10. QED BY <2>8, <2>9
<1>3. ASSUME NEW i \in Sources, CreateProcessingInstance(i), UNCHANGED <<config, builds>>,
             \/ phase = "instances" /\ i = 0 /\ phase' \notin Instancing
             \/ phase = "demuxed" /\ i = step /\ step' = step + 1 /\ phase' \in {"demuxed", "failed", "crashed"}
      PROVE  Counted'
  <2>0. i \in Nat /\ phase \in Instancing /\ builds >= 1 /\ i \in Indices
    <3>1. i \in Indices /\ i \in Nat
      BY <1>0, ConfigFacts, GraphAssumption DEF Indices
    <3>2. phase \in Instancing /\ phase # "new"
      BY <1>3 DEF Instancing
    <3>3. QED BY <3>1, <3>2 DEF GraphType
  <2>1. NotYet(i)
    BY <1>3, <2>0 DEF NotYet
  <2>2. num_bins'[i] <= builds * MaxSinks /\ \A j \in Indices \ {i} : num_bins'[j] = num_bins[j]
    BY <1>3, <2>1, InstanceCounted
  <2>3. SlotsOf(i) \in SUBSET Sinks
    BY DEF SlotsOf
  <2>4. \A k \in Sinks : config.sinks[k].source \in Nat
    BY <1>0, ConfigFacts DEF SinkConfig, Indices
  <2>5. SlotsOf(i) \cap Served(phase, step) = {}
    BY <1>3, <2>4 DEF SlotsOf, Served
  <2>6. /\ servers' <= (builds - 1) * Servers(Sinks) + Servers(Served(phase, step) \cup SlotsOf(i))
        /\ servers' <= builds * Servers(Sinks)
    BY <1>3, <2>0, <2>3, <2>5, ServeMore DEF CreateProcessingInstance
  <2>7. Servers(Sinks)' = Servers(Sinks)
    BY <1>3, ServedNext
  <2>8. servers' <= builds' * Servers(Sinks)'
    BY <1>3, <2>6, <2>7
  <2>9. builds - 1 \in Nat /\ builds - 1 <= builds
    BY <2>0, <1>0
  <2>10. (builds - 1) * MaxSinks <= builds * MaxSinks /\ (builds - 1) * MaxSinks \in Nat
         /\ builds * MaxSinks \in Nat
    BY <2>9, <1>0, Rooms
  <2>11. ASSUME NEW j \in Indices PROVE num_bins'[j] <= builds' * MaxSinks
    <3>1. CASE j = i
      BY <3>1, <2>2, <1>3
    <3>2. CASE j # i
      <4>1. num_bins'[j] = num_bins[j] /\ num_bins[j] \in Nat
        BY <3>2, <2>2 DEF GraphType
      <4>2. num_bins[j] <= builds * MaxSinks
        <5>1. CASE NotYet(j)
          <6>1. num_bins[j] <= (builds - 1) * MaxSinks
            BY <5>1 DEF Counted
          <6>2. QED BY <6>1, <4>1, <2>10
        <5>2. CASE ~NotYet(j)
          BY <5>2 DEF Counted
        <5>3. QED BY <5>1, <5>2
      <4>3. QED BY <4>1, <4>2, <1>3
    <3>3. QED BY <3>1, <3>2
  <2>12. ASSUME NEW j \in Indices, NotYet(j)' PROVE num_bins'[j] <= (builds' - 1) * MaxSinks
    <3>1. phase = "demuxed" /\ phase' = "demuxed" /\ step + 1 <= j
      BY <1>3, <2>12 DEF NotYet, Instancing
    <3>2. j \in Nat /\ j # i /\ NotYet(j)
      BY <3>1, <1>3, <2>0, <1>0, GraphAssumption DEF NotYet, Indices
    <3>3. QED BY <3>2, <2>2, <1>3 DEF Counted
  <2>13. ASSUME phase' \in Instancing
         PROVE  servers' <= (builds' - 1) * Servers(Sinks)' + Servers(Served(phase, step))'
    <3>1. phase = "demuxed" /\ phase' = "demuxed" /\ i = step /\ step' = step + 1
      BY <1>3, <2>13 DEF Instancing
    <3>2. Served(phase, step) \cup SlotsOf(i) \subseteq Served(phase', step')
      BY <3>1, <2>4, <1>0 DEF Served, SlotsOf
    <3>3. Served(phase', step') \in SUBSET Sinks /\ Served(phase, step) \cup SlotsOf(i) \in SUBSET Sinks
      BY DEF Served, SlotsOf
    <3> DEFINE before == Served(phase, step) \cup SlotsOf(i)
               after == Served(phase', step')
    <3>4. Servers(before) <= Servers(after) /\ Servers(before) \in Nat /\ Servers(after) \in Nat
      <4>1. before \in SUBSET Sinks /\ after \in SUBSET Sinks /\ before \subseteq after
        BY <3>2, <3>3
      <4> HIDE DEF before, after
      <4>2. QED BY <4>1, <1>0, ServersAdd
    <3>5. Servers(Sinks) \in Nat
      BY <1>0, ServersAdd
    <3>6. (builds - 1) * Servers(Sinks) \in Nat /\ servers' \in Nat
      <4>1. (builds - 1) * Servers(Sinks) \in Nat
        BY <3>5, <2>9
      <4>2. servers' \in Nat
        BY DEF GraphType
      <4>3. QED BY <4>1, <4>2
    <3>7. servers' <= (builds - 1) * Servers(Sinks) + Servers(after)
      <4> HIDE DEF after
      <4>1. servers' <= (builds - 1) * Servers(Sinks) + Servers(before)
        BY <2>6
      <4> HIDE DEF before
      <4>2. QED BY <4>1, <3>4, <3>6
    <3>8. Servers(Served(phase, step))' = Servers(after)
      BY <1>3, ServedNext
    <3> HIDE DEF after, before
    <3>9. QED BY <3>7, <3>8, <2>7, <1>3
  <2>14. QED BY <2>8, <2>11, <2>12, <2>13 DEF Counted
<1>4. CASE CreateTiledInstance
  <2>1. phase' \in {"common", "failed", "crashed"}
    <3>1. PICK served \in {"common", "crashed"} :
            phase' \in IF served = "crashed" THEN {served} ELSE AfterProbing(sub_bins'[1], "common")
      BY <1>4, Zenon DEF CreateTiledInstance, AfterServing
    <3>2. QED BY <3>1 DEF AfterProbing
  <2>2. 0 \in Sources
    BY <1>0, ConfigFacts
  <2>3. CreateProcessingInstance(0) /\ phase = "instances" /\ UNCHANGED <<config, builds>>
    BY <1>4 DEF CreateTiledInstance
  <2>4. QED BY <2>1, <2>2, <2>3, <1>3 DEF Instancing
<1>5. CASE CreateDemuxedInstance
  <2>1. phase' \in {"failed", "demuxed", "crashed"}
    BY <1>5, Zenon DEF CreateDemuxedInstance, AfterServing
  <2>2. /\ CreateProcessingInstance(step) /\ phase = "demuxed" /\ UNCHANGED <<config, builds>>
        /\ step \in Sources /\ step' = step + 1
    BY <1>5 DEF CreateDemuxedInstance
  <2>3. QED BY <2>1, <2>2, <1>3
<1>6. CASE CreateDemuxer
  <2>1. /\ phase = "instances" /\ phase' = "demuxed" /\ step' = 0
        /\ UNCHANGED <<config, builds, servers, num_bins>>
    BY <1>6 DEF CreateDemuxer
  <2>2. \A i \in Indices : NotYet(i) /\ NotYet(i)'
    BY <2>1, GraphAssumption DEF NotYet, Indices
  <2>3. \A k \in Sinks : config.sinks[k].source \in Nat
    BY <1>0, ConfigFacts DEF SinkConfig, Indices
  <2>4. Served(phase', step') = Served(phase, step)
    BY <2>1, <2>3 DEF Served
  <2>5. Servers(Sinks)' = Servers(Sinks) /\ Servers(Served(phase, step))' = Servers(Served(phase', step'))
    BY <2>1, ServedNext
  <2>6. QED BY <2>1, <2>2, <2>4, <2>5 DEF Counted, Instancing
<1>7. CASE SkipInstance
  <2>1. /\ phase = "demuxed" /\ phase' = "demuxed" /\ step' = step + 1 /\ SlotsOf(step) = {}
        /\ UNCHANGED <<config, builds, servers, num_bins>>
    BY <1>7 DEF SkipInstance, pointer_vars
  <2>2. \A k \in Sinks : config.sinks[k].source \in Nat
    BY <1>0, ConfigFacts DEF SinkConfig, Indices
  <2>3. \A n \in Nat : n < step + 1 => n < step \/ n = step
    BY <1>0
  <2>4. Served(phase', step') = Served(phase, step)
    BY <2>1, <2>2, <2>3, <1>0 DEF Served, SlotsOf
  <2>5. Servers(Sinks)' = Servers(Sinks) /\ Servers(Served(phase, step))' = Servers(Served(phase', step'))
    BY <2>1, ServedNext
  <2>6. ASSUME NEW i \in Indices PROVE num_bins'[i] <= (IF NotYet(i)' THEN builds' - 1 ELSE builds') * MaxSinks
    <3>1. i \in Nat
      BY GraphAssumption DEF Indices
    <3>2. builds - 1 \in Nat /\ builds - 1 <= builds
      BY <2>1, <1>0 DEF GraphType
    <3>3. (builds - 1) * MaxSinks <= builds * MaxSinks /\ (builds - 1) * MaxSinks \in Nat
          /\ builds * MaxSinks \in Nat
      BY <3>2, <1>0, Rooms
    <3>4. num_bins[i] \in Nat
      BY DEF GraphType
    <3>5. CASE NotYet(i)'
      <4>1. NotYet(i)
        BY <3>1, <3>5, <2>1, <1>0 DEF NotYet
      <4>2. QED BY <4>1, <3>5, <2>1 DEF Counted
    <3>6. CASE ~NotYet(i)'
      <4>1. num_bins[i] <= builds * MaxSinks
        <5>1. CASE NotYet(i)
          <6>1. num_bins[i] <= (builds - 1) * MaxSinks
            BY <5>1 DEF Counted
          <6>2. QED BY <6>1, <3>3, <3>4
        <5>2. CASE ~NotYet(i)
          BY <5>2 DEF Counted
        <5>3. QED BY <5>1, <5>2
      <4>2. QED BY <4>1, <3>6, <2>1
    <3>7. QED BY <3>5, <3>6
  <2>7. QED BY <2>1, <2>4, <2>5, <2>6 DEF Counted, Instancing
<1>8. CASE InstancesCreated \/ AddStage \/ SkipStage \/ AddCommonTee \/ AddAndLinkBrokerSinks \/ LinkAll
  <2>1. UNCHANGED <<config, servers, num_bins, builds>>
    BY <1>8 DEF InstancesCreated, AddStage, SkipStage, AddCommonTee, AddAndLinkBrokerSinks, LinkAll, pointer_vars
  <2>2. phase' \in {"common", "broker", "last", "failed", "built"}
    BY <1>8, Zenon DEF InstancesCreated, AddStage, SkipStage, AddCommonTee, AddAndLinkBrokerSinks, LinkAll
  <2>3. phase' \notin Instancing
    BY <2>2 DEF Instancing
  <2>4. QED BY <2>1, <2>3, CountedRests
<1>9. CASE BuildFails
  <2>1. UNCHANGED <<config, servers, num_bins>> /\ phase' = "failed" /\ builds' \in {builds, builds + 1}
    BY <1>9, Zenon DEF BuildFails
  <2>2. phase' \notin Instancing
    BY <2>1 DEF Instancing
  <2>3. QED BY <2>1, <2>2, CountedRests
<1>10. CASE \E i \in Sources :
              \/ UriPadAdded(i) \/ RtspPadAdded(i) \/ DecodedPadAdded(i) \/ SourceReset(i)
              \/ \E codec \in Codecs \cup {Other} : SelectStream(i, codec)
  <2>1. UNCHANGED <<config, servers, num_bins, builds>>
    BY <1>10 DEF UriPadAdded, RtspPadAdded, DecodedPadAdded, SourceReset, SelectStream, pointer_vars, build_vars
  <2>2. phase' \in {"built", "crashed", "lost"}
    BY <1>10, Zenon DEF UriPadAdded, RtspPadAdded, DecodedPadAdded, SourceReset, SelectStream, build_vars
  <2>3. phase' \notin Instancing
    BY <2>2 DEF Instancing
  <2>4. QED BY <2>1, <2>3, CountedRests
<1>11. CASE DestroyPipeline
  <2>1. UNCHANGED <<config, servers, num_bins, builds>>
    BY <1>11 DEF DestroyPipeline
  <2>2. phase' \in {"lost", "destroyed", "over"}
    BY <1>11, Zenon DEF DestroyPipeline
  <2>3. phase' \notin Instancing
    BY <2>2 DEF Instancing
  <2>4. QED BY <2>1, <2>3, CountedRests
<1>12. CASE UNCHANGED vars
  <2>1. UNCHANGED <<config, phase, step, builds, servers, num_bins>>
    BY <1>12 DEF vars, build_vars, pointer_vars
  <2>2. \A i : NotYet(i)' = NotYet(i)
    BY <2>1 DEF NotYet
  <2>3. Servers(Sinks)' = Servers(Sinks) /\ Servers(Served(phase, step))' = Servers(Served(phase, step))
    BY <2>1, ServedNext
  <2>4. QED BY <2>1, <2>2, <2>3 DEF Counted
<1>13. QED
  BY <1>1, <1>2, <1>4, <1>5, <1>6, <1>7, <1>8, <1>9, <1>10, <1>11, <1>12, Zenon DEF Next

\* Every variable keeps its type; that the entries of num_bins and the number of servers
\* stay within MaxBuilds * MaxSinks rests on an instance being made once in each pipeline.
THEOREM TypeCorrect == Spec => []TypeOK
<1>1. GraphType /\ Counted => TypeOK
  <2> SUFFICES ASSUME GraphType, Counted PROVE TypeOK
    OBVIOUS
  <2>1. /\ builds \in Nat /\ builds <= MaxBuilds /\ MaxBuilds \in Nat /\ MaxSinks \in Nat
        /\ config \in Configs
    BY GraphAssumption DEF GraphType
  <2>2. builds * MaxSinks <= MaxBuilds * MaxSinks /\ builds * MaxSinks \in Nat /\ MaxBuilds * MaxSinks \in Nat
    BY <2>1, Rooms
  <2>3. ASSUME NEW i \in Indices PROVE num_bins[i] \in 0..(MaxBuilds * MaxSinks)
    <3>1. num_bins[i] \in Nat
      BY DEF GraphType
    <3>2. CASE ~NotYet(i)
      <4>1. num_bins[i] <= builds * MaxSinks
        BY <3>2 DEF Counted
      <4>2. QED BY <4>1, <3>1, <2>2
    <3>3. CASE NotYet(i)
      <4>1. builds - 1 \in Nat /\ builds - 1 <= MaxBuilds
        BY <3>3, <2>1 DEF NotYet, GraphType
      <4>2. (builds - 1) * MaxSinks <= MaxBuilds * MaxSinks /\ (builds - 1) * MaxSinks \in Nat
        BY <4>1, <2>1, Rooms
      <4>3. num_bins[i] <= (builds - 1) * MaxSinks
        BY <3>3 DEF Counted
      <4>4. QED BY <4>2, <4>3, <3>1, <2>2
    <3>4. QED BY <3>2, <3>3
  <2>4. num_bins \in [Indices -> 0..(MaxBuilds * MaxSinks)]
    BY <2>3 DEF GraphType
  <2>5. servers \in 0..(MaxBuilds * MaxSinks)
    <3>1. Sinks \in SUBSET Sinks
      OBVIOUS
    <3>2. Servers(Sinks) \in Nat /\ Servers(Sinks) <= MaxSinks
      BY <3>1, <2>1, ServersAdd
    <3>3. builds * Servers(Sinks) <= builds * MaxSinks /\ builds * Servers(Sinks) \in Nat
      <4>1. Servers(Sinks) * builds <= MaxSinks * builds /\ Servers(Sinks) * builds \in Nat
        BY <3>2, <2>1, Rooms
      <4>2. QED BY <4>1, <3>2, <2>1
    <3>4. servers \in Nat /\ servers <= builds * Servers(Sinks)
      BY DEF GraphType, Counted
    <3>5. QED BY <3>3, <3>4, <2>2
  <2>6. step \in 0..(Cardinality(Stages) + MaxSources)
    BY SixStages DEF GraphType
  <2>7. QED BY <2>4, <2>5, <2>6 DEF GraphType, TypeOK, Made
<1>2. QED BY <1>1, GraphTypeInit, GraphTypeNext, CountedInit, CountedNext, PTL DEF Spec

-------------------------------------------------------------------------------
(* A sound configuration is built *)

IsCamera(i) == config.sources[i] = "rtsp"

\* A camera's depayloader is one of the present pipeline or there is none, because the
\* teardown clears it before the next pipeline is built.
PadsInv ==
  \A i \in Sources : IsCamera(i) =>
    /\ phase \in Building \cup {"new", "destroyed"} => stream[i] = NoStream /\ depay[i] = NoDepay
    /\ phase = "built" => /\ stream[i] # NoStream => depay[i] # NoDepay
                          /\ depay[i] # NoDepay => depay[i].build = builds

\* At first no camera has a pad or a depayloader.
LEMMA PadsInit == Init => PadsInv
BY ConfigFacts DEF Init, PadsInv

\* Every step keeps the pads and depayloaders of cameras those of the present build.
LEMMA PadsNext == GraphType /\ PadsInv /\ [Next]_vars => PadsInv'
<1> SUFFICES ASSUME GraphType, PadsInv, [Next]_vars
             PROVE  PadsInv'
  OBVIOUS
<1>0. config \in Configs /\ \A i \in Sources : i \in Indices
  BY ConfigFacts DEF GraphType
<1>1. CASE CreateMultiSourceBin
  <2>1. /\ phase \in {"new", "destroyed"} /\ phase' \in {"demux", "instances"}
        /\ UNCHANGED <<config, stream, depay>>
    BY <1>1 DEF CreateMultiSourceBin, pad_vars
  <2>2. QED BY <2>1 DEF PadsInv, IsCamera, Sources
<1>2. CASE \/ CreateDemuxPipeline \/ CreateTiledInstance \/ CreateDemuxer \/ SkipInstance
           \/ CreateDemuxedInstance \/ InstancesCreated \/ AddStage \/ SkipStage \/ AddCommonTee
           \/ AddAndLinkBrokerSinks \/ LinkAll
  <2>1. phase \in Building /\ UNCHANGED <<config, stream, depay>>
    BY <1>2 DEF CreateDemuxPipeline, CreateTiledInstance, CreateDemuxer, SkipInstance, CreateDemuxedInstance,
         InstancesCreated, AddStage, SkipStage, AddCommonTee, AddAndLinkBrokerSinks, LinkAll, pad_vars, Building
  <2>2. QED BY <2>1 DEF PadsInv, IsCamera, Sources
<1>3. CASE BuildFails
  <2>1. phase' = "failed" /\ UNCHANGED <<config, stream, depay>>
    BY <1>3 DEF BuildFails, pad_vars
  <2>2. QED BY <2>1 DEF PadsInv, Building
<1>4. ASSUME NEW i \in Sources, UriPadAdded(i) \/ DecodedPadAdded(i) PROVE PadsInv'
  BY <1>4 DEF UriPadAdded, DecodedPadAdded, PadsInv, IsCamera, Sources, build_vars, pad_vars
<1>5. ASSUME NEW i \in Sources, RtspPadAdded(i) PROVE PadsInv'
  <2>1. phase = "built" /\ phase' \in {"built", "crashed"} /\ UNCHANGED <<config, stream, depay, builds>>
    BY <1>5, Zenon DEF RtspPadAdded, pad_vars
  <2>2. QED BY <2>1 DEF PadsInv, IsCamera, Sources, Building
<1>6. ASSUME NEW i \in Sources, SourceReset(i) PROVE PadsInv'
  <2>1. phase = "built" /\ phase' \in {"built", "lost"} /\ UNCHANGED <<config, depay, builds>>
        /\ stream' = [stream EXCEPT ![i] = NoStream]
    BY <1>6, Zenon DEF SourceReset
  <2>2. \A j \in Sources : stream'[j] \in {NoStream, stream[j]}
    BY <2>1, <1>0 DEF GraphType
  <2>3. QED BY <2>1, <2>2 DEF PadsInv, IsCamera, Sources, Building
<1>7. ASSUME NEW i \in Sources, NEW codec \in Codecs \cup {Other}, SelectStream(i, codec) PROVE PadsInv'
  <2>1. phase = "built" /\ UNCHANGED <<config, phase, builds>>
    BY <1>7 DEF SelectStream, build_vars
  <2>2. \/ depay' = [depay EXCEPT ![i] = [codec |-> codec, build |-> builds]]
        \/ depay' = depay /\ depay[i] # NoDepay
    BY <1>7 DEF SelectStream
  <2>3. \A j \in Sources \ {i} : stream'[j] = stream[j] /\ depay'[j] = depay[j]
    BY <1>7, <2>2, <1>0 DEF SelectStream, GraphType
  <2>4. builds # 0 /\ builds \in Nat
    BY <2>1, GraphAssumption DEF GraphType
  <2>5. IsCamera(i) => depay'[i] # NoDepay /\ depay'[i].build = builds
    <3>1. CASE depay' = [depay EXCEPT ![i] = [codec |-> codec, build |-> builds]]
      <4>1. depay'[i] = [codec |-> codec, build |-> builds]
        BY <3>1, <1>0 DEF GraphType
      <4>2. depay'[i].build = builds /\ NoDepay.build = 0
        BY <4>1 DEF NoDepay
      <4>3. QED BY <4>2, <2>4
    <3>2. CASE depay' = depay /\ depay[i] # NoDepay
      BY <3>2, <2>1 DEF PadsInv
    <3>3. QED BY <3>1, <3>2, <2>2
  <2>6. Sources' = Sources /\ \A j \in Sources : IsCamera(j)' = IsCamera(j)
    BY <2>1, Zenon DEF Sources, IsCamera
  <2>7. ASSUME NEW j \in Sources', IsCamera(j)'
        PROVE  /\ stream'[j] # NoStream => depay'[j] # NoDepay
               /\ depay'[j] # NoDepay => depay'[j].build = builds
    BY <2>1, <2>3, <2>5, <2>6, <2>7 DEF PadsInv
  <2>8. phase' = "built" /\ builds' = builds /\ phase' \notin Building \cup {"new", "destroyed"}
    BY <2>1 DEF Building
  <2>9. QED BY <2>7, <2>8 DEF PadsInv
<1>8. CASE DestroyPipeline
  <2>1. UNCHANGED config /\ phase' # "built"
    BY <1>8 DEF DestroyPipeline
  <2>2. \A i \in Indices : stream'[i] = NoStream
    BY <1>8 DEF DestroyPipeline
  <2>3. \A i \in Indices : i \in Sources /\ IsCamera(i) => depay'[i] = NoDepay
    BY <1>8 DEF DestroyPipeline, ClearedDepay, IsCamera
  <2>4. Sources' = Sources /\ \A j \in Sources : IsCamera(j)' = IsCamera(j)
    BY <2>1, Zenon DEF Sources, IsCamera
  <2>5. QED BY <2>1, <2>2, <2>3, <2>4, <1>0 DEF PadsInv
<1>9. CASE UNCHANGED vars
  BY <1>9 DEF vars, build_vars, pad_vars, PadsInv, IsCamera, Sources
<1>10. QED
  BY <1>1, <1>2, <1>3, <1>4, <1>5, <1>6, <1>7, <1>8, <1>9 DEF Next

\* Every broker has its elements once the first instance is made.
BrokersMade == \A k \in Brokers : sub_bins[k] # 0
SomeStage == \E s \in Stages : Enabled(s)

\* How far the building of a sound configuration has come without a fault.
Progress ==
  Sound /\ ~fault =>
    /\ phase \notin {"demux", "failed", "crashed", "over"}
    /\ (phase = "demuxed" /\ step # 0) \/ phase \in {"common", "broker", "last"} => BrokersMade
    /\ phase = "common" =>
         \A n \in 1..6 : n < step /\ Enabled(CreationOrder[n]) => downstream # NoStage
    /\ phase = "broker" /\ SomeStage => downstream # NoStage

\* What is sound is a matter of the configuration alone.
LEMMA SoundStays == UNCHANGED config => UNCHANGED <<Sound, Brokers, SomeStage>> /\ \A s : UNCHANGED Enabled(s)
<1> SUFFICES ASSUME config' = config
             PROVE  Sound' = Sound /\ Brokers' = Brokers /\ SomeStage' = SomeStage
                    /\ \A s : Enabled(s)' = Enabled(s)
  OBVIOUS
<1>1. Sinks' = Sinks /\ \A s : Enabled(s)' = Enabled(s)
  BY Zenon DEF Sinks, Enabled
<1>2. Brokers' = Brokers
  BY <1>1, Zenon DEF Brokers, IsBroker
<1>3. SlotsOf(0)' = SlotsOf(0)
  BY <1>1, Zenon DEF SlotsOf
<1>4. Servers(Sinks)' = Servers(Sinks)
  BY ServedNext
<1>5. SomeStage' = SomeStage
  BY <1>1, Zenon DEF SomeStage
<1>6. Sound' = Sound
  BY <1>1, <1>2, <1>3, <1>4, <1>5, Zenon DEF Sound, SomeStage
<1>7. QED BY <1>1, <1>2, <1>5, <1>6

\* There are servers enough for the sinks of a sound configuration.
LEMMA ServersEnough ==
  ASSUME GraphType, Counted, Sound, phase \in Instancing,
         NEW A \in SUBSET Sinks, A \cap Served(phase, step) = {}
  PROVE  ~(servers + Servers(A) > MaxSinks)
<1>1. servers + Servers(A) <= builds * Servers(Sinks) /\ Servers(A) \in Nat
  BY ServeMore
<1>2. Servers(Sinks) \in Nat /\ builds \in Nat /\ MaxBuilds \in Nat /\ builds <= MaxBuilds /\ servers \in Nat
  BY ServersAdd, GraphAssumption DEF GraphType
<1>3. builds * Servers(Sinks) <= MaxBuilds * Servers(Sinks) /\ builds * Servers(Sinks) \in Nat
      /\ MaxBuilds * Servers(Sinks) \in Nat
  BY <1>2, Rooms
<1>4. MaxBuilds * Servers(Sinks) <= MaxSinks
  <2>1. Servers(Sinks) * MaxBuilds <= MaxSinks
    BY DEF Sound
  <2>2. QED BY <2>1, <1>2
<1>5. QED BY <1>1, <1>2, <1>3, <1>4, GraphAssumption

\* The configuration is read once.
LEMMA ConfigStays == [Next]_vars => UNCHANGED config
<1> SUFFICES ASSUME [Next]_vars PROVE config' = config
  OBVIOUS
<1>1. CASE \/ CreateMultiSourceBin \/ CreateDemuxPipeline \/ CreateTiledInstance \/ CreateDemuxer \/ SkipInstance
           \/ CreateDemuxedInstance \/ InstancesCreated
  BY <1>1 DEF CreateMultiSourceBin, CreateDemuxPipeline, CreateTiledInstance, CreateDemuxer, SkipInstance,
     CreateDemuxedInstance, InstancesCreated
<1>2. CASE AddStage \/ SkipStage \/ AddCommonTee \/ AddAndLinkBrokerSinks \/ LinkAll \/ BuildFails \/ DestroyPipeline
  BY <1>2 DEF AddStage, SkipStage, AddCommonTee, AddAndLinkBrokerSinks, LinkAll, BuildFails, DestroyPipeline
<1>3. CASE \E i \in Sources :
             \/ UriPadAdded(i) \/ RtspPadAdded(i) \/ DecodedPadAdded(i) \/ SourceReset(i)
             \/ \E codec \in Codecs \cup {Other} : SelectStream(i, codec)
  BY <1>3 DEF UriPadAdded, RtspPadAdded, DecodedPadAdded, SourceReset, SelectStream, build_vars
<1>4. CASE UNCHANGED vars
  BY <1>4 DEF vars, build_vars
<1>5. QED BY <1>1, <1>2, <1>3, <1>4 DEF Next

\* The first instance of a sound configuration makes its brokers.
LEMMA FirstInstanceMakesBrokers ==
  ASSUME GraphType, builds >= 1, Sound, CreateProcessingInstance(0), UNCHANGED config
  PROVE  BrokersMade'
<1>1. \A k \in Brokers : k \in SlotsOf(0) /\ k \in Slots
  BY ConfigFacts DEF GraphType, Sound, Brokers, SlotsOf
<1>2. \A k \in Brokers : sub_bins'[k] = builds
  BY <1>1 DEF CreateProcessingInstance
<1>3. Brokers' = Brokers
  BY SoundStays
<1>4. QED BY <1>2, <1>3, GraphAssumption DEF BrokersMade, GraphType

\* A later instance leaves them alone.
LEMMA BrokersStay ==
  ASSUME BrokersMade, UNCHANGED <<config, sub_bins>> PROVE BrokersMade'
<1>1. Brokers' = Brokers
  BY SoundStays
<1>2. QED BY <1>1 DEF BrokersMade

\* Every step of a sound build without a faulty element leads on to the next stage.
LEMMA ProgressNext == GraphType /\ Counted /\ PadsInv /\ Progress /\ [Next]_vars => Progress'
<1> SUFFICES ASSUME GraphType, Counted, PadsInv, Progress, [Next]_vars
             PROVE  Progress'
  OBVIOUS
<1> SUFFICES ASSUME Sound, ~fault'
             PROVE  Progress'
  <2>1. Sound' = Sound
    BY ConfigStays, SoundStays
  <2>2. QED BY <2>1 DEF Progress
<1>0. /\ config \in Configs /\ step \in Nat /\ builds \in Nat /\ MaxSinks \in Nat
      /\ 0 \in Sources /\ \A i \in Sources : i \in Nat
      /\ config.mode # "parallel" /\ ~DemuxerIsLoose
  BY ConfigFacts, GraphAssumption DEF GraphType, Sound, Indices, DemuxerIsLoose
<1>1. CASE CreateMultiSourceBin
  <2>1. phase' = "instances"
    BY <1>1, <1>0, Zenon DEF CreateMultiSourceBin
  <2>2. QED BY <2>1 DEF Progress
<1>2. CASE CreateDemuxPipeline
  <2>1. phase = "demux" /\ ~fault
    BY <1>2 DEF CreateDemuxPipeline
  <2>2. QED BY <2>1 DEF Progress
<1>3. CASE CreateTiledInstance
  <2>1. /\ phase = "instances" /\ config.mode = "enabled" /\ CreateProcessingInstance(0)
        /\ step' = 1 /\ UNCHANGED <<config, builds, fault>> /\ builds >= 1
    BY <1>3 DEF CreateTiledInstance, GraphType
  <2>2. SlotsOf(0) \in SUBSET Sinks /\ SlotsOf(0) \cap Served(phase, step) = {} /\ phase \in Instancing
    BY <2>1 DEF SlotsOf, Served, Instancing
  <2>3. ~(servers + Servers(SlotsOf(0)) > MaxSinks)
    BY <2>2, ServersEnough
  <2>4. AfterServing(Servers(SlotsOf(0)), "common") = {"common"}
    BY <2>3, Zenon DEF AfterServing
  <2>5. 1 \in Slots /\ 1 \in SlotsOf(0)
    BY <2>1, GraphAssumption DEF Slots, Sound
  <2>6. sub_bins'[1] = builds
    BY <2>1, <2>5 DEF CreateProcessingInstance
  <2>7. AfterProbing(sub_bins'[1], "common") = {"common"}
    BY <2>6, Zenon DEF AfterProbing
  <2>8. phase' = "common"
    <3>1. PICK served \in {"common"} :
            phase' \in IF served = "crashed" THEN {served} ELSE AfterProbing(sub_bins'[1], "common")
      BY <1>3, <2>4, Zenon DEF CreateTiledInstance
    <3>2. QED BY <3>1, <2>7
  <2>9. BrokersMade'
    BY <2>1, FirstInstanceMakesBrokers
  <2>10. \A n \in 1..6 : ~(n < step')
    BY <2>1
  <2>11. QED BY <2>8, <2>9, <2>10 DEF Progress
<1>4. CASE CreateDemuxer
  <2>1. phase' = "demuxed" /\ step' = 0
    BY <1>4 DEF CreateDemuxer
  <2>2. QED BY <2>1 DEF Progress
<1>5. CASE SkipInstance
  <2>1. /\ phase = "demuxed" /\ phase' = "demuxed" /\ SlotsOf(step) = {}
        /\ UNCHANGED <<config, fault, sub_bins>>
    BY <1>5 DEF SkipInstance, pointer_vars
  <2>2. BrokersMade
    <3>1. CASE step = 0
      <4>1. Brokers = {}
        BY <2>1, <3>1 DEF Brokers, SlotsOf, Sound
      <4>2. QED BY <4>1 DEF BrokersMade
    <3>2. CASE step # 0
      BY <2>1, <3>2 DEF Progress
    <3>3. QED BY <3>1, <3>2
  <2>3. BrokersMade'
    BY <2>1, <2>2, BrokersStay
  <2>4. QED BY <2>1, <2>3 DEF Progress
<1>6. CASE CreateDemuxedInstance
  <2>1. /\ phase = "demuxed" /\ step \in Sources /\ CreateProcessingInstance(step)
        /\ UNCHANGED <<config, builds, fault>> /\ builds >= 1
    BY <1>6 DEF CreateDemuxedInstance, GraphType
  <2>2. \A k \in Sinks : config.sinks[k].source \in Nat
    BY <1>0, ConfigFacts, GraphAssumption DEF SinkConfig, Indices
  <2>3. SlotsOf(step) \in SUBSET Sinks /\ SlotsOf(step) \cap Served(phase, step) = {} /\ phase \in Instancing
    BY <2>1, <2>2, <1>0 DEF SlotsOf, Served, Instancing
  <2>4. ~(servers + Servers(SlotsOf(step)) > MaxSinks)
    BY <2>3, ServersEnough
  <2>5. phase' = "demuxed"
    BY <1>6, <1>0, <2>4, Zenon DEF CreateDemuxedInstance, AfterServing
  <2>6. BrokersMade'
    <3>1. CASE step = 0
      BY <2>1, <3>1, FirstInstanceMakesBrokers
    <3>2. CASE step # 0
      <4>1. BrokersMade
        BY <2>1, <3>2 DEF Progress
      <4>2. \A k \in Slots : sub_bins'[k] = sub_bins[k]
        BY <2>1, <3>2, Zenon DEF CreateProcessingInstance
      <4>3. Brokers' = Brokers /\ Brokers \subseteq Slots
        BY <2>1, <1>0, SoundStays, ConfigFacts DEF Brokers
      <4>4. QED BY <4>1, <4>2, <4>3 DEF BrokersMade
    <3>3. QED BY <3>1, <3>2
  <2>7. QED BY <2>5, <2>6 DEF Progress
<1>7. CASE InstancesCreated
  <2>1. /\ phase = "demuxed" /\ phase' = "common" /\ step # 0 /\ step' = 1
        /\ UNCHANGED <<config, fault, sub_bins>>
    BY <1>7, <1>0 DEF InstancesCreated, pointer_vars
  <2>2. BrokersMade'
    BY <2>1, BrokersStay DEF Progress
  <2>3. \A n \in 1..6 : ~(n < step')
    BY <2>1
  <2>4. QED BY <2>1, <2>2, <2>3 DEF Progress
<1>8. CASE AddStage \/ SkipStage
  <2>1. /\ phase = "common" /\ phase' = "common" /\ step' = step + 1
        /\ UNCHANGED <<config, fault, sub_bins>>
    BY <1>8 DEF AddStage, SkipStage, pointer_vars
  <2>2. BrokersMade'
    BY <2>1, BrokersStay DEF Progress
  <2>3. ASSUME NEW n \in 1..6, n < step', Enabled(CreationOrder[n]) PROVE downstream' # NoStage
    <3>1. CASE SkipStage
      <4>1. downstream' = downstream /\ ~Enabled(CreationOrder[step])
        BY <3>1 DEF SkipStage
      <4>2. n < step
        BY <4>1, <2>1, <2>3, <1>0
      <4>3. QED BY <4>1, <4>2, <2>1, <2>3 DEF Progress
    <3>2. CASE AddStage
      <4>1. CreationOrder[step] \in Stages
        BY <3>2, <1>0, ConfigFacts DEF AddStage, Enabled
      <4>2. "none" \notin Stages
        BY DEF Stages
      <4>3. downstream' = NewDownstream(CreationOrder[step])
        BY <3>2, Zenon DEF AddStage
      <4> HIDE DEF CreationOrder
      <4>4. downstream' # NoStage
        BY <4>1, <4>2, <4>3, Zenon DEF NewDownstream, NoStage
      <4>5. QED BY <4>4
    <3>3. QED BY <3>1, <3>2, <1>8
  <2>4. \A s : Enabled(s)' = Enabled(s)
    BY <2>1, SoundStays
  <2>5. QED BY <2>1, <2>2, <2>3, <2>4 DEF Progress, CreationOrder
<1>9. CASE AddCommonTee
  <2>1. /\ phase = "common" /\ phase' = "broker" /\ step > 6
        /\ UNCHANGED <<config, fault, sub_bins>>
    BY <1>9 DEF AddCommonTee, pointer_vars, CreationOrder
  <2>2. BrokersMade'
    BY <2>1, BrokersStay DEF Progress
  <2>3. ASSUME SomeStage PROVE downstream' # NoStage
    <3>1. PICK s \in Stages : Enabled(s)
      BY <2>3 DEF SomeStage
    <3>2. \E n \in 1..6 : CreationOrder[n] = s
      <4>1. /\ CreationOrder[1] = "secondary_gie" /\ CreationOrder[2] = "secondary_preprocess"
            /\ CreationOrder[3] = "analytics" /\ CreationOrder[4] = "tracker"
            /\ CreationOrder[5] = "primary_gie" /\ CreationOrder[6] = "preprocess"
        BY DEF CreationOrder
      <4>2. {1, 2, 3, 4, 5, 6} \subseteq 1..6
        OBVIOUS
      <4> HIDE DEF CreationOrder
      <4>3. QED BY <4>1, <4>2 DEF Stages
    <3>3. PICK n \in 1..6 : CreationOrder[n] = s
      BY <3>2
    <3>4. n < step
      BY <2>1, <1>0
    <3>5. downstream # NoStage
      BY <3>1, <3>3, <3>4, <2>1 DEF Progress
    <3>6. downstream' = "common_tee"
      BY <1>9, <3>5, Zenon DEF AddCommonTee
    <3>7. QED BY <3>6 DEF NoStage
  <2>4. SomeStage' = SomeStage
    BY <2>1, SoundStays
  <2>5. QED BY <2>1, <2>2, <2>3, <2>4 DEF Progress
<1>10. CASE AddAndLinkBrokerSinks
  <2>1. phase = "broker" /\ UNCHANGED <<config, fault, sub_bins>>
    BY <1>10 DEF AddAndLinkBrokerSinks, pointer_vars
  <2>2. BrokersMade /\ (SomeStage => downstream # NoStage)
    BY <2>1 DEF Progress
  <2>3. Brokers = {} \/ SomeStage
    BY Zenon DEF Sound, SomeStage
  <2>4. phase' = "last"
    BY <1>10, <2>2, <2>3, Zenon DEF AddAndLinkBrokerSinks, BrokersMade
  <2>5. BrokersMade'
    BY <2>1, <2>2, BrokersStay
  <2>6. QED BY <2>4, <2>5 DEF Progress
<1>11. CASE LinkAll
  <2>1. phase' = "built"
    BY <1>11, <1>0, Zenon DEF LinkAll
  <2>2. QED BY <2>1 DEF Progress
<1>12. CASE BuildFails
  BY <1>12 DEF BuildFails
<1>13. ASSUME NEW i \in Sources,
              \/ UriPadAdded(i) \/ DecodedPadAdded(i) \/ \E codec \in Codecs \cup {Other} : SelectStream(i, codec)
       PROVE  Progress'
  <2>1. phase' = "built"
    BY <1>13 DEF UriPadAdded, DecodedPadAdded, SelectStream, build_vars
  <2>2. QED BY <2>1 DEF Progress
<1>14. ASSUME NEW i \in Sources, RtspPadAdded(i) PROVE Progress'
  <2>1. phase = "built" /\ IsCamera(i) /\ stream[i] # NoStream
    BY <1>14 DEF RtspPadAdded, IsCamera
  <2>2. depay[i].build = builds
    BY <2>1 DEF PadsInv
  <2>3. phase' = "built"
    BY <1>14, <2>1, <2>2, Zenon DEF RtspPadAdded
  <2>4. QED BY <2>3 DEF Progress
<1>15. ASSUME NEW i \in Sources, SourceReset(i) PROVE Progress'
  <2>1. phase' \in {"built", "lost"}
    BY <1>15, Zenon DEF SourceReset
  <2>2. QED BY <2>1 DEF Progress
<1>16. CASE DestroyPipeline
  <2>1. phase \in {"built", "failed"} /\ fault' = fault
    BY <1>16 DEF DestroyPipeline
  <2>2. phase = "built"
    BY <2>1 DEF Progress
  <2>3. phase' \in {"destroyed", "lost"}
    BY <1>16, <2>2, Zenon DEF DestroyPipeline
  <2>4. QED BY <2>3 DEF Progress
<1>17. CASE UNCHANGED vars
  <2>1. UNCHANGED <<config, phase, step, fault, downstream, sub_bins>>
    BY <1>17 DEF vars, build_vars, pointer_vars
  <2>2. BrokersMade' = BrokersMade /\ SomeStage' = SomeStage /\ \A s : Enabled(s)' = Enabled(s)
    BY <2>1, SoundStays DEF BrokersMade
  <2>3. QED BY <2>1, <2>2 DEF Progress, CreationOrder
<1>18. QED
  BY <1>1, <1>2, <1>3, <1>4, <1>5, <1>6, <1>7, <1>8, <1>9, <1>10, <1>11, <1>12, <1>13, <1>14, <1>15, <1>16, <1>17,
     Zenon DEF Next

\* A sound configuration is built unless an element cannot be created, in the first
\* pipeline and in every recreated one; no pad of a source meets what a former pipeline
\* left (create_pipeline, cb_rtspsrc_select_stream, cb_newpad3).
THEOREM AlwaysBuildsUnlessFaulty == Spec => []BuildsUnlessFaulty
<1>1. Init => Progress
  BY DEF Init, Progress
<1>2. Progress => BuildsUnlessFaulty
  BY DEF Progress, BuildsUnlessFaulty
<1>3. QED
  BY <1>1, <1>2, GraphTypeInit, GraphTypeNext, CountedInit, CountedNext, PadsInit, PadsNext, ProgressNext,
     PTL DEF Spec

-------------------------------------------------------------------------------
(* The links there can be *)

\* Chains of one to seven elements, link by link.
LEMMA ChainOfOne ==
  ASSUME NEW b, NEW i, NEW p
  PROVE  Chain(b, i, <<p>>) = {}
<1>1. 1..0 = {}
  OBVIOUS
<1>2. QED BY <1>1 DEF Chain

\* The links of a chain of two elements.
LEMMA ChainOfTwo ==
  ASSUME NEW b, NEW i, NEW p, NEW q
  PROVE  Chain(b, i, <<p, q>>) = {<<<<b, i, p>>, <<b, i, q>>>>}
<1>1. 1..1 = {1}
  OBVIOUS
<1>2. QED BY <1>1 DEF Chain

\* The links of a chain of three.
LEMMA ChainOfThree ==
  ASSUME NEW b, NEW i, NEW p, NEW q, NEW r
  PROVE  Chain(b, i, <<p, q, r>>) = {<<<<b, i, p>>, <<b, i, q>>>>, <<<<b, i, q>>, <<b, i, r>>>>}
<1>1. 1..2 = {1, 2}
  OBVIOUS
<1>2. QED BY <1>1 DEF Chain

\* The links of a chain of four.
LEMMA ChainOfFour ==
  ASSUME NEW b, NEW i, NEW p, NEW q, NEW r, NEW s
  PROVE  Chain(b, i, <<p, q, r, s>>) =
           {<<<<b, i, p>>, <<b, i, q>>>>, <<<<b, i, q>>, <<b, i, r>>>>, <<<<b, i, r>>, <<b, i, s>>>>}
<1>1. 1..3 = {1, 2, 3}
  OBVIOUS
<1>2. QED BY <1>1 DEF Chain

\* The links of a chain of five.
LEMMA ChainOfFive ==
  ASSUME NEW b, NEW i, NEW p, NEW q, NEW r, NEW s, NEW t
  PROVE  Chain(b, i, <<p, q, r, s, t>>) =
           {<<<<b, i, p>>, <<b, i, q>>>>, <<<<b, i, q>>, <<b, i, r>>>>, <<<<b, i, r>>, <<b, i, s>>>>, <<<<b, i, s>>, <<b, i, t>>>>}
<1>1. 1..4 = {1, 2, 3, 4}
  OBVIOUS
<1>2. QED BY <1>1 DEF Chain

\* The links of a chain of seven.
LEMMA ChainOfSeven ==
  ASSUME NEW b, NEW i, NEW p, NEW q, NEW r, NEW s, NEW t, NEW u, NEW v
  PROVE  Chain(b, i, <<p, q, r, s, t, u, v>>) =
           {<<<<b, i, p>>, <<b, i, q>>>>, <<<<b, i, q>>, <<b, i, r>>>>, <<<<b, i, r>>, <<b, i, s>>>>,
             <<<<b, i, s>>, <<b, i, t>>>>, <<<<b, i, t>>, <<b, i, u>>>>, <<<<b, i, u>>, <<b, i, v>>>>}
<1>1. 1..6 = {1, 2, 3, 4, 5, 6}
  OBVIOUS
<1>2. QED BY <1>1 DEF Chain

\* A sink bin by its parts.
SubBins(slots) == UNION {SubBin(k) : k \in slots}
TeeLinks(bin, i, slots) == {<<<<bin, i, "tee">>, SubBinIn(k)>> : k \in {k \in slots : ~IsBroker(k)}}

\* The links inside the bin of a sink.
LEMMA SinkBinParts ==
  ASSUME NEW b, NEW i, NEW slots
  PROVE  TeeAndSinks(b, i, slots) = Chain(b, i, <<"queue", "tee">>) \cup SubBins(slots) \cup TeeLinks(b, i, slots)
BY Zenon DEF TeeAndSinks, SubBins, TeeLinks

\* What the pads of source i link while the pipeline plays.
Depayloading(i) == Chain("source", i, <<"depay", "parser", "tee_rtsp_pre_decode">>)
PadLinks(i) ==
  IF config.sources[i] = "uri" THEN {<<Src(i, "src_elem"), Src(i, "tee")>>}
  ELSE IF IsCamera(i)
  THEN Depayloading(i) \cup {<<Src(i, "src_elem"), Src(i, "depay")>>, <<Src(i, "decodebin"), Src(i, "src_que")>>}
  ELSE {}
OfSource(i) == SourceBin(i) \cup MuxLinks(i) \cup PadLinks(i)

\* The sources that get an instance, and its links: the sink that stands in for others
\* only if there are none.
Instanced == IF config.mode = "enabled" THEN {0} ELSE {i \in Sources : SlotsOf(i) # {}}
WithSinks(i) == TeeAndSinks("sink_bin", i, SlotsOf(i)) \cup Osd("osd", i, "sink_bin")
OfInstance(i) == WithSinks(i) \cup IF SlotsOf(i) = {} THEN Fallback("sink_bin", i) ELSE {}

OfTiler ==
  Chain("tiled_display", 0, TiledDisplayBin)
    \cup {<<<<"tiled_display", 0, "tiler">>, InstanceIn(0)>>, <<TilerTee, <<"tiled_display", 0, "queue">>>>}
OfDemuxer(i) == {<<Demuxer, DemuxPad(i)>>, <<DemuxPad(i), InstanceIn(i)>>}

DemuxIn == IF config.osd THEN <<"demux_osd", 0, "queue">> ELSE <<"demux_sink_bin", 0, "queue">>
OfParallel ==
  TeeAndSinks("demux_sink_bin", 0, DemuxSlots) \cup Osd("demux_osd", 0, "demux_sink_bin")
    \cup {<<TilerTee, Demuxer>>}
    \cup (UNION {{<<Demuxer, DemuxPad(i)>>, <<DemuxPad(i), DemuxIn>>} : i \in Indices})

\* The place of a stage on the frames' way.
Place ==
  [preprocess |-> 1, primary_gie |-> 2, tracker |-> 3, analytics |-> 4, secondary_preprocess |-> 5,
   secondary_gie |-> 6]
Running == {s \in Stages : Enabled(s)}
StagesAfter(s) == {t \in Running : Place[s] < Place[t]}
OfStage(s) == Chain(s, 0, StageBin[s]) \cup {<<StageOut(s), StageIn(t)>> : t \in StagesAfter(s)}
OfStages == UNION {OfStage(s) : s \in Running}
ToCommonTee(s) ==
  IF config.msg_conv THEN {<<StageOut(s), MsgConv>>, <<MsgConv, StageIn("common_tee")>>}
                     ELSE {<<StageOut(s), StageIn("common_tee")>>}
ToBrokers == {<<StageIn("common_tee"), SubBinIn(k)>> : k \in Brokers}
OfCommonTee == (UNION {ToCommonTee(s) : s \in Running}) \cup ToBrokers

Final == IF config.mode = "enabled" THEN TilerTee ELSE Demuxer
OfLast == {<<Mux, Final>>, <<StageOut("common_tee"), Final>>} \cup {<<Mux, StageIn(s)>> : s \in Running}

OfSources == UNION {OfSource(i) : i \in Sources}
OfInstances == UNION {OfInstance(i) : i \in Instanced}
OfDemuxers == UNION {OfDemuxer(i) : i \in Instanced}
OfMode ==
  IF config.mode = "enabled" THEN OfTiler ELSE IF config.mode = "disabled" THEN OfDemuxers ELSE OfParallel

\* Every link that a pipeline of this configuration can have.
Possible == OfSources \cup OfInstances \cup OfMode \cup OfStages \cup OfCommonTee \cup OfLast

\* The links that can be, part by part.
LEMMA PossibleParts ==
  /\ \A i \in Sources : OfSource(i) \subseteq Possible
  /\ \A i \in Instanced : OfInstance(i) \subseteq Possible
  /\ config.mode = "enabled" => OfTiler \subseteq Possible
  /\ config.mode = "disabled" => \A i \in Instanced : OfDemuxer(i) \subseteq Possible
  /\ config.mode = "parallel" => OfParallel \subseteq Possible
  /\ OfStages \subseteq Possible /\ OfCommonTee \subseteq Possible /\ OfLast \subseteq Possible
<1>1. OfMode \subseteq Possible /\ OfSources \subseteq Possible /\ OfInstances \subseteq Possible
  BY DEF Possible
<1>2. /\ \A i \in Sources : OfSource(i) \subseteq OfSources
      /\ \A i \in Instanced : OfInstance(i) \subseteq OfInstances /\ OfDemuxer(i) \subseteq OfDemuxers
  BY DEF OfSources, OfInstances, OfDemuxers
<1>3. /\ config.mode = "enabled" => OfMode = OfTiler
      /\ config.mode = "disabled" => OfMode = OfDemuxers
      /\ config.mode = "parallel" => OfMode = OfParallel
  BY DEF OfMode
<1>4. OfStages \subseteq Possible /\ OfCommonTee \subseteq Possible /\ OfLast \subseteq Possible
  BY DEF Possible
<1>5. QED BY <1>1, <1>2, <1>3, <1>4

\* The parts depend on the configuration alone.
LEMMA PartsStay ==
  ASSUME UNCHANGED config
  PROVE  /\ UNCHANGED <<Sources, Sinks, DemuxSlots, Brokers, Instanced, Running, DemuxIn, Final, OfTiler, ToBrokers>>
         /\ \A k : UNCHANGED SubBinIn(k)
         /\ \A i : UNCHANGED SlotsOf(i) /\ UNCHANGED InstanceIn(i) /\ UNCHANGED WithSinks(i) /\ UNCHANGED OfInstance(i)
         /\ \A b, i, slots : UNCHANGED TeeAndSinks(b, i, slots)
         /\ \A b, i, c : UNCHANGED Osd(b, i, c)
         /\ \A i : UNCHANGED SourceBin(i) /\ UNCHANGED MuxLinks(i) /\ UNCHANGED PadLinks(i) /\ UNCHANGED IsCamera(i)
         /\ \A i : UNCHANGED OfDemuxer(i)
<1>1. Sources' = Sources /\ Sinks' = Sinks /\ DemuxSlots' = DemuxSlots
  BY Zenon DEF Sources, Sinks, DemuxSlots
<1>2. \A k : SubBinElements(k)' = SubBinElements(k) /\ IsBroker(k)' = IsBroker(k)
  BY Zenon DEF SubBinElements, IsBroker
<1>3. \A k : SubBin(k)' = SubBin(k) /\ SubBinIn(k)' = SubBinIn(k)
  BY <1>2, Zenon DEF SubBin, SubBinIn
<1>4. Brokers' = Brokers /\ (\A i : SlotsOf(i)' = SlotsOf(i)) /\ Instanced' = Instanced
  <2>1. \A i : SlotsOf(i)' = SlotsOf(i)
    BY <1>1, Zenon DEF SlotsOf
  <2>2. Instanced' = Instanced
    BY <1>1, <2>1, Zenon DEF Instanced
  <2>3. QED BY <1>1, <1>2, <2>1, <2>2, Zenon DEF Brokers
<1>5. \A b, i, slots : TeeAndSinks(b, i, slots)' = TeeAndSinks(b, i, slots)
  BY <1>2, <1>3, Zenon DEF TeeAndSinks
<1>6. \A b, i, c : Osd(b, i, c)' = Osd(b, i, c)
  BY Zenon DEF Osd
<1>7. \A i : InstanceIn(i)' = InstanceIn(i)
  BY Zenon DEF InstanceIn
<1>8. DemuxIn' = DemuxIn /\ Final' = Final
  BY Zenon DEF DemuxIn, Final
<1>9. \A i : WithSinks(i)' = WithSinks(i) /\ OfInstance(i)' = OfInstance(i)
  <2>1. \A i : WithSinks(i)' = WithSinks(i)
    BY <1>4, <1>5, <1>6, Zenon DEF WithSinks
  <2>2. \A i : Fallback("sink_bin", i)' = Fallback("sink_bin", i)
    BY Zenon DEF Fallback
  <2>3. QED BY <1>4, <2>1, <2>2, Zenon DEF OfInstance
<1>10. \A i : SourceBin(i)' = SourceBin(i)
  <2>1. \A i : CameraSourceBin(i)' = CameraSourceBin(i)
    BY Zenon DEF CameraSourceBin
  <2>2. QED BY <2>1, Zenon DEF SourceBin
<1>11. \A i : MuxLinks(i)' = MuxLinks(i)
  <2>1. \A i : SourceOut(i)' = SourceOut(i)
    BY Zenon DEF SourceOut
  <2>2. QED BY <2>1, Zenon DEF MuxLinks
<1>12. \A i : PadLinks(i)' = PadLinks(i) /\ IsCamera(i)' = IsCamera(i)
  BY Zenon DEF PadLinks, IsCamera
<1>13. OfTiler' = OfTiler /\ \A i : OfDemuxer(i)' = OfDemuxer(i)
  BY <1>7, Zenon DEF OfTiler, OfDemuxer
<1>14. Running' = Running
  BY SoundStays, Zenon DEF Running
<1>15. ToBrokers' = ToBrokers
  BY <1>3, <1>4, Zenon DEF ToBrokers
<1>16. QED
  BY <1>1, <1>3, <1>4, <1>5, <1>6, <1>7, <1>8, <1>9, <1>10, <1>11, <1>12, <1>13, <1>14, <1>15, Zenon

\* So does what links there can be.
LEMMA PossibleStays == UNCHANGED config => UNCHANGED Possible
<1> SUFFICES ASSUME config' = config PROVE Possible' = Possible
  OBVIOUS
<1>1. OfParallel' = OfParallel
  BY PartsStay, Zenon DEF OfParallel
<1>2. OfCommonTee' = OfCommonTee /\ OfLast' = OfLast
  <2>1. \A s : ToCommonTee(s)' = ToCommonTee(s)
    BY Zenon DEF ToCommonTee
  <2>2. QED BY <2>1, PartsStay, Zenon DEF OfCommonTee, OfLast
<1>3. OfSources' = OfSources
  <2>1. \A i : OfSource(i)' = OfSource(i)
    BY PartsStay, Zenon DEF OfSource
  <2>2. QED BY <2>1, PartsStay, Zenon DEF OfSources
<1>4. OfInstances' = OfInstances /\ OfDemuxers' = OfDemuxers
  BY PartsStay, Zenon DEF OfInstances, OfDemuxers
<1>5. OfMode' = OfMode
  BY <1>1, <1>4, PartsStay, Zenon DEF OfMode
<1>6. OfStages' = OfStages
  <2>1. \A s : OfStage(s)' = OfStage(s)
    BY PartsStay, Zenon DEF OfStage, StagesAfter
  <2>2. QED BY <2>1, PartsStay, Zenon DEF OfStages
<1>7. QED
  BY <1>2, <1>3, <1>4, <1>5, <1>6, Zenon DEF Possible

\* The first and the last element of each stage.
LEMMA StageEnds ==
  /\ StageIn("preprocess") = <<"preprocess", 0, "queue">>
  /\ StageIn("primary_gie") = <<"primary_gie", 0, "queue">>
  /\ StageIn("tracker") = <<"tracker", 0, "tracker">>
  /\ StageIn("analytics") = <<"analytics", 0, "queue">>
  /\ StageIn("secondary_preprocess") = <<"secondary_preprocess", 0, "tee">>
  /\ StageIn("secondary_gie") = <<"secondary_gie", 0, "tee">>
  /\ StageIn("common_tee") = <<"common_tee", 0, "tee">>
  /\ StageOut("preprocess") = <<"preprocess", 0, "preprocess">>
  /\ StageOut("primary_gie") = <<"primary_gie", 0, "gie">>
  /\ StageOut("tracker") = <<"tracker", 0, "tracker">>
  /\ StageOut("analytics") = <<"analytics", 0, "analytics_elem">>
  /\ StageOut("secondary_preprocess") = <<"secondary_preprocess", 0, "queue">>
  /\ StageOut("secondary_gie") = <<"secondary_gie", 0, "queue">>
  /\ StageOut("common_tee") = <<"common_tee", 0, "tee">>
BY DEF StageIn, StageOut, StageBin, PreprocessBin, PrimaryGieBin, TrackingBin, AnalyticsBin,
   SecondaryPreprocessBin, SecondaryGieBin

\* The stages are created from the last to the first.
LEMMA CreationOrderIs ==
  /\ Len(CreationOrder) = 6
  /\ CreationOrder[1] = "secondary_gie" /\ CreationOrder[2] = "secondary_preprocess"
  /\ CreationOrder[3] = "analytics" /\ CreationOrder[4] = "tracker"
  /\ CreationOrder[5] = "primary_gie" /\ CreationOrder[6] = "preprocess"
BY DEF CreationOrder

\* Stages are created against their places.
LEMMA Places ==
  /\ \A n \in 1..6 : CreationOrder[n] \in Stages /\ Place[CreationOrder[n]] = 7 - n
  /\ \A s \in Stages : Place[s] \in 1..6 /\ s = CreationOrder[7 - Place[s]]
<1>1. /\ Place["preprocess"] = 1 /\ Place["primary_gie"] = 2 /\ Place["tracker"] = 3
      /\ Place["analytics"] = 4 /\ Place["secondary_preprocess"] = 5 /\ Place["secondary_gie"] = 6
  BY DEF Place
<1> HIDE DEF Place, CreationOrder
<1>2. ASSUME NEW n \in 1..6 PROVE CreationOrder[n] \in Stages /\ Place[CreationOrder[n]] = 7 - n
  <2>1. n \in {1, 2, 3, 4, 5, 6}
    OBVIOUS
  <2>2. QED BY <2>1, <1>1, CreationOrderIs DEF Stages
<1>3. ASSUME NEW s \in Stages PROVE Place[s] \in 1..6 /\ s = CreationOrder[7 - Place[s]]
  BY <1>1, CreationOrderIs DEF Stages
<1>4. QED BY <1>2, <1>3

\* The links of a source one by one.
LEMMA SourceLinks ==
  ASSUME NEW i
  PROVE  /\ config.sources[i] = "csi" => SourceBin(i) = {<<Src(i, "src_elem"), Src(i, "cap_filter")>>}
         /\ config.sources[i] \notin {"csi", "uri", "rtsp"} =>
              SourceBin(i) = {<<Src(i, "src_elem"), Src(i, "cap_filter1")>>,
                              <<Src(i, "cap_filter1"), Src(i, "nvvidconv1")>>,
                              <<Src(i, "nvvidconv1"), Src(i, "nvvidconv2")>>,
                              <<Src(i, "nvvidconv2"), Src(i, "cap_filter")>>}
         /\ config.sources[i] = "uri" =>
              SourceBin(i) = {<<Src(i, "tee"), Src(i, "queue")>>, <<Src(i, "queue"), Src(i, "nvvidconv")>>,
                              <<Src(i, "nvvidconv"), Src(i, "cap_filter1")>>}
                               \cup {<<Src(i, "tee"), Src(i, "fakequeue")>>,
                                     <<Src(i, "fakequeue"), Src(i, "fakesink")>>}
         /\ config.sources[i] = "rtsp" =>
              SourceBin(i) = {<<Src(i, "tee_rtsp_pre_decode"), Src(i, "dec_que")>>,
                              <<Src(i, "dec_que"), Src(i, "decodebin")>>}
                               \cup {<<Src(i, "src_que"), Src(i, "tee_rtsp_post_decode")>>,
                                     <<Src(i, "tee_rtsp_post_decode"), Src(i, "nvvidconv")>>,
                                     <<Src(i, "nvvidconv"), Src(i, "cap_filter1")>>}
         /\ Depayloading(i) = {<<Src(i, "depay"), Src(i, "parser")>>,
                               <<Src(i, "parser"), Src(i, "tee_rtsp_pre_decode")>>}
<1>1. ASSUME config.sources[i] = "csi" PROVE SourceBin(i) = {<<Src(i, "src_elem"), Src(i, "cap_filter")>>}
  <2>1. SourceBin(i) = Chain("source", i, <<"src_elem", "cap_filter">>)
    BY <1>1 DEF SourceBin, CameraSourceBin
  <2>2. QED BY <2>1, ChainOfTwo DEF Src
<1>2. ASSUME config.sources[i] \notin {"csi", "uri", "rtsp"}
      PROVE  SourceBin(i) = {<<Src(i, "src_elem"), Src(i, "cap_filter1")>>,
                             <<Src(i, "cap_filter1"), Src(i, "nvvidconv1")>>,
                             <<Src(i, "nvvidconv1"), Src(i, "nvvidconv2")>>,
                             <<Src(i, "nvvidconv2"), Src(i, "cap_filter")>>}
  <2>1. SourceBin(i) = Chain("source", i, <<"src_elem", "cap_filter1", "nvvidconv1", "nvvidconv2", "cap_filter">>)
    BY <1>2 DEF SourceBin, CameraSourceBin
  <2>2. QED BY <2>1, ChainOfFive DEF Src
<1>3. ASSUME config.sources[i] = "uri"
      PROVE  SourceBin(i) = {<<Src(i, "tee"), Src(i, "queue")>>, <<Src(i, "queue"), Src(i, "nvvidconv")>>,
                             <<Src(i, "nvvidconv"), Src(i, "cap_filter1")>>}
                              \cup {<<Src(i, "tee"), Src(i, "fakequeue")>>,
                                    <<Src(i, "fakequeue"), Src(i, "fakesink")>>}
  <2>1. SourceBin(i) = Chain("source", i, <<"tee", "queue", "nvvidconv", "cap_filter1">>)
                         \cup Chain("source", i, <<"tee", "fakequeue", "fakesink">>)
    BY <1>3, Zenon DEF SourceBin, UriDecodeSrcBin
  <2>2. Chain("source", i, <<"tee", "queue", "nvvidconv", "cap_filter1">>)
          = {<<Src(i, "tee"), Src(i, "queue")>>, <<Src(i, "queue"), Src(i, "nvvidconv")>>,
             <<Src(i, "nvvidconv"), Src(i, "cap_filter1")>>}
    BY ChainOfFour DEF Src
  <2>3. Chain("source", i, <<"tee", "fakequeue", "fakesink">>)
          = {<<Src(i, "tee"), Src(i, "fakequeue")>>, <<Src(i, "fakequeue"), Src(i, "fakesink")>>}
    BY ChainOfThree DEF Src
  <2>4. QED BY <2>1, <2>2, <2>3, Zenon
<1>4. ASSUME config.sources[i] = "rtsp"
      PROVE  SourceBin(i) = {<<Src(i, "tee_rtsp_pre_decode"), Src(i, "dec_que")>>,
                             <<Src(i, "dec_que"), Src(i, "decodebin")>>}
                              \cup {<<Src(i, "src_que"), Src(i, "tee_rtsp_post_decode")>>,
                                    <<Src(i, "tee_rtsp_post_decode"), Src(i, "nvvidconv")>>,
                                    <<Src(i, "nvvidconv"), Src(i, "cap_filter1")>>}
  <2>1. SourceBin(i) = Chain("source", i, <<"tee_rtsp_pre_decode", "dec_que", "decodebin">>)
                         \cup Chain("source", i, <<"src_que", "tee_rtsp_post_decode", "nvvidconv", "cap_filter1">>)
    <3>1. config.sources[i] # "uri"
      BY <1>4
    <3>2. SourceBin(i) = RtspSrcBin(i)
      BY <1>4, <3>1 DEF SourceBin
    <3>3. QED BY <3>2, Zenon DEF RtspSrcBin
  <2>2. Chain("source", i, <<"tee_rtsp_pre_decode", "dec_que", "decodebin">>)
          = {<<Src(i, "tee_rtsp_pre_decode"), Src(i, "dec_que")>>, <<Src(i, "dec_que"), Src(i, "decodebin")>>}
    BY ChainOfThree DEF Src
  <2>3. Chain("source", i, <<"src_que", "tee_rtsp_post_decode", "nvvidconv", "cap_filter1">>)
          = {<<Src(i, "src_que"), Src(i, "tee_rtsp_post_decode")>>,
             <<Src(i, "tee_rtsp_post_decode"), Src(i, "nvvidconv")>>,
             <<Src(i, "nvvidconv"), Src(i, "cap_filter1")>>}
    BY ChainOfFour DEF Src
  <2>4. QED BY <2>1, <2>2, <2>3, Zenon
<1>5. Depayloading(i) = {<<Src(i, "depay"), Src(i, "parser")>>, <<Src(i, "parser"), Src(i, "tee_rtsp_pre_decode")>>}
  BY ChainOfThree DEF Depayloading, Src
<1>6. QED BY <1>1, <1>2, <1>3, <1>4, <1>5, Zenon

\* What starts in a source is a link of that source.
OfNoSource(S) == \A l \in S : l[1][1] # "source"

\* No chain, sink bin or display of another bin has such a link.
LEMMA NoSourceInSinkBin ==
  /\ \A b : b # "source" => \A i, elements : OfNoSource(Chain(b, i, elements))
  /\ \A b : b # "source" => \A i, slots : OfNoSource(TeeAndSinks(b, i, slots))
  /\ \A b : b # "source" => \A i, c : OfNoSource(Osd(b, i, c))
<1>1. ASSUME NEW b, b # "source", NEW i, NEW elements PROVE OfNoSource(Chain(b, i, elements))
  BY <1>1 DEF OfNoSource, Chain
<1>2. ASSUME NEW b, b # "source", NEW i, NEW slots PROVE OfNoSource(TeeAndSinks(b, i, slots))
  <2>1. \A k : OfNoSource(SubBin(k))
    BY <1>1 DEF SubBin
  <2>2. OfNoSource(SubBins(slots))
    BY <2>1 DEF SubBins, OfNoSource
  <2>3. OfNoSource(TeeLinks(b, i, slots))
    BY <1>2 DEF TeeLinks, OfNoSource
  <2>4. OfNoSource(Chain(b, i, <<"queue", "tee">>))
    BY <1>1, <1>2
  <2>5. OfNoSource(Chain(b, i, <<"queue", "tee">>) \cup SubBins(slots) \cup TeeLinks(b, i, slots))
    BY <2>2, <2>3, <2>4 DEF OfNoSource
  <2>6. QED BY <2>5, SinkBinParts
<1>3. ASSUME NEW b, b # "source", NEW i, NEW c PROVE OfNoSource(Osd(b, i, c))
  <2>1. OfNoSource(Chain(b, i, OsdBin))
    BY <1>1, <1>3
  <2>2. OfNoSource({<<<<b, i, "nvosd">>, <<c, i, "queue">>>>})
    BY <1>3 DEF OfNoSource
  <2>3. OfNoSource({})
    BY DEF OfNoSource
  <2>4. OfNoSource(Chain(b, i, OsdBin) \cup {<<<<b, i, "nvosd">>, <<c, i, "queue">>>>})
    BY <2>1, <2>2 DEF OfNoSource
  <2>5. QED BY <2>3, <2>4, Zenon DEF Osd
<1>4. QED BY <1>1, <1>2, <1>3

\* No instance, display or demuxer has such a link.
LEMMA NoSourceInInstance == (\A i : OfNoSource(OfInstance(i))) /\ OfNoSource(OfMode)
<1>1. ASSUME NEW i PROVE OfNoSource(OfInstance(i))
  <2>1. OfNoSource(WithSinks(i))
    <3>1. OfNoSource(TeeAndSinks("sink_bin", i, SlotsOf(i))) /\ OfNoSource(Osd("osd", i, "sink_bin"))
      BY NoSourceInSinkBin
    <3>2. QED BY <3>1 DEF OfNoSource, WithSinks
  <2>2. OfNoSource(Fallback("sink_bin", i))
    <3>1. OfNoSource(Chain("fallback", i, RenderBin("fake")))
      BY NoSourceInSinkBin
    <3>2. OfNoSource({<<<<"sink_bin", i, "tee">>, <<"fallback", i, "queue">>>>})
      BY DEF OfNoSource
    <3>3. QED BY <3>1, <3>2, Zenon DEF OfNoSource, Fallback
  <2>3. QED BY <2>1, <2>2, Zenon DEF OfNoSource, OfInstance
<1>2. OfNoSource(OfTiler)
  <2>1. OfNoSource(Chain("tiled_display", 0, TiledDisplayBin))
    BY NoSourceInSinkBin
  <2>2. OfNoSource({<<<<"tiled_display", 0, "tiler">>, InstanceIn(0)>>, <<TilerTee, <<"tiled_display", 0, "queue">>>>})
    BY DEF OfNoSource, TilerTee
  <2>3. QED BY <2>1, <2>2, Zenon DEF OfNoSource, OfTiler
<1>3. \A i, b : OfNoSource({<<Demuxer, DemuxPad(i)>>, <<DemuxPad(i), b>>})
  BY DEF OfNoSource, Demuxer, DemuxPad
<1>4. OfNoSource(OfDemuxers)
  BY <1>3, Zenon DEF OfNoSource, OfDemuxers, OfDemuxer
<1>5. OfNoSource(OfParallel)
  <2> DEFINE A == TeeAndSinks("demux_sink_bin", 0, DemuxSlots)
             B == Osd("demux_osd", 0, "demux_sink_bin")
             T == {<<TilerTee, Demuxer>>}
             G == UNION {{<<Demuxer, DemuxPad(i)>>, <<DemuxPad(i), DemuxIn>>} : i \in Indices}
  <2>1. OfNoSource(A) /\ OfNoSource(B)
    BY NoSourceInSinkBin
  <2>2. OfNoSource(T)
    BY DEF OfNoSource, TilerTee
  <2>3. OfNoSource(G)
    BY <1>3, Zenon DEF OfNoSource
  <2>4. OfParallel = A \cup B \cup T \cup G
    BY Zenon DEF OfParallel
  <2> HIDE DEF A, B, T, G
  <2>5. QED BY <2>1, <2>2, <2>3, <2>4 DEF OfNoSource
<1>6. QED BY <1>1, <1>2, <1>4, <1>5, Zenon DEF OfMode

\* No stage, tee or link that closes the graph has one.
LEMMA NoSourceInStages == OfNoSource(OfStages) /\ OfNoSource(OfCommonTee) /\ OfNoSource(OfLast)
<1>1. /\ \A s \in Stages : s # "source" /\ StageOut(s)[1] # "source"
      /\ StageOut("common_tee")[1] # "source" /\ StageIn("common_tee")[1] # "source"
      /\ Mux[1] # "source" /\ MsgConv[1] # "source"
  BY StageEnds DEF Stages, Mux, MsgConv
<1>2. Running \subseteq Stages
  BY DEF Running
<1>3. ASSUME NEW s \in Running PROVE OfNoSource(OfStage(s)) /\ OfNoSource(ToCommonTee(s))
  <2>1. OfNoSource(Chain(s, 0, StageBin[s]))
    BY <1>1, <1>2, NoSourceInSinkBin
  <2>2. OfNoSource({<<StageOut(s), StageIn(t)>> : t \in StagesAfter(s)})
    BY <1>1, <1>2 DEF OfNoSource
  <2>3. OfNoSource(ToCommonTee(s))
    BY <1>1, <1>2 DEF OfNoSource, ToCommonTee
  <2>4. QED BY <2>1, <2>2, <2>3 DEF OfNoSource, OfStage
<1>4. OfNoSource(ToBrokers)
  BY <1>1 DEF OfNoSource, ToBrokers
<1>5. OfNoSource(OfLast)
  BY <1>1 DEF OfNoSource, OfLast
<1>6. QED BY <1>3, <1>4, <1>5, Zenon DEF OfNoSource, OfStages, OfCommonTee

\* So what starts in source i is one of its links.
LEMMA LinkOfSource ==
  ASSUME NEW l \in Possible, NEW i, l[1][1] = "source", l[1][2] = i
  PROVE  i \in Sources /\ l \in OfSource(i)
<1>1. OfNoSource(OfInstances \cup OfMode \cup OfStages \cup OfCommonTee \cup OfLast)
  BY NoSourceInInstance, NoSourceInStages, Zenon DEF OfNoSource, OfInstances
<1>2. l \in OfSources
  BY <1>1 DEF Possible, OfNoSource
<1>3. PICK j \in Sources : l \in OfSource(j)
  BY <1>2 DEF OfSources
<1>4. \A elements : \A m \in Chain("source", j, elements) : m[1][2] = j
  BY DEF Chain
<1>5. \A m \in SourceBin(j) : m[1][2] = j
  <2>1. (\A m \in CameraSourceBin(j) : m[1][2] = j) /\ \A m \in UriDecodeSrcBin(j) : m[1][2] = j
    BY <1>4, Zenon DEF CameraSourceBin, UriDecodeSrcBin
  <2>2. \A m \in RtspSrcBin(j) : m[1][2] = j
    BY <1>4, Zenon DEF RtspSrcBin
  <2>3. QED BY <2>1, <2>2, Zenon DEF SourceBin
<1>6. \A m \in MuxLinks(j) : m[1][1] = "source" => m[1][2] = j
  BY DEF MuxLinks, SourceOut, Src, MuxPad
<1>7. \A m \in PadLinks(j) : m[1][2] = j
  BY SourceLinks DEF PadLinks, Src
<1>8. QED BY <1>3, <1>5, <1>6, <1>7, Zenon DEF OfSource

\* Only a camera's source element is linked with a depayloader.
LEMMA DepayOfCamera ==
  ASSUME NEW i, NEW l \in OfSource(i), l[2] = Src(i, "depay")
  PROVE  config.sources[i] = "rtsp" /\ l = <<Src(i, "src_elem"), Src(i, "depay")>> /\ l \notin SourceBin(i) \cup MuxLinks(i)
<1>1. l \notin MuxLinks(i)
  BY DEF MuxLinks, MuxPad, Mux, Src
<1>2. \A m \in SourceBin(i) : m[2] # Src(i, "depay")
  <2>1. CASE config.sources[i] = "csi"
    BY <2>1, SourceLinks DEF Src
  <2>2. CASE config.sources[i] = "uri"
    BY <2>2, SourceLinks DEF Src
  <2>3. CASE config.sources[i] = "rtsp"
    BY <2>3, SourceLinks DEF Src
  <2>4. CASE config.sources[i] \notin {"csi", "uri", "rtsp"}
    BY <2>4, SourceLinks DEF Src
  <2>5. QED BY <2>1, <2>2, <2>3, <2>4
<1>3. l \in PadLinks(i)
  BY <1>1, <1>2 DEF OfSource
<1>4. config.sources[i] = "rtsp" /\ l = <<Src(i, "src_elem"), Src(i, "depay")>>
  BY <1>3, SourceLinks DEF PadLinks, IsCamera, Src
<1>5. QED BY <1>1, <1>2, <1>4

\* The stages at the two ends of what create_common_elements has linked so far, and
\* the links of each phase: nothing else is ever made.
LinksInv ==
  /\ links \subseteq Possible
  /\ phase = "demux" => config.mode = "parallel"
  /\ phase = "demuxed" => config.mode # "enabled"
  /\ upstream \in Running \cup {NoStage}
  /\ phase \in {"demux", "instances", "demuxed"} => upstream = NoStage /\ downstream = NoStage
  /\ phase = "common" =>
       /\ step \in 1..7
       /\ downstream \in Running \cup {NoStage}
       /\ upstream = NoStage <=> downstream = NoStage
       /\ upstream \in Stages => \E n \in 1..6 : n < step /\ upstream = CreationOrder[n]
  /\ phase \in {"broker", "last", "built"} =>
       /\ downstream \in {NoStage, "common_tee"}
       /\ upstream = NoStage <=> downstream = NoStage

\* At first there is no link.
LEMMA LinksInit == Init => LinksInv
BY DEF Init, LinksInv, NoStage

\* What a step adds is among the links there can be.
LEMMA AddedInSource ==
  ASSUME NEW i \in Sources
  PROVE  /\ SourceBin(i) \cup MuxLinks(i) \subseteq Possible
         /\ PadLinks(i) \subseteq Possible
BY PossibleParts, Zenon DEF OfSource

\* The links of an instance are among those that can be.
LEMMA AddedInInstance ==
  ASSUME GraphType, NEW i \in Instanced, i \in Indices
  PROVE  WithSinks(i) \subseteq Instance(i) /\ Instance(i) \subseteq Possible
<1>1. WithSinks(i) \subseteq Instance(i)
  BY Zenon DEF Instance, WithSinks
<1>2. NeedsFallback(i) => SlotsOf(i) = {}
  <2>1. SlotsOf(i) \in SUBSET Sinks
    BY DEF SlotsOf
  <2>2. IsFiniteSet(SlotsOf(i)) /\ Cardinality(SlotsOf(i)) \in Nat
    BY <2>1, SinksFinite DEF GraphType
  <2>3. num_bins[i] \in Nat
    BY DEF GraphType
  <2>4. NeedsFallback(i) => Cardinality(SlotsOf(i)) = 0
    BY <2>2, <2>3 DEF NeedsFallback, SinksSoFar
  <2>5. QED BY <2>2, <2>4, FS_EmptySet
<1>3. Instance(i) \subseteq OfInstance(i)
  BY <1>2, Zenon DEF Instance, WithSinks, OfInstance
<1>4. QED BY <1>1, <1>3, PossibleParts, Zenon

\* Every step adds only links that can be.
LEMMA LinksNext == GraphType /\ LinksInv /\ [Next]_vars => LinksInv'
<1> SUFFICES ASSUME GraphType, LinksInv, [Next]_vars PROVE LinksInv'
  OBVIOUS
<1>0. /\ config' = config /\ Possible' = Possible /\ links \subseteq Possible
      /\ config \in Configs /\ step \in Nat /\ 0 \in Sources /\ \A i \in Sources : i \in Nat /\ i \in Indices
      /\ upstream \in Running \cup {NoStage} /\ NoStage \notin Stages \cup {"common_tee"}
      /\ Running \subseteq Stages /\ Running' = Running
  <2>1. config' = config
    BY ConfigStays
  <2>2. Running' = Running
    BY <2>1, SoundStays, Zenon DEF Running
  <2>3. Running \subseteq Stages
    BY DEF Running
  <2>4. QED
    BY <2>1, <2>2, <2>3, PossibleStays, ConfigFacts, GraphAssumption DEF GraphType, LinksInv, Indices, NoStage, Stages
<1>1. CASE CreateMultiSourceBin
  <2>1. links' = UNION {SourceBin(i) \cup MuxLinks(i) : i \in Sources}
    BY <1>1 DEF CreateMultiSourceBin
  <2>2. links' \subseteq Possible
    BY <2>1, AddedInSource
  <2>3. /\ phase' \in {"demux", "instances"}
        /\ phase' = "demux" => config.mode = "parallel"
        /\ upstream' = NoStage /\ downstream' = NoStage
    BY <1>1 DEF CreateMultiSourceBin
  <2>4. QED BY <2>2, <2>3, <1>0 DEF LinksInv
<1>2. CASE CreateDemuxPipeline
  <2>1. /\ phase = "demux" /\ config.mode = "parallel" /\ UNCHANGED <<upstream, downstream>>
        /\ upstream = NoStage /\ downstream = NoStage
    BY <1>2 DEF CreateDemuxPipeline, LinksInv
  <2>2. links' \subseteq Possible /\ phase' \in {"failed", "instances", "crashed"}
    <3>1. CASE DemuxSlots = {}
      BY <3>1, <1>2, <1>0, Zenon DEF CreateDemuxPipeline
    <3>2. CASE DemuxSlots # {}
      <4> DEFINE first == CHOOSE k \in DemuxSlots : \A l \in DemuxSlots : k <= l
                 pad == DemuxPad(config.sinks[first].source)
      <4>1. DemuxSlots \subseteq Nat /\ DemuxSlots \subseteq Sinks
        BY <1>0, ConfigFacts, GraphAssumption DEF DemuxSlots, Slots
      <4>2. \E k \in DemuxSlots : \A l \in DemuxSlots : k <= l
        BY <4>1, <3>2, LeastElement
      <4>3. first \in DemuxSlots
        BY <4>2, Zenon
      <4>4. config.sinks[first].source \in Indices
        BY <4>1, <4>3, <1>0, ConfigFacts DEF SinkConfig
      <4>5. links' = links \cup TeeAndSinks("demux_sink_bin", 0, DemuxSlots)
                       \cup Osd("demux_osd", 0, "demux_sink_bin")
                       \cup {<<TilerTee, Demuxer>>, <<Demuxer, pad>>, <<pad, DemuxIn>>}
        BY <1>2, <3>2, Zenon DEF CreateDemuxPipeline, DemuxIn
      <4>6. phase' \in AfterServing(Servers(DemuxSlots), "instances")
        BY <1>2, <3>2, Zenon DEF CreateDemuxPipeline
      <4>7. phase' \in {"instances", "crashed"}
        BY <4>6, Zenon DEF AfterServing
      <4> HIDE DEF first
      <4>8. {<<Demuxer, pad>>, <<pad, DemuxIn>>} \subseteq OfParallel
        BY <4>4, Zenon DEF OfParallel
      <4>9. TeeAndSinks("demux_sink_bin", 0, DemuxSlots) \cup Osd("demux_osd", 0, "demux_sink_bin")
              \cup {<<TilerTee, Demuxer>>} \subseteq OfParallel
        BY Zenon DEF OfParallel
      <4>10. OfParallel \subseteq Possible
        BY <2>1, PossibleParts, Zenon
      <4> HIDE DEF pad
      <4>11. links' \subseteq Possible
        BY <4>5, <4>8, <4>9, <4>10, <1>0, Zenon
      <4>12. QED BY <4>7, <4>11
    <3>3. QED BY <3>1, <3>2
  <2>3. QED BY <2>1, <2>2, <1>0 DEF LinksInv
<1>3. CASE CreateTiledInstance
  <2>1. /\ phase = "instances" /\ config.mode = "enabled" /\ UNCHANGED <<upstream, downstream>> /\ step' = 1
        /\ links' = links \cup Instance(0) \cup Chain("tiled_display", 0, TiledDisplayBin)
                \cup {<<<<"tiled_display", 0, "tiler">>, InstanceIn(0)>>,
                      <<TilerTee, <<"tiled_display", 0, "queue">>>>}
        /\ upstream = NoStage /\ downstream = NoStage
    BY <1>3, Zenon DEF CreateTiledInstance, LinksInv
  <2>2. OfTiler \subseteq Possible /\ Instance(0) \subseteq Possible
    <3>1. OfTiler \subseteq Possible
      BY <2>1, PossibleParts, Zenon
    <3>2. 0 \in Instanced
      BY <2>1 DEF Instanced
    <3>3. QED BY <3>1, <3>2, <1>0, AddedInInstance
  <2>3. links' \subseteq Possible
    BY <2>1, <2>2, <1>0, Zenon DEF OfTiler
  <2>4. phase' \in {"common", "failed", "crashed"}
    BY <1>3, Zenon DEF CreateTiledInstance, AfterServing, AfterProbing
  <2>5. QED BY <2>1, <2>3, <2>4, <1>0 DEF LinksInv
<1>4. CASE CreateDemuxer
  BY <1>4, <1>0 DEF CreateDemuxer, LinksInv
<1>5. CASE SkipInstance
  BY <1>5, <1>0 DEF SkipInstance, LinksInv
<1>6. CASE CreateDemuxedInstance
  <2>1. /\ phase = "demuxed" /\ step \in Sources /\ UNCHANGED <<upstream, downstream>>
        /\ upstream = NoStage /\ downstream = NoStage
        /\ links' = links \cup Instance(step)
                \cup (IF DemuxerIsLoose THEN {}
                      ELSE {<<Demuxer, DemuxPad(step)>>, <<DemuxPad(step), InstanceIn(step)>>})
    BY <1>6, Zenon DEF CreateDemuxedInstance, LinksInv
  <2>2. phase' \in {"demuxed", "failed", "crashed"}
    BY <1>6, Zenon DEF CreateDemuxedInstance, AfterServing
  <2>3. step \in Instanced /\ Instance(step) \subseteq Possible
    <3>1. SlotsOf(step) # {} /\ config.mode # "enabled"
      BY <1>6, <2>1 DEF CreateDemuxedInstance, LinksInv
    <3>2. step \in Instanced
      BY <2>1, <3>1 DEF Instanced
    <3>3. QED BY <1>0, <2>1, <3>2, AddedInInstance
  <2>4. ASSUME ~DemuxerIsLoose
        PROVE  {<<Demuxer, DemuxPad(step)>>, <<DemuxPad(step), InstanceIn(step)>>} \subseteq Possible
    <3>1. config.mode # "enabled"
      BY <2>1 DEF LinksInv
    <3>2. config.mode = "disabled"
      BY <3>1, <2>4, <1>0, ConfigFacts DEF DemuxerIsLoose
    <3>3. OfDemuxer(step) \subseteq Possible
      BY <3>2, <2>3, PossibleParts, Zenon
    <3>4. QED BY <3>3, Zenon DEF OfDemuxer
  <2>5. links' \subseteq Possible
    BY <2>1, <2>3, <2>4, <1>0, Zenon
  <2>6. QED BY <2>1, <2>2, <2>5, <1>0 DEF LinksInv
<1>7. CASE InstancesCreated
  BY <1>7, <1>0 DEF InstancesCreated, LinksInv
<1>8. CASE AddStage
  <2> DEFINE st == CreationOrder[step]
             new == Chain(st, 0, StageBin[st])
                      \cup (IF upstream = NoStage THEN {} ELSE {<<StageOut(st), StageIn(upstream)>>})
  <2>1. /\ phase = "common" /\ phase' = "common" /\ step \in 1..6 /\ step' = step + 1
        /\ upstream' = st /\ downstream' = NewDownstream(st)
        /\ links' = links \cup new
        /\ Enabled(st)
    <3>1. phase = "common" /\ phase' = "common" /\ step <= 6 /\ step' = step + 1 /\ step \in 1..7
      BY <1>8, CreationOrderIs DEF AddStage, LinksInv
    <3>2. /\ upstream' = st /\ downstream' = NewDownstream(st)
          /\ links' = links \cup new
          /\ Enabled(st)
      BY <1>8, Zenon DEF AddStage
    <3> HIDE DEF st, new
    <3>3. QED BY <3>1, <3>2
  <2>2. st \in Stages /\ Place[st] = 7 - step
    BY <2>1, Places
  <2>02. st \in Running
    BY <2>1, <2>2 DEF Running
  <2> HIDE DEF st
  <2>3. Chain(st, 0, StageBin[st]) \subseteq OfStages
    BY <2>02 DEF OfStages, OfStage
  <2>4. ASSUME upstream # NoStage PROVE <<StageOut(st), StageIn(upstream)>> \in OfStages
    <3>1. upstream \in Running /\ upstream \in Stages
      BY <2>4, <1>0
    <3>2. PICK n \in 1..6 : n < step /\ upstream = CreationOrder[n]
      BY <2>1, <3>1 DEF LinksInv
    <3>3. Place[upstream] = 7 - n
      BY <3>2, Places
    <3>4. Place[st] < Place[upstream]
      BY <3>2, <3>3, <2>1, <2>2
    <3>5. <<StageOut(st), StageIn(upstream)>> \in OfStage(st)
      BY <3>1, <3>4 DEF OfStage, StagesAfter
    <3>6. QED BY <3>5, <2>02 DEF OfStages
  <2>5. OfStages \subseteq Possible
    BY PossibleParts, Zenon
  <2>6. links' \subseteq Possible
    BY <2>1, <2>3, <2>4, <2>5, <1>0, Zenon
  <2> HIDE DEF new
  <2>7. downstream' \in Running
    <3>1. downstream \in Running \cup {NoStage}
      BY <2>1 DEF LinksInv
    <3>2. QED BY <3>1, <2>1, <2>02, Zenon DEF NewDownstream
  <2>8. step < step' /\ step' \in 1..7 /\ step \in 1..6
    BY <2>1
  <2>9. \E n \in 1..6 : n < step' /\ upstream' = CreationOrder[n]
    BY <2>1, <2>8 DEF st
  <2>10. upstream' \in Running /\ downstream' # NoStage /\ upstream' # NoStage
    BY <2>1, <2>02, <2>7, <1>0
  <2>11. CreationOrder' = CreationOrder
    BY DEF CreationOrder
  <2>12. QED BY <2>1, <2>6, <2>7, <2>8, <2>9, <2>10, <2>11, <1>0 DEF LinksInv
<1>9. CASE SkipStage
  <2>1. /\ phase = "common" /\ phase' = "common" /\ step \in 1..6 /\ step' = step + 1
        /\ UNCHANGED <<links, upstream, downstream>>
    BY <1>9, CreationOrderIs DEF SkipStage, LinksInv
  <2>2. step' \in 1..7 /\ \A n \in 1..6 : n < step => n < step'
    BY <2>1
  <2>3. CreationOrder' = CreationOrder
    BY DEF CreationOrder
  <2>4. QED BY <2>1, <2>2, <2>3, <1>0 DEF LinksInv
<1>10. CASE AddCommonTee
  <2>1. phase = "common" /\ phase' = "broker" /\ upstream' = upstream
    BY <1>10 DEF AddCommonTee
  <2>2. CASE downstream = NoStage
    <3>1. links' = links /\ downstream' = NoStage
      BY <1>10, <2>2 DEF AddCommonTee
    <3>2. QED BY <2>1, <2>2, <3>1, <1>0 DEF LinksInv
  <2>3. CASE downstream # NoStage
    <3>1. downstream \in Running /\ upstream # NoStage
      BY <2>1, <2>3 DEF LinksInv
    <3>2. /\ downstream' = "common_tee"
          /\ links' = links \cup IF config.msg_conv
                                 THEN {<<StageOut(downstream), MsgConv>>, <<MsgConv, StageIn("common_tee")>>}
                                 ELSE {<<StageOut(downstream), StageIn("common_tee")>>}
      BY <1>10, <2>3, Zenon DEF AddCommonTee
    <3>3. ToCommonTee(downstream) \subseteq OfCommonTee /\ links' = links \cup ToCommonTee(downstream)
      <4>1. ToCommonTee(downstream) \subseteq OfCommonTee
        BY <3>1 DEF OfCommonTee
      <4>2. QED BY <3>2, <4>1, Zenon DEF ToCommonTee
    <3>4. OfCommonTee \subseteq Possible
      BY PossibleParts, Zenon
    <3>5. links' \subseteq Possible
      BY <3>3, <3>4, <1>0, Zenon
    <3>6. QED BY <2>1, <3>1, <3>2, <3>5, <1>0 DEF LinksInv
  <2>4. QED BY <2>2, <2>3
<1>11. CASE AddAndLinkBrokerSinks
  <2>1. phase = "broker" /\ phase' \in {"last", "failed"} /\ UNCHANGED <<upstream, downstream>>
    BY <1>11 DEF AddAndLinkBrokerSinks
  <2>2. links' \subseteq links \cup ToBrokers
    BY <1>11, Zenon DEF AddAndLinkBrokerSinks, ToBrokers
  <2>3. ToBrokers \subseteq Possible
    BY PossibleParts, Zenon DEF OfCommonTee
  <2>4. links' \subseteq Possible
    BY <2>2, <2>3, <1>0, Zenon
  <2>5. QED BY <2>1, <2>4, <1>0 DEF LinksInv
<1>12. CASE LinkAll
  <2>1. phase = "last" /\ phase' \in {"built", "failed"} /\ UNCHANGED <<upstream, downstream>>
    BY <1>12 DEF LinkAll
  <2>2. downstream \in {NoStage, "common_tee"} /\ (downstream # NoStage => upstream \in Running)
    BY <2>1, <1>0 DEF LinksInv
  <2>3. links' \subseteq links \cup IF downstream = NoStage THEN {<<Mux, Final>>}
                                    ELSE {<<StageOut(downstream), Final>>, <<Mux, StageIn(upstream)>>}
    BY <1>12, Zenon DEF LinkAll, Final
  <2>4. OfLast \subseteq Possible
    BY PossibleParts, Zenon
  <2>5. links' \subseteq Possible
    <3>1. CASE downstream = NoStage
      BY <3>1, <2>3, <2>4, <1>0, Zenon DEF OfLast
    <3>2. CASE downstream # NoStage
      <4>1. downstream = "common_tee" /\ upstream \in Running
        BY <3>2, <2>2
      <4>2. {<<StageOut("common_tee"), Final>>, <<Mux, StageIn(upstream)>>} \subseteq OfLast
        BY <4>1, Zenon DEF OfLast
      <4>3. links' \subseteq links \cup {<<StageOut(downstream), Final>>, <<Mux, StageIn(upstream)>>}
        BY <3>2, <2>3, Zenon
      <4>4. QED BY <4>1, <4>2, <4>3, <2>4, <1>0, Zenon
    <3>3. QED BY <3>1, <3>2
  <2>6. QED BY <2>1, <2>5, <1>0 DEF LinksInv
<1>13. CASE BuildFails
  BY <1>13, <1>0 DEF BuildFails, LinksInv
<1>14. ASSUME NEW i \in Sources,
              \/ UriPadAdded(i) \/ RtspPadAdded(i) \/ DecodedPadAdded(i) \/ SourceReset(i)
              \/ \E codec \in Codecs \cup {Other} : SelectStream(i, codec)
       PROVE  LinksInv'
  <2>1. phase = "built" /\ phase' \in {"built", "crashed", "lost"} /\ UNCHANGED <<upstream, downstream>>
    <3>1. CASE UriPadAdded(i) \/ DecodedPadAdded(i) \/ \E codec \in Codecs \cup {Other} : SelectStream(i, codec)
      BY <3>1 DEF UriPadAdded, DecodedPadAdded, SelectStream, build_vars
    <3>2. CASE RtspPadAdded(i)
      BY <3>2, Zenon DEF RtspPadAdded
    <3>3. CASE SourceReset(i)
      BY <3>3, Zenon DEF SourceReset
    <3>4. QED BY <3>1, <3>2, <3>3, <1>14
  <2>2. links' \subseteq links \cup PadLinks(i)
    <3>0. /\ config.sources[i] = "uri" => PadLinks(i) = {<<Src(i, "src_elem"), Src(i, "tee")>>}
          /\ config.sources[i] = "rtsp" =>
               /\ Depayloading(i) \subseteq PadLinks(i)
               /\ <<Src(i, "src_elem"), Src(i, "depay")>> \in PadLinks(i)
               /\ <<Src(i, "decodebin"), Src(i, "src_que")>> \in PadLinks(i)
      BY DEF PadLinks, IsCamera
    <3>1. CASE UriPadAdded(i)
      BY <3>0, <3>1, Zenon DEF UriPadAdded
    <3>2. CASE DecodedPadAdded(i)
      <4>1. <<Src(i, "src_elem"), Src(i, "depay")>> \in OfSource(i)
        <5>1. <<Src(i, "src_elem"), Src(i, "depay")>> \in links
          BY <3>2 DEF DecodedPadAdded, Linked
        <5>2. Src(i, "src_elem")[1] = "source" /\ Src(i, "src_elem")[2] = i
          BY DEF Src
        <5>3. QED BY <5>1, <5>2, <1>0, LinkOfSource
      <4>2. config.sources[i] = "rtsp"
        BY <4>1, DepayOfCamera
      <4>3. QED BY <3>0, <3>2, <4>2, Zenon DEF DecodedPadAdded
    <3>3. CASE RtspPadAdded(i)
      BY <3>0, <3>3, Zenon DEF RtspPadAdded
    <3>4. CASE SourceReset(i)
      BY <3>4, Zenon DEF SourceReset
    <3>5. ASSUME NEW codec \in Codecs \cup {Other}, SelectStream(i, codec) PROVE links' \subseteq links \cup PadLinks(i)
      <4>1. links' \subseteq links \cup Depayloading(i) /\ config.sources[i] = "rtsp"
        BY <3>5, Zenon DEF SelectStream, Depayloading
      <4>2. QED BY <3>0, <4>1, Zenon
    <3>6. QED BY <3>1, <3>2, <3>3, <3>4, <3>5, <1>14
  <2>3. links' \subseteq Possible
    BY <2>2, <1>0, AddedInSource, Zenon
  <2>4. QED BY <2>1, <2>3, <1>0 DEF LinksInv
<1>15. CASE DestroyPipeline
  <2>1. links' = {} /\ phase' \in {"lost", "destroyed", "over"} /\ UNCHANGED upstream
    BY <1>15 DEF DestroyPipeline
  <2>2. QED BY <2>1, <1>0 DEF LinksInv
<1>16. CASE UNCHANGED vars
  <2>1. UNCHANGED <<config, phase, step, links, upstream, downstream>>
    BY <1>16 DEF vars, build_vars
  <2>2. CreationOrder' = CreationOrder
    BY DEF CreationOrder
  <2>3. QED BY <2>1, <2>2, <1>0 DEF LinksInv
<1>17. QED
  BY <1>1, <1>2, <1>3, <1>4, <1>5, <1>6, <1>7, <1>8, <1>9, <1>10, <1>11, <1>12, <1>13, <1>14, <1>15, <1>16,
     Zenon DEF Next

-------------------------------------------------------------------------------
(* Branches *)

IsTee(node) == node[3] \in {"tee", "tee_rtsp_pre_decode", "tee_rtsp_post_decode"}

\* The one element behind a tee that needs no queue.
Onward(node) ==
  IF node = TilerTee THEN Demuxer
  ELSE IF node = <<"common_tee", 0, "tee">> THEN Final
  ELSE <<"source", node[2], "nvvidconv">>

\* A link from a tee leads into a queue or is the one that goes on.
Queued(link) == IsTee(link[1]) /\ link[2][3] \notin Queues => link[2] = Onward(link[1])

\* A link that leaves no tee needs no queue.
LEMMA NotFromTee ==
  ASSUME NEW a, NEW b, a[3] \notin {"tee", "tee_rtsp_pre_decode", "tee_rtsp_post_decode"}
  PROVE  Queued(<<a, b>>)
BY DEF Queued, IsTee

\* A link into a queue has one.
LEMMA IntoQueue ==
  ASSUME NEW a, NEW b, b[3] \in Queues
  PROVE  Queued(<<a, b>>)
BY DEF Queued

\* Every sink has a queue of its own.
LEMMA SinksQueue ==
  ASSUME NEW k
  PROVE  /\ SubBinIn(k)[3] = "queue"
         /\ \A l \in SubBin(k) : Queued(l)
<1> DEFINE bin == SubBinElements(k)
<1>1. bin \in {EncodeFileBin, UdpsinkBin, MsgConvBrokerBin, RenderBin("egl"), RenderBin("fake")}
  <2>1. \A type : RenderBin(type) \in {RenderBin("egl"), RenderBin("fake")}
    BY DEF RenderBin
  <2>2. QED BY <2>1, Zenon DEF SubBinElements
<1>2. bin[1] = "queue"
  BY <1>1 DEF EncodeFileBin, UdpsinkBin, MsgConvBrokerBin, RenderBin
<1>3. \A l \in Chain("sub_bin", k, bin) : l[1][3] \notin {"tee", "tee_rtsp_pre_decode", "tee_rtsp_post_decode"}
  <2>1. CASE bin = EncodeFileBin
    <3>1. \A l \in Chain("sub_bin", k, EncodeFileBin) :
            l[1][3] \notin {"tee", "tee_rtsp_pre_decode", "tee_rtsp_post_decode"}
      BY ChainOfSeven DEF EncodeFileBin
    <3>2. QED BY <3>1, <2>1, Zenon
  <2>2. CASE bin = UdpsinkBin
    <3>1. \A l \in Chain("sub_bin", k, UdpsinkBin) :
            l[1][3] \notin {"tee", "tee_rtsp_pre_decode", "tee_rtsp_post_decode"}
      BY ChainOfSeven DEF UdpsinkBin
    <3>2. QED BY <3>1, <2>2, Zenon
  <2>3. CASE bin = MsgConvBrokerBin
    <3>1. \A l \in Chain("sub_bin", k, MsgConvBrokerBin) :
            l[1][3] \notin {"tee", "tee_rtsp_pre_decode", "tee_rtsp_post_decode"}
      BY ChainOfThree DEF MsgConvBrokerBin
    <3>2. QED BY <3>1, <2>3, Zenon
  <2>4. CASE bin = RenderBin("egl")
    <3>1. \A l \in Chain("sub_bin", k, RenderBin("egl")) :
            l[1][3] \notin {"tee", "tee_rtsp_pre_decode", "tee_rtsp_post_decode"}
      BY ChainOfThree, ChainOfFour DEF RenderBin
    <3>2. QED BY <3>1, <2>4, Zenon
  <2>5. CASE bin = RenderBin("fake")
    <3>1. \A l \in Chain("sub_bin", k, RenderBin("fake")) :
            l[1][3] \notin {"tee", "tee_rtsp_pre_decode", "tee_rtsp_post_decode"}
      BY ChainOfThree, ChainOfFour DEF RenderBin
    <3>2. QED BY <3>1, <2>5, Zenon
  <2>6. QED BY <1>1, <2>1, <2>2, <2>3, <2>4, <2>5, Zenon
<1>4. SubBinIn(k)[3] = "queue"
  BY <1>2 DEF SubBinIn
<1>5. ASSUME NEW l \in SubBin(k) PROVE Queued(l)
  BY <1>3, Zenon DEF SubBin, Queued, IsTee
<1>6. QED BY <1>4, <1>5

\* Behind the tee of a sink bin are queues.
LEMMA SinkBinsQueue ==
  ASSUME NEW b, NEW i, NEW slots
  PROVE  \A l \in TeeAndSinks(b, i, slots) : Queued(l)
<1>1. ASSUME NEW l \in Chain(b, i, <<"queue", "tee">>) PROVE Queued(l)
  BY <1>1, ChainOfTwo DEF Queued, IsTee
<1>2. ASSUME NEW l \in SubBins(slots) PROVE Queued(l)
  BY <1>2, SinksQueue DEF SubBins
<1>3. ASSUME NEW l \in TeeLinks(b, i, slots) PROVE Queued(l)
  <2>1. PICK k \in slots : l = <<<<b, i, "tee">>, SubBinIn(k)>>
    BY <1>3 DEF TeeLinks
  <2>2. "queue" \in Queues
    BY DEF Queues
  <2>3. QED BY <2>1, <2>2, SinksQueue, IntoQueue
<1>4. QED BY <1>1, <1>2, <1>3, SinkBinParts

\* The on-screen display has no tee.
LEMMA OsdQueues ==
  ASSUME NEW b, NEW i, NEW c
  PROVE  \A l \in Osd(b, i, c) : Queued(l)
<1>1. ASSUME NEW l \in Chain(b, i, OsdBin) PROVE Queued(l)
  BY <1>1, ChainOfFour DEF OsdBin, Queued, IsTee
<1>2. Queued(<<<<b, i, "nvosd">>, <<c, i, "queue">>>>)
  BY NotFromTee
<1>3. QED BY <1>1, <1>2, Zenon DEF Osd

\* Source by source, instance by instance, and the rest.
LEMMA SourceQueues ==
  ASSUME NEW i
  PROVE  \A l \in OfSource(i) : Queued(l)
<1>1. ASSUME NEW l \in CameraSourceBin(i) PROVE Queued(l)
  <2>1. CASE config.sources[i] = "csi"
    BY <1>1, <2>1, ChainOfTwo DEF CameraSourceBin, Queued, IsTee
  <2>2. CASE config.sources[i] # "csi"
    BY <1>1, <2>2, ChainOfFive DEF CameraSourceBin, Queued, IsTee
  <2>3. QED BY <2>1, <2>2
<1>2. ASSUME NEW l \in UriDecodeSrcBin(i) PROVE Queued(l)
  BY <1>2, ChainOfFour, ChainOfThree DEF UriDecodeSrcBin, Queued, IsTee, Queues
<1>3. ASSUME NEW l \in RtspSrcBin(i) PROVE Queued(l)
  <2>1. ASSUME NEW m \in Chain("source", i, <<"tee_rtsp_pre_decode", "dec_que", "decodebin">>) PROVE Queued(m)
    BY <2>1, ChainOfThree DEF Queued, IsTee, Queues
  <2>2. ASSUME NEW m \in Chain("source", i, <<"src_que", "tee_rtsp_post_decode", "nvvidconv", "cap_filter1">>)
        PROVE  Queued(m)
    BY <2>2, ChainOfFour DEF Queued, IsTee, Queues, Onward, TilerTee
  <2>3. QED BY <1>3, <2>1, <2>2 DEF RtspSrcBin
<1>4. ASSUME NEW l \in SourceBin(i) PROVE Queued(l)
  BY <1>1, <1>2, <1>3, <1>4, Zenon DEF SourceBin
<1>5. ASSUME NEW l \in MuxLinks(i) PROVE Queued(l)
  BY <1>5 DEF MuxLinks, SourceOut, Src, MuxPad, Queued, IsTee
<1>6. ASSUME NEW l \in PadLinks(i) PROVE Queued(l)
  <2>1. \A m \in Depayloading(i) : Queued(m)
    BY ChainOfThree DEF Depayloading, Queued, IsTee
  <2>2. Src(i, "src_elem")[3] = "src_elem" /\ Src(i, "decodebin")[3] = "decodebin"
    BY DEF Src
  <2>3. QED BY <1>6, <2>1, <2>2, NotFromTee DEF PadLinks
<1>7. QED BY <1>4, <1>5, <1>6, Zenon DEF OfSource

\* The branches of an instance have queues.
LEMMA InstanceQueues ==
  ASSUME NEW i
  PROVE  \A l \in OfInstance(i) : Queued(l)
<1>1. ASSUME NEW l \in Chain("fallback", i, RenderBin("fake")) PROVE Queued(l)
  BY <1>1, ChainOfThree DEF RenderBin, Queued, IsTee
<1>2. "queue" \in Queues
  BY DEF Queues
<1>3. Queued(<<<<"sink_bin", i, "tee">>, <<"fallback", i, "queue">>>>)
  BY <1>2, IntoQueue
<1>4. (\A l \in Fallback("sink_bin", i) : Queued(l)) /\ \A l \in WithSinks(i) : Queued(l)
  BY <1>1, <1>3, SinkBinsQueue, OsdQueues, Zenon DEF Fallback, WithSinks
<1>5. QED BY <1>4, Zenon DEF OfInstance

\* So have those in front of the tiler.
LEMMA TilerQueues == \A l \in OfTiler : Queued(l)
<1>1. ASSUME NEW l \in Chain("tiled_display", 0, TiledDisplayBin) PROVE Queued(l)
  BY <1>1, ChainOfTwo DEF TiledDisplayBin, Queued, IsTee
<1>2. "queue" \in Queues
  BY DEF Queues
<1>3. Queued(<<<<"tiled_display", 0, "tiler">>, InstanceIn(0)>>)
  BY NotFromTee
<1>4. Queued(<<TilerTee, <<"tiled_display", 0, "queue">>>>)
  BY <1>2, IntoQueue
<1>5. QED BY <1>1, <1>3, <1>4, Zenon DEF OfTiler

\* The demuxer is behind no tee when there is no tiler.
LEMMA DemuxerQueues == \A i : \A l \in OfDemuxer(i) : Queued(l)
BY DEF OfDemuxer, Demuxer, DemuxPad, Queued, IsTee

\* The demuxer in parallel to the tiler is the one branch without a queue.
LEMMA ParallelQueues == \A l \in OfParallel : Queued(l)
<1>1. Queued(<<TilerTee, Demuxer>>)
  BY DEF Queued, Onward
<1>2. ASSUME NEW i \in Indices, NEW l \in {<<Demuxer, DemuxPad(i)>>, <<DemuxPad(i), DemuxIn>>} PROVE Queued(l)
  BY <1>2 DEF Demuxer, DemuxPad, Queued, IsTee
<1>3. ASSUME NEW l \in UNION {{<<Demuxer, DemuxPad(i)>>, <<DemuxPad(i), DemuxIn>>} : i \in Indices} PROVE Queued(l)
  BY <1>2
<1>4. QED BY <1>1, <1>3, SinkBinsQueue, OsdQueues DEF OfParallel

\* The chains of the stages have queues behind their tees.
LEMMA StagesQueue == \A l \in OfStages : Queued(l)
<1>1. ASSUME NEW s \in Stages, NEW l \in Chain(s, 0, StageBin[s]) PROVE Queued(l)
  <2>1. CASE s = "preprocess"
    BY <1>1, <2>1, ChainOfTwo DEF StageBin, PreprocessBin, Queued, IsTee
  <2>2. CASE s = "primary_gie"
    BY <1>1, <2>2, ChainOfThree DEF StageBin, PrimaryGieBin, Queued, IsTee
  <2>3. CASE s = "tracker"
    BY <1>1, <2>3, ChainOfOne DEF StageBin, TrackingBin, Queued, IsTee
  <2>4. CASE s = "analytics"
    BY <1>1, <2>4, ChainOfTwo DEF StageBin, AnalyticsBin, Queued, IsTee
  <2>5. CASE s = "secondary_preprocess"
    BY <1>1, <2>5, ChainOfTwo DEF StageBin, SecondaryPreprocessBin, Queued, IsTee, Queues
  <2>6. CASE s = "secondary_gie"
    BY <1>1, <2>6, ChainOfTwo DEF StageBin, SecondaryGieBin, Queued, IsTee, Queues
  <2>7. QED BY <2>1, <2>2, <2>3, <2>4, <2>5, <2>6 DEF Stages
<1>2. ASSUME NEW s \in Stages, NEW t \in Stages PROVE Queued(<<StageOut(s), StageIn(t)>>)
  <2>1. StageOut(s)[3] \notin {"tee", "tee_rtsp_pre_decode", "tee_rtsp_post_decode"}
    BY StageEnds DEF Stages
  <2>2. QED BY <2>1, NotFromTee
<1>3. ASSUME NEW s \in Stages, NEW l \in OfStage(s) PROVE Queued(l)
  <2>1. StagesAfter(s) \subseteq Stages
    BY DEF StagesAfter, Running
  <2>2. ASSUME NEW t \in StagesAfter(s), l = <<StageOut(s), StageIn(t)>> PROVE Queued(l)
    BY <2>1, <2>2, <1>2
  <2>3. CASE l \in Chain(s, 0, StageBin[s])
    BY <2>3, <1>1
  <2>4. QED BY <1>3, <2>2, <2>3 DEF OfStage
<1>4. QED BY <1>3 DEF OfStages, Running

\* The branches of the common tee have queues, but for the one it leads on to.
LEMMA CommonTeeQueues == \A l \in OfCommonTee \cup OfLast : Queued(l)
<1>1. ASSUME NEW s \in Stages PROVE StageOut(s)[3] \notin {"tee", "tee_rtsp_pre_decode", "tee_rtsp_post_decode"}
  BY StageEnds DEF Stages
<1>2. ASSUME NEW s \in Stages, NEW b PROVE Queued(<<StageOut(s), b>>)
  BY <1>1, NotFromTee
<1>3. ASSUME NEW b PROVE Queued(<<MsgConv, b>>) /\ Queued(<<Mux, b>>)
  BY NotFromTee DEF MsgConv, Mux
<1>4. ASSUME NEW k PROVE Queued(<<StageIn("common_tee"), SubBinIn(k)>>)
  <2>1. "queue" \in Queues
    BY DEF Queues
  <2>2. QED BY <2>1, SinksQueue, IntoQueue
<1>5. Queued(<<StageOut("common_tee"), Final>>)
  BY StageEnds DEF Queued, Onward, TilerTee
<1>6. ASSUME NEW l \in OfCommonTee PROVE Queued(l)
  <2>1. ASSUME NEW s \in Running, l \in ToCommonTee(s) PROVE Queued(l)
    <3>1. s \in Stages
      BY DEF Running
    <3>2. CASE config.msg_conv
      BY <1>2, <1>3, <2>1, <3>1, <3>2 DEF ToCommonTee
    <3>3. CASE ~config.msg_conv
      BY <1>2, <2>1, <3>1, <3>3 DEF ToCommonTee
    <3>4. QED BY <3>2, <3>3
  <2>2. CASE l \in ToBrokers
    BY <1>4, <2>2 DEF ToBrokers
  <2>3. QED BY <1>6, <2>1, <2>2 DEF OfCommonTee
<1>7. ASSUME NEW l \in OfLast PROVE Queued(l)
  BY <1>3, <1>5, Zenon DEF OfLast
<1>8. QED BY <1>6, <1>7

\* So no link that can be lacks a queue, but for the one its tee leads on to.
LEMMA PossibleQueued == \A l \in Possible : Queued(l)
<1>1. \A l \in OfSources \cup OfInstances \cup OfDemuxers : Queued(l)
  BY SourceQueues, InstanceQueues, DemuxerQueues DEF OfSources, OfInstances, OfDemuxers
<1>2. \A l \in OfMode : Queued(l)
  BY <1>1, TilerQueues, ParallelQueues DEF OfMode
<1>3. QED BY <1>1, <1>2, StagesQueue, CommonTeeQueues DEF Possible

\* Links are pairs.
Pairs(S) == \A l \in S : l = <<l[1], l[2]>>

\* Links are pairs of elements: how sets of pairs are put together.
LEMMA PairsOfUnion ==
  /\ \A S, T : Pairs(S) /\ Pairs(T) => Pairs(S \cup T)
  /\ Pairs({})
  /\ \A b, i, elements : Pairs(Chain(b, i, elements))
  /\ \A x, y : Pairs({<<x, y>>})
BY DEF Pairs, Chain

\* The links of a source are pairs.
LEMMA PairsOfSource == \A i : Pairs(OfSource(i))
<1> SUFFICES ASSUME NEW i PROVE Pairs(OfSource(i))
  OBVIOUS
<1>1. Pairs(SourceBin(i))
  <2>1. Pairs(CameraSourceBin(i)) /\ Pairs(UriDecodeSrcBin(i)) /\ Pairs(RtspSrcBin(i))
    BY PairsOfUnion, Zenon DEF CameraSourceBin, UriDecodeSrcBin, RtspSrcBin
  <2>2. QED BY <2>1, Zenon DEF SourceBin
<1>2. Pairs(MuxLinks(i)) /\ Pairs(PadLinks(i))
  <2>1. Pairs(Depayloading(i))
    BY PairsOfUnion DEF Depayloading
  <2>2. Pairs({<<Src(i, "src_elem"), Src(i, "tee")>>})
        /\ Pairs({<<Src(i, "src_elem"), Src(i, "depay")>>, <<Src(i, "decodebin"), Src(i, "src_que")>>})
    BY DEF Pairs
  <2>3. Pairs(PadLinks(i))
    BY <2>1, <2>2, PairsOfUnion, Zenon DEF PadLinks
  <2>4. Pairs(MuxLinks(i))
    BY DEF MuxLinks, Pairs
  <2>5. QED BY <2>3, <2>4
<1>3. QED BY <1>1, <1>2, PairsOfUnion, Zenon DEF OfSource

\* So are those of a sink bin.
LEMMA PairsOfSinkBin ==
  /\ \A b, i, slots : Pairs(TeeAndSinks(b, i, slots))
  /\ \A b, i, c : Pairs(Osd(b, i, c))
<1>1. ASSUME NEW b, NEW i, NEW slots PROVE Pairs(TeeAndSinks(b, i, slots))
  <2>1. Pairs(TeeLinks(b, i, slots))
    BY DEF TeeLinks, Pairs
  <2>2. \A k : Pairs(SubBin(k))
    BY PairsOfUnion, Zenon DEF SubBin
  <2>3. Pairs(SubBins(slots))
    BY <2>2 DEF SubBins, Pairs
  <2>4. Pairs(Chain(b, i, <<"queue", "tee">>) \cup SubBins(slots) \cup TeeLinks(b, i, slots))
    BY <2>1, <2>3, PairsOfUnion, Zenon
  <2>5. QED BY <2>4, SinkBinParts
<1>2. ASSUME NEW b, NEW i, NEW c PROVE Pairs(Osd(b, i, c))
  BY PairsOfUnion, Zenon DEF Osd
<1>3. QED BY <1>1, <1>2

\* So are those of an instance.
LEMMA PairsOfInstance == \A i : Pairs(OfInstance(i))
<1>1. \A i : Pairs(Fallback("sink_bin", i)) /\ Pairs(WithSinks(i))
  BY PairsOfSinkBin, PairsOfUnion, Zenon DEF Fallback, WithSinks
<1>2. QED BY <1>1, PairsOfUnion, Zenon DEF OfInstance

\* So are those of the tiler and the demuxer.
LEMMA PairsOfMode == Pairs(OfMode)
<1>1. Pairs(OfTiler)
  <2>1. Pairs({<<<<"tiled_display", 0, "tiler">>, InstanceIn(0)>>, <<TilerTee, <<"tiled_display", 0, "queue">>>>})
    BY DEF Pairs
  <2>2. QED BY <2>1, PairsOfUnion, Zenon DEF OfTiler
<1>2. Pairs(OfDemuxers)
  BY DEF OfDemuxers, OfDemuxer, Pairs
<1>3. Pairs(OfParallel)
  <2>1. Pairs(UNION {{<<Demuxer, DemuxPad(i)>>, <<DemuxPad(i), DemuxIn>>} : i \in Indices})
    BY DEF Pairs
  <2>2. QED BY <2>1, PairsOfUnion, PairsOfSinkBin, Zenon DEF OfParallel
<1>4. QED BY <1>1, <1>2, <1>3, Zenon DEF OfMode

\* So are those of the stages.
LEMMA PairsOfStages == Pairs(OfStages) /\ Pairs(OfCommonTee) /\ Pairs(OfLast)
<1>1. Pairs(OfStages)
  <2>1. ASSUME NEW s PROVE Pairs(OfStage(s))
    <3>1. Pairs({<<StageOut(s), StageIn(t)>> : t \in StagesAfter(s)})
      BY DEF Pairs
    <3>2. QED BY <3>1, PairsOfUnion, Zenon DEF OfStage
  <2>2. QED BY <2>1 DEF OfStages, Pairs
<1>2. Pairs(OfCommonTee)
  <2>1. Pairs(UNION {ToCommonTee(s) : s \in Running})
    <3>1. \A s : Pairs(ToCommonTee(s))
      BY DEF ToCommonTee, Pairs
    <3>2. QED BY <3>1 DEF Pairs
  <2>2. Pairs(ToBrokers)
    BY DEF ToBrokers, Pairs
  <2>3. QED BY <2>1, <2>2, PairsOfUnion, Zenon DEF OfCommonTee
<1>3. Pairs(OfLast)
  BY DEF OfLast, Pairs
<1>4. QED BY <1>1, <1>2, <1>3

\* So all links that can be are pairs.
LEMMA PossiblePairs == \A l \in Possible : l = <<l[1], l[2]>>
<1>1. Pairs(OfSources) /\ Pairs(OfInstances)
  BY PairsOfSource, PairsOfInstance DEF OfSources, OfInstances, Pairs
<1>2. Pairs(Possible)
  BY <1>1, PairsOfMode, PairsOfStages, PairsOfUnion, Zenon DEF Possible
<1>3. QED BY <1>2 DEF Pairs

\* In every pipeline that is built, two branches of a tee never wait for each other's
\* preroll in one thread (the create_..._bin functions and create_pipeline's links).
THEOREM AlwaysQueued == Spec => []BranchesQueued
<1>1. LinksInv => BranchesQueued
  <2> SUFFICES ASSUME LinksInv,
                      NEW node \in Nodes, node[3] \in {"tee", "tee_rtsp_pre_decode", "tee_rtsp_post_decode"}
               PROVE  Cardinality({link \in links : link[1] = node /\ link[2][3] \notin Queues}) <= 1
    BY Zenon DEF BranchesQueued
  <2> DEFINE unqueued == {link \in links : link[1] = node /\ link[2][3] \notin Queues}
             one == {<<node, Onward(node)>>}
  <2>1. unqueued \subseteq one
    <3> SUFFICES ASSUME NEW l \in unqueued PROVE l = <<node, Onward(node)>>
      BY Zenon
    <3>1. l \in Possible /\ l[1] = node /\ l[2][3] \notin Queues
      BY DEF LinksInv
    <3>2. l[2] = Onward(node)
      BY <3>1, PossibleQueued DEF Queued, IsTee
    <3>3. \A m \in Possible : m = <<m[1], m[2]>>
      BY PossiblePairs
    <3>4. QED BY <3>1, <3>2, <3>3
  <2>2. IsFiniteSet(one) /\ Cardinality(one) = 1
    BY FS_Singleton, Zenon
  <2> HIDE DEF unqueued, one
  <2>3. Cardinality(unqueued) <= 1
    BY <2>1, <2>2, FS_Subset
  <2>4. QED BY <2>3 DEF unqueued
<1>2. QED
  BY <1>1, GraphTypeInit, GraphTypeNext, LinksInit, LinksNext, PTL DEF Spec

-------------------------------------------------------------------------------
(* What is reached *)

\* What is reached by n steps, and what is new of it: one step more.
Wave(near, via) ==
  LET next == {link[2] : link \in {l \in via : l[1] \in near.new}} \ near.all
  IN IF near.new = {} THEN near ELSE [all |-> near.all \cup next, new |-> next]

\* The recursive function of Reach exists and is what its equation says.
LEMMA ReachEquation ==
  ASSUME NEW from, NEW via, Cardinality(Nodes) \in Nat
  PROVE  \E f : /\ f[0] = [all |-> from, new |-> from]
                /\ \A n \in 1..Cardinality(Nodes) : f[n] = Wave(f[n - 1], via)
                /\ Reach(from, via) = f[Cardinality(Nodes)].all
<1> DEFINE N == Cardinality(Nodes)
           Rule(f, n) == IF n = 0 THEN [all |-> from, new |-> from] ELSE Wave(f[n - 1], via)
           Solves(f, m) == f = [n \in 0..m |-> Rule(f, n)]
           S == {m \in Nat : \E f : Solves(f, m)}
<1>0. \A f, g, n : (n # 0 /\ f[n - 1] = g[n - 1]) => Rule(f, n) = Rule(g, n)
  BY Zenon
<1>00. \A f, g : Rule(f, 0) = Rule(g, 0) /\ Rule(f, 0) = [all |-> from, new |-> from]
  OBVIOUS
<1>01. \A f, n : n # 0 => Rule(f, n) = Wave(f[n - 1], via)
  OBVIOUS
<1>1. N \in Nat
  OBVIOUS
<1> HIDE DEF Rule, N
<1>2. 0 \in S
  <2> DEFINE f == [n \in 0..0 |-> Rule(<<>>, 0)]
  <2>1. \A n \in 0..0 : f[n] = Rule(f, n)
    BY <1>00
  <2>2. f = [n \in 0..0 |-> f[n]]
    OBVIOUS
  <2> HIDE DEF f
  <2>3. f = [n \in 0..0 |-> Rule(f, n)]
    BY <2>1, <2>2
  <2>4. QED BY <2>3
<1>3. ASSUME NEW m \in Nat, m \in S PROVE m + 1 \in S
  <2>1. PICK f : Solves(f, m)
    BY <1>3
  <2> DEFINE g == [n \in 0..(m + 1) |-> IF n = m + 1 THEN Rule(f, m + 1) ELSE f[n]]
  <2>2. (\A n \in 0..m : g[n] = f[n]) /\ g[m + 1] = Rule(f, m + 1)
    OBVIOUS
  <2>3. \A n \in 0..m : f[n] = Rule(f, n)
    BY <2>1
  <2>4. g = [n \in 0..(m + 1) |-> g[n]]
    OBVIOUS
  <2> HIDE DEF g
  <2>5. ASSUME NEW n \in 0..(m + 1) PROVE g[n] = Rule(g, n)
    <3>1. CASE n = m + 1
      <4>1. n # 0 /\ n - 1 = m /\ g[m] = f[m]
        BY <2>2, <3>1
      <4>2. Rule(g, n) = Rule(f, n)
        BY <1>0, <4>1
      <4>3. QED BY <2>2, <3>1, <4>2
    <3>2. CASE n = 0
      BY <1>00, <2>2, <2>3, <3>2
    <3>3. CASE n \in 1..m
      <4>1. n # 0 /\ g[n - 1] = f[n - 1] /\ g[n] = f[n] /\ f[n] = Rule(f, n)
        BY <2>2, <2>3, <3>3
      <4>2. Rule(g, n) = Rule(f, n)
        BY <1>0, <4>1
      <4>3. QED BY <4>1, <4>2
    <3>4. QED BY <3>1, <3>2, <3>3
  <2>6. Solves(g, m + 1)
    BY <2>4, <2>5
  <2>7. QED
    <3> HIDE DEF Solves
    <3>1. QED BY <2>6
<1>4. \E f : Solves(f, N)
  <2> HIDE DEF S
  <2>1. N \in S
    BY <1>1, <1>2, <1>3, SetInduction
  <2>2. QED BY <2>1 DEF S
<1> DEFINE r == CHOOSE h : Solves(h, N)
<1>5. Solves(r, N)
  <2> HIDE DEF Solves
  <2>1. QED BY <1>4, Zenon
<1>6. Reach(from, via) = r[N].all
  BY Zenon DEF Reach, Rule, N, Wave
<1> HIDE DEF r
<1>7. \A n \in 0..N : r[n] = Rule(r, n)
  BY <1>5
<1>8. r[0] = [all |-> from, new |-> from]
  BY <1>1, <1>00, <1>7
<1>9. ASSUME NEW n \in 1..N PROVE r[n] = Wave(r[n - 1], via)
  <2>1. n # 0 /\ n \in 0..N
    BY <1>1
  <2>2. QED BY <1>01, <1>7, <2>1
<1>10. QED BY <1>6, <1>8, <1>9 DEF N

\* The nodes of finitely many links.
LEMMA NodesFinite ==
  ASSUME IsFiniteSet(links)
  PROVE  IsFiniteSet(Nodes) /\ Cardinality(Nodes) \in Nat
<1> DEFINE A == {link[1] : link \in links}
           B == {link[2] : link \in links}
           a == [link \in links |-> link[1]]
           b == [link \in links |-> link[2]]
<1>1. a \in Surjection(links, A) /\ b \in Surjection(links, B)
  BY DEF Surjection
<1> HIDE DEF A, B, a, b
<1>2. IsFiniteSet(A) /\ IsFiniteSet(B)
  BY <1>1, FS_Surjection
<1>3. IsFiniteSet(A \cup B)
  BY <1>2, FS_Union
<1>4. QED BY <1>3, FS_CardinalityType DEF Nodes, A, B

\* Whatever a set that the links do not leave has the start of, it has all of.
LEMMA ReachStays ==
  ASSUME IsFiniteSet(links), NEW from, NEW via, NEW C, from \subseteq C,
         \A l \in via : l[1] \in C => l[2] \in C
  PROVE  Reach(from, via) \subseteq C
<1> DEFINE N == Cardinality(Nodes)
<1>1. N \in Nat
  BY NodesFinite
<1>2. PICK f : /\ f[0] = [all |-> from, new |-> from]
               /\ \A n \in 1..N : f[n] = Wave(f[n - 1], via)
               /\ Reach(from, via) = f[N].all
  BY <1>1, ReachEquation
<1> DEFINE Good(n) == f[n].all \subseteq C /\ f[n].new \subseteq C
           S == {n \in Nat : n <= N => Good(n)}
<1> HIDE DEF N
<1>3. 0 \in S
  BY <1>2
<1>4. ASSUME NEW m \in Nat, m \in S PROVE m + 1 \in S
  <2> SUFFICES ASSUME m + 1 <= N PROVE Good(m + 1)
    OBVIOUS
  <2>1. Good(m) /\ f[m + 1] = Wave(f[m], via)
    BY <1>1, <1>2, <1>4
  <2> DEFINE next == {link[2] : link \in {l \in via : l[1] \in f[m].new}} \ f[m].all
  <2>2. next \subseteq C
    BY <2>1
  <2>3. f[m + 1] = IF f[m].new = {} THEN f[m] ELSE [all |-> f[m].all \cup next, new |-> next]
    BY <2>1, Zenon DEF Wave
  <2> HIDE DEF next
  <2>4. QED BY <2>1, <2>2, <2>3
<1>5. N \in S
  <2> HIDE DEF S
  <2>1. QED BY <1>1, <1>3, <1>4, SetInduction
<1>6. QED BY <1>1, <1>2, <1>5

\* What is reached from an element of the graph, nothing leads out of: each step but
\* the last finds an element more, and there are no more than Cardinality(Nodes).
LEMMA ReachCloses ==
  ASSUME IsFiniteSet(links), NEW x \in Nodes, NEW via \in SUBSET links
  PROVE  /\ x \in Reach({x}, via)
         /\ \A l \in via : l[1] \in Reach({x}, via) => l[2] \in Reach({x}, via)
<1> DEFINE N == Cardinality(Nodes)
           Waves(f, from) == /\ f[0] = [all |-> from, new |-> from]
                             /\ \A n \in 1..N : f[n] = Wave(f[n - 1], via)
                             /\ Reach(from, via) = f[N].all
<1>1. N \in Nat /\ IsFiniteSet(Nodes)
  BY NodesFinite
<1>0. \A from : \E f : Waves(f, from)
  BY <1>1, ReachEquation
<1>2. PICK f : /\ f[0] = [all |-> {x}, new |-> {x}]
               /\ \A n \in 1..N : f[n] = Wave(f[n - 1], via)
               /\ Reach({x}, via) = f[N].all
  <2> HIDE DEF N
  <2>1. PICK f : Waves(f, {x})
    <3> HIDE DEF Waves
    <3>1. QED BY <1>0
  <2>2. QED BY <2>1
<1> DEFINE Good(n) == /\ x \in f[n].all /\ f[n].new \subseteq f[n].all /\ f[n].all \subseteq Nodes
                      /\ \A l \in via : l[1] \in f[n].all \ f[n].new => l[2] \in f[n].all
                      /\ f[n].new = {} \/ Cardinality(f[n].all) >= n + 1
           S == {n \in Nat : n <= N => Good(n)}
<1> HIDE DEF N
<1>3. 0 \in S
  <2>1. Cardinality({x}) = 1
    BY FS_Singleton
  <2>2. QED BY <1>2, <2>1
<1>4. ASSUME NEW m \in Nat, m \in S PROVE m + 1 \in S
  <2> SUFFICES ASSUME m + 1 <= N PROVE Good(m + 1)
    OBVIOUS
  <2>1. Good(m) /\ f[m + 1] = Wave(f[m], via)
    BY <1>1, <1>2, <1>4
  <2> DEFINE next == {link[2] : link \in {l \in via : l[1] \in f[m].new}} \ f[m].all
  <2>2. next \subseteq Nodes /\ next \cap f[m].all = {}
    BY DEF Nodes
  <2>3. \A l \in via : l[1] \in f[m].new => l[2] \in f[m].all \cup next
    OBVIOUS
  <2>4. f[m + 1] = IF f[m].new = {} THEN f[m] ELSE [all |-> f[m].all \cup next, new |-> next]
    BY <2>1, Zenon DEF Wave
  <2> HIDE DEF next
  <2>5. CASE f[m].new = {}
    BY <2>1, <2>4, <2>5
  <2>6. CASE f[m].new # {}
    <3>1. f[m + 1].all = f[m].all \cup next /\ f[m + 1].new = next
      BY <2>4, <2>6
    <3>2. \A l \in via : l[1] \in f[m + 1].all \ f[m + 1].new => l[2] \in f[m + 1].all
      BY <2>1, <2>2, <2>3, <3>1
    <3>3. next = {} \/ Cardinality(f[m].all \cup next) >= m + 2
      <4>1. SUFFICES ASSUME NEW y \in next PROVE Cardinality(f[m].all \cup next) >= m + 2
        OBVIOUS
      <4>2. IsFiniteSet(f[m].all) /\ IsFiniteSet(f[m].all \cup next)
        <5>1. f[m].all \subseteq Nodes /\ (f[m].all \cup next) \subseteq Nodes
          BY <2>1, <2>2
        <5>2. QED BY <5>1, <1>1, FS_Subset
      <4>3. y \notin f[m].all /\ (f[m].all \cup {y}) \subseteq (f[m].all \cup next)
        BY <2>2, <4>1
      <4>4. Cardinality(f[m].all \cup {y}) = Cardinality(f[m].all) + 1
        BY <4>2, <4>3, FS_AddElement
      <4>5. Cardinality(f[m].all \cup {y}) <= Cardinality(f[m].all \cup next)
        BY <4>2, <4>3, FS_Subset
      <4>6. Cardinality(f[m].all) >= m + 1 /\ Cardinality(f[m].all) \in Nat
            /\ Cardinality(f[m].all \cup next) \in Nat
        BY <2>1, <2>6, <4>2, FS_CardinalityType
      <4>7. QED BY <4>4, <4>5, <4>6
    <3>4. QED BY <2>1, <2>2, <3>1, <3>2, <3>3
  <2>7. QED BY <2>5, <2>6
<1>5. N \in S
  <2> HIDE DEF S
  <2>1. QED BY <1>1, <1>3, <1>4, SetInduction
<1>6. Good(N)
  BY <1>1, <1>5
<1>7. f[N].new = {}
  <2>1. Cardinality(f[N].all) <= N /\ Cardinality(f[N].all) \in Nat
    <3>1. f[N].all \subseteq Nodes
      BY <1>6
    <3>2. IsFiniteSet(f[N].all) /\ Cardinality(f[N].all) <= N
      BY <1>1, <3>1, FS_Subset DEF N
    <3>3. QED BY <3>2, FS_CardinalityType
  <2>2. QED BY <1>1, <1>6, <2>1
<1>8. QED BY <1>2, <1>6, <1>7

-------------------------------------------------------------------------------
(* The graph is finite *)

\* Finitely many finite sets make a finite one.
LEMMA FamilyFinite ==
  ASSUME NEW S, IsFiniteSet(S), NEW F, \A k \in S : IsFiniteSet(F[k])
  PROVE  IsFiniteSet(UNION {F[k] : k \in S})
<1> DEFINE T == {F[k] : k \in S}
           f == [k \in S |-> F[k]]
<1>1. f \in Surjection(S, T)
  BY DEF Surjection
<1>2. \A s \in T : IsFiniteSet(s)
  OBVIOUS
<1> HIDE DEF T, f
<1>3. IsFiniteSet(T)
  BY <1>1, FS_Surjection
<1>4. IsFiniteSet(UNION T)
  BY <1>2, <1>3, FS_UNION
<1>5. QED BY <1>4 DEF T

\* So do one link for each element of a finite set.
LEMMA ImageFinite ==
  ASSUME NEW S, IsFiniteSet(S), NEW F
  PROVE  IsFiniteSet({F[k] : k \in S})
<1> DEFINE T == {F[k] : k \in S}
           f == [k \in S |-> F[k]]
<1>1. f \in Surjection(S, T)
  BY DEF Surjection
<1> HIDE DEF T, f
<1>2. IsFiniteSet(T)
  BY <1>1, FS_Surjection
<1>3. QED BY <1>2 DEF T

\* A chain has as many links as it has elements but one.
LEMMA ChainFinite ==
  ASSUME NEW bin, NEW i, NEW elements, Len(elements) \in Nat
  PROVE  IsFiniteSet(Chain(bin, i, elements))
<1> DEFINE n == Len(elements) - 1
           F == [k \in 1..n |-> <<<<bin, i, elements[k]>>, <<bin, i, elements[k + 1]>>>>]
<1>1. n \in Int /\ 1 \in Int
  OBVIOUS
<1> HIDE DEF n
<1>2. IsFiniteSet(1..n)
  BY <1>1, FS_Interval
<1>3. IsFiniteSet({F[k] : k \in 1..n})
  <2> HIDE DEF F
  <2>1. QED BY <1>2, ImageFinite
<1>4. {F[k] : k \in 1..n} = Chain(bin, i, elements)
  BY DEF Chain, n
<1>5. QED BY <1>3, <1>4

\* Small sets are finite.
LEMMA FewFinite ==
  /\ IsFiniteSet({})
  /\ \A a : IsFiniteSet({a})
  /\ \A a, b : IsFiniteSet({a, b})
  /\ \A S, T : IsFiniteSet(S) /\ IsFiniteSet(T) => IsFiniteSet(S \cup T)
<1>1. IsFiniteSet({}) /\ \A a : IsFiniteSet({a})
  BY FS_EmptySet, FS_Singleton
<1>2. \A S, T : IsFiniteSet(S) /\ IsFiniteSet(T) => IsFiniteSet(S \cup T)
  BY FS_Union
<1>3. ASSUME NEW a, NEW b PROVE IsFiniteSet({a, b})
  <2>1. IsFiniteSet({a} \cup {b})
    BY <1>1, <1>2
  <2>2. {a, b} = {a} \cup {b}
    OBVIOUS
  <2>3. QED BY <2>1, <2>2
<1>4. QED BY <1>1, <1>2, <1>3

\* Sinks and sources are finitely many.
LEMMA FiniteConfig ==
  ASSUME config \in Configs
  PROVE  /\ IsFiniteSet(Indices) /\ IsFiniteSet(Sources) /\ IsFiniteSet(Instanced)
         /\ \A slots \in SUBSET Sinks : IsFiniteSet(slots)
<1>1. 0 \in Int /\ MaxSources - 1 \in Int
  BY GraphAssumption
<1>2. IsFiniteSet(Indices)
  BY <1>1, FS_Interval DEF Indices
<1>3. Sources \in SUBSET Indices
  BY ConfigFacts
<1>4. IsFiniteSet(Sources)
  BY <1>2, <1>3, FS_Subset
<1>5. IsFiniteSet(Instanced)
  <2>1. Instanced \in SUBSET Sources
    BY ConfigFacts DEF Instanced
  <2>2. QED BY <1>4, <2>1, FS_Subset
<1>6. QED BY <1>2, <1>4, <1>5, SinksFinite

\* The elements of every bin are a sequence.
LEMMA LengthsAre ==
  /\ Len(EncodeFileBin) \in Nat /\ Len(UdpsinkBin) \in Nat /\ Len(MsgConvBrokerBin) \in Nat
  /\ \A type : Len(RenderBin(type)) \in Nat
  /\ Len(OsdBin) \in Nat /\ Len(TiledDisplayBin) \in Nat
  /\ \A s \in Stages : Len(StageBin[s]) \in Nat
<1>1. Len(EncodeFileBin) = 7 /\ Len(UdpsinkBin) = 7 /\ Len(MsgConvBrokerBin) = 3
  BY DEF EncodeFileBin, UdpsinkBin, MsgConvBrokerBin
<1>2. \A type : Len(RenderBin(type)) \in {3, 4}
  BY DEF RenderBin
<1>3. Len(OsdBin) = 4 /\ Len(TiledDisplayBin) = 2
  BY DEF OsdBin, TiledDisplayBin
<1>4. \A s \in Stages : Len(StageBin[s]) \in Nat
  BY DEF Stages, StageBin, PreprocessBin, PrimaryGieBin, TrackingBin, AnalyticsBin, SecondaryPreprocessBin,
     SecondaryGieBin
<1>5. QED BY <1>1, <1>2, <1>3, <1>4

\* The links of a sink bin are finitely many.
LEMMA SinkBinFinite ==
  ASSUME NEW b, NEW i, NEW slots, IsFiniteSet(slots)
  PROVE  IsFiniteSet(TeeAndSinks(b, i, slots))
<1>1. \A k : IsFiniteSet(SubBin(k))
  <2>1. ASSUME NEW k PROVE Len(SubBinElements(k)) \in Nat
    BY LengthsAre, Zenon DEF SubBinElements
  <2>2. QED BY <2>1, ChainFinite DEF SubBin
<1>2. IsFiniteSet(SubBins(slots))
  <2> DEFINE F == [k \in slots |-> SubBin(k)]
  <2>1. \A k \in slots : IsFiniteSet(F[k])
    BY <1>1
  <2>2. {F[k] : k \in slots} = {SubBin(k) : k \in slots}
    OBVIOUS
  <2> HIDE DEF F
  <2>3. IsFiniteSet(UNION {F[k] : k \in slots})
    BY <2>1, FamilyFinite
  <2>4. QED BY <2>2, <2>3 DEF SubBins
<1>3. IsFiniteSet(TeeLinks(b, i, slots))
  <2> DEFINE to == {k \in slots : ~IsBroker(k)}
             F == [k \in to |-> <<<<b, i, "tee">>, SubBinIn(k)>>]
  <2>1. to \in SUBSET slots
    OBVIOUS
  <2>2. IsFiniteSet(to)
    BY <2>1, FS_Subset
  <2>3. {F[k] : k \in to} = TeeLinks(b, i, slots)
    BY DEF TeeLinks
  <2> HIDE DEF F, to
  <2>4. QED BY <2>2, <2>3, ImageFinite
<1>4. IsFiniteSet(Chain(b, i, <<"queue", "tee">>))
  <2>1. Len(<<"queue", "tee">>) \in Nat
    OBVIOUS
  <2>2. QED BY <2>1, ChainFinite
<1>5. QED
  <2>1. IsFiniteSet(Chain(b, i, <<"queue", "tee">>) \cup SubBins(slots))
    BY <1>2, <1>4, FewFinite
  <2>2. IsFiniteSet(Chain(b, i, <<"queue", "tee">>) \cup SubBins(slots) \cup TeeLinks(b, i, slots))
    BY <2>1, <1>3, FewFinite
  <2>3. QED BY <2>2, SinkBinParts

\* So are those of the display on the screen.
LEMMA OsdFinite ==
  ASSUME NEW b, NEW i, NEW c
  PROVE  IsFiniteSet(Osd(b, i, c))
<1>1. IsFiniteSet(Chain(b, i, OsdBin))
  BY LengthsAre, ChainFinite
<1>2. IsFiniteSet({<<<<b, i, "nvosd">>, <<c, i, "queue">>>>})
  BY FewFinite
<1>3. QED BY <1>1, <1>2, FewFinite, Zenon DEF Osd

\* So are those of a source, with its pads.
LEMMA SourceFinite ==
  ASSUME NEW i
  PROVE  IsFiniteSet(OfSource(i))
<1>1. IsFiniteSet(CameraSourceBin(i))
  <2>1. /\ Len(<<"src_elem", "cap_filter">>) \in Nat
        /\ Len(<<"src_elem", "cap_filter1", "nvvidconv1", "nvvidconv2", "cap_filter">>) \in Nat
    OBVIOUS
  <2>2. /\ IsFiniteSet(Chain("source", i, <<"src_elem", "cap_filter">>))
        /\ IsFiniteSet(Chain("source", i, <<"src_elem", "cap_filter1", "nvvidconv1", "nvvidconv2", "cap_filter">>))
    BY <2>1, ChainFinite
  <2>3. QED BY <2>2, Zenon DEF CameraSourceBin
<1>2. IsFiniteSet(UriDecodeSrcBin(i))
  <2>1. /\ Len(<<"tee", "queue", "nvvidconv", "cap_filter1">>) \in Nat
        /\ Len(<<"tee", "fakequeue", "fakesink">>) \in Nat
    OBVIOUS
  <2>2. /\ IsFiniteSet(Chain("source", i, <<"tee", "queue", "nvvidconv", "cap_filter1">>))
        /\ IsFiniteSet(Chain("source", i, <<"tee", "fakequeue", "fakesink">>))
    BY <2>1, ChainFinite
  <2>3. QED BY <2>2, FewFinite DEF UriDecodeSrcBin
<1>3. IsFiniteSet(RtspSrcBin(i))
  <2>1. /\ Len(<<"tee_rtsp_pre_decode", "dec_que", "decodebin">>) \in Nat
        /\ Len(<<"src_que", "tee_rtsp_post_decode", "nvvidconv", "cap_filter1">>) \in Nat
    OBVIOUS
  <2>2. /\ IsFiniteSet(Chain("source", i, <<"tee_rtsp_pre_decode", "dec_que", "decodebin">>))
        /\ IsFiniteSet(Chain("source", i, <<"src_que", "tee_rtsp_post_decode", "nvvidconv", "cap_filter1">>))
    BY <2>1, ChainFinite
  <2>3. QED BY <2>2, FewFinite DEF RtspSrcBin
<1>4. IsFiniteSet(SourceBin(i))
  BY <1>1, <1>2, <1>3, Zenon DEF SourceBin
<1>5. IsFiniteSet(MuxLinks(i))
  BY FewFinite DEF MuxLinks
<1>6. IsFiniteSet(PadLinks(i))
  <2> DEFINE two == {<<Src(i, "src_elem"), Src(i, "depay")>>, <<Src(i, "decodebin"), Src(i, "src_que")>>}
  <2>1. IsFiniteSet(two) /\ IsFiniteSet({<<Src(i, "src_elem"), Src(i, "tee")>>}) /\ IsFiniteSet({})
    BY FewFinite
  <2>2. IsFiniteSet(Depayloading(i))
    <3>1. Len(<<"depay", "parser", "tee_rtsp_pre_decode">>) \in Nat
      OBVIOUS
    <3>2. QED BY <3>1, ChainFinite DEF Depayloading
  <2> HIDE DEF two
  <2>3. IsFiniteSet(Depayloading(i) \cup two)
    BY <2>1, <2>2, FewFinite
  <2>4. QED BY <2>1, <2>3, Zenon DEF PadLinks, two
<1>7. QED
  <2>1. IsFiniteSet(SourceBin(i) \cup MuxLinks(i))
    BY <1>4, <1>5, FewFinite
  <2>2. QED BY <2>1, <1>6, FewFinite DEF OfSource

\* So are those of an instance.
LEMMA InstanceFinite ==
  ASSUME config \in Configs, NEW i
  PROVE  IsFiniteSet(OfInstance(i))
<1>1. SlotsOf(i) \in SUBSET Sinks
  BY DEF SlotsOf
<1>2. IsFiniteSet(TeeAndSinks("sink_bin", i, SlotsOf(i)))
  BY <1>1, FiniteConfig, SinkBinFinite
<1>3. IsFiniteSet(Fallback("sink_bin", i))
  <2>1. IsFiniteSet(Chain("fallback", i, RenderBin("fake")))
    BY LengthsAre, ChainFinite
  <2>2. IsFiniteSet({<<<<"sink_bin", i, "tee">>, <<"fallback", i, "queue">>>>})
    BY FewFinite
  <2>3. QED BY <2>1, <2>2, FewFinite, Zenon DEF Fallback
<1>4. IsFiniteSet(WithSinks(i))
  BY <1>2, OsdFinite, FewFinite DEF WithSinks
<1>5. IsFiniteSet(WithSinks(i) \cup Fallback("sink_bin", i)) /\ WithSinks(i) \cup {} = WithSinks(i)
  BY <1>3, <1>4, FewFinite
<1>6. QED BY <1>4, <1>5, Zenon DEF OfInstance

\* So are those of the tiler and the demuxer.
LEMMA ModeFinite ==
  ASSUME config \in Configs
  PROVE  IsFiniteSet(OfMode)
<1>1. IsFiniteSet(OfTiler)
  <2>1. IsFiniteSet(Chain("tiled_display", 0, TiledDisplayBin))
    BY LengthsAre, ChainFinite
  <2>2. IsFiniteSet({<<<<"tiled_display", 0, "tiler">>, InstanceIn(0)>>, <<TilerTee, <<"tiled_display", 0, "queue">>>>})
    BY FewFinite
  <2>3. QED BY <2>1, <2>2, FewFinite DEF OfTiler
<1>2. IsFiniteSet(OfDemuxers)
  <2> DEFINE F == [i \in Instanced |-> OfDemuxer(i)]
  <2>1. \A i \in Instanced : IsFiniteSet(F[i])
    BY FewFinite DEF OfDemuxer
  <2>2. {F[i] : i \in Instanced} = {OfDemuxer(i) : i \in Instanced}
    OBVIOUS
  <2> HIDE DEF F
  <2>3. IsFiniteSet(UNION {F[i] : i \in Instanced})
    BY <2>1, FiniteConfig, FamilyFinite
  <2>4. QED BY <2>2, <2>3 DEF OfDemuxers
<1>3. IsFiniteSet(OfParallel)
  <2> DEFINE F == [i \in Indices |-> {<<Demuxer, DemuxPad(i)>>, <<DemuxPad(i), DemuxIn>>}]
             G == UNION {{<<Demuxer, DemuxPad(i)>>, <<DemuxPad(i), DemuxIn>>} : i \in Indices}
  <2>1. \A i \in Indices : IsFiniteSet(F[i])
    BY FewFinite
  <2>2. UNION {F[i] : i \in Indices} = G
    OBVIOUS
  <2> HIDE DEF F
  <2>3. IsFiniteSet(G)
    <3>1. IsFiniteSet(UNION {F[i] : i \in Indices})
      BY <2>1, FiniteConfig, FamilyFinite
    <3>2. QED BY <2>2, <3>1
  <2>4. DemuxSlots \in SUBSET Sinks
    BY DEF DemuxSlots
  <2> DEFINE A == TeeAndSinks("demux_sink_bin", 0, DemuxSlots)
             B == Osd("demux_osd", 0, "demux_sink_bin")
             T == {<<TilerTee, Demuxer>>}
  <2>5. IsFiniteSet(A)
    BY <2>4, FiniteConfig, SinkBinFinite
  <2>6. IsFiniteSet(B) /\ IsFiniteSet(T)
    BY OsdFinite, FewFinite
  <2>7. OfParallel = A \cup B \cup T \cup G
    BY Zenon DEF OfParallel
  <2> HIDE DEF A, B, T, G
  <2>8. IsFiniteSet(A \cup B \cup T)
    BY <2>5, <2>6, FewFinite
  <2>9. QED BY <2>3, <2>7, <2>8, FewFinite
<1>4. QED BY <1>1, <1>2, <1>3, Zenon DEF OfMode

\* So are those of the stages and what is behind them.
LEMMA StagesFinite ==
  ASSUME config \in Configs
  PROVE  IsFiniteSet(OfStages) /\ IsFiniteSet(OfCommonTee) /\ IsFiniteSet(OfLast)
<1>1. IsFiniteSet(Stages)
  <2>1. Stages = {"preprocess", "primary_gie"} \cup {"tracker", "analytics"}
                   \cup {"secondary_preprocess", "secondary_gie"}
    BY DEF Stages
  <2>2. IsFiniteSet({"preprocess", "primary_gie"} \cup {"tracker", "analytics"})
    BY FewFinite
  <2>3. IsFiniteSet({"preprocess", "primary_gie"} \cup {"tracker", "analytics"}
                      \cup {"secondary_preprocess", "secondary_gie"})
    BY <2>2, FewFinite
  <2>4. QED BY <2>1, <2>3
<1>2. ASSUME NEW s \in Stages PROVE IsFiniteSet(OfStage(s))
  <2> DEFINE F == [t \in StagesAfter(s) |-> <<StageOut(s), StageIn(t)>>]
  <2>1. StagesAfter(s) \in SUBSET Stages
    BY DEF StagesAfter, Running
  <2>2. IsFiniteSet(StagesAfter(s))
    BY <1>1, <2>1, FS_Subset
  <2>3. {F[t] : t \in StagesAfter(s)} = {<<StageOut(s), StageIn(t)>> : t \in StagesAfter(s)}
    OBVIOUS
  <2> HIDE DEF F
  <2>4. IsFiniteSet({<<StageOut(s), StageIn(t)>> : t \in StagesAfter(s)})
    BY <2>2, <2>3, ImageFinite
  <2>5. IsFiniteSet(Chain(s, 0, StageBin[s]))
    BY LengthsAre, ChainFinite
  <2>6. QED BY <2>4, <2>5, FewFinite DEF OfStage
<1>02. Running \in SUBSET Stages /\ IsFiniteSet(Running)
  <2>1. Running \in SUBSET Stages
    BY DEF Running
  <2>2. QED BY <1>1, <2>1, FS_Subset
<1>3. IsFiniteSet(OfStages)
  <2> DEFINE F == [s \in Running |-> OfStage(s)]
  <2>1. \A s \in Running : IsFiniteSet(F[s])
    BY <1>2, <1>02
  <2>2. {F[s] : s \in Running} = {OfStage(s) : s \in Running}
    OBVIOUS
  <2> HIDE DEF F
  <2>3. IsFiniteSet(UNION {F[s] : s \in Running})
    BY <1>02, <2>1, FamilyFinite
  <2>4. QED BY <2>2, <2>3 DEF OfStages
<1>4. IsFiniteSet(OfCommonTee)
  <2> DEFINE F == [s \in Running |-> ToCommonTee(s)]
             G == [k \in Brokers |-> <<StageIn("common_tee"), SubBinIn(k)>>]
             A == UNION {ToCommonTee(s) : s \in Running}
  <2>1. \A s \in Running : IsFiniteSet(F[s])
    <3>1. \A s : IsFiniteSet(ToCommonTee(s))
      BY FewFinite, Zenon DEF ToCommonTee
    <3>2. QED BY <3>1
  <2>2. {F[s] : s \in Running} = {ToCommonTee(s) : s \in Running}
    OBVIOUS
  <2>3. {G[k] : k \in Brokers} = ToBrokers
    BY DEF ToBrokers
  <2>4. Brokers \in SUBSET Sinks
    BY DEF Brokers
  <2> HIDE DEF F, G
  <2>5. IsFiniteSet(A)
    <3>1. IsFiniteSet(UNION {F[s] : s \in Running})
      BY <1>02, <2>1, FamilyFinite
    <3>2. QED BY <2>2, <3>1
  <2>6. IsFiniteSet(ToBrokers)
    BY <2>3, <2>4, FiniteConfig, ImageFinite
  <2>7. OfCommonTee = A \cup ToBrokers
    BY Zenon DEF OfCommonTee
  <2> HIDE DEF A
  <2>8. QED BY <2>5, <2>6, <2>7, FewFinite
<1>5. IsFiniteSet(OfLast)
  <2> DEFINE F == [s \in Running |-> <<Mux, StageIn(s)>>]
             A == {<<Mux, StageIn(s)>> : s \in Running}
             B == {<<Mux, Final>>, <<StageOut("common_tee"), Final>>}
  <2>1. {F[s] : s \in Running} = A
    OBVIOUS
  <2>2. OfLast = B \cup A
    BY DEF OfLast
  <2>3. IsFiniteSet(B)
    BY FewFinite
  <2> HIDE DEF F, A, B
  <2>4. IsFiniteSet(A)
    BY <1>02, <2>1, ImageFinite
  <2>5. QED BY <2>2, <2>3, <2>4, FewFinite
<1>6. QED BY <1>3, <1>4, <1>5

\* So the links that can be are finitely many.
LEMMA PossibleFinite ==
  ASSUME config \in Configs
  PROVE  IsFiniteSet(Possible)
<1>1. IsFiniteSet(OfSources)
  <2> DEFINE F == [i \in Sources |-> OfSource(i)]
  <2>1. \A i \in Sources : IsFiniteSet(F[i])
    BY SourceFinite
  <2>2. {F[i] : i \in Sources} = {OfSource(i) : i \in Sources}
    OBVIOUS
  <2> HIDE DEF F
  <2>3. IsFiniteSet(UNION {F[i] : i \in Sources})
    BY <2>1, FiniteConfig, FamilyFinite
  <2>4. QED BY <2>2, <2>3 DEF OfSources
<1>2. IsFiniteSet(OfInstances)
  <2> DEFINE F == [i \in Instanced |-> OfInstance(i)]
  <2>1. \A i \in Instanced : IsFiniteSet(F[i])
    BY InstanceFinite
  <2>2. {F[i] : i \in Instanced} = {OfInstance(i) : i \in Instanced}
    OBVIOUS
  <2> HIDE DEF F
  <2>3. IsFiniteSet(UNION {F[i] : i \in Instanced})
    BY <2>1, FiniteConfig, FamilyFinite
  <2>4. QED BY <2>2, <2>3 DEF OfInstances
<1>3. IsFiniteSet(OfSources \cup OfInstances \cup OfMode)
  <2>1. IsFiniteSet(OfSources \cup OfInstances)
    BY <1>1, <1>2, FewFinite
  <2>2. QED BY <2>1, ModeFinite, FewFinite
<1>4. IsFiniteSet(OfSources \cup OfInstances \cup OfMode \cup OfStages \cup OfCommonTee)
  <2>1. IsFiniteSet(OfSources \cup OfInstances \cup OfMode \cup OfStages)
    BY <1>3, StagesFinite, FewFinite
  <2>2. QED BY <2>1, StagesFinite, FewFinite
<1>5. QED BY <1>4, StagesFinite, FewFinite DEF Possible

-------------------------------------------------------------------------------
(* The order of the stages *)

\* How far along the frames' way a bin is: the sources and the muxer, the stages by
\* their places, and what comes after them.
Rank(bin) == IF bin \in {"source", "mux"} THEN 0 ELSE IF bin \in Stages THEN Place[bin] ELSE 7
Climbs(S) == \A l \in S : Rank(l[1][1]) <= Rank(l[2][1])

Behind ==
  {"sink_bin", "sub_bin", "fallback", "osd", "tiled_display", "tiler_tee", "demuxer", "demux_osd",
   "demux_sink_bin", "msg_conv", "common_tee"}

\* Ranks are naturals, the least those of the sources, the greatest those behind the stages.
LEMMA Ranks ==
  /\ \A bin : Rank(bin) \in 0..7
  /\ Rank("source") = 0 /\ Rank("mux") = 0
  /\ \A s \in Stages : Rank(s) = Place[s] /\ s \notin {"source", "mux"} /\ s \notin Behind
  /\ \A bin \in Behind : Rank(bin) = 7
<1>1. \A s \in Stages : s \notin {"source", "mux"} /\ s \notin Behind
  BY DEF Stages, Behind
<1>2. \A s \in Stages : Place[s] \in 0..7
  BY Places
<1>3. ASSUME NEW bin PROVE Rank(bin) \in 0..7
  BY <1>2 DEF Rank
<1>4. Rank("source") = 0 /\ Rank("mux") = 0
  BY DEF Rank
<1>5. \A s \in Stages : Rank(s) = Place[s]
  BY <1>1, Zenon DEF Rank
<1>6. \A bin \in Behind : bin \notin {"source", "mux"}
  BY DEF Behind
<1>7. \A bin \in Behind : Rank(bin) = 7
  BY <1>1, <1>6 DEF Rank
<1>8. QED BY <1>1, <1>3, <1>4, <1>5, <1>7

\* Links that start at a source or end behind the stages do not lead back.
LEMMA ClimbsAtEnds ==
  /\ \A a, b : a[1] \in {"source", "mux"} \/ b[1] \in Behind => Climbs({<<a, b>>})
  /\ \A S, T : Climbs(S) /\ Climbs(T) => Climbs(S \cup T)
  /\ Climbs({})
  /\ \A b \in Behind \cup {"source"} : \A i, elements : Climbs(Chain(b, i, elements))
<1>1. ASSUME NEW a, NEW b, a[1] \in {"source", "mux"} \/ b[1] \in Behind PROVE Climbs({<<a, b>>})
  <2>1. Rank(a[1]) \in 0..7 /\ Rank(b[1]) \in 0..7 /\ (Rank(a[1]) = 0 \/ Rank(b[1]) = 7)
    BY <1>1, Ranks
  <2>2. Rank(a[1]) <= Rank(b[1])
    BY <2>1
  <2>3. QED BY <2>2 DEF Climbs
<1>2. (\A S, T : Climbs(S) /\ Climbs(T) => Climbs(S \cup T)) /\ Climbs({})
  BY DEF Climbs
<1>3. ASSUME NEW b \in Behind \cup {"source"}, NEW i, NEW elements PROVE Climbs(Chain(b, i, elements))
  <2>1. \A l \in Chain(b, i, elements) : l[1][1] = b /\ l[2][1] = b
    BY DEF Chain
  <2>2. Rank(b) <= Rank(b)
    BY Ranks
  <2>3. QED BY <2>1, <2>2 DEF Climbs
<1>4. QED BY <1>1, <1>2, <1>3

\* No link of a source leads back.
LEMMA SourceClimbs == \A i : Climbs(OfSource(i))
<1> SUFFICES ASSUME NEW i PROVE Climbs(OfSource(i))
  OBVIOUS
<1>1. "source" \in Behind \cup {"source"}
  OBVIOUS
<1>2. Climbs(SourceBin(i))
  <2>1. Climbs(CameraSourceBin(i)) /\ Climbs(UriDecodeSrcBin(i)) /\ Climbs(RtspSrcBin(i))
    BY <1>1, ClimbsAtEnds, Zenon DEF CameraSourceBin, UriDecodeSrcBin, RtspSrcBin
  <2>2. QED BY <2>1, Zenon DEF SourceBin
<1>3. \A l \in MuxLinks(i) \cup PadLinks(i) : l[1][1] \in {"source", "mux"}
  <2>1. \A l \in MuxLinks(i) : l[1][1] \in {"source", "mux"}
    BY DEF MuxLinks, SourceOut, Src, MuxPad
  <2>2. \A l \in PadLinks(i) : l[1][1] = "source"
    BY SourceLinks DEF PadLinks, Src
  <2>3. QED BY <2>1, <2>2
<1>4. Climbs(MuxLinks(i) \cup PadLinks(i))
  <2>1. \A l \in MuxLinks(i) \cup PadLinks(i) : Rank(l[1][1]) = 0 /\ Rank(l[2][1]) \in 0..7
    BY <1>3, Ranks
  <2>2. QED BY <2>1 DEF Climbs
<1>5. Climbs(SourceBin(i) \cup (MuxLinks(i) \cup PadLinks(i)))
  BY <1>2, <1>4, ClimbsAtEnds
<1>6. OfSource(i) = SourceBin(i) \cup (MuxLinks(i) \cup PadLinks(i))
  BY DEF OfSource
<1>7. QED BY <1>5, <1>6

\* No link of a sink bin or of the display in front of it does.
LEMMA SinkBinClimbs ==
  /\ \A b \in Behind : \A i, slots : Climbs(TeeAndSinks(b, i, slots))
  /\ \A b \in Behind : \A i : \A c \in Behind : Climbs(Osd(b, i, c))
<1>1. "sub_bin" \in Behind
  BY DEF Behind
<1>2. ASSUME NEW b \in Behind, NEW i, NEW slots PROVE Climbs(TeeAndSinks(b, i, slots))
  <2>1. \A k \in slots : Climbs(SubBin(k))
    BY <1>1, ClimbsAtEnds, Zenon DEF SubBin
  <2>2. Climbs(SubBins(slots))
    BY <2>1 DEF SubBins, Climbs
  <2>3. \A l \in TeeLinks(b, i, slots) : l[2][1] = "sub_bin"
    BY DEF TeeLinks, SubBinIn
  <2>4. Climbs(TeeLinks(b, i, slots))
    <3>1. \A l \in TeeLinks(b, i, slots) : Rank(l[2][1]) = 7 /\ Rank(l[1][1]) \in 0..7
      BY <2>3, <1>1, Ranks
    <3>2. QED BY <3>1 DEF Climbs
  <2>5. Climbs(Chain(b, i, <<"queue", "tee">>) \cup SubBins(slots))
    BY <2>2, ClimbsAtEnds
  <2>6. Climbs(Chain(b, i, <<"queue", "tee">>) \cup SubBins(slots) \cup TeeLinks(b, i, slots))
    BY <2>4, <2>5, ClimbsAtEnds
  <2>7. QED BY <2>6, SinkBinParts
<1>3. ASSUME NEW b \in Behind, NEW i, NEW c \in Behind PROVE Climbs(Osd(b, i, c))
  <2>1. Climbs(Chain(b, i, OsdBin))
    BY ClimbsAtEnds
  <2>2. Climbs({<<<<b, i, "nvosd">>, <<c, i, "queue">>>>})
    BY ClimbsAtEnds
  <2>3. QED BY <2>1, <2>2, ClimbsAtEnds, Zenon DEF Osd
<1>4. QED BY <1>2, <1>3

\* No link of an instance does.
LEMMA InstanceClimbs == \A i : Climbs(OfInstance(i))
<1> SUFFICES ASSUME NEW i PROVE Climbs(OfInstance(i))
  OBVIOUS
<1>1. {"sink_bin", "osd", "fallback"} \subseteq Behind
  BY DEF Behind
<1>2. Climbs(TeeAndSinks("sink_bin", i, SlotsOf(i))) /\ Climbs(Osd("osd", i, "sink_bin"))
  BY <1>1, SinkBinClimbs
<1>3. Climbs(Fallback("sink_bin", i))
  <2>1. Climbs(Chain("fallback", i, RenderBin("fake")))
    BY <1>1, ClimbsAtEnds
  <2>2. Climbs({<<<<"sink_bin", i, "tee">>, <<"fallback", i, "queue">>>>})
    BY <1>1, ClimbsAtEnds
  <2>3. QED BY <2>1, <2>2, ClimbsAtEnds, Zenon DEF Fallback
<1>4. Climbs(WithSinks(i))
  BY <1>2, ClimbsAtEnds DEF WithSinks
<1>5. Climbs({})
  BY ClimbsAtEnds
<1>6. Climbs(WithSinks(i) \cup Fallback("sink_bin", i)) /\ Climbs(WithSinks(i) \cup {})
  BY <1>3, <1>4, <1>5, ClimbsAtEnds
<1>7. QED BY <1>6, Zenon DEF OfInstance

\* No link of the tiler or the demuxer does.
LEMMA ModeClimbs == Climbs(OfMode)
<1>1. {"sink_bin", "osd", "tiled_display", "tiler_tee", "demuxer", "demux_osd", "demux_sink_bin"} \subseteq Behind
  BY DEF Behind
<1>2. \A i : InstanceIn(i)[1] \in Behind /\ DemuxPad(i)[1] \in Behind
  BY <1>1 DEF InstanceIn, DemuxPad
<1>3. Climbs(OfTiler)
  <2>1. Climbs(Chain("tiled_display", 0, TiledDisplayBin))
    BY <1>1, ClimbsAtEnds
  <2> DEFINE p == <<<<"tiled_display", 0, "tiler">>, InstanceIn(0)>>
             q == <<TilerTee, <<"tiled_display", 0, "queue">>>>
  <2>2. Climbs({p}) /\ Climbs({q})
    BY <1>1, <1>2, ClimbsAtEnds
  <2>3. OfTiler = Chain("tiled_display", 0, TiledDisplayBin) \cup {p, q}
    BY Zenon DEF OfTiler
  <2> HIDE DEF p, q
  <2>4. Climbs({p, q})
    BY <2>2 DEF Climbs
  <2>5. QED BY <2>1, <2>3, <2>4, ClimbsAtEnds
<1>4. \A i : \A a, b : b[1] \in Behind => Climbs({<<a, DemuxPad(i)>>, <<DemuxPad(i), b>>})
  <2> SUFFICES ASSUME NEW i, NEW a, NEW b, b[1] \in Behind PROVE Climbs({<<a, DemuxPad(i)>>, <<DemuxPad(i), b>>})
    OBVIOUS
  <2> DEFINE p == <<a, DemuxPad(i)>>
             q == <<DemuxPad(i), b>>
  <2>1. Climbs({p}) /\ Climbs({q})
    BY <1>2, ClimbsAtEnds
  <2> HIDE DEF p, q
  <2>2. Climbs({p, q})
    BY <2>1 DEF Climbs
  <2>3. QED BY <2>2 DEF p, q
<1>5. Climbs(OfDemuxers)
  <2>1. \A i : Climbs(OfDemuxer(i))
    BY <1>2, <1>4, Zenon DEF OfDemuxer
  <2>2. QED BY <2>1 DEF OfDemuxers, Climbs
<1>6. Climbs(OfParallel)
  <2> DEFINE F(i) == {<<Demuxer, DemuxPad(i)>>, <<DemuxPad(i), DemuxIn>>}
             G == UNION {F(i) : i \in Indices}
             A == TeeAndSinks("demux_sink_bin", 0, DemuxSlots) \cup Osd("demux_osd", 0, "demux_sink_bin")
             T == {<<TilerTee, Demuxer>>}
  <2>1. DemuxIn[1] \in Behind
    BY <1>1 DEF DemuxIn
  <2>2. \A i : Climbs(F(i))
    BY <2>1, <1>4
  <2>3. OfParallel = A \cup T \cup G
    BY Zenon DEF OfParallel
  <2>4. Climbs(A)
    BY <1>1, SinkBinClimbs, ClimbsAtEnds
  <2>5. Climbs(T)
    <3>1. Demuxer[1] \in Behind
      BY <1>1 DEF Demuxer
    <3>2. QED BY <3>1, ClimbsAtEnds
  <2>6. Climbs(G)
    <3> HIDE DEF F
    <3>1. QED BY <2>2 DEF Climbs
  <2> HIDE DEF G, A, T
  <2>7. Climbs(A \cup T)
    BY <2>4, <2>5, ClimbsAtEnds
  <2>8. QED BY <2>3, <2>6, <2>7, ClimbsAtEnds
<1>7. QED BY <1>3, <1>5, <1>6, Zenon DEF OfMode

\* A stage's elements are all in its bin.
LEMMA StageBins ==
  /\ \A s \in Stages \cup {"common_tee"} : StageIn(s)[1] = s /\ StageOut(s)[1] = s
  /\ StageIn("common_tee")[1] \in Behind /\ Mux[1] = "mux" /\ MsgConv[1] \in Behind /\ Final[1] \in Behind
<1>1. \A s \in Stages \cup {"common_tee"} : StageIn(s)[1] = s /\ StageOut(s)[1] = s
  BY StageEnds DEF Stages
<1>2. Mux[1] = "mux" /\ MsgConv[1] \in Behind /\ Final[1] \in Behind
  BY DEF Mux, MsgConv, Final, TilerTee, Demuxer, Behind
<1>3. "common_tee" \in Behind
  BY DEF Behind
<1>4. QED BY <1>1, <1>2, <1>3

\* No link of a stage, of the common tee or of the last ones leads back.
LEMMA StagesClimb == Climbs(OfStages) /\ Climbs(OfCommonTee) /\ Climbs(OfLast)
<1>1. ASSUME NEW s \in Stages PROVE Climbs(OfStage(s))
  <2>1. Climbs(Chain(s, 0, StageBin[s]))
    <3>1. \A l \in Chain(s, 0, StageBin[s]) : l[1][1] = s /\ l[2][1] = s
      BY DEF Chain
    <3>2. Rank(s) <= Rank(s)
      BY Ranks
    <3>3. QED BY <3>1, <3>2 DEF Climbs
  <2> DEFINE T == {<<StageOut(s), StageIn(t)>> : t \in StagesAfter(s)}
  <2>2. Climbs(T)
    <3> SUFFICES ASSUME NEW l \in T PROVE Rank(l[1][1]) <= Rank(l[2][1])
      BY DEF Climbs
    <3>1. PICK t \in StagesAfter(s) : l = <<StageOut(s), StageIn(t)>>
      OBVIOUS
    <3>2. t \in Stages /\ Place[s] < Place[t]
      BY DEF StagesAfter, Running
    <3>3. l[1][1] = s /\ l[2][1] = t
      BY <3>1, <3>2, StageBins
    <3>4. QED BY <3>2, <3>3, Ranks, Places
  <2> HIDE DEF T
  <2>3. Climbs(Chain(s, 0, StageBin[s]) \cup T)
    BY <2>1, <2>2, ClimbsAtEnds
  <2>4. QED BY <2>3 DEF OfStage, T
<1>2. Climbs(OfStages)
  BY <1>1 DEF OfStages, Climbs, Running
<1>3. Climbs(OfCommonTee)
  <2>1. \A l \in OfCommonTee : l[2][1] \in Behind
    <3>1. ASSUME NEW l \in ToBrokers PROVE l[2][1] \in Behind
      BY DEF ToBrokers, SubBinIn, Behind
    <3>2. ASSUME NEW s, NEW l \in ToCommonTee(s) PROVE l[2][1] \in Behind
      BY StageBins DEF ToCommonTee
    <3>3. QED BY <3>1, <3>2, StageBins DEF OfCommonTee
  <2>2. \A l \in OfCommonTee : Rank(l[2][1]) = 7 /\ Rank(l[1][1]) \in 0..7
    BY <2>1, Ranks
  <2>3. QED BY <2>2 DEF Climbs
<1>4. Climbs(OfLast)
  <2>1. ASSUME NEW l \in OfLast PROVE l[1][1] = "mux" \/ l[2][1] \in Behind
    BY StageBins DEF OfLast
  <2>2. \A l \in OfLast : Rank(l[1][1]) \in 0..7 /\ Rank(l[2][1]) \in 0..7
                           /\ (Rank(l[1][1]) = 0 \/ Rank(l[2][1]) = 7)
    BY <2>1, Ranks
  <2>3. QED BY <2>2 DEF Climbs
<1>5. QED BY <1>2, <1>3, <1>4

\* So no link that can be leads back.
LEMMA PossibleClimbs == Climbs(Possible)
<1>1. Climbs(OfSources) /\ Climbs(OfInstances)
  BY SourceClimbs, InstanceClimbs DEF OfSources, OfInstances, Climbs
<1>2. Climbs(OfSources \cup OfInstances \cup OfMode)
  BY <1>1, ModeClimbs, ClimbsAtEnds
<1>3. Climbs(OfSources \cup OfInstances \cup OfMode \cup OfStages \cup OfCommonTee)
  BY <1>2, StagesClimb, ClimbsAtEnds
<1>4. QED BY <1>3, StagesClimb, ClimbsAtEnds DEF Possible

\* What leads from x to y: a set that has x, and that no link of a stage or of the
\* message converter leaves, has y.
Ahead == Stages \cup {"msg_conv"}
Keeps(C, some) == \A l \in some : l[1][1] \in Ahead /\ l[1] \in C => l[2] \in C
Leads(x, y, some) == \A C : x \in C /\ Keeps(C, some) => y \in C

\* It leads on, by more links as well, and a link is enough.
LEMMA LeadsOn ==
  /\ \A x, some : Leads(x, x, some)
  /\ \A x, y, z, some : Leads(x, y, some) /\ Leads(y, z, some) => Leads(x, z, some)
  /\ \A x, y, some, more : Leads(x, y, some) /\ some \subseteq more => Leads(x, y, more)
  /\ \A x, y, some : <<x, y>> \in some /\ x[1] \in Ahead => Leads(x, y, some)
<1>1. ASSUME NEW x, NEW y, NEW some, NEW more, Leads(x, y, some), some \subseteq more PROVE Leads(x, y, more)
  <2>1. \A C : Keeps(C, more) => Keeps(C, some)
    BY <1>1 DEF Keeps
  <2>2. QED BY <2>1, <1>1, Zenon DEF Leads
<1>2. ASSUME NEW x, NEW y, NEW some, <<x, y>> \in some, x[1] \in Ahead PROVE Leads(x, y, some)
  BY <1>2 DEF Leads, Keeps
<1>3. (\A x, some : Leads(x, x, some))
      /\ \A x, y, z, some : Leads(x, y, some) /\ Leads(y, z, some) => Leads(x, z, some)
  BY Zenon DEF Leads
<1>4. QED BY <1>1, <1>2, <1>3

\* Each stage leads from its first element to its last.
LEMMA ThroughStage ==
  ASSUME NEW s \in Stages
  PROVE  Leads(StageIn(s), StageOut(s), Chain(s, 0, StageBin[s]))
<1> DEFINE At(e) == <<s, 0, e>>
<1>1. \A e : At(e)[1] \in Ahead
  BY DEF Ahead
<1>2. CASE s = "tracker"
  BY <1>2, StageEnds, LeadsOn
<1>3. ASSUME NEW a, NEW b, StageBin[s] = <<a, b>> PROVE Leads(StageIn(s), StageOut(s), Chain(s, 0, StageBin[s]))
  <2>1. StageIn(s) = At(a) /\ StageOut(s) = At(b)
    BY <1>3 DEF StageIn, StageOut
  <2>2. <<At(a), At(b)>> \in Chain(s, 0, StageBin[s])
    BY <1>3, ChainOfTwo
  <2> HIDE DEF At
  <2>3. QED BY <1>1, <2>1, <2>2, LeadsOn
<1>4. CASE s = "primary_gie"
  <2>1. StageBin[s] = <<"queue", "nvvidconv", "gie">>
    BY <1>4 DEF StageBin, PrimaryGieBin
  <2>2. StageIn(s) = At("queue") /\ StageOut(s) = At("gie")
    BY <2>1 DEF StageIn, StageOut
  <2>3. /\ <<At("queue"), At("nvvidconv")>> \in Chain(s, 0, StageBin[s])
        /\ <<At("nvvidconv"), At("gie")>> \in Chain(s, 0, StageBin[s])
    BY <2>1, ChainOfThree
  <2> HIDE DEF At
  <2>4. /\ Leads(At("queue"), At("nvvidconv"), Chain(s, 0, StageBin[s]))
        /\ Leads(At("nvvidconv"), At("gie"), Chain(s, 0, StageBin[s]))
    BY <1>1, <2>3, LeadsOn
  <2>5. QED BY <2>2, <2>4, LeadsOn
<1>5. CASE s \in {"preprocess", "analytics", "secondary_preprocess", "secondary_gie"}
  <2>1. StageBin[s] \in {<<"queue", "preprocess">>, <<"queue", "analytics_elem">>, <<"tee", "queue">>}
    BY <1>5 DEF StageBin, PreprocessBin, AnalyticsBin, SecondaryPreprocessBin, SecondaryGieBin
  <2>2. QED BY <1>3, <2>1
<1>6. QED BY <1>2, <1>4, <1>5 DEF Stages

\* The stages that are created, by their numbers in the order of creation.
Passed == {n \in 1..6 : Enabled(CreationOrder[n])}
In(n) == StageIn(CreationOrder[n])

\* Of the stages created before the st-th, each leads to those created before it, the
\* last one (up) to all, and all to the first one (down).
Laid(on, st, up, down, some) ==
  /\ \A m, n \in on : m < n /\ n < st => Leads(In(n), In(m), some)
  /\ \A n \in on : n < st =>
       up \in Stages /\ Leads(StageIn(up), In(n), some) /\ Leads(In(n), StageIn(down), some)
  /\ up \in Stages => down \in Stages /\ Leads(StageIn(up), StageIn(down), some)
                                      /\ Leads(StageIn(down), StageOut(down), some)

\* With the common tee, each stage leads to those before it and to the tee.
Joined(on, some) ==
  /\ \A m, n \in on : m < n => Leads(In(n), In(m), some)
  /\ \A n \in on : Leads(In(n), StageIn("common_tee"), some)

OrderInv ==
  /\ phase = "common" => Laid(Passed, step, upstream, downstream, links)
  /\ phase \in {"broker", "last", "built"} => Joined(Passed, links)

\* More links leave what is laid and what is joined as they are.
LEMMA MoreLinks ==
  ASSUME NEW some, NEW more,
         \A x, y : Leads(x, y, some) => Leads(x, y, more)
  PROVE  /\ \A on, st, up, down : Laid(on, st, up, down, some) => Laid(on, st, up, down, more)
         /\ \A on : Joined(on, some) => Joined(on, more)
<1>1. ASSUME NEW on, NEW st, NEW up, NEW down, Laid(on, st, up, down, some) PROVE Laid(on, st, up, down, more)
  BY <1>1, Zenon DEF Laid
<1>2. ASSUME NEW on, Joined(on, some) PROVE Joined(on, more)
  BY <1>2, Zenon DEF Joined
<1>3. QED BY <1>1, <1>2

\* A stage is put before those that are laid.
LEMMA LayStage ==
  ASSUME NEW on \in SUBSET (1..6), NEW st \in on, NEW up \in Stages \cup {NoStage}, NEW down,
         NEW some, NEW more, some \subseteq more,
         Laid(on, st, up, down, some),
         Chain(CreationOrder[st], 0, StageBin[CreationOrder[st]]) \subseteq more,
         up # NoStage => <<StageOut(CreationOrder[st]), StageIn(up)>> \in more,
         up = NoStage <=> down = NoStage
  PROVE  Laid(on, st + 1, CreationOrder[st], IF down = NoStage THEN CreationOrder[st] ELSE down, more)
<1> DEFINE s == CreationOrder[st]
<1>1. s \in Stages /\ st \in Nat /\ NoStage \notin Stages
  BY Places DEF NoStage, Stages
<1>2. Laid(on, st, up, down, more)
  <2>1. \A x, y : Leads(x, y, some) => Leads(x, y, more)
    BY LeadsOn
  <2>2. QED BY <2>1, MoreLinks
<1>3. Leads(StageIn(s), StageOut(s), more)
  <2>1. Leads(StageIn(s), StageOut(s), Chain(s, 0, StageBin[s]))
    BY <1>1, ThroughStage
  <2> HIDE DEF s
  <2>2. QED BY <2>1, LeadsOn DEF s
<1>4. In(st) = StageIn(s)
  BY DEF In
<1>5. \A n \in on : n < st + 1 <=> n < st \/ n = st
  BY <1>1
<1> HIDE DEF s
<1>6. CASE up = NoStage
  <2>1. \A n \in on : ~(n < st)
    BY <1>1, <1>2, <1>6, Zenon DEF Laid
  <2>2. \A m, n \in on : ~(m < n /\ n < st + 1)
    BY <1>1, <2>1
  <2>3. \A n \in on : n < st + 1 => In(n) = StageIn(s)
    BY <1>4, <1>5, <2>1
  <2>4. Laid(on, st + 1, s, s, more)
    <3>1. Leads(StageIn(s), StageIn(s), more)
      BY LeadsOn
    <3>2. \A n \in on : n < st + 1 =>
            s \in Stages /\ Leads(StageIn(s), In(n), more) /\ Leads(In(n), StageIn(s), more)
      BY <1>1, <2>3, <3>1
    <3>3. QED BY <1>1, <1>3, <2>2, <3>1, <3>2, Zenon DEF Laid
  <2>5. QED BY <1>6, <2>4, Zenon DEF s
<1>7. CASE up # NoStage
  <2>1. up \in Stages /\ down \in Stages /\ down # NoStage
    BY <1>1, <1>2, <1>7, Zenon DEF Laid
  <2>2. Leads(StageIn(s), StageIn(up), more)
    <3>1. StageOut(s)[1] \in Ahead
      BY <1>1, StageBins DEF Ahead
    <3>2. Leads(StageOut(s), StageIn(up), more)
      BY <1>7, <3>1, LeadsOn DEF s
    <3>3. QED BY <1>3, <3>2, LeadsOn
  <2>3. /\ \A n \in on : n < st => Leads(StageIn(up), In(n), more) /\ Leads(In(n), StageIn(down), more)
        /\ Leads(StageIn(up), StageIn(down), more) /\ Leads(StageIn(down), StageOut(down), more)
        /\ \A m, n \in on : m < n /\ n < st => Leads(In(n), In(m), more)
    BY <2>1, <1>2, Zenon DEF Laid
  <2>4. \A n \in on : n < st => Leads(StageIn(s), In(n), more)
    BY <2>2, <2>3, LeadsOn
  <2>5. Leads(StageIn(s), StageIn(down), more)
    BY <2>2, <2>3, LeadsOn
  <2>6. ASSUME NEW m \in on, NEW n \in on, m < n, n < st + 1 PROVE Leads(In(n), In(m), more)
    <3>1. CASE n < st
      BY <3>1, <2>3, <2>6
    <3>2. CASE n = st
      BY <3>2, <2>4, <2>6, <1>4
    <3>3. QED BY <3>1, <3>2, <1>5, <2>6
  <2>7. ASSUME NEW n \in on, n < st + 1
        PROVE  Leads(StageIn(s), In(n), more) /\ Leads(In(n), StageIn(down), more)
    <3>1. CASE n < st
      BY <3>1, <2>3, <2>4
    <3>2. CASE n = st
      BY <3>2, <2>5, <1>4, LeadsOn
    <3>3. QED BY <3>1, <3>2, <1>5, <2>7
  <2>8. Laid(on, st + 1, s, down, more)
    BY <1>1, <2>1, <2>3, <2>5, <2>6, <2>7, Zenon DEF Laid
  <2>9. QED BY <2>1, <2>8, Zenon DEF s
<1>8. QED BY <1>6, <1>7

\* The tee joins the stages when all of them are laid.
LEMMA JoinStages ==
  ASSUME NEW on \in SUBSET (1..6), NEW up, NEW down \in Stages, NEW some, NEW more, some \subseteq more,
         Laid(on, 7, up, down, some),
         \/ <<StageOut(down), StageIn("common_tee")>> \in more
         \/ <<StageOut(down), MsgConv>> \in more /\ <<MsgConv, StageIn("common_tee")>> \in more
  PROVE  Joined(on, more)
<1>1. Laid(on, 7, up, down, more)
  <2>1. \A x, y : Leads(x, y, some) => Leads(x, y, more)
    BY LeadsOn
  <2>2. QED BY <2>1, MoreLinks
<1>2. Leads(StageOut(down), StageIn("common_tee"), more)
  <2>1. StageOut(down)[1] \in Ahead /\ MsgConv[1] \in Ahead
    BY StageBins DEF Ahead, MsgConv
  <2>2. CASE <<StageOut(down), StageIn("common_tee")>> \in more
    BY <2>1, <2>2, LeadsOn
  <2>3. CASE <<StageOut(down), MsgConv>> \in more /\ <<MsgConv, StageIn("common_tee")>> \in more
    <3>1. Leads(StageOut(down), MsgConv, more) /\ Leads(MsgConv, StageIn("common_tee"), more)
      BY <2>1, <2>3, LeadsOn
    <3>2. QED BY <3>1, LeadsOn
  <2>4. QED BY <2>2, <2>3
<1>3. \A n \in on : n < 7
  OBVIOUS
<1>4. ASSUME NEW n \in on PROVE Leads(In(n), StageIn("common_tee"), more)
  <2>1. up \in Stages /\ Leads(In(n), StageIn(down), more)
    BY <1>1, <1>3 DEF Laid
  <2>2. Leads(StageIn(down), StageOut(down), more)
    BY <1>1, <2>1 DEF Laid
  <2>3. QED BY <1>2, <2>1, <2>2, LeadsOn
<1>5. \A m, n \in on : m < n => Leads(In(n), In(m), more)
  BY <1>1, <1>3 DEF Laid
<1>6. QED BY <1>4, <1>5 DEF Joined

\* Every step of create_pipeline keeps the order, and no later one takes a link of a stage away.
LEMMA OrderNext == GraphType /\ LinksInv /\ OrderInv /\ [Next]_vars => OrderInv'
<1> SUFFICES ASSUME GraphType, LinksInv, OrderInv, [Next]_vars PROVE OrderInv'
  OBVIOUS
<1>0. /\ Passed' = Passed /\ Passed \in SUBSET (1..6) /\ step \in Nat
      /\ upstream \in Stages \cup {NoStage} /\ NoStage \notin Stages
  <2>1. \A s : Enabled(s)' = Enabled(s)
    BY ConfigStays, SoundStays
  <2>2. CreationOrder' = CreationOrder
    BY DEF CreationOrder
  <2>3. Passed' = Passed
    BY <2>1, <2>2, Zenon DEF Passed
  <2>4. upstream \in Stages \cup {NoStage} /\ NoStage \notin Stages
    BY DEF LinksInv, Running, NoStage, Stages
  <2>5. QED BY <2>3, <2>4, GraphAssumption DEF Passed, GraphType
<1>1. ASSUME phase' = "common", step' = 1, upstream' = NoStage PROVE OrderInv'
  <2>1. \A n \in Passed : ~(n < 1)
    BY <1>0
  <2>2. Laid(Passed, 1, NoStage, downstream', links')
    BY <1>0, <2>1, Zenon DEF Laid
  <2>3. Laid(Passed', step', upstream', downstream', links')
    BY <1>0, <1>1, <2>2
  <2>4. QED BY <1>1, <2>3 DEF OrderInv
<1>2. ASSUME phase' \notin {"common", "broker", "last", "built"} PROVE OrderInv'
  BY <1>2 DEF OrderInv
<1>3. ASSUME phase' \in {"broker", "last", "built"}, Joined(Passed, links') PROVE OrderInv'
  <2>1. Joined(Passed', links')
    BY <1>0, <1>3
  <2>2. QED BY <1>3, <2>1 DEF OrderInv
<1>4. ASSUME phase \in {"broker", "last", "built"}, phase' \in {"broker", "last", "built"}, links \subseteq links'
      PROVE  OrderInv'
  <2>1. Joined(Passed, links)
    BY <1>4 DEF OrderInv
  <2>2. \A x, y : Leads(x, y, links) => Leads(x, y, links')
    BY <1>4, LeadsOn
  <2>3. QED BY <2>1, <2>2, <1>3, <1>4, MoreLinks
<1>5. CASE CreateMultiSourceBin \/ CreateDemuxPipeline \/ CreateDemuxer \/ SkipInstance \/ CreateDemuxedInstance
  <2>1. phase' \in {"demux", "instances", "failed", "crashed", "demuxed"}
    BY <1>5, Zenon DEF CreateMultiSourceBin, CreateDemuxPipeline, CreateDemuxer, SkipInstance, CreateDemuxedInstance,
       AfterServing
  <2>2. QED BY <2>1, <1>2
<1>6. CASE CreateTiledInstance \/ InstancesCreated
  <2>1. phase' \in {"common", "failed", "crashed"} /\ step' = 1 /\ upstream' = upstream
        /\ phase \in {"instances", "demuxed"}
    BY <1>6, Zenon DEF CreateTiledInstance, InstancesCreated, AfterServing, AfterProbing
  <2>2. upstream = NoStage
    BY <2>1 DEF LinksInv
  <2>3. QED BY <2>1, <2>2, <1>1, <1>2
<1>7. CASE AddStage
  <2> DEFINE st == CreationOrder[step]
  <2>1. /\ phase = "common" /\ phase' = "common" /\ step \in 1..6 /\ step' = step + 1 /\ Enabled(st)
        /\ Laid(Passed, step, upstream, downstream, links)
    <3>1. phase = "common" /\ phase' = "common" /\ step <= 6 /\ step' = step + 1 /\ step \in 1..7
      BY <1>7, CreationOrderIs DEF AddStage, LinksInv
    <3>2. Enabled(st)
      BY <1>7, Zenon DEF AddStage
    <3>3. QED BY <3>1, <3>2 DEF OrderInv
  <2>2. /\ upstream' = st /\ downstream' = IF downstream = NoStage THEN st ELSE downstream
        /\ links' = links \cup Chain(st, 0, StageBin[st])
                      \cup (IF upstream = NoStage THEN {} ELSE {<<StageOut(st), StageIn(upstream)>>})
    BY <1>7, Zenon DEF AddStage, NewDownstream
  <2>3. step \in Passed
    BY <2>1 DEF Passed
  <2>4. upstream = NoStage <=> downstream = NoStage
    BY <2>1 DEF LinksInv
  <2> HIDE DEF st
  <2>5. /\ links \subseteq links' /\ Chain(st, 0, StageBin[st]) \subseteq links'
        /\ upstream # NoStage => <<StageOut(st), StageIn(upstream)>> \in links'
    BY <2>2
  <2>6. Laid(Passed, step + 1, st, IF downstream = NoStage THEN st ELSE downstream, links')
    BY <1>0, <2>1, <2>3, <2>4, <2>5, LayStage DEF st
  <2>7. Laid(Passed', step', upstream', downstream', links')
    BY <1>0, <2>1, <2>2, <2>6, Zenon
  <2>8. QED BY <2>1, <2>7 DEF OrderInv
<1>8. CASE SkipStage
  <2>1. /\ phase = "common" /\ phase' = "common" /\ step' = step + 1 /\ ~Enabled(CreationOrder[step])
        /\ UNCHANGED <<links, upstream, downstream>>
        /\ Laid(Passed, step, upstream, downstream, links)
    BY <1>8 DEF SkipStage, OrderInv
  <2>2. step \notin Passed
    BY <2>1 DEF Passed
  <2>3. \A n \in Passed : n < step + 1 <=> n < step
    BY <1>0, <2>2
  <2>4. Laid(Passed, step + 1, upstream, downstream, links)
    BY <2>1, <2>3, Zenon DEF Laid
  <2>5. Laid(Passed', step', upstream', downstream', links')
    BY <1>0, <2>1, <2>4
  <2>6. QED BY <2>1, <2>5 DEF OrderInv
<1>9. CASE AddCommonTee
  <2>1. /\ phase = "common" /\ phase' = "broker" /\ step = 7
        /\ Laid(Passed, 7, upstream, downstream, links)
        /\ downstream \in Stages \cup {NoStage}
        /\ upstream = NoStage <=> downstream = NoStage
    <3>1. phase = "common" /\ phase' = "broker" /\ step > 6
      BY <1>9, CreationOrderIs DEF AddCommonTee
    <3>2. step \in 1..7 /\ downstream \in Stages \cup {NoStage} /\ (upstream = NoStage <=> downstream = NoStage)
      BY <3>1 DEF LinksInv, Running
    <3>3. step = 7
      BY <3>1, <3>2
    <3>4. QED BY <3>1, <3>2, <3>3 DEF OrderInv
  <2>2. CASE downstream = NoStage
    <3>1. \A n \in Passed : n < 7
      BY <1>0
    <3>2. upstream \notin Stages
      BY <1>0, <2>1, <2>2
    <3>3. \A n \in Passed : FALSE
      BY <2>1, <3>1, <3>2, Zenon DEF Laid
    <3>4. Joined(Passed, links')
      BY <3>3, Zenon DEF Joined
    <3>5. QED BY <2>1, <3>4, <1>3
  <2>3. CASE downstream # NoStage
    <3>1. downstream \in Stages
      BY <2>1, <2>3
    <3>2. links' = links \cup IF config.msg_conv
                              THEN {<<StageOut(downstream), MsgConv>>, <<MsgConv, StageIn("common_tee")>>}
                              ELSE {<<StageOut(downstream), StageIn("common_tee")>>}
      BY <1>9, <2>3, Zenon DEF AddCommonTee
    <3>3. /\ links \subseteq links'
          /\ \/ <<StageOut(downstream), StageIn("common_tee")>> \in links'
             \/ <<StageOut(downstream), MsgConv>> \in links' /\ <<MsgConv, StageIn("common_tee")>> \in links'
      BY <3>2
    <3>4. Joined(Passed, links')
      BY <1>0, <2>1, <3>1, <3>3, JoinStages
    <3>5. QED BY <2>1, <3>4, <1>3
  <2>4. QED BY <2>2, <2>3
<1>10. CASE AddAndLinkBrokerSinks \/ LinkAll
  <2>1. phase \in {"broker", "last"} /\ phase' \in {"last", "built", "failed"}
    BY <1>10 DEF AddAndLinkBrokerSinks, LinkAll
  <2>2. links \subseteq links'
    BY <1>10, Zenon DEF AddAndLinkBrokerSinks, LinkAll
  <2>3. QED BY <2>1, <2>2, <1>2, <1>4
<1>11. CASE BuildFails \/ DestroyPipeline
  <2>1. phase' \in {"failed", "lost", "destroyed", "over"}
    BY <1>11, Zenon DEF BuildFails, DestroyPipeline
  <2>2. QED BY <2>1, <1>2
<1>12. ASSUME NEW i \in Sources,
              \/ UriPadAdded(i) \/ RtspPadAdded(i) \/ DecodedPadAdded(i)
              \/ \E codec \in Codecs \cup {Other} : SelectStream(i, codec)
       PROVE  OrderInv'
  <2>1. phase = "built" /\ phase' \in {"built", "crashed"} /\ links \subseteq links'
    <3>1. CASE UriPadAdded(i) \/ DecodedPadAdded(i)
      BY <3>1, Zenon DEF UriPadAdded, DecodedPadAdded, build_vars
    <3>2. CASE RtspPadAdded(i)
      BY <3>2, Zenon DEF RtspPadAdded
    <3>3. ASSUME NEW codec \in Codecs \cup {Other}, SelectStream(i, codec)
          PROVE  phase = "built" /\ phase' = "built" /\ links \subseteq links'
      BY <3>3, Zenon DEF SelectStream, build_vars
    <3>4. QED BY <3>1, <3>2, <3>3, <1>12
  <2>2. QED BY <2>1, <1>2, <1>4
<1>13. ASSUME NEW i \in Sources, SourceReset(i) PROVE OrderInv'
  <2>1. /\ phase = "built" /\ phase' \in {"built", "lost"}
        /\ links' = links \ {<<Src(i, "src_elem"), Src(i, "depay")>>, <<Src(i, "decodebin"), Src(i, "src_que")>>}
    BY <1>13, Zenon DEF SourceReset
  <2>2. \A l \in links : l[1][1] \in Ahead => l \in links'
    <3>1. "source" \notin Ahead
      BY DEF Ahead, Stages
    <3>2. Src(i, "src_elem")[1] = "source" /\ Src(i, "decodebin")[1] = "source"
      BY DEF Src
    <3>3. QED BY <2>1, <3>1, <3>2
  <2>3. \A x, y : Leads(x, y, links) => Leads(x, y, links')
    <3>1. \A C : Keeps(C, links') => Keeps(C, links)
      BY <2>2 DEF Keeps
    <3>2. QED BY <3>1, Zenon DEF Leads
  <2>4. Joined(Passed, links)
    BY <2>1 DEF OrderInv
  <2>5. Joined(Passed, links')
    BY <2>3, <2>4, MoreLinks
  <2>6. QED BY <2>1, <2>5, <1>2, <1>3
<1>14. CASE UNCHANGED vars
  <2>1. UNCHANGED <<phase, step, links, upstream, downstream>>
    BY <1>14 DEF vars, build_vars
  <2>2. phase = "common" => Laid(Passed', step', upstream', downstream', links')
    BY <1>0, <2>1 DEF OrderInv
  <2>3. phase \in {"broker", "last", "built"} => Joined(Passed', links')
    BY <1>0, <2>1 DEF OrderInv
  <2>4. QED BY <2>1, <2>2, <2>3 DEF OrderInv
<1>15. QED
  BY <1>5, <1>6, <1>7, <1>8, <1>9, <1>10, <1>11, <1>12, <1>13, <1>14, Zenon DEF Next

\* Where something leads, Reach arrives.
LEMMA LeadsArrives ==
  ASSUME IsFiniteSet(links), NEW x, NEW y, x # y, Leads(x, y, links)
  PROVE  y \in Reach({x}, links)
<1>1. x \in Nodes
  <2>1. ASSUME x \notin Nodes PROVE FALSE
    <3>1. \A l \in links : l[1] # x
      BY <2>1 DEF Nodes
    <3>2. x \in {x} /\ Keeps({x}, links)
      BY <3>1 DEF Keeps
    <3>3. QED BY <3>2 DEF Leads
  <2>2. QED BY <2>1
<1> DEFINE C == Reach({x}, links)
<1>2. x \in C /\ \A l \in links : l[1] \in C => l[2] \in C
  BY <1>1, ReachCloses
<1> HIDE DEF C
<1>3. Keeps(C, links)
  BY <1>2 DEF Keeps
<1>4. QED BY <1>2, <1>3 DEF Leads, C

\* Nothing that is reached is before where it was reached from.
LEMMA NothingBack ==
  ASSUME config \in Configs, links \subseteq Possible, NEW x, NEW y, Rank(y[1]) < Rank(x[1])
  PROVE  y \notin Reach({x}, links)
<1> DEFINE C == {z \in Nodes \cup {x} : Rank(x[1]) <= Rank(z[1])}
<1>0. \A z : Rank(z[1]) \in 0..7
  BY Ranks
<1>1. IsFiniteSet(links)
  BY PossibleFinite, FS_Subset
<1>2. {x} \subseteq C
  BY <1>0
<1>3. ASSUME NEW l \in links, l[1] \in C PROVE l[2] \in C
  <2>1. Rank(l[1][1]) <= Rank(l[2][1])
    BY PossibleClimbs DEF Climbs
  <2>2. l[2] \in Nodes
    BY DEF Nodes
  <2>3. Rank(x[1]) <= Rank(l[1][1])
    BY <1>3
  <2>4. Rank(x[1]) \in Int /\ Rank(l[1][1]) \in Int /\ Rank(l[2][1]) \in Int
    BY <1>0
  <2>5. QED BY <2>1, <2>2, <2>3, <2>4
<1>4. y \notin C
  BY <1>0
<1> HIDE DEF C
<1>5. Reach({x}, links) \subseteq C
  BY <1>1, <1>2, <1>3, ReachStays
<1>6. QED BY <1>4, <1>5

\* In every pipeline that is built, the first or a later one, the enabled stages come in
\* the order of their places and the common tee behind all of them: each is reached from
\* those before it and from none behind it (create_common_elements, create_pipeline).
THEOREM StagesAlwaysInOrder == Spec => []StagesInOrder
<1>1. Init => OrderInv
  BY DEF Init, OrderInv
<1>2. GraphType /\ LinksInv /\ OrderInv => StagesInOrder
  <2> SUFFICES ASSUME GraphType, LinksInv, OrderInv, phase = "built" PROVE StagesInOrder
    BY Zenon DEF StagesInOrder
  <2> DEFINE order == <<"preprocess", "primary_gie", "tracker", "analytics",
                        "secondary_preprocess", "secondary_gie", "common_tee">>
             passed == {n \in 1..Len(order) : order[n] = "common_tee" \/ Enabled(order[n])}
  <2>1. /\ Len(order) = 7 /\ order[7] = "common_tee"
        /\ \A n \in 1..6 : order[n] = CreationOrder[7 - n] /\ order[n] \in Stages /\ Rank(order[n]) = n
        /\ Rank(order[7]) = 7
    <3>1. Len(order) = 7 /\ order[7] = "common_tee"
      OBVIOUS
    <3>2. \A n \in 1..6 : order[n] = CreationOrder[7 - n]
      BY DEF CreationOrder
    <3>3. \A n \in 1..6 : CreationOrder[7 - n] \in Stages /\ Place[CreationOrder[7 - n]] = n
      <4>1. \A n \in 1..6 : 7 - n \in 1..6 /\ 7 - (7 - n) = n
        OBVIOUS
      <4>2. QED BY <4>1, Places
    <3>4. Rank("common_tee") = 7
      BY Ranks DEF Behind
    <3> HIDE DEF order
    <3>5. QED BY <3>1, <3>2, <3>3, <3>4, Ranks
  <2> HIDE DEF order
  <2>2. Joined(Passed, links) /\ config \in Configs /\ links \subseteq Possible
    BY DEF OrderInv, GraphType, LinksInv
  <2>3. IsFiniteSet(links)
    BY <2>2, PossibleFinite, FS_Subset
  <2>4. ASSUME NEW m \in passed, NEW n \in passed, m < n
        PROVE  /\ StageIn(order[n]) \in Reach({StageIn(order[m])}, links)
               /\ StageIn(order[m]) \notin Reach({StageIn(order[n])}, links)
    <3>1. m \in 1..6 /\ n \in 1..7 /\ order[m] \in Stages /\ order[n] \in Stages \cup {"common_tee"}
          /\ Rank(order[m]) = m /\ Rank(order[n]) = n
      BY <2>1, <2>4
    <3>2. StageIn(order[m])[1] = order[m] /\ StageIn(order[n])[1] = order[n]
      BY <3>1, StageBins
    <3>3. Rank(StageIn(order[m])[1]) < Rank(StageIn(order[n])[1])
      BY <2>4, <3>1, <3>2
    <3>4. 7 - m \in Passed /\ In(7 - m) = StageIn(order[m])
      <4>1. "common_tee" \notin Stages
        BY DEF Stages
      <4>2. Enabled(order[m])
        BY <3>1, <4>1
      <4>3. QED BY <2>1, <3>1, <4>2 DEF Passed, In
    <3>5. Leads(StageIn(order[m]), StageIn(order[n]), links)
      <4>1. CASE n = 7
        BY <4>1, <2>1, <2>2, <3>4 DEF Joined
      <4>2. CASE n # 7
        <5>1. n \in 1..6
          BY <4>2, <3>1
        <5>2. order[n] # "common_tee"
          BY <5>1, <2>1 DEF Stages
        <5>3. 7 - n \in Passed /\ In(7 - n) = StageIn(order[n])
          BY <5>1, <5>2, <2>1 DEF Passed, In
        <5>4. 7 - n < 7 - m
          BY <2>4, <3>1
        <5>5. QED BY <2>2, <3>4, <5>3, <5>4 DEF Joined
      <4>3. QED BY <4>1, <4>2
    <3>6. StageIn(order[m]) # StageIn(order[n])
      BY <2>4, <3>1, <3>2
    <3>7. QED BY <2>2, <2>3, <3>3, <3>5, <3>6, LeadsArrives, NothingBack
  <2>5. QED BY <2>4, Zenon DEF StagesInOrder, order
<1>3. QED
  BY <1>1, <1>2, GraphTypeInit, GraphTypeNext, LinksInit, LinksNext, OrderNext, PTL DEF Spec

-------------------------------------------------------------------------------
(* What every pipeline has *)

After == {"common", "broker", "last", "built"}

\* The way from the tiler or from the demuxer's pad to the sinks of instance i.
Branch(i) ==
  WithSinks(i)
    \cup (IF config.mode = "enabled" THEN OfTiler ELSE IF config.mode = "disabled" THEN OfDemuxer(i) ELSE {})
StageLinks(n) == Chain(CreationOrder[n], 0, StageBin[CreationOrder[n]])
LeadsOut(n, some) == \E l \in some : l[1] = StageOut(CreationOrder[n])
\* The links that close the graph.
Ends(up, down) ==
  IF down = NoStage THEN {<<Mux, Final>>} ELSE {<<StageOut(down), Final>>, <<Mux, StageIn(up)>>}

\* What is linked in phase p, when the sources or stages up to st have been made.
Framed(p, st, up, down, dem, some) ==
  /\ p \in Building \cup {"built"} => \A i \in Sources : SourceBin(i) \cup MuxLinks(i) \subseteq some
  /\ \A i \in Instanced : p \in After \/ (p = "demuxed" /\ i < st) => Branch(i) \subseteq some
  /\ p = "common" =>
       \A n \in Passed : n < st =>
         StageLinks(n) \subseteq some /\ down # NoStage /\ (CreationOrder[n] = down \/ LeadsOut(n, some))
  /\ p \in {"broker", "last", "built"} =>
       /\ \A n \in Passed : StageLinks(n) \subseteq some /\ LeadsOut(n, some) /\ down = "common_tee"
       /\ down = "common_tee" /\ config.msg_conv => <<MsgConv, StageIn("common_tee")>> \in some
  /\ p \in {"last", "built"} => ToBrokers \subseteq some
  /\ p = "built" => config.mode # "parallel" /\ Ends(up, down) \subseteq some
  /\ config.mode = "enabled" => dem = 0
FrameInv == Framed(phase, step, upstream, downstream, demuxer, links)

\* Of a configuration that stays, it is enough to look at what changes.
LEMMA FramedStays ==
  ASSUME UNCHANGED config, Framed(phase', step', upstream', downstream', demuxer', links')
  PROVE  FrameInv'
<1>1. \A i : Branch(i)' = Branch(i)
  BY PartsStay, Zenon DEF Branch
<1>2. Passed' = Passed
  BY SoundStays, Zenon DEF Passed, CreationOrder
<1>3. \A n : StageLinks(n)' = StageLinks(n)
  BY DEF StageLinks
<1>4. Sources' = Sources /\ Instanced' = Instanced /\ ToBrokers' = ToBrokers /\ Final' = Final
      /\ \A i : SourceBin(i)' = SourceBin(i) /\ MuxLinks(i)' = MuxLinks(i)
  BY PartsStay, Zenon
<1>5. QED
  BY <1>1, <1>2, <1>3, <1>4, Zenon DEF FrameInv, Framed, Ends, LeadsOut

\* The links that a camera that is reset takes back.
IsPad(l) == l[1][1] = "source" /\ l[2][3] \in {"depay", "src_que"}

\* They are none of those that create_pipeline has made.
LEMMA NoPads ==
  /\ \A i : \A l \in SourceBin(i) \cup MuxLinks(i) \cup Depayloading(i) : ~IsPad(l)
  /\ \A S : OfNoSource(S) => \A l \in S : ~IsPad(l)
<1>1. ASSUME NEW i, NEW l \in SourceBin(i) PROVE l[2][3] \notin {"depay", "src_que"}
  <2>1. CASE config.sources[i] = "csi"
    BY <1>1, <2>1, SourceLinks DEF Src
  <2>2. CASE config.sources[i] = "uri"
    BY <1>1, <2>2, SourceLinks DEF Src
  <2>3. CASE config.sources[i] = "rtsp"
    BY <1>1, <2>3, SourceLinks DEF Src
  <2>4. CASE config.sources[i] \notin {"csi", "uri", "rtsp"}
    BY <1>1, <2>4, SourceLinks DEF Src
  <2>5. QED BY <2>1, <2>2, <2>3, <2>4
<1>2. ASSUME NEW i, NEW l \in Depayloading(i) \cup MuxLinks(i) PROVE l[2][3] \notin {"depay", "src_que"}
  BY <1>2, SourceLinks DEF Src, MuxLinks, MuxPad, Mux
<1>3. QED BY <1>1, <1>2, Zenon DEF IsPad, OfNoSource

\* None of them starts in a source but the sources' own.
LEMMA FramedNoSource ==
  /\ \A i \in Instanced : OfNoSource(Branch(i))
  /\ \A n \in 1..6 : OfNoSource(StageLinks(n)) /\ StageOut(CreationOrder[n])[1] # "source"
  /\ OfNoSource(ToBrokers)
  /\ \A up, down : down \in {NoStage, "common_tee"} => OfNoSource(Ends(up, down))
  /\ MsgConv[1] # "source"
<1>1. ASSUME NEW i \in Instanced PROVE OfNoSource(Branch(i))
  <2>1. OfNoSource(OfInstance(i)) /\ WithSinks(i) \subseteq OfInstance(i)
    BY NoSourceInInstance, Zenon DEF OfInstance
  <2>2. OfNoSource(WithSinks(i))
    BY <2>1 DEF OfNoSource
  <2>3. OfNoSource(OfMode)
    BY NoSourceInInstance
  <2>4. CASE config.mode = "enabled"
    BY <2>2, <2>3, <2>4 DEF OfNoSource, Branch, OfMode
  <2>5. CASE config.mode = "disabled"
    <3>1. OfDemuxer(i) \subseteq OfMode
      BY <2>5 DEF OfMode, OfDemuxers
    <3>2. Branch(i) = WithSinks(i) \cup OfDemuxer(i)
      BY <2>5 DEF Branch
    <3>3. QED BY <3>1, <3>2, <2>2, <2>3 DEF OfNoSource
  <2>6. CASE config.mode \notin {"enabled", "disabled"}
    BY <2>2, <2>6 DEF OfNoSource, Branch
  <2>7. QED BY <2>4, <2>5, <2>6
<1>2. ASSUME NEW n \in 1..6 PROVE OfNoSource(StageLinks(n)) /\ StageOut(CreationOrder[n])[1] # "source"
  <2>1. CreationOrder[n] \in Stages /\ "source" \notin Stages
    BY Places DEF Stages
  <2>2. OfNoSource(StageLinks(n))
    BY <2>1, NoSourceInSinkBin DEF StageLinks
  <2>3. QED BY <2>1, <2>2, StageBins
<1>3. OfNoSource(ToBrokers)
  BY NoSourceInStages, Zenon DEF OfNoSource, OfCommonTee
<1>4. ASSUME NEW up, NEW down \in {NoStage, "common_tee"} PROVE OfNoSource(Ends(up, down))
  <2>1. StageOut("common_tee")[1] # "source" /\ Mux[1] # "source"
    BY StageEnds DEF Mux
  <2>2. CASE down = NoStage
    BY <2>1, <2>2 DEF Ends, OfNoSource
  <2>3. CASE down # NoStage
    BY <2>1, <2>3 DEF Ends, OfNoSource
  <2>4. QED BY <2>2, <2>3
<1>5. MsgConv[1] # "source"
  BY DEF MsgConv
<1>6. QED BY <1>1, <1>2, <1>3, <1>4, <1>5

\* More links leave it as it is, and so does a camera that takes its pads back.
LEMMA FrameKept ==
  ASSUME NEW p, NEW st, NEW up, NEW down, NEW dem, NEW some, NEW more, Framed(p, st, up, down, dem, some),
         some \subseteq more \/ (p = "built" /\ down \in {NoStage, "common_tee"} /\ \A l \in some : ~IsPad(l) => l \in more)
  PROVE  Framed(p, st, up, down, dem, more)
<1>1. CASE some \subseteq more
  <2>1. \A n : LeadsOut(n, some) => LeadsOut(n, more)
    BY <1>1 DEF LeadsOut
  <2>2. \A S : S \subseteq some => S \subseteq more
    BY <1>1
  <2>3. \A l : l \in some => l \in more
    BY <1>1
  <2>4. QED BY <2>1, <2>2, <2>3, Zenon DEF Framed
<1>2. CASE p = "built" /\ down \in {NoStage, "common_tee"} /\ \A l \in some : ~IsPad(l) => l \in more
  <2>1. \A S : S \subseteq some /\ (\A l \in S : ~IsPad(l)) => S \subseteq more
    BY <1>2
  <2>2. \A i \in Sources : SourceBin(i) \cup MuxLinks(i) \subseteq more
    <3>1. \A i \in Sources : SourceBin(i) \cup MuxLinks(i) \subseteq some
      BY <1>2 DEF Framed
    <3>2. QED BY <2>1, <3>1, NoPads
  <2>3. \A i \in Instanced : Branch(i) \subseteq more
    <3>1. \A i \in Instanced : Branch(i) \subseteq some
      BY <1>2 DEF Framed, After
    <3>2. QED BY <2>1, <3>1, NoPads, FramedNoSource
  <2>4. ToBrokers \subseteq more /\ Ends(up, down) \subseteq more
    <3>1. ToBrokers \subseteq some /\ Ends(up, down) \subseteq some
      BY <1>2 DEF Framed
    <3>2. QED BY <1>2, <2>1, <3>1, NoPads, FramedNoSource
  <2>5. ASSUME NEW n \in Passed PROVE StageLinks(n) \subseteq more /\ LeadsOut(n, more)
    <3>1. StageLinks(n) \subseteq some /\ LeadsOut(n, some) /\ n \in 1..6
      BY <1>2 DEF Framed, Passed
    <3>2. PICK l \in some : l[1] = StageOut(CreationOrder[n])
      BY <3>1 DEF LeadsOut
    <3>3. ~IsPad(l)
      BY <3>1, <3>2, FramedNoSource DEF IsPad
    <3>4. LeadsOut(n, more)
      BY <1>2, <3>2, <3>3 DEF LeadsOut
    <3>5. QED BY <2>1, <3>1, <3>4, NoPads, FramedNoSource
  <2>6. down = "common_tee" /\ config.msg_conv => <<MsgConv, StageIn("common_tee")>> \in more
    <3>1. ~IsPad(<<MsgConv, StageIn("common_tee")>>)
      BY FramedNoSource DEF IsPad
    <3>2. QED BY <1>2, <3>1 DEF Framed
  <2>7. config.mode # "parallel" /\ (config.mode = "enabled" => dem = 0) /\ (\A n \in Passed : down = "common_tee")
    BY <1>2 DEF Framed
  <2>8. QED
    BY <1>2, <2>2, <2>3, <2>4, <2>5, <2>6, <2>7, Zenon DEF Framed
<1>3. QED BY <1>1, <1>2

\* A pipeline that is not being built or playing is not asked about.
LEMMA FrameGone ==
  ASSUME NEW p, p \notin Building \cup {"built"}, NEW st, NEW up, NEW down, NEW dem, NEW some,
         config.mode = "enabled" => dem = 0
  PROVE  Framed(p, st, up, down, dem, some)
BY DEF Framed, Building, After

\* Every step of create_pipeline keeps what was linked and adds what its phase is about.
LEMMA FrameNext == GraphType /\ LinksInv /\ FrameInv /\ [Next]_vars => FrameInv'
<1> SUFFICES ASSUME GraphType, LinksInv, FrameInv, [Next]_vars PROVE FrameInv'
  OBVIOUS
<1> DEFINE Goal == Framed(phase', step', upstream', downstream', demuxer', links')
<1> SUFFICES Goal
  BY ConfigStays, FramedStays
<1>0. /\ config \in Configs /\ step \in Nat /\ 0 \in Sources /\ Sources \subseteq Indices /\ Indices \subseteq Nat
      /\ Instanced \subseteq Sources /\ Framed(phase, step, upstream, downstream, demuxer, links)
      /\ config.mode = "enabled" => demuxer = 0
  <2>1. config \in Configs /\ step \in Nat
    BY GraphAssumption DEF GraphType
  <2>2. 0 \in Sources /\ Sources \subseteq Indices /\ Indices \subseteq Nat
    BY <2>1, ConfigFacts, GraphAssumption DEF Indices
  <2>3. Instanced \subseteq Sources
    BY <2>2 DEF Instanced
  <2>4. Framed(phase, step, upstream, downstream, demuxer, links) /\ (config.mode = "enabled" => demuxer = 0)
    BY Zenon DEF FrameInv, Framed
  <2>5. QED BY <2>1, <2>2, <2>3, <2>4
<1>1. ASSUME phase' \notin Building \cup {"built"}, demuxer' = demuxer \/ config.mode # "enabled" PROVE Goal
  <2> DEFINE p == phase'
             dem == demuxer'
  <2>1. p \notin Building \cup {"built"} /\ (config.mode = "enabled" => dem = 0)
    BY <1>1, <1>0
  <2>2. QED BY <2>1, FrameGone
<1>2. ASSUME UNCHANGED <<phase, step, upstream, downstream, demuxer>>, links \subseteq links' PROVE Goal
  <2> DEFINE more == links'
  <2>1. links \subseteq more
    BY <1>2
  <2>2. Framed(phase, step, upstream, downstream, demuxer, more)
    BY <2>1, <1>0, FrameKept
  <2>3. QED BY <1>2, <2>2
<1>3. CASE CreateMultiSourceBin
  <2>1. /\ links' = UNION {SourceBin(i) \cup MuxLinks(i) : i \in Sources} /\ demuxer' = demuxer
        /\ phase' \in {"demux", "instances"}
    BY <1>3, Zenon DEF CreateMultiSourceBin
  <2>2. \A i \in Sources : SourceBin(i) \cup MuxLinks(i) \subseteq links'
    BY <2>1
  <2>3. QED BY <2>1, <2>2, <1>0, Zenon DEF Framed, After
<1>4. CASE CreateDemuxPipeline
  <2>1. /\ phase = "demux" /\ phase' \in {"failed", "instances", "crashed"} /\ links \subseteq links'
        /\ demuxer' = builds /\ config.mode # "enabled"
    <3>1. phase' \in {"failed", "instances", "crashed"} /\ links \subseteq links'
      BY <1>4, Zenon DEF CreateDemuxPipeline, AfterServing
    <3>2. phase = "demux" /\ demuxer' = builds
      BY <1>4 DEF CreateDemuxPipeline
    <3>3. QED BY <3>1, <3>2 DEF LinksInv
  <2>2. \A i \in Sources : SourceBin(i) \cup MuxLinks(i) \subseteq links'
    BY <2>1, <1>0, Zenon DEF Framed, Building
  <2>3. QED BY <2>1, <2>2, <1>0, Zenon DEF Framed, After
<1>5. CASE CreateTiledInstance
  <2>1. /\ phase = "instances" /\ config.mode = "enabled" /\ step' = 1 /\ demuxer' = demuxer
        /\ links' = links \cup Instance(0) \cup Chain("tiled_display", 0, TiledDisplayBin)
                \cup {<<<<"tiled_display", 0, "tiler">>, InstanceIn(0)>>,
                      <<TilerTee, <<"tiled_display", 0, "queue">>>>}
        /\ phase' \in {"common", "failed", "crashed"}
    BY <1>5, Zenon DEF CreateTiledInstance, AfterServing, AfterProbing
  <2>2. Instanced = {0} /\ 0 \in Indices /\ 0 \in Instanced
    BY <2>1, <1>0 DEF Instanced
  <2>3. Branch(0) \subseteq links'
    <3>1. WithSinks(0) \subseteq Instance(0)
      BY <2>2, AddedInInstance
    <3>2. Branch(0) = WithSinks(0) \cup OfTiler
      BY <2>1, Zenon DEF Branch
    <3>3. QED BY <2>1, <3>1, <3>2, Zenon DEF OfTiler
  <2>4. \A i \in Sources : SourceBin(i) \cup MuxLinks(i) \subseteq links'
    BY <2>1, <1>0, Zenon DEF Framed, Building
  <2>5. \A n \in Passed : ~(n < step')
    BY <2>1 DEF Passed
  <2>6. CASE phase' = "common"
    BY <2>1, <2>2, <2>3, <2>4, <2>5, <2>6, <1>0 DEF Framed
  <2>7. QED BY <2>1, <2>6, <1>1 DEF Building
<1>6. CASE CreateDemuxer
  <2>1. /\ phase = "instances" /\ config.mode # "enabled" /\ phase' = "demuxed" /\ step' = 0 /\ links' = links
    BY <1>6 DEF CreateDemuxer
  <2>2. \A i \in Sources : SourceBin(i) \cup MuxLinks(i) \subseteq links'
    BY <2>1, <1>0, Zenon DEF Framed, Building
  <2>3. \A i \in Instanced : ~(i < step')
    BY <2>1, <1>0
  <2>4. QED BY <2>1, <2>2, <2>3, Zenon DEF Framed, After
<1>7. CASE SkipInstance \/ CreateDemuxedInstance
  <2>1. /\ phase = "demuxed" /\ step \in Sources /\ step' = step + 1 /\ demuxer' = demuxer
        /\ links \subseteq links' /\ config.mode # "enabled"
    <3>1. phase = "demuxed" /\ step \in Sources /\ step' = step + 1 /\ links \subseteq links' /\ demuxer' = demuxer
      BY <1>7, Zenon DEF SkipInstance, CreateDemuxedInstance, pointer_vars
    <3>2. QED BY <3>1 DEF LinksInv
  <2>2. phase' \in {"demuxed", "failed", "crashed"}
    BY <1>7, Zenon DEF SkipInstance, CreateDemuxedInstance, AfterServing
  <2>3. \A i \in Sources : SourceBin(i) \cup MuxLinks(i) \subseteq links'
    BY <2>1, <1>0, Zenon DEF Framed, Building
  <2>4. step \in Instanced => Branch(step) \subseteq links'
    <3> SUFFICES ASSUME step \in Instanced PROVE Branch(step) \subseteq links'
      OBVIOUS
    <3>1. SlotsOf(step) # {}
      BY <2>1 DEF Instanced
    <3>2. links' = links \cup Instance(step)
                \cup (IF DemuxerIsLoose THEN {}
                      ELSE {<<Demuxer, DemuxPad(step)>>, <<DemuxPad(step), InstanceIn(step)>>})
      BY <3>1, <1>7, Zenon DEF SkipInstance, CreateDemuxedInstance
    <3>3. WithSinks(step) \subseteq Instance(step)
      BY <1>0, AddedInInstance
    <3>4. CASE DemuxerIsLoose
      <4>1. Branch(step) = WithSinks(step)
        BY <3>4 DEF Branch, DemuxerIsLoose
      <4>2. QED BY <4>1, <3>2, <3>3, Zenon
    <3>5. CASE ~DemuxerIsLoose
      <4>1. Branch(step) \subseteq WithSinks(step) \cup OfDemuxer(step)
        BY <2>1, Zenon DEF Branch
      <4>2. links' = links \cup Instance(step) \cup OfDemuxer(step)
        BY <3>2, <3>5, Zenon DEF OfDemuxer
      <4>3. QED BY <4>1, <4>2, <3>3, Zenon
    <3>6. QED BY <3>4, <3>5
  <2>5. \A i \in Instanced : i < step' => Branch(i) \subseteq links'
    <3> SUFFICES ASSUME NEW i \in Instanced, i < step' PROVE Branch(i) \subseteq links'
      OBVIOUS
    <3>1. i \in Nat /\ (i < step \/ i = step)
      BY <2>1, <1>0
    <3>2. CASE i < step
      <4>1. Branch(i) \subseteq links
        BY <3>2, <2>1, <1>0, Zenon DEF Framed
      <4>2. QED BY <4>1, <2>1, Zenon
    <3>3. CASE i = step
      BY <3>3, <2>4
    <3>4. QED BY <3>1, <3>2, <3>3
  <2>6. CASE phase' = "demuxed"
    BY <2>1, <2>3, <2>5, <2>6, Zenon DEF Framed, After
  <2>7. QED BY <2>1, <2>2, <2>6, <1>1 DEF Building
<1>8. CASE InstancesCreated
  <2>1. /\ phase = "demuxed" /\ phase' = "common" /\ step \notin Sources /\ step' = 1
        /\ UNCHANGED <<links, demuxer>>
    BY <1>8 DEF InstancesCreated, pointer_vars
  <2>2. \A i \in Sources : i < step
    <3>1. PICK n \in Nat : Sources = 0..n
      <4>1. IsConfig(config)
        BY <1>0, GraphAssumption
      <4>2. PICK n \in Indices : config.sources \in [0..n -> SourceTypes]
        BY <4>1 DEF IsConfig
      <4>3. QED BY <4>2, <1>0 DEF Sources
    <3>2. QED BY <3>1, <2>1, <1>0
  <2>3. \A i \in Instanced : Branch(i) \subseteq links'
    BY <2>1, <2>2, <1>0, Zenon DEF Framed
  <2>4. \A n \in Passed : ~(n < step')
    BY <2>1 DEF Passed
  <2>5. \A i \in Sources : SourceBin(i) \cup MuxLinks(i) \subseteq links'
    BY <2>1, <1>0, Zenon DEF Framed, Building
  <2>6. QED BY <2>1, <2>3, <2>4, <2>5, <1>0, Zenon DEF Framed
<1>9. CASE AddStage
  <2> DEFINE st == CreationOrder[step]
  <2>1. /\ phase = "common" /\ phase' = "common" /\ step \in 1..6 /\ step' = step + 1 /\ demuxer' = demuxer
        /\ downstream' = IF downstream = NoStage THEN st ELSE downstream
        /\ links' = links \cup Chain(st, 0, StageBin[st])
                      \cup (IF upstream = NoStage THEN {} ELSE {<<StageOut(st), StageIn(upstream)>>})
    <3>1. phase = "common" /\ phase' = "common" /\ step <= 6 /\ step' = step + 1 /\ step \in 1..7 /\ demuxer' = demuxer
      BY <1>9, CreationOrderIs DEF AddStage, LinksInv
    <3>2. /\ downstream' = IF downstream = NoStage THEN st ELSE downstream
          /\ links' = links \cup Chain(st, 0, StageBin[st])
                        \cup (IF upstream = NoStage THEN {} ELSE {<<StageOut(st), StageIn(upstream)>>})
      BY <1>9, Zenon DEF AddStage, NewDownstream
    <3> HIDE DEF st
    <3>3. QED BY <3>1, <3>2
  <2>2. links \subseteq links' /\ StageLinks(step) \subseteq links'
    BY <2>1, Zenon DEF StageLinks
  <2>3. st \in Stages /\ NoStage \notin Stages
    BY <2>1, Places DEF NoStage, Stages
  <2>4. upstream = NoStage <=> downstream = NoStage
    BY <2>1 DEF LinksInv
  <2>5. st = downstream' \/ LeadsOut(step, links')
    <3>1. CASE downstream = NoStage
      BY <2>1, <3>1
    <3>2. CASE downstream # NoStage
      <4>1. <<StageOut(st), StageIn(upstream)>> \in links'
        BY <2>1, <2>4, <3>2, Zenon
      <4> HIDE DEF st
      <4>2. \E l \in links' : l[1] = StageOut(st)
        BY <4>1
      <4>3. QED BY <4>2 DEF LeadsOut, st
    <3>3. QED BY <3>1, <3>2
  <2>6. downstream' # NoStage
    BY <2>1, <2>3
  <2>7. \A n \in Passed : n < step' =>
          StageLinks(n) \subseteq links' /\ downstream' # NoStage /\ (CreationOrder[n] = downstream' \/ LeadsOut(n, links'))
    <3> SUFFICES ASSUME NEW n \in Passed, n < step'
                 PROVE  StageLinks(n) \subseteq links' /\ (CreationOrder[n] = downstream' \/ LeadsOut(n, links'))
      BY <2>6
    <3>1. n < step \/ n = step
      BY <2>1 DEF Passed
    <3>2. CASE n < step
      <4>1. StageLinks(n) \subseteq links /\ downstream # NoStage /\ (CreationOrder[n] = downstream \/ LeadsOut(n, links))
        BY <2>1, <3>2, <1>0, Zenon DEF Framed
      <4>2. downstream' = downstream
        BY <2>1, <4>1
      <4>3. LeadsOut(n, links) => LeadsOut(n, links')
        BY <2>2 DEF LeadsOut
      <4>4. QED BY <4>1, <4>2, <4>3, <2>2, Zenon
    <3>3. CASE n = step
      BY <3>3, <2>2, <2>5
    <3>4. QED BY <3>1, <3>2, <3>3
  <2>8. /\ \A i \in Sources : SourceBin(i) \cup MuxLinks(i) \subseteq links'
        /\ \A i \in Instanced : Branch(i) \subseteq links'
    <3>1. /\ \A i \in Sources : SourceBin(i) \cup MuxLinks(i) \subseteq links
          /\ \A i \in Instanced : Branch(i) \subseteq links
      BY <2>1, <1>0 DEF Framed, Building, After
    <3>2. QED BY <3>1, <2>2, Zenon
  <2>9. QED BY <2>1, <2>7, <2>8, <1>0 DEF Framed
<1>10. CASE SkipStage
  <2>1. /\ phase = "common" /\ phase' = "common" /\ step' = step + 1 /\ ~Enabled(CreationOrder[step])
        /\ UNCHANGED <<links, downstream, demuxer>>
    BY <1>10 DEF SkipStage, pointer_vars
  <2>2. step \notin Passed
    BY <2>1 DEF Passed
  <2>3. \A n \in Passed : n < step' => n < step
    BY <2>1, <2>2, <1>0 DEF Passed
  <2>4. \A n \in Passed : n < step' =>
          StageLinks(n) \subseteq links /\ downstream # NoStage /\ (CreationOrder[n] = downstream \/ LeadsOut(n, links))
    BY <2>1, <2>3, <1>0, Zenon DEF Framed
  <2>5. /\ \A i \in Sources : SourceBin(i) \cup MuxLinks(i) \subseteq links
        /\ \A i \in Instanced : Branch(i) \subseteq links
    BY <2>1, <1>0 DEF Framed, Building, After
  <2>6. QED BY <2>1, <2>4, <2>5, <1>0 DEF Framed
<1>11. CASE AddCommonTee
  <2>1. phase = "common" /\ phase' = "broker" /\ step = 7 /\ demuxer' = demuxer
    <3>1. phase = "common" /\ phase' = "broker" /\ step > 6 /\ demuxer' = demuxer
      BY <1>11, CreationOrderIs DEF AddCommonTee, pointer_vars
    <3>2. step \in 1..7
      BY <3>1 DEF LinksInv
    <3>3. QED BY <3>1, <3>2
  <2>2. links \subseteq links'
    BY <1>11, Zenon DEF AddCommonTee
  <2>3. /\ \A i \in Sources : SourceBin(i) \cup MuxLinks(i) \subseteq links'
        /\ \A i \in Instanced : Branch(i) \subseteq links'
    <3>1. /\ \A i \in Sources : SourceBin(i) \cup MuxLinks(i) \subseteq links
          /\ \A i \in Instanced : Branch(i) \subseteq links
      BY <2>1, <1>0 DEF Framed, Building, After
    <3>2. QED BY <3>1, <2>2, Zenon
  <2>4. \A n \in Passed :
          StageLinks(n) \subseteq links /\ downstream # NoStage /\ (CreationOrder[n] = downstream \/ LeadsOut(n, links))
    <3>1. \A n \in Passed : n < step
      BY <2>1 DEF Passed
    <3>2. QED BY <2>1, <3>1, <1>0, Zenon DEF Framed
  <2>5. CASE downstream = NoStage
    <3>1. downstream' = NoStage /\ Passed = {}
      BY <1>11, <2>4, <2>5 DEF AddCommonTee
    <3>2. NoStage # "common_tee"
      BY DEF NoStage
    <3>3. QED BY <2>1, <2>3, <3>1, <3>2, <1>0 DEF Framed
  <2>6. CASE downstream # NoStage
    <3>1. /\ downstream' = "common_tee"
          /\ links' = links \cup IF config.msg_conv
                                 THEN {<<StageOut(downstream), MsgConv>>, <<MsgConv, StageIn("common_tee")>>}
                                 ELSE {<<StageOut(downstream), StageIn("common_tee")>>}
      BY <1>11, <2>6, Zenon DEF AddCommonTee
    <3>2. config.msg_conv => <<MsgConv, StageIn("common_tee")>> \in links'
      BY <3>1
    <3>3. \E l \in links' : l[1] = StageOut(downstream)
      <4>1. \E x : <<StageOut(downstream), x>> \in links'
        BY <3>1
      <4>2. QED BY <4>1
    <3>4. \A n \in Passed : StageLinks(n) \subseteq links' /\ LeadsOut(n, links') /\ downstream' = "common_tee"
      <4> SUFFICES ASSUME NEW n \in Passed PROVE StageLinks(n) \subseteq links' /\ LeadsOut(n, links')
        BY <3>1
      <4>1. StageLinks(n) \subseteq links'
        BY <2>2, <2>4, Zenon
      <4>2. CASE CreationOrder[n] = downstream
        BY <4>1, <4>2, <3>3, Zenon DEF LeadsOut
      <4>3. CASE LeadsOut(n, links)
        BY <4>1, <4>3, <2>2 DEF LeadsOut
      <4>4. QED BY <2>4, <4>2, <4>3
    <3>5. QED BY <2>1, <2>3, <3>2, <3>4, <1>0, Zenon DEF Framed
  <2>7. QED BY <2>5, <2>6
<1>12. CASE AddAndLinkBrokerSinks \/ LinkAll
  <2>1. /\ phase \in {"broker", "last"} /\ phase' \in {"last", "failed", "built"} /\ links \subseteq links'
        /\ UNCHANGED <<upstream, downstream, demuxer, step>>
        /\ phase' = "failed" \/ (phase = "broker" /\ phase' = "last") \/ (phase = "last" /\ phase' = "built")
    <3>1. CASE AddAndLinkBrokerSinks
      BY <3>1, Zenon DEF AddAndLinkBrokerSinks, pointer_vars
    <3>2. CASE LinkAll
      BY <3>2, Zenon DEF LinkAll, pointer_vars
    <3>3. QED BY <3>1, <3>2, <1>12
  <2>2. Framed(phase, step, upstream, downstream, demuxer, links')
    <3> DEFINE more == links'
    <3>1. links \subseteq more
      BY <2>1
    <3> HIDE DEF more
    <3>2. Framed(phase, step, upstream, downstream, demuxer, more)
      BY <3>1, <1>0, FrameKept
    <3>3. QED BY <3>2 DEF more
  <2>3. phase' # "failed" => ToBrokers \subseteq links'
    <3>1. CASE phase = "broker" /\ phase' = "last"
      BY <1>12, <3>1, Zenon DEF AddAndLinkBrokerSinks, LinkAll, ToBrokers
    <3>2. CASE phase = "last"
      BY <2>2, <3>2, Zenon DEF Framed
    <3>3. QED BY <2>1, <3>1, <3>2
  <2>4. phase' = "built" => config.mode # "parallel" /\ Ends(upstream, downstream) \subseteq links'
    <3> SUFFICES ASSUME phase' = "built" PROVE config.mode # "parallel" /\ Ends(upstream, downstream) \subseteq links'
      OBVIOUS
    <3>1. LinkAll
      BY <1>12, Zenon DEF AddAndLinkBrokerSinks
    <3>2. ~DemuxerIsLoose
      BY <3>1, Zenon DEF LinkAll
    <3>3. links' = links \cup IF downstream = NoStage THEN {<<Mux, Final>>}
                              ELSE {<<StageOut(downstream), Final>>, <<Mux, StageIn(upstream)>>}
      BY <3>1, <3>2, Zenon DEF LinkAll, Final
    <3>4. QED BY <3>2, <3>3, Zenon DEF DemuxerIsLoose, Ends
  <2>5. /\ phase \in Building /\ phase \in After
        /\ phase' # "failed" => phase' \in After
        /\ phase' # "failed" => phase' \notin {"common", "demuxed"}
    BY <2>1 DEF Building, After
  <2>6. CASE phase' # "failed"
    <3>1. /\ \A i \in Sources : SourceBin(i) \cup MuxLinks(i) \subseteq links'
          /\ \A i \in Instanced : Branch(i) \subseteq links'
          /\ \A n \in Passed : StageLinks(n) \subseteq links' /\ LeadsOut(n, links') /\ downstream = "common_tee"
          /\ downstream = "common_tee" /\ config.msg_conv => <<MsgConv, StageIn("common_tee")>> \in links'
      <4>1. phase \in {"broker", "last", "built"} /\ phase \in Building \cup {"built"}
        BY <2>1, <2>5
      <4>2. QED BY <2>2, <2>5, <4>1, Zenon DEF Framed
    <3>2. QED BY <2>1, <2>3, <2>4, <2>5, <2>6, <3>1, <1>0, Zenon DEF Framed
  <2>7. QED BY <2>1, <2>6, <1>1 DEF Building
<1>13. CASE BuildFails
  <2>1. phase' = "failed"
    BY <1>13 DEF BuildFails
  <2>2. demuxer' = demuxer \/ config.mode # "enabled"
    <3>1. CASE phase \in {"new", "destroyed"}
      BY <1>13, <3>1, Zenon DEF BuildFails
    <3>2. CASE phase \notin {"new", "destroyed"}
      <4>1. demuxer' \in IF phase \in {"demux", "instances"} /\ config.mode # "enabled"
                         THEN {demuxer, builds} ELSE {demuxer}
        BY <1>13, <3>2, Zenon DEF BuildFails
      <4>2. QED BY <4>1
    <3>3. QED BY <3>1, <3>2
  <2>3. QED BY <2>1, <2>2, <1>1 DEF Building
<1>14. ASSUME NEW i \in Sources,
              \/ UriPadAdded(i) \/ RtspPadAdded(i) \/ DecodedPadAdded(i)
              \/ \E codec \in Codecs \cup {Other} : SelectStream(i, codec)
       PROVE  Goal
  <2>1. /\ phase = "built" /\ phase' \in {"built", "crashed"} /\ links \subseteq links'
        /\ UNCHANGED <<step, upstream, downstream, demuxer>>
    <3>1. CASE UriPadAdded(i) \/ DecodedPadAdded(i)
      BY <3>1, Zenon DEF UriPadAdded, DecodedPadAdded, build_vars, pointer_vars
    <3>2. CASE RtspPadAdded(i)
      BY <3>2, Zenon DEF RtspPadAdded, pointer_vars
    <3>3. ASSUME NEW codec \in Codecs \cup {Other}, SelectStream(i, codec)
          PROVE  /\ phase = "built" /\ phase' = "built" /\ links \subseteq links'
                 /\ UNCHANGED <<step, upstream, downstream, demuxer>>
      BY <3>3, Zenon DEF SelectStream, build_vars, pointer_vars
    <3>4. QED BY <3>1, <3>2, <3>3, <1>14
  <2>2. QED BY <2>1, <1>1, <1>2 DEF Building
<1>15. ASSUME NEW i \in Sources, SourceReset(i) PROVE Goal
  <2>1. /\ phase = "built" /\ phase' \in {"built", "lost"} /\ UNCHANGED <<step, upstream, downstream, demuxer>>
        /\ links' = links \ {<<Src(i, "src_elem"), Src(i, "depay")>>, <<Src(i, "decodebin"), Src(i, "src_que")>>}
    BY <1>15, Zenon DEF SourceReset, pointer_vars
  <2>2. \A l \in links : ~IsPad(l) => l \in links'
    <3>1. \A l : l \in {<<Src(i, "src_elem"), Src(i, "depay")>>, <<Src(i, "decodebin"), Src(i, "src_que")>>} => IsPad(l)
      BY DEF IsPad, Src
    <3>2. QED BY <2>1, <3>1, Zenon
  <2>3. CASE phase' = "built"
    <3>1. downstream \in {NoStage, "common_tee"}
      BY <2>1 DEF LinksInv
    <3> DEFINE more == links'
    <3>2. \A l \in links : ~IsPad(l) => l \in more
      BY <2>2
    <3> HIDE DEF more
    <3>3. Framed(phase, step, upstream, downstream, demuxer, more)
      BY <2>1, <3>1, <3>2, <1>0, FrameKept
    <3>4. QED BY <2>1, <2>3, <3>3 DEF more
  <2>4. QED BY <2>1, <2>3, <1>1 DEF Building
<1>16. CASE DestroyPipeline
  <2>1. phase' \in {"lost", "destroyed", "over"} /\ demuxer' = demuxer
    BY <1>16, Zenon DEF DestroyPipeline
  <2>2. QED BY <2>1, <1>1 DEF Building
<1>17. CASE UNCHANGED vars
  BY <1>17, <1>2 DEF vars, build_vars, pointer_vars
<1>18. QED
  BY <1>3, <1>4, <1>5, <1>6, <1>7, <1>8, <1>9, <1>10, <1>11, <1>12, <1>13, <1>14, <1>15, <1>16, <1>17,
     Zenon DEF Next

\* Before the first pipeline there is nothing to ask.
LEMMA FrameInit == Init => FrameInv
BY DEF Init, FrameInv, Framed, Building, After

-------------------------------------------------------------------------------
(* What the sources' pads have linked *)

\* While a pipeline is built no camera is linked with a depayloader; when it plays, one that
\* is linked has one, and one that has one has linked it up to the tee before the decoder.
PadsLinked ==
  \A i \in Sources :
    /\ phase \in Building => ~Linked(i, "src_elem", "depay")
    /\ phase = "built" /\ IsCamera(i) =>
         /\ Linked(i, "src_elem", "depay") => depay[i] # NoDepay
         /\ depay[i] # NoDepay => Depayloading(i) \subseteq links

\* At first there is no pipeline.
LEMMA PadsLinkedInit == Init => PadsLinked
BY DEF Init, PadsLinked, Building

\* A link of a pad that was not there before, or is there when a pipeline has just begun.
NewPads == \E l \in links' : IsPad(l) /\ (l \notin links \/ phase \in {"new", "destroyed"})

\* No step of create_pipeline makes the links of a pad.
LEMMA BuildsNoPads ==
  ASSUME GraphType, LinksInv,
         \/ CreateMultiSourceBin \/ CreateDemuxPipeline \/ CreateTiledInstance \/ CreateDemuxer \/ SkipInstance
         \/ CreateDemuxedInstance \/ InstancesCreated \/ AddStage \/ SkipStage \/ AddCommonTee
         \/ AddAndLinkBrokerSinks \/ LinkAll
  PROVE  ~NewPads /\ depay' = depay /\ phase \in Building \cup {"new", "destroyed"}
<1>1. \A S : OfNoSource(S) => \A l \in S : ~IsPad(l)
  BY NoPads
<1>2. /\ \A i : OfNoSource(Instance(i))
      /\ \A i : OfNoSource(OfDemuxer(i))
      /\ OfNoSource(OfTiler)
      /\ \A s \in Stages : OfNoSource(Chain(s, 0, StageBin[s]))
      /\ \A s \in Stages \cup {"common_tee"} : \A x : OfNoSource({<<StageOut(s), x>>})
      /\ \A x : OfNoSource({<<MsgConv, x>>}) /\ OfNoSource({<<Mux, x>>})
  <2>1. ASSUME NEW i PROVE OfNoSource(Instance(i))
    <3>1. OfNoSource(TeeAndSinks("sink_bin", i, SlotsOf(i))) /\ OfNoSource(Osd("osd", i, "sink_bin"))
          /\ OfNoSource(Chain("fallback", i, RenderBin("fake")))
      BY NoSourceInSinkBin
    <3>2. OfNoSource({<<<<"sink_bin", i, "tee">>, <<"fallback", i, "queue">>>>})
      BY DEF OfNoSource
    <3>3. OfNoSource(Fallback("sink_bin", i))
      BY <3>1, <3>2, Zenon DEF OfNoSource, Fallback
    <3>4. QED BY <3>1, <3>3, Zenon DEF OfNoSource, Instance
  <2>2. ASSUME NEW i PROVE OfNoSource(OfDemuxer(i))
    BY DEF OfNoSource, OfDemuxer, Demuxer, DemuxPad
  <2>3. OfNoSource(OfTiler)
    <3>1. OfNoSource(Chain("tiled_display", 0, TiledDisplayBin))
      BY NoSourceInSinkBin
    <3>2. OfNoSource({<<<<"tiled_display", 0, "tiler">>, InstanceIn(0)>>, <<TilerTee, <<"tiled_display", 0, "queue">>>>})
      BY DEF OfNoSource, TilerTee
    <3>3. QED BY <3>1, <3>2, Zenon DEF OfNoSource, OfTiler
  <2>4. ASSUME NEW s \in Stages PROVE OfNoSource(Chain(s, 0, StageBin[s]))
    <3>1. s # "source"
      BY DEF Stages
    <3>2. QED BY <3>1, NoSourceInSinkBin
  <2>5. ASSUME NEW s \in Stages \cup {"common_tee"}, NEW x PROVE OfNoSource({<<StageOut(s), x>>})
    BY StageBins, StageEnds DEF OfNoSource, Stages
  <2>6. \A x : OfNoSource({<<MsgConv, x>>}) /\ OfNoSource({<<Mux, x>>})
    BY DEF OfNoSource, MsgConv, Mux
  <2>7. QED BY <2>1, <2>2, <2>3, <2>4, <2>5, <2>6
<1>3. ASSUME UNCHANGED links, phase \notin {"new", "destroyed"} PROVE ~NewPads
  BY <1>3 DEF NewPads
<1>4. ASSUME phase \notin {"new", "destroyed"}, NEW A, links' = links \cup A, \A l \in A : ~IsPad(l) PROVE ~NewPads
  BY <1>4 DEF NewPads
<1>5. CASE CreateMultiSourceBin
  <2>1. /\ links' = UNION {SourceBin(i) \cup MuxLinks(i) : i \in Sources} /\ depay' = depay
        /\ phase \in {"new", "destroyed"}
    BY <1>5, Zenon DEF CreateMultiSourceBin, pad_vars
  <2>2. \A i : \A l \in SourceBin(i) \cup MuxLinks(i) : ~IsPad(l)
    BY NoPads
  <2>3. \A l \in links' : ~IsPad(l)
    BY <2>1, <2>2
  <2>4. QED BY <2>1, <2>3, Zenon DEF NewPads
<1>6. CASE CreateDemuxPipeline
  <2>1. phase = "demux" /\ depay' = depay
    BY <1>6 DEF CreateDemuxPipeline, pad_vars
  <2>2. \/ links' = links
        \/ \E x, y, i : links' = links \cup (TeeAndSinks("demux_sink_bin", 0, DemuxSlots)
                                              \cup Osd("demux_osd", 0, "demux_sink_bin")
                                              \cup {<<TilerTee, Demuxer>>, <<Demuxer, x>>, <<DemuxPad(i), y>>})
    <3>1. CASE DemuxSlots = {}
      BY <1>6, <3>1, Zenon DEF CreateDemuxPipeline
    <3>2. CASE DemuxSlots # {}
      <4> DEFINE first == CHOOSE k \in DemuxSlots : \A l \in DemuxSlots : k <= l
                 pad == DemuxPad(config.sinks[first].source)
                 in == IF config.osd THEN <<"demux_osd", 0, "queue">> ELSE <<"demux_sink_bin", 0, "queue">>
      <4>1. links' = links \cup TeeAndSinks("demux_sink_bin", 0, DemuxSlots) \cup Osd("demux_osd", 0, "demux_sink_bin")
                       \cup {<<TilerTee, Demuxer>>, <<Demuxer, pad>>, <<pad, in>>}
        BY <1>6, <3>2, Zenon DEF CreateDemuxPipeline
      <4> DEFINE j == config.sinks[first].source
      <4>2. links' = links \cup (TeeAndSinks("demux_sink_bin", 0, DemuxSlots) \cup Osd("demux_osd", 0, "demux_sink_bin")
                       \cup {<<TilerTee, Demuxer>>, <<Demuxer, DemuxPad(j)>>, <<DemuxPad(j), in>>})
        <5> HIDE DEF in, first
        <5>1. QED BY <4>1
      <4> HIDE DEF j, in
      <4>3. QED BY <4>2
    <3>3. QED BY <3>1, <3>2
  <2>3. ASSUME NEW x, NEW y, NEW i,
               links' = links \cup (TeeAndSinks("demux_sink_bin", 0, DemuxSlots)
                                     \cup Osd("demux_osd", 0, "demux_sink_bin")
                                     \cup {<<TilerTee, Demuxer>>, <<Demuxer, x>>, <<DemuxPad(i), y>>})
        PROVE  ~NewPads
    <3>1. OfNoSource(TeeAndSinks("demux_sink_bin", 0, DemuxSlots)) /\ OfNoSource(Osd("demux_osd", 0, "demux_sink_bin"))
      BY NoSourceInSinkBin
    <3>2. OfNoSource({<<TilerTee, Demuxer>>, <<Demuxer, x>>, <<DemuxPad(i), y>>})
      BY DEF OfNoSource, TilerTee, Demuxer, DemuxPad
    <3> DEFINE A == TeeAndSinks("demux_sink_bin", 0, DemuxSlots) \cup Osd("demux_osd", 0, "demux_sink_bin")
                      \cup {<<TilerTee, Demuxer>>, <<Demuxer, x>>, <<DemuxPad(i), y>>}
    <3>3. \A l \in A : ~IsPad(l)
      BY <1>1, <3>1, <3>2, Zenon
    <3>4. links' = links \cup A
      BY <2>3
    <3> HIDE DEF A
    <3>5. QED BY <1>4, <2>1, <3>3, <3>4
  <2>4. QED BY <1>3, <2>1, <2>2, <2>3 DEF Building
<1>7. CASE CreateTiledInstance
  <2>1. phase = "instances" /\ depay' = depay
        /\ links' = links \cup (Instance(0) \cup OfTiler)
    <3>1. phase = "instances" /\ depay' = depay
          /\ links' = links \cup Instance(0) \cup Chain("tiled_display", 0, TiledDisplayBin)
                \cup {<<<<"tiled_display", 0, "tiler">>, InstanceIn(0)>>,
                      <<TilerTee, <<"tiled_display", 0, "queue">>>>}
      BY <1>7, Zenon DEF CreateTiledInstance, pad_vars
    <3>2. QED BY <3>1, Zenon DEF OfTiler
  <2>2. \A l \in Instance(0) \cup OfTiler : ~IsPad(l)
    BY <1>1, <1>2
  <2>3. QED BY <1>4, <2>1, <2>2 DEF Building
<1>8. CASE CreateDemuxedInstance
  <2>1. phase = "demuxed" /\ depay' = depay
        /\ links' = links \cup (Instance(step) \cup IF DemuxerIsLoose THEN {} ELSE OfDemuxer(step))
    <3>1. phase = "demuxed" /\ depay' = depay
          /\ links' = links \cup Instance(step)
                \cup (IF DemuxerIsLoose THEN {}
                      ELSE {<<Demuxer, DemuxPad(step)>>, <<DemuxPad(step), InstanceIn(step)>>})
      BY <1>8, Zenon DEF CreateDemuxedInstance, pad_vars
    <3>2. QED BY <3>1, Zenon DEF OfDemuxer
  <2>2. \A l \in Instance(step) \cup IF DemuxerIsLoose THEN {} ELSE OfDemuxer(step) : ~IsPad(l)
    BY <1>1, <1>2
  <2>3. QED BY <1>4, <2>1, <2>2 DEF Building
<1>9. CASE AddStage
  <2> DEFINE s == CreationOrder[step]
             A == Chain(s, 0, StageBin[s]) \cup (IF upstream = NoStage THEN {} ELSE {<<StageOut(s), StageIn(upstream)>>})
  <2>1. phase = "common" /\ depay' = depay /\ links' = links \cup A /\ step <= 6
    <3>1. phase = "common" /\ depay' = depay /\ step <= 6
          /\ links' = links \cup Chain(s, 0, StageBin[s])
                        \cup (IF upstream = NoStage THEN {} ELSE {<<StageOut(s), StageIn(upstream)>>})
      BY <1>9, CreationOrderIs, Zenon DEF AddStage, pad_vars
    <3>2. QED BY <3>1, Zenon
  <2>2. s \in Stages
    BY <2>1, Places DEF LinksInv
  <2>3. \A l \in A : ~IsPad(l)
    <3> HIDE DEF s
    <3>1. QED BY <1>1, <1>2, <2>2
  <2> HIDE DEF A
  <2>4. QED BY <1>4, <2>1, <2>3 DEF Building
<1>10. CASE AddCommonTee
  <2>1. phase = "common" /\ depay' = depay
    BY <1>10 DEF AddCommonTee, pad_vars
  <2>2. CASE downstream = NoStage
    BY <1>3, <2>1, <1>10, <2>2 DEF AddCommonTee, Building
  <2>3. CASE downstream # NoStage
    <3> DEFINE A == IF config.msg_conv
                    THEN {<<StageOut(downstream), MsgConv>>, <<MsgConv, StageIn("common_tee")>>}
                    ELSE {<<StageOut(downstream), StageIn("common_tee")>>}
    <3>1. links' = links \cup A
      BY <1>10, <2>3, Zenon DEF AddCommonTee
    <3>2. downstream \in Stages
      BY <2>1, <2>3 DEF LinksInv, Running
    <3>3. \A l \in A : ~IsPad(l)
      BY <1>1, <1>2, <3>2
    <3> HIDE DEF A
    <3>4. QED BY <1>4, <2>1, <3>1, <3>3 DEF Building
  <2>4. QED BY <2>2, <2>3
<1>11. CASE AddAndLinkBrokerSinks
  <2>1. phase = "broker" /\ depay' = depay /\ links' \in {links, links \cup ToBrokers}
    BY <1>11, Zenon DEF AddAndLinkBrokerSinks, pad_vars, ToBrokers
  <2>2. \A l \in ToBrokers : ~IsPad(l)
    BY <1>1, FramedNoSource
  <2>3. QED BY <1>3, <1>4, <2>1, <2>2 DEF Building
<1>12. CASE LinkAll
  <2>1. phase = "last" /\ depay' = depay /\ links' \in {links, links \cup Ends(upstream, downstream)}
    BY <1>12, Zenon DEF LinkAll, pad_vars, Ends, Final
  <2>2. downstream \in {NoStage, "common_tee"}
    BY <2>1 DEF LinksInv
  <2>3. \A l \in Ends(upstream, downstream) : ~IsPad(l)
    BY <1>1, <2>2, FramedNoSource
  <2>4. QED BY <1>3, <1>4, <2>1, <2>3 DEF Building
<1>13. CASE CreateDemuxer \/ SkipInstance \/ InstancesCreated \/ SkipStage
  <2>1. phase \in Building /\ depay' = depay /\ links' = links
    BY <1>13, Zenon DEF CreateDemuxer, SkipInstance, InstancesCreated, SkipStage, pad_vars, Building
  <2>2. QED BY <1>3, <2>1 DEF Building
<1>14. QED BY <1>5, <1>6, <1>7, <1>8, <1>9, <1>10, <1>11, <1>12, <1>13

\* Every step keeps what the pads have linked: only a camera that is reset unlinks its
\* source from the depayloader, which stays linked with the rest.
LEMMA PadsLinkedNext == GraphType /\ LinksInv /\ PadsInv /\ PadsLinked /\ [Next]_vars => PadsLinked'
<1> SUFFICES ASSUME GraphType, LinksInv, PadsInv, PadsLinked, [Next]_vars, NEW i \in Sources'
             PROVE  /\ phase' \in Building => <<Src(i, "src_elem"), Src(i, "depay")>> \notin links'
                    /\ phase' = "built" /\ IsCamera(i)' =>
                         /\ <<Src(i, "src_elem"), Src(i, "depay")>> \in links' => depay'[i] # NoDepay
                         /\ depay'[i] # NoDepay => Depayloading(i) \subseteq links'
  BY DEF PadsLinked, Linked, Src, NoDepay, Depayloading, Chain
<1> DEFINE pad == <<Src(i, "src_elem"), Src(i, "depay")>>
<1>0. /\ i \in Sources /\ (IsCamera(i)' <=> IsCamera(i)) /\ IsPad(pad)
      /\ phase \in Building => pad \notin links
      /\ phase = "built" /\ IsCamera(i) =>
           /\ pad \in links => depay[i] # NoDepay
           /\ depay[i] # NoDepay => Depayloading(i) \subseteq links
  <2>1. config' = config
    BY ConfigStays
  <2>2. i \in Sources /\ (IsCamera(i)' <=> IsCamera(i))
    BY <2>1, PartsStay, Zenon
  <2>3. IsPad(pad)
    BY DEF IsPad, Src
  <2>4. /\ phase \in Building => pad \notin links
        /\ phase = "built" /\ IsCamera(i) =>
             /\ pad \in links => depay[i] # NoDepay
             /\ depay[i] # NoDepay => Depayloading(i) \subseteq links
    BY <2>2, Zenon DEF PadsLinked, Linked
  <2>5. QED BY <2>2, <2>3, <2>4
<1>00. i \in Indices /\ "built" \notin Building /\ \A l \in Depayloading(i) : ~IsPad(l)
  <2>1. i \in Indices
    BY <1>0, ConfigFacts, GraphAssumption DEF GraphType, Indices
  <2>2. QED BY <2>1, NoPads DEF Building
<1> HIDE DEF pad
<1> SUFFICES /\ phase' \in Building => pad \notin links'
             /\ phase' = "built" /\ IsCamera(i) =>
                  /\ pad \in links' => depay'[i] # NoDepay
                  /\ depay'[i] # NoDepay => Depayloading(i) \subseteq links'
  BY <1>0 DEF pad
<1>1. CASE \/ CreateMultiSourceBin \/ CreateDemuxPipeline \/ CreateTiledInstance \/ CreateDemuxer \/ SkipInstance
           \/ CreateDemuxedInstance \/ InstancesCreated \/ AddStage \/ SkipStage \/ AddCommonTee
           \/ AddAndLinkBrokerSinks \/ LinkAll
  <2>1. ~NewPads /\ depay' = depay /\ phase \in Building \cup {"new", "destroyed"}
    BY <1>1, BuildsNoPads
  <2>2. pad \notin links'
    <3>1. pad \in links' => pad \in links /\ phase \in Building
      BY <2>1, <1>0, Zenon DEF NewPads
    <3>2. QED BY <3>1, <1>0
  <2>3. IsCamera(i) => depay[i] = NoDepay
    BY <2>1, <1>0, Zenon DEF PadsInv
  <2>4. QED BY <2>1, <2>2, <2>3
<1>2. CASE phase' \notin Building \cup {"built"}
  BY <1>2
<1>3. ASSUME phase = "built", phase' \notin Building, links \subseteq links', depay' = depay, pad \in links' => pad \in links
      PROVE  /\ phase' \in Building => pad \notin links'
             /\ phase' = "built" /\ IsCamera(i) =>
                  /\ pad \in links' => depay'[i] # NoDepay
                  /\ depay'[i] # NoDepay => Depayloading(i) \subseteq links'
  BY <1>3, <1>0
<1>4. ASSUME NEW j \in Sources, UriPadAdded(j) \/ DecodedPadAdded(j)
      PROVE  /\ phase' \in Building => pad \notin links'
             /\ phase' = "built" /\ IsCamera(i) =>
                  /\ pad \in links' => depay'[i] # NoDepay
                  /\ depay'[i] # NoDepay => Depayloading(i) \subseteq links'
  <2>1. /\ phase = "built" /\ phase' = "built" /\ depay' = depay
        /\ \/ links' = links \cup {<<Src(j, "src_elem"), Src(j, "tee")>>}
           \/ links' = links \cup {<<Src(j, "decodebin"), Src(j, "src_que")>>}
    BY <1>4, Zenon DEF UriPadAdded, DecodedPadAdded, build_vars, pad_vars
  <2>2. pad # <<Src(j, "src_elem"), Src(j, "tee")>> /\ pad # <<Src(j, "decodebin"), Src(j, "src_que")>>
    BY DEF pad, Src
  <2>3. QED BY <1>00, <1>3, <2>1, <2>2
<1>5. ASSUME NEW j \in Sources, RtspPadAdded(j)
      PROVE  /\ phase' \in Building => pad \notin links'
             /\ phase' = "built" /\ IsCamera(i) =>
                  /\ pad \in links' => depay'[i] # NoDepay
                  /\ depay'[i] # NoDepay => Depayloading(i) \subseteq links'
  <2>1. /\ phase = "built" /\ phase' \in {"built", "crashed"} /\ depay' = depay
        /\ \/ links' = links
           \/ links' = links \cup {<<Src(j, "src_elem"), Src(j, "depay")>>} /\ depay[j].build = builds
    <3>1. CASE depay[j].build # builds
      BY <1>5, <3>1, Zenon DEF RtspPadAdded, pad_vars
    <3>2. CASE depay[j].build = builds
      BY <1>5, <3>2, Zenon DEF RtspPadAdded, pad_vars
    <3>3. QED BY <3>1, <3>2
  <2>2. {"built", "crashed"} \cap Building = {}
    BY DEF Building
  <2>3. CASE links' = links
    BY <2>1, <2>2, <2>3, <1>3
  <2>4. CASE links' = links \cup {<<Src(j, "src_elem"), Src(j, "depay")>>} /\ depay[j].build = builds
    <3>1. CASE i = j
      <4>1. depay[i] # NoDepay
        <5>1. builds >= 1 /\ builds \in Int
          BY <2>1, GraphAssumption DEF GraphType
        <5>2. NoDepay.build = 0
          BY DEF NoDepay
        <5>3. QED BY <5>1, <5>2, <3>1, <2>4
      <4>2. QED BY <4>1, <2>1, <2>2, <2>4, <1>0
    <3>2. CASE i # j
      <4>1. pad # <<Src(j, "src_elem"), Src(j, "depay")>>
        BY <3>2 DEF pad, Src
      <4>2. QED BY <4>1, <2>1, <2>2, <2>4, <1>3
    <3>3. QED BY <3>1, <3>2
  <2>5. QED BY <2>1, <2>3, <2>4
<1>6. ASSUME NEW j \in Sources, NEW codec \in Codecs \cup {Other}, SelectStream(j, codec)
      PROVE  /\ phase' \in Building => pad \notin links'
             /\ phase' = "built" /\ IsCamera(i) =>
                  /\ pad \in links' => depay'[i] # NoDepay
                  /\ depay'[i] # NoDepay => Depayloading(i) \subseteq links'
  <2>1. phase = "built" /\ phase' = "built"
    BY <1>6, Zenon DEF SelectStream, build_vars
  <2>2. CASE depay[j] # NoDepay
    <3>1. depay' = depay /\ links' = links
      BY <1>6, <2>2, Zenon DEF SelectStream
    <3>2. QED BY <1>00, <1>3, <2>1, <3>1
  <2>3. CASE depay[j] = NoDepay
    <3>1. /\ depay' = [depay EXCEPT ![j] = [codec |-> codec, build |-> builds]]
          /\ links' = links \cup Depayloading(j)
      BY <1>6, <2>3, Zenon DEF SelectStream, Depayloading
    <3>2. pad \notin Depayloading(j)
      BY <1>0, NoPads
    <3>3. CASE i = j
      BY <3>1, <3>2, <3>3, <2>1, <2>3, <1>0, <1>00
    <3>4. CASE i # j
      <4>1. depay'[i] = depay[i]
        BY <3>1, <3>4, <1>00 DEF GraphType
      <4>2. QED BY <4>1, <3>1, <3>2, <2>1, <1>0, <1>00
    <3>5. QED BY <3>3, <3>4
  <2>4. QED BY <2>2, <2>3
<1>7. ASSUME NEW j \in Sources, SourceReset(j)
      PROVE  /\ phase' \in Building => pad \notin links'
             /\ phase' = "built" /\ IsCamera(i) =>
                  /\ pad \in links' => depay'[i] # NoDepay
                  /\ depay'[i] # NoDepay => Depayloading(i) \subseteq links'
  <2>1. phase = "built" /\ phase' \in {"built", "lost"} /\ depay' = depay
        /\ links' = links \ {<<Src(j, "src_elem"), Src(j, "depay")>>, <<Src(j, "decodebin"), Src(j, "src_que")>>}
    BY <1>7, Zenon DEF SourceReset
  <2>2. phase' \notin Building
    BY <2>1 DEF Building
  <2>3. \A l \in {<<Src(j, "src_elem"), Src(j, "depay")>>, <<Src(j, "decodebin"), Src(j, "src_que")>>} : IsPad(l)
    BY DEF IsPad, Src
  <2>4. depay[i] # NoDepay /\ IsCamera(i) => Depayloading(i) \subseteq links'
    BY <2>1, <2>3, <1>0, <1>00
  <2>5. QED BY <2>1, <2>2, <2>4, <1>0
<1>8. CASE BuildFails \/ DestroyPipeline
  <2>1. phase' \in {"failed", "lost", "destroyed", "over"}
    BY <1>8, Zenon DEF BuildFails, DestroyPipeline
  <2>2. QED BY <2>1, <1>2 DEF Building
<1>9. CASE UNCHANGED vars
  BY <1>9, <1>0 DEF vars, build_vars, pad_vars
<1>10. QED BY <1>1, <1>4, <1>5, <1>6, <1>7, <1>8, <1>9 DEF Next

-------------------------------------------------------------------------------
(* Where frames do not come *)

\* The instance that shows source i: the tiler's shows all.
Target(i) == IF config.mode = "enabled" THEN 0 ELSE i

\* The elements of the other instances, of their sinks and of their pads of the demuxer.
Astray(i, z) ==
  \/ z[1] \in {"sink_bin", "osd"} /\ z[2] # Target(i)
  \/ z[1] = "demuxer" /\ z[3] = "src" /\ z[2] # i
  \/ z[1] = "sub_bin" /\ z[2] \notin SlotsOf(Target(i)) \cup Brokers

\* A link that frames of source i pass leads to none of them, unless it starts in one.
Proper(i, S) == \A l \in S : (l[1] = Demuxer => l[2] = DemuxPad(i)) /\ Astray(i, l[2]) => Astray(i, l[1])

\* How sets of such links are put together.
LEMMA ProperParts ==
  /\ \A i, S, T : Proper(i, S) /\ Proper(i, T) => Proper(i, S \cup T)
  /\ \A i : Proper(i, {})
  /\ \A i, j, b, elements : b # "demuxer" => Proper(i, Chain(b, j, elements))
  /\ \A i, x, y : ~Astray(i, y) \/ Astray(i, x) => Proper(i, {<<x, y>>})
<1>1. ASSUME NEW i, NEW j, NEW b, NEW elements, b # "demuxer" PROVE Proper(i, Chain(b, j, elements))
  <2>1. \A e, f : Astray(i, <<b, j, e>>) <=> Astray(i, <<b, j, f>>)
    BY <1>1 DEF Astray
  <2>2. QED BY <2>1 DEF Proper, Chain
<1>2. ASSUME NEW i, NEW x, NEW y, ~Astray(i, y) \/ Astray(i, x) PROVE Proper(i, {<<x, y>>})
  BY <1>2 DEF Proper
<1>3. (\A i, S, T : Proper(i, S) /\ Proper(i, T) => Proper(i, S \cup T)) /\ \A i : Proper(i, {})
  BY DEF Proper
<1>4. QED BY <1>1, <1>2, <1>3

\* No link of a source, a stage or the end of the graph leads to one.
LEMMA ProperEnds ==
  ASSUME NEW i, config.mode # "parallel"
  PROVE  Proper(i, OfSources) /\ Proper(i, OfStages) /\ Proper(i, OfCommonTee) /\ Proper(i, OfLast)
<1>1. \A z : z[1] \notin {"sink_bin", "osd", "demuxer", "sub_bin"} => ~Astray(i, z)
  BY DEF Astray
<1>2. /\ \A s \in Stages \cup {"common_tee"} : s # "demuxer" /\ ~Astray(i, StageIn(s))
      /\ ~Astray(i, MsgConv) /\ ~Astray(i, Mux) /\ \A j : ~Astray(i, MuxPad(j))
  <2>1. \A s \in Stages \cup {"common_tee"} : s \notin {"sink_bin", "osd", "demuxer", "sub_bin"} /\ StageIn(s)[1] = s
    BY StageBins, StageEnds DEF Stages
  <2>2. MsgConv[1] = "msg_conv" /\ Mux[1] = "mux" /\ \A j : MuxPad(j)[1] = "mux"
    BY DEF MsgConv, Mux, MuxPad
  <2>3. QED BY <1>1, <2>1, <2>2
<1>3. ~Astray(i, Final)
  BY DEF Astray, Final, TilerTee, Demuxer
<1>4. Proper(i, OfSources)
  <2>1. ASSUME NEW j \in Sources, NEW l \in OfSource(j) PROVE l[2][1] \in {"source", "mux"}
    <3>1. \A elements : \A m \in Chain("source", j, elements) : m[2][1] = "source"
      BY DEF Chain
    <3>2. \A m \in SourceBin(j) : m[2][1] = "source"
      <4>1. (\A m \in CameraSourceBin(j) : m[2][1] = "source") /\ \A m \in UriDecodeSrcBin(j) : m[2][1] = "source"
        <5> HIDE DEF Chain
        <5>1. \A m \in CameraSourceBin(j) : m[2][1] = "source"
          BY <3>1 DEF CameraSourceBin
        <5>2. \A m \in UriDecodeSrcBin(j) : m[2][1] = "source"
          BY <3>1 DEF UriDecodeSrcBin
        <5>3. QED BY <5>1, <5>2
      <4>2. \A m \in RtspSrcBin(j) : m[2][1] = "source"
        BY <3>1, Zenon DEF RtspSrcBin
      <4>3. QED BY <4>1, <4>2, Zenon DEF SourceBin
    <3>3. \A m \in MuxLinks(j) : m[2][1] = "mux"
      BY DEF MuxLinks, MuxPad, Mux
    <3>4. \A m \in PadLinks(j) : m[2][1] = "source"
      BY SourceLinks DEF PadLinks, Src
    <3>5. QED BY <2>1, <3>2, <3>3, <3>4 DEF OfSource
  <2>2. QED BY <1>1, <2>1 DEF OfSources, Proper
<1>5. Proper(i, OfStages)
  <2>1. ASSUME NEW s \in Running PROVE Proper(i, OfStage(s))
    <3>1. s \in Stages
      BY DEF Running
    <3>2. Proper(i, Chain(s, 0, StageBin[s]))
      BY <1>2, <3>1, ProperParts
    <3>3. Proper(i, {<<StageOut(s), StageIn(t)>> : t \in StagesAfter(s)})
      BY <1>2 DEF Proper, StagesAfter, Running
    <3>4. QED BY <3>2, <3>3, ProperParts DEF OfStage
  <2>2. QED BY <2>1 DEF Proper, OfStages
<1>6. Proper(i, OfCommonTee)
  <2>1. \A k \in Brokers : ~Astray(i, SubBinIn(k))
    BY DEF Astray, SubBinIn
  <2>2. Proper(i, ToBrokers)
    BY <2>1 DEF Proper, ToBrokers
  <2>3. \A s : Proper(i, ToCommonTee(s))
    BY <1>2 DEF Proper, ToCommonTee
  <2>4. Proper(i, UNION {ToCommonTee(s) : s \in Running})
    BY <2>3 DEF Proper
  <2>5. QED BY <2>2, <2>4, ProperParts DEF OfCommonTee
<1>7. Proper(i, OfLast)
  BY <1>2, <1>3 DEF Proper, OfLast, Running
<1>8. QED BY <1>4, <1>5, <1>6, <1>7

\* No link of an instance or of the tiler or demuxer does.
LEMMA ProperInstances ==
  ASSUME config \in Configs, NEW i, config.mode # "parallel"
  PROVE  Proper(i, OfInstances) /\ Proper(i, OfMode)
<1>1. ASSUME NEW j \in Instanced PROVE Proper(i, OfInstance(j))
  <2>1. Proper(i, TeeAndSinks("sink_bin", j, SlotsOf(j)))
    <3>1. \A k : Proper(i, SubBin(k))
      BY ProperParts DEF SubBin
    <3>2. Proper(i, SubBins(SlotsOf(j)))
      BY <3>1 DEF Proper, SubBins
    <3>3. Proper(i, TeeLinks("sink_bin", j, SlotsOf(j)))
      <4>1. ASSUME NEW k \in SlotsOf(j), Astray(i, SubBinIn(k)) PROVE Astray(i, <<"sink_bin", j, "tee">>)
        <5>1. k \notin SlotsOf(Target(i))
          BY <4>1 DEF Astray, SubBinIn
        <5>2. j # Target(i)
          BY <5>1
        <5>3. QED BY <5>2 DEF Astray
      <4>2. QED BY <4>1 DEF TeeLinks, Proper
    <3>4. Proper(i, Chain("sink_bin", j, <<"queue", "tee">>))
      BY ProperParts
    <3>5. Proper(i, Chain("sink_bin", j, <<"queue", "tee">>) \cup SubBins(SlotsOf(j)))
      BY <3>2, <3>4, ProperParts
    <3>6. QED BY <3>3, <3>5, ProperParts, SinkBinParts
  <2>2. Proper(i, Osd("osd", j, "sink_bin"))
    <3>1. Proper(i, Chain("osd", j, OsdBin))
      BY ProperParts
    <3>2. ~Astray(i, <<"sink_bin", j, "queue">>) \/ Astray(i, <<"osd", j, "nvosd">>)
      BY DEF Astray
    <3>3. Proper(i, {<<<<"osd", j, "nvosd">>, <<"sink_bin", j, "queue">>>>})
      BY <3>2, ProperParts
    <3>4. QED BY <3>1, <3>3, ProperParts, Zenon DEF Osd
  <2>3. Proper(i, Fallback("sink_bin", j))
    <3>1. Proper(i, Chain("fallback", j, RenderBin("fake")))
      BY ProperParts
    <3>2. ~Astray(i, <<"fallback", j, "queue">>)
      BY DEF Astray
    <3>3. Proper(i, {<<<<"sink_bin", j, "tee">>, <<"fallback", j, "queue">>>>})
      BY <3>2, ProperParts
    <3>4. QED BY <3>1, <3>3, ProperParts, Zenon DEF Fallback
  <2>4. Proper(i, WithSinks(j))
    BY <2>1, <2>2, ProperParts, Zenon DEF WithSinks
  <2>5. QED BY <2>3, <2>4, ProperParts, Zenon DEF OfInstance
<1>2. config.mode = "enabled" => Proper(i, OfTiler)
  <2> SUFFICES ASSUME config.mode = "enabled" PROVE Proper(i, OfTiler)
    OBVIOUS
  <2>1. ~Astray(i, InstanceIn(0)) /\ ~Astray(i, <<"tiled_display", 0, "queue">>)
    BY DEF Astray, InstanceIn, Target
  <2>2. Proper(i, {<<<<"tiled_display", 0, "tiler">>, InstanceIn(0)>>, <<TilerTee, <<"tiled_display", 0, "queue">>>>})
    BY <2>1 DEF Proper
  <2>3. Proper(i, Chain("tiled_display", 0, TiledDisplayBin))
    BY ProperParts
  <2>4. QED BY <2>2, <2>3, ProperParts, Zenon DEF OfTiler
<1>3. config.mode = "disabled" => Proper(i, OfDemuxers)
  <2> SUFFICES ASSUME config.mode = "disabled", NEW j PROVE Proper(i, OfDemuxer(j))
    BY DEF Proper, OfDemuxers
  <2>1. Target(i) = i
    BY DEF Target
  <2>2. DemuxPad(j) = DemuxPad(i) => ~Astray(i, DemuxPad(j))
    BY DEF Astray, DemuxPad
  <2>3. Astray(i, InstanceIn(j)) => Astray(i, DemuxPad(j))
    BY <2>1 DEF Astray, InstanceIn, DemuxPad
  <2>4. QED BY <2>2, <2>3 DEF OfDemuxer, Proper
<1>4. config.mode \in {"enabled", "disabled"} => Proper(i, OfMode)
  BY <1>2, <1>3 DEF OfMode
<1>5. Proper(i, OfInstances)
  BY <1>1 DEF Proper, OfInstances
<1>6. config.mode \in {"enabled", "disabled"}
  BY ConfigFacts
<1>7. QED BY <1>4, <1>5, <1>6

\* So frames of source i never come to an element of another's instance.
LEMMA FramesProper ==
  ASSUME config \in Configs, links \subseteq Possible, config.mode # "parallel", NEW i, NEW z \in Frames(i)
  PROVE  ~Astray(i, z)
<1> DEFINE via == {link \in links : link[1] = Demuxer => link[2] = DemuxPad(i)}
           C == {y \in Nodes \cup {Src(i, "src_elem")} : ~Astray(i, y)}
<1>1. Proper(i, OfSources \cup OfInstances \cup OfMode \cup OfStages \cup OfCommonTee \cup OfLast)
  BY ProperEnds, ProperInstances, ProperParts
<1>2. Proper(i, Possible)
  BY <1>1, Zenon DEF Possible
<1>3. IsFiniteSet(links)
  BY PossibleFinite, FS_Subset
<1>4. {Src(i, "src_elem")} \subseteq C
  BY DEF Astray, Src
<1>5. ASSUME NEW l \in via, l[1] \in C PROVE l[2] \in C
  <2>1. l[2] \in Nodes
    BY DEF Nodes
  <2>2. ~Astray(i, l[2])
    BY <1>2, <1>5 DEF Proper
  <2>3. QED BY <2>1, <2>2
<1> HIDE DEF C, via
<1>6. Reach({Src(i, "src_elem")}, via) \subseteq C
  BY <1>3, <1>4, <1>5, ReachStays
<1>7. z \in C
  BY <1>6, Zenon DEF Frames, via
<1>8. QED BY <1>7 DEF C

\* The sinks that get the frames of a source are configured for it.
LEMMA FedAsConfigured ==
  ASSUME config \in Configs, links \subseteq Possible, Sound, NEW i \in Sources, NEW k \in Sinks, SinkOf(k) \in Frames(i)
  PROVE  i \in SourcesOf(k)
<1>1. config.mode # "parallel"
  BY DEF Sound
<1>2. ~Astray(i, SinkOf(k))
  BY <1>1, FramesProper
<1>3. k \in SlotsOf(Target(i)) \cup Brokers
  BY <1>2 DEF Astray, SinkOf
<1>4. CASE k \in SlotsOf(Target(i))
  <2>1. config.sinks[k].source = Target(i) /\ ~config.sinks[k].demux
    BY <1>4 DEF SlotsOf
  <2>2. QED BY <2>1 DEF SourcesOf, Target
<1>5. CASE k \in Brokers
  <2>1. config.sinks[k].source = 0 /\ ~config.sinks[k].demux /\ IsBroker(k)
    BY <1>5 DEF Sound, Brokers
  <2>2. QED BY <2>1 DEF SourcesOf
<1>6. QED BY <1>3, <1>4, <1>5

-------------------------------------------------------------------------------
(* Where frames do come *)

\* The links that frames of source i pass, and a set of elements that they do not leave.
Via(i) == {link \in links : link[1] = Demuxer => link[2] = DemuxPad(i)}
Carries(C, some) == \A l \in some : l[1] \in C => l[2] \in C

\* The demuxer alone keeps the sources apart.
LEMMA OnVia ==
  ASSUME NEW i, NEW C, Carries(C, Via(i)), NEW S \in SUBSET links, \A l \in S : l[1][1] # "demuxer"
  PROVE  Carries(C, S)
<1>1. \A l \in S : l[1] # Demuxer
  BY DEF Demuxer
<1>2. QED BY <1>1 DEF Carries, Via

\* A chain carries what has its first element to all of them.
LEMMA ChainCarries ==
  ASSUME NEW b, b # "demuxer", NEW j, NEW elements, Len(elements) \in Nat, Len(elements) >= 1,
         Chain(b, j, elements) \subseteq links, NEW i, NEW C, Carries(C, Via(i)), <<b, j, elements[1]>> \in C
  PROVE  \A n \in 1..Len(elements) : <<b, j, elements[n]>> \in C
<1> DEFINE Has(n) == n + 1 <= Len(elements) => <<b, j, elements[n + 1]>> \in C
           S == {n \in Nat : Has(n)}
<1>1. \A l \in Chain(b, j, elements) : l[1][1] # "demuxer"
  BY DEF Chain
<1>2. Carries(C, Chain(b, j, elements))
  BY <1>1, OnVia
<1>3. 0 \in S
  OBVIOUS
<1>4. ASSUME NEW n \in Nat, n \in S PROVE n + 1 \in S
  <2> SUFFICES ASSUME n + 2 <= Len(elements) PROVE <<b, j, elements[n + 2]>> \in C
    OBVIOUS
  <2>1. <<b, j, elements[n + 1]>> \in C
    BY <1>4
  <2>2. n + 1 \in 1..(Len(elements) - 1) /\ (n + 1) + 1 = n + 2
    OBVIOUS
  <2>3. <<<<b, j, elements[n + 1]>>, <<b, j, elements[n + 2]>>>> \in Chain(b, j, elements)
    BY <2>2 DEF Chain
  <2>4. QED BY <1>2, <2>1, <2>3 DEF Carries
<1> HIDE DEF S
<1>5. \A n \in Nat : n \in S
  BY <1>3, <1>4, SetInduction
<1>6. ASSUME NEW n \in 1..Len(elements) PROVE <<b, j, elements[n]>> \in C
  <2>1. n - 1 \in Nat /\ (n - 1) + 1 = n
    OBVIOUS
  <2>2. n - 1 \in S
    BY <1>5, <2>1
  <2>3. QED BY <2>1, <2>2 DEF S
<1>7. QED BY <1>6

\* What a pipeline that plays is known to be.
Plays == GraphType /\ LinksInv /\ FrameInv /\ OrderInv /\ PadsLinked /\ Playing /\ Sound

\* So all that create_pipeline links is there.
LEMMA PlaysHas ==
  ASSUME Plays
  PROVE  /\ config \in Configs /\ phase = "built" /\ config.mode \in {"disabled", "enabled"}
         /\ \A i \in Sources : SourceBin(i) \cup MuxLinks(i) \subseteq links
         /\ \A i \in Instanced : Branch(i) \subseteq links
         /\ \A n \in Passed : StageLinks(n) \subseteq links /\ LeadsOut(n, links) /\ downstream = "common_tee"
         /\ downstream = "common_tee" /\ config.msg_conv => <<MsgConv, StageIn("common_tee")>> \in links
         /\ ToBrokers \subseteq links /\ Ends(upstream, downstream) \subseteq links
         /\ config.mode = "enabled" => demuxer = 0
         /\ downstream \in {NoStage, "common_tee"} /\ (upstream = NoStage <=> downstream = NoStage)
         /\ upstream \in Running \cup {NoStage}
         /\ Joined(Passed, links) /\ links \subseteq Possible /\ IsFiniteSet(links)
         /\ \A i \in Sources : Delivers(i)
<1>1. config \in Configs /\ phase = "built" /\ config.mode # "parallel" /\ \A i \in Sources : Delivers(i)
  BY DEF Plays, GraphType, Playing, Sound
<1>2. config.mode \in {"disabled", "enabled"}
  BY <1>1, ConfigFacts
<1>3. Framed("built", step, upstream, downstream, demuxer, links)
  BY <1>1 DEF Plays, FrameInv
<1>4. /\ \A i \in Sources : SourceBin(i) \cup MuxLinks(i) \subseteq links
      /\ \A i \in Instanced : Branch(i) \subseteq links
      /\ \A n \in Passed : StageLinks(n) \subseteq links /\ LeadsOut(n, links) /\ downstream = "common_tee"
      /\ downstream = "common_tee" /\ config.msg_conv => <<MsgConv, StageIn("common_tee")>> \in links
      /\ ToBrokers \subseteq links /\ Ends(upstream, downstream) \subseteq links
      /\ config.mode = "enabled" => demuxer = 0
  BY <1>3 DEF Framed, After
<1>5. /\ downstream \in {NoStage, "common_tee"} /\ (upstream = NoStage <=> downstream = NoStage)
      /\ upstream \in Running \cup {NoStage} /\ links \subseteq Possible
  BY <1>1 DEF Plays, LinksInv
<1>6. Joined(Passed, links)
  BY <1>1 DEF Plays, OrderInv
<1>7. IsFiniteSet(links)
  BY <1>1, <1>5, PossibleFinite, FS_Subset
<1>8. QED BY <1>1, <1>2, <1>4, <1>5, <1>6, <1>7

\* The stages that run are those that were passed, and there is a common tee if there is one.
LEMMA RunningPassed ==
  /\ \A s \in Running : s \in Stages /\ \E n \in Passed : s = CreationOrder[n]
  /\ \A n \in Passed : CreationOrder[n] \in Running
<1>1. ASSUME NEW s \in Running PROVE s \in Stages /\ \E n \in Passed : s = CreationOrder[n]
  <2>1. s \in Stages /\ Enabled(s)
    BY DEF Running
  <2>2. 7 - Place[s] \in 1..6 /\ s = CreationOrder[7 - Place[s]]
    BY <2>1, Places
  <2> DEFINE n == 7 - Place[s]
  <2>3. n \in 1..6 /\ s = CreationOrder[n]
    BY <2>2
  <2> HIDE DEF n
  <2>4. QED BY <2>1, <2>3 DEF Passed
<1>2. ASSUME NEW n \in Passed PROVE CreationOrder[n] \in Running
  BY Places DEF Passed, Running
<1>3. QED BY <1>1, <1>2

\* The frames of a source come to the muxer.
LEMMA ThroughSource ==
  ASSUME Plays, NEW i \in Sources, NEW C, Carries(C, Via(i)), Src(i, "src_elem") \in C
  PROVE  Mux \in C
<1>1. /\ SourceBin(i) \subseteq links /\ MuxLinks(i) \subseteq links /\ Delivers(i)
      /\ config.sources[i] \in SourceTypes
  BY PlaysHas, ConfigFacts
<1>2. \A S \in SUBSET links : (\A l \in S : l[1][1] = "source") => Carries(C, S)
  <2>1. ASSUME NEW S \in SUBSET links, \A l \in S : l[1][1] = "source" PROVE Carries(C, S)
    <3>1. \A l \in S : l[1][1] # "demuxer"
      BY <2>1
    <3>2. QED BY <3>1, OnVia
  <2>2. QED BY <2>1
<1>3. Carries(C, MuxLinks(i))
  <2>1. \A l \in MuxLinks(i) : l[1][1] # "demuxer"
    BY DEF MuxLinks, SourceOut, Src, MuxPad
  <2>2. QED BY <1>1, <2>1, OnVia
<1>4. SourceOut(i) \in C => Mux \in C
  BY <1>3 DEF MuxLinks, Carries
<1>5. \A l \in SourceBin(i) : l[1][1] = "source"
  <2>1. CASE config.sources[i] = "csi"
    BY <2>1, SourceLinks DEF Src
  <2>2. CASE config.sources[i] = "uri"
    BY <2>2, SourceLinks DEF Src
  <2>3. CASE config.sources[i] = "rtsp"
    BY <2>3, SourceLinks DEF Src
  <2>4. CASE config.sources[i] \notin {"csi", "uri", "rtsp"}
    BY <2>4, SourceLinks DEF Src
  <2>5. QED BY <2>1, <2>2, <2>3, <2>4
<1>6. Carries(C, SourceBin(i))
  BY <1>1, <1>2, <1>5
<1>7. ASSUME NEW a, NEW b, Linked(i, a, b), Src(i, a) \in C PROVE Src(i, b) \in C
  <2>1. {<<Src(i, a), Src(i, b)>>} \subseteq links
    BY <1>7 DEF Linked
  <2>2. Carries(C, {<<Src(i, a), Src(i, b)>>})
    BY <1>2, <2>1 DEF Src
  <2>3. QED BY <1>7, <2>2 DEF Carries
<1>8. ASSUME NEW a, NEW b, <<Src(i, a), Src(i, b)>> \in SourceBin(i), Src(i, a) \in C PROVE Src(i, b) \in C
  BY <1>6, <1>8 DEF Carries
<1>9. SourceOut(i) \in C
  <2>1. CASE config.sources[i] = "csi"
    <3>1. <<Src(i, "src_elem"), Src(i, "cap_filter")>> \in SourceBin(i)
      BY <2>1, SourceLinks
    <3>2. QED BY <2>1, <3>1, <1>8 DEF SourceOut
  <2>2. CASE config.sources[i] = "uri"
    <3>1. /\ <<Src(i, "tee"), Src(i, "queue")>> \in SourceBin(i)
          /\ <<Src(i, "queue"), Src(i, "nvvidconv")>> \in SourceBin(i)
          /\ <<Src(i, "nvvidconv"), Src(i, "cap_filter1")>> \in SourceBin(i)
      BY <2>2, SourceLinks
    <3>2. Src(i, "tee") \in C
      BY <2>2, <1>1, <1>7 DEF Delivers
    <3>3. Src(i, "queue") \in C
      BY <3>1, <3>2, <1>8
    <3>4. Src(i, "nvvidconv") \in C
      BY <3>1, <3>3, <1>8
    <3>5. Src(i, "cap_filter1") \in C
      BY <3>1, <3>4, <1>8
    <3>6. QED BY <2>2, <3>5 DEF SourceOut
  <2>3. CASE config.sources[i] = "rtsp"
    <3>1. /\ <<Src(i, "tee_rtsp_pre_decode"), Src(i, "dec_que")>> \in SourceBin(i)
          /\ <<Src(i, "dec_que"), Src(i, "decodebin")>> \in SourceBin(i)
          /\ <<Src(i, "src_que"), Src(i, "tee_rtsp_post_decode")>> \in SourceBin(i)
          /\ <<Src(i, "tee_rtsp_post_decode"), Src(i, "nvvidconv")>> \in SourceBin(i)
          /\ <<Src(i, "nvvidconv"), Src(i, "cap_filter1")>> \in SourceBin(i)
      BY <2>3, SourceLinks
    <3>2. Linked(i, "src_elem", "depay") /\ Linked(i, "decodebin", "src_que")
      <4>1. config.sources[i] # "uri"
        BY <2>3
      <4>2. QED BY <4>1, <2>3, <1>1 DEF Delivers
    <3>3. Linked(i, "depay", "parser") /\ Linked(i, "parser", "tee_rtsp_pre_decode")
      <4>1. phase = "built" /\ IsCamera(i)
        BY <2>3, PlaysHas DEF IsCamera
      <4>2. Depayloading(i) \subseteq links
        BY <4>1, <3>2 DEF Plays, PadsLinked
      <4>3. QED BY <4>2, SourceLinks DEF Linked
    <3>4. Src(i, "depay") \in C
      BY <3>2, <1>7
    <3>5. Src(i, "parser") \in C
      BY <3>3, <3>4, <1>7
    <3>6. Src(i, "tee_rtsp_pre_decode") \in C
      BY <3>3, <3>5, <1>7
    <3>7. Src(i, "dec_que") \in C
      BY <3>1, <3>6, <1>8
    <3>8. Src(i, "decodebin") \in C
      BY <3>1, <3>7, <1>8
    <3>9. Src(i, "src_que") \in C
      BY <3>2, <3>8, <1>7
    <3>10. Src(i, "tee_rtsp_post_decode") \in C
      BY <3>1, <3>9, <1>8
    <3>11. Src(i, "nvvidconv") \in C
      BY <3>1, <3>10, <1>8
    <3>12. Src(i, "cap_filter1") \in C
      BY <3>1, <3>11, <1>8
    <3>13. QED BY <2>3, <3>12 DEF SourceOut
  <2>4. CASE config.sources[i] \notin {"csi", "uri", "rtsp"}
    <3>1. /\ <<Src(i, "src_elem"), Src(i, "cap_filter1")>> \in SourceBin(i)
          /\ <<Src(i, "cap_filter1"), Src(i, "nvvidconv1")>> \in SourceBin(i)
          /\ <<Src(i, "nvvidconv1"), Src(i, "nvvidconv2")>> \in SourceBin(i)
          /\ <<Src(i, "nvvidconv2"), Src(i, "cap_filter")>> \in SourceBin(i)
      BY <2>4, SourceLinks
    <3>2. Src(i, "cap_filter1") \in C
      BY <3>1, <1>8
    <3>3. Src(i, "nvvidconv1") \in C
      BY <3>1, <3>2, <1>8
    <3>4. Src(i, "nvvidconv2") \in C
      BY <3>1, <3>3, <1>8
    <3>5. Src(i, "cap_filter") \in C
      BY <3>1, <3>4, <1>8
    <3>6. QED BY <2>4, <3>5 DEF SourceOut
  <2>5. QED BY <2>1, <2>2, <2>3, <2>4
<1>10. QED BY <1>4, <1>9

\* From the muxer they come to the tiler or the demuxer, and to the common tee if there is a stage.
LEMMA ThroughStages ==
  ASSUME Plays, NEW i, NEW C, Carries(C, Via(i)), Mux \in C
  PROVE  Final \in C /\ (Running # {} => StageIn("common_tee") \in C)
<1>1. Keeps(C, links)
  <2>1. "demuxer" \notin Ahead
    BY DEF Ahead, Stages
  <2>2. ASSUME NEW l \in links, l[1][1] \in Ahead, l[1] \in C PROVE l[2] \in C
    <3>1. l[1] # Demuxer
      BY <2>1, <2>2 DEF Demuxer
    <3>2. QED BY <2>2, <3>1 DEF Carries, Via
  <2>3. QED BY <2>2 DEF Keeps
<1>2. ASSUME NEW x, NEW y, <<x, y>> \in links, x[1] # "demuxer", x \in C PROVE y \in C
  <2>1. Carries(C, {<<x, y>>})
    BY <1>2, OnVia
  <2>2. QED BY <1>2, <2>1 DEF Carries
<1>3. Mux[1] # "demuxer" /\ StageIn("common_tee")[1] # "demuxer" /\ StageOut("common_tee") = StageIn("common_tee")
  BY StageEnds DEF Mux
<1>4. CASE downstream = NoStage
  <2>1. <<Mux, Final>> \in links
    BY <1>4, PlaysHas DEF Ends
  <2>2. Running = {}
    <3>1. Passed = {}
      BY <1>4, PlaysHas DEF NoStage
    <3>2. QED BY <3>1, RunningPassed
  <2>3. QED BY <1>2, <1>3, <2>1, <2>2
<1>5. CASE downstream # NoStage
  <2>1. <<StageOut(downstream), Final>> \in links /\ <<Mux, StageIn(upstream)>> \in links
    BY <1>5, PlaysHas DEF Ends
  <2>2. upstream \in Running /\ downstream = "common_tee"
    BY <1>5, PlaysHas
  <2>3. PICK n \in Passed : upstream = CreationOrder[n]
    BY <2>2, RunningPassed
  <2>4. Leads(In(n), StageIn("common_tee"), links)
    BY PlaysHas DEF Joined
  <2>5. In(n) \in C
    BY <1>2, <1>3, <2>1, <2>3 DEF In
  <2>6. StageIn("common_tee") \in C
    BY <1>1, <2>4, <2>5 DEF Leads
  <2>7. Final \in C
    BY <1>2, <1>3, <2>1, <2>2, <2>6
  <2>8. QED BY <2>6, <2>7
<1>6. QED BY <1>4, <1>5

\* The bins of sinks end in the sink itself.
LEMMA SubBinEnds ==
  ASSUME NEW k
  PROVE  /\ Len(SubBinElements(k)) \in Nat /\ Len(SubBinElements(k)) >= 2
         /\ SubBinElements(k)[Len(SubBinElements(k))] = "sink"
<1> DEFINE e == SubBinElements(k)
<1>1. e \in {EncodeFileBin, UdpsinkBin, MsgConvBrokerBin, RenderBin("egl"), <<"queue", "cap_filter", "sink">>}
  <2>1. \A type : RenderBin(type) \in {RenderBin("egl"), <<"queue", "cap_filter", "sink">>}
    BY DEF RenderBin
  <2>2. CASE config.sinks[k].type = "file"
    BY <2>2 DEF SubBinElements
  <2>3. CASE config.sinks[k].type = "rtsp"
    BY <2>3 DEF SubBinElements
  <2>4. CASE config.sinks[k].type = "broker"
    BY <2>4 DEF SubBinElements
  <2>5. CASE config.sinks[k].type \notin {"file", "rtsp", "broker"}
    <3>1. e = RenderBin(config.sinks[k].type)
      BY <2>5 DEF SubBinElements
    <3>2. QED BY <2>1, <3>1
  <2>6. QED BY <2>2, <2>3, <2>4, <2>5
<1> HIDE DEF e
<1>2. Len(e) \in Nat /\ Len(e) >= 2 /\ e[Len(e)] = "sink"
  <2>1. Len(EncodeFileBin) = 7 /\ EncodeFileBin[7] = "sink" /\ Len(UdpsinkBin) = 7 /\ UdpsinkBin[7] = "sink"
    BY DEF EncodeFileBin, UdpsinkBin
  <2>2. Len(MsgConvBrokerBin) = 3 /\ MsgConvBrokerBin[3] = "sink"
    BY DEF MsgConvBrokerBin
  <2>3. RenderBin("egl") = <<"queue", "transform", "cap_filter", "sink">>
    BY DEF RenderBin
  <2>4. Len(RenderBin("egl")) = 4 /\ RenderBin("egl")[4] = "sink"
    BY <2>3
  <2>5. Len(<<"queue", "cap_filter", "sink">>) = 3 /\ <<"queue", "cap_filter", "sink">>[3] = "sink"
    OBVIOUS
  <2> DEFINE r == RenderBin("egl")
             s == <<"queue", "cap_filter", "sink">>
  <2>6. Len(r) = 4 /\ r[4] = "sink" /\ Len(s) = 3 /\ s[3] = "sink"
        /\ e \in {EncodeFileBin, UdpsinkBin, MsgConvBrokerBin, r, s}
    BY <1>1, <2>4, <2>5
  <2> HIDE DEF r, s
  <2>7. \A n \in {3, 4, 7} : Len(e) = n /\ e[n] = "sink" => Len(e) \in Nat /\ Len(e) >= 2 /\ e[Len(e)] = "sink"
    OBVIOUS
  <2>8. \E n \in {3, 4, 7} : Len(e) = n /\ e[n] = "sink"
    <3>1. \A x : (Len(x) = 7 /\ x[7] = "sink") \/ (Len(x) = 3 /\ x[3] = "sink") \/ (Len(x) = 4 /\ x[4] = "sink")
                   => \E n \in {3, 4, 7} : Len(x) = n /\ x[n] = "sink"
      OBVIOUS
    <3>2. QED BY <2>1, <2>2, <2>6, <3>1, Zenon
  <2>9. QED BY <2>7, <2>8
<1>3. QED BY <1>2 DEF e

\* Through its bin frames come to the sink.
LEMMA ThroughSubBin ==
  ASSUME NEW k, SubBin(k) \subseteq links, NEW i, NEW C, Carries(C, Via(i)), SubBinIn(k) \in C
  PROVE  SinkOf(k) \in C
<1> DEFINE e == SubBinElements(k)
<1>1. Len(e) \in Nat /\ Len(e) >= 2 /\ e[Len(e)] = "sink"
  BY SubBinEnds
<1>2. Chain("sub_bin", k, e) \subseteq links /\ <<"sub_bin", k, e[1]>> \in C
  BY DEF SubBin, SubBinIn
<1> HIDE DEF e
<1> DEFINE b == "sub_bin"
<1>00. b # "demuxer" /\ Chain(b, k, e) \subseteq links /\ <<b, k, e[1]>> \in C /\ Len(e) >= 1
  BY <1>1, <1>2
<1> HIDE DEF b
<1>0. \A n \in 1..Len(e) : <<b, k, e[n]>> \in C
  BY <1>1, <1>00, ChainCarries
<1>3. \A n \in 1..Len(e) : <<"sub_bin", k, e[n]>> \in C
  BY <1>0 DEF b
<1>4. QED BY <1>1, <1>3 DEF SinkOf

\* What an instance is made of.
LEMMA WithSinksHas ==
  ASSUME NEW j
  PROVE  /\ <<<<"sink_bin", j, "queue">>, <<"sink_bin", j, "tee">>>> \in WithSinks(j)
         /\ \A k \in SlotsOf(j) : SubBin(k) \subseteq WithSinks(j)
         /\ \A k \in SlotsOf(j) : ~IsBroker(k) => <<<<"sink_bin", j, "tee">>, SubBinIn(k)>> \in WithSinks(j)
         /\ config.osd => Chain("osd", j, OsdBin) \subseteq WithSinks(j)
                          /\ <<<<"osd", j, "nvosd">>, <<"sink_bin", j, "queue">>>> \in WithSinks(j)
<1>1. TeeAndSinks("sink_bin", j, SlotsOf(j)) \subseteq WithSinks(j) /\ Osd("osd", j, "sink_bin") \subseteq WithSinks(j)
  BY DEF WithSinks
<1>2. Chain("sink_bin", j, <<"queue", "tee">>) \subseteq WithSinks(j) /\ SubBins(SlotsOf(j)) \subseteq WithSinks(j)
      /\ TeeLinks("sink_bin", j, SlotsOf(j)) \subseteq WithSinks(j)
  BY <1>1, SinkBinParts
<1>3. <<<<"sink_bin", j, "queue">>, <<"sink_bin", j, "tee">>>> \in WithSinks(j)
  BY <1>2, ChainOfTwo
<1>4. \A k \in SlotsOf(j) : SubBin(k) \subseteq WithSinks(j)
  BY <1>2 DEF SubBins
<1>5. \A k \in SlotsOf(j) : ~IsBroker(k) => <<<<"sink_bin", j, "tee">>, SubBinIn(k)>> \in WithSinks(j)
  BY <1>2 DEF TeeLinks
<1>6. config.osd => Chain("osd", j, OsdBin) \subseteq WithSinks(j)
                    /\ <<<<"osd", j, "nvosd">>, <<"sink_bin", j, "queue">>>> \in WithSinks(j)
  <2>1. config.osd => Osd("osd", j, "sink_bin")
                        = Chain("osd", j, OsdBin) \cup {<<<<"osd", j, "nvosd">>, <<"sink_bin", j, "queue">>>>}
    BY Zenon DEF Osd
  <2>2. QED BY <1>1, <2>1
<1>7. QED BY <1>3, <1>4, <1>5, <1>6

\* From the tiler's tee or the demuxer frames come to every sink of the instance but the brokers.
LEMMA FinalToSinks ==
  ASSUME Plays, NEW i, Target(i) \in Instanced, NEW k \in SlotsOf(Target(i)), ~IsBroker(k),
         NEW C, Carries(C, Via(i)), Final \in C
  PROVE  SinkOf(k) \in C
<1> DEFINE j == Target(i)
<1>1. Branch(j) \subseteq links /\ WithSinks(j) \subseteq links
  BY PlaysHas DEF Branch
<1>2. ASSUME NEW x, NEW y, <<x, y>> \in links, x[1] # "demuxer", x \in C PROVE y \in C
  <2>1. Carries(C, {<<x, y>>})
    BY <1>2, OnVia
  <2>2. QED BY <1>2, <2>1 DEF Carries
<1>3. InstanceIn(j) \in C
  <2>1. CASE config.mode = "enabled"
    <3>1. j = 0 /\ OfTiler \subseteq links /\ Final = TilerTee
      BY <2>1, <1>1 DEF Target, Branch, Final
    <3> DEFINE q == <<"tiled_display", 0, "queue">>
               t == <<"tiled_display", 0, "tiler">>
    <3>2. <<TilerTee, q>> \in OfTiler /\ <<q, t>> \in OfTiler /\ <<t, InstanceIn(0)>> \in OfTiler
      BY ChainOfTwo DEF OfTiler, TiledDisplayBin
    <3>3. TilerTee[1] # "demuxer" /\ q[1] # "demuxer" /\ t[1] # "demuxer"
      BY DEF TilerTee
    <3> HIDE DEF q, t
    <3>4. q \in C
      BY <1>2, <3>1, <3>2, <3>3
    <3>5. t \in C
      BY <1>2, <3>1, <3>2, <3>3, <3>4
    <3>6. QED BY <1>2, <3>1, <3>2, <3>3, <3>5
  <2>2. CASE config.mode = "disabled"
    <3>1. j = i /\ OfDemuxer(i) \subseteq links /\ Final = Demuxer
      BY <2>2, <1>1 DEF Target, Branch, Final
    <3>2. <<Demuxer, DemuxPad(i)>> \in Via(i) /\ <<DemuxPad(i), InstanceIn(i)>> \in Via(i)
      <4>1. DemuxPad(i) # Demuxer
        BY DEF DemuxPad, Demuxer
      <4>2. QED BY <3>1, <4>1 DEF OfDemuxer, Via
    <3>3. DemuxPad(i) \in C
      BY <3>1, <3>2 DEF Carries
    <3>4. QED BY <3>1, <3>2, <3>3 DEF Carries
  <2>3. QED BY <2>1, <2>2, PlaysHas
<1> HIDE DEF j
<1>4. <<"sink_bin", j, "queue">> \in C
  <2>1. CASE config.osd
    <3> DEFINE e == OsdBin
    <3>1. Len(e) = 4 /\ e[1] = "queue" /\ e[4] = "nvosd"
      BY DEF OsdBin
    <3>2. Chain("osd", j, e) \subseteq links /\ <<<<"osd", j, "nvosd">>, <<"sink_bin", j, "queue">>>> \in links
      BY <1>1, <2>1, WithSinksHas
    <3>3. <<"osd", j, e[1]>> \in C
      BY <1>3, <2>1, <3>1 DEF InstanceIn
    <3> HIDE DEF e
    <3> DEFINE b == "osd"
    <3>00. b # "demuxer" /\ Chain(b, j, e) \subseteq links /\ <<b, j, e[1]>> \in C /\ Len(e) \in Nat /\ Len(e) >= 1
      BY <3>1, <3>2, <3>3
    <3> HIDE DEF b
    <3>0. \A n \in 1..Len(e) : <<b, j, e[n]>> \in C
      BY <3>00, ChainCarries
    <3>4. \A n \in 1..Len(e) : <<"osd", j, e[n]>> \in C
      BY <3>0 DEF b
    <3>5. <<"osd", j, "nvosd">> \in C
      BY <3>1, <3>4
    <3>6. QED BY <1>2, <3>2, <3>5
  <2>2. CASE ~config.osd
    BY <1>3, <2>2 DEF InstanceIn
  <2>3. QED BY <2>1, <2>2
<1>5. <<"sink_bin", j, "tee">> \in C
  <2>1. <<<<"sink_bin", j, "queue">>, <<"sink_bin", j, "tee">>>> \in links
    BY <1>1, WithSinksHas
  <2> DEFINE x == <<"sink_bin", j, "queue">>
             y == <<"sink_bin", j, "tee">>
  <2>2. <<x, y>> \in links /\ x[1] # "demuxer" /\ x \in C
    BY <1>4, <2>1
  <2> HIDE DEF x, y
  <2>3. y \in C
    BY <1>2, <2>2
  <2>4. QED BY <2>3 DEF y
<1>6. SubBinIn(k) \in C /\ SubBin(k) \subseteq links
  BY <1>1, <1>2, <1>5, WithSinksHas DEF j
<1>7. QED BY <1>6, ThroughSubBin

\* The sinks of a source but the brokers are in the instance that shows it.
LEMMA SlotOfSource ==
  ASSUME config \in Configs, config.mode \in {"disabled", "enabled"}, NEW k \in Sinks, NEW i \in SourcesOf(k), ~IsBroker(k)
  PROVE  i \in Sources /\ k \in SlotsOf(Target(i)) /\ Target(i) \in Instanced
<1>1. ~config.sinks[k].demux
  BY DEF SourcesOf
<1>2. CASE config.mode = "enabled"
  <2>1. config.sinks[k].source = 0 /\ i \in Sources
    BY <1>1, <1>2 DEF SourcesOf
  <2>2. QED BY <1>1, <1>2, <2>1 DEF SlotsOf, Target, Instanced
<1>3. CASE config.mode = "disabled"
  <2>1. config.sinks[k].source = i /\ i \in Sources
    BY <1>1, <1>3 DEF SourcesOf
  <2>2. k \in SlotsOf(i) /\ Target(i) = i
    BY <1>1, <1>3, <2>1 DEF SlotsOf, Target
  <2>3. QED BY <1>3, <2>1, <2>2 DEF Instanced
<1>4. QED BY <1>2, <1>3

\* Brokers are sinks of the first instance, which has its own then.
LEMMA BrokerInFirst ==
  ASSUME Plays, NEW k \in Brokers
  PROVE  /\ k \in Sinks /\ k \in SlotsOf(0) /\ 0 \in Instanced /\ SubBin(k) \subseteq links /\ Running # {}
         /\ <<StageIn("common_tee"), SubBinIn(k)>> \in links
<1>1. k \in Sinks /\ config.sinks[k].source = 0 /\ ~config.sinks[k].demux /\ \E s \in Stages : Enabled(s)
  BY DEF Plays, Sound, Brokers
<1>2. k \in SlotsOf(0) /\ Running # {}
  BY <1>1 DEF SlotsOf, Running
<1>3. 0 \in Instanced
  BY <1>2, PlaysHas, ConfigFacts DEF Instanced
<1>4. SubBin(k) \subseteq links
  <2>1. WithSinks(0) \subseteq links
    BY <1>3, PlaysHas DEF Branch
  <2>2. QED BY <1>2, <2>1, WithSinksHas
<1>5. QED BY <1>1, <1>2, <1>3, <1>4, PlaysHas DEF ToBrokers

\* Every sink gets the frames of the sources that it is configured for.
LEMMA ConfiguredFed ==
  ASSUME Plays, NEW k \in Sinks, NEW i \in SourcesOf(k)
  PROVE  i \in Sources /\ SinkOf(k) \in Frames(i)
<1> DEFINE C == Frames(i)
<1>1. i \in Sources
  BY DEF SourcesOf
<1>2. Src(i, "src_elem") \in Nodes
  <2>1. SourceBin(i) \subseteq links /\ Delivers(i)
    BY <1>1, PlaysHas
  <2>2. \E x : <<Src(i, "src_elem"), x>> \in links
    <3>1. CASE config.sources[i] = "csi"
      BY <2>1, <3>1, SourceLinks
    <3>2. CASE config.sources[i] = "uri"
      BY <2>1, <3>2 DEF Delivers, Linked
    <3>3. CASE config.sources[i] = "rtsp"
      <4>1. config.sources[i] # "uri"
        BY <3>3
      <4>2. QED BY <2>1, <3>3, <4>1 DEF Delivers, Linked
    <3>4. CASE config.sources[i] \notin {"csi", "uri", "rtsp"}
      BY <2>1, <3>4, SourceLinks
    <3>5. QED BY <3>1, <3>2, <3>3, <3>4
  <2>3. PICK x : <<Src(i, "src_elem"), x>> \in links
    BY <2>2
  <2>4. <<Src(i, "src_elem"), x>>[1] \in Nodes
    BY <2>3 DEF Nodes
  <2>5. QED BY <2>4
<1>3. Src(i, "src_elem") \in C /\ Carries(C, Via(i))
  <2>1. Via(i) \in SUBSET links /\ C = Reach({Src(i, "src_elem")}, Via(i)) /\ IsFiniteSet(links)
    BY PlaysHas, Zenon DEF Via, Frames
  <2> HIDE DEF C
  <2>2. Src(i, "src_elem") \in C /\ \A l \in Via(i) : l[1] \in C => l[2] \in C
    BY <1>2, <2>1, ReachCloses
  <2>3. QED BY <2>2 DEF Carries
<1> HIDE DEF C
<1>4. Final \in C /\ (Running # {} => StageIn("common_tee") \in C)
  BY <1>1, <1>3, ThroughSource, ThroughStages
<1>5. CASE IsBroker(k)
  <2>1. k \in Brokers
    BY <1>5 DEF Brokers
  <2>2. SubBin(k) \subseteq links /\ StageIn("common_tee") \in C /\ <<StageIn("common_tee"), SubBinIn(k)>> \in links
    BY <1>4, <2>1, BrokerInFirst
  <2>3. SubBinIn(k) \in C
    <3>1. Carries(C, {<<StageIn("common_tee"), SubBinIn(k)>>})
      BY <1>3, <2>2, StageEnds, OnVia
    <3>2. QED BY <2>2, <3>1 DEF Carries
  <2>4. QED BY <1>1, <1>3, <2>2, <2>3, ThroughSubBin DEF C
<1>6. CASE ~IsBroker(k)
  <2>1. k \in SlotsOf(Target(i)) /\ Target(i) \in Instanced
    BY <1>6, SlotOfSource, PlaysHas
  <2>2. SinkOf(k) \in C
    BY <1>3, <1>4, <1>6, <2>1, FinalToSinks
  <2>3. QED BY <1>1, <2>2 DEF C
<1>7. QED BY <1>5, <1>6

\* So each sink gets the frames of exactly the sources that it is configured for.
LEMMA SinksFed == GraphType /\ LinksInv /\ FrameInv /\ OrderInv /\ PadsLinked => SinksAreFed
<1> SUFFICES ASSUME Plays, NEW k \in Sinks
             PROVE  {i \in Sources : SinkOf(k) \in [j \in Sources |-> Frames(j)][i]} = SourcesOf(k)
  BY Zenon DEF SinksAreFed, Plays
<1>1. ASSUME NEW i \in Sources PROVE SinkOf(k) \in Frames(i) <=> i \in SourcesOf(k)
  <2>1. config \in Configs /\ links \subseteq Possible /\ Sound
    BY PlaysHas DEF Plays
  <2>2. QED BY <2>1, FedAsConfigured, ConfiguredFed
<1>2. SourcesOf(k) \subseteq Sources
  BY ConfiguredFed
<1>3. QED BY <1>1, <1>2

-------------------------------------------------------------------------------
(* No element that gets frames is left without a way on *)

\* An element that keeps its frames or may drop them, or that is linked on.
LedOn(x) ==
  \/ x[3] \in {"sink", "fakesink"} /\ x[1] # "mux"
  \/ x = Demuxer
  \/ x[1] = "sink_bin" /\ x[3] = "tee"
  \/ \E link \in links : link[1] = x

\* A link of two elements leads on from its first.
LEMMA LedByLink == \A x, y : <<x, y>> \in links => LedOn(x)
BY DEF LedOn

\* A chain whose last element is led on leads on from all.
LEMMA ChainLedOn ==
  ASSUME NEW b, NEW j, NEW elements, Len(elements) \in Nat, Chain(b, j, elements) \subseteq links,
         LedOn(<<b, j, elements[Len(elements)]>>)
  PROVE  /\ \A n \in 1..Len(elements) : LedOn(<<b, j, elements[n]>>)
         /\ \A l \in Chain(b, j, elements) : LedOn(l[2])
<1>1. ASSUME NEW n \in 1..Len(elements) PROVE LedOn(<<b, j, elements[n]>>)
  <2>1. CASE n = Len(elements)
    BY <2>1
  <2>2. CASE n # Len(elements)
    <3>1. n \in 1..(Len(elements) - 1)
      BY <2>2
    <3>2. <<<<b, j, elements[n]>>, <<b, j, elements[n + 1]>>>> \in links
      BY <3>1 DEF Chain
    <3>3. QED BY <3>2, LedByLink
  <2>3. QED BY <2>1, <2>2
<1>2. ASSUME NEW l \in Chain(b, j, elements) PROVE LedOn(l[2])
  <2>1. PICK n \in 1..(Len(elements) - 1) : l = <<<<b, j, elements[n]>>, <<b, j, elements[n + 1]>>>>
    BY DEF Chain
  <2>2. n + 1 \in 1..Len(elements)
    OBVIOUS
  <2>3. l[2] = <<b, j, elements[n + 1]>>
    BY <2>1
  <2>4. QED BY <1>1, <2>2, <2>3
<1>3. QED BY <1>1, <1>2

\* The elements of a source and the pads of the muxer lead on.
LEMMA SourceLedOn ==
  ASSUME Plays, NEW j \in Sources
  PROVE  LedOn(Src(j, "src_elem")) /\ (\A l \in SourceBin(j) \cup PadLinks(j) : LedOn(l[2])) /\ LedOn(MuxPad(j))
<1>1. /\ SourceBin(j) \subseteq links /\ MuxLinks(j) \subseteq links /\ Delivers(j)
      /\ config.sources[j] \in SourceTypes /\ phase = "built"
  BY PlaysHas, ConfigFacts
<1>2. LedOn(SourceOut(j)) /\ LedOn(MuxPad(j))
  BY <1>1, LedByLink DEF MuxLinks
<1>3. ASSUME NEW a, NEW b, <<Src(j, a), Src(j, b)>> \in SourceBin(j) \/ Linked(j, a, b) PROVE LedOn(Src(j, a))
  BY <1>1, <1>3, LedByLink DEF Linked
<1>4. LedOn(Src(j, "src_elem")) /\ \A l \in SourceBin(j) \cup PadLinks(j) : LedOn(l[2])
  <2>1. CASE config.sources[j] = "csi"
    <3>1. SourceBin(j) = {<<Src(j, "src_elem"), Src(j, "cap_filter")>>} /\ PadLinks(j) = {}
          /\ SourceOut(j) = Src(j, "cap_filter")
      BY <2>1, SourceLinks DEF PadLinks, IsCamera, SourceOut
    <3>2. LedOn(Src(j, "src_elem"))
      BY <3>1, <1>3
    <3>3. QED BY <3>1, <3>2, <1>2
  <2>2. CASE config.sources[j] = "uri"
    <3>1. SourceBin(j) = {<<Src(j, "tee"), Src(j, "queue")>>, <<Src(j, "queue"), Src(j, "nvvidconv")>>,
                          <<Src(j, "nvvidconv"), Src(j, "cap_filter1")>>}
                           \cup {<<Src(j, "tee"), Src(j, "fakequeue")>>, <<Src(j, "fakequeue"), Src(j, "fakesink")>>}
          /\ PadLinks(j) = {<<Src(j, "src_elem"), Src(j, "tee")>>} /\ SourceOut(j) = Src(j, "cap_filter1")
      BY <2>2, SourceLinks DEF PadLinks, SourceOut
    <3>2. Linked(j, "src_elem", "tee")
      BY <2>2, <1>1 DEF Delivers
    <3>3. LedOn(Src(j, "src_elem")) /\ LedOn(Src(j, "tee")) /\ LedOn(Src(j, "queue")) /\ LedOn(Src(j, "nvvidconv"))
          /\ LedOn(Src(j, "fakequeue"))
      BY <3>1, <3>2, <1>3
    <3>4. LedOn(Src(j, "fakesink"))
      BY DEF LedOn, Src
    <3>5. LedOn(Src(j, "cap_filter1"))
      BY <3>1, <1>2
    <3>6. QED BY <3>1, <3>3, <3>4, <3>5
  <2>3. CASE config.sources[j] = "rtsp"
    <3>1. SourceBin(j) = {<<Src(j, "tee_rtsp_pre_decode"), Src(j, "dec_que")>>,
                          <<Src(j, "dec_que"), Src(j, "decodebin")>>}
                           \cup {<<Src(j, "src_que"), Src(j, "tee_rtsp_post_decode")>>,
                                 <<Src(j, "tee_rtsp_post_decode"), Src(j, "nvvidconv")>>,
                                 <<Src(j, "nvvidconv"), Src(j, "cap_filter1")>>}
      BY <2>3, SourceLinks
    <3>2. config.sources[j] # "uri" /\ IsCamera(j) /\ SourceOut(j) = Src(j, "cap_filter1")
      BY <2>3 DEF IsCamera, SourceOut
    <3>3. PadLinks(j) = {<<Src(j, "depay"), Src(j, "parser")>>, <<Src(j, "parser"), Src(j, "tee_rtsp_pre_decode")>>}
             \cup {<<Src(j, "src_elem"), Src(j, "depay")>>, <<Src(j, "decodebin"), Src(j, "src_que")>>}
      BY <3>2, SourceLinks, Zenon DEF PadLinks
    <3>4. Linked(j, "src_elem", "depay") /\ Linked(j, "decodebin", "src_que")
      BY <2>3, <3>2, <1>1 DEF Delivers
    <3>5. Linked(j, "depay", "parser") /\ Linked(j, "parser", "tee_rtsp_pre_decode")
      <4>1. Depayloading(j) \subseteq links
        BY <1>1, <3>2, <3>4 DEF Plays, PadsLinked
      <4>2. QED BY <4>1, SourceLinks DEF Linked
    <3>6. LedOn(Src(j, "src_elem")) /\ LedOn(Src(j, "depay")) /\ LedOn(Src(j, "parser")) /\ LedOn(Src(j, "decodebin"))
      BY <3>4, <3>5, <1>3
    <3>7. LedOn(Src(j, "tee_rtsp_pre_decode")) /\ LedOn(Src(j, "dec_que")) /\ LedOn(Src(j, "src_que"))
          /\ LedOn(Src(j, "tee_rtsp_post_decode")) /\ LedOn(Src(j, "nvvidconv"))
      BY <3>1, <1>3
    <3>8. LedOn(Src(j, "cap_filter1"))
      BY <3>2, <1>2
    <3>9. QED BY <3>1, <3>3, <3>6, <3>7, <3>8
  <2>4. CASE config.sources[j] \notin {"csi", "uri", "rtsp"}
    <3>1. SourceBin(j) = {<<Src(j, "src_elem"), Src(j, "cap_filter1")>>, <<Src(j, "cap_filter1"), Src(j, "nvvidconv1")>>,
                          <<Src(j, "nvvidconv1"), Src(j, "nvvidconv2")>>, <<Src(j, "nvvidconv2"), Src(j, "cap_filter")>>}
          /\ PadLinks(j) = {} /\ SourceOut(j) = Src(j, "cap_filter")
      BY <2>4, SourceLinks DEF PadLinks, IsCamera, SourceOut
    <3>2. LedOn(Src(j, "src_elem")) /\ LedOn(Src(j, "cap_filter1")) /\ LedOn(Src(j, "nvvidconv1"))
          /\ LedOn(Src(j, "nvvidconv2"))
      BY <3>1, <1>3
    <3>3. QED BY <3>1, <3>2, <1>2
  <2>5. QED BY <2>1, <2>2, <2>3, <2>4
<1>5. QED BY <1>2, <1>4

\* So do those of an instance.
LEMMA InstanceLedOn ==
  ASSUME Plays, NEW j \in Instanced
  PROVE  LedOn(InstanceIn(j)) /\ \A l \in OfInstance(j) : LedOn(l[2])
<1>1. WithSinks(j) \subseteq links
  BY PlaysHas DEF Branch
<1>2. SlotsOf(j) # {}
  BY PlaysHas DEF Instanced, Plays, Sound
<1>3. OfInstance(j) = WithSinks(j)
  BY <1>2 DEF OfInstance
<1>4. LedOn(<<"sink_bin", j, "queue">>) /\ LedOn(<<"sink_bin", j, "tee">>)
  <2>1. LedOn(<<"sink_bin", j, "queue">>)
    BY <1>1, WithSinksHas, LedByLink
  <2>2. LedOn(<<"sink_bin", j, "tee">>)
    BY DEF LedOn
  <2>3. QED BY <2>1, <2>2
<1>5. ASSUME NEW k \in SlotsOf(j) PROVE LedOn(SubBinIn(k)) /\ \A l \in SubBin(k) : LedOn(l[2])
  <2> DEFINE e == SubBinElements(k)
             b == "sub_bin"
  <2>1. Len(e) \in Nat /\ Len(e) >= 2 /\ e[Len(e)] = "sink"
    BY SubBinEnds
  <2>2. Chain(b, k, e) \subseteq links
    BY <1>1, WithSinksHas DEF SubBin
  <2>3. LedOn(<<b, k, "sink">>)
    BY DEF LedOn
  <2>4. SubBin(k) = Chain(b, k, e) /\ SubBinIn(k) = <<b, k, e[1]>>
    BY DEF SubBin, SubBinIn
  <2> HIDE DEF e, b
  <2>5. (\A n \in 1..Len(e) : LedOn(<<b, k, e[n]>>)) /\ \A l \in Chain(b, k, e) : LedOn(l[2])
    BY <2>1, <2>2, <2>3, ChainLedOn
  <2>6. QED BY <2>1, <2>4, <2>5
<1>6. \A l \in TeeAndSinks("sink_bin", j, SlotsOf(j)) : LedOn(l[2])
  <2>1. \A l \in SubBins(SlotsOf(j)) : LedOn(l[2])
    BY <1>5 DEF SubBins
  <2>2. \A l \in TeeLinks("sink_bin", j, SlotsOf(j)) : LedOn(l[2])
    BY <1>5 DEF TeeLinks
  <2>3. \A l \in Chain("sink_bin", j, <<"queue", "tee">>) : LedOn(l[2])
    BY <1>4, ChainOfTwo
  <2>4. QED BY <2>1, <2>2, <2>3, SinkBinParts
<1>7. LedOn(InstanceIn(j)) /\ \A l \in Osd("osd", j, "sink_bin") : LedOn(l[2])
  <2>1. CASE config.osd
    <3> DEFINE e == OsdBin
               b == "osd"
    <3>1. Len(e) = 4 /\ e[1] = "queue" /\ e[4] = "nvosd"
      BY DEF OsdBin
    <3>2. Chain(b, j, e) \subseteq links /\ <<<<b, j, "nvosd">>, <<"sink_bin", j, "queue">>>> \in links
      BY <1>1, <2>1, WithSinksHas
    <3>3. InstanceIn(j) = <<b, j, "queue">>
      BY <2>1 DEF InstanceIn
    <3>4. Osd("osd", j, "sink_bin") = Chain(b, j, e) \cup {<<<<b, j, "nvosd">>, <<"sink_bin", j, "queue">>>>}
      BY <2>1, Zenon DEF Osd
    <3> HIDE DEF e, b
    <3>5. LedOn(<<b, j, e[Len(e)]>>) /\ Len(e) \in Nat
      BY <3>1, <3>2, LedByLink
    <3>6. (\A n \in 1..Len(e) : LedOn(<<b, j, e[n]>>)) /\ \A l \in Chain(b, j, e) : LedOn(l[2])
      BY <3>2, <3>5, ChainLedOn
    <3>7. LedOn(InstanceIn(j))
      BY <3>1, <3>3, <3>6
    <3>8. QED BY <3>4, <3>6, <3>7, <1>4
  <2>2. CASE ~config.osd
    BY <2>2, <1>4 DEF Osd, InstanceIn
  <2>3. QED BY <2>1, <2>2
<1>8. QED BY <1>3, <1>6, <1>7 DEF WithSinks

\* So do those of the tiler and the pads of the demuxer.
LEMMA ModeLedOn == Plays => LedOn(Final) /\ \A l \in OfMode : LedOn(l[2])
<1> SUFFICES ASSUME Plays PROVE LedOn(Final) /\ \A l \in OfMode : LedOn(l[2])
  OBVIOUS
<1>1. CASE config.mode = "enabled"
  <2>1. 0 \in Instanced /\ OfTiler \subseteq links /\ Final = TilerTee /\ OfMode = OfTiler
    <3>1. 0 \in Instanced
      BY <1>1 DEF Instanced
    <3>2. QED BY <1>1, <3>1, PlaysHas DEF Branch, Final, OfMode
  <2> DEFINE q == <<"tiled_display", 0, "queue">>
             t == <<"tiled_display", 0, "tiler">>
  <2>2. OfTiler = {<<q, t>>, <<t, InstanceIn(0)>>, <<TilerTee, q>>}
    BY ChainOfTwo DEF OfTiler, TiledDisplayBin
  <2> HIDE DEF q, t
  <2>3. LedOn(q) /\ LedOn(t) /\ LedOn(TilerTee)
    BY <2>1, <2>2, LedByLink
  <2>4. LedOn(InstanceIn(0))
    BY <2>1, InstanceLedOn
  <2>5. QED BY <2>1, <2>2, <2>3, <2>4
<1>2. CASE config.mode = "disabled"
  <2>1. Final = Demuxer /\ OfMode = OfDemuxers
    BY <1>2 DEF Final, OfMode
  <2>2. LedOn(Demuxer)
    BY DEF LedOn
  <2>3. ASSUME NEW j \in Instanced PROVE LedOn(DemuxPad(j)) /\ LedOn(InstanceIn(j))
    <3>1. OfDemuxer(j) \subseteq links
      BY <1>2, PlaysHas DEF Branch
    <3>2. QED BY <3>1, LedByLink, InstanceLedOn DEF OfDemuxer
  <2>4. QED BY <2>1, <2>2, <2>3 DEF OfDemuxers, OfDemuxer
<1>3. QED BY <1>1, <1>2, PlaysHas

\* So do those of the stages and what closes the graph.
LEMMA StagesLedOn == Plays => \A l \in OfStages \cup OfCommonTee \cup OfLast : LedOn(l[2])
<1> SUFFICES ASSUME Plays PROVE \A l \in OfStages \cup OfCommonTee \cup OfLast : LedOn(l[2])
  OBVIOUS
<1>1. ASSUME NEW s \in Running PROVE LedOn(StageIn(s)) /\ \A l \in Chain(s, 0, StageBin[s]) : LedOn(l[2])
  <2>1. PICK p \in Passed : s = CreationOrder[p]
    BY RunningPassed
  <2> DEFINE e == StageBin[s]
  <2>2. Chain(s, 0, e) \subseteq links /\ \E l \in links : l[1] = <<s, 0, e[Len(e)]>>
    BY <2>1, PlaysHas DEF StageLinks, LeadsOut, StageOut
  <2>3. Len(e) \in Nat /\ Len(e) >= 1
    <3>1. s \in Stages
      BY RunningPassed
    <3>2. e \in {<<"queue", "preprocess">>, <<"queue", "nvvidconv", "gie">>, <<"tracker">>,
                 <<"queue", "analytics_elem">>, <<"tee", "queue">>}
      BY <3>1 DEF Stages, StageBin, PreprocessBin, PrimaryGieBin, TrackingBin, AnalyticsBin,
         SecondaryPreprocessBin, SecondaryGieBin
    <3>3. QED BY <3>2
  <2>4. StageIn(s) = <<s, 0, e[1]>>
    BY DEF StageIn
  <2> HIDE DEF e
  <2>5. LedOn(<<s, 0, e[Len(e)]>>)
    BY <2>2 DEF LedOn
  <2>6. (\A n \in 1..Len(e) : LedOn(<<s, 0, e[n]>>)) /\ \A l \in Chain(s, 0, e) : LedOn(l[2])
    BY <2>2, <2>3, <2>5, ChainLedOn
  <2>7. LedOn(StageIn(s))
    BY <2>3, <2>4, <2>6
  <2>8. QED BY <2>6, <2>7 DEF e
<1>2. Running # {} => LedOn(StageIn("common_tee"))
  <2> SUFFICES ASSUME Running # {} PROVE LedOn(StageIn("common_tee"))
    OBVIOUS
  <2>1. downstream = "common_tee"
    BY RunningPassed, PlaysHas
  <2>2. <<StageOut("common_tee"), Final>> \in links
    BY <2>1, PlaysHas DEF Ends, NoStage
  <2>3. StageOut("common_tee") = StageIn("common_tee")
    BY StageEnds
  <2>4. QED BY <2>2, <2>3, LedByLink
<1>3. \A l \in OfStages : LedOn(l[2])
  <2>1. ASSUME NEW s \in Running, NEW l \in OfStage(s) PROVE LedOn(l[2])
    <3>1. \A t \in StagesAfter(s) : LedOn(StageIn(t))
      BY <1>1 DEF StagesAfter
    <3>2. QED BY <1>1, <3>1 DEF OfStage
  <2>2. QED BY <2>1 DEF OfStages
<1>4. \A l \in OfCommonTee : LedOn(l[2])
  <2>1. ASSUME NEW s \in Running, NEW l \in ToCommonTee(s) PROVE LedOn(l[2])
    <3>1. config.msg_conv => LedOn(MsgConv)
      <4>1. downstream = "common_tee"
        BY RunningPassed, PlaysHas
      <4>2. QED BY <4>1, PlaysHas, LedByLink
    <3>2. LedOn(StageIn("common_tee"))
      BY <1>2
    <3>3. QED BY <3>1, <3>2 DEF ToCommonTee
  <2>2. ASSUME NEW k \in Brokers PROVE LedOn(SubBinIn(k))
    <3> DEFINE e == SubBinElements(k)
               b == "sub_bin"
    <3>1. Len(e) \in Nat /\ Len(e) >= 2
      BY SubBinEnds
    <3>2. Chain(b, k, e) \subseteq links /\ SubBinIn(k) = <<b, k, e[1]>>
      BY BrokerInFirst DEF SubBin, SubBinIn
    <3> HIDE DEF e, b
    <3>3. <<<<b, k, e[1]>>, <<b, k, e[2]>>>> \in Chain(b, k, e)
      <4>1. 1 \in 1..(Len(e) - 1)
        BY <3>1
      <4>2. QED BY <4>1 DEF Chain
    <3>4. QED BY <3>2, <3>3, LedByLink
  <2>3. \A l \in ToBrokers : LedOn(l[2])
    BY <2>2 DEF ToBrokers
  <2>4. QED BY <2>1, <2>3 DEF OfCommonTee
<1>5. \A l \in OfLast : LedOn(l[2])
  BY <1>1, ModeLedOn DEF OfLast
<1>6. QED BY <1>3, <1>4, <1>5

\* So whatever frames come to leads on.
LEMMA NoneIsDeadEnd == GraphType /\ LinksInv /\ FrameInv /\ OrderInv /\ PadsLinked => NoDeadEnds
<1> SUFFICES ASSUME Plays, NEW i \in Sources, NEW node \in Frames(i) PROVE LedOn(node)
  BY Zenon DEF NoDeadEnds, Plays, LedOn
<1>1. ASSUME NEW l \in links PROVE LedOn(l[2])
  <2>1. l \in Possible
    BY PlaysHas
  <2>2. CASE l \in OfSources
    <3>1. PICK j \in Sources : l \in OfSource(j)
      BY <2>2 DEF OfSources
    <3>2. LedOn(Mux)
      <4>1. \E x : <<Mux, x>> \in links
        BY PlaysHas DEF Ends
      <4>2. QED BY <4>1, LedByLink
    <3>3. \A m \in MuxLinks(j) : LedOn(m[2])
      BY <3>2, SourceLedOn DEF MuxLinks
    <3>4. QED BY <3>1, <3>3, SourceLedOn DEF OfSource
  <2>3. CASE l \in OfInstances
    BY <2>3, InstanceLedOn DEF OfInstances
  <2>4. CASE l \in OfMode
    BY <2>4, ModeLedOn
  <2>5. CASE l \in OfStages \cup OfCommonTee \cup OfLast
    BY <2>5, StagesLedOn
  <2>6. QED BY <2>1, <2>2, <2>3, <2>4, <2>5 DEF Possible
<1> DEFINE C == {Src(i, "src_elem")} \cup {l[2] : l \in links}
<1>2. Reach({Src(i, "src_elem")}, Via(i)) \subseteq C
  <2>1. {Src(i, "src_elem")} \subseteq C /\ \A l \in Via(i) : l[1] \in C => l[2] \in C
    BY DEF Via
  <2>2. IsFiniteSet(links)
    BY PlaysHas
  <2> HIDE DEF C
  <2>3. QED BY <2>1, <2>2, ReachStays
<1>3. Frames(i) = Reach({Src(i, "src_elem")}, Via(i))
  BY Zenon DEF Frames, Via
<1>4. node \in C
  BY <1>2, <1>3
<1>5. LedOn(Src(i, "src_elem"))
  BY SourceLedOn
<1>6. QED BY <1>1, <1>4, <1>5

-------------------------------------------------------------------------------
(* The end of the streams *)

\* The muxer or the demuxer, to which the teardown sends the EOS, hands it to every file.
LEMMA EosReachesFiles ==
  ASSUME Plays, NEW k \in Sinks, config.sinks[k].type = "file", SourcesOf(k) # {}
  PROVE  SinkOf(k) \in EosReaches(EosPads)
<1>1. PICK i \in SourcesOf(k) : TRUE
  OBVIOUS
<1>2. ~IsBroker(k)
  BY DEF IsBroker
<1>3. k \in SlotsOf(Target(i)) /\ Target(i) \in Instanced
  BY <1>2, SlotOfSource, PlaysHas
<1>4. ASSUME NEW x \in Nodes PROVE x \in Reach({x}, links) /\ Carries(Reach({x}, links), Via(i))
  <2> DEFINE C == Reach({x}, links)
  <2>1. links \in SUBSET links /\ IsFiniteSet(links)
    BY PlaysHas
  <2>2. x \in C /\ \A l \in links : l[1] \in C => l[2] \in C
    BY <2>1, ReachCloses
  <2> HIDE DEF C
  <2>3. x \in C /\ Carries(C, Via(i))
    BY <2>2 DEF Carries, Via
  <2>4. QED BY <2>3 DEF C
<1>5. Final \in Nodes /\ Mux \in Nodes
  <2>1. \E x, y : <<Mux, x>> \in links /\ <<y, Final>> \in links
    BY PlaysHas DEF Ends
  <2>2. PICK x, y : <<Mux, x>> \in links /\ <<y, Final>> \in links
    BY <2>1
  <2>3. <<Mux, x>>[1] \in Nodes /\ <<y, Final>>[2] \in Nodes
    BY <2>2 DEF Nodes
  <2>4. QED BY <2>3
<1>6. CASE demuxer # 0
  <2>1. config.mode = "disabled" /\ Final = Demuxer /\ EosPads = {Demuxer}
    BY <1>6, PlaysHas DEF Final, EosPads
  <2>2. EosReaches(EosPads) = Reach({Demuxer}, links)
    <3>1. \A j : MuxPad(j) # Demuxer
      BY DEF MuxPad, Demuxer
    <3>2. 0 \in Sources
      BY PlaysHas, ConfigFacts
    <3>3. (EosPads \ {MuxPad(j) : j \in Indices})
            \cup (IF \A j \in Sources : MuxPad(j) \in EosPads THEN {Mux} ELSE {}) = {Demuxer}
      BY <2>1, <3>1, <3>2
    <3>4. QED BY <3>3, Zenon DEF EosReaches
  <2> DEFINE C == Reach({Demuxer}, links)
  <2>3. Demuxer \in C /\ Carries(C, Via(i))
    BY <1>4, <1>5, <2>1
  <2> HIDE DEF C
  <2>4. SinkOf(k) \in C
    BY <1>2, <1>3, <2>1, <2>3, FinalToSinks
  <2>5. QED BY <2>2, <2>4 DEF C
<1>7. CASE demuxer = 0
  <2>1. EosPads = {MuxPad(j) : j \in Sources}
    BY <1>7 DEF EosPads
  <2>2. EosReaches(EosPads) = Reach({Mux}, links)
    <3>1. Sources \subseteq Indices
      BY PlaysHas, ConfigFacts
    <3>2. (EosPads \ {MuxPad(j) : j \in Indices})
            \cup (IF \A j \in Sources : MuxPad(j) \in EosPads THEN {Mux} ELSE {}) = {Mux}
      BY <2>1, <3>1
    <3>3. QED BY <3>2, Zenon DEF EosReaches
  <2> DEFINE C == Reach({Mux}, links)
  <2>3. Mux \in C /\ Carries(C, Via(i))
    BY <1>4, <1>5
  <2> HIDE DEF C
  <2>4. Final \in C
    BY <2>3, ThroughStages
  <2>5. SinkOf(k) \in C
    BY <1>2, <1>3, <2>3, <2>4, FinalToSinks
  <2>6. QED BY <2>2, <2>5 DEF C
<1>8. QED BY <1>6, <1>7

-------------------------------------------------------------------------------

\* While all sources deliver, in the first pipeline of a sound configuration and in every
\* recreated one, each sink gets the frames of exactly the sources that it is configured
\* for, and no element that gets frames is without a link that takes them on
\* (create_pipeline's links, the pads that cb_newpad, cb_newpad2 and cb_newpad3 link).
THEOREM FramesAlwaysArrive == Spec => []FramesArrive
<1>1. GraphType /\ LinksInv /\ FrameInv /\ OrderInv /\ PadsLinked => FramesArrive
  BY SinksFed, NoneIsDeadEnd DEF FramesArrive
<1>2. Init => OrderInv
  BY DEF Init, OrderInv
<1>3. QED
  BY <1>1, <1>2, GraphTypeInit, GraphTypeNext, LinksInit, LinksNext, FrameInit, FrameNext, OrderNext,
     PadsInit, PadsNext, PadsLinkedInit, PadsLinkedNext, PTL DEF Spec

\* When a pipeline of a sound configuration whose sources deliver is torn down, the EOS
\* reaches every file that gets frames (destroy_pipeline), so that it can be played.
THEOREM EosAlwaysEndsFiles == Spec => EosEndsFiles
<1> DEFINE Ended == DestroyPipeline /\ Playing /\ Sound =>
                      \A k \in Sinks : config.sinks[k].type = "file" /\ SourcesOf(k) # {} =>
                        SinkOf(k) \in EosReaches(eos')
<1>1. GraphType /\ LinksInv /\ FrameInv /\ OrderInv /\ PadsLinked /\ [Next]_vars => [Ended]_vars
  <2> SUFFICES ASSUME Plays, DestroyPipeline,
                      NEW k \in Sinks, config.sinks[k].type = "file", SourcesOf(k) # {}
               PROVE  SinkOf(k) \in EosReaches(eos')
    BY Zenon DEF Plays
  <2>1. eos' = EosPads
    BY DEF DestroyPipeline
  <2>2. SinkOf(k) \in EosReaches(EosPads)
    BY EosReachesFiles
  <2>3. QED BY <2>1, <2>2, Zenon DEF EosReaches
<1>2. Init => OrderInv
  BY DEF Init, OrderInv
<1>3. QED
  BY <1>1, <1>2, GraphTypeInit, GraphTypeNext, LinksInit, LinksNext, FrameInit, FrameNext, OrderNext,
     PadsInit, PadsNext, PadsLinkedInit, PadsLinkedNext, PTL DEF Spec, EosEndsFiles
=============================================================================
