------------------------------ MODULE MCPipeline ------------------------------
(* Instances of PipelineGraph for TLC. *)
EXTENDS PipelineGraph

Sink(type, source, demux) == [type |-> type, source |-> source, demux |-> demux]

SinkChoices ==
  {Sink(t, i, FALSE) : t \in {"fake", "file", "rtsp", "broker"}, i \in Indices} \cup {Sink("fake", 1, TRUE)}
SinkLists == UNION {[1..k -> SinkChoices] : k \in 0..2}

SourceLists == {<<"uri", "rtsp">>, <<"rtsp">>, <<"v4l2", "csi">>}
FromZero(list) == [i \in 0..(Len(list) - 1) |-> list[i + 1]]

Modes == {"disabled", "enabled", "parallel"}

\* Any sinks, with all stages or none.
AnySinks ==
  {[mode |-> m, sources |-> FromZero(<<"uri", "rtsp">>), sinks |-> s, osd |-> stages # {}, stages |-> stages,
    msg_conv |-> TRUE] : m \in Modes, s \in SinkLists, stages \in {{}, Stages}}

\* Any stages, with a file and a broker.
AnyStages ==
  {[mode |-> m, sources |-> FromZero(list), sinks |-> <<Sink("file", 0, FALSE), Sink("broker", 0, FALSE)>>,
    osd |-> c, stages |-> stages, msg_conv |-> c] :
     m \in {"disabled", "enabled"}, list \in {<<"uri">>, <<"v4l2", "csi">>}, stages \in SUBSET Stages, c \in BOOLEAN}

\* A window for the tiles, a second one for the demuxer.
Parallel ==
  {[mode |-> "parallel", sources |-> FromZero(list), sinks |-> <<Sink("egl", 0, FALSE), Sink("fake", 0, TRUE)>>,
    osd |-> TRUE, stages |-> stages, msg_conv |-> FALSE] : list \in SourceLists, stages \in {{}, Stages}}

Graphs == AnySinks \cup AnyStages
===============================================================================
