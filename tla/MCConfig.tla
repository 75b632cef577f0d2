------------------------------- MODULE MCConfig -------------------------------
(* Groups that meet each other in one file: sources that are disabled, stand *)
(* for two uris or are refused; engines and sinks with and without a GPU,    *)
(* an id or the key "enable"; and elements with faults of each kind.         *)
EXTENDS ConfigParser

Group(k, n, keys, f) == [kind |-> k, name |-> n, keys |-> keys, fault |-> f]

MCMaxSlots == [k \in SlotKinds |-> 2]

Leading ==
  {Group("application", "application", [global_gpu_id |-> 1], "none"),
   Group("application", "application", [file_loop |-> TRUE], "value"),
   Group("source-attr-all", "source-attr-all", [enable |-> FALSE], "none"),
   Group("source-attr-all", "source-attr-all", [enable |-> TRUE], "none"),
   Group("source-list", "source-list", [uris |-> 2, num_strings |-> 2], "none"),
   Group("source-list", "source-list", [num_source_bins |-> 1, uris |-> 2, num_strings |-> 2],
         "none")}

Sources ==
  {Group("source-csv", "source", [opens |-> TRUE], "none"),
   Group("source-csv", "source", [opens |-> FALSE], "none"),
   Group("source", "source0",
         [enable |-> TRUE, type |-> "multi", uri |-> "a", num_sources |-> 2, gpu_id |-> 2], "none"),
   Group("source", "source1",
         [enable |-> TRUE, type |-> "multi", uri |-> "b", num_sources |-> 0], "none"),
   Group("source", "source2", [enable |-> FALSE, type |-> "rtsp", uri |-> "c", gpu_id |-> 2],
         "none"),
   Group("source", "source3", [enable |-> FALSE, uri |-> "d"], "rule"),
   Group("source", "source4", [enable |-> TRUE, type |-> "rtsp", uri |-> "e"], "none")}

Engines ==
  {Group("primary-gie", "primary-gie", [enable |-> TRUE, unique_id |-> 1, config_file |-> TRUE],
         "none"),
   Group("secondary-gie", "secondary-gie0",
         [enable |-> TRUE, unique_id |-> 2, config_file |-> TRUE], "none"),
   Group("secondary-gie", "secondary-gie1",
         [enable |-> FALSE, unique_id |-> 3, gpu_id |-> 2], "value"),
   Group("secondary-gie", "secondary-gie2",
         [enable |-> TRUE, unique_id |-> 1, config_file |-> TRUE, gpu_id |-> 2], "none"),
   Group("secondary-gie", "secondary-gie3", [unique_id |-> 4, config_file |-> TRUE], "none")}

Sinks ==
  {Group("sink", "sink0", [enable |-> TRUE, type |-> "rtsp"], "none"),
   Group("sink", "sink1", [enable |-> FALSE, type |-> "file", gpu_id |-> 2], "none"),
   Group("sink", "sink2", [type |-> "file"], "none"),
   Group("sink", "sink3", [enable |-> TRUE, gpu_id |-> 2], "key")}

Elements ==
  {Group("tracker", "tracker", [enable |-> TRUE, gpu_id |-> 2], "key"),
   Group("tiled-display", "tiled-display", [enable |-> TRUE], "key"),
   Group("osd", "osd", [enable |-> TRUE], "rule"),
   Group("message-consumer", "message-consumer0", [enable |-> TRUE], "none"),
   Group("secondary-pre-process", "secondary-pre-process0", [enable |-> TRUE], "value")}

MCGroups == Leading \cup Sources \cup Engines \cup Sinks \cup Elements
===============================================================================
