------------------------------ MODULE MCMainLoop ------------------------------
(* What the main loop drives beside the pipelines: the frame-rate meter's timer, *)
(* the timers of a source, and the console that chooses a tile.  They share      *)
(* nothing else: a behaviour is one of the three, the others at rest.            *)
EXTENDS PerfMeter, SourceTimers, TileSelection, TLC

CONSTANTS s1, s2, console, window
VARIABLE part

Interchangeable == Permutations(Streams) \cup Permutations(Callers)

PartsInit ==
  /\ part \in {"meter", "source", "tiles"}
  /\ Init
  /\ SourceInit /\ (part # "source" => kind = "file" /\ segment_stop = Frames)
  /\ TileInit

PartsNext ==
  \/ part = "meter" /\ Next /\ UNCHANGED <<part, source_vars, tile_vars>>
  \/ part = "source" /\ SourceNext /\ UNCHANGED <<part, vars, tile_vars>>
  \/ part = "tiles" /\ TileNext /\ UNCHANGED <<part, vars, source_vars>>

PartsSpec == PartsInit /\ [][PartsNext]_<<part, vars, source_vars, tile_vars>>
===============================================================================
