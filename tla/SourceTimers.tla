------------------------------ MODULE SourceTimers ------------------------------
(***************************************************************************)
(* What the timers of a source do to it (src/sources.cpp): the loop of a   *)
(* file, whose end makes the main loop seek to its beginning, and the      *)
(* events that start and stop the recording of a camera.                   *)
(*                                                                         *)
(* The streaming thread passes the probe of the decoder's sink pad, the    *)
(* timers run in the main loop, and so does the recreation of the          *)
(* pipeline, of which SourceBin, the timers and the times survive.         *)
(***************************************************************************)
EXTENDS Integers

CONSTANTS
  Kinds,         \* "file" (with loop) or "camera" (with smart_record 2)
  Stops,         \* the ends of the segments considered
  Frames,        \* buffers of a file, stamped 0, 1, ...
  TIME_NONE,     \* GST_CLOCK_TIME_NONE, the largest time
  MaxSegments,   \* bound: segments
  MaxCreations,  \* bound: pipelines created
  MaxChanges     \* bound: resets of the camera and ends of its recordings

ASSUME TimersAssumption ==
  /\ Kinds \subseteq {"file", "camera"}
  /\ {Frames, TIME_NONE, MaxSegments, MaxCreations, MaxChanges} \subseteq Nat
  /\ Stops \subseteq Frames..TIME_NONE

VARIABLES
  kind,            \* of this source
  segment_stop,    \* the end of its segments: TIME_NONE when it is not known
  bin,             \* "alive" or "freed"
  upstream,        \* what comes to the probe next: "segment", "buffers" or "nothing"
  frame,           \* the next buffer of the file
  accumulated_base, prev_accumulated_base,
  pts,             \* of the last buffer this pipeline has got from the probe; -1: none
  seeks,           \* timers of seek_decode
  record_ctx,      \* "none", "alive" or "destroyed"
  recordOn,
  generators,      \* timers of smart_record_event_generator
  reconfiguring,
  segments, creations, changes,   \* budgets used
  failed,          \* history: a recreation has failed
  unsought,        \* history: a seek has failed
  dangling         \* history: what was freed has been used

source == <<kind, segment_stop>>
file_vars == <<upstream, frame, accumulated_base, prev_accumulated_base, pts, seeks, segments, unsought>>
camera_vars == <<record_ctx, recordOn, generators, reconfiguring, changes>>
source_vars == <<source, bin, file_vars, camera_vars, creations, failed, dangling>>

\* uint64_t
Plus(a, b) == (a + b) % (TIME_NONE + 1)

SourceInit ==
  /\ kind \in Kinds /\ segment_stop \in Stops
  /\ bin = "alive"
  /\ upstream = IF kind = "file" THEN "segment" ELSE "nothing"
  /\ frame = 0
  /\ accumulated_base = 0 /\ prev_accumulated_base = 0
  /\ pts = -1 /\ seeks = 0
  /\ record_ctx = IF kind = "camera" THEN "alive" ELSE "none"
  /\ recordOn = FALSE
  /\ generators = IF kind = "camera" THEN 1 ELSE 0
  /\ reconfiguring = FALSE
  /\ segments = 0 /\ creations = 1 /\ changes = 0
  /\ failed = FALSE /\ unsought = FALSE /\ dangling = FALSE

-------------------------------------------------------------------------------
(* restart_stream_buf_prob; the events it is about go no further. *)

Base_Kept == prev_accumulated_base   \* Mutant: the offset of the buffers stays.
Base == accumulated_base

Segment ==
  /\ upstream = "segment" /\ bin = "alive"
  /\ segments < MaxSegments /\ segments' = segments + 1
  /\ prev_accumulated_base' = Base
  /\ accumulated_base' = Plus(accumulated_base, segment_stop)
  /\ upstream' = "buffers" /\ frame' = 0
  /\ UNCHANGED <<source, bin, pts, seeks, unsought, camera_vars, creations, failed, dangling>>

Stamp(f) == Plus(f, prev_accumulated_base)

Buffer ==
  /\ upstream = "buffers" /\ bin = "alive" /\ frame < Frames
  /\ pts' = Stamp(frame)
  /\ frame' = frame + 1
  /\ UNCHANGED <<source, bin, upstream, accumulated_base, prev_accumulated_base, seeks,
                 segments, unsought, camera_vars, creations, failed, dangling>>

SeekTimers_One == seeks   \* Mutant: the end of the file is only dropped.
SeekTimers == seeks + 1

Eos ==
  /\ upstream = "buffers" /\ bin = "alive" /\ frame = Frames
  /\ seeks' = SeekTimers
  /\ upstream' = "nothing"
  /\ UNCHANGED <<source, bin, frame, accumulated_base, prev_accumulated_base, pts, segments,
                 unsought, camera_vars, creations, failed, dangling>>

\* seek_decode: paused, flushed to the beginning and played; what happens when the
\* seek fails is only a warning.
SeekDecode ==
  /\ seeks > 0 /\ seeks' = seeks - 1
  /\ IF bin = "freed"
       THEN dangling' = TRUE /\ UNCHANGED <<upstream, unsought>>
       ELSE /\ \/ upstream' = "segment" /\ UNCHANGED unsought
               \/ unsought' = TRUE /\ UNCHANGED upstream
            /\ UNCHANGED dangling
  /\ UNCHANGED <<source, bin, frame, accumulated_base, prev_accumulated_base, pts, segments,
                 camera_vars, creations, failed>>

-------------------------------------------------------------------------------
(* The recording of a camera. *)

SmartRecordEvent ==
  /\ generators > 0
  /\ record_ctx # "none" /\ ~reconfiguring
  /\ IF record_ctx = "destroyed"
       THEN dangling' = TRUE /\ UNCHANGED recordOn
       ELSE recordOn' = ~recordOn /\ UNCHANGED dangling
  /\ UNCHANGED <<source, bin, file_vars, record_ctx, generators, reconfiguring, changes,
                 creations, failed>>

\* A recording ends by itself after its duration.
RecordingEnds ==
  /\ recordOn /\ changes < MaxChanges
  /\ recordOn' = FALSE
  /\ changes' = changes + 1
  /\ UNCHANGED <<source, bin, file_vars, record_ctx, generators, reconfiguring, creations,
                 failed, dangling>>

\* The camera is reset, or up again.
Reconfigure ==
  /\ kind = "camera" /\ bin = "alive" /\ changes < MaxChanges
  /\ reconfiguring' = ~reconfiguring
  /\ changes' = changes + 1
  /\ UNCHANGED <<source, bin, file_vars, record_ctx, recordOn, generators, creations, failed,
                 dangling>>

-------------------------------------------------------------------------------
(* The pipeline is recreated: one dispatch of the main loop. *)

Recreates ==
  /\ ~failed   \* nobody tries again
  /\ creations < MaxCreations /\ creations' = creations + 1
  /\ frame' = 0 /\ pts' = -1 /\ recordOn' = FALSE
  /\ UNCHANGED <<source, accumulated_base, prev_accumulated_base, seeks, segments, unsought,
                 reconfiguring, changes, dangling>>

\* destroy_smart_record_bin leaves the pointer to the context it destroys.
Destroyed == IF kind = "camera" THEN "destroyed" ELSE "none"
Record_Kept == Destroyed   \* Mutant: the new context is not stored.
Record == IF kind = "camera" THEN "alive" ELSE "none"
NewGenerators == IF kind = "camera" THEN 1 ELSE 0

RecreateSource ==
  /\ Recreates
  /\ bin' = "alive"
  /\ upstream' = (IF kind = "file" THEN "segment" ELSE "nothing")
  /\ record_ctx' = Record
  /\ generators' = generators + NewGenerators
  /\ UNCHANGED failed

\* A step of it fails: before the bin is made, the context or the timer, or after all
\* of them; what has been made stays.
RecreationFails ==
  /\ Recreates
  /\ upstream' = "nothing" /\ failed' = TRUE
  /\ \E made \in 0..3 :
       /\ bin' = (IF made >= 1 THEN "alive" ELSE "freed")
       /\ record_ctx' = (IF made >= 2 THEN Record ELSE Destroyed)
       /\ generators' = (IF made = 3 THEN generators + NewGenerators ELSE generators)

-------------------------------------------------------------------------------
SourceNext ==
  \/ Segment \/ Buffer \/ Eos \/ SeekDecode
  \/ SmartRecordEvent \/ RecordingEnds \/ Reconfigure
  \/ RecreateSource \/ RecreationFails

SourceSpec == SourceInit /\ [][SourceNext]_source_vars

-------------------------------------------------------------------------------
(* What the timers promise. *)

SourceTypeOK ==
  /\ kind \in Kinds /\ segment_stop \in Stops
  /\ bin \in {"alive", "freed"}
  /\ upstream \in {"segment", "buffers", "nothing"}
  /\ frame \in 0..Frames
  /\ accumulated_base \in 0..TIME_NONE /\ prev_accumulated_base \in 0..TIME_NONE
  /\ pts \in -1..TIME_NONE
  /\ {seeks, generators, segments, creations, changes} \subseteq Nat
  /\ record_ctx \in {"none", "alive", "destroyed"}
  /\ {recordOn, reconfiguring, failed, unsought, dangling} \subseteq BOOLEAN

\* What was freed is used only after a recreation that failed: the timers outlive the
\* pipeline, the bin and the context do not, but their pointers are replaced before
\* the main loop comes to a timer again (seek_decode, smart_record_event_generator).
UsedWhileAlive == dangling => failed

\* A looped file whose length is known never goes back in time, from one loop to the
\* next and with any number of seeks in between, before the times wrap
\* (restart_stream_buf_prob: segment, flush and EOS are dropped, the stamps shifted).
NeverBackInTime ==
  [][segment_stop # TIME_NONE /\ segments * segment_stop < TIME_NONE /\ creations' = creations
       => pts' >= pts]_source_vars

\* A file that has ended is always about to begin again: there is a timer that will
\* seek, also after a recreation, unless a seek or a recreation has failed
\* (the probe swallows the EOS, and what follows it is left to the main loop).
EndIsFollowed ==
  kind = "file" /\ upstream = "nothing" => seeks > 0 \/ unsought \/ failed
================================================================================
