------------------------------- MODULE PerfMeter -------------------------------
(***************************************************************************)
(* The frame-rate meter of one pipeline (src/perf.cpp) and the calls that  *)
(* pause, resume and recreate it (src/app.cpp).                            *)
(*                                                                         *)
(* Two kinds of thread meet at struct_lock: the streaming thread that runs *)
(* sink_bin_buf_probe, and the threads that run the measurement timer and  *)
(* the user's commands.  The console's key handler and the window's event  *)
(* thread issue the same commands and nothing keeps them apart.            *)
(* Times are ticks of the wall clock; 0 is the zeroed timeval.             *)
(***************************************************************************)
EXTENDS Integers

CONSTANTS
  Streams,      \* the pads of the batch: one InstancePerfStruct each
  Callers,      \* threads that pause and resume: console keys, window events
  INTERVAL,     \* measurement_interval_ms, in ticks
  MaxTime,      \* bound: last tick of the clock
  MaxCommands   \* bound: pause and recreate commands

ASSUME MeterAssumption ==
  /\ INTERVAL \in Nat \ {0}
  /\ MaxTime \in Nat
  /\ MaxCommands \in Nat

VARIABLES
  now,                    \* gettimeofday
  playing,                \* the pipeline's GstState is PLAYING, or else PAUSED
  stop,                   \* AppPerfStructInt::stop
  perf_measurement_timeout_id,   \* ... is not zero
  timers,                 \* measurement timers attached to the main loop
  wait,                   \* ticks until the next one fires
  buffer_cnt,             \* frames since the last report
  total_buffer_cnt,       \* frames reported
  total_fps_time,         \* time measured before the last pause
  start_fps_time, last_fps_time, last_sample_fps_time,
  probing,                \* frames whose probe has read stop, and not counted yet
  calling,                \* what each caller is in the middle of
  commands,               \* budget used
  seen,                   \* history: frames that reached the probe's loop
  report                  \* history: what the last report divided

instance_vars == <<buffer_cnt, total_buffer_cnt, total_fps_time, start_fps_time,
                   last_fps_time, last_sample_fps_time>>
vars == <<now, playing, stop, perf_measurement_timeout_id, timers, wait,
          instance_vars, probing, calling, commands, seen, report>>

Counters == [Streams -> Nat]
Rate == [frames : Nat, time : Int, total : Nat, total_time : Int]

TypeOK ==
  /\ now \in Nat
  /\ playing \in BOOLEAN
  /\ stop \in BOOLEAN
  /\ perf_measurement_timeout_id \in BOOLEAN
  /\ timers \in Nat
  /\ wait \in 0..INTERVAL
  /\ buffer_cnt \in Counters
  /\ total_buffer_cnt \in Counters
  /\ total_fps_time \in Counters
  /\ start_fps_time \in Counters
  /\ last_fps_time \in Counters
  /\ last_sample_fps_time \in Counters
  /\ probing \subseteq Streams
  /\ calling \in [Callers -> {"idle", "pausing", "resuming"}]
  /\ commands \in Nat
  /\ seen \in Counters
  /\ report \in [Streams -> Rate]

Zeros == [s \in Streams |-> 0]

-------------------------------------------------------------------------------
(* enable_perf_measurement at the end of create_pipeline, then PLAYING *)

Init ==
  /\ now = 1
  /\ playing = TRUE
  /\ stop = FALSE
  /\ perf_measurement_timeout_id = TRUE
  /\ timers = 1
  /\ wait = INTERVAL
  /\ buffer_cnt = Zeros
  /\ total_buffer_cnt = Zeros
  /\ total_fps_time = Zeros
  /\ start_fps_time = Zeros
  /\ last_fps_time = Zeros
  /\ last_sample_fps_time = Zeros
  /\ probing = {}
  /\ calling = [c \in Callers |-> "idle"]
  /\ commands = 0
  /\ seen = Zeros
  /\ report = [s \in Streams |-> [frames |-> 0, time |-> 0, total |-> 0, total_time |-> 0]]

Tick ==
  /\ now < MaxTime
  /\ now' = now + 1
  /\ wait' = IF wait > 0 THEN wait - 1 ELSE 0
  /\ UNCHANGED <<playing, stop, perf_measurement_timeout_id, timers, instance_vars,
                 probing, calling, commands, seen, report>>

-------------------------------------------------------------------------------
(* sink_bin_buf_probe *)

\* The flag is read before the lock is taken.
ProbeReadsStop ==
  /\ ~stop
  /\ probing = {}
  /\ \E batch \in (SUBSET Streams) \ {{}} : probing' = batch
  /\ UNCHANGED <<now, playing, stop, perf_measurement_timeout_id, timers, wait,
                 instance_vars, calling, commands, seen, report>>

\* Mutant: the first frame of a stream is counted as well.
CountFrames_First(batch) ==
  /\ last_fps_time' = [s \in Streams |-> IF s \in batch THEN now ELSE last_fps_time[s]]
  /\ start_fps_time' = [s \in Streams |->
       IF s \in batch /\ start_fps_time[s] = 0 THEN now ELSE start_fps_time[s]]
  /\ buffer_cnt' = [s \in Streams |->
       IF s \in batch THEN buffer_cnt[s] + 1 ELSE buffer_cnt[s]]

\* The stream's first frame starts its clock; the following ones are counted.
CountFrames(batch) ==
  /\ last_fps_time' = [s \in Streams |-> IF s \in batch THEN now ELSE last_fps_time[s]]
  /\ start_fps_time' = [s \in Streams |->
       IF s \in batch /\ start_fps_time[s] = 0 THEN now ELSE start_fps_time[s]]
  /\ buffer_cnt' = [s \in Streams |->
       IF s \in batch /\ start_fps_time[s] # 0 THEN buffer_cnt[s] + 1 ELSE buffer_cnt[s]]

\* Two frames of a stream are further apart than the clock's resolution.
ProbeCounts ==
  /\ probing # {}
  /\ \A s \in probing : last_fps_time[s] < now
  /\ CountFrames(probing)
  /\ seen' = [s \in Streams |-> IF s \in probing THEN seen[s] + 1 ELSE seen[s]]
  /\ probing' = {}
  /\ UNCHANGED <<now, playing, stop, perf_measurement_timeout_id, timers, wait,
                 total_buffer_cnt, total_fps_time, last_sample_fps_time, calling,
                 commands, report>>

-------------------------------------------------------------------------------
(* perf_measurement_callback *)

\* Time between two samples, and time measured so far.
SampleTime(s) ==
  last_fps_time[s] - (IF last_sample_fps_time[s] = 0 THEN start_fps_time[s]
                      ELSE last_sample_fps_time[s])
ActiveTime(s) == total_fps_time[s] + now - start_fps_time[s]

\* A stopped meter loses its timer; nothing clears perf_measurement_timeout_id.
TimerStops ==
  /\ timers > 0 /\ wait = 0
  /\ stop
  /\ timers' = timers - 1
  /\ UNCHANGED <<now, playing, stop, perf_measurement_timeout_id, wait, instance_vars,
                 probing, calling, commands, seen, report>>

\* Mutant: the frames reported stay in the counter.
TimerReports_NotCleared ==
  /\ timers > 0 /\ wait = 0
  /\ ~stop
  /\ wait' = INTERVAL
  /\ total_buffer_cnt' = [s \in Streams |-> total_buffer_cnt[s] + buffer_cnt[s]]
  /\ last_sample_fps_time' = last_fps_time
  /\ UNCHANGED <<now, playing, stop, perf_measurement_timeout_id, timers, buffer_cnt,
                 total_fps_time, start_fps_time, last_fps_time, probing, calling,
                 commands, seen, report>>

TimerReports ==
  /\ timers > 0 /\ wait = 0
  /\ ~stop
  /\ wait' = INTERVAL
  /\ total_buffer_cnt' = [s \in Streams |-> total_buffer_cnt[s] + buffer_cnt[s]]
  /\ report' = [s \in Streams |->
       [frames |-> buffer_cnt[s], time |-> SampleTime(s),
        total |-> total_buffer_cnt'[s], total_time |-> ActiveTime(s)]]
  /\ buffer_cnt' = Zeros
  /\ last_sample_fps_time' = last_fps_time
  /\ UNCHANGED <<now, playing, stop, perf_measurement_timeout_id, timers,
                 total_fps_time, start_fps_time, last_fps_time, probing, calling,
                 commands, seen>>

-------------------------------------------------------------------------------
(* pause_perf_measurement and resume_perf_measurement *)

\* A stream with no frame since the last pause has a zeroed start_fps_time.
StopClocks ==
  /\ total_fps_time' = [s \in Streams |->
       total_fps_time[s] + last_fps_time[s] - start_fps_time[s]]
  /\ start_fps_time' = Zeros

PausePerf == stop' = TRUE /\ StopClocks

\* The timer is attached again only when its id says that there is none.
AttachTimer ==
  /\ timers' = IF perf_measurement_timeout_id THEN timers ELSE timers + 1
  /\ wait' = IF perf_measurement_timeout_id THEN wait ELSE INTERVAL
  /\ perf_measurement_timeout_id' = TRUE

ResumePerf ==
  \/ ~stop /\ UNCHANGED <<stop, buffer_cnt, perf_measurement_timeout_id, timers, wait>>
  \/ /\ stop
     /\ stop' = FALSE
     /\ buffer_cnt' = Zeros
     /\ AttachTimer

-------------------------------------------------------------------------------
(* pause_pipeline, resume_pipeline, destroy_pipeline followed by create_pipeline *)

PauseBegins(c) ==
  /\ calling[c] = "idle"
  /\ playing
  /\ commands < MaxCommands
  /\ commands' = commands + 1
  /\ calling' = [calling EXCEPT ![c] = "pausing"]
  /\ UNCHANGED <<now, playing, stop, perf_measurement_timeout_id, timers, wait,
                 instance_vars, probing, seen, report>>

PauseEnds(c) ==
  /\ calling[c] = "pausing"
  /\ calling' = [calling EXCEPT ![c] = "idle"]
  /\ playing' = FALSE
  /\ PausePerf
  /\ UNCHANGED <<now, perf_measurement_timeout_id, timers, wait, buffer_cnt,
                 total_buffer_cnt, last_fps_time, last_sample_fps_time, probing,
                 commands, seen, report>>

ResumeBegins(c) ==
  /\ calling[c] = "idle"
  /\ ~playing
  /\ calling' = [calling EXCEPT ![c] = "resuming"]
  /\ UNCHANGED <<now, playing, stop, perf_measurement_timeout_id, timers, wait,
                 instance_vars, probing, commands, seen, report>>

ResumeEnds(c) ==
  /\ calling[c] = "resuming"
  /\ calling' = [calling EXCEPT ![c] = "idle"]
  /\ playing' = TRUE
  /\ ResumePerf
  /\ UNCHANGED <<now, total_buffer_cnt, total_fps_time, start_fps_time, last_fps_time,
                 last_sample_fps_time, probing, commands, seen, report>>

\* The streaming threads are joined when the old pipeline goes to NULL; the meter is
\* paused once more, whatever state it was in, and enabled for the new pipeline.
RecreatePipeline ==
  /\ probing = {}
  /\ \A c \in Callers : calling[c] = "idle"
  /\ commands < MaxCommands
  /\ commands' = commands + 1
  /\ playing' = TRUE
  /\ StopClocks
  /\ stop' = FALSE
  /\ buffer_cnt' = Zeros
  /\ AttachTimer
  /\ UNCHANGED <<now, total_buffer_cnt, last_fps_time, last_sample_fps_time, probing,
                 calling, seen, report>>

-------------------------------------------------------------------------------
\* The bounded clock has run out; nothing is asked of what follows.
ClockEnds == now = MaxTime /\ UNCHANGED vars

Next ==
  \/ Tick \/ ClockEnds
  \/ ProbeReadsStop \/ ProbeCounts
  \/ TimerStops \/ TimerReports
  \/ \E c \in Callers : PauseBegins(c) \/ PauseEnds(c) \/ ResumeBegins(c) \/ ResumeEnds(c)
  \/ RecreatePipeline

Spec == Init /\ [][Next]_vars

-------------------------------------------------------------------------------
(* Properties *)

\* However pauses, resumes and recreations overlap, the main loop never runs two
\* measurement timers, which would halve every interval.
OneTimer == timers <= 1

\* A frame enters the totals at most once: what was reported and what waits for
\* the next report never exceed the frames seen.
FramesCountedOnce ==
  \A s \in Streams : total_buffer_cnt[s] + buffer_cnt[s] <= seen[s]

\* Whoever pauses, resumes and recreates, the measure is taken once of each frame.
MeasuredOnce == OneTimer /\ FramesCountedOnce

\* No report divides frames by a time of zero or less, in the rate since the last
\* sample or in the average.
RatesFinite ==
  \A s \in Streams :
    /\ report[s].frames > 0 => report[s].time > 0
    /\ report[s].total > 0 => report[s].total_time > 0
===============================================================================
