---------------------------- MODULE MainLoop_proofs ----------------------------
(***************************************************************************)
(* Proofs about what the main loop drives beside the pipelines, part by    *)
(* part as MCMainLoop composes them: the frame-rate meter, for any         *)
(* streams, callers and interval; the timers of a source, for any length   *)
(* of the file, any end of its segments and any number of seeks,           *)
(* recreations and recordings; the choice of the tile shown, for any       *)
(* instances, tiles, keys, clicks and recreations.                         *)
(***************************************************************************)
EXTENDS PerfMeter, SourceTimers, TileSelection, TLAPS

-------------------------------------------------------------------------------
(* The frame-rate meter *)

\* The clocks of a stream are taken one after the other: a measurement starts no later
\* than its last frame, and the frame of the last report came no later either.
ClocksOrdered ==
  /\ now > 0
  /\ \A s \in Streams :
       /\ start_fps_time[s] <= last_fps_time[s]
       /\ last_sample_fps_time[s] <= last_fps_time[s]
       /\ last_fps_time[s] <= now

Steady == UNCHANGED <<now, start_fps_time, last_fps_time, last_sample_fps_time>>

LEMMA CountFramesTyped ==
  ASSUME TypeOK, NEW batch \in SUBSET Streams, CountFrames(batch)
  PROVE  /\ last_fps_time' \in Counters
         /\ start_fps_time' \in Counters
         /\ buffer_cnt' \in Counters
<1>1. last_fps_time' \in Counters
  BY DEF CountFrames, TypeOK, Counters
<1>2. start_fps_time' \in Counters
  BY DEF CountFrames, TypeOK, Counters
<1>3. buffer_cnt' \in Counters
  BY DEF CountFrames, TypeOK, Counters
<1>4. QED BY <1>1, <1>2, <1>3

LEMMA StopClocksTyped ==
  ASSUME TypeOK, ClocksOrdered, StopClocks
  PROVE  total_fps_time' \in Counters /\ start_fps_time' \in Counters
<1>1. ASSUME NEW s \in Streams
      PROVE  total_fps_time[s] + last_fps_time[s] - start_fps_time[s] \in Nat
  <2>1. /\ total_fps_time[s] \in Nat /\ last_fps_time[s] \in Nat
        /\ start_fps_time[s] \in Nat /\ start_fps_time[s] <= last_fps_time[s]
    BY DEF TypeOK, Counters, ClocksOrdered
  <2>2. QED BY <2>1
<1>2. QED BY <1>1 DEF StopClocks, Zeros, Counters

LEMMA AttachTimerTyped ==
  ASSUME TypeOK, AttachTimer
  PROVE  /\ timers' \in Nat
         /\ wait' \in 0..INTERVAL
         /\ perf_measurement_timeout_id' \in BOOLEAN
BY MeterAssumption DEF AttachTimer, TypeOK

LEMMA MeterTypeInit == Init => TypeOK /\ ClocksOrdered
<1> SUFFICES ASSUME Init
             PROVE  TypeOK /\ ClocksOrdered
  OBVIOUS
<1>1. Zeros \in Counters /\ \A s \in Streams : Zeros[s] = 0
  BY DEF Zeros, Counters
<1>2. report \in [Streams -> Rate]
  BY DEF Init, Rate
<1>3. TypeOK
  <2>1. wait \in 0..INTERVAL
    BY MeterAssumption DEF Init
  <2>2. calling \in [Callers -> {"idle", "pausing", "resuming"}]
    BY DEF Init
  <2>3. /\ now \in Nat /\ timers \in Nat /\ commands \in Nat
        /\ playing \in BOOLEAN /\ stop \in BOOLEAN
        /\ perf_measurement_timeout_id \in BOOLEAN /\ probing \subseteq Streams
    BY DEF Init
  <2>4. /\ buffer_cnt \in Counters /\ total_buffer_cnt \in Counters
        /\ total_fps_time \in Counters /\ start_fps_time \in Counters
        /\ last_fps_time \in Counters /\ last_sample_fps_time \in Counters
        /\ seen \in Counters
    BY <1>1 DEF Init
  <2>5. QED BY <1>2, <2>1, <2>2, <2>3, <2>4 DEF TypeOK
<1>4. ClocksOrdered
  BY <1>1 DEF Init, ClocksOrdered
<1>5. QED BY <1>3, <1>4

LEMMA TypeNext == TypeOK /\ ClocksOrdered /\ [Next]_vars => TypeOK'
<1> SUFFICES ASSUME TypeOK, ClocksOrdered, [Next]_vars
             PROVE  TypeOK'
  OBVIOUS
<1>1. CASE Tick
  <2>1. now' \in Nat /\ wait' \in 0..INTERVAL
    BY <1>1, MeterAssumption DEF Tick, TypeOK
  <2>2. QED BY <1>1, <2>1 DEF Tick, TypeOK, instance_vars
<1>2. CASE ProbeReadsStop
  BY <1>2 DEF ProbeReadsStop, TypeOK, instance_vars
<1>3. CASE ProbeCounts
  <2>1. /\ last_fps_time' \in Counters
        /\ start_fps_time' \in Counters
        /\ buffer_cnt' \in Counters
    BY <1>3, CountFramesTyped DEF ProbeCounts, TypeOK
  <2>2. seen' \in Counters
    BY <1>3 DEF ProbeCounts, TypeOK, Counters
  <2>3. QED BY <1>3, <2>1, <2>2 DEF ProbeCounts, TypeOK
<1>4. CASE TimerStops
  <2>1. timers' \in Nat
    BY <1>4 DEF TimerStops, TypeOK
  <2>2. QED BY <1>4, <2>1 DEF TimerStops, TypeOK, instance_vars
<1>5. CASE TimerReports
  <2>1. total_buffer_cnt' \in Counters
    BY <1>5 DEF TimerReports, TypeOK, Counters
  <2>2. buffer_cnt' \in Counters /\ last_sample_fps_time' \in Counters
    BY <1>5 DEF TimerReports, TypeOK, Counters, Zeros
  <2>3. \A s \in Streams : SampleTime(s) \in Int /\ ActiveTime(s) \in Int
    BY DEF TypeOK, Counters, SampleTime, ActiveTime
  <2>4. report' \in [Streams -> Rate]
    <3>1. ASSUME NEW s \in Streams
          PROVE  [frames |-> buffer_cnt[s], time |-> SampleTime(s),
                  total |-> total_buffer_cnt'[s], total_time |-> ActiveTime(s)] \in Rate
      BY <2>1, <2>3 DEF TypeOK, Counters, Rate
    <3>2. QED BY <1>5, <3>1 DEF TimerReports
  <2>5. wait' \in 0..INTERVAL
    BY <1>5, MeterAssumption DEF TimerReports
  <2>6. QED BY <1>5, <2>1, <2>2, <2>4, <2>5 DEF TimerReports, TypeOK
<1>6. ASSUME NEW c \in Callers, PauseBegins(c)
      PROVE  TypeOK'
  <2>1. commands' \in Nat /\ calling' \in [Callers -> {"idle", "pausing", "resuming"}]
    BY <1>6 DEF PauseBegins, TypeOK
  <2>2. QED BY <1>6, <2>1 DEF PauseBegins, TypeOK, instance_vars
<1>7. ASSUME NEW c \in Callers, PauseEnds(c)
      PROVE  TypeOK'
  <2>1. calling' \in [Callers -> {"idle", "pausing", "resuming"}]
    BY <1>7 DEF PauseEnds, TypeOK
  <2>2. total_fps_time' \in Counters /\ start_fps_time' \in Counters
    BY <1>7, StopClocksTyped DEF PauseEnds, PausePerf
  <2>3. QED BY <1>7, <2>1, <2>2 DEF PauseEnds, PausePerf, TypeOK
<1>8. ASSUME NEW c \in Callers, ResumeBegins(c)
      PROVE  TypeOK'
  <2>1. calling' \in [Callers -> {"idle", "pausing", "resuming"}]
    BY <1>8 DEF ResumeBegins, TypeOK
  <2>2. QED BY <1>8, <2>1 DEF ResumeBegins, TypeOK, instance_vars
<1>9. ASSUME NEW c \in Callers, ResumeEnds(c)
      PROVE  TypeOK'
  <2>1. calling' \in [Callers -> {"idle", "pausing", "resuming"}]
    BY <1>9 DEF ResumeEnds, TypeOK
  <2>2. /\ stop' \in BOOLEAN /\ buffer_cnt' \in Counters
        /\ perf_measurement_timeout_id' \in BOOLEAN /\ timers' \in Nat
        /\ wait' \in 0..INTERVAL
    <3>1. CASE UNCHANGED <<stop, buffer_cnt, perf_measurement_timeout_id, timers, wait>>
      BY <3>1 DEF TypeOK
    <3>2. CASE stop' = FALSE /\ buffer_cnt' = Zeros /\ AttachTimer
      BY <3>2, AttachTimerTyped DEF Zeros, Counters
    <3>3. QED BY <1>9, <3>1, <3>2 DEF ResumeEnds, ResumePerf
  <2>3. QED BY <1>9, <2>1, <2>2 DEF ResumeEnds, TypeOK
<1>10. CASE RecreatePipeline
  <2>1. total_fps_time' \in Counters /\ start_fps_time' \in Counters
    BY <1>10, StopClocksTyped DEF RecreatePipeline
  <2>2. /\ timers' \in Nat /\ wait' \in 0..INTERVAL
        /\ perf_measurement_timeout_id' \in BOOLEAN
    BY <1>10, AttachTimerTyped DEF RecreatePipeline
  <2>3. commands' \in Nat /\ buffer_cnt' \in Counters
    BY <1>10 DEF RecreatePipeline, TypeOK, Zeros, Counters
  <2>4. QED BY <1>10, <2>1, <2>2, <2>3 DEF RecreatePipeline, TypeOK
<1>11. CASE UNCHANGED vars
  BY <1>11 DEF vars, instance_vars, TypeOK
<1>12. QED
  BY <1>1, <1>2, <1>3, <1>4, <1>5, <1>6, <1>7, <1>8, <1>9, <1>10, <1>11
  DEF Next, ClockEnds

LEMMA ClocksNext == TypeOK /\ ClocksOrdered /\ [Next]_vars => ClocksOrdered'
<1> SUFFICES ASSUME TypeOK, ClocksOrdered, [Next]_vars
             PROVE  ClocksOrdered'
  OBVIOUS
<1>0. /\ now \in Nat
      /\ \A s \in Streams : /\ start_fps_time[s] \in Nat /\ last_fps_time[s] \in Nat
                            /\ last_sample_fps_time[s] \in Nat
  BY DEF TypeOK, Counters
<1>1. CASE Tick
  <2>1. now' = now + 1 /\ UNCHANGED instance_vars
    BY <1>1 DEF Tick
  <2>2. QED BY <1>0, <2>1 DEF ClocksOrdered, instance_vars
<1>2. CASE ProbeCounts
  <2>1. CountFrames(probing) /\ UNCHANGED <<now, last_sample_fps_time>>
    BY <1>2 DEF ProbeCounts
  <2>2. ASSUME NEW s \in Streams
        PROVE  /\ start_fps_time'[s] <= last_fps_time'[s]
               /\ last_sample_fps_time'[s] <= last_fps_time'[s]
               /\ last_fps_time'[s] <= now'
    <3>1. CASE s \in probing
      <4>1. last_fps_time'[s] = now /\ start_fps_time'[s] \in {now, start_fps_time[s]}
        BY <2>1, <3>1 DEF CountFrames
      <4>2. QED BY <1>0, <2>1, <4>1 DEF ClocksOrdered
    <3>2. CASE s \notin probing
      <4>1. last_fps_time'[s] = last_fps_time[s] /\ start_fps_time'[s] = start_fps_time[s]
        BY <2>1, <3>2 DEF CountFrames
      <4>2. QED BY <2>1, <4>1 DEF ClocksOrdered
    <3>3. QED BY <3>1, <3>2
  <2>3. QED BY <2>1, <2>2 DEF ClocksOrdered
<1>3. CASE TimerReports
  <2>1. last_sample_fps_time' = last_fps_time /\ UNCHANGED <<now, start_fps_time, last_fps_time>>
    BY <1>3 DEF TimerReports
  <2>2. QED BY <1>0, <2>1 DEF ClocksOrdered
<1>4. ASSUME StopClocks, UNCHANGED <<now, last_fps_time, last_sample_fps_time>>
      PROVE  ClocksOrdered'
  <2>1. \A s \in Streams : start_fps_time'[s] = 0
    BY <1>4 DEF StopClocks, Zeros
  <2>2. QED BY <1>0, <1>4, <2>1 DEF ClocksOrdered
<1>5. ASSUME NEW c \in Callers, PauseEnds(c)
      PROVE  ClocksOrdered'
  BY <1>4, <1>5 DEF PauseEnds, PausePerf
<1>6. CASE RecreatePipeline
  BY <1>4, <1>6 DEF RecreatePipeline
<1>7. ASSUME Steady
      PROVE  ClocksOrdered'
  BY <1>7 DEF Steady, ClocksOrdered
<1>8. ASSUME NEW c \in Callers, PauseBegins(c) \/ ResumeBegins(c) \/ ResumeEnds(c)
      PROVE  Steady
  BY <1>8 DEF PauseBegins, ResumeBegins, ResumeEnds, Steady, instance_vars
<1>9. ASSUME ProbeReadsStop \/ TimerStops \/ ClockEnds \/ UNCHANGED vars
      PROVE  Steady
  BY <1>9 DEF ProbeReadsStop, TimerStops, ClockEnds, vars, instance_vars, Steady
<1>10. QED
  BY <1>1, <1>2, <1>3, <1>5, <1>6, <1>7, <1>8, <1>9 DEF Next

\* Every reachable state of the meter is well typed, and its clocks are ordered.
THEOREM MeterTypeCorrect == Spec => [](TypeOK /\ ClocksOrdered)
BY MeterTypeInit, TypeNext, ClocksNext, PTL DEF Spec

-------------------------------------------------------------------------------
(* The measurement timer *)

\* A timer that is attached has left its id, so that nobody attaches another.
TimerInv == timers <= 1 /\ (timers = 1 => perf_measurement_timeout_id)

TimerUntouched == UNCHANGED <<timers, perf_measurement_timeout_id>>

LEMMA AttachKeepsTimerInv ==
  ASSUME TypeOK, TimerInv, AttachTimer
  PROVE  TimerInv'
<1>1. CASE perf_measurement_timeout_id
  BY <1>1 DEF TimerInv, AttachTimer
<1>2. CASE ~perf_measurement_timeout_id
  <2>1. timers \in Nat /\ timers # 1
    BY <1>2 DEF TypeOK, TimerInv
  <2>2. timers = 0
    BY <2>1 DEF TimerInv
  <2>3. timers' = 1 /\ perf_measurement_timeout_id'
    BY <1>2, <2>2 DEF AttachTimer
  <2>4. QED BY <2>3 DEF TimerInv
<1>3. QED BY <1>1, <1>2

LEMMA TimerNext == TypeOK /\ TimerInv /\ [Next]_vars => TimerInv'
<1> SUFFICES ASSUME TypeOK, TimerInv, [Next]_vars
             PROVE  TimerInv'
  OBVIOUS
<1>1. CASE TimerStops
  <2>1. timers \in Nat /\ timers' = timers - 1 /\ timers > 0
    BY <1>1 DEF TimerStops, TypeOK
  <2>2. timers' = 0
    BY <2>1 DEF TimerInv
  <2>3. QED BY <2>2 DEF TimerInv
<1>2. ASSUME NEW c \in Callers, ResumeEnds(c)
      PROVE  TimerInv'
  <2>1. CASE UNCHANGED <<stop, buffer_cnt, perf_measurement_timeout_id, timers, wait>>
    BY <2>1 DEF TimerInv
  <2>2. CASE AttachTimer
    BY <2>2, AttachKeepsTimerInv
  <2>3. QED BY <1>2, <2>1, <2>2 DEF ResumeEnds, ResumePerf
<1>3. CASE RecreatePipeline
  BY <1>3, AttachKeepsTimerInv DEF RecreatePipeline
<1>4. ASSUME TimerUntouched
      PROVE  TimerInv'
  BY <1>4 DEF TimerUntouched, TimerInv
<1>5. ASSUME NEW c \in Callers, PauseBegins(c) \/ PauseEnds(c) \/ ResumeBegins(c)
      PROVE  TimerUntouched
  BY <1>5 DEF PauseBegins, PauseEnds, ResumeBegins, TimerUntouched
<1>6. ASSUME Tick \/ ClockEnds \/ ProbeReadsStop \/ ProbeCounts \/ TimerReports \/ UNCHANGED vars
      PROVE  TimerUntouched
  BY <1>6 DEF Tick, ClockEnds, ProbeReadsStop, ProbeCounts, TimerReports, vars,
              TimerUntouched
<1>7. QED
  BY <1>1, <1>2, <1>3, <1>4, <1>5, <1>6 DEF Next

\* The meter of a pipeline never has two timers, whoever pauses, resumes and recreates
\* it (resume_perf_measurement, enable_perf_measurement).
THEOREM OneTimerAlways == Spec => []OneTimer
<1>1. Init => TimerInv
  BY DEF Init, TimerInv
<1>2. TimerInv => OneTimer
  BY DEF TimerInv, OneTimer
<1>3. QED BY <1>1, <1>2, TimerNext, MeterTypeCorrect, PTL DEF Spec

-------------------------------------------------------------------------------
(* The frames *)

LEMMA FramesNext == TypeOK /\ FramesCountedOnce /\ [Next]_vars => FramesCountedOnce'
<1> SUFFICES ASSUME TypeOK, FramesCountedOnce, [Next]_vars, NEW s \in Streams
             PROVE  total_buffer_cnt'[s] + buffer_cnt'[s] <= seen'[s]
  BY DEF FramesCountedOnce
<1>0. /\ total_buffer_cnt[s] \in Nat /\ buffer_cnt[s] \in Nat /\ seen[s] \in Nat
      /\ total_buffer_cnt[s] + buffer_cnt[s] <= seen[s]
  BY DEF TypeOK, Counters, FramesCountedOnce
<1>1. CASE ProbeCounts
  <2>1. total_buffer_cnt'[s] = total_buffer_cnt[s]
    BY <1>1 DEF ProbeCounts
  <2>2. CASE s \in probing
    <3>1. seen'[s] = seen[s] + 1
      BY <1>1, <2>2 DEF ProbeCounts
    <3>2. buffer_cnt'[s] \in {buffer_cnt[s], buffer_cnt[s] + 1}
      BY <1>1, <2>2 DEF ProbeCounts, CountFrames
    <3>3. QED BY <1>0, <2>1, <3>1, <3>2
  <2>3. CASE s \notin probing
    <3>1. seen'[s] = seen[s] /\ buffer_cnt'[s] = buffer_cnt[s]
      BY <1>1, <2>3 DEF ProbeCounts, CountFrames
    <3>2. QED BY <1>0, <2>1, <3>1
  <2>4. QED BY <2>2, <2>3
<1>2. CASE TimerReports
  <2>1. /\ total_buffer_cnt'[s] = total_buffer_cnt[s] + buffer_cnt[s]
        /\ buffer_cnt'[s] = 0 /\ seen'[s] = seen[s]
    BY <1>2 DEF TimerReports, Zeros
  <2>2. QED BY <1>0, <2>1
<1>3. ASSUME buffer_cnt'[s] \in {buffer_cnt[s], 0}, UNCHANGED <<total_buffer_cnt, seen>>
      PROVE  total_buffer_cnt'[s] + buffer_cnt'[s] <= seen'[s]
  BY <1>0, <1>3
<1>4. ASSUME NEW c \in Callers, ResumeEnds(c)
      PROVE  buffer_cnt'[s] \in {buffer_cnt[s], 0} /\ UNCHANGED <<total_buffer_cnt, seen>>
  BY <1>4 DEF ResumeEnds, ResumePerf, Zeros
<1>5. CASE RecreatePipeline
  BY <1>3, <1>5 DEF RecreatePipeline, Zeros
<1>6. ASSUME NEW c \in Callers, PauseBegins(c) \/ PauseEnds(c) \/ ResumeBegins(c)
      PROVE  UNCHANGED <<buffer_cnt, total_buffer_cnt, seen>>
  BY <1>6 DEF PauseBegins, PauseEnds, ResumeBegins, instance_vars
<1>7. ASSUME Tick \/ ClockEnds \/ ProbeReadsStop \/ TimerStops \/ UNCHANGED vars
      PROVE  UNCHANGED <<buffer_cnt, total_buffer_cnt, seen>>
  BY <1>7 DEF Tick, ClockEnds, ProbeReadsStop, TimerStops, vars, instance_vars
<1>8. QED
  BY <1>1, <1>2, <1>3, <1>4, <1>5, <1>6, <1>7 DEF Next

\* No frame is counted twice, in one report or in two (sink_bin_buf_probe,
\* perf_measurement_callback).
THEOREM FramesAlwaysCountedOnce == Spec => []FramesCountedOnce
<1>1. Init => FramesCountedOnce
  <2>1. SUFFICES ASSUME Init, NEW s \in Streams
                 PROVE  total_buffer_cnt[s] + buffer_cnt[s] <= seen[s]
    BY DEF FramesCountedOnce
  <2>2. total_buffer_cnt[s] = 0 /\ buffer_cnt[s] = 0 /\ seen[s] = 0
    BY <2>1 DEF Init, Zeros
  <2>3. QED BY <2>2
<1>2. QED BY <1>1, FramesNext, MeterTypeCorrect, PTL DEF Spec

\* One timer measures, and each frame enters one report at most, however many threads
\* pause, resume and recreate (pause_perf_measurement, resume_perf_measurement).
THEOREM AlwaysMeasuredOnce == Spec => []MeasuredOnce
<1>1. OneTimer /\ FramesCountedOnce => MeasuredOnce
  BY DEF MeasuredOnce
<1>2. QED BY <1>1, OneTimerAlways, FramesAlwaysCountedOnce, PTL

-------------------------------------------------------------------------------
(* The rates *)

LastSample(s) ==
  IF last_sample_fps_time[s] = 0 THEN start_fps_time[s] ELSE last_sample_fps_time[s]

\* Frames that a running meter has counted have taken time since the last sample ...
SampleTakesTime(s) ==
  ~stop /\ buffer_cnt[s] > 0 => start_fps_time[s] > 0 /\ LastSample(s) < last_fps_time[s]

\* ... and all frames counted so far have taken time before the last pause or after it.
TotalTakesTime(s) ==
  total_buffer_cnt[s] + buffer_cnt[s] > 0 =>
    \/ total_fps_time[s] > 0
    \/ start_fps_time[s] > 0 /\ start_fps_time[s] < last_fps_time[s]

RatesInv ==
  /\ RatesFinite
  /\ \A s \in Streams : SampleTakesTime(s) /\ TotalTakesTime(s)

\* What the clocks and counters of a stream are, for arithmetic.
LEMMA StreamNumbers ==
  ASSUME TypeOK, ClocksOrdered, NEW s \in Streams
  PROVE  /\ now \in Nat /\ now > 0
         /\ buffer_cnt[s] \in Nat /\ total_buffer_cnt[s] \in Nat
         /\ total_fps_time[s] \in Nat /\ start_fps_time[s] \in Nat
         /\ last_fps_time[s] \in Nat /\ last_sample_fps_time[s] \in Nat
         /\ start_fps_time[s] <= last_fps_time[s]
         /\ last_sample_fps_time[s] <= last_fps_time[s]
         /\ last_fps_time[s] <= now
BY DEF TypeOK, Counters, ClocksOrdered

LEMMA CountKeepsRates ==
  ASSUME TypeOK, ClocksOrdered, RatesInv, ProbeCounts, NEW s \in Streams
  PROVE  SampleTakesTime(s)' /\ TotalTakesTime(s)'
<1>1. /\ stop' = stop
      /\ total_buffer_cnt'[s] = total_buffer_cnt[s]
      /\ total_fps_time'[s] = total_fps_time[s]
      /\ last_sample_fps_time'[s] = last_sample_fps_time[s]
  BY DEF ProbeCounts
<1>2. SampleTakesTime(s) /\ TotalTakesTime(s)
  BY DEF RatesInv
<1>3. CASE s \notin probing
  <2>1. /\ last_fps_time'[s] = last_fps_time[s]
        /\ start_fps_time'[s] = start_fps_time[s]
        /\ buffer_cnt'[s] = buffer_cnt[s]
    BY <1>3 DEF ProbeCounts, CountFrames
  <2>2. QED BY <1>1, <1>2, <2>1 DEF SampleTakesTime, TotalTakesTime, LastSample
<1>4. CASE s \in probing /\ start_fps_time[s] = 0
  <2>1. /\ last_fps_time'[s] = now
        /\ start_fps_time'[s] = now
        /\ buffer_cnt'[s] = buffer_cnt[s]
    BY <1>4 DEF ProbeCounts, CountFrames
  <2>2. stop \/ buffer_cnt[s] = 0
    BY <1>2, <1>4, StreamNumbers DEF SampleTakesTime
  <2>3. SampleTakesTime(s)'
    BY <1>1, <2>1, <2>2, StreamNumbers DEF SampleTakesTime
  <2>4. TotalTakesTime(s)'
    BY <1>1, <1>2, <1>4, <2>1, StreamNumbers DEF TotalTakesTime
  <2>5. QED BY <2>3, <2>4
<1>5. CASE s \in probing /\ start_fps_time[s] # 0
  <2>1. /\ last_fps_time'[s] = now
        /\ start_fps_time'[s] = start_fps_time[s]
        /\ last_fps_time[s] < now
    BY <1>5 DEF ProbeCounts, CountFrames
  <2>2. start_fps_time[s] > 0 /\ start_fps_time[s] < now /\ last_sample_fps_time[s] < now
    BY <1>5, <2>1, StreamNumbers
  <2>3. SampleTakesTime(s)'
    BY <1>1, <2>1, <2>2 DEF SampleTakesTime, LastSample
  <2>4. TotalTakesTime(s)'
    BY <2>1, <2>2 DEF TotalTakesTime
  <2>5. QED BY <2>3, <2>4
<1>6. QED BY <1>3, <1>4, <1>5

LEMMA ReportKeepsRates ==
  ASSUME TypeOK, ClocksOrdered, RatesInv, TimerReports
  PROVE  RatesInv'
<1> SUFFICES ASSUME NEW s \in Streams
             PROVE  /\ report'[s].frames > 0 => report'[s].time > 0
                    /\ report'[s].total > 0 => report'[s].total_time > 0
                    /\ SampleTakesTime(s)' /\ TotalTakesTime(s)'
  BY DEF RatesInv, RatesFinite
<1>1. /\ stop' = stop /\ ~stop
      /\ buffer_cnt'[s] = 0
      /\ total_buffer_cnt'[s] = total_buffer_cnt[s] + buffer_cnt[s]
      /\ total_fps_time'[s] = total_fps_time[s]
      /\ start_fps_time'[s] = start_fps_time[s] /\ last_fps_time'[s] = last_fps_time[s]
  BY DEF TimerReports, Zeros
<1>2. /\ report'[s].frames = buffer_cnt[s]
      /\ report'[s].time = last_fps_time[s] - LastSample(s)
      /\ report'[s].total = total_buffer_cnt[s] + buffer_cnt[s]
      /\ report'[s].total_time = total_fps_time[s] + now - start_fps_time[s]
  BY DEF TimerReports, SampleTime, ActiveTime, LastSample
<1>3. SampleTakesTime(s) /\ TotalTakesTime(s)
  BY DEF RatesInv
<1>4. report'[s].frames > 0 => report'[s].time > 0
  <2>1. LastSample(s) \in Nat
    BY StreamNumbers DEF LastSample
  <2>2. QED BY <1>1, <1>2, <1>3, <2>1, StreamNumbers DEF SampleTakesTime
<1>5. report'[s].total > 0 => report'[s].total_time > 0
  BY <1>2, <1>3, StreamNumbers DEF TotalTakesTime
<1>6. SampleTakesTime(s)' /\ TotalTakesTime(s)'
  <2>1. SampleTakesTime(s)'
    BY <1>1 DEF SampleTakesTime
  <2>2. total_buffer_cnt'[s] + buffer_cnt'[s] = total_buffer_cnt[s] + buffer_cnt[s]
    BY <1>1, StreamNumbers
  <2>3. TotalTakesTime(s)'
    BY <1>1, <1>3, <2>2 DEF TotalTakesTime
  <2>4. QED BY <2>1, <2>3
<1>7. QED BY <1>4, <1>5, <1>6

\* Stopping the clocks moves the time measured, and no stream is being sampled.
LEMMA StopKeepsRates ==
  ASSUME TypeOK, ClocksOrdered, RatesInv, StopClocks,
         UNCHANGED <<total_buffer_cnt, last_fps_time>>, NEW s \in Streams,
         \/ stop' /\ buffer_cnt'[s] = buffer_cnt[s]
         \/ buffer_cnt'[s] = 0
  PROVE  SampleTakesTime(s)' /\ TotalTakesTime(s)'
<1>1. SampleTakesTime(s)'
  BY DEF SampleTakesTime
<1>2. /\ total_fps_time'[s] = total_fps_time[s] + last_fps_time[s] - start_fps_time[s]
      /\ start_fps_time'[s] = 0
  BY DEF StopClocks, Zeros
<1>3. TotalTakesTime(s)
  BY DEF RatesInv
<1>4. total_buffer_cnt'[s] + buffer_cnt'[s] > 0 => total_buffer_cnt[s] + buffer_cnt[s] > 0
  BY StreamNumbers
<1>5. TotalTakesTime(s)'
  BY <1>2, <1>3, <1>4, StreamNumbers DEF TotalTakesTime
<1>6. QED BY <1>1, <1>5

LEMMA RatesNext == TypeOK /\ ClocksOrdered /\ RatesInv /\ [Next]_vars => RatesInv'
<1> SUFFICES ASSUME TypeOK, ClocksOrdered, RatesInv, [Next]_vars
             PROVE  RatesInv'
  OBVIOUS
<1>1. CASE TimerReports
  BY <1>1, ReportKeepsRates
<1>2. CASE ProbeCounts
  <2>1. RatesFinite'
    BY <1>2 DEF ProbeCounts, RatesInv, RatesFinite
  <2>2. QED BY <1>2, <2>1, CountKeepsRates DEF RatesInv
<1>3. ASSUME NEW c \in Callers, PauseEnds(c)
      PROVE  RatesInv'
  <2>1. RatesFinite'
    BY <1>3 DEF PauseEnds, RatesInv, RatesFinite
  <2>2. /\ StopClocks /\ stop' /\ UNCHANGED <<buffer_cnt, total_buffer_cnt, last_fps_time>>
    BY <1>3 DEF PauseEnds, PausePerf
  <2>3. QED BY <2>1, <2>2, StopKeepsRates DEF RatesInv
<1>4. CASE RecreatePipeline
  <2>1. RatesFinite'
    BY <1>4 DEF RecreatePipeline, RatesInv, RatesFinite
  <2>2. /\ StopClocks /\ UNCHANGED <<total_buffer_cnt, last_fps_time>>
        /\ \A s \in Streams : buffer_cnt'[s] = 0
    BY <1>4 DEF RecreatePipeline, Zeros
  <2>3. QED BY <2>1, <2>2, StopKeepsRates DEF RatesInv
<1>5. ASSUME NEW c \in Callers, ResumeEnds(c)
      PROVE  RatesInv'
  <2>1. UNCHANGED <<total_buffer_cnt, total_fps_time, start_fps_time, last_fps_time,
                    last_sample_fps_time, report>>
    BY <1>5 DEF ResumeEnds
  <2>2. RatesFinite'
    BY <2>1 DEF RatesInv, RatesFinite
  <2>3. CASE UNCHANGED <<stop, buffer_cnt>>
    BY <2>1, <2>2, <2>3
    DEF RatesInv, SampleTakesTime, TotalTakesTime, LastSample
  <2>4. CASE buffer_cnt' = Zeros
    <3>1. ASSUME NEW s \in Streams
          PROVE  SampleTakesTime(s)' /\ TotalTakesTime(s)'
      <4>1. buffer_cnt'[s] = 0
        BY <2>4 DEF Zeros
      <4>2. total_buffer_cnt'[s] + buffer_cnt'[s] > 0
              => total_buffer_cnt[s] + buffer_cnt[s] > 0
        BY <2>1, <4>1, StreamNumbers
      <4>3. TotalTakesTime(s)
        BY DEF RatesInv
      <4>4. QED BY <2>1, <4>1, <4>2, <4>3 DEF SampleTakesTime, TotalTakesTime
    <3>2. QED BY <2>2, <3>1 DEF RatesInv
  <2>5. QED BY <1>5, <2>3, <2>4 DEF ResumeEnds, ResumePerf
<1>6. ASSUME UNCHANGED <<stop, instance_vars, report>>
      PROVE  RatesInv'
  BY <1>6 DEF instance_vars, RatesInv, RatesFinite, SampleTakesTime, TotalTakesTime,
              LastSample
<1>7. ASSUME NEW c \in Callers, PauseBegins(c) \/ ResumeBegins(c)
      PROVE  UNCHANGED <<stop, instance_vars, report>>
  BY <1>7 DEF PauseBegins, ResumeBegins
<1>8. ASSUME Tick \/ ClockEnds \/ ProbeReadsStop \/ TimerStops \/ UNCHANGED vars
      PROVE  UNCHANGED <<stop, instance_vars, report>>
  BY <1>8 DEF Tick, ClockEnds, ProbeReadsStop, TimerStops, vars
<1>9. QED
  BY <1>1, <1>2, <1>3, <1>4, <1>5, <1>6, <1>7, <1>8 DEF Next

\* No report ever divides by zero or by a negative time, however pauses, resumes,
\* recreations and late probes meet (perf_measurement_callback).
THEOREM RatesAlwaysFinite == Spec => []RatesFinite
<1>1. Init => RatesInv
  <2>1. SUFFICES ASSUME Init, NEW s \in Streams
                 PROVE  /\ report[s].frames = 0 /\ report[s].total = 0
                        /\ buffer_cnt[s] = 0 /\ total_buffer_cnt[s] = 0
    BY DEF RatesInv, RatesFinite, SampleTakesTime, TotalTakesTime
  <2>2. QED BY <2>1 DEF Init, Zeros
<1>2. RatesInv => RatesFinite
  BY DEF RatesInv
<1>3. QED BY <1>1, <1>2, RatesNext, MeterTypeCorrect, PTL DEF Spec

-------------------------------------------------------------------------------
(* The timers of a source *)

\* What a timer finds while no recreation has failed: a bin, and a context that was
\* not destroyed.
Whole == ~failed => bin = "alive" /\ record_ctx # "destroyed"

LEMMA SumIsATime ==
  ASSUME NEW a \in Nat, NEW b \in Nat
  PROVE  Plus(a, b) \in 0..TIME_NONE
<1>1. TIME_NONE \in Nat
  BY TimersAssumption
<1>2. a + b \in Nat /\ TIME_NONE + 1 \in Nat \ {0}
  BY <1>1
<1>3. (a + b) % (TIME_NONE + 1) \in 0..TIME_NONE
  BY <1>1, <1>2
<1>4. QED BY <1>3 DEF Plus

LEMMA StopsAreTimes == Stops \subseteq Nat /\ TIME_NONE \in Nat /\ Frames \in Nat
BY TimersAssumption

LEMMA SourceTypeInit == SourceInit => SourceTypeOK
<1> SUFFICES ASSUME SourceInit
             PROVE  SourceTypeOK
  OBVIOUS
<1>1. {seeks, generators, segments, creations, changes} \subseteq Nat
  BY DEF SourceInit
<1>2. frame \in 0..Frames /\ accumulated_base \in 0..TIME_NONE
      /\ prev_accumulated_base \in 0..TIME_NONE /\ pts \in -1..TIME_NONE
  BY StopsAreTimes DEF SourceInit
<1>3. QED BY <1>1, <1>2 DEF SourceInit, SourceTypeOK

\* The counters and the times, which the steps change one at a time.
TimerCounters == {seeks, generators, segments, creations, changes} \subseteq Nat
Times ==
  /\ frame \in 0..Frames
  /\ accumulated_base \in 0..TIME_NONE /\ prev_accumulated_base \in 0..TIME_NONE
  /\ pts \in -1..TIME_NONE
States ==
  /\ kind \in Kinds /\ segment_stop \in Stops
  /\ bin \in {"alive", "freed"}
  /\ upstream \in {"segment", "buffers", "nothing"}
  /\ record_ctx \in {"none", "alive", "destroyed"}
  /\ {recordOn, reconfiguring, failed, unsought, dangling} \subseteq BOOLEAN

LEMMA TypeParts == SourceTypeOK <=> TimerCounters /\ Times /\ States
BY DEF SourceTypeOK, TimerCounters, Times, States

LEMMA CountersStep == SourceTypeOK /\ [SourceNext]_source_vars => TimerCounters'
<1> SUFFICES ASSUME SourceTypeOK, [SourceNext]_source_vars
             PROVE  TimerCounters'
  OBVIOUS
<1>0. /\ seeks \in Nat /\ generators \in Nat /\ segments \in Nat
      /\ creations \in Nat /\ changes \in Nat
  BY DEF SourceTypeOK
<1> USE <1>0 DEF TimerCounters, source, file_vars, camera_vars
<1>1. CASE Segment   BY <1>1 DEF Segment
<1>2. CASE Buffer    BY <1>2 DEF Buffer
<1>3. CASE Eos       BY <1>3 DEF Eos, SeekTimers
<1>4. CASE SeekDecode
  <2>1. seeks' \in Nat /\ UNCHANGED <<segments, generators, creations, changes>>
    BY <1>4 DEF SeekDecode
  <2>2. QED BY <2>1
<1>5. CASE SmartRecordEvent   BY <1>5 DEF SmartRecordEvent
<1>6. CASE RecordingEnds      BY <1>6 DEF RecordingEnds
<1>7. CASE Reconfigure        BY <1>7 DEF Reconfigure
<1>8. CASE RecreateSource
  <2>1. NewGenerators \in Nat
    BY DEF NewGenerators
  <2>2. QED BY <1>8, <2>1 DEF RecreateSource, Recreates
<1>9. CASE RecreationFails
  <2>1. NewGenerators \in Nat
    BY DEF NewGenerators
  <2>2. generators' \in Nat
    BY <1>9, <2>1 DEF RecreationFails
  <2>3. QED BY <1>9, <2>2 DEF RecreationFails, Recreates
<1>10. CASE UNCHANGED source_vars   BY <1>10 DEF source_vars
<1>11. QED
  BY <1>1, <1>2, <1>3, <1>4, <1>5, <1>6, <1>7, <1>8, <1>9, <1>10 DEF SourceNext

LEMMA TimesStep == SourceTypeOK /\ [SourceNext]_source_vars => Times'
<1> SUFFICES ASSUME SourceTypeOK, [SourceNext]_source_vars
             PROVE  Times'
  OBVIOUS
<1>0. Times /\ segment_stop \in Nat
  BY StopsAreTimes DEF SourceTypeOK, Times
<1>b. /\ frame \in Nat /\ accumulated_base \in Nat /\ prev_accumulated_base \in Nat
  BY <1>0, StopsAreTimes DEF Times
<1> USE <1>0, <1>b, StopsAreTimes DEF source, file_vars
<1>1. CASE Segment
  <2>1. Plus(accumulated_base, segment_stop) \in 0..TIME_NONE
    BY SumIsATime
  <2>2. QED BY <1>1, <2>1 DEF Segment, Base, Times
<1>2. CASE Buffer
  <2>1. Plus(frame, prev_accumulated_base) \in 0..TIME_NONE
    BY SumIsATime
  <2>2. pts' \in -1..TIME_NONE
    BY <1>2, <2>1 DEF Buffer, Stamp
  <2>3. frame' \in 0..Frames
    BY <1>2 DEF Buffer, Times
  <2>4. QED BY <1>2, <2>2, <2>3 DEF Buffer, Times
<1>3. CASE Eos                BY <1>3 DEF Eos, Times
<1>4. CASE SeekDecode         BY <1>4 DEF SeekDecode, Times
<1>5. CASE SmartRecordEvent   BY <1>5 DEF SmartRecordEvent, Times
<1>6. CASE RecordingEnds      BY <1>6 DEF RecordingEnds, Times
<1>7. CASE Reconfigure        BY <1>7 DEF Reconfigure, Times
<1>8. CASE Recreates          BY <1>8 DEF Recreates, Times
<1>9. CASE UNCHANGED source_vars   BY <1>9 DEF source_vars, Times
<1>10. QED
  BY <1>1, <1>2, <1>3, <1>4, <1>5, <1>6, <1>7, <1>8, <1>9
  DEF SourceNext, RecreateSource, RecreationFails

LEMMA StatesStep == SourceTypeOK /\ [SourceNext]_source_vars => States'
<1> SUFFICES ASSUME SourceTypeOK, [SourceNext]_source_vars
             PROVE  States'
  OBVIOUS
<1>0. States
  BY DEF SourceTypeOK, States
<1> USE <1>0 DEF States, source, file_vars, camera_vars
<1>1. CASE Segment            BY <1>1 DEF Segment
<1>2. CASE Buffer             BY <1>2 DEF Buffer
<1>3. CASE Eos                BY <1>3 DEF Eos
<1>4. CASE SeekDecode         BY <1>4 DEF SeekDecode
<1>5. CASE SmartRecordEvent   BY <1>5 DEF SmartRecordEvent
<1>6. CASE RecordingEnds      BY <1>6 DEF RecordingEnds
<1>7. CASE Reconfigure        BY <1>7 DEF Reconfigure
<1>8. CASE RecreateSource     BY <1>8 DEF RecreateSource, Recreates, Record
<1>9. CASE RecreationFails
  <2>1. bin' \in {"alive", "freed"} /\ record_ctx' \in {"none", "alive", "destroyed"}
    BY <1>9 DEF RecreationFails, Record, Destroyed
  <2>2. QED BY <1>9, <2>1 DEF RecreationFails, Recreates
<1>10. CASE UNCHANGED source_vars   BY <1>10 DEF source_vars
<1>11. QED
  BY <1>1, <1>2, <1>3, <1>4, <1>5, <1>6, <1>7, <1>8, <1>9, <1>10 DEF SourceNext

\* Every reachable state of a source and its timers is well typed: the sums of the
\* stops stay 64-bit times however often the file is looped (restart_stream_buf_prob).
THEOREM SourceTypeCorrect == SourceSpec => []SourceTypeOK
<1>1. SourceTypeOK /\ [SourceNext]_source_vars => SourceTypeOK'
  BY CountersStep, TimesStep, StatesStep DEF SourceTypeOK, TimerCounters, Times, States
<1>2. QED BY <1>1, SourceTypeInit, PTL DEF SourceSpec

-------------------------------------------------------------------------------
LEMMA WholeStep == SourceTypeOK /\ Whole /\ [SourceNext]_source_vars => Whole'
<1> SUFFICES ASSUME SourceTypeOK, Whole, [SourceNext]_source_vars
             PROVE  Whole'
  OBVIOUS
<1> USE DEF Whole, source, file_vars, camera_vars
<1>1. CASE Segment            BY <1>1 DEF Segment
<1>2. CASE Buffer             BY <1>2 DEF Buffer
<1>3. CASE Eos                BY <1>3 DEF Eos
<1>4. CASE SeekDecode         BY <1>4 DEF SeekDecode
<1>5. CASE SmartRecordEvent   BY <1>5 DEF SmartRecordEvent
<1>6. CASE RecordingEnds      BY <1>6 DEF RecordingEnds
<1>7. CASE Reconfigure        BY <1>7 DEF Reconfigure
<1>8. CASE RecreateSource     BY <1>8 DEF RecreateSource, Record
<1>9. CASE RecreationFails    BY <1>9 DEF RecreationFails
<1>10. CASE UNCHANGED source_vars   BY <1>10 DEF source_vars
<1>11. QED
  BY <1>1, <1>2, <1>3, <1>4, <1>5, <1>6, <1>7, <1>8, <1>9, <1>10 DEF SourceNext

LEMMA UseStep ==
  Whole /\ UsedWhileAlive /\ [SourceNext]_source_vars => UsedWhileAlive'
<1> SUFFICES ASSUME Whole, UsedWhileAlive, [SourceNext]_source_vars
             PROVE  UsedWhileAlive'
  OBVIOUS
<1> USE DEF UsedWhileAlive, source, file_vars, camera_vars
<1>1. CASE Segment            BY <1>1 DEF Segment
<1>2. CASE Buffer             BY <1>2 DEF Buffer
<1>3. CASE Eos                BY <1>3 DEF Eos
<1>4. CASE SeekDecode         BY <1>4 DEF SeekDecode, Whole
<1>5. CASE SmartRecordEvent   BY <1>5 DEF SmartRecordEvent, Whole
<1>6. CASE RecordingEnds      BY <1>6 DEF RecordingEnds
<1>7. CASE Reconfigure        BY <1>7 DEF Reconfigure
<1>8. CASE RecreateSource     BY <1>8 DEF RecreateSource, Recreates
<1>9. CASE RecreationFails    BY <1>9 DEF RecreationFails, Recreates
<1>10. CASE UNCHANGED source_vars   BY <1>10 DEF source_vars
<1>11. QED
  BY <1>1, <1>2, <1>3, <1>4, <1>5, <1>6, <1>7, <1>8, <1>9, <1>10 DEF SourceNext

\* However many timers outlive however many pipelines, none of them uses a bin or a
\* recording context that was freed, unless a recreation has failed.
THEOREM AlwaysUsedWhileAlive == SourceSpec => []UsedWhileAlive
<1>1. SourceInit => Whole /\ UsedWhileAlive
  BY DEF SourceInit, Whole, UsedWhileAlive
<1>2. QED BY <1>1, SourceTypeCorrect, WholeStep, UseStep, PTL DEF SourceSpec

-------------------------------------------------------------------------------
\* The end of a file arms the timer; a seek that takes one away starts a segment.
LEMMA EndStep ==
  SourceTypeOK /\ Whole /\ EndIsFollowed /\ [SourceNext]_source_vars => EndIsFollowed'
<1> SUFFICES ASSUME SourceTypeOK, Whole, EndIsFollowed, [SourceNext]_source_vars
             PROVE  EndIsFollowed'
  OBVIOUS
<1>0. seeks \in Nat
  BY DEF SourceTypeOK
<1> USE <1>0 DEF EndIsFollowed, source, file_vars, camera_vars
<1>1. CASE Segment            BY <1>1 DEF Segment
<1>2. CASE Buffer             BY <1>2 DEF Buffer
<1>3. CASE Eos
  <2>1. seeks' = seeks + 1
    BY <1>3 DEF Eos, SeekTimers
  <2>2. QED BY <2>1
<1>4. CASE SeekDecode
  <2>1. CASE bin = "freed"
    <3>1. failed' /\ failed
      BY <1>4, <2>1 DEF SeekDecode, Whole
    <3>2. QED BY <3>1
  <2>2. CASE bin # "freed"
    <3>1. upstream' = "segment" \/ unsought'
      BY <1>4, <2>2 DEF SeekDecode
    <3>2. QED BY <3>1
  <2>3. QED BY <2>1, <2>2
<1>5. CASE SmartRecordEvent   BY <1>5 DEF SmartRecordEvent
<1>6. CASE RecordingEnds      BY <1>6 DEF RecordingEnds
<1>7. CASE Reconfigure        BY <1>7 DEF Reconfigure
<1>8. CASE RecreateSource     BY <1>8 DEF RecreateSource, Recreates
<1>9. CASE RecreationFails    BY <1>9 DEF RecreationFails
<1>10. CASE UNCHANGED source_vars   BY <1>10 DEF source_vars
<1>11. QED
  BY <1>1, <1>2, <1>3, <1>4, <1>5, <1>6, <1>7, <1>8, <1>9, <1>10 DEF SourceNext

\* A file that has ended always has a timer that will start it again, through any
\* recreations, unless a seek or a recreation has failed.
THEOREM EndIsAlwaysFollowed == SourceSpec => []EndIsFollowed
<1>1. SourceInit => Whole /\ EndIsFollowed
  BY DEF SourceInit, Whole, EndIsFollowed
<1>2. QED BY <1>1, SourceTypeCorrect, WholeStep, EndStep, PTL DEF SourceSpec

-------------------------------------------------------------------------------
\* The times of a looped file before they wrap: the base of a segment is the sum of the
\* stops of those before it, and the last stamp lies below the next one.
Below == segment_stop # TIME_NONE /\ segments * segment_stop < TIME_NONE
Aligned ==
  Below =>
    /\ accumulated_base = segments * segment_stop
    /\ segments > 0 => accumulated_base = prev_accumulated_base + segment_stop
    /\ segments = 0 => prev_accumulated_base = 0 /\ pts = -1 /\ upstream # "buffers"
    /\ pts <= prev_accumulated_base + frame

LEMMA OneMoreSegment ==
  ASSUME NEW n \in Nat, NEW s \in Nat
  PROVE  (n + 1) * s = n * s + s /\ n * s \in Nat
OBVIOUS

LEMMA NoWrap ==
  ASSUME NEW a \in Nat, NEW b \in Nat, a + b <= TIME_NONE
  PROVE  Plus(a, b) = a + b
<1>1. TIME_NONE \in Nat
  BY TimersAssumption
<1>2. a + b \in 0..TIME_NONE
  BY <1>1
<1>3. \A x \in 0..TIME_NONE : x % (TIME_NONE + 1) = x
  BY <1>1
<1>4. QED BY <1>2, <1>3 DEF Plus

LEMMA AlignedInit == SourceInit => Aligned
<1> SUFFICES ASSUME SourceInit
             PROVE  Aligned
  OBVIOUS
<1>1. segment_stop \in Nat
  BY StopsAreTimes DEF SourceInit
<1>2. segments * segment_stop = 0
  BY <1>1 DEF SourceInit
<1>3. QED BY <1>2 DEF SourceInit, Aligned

LEMMA SegmentAligned == SourceTypeOK /\ Aligned /\ Segment => Aligned'
<1> SUFFICES ASSUME SourceTypeOK, Aligned, Segment, Below'
             PROVE  Aligned'
  BY DEF Aligned
<1>1. /\ segment_stop \in Nat /\ segments \in Nat /\ TIME_NONE \in Nat /\ Frames \in Nat
      /\ frame \in 0..Frames /\ Frames <= segment_stop
      /\ accumulated_base \in Nat /\ prev_accumulated_base \in Nat /\ pts \in Int
  BY TimersAssumption DEF SourceTypeOK
<1>2. /\ segment_stop' = segment_stop /\ segments' = segments + 1 /\ pts' = pts
      /\ prev_accumulated_base' = accumulated_base /\ frame' = 0
      /\ accumulated_base' = Plus(accumulated_base, segment_stop)
  BY DEF Segment, Base, source
<1>3. (segments + 1) * segment_stop = segments * segment_stop + segment_stop
      /\ segments * segment_stop \in Nat
  BY <1>1, OneMoreSegment
<1>4. segments * segment_stop + segment_stop < TIME_NONE /\ segment_stop # TIME_NONE
  BY <1>2, <1>3 DEF Below
<1>5. Below
  BY <1>1, <1>3, <1>4 DEF Below
<1>6. accumulated_base = segments * segment_stop
  BY <1>5 DEF Aligned
<1>7. accumulated_base' = accumulated_base + segment_stop
  BY <1>1, <1>2, <1>4, <1>6, NoWrap
<1>8. pts <= accumulated_base
  <2>1. CASE segments = 0
    <3>1. pts = -1
      BY <2>1, <1>5 DEF Aligned
    <3>2. QED BY <3>1, <1>1
  <2>2. CASE segments > 0
    <3>1. /\ accumulated_base = prev_accumulated_base + segment_stop
          /\ pts <= prev_accumulated_base + frame
      BY <2>2, <1>5 DEF Aligned
    <3>2. QED BY <3>1, <1>1
  <2>3. QED BY <1>1, <2>1, <2>2
<1>9. accumulated_base' = segments' * segment_stop'
  BY <1>2, <1>3, <1>6, <1>7
<1>10. segments' # 0 /\ segments' > 0
  BY <1>1, <1>2
<1>11. pts' <= prev_accumulated_base' + frame'
  BY <1>1, <1>2, <1>8
<1>12. accumulated_base' = prev_accumulated_base' + segment_stop'
  BY <1>2, <1>7
<1>13. QED BY <1>9, <1>10, <1>11, <1>12 DEF Aligned

\* A buffer gets the sum of its own time and the base, which is not below the last one.
LEMMA BufferInOrder ==
  SourceTypeOK /\ Aligned /\ Buffer /\ Below
    => pts' = frame + prev_accumulated_base /\ pts' >= pts
<1> SUFFICES ASSUME SourceTypeOK, Aligned, Buffer, Below
             PROVE  pts' = frame + prev_accumulated_base /\ pts' >= pts
  OBVIOUS
<1>1. /\ segment_stop \in Nat /\ segments \in Nat /\ TIME_NONE \in Nat /\ Frames \in Nat
      /\ frame \in Nat /\ frame < Frames /\ Frames <= segment_stop
      /\ accumulated_base \in Nat /\ prev_accumulated_base \in Nat /\ pts \in Int
  BY TimersAssumption DEF SourceTypeOK, Buffer
<1>2. segments # 0
  BY DEF Aligned, Buffer
<1>3. /\ accumulated_base = segments * segment_stop
      /\ accumulated_base = prev_accumulated_base + segment_stop
      /\ pts <= prev_accumulated_base + frame
  <2>1. segments > 0
    BY <1>1, <1>2
  <2>2. QED BY <2>1 DEF Aligned
<1>4. accumulated_base < TIME_NONE
  BY <1>3 DEF Below
<1>5. frame + prev_accumulated_base <= TIME_NONE
  BY <1>1, <1>3, <1>4
<1>6. Plus(frame, prev_accumulated_base) = frame + prev_accumulated_base
  BY <1>1, <1>5, NoWrap
<1>7. pts' = frame + prev_accumulated_base
  BY <1>6 DEF Buffer, Stamp
<1>8. QED BY <1>1, <1>3, <1>7

LEMMA AlignedStep == SourceTypeOK /\ Aligned /\ [SourceNext]_source_vars => Aligned'
<1> SUFFICES ASSUME SourceTypeOK, Aligned, [SourceNext]_source_vars
             PROVE  Aligned'
  OBVIOUS
<1>1. CASE Segment
  BY <1>1, SegmentAligned
<1>2. CASE Buffer
  <2> SUFFICES ASSUME Below'
               PROVE  Aligned'
    BY DEF Aligned
  <2>1. /\ UNCHANGED <<segment_stop, segments, accumulated_base, prev_accumulated_base, upstream>>
        /\ frame' = frame + 1 /\ upstream = "buffers"
    BY <1>2 DEF Buffer, source
  <2>2. Below
    BY <2>1 DEF Below
  <2>3. pts' = frame + prev_accumulated_base
    BY <1>2, <2>2, BufferInOrder
  <2>4. frame \in Nat /\ prev_accumulated_base \in Nat
    BY StopsAreTimes DEF SourceTypeOK
  <2>5. pts' <= prev_accumulated_base' + frame'
    BY <2>1, <2>3, <2>4
  <2>6. QED BY <2>1, <2>2, <2>5 DEF Aligned
<1>3. CASE /\ UNCHANGED <<segment_stop, segments, accumulated_base, prev_accumulated_base, pts, frame>>
           /\ upstream' = upstream \/ upstream' # "buffers"
  BY <1>3 DEF Aligned, Below
<1>4. CASE Recreates /\ upstream' # "buffers"
  <2>1. /\ UNCHANGED <<segment_stop, segments, accumulated_base, prev_accumulated_base>>
        /\ pts' = -1 /\ frame' = 0
    BY <1>4 DEF Recreates, source
  <2>2. prev_accumulated_base \in Nat
    BY StopsAreTimes DEF SourceTypeOK
  <2>3. pts' <= prev_accumulated_base' + frame'
    BY <2>1, <2>2
  <2>4. QED BY <1>4, <2>1, <2>3 DEF Aligned, Below
<1>5. ASSUME Eos \/ SeekDecode \/ SmartRecordEvent \/ RecordingEnds \/ Reconfigure
             \/ UNCHANGED source_vars
      PROVE  Aligned'
  <2>1. UNCHANGED <<segment_stop, segments, accumulated_base, prev_accumulated_base, pts, frame>>
    BY <1>5 DEF Eos, SeekDecode, SmartRecordEvent, RecordingEnds, Reconfigure, source_vars,
                source, file_vars
  <2>2. upstream' = upstream \/ upstream' # "buffers"
    BY <1>5 DEF Eos, SeekDecode, SmartRecordEvent, RecordingEnds, Reconfigure, source_vars,
                file_vars
  <2>3. QED BY <1>3, <2>1, <2>2
<1>6. ASSUME RecreateSource \/ RecreationFails
      PROVE  Aligned'
  <2>1. Recreates /\ upstream' # "buffers"
    BY <1>6 DEF RecreateSource, RecreationFails
  <2>2. QED BY <1>4, <2>1
<1>7. QED BY <1>1, <1>2, <1>5, <1>6 DEF SourceNext

LEMMA OnlyBuffersStamp ==
  SourceTypeOK /\ [SourceNext]_source_vars /\ creations' = creations
    => Buffer \/ pts' = pts
<1> SUFFICES ASSUME SourceTypeOK, [SourceNext]_source_vars, creations' = creations
             PROVE  Buffer \/ pts' = pts
  OBVIOUS
<1>1. ~Recreates
  <2>1. creations \in Nat
    BY DEF SourceTypeOK
  <2>2. QED BY <2>1 DEF Recreates
<1>2. QED
  BY <1>1 DEF SourceNext, Segment, Eos, SeekDecode, SmartRecordEvent, RecordingEnds, Reconfigure,
              RecreateSource, RecreationFails, source_vars, file_vars

\* A looped file never goes back in time before its times wrap, whatever its length and
\* however often it was sought in before or recreated with its base kept.
THEOREM NeverEverBackInTime == SourceSpec => NeverBackInTime
<1>1. SourceTypeOK /\ Aligned /\ [SourceNext]_source_vars
        => [segment_stop # TIME_NONE /\ segments * segment_stop < TIME_NONE
              /\ creations' = creations => pts' >= pts]_source_vars
  <2> SUFFICES ASSUME SourceTypeOK, Aligned, [SourceNext]_source_vars, Below,
                      creations' = creations
               PROVE  pts' >= pts
    BY DEF Below
  <2>1. pts \in Int
    BY StopsAreTimes DEF SourceTypeOK
  <2>2. CASE Buffer
    BY <2>2, BufferInOrder
  <2>3. CASE pts' = pts
    BY <2>1, <2>3
  <2>4. QED BY <2>2, <2>3, OnlyBuffersStamp
<1>2. QED BY <1>1, SourceTypeCorrect, AlignedInit, AlignedStep, PTL DEF SourceSpec, NeverBackInTime

-------------------------------------------------------------------------------
(* The choice of the tile *)

(* What is typed *)

Event == [instance : Instances, button : {1, 3}, source : Nat]

KeysTyped == tty \in Seq(Keys) /\ stdin \in Seq(Keys) /\ keys \in Nat
SelectionTyped ==
  /\ main_loop \in {"free", "wait", "rebuild", "teardown", "ended"}
  /\ rebuilt \in Instances
  /\ {selecting, rrowsel} \subseteq BOOLEAN
  /\ g_rrow \in Nat /\ g_rcfg \in Instances
TilersTyped ==
  /\ tiler \in [Instances -> {"alive", "freed", "none"}]
  /\ show \in [Instances -> Int] /\ active \in [Instances -> Int]
WritesTyped == writes \in [Threads -> Seq(WriteOf)]
WindowTyped ==
  /\ windows \subseteq Instances
  /\ x_events \in Seq(Event)
  /\ asleep \in BOOLEAN /\ clicks \in Nat
HistoryTyped ==
  /\ recreates \in Nat
  /\ unsure \subseteq Instances
  /\ torn \in BOOLEAN
  /\ misused \subseteq Threads \cup {"nowhere"}

Typed ==
  KeysTyped /\ SelectionTyped /\ TilersTyped /\ WritesTyped /\ WindowTyped /\ HistoryTyped

LEMMA TypedIsTypeOK == Typed => TileTypeOK
BY DEF Typed, KeysTyped, SelectionTyped, TilersTyped, WritesTyped, WindowTyped, HistoryTyped,
       TileTypeOK, Event

LEMMA InstancesAreNumbers == 0 \in Instances /\ Instances \subseteq Nat
BY TilesAssumption DEF Instances

LEMMA DigitsAreNumbers == ASSUME NEW c, IsDigit(c) PROVE DigitOf[c] \in Nat
BY DEF IsDigit, DigitOf

LEMMA TileIsANumber ==
  ASSUME NEW row \in Nat, NEW column \in Nat
  PROVE  Columns * row + column \in Nat
<1>1. Columns \in Nat
  BY TilesAssumption
<1>2. QED BY <1>1

\* A tile is one of the sources or none.
OneOf(v) == v \in -1..(Sources - 1)
LEMMA TileAtIsASource == ASSUME NEW s \in Nat PROVE OneOf(TileAt(s)) /\ TileAt(s) \in Int
BY TilesAssumption DEF TileAt, OneOf

\* Clicks are on tiles.
LEMMA ClickedAreTiles == Clicked \subseteq Nat
BY TilesAssumption

-------------------------------------------------------------------------------
\* The steps by what they leave alone.
Keyboard(c) ==
  \/ KeyRow(c) \/ KeyColumn(c) \/ KeySelect(c) \/ KeyTiledMode(c)
  \/ KeyConfig(c) \/ ConfigNumber(c) \/ KeyIgnored(c)
Button(e) == ButtonShow(e) \/ ButtonTiled(e) \/ ButtonIgnored(e) \/ ButtonNowhere(e)
Clicks == \E i \in Instances : Click(i, 3, 0) \/ (\E s \in Clicked : Click(i, 1, s))
Handled == x_events # <<>> /\ Button(Head(x_events))

LEMMA Steps ==
  ASSUME [TileNext]_tile_vars
  PROVE  \/ \E c \in Keys : TypeKey(c) \/ Keyboard(c)
         \/ Clicks \/ WakeUp \/ FallAsleep \/ Handled
         \/ \E i \in Instances : DestroyPipeline(i)
         \/ CreatePipeline \/ CreateFails \/ LeaveMainLoop \/ CloseWindow
         \/ \E t \in Threads : Write(t)
         \/ UNCHANGED tile_vars
BY DEF TileNext, ConsoleStep, WindowStep, MainLoopStep, Keyboard, Button, Clicks, Handled

LEMMA ReadKeyTyped ==
  ASSUME KeysTyped, NEW c \in Keys, ReadKey(c), CanRead
  PROVE  KeysTyped'
<1>1. tty' \in Seq(Keys)
  BY DEF KeysTyped, ReadKey
<1>2. stdin' \in Seq(Keys)
  <2>1. CASE stdin = <<>>
    <3>1. tty # <<>> /\ stdin' = Tail(tty)
      BY <2>1 DEF CanRead, ReadKey
    <3>2. QED BY <3>1 DEF KeysTyped
  <2>2. CASE stdin # <<>>
    <3>1. stdin' = Tail(stdin)
      BY <2>2 DEF ReadKey
    <3>2. QED BY <2>2, <3>1 DEF KeysTyped
  <2>3. QED BY <2>1, <2>2
<1>3. QED BY <1>1, <1>2 DEF KeysTyped, ReadKey

LEMMA KeysStep == Typed /\ [TileNext]_tile_vars => KeysTyped'
<1> SUFFICES ASSUME Typed, [TileNext]_tile_vars
             PROVE  KeysTyped'
  OBVIOUS
<1>0. KeysTyped
  BY DEF Typed
<1>1. ASSUME NEW c \in Keys, TypeKey(c)
      PROVE  KeysTyped'
  <2>1. tty' \in Seq(Keys)
    BY <1>0, <1>1 DEF KeysTyped, TypeKey
  <2>2. QED BY <1>0, <1>1, <2>1 DEF KeysTyped, TypeKey
<1>2. ASSUME NEW c \in Keys, Keyboard(c)
      PROVE  KeysTyped'
  <2>1. ReadKey(c) /\ CanRead
    BY <1>2 DEF Keyboard, KeyRow, KeyColumn, KeySelect, KeyTiledMode, KeyConfig, ConfigNumber,
                KeyIgnored, Polled, CanRead
  <2>2. QED BY <1>0, <2>1, ReadKeyTyped
<1>3. CASE UNCHANGED tile_keys
  BY <1>0, <1>3 DEF KeysTyped, tile_keys
<1>4. Clicks \/ WakeUp \/ FallAsleep => UNCHANGED tile_keys
  BY DEF Clicks, Click, WakeUp, FallAsleep
<1>5. Handled => UNCHANGED tile_keys
  BY DEF Handled, Button, ButtonShow, ButtonTiled, ButtonIgnored, ButtonNowhere, ButtonUnchanged
<1>6. CreatePipeline \/ CreateFails \/ LeaveMainLoop \/ CloseWindow => UNCHANGED tile_keys
  BY DEF CreatePipeline, CreateFails, LeaveMainLoop, CloseWindow
<1>7. ASSUME NEW i \in Instances, DestroyPipeline(i)
      PROVE  UNCHANGED tile_keys
  BY <1>7 DEF DestroyPipeline
<1>8. ASSUME NEW t \in Threads, Write(t)
      PROVE  UNCHANGED tile_keys
  BY <1>8 DEF Write
<1>9. UNCHANGED tile_vars => UNCHANGED tile_keys
  BY DEF tile_vars
<1>10. QED
  BY <1>1, <1>2, <1>3, <1>4, <1>5, <1>6, <1>7, <1>8, <1>9, Steps

selection == <<main_loop, rebuilt, selection_vars>>

LEMMA KeyboardSelection ==
  ASSUME SelectionTyped, NEW c \in Keys, Keyboard(c)
  PROVE  SelectionTyped'
<1> USE InstancesAreNumbers DEF SelectionTyped, selection_vars
<1>1. CASE KeyRow(c)
  <2>1. DigitOf[c] \in Nat
    BY <1>1, DigitsAreNumbers DEF KeyRow, Digit
  <2>2. QED BY <1>1, <2>1 DEF KeyRow
<1>2. CASE KeyColumn(c)      BY <1>2 DEF KeyColumn
<1>3. CASE KeySelect(c)      BY <1>3 DEF KeySelect
<1>4. CASE KeyTiledMode(c)   BY <1>4 DEF KeyTiledMode
<1>5. CASE KeyConfig(c)      BY <1>5 DEF KeyConfig
<1>6. CASE ConfigNumber(c)
  <2>1. Selected(c) \in Instances
    <3>1. CASE ~IsDigit(c)   BY <3>1 DEF Selected
    <3>2. CASE IsDigit(c) /\ DigitOf[c] < NumInstances
      <4>1. DigitOf[c] \in Nat
        BY <3>2, DigitsAreNumbers
      <4>2. DigitOf[c] \in 0..(NumInstances - 1)
        BY <3>2, <4>1, TilesAssumption
      <4>3. QED BY <3>2, <4>2 DEF Selected, Instances
    <3>3. CASE IsDigit(c) /\ ~(DigitOf[c] < NumInstances)
      BY <3>3 DEF Selected
    <3>4. QED BY <3>1, <3>2, <3>3
  <2>2. QED BY <1>6, <2>1 DEF ConfigNumber
<1>7. CASE KeyIgnored(c)     BY <1>7 DEF KeyIgnored
<1>8. QED BY <1>1, <1>2, <1>3, <1>4, <1>5, <1>6, <1>7 DEF Keyboard

LEMMA SelectionStep == Typed /\ [TileNext]_tile_vars => SelectionTyped'
<1> SUFFICES ASSUME Typed, [TileNext]_tile_vars
             PROVE  SelectionTyped'
  OBVIOUS
<1>0. SelectionTyped
  BY DEF Typed
<1>1. CASE UNCHANGED selection
  BY <1>0, <1>1 DEF SelectionTyped, selection, selection_vars
<1>2. ASSUME NEW c \in Keys, TypeKey(c)
      PROVE  UNCHANGED selection
  BY <1>2 DEF TypeKey, selection
<1>3. ASSUME NEW c \in Keys, Keyboard(c)
      PROVE  SelectionTyped'
  BY <1>0, <1>3, KeyboardSelection
<1>4. Clicks \/ WakeUp \/ FallAsleep => UNCHANGED selection
  BY DEF Clicks, Click, WakeUp, FallAsleep, selection
<1>5. Handled => UNCHANGED selection
  BY DEF Handled, Button, ButtonShow, ButtonTiled, ButtonIgnored, ButtonNowhere, ButtonUnchanged,
         selection
<1>6. ASSUME NEW i \in Instances, DestroyPipeline(i)
      PROVE  SelectionTyped'
  BY <1>0, <1>6 DEF DestroyPipeline, SelectionTyped, selection_vars
<1>7. CreatePipeline \/ CreateFails => SelectionTyped'
  BY <1>0 DEF CreatePipeline, CreateFails, SelectionTyped, selection_vars
<1>8. LeaveMainLoop => SelectionTyped'
  BY <1>0, InstancesAreNumbers DEF LeaveMainLoop, SelectionTyped, selection_vars
<1>9. CloseWindow => SelectionTyped'
  <2> SUFFICES ASSUME CloseWindow PROVE SelectionTyped'
    OBVIOUS
  <2>1. main_loop' \in {"free", "wait", "rebuild", "teardown", "ended"} /\ rebuilt' \in Instances
    BY <1>0 DEF CloseWindow, SelectionTyped
  <2>2. UNCHANGED selection_vars
    BY DEF CloseWindow
  <2>3. QED BY <1>0, <2>1, <2>2 DEF SelectionTyped, selection_vars
<1>10. ASSUME NEW t \in Threads, Write(t)
       PROVE  UNCHANGED selection
  BY <1>10 DEF Write, selection
<1>11. UNCHANGED tile_vars => UNCHANGED selection
  BY DEF tile_vars, selection
<1>12. QED
  BY <1>1, <1>2, <1>3, <1>4, <1>5, <1>6, <1>7, <1>8, <1>9, <1>10, <1>11, Steps

-------------------------------------------------------------------------------
(* The window thread and its events *)

LEMMA WindowStepTyped == Typed /\ [TileNext]_tile_vars => WindowTyped'
<1> SUFFICES ASSUME Typed, [TileNext]_tile_vars
             PROVE  WindowTyped'
  OBVIOUS
<1>0. WindowTyped
  BY DEF Typed
<1>1. CASE UNCHANGED window_thread
  BY <1>0, <1>1 DEF WindowTyped, window_thread
<1>2. ASSUME NEW c \in Keys, TypeKey(c) \/ Keyboard(c)
      PROVE  UNCHANGED window_thread
  <2>1. CASE TypeKey(c)   BY <2>1 DEF TypeKey
  <2>2. CASE Keyboard(c)
    BY <2>2 DEF Keyboard, KeyRow, KeyColumn, KeySelect, KeyTiledMode, KeyConfig, ConfigNumber,
                KeyIgnored
  <2>3. QED BY <1>2, <2>1, <2>2
<1>3. ASSUME NEW i \in Instances, NEW b \in {1, 3}, NEW s \in Nat, Click(i, b, s)
      PROVE  WindowTyped'
  <2>1. [instance |-> i, button |-> b, source |-> s] \in Event
    BY DEF Event
  <2>2. x_events' \in Seq(Event)
    BY <1>0, <1>3, <2>1 DEF Click, WindowTyped
  <2>3. QED BY <1>0, <1>3, <2>2 DEF Click, WindowTyped
<1>4. Clicks => WindowTyped'
  <2>1. ASSUME NEW i \in Instances, Click(i, 3, 0)
        PROVE  WindowTyped'
    BY <1>3, <2>1
  <2>2. ASSUME NEW i \in Instances, NEW s \in Clicked, Click(i, 1, s)
        PROVE  WindowTyped'
    BY <1>3, <2>2, ClickedAreTiles
  <2>3. QED BY <2>1, <2>2 DEF Clicks
<1>5. WakeUp \/ FallAsleep => WindowTyped'
  BY <1>0 DEF WakeUp, FallAsleep, WindowTyped
<1>6. Handled => WindowTyped'
  <2> SUFFICES ASSUME Handled PROVE WindowTyped'
    OBVIOUS
  <2>1. x_events # <<>> /\ x_events' = Tail(x_events) /\ UNCHANGED <<windows, asleep, clicks>>
    BY DEF Handled, Button, ButtonShow, ButtonTiled, ButtonIgnored, ButtonNowhere,
           ButtonUnchanged, Handles
  <2>2. x_events' \in Seq(Event)
    BY <1>0, <2>1 DEF WindowTyped
  <2>3. QED BY <1>0, <2>1, <2>2 DEF WindowTyped
<1>7. CreatePipeline \/ CreateFails \/ LeaveMainLoop => UNCHANGED window_thread
  BY DEF CreatePipeline, CreateFails, LeaveMainLoop
<1>8. CloseWindow => WindowTyped'
  BY <1>0 DEF CloseWindow, WindowTyped
<1>9. ASSUME NEW i \in Instances, DestroyPipeline(i)
      PROVE  UNCHANGED window_thread
  BY <1>9 DEF DestroyPipeline
<1>10. ASSUME NEW t \in Threads, Write(t)
       PROVE  UNCHANGED window_thread
  BY <1>10 DEF Write
<1>11. UNCHANGED tile_vars => UNCHANGED window_thread
  BY DEF tile_vars
<1>12. QED
  BY <1>1, <1>2, <1>4, <1>5, <1>6, <1>7, <1>8, <1>9, <1>10, <1>11, Steps

\* The event that is handled: of an instance, on a tile.
LEMMA EventTyped ==
  ASSUME WindowTyped, x_events # <<>>
  PROVE  Head(x_events).instance \in Instances /\ Head(x_events).source \in Nat
<1>1. Head(x_events) \in Event
  BY DEF WindowTyped
<1>2. QED BY <1>1 DEF Event

-------------------------------------------------------------------------------
(* What the handlers leave to write: the two settings of one instance. *)

\* A handler sets both to one value, or has set the first of them.
Pairs(i, s) == {<<ShowSource(i, s), ActiveSource(i, s)>>, <<ActiveSource(i, s), ShowSource(i, s)>>}
Halves(i, s) == {<<ShowSource(i, s)>>, <<ActiveSource(i, s)>>}
Shape(ws) ==
  \/ ws = <<>>
  \/ \E i \in Instances, s \in -1..(Sources - 1) : ws \in Pairs(i, s) \cup Halves(i, s)
WritesShaped == writes = [t \in Threads |-> writes[t]] /\ \A t \in Threads : Shape(writes[t])

LEMMA PairTail ==
  ASSUME NEW i, NEW s
  PROVE  /\ \A ws \in Pairs(i, s) : ws # <<>> /\ Len(ws) = 2 /\ Tail(ws) \in Halves(i, s)
         /\ \A ws \in Halves(i, s) : ws # <<>> /\ Len(ws) = 1 /\ Tail(ws) = <<>>
         /\ \A ws \in Pairs(i, s) \cup Halves(i, s) :
              /\ Head(ws) = ws[1]
              /\ \A k \in 1..Len(ws) : ws[k].instance = i /\ ws[k].value = s
<1>1. \A a, b : Len(<<a, b>>) = 2 /\ Tail(<<a, b>>) = <<b>> /\ Head(<<a, b>>) = a
                /\ <<a, b>>[1] = a /\ <<a, b>>[2] = b
  OBVIOUS
<1>2. \A a : Len(<<a>>) = 1 /\ Tail(<<a>>) = <<>> /\ Head(<<a>>) = a /\ <<a>>[1] = a
  OBVIOUS
<1>3. /\ ShowSource(i, s).instance = i /\ ShowSource(i, s).value = s
      /\ ActiveSource(i, s).instance = i /\ ActiveSource(i, s).value = s
  BY DEF ShowSource, ActiveSource
<1>4. 1..2 = {1, 2} /\ 1..1 = {1}
  OBVIOUS
<1>5. QED BY <1>1, <1>2, <1>3, <1>4 DEF Pairs, Halves

LEMMA ShapeTyped == ASSUME NEW ws, Shape(ws) PROVE ws \in Seq(WriteOf)
<1>1. CASE ws = <<>>
  BY <1>1
<1>2. ASSUME NEW i \in Instances, NEW s \in -1..(Sources - 1), ws \in Pairs(i, s) \cup Halves(i, s)
      PROVE  ws \in Seq(WriteOf)
  <2>1. s \in Int
    BY TilesAssumption
  <2>2. ShowSource(i, s) \in WriteOf /\ ActiveSource(i, s) \in WriteOf
    BY <2>1 DEF ShowSource, ActiveSource, WriteOf
  <2>3. CASE ws = <<ShowSource(i, s), ActiveSource(i, s)>>   BY <2>2, <2>3
  <2>4. CASE ws = <<ActiveSource(i, s), ShowSource(i, s)>>   BY <2>2, <2>4
  <2>5. CASE ws = <<ShowSource(i, s)>>     BY <2>2, <2>5
  <2>6. CASE ws = <<ActiveSource(i, s)>>   BY <2>2, <2>6
  <2>7. QED BY <1>2, <2>3, <2>4, <2>5, <2>6 DEF Pairs, Halves
<1>3. QED BY <1>1, <1>2 DEF Shape

LEMMA ShapedAreTyped == WritesShaped => WritesTyped
BY ShapeTyped DEF WritesShaped, WritesTyped

LEMMA ShapeTail == ASSUME NEW ws, Shape(ws), ws # <<>> PROVE Shape(Tail(ws))
BY PairTail DEF Shape

\* A handler that sets the two of instance i to s.
Begins(t, i, s) ==
  /\ writes[t] = <<>>
  /\ \E ws \in Pairs(i, s) : Update(t, i, ws)
  /\ UNCHANGED tiler_vars
Begun == \E t \in Threads, i \in Instances, s \in -1..(Sources - 1) : Begins(t, i, s)

LEMMA AllTilesPair ==
  ASSUME NEW i PROVE AllTiles(i) \in Pairs(i, -1) /\ -1 \in -1..(Sources - 1)
BY TilesAssumption DEF AllTiles, Pairs

LEMMA KeyboardWrites ==
  ASSUME SelectionTyped, NEW c \in Keys, Keyboard(c)
  PROVE  UNCHANGED <<writes, unsure, tiler_vars>> \/ Begun
<1>0. g_rcfg \in Instances /\ g_rrow \in Nat /\ "console" \in Threads
  BY DEF SelectionTyped, Threads
<1>1. CASE KeyColumn(c)
  <2> DEFINE s == TileAt(Columns * g_rrow + DigitOf[c])
  <2>1. DigitOf[c] \in Nat
    BY <1>1, DigitsAreNumbers DEF KeyColumn, Digit
  <2>2. s \in -1..(Sources - 1)
    BY <1>0, <2>1, TileIsANumber, TileAtIsASource DEF OneOf
  <2>3. CASE s = -1
    BY <1>1, <2>3 DEF KeyColumn
  <2>4. CASE s # -1
    <3>1. /\ Update("console", g_rcfg, <<ActiveSource(g_rcfg, s), ShowSource(g_rcfg, s)>>)
          /\ writes["console"] = <<>> /\ UNCHANGED tiler_vars
      BY <1>1, <2>4 DEF KeyColumn, Polled, Current
    <3>2. Begins("console", g_rcfg, s)
      BY <3>1 DEF Begins, Pairs
    <3>3. QED BY <1>0, <2>2, <3>2 DEF Begun
  <2>5. QED BY <2>3, <2>4
<1>2. CASE KeyTiledMode(c)
  <2>1. /\ Update("console", g_rcfg, AllTiles(g_rcfg))
        /\ writes["console"] = <<>> /\ UNCHANGED tiler_vars
    BY <1>2 DEF KeyTiledMode, Polled, Current
  <2>2. Begins("console", g_rcfg, -1)
    BY <2>1, AllTilesPair DEF Begins
  <2>3. QED BY <1>0, <2>2, AllTilesPair DEF Begun
<1>3. CASE KeyRow(c) \/ KeySelect(c) \/ KeyConfig(c) \/ ConfigNumber(c) \/ KeyIgnored(c)
  BY <1>3 DEF KeyRow, KeySelect, KeyConfig, ConfigNumber, KeyIgnored
<1>4. QED BY <1>1, <1>2, <1>3 DEF Keyboard

LEMMA HandledWrites ==
  ASSUME WindowTyped, Handled
  PROVE  UNCHANGED <<writes, unsure, tiler_vars>> \/ Begun
<1> DEFINE e == Head(x_events)
<1>0. e.instance \in Instances /\ e.source \in Nat /\ "window" \in Threads
  BY EventTyped DEF Handled, Threads
<1>1. CASE ButtonShow(e)
  <2> DEFINE s == TileAt(e.source)
  <2>1. s \in -1..(Sources - 1)
    BY <1>0, TileAtIsASource DEF OneOf
  <2>2. /\ Update("window", e.instance, <<ShowSource(e.instance, s), ActiveSource(e.instance, s)>>)
        /\ writes["window"] = <<>> /\ UNCHANGED tiler_vars
    BY <1>1 DEF ButtonShow, Handles, ButtonUnchanged
  <2>3. Begins("window", e.instance, s)
    BY <2>2 DEF Begins, Pairs
  <2>4. QED BY <1>0, <2>1, <2>3 DEF Begun
<1>2. CASE ButtonTiled(e)
  <2>1. /\ Update("window", e.instance, AllTiles(e.instance))
        /\ writes["window"] = <<>> /\ UNCHANGED tiler_vars
    BY <1>2 DEF ButtonTiled, Handles, ButtonUnchanged
  <2>2. Begins("window", e.instance, -1)
    BY <2>1, AllTilesPair DEF Begins
  <2>3. QED BY <1>0, <2>2, AllTilesPair DEF Begun
<1>3. CASE ButtonIgnored(e) \/ ButtonNowhere(e)
  BY <1>3 DEF ButtonIgnored, ButtonNowhere, ButtonUnchanged
<1>4. QED BY <1>1, <1>2, <1>3 DEF Handled, Button

\* What a step does to the settings and to what is left to write.
LEMMA SettingSteps ==
  ASSUME Typed, [TileNext]_tile_vars
  PROVE  \/ UNCHANGED <<writes, unsure, tiler_vars>>
         \/ Begun
         \/ \E t \in Threads : Write(t)
         \/ \E i \in Instances : DestroyPipeline(i)
         \/ CreatePipeline \/ CreateFails \/ LeaveMainLoop \/ CloseWindow
<1>1. ASSUME NEW c \in Keys, TypeKey(c)
      PROVE  UNCHANGED <<writes, unsure, tiler_vars>>
  BY <1>1 DEF TypeKey
<1>2. ASSUME NEW c \in Keys, Keyboard(c)
      PROVE  UNCHANGED <<writes, unsure, tiler_vars>> \/ Begun
  BY <1>2, KeyboardWrites DEF Typed
<1>3. Clicks \/ WakeUp \/ FallAsleep => UNCHANGED <<writes, unsure, tiler_vars>>
  BY DEF Clicks, Click, WakeUp, FallAsleep
<1>4. Handled => UNCHANGED <<writes, unsure, tiler_vars>> \/ Begun
  BY HandledWrites DEF Typed
<1>5. UNCHANGED tile_vars => UNCHANGED <<writes, unsure, tiler_vars>>
  BY DEF tile_vars
<1>6. QED BY <1>1, <1>2, <1>3, <1>4, <1>5, Steps

LEMMA ShapeStep == Typed /\ WritesShaped /\ [TileNext]_tile_vars => WritesShaped'
<1> SUFFICES ASSUME Typed, WritesShaped, [TileNext]_tile_vars
             PROVE  WritesShaped'
  OBVIOUS
<1>1. CASE UNCHANGED writes
  BY <1>1 DEF WritesShaped
<1>2. ASSUME NEW t \in Threads, NEW ws, writes' = [writes EXCEPT ![t] = ws], Shape(ws)
      PROVE  WritesShaped'
  BY <1>2 DEF WritesShaped
<1>3. CASE Begun
  <2>1. PICK t \in Threads, i \in Instances, s \in -1..(Sources - 1) : Begins(t, i, s)
    BY <1>3 DEF Begun
  <2>2. PICK ws \in Pairs(i, s) : Update(t, i, ws)
    BY <2>1 DEF Begins
  <2>3. writes' = [writes EXCEPT ![t] = ws] /\ Shape(ws)
    BY <2>2 DEF Update, Shape
  <2>4. QED BY <1>2, <2>3
<1>4. ASSUME NEW t \in Threads, Write(t)
      PROVE  WritesShaped'
  <2>1. writes[t] # <<>> /\ writes' = [writes EXCEPT ![t] = Tail(writes[t])]
    BY <1>4 DEF Write
  <2>2. Shape(Tail(writes[t]))
    BY <2>1, ShapeTail DEF WritesShaped
  <2>3. QED BY <1>2, <2>1, <2>2
<1>5. CreatePipeline \/ CreateFails \/ LeaveMainLoop \/ CloseWindow => UNCHANGED writes
  BY DEF CreatePipeline, CreateFails, LeaveMainLoop, CloseWindow
<1>6. ASSUME NEW i \in Instances, DestroyPipeline(i)
      PROVE  UNCHANGED writes
  BY <1>6 DEF DestroyPipeline
<1>7. QED BY <1>1, <1>3, <1>4, <1>5, <1>6, SettingSteps

-------------------------------------------------------------------------------
(* The tilers *)

SettingsInRange ==
  /\ tiler \in [Instances -> {"alive", "freed", "none"}]
  /\ show \in [Instances -> -1..(Sources - 1)] /\ active \in [Instances -> -1..(Sources - 1)]

LEMMA WriteTyped ==
  ASSUME WritesShaped, NEW t \in Threads, writes[t] # <<>>
  PROVE  Head(writes[t]).instance \in Instances /\ Head(writes[t]).value \in -1..(Sources - 1)
<1>1. PICK i \in Instances, s \in -1..(Sources - 1) : writes[t] \in Pairs(i, s) \cup Halves(i, s)
  BY DEF WritesShaped, Shape
<1>2. /\ Len(writes[t]) \in {1, 2} /\ Head(writes[t]) = writes[t][1]
      /\ \A k \in 1..Len(writes[t]) : writes[t][k].instance = i /\ writes[t][k].value = s
  BY <1>1, PairTail
<1>3. 1 \in 1..Len(writes[t])
  BY <1>2
<1>4. QED BY <1>2, <1>3

LEMMA RangeStep ==
  Typed /\ WritesShaped /\ SettingsInRange /\ [TileNext]_tile_vars => SettingsInRange'
<1> SUFFICES ASSUME Typed, WritesShaped, SettingsInRange, [TileNext]_tile_vars
             PROVE  SettingsInRange'
  OBVIOUS
<1> USE DEF SettingsInRange, tiler_vars
<1>1. CASE UNCHANGED tiler_vars
  BY <1>1
<1>2. Begun => UNCHANGED tiler_vars
  BY DEF Begun, Begins
<1>3. ASSUME NEW t \in Threads, Write(t)
      PROVE  SettingsInRange'
  <2>1. /\ Head(writes[t]).instance \in Instances
        /\ Head(writes[t]).value \in -1..(Sources - 1)
    BY <1>3, WriteTyped DEF Write
  <2>2. CASE Head(writes[t]).what = "active"   BY <1>3, <2>1, <2>2 DEF Write
  <2>3. CASE Head(writes[t]).what # "active"   BY <1>3, <2>1, <2>3 DEF Write
  <2>4. QED BY <2>2, <2>3
<1>4. ASSUME NEW i \in Instances, DestroyPipeline(i)
      PROVE  SettingsInRange'
  BY <1>4 DEF DestroyPipeline
<1>5. CreatePipeline => SettingsInRange'
  <2>1. -1 \in -1..(Sources - 1)
    BY TilesAssumption
  <2>2. QED BY <2>1 DEF CreatePipeline
<1>6. CreateFails => UNCHANGED tiler_vars
  BY DEF CreateFails
<1>7. LeaveMainLoop => SettingsInRange'
  <2> SUFFICES ASSUME LeaveMainLoop PROVE SettingsInRange'
    OBVIOUS
  <2>1. tiler' \in [Instances -> {"alive", "freed", "none"}]
    BY DEF LeaveMainLoop
  <2>2. QED BY <2>1 DEF LeaveMainLoop
<1>8. CloseWindow => SettingsInRange'
  <2> SUFFICES ASSUME CloseWindow PROVE SettingsInRange'
    OBVIOUS
  <2>1. tiler' \in [Instances -> {"alive", "freed", "none"}]
    <3>1. CASE rebuilt + 1 \in Instances   BY <3>1 DEF CloseWindow
    <3>2. CASE rebuilt + 1 \notin Instances   BY <3>2 DEF CloseWindow
    <3>3. QED BY <3>1, <3>2
  <2>2. QED BY <2>1 DEF CloseWindow
<1>9. QED BY <1>1, <1>2, <1>3, <1>4, <1>5, <1>6, <1>7, <1>8, SettingSteps

LEMMA RangeTyped == SettingsInRange => TilersTyped
<1>1. -1..(Sources - 1) \subseteq Int
  BY TilesAssumption
<1>2. QED BY <1>1 DEF SettingsInRange, TilersTyped

-------------------------------------------------------------------------------
(* The history, and who uses what was freed *)

LEMMA UnsureStep == Typed /\ [TileNext]_tile_vars => unsure' \subseteq Instances
<1> SUFFICES ASSUME Typed, [TileNext]_tile_vars
             PROVE  unsure' \subseteq Instances
  OBVIOUS
<1>0. unsure \subseteq Instances /\ rebuilt \in Instances
  BY DEF Typed, HistoryTyped, SelectionTyped
<1>1. ASSUME NEW t \in Threads, NEW i \in Instances, NEW s, Begins(t, i, s)
      PROVE  unsure' \subseteq Instances
  <2>1. unsure' = unsure \ {i} \/ unsure' = unsure \cup {i}
    BY <1>1 DEF Begins, Update
  <2>2. QED BY <1>0, <2>1
<1>2. CreatePipeline \/ CreateFails => unsure' = unsure \cup {rebuilt}
  BY DEF CreatePipeline, CreateFails
<1>3. LeaveMainLoop \/ CloseWindow => UNCHANGED unsure
  BY DEF LeaveMainLoop, CloseWindow
<1>4. ASSUME NEW t \in Threads, Write(t) PROVE UNCHANGED unsure
  BY <1>4 DEF Write
<1>5. ASSUME NEW i \in Instances, DestroyPipeline(i) PROVE UNCHANGED unsure
  BY <1>5 DEF DestroyPipeline
<1>6. QED BY <1>0, <1>1, <1>2, <1>3, <1>4, <1>5, SettingSteps DEF Begun

\* Whose tiler a step looks at.
Looks ==
  \/ UNCHANGED misused
  \/ main_loop = "free" /\ Uses("console", g_rcfg)
  \/ x_events # <<>> /\ Uses("window", Head(x_events).instance)
  \/ /\ x_events # <<>> /\ Head(x_events).instance \notin windows
     /\ misused' = misused \cup {"nowhere"}
  \/ \E t \in Threads : writes[t] # <<>> /\ Uses(t, Head(writes[t]).instance)

LEMMA LooksStep == ASSUME [TileNext]_tile_vars PROVE Looks
<1>1. ASSUME NEW c \in Keys, TypeKey(c)
      PROVE  UNCHANGED misused
  BY <1>1 DEF TypeKey
<1>2. ASSUME NEW c \in Keys, Keyboard(c)
      PROVE  Looks
  <2>1. CASE KeyRow(c) \/ KeyColumn(c) \/ KeySelect(c) \/ KeyConfig(c)
    BY <2>1 DEF KeyRow, KeyColumn, KeySelect, KeyConfig, Polled, Looks, Current
  <2>2. CASE KeyTiledMode(c) \/ KeyIgnored(c)
    BY <2>2 DEF KeyTiledMode, KeyIgnored, ConsoleLooks, Polled, Looks, Current
  <2>3. CASE ConfigNumber(c)
    BY <2>3 DEF ConfigNumber, Looks
  <2>4. QED BY <1>2, <2>1, <2>2, <2>3 DEF Keyboard
<1>3. Clicks \/ WakeUp \/ FallAsleep => UNCHANGED misused
  BY DEF Clicks, Click, WakeUp, FallAsleep
<1>4. Handled => Looks
  BY DEF Handled, Button, ButtonShow, ButtonTiled, ButtonIgnored, ButtonNowhere, Looks
<1>5. CreatePipeline \/ CreateFails \/ LeaveMainLoop \/ CloseWindow => UNCHANGED misused
  BY DEF CreatePipeline, CreateFails, LeaveMainLoop, CloseWindow
<1>6. ASSUME NEW i \in Instances, DestroyPipeline(i) PROVE UNCHANGED misused
  BY <1>6 DEF DestroyPipeline
<1>7. ASSUME NEW t \in Threads, Write(t) PROVE Looks
  <2>1. CASE Head(writes[t]).what = "active"   BY <1>7, <2>1 DEF Write, Looks
  <2>2. CASE Head(writes[t]).what # "active"   BY <1>7, <2>2 DEF Write, Looks
  <2>3. QED BY <2>1, <2>2
<1>8. UNCHANGED tile_vars => UNCHANGED misused
  BY DEF tile_vars
<1>9. QED
  BY <1>1, <1>2, <1>3, <1>4, <1>5, <1>6, <1>7, <1>8, Steps DEF Looks

LEMMA HistoryStep == Typed /\ [TileNext]_tile_vars => HistoryTyped'
<1> SUFFICES ASSUME Typed, [TileNext]_tile_vars
             PROVE  HistoryTyped'
  OBVIOUS
<1>0. HistoryTyped
  BY DEF Typed
<1>1. misused' \subseteq Threads \cup {"nowhere"}
  <2>1. \A t \in Threads : \A i : Uses(t, i) => misused' \subseteq misused \cup {t}
    BY DEF Uses
  <2>2. "console" \in Threads /\ "window" \in Threads
    BY DEF Threads
  <2>3. QED BY <1>0, <2>1, <2>2, LooksStep DEF Looks, HistoryTyped
<1>2. UNCHANGED <<recreates, torn>> => recreates' \in Nat /\ torn' \in BOOLEAN
  BY <1>0 DEF HistoryTyped
<1>3. ASSUME NEW c \in Keys, TypeKey(c) \/ Keyboard(c)
      PROVE  UNCHANGED <<recreates, torn>>
  <2>1. CASE TypeKey(c)   BY <2>1 DEF TypeKey
  <2>2. CASE Keyboard(c)
    BY <2>2 DEF Keyboard, KeyRow, KeyColumn, KeySelect, KeyTiledMode, KeyConfig, ConfigNumber,
                KeyIgnored
  <2>3. QED BY <1>3, <2>1, <2>2
<1>4. Clicks \/ WakeUp \/ FallAsleep => UNCHANGED <<recreates, torn>>
  BY DEF Clicks, Click, WakeUp, FallAsleep
<1>5. Handled => UNCHANGED <<recreates, torn>>
  BY DEF Handled, Button, ButtonShow, ButtonTiled, ButtonIgnored, ButtonNowhere, ButtonUnchanged
<1>6. CreatePipeline \/ LeaveMainLoop \/ CloseWindow => UNCHANGED <<recreates, torn>>
  BY DEF CreatePipeline, LeaveMainLoop, CloseWindow
<1>7. CreateFails => recreates' \in Nat /\ torn' \in BOOLEAN
  BY <1>0 DEF CreateFails, HistoryTyped
<1>8. ASSUME NEW i \in Instances, DestroyPipeline(i)
      PROVE  recreates' \in Nat /\ torn' \in BOOLEAN
  BY <1>0, <1>8 DEF DestroyPipeline, HistoryTyped
<1>9. ASSUME NEW t \in Threads, Write(t) PROVE UNCHANGED <<recreates, torn>>
  BY <1>9 DEF Write
<1>10. UNCHANGED tile_vars => UNCHANGED <<recreates, torn>>
  BY DEF tile_vars
<1>11. recreates' \in Nat /\ torn' \in BOOLEAN
  BY <1>2, <1>3, <1>4, <1>5, <1>6, <1>7, <1>8, <1>9, <1>10, Steps
<1>12. QED BY <1>1, <1>11, UnsureStep DEF HistoryTyped

-------------------------------------------------------------------------------
TileInv == Typed /\ WritesShaped /\ SettingsInRange

LEMMA InvInit == TileInit => TileInv
<1> SUFFICES ASSUME TileInit
             PROVE  TileInv
  OBVIOUS
<1>1. KeysTyped /\ SelectionTyped /\ WindowTyped /\ HistoryTyped
  <2>1. <<>> \in Seq(Keys) /\ <<>> \in Seq(Event)
    OBVIOUS
  <2>2. QED BY <2>1, InstancesAreNumbers
            DEF TileInit, KeysTyped, SelectionTyped, WindowTyped, HistoryTyped
<1>2. WritesShaped
  BY DEF TileInit, WritesShaped, Shape
<1>3. SettingsInRange
  <2>1. -1 \in -1..(Sources - 1)
    BY TilesAssumption
  <2>2. QED BY <2>1 DEF TileInit, SettingsInRange
<1>4. QED BY <1>1, <1>2, <1>3, ShapedAreTyped, RangeTyped DEF TileInv, Typed

LEMMA InvStep == TileInv /\ [TileNext]_tile_vars => TileInv'
<1> SUFFICES ASSUME TileInv, [TileNext]_tile_vars
             PROVE  TileInv'
  OBVIOUS
<1>1. WritesShaped' /\ SettingsInRange'
  BY ShapeStep, RangeStep DEF TileInv
<1>2. WritesTyped' /\ TilersTyped'
  BY <1>1, ShapeTyped, RangeTyped, ShapedAreTyped, PTL
<1>3. QED
  BY <1>1, <1>2, KeysStep, SelectionStep, WindowStepTyped, HistoryStep DEF TileInv, Typed

LEMMA InvAlways == TileSpec => []TileInv
BY InvInit, InvStep, PTL DEF TileSpec

\* Every reachable state of the choice is well typed, for any instances and tiles.
THEOREM TileTypeCorrect == TileSpec => []TileTypeOK
<1>1. TileInv => TileTypeOK
  BY TypedIsTypeOK DEF TileInv
<1>2. QED BY <1>1, InvAlways, PTL

\* What the tiler is set to and what overlay_graphics looks up in the table of sources
\* is always a source or none, whatever is typed and clicked on while it is set.
THEOREM ActiveIsAlwaysASource == TileSpec => []ActiveIsASource
<1>1. TileInv => ActiveIsASource
  <2> SUFFICES ASSUME TileInv
               PROVE  ActiveIsASource
    OBVIOUS
  <2>1. \A i \in Instances : show[i] \in -1..(Sources - 1) /\ active[i] \in -1..(Sources - 1)
    BY DEF TileInv, SettingsInRange
  <2>2. ASSUME NEW t \in Threads, NEW k \in 1..Len(writes[t])
        PROVE  writes[t][k].value \in -1..(Sources - 1)
    <3>1. Shape(writes[t])
      BY DEF TileInv, WritesShaped
    <3>2. writes[t] # <<>>
      BY <2>2
    <3>3. PICK i \in Instances, s \in -1..(Sources - 1) : writes[t] \in Pairs(i, s) \cup Halves(i, s)
      BY <3>1, <3>2 DEF Shape
    <3>4. writes[t][k].value = s
      BY <3>3, PairTail
    <3>5. QED BY <3>4
  <2>3. QED BY <2>1, <2>2 DEF ActiveIsASource
<1>2. QED BY <1>1, InvAlways, PTL

-------------------------------------------------------------------------------
(* Who uses a tiler that was freed *)

Over == main_loop \in {"teardown", "ended"}

\* Only a failed recreation leaves a freed tiler to the console; the handler it is in
\* keeps the main loop from recreating.
AliveInv ==
  /\ writes["console"] # <<>> => main_loop = "free"
  /\ main_loop \in {"free", "wait"} => \A i \in Instances : (tiler[i] = "freed" => torn)
  /\ main_loop = "rebuild" =>
       recreates > 0 /\ \A i \in Instances \ {rebuilt} : tiler[i] = "freed" => torn
  /\ \A i \in Instances : tiler[i] = "freed" => recreates > 0 \/ Over
  /\ windows = Instances \/ Over

pipelines == <<main_loop, rebuilt, tiler, windows, recreates, torn>>

\* What a step does to the main loop and its pipelines.
LEMMA LoopSteps ==
  ASSUME [TileNext]_tile_vars
  PROVE  \/ UNCHANGED pipelines /\ (writes'["console"] # <<>> => writes["console"] # <<>> \/ main_loop = "free")
         \/ UNCHANGED <<writes, rebuilt, tiler, windows, recreates, torn>>
            /\ \/ main_loop = "free" /\ writes["console"] = <<>> /\ main_loop' = "wait"
               \/ main_loop = "wait" /\ main_loop' = "free"
         \/ \E i \in Instances : DestroyPipeline(i)
         \/ CreatePipeline \/ CreateFails \/ LeaveMainLoop \/ CloseWindow
<1> DEFINE Rest == UNCHANGED pipelines
                   /\ (writes'["console"] # <<>> => writes["console"] # <<>> \/ main_loop = "free")
<1>1. ASSUME NEW c \in Keys, TypeKey(c)
      PROVE  Rest
  BY <1>1 DEF TypeKey, pipelines, tiler_vars, window_thread
<1>2. ASSUME NEW c \in Keys, Keyboard(c)
      PROVE  \/ Rest
             \/ UNCHANGED <<writes, rebuilt, tiler, windows, recreates, torn>>
                /\ \/ main_loop = "free" /\ writes["console"] = <<>> /\ main_loop' = "wait"
                   \/ main_loop = "wait" /\ main_loop' = "free"
  <2>1. CASE KeyRow(c) \/ KeySelect(c) \/ KeyIgnored(c)
    BY <2>1 DEF KeyRow, KeySelect, KeyIgnored, pipelines, tiler_vars, window_thread
  <2>2. CASE KeyColumn(c) \/ KeyTiledMode(c)
    BY <2>2 DEF KeyColumn, KeyTiledMode, Polled, pipelines, tiler_vars, window_thread
  <2>3. CASE KeyConfig(c)
    BY <2>3 DEF KeyConfig, Polled, tiler_vars, window_thread
  <2>4. CASE ConfigNumber(c)
    BY <2>4 DEF ConfigNumber, tiler_vars, window_thread
  <2>5. QED BY <1>2, <2>1, <2>2, <2>3, <2>4 DEF Keyboard
<1>3. Clicks \/ WakeUp \/ FallAsleep => Rest
  BY DEF Clicks, Click, WakeUp, FallAsleep, pipelines, tiler_vars
<1>4. Handled => Rest
  <2> SUFFICES ASSUME Handled PROVE Rest
    OBVIOUS
  <2>1. UNCHANGED pipelines
    BY DEF Handled, Button, ButtonShow, ButtonTiled, ButtonIgnored, ButtonNowhere,
           ButtonUnchanged, pipelines, tiler_vars
  <2>2. writes'["console"] = writes["console"]
    <3>1. ASSUME NEW ws, NEW i, Update("window", i, ws)
          PROVE  writes'["console"] = writes["console"]
      BY <3>1 DEF Update
    <3>2. QED BY <3>1
              DEF Handled, Button, ButtonShow, ButtonTiled, ButtonIgnored, ButtonNowhere
  <2>3. QED BY <2>1, <2>2
<1>5. ASSUME NEW t \in Threads, Write(t)
      PROVE  Rest
  <2>1. UNCHANGED pipelines
    BY <1>5 DEF Write, pipelines, window_thread
  <2>2. writes[t] # <<>> /\ writes' = [writes EXCEPT ![t] = Tail(writes[t])]
    BY <1>5 DEF Write
  <2>3. QED BY <2>1, <2>2
<1>6. UNCHANGED tile_vars => Rest
  BY DEF tile_vars, pipelines, tiler_vars, window_thread
<1>7. QED BY <1>1, <1>2, <1>3, <1>4, <1>5, <1>6, Steps

LEMMA AliveInit == TileInit => AliveInv
BY DEF TileInit, AliveInv, Threads

LEMMA AliveStep == Typed /\ AliveInv /\ [TileNext]_tile_vars => AliveInv'
<1> SUFFICES ASSUME Typed, AliveInv, [TileNext]_tile_vars
             PROVE  AliveInv'
  OBVIOUS
<1>0. recreates \in Nat /\ rebuilt \in Instances
  BY DEF Typed, HistoryTyped, SelectionTyped
<1> USE DEF AliveInv, Over
<1>1. CASE UNCHANGED pipelines /\ (writes'["console"] # <<>> => writes["console"] # <<>> \/ main_loop = "free")
  BY <1>1 DEF pipelines
<1>2. CASE /\ UNCHANGED <<writes, rebuilt, tiler, windows, recreates, torn>>
           /\ \/ main_loop = "free" /\ writes["console"] = <<>> /\ main_loop' = "wait"
              \/ main_loop = "wait" /\ main_loop' = "free"
  BY <1>2
<1>3. ASSUME NEW i \in Instances, DestroyPipeline(i)
      PROVE  AliveInv'
  <2>1. /\ main_loop = "free" /\ main_loop' = "rebuild" /\ rebuilt' = i
        /\ recreates' = recreates + 1 /\ tiler' = [tiler EXCEPT ![i] = "freed"]
        /\ UNCHANGED <<writes, windows, torn>> /\ writes["console"] = <<>>
    BY <1>3 DEF DestroyPipeline, PollerIdle, window_thread
  <2>2. recreates' > 0
    BY <1>0, <2>1
  <2>3. QED BY <2>1, <2>2
<1>4. CASE CreatePipeline
  <2>1. /\ main_loop = "rebuild" /\ main_loop' = "free"
        /\ tiler' = [tiler EXCEPT ![rebuilt] = "alive"]
        /\ UNCHANGED <<writes, windows, torn, recreates>>
    BY <1>4 DEF CreatePipeline, window_thread
  <2>2. \A i \in Instances : tiler'[i] = "freed" => i # rebuilt /\ tiler[i] = "freed"
    BY <2>1, <1>0 DEF Typed, TilersTyped
  <2>3. QED BY <2>1, <2>2
<1>5. CASE CreateFails
  BY <1>5 DEF CreateFails, window_thread, tiler_vars
<1>6. CASE LeaveMainLoop
  BY <1>6 DEF LeaveMainLoop, PollerIdle, window_thread
<1>7. CASE CloseWindow
  <2>1. main_loop = "teardown" /\ main_loop' \in {"teardown", "ended"} /\ UNCHANGED writes
    BY <1>7 DEF CloseWindow
  <2>2. QED BY <2>1
<1>8. QED BY <1>1, <1>2, <1>3, <1>4, <1>5, <1>6, <1>7, LoopSteps

LEMMA ConsoleUses ==
  Typed /\ WritesShaped /\ AliveInv /\ TilersAreAlive /\ [TileNext]_tile_vars => TilersAreAlive'
<1> SUFFICES ASSUME Typed, WritesShaped, AliveInv, TilersAreAlive, [TileNext]_tile_vars
             PROVE  TilersAreAlive'
  OBVIOUS
<1>0. recreates \in Nat /\ g_rcfg \in Instances
  BY DEF Typed, HistoryTyped, SelectionTyped
<1>1. \A t \in Threads : writes[t] # <<>> => Head(writes[t]).instance \in Instances
  BY WriteTyped
<1>2. x_events # <<>> => Head(x_events).instance \in Instances
  BY EventTyped DEF Typed
<1>3. /\ torn => torn'
      /\ recreates > 0 => recreates' > 0
      /\ Over => Over'
  <2>1. CASE UNCHANGED pipelines
    BY <2>1 DEF pipelines, Over
  <2>2. CASE /\ UNCHANGED <<writes, rebuilt, tiler, windows, recreates, torn>>
             /\ \/ main_loop = "free" /\ main_loop' = "wait"
                \/ main_loop = "wait" /\ main_loop' = "free"
    BY <2>2 DEF Over
  <2>3. ASSUME NEW i \in Instances, DestroyPipeline(i)
        PROVE  torn' = torn /\ recreates' = recreates + 1 /\ ~Over
    BY <2>3 DEF DestroyPipeline, PollerIdle, Over
  <2>4. CASE CreatePipeline \/ CreateFails \/ LeaveMainLoop
    BY <2>4 DEF CreatePipeline, CreateFails, LeaveMainLoop, PollerIdle, Over
  <2>5. CASE CloseWindow
    <3>1. main_loop = "teardown" /\ main_loop' \in {"teardown", "ended"}
          /\ UNCHANGED <<recreates, torn>>
      BY <2>5 DEF CloseWindow
    <3>2. QED BY <3>1 DEF Over
  <2>6. QED BY <1>0, <2>1, <2>2, <2>3, <2>4, <2>5, LoopSteps
<1>4. "console" \in misused' => "console" \in misused \/ torn
  <2>1. \A i \in Instances : Uses("console", i) /\ main_loop = "free"
                              => ("console" \in misused' => "console" \in misused \/ torn)
    BY DEF Uses, AliveInv
  <2>2. \A i : Uses("window", i) => ("console" \in misused' => "console" \in misused)
    BY DEF Uses
  <2>3. writes["console"] # <<>> => main_loop = "free"
    BY DEF AliveInv
  <2>4. QED BY <1>0, <1>1, <2>1, <2>2, <2>3, LooksStep DEF Looks, Threads
<1>5. "window" \in misused' => "window" \in misused \/ recreates > 0 \/ Over
  <2>1. \A i \in Instances : Uses("window", i)
                              => ("window" \in misused' => "window" \in misused \/ recreates > 0 \/ Over)
    BY DEF Uses, AliveInv
  <2>2. \A i : Uses("console", i) => ("window" \in misused' => "window" \in misused)
    BY DEF Uses
  <2>3. QED BY <1>1, <1>2, <2>1, <2>2, LooksStep DEF Looks, Threads
<1>6. "nowhere" \in misused' => "nowhere" \in misused \/ Over
  <2>1. \A t \in Threads : \A i : Uses(t, i) => ("nowhere" \in misused' => "nowhere" \in misused)
    BY DEF Uses, Threads
  <2>2. "console" \in Threads /\ "window" \in Threads
    BY DEF Threads
  <2>3. QED BY <1>2, <2>1, <2>2, LooksStep DEF Looks, AliveInv
<1>7. QED BY <1>3, <1>4, <1>5, <1>6 DEF TilersAreAlive, Over

\* The console uses a tiler that was freed only after a failed recreation, the window
\* thread only while or after pipelines were recreated or torn down, and a window of no
\* instance only at the end, for any number of instances and any keys and clicks.
THEOREM TilersAreAlwaysAlive == TileSpec => []TilersAreAlive
<1>1. TileInit => TilersAreAlive
  BY DEF TileInit, TilersAreAlive
<1>2. TileInv => Typed /\ WritesShaped
  BY DEF TileInv
<1>3. QED BY <1>1, <1>2, InvAlways, AliveInit, AliveStep, ConsoleUses, PTL DEF TileSpec

-------------------------------------------------------------------------------
(* The source shown and the source drawn upon *)

\* What a thread still has to write is of instance i.
Of(ws, i) == \E s \in -1..(Sources - 1) : ws \in Pairs(i, s) \cup Halves(i, s)

LEMMA PendingOf ==
  ASSUME WritesShaped, NEW i \in Instances, NEW t \in Threads
  PROVE  t \in Pending(i) <=> Of(writes[t], i)
<1>1. ASSUME Of(writes[t], i)
      PROVE  t \in Pending(i)
  <2>1. PICK s \in -1..(Sources - 1) : writes[t] \in Pairs(i, s) \cup Halves(i, s)
    BY <1>1 DEF Of
  <2>2. 1 \in 1..Len(writes[t]) /\ \A k \in 1..Len(writes[t]) : writes[t][k].instance = i
    BY <2>1, PairTail
  <2>3. QED BY <2>2 DEF Pending
<1>2. ASSUME t \in Pending(i)
      PROVE  Of(writes[t], i)
  <2>1. PICK k \in 1..Len(writes[t]) : writes[t][k].instance = i
    BY <1>2 DEF Pending
  <2>2. writes[t] # <<>>
    BY <2>1
  <2>3. PICK j \in Instances, s \in -1..(Sources - 1) : writes[t] \in Pairs(j, s) \cup Halves(j, s)
    BY <2>2 DEF WritesShaped, Shape
  <2>4. writes[t][k].instance = j
    BY <2>1, <2>3, PairTail
  <2>5. QED BY <2>1, <2>3, <2>4 DEF Of
<1>3. QED BY <1>1, <1>2

\* At most one thread has anything to write of i, and when one of the two is written
\* the other one is still to be set to it.
Agrees(i) ==
  /\ \A t, u \in Threads : Of(writes[t], i) /\ Of(writes[u], i) => t = u
  /\ (\A t \in Threads : ~Of(writes[t], i)) => show[i] = active[i]
  /\ \A t \in Threads, s \in -1..(Sources - 1) :
       /\ writes[t] = <<ShowSource(i, s)>> => active[i] = s
       /\ writes[t] = <<ActiveSource(i, s)>> => show[i] = s
AgreeInv == \A i \in Instances \ unsure : tiler[i] = "alive" => Agrees(i)

\* The settings differ, and each tells its instance and value.
LEMMA SettingsDiffer ==
  /\ \A i, j, s, r : <<ShowSource(i, s)>> # <<ActiveSource(j, r)>>
  /\ \A i, j, s, r : <<ShowSource(i, s)>> = <<ShowSource(j, r)>> => i = j /\ s = r
  /\ \A i, j, s, r : <<ActiveSource(i, s)>> = <<ActiveSource(j, r)>> => i = j /\ s = r
<1>1. \A a, b : <<a>> = <<b>> => a = b
  OBVIOUS
<1>2. \A i, s : /\ ShowSource(i, s).what = "show" /\ ActiveSource(i, s).what = "active"
                /\ ShowSource(i, s).instance = i /\ ShowSource(i, s).value = s
                /\ ActiveSource(i, s).instance = i /\ ActiveSource(i, s).value = s
  BY DEF ShowSource, ActiveSource
<1>3. "show" # "active"
  OBVIOUS
<1>4. QED BY <1>1, <1>2, <1>3

LEMMA NothingIsOf == \A i : ~Of(<<>>, i)
BY PairTail DEF Of

LEMMA OfOne ==
  ASSUME NEW i, NEW j, NEW ws, Of(ws, i), Of(ws, j)
  PROVE  i = j
<1>1. PICK s \in -1..(Sources - 1) : ws \in Pairs(i, s) \cup Halves(i, s)
  BY DEF Of
<1>2. PICK r \in -1..(Sources - 1) : ws \in Pairs(j, r) \cup Halves(j, r)
  BY DEF Of
<1>3. 1 \in 1..Len(ws)
  BY <1>1, PairTail
<1>4. ws[1].instance = i /\ ws[1].instance = j
  BY <1>1, <1>2, <1>3, PairTail
<1>5. QED BY <1>4

LEMMA PairsAreNoHalves ==
  ASSUME NEW i, NEW s, NEW ws \in Pairs(i, s)
  PROVE  \A j, r : ws # <<ShowSource(j, r)>> /\ ws # <<ActiveSource(j, r)>>
<1>1. Len(ws) = 2
  BY PairTail
<1>2. \A a : Len(<<a>>) = 1
  OBVIOUS
<1>3. QED BY <1>1, <1>2

\* A handler begins: alone, it has both to write, or nobody is sure of the instance.
LEMMA BeginAgrees ==
  ASSUME Typed, WritesShaped, AgreeInv, NEW t \in Threads, NEW i \in Instances,
         NEW s \in -1..(Sources - 1), Begins(t, i, s)
  PROVE  AgreeInv'
<1>1. PICK ws \in Pairs(i, s) : Update(t, i, ws)
  BY DEF Begins
<1>2. /\ writes[t] = <<>> /\ UNCHANGED <<tiler, show, active>>
      /\ writes' = [writes EXCEPT ![t] = ws]
      /\ unsure' = IF Pending(i) = {} /\ tiler[i] = "alive" THEN unsure \ {i} ELSE unsure \cup {i}
  BY <1>1 DEF Begins, Update, tiler_vars
<1>3. writes'[t] = ws /\ \A u \in Threads \ {t} : writes'[u] = writes[u]
  BY <1>2 DEF Typed, WritesTyped
<1>4. Of(ws, i)
  BY DEF Of
<1>5. ASSUME NEW j \in Instances \ unsure', tiler'[j] = "alive", j # i
      PROVE  Agrees(j)'
  <2>1. Agrees(j)
    BY <1>2, <1>5 DEF AgreeInv
  <2>2. ~Of(ws, j) /\ ~Of(writes[t], j)
    BY <1>2, <1>4, <1>5, OfOne, NothingIsOf
  <2>3. \A u \in Threads : Of(writes'[u], j) <=> Of(writes[u], j)
    BY <1>3, <2>2
  <2>4. \A r : ws # <<ShowSource(j, r)>> /\ ws # <<ActiveSource(j, r)>>
    BY PairsAreNoHalves
  <2>5. \A u, v \in Threads : Of(writes'[u], j) /\ Of(writes'[v], j) => u = v
    BY <2>1, <2>3 DEF Agrees
  <2>6. (\A u \in Threads : ~Of(writes'[u], j)) => show'[j] = active'[j]
    BY <1>2, <2>1, <2>3 DEF Agrees
  <2>7. \A u \in Threads, r \in -1..(Sources - 1) :
            /\ writes'[u] = <<ShowSource(j, r)>> => active'[j] = r
            /\ writes'[u] = <<ActiveSource(j, r)>> => show'[j] = r
    <3>1. ASSUME NEW u \in Threads, NEW r \in -1..(Sources - 1), u = t
          PROVE  writes'[u] # <<ShowSource(j, r)>> /\ writes'[u] # <<ActiveSource(j, r)>>
      BY <1>3, <2>4, <3>1
    <3>2. ASSUME NEW u \in Threads, NEW r \in -1..(Sources - 1), u # t
          PROVE  /\ writes'[u] = <<ShowSource(j, r)>> => active'[j] = r
                 /\ writes'[u] = <<ActiveSource(j, r)>> => show'[j] = r
      BY <1>2, <1>3, <2>1, <3>2 DEF Agrees
    <3>3. QED BY <3>1, <3>2
  <2>8. QED BY <2>5, <2>6, <2>7 DEF Agrees, Of
<1>6. ASSUME i \notin unsure', tiler'[i] = "alive"
      PROVE  Agrees(i)'
  <2>1. Pending(i) = {}
    BY <1>2, <1>6
  <2>2. \A u \in Threads : ~Of(writes[u], i)
    BY <2>1, PendingOf
  <2>3. \A u \in Threads : Of(writes'[u], i) <=> u = t
    BY <1>3, <1>4, <2>2
  <2>4. ASSUME NEW u \in Threads, NEW r \in -1..(Sources - 1)
        PROVE  writes'[u] # <<ShowSource(i, r)>> /\ writes'[u] # <<ActiveSource(i, r)>>
    <3>1. CASE u = t
      BY <1>3, <3>1, PairsAreNoHalves
    <3>2. CASE u # t
      <4>1. \A x \in Halves(i, r) : Of(x, i)
        BY DEF Of
      <4>2. ~Of(writes'[u], i)
        BY <2>3, <3>2
      <4>3. QED BY <4>1, <4>2 DEF Halves
    <3>3. QED BY <3>1, <3>2
  <2>5. QED BY <2>3, <2>4 DEF Agrees, Of
<1>7. QED BY <1>5, <1>6 DEF AgreeInv

\* A write brings the two together or sets the first of them.
LEMMA WriteAgrees ==
  ASSUME Typed, WritesShaped, AgreeInv, NEW t \in Threads, Write(t)
  PROVE  AgreeInv'
<1>1. writes[t] # <<>>
  BY DEF Write
<1>2. PICK i \in Instances, s \in -1..(Sources - 1) : writes[t] \in Pairs(i, s) \cup Halves(i, s)
  BY <1>1 DEF WritesShaped, Shape
<1>3. writes' = [writes EXCEPT ![t] = Tail(writes[t])] /\ UNCHANGED <<tiler, unsure>>
  BY DEF Write
<1>4. writes'[t] = Tail(writes[t]) /\ \A u \in Threads \ {t} : writes'[u] = writes[u]
  BY <1>3 DEF Typed, WritesTyped
<1>5. /\ Head(writes[t]).instance = i /\ Head(writes[t]).value = s
      /\ Of(writes[t], i)
      /\ writes'[t] = <<>> \/ writes'[t] \in Halves(i, s)
  <2>1. Head(writes[t]) = writes[t][1] /\ 1 \in 1..Len(writes[t])
    BY <1>2, PairTail
  <2>2. Head(writes[t]).instance = i /\ Head(writes[t]).value = s
    BY <1>2, <2>1, PairTail
  <2>3. Of(writes[t], i)
    BY <1>2 DEF Of
  <2>4. writes'[t] = <<>> \/ writes'[t] \in Halves(i, s)
    BY <1>2, <1>4, PairTail
  <2>5. QED BY <2>2, <2>3, <2>4
<1>6. ASSUME NEW j \in Instances \ unsure', tiler'[j] = "alive", j # i
      PROVE  Agrees(j)'
  <2>1. Agrees(j)
    BY <1>3, <1>6 DEF AgreeInv
  <2>2. show'[j] = show[j] /\ active'[j] = active[j]
    <3>1. CASE Head(writes[t]).what = "active"
      BY <1>5, <1>6, <3>1 DEF Write, Typed, TilersTyped
    <3>2. CASE Head(writes[t]).what # "active"
      BY <1>5, <1>6, <3>2 DEF Write, Typed, TilersTyped
    <3>3. QED BY <3>1, <3>2
  <2>3. ~Of(writes[t], j)
    BY <1>5, <1>6, OfOne
  <2>4. \A x \in Halves(i, s) : Of(x, i)
    BY DEF Of
  <2>5. ~Of(writes'[t], j)
    BY <1>5, <1>6, <2>4, OfOne, NothingIsOf
  <2>6. \A u \in Threads : Of(writes'[u], j) <=> Of(writes[u], j)
    BY <1>4, <2>3, <2>5
  <2>7. \A r \in -1..(Sources - 1) : /\ writes'[t] # <<ShowSource(j, r)>>
                                     /\ writes'[t] # <<ActiveSource(j, r)>>
    <3>1. \A r \in -1..(Sources - 1) : \A x \in Halves(j, r) : Of(x, j)
      BY DEF Of
    <3>2. QED BY <2>5, <3>1 DEF Halves
  <2>8. \A u, v \in Threads : Of(writes'[u], j) /\ Of(writes'[v], j) => u = v
    BY <2>1, <2>6 DEF Agrees
  <2>9. (\A u \in Threads : ~Of(writes'[u], j)) => show'[j] = active'[j]
    BY <2>1, <2>2, <2>6 DEF Agrees
  <2>10. \A u \in Threads, r \in -1..(Sources - 1) :
            /\ writes'[u] = <<ShowSource(j, r)>> => active'[j] = r
            /\ writes'[u] = <<ActiveSource(j, r)>> => show'[j] = r
    <3>1. ASSUME NEW u \in Threads, NEW r \in -1..(Sources - 1), u = t
          PROVE  writes'[u] # <<ShowSource(j, r)>> /\ writes'[u] # <<ActiveSource(j, r)>>
      BY <2>7, <3>1
    <3>2. ASSUME NEW u \in Threads, NEW r \in -1..(Sources - 1), u # t
          PROVE  /\ writes'[u] = <<ShowSource(j, r)>> => active'[j] = r
                 /\ writes'[u] = <<ActiveSource(j, r)>> => show'[j] = r
      BY <1>4, <2>1, <2>2, <3>2 DEF Agrees
    <3>3. QED BY <3>1, <3>2
  <2>11. QED BY <2>8, <2>9, <2>10 DEF Agrees, Of
<1>7. ASSUME i \notin unsure', tiler'[i] = "alive"
      PROVE  Agrees(i)'
  <2>1. Agrees(i) /\ tiler[i] = "alive"
    BY <1>3, <1>7 DEF AgreeInv
  <2>2. \A u \in Threads \ {t} : ~Of(writes[u], i)
    BY <1>5, <2>1 DEF Agrees
  <2>3. \A u \in Threads \ {t} : ~Of(writes'[u], i)
    BY <1>4, <2>2
  <2>4. \A u \in Threads \ {t}, r \in -1..(Sources - 1) :
          writes'[u] # <<ShowSource(i, r)>> /\ writes'[u] # <<ActiveSource(i, r)>>
    <3>1. \A r \in -1..(Sources - 1) : \A x \in Halves(i, r) : Of(x, i)
      BY DEF Of
    <3>2. QED BY <2>3, <3>1 DEF Halves
  <2>5. /\ ShowSource(i, s).what = "show" /\ ActiveSource(i, s).what = "active"
        /\ ShowSource(i, s).instance = i /\ ActiveSource(i, s).instance = i
        /\ ShowSource(i, s).value = s /\ ActiveSource(i, s).value = s
    BY DEF ShowSource, ActiveSource
  <2>6. \A a, b : Tail(<<a, b>>) = <<b>> /\ Head(<<a, b>>) = a
    OBVIOUS
  <2>7. \A a : Tail(<<a>>) = <<>> /\ Head(<<a>>) = a
    OBVIOUS
  <2>8. Head(writes[t]) = ActiveSource(i, s) => active'[i] = s /\ show'[i] = show[i]
    BY <2>5 DEF Write, Typed, TilersTyped
  <2>9. Head(writes[t]) = ShowSource(i, s) => show'[i] = s /\ active'[i] = active[i]
    BY <2>1, <2>5 DEF Write, Typed, TilersTyped
  <2>10. CASE writes[t] \in Pairs(i, s)
    <3>1. Of(writes'[t], i)
      <4>1. Tail(writes[t]) \in Halves(i, s)
        BY <2>10, PairTail
      <4>2. QED BY <1>4, <4>1 DEF Of
    <3>2. CASE writes[t] = <<ShowSource(i, s), ActiveSource(i, s)>>
      <4>1. writes'[t] = <<ActiveSource(i, s)>> /\ show'[i] = s
        BY <1>4, <2>6, <2>9, <3>2
      <4>2. \A r : /\ writes'[t] # <<ShowSource(i, r)>>
                   /\ writes'[t] = <<ActiveSource(i, r)>> => show'[i] = r
        BY <4>1, SettingsDiffer
      <4>3. QED BY <2>3, <2>4, <3>1, <4>2 DEF Agrees, Of
    <3>3. CASE writes[t] = <<ActiveSource(i, s), ShowSource(i, s)>>
      <4>1. writes'[t] = <<ShowSource(i, s)>> /\ active'[i] = s
        BY <1>4, <2>6, <2>8, <3>3
      <4>2. \A r : /\ writes'[t] # <<ActiveSource(i, r)>>
                   /\ writes'[t] = <<ShowSource(i, r)>> => active'[i] = r
        BY <4>1, SettingsDiffer
      <4>3. QED BY <2>3, <2>4, <3>1, <4>2 DEF Agrees, Of
    <3>4. QED BY <2>10, <3>2, <3>3 DEF Pairs
  <2>11. CASE writes[t] \in Halves(i, s)
    <3>1. writes'[t] = <<>>
      BY <1>4, <2>11, PairTail
    <3>2. show'[i] = active'[i]
      <4>1. CASE writes[t] = <<ShowSource(i, s)>>
        BY <2>1, <2>7, <2>9, <4>1 DEF Agrees
      <4>2. CASE writes[t] = <<ActiveSource(i, s)>>
        BY <2>1, <2>7, <2>8, <4>2 DEF Agrees
      <4>3. QED BY <2>11, <4>1, <4>2 DEF Halves
    <3>3. ~Of(writes'[t], i)
      BY <3>1, NothingIsOf
    <3>4. \A r : writes'[t] # <<ShowSource(i, r)>> /\ writes'[t] # <<ActiveSource(i, r)>>
      BY <3>1
    <3>5. QED BY <2>3, <2>4, <3>2, <3>3, <3>4 DEF Agrees, Of
  <2>12. QED BY <1>2, <2>10, <2>11
<1>8. QED BY <1>6, <1>7 DEF AgreeInv

LEMMA AgreeStep == TileInv /\ AgreeInv /\ [TileNext]_tile_vars => AgreeInv'
<1> SUFFICES ASSUME TileInv, AgreeInv, [TileNext]_tile_vars
             PROVE  AgreeInv'
  OBVIOUS
<1>0. Typed /\ WritesShaped
  BY DEF TileInv
\* The two are left alone, or nobody is sure of them, or there is no tiler.
<1>1. ASSUME UNCHANGED <<writes, active>>, unsure \subseteq unsure',
             \A i \in Instances \ unsure' : show'[i] = show[i],
             \A i \in Instances \ unsure' : tiler'[i] = "alive" => tiler[i] = "alive"
      PROVE  AgreeInv'
  <2>1. ASSUME NEW i \in Instances \ unsure', tiler'[i] = "alive"
        PROVE  Agrees(i)'
    <3>1. Agrees(i) /\ show'[i] = show[i]
      BY <1>1, <2>1 DEF AgreeInv
    <3>2. QED BY <1>1, <3>1 DEF Agrees, Of
  <2>2. QED BY <2>1 DEF AgreeInv
<1>2. UNCHANGED <<writes, unsure, tiler_vars>> => AgreeInv'
  BY <1>1 DEF tiler_vars
<1>3. Begun => AgreeInv'
  BY <1>0, BeginAgrees DEF Begun
<1>4. ASSUME NEW t \in Threads, Write(t) PROVE AgreeInv'
  BY <1>0, <1>4, WriteAgrees
<1>5. ASSUME NEW i \in Instances, DestroyPipeline(i) PROVE AgreeInv'
  <2>1. \A j \in Instances : tiler'[j] = "alive" => tiler[j] = "alive"
    BY <1>0, <1>5 DEF DestroyPipeline, Typed, TilersTyped
  <2>2. QED BY <1>1, <1>5, <2>1 DEF DestroyPipeline
<1>6. CreatePipeline => AgreeInv'
  <2> SUFFICES ASSUME CreatePipeline PROVE AgreeInv'
    OBVIOUS
  <2>1. /\ unsure' = unsure \cup {rebuilt} /\ UNCHANGED <<writes, active>>
        /\ tiler' = [tiler EXCEPT ![rebuilt] = "alive"] /\ show' = [show EXCEPT ![rebuilt] = -1]
    BY DEF CreatePipeline
  <2>2. \A j \in Instances \ unsure' : tiler'[j] = tiler[j] /\ show'[j] = show[j]
    BY <1>0, <2>1 DEF Typed, TilersTyped
  <2>3. QED BY <1>1, <2>1, <2>2
<1>7. CreateFails => AgreeInv'
  BY <1>1 DEF CreateFails, tiler_vars
<1>8. LeaveMainLoop => AgreeInv'
  <2> SUFFICES ASSUME LeaveMainLoop PROVE AgreeInv'
    OBVIOUS
  <2>1. \A j \in Instances : tiler'[j] = "alive" => tiler[j] = "alive"
    BY <1>0 DEF LeaveMainLoop, Typed, TilersTyped
  <2>2. QED BY <1>1, <2>1 DEF LeaveMainLoop
<1>9. CloseWindow => AgreeInv'
  <2> SUFFICES ASSUME CloseWindow PROVE AgreeInv'
    OBVIOUS
  <2>1. \A j \in Instances : tiler'[j] = "alive" => tiler[j] = "alive"
    <3>1. CASE rebuilt + 1 \in Instances
      BY <1>0, <3>1 DEF CloseWindow, Typed, TilersTyped
    <3>2. CASE rebuilt + 1 \notin Instances
      BY <3>2 DEF CloseWindow
    <3>3. QED BY <3>1, <3>2
  <2>2. QED BY <1>1, <2>1 DEF CloseWindow
<1>10. QED
  BY <1>0, <1>2, <1>3, <1>4, <1>5, <1>6, <1>7, <1>8, <1>9, SettingSteps

\* At rest the source drawn upon is the one shown, for any instances and any order of
\* the two threads' writes, unless their updates met or the tiler is a new one.
THEOREM SelectionAlwaysAgrees == TileSpec => []SelectionAgrees
<1>1. TileInit => AgreeInv
  <2> SUFFICES ASSUME TileInit, NEW i \in Instances PROVE Agrees(i)
    BY DEF AgreeInv
  <2>1. show[i] = active[i] /\ \A t \in Threads : writes[t] = <<>>
    BY DEF TileInit
  <2>2. \A t \in Threads : ~Of(writes[t], i)
    BY <2>1, NothingIsOf
  <2>3. \A t \in Threads, s \in -1..(Sources - 1) :
          writes[t] # <<ShowSource(i, s)>> /\ writes[t] # <<ActiveSource(i, s)>>
    <3>1. \A a : <<a>> # <<>>
      OBVIOUS
    <3>2. QED BY <2>1, <3>1
  <2>4. QED BY <2>1, <2>2, <2>3 DEF Agrees
<1>2. TileInv /\ AgreeInv => SelectionAgrees
  <2> SUFFICES ASSUME TileInv, AgreeInv, NEW i \in Instances \ unsure, Pending(i) = {},
                      tiler[i] = "alive"
               PROVE  show[i] = active[i]
    BY DEF SelectionAgrees
  <2>1. Agrees(i)
    BY DEF AgreeInv
  <2>2. \A t \in Threads : ~Of(writes[t], i)
    BY PendingOf DEF TileInv
  <2>3. QED BY <2>1, <2>2 DEF Agrees
<1>3. QED BY <1>1, <1>2, InvAlways, AgreeStep, PTL DEF TileSpec
===============================================================================
