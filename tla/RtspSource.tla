------------------------------ MODULE RtspSource ------------------------------
(***************************************************************************)
(* Supervision of the RTSP sources of one pipeline (src/sources.cpp and    *)
(* the ERROR and EOS cases of bus_callback in src/app.cpp).                *)
(*                                                                         *)
(* Three kinds of thread touch the state:                                  *)
(*   - the main loop: the one-second timer watch_source_status, the 20 ms  *)
(*     timer watch_source_async_state_change, the zero-delay timer running *)
(*     reset_source_pipeline, the bus watch and the 40 ms quit poll; they  *)
(*     never overlap one another;                                          *)
(*   - the streaming thread of each source, whose pad probe writes         *)
(*     last_buffer_time and have_eos;                                      *)
(*   - GStreamer itself, which finishes state changes, loses connections   *)
(*     and posts messages in its own time.                                 *)
(*                                                                         *)
(* Times are kept as ages in seconds (how long ago the code's timestamp    *)
(* was taken); an age stops growing at the largest value a guard compares  *)
(* it with, so nothing is lost and the state space stays finite.           *)
(***************************************************************************)
EXTENDS Integers, Sequences

CONSTANTS
  Sources,                    \* the enabled SourceBins, all of type RTSP
  ReconnectAttempts,          \* rtsp-reconnect-attempts of each; -1 is unlimited
  ReconnectInterval,          \* rtsp-reconnect-interval-sec of each; 0 is off
  SOURCE_RESET_INTERVAL_SEC,  \* pause between two attempts of one source
  RESET_GAP_SEC,              \* the 3000 ms kept between attempts of any two
  MaxIncidents,               \* bound: errors posted and pauses by the user
  NoSource                    \* not a source: the main loop is between handlers

ASSUME SourcesAssumption ==
  /\ NoSource \notin Sources
  /\ ReconnectAttempts \in [Sources -> Int]
  /\ \A s \in Sources : ReconnectAttempts[s] >= -1
  /\ ReconnectInterval \in [Sources -> Nat]

ASSUME TimesAssumption ==
  /\ SOURCE_RESET_INTERVAL_SEC \in Nat \ {0}
  /\ RESET_GAP_SEC \in Nat
  /\ MaxIncidents \in Nat

VARIABLES
  reconfiguring,              \* SourceBin::reconfiguring
  async_state_watch_running,  \* SourceBin::async_state_watch_running
  async_timers,               \* 20 ms timers attached for the source
  num_rtsp_reconnects,        \* SourceBin::num_rtsp_reconnects
  have_eos,                   \* SourceBin::have_eos
  last_buffer,                \* age of last_buffer_time, or Never
  last_reconnect,             \* age of last_reconnect_time
  last_reset_global,          \* age of the static last_reset_time_global
  watching,                   \* the one-second timer is attached
  due,                        \* ... and its second has elapsed
  resets,                     \* zero-delay reset_source_pipeline calls pending
  bin,                        \* state of the source's GstBin
  ended,                      \* the source's EOS is at the muxer's sink pad
  eos_probe,                  \* nvstreammux_eosmonitor_probe is installed
  bus,                        \* messages the bus watch has not seen yet
  bus_watched,                \* the bus watch is attached
  parent,                     \* state the user asked of the pipeline
  deciding,                   \* source whose silence was just read, or NoSource
  quit,                       \* AppContext::quit
  stopped,                    \* the main loop has been left
  incidents,                  \* how much of MaxIncidents is used
  kicked,                     \* history: the last reset was the timer's own
  exhausted                   \* history: the exhaustion error has been posted

source_vars == <<reconfiguring, async_state_watch_running, async_timers,
                 num_rtsp_reconnects, have_eos, last_buffer, last_reconnect,
                 watching, due, resets, bin, ended, kicked>>
app_vars == <<last_reset_global, eos_probe, bus, bus_watched, parent, deciding,
              quit, stopped, incidents, exhausted>>
vars == <<source_vars, app_vars>>

Never == -1
BinState == {"NULL", "TO_PAUSED", "TO_PLAYING", "PAUSED", "PLAYING", "FAILED"}
Message == [kind : {"error", "error500", "attempts", "eos"}, src : Sources]

TypeOK ==
  /\ reconfiguring \in [Sources -> BOOLEAN]
  /\ async_state_watch_running \in [Sources -> BOOLEAN]
  /\ async_timers \in [Sources -> Nat]
  /\ num_rtsp_reconnects \in [Sources -> Nat]
  /\ have_eos \in [Sources -> BOOLEAN]
  /\ last_buffer \in [Sources -> Nat \cup {Never}]
  /\ last_reconnect \in [Sources -> Nat]
  /\ last_reset_global \in Nat
  /\ watching \in [Sources -> BOOLEAN]
  /\ due \in [Sources -> BOOLEAN]
  /\ resets \in [Sources -> Nat]
  /\ bin \in [Sources -> BinState]
  /\ ended \in [Sources -> BOOLEAN]
  /\ eos_probe \in BOOLEAN
  /\ bus \in Seq(Message)
  /\ bus_watched \in BOOLEAN
  /\ parent \in {"PLAYING", "PAUSED"}
  /\ deciding \in Sources \cup {NoSource}
  /\ quit \in BOOLEAN
  /\ stopped \in BOOLEAN
  /\ incidents \in Nat
  /\ kicked \in [Sources -> BOOLEAN]
  /\ exhausted \in BOOLEAN

-------------------------------------------------------------------------------
(* create_multi_source_bin, create_rtsp_src_bin, then the pipeline set to PLAYING *)

\* Timestamps start at zero, which is long ago; only last_buffer_time is
\* tested for it.  The muxer's EOS probe is wanted as soon as one source
\* reconnects on silence.
Init ==
  /\ reconfiguring = [s \in Sources |-> FALSE]
  /\ async_state_watch_running = [s \in Sources |-> FALSE]
  /\ async_timers = [s \in Sources |-> 0]
  /\ num_rtsp_reconnects = [s \in Sources |-> 0]
  /\ have_eos = [s \in Sources |-> FALSE]
  /\ last_buffer = [s \in Sources |-> Never]
  /\ last_reconnect = [s \in Sources |-> SOURCE_RESET_INTERVAL_SEC]
  /\ last_reset_global = RESET_GAP_SEC + 1
  /\ watching = [s \in Sources |-> TRUE]
  /\ due = [s \in Sources |-> FALSE]
  /\ resets = [s \in Sources |-> 0]
  /\ bin = [s \in Sources |-> "TO_PLAYING"]
  /\ ended = [s \in Sources |-> FALSE]
  /\ eos_probe = (\E s \in Sources : ReconnectInterval[s] > 0)
  /\ bus = <<>>
  /\ bus_watched = TRUE
  /\ parent = "PLAYING"
  /\ deciding = NoSource
  /\ quit = FALSE
  /\ stopped = FALSE
  /\ incidents = 0
  /\ kicked = [s \in Sources |-> FALSE]
  /\ exhausted = FALSE

\* A handler of the main loop may start.
MainLoopFree == ~stopped /\ deciding = NoSource

Older(age, cap) == IF age < cap THEN age + 1 ELSE age

\* A second goes by.  A timer the main loop has not served yet does not pile up.
Tick ==
  /\ last_buffer' = [s \in Sources |->
       IF last_buffer[s] = Never THEN Never
       ELSE Older(last_buffer[s], ReconnectInterval[s])]
  /\ last_reconnect' = [s \in Sources |->
       Older(last_reconnect[s], SOURCE_RESET_INTERVAL_SEC)]
  /\ last_reset_global' = Older(last_reset_global, RESET_GAP_SEC + 1)
  /\ due' = watching
  /\ UNCHANGED <<reconfiguring, async_state_watch_running, async_timers,
                 num_rtsp_reconnects, have_eos, watching, resets, bin, ended,
                 kicked, eos_probe, bus, bus_watched, parent, deciding, quit,
                 stopped, incidents, exhausted>>

-------------------------------------------------------------------------------
(* check_rtsp_reconnection_attempts *)

\* Mutant: one attempt more than those after which the source is stopped.
KeepsPipeline_OneMore(t, attempts_made, eos) ==
  \/ eos[t] /\ (ReconnectInterval[t] = 0 \/ ReconnectAttempts[t] = 0)
  \/ /\ attempts_made[t] <= ReconnectAttempts[t] + 1
     /\ ReconnectInterval[t] # 0 \/ ~eos[t]
\* A source that keeps the pipeline alive, given the counters and EOS flags.
KeepsPipeline(t, attempts_made, eos) ==
  \/ eos[t] /\ (ReconnectInterval[t] = 0 \/ ReconnectAttempts[t] = 0)
  \/ /\ attempts_made[t] <= ReconnectAttempts[t]
     /\ ReconnectInterval[t] # 0 \/ ~eos[t]

Exhausted(attempts_made, eos) ==
  \A t \in Sources : ~KeepsPipeline(t, attempts_made, eos)

\* The EOS of the last source leaves the muxer, unless the probe drops it there.
EosMessage(s, at_mux, probe) ==
  IF (\A t \in Sources : at_mux[t]) /\ ~probe
  THEN <<[kind |-> "eos", src |-> s]>> ELSE <<>>

AttemptsMessage(s, over) ==
  IF over THEN <<[kind |-> "attempts", src |-> s]>> ELSE <<>>

-------------------------------------------------------------------------------
(* The streaming threads: rtspsrc_monitor_probe_func *)

Flowing(s) == bin[s] \in {"TO_PAUSED", "TO_PLAYING", "PAUSED", "PLAYING"}

\* With an interval the probe sees buffers and nothing else.
BufferProbe(s) ==
  /\ Flowing(s)
  /\ ~stopped
  /\ ~ended[s]
  /\ ReconnectInterval[s] > 0
  /\ last_buffer' = [last_buffer EXCEPT ![s] = 0]
  /\ have_eos' = [have_eos EXCEPT ![s] = FALSE]
  /\ UNCHANGED <<reconfiguring, async_state_watch_running, async_timers,
                 num_rtsp_reconnects, last_reconnect, watching, due, resets,
                 bin, ended, kicked, app_vars>>

\* The server closes the stream.  Without an interval the probe only sees this
\* event; it takes no lock and asks whether every source is finished.
EosEvent(s) ==
  LET eos == IF ReconnectInterval[s] = 0
             THEN [have_eos EXCEPT ![s] = TRUE] ELSE have_eos
      over == ReconnectInterval[s] = 0 /\ Exhausted(num_rtsp_reconnects, eos)
      at_mux == [ended EXCEPT ![s] = TRUE]
      probe == eos_probe /\ ~over
  IN
  /\ Flowing(s)
  /\ ~stopped
  /\ ~ended[s]
  /\ have_eos' = eos
  /\ ended' = at_mux
  /\ eos_probe' = probe
  /\ exhausted' = (exhausted \/ over)
  /\ bus' = bus \o AttemptsMessage(s, over) \o EosMessage(s, at_mux, probe)
  /\ UNCHANGED <<reconfiguring, async_state_watch_running, async_timers,
                 num_rtsp_reconnects, last_buffer, last_reconnect, watching,
                 due, resets, bin, kicked, last_reset_global, bus_watched,
                 parent, deciding, quit, stopped, incidents>>

-------------------------------------------------------------------------------
(* reset_source_pipeline *)

\* Mutant: the flag is not tested.
ArmAsyncWatch_NoTest(s) ==
  /\ async_timers' = [async_timers EXCEPT ![s] = @ + 1]
  /\ async_state_watch_running' = [async_state_watch_running EXCEPT ![s] = TRUE]
\* The watch is armed unless its flag says that it already is.
ArmAsyncWatch(s) ==
  /\ async_timers' = IF async_state_watch_running[s] THEN async_timers
                     ELSE [async_timers EXCEPT ![s] = @ + 1]
  /\ async_state_watch_running' = [async_state_watch_running EXCEPT ![s] = TRUE]

AsyncWatchUnchanged == UNCHANGED <<async_state_watch_running, async_timers>>

\* States the bin can be left in by gst_element_sync_state_with_parent while
\* gst_element_get_state says ASYNC or NO_PREROLL.
Pending == {"PAUSED"} \cup {IF parent = "PLAYING" THEN "TO_PLAYING" ELSE "TO_PAUSED"}

\* The bin is flushed, sent to NULL and back to its parent's state.  own: the
\* call comes from the one-second timer.
ResetSourcePipeline(s, own) ==
  /\ last_buffer' = [last_buffer EXCEPT ![s] = 0]
  /\ last_reconnect' = [last_reconnect EXCEPT ![s] = 0]
  /\ ended' = [ended EXCEPT ![s] = FALSE]
  /\ kicked' = [kicked EXCEPT ![s] = own]
  /\ \/ /\ \E b \in Pending : bin' = [bin EXCEPT ![s] = b]
        /\ ArmAsyncWatch(s)
        /\ reconfiguring' = [reconfiguring EXCEPT ![s] = TRUE]
     \/ /\ parent = "PLAYING"
        /\ bin' = [bin EXCEPT ![s] = "PLAYING"]
        /\ reconfiguring' = [reconfiguring EXCEPT ![s] = FALSE]
        /\ AsyncWatchUnchanged
     \/ \* the bin has followed its parent: no flag tells, and nothing watches it
        /\ parent = "PAUSED"
        /\ bin' = [bin EXCEPT ![s] = "PAUSED"]
        /\ UNCHANGED reconfiguring
        /\ AsyncWatchUnchanged
     \/ \* set_state(NULL) failed, or the new state change has
        /\ bin' = [bin EXCEPT ![s] = "FAILED"]
        /\ UNCHANGED reconfiguring
        /\ AsyncWatchUnchanged

-------------------------------------------------------------------------------
(* watch_source_status *)

\* ++num_rtsp_reconnects <= rtsp_reconnect_attempts, not evaluated for -1.
AttemptsMade(s) ==
  IF ReconnectAttempts[s] = -1 THEN num_rtsp_reconnects
  ELSE [num_rtsp_reconnects EXCEPT ![s] = @ + 1]
\* Mutant: post-increment, so one attempt too many.
MayAttempt_OneMore(s) ==
  ReconnectAttempts[s] = -1 \/ num_rtsp_reconnects[s] <= ReconnectAttempts[s]

MayAttempt(s) ==
  ReconnectAttempts[s] = -1 \/ AttemptsMade(s)[s] <= ReconnectAttempts[s]
\* The last attempt is spent: the timer is gone, the bin is stopped and the
\* muxer gets the source's EOS.
GiveUp(s) ==
  LET over == Exhausted(AttemptsMade(s), have_eos)
      at_mux == [ended EXCEPT ![s] = TRUE]
      probe == eos_probe /\ ~over
  IN
  /\ ~MayAttempt(s)
  /\ eos_probe' = probe
  /\ ended' = at_mux
  /\ exhausted' = (exhausted \/ over)
  /\ bus' = bus \o AttemptsMessage(s, over) \o EosMessage(s, at_mux, probe)
  /\ bin' = [bin EXCEPT ![s] = "NULL"]
  /\ watching' = [watching EXCEPT ![s] = FALSE]
  /\ UNCHANGED <<last_reset_global, last_buffer, last_reconnect, reconfiguring,
                 kicked>>
  /\ AsyncWatchUnchanged

\* Mutant: last_reset_time_global is not taken again.
Reconnect_GapForgotten(s) ==
  /\ MayAttempt(s)
  /\ ResetSourcePipeline(s, TRUE)
  /\ UNCHANGED <<last_reset_global, eos_probe, bus, watching, exhausted>>

Reconnect(s) ==
  /\ MayAttempt(s)
  /\ last_reset_global' = 0
  /\ ResetSourcePipeline(s, TRUE)
  /\ UNCHANGED <<eos_probe, bus, watching, exhausted>>
Attempt(s) ==
  /\ num_rtsp_reconnects' = AttemptsMade(s)
  /\ due' = [due EXCEPT ![s] = FALSE]
  /\ Reconnect(s) \/ GiveUp(s)
  /\ UNCHANGED <<have_eos, resets, bus_watched, parent, quit, stopped,
                 incidents>>

\* A last_buffer_time that was never taken counts as no silence at all.
Silent(s) ==
  /\ ReconnectInterval[s] > 0
  /\ last_buffer[s] # Never
  /\ last_buffer[s] >= ReconnectInterval[s]

GapElapsed == last_reset_global > RESET_GAP_SEC

StatusTimerFires(s) == MainLoopFree /\ watching[s] /\ due[s]

\* Mutant: no retry while the 20 ms watch runs.
RetryDue_NotWhileAsync(s) ==
  /\ reconfiguring[s] /\ ~async_state_watch_running[s]
  /\ last_reconnect[s] >= SOURCE_RESET_INTERVAL_SEC
  /\ GapElapsed
\* The source is being reconnected: try again every SOURCE_RESET_INTERVAL_SEC.
RetryDue(s) ==
  /\ reconfiguring[s]
  /\ last_reconnect[s] >= SOURCE_RESET_INTERVAL_SEC
  /\ GapElapsed

WatchReconfiguring(s) ==
  /\ StatusTimerFires(s)
  /\ RetryDue(s)
  /\ Attempt(s)
  /\ UNCHANGED deciding

\* The source is up: its last buffer is read under bin_lock and judged after it.
WatchSilent(s) ==
  /\ StatusTimerFires(s)
  /\ ~reconfiguring[s] /\ Silent(s) /\ GapElapsed
  /\ deciding' = s
  /\ UNCHANGED <<source_vars, last_reset_global, eos_probe, bus, bus_watched,
                 parent, quit, stopped, incidents, exhausted>>

WatchSilentAttempt(s) ==
  /\ deciding = s
  /\ Attempt(s)
  /\ deciding' = NoSource

WatchNothing(s) ==
  /\ StatusTimerFires(s)
  /\ ~RetryDue(s)
  /\ reconfiguring[s] \/ ~Silent(s) \/ ~GapElapsed
  /\ due' = [due EXCEPT ![s] = FALSE]
  /\ UNCHANGED <<reconfiguring, async_state_watch_running, async_timers,
                 num_rtsp_reconnects, have_eos, last_buffer, last_reconnect,
                 watching, resets, bin, ended, kicked, app_vars>>

-------------------------------------------------------------------------------
(* watch_source_async_state_change *)

\* A source that plays again has all its attempts back.
NoAttempts(s) == [num_rtsp_reconnects EXCEPT ![s] = 0]
AsyncTimerFires(s) == MainLoopFree /\ async_timers[s] > 0

StopAsyncWatch(s) ==
  /\ async_timers' = [async_timers EXCEPT ![s] = @ - 1]
  /\ async_state_watch_running' = [async_state_watch_running EXCEPT ![s] = FALSE]

AsyncPlaying(s) ==
  /\ AsyncTimerFires(s)
  /\ bin[s] = "PLAYING"
  /\ StopAsyncWatch(s)
  /\ reconfiguring' = [reconfiguring EXCEPT ![s] = FALSE]
  /\ num_rtsp_reconnects' = NoAttempts(s)
  /\ UNCHANGED <<have_eos, last_buffer, last_reconnect, watching, due, resets,
                 bin, ended, kicked, app_vars>>

\* The failure is left to the one-second timer: reconfiguring stays set.
AsyncFailed(s) ==
  /\ AsyncTimerFires(s)
  /\ bin[s] = "FAILED"
  /\ StopAsyncWatch(s)
  /\ UNCHANGED <<reconfiguring, num_rtsp_reconnects, have_eos, last_buffer,
                 last_reconnect, watching, due, resets, bin, ended, kicked,
                 app_vars>>

\* The bin settled anywhere else: it is told to play and watched on.
AsyncForcePlaying(s) ==
  /\ AsyncTimerFires(s)
  /\ bin[s] \in {"NULL", "PAUSED"}
  /\ bin' = [bin EXCEPT ![s] = "TO_PLAYING"]
  /\ ended' = [ended EXCEPT ![s] = @ /\ bin[s] # "NULL"]
  /\ UNCHANGED <<reconfiguring, async_state_watch_running, async_timers,
                 num_rtsp_reconnects, have_eos, last_buffer, last_reconnect,
                 watching, due, resets, kicked, app_vars>>

-------------------------------------------------------------------------------
(* bus_callback: GST_MESSAGE_ERROR of a source, the exhaustion error, EOS *)

Dispatch == MainLoopFree /\ bus_watched /\ bus # <<>> /\ bus' = Tail(bus)

BusSourceError ==
  LET m == Head(bus) IN
  /\ Dispatch
  /\ m.kind \in {"error", "error500"}
  /\ IF ~reconfiguring[m.src] \/ m.kind = "error500"
     THEN /\ reconfiguring' = [reconfiguring EXCEPT ![m.src] = TRUE]
          /\ resets' = [resets EXCEPT ![m.src] = @ + 1]
     ELSE UNCHANGED <<reconfiguring, resets>>
  /\ UNCHANGED <<async_state_watch_running, async_timers, num_rtsp_reconnects,
                 have_eos, last_buffer, last_reconnect, watching, due, bin,
                 ended, kicked, last_reset_global, eos_probe, bus_watched,
                 parent, deciding, quit, stopped, incidents, exhausted>>

\* After EOS the bus watch is removed as well.
BusQuit ==
  LET m == Head(bus) IN
  /\ Dispatch
  /\ m.kind \in {"attempts", "eos"}
  /\ quit' = TRUE
  /\ bus_watched' = (m.kind = "attempts")
  /\ UNCHANGED <<source_vars, last_reset_global, eos_probe, parent, deciding,
                 stopped, incidents, exhausted>>

\* The zero-delay timer set by BusSourceError.
RunReset(s) ==
  /\ MainLoopFree
  /\ resets[s] > 0
  /\ resets' = [resets EXCEPT ![s] = @ - 1]
  /\ ResetSourcePipeline(s, FALSE)
  /\ UNCHANGED <<num_rtsp_reconnects, have_eos, watching, due, app_vars>>

\* The 40 ms poll of main.cpp sees quit and leaves the main loop.
LeaveMainLoop ==
  /\ MainLoopFree
  /\ quit
  /\ stopped' = TRUE
  /\ UNCHANGED <<source_vars, last_reset_global, eos_probe, bus, bus_watched,
                 parent, deciding, quit, incidents, exhausted>>

-------------------------------------------------------------------------------
(* AppContext::pause_pipeline and resume_pipeline, as far as the sources go *)

\* gst_element_get_state of the pipeline does not say ASYNC.
Settled == \A s \in Sources : bin[s] \notin {"TO_PAUSED", "TO_PLAYING"}

PausePipeline ==
  /\ ~stopped
  /\ parent = "PLAYING" /\ Settled
  /\ incidents < MaxIncidents
  /\ incidents' = incidents + 1
  /\ parent' = "PAUSED"
  /\ bin' = [s \in Sources |->
       IF bin[s] \in {"PLAYING", "PAUSED"} THEN "PAUSED" ELSE "TO_PAUSED"]
  /\ ended' = [s \in Sources |-> ended[s] /\ bin[s] # "NULL"]
  /\ UNCHANGED <<reconfiguring, async_state_watch_running, async_timers,
                 num_rtsp_reconnects, have_eos, last_buffer, last_reconnect,
                 watching, due, resets, kicked, last_reset_global, eos_probe,
                 bus, bus_watched, deciding, quit, stopped, exhausted>>

ResumePipeline ==
  /\ ~stopped
  /\ parent = "PAUSED" /\ Settled
  /\ parent' = "PLAYING"
  /\ bin' = [s \in Sources |->
       IF bin[s] = "PLAYING" THEN "PLAYING" ELSE "TO_PLAYING"]
  /\ ended' = [s \in Sources |-> ended[s] /\ bin[s] # "NULL"]
  /\ UNCHANGED <<reconfiguring, async_state_watch_running, async_timers,
                 num_rtsp_reconnects, have_eos, last_buffer, last_reconnect,
                 watching, due, resets, kicked, last_reset_global, eos_probe,
                 bus, bus_watched, deciding, quit, stopped, incidents,
                 exhausted>>

-------------------------------------------------------------------------------
(* GStreamer and the network *)

\* A state change ends: as asked, early in PAUSED, or in failure.
BinSettles(s) ==
  /\ bin[s] \in {"TO_PAUSED", "TO_PLAYING"}
  /\ \E b \in {"PAUSED", "FAILED"} \cup (IF bin[s] = "TO_PLAYING" THEN {"PLAYING"} ELSE {}) :
       bin' = [bin EXCEPT ![s] = b]
  /\ UNCHANGED <<reconfiguring, async_state_watch_running, async_timers,
                 num_rtsp_reconnects, have_eos, last_buffer, last_reconnect,
                 watching, due, resets, ended, kicked, app_vars>>

\* An element of the source posts an error; its bin may or may not survive it.
SourceError(s) ==
  /\ bin[s] # "NULL"
  /\ ~stopped
  /\ incidents < MaxIncidents
  /\ incidents' = incidents + 1
  /\ \E k \in {"error", "error500"} : bus' = Append(bus, [kind |-> k, src |-> s])
  /\ \E b \in {bin[s], "FAILED"} : bin' = [bin EXCEPT ![s] = b]
  /\ UNCHANGED <<reconfiguring, async_state_watch_running, async_timers,
                 num_rtsp_reconnects, have_eos, last_buffer, last_reconnect,
                 watching, due, resets, ended, kicked, last_reset_global,
                 eos_probe, bus_watched, parent, deciding, quit, stopped,
                 exhausted>>

-------------------------------------------------------------------------------
MainLoop(s) ==
  \/ WatchReconfiguring(s) \/ WatchSilent(s) \/ WatchSilentAttempt(s)
  \/ WatchNothing(s)
  \/ AsyncPlaying(s) \/ AsyncFailed(s) \/ AsyncForcePlaying(s)
  \/ RunReset(s)

Network(s) == BufferProbe(s) \/ EosEvent(s) \/ BinSettles(s) \/ SourceError(s)

Step ==
  \/ \E s \in Sources : MainLoop(s) \/ Network(s)
  \/ BusSourceError \/ BusQuit \/ LeaveMainLoop
  \/ PausePipeline \/ ResumePipeline

Next == Tick \/ Step

Spec == Init /\ [][Next]_vars

\* The main loop serves every timer within its second: GLib dispatches all the
\* timers that are ready before it sleeps again, and no handler takes a second.
TimersServed == \A s \in Sources : ~(watching[s] /\ due[s]) \/ stopped
PunctualNext == (TimersServed /\ Tick) \/ Step

\* Time passes, the one-second timers are served in it, and so are the messages on
\* the bus: GLib dispatches in one iteration every source of events that is ready,
\* so a handler that is ready again and again does run.  The same could be said of
\* the 20 ms timers, the zero-delay resets and the quit poll, but what must happen
\* does not depend on them.  Nothing is asked of the network, the user or GStreamer.
Fairness ==
  /\ WF_vars(TimersServed /\ Tick)
  /\ \A s \in Sources :
       /\ WF_vars(WatchSilentAttempt(s))
       /\ WF_vars(WatchReconfiguring(s) \/ WatchSilent(s) \/ WatchNothing(s))
  /\ SF_vars(BusSourceError \/ BusQuit)

FairSpec == Init /\ [][PunctualNext]_vars /\ Fairness

-------------------------------------------------------------------------------
(* Properties *)

\* The flag that keeps reset_source_pipeline from attaching a second 20 ms timer
\* always tells whether one is attached, whichever of the handlers ran last: two
\* timers would fight over one source, a stale flag would leave it unwatched.
OneAsyncTimer ==
  \A s \in Sources :
    async_timers[s] = IF async_state_watch_running[s] THEN 1 ELSE 0

\* A source whose one-second timer still runs has not used more attempts than it
\* was given, however its resets, recoveries and bus errors were interleaved.
AttemptsRespected ==
  \A s \in Sources : watching[s] /\ ReconnectAttempts[s] # -1 =>
    num_rtsp_reconnects[s] <= ReconnectAttempts[s]

\* Two sources are never reconnected by their timers within RESET_GAP_SEC of each
\* other: the static timestamp shared by all sources spaces them out.
ResetsSpaced ==
  \A s, t \in Sources :
    /\ s # t
    /\ kicked[s] /\ kicked[t]
    /\ last_reconnect[s] <= last_reconnect[t]
    /\ last_reconnect[t] < SOURCE_RESET_INTERVAL_SEC
    => last_reconnect[t] - last_reconnect[s] > RESET_GAP_SEC

\* "Reconnection attempts exceeded for all sources or EOS received" is posted only
\* when each source has been given up or has had its EOS.
ExitOnlyWhenAllGaveUp ==
  [][~exhausted /\ exhausted' =>
       \A s \in Sources : ~watching'[s] \/ have_eos'[s]]_vars

\* The timers, flags and messages implement the supervisor's contract, when every
\* source is watched for silence and has a limit.
Phase == [s \in Sources |->
  IF ~watching[s] THEN "stopped" ELSE IF reconfiguring[s] THEN "recovering" ELSE "up"]
Used == [s \in Sources |-> IF watching[s] THEN num_rtsp_reconnects[s] ELSE 0]

Supervisor == INSTANCE SourceSupervisor WITH
  Limit <- ReconnectAttempts, phase <- Phase, used <- Used, exited <- exhausted

ImplementsSupervisor == Supervisor!Spec

\* A source that is being reconnected, with attempts to use up, is one day up
\* again or given up (or the application quits), whatever the order of timers, bus
\* errors and failing resets, unless another one takes the gap they all share for
\* ever: one with unlimited attempts, or one that comes back again and again and
\* has its attempts back each time.
RecoveryResolves ==
  \A s \in Sources :
    (\A t \in Sources \ {s} :
       ReconnectAttempts[t] # -1 /\ <>[][~AsyncPlaying(t)]_vars)
    => (reconfiguring[s] /\ ReconnectAttempts[s] # -1
          ~> ~reconfiguring[s] \/ ~watching[s] \/ stopped)

\* A source that was given up counts again: the 20 ms watch, which GiveUp leaves
\* attached, has set its stopped bin to PLAYING and its counter to zero.
Revived(s) ==
  ~watching[s] /\ num_rtsp_reconnects[s] <= ReconnectAttempts[s]

\* When all sources were given up, in whatever order, the application quits: the
\* decision to post the error agrees with the decision to stop the last of them, and
\* the bus watch is there to see it.  Only a source that was revived keeps it.
QuitsWhenAllOver ==
  (\A s \in Sources : ~watching[s]) ~> quit \/ \E s \in Sources : Revived(s)
===============================================================================
