----------------------------- MODULE AppLifecycle -----------------------------
(***************************************************************************)
(* The life of the program (main.cpp) and of its pipelines (the life-cycle *)
(* methods of AppContext and bus_callback in src/app.cpp).                 *)
(*                                                                         *)
(* The main thread builds one AppContext per configuration file, runs the  *)
(* main loop and tears everything down.  In the main loop run, one at a    *)
(* time, the 400 ms interrupt check, the 40 ms poll of the instances and   *)
(* of the keyboard, each instance's bus watch and the timer that recreates *)
(* its pipeline.  The window thread runs besides it from the moment there  *)
(* is a window, and pauses, resumes and quits without any lock the main    *)
(* thread holds; GStreamer's threads post messages on the buses.           *)
(***************************************************************************)
EXTENDS Integers, Sequences

CONSTANTS
  NumInstances,  \* g_num_instances: instances are 1..NumInstances
  Rtsp,          \* instances whose sources are RTSP cameras
  Recreated,     \* instances with pipeline-recreate-sec
  MaxMessages,   \* bound: messages posted on the buses
  MaxCommands,   \* bound: pause and resume commands
  MaxRecreates,  \* bound: firings of the recreate timers
  MaxFailures    \* bound: steps of start-up or recreation that fail

ASSUME InstancesAssumption ==
  /\ NumInstances \in Nat \ {0}
  /\ Rtsp \subseteq 1..NumInstances
  /\ Recreated \subseteq 1..NumInstances
  /\ MaxMessages \in Nat /\ MaxCommands \in Nat
  /\ MaxRecreates \in Nat /\ MaxFailures \in Nat

Instances == 1..NumInstances

VARIABLES
  main,            \* where the main thread is
  contexts,        \* instances that have an AppContext
  pipeline,        \* state of each instance's GstPipeline
  bins_known,      \* multi_src_bin.num_bins is not zero
  bus,             \* messages of each pipeline not yet handled
  bus_watched,     \* bus_callback is attached
  quit, status,    \* AppContext::quit, AppContext::status
  recreate_timer,  \* the recreate timer is attached
  interrupt_timer, \* check_for_interrupt is attached
  cintr, g_quit, g_return_value,
  loop_running,    \* GMainLoop's own flag
  windows,         \* a window is open and its event thread runs
  is_paused,       \* nvds_x_event_thread's notion of the pause
  call,            \* the pause or resume each thread is in the middle of
  messages, commands, recreates, failures,   \* budgets used
  asked,           \* history: the user asked the program to end
  failed           \* history: an error, not a source's, was met before the end

env_vars == <<messages, commands, recreates, failures>>
history_vars == <<asked, failed>>
main_loop_vars == <<interrupt_timer, cintr, g_quit, loop_running>>
instance_vars == <<contexts, pipeline, bins_known, bus, bus_watched, quit, status,
                   recreate_timer>>
window_vars == <<windows, is_paused, call>>
vars == <<main, instance_vars, g_return_value, main_loop_vars, window_vars,
          env_vars, history_vars>>

Threads == {"console", "window"}
PipelineState == {"none", "NULL", "PAUSED", "PLAYING"}
Idle == [op |-> "idle", at |-> 1, cur |-> "unread"]
At(phase, i, step) == [phase |-> phase, i |-> i, step |-> step]

TypeOK ==
  /\ main \in [phase : {"parse", "create", "prepare", "start", "run", "quit", "done",
                        "crashed"},
               i : 1..(NumInstances + 1),
               step : {"idle", "teardown", "silenced", "rebuild", "preroll", "play"}]
  /\ contexts \subseteq Instances
  /\ pipeline \in [Instances -> PipelineState]
  /\ bins_known \in [Instances -> BOOLEAN]
  /\ bus \in [Instances -> Seq({"source_error", "error", "attempts", "eos"})]
  /\ bus_watched \in [Instances -> BOOLEAN]
  /\ quit \in [Instances -> BOOLEAN]
  /\ status \in [Instances -> {-1, 0}]
  /\ recreate_timer \in [Instances -> BOOLEAN]
  /\ {interrupt_timer, cintr, g_quit, loop_running, windows, is_paused, asked}
       \subseteq BOOLEAN
  /\ g_return_value \in {-1, 0}
  /\ call \in [Threads -> [op : {"idle", "pause", "resume"}, at : Instances,
                           cur : PipelineState \cup {"unread", "async"}]]
  /\ {messages, commands, recreates, failures} \subseteq Nat
  /\ failed \in [Instances -> BOOLEAN]

Init ==
  /\ main = At("parse", 1, "idle")
  /\ contexts = {}
  /\ pipeline = [i \in Instances |-> "none"]
  /\ bins_known = [i \in Instances |-> FALSE]
  /\ bus = [i \in Instances |-> <<>>]
  /\ bus_watched = [i \in Instances |-> FALSE]
  /\ quit = [i \in Instances |-> FALSE]
  /\ status = [i \in Instances |-> 0]
  /\ recreate_timer = [i \in Instances |-> FALSE]
  /\ interrupt_timer = FALSE
  /\ cintr = FALSE
  /\ g_quit = FALSE
  /\ g_return_value = 0
  /\ loop_running = FALSE
  /\ windows = FALSE
  /\ is_paused = FALSE
  /\ call = [t \in Threads |-> Idle]
  /\ messages = 0 /\ commands = 0 /\ recreates = 0 /\ failures = 0
  /\ asked = FALSE
  /\ failed = [i \in Instances |-> FALSE]

-------------------------------------------------------------------------------
(* The end of main: every instance is destroyed, one after the other.      *)

\* Instance i comes next; its status goes into the exit code before it is destroyed.
\* An instance whose configuration was never reached has no context to look at.
ComesNext(i, returned) ==
  IF i > NumInstances
  THEN main' = At("done", i, "idle") /\ g_return_value' = returned
  ELSE IF i \notin contexts'
  THEN main' = At("crashed", i, "idle") /\ g_return_value' = returned
  ELSE /\ main' = At("quit", i, "teardown")
       /\ g_return_value' = IF status'[i] = -1 THEN -1 ELSE returned

Fails == failures < MaxFailures /\ failures' = failures + 1

-------------------------------------------------------------------------------
(* main before g_main_loop_run: four passes over the instances *)

\* The step for instance i is done: on to the next instance, or the next pass.
Proceed(phase, next_phase) ==
  main' = IF main.i < NumInstances THEN At(phase, main.i + 1, "idle")
          ELSE At(next_phase, 1, "idle")

ParseConfig ==
  LET i == main.i IN
  /\ main.phase = "parse"
  /\ contexts' = contexts \cup {i}
  /\ \/ /\ Proceed("parse", "create")
        /\ UNCHANGED <<status, failures, g_return_value, failed>>
     \/ /\ Fails
        /\ status' = [status EXCEPT ![i] = -1]
        /\ failed' = [failed EXCEPT ![i] = TRUE]
        /\ ComesNext(1, g_return_value)
  /\ UNCHANGED <<pipeline, bins_known, bus, bus_watched, quit, recreate_timer,
                 main_loop_vars, window_vars, messages, commands, recreates, asked>>

\* create_pipeline: the pipeline and its bus watch come first, whatever fails later.
Created(i) ==
  /\ pipeline' = [pipeline EXCEPT ![i] = "NULL"]
  /\ bus_watched' = [bus_watched EXCEPT ![i] = TRUE]
  /\ bus' = [bus EXCEPT ![i] = <<>>]

\* The step that builds or starts instance i's pipeline fails and main gives up.
StartFails(i) ==
  /\ Fails
  /\ failed' = [failed EXCEPT ![i] = TRUE]
  /\ ComesNext(1, -1)

CreatePipeline ==
  LET i == main.i IN
  /\ main.phase = "create"
  /\ Created(i)
  /\ UNCHANGED <<contexts, quit, status, recreate_timer>>
  /\ \/ /\ bins_known' = [bins_known EXCEPT ![i] = TRUE]
        /\ Proceed("create", "prepare")
        /\ interrupt_timer' = (i = NumInstances)
        /\ UNCHANGED <<failures, failed, g_return_value>>
     \/ /\ StartFails(i)
        /\ UNCHANGED <<bins_known, interrupt_timer>>
  /\ UNCHANGED <<cintr, g_quit, loop_running, window_vars, messages, commands,
                 recreates, asked>>

\* Once a window is open its event thread runs, before the main loop does.
PreparePipeline ==
  LET i == main.i IN
  /\ main.phase = "prepare"
  /\ \/ /\ pipeline' = [pipeline EXCEPT ![i] = "PAUSED"]
        /\ windows' = TRUE
        /\ Proceed("prepare", "start")
        /\ UNCHANGED <<contexts, status, failures, failed, g_return_value>>
     \/ /\ UNCHANGED <<contexts, status>>
        /\ StartFails(i)
        /\ UNCHANGED <<pipeline, windows>>
  /\ UNCHANGED <<bins_known, bus, bus_watched, quit, recreate_timer, main_loop_vars,
                 is_paused, call, messages, commands, recreates, asked>>

\* The loop's flag is set when it is entered, whatever was made of it before.
StartPipeline ==
  LET i == main.i IN
  /\ main.phase = "start"
  /\ UNCHANGED <<contexts, status>>
  /\ \/ /\ pipeline' = [pipeline EXCEPT ![i] = "PLAYING"]
        /\ recreate_timer' = [recreate_timer EXCEPT ![i] = i \in Recreated]
        /\ Proceed("start", "run")
        /\ loop_running' = (i = NumInstances)
        /\ UNCHANGED <<failures, failed, g_return_value>>
     \/ /\ StartFails(i)
        /\ UNCHANGED <<pipeline, recreate_timer, loop_running>>
  /\ UNCHANGED <<bins_known, bus, bus_watched, quit, interrupt_timer, cintr, g_quit,
                 window_vars, messages, commands, recreates, asked>>

-------------------------------------------------------------------------------
(* GStreamer's threads *)

\* A running pipeline posts: an error of an RTSP source or of another element, the
\* message that every source has given up, the end of the stream.
Post(i, m) ==
  /\ pipeline[i] \in {"PAUSED", "PLAYING"}
  /\ messages < MaxMessages
  /\ m \in {"source_error", "attempts"} => i \in Rtsp
  /\ m \in {"attempts", "eos"} => pipeline[i] = "PLAYING"
  /\ messages' = messages + 1
  /\ bus' = [bus EXCEPT ![i] = Append(@, m)]
  /\ UNCHANGED <<main, contexts, pipeline, bins_known, bus_watched, quit, status,
                 recreate_timer, g_return_value, main_loop_vars, window_vars, commands,
                 recreates, failures, history_vars>>

-------------------------------------------------------------------------------
(* The main loop *)

\* A callback may run: none is running.  The loop finishes its round after it was
\* told to quit.
Dispatching == main = At("run", 1, "idle") /\ call["console"].op = "idle"

QuitLoop == g_quit' = TRUE /\ loop_running' = FALSE

\* Mutant: any instance that has quit ends the program.
AllQuit_Any == \E i \in Instances : quit[i]
AllQuit == \A i \in Instances : quit[i]

\* Mutant: as the interrupt check does, nothing once the program is quitting.
PollInstances_NotQuitting ==
  /\ Dispatching /\ loop_running /\ ~g_quit
  /\ AllQuit
  /\ QuitLoop
  /\ UNCHANGED <<main, instance_vars, g_return_value, interrupt_timer, cintr,
                 window_vars, env_vars, history_vars>>
\* event_thread_func looks at the instances before it looks at the keyboard.
PollInstances ==
  /\ Dispatching /\ loop_running
  /\ AllQuit
  /\ QuitLoop
  /\ UNCHANGED <<main, instance_vars, g_return_value, interrupt_timer, cintr,
                 window_vars, env_vars, history_vars>>

KeyQuits ==
  /\ Dispatching /\ loop_running
  /\ ~AllQuit
  /\ QuitLoop
  /\ asked' = TRUE
  /\ UNCHANGED <<main, instance_vars, g_return_value, interrupt_timer, cintr,
                 window_vars, env_vars, failed>>

\* The signal handler sets a flag; the check resets it and quits the loop, but
\* removes itself when the program is quitting already.
Interrupt ==
  /\ interrupt_timer /\ ~asked
  /\ cintr' = TRUE
  /\ asked' = TRUE
  /\ UNCHANGED <<main, instance_vars, g_return_value, interrupt_timer, g_quit,
                 loop_running, window_vars, env_vars, failed>>

CheckForInterrupt ==
  /\ Dispatching /\ interrupt_timer
  /\ \/ /\ g_quit
        /\ UNCHANGED <<cintr, g_quit, loop_running>>
     \/ /\ ~g_quit /\ cintr
        /\ cintr' = FALSE
        /\ QuitLoop
  /\ interrupt_timer' = FALSE
  /\ UNCHANGED <<main, instance_vars, g_return_value, window_vars, env_vars,
                 history_vars>>

LeaveLoop ==
  /\ Dispatching /\ ~loop_running
  /\ UNCHANGED <<instance_vars, main_loop_vars, window_vars, env_vars, history_vars>>
  /\ ComesNext(1, g_return_value)

-------------------------------------------------------------------------------
(* bus_callback *)

\* An error of a known RTSP source only has the source reset.
Recoverable(i, m, known) == m = "source_error" /\ known /\ i \in Rtsp

\* Mutant: giving up is a failure.
Verdict_Failure(i, m, known) ==
  IF Recoverable(i, m, known) THEN [quit |-> quit[i], status |-> status[i]]
  ELSE [quit |-> TRUE, status |-> IF m = "eos" THEN status[i] ELSE -1]
\* What a message makes of the instance.
Verdict(i, m, known) ==
  IF Recoverable(i, m, known) THEN [quit |-> quit[i], status |-> status[i]]
  ELSE [quit |-> TRUE, status |-> CASE m = "attempts" -> 0
                                    [] m = "eos" -> status[i]
                                    [] OTHER -> -1]

BusCallback(i) ==
  /\ Dispatching /\ bus_watched[i] /\ bus[i] # <<>>
  /\ LET m == Head(bus[i]) IN
     /\ bus' = [bus EXCEPT ![i] = Tail(@)]
     /\ quit' = [quit EXCEPT ![i] = Verdict(i, m, bins_known[i]).quit]
     /\ status' = [status EXCEPT ![i] = Verdict(i, m, bins_known[i]).status]
     /\ bus_watched' = [bus_watched EXCEPT ![i] = m # "eos"]
     /\ failed' = [failed EXCEPT ![i] = @ \/ m = "error"]
  /\ UNCHANGED <<main, contexts, pipeline, bins_known, recreate_timer, g_return_value,
                 main_loop_vars, window_vars, env_vars, asked>>

-------------------------------------------------------------------------------
(* destroy_pipeline, at the end and before a recreation: it sends an EOS and   *)
(* sleeps, drains the bus, waits, and lets the pipeline go.                    *)

\* The errors still on the bus when the sources are forgotten already: the last
\* one decides, and whatever is not an error is dropped.
DrainBus(i) ==
  LET errors == {k \in 1..Len(bus[i]) : bus[i][k] # "eos"} IN
  /\ \/ errors = {} /\ UNCHANGED <<quit, status>>
     \/ \E last \in errors :
          LET verdict == Verdict(i, bus[i][last], FALSE) IN
          /\ \A k \in errors : k <= last
          /\ quit' = [quit EXCEPT ![i] = verdict.quit]
          /\ status' = [status EXCEPT ![i] = verdict.status]
  /\ failed' = [failed EXCEPT ![i] =
                  @ \/ (main.phase = "run" /\ \E k \in errors : bus[i][k] = "error")]
  /\ bus' = [bus EXCEPT ![i] = <<>>]

Silence ==
  LET i == main.i IN
  /\ main.step = "teardown"
  /\ main' = [main EXCEPT !.step = "silenced"]
  /\ IF pipeline[i] = "none" THEN UNCHANGED <<pipeline, bins_known, quit, status, failed, bus>>
     ELSE /\ pipeline' = [pipeline EXCEPT ![i] = "NULL"]
          /\ bins_known' = [bins_known EXCEPT ![i] = FALSE]
          /\ DrainBus(i)
  /\ UNCHANGED <<contexts, bus_watched, recreate_timer, g_return_value, main_loop_vars,
                 window_vars, env_vars, asked>>

\* The pipeline goes; at the end of the program so does its window, once the event
\* thread is between two rounds.
Dispose ==
  LET i == main.i IN
  /\ main.step = "silenced"
  /\ pipeline' = [pipeline EXCEPT ![i] = "none"]
  /\ bus_watched' = [bus_watched EXCEPT ![i] = FALSE]
  /\ bus' = [bus EXCEPT ![i] = <<>>]
  /\ UNCHANGED <<contexts, status>>
  /\ \/ /\ main.phase = "run"
        /\ main' = [main EXCEPT !.step = "rebuild"]
        /\ UNCHANGED g_return_value
     \/ /\ main.phase = "quit"
        /\ call["window"].op = "idle"
        /\ ComesNext(i + 1, g_return_value)
  /\ UNCHANGED <<bins_known, quit, recreate_timer, main_loop_vars, window_vars,
                 env_vars, history_vars>>

-------------------------------------------------------------------------------
(* recreate_pipeline_thread_func: a callback of the main loop *)

Recreate(i) ==
  /\ Dispatching /\ recreate_timer[i]
  /\ recreates < MaxRecreates
  /\ recreates' = recreates + 1
  /\ main' = At("run", i, "teardown")
  /\ UNCHANGED <<instance_vars, g_return_value, main_loop_vars, window_vars, messages,
                 commands, failures, history_vars>>

\* A step that fails leaves its error in the exit code and removes the timer.
RecreateFails(i) ==
  /\ Fails
  /\ failed' = [failed EXCEPT ![i] = TRUE]
  /\ g_return_value' = -1
  /\ recreate_timer' = [recreate_timer EXCEPT ![i] = FALSE]
  /\ main' = At("run", 1, "idle")

Rebuild ==
  LET i == main.i IN
  /\ main.step = "rebuild"
  /\ Created(i)
  /\ \/ /\ bins_known' = [bins_known EXCEPT ![i] = TRUE]
        /\ main' = [main EXCEPT !.step = "preroll"]
        /\ UNCHANGED <<failures, failed, g_return_value, recreate_timer>>
     \/ RecreateFails(i) /\ UNCHANGED bins_known
  /\ UNCHANGED <<contexts, quit, status, main_loop_vars, window_vars, messages,
                 commands, recreates, asked>>

\* Set to PAUSED and then to PLAYING, whatever state it was in before.
RunAgain(step, state, next) ==
  LET i == main.i IN
  /\ main.step = step
  /\ \/ /\ pipeline' = [pipeline EXCEPT ![i] = state]
        /\ main' = next
        /\ UNCHANGED <<failures, failed, g_return_value, recreate_timer>>
     \/ RecreateFails(i) /\ UNCHANGED pipeline
  /\ UNCHANGED <<contexts, bins_known, bus, bus_watched, quit, status, main_loop_vars,
                 window_vars, messages, commands, recreates, asked>>

Preroll == RunAgain("preroll", "PAUSED", [main EXCEPT !.step = "play"])
Play == RunAgain("play", "PLAYING", At("run", 1, "idle"))

-------------------------------------------------------------------------------
(* pause_pipeline and resume_pipeline for every instance, from either thread.  *)

Begin(t, op) ==
  /\ call[t].op = "idle"
  /\ commands < MaxCommands
  /\ commands' = commands + 1
  /\ call' = [call EXCEPT ![t] = [op |-> op, at |-> 1, cur |-> "unread"]]

ConsoleKey(op) ==
  /\ Dispatching /\ loop_running /\ ~AllQuit
  /\ Begin("console", op)
  /\ UNCHANGED <<main, instance_vars, g_return_value, main_loop_vars, windows,
                 is_paused, messages, recreates, failures, history_vars>>

WindowThread == windows /\ main.phase \notin {"done", "crashed"}

\* The space bar toggles what the thread itself remembers.
SpaceBar ==
  /\ WindowThread
  /\ Begin("window", IF is_paused THEN "resume" ELSE "pause")
  /\ UNCHANGED <<main, instance_vars, g_return_value, main_loop_vars, windows,
                 is_paused, messages, recreates, failures, history_vars>>

\* The key Q and the closing of the window.
WindowQuits ==
  /\ WindowThread /\ call["window"].op = "idle"
  /\ ~asked
  /\ QuitLoop
  /\ asked' = TRUE
  /\ UNCHANGED <<main, instance_vars, g_return_value, interrupt_timer, cintr,
                 window_vars, env_vars, failed>>

\* gst_element_get_state: it may be busy with another change, and of no pipeline
\* at all it leaves the caller's variable as it found it.
ReadState(t) ==
  LET i == call[t].at IN
  /\ call[t].op # "idle" /\ call[t].cur = "unread"
  /\ \E s \in PipelineState \cup {"async"} :
       /\ s \in {pipeline[i], "async"} \/ pipeline[i] = "none"
       /\ call' = [call EXCEPT ![t].cur = s]
  /\ UNCHANGED <<main, instance_vars, g_return_value, main_loop_vars, windows,
                 is_paused, env_vars, history_vars>>

\* The state is set by what was read, and the next instance comes.
SetState(t) ==
  LET c == call[t]
      from == IF c.op = "pause" THEN "PLAYING" ELSE "PAUSED"
      to == IF c.op = "pause" THEN "PAUSED" ELSE "PLAYING"
      last == c.at = NumInstances
  IN
  /\ c.op # "idle" /\ c.cur # "unread"
  /\ pipeline' = [pipeline EXCEPT ![c.at] = IF c.cur = from /\ @ # "none" THEN to ELSE @]
  /\ call' = [call EXCEPT ![t] = IF last THEN Idle
                                 ELSE [c EXCEPT !.at = @ + 1, !.cur = "unread"]]
  /\ is_paused' = IF last /\ t = "window" THEN c.op = "pause" ELSE is_paused
  /\ UNCHANGED <<main, contexts, bins_known, bus, bus_watched, quit, status,
                 recreate_timer, g_return_value, main_loop_vars, windows, env_vars,
                 asked, failed>>

-------------------------------------------------------------------------------
Ended == main.phase \in {"done", "crashed"}

StartUp == ParseConfig \/ CreatePipeline \/ PreparePipeline \/ StartPipeline
TearDown == Silence \/ Dispose
Rebuilds == Rebuild \/ Preroll \/ Play
Callbacks ==
  \/ PollInstances \/ CheckForInterrupt \/ LeaveLoop
  \/ \E i \in Instances : BusCallback(i)

Next ==
  \/ StartUp \/ TearDown \/ Rebuilds \/ Callbacks
  \/ \E i \in Instances :
       \/ Recreate(i)
       \/ \E m \in {"source_error", "error", "attempts", "eos"} : Post(i, m)
  \/ Interrupt \/ KeyQuits \/ WindowQuits \/ SpaceBar
  \/ \E op \in {"pause", "resume"} : ConsoleKey(op)
  \/ \E t \in Threads : ReadState(t) \/ SetState(t)
  \/ Ended /\ UNCHANGED vars

Spec == Init /\ [][Next]_vars

\* Each of the program's own steps is taken when it stays possible: the main loop
\* serves every source that is ready and a thread inside a call goes on with it.
\* Nothing is assumed of the user, of the pipelines and of what fails.
FairSpec ==
  /\ Spec
  /\ WF_vars(StartUp) /\ WF_vars(TearDown) /\ WF_vars(Rebuilds)
  /\ WF_vars(PollInstances) /\ WF_vars(CheckForInterrupt) /\ WF_vars(LeaveLoop)
  /\ \A i \in Instances : WF_vars(BusCallback(i))
  /\ \A t \in Threads : WF_vars(ReadState(t) \/ SetState(t))

-------------------------------------------------------------------------------
(* Properties *)

\* The main loop is left only when every instance has quit or the user asked for it:
\* neither an error nor the end of one pipeline ends the others.
LeavesForAReason ==
  main.phase = "run" /\ ~loop_running => asked \/ \A i \in Instances : quit[i]

\* The exit code reports a failure only when something did fail: cameras that were
\* given up and streams that ended are a normal end.  (The teardown of a pipeline of
\* cameras that is recreated on a timer takes their errors for fatal ones.)
FailureHasCause ==
  Rtsp \cap Recreated = {} /\ g_return_value = -1 => \E i \in Instances : failed[i]

\* Once every instance has quit the program ends, whatever the user and the window
\* thread do meanwhile.
AllQuitEnds ==
  (main.phase = "run" /\ \A i \in Instances : quit[i]) ~> main.phase = "done"

\* A user who asks the program to quit sees it end.
QuitIsObeyed == asked ~> Ended
===============================================================================
