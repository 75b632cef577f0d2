-------------------------- MODULE AppLifecycle_proofs --------------------------
(* Proofs about the life cycle, for any number of instances and any bounds. *)
EXTENDS AppLifecycle, TLAPS

-------------------------------------------------------------------------------
(* The parts of the type invariant, with where the main thread can be *)

StartPhase == {"parse", "create", "prepare", "start"}
LoopStep == {"idle", "teardown", "silenced", "rebuild", "preroll", "play"}
Message == {"source_error", "error", "attempts", "eos"}

MainOK ==
  /\ main \in [phase : StartPhase \cup {"run", "quit", "done", "crashed"},
               i : 1..(NumInstances + 1), step : LoopStep]
  /\ main.phase \in StartPhase \cup {"run", "quit"} => main.i <= NumInstances
  /\ main.phase \in StartPhase \cup {"done", "crashed"} => main.step = "idle"
  /\ main.phase = "quit" => main.step \in {"teardown", "silenced"}

PipesOK ==
  /\ contexts \subseteq Instances
  /\ pipeline \in [Instances -> PipelineState]
  /\ bins_known \in [Instances -> BOOLEAN]
  /\ bus \in [Instances -> Seq(Message)]
  /\ bus_watched \in [Instances -> BOOLEAN]
  /\ recreate_timer \in [Instances -> BOOLEAN]

VerdictOK ==
  /\ quit \in [Instances -> BOOLEAN]
  /\ status \in [Instances -> {-1, 0}]
  /\ failed \in [Instances -> BOOLEAN]

LoopOK ==
  /\ interrupt_timer \in BOOLEAN /\ cintr \in BOOLEAN /\ g_quit \in BOOLEAN
  /\ loop_running \in BOOLEAN /\ asked \in BOOLEAN
  /\ windows \in BOOLEAN /\ is_paused \in BOOLEAN
  /\ g_return_value \in {-1, 0}

CallOK ==
  call \in [Threads -> [op : {"idle", "pause", "resume"}, at : Instances,
                        cur : PipelineState \cup {"unread", "async"}]]

EnvOK ==
  /\ messages \in Nat /\ commands \in Nat /\ recreates \in Nat /\ failures \in Nat

TypeInv == MainOK /\ PipesOK /\ VerdictOK /\ LoopOK /\ CallOK /\ EnvOK

LEMMA TypeInvType == TypeInv => TypeOK
BY DEF TypeInv, MainOK, PipesOK, VerdictOK, LoopOK, CallOK, EnvOK, TypeOK, StartPhase,
       LoopStep, Message

LEMMA SomeInstances == 1 \in Instances /\ 1 <= NumInstances + 1 /\ NumInstances \in Nat
BY InstancesAssumption DEF Instances

LEMMA TypeInit == Init => TypeInv
<1> SUFFICES ASSUME Init PROVE TypeInv
  OBVIOUS
<1>1. MainOK
  BY SomeInstances DEF Init, MainOK, At, StartPhase, LoopStep, Instances
<1>2. PipesOK
  BY DEF Init, PipesOK, PipelineState, Message
<1>3. VerdictOK
  BY DEF Init, VerdictOK
<1>4. LoopOK /\ EnvOK
  BY DEF Init, LoopOK, EnvOK
<1>5. CallOK
  BY SomeInstances DEF Init, CallOK, Idle
<1>6. QED BY <1>1, <1>2, <1>3, <1>4, <1>5 DEF TypeInv

-------------------------------------------------------------------------------
(* Where the main thread goes *)

LEMMA NextInstance ==
  ASSUME NEW i \in 1..(NumInstances + 1), NEW r \in {-1, 0}, ComesNext(i, r)
  PROVE  /\ MainOK' /\ g_return_value' \in {-1, 0}
         /\ main'.phase \in {"quit", "done", "crashed"}
<1>0. NumInstances \in Nat
  BY SomeInstances
<1>1. g_return_value' \in {-1, 0}
  BY DEF ComesNext
<1>2. CASE main' = At("done", i, "idle") \/ main' = At("crashed", i, "idle")
  BY <1>0, <1>1, <1>2 DEF MainOK, At, StartPhase, LoopStep
<1>3. CASE main' = At("quit", i, "teardown") /\ i <= NumInstances
  BY <1>0, <1>1, <1>3 DEF MainOK, At, StartPhase, LoopStep
<1>4. \/ main' = At("done", i, "idle") \/ main' = At("crashed", i, "idle")
      \/ main' = At("quit", i, "teardown") /\ i <= NumInstances
  <2>1. CASE i > NumInstances
    BY <2>1 DEF ComesNext
  <2>2. CASE i <= NumInstances
    <3>1. ~(i > NumInstances)
      BY <1>0, <2>2
    <3>2. QED BY <2>2, <3>1 DEF ComesNext
  <2>3. QED BY <1>0, <2>1, <2>2
<1>5. QED BY <1>2, <1>3, <1>4

LEMMA NextStart ==
  ASSUME MainOK, main.phase \in StartPhase,
         NEW next_phase \in StartPhase \cup {"run"}, Proceed(main.phase, next_phase)
  PROVE  MainOK'
<1>0. NumInstances \in Nat /\ main.i \in Nat /\ main.i >= 1
  BY SomeInstances DEF MainOK
<1>1. CASE main.i < NumInstances
  BY <1>0, <1>1 DEF Proceed, MainOK, At, StartPhase, LoopStep
<1>2. CASE ~(main.i < NumInstances)
  BY <1>0, <1>2, SomeInstances DEF Proceed, MainOK, At, StartPhase, LoopStep, Instances
<1>3. QED BY <1>1, <1>2

-------------------------------------------------------------------------------
(* Start-up *)

LEMMA ParseConfigTyped == TypeInv /\ ParseConfig => TypeInv'
<1> SUFFICES ASSUME TypeInv, ParseConfig PROVE TypeInv'
  OBVIOUS
<1>0. /\ main.phase = "parse" /\ main.i \in Instances /\ 1 \in 1..(NumInstances + 1)
  BY SomeInstances DEF ParseConfig, TypeInv, MainOK, StartPhase, Instances
<1>1. PipesOK'
  BY <1>0 DEF ParseConfig, TypeInv, PipesOK
<1>2. CallOK' /\ UNCHANGED <<interrupt_timer, cintr, g_quit, loop_running, asked, windows,
                             is_paused, messages, commands, recreates, quit>>
  BY DEF ParseConfig, window_vars, main_loop_vars, TypeInv, CallOK
<1>3. CASE Proceed("parse", "create")
           /\ UNCHANGED <<status, failures, g_return_value, failed>>
  <2>1. MainOK'
    BY <1>0, <1>3, NextStart DEF TypeInv, StartPhase
  <2>2. VerdictOK' /\ LoopOK' /\ EnvOK'
    BY <1>2, <1>3 DEF TypeInv, VerdictOK, LoopOK, EnvOK
  <2>3. QED BY <1>1, <1>2, <2>1, <2>2 DEF TypeInv
<1>4. CASE /\ Fails
           /\ status' = [status EXCEPT ![main.i] = -1]
           /\ failed' = [failed EXCEPT ![main.i] = TRUE]
           /\ ComesNext(1, g_return_value)
  <2>1. MainOK' /\ g_return_value' \in {-1, 0}
    BY <1>0, <1>4, NextInstance DEF TypeInv, LoopOK
  <2>2. VerdictOK'
    BY <1>2, <1>4 DEF TypeInv, VerdictOK
  <2>3. LoopOK' /\ EnvOK'
    BY <1>2, <1>4, <2>1 DEF TypeInv, LoopOK, EnvOK, Fails
  <2>4. QED BY <1>1, <1>2, <2>1, <2>2, <2>3 DEF TypeInv
<1>5. QED BY <1>3, <1>4 DEF ParseConfig

\* What a step that fails leaves of the types.
LEMMA StartFailsTyped ==
  ASSUME TypeInv, NEW i \in Instances, StartFails(i)
  PROVE  /\ MainOK' /\ g_return_value' \in {-1, 0}
         /\ failed' \in [Instances -> BOOLEAN] /\ failures' \in Nat
<1>1. MainOK' /\ g_return_value' \in {-1, 0}
  BY SomeInstances, NextInstance DEF StartFails
<1>2. failed' \in [Instances -> BOOLEAN] /\ failures' \in Nat
  BY DEF StartFails, Fails, TypeInv, VerdictOK, EnvOK
<1>3. QED BY <1>1, <1>2

LEMMA CreatedTyped ==
  ASSUME TypeInv, NEW i, Created(i)
  PROVE  /\ pipeline' \in [Instances -> PipelineState]
         /\ bus' \in [Instances -> Seq(Message)]
         /\ bus_watched' \in [Instances -> BOOLEAN]
<1>1. pipeline' \in [Instances -> PipelineState]
  BY DEF Created, TypeInv, PipesOK, PipelineState
<1>2. bus' \in [Instances -> Seq(Message)]
  <2>1. <<>> \in Seq(Message)
    OBVIOUS
  <2>2. QED BY <2>1 DEF Created, TypeInv, PipesOK
<1>3. bus_watched' \in [Instances -> BOOLEAN]
  BY DEF Created, TypeInv, PipesOK
<1>4. QED BY <1>1, <1>2, <1>3

LEMMA CreatePipelineTyped == TypeInv /\ CreatePipeline => TypeInv'
<1> SUFFICES ASSUME TypeInv, CreatePipeline PROVE TypeInv'
  OBVIOUS
<1>0. main.phase = "create" /\ main.i \in Instances
  BY SomeInstances DEF CreatePipeline, TypeInv, MainOK, StartPhase, Instances
<1>1. /\ pipeline' \in [Instances -> PipelineState]
      /\ bus' \in [Instances -> Seq(Message)]
      /\ bus_watched' \in [Instances -> BOOLEAN]
  BY CreatedTyped DEF CreatePipeline
<1>2. CallOK' /\ UNCHANGED <<contexts, recreate_timer, quit, status, cintr, g_quit, loop_running,
                             asked, windows, is_paused, messages, commands, recreates>>
  BY DEF CreatePipeline, window_vars, TypeInv, CallOK
<1>3. CASE /\ bins_known' = [bins_known EXCEPT ![main.i] = TRUE]
           /\ Proceed("create", "prepare")
           /\ interrupt_timer' = (main.i = NumInstances)
           /\ UNCHANGED <<failures, failed, g_return_value>>
  <2>1. MainOK'
    BY <1>0, <1>3, NextStart DEF TypeInv, StartPhase
  <2>2. PipesOK'
    BY <1>1, <1>2, <1>3 DEF TypeInv, PipesOK
  <2>3. VerdictOK' /\ LoopOK' /\ EnvOK'
    BY <1>2, <1>3 DEF TypeInv, VerdictOK, LoopOK, EnvOK
  <2>4. QED BY <1>2, <2>1, <2>2, <2>3 DEF TypeInv
<1>4. CASE StartFails(main.i) /\ UNCHANGED <<bins_known, interrupt_timer>>
  <2>1. /\ MainOK' /\ g_return_value' \in {-1, 0}
        /\ failed' \in [Instances -> BOOLEAN] /\ failures' \in Nat
    BY <1>0, <1>4, StartFailsTyped
  <2>2. PipesOK'
    BY <1>1, <1>2, <1>4 DEF TypeInv, PipesOK
  <2>3. VerdictOK' /\ LoopOK' /\ EnvOK'
    BY <1>2, <1>4, <2>1 DEF TypeInv, VerdictOK, LoopOK, EnvOK
  <2>4. QED BY <1>2, <2>1, <2>2, <2>3 DEF TypeInv
<1>5. QED BY <1>3, <1>4 DEF CreatePipeline

LEMMA PreparePipelineTyped == TypeInv /\ PreparePipeline => TypeInv'
<1> SUFFICES ASSUME TypeInv, PreparePipeline PROVE TypeInv'
  OBVIOUS
<1>0. main.phase = "prepare" /\ main.i \in Instances
  BY SomeInstances DEF PreparePipeline, TypeInv, MainOK, StartPhase, Instances
<1>2. CallOK' /\ UNCHANGED <<bins_known, bus, bus_watched, recreate_timer, quit, interrupt_timer,
                             cintr, g_quit, loop_running, asked, is_paused, messages,
                             commands, recreates, contexts, status>>
  BY DEF PreparePipeline, main_loop_vars, TypeInv, CallOK
<1>3. CASE /\ pipeline' = [pipeline EXCEPT ![main.i] = "PAUSED"]
           /\ windows' = TRUE
           /\ Proceed("prepare", "start")
           /\ UNCHANGED <<failures, failed, g_return_value>>
  <2>1. MainOK'
    BY <1>0, <1>3, NextStart DEF TypeInv, StartPhase
  <2>2. PipesOK'
    BY <1>2, <1>3 DEF TypeInv, PipesOK, PipelineState
  <2>3. VerdictOK' /\ LoopOK' /\ EnvOK'
    BY <1>2, <1>3 DEF TypeInv, VerdictOK, LoopOK, EnvOK
  <2>4. QED BY <1>2, <2>1, <2>2, <2>3 DEF TypeInv
<1>4. CASE StartFails(main.i) /\ UNCHANGED <<pipeline, windows>>
  <2>1. /\ MainOK' /\ g_return_value' \in {-1, 0}
        /\ failed' \in [Instances -> BOOLEAN] /\ failures' \in Nat
    BY <1>0, <1>4, StartFailsTyped
  <2>2. PipesOK'
    BY <1>2, <1>4 DEF TypeInv, PipesOK
  <2>3. VerdictOK' /\ LoopOK' /\ EnvOK'
    BY <1>2, <1>4, <2>1 DEF TypeInv, VerdictOK, LoopOK, EnvOK
  <2>4. QED BY <1>2, <2>1, <2>2, <2>3 DEF TypeInv
<1>5. QED BY <1>3, <1>4 DEF PreparePipeline

LEMMA StartPipelineTyped == TypeInv /\ StartPipeline => TypeInv'
<1> SUFFICES ASSUME TypeInv, StartPipeline PROVE TypeInv'
  OBVIOUS
<1>0. main.phase = "start" /\ main.i \in Instances
  BY SomeInstances DEF StartPipeline, TypeInv, MainOK, StartPhase, Instances
<1>2. CallOK' /\ UNCHANGED <<bins_known, bus, bus_watched, quit, interrupt_timer,
                             cintr, g_quit, asked, windows, is_paused, messages,
                             commands, recreates, contexts, status>>
  BY DEF StartPipeline, window_vars, TypeInv, CallOK
<1>3. CASE /\ pipeline' = [pipeline EXCEPT ![main.i] = "PLAYING"]
           /\ recreate_timer' = [recreate_timer EXCEPT ![main.i] = main.i \in Recreated]
           /\ Proceed("start", "run")
           /\ loop_running' = (main.i = NumInstances)
           /\ UNCHANGED <<failures, failed, g_return_value>>
  <2>1. MainOK'
    BY <1>0, <1>3, NextStart DEF TypeInv, StartPhase
  <2>2. PipesOK'
    <3>1. pipeline' \in [Instances -> PipelineState]
      BY <1>3 DEF TypeInv, PipesOK, PipelineState
    <3>2. recreate_timer' \in [Instances -> BOOLEAN]
      <4>1. (main.i \in Recreated) \in BOOLEAN
        OBVIOUS
      <4>2. QED BY <1>3, <4>1 DEF TypeInv, PipesOK
    <3>3. QED BY <1>2, <3>1, <3>2 DEF TypeInv, PipesOK
  <2>3. VerdictOK' /\ LoopOK' /\ EnvOK'
    BY <1>2, <1>3 DEF TypeInv, VerdictOK, LoopOK, EnvOK
  <2>4. QED BY <1>2, <2>1, <2>2, <2>3 DEF TypeInv
<1>4. CASE StartFails(main.i) /\ UNCHANGED <<pipeline, recreate_timer, loop_running>>
  <2>1. /\ MainOK' /\ g_return_value' \in {-1, 0}
        /\ failed' \in [Instances -> BOOLEAN] /\ failures' \in Nat
    BY <1>0, <1>4, StartFailsTyped
  <2>2. PipesOK'
    BY <1>2, <1>4 DEF TypeInv, PipesOK
  <2>3. VerdictOK' /\ LoopOK' /\ EnvOK'
    BY <1>2, <1>4, <2>1 DEF TypeInv, VerdictOK, LoopOK, EnvOK
  <2>4. QED BY <1>2, <2>1, <2>2, <2>3 DEF TypeInv
<1>5. QED BY <1>3, <1>4 DEF StartPipeline

-------------------------------------------------------------------------------
(* Messages and the callbacks of the main loop *)

LEMMA PostTyped ==
  ASSUME TypeInv, NEW i \in Instances, NEW m \in Message, Post(i, m)
  PROVE  TypeInv'
<1>1. bus' \in [Instances -> Seq(Message)]
  BY DEF Post, TypeInv, PipesOK
<1>2. messages' \in Nat
  BY DEF Post, TypeInv, EnvOK
<1>3. UNCHANGED <<main, contexts, pipeline, bins_known, bus_watched, recreate_timer, quit, status,
                  failed, g_return_value, interrupt_timer, cintr, g_quit, loop_running,
                  asked, windows, is_paused, call, commands, recreates, failures>>
  BY DEF Post, main_loop_vars, window_vars, history_vars
<1>4. MainOK' /\ VerdictOK' /\ LoopOK' /\ CallOK'
  BY <1>3 DEF TypeInv, MainOK, VerdictOK, LoopOK, CallOK
<1>5. PipesOK' /\ EnvOK'
  BY <1>1, <1>2, <1>3 DEF TypeInv, PipesOK, EnvOK
<1>6. QED BY <1>4, <1>5 DEF TypeInv

\* The callbacks and the user's commands that only touch the flags of the loop.
OnlyFlags ==
  /\ UNCHANGED <<main, instance_vars, g_return_value, window_vars, env_vars, failed>>
  /\ interrupt_timer' \in {interrupt_timer, FALSE}
  /\ cintr' \in BOOLEAN
  /\ <<g_quit', loop_running'>> \in {<<g_quit, loop_running>>, <<TRUE, FALSE>>}
  /\ asked' \in {asked, TRUE}

LEMMA OnlyFlagsTyped == TypeInv /\ OnlyFlags => TypeInv'
<1> SUFFICES ASSUME TypeInv, OnlyFlags PROVE TypeInv'
  OBVIOUS
<1>1. MainOK' /\ PipesOK' /\ VerdictOK'
  BY DEF OnlyFlags, instance_vars, TypeInv, MainOK, PipesOK, VerdictOK
<1>2. CallOK' /\ EnvOK'
  BY DEF OnlyFlags, window_vars, env_vars, TypeInv, CallOK, EnvOK
<1>3. LoopOK'
  BY DEF OnlyFlags, window_vars, TypeInv, LoopOK
<1>4. QED BY <1>1, <1>2, <1>3 DEF TypeInv

LEMMA FlagActions ==
  ASSUME TypeInv,
         \/ PollInstances \/ KeyQuits \/ Interrupt \/ CheckForInterrupt \/ WindowQuits
  PROVE  OnlyFlags
<1>1. CASE PollInstances
  BY <1>1 DEF PollInstances, QuitLoop, history_vars, OnlyFlags, TypeInv, LoopOK
<1>2. CASE KeyQuits
  BY <1>2 DEF KeyQuits, QuitLoop, OnlyFlags, TypeInv, LoopOK
<1>3. CASE Interrupt
  BY <1>3 DEF Interrupt, OnlyFlags, TypeInv, LoopOK
<1>4. CASE CheckForInterrupt
  BY <1>4 DEF CheckForInterrupt, QuitLoop, history_vars, OnlyFlags, TypeInv, LoopOK
<1>5. CASE WindowQuits
  BY <1>5 DEF WindowQuits, QuitLoop, OnlyFlags, TypeInv, LoopOK
<1>6. QED BY <1>1, <1>2, <1>3, <1>4, <1>5

LEMMA LeaveLoopTyped == TypeInv /\ LeaveLoop => TypeInv'
<1> SUFFICES ASSUME TypeInv, LeaveLoop PROVE TypeInv'
  OBVIOUS
<1>1. 1 \in 1..(NumInstances + 1)
  BY SomeInstances
<1>2. MainOK' /\ g_return_value' \in {-1, 0}
  BY <1>1, NextInstance DEF LeaveLoop, TypeInv, LoopOK
<1>3. PipesOK' /\ VerdictOK'
  BY DEF LeaveLoop, instance_vars, history_vars, TypeInv, PipesOK, VerdictOK
<1>4. CallOK' /\ EnvOK'
  BY DEF LeaveLoop, window_vars, env_vars, TypeInv, CallOK, EnvOK
<1>5. LoopOK'
  BY <1>2 DEF LeaveLoop, main_loop_vars, window_vars, history_vars, TypeInv, LoopOK
<1>6. QED BY <1>2, <1>3, <1>4, <1>5 DEF TypeInv

LEMMA VerdictTyped ==
  ASSUME TypeInv, NEW i \in Instances, NEW m \in Message, NEW known
  PROVE  Verdict(i, m, known).quit \in BOOLEAN /\ Verdict(i, m, known).status \in {-1, 0}
BY DEF Verdict, Message, TypeInv, VerdictOK

LEMMA BusCallbackTyped ==
  ASSUME TypeInv, NEW i \in Instances, BusCallback(i)
  PROVE  TypeInv'
<1>1. Head(bus[i]) \in Message /\ Tail(bus[i]) \in Seq(Message)
  BY DEF BusCallback, TypeInv, PipesOK
<1>2. bus' \in [Instances -> Seq(Message)] /\ bus_watched' \in [Instances -> BOOLEAN]
  BY <1>1 DEF BusCallback, TypeInv, PipesOK
<1>3. quit' \in [Instances -> BOOLEAN] /\ status' \in [Instances -> {-1, 0}]
  BY <1>1, VerdictTyped DEF BusCallback, TypeInv, VerdictOK
<1>4. failed' \in [Instances -> BOOLEAN]
  BY DEF BusCallback, TypeInv, VerdictOK
<1>5. UNCHANGED <<main, contexts, pipeline, bins_known, recreate_timer, g_return_value,
                  interrupt_timer, cintr, g_quit, loop_running, asked, windows, is_paused,
                  call, messages, commands, recreates, failures>>
  BY DEF BusCallback, main_loop_vars, window_vars, env_vars
<1>6. MainOK' /\ LoopOK' /\ CallOK' /\ EnvOK'
  BY <1>5 DEF TypeInv, MainOK, LoopOK, CallOK, EnvOK
<1>7. PipesOK' /\ VerdictOK'
  BY <1>2, <1>3, <1>4, <1>5 DEF TypeInv, PipesOK, VerdictOK
<1>8. QED BY <1>6, <1>7 DEF TypeInv

-------------------------------------------------------------------------------
(* destroy_pipeline and the recreation *)

LEMMA DrainTyped ==
  ASSUME TypeInv, NEW i \in Instances, DrainBus(i)
  PROVE  VerdictOK' /\ bus' \in [Instances -> Seq(Message)]
<1>1. failed' \in [Instances -> BOOLEAN]
  BY DEF DrainBus, TypeInv, VerdictOK
<1>2. bus' \in [Instances -> Seq(Message)]
  <2>1. <<>> \in Seq(Message)
    OBVIOUS
  <2>2. QED BY <2>1 DEF DrainBus, TypeInv, PipesOK
<1>3. CASE UNCHANGED <<quit, status>>
  BY <1>1, <1>2, <1>3 DEF TypeInv, VerdictOK
<1>4. ASSUME NEW last \in 1..Len(bus[i]),
             quit' = [quit EXCEPT ![i] = Verdict(i, bus[i][last], FALSE).quit],
             status' = [status EXCEPT ![i] = Verdict(i, bus[i][last], FALSE).status]
      PROVE  VerdictOK'
  <2>1. bus[i][last] \in Message
    BY DEF TypeInv, PipesOK
  <2>2. /\ Verdict(i, bus[i][last], FALSE).quit \in BOOLEAN
        /\ Verdict(i, bus[i][last], FALSE).status \in {-1, 0}
    BY <2>1, VerdictTyped
  <2>3. quit' \in [Instances -> BOOLEAN] /\ status' \in [Instances -> {-1, 0}]
    BY <1>4, <2>2 DEF TypeInv, VerdictOK
  <2>4. QED BY <1>1, <2>3 DEF VerdictOK
<1>5. QED BY <1>2, <1>3, <1>4 DEF DrainBus

LEMMA SilenceTyped == TypeInv /\ Silence => TypeInv'
<1> SUFFICES ASSUME TypeInv, Silence PROVE TypeInv'
  OBVIOUS
<1>0. main.i \in Instances /\ main.phase \in {"run", "quit"}
  BY SomeInstances DEF Silence, TypeInv, MainOK, StartPhase, Instances
<1>1. MainOK'
  BY <1>0 DEF Silence, TypeInv, MainOK, StartPhase, LoopStep
<1>2. UNCHANGED <<contexts, bus_watched, recreate_timer, g_return_value, interrupt_timer,
                  cintr, g_quit, loop_running, asked, windows, is_paused, call, messages,
                  commands, recreates, failures>>
  BY DEF Silence, main_loop_vars, window_vars, env_vars
<1>3. CASE UNCHANGED <<pipeline, bins_known, quit, status, failed, bus>>
  BY <1>1, <1>2, <1>3 DEF TypeInv, PipesOK, VerdictOK, LoopOK, CallOK, EnvOK
<1>4. CASE /\ pipeline' = [pipeline EXCEPT ![main.i] = "NULL"]
           /\ bins_known' = [bins_known EXCEPT ![main.i] = FALSE]
           /\ DrainBus(main.i)
  <2>1. VerdictOK' /\ bus' \in [Instances -> Seq(Message)]
    BY <1>0, <1>4, DrainTyped
  <2>2. PipesOK'
    BY <1>2, <1>4, <2>1 DEF TypeInv, PipesOK, PipelineState
  <2>3. LoopOK' /\ CallOK' /\ EnvOK'
    BY <1>2 DEF TypeInv, LoopOK, CallOK, EnvOK
  <2>4. QED BY <1>1, <2>1, <2>2, <2>3 DEF TypeInv
<1>5. QED BY <1>3, <1>4 DEF Silence

LEMMA DisposeTyped == TypeInv /\ Dispose => TypeInv'
<1> SUFFICES ASSUME TypeInv, Dispose PROVE TypeInv'
  OBVIOUS
<1>0. main.i \in Instances /\ NumInstances \in Nat
  BY SomeInstances DEF Dispose, TypeInv, MainOK, StartPhase, Instances
<1>1. pipeline' \in [Instances -> PipelineState] /\ bus_watched' \in [Instances -> BOOLEAN]
  BY DEF Dispose, TypeInv, PipesOK, PipelineState
<1>2. bus' \in [Instances -> Seq(Message)]
  <2>1. <<>> \in Seq(Message)
    OBVIOUS
  <2>2. QED BY <2>1 DEF Dispose, TypeInv, PipesOK
<1>3. UNCHANGED <<contexts, bins_known, recreate_timer, quit, status, failed,
                  interrupt_timer, cintr, g_quit, loop_running, asked, windows, is_paused,
                  call, messages, commands, recreates, failures>>
  BY DEF Dispose, main_loop_vars, window_vars, env_vars, history_vars
<1>4. MainOK' /\ g_return_value' \in {-1, 0}
  <2>1. CASE main.phase = "run" /\ main' = [main EXCEPT !.step = "rebuild"]
             /\ UNCHANGED g_return_value
    BY <1>0, <2>1 DEF TypeInv, MainOK, LoopOK, StartPhase, LoopStep
  <2>2. CASE ComesNext(main.i + 1, g_return_value)
    <3>1. main.i + 1 \in 1..(NumInstances + 1) /\ g_return_value \in {-1, 0}
      BY <1>0 DEF Instances, TypeInv, LoopOK
    <3>2. QED BY <2>2, <3>1, NextInstance
  <2>3. QED BY <2>1, <2>2 DEF Dispose
<1>5. PipesOK' /\ VerdictOK'
  BY <1>1, <1>2, <1>3 DEF TypeInv, PipesOK, VerdictOK
<1>6. LoopOK' /\ CallOK' /\ EnvOK'
  BY <1>3, <1>4 DEF TypeInv, LoopOK, CallOK, EnvOK
<1>7. QED BY <1>4, <1>5, <1>6 DEF TypeInv

LEMMA RecreateTyped ==
  ASSUME TypeInv, NEW i \in Instances, Recreate(i)
  PROVE  TypeInv'
<1>1. MainOK'
  BY SomeInstances DEF Recreate, At, MainOK, StartPhase, LoopStep, Instances
<1>2. EnvOK'
  BY DEF Recreate, TypeInv, EnvOK
<1>3. PipesOK' /\ VerdictOK'
  BY DEF Recreate, instance_vars, history_vars, TypeInv, PipesOK, VerdictOK
<1>4. LoopOK' /\ CallOK'
  BY DEF Recreate, main_loop_vars, window_vars, history_vars, TypeInv, LoopOK, CallOK
<1>5. QED BY <1>1, <1>2, <1>3, <1>4 DEF TypeInv

\* The recreation is a callback of the main loop.
LEMMA RecreatingStep ==
  ASSUME TypeInv, main.step \in {"rebuild", "preroll", "play"}
  PROVE  main.phase = "run" /\ main.i \in Instances
BY SomeInstances DEF TypeInv, MainOK, StartPhase, Instances

\* The main thread goes on with the recreation, or back to the loop.
LEMMA RecreatingMain ==
  ASSUME TypeInv, main.step \in {"rebuild", "preroll", "play"},
         \/ main' = [main EXCEPT !.step = "preroll"]
         \/ main' = [main EXCEPT !.step = "play"]
         \/ main' = At("run", 1, "idle")
  PROVE  MainOK' /\ main'.phase = "run"
<1>0. main.phase = "run" /\ main.i <= NumInstances
  BY RecreatingStep, SomeInstances DEF TypeInv, MainOK
<1>1. CASE main' = At("run", 1, "idle")
  BY <1>1, SomeInstances DEF At, MainOK, StartPhase, LoopStep, Instances
<1>2. CASE \/ main' = [main EXCEPT !.step = "preroll"]
           \/ main' = [main EXCEPT !.step = "play"]
  BY <1>0, <1>2 DEF TypeInv, MainOK, StartPhase, LoopStep
<1>3. QED BY <1>1, <1>2

LEMMA RecreateFailsTyped ==
  ASSUME TypeInv, NEW i \in Instances, RecreateFails(i)
  PROVE  /\ failed' \in [Instances -> BOOLEAN] /\ failures' \in Nat
         /\ g_return_value' \in {-1, 0} /\ main' = At("run", 1, "idle")
         /\ recreate_timer' \in [Instances -> BOOLEAN]
BY DEF RecreateFails, Fails, TypeInv, VerdictOK, EnvOK, PipesOK

LEMMA RebuildTyped == TypeInv /\ Rebuild => TypeInv'
<1> SUFFICES ASSUME TypeInv, Rebuild PROVE TypeInv'
  OBVIOUS
<1>0. main.i \in Instances /\ main.step \in {"rebuild", "preroll", "play"}
  BY RecreatingStep DEF Rebuild
<1>1. /\ pipeline' \in [Instances -> PipelineState]
      /\ bus' \in [Instances -> Seq(Message)]
      /\ bus_watched' \in [Instances -> BOOLEAN]
  BY CreatedTyped DEF Rebuild
<1>2. UNCHANGED <<contexts, quit, status, interrupt_timer, cintr, g_quit, loop_running,
                  windows, is_paused, call, messages, commands, recreates, asked>>
  BY DEF Rebuild, main_loop_vars, window_vars
<1>3. CASE /\ bins_known' = [bins_known EXCEPT ![main.i] = TRUE]
           /\ main' = [main EXCEPT !.step = "preroll"]
           /\ UNCHANGED <<failures, failed, g_return_value, recreate_timer>>
  <2>1. MainOK'
    BY <1>0, <1>3, RecreatingMain
  <2>2. PipesOK' /\ VerdictOK'
    BY <1>1, <1>2, <1>3 DEF TypeInv, PipesOK, VerdictOK
  <2>3. LoopOK' /\ CallOK' /\ EnvOK'
    BY <1>2, <1>3 DEF TypeInv, LoopOK, CallOK, EnvOK
  <2>4. QED BY <2>1, <2>2, <2>3 DEF TypeInv
<1>4. CASE RecreateFails(main.i) /\ UNCHANGED bins_known
  <2>1. MainOK'
    BY <1>0, <1>4, RecreateFailsTyped, RecreatingMain
  <2>2. PipesOK' /\ VerdictOK'
    BY <1>0, <1>1, <1>2, <1>4, RecreateFailsTyped DEF TypeInv, PipesOK, VerdictOK
  <2>3. LoopOK' /\ CallOK' /\ EnvOK'
    BY <1>0, <1>2, <1>4, RecreateFailsTyped DEF TypeInv, LoopOK, CallOK, EnvOK
  <2>4. QED BY <2>1, <2>2, <2>3 DEF TypeInv
<1>5. QED BY <1>3, <1>4 DEF Rebuild

LEMMA RunAgainTyped ==
  ASSUME TypeInv, Preroll \/ Play
  PROVE  TypeInv'
<1>0. main.i \in Instances /\ main.step \in {"rebuild", "preroll", "play"}
  BY RecreatingStep DEF Preroll, Play, RunAgain
<1>1. UNCHANGED <<contexts, bins_known, bus, bus_watched, quit, status, interrupt_timer,
                  cintr, g_quit, loop_running, windows, is_paused, call, messages,
                  commands, recreates, asked>>
  BY DEF Preroll, Play, RunAgain, main_loop_vars, window_vars
<1>2. CASE /\ \/ pipeline' = [pipeline EXCEPT ![main.i] = "PAUSED"]
              \/ pipeline' = [pipeline EXCEPT ![main.i] = "PLAYING"]
           /\ main' = [main EXCEPT !.step = "play"] \/ main' = At("run", 1, "idle")
           /\ UNCHANGED <<failures, failed, g_return_value, recreate_timer>>
  <2>1. MainOK'
    BY <1>0, <1>2, RecreatingMain
  <2>2. PipesOK' /\ VerdictOK'
    BY <1>1, <1>2 DEF TypeInv, PipesOK, VerdictOK, PipelineState
  <2>3. LoopOK' /\ CallOK' /\ EnvOK'
    BY <1>1, <1>2 DEF TypeInv, LoopOK, CallOK, EnvOK
  <2>4. QED BY <2>1, <2>2, <2>3 DEF TypeInv
<1>3. CASE RecreateFails(main.i) /\ UNCHANGED pipeline
  <2>1. MainOK'
    BY <1>0, <1>3, RecreateFailsTyped, RecreatingMain
  <2>2. PipesOK' /\ VerdictOK'
    BY <1>0, <1>1, <1>3, RecreateFailsTyped DEF TypeInv, PipesOK, VerdictOK
  <2>3. LoopOK' /\ CallOK' /\ EnvOK'
    BY <1>0, <1>1, <1>3, RecreateFailsTyped DEF TypeInv, LoopOK, CallOK, EnvOK
  <2>4. QED BY <2>1, <2>2, <2>3 DEF TypeInv
<1>4. QED BY <1>2, <1>3 DEF Preroll, Play, RunAgain

-------------------------------------------------------------------------------
(* The pauses and resumes *)

LEMMA BeginTyped ==
  ASSUME TypeInv, NEW t \in Threads, NEW op \in {"pause", "resume"}, Begin(t, op)
  PROVE  CallOK' /\ commands' \in Nat
<1>1. commands' \in Nat
  BY DEF Begin, TypeInv, EnvOK
<1>2. CallOK'
  BY SomeInstances DEF Begin, TypeInv, CallOK
<1>3. QED BY <1>1, <1>2

LEMMA CommandTyped ==
  ASSUME TypeInv,
         SpaceBar \/ \E op \in {"pause", "resume"} : ConsoleKey(op)
  PROVE  TypeInv'
<1>1. CallOK' /\ commands' \in Nat
  <2>1. CASE SpaceBar
    BY <2>1, BeginTyped DEF SpaceBar, Threads
  <2>2. ASSUME NEW op \in {"pause", "resume"}, ConsoleKey(op)
        PROVE  CallOK' /\ commands' \in Nat
    BY <2>2, BeginTyped DEF ConsoleKey, Threads
  <2>3. QED BY <2>1, <2>2
<1>2. UNCHANGED <<main, instance_vars, g_return_value, main_loop_vars, windows,
                  is_paused, messages, recreates, failures, history_vars>>
  BY DEF SpaceBar, ConsoleKey
<1>3. MainOK' /\ PipesOK' /\ VerdictOK'
  BY <1>2 DEF instance_vars, history_vars, TypeInv, MainOK, PipesOK, VerdictOK
<1>4. LoopOK' /\ EnvOK'
  BY <1>1, <1>2 DEF main_loop_vars, history_vars, TypeInv, LoopOK, EnvOK
<1>5. QED BY <1>1, <1>3, <1>4 DEF TypeInv

LEMMA ReadStateTyped ==
  ASSUME TypeInv, NEW t \in Threads, ReadState(t)
  PROVE  TypeInv'
<1>1. CallOK'
  BY DEF ReadState, TypeInv, CallOK
<1>2. MainOK' /\ PipesOK' /\ VerdictOK'
  BY DEF ReadState, instance_vars, history_vars, TypeInv, MainOK, PipesOK, VerdictOK
<1>3. LoopOK' /\ EnvOK'
  BY DEF ReadState, main_loop_vars, env_vars, history_vars, TypeInv, LoopOK, EnvOK
<1>4. QED BY <1>1, <1>2, <1>3 DEF TypeInv

LEMMA SetStateTyped ==
  ASSUME TypeInv, NEW t \in Threads, SetState(t)
  PROVE  TypeInv'
<1>0. NumInstances \in Nat /\ call[t].at \in Instances
  BY SomeInstances DEF TypeInv, CallOK
<1>1. CallOK'
  <2>1. CASE call' = [call EXCEPT ![t] = Idle]
    BY <2>1, SomeInstances DEF Idle, TypeInv, CallOK
  <2>2. CASE /\ call[t].at # NumInstances
             /\ call' = [call EXCEPT ![t] = [call[t] EXCEPT !.at = @ + 1, !.cur = "unread"]]
    <3>1. call[t].at + 1 \in Instances
      BY <1>0, <2>2 DEF Instances
    <3>2. [call[t] EXCEPT !.at = @ + 1, !.cur = "unread"]
            \in [op : {"idle", "pause", "resume"}, at : Instances,
                 cur : PipelineState \cup {"unread", "async"}]
      BY <3>1 DEF TypeInv, CallOK
    <3>3. QED BY <2>2, <3>2 DEF TypeInv, CallOK
  <2>3. QED BY <2>1, <2>2 DEF SetState
<1>2. pipeline' \in [Instances -> PipelineState]
  BY DEF SetState, TypeInv, PipesOK, PipelineState
<1>3. is_paused' \in BOOLEAN
  <2>1. (call[t].op = "pause") \in BOOLEAN
    OBVIOUS
  <2>2. QED BY <2>1 DEF SetState, TypeInv, LoopOK
<1>4. UNCHANGED <<main, contexts, bins_known, bus, bus_watched, recreate_timer, quit, status,
                  failed, g_return_value, interrupt_timer, cintr, g_quit, loop_running,
                  asked, windows, messages, commands, recreates, failures>>
  BY DEF SetState, main_loop_vars, env_vars
<1>5. MainOK' /\ VerdictOK' /\ EnvOK'
  BY <1>4 DEF TypeInv, MainOK, VerdictOK, EnvOK
<1>6. PipesOK' /\ LoopOK'
  BY <1>2, <1>3, <1>4 DEF TypeInv, PipesOK, LoopOK
<1>7. QED BY <1>1, <1>5, <1>6 DEF TypeInv

-------------------------------------------------------------------------------
LEMMA StutterTyped == TypeInv /\ UNCHANGED vars => TypeInv'
<1> SUFFICES ASSUME TypeInv, UNCHANGED vars PROVE TypeInv'
  OBVIOUS
<1>1. MainOK' /\ PipesOK' /\ VerdictOK'
  BY DEF vars, instance_vars, history_vars, TypeInv, MainOK, PipesOK, VerdictOK
<1>2. LoopOK' /\ CallOK' /\ EnvOK'
  BY DEF vars, main_loop_vars, window_vars, env_vars, history_vars, TypeInv, LoopOK,
         CallOK, EnvOK
<1>3. QED BY <1>1, <1>2 DEF TypeInv

LEMMA TypeNext == TypeInv /\ [Next]_vars => TypeInv'
<1> SUFFICES ASSUME TypeInv, [Next]_vars PROVE TypeInv'
  OBVIOUS
<1>1. CASE StartUp
  BY <1>1, ParseConfigTyped, CreatePipelineTyped, PreparePipelineTyped,
     StartPipelineTyped DEF StartUp
<1>2. CASE TearDown
  BY <1>2, SilenceTyped, DisposeTyped DEF TearDown
<1>3. CASE Rebuilds
  BY <1>3, RebuildTyped, RunAgainTyped DEF Rebuilds
<1>4. CASE Callbacks
  BY <1>4, FlagActions, OnlyFlagsTyped, LeaveLoopTyped, BusCallbackTyped DEF Callbacks
<1>5. ASSUME NEW i \in Instances,
             Recreate(i) \/ \E m \in {"source_error", "error", "attempts", "eos"} : Post(i, m)
      PROVE  TypeInv'
  BY <1>5, RecreateTyped, PostTyped DEF Message
<1>6. CASE Interrupt \/ KeyQuits \/ WindowQuits
  BY <1>6, FlagActions, OnlyFlagsTyped
<1>7. CASE SpaceBar \/ \E op \in {"pause", "resume"} : ConsoleKey(op)
  BY <1>7, CommandTyped
<1>8. ASSUME NEW t \in Threads, ReadState(t) \/ SetState(t)
      PROVE  TypeInv'
  BY <1>8, ReadStateTyped, SetStateTyped
<1>9. QED BY <1>1, <1>2, <1>3, <1>4, <1>5, <1>6, <1>7, <1>8, StutterTyped DEF Next

\* Every reachable state of the program is well typed, with the main thread where its
\* phase can be (main, destroy_pipeline, recreate_pipeline_thread_func).
THEOREM TypeCorrect == Spec => []TypeOK
BY TypeInit, TypeNext, TypeInvType, PTL DEF Spec

-------------------------------------------------------------------------------
(* The main loop is left for a reason *)

LeaveInv == LeavesForAReason /\ (cintr => asked)

\* A verdict never takes a quit back.
LEMMA QuitStays ==
  ASSUME TypeInv, NEW i \in Instances, NEW m, NEW known,
         quit' = [quit EXCEPT ![i] = Verdict(i, m, known).quit],
         NEW j \in Instances, quit[j]
  PROVE  quit'[j]
<1>1. CASE j = i
  <2>1. quit'[j] = Verdict(i, m, known).quit
    BY <1>1 DEF TypeInv, VerdictOK
  <2>2. Verdict(i, m, known).quit = quit[i] \/ Verdict(i, m, known).quit = TRUE
    BY DEF Verdict
  <2>3. QED BY <1>1, <2>1, <2>2
<1>2. CASE j # i
  <2>1. quit'[j] = quit[j]
    BY <1>2 DEF TypeInv, VerdictOK
  <2>2. QED BY <2>1
<1>3. QED BY <1>1, <1>2

LEMMA LeaveKept ==
  ASSUME LeaveInv, UNCHANGED <<loop_running, cintr, asked>>,
         main'.phase = "run" => main.phase = "run",
         \A j \in Instances : quit[j] => quit'[j]
  PROVE  LeaveInv'
BY DEF LeaveInv, LeavesForAReason

LEMMA NotRun ==
  ASSUME LeaveInv, UNCHANGED <<cintr, asked>>, main'.phase # "run"
  PROVE  LeaveInv'
BY DEF LeaveInv, LeavesForAReason

LEMMA StartLeaves == TypeInv /\ LeaveInv /\ StartUp => LeaveInv'
<1> SUFFICES ASSUME TypeInv, LeaveInv, StartUp PROVE LeaveInv'
  OBVIOUS
<1>1. UNCHANGED <<cintr, asked>>
  BY DEF StartUp, ParseConfig, CreatePipeline, PreparePipeline, StartPipeline,
         main_loop_vars
<1>2. 1 \in 1..(NumInstances + 1) /\ -1 \in {-1, 0} /\ g_return_value \in {-1, 0}
  BY SomeInstances DEF TypeInv, LoopOK
<1>3. \A r \in {-1, 0} : ComesNext(1, r) => main'.phase # "run"
  BY <1>2, NextInstance
<1>4. \A i : StartFails(i) => main'.phase # "run"
  BY <1>2, <1>3 DEF StartFails
<1>5. \A p, q : Proceed(p, q) /\ p # "run" /\ q # "run" => main'.phase # "run"
  BY DEF Proceed, At
<1>6. CASE ParseConfig \/ CreatePipeline \/ PreparePipeline
  <2>1. main'.phase # "run"
    BY <1>2, <1>3, <1>4, <1>5, <1>6 DEF ParseConfig, CreatePipeline, PreparePipeline
  <2>2. QED BY <1>1, <2>1, NotRun
<1>7. CASE StartPipeline
  <2>1. CASE StartFails(main.i)
    BY <1>1, <1>4, <2>1, NotRun
  <2>2. CASE Proceed("start", "run") /\ loop_running' = (main.i = NumInstances)
    <3>1. main.i <= NumInstances /\ main.i \in Nat /\ NumInstances \in Nat
      BY <1>7, SomeInstances DEF StartPipeline, TypeInv, MainOK, StartPhase
    <3>2. CASE main.i < NumInstances
      <4>1. main'.phase # "run"
        BY <2>2, <3>2 DEF Proceed, At
      <4>2. QED BY <1>1, <4>1, NotRun
    <3>3. CASE main.i = NumInstances
      <4>1. loop_running'
        BY <2>2, <3>3
      <4>2. QED BY <1>1, <4>1 DEF LeaveInv, LeavesForAReason
    <3>4. QED BY <3>1, <3>2, <3>3
  <2>3. QED BY <1>7, <2>1, <2>2 DEF StartPipeline
<1>8. QED BY <1>6, <1>7 DEF StartUp

LEMMA FlagsLeave ==
  ASSUME TypeInv, LeaveInv,
         \/ PollInstances \/ KeyQuits \/ Interrupt \/ CheckForInterrupt \/ WindowQuits
  PROVE  LeaveInv'
<1>1. CASE PollInstances
  BY <1>1 DEF PollInstances, AllQuit, instance_vars, history_vars, LeaveInv,
              LeavesForAReason
<1>2. CASE KeyQuits \/ Interrupt \/ WindowQuits
  <2>1. asked'
    BY <1>2 DEF KeyQuits, Interrupt, WindowQuits
  <2>2. QED BY <2>1 DEF LeaveInv, LeavesForAReason
<1>3. CASE CheckForInterrupt
  <2>1. UNCHANGED <<main, quit, asked>>
    BY <1>3 DEF CheckForInterrupt, instance_vars, history_vars
  <2>2. CASE UNCHANGED <<cintr, loop_running>>
    BY <2>1, <2>2, LeaveKept
  <2>3. CASE cintr
    <3>1. asked'
      BY <2>1, <2>3 DEF LeaveInv
    <3>2. QED BY <3>1 DEF LeaveInv, LeavesForAReason
  <2>4. QED BY <1>3, <2>2, <2>3 DEF CheckForInterrupt
<1>4. QED BY <1>1, <1>2, <1>3

LEMMA DestroyLeaves == TypeInv /\ LeaveInv /\ TearDown => LeaveInv'
<1> SUFFICES ASSUME TypeInv, LeaveInv, TearDown PROVE LeaveInv'
  OBVIOUS
<1>0. UNCHANGED <<loop_running, cintr, asked>>
  BY DEF TearDown, Silence, Dispose, main_loop_vars, history_vars
<1>1. CASE Silence
  <2>0. main.i \in Instances /\ main'.phase = main.phase
    BY <1>1, SomeInstances
    DEF Silence, TypeInv, MainOK, StartPhase, LoopStep, Instances
  <2>1. ASSUME NEW j \in Instances, quit[j]
        PROVE  quit'[j]
    <3>1. CASE UNCHANGED quit
      BY <2>1, <3>1
    <3>2. ASSUME NEW m, quit' = [quit EXCEPT ![main.i] = Verdict(main.i, m, FALSE).quit]
          PROVE  quit'[j]
      BY <2>0, <2>1, <3>2, QuitStays
    <3>3. QED BY <1>1, <3>1, <3>2 DEF Silence, DrainBus
  <2>2. QED BY <1>0, <2>0, <2>1, LeaveKept
<1>2. CASE Dispose
  <2>1. UNCHANGED quit
    BY <1>2 DEF Dispose
  <2>2. CASE main.phase = "run"
    BY <1>0, <2>1, <2>2, LeaveKept
  <2>3. CASE ComesNext(main.i + 1, g_return_value)
    <3>1. main.i + 1 \in 1..(NumInstances + 1) /\ g_return_value \in {-1, 0}
      BY <1>2, SomeInstances DEF Dispose, TypeInv, MainOK, LoopOK, StartPhase
    <3>2. main'.phase # "run"
      BY <2>3, <3>1, NextInstance
    <3>3. QED BY <1>0, <3>2, NotRun
  <2>4. QED BY <1>2, <2>2, <2>3 DEF Dispose
<1>3. QED BY <1>1, <1>2 DEF TearDown

LEMMA LeaveNext == TypeInv /\ LeaveInv /\ [Next]_vars => LeaveInv'
<1> SUFFICES ASSUME TypeInv, LeaveInv, [Next]_vars PROVE LeaveInv'
  OBVIOUS
<1>1. CASE Rebuilds
  <2>1. main.phase = "run" /\ UNCHANGED <<loop_running, cintr, asked, quit>>
    BY <1>1, RecreatingStep DEF Rebuilds, Rebuild, Preroll, Play, RunAgain, main_loop_vars
  <2>2. QED BY <2>1, LeaveKept
<1>2. CASE LeaveLoop
  <2>1. 1 \in 1..(NumInstances + 1) /\ g_return_value \in {-1, 0}
    BY SomeInstances DEF TypeInv, LoopOK
  <2>2. main'.phase # "run" /\ UNCHANGED <<cintr, asked>>
    BY <1>2, <2>1, NextInstance DEF LeaveLoop, main_loop_vars, history_vars
  <2>3. QED BY <2>2, NotRun
<1>3. ASSUME NEW i \in Instances, BusCallback(i)
      PROVE  LeaveInv'
  <2>1. UNCHANGED <<main, loop_running, cintr, asked>>
    BY <1>3 DEF BusCallback, main_loop_vars
  <2>2. \A j \in Instances : quit[j] => quit'[j]
    BY <1>3, QuitStays DEF BusCallback
  <2>3. QED BY <2>1, <2>2, LeaveKept
<1>4. ASSUME NEW i \in Instances, Recreate(i)
      PROVE  LeaveInv'
  <2>1. main.phase = "run" /\ UNCHANGED <<loop_running, cintr, asked, quit>>
    BY <1>4 DEF Recreate, Dispatching, At, main_loop_vars, instance_vars, history_vars
  <2>2. QED BY <2>1, LeaveKept
<1>5. ASSUME UNCHANGED <<main, loop_running, cintr, asked, quit>>
      PROVE  LeaveInv'
  BY <1>5, LeaveKept
<1>6. ASSUME NEW i \in Instances, NEW m, Post(i, m)
      PROVE  UNCHANGED <<main, loop_running, cintr, asked, quit>>
  BY <1>6 DEF Post, main_loop_vars, history_vars
<1>7. ASSUME SpaceBar \/ \E op \in {"pause", "resume"} : ConsoleKey(op)
      PROVE  UNCHANGED <<main, loop_running, cintr, asked, quit>>
  BY <1>7 DEF SpaceBar, ConsoleKey, main_loop_vars, instance_vars, history_vars
<1>8. ASSUME NEW c \in Threads, ReadState(c) \/ SetState(c)
      PROVE  UNCHANGED <<main, loop_running, cintr, asked, quit>>
  BY <1>8 DEF ReadState, SetState, main_loop_vars, instance_vars, history_vars
<1>9. CASE UNCHANGED vars
  BY <1>5, <1>9 DEF vars, main_loop_vars, instance_vars, history_vars
<1>10. QED
  BY <1>1, <1>2, <1>3, <1>4, <1>5, <1>6, <1>7, <1>8, <1>9, StartLeaves, DestroyLeaves,
     FlagsLeave
  DEF Next, Callbacks

\* The main loop ends only when the user asked or every instance has quit, for any
\* number of instances and whatever their buses say (event_thread_func,
\* check_for_interrupt, bus_callback).
THEOREM AlwaysLeavesForAReason == Spec => []LeavesForAReason
<1>1. Init => LeaveInv
  BY DEF Init, At, LeaveInv, LeavesForAReason
<1>2. LeaveInv => LeavesForAReason
  BY DEF LeaveInv
<1>3. QED BY <1>1, <1>2, TypeInit, TypeNext, LeaveNext, PTL DEF Spec

-------------------------------------------------------------------------------
(* Only a failure makes the exit code a failure *)

\* What is recreated is an instance that has a recreate timer.
RecreatedInv ==
  /\ \A i \in Instances : recreate_timer[i] => i \in Recreated
  /\ main.phase = "run" /\ main.step # "idle" => main.i \in Recreated

\* The errors of cameras come from instances with cameras.
SourceErrorsInv ==
  \A i \in Instances : \A k \in 1..Len(bus[i]) : bus[i][k] = "source_error" => i \in Rtsp

\* The sources of an instance with cameras are known from its creation to the end of the
\* main loop, if it is not recreated.
KnownPhase(i) ==
  main.phase \in {"prepare", "start", "run"} \/ (main.phase = "create" /\ i < main.i)
SourcesKnown ==
  Rtsp \cap Recreated = {} => \A i \in Rtsp : KnownPhase(i) => bins_known[i]

\* The instance's status has not gone into the exit code yet.
Pending(i) ==
  main.phase \in StartPhase \cup {"run"} \/ (main.phase = "quit" /\ i > main.i)
CauseInv ==
  /\ FailureHasCause
  /\ Rtsp \cap Recreated = {} =>
       \A i \in Instances : Pending(i) /\ status[i] = -1 => failed[i]

LEMMA RecreatedNext == TypeInv /\ RecreatedInv /\ [Next]_vars => RecreatedInv'
<1> SUFFICES ASSUME TypeInv, RecreatedInv, [Next]_vars PROVE RecreatedInv'
  OBVIOUS
<1>1. ASSUME UNCHANGED recreate_timer, main'.phase # "run" \/ main'.step = "idle"
             \/ (main.phase = "run" /\ main.step # "idle" /\ main'.i = main.i)
      PROVE  RecreatedInv'
  BY <1>1 DEF RecreatedInv
<1>2. \A p, q : Proceed(p, q) => main'.step = "idle"
  BY DEF Proceed, At
<1>3. \A n \in 1..(NumInstances + 1), r \in {-1, 0} : ComesNext(n, r) => main'.phase # "run"
  BY NextInstance
<1>4. 1 \in 1..(NumInstances + 1) /\ -1 \in {-1, 0} /\ g_return_value \in {-1, 0}
  BY SomeInstances DEF TypeInv, LoopOK
<1>5. \A n : StartFails(n) => main'.phase # "run"
  BY <1>3, <1>4 DEF StartFails
<1>6. CASE ParseConfig \/ CreatePipeline \/ PreparePipeline
  BY <1>1, <1>2, <1>3, <1>4, <1>5, <1>6 DEF ParseConfig, CreatePipeline, PreparePipeline
<1>7. CASE StartPipeline
  <2>1. CASE StartFails(main.i) /\ UNCHANGED recreate_timer
    BY <1>1, <1>5, <2>1
  <2>2. CASE /\ Proceed("start", "run")
             /\ recreate_timer' = [recreate_timer EXCEPT ![main.i] = main.i \in Recreated]
    <3>1. ASSUME NEW j \in Instances, recreate_timer'[j]
          PROVE  j \in Recreated
      <4>1. CASE j = main.i
        <5>1. recreate_timer'[j] = (j \in Recreated)
          BY <2>2, <4>1 DEF TypeInv, PipesOK
        <5>2. QED BY <3>1, <5>1
      <4>2. CASE j # main.i
        <5>1. recreate_timer'[j] = recreate_timer[j]
          BY <2>2, <4>2 DEF TypeInv, PipesOK
        <5>2. QED BY <3>1, <5>1 DEF RecreatedInv
      <4>3. QED BY <4>1, <4>2
    <3>2. main'.step = "idle"
      BY <1>2, <2>2
    <3>3. QED BY <3>1, <3>2 DEF RecreatedInv
  <2>3. QED BY <1>7, <2>1, <2>2 DEF StartPipeline
<1>8. CASE Silence
  BY <1>1, <1>8 DEF Silence, TypeInv, MainOK, StartPhase
<1>9. CASE Dispose
  <2>1. main.i + 1 \in 1..(NumInstances + 1)
    BY <1>9, SomeInstances DEF Dispose, TypeInv, MainOK, StartPhase
  <2>2. CASE ComesNext(main.i + 1, g_return_value)
    BY <1>1, <1>3, <1>4, <1>9, <2>1, <2>2 DEF Dispose
  <2>3. CASE main.phase = "run" /\ main' = [main EXCEPT !.step = "rebuild"]
    BY <1>1, <1>9, <2>3 DEF Dispose, TypeInv, MainOK
  <2>4. QED BY <1>9, <2>2, <2>3 DEF Dispose
<1>10. CASE Rebuilds
  <2>1. main.phase = "run" /\ main.step # "idle" /\ main.i \in Instances
    BY <1>10, RecreatingStep DEF Rebuilds, Rebuild, Preroll, Play, RunAgain
  <2>2. CASE RecreateFails(main.i)
    <3>1. main'.step = "idle"
      BY <2>2 DEF RecreateFails, At
    <3>2. \A j \in Instances : recreate_timer'[j] => recreate_timer[j]
      BY <2>2 DEF RecreateFails, TypeInv, PipesOK
    <3>3. QED BY <3>1, <3>2 DEF RecreatedInv
  <2>3. CASE /\ UNCHANGED recreate_timer
             /\ \/ main' = [main EXCEPT !.step = "preroll"]
                \/ main' = [main EXCEPT !.step = "play"]
                \/ main' = At("run", 1, "idle")
    <3>1. main'.step = "idle" \/ main'.i = main.i
      BY <2>3 DEF At, TypeInv, MainOK
    <3>2. QED BY <1>1, <2>1, <2>3, <3>1
  <2>4. QED BY <1>10, <2>2, <2>3 DEF Rebuilds, Rebuild, Preroll, Play, RunAgain
<1>11. CASE LeaveLoop
  BY <1>1, <1>3, <1>4, <1>11 DEF LeaveLoop, instance_vars
<1>12. ASSUME NEW i \in Instances, Recreate(i)
       PROVE  RecreatedInv'
  <2>1. i \in Recreated /\ main'.i = i /\ UNCHANGED recreate_timer
    BY <1>12 DEF Recreate, At, instance_vars, RecreatedInv
  <2>2. QED BY <2>1 DEF RecreatedInv
<1>13. ASSUME UNCHANGED <<main, recreate_timer>>
       PROVE  RecreatedInv'
  BY <1>13 DEF RecreatedInv
<1>14. ASSUME \/ PollInstances \/ CheckForInterrupt \/ Interrupt \/ KeyQuits \/ WindowQuits
              \/ \E i \in Instances : BusCallback(i)
       PROVE  UNCHANGED <<main, recreate_timer>>
  BY <1>14 DEF PollInstances, CheckForInterrupt, Interrupt, KeyQuits, WindowQuits,
               BusCallback, instance_vars
<1>15. ASSUME \/ SpaceBar \/ \E op \in {"pause", "resume"} : ConsoleKey(op)
              \/ \E c \in Threads : ReadState(c) \/ SetState(c)
              \/ \E i \in Instances : \E m : Post(i, m)
       PROVE  UNCHANGED <<main, recreate_timer>>
  BY <1>15 DEF SpaceBar, ConsoleKey, ReadState, SetState, Post, instance_vars
<1>16. CASE UNCHANGED vars
  BY <1>13, <1>16 DEF vars, instance_vars
<1>17. QED
  BY <1>6, <1>7, <1>8, <1>9, <1>10, <1>11, <1>12, <1>13, <1>14, <1>15, <1>16
  DEF Next, StartUp, TearDown, Callbacks

LEMMA SourceErrorsNext == TypeInv /\ SourceErrorsInv /\ [Next]_vars => SourceErrorsInv'
<1> SUFFICES ASSUME TypeInv, SourceErrorsInv, [Next]_vars PROVE SourceErrorsInv'
  OBVIOUS
<1>1. ASSUME NEW i \in Instances, NEW m \in Message, Post(i, m)
      PROVE  SourceErrorsInv'
  <2>1. SUFFICES ASSUME NEW j \in Instances, NEW k \in 1..Len(bus'[j]),
                        bus'[j][k] = "source_error"
                 PROVE  j \in Rtsp
    BY DEF SourceErrorsInv
  <2>2. CASE j # i
    <3>1. bus'[j] = bus[j]
      BY <1>1, <2>2 DEF Post, TypeInv, PipesOK
    <3>2. QED BY <2>1, <3>1 DEF SourceErrorsInv
  <2>3. CASE j = i
    <3>1. bus'[i] = Append(bus[i], m) /\ bus[i] \in Seq(Message)
      BY <1>1 DEF Post, TypeInv, PipesOK
    <3>2. CASE k = Len(bus[i]) + 1
      <4>1. m = "source_error"
        BY <2>1, <2>3, <3>1, <3>2
      <4>2. QED BY <1>1, <2>3, <4>1 DEF Post
    <3>3. CASE k # Len(bus[i]) + 1
      <4>1. k \in 1..Len(bus[i]) /\ bus[i][k] = "source_error"
        BY <2>1, <2>3, <3>1, <3>3
      <4>2. QED BY <2>3, <4>1 DEF SourceErrorsInv
    <3>4. QED BY <3>2, <3>3
  <2>4. QED BY <2>2, <2>3
<1>2. ASSUME NEW i \in Instances, bus' = [bus EXCEPT ![i] = <<>>]
      PROVE  SourceErrorsInv'
  <2>1. SUFFICES ASSUME NEW j \in Instances, NEW k \in 1..Len(bus'[j]),
                        bus'[j][k] = "source_error"
                 PROVE  j \in Rtsp
    BY DEF SourceErrorsInv
  <2>2. CASE j # i
    <3>1. bus'[j] = bus[j]
      BY <1>2, <2>2 DEF TypeInv, PipesOK
    <3>2. QED BY <2>1, <3>1 DEF SourceErrorsInv
  <2>3. CASE j = i
    <3>1. bus'[j] = <<>>
      BY <1>2, <2>3 DEF TypeInv, PipesOK
    <3>2. Len(bus'[j]) = 0
      BY <3>1
    <3>3. QED BY <2>1, <3>2
  <2>4. QED BY <2>2, <2>3
<1>3. ASSUME NEW i \in Instances, BusCallback(i)
      PROVE  SourceErrorsInv'
  <2>1. SUFFICES ASSUME NEW j \in Instances, NEW k \in 1..Len(bus'[j]),
                        bus'[j][k] = "source_error"
                 PROVE  j \in Rtsp
    BY DEF SourceErrorsInv
  <2>2. CASE j # i
    <3>1. bus'[j] = bus[j]
      BY <1>3, <2>2 DEF BusCallback, TypeInv, PipesOK
    <3>2. QED BY <2>1, <3>1 DEF SourceErrorsInv
  <2>3. CASE j = i
    <3>1. bus'[i] = Tail(bus[i]) /\ bus[i] \in Seq(Message) /\ bus[i] # <<>>
      BY <1>3 DEF BusCallback, TypeInv, PipesOK
    <3>2. k + 1 \in 1..Len(bus[i]) /\ bus[i][k + 1] = "source_error"
      BY <2>1, <2>3, <3>1
    <3>3. QED BY <2>3, <3>2 DEF SourceErrorsInv
  <2>4. QED BY <2>2, <2>3
<1>4. ASSUME UNCHANGED bus
      PROVE  SourceErrorsInv'
  BY <1>4 DEF SourceErrorsInv
<1>5. CASE StartUp
  <2>1. ASSUME main.phase \in StartPhase PROVE main.i \in Instances
    BY <2>1, SomeInstances DEF TypeInv, MainOK, Instances
  <2>2. CASE CreatePipeline
    BY <1>2, <2>1, <2>2 DEF CreatePipeline, Created, StartPhase
  <2>3. QED BY <1>4, <1>5, <2>2 DEF StartUp, ParseConfig, PreparePipeline, StartPipeline
<1>6. CASE TearDown
  <2>1. main.i \in Instances
    BY <1>6, SomeInstances
    DEF TearDown, Silence, Dispose, TypeInv, MainOK, StartPhase, Instances
  <2>2. QED BY <1>2, <1>4, <1>6, <2>1 DEF TearDown, Silence, Dispose, DrainBus
<1>7. CASE Rebuilds
  <2>1. main.i \in Instances
    BY <1>7, RecreatingStep DEF Rebuilds, Rebuild, Preroll, Play, RunAgain
  <2>2. QED BY <1>2, <1>4, <1>7, <2>1
            DEF Rebuilds, Rebuild, Created, Preroll, Play, RunAgain
<1>8. ASSUME \/ PollInstances \/ CheckForInterrupt \/ LeaveLoop \/ Interrupt \/ KeyQuits
             \/ WindowQuits \/ \E i \in Instances : Recreate(i)
      PROVE  UNCHANGED bus
  BY <1>8 DEF PollInstances, CheckForInterrupt, LeaveLoop, Interrupt, KeyQuits,
              WindowQuits, Recreate, instance_vars
<1>9. ASSUME \/ SpaceBar \/ \E op \in {"pause", "resume"} : ConsoleKey(op)
             \/ \E c \in Threads : ReadState(c) \/ SetState(c)
      PROVE  UNCHANGED bus
  BY <1>9 DEF SpaceBar, ConsoleKey, ReadState, SetState, instance_vars
<1>10. CASE UNCHANGED vars
  BY <1>4, <1>10 DEF vars, instance_vars
<1>11. QED
  BY <1>1, <1>3, <1>4, <1>5, <1>6, <1>7, <1>8, <1>9, <1>10 DEF Next, Callbacks, Message

LEMMA SourcesKnownNext ==
  TypeInv /\ RecreatedInv /\ SourcesKnown /\ [Next]_vars => SourcesKnown'
<1> SUFFICES ASSUME TypeInv, RecreatedInv, SourcesKnown, [Next]_vars,
                    Rtsp \cap Recreated = {}, NEW j \in Rtsp, KnownPhase(j)'
             PROVE  bins_known'[j]
  BY DEF SourcesKnown
<1>0. /\ NumInstances \in Nat /\ j \in Instances /\ j \in 1..NumInstances
      /\ KnownPhase(j) => bins_known[j]
  BY InstancesAssumption DEF Instances, SourcesKnown
<1>1. main'.phase \in {"prepare", "start", "run", "create"}
  BY DEF KnownPhase
<1>2. \A n \in 1..(NumInstances + 1), r \in {-1, 0} : ~ComesNext(n, r)
  BY <1>1, NextInstance
<1>3. 1 \in 1..(NumInstances + 1) /\ -1 \in {-1, 0} /\ g_return_value \in {-1, 0}
  BY SomeInstances DEF TypeInv, LoopOK
<1>4. \A n : ~StartFails(n)
  BY <1>2, <1>3 DEF StartFails
<1>5. ASSUME KnownPhase(j), UNCHANGED bins_known
      PROVE  bins_known'[j]
  BY <1>0, <1>5
<1>6. CASE ParseConfig
  <2>1. Proceed("parse", "create")
    BY <1>2, <1>3, <1>6 DEF ParseConfig
  <2>2. ~KnownPhase(j)'
    BY <1>0, <2>1 DEF Proceed, At, KnownPhase
  <2>3. QED BY <2>2
<1>7. CASE CreatePipeline
  <2>1. /\ bins_known' = [bins_known EXCEPT ![main.i] = TRUE]
        /\ Proceed("create", "prepare")
        /\ main.phase = "create" /\ main.i \in Instances
    BY <1>4, <1>7, SomeInstances DEF CreatePipeline, TypeInv, MainOK, StartPhase, Instances
  <2>2. CASE j = main.i
    BY <2>1, <2>2 DEF TypeInv, PipesOK
  <2>3. CASE j # main.i
    <3>1. j < main.i
      <4>1. CASE main.i < NumInstances
        <5>1. main' = [phase |-> "create", i |-> main.i + 1, step |-> "idle"]
          BY <2>1, <4>1 DEF Proceed, At
        <5>2. j < main.i + 1
          BY <5>1 DEF KnownPhase
        <5>3. QED BY <1>0, <2>1, <2>3, <5>2 DEF Instances
      <4>2. CASE ~(main.i < NumInstances)
        BY <1>0, <2>1, <2>3, <4>2 DEF Instances
      <4>3. QED BY <4>1, <4>2
    <3>2. bins_known[j]
      BY <1>0, <2>1, <3>1 DEF KnownPhase
    <3>3. bins_known'[j] = bins_known[j]
      BY <1>0, <2>1, <2>3 DEF TypeInv, PipesOK
    <3>4. QED BY <3>2, <3>3
  <2>4. QED BY <2>2, <2>3
<1>8. CASE PreparePipeline \/ StartPipeline
  BY <1>5, <1>8 DEF PreparePipeline, StartPipeline, KnownPhase
<1>9. CASE Silence
  <2>1. main'.phase = main.phase
    BY <1>9 DEF Silence, TypeInv, MainOK
  <2>2. main.phase = "run" /\ main.step # "idle" /\ main.i \in Instances
    BY <1>1, <1>9, <2>1, SomeInstances
    DEF Silence, TypeInv, MainOK, StartPhase, Instances
  <2>3. j # main.i
    BY <2>2 DEF RecreatedInv
  <2>4. bins_known'[j] = bins_known[j]
    BY <1>0, <1>9, <2>3 DEF Silence, TypeInv, PipesOK
  <2>5. QED BY <1>0, <2>2, <2>4 DEF KnownPhase
<1>10. CASE Dispose
  <2>1. main.i + 1 \in 1..(NumInstances + 1)
    BY <1>10, SomeInstances DEF Dispose, TypeInv, MainOK, StartPhase
  <2>2. main.phase = "run" /\ UNCHANGED bins_known
    BY <1>2, <1>3, <1>10, <2>1 DEF Dispose
  <2>3. QED BY <1>5, <2>2 DEF KnownPhase
<1>11. CASE Rebuilds
  <2>1. main.phase = "run"
    BY <1>11, RecreatingStep DEF Rebuilds, Rebuild, Preroll, Play, RunAgain
  <2>2. bins_known[j]
    BY <1>0, <2>1 DEF KnownPhase
  <2>3. CASE UNCHANGED bins_known
    BY <2>2, <2>3
  <2>4. CASE bins_known' = [bins_known EXCEPT ![main.i] = TRUE]
    BY <1>0, <2>2, <2>4 DEF TypeInv, PipesOK
  <2>5. QED BY <1>11, <2>3, <2>4 DEF Rebuilds, Rebuild, Preroll, Play, RunAgain
<1>12. ASSUME main.phase = "run", UNCHANGED bins_known
       PROVE  bins_known'[j]
  BY <1>5, <1>12 DEF KnownPhase
<1>13. CASE LeaveLoop
  BY <1>2, <1>3, <1>13 DEF LeaveLoop
<1>14. ASSUME NEW i \in Instances, Recreate(i)
       PROVE  bins_known'[j]
  BY <1>12, <1>14 DEF Recreate, Dispatching, At, instance_vars
<1>15. ASSUME UNCHANGED <<main, bins_known>>
       PROVE  bins_known'[j]
  BY <1>5, <1>15 DEF KnownPhase
<1>16. ASSUME \/ PollInstances \/ CheckForInterrupt \/ Interrupt \/ KeyQuits \/ WindowQuits
              \/ \E i \in Instances : BusCallback(i)
       PROVE  UNCHANGED <<main, bins_known>>
  BY <1>16 DEF PollInstances, CheckForInterrupt, Interrupt, KeyQuits, WindowQuits,
               BusCallback, instance_vars
<1>17. ASSUME \/ SpaceBar \/ \E op \in {"pause", "resume"} : ConsoleKey(op)
              \/ \E c \in Threads : ReadState(c) \/ SetState(c)
              \/ \E i \in Instances : \E m : Post(i, m)
       PROVE  UNCHANGED <<main, bins_known>>
  BY <1>17 DEF SpaceBar, ConsoleKey, ReadState, SetState, Post, instance_vars
<1>18. CASE UNCHANGED vars
  BY <1>15, <1>18 DEF vars, instance_vars
<1>19. QED
  BY <1>6, <1>7, <1>8, <1>9, <1>10, <1>11, <1>13, <1>14, <1>15, <1>16, <1>17, <1>18
  DEF Next, StartUp, TearDown, Callbacks

\* The step to another instance takes its status into the exit code.
LEMMA NextCause ==
  ASSUME NEW n \in 1..(NumInstances + 1), NEW r \in {-1, 0}, ComesNext(n, r),
         r = -1 => \E j \in Instances : failed'[j],
         \A j \in Instances : j >= n /\ status'[j] = -1 => failed'[j]
  PROVE  CauseInv'
<1>0. NumInstances \in Nat
  BY SomeInstances
<1>1. ASSUME NEW j \in Instances, Pending(j)', status'[j] = -1
      PROVE  failed'[j]
  <2>1. main'.phase = "quit" /\ j > main'.i
    BY <1>1, NextInstance DEF Pending, StartPhase
  <2>2. main'.i = n
    BY DEF ComesNext, At
  <2>3. j >= n
    BY <1>0, <2>1, <2>2 DEF Instances
  <2>4. QED BY <1>1, <2>3
<1>2. FailureHasCause'
  <2>1. SUFFICES ASSUME g_return_value' = -1
                 PROVE  \E j \in Instances : failed'[j]
    BY DEF FailureHasCause
  <2>2. CASE r = -1
    BY <2>2
  <2>3. CASE r # -1
    <3>1. ~(n > NumInstances) /\ status'[n] = -1
      BY <2>1, <2>3 DEF ComesNext
    <3>2. n \in Instances /\ n >= n
      BY <1>0, <3>1 DEF Instances
    <3>3. QED BY <3>1, <3>2
  <2>4. QED BY <2>2, <2>3
<1>3. QED BY <1>1, <1>2 DEF CauseInv

LEMMA CauseNext ==
  TypeInv /\ RecreatedInv /\ SourceErrorsInv /\ SourcesKnown /\ CauseInv /\ [Next]_vars
    => CauseInv'
<1> SUFFICES ASSUME TypeInv, RecreatedInv, SourceErrorsInv, SourcesKnown, CauseInv,
                    [Next]_vars, Rtsp \cap Recreated = {}
             PROVE  CauseInv'
  BY DEF CauseInv, FailureHasCause
<1>0. /\ NumInstances \in Nat
      /\ 1 \in 1..(NumInstances + 1) /\ -1 \in {-1, 0} /\ g_return_value \in {-1, 0}
      /\ g_return_value = -1 => \E j \in Instances : failed[j]
      /\ \A j \in Instances : Pending(j) /\ status[j] = -1 => failed[j]
  BY SomeInstances DEF TypeInv, LoopOK, CauseInv, FailureHasCause
\* A step that marks at most failures and leaves the statuses alone.
<1>1. ASSUME UNCHANGED <<status, g_return_value>>,
             \A j \in Instances : failed[j] => failed'[j],
             \A j \in Instances : Pending(j)' => Pending(j)
      PROVE  CauseInv'
  BY <1>0, <1>1 DEF CauseInv, FailureHasCause
<1>2. ASSUME NEW i \in Instances, failed' = [failed EXCEPT ![i] = TRUE]
      PROVE  failed'[i] /\ \A j \in Instances : failed[j] => failed'[j]
  BY <1>2 DEF TypeInv, VerdictOK
<1>3. ASSUME main.phase \in StartPhase \cup {"run"}
      PROVE  \A j \in Instances : Pending(j)
  BY <1>3 DEF Pending
<1>4. ASSUME main.phase \in StartPhase PROVE main.i \in Instances
  BY <1>0, <1>4 DEF TypeInv, MainOK, Instances
<1>5. ASSUME main.phase \in StartPhase, UNCHANGED status, StartFails(main.i)
      PROVE  CauseInv'
  <2>1. failed' = [failed EXCEPT ![main.i] = TRUE] /\ ComesNext(1, -1)
    BY <1>5 DEF StartFails
  <2>2. failed'[main.i] /\ \A j \in Instances : failed[j] => failed'[j]
    BY <1>2, <1>4, <1>5, <2>1
  <2>3. \A j \in Instances : status'[j] = -1 => failed'[j]
    BY <1>0, <1>3, <1>5, <2>2
  <2>4. QED BY <1>0, <1>4, <1>5, <2>1, <2>2, <2>3, NextCause
<1>6. ASSUME main.phase \in StartPhase, UNCHANGED <<status, failed, g_return_value>>
      PROVE  CauseInv'
  BY <1>1, <1>3, <1>6
<1>7. CASE ParseConfig
  <2>1. main.phase \in StartPhase
    BY <1>7 DEF ParseConfig, StartPhase
  <2>2. CASE /\ status' = [status EXCEPT ![main.i] = -1]
             /\ failed' = [failed EXCEPT ![main.i] = TRUE]
             /\ ComesNext(1, g_return_value)
    <3>1. failed'[main.i] /\ \A j \in Instances : failed[j] => failed'[j]
      BY <1>2, <1>4, <2>1, <2>2
    <3>2. \A j \in Instances : j # main.i => status'[j] = status[j]
      BY <2>2 DEF TypeInv, VerdictOK
    <3>3. \A j \in Instances : status'[j] = -1 => failed'[j]
      BY <1>0, <1>3, <2>1, <3>1, <3>2
    <3>4. QED BY <1>0, <2>2, <3>1, <3>3, NextCause
  <2>3. QED BY <1>6, <1>7, <2>1, <2>2 DEF ParseConfig
<1>8. CASE CreatePipeline \/ PreparePipeline \/ StartPipeline
  BY <1>5, <1>6, <1>8 DEF CreatePipeline, PreparePipeline, StartPipeline, StartPhase
<1>9. CASE Silence
  <2>0. main.i \in Instances /\ main'.phase = main.phase /\ main'.i = main.i
    BY <1>0, <1>9 DEF Silence, TypeInv, MainOK, StartPhase, Instances
  <2>1. UNCHANGED g_return_value /\ \A j \in Instances : Pending(j)' => Pending(j)
    BY <1>9, <2>0 DEF Silence, Pending
  <2>2. CASE UNCHANGED <<status, failed>>
    BY <1>1, <2>1, <2>2
  <2>3. CASE DrainBus(main.i)
    <3>1. \A j \in Instances : failed[j] => failed'[j]
      BY <2>3 DEF DrainBus, TypeInv, VerdictOK
    <3>2. CASE UNCHANGED status
      BY <1>1, <2>1, <3>1, <3>2
    <3>3. ASSUME NEW last \in 1..Len(bus[main.i]), bus[main.i][last] # "eos",
                 status' = [status EXCEPT ![main.i] =
                              Verdict(main.i, bus[main.i][last], FALSE).status]
          PROVE  CauseInv'
      <4>1. ASSUME NEW j \in Instances, Pending(j), status'[j] = -1
            PROVE  failed'[j]
        <5>1. CASE j # main.i
          <6>1. status[j] = -1
            BY <3>3, <4>1, <5>1 DEF TypeInv, VerdictOK
          <6>2. QED BY <1>0, <3>1, <4>1, <6>1
        <5>2. CASE j = main.i
          <6>1. main.phase = "run" /\ main.step # "idle"
            BY <1>0, <1>9, <4>1, <5>2
            DEF Silence, Pending, TypeInv, MainOK, StartPhase
          <6>2. j \notin Rtsp
            BY <5>2, <6>1 DEF RecreatedInv
          <6>3. bus[j][last] # "source_error" /\ bus[j][last] \in Message
            BY <3>3, <5>2, <6>2 DEF SourceErrorsInv, TypeInv, PipesOK
          <6>4. status'[j] = Verdict(j, bus[j][last], FALSE).status
            BY <3>3, <5>2 DEF TypeInv, VerdictOK
          <6>5. bus[j][last] # "attempts"
            BY <4>1, <6>4 DEF Verdict, Recoverable
          <6>6. bus[j][last] = "error"
            BY <3>3, <5>2, <6>3, <6>5 DEF Message
          <6>7. failed' = [failed EXCEPT ![j] = TRUE]
            BY <2>3, <3>3, <5>2, <6>1, <6>6 DEF DrainBus, TypeInv, VerdictOK
          <6>8. QED BY <1>2, <6>7
        <5>3. QED BY <5>1, <5>2
      <4>2. QED BY <1>0, <2>1, <3>1, <4>1 DEF CauseInv, FailureHasCause
    <3>4. QED BY <2>3, <3>2, <3>3 DEF DrainBus
  <2>4. QED BY <1>9, <2>2, <2>3 DEF Silence
<1>10. CASE Dispose
  <2>1. UNCHANGED <<status, failed>>
    BY <1>10 DEF Dispose, history_vars
  <2>2. CASE main.phase = "run" /\ UNCHANGED g_return_value
    BY <1>1, <1>3, <2>1, <2>2
  <2>3. CASE main.phase = "quit" /\ ComesNext(main.i + 1, g_return_value)
    <3>1. main.i \in Nat /\ main.i >= 1 /\ main.i <= NumInstances
      BY <1>0, <2>3 DEF TypeInv, MainOK
    <3>2. \A j \in Instances : j >= main.i + 1 => Pending(j)
      BY <1>0, <2>3, <3>1 DEF Pending, Instances
    <3>3. main.i + 1 \in 1..(NumInstances + 1)
      BY <1>0, <3>1
    <3>4. QED BY <1>0, <2>1, <2>3, <3>2, <3>3, NextCause
  <2>4. QED BY <1>10, <2>2, <2>3 DEF Dispose
<1>11. CASE Rebuilds
  <2>1. main.phase = "run" /\ main.i \in Instances /\ UNCHANGED status
    BY <1>11, RecreatingStep DEF Rebuilds, Rebuild, Preroll, Play, RunAgain
  <2>2. CASE RecreateFails(main.i)
    <3>1. failed'[main.i] /\ \A j \in Instances : failed[j] => failed'[j]
      BY <1>2, <2>1, <2>2 DEF RecreateFails
    <3>2. QED BY <1>0, <1>3, <2>1, <3>1 DEF CauseInv, FailureHasCause
  <2>3. CASE UNCHANGED <<failed, g_return_value>>
    BY <1>1, <1>3, <2>1, <2>3
  <2>4. QED BY <1>11, <2>2, <2>3 DEF Rebuilds, Rebuild, Preroll, Play, RunAgain
<1>12. CASE LeaveLoop
  <2>1. main.phase = "run" /\ UNCHANGED <<status, failed>> /\ ComesNext(1, g_return_value)
    BY <1>12 DEF LeaveLoop, Dispatching, At, instance_vars, history_vars
  <2>2. QED BY <1>0, <1>3, <2>1, NextCause
<1>13. ASSUME NEW i \in Instances, BusCallback(i)
       PROVE  CauseInv'
  <2>1. /\ main.phase = "run" /\ UNCHANGED <<main, g_return_value>>
        /\ bus[i] \in Seq(Message) /\ bus[i] # <<>>
    BY <1>13 DEF BusCallback, Dispatching, At, TypeInv, PipesOK
  <2>2. Head(bus[i]) = bus[i][1] /\ 1 \in 1..Len(bus[i]) /\ Head(bus[i]) \in Message
    BY <2>1
  <2>3. /\ status' = [status EXCEPT ![i] = Verdict(i, Head(bus[i]), bins_known[i]).status]
        /\ failed' = [failed EXCEPT ![i] = failed[i] \/ Head(bus[i]) = "error"]
    BY <1>13 DEF BusCallback, TypeInv, VerdictOK
  <2>4. \A j \in Instances : failed[j] => failed'[j]
    BY <2>3 DEF TypeInv, VerdictOK
  <2>5. ASSUME NEW j \in Instances, status'[j] = -1
        PROVE  failed'[j]
    <3>1. CASE j # i
      <4>1. status[j] = -1
        BY <2>3, <2>5, <3>1 DEF TypeInv, VerdictOK
      <4>2. QED BY <1>0, <1>3, <2>1, <2>4, <4>1
    <3>2. CASE j = i /\ status[i] = -1
      BY <1>0, <1>3, <2>1, <2>4, <3>2
    <3>3. CASE j = i /\ status[i] # -1
      <4>1. Verdict(i, Head(bus[i]), bins_known[i]).status = -1
        BY <2>3, <2>5, <3>3 DEF TypeInv, VerdictOK
      <4>2. Head(bus[i]) \notin {"attempts", "eos"} /\ ~Recoverable(i, Head(bus[i]), bins_known[i])
        BY <3>3, <4>1 DEF Verdict, Recoverable
      <4>3. Head(bus[i]) # "source_error"
        <5>1. SUFFICES ASSUME Head(bus[i]) = "source_error" PROVE FALSE
          OBVIOUS
        <5>2. i \in Rtsp
          BY <2>2, <5>1 DEF SourceErrorsInv
        <5>3. bins_known[i]
          BY <2>1, <5>2 DEF SourcesKnown, KnownPhase
        <5>4. QED BY <4>2, <5>1, <5>2, <5>3 DEF Recoverable
      <4>4. Head(bus[i]) = "error"
        BY <2>2, <4>2, <4>3 DEF Message
      <4>5. failed' = [failed EXCEPT ![i] = TRUE]
        BY <2>3, <4>4
      <4>6. QED BY <1>2, <3>3, <4>5
    <3>4. QED BY <3>1, <3>2, <3>3
  <2>6. QED BY <1>0, <2>1, <2>4, <2>5 DEF CauseInv, FailureHasCause
<1>14. ASSUME NEW i \in Instances, Recreate(i)
       PROVE  CauseInv'
  <2>1. main.phase = "run" /\ UNCHANGED <<status, failed, g_return_value>>
    BY <1>14 DEF Recreate, Dispatching, At, instance_vars, history_vars
  <2>2. QED BY <1>1, <1>3, <2>1
<1>15. ASSUME UNCHANGED <<main, status, failed, g_return_value>>
       PROVE  CauseInv'
  BY <1>1, <1>15 DEF Pending
<1>16. ASSUME PollInstances \/ CheckForInterrupt \/ Interrupt \/ KeyQuits \/ WindowQuits
       PROVE  UNCHANGED <<main, status, failed, g_return_value>>
  BY <1>16 DEF PollInstances, CheckForInterrupt, Interrupt, KeyQuits, WindowQuits,
               instance_vars, history_vars
<1>17. ASSUME \/ SpaceBar \/ \E op \in {"pause", "resume"} : ConsoleKey(op)
              \/ \E c \in Threads : ReadState(c) \/ SetState(c)
              \/ \E i \in Instances : \E m : Post(i, m)
       PROVE  UNCHANGED <<main, status, failed, g_return_value>>
  BY <1>17 DEF SpaceBar, ConsoleKey, ReadState, SetState, Post, instance_vars, history_vars
<1>18. CASE UNCHANGED vars
  BY <1>15, <1>18 DEF vars, instance_vars, history_vars
<1>19. QED
  BY <1>7, <1>8, <1>9, <1>10, <1>11, <1>12, <1>13, <1>14, <1>15, <1>16, <1>17, <1>18
  DEF Next, StartUp, TearDown, Callbacks

\* The exit code is a failure only when something failed, unless cameras are recreated
\* on a timer: giving up cameras, the end of streams and the user's wish are no failures
\* (bus_callback, destroy_pipeline, main).
THEOREM FailureAlwaysHasCause == Spec => []FailureHasCause
<1>1. Init => RecreatedInv /\ SourcesKnown
  BY DEF Init, At, RecreatedInv, SourcesKnown, KnownPhase
<1>2. Init => SourceErrorsInv
  <2>1. SUFFICES ASSUME Init, NEW i \in Instances, NEW k \in 1..Len(bus[i])
                 PROVE  FALSE
    BY DEF SourceErrorsInv
  <2>2. bus[i] = <<>>
    BY <2>1 DEF Init
  <2>3. Len(bus[i]) = 0
    BY <2>2
  <2>4. QED BY <2>1, <2>3
<1>3. Init => CauseInv
  BY DEF Init, CauseInv, FailureHasCause
<1>4. CauseInv => FailureHasCause
  BY DEF CauseInv
<1>5. QED
  BY <1>1, <1>2, <1>3, <1>4, TypeInit, TypeNext, RecreatedNext, SourceErrorsNext,
     SourcesKnownNext, CauseNext, PTL DEF Spec
===============================================================================
