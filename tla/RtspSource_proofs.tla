-------------------------- MODULE RtspSource_proofs --------------------------
(* Proofs about the supervision of the RTSP sources, for any number of them. *)
EXTENDS RtspSource, TLAPS

LEMMA MessagesTyped ==
  ASSUME TypeOK, NEW s \in Sources, NEW over \in BOOLEAN,
         NEW at_mux, NEW probe
  PROVE  bus \o AttemptsMessage(s, over) \o EosMessage(s, at_mux, probe) \in Seq(Message)
<1> DEFINE attempts == [kind |-> "attempts", src |-> s]
           eos == [kind |-> "eos", src |-> s]
<1>1. attempts \in Message /\ eos \in Message
  BY DEF Message
<1>2. AttemptsMessage(s, over) = <<attempts>> \/ AttemptsMessage(s, over) = <<>>
  BY DEF AttemptsMessage
<1>3. EosMessage(s, at_mux, probe) = <<eos>> \/ EosMessage(s, at_mux, probe) = <<>>
  BY DEF EosMessage
<1> HIDE DEF attempts, eos
<1>4. AttemptsMessage(s, over) \in Seq(Message) /\ EosMessage(s, at_mux, probe) \in Seq(Message)
  <2>1. <<attempts>> \in Seq(Message) BY <1>1
  <2>2. <<eos>> \in Seq(Message) BY <1>1
  <2>3. <<>> \in Seq(Message) OBVIOUS
  <2>4. QED BY <1>2, <1>3, <2>1, <2>2, <2>3
<1>5. QED BY <1>4 DEF TypeOK

LEMMA ResetTyped ==
  ASSUME TypeOK, NEW s \in Sources, NEW own \in BOOLEAN, ResetSourcePipeline(s, own)
  PROVE  /\ last_buffer' \in [Sources -> Nat \cup {Never}]
         /\ last_reconnect' \in [Sources -> Nat]
         /\ ended' \in [Sources -> BOOLEAN]
         /\ kicked' \in [Sources -> BOOLEAN]
         /\ bin' \in [Sources -> BinState]
         /\ async_timers' \in [Sources -> Nat]
         /\ async_state_watch_running' \in [Sources -> BOOLEAN]
         /\ reconfiguring' \in [Sources -> BOOLEAN]
<1>1. /\ last_buffer' \in [Sources -> Nat \cup {Never}]
      /\ last_reconnect' \in [Sources -> Nat]
  BY DEF ResetSourcePipeline, TypeOK
<1>2. ended' \in [Sources -> BOOLEAN] /\ kicked' \in [Sources -> BOOLEAN]
  BY DEF ResetSourcePipeline, TypeOK
<1>3. /\ async_timers' \in [Sources -> Nat]
      /\ async_state_watch_running' \in [Sources -> BOOLEAN]
  <2>1. CASE ArmAsyncWatch(s)
    <3>1. async_timers' \in [Sources -> Nat]
      <4>1. CASE async_state_watch_running[s] BY <2>1, <4>1 DEF ArmAsyncWatch, TypeOK
      <4>2. CASE ~async_state_watch_running[s] BY <2>1, <4>2 DEF ArmAsyncWatch, TypeOK
      <4>3. QED BY <4>1, <4>2
    <3>2. QED BY <2>1, <3>1 DEF ArmAsyncWatch, TypeOK
  <2>2. CASE AsyncWatchUnchanged BY <2>2 DEF AsyncWatchUnchanged, TypeOK
  <2>3. QED BY <2>1, <2>2 DEF ResetSourcePipeline
<1>4. reconfiguring' \in [Sources -> BOOLEAN]
  BY DEF ResetSourcePipeline, TypeOK
<1>5. Pending \cup {"PLAYING", "PAUSED", "FAILED"} \subseteq BinState
  BY DEF Pending, BinState
<1>6. \E b \in Pending \cup {"PLAYING", "PAUSED", "FAILED"} : bin' = [bin EXCEPT ![s] = b]
  BY DEF ResetSourcePipeline
<1>7. bin' \in [Sources -> BinState]
  BY <1>5, <1>6 DEF TypeOK
<1>8. QED BY <1>1, <1>2, <1>3, <1>4, <1>7

LEMMA AttemptTyped ==
  ASSUME TypeOK, NEW s \in Sources, Attempt(s)
  PROVE  /\ num_rtsp_reconnects' \in [Sources -> Nat]
         /\ due' \in [Sources -> BOOLEAN]
         /\ bus' \in Seq(Message)
         /\ bin' \in [Sources -> BinState]
         /\ async_timers' \in [Sources -> Nat]
         /\ async_state_watch_running' \in [Sources -> BOOLEAN]
         /\ reconfiguring' \in [Sources -> BOOLEAN]
         /\ last_buffer' \in [Sources -> Nat \cup {Never}]
         /\ last_reconnect' \in [Sources -> Nat]
         /\ last_reset_global' \in Nat
         /\ watching' \in [Sources -> BOOLEAN]
         /\ ended' \in [Sources -> BOOLEAN]
         /\ kicked' \in [Sources -> BOOLEAN]
         /\ eos_probe' \in BOOLEAN
         /\ exhausted' \in BOOLEAN
<1>1. /\ num_rtsp_reconnects' \in [Sources -> Nat]
      /\ due' \in [Sources -> BOOLEAN]
  BY DEF Attempt, AttemptsMade, TypeOK
<1>2. CASE Reconnect(s)
  BY <1>1, <1>2, ResetTyped DEF Reconnect, TypeOK
<1>3. CASE GiveUp(s)
  <2>1. bus' \in Seq(Message)
    BY <1>3, MessagesTyped DEF GiveUp, Exhausted
  <2>2. QED BY <1>1, <1>3, <2>1 DEF GiveUp, AsyncWatchUnchanged, Exhausted, BinState, TypeOK
<1>4. QED BY <1>2, <1>3 DEF Attempt

LEMMA TypeInit == Init => TypeOK
<1> SUFFICES ASSUME Init PROVE TypeOK
  OBVIOUS
<1>1. eos_probe \in BOOLEAN BY DEF Init
<1>2. /\ last_buffer \in [Sources -> Nat \cup {Never}]
      /\ last_reconnect \in [Sources -> Nat]
      /\ last_reset_global \in Nat
  BY TimesAssumption DEF Init
<1>3. bus \in Seq(Message) BY DEF Init
<1>4. QED BY <1>1, <1>2, <1>3 DEF Init, TypeOK, BinState

LEMMA TypeNext == TypeOK /\ [Next]_vars => TypeOK'
<1> SUFFICES ASSUME TypeOK, [Next]_vars PROVE TypeOK'
  OBVIOUS
<1>1. CASE Tick
  <2>1. /\ last_buffer' \in [Sources -> Nat \cup {Never}]
        /\ last_reconnect' \in [Sources -> Nat]
        /\ last_reset_global' \in Nat
    BY <1>1 DEF Tick, Older, TypeOK
  <2>2. QED BY <1>1, <2>1 DEF Tick, TypeOK
<1>2. ASSUME NEW s \in Sources, MainLoop(s) PROVE TypeOK'
  <2>1. CASE WatchReconfiguring(s)
    BY <2>1, AttemptTyped DEF WatchReconfiguring, Attempt, TypeOK
  <2>2. CASE WatchSilent(s)
    BY <2>2 DEF WatchSilent, source_vars, TypeOK
  <2>3. CASE WatchSilentAttempt(s)
    BY <2>3, AttemptTyped DEF WatchSilentAttempt, Attempt, TypeOK
  <2>4. CASE WatchNothing(s)
    BY <2>4 DEF WatchNothing, app_vars, TypeOK
  <2>5. CASE AsyncPlaying(s)
    BY <2>5 DEF AsyncPlaying, AsyncTimerFires, StopAsyncWatch, NoAttempts, app_vars, TypeOK
  <2>6. CASE AsyncFailed(s)
    BY <2>6 DEF AsyncFailed, AsyncTimerFires, StopAsyncWatch, app_vars, TypeOK
  <2>7. CASE AsyncForcePlaying(s)
    BY <2>7 DEF AsyncForcePlaying, BinState, app_vars, TypeOK
  <2>8. CASE RunReset(s)
    <3>1. ResetSourcePipeline(s, FALSE) BY <2>8 DEF RunReset
    <3>2. resets' \in [Sources -> Nat] BY <2>8 DEF RunReset, TypeOK
    <3>3. QED BY <2>8, <3>1, <3>2, ResetTyped DEF RunReset, app_vars, TypeOK
  <2>9. QED BY <1>2, <2>1, <2>2, <2>3, <2>4, <2>5, <2>6, <2>7, <2>8 DEF MainLoop
<1>3. ASSUME NEW s \in Sources, Network(s) PROVE TypeOK'
  <2>1. CASE BufferProbe(s)
    BY <2>1 DEF BufferProbe, app_vars, TypeOK
  <2>2. CASE EosEvent(s)
    <3>1. bus' \in Seq(Message)
      BY <2>2, MessagesTyped DEF EosEvent, Exhausted
    <3>2. QED BY <2>2, <3>1 DEF EosEvent, Exhausted, TypeOK
  <2>3. CASE BinSettles(s)
    BY <2>3 DEF BinSettles, BinState, app_vars, TypeOK
  <2>4. CASE SourceError(s)
    <3>1. bus' \in Seq(Message)
      BY <2>4 DEF SourceError, Message, TypeOK
    <3>2. bin' \in [Sources -> BinState]
      BY <2>4 DEF SourceError, BinState, TypeOK
    <3>3. QED BY <2>4, <3>1, <3>2 DEF SourceError, TypeOK
  <2>5. QED BY <1>3, <2>1, <2>2, <2>3, <2>4 DEF Network
<1>4. CASE BusSourceError
  <2>1. bus # <<>> /\ Head(bus) \in Message /\ bus' \in Seq(Message)
    BY <1>4 DEF BusSourceError, Dispatch, TypeOK
  <2>2. Head(bus).src \in Sources
    BY <2>1 DEF Message
  <2>3. /\ reconfiguring' \in [Sources -> BOOLEAN]
        /\ resets' \in [Sources -> Nat]
    <3>1. CASE ~reconfiguring[Head(bus).src] \/ Head(bus).kind = "error500"
      <4>1. /\ reconfiguring' = [reconfiguring EXCEPT ![Head(bus).src] = TRUE]
            /\ resets' = [resets EXCEPT ![Head(bus).src] = @ + 1]
        BY <1>4, <3>1 DEF BusSourceError
      <4>2. QED BY <2>2, <4>1 DEF TypeOK
    <3>2. CASE ~(~reconfiguring[Head(bus).src] \/ Head(bus).kind = "error500")
      BY <1>4, <3>2 DEF BusSourceError, TypeOK
    <3>3. QED BY <3>1, <3>2
  <2>4. QED BY <1>4, <2>1, <2>3 DEF BusSourceError, TypeOK
<1>5. CASE BusQuit
  <2>1. bus' \in Seq(Message)
    BY <1>5 DEF BusQuit, Dispatch, TypeOK
  <2>2. QED BY <1>5, <2>1 DEF BusQuit, source_vars, TypeOK
<1>6. CASE LeaveMainLoop
  BY <1>6 DEF LeaveMainLoop, source_vars, TypeOK
<1>7. CASE PausePipeline
  BY <1>7 DEF PausePipeline, BinState, TypeOK
<1>8. CASE ResumePipeline
  BY <1>8 DEF ResumePipeline, BinState, TypeOK
<1>9. CASE UNCHANGED vars
  BY <1>9 DEF vars, source_vars, app_vars, TypeOK
<1>10. QED
  BY <1>1, <1>2, <1>3, <1>4, <1>5, <1>6, <1>7, <1>8, <1>9 DEF Next, Step

\* Every variable keeps its type, whatever the sources, limits and intervals.
THEOREM TypeCorrect == Spec => []TypeOK
BY TypeInit, TypeNext, PTL DEF Spec

-------------------------------------------------------------------------------
(* The 20 ms timer and its flag *)

LEMMA ArmKeepsOneTimer ==
  ASSUME TypeOK, OneAsyncTimer, NEW s \in Sources, ArmAsyncWatch(s)
  PROVE  OneAsyncTimer'
<1> SUFFICES ASSUME NEW t \in Sources
             PROVE  async_timers'[t] = IF async_state_watch_running'[t] THEN 1 ELSE 0
  BY DEF OneAsyncTimer
<1>1. CASE async_state_watch_running[s]
  BY <1>1 DEF ArmAsyncWatch, OneAsyncTimer, TypeOK
<1>2. CASE ~async_state_watch_running[s]
  BY <1>2 DEF ArmAsyncWatch, OneAsyncTimer, TypeOK
<1>3. QED BY <1>1, <1>2

LEMMA StopKeepsOneTimer ==
  ASSUME TypeOK, OneAsyncTimer, NEW s \in Sources, AsyncTimerFires(s), StopAsyncWatch(s)
  PROVE  OneAsyncTimer'
<1>1. async_timers[s] = 1
  BY DEF OneAsyncTimer, AsyncTimerFires, TypeOK
<1>2. QED BY <1>1 DEF StopAsyncWatch, OneAsyncTimer, TypeOK

LEMMA OtherStepsKeepOneTimer ==
  OneAsyncTimer /\ AsyncWatchUnchanged => OneAsyncTimer'
BY DEF OneAsyncTimer, AsyncWatchUnchanged

LEMMA ResetKeepsOneTimer ==
  ASSUME TypeOK, OneAsyncTimer, NEW s \in Sources, NEW own, ResetSourcePipeline(s, own)
  PROVE  OneAsyncTimer'
BY ArmKeepsOneTimer, OtherStepsKeepOneTimer DEF ResetSourcePipeline

LEMMA OneAsyncTimerNext == TypeOK /\ OneAsyncTimer /\ [Next]_vars => OneAsyncTimer'
<1> SUFFICES ASSUME TypeOK, OneAsyncTimer, [Next]_vars PROVE OneAsyncTimer'
  OBVIOUS
<1> USE OtherStepsKeepOneTimer DEF AsyncWatchUnchanged
<1>1. ASSUME NEW s \in Sources, Attempt(s) PROVE OneAsyncTimer'
  <2>1. CASE Reconnect(s) BY <2>1, ResetKeepsOneTimer DEF Reconnect
  <2>2. CASE GiveUp(s) BY <2>2 DEF GiveUp
  <2>3. QED BY <1>1, <2>1, <2>2 DEF Attempt
<1>2. ASSUME NEW s \in Sources, MainLoop(s) PROVE OneAsyncTimer'
  <2>1. CASE WatchReconfiguring(s) \/ WatchSilentAttempt(s)
    BY <1>1, <2>1 DEF WatchReconfiguring, WatchSilentAttempt
  <2>2. CASE WatchSilent(s) \/ WatchNothing(s)
    BY <2>2 DEF WatchSilent, WatchNothing, source_vars
  <2>3. CASE AsyncPlaying(s) \/ AsyncFailed(s)
    BY <2>3, StopKeepsOneTimer DEF AsyncPlaying, AsyncFailed
  <2>4. CASE AsyncForcePlaying(s)
    BY <2>4 DEF AsyncForcePlaying
  <2>5. CASE RunReset(s)
    BY <2>5, ResetKeepsOneTimer DEF RunReset
  <2>6. QED BY <1>2, <2>1, <2>2, <2>3, <2>4, <2>5 DEF MainLoop
<1>3. ASSUME NEW s \in Sources, Network(s) PROVE OneAsyncTimer'
  BY <1>3 DEF Network, BufferProbe, EosEvent, BinSettles, SourceError
<1>4. CASE Tick \/ BusSourceError \/ BusQuit \/ LeaveMainLoop \/ PausePipeline \/ ResumePipeline
  BY <1>4 DEF Tick, BusSourceError, BusQuit, LeaveMainLoop, PausePipeline,
     ResumePipeline, source_vars
<1>5. CASE UNCHANGED vars
  BY <1>5 DEF vars, source_vars
<1>6. QED BY <1>2, <1>3, <1>4, <1>5 DEF Next, Step

\* No order of resets, recoveries, failures and bus errors attaches a second 20 ms
\* timer to a source or leaves its flag set without one.
THEOREM OneAsyncTimerAlways == Spec => []OneAsyncTimer
<1>1. Init => OneAsyncTimer
  BY DEF Init, OneAsyncTimer
<1>2. QED BY <1>1, TypeCorrect, OneAsyncTimerNext, PTL DEF Spec

-------------------------------------------------------------------------------
(* Attempts, giving up and the exit, when every source has a limit *)

Limited == \A s \in Sources : ReconnectAttempts[s] >= 0

\* The bounded counters need two facts to be inductive: the source being judged
\* is still watched, and once exhaustion is posted nothing is.
SupervisionInv ==
  /\ AttemptsRespected
  /\ deciding # NoSource => watching[deciding]
  /\ exhausted => \A s \in Sources : ~watching[s]

\* The operands of SupervisionInv.
SupervisionUnchanged ==
  UNCHANGED <<num_rtsp_reconnects, watching, deciding, exhausted>>

LEMMA UnchangedKeepsSupervision ==
  SupervisionInv /\ SupervisionUnchanged => SupervisionInv'
BY DEF SupervisionInv, AttemptsRespected, SupervisionUnchanged

\* Exhaustion means that every source has used one attempt more than its limit:
\* the EOS clauses of the check can only keep the pipeline running.
LEMMA ExhaustedMeansExceeded ==
  ASSUME NEW made \in [Sources -> Nat], NEW eos \in [Sources -> BOOLEAN],
         Exhausted(made, eos), NEW t \in Sources
  PROVE  made[t] > ReconnectAttempts[t]
<1>1. ~KeepsPipeline(t, made, eos)
  BY DEF Exhausted
<1>2. ~(made[t] <= ReconnectAttempts[t])
  BY <1>1 DEF KeepsPipeline
<1>3. QED BY <1>2, SourcesAssumption

LEMMA EosEventExhaustsNothing ==
  ASSUME TypeOK, NEW s \in Sources, EosEvent(s)
  PROVE  exhausted' = exhausted
<1> DEFINE eos == [have_eos EXCEPT ![s] = TRUE]
<1>1. ReconnectInterval[s] = 0 => KeepsPipeline(s, num_rtsp_reconnects, eos)
  BY DEF KeepsPipeline, TypeOK
<1>2. ~(ReconnectInterval[s] = 0 /\ Exhausted(num_rtsp_reconnects, eos))
  BY <1>1 DEF Exhausted
<1> HIDE DEF eos
<1>3. CASE ReconnectInterval[s] = 0
  BY <1>2, <1>3 DEF EosEvent, TypeOK, eos
<1>4. CASE ReconnectInterval[s] # 0
  BY <1>4 DEF EosEvent, TypeOK
<1>5. QED BY <1>3, <1>4

LEMMA AttemptKeepsSupervision ==
  ASSUME Limited, TypeOK, SupervisionInv, NEW s \in Sources, Attempt(s), watching[s],
         deciding' = NoSource
  PROVE  SupervisionInv'
<1>1. /\ num_rtsp_reconnects' = [num_rtsp_reconnects EXCEPT ![s] = @ + 1]
      /\ num_rtsp_reconnects' = AttemptsMade(s)
      /\ num_rtsp_reconnects' \in [Sources -> Nat]
  <2>1. ReconnectAttempts[s] # -1
    BY SourcesAssumption DEF Limited
  <2>2. num_rtsp_reconnects' = AttemptsMade(s) BY DEF Attempt
  <2>3. QED BY <2>1, <2>2, AttemptTyped DEF AttemptsMade
<1>2. ~exhausted
  BY DEF SupervisionInv
<1>3. CASE Reconnect(s)
  <2>1. num_rtsp_reconnects'[s] <= ReconnectAttempts[s]
    BY <1>1, <1>3 DEF Reconnect, MayAttempt, Limited
  <2>2. UNCHANGED <<watching, exhausted>>
    BY <1>3 DEF Reconnect
  <2>3. QED BY <1>1, <1>2, <2>1, <2>2 DEF SupervisionInv, AttemptsRespected, TypeOK
<1>4. CASE GiveUp(s)
  <2>1. watching' = [watching EXCEPT ![s] = FALSE]
    BY <1>4 DEF GiveUp
  <2>2. AttemptsRespected'
    BY <1>1, <2>1 DEF SupervisionInv, AttemptsRespected, TypeOK
  <2>3. ASSUME exhausted', NEW t \in Sources PROVE ~watching'[t]
    <3>1. Exhausted(AttemptsMade(s), have_eos)
      BY <1>2, <1>4, <2>3 DEF GiveUp
    <3>2. num_rtsp_reconnects'[t] > ReconnectAttempts[t]
      BY <1>1, <3>1, ExhaustedMeansExceeded DEF TypeOK
    <3>3. ReconnectAttempts[t] \in Int /\ ReconnectAttempts[t] # -1
      BY SourcesAssumption DEF Limited
    <3>4. CASE t = s BY <2>1, <3>4 DEF TypeOK
    <3>5. CASE t # s
      BY <1>1, <2>1, <3>2, <3>3, <3>5 DEF SupervisionInv, AttemptsRespected, TypeOK
    <3>6. QED BY <3>4, <3>5
  <2>4. QED BY <2>2, <2>3 DEF SupervisionInv
<1>5. QED BY <1>3, <1>4 DEF Attempt

LEMMA SupervisionNext ==
  ASSUME Limited
  PROVE  TypeOK /\ SupervisionInv /\ [Next]_vars => SupervisionInv'
<1> SUFFICES ASSUME TypeOK, SupervisionInv, [Next]_vars PROVE SupervisionInv'
  OBVIOUS
<1> USE UnchangedKeepsSupervision DEF SupervisionUnchanged
<1>1. ASSUME NEW s \in Sources, MainLoop(s) PROVE SupervisionInv'
  <2>1. CASE WatchReconfiguring(s)
    BY <2>1, AttemptKeepsSupervision DEF WatchReconfiguring, StatusTimerFires, MainLoopFree
  <2>2. CASE WatchSilent(s)
    BY <2>2 DEF WatchSilent, StatusTimerFires, source_vars, SupervisionInv, AttemptsRespected
  <2>3. CASE WatchSilentAttempt(s)
    <3>1. watching[s] BY <2>3, SourcesAssumption DEF WatchSilentAttempt, SupervisionInv
    <3>2. QED BY <2>3, <3>1, AttemptKeepsSupervision DEF WatchSilentAttempt
  <2>4. CASE WatchNothing(s)
    BY <2>4 DEF WatchNothing, app_vars
  <2>5. CASE AsyncPlaying(s)
    <3>1. /\ num_rtsp_reconnects' = [num_rtsp_reconnects EXCEPT ![s] = 0]
          /\ UNCHANGED <<watching, deciding, exhausted>>
      BY <2>5 DEF AsyncPlaying, NoAttempts, app_vars
    <3>2. QED BY <3>1, SourcesAssumption
          DEF SupervisionInv, AttemptsRespected, Limited, TypeOK
  <2>6. CASE AsyncFailed(s) \/ AsyncForcePlaying(s) \/ RunReset(s)
    BY <2>6 DEF AsyncFailed, AsyncForcePlaying, RunReset, app_vars
  <2>7. QED BY <1>1, <2>1, <2>2, <2>3, <2>4, <2>5, <2>6 DEF MainLoop
<1>2. ASSUME NEW s \in Sources, Network(s) PROVE SupervisionInv'
  <2>1. CASE EosEvent(s)
    BY <2>1, EosEventExhaustsNothing DEF EosEvent
  <2>2. CASE BufferProbe(s) \/ BinSettles(s) \/ SourceError(s)
    BY <2>2 DEF BufferProbe, BinSettles, SourceError, app_vars
  <2>3. QED BY <1>2, <2>1, <2>2 DEF Network
<1>3. CASE Tick \/ BusSourceError \/ BusQuit \/ LeaveMainLoop \/ PausePipeline \/ ResumePipeline
  BY <1>3 DEF Tick, BusSourceError, BusQuit, LeaveMainLoop, PausePipeline,
     ResumePipeline, source_vars
<1>4. CASE UNCHANGED vars
  BY <1>4 DEF vars, source_vars, app_vars
<1>5. QED BY <1>1, <1>2, <1>3, <1>4 DEF Next, Step

LEMMA SupervisionInit == ASSUME Limited PROVE Init => SupervisionInv
BY DEF Init, SupervisionInv, AttemptsRespected, Limited

\* While its timer runs, a source has used no more attempts than its limit.
THEOREM AttemptsAlwaysRespected ==
  ASSUME Limited
  PROVE  Spec => []AttemptsRespected
<1>1. SupervisionInv => AttemptsRespected
  BY DEF SupervisionInv
<1>2. QED
  BY <1>1, TypeCorrect, SupervisionInit, SupervisionNext, PTL DEF Spec

\* The exhaustion error is posted only when no source is watched any more.
THEOREM ExitOnlyAfterAllGaveUp ==
  ASSUME Limited
  PROVE  Spec => ExitOnlyWhenAllGaveUp
<1>1. TypeOK /\ SupervisionInv /\ [Next]_vars =>
        [~exhausted /\ exhausted' => \A s \in Sources : ~watching'[s] \/ have_eos'[s]]_vars
  BY SupervisionNext DEF SupervisionInv
<1>2. QED
  BY <1>1, TypeCorrect, SupervisionInit, SupervisionNext, PTL DEF Spec, ExitOnlyWhenAllGaveUp

-------------------------------------------------------------------------------
(* The implementation of SourceSupervisor *)

\* A step that leaves these alone is invisible to the supervisor.
Invisible == UNCHANGED <<watching, reconfiguring, num_rtsp_reconnects, exhausted>>

LEMMA InvisibleStutters == Invisible => UNCHANGED Supervisor!vars
BY DEF Invisible, Supervisor!vars, Phase, Used

\* A step on source s, seen through the mapping.
LEMMA PhaseOfStep ==
  ASSUME TypeOK, TypeOK', NEW s \in Sources,
         \A t \in Sources \ {s} : /\ watching'[t] = watching[t]
                                  /\ reconfiguring'[t] = reconfiguring[t]
                                  /\ num_rtsp_reconnects'[t] = num_rtsp_reconnects[t]
  PROVE  /\ Phase' = [Phase EXCEPT ![s] = Phase'[s]]
         /\ Used' = [Used EXCEPT ![s] = Used'[s]]
<1>1. \A t \in Sources \ {s} : Phase'[t] = Phase[t] /\ Used'[t] = Used[t]
  BY DEF Phase, Used
<1>2. /\ Phase = [t \in Sources |-> Phase[t]] /\ Phase' = [t \in Sources |-> Phase'[t]]
      /\ Used = [t \in Sources |-> Used[t]] /\ Used' = [t \in Sources |-> Used'[t]]
  BY DEF Phase, Used
<1> HIDE DEF Phase, Used
<1>3. QED BY <1>1, <1>2

LEMMA AttemptImplements ==
  ASSUME Limited, TypeOK, TypeOK', SupervisionInv, NEW s \in Sources, Attempt(s), watching[s]
  PROVE  Supervisor!Next
<1>1. num_rtsp_reconnects' = [num_rtsp_reconnects EXCEPT ![s] = @ + 1]
  <2>1. ReconnectAttempts[s] # -1
    BY SourcesAssumption DEF Limited
  <2>2. QED BY <2>1 DEF Attempt, AttemptsMade
<1>2. Phase[s] # "stopped" /\ Used[s] = num_rtsp_reconnects[s] /\ Used[s] \in Nat
  BY DEF Phase, Used, TypeOK
<1>3. CASE Reconnect(s)
  <2>1. \A t \in Sources \ {s} : reconfiguring'[t] = reconfiguring[t]
    BY <1>3 DEF Reconnect, ResetSourcePipeline, TypeOK
  <2>2. UNCHANGED <<watching, exhausted>>
    BY <1>3 DEF Reconnect
  <2>3. Phase' = [Phase EXCEPT ![s] = Phase'[s]] /\ Used' = [Used EXCEPT ![s] = Used'[s]]
    BY <1>1, <2>1, <2>2, PhaseOfStep DEF TypeOK
  <2>4. Phase'[s] \in {"up", "recovering"}
    BY <2>2 DEF Phase
  <2>5. Used'[s] = Used[s] + 1
    BY <1>1, <1>2, <2>2 DEF Used, TypeOK
  <2>6. num_rtsp_reconnects[s] + 1 <= ReconnectAttempts[s]
    <3>1. ReconnectAttempts[s] # -1 BY SourcesAssumption DEF Limited
    <3>2. QED BY <1>3, <3>1 DEF Reconnect, MayAttempt, AttemptsMade, TypeOK
  <2>7. Supervisor!Retry(s)
    BY <1>2, <2>2, <2>3, <2>4, <2>5, <2>6, SourcesAssumption DEF Supervisor!Retry
  <2>8. QED BY <2>7 DEF Supervisor!Next
<1>4. CASE GiveUp(s)
  <2>1. watching' = [watching EXCEPT ![s] = FALSE] /\ UNCHANGED reconfiguring
    BY <1>4 DEF GiveUp
  <2>2. Phase' = [Phase EXCEPT ![s] = Phase'[s]] /\ Used' = [Used EXCEPT ![s] = Used'[s]]
    BY <1>1, <2>1, PhaseOfStep DEF TypeOK
  <2>3. Phase'[s] = "stopped" /\ Used'[s] = 0
    BY <2>1 DEF Phase, Used, TypeOK
  <2>4. Used[s] = ReconnectAttempts[s]
    <3>1. ReconnectAttempts[s] \in Int /\ ReconnectAttempts[s] # -1
      BY SourcesAssumption DEF Limited
    <3>2. num_rtsp_reconnects[s] <= ReconnectAttempts[s]
      BY <3>1 DEF SupervisionInv, AttemptsRespected
    <3>3. ~(num_rtsp_reconnects[s] + 1 <= ReconnectAttempts[s])
      BY <1>4, <3>1 DEF GiveUp, MayAttempt, AttemptsMade, TypeOK
    <3>4. num_rtsp_reconnects[s] \in Nat BY DEF TypeOK
    <3>5. num_rtsp_reconnects[s] = ReconnectAttempts[s] BY <3>1, <3>2, <3>3, <3>4
    <3>6. QED BY <1>2, <3>5
  <2>5. exhausted' => \A t \in Sources \ {s} : Phase[t] = "stopped"
    <3>1. SUFFICES ASSUME exhausted', NEW t \in Sources \ {s} PROVE ~watching[t]
      BY DEF Phase
    <3>2. ~exhausted
      BY DEF SupervisionInv
    <3>3. Exhausted(num_rtsp_reconnects', have_eos)
      BY <1>4, <3>1, <3>2 DEF GiveUp, Attempt
    <3>4. num_rtsp_reconnects'[t] > ReconnectAttempts[t]
      BY <3>3, ExhaustedMeansExceeded DEF TypeOK
    <3>5. ReconnectAttempts[t] \in Int /\ ReconnectAttempts[t] # -1
      BY SourcesAssumption DEF Limited
    <3>6. num_rtsp_reconnects'[t] = num_rtsp_reconnects[t] /\ num_rtsp_reconnects[t] \in Nat
      BY <1>1 DEF TypeOK
    <3>7. ~(num_rtsp_reconnects[t] <= ReconnectAttempts[t])
      BY <3>4, <3>5, <3>6
    <3>8. QED BY <3>5, <3>7 DEF SupervisionInv, AttemptsRespected
  <2>6. exhausted' \in {FALSE, \A t \in Sources \ {s} : Phase[t] = "stopped"}
    BY <2>5 DEF TypeOK
  <2>7. Supervisor!Stop(s)
    BY <1>2, <2>2, <2>3, <2>4, <2>6 DEF Supervisor!Stop
  <2>8. QED BY <2>7 DEF Supervisor!Next
<1>5. QED BY <1>3, <1>4 DEF Attempt

\* A reset, counted or not, leaves its source up or recovering.
LEMMA RunResetImplements ==
  ASSUME TypeOK, TypeOK', NEW s \in Sources, RunReset(s)
  PROVE  Supervisor!Next \/ UNCHANGED Supervisor!vars
<1>1. UNCHANGED <<watching, num_rtsp_reconnects, exhausted>>
  BY DEF RunReset, app_vars
<1>2. \A t \in Sources \ {s} : reconfiguring'[t] = reconfiguring[t]
  BY DEF RunReset, ResetSourcePipeline, TypeOK
<1>3. Phase' = [Phase EXCEPT ![s] = Phase'[s]] /\ UNCHANGED Used
  BY <1>1, <1>2, PhaseOfStep DEF Used
<1>4. CASE watching[s]
  <2>1. Phase[s] # "stopped" /\ Phase'[s] \in {"up", "recovering"}
    BY <1>1, <1>4 DEF Phase
  <2>2. Supervisor!Restart(s)
    BY <1>1, <1>3, <2>1 DEF Supervisor!Restart
  <2>3. QED BY <2>2 DEF Supervisor!Next
<1>5. CASE ~watching[s]
  <2>1. UNCHANGED Phase
    BY <1>1, <1>2, <1>5 DEF Phase
  <2>2. QED BY <1>1, <1>3, <2>1 DEF Supervisor!vars
<1>6. QED BY <1>4, <1>5

LEMMA RecoveryImplements ==
  ASSUME TypeOK, TypeOK', NEW s \in Sources, AsyncPlaying(s)
  PROVE  Supervisor!Next \/ UNCHANGED Supervisor!vars
<1>1. /\ reconfiguring' = [reconfiguring EXCEPT ![s] = FALSE]
      /\ num_rtsp_reconnects' = [num_rtsp_reconnects EXCEPT ![s] = 0]
      /\ UNCHANGED <<watching, exhausted>>
  BY DEF AsyncPlaying, NoAttempts, app_vars
<1>2. Phase' = [Phase EXCEPT ![s] = Phase'[s]] /\ Used' = [Used EXCEPT ![s] = Used'[s]]
  BY <1>1, PhaseOfStep DEF TypeOK
<1>3. CASE watching[s]
  <2>1. Phase[s] # "stopped" /\ Phase'[s] = "up" /\ Used'[s] = 0
    BY <1>1, <1>3 DEF Phase, Used, TypeOK
  <2>2. Supervisor!Recover(s)
    BY <1>1, <1>2, <2>1 DEF Supervisor!Recover
  <2>3. QED BY <2>2 DEF Supervisor!Next
<1>4. CASE ~watching[s]
  <2>1. UNCHANGED <<Phase, Used>>
    BY <1>1, <1>4 DEF Phase, Used, TypeOK
  <2>2. QED BY <1>1, <2>1 DEF Supervisor!vars
<1>5. QED BY <1>3, <1>4

LEMMA BusErrorImplements ==
  ASSUME TypeOK, TypeOK', BusSourceError
  PROVE  Supervisor!Next \/ UNCHANGED Supervisor!vars
<1> DEFINE s == Head(bus).src
<1>0. Head(bus) \in Message
  BY DEF BusSourceError, Dispatch, TypeOK
<1>1. s \in Sources
  BY <1>0 DEF Message
<1>2. /\ reconfiguring' = reconfiguring \/ reconfiguring' = [reconfiguring EXCEPT ![s] = TRUE]
      /\ UNCHANGED <<watching, num_rtsp_reconnects, exhausted>>
  BY DEF BusSourceError
<1> HIDE DEF s
<1>3. CASE reconfiguring' = reconfiguring
  BY <1>2, <1>3, InvisibleStutters DEF Invisible
<1>4. CASE reconfiguring' = [reconfiguring EXCEPT ![s] = TRUE]
  <2>1. Phase' = [Phase EXCEPT ![s] = Phase'[s]] /\ UNCHANGED Used
    BY <1>1, <1>2, <1>4, PhaseOfStep DEF Used, TypeOK
  <2>2. CASE watching[s] /\ ~reconfiguring[s]
    <3>1. Phase[s] = "up" /\ Phase'[s] = "recovering"
      BY <1>1, <1>2, <1>4, <2>2 DEF Phase, TypeOK
    <3>2. Supervisor!Lose(s)
      BY <1>2, <2>1, <3>1 DEF Supervisor!Lose
    <3>3. QED BY <1>1, <3>2 DEF Supervisor!Next
  <2>3. CASE ~watching[s] \/ reconfiguring[s]
    <3>1. UNCHANGED Phase
      BY <1>1, <1>2, <1>4, <2>3 DEF Phase, TypeOK
    <3>2. QED BY <1>2, <2>1, <3>1 DEF Supervisor!vars
  <2>4. QED BY <2>2, <2>3
<1>5. QED BY <1>2, <1>3, <1>4

LEMMA StepImplements ==
  ASSUME Limited
  PROVE  TypeOK /\ TypeOK' /\ SupervisionInv /\ [Next]_vars => [Supervisor!Next]_(Supervisor!vars)
<1> SUFFICES ASSUME TypeOK, TypeOK', SupervisionInv, [Next]_vars
             PROVE  Supervisor!Next \/ UNCHANGED Supervisor!vars
  OBVIOUS
<1> USE InvisibleStutters DEF Invisible
<1>1. ASSUME NEW s \in Sources, MainLoop(s)
      PROVE  Supervisor!Next \/ UNCHANGED Supervisor!vars
  <2>1. CASE WatchReconfiguring(s)
    BY <2>1, AttemptImplements DEF WatchReconfiguring, StatusTimerFires
  <2>2. CASE WatchSilentAttempt(s)
    <3>1. watching[s] BY <2>2, SourcesAssumption DEF WatchSilentAttempt, SupervisionInv
    <3>2. QED BY <2>2, <3>1, AttemptImplements DEF WatchSilentAttempt
  <2>3. CASE WatchSilent(s) \/ WatchNothing(s)
    BY <2>3 DEF WatchSilent, WatchNothing, source_vars, app_vars
  <2>4. CASE AsyncPlaying(s)
    BY <2>4, RecoveryImplements
  <2>5. CASE AsyncFailed(s) \/ AsyncForcePlaying(s)
    BY <2>5 DEF AsyncFailed, AsyncForcePlaying, app_vars
  <2>6. CASE RunReset(s)
    BY <2>6, RunResetImplements
  <2>7. QED BY <1>1, <2>1, <2>2, <2>3, <2>4, <2>5, <2>6 DEF MainLoop
<1>2. ASSUME NEW s \in Sources, Network(s)
      PROVE  Supervisor!Next \/ UNCHANGED Supervisor!vars
  <2>1. CASE EosEvent(s)
    BY <2>1, EosEventExhaustsNothing DEF EosEvent
  <2>2. CASE BufferProbe(s) \/ BinSettles(s) \/ SourceError(s)
    BY <2>2 DEF BufferProbe, BinSettles, SourceError, app_vars
  <2>3. QED BY <1>2, <2>1, <2>2 DEF Network
<1>3. CASE BusSourceError
  BY <1>3, BusErrorImplements
<1>4. CASE Tick \/ BusQuit \/ LeaveMainLoop \/ PausePipeline \/ ResumePipeline
  BY <1>4 DEF Tick, BusQuit, LeaveMainLoop, PausePipeline, ResumePipeline, source_vars
<1>5. CASE UNCHANGED vars
  BY <1>5 DEF vars, source_vars, app_vars
<1>6. QED BY <1>1, <1>2, <1>3, <1>4, <1>5 DEF Next, Step

\* The timers, flags and messages of the code implement the supervisor's contract:
\* stopped is final, a source is stopped exactly when its attempts are used up, and
\* the exit is reported only with the last source.
THEOREM SupervisorImplemented ==
  ASSUME Limited
  PROVE  Spec => ImplementsSupervisor
<1>1. Init => Supervisor!Init
  BY DEF Init, Supervisor!Init, Phase, Used
<1>2. QED
  BY <1>1, TypeCorrect, SupervisionInit, SupervisionNext, StepImplements, PTL
     DEF Spec, ImplementsSupervisor, Supervisor!Spec

-------------------------------------------------------------------------------
(* Resets by the timers are spaced out *)

\* The shared timestamp is no older than any source's last reset by its timer, and
\* the gap judged by a handler still stands when the handler acts on it.
SpacingInv ==
  /\ ResetsSpaced
  /\ \A s \in Sources : kicked[s] =>
       last_reconnect[s] >= last_reset_global
       \/ last_reconnect[s] >= SOURCE_RESET_INTERVAL_SEC
  /\ deciding # NoSource => GapElapsed

SpacingUnchanged == UNCHANGED <<kicked, last_reconnect, last_reset_global>>

LEMMA UnchangedKeepsSpacing ==
  SpacingInv /\ SpacingUnchanged /\ (deciding' # NoSource => GapElapsed) => SpacingInv'
BY DEF SpacingInv, ResetsSpaced, SpacingUnchanged, GapElapsed

LEMMA TickKeepsSpacing ==
  ASSUME TypeOK, SpacingInv, Tick
  PROVE  SpacingInv'
<1>1. \A s \in Sources :
        /\ last_reconnect[s] < SOURCE_RESET_INTERVAL_SEC =>
             last_reconnect'[s] = last_reconnect[s] + 1
        /\ last_reconnect[s] >= SOURCE_RESET_INTERVAL_SEC =>
             last_reconnect'[s] = last_reconnect[s]
        /\ last_reconnect[s] \in Nat
  BY TimesAssumption DEF Tick, Older, TypeOK
<1>2. /\ last_reset_global' \in {last_reset_global, last_reset_global + 1}
      /\ last_reset_global \in Nat
  BY DEF Tick, Older, TypeOK
<1>3. UNCHANGED <<kicked, deciding>>
  BY DEF Tick
<1>4. ResetsSpaced'
  BY <1>1, <1>3, TimesAssumption DEF SpacingInv, ResetsSpaced
<1>5. ASSUME NEW s \in Sources, kicked'[s]
      PROVE  \/ last_reconnect'[s] >= last_reset_global'
             \/ last_reconnect'[s] >= SOURCE_RESET_INTERVAL_SEC
  BY <1>1, <1>2, <1>3, <1>5, TimesAssumption DEF SpacingInv
<1>6. deciding' # NoSource => GapElapsed'
  BY <1>2, <1>3, TimesAssumption DEF SpacingInv, GapElapsed
<1>7. QED BY <1>4, <1>5, <1>6 DEF SpacingInv

\* The timer of a source resets it when nobody was reset for RESET_GAP_SEC.
LEMMA ReconnectKeepsSpacing ==
  ASSUME TypeOK, SpacingInv, NEW s \in Sources, Reconnect(s), GapElapsed,
         deciding' = NoSource
  PROVE  SpacingInv'
<1>1. /\ last_reset_global' = 0
      /\ last_reconnect' = [last_reconnect EXCEPT ![s] = 0]
      /\ kicked' = [kicked EXCEPT ![s] = TRUE]
  BY DEF Reconnect, ResetSourcePipeline
<1>2. \A t \in Sources : last_reconnect[t] \in Nat
  BY DEF TypeOK
<1>3. /\ last_reconnect'[s] = 0
      /\ \A t \in Sources \ {s} :
           last_reconnect'[t] = last_reconnect[t] /\ kicked'[t] = kicked[t]
  BY <1>1 DEF TypeOK
<1>4. \A t \in Sources : kicked[t] /\ last_reconnect[t] < SOURCE_RESET_INTERVAL_SEC
                           => last_reconnect[t] > RESET_GAP_SEC
  <2>1. last_reset_global \in Nat /\ last_reset_global > RESET_GAP_SEC
    BY DEF TypeOK, GapElapsed
  <2>2. QED BY <1>2, <2>1, TimesAssumption DEF SpacingInv
<1>5. ASSUME NEW t \in Sources, NEW u \in Sources, t # u, kicked'[t], kicked'[u],
             last_reconnect'[t] <= last_reconnect'[u],
             last_reconnect'[u] < SOURCE_RESET_INTERVAL_SEC
      PROVE  last_reconnect'[u] - last_reconnect'[t] > RESET_GAP_SEC
  <2>1. CASE t = s
    BY <1>3, <1>4, <1>5, <2>1, <1>2, TimesAssumption
  <2>2. CASE u = s
    <3>1. last_reconnect[t] = 0 /\ kicked[t]
      BY <1>2, <1>3, <1>5, <2>2
    <3>2. QED BY <1>4, <3>1, TimesAssumption
  <2>3. CASE t # s /\ u # s
    BY <1>3, <1>5, <2>3 DEF SpacingInv, ResetsSpaced
  <2>4. QED BY <2>1, <2>2, <2>3
<1>6. ResetsSpaced'
  BY <1>5 DEF ResetsSpaced
<1>7. \A t \in Sources : last_reconnect'[t] >= last_reset_global'
  BY <1>1, <1>2, <1>3
<1>8. QED BY <1>6, <1>7 DEF SpacingInv

\* A reset asked for by a bus error is not the timer's: it leaves the comparison.
LEMMA RunResetKeepsSpacing ==
  ASSUME TypeOK, SpacingInv, NEW s \in Sources, RunReset(s)
  PROVE  SpacingInv'
<1>1. /\ UNCHANGED <<last_reset_global, deciding>>
      /\ last_reconnect' = [last_reconnect EXCEPT ![s] = 0]
      /\ kicked' = [kicked EXCEPT ![s] = FALSE]
  BY DEF RunReset, ResetSourcePipeline, app_vars
<1>2. \A t \in Sources : kicked'[t] =>
        t # s /\ kicked[t] /\ last_reconnect'[t] = last_reconnect[t]
  BY <1>1 DEF TypeOK
<1>3. QED BY <1>1, <1>2 DEF SpacingInv, ResetsSpaced, GapElapsed

LEMMA AttemptKeepsSpacing ==
  ASSUME TypeOK, SpacingInv, NEW s \in Sources, Attempt(s), GapElapsed,
         deciding' = NoSource
  PROVE  SpacingInv'
<1>1. CASE Reconnect(s)
  BY <1>1, ReconnectKeepsSpacing
<1>2. CASE GiveUp(s)
  BY <1>2, UnchangedKeepsSpacing DEF GiveUp, SpacingUnchanged
<1>3. QED BY <1>1, <1>2 DEF Attempt

LEMMA SpacingNext == TypeOK /\ SpacingInv /\ [Next]_vars => SpacingInv'
<1> SUFFICES ASSUME TypeOK, SpacingInv, [Next]_vars
             PROVE  SpacingInv'
  OBVIOUS
<1>0. deciding # NoSource => GapElapsed
  BY DEF SpacingInv
<1> USE UnchangedKeepsSpacing DEF SpacingUnchanged
<1>1. ASSUME NEW s \in Sources, MainLoop(s)
      PROVE  SpacingInv'
  <2>1. CASE WatchReconfiguring(s)
    BY <2>1, AttemptKeepsSpacing DEF WatchReconfiguring, RetryDue, StatusTimerFires, MainLoopFree
  <2>2. CASE WatchSilent(s)
    BY <2>2 DEF WatchSilent, source_vars
  <2>3. CASE WatchSilentAttempt(s)
    BY <1>0, <2>3, SourcesAssumption, AttemptKeepsSpacing DEF WatchSilentAttempt
  <2>4. CASE WatchNothing(s)
    BY <1>0, <2>4 DEF WatchNothing, app_vars
  <2>5. CASE AsyncPlaying(s) \/ AsyncFailed(s) \/ AsyncForcePlaying(s)
    BY <1>0, <2>5 DEF AsyncPlaying, AsyncFailed, AsyncForcePlaying, app_vars
  <2>6. CASE RunReset(s)
    BY <2>6, RunResetKeepsSpacing
  <2>7. QED BY <1>1, <2>1, <2>2, <2>3, <2>4, <2>5, <2>6 DEF MainLoop
<1>2. ASSUME NEW s \in Sources, Network(s)
      PROVE  SpacingInv'
  BY <1>0, <1>2 DEF Network, BufferProbe, EosEvent, BinSettles, SourceError, app_vars
<1>3. CASE Tick
  BY <1>3, TickKeepsSpacing
<1>4. CASE BusSourceError \/ BusQuit \/ LeaveMainLoop
  BY <1>0, <1>4 DEF BusSourceError, BusQuit, LeaveMainLoop, source_vars
<1>5. CASE PausePipeline \/ ResumePipeline
  BY <1>0, <1>5 DEF PausePipeline, ResumePipeline
<1>6. CASE UNCHANGED vars
  BY <1>0, <1>6 DEF vars, source_vars, app_vars
<1>7. QED BY <1>1, <1>2, <1>3, <1>4, <1>5, <1>6 DEF Next, Step

LEMMA SpacingInit == Init => SpacingInv
<1> SUFFICES ASSUME Init PROVE SpacingInv
  OBVIOUS
<1>1. deciding = NoSource /\ \A s \in Sources : ~kicked[s]
  BY DEF Init
<1>2. QED BY <1>1 DEF SpacingInv, ResetsSpaced

\* Two sources are never reset by their timers within RESET_GAP_SEC of each other,
\* for any number of sources, limits and intervals.
THEOREM ResetsAlwaysSpaced == Spec => []ResetsSpaced
<1>1. SpacingInv => ResetsSpaced
  BY DEF SpacingInv
<1>2. QED
  BY <1>1, TypeCorrect, SpacingInit, SpacingNext, PTL DEF Spec
===============================================================================
