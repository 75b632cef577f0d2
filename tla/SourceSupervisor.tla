--------------------------- MODULE SourceSupervisor ---------------------------
(***************************************************************************)
(* What the supervision of the RTSP sources promises, without its timers,  *)
(* flags, messages and GStreamer states: a source is up, being recovered   *)
(* or stopped for good; it is stopped exactly when it wants one attempt    *)
(* more than its limit; recovering gives the attempts back; and the        *)
(* pipeline is told to exit only when its last source is stopped.          *)
(***************************************************************************)
EXTENDS Integers

CONSTANTS Sources, Limit

VARIABLES
  phase,    \* of each source: "up", "recovering" or "stopped"
  used,     \* attempts used since it last recovered
  exited    \* the exhaustion of all sources was reported

vars == <<phase, used, exited>>

Init ==
  /\ phase = [s \in Sources |-> "up"]
  /\ used = [s \in Sources |-> 0]
  /\ exited = FALSE

\* An error is reported by the source.
Lose(s) ==
  /\ phase[s] = "up"
  /\ phase' = [phase EXCEPT ![s] = "recovering"]
  /\ UNCHANGED <<used, exited>>

\* An attempt that counts; the source may be up at once.
Retry(s) ==
  /\ phase[s] # "stopped"
  /\ used[s] < Limit[s]
  /\ used' = [used EXCEPT ![s] = @ + 1]
  /\ \E p \in {"up", "recovering"} : phase' = [phase EXCEPT ![s] = p]
  /\ UNCHANGED exited

\* A reset that an error asked for; it is not counted as an attempt.
Restart(s) ==
  /\ phase[s] # "stopped"
  /\ \E p \in {"up", "recovering"} : phase' = [phase EXCEPT ![s] = p]
  /\ UNCHANGED <<used, exited>>

\* The source plays again.
Recover(s) ==
  /\ phase[s] # "stopped"
  /\ phase' = [phase EXCEPT ![s] = "up"]
  /\ used' = [used EXCEPT ![s] = 0]
  /\ UNCHANGED exited

Stop(s) ==
  /\ phase[s] # "stopped"
  /\ used[s] = Limit[s]
  /\ phase' = [phase EXCEPT ![s] = "stopped"]
  /\ used' = [used EXCEPT ![s] = 0]
  /\ exited' \in {FALSE, \A t \in Sources \ {s} : phase[t] = "stopped"}

Next == \E s \in Sources : Lose(s) \/ Retry(s) \/ Restart(s) \/ Recover(s) \/ Stop(s)

Spec == Init /\ [][Next]_vars
===============================================================================
