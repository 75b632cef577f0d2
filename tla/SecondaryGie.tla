----------------------------- MODULE SecondaryGie -----------------------------
(***************************************************************************)
(* The secondary engines of one pipeline (src/secondary_gie.cpp): which of *)
(* those configured are built, how they hang together, and the wait of     *)
(* each buffer until all of them are done with it.                         *)
(*                                                                         *)
(* create_secondary_gie runs in the main thread before anything flows.  It *)
(* decides for one engine after the other, in the order of their groups;   *)
(* an engine that operates on another one is decided by recursion over     *)
(* operate-on-gie-id.  Then buffers pass a tee into the wait queue and     *)
(* into the engines' branches, each branch a thread of its own, and leave  *)
(* by the wait queue.  SecondaryGieBin outlives the pipeline: a recreated  *)
(* one finds its decisions, its counters and its flags.                    *)
(***************************************************************************)
EXTENDS Integers, Sequences, FiniteSets, FiniteSetsExt

CONSTANTS
  NumGies,      \* num_secondary_gie
  Configs,      \* the configurations considered: for each engine its GieConfig
  PRIMARY,      \* unique_id of the primary engine
  MaxBuffers,   \* bound: buffers pushed into each pipeline
  MaxRecreates  \* bound: recreations of the pipeline

Gies == 0..(NumGies - 1)
GieConfig == [enable : BOOLEAN, unique_id : Int, operate_on_gie_id : Int]

ASSUME GiesAssumption ==
  /\ NumGies \in Nat
  /\ Configs \subseteq [Gies -> GieConfig]
  /\ PRIMARY \in Int
  /\ MaxBuffers \in Nat /\ MaxRecreates \in Nat

VARIABLES
  configs,       \* the configuration of this program
  phase,         \* how far create_secondary_gie has come
  index,         \* the engine to decide next
  create,        \* SecondaryGieBinSubBin::create
  parent_index, num_children,
  queue, sink, tee,   \* sub bins that have such an element
  stop,          \* SecondaryGieBin::stop
  eos,           \* history: an EOS has passed the tee of this pipeline
  waiting,       \* buffers in the wait queue: the engines done with each
  pushed,        \* budget used: buffers of this pipeline
  recreates,     \* budget used
  early          \* history: a buffer left before its engines and before any EOS

tree_vars == <<create, parent_index, num_children>>
element_vars == <<queue, sink, tee>>
barrier_vars == <<stop, eos, waiting, pushed, recreates, early>>
vars == <<configs, phase, index, tree_vars, element_vars, barrier_vars>>

TypeOK ==
  /\ configs \in [Gies -> GieConfig]
  /\ phase \in {"decide", "build", "running", "overflow", "failed"}
  /\ index \in 0..NumGies
  /\ create \subseteq Gies
  /\ parent_index \in [Gies -> Gies \cup {-1}]
  /\ num_children \in [Gies -> 0..NumGies]
  /\ queue \subseteq create /\ sink \subseteq create /\ tee \subseteq create
  /\ {stop, eos, early} \subseteq BOOLEAN
  /\ waiting \in Seq(SUBSET create)
  /\ pushed \in 0..MaxBuffers
  /\ recreates \in 0..MaxRecreates

Init ==
  /\ configs \in Configs
  /\ phase = "decide"
  /\ index = 0
  /\ create = {}
  /\ parent_index = [i \in Gies |-> 0]
  /\ num_children = [i \in Gies |-> 0]
  /\ queue = {} /\ sink = {} /\ tee = {}
  /\ stop = FALSE
  /\ eos = FALSE
  /\ waiting = <<>>
  /\ pushed = 0
  /\ recreates = 0
  /\ early = FALSE

-------------------------------------------------------------------------------
(* should_create_secondary_gie *)

OnPrimary(i) == configs[i].operate_on_gie_id = PRIMARY

\* Engines whose output i asks for; the first one counts.
Providers(i) == {j \in Gies : configs[j].unique_id = configs[i].operate_on_gie_id}
Provider(i) == Min(Providers(i))

\* Mutant: an engine that was decided before is decided again.
Settled_Again(i) == ~configs[i].enable \/ OnPrimary(i) \/ Providers(i) = {}
\* The call for i returns without another call.
Settled(i) == ~configs[i].enable \/ i \in create \/ OnPrimary(i) \/ Providers(i) = {}

\* ... and returns true.
Granted(i) == configs[i].enable /\ (i \in create \/ OnPrimary(i))

\* The engines the recursion that starts with i calls for, one after the other.
Calls(i) ==
  LET call[k \in 0..NumGies] ==
        IF k = 0 THEN i
        ELSE IF Settled(call[k - 1]) THEN call[k - 1] ELSE Provider(call[k - 1])
  IN call

Depths(i) == {k \in 0..NumGies : Settled(Calls(i)[k])}

\* The recursion for the next engine; each call on the way back records its parent.
Decide ==
  LET i == index
      calls == Calls(i)
      depth == Min(Depths(i))
      last == calls[depth]
      above == {calls[k] : k \in 1..depth}
  IN
  /\ phase = "decide" /\ i < NumGies
  /\ Depths(i) # {}
  /\ index' = i + 1
  /\ IF Granted(last)
     THEN /\ create' = create \cup {last, i} \cup above
          /\ parent_index' = [j \in Gies |->
               IF j = last THEN IF j \in create THEN parent_index[j] ELSE -1
               ELSE IF j \in above \cup {i} THEN Provider(j) ELSE parent_index[j]]
          /\ num_children' = [j \in Gies |->
               IF j \in above THEN num_children[j] + 1 ELSE num_children[j]]
     ELSE UNCHANGED tree_vars
  /\ UNCHANGED <<configs, phase, element_vars, barrier_vars>>

\* Engines that operate on each other: the recursion does not end.
Overflow ==
  /\ phase = "decide" /\ index < NumGies
  /\ Depths(index) = {}
  /\ phase' = "overflow"
  /\ UNCHANGED <<configs, index, tree_vars, element_vars, barrier_vars>>

Decided ==
  /\ phase = "decide" /\ index = NumGies
  /\ phase' = "build"
  /\ UNCHANGED <<configs, index, tree_vars, element_vars, barrier_vars>>

-------------------------------------------------------------------------------
(* create_secondary_gie_subbin for each engine, and the links between them *)

\* Mutant: only the engines on the primary one get a queue.
NeedsQueue_Top(i) == parent_index[i] = -1
NeedsQueue(i) == parent_index[i] = -1 \/ num_children[parent_index[i]] > 1

\* The elements that are linked are there, and a source pad is linked only once.
Linked(queues, sinks, tees) ==
  \A i \in create :
    LET p == parent_index[i] IN
    IF p = -1 \/ p \in tees THEN i \in queues
    ELSE p \notin sinks /\ \A j \in create \ {i} : parent_index[j] # p

Build ==
  /\ phase = "build"
  /\ \/ /\ queue' = queue \cup {i \in create : NeedsQueue(i)}
        /\ sink' = sink \cup {i \in create : num_children[i] = 0}
        /\ tee' = tee \cup {i \in create : num_children[i] > 1}
        /\ phase' = IF Linked(queue', sink', tee') THEN "running" ELSE "failed"
     \/ \* an element cannot be made
        /\ phase' = "failed"
        /\ UNCHANGED element_vars
  /\ UNCHANGED <<configs, index, tree_vars, barrier_vars>>

-------------------------------------------------------------------------------
(* Buffers *)

\* The tee hands a reference to the wait queue and to each engine's branch.
Push ==
  /\ phase = "running" /\ ~eos
  /\ pushed < MaxBuffers
  /\ pushed' = pushed + 1
  /\ waiting' = Append(waiting, {})
  /\ UNCHANGED <<configs, phase, index, tree_vars, element_vars, stop, eos, recreates,
                 early>>

\* An engine works on its buffers in their order, each after the engine it operates on.
Infer(i) ==
  /\ phase = "running" /\ i \in create
  /\ \E k \in 1..Len(waiting) :
       /\ i \notin waiting[k]
       /\ \A m \in 1..(k - 1) : i \in waiting[m]
       /\ parent_index[i] = -1 \/ parent_index[i] \in waiting[k]
       /\ waiting' = [waiting EXCEPT ![k] = @ \cup {i}]
  /\ UNCHANGED <<configs, phase, index, tree_vars, element_vars, stop, eos, pushed,
                 recreates, early>>

\* wait_queue_buf_probe1: the EOS passes the tee, ahead of the buffers that wait.
Eos ==
  /\ phase = "running" /\ ~eos
  /\ eos' = TRUE
  /\ stop' = TRUE
  /\ UNCHANGED <<configs, phase, index, tree_vars, element_vars, waiting, pushed,
                 recreates, early>>

\* Mutant: one engine's word is enough.
Released_ByOne(b) == stop \/ create = {} \/ b # {}
\* Mutant: the wait queue's own reference is waited for as well (refcount > 0).
Released_Never(b) == stop
\* Nobody else holds a reference, or nobody is waited for any more; nothing sets flush.
Released(b) == stop \/ b = create

\* wait_queue_buf_probe looks again every millisecond.
Leave ==
  /\ phase = "running" /\ waiting # <<>>
  /\ Released(Head(waiting))
  /\ waiting' = Tail(waiting)
  /\ early' = (early \/ (~eos /\ Head(waiting) # create))
  /\ UNCHANGED <<configs, phase, index, tree_vars, element_vars, stop, eos, pushed,
                 recreates>>

\* destroy_pipeline sends an EOS and takes the pipeline down; create_pipeline calls
\* create_secondary_gie again with the same SecondaryGieBin.  The EOS passes the tee
\* unless it went to a demuxer behind it, or does not get there in the 100 ms it has.
Recreate ==
  /\ phase = "running"
  /\ recreates < MaxRecreates
  /\ recreates' = recreates + 1
  /\ phase' = "decide"
  /\ index' = 0
  /\ stop' \in {stop, TRUE}
  /\ eos' = FALSE
  /\ waiting' = <<>>
  /\ pushed' = 0
  /\ UNCHANGED <<configs, tree_vars, element_vars, early>>

-------------------------------------------------------------------------------
Construct == Decide \/ Overflow \/ Decided \/ Build
Idle == phase \in {"overflow", "failed"} \/ (phase = "running" /\ waiting = <<>>)

Next ==
  \/ Construct
  \/ Push \/ Eos \/ Leave \/ Recreate
  \/ \E i \in Gies : Infer(i)
  \/ Idle /\ UNCHANGED vars

Spec == Init /\ [][Next]_vars

\* Each engine's branch and the wait queue are threads that go on; nothing is asked of
\* the source.
FairSpec ==
  /\ Spec
  /\ WF_vars(Leave)
  /\ \A i \in Gies : WF_vars(Infer(i))

-------------------------------------------------------------------------------
(* Properties *)

\* The engines that get the primary's output, directly or through other enabled ones:
\* the least set that contains all it asks for.
Reaches(S) ==
  \A i \in Gies :
    configs[i].enable /\ (OnPrimary(i) \/ (Providers(i) # {} /\ Provider(i) \in S))
      => i \in S
Reachable == {i \in Gies : \A S \in SUBSET Gies : Reaches(S) => i \in S}

\* Whatever the order of the groups in the file, the engines created are those that
\* hang on the primary one through enabled engines.
CreatedAreReachable == phase \in {"build", "running"} => create = Reachable

\* The counter by which sinks, tees and queues are given out is the number of engines
\* that were created on one, in every state of the recursion and after a recreation.
ChildrenCounted ==
  \A i \in Gies : num_children[i] = Cardinality({j \in create : parent_index[j] = i})

\* What the construction goes by: the right engines, each counted where it hangs.
TreeAsConfigured == CreatedAreReachable /\ ChildrenCounted

\* Every engine decided for can be linked: the construction fails only when an element
\* cannot be made, never because a queue is missing or a pad taken.
AlwaysLinked ==
  phase = "build" =>
    Linked(queue \cup {i \in create : NeedsQueue(i)},
           sink \cup {i \in create : num_children[i] = 0},
           tee \cup {i \in create : num_children[i] > 1})

\* No buffer of the first pipeline leaves before every engine is done with it, until
\* an EOS ends the wait.
FirstPipelineWaits == recreates = 0 => ~early

\* The same of each pipeline there is.
EveryPipelineWaits == ~early

\* No buffer waits for ever, whichever engines there are and however they hang together.
BuffersLeave == waiting # <<>> ~> waiting = <<>>
===============================================================================
