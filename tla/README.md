# Formal model of the traffic analyzer

This directory holds TLA+ specifications of the traffic analyzer, the TLC
configurations that check them on small instances, and proofs of their main
properties that TLAPS checks for every value of the constants. `PROJECT.json`
lists the runs, the mutants, the source lines each definition stands for, the
disagreements that were found, the hazards and the theorems.

Run `tlc -config <Run>.cfg <Module>` for a run and `tlapm <Module>.tla` for the proofs of
a module: `RtspSource_proofs`, `VehicleAnalytics_proofs`, `AppLifecycle_proofs`,
`SecondaryGie_proofs` and `PipelineGraph_proofs` are each about the module they are named
after, `MainLoop_proofs` about the three of `MCMainLoop` and `Files_proofs` about the three
of `Files`; `DataInduction` has the induction they use.

## The system

The program builds, for each configuration file given, one *instance*: a
GStreamer/DeepStream pipeline from up to `MAX_SOURCE_BINS` sources through a
muxer, detection, tracking, secondary inference (vehicle type, make, plate),
line-crossing analytics and on-screen display to the sinks. Its own logic is
what happens around that pipeline.

| Component | State it keeps | Operations | What makes it correct |
| --- | --- | --- | --- |
| RTSP supervision (`sources.cpp`, ERROR/EOS of `bus_callback`) | per source: `reconfiguring`, `async_state_watch_running`, `num_rtsp_reconnects`, `have_eos`, time stamps; shared: last reset | 1 s watch, 20 ms watch, reset, EOS and buffer probes, bus errors | attempts are limited, resets spaced, a lost camera comes back or is given up unless another holds the gap they share, the program ends when all are given up and none was revived |
| Frame-rate meter (`perf.cpp`) | counters and clocks per stream, `stop`, timer id | probe, report, pause, resume, enable | one timer, each frame counted once, finite rates, averages over real time |
| Vehicle analytics (`analytics.cpp`, `image_save.cpp`) | followed vehicles, processed vehicles, files on disk | one call per object and frame, report, image | one report for each vehicle, of that vehicle, never overwritten, with crossings, class and plate that belong together |
| Program life cycle (`main.cpp`, `app.cpp`) | `quit`, `status`, `g_quit`, `g_return_value`, pipelines, timers, windows | start-up, poll, interrupt, keys, window events, bus, pause, resume, recreate, teardown | the program ends when and only when it should, with the exit code of what happened |
| Secondary inference (`secondary_gie.cpp`, `secondary_preprocess.cpp`) | tree of engines, `stop`, `flush`, buffer references | build decision, barrier on the buffer | each enabled engine reachable from the primary is built once; no buffer leaves before all engines are done |
| Pipeline construction and sinks (`app.cpp`, `sources.cpp`, `sinks.cpp` and a file for each stage) | elements, links, the bins that outlive a pipeline, table of RTSP servers | create each bin, link it, add pads, destroy | each sink gets the frames of its sources, through all stages in order; a recreated pipeline is as good as the first |
| Console and tile selection (`main.cpp`, `overlay_graphics`, `tiled_display.cpp`) | keys typed and buffered, the selection under way, `show-source` of each tiler, `active_source_index` of each instance | keys `c`, `z` and digits, clicks, recreation and teardown of the tilers | the source drawn upon is the one shown, and no tiler is used that was freed |
| File loop and record timers (`sources.cpp`) | base of the segments, time stamps, seek timers, record context and its timers | probe, seek, start and stop events, recreation | a file that ends goes on, in time that never runs backwards; a timer never uses what was freed |
| Configuration parser (`config_parser.cpp`) | the configuration | one function per group | a key's value reaches the source it is for, in whatever order the groups come |
| YOLO engine builder (`yolo.cpp`, `layers/`, `engine.cpp`) | position in the weights, tensors so far, `status` | one block of the network file after the other, outputs, engine | blocks read the weights written for them and merge the layers they name; what is not whole is no engine |
| Plate parser (`lpr/`) | the dictionary, once read | one call per plate | runs of an output are one character, with the confidence of that character; no access behind the label |
| Cloud messages (`c2d_msg.cpp`, `c2d_msg_util.cpp`) | connection | subscribe, parse | not modelled, see below |
| YOLO plugin, boxes, calibration, data files | | | floating point, CUDA and text |

The components meet in three places: the *main loop*, which runs timers, bus
messages and the keyboard one at a time; the *streaming threads*, which run pad
probes (buffer time stamps, EOS, frame counts, analytics) beside it; and the
*window thread*, which pauses, resumes and quits with no lock in common with
the main loop. The bus carries messages from the streaming threads and from the
supervision to `bus_callback`, which sets `quit` and `status` or schedules a
reset; the 40 ms poll reads `quit`.

Hard to get right and to test are the interleavings of the two watches, the bus
and the streaming threads; messages handled after the state they were sent in
is gone; pauses during a reconnection or a start-up; two threads that each set the same
pair of settings; timers that outlive the pipeline they were made for; the recreation
timer against everything else; files that outlive the process; what a step that fails leaves
behind; and positions that nothing but what was read before tells. `PROJECT.json` lists each at its line under `hazards`.

## Modules

`RtspSource` models the supervision. An action is one call of a handler:
`WatchReconfiguring`, `WatchSilent` + `WatchSilentAttempt` and `WatchNothing`
are the three ways through `watch_source_status` (the second in two steps,
because it judges what it read after it unlocked); `AsyncPlaying`,
`AsyncFailed`, `AsyncForcePlaying` are those through
`watch_source_async_state_change`; `ResetSourcePipeline` is the whole of
`reset_source_pipeline` wherever it is called from; `BufferProbe` and `EosEvent`
are the source's pad probe; `BusSourceError` and `BusQuit` are `bus_callback`;
`PausePipeline` and `ResumePipeline` are as much of these as the sources see.
The bin's GStreamer state is a variable that the environment moves
(`BinSettles`, `SourceError`). Times are ages that stop at the largest value a
guard compares, so `Tick` needs no bound.

`SourceSupervisor` is the abstract specification of that: each source is up,
recovering or stopped, uses up attempts, gets them back when it recovers, and
the exit is reported only with the last source's stop. `RtspSource` implements
it when all sources have limits and intervals: `ImplementsSupervisor` with
`Phase` and `Used` as the refinement mapping.

`PerfMeter` models `perf.cpp` with `pause_pipeline` and `resume_pipeline` in
two steps each (state read; state set and clocks stopped), from as many threads
as there are `Callers`, and the probe in two (the unlocked read of `stop`; the
count). `RecreatePipeline` is the pause and the `enable_perf_measurement` of a
recreation. Each GStreamer clock reading is `now`.

`VehicleAnalytics` models `parse_object_metadata`, for a vehicle and for a plate
of a vehicle, with all it calls. A report is what `save_to_file` would write
and the run that wrote it. `Restart` is a new process on the same day: the files
stay. Images, which nothing else depends on, are left out.

`VehicleLedger` is the abstract specification of that: a vehicle is tracked or
remembered as done with, never both, and has at most one entry, which is final.
`VehicleAnalytics` implements it (`ImplementsLedger`) with the domain of the map for
the vehicles tracked, the processed set for those remembered and the files for the
ledger.

`AppLifecycle` models `main`, the main loop's callbacks, `bus_callback`,
`destroy_pipeline` and the window thread for several instances. `main` is a
program counter: the pass over the instances during start-up, the idle loop, the
steps of `destroy_pipeline` (`teardown`: EOS sent and asleep; `silenced`: bus
drained and pipeline in NULL) and of a recreation. `pause_pipeline` and
`resume_pipeline` are a read and a set per instance, for the console and for the
window thread; the state read of a pipeline that is gone is any state, since
`gst_element_get_state` leaves the uninitialised variable alone.

`SecondaryGie` models `secondary_gie.cpp` in two halves. In the first the main
thread decides which engines are created: `Decide` is one call of
`should_create_secondary_gie` with the whole recursion over `operate-on-gie-id`
(`Calls` are the engines it visits, a recursive function bounded by their number;
`Overflow` is a recursion that does not end), then `Build` gives out queues, sinks
and tees by the number of children and links them. In the second, buffers pass
the tee: `Push` hands references to the wait queue and to the engines' branches,
`Infer` is one engine done with one buffer, `Leave` is `wait_queue_buf_probe`
finding that nobody else holds the buffer or that `stop` is set, `Eos` sets `stop`.
`Recreate` builds a new pipeline from the same `SecondaryGieBin`.

`ConfigParser` models `parse_ini` and `parse_yaml` over a file that is a sequence of
groups, each with a kind, the keys it has and at most one fault. Reading one group
is one action, with all the function of its kind does: the slot it is read into, the
defaults, the global GPU before its own, the count raised only if it is enabled.
The order is the code's: `[application]` first, `[source-attr-all]` taken out, then the
groups as they stand, then the checks of the whole and the expansion of sources of
several uris (`Expand`, a recursive function along the table). YAML has its CSV file of sources
(`OpenCsv`, `ReadRow`, `EndOfRows`) and its exceptions (`result = "thrown"`).

`PipelineGraph` models `create_pipeline`, the pads that appear while it plays, and
`destroy_pipeline`. The state is the set of links between elements; each
`create_..._bin` is the chain of its elements, and each of the steps of
`create_pipeline` adds its chains and links. `upstream` and `downstream` are the two
pointers of `create_common_elements`, which puts the stages in from the last to the
first. `BuildFails` is an element that cannot be created, at any step. Pointers that
outlive a pipeline hold the number of the build they come from, so that one that
dangles can be told, and what happens then is any of what could (`crashed`,
`lost`). `Sound` names the configurations that the properties about a whole pipeline
are for: no tiler with a demuxer in parallel, brokers on source 0 with some stage, a
sink of source 0 in the first slot when there is a tiler, and room for the RTSP
servers of all recreations. The others are explored too, and
what becomes of them is told below.

`SourceTimers` models the probe of a looped file and the timers of a source. `Segment`,
`Buffer` and `Eos` events reach the probe one at a time; `seek_decode` and
`smart_record_event_generator` are timers of the main loop that keep running when the
pipeline is recreated, as do the base and the `SourceBin`. Times are taken modulo
`TIME_NONE + 1`, as 64-bit times wrap. A freed bin or context stays where the timers
find it; `dangling` tells that one was used.

`TileSelection` models the choice of the tile that is shown alone. `tty` and `stdin` are
the keys in the terminal and those in stdin's buffer, since `select` looks at one and
`fgetc` reads the other. A handler decides once and leaves what it will write to
`writes`, from which `Write` takes one setting at a time, so that the console and the
window thread interleave between the two settings, in the order each writes them. The
recreation frees and makes the tilers in the main loop, the teardown frees them.

`YoloNetwork` models the builder of the darknet networks: an action is one block. A
tensor is its number of channels, a weight its position in the file (`weight_ptr`);
TensorRT may refuse any layer. The layers whose first test is `!= A || != B` refuse every
block, whatever it is (`NeverBuilt`).

`PlateParser` models the parser of the plate network: an action reads one output, and
`TooShort`, `MaskOverrun` and `Report` are its ends. The dictionary is read once.
Characters are those that the corrections tell apart.

`MCRtspSource`, `MCVehicle`, `MCApp`, `MCSgie`, `MCConfig` and `MCPipeline` give the constants values
for TLC. `MCMainLoop` puts `PerfMeter`, `SourceTimers` and `TileSelection` side by side,
`Files` (with the values of `MCFiles`) `ConfigParser`, `YoloNetwork` and `PlateParser`: they
share no state, and a behaviour is one of the three with the others at rest, so that the
states add up and do not multiply. A definition marked `Mutant:` is a wrong version of the one after it; it
is used nowhere but in showing that a property can fail.

## Runs

Passing runs:

| Run | Instance | Shows |
| --- | --- | --- |
| `RtspTwo` | two watched sources, one attempt each, one error message or pause | the flag of the 20 ms watch is right, resets are spaced, the supervisor is implemented |
| `RtspRecovery` | two sources, one attempt and none, silent again in the next second, one reset a second for both; an error message or a pause; fair | a camera being reconnected is up again or given up, unless the other holds the shared gap for ever; the program quits once both are given up, unless one was revived |
| `MainLoop` | one stream with two callers, 7 ticks and 3 commands; a file of three frames or a camera, over two recreations; two instances of which one is tiled, four keys and a click | meter: one timer, no frame counted twice, no rate divides by zero; source: nothing freed is used unless a recreation failed, a file that ended goes on, time does not run backwards; tiles: the source drawn upon is a source, and the one shown once both threads have written, freed tilers are not used |
| `VehicleReports` | two vehicles, limit 1, one failed write, one restart | done means reported, crossings in order, the ledger of final reports is implemented |
| `AppTwo` | two instances, one with cameras, the other recreated; one failing step, two messages, one command; fair | the loop ends for a reason; a failure code has a cause; once all instances have quit the program ends |
| `SgieThree` | every configuration of three engines, two ids equal or all distinct, two buffers, one recreation; fair | types; the tree built is the one configured, all of it can be linked, the first pipeline's buffers wait for all engines, none waits for ever |
| `Files` | INI and YAML files of up to four groups out of 27, two slots of each kind; 55296 networks of six blocks; every six outputs of four values with any confidences | types; configuration: slots hold what their groups say, GPUs take precedence, sources are expanded in full and no list of sources is accepted, nothing unreadable is; networks: outputs only of whole ones, layers and weights as darknet numbers them; plates: labels are what was read, no plate is reported that is not whole |
| `PipelineGraph` | 1058 configurations of two sources, two sinks and any stages, two builds with a failure at any step | types; sinks are fed by their sources and only by them, in the order of the stages, with queues behind tees; sound configurations are built each time; the teardown's EOS ends the files |

Where `RtspSource`, `PerfMeter`, `VehicleAnalytics`, `AppLifecycle`, `SourceTimers` and
`TileSelection` are checked no run repeats their type invariants, which are proved.

Each of the other runs ends in a counterexample to what a comment, a message or
the help of the program says; `findings` in `PROJECT.json` quotes the line.

| Run | Counterexample |
| --- | --- |
| `RtspUnlimited` | a camera with unlimited attempts does not keep the pipeline alive when the limited one is given up |
| `AppQuit` | closing the window during start-up is lost, and takes the interrupt check with it |
| `ParallelDemux` | the tiler with the demuxer in parallel can never be built |
| `SgieRecreated` | after a recreation no buffer waits for the secondary engines |

### Bounds

* `RtspSource`: two sources are what spacing, the shared exit and the refinement
  need, and the least with which one camera can keep another from its turn or be the
  last of several. `MaxIncidents` counts error messages and pauses, since losses of data,
  EOS and failing state changes are not bounded. In `RtspTwo` the reset interval is 3 s and
  the gap 1 s instead of 60 and 3: what matters is that one is longer than the other. In
  `RtspRecovery` intervals are 1 s and one reset is allowed in a second: that is the least
  at which a camera that comes back without a frame is silent again by the time the gap has
  passed, so that it can hold the gap for ever. The camera with an attempt gets it back when
  it comes up; the one without is given up the first time it has its turn.
* `MainLoop`, the meter: `MaxTime` ticks cover two reports with a pause between, and three
  commands a pause from each thread and a recreation.
* `MainLoop`, the source: times go up to 15, so that six segments of a file of three frames
  wrap; a stop of 15 is that of a file whose length is not known. Three pipelines let the
  timers of two former ones meet the third; three changes reset a camera between the start
  and the end of a recording.
* `MainLoop`, the tiles: two rows and three columns tell them apart, and five sources
  leave a tile empty; one instance without tiles is what key `c` may choose wrongly. Four
  keys are a choice of an instance or of a tile with one to spare, two of them unread are
  what stdin's buffer can be behind by; one click meets a choice on the console at each
  step, one recreation comes before, between and after them.
* `Files`, the networks: a shortcut needs four blocks to name one that is not its
  neighbour, and the last of six may be a detection. Weights are 0, 8 (a scale), 26 (a
  deconvolution and a scale) and those of a file that is not supported; `dropout`, missing
  keys, unknown
  activations and types that are refused stand at each place where they make a difference.
* `Files`, the plates: with six outputs a character repeats, is blank, and comes again
  after the blank; five confidences are one less than outputs. The second dictionary has
  an entry without a character.
* `VehicleAnalytics`: a limit of one processed vehicle with two vehicles makes
  the set overflow at every second report. One line and one tick are enough for the
  order of crossings, one restart for a vehicle that comes back under the same id.
* `AppLifecycle`: two messages are an error followed by another; with one failing
  step every `goto done` is taken. In `AppTwo` the recreated instance is not the one
  with cameras: the teardown of such a pipeline takes their errors for fatal ones (see
  below), and `FailureHasCause` leaves that combination out in its own statement.
* `SecondaryGie`: three engines are the least with a chain, a fork and an order of
  groups that the recursion has to go back in; `operate-on-gie-id` ranges over the
  primary's id, the engines' own and one that nobody has. Two buffers show one
  overtaking another.
* `ConfigParser`: the groups offered are, of each kind, those with and without `enable`,
  with one key of their own, with a GPU or not, and with each kind of fault. Four groups
  are a disabled one between two enabled ones and `[application]`; two slots are full with
  one source of two uris.
* `PipelineGraph`: two sources tell a sink fed by its own from one fed by the other; two
  sinks are a fallback, a broker beside a file, and the first slot taken by the wrong
  one. All stages on or off meet all sinks; all subsets of the stages meet a file with a
  broker. The second build is the first to find what another one left behind.

### Fairness

`RtspSource!Fairness` asks, weakly, that seconds pass once all one-second timers are served
and that each of them is served, and strongly that messages on the bus are handled, since
the bus watch is ready on and off while other handlers run (`g_main_loop` dispatches all
ready sources in an iteration, and no handler takes a second: that is also why `FairSpec`
lets no second pass over a timer). Of the 20 ms timers, the zero-delay resets and the quit
poll nothing is needed. Nothing is asked of the network, GStreamer or the user.
`AppLifecycle!FairSpec` asks that the main thread and a thread inside a call take
their next step; not that messages come, that a user does anything, or that the
recreate timer fires.
`SecondaryGie!FairSpec` asks that the wait queue and each engine's branch, which are
threads of their own, go on; not that the source delivers.
`PerfMeter`, `SourceTimers`, `TileSelection`, `VehicleAnalytics`, `ConfigParser`,
`YoloNetwork`, `PlateParser` and `PipelineGraph` are checked for safety only and assume none.

## Proofs

`RtspSource_proofs` proves, for every set of sources, limits, intervals, gap and
reset interval allowed by `SourcesAssumption` and `TimesAssumption`:

* `TypeCorrect`: `TypeOK` always holds.
* `OneAsyncTimerAlways`: `OneAsyncTimer` is inductive together with `TypeOK`;
  only the handlers that arm or stop the watch touch it, and each changes flag
  and timer together.
* `AttemptsAlwaysRespected`: inductive with `TypeOK`; an attempt above the limit
  ends the source's watch in the same step.
* `ExitOnlyAfterAllGaveUp`, under `Limited` (each source has a limit and an
  interval): the counter of a source that is no longer watched is above its
  limit, which is what the decision reads.
* `SupervisorImplemented`, under `Limited`: initial states map to initial states
  and each step to a step of the supervisor or a stutter, from the two
  invariants above.
* `ResetsAlwaysSpaced`: strengthened by the relation between the shared age of the
  last reset and each source's age, since an age that has reached its cap no longer
  tells anything.

`MainLoop_proofs`, of `PerfMeter`, for any streams, callers, interval and length of the run:

* `MeterTypeCorrect`: types need the order of a stream's clocks, since a pause subtracts
  one from another (`ClocksOrdered`).
* `OneTimerAlways`: a timer that is attached has left its id (`TimerInv`); the
  converse does not hold: a meter paused for an interval never reports again.
* `FramesAlwaysCountedOnce`: inductive with the types. `AlwaysMeasuredOnce` puts the two
  together.
* `RatesAlwaysFinite`: frames counted by a running meter have taken time since the
  last sample, and all frames counted so far have taken time before the last pause
  or after it (`SampleTakesTime`, `TotalTakesTime`). The case that needs the strengthening
  is the probe that read `stop` before a pause and counts after it.

of `SourceTimers`, for any file, number of segments, recreations and changes:

* `SourceTypeCorrect`: sums of stops stay times since they are taken modulo the largest.
* `AlwaysUsedWhileAlive`: as long as no recreation has failed, bin and context are alive
  whenever a timer can run (`Whole`).
* `EndIsAlwaysFollowed`: each step that ends a file adds a seek, and only a seek that
  succeeds or fails takes one away.
* `NeverEverBackInTime`: until the times wrap the base is the number of segments times
  their stop, and the last buffer's stamp is below the base plus its frame (`Aligned`).

and of `TileSelection`, for any instances, tiles, sources, keys and clicks:

* `TileTypeCorrect`: with the shape of what a handler still has to write, which is two
  settings of one instance or the second of them (`WritesShaped`).
* `ActiveIsAlwaysASource`: from the types of the settings (`SettingsInRange`) and the
  bound on the tile a row and a column make.
* `TilersAreAlwaysAlive`: where the main loop is tells which tilers can be freed
  (`AliveInv`): none while it is free, but for a recreation that failed.
* `SelectionAlwaysAgrees`: of an instance that nobody is unsure of, at most one thread has
  something to write; of the two settings what is written is the value of what is not
  (`AgreeInv`). That needs the pairs of settings told apart by what they set and to whom.

`VehicleAnalytics_proofs`, for any vehicles, lines, classes and limits:

* `LedgerImplemented`: `Init` maps to the ledger's, and each call to `Track`, `Close` or
  nothing, from `FollowedOrDone` (who may be followed is then not done with) and the
  finiteness of the processed set (its cardinality decides what is forgotten).
* `ReportsAlwaysFinal`, `DoneIsAlwaysReported`: every call follows the vehicle or
  finishes it (`CallFollowsOrFinishes`), and only the latter touches files.
* `AlwaysFollowedOrDone`: strengthened by the finiteness of the processed set, for its
  cardinality.
* `TypeCorrect`, `CrossingsAlwaysInOrder`: a vehicle being followed has fewer than two
  crossings, all of them past (`Kept`); of the concatenation with those of the frame
  the first two are ordered, however many there are.

`AppLifecycle_proofs`, for any number of instances and any bounds:

* `TypeCorrect`: with where the main thread can be in each phase (`MainOK`).
* `AlwaysLeavesForAReason`: strengthened by `cintr => asked`; a verdict never takes a
  quit back, and the loop is entered running.
* `FailureAlwaysHasCause`: three more invariants: what is recreated has a timer
  (`RecreatedInv`), a source's error comes from an instance with cameras
  (`SourceErrorsInv`), and the sources of such an instance are known until the loop
  ends (`SourcesKnown`), so that its errors are never taken for fatal ones. A status of
  -1 that has not reached the exit code yet then has a failure behind it.

`SecondaryGie_proofs`, for any number of engines that hang on each other in any way:

* `TreeAlwaysAsConfigured`: `Calls`, the sequence of engines one decision visits, is a
  recursive function; that it is what its equation says (`CallsExist`), that the engines
  before the one that settles the decision are all new, and that a chain without an end is a
  cycle (`Overflow`) are by induction. Then the engines decided for hang on the primary, and
  each counter is the number of children (`ChildrenCounted`), since a chain adds one child
  to each engine in it but the first. The flags of the elements survive a recreation,
  when all engines are decided for already (`TreeInv`).
* `BranchesAlwaysLinked`: an engine without a tee in front has, by the counters, no sibling.
* `TypeCorrect`: a counter of children is bounded since it counts engines (`TreeInv`).
* `FirstPipelineAlwaysWaits`: before the first recreation `stop` is set only by an EOS, so
  that a buffer leaves early only after one (`WaitInv`).

`PipelineGraph_proofs`, for any configurations of any number of sources and sinks, and any
number of pipelines after one another:

* `TypeCorrect`: what is hard are the two tables, which are never reset. Each build adds to
  them the sinks of the instances not made yet, and these are disjoint sets of slots
  (`Counted`: the sum of what was served so far and what is left is bounded per build).
* `AlwaysBuildsUnlessFaulty`: by step of the construction, what it will need is there
  (`Progress`): the brokers' elements once the first instance is made, and a stage before
  the common tee; the pads of a camera have the codec of its depayloader (`PadsInv`).
* `AlwaysQueued`: every link that is ever made is one of `Possible`, a set that depends on
  the configuration alone (`LinksInv`); of these a tee has at most one into no queue.
* `StagesAlwaysInOrder`: `Possible` is finite, so that `Reach`, which takes as many steps as
  there are nodes, is closed under the links (`ReachCloses`: each step but the last finds a
  node more) and stays in any set that is (`ReachStays`). Backwards nothing is reached, as no
  link of `Possible` leads to a bin of a lower rank (`PossibleClimbs`). Forwards, each
  stage leads to the one created before it (`Laid`, while `create_common_elements` runs;
  `Joined`, once the common tee is there), and a source that is reset takes away no link of
  a stage.
* `FramesAlwaysArrive` needs what is linked by each phase of the construction (`FrameInv`: of
  `Possible`, all that is `Instanced`, `WithSinks` or `Running` so far), and that a camera
  whose pads are linked is linked up to the tee of its source (`PadsLinked`). Backwards, a
  node that leads to another source's sink or broker is `Astray`, and no link leads from
  `Proper` to it (`ProperEnds`). Forwards the way is followed piece by piece: the source,
  the stages, the sinks' bin, the brokers (`Carries`, with `ThroughSource`, `ThroughStages`,
  `FinalToSinks`). That nothing ends in the middle is said of each node by what it is linked
  to (`LedOn`).
* `EosAlwaysEndsFiles` follows the same way from where the EOS enters: the muxer, or the
  demuxer's branches.

`Files_proofs`, of `YoloNetwork`, for any network files and weights:

* `OutputsAreAlwaysComplete`: while the builder goes on the status is SUCCESS and every
  block so far was one it can build (`BuiltSoFar`).
* `NamesAreAsDarknet`: of a file numbered as darknet does each block behind `[net]` has
  added one tensor (`Counted`), so that the distances of shortcuts and of routes, counted
  from different ends, come to the same layer, which is before the block's own.
* `BuilderTypeCorrect`: each layer turns tensors of natural channels into such a tensor
  (`TensorsTyped`); `Total`, a sum along a sequence, by induction (`TotalIs`).
* `WeightsAreAsDarknet`: the tensors built so far satisfy, block by block, the equation by
  which `DarknetChannels` is defined (`LayersInv`). The equation has one solution if routes
  name earlier layers (`ChannelsAre`), which those that were built do; of the weights each
  block adds what darknet adds (`WeightsMore`). What darknet writes is counted from the
  channels that come in (`DarknetNeeds`), what the code reads from the block's own keys;
  the property leaves out weights behind a block that says otherwise (`SaysAsDarknet`): a
  batchnorm whose `filters` are not its channels, a deconvolution without its bias, or
  one whose groups do not divide its channels, of which the code rounds down another product.

of `ConfigParser`, for files of any groups and any length:

* `ParserTypeCorrect`: the parts of the configuration stay in their ranges while it is read
  (`ParserType`) and when the sources are expanded, by induction along the table. A count
  that passes its table is met only in a file that is refused.
* `AcceptedFilesAreReadable`: every group read so far could be read; the exception that the
  induction needs is the line of the CSV file read last, of which `parse_err` still speaks
  and the next line clears (`ReadInv`).
* `SlotsAlwaysMatch`: the slots up to the number reached hold what the enabled groups
  say, in their order, and the free ones the defaults (`SlotsInv`, `Matches`): a disabled
  group of these kinds leaves nothing behind.
* `GpuAlwaysPrecedes`: while the groups are read each component has the GPU its group asks for
  (`GpuInv`), `[application]` being read before all of them, and each source what its own
  group says of it (`SourcesInv`). A disabled source does leave its keys in the
  slot the next one is read into, but never `enable` and never a part, which is what the
  induction needs of the free slots. The expansion copies a source with its GPU.
* `SourcesAlwaysExpanded`: when the first m sources are expanded, each slot that is theirs or
  behind the last one read stands for one part of one of them, each part has such a slot, and
  no two have the same (`Expanding`), by induction along the table: a source of several uris
  keeps its own slot for the first and takes those behind the last for the others
  (`ExpandingParts`). Slots and parts are then in bijection (`AsManyAs`). Only `Check` accepts
  a file (`AcceptedOnlyByCheck`).

Both tell the sources of a file by their uris, so that they speak of files whose enabled
sources each name a uri of their own (`UrisDiffer`); the second also of those that say their
type, and of several uris their number (`SourcesSaid`): one that does not takes what a disabled
one has left in its slot. Every file offered to the run is such a file.

and of `PlateParser`, for any dictionary and outputs of any length:

* `PlatesAlwaysWhole`: there is a confidence for each character kept, so that a plate whose
  confidences suffice is as long as they are many and has what the mask tests
  (`PlateInv`). It assumes a minimum of at least three, as the code's is; with less the mask
  reads behind the label.
* `LabelsAlwaysAsRead`: `prev` is the last label there was (`PrevInv`), so that a label is kept
  exactly where the reading changes and takes the next place (`Joins`).
* `PlateTypeCorrect`: the confidences never outgrow the vector of `SOFTMAX_SIZE`: one put
  behind its room is thrown away with the call (`CallTyped`); a plate that is reported ends
  before its first NUL (`CutCString`).

`FilesAlwaysTyped` puts the three together: a behaviour of `PartsSpec` is one of each of the
three specifications, of which two stutter.

The constants are assumed to be what the named assumptions of each module say, and
nothing else.

What recursive functions compute is proved by `SetInduction` of `DataInduction`, whose
predicate is a set: the library's theorems take it as an operator, which the provers cannot
instantiate. No module uses a `RECURSIVE` operator.

Only model-checked are the liveness properties (`RecoveryResolves`, `QuitsWhenAllOver`,
`BuffersLeave`, `AllQuitEnds`): fairness and `ENABLED` are out of the prover's reach.

## What does not hold of the code, without a run

The models reach these too. They are not listed as findings because no text of the
repository says otherwise; the hazards in `PROJECT.json` refer to them.

* A camera that was given up is set to PLAYING again by an error message queued
  before, or when the pipeline is resumed, with no timer left to watch it.
* The 20 ms watch of a camera being reconnected sets it to PLAYING while the user has
  the pipeline paused.
* A camera whose buffer arrives between the timer's reading of the last time stamp
  and its judgement is reset although it has just come back.
* A camera without `rtsp-reconnect-interval-sec` that reached its end neither counts as
  over nor is given up, so that the program does not end on account of the others.
* A camera that never delivers a first buffer is never reset for its silence.
* A camera that comes up without a frame gets its attempts back each time (line 777 of
  `sources.cpp`), is silent again after its interval and takes the gap that all share
  (lines 661 and 707) as soon as it has passed. With an interval of 3 s or less, or with
  several such cameras, one whose timer comes later never has its turn: it is neither
  reset nor given up. `RecoveryResolves` is stated for the others: no other camera has
  unlimited attempts or comes back for ever.
* Giving a camera up leaves its 20 ms watch attached. The watch sets the stopped bin to
  PLAYING (line 783) and, if that succeeds, its counter to zero (line 777). When the last
  of the others is given up, line 621 counts it as alive: no error is posted, no one-second
  timer is left, and the program does not quit. `QuitsWhenAllOver` excepts it (`Revived`).
* A second pause while the first is under way adds the wall clock to the time
  measured, and the average is near zero from then on.
* The two crossings of a report may be of one line.
* After a restart a vehicle whose tracker number has a report of the day gets none.
* "Attempts exceeded" after a fatal error resets the status to success.
* A recreated instance that had quit counts as ended while its new pipeline plays.
* A recreation that fails leaves the program running without that pipeline.
* A configuration that cannot be parsed, with another one after it, ends in the
  teardown of a context that was never made.
* A paused pipeline plays once it is recreated.
* Secondary engines that operate on each other recurse without end.
* A frame-rate meter that was paused for an interval never reports again: its timer has
  removed itself and its id says that it is still there.
* Each call resets a vehicle's label to the detector's while the classifier's confidence
  stays, so that the two need not belong together.
* A camera's error that is on the bus when its pipeline is recreated ends the program:
  `destroy_smart_record_bin` has set `num_bins` to 0 before the errors are handled.

Of the configuration parser:

* An INI file with `[source-list]` is never accepted, so nothing is built on
  `nvmultiurisrcbin`.
* Keys of a disabled `[sourceN]`, message consumer or secondary preprocess stay in the slot
  and are the next group's where it does not name them.
* A faulty row of the CSV file is accepted when another one follows it.
* A sink without the key `enable` leaves an error behind that keeps the sinks after it in
  an INI file from the global GPU; in YAML it ends the parse with an exception, as a value
  of the wrong type does anywhere.
* The number of sources of `[source-list]` is that of whichever of its lists is read last.

Of the pipeline:

* The fallback sink is not made again when the pipeline is recreated, and the probe for
  the latency goes to the old one.
* With the tiler, a first sink that is for another source or for the demuxer crashes the
  construction, which puts a probe on its element.
* A broker for another source than 0, for the demuxer, or without any stage fails the build.
  Of several brokers all are linked, where the comment says only the first.
* RTSP sinks over enough recreations are more than the table of servers holds.
* A second teardown destroys the analytics timer that the first one destroyed, and the
  recreated pipeline uses it.
* The teardown after a recreation that failed half-way uses elements of the former pipeline.
* A camera of a recreated pipeline that is reset before its session is set up sends an
  event to the former pipeline's parser.
* A camera that comes back with another codec is never linked again.

Of the sources' timers:

* Each recreation makes another timer that starts and stops recordings, and the former
  ones go on, so that a recording is stopped by the timer that did not start it.
* The times a recording starts and ends at by default, 7 and 8 seconds, are never used: the
  values are unsigned and are compared with 0.
* The directory and the prefix of recordings are copied without their terminator.
* Of a file whose length is not known the base wraps at the second loop.

Of the console and the windows:

* Keys typed together are handled one poll late each: `fgetc` takes all of them into
  stdin's buffer, `select` then finds the terminal empty.
* Key `c` waits for the next key in the main loop: until it comes no timer runs and no
  message is handled.
* A row chosen before `z` is given up is the row of the next choice.
* A recreated tiler shows all sources, while `active_source_index` stays.
* After a recreation that failed the console uses the tiler that was freed.
* An event of a window that is closed is handled for an instance number behind the last.
* A click and a choice on the console that overlap leave one source shown and another
  drawn upon.

Of the darknet networks:

* Convolutional, pooling, reorg, implicit and channel layers refuse every block, since
  their type is compared with two names by `||`. A network stops at its first convolution,
  with the status SUCCESS and the message that it is complete.
* The layer a route names is not checked: `tensor_outputs` is read behind its end.
* What a block says is believed: of a batchnorm whose `filters` are not the channels that
  come in, or a deconvolution without its bias, the weights of all that follows are read
  from the wrong place.
* A batchnorm without `activation` ends the program, since `block.at` throws.
* A `dropout` block adds no tensor, and the distances of what follows are off by one.

Of the plates:

* An empty line of the dictionary makes a character without a letter: the mask is then
  read behind the label, and the confidences are one more than its letters.
* Two instances that parse their first plates at once both read the dictionary, since
  `g_dict_ready` is set after it was tested; the entries are then there twice.

## What is not modelled

* Cloud messages: `context.subscribe_cb` is set to the function `subscribe_cb` itself, which
  is called with the arguments of another signature for each message. The first message
  received is undefined behaviour, and what is behind it (`parse_cloud_message`, the start
  and stop of a named sensor's record) is reached by no other way.
* The YOLO plugin, the boxes' parser and the calibration: CUDA kernels and floating point.
  ONNX files, which TensorRT parses.
* Data files and samples.

Within the modelled components: the text of reports and logs; the bins of the smart
record, the message consumers and the meter in the graph; the properties set on elements;
the ports of RTSP servers; images of vehicles; `nvmultiurisrcbin`, whose sources GStreamer
supervises itself; stream add and remove messages; `show_bbox_text`, which only
`process_meta` reads, which nobody calls; and data races whose outcome is a corrupted
container, among them the static set `processed_objects` that the streaming threads of all
instances share without a lock.

## Plan

Done: `RtspSource` with `SourceSupervisor`, `PerfMeter`, `VehicleAnalytics` with
`VehicleLedger`, `AppLifecycle`, `SecondaryGie`, `ConfigParser`, `PipelineGraph`,
`SourceTimers`, `TileSelection`, `YoloNetwork`, `PlateParser`, and the theorems above.
Next, in this order:

1. Composition of the recreation with the sources' stale flags (`RtspSource`): the timers
   doubled by it, as `SourceTimers` has those of seeks and recordings.
2. Abstract specifications: a program starts, runs and ends with a code; a meter counts
   and reports.
