----------------------------- MODULE TileSelection -----------------------------
(***************************************************************************)
(* Which source the tiled display shows alone (main.cpp): chosen on the    *)
(* console by z, a row and a column, or in the window by a click on its    *)
(* tile, and drawn upon by overlay_graphics (src/app.cpp).                 *)
(*                                                                         *)
(* The console is polled by the main loop, in which the pipelines are      *)
(* recreated as well; the window thread runs besides it.  Both read        *)
(* show-source of the tiler and then set it and active_source_index, in    *)
(* opposite orders and without a lock.  A key is looked for with select    *)
(* and read through the buffer of stdin.                                   *)
(***************************************************************************)
EXTENDS Integers, Sequences, FiniteSets

CONSTANTS
  NumInstances,  \* g_num_instances
  Tiled,         \* the instances whose tiled display is ENABLED
  Rows, Columns, \* of each tiled display
  Sources,       \* num_source_sub_bins of each
  Keys,          \* the keys considered
  Clicked,       \* the tiles clicked on
  MaxKeys, MaxTyped,   \* bounds: keys typed, and those not yet read
  MaxClicks,     \* bound: clicks
  MaxRecreates   \* bound: recreations of a pipeline

Instances == 0..(NumInstances - 1)
DigitOf == [c \in {"0", "1", "2", "3", "4"} |->
              CASE c = "0" -> 0 [] c = "1" -> 1 [] c = "2" -> 2 [] c = "3" -> 3 [] OTHER -> 4]
IsDigit(c) == c \in DOMAIN DigitOf

ASSUME TilesAssumption ==
  /\ NumInstances \in Nat \ {0}
  /\ Tiled \subseteq Instances
  /\ {Rows, Columns} \subseteq Nat \ {0}
  /\ Sources \in Nat \ {0} /\ Sources <= Rows * Columns
  /\ Clicked \subseteq 0..(Rows * Columns - 1)
  /\ {MaxKeys, MaxTyped, MaxClicks, MaxRecreates} \subseteq Nat

VARIABLES
  tty, stdin,      \* keys typed that nobody has read, and those in stdin's buffer
  main_loop,       \* "free", "wait" for a key, "rebuild" a pipeline, "teardown" or "ended"
  rebuilt,         \* the instance recreated or torn down
  selecting, rrowsel, g_rrow, g_rcfg,
  tiler,           \* of each instance: "alive", "freed" or "none"
  show,            \* show-source of each tiler; -1: all
  active,          \* active_source_index of each instance
  writes,          \* what is left to each thread of the handler it is in
  windows,         \* instances with a window
  x_events,        \* events of the windows not yet handled
  asleep,          \* the window thread has let g_disp_lock go
  keys, clicks, recreates,   \* budgets used
  unsure,          \* history: instances whose last two updates may not be whole
  torn,            \* history: a recreation has failed
  misused          \* history: who has used a tiler that was freed, or no instance

tile_keys == <<tty, stdin, keys>>
selection_vars == <<selecting, rrowsel, g_rrow, g_rcfg>>
tiler_vars == <<tiler, show, active>>
window_thread == <<windows, x_events, asleep, clicks>>
tile_vars == <<tile_keys, main_loop, rebuilt, selection_vars, tiler_vars, writes,
               window_thread, recreates, unsure, torn, misused>>

Threads == {"console", "window"}
ShowSource(i, s) == [what |-> "show", instance |-> i, value |-> s]
ActiveSource(i, s) == [what |-> "active", instance |-> i, value |-> s]

TileInit ==
  /\ tty = <<>> /\ stdin = <<>>
  /\ main_loop = "free"
  /\ rebuilt = 0
  /\ selecting = FALSE /\ rrowsel = FALSE /\ g_rrow = 0 /\ g_rcfg = 0
  /\ tiler = [i \in Instances |-> IF i \in Tiled THEN "alive" ELSE "none"]
  /\ show = [i \in Instances |-> -1]
  /\ active = [i \in Instances |-> -1]
  /\ writes = [t \in Threads |-> <<>>]
  /\ windows = Instances /\ x_events = <<>> /\ asleep = TRUE
  /\ keys = 0 /\ clicks = 0 /\ recreates = 0
  /\ unsure = {} /\ torn = FALSE /\ misused = {}

-------------------------------------------------------------------------------
(* Keys. *)

TypeKey(c) ==
  /\ keys < MaxKeys /\ Len(tty) < MaxTyped
  /\ main_loop \notin {"teardown", "ended"}   \* nobody reads any more
  /\ tty' = Append(tty, c)
  /\ keys' = keys + 1
  /\ UNCHANGED <<stdin, main_loop, rebuilt, selection_vars, tiler_vars, writes, window_thread,
                 recreates, unsure, torn, misused>>

\* fgetc: the buffer of stdin, filled with all that has been typed when it is empty.
CanRead == stdin # <<>> \/ tty # <<>>
ReadKey(c) ==
  /\ c = Head(stdin \o tty)
  /\ stdin' = Tail(IF stdin = <<>> THEN tty ELSE stdin)
  /\ tty' = IF stdin = <<>> THEN <<>> ELSE tty
  /\ UNCHANGED keys

-------------------------------------------------------------------------------
(* The two handlers: each reads show-source, decides, and leaves its writes. *)

Pending(i) == {t \in Threads : \E k \in 1..Len(writes[t]) : writes[t][k].instance = i}

\* A thread begins to update instance i: what it leaves is whole unless the other
\* one is updating it, or there is no tiler to update.
Update(t, i, ws) ==
  /\ writes' = [writes EXCEPT ![t] = ws]
  /\ unsure' = IF Pending(i) = {} /\ tiler[i] = "alive" THEN unsure \ {i} ELSE unsure \cup {i}

\* A tiler that was freed is used.
Uses(t, i) == misused' = IF tiler[i] = "freed" THEN misused \cup {t} ELSE misused

\* Mutant: the tile is not compared with the number of sources.
TileAt_Any(s) == s
\* A tile without a source is none.
TileAt(s) == IF s >= Sources THEN -1 ELSE s

\* Mutant: the keyboard is polled by a thread of its own.
Polled_Always(c) == writes["console"] = <<>> /\ tty # <<>> /\ ReadKey(c)
\* kbhit looks at the terminal alone, not at what stdin has already read from it.
Polled(c) == main_loop = "free" /\ writes["console"] = <<>> /\ tty # <<>> /\ ReadKey(c)

\* The instance the console is set to; its tiler is looked at for each key.
Current == g_rcfg
ConsoleLooks == IF Current \in Tiled THEN Uses("console", Current) ELSE UNCHANGED misused
Digit(c) == Current \in Tiled /\ selecting /\ IsDigit(c)

KeyRow(c) ==
  /\ Polled(c) /\ Digit(c) /\ ~rrowsel
  /\ Uses("console", Current)
  /\ g_rrow' = DigitOf[c]
  /\ rrowsel' = (DigitOf[c] < Rows)
  /\ UNCHANGED <<main_loop, rebuilt, selecting, g_rcfg, tiler_vars, writes, window_thread,
                 recreates, unsure, torn>>

KeyColumn(c) ==
  /\ Polled(c) /\ Digit(c) /\ rrowsel /\ DigitOf[c] < Columns
  /\ Uses("console", Current)
  /\ selecting' = FALSE /\ rrowsel' = FALSE
  /\ LET s == TileAt(Columns * g_rrow + DigitOf[c]) IN
     IF s = -1 THEN UNCHANGED <<writes, unsure>>
     ELSE Update("console", Current, <<ActiveSource(Current, s), ShowSource(Current, s)>>)
  /\ UNCHANGED <<main_loop, rebuilt, g_rrow, g_rcfg, tiler_vars, window_thread, recreates, torn>>

\* All tiles are shown and the console is not in the middle of a selection.
AllShown == Current \in Tiled /\ show[Current] = -1 /\ ~selecting

KeySelect(c) ==
  /\ Polled(c) /\ c = "z" /\ AllShown
  /\ Uses("console", Current)
  /\ selecting' = TRUE
  /\ UNCHANGED <<main_loop, rebuilt, rrowsel, g_rrow, g_rcfg, tiler_vars, writes, window_thread,
                 recreates, unsure, torn>>

AllTiles_Shown(i) == <<ShowSource(i, -1)>>   \* Mutant: the active source stays.
AllTiles(i) == <<ShowSource(i, -1), ActiveSource(i, -1)>>

\* Back to all tiles; a row that has been chosen stays chosen.
KeyTiledMode(c) ==
  /\ Polled(c) /\ c = "z" /\ ~AllShown
  /\ ConsoleLooks
  /\ Update("console", Current, AllTiles(Current))
  /\ selecting' = FALSE /\ g_rcfg' = 0
  /\ UNCHANGED <<main_loop, rebuilt, rrowsel, g_rrow, tiler_vars, window_thread, recreates, torn>>

\* Another instance: the main loop waits for its number.
KeyConfig(c) ==
  /\ Polled(c) /\ c = "c" /\ AllShown
  /\ Uses("console", Current)
  /\ main_loop' = "wait"
  /\ UNCHANGED <<rebuilt, selection_vars, tiler_vars, writes, window_thread, recreates, unsure, torn>>

\* A number that no instance has means the first.
Selected(c) ==
  IF ~IsDigit(c) THEN g_rcfg ELSE IF DigitOf[c] < NumInstances THEN DigitOf[c] ELSE 0

ConfigNumber(c) ==
  /\ main_loop = "wait" /\ CanRead /\ ReadKey(c)
  /\ main_loop' = "free"
  /\ g_rcfg' = Selected(c)
  /\ UNCHANGED <<rebuilt, selecting, rrowsel, g_rrow, tiler_vars, writes, window_thread,
                 recreates, unsure, torn, misused>>

KeyIgnored(c) ==
  /\ Polled(c)
  /\ c # "z" /\ ~(c = "c" /\ AllShown)
  /\ ~(Digit(c) /\ (rrowsel => DigitOf[c] < Columns))
  /\ ConsoleLooks
  /\ UNCHANGED <<main_loop, rebuilt, selection_vars, tiler_vars, writes, window_thread,
                 recreates, unsure, torn>>

-------------------------------------------------------------------------------
(* The window thread.  X asks for clicks of the windows of tiled displays only. *)

Click(i, button, s) ==
  /\ clicks < MaxClicks /\ i \in windows \cap Tiled
  /\ x_events' = Append(x_events, [instance |-> i, button |-> button, source |-> s])
  /\ clicks' = clicks + 1
  /\ UNCHANGED <<tile_keys, main_loop, rebuilt, selection_vars, tiler_vars, writes, windows,
                 asleep, recreates, unsure, torn, misused>>

\* It handles all events there are before it lets g_disp_lock go.
WakeUp ==
  /\ asleep /\ asleep' = FALSE
  /\ UNCHANGED <<tile_keys, main_loop, rebuilt, selection_vars, tiler_vars, writes, windows,
                 x_events, clicks, recreates, unsure, torn, misused>>

FallAsleep ==
  /\ ~asleep /\ x_events = <<>> /\ writes["window"] = <<>>
  /\ asleep' = TRUE
  /\ UNCHANGED <<tile_keys, main_loop, rebuilt, selection_vars, tiler_vars, writes, windows,
                 x_events, clicks, recreates, unsure, torn, misused>>

Handles(e) ==
  /\ ~asleep /\ x_events # <<>> /\ writes["window"] = <<>>
  /\ e = Head(x_events)
  /\ x_events' = Tail(x_events)

ButtonUnchanged ==
  UNCHANGED <<tile_keys, main_loop, rebuilt, selection_vars, tiler_vars, windows, asleep, clicks,
              recreates, torn>>

ButtonShow(e) ==
  /\ Handles(e) /\ e.instance \in windows
  /\ e.button = 1 /\ show[e.instance] = -1 /\ TileAt(e.source) > -1
  /\ Uses("window", e.instance)
  /\ LET s == TileAt(e.source) IN
     Update("window", e.instance, <<ShowSource(e.instance, s), ActiveSource(e.instance, s)>>)
  /\ ButtonUnchanged

ButtonTiled(e) ==
  /\ Handles(e) /\ e.instance \in windows /\ e.button = 3
  /\ Uses("window", e.instance)
  /\ Update("window", e.instance, AllTiles(e.instance))
  /\ ButtonUnchanged

ButtonIgnored(e) ==
  /\ Handles(e) /\ e.instance \in windows
  /\ e.button = 1 /\ (show[e.instance] # -1 \/ TileAt(e.source) = -1)
  /\ Uses("window", e.instance)
  /\ UNCHANGED <<writes, unsure>> /\ ButtonUnchanged

\* The window has been destroyed: its index is that of no instance.
ButtonNowhere(e) ==
  /\ Handles(e) /\ e.instance \notin windows
  /\ misused' = misused \cup {"nowhere"}
  /\ UNCHANGED <<writes, unsure>> /\ ButtonUnchanged

-------------------------------------------------------------------------------
\* The next write of a handler.
Write(t) ==
  /\ writes[t] # <<>>
  /\ LET w == Head(writes[t]) IN
     /\ writes' = [writes EXCEPT ![t] = Tail(writes[t])]
     /\ IF w.what = "active"
          THEN active' = [active EXCEPT ![w.instance] = w.value] /\ UNCHANGED <<show, misused>>
          ELSE /\ show' = IF tiler[w.instance] = "alive"
                          THEN [show EXCEPT ![w.instance] = w.value] ELSE show
               /\ Uses(t, w.instance)
               /\ UNCHANGED active
  /\ UNCHANGED <<tile_keys, main_loop, rebuilt, selection_vars, tiler, window_thread, recreates,
                 unsure, torn>>

-------------------------------------------------------------------------------
(* Recreation and the end of the program, in the main loop. *)

PollerIdle == main_loop = "free" /\ writes["console"] = <<>>

\* destroy_pipeline frees the tiler, whose pointer stays where it was.
DestroyPipeline(i) ==
  /\ PollerIdle /\ i \in Tiled /\ ~torn
  /\ recreates < MaxRecreates /\ recreates' = recreates + 1
  /\ main_loop' = "rebuild" /\ rebuilt' = i
  /\ tiler' = [tiler EXCEPT ![i] = "freed"]
  /\ UNCHANGED <<tile_keys, selection_vars, show, active, writes, window_thread, unsure, torn, misused>>

\* The new tiler shows all tiles, whatever active_source_index says.
CreatePipeline ==
  /\ main_loop = "rebuild" /\ main_loop' = "free"
  /\ tiler' = [tiler EXCEPT ![rebuilt] = "alive"]
  /\ show' = [show EXCEPT ![rebuilt] = -1]
  /\ unsure' = unsure \cup {rebuilt}
  /\ UNCHANGED <<tile_keys, rebuilt, selection_vars, active, writes, window_thread, recreates,
                 torn, misused>>

\* The program goes on without the pipeline.
CreateFails ==
  /\ main_loop = "rebuild" /\ main_loop' = "free"
  /\ torn' = TRUE
  /\ unsure' = unsure \cup {rebuilt}
  /\ UNCHANGED <<tile_keys, rebuilt, selection_vars, tiler_vars, writes, window_thread, recreates,
                 misused>>

LeaveMainLoop ==
  /\ PollerIdle
  /\ main_loop' = "teardown" /\ rebuilt' = 0
  /\ tiler' = [tiler EXCEPT ![0] = IF @ = "none" THEN @ ELSE "freed"]
  /\ UNCHANGED <<tile_keys, selection_vars, show, active, writes, window_thread, recreates,
                 unsure, torn, misused>>

\* Under g_disp_lock the window goes; then the next pipeline.
CloseWindow ==
  /\ main_loop = "teardown" /\ asleep
  /\ windows' = windows \ {rebuilt}
  /\ IF rebuilt + 1 \in Instances
       THEN /\ rebuilt' = rebuilt + 1
            /\ tiler' = [tiler EXCEPT ![rebuilt + 1] = IF @ = "none" THEN @ ELSE "freed"]
            /\ UNCHANGED main_loop
       ELSE main_loop' = "ended" /\ UNCHANGED <<rebuilt, tiler>>
  /\ UNCHANGED <<tile_keys, selection_vars, show, active, writes, x_events, asleep, clicks,
                 recreates, unsure, torn, misused>>

-------------------------------------------------------------------------------
ConsoleStep ==
  \E c \in Keys :
    \/ TypeKey(c) \/ KeyRow(c) \/ KeyColumn(c) \/ KeySelect(c) \/ KeyTiledMode(c)
    \/ KeyConfig(c) \/ ConfigNumber(c) \/ KeyIgnored(c)

WindowStep ==
  \/ \E i \in Instances, s \in Clicked : Click(i, 1, s)
  \/ \E i \in Instances : Click(i, 3, 0)
  \/ WakeUp \/ FallAsleep
  \/ x_events # <<>> /\ LET e == Head(x_events) IN
       ButtonShow(e) \/ ButtonTiled(e) \/ ButtonIgnored(e) \/ ButtonNowhere(e)

MainLoopStep ==
  (\E i \in Instances : DestroyPipeline(i)) \/ CreatePipeline \/ CreateFails
  \/ LeaveMainLoop \/ CloseWindow

TileNext == ConsoleStep \/ WindowStep \/ MainLoopStep \/ (\E t \in Threads : Write(t))

TileSpec == TileInit /\ [][TileNext]_tile_vars

-------------------------------------------------------------------------------
(* What the selection promises. *)

WriteOf == [what : {"show", "active"}, instance : Instances, value : Int]

TileTypeOK ==
  /\ tty \in Seq(Keys) /\ stdin \in Seq(Keys)
  /\ main_loop \in {"free", "wait", "rebuild", "teardown", "ended"}
  /\ rebuilt \in Instances
  /\ {selecting, rrowsel, asleep, torn} \subseteq BOOLEAN
  /\ g_rrow \in Nat /\ g_rcfg \in Instances
  /\ tiler \in [Instances -> {"alive", "freed", "none"}]
  /\ show \in [Instances -> Int] /\ active \in [Instances -> Int]
  /\ writes \in [Threads -> Seq(WriteOf)]
  /\ windows \subseteq Instances
  /\ x_events \in Seq([instance : Instances, button : {1, 3}, source : Nat])
  /\ {keys, clicks, recreates} \subseteq Nat
  /\ unsure \subseteq Instances
  /\ misused \subseteq Threads \cup {"nowhere"}

\* overlay_graphics looks up the source that active_source_index names in the table of
\* sources, and the tiler is set to one: both are always a source or none, also
\* while two threads are about to set them.
ActiveIsASource ==
  LET OneOf(v) == v \in -1..(Sources - 1) IN
  /\ \A i \in Instances : OneOf(show[i]) /\ OneOf(active[i])
  /\ \A t \in Threads : \A k \in 1..Len(writes[t]) : OneOf(writes[t][k].value)

\* At rest the source that is drawn upon is the one that is shown, unless the console
\* and the window thread have updated them at the same time or the tiler is a new one
\* (each handler sets the two in an order of its own, without a lock).
SelectionAgrees ==
  \A i \in Instances \ unsure :
    Pending(i) = {} /\ tiler[i] = "alive" => show[i] = active[i]

\* The console never looks at a tiler that was freed unless a recreation has failed;
\* the window thread does so only when a pipeline was being recreated or torn down,
\* and meets a window of no instance only at the end
\* (the pointer to the tiler is never cleared; polls and recreations share a loop).
TilersAreAlive ==
  /\ "console" \in misused => torn
  /\ "window" \in misused => recreates > 0 \/ main_loop \in {"teardown", "ended"}
  /\ "nowhere" \in misused => main_loop \in {"teardown", "ended"}
===============================================================================
