--------------------------- MODULE VehicleAnalytics ---------------------------
(***************************************************************************)
(* What the program learns about each vehicle and writes down once the     *)
(* vehicle has crossed two lines (src/analytics.cpp).                      *)
(*                                                                         *)
(* parse_analytics_metadata runs in one streaming thread of the pipeline   *)
(* and calls parse_object_metadata for each object of each frame: for a    *)
(* vehicle, whose metadata tells of crossed lines and a direction, and for *)
(* the number plates found in it, which carry the plate's reading and see  *)
(* the classes of the vehicle they belong to.  An action is one such call. *)
(*                                                                         *)
(* Reports are files of the day's directory: they survive the program,     *)
(* while the tracker may number its vehicles from the start again.  Images  *)
(* of vehicles, which nothing else depends on, are left out.               *)
(***************************************************************************)
EXTENDS Integers, Sequences, FiniteSets

CONSTANTS
  Vehicles,       \* object_id of the tracked objects
  Lines,          \* labels of the virtual lines
  Directions,     \* labels of the directions
  UNKNOWN_LABEL,  \* direction before it is known
  Classes,        \* labels the type classifiers give
  ObjLabel,       \* obj_label: the label the detector gives
  Confidences,    \* result_prob above 0
  MAX_PROCESSED_OBJECTS_LIMIT,
  MaxPlates,      \* the ten plate readings that are kept
  MaxTime,        \* bound: last tick of the timer
  MaxRestarts,    \* bound: restarts of the program
  MaxWriteErrors  \* bound: reports whose file cannot be opened

ASSUME LimitsAssumption ==
  /\ MAX_PROCESSED_OBJECTS_LIMIT \in Nat \ {0}
  /\ MaxPlates \in Nat
  /\ Confidences \subseteq Nat \ {0}
  /\ MaxTime \in Nat /\ MaxRestarts \in Nat /\ MaxWriteErrors \in Nat

VARIABLES
  traffic_data_map,   \* the vehicles being followed and what is known of each
  processed_objects,  \* vehicles whose lines are passed
  files,              \* reports on disk
  now,                \* the analytics timer
  run,                \* runs of the program so far
  write_errors,       \* budget used
  unwritten           \* history: vehicles whose report could not be opened

vars == <<traffic_data_map, processed_objects, files, now, run, write_errors,
          unwritten>>

Crossing == [line : Lines, time : Nat]
Data == [crossings : Seq(Crossing), direction : Directions \cup {UNKNOWN_LABEL},
         label : Classes \cup {ObjLabel, UNKNOWN_LABEL}, confidence : Confidences \cup {0},
         lp_data : Seq(Confidences)]
Report == [data : Data, run : Nat]

TypeOK ==
  /\ DOMAIN traffic_data_map \subseteq Vehicles
  /\ \A v \in DOMAIN traffic_data_map :
       /\ traffic_data_map[v] \in Data
       /\ Len(traffic_data_map[v].crossings) < 2
       /\ Len(traffic_data_map[v].lp_data) <= MaxPlates
  /\ processed_objects \subseteq Vehicles
  /\ DOMAIN files \subseteq Vehicles
  /\ \A v \in DOMAIN files : files[v] \in Report
  /\ now \in Nat
  /\ run \in Nat
  /\ write_errors \in Nat
  /\ unwritten \subseteq Vehicles

Nothing == [v \in {} |-> {}]

Init ==
  /\ traffic_data_map = Nothing
  /\ processed_objects = {}
  /\ files = Nothing
  /\ now = 0
  /\ run = 0
  /\ write_errors = 0
  /\ unwritten = {}

-------------------------------------------------------------------------------
(* TrafficAnalysisData *)

NewData == [crossings |-> <<>>, direction |-> UNKNOWN_LABEL, label |-> UNKNOWN_LABEL,
            confidence |-> 0, lp_data |-> <<>>]

\* Mutant: the crossings are prepended.
Crosses_Reversed(d, lines) ==
  LET new == [i \in 1..Len(lines) |-> [line |-> lines[i], time |-> now]]
      all == new \o d.crossings
  IN [d EXCEPT !.crossings = IF Len(all) > 2 THEN SubSeq(all, 1, 2) ELSE all]
\* crossing_pair takes the first two crossings there are, of whichever lines.
Crosses(d, lines) ==
  LET new == [i \in 1..Len(lines) |-> [line |-> lines[i], time |-> now]]
      all == d.crossings \o new
  IN [d EXCEPT !.crossings = IF Len(all) > 2 THEN SubSeq(all, 1, 2) ELSE all]

lines_passed(d) == Len(d.crossings) = 2

\* The object may enter the map: it is there or was not processed.
Followed(v) == v \in DOMAIN traffic_data_map \/ v \notin processed_objects

DataOf(v) == IF v \in DOMAIN traffic_data_map THEN traffic_data_map[v] ELSE NewData

Entered(v, d) ==
  [u \in DOMAIN traffic_data_map \cup {v} |-> IF u = v THEN d ELSE traffic_data_map[u]]

Erased(v) ==
  [u \in DOMAIN traffic_data_map \ {v} |-> traffic_data_map[u]]

-------------------------------------------------------------------------------
(* TrafficAnalysisData::save_to_file *)

\* Mutant: a file that is there is written again.
SaveToFile_Again(v, d) ==
  /\ files' = [u \in DOMAIN files \cup {v} |->
                 IF u = v THEN [data |-> d, run |-> run] ELSE files[u]]
  /\ UNCHANGED <<write_errors, unwritten>>
\* Mutant: nothing is written before the direction is known (is_ready).
SaveToFile_WhenReady(v, d) ==
  /\ files' = IF d.direction = UNKNOWN_LABEL THEN files
              ELSE [u \in DOMAIN files \cup {v} |->
                      IF u = v THEN [data |-> d, run |-> run] ELSE files[u]]
  /\ UNCHANGED <<write_errors, unwritten>>
\* A file of that name is left alone; a file that cannot be opened is not noticed.
SaveToFile(v, d) ==
  \/ v \in DOMAIN files /\ UNCHANGED <<files, write_errors, unwritten>>
  \/ /\ v \notin DOMAIN files
     /\ files' = [u \in DOMAIN files \cup {v} |->
                    IF u = v THEN [data |-> d, run |-> run] ELSE files[u]]
     /\ UNCHANGED <<write_errors, unwritten>>
  \/ /\ v \notin DOMAIN files
     /\ write_errors < MaxWriteErrors
     /\ write_errors' = write_errors + 1
     /\ unwritten' = unwritten \cup {v}
     /\ UNCHANGED files

\* All the processed objects are forgotten when there are too many of them.
Processed(v) ==
  IF Cardinality(processed_objects) >= MAX_PROCESSED_OBJECTS_LIMIT THEN {v}
  ELSE processed_objects \cup {v}

Finish(v, d) ==
  /\ SaveToFile(v, d)
  /\ traffic_data_map' = Erased(v)
  /\ processed_objects' = Processed(v)

Follow(v, d) ==
  /\ traffic_data_map' = Entered(v, d)
  /\ UNCHANGED <<processed_objects, files, write_errors, unwritten>>

-------------------------------------------------------------------------------
(* parse_object_metadata *)

\* A vehicle: parse_user_metadata reads the lines it crossed in this frame and,
\* when two are passed, its direction.
ParseVehicle(v, lines, dir) ==
  LET crossed == Crosses(DataOf(v), lines) IN
  /\ Followed(v)
  /\ IF lines_passed(crossed) THEN Finish(v, [crossed EXCEPT !.direction = dir])
     ELSE Follow(v, crossed)
  /\ UNCHANGED <<now, run>>

\* The vehicle's classes: its label starts from the detector's, the confidence from
\* the best that was ever seen.
Classified(d, class, prob) ==
  IF d.confidence < prob THEN [d EXCEPT !.label = class, !.confidence = prob]
  ELSE [d EXCEPT !.label = ObjLabel]

Unclassified(d) == [d EXCEPT !.label = ObjLabel]

\* A plate of the vehicle: parse_lpr_classifier_metadata keeps the first readings,
\* then parse_type_classifier_metadata reads the vehicle's classes.
ReadPlate(d, prob) ==
  IF Len(d.lp_data) < MaxPlates THEN [d EXCEPT !.lp_data = Append(@, prob)] ELSE d

ParsePlate(v, plate) ==
  /\ Followed(v)
  /\ LET d == IF plate = 0 THEN DataOf(v) ELSE ReadPlate(DataOf(v), plate)
     IN \/ Follow(v, Unclassified(d))
        \/ \E c \in Classes, p \in Confidences : Follow(v, Classified(d, c, p))
  /\ UNCHANGED <<now, run>>

-------------------------------------------------------------------------------
Tick ==
  /\ now < MaxTime
  /\ now' = now + 1
  /\ UNCHANGED <<traffic_data_map, processed_objects, files, run, write_errors,
                 unwritten>>

\* The program is started again on the same day.
Restart ==
  /\ run < MaxRestarts
  /\ run' = run + 1
  /\ traffic_data_map' = Nothing
  /\ processed_objects' = {}
  /\ now' = 0
  /\ unwritten' = {}
  /\ UNCHANGED <<files, write_errors>>

CrossedInFrame ==
  {<<>>} \cup {<<l>> : l \in Lines} \cup {lm \in Lines \X Lines : lm[1] # lm[2]}

Next ==
  \/ \E v \in Vehicles :
       \/ \E lines \in CrossedInFrame, dir \in Directions \cup {UNKNOWN_LABEL} :
            ParseVehicle(v, lines, dir)
       \/ \E plate \in Confidences \cup {0} : ParsePlate(v, plate)
  \/ Tick
  \/ Restart

Spec == Init /\ [][Next]_vars

-------------------------------------------------------------------------------
(* Properties *)

\* What was written about a vehicle is never written over, though processed vehicles
\* are forgotten at the limit and come back under the same id after a restart.
ReportsFinal ==
  [][\A v \in DOMAIN files : v \in DOMAIN files' /\ files'[v] = files[v]]_vars

\* A vehicle is either followed or done with, and those done with are at most
\* MAX_PROCESSED_OBJECTS_LIMIT: no second record is opened for one.
FollowedOrDone ==
  /\ DOMAIN traffic_data_map \cap processed_objects = {}
  /\ Cardinality(processed_objects) <= MAX_PROCESSED_OBJECTS_LIMIT

\* A vehicle is done with only when there is a report of it, unless its file could
\* not be opened.
DoneIsReported == processed_objects \subseteq DOMAIN files \cup unwritten

\* The speed of a report is taken between a first crossing and a later one.
CrossingsInOrder ==
  \A v \in DOMAIN files :
    LET c == files[v].data.crossings
    IN Len(c) = 2 /\ c[1].time <= c[2].time

\* The analytics keep the vehicles' ledger (parse_object_metadata, save_to_file): a vehicle
\* done with is not followed again while it is remembered, has one report, and the first
\* is final, though vehicles are forgotten at the limit and ids start again.
Ledger ==
  INSTANCE VehicleLedger
  WITH Limit <- MAX_PROCESSED_OBJECTS_LIMIT,
       tracked <- DOMAIN traffic_data_map,
       done <- processed_objects,
       ledger <- files,
       lost <- unwritten
ImplementsLedger == Ledger!Spec
===============================================================================
