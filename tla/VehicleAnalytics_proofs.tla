------------------------ MODULE VehicleAnalytics_proofs ------------------------
(* Proofs about the vehicle analytics, for any vehicles, lines, classes and limits. *)
EXTENDS VehicleAnalytics, FiniteSetTheorems, SequenceTheorems, TLAPS

-------------------------------------------------------------------------------
(* A call for a vehicle or a plate follows the vehicle or finishes it *)

LEMMA CallFollowsOrFinishes ==
  ASSUME Next
  PROVE  \/ \E v \in Vehicles : \/ Followed(v) /\ \E d : Follow(v, d)
                                \/ Followed(v) /\ \E d : Finish(v, d)
         \/ Restart
         \/ Tick
<1>1. ASSUME NEW v \in Vehicles, NEW lines, NEW dir, ParseVehicle(v, lines, dir)
      PROVE  \/ Followed(v) /\ \E d : Follow(v, d)
             \/ Followed(v) /\ \E d : Finish(v, d)
  BY <1>1 DEF ParseVehicle
<1>2. ASSUME NEW v \in Vehicles, NEW plate, ParsePlate(v, plate)
      PROVE  Followed(v) /\ \E d : Follow(v, d)
  BY <1>2 DEF ParsePlate
<1>3. QED BY <1>1, <1>2 DEF Next

-------------------------------------------------------------------------------
(* Reports are final *)

LEMMA SaveKeepsReports ==
  ASSUME NEW v, NEW d, SaveToFile(v, d), NEW u \in DOMAIN files
  PROVE  u \in DOMAIN files' /\ files'[u] = files[u]
BY DEF SaveToFile

\* No report is ever overwritten or removed, by any vehicle in any run of the program
\* (save_to_file).
THEOREM ReportsAlwaysFinal == Spec => ReportsFinal
<1>1. ASSUME [Next]_vars, NEW u \in DOMAIN files
      PROVE  u \in DOMAIN files' /\ files'[u] = files[u]
  <2>1. ASSUME NEW v, NEW d, Follow(v, d) PROVE UNCHANGED files
    BY <2>1 DEF Follow
  <2>2. ASSUME NEW v, NEW d, Finish(v, d)
        PROVE  u \in DOMAIN files' /\ files'[u] = files[u]
    BY <2>2, SaveKeepsReports DEF Finish
  <2>3. ASSUME Restart \/ Tick \/ UNCHANGED vars PROVE UNCHANGED files
    BY <2>3 DEF Restart, Tick, vars
  <2>4. QED BY <1>1, <2>1, <2>2, <2>3, CallFollowsOrFinishes
<1>2. [Next]_vars => [\A v \in DOMAIN files : v \in DOMAIN files' /\ files'[v] = files[v]]_vars
  BY <1>1
<1>3. QED BY <1>2, PTL DEF Spec, ReportsFinal

-------------------------------------------------------------------------------
(* The vehicles followed and those done with *)

SetsInv == IsFiniteSet(processed_objects) /\ FollowedOrDone

LEMMA FollowKeepsSets ==
  ASSUME SetsInv, NEW v, NEW d, Followed(v), Follow(v, d)
  PROVE  SetsInv'
<1>1. v \notin processed_objects
  BY DEF Followed, SetsInv, FollowedOrDone
<1>2. DOMAIN traffic_data_map' = DOMAIN traffic_data_map \cup {v}
  BY DEF Follow, Entered
<1>3. QED BY <1>1, <1>2 DEF Follow, SetsInv, FollowedOrDone

LEMMA FinishKeepsSets ==
  ASSUME SetsInv, NEW v, NEW d, Finish(v, d)
  PROVE  SetsInv'
<1>0. MAX_PROCESSED_OBJECTS_LIMIT \in Nat /\ MAX_PROCESSED_OBJECTS_LIMIT >= 1
  BY LimitsAssumption
<1>1. DOMAIN traffic_data_map' = DOMAIN traffic_data_map \ {v}
  BY DEF Finish, Erased
<1>2. processed_objects' = Processed(v)
  BY DEF Finish
<1>3. /\ Cardinality(processed_objects) \in Nat
      /\ IsFiniteSet(processed_objects)
      /\ DOMAIN traffic_data_map \cap processed_objects = {}
  BY FS_CardinalityType DEF SetsInv, FollowedOrDone
<1>4. CASE Cardinality(processed_objects) >= MAX_PROCESSED_OBJECTS_LIMIT
  <2>1. processed_objects' = {v}
    BY <1>2, <1>4 DEF Processed
  <2>2. IsFiniteSet({v}) /\ Cardinality({v}) = 1
    BY FS_Singleton
  <2>3. DOMAIN traffic_data_map' \cap {v} = {}
    BY <1>1
  <2>4. Cardinality(processed_objects') <= MAX_PROCESSED_OBJECTS_LIMIT
    BY <1>0, <2>1, <2>2
  <2>5. QED BY <2>1, <2>2, <2>3, <2>4 DEF SetsInv, FollowedOrDone
<1>5. CASE ~(Cardinality(processed_objects) >= MAX_PROCESSED_OBJECTS_LIMIT)
  <2>1. processed_objects' = processed_objects \cup {v}
    BY <1>2, <1>5 DEF Processed
  <2>2. /\ IsFiniteSet(processed_objects')
        /\ \/ Cardinality(processed_objects') = Cardinality(processed_objects)
           \/ Cardinality(processed_objects') = Cardinality(processed_objects) + 1
    BY <1>3, <2>1, FS_AddElement
  <2>3. Cardinality(processed_objects') <= MAX_PROCESSED_OBJECTS_LIMIT
    BY <1>0, <1>3, <1>5, <2>2
  <2>4. DOMAIN traffic_data_map' \cap processed_objects' = {}
    BY <1>1, <1>3, <2>1
  <2>5. QED BY <2>2, <2>3, <2>4 DEF SetsInv, FollowedOrDone
<1>6. QED BY <1>4, <1>5

LEMMA SetsAlways == Spec => []SetsInv
<1>0. IsFiniteSet({}) /\ Cardinality({}) = 0 /\ 0 <= MAX_PROCESSED_OBJECTS_LIMIT
  BY FS_EmptySet, LimitsAssumption
<1>1. Init => SetsInv
  BY <1>0 DEF Init, SetsInv, FollowedOrDone
<1>2. SetsInv /\ [Next]_vars => SetsInv'
  <2> SUFFICES ASSUME SetsInv, [Next]_vars
               PROVE  SetsInv'
    OBVIOUS
  <2>1. CASE Restart
    <3>1. processed_objects' = {}
      BY <2>1 DEF Restart
    <3>2. QED BY <1>0, <3>1 DEF SetsInv, FollowedOrDone
  <2>2. CASE Tick \/ UNCHANGED vars
    <3>1. UNCHANGED <<traffic_data_map, processed_objects>>
      BY <2>2 DEF Tick, vars
    <3>2. QED BY <3>1 DEF SetsInv, FollowedOrDone
  <2>3. QED BY <2>1, <2>2, CallFollowsOrFinishes, FollowKeepsSets, FinishKeepsSets
<1>3. QED BY <1>1, <1>2, PTL DEF Spec

\* A vehicle is never followed and done with at once, and the set of those done with
\* stays within its limit (parse_object_metadata).
THEOREM AlwaysFollowedOrDone == Spec => []FollowedOrDone
<1>1. SetsInv => FollowedOrDone
  BY DEF SetsInv
<1>2. QED BY <1>1, SetsAlways, PTL

-------------------------------------------------------------------------------
(* Done means reported *)

\* Whoever is done with has a report or is known to lack one; a restart starts both
\* anew (save_to_file, parse_object_metadata).
THEOREM DoneIsAlwaysReported == Spec => []DoneIsReported
<1>1. Init => DoneIsReported
  BY DEF Init, DoneIsReported
<1>2. DoneIsReported /\ [Next]_vars => DoneIsReported'
  <2> SUFFICES ASSUME DoneIsReported, [Next]_vars
               PROVE  DoneIsReported'
    OBVIOUS
  <2>1. ASSUME NEW v, NEW d, Follow(v, d)
        PROVE  DoneIsReported'
    BY <2>1 DEF Follow, DoneIsReported
  <2>2. ASSUME NEW v, NEW d, Finish(v, d)
        PROVE  DoneIsReported'
    <3>1. processed_objects' \subseteq processed_objects \cup {v}
      BY <2>2 DEF Finish, Processed
    <3>2. /\ DOMAIN files \cup unwritten \subseteq DOMAIN files' \cup unwritten'
          /\ v \in DOMAIN files' \cup unwritten'
      BY <2>2 DEF Finish, SaveToFile
    <3>3. QED BY <3>1, <3>2 DEF DoneIsReported
  <2>3. CASE Restart
    BY <2>3 DEF Restart, DoneIsReported
  <2>4. CASE Tick \/ UNCHANGED vars
    BY <2>4 DEF Tick, vars, DoneIsReported
  <2>5. QED BY <2>1, <2>2, <2>3, <2>4, CallFollowsOrFinishes
<1>3. QED BY <1>1, <1>2, PTL DEF Spec

-------------------------------------------------------------------------------
(* Types, and the order of the crossings *)

\* What is known of a vehicle being followed: fewer than two crossings, all of them past.
Kept(d) ==
  /\ d \in Data
  /\ Len(d.crossings) < 2
  /\ Len(d.lp_data) <= MaxPlates
  /\ \A k \in 1..Len(d.crossings) : d.crossings[k].time <= now

\* What is written of one.
Written(d) ==
  /\ d \in Data
  /\ Len(d.crossings) = 2
  /\ d.crossings[1].time <= d.crossings[2].time

CrossingsInv ==
  /\ TypeOK
  /\ \A v \in DOMAIN traffic_data_map : Kept(traffic_data_map[v])
  /\ CrossingsInOrder

LEMMA LinesInFrame ==
  ASSUME NEW lines \in CrossedInFrame
  PROVE  lines \in Seq(Lines)
<1>1. CASE lines = <<>>
  BY <1>1
<1>2. CASE \E l \in Lines : lines = <<l>>
  BY <1>2
<1>3. CASE \E l, m \in Lines : lines = <<l, m>>
  BY <1>3
<1>4. QED BY <1>1, <1>2, <1>3 DEF CrossedInFrame

LEMMA NewDataKept == Kept(NewData)
<1>1. <<>> \in Seq(Crossing) /\ <<>> \in Seq(Confidences) /\ Len(<<>>) = 0
  OBVIOUS
<1>2. NewData \in Data
  BY <1>1 DEF NewData, Data
<1>3. QED BY <1>1, <1>2, LimitsAssumption DEF NewData, Kept

LEMMA DataOfKept ==
  ASSUME CrossingsInv, NEW v
  PROVE  Kept(DataOf(v))
BY NewDataKept DEF CrossingsInv, DataOf

LEMMA FirstTwo ==
  ASSUME NEW S, NEW s \in Seq(S), Len(s) > 2
  PROVE  /\ SubSeq(s, 1, 2) \in Seq(S) /\ Len(SubSeq(s, 1, 2)) = 2
         /\ \A k \in 1..2 : SubSeq(s, 1, 2)[k] = s[k]
<1>1. Len(s) \in Nat /\ 1 \in 1..(Len(s) + 1) /\ 2 \in 0..Len(s) /\ 2 - 1 + 1 = 2
  OBVIOUS
<1>2. \A k \in 1..2 : 1 + k - 1 = k
  OBVIOUS
<1>3. QED BY <1>1, <1>2, SubSeqProperties

\* At most one crossing is kept from earlier frames, and it comes first.
LEMMA CrossesOrdered ==
  ASSUME now \in Nat, NEW d, Kept(d), NEW lines \in Seq(Lines)
  PROVE  LET c == Crosses(d, lines)
         IN /\ c \in Data
            /\ Len(c.lp_data) <= MaxPlates
            /\ Len(c.crossings) <= 2
            /\ \A k \in 1..Len(c.crossings) : c.crossings[k].time <= now
            /\ lines_passed(c) => c.crossings[1].time <= c.crossings[2].time
<1> DEFINE new == [i \in 1..Len(lines) |-> [line |-> lines[i], time |-> now]]
           all == d.crossings \o new
           first == IF Len(all) > 2 THEN SubSeq(all, 1, 2) ELSE all
           c == Crosses(d, lines)
<1>1. d.crossings \in Seq(Crossing) /\ Len(d.crossings) \in {0, 1}
  <2>1. d.crossings \in Seq(Crossing) /\ Len(d.crossings) < 2
    BY DEF Kept, Data
  <2>2. Len(d.crossings) \in Nat
    BY <2>1
  <2>3. \A n \in Nat : n < 2 => n \in {0, 1}
    OBVIOUS
  <2>4. QED BY <2>1, <2>2, <2>3
<1>2. new \in Seq(Crossing) /\ Len(new) = Len(lines)
  BY DEF Crossing
<1>3. all \in Seq(Crossing) /\ Len(all) = Len(d.crossings) + Len(lines)
  BY <1>1, <1>2
<1>4. \A k \in 1..Len(all) :
        /\ all[k].time \in Nat
        /\ all[k].time <= now
        /\ k > 1 => all[k].time = now
  <2>1. ASSUME NEW k \in 1..Len(all)
        PROVE  all[k] \in Crossing
    BY <1>3
  <2>2. ASSUME NEW k \in 1..Len(d.crossings)
        PROVE  all[k].time <= now /\ k <= 1
    <3>1. all[k] = d.crossings[k]
      BY <1>1, <1>2
    <3>2. QED BY <1>1, <3>1 DEF Kept
  <2>3. ASSUME NEW k \in 1..Len(all), k > Len(d.crossings)
        PROVE  all[k].time = now
    <3>1. all[k] = new[k - Len(d.crossings)]
      BY <1>1, <1>2, <2>3
    <3>2. k - Len(d.crossings) \in 1..Len(lines)
      BY <1>1, <1>3, <2>3
    <3>3. QED BY <3>1, <3>2
  <2>4. QED
    <3>1. TAKE k \in 1..Len(all)
    <3>2. all[k].time \in Nat
      BY <2>1 DEF Crossing
    <3>3. CASE k \in 1..Len(d.crossings)
      BY <2>2, <3>2, <3>3
    <3>4. CASE k > Len(d.crossings)
      BY <2>3, <3>2, <3>4
    <3>5. QED BY <1>1, <3>3, <3>4
<1>5. /\ first \in Seq(Crossing)
      /\ Len(first) <= 2 /\ Len(first) <= Len(all)
      /\ \A k \in 1..Len(first) : first[k] = all[k]
  <2>1. CASE Len(all) > 2
    <3>1. first = SubSeq(all, 1, 2)
      BY <2>1
    <3>2. /\ SubSeq(all, 1, 2) \in Seq(Crossing) /\ Len(SubSeq(all, 1, 2)) = 2
          /\ \A k \in 1..2 : SubSeq(all, 1, 2)[k] = all[k]
      BY <1>3, <2>1, FirstTwo
    <3>3. 2 <= Len(all)
      BY <1>3, <2>1
    <3>4. first \in Seq(Crossing)
      BY <3>1, <3>2, Zenon
    <3>5. Len(first) = 2
      BY <3>1, <3>2, Zenon
    <3>6. \A k \in 1..2 : first[k] = all[k]
      BY <3>1, <3>2, Zenon
    <3> HIDE DEF new, all, first
    <3>7. QED BY <3>3, <3>4, <3>5, <3>6
  <2>2. CASE ~(Len(all) > 2)
    BY <1>1, <1>3, <2>2
  <2>3. QED BY <2>1, <2>2
<1>6. c = [d EXCEPT !.crossings = first]
  BY DEF Crosses
<1> HIDE DEF new, all, first
<1>7. c \in Data /\ c.crossings = first /\ c.lp_data = d.lp_data
  BY <1>5, <1>6 DEF Kept, Data
<1>8. \A k \in 1..Len(first) : first[k].time <= now
  BY <1>3, <1>4, <1>5
<1>9. Len(first) = 2 => first[1].time <= first[2].time
  <2>1. SUFFICES ASSUME Len(first) = 2
                 PROVE  first[1].time <= first[2].time
    OBVIOUS
  <2>2. 1 \in 1..Len(all) /\ 2 \in 1..Len(all) /\ first[1] = all[1] /\ first[2] = all[2]
    BY <1>3, <1>5, <2>1
  <2>3. QED BY <1>4, <2>2
<1>10. QED BY <1>5, <1>7, <1>8, <1>9 DEF Kept, lines_passed

LEMMA ReadPlateKept ==
  ASSUME NEW d, Kept(d), NEW prob \in Confidences
  PROVE  Kept(ReadPlate(d, prob))
<1>1. d.lp_data \in Seq(Confidences)
  BY DEF Kept, Data
<1>2. CASE Len(d.lp_data) < MaxPlates
  <2>1. ReadPlate(d, prob) = [d EXCEPT !.lp_data = Append(d.lp_data, prob)]
    BY <1>2 DEF ReadPlate, Kept, Data
  <2>2. /\ Append(d.lp_data, prob) \in Seq(Confidences)
        /\ Len(Append(d.lp_data, prob)) = Len(d.lp_data) + 1
    BY <1>1
  <2>3. Len(d.lp_data) + 1 <= MaxPlates
    BY <1>1, <1>2, LimitsAssumption
  <2>4. QED BY <2>1, <2>2, <2>3 DEF Kept, Data
<1>3. CASE ~(Len(d.lp_data) < MaxPlates)
  BY <1>3 DEF ReadPlate
<1>4. QED BY <1>2, <1>3

LEMMA ClassKept ==
  ASSUME NEW d, Kept(d)
  PROVE  /\ Kept(Unclassified(d))
         /\ \A c \in Classes, p \in Confidences : Kept(Classified(d, c, p))
<1>1. Kept(Unclassified(d))
  BY DEF Unclassified, Kept, Data
<1>2. ASSUME NEW c \in Classes, NEW p \in Confidences
      PROVE  Kept(Classified(d, c, p))
  BY DEF Classified, Kept, Data
<1>3. QED BY <1>1, <1>2

LEMMA FollowKeepsCrossings ==
  ASSUME CrossingsInv, NEW v \in Vehicles, NEW d, Kept(d), Follow(v, d),
         UNCHANGED <<now, run>>
  PROVE  CrossingsInv'
<1>1. /\ DOMAIN traffic_data_map' = DOMAIN traffic_data_map \cup {v}
      /\ traffic_data_map'[v] = d
      /\ \A u \in DOMAIN traffic_data_map : u # v => traffic_data_map'[u] = traffic_data_map[u]
  BY DEF Follow, Entered
<1>2. UNCHANGED <<processed_objects, files, write_errors, unwritten>>
  BY DEF Follow
<1>3. \A u \in DOMAIN traffic_data_map' : Kept(traffic_data_map'[u])
  BY <1>1 DEF CrossingsInv
<1>4. \A u \in DOMAIN traffic_data_map' : Kept(traffic_data_map[u])'
  BY <1>3 DEF Kept
<1>5. TypeOK'
  BY <1>1, <1>2, <1>3 DEF CrossingsInv, TypeOK, Kept
<1>6. QED BY <1>2, <1>4, <1>5 DEF CrossingsInv, CrossingsInOrder

LEMMA FinishKeepsCrossings ==
  ASSUME CrossingsInv, NEW v \in Vehicles, NEW d, Written(d), Finish(v, d),
         UNCHANGED <<now, run>>
  PROVE  CrossingsInv'
<1>1. /\ DOMAIN traffic_data_map' \subseteq DOMAIN traffic_data_map
      /\ \A u \in DOMAIN traffic_data_map' : traffic_data_map'[u] = traffic_data_map[u]
  BY DEF Finish, Erased
<1>2. processed_objects' \subseteq Vehicles
  BY DEF Finish, Processed, CrossingsInv, TypeOK
<1>3. /\ DOMAIN files' \subseteq DOMAIN files \cup {v}
      /\ \A u \in DOMAIN files' : \/ u \in DOMAIN files /\ files'[u] = files[u]
                                  \/ files'[u] = [data |-> d, run |-> run]
  BY DEF Finish, SaveToFile
<1>4. write_errors' \in Nat /\ unwritten' \subseteq Vehicles
  BY DEF Finish, SaveToFile, CrossingsInv, TypeOK
<1>5. \A u \in DOMAIN files' : files'[u] \in Report /\ Written(files'[u].data)
  <2>1. [data |-> d, run |-> run] \in Report
    BY DEF Written, Report, CrossingsInv, TypeOK
  <2>2. \A u \in DOMAIN files : files[u] \in Report /\ Written(files[u].data)
    BY DEF CrossingsInv, TypeOK, CrossingsInOrder, Written, Report
  <2>3. QED BY <1>3, <2>1, <2>2
<1>6. TypeOK'
  BY <1>1, <1>2, <1>3, <1>4, <1>5 DEF CrossingsInv, TypeOK
<1>7. CrossingsInOrder'
  BY <1>5 DEF CrossingsInOrder, Written
<1>8. \A u \in DOMAIN traffic_data_map' : Kept(traffic_data_map[u])'
  BY <1>1 DEF CrossingsInv, Kept
<1>9. QED BY <1>6, <1>7, <1>8 DEF CrossingsInv

LEMMA VehicleKeepsCrossings ==
  ASSUME CrossingsInv, NEW v \in Vehicles, NEW lines \in CrossedInFrame,
         NEW dir \in Directions \cup {UNKNOWN_LABEL}, ParseVehicle(v, lines, dir)
  PROVE  CrossingsInv'
<1> DEFINE c == Crosses(DataOf(v), lines)
<1>1. now \in Nat
  BY DEF CrossingsInv, TypeOK
<1>2. /\ c \in Data
      /\ Len(c.lp_data) <= MaxPlates
      /\ Len(c.crossings) <= 2
      /\ \A k \in 1..Len(c.crossings) : c.crossings[k].time <= now
      /\ lines_passed(c) => c.crossings[1].time <= c.crossings[2].time
  BY <1>1, LinesInFrame, DataOfKept, CrossesOrdered
<1>3. CASE lines_passed(c)
  <2>1. Finish(v, [c EXCEPT !.direction = dir])
    BY <1>3 DEF ParseVehicle
  <2>2. Written([c EXCEPT !.direction = dir])
    BY <1>2, <1>3 DEF Written, Data, lines_passed
  <2>3. QED BY <2>1, <2>2, FinishKeepsCrossings DEF ParseVehicle
<1>4. CASE ~lines_passed(c)
  <2>1. Follow(v, c)
    BY <1>4 DEF ParseVehicle
  <2>2. Len(c.crossings) < 2
    <3>1. c.crossings \in Seq(Crossing)
      BY <1>2 DEF Data
    <3>2. Len(c.crossings) \in Nat
      BY <3>1
    <3>3. \A n \in Nat : n <= 2 /\ n # 2 => n < 2
      OBVIOUS
    <3>4. QED BY <1>2, <1>4, <3>2, <3>3 DEF lines_passed
  <2>3. Kept(c)
    BY <1>2, <2>2 DEF Kept
  <2>4. QED BY <2>1, <2>3, FollowKeepsCrossings DEF ParseVehicle
<1>5. QED BY <1>3, <1>4

LEMMA PlateKeepsCrossings ==
  ASSUME CrossingsInv, NEW v \in Vehicles, NEW plate \in Confidences \cup {0},
         ParsePlate(v, plate)
  PROVE  CrossingsInv'
<1> DEFINE d == IF plate = 0 THEN DataOf(v) ELSE ReadPlate(DataOf(v), plate)
<1>1. Kept(d)
  BY DataOfKept, ReadPlateKept
<1>2. PICK e : Kept(e) /\ Follow(v, e)
  BY <1>1, ClassKept DEF ParsePlate
<1>3. QED BY <1>2, FollowKeepsCrossings DEF ParsePlate

LEMMA CrossingsNext == CrossingsInv /\ [Next]_vars => CrossingsInv'
<1> SUFFICES ASSUME CrossingsInv, [Next]_vars
             PROVE  CrossingsInv'
  OBVIOUS
<1>1. CASE Tick
  <2>1. now \in Nat /\ now' = now + 1
    BY <1>1 DEF Tick, CrossingsInv, TypeOK
  <2>2. UNCHANGED <<traffic_data_map, processed_objects, files, run, write_errors, unwritten>>
    BY <1>1 DEF Tick
  <2>3. ASSUME NEW d, Kept(d)
        PROVE  \A k \in 1..Len(d.crossings) : d.crossings[k].time <= now + 1
    <3>1. ASSUME NEW k \in 1..Len(d.crossings)
          PROVE  d.crossings[k].time \in Nat
      <4>1. d.crossings \in Seq(Crossing)
        BY <2>3 DEF Kept, Data
      <4>2. d.crossings[k] \in Crossing
        BY <4>1
      <4>3. QED BY <4>2 DEF Crossing
    <3>2. QED BY <2>1, <2>3, <3>1 DEF Kept
  <2>4. TypeOK'
    BY <2>1, <2>2 DEF CrossingsInv, TypeOK
  <2>5. CrossingsInOrder'
    BY <2>2 DEF CrossingsInv, CrossingsInOrder
  <2>6. \A u \in DOMAIN traffic_data_map' : Kept(traffic_data_map[u])'
    BY <2>1, <2>2, <2>3 DEF CrossingsInv, Kept
  <2>7. QED BY <2>4, <2>5, <2>6 DEF CrossingsInv
<1>2. CASE Restart
  <2>1. /\ DOMAIN traffic_data_map' = {} /\ processed_objects' = {}
        /\ now' = 0 /\ unwritten' = {}
        /\ UNCHANGED <<files, write_errors>>
    BY <1>2 DEF Restart, Nothing
  <2>2. run' \in Nat
    BY <1>2 DEF Restart, CrossingsInv, TypeOK
  <2>3. TypeOK'
    BY <2>1, <2>2 DEF CrossingsInv, TypeOK
  <2>4. QED BY <2>1, <2>3 DEF CrossingsInv, CrossingsInOrder
<1>3. CASE UNCHANGED vars
  BY <1>3 DEF vars, CrossingsInv, TypeOK, Kept, CrossingsInOrder
<1>4. QED BY <1>1, <1>2, <1>3, VehicleKeepsCrossings, PlateKeepsCrossings DEF Next

LEMMA CrossingsInit == Init => CrossingsInv
<1>1. DOMAIN Nothing = {}
  BY DEF Nothing
<1>2. QED BY <1>1 DEF Init, CrossingsInv, TypeOK, CrossingsInOrder

\* Every reachable state of the analytics is well typed; a vehicle being followed has
\* fewer than two crossings and keeps no more plate readings than the limit.
THEOREM TypeCorrect == Spec => []TypeOK
<1>1. CrossingsInv => TypeOK
  BY DEF CrossingsInv
<1>2. QED BY <1>1, CrossingsInit, CrossingsNext, PTL DEF Spec

\* Every report has two crossings, the first no later than the second, however many
\* lines are crossed in a frame (crossing_pair).
THEOREM CrossingsAlwaysInOrder == Spec => []CrossingsInOrder
<1>1. CrossingsInv => CrossingsInOrder
  BY DEF CrossingsInv
<1>2. QED BY <1>1, CrossingsInit, CrossingsNext, PTL DEF Spec

-------------------------------------------------------------------------------
(* The ledger *)

\* Who may be followed is not done with, since nobody is both.
LEMMA FollowedIsNotDone ==
  ASSUME FollowedOrDone, NEW v, Followed(v)
  PROVE  v \notin processed_objects
BY DEF Followed, FollowedOrDone

LEMMA FollowImplements ==
  ASSUME FollowedOrDone, NEW v \in Vehicles, NEW d, Followed(v), Follow(v, d)
  PROVE  [Ledger!Next]_Ledger!vars
<1>1. /\ DOMAIN traffic_data_map' = DOMAIN traffic_data_map \cup {v}
      /\ UNCHANGED <<processed_objects, files, unwritten>>
  BY DEF Follow, Entered
<1>2. CASE v \in DOMAIN traffic_data_map
  BY <1>1, <1>2 DEF Ledger!vars
<1>3. CASE v \notin DOMAIN traffic_data_map
  <2>1. Ledger!Track(v)
    BY <1>1, <1>3, FollowedIsNotDone DEF Ledger!Track
  <2>2. QED BY <2>1 DEF Ledger!Next
<1>4. QED BY <1>2, <1>3

LEMMA FinishImplements ==
  ASSUME FollowedOrDone, IsFiniteSet(processed_objects),
         NEW v \in Vehicles, NEW d, Followed(v), Finish(v, d)
  PROVE  Ledger!Next
<1>1. DOMAIN traffic_data_map' = DOMAIN traffic_data_map \ {v} /\ v \notin processed_objects
  BY FollowedIsNotDone DEF Finish, Erased
<1>2. Ledger!Remember(v)
  <2>1. Cardinality(processed_objects) \in Nat /\ MAX_PROCESSED_OBJECTS_LIMIT \in Nat
    BY FS_CardinalityType, LimitsAssumption
  <2>2. Cardinality(processed_objects) >= MAX_PROCESSED_OBJECTS_LIMIT
        <=> ~(Cardinality(processed_objects) < MAX_PROCESSED_OBJECTS_LIMIT)
    BY <2>1
  <2>3. processed_objects' = Processed(v)
    BY DEF Finish
  <2>4. Ledger!Cardinality(processed_objects) = Cardinality(processed_objects)
    BY Zenon DEF Ledger!Cardinality, Cardinality
  <2>5. QED BY <2>2, <2>3, <2>4 DEF Processed, Ledger!Remember
<1>3. Ledger!Enter(v)
  <2>1. CASE v \in DOMAIN files
    BY <2>1 DEF Finish, SaveToFile, Ledger!Enter
  <2>2. CASE v \notin DOMAIN files
    BY <2>2 DEF Finish, SaveToFile, Ledger!Enter
  <2>3. QED BY <2>1, <2>2
<1>4. Ledger!Close(v)
  BY <1>1, <1>2, <1>3 DEF Ledger!Close
<1>5. QED BY <1>4 DEF Ledger!Next

\* The maps, sets and files of the analytics implement the ledger: calls follow a vehicle
\* (Track or nothing) or finish it (Close), and a restart reopens the ledger.
THEOREM LedgerImplemented == Spec => ImplementsLedger
<1>1. Init => Ledger!Init
  BY DEF Init, Nothing, Ledger!Init
<1>2. SetsInv /\ [Next]_vars => [Ledger!Next]_Ledger!vars
  <2> SUFFICES ASSUME SetsInv, [Next]_vars
               PROVE  [Ledger!Next]_Ledger!vars
    OBVIOUS
  <2>1. FollowedOrDone /\ IsFiniteSet(processed_objects)
    BY DEF SetsInv
  <2>2. CASE Restart
    <3>1. DOMAIN traffic_data_map' = {} /\ processed_objects' = {} /\ unwritten' = {} /\ UNCHANGED files
      BY <2>2 DEF Restart, Nothing
    <3>2. Ledger!Reopen
      BY <3>1 DEF Ledger!Reopen
    <3>3. QED BY <3>2 DEF Ledger!Next
  <2>3. CASE Tick \/ UNCHANGED vars
    BY <2>3 DEF Tick, vars, Ledger!vars
  <2>4. QED
    BY <2>1, <2>2, <2>3, CallFollowsOrFinishes, FollowImplements, FinishImplements
<1>3. QED BY <1>1, <1>2, SetsAlways, PTL DEF Spec, ImplementsLedger, Ledger!Spec
===============================================================================
