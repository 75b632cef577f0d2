--------------------------------- MODULE Files ---------------------------------
(* The readers of files: the configuration, the darknet networks, the outputs of  *)
(* the plate network with their dictionary.  They share nothing: a behaviour is   *)
(* one of the three, the others at rest.                                          *)
EXTENDS ConfigParser, YoloNetwork, PlateParser

VARIABLE part

\* What a part that is at rest reads.
AnyNetwork == CHOOSE n \in Networks : TRUE
AnyDictionary == CHOOSE d \in Dictionaries : TRUE

PartsInit ==
  /\ part \in {"configuration", "network", "plate"}
  /\ Init /\ (part # "configuration" => format = "NONE")
  /\ IF part = "network" THEN YoloInit ELSE network = AnyNetwork /\ YoloInit
  /\ IF part = "plate" THEN PlateInit ELSE dictionary = AnyDictionary /\ PlateInit

PartsNext ==
  \/ part = "configuration" /\ Next /\ UNCHANGED <<part, yolo_vars, plate_vars>>
  \/ part = "network" /\ YoloNext /\ UNCHANGED <<part, vars, plate_vars>>
  \/ part = "plate" /\ PlateNext /\ UNCHANGED <<part, vars, yolo_vars>>

\* The types of all three.
FilesTypeOK == TypeOK /\ YoloTypeOK /\ PlateTypeOK

PartsSpec == PartsInit /\ [][PartsNext]_<<part, vars, yolo_vars, plate_vars>>
================================================================================
