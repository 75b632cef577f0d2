------------------------------ MODULE PlateParser ------------------------------
(***************************************************************************)
(* The parser of the licence-plate network (src/lpr/                       *)
(* nvinfer_custom_lpr_parser.cpp): it reads one output of the network      *)
(* after the other, joins the repeated ones, collects the confidence of    *)
(* each character, and corrects the letters of a plate that has a plate's  *)
(* shape.                                                                  *)
(*                                                                         *)
(* It is called again for every plate; the dictionary is read once.        *)
(***************************************************************************)
EXTENDS Integers, Sequences, FiniteSets, SequencesExt

CONSTANTS
  Dictionaries,      \* the dictionary files considered: sequences of entries
  OutputValues,      \* bound: the outputs of the network considered
  SeqLen,            \* network_info.width / 4
  SOFTMAX_SIZE,      \* the confidences there is room for
  MINIMAL_CHAR_LEN,  \* a plate has more characters
  InitialPrev        \* what prev is before the first output: 100

\* An entry is a sequence of characters, which stand for themselves.
Digits == {"0", "1", "2", "6", "7", "8"}
Letters == {"A", "B", "J", "O", "Q", "T"}
NUL == "\\0"
Characters == Digits \cup Letters \cup {"q", "-", NUL}

ASSUME PlateAssumption ==
  /\ Dictionaries \subseteq Seq(Seq(Characters \ {NUL}))
  /\ OutputValues \subseteq Int
  /\ {SeqLen, SOFTMAX_SIZE, MINIMAL_CHAR_LEN, InitialPrev} \subseteq Nat

VARIABLES
  dictionary,    \* the entries in its file
  ready,         \* g_dict_ready
  p_phase,       \* "idle", "read", "undefined" or "thrown"
  has_conf,      \* the network has a layer of confidences
  has_str,       \* and one of outputs
  read,          \* history: the outputs read
  prev,
  label_indexes,
  bank,          \* bank_softmax_max up to valid_bank_count: is it at least the minimum?
  plate          \* the attribute of the last call; <<>>: none

call_vars == <<has_conf, has_str>>
decode_vars == <<read, prev, label_indexes, bank>>
plate_vars == <<dictionary, ready, p_phase, call_vars, decode_vars, plate>>

labels_size == IF ready THEN Len(dictionary) ELSE 0
Blank == labels_size

PlateInit ==
  /\ dictionary \in Dictionaries
  /\ ready = FALSE
  /\ p_phase = "idle"
  /\ has_conf = FALSE /\ has_str = FALSE
  /\ read = <<>> /\ prev = InitialPrev /\ label_indexes = <<>> /\ bank = <<>>
  /\ plate = <<>>

-------------------------------------------------------------------------------
(* A call begins. *)

\* The dictionary is read if it has not been; a call that cannot open it changes
\* nothing, and the next one tries again.
Start ==
  /\ p_phase = "idle"
  /\ p_phase' = "read"
  /\ ready' = TRUE
  /\ has_conf' \in BOOLEAN /\ has_str' \in BOOLEAN
  /\ read' = <<>> /\ prev' = InitialPrev /\ label_indexes' = <<>> /\ bank' = <<>>
  /\ plate' = <<>>
  /\ UNCHANGED dictionary

-------------------------------------------------------------------------------
(* The outputs of the network, one for each seq_id; seq_id is Len(read). *)

Reading == p_phase = "read" /\ Len(read) < SeqLen

\* Mutant: prev follows the outputs that are no label.
IsNew_AgainstAll(v) == IF read = <<>> THEN TRUE ELSE v # Last(read)

IsNew(v) == read = <<>> \/ v # prev

\* An output that is no label leaves prev as it is.
SkipOutput ==
  /\ Reading /\ has_str
  /\ \E v \in OutputValues \ (0..Blank) : read' = Append(read, v)
  /\ UNCHANGED <<dictionary, ready, p_phase, call_vars, prev, label_indexes, bank, plate>>

NoOutputs ==
  /\ Reading /\ ~has_str
  /\ read' = Append(read, -1)
  /\ UNCHANGED <<dictionary, ready, p_phase, call_vars, prev, label_indexes, bank, plate>>

TakeOutput(v) ==
  /\ Reading /\ has_str
  /\ read' = Append(read, v)
  /\ prev' = v
  /\ label_indexes' = IF IsNew(v) THEN Append(label_indexes, v) ELSE label_indexes
  /\ UNCHANGED <<dictionary, ready, call_vars, plate>>

HasConfidence(v) == has_conf /\ IsNew(v) /\ v # Blank

PlainOutput ==
  \E v \in OutputValues \cap (0..Blank) :
    /\ ~HasConfidence(v)
    /\ TakeOutput(v)
    /\ UNCHANGED <<bank, p_phase>>

\* vector::at throws behind the last confidence there is room for.
CharacterOutput ==
  \E v \in OutputValues \cap (0..Blank), enough \in BOOLEAN :
    /\ HasConfidence(v)
    /\ TakeOutput(v)
    /\ IF Len(bank) < SOFTMAX_SIZE
         THEN bank' = Append(bank, enough) /\ UNCHANGED p_phase
         ELSE p_phase' = "thrown" /\ UNCHANGED bank

-------------------------------------------------------------------------------
(* The plate. *)

Upper(c) == IF c = "q" THEN "Q" ELSE c

\* localize: an entry in capitals, and as a whole replaced.
Localize(entry) ==
  LET up == [k \in 1..Len(entry) |-> Upper(entry[k])] IN
  CASE up = <<"Q">> -> <<"O">>
    [] up = <<"J">> -> <<"1">>
    [] OTHER -> up

Label ==
  LET joined[k \in 0..Len(label_indexes)] ==
        IF k = 0 THEN <<>>
        ELSE IF label_indexes[k] = Blank THEN joined[k - 1]
        ELSE joined[k - 1] \o Localize(dictionary[label_indexes[k] + 1])
  IN joined[Len(label_indexes)]

As(c, table) == IF c \in DOMAIN table THEN table[c] ELSE c
FrontLetters == [c \in {"0", "6", "8", "1"} |-> CASE c \in {"0", "6"} -> "O" [] c = "8" -> "B" [] OTHER -> "T"]
FifthLetters == [c \in {"0", "8"} |-> IF c = "0" THEN "O" ELSE "B"]
SixthLetters == [c \in {"0", "8", "7"} |-> CASE c = "0" -> "O" [] c = "8" -> "B" [] OTHER -> "T"]

\* The second, third and fourth character of the mask.
MatchesMask_Two(l) == {l[2], l[3]} \subseteq Digits   \* Mutant: the fourth is not looked at.
MatchesMask(l) == {l[2], l[3], l[4]} \subseteq Digits

\* transform_attr_string, of at least four characters
Transform(label) ==
  LET l == [k \in 1..Len(label) |-> IF label[k] \in Digits \cup Letters THEN label[k] ELSE NUL] IN
  IF ~MatchesMask(l) THEN l
  ELSE [k \in 1..Len(l) |->
          CASE k = 1 -> As(l[k], FrontLetters)
            [] k = 5 -> As(l[k], FifthLetters)
            [] k = 6 -> As(l[k], SixthLetters)
            [] OTHER -> l[k]]

\* strdup ends at the first NUL.
CString(l) == SubSeq(l, 1, SelectInSeq(l \o <<NUL>>, LAMBDA c : c = NUL) - 1)

LongEnough == Len(bank) > MINIMAL_CHAR_LEN /\ Label # <<>>

Ended == p_phase = "read" /\ Len(read) = SeqLen

TooShort ==
  /\ Ended /\ ~LongEnough
  /\ p_phase' = "idle"
  /\ UNCHANGED <<dictionary, ready, call_vars, decode_vars, plate>>

\* The mask of a label of less than four characters is read behind its end.
MaskOverrun ==
  /\ Ended /\ LongEnough /\ Len(Label) < 4
  /\ p_phase' = "undefined"
  /\ UNCHANGED <<dictionary, ready, call_vars, decode_vars, plate>>

Report ==
  /\ Ended /\ LongEnough /\ Len(Label) >= 4
  /\ p_phase' = "idle"
  /\ plate' = IF \A k \in 1..Len(bank) : bank[k] THEN CString(Transform(Label)) ELSE <<>>
  /\ UNCHANGED <<dictionary, ready, call_vars, decode_vars>>

PlateNext ==
  \/ Start
  \/ SkipOutput \/ NoOutputs \/ PlainOutput \/ CharacterOutput
  \/ TooShort \/ MaskOverrun \/ Report

PlateSpec == PlateInit /\ [][PlateNext]_plate_vars

-------------------------------------------------------------------------------
(* What the parser promises. *)

PlateTypeOK ==
  /\ dictionary \in Seq(Seq(Characters \ {NUL}))
  /\ p_phase \in {"idle", "read", "undefined", "thrown"}
  /\ {ready, has_conf, has_str} \subseteq BOOLEAN
  /\ read \in Seq(OutputValues \cup {-1}) /\ Len(read) <= SeqLen
  /\ prev \in Nat
  /\ label_indexes \in Seq(0..Len(dictionary))
  /\ bank \in Seq(BOOLEAN) /\ Len(bank) <= SOFTMAX_SIZE
  /\ plate \in Seq(Characters \ {NUL})

\* The outputs that are labels, and those of them that differ from the label before.
Valid == {k \in 1..Len(read) : read[k] \in 0..Blank}
Changes ==
  {k \in Valid : \A j \in Valid :
     (j < k /\ \A i \in (j + 1)..(k - 1) : i \notin Valid) => read[j] # read[k]}

\* The labels kept are those where the network's reading changes, in its order: an
\* output that is no label neither ends a run nor begins one, and a separator does
\* (the loop over seq_id decides by prev alone, which begins at a label's number).
RunsAreJoined ==
  ready /\ Len(dictionary) < InitialPrev =>
    /\ Len(label_indexes) = Cardinality(Changes)
    /\ \A k \in Changes : label_indexes[Cardinality({j \in Changes : j <= k})] = read[k]

\* There is one confidence for each character kept and none for a separator, so
\* that the confidences judged are those of the plate's characters
\* (two vectors that are filled under different conditions).
ConfidencePerCharacter ==
  has_conf /\ p_phase # "thrown" =>
    Len(bank) = Cardinality({k \in 1..Len(label_indexes) : label_indexes[k] # Blank})

SingleCharacters == \A k \in 1..Len(dictionary) : Len(dictionary[k]) = 1 /\ dictionary[k][1] # "-"

\* The label and its confidences come of the same changes of the reading.
LabelsAsRead == RunsAreJoined /\ ConfidencePerCharacter

\* With a dictionary of single letters and digits no call reads behind a label, and
\* a plate that is reported has all the characters read, more than the minimum, each
\* with enough confidence; letters are put for digits only in a plate whose second to
\* fourth characters are digits, and those stay
\* (the conditions are on the confidences, the accesses on the label).
PlatesAreWhole ==
  SingleCharacters =>
    /\ p_phase # "undefined"
    /\ plate # <<>> =>
         /\ Len(plate) = Len(bank) /\ Len(plate) > MINIMAL_CHAR_LEN
         /\ \A k \in 1..Len(bank) : bank[k]
         /\ plate # Label =>
              \A k \in 2..4 : plate[k] = Label[k] /\ plate[k] \in Digits
===============================================================================
