----------------------------- MODULE MCRtspSource -----------------------------
(* Instances of RtspSource for TLC: which attempts and intervals each source has. *)
EXTENDS RtspSource, TLC

CONSTANTS a, b

\* One attempt each, silence watched.
LimitedAttempts == [s \in Sources |-> 1]
\* The first source has an attempt, the other has none.
OneAttempt == [s \in Sources |-> IF s = a THEN 1 ELSE 0]
\* The first source may try for ever.
OneUnlimited == [s \in Sources |-> IF s = a THEN -1 ELSE 1]
ShortInterval == [s \in Sources |-> 2]
\* A source is silent again in the second it was reconnected in.
NextSecond == [s \in Sources |-> 1]

Interchangeable == Permutations(Sources)
===============================================================================
