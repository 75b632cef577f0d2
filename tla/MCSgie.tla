-------------------------------- MODULE MCSgie --------------------------------
(* Instances of SecondaryGie for TLC: three engines on the primary or each other. *)
EXTENDS SecondaryGie

\* Any enabled, any on any; two of them may have the same id.
ThreeGies ==
  {[i \in Gies |-> [enable |-> e[i], unique_id |-> u[i], operate_on_gie_id |-> o[i]]] :
     e \in [Gies -> BOOLEAN], o \in [Gies -> 1..4],
     u \in {[i \in Gies |-> i + 2], [i \in Gies |-> IF i = 2 THEN 3 ELSE i + 2]}}

\* A chain of two and a leaf.
OneChain ==
  {[i \in Gies |-> [enable |-> TRUE, unique_id |-> i + 2,
                    operate_on_gie_id |-> IF i = 1 THEN 2 ELSE 1]]}
===============================================================================
