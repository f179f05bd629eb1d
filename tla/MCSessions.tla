------------------------------ MODULE MCSessions ------------------------------
(* Instances of Sessions for TLC. *)
EXTENDS Sessions, TLC

CONSTANTS a, a_2, a_2_2, raw_a, raw_a_2, raw_dots

\* What a person types, or a program is called, comes out as a name, as the
\* name a counter would have made of it, or as no name at all.
MCName == {a, a_2, a_2_2}
MCAsked == {raw_a, raw_a_2, raw_dots}
MCSanitize == (raw_a :> a) @@ (raw_a_2 :> a_2) @@ (raw_dots :> NoName)
MCCounters == {2}
MCNumbered ==
    (a :> [k \in MCCounters |-> a_2]) @@ (a_2 :> [k \in MCCounters |-> a_2_2])
        @@ (a_2_2 :> [k \in MCCounters |-> a_2_2])
===============================================================================
