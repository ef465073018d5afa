----------------------------- MODULE LinkGraph -----------------------------
(***************************************************************************)
(* What pkg/converters/tracker promises its callers: an undirected graph   *)
(* of the resources that were parsed together.  A query answers every      *)
(* resource connected to the ones asked for, and a removing query drops    *)
(* the links of all of them and of nothing else.                           *)
(***************************************************************************)
CONSTANTS Ref,       \* the resources: type and unique name
          EmptyRef   \* the zero value of TrackingRef, which is never linked

VARIABLES edges,     \* the links, a symmetric relation over Ref
          answer     \* the answer to the last query

vars == <<edges, answer>>

Closed(E, S, C) ==
    \A a, b \in Ref : <<a, b>> \in E /\ (a \in S \/ a \in C) => b \in C

\* The resources reached from S over one link or more.
Connected(E, S) == {r \in Ref : \A C \in SUBSET Ref : Closed(E, S, C) => r \in C}

Init == edges = {} /\ answer = {}

Link(a, b) ==
    /\ EmptyRef \notin {a, b}
    /\ edges' = edges \cup {<<a, b>>, <<b, a>>}
    /\ UNCHANGED answer

Query(S, remove) ==
    /\ answer' = Connected(edges, S)
    /\ edges' = IF remove
                THEN {e \in edges : e[1] \notin answer' /\ e[2] \notin answer'}
                ELSE edges

Clear == edges' = {} /\ UNCHANGED answer

Next == \/ \E a, b \in Ref : Link(a, b)
        \/ \E S \in SUBSET Ref, remove \in BOOLEAN : Query(S, remove)
        \/ Clear

Spec == Init /\ [][Next]_vars
=============================================================================
