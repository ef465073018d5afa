------------------------------ MODULE Tracker ------------------------------
(***************************************************************************)
(* pkg/converters/tracker/tracker.go.  tracking[r] is the set of resources *)
(* r is linked to.  TrackRefs and ClearLinks are one step; the recursive   *)
(* walks of QueryLinks are one step per visited resource, in any order: Go *)
(* iterates its maps in no particular order.  The callers hold the model   *)
(* mutex, so that nothing else happens during a walk.                      *)
(***************************************************************************)
CONSTANTS Ref, EmptyRef

ASSUME EmptyRefAssumption == EmptyRef \in Ref

VARIABLES tracking,   \* t.tracking: [Ref -> SUBSET Ref]
          phase,      \* "idle", in updateOutput ("query") or removeRef ("remove")
          input,      \* the argument of QueryLinks
          removing,   \* removeMatches
          todo,       \* the resources the walk is called for and did not visit
          output,     \* outputrefs
          answer,     \* what the last QueryLinks returned
          base        \* history: tracking when the query began

vars == <<tracking, phase, input, removing, todo, output, answer, base>>
query == <<phase, input, removing, todo, output, answer, base>>

Init ==
    /\ tracking = [r \in Ref |-> {}]
    /\ phase = "idle"
    /\ input = {} /\ removing = FALSE
    /\ todo = {} /\ output = {} /\ answer = {}
    /\ base = tracking

\* The call returns and its local variables are gone.
Return(result) ==
    /\ phase' = "idle"
    /\ answer' = result
    /\ input' = {} /\ removing' = FALSE
    /\ todo' = {} /\ output' = {}
    /\ base' = [r \in Ref |-> {}]

\* Mutation: the link is recorded on one side.
TrackOneSide(left, right) ==
    /\ phase = "idle"
    /\ left # EmptyRef /\ right # EmptyRef
    /\ tracking' = [tracking EXCEPT ![left] = @ \cup {right}]
    /\ UNCHANGED query

TrackRefs(left, right) ==
    /\ phase = "idle"
    /\ left # EmptyRef /\ right # EmptyRef
    /\ tracking' = [r \in Ref |->
          tracking[r] \cup (IF r = left THEN {right} ELSE {})
                      \cup (IF r = right THEN {left} ELSE {})]
    /\ UNCHANGED query

QueryLinks(in, removeMatches) ==
    /\ phase = "idle"
    /\ phase' = "query"
    /\ input' = in /\ removing' = removeMatches
    /\ todo' = in /\ output' = {}
    /\ base' = tracking
    /\ UNCHANGED <<tracking, answer>>

\* Mutation: the walk stops at the resources linked to the input.
VisitInputOnly(r) ==
    /\ phase = "query" /\ r \in todo
    /\ output' = output \cup tracking[r]
    /\ todo' = todo \ {r}
    /\ UNCHANGED <<tracking, phase, input, removing, answer, base>>

\* updateOutput: resources not found in the output are added and visited.
Visit(r) ==
    /\ phase = "query" /\ r \in todo
    /\ output' = output \cup tracking[r]
    /\ todo' = (todo \ {r}) \cup (tracking[r] \ output)
    /\ UNCHANGED <<tracking, phase, input, removing, answer, base>>

Answer ==
    /\ phase = "query" /\ todo = {} /\ ~removing
    /\ Return(output)
    /\ UNCHANGED tracking

Remove ==
    /\ phase = "query" /\ todo = {} /\ removing
    /\ phase' = "remove"
    /\ todo' = output
    /\ UNCHANGED <<tracking, input, removing, output, answer, base>>

\* Mutation: the entry of a resource stays until all of them were followed.
RemoveRefLeavesEntry(r) ==
    /\ phase = "remove" /\ r \in todo
    /\ todo' = (todo \ {r}) \cup tracking[r]
    /\ UNCHANGED <<tracking, phase, input, removing, output, answer, base>>

\* The entry is deleted before its links are followed, which ends the recursion.
RemoveRef(r) ==
    /\ phase = "remove" /\ r \in todo
    /\ tracking' = [tracking EXCEPT ![r] = {}]
    /\ todo' = (todo \ {r}) \cup tracking[r]
    /\ UNCHANGED <<phase, input, removing, output, answer, base>>

Removed ==
    /\ phase = "remove" /\ todo = {}
    /\ Return(output)
    /\ UNCHANGED tracking

ClearLinks ==
    /\ phase = "idle"
    /\ tracking' = [r \in Ref |-> {}]
    /\ UNCHANGED query

Walk == (\E r \in Ref : Visit(r) \/ RemoveRef(r)) \/ Answer \/ Remove \/ Removed

Next == \/ \E left, right \in Ref : TrackRefs(left, right)
        \/ \E in \in SUBSET Ref, removeMatches \in BOOLEAN :
              QueryLinks(in, removeMatches)
        \/ Walk
        \/ ClearLinks

Spec == Init /\ [][Next]_vars

\* A call runs to its end.
FairSpec == Spec /\ WF_vars(Walk)

-----------------------------------------------------------------------------
\* Every variable of the tracker and of the walk in progress keeps its type,
\* and nothing is ever linked to the empty reference.
TypeOK ==
    /\ tracking \in [Ref -> SUBSET (Ref \ {EmptyRef})]
    /\ base \in [Ref -> SUBSET (Ref \ {EmptyRef})]
    /\ phase \in {"idle", "query", "remove"}
    /\ removing \in BOOLEAN
    /\ input \in SUBSET Ref /\ todo \in SUBSET Ref
    /\ output \in SUBSET Ref /\ answer \in SUBSET Ref

\* Between two calls of the tracker every link can be followed from both of
\* its ends, even though TrackRefs writes the ends one after the other and a
\* removal deletes the entries of a component one by one.
Symmetric ==
    phase = "idle" => \A a, b \in Ref : b \in tracking[a] <=> a \in tracking[b]

\* A removing query forgets the resources it answers, all of their links, and
\* not a single link of a resource it does not answer: the resources that
\* are not parsed again keep what links them to the changes of later batches.
RemovesComponent ==
    [][phase = "remove" /\ phase' = "idle"
       => tracking' = [r \in Ref |-> IF r \in answer' THEN {} ELSE base[r]]]_vars

\* Every call returns, although both of its recursions follow links that are
\* stored on both ends, and so run in circles unless the visited end is marked.
WalkEnds == phase # "idle" ~> phase = "idle"

Edges(T) == {e \in Ref \X Ref : e[2] \in T[e[1]]}

Graph == INSTANCE LinkGraph
            WITH edges <- Edges(IF phase = "idle" THEN tracking ELSE base)

\* The tracker implements the graph of linked resources: in particular the
\* answer of a query is exactly what is connected to its input.
GraphSpec == Graph!Spec
=============================================================================
