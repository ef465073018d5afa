--------------------------- MODULE TrackerProofs ---------------------------
(***************************************************************************)
(* Tracker.tla for any set of resources: links stay symmetric, a removing  *)
(* query forgets exactly what it answers, and the tracker implements the   *)
(* graph of LinkGraph.tla.                                                 *)
(***************************************************************************)
EXTENDS Tracker, TLAPS

\* A leaf is for Zenon unless it names another prover.
USE ZenonT(90)

Sym(T) == \A a, b \in Ref : b \in T[a] <=> a \in T[b]

\* C holds everything linked to S and to itself.
Clos(T, S, C) == \A a \in S \cup C : T[a] \subseteq C

Smallest == \A C \in SUBSET Ref : Clos(base, input, C) => output \subseteq C

\* During the query: what was visited is linked to the output only.
QueryInv ==
    /\ tracking = base
    /\ todo \subseteq input \cup output
    /\ \A a \in input \cup output : a \in todo \/ base[a] \subseteq output

\* During the removal: the entries that are left are the ones to visit, and
\* nothing outside of the output changed.
RemoveInv ==
    /\ todo \subseteq output
    /\ Clos(base, input, output)
    /\ \A r \in Ref : IF r \in output
                      THEN tracking[r] = {} \/ (r \in todo /\ tracking[r] = base[r])
                      ELSE tracking[r] = base[r]

\* The inductive invariant.
IInv ==
    /\ TypeOK
    /\ phase # "remove" => Sym(tracking)
    /\ phase # "idle" => Sym(base) /\ Smallest
    /\ phase = "query" => QueryInv
    /\ phase = "remove" => RemoveInv

\* A set closed under the links of S and its own has no link to the outside.
LEMMA NoLinkOut ==
    ASSUME NEW T \in [Ref -> SUBSET Ref], NEW S \in SUBSET Ref,
           NEW C \in SUBSET Ref, Sym(T), Clos(T, S, C)
    PROVE  \A r \in Ref \ C : T[r] \cap C = {}
BY DEF Sym, Clos

\* A new tracker has no links and no walk.
LEMMA InitIInv == Init => IInv
BY EmptyRefAssumption DEF Init, IInv, TypeOK, Sym

\* Every step of a call keeps the links symmetric and the walk within the component.
LEMMA NextIInv == IInv /\ [Next]_vars => IInv'
<1> SUFFICES ASSUME IInv, [Next]_vars PROVE IInv'
  OBVIOUS
<1> USE DEF IInv, TypeOK
<1>1. ASSUME NEW left \in Ref, NEW right \in Ref, TrackRefs(left, right)
      PROVE  IInv'
  BY SMTT(90), <1>1 DEF TrackRefs, query, Sym
<1>2. ASSUME NEW in \in SUBSET Ref, NEW rm \in BOOLEAN, QueryLinks(in, rm)
      PROVE  IInv'
  <2>1. TypeOK'
    BY <1>2 DEF QueryLinks
  <2>2. Sym(tracking)' /\ Sym(base)'
    BY <1>2 DEF QueryLinks, Sym
  <2>3. Smallest'
    BY <1>2 DEF QueryLinks, Smallest
  <2>4. QueryInv'
    BY <1>2 DEF QueryLinks, QueryInv
  <2> QED
    BY <1>2, <2>1, <2>2, <2>3, <2>4 DEF QueryLinks
<1>3. ASSUME NEW r \in Ref, Visit(r)
      PROVE  IInv'
  <2>1. TypeOK'
    BY <1>3 DEF Visit
  <2>2. Sym(tracking)' /\ Sym(base)'
    BY <1>3 DEF Visit, Sym
  <2>3. Smallest'
    <3> SUFFICES ASSUME NEW C \in SUBSET Ref, Clos(base, input, C)
                 PROVE  output' \subseteq C
      BY <1>3 DEF Visit, Smallest, Clos
    <3>1. output \subseteq C
      BY <1>3 DEF Visit, Smallest
    <3>2. r \in input \cup C
      BY <1>3, <3>1 DEF Visit, QueryInv
    <3>3. tracking[r] \subseteq C
      BY <1>3, <3>2 DEF Visit, QueryInv, Clos
    <3> QED
      BY <1>3, <3>1, <3>3 DEF Visit
  <2>4. QueryInv'
    BY <1>3 DEF Visit, QueryInv
  <2> QED
    BY <1>3, <2>1, <2>2, <2>3, <2>4 DEF Visit
<1>4. ASSUME NEW r \in Ref, RemoveRef(r)
      PROVE  IInv'
  <2>1. TypeOK'
    BY <1>4 DEF RemoveRef
  <2>2. Sym(base)' /\ Smallest'
    BY <1>4 DEF RemoveRef, Sym, Smallest, Clos
  <2>3. tracking[r] \subseteq output
    BY <1>4 DEF RemoveRef, RemoveInv, Clos
  <2>4. RemoveInv'
    BY <1>4, <2>3 DEF RemoveRef, RemoveInv, Clos
  <2> QED
    BY <1>4, <2>1, <2>2, <2>4 DEF RemoveRef
<1>5. CASE Answer
  BY <1>5 DEF Answer, Return, QueryInv, Sym
<1>6. CASE Remove
  <2>1. TypeOK'
    BY <1>6 DEF Remove
  <2>2. Sym(base)' /\ Smallest'
    BY <1>6 DEF Remove, Sym, Smallest, Clos
  <2>3. RemoveInv'
    BY <1>6 DEF Remove, RemoveInv, QueryInv, Clos
  <2> QED
    BY <1>6, <2>1, <2>2, <2>3 DEF Remove
<1>7. CASE Removed
  <2>1. \A r \in Ref \ output : base[r] \cap output = {}
    BY SMTT(90), <1>7, NoLinkOut DEF Removed, RemoveInv
  <2>2. \A r \in Ref : tracking[r] = IF r \in output THEN {} ELSE base[r]
    BY <1>7 DEF Removed, RemoveInv
  <2>3. Sym(tracking)
    BY <1>7, <2>1, <2>2 DEF Removed, Sym
  <2> QED
    BY <1>7, <2>3 DEF Removed, Return, Sym
<1>8. CASE ClearLinks
  BY <1>8 DEF ClearLinks, query, Sym
<1>9. CASE UNCHANGED vars
  BY <1>9 DEF vars, Sym, Smallest, Clos, QueryInv, RemoveInv
<1> QED
  BY <1>1, <1>2, <1>3, <1>4, <1>5, <1>6, <1>7, <1>8, <1>9 DEF Next, Walk

\* The invariant holds of every behaviour of the tracker.
THEOREM IInvHolds == Spec => []IInv
BY InitIInv, NextIInv, PTL DEF Spec

\* The tracker's variables keep their types.
THEOREM TypeCorrect == Spec => []TypeOK
<1>1. IInv => TypeOK
  BY DEF IInv
<1> QED
  BY <1>1, IInvHolds, PTL

\* Links can be followed from both of their ends between two calls.
THEOREM LinksSymmetric == Spec => []Symmetric
<1>1. IInv => Symmetric
  BY DEF IInv, Symmetric, Sym
<1> QED
  BY <1>1, IInvHolds, PTL

\* A removing query forgets exactly the links of the resources it answers.
THEOREM RemovalExact == Spec => RemovesComponent
<1>1. IInv /\ [Next]_vars
      => [phase = "remove" /\ phase' = "idle"
          => tracking' = [r \in Ref |-> IF r \in answer' THEN {} ELSE base[r]]]_vars
  <2> SUFFICES ASSUME IInv, [Next]_vars, phase = "remove", phase' = "idle"
               PROVE  tracking' = [r \in Ref |->
                                     IF r \in answer' THEN {} ELSE base[r]]
    OBVIOUS
  <2>1. Removed
    BY DEF Next, vars, Walk, TrackRefs, QueryLinks, Visit, Answer, Remove,
           RemoveRef, ClearLinks, query
  <2> QED
    BY <2>1 DEF Removed, Return, IInv, TypeOK, RemoveInv
<1> QED
  BY <1>1, IInvHolds, PTL DEF Spec, RemovesComponent

-----------------------------------------------------------------------------
(***************************************************************************)
(* The refinement.  The graph's links are the tracker's, the ones the      *)
(* query began with while it runs; a query takes effect when it returns.   *)
(***************************************************************************)

\* The walk reaches what LinkGraph calls the component.
LEMMA SameClosure ==
    ASSUME NEW T \in [Ref -> SUBSET Ref], NEW S \in SUBSET Ref,
           NEW C \in SUBSET Ref
    PROVE  Graph!Closed(Edges(T), S, C) <=> Clos(T, S, C)
BY DEF Graph!Closed, Edges, Clos

\* The smallest closed set is what the graph calls connected.
LEMMA OutputConnected ==
    ASSUME TypeOK, Smallest, Clos(base, input, output)
    PROVE  output = Graph!Connected(Edges(base), input)
<1>1. \A C \in SUBSET Ref :
         Graph!Closed(Edges(base), input, C) <=> Clos(base, input, C)
  BY SameClosure DEF TypeOK
<1>2. ASSUME NEW r \in output PROVE r \in Graph!Connected(Edges(base), input)
  BY <1>1, <1>2 DEF Graph!Connected, Smallest, TypeOK
<1>3. ASSUME NEW r \in Graph!Connected(Edges(base), input) PROVE r \in output
  BY <1>1, <1>3 DEF Graph!Connected, TypeOK
<1> QED
  BY <1>2, <1>3

\* A new tracker is an empty graph.
LEMMA InitGraph == Init => Graph!Init
BY DEF Init, Graph!Init, Edges

\* A step of a call is a step of LinkGraph or changes nothing there.
LEMMA NextGraph == IInv /\ [Next]_vars => [Graph!Next]_(Graph!vars)
<1> SUFFICES ASSUME IInv, [Next]_vars
             PROVE  Graph!Next \/ UNCHANGED Graph!vars
  OBVIOUS
<1> DEFINE E == Edges(IF phase = "idle" THEN tracking ELSE base)
<1> USE DEF IInv, TypeOK
<1>1. ASSUME NEW left \in Ref, NEW right \in Ref, TrackRefs(left, right)
      PROVE  Graph!Next
  <2>1. E' = E \cup {<<left, right>>, <<right, left>>}
    BY SMTT(90), <1>1 DEF TrackRefs, query, Edges
  <2>2. Graph!Link(left, right)
    BY <1>1, <2>1 DEF TrackRefs, query, Graph!Link
  <2> QED
    BY <2>2 DEF Graph!Next
<1>2. ASSUME NEW in \in SUBSET Ref, NEW rm \in BOOLEAN, QueryLinks(in, rm)
      PROVE  UNCHANGED Graph!vars
  BY <1>2 DEF QueryLinks, Graph!vars, Edges
<1>3. ASSUME NEW r \in Ref, Visit(r) \/ RemoveRef(r)
      PROVE  UNCHANGED Graph!vars
  BY <1>3 DEF Visit, RemoveRef, Graph!vars, Edges
<1>4. CASE Answer
  <2>1. Clos(base, input, output)
    BY <1>4 DEF Answer, QueryInv, Clos
  <2>2. answer' = Graph!Connected(E, input)
    BY <1>4, <2>1, OutputConnected DEF Answer, Return
  <2>3. E' = E
    BY <1>4 DEF Answer, Return, QueryInv, Edges
  <2>4. Graph!Query(input, FALSE)
    BY <2>2, <2>3 DEF Graph!Query
  <2> QED
    BY <2>4 DEF Graph!Next
<1>5. CASE Remove
  BY <1>5 DEF Remove, Graph!vars, Edges
<1>6. CASE Removed
  <2>1. answer' = Graph!Connected(E, input)
    BY <1>6, OutputConnected DEF Removed, Return, RemoveInv
  <2>2. answer' = output
    BY <1>6 DEF Removed, Return
  <2>3. \A r \in Ref \ output : base[r] \cap output = {}
    BY SMTT(90), <1>6, NoLinkOut DEF Removed, RemoveInv
  <2>4. \A r \in Ref : tracking'[r] = IF r \in output THEN {} ELSE base[r]
    BY <1>6 DEF Removed, Return, RemoveInv
  <2>5. E = Edges(base) /\ E' = Edges(tracking')
    BY <1>6 DEF Removed, Return
  <2>6. Edges(tracking')
          = {e \in Edges(base) : e[1] \notin output /\ e[2] \notin output}
    BY <2>3, <2>4 DEF Edges
  <2>7. Graph!Query(input, TRUE)
    BY <2>1, <2>2, <2>5, <2>6 DEF Graph!Query
  <2> QED
    BY <2>7 DEF Graph!Next
<1>7. CASE ClearLinks
  <2>1. Graph!Clear
    BY <1>7 DEF ClearLinks, query, Graph!Clear, Edges
  <2> QED
    BY <2>1 DEF Graph!Next
<1>8. CASE UNCHANGED vars
  BY <1>8 DEF vars, Graph!vars, Edges
<1> QED
  BY <1>1, <1>2, <1>3, <1>4, <1>5, <1>6, <1>7, <1>8 DEF Next, Walk

\* The tracker implements the graph of linked resources.
THEOREM Refinement == Spec => GraphSpec
BY InitGraph, NextGraph, IInvHolds, PTL DEF Spec, GraphSpec, Graph!Spec
=============================================================================
