--------------------------- MODULE LeadingProofs ---------------------------
(***************************************************************************)
(* Safety of the status of the ingresses for any number of replicas,       *)
(* ingresses and addresses, and any number of changes, failed calls, lost  *)
(* leases and stops: the leader published what it read.                    *)
(***************************************************************************)
EXTENDS Leading, FiniteSetTheorems, SequenceTheorems, TLAPS

\* A leaf is for Zenon unless it names another prover.
USE ZenonT(90)

Item == Ing \X SUBSET Addr

ClusterTypes ==
    /\ source \in {"service", "nodes"} /\ ings \subseteq Ing
    /\ status \in [Ing -> SUBSET Addr] /\ last \in [Ing -> SUBSET Addr]
    /\ addr \subseteq Addr /\ addr # {}
    /\ stale \subseteq Replica /\ late \subseteq Ing
    /\ changes \in Nat /\ failed \in Nat /\ lost \in Nat

ElectionTypes ==
    /\ holder \in Replica
    /\ life \in [Replica -> {"off", "up", "stopping", "gone"}]
    /\ lead \in [Replica -> {"no", "acquired", "started", "stopping", "lost", "early", "orphan"}]
    /\ elected \in [Replica -> BOOLEAN] /\ synced \in [Replica -> BOOLEAN]

ServiceTypes ==
    /\ batch \in [Replica -> SUBSET (Ing \cup {"publish-service"})]
    /\ sing \in [Replica -> {"off", "starting", "run", "shutdown", "done"}]
    /\ ups \in [Replica -> {"off", "starting", "run", "closing", "closed", "stuck", "done"}]
    /\ curr \in [Replica -> SUBSET Addr]
    /\ queue \in [Replica -> Seq(Item)]
    /\ retry \in [Replica -> SUBSET Item]
    /\ work \in [Replica -> Item \cup {<<>>}]

Types == ClusterTypes /\ ElectionTypes /\ ServiceTypes

\* The services of a replica are started once, after it was elected; one that
\* did not sync has everything ahead, and a sync before its services run makes
\* it stale.
StartInv ==
    \A r \in Replica :
       /\ lead[r] \in {"no", "acquired", "early"} <=> sing[r] = "off"
       /\ sing[r] = "off" <=> ups[r] = "off"
       /\ ~synced[r] => curr[r] = {}
       /\ life[r] = "off" => ~synced[r]
       /\ ~synced[r] /\ life[r] = "up" => ings \subseteq batch[r]
       /\ sing[r] \in {"off", "starting"} /\ synced[r] => r \in stale

\* The queue only has what it accepted while it ran, and nothing once it is done.
QueueInv ==
    \A r \in Replica :
       /\ work[r] # <<>> => ups[r] \in {"run", "closing", "closed", "stuck"}
       /\ ups[r] \in {"off", "starting", "closed", "done"} => queue[r] = <<>> /\ retry[r] = {}
       /\ lead[r] = "lost" => ups[r] = "done"

\* The leader synced with its services running, and they still are.
Serving(r) ==
    /\ holder = r /\ life[r] = "up" /\ synced[r] /\ r \notin stale
    /\ sing[r] = "run" /\ ups[r] \in {"starting", "run"}

InQueue(r, i) == \E n \in DOMAIN queue[r] : queue[r][n][1] = i
InWork(r, i) == work[r] # <<>> /\ work[r][1] = i

\* The newest request of the leader for an ingress has the status that its queue
\* accepted last; without a request that status is there, or is tried again.
Newest(r, i) ==
    /\ \A n \in DOMAIN queue[r] :
          queue[r][n][1] = i /\ (\A m \in DOMAIN queue[r] : m > n => queue[r][m][1] # i)
             => queue[r][n][2] = last[i]
    /\ ~InQueue(r, i) /\ InWork(r, i) => work[r][2] = last[i]
    /\ ~InQueue(r, i) /\ ~InWork(r, i) => status[i] = last[i] \/ <<i, last[i]>> \in retry[r]

PublishInv ==
    \A r \in Replica : Serving(r) =>
       /\ source = "service" => curr[r] = addr \/ "publish-service" \in batch[r]
       /\ \A i \in (ings \ late) \ batch[r] : last[i] = curr[r] /\ Newest(r, i)

IInv == Types /\ StartInv /\ QueueInv /\ PublishInv

-----------------------------------------------------------------------------
\* Patches makes one request for each of the ingresses, in some order.
LEMMA PatchesOf ==
    ASSUME NEW names \in SUBSET Ing, NEW lb \in SUBSET Addr
    PROVE  /\ Patches(names, lb) \in Seq(Item)
           /\ \A n \in DOMAIN Patches(names, lb) :
                 Patches(names, lb)[n][1] \in names /\ Patches(names, lb)[n][2] = lb
           /\ \A i \in names : \E n \in DOMAIN Patches(names, lb) : Patches(names, lb)[n][1] = i
           /\ Patches(names, lb) = <<>> <=> names = {}
<1> DEFINE S == {<<i, lb>> : i \in names}
           f == [i \in names |-> <<i, lb>>]
           p == Patches(names, lb)
<1>1. IsFiniteSet(names)
  BY LeadingAssumption, FS_Subset
<1>2. IsFiniteSet(S)
  <2>1. f \in Surjection(names, S)
    BY DEF Surjection
  <2> HIDE DEF f, S
  <2> QED
    BY <1>1, <2>1, FS_Surjection
<1>3. S \subseteq Item /\ \A e \in S : e[1] \in names /\ e[2] = lb
  BY SMTT(90) DEF Item
<1>4. ASSUME NEW i \in names PROVE \E e \in S : e[1] = i
  <2>1. <<i, lb>> \in S /\ <<i, lb>>[1] = i
    OBVIOUS
  <2> HIDE DEF S
  <2> QED
    BY <2>1
<1>5. S = {} <=> names = {}
  OBVIOUS
<1>6. p = CHOOSE s \in Injection(1..Cardinality(S), S) : TRUE
  BY DEF Patches
<1> HIDE DEF S, p
<1>7. Cardinality(S) \in Nat /\ ExistsBijection(1..Cardinality(S), S)
  BY <1>2, FS_CardinalityType
<1>8. p \in [1..Cardinality(S) -> S] /\ IsInjective(p)
  <2>1. \E g : g \in Injection(1..Cardinality(S), S)
    BY <1>7 DEF ExistsBijection, Bijection
  <2>2. p \in Injection(1..Cardinality(S), S)
    BY <1>6, <2>1
  <2> QED
    BY <2>2 DEF Injection
<1>9. p \in Surjection(1..Cardinality(S), S)
  <2>1. p \in Injection(1..Cardinality(S), S)
    BY <1>8 DEF Injection
  <2>2. Cardinality(1..Cardinality(S)) = Cardinality(S)
    BY SMTT(90), <1>7, FS_Interval
  <2> QED
    BY <1>2, <2>1, <2>2, FS_Injection
<1>10. p \in Seq(Item) /\ DOMAIN p = 1..Cardinality(S)
  BY SMTT(90), <1>3, <1>7, <1>8
<1>11. \A e \in S : \E n \in DOMAIN p : p[n] = e
  BY <1>9, <1>10 DEF Surjection
<1>12. p = <<>> <=> names = {}
  <2>1. p = <<>> <=> DOMAIN p = {}
    <3>1. p = <<>> <=> Len(p) = 0
      BY <1>10, EmptySeq
    <3>2. DOMAIN p = 1..Len(p) /\ Len(p) \in Nat
      BY SMTT(90), <1>10
    <3> QED
      BY SMTT(90), <3>1, <3>2
  <2>2. DOMAIN p = {} <=> S = {}
    BY <1>8, <1>10, <1>11
  <2> QED
    BY <1>5, <2>1, <2>2
<1> QED
  BY SMTT(90), <1>3, <1>4, <1>8, <1>10, <1>11, <1>12 DEF p

\* The addresses that are read are addresses, and there are some if they could
\* be read.
LEMMA AddressesOf ==
    ASSUME Types, NEW readable \in BOOLEAN
    PROVE  /\ Addresses(readable) \in SUBSET Addr
           /\ readable /\ Pods # {} => Addresses(readable) # {}
           /\ source = "service" => Addresses(readable) = addr
  BY SMTT(90), LeadingAssumption DEF Types, ClusterTypes, ElectionTypes, Addresses, Pods

\* What a sync says of the ingresses of named: they get the addresses lb.
Said(r, objects, named, lb) ==
    /\ curr' = [curr EXCEPT ![r] = lb] /\ update(r, Patches(named, lb))
    /\ objects \cap ings \subseteq named
    /\ lb # curr[r] => named = ings
    /\ stale \ {r} \subseteq stale' /\ stale' \subseteq stale \cup {r}
    /\ r \notin stale' => /\ source = "service" => lb = addr
                          /\ named = {} \/ Accepting(r)
                          /\ r \in stale => named = ings
                          /\ curr[r] = {} /\ Pods # {} => named = ings

\* What changed does if the flag of svcStatusIng is set: it queues one status for
\* the ingresses that changed, or for all of them if the addresses did.
LEMMA ChangedEffect ==
    ASSUME Types, NEW r \in Replica, NEW objects, NEW readable \in BOOLEAN,
           NEW listable \in BOOLEAN, changed(r, objects, readable, listable), sing[r] = "run"
    PROVE  \E named \in SUBSET ings, lb \in SUBSET Addr :
              Said(r, objects, named, lb)
<1> DEFINE lb == Addresses(readable)
           new == (readable \/ source = "nodes") /\ lb # curr[r]
           all == new /\ listable
           s == sync(r, readable, listable)
           now == IF all THEN lb ELSE curr[r]
           part == IF source = "service" /\ "publish-service" \in objects /\ listable
                   THEN ings ELSE objects \cap ings
           named == IF all THEN ings ELSE part
<1>1. /\ lb \in SUBSET Addr /\ (readable /\ Pods # {} => lb # {})
      /\ source = "service" => lb = addr
  BY AddressesOf
<1>2. /\ curr[r] \in SUBSET Addr /\ ings \in SUBSET Ing /\ source \in {"service", "nodes"}
      /\ stale \subseteq Replica /\ curr \in [Replica -> SUBSET Addr]
  BY DEF Types, ClusterTypes, ServiceTypes
<1>3. /\ s.ok = (readable /\ (~new \/ listable)) /\ s.curr = now
      /\ s.items = IF all THEN Patches(ings, lb) ELSE <<>>
  BY DEF sync
<1> HIDE DEF lb
<1>4. s.items # <<>> <=> all /\ ings # {}
  <2>1. Patches(ings, lb) = <<>> <=> ings = {}
    BY <1>1, <1>2, PatchesOf
  <2> QED
    BY <1>3, <2>1
<1>5. named \in SUBSET ings /\ now \in SUBSET Addr /\ objects \cap ings \subseteq named
  BY <1>1, <1>2
<1> DEFINE items == IF s.items # <<>> THEN s.items ELSE Patches(part, s.curr)
<1>6. items = Patches(named, now)
  <2>1. CASE all /\ ings # {}
    BY <1>3, <1>4, <2>1
  <2>2. CASE ~all
    BY <1>3, <1>4, <2>2
  <2>3. CASE ings = {}
    <3>1. part = {} /\ named = {}
      BY <2>3
    <3> QED
      BY <1>3, <1>4, <2>3, <3>1
  <2> QED
    BY <2>1, <2>2, <2>3
<1>7. /\ update(r, items) /\ curr' = [curr EXCEPT ![r] = s.curr]
      /\ stale' = IF (items # <<>> /\ ~Accepting(r)) \/ ~s.ok THEN stale \cup {r}
                  ELSE IF s.items = <<>> THEN stale ELSE stale \ {r}
  BY DEF changed
<1>8. items # <<>> <=> named # {}
  <2> HIDE DEF items, named, now
  <2>1. named \in SUBSET Ing /\ now \in SUBSET Addr
    BY <1>2, <1>5
  <2>2. Patches(named, now) = <<>> <=> named = {}
    BY <2>1, PatchesOf
  <2> QED
    BY <1>6, <2>2
<1> HIDE DEF s, items
<1>9. stale \ {r} \subseteq stale' /\ stale' \subseteq stale \cup {r}
  BY <1>7
<1>10. now # curr[r] => named = ings
  OBVIOUS
<1>11. ASSUME r \notin stale'
       PROVE  /\ source = "service" => now = addr
              /\ named = {} \/ Accepting(r)
              /\ r \in stale => named = ings
              /\ curr[r] = {} /\ Pods # {} => named = ings
  <2>1. s.ok /\ (named = {} \/ Accepting(r)) /\ (r \in stale => s.items # <<>>)
    BY <1>7, <1>8, <1>11
  <2>2. readable /\ (new => listable)
    BY <1>3, <2>1
  <2> QED
    BY <1>1, <1>2, <1>4, <2>1, <2>2
<1> QED
  BY <1>3, <1>5, <1>6, <1>7, <1>9, <1>10, <1>11 DEF Said

\* What update does with the requests for some ingresses if the queue accepts them.
LEMMA UpdateEffect ==
    ASSUME Types, NEW r \in Replica, NEW named \in SUBSET ings, NEW lb \in SUBSET Addr,
           update(r, Patches(named, lb)), Accepting(r)
    PROVE  /\ queue' = [queue EXCEPT ![r] = queue[r] \o Patches(named, lb)]
           /\ last' = [i \in Ing |-> IF i \in named THEN lb ELSE last[i]]
           /\ late' = IF holder = r THEN late \ named ELSE late \cup named
<1> DEFINE p == Patches(named, lb)
           names == {p[n][1] : n \in DOMAIN p}
<1>1. named \in SUBSET Ing
  BY DEF Types, ClusterTypes
<1>2. /\ p \in Seq(Item) /\ (p = <<>> <=> named = {})
      /\ \A n \in DOMAIN p : p[n][1] \in named /\ p[n][2] = lb
      /\ \A i \in named : \E n \in DOMAIN p : p[n][1] = i
  BY <1>1, PatchesOf
<1>3. /\ queue' = [queue EXCEPT ![r] = queue[r] \o p]
      /\ last' = [i \in Ing |-> IF i \in names THEN p[1][2] ELSE last[i]]
      /\ late' = IF holder = r THEN late \ names ELSE late \cup names
  BY DEF update
<1> HIDE DEF p
<1>4. names = named
  BY <1>2
<1>5. ASSUME named # {} PROVE p[1][2] = lb
  <2>1. 1 \in DOMAIN p
    BY SMTT(90), <1>2, <1>5, EmptySeq
  <2> QED
    BY <1>2, <2>1
<1> QED
  BY <1>3, <1>4, <1>5 DEF p

\* update keeps the types of the queue and of its history, whatever the queue does.
LEMMA UpdateTypes ==
    ASSUME Types, NEW r \in Replica, NEW named \in SUBSET ings, NEW lb \in SUBSET Addr,
           update(r, Patches(named, lb))
    PROVE  /\ queue' \in [Replica -> Seq(Item)] /\ last' \in [Ing -> SUBSET Addr]
           /\ late' \subseteq Ing
           /\ \A q \in Replica : q # r \/ ~Accepting(r) => queue'[q] = queue[q]
<1>1. /\ queue \in [Replica -> Seq(Item)] /\ last \in [Ing -> SUBSET Addr]
      /\ late \subseteq Ing /\ named \in SUBSET Ing
  BY DEF Types, ClusterTypes, ServiceTypes
<1>2. CASE Accepting(r)
  <2>1. Patches(named, lb) \in Seq(Item)
    BY <1>1, PatchesOf
  <2>2. queue[r] \o Patches(named, lb) \in Seq(Item)
    BY <1>1, <2>1, ConcatProperties
  <2>3. /\ queue' = [queue EXCEPT ![r] = queue[r] \o Patches(named, lb)]
        /\ last' = [i \in Ing |-> IF i \in named THEN lb ELSE last[i]]
        /\ late' = IF holder = r THEN late \ named ELSE late \cup named
    BY <1>2, UpdateEffect
  <2> QED
    BY <1>1, <1>2, <2>2, <2>3
<1>3. CASE ~Accepting(r)
  BY <1>1, <1>3 DEF update
<1> QED
  BY <1>2, <1>3

\* A sync of the reconcile loop or of leaderChanged keeps the types.
LEMMA ChangedTypes ==
    ASSUME Types, NEW r \in Replica, NEW objects, NEW readable \in BOOLEAN,
           NEW listable \in BOOLEAN, changed(r, objects, readable, listable)
    PROVE  /\ queue' \in [Replica -> Seq(Item)] /\ last' \in [Ing -> SUBSET Addr]
           /\ late' \subseteq Ing /\ stale' \subseteq Replica
           /\ curr' \in [Replica -> SUBSET Addr] /\ failed' \in Nat
           /\ \A q \in Replica : q # r \/ ~Accepting(r) => queue'[q] = queue[q]
           /\ stale \ {r} \subseteq stale' /\ (sing[r] # "run" => r \in stale')
           /\ \A q \in Replica \ {r} : curr'[q] = curr[q]
<1>1. /\ queue \in [Replica -> Seq(Item)] /\ last \in [Ing -> SUBSET Addr]
      /\ late \subseteq Ing /\ stale \subseteq Replica /\ failed \in Nat
      /\ curr \in [Replica -> SUBSET Addr]
  BY DEF Types, ClusterTypes, ServiceTypes
<1>2. failed' \in Nat
  BY SMTT(90), <1>1 DEF changed
<1>3. CASE sing[r] # "run"
  BY <1>1, <1>2, <1>3 DEF changed
<1>4. CASE sing[r] = "run"
  <2>1. PICK named \in SUBSET ings, lb \in SUBSET Addr :
           Said(r, objects, named, lb)
    BY <1>4, ChangedEffect
  <2>2. /\ queue' \in [Replica -> Seq(Item)] /\ last' \in [Ing -> SUBSET Addr]
        /\ late' \subseteq Ing
        /\ \A q \in Replica : q # r \/ ~Accepting(r) => queue'[q] = queue[q]
    BY <2>1, UpdateTypes DEF Said
  <2> QED
    BY <1>1, <1>2, <1>4, <2>1, <2>2 DEF Said
<1> QED
  BY <1>3, <1>4

\* A step keeps the types of the cluster, of the history and of the counters.
LEMMA ClusterTypesStep ==
    ASSUME Types, [Next]_vars
    PROVE  ClusterTypes'
<1>1. ASSUME NEW i \in Ing, AddIngress(i)
      PROVE  ClusterTypes'
  BY SMTT(90), <1>1 DEF AddIngress, Notify, Types, ClusterTypes, cluster, history, counters
<1>2. ASSUME NEW a \in Addr, Publish(a)
      PROVE  ClusterTypes'
  BY SMTT(90), <1>2 DEF Publish, Notify, Types, ClusterTypes, cluster, history, counters
<1>3. ASSUME NEW r \in Replica, Launch(r)
      PROVE  ClusterTypes'
  BY <1>3 DEF Launch, Types, ClusterTypes, cluster, history, counters
<1>4. ASSUME NEW r \in Replica, Terminate(r)
      PROVE  ClusterTypes'
  BY SMTT(90), <1>4 DEF Terminate, Ended, Types, ClusterTypes, cluster, history, counters
<1>5. ASSUME NEW r \in Replica, Acquire(r)
      PROVE  ClusterTypes'
  BY <1>5 DEF Acquire, Types, ClusterTypes, cluster, history, counters
<1>6. ASSUME NEW r \in Replica, Lose(r)
      PROVE  ClusterTypes'
  BY SMTT(90), <1>6 DEF Lose, Ended, Types, ClusterTypes, cluster, history, counters
<1>7. ASSUME NEW r \in Replica, PatchFails(r)
      PROVE  ClusterTypes'
  BY SMTT(90), <1>7 DEF PatchFails, Accepting, Types, ClusterTypes, cluster, history, counters
<1>8. ASSUME NEW r \in Replica, PatchCanceled(r)
      PROVE  ClusterTypes'
  BY <1>8 DEF PatchCanceled, Types, ClusterTypes, cluster, history, counters
<1>9. ASSUME NEW r \in Replica, NEW item \in retry[r], Retry(r, item)
      PROVE  ClusterTypes'
  <2>1. item[1] \in Ing /\ item[2] \in SUBSET Addr
    BY SMTT(90), <1>9 DEF Retry, Types, ServiceTypes, Item
  <2> QED
    BY <1>9, <2>1 DEF Retry, Types, ClusterTypes, cluster, history, counters
<1>10. ASSUME NEW r \in Replica, onStartedLeading(r)
      PROVE  ClusterTypes'
  BY <1>10 DEF onStartedLeading, Types, ClusterTypes, cluster, history, counters
<1>11. ASSUME NEW r \in Replica, onStoppedLeading(r)
      PROVE  ClusterTypes'
  BY <1>11 DEF onStoppedLeading, Types, ClusterTypes, cluster, history, counters
<1>12. ASSUME NEW r \in Replica, Exit(r)
      PROVE  ClusterTypes'
  BY <1>12 DEF Exit, Types, ClusterTypes, cluster, history, counters
<1>13. ASSUME NEW r \in Replica, upsStart(r)
      PROVE  ClusterTypes'
  BY <1>13 DEF upsStart, Types, ClusterTypes, cluster, history, counters
<1>14. ASSUME NEW r \in Replica, notify(r)
      PROVE  ClusterTypes'
  BY <1>14 DEF notify, Accepting, Types, ClusterTypes, cluster, history, counters
<1>15. ASSUME NEW r \in Replica, Patch(r)
      PROVE  ClusterTypes'
  <2>1. work[r][1] \in Ing /\ work[r][2] \in SUBSET Addr
    BY <1>15 DEF Patch, Types, ServiceTypes, Item
  <2> QED
    BY <1>15, <2>1 DEF Patch, Types, ClusterTypes, cluster, history, counters
<1>16. ASSUME NEW r \in Replica, upsCancel(r)
      PROVE  ClusterTypes'
  BY <1>16 DEF upsCancel, CanShutdown, Done, Types, ClusterTypes, cluster, history, counters
<1>17. ASSUME NEW r \in Replica, upsShutDown(r)
      PROVE  ClusterTypes'
  BY <1>17 DEF upsShutDown, Types, ClusterTypes, cluster, history, counters
<1>18. ASSUME NEW r \in Replica, upsDone(r)
      PROVE  ClusterTypes'
  BY <1>18 DEF upsDone, Types, ClusterTypes, cluster, history, counters
<1>19. ASSUME NEW r \in Replica, singStart(r)
      PROVE  ClusterTypes'
  BY <1>19 DEF singStart, Types, ClusterTypes, cluster, history, counters
<1>20. ASSUME NEW r \in Replica, singStop(r)
      PROVE  ClusterTypes'
  BY <1>20 DEF singStop, Done, Types, ClusterTypes, cluster, history, counters
<1>21. ASSUME NEW r \in Replica, NEW ok \in BOOLEAN, shutdown(r, ok)
      PROVE  ClusterTypes'
  <2>1. /\ last' \in [Ing -> SUBSET Addr] /\ late' \subseteq Ing
        /\ stale' \subseteq Replica /\ failed' \in Nat
    <3>1. CASE Cardinality(Pods) > 1 \/ ~ok
      BY SMTT(90), <1>21, <3>1 DEF shutdown, Types, ClusterTypes, history
    <3>2. CASE ~(Cardinality(Pods) > 1 \/ ~ok)
      <4>1. update(r, Patches(ings, {})) /\ {} \in SUBSET Addr /\ ings \in SUBSET ings
        BY <1>21, <3>2 DEF shutdown
      <4>2. last' \in [Ing -> SUBSET Addr] /\ late' \subseteq Ing
        BY <4>1, UpdateTypes
      <4> QED
        BY <1>21, <3>2, <4>2 DEF shutdown, Types, ClusterTypes
    <3> QED
      BY <3>1, <3>2
  <2> QED
    BY <1>21, <2>1 DEF shutdown, Types, ClusterTypes, cluster
<1>22. ASSUME NEW r \in Replica, NEW readable \in BOOLEAN, NEW listable \in BOOLEAN,
             Reconcile(r, readable, listable)
      PROVE  ClusterTypes'
  <2>1. /\ last' \in [Ing -> SUBSET Addr] /\ late' \subseteq Ing
        /\ stale' \subseteq Replica /\ failed' \in Nat
    BY <1>22, ChangedTypes DEF Reconcile, history
  <2> QED
    BY <1>22, <2>1 DEF Reconcile, Types, ClusterTypes, cluster
<1>23. ASSUME NEW r \in Replica, NEW readable \in BOOLEAN, NEW listable \in BOOLEAN,
             leaderChanged(r, readable, listable)
      PROVE  ClusterTypes'
  <2>1. /\ last' \in [Ing -> SUBSET Addr] /\ late' \subseteq Ing
        /\ stale' \subseteq Replica /\ failed' \in Nat
    <3>1. CASE synced[r]
      BY <1>23, <3>1, ChangedTypes DEF leaderChanged
    <3>2. CASE ~synced[r]
      BY <1>23, <3>2 DEF leaderChanged, Types, ClusterTypes, history
    <3> QED
      BY <3>1, <3>2
  <2> QED
    BY <1>23, <2>1 DEF leaderChanged, Types, ClusterTypes, cluster
<1>24. CASE UNCHANGED vars
  BY <1>24 DEF vars, Types, ClusterTypes, cluster, history, counters
<1> QED
  BY <1>1, <1>2, <1>3, <1>4, <1>5, <1>6, <1>7, <1>8, <1>9, <1>10, <1>11, <1>12, <1>13, <1>14, <1>15,
     <1>16, <1>17, <1>18, <1>19, <1>20, <1>21, <1>22, <1>23, <1>24
  DEF Next, Steps

\* A step keeps the types of the election.
LEMMA ElectionTypesStep ==
    ASSUME Types, [Next]_vars
    PROVE  ElectionTypes'
<1>1. ASSUME NEW i \in Ing, AddIngress(i)
      PROVE  ElectionTypes'
  BY <1>1 DEF AddIngress, Types, ElectionTypes, election
<1>2. ASSUME NEW a \in Addr, Publish(a)
      PROVE  ElectionTypes'
  BY <1>2 DEF Publish, Types, ElectionTypes, election
<1>3. ASSUME NEW r \in Replica, Launch(r)
      PROVE  ElectionTypes'
  BY <1>3 DEF Launch, Types, ElectionTypes, election
<1>4. ASSUME NEW r \in Replica, Terminate(r)
      PROVE  ElectionTypes'
  BY <1>4 DEF Terminate, Ended, Types, ElectionTypes, election
<1>5. ASSUME NEW r \in Replica, Acquire(r)
      PROVE  ElectionTypes'
  BY <1>5 DEF Acquire, Types, ElectionTypes, election
<1>6. ASSUME NEW r \in Replica, Lose(r)
      PROVE  ElectionTypes'
  BY <1>6 DEF Lose, Ended, Types, ElectionTypes, election
<1>7. ASSUME NEW r \in Replica, PatchFails(r)
      PROVE  ElectionTypes'
  BY <1>7 DEF PatchFails, Types, ElectionTypes, election
<1>8. ASSUME NEW r \in Replica, PatchCanceled(r)
      PROVE  ElectionTypes'
  BY <1>8 DEF PatchCanceled, Types, ElectionTypes, election
<1>9. ASSUME NEW r \in Replica, NEW item \in retry[r], Retry(r, item)
      PROVE  ElectionTypes'
  BY <1>9 DEF Retry, Types, ElectionTypes, election
<1>10. ASSUME NEW r \in Replica, onStartedLeading(r)
      PROVE  ElectionTypes'
  BY <1>10 DEF onStartedLeading, Types, ElectionTypes, election
<1>11. ASSUME NEW r \in Replica, onStoppedLeading(r)
      PROVE  ElectionTypes'
  BY <1>11 DEF onStoppedLeading, Types, ElectionTypes, election
<1>12. ASSUME NEW r \in Replica, Exit(r)
      PROVE  ElectionTypes'
  BY <1>12 DEF Exit, Types, ElectionTypes, election
<1>13. ASSUME NEW r \in Replica, upsStart(r)
      PROVE  ElectionTypes'
  BY <1>13 DEF upsStart, Types, ElectionTypes, election
<1>14. ASSUME NEW r \in Replica, notify(r)
      PROVE  ElectionTypes'
  BY <1>14 DEF notify, Types, ElectionTypes, election
<1>15. ASSUME NEW r \in Replica, Patch(r)
      PROVE  ElectionTypes'
  BY <1>15 DEF Patch, Types, ElectionTypes, election
<1>16. ASSUME NEW r \in Replica, upsCancel(r)
      PROVE  ElectionTypes'
  BY <1>16 DEF upsCancel, Types, ElectionTypes, election
<1>17. ASSUME NEW r \in Replica, upsShutDown(r)
      PROVE  ElectionTypes'
  BY <1>17 DEF upsShutDown, Types, ElectionTypes, election
<1>18. ASSUME NEW r \in Replica, upsDone(r)
      PROVE  ElectionTypes'
  BY <1>18 DEF upsDone, Types, ElectionTypes, election
<1>19. ASSUME NEW r \in Replica, singStart(r)
      PROVE  ElectionTypes'
  BY <1>19 DEF singStart, Types, ElectionTypes, election
<1>20. ASSUME NEW r \in Replica, singStop(r)
      PROVE  ElectionTypes'
  BY <1>20 DEF singStop, Types, ElectionTypes, election
<1>21. ASSUME NEW r \in Replica, NEW ok \in BOOLEAN, shutdown(r, ok)
      PROVE  ElectionTypes'
  BY <1>21 DEF shutdown, Types, ElectionTypes, election
<1>22. ASSUME NEW r \in Replica, NEW readable \in BOOLEAN, NEW listable \in BOOLEAN,
             Reconcile(r, readable, listable)
      PROVE  ElectionTypes'
  BY <1>22 DEF Reconcile, Types, ElectionTypes, election
<1>23. ASSUME NEW r \in Replica, NEW readable \in BOOLEAN, NEW listable \in BOOLEAN,
             leaderChanged(r, readable, listable)
      PROVE  ElectionTypes'
  BY <1>23 DEF leaderChanged, Types, ElectionTypes, election
<1>24. CASE UNCHANGED vars
  BY <1>24 DEF vars, Types, ElectionTypes, election
<1> QED
  BY <1>1, <1>2, <1>3, <1>4, <1>5, <1>6, <1>7, <1>8, <1>9, <1>10, <1>11, <1>12, <1>13, <1>14, <1>15,
     <1>16, <1>17, <1>18, <1>19, <1>20, <1>21, <1>22, <1>23, <1>24
  DEF Next, Steps

\* A step keeps the types of the services.
LEMMA ServiceTypesStep ==
    ASSUME Types, [Next]_vars
    PROVE  ServiceTypes'
<1>1. ASSUME NEW i \in Ing, AddIngress(i)
      PROVE  ServiceTypes'
  BY <1>1 DEF AddIngress, Notify, Types, ServiceTypes
<1>2. ASSUME NEW a \in Addr, Publish(a)
      PROVE  ServiceTypes'
  BY <1>2 DEF Publish, Notify, Types, ServiceTypes, services
<1>3. ASSUME NEW r \in Replica, Launch(r)
      PROVE  ServiceTypes'
  BY <1>3 DEF Launch, Types, ServiceTypes, ClusterTypes
<1>4. ASSUME NEW r \in Replica, Terminate(r)
      PROVE  ServiceTypes'
  BY <1>4 DEF Terminate, Types, ServiceTypes, services
<1>5. ASSUME NEW r \in Replica, Acquire(r)
      PROVE  ServiceTypes'
  BY <1>5 DEF Acquire, Types, ServiceTypes, services
<1>6. ASSUME NEW r \in Replica, Lose(r)
      PROVE  ServiceTypes'
  BY <1>6 DEF Lose, Types, ServiceTypes, services
<1>7. ASSUME NEW r \in Replica, PatchFails(r)
      PROVE  ServiceTypes'
  BY <1>7 DEF PatchFails, Accepting, Types, ServiceTypes, services
<1>8. ASSUME NEW r \in Replica, PatchCanceled(r)
      PROVE  ServiceTypes'
  BY <1>8 DEF PatchCanceled, Types, ServiceTypes, services
<1>9. ASSUME NEW r \in Replica, NEW item \in retry[r], Retry(r, item)
      PROVE  ServiceTypes'
  <2>1. queue[r] \in Seq(Item) /\ item \in Item
    BY <1>9 DEF Retry, Types, ServiceTypes
  <2>2. Append(queue[r], item) \in Seq(Item)
    BY <2>1, AppendProperties
  <2> QED
    BY <1>9, <2>2 DEF Retry, Types, ServiceTypes
<1>10. ASSUME NEW r \in Replica, onStartedLeading(r)
      PROVE  ServiceTypes'
  BY <1>10 DEF onStartedLeading, Types, ServiceTypes, services
<1>11. ASSUME NEW r \in Replica, onStoppedLeading(r)
      PROVE  ServiceTypes'
  BY <1>11 DEF onStoppedLeading, Types, ServiceTypes, services
<1>12. ASSUME NEW r \in Replica, Exit(r)
      PROVE  ServiceTypes'
  BY SMTT(90), <1>12 DEF Exit, Types, ServiceTypes, services
<1>13. ASSUME NEW r \in Replica, upsStart(r)
      PROVE  ServiceTypes'
  BY <1>13 DEF upsStart, Types, ServiceTypes, services
<1>14. ASSUME NEW r \in Replica, notify(r)
      PROVE  ServiceTypes'
  <2>1. queue[r] \in Seq(Item) /\ queue[r] # <<>>
    BY <1>14 DEF notify, Types, ServiceTypes
  <2>2. Head(queue[r]) \in Item /\ Tail(queue[r]) \in Seq(Item)
    BY <2>1, HeadTailProperties
  <2> HIDE DEF Item
  <2> QED
    BY <1>14, <2>2 DEF notify, Types, ServiceTypes
<1>15. ASSUME NEW r \in Replica, Patch(r)
      PROVE  ServiceTypes'
  BY <1>15 DEF Patch, Types, ServiceTypes, services
<1>16. ASSUME NEW r \in Replica, upsCancel(r)
      PROVE  ServiceTypes'
  BY <1>16 DEF upsCancel, Types, ServiceTypes, services
<1>17. ASSUME NEW r \in Replica, upsShutDown(r)
      PROVE  ServiceTypes'
  BY <1>17 DEF upsShutDown, Types, ServiceTypes, services
<1>18. ASSUME NEW r \in Replica, upsDone(r)
      PROVE  ServiceTypes'
  BY <1>18 DEF upsDone, Types, ServiceTypes, services
<1>19. ASSUME NEW r \in Replica, singStart(r)
      PROVE  ServiceTypes'
  BY <1>19 DEF singStart, Types, ServiceTypes, services
<1>20. ASSUME NEW r \in Replica, singStop(r)
      PROVE  ServiceTypes'
  BY <1>20 DEF singStop, Types, ServiceTypes, services
<1>21. ASSUME NEW r \in Replica, NEW ok \in BOOLEAN, shutdown(r, ok)
      PROVE  ServiceTypes'
  <2>1. queue' \in [Replica -> Seq(Item)]
    <3>1. CASE Cardinality(Pods) > 1 \/ ~ok
      BY <1>21, <3>1 DEF shutdown, Types, ServiceTypes
    <3>2. CASE ~(Cardinality(Pods) > 1 \/ ~ok)
      <4>1. update(r, Patches(ings, {})) /\ {} \in SUBSET Addr /\ ings \in SUBSET ings
        BY <1>21, <3>2 DEF shutdown
      <4> QED
        BY <4>1, UpdateTypes
    <3> QED
      BY <3>1, <3>2
  <2> QED
    BY <1>21, <2>1 DEF shutdown, Types, ServiceTypes
<1>22. ASSUME NEW r \in Replica, NEW readable \in BOOLEAN, NEW listable \in BOOLEAN,
             Reconcile(r, readable, listable)
      PROVE  ServiceTypes'
  <2>1. queue' \in [Replica -> Seq(Item)] /\ curr' \in [Replica -> SUBSET Addr]
    BY <1>22, ChangedTypes DEF Reconcile
  <2> QED
    BY <1>22, <2>1 DEF Reconcile, Types, ServiceTypes
<1>23. ASSUME NEW r \in Replica, NEW readable \in BOOLEAN, NEW listable \in BOOLEAN,
             leaderChanged(r, readable, listable)
      PROVE  ServiceTypes'
  <2>1. queue' \in [Replica -> Seq(Item)] /\ curr' \in [Replica -> SUBSET Addr]
    <3>1. CASE synced[r]
      BY <1>23, <3>1, ChangedTypes DEF leaderChanged
    <3>2. CASE ~synced[r]
      BY <1>23, <3>2 DEF leaderChanged, Types, ServiceTypes
    <3> QED
      BY <3>1, <3>2
  <2> QED
    BY <1>23, <2>1 DEF leaderChanged, Types, ServiceTypes
<1>24. CASE UNCHANGED vars
  BY <1>24 DEF vars, Types, ServiceTypes, services
<1> QED
  BY <1>1, <1>2, <1>3, <1>4, <1>5, <1>6, <1>7, <1>8, <1>9, <1>10, <1>11, <1>12, <1>13, <1>14, <1>15,
     <1>16, <1>17, <1>18, <1>19, <1>20, <1>21, <1>22, <1>23, <1>24
  DEF Next, Steps

-----------------------------------------------------------------------------
\* A step keeps StartInv: onStartedLeading starts both services of a replica, and
\* a sync before they run makes it stale.
LEMMA StartStep ==
    ASSUME Types, StartInv, [Next]_vars
    PROVE  StartInv'
<1>1. ASSUME NEW i \in Ing, AddIngress(i)
      PROVE  StartInv'
  BY <1>1 DEF AddIngress, Notify, Types, ElectionTypes, ServiceTypes, StartInv, cluster, election, services, history
<1>2. ASSUME NEW a \in Addr, Publish(a)
      PROVE  StartInv'
  BY <1>2 DEF Publish, Notify, Types, ElectionTypes, ServiceTypes, StartInv, cluster, election, services, history
<1>3. ASSUME NEW r \in Replica, Launch(r)
      PROVE  StartInv'
  BY <1>3 DEF Launch, Types, ElectionTypes, ServiceTypes, StartInv, cluster, election, services, history
<1>4. ASSUME NEW r \in Replica, Terminate(r)
      PROVE  StartInv'
  BY <1>4 DEF Terminate, Ended, Types, ElectionTypes, ServiceTypes, StartInv, cluster, election, services, history
<1>5. ASSUME NEW r \in Replica, Acquire(r)
      PROVE  StartInv'
  BY <1>5 DEF Acquire, Types, ElectionTypes, ServiceTypes, StartInv, cluster, election, services, history
<1>6. ASSUME NEW r \in Replica, Lose(r)
      PROVE  StartInv'
  BY <1>6 DEF Lose, Ended, Types, ElectionTypes, ServiceTypes, StartInv, cluster, election, services, history
<1>7. ASSUME NEW r \in Replica, PatchFails(r)
      PROVE  StartInv'
  BY <1>7 DEF PatchFails, Types, ElectionTypes, ServiceTypes, StartInv, cluster, election, services, history
<1>8. ASSUME NEW r \in Replica, PatchCanceled(r)
      PROVE  StartInv'
  BY <1>8 DEF PatchCanceled, Types, ElectionTypes, ServiceTypes, StartInv, cluster, election, services, history
<1>9. ASSUME NEW r \in Replica, NEW item \in retry[r], Retry(r, item)
      PROVE  StartInv'
  BY <1>9 DEF Retry, Types, ElectionTypes, ServiceTypes, StartInv, cluster, election, services, history
<1>10. ASSUME NEW r \in Replica, onStartedLeading(r)
      PROVE  StartInv'
  BY <1>10 DEF onStartedLeading, Types, ElectionTypes, ServiceTypes, StartInv, cluster, election, services, history
<1>11. ASSUME NEW r \in Replica, onStoppedLeading(r)
      PROVE  StartInv'
  BY <1>11 DEF onStoppedLeading, Types, ElectionTypes, ServiceTypes, StartInv, cluster, election, services, history
<1>12. ASSUME NEW r \in Replica, Exit(r)
      PROVE  StartInv'
  BY <1>12 DEF Exit, Types, ElectionTypes, ServiceTypes, StartInv, cluster, election, services, history
<1>13. ASSUME NEW r \in Replica, upsStart(r)
      PROVE  StartInv'
  BY <1>13 DEF upsStart, Types, ElectionTypes, ServiceTypes, StartInv, cluster, election, services, history
<1>14. ASSUME NEW r \in Replica, notify(r)
      PROVE  StartInv'
  BY <1>14 DEF notify, Types, ElectionTypes, ServiceTypes, StartInv, cluster, election, services, history
<1>15. ASSUME NEW r \in Replica, Patch(r)
      PROVE  StartInv'
  BY <1>15 DEF Patch, Types, ElectionTypes, ServiceTypes, StartInv, cluster, election, services, history
<1>16. ASSUME NEW r \in Replica, upsCancel(r)
      PROVE  StartInv'
  BY <1>16 DEF upsCancel, Types, ElectionTypes, ServiceTypes, StartInv, cluster, election, services, history
<1>17. ASSUME NEW r \in Replica, upsShutDown(r)
      PROVE  StartInv'
  BY <1>17 DEF upsShutDown, Types, ElectionTypes, ServiceTypes, StartInv, cluster, election, services, history
<1>18. ASSUME NEW r \in Replica, upsDone(r)
      PROVE  StartInv'
  BY <1>18 DEF upsDone, Types, ElectionTypes, ServiceTypes, StartInv, cluster, election, services, history
<1>19. ASSUME NEW r \in Replica, singStart(r)
      PROVE  StartInv'
  BY <1>19 DEF singStart, Types, ElectionTypes, ServiceTypes, StartInv, cluster, election, services, history
<1>20. ASSUME NEW r \in Replica, singStop(r)
      PROVE  StartInv'
  BY <1>20 DEF singStop, Types, ElectionTypes, ServiceTypes, StartInv, cluster, election, services, history
<1>21. ASSUME NEW r \in Replica, NEW ok \in BOOLEAN, shutdown(r, ok)
      PROVE  StartInv'
  <2>1. stale \subseteq stale'
    BY <1>21 DEF shutdown, history
  <2>2. /\ sing[r] = "shutdown" /\ sing' = [sing EXCEPT ![r] = "done"]
        /\ UNCHANGED <<ings, life, lead, synced, batch, curr, ups>>
    BY <1>21 DEF shutdown, cluster, election
  <2> QED
    BY <2>1, <2>2 DEF Types, ServiceTypes, StartInv
<1>22. ASSUME NEW r \in Replica, NEW readable \in BOOLEAN, NEW listable \in BOOLEAN,
             Reconcile(r, readable, listable)
      PROVE  StartInv'
  <2>1. /\ stale \ {r} \subseteq stale' /\ (sing[r] # "run" => r \in stale')
        /\ \A q \in Replica \ {r} : curr'[q] = curr[q]
    BY <1>22, ChangedTypes DEF Reconcile
  <2>2. /\ life[r] \in {"up", "stopping"} /\ synced' = [synced EXCEPT ![r] = TRUE]
        /\ batch' = [batch EXCEPT ![r] = {}] /\ UNCHANGED <<ings, life, lead, sing, ups>>
    BY <1>22 DEF Reconcile, cluster
  <2> QED
    BY <2>1, <2>2 DEF Types, ElectionTypes, ServiceTypes, StartInv
<1>23. ASSUME NEW r \in Replica, NEW readable \in BOOLEAN, NEW listable \in BOOLEAN,
             leaderChanged(r, readable, listable)
      PROVE  StartInv'
  <2>1. CASE synced[r]
    <3>1. /\ stale \ {r} \subseteq stale' /\ (sing[r] # "run" => r \in stale')
          /\ \A q \in Replica \ {r} : curr'[q] = curr[q]
      <4>1. changed(r, batch[r], readable, listable)
        BY <1>23, <2>1 DEF leaderChanged
      <4> QED
        BY <4>1, ChangedTypes
    <3>2. batch' = [batch EXCEPT ![r] = {}] /\ UNCHANGED <<ings, life, lead, synced, sing, ups>>
      BY <1>23, <2>1 DEF leaderChanged, cluster
    <3> QED
      BY <2>1, <3>1, <3>2 DEF Types, ServiceTypes, StartInv
  <2>2. CASE ~synced[r]
    BY <1>23, <2>2 DEF leaderChanged, StartInv, cluster, history
  <2> QED
    BY <2>1, <2>2
<1>24. CASE UNCHANGED vars
  BY <1>24 DEF vars, StartInv, cluster, election, services, history
<1> QED
  BY <1>1, <1>2, <1>3, <1>4, <1>5, <1>6, <1>7, <1>8, <1>9, <1>10, <1>11, <1>12, <1>13, <1>14, <1>15,
     <1>16, <1>17, <1>18, <1>19, <1>20, <1>21, <1>22, <1>23, <1>24
  DEF Next, Steps

\* A step keeps QueueInv: a queue that was shut down or never ran accepts nothing,
\* and onStoppedLeading waits for it.
LEMMA QueueStep ==
    ASSUME Types, StartInv, QueueInv, [Next]_vars
    PROVE  QueueInv'
<1>1. ASSUME NEW i \in Ing, AddIngress(i)
      PROVE  QueueInv'
  BY <1>1 DEF AddIngress, Notify, Types, ElectionTypes, ServiceTypes, QueueInv, cluster, election, services
<1>2. ASSUME NEW a \in Addr, Publish(a)
      PROVE  QueueInv'
  BY <1>2 DEF Publish, Notify, Types, ElectionTypes, ServiceTypes, QueueInv, cluster, election, services
<1>3. ASSUME NEW r \in Replica, Launch(r)
      PROVE  QueueInv'
  BY <1>3 DEF Launch, Types, ElectionTypes, ServiceTypes, QueueInv, cluster, election, services
<1>4. ASSUME NEW r \in Replica, Terminate(r)
      PROVE  QueueInv'
  BY <1>4 DEF Terminate, Ended, Types, ElectionTypes, ServiceTypes, QueueInv, cluster, election, services
<1>5. ASSUME NEW r \in Replica, Acquire(r)
      PROVE  QueueInv'
  BY <1>5 DEF Acquire, Types, ElectionTypes, ServiceTypes, QueueInv, cluster, election, services
<1>6. ASSUME NEW r \in Replica, Lose(r)
      PROVE  QueueInv'
  BY <1>6 DEF Lose, Ended, Types, ElectionTypes, ServiceTypes, QueueInv, cluster, election, services
<1>7. ASSUME NEW r \in Replica, PatchFails(r)
      PROVE  QueueInv'
  BY <1>7 DEF PatchFails, Accepting, Types, ElectionTypes, ServiceTypes, QueueInv, cluster, election, services
<1>8. ASSUME NEW r \in Replica, PatchCanceled(r)
      PROVE  QueueInv'
  BY <1>8 DEF PatchCanceled, Types, ElectionTypes, ServiceTypes, QueueInv, cluster, election, services
<1>9. ASSUME NEW r \in Replica, NEW item \in retry[r], Retry(r, item)
      PROVE  QueueInv'
  BY <1>9 DEF Retry, Accepting, QueueInv, election, Types, ServiceTypes
<1>10. ASSUME NEW r \in Replica, onStartedLeading(r)
      PROVE  QueueInv'
  <2>1. ups[r] = "off"
    BY <1>10 DEF onStartedLeading, StartInv
  <2>2. /\ ups' = [ups EXCEPT ![r] = "starting"] /\ UNCHANGED <<queue, retry, work>>
        /\ \A q \in Replica : lead'[q] = "lost" => q # r /\ lead[q] = "lost"
    BY <1>10 DEF onStartedLeading, Types, ElectionTypes
  <2> QED
    BY <2>1, <2>2 DEF Types, ServiceTypes, QueueInv
<1>11. ASSUME NEW r \in Replica, onStoppedLeading(r)
      PROVE  QueueInv'
  BY <1>11 DEF onStoppedLeading, Types, ElectionTypes, ServiceTypes, QueueInv, cluster, election, services
<1>12. ASSUME NEW r \in Replica, Exit(r)
      PROVE  QueueInv'
  BY <1>12 DEF Exit, Types, ElectionTypes, ServiceTypes, QueueInv, cluster, election, services
<1>13. ASSUME NEW r \in Replica, upsStart(r)
      PROVE  QueueInv'
  BY <1>13 DEF upsStart, Types, ElectionTypes, ServiceTypes, QueueInv, cluster, election, services
<1>14. ASSUME NEW r \in Replica, notify(r)
      PROVE  QueueInv'
  BY <1>14 DEF notify, Accepting, Types, ElectionTypes, ServiceTypes, QueueInv, cluster, election, services
<1>15. ASSUME NEW r \in Replica, Patch(r)
      PROVE  QueueInv'
  BY <1>15 DEF Patch, Types, ElectionTypes, ServiceTypes, QueueInv, cluster, election, services
<1>16. ASSUME NEW r \in Replica, upsCancel(r)
      PROVE  QueueInv'
  BY <1>16 DEF upsCancel, Types, ElectionTypes, ServiceTypes, QueueInv, cluster, election, services
<1>17. ASSUME NEW r \in Replica, upsShutDown(r)
      PROVE  QueueInv'
  BY <1>17 DEF upsShutDown, Types, ElectionTypes, ServiceTypes, QueueInv, cluster, election, services
<1>18. ASSUME NEW r \in Replica, upsDone(r)
      PROVE  QueueInv'
  BY <1>18 DEF upsDone, Types, ElectionTypes, ServiceTypes, QueueInv, cluster, election, services
<1>19. ASSUME NEW r \in Replica, singStart(r)
      PROVE  QueueInv'
  BY <1>19 DEF singStart, Types, ElectionTypes, ServiceTypes, QueueInv, cluster, election, services
<1>20. ASSUME NEW r \in Replica, singStop(r)
      PROVE  QueueInv'
  BY <1>20 DEF singStop, Types, ElectionTypes, ServiceTypes, QueueInv, cluster, election, services
<1>21. ASSUME NEW r \in Replica, NEW ok \in BOOLEAN, shutdown(r, ok)
      PROVE  QueueInv'
  <2>1. \A q \in Replica : q # r \/ ~Accepting(r) => queue'[q] = queue[q]
    <3>1. CASE Cardinality(Pods) > 1 \/ ~ok
      BY <1>21, <3>1 DEF shutdown
    <3>2. CASE ~(Cardinality(Pods) > 1 \/ ~ok)
      <4>1. update(r, Patches(ings, {})) /\ {} \in SUBSET Addr /\ ings \in SUBSET ings
        BY <1>21, <3>2 DEF shutdown
      <4> QED
        BY <4>1, UpdateTypes
    <3> QED
      BY <3>1, <3>2
  <2> QED
    BY <1>21, <2>1 DEF shutdown, QueueInv, Accepting, election
<1>22. ASSUME NEW r \in Replica, NEW readable \in BOOLEAN, NEW listable \in BOOLEAN,
             Reconcile(r, readable, listable)
      PROVE  QueueInv'
  <2>1. \A q \in Replica : q # r \/ ~Accepting(r) => queue'[q] = queue[q]
    BY <1>22, ChangedTypes DEF Reconcile
  <2> QED
    BY <1>22, <2>1 DEF Reconcile, QueueInv, Accepting
<1>23. ASSUME NEW r \in Replica, NEW readable \in BOOLEAN, NEW listable \in BOOLEAN,
             leaderChanged(r, readable, listable)
      PROVE  QueueInv'
  <2>1. \A q \in Replica : q # r \/ ~Accepting(r) => queue'[q] = queue[q]
    <3>1. CASE synced[r]
      BY <1>23, <3>1, ChangedTypes DEF leaderChanged
    <3>2. CASE ~synced[r]
      BY <1>23, <3>2 DEF leaderChanged
    <3> QED
      BY <3>1, <3>2
  <2> QED
    BY <1>23, <2>1 DEF leaderChanged, QueueInv, Accepting
<1>24. CASE UNCHANGED vars
  BY <1>24 DEF vars, QueueInv, cluster, election, services
<1> QED
  BY <1>1, <1>2, <1>3, <1>4, <1>5, <1>6, <1>7, <1>8, <1>9, <1>10, <1>11, <1>12, <1>13, <1>14, <1>15,
     <1>16, <1>17, <1>18, <1>19, <1>20, <1>21, <1>22, <1>23, <1>24
  DEF Next, Steps

-----------------------------------------------------------------------------
\* What update appends to a queue is the newest request for the ingresses that it
\* names, and no request for the others.
LEMMA NewestUpdate ==
    ASSUME Types, NEW r \in Replica, NEW named \in SUBSET ings, NEW lb \in SUBSET Addr,
           queue'[r] = queue[r] \o Patches(named, lb),
           last' = [i \in Ing |-> IF i \in named THEN lb ELSE last[i]],
           UNCHANGED <<work, status, retry>>, NEW i \in Ing
    PROVE  /\ i \in named => Newest(r, i)'
           /\ i \notin named /\ Newest(r, i) => Newest(r, i)'
<1> DEFINE p == Patches(named, lb)
           q == queue[r]
           z == q \o p
<1>1. named \in SUBSET Ing /\ q \in Seq(Item)
  BY DEF Types, ClusterTypes, ServiceTypes
<1>2. /\ p \in Seq(Item)
      /\ \A n \in DOMAIN p : p[n][1] \in named /\ p[n][2] = lb
      /\ \A j \in named : \E n \in DOMAIN p : p[n][1] = j
  BY <1>1, PatchesOf
<1>3. queue'[r] = z
  OBVIOUS
<1> HIDE DEF p, q
<1>4. /\ Len(q) \in Nat /\ Len(p) \in Nat /\ DOMAIN q = 1..Len(q) /\ DOMAIN p = 1..Len(p)
      /\ z \in Seq(Item) /\ Len(z) = Len(q) + Len(p) /\ DOMAIN z = 1..Len(z)
      /\ \A n \in 1..Len(z) : z[n] = IF n <= Len(q) THEN q[n] ELSE p[n - Len(q)]
  BY SMTT(90), <1>1, <1>2, ConcatProperties
<1> HIDE DEF z
<1>5. ASSUME NEW n \in DOMAIN q PROVE n \in DOMAIN z /\ z[n] = q[n]
  BY SMTT(90), <1>4
<1>6. ASSUME NEW n \in DOMAIN p
      PROVE  /\ Len(q) + n \in DOMAIN z /\ Len(q) + n > Len(q)
             /\ z[Len(q) + n] = p[n]
  BY SMTT(90), <1>4
<1>7. ASSUME NEW n \in DOMAIN z, n > Len(q)
      PROVE  z[n][1] \in named /\ z[n][2] = lb
  <2>1. n - Len(q) \in DOMAIN p /\ z[n] = p[n - Len(q)]
    BY SMTT(90), <1>4, <1>7
  <2> QED
    BY <1>2, <2>1
<1>8. ASSUME i \in named PROVE Newest(r, i)'
  <2>1. PICK k \in DOMAIN p : p[k][1] = i
    BY <1>2, <1>8
  <2>2. Len(q) + k \in DOMAIN z /\ Len(q) + k > Len(q) /\ z[Len(q) + k][1] = i
    BY <1>6, <2>1
  <2>3. ASSUME NEW n \in DOMAIN z, z[n][1] = i, \A m \in DOMAIN z : m > n => z[m][1] # i
        PROVE  z[n][2] = lb
    <3>1. ~(Len(q) + k > n)
      BY <2>2, <2>3
    <3>2. n > Len(q)
      BY SMTT(90), <1>4, <2>2, <3>1
    <3> QED
      BY <1>7, <3>2
  <2>4. last'[i] = lb
    BY <1>8
  <2> QED
    BY <1>3, <2>2, <2>3, <2>4 DEF Newest, InQueue
<1>9. ASSUME i \notin named, Newest(r, i) PROVE Newest(r, i)'
  <2>1. last'[i] = last[i]
    BY <1>9
  <2>2. (\E n \in DOMAIN z : z[n][1] = i) <=> (\E n \in DOMAIN q : q[n][1] = i)
    BY SMTT(90), <1>4, <1>5, <1>7, <1>9
  <2>3. ASSUME NEW n \in DOMAIN z, z[n][1] = i, \A m \in DOMAIN z : m > n => z[m][1] # i
        PROVE  z[n][2] = last[i]
    <3>1. n \in DOMAIN q /\ z[n] = q[n]
      BY SMTT(90), <1>4, <1>7, <1>9, <2>3
    <3>2. \A m \in DOMAIN q : m > n => q[m][1] # i
      BY <1>5, <2>3
    <3> QED
      BY <1>9, <2>3, <3>1, <3>2 DEF Newest, q
  <2> QED
    BY <1>3, <1>9, <2>1, <2>2, <2>3 DEF Newest, InQueue, InWork, q
<1> QED
  BY <1>8, <1>9

\* The newest request stays if its queue, and the status of the ingress, do.
LEMMA NewestKept ==
    ASSUME NEW r, NEW i, queue'[r] = queue[r], work'[r] = work[r], retry'[r] = retry[r],
           last'[i] = last[i], status'[i] = status[i], Newest(r, i)
    PROVE  Newest(r, i)'
  BY DEF Newest, InQueue, InWork

\* changed keeps PublishInv: a leader whose sync was not lost queues a status for
\* every ingress if the addresses changed, or it had none, and else for those that
\* changed; a status that another replica queues makes the ingress late.
LEMMA ChangedPublish ==
    ASSUME IInv, NEW r \in Replica, NEW readable \in BOOLEAN, NEW listable \in BOOLEAN,
           changed(r, batch[r], readable, listable),
           batch' = [batch EXCEPT ![r] = {}],
           \A q \in Replica \ {r} : synced'[q] = synced[q],
           UNCHANGED <<source, ings, status, addr, holder, life, sing, ups, retry, work>>
    PROVE  PublishInv'
<1> USE DEF IInv
<1>1. /\ batch \in [Replica -> SUBSET (Ing \cup {"publish-service"})] /\ ings \subseteq Ing
      /\ curr \in [Replica -> SUBSET Addr] /\ last \in [Ing -> SUBSET Addr]
      /\ queue \in [Replica -> Seq(Item)]
  BY DEF Types, ClusterTypes, ServiceTypes
<1>2. CASE sing[r] # "run"
  <2>1. stale' = stale \cup {r} /\ UNCHANGED <<curr, queue, last, late>>
    BY <1>2 DEF changed
  <2>2. ASSUME NEW q \in Replica, Serving(q)'
        PROVE  /\ q # r /\ Serving(q) /\ batch'[q] = batch[q]
    BY <1>1, <1>2, <2>1, <2>2 DEF Serving
  <2> QED
    BY SMTT(90), <2>1, <2>2, NewestKept DEF PublishInv
<1>3. CASE sing[r] = "run"
  <2>0. PICK named \in SUBSET ings, lb \in SUBSET Addr : Said(r, batch[r], named, lb)
    BY <1>3, ChangedEffect
  <2>1. /\ curr' = [curr EXCEPT ![r] = lb] /\ update(r, Patches(named, lb))
        /\ batch[r] \cap ings \subseteq named
        /\ lb # curr[r] => named = ings
        /\ stale \ {r} \subseteq stale' /\ stale' \subseteq stale \cup {r}
        /\ r \notin stale' => /\ source = "service" => lb = addr
                              /\ named = {} \/ Accepting(r)
                              /\ r \in stale => named = ings
                              /\ curr[r] = {} /\ Pods # {} => named = ings
    BY <2>0 DEF Said
  <2>2. Accepting(r) => /\ queue' = [queue EXCEPT ![r] = queue[r] \o Patches(named, lb)]
                        /\ last' = [i \in Ing |-> IF i \in named THEN lb ELSE last[i]]
                        /\ late' = IF holder = r THEN late \ named ELSE late \cup named
    BY <2>1, UpdateEffect
  <2>3. ~Accepting(r) => UNCHANGED <<queue, last, late>>
    BY <2>1 DEF update
  <2>4. ASSUME Serving(r)'
        PROVE  /\ source' = "service" => curr'[r] = addr'
               /\ \A i \in (ings' \ late') \ batch'[r] : last'[i] = curr'[r] /\ Newest(r, i)'
    <3>1. /\ r \notin stale' /\ holder = r /\ life[r] = "up" /\ sing[r] = "run"
          /\ ups[r] \in {"starting", "run"} /\ r \in Pods
      BY <2>4 DEF Serving, Pods
    <3>2. curr'[r] = lb /\ (source = "service" => lb = addr)
      BY <1>1, <2>1, <3>1
    <3>3. ASSUME NEW i \in ings \ late', i \in named
          PROVE  last'[i] = curr'[r] /\ Newest(r, i)'
      <4>1. Accepting(r)
        BY <2>1, <3>1, <3>3
      <4>2. last'[i] = lb
        BY <1>1, <2>2, <3>3, <4>1
      <4>3. queue'[r] = queue[r] \o Patches(named, lb)
        BY <1>1, <2>2, <4>1
      <4> QED
        BY <1>1, <2>2, <3>2, <3>3, <4>1, <4>2, <4>3, NewestUpdate
    <3>4. ASSUME NEW i \in ings \ late', i \notin named
          PROVE  last'[i] = curr'[r] /\ Newest(r, i)'
      <4>1. lb = curr[r] /\ r \notin stale /\ curr[r] # {} /\ i \notin batch[r]
        BY <2>1, <3>1, <3>4
      <4>2. Serving(r)
        BY <3>1, <4>1 DEF Serving, StartInv
      <4>3. i \notin late
        BY <2>2, <2>3, <3>1, <3>4
      <4>4. last[i] = lb /\ Newest(r, i)
        BY <4>1, <4>2, <4>3 DEF PublishInv
      <4>5. CASE Accepting(r)
        <5>1. last'[i] = last[i] /\ queue'[r] = queue[r] \o Patches(named, lb)
          BY <1>1, <2>2, <3>4, <4>5
        <5> QED
          BY <1>1, <2>2, <3>2, <3>4, <4>4, <4>5, <5>1, NewestUpdate
      <4>6. CASE ~Accepting(r)
        BY <2>3, <3>2, <4>4, <4>6, NewestKept
      <4> QED
        BY <4>5, <4>6
    <3> QED
      BY <3>2, <3>3, <3>4
  <2>5. ASSUME NEW q \in Replica, q # r, Serving(q)'
        PROVE  /\ source' = "service" => curr'[q] = addr' \/ "publish-service" \in batch'[q]
               /\ \A i \in (ings' \ late') \ batch'[q] : last'[i] = curr'[q] /\ Newest(q, i)'
    <3>1. Serving(q) /\ batch'[q] = batch[q] /\ curr'[q] = curr[q] /\ holder # r
      BY <1>1, <2>1, <2>5 DEF Serving
    <3>2. queue'[q] = queue[q]
      BY <1>1, <2>2, <2>3, <2>5
    <3>3. ASSUME NEW i \in (ings \ late') \ batch[q]
          PROVE  i \notin late /\ last'[i] = last[i]
      BY <1>1, <2>2, <2>3, <3>1, <3>3
    <3> QED
      BY <3>1, <3>2, <3>3, NewestKept DEF PublishInv
  <2> QED
    BY <2>4, <2>5 DEF PublishInv
<1> QED
  BY <1>2, <1>3

\* The leader that a step leaves serving did so before, with the same requests, and
\* none of its changes was taken.
Kept(r) ==
    /\ Serving(r) /\ batch[r] \subseteq batch'[r] /\ curr'[r] = curr[r]
    /\ queue'[r] = queue[r] /\ work'[r] = work[r] /\ retry'[r] = retry[r]

\* PublishInv stays if the cluster, the accepted statuses and what the leader does stay.
LEMMA PublishKept ==
    ASSUME PublishInv, UNCHANGED <<source, ings, status, addr, last, late>>,
           \A r \in Replica : Serving(r)' => Kept(r)
    PROVE  PublishInv'
<1> SUFFICES ASSUME NEW r \in Replica, Serving(r)'
             PROVE  /\ source' = "service" => curr'[r] = addr' \/ "publish-service" \in batch'[r]
                    /\ \A i \in (ings' \ late') \ batch'[r] : last'[i] = curr'[r] /\ Newest(r, i)'
  BY DEF PublishInv
<1>1. /\ Serving(r) /\ batch[r] \subseteq batch'[r] /\ curr'[r] = curr[r]
      /\ queue'[r] = queue[r] /\ work'[r] = work[r] /\ retry'[r] = retry[r]
  BY DEF Kept
<1>2. /\ source = "service" => curr[r] = addr \/ "publish-service" \in batch[r]
      /\ \A i \in (ings \ late) \ batch[r] : last[i] = curr[r] /\ Newest(r, i)
  BY <1>1 DEF PublishInv
<1>3. ASSUME NEW i \in (ings' \ late') \ batch'[r]
      PROVE  last'[i] = curr'[r] /\ Newest(r, i)'
  <2>1. last[i] = curr[r] /\ Newest(r, i) /\ last'[i] = last[i] /\ status'[i] = status[i]
    BY <1>1, <1>2, <1>3
  <2> QED
    BY <1>1, <2>1, NewestKept
<1> QED
  BY <1>1, <1>2, <1>3

\* A step keeps PublishInv: only the leader, and a request that is not newer, leave
\* an ingress that is not late.
LEMMA PublishStep ==
    ASSUME IInv, [Next]_vars
    PROVE  PublishInv'
<1> USE DEF IInv
<1>1. ASSUME NEW i \in Ing, AddIngress(i)
      PROVE  PublishInv'
  BY <1>1, NewestKept DEF AddIngress, Notify, Serving, PublishInv, StartInv, Types, ElectionTypes, ServiceTypes, cluster, election, services, history
<1>2. ASSUME NEW a \in Addr, Publish(a)
      PROVE  PublishInv'
  BY <1>2, NewestKept DEF Publish, Notify, Serving, PublishInv, StartInv, Types, ElectionTypes, ServiceTypes, cluster, election, services, history
<1>3. ASSUME NEW r \in Replica, Launch(r)
      PROVE  PublishInv'
  <2>1. ASSUME NEW q \in Replica, Serving(q)' PROVE Kept(q)
    BY <1>3, <2>1 DEF Launch, Kept, Serving, StartInv, Types, ElectionTypes, ServiceTypes, history
  <2> QED
    BY <1>3, <2>1, PublishKept DEF Launch, cluster, history
<1>4. ASSUME NEW r \in Replica, Terminate(r)
      PROVE  PublishInv'
  <2>1. ASSUME NEW q \in Replica, Serving(q)' PROVE Kept(q)
    BY <1>4, <2>1 DEF Terminate, Kept, Serving, Types, ElectionTypes, ServiceTypes, Ended, services, history
  <2> QED
    BY <1>4, <2>1, PublishKept DEF Terminate, cluster, history
<1>5. ASSUME NEW r \in Replica, Acquire(r)
      PROVE  PublishInv'
  BY <1>5, NewestKept DEF Acquire, Serving, PublishInv, StartInv, Types, ElectionTypes, ServiceTypes, cluster, election, services, history
<1>6. ASSUME NEW r \in Replica, Lose(r)
      PROVE  PublishInv'
  <2>1. ASSUME NEW q \in Replica, Serving(q)' PROVE Kept(q)
    BY <1>6, <2>1 DEF Lose, Kept, Serving, Types, ElectionTypes, ServiceTypes, Ended, services, history
  <2> QED
    BY <1>6, <2>1, PublishKept DEF Lose, cluster, history
<1>7. ASSUME NEW r \in Replica, PatchFails(r)
      PROVE  PublishInv'
  <2>1. /\ work[r] \in Item /\ retry \in [Replica -> SUBSET Item]
        /\ work \in [Replica -> Item \cup {<<>>}] /\ work' = [work EXCEPT ![r] = <<>>]
        /\ Accepting(r) => retry' = [retry EXCEPT ![r] = @ \cup {work[r]}]
        /\ UNCHANGED <<cluster, election, batch, sing, curr, ups, queue, history>>
    BY <1>7 DEF PatchFails, Types, ServiceTypes
  <2>2. work[r] = <<work[r][1], work[r][2]>>
    BY SMTT(90), <2>1 DEF Item
  <2>3. ASSUME Accepting(r), NEW i, Newest(r, i) PROVE Newest(r, i)'
    <3>1. work'[r] = <<>> /\ retry'[r] = retry[r] \cup {work[r]}
      BY <2>1, <2>3
    <3>2. UNCHANGED <<queue, last, status>>
      BY <2>1 DEF cluster, history
    <3> HIDE DEF Accepting
    <3> QED
      BY <2>2, <2>3, <3>1, <3>2 DEF Newest, InQueue, InWork
  <2>4. ASSUME NEW q \in Replica, Serving(q)' PROVE Serving(q)
    BY <2>1, <2>4 DEF Serving, election, history
  <2>5. Serving(r) => Accepting(r)
    BY <1>7 DEF Serving, QueueInv, Accepting, PatchFails
  <2>6. ASSUME NEW q \in Replica, Serving(q), NEW i, Newest(q, i) PROVE Newest(q, i)'
    <3>1. CASE q # r
      <4>1. work'[q] = work[q] /\ retry'[q] = retry[q]
        BY <1>7, <2>1, <3>1 DEF PatchFails
      <4> QED
        BY <2>1, <2>6, <4>1, NewestKept DEF cluster, history
    <3> QED
      BY <2>3, <2>5, <2>6, <3>1
  <2> QED
    BY <2>1, <2>4, <2>6 DEF PublishInv, cluster, history
<1>8. ASSUME NEW r \in Replica, PatchCanceled(r)
      PROVE  PublishInv'
  <2>1. ASSUME NEW q \in Replica, Serving(q)' PROVE Kept(q)
    BY <1>8, <2>1 DEF PatchCanceled, Kept, Serving, Types, ElectionTypes, ServiceTypes, election
  <2> QED
    BY <1>8, <2>1, PublishKept DEF PatchCanceled, cluster
<1>9. ASSUME NEW r \in Replica, NEW item \in retry[r], Retry(r, item)
      PROVE  PublishInv'
  <2> DEFINE s == queue[r]
             z == Append(s, item)
  <2>1. /\ s \in Seq(Item) /\ item \in Item /\ queue' = [queue EXCEPT ![r] = z]
        /\ queue \in [Replica -> Seq(Item)] /\ retry \in [Replica -> SUBSET Item]
        /\ retry' = [retry EXCEPT ![r] = @ \ {item}]
        /\ late' = IF item[2] # last[item[1]] THEN late \cup {item[1]} ELSE late
        /\ UNCHANGED <<cluster, election, batch, sing, curr, ups, work, last, stale>>
    BY <1>9 DEF Retry, Types, ServiceTypes
  <2>2. /\ Len(s) \in Nat /\ DOMAIN s = 1..Len(s) /\ DOMAIN z = 1..(Len(s) + 1)
        /\ \A n \in 1..Len(s) : z[n] = s[n]
        /\ z[Len(s) + 1] = item
    BY SMTT(90), <2>1, AppendProperties, LenProperties
  <2>3. queue'[r] = z /\ retry'[r] = retry[r] \ {item}
    BY <2>1
  <2> HIDE DEF s, z
  <2>4. ASSUME NEW i, Newest(r, i), i = item[1] => item[2] = last[i] PROVE Newest(r, i)'
    <3>1. UNCHANGED <<last, status, work>>
      BY <2>1 DEF cluster
    <3>2. CASE i = item[1]
      <4>1. ASSUME NEW n \in DOMAIN z, \A m \in DOMAIN z : m > n => z[m][1] # i
            PROVE  n = Len(s) + 1
        BY SMTT(90), <2>2, <3>2, <4>1
      <4>2. \E n \in DOMAIN z : z[n][1] = i
        BY SMTT(90), <2>2, <3>2
      <4> QED
        BY <2>2, <2>3, <2>4, <3>1, <3>2, <4>1, <4>2 DEF Newest, InQueue
    <3>3. CASE i # item[1]
      <4>1. ASSUME NEW n \in DOMAIN z, z[n][1] = i
            PROVE  n \in DOMAIN s /\ z[n] = s[n]
        BY SMTT(90), <2>2, <3>3, <4>1
      <4>2. ASSUME NEW n \in DOMAIN s PROVE n \in DOMAIN z /\ z[n] = s[n]
        BY SMTT(90), <2>2
      <4>3. <<i, last[i]>> # item
        BY SMTT(90), <3>3
      <4>4. (\E n \in DOMAIN z : z[n][1] = i) <=> (\E n \in DOMAIN s : s[n][1] = i)
        BY <4>1, <4>2
      <4>5. ASSUME NEW n \in DOMAIN z, z[n][1] = i, \A m \in DOMAIN z : m > n => z[m][1] # i
            PROVE  z[n][2] = last[i]
        <5>1. \A m \in DOMAIN s : m > n => s[m][1] # i
          BY <4>2, <4>5
        <5> QED
          BY <2>4, <4>1, <4>5, <5>1 DEF Newest, s
      <4> QED
        BY <2>3, <2>4, <3>1, <4>3, <4>4, <4>5 DEF Newest, InQueue, InWork, s
    <3> QED
      BY <3>2, <3>3
  <2>5. ASSUME NEW q \in Replica, q # r, NEW i, Newest(q, i) PROVE Newest(q, i)'
    <3>1. queue'[q] = queue[q] /\ retry'[q] = retry[q]
      BY <2>1, <2>5
    <3> QED
      BY <2>1, <2>5, <3>1, NewestKept DEF cluster
  <2>6. ASSUME NEW q \in Replica, Serving(q)' PROVE Serving(q)
    BY <2>1, <2>6 DEF Serving, election
  <2>7. ASSUME NEW q \in Replica, Serving(q), NEW i \in (ings' \ late') \ batch'[q]
        PROVE  last'[i] = curr'[q] /\ Newest(q, i)'
    <3>1. i \in (ings \ late) \ batch[q] /\ (i = item[1] => item[2] = last[i])
      BY <2>1, <2>7 DEF cluster
    <3>2. last[i] = curr[q] /\ Newest(q, i)
      BY <2>7, <3>1 DEF PublishInv
    <3> QED
      BY <2>1, <2>4, <2>5, <3>1, <3>2
  <2> QED
    BY <2>1, <2>6, <2>7 DEF PublishInv, cluster
<1>10. ASSUME NEW r \in Replica, onStartedLeading(r)
      PROVE  PublishInv'
  <2>1. ASSUME NEW q \in Replica, Serving(q)' PROVE Kept(q)
    BY <1>10, <2>1 DEF onStartedLeading, Kept, Serving, Types, ElectionTypes, ServiceTypes, history
  <2> QED
    BY <1>10, <2>1, PublishKept DEF onStartedLeading, cluster, history
<1>11. ASSUME NEW r \in Replica, onStoppedLeading(r)
      PROVE  PublishInv'
  <2>1. ASSUME NEW q \in Replica, Serving(q)' PROVE Kept(q)
    BY <1>11, <2>1 DEF onStoppedLeading, Kept, Serving, Types, ElectionTypes, ServiceTypes, services, history
  <2> QED
    BY <1>11, <2>1, PublishKept DEF onStoppedLeading, cluster, history
<1>12. ASSUME NEW r \in Replica, Exit(r)
      PROVE  PublishInv'
  <2>1. ASSUME NEW q \in Replica, Serving(q)' PROVE Kept(q)
    BY <1>12, <2>1 DEF Exit, Kept, Serving, Types, ElectionTypes, ServiceTypes
  <2> QED
    BY <1>12, <2>1, PublishKept DEF Exit, cluster
<1>13. ASSUME NEW r \in Replica, upsStart(r)
      PROVE  PublishInv'
  <2>1. ASSUME NEW q \in Replica, Serving(q)' PROVE Kept(q)
    BY <1>13, <2>1 DEF upsStart, Kept, Serving, Types, ElectionTypes, ServiceTypes, election, history
  <2> QED
    BY <1>13, <2>1, PublishKept DEF upsStart, cluster, history
<1>14. ASSUME NEW r \in Replica, notify(r)
      PROVE  PublishInv'
  <2> DEFINE s == queue[r]
             z == Tail(s)
  <2>1. s \in Seq(Item) /\ s # <<>> /\ work[r] = <<>> /\ queue' = [queue EXCEPT ![r] = z]
        /\ work' = [work EXCEPT ![r] = Head(s)] /\ queue \in [Replica -> Seq(Item)]
        /\ work \in [Replica -> Item \cup {<<>>}] /\ Item \subseteq Ing \X SUBSET Addr
    BY <1>14 DEF notify, Types, ServiceTypes, Item
  <2> HIDE DEF Item
  <2>2. /\ Len(s) \in Nat \ {0} /\ DOMAIN s = 1..Len(s) /\ DOMAIN z = 1..(Len(s) - 1)
        /\ Head(s) = s[1] /\ \A n \in 1..(Len(s) - 1) : z[n] = s[n + 1]
    BY SMTT(90), <2>1, EmptySeq, HeadTailProperties, LenProperties
  <2>3. work'[r] = s[1] /\ s[1] # <<>> /\ queue'[r] = z
    <3>1. s[1] \in Ing \X SUBSET Addr
      BY SMTT(90), <2>1, <2>2
    <3>2. s[1] # <<>>
      BY SMTT(90), <3>1
    <3> HIDE DEF s, z
    <3> QED
      BY <2>1, <2>2, <3>2
  <2> HIDE DEF s, z
  <2>4. ASSUME NEW i, Newest(r, i) PROVE Newest(r, i)'
    <3>1. UNCHANGED <<last, status, retry>>
      BY <1>14 DEF notify, cluster, history
    <3>2. \A n \in DOMAIN z : n + 1 \in DOMAIN s /\ s[n + 1] = z[n]
      BY SMTT(90), <2>2
    <3>3. \A m \in DOMAIN s : m = 1 \/ (m - 1 \in DOMAIN z /\ s[m] = z[m - 1])
      BY SMTT(90), <2>2
    <3>4. 1 \in DOMAIN s
      BY SMTT(90), <2>2
    <3>5. ASSUME NEW n \in DOMAIN z, z[n][1] = i, \A m \in DOMAIN z : m > n => z[m][1] # i
          PROVE  z[n][2] = last[i]
      <4>1. ASSUME NEW m \in DOMAIN s, m > n + 1 PROVE s[m][1] # i
        <5>1. m - 1 \in DOMAIN z /\ s[m] = z[m - 1] /\ m - 1 > n
          BY SMTT(90), <2>2, <3>3, <4>1
        <5> QED
          BY <3>5, <5>1
      <4>2. s[n + 1][1] = i /\ n + 1 \in DOMAIN s
        BY <3>2, <3>5
      <4>3. s[n + 1][2] = last[i]
        BY <2>4, <4>1, <4>2 DEF Newest, s
      <4> QED
        BY <3>2, <4>3
    <3>6. ASSUME \A n \in DOMAIN z : z[n][1] # i, s[1][1] = i PROVE s[1][2] = last[i]
      <4>1. \A m \in DOMAIN s : m > 1 => s[m][1] # i
        BY SMTT(90), <2>2, <3>3, <3>6
      <4> QED
        BY <2>4, <3>4, <3>6, <4>1 DEF Newest, s
    <3>7. ASSUME \A n \in DOMAIN z : z[n][1] # i, s[1][1] # i
          PROVE  status[i] = last[i] \/ <<i, last[i]>> \in retry[r]
      <4>1. ~InQueue(r, i) /\ ~InWork(r, i)
        BY <2>1, <3>3, <3>7 DEF InQueue, InWork, s
      <4> QED
        BY <2>4, <4>1 DEF Newest
    <3> QED
      BY <2>3, <3>1, <3>5, <3>6, <3>7 DEF Newest, InQueue, InWork
  <2>5. ASSUME NEW q \in Replica, q # r PROVE queue'[q] = queue[q] /\ work'[q] = work[q]
    BY <2>1, <2>5
  <2>6. ASSUME NEW q \in Replica, NEW i, Newest(q, i) PROVE Newest(q, i)'
    BY <1>14, <2>4, <2>5, <2>6, NewestKept DEF notify, cluster, history
  <2> QED
    BY <1>14, <2>6 DEF notify, cluster, election, history, PublishInv, Serving
<1>15. ASSUME NEW r \in Replica, Patch(r)
      PROVE  PublishInv'
  <2> DEFINE j == work[r][1]
             v == work[r][2]
  <2>1. /\ j \in Ing /\ work[r] # <<>> /\ status \in [Ing -> SUBSET Addr]
        /\ work \in [Replica -> Item \cup {<<>>}]
    BY <1>15 DEF Patch, Types, ServiceTypes, ClusterTypes, Item
  <2>2. /\ status' = [status EXCEPT ![j] = v] /\ work' = [work EXCEPT ![r] = <<>>]
        /\ late' = IF holder # r /\ v # last[j] THEN late \cup {j} ELSE late
        /\ UNCHANGED <<source, ings, addr, election, batch, sing, curr, ups, queue, retry, last, stale>>
    BY <1>15 DEF Patch
  <2>3. InWork(r, j)
    BY <2>1 DEF InWork
  <2>4. ASSUME NEW i \in Ing, Newest(r, i) PROVE Newest(r, i)'
    <3>1. ~InWork(r, i)' /\ (InQueue(r, i)' <=> InQueue(r, i))
      BY <2>1, <2>2 DEF InWork, InQueue
    <3>2. CASE i = j
      <4>1. status'[i] = v /\ (~InQueue(r, i) => v = last[i])
        BY <2>1, <2>2, <2>3, <2>4, <3>2 DEF Newest
      <4> QED
        BY <2>2, <2>4, <3>1, <4>1 DEF Newest
    <3>3. CASE i # j
      <4>1. status'[i] = status[i] /\ ~InWork(r, i)
        BY <2>1, <2>2, <3>3 DEF InWork
      <4> QED
        BY <2>2, <2>4, <3>1, <4>1 DEF Newest
    <3> QED
      BY <3>2, <3>3
  <2>5. ASSUME NEW q \in Replica, q # r, NEW i \in Ing, Newest(q, i), status'[i] \in {status[i], last[i]}
        PROVE  Newest(q, i)'
    <3>1. work'[q] = work[q]
      BY <2>1, <2>2, <2>5
    <3> QED
      BY <2>2, <2>5, <3>1 DEF Newest, InQueue, InWork
  <2>6. ASSUME NEW q \in Replica, Serving(q)', NEW i \in (ings' \ late') \ batch'[q]
        PROVE  last'[i] = curr'[q] /\ Newest(q, i)'
    <3>1. /\ Serving(q) /\ i \in (ings \ late) \ batch[q] /\ i \in Ing /\ holder = q
      BY <2>2, <2>6 DEF Serving, election, Types, ClusterTypes
    <3>2. last[i] = curr[q] /\ Newest(q, i)
      BY <3>1 DEF PublishInv
    <3>3. q # r => status'[i] \in {status[i], last[i]}
      BY <2>1, <2>2, <2>6, <3>1
    <3> QED
      BY <2>2, <2>4, <2>5, <3>1, <3>2, <3>3
  <2>7. ASSUME NEW q \in Replica, Serving(q)' PROVE Serving(q)
    BY <2>2, <2>7 DEF Serving, election
  <2> QED
    BY <2>2, <2>6, <2>7 DEF PublishInv
<1>16. ASSUME NEW r \in Replica, upsCancel(r)
      PROVE  PublishInv'
  <2>1. ASSUME NEW q \in Replica, Serving(q)' PROVE Kept(q)
    BY <1>16, <2>1 DEF upsCancel, Kept, Serving, Types, ElectionTypes, ServiceTypes, election, history
  <2> QED
    BY <1>16, <2>1, PublishKept DEF upsCancel, cluster, history
<1>17. ASSUME NEW r \in Replica, upsShutDown(r)
      PROVE  PublishInv'
  <2>1. ASSUME NEW q \in Replica, Serving(q)' PROVE Kept(q)
    BY <1>17, <2>1 DEF upsShutDown, Kept, Serving, Types, ElectionTypes, ServiceTypes, election
  <2> QED
    BY <1>17, <2>1, PublishKept DEF upsShutDown, cluster
<1>18. ASSUME NEW r \in Replica, upsDone(r)
      PROVE  PublishInv'
  <2>1. ASSUME NEW q \in Replica, Serving(q)' PROVE Kept(q)
    BY <1>18, <2>1 DEF upsDone, Kept, Serving, Types, ElectionTypes, ServiceTypes, election, history
  <2> QED
    BY <1>18, <2>1, PublishKept DEF upsDone, cluster, history
<1>19. ASSUME NEW r \in Replica, singStart(r)
      PROVE  PublishInv'
  <2>1. ASSUME NEW q \in Replica, Serving(q)' PROVE Kept(q)
    BY <1>19, <2>1 DEF singStart, Kept, Serving, StartInv, Types, ElectionTypes, ServiceTypes, election, history
  <2> QED
    BY <1>19, <2>1, PublishKept DEF singStart, cluster, history
<1>20. ASSUME NEW r \in Replica, singStop(r)
      PROVE  PublishInv'
  <2>1. ASSUME NEW q \in Replica, Serving(q)' PROVE Kept(q)
    BY <1>20, <2>1 DEF singStop, Kept, Serving, Types, ElectionTypes, ServiceTypes, election, history
  <2> QED
    BY <1>20, <2>1, PublishKept DEF singStop, cluster, history
<1>21. ASSUME NEW r \in Replica, NEW ok \in BOOLEAN, shutdown(r, ok)
      PROVE  PublishInv'
  <2>1. ASSUME NEW q \in Replica, Serving(q)'
        PROVE  Serving(q) /\ q # r /\ holder = q
    BY <1>21, <2>1 DEF shutdown, Serving, Types, ServiceTypes, election, history
  <2>2. ASSUME NEW q \in Replica, Serving(q)'
        PROVE  /\ queue'[q] = queue[q] /\ late \subseteq late'
               /\ \A i \in ings \ late' : last'[i] = last[i]
    <3>1. CASE Cardinality(Pods) > 1 \/ ~ok
      BY <1>21, <3>1 DEF shutdown, history
    <3>2. CASE ~(Cardinality(Pods) > 1 \/ ~ok)
      <4>1. update(r, Patches(ings, {})) /\ {} \in SUBSET Addr /\ ings \in SUBSET ings
        BY <1>21, <3>2 DEF shutdown
      <4>2. CASE Accepting(r)
        <5>1. /\ queue' = [queue EXCEPT ![r] = queue[r] \o Patches(ings, {})]
              /\ late' = IF holder = r THEN late \ ings ELSE late \cup ings
          BY <4>1, <4>2, UpdateEffect
        <5> QED
          BY <2>1, <2>2, <5>1 DEF Types, ServiceTypes
      <4>3. CASE ~Accepting(r)
        BY <4>1, <4>3 DEF update
      <4> QED
        BY <4>2, <4>3
    <3> QED
      BY <3>1, <3>2
  <2> QED
    BY <1>21, <2>1, <2>2, NewestKept DEF shutdown, PublishInv, cluster
<1>22. ASSUME NEW r \in Replica, NEW readable \in BOOLEAN, NEW listable \in BOOLEAN,
             Reconcile(r, readable, listable)
      PROVE  PublishInv'
  BY <1>22, ChangedPublish DEF Reconcile, cluster, IInv, Types, ElectionTypes
<1>23. ASSUME NEW r \in Replica, NEW readable \in BOOLEAN, NEW listable \in BOOLEAN,
             leaderChanged(r, readable, listable)
      PROVE  PublishInv'
  <2>1. CASE synced[r]
    BY <1>23, <2>1, ChangedPublish DEF leaderChanged, cluster
  <2>2. CASE ~synced[r]
    BY SMTT(90), <1>23, <2>2, NewestKept DEF leaderChanged, cluster, history, PublishInv, Serving
  <2> QED
    BY <2>1, <2>2
<1>24. CASE UNCHANGED vars
  BY <1>24, NewestKept DEF vars, PublishInv, Serving, cluster, election, services, history
<1> QED
  BY <1>1, <1>2, <1>3, <1>4, <1>5, <1>6, <1>7, <1>8, <1>9, <1>10, <1>11, <1>12, <1>13, <1>14, <1>15,
     <1>16, <1>17, <1>18, <1>19, <1>20, <1>21, <1>22, <1>23, <1>24
  DEF Next, Steps

-----------------------------------------------------------------------------
\* The inductive invariant holds in every reachable state.
THEOREM IInvHolds == Spec => []IInv
<1>1. Init => IInv
  <2> SUFFICES ASSUME Init PROVE IInv
    OBVIOUS
  <2>1. holder \in Replica /\ holder \in Leader /\ addr = {NodeIP[holder]} /\ addr \subseteq Addr
    BY LeadingAssumption DEF Init
  <2>2. ClusterTypes
    BY <2>1, LeadingAssumption DEF Init, ClusterTypes
  <2>3. elected \in [Replica -> BOOLEAN] /\ synced \in [Replica -> BOOLEAN]
    BY DEF Init, Leads
  <2>4. ElectionTypes
    BY <2>1, <2>3 DEF Init, Leads, ElectionTypes
  <2>5. ServiceTypes
    BY SMTT(90), <2>1 DEF Init, Leads, ServiceTypes
  <2>6. StartInv
    BY <2>1 DEF Init, Leads, StartInv
  <2>7. QueueInv
    BY DEF Init, Leads, QueueInv
  <2>8. PublishInv
    <3>1. \A i \in ings : last[i] = addr /\ status[i] = addr
      BY <2>2 DEF Init, ClusterTypes
    <3>2. \A r \in Replica : DOMAIN queue[r] = {} /\ work[r] = <<>>
      BY SMTT(90) DEF Init, Leads
    <3>3. curr[holder] = addr
      BY <2>1 DEF Init, Leads
    <3> QED
      BY <3>1, <3>2, <3>3 DEF PublishInv, Serving, Newest, InQueue, InWork
  <2> QED
    BY <2>2, <2>4, <2>5, <2>6, <2>7, <2>8 DEF IInv, Types
<1>2. IInv /\ [Next]_vars => IInv'
  BY ClusterTypesStep, ElectionTypesStep, ServiceTypesStep, StartStep, QueueStep, PublishStep
  DEF IInv, Types
<1> QED
  BY <1>1, <1>2, PTL DEF Spec

\* onStartedLeading and onStoppedLeading: the services run only after the replica
\* was elected, and a replica that lost the lease in order has nothing in its queue.
THEOREM TypeCorrect == Spec => []TypeOK
<1>1. IInv => TypeOK
  BY DEF IInv, Types, ElectionTypes, ServiceTypes, StartInv, QueueInv, TypeOK
<1> QED
  BY <1>1, IInvHolds, PTL

\* svcStatusIng and svcStatusUpdater: a leader that has nothing left to do published
\* the addresses it read in the status of every ingress, unless its last sync was
\* lost or an older patch came late, whatever the other replicas did.
THEOREM PublishedCorrect == Spec => []Published
<1>1. IInv => Published
  <2> SUFFICES ASSUME IInv, NEW r \in Replica, Idle, holder = r, life[r] = "up", synced[r],
                      sing[r] = "run", ups[r] = "run", r \notin stale
               PROVE  /\ source = "service" => curr[r] = addr
                      /\ \A i \in ings \ late : status[i] = curr[r]
    BY DEF Published
  <2>1. Serving(r) /\ batch[r] = {} /\ queue[r] = <<>> /\ retry[r] = {} /\ work[r] = <<>>
    BY DEF Serving, Idle
  <2>2. \A i : ~InQueue(r, i) /\ ~InWork(r, i)
    BY SMTT(90), <2>1 DEF InQueue, InWork
  <2>3. source = "service" => curr[r] = addr
    BY <2>1 DEF IInv, PublishInv
  <2>4. ASSUME NEW i \in ings \ late PROVE status[i] = curr[r]
    <3>1. last[i] = curr[r] /\ Newest(r, i)
      BY <2>1 DEF IInv, PublishInv
    <3> QED
      BY <2>1, <2>2, <3>1 DEF Newest
  <2> QED
    BY <2>3, <2>4
<1> QED
  BY <1>1, IInvHolds, PTL

=============================================================================
