------------------------------ MODULE Leading ------------------------------
(***************************************************************************)
(* The services that only the leader runs: svcleader.go, the status of the *)
(* ingresses (svcstatusing.go), the queue that patches it (svcstatus.go)   *)
(* and its delayed shutdown (delayedshutdown.go), of several replicas that *)
(* compete for a lease.  Every replica reconciles; what it says about the  *)
(* status is only queued if the flags of its two services tell so, which   *)
(* goroutines of their own set.                                            *)
(*                                                                         *)
(* The status of an ingress is a set of addresses.  An item of the queue   *)
(* is <<ingress, addresses>>: the object with the status to be patched.    *)
(***************************************************************************)
EXTENDS Naturals, Sequences, FiniteSets, Functions

CONSTANTS Replica, Ing, Addr, Source,
          Leader,       \* replicas that may lead at the beginning
          NodeIP,       \* the address of the node of a replica
          MaxEvents     \* changes of the cluster, failed calls, lost leases and stops

ASSUME LeadingAssumption ==
    /\ Source \subseteq {"service", "nodes"}
    /\ Leader \subseteq Replica /\ IsFiniteSet(Ing)
    /\ NodeIP \in [Replica -> Addr]
    /\ MaxEvents \in Nat

VARIABLES
    source,               \* where addresses are read: --publish-service, or the nodes
    ings, status, addr,   \* the cluster: ingresses, their status, the published addresses
    holder,               \* the replica that has the lease, or "none"
    life,                 \* of a replica: "off", "up", "stopping" or "gone"
    lead,                 \* "no", "acquired", "started", "stopping", "lost", and "early"
                          \* and "orphan" if it was lost before onStartedLeading ran
    elected,              \* leaderChanged(true) was called and did not sync yet
    synced,               \* watchers.running()
    batch,                \* the changes a replica did not reconcile yet
    sing, curr,           \* svcStatusIng: where its Start is, s.curr
    ups,                  \* svcStatusUpdater: where its Start is
    queue, retry, work,   \* its queue
    last,                 \* history: the last status a queue accepted, by ingress
    stale, late,          \* history: replicas whose last sync was lost, ingresses with an old status
    changes, failed, lost

cluster == <<source, ings, status, addr>>
election == <<holder, life, lead, elected, synced>>
services == <<batch, sing, curr, ups, queue, retry, work>>
history == <<last, stale, late>>
counters == <<changes, failed, lost>>
vars == <<cluster, election, services, history, counters>>

Eventful == changes + failed + lost < MaxEvents    \* lost: leases lost and replicas stopped

Pods == {r \in Replica : life[r] \in {"up", "stopping"}}

Leads(no, yes) == [r \in Replica |-> IF r = holder THEN yes ELSE no]

\* One replica leads, its services run and it has nothing left to do.
Init ==
    /\ source \in Source /\ holder \in Leader
    /\ ings \in SUBSET Ing /\ addr = {NodeIP[holder]}
    /\ status = [i \in Ing |-> IF i \in ings THEN addr ELSE {}]
    /\ life = Leads("off", "up") /\ lead = Leads("no", "started")
    /\ elected = Leads(FALSE, FALSE) /\ synced = Leads(FALSE, TRUE) /\ batch = Leads({}, {})
    /\ sing = Leads("off", "run") /\ curr = Leads({}, addr) /\ ups = Leads("off", "run")
    /\ queue = Leads(<<>>, <<>>) /\ retry = Leads({}, {}) /\ work = Leads(<<>>, <<>>)
    /\ last = status /\ stale = {} /\ late = {}
    /\ changes = 0 /\ failed = 0 /\ lost = 0

-----------------------------------------------------------------------------
(* The cluster.                                                            *)

Notify(change) ==
    batch' = [r \in Replica |-> IF life[r] = "up" THEN batch[r] \cup {change} ELSE batch[r]]

AddIngress(i) ==
    /\ Eventful /\ i \notin ings
    /\ changes' = changes + 1
    /\ ings' = ings \cup {i}
    /\ Notify(i)
    /\ UNCHANGED <<source, status, addr, election, sing, curr, ups, queue, retry, work, history,
                   failed, lost>>

Publish(a) ==
    /\ source = "service" /\ Eventful /\ addr # {a}
    /\ changes' = changes + 1
    /\ addr' = {a}
    /\ Notify("publish-service")
    /\ UNCHANGED <<source, ings, status, election, sing, curr, ups, queue, retry, work, history,
                   failed, lost>>

\* The first events of a replica are all the resources.
Launch(r) ==
    /\ life[r] = "off"
    /\ life' = [life EXCEPT ![r] = "up"]
    /\ batch' = [batch EXCEPT ![r] = ings \cup {"publish-service"}]
    /\ UNCHANGED <<cluster, holder, lead, elected, synced, sing, curr, ups, queue, retry, work,
                   history, counters>>

-----------------------------------------------------------------------------
(* svcleader.go                                                            *)

\* The elector calls onStartedLeading in a goroutine.  A lease that is not renewed
\* expires: it is not released.
Acquire(r) ==
    /\ life[r] = "up" /\ lead[r] = "no"
    /\ holder # "none" => lead[holder] \notin {"acquired", "started"}
    /\ holder' = r
    /\ lead' = [lead EXCEPT ![r] = "acquired"]
    /\ UNCHANGED <<cluster, life, elected, synced, services, history, counters>>

\* Each runnable is started, and leaderChanged called, in a goroutine.
onStartedLeading(r) ==
    /\ lead[r] \in {"acquired", "early"} /\ life[r] # "gone"
    /\ lead' = [lead EXCEPT ![r] = IF @ = "early" THEN "orphan" ELSE "started"]
    /\ sing' = [sing EXCEPT ![r] = "starting"]
    /\ ups' = [ups EXCEPT ![r] = "starting"]
    /\ elected' = [elected EXCEPT ![r] = TRUE]
    /\ UNCHANGED <<cluster, holder, life, synced, batch, curr, queue, retry, work, history,
                   counters>>

\* The elector returns.
Ended(r) == lead' = [lead EXCEPT ![r] = CASE @ = "acquired" -> "early" [] @ = "started" -> "stopping"
                                          [] OTHER -> @]

\* The lease is lost.  svcLeader does not run the elector again.
Lose(r) ==
    /\ lead[r] \in {"acquired", "started"} /\ life[r] = "up" /\ Eventful
    /\ lost' = lost + 1
    /\ Ended(r)
    /\ UNCHANGED <<cluster, holder, life, elected, synced, services, history, changes, failed>>

\* The process is asked to stop.
Terminate(r) ==
    /\ life[r] = "up" /\ Eventful
    /\ lost' = lost + 1
    /\ life' = [life EXCEPT ![r] = "stopping"]
    /\ Ended(r)
    /\ UNCHANGED <<cluster, holder, elected, synced, services, history, changes, failed>>

\* The context of the runnables is done.
Done(r) == lead[r] \in {"stopping", "orphan"} /\ life[r] # "gone"

\* onStoppedLeading waits for the runnables.
onStoppedLeading(r) ==
    /\ lead[r] = "stopping" /\ sing[r] = "done" /\ ups[r] = "done" /\ life[r] # "gone"
    /\ lead' = [lead EXCEPT ![r] = "lost"]
    /\ UNCHANGED <<cluster, holder, life, elected, synced, services, history, counters>>

\* The manager returns and the process ends, after its timeout if a queue is stuck.
Exit(r) ==
    /\ life[r] = "stopping"
    /\ lead[r] \in {"no", "lost", "early", "orphan"} \/ ups[r] = "stuck"
    /\ life' = [life EXCEPT ![r] = "gone"]
    /\ elected' = [elected EXCEPT ![r] = FALSE]
    /\ batch' = [batch EXCEPT ![r] = {}]
    /\ queue' = [queue EXCEPT ![r] = <<>>]
    /\ retry' = [retry EXCEPT ![r] = {}]
    /\ work' = [work EXCEPT ![r] = <<>>]
    /\ stale' = IF queue[r] = <<>> /\ work[r] = <<>> THEN stale ELSE stale \cup {r}
    /\ UNCHANGED <<cluster, holder, lead, synced, sing, curr, ups, last, late, counters>>

-----------------------------------------------------------------------------
(* svcstatus.go: the queue, in a delayed shutdown.                         *)

upsStart(r) ==
    /\ ups[r] = "starting" /\ life[r] # "gone"
    /\ ups' = [ups EXCEPT ![r] = "run"]
    /\ UNCHANGED <<cluster, election, batch, sing, curr, queue, retry, work, history, counters>>

Accepting(r) == ups[r] \in {"run", "closing"}

\* update: called for each of the items.  The run flag stays until the queue is
\* done, but a queue that is shut down ignores what is added.
update(r, items) ==
    LET named == {items[n][1] : n \in DOMAIN items} IN
        IF Accepting(r)
        THEN /\ queue' = [queue EXCEPT ![r] = @ \o items]
             /\ last' = [i \in Ing |-> IF i \in named THEN items[1][2] ELSE last[i]]
             /\ late' = IF holder = r THEN late \ named ELSE late \cup named
        ELSE UNCHANGED <<queue, last, late>>

notify(r) ==
    /\ Accepting(r) /\ queue[r] # <<>> /\ work[r] = <<>>
    /\ work' = [work EXCEPT ![r] = Head(queue[r])]
    /\ queue' = [queue EXCEPT ![r] = Tail(@)]
    /\ UNCHANGED <<cluster, election, batch, sing, curr, ups, retry, history, counters>>

\* Nothing tells a patch of a replica that does not lead any more from others.
Patch(r) ==
    LET i == work[r][1] IN
    /\ work[r] # <<>>
    /\ status' = [status EXCEPT ![i] = work[r][2]]
    /\ late' = IF holder # r /\ work[r][2] # last[i] THEN late \cup {i} ELSE late
    /\ work' = [work EXCEPT ![r] = <<>>]
    /\ UNCHANGED <<source, ings, addr, election, batch, sing, curr, ups, queue, retry, last, stale,
                   counters>>

PatchFails(r) ==
    /\ work[r] # <<>> /\ Eventful
    /\ failed' = failed + 1
    /\ work' = [work EXCEPT ![r] = <<>>]
    /\ retry' = IF Accepting(r) THEN [retry EXCEPT ![r] = @ \cup {work[r]}] ELSE retry
    /\ UNCHANGED <<cluster, election, batch, sing, curr, ups, queue, history, changes, lost>>

\* The patch in progress uses the context of the queue.
PatchCanceled(r) ==
    /\ work[r] # <<>> /\ ups[r] \in {"closing", "closed"}
    /\ work' = [work EXCEPT ![r] = <<>>]
    /\ stale' = stale \cup {r}
    /\ UNCHANGED <<cluster, election, batch, sing, curr, ups, queue, retry, last, late, counters>>

\* An item that is tried again comes after the newer ones of its ingress.
Retry(r, item) ==
    /\ Accepting(r) /\ item \in retry[r]
    /\ retry' = [retry EXCEPT ![r] = @ \ {item}]
    /\ queue' = [queue EXCEPT ![r] = Append(@, item)]
    /\ late' = IF item[2] # last[item[1]] THEN late \cup {item[1]} ELSE late
    /\ UNCHANGED <<cluster, election, batch, sing, curr, ups, work, last, stale, counters>>

\* Mutation: there is always a reason to go on.
CanShutdownNever(r) == FALSE

\* CanShutdown: the length of the queue does not count the item in progress, nor
\* those that wait for a retry.
CanShutdown(r) == queue[r] = <<>>

\* DelayedShutdown, after its first delay, cancels the context of the queue.
upsCancel(r) ==
    /\ Done(r) /\ ups[r] = "run" /\ CanShutdown(r)
    /\ ups' = [ups EXCEPT ![r] = "closing"]
    /\ UNCHANGED <<cluster, election, batch, sing, curr, queue, retry, work, history, counters>>

\* ShutDown of the queue: with an item left it waits for a worker that waits for it.
upsShutDown(r) ==
    /\ ups[r] = "closing" /\ life[r] # "gone"
    /\ ups' = [ups EXCEPT ![r] = IF queue[r] = <<>> THEN "closed" ELSE "stuck"]
    /\ retry' = [retry EXCEPT ![r] = {}]
    /\ stale' = IF queue[r] = <<>> THEN stale ELSE stale \cup {r}
    /\ UNCHANGED <<cluster, election, batch, sing, curr, queue, work, last, late, counters>>

upsDone(r) ==
    /\ ups[r] = "closed" /\ work[r] = <<>> /\ life[r] # "gone"
    /\ ups' = [ups EXCEPT ![r] = "done"]
    /\ UNCHANGED <<cluster, election, batch, sing, curr, queue, retry, work, history, counters>>

-----------------------------------------------------------------------------
(* svcstatusing.go                                                         *)

singStart(r) ==
    /\ sing[r] = "starting" /\ life[r] # "gone"
    /\ sing' = [sing EXCEPT ![r] = "run"]
    /\ UNCHANGED <<cluster, election, batch, curr, ups, queue, retry, work, history, counters>>

Patches(names, lb) ==
    LET S == {<<i, lb>> : i \in names} IN CHOOSE s \in Injection(1..Cardinality(S), S) : TRUE

\* getNodeIPs, or the addresses of the service.
Addresses(readable) ==
    IF source = "service" THEN addr ELSE IF readable THEN {NodeIP[r] : r \in Pods} ELSE {}

\* Mutation: the addresses are remembered although the list could not be read.
syncRemembers(r, readable, listable) ==
    LET lb == Addresses(readable)
        new == (readable \/ source = "nodes") /\ lb # curr[r]
    IN  [ok |-> TRUE, curr |-> IF new THEN lb ELSE curr[r],
         items |-> IF new /\ listable THEN Patches(ings, lb) ELSE <<>>]

\* sync: without nodes that can be read there are no addresses; without the
\* service, or without the list of ingresses, nothing changes.
sync(r, readable, listable) ==
    LET lb == Addresses(readable)
        known == readable \/ source = "nodes"
        new == known /\ lb # curr[r]
    IN  [ok |-> readable /\ (~new \/ listable),
         curr |-> IF new /\ listable THEN lb ELSE curr[r],
         items |-> IF new /\ listable THEN Patches(ings, lb) ELSE <<>>]

\* changed.  r is stale if its last sync was skipped or failed, or if what it says
\* was not accepted by the queue.  An ingress that is named again by an object gets
\* the same status again, which is left out.
changed(r, objects, readable, listable) ==
    LET synced1 == sync(r, readable, listable)
        named == IF source = "service" /\ "publish-service" \in objects /\ listable
                 THEN ings ELSE objects \cap ings
        items == IF synced1.items # <<>> THEN synced1.items ELSE Patches(named, synced1.curr)
        dropped == items # <<>> /\ ~Accepting(r)
    IN  /\ failed' = IF readable /\ listable THEN failed ELSE failed + 1
        /\ (readable /\ listable) \/ Eventful
        /\ IF sing[r] # "run"
           THEN stale' = stale \cup {r} /\ UNCHANGED <<curr, queue, last, late>>
           ELSE /\ update(r, items)
                /\ curr' = [curr EXCEPT ![r] = synced1.curr]
                /\ stale' = IF dropped \/ ~synced1.ok THEN stale \cup {r}
                            ELSE IF synced1.items = <<>> THEN stale ELSE stale \ {r}

\* ReconcileIngress, of the reconcile loop.
Reconcile(r, readable, listable) ==
    /\ life[r] \in {"up", "stopping"} /\ batch[r] # {}
    /\ changed(r, batch[r], readable, listable)
    /\ batch' = [batch EXCEPT ![r] = {}]
    /\ synced' = [synced EXCEPT ![r] = TRUE]
    /\ UNCHANGED <<cluster, holder, life, lead, elected, sing, ups, retry, work, changes, lost>>

\* leaderChanged: if the loop ran before, it takes the changes that wait.
leaderChanged(r, readable, listable) ==
    /\ elected[r]
    /\ elected' = [elected EXCEPT ![r] = FALSE]
    /\ IF synced[r]
       THEN changed(r, batch[r], readable, listable) /\ batch' = [batch EXCEPT ![r] = {}]
       ELSE readable /\ listable /\ UNCHANGED <<batch, curr, queue, history, failed>>
    /\ UNCHANGED <<cluster, holder, life, lead, synced, sing, ups, retry, work, changes, lost>>

\* Start, after its context is done: the flag is reset.
singStop(r) ==
    /\ Done(r) /\ sing[r] = "run"
    /\ sing' = [sing EXCEPT ![r] = "shutdown"]
    /\ UNCHANGED <<cluster, election, batch, curr, ups, queue, retry, work, history, counters>>

\* Mutation: the addresses stay.
shutdownKeeps(r, ok) ==
    /\ ok /\ sing[r] = "shutdown" /\ life[r] # "gone"
    /\ sing' = [sing EXCEPT ![r] = "done"]
    /\ UNCHANGED <<cluster, election, batch, curr, ups, queue, retry, work, history, counters>>

\* shutdown: the last replica removes the addresses, if it can list the replicas
\* and the ingresses.
shutdown(r, ok) ==
    /\ sing[r] = "shutdown" /\ life[r] # "gone"
    /\ ok \/ Eventful
    /\ failed' = IF ok THEN failed ELSE failed + 1
    /\ sing' = [sing EXCEPT ![r] = "done"]
    /\ IF Cardinality(Pods) > 1 \/ ~ok THEN UNCHANGED <<queue, history>>
       ELSE /\ update(r, Patches(ings, {}))
            /\ stale' = IF Accepting(r) THEN stale ELSE stale \cup {r}
    /\ UNCHANGED <<cluster, election, batch, curr, ups, retry, work, changes, lost>>

Steps(r) ==
    \/ onStartedLeading(r) \/ onStoppedLeading(r) \/ Exit(r)
    \/ upsStart(r) \/ notify(r) \/ Patch(r) \/ upsCancel(r) \/ upsShutDown(r) \/ upsDone(r)
    \/ singStart(r) \/ singStop(r) \/ \E ok \in BOOLEAN : shutdown(r, ok)

Next ==
    \/ \E i \in Ing : AddIngress(i)
    \/ \E a \in Addr : Publish(a)
    \/ \E r \in Replica :
          \/ Launch(r) \/ Terminate(r) \/ Acquire(r) \/ Lose(r)
          \/ PatchFails(r) \/ PatchCanceled(r) \/ \E item \in retry[r] : Retry(r, item)
          \/ Steps(r)
          \/ \E readable, listable \in BOOLEAN :
                Reconcile(r, readable, listable) \/ leaderChanged(r, readable, listable)

\* Goroutines run, and calls to the API server return.
Spec == Init /\ [][Next]_vars /\ \A r \in Replica : WF_vars(Steps(r))

-----------------------------------------------------------------------------
\* onStartedLeading, onStoppedLeading: the services run only after the replica was elected, an item is in progress
\* only in a queue that runs, and the queue is done if the replica lost the lease
\* in order.
TypeOK ==
    /\ holder \in Replica \cup {"none"}
    /\ \A r \in Replica :
          /\ lead[r] \in {"no", "acquired", "early"} <=> sing[r] = "off"
          /\ sing[r] = "off" <=> ups[r] = "off"
          /\ work[r] # <<>> => ups[r] \in {"run", "closing", "closed", "stuck"}
          /\ lead[r] = "lost" => queue[r] = <<>> /\ work[r] = <<>> /\ retry[r] = {}

Idle == \A r \in Replica : /\ batch[r] = {} /\ ~elected[r]
                           /\ queue[r] = <<>> /\ retry[r] = {} /\ work[r] = <<>>

\* svcStatusIng and svcStatusUpdater: once a leader has nothing left to do, the
\* status of every ingress has the addresses it read, and they are the published
\* ones.  Not so if its services were not running yet when it synced or the sync
\* failed, and for an ingress that an older patch came late for.
Published ==
    \A r \in Replica :
       /\ Idle /\ holder = r /\ lead[r] = "started" /\ life[r] = "up" /\ synced[r]
       /\ sing[r] = "run" /\ ups[r] = "run" /\ r \notin stale
       => /\ source = "service" => curr[r] = addr
          /\ \A i \in ings \ late : status[i] = curr[r]

\* DelayedShutdown and onStoppedLeading: a replica that is asked to stop ends,
\* although the status queue is kept running for the others.
ShutdownEnds == \A r \in Replica : life[r] = "stopping" ~> life[r] = "gone"

\* shutdown: the status of all the ingresses is removed if the last replica stops
\* leading, unless a call fails, another replica starts, or the queue of the replica
\* did not wait for it.
Cleared ==
    \A r \in Replica :
       sing[r] = "shutdown" /\ lead[r] = "stopping" /\ Pods = {r}
       ~> \/ Pods \notin {{}, {r}} \/ failed > 0 \/ r \in stale
          \/ late # {} \/ \A i \in ings : status[i] = {}
=============================================================================
