----------------------------- MODULE Reconcile -----------------------------
(***************************************************************************)
(* From a change of a resource to the written configuration: the event     *)
(* handlers of pkg/controller/reconciler collect changes in a batch, the   *)
(* reconciler and the leader callback take the batch and then wait for the *)
(* model mutex, and the converters of pkg/converters parse every ingress   *)
(* again (full sync) or only those linked to the changes (partial sync).   *)
(* The resources are read from the informers' cache, which is ahead of the *)
(* events.  An ingress declares one path of one host or a default backend, *)
(* which is the root path of the default host.                             *)
(***************************************************************************)
EXTENDS Integers, Sequences, FiniteSets, SequencesExt

CONSTANTS Ing,          \* names of ingress resources: numbers, in name order
          Host, DefaultHost, Path, Root,
          Svc, Endpoint, Conf,
          Born,         \* creation timestamps
          Object,       \* the ingress objects: host, path, svc, isDefault, born
          None,
          MaxChanges, MaxLeads

ASSUME ReconcileAssumption ==
    /\ Ing \subseteq Int /\ DefaultHost \in Host /\ Root \in Path /\ Born \subseteq Int
    /\ MaxChanges \in Nat /\ MaxLeads \in Nat
    /\ Object \subseteq [host : Host, path : Path, svc : Svc, isDefault : BOOLEAN,
                         born : Born]
    /\ None \notin Object \cup Conf \cup Svc

VARIABLES
    ings, svcs, conf,           \* the cache: objects, endpoints, global configmap
    ingEvents, svcEvents, confEvents,   \* events the informers did not deliver yet
    ch,                         \* w.ch, the batch being collected
    run,                        \* w.run
    queued,                     \* a request in the queue of the controller
    worker, leader,             \* the batch taken by each goroutine, or None
    model,                      \* the haproxy model and the tracker's links
    maps, cfg,                  \* the hosts and the backends of the written files
    changes, leads,             \* counters of what the environment did
    ghosts, raced,              \* history: see ReconcileIngress
    leaderFirst, overtaken      \* history: see LeaderTakes

cache == <<ings, svcs, conf>>
events == <<ingEvents, svcEvents, confEvents>>
watchers == <<ch, run, queued>>
taken == <<worker, leader>>
synced == <<model, maps, cfg, ghosts, raced>>
order == <<leaderFirst, overtaken>>
vars == <<cache, events, watchers, taken, synced, changes, leads, order>>

IngRef(i) == <<"Ingress", i>>
HostRef(h) == <<"HAHostname", h>>
SvcRef(s) == <<"Service", s>>
BackRef(s) == <<"HABackend", s>>

\* initCh: the configmap data is carried over to the next batch.
NewBatch(cur) ==
    [add |-> [i \in Ing |-> None], del |-> {}, seen |-> {}, links |-> {},
     cur |-> cur, new |-> None, full |-> FALSE]

globalConfig(batch) == IF batch.new # None THEN batch.new ELSE batch.cur

EmptyModel ==
    [hosts |-> [h \in Host |-> None], backs |-> [s \in Svc |-> None], links |-> {},
     ready |-> FALSE]

\* The workers start when the informers listed what exists: the first batch has
\* a create event of each resource.
Init ==
    /\ ings \in [Ing -> Object \cup {None}]
    /\ svcs \in [Svc -> {None} \cup {{e} : e \in Endpoint}]
    /\ conf \in Conf
    /\ ingEvents = <<>> /\ svcEvents = {} /\ confEvents = <<>>
    /\ ch = LET exist == {i \in Ing : ings[i] # None}
            IN  [NewBatch(None) EXCEPT
                   !.add = ings,
                   !.seen = {<<i, ings[i]>> : i \in exist},
                   !.links = {IngRef(i) : i \in exist}
                             \cup {SvcRef(s) : s \in {t \in Svc : svcs[t] # None}},
                   !.new = conf]
    /\ run = FALSE /\ queued = TRUE
    /\ worker = None /\ leader = None
    /\ model = EmptyModel /\ maps = EmptyModel.hosts /\ cfg = EmptyModel.backs
    /\ changes = 0 /\ leads = 0
    /\ ghosts = [i \in Ing |-> None] /\ raced = FALSE
    /\ leaderFirst = FALSE /\ overtaken = FALSE

-----------------------------------------------------------------------------
(* The cluster changes: the cache first, the event later.                  *)

\* The first sync is a full one, whatever changed before it.
Change ==
    /\ model.ready /\ changes < MaxChanges
    /\ changes' = changes + 1
    /\ UNCHANGED <<watchers, taken, synced, leads, order>>

\* None stands for an ingress that does not exist or has another class: the
\* handlers tell both from a valid one in the same way.  An update keeps the
\* creation timestamp.
ChangeIngress(i, obj) ==
    /\ Change
    /\ obj # ings[i]
    /\ obj # None /\ ings[i] # None => obj.born = ings[i].born
    /\ ings' = [ings EXCEPT ![i] = obj]
    /\ ingEvents' = Append(ingEvents, [name |-> i, old |-> ings[i], new |-> obj])
    /\ UNCHANGED <<svcs, conf, svcEvents, confEvents>>

ChangeService(s, eps) ==
    /\ Change
    /\ eps # svcs[s]
    /\ svcs' = [svcs EXCEPT ![s] = eps]
    /\ svcEvents' = svcEvents \cup {s}
    /\ UNCHANGED <<ings, conf, ingEvents, confEvents>>

ChangeConfig(c) ==
    /\ Change
    /\ c # conf
    /\ conf' = c
    /\ confEvents' = Append(confEvents, c)
    /\ UNCHANGED <<ings, svcs, ingEvents, svcEvents>>

-----------------------------------------------------------------------------
(* watchers.go: the handlers.                                              *)

notify(batch) ==
    /\ ch' = batch
    /\ queued' = TRUE
    /\ UNCHANGED <<cache, run, taken, synced, changes, leads, order>>

\* Create, Update and Delete of the handler of ingress resources.
IngressEvent ==
    /\ ingEvents # <<>>
    /\ LET e == Head(ingEvents)
           linked == [ch EXCEPT !.links = @ \cup {IngRef(e.name)}]
       IN  notify(IF e.new = None
                  THEN [linked EXCEPT !.del = @ \cup {e.name}]
                  ELSE [linked EXCEPT
                          !.seen = @ \cup {<<e.name, e.new>>},
                          !.add[e.name] = IF e.old = None THEN e.new ELSE @])
    /\ ingEvents' = Tail(ingEvents)
    /\ UNCHANGED <<svcEvents, confEvents>>

\* The handlers of services and of endpoints.
ServiceEvent(s) ==
    /\ s \in svcEvents
    /\ notify([ch EXCEPT !.links = @ \cup {SvcRef(s)}])
    /\ svcEvents' = svcEvents \ {s}
    /\ UNCHANGED <<ingEvents, confEvents>>

ConfigEvent ==
    /\ confEvents # <<>>
    /\ notify([ch EXCEPT !.new = Head(confEvents)])
    /\ confEvents' = Tail(confEvents)
    /\ UNCHANGED <<ingEvents, svcEvents>>

-----------------------------------------------------------------------------
(* The converters.                                                         *)

RECURSIVE Linked(_, _)
\* tracker.QueryLinks: what is connected to the resources in S.
Linked(links, S) ==
    LET more == UNION {l \in links : l \cap S # {}}
    IN  IF more \subseteq S THEN S ELSE Linked(links, S \cup more)

\* addBackendWithClass, once the service was found.  The backend might exist:
\* its endpoints and its paths grow, and its configuration is only updated if
\* this sync added it.
AcquireBackend(m, i, o, default) ==
    [m EXCEPT
       !.links = @ \cup {{IngRef(i), BackRef(o.svc)}},
       !.backs[o.svc] =
           IF @ = None
           THEN [paths |-> {<<o.host, o.path>>}, eps |-> svcs[o.svc], conf |-> default]
           ELSE [@ EXCEPT !.paths = @ \cup {<<o.host, o.path>>},
                          !.eps = @ \cup svcs[o.svc]]]

\* addHost.  A host of the model maps its paths to backends.
AcquireHost(m, i, o) ==
    [m EXCEPT
       !.links = @ \cup {{IngRef(i), HostRef(o.host)}},
       !.hosts[o.host] = IF @ = None THEN [p \in Path |-> None] ELSE @]

HasPath(m, o) == m.hosts[o.host] # None /\ m.hosts[o.host][o.path] # None

AddPath(m, o) == [m EXCEPT !.hosts[o.host][o.path] = o.svc]

TrackService(m, o) == [m EXCEPT !.links = @ \cup {{SvcRef(o.svc), HostRef(o.host)}}]

\* syncIngressHTTP, the default backend of an ingress: addDefaultHostBackend.
syncDefault(m, i, o, default) ==
    LET tracked == TrackService(m, o)
    IN  IF HasPath(m, o) THEN m
        ELSE IF svcs[o.svc] = None
        THEN [tracked EXCEPT !.links = @ \cup {{IngRef(i), SvcRef(o.svc)}}]
        ELSE AddPath(AcquireHost(AcquireBackend(tracked, i, o, default), i, o), o)

\* syncIngressHTTP, a path of a rule: a redeclared path is skipped.
syncRule(m, i, o, default) ==
    LET acquired == AcquireHost(m, i, o)
        tracked == TrackService(acquired, o)
    IN  IF HasPath(m, o) THEN acquired
        ELSE IF svcs[o.svc] = None THEN tracked
        ELSE AddPath(AcquireBackend(tracked, i, o, default), o)

\* The oldest ingress wins, and the names break ties.
sortIngress(objs) ==
    SetToSortSeq({i \in Ing : objs[i] # None}, LAMBDA i, j :
        \/ objs[i].born < objs[j].born
        \/ objs[i].born = objs[j].born /\ i < j)

syncIngresses(m, objs, default) ==
    FoldLeft(LAMBDA acc, i :
                IF objs[i].isDefault THEN syncDefault(acc, i, objs[i], default)
                ELSE syncRule(acc, i, objs[i], default),
             m, sortIngress(objs))

\* syncFull, after ClearLinks and Clear.
Full(objs, default) ==
    [syncIngresses(EmptyModel, objs, default) EXCEPT !.ready = TRUE]

\* Mutation: new ingress resources are not linked before the query.
trackAddedNothing(batch) == model.links

\* The links of the model and of the ingress resources added and updated.
trackAddedIngress(batch) ==
    model.links \cup UNION {
        LET i == x[1] o == x[2]
        IN  (IF o.isDefault THEN {} ELSE {{IngRef(i), HostRef(o.host)}})
            \cup (IF svcs[o.svc] # None /\ model.backs[o.svc] # None
                  THEN {{IngRef(i), BackRef(o.svc)}} ELSE {})
        : x \in batch.seen}

\* The ingress resources of a partial sync: those linked to the changes as
\* they are in the cache, and those added as they were in the event.
dirtyIngresses(batch, dirty) ==
    [i \in Ing |->
        IF batch.add[i] # None THEN batch.add[i]
        ELSE IF IngRef(i) \in dirty /\ i \notin batch.del THEN ings[i] ELSE None]

Dirty(batch) == Linked(trackAddedIngress(batch), batch.links)

\* Mutation: the hosts linked to the changes stay in the model.
PartialKeepsHosts(batch, dirty, objs) ==
    LET kept == [model EXCEPT
                   !.backs = [s \in Svc |-> IF BackRef(s) \in dirty THEN None ELSE @[s]],
                   !.links = {l \in trackAddedIngress(batch) : l \cap dirty = {}}]
    IN  syncIngresses(kept, objs, globalConfig(batch))

\* syncPartial: drop what is linked to the changes and parse its ingresses.
Partial(batch, dirty, objs) ==
    LET kept == [hosts |-> [h \in Host |->
                    IF HostRef(h) \in dirty THEN None ELSE model.hosts[h]],
                 backs |-> [s \in Svc |->
                    IF BackRef(s) \in dirty THEN None ELSE model.backs[s]],
                 links |-> {l \in trackAddedIngress(batch) : l \cap dirty = {}},
                 ready |-> TRUE]
    IN  syncIngresses(kept, objs, globalConfig(batch))

\* The default certificate is missing in the first sync only.
needFullSync(batch) ==
    \/ batch.full
    \/ ~model.ready
    \/ batch.new # None /\ batch.new # batch.cur

\* Mutation: a removed item that was added again counts as unchanged.
ChangedItemsByName(old, new, dirtyItems) ==
    {x \in DOMAIN old : (old[x] = None) # (new[x] = None)}

\* Shrink: what was removed, or did not exist, and is not the same now.
ChangedItems(old, new, dirtyItems) ==
    {x \in DOMAIN old : (x \in dirtyItems \/ old[x] = None) /\ old[x] # new[x]}

\* The cache has changes the batches did not bring to a sync.
Ahead ==
    \/ ingEvents # <<>> \/ svcEvents # {} \/ ch.links # {}
    \/ worker # None /\ leader # None

\* ReconcileIngress, under the model mutex: the converters, then
\* HAProxyUpdate, which writes the maps of the frontend if a host changed and
\* the backends if anything changed.  ghosts has the ingress resources parsed
\* from an event that is not the last one, and raced tells that a partial sync
\* could change items that stayed in the model.
ReconcileIngress(batch) ==
    IF needFullSync(batch)
    THEN /\ model' = Full(ings, globalConfig(batch))
         /\ maps' = model'.hosts /\ cfg' = model'.backs
         /\ ghosts' = [i \in Ing |-> None] /\ raced' = FALSE
    ELSE LET dirty == Dirty(batch)
             objs == dirtyIngresses(batch, dirty)
         IN  /\ model' = Partial(batch, dirty, objs)
             /\ LET hostsChanged == ChangedItems(model.hosts, model'.hosts,
                                       {h \in Host : HostRef(h) \in dirty}) # {}
                    backsChanged == ChangedItems(model.backs, model'.backs,
                                       {s \in Svc : BackRef(s) \in dirty}) # {}
                IN  /\ maps' = IF hostsChanged THEN model'.hosts ELSE maps
                    /\ cfg' = IF hostsChanged \/ backsChanged THEN model'.backs ELSE cfg
             /\ ghosts' = [i \in Ing |->
                    IF objs[i] # ings[i] /\ objs[i] # None THEN objs[i]
                    ELSE IF IngRef(i) \in dirty THEN None ELSE ghosts[i]]
             /\ raced' = (raced \/ Ahead
                    \/ \E i \in Ing : objs[i] # None /\ objs[i].isDefault)

-----------------------------------------------------------------------------
(* reconciler.go: two goroutines take a batch and apply it.                *)

\* getChangedObjects
Take ==
    /\ ch' = NewBatch(globalConfig(ch))
    /\ run' = TRUE

WorkerTakes ==
    /\ queued /\ worker = None
    /\ Take
    /\ queued' = FALSE
    /\ worker' = ch
    /\ leaderFirst' = (leader # None)
    /\ UNCHANGED <<cache, events, leader, synced, changes, leads, overtaken>>

\* leaderChanged(true).  leaderFirst tells which goroutine took its batch first,
\* and overtaken that the other one applied its batch first.
LeaderTakes ==
    /\ run /\ leader = None /\ leads < MaxLeads
    /\ Take
    /\ leads' = leads + 1
    /\ leader' = [ch EXCEPT !.full = TRUE]
    /\ leaderFirst' = (worker = None)
    /\ UNCHANGED <<cache, events, queued, worker, synced, changes, overtaken>>

WorkerReconciles ==
    /\ worker # None
    /\ ReconcileIngress(worker)
    /\ worker' = None
    /\ overtaken' = (overtaken \/ (leader # None /\ leaderFirst))
    /\ UNCHANGED <<cache, events, watchers, leader, changes, leads, leaderFirst>>

LeaderReconciles ==
    /\ leader # None
    /\ ReconcileIngress(leader)
    /\ leader' = None
    /\ overtaken' = (overtaken \/ (worker # None /\ ~leaderFirst))
    /\ UNCHANGED <<cache, events, watchers, worker, changes, leads, leaderFirst>>

Next ==
    \/ \E i \in Ing, obj \in Object \cup {None} : ChangeIngress(i, obj)
    \/ \E s \in Svc, eps \in {None} \cup {{e} : e \in Endpoint} : ChangeService(s, eps)
    \/ \E c \in Conf : ChangeConfig(c)
    \/ IngressEvent
    \/ \E s \in Svc : ServiceEvent(s)
    \/ ConfigEvent
    \/ WorkerTakes
    \/ WorkerReconciles
    \/ LeaderTakes
    \/ LeaderReconciles

Spec == Init /\ [][Next]_vars

-----------------------------------------------------------------------------
\* The variables keep their types.  In particular a path only leads to a
\* service, and a backend only has endpoints of a service that was found.
TypeOK ==
    /\ \A i \in Ing : ings[i] \in Object \cup {None}
    /\ \A batch \in {ch, worker, leader} \ {None} :
          /\ batch.del \subseteq Ing
          /\ \A x \in batch.seen : x[1] \in Ing /\ x[2] \in Object
          /\ \A i \in Ing : batch.add[i] \in Object \cup {None}
          /\ {batch.cur, batch.new} \subseteq Conf \cup {None}
    /\ \A hosts \in {model.hosts, maps}, h \in Host, p \in Path :
          hosts[h] # None => hosts[h][p] \in Svc \cup {None}
    /\ \A backs \in {model.backs, cfg}, s \in Svc :
          backs[s] # None => /\ \A x \in backs[s].paths : x[1] \in Host /\ x[2] \in Path
                             /\ backs[s].eps # None /\ backs[s].eps \subseteq Endpoint
                             /\ backs[s].conf \in Conf

Quiescent ==
    /\ ingEvents = <<>> /\ svcEvents = {} /\ confEvents = <<>>
    /\ ~queued /\ worker = None /\ leader = None

\* The objects the model was built from.
View == [i \in Ing |-> IF ghosts[i] # None THEN ghosts[i] ELSE ings[i]]

NoDefault == \A i \in Ing : View[i] # None => ~View[i].isDefault

\* When nothing is left to do the model is what a full sync would build, in
\* whatever batches the changes came, even if the cache was ahead of them.
\* Three things are excepted, as the code does not get them right: an ingress
\* parsed from the event that added it although it changed afterwards (View),
\* batches applied out of order, and default backends of ingress resources.
Converged ==
    Quiescent /\ ~overtaken /\ NoDefault =>
       LET full == Full(View, conf)
       IN  model.hosts = full.hosts /\ model.backs = full.backs

\* When nothing is left to do the files have what the model has, unless a
\* partial sync ran while the cache was ahead of its batch, or met a default
\* backend: both can change a host that stays in the model, which Shrink and
\* WriteFrontendMaps do not notice.
Written ==
    Quiescent /\ ~raced => maps = model.hosts /\ cfg = model.backs

\* At any time a path of the written maps leads to a backend of the written
\* configuration that knows the path, even though the maps and the backends
\* are written under different conditions.
RoutesResolve ==
    \A h \in Host, p \in Path :
        maps[h] # None /\ maps[h][p] # None
        => cfg[maps[h][p]] # None /\ <<h, p>> \in cfg[maps[h][p]].paths

=============================================================================
