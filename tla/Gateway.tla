------------------------------ MODULE Gateway ------------------------------
(***************************************************************************)
(* pkg/converters/converters.go and the converters it runs: the Gateway    *)
(* API, the ingresses (their HTTP routing and their TCP services, the      *)
(* annotations are in IngressSync) and the TCP services of the configmap,  *)
(* all on the same hosts, backends and TCP ports.  The gateway is only     *)
(* converted by a full sync, which any change that is linked to it asks    *)
(* for; ingresses are also converted by partial ones.                      *)
(*                                                                         *)
(* There is one gateway, in the namespace GwNamespace; routes and          *)
(* ingresses are numbers, the oldest first.  A route has one or more       *)
(* references to the gateway, each with the name of a listener or None.    *)
(***************************************************************************)
EXTENDS Weights, TCPServices

CONSTANTS GwNamespace, Route, Ing, Host, PathSeq, Svc, Secret, Key,
          KeyPort,      \* the port a key of the configmap is parsed to, or None
          Group,        \* the group of blue/green an address belongs to, or 0
          Scenario, MaxChanges

VARIABLES scenario, world, batch, model, applied, changes
vars == <<scenario, world, batch, model, applied, changes>>

GwRef == <<"Gateway", "gw">>
IngRef(i) == <<"Ingress", i>>
HostRef(h) == <<"HAHostname", h>>
TCPRef(h, p) == <<"HATCPService", <<h, p>>>>
TCPHostRef(h, p) == <<"HATCPHostname", <<h, p>>>>
BackRef(b) == <<"HABackend", b>>
SvcRef(s) == <<"Service", s>>
SecretRef(s) == <<"Secret", s>>

RouteBack(r, index) == <<"route", r, index>>
SvcBack(s, target) == <<"svc", s, target>>

NewHost == [paths |-> <<>>, pass |-> FALSE, httpPass |-> None, crt |-> ""]
NoConf == [ann |-> "", balance |-> <<>>]
NewBackend == [tcp |-> FALSE, eps |-> <<>>, conf |-> NoConf]

Empty == [hosts |-> [h \in Host |-> None], backs |-> <<>>, tcp |-> CreateTCPServices,
          tcpb |-> CreateTCPBackends, links |-> {}, lost |-> FALSE, contested |-> {}]

Track(st, links) == [st EXCEPT !.links = @ \cup links]
\* FoldLeft for long computations: the result of a step is known before the next.
Steps(op(_, _), base, seq) ==
    LET after[n \in 0..Len(seq)] ==
            IF n = 0 THEN base
            ELSE CHOOSE r \in {op(st, seq[n]) : st \in {after[n - 1]}} : TRUE
    IN  after[Len(seq)]

HasBackend(st, b) == b \in DOMAIN st.backs

-----------------------------------------------------------------------------
(* host.go.  A link is <<path, match, headers>>, headers is "" without.    *)

PathIndex(path) == CHOOSE n \in DOMAIN PathSeq : PathSeq[n] = path

FindPathWithLink(host, link) == \E n \in DOMAIN host.paths : host.paths[n].link = link

\* addLink: by path, and then in the order they were added.
addLink(host, link, b) ==
    LET new == [link |-> link, back |-> b, order |-> Len(host.paths)]
        before(p) == \/ PathIndex(p.link[1]) < PathIndex(link[1])
                     \/ p.link[1] = link[1] /\ p.order <= new.order
    IN  [host EXCEPT !.paths = SelectSeq(@, before) \o <<new>>
                               \o SelectSeq(@, LAMBDA p : ~before(p))]

\* FindPath("/")
RootPaths(host) == SelectSeq(host.paths, LAMBDA p : p.link[1] = "/" /\ p.link[3] = "")

RemovePath(host, path) == [host EXCEPT !.paths = SelectSeq(@, LAMBDA p : p # path)]

-----------------------------------------------------------------------------
(* gateway.go                                                              *)

checkListenerAllowedKind(route, kinds) == kinds = {} \/ route.kind \in kinds

\* from is None, "Same", "All", or the namespaces that a selector matches.
checkListenerAllowedNamespace(route, from) ==
    \/ from = "Same" /\ route.ns = GwNamespace
    \/ from = "All"
    \/ from = "Selector" /\ route.ns \in world.selected

\* Mutation: routes of any namespace are allowed.
checkListenerAllowedAny(route, section, listener) ==
    /\ section \in {None, listener.name}
    /\ checkListenerAllowedKind(route, listener.kinds)

\* checkListenerAllowed, after the name of the listener.
checkListenerAllowed(route, section, listener) ==
    /\ section \in {None, listener.name}
    /\ checkListenerAllowedKind(route, listener.kinds)
    /\ checkListenerAllowedNamespace(route, listener.from)

readEndpoints(weight, eps) == IF eps = None THEN None ELSE [weight |-> weight, eps |-> eps.ready]

readPort(weight, svc, port) ==
    IF port = None THEN None ELSE readEndpoints(weight, CreateEndpoints(svc, port))

\* What a backend reference means, or None: [weight, eps].
readBackendRef(route, ref) ==
    LET svc == world.svcs[<<route.ns, ref.svc>>]
    IN  IF ref.port = None \/ svc = None THEN None
        ELSE readPort(ref.weight, svc, FindServicePort(svc, ref.port))

\* The annotations of the services that exist; the first value of a key is used.
ServiceConf(route, refs) ==
    LET exists(ref) == ref.port # None /\ world.svcs[<<route.ns, ref.svc>>] # None
        svcs == SelectSeq(refs, exists)
    IN  FoldLeft(LAMBDA acc, ref : LET svc == world.svcs[<<route.ns, ref.svc>>]
                                   IN  [ann |-> IF acc.ann = "" THEN svc.ann ELSE acc.ann,
                                        balance |-> IF acc.balance = <<>> THEN svc.balance
                                                    ELSE acc.balance],
                 NoConf, svcs)

\* The servers in the order of seq, with the weights of the balance.
BalancedIn(seq, eps, balance) ==
    LET of(weights) == [ep \in DOMAIN eps |-> weights[CHOOSE n \in DOMAIN seq : seq[n] = ep]]
    IN  of(buildBackendBlueGreenBalance(balance, "deploy", 1,
              [n \in DOMAIN seq |-> Group[seq[n][1]]],
              {n \in DOMAIN seq : eps[seq[n]] = 0}))

\* The servers of a backend after buildBackendBlueGreenBalance, if it is declared.
Balanced(eps, balance) ==
    IF balance = <<>> THEN eps ELSE BalancedIn(SetToSeq(DOMAIN eps), eps, balance)

\* Mutation: the services are not tracked to the gateway.
createBackendUntracked(st, route, b, refs) ==
    LET filled(read) ==
            IF HasBackend(st, b) \/ read = {} THEN st
            ELSE [st EXCEPT !.backs = Put(@, b, [NewBackend EXCEPT
                    !.eps = [ep \in UNION {Range(x.eps) : x \in read} |-> 128]])]
    IN  filled({readBackendRef(route, ref) : ref \in Range(refs)} \ {None})

\* The servers of the references that were read.  An address of two of them has
\* the weight of the last one.
Servers(backends) ==
    LET weighted(weights) ==
            [ep \in UNION {Range(x.eps) : x \in Range(backends)} |->
                weights[Max({n \in DOMAIN backends : ep \in Range(backends[n].eps)})]]
    IN  weighted(RebalanceWeight([n \in DOMAIN backends |->
                    [weight |-> backends[n].weight, length |-> Len(backends[n].eps)]], 128))

\* createBackend: the servers of all the references that can be read.
createBackend(st, route, b, refs) ==
    LET tracked == Track(st, {{SvcRef(<<route.ns, ref.svc>>), GwRef} :
                                 ref \in {x \in Range(refs) : x.port # None}})
        filled(backends) ==
            IF backends = <<>> THEN tracked
            ELSE [tracked EXCEPT !.backs = Put(@, b, [NewBackend EXCEPT !.eps = Servers(backends)])]
    IN  IF HasBackend(st, b) THEN st
        ELSE filled(SelectSeq([n \in DOMAIN refs |-> readBackendRef(route, refs[n])],
                              LAMBDA x : x # None))

filterHostnames(listenerHost, hosts) ==
    IF listenerHost # "" THEN <<listenerHost>>
    ELSE IF hosts = <<>> THEN <<DefaultHost>> ELSE hosts

\* handlePassthrough: a backend in mode HTTP leaves the root path of a host that
\* has passthrough, and becomes the one of its plain requests.
handlePassthrough(st, h, b) ==
    LET tcp == st.backs[b].tcp
        leave(host, path) ==
            IF st.backs[path.back].tcp THEN host
            ELSE [RemovePath(host, path) EXCEPT
                    !.httpPass = IF @ # None THEN @ ELSE IF tcp THEN path.back ELSE b]
    IN  IF ~tcp /\ ~st.hosts[h].pass THEN st
        ELSE [st EXCEPT !.hosts[h] = FoldLeft(leave, @, RootPaths(@))]

\* One match of a rule in one host.  done has the model, and the hosts and the
\* links that were added.
createHTTPHost(done, h, link, b) ==
    LET st == done.st
        host == IF st.hosts[h] = None THEN NewHost ELSE st.hosts[h]
        redeclared == FindPathWithLink(host, link) /\ (st.backs[b].tcp <=> host.pass)
        acquired == [st EXCEPT !.hosts[h] = host]
        added == [Track(acquired, {{HostRef(h), GwRef}}) EXCEPT !.hosts[h] = addLink(@, link, b)]
    IN  IF redeclared THEN [done EXCEPT !.st = acquired]
        ELSE [st |-> IF link[1] = "/" THEN handlePassthrough(added, h, b) ELSE added,
              hosts |-> done.hosts \cup {h}, links |-> done.links \cup {<<h, link>>}]

\* createHTTPHosts
createHTTPHosts(st, hostnames, matches, b) ==
    LET links == IF st.backs[b].tcp \/ matches = <<>> THEN <<<<"/", "prefix", "">>>> ELSE matches
        pairs == FlattenSeq([m \in DOMAIN links |->
                    [h \in DOMAIN hostnames |-> <<hostnames[h], links[m]>>]])
    IN  Steps(LAMBDA done, p : createHTTPHost(done, p[1], p[2], b),
                 [st |-> st, hosts |-> {}, links |-> {}], pairs)

\* applyCertRef: the first certificate wins.
applyCertRef(st, listener, hosts) ==
    LET crt == world.secrets[listener.cert]
        tracked == Track(st, {{SecretRef(listener.cert), GwRef}})
        on(h) == IF listener.tls = "Passthrough" THEN [st.hosts[h] EXCEPT !.pass = TRUE]
                 ELSE IF st.hosts[h].crt \notin {"", crt} THEN st.hosts[h]
                 ELSE [st.hosts[h] EXCEPT !.crt = crt]
        updated == [h \in Host |-> IF h \in hosts THEN on(h) ELSE st.hosts[h]]
    IN  IF listener.tls = "" THEN st
        ELSE IF listener.tls = "Passthrough" THEN [st EXCEPT !.hosts = updated]
        ELSE IF listener.cert = "" THEN st
        ELSE IF crt = None THEN tracked
        ELSE [tracked EXCEPT !.hosts = updated]

\* ReadAnnotations: the configuration of the backend is the one of its services,
\* and the default one if it has no new path or if it is not a new backend.
ReadAnnotations(st, b, conf, hasPaths) ==
    LET used == IF hasPaths THEN conf ELSE NoConf
    IN  [st EXCEPT !.backs[b].conf = used, !.backs[b].eps = Balanced(@, used.balance)]

\* The rest of a rule of an HTTPRoute, once its backend exists.
routeHTTP(st, route, rule, b, listener, conf) ==
    LET annotated(done) ==
            ReadAnnotations(applyCertRef(done.st, listener, done.hosts), b, conf, done.links # {})
    IN  IF ~HasBackend(st, b) THEN st
        ELSE annotated(createHTTPHosts(
                [st EXCEPT !.backs[b].tcp = @ \/ listener.tls = "Passthrough"],
                filterHostnames(listener.host, route.hosts), rule.matches, b))

\* A rule of an HTTPRoute on a listener.
syncHTTPRule(st, route, rule, b, listener) ==
    routeHTTP(createBackend(st, route, b, rule.refs), route, rule, b, listener,
              IF HasBackend(st, b) THEN NoConf ELSE ServiceConf(route, rule.refs))

\* createTCPService, after createBackend.
createTCPService(st, port, b, conf) ==
    LET free(s) == s.tcp.items[port].hosts[DefaultHost] = Unassigned
        assigned(s) == IF ~free(s) THEN s
                       ELSE [Track(s, {{TCPHostRef(DefaultHost, port), GwRef}}) EXCEPT
                               !.tcp.items[port].hosts[DefaultHost] = b]
        annotated(s) == ReadAnnotations(assigned(s), b, conf, free(s))
    IN  annotated([st EXCEPT !.backs[b].tcp = TRUE, !.tcp = AcquireTCPService(@, DefaultHost, port)])

syncTCPRule(st, route, rule, b, listener) ==
    LET served(created) ==
            IF ~HasBackend(created, b) THEN created
            ELSE createTCPService(created, listener.port, b,
                    IF HasBackend(st, b) THEN NoConf ELSE ServiceConf(route, rule.refs))
    IN  served(createBackend(st, route, b, rule.refs))

\* A route on a listener: the rules in their order.
attach(st, r, route, listener) ==
    Steps(LAMBDA acc, n :
                IF route.kind = "HTTPRoute"
                THEN syncHTTPRule(acc, route, route.rules[n], RouteBack(r, n), listener)
                ELSE syncTCPRule(acc, route, route.rules[n], RouteBack(r, n), listener),
             st, [n \in DOMAIN route.rules |-> n])

\* syncHTTPRouteGateway and syncTCPRouteGateway
syncRouteGateway(st, r, section) ==
    Steps(LAMBDA acc, listener :
                IF ~checkListenerAllowed(world.routes[r], section, listener) THEN acc
                ELSE attach(acc, r, world.routes[r], listener),
             st, world.gw)

\* syncRoute.  world.gw is the sequence of listeners, or None.
syncRoute(st, r) ==
    IF world.gw = None THEN st
    ELSE Steps(LAMBDA acc, section : syncRouteGateway(acc, r, section),
                  st, world.routes[r].sections)

\* Mutation: the newest first.
syncRoutesNewest(st) ==
    Steps(syncRoute, st, SelectSeq(Reverse(SetToSortSeq(Route, <)), LAMBDA r : world.routes[r] # None))

\* Sync: the HTTP routes, then the TCP ones, the oldest first.
syncRoutes(st) ==
    LET ofKind(kind) == SelectSeq(SetToSortSeq(Route, <), LAMBDA r :
                           world.routes[r] # None /\ world.routes[r].kind = kind)
    IN  Steps(syncRoute, st, ofKind("HTTPRoute") \o ofKind("TCPRoute"))

-----------------------------------------------------------------------------
(* ingress.go: an ingress has one path of a host, or one TCP service.      *)

\* The servers of a new backend, and its configuration.
NewServiceBackend(svc, port) ==
    [NewBackend EXCEPT !.eps = Balanced(addEndpoints(svc, port, world.drain, 1), svc.balance),
                       !.conf = [ann |-> svc.ann, balance |-> svc.balance]]

\* AcquireBackend of b; servers are only added by the first ingress of a sync.
acquireBackend(st, i, b, svc, port) ==
    [Track(st, {{IngRef(i), BackRef(b)}}) EXCEPT
       !.backs = IF HasBackend(st, b) THEN @ ELSE Put(@, b, NewServiceBackend(svc, port))]

\* addBackendWithClass: the model and the backend, None if there is no such port.
addBackend(st, i, o, ref) ==
    LET tracked == Track(st, {{SvcRef(o.svc), ref}})
        svc == world.svcs[o.svc]
        found(s, port, b) == [st |-> acquireBackend(s, i, b, svc, port), back |-> b]
        read(port) == IF port = None THEN [st |-> tracked, back |-> None]
                      ELSE found(tracked, port, SvcBack(o.svc, port.target))
    IN  IF svc = None THEN [st |-> tracked, back |-> None]
        ELSE read(FindServicePort(svc, o.sport))

\* syncIngressHTTP
syncIngressHTTP(st, i, o) ==
    LET host == [Track(st, {{IngRef(i), HostRef(o.host)}}) EXCEPT
                   !.hosts[o.host] = IF @ = None THEN NewHost ELSE @]
        linked(added) == IF added.back = None THEN added.st
                         ELSE [added.st EXCEPT !.hosts[o.host] = addLink(@, o.link, added.back)]
    IN  IF FindPathWithLink(host.hosts[o.host], o.link) THEN host
        ELSE linked(addBackend(host, i, o, HostRef(o.host)))

\* The certificate of a TCP port: the first one wins.
addTCPTLS(st, i, o) ==
    LET tracked == IF o.tls = "" THEN st ELSE Track(st, {{IngRef(i), SecretRef(o.tls)}})
        crt == IF o.tls # "" /\ world.secrets[o.tls] # None THEN world.secrets[o.tls]
               ELSE "default"
    IN  IF o.tls = None \/ st.tcp.items[o.port] = None THEN st
        ELSE [tracked EXCEPT !.tcp.items[o.port].tls = IF @ = "" THEN crt ELSE @]

\* addTCPService and syncIngressTCP: a service that is assigned is left alone, and
\* the ingress is not tracked to it.  ann[port] is what the ingresses of this sync
\* say about the port.
syncIngressTCP(done, i, o) ==
    LET st == [done.st EXCEPT !.tcp = AcquireTCPService(@, o.host, o.port)]
        ref == TCPRef(o.host, o.port)
        assigned(added) ==
            IF added.back = None THEN [added.st EXCEPT !.tcp = RemoveService(@, o.host, o.port)]
            ELSE [added.st EXCEPT !.tcp.items[o.port].hosts[o.host] = added.back,
                                  !.backs[added.back].tcp = TRUE]
    IN  IF st.tcp.items[o.port].hosts[o.host] # Unassigned
        THEN [done EXCEPT !.st = addTCPTLS([st EXCEPT !.contested = @ \cup {o.port}], i, o)]
        ELSE [st |-> addTCPTLS(assigned(addBackend(Track(st, {{IngRef(i), ref}}), i, o, ref)), i, o),
              ann |-> [done.ann EXCEPT ![o.port] = IF @ \in {None, ""} THEN o.ann ELSE @]]

Shared(item) == item # None /\ Cardinality({h \in TCPHost : item.hosts[h] # None}) > 1

\* syncIngress for each, the oldest first, and then fullSyncTCP.  The configuration
\* of a TCP port is what the ingresses of this sync say.
syncIngresses(st, names) ==
    LET one(done, i, o) ==
            IF o = None THEN done
            ELSE IF o.kind = "tcp" THEN syncIngressTCP(done, i, o)
            ELSE [done EXCEPT !.st = syncIngressHTTP(@, i, o)]
        fullSyncTCP(all) ==
            [all.st EXCEPT
               !.contested = @ \cup {p \in Port : Shared(all.st.tcp.items[p])},
               !.tcp.items = [p \in Port |-> IF @[p] = None \/ all.ann[p] = None THEN @[p]
                                             ELSE [@[p] EXCEPT !.conf = all.ann[p]]]]
    IN  fullSyncTCP(Steps(LAMBDA done, i : one(done, i, world.ings[i]),
                             [st |-> st, ann |-> [p \in Port |-> None]],
                             SetToSortSeq(names, <)))

-----------------------------------------------------------------------------
(* configmap/tcpservices.go                                                *)

\* One key: [svc, port, tls, conf].
syncKey(b, key) ==
    LET value == world.cm[key]
        crt == IF value.tls = "" THEN "" ELSE world.secrets[value.tls]
        acquired(read) ==
            IF read = None \/ crt = None THEN b
            ELSE AcquireBackendPort(b, KeyPort[key], value.svc, read.eps, <<value.conf, crt>>)
    IN  IF KeyPort[key] = None \/ world.svcs[value.svc] = None THEN b
        ELSE acquired(readPort(1, world.svcs[value.svc],
                               FindServicePort(world.svcs[value.svc], value.port)))

\* Sync: the keys are read in the order of a map.
syncConfigMap(b, order) == Steps(syncKey, RemoveAllBackends(b), order)

-----------------------------------------------------------------------------
(* converters.go                                                           *)

NoBatch == [full |-> FALSE, add |-> {}, upd |-> {}, del |-> {}, refs |-> {}]

RECURSIVE Linked(_, _)
Linked(links, refs) ==
    LET more == refs \cup UNION {l \in links : l \cap refs # {}}
    IN  IF more = refs THEN refs ELSE Linked(links, more)

\* gateway.NeedFullSync
NeedFullSync == batch.full \/ GwRef \in Linked(model.links, batch.refs)

BackendOf(o) ==
    LET back(port) == IF port = None THEN None ELSE SvcBack(o.svc, port.target)
    IN  IF world.svcs[o.svc] = None THEN None
        ELSE back(FindServicePort(world.svcs[o.svc], o.sport))

\* trackAddedIngress
trackAddedIngress(st) ==
    LET links(i, o) ==
            {{IngRef(i), IF o.kind = "tcp" THEN TCPRef(o.host, o.port) ELSE HostRef(o.host)}}
            \cup {{IngRef(i), BackRef(b)} : b \in {BackendOf(o)} \cap DOMAIN st.backs}
    IN  Track(st, UNION {links(i, world.ings[i]) : i \in batch.add \cup batch.upd})

OwnedByRoute(item, h) == item # None /\ item.hosts[h] # None /\ item.hosts[h] # Unassigned
                         /\ item.hosts[h][1] = "route"

\* The removal of what is linked to a change.  Two fields remember what only the
\* next full sync brings back: lost that this was something of the gateway, and
\* contested the TCP ports that several ingresses declared.
Cleaned(st, dirty) ==
    LET services == {x \in TCPHost \X Port : TCPRef(x[1], x[2]) \in dirty}
    IN  [st EXCEPT
           !.tcp = FoldSet(LAMBDA x, tcp : RemoveService(tcp, x[1], x[2]), @, services),
           !.hosts = [h \in Host |-> IF HostRef(h) \in dirty THEN None ELSE @[h]],
           !.backs = [b \in {x \in DOMAIN @ : BackRef(x) \notin dirty} |-> @[b]],
           !.links = {l \in @ : l \cap dirty = {}},
           !.lost = @ \/ GwRef \in dirty
                    \/ \E x \in services : OwnedByRoute(st.tcp.items[x[2]], x[1])]

syncFull(tcpb) == syncIngresses(syncRoutes([Empty EXCEPT !.tcpb = tcpb]), Ing)

\* What is linked to a change is removed, and its ingresses are read again.
Rebuilt(st, dirty) ==
    syncIngresses(Cleaned(st, dirty),
                  ({i \in Ing : IngRef(i) \in dirty} \ batch.del) \cup batch.add)

syncPartial ==
    LET tracked == trackAddedIngress(model)
    IN  Rebuilt(tracked, Linked(tracked.links, batch.refs))

\* The configuration haproxy runs with: a full sync always reloads.
Applied(st, full) ==
    [tcp |-> IF full \/ st.tcp.changed THEN st.tcp.items ELSE applied.tcp,
     tcpb |-> IF full \/ ChangedBackends(st.tcpb) THEN st.tcpb.items ELSE applied.tcpb]

\* Sync of the converters, and the update of the instance that follows it.
Sync(order) ==
    /\ batch # NoBatch
    /\ \E parsed \in {IF NeedFullSync THEN syncFull(CreateTCPBackends) ELSE syncPartial} :
         \E synced \in {[parsed EXCEPT !.tcpb = syncConfigMap(@, order)]} :
            /\ applied' = Applied(synced, NeedFullSync)
            /\ model' = [synced EXCEPT !.tcp = Commit(@), !.tcpb = CommitBackends(@)]
    /\ batch' = NoBatch
    /\ UNCHANGED <<scenario, world, changes>>

Change ==
    /\ changes < MaxChanges
    /\ changes' = changes + 1
    /\ UNCHANGED <<scenario, model, applied>>

\* A change of a gateway, of a route or of a namespace asks for a full sync.
ChangeGateway(gw, routes) ==
    /\ Change
    /\ world' = [world EXCEPT !.gw = gw, !.routes = routes]
    /\ world' # world
    /\ batch' = [batch EXCEPT !.full = TRUE]

\* An ingress changes once in a batch.
ChangeIngress(i, ing) ==
    /\ Change
    /\ i \notin batch.add \cup batch.upd \cup batch.del
    /\ world.ings[i] # ing
    /\ world' = [world EXCEPT !.ings[i] = ing]
    /\ batch' = [batch EXCEPT !.refs = @ \cup {IngRef(i)},
                   !.add = IF world.ings[i] = None THEN @ \cup {i} ELSE @,
                   !.del = IF ing = None THEN @ \cup {i} ELSE @,
                   !.upd = IF world.ings[i] # None /\ ing # None THEN @ \cup {i} ELSE @]

\* A service, its endpoints, or its pods: they are tracked if drain is on.
ChangeService(s, svc) ==
    /\ Change
    /\ world.svcs[s] # svc
    /\ world' = [world EXCEPT !.svcs[s] = svc]
    /\ batch' = [batch EXCEPT !.refs = @ \cup {SvcRef(s)}]

ChangeSecret(s, content) ==
    /\ Change
    /\ world.secrets[s] # content
    /\ world' = [world EXCEPT !.secrets[s] = content]
    /\ batch' = [batch EXCEPT !.refs = @ \cup {SecretRef(s)}]

ChangeConfigMap(cm) ==
    /\ Change
    /\ world.cm # cm
    /\ world' = [world EXCEPT !.cm = cm]
    /\ batch' = [batch EXCEPT !.refs = @ \cup {<<"ConfigMap", "tcp">>}]

Init ==
    /\ scenario \in Scenario
    /\ world \in [gw : scenario.gw, routes : scenario.routes, ings : scenario.ings,
                  svcs : scenario.svcs, secrets : scenario.secrets, cm : scenario.cm,
                  selected : {{"n2"}}, drain : scenario.drain]
    /\ batch = [NoBatch EXCEPT !.full = TRUE]
    /\ model = Empty
    /\ applied = [tcp |-> Empty.tcp.items, tcpb |-> <<>>]
    /\ changes = 0

Next ==
    \/ \E order \in SetToSeqs(DOMAIN world.cm) : Sync(order)
    \/ \E gw \in scenario.gw, routes \in scenario.routes : ChangeGateway(gw, routes)
    \/ \E i \in Ing, ings \in scenario.ings : ChangeIngress(i, ings[i])
    \/ \E s \in Svc, svcs \in scenario.svcs : ChangeService(s, svcs[s])
    \/ \E s \in Secret, secrets \in scenario.secrets : ChangeSecret(s, secrets[s])
    \/ \E cm \in scenario.cm : ChangeConfigMap(cm)

Spec == Init /\ [][Next]_vars

-----------------------------------------------------------------------------
Quiet == batch = NoBatch

\* The listeners a route is attached to, and the rules that have a backend.
Attached(r) ==
    LET route == world.routes[r]
        allowed(l) == /\ \E section \in Range(route.sections) : section \in {None, l.name}
                      /\ l.kinds = {} \/ route.kind \in l.kinds
                      /\ \/ l.from = "All"
                         \/ l.from = "Same" /\ route.ns = GwNamespace
                         \/ l.from = "Selector" /\ route.ns \in world.selected
    IN  IF route = None \/ world.gw = None THEN {} ELSE {l \in Range(world.gw) : allowed(l)}

Backed(r) ==
    {n \in DOMAIN world.routes[r].rules : \E ref \in Range(world.routes[r].rules[n].refs) :
        readBackendRef(world.routes[r], ref) # None}

\* The hosts and links an HTTP route asks for.
Asked(r) ==
    LET route == world.routes[r]
        links(n) == IF route.rules[n].matches = <<>> THEN {<<"/", "prefix", "">>}
                    ELSE Range(route.rules[n].matches)
    IN  IF Attached(r) = {} \/ route.kind # "HTTPRoute" THEN {}
        ELSE UNION {Range(filterHostnames(l.host, route.hosts)) \X links(n) :
                       l \in Attached(r), n \in Backed(r)}

TCPAsked(r) ==
    IF Attached(r) = {} \/ world.routes[r].kind # "TCPRoute" \/ Backed(r) = {} THEN {}
    ELSE {l.port : l \in Attached(r)}

BackOf(h, link) ==
    LET found == {n \in DOMAIN model.hosts[h].paths : model.hosts[h].paths[n].link = link}
    IN  IF model.hosts[h] = None THEN None
        ELSE IF found = {} THEN None
        ELSE model.hosts[h].paths[CHOOSE n \in found : TRUE].back

Passthrough == world.gw # None /\ \E l \in Range(world.gw) : l.tls = "Passthrough"

\* The drained servers of a backend of an ingress.
Drained(b) ==
    IF b[1] = "route" THEN {}
    ELSE LET svc == world.svcs[b[2]]
             port == FirstOf(svc.ports, LAMBDA p : p.target = b[3])
             zero(weights) == {ep \in DOMAIN weights : weights[ep] = 0}
         IN  zero(addEndpoints(svc, port, world.drain, 1))

SumOf(pairs) == FoldSet(LAMBDA x, sum : x[2] + sum, 0, pairs)

Oldest(set) == CHOOSE r \in set : \A x \in set : r <= x

\* The model only refers to backends that exist, and a TCP port or service only
\* exists if it has a backend.
TypeOK ==
    /\ changes \in 0..MaxChanges /\ model.lost \in BOOLEAN
    /\ \A h \in Host : model.hosts[h] # None =>
          /\ \A n \in DOMAIN model.hosts[h].paths : HasBackend(model, model.hosts[h].paths[n].back)
          /\ model.hosts[h].httpPass # None => HasBackend(model, model.hosts[h].httpPass)
    /\ \A p \in Port : model.tcp.items[p] # None =>
          /\ ~isEmpty(model.tcp.items[p])
          /\ \A h \in TCPHost : model.tcp.items[p].hosts[h] # None =>
                HasBackend(model, model.tcp.items[p].hosts[h])

Facts(host) ==
    IF host = None THEN None
    ELSE [host EXCEPT !.paths = [n \in DOMAIN @ |-> <<@[n].link, @[n].back>>]]

\* converters.Sync: when nothing is left to do the hosts, the backends with their
\* servers, and the TCP services are those a full sync would make of the current
\* resources, whichever mix of full and partial syncs led here.  Not so for what
\* an ingress took from the gateway, and for the TCP ports that several ingresses
\* declared since the last full sync.
Converged ==
    LET AsIn(full) ==
            /\ \A h \in Host : Facts(model.hosts[h]) = Facts(full.hosts[h])
            /\ IF model.contested = {} THEN model.backs = full.backs
               ELSE \A b \in DOMAIN model.backs : /\ HasBackend(full, b)
                                                 /\ model.backs[b].eps = full.backs[b].eps
            /\ \A p \in Port \ model.contested : model.tcp.items[p] = full.tcp.items[p]
    IN  Quiet /\ ~model.lost => AsIn(syncFull(CreateTCPBackends))

\* checkListenerAllowed: nothing is routed to the backend of a route that no
\* listener of the gateway allows, by its kind and its namespace.
AllowedOnly ==
    Quiet => \A b \in DOMAIN model.backs : b[1] = "route" => Attached(b[2]) # {}

Owners ==
    \A h \in Host, r \in Route : \A link \in {x[2] : x \in {y \in Asked(r) : y[1] = h}} :
       LET b == BackOf(h, link)
       IN  /\ b # None /\ b[1] = "route"
           /\ b[2] = Oldest({x \in Route : <<h, link>> \in Asked(x)})

TCPOwners ==
    \A r \in Route : \A p \in TCPAsked(r) :
       LET b == model.tcp.items[p].hosts[DefaultHost]
       IN  /\ model.tcp.items[p] # None /\ b[1] = "route"
           /\ b[2] = Oldest({x \in Route : p \in TCPAsked(x)})

\* gateway-api.md: "If the same hostname and path with the same path type is
\* declared in the Gateway API and Ingress, the Gateway API wins", and the oldest
\* route wins among routes; the same for a TCP port.  After any full sync, and
\* as long as no ingress was created or updated that shares something with it.
GatewayWins == Quiet /\ ~model.lost => TCPOwners /\ (Passthrough \/ Owners)

\* RebalanceWeight: the servers of a rule have weights that haproxy accepts, 0
\* only if their reference has, and a reference gets its share of the requests:
\* no less than what one unit of weight per server makes up for.  References that
\* share servers, and services that ask for blue/green, are not in this statement.
RouteWeights ==
    \A b \in DOMAIN model.backs : Quiet /\ b[1] = "route" =>
       LET route == world.routes[b[2]]
           refs == route.rules[b[3]].refs
           eps(n) == Range(readBackendRef(route, refs[n]).eps)
           used == {n \in DOMAIN refs : /\ readBackendRef(route, refs[n]) # None
                                        /\ eps(n) # {} /\ refs[n].weight > 0}
           w(n) == model.backs[b].eps[CHOOSE ep \in eps(n) : TRUE]
           len(n) == Cardinality(eps(n))
       IN  /\ \A ep \in DOMAIN model.backs[b].eps : model.backs[b].eps[ep] \in 0..256
           /\ /\ \A m, n \in used : m # n => eps(m) \cap eps(n) = {}
              /\ ServiceConf(route, refs).balance = <<>> =>
                 \A m, n \in used :
                    /\ w(n) > 0
                    /\ m # n /\ w(m) > 1 =>
                         (w(n) + 1) * len(n) * refs[m].weight >= w(m) * len(m) * refs[n].weight

\* buildBackendBlueGreenBalance, for an ingress: a server gets no requests if and only if it is
\* drained, belongs to no group, or its group has the weight 0; and a group of
\* more weight never gets less requests, whatever the number of their servers.
BlueGreenWeights ==
    \A b \in DOMAIN model.backs :
       LET balance == model.backs[b].conf.balance
           eps == model.backs[b].eps
           of(g) == {ep \in DOMAIN eps : Group[ep[1]] = g /\ ep \notin Drained(b)}
           share(g) == SumOf({<<ep, eps[ep]>> : ep \in of(g)})
       IN  Quiet /\ b[1] = "svc" /\ balance # <<>> =>
              /\ \A ep \in DOMAIN eps : eps[ep] \in 0..256
              /\ \A ep \in DOMAIN eps : eps[ep] = 0 <=>
                    \/ ep \in Drained(b) \/ Group[ep[1]] = 0
                    \/ balance[Group[ep[1]]] = 0
              /\ \A g, h \in DOMAIN balance :
                    balance[g] > balance[h] /\ of(g) # {} => share(g) >= share(h)

\* The weights of the servers, after RebalanceWeight for the references of a route
\* and after buildBackendBlueGreenBalance for the groups of a service, are ones
\* haproxy accepts and share the requests as was asked for.
WeightsSound == RouteWeights /\ BlueGreenWeights

\* TCPServices.Changed and TCPBackends.Changed: haproxy runs with the TCP services
\* of the model, although a partial sync only reloads it if they tell a change.
TCPApplied ==
    Quiet => /\ applied.tcp = model.tcp.items
             /\ applied.tcpb = model.tcpb.items
=============================================================================
