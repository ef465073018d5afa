---------------------------- MODULE IngressSync ----------------------------
(***************************************************************************)
(* pkg/converters/ingress: an ingress resource, the services, the secrets  *)
(* and the class parameters it refers to become hosts, backends, userlists *)
(* and listeners of the auth proxy.  A sync parses the resources, full or  *)
(* only those linked to a change, and then applies the annotations: first  *)
(* to the hosts, then to the backends, each in the order of a Go map.      *)
(* Resources change between syncs; what happens if they change during one  *)
(* is in Reconcile.  An ingress declares one path of one host.             *)
(***************************************************************************)
EXTENDS Annotations

CONSTANTS Ing,           \* ingress resources: numbers, the oldest first
          HostSeq,       \* the hostnames
          PathSeq,       \* the paths, in the order of host.Paths
          BackSeq,       \* the backends: service and port
          Svc, Secret,
          Urls,          \* what ParseURL makes of the values of auth-url
          Snippets,      \* the keywords of the values of config-backend
          DisableKeywords,
          Scenario,      \* families of resources that are explored together
          MaxChanges

Host == Range(HostSeq)
Path == Range(PathSeq)
NoBack == <<"", "">>
Back == Range(BackSeq) \cup {NoBack}
Link == Host \X Path

\* The order of backend.Paths, the reverse of the one of host.Paths.
LinkSeq == FlattenSeq([n \in DOMAIN HostSeq |->
              [k \in DOMAIN PathSeq |-> <<HostSeq[n], Reverse(PathSeq)[k]>>]])

VARIABLES scenario, world, batch, model, pc, todo, changes
vars == <<scenario, world, batch, model, pc, todo, changes>>

IngRef(i) == <<"Ingress", i>>
HostRef(h) == <<"HAHostname", h>>
BackRef(b) == <<"HABackend", b>>
UserRef(s) == <<"HAUserlist", s>>
SvcRef(s) == <<"Service", s>>
SecretRef(s) == <<"Secret", s>>
ClassRef == <<"IngressClass", "class">>
ParamsRef == <<"ConfigMap", "params">>

NoAuth == [deny |-> FALSE, name |-> None]
Denied == [deny |-> TRUE, name |-> None]

Empty ==
    [hosts |-> [h \in Host |-> None], backs |-> [b \in Back |-> None],
     users |-> [s \in Secret |-> None], binds |-> <<>>, auths |-> <<>>, links |-> {},
     hostAnn |-> [h \in Host |-> None], backAnn |-> [b \in Back |-> None],
     hostsAdd |-> {}, backsAdd |-> {}, purged |-> FALSE]

Track(st, links) == [st EXCEPT !.links = @ \cup links]

-----------------------------------------------------------------------------
(* frontend.go: the listeners of the auth proxy.  A bind is named after    *)
(* its port, and the list is sorted by port.                               *)

AuthName(port) == <<"_auth", port>>

\* Mutation: the ports that are in use are not looked at.
freePortCount(binds) == Len(binds) + 1

\* The first port of the range that has no bind.
freePort(binds) == FoldLeft(LAMBDA p, b : IF p = b.port THEN p + 1 ELSE p, 1, binds)

\* The binds and the name, which is None if all the ports are in use.
AcquireAuthBackendName(binds, target) ==
    LET found == {n \in DOMAIN binds : binds[n].target = target}
        port == freePort(binds)
        bind == [port |-> port, target |-> target]
    IN  IF found # {}
        THEN [binds |-> binds, name |-> AuthName(binds[CHOOSE n \in found : TRUE].port)]
        ELSE IF port > world.global.ports THEN [binds |-> binds, name |-> None]
        ELSE [binds |-> SelectSeq(binds, LAMBDA b : b.port <= port) \o <<bind>>
                        \o SelectSeq(binds, LAMBDA b : b.port > port),
              name |-> AuthName(port)]

RemoveAuthBackendExcept(binds, used) ==
    SelectSeq(binds, LAMBDA b : AuthName(b.port) \in used)

RemoveAuthBackendByTarget(binds, backs) ==
    SelectSeq(binds, LAMBDA b : b.target \notin backs)

\* backends.go
BuildUsedAuthBackends(st) ==
    {st.backs[b].auth[l].name : b \in {x \in Back : st.backs[x] # None}, l \in Link}

-----------------------------------------------------------------------------
(* ingress.go: the parsing.                                                *)

\* AcquireBackend
AcquireBackend(st, b) ==
    IF st.backs[b] # None THEN st
    ELSE [st EXCEPT
            !.backs[b] = [paths |-> {}, auth |-> [l \in Link |-> NoAuth],
                          tcp |-> FALSE, conf |-> None, user |-> [l \in Link |-> None]],
            !.backsAdd = @ \cup {b}]

\* FindServicePort
HasPort(b) == world.svcs[b[1]] # None /\ b[2] \in world.svcs[b[1]].ports

MapperOf(mapper) == IF mapper = None THEN NewMapper(world.global.defaults) ELSE mapper

\* Mutation: the annotations of the ingress come before those of the service.
mergedIngressFirst(mapper, i, link, b, ann, params) ==
    LET fromIng == AddAnnotations(MapperOf(mapper), IngRef(i), link, ann)
        fromSvc == AddAnnotations(fromIng, SvcRef(b[1]), link, annBack(world.svcs[b[1]].ann))
    IN  AddAnnotations(fromSvc, IngRef(i), link, params)

\* The service has precedence over the ingress, and the ingress over the
\* parameters of its class.
merged(mapper, i, link, b, ann, params) ==
    LET fromSvc == AddAnnotations(MapperOf(mapper), SvcRef(b[1]), link,
                                  annBack(world.svcs[b[1]].ann))
        fromIng == AddAnnotations(fromSvc, IngRef(i), link, ann)
    IN  AddAnnotations(fromIng, IngRef(i), link, params)

\* addBackendWithClass.  A backend that is not found is only tracked.
addBackend(st, i, link, b, ann, class) ==
    LET tracked == Track(st, {{SvcRef(b[1]), HostRef(link[1])}})
        params == IF class THEN {{ParamsRef, ClassRef}} ELSE {}
    IN  IF ~HasPort(b) THEN tracked
        ELSE [Track(AcquireBackend(tracked, b), {{IngRef(i), BackRef(b)}} \cup params)
                EXCEPT !.backAnn[b] =
                    merged(@, i, link, b, ann, IF class THEN world.params ELSE <<>>)]

NewHost ==
    [paths |-> [p \in Path |-> None], crt |-> <<>>, ca |-> <<>>, verify |-> "", pass |-> FALSE,
     httpPass |-> None, redirect |-> "", ciphers |-> "", add |-> FALSE, follow |-> FALSE]

\* addHost
addHost(st, i, h, ann) ==
    [Track(st, {{IngRef(i), HostRef(h)}}) EXCEPT
       !.hosts[h] = IF @ = None THEN NewHost ELSE @,
       !.hostsAdd = IF st.hosts[h] = None THEN @ \cup {h} ELSE @,
       !.hostAnn[h] = AddAnnotations(MapperOf(@), IngRef(i), <<h, "/">>, ann)]

\* The certificate of a secret, or the default one.
addTLS(secret) ==
    IF secret # "" /\ world.secrets[secret] # None THEN <<secret, world.secrets[secret]>>
    ELSE <<"default">>

\* AddLink and AddRedirect: a path that redirects has the zero HostBackend.
AddLink(st, o, b) ==
    LET linked == [st EXCEPT !.hosts[o.host].paths[o.path] = [back |-> b, ext |-> NoAuth]]
    IN  IF b = NoBack THEN linked
        ELSE [linked EXCEPT !.backs[b].paths = @ \cup {<<o.host, o.path>>}]

\* syncIngressHTTP: a path that exists or whose service is missing is skipped.
syncPath(st, i, o) ==
    LET link == <<o.host, o.path>>
        ann == annBack(o.ann)
        passPort == "ssl-passthrough-http-port"
        url == IF "auth-url" \in DOMAIN ann THEN Urls[ann["auth-url"]] ELSE Urls[""]
        passed(s) == IF "ssl-passthrough" \in DOMAIN o.ann /\ ParseBool(o.ann["ssl-passthrough"])
                        /\ passPort \in DOMAIN o.ann
                     THEN addBackend(s, i, link, <<o.back[1], o.ann[passPort]>>, ann, FALSE)
                     ELSE s
        authed(s) == IF url.proto = "svc" /\ url.port # ""
                     THEN addBackend(s, i, link, <<url.name, url.port>>, <<>>, FALSE)
                     ELSE s
        added(s) == IF HasPort(o.back) THEN authed(passed(AddLink(s, o, o.back))) ELSE s
    IN  IF st.hosts[o.host].paths[o.path] # None THEN st
        ELSE IF "redirect-to" \in DOMAIN ann THEN AddLink(st, o, NoBack)
        ELSE added(addBackend(st, i, link, o.back, ann, o.class))

\* syncIngressHTTP.  o.tls is None or the name of a secret, which may be empty.
syncIngress(st, i, o) ==
    LET classed == IF o.class THEN Track(st, {{ClassRef, IngRef(i)}}) ELSE st
        secured(s) ==
            IF o.tls = None THEN s
            ELSE [Track(s, IF o.tls = "" THEN {} ELSE {{IngRef(i), SecretRef(o.tls)}})
                    EXCEPT !.hosts[o.host].crt = IF @ = <<>> THEN addTLS(o.tls) ELSE @]
    IN  secured(syncPath(addHost(classed, i, o.host, annHost(o.ann)), i, o))

\* sortIngress orders them as Ing does.
syncIngresses(st, names) ==
    FoldLeft(LAMBDA acc, i : IF i \in names /\ world.ings[i] # None
                             THEN syncIngress(acc, i, world.ings[i]) ELSE acc,
             st, SetToSortSeq(Ing, <))

-----------------------------------------------------------------------------
(* updater.go, host.go and backend.go: the annotations.                    *)

\* AcquireAuthBackend: one backend for each list of addresses of a domain.
AcquireAuthBackend(st, key) ==
    IF key \in Range(st.auths) THEN st ELSE [st EXCEPT !.auths = Append(@, key)]

\* The model and the backend of an auth-url, or None.
authTarget(st, url) ==
    LET u == Urls[url.value]
        key == <<u.name, world.dns[u.name]>>
        acquired == AcquireAuthBackend(st, key)
        fail == [st |-> st, target |-> None]
    IN  IF u.proto = "http"
        THEN IF world.dns[u.name] = None THEN fail
             ELSE [st |-> acquired,
                   target |-> <<"_auth", CHOOSE n \in DOMAIN acquired.auths :
                                            acquired.auths[n] = key>>]
        ELSE IF u.proto # "svc" \/ u.port = "" \/ url.source = None THEN fail
        ELSE IF st.backs[<<u.name, u.port>>] = None THEN fail
        ELSE [st |-> st, target |-> <<u.name, u.port>>]

\* Mutation: requests are only denied if the URL cannot be parsed.
setAuthExternalOpen(st, url) ==
    LET found == authTarget(st, url)
        acquired == AcquireAuthBackendName(found.st.binds, found.target)
    IN  IF Urls[url.value].proto = "" THEN [st |-> st, auth |-> Denied]
        ELSE IF ~world.global.lua \/ found.target = None THEN [st |-> st, auth |-> NoAuth]
        ELSE [st |-> [found.st EXCEPT !.binds = acquired.binds],
              auth |-> [deny |-> FALSE, name |-> acquired.name]]

\* setAuthExternal: the model and the AuthExternal of a path.  Requests are
\* denied unless everything the URL needs was found.
setAuthExternal(st, url) ==
    LET bound(s, acquired, full) ==
            [st |-> [s EXCEPT !.binds = acquired.binds, !.purged = @ \/ full],
             auth |-> [deny |-> acquired.name = None, name |-> acquired.name]]
        tried(s, target, first) ==
            IF first.name # None THEN bound(s, first, FALSE)
            ELSE bound(s, AcquireAuthBackendName(
                              RemoveAuthBackendExcept(s.binds, BuildUsedAuthBackends(s)), target), TRUE)
        located(found) ==
            IF found.target = None THEN [st |-> found.st, auth |-> Denied]
            ELSE tried(found.st, found.target, AcquireAuthBackendName(found.st.binds, found.target))
    IN  IF world.global.lua THEN located(authTarget(st, url)) ELSE [st |-> st, auth |-> Denied]

\* buildHostAuthExternal: all the paths of the host have the same auth-url.
buildHostAuthExternal(st, h) ==
    LET ann == st.hostAnn[h]
        put(done, p) == [done.st EXCEPT !.hosts[h].paths[p].ext = done.auth]
        set(acc, p) ==
            IF acc.hosts[h].paths[p] = None THEN acc
            ELSE put(setAuthExternal(acc, Get(ann, "auth-url")), p)
    IN  IF Value(ann, "auth-external-placement") = "frontend" /\ Value(ann, "auth-url") # ""
        THEN FoldLeft(set, st, PathSeq) ELSE st

\* buildHostAuthTLS: the CA of a missing secret is a fake one if strict.
buildHostAuthTLS(st, h) ==
    LET ann == st.hostAnn[h]
        secret == Get(ann, "auth-tls-secret")
        verify == Value(ann, "auth-tls-verify-client")
        ca == IF world.secrets[secret.value] # None
              THEN <<secret.value, world.secrets[secret.value]>>
              ELSE IF ParseBool(Value(ann, "auth-tls-strict")) THEN <<"fake">> ELSE <<>>
    IN  IF secret.source = None \/ secret.value = "" \/ verify = "off" THEN st
        ELSE [Track(st, {{SecretRef(secret.value), HostRef(h)}}) EXCEPT
                !.hosts[h].ca = ca,
                !.hosts[h].verify = IF verify \in {"on", "optional", "optional_no_ca"}
                                    THEN verify
                                    ELSE IF ca # <<>> THEN "on" ELSE ""]

\* FindTargetRedirect and buildHostRedirect
buildHostRedirect(st, h) ==
    LET from == Value(st.hostAnn[h], "redirect-from")
        taken == from # "" /\ \E g \in Host : st.hosts[g] # None /\ st.hosts[g].redirect = from
        empty == \A p \in Path : st.hosts[h].paths[p] = None
    IN  IF taken \/ empty THEN st ELSE [st EXCEPT !.hosts[h].redirect = from]

\* buildHostSSLPassthrough and SetSSLPassthrough
buildHostSSLPassthrough(st, h) ==
    LET ann == st.hostAnn[h]
        root == st.hosts[h].paths["/"]
        port == Get(ann, "ssl-passthrough-http-port")
        http == <<root.back[1], port.value>>
    IN  IF ~ParseBool(Value(ann, "ssl-passthrough")) \/ root = None THEN st
        ELSE [AcquireBackend(st, root.back) EXCEPT
                !.backs[root.back].tcp = TRUE,
                !.hosts[h].pass = TRUE,
                !.hosts[h].httpPass =
                    IF port.source # None /\ st.backs[http] # None THEN http ELSE None]

\* UpdateHostConfig and buildHostTLSConfig
UpdateHostConfig(st, h) ==
    LET ann == st.hostAnn[h]
        ciphers == Get(ann, "ssl-ciphers")
        named == [st EXCEPT
                    !.hosts[h].ciphers = Declared(ciphers, ciphers.value),
                    !.hosts[h].add = ParseBool(Value(ann, "ssl-always-add-https")),
                    !.hosts[h].follow = ParseBool(Value(ann, "ssl-always-follow-redirect"))]
    IN  buildHostSSLPassthrough(
            buildHostRedirect(buildHostAuthTLS(buildHostAuthExternal(named, h), h), h), h)

\* buildBackendAuthExternal
buildBackendAuthExternal(st, b) ==
    LET ann == st.backAnn[b]
        put(done, l) == [done.st EXCEPT !.backs[b].auth[l] = done.auth]
        set(acc, l) ==
            IF l \in acc.backs[b].paths
               /\ ValueOf(ann, l, "auth-external-placement") = "backend"
               /\ ValueOf(ann, l, "auth-url") # ""
            THEN put(setAuthExternal(acc, GetOf(ann, l, "auth-url")), l)
            ELSE acc
    IN  FoldLeft(set, st, LinkSeq)

\* Userlists.Replace and RemoveAll
Replace(st, name, users) == [st EXCEPT !.users[name] = users]
RemoveUserlists(st, names) ==
    [st EXCEPT !.users = [s \in Secret |-> IF s \in names THEN None ELSE @[s]]]

\* buildBackendAuthHTTP: a userlist that exists is not read again.
buildBackendAuthHTTP(st, b) ==
    LET ann == st.backAnn[b]
        set(acc, l) ==
            LET secret == ValueOf(ann, l, "auth-secret")
                found == acc.users[secret]
                users == IF found # None \/ world.secrets[secret] = None THEN found
                         ELSE extractUserlist(world.secrets[secret])
                tracked == Track(acc, {{SecretRef(secret), BackRef(b)}} \cup
                              IF found # None THEN {}
                              ELSE {{SecretRef(secret), UserRef(secret)}})
            IN  IF l \notin acc.backs[b].paths \/ secret = "" THEN acc
                ELSE IF users = None THEN tracked
                ELSE [Replace(tracked, secret, users) EXCEPT !.backs[b].user[l] = secret]
    IN  FoldLeft(set, st, LinkSeq)

OAuthPrefix == "/oauth2"

\* findBackend looks in the hosts in the order of a map: first is its first.
findBackend(st, first) ==
    LET found(h) == /\ st.hosts[h] # None
                    /\ st.hosts[h].paths[OAuthPrefix] # None
                    /\ st.hosts[h].paths[OAuthPrefix].back # NoBack
        hosts == {h \in Host : found(h)}
        h == IF first \in hosts THEN first ELSE CHOOSE x \in hosts : TRUE
    IN  IF hosts = {} THEN None ELSE st.hosts[h].paths[OAuthPrefix].back

\* buildBackendOAuth: auth-url has precedence, on whichever path of the backend.
buildBackendOAuth(st, b, first) ==
    LET ann == st.backAnn[b]
        found == findBackend(st, first)
        auth(l) ==
            LET oauth == GetOf(ann, l, "oauth")
                cur == st.backs[b].auth[l]
            IN  IF l \notin st.backs[b].paths \/ oauth.source = None THEN cur
                ELSE IF oauth.value # "oauth2_proxy" \/ ~world.global.lua
                THEN [cur EXCEPT !.deny = TRUE]
                ELSE IF Value(ann, "auth-url") # "" THEN [cur EXCEPT !.deny = FALSE]
                ELSE IF found = None THEN [cur EXCEPT !.deny = TRUE]
                ELSE [deny |-> FALSE, name |-> <<"oauth", found>>]
    IN  [st EXCEPT !.backs[b].auth = [l \in Link |-> auth(l)]]

\* buildBackendProtocol: the secrets of a server that speaks TLS.
SecureSecrets(st, b) ==
    LET ann == st.backAnn[b]
        proto == protocol(ann, world.global.htx)
    IN  IF proto = None \/ ~proto.secure THEN {}
        ELSE {Value(ann, k) : k \in {"secure-crt-secret", "secure-verify-ca-secret"}} \ {""}

\* host.go: what a path of a backend reads of its host.
UseTLS(host) == host.crt # <<>> \/ (host.add /\ host.follow)

PathConf(st, b, l) ==
    LET ann == st.backAnn[b]
        tcp == st.backs[b].tcp
        useTLS == UseTLS(st.hosts[l[1]])
    IN  [redirect |-> buildBackendSSLRedirect(ann, l, useTLS, world.global.noRedirect),
         access |-> buildBackendWhitelistHTTP(ann, l, tcp),
         cors |-> buildBackendCors(ann, l), hsts |-> buildBackendHSTS(ann, l),
         rewrite |-> buildBackendRewriteURL(ann, l), size |-> buildBackendBodySize(ann, l),
         waf |-> buildBackendWAF(ann, l)]

\* UpdateBackendConfig
UpdateBackendConfig(st, b, first) ==
    LET ann == st.backAnn[b]
        secrets == SecureSecrets(st, b)
        authed == buildBackendOAuth(
                     buildBackendAuthHTTP(buildBackendAuthExternal(st, b), b), b, first)
    IN  [Track(authed, {{SecretRef(s), BackRef(b)} : s \in secrets}) EXCEPT
           !.backs[b].conf =
               [balance |-> Value(ann, "balance-algorithm"),
                cookie |-> buildBackendAffinity(ann),
                custom |-> buildBackendCustomConfig(ann, Snippets, DisableKeywords),
                resolver |-> buildBackendDNS(ann, world.global.resolvers),
                timeout |-> buildBackendTimeout(ann),
                proto |-> protocol(ann, world.global.htx), names |-> secureNames(ann),
                dynamic |-> buildBackendDynamic(ann), agent |-> buildBackendAgentCheck(ann),
                health |-> buildBackendHealthCheck(ann), limit |-> buildBackendLimit(ann),
                headers |-> buildBackendHeaders(ann, b), ssl |-> buildBackendSSL(ann),
                proxy |-> buildBackendProxyProtocol(ann),
                addrs |-> buildBackendSourceAddressIntf(ann),
                selector |-> buildBackendBlueGreenSelector(ann),
                secure |-> {<<s, world.secrets[s]>> : s \in secrets},
                access |-> buildBackendWhitelistTCP(ann, st.backs[b].tcp),
                paths |-> [l \in st.backs[b].paths |-> PathConf(st, b, l)]]]

-----------------------------------------------------------------------------
(* The syncs, and the changes between them.                                *)

NoBatch == [full |-> FALSE, add |-> {}, upd |-> {}, del |-> {}, refs |-> {}]

RECURSIVE Linked(_, _)
Linked(links, refs) ==
    LET more == refs \cup UNION {l \in links : l \cap refs # {}}
    IN  IF more = refs THEN refs ELSE Linked(links, more)

\* Mutation: only the hosts of a new ingress are tracked before the query.
trackAddedHosts(st) ==
    Track(st, {{IngRef(i), HostRef(world.ings[i].host)} : i \in batch.add \cup batch.upd})

\* trackAddedIngress
trackAddedIngress(st) ==
    LET found == {i \in batch.add \cup batch.upd :
                     HasPort(world.ings[i].back) /\ st.backs[world.ings[i].back] # None}
    IN  Track(st, {{IngRef(i), HostRef(world.ings[i].host)} : i \in batch.add \cup batch.upd}
                  \cup {{IngRef(i), BackRef(world.ings[i].back)} : i \in found})

\* The removal of what is linked to a change: RemoveAll of hosts, backends and
\* userlists.
Cleaned(st, dirty) ==
    [RemoveUserlists(st, {s \in Secret : UserRef(s) \in dirty}) EXCEPT
       !.hosts = [h \in Host |-> IF HostRef(h) \in dirty THEN None ELSE @[h]],
       !.binds = RemoveAuthBackendByTarget(@, {b \in Back : BackRef(b) \in dirty}),
       !.backs = [b \in Back |-> IF BackRef(b) \in dirty THEN None ELSE @[b]],
       !.links = {l \in @ : l \cap dirty = {}}]

\* syncFull and syncPartial up to the annotations.
syncFull == syncIngresses(Empty, Ing)

syncPartial ==
    LET rebuilt(st, dirty) ==
            syncIngresses(Cleaned(st, dirty), ({i \in Ing : IngRef(i) \in dirty} \ batch.del) \cup batch.add)
        tracked == trackAddedIngress(model)
    IN  rebuilt(tracked, Linked(tracked.links, batch.refs))

\* The objects whose annotations are applied.
HostsToDo(st) == {h \in st.hostsAdd : st.hostAnn[h] # None}
BacksToDo(st) == {b \in st.backsAdd : st.backAnn[b] # None}

Forget(st) == [st EXCEPT !.hostAnn = Empty.hostAnn, !.backAnn = Empty.backAnn,
                         !.hostsAdd = {}, !.backsAdd = {}]

\* The next object to update: the hosts, then the backends, then the end.
Continue(st, phase, left) ==
    LET backs == BacksToDo(st)
        end == phase = "backs" \/ backs = {}
    IN  IF left # {} THEN /\ pc' = phase /\ todo' = left /\ model' = st
        ELSE IF end THEN /\ pc' = "idle" /\ todo' = {} /\ model' = Forget(st)
        ELSE /\ pc' = "backs" /\ todo' = backs /\ model' = st

Begin(st) == Continue(st, "hosts", HostsToDo(st))

Sync ==
    /\ pc = "idle" /\ batch # NoBatch
    /\ Begin(IF batch.full THEN syncFull ELSE syncPartial)
    /\ batch' = NoBatch
    /\ UNCHANGED <<scenario, world, changes>>

UpdateHost(h) ==
    /\ pc = "hosts" /\ h \in todo
    /\ Continue(UpdateHostConfig(model, h), "hosts", todo \ {h})
    /\ UNCHANGED <<scenario, world, batch, changes>>

UpdateBackend(b, first) ==
    /\ pc = "backs" /\ b \in todo
    /\ Continue(UpdateBackendConfig(model, b, first), "backs", todo \ {b})
    /\ UNCHANGED <<scenario, world, batch, changes>>

Change ==
    /\ pc = "idle" /\ changes < MaxChanges
    /\ changes' = changes + 1
    /\ UNCHANGED <<scenario, model, pc, todo>>

\* An ingress changes once in a batch; Reconcile has the other batches.
ChangeIngress(i, ing) ==
    /\ Change
    /\ i \notin batch.add \cup batch.upd \cup batch.del
    /\ world.ings[i] # ing
    /\ world' = [world EXCEPT !.ings[i] = ing]
    /\ batch' = [batch EXCEPT !.refs = @ \cup {IngRef(i)},
                   !.add = IF world.ings[i] = None THEN @ \cup {i} ELSE @,
                   !.del = IF ing = None THEN @ \cup {i} ELSE @,
                   !.upd = IF world.ings[i] # None /\ ing # None THEN @ \cup {i} ELSE @]

ChangeService(s, svc) ==
    /\ Change
    /\ world.svcs[s] # svc
    /\ world' = [world EXCEPT !.svcs[s] = svc]
    /\ batch' = [batch EXCEPT !.refs = @ \cup {SvcRef(s)}]

ChangeSecret(s, content) ==
    /\ Change
    /\ world.secrets[s] # content
    /\ world' = [world EXCEPT !.secrets[s] = content]
    /\ batch' = [batch EXCEPT !.refs = @ \cup {SecretRef(s)}]

ChangeParams(params) ==
    /\ Change
    /\ world.params # params
    /\ world' = [world EXCEPT !.params = params]
    /\ batch' = [batch EXCEPT !.refs = @ \cup {ParamsRef}]

ChangeGlobal(global) ==
    /\ Change
    /\ world.global # global
    /\ world' = [world EXCEPT !.global = global]
    /\ batch' = [batch EXCEPT !.full = TRUE]

\* A scenario is the sets the resources take their values from, the first full
\* sync finds any of them.
Init ==
    /\ scenario \in Scenario
    /\ world \in [ings : scenario.ings, svcs : scenario.svcs, secrets : scenario.secrets,
                  params : scenario.params, global : scenario.global, dns : scenario.dns]
    /\ batch = [NoBatch EXCEPT !.full = TRUE]
    /\ model = Empty
    /\ pc = "idle" /\ todo = {} /\ changes = 0

Next ==
    \/ Sync
    \/ \E h \in Host : UpdateHost(h)
    \/ \E b \in Back, first \in Host : UpdateBackend(b, first)
    \/ \E i \in Ing, ings \in scenario.ings : ChangeIngress(i, ings[i])
    \/ \E s \in Svc, svcs \in scenario.svcs : ChangeService(s, svcs[s])
    \/ \E s \in Secret, secrets \in scenario.secrets : ChangeSecret(s, secrets[s])
    \/ \E params \in scenario.params : ChangeParams(params)
    \/ \E global \in scenario.global : ChangeGlobal(global)

Spec == Init /\ [][Next]_vars

-----------------------------------------------------------------------------
Quiet == pc = "idle" /\ batch = NoBatch

\* What a full sync makes of the current resources.
Full ==
    LET hosts(parsed) == FoldLeft(LAMBDA st, h : IF h \in HostsToDo(parsed)
                                                 THEN UpdateHostConfig(st, h) ELSE st,
                                  parsed, HostSeq)
        backs(parsed) == FoldLeft(LAMBDA st, b : IF b \in BacksToDo(parsed)
                                                 THEN UpdateBackendConfig(st, b, HostSeq[1]) ELSE st,
                                  parsed, BackSeq)
    IN  backs(hosts(syncFull))

\* The facts that partial syncs keep up to date.  redirect-from goes to the
\* first host that asks for it, and auth has properties of its own.
HostFacts(host) ==
    IF host = None THEN None
    ELSE [host EXCEPT !.redirect = "",
                      !.paths = [p \in Path |-> IF @[p] = None THEN None ELSE @[p].back]]

BackFacts(back) ==
    IF back = None THEN None ELSE [back EXCEPT !.auth = None]

\* The variables keep their types: the model only refers to hosts, paths and
\* backends that exist, and the links are pairs.
TypeOK ==
    /\ pc \in {"idle", "hosts", "backs"} /\ changes \in 0..MaxChanges
    /\ \A h \in Host, p \in Path : model.hosts[h] # None /\ model.hosts[h].paths[p] # None
          => LET b == model.hosts[h].paths[p].back
             IN  b = NoBack \/ (model.backs[b] # None /\ <<h, p>> \in model.backs[b].paths)
    /\ \A b \in Back : model.backs[b] # None =>
          \A l \in model.backs[b].paths :
             model.hosts[l[1]] # None /\ model.hosts[l[1]].paths[l[2]].back = b
    /\ \A l \in model.links : Cardinality(l) = 2
    /\ \A l \in Link, b \in Back :
          model.backs[b] # None /\ model.backs[b].user[l] # None
          => model.users[model.backs[b].user[l]] # None

\* When nothing is left to do, the hosts, backends and userlists are those a
\* full sync would make of the current resources, whichever partial syncs led
\* here and whatever the order their hosts and backends were updated in.
Converged ==
    LET AsIn(full) == /\ \A h \in Host : HostFacts(model.hosts[h]) = HostFacts(full.hosts[h])
                      /\ \A b \in Back : BackFacts(model.backs[b]) = BackFacts(full.backs[b])
                      /\ model.users = full.users
    IN  Quiet => AsIn(Full)

\* The target a name is bound to: a domain with its addresses or a service.
Bound(name) ==
    LET binds == {n \in DOMAIN model.binds : AuthName(model.binds[n].port) = name}
        target == model.binds[CHOOSE n \in binds : TRUE].target
    IN  IF binds = {} THEN <<>>
        ELSE IF target[1] = "_auth" THEN model.auths[target[2]] ELSE target

Wanted(url) ==
    LET u == Urls[url] IN IF u.proto = "http" THEN <<u.name, world.dns[u.name]>>
                          ELSE <<u.name, u.port>>

\* What the resources, parsed, say about the authentication of a path: from its
\* ingress, as the changes of a service that only another service names are not
\* tracked.
Asked(parsed, l, key) == GetOf(parsed.backAnn[model.hosts[l[1]].paths[l[2]].back], l, key)

Routed == {l \in Link : /\ model.hosts[l[1]] # None
                        /\ model.hosts[l[1]].paths[l[2]] # None
                        /\ model.hosts[l[1]].paths[l[2]].back # NoBack}

\* setAuthExternal: "auth backend should be configured or requests should be
\* denied".  When nothing is left to do a path whose ingress has an auth-url is
\* denied, or asks the very service or address the URL names: after any number
\* of partial syncs, of ports that were released and acquired again, and of
\* services that came and went.
BackendGuarded(parsed) ==
    \A l \in Routed :
       LET url == Asked(parsed, l, "auth-url")
           auth == model.backs[model.hosts[l[1]].paths[l[2]].back].auth[l]
       IN  /\ url.source # None /\ url.source[1] = "Ingress" /\ url.value # ""
           /\ Asked(parsed, l, "auth-external-placement").value = "backend"
           /\ Asked(parsed, l, "oauth").source = None
           => auth.deny \/ Bound(auth.name) = Wanted(url.value)

\* The same for the paths that are authenticated in the frontend, as long as
\* the pool of ports did not have to be purged.
FrontendGuarded(parsed) ==
    ~model.purged => \A l \in Routed :
       LET ann == parsed.hostAnn[l[1]]
           url == Value(ann, "auth-url")
           ext == model.hosts[l[1]].paths[l[2]].ext
       IN  Value(ann, "auth-external-placement") = "frontend" /\ url # ""
           => ext.deny \/ Bound(ext.name) = Wanted(url)

\* buildBackendOAuth: when nothing is left to do a path that asks for oauth is
\* denied or has some authentication.
OAuthGuarded(parsed) ==
    \A l \in Routed :
       LET b == model.hosts[l[1]].paths[l[2]].back
           auth == model.backs[b].auth[l]
       IN  /\ Asked(parsed, l, "oauth").source # None
           /\ \A x \in model.backs[b].paths : Asked(parsed, x, "auth-url").value = ""
           => auth.deny \/ auth.name # None

\* No path that asks for an external authentication, in its backend, in the
\* frontend or by oauth, is ever left open.
AuthGuarded ==
    LET Guarded(parsed) == BackendGuarded(parsed) /\ FrontendGuarded(parsed) /\ OAuthGuarded(parsed)
    IN  Quiet => Guarded(syncFull)

\* The oldest ingress that declares a path and could be read owns it.
Owner(l) ==
    LET owners == {i \in Ing : /\ world.ings[i] # None
                               /\ <<world.ings[i].host, world.ings[i].path>> = l
                               /\ "redirect-to" \in DOMAIN world.ings[i].ann
                                  \/ HasPort(world.ings[i].back)}
    IN  CHOOSE i \in owners : \A j \in owners : i <= j

\* The valid values of a key for an ingress, the one with precedence first:
\* its service, the ingress, the parameters of its class, and the global one.
Candidates(i, key) ==
    LET ing == world.ings[i]
        sources == <<world.svcs[ing.back[1]].ann, annBack(ing.ann),
                     IF ing.class THEN world.params ELSE <<>>>>
        has == SelectSeq(sources, LAMBDA ann : key \in DOMAIN ann
                                               /\ validators(key, ann[key]) # None)
    IN  [n \in DOMAIN has |-> validators(key, has[n][key])]

OwnersOf(b) == SelectSeq(SetToSortSeq(Ing, <), LAMBDA i :
                  \E l \in model.backs[b].paths : Owner(l) = i)

Chosen(values, key) ==
    IF values # <<>> THEN values[1]
    ELSE IF key \in DOMAIN world.global.defaults THEN world.global.defaults[key] ELSE ""

\* addAnnotation: when nothing is left to do, a key of a path has the value its
\* service gives it, else its ingress, else the class of the ingress, else the
\* global configuration, skipping the invalid ones; a key of a backend has the
\* one of the oldest ingress that has any.
Precedence ==
    Quiet => \A l \in Routed :
       LET b == model.hosts[l[1]].paths[l[2]].back
           conf == model.backs[b].conf
           all == FlattenSeq([n \in DOMAIN OwnersOf(b) |->
                                Candidates(OwnersOf(b)[n], "balance-algorithm")])
       IN  /\ conf.paths[l].hsts = ParseBool(Chosen(Candidates(Owner(l), "hsts"), "hsts"))
           /\ conf.balance = Chosen(all, "balance-algorithm")

\* AcquireAuthBackendName: a port of the auth proxy is in its range and has one
\* target, and a target has one port.
PoolSound ==
    /\ \A n \in DOMAIN model.binds :
          model.binds[n].port >= 1 /\ (model.binds[n].port <= world.global.ports \/ batch.full)
    /\ \A m, n \in DOMAIN model.binds : m < n =>
          /\ model.binds[m].port < model.binds[n].port
          /\ model.binds[m].target # model.binds[n].target

=============================================================================
