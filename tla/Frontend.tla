------------------------------ MODULE Frontend ------------------------------
(***************************************************************************)
(* From the paths of the ingress resources to the maps of the frontend and *)
(* of the backends: the paths syncIngressHTTP adds to hosts and backends,  *)
(* SyncConfig, WriteFrontendMaps and WriteBackendMaps of                   *)
(* pkg/haproxy/config.go, and the configuration a backend applies to each  *)
(* of its paths.  One full synchronisation after the other; what a partial *)
(* one leaves in place is in Reconcile.                                    *)
(***************************************************************************)
EXTENDS HostMaps

CONSTANTS
    Inputs,      \* the resources: declared paths and options
    Requests,
    Wildcards,   \* the hostnames that start with "*."
    maxTokensPerLine

DefaultHost == 0
DefaultBackend == "default"
Redirect == "redirect"   \* the backend of a path with redirect-to

ASSUME FrontendAssumption ==
    /\ maxTokensPerLine \in Nat \ {0}
    /\ \A in \in Inputs : \A d \in Range(in.decls) : d.path[1] = Slash /\ d.match \in MatchTypes

VARIABLES
    in, todo,       \* the resources, and the paths that were read
    hosts,          \* of each hostname, its paths in order
    paths,          \* of each backend, its paths
    maps, pathMaps, \* the files of the frontend, and of each backend
    pc

vars == <<in, todo, hosts, paths, maps, pathMaps, pc>>

\* A path link: Equals compares all of it.
LinkOf(d) == [host |-> d.host, path |-> d.path, match |-> d.match, headers |-> d.headers]
Hostnames(i) == {d.host : d \in Range(i.decls)}
BackendNames(i) == {d.backend : d \in Range(i.decls)} \cup {DefaultBackend}

Empty(i) ==
    /\ in = i /\ todo = 1
    /\ hosts = [h \in Hostnames(i) |-> <<>>]
    /\ paths = [b \in BackendNames(i) |-> <<>>]
    /\ maps = <<>> /\ pathMaps = <<>>
    /\ pc = "parse"

Init == \E i \in Inputs : Empty(i)

-----------------------------------------------------------------------------
(* Hosts and backends.                                                     *)

\* AddBackendPath: identifiers are given in the order of arrival.
AddBackendPath(ps, link, config) ==
    IF \E p \in Range(ps) : p.link = link THEN ps
    ELSE Append(ps, [link |-> link, id |-> Len(ps) + 1, config |-> config])

\* addLink: paths are in reverse order, then in the order of arrival.
addLink(ps, link, backend) ==
    Sorted(Append(ps, [link |-> link, order |-> Len(ps), backend |-> backend]),
           LAMBDA p, q : IF p.link.path = q.link.path THEN p.order < q.order
                         ELSE Before(q.link.path, p.link.path))

FindPath(ps, path, match) ==
    SelectSeq(ps, LAMBDA p : p.link.path = path /\ p.link.headers = NoFilter /\ p.link.match \in match)

\* One path of an ingress resource: redeclared paths are skipped, a redirect
\* has no backend and loses its header filter.
syncIngressHTTP ==
    LET d == in.decls[todo]
        link == LinkOf(d)
        skip == IF d.host \in in.passthrough /\ d.path = <<Slash>>
                THEN FindPath(hosts[d.host], d.path, MatchTypes) # <<>>
                ELSE \E p \in Range(hosts[d.host]) : p.link = link
        redirect == d.backend = Redirect
    IN  /\ pc = "parse" /\ todo <= Len(in.decls)
        /\ todo' = todo + 1
        /\ hosts' = IF skip THEN hosts
                    ELSE [hosts EXCEPT ![d.host] =
                             addLink(@, IF redirect THEN [link EXCEPT !.headers = NoFilter] ELSE link, d.backend)]
        /\ paths' = IF skip \/ redirect THEN paths
                    ELSE [paths EXCEPT ![d.backend] = AddBackendPath(@, link, d.config)]
        /\ UNCHANGED <<in, maps, pathMaps, pc>>

\* SyncConfig: under strict-host a host without a root path has the one of the
\* default host, or the default backend.
SyncConfig ==
    /\ pc = "parse" /\ todo > Len(in.decls)
    /\ LET added == {h \in DOMAIN hosts \ in.passthrough :
                        in.strict /\ FindPath(hosts[h], <<Slash>>, {"begin"}) = <<>>}
           root == IF DefaultHost \notin DOMAIN hosts THEN <<>>
                   ELSE FindPath(hosts[DefaultHost], <<Slash>>, MatchTypes)
           back == IF root = <<>> \/ root[1].backend = Redirect THEN DefaultBackend ELSE root[1].backend
           link(h) == [host |-> h, path |-> <<Slash>>, match |-> "begin", headers |-> NoFilter]
       IN  /\ hosts' = [h \in DOMAIN hosts |->
                           IF h \in added THEN addLink(hosts[h], link(h), back) ELSE hosts[h]]
           /\ paths' = [paths EXCEPT ![back] =
                           FoldLeft(LAMBDA ps, h : AddBackendPath(ps, link(h), "none"), @, SetToSeq(added))]
    /\ pc' = "frontend"
    /\ UNCHANGED <<in, todo, maps, pathMaps>>

-----------------------------------------------------------------------------
(* Maps.                                                                   *)

\* The entries of the paths of hs, by hostname, and those of their aliases.
\* Value is <<>> for a path that has none in the map.
Entries(hs, Value(_, _), aliases) ==
    LET names == SetToSortSeq(hs, LAMBDA h, g : h < g)
        one(h, p) ==
            LET own == AddHostnamePathMapping(h, h \in Wildcards, p.link, p.order, Value(h, p)[1])
                alias == [own EXCEPT !.hostname = in.alias[h]]
            IN  IF Value(h, p) = <<>> THEN <<>>
                ELSE IF aliases /\ h \in DOMAIN in.alias THEN <<own, alias>> ELSE <<own>>
    IN  FlattenSeq([k \in DOMAIN names |->
            FlattenSeq([j \in DOMAIN hosts[names[k]] |-> one(names[k], hosts[names[k]][j])])])

FrontHosts == DOMAIN hosts \ {DefaultHost}

\* A request over plain HTTP to the root of a passthrough host is redirected.
HTTPValue(h, p) ==
    IF p.backend = Redirect THEN <<>>
    ELSE IF h \in in.passthrough /\ p.link.path = <<Slash>> THEN <<"_redirect_https">> ELSE <<p.backend>>

HTTPSValue(h, p) ==
    IF p.backend = Redirect \/ h \in in.passthrough \cup in.notls THEN <<>> ELSE <<p.backend>>

RedirValue(h, p) == IF p.backend = Redirect THEN <<"to">> ELSE <<>>

\* Mutation: paths of hosts without the option are left out.
NamespaceValueOnly(h, p) ==
    IF h \notin in.varNamespace THEN <<>> ELSE <<p.backend>>

\* The namespace of a path; its backend stands for it.
NamespaceValue(h, p) ==
    IF in.varNamespace = {} THEN <<>> ELSE IF h \in in.varNamespace THEN <<p.backend>> ELSE <<"-">>

DefaultValue(h, p) == <<p.backend>>

\* The orders the hostnames of a map can be visited in.
Visits == SetToSeqs(DOMAIN hosts \cup {in.alias[h] : h \in DOMAIN in.alias})

WriteFrontendMaps(http, other) ==
    LET Files(E, visit) == MatchFiles(E, visit, in.matchOrder)
    IN  /\ pc = "frontend"
        /\ maps' = [http |-> Files(Entries(FrontHosts, HTTPValue, TRUE), http),
                    https |-> Files(Entries(FrontHosts, HTTPSValue, TRUE), other),
                    redirTo |-> Files(Entries(FrontHosts, RedirValue, TRUE), other),
                    namespace |-> Files(Entries(FrontHosts, NamespaceValue, FALSE), other),
                    default |-> Files(Entries({DefaultHost} \cap (DOMAIN hosts \ in.passthrough),
                                              DefaultValue, FALSE), http)]
        /\ pc' = "backend"
        /\ UNCHANGED <<in, todo, hosts, paths, pathMaps>>

\* createPathConfig: the paths of a backend by their configuration.
Configs(b) == {p.config : p \in Range(paths[b])}
NeedACL(b) == Cardinality(Configs(b)) > 1

\* WriteBackendMaps: the identifiers of the paths of the backend.
WriteBackendMaps(visit) ==
    LET Map(b, hs) ==
            LET Id(h, p) == LET P == {q \in Range(paths[b]) : q.link = p.link}
                            IN  IF P = {} THEN <<>> ELSE <<(CHOOSE q \in P : TRUE).id>>
            IN  MatchFiles(Entries(hs, Id, FALSE), visit, in.matchOrder)
    IN  /\ pc = "backend"
        /\ pathMaps' = [b \in {c \in DOMAIN paths : NeedACL(c)} |->
                           [host |-> Map(b, FrontHosts), default |-> Map(b, {DefaultHost} \cap DOMAIN hosts)]]
        /\ pc' = "written"
        /\ UNCHANGED <<in, todo, hosts, paths, maps>>

\* Clear, and the resources are read again.
Clear ==
    /\ pc = "written"
    /\ todo' = 1 /\ pc' = "parse"
    /\ hosts' = [h \in DOMAIN hosts |-> <<>>]
    /\ paths' = [b \in DOMAIN paths |-> <<>>]
    /\ maps' = <<>> /\ pathMaps' = <<>>
    /\ UNCHANGED in

Next ==
    \/ syncIngressHTTP
    \/ SyncConfig
    \/ \E v, w \in Visits : WriteFrontendMaps(v, w)
    \/ \E v \in Visits : WriteBackendMaps(v)
    \/ Clear

Spec == Init /\ [][Next]_vars

-----------------------------------------------------------------------------
(* Requests.                                                               *)

\* PathIDs: the identifiers of the paths with a configuration, in lines.
PathIDs(b, config) ==
    LET ids == SetToSortSeq({p.id : p \in {q \in Range(paths[b]) : q.config = config}}, <)
        upper(k) == IF k * maxTokensPerLine > Len(ids) THEN Len(ids) ELSE k * maxTokensPerLine
    IN  [k \in 1..((Len(ids) - 1) \div maxTokensPerLine + 1) |->
            SubSeq(ids, (k - 1) * maxTokensPerLine + 1, upper(k))]

\* What the template of a backend applies to a request.
Applied(b, req) ==
    IF ~NeedACL(b) THEN Configs(b)
    ELSE LET r == Lookup(pathMaps[b].host, req)
         IN  {c \in Configs(b) : \E line \in Range(PathIDs(b, c)) : r # None /\ r.value \in Range(line)}

Redirected(req) == Lookup(maps.redirTo, req) # None
Candidates(req) ==
    {e \in UNION {Range(maps.http[k].entries) : k \in DOMAIN maps.http} : Matches(e, req)}
Alias(e) == e.hostname # e.link.host

\* The kinds of filtered paths a request matches.  Files with filters are in the
\* order their first entry was met, whatever the paths of the others.
FilterKinds(req) == {<<e.headers, e.match>> : e \in {c \in Candidates(req) : hasFilter(c)}}

-----------------------------------------------------------------------------
(* Properties.                                                             *)

TypeOK ==
    /\ in \in Inputs /\ todo \in 1..(Len(in.decls) + 1)
    /\ pc \in {"parse", "frontend", "backend", "written"}
    /\ \A h \in DOMAIN hosts : \A p \in Range(hosts[h]) :
          /\ p.link.host = h /\ p.order \in 0..(Len(hosts[h]) - 1)
          /\ p.backend \in DOMAIN paths
    /\ \A b \in DOMAIN paths : {p.id : p \in Range(paths[b])} = 1..Len(paths[b])

\* An exact path is chosen before any other; of the begin and prefix paths that
\* match a request the longest is, whatever its type; a wildcard hostname and a
\* regex come last.  Entries with a filter come before those without; of those
\* the longest is chosen too if they have the same filter and type.
LongestFirst ==
    pc \in {"backend", "written"} =>
        \A req \in Requests :
            LET C == Candidates(req)
                plain == {e \in C : e.match # "regex" /\ ~hasFilter(e)}
                r == Lookup(maps.http, req)
            IN  /\ C # {} => r \in C
                /\ FilterKinds(req) # {} => hasFilter(r)
                /\ Cardinality(FilterKinds(req)) = 1 =>
                      \A e \in C : hasFilter(e) => Len(e.path) <= Len(r.path)
                /\ plain # {} /\ FilterKinds(req) = {} =>
                      /\ r \in plain
                      /\ (\E e \in plain : e.match = "exact") => r.match = "exact"
                      /\ r.match # "exact" => \A e \in plain : Len(e.path) <= Len(r.path)

\* The lookups a request goes through agree: in the namespace map, in the map of
\* HTTPS, and in the maps of the backend it is sent to, it is the same path, so
\* that it has the namespace and the configuration of its own path.  Not so for
\* aliases, which the maps of backends do not have, nor where a host declares
\* a path with two types, or a request matches filters of several kinds.
LookupsAgree ==
    LET twins(h) == \E p, q \in Range(hosts[h]) : p.link.path = q.link.path /\ p.link.match # q.link.match
        Agree(req, r) ==
            r # None /\ ~Redirected(req) /\ ~Alias(r)
            /\ r.link.host \notin in.passthrough /\ Cardinality(FilterKinds(req)) <= 1 =>
                /\ in.varNamespace # {} =>
                      Lookup(maps.namespace, req).value = IF r.link.host \in in.varNamespace THEN r.value ELSE "-"
                /\ r.link.host \notin in.notls => Lookup(maps.https, req) = r
                /\ ~twins(r.link.host) =>
                      Applied(r.value, req) = {p.config : p \in {q \in Range(paths[r.value]) : q.link = r.link}}
    IN  pc = "written" => \A req \in Requests : Agree(req, Lookup(maps.http, req))

\* Under strict-host a request to a declared host is never sent to the paths of
\* a wildcard host.
StrictHost ==
    pc \in {"backend", "written"} /\ in.strict =>
        \A req \in Requests :
            req.host \in FrontHosts \ in.passthrough /\ req.headers = {} =>
                LET r == Lookup(maps.http, req)
                IN  Redirected(req) \/ (r # None /\ r.hostname = req.host)

\* A request that the frontend routes goes to the path the documentation promises:
\* LongestFirst, and under strict-host never out of its own host.
RightPath == LongestFirst /\ StrictHost
=============================================================================
