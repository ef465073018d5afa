--------------------------- MODULE GlobalConfig ---------------------------
(***************************************************************************)
(* UpdateGlobalConfig, of annotations/updater.go, and the builders of      *)
(* annotations/global.go: what the keys of the global ConfigMap make of    *)
(* the global configuration.  A builder that does not like its keys leaves *)
(* the configuration as it is, so what was there before matters.           *)
(*                                                                         *)
(* A ConfigMap is a function from the keys it declares to their values.  A *)
(* value is what the code parses from the text: Malformed if it does not   *)
(* parse.  A time is a record: whether HAProxy accepts its text, and the   *)
(* milliseconds that time.ParseDuration reads.                             *)
(***************************************************************************)
EXTENDS Integers, Sequences, FiniteSets, Functions, TLC

CONSTANTS Malformed, TrackInstances

NoTime == [haproxy |-> FALSE, ms |-> Malformed]
NoFile == [file |-> <<>>, hash |-> <<>>]
Time(ms) == [haproxy |-> TRUE, ms |-> ms]

\* createDefaults, of the keys that the builders of this module read.
createDefaults ==
    "acme-expiring" :> 30
    @@ "auth-proxy" :> [name |-> "_front__auth__local", first |-> 14415, last |-> 14499]
    @@ "cookie-key" :> "Ingress" @@ "drain-support-redispatch" :> "true" @@ "max-connections" :> "2000"
    @@ "master-exit-on-failure" :> "true" @@ "use-htx" :> "true"
    @@ "no-redirect-locations" :> "/.well-known/acme-challenge"
    @@ "default-backend-redirect-code" :> "302"
    @@ "redirect-from-code" :> "302" @@ "redirect-to-code" :> "302"
    @@ "dns-accepted-payload-size" :> 8192 @@ "dns-cluster-domain" :> "cluster.local"
    @@ "dns-hold-obsolete" :> Time(0) @@ "dns-hold-valid" :> Time(1000) @@ "dns-timeout-retry" :> Time(1000)
    @@ "forwardfor" :> "add" @@ "original-forwarded-for-hdr" :> "X-Original-Forwarded-For"
    @@ "real-ip-hdr" :> "X-Real-IP" @@ "use-forwarded-proto" :> TRUE
    @@ "healthz-port" :> "10253" @@ "stats-port" :> "1936" @@ "http-port" :> 80 @@ "https-port" :> 443
    @@ "modsecurity-args" :> "unique-id method path"
    @@ "modsecurity-timeout-connect" :> Time(5000) @@ "modsecurity-timeout-hello" :> Time(100)
    @@ "modsecurity-timeout-idle" :> Time(30000) @@ "modsecurity-timeout-processing" :> Time(1000)
    @@ "modsecurity-timeout-server" :> Time(5000)
    @@ "nbproc-balance" :> 1 @@ "use-cpu-map" :> TRUE
    @@ "path-type-order" :> <<"exact", "prefix", "begin", "regex">>
    @@ "ssl-ciphers" :> "ciphers" @@ "ssl-cipher-suites" :> "suites" @@ "ssl-ciphers-backend" :> "ciphers"
    @@ "ssl-cipher-suites-backend" :> "suites" @@ "ssl-dh-default-max-size" :> "2048"
    @@ "ssl-headers-prefix" :> "X-SSL" @@ "ssl-options" :> "options" @@ "ssl-redirect" :> "true"
    @@ "tls-alpn" :> "h2,http/1.1"
    @@ "syslog-format" :> "rfc5424" @@ "syslog-length" :> "1024" @@ "syslog-tag" :> "ingress"
    @@ "timeout-client" :> Time(50000) @@ "timeout-client-fin" :> Time(50000)
    @@ "timeout-connect" :> Time(5000) @@ "timeout-http-request" :> Time(5000)
    @@ "timeout-keep-alive" :> Time(60000) @@ "timeout-queue" :> Time(5000)
    @@ "timeout-server" :> Time(50000) @@ "timeout-server-fin" :> Time(50000)
    @@ "timeout-tunnel" :> Time(3600000) @@ "timeout-stop" :> Time(600000)

\* What the builders read: the ConfigMap, and the defaults of what it does not declare.
Merged(conf) == conf @@ createDefaults

Value(conf, key, absent) == IF key \in DOMAIN conf THEN conf[key] ELSE absent

Parsed(v, zero) == IF v = Malformed THEN zero ELSE v
Str(conf, key) == Value(conf, key, "")
IntOf(conf, key) == Parsed(Value(conf, key, 0), 0)
Bool(conf, key) == Parsed(Value(conf, key, FALSE), FALSE)
Lines(conf, key) == Value(conf, key, <<>>)
validateTime(conf, key) ==
    LET v == Value(conf, key, NoTime) IN IF v.haproxy THEN v ELSE NoTime

\* The keys it is called with have no default.
validateAllowDeny(conf, key) == key \in DOMAIN conf /\ conf[key] = "allow"

Copy(conf, keys) == [k \in keys |-> Parsed(Str(conf, k), "")]

Zero == [acme |-> [enabled |-> FALSE],
         authproxy |-> [name |-> "", first |-> 0, last |-> 0],
         bind |-> <<>>, fronting |-> <<>>, closeSessions |-> 0, statsTimeout |-> NoTime,
         order |-> <<>>, procs |-> <<>>, stats |-> <<>>, statsTLS |-> NoFile, dh |-> <<>>,
         syslog |-> <<>>, timeout |-> <<>>, timeoutStop |-> 0, security |-> <<"", "">>, chroot |-> FALSE, ssl |-> <<>>,
         modsec |-> <<>>, resolvers |-> <<>>, domain |-> "", forward |-> <<>>,
         misc |-> <<>>, custom |-> <<>>, late |-> <<>>, proxy |-> {}, lua |-> <<>>, ha |-> <<>>]

-----------------------------------------------------------------------------
buildGlobalAcme(g, conf) ==
    IF Str(conf, "acme-endpoint") # "" /\ Str(conf, "acme-emails") # "" /\ Bool(conf, "acme-terms-agreed")
    THEN [g EXCEPT !.acme = [enabled |-> TRUE, endpoint |-> Str(conf, "acme-endpoint"),
                             emails |-> Str(conf, "acme-emails"),
                             hours |-> 24 * IntOf(conf, "acme-expiring"),
                             shared |-> Bool(conf, "acme-shared")]]
    ELSE g

\* An empty range makes every later AcquireAuthBackendName fail.
buildGlobalAuthProxy(g, conf) ==
    LET v == Value(conf, "auth-proxy", Malformed)
    IN  [g EXCEPT !.authproxy = IF v = Malformed THEN [@ EXCEPT !.first = 0, !.last = -1] ELSE v]

buildGlobalBind(g, conf) ==
    LET bind(key, port) == IF Str(conf, key) # "" THEN <<Str(conf, key)>>
                           ELSE <<Str(conf, "bind-ip-addr-http"), IntOf(conf, port)>>
    IN  [g EXCEPT !.bind = <<Bool(conf, "use-proxy-protocol"), Str(conf, "bind-ip-addr-tcp"),
                             bind("bind-http", "http-port"), bind("bind-https", "https-port")>>]

\* A percentage that does not parse is zero.
buildGlobalCloseSessions(g, conf) ==
    LET v == Value(conf, "close-sessions-duration", Malformed)
        stop == Value(conf, "timeout-stop", NoTime).ms
        pct == Parsed(v.n, 0)
        set(ms) == [g EXCEPT !.closeSessions = ms, !.statsTimeout = Value(conf, "timeout-stop", NoTime)]
    IN  IF v = Malformed \/ ~TrackInstances \/ stop = Malformed THEN g
        ELSE IF v.pct THEN IF pct \in 2..98 THEN set((stop * pct) \div 100) ELSE g
        ELSE IF v.n # Malformed /\ v.n < stop THEN set(v.n) ELSE g

DefaultMatchOrder == <<"exact", "prefix", "begin", "regex">>

buildGlobalPathTypeOrder(g, conf) ==
    LET order == Str(conf, "path-type-order")
    IN  [g EXCEPT !.order = IF Cardinality(Range(order)) = Len(order)
                               /\ Range(order) = Range(DefaultMatchOrder)
                            THEN order ELSE DefaultMatchOrder]

\* There is one process in the end, whatever is asked for.
buildGlobalProc(g, conf) ==
    LET balance == 1
        ssl == 0
        threads == IF IntOf(conf, "nbthread") < 0 THEN 0 ELSE IntOf(conf, "nbthread")
        cpumap == IF ~Bool(conf, "use-cpu-map") THEN <<"">>
                  ELSE IF Str(conf, "cpu-map") # "" THEN <<Str(conf, "cpu-map")>>
                  ELSE IF threads > 1 THEN <<"auto", threads, threads - 1>> ELSE <<"">>
    IN  [g EXCEPT !.procs = <<balance + ssl, threads, balance, ssl, cpumap>>]

\* tls: what GetTLSSecretPath returned for the key, Malformed if it failed.
buildGlobalStats(g, conf, tls) ==
    [g EXCEPT !.stats = Copy(conf, {"bind-ip-addr-healthz", "healthz-port", "bind-ip-addr-prometheus",
                                    "prometheus-port", "stats-proxy-protocol", "stats-auth",
                                    "bind-ip-addr-stats", "stats-port"}),
              !.statsTLS = IF Lines(conf, "stats-ssl-cert") # <<>> /\ tls # Malformed THEN tls ELSE @]

buildGlobalSyslog(g, conf) ==
    [g EXCEPT !.syslog = Copy(conf, {"syslog-endpoint", "syslog-format", "syslog-length", "syslog-tag",
                                     "auth-log-format", "http-log-format", "https-log-format",
                                     "tcp-log-format"})]

buildGlobalTimeout(g, conf) ==
    LET stop == validateTime(conf, "timeout-stop").ms
    IN  [g EXCEPT !.timeout = [k \in {"timeout-client", "timeout-client-fin", "timeout-connect",
                                      "timeout-http-request", "timeout-keep-alive", "timeout-queue",
                                      "timeout-server", "timeout-server-fin", "timeout-stop",
                                      "timeout-tunnel"} |-> validateTime(conf, k)],
                  !.timeoutStop = IF stop # Malformed THEN stop ELSE @]

buildSecurity(g, conf) ==
    LET user == Str(conf, "username")
        group == Str(conf, "groupname")
        pair == IF (user = "") # (group = "") THEN <<"", "">> ELSE <<user, group>>
    IN  [g EXCEPT !.security = IF Bool(conf, "use-haproxy-user") /\ pair[1] = ""
                               THEN <<"haproxy", "haproxy">> ELSE pair,
                  !.chroot = Bool(conf, "use-chroot")]

\* dh: what GetDHSecretPath returned for the key.
buildGlobalSSL(g, conf, dh) ==
    [g EXCEPT !.ssl = Copy(conf, {"tls-alpn", "ssl-ciphers", "ssl-cipher-suites", "ssl-ciphers-backend",
                                  "ssl-cipher-suites-backend", "ssl-dh-default-max-size", "ssl-engine",
                                  "ssl-headers-prefix", "ssl-mode-async", "ssl-options",
                                  "ssl-redirect-code", "ssl-redirect"}),
              !.dh = IF Lines(conf, "ssl-dh-param") # <<>> /\ dh # Malformed THEN dh ELSE @]

buildGlobalHTTPStoHTTP(g, conf) ==
    LET port == IF IntOf(conf, "fronting-proxy-port") # 0 THEN IntOf(conf, "fronting-proxy-port")
                ELSE IntOf(conf, "https-to-http-port")
        bind == IF Str(conf, "bind-fronting-proxy") # "" THEN <<Str(conf, "bind-fronting-proxy")>>
                ELSE IF port # 0 THEN <<Str(conf, "bind-ip-addr-http"), port>> ELSE <<>>
    IN  IF bind = <<>> THEN g
        ELSE [g EXCEPT !.fronting = <<bind, Bool(conf, "use-forwarded-proto")>>]

buildGlobalModSecurity(g, conf) ==
    [g EXCEPT !.modsec = <<Lines(conf, "modsecurity-endpoints"), Str(conf, "modsecurity-args"),
                           Bool(conf, "modsecurity-use-coraza"),
                           [k \in {"connect", "hello", "idle", "processing", "server"} |->
                              validateTime(conf, "modsecurity-timeout-" \o k)]>>]

\* A line of dns-resolvers is Malformed, or a name and the <<host, port>> of its
\* servers, with an empty host between two commas.
NameserversOf(servers) ==
    LET used == SelectSeq(servers, LAMBDA s : s # <<"", "">>)
    IN  [n \in DOMAIN used |-> <<n, used[n][1], IF used[n][2] = "" THEN "53" ELSE used[n][2]>>]

buildGlobalDNS(g, conf) ==
    LET lines == SelectSeq(Lines(conf, "dns-resolvers"), LAMBDA l : l # Malformed)
    IN  IF Lines(conf, "dns-resolvers") = <<>> THEN g
        ELSE [g EXCEPT !.resolvers = @ \o [n \in DOMAIN lines |->
                           [name |-> lines[n].name, servers |-> NameserversOf(lines[n].servers),
                            payload |-> IntOf(conf, "dns-accepted-payload-size"),
                            times |-> [k \in {"hold-obsolete", "hold-valid", "timeout-retry"} |->
                                         validateTime(conf, "dns-" \o k)]]],
                       !.domain = Str(conf, "dns-cluster-domain")]

\* DynamicConfig.  static: --allow-cross-namespace.
buildGlobalDynamic(conf, static) ==
    [ca |-> static \/ validateAllowDeny(conf, "cross-namespace-secrets-ca"),
     crt |-> static \/ validateAllowDeny(conf, "cross-namespace-secrets-crt"),
     passwd |-> static \/ validateAllowDeny(conf, "cross-namespace-secrets-passwd"),
     services |-> validateAllowDeny(conf, "cross-namespace-services")]

\* A header name that has other characters is Malformed.
buildGlobalForwardFor(g, conf) ==
    LET header(key) == Parsed(Str(conf, key), createDefaults[key])
    IN  [g EXCEPT !.forward = <<IF Str(conf, "forwardfor") \in {"add", "update", "ignore", "ifmissing"}
                                THEN Str(conf, "forwardfor") ELSE "add",
                                header("original-forwarded-for-hdr"), header("real-ip-hdr")>>]

\* A line of config-proxy is the name of a section, or one of its lines.
buildGlobalCustomConfig(g, conf) ==
    LET lines == Lines(conf, "config-proxy")
        section(n) == LET heads == {m \in 1..n : lines[m].head}
                      IN  IF heads = {} THEN "" ELSE lines[CHOOSE m \in heads : \A k \in heads : k <= m].text
        late == Lines(conf, "config-frontend-late")
    IN  [g EXCEPT !.custom = [k \in {"config-global", "config-defaults", "config-frontend-early",
                                     "config-sections", "config-tcp"} |-> Lines(conf, k)],
                  !.late = IF late = <<>> THEN Lines(conf, "config-frontend") ELSE late,
                  !.proxy = {<<section(n), n, lines[n].text>> : n \in {m \in DOMAIN lines :
                                ~lines[m].head /\ section(m) # ""}}]

-----------------------------------------------------------------------------
(* Custom responses.  A line has its length, and is a "status", a "blank"  *)
(* one, a "header", or "text"; "close" is text that would end the string   *)
(* of the Lua script.                                                      *)

parseHeadAndBody(lines) ==
    LET empty == [ok |-> TRUE, body |-> FALSE, code |-> 0, headers |-> <<>>, size |-> 0]
        read[n \in 0..Len(lines)] ==
           LET line == lines[n]
               r == read[n - 1]
               fail == [r EXCEPT !.ok = FALSE]
           IN  IF n = 0 THEN empty
               ELSE IF ~r.ok THEN r
               ELSE IF n = 1 /\ line.kind = "status"
               THEN IF line.code \in 101..599 THEN [r EXCEPT !.code = line.code] ELSE fail
               ELSE IF line.kind = "blank" THEN [r EXCEPT !.body = TRUE]
               ELSE IF ~r.body
               THEN IF line.kind # "header" THEN fail
                    ELSE IF line.name = "content-length" THEN r
                    ELSE IF ~line.valid THEN fail
                    ELSE [r EXCEPT !.headers = Append(@, line.name)]
               ELSE IF line.kind = "close" THEN fail
               ELSE [r EXCEPT !.size = @ + line.size + 1]
    IN  read[Len(lines)]

LuaResponses == <<<<"prometheus-root", 200>>, <<"404", 404>>, <<"413", 413>>, <<"421", 421>>,
                  <<"495", 495>>, <<"496", 496>>>>
HAResponses == <<<<"200", 200>>, <<"400", 400>>, <<"401", 401>>, <<"403", 403>>, <<"405", 405>>,
                 <<"407", 407>>, <<"408", 408>>, <<"410", 410>>, <<"425", 425>>, <<"429", 429>>,
                 <<"500", 500>>, <<"501", 501>>, <<"502", 502>>, <<"503", 503>>, <<"504", 504>>>>
DefaultResponse == <<[kind |-> "header", name |-> "content-type", valid |-> TRUE, size |-> 23],
                     [kind |-> "header", name |-> "cache-control", valid |-> TRUE, size |-> 23],
                     [kind |-> "blank", size |-> 0], [kind |-> "text", size |-> 80]>>

Response(conf, data, default) ==
    LET content == Lines(conf, "http-response-" \o data[1])
        own == parseHeadAndBody(content)
        r == IF content # <<>> /\ own.ok THEN own ELSE parseHeadAndBody(default)
    IN  [name |-> data[1], given |-> content # <<>> /\ own.ok, headers |-> r.headers, size |-> r.size,
         code |-> IF r.code = 0 THEN data[2] ELSE r.code]

\* Mutation: a response that does not parse is left out.
buildGlobalCustomResponsesSkips(g, conf) ==
    [g EXCEPT !.lua = SelectSeq([n \in DOMAIN LuaResponses |->
                                   Response(conf, LuaResponses[n], DefaultResponse)],
                                LAMBDA r : r.given)]

buildGlobalCustomResponses(g, conf) ==
    [g EXCEPT !.lua = [n \in DOMAIN LuaResponses |-> Response(conf, LuaResponses[n], DefaultResponse)],
              !.ha = SelectSeq([n \in DOMAIN HAResponses |-> Response(conf, HAResponses[n], <<>>)],
                               LAMBDA r : r.given)]

-----------------------------------------------------------------------------
\* The copies come first, then the builders in the order of the calls.
UpdateFrom(g, conf, tls, dh) ==
    LET copied == [g EXCEPT !.misc =
                      Copy(conf, {"max-connections", "default-backend-redirect",
                                  "default-backend-redirect-code", "no-redirect-locations",
                                  "drain-support", "drain-support-redispatch", "cookie-key",
                                  "external-has-lua", "load-server-state", "master-exit-on-failure",
                                  "worker-max-reloads", "strict-host", "use-htx",
                                  "redirect-from-code", "redirect-to-code"})]
        upToResponses(x) ==
            buildGlobalCustomResponses(buildGlobalCustomConfig(buildGlobalCloseSessions(
                buildGlobalBind(buildGlobalAuthProxy(buildGlobalAcme(x, conf), conf), conf),
                conf), conf), conf)
        upToProc(x) ==
            buildGlobalProc(buildGlobalPathTypeOrder(buildGlobalModSecurity(buildGlobalHTTPStoHTTP(
                buildGlobalForwardFor(buildGlobalDNS(x, conf), conf), conf), conf), conf), conf)
        upToTimeout(x) ==
            buildGlobalTimeout(buildGlobalSyslog(buildGlobalStats(buildGlobalSSL(
                buildSecurity(x, conf), conf, dh), conf, tls), conf), conf)
    IN  upToTimeout(upToProc(upToResponses(copied)))

UpdateGlobalConfig(g, conf, tls, dh) == UpdateFrom(g, Merged(conf), tls, dh)
=============================================================================
