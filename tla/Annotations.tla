---------------------------- MODULE Annotations ----------------------------
(***************************************************************************)
(* pkg/converters/ingress/annotations without its side effects: how the    *)
(* mapper merges the configuration keys of several resources, and what the *)
(* builders of backends and of hosts make of them.  A mapper has the keys  *)
(* of one host or of one backend, in the order they were added, and the    *)
(* global defaults.  The builders that read or change anything else        *)
(* (secrets, other hosts and backends) are in IngressSync.                 *)
(***************************************************************************)
EXTENDS Integers, Sequences, FiniteSets, SequencesExt

CONSTANTS None,
          Texts    \* the items of the values that have several

\* A value no parser accepts, whatever its key: not a bool, a time, a CIDR...
Malformed == "malformed"

\* The keys of AnnHost and of AnnDuo the model distinguishes; any other key is
\* one of backends.
AnnHost == {"auth-tls-secret", "auth-tls-strict", "auth-tls-verify-client",
            "redirect-from", "ssl-always-add-https", "ssl-always-follow-redirect",
            "ssl-ciphers", "ssl-passthrough", "ssl-passthrough-http-port"}

AnnDuo == {"auth-external-placement", "auth-url"}

RestrictTo(ann, keys) == [k \in DOMAIN ann \cap keys |-> ann[k]]

\* readAnnotations: what a resource says about its hosts and its backends.
annHost(ann) == RestrictTo(ann, AnnHost \cup AnnDuo)
annBack(ann) == RestrictTo(ann, DOMAIN ann \ AnnHost)

\* ParseBool and FormatBool.
ParseBool(value) == value \in {"true", "1"}
IsBool(value) == value \in {"true", "1", "false"}
FormatBool(b) == IF b THEN "true" ELSE "false"

\* Split, LineToSlice and the like.
Parsed(value) == IF value \in DOMAIN Texts THEN Texts[value] ELSE <<>>

\* ConfigValue.Int: numbers are kept as their texts.
IntOf(value) == IF value \in {"", Malformed} THEN "0" ELSE value

-----------------------------------------------------------------------------
(* mapper.go                                                               *)

NewMapper(defaults) == [entries |-> <<>>, defaults |-> defaults]

BoolKeys == {"ssl-redirect", "hsts", "cors-allow-credentials"}

\* validators: None drops the value.
validators(key, value) ==
    IF key \in BoolKeys
    THEN IF IsBool(value) THEN FormatBool(ParseBool(value)) ELSE None
    ELSE IF key = "cors-allow-origin" /\ value = Malformed THEN None
    ELSE value

Entry(source, link, key, value) ==
    [source |-> source, link |-> link, key |-> key, value |-> value]

HasKey(m, link, key) ==
    \E n \in DOMAIN m.entries : m.entries[n].link = link /\ m.entries[n].key = key

\* The first valid value of a key on a path is the one that is used.
addAnnotation(m, source, link, key, value) ==
    LET valid == validators(key, value)
    IN  IF HasKey(m, link, key) \/ valid = None THEN m
        ELSE [m EXCEPT !.entries = Append(@, Entry(source, link, key, valid))]

AddAnnotations(m, source, link, ann) ==
    FoldSet(LAMBDA k, acc : addAnnotation(acc, source, link, k, ann[k]), m, DOMAIN ann)

NoValue == [source |-> None, value |-> ""]

Default(m, key) ==
    IF key \in DOMAIN m.defaults
    THEN [source |-> None, value |-> m.defaults[key]] ELSE NoValue

First(m, key, found) ==
    IF found = <<>> THEN Default(m, key)
    ELSE [source |-> found[1].source, value |-> found[1].value]

\* Mapper.Get: the value of the first path that has the key counts for all.
Get(m, key) == First(m, key, SelectSeq(m.entries, LAMBDA e : e.key = key))

\* GetConfig and KeyConfig.Get: the value of one path.
GetOf(m, link, key) ==
    First(m, key, SelectSeq(m.entries, LAMBDA e : e.key = key /\ e.link = link))

Value(m, key) == Get(m, key).value
ValueOf(m, link, key) == GetOf(m, link, key).value

-----------------------------------------------------------------------------
(* updater.go and backend.go: keys of a backend.                           *)

validateTime(cfg) == IF cfg.value = Malformed THEN "" ELSE cfg.value

\* A default is written in the defaults section of haproxy, not in backends.
Declared(cfg, value) == IF cfg.source = None THEN "" ELSE value

buildBackendTimeout(m) ==
    LET server == Get(m, "timeout-server")
    IN  Declared(server, validateTime(server))

\* The cookie, or None.
buildBackendAffinity(m) ==
    LET affinity == Get(m, "affinity")
        strategy == Value(m, "session-cookie-strategy")
        domain == Value(m, "session-cookie-domain")
        valid == IF strategy \in {"rewrite", "prefix"} THEN strategy ELSE "insert"
        keywords == Value(m, "session-cookie-keywords")
    IN  IF affinity.source = None \/ affinity.value # "cookie" THEN None
        ELSE [strategy |-> valid, domain |-> domain,
              name |-> IF Value(m, "session-cookie-name") = "" THEN "INGRESSCOOKIE"
                       ELSE Value(m, "session-cookie-name"),
              dynamic |-> ParseBool(Value(m, "session-cookie-dynamic")),
              preserve |-> ParseBool(Value(m, "session-cookie-preserve")),
              keywords |-> IF valid = "insert" /\ keywords = ""
                           THEN "indirect nocache httponly" ELSE keywords,
              shared |-> domain = "" /\ ParseBool(Value(m, "session-cookie-shared")),
              podUID |-> Value(m, "session-cookie-value-strategy") = "pod-uid"]

\* A snippet is a set of keywords, the first tokens of its lines.
buildBackendCustomConfig(m, snippets, DisableKeywords) ==
    LET lines == snippets[Value(m, "config-backend")]
    IN  IF "*" \in DisableKeywords \/ lines \cap DisableKeywords # {} THEN {} ELSE lines

\* global.DNS.Resolvers is a set of names.
buildBackendDNS(m, resolvers) ==
    LET name == Value(m, "use-resolver") IN IF name \in resolvers THEN name ELSE ""

\* The items of a list of ranges, <<mark, range>>, that are marked with ! or not.
splitDualCIDR(list) ==
    LET ranges(mark) == {item[2] : item \in {x \in Range(Parsed(list)) : x[1] = mark}}
                        \ {"", Malformed}
    IN  [rule |-> ranges(""), exception |-> ranges("!")]

AccessKeys == {"allowlist-source-range", "whitelist-source-range", "denylist-source-range",
               "allowlist-source-header"}

\* The allowed and the denied source ranges of a path, or of a tcp backend.
readAccessConfig(config) ==
    LET allow == IF config["allowlist-source-range"] = "" THEN config["whitelist-source-range"]
                 ELSE config["allowlist-source-range"]
    IN  [allowed |-> splitDualCIDR(allow), header |-> config["allowlist-source-header"],
         denied |-> splitDualCIDR(config["denylist-source-range"])]

buildBackendWhitelistHTTP(m, link, modeTCP) ==
    IF modeTCP THEN None ELSE readAccessConfig([k \in AccessKeys |-> ValueOf(m, link, k)])

buildBackendWhitelistTCP(m, modeTCP) ==
    IF modeTCP THEN readAccessConfig([k \in AccessKeys |-> Value(m, k)]) ELSE None

buildBackendCors(m, link) ==
    IF ParseBool(ValueOf(m, link, "cors-enable"))
    THEN [credentials |-> ParseBool(ValueOf(m, link, "cors-allow-credentials")),
          origin |-> ValueOf(m, link, "cors-allow-origin")]
    ELSE None

buildBackendDynamic(m) ==
    [update |-> ParseBool(Value(m, "dynamic-scaling")),
     block |-> IntOf(Value(m, "backend-server-slots-increment")),
     free |-> IntOf(Value(m, "slots-min-free"))]

buildBackendAgentCheck(m) ==
    [addr |-> Value(m, "agent-check-addr"), port |-> IntOf(Value(m, "agent-check-port")),
     interval |-> validateTime(Get(m, "agent-check-interval")),
     send |-> Value(m, "agent-check-send")]

\* backend-check-interval is the old name of the interval.
buildBackendHealthCheck(m) ==
    LET interval == IF Value(m, "health-check-interval") = ""
                    THEN Get(m, "backend-check-interval") ELSE Get(m, "health-check-interval")
    IN  [addr |-> Value(m, "health-check-addr"), port |-> IntOf(Value(m, "health-check-port")),
         interval |-> validateTime(interval), uri |-> Value(m, "health-check-uri"),
         fall |-> IntOf(Value(m, "health-check-fall-count")),
         rise |-> IntOf(Value(m, "health-check-rise-count"))]

\* The headers, <<name, value>>; a value may be the variable of the service.
buildBackendHeaders(m, b) ==
    LET expanded(v) == IF v = "%[service]" THEN b[1] ELSE v
        named == SelectSeq(Parsed(Value(m, "headers")), LAMBDA h : h[1] \notin {"", Malformed})
    IN  [n \in DOMAIN named |-> <<named[n][1], expanded(named[n][2])>>]

buildBackendLimit(m) ==
    [rps |-> IntOf(Value(m, "limit-rps")), conns |-> IntOf(Value(m, "limit-connections")),
     allow |-> splitDualCIDR(Value(m, "limit-whitelist")).rule]

\* The version of the PROXY protocol, or "" if it has none.
buildBackendProxyProtocol(m) ==
    LET cfg == Get(m, "proxy-protocol")
    IN  IF cfg.source # None /\ cfg.value \in {"v1", "v2", "v2-ssl", "v2-ssl-cn"}
        THEN cfg.value ELSE ""

buildBackendSSL(m) ==
    LET bits == IntOf(Value(m, "ssl-fingerprint-sha2-bits"))
        ciphers == Get(m, "ssl-ciphers-backend")
    IN  [header |-> ParseBool(Value(m, "auth-tls-cert-header")),
         lower |-> ParseBool(Value(m, "ssl-fingerprint-lower")),
         bits |-> IF bits \in {"224", "256", "384", "512"} THEN bits ELSE "0",
         ciphers |-> Declared(ciphers, ciphers.value),
         options |-> Value(m, "ssl-options-backend")]

\* The addresses of the interfaces that exist.
buildBackendSourceAddressIntf(m) == Parsed(Value(m, "source-address-intf"))

\* A value is <<name, label>>, <<>> without one.  The pair of the cookie and of the
\* header must agree on the label of the pods.
buildBackendBlueGreenSelector(m) ==
    LET cookie == Parsed(Value(m, "blue-green-cookie"))
        header == Parsed(Value(m, "blue-green-header"))
        none == [cookie |-> "", header |-> "", label |-> ""]
        labels == {pair[2] : pair \in {cookie, header} \ {<<>>}}
    IN  IF Malformed \in {Value(m, "blue-green-cookie"), Value(m, "blue-green-header")}
           \/ Cardinality(labels) # 1 THEN none
        ELSE [cookie |-> IF cookie = <<>> THEN "" ELSE cookie[1],
              header |-> IF header = <<>> THEN "" ELSE header[1],
              label |-> CHOOSE x \in labels : TRUE]

buildBackendHSTS(m, link) == ParseBool(ValueOf(m, link, "hsts"))

buildBackendRewriteURL(m, link) ==
    LET rewrite == ValueOf(m, link, "rewrite-target")
    IN  IF rewrite = Malformed THEN "" ELSE rewrite

buildBackendBodySize(m, link) ==
    LET size == ValueOf(m, link, "proxy-body-size")
    IN  IF size \in {"unlimited", Malformed} THEN "" ELSE size

buildBackendWAF(m, link) ==
    LET mode == ValueOf(m, link, "waf-mode")
    IN  IF ValueOf(m, link, "waf") # "modsecurity" THEN None
        ELSE IF mode \in {"", "deny", "detect"} THEN mode ELSE "deny"

\* host is what the backend reads of its host, see UseTLS.
buildBackendSSLRedirect(m, link, useTLS, noRedirect) ==
    useTLS /\ ParseBool(ValueOf(m, link, "ssl-redirect")) /\ link \notin noRedirect

\* The users of a secret, a line is <<name, colons, password>>.  A password after
\* one colon is encrypted.
extractUserlist(content) ==
    LET lines == {u \in Range(Parsed(content)) : u[1] # "" /\ u[2] > 0 /\ u[3] # ""}
    IN  {[name |-> u[1], passwd |-> u[3], encrypted |-> u[2] = 1] : u \in lines}

\* The protocol and whether the server speaks TLS, or None if the protocol is
\* not valid: then secure-backends is not read either.
protocol(m, useHTX) ==
    LET proto == Value(m, "backend-protocol")
        secure == proto \in {"h1-ssl", "h2-ssl"}
                  \/ ParseBool(Value(m, "secure-backends"))
    IN  IF proto \notin {"", "h1", "h1-ssl", "h2", "h2-ssl"} THEN None
        ELSE [name |-> IF proto \in {"h2", "h2-ssl"} /\ useHTX THEN "h2" ELSE "h1",
              secure |-> secure]

\* The names a server that speaks TLS is asked for, and verified against.
secureNames(m) ==
    LET sni == Value(m, "secure-sni")
        host == Value(m, "secure-verify-hostname")
    IN  [sni |-> IF sni = Malformed THEN "" ELSE sni,
         verify |-> IF host = Malformed THEN "" ELSE host]
=============================================================================
