--------------------------- MODULE MCIngressSync ---------------------------
(***************************************************************************)
(* Instances of IngressSync: three ingresses on two hosts, two services,   *)
(* and one scenario for each group of keys that interact.                  *)
(***************************************************************************)
EXTENDS IngressSync, TLC

MCIng == 1..3
MCHostSeq == <<"a", "b">>
MCPathSeq == <<"/oauth2", "/">>
S1 == <<"s1", "80">>
S2 == <<"s2", "80">>
S2Alt == <<"s2", "81">>
MCBackSeq == <<S1, S2, S2Alt>>

MCUrls == "" :> [proto |-> "", name |-> "", port |-> ""]
       @@ "bad" :> [proto |-> "", name |-> "", port |-> ""]
       @@ "d" :> [proto |-> "http", name |-> "d", port |-> ""]
       @@ "e" :> [proto |-> "http", name |-> "e", port |-> ""]
       @@ "svc2" :> [proto |-> "svc", name |-> "s2", port |-> "80"]
       @@ "noport" :> [proto |-> "svc", name |-> "s2", port |-> ""]

MCTexts == "cidr" :> <<<<"", "10/8">>, <<"!", "10.1/16">>, <<"", Malformed>>>>
        @@ "u1" :> <<<<"usr", 1, "pw">>, <<"", 1, "pw">>, <<"adm", 0, "">>>>
        @@ "u2" :> <<<<"usr", 2, "pw">>>>
        @@ "hdr" :> <<<<"x-svc", "%[service]">>, <<Malformed, "">>>>
        @@ "c:v" :> <<"c", "v">> @@ "h:v" :> <<"h", "v">> @@ "h:w" :> <<"h", "w">>
        @@ "eth0" :> <<"10.0.0.1">>

MCSnippets == "" :> {} @@ "acl" :> {"acl"} @@ "server" :> {"acl", "server"}

O(host, path, back, ann) ==
    [host |-> host, path |-> path, back |-> back, tls |-> None, class |-> FALSE, ann |-> ann]
Secure(o, tls) == [o EXCEPT !.tls = tls]
Classy(o) == [o EXCEPT !.class = TRUE]

\* The resources of each kind, one set of alternatives for each name.
Ings(o1, o2, o3) == {<<x, y, z>> : x \in o1, y \in o2, z \in o3}
Svcs(v1, v2) == {"s1" :> x @@ "s2" :> y : x \in v1, y \in v2}
Plain == [ports |-> {"80"}, ann |-> <<>>]
With(ann) == [ports |-> {"80"}, ann |-> ann]
Secrets(v1, v2) == {"x" :> x @@ "y" :> y : x \in v1, y \in v2}

Global == [defaults |-> "auth-external-placement" :> "backend" @@ "ssl-redirect" :> "true",
           ports |-> 2, lua |-> TRUE, htx |-> TRUE, resolvers |-> {"dns"}, noRedirect |-> {}]

Base == [svcs |-> Svcs({Plain}, {Plain}), secrets |-> Secrets({None}, {None}),
         params |-> {<<>>}, global |-> {Global}, dns |-> {"d" :> "ip1" @@ "e" :> "ip2"}]

\* Keys of services, ingresses, classes and the global configuration.
Hsts(v) == "hsts" :> v
Balance(v) == "balance-algorithm" :> v
Merging == Base @@
    [ings |-> Ings({None, Classy(O("a", "/", S1, Hsts("true")))},
                   {O("b", "/", S1, <<>>), O("b", "/", S1, Hsts("malformed") @@ Balance("rr")),
                    Classy(O("b", "/", S1, <<>>))},
                   {None, O("a", "/", S1, Balance("lc"))})]
MergingOf == [Merging EXCEPT
    !.svcs = Svcs({Plain, With(Hsts("false")), None}, {Plain}),
    !.params = {<<>>, Balance("src") @@ Hsts("1")},
    !.global = {Global, [Global EXCEPT !.defaults = @ @@ Balance("first")]}]

\* auth-url on three paths, and an auth service that comes and goes.
Auth(url) == "auth-url" :> url
Authenticating == [Base @@
    [ings |-> Ings({None, O("a", "/", S1, Auth("svc2")), O("a", "/", S1, Auth("d"))},
                   {None, O("b", "/", S1, Auth("e")), O("b", "/", S1, Auth("noport"))},
                   {None, O("b", "/oauth2", S2, Auth("d")), O("b", "/oauth2", S2, <<>>)})]
    EXCEPT !.svcs = Svcs({Plain}, {Plain, None}),
           !.dns = {"d" :> "ip1" @@ "e" :> "ip2", "d" :> "ip1" @@ "e" :> None},
           !.global = {Global, [Global EXCEPT !.ports = 1]}]

\* The same in the frontend.
InFront(url) == Auth(url) @@ "auth-external-placement" :> "frontend"
Fronting == [Base @@
    [ings |-> Ings({None, O("a", "/", S1, InFront("svc2")), O("a", "/", S1, InFront("d"))},
                   {None, O("b", "/", S1, InFront("e"))},
                   {None, O("a", "/oauth2", S2, <<>>), O("b", "/oauth2", S2, Auth("d"))})]
    EXCEPT !.svcs = Svcs({Plain}, {Plain, None}),
           !.global = {Global, [Global EXCEPT !.ports = 3, !.lua = FALSE]}]

OAuth(v) == "oauth" :> v
OAuthing == [Base @@
    [ings |-> Ings({O("a", "/", S1, OAuth("oauth2_proxy")), O("a", "/", S1, OAuth("other"))},
                   {None, O("b", "/", S1, <<>>), O("b", "/", S1, Auth("d"))},
                   {None, O("b", "/oauth2", S2, <<>>), O("a", "/oauth2", S2, <<>>)})]
    EXCEPT !.global = {Global, [Global EXCEPT !.lua = FALSE]}]

\* Certificates, client certificates, passthrough and redirects of hosts.
Hosting == [Base @@
    [ings |-> Ings({None, Secure(O("a", "/", S2, "redirect-from" :> "r"), "x"),
                    Secure(O("a", "/", S2, "auth-tls-secret" :> "y"
                                 @@ "auth-tls-strict" :> "true"), "")},
                   {O("b", "/", S2, "redirect-from" :> "r"),
                    O("b", "/", S2, "ssl-passthrough" :> "true"
                                 @@ "ssl-passthrough-http-port" :> "81")},
                   {None, O("b", "/", S1, "redirect-to" :> "u"),
                    Secure(O("b", "/oauth2", S1, "ssl-always-add-https" :> "true"), "y")})]
    EXCEPT !.secrets = Secrets({None, "v1"}, {None, "v1"}),
           !.svcs = Svcs({Plain}, {Plain, [Plain EXCEPT !.ports = {"80", "81"}]})]

\* Userlists that backends share, and the other keys of backends.
Users(s) == "auth-secret" :> s
Listing == [Base @@
    [ings |-> Ings({O("a", "/", S1, Users("x")),
                    O("a", "/", S1, "affinity" :> "cookie" @@ "config-backend" :> "server"
                                 @@ "timeout-server" :> "1s" @@ "use-resolver" :> "dns")},
                   {None, O("b", "/", S2, Users("x")), O("b", "/", S2, Users("y"))},
                   {None, O("b", "/oauth2", S2, "backend-protocol" :> "h2-ssl"
                                            @@ "secure-crt-secret" :> "x"),
                    O("b", "/oauth2", S1, "cors-enable" :> "true" @@ "waf" :> "modsecurity"
                                 @@ "headers" :> "hdr" @@ "proxy-protocol" :> "v2"
                                 @@ "blue-green-cookie" :> "c:v" @@ "blue-green-header" :> "h:w"
                                 @@ "allowlist-source-range" :> "cidr")})]
    EXCEPT !.secrets = Secrets({None, "u1", "u2"}, {None, "u1"})]

MCScenario == {MergingOf, Authenticating, Fronting, OAuthing, Hosting, Listing}
=============================================================================
