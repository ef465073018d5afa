----------------------------- MODULE MCGlobals -----------------------------
(***************************************************************************)
(* Three hosts.  Two use the same two secrets, one as the certificate, the *)
(* other as the authority of the clients.  The first secret is the default *)
(* certificate too, the second one is in another namespace.                *)
(***************************************************************************)
EXTENDS GlobalSync

MCHost == {"h1", "h2", "h3"}
MCSecret == {<<"d", "x">>, <<"o", "y">>}
MCHostNS == [h \in MCHost |-> "d"]
MCExternalFiles == {<<"file", "", "ca">>}
MCRef == [h1 |-> [tls |-> <<"secret", "", "x">>, ca |-> <<"secret", "o", "y">>, strict |-> TRUE],
          h2 |-> [tls |-> <<"secret", "o", "y">>, ca |-> <<"secret", "", "x">>, strict |-> FALSE],
          h3 |-> [tls |-> <<"vault", "", "x">>, ca |-> <<"file", "", "ca">>, strict |-> TRUE]]
MCDefaultCrtSecret == <<"secret", "d", "x">>

Data(crt, key, ca, crl, dh) == [crt |-> crt, key |-> key, ca |-> ca, crl |-> crl, dh |-> dh, exists |-> TRUE]
MCContent == {Data("a", "a", "", "", ""), Data("b", "b", "", "", ""), Data("a", "a", "a", "", "p"),
              Data("b", "b", "a", "", ""), Data("", "", "a", "", ""), Data("", "", "a", "l", ""),
              Data("", "", "a", "bad", ""), Data("", "", "", "", "q")}
MCInitSecrets == {<<"d", "x">> :> s @@ <<"o", "y">> :> t :
                    s \in {Data("a", "a", "", "", ""), NoSecret}, t \in {Data("a", "a", "a", "", "p")}}

Line(kind, size) == [kind |-> kind, size |-> size]
Status(code) == [kind |-> "status", code |-> code, size |-> 3]
Header(name, valid) == [kind |-> "header", name |-> name, valid |-> valid, size |-> 12]
ConfPlain == "use-chroot" :> TRUE @@ "cross-namespace-secrets-ca" :> "allow"
ConfFull ==
    "acme-endpoint" :> "v2" @@ "acme-emails" :> "mail" @@ "acme-terms-agreed" :> TRUE
    @@ "close-sessions-duration" :> [pct |-> TRUE, n |-> 98] @@ "timeout-stop" :> [haproxy |-> FALSE, ms |-> 5400000]
    @@ "stats-ssl-cert" :> <<"secret", "o", "y">> @@ "ssl-dh-param" :> <<"secret", "o", "y">>
    @@ "cross-namespace-secrets-crt" :> "allow"
    @@ "dns-resolvers" :> <<[name |-> "k8s", servers |-> <<<<"a", "">>, <<"", "">>, <<"b", "5353">>>>], Malformed>>
    @@ "path-type-order" :> <<"regex", "begin", "prefix", "exact">>
    @@ "fronting-proxy-port" :> 8000 @@ "bind-https" :> ":8443" @@ "nbthread" :> 4
    @@ "username" :> "u" @@ "groupname" :> "g"
    @@ "config-proxy" :> <<[head |-> FALSE, text |-> "l0"], [head |-> TRUE, text |-> "s1"],
                           [head |-> FALSE, text |-> "l1"]>>
    @@ "http-response-404" :> <<Status(410), Header("content-length", TRUE), Header("x-a", TRUE),
                                Line("blank", 0), Line("text", 5), Line("blank", 0), Header("x-b", FALSE)>>
    @@ "http-response-503" :> <<Line("blank", 0), Line("text", 9)>>
ConfBad ==
    "acme-endpoint" :> "v2" @@ "acme-emails" :> "mail" @@ "acme-terms-agreed" :> Malformed
    @@ "auth-proxy" :> Malformed @@ "nbthread" :> -1 @@ "nbproc-balance" :> Malformed
    @@ "close-sessions-duration" :> [pct |-> FALSE, n |-> 600000]
    @@ "stats-ssl-cert" :> <<"secret", "o", "none">> @@ "ssl-dh-param" :> <<"file", "", "none">>
    @@ "cross-namespace-secrets-crt" :> "yes" @@ "cross-namespace-secrets-ca" :> "allow"
    @@ "path-type-order" :> <<"regex", "begin", "begin", "exact">>
    @@ "username" :> "u" @@ "use-haproxy-user" :> TRUE @@ "forwardfor" :> "sometimes"
    @@ "real-ip-hdr" :> Malformed @@ "timeout-client" :> NoTime
    @@ "http-response-404" :> <<Status(600), Line("text", 5)>>
    @@ "http-response-413" :> <<Line("text", 5)>>
    @@ "http-response-421" :> <<Header("x-a", FALSE)>>
    @@ "http-response-503" :> <<Line("blank", 0), Line("close", 9)>>
ConfHalf ==
    "close-sessions-duration" :> [pct |-> FALSE, n |-> 599999] @@ "path-type-order" :> <<"exact">>
    @@ "groupname" :> "g" @@ "dns-resolvers" :> <<Malformed>> @@ "config-frontend" :> <<"l">>
MCConfs == {ConfPlain, ConfFull, ConfBad, ConfHalf}
=============================================================================
