----------------------------- MODULE MCGateway -----------------------------
(***************************************************************************)
(* Instances of Gateway: a gateway, three routes and three ingresses that  *)
(* share hosts, services and ports, one scenario for each way they meet.   *)
(***************************************************************************)
EXTENDS Gateway

S1 == <<"n1", "s1">>
S2 == <<"n1", "s2">>
T1 == <<"n2", "s1">>
MCSvc == {S1, S2, T1}
MCPathSeq == <<"/x", "/">>
MCGroup == [ip \in 1..9 |-> CASE ip \in {1, 2, 3} -> 1 [] ip = 6 -> 2 [] ip = 4 -> 2 [] OTHER -> 0]
MCHost == {"a", DefaultHost}
MCTCPHost == {"sni", DefaultHost}
MCKeyPort == "9" :> 9 @@ "09" :> 9 @@ "bad" :> None
MCKey == DOMAIN MCKeyPort

\* Services: a named port and a numbered one, and some addresses.
HTTPPort == [name |-> "http", target |-> "web", targetNum |-> 0, port |-> "80", num |-> 80]
AltPort == [name |-> "", target |-> "80", targetNum |-> 80, port |-> "81", num |-> 81]
Subset(port, ready, notReady) ==
    [ports |-> <<[name |-> port.name, proto |-> "TCP", num |-> 8080],
                 [name |-> port.name, proto |-> "UDP", num |-> 53]>>,
     ready |-> ready, notReady |-> notReady]
Service(port, ready, notReady) ==
    [type |-> "ClusterIP", ports |-> <<port>>, names |-> <<>>, ann |-> "",
     balance |-> <<>>,
     subsets |-> <<Subset(port, ready, notReady)>>, pods |-> <<>>]
Two == Service(HTTPPort, <<2, 1>>, <<>>)
One == Service(HTTPPort, <<3>>, <<4>>)
Draining == [One EXCEPT !.pods =
    <<[ip |-> 3, deleted |-> TRUE, reason |-> "", ports |-> <<[name |-> "web", num |-> 8080]>>],
      [ip |-> 5, deleted |-> FALSE, reason |-> "", ports |-> <<>>]>>]
Many == [Draining EXCEPT !.subsets = <<Subset(HTTPPort, <<1, 2, 3, 6, 7>>, <<4>>)>>]
External(names) == [Two EXCEPT !.type = "ExternalName", !.names = names]
BlueGreen(svc, balance) == [svc EXCEPT !.balance = balance]
Annotated(svc) == [svc EXCEPT !.ann = "leastconn"]

L(name, host, tls, cert, kinds, from) ==
    [name |-> name, host |-> host, tls |-> tls, cert |-> cert, port |-> 1, kinds |-> kinds,
     from |-> from]
Plain == L("http", "", "", "", {}, "All")
Secure(cert) == L("https", "a", "Terminate", cert, {}, "Same")
Pass == L("pass", "a", "Passthrough", "", {"HTTPRoute"}, "Selector")
ForTCP == L("tcp", "", "", "", {"TCPRoute"}, "All")

Ref(svc, weight) == [svc |-> svc, port |-> "80", weight |-> weight]
Rule(matches, refs) == [matches |-> matches, refs |-> refs]
R(kind, ns, sections, hosts, rules) ==
    [kind |-> kind, ns |-> ns, sections |-> sections, hosts |-> hosts, rules |-> rules]
AnySection == <<None>>
Root == <<"/", "prefix", "">>
X(hdr) == <<"/x", "exact", hdr>>

HTTPIng(host, link, svc) ==
    [kind |-> "http", host |-> host, link |-> link, port |-> 0, svc |-> svc, sport |-> "80",
     tls |-> None, ann |-> ""]
TCPIng(host, port, svc, tls, ann) ==
    [kind |-> "tcp", host |-> host, link |-> Root, port |-> port, svc |-> svc, sport |-> "http",
     tls |-> tls, ann |-> ann]
K(svc, tls) == [svc |-> svc, port |-> "80", tls |-> tls, conf |-> "2s"]

Routes(r1, r2, r3) == {<<x, y, z>> : x \in r1, y \in r2, z \in r3}
Svcs(v1, v2, v3) == {S1 :> x @@ S2 :> y @@ T1 :> z : x \in v1, y \in v2, z \in v3}
Secrets(v1, v2) == {"x" :> x @@ "y" :> y : x \in v1, y \in v2}

Base == [gw |-> {None}, routes |-> {<<None, None, None>>}, ings |-> {<<None, None, None>>},
         svcs |-> Svcs({Two}, {One}, {One}), secrets |-> Secrets({None}, {None}), cm |-> {<<>>},
         drain |-> {FALSE}]

\* Two HTTP routes, of two namespaces, on one or two listeners.
HTTPRouting == [Base EXCEPT
    !.gw = {<<Plain>>, <<Plain, Secure("x")>>, <<Secure("x"), L("https2", "", "Terminate", "y", {}, "All")>>},
    !.routes = Routes({None, R("HTTPRoute", "n1", AnySection, <<"a">>, <<Rule(<<>>, <<Ref("s1", 1), Ref("s2", 3)>>)>>)},
                      {None, R("HTTPRoute", "n2", AnySection, <<"a">>, <<Rule(<<Root, X("h")>>, <<Ref("s1", 1)>>)>>)},
                      {None, R("HTTPRoute", "n1", <<"https">>, <<>>,
                               <<Rule(<<X("")>>, <<Ref("s2", 1)>>), Rule(<<>>, <<Ref("s1", 0), Ref("s2", 7)>>)>>)}),
    !.svcs = Svcs({Two, BlueGreen(Annotated(Two), <<3, 1>>), External(<<9>>), External(None)}, {One}, {One}),
    !.secrets = Secrets({"v1"}, {None, "v2"})]

\* Passthrough and plain listeners of the same host.
Passing == [Base EXCEPT
    !.gw = {<<Plain, Pass>>, <<Pass, Plain>>, <<Pass, Pass>>, <<Plain>>},
    !.routes = Routes({None, R("HTTPRoute", "n1", AnySection, <<"a">>, <<Rule(<<>>, <<Ref("s1", 1)>>)>>)},
                      {None, R("HTTPRoute", "n2", <<"pass">>, <<>>, <<Rule(<<X("")>>, <<Ref("s1", 1)>>)>>),
                       R("HTTPRoute", "n2", AnySection, <<"a">>, <<Rule(<<Root, X("")>>, <<Ref("s1", 1)>>)>>)},
                      {None, R("HTTPRoute", "n1", <<"http">>, <<"a">>, <<Rule(<<X("h"), Root>>, <<Ref("s2", 1)>>)>>)})]

\* A gateway and ingresses on the same host, services and port.
Sharing == [Base EXCEPT
    !.gw = {None, <<Plain, ForTCP>>},
    !.routes = Routes({R("HTTPRoute", "n1", AnySection, <<"a">>, <<Rule(<<X("")>>, <<Ref("s1", 1)>>)>>)},
                      {None}, {None, R("TCPRoute", "n1", AnySection, <<>>, <<Rule(<<>>, <<Ref("s2", 1)>>)>>)}),
    !.ings = Routes({None, HTTPIng("a", X(""), S2)},
                    {None, HTTPIng(DefaultHost, Root, S1), HTTPIng("a", Root, T1)},
                    {None, TCPIng(DefaultHost, 1, S2, None, "")}),
    !.svcs = Svcs({Two, None}, {One}, {One, Draining, BlueGreen(Many, <<5, 100>>), BlueGreen(Many, <<0, 1>>)}),
    !.drain = {TRUE}]

\* TCP services of ingresses, of routes and of the configmap.
TCPServing == [Base EXCEPT
    !.gw = {<<ForTCP>>},
    !.routes = Routes({None, R("TCPRoute", "n1", AnySection, <<>>, <<Rule(<<>>, <<Ref("s1", 1)>>), Rule(<<>>, <<Ref("s2", 1)>>)>>)},
                      {None}, {None}),
    !.ings = Routes({None, TCPIng(DefaultHost, 2, S1, "x", "log")},
                    {None, TCPIng(DefaultHost, 2, S2, None, ""), TCPIng("sni", 2, T1, "", "cfg"),
                     TCPIng("sni", 1, T1, "x", "")},
                    {None}),
    !.svcs = Svcs({Two, [Two EXCEPT !.ports = <<AltPort, HTTPPort>>]}, {One}, {One}),
    !.secrets = Secrets({None, "v1"}, {None}),
    !.cm = {<<>>, "9" :> K(S1, "") @@ "bad" :> K(S1, ""), "9" :> K(S1, "x") @@ "09" :> K(S2, "")}]

MCScenario == {HTTPRouting, Passing, Sharing, TCPServing}
=============================================================================
