----------------------------- MODULE MCFrontend -----------------------------
(***************************************************************************)
(* Small configurations for Frontend, each about one part of the rules.    *)
(***************************************************************************)
EXTENDS Frontend

Text(s) == <<Slash>> \o s
Root == Text(<<>>)
PathA == Text(<<97>>)
PathAB == Text(<<97, 98>>)
PathASlashB == Text(<<97, Slash, 98>>)

MCOrder == <<"exact", "prefix", "begin", "regex">>
MCInput(decls, strict, ns, pass, notls, alias) ==
    [decls |-> decls, strict |-> strict, varNamespace |-> ns, passthrough |-> pass,
     notls |-> notls, alias |-> alias, matchOrder |-> MCOrder]
MCNoAlias == [h \in {} |-> 0]
MCDecl(host, path, match, headers, i) ==
    [host |-> host, path |-> path, match |-> match, headers |-> headers,
     backend |-> IF i = 2 THEN "b2" ELSE "b1", config |-> IF i = 3 THEN "auth" ELSE "none"]

\* Three paths of any type of one host.
MCTypes ==
    {MCInput([i \in 1..3 |-> MCDecl(1, p[i], m[i], NoFilter, i)], FALSE, {1}, {}, {}, MCNoAlias) :
        p \in {<<Root, PathA, PathASlashB>>, <<PathA, PathA, PathASlashB>>, <<PathAB, PathA, Root>>,
               <<Root, PathA, PathA>>, <<PathASlashB, PathAB, PathA>>},
        m \in [1..3 -> MatchTypes]}

\* Two filters.
MCFilters ==
    {MCInput([i \in 1..3 |-> MCDecl(1, p[i], m[i], f[i], i)], FALSE, {}, {}, {}, MCNoAlias) :
        p \in {<<PathA, PathASlashB, PathA>>, <<PathASlashB, PathA, Root>>},
        m \in [1..3 -> {"exact", "prefix"}], f \in [1..3 -> {NoFilter, "h1", "h2"}]}

\* Two hosts whose paths alternate types.
MCHosts ==
    {MCInput([i \in 1..6 |-> MCDecl((i + 2) \div 3, <<Root, PathA, PathASlashB>>[1 + (i % 3)], m[i], NoFilter, i)],
             FALSE, {2}, {}, n, MCNoAlias) :
        m \in [1..6 -> {"begin", "prefix"}], n \in {{}, {1}}}

\* A host, its wildcard and the default host.
MCWildcard ==
    {MCInput(<<MCDecl(1, p[1], m[1], NoFilter, 1), MCDecl(3, p[2], m[2], NoFilter, 2), MCDecl(0, Root, "exact", NoFilter, 3)>>,
             s, {3}, x, {}, MCNoAlias) :
        p \in [1..2 -> {Root, PathA}], m \in [1..2 -> MatchTypes], s \in BOOLEAN, x \in {{}, {1}}}

\* An alias and a redirect.
MCAlias ==
    {MCInput(<<MCDecl(1, Root, m[1], NoFilter, 1), MCDecl(1, PathA, m[2], NoFilter, 3),
               [MCDecl(1, PathASlashB, m[3], NoFilter, 2) EXCEPT !.backend = b]>>,
             FALSE, {}, {}, {}, [h \in {1} |-> 2]) :
        m \in [1..3 -> {"begin", "prefix"}], b \in {"b1", Redirect}}

MCInputs == MCTypes \cup MCFilters \cup MCHosts \cup MCWildcard \cup MCAlias
MCWildcards == {3}
MCRequests ==
    [host : {1, 2}, path : {Root, PathA, PathAB, PathASlashB, PathASlashB \o <<Slash>>},
     headers : {{}, {"h1"}, {"h1", "h2"}}]
=============================================================================
