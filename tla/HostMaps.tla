------------------------------ MODULE HostMaps ------------------------------
(***************************************************************************)
(* The map files haproxy looks requests up in: pkg/haproxy/types/maps.go.  *)
(* A map has one file per match type, and more files, read before those,   *)
(* for entries that overlap others of another type or have a header        *)
(* filter.  A path is the sequence of the codes of its characters, since   *)
(* the files depend on prefixes and on the lexical order.                  *)
(***************************************************************************)
EXTENDS Naturals, Sequences, FiniteSets, SequencesExt

Slash == 47
MatchTypes == {"begin", "exact", "prefix", "regex"}
NoFilter == "none"

ToLower(p) == [i \in DOMAIN p |-> IF p[i] \in 65..90 THEN p[i] + 32 ELSE p[i]]

\* The order of strings.
Before(p, q) ==
    \E i \in 1..Len(q) :
        /\ i <= Len(p) + 1
        /\ \A k \in 1..(i - 1) : p[k] = q[k]
        /\ i > Len(p) \/ p[i] < q[i]

\* sort.Slice of a short slice: each item is moved back while it is less than
\* its neighbour.
Sorted(s, Less(_, _)) ==
    LET Insert(acc, e) ==
            LET at == CHOOSE j \in 1..(Len(acc) + 1) :
                          /\ \A i \in j..Len(acc) : Less(e, acc[i])
                          /\ j > 1 => ~Less(e, acc[j - 1])
            IN  InsertAt(acc, at, e)
    IN  FoldLeft(Insert, <<>>, s)

-----------------------------------------------------------------------------
(* Entries.                                                                *)

\* A hostname is its position in the order of the names.  The text of the
\* hostnames of regex entries, a literal one and one with a
\* wildcard: only their length matters.
LiteralLen == 5
WildcardLen == 9

\* convertPathToRegex: "$" after an exact path, "(/.*)?" after a prefix.
convertPathToRegex(path, match) ==
    CASE match = "exact" -> path \o <<36>>
      [] match = "prefix" /\ path[Len(path)] # Slash -> path \o <<40, Slash, 46, 42, 41, 63>>
      [] OTHER -> path

\* AddHostnamePathMapping and addTarget: a path of a wildcard hostname becomes
\* a regex, a begin path is lower case.  link is the declared path it is for.
AddHostnamePathMapping(hostname, wildcard, link, order, value) ==
    LET match == IF wildcard THEN "regex" ELSE link.match
    IN  [hostname |-> hostname, wildcard |-> wildcard, link |-> link,
         match |-> match, headers |-> link.headers, order |-> order, value |-> value,
         path |-> CASE wildcard -> convertPathToRegex(link.path, link.match)
                    [] match = "begin" -> ToLower(link.path)
                    [] OTHER -> link.path]

hasFilter(e) == e.headers # NoFilter

\* buildMapKey, for the order of regexes.
KeyLen(e) == (IF e.wildcard THEN WildcardLen ELSE LiteralLen) + Len(e.path)

-----------------------------------------------------------------------------
(* rebuildMatchFiles.  The entries of a map are a sequence, referred to by *)
(* their indexes as the code does by pointers.                             *)

\* Mutation: types are not compared.
overlapsSameType(e1, e2) ==
    /\ e1.match = e2.match /\ e1.path # e2.path
    /\ {e1.match, e2.match} \cap {"exact", "regex"} = {}
    /\ IsPrefix(e2.path, e1.path)

overlaps(e1, e2) ==
    /\ e1.match # e2.match /\ e1.path # e2.path
    /\ {e1.match, e2.match} \cap {"exact", "regex"} = {}
    /\ IsPrefix(e2.path, e1.path)

\* The priority of the entries of a hostname: with filters first, then the
\* reverse order of paths.
PathFirst(e1, e2) ==
    IF e1.headers = e2.headers THEN Before(e2.path, e1.path) ELSE hasFilter(e1)

\* findMatchFile: the first file of list, from `from` on, for entries like e; a
\* new one if there is none.
findMatchFile(list, from, e) ==
    Min({Len(list) + 1} \cup
        {k \in from..Len(list) : list[k].match = e.match /\ list[k].headers = e.headers})

\* findOrCreateMatchFile on list `name` of the state of the loop: lists of
\* files, the file of each entry that was moved to one, and the file an entry
\* has to come after.
findOrCreateMatchFile(E, st, name, i) ==
    LET Put(at) ==
            [st EXCEPT ![name] = IF at > Len(@)
                                 THEN Append(@, [match |-> E[i].match, headers |-> E[i].headers, entries |-> <<i>>])
                                 ELSE [@ EXCEPT ![at].entries = Append(@, i)],
                       !.elem[i] = at]
    IN  Put(findMatchFile(st[name], IF st.upper[i] = 0 THEN 1 ELSE st.upper[i], E[i]))

findOrCreateMatchFileIfOverlaps(E, st, i, j) ==
    LET After(s) == [s EXCEPT !.upper[j] = s.elem[i]]
    IN  IF ~overlaps(E[i], E[j]) THEN st
        ELSE After(IF st.elem[i] = 0 THEN findOrCreateMatchFile(E, st, "order", i) ELSE st)

\* An entry with a filter is moved once.
Move(E, st, i) ==
    IF hasFilter(E[i]) /\ st.elem[i] = 0 THEN findOrCreateMatchFile(E, st, "filters", i) ELSE st

\* One pair of entries of a hostname.
Pair(E, st, i, j) ==
    IF ~hasFilter(E[i]) /\ ~hasFilter(E[j]) THEN findOrCreateMatchFileIfOverlaps(E, st, i, j)
    ELSE FoldLeft(LAMBDA s, k : Move(E, s, k), st, <<i, j>>)

\* The pairs of the sorted entries of a hostname.
Pairs(E, st, list) ==
    IF Len(list) = 1 THEN Move(E, st, list[1])
    ELSE FoldLeft(LAMBDA s, p : Pair(E, s, list[p[1]], list[p[2]]), st,
                  FlattenSeq([i \in DOMAIN list |-> [k \in 1..(Len(list) - i) |-> <<i, i + k>>]]))

Host(E, st, hostname) ==
    Pairs(E, st, Sorted(SelectSeq([i \in 1..Len(E) |-> i], LAMBDA i : E[i].hostname = hostname),
                        LAMBDA i, j : PathFirst(E[i], E[j])))

\* The order of the entries of a file.
FileOrder(match, e1, e2) ==
    CASE match = "regex" /\ KeyLen(e1) # KeyLen(e2) -> KeyLen(e1) > KeyLen(e2)
      [] e1.hostname # e2.hostname -> e1.hostname < e2.hostname
      [] e1.path = e2.path -> e1.order < e2.order
      [] match \in {"exact", "regex"} -> Before(e1.path, e2.path)
      [] OTHER -> Before(e2.path, e1.path)

\* The file of the entries of a match type that were not moved; the one of the
\* exact paths is the first.
pushMatchFile(E, st, files, m) ==
    LET Push(rest) ==
            IF rest = <<>> THEN files
            ELSE IF m = "exact" THEN <<[match |-> m, headers |-> NoFilter, entries |-> rest]>> \o files
            ELSE Append(files, [match |-> m, headers |-> NoFilter, entries |-> rest])
    IN  Push(SelectSeq([i \in 1..Len(E) |-> i], LAMBDA i : E[i].match = m /\ st.elem[i] = 0))

SortedFile(E, file) ==
    LET s == Sorted(file.entries, LAMBDA i, j : FileOrder(file.match, E[i], E[j]))
    IN  [file EXCEPT !.entries = [i \in DOMAIN s |-> E[s[i]]]]

\* The files of a map with entries E: hostnames is the order its hostnames are
\* visited in, matchOrder the order of the files of the match types.
MatchFiles(E, hostnames, matchOrder) ==
    LET none == [i \in DOMAIN E |-> 0]
        Files(st) == st.filters \o FoldLeft(LAMBDA s, m : pushMatchFile(E, st, s, m), st.order, matchOrder)
        InOrder(files) == [k \in DOMAIN files |-> SortedFile(E, files[k])]
    IN  InOrder(Files(FoldLeft(LAMBDA s, h : Host(E, s, h),
                               [order |-> <<>>, filters |-> <<>>, elem |-> none, upper |-> none], hostnames)))

-----------------------------------------------------------------------------
(* What haproxy does with the files.                                       *)

\* A request is [host, path, headers]; every hostname of the model belongs to
\* the domain of the wildcard.
HostMatches(e, req) == e.wildcard \/ e.hostname = req.host

SubPath(p, path) == p = <<Slash>> \/ p = path \/ IsPrefix(p \o <<Slash>>, path)

\* map_str, map_dir, map_beg and map_reg.  A regex is not anchored at its end.
PathMatches(e, req) ==
    CASE e.match = "exact" -> e.path = req.path
      [] e.match = "prefix" -> SubPath(e.path, req.path)
      [] e.match = "begin" -> IsPrefix(e.path, ToLower(req.path))
      [] e.match = "regex" /\ e.link.match = "exact" -> e.link.path = req.path
      [] OTHER -> IsPrefix(e.link.path, req.path)

Matches(e, req) ==
    /\ hasFilter(e) => e.headers \in req.headers
    /\ HostMatches(e, req) /\ PathMatches(e, req)

\* The template sets the variable from the first file that has a match.
None == [value |-> "none"]
FirstMatch(entries, req) ==
    LET I == {i \in DOMAIN entries : Matches(entries[i], req)}
    IN  IF I = {} THEN None ELSE entries[Min(I)]
Lookup(files, req) == FirstMatch(FlattenSeq([k \in DOMAIN files |-> files[k].entries]), req)
=============================================================================
