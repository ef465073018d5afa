---------------------------- MODULE GlobalSync ----------------------------
(***************************************************************************)
(* The global ConfigMap and the certificates of an instance, from a change *)
(* in the cluster to what HAProxy runs.                                    *)
(*                                                                         *)
(* The ConfigMap and the secrets change at any time, and leave a pending   *)
(* notification.  A sync takes the notifications and reads the default     *)
(* certificate (Start), then rebuilds the whole configuration, or the      *)
(* hosts linked to the secrets that changed, and gives the result to       *)
(* HAProxy (Finish): by the "set ssl cert" command if only the content of  *)
(* the certificate of a host changed and the command works, by a reload    *)
(* otherwise.  Reading a secret writes its file, so a file can be newer    *)
(* than what HAProxy has in memory.                                        *)
(*                                                                         *)
(* A file name is <<directory, namespace, name>>, its content a triple.  A *)
(* reference to a secret is <<protocol, namespace, name>>.                 *)
(***************************************************************************)
EXTENDS GlobalConfig

CONSTANTS Host, Ref, HostNS, DefaultCrtSecret, Secret, Content, Confs, InitConf, InitSecrets,
          StaticCrossNamespaceSecrets, ExternalFiles, MaxChanges

ASSUME GlobalSyncAssumption ==
    /\ MaxChanges \in Nat
    /\ StaticCrossNamespaceSecrets \in BOOLEAN
    /\ \A h \in Host : HostNS[h] # ""
    /\ \A id \in Secret : id = <<id[1], id[2]>> /\ id[1] # ""
    /\ \A s \in InitSecrets : DOMAIN s = Secret
    /\ \A f \in ExternalFiles : f = <<"file", f[2], f[3]>>

VARIABLES
    conf,       \* the global ConfigMap
    secrets,    \* the content of each secret, NoSecret if it does not exist
    confCur,    \* GlobalConfigMapDataCur, that of the last sync
    changed,    \* what was notified: the secrets, and whether the ConfigMap was
    sync,       \* the sync in progress
    tracker,    \* the links from the secrets to the hosts
    dyn,        \* DynamicConfig: what may be read from other namespaces
    config,     \* the configuration: global, default certificate and hosts
    disk,       \* the content of the files
    running,    \* what HAProxy has loaded: its configuration and the certificates in memory
    changes,    \* the changes of the cluster so far
    seen,       \* the secrets and the outcome of the last full sync
    stray       \* history: the files that a read wrote for nobody, since the last full sync

vars == <<conf, secrets, confCur, changed, sync, tracker, dyn, config, disk, running, changes, seen, stray>>

NoSecret == [crt |-> "", key |-> "", ca |-> "", crl |-> "", dh |-> "", exists |-> FALSE]
FileAt(name, content) == [file |-> name, hash |-> content]
FakeCrt == FileAt(<<"crt", "", "fake">>, <<"pem", "fake", "">>)
FakeCA == FileAt(<<"ca", "", "fake">>, <<"ca", "fake", "">>)
NoWrites == [f \in {} |-> <<>>]
Write(name, content) == [f \in {name} |-> content]
Over(new, old) == [f \in DOMAIN new \cup DOMAIN old |-> IF f \in DOMAIN new THEN new[f] ELSE old[f]]

-----------------------------------------------------------------------------
(* pkg/controller/services: ssl.go                                         *)

\* "bad" is a PEM block that does not parse, or that has another type.
checkValidPEM(raw) == raw # "bad"

Failed == [err |-> TRUE, crt |-> NoFile, ca |-> NoFile, crl |-> NoFile, writes |-> NoWrites]

\* The key of a certificate has its name; ca signs the certificates of its own name.
buildCertFromCrtAndKey(id, s) ==
    LET name == <<"crt", id[1], id[2]>>
        content == <<"pem", s.crt, s.ca>>
    IN  IF ~checkValidPEM(s.crt) \/ ~checkValidPEM(s.key) \/ s.crt # s.key
           \/ (s.ca # "" /\ (~checkValidPEM(s.ca) \/ s.ca # s.crt))
        THEN Failed
        ELSE [err |-> FALSE, crt |-> FileAt(name, content), writes |-> Write(name, content),
              ca |-> IF s.ca = "" THEN NoFile ELSE FileAt(name, content), crl |-> NoFile]

\* One hash, of both contents, for the two files.
buildCertFromCAAndCRL(id, s) ==
    LET ca == <<"ca", id[1], id[2]>>
        crl == <<"crl", id[1], id[2]>>
        hash == <<"ca", s.ca, s.crl>>
    IN  IF ~checkValidPEM(s.ca) \/ ~checkValidPEM(s.crl) THEN Failed
        ELSE [err |-> FALSE, crt |-> NoFile, ca |-> FileAt(ca, hash),
              crl |-> IF s.crl = "" THEN NoFile ELSE FileAt(crl, hash),
              writes |-> Over(Write(ca, <<"ca", s.ca, "">>),
                              IF s.crl = "" THEN NoWrites ELSE Write(crl, <<"crl", s.crl, "">>))]

getCertificate(id, s) ==
    IF ~s.exists THEN Failed
    ELSE IF s.crt # "" /\ s.key # "" THEN buildCertFromCrtAndKey(id, s)
    ELSE IF s.ca # "" THEN buildCertFromCAAndCRL(id, s)
    ELSE Failed

getDHParam(id, s) ==
    LET name == <<"dh", id[1], id[2]>>
        content == <<"dh", s.dh, "">>
    IN  IF ~s.exists \/ s.dh = "" \/ ~checkValidPEM(s.dh) THEN Failed
        ELSE [Failed EXCEPT !.err = FALSE, !.crt = FileAt(name, content), !.writes = Write(name, content)]

-----------------------------------------------------------------------------
(* pkg/controller/services: cache.go.  A read has the files it returns,    *)
(* whether it failed, what it wrote and the secrets it links to the host.  *)

\* The namespace and name to read, <<>> if it is refused.
buildResourceName(ns, ref, allow) ==
    LET id == <<IF ref[2] = "" THEN ns ELSE ref[2], ref[3]>>
    IN  IF ns = "" \/ allow \/ id[1] = ns THEN id ELSE <<>>

Refused == [err |-> TRUE, crt |-> NoFile, ca |-> NoFile, crl |-> NoFile, writes |-> NoWrites, links |-> {}]

ReadFile(ref, field) ==
    IF <<"file", ref[2], ref[3]>> \in ExternalFiles
    THEN [Refused EXCEPT !.err = FALSE, ![field] = FileAt(<<"file", ref[2], ref[3]>>, <<"-", "", "">>)]
    ELSE Refused

Linked(read, id) == [f \in DOMAIN Refused |-> IF f = "links" THEN {id} ELSE read[f]]
Content0(id, ss) == IF id \in DOMAIN ss THEN ss[id] ELSE NoSecret

\* The link is made before the secret is read, so that a secret that is missing
\* or broken is noticed when it is fixed.
GetTLSSecretPath(ns, ref, allow, ss) ==
    LET id == buildResourceName(ns, ref, allow)
        read == Linked(getCertificate(id, Content0(id, ss)), id)
    IN  IF ref[1] = "file" THEN ReadFile(ref, "crt")
        ELSE IF ref[1] # "secret" \/ id = <<>> THEN Refused
        ELSE [read EXCEPT !.err = @ \/ read.crt = NoFile]

GetCASecretPath(ns, ref, allow, ss) ==
    LET id == buildResourceName(ns, ref, allow)
        read == Linked(getCertificate(id, Content0(id, ss)), id)
    IN  IF ref[1] = "file" THEN ReadFile(ref, "ca")
        ELSE IF ref[1] # "secret" \/ id = <<>> THEN Refused
        ELSE [read EXCEPT !.err = @ \/ read.ca = NoFile]

\* Not linked to anything.
GetDHSecretPath(ref, ss) ==
    IF ref[1] = "file" THEN ReadFile(ref, "crt")
    ELSE IF ref[1] # "secret" THEN Refused
    ELSE LET id == buildResourceName("", ref, TRUE)
         IN  [Linked(getDHParam(id, Content0(id, ss)), id) EXCEPT !.links = {}]

-----------------------------------------------------------------------------
(* pkg/converters/ingress                                                  *)

readDefaultCertificate(ss) ==
    IF DefaultCrtSecret = <<>> THEN [Refused EXCEPT !.err = FALSE, !.crt = FakeCrt]
    ELSE LET read == GetTLSSecretPath("", DefaultCrtSecret, FALSE, ss)
         IN  IF read.err THEN [read EXCEPT !.crt = FakeCrt] ELSE read

addTLS(h, d, ss, default) ==
    IF Ref[h].tls = <<>> THEN [Refused EXCEPT !.crt = default]
    ELSE LET read == GetTLSSecretPath(HostNS[h], Ref[h].tls, d.crt, ss)
         IN  IF read.err THEN [read EXCEPT !.crt = default] ELSE read

\* A client certificate cannot match the fake authority: with auth-tls-strict
\* a broken secret refuses every client instead of accepting all of them.
setAuthTLSConfig(h, d, ss) ==
    IF Ref[h].ca = <<>> THEN Refused
    ELSE LET read == GetCASecretPath(HostNS[h], Ref[h].ca, d.ca, ss)
         IN  IF ~read.err THEN read
             ELSE [read EXCEPT !.ca = IF Ref[h].strict THEN FakeCA ELSE NoFile, !.crl = NoFile]

HostOf(h, d, ss, default) ==
    LET both(tls, ca) ==
            [host |-> [tls |-> tls.crt, ca |-> ca.ca, crl |-> ca.crl],
             writes |-> Over(tls.writes, ca.writes), links |-> tls.links \cup ca.links]
    IN  both(addTLS(h, d, ss, default), setAuthTLSConfig(h, d, ss))

\* The reads of one sync write the same content to the same file.
AllWrites(reads) ==
    [f \in UNION {DOMAIN w : w \in reads} |-> (CHOOSE w \in reads : f \in DOMAIN w)[f]]

-----------------------------------------------------------------------------
NoHosts == [h \in {} |-> NoFile]
NewConfig == [global |-> Zero, default |-> NoFile, hosts |-> NoHosts]
Idle == [phase |-> "idle", full |-> FALSE, dirty |-> {}, default |-> NoFile, conf |-> InitConf]

Init ==
    /\ conf = InitConf
    /\ secrets \in InitSecrets
    /\ confCur = Malformed
    /\ changed = [secrets |-> {}, conf |-> TRUE]
    /\ sync = Idle
    /\ tracker = {}
    /\ dyn = [ca |-> FALSE, crt |-> FALSE, passwd |-> FALSE, services |-> FALSE]
    /\ config = NewConfig
    /\ disk = Over(Write(FakeCrt.file, FakeCrt.hash),
                   Over(Write(FakeCA.file, FakeCA.hash),
                        [f \in ExternalFiles |-> <<"external", f[2], f[3]>>]))
    /\ running = [config |-> NewConfig, mem |-> NoWrites]
    /\ changes = 0
    /\ seen = [secrets |-> secrets, ok |-> FALSE]
    /\ stray = {}

ChangeSecret ==
    \E id \in Secret, c \in Content \cup {NoSecret} :
       /\ changes < MaxChanges /\ c # secrets[id]
       /\ secrets' = [secrets EXCEPT ![id] = c]
       /\ changed' = [changed EXCEPT !.secrets = @ \cup {id}]
       /\ changes' = changes + 1
       /\ UNCHANGED <<conf, confCur, sync, tracker, dyn, config, disk, running, seen, stray>>

ChangeConf ==
    \E c \in Confs :
       /\ changes < MaxChanges /\ c # conf
       /\ conf' = c
       /\ changed' = [changed EXCEPT !.conf = TRUE]
       /\ changes' = changes + 1
       /\ UNCHANGED <<secrets, confCur, sync, tracker, dyn, config, disk, running, seen, stray>>

\* Mutation: a full sync starts from the last configuration.
ClearKeeps(c) == c

Clear(c) == NewConfig

\* NewIngressConverter and NeedFullSync.  The ConfigMap comes with the
\* notification, the secrets are read.
Start ==
    /\ sync.phase = "idle" /\ changed # [secrets |-> {}, conf |-> FALSE]
    /\ LET default == readDefaultCertificate(secrets)
           full == default.crt # config.default \/ (changed.conf /\ conf # confCur)
       IN  /\ sync' = [phase |-> "sync", full |-> full, default |-> default.crt, conf |-> conf,
                       dirty |-> {l[2] : l \in {m \in tracker : m[1] \in changed.secrets}}]
           /\ disk' = Over(default.writes, disk)
           /\ config' = IF full THEN Clear(config) ELSE config
           /\ tracker' = IF full THEN {} ELSE tracker
    /\ confCur' = conf
    /\ changed' = [secrets |-> {}, conf |-> FALSE]
    /\ UNCHANGED <<conf, secrets, dyn, running, changes, seen, stray>>

StatsRead(c, ss) ==
    IF Lines(c, "stats-ssl-cert") = <<>> THEN Refused
    ELSE GetTLSSecretPath("", Lines(c, "stats-ssl-cert"), FALSE, ss)
DHRead(c, ss) ==
    IF Lines(c, "ssl-dh-param") = <<>> THEN Refused ELSE GetDHSecretPath(Lines(c, "ssl-dh-param"), ss)
FileOf(read) == IF read.err THEN Malformed ELSE read.crt

GlobalFrom(g, c, ss) ==
    LET path(read) == IF read.err THEN Malformed ELSE read.crt.file
    IN  UpdateGlobalConfig(g, c, FileOf(StatsRead(c, ss)), path(DHRead(c, ss)))

\* What is known once the hosts were read with the permissions new.
FullResult(c, new, reads) ==
    [config |-> [c EXCEPT !.global = GlobalFrom(c.global, sync.conf, secrets),
                          !.hosts = [h \in Host |-> reads[h].host]],
     dyn |-> new, dirty |-> Host,
     links |-> UNION {reads[h].links \X {h} : h \in Host},
     writes |-> AllWrites({reads[h].writes : h \in Host}
                          \cup {StatsRead(sync.conf, secrets).writes, DHRead(sync.conf, secrets).writes})]

\* Mutation: the hosts are built before the global configuration.
syncFullLate(c, d) ==
    FullResult(c, buildGlobalDynamic(sync.conf, StaticCrossNamespaceSecrets),
               [h \in Host |-> HostOf(h, d, secrets, sync.default)])

\* UpdateGlobalConfig comes first: whether a host may read a secret of another
\* namespace follows the new ConfigMap.
syncFull(c, d) ==
    LET new == buildGlobalDynamic(sync.conf, StaticCrossNamespaceSecrets)
    IN  FullResult(c, new, [h \in Host |-> HostOf(h, new, secrets, sync.default)])

\* The list of the ingress resources failed: the configuration stays empty.
syncFullFails(c, d) == [config |-> c, dyn |-> d, dirty |-> Host, links |-> {}, writes |-> NoWrites]

syncPartial(c, d) ==
    LET result(reads) ==
            [config |-> [c EXCEPT !.hosts = [h \in DOMAIN @ |->
                                               IF h \in sync.dirty THEN reads[h].host ELSE @[h]]],
             dyn |-> d, dirty |-> sync.dirty,
             links |-> {l \in tracker : l[2] \notin sync.dirty}
                       \cup UNION {reads[h].links \X {h} : h \in sync.dirty},
             writes |-> AllWrites({reads[h].writes : h \in sync.dirty})]
    IN  result([h \in sync.dirty |-> HostOf(h, d, secrets, sync.default)])

-----------------------------------------------------------------------------
(* pkg/haproxy: dynupdate.go                                               *)

FilesOf(c) ==
    ({c.default.file, c.global.statsTLS.file, c.global.dh}
        \cup UNION {{c.hosts[h].tls.file, c.hosts[h].ca.file, c.hosts[h].crl.file} : h \in DOMAIN c.hosts})
    \ {<<>>}

\* Mutation: any difference in the certificates is left to the command.
CertOnlyAny(old, new) == [old EXCEPT !.tls = new.tls, !.ca = new.ca, !.crl = new.crl] = new

\* checkHostPair: equal but for the content of the server certificate.
CertOnly(old, new) == [old EXCEPT !.tls.hash = new.tls.hash] = new

\* execUpdateCert sends the file that is on disk.
execUpdateCert(mem, files, onDisk) ==
    [f \in DOMAIN mem |-> IF f \in files THEN onDisk[f] ELSE mem[f]]

checkConfigChange(old, new, onDisk, works) ==
    LET certs == {h \in DOMAIN new.hosts \cap DOMAIN old.hosts :
                     /\ old.hosts[h].tls.hash # new.hosts[h].tls.hash
                     /\ old.hosts[h].tls.file = new.hosts[h].tls.file}
        dynamic == /\ ~sync.full
                   /\ \A h \in DOMAIN new.hosts : CertOnly(old.hosts[h], new.hosts[h])
                   /\ certs = {} \/ works
    IN  [config |-> IF dynamic THEN running.config ELSE new,
         mem |-> IF dynamic THEN execUpdateCert(running.mem, {new.hosts[h].tls.file : h \in certs}, onDisk)
                 ELSE [f \in FilesOf(new) |-> onDisk[f]]]

\* What the converters make of the configuration.
Synced(c, d, listed) ==
    IF ~sync.full THEN syncPartial(c, d)
    ELSE IF listed THEN syncFull(c, d) ELSE syncFullFails(c, d)

\* The content that the user of a file, a host or the default certificate, stands for.
Held(u) ==
    CASE u.file[1] = "ca" -> <<"ca", u.hash[2], "">>
      [] u.file[1] = "crl" -> <<"crl", u.hash[3], "">>
      [] u.file[1] = "file" -> <<"external", u.file[2], u.file[3]>>
      [] OTHER -> u.hash

Users(c) ==
    {u \in {c.default} \cup UNION {{c.hosts[h].tls, c.hosts[h].ca, c.hosts[h].crl} : h \in DOMAIN c.hosts} :
       u.file # <<>>}

\* A read writes the file of a secret also where its caller has no use for it: as
\* an authority that the secret does not have, as a pair that it is not, or for
\* the stats page.  These are the files that have users, of another content.
Strays(c, writes) ==
    {f \in DOMAIN writes : /\ \E u \in Users(c) : u.file = f
                           /\ \A u \in Users(c) : u.file = f => Held(u) # writes[f]}

Finish ==
    \E listed, works \in BOOLEAN :
       \E r \in {Synced([config EXCEPT !.default = sync.default], dyn, listed)} :
          /\ sync.phase = "sync"
          /\ listed \/ sync.full
          /\ config' = r.config /\ dyn' = r.dyn /\ tracker' = r.links /\ disk' = Over(r.writes, disk)
          /\ running' = checkConfigChange(config, r.config, Over(r.writes, disk), works)
          /\ seen' = IF sync.full THEN [secrets |-> secrets, ok |-> listed] ELSE seen
          /\ stray' = (IF sync.full THEN {} ELSE stray) \cup Strays(r.config, r.writes)
          /\ sync' = Idle
          /\ UNCHANGED <<conf, secrets, confCur, changed, changes>>

Next == ChangeSecret \/ ChangeConf \/ Start \/ Finish
Spec == Init /\ [][Next]_vars

-----------------------------------------------------------------------------
Settled == sync.phase = "idle" /\ changed = [secrets |-> {}, conf |-> FALSE] /\ seen.ok
RunningHost(h) == running.config.hosts[h]
InMemory(f) == IF f.file = <<>> THEN <<>> ELSE running.mem[f.file]

\* What the configuration promises for a secret, said of its content alone.
HasPair(s) == s.exists /\ s.crt = s.key /\ s.crt \notin {"", "bad"} /\ s.ca \in {"", s.crt}
HasCA(s) == /\ s.exists /\ s.ca \notin {"", "bad"}
            /\ IF s.crt # "" /\ s.key # "" THEN HasPair(s) ELSE s.crl # "bad"
FromFile(ref) == ref # <<>> /\ ref[1] = "file" /\ <<"file", ref[2], ref[3]>> \in ExternalFiles
FromSecret(h, ref, key) ==
    /\ ref # <<>> /\ ref[1] = "secret"
    /\ \/ ref[2] \in {"", HostNS[h]}
       \/ StaticCrossNamespaceSecrets
       \/ key \in DOMAIN conf /\ conf[key] = "allow"
External(ref) == <<"external", ref[2], ref[3]>>
Pem(s) == <<"pem", s.crt, s.ca>>
Target(h, ref) == Content0(<<IF ref[2] = "" THEN HostNS[h] ELSE ref[2], ref[3]>>, secrets)
DefaultPem ==
    LET ref == DefaultCrtSecret
        s == Content0(<<ref[2], ref[3]>>, secrets)
    IN  IF FromFile(ref) THEN External(ref)
        ELSE IF ref # <<>> /\ ref[1] = "secret" /\ HasPair(s) THEN Pem(s) ELSE FakeCrt.hash
PromisedCrt(h) ==
    LET ref == Ref[h].tls
        s == Target(h, ref)
    IN  IF FromFile(ref) THEN External(ref)
        ELSE IF FromSecret(h, ref, "cross-namespace-secrets-crt") /\ HasPair(s) THEN Pem(s) ELSE DefaultPem
PromisedCA(h) ==
    LET ref == Ref[h].ca
        s == Target(h, ref)
    IN  IF FromFile(ref) THEN External(ref)
        ELSE IF FromSecret(h, ref, "cross-namespace-secrets-ca") /\ HasCA(s)
        THEN IF s.crt # "" /\ s.key # "" THEN Pem(s) ELSE <<"ca", s.ca, "">>
        ELSE IF ref # <<>> /\ Ref[h].strict THEN FakeCA.hash ELSE <<>>
PromisedCRL(h) ==
    LET ref == Ref[h].ca
        s == Target(h, ref)
    IN  IF /\ FromSecret(h, ref, "cross-namespace-secrets-ca") /\ HasCA(s)
           /\ (s.crt = "" \/ s.key = "") /\ s.crl # ""
        THEN <<"crl", s.crl, "">> ELSE <<>>

\* HAProxy has the content for a file, unless a read wrote the file for nobody.
Loaded(f, content) == f.file \in stray \/ InMemory(f) = content

Allowed(key) == StaticCrossNamespaceSecrets \/ (key \in DOMAIN confCur /\ confCur[key] = "allow")
OtherNamespace(h, f) == f.file # <<>> /\ f.file # config.default.file /\ f.file[1] # "file"
                        /\ f.file[2] \notin {"", HostNS[h]}

TypeOK ==
    /\ conf \in Confs /\ confCur \in Confs \cup {Malformed}
    /\ secrets \in [Secret -> Content \cup {NoSecret}]
    /\ changed.secrets \subseteq Secret /\ changed.conf \in BOOLEAN
    /\ sync.phase \in {"idle", "sync"} /\ sync.full \in BOOLEAN /\ sync.dirty \subseteq Host
    /\ tracker \subseteq Secret \X Host
    /\ dyn \in [{"ca", "crt", "passwd", "services"} -> BOOLEAN]
    /\ DOMAIN config.hosts \in {{}, Host} /\ DOMAIN running.mem \subseteq DOMAIN disk
    /\ changes \in 0..MaxChanges

\* Once the notifications are handled, HAProxy presents on each host the
\* certificate that its secret has now, whether it came by a command or by a
\* reload, and the default one if the secret may not be read, is missing or does
\* not hold a valid pair.
ServersPresented ==
    Settled => \A h \in Host : Loaded(RunningHost(h).tls, PromisedCrt(h))

\* And verifies the clients of the host with the authority and the revocation
\* list that their secret has now.  With auth-tls-strict a broken secret never
\* lets the clients in without a verification (annotations/host.go:58).
ClientsVerified ==
    Settled => \A h \in Host : /\ Loaded(RunningHost(h).ca, PromisedCA(h))
                               /\ Loaded(RunningHost(h).crl, PromisedCRL(h))

\* What HAProxy has in memory of the certificates, authorities and revocation
\* lists is what the secrets have, after any mix of commands and reloads.  The
\* exception is a file that a read wrote for nobody, until the next full sync: if
\* HAProxy loads it and the secret then gets its old content back, the hosts that
\* use the file did not change, and nothing loads it again.
CertsLoaded == ServersPresented /\ ClientsVerified

\* The configuration that HAProxy runs never uses, on a host, the file of a secret
\* of another namespace if the ConfigMap of the last sync denies it, also while
\* newer changes wait.
CrossNamespace ==
    sync.phase = "idle" =>
       \A h \in DOMAIN running.config.hosts :
          /\ OtherNamespace(h, RunningHost(h).tls) => Allowed("cross-namespace-secrets-crt")
          /\ RunningHost(h).ca # NoFile /\ OtherNamespace(h, RunningHost(h).ca)
                => Allowed("cross-namespace-secrets-ca")

\* The global configuration is what the current ConfigMap makes of an empty one:
\* nothing is left of an earlier ConfigMap, although most of the builders return
\* without clearing what they do not like.  Its secrets are those of the last full
\* sync: the one of the stats page and the DH parameters are not linked.
GlobalCurrent ==
    Settled => running.config.global = GlobalFrom(Zero, conf, seen.secrets)

LengthOf(lines) ==
    LET head == {n \in DOMAIN lines : \A m \in 1..n : lines[m].kind # "blank"}
        text == {n \in DOMAIN lines \ head : lines[n].kind # "blank"}
    IN  SumFunctionOnSet([n \in text |-> lines[n].size + 1], text)

\* Whatever is malformed in the ConfigMap, HAProxy gets a response of every kind that
\* its Lua script serves, with a length that is that of the lines after the headers;
\* a match order with all of the path types; a user only with a group; and the time
\* to close the sessions of an old instance is shorter than timeout-stop
\* (keys.md:1207).
GlobalComplete ==
    LET g == running.config.global
        stop == Value(Merged(conf), "timeout-stop", NoTime).ms
    IN  Settled =>
          /\ [n \in DOMAIN g.lua |-> g.lua[n].name] = [n \in DOMAIN LuaResponses |-> LuaResponses[n][1]]
          /\ \A r \in Range(g.lua) \cup Range(g.ha) :
                /\ r.code \in 101..599
                /\ r.given => r.size = LengthOf(Lines(conf, "http-response-" \o r.name))
          /\ Len(g.order) = 4 /\ Range(g.order) = Range(DefaultMatchOrder)
          /\ (g.security[1] = "") = (g.security[2] = "")
          /\ g.closeSessions # 0 => stop # Malformed /\ g.closeSessions < stop
=============================================================================
