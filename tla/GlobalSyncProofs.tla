-------------------------- MODULE GlobalSyncProofs --------------------------
(***************************************************************************)
(* GlobalSync.tla for any set of hosts, secrets and ConfigMaps, and any    *)
(* number of changes.  First SyncInv: a sync that starts with a            *)
(* notification never mixes the configuration of two ConfigMaps.  Then     *)
(* CertInv: what HAProxy has loaded of the certificates is what the        *)
(* secrets have.                                                           *)
(***************************************************************************)
EXTENDS GlobalSync, TLAPS

\* A leaf is for Zenon unless it names another prover.
USE ZenonT(90)

IsFile(f) == f = [file |-> f.file, hash |-> f.hash]
IsHost(r) == r = [tls |-> r.tls, ca |-> r.ca, crl |-> r.crl] /\ IsFile(r.tls)
IsRead(r) == r = [err |-> r.err, crt |-> r.crt, ca |-> r.ca, crl |-> r.crl,
                  writes |-> r.writes, links |-> r.links]

\* A file of a namespace other than ns.
Foreign(f, ns) == f.file # <<>> /\ f.file[1] # "file" /\ f.file[2] \notin {"", ns}

-----------------------------------------------------------------------------
(* What a read returns.                                                    *)

\* The files that come from a secret have its namespace in their names.
LEMMA CertificateFiles ==
    ASSUME NEW id, NEW s
    PROVE  LET r == getCertificate(id, s)
           IN  /\ IsFile(r.crt) /\ IsFile(r.ca)
               /\ r.crt.file \in {<<>>, <<"crt", id[1], id[2]>>}
               /\ r.ca.file \in {<<>>, <<"crt", id[1], id[2]>>, <<"ca", id[1], id[2]>>}
<1>1. LET r == Failed
      IN  /\ IsFile(r.crt) /\ IsFile(r.ca) /\ r.crt.file = <<>> /\ r.ca.file = <<>>
  BY DEF Failed, NoFile, IsFile
<1>2. LET r == buildCertFromCrtAndKey(id, s)
      IN  /\ IsFile(r.crt) /\ IsFile(r.ca)
          /\ r.crt.file \in {<<>>, <<"crt", id[1], id[2]>>}
          /\ r.ca.file \in {<<>>, <<"crt", id[1], id[2]>>}
  BY DEF buildCertFromCrtAndKey, FileAt, Failed, NoFile, IsFile
<1>3. LET r == buildCertFromCAAndCRL(id, s)
      IN  /\ IsFile(r.crt) /\ IsFile(r.ca)
          /\ r.crt.file = <<>>
          /\ r.ca.file \in {<<>>, <<"ca", id[1], id[2]>>}
  BY DEF buildCertFromCAAndCRL, FileAt, Failed, NoFile, IsFile
<1> QED
  BY <1>1, <1>2, <1>3 DEF getCertificate

\* A resource of another namespace has a name only if it is allowed.
LEMMA ResourceNamespace ==
    ASSUME NEW ns, NEW ref, NEW allow,
           buildResourceName(ns, ref, allow) # <<>>
    PROVE  ns = "" \/ allow \/ buildResourceName(ns, ref, allow)[1] = ns
BY DEF buildResourceName

\* A file named after a resource is of another namespace only if that is allowed.
LEMMA ForeignAllowed ==
    ASSUME NEW ns, NEW ref, NEW allow \in BOOLEAN, NEW f, NEW dir, dir # "file",
           buildResourceName(ns, ref, allow) # <<>>,
           LET id == buildResourceName(ns, ref, allow)
           IN  f.file \in {<<>>, <<dir, id[1], id[2]>>},
           Foreign(f, ns)
    PROVE  ns = "" \/ allow
<1> DEFINE id == buildResourceName(ns, ref, allow)
<1>1. f.file = <<dir, id[1], id[2]>> /\ f.file[2] # ns
  BY DEF Foreign
<1>2. id[1] # ns
  BY SMTT(90), <1>1
<1> QED
  BY <1>2, ResourceNamespace

\* A read with another outcome has the same files.
LEMMA ReadExcept ==
    ASSUME NEW r, IsRead(r), NEW e
    PROVE  LET x == [r EXCEPT !.err = e] IN IsRead(x) /\ x.err = e /\ x.crt = r.crt /\ x.ca = r.ca
BY SMTT(90) DEF IsRead

\* A certificate of another namespace is only read where that is allowed.
LEMMA TLSRead ==
    ASSUME NEW ns, NEW ref, NEW allow \in BOOLEAN, NEW ss
    PROVE  LET r == GetTLSSecretPath(ns, ref, allow, ss)
           IN  /\ IsRead(r) /\ IsFile(r.crt)
               /\ Foreign(r.crt, ns) => ns = "" \/ allow
<1> DEFINE id == buildResourceName(ns, ref, allow)
           c == getCertificate(id, Content0(id, ss))
           read == Linked(c, id)
           r == GetTLSSecretPath(ns, ref, allow, ss)
<1>1. IsRead(Refused) /\ IsFile(Refused.crt) /\ ~Foreign(Refused.crt, ns)
  BY DEF Refused, NoFile, IsRead, IsFile, Foreign
<1>2. LET f == ReadFile(ref, "crt") IN IsRead(f) /\ IsFile(f.crt) /\ ~Foreign(f.crt, ns)
  BY <1>1 DEF ReadFile, Refused, FileAt, NoFile, IsRead, IsFile, Foreign
<1>3. ASSUME id # <<>>
      PROVE  LET f == [read EXCEPT !.err = @ \/ read.crt = NoFile]
             IN  IsRead(f) /\ IsFile(f.crt) /\ (Foreign(f.crt, ns) => ns = "" \/ allow)
  <2>1. IsRead(read) /\ read.crt = c.crt
    BY SMTT(90) DEF Linked, Refused, IsRead
  <2>2. IsFile(c.crt) /\ c.crt.file \in {<<>>, <<"crt", id[1], id[2]>>}
    BY CertificateFiles
  <2>3. Foreign(c.crt, ns) => ns = "" \/ allow
    BY <1>3, <2>2, ForeignAllowed
  <2> QED
    BY <2>1, <2>2, <2>3, ReadExcept
<1> QED
  BY <1>1, <1>2, <1>3 DEF GetTLSSecretPath

\* So is an authority.
LEMMA CARead ==
    ASSUME NEW ns, NEW ref, NEW allow \in BOOLEAN, NEW ss
    PROVE  LET r == GetCASecretPath(ns, ref, allow, ss)
           IN  /\ IsRead(r)
               /\ Foreign(r.ca, ns) => ns = "" \/ allow
<1> DEFINE id == buildResourceName(ns, ref, allow)
           c == getCertificate(id, Content0(id, ss))
           read == Linked(c, id)
           r == GetCASecretPath(ns, ref, allow, ss)
<1>1. IsRead(Refused) /\ ~Foreign(Refused.ca, ns)
  BY DEF Refused, NoFile, IsRead, Foreign
<1>2. LET f == ReadFile(ref, "ca") IN IsRead(f) /\ ~Foreign(f.ca, ns)
  BY <1>1 DEF ReadFile, Refused, FileAt, NoFile, IsRead, Foreign
<1>3. ASSUME id # <<>>
      PROVE  LET f == [read EXCEPT !.err = @ \/ read.ca = NoFile]
             IN  IsRead(f) /\ (Foreign(f.ca, ns) => ns = "" \/ allow)
  <2>1. IsRead(read) /\ read.ca = c.ca
    BY SMTT(90) DEF Linked, Refused, IsRead
  <2>2. \/ c.ca.file \in {<<>>, <<"crt", id[1], id[2]>>}
        \/ c.ca.file \in {<<>>, <<"ca", id[1], id[2]>>}
    BY CertificateFiles
  <2>3. Foreign(c.ca, ns) => ns = "" \/ allow
    <3>1. "crt" # "file" /\ "ca" # "file"
      OBVIOUS
    <3> QED
      BY <1>3, <2>2, <3>1, ForeignAllowed
  <2> QED
    BY <2>1, <2>3, ReadExcept
<1> QED
  BY <1>1, <1>2, <1>3 DEF GetCASecretPath

\* The default certificate is a file.
LEMMA DefaultIsFile ==
    ASSUME NEW ss
    PROVE  IsFile(readDefaultCertificate(ss).crt)
<1> DEFINE read == GetTLSSecretPath("", DefaultCrtSecret, FALSE, ss)
<1>1. IsRead(read) /\ IsFile(read.crt)
  BY TLSRead
<1>2. IsFile(FakeCrt)
  BY DEF FakeCrt, FileAt, IsFile
<1>3. [read EXCEPT !.crt = FakeCrt].crt = FakeCrt
  BY <1>1 DEF IsRead
<1>4. [Refused EXCEPT !.err = FALSE, !.crt = FakeCrt].crt = FakeCrt
  BY DEF Refused
<1> HIDE DEF read
<1> QED
  BY <1>1, <1>2, <1>3, <1>4 DEF readDefaultCertificate, read

\* The files of a host are the default certificate, or come from its own
\* namespace unless d allows another one.
HostAllowed(h, r, d, default) ==
    /\ Foreign(r.tls, HostNS[h]) /\ r.tls.file # default.file => d.crt
    /\ Foreign(r.ca, HostNS[h]) => d.ca

\* The permissions of a host's certificate and of its CA are flags.
Flags(d) == d.crt \in BOOLEAN /\ d.ca \in BOOLEAN

\* A host has the default certificate, or files that the permissions allow.
LEMMA HostFiles ==
    ASSUME NEW h \in Host, NEW d, d.crt \in BOOLEAN, d.ca \in BOOLEAN, NEW ss,
           NEW default, IsFile(default)
    PROVE  LET r == HostOf(h, d, ss, default).host
           IN  IsHost(r) /\ HostAllowed(h, r, d, default)
<1> DEFINE tls == addTLS(h, d, ss, default)
           ca == setAuthTLSConfig(h, d, ss)
           ns == HostNS[h]
<1>1. ns # ""
  BY GlobalSyncAssumption
<1>2. /\ IsFile(tls.crt)
      /\ Foreign(tls.crt, ns) /\ tls.crt.file # default.file => d.crt
  <2> DEFINE read == GetTLSSecretPath(ns, Ref[h].tls, d.crt, ss)
  <2>1. IsRead(read) /\ IsFile(read.crt) /\ (Foreign(read.crt, ns) => d.crt)
    BY <1>1, TLSRead
  <2>2. [read EXCEPT !.crt = default].crt = default
    BY <2>1 DEF IsRead
  <2>3. [Refused EXCEPT !.crt = default].crt = default
    BY DEF Refused
  <2>4. tls.crt = default \/ tls.crt = read.crt
    BY <2>2, <2>3 DEF addTLS
  <2> HIDE DEF read, tls
  <2> QED
    BY <2>1, <2>4
<1>3. Foreign(ca.ca, ns) => d.ca
  <2> DEFINE read == GetCASecretPath(ns, Ref[h].ca, d.ca, ss)
  <2>1. IsRead(read) /\ (Foreign(read.ca, ns) => d.ca)
    BY <1>1, CARead
  <2>2. \A x : [read EXCEPT !.ca = x, !.crl = NoFile].ca = x
    BY <2>1 DEF IsRead
  <2>3. ~Foreign(NoFile, ns) /\ ~Foreign(FakeCA, ns) /\ ~Foreign(Refused.ca, ns)
    BY DEF Foreign, NoFile, FakeCA, FileAt, Refused
  <2>4. ca.ca \in {NoFile, FakeCA, Refused.ca, read.ca}
    BY <2>2 DEF setAuthTLSConfig
  <2> HIDE DEF read, ca
  <2> QED
    BY <2>1, <2>3, <2>4
<1>4. HostOf(h, d, ss, default).host = [tls |-> tls.crt, ca |-> ca.ca, crl |-> ca.crl]
  BY DEF HostOf
<1> HIDE DEF tls, ca
<1> QED
  BY SMTT(90), <1>2, <1>3, <1>4 DEF IsHost, HostAllowed
-----------------------------------------------------------------------------
(* The inductive invariant.                                                *)

IsConfig(c) ==
    /\ c = [global |-> c.global, default |-> c.default, hosts |-> c.hosts]
    /\ c.hosts = [h \in DOMAIN c.hosts |-> c.hosts[h]]
    /\ DOMAIN c.hosts \subseteq Host
    /\ \A h \in DOMAIN c.hosts : IsHost(c.hosts[h])

\* HAProxy runs with run, which has the files of the configuration c, and these
\* are files that d allows.
Runs(run, c, d) ==
    /\ run.global = c.global
    /\ DOMAIN run.hosts = DOMAIN c.hosts
    /\ \A h \in DOMAIN c.hosts :
          /\ run.hosts[h].tls.file = c.hosts[h].tls.file
          /\ run.hosts[h].ca = c.hosts[h].ca
          /\ run.hosts[h].crl = c.hosts[h].crl
          /\ HostAllowed(h, c.hosts[h], d, c.default)

\* A configuration that is built from parts.
LEMMA ConfigShape ==
    ASSUME NEW g, NEW default, NEW hosts, hosts = [h \in DOMAIN hosts |-> hosts[h]],
           DOMAIN hosts \subseteq Host, \A h \in DOMAIN hosts : IsHost(hosts[h])
    PROVE  IsConfig([global |-> g, default |-> default, hosts |-> hosts])
BY DEF IsConfig

\* After a reload.
LEMMA RunsSame ==
    ASSUME NEW c, NEW d, \A h \in DOMAIN c.hosts : HostAllowed(h, c.hosts[h], d, c.default)
    PROVE  Runs(c, c, d)
BY DEF Runs

\* Two hosts that differ in the content of the server certificate only have the
\* same files.
LEMMA CertOnlyFiles ==
    ASSUME NEW old, NEW new, IsHost(old), CertOnly(old, new)
    PROVE  old.tls.file = new.tls.file /\ old.ca = new.ca /\ old.crl = new.crl
BY DEF IsHost, IsFile, CertOnly

\* After an update without a reload.
LEMMA RunsNewer ==
    ASSUME NEW run, NEW old, NEW new, NEW d, Runs(run, old, d),
           new.global = old.global, DOMAIN new.hosts = DOMAIN old.hosts,
           \A h \in DOMAIN new.hosts : /\ IsHost(old.hosts[h])
                                       /\ CertOnly(old.hosts[h], new.hosts[h])
                                       /\ HostAllowed(h, new.hosts[h], d, new.default)
    PROVE  Runs(run, new, d)
<1>1. \A h \in DOMAIN new.hosts : /\ old.hosts[h].tls.file = new.hosts[h].tls.file
                                  /\ old.hosts[h].ca = new.hosts[h].ca
                                  /\ old.hosts[h].crl = new.hosts[h].crl
  BY CertOnlyFiles
<1> QED
  BY <1>1 DEF Runs

\* The records have their fields.
Shapes ==
    /\ changed = [secrets |-> changed.secrets, conf |-> changed.conf]
    /\ changed.conf \in BOOLEAN
    /\ sync.full \in BOOLEAN /\ IsFile(sync.default)
    /\ IsConfig(config)
    /\ dyn.crt \in BOOLEAN /\ dyn.ca \in BOOLEAN

\* A full sync is in progress.
Rebuilding == sync.phase = "sync" /\ sync.full

\* What a sync that is not full may rely on: the configuration, what is allowed
\* and what HAProxy runs are those of the ConfigMap of the last sync.  If the
\* ingress resources could not be listed, there are no hosts.
Consistent ==
    /\ seen.ok => config.global = GlobalFrom(Zero, confCur, seen.secrets)
    /\ Runs(running.config, config, dyn)
    /\ DOMAIN config.hosts # {} =>
          /\ dyn.crt => Allowed("cross-namespace-secrets-crt")
          /\ dyn.ca => Allowed("cross-namespace-secrets-ca")

SyncInv ==
    /\ Shapes
    /\ changed.conf \/ conf = confCur
    /\ sync.phase = "sync" => sync.conf = confCur
    /\ sync.phase = "sync" /\ ~sync.full => sync.default = config.default
    /\ Rebuilding => config = NewConfig
    /\ ~Rebuilding => Consistent

\* The controller starts without a configuration and without hosts.
LEMMA SyncInit == Init => SyncInv
<1> SUFFICES ASSUME Init PROVE SyncInv
  OBVIOUS
<1>1. sync.phase = "idle" /\ sync.full = FALSE /\ sync.default = NoFile
  BY DEF Init, Idle
<1>2. config = NewConfig /\ config.hosts = NoHosts /\ DOMAIN config.hosts = {}
  BY DEF Init, NewConfig, NoHosts
<1>3. running.config = NewConfig
  BY DEF Init
<1>4. Shapes
  BY <1>1, <1>2 DEF Init, Shapes, IsConfig, NewConfig, NoHosts, IsFile, NoFile
<1>5. Consistent
  <2>1. ~seen.ok
    BY DEF Init
  <2> QED
    BY <1>2, <1>3, <2>1, RunsSame DEF Consistent
<1> QED
  BY <1>1, <1>4, <1>5 DEF Init, SyncInv, Rebuilding

\* A change of a secret is only noted, whatever the phase of the sync.
LEMMA ChangeSecretKeeps == SyncInv /\ ChangeSecret => SyncInv'
<1> SUFFICES ASSUME SyncInv, ChangeSecret PROVE SyncInv'
  OBVIOUS
<1>1. changed'.conf = changed.conf /\ changed' = [secrets |-> changed'.secrets, conf |-> changed'.conf]
  BY DEF ChangeSecret, SyncInv, Shapes
<1>2. UNCHANGED <<conf, confCur, sync, tracker, dyn, config, disk, running, seen>>
  BY DEF ChangeSecret
<1>3. Shapes'
  BY <1>1, <1>2 DEF SyncInv, Shapes
<1>4. Consistent' <=> Consistent
  BY <1>2 DEF Consistent, Allowed
<1> QED
  BY <1>1, <1>2, <1>3, <1>4 DEF SyncInv, Rebuilding

\* A change of the ConfigMap is noted: the one of the last sync stays in confCur.
LEMMA ChangeConfKeeps == SyncInv /\ ChangeConf => SyncInv'
<1> SUFFICES ASSUME SyncInv, ChangeConf PROVE SyncInv'
  OBVIOUS
<1>1. changed'.conf = TRUE /\ changed' = [secrets |-> changed'.secrets, conf |-> changed'.conf]
  BY DEF ChangeConf, SyncInv, Shapes
<1>2. UNCHANGED <<confCur, sync, tracker, dyn, config, disk, running, seen>>
  BY DEF ChangeConf
<1>3. Shapes'
  BY <1>1, <1>2 DEF SyncInv, Shapes
<1>4. Consistent' <=> Consistent
  BY <1>2 DEF Consistent, Allowed
<1> QED
  BY <1>1, <1>2, <1>3, <1>4 DEF SyncInv, Rebuilding

\* A sync starts with the ConfigMap of the cluster, and from an empty configuration if
\* that is another one.
LEMMA StartKeeps == SyncInv /\ Start => SyncInv'
<1> SUFFICES ASSUME SyncInv, Start PROVE SyncInv'
  OBVIOUS
<1> DEFINE default == readDefaultCertificate(secrets)
           full == default.crt # config.default \/ (changed.conf /\ conf # confCur)
<1>1. /\ sync'.phase = "sync" /\ sync'.full = full /\ sync'.default = default.crt /\ sync'.conf = conf
      /\ confCur' = conf
      /\ changed' = [secrets |-> {}, conf |-> FALSE]
      /\ config' = IF full THEN NewConfig ELSE config
      /\ UNCHANGED <<conf, dyn, running, seen>>
  BY DEF Start, Clear
<1>2. IsFile(default.crt)
  BY DefaultIsFile
<1> HIDE DEF default
<1>3. CASE full
  <2>1. config' = NewConfig /\ IsConfig(NewConfig)
    BY <1>1, <1>3 DEF NewConfig, NoHosts, IsConfig
  <2>2. Shapes'
    BY <1>1, <1>2, <1>3, <2>1 DEF SyncInv, Shapes
  <2> QED
    BY <1>1, <1>3, <2>1, <2>2 DEF SyncInv, Rebuilding
<1>4. CASE ~full
  <2>1. confCur' = confCur /\ config' = config
    BY <1>1, <1>4 DEF SyncInv
  <2>2. Shapes'
    BY <1>1, <1>2, <1>4, <2>1 DEF SyncInv, Shapes
  <2>3. Consistent
    BY DEF SyncInv, Rebuilding, Start
  <2>4. Consistent'
    BY <1>1, <2>1, <2>3 DEF Consistent, Allowed
  <2> QED
    BY <1>1, <1>4, <2>1, <2>2, <2>4 DEF SyncInv, Rebuilding
<1> QED
  BY <1>3, <1>4

\* What a sync allows is what its ConfigMap says.
LEMMA DynamicAllowed ==
    LET d == buildGlobalDynamic(confCur, StaticCrossNamespaceSecrets)
    IN  /\ d.crt \in BOOLEAN /\ d.ca \in BOOLEAN
        /\ d.crt => Allowed("cross-namespace-secrets-crt")
        /\ d.ca => Allowed("cross-namespace-secrets-ca")
BY GlobalSyncAssumption DEF buildGlobalDynamic, validateAllowDeny, Allowed

\* A full sync builds everything with one ConfigMap; a partial one is only made under
\* the same ConfigMap and the same default certificate.
LEMMA FinishKeeps == SyncInv /\ Finish => SyncInv'
<1> SUFFICES ASSUME SyncInv, NEW listed \in BOOLEAN, NEW works \in BOOLEAN,
                    LET r == Synced([config EXCEPT !.default = sync.default], dyn, listed)
                    IN  /\ sync.phase = "sync"
                        /\ config' = r.config /\ dyn' = r.dyn
                        /\ running' = checkConfigChange(config, r.config, Over(r.writes, disk), works)
                        /\ seen' = IF sync.full THEN [secrets |-> secrets, ok |-> listed] ELSE seen
                        /\ sync' = Idle
                        /\ UNCHANGED <<conf, confCur, changed>>
             PROVE  SyncInv'
  BY DEF Finish
<1> DEFINE start == [config EXCEPT !.default = sync.default]
<1>1. start = [global |-> config.global, default |-> sync.default, hosts |-> config.hosts]
  BY SMTT(90) DEF SyncInv, Shapes, IsConfig
<1>2. sync.phase = "sync" /\ sync.conf = confCur /\ sync.full \in BOOLEAN /\ IsFile(sync.default)
  BY DEF SyncInv, Shapes
<1>3. sync'.phase = "idle" /\ sync'.full = FALSE /\ sync'.default = NoFile /\ IsFile(sync'.default)
  BY DEF Idle, NoFile, IsFile
<1>4. UNCHANGED <<conf, confCur, changed>>
  OBVIOUS
<1>5. SUFFICES /\ IsConfig(config') /\ dyn'.crt \in BOOLEAN /\ dyn'.ca \in BOOLEAN
               /\ Consistent'
  BY <1>3, <1>4 DEF SyncInv, Shapes, Rebuilding
<1>6. CASE sync.full /\ listed
  <2> DEFINE d == buildGlobalDynamic(confCur, StaticCrossNamespaceSecrets)
             hosts == [h \in Host |-> HostOf(h, d, secrets, sync.default).host]
             g == GlobalFrom(Zero, confCur, secrets)
             c == [global |-> g, default |-> sync.default, hosts |-> hosts]
  <2>1. start = [global |-> Zero, default |-> sync.default, hosts |-> NoHosts]
    BY SMTT(90), <1>1, <1>2, <1>6 DEF SyncInv, Rebuilding, NewConfig
  <2>2. config' = syncFull(start, dyn).config /\ dyn' = syncFull(start, dyn).dyn
    BY <1>6 DEF Synced
  <2>3. running'.config = config'
    BY <1>6, <2>2 DEF checkConfigChange, Synced
  <2>4. seen' = [secrets |-> secrets, ok |-> TRUE]
    BY <1>6
  <2> HIDE DEF start
  <2>5. dyn' = d
    BY <1>2, <2>2 DEF syncFull, FullResult
  <2>6. config' = c
    <3>1. config' = [start EXCEPT !.global = GlobalFrom(start.global, sync.conf, secrets),
                                  !.hosts = hosts]
      BY <1>2, <2>2 DEF syncFull, FullResult
    <3> HIDE DEF hosts
    <3> QED
      BY <1>2, <2>1, <3>1
  <2>7. /\ d.crt \in BOOLEAN /\ d.ca \in BOOLEAN
        /\ d.crt => Allowed("cross-namespace-secrets-crt")
        /\ d.ca => Allowed("cross-namespace-secrets-ca")
    BY DynamicAllowed
  <2> HIDE DEF d
  <2>8. DOMAIN hosts = Host /\ hosts = [h \in DOMAIN hosts |-> hosts[h]]
    OBVIOUS
  <2>9. \A h \in Host : IsHost(hosts[h]) /\ HostAllowed(h, hosts[h], d, sync.default)
    BY SMTT(90), <1>2, <2>7, HostFiles
  <2> HIDE DEF hosts, g
  <2>10. IsConfig(c)
    BY <2>8, <2>9, ConfigShape
  <2>11. Runs(c, c, d)
    BY <2>8, <2>9, RunsSame
  <2>12. c.global = g
    OBVIOUS
  <2> HIDE DEF c
  <2>13. Consistent'
    BY SMTT(90), <1>4, <2>3, <2>4, <2>5, <2>6, <2>7, <2>11, <2>12 DEF Consistent, Allowed, g
  <2> QED
    BY <2>5, <2>6, <2>7, <2>10, <2>13
<1>7. CASE sync.full /\ ~listed
  <2> DEFINE c == [global |-> Zero, default |-> sync.default, hosts |-> NoHosts]
  <2>1. start = c
    BY SMTT(90), <1>1, <1>2, <1>7 DEF SyncInv, Rebuilding, NewConfig
  <2>2. config' = syncFullFails(start, dyn).config /\ dyn' = syncFullFails(start, dyn).dyn
    BY <1>7 DEF Synced
  <2>3. running'.config = config'
    BY <1>7, <2>2 DEF checkConfigChange, Synced
  <2>4. ~seen'.ok
    BY <1>7
  <2> HIDE DEF start
  <2>5. config' = c /\ dyn' = dyn
    BY <2>1, <2>2 DEF syncFullFails
  <2>6. IsConfig(c) /\ DOMAIN c.hosts = {}
    BY DEF NoHosts, IsConfig
  <2>7. Runs(c, c, dyn)
    BY <2>6, RunsSame
  <2> HIDE DEF c
  <2>8. Consistent'
    BY <2>3, <2>4, <2>5, <2>6, <2>7 DEF Consistent
  <2> QED
    BY <2>5, <2>6, <2>8 DEF SyncInv, Shapes
<1>8. CASE ~sync.full
  <2> DEFINE hosts == [h \in DOMAIN config.hosts |->
                         IF h \in sync.dirty THEN HostOf(h, dyn, secrets, sync.default).host
                         ELSE config.hosts[h]]
             c == [global |-> config.global, default |-> config.default, hosts |-> hosts]
             dynamic == \A h \in DOMAIN config'.hosts : CertOnly(config.hosts[h], config'.hosts[h])
  <2>1. Consistent /\ sync.default = config.default
    BY <1>2, <1>8 DEF SyncInv, Rebuilding
  <2>2. config' = syncPartial(start, dyn).config /\ dyn' = syncPartial(start, dyn).dyn /\ seen' = seen
    BY <1>8 DEF Synced
  <2>3. running'.config = config' \/ (running'.config = running.config /\ dynamic)
    BY <1>8, <2>2 DEF checkConfigChange, Synced
  <2> HIDE DEF start
  <2>4. config' = c /\ dyn' = dyn
    <3>1. config' = [start EXCEPT !.hosts = hosts] /\ dyn' = dyn
      BY <1>1, <2>2 DEF syncPartial
    <3> HIDE DEF hosts
    <3> QED
      BY <1>1, <2>1, <3>1
  <2>5. DOMAIN hosts = DOMAIN config.hosts /\ hosts = [h \in DOMAIN hosts |-> hosts[h]]
    OBVIOUS
  <2>6. ASSUME NEW h \in DOMAIN config.hosts
        PROVE  IsHost(config.hosts[h]) /\ IsHost(hosts[h]) /\ HostAllowed(h, hosts[h], dyn, config.default)
    <3>1. h \in Host /\ IsHost(config.hosts[h]) /\ dyn.crt \in BOOLEAN /\ dyn.ca \in BOOLEAN
      BY DEF SyncInv, Shapes, IsConfig
    <3>2. CASE h \in sync.dirty
      <4>1. hosts[h] = HostOf(h, dyn, secrets, sync.default).host
        BY <3>2
      <4> HIDE DEF hosts
      <4> QED
        BY SMTT(90), <1>2, <2>1, <3>1, <4>1, HostFiles
    <3>3. CASE h \notin sync.dirty
      <4>1. hosts[h] = config.hosts[h]
        BY <3>3
      <4> HIDE DEF hosts
      <4> QED
        BY <2>1, <3>1, <4>1 DEF Consistent, Runs
    <3> QED
      BY <3>2, <3>3
  <2> HIDE DEF hosts
  <2>7. c.global = config.global /\ c.hosts = hosts /\ c.default = config.default
    OBVIOUS
  <2>8. IsConfig(c)
    <3>1. DOMAIN hosts \subseteq Host
      BY <2>5 DEF SyncInv, Shapes, IsConfig
    <3> QED
      BY <2>5, <2>6, <3>1, ConfigShape
  <2> HIDE DEF c
  <2>9. Runs(running'.config, c, dyn)
    <3>1. CASE running'.config = config'
      BY <2>4, <2>5, <2>6, <2>7, <3>1, RunsSame
    <3>2. CASE running'.config = running.config /\ dynamic
      <4>1. Runs(running.config, config, dyn)
        BY <2>1 DEF Consistent
      <4>2. \A h \in DOMAIN c.hosts : CertOnly(config.hosts[h], c.hosts[h])
        BY <2>4, <3>2
      <4> QED
        BY <2>5, <2>6, <2>7, <3>2, <4>1, <4>2, RunsNewer
    <3> QED
      BY <2>3, <3>1, <3>2
  <2>10. Consistent'
    BY <1>4, <2>1, <2>2, <2>4, <2>5, <2>7, <2>9 DEF Consistent, Allowed
  <2> QED
    BY <2>4, <2>8, <2>10 DEF SyncInv, Shapes
<1> QED
  BY <1>2, <1>6, <1>7, <1>8

\* Every step of the controller keeps SyncInv.
LEMMA SyncNext == SyncInv /\ [Next]_vars => SyncInv'
<1>1. SyncInv /\ UNCHANGED vars => SyncInv'
  BY DEF vars, SyncInv, Shapes, Consistent, Rebuilding, Allowed
<1> QED
  BY <1>1, ChangeSecretKeeps, ChangeConfKeeps, StartKeeps, FinishKeeps DEF Next

\* At any time the configuration, what may be read from other namespaces and what
\* HAProxy runs are those of one ConfigMap, that of the last sync.
THEOREM SyncInvariant == Spec => []SyncInv
BY SyncInit, SyncNext, PTL DEF Spec

\* No host ever runs with the file of a secret of another namespace that the
\* ConfigMap of the last sync denies: a change of the permission rebuilds every
\* host, and the hosts that a partial sync rebuilds read what the same ConfigMap
\* allows.
THEOREM CrossNamespaceCorrect == Spec => []CrossNamespace
<1>1. SyncInv => CrossNamespace
  <2> SUFFICES ASSUME SyncInv, sync.phase = "idle", NEW h \in DOMAIN running.config.hosts
               PROVE  /\ OtherNamespace(h, RunningHost(h).tls) => Allowed("cross-namespace-secrets-crt")
                      /\ OtherNamespace(h, RunningHost(h).ca) => Allowed("cross-namespace-secrets-ca")
    BY DEF CrossNamespace
  <2>1. Consistent
    BY DEF SyncInv, Rebuilding
  <2> QED
    BY <2>1 DEF Consistent, Runs, HostAllowed, OtherNamespace, RunningHost, Foreign
<1> QED
  BY <1>1, SyncInvariant, PTL

\* Once every notification is handled, the global configuration that HAProxy
\* runs is what the current ConfigMap makes of an empty one.
THEOREM GlobalCurrentCorrect == Spec => []GlobalCurrent
<1>1. SyncInv => GlobalCurrent
  BY SMTT(90) DEF SyncInv, Rebuilding, Consistent, Runs, GlobalCurrent, Settled
<1> QED
  BY <1>1, SyncInvariant, PTL

-----------------------------------------------------------------------------
(* The contents of the files.                                              *)

\* The files that no read writes: those of the fake certificate and authority, and
\* those that come from outside.
Fixed == {FakeCrt.file, FakeCA.file} \cup ExternalFiles
FixedContent(f) ==
    IF f = FakeCrt.file THEN FakeCrt.hash
    ELSE IF f = FakeCA.file THEN FakeCA.hash ELSE <<"external", f[2], f[3]>>

SecretOf(f) == <<f[2], f[3]>>

\* What the secrets ss make of a file.
Stored(f, ss) ==
    LET s == Content0(SecretOf(f), ss)
    IN  IF f \in Fixed THEN FixedContent(f)
        ELSE CASE f[1] = "crt" -> Pem(s)
               [] f[1] = "ca" -> <<"ca", s.ca, "">>
               [] f[1] = "crl" -> <<"crl", s.crl, "">>
               [] OTHER -> <<"dh", s.dh, "">>

\* The secrets that a reference reads.
LinkOf(ns, ref, allow) ==
    LET id == buildResourceName(ns, ref, allow)
    IN  IF ref = <<>> \/ ref[1] # "secret" \/ id = <<>> THEN {} ELSE {id}
DefaultLinks == LinkOf("", DefaultCrtSecret, FALSE)

\* The files of a host, by their use.
Use == {"tls", "ca", "crl"}
Part(h, k, d, ss, default) == HostOf(h, d, ss, default).host[k]
PartLinks(h, k, d) ==
    IF k = "tls" THEN LinkOf(HostNS[h], Ref[h].tls, d.crt) ELSE LinkOf(HostNS[h], Ref[h].ca, d.ca)


\* Reads write what the secrets have, and never a fixed file.
Faithful(writes, ss) ==
    \A f \in DOMAIN writes : f \notin Fixed /\ writes[f] = Stored(f, ss)

\* A file in use has the content of the secrets, and was written or is fixed.
Sourced(p, writes, links, ss) ==
    /\ p.file # <<>> /\ Held(p) = Stored(p.file, ss)
    /\ p.file \in Fixed \/ (p.file \in DOMAIN writes /\ SecretOf(p.file) \in links)

\* A secret that holds a pair, or an authority, gives its files; any other one
\* fails, or has no file of that use.
LEMMA CertificateOf ==
    ASSUME NEW id, NEW s
    PROVE  LET r == getCertificate(id, s)
               crt == FileAt(<<"crt", id[1], id[2]>>, Pem(s))
               hash == <<"ca", s.ca, s.crl>>
           IN  /\ HasPair(s) => ~r.err /\ r.crt = crt
               /\ ~HasPair(s) => r.err \/ r.crt = NoFile
               /\ HasCA(s) => /\ ~r.err
                              /\ IF s.crt # "" /\ s.key # "" THEN r.ca = crt /\ r.crl = NoFile
                                 ELSE /\ r.ca = FileAt(<<"ca", id[1], id[2]>>, hash)
                                      /\ r.crl = IF s.crl = "" THEN NoFile
                                                 ELSE FileAt(<<"crl", id[1], id[2]>>, hash)
               /\ ~HasCA(s) => r.err \/ r.ca = NoFile
BY DEF getCertificate, buildCertFromCrtAndKey, buildCertFromCAAndCRL, checkValidPEM, Failed,
       HasPair, HasCA, Pem

\* The files of both, with the contents of the first.
LEMMA OverFacts ==
    ASSUME NEW x, NEW y
    PROVE  /\ DOMAIN Over(x, y) = DOMAIN x \cup DOMAIN y
           /\ \A f \in DOMAIN x : Over(x, y)[f] = x[f]
           /\ \A f \in DOMAIN y \ DOMAIN x : Over(x, y)[f] = y[f]
BY DEF Over

\* What the read of a secret writes.
LEMMA CertificateWrites ==
    ASSUME NEW id \in Secret, NEW ss, DOMAIN ss = Secret
    PROVE  LET s == ss[id]
               r == getCertificate(id, s)
               crt == <<"crt", id[1], id[2]>>
               ca == <<"ca", id[1], id[2]>>
               crl == <<"crl", id[1], id[2]>>
           IN  /\ \A f \in DOMAIN r.writes :
                     \/ f = crt /\ r.writes[f] = Pem(s)
                     \/ f = ca /\ r.writes[f] = <<"ca", s.ca, "">>
                     \/ f = crl /\ r.writes[f] = <<"crl", s.crl, "">>
               /\ r.crt # NoFile => crt \in DOMAIN r.writes
               /\ r.ca # NoFile => r.ca.file \in DOMAIN r.writes
               /\ r.crl # NoFile => crl \in DOMAIN r.writes
<1> DEFINE s == ss[id]
           pair == buildCertFromCrtAndKey(id, s)
           auth == buildCertFromCAAndCRL(id, s)
           crt == <<"crt", id[1], id[2]>>
           ca == <<"ca", id[1], id[2]>>
           crl == <<"crl", id[1], id[2]>>
<1>1. /\ DOMAIN Failed.writes = {}
      /\ Failed.crt = NoFile /\ Failed.ca = NoFile /\ Failed.crl = NoFile
  BY DEF Failed, NoWrites
<1>2. pair # Failed => /\ DOMAIN pair.writes = {crt} /\ pair.writes[crt] = Pem(s)
                       /\ pair.crl = NoFile /\ (pair.ca = NoFile \/ pair.ca.file = crt)
  BY DEF buildCertFromCrtAndKey, Write, Pem, FileAt
<1>3. auth # Failed => /\ auth.writes = Over(Write(ca, <<"ca", s.ca, "">>),
                                             IF s.crl = "" THEN NoWrites
                                             ELSE Write(crl, <<"crl", s.crl, "">>))
                       /\ auth.crt = NoFile /\ auth.ca.file = ca
                       /\ auth.crl # NoFile => s.crl # ""
  BY DEF buildCertFromCAAndCRL, FileAt
<1>4. ca # crl
  OBVIOUS
<1>5. auth # Failed => /\ \A f \in DOMAIN auth.writes :
                             \/ f = ca /\ auth.writes[f] = <<"ca", s.ca, "">>
                             \/ f = crl /\ auth.writes[f] = <<"crl", s.crl, "">>
                       /\ ca \in DOMAIN auth.writes
                       /\ auth.crl # NoFile => crl \in DOMAIN auth.writes
  <2> DEFINE a == Write(ca, <<"ca", s.ca, "">>)
             b == IF s.crl = "" THEN NoWrites ELSE Write(crl, <<"crl", s.crl, "">>)
  <2>1. DOMAIN a = {ca} /\ a[ca] = <<"ca", s.ca, "">>
    BY DEF Write
  <2>2. /\ \A f \in DOMAIN b : f = crl /\ b[f] = <<"crl", s.crl, "">>
        /\ s.crl # "" => crl \in DOMAIN b
    BY DEF Write, NoWrites
  <2> HIDE DEF auth, ca, crl, s, a, b
  <2>3. auth # Failed => auth.writes = Over(a, b)
    BY <1>3 DEF a, b
  <2>4. /\ DOMAIN Over(a, b) = DOMAIN a \cup DOMAIN b
        /\ \A f \in DOMAIN a : Over(a, b)[f] = a[f]
        /\ \A f \in DOMAIN b \ DOMAIN a : Over(a, b)[f] = b[f]
    BY OverFacts
  <2> DEFINE w == Over(a, b)
  <2> HIDE DEF w
  <2>5. ca \in DOMAIN w /\ w[ca] = <<"ca", s.ca, "">> /\ (s.crl # "" => crl \in DOMAIN w)
    BY <2>1, <2>2, <2>4 DEF w
  <2>6. ASSUME NEW f \in DOMAIN w, f # ca PROVE f = crl /\ w[f] = <<"crl", s.crl, "">>
    <3>1. f \in DOMAIN b \ DOMAIN a
      BY <2>1, <2>4, <2>6 DEF w
    <3>2. w[f] = b[f]
      BY <2>4, <3>1 DEF w
    <3> QED
      BY <2>2, <3>1, <3>2
  <2>7. auth # Failed => auth.writes = w /\ (auth.crl # NoFile => s.crl # "")
    BY <1>3, <2>3 DEF w
  <2> QED
    BY <2>5, <2>6, <2>7
<1>6. getCertificate(id, s) \in {Failed, pair, auth}
  BY DEF getCertificate
<1> HIDE DEF pair, auth, crt, ca, crl, s
<1>7. CASE getCertificate(id, s) = Failed
  BY <1>1, <1>7 DEF crt, ca, crl, s
<1>8. CASE getCertificate(id, s) = pair /\ pair # Failed
  BY <1>2, <1>8 DEF crt, ca, crl, s
<1>9. CASE getCertificate(id, s) = auth /\ auth # Failed
  BY <1>3, <1>5, <1>9 DEF crt, ca, crl, s
<1> QED
  BY <1>6, <1>7, <1>8, <1>9

\* The name of the file of a secret, and what the secrets make of it.
LEMMA SecretFile ==
    ASSUME NEW id \in Secret, NEW ss, DOMAIN ss = Secret, NEW dir \in {"crt", "ca", "crl", "dh"}
    PROVE  LET f == <<dir, id[1], id[2]>>
               s == ss[id]
           IN  /\ f \notin Fixed /\ SecretOf(f) = id /\ f # <<>>
               /\ Stored(f, ss) = CASE dir = "crt" -> Pem(s)
                                    [] dir = "ca" -> <<"ca", s.ca, "">>
                                    [] dir = "crl" -> <<"crl", s.crl, "">>
                                    [] OTHER -> <<"dh", s.dh, "">>
<1> DEFINE f == <<dir, id[1], id[2]>>
<1>1. id = <<id[1], id[2]>> /\ id[1] # ""
  BY GlobalSyncAssumption
<1>2. f \notin Fixed
  <2>1. f[2] # "" /\ f[1] # "file"
    BY <1>1
  <2>2. FakeCrt.file[2] = "" /\ FakeCA.file[2] = ""
    BY DEF FakeCrt, FakeCA, FileAt
  <2>3. ASSUME NEW e \in ExternalFiles PROVE e[1] = "file"
    <3>1. e = <<"file", e[2], e[3]>>
      BY GlobalSyncAssumption
    <3>2. <<"file", e[2], e[3]>>[1] = "file"
      OBVIOUS
    <3> QED
      BY <3>1, <3>2
  <2> HIDE DEF f
  <2> QED
    BY <2>1, <2>2, <2>3 DEF Fixed
<1>3. SecretOf(f) = id /\ f[1] = dir /\ f # <<>>
  BY <1>1 DEF SecretOf
<1>4. Content0(id, ss) = ss[id]
  BY DEF Content0
<1> HIDE DEF f
<1>5. Stored(f, ss) = CASE dir = "crt" -> Pem(ss[id])
                        [] dir = "ca" -> <<"ca", ss[id].ca, "">>
                        [] dir = "crl" -> <<"crl", ss[id].crl, "">>
                        [] OTHER -> <<"dh", ss[id].dh, "">>
  BY <1>2, <1>3, <1>4 DEF Stored
<1> QED
  BY <1>2, <1>3, <1>5 DEF f

\* What a read returns, as its caller sees it.
Reads(r, links, ss) ==
    /\ IsRead(r) /\ r.links = links /\ Faithful(r.writes, ss)

\* A read of an external file, if there is one.
LEMMA ExternalRead ==
    ASSUME NEW ref, NEW field \in {"crt", "ca"}, NEW ss
    PROVE  LET r == ReadFile(ref, field)
           IN  /\ Reads(r, {}, ss)
               /\ ~r.err <=> <<"file", ref[2], ref[3]>> \in ExternalFiles
               /\ ~r.err => /\ r[field] = FileAt(<<"file", ref[2], ref[3]>>, <<"-", "", "">>)
                            /\ r.crl = NoFile
                            /\ Held(r[field]) = External(ref)
                            /\ Sourced(r[field], r.writes, {}, ss)
<1> DEFINE r == ReadFile(ref, field)
           f == <<"file", ref[2], ref[3]>>
<1>1. Reads(Refused, {}, ss) /\ Refused.err
  BY DEF Reads, IsRead, Refused, Faithful, NoWrites
<1>2. CASE f \notin ExternalFiles
  BY <1>1, <1>2 DEF ReadFile
<1>3. CASE f \in ExternalFiles
  <2>1. /\ IsRead(r) /\ r.links = {} /\ DOMAIN r.writes = {} /\ r.crl = NoFile /\ ~r.err
        /\ r[field] = FileAt(f, <<"-", "", "">>)
    BY <1>3 DEF ReadFile, Refused, IsRead, NoWrites
  <2>2. f # <<>> /\ f[1] = "file" /\ f \in Fixed
    BY <1>3 DEF Fixed
  <2>3. FixedContent(f) = External(ref)
    <3>1. FakeCrt.file[1] = "crt" /\ FakeCA.file[1] = "ca"
      BY DEF FakeCrt, FakeCA, FileAt
    <3>2. f # FakeCrt.file /\ f # FakeCA.file
      BY <2>2, <3>1
    <3> QED
      BY <3>2 DEF FixedContent, External
  <2>4. LET p == FileAt(f, <<"-", "", "">>) IN p.file = f /\ Held(p) = External(ref)
    BY DEF FileAt, Held, External
  <2>5. Stored(f, ss) = FixedContent(f)
    BY <2>2 DEF Stored
  <2> HIDE DEF r, f
  <2> QED
    BY <1>3, <2>1, <2>2, <2>3, <2>4, <2>5 DEF Reads, Faithful, Sourced, r, f
<1> QED
  BY <1>2, <1>3

\* The files of a secret, read for one use or another.
LEMMA SecretRead ==
    ASSUME NEW id, NEW ss, DOMAIN ss = Secret
    PROVE  LET s == Content0(id, ss)
               r == Linked(getCertificate(id, s), id)
           IN  /\ Reads(r, {id}, ss)
               /\ HasPair(s) => /\ ~r.err /\ r.crt # NoFile /\ Held(r.crt) = Pem(s)
                                /\ Sourced(r.crt, r.writes, {id}, ss)
               /\ ~HasPair(s) => r.err \/ r.crt = NoFile
               /\ HasCA(s) => /\ ~r.err /\ r.ca # NoFile
                              /\ Sourced(r.ca, r.writes, {id}, ss)
                              /\ Held(r.ca) = IF s.crt # "" /\ s.key # "" THEN Pem(s) ELSE <<"ca", s.ca, "">>
                              /\ IF (s.crt = "" \/ s.key = "") /\ s.crl # ""
                                 THEN /\ Sourced(r.crl, r.writes, {id}, ss)
                                      /\ Held(r.crl) = <<"crl", s.crl, "">>
                                 ELSE r.crl = NoFile
               /\ ~HasCA(s) => r.err \/ r.ca = NoFile
<1> DEFINE s == Content0(id, ss)
           c == getCertificate(id, s)
           r == Linked(c, id)
           hash == <<"ca", s.ca, s.crl>>
           crt == FileAt(<<"crt", id[1], id[2]>>, Pem(s))
           ca == FileAt(<<"ca", id[1], id[2]>>, hash)
           crl == FileAt(<<"crl", id[1], id[2]>>, hash)
<1>1. /\ IsRead(r) /\ r.links = {id} /\ r.writes = c.writes
      /\ r.err = c.err /\ r.crt = c.crt /\ r.ca = c.ca /\ r.crl = c.crl
  BY SMTT(90) DEF Linked, Refused, IsRead
<1>2. CASE id \notin Secret
  <2>1. ~s.exists
    BY <1>2 DEF Content0, NoSecret
  <2>2. c = Failed
    BY <2>1 DEF getCertificate
  <2>3. DOMAIN c.writes = {} /\ c.err
    BY SMTT(90), <2>2 DEF Failed, NoWrites
  <2>4. Reads(r, {id}, ss) /\ r.err
    BY <1>1, <2>3 DEF Reads, Faithful
  <2>5. ~HasPair(s) /\ ~HasCA(s)
    BY <2>1 DEF HasPair, HasCA
  <2> QED
    BY <2>4, <2>5
<1>3. CASE id \in Secret
  <2>1. s = ss[id]
    BY <1>3 DEF Content0
  <2>2. /\ crt # NoFile /\ crt.file = <<"crt", id[1], id[2]>> /\ Held(crt) = Pem(s)
        /\ ca # NoFile /\ ca.file = <<"ca", id[1], id[2]>> /\ Held(ca) = <<"ca", s.ca, "">>
        /\ crl # NoFile /\ crl.file = <<"crl", id[1], id[2]>> /\ Held(crl) = <<"crl", s.crl, "">>
    BY DEF FileAt, NoFile, Held
  <2>3. ASSUME NEW dir \in {"crt", "ca", "crl", "dh"}
        PROVE  LET f == <<dir, id[1], id[2]>>
               IN  /\ f \notin Fixed /\ SecretOf(f) = id /\ f # <<>>
                   /\ Stored(f, ss) = CASE dir = "crt" -> Pem(ss[id])
                                        [] dir = "ca" -> <<"ca", ss[id].ca, "">>
                                        [] dir = "crl" -> <<"crl", ss[id].crl, "">>
                                        [] OTHER -> <<"dh", ss[id].dh, "">>
    BY <1>3, SecretFile
  <2>4. /\ crt.file \notin Fixed /\ SecretOf(crt.file) = id /\ crt.file # <<>> /\ Stored(crt.file, ss) = Pem(s)
        /\ ca.file \notin Fixed /\ SecretOf(ca.file) = id /\ ca.file # <<>>
        /\ Stored(ca.file, ss) = <<"ca", s.ca, "">>
        /\ crl.file \notin Fixed /\ SecretOf(crl.file) = id /\ crl.file # <<>>
        /\ Stored(crl.file, ss) = <<"crl", s.crl, "">>
    BY <2>1, <2>2, <2>3
  <2>5. /\ \A f \in DOMAIN c.writes :
              \/ f = crt.file /\ c.writes[f] = Pem(s)
              \/ f = ca.file /\ c.writes[f] = <<"ca", s.ca, "">>
              \/ f = crl.file /\ c.writes[f] = <<"crl", s.crl, "">>
        /\ c.crt # NoFile => crt.file \in DOMAIN c.writes
        /\ c.ca # NoFile => c.ca.file \in DOMAIN c.writes
        /\ c.crl # NoFile => crl.file \in DOMAIN c.writes
    <3> DEFINE d == getCertificate(id, ss[id])
    <3>1. /\ \A f \in DOMAIN d.writes :
                \/ f = <<"crt", id[1], id[2]>> /\ d.writes[f] = Pem(ss[id])
                \/ f = <<"ca", id[1], id[2]>> /\ d.writes[f] = <<"ca", ss[id].ca, "">>
                \/ f = <<"crl", id[1], id[2]>> /\ d.writes[f] = <<"crl", ss[id].crl, "">>
          /\ d.crt # NoFile => <<"crt", id[1], id[2]>> \in DOMAIN d.writes
          /\ d.ca # NoFile => d.ca.file \in DOMAIN d.writes
          /\ d.crl # NoFile => <<"crl", id[1], id[2]>> \in DOMAIN d.writes
      BY <1>3, CertificateWrites
    <3>2. c = d
      BY <2>1
    <3> HIDE DEF c, d, crt, ca, crl, s
    <3> QED
      BY <2>1, <2>2, <3>1, <3>2
  <2>6. /\ HasPair(s) => ~c.err /\ c.crt = crt
        /\ ~HasPair(s) => c.err \/ c.crt = NoFile
        /\ HasCA(s) => /\ ~c.err
                       /\ IF s.crt # "" /\ s.key # "" THEN c.ca = crt /\ c.crl = NoFile
                          ELSE c.ca = ca /\ c.crl = IF s.crl = "" THEN NoFile ELSE crl
        /\ ~HasCA(s) => c.err \/ c.ca = NoFile
    BY CertificateOf
  <2> HIDE DEF s, c, r, crt, ca, crl
  <2>7. Reads(r, {id}, ss)
    BY <1>1, <2>4, <2>5 DEF Reads, Faithful
  <2>8. /\ HasPair(s) => Sourced(r.crt, r.writes, {id}, ss)
        /\ HasCA(s) => Sourced(r.ca, r.writes, {id}, ss)
        /\ HasCA(s) /\ (s.crt = "" \/ s.key = "") /\ s.crl # "" => Sourced(r.crl, r.writes, {id}, ss)
    BY <1>1, <2>2, <2>4, <2>5, <2>6 DEF Sourced
  <2> QED
    BY <1>1, <2>2, <2>6, <2>7, <2>8 DEF s, c, r
<1> QED
  BY <1>2, <1>3

\* What is read as the certificate of a server.
TLSGood(ns, ref, allow, ss) ==
    IF ref[1] = "file" THEN <<"file", ref[2], ref[3]>> \in ExternalFiles
    ELSE /\ ref[1] = "secret" /\ buildResourceName(ns, ref, allow) # <<>>
         /\ HasPair(Content0(buildResourceName(ns, ref, allow), ss))

\* A certificate that GetTLSSecretPath returns stands for the content of its file.
LEMMA TLSContents ==
    ASSUME NEW ns, NEW ref, ref # <<>>, NEW allow \in BOOLEAN, NEW ss, DOMAIN ss = Secret
    PROVE  LET r == GetTLSSecretPath(ns, ref, allow, ss)
           IN  /\ Reads(r, LinkOf(ns, ref, allow), ss)
               /\ ~r.err <=> TLSGood(ns, ref, allow, ss)
               /\ ~r.err => /\ Sourced(r.crt, r.writes, LinkOf(ns, ref, allow), ss)
                            /\ Held(r.crt) = IF ref[1] = "file" THEN External(ref)
                                             ELSE Pem(Content0(buildResourceName(ns, ref, allow), ss))
<1> DEFINE id == buildResourceName(ns, ref, allow)
           s == Content0(id, ss)
           read == Linked(getCertificate(id, s), id)
           r == GetTLSSecretPath(ns, ref, allow, ss)
<1>1. CASE ref[1] = "file"
  <2>1. r = ReadFile(ref, "crt") /\ LinkOf(ns, ref, allow) = {}
    BY <1>1 DEF GetTLSSecretPath, LinkOf
  <2> HIDE DEF r
  <2>2. LET x == ReadFile(ref, "crt")
        IN  /\ Reads(x, {}, ss)
            /\ ~x.err <=> <<"file", ref[2], ref[3]>> \in ExternalFiles
            /\ ~x.err => Held(x.crt) = External(ref) /\ Sourced(x.crt, x.writes, {}, ss)
    BY ExternalRead
  <2> QED
    BY <1>1, <2>1, <2>2 DEF TLSGood, r
<1>2. CASE ref[1] # "file" /\ (ref[1] # "secret" \/ id = <<>>)
  <2>1. r = Refused /\ LinkOf(ns, ref, allow) = {}
    BY <1>2 DEF GetTLSSecretPath, LinkOf
  <2>2. Reads(Refused, {}, ss) /\ Refused.err
    BY DEF Reads, IsRead, Refused, Faithful, NoWrites
  <2> HIDE DEF r
  <2> QED
    BY <1>2, <2>1, <2>2 DEF TLSGood, r
<1>3. CASE ref[1] = "secret" /\ id # <<>>
  <2>1. r = [read EXCEPT !.err = read.err \/ read.crt = NoFile] /\ LinkOf(ns, ref, allow) = {id}
    BY <1>3 DEF GetTLSSecretPath, LinkOf
  <2>2. /\ Reads(read, {id}, ss)
        /\ HasPair(s) => /\ ~read.err /\ read.crt # NoFile /\ Held(read.crt) = Pem(s)
                         /\ Sourced(read.crt, read.writes, {id}, ss)
        /\ ~HasPair(s) => read.err \/ read.crt = NoFile
    BY SecretRead
  <2> DEFINE e == read.err \/ read.crt = NoFile
  <2> HIDE DEF r, read, s, id
  <2>3. /\ Reads(r, {id}, ss) /\ r.err = e
        /\ r.writes = read.writes /\ r.crt = read.crt
    <3>1. r = [read EXCEPT !.err = e]
      BY <2>1
    <3> HIDE DEF e
    <3> QED
      BY <2>2, <3>1 DEF Reads, IsRead
  <2>4. TLSGood(ns, ref, allow, ss) <=> HasPair(s)
    BY <1>3 DEF TLSGood, s, id
  <2>5. ref[1] # "file"
    BY <1>3
  <2> QED
    BY <2>1, <2>2, <2>3, <2>4, <2>5 DEF r, s, id
<1> QED
  BY <1>1, <1>2, <1>3

\* What is read as the authority of the clients.
CAGood(ns, ref, allow, ss) ==
    IF ref[1] = "file" THEN <<"file", ref[2], ref[3]>> \in ExternalFiles
    ELSE /\ ref[1] = "secret" /\ buildResourceName(ns, ref, allow) # <<>>
         /\ HasCA(Content0(buildResourceName(ns, ref, allow), ss))

CAHeld(s) == IF s.crt # "" /\ s.key # "" THEN Pem(s) ELSE <<"ca", s.ca, "">>
HasCRL(s) == (s.crt = "" \/ s.key = "") /\ s.crl # ""

\* So do the authority and the revocation list that GetCASecretPath returns.
LEMMA CAContents ==
    ASSUME NEW ns, NEW ref, ref # <<>>, NEW allow \in BOOLEAN, NEW ss, DOMAIN ss = Secret
    PROVE  LET r == GetCASecretPath(ns, ref, allow, ss)
               links == LinkOf(ns, ref, allow)
               s == Content0(buildResourceName(ns, ref, allow), ss)
           IN  /\ Reads(r, links, ss)
               /\ ~r.err <=> CAGood(ns, ref, allow, ss)
               /\ ~r.err => /\ Sourced(r.ca, r.writes, links, ss)
                            /\ Held(r.ca) = IF ref[1] = "file" THEN External(ref) ELSE CAHeld(s)
                            /\ IF ref[1] # "file" /\ HasCRL(s)
                               THEN Sourced(r.crl, r.writes, links, ss) /\ Held(r.crl) = <<"crl", s.crl, "">>
                               ELSE r.crl = NoFile
<1> DEFINE id == buildResourceName(ns, ref, allow)
           s == Content0(id, ss)
           read == Linked(getCertificate(id, s), id)
           r == GetCASecretPath(ns, ref, allow, ss)
<1>1. CASE ref[1] = "file"
  <2>1. r = ReadFile(ref, "ca") /\ LinkOf(ns, ref, allow) = {}
    BY <1>1 DEF GetCASecretPath, LinkOf
  <2> HIDE DEF r
  <2>2. LET x == ReadFile(ref, "ca")
        IN  /\ Reads(x, {}, ss)
            /\ ~x.err <=> <<"file", ref[2], ref[3]>> \in ExternalFiles
            /\ ~x.err => Held(x.ca) = External(ref) /\ Sourced(x.ca, x.writes, {}, ss) /\ x.crl = NoFile
    BY ExternalRead
  <2> QED
    BY <1>1, <2>1, <2>2 DEF CAGood, r
<1>2. CASE ref[1] # "file" /\ (ref[1] # "secret" \/ id = <<>>)
  <2>1. r = Refused /\ LinkOf(ns, ref, allow) = {}
    BY <1>2 DEF GetCASecretPath, LinkOf
  <2>2. Reads(Refused, {}, ss) /\ Refused.err
    BY DEF Reads, IsRead, Refused, Faithful, NoWrites
  <2> HIDE DEF r
  <2> QED
    BY <1>2, <2>1, <2>2 DEF CAGood, r
<1>3. CASE ref[1] = "secret" /\ id # <<>>
  <2>1. r = [read EXCEPT !.err = read.err \/ read.ca = NoFile] /\ LinkOf(ns, ref, allow) = {id}
    BY <1>3 DEF GetCASecretPath, LinkOf
  <2>2. /\ Reads(read, {id}, ss)
        /\ HasCA(s) => /\ ~read.err /\ read.ca # NoFile
                       /\ Sourced(read.ca, read.writes, {id}, ss)
                       /\ Held(read.ca) = CAHeld(s)
                       /\ IF HasCRL(s)
                          THEN Sourced(read.crl, read.writes, {id}, ss) /\ Held(read.crl) = <<"crl", s.crl, "">>
                          ELSE read.crl = NoFile
        /\ ~HasCA(s) => read.err \/ read.ca = NoFile
    BY SecretRead DEF CAHeld, HasCRL
  <2> DEFINE e == read.err \/ read.ca = NoFile
  <2> HIDE DEF r, read, s, id
  <2>3. /\ Reads(r, {id}, ss) /\ r.err = e
        /\ r.writes = read.writes /\ r.ca = read.ca /\ r.crl = read.crl
    <3>1. r = [read EXCEPT !.err = e]
      BY <2>1
    <3> HIDE DEF e
    <3> QED
      BY <2>2, <3>1 DEF Reads, IsRead
  <2>4. CAGood(ns, ref, allow, ss) <=> HasCA(s)
    BY <1>3 DEF CAGood, s, id
  <2>5. ref[1] # "file"
    BY <1>3
  <2> QED
    BY <2>1, <2>2, <2>3, <2>4, <2>5 DEF r, s, id
<1> QED
  BY <1>1, <1>2, <1>3

\* A read depends on the secrets that it links only.
LEMMA ReadsDepend ==
    ASSUME NEW ns, NEW ref, ref # <<>>, NEW allow, NEW ss, NEW tt,
           \A id \in LinkOf(ns, ref, allow) : Content0(id, ss) = Content0(id, tt)
    PROVE  /\ GetTLSSecretPath(ns, ref, allow, ss) = GetTLSSecretPath(ns, ref, allow, tt)
           /\ GetCASecretPath(ns, ref, allow, ss) = GetCASecretPath(ns, ref, allow, tt)
<1> DEFINE id == buildResourceName(ns, ref, allow)
<1>1. ref[1] = "secret" /\ id # <<>> => Content0(id, ss) = Content0(id, tt)
  BY DEF LinkOf
<1> QED
  BY <1>1 DEF GetTLSSecretPath, GetCASecretPath

\* The default certificate comes from its secret, or is the fake one.
LEMMA DefaultContents ==
    ASSUME NEW ss, DOMAIN ss = Secret
    PROVE  LET r == readDefaultCertificate(ss)
           IN  Faithful(r.writes, ss) /\ Sourced(r.crt, r.writes, DefaultLinks, ss)
<1> DEFINE r == readDefaultCertificate(ss)
           read == GetTLSSecretPath("", DefaultCrtSecret, FALSE, ss)
<1>1. FakeCrt.file # <<>> /\ FakeCrt.file \in Fixed /\ Held(FakeCrt) = Stored(FakeCrt.file, ss)
  BY DEF FakeCrt, FileAt, Fixed, Held, Stored, FixedContent
<1>2. ASSUME NEW writes PROVE Sourced(FakeCrt, writes, DefaultLinks, ss)
  BY <1>1 DEF Sourced
<1>3. CASE DefaultCrtSecret = <<>>
  <2>1. r.crt = FakeCrt /\ r.writes = NoWrites
    BY <1>3 DEF readDefaultCertificate, Refused
  <2>2. Faithful(NoWrites, ss)
    BY DEF Faithful, NoWrites
  <2> HIDE DEF r
  <2> QED
    BY <1>2, <2>1, <2>2 DEF r
<1>4. CASE DefaultCrtSecret # <<>>
  <2>1. /\ Reads(read, DefaultLinks, ss)
        /\ ~read.err => Sourced(read.crt, read.writes, DefaultLinks, ss)
    BY <1>4, TLSContents DEF DefaultLinks
  <2>2. r = IF read.err THEN [read EXCEPT !.crt = FakeCrt] ELSE read
    BY <1>4 DEF readDefaultCertificate
  <2> HIDE DEF r, read
  <2>3. r.writes = read.writes /\ r.crt = IF read.err THEN FakeCrt ELSE read.crt
    BY <2>1, <2>2 DEF Reads, IsRead
  <2>4. Faithful(r.writes, ss)
    BY <2>1, <2>3 DEF Reads
  <2>5. Sourced(r.crt, r.writes, DefaultLinks, ss)
    BY <1>2, <2>1, <2>3
  <2> QED
    BY <2>4, <2>5 DEF r
<1> QED
  BY <1>3, <1>4

\* The default certificate depends on the secret it names alone.
LEMMA DefaultDepends ==
    ASSUME NEW ss, NEW tt, \A id \in DefaultLinks : Content0(id, ss) = Content0(id, tt)
    PROVE  readDefaultCertificate(ss) = readDefaultCertificate(tt)
<1>1. DefaultCrtSecret # <<>> => GetTLSSecretPath("", DefaultCrtSecret, FALSE, ss)
                                 = GetTLSSecretPath("", DefaultCrtSecret, FALSE, tt)
  BY ReadsDepend DEF DefaultLinks
<1> QED
  BY <1>1 DEF readDefaultCertificate

\* A file of a host is the default certificate, none, or has the content of the
\* secrets, which the sync wrote.
LEMMA TLSPart ==
    ASSUME NEW h, NEW d, d.crt \in BOOLEAN, NEW ss, DOMAIN ss = Secret, NEW default
    PROVE  LET r == addTLS(h, d, ss, default)
               links == PartLinks(h, "tls", d)
           IN  /\ r.links = links /\ Faithful(r.writes, ss)
               /\ r.crt = default \/ Sourced(r.crt, r.writes, links, ss)
<1> DEFINE r == addTLS(h, d, ss, default)
           links == PartLinks(h, "tls", d)
           read == GetTLSSecretPath(HostNS[h], Ref[h].tls, d.crt, ss)
<1>1. links = LinkOf(HostNS[h], Ref[h].tls, d.crt)
  BY DEF PartLinks
<1>2. CASE Ref[h].tls = <<>>
  <2>1. r.crt = default /\ r.writes = NoWrites /\ r.links = {}
    BY <1>2 DEF addTLS, Refused
  <2>2. Faithful(NoWrites, ss) /\ links = {}
    BY <1>1, <1>2 DEF Faithful, NoWrites, LinkOf
  <2> HIDE DEF r, links
  <2> QED
    BY <2>1, <2>2 DEF r, links
<1>3. CASE Ref[h].tls # <<>>
  <2>1. Reads(read, links, ss) /\ (~read.err => Sourced(read.crt, read.writes, links, ss))
    BY <1>1, <1>3, TLSContents
  <2>2. r = IF read.err THEN [read EXCEPT !.crt = default] ELSE read
    BY <1>3 DEF addTLS
  <2> HIDE DEF r, read, links
  <2>3. r.links = read.links /\ r.writes = read.writes /\ r.crt = IF read.err THEN default ELSE read.crt
    BY <2>1, <2>2 DEF Reads, IsRead
  <2>4. r.links = links /\ Faithful(r.writes, ss)
    BY <2>1, <2>3 DEF Reads
  <2>5. r.crt = default \/ Sourced(r.crt, r.writes, links, ss)
    BY <2>1, <2>3
  <2> QED
    BY <2>4, <2>5 DEF r, links
<1> QED
  BY <1>2, <1>3

\* The authority and the revocation list of a host come from the secret it is linked to.
LEMMA CAPart ==
    ASSUME NEW h, NEW d, d.ca \in BOOLEAN, NEW ss, DOMAIN ss = Secret
    PROVE  LET r == setAuthTLSConfig(h, d, ss)
               links == PartLinks(h, "ca", d)
           IN  /\ r.links = links /\ Faithful(r.writes, ss)
               /\ r.ca = NoFile \/ Sourced(r.ca, r.writes, links, ss)
               /\ r.crl = NoFile \/ Sourced(r.crl, r.writes, links, ss)
<1> DEFINE r == setAuthTLSConfig(h, d, ss)
           links == PartLinks(h, "ca", d)
           read == GetCASecretPath(HostNS[h], Ref[h].ca, d.ca, ss)
<1>1. links = LinkOf(HostNS[h], Ref[h].ca, d.ca)
  BY DEF PartLinks
<1>2. CASE Ref[h].ca = <<>>
  <2>1. r.ca = NoFile /\ r.crl = NoFile /\ r.writes = NoWrites /\ r.links = {}
    BY <1>2 DEF setAuthTLSConfig, Refused
  <2>2. Faithful(NoWrites, ss) /\ links = {}
    BY <1>1, <1>2 DEF Faithful, NoWrites, LinkOf
  <2> HIDE DEF r, links
  <2> QED
    BY <2>1, <2>2 DEF r, links
<1>3. CASE Ref[h].ca # <<>>
  <2>1. /\ Reads(read, links, ss)
        /\ ~read.err => /\ Sourced(read.ca, read.writes, links, ss)
                        /\ read.crl = NoFile \/ Sourced(read.crl, read.writes, links, ss)
    BY <1>1, <1>3, CAContents
  <2>2. r = IF ~read.err THEN read
            ELSE [read EXCEPT !.ca = IF Ref[h].strict THEN FakeCA ELSE NoFile, !.crl = NoFile]
    BY <1>3 DEF setAuthTLSConfig
  <2>3. FakeCA.file # <<>> /\ FakeCA.file \in Fixed /\ Held(FakeCA) = Stored(FakeCA.file, ss)
    BY DEF FakeCA, FakeCrt, FileAt, Fixed, Held, Stored, FixedContent
  <2> HIDE DEF r, read, links
  <2>4. Sourced(FakeCA, read.writes, links, ss)
    BY <2>3 DEF Sourced
  <2>5. /\ r.links = read.links /\ r.writes = read.writes
        /\ ~read.err => r.ca = read.ca /\ r.crl = read.crl
        /\ read.err => r.ca \in {FakeCA, NoFile} /\ r.crl = NoFile
    BY <2>1, <2>2 DEF Reads, IsRead
  <2>6. r.links = links /\ Faithful(r.writes, ss)
    BY <2>1, <2>5 DEF Reads
  <2>7. r.ca = NoFile \/ Sourced(r.ca, r.writes, links, ss)
    BY <2>1, <2>4, <2>5
  <2>8. r.crl = NoFile \/ Sourced(r.crl, r.writes, links, ss)
    BY <2>1, <2>5
  <2> QED
    BY <2>6, <2>7, <2>8 DEF r, links
<1> QED
  BY <1>2, <1>3

\* The reads for the stats page and the DH parameters write what the secrets have.
LEMMA DHContents ==
    ASSUME NEW c, NEW ss, DOMAIN ss = Secret
    PROVE  Faithful(StatsRead(c, ss).writes, ss) /\ Faithful(DHRead(c, ss).writes, ss)
<1>1. Faithful(NoWrites, ss)
  BY DEF Faithful, NoWrites
<1>2. Faithful(StatsRead(c, ss).writes, ss)
  <2> DEFINE ref == Lines(c, "stats-ssl-cert")
  <2>1. CASE ref = <<>>
    BY <1>1, <2>1 DEF StatsRead, Refused
  <2>2. CASE ref # <<>>
    <3>1. StatsRead(c, ss) = GetTLSSecretPath("", ref, FALSE, ss)
      BY <2>2 DEF StatsRead
    <3> HIDE DEF ref
    <3>2. Reads(GetTLSSecretPath("", ref, FALSE, ss), LinkOf("", ref, FALSE), ss)
      BY <2>2, TLSContents
    <3> QED
      BY <3>1, <3>2 DEF Reads
  <2> QED
    BY <2>1, <2>2
<1>3. Faithful(DHRead(c, ss).writes, ss)
  <2> DEFINE ref == Lines(c, "ssl-dh-param")
             id == buildResourceName("", ref, TRUE)
             s == Content0(id, ss)
             r == getDHParam(id, s)
             f == <<"dh", id[1], id[2]>>
  <2>1. CASE ref = <<>>
    BY <1>1, <2>1 DEF DHRead, Refused
  <2>2. CASE ref # <<>> /\ ref[1] = "file"
    <3>1. DHRead(c, ss) = ReadFile(ref, "crt")
      BY <2>2 DEF DHRead, GetDHSecretPath
    <3> HIDE DEF ref
    <3>2. Reads(ReadFile(ref, "crt"), {}, ss)
      BY ExternalRead
    <3> QED
      BY <3>1, <3>2 DEF Reads
  <2>3. CASE ref # <<>> /\ ref[1] \notin {"file", "secret"}
    BY <1>1, <2>3 DEF DHRead, GetDHSecretPath, Refused
  <2>4. CASE ref # <<>> /\ ref[1] = "secret"
    <3>1. DHRead(c, ss).writes = r.writes
      BY <2>4 DEF DHRead, GetDHSecretPath, Linked, Refused
    <3>2. r.writes = NoWrites \/ (s.exists /\ DOMAIN r.writes = {f} /\ r.writes[f] = <<"dh", s.dh, "">>)
      BY DEF getDHParam, Failed, Write
    <3> HIDE DEF r, f
    <3>3. ASSUME s.exists PROVE f \notin Fixed /\ Stored(f, ss) = <<"dh", s.dh, "">>
      <4>1. id \in Secret /\ s = ss[id]
        BY <3>3 DEF Content0, NoSecret
      <4> HIDE DEF s, id
      <4> QED
        BY <4>1, SecretFile DEF f
    <3> HIDE DEF s
    <3> QED
      BY <1>1, <3>1, <3>2, <3>3 DEF Faithful
  <2> QED
    BY <2>1, <2>2, <2>3, <2>4
<1> QED
  BY <1>2, <1>3

\* The files of a host, together with what its sync writes and links.
LEMMA HostContents ==
    ASSUME NEW h, NEW d, Flags(d), NEW ss, DOMAIN ss = Secret, NEW default
    PROVE  LET r == HostOf(h, d, ss, default)
           IN  /\ Faithful(r.writes, ss)
               /\ \A k \in Use : /\ PartLinks(h, k, d) \subseteq r.links
                                 /\ \/ r.host[k] = default \/ r.host[k].file = <<>>
                                    \/ Sourced(r.host[k], r.writes, PartLinks(h, k, d), ss)
<1> DEFINE tls == addTLS(h, d, ss, default)
           ca == setAuthTLSConfig(h, d, ss)
           r == HostOf(h, d, ss, default)
           a == PartLinks(h, "tls", d)
           b == PartLinks(h, "ca", d)
<1>1. /\ r.host["tls"] = tls.crt /\ r.host["ca"] = ca.ca /\ r.host["crl"] = ca.crl
      /\ r.links = tls.links \cup ca.links /\ r.writes = Over(tls.writes, ca.writes)
  BY DEF HostOf
<1>2. /\ tls.links = a /\ Faithful(tls.writes, ss)
      /\ tls.crt = default \/ Sourced(tls.crt, tls.writes, a, ss)
  BY SMTT(90), TLSPart DEF Flags
<1>3. /\ ca.links = b /\ Faithful(ca.writes, ss)
      /\ ca.ca = NoFile \/ Sourced(ca.ca, ca.writes, b, ss)
      /\ ca.crl = NoFile \/ Sourced(ca.crl, ca.writes, b, ss)
  BY SMTT(90), CAPart DEF Flags
<1>4. PartLinks(h, "crl", d) = b /\ NoFile.file = <<>>
  BY DEF PartLinks, NoFile
<1> HIDE DEF tls, ca, r, a, b
<1>5. /\ DOMAIN r.writes = DOMAIN tls.writes \cup DOMAIN ca.writes
      /\ \A f \in DOMAIN tls.writes : r.writes[f] = tls.writes[f]
      /\ \A f \in DOMAIN ca.writes \ DOMAIN tls.writes : r.writes[f] = ca.writes[f]
  <2> DEFINE x == tls.writes
             y == ca.writes
  <2>1. r.writes = Over(x, y)
    BY <1>1
  <2> HIDE DEF x, y
  <2>2. /\ DOMAIN Over(x, y) = DOMAIN x \cup DOMAIN y
        /\ \A f \in DOMAIN x : Over(x, y)[f] = x[f]
        /\ \A f \in DOMAIN y \ DOMAIN x : Over(x, y)[f] = y[f]
    BY OverFacts
  <2> QED
    BY <2>1, <2>2 DEF x, y
<1>6. Faithful(r.writes, ss)
  BY <1>2, <1>3, <1>5 DEF Faithful
<1>7. ASSUME NEW p, NEW w, NEW l, Sourced(p, w, l, ss), DOMAIN w \subseteq DOMAIN r.writes
      PROVE  Sourced(p, r.writes, l, ss)
  BY <1>7 DEF Sourced
<1>8. r.host["tls"] = default \/ Sourced(r.host["tls"], r.writes, a, ss)
  BY <1>1, <1>2, <1>5, <1>7
<1>9. r.host["ca"] = NoFile \/ Sourced(r.host["ca"], r.writes, b, ss)
  BY <1>1, <1>3, <1>5, <1>7
<1>10. r.host["crl"] = NoFile \/ Sourced(r.host["crl"], r.writes, b, ss)
  BY <1>1, <1>3, <1>5, <1>7
<1>11. ASSUME NEW k \in Use
       PROVE  /\ PartLinks(h, k, d) \subseteq r.links
              /\ \/ r.host[k] = default \/ r.host[k].file = <<>>
                 \/ Sourced(r.host[k], r.writes, PartLinks(h, k, d), ss)
  <2>1. CASE k = "tls"
    BY <1>1, <1>2, <1>8, <2>1 DEF a
  <2>2. CASE k = "ca"
    BY <1>1, <1>3, <1>4, <1>9, <2>2 DEF b
  <2>3. CASE k = "crl"
    BY <1>1, <1>3, <1>4, <1>10, <2>3 DEF b
  <2> QED
    BY <2>1, <2>2, <2>3 DEF Use
<1> QED
  BY <1>6, <1>11 DEF r

\* The files of a host depend on the secrets it is linked to alone.
LEMMA PartDepends ==
    ASSUME NEW h \in Host, NEW k \in Use, NEW d, NEW ss, NEW tt, NEW default,
           \A id \in PartLinks(h, k, d) : Content0(id, ss) = Content0(id, tt)
    PROVE  Part(h, k, d, ss, default) = Part(h, k, d, tt, default)
<1>1. CASE k = "tls"
  <2>1. Ref[h].tls # <<>> => GetTLSSecretPath(HostNS[h], Ref[h].tls, d.crt, ss)
                             = GetTLSSecretPath(HostNS[h], Ref[h].tls, d.crt, tt)
    BY <1>1, ReadsDepend DEF PartLinks
  <2>2. addTLS(h, d, ss, default) = addTLS(h, d, tt, default)
    BY <2>1 DEF addTLS
  <2> QED
    BY <1>1, <2>2 DEF Part, HostOf
<1>2. CASE k \in {"ca", "crl"}
  <2>1. Ref[h].ca # <<>> => GetCASecretPath(HostNS[h], Ref[h].ca, d.ca, ss)
                            = GetCASecretPath(HostNS[h], Ref[h].ca, d.ca, tt)
    BY <1>2, ReadsDepend DEF PartLinks
  <2>2. setAuthTLSConfig(h, d, ss) = setAuthTLSConfig(h, d, tt)
    BY <2>1 DEF setAuthTLSConfig
  <2> QED
    BY SMTT(90), <1>2, <2>2 DEF Part, HostOf
<1> QED
  BY <1>1, <1>2 DEF Use

\* The writes of several reads.
LEMMA AllWritesFacts ==
    ASSUME NEW reads, NEW ss, \A w \in reads : Faithful(w, ss)
    PROVE  /\ Faithful(AllWrites(reads), ss)
           /\ \A w \in reads : DOMAIN w \subseteq DOMAIN AllWrites(reads)
<1> DEFINE a == AllWrites(reads)
<1>1. DOMAIN a = UNION {DOMAIN w : w \in reads}
  BY DEF AllWrites
<1>2. ASSUME NEW f \in DOMAIN a PROVE f \notin Fixed /\ a[f] = Stored(f, ss)
  <2> DEFINE w == CHOOSE w \in reads : f \in DOMAIN w
  <2>1. w \in reads /\ f \in DOMAIN w
    BY <1>1
  <2>2. a[f] = w[f]
    BY <1>1 DEF AllWrites
  <2> HIDE DEF w, a
  <2> QED
    BY <2>1, <2>2 DEF Faithful
<1> HIDE DEF a
<1> QED
  BY <1>1, <1>2 DEF Faithful, a

\* What the current cluster promises for the default certificate.
LEMMA DefaultPromised ==
    ASSUME DOMAIN secrets = Secret
    PROVE  Held(readDefaultCertificate(secrets).crt) = DefaultPem
<1> DEFINE ref == DefaultCrtSecret
           id == buildResourceName("", ref, FALSE)
           read == GetTLSSecretPath("", ref, FALSE, secrets)
           r == readDefaultCertificate(secrets)
<1>1. Held(FakeCrt) = FakeCrt.hash
  BY DEF FakeCrt, FileAt, Held
<1>2. CASE ref = <<>>
  <2>1. r.crt = FakeCrt
    BY <1>2 DEF readDefaultCertificate, Refused
  <2>2. DefaultPem = FakeCrt.hash
    BY <1>2 DEF DefaultPem, FromFile
  <2> QED
    BY <1>1, <2>1, <2>2
<1>3. CASE ref # <<>>
  <2>1. id = <<ref[2], ref[3]>> /\ id # <<>>
    BY DEF buildResourceName
  <2>2. /\ Reads(read, LinkOf("", ref, FALSE), secrets)
        /\ ~read.err <=> TLSGood("", ref, FALSE, secrets)
        /\ ~read.err => Held(read.crt) = IF ref[1] = "file" THEN External(ref)
                                         ELSE Pem(Content0(id, secrets))
    BY <1>3, TLSContents
  <2>3. r = IF read.err THEN [read EXCEPT !.crt = FakeCrt] ELSE read
    BY <1>3 DEF readDefaultCertificate
  <2> HIDE DEF read, r
  <2>4. r.crt = IF read.err THEN FakeCrt ELSE read.crt
    BY <2>2, <2>3 DEF Reads, IsRead
  <2>5. DefaultPem = IF ~TLSGood("", ref, FALSE, secrets) THEN FakeCrt.hash
                     ELSE IF ref[1] = "file" THEN External(ref) ELSE Pem(Content0(id, secrets))
    <3> HIDE DEF id
    <3> QED
      BY <1>3, <2>1 DEF DefaultPem, FromFile, TLSGood, id
  <2>6. Held(r.crt) = DefaultPem
    BY <1>1, <2>2, <2>4, <2>5
  <2> QED
    BY <2>6 DEF r
<1> QED
  BY <1>2, <1>3

\* The name of a resource that a host may read.
LEMMA MayRead ==
    ASSUME NEW h \in Host, NEW ref, ref # <<>>, NEW key, NEW allow \in BOOLEAN,
           allow <=> (StaticCrossNamespaceSecrets \/ validateAllowDeny(conf, key))
    PROVE  LET id == buildResourceName(HostNS[h], ref, allow)
           IN  /\ ref[1] = "secret" /\ id # <<>> <=> FromSecret(h, ref, key)
               /\ FromSecret(h, ref, key) => Content0(id, secrets) = Target(h, ref)
<1>1. HostNS[h] # ""
  BY GlobalSyncAssumption
<1>2. \A x, y : <<x, y>> # <<>> /\ <<x, y>>[1] = x
  OBVIOUS
<1>3. LET id == buildResourceName(HostNS[h], ref, allow)
      IN  /\ id # <<>> <=> \/ allow \/ ref[2] \in {"", HostNS[h]}
          /\ id # <<>> => id = <<IF ref[2] = "" THEN HostNS[h] ELSE ref[2], ref[3]>>
  BY <1>1, <1>2 DEF buildResourceName
<1> QED
  BY <1>3 DEF FromSecret, Target, validateAllowDeny

ContentOf(p) == IF p.file = <<>> THEN <<>> ELSE Held(p)

\* The files of a host stand for what the cluster promises.
LEMMA TLSPromised ==
    ASSUME NEW h \in Host, DOMAIN secrets = Secret, NEW default, default.file # <<>>,
           Held(default) = DefaultPem
    PROVE  LET d == buildGlobalDynamic(conf, StaticCrossNamespaceSecrets)
           IN  ContentOf(Part(h, "tls", d, secrets, default)) = PromisedCrt(h)
<1> DEFINE d == buildGlobalDynamic(conf, StaticCrossNamespaceSecrets)
           ref == Ref[h].tls
           id == buildResourceName(HostNS[h], ref, d.crt)
           read == GetTLSSecretPath(HostNS[h], ref, d.crt, secrets)
           r == addTLS(h, d, secrets, default)
           good == TLSGood(HostNS[h], ref, d.crt, secrets)
           key == "cross-namespace-secrets-crt"
<1>1. d.crt \in BOOLEAN /\ (d.crt <=> (StaticCrossNamespaceSecrets \/ validateAllowDeny(conf, key)))
  BY GlobalSyncAssumption DEF buildGlobalDynamic, validateAllowDeny
<1>2. Part(h, "tls", d, secrets, default) = r.crt
  BY DEF Part, HostOf
<1>3. ContentOf(default) = DefaultPem
  BY DEF ContentOf
<1> HIDE DEF d, key
<1>4. CASE ref = <<>>
  <2>1. r.crt = default
    BY <1>4 DEF addTLS, Refused
  <2>2. PromisedCrt(h) = DefaultPem
    BY <1>4 DEF PromisedCrt, FromFile, FromSecret
  <2> QED
    BY <1>2, <1>3, <2>1, <2>2 DEF d
<1>5. CASE ref # <<>>
  <2>1. /\ ref[1] = "secret" /\ id # <<>> <=> FromSecret(h, ref, key)
        /\ FromSecret(h, ref, key) => Content0(id, secrets) = Target(h, ref)
    BY <1>1, <1>5, MayRead
  <2>2. /\ Reads(read, LinkOf(HostNS[h], ref, d.crt), secrets)
        /\ ~read.err <=> good
        /\ ~read.err => /\ Sourced(read.crt, read.writes, LinkOf(HostNS[h], ref, d.crt), secrets)
                        /\ Held(read.crt) = IF ref[1] = "file" THEN External(ref)
                                            ELSE Pem(Content0(id, secrets))
    BY <1>1, <1>5, TLSContents
  <2>3. r = IF read.err THEN [read EXCEPT !.crt = default] ELSE read
    BY <1>5 DEF addTLS
  <2>4. good <=> FromFile(ref) \/ (FromSecret(h, ref, key) /\ HasPair(Target(h, ref)))
    <3> HIDE DEF id
    <3> QED
      BY <1>5, <2>1 DEF TLSGood, FromFile, FromSecret, id
  <2>5. PromisedCrt(h) = IF FromFile(ref) THEN External(ref)
                         ELSE IF FromSecret(h, ref, key) /\ HasPair(Target(h, ref))
                         THEN Pem(Target(h, ref)) ELSE DefaultPem
    BY DEF PromisedCrt, key
  <2>6. (FromFile(ref) => ref[1] = "file") /\ (FromSecret(h, ref, key) => ref[1] = "secret")
    BY DEF FromFile, FromSecret
  <2> HIDE DEF read, r, good, id, ref
  <2>7. r.crt = IF read.err THEN default ELSE read.crt
    BY <2>2, <2>3 DEF Reads, IsRead
  <2>8. ContentOf(r.crt) = PromisedCrt(h)
    <3>1. CASE read.err
      BY <1>3, <2>2, <2>4, <2>5, <2>7, <3>1
    <3>2. CASE ~read.err
      <4>1. read.crt.file # <<>>
        BY <2>2, <3>2 DEF Sourced
      <4>2. ContentOf(read.crt) = Held(read.crt)
        BY <4>1 DEF ContentOf
      <4> QED
        BY <2>1, <2>2, <2>4, <2>5, <2>6, <2>7, <3>2, <4>2
    <3> QED
      BY <3>1, <3>2
  <2> QED
    BY <1>2, <2>8 DEF d
<1> QED
  BY <1>4, <1>5

\* The clients of a host are verified with what the cluster promises.
LEMMA CAPromised ==
    ASSUME NEW h \in Host, DOMAIN secrets = Secret, NEW default
    PROVE  LET d == buildGlobalDynamic(conf, StaticCrossNamespaceSecrets)
           IN  /\ ContentOf(Part(h, "ca", d, secrets, default)) = PromisedCA(h)
               /\ ContentOf(Part(h, "crl", d, secrets, default)) = PromisedCRL(h)
<1> DEFINE d == buildGlobalDynamic(conf, StaticCrossNamespaceSecrets)
           ref == Ref[h].ca
           id == buildResourceName(HostNS[h], ref, d.ca)
           s == Target(h, ref)
           read == GetCASecretPath(HostNS[h], ref, d.ca, secrets)
           r == setAuthTLSConfig(h, d, secrets)
           good == CAGood(HostNS[h], ref, d.ca, secrets)
           key == "cross-namespace-secrets-ca"
           from == FromSecret(h, ref, key) /\ HasCA(s)
<1>1. d.ca \in BOOLEAN /\ (d.ca <=> (StaticCrossNamespaceSecrets \/ validateAllowDeny(conf, key)))
  BY GlobalSyncAssumption DEF buildGlobalDynamic, validateAllowDeny
<1>2. Part(h, "ca", d, secrets, default) = r.ca /\ Part(h, "crl", d, secrets, default) = r.crl
  BY DEF Part, HostOf
<1>3. ContentOf(NoFile) = <<>> /\ ContentOf(FakeCA) = FakeCA.hash
  BY DEF ContentOf, NoFile, FakeCA, FileAt, Held
<1> HIDE DEF d, key
<1>4. SUFFICES ContentOf(r.ca) = PromisedCA(h) /\ ContentOf(r.crl) = PromisedCRL(h)
  BY <1>2 DEF d
<1>5. /\ PromisedCA(h) = IF FromFile(ref) THEN External(ref)
                         ELSE IF from THEN CAHeld(s)
                         ELSE IF ref # <<>> /\ Ref[h].strict THEN FakeCA.hash ELSE <<>>
      /\ PromisedCRL(h) = IF from /\ HasCRL(s) THEN <<"crl", s.crl, "">> ELSE <<>>
  BY DEF PromisedCA, PromisedCRL, CAHeld, HasCRL, key
<1>6. (FromFile(ref) => ref # <<>> /\ ref[1] = "file") /\ (from => ref # <<>> /\ ref[1] = "secret")
  BY DEF FromFile, FromSecret
<1>7. CASE ref = <<>>
  <2>1. r.ca = NoFile /\ r.crl = NoFile
    BY <1>7 DEF setAuthTLSConfig, Refused
  <2> HIDE DEF r, ref, from
  <2> QED
    BY <1>3, <1>5, <1>6, <1>7, <2>1
<1>8. CASE ref # <<>>
  <2>1. /\ ref[1] = "secret" /\ id # <<>> <=> FromSecret(h, ref, key)
        /\ FromSecret(h, ref, key) => Content0(id, secrets) = s
    BY <1>1, <1>8, MayRead
  <2> DEFINE links == LinkOf(HostNS[h], ref, d.ca)
             c == Content0(id, secrets)
  <2>2. /\ Reads(read, links, secrets)
        /\ ~read.err <=> good
        /\ ~read.err => /\ Sourced(read.ca, read.writes, links, secrets)
                        /\ Held(read.ca) = IF ref[1] = "file" THEN External(ref) ELSE CAHeld(c)
                        /\ IF ref[1] # "file" /\ HasCRL(c)
                           THEN Sourced(read.crl, read.writes, links, secrets)
                                /\ Held(read.crl) = <<"crl", c.crl, "">>
                           ELSE read.crl = NoFile
    BY <1>1, <1>8, CAContents
  <2>3. r = IF ~read.err THEN read
            ELSE [read EXCEPT !.ca = IF Ref[h].strict THEN FakeCA ELSE NoFile, !.crl = NoFile]
    BY <1>8 DEF setAuthTLSConfig
  <2>4. good <=> FromFile(ref) \/ from
    <3> HIDE DEF id
    <3> QED
      BY <1>8, <2>1 DEF CAGood, FromFile, FromSecret, id
  <2>5. \A p, w, l, ss : Sourced(p, w, l, ss) => ContentOf(p) = Held(p)
    BY DEF Sourced, ContentOf
  <2>6. from => FromSecret(h, ref, key)
    OBVIOUS
  <2> HIDE DEF read, r, good, id, ref, from, s, links, c
  <2>7. CASE read.err
    <3>1. r.ca = (IF Ref[h].strict THEN FakeCA ELSE NoFile) /\ r.crl = NoFile
      BY <2>2, <2>3, <2>7 DEF Reads, IsRead
    <3> QED
      BY <1>3, <1>5, <1>8, <2>2, <2>4, <2>7, <3>1
  <2>8. CASE ~read.err
    <3>1. r = read
      BY <2>3, <2>8
    <3>2. ContentOf(r.ca) = Held(r.ca)
      BY <2>2, <2>5, <2>8, <3>1
    <3>3. FromFile(ref) \/ from
      BY <2>2, <2>4, <2>8
    <3>4. from => c = s
      BY <2>1, <2>6 DEF c
    <3>5. ContentOf(r.ca) = PromisedCA(h)
      BY <1>5, <1>6, <2>2, <2>8, <3>1, <3>2, <3>3, <3>4
    <3>6. ContentOf(r.crl) = PromisedCRL(h)
      <4>1. CASE from /\ HasCRL(s)
        BY <1>5, <1>6, <2>2, <2>5, <2>8, <3>1, <3>4, <4>1
      <4>2. CASE ~(from /\ HasCRL(s))
        BY <1>3, <1>5, <1>6, <2>2, <2>8, <3>1, <3>3, <3>4, <4>2
      <4> QED
        BY <4>1, <4>2
    <3> QED
      BY <3>5, <3>6
  <2> QED
    BY <2>7, <2>8
<1> QED
  BY <1>7, <1>8

-----------------------------------------------------------------------------
(* The inductive invariant of the certificates.                            *)

\* The host will be rebuilt by the sync in progress.
Pending(h) == sync.phase = "sync" /\ h \in sync.dirty

\* A file that a host has had since some sync.
PartOf(p, h, k) ==
    \/ p = config.default
    \/ p.file = <<>>
    \/ p.file \in Fixed /\ Held(p) = FixedContent(p.file)
    \/ p.file \notin Fixed /\ SecretOf(p.file) \in PartLinks(h, k, dyn)

\* The hosts are linked to what they read, and are up to date unless one of these
\* secrets changed or the sync in progress rebuilds them.
HostsInv ==
    /\ seen.ok => DOMAIN config.hosts = Host
    /\ DOMAIN config.hosts # {} => dyn = buildGlobalDynamic(confCur, StaticCrossNamespaceSecrets)
    /\ \A h \in DOMAIN config.hosts, k \in Use :
          /\ \A id \in PartLinks(h, k, dyn) : <<id, h>> \in tracker
          /\ PartOf(config.hosts[h][k], h, k)
          /\ ~Pending(h) /\ PartLinks(h, k, dyn) \cap changed.secrets = {}
                => config.hosts[h][k] = Part(h, k, dyn, secrets, config.default)

\* Each file that has users in c has, in files, the content that one of them stands
\* for, unless it is in except.
Backed(c, files, except) ==
    \A u \in Users(c) :
       /\ u.file \in DOMAIN files
       /\ u.file \in except \/ \E v \in Users(c) : v.file = u.file /\ Held(v) = files[u.file]

\* The default certificate of the sync in progress is on disk, and is the one of the
\* cluster unless its secret changed.
DefaultInv ==
    /\ sync.phase = "sync" =>
          /\ DefaultLinks \cap changed.secrets = {} => sync.default = readDefaultCertificate(secrets).crt
          /\ sync.default.file # <<>> /\ sync.default.file \in DOMAIN disk
          /\ disk[sync.default.file] = Held(sync.default)
    /\ sync.phase = "idle" /\ DOMAIN config.hosts # {} /\ DefaultLinks \cap changed.secrets = {}
          => config.default = readDefaultCertificate(secrets).crt

\* The hosts that the sync in progress leaves alone have their content on disk.
Untouched ==
    \A h \in DOMAIN config.hosts \ sync.dirty, k \in Use :
       LET p == config.hosts[h][k]
       IN  p.file # <<>> => /\ p.file \in DOMAIN disk
                            /\ p.file \in stray \/ disk[p.file] = Held(p)

\* The invariant of the certificates, on top of SyncInv.
CertInv ==
    /\ DOMAIN secrets = Secret
    /\ \A f \in Fixed : f \in DOMAIN disk /\ disk[f] = FixedContent(f)
    /\ DefaultInv
    /\ ~Rebuilding => HostsInv /\ Backed(config, running.mem, stray)
    /\ sync.phase = "idle" => Backed(config, disk, stray)
    /\ sync.phase = "sync" /\ ~sync.full => Untouched

\* The users of the files are the default certificate and the files of the hosts.
LEMMA UserCases ==
    ASSUME NEW c, NEW u
    PROVE  u \in Users(c) <=> /\ u.file # <<>>
                              /\ u = c.default \/ \E h \in DOMAIN c.hosts, k \in Use : u = c.hosts[h][k]
BY SMTT(90) DEF Users, Use

\* HAProxy loads the files of all of the users.
LEMMA UserFiles ==
    ASSUME NEW c, NEW u \in Users(c)
    PROVE  u.file \in FilesOf(c)
BY SMTT(90) DEF Users, FilesOf

\* The files on disk after a sync: they were written, or were already right.
LEMMA BackedDisk ==
    ASSUME NEW c, NEW writes, NEW files, NEW except,
           \A u \in Users(c) : \/ u.file \in DOMAIN writes
                               \/ u.file \in DOMAIN files /\ (u.file \in except \/ files[u.file] = Held(u))
    PROVE  Backed(c, Over(writes, files), except \cup Strays(c, writes))
<1> DEFINE o == Over(writes, files)
           st == except \cup Strays(c, writes)
<1>1. /\ DOMAIN o = DOMAIN writes \cup DOMAIN files
      /\ \A f \in DOMAIN writes : o[f] = writes[f]
      /\ \A f \in DOMAIN files \ DOMAIN writes : o[f] = files[f]
  BY OverFacts
<1> HIDE DEF o
<1>2. ASSUME NEW u \in Users(c)
      PROVE  /\ u.file \in DOMAIN o
             /\ u.file \in st \/ \E v \in Users(c) : v.file = u.file /\ Held(v) = o[u.file]
  <2>1. CASE u.file \in DOMAIN writes
    BY <1>1, <2>1 DEF Strays
  <2>2. CASE u.file \notin DOMAIN writes
    BY <1>1, <2>2
  <2> QED
    BY <2>1, <2>2
<1> QED
  BY <1>2 DEF Backed, o

\* A reload loads what is on disk.
LEMMA BackedReload ==
    ASSUME NEW c, NEW files, NEW except, Backed(c, files, except)
    PROVE  Backed(c, [f \in FilesOf(c) |-> files[f]], except)
<1> DEFINE mem == [f \in FilesOf(c) |-> files[f]]
<1>1. \A u \in Users(c) : u.file \in FilesOf(c)
  BY UserFiles
<1>2. DOMAIN mem = FilesOf(c) /\ \A f \in FilesOf(c) : mem[f] = files[f]
  OBVIOUS
<1> HIDE DEF mem
<1>3. Backed(c, mem, except)
  BY <1>1, <1>2 DEF Backed
<1> QED
  BY <1>3 DEF mem

\* The fixed files stay.
LEMMA FixedKept ==
    ASSUME NEW writes, NEW ss, Faithful(writes, ss),
           \A f \in Fixed : f \in DOMAIN disk /\ disk[f] = FixedContent(f)
    PROVE  \A f \in Fixed : f \in DOMAIN Over(writes, disk) /\ Over(writes, disk)[f] = FixedContent(f)
<1> SUFFICES ASSUME NEW f \in Fixed
             PROVE  f \in DOMAIN Over(writes, disk) /\ Over(writes, disk)[f] = FixedContent(f)
  OBVIOUS
<1>1. f \notin DOMAIN writes /\ f \in DOMAIN disk /\ disk[f] = FixedContent(f)
  BY DEF Faithful
<1> QED
  BY <1>1 DEF Over

\* Only the fake certificates and the external files are on disk, and no host uses any.
LEMMA CertInit == Init => CertInv
<1> SUFFICES ASSUME Init PROVE CertInv
  OBVIOUS
<1>1. DOMAIN secrets = Secret
  BY GlobalSyncAssumption DEF Init
<1>2. sync.phase = "idle" /\ ~seen.ok /\ stray = {}
  BY DEF Init, Idle
<1>3. config = NewConfig /\ config.default = NoFile /\ DOMAIN config.hosts = {}
  BY DEF Init, NewConfig, NoHosts
<1>4. Users(config) = {}
  BY SMTT(90), <1>3 DEF Users, NoFile
<1>5. ASSUME NEW f \in Fixed PROVE f \in DOMAIN disk /\ disk[f] = FixedContent(f)
  <2> DEFINE ext == [g \in ExternalFiles |-> <<"external", g[2], g[3]>>]
             b == Write(FakeCA.file, FakeCA.hash)
             a == Write(FakeCrt.file, FakeCrt.hash)
  <2>1. /\ DOMAIN ext = ExternalFiles /\ \A g \in ExternalFiles : ext[g] = <<"external", g[2], g[3]>>
        /\ DOMAIN a = {FakeCrt.file} /\ a[FakeCrt.file] = FakeCrt.hash
        /\ DOMAIN b = {FakeCA.file} /\ b[FakeCA.file] = FakeCA.hash
    BY DEF Write
  <2>2. disk = Over(a, Over(b, ext))
    BY DEF Init
  <2> HIDE DEF a, b, ext
  <2> DEFINE o == Over(b, ext)
  <2>3. /\ DOMAIN o = DOMAIN b \cup DOMAIN ext
        /\ \A g \in DOMAIN b : o[g] = b[g]
        /\ \A g \in DOMAIN ext \ DOMAIN b : o[g] = ext[g]
    BY OverFacts
  <2> HIDE DEF o
  <2>4. /\ DOMAIN Over(a, o) = DOMAIN a \cup DOMAIN o
        /\ \A g \in DOMAIN a : Over(a, o)[g] = a[g]
        /\ \A g \in DOMAIN o \ DOMAIN a : Over(a, o)[g] = o[g]
    BY OverFacts
  <2>5. disk = Over(a, o)
    BY <2>2 DEF o
  <2> QED
    BY <2>1, <2>3, <2>4, <2>5 DEF Fixed, FixedContent
<1>6. HostsInv /\ DefaultInv
  BY <1>2, <1>3 DEF HostsInv, DefaultInv
<1> QED
  BY <1>1, <1>2, <1>4, <1>5, <1>6 DEF CertInv, Backed

\* A changed secret makes stale the hosts that are linked to it, and they are noted.
LEMMA ChangeSecretCert == SyncInv /\ CertInv /\ ChangeSecret => CertInv'
<1> SUFFICES ASSUME SyncInv, CertInv, NEW id \in Secret, NEW c,
                    secrets' = [secrets EXCEPT ![id] = c],
                    changed' = [changed EXCEPT !.secrets = @ \cup {id}],
                    UNCHANGED <<conf, confCur, sync, tracker, dyn, config, disk, running, seen, stray>>
             PROVE  CertInv'
  BY DEF ChangeSecret
<1>1. DOMAIN secrets' = Secret /\ changed'.secrets = changed.secrets \cup {id}
  BY DEF CertInv, SyncInv, Shapes
<1>2. \A x : x # id => Content0(x, secrets') = Content0(x, secrets)
  BY <1>1 DEF Content0, CertInv
<1>3. DefaultInv'
  <2>1. ASSUME DefaultLinks \cap changed'.secrets = {}
        PROVE  /\ DefaultLinks \cap changed.secrets = {}
               /\ readDefaultCertificate(secrets') = readDefaultCertificate(secrets)
    <3>1. \A x \in DefaultLinks : Content0(x, secrets') = Content0(x, secrets)
      BY <1>1, <1>2, <2>1
    <3> QED
      BY <1>1, <2>1, <3>1, DefaultDepends
  <2>2. DefaultInv
    BY DEF CertInv
  <2> QED
    BY <2>1, <2>2 DEF DefaultInv
<1>4. ASSUME HostsInv PROVE HostsInv'
  <2>1. ASSUME NEW h \in DOMAIN config.hosts, NEW k \in Use,
               PartLinks(h, k, dyn) \cap changed'.secrets = {}
        PROVE  /\ PartLinks(h, k, dyn) \cap changed.secrets = {}
               /\ Part(h, k, dyn, secrets', config.default) = Part(h, k, dyn, secrets, config.default)
    <3>1. h \in Host
      BY DEF SyncInv, Shapes, IsConfig
    <3>2. ASSUME NEW x \in PartLinks(h, k, dyn)
          PROVE  Content0(x, secrets') = Content0(x, secrets)
      <4>1. id \in changed'.secrets
        BY <1>1
      <4>2. x # id
        BY <2>1, <4>1
      <4> QED
        BY <1>2, <4>2
    <3>3. Part(h, k, dyn, secrets', config.default) = Part(h, k, dyn, secrets, config.default)
      BY <3>1, <3>2, PartDepends
    <3> QED
      BY <1>1, <2>1, <3>3
  <2>2. \A h \in DOMAIN config.hosts, k \in Use :
           ~Pending(h) /\ PartLinks(h, k, dyn) \cap changed'.secrets = {}
              => config.hosts[h][k] = Part(h, k, dyn, secrets', config.default)
    BY <1>4, <2>1 DEF HostsInv
  <2>3. \A h : Pending(h)' <=> Pending(h)
    BY DEF Pending
  <2>4. \A p, h, k : PartOf(p, h, k)' <=> PartOf(p, h, k)
    BY DEF PartOf
  <2> QED
    BY <1>4, <2>2, <2>3, <2>4 DEF HostsInv
<1>5. /\ (Rebuilding' <=> Rebuilding) /\ (Untouched' <=> Untouched)
      /\ Backed(config, disk, stray)' <=> Backed(config, disk, stray)
      /\ Backed(config, running.mem, stray)' <=> Backed(config, running.mem, stray)
  BY DEF Rebuilding, Untouched
<1> QED
  BY <1>1, <1>3, <1>4, <1>5 DEF CertInv

\* A change of the ConfigMap leaves the certificates as they are.
LEMMA ChangeConfCert == SyncInv /\ CertInv /\ ChangeConf => CertInv'
<1> SUFFICES ASSUME SyncInv, CertInv, ChangeConf PROVE CertInv'
  OBVIOUS
<1>1. changed'.secrets = changed.secrets
  BY DEF ChangeConf, SyncInv, Shapes
<1>2. UNCHANGED <<secrets, confCur, sync, tracker, dyn, config, disk, running, seen, stray>>
  BY DEF ChangeConf
<1>3. (DefaultInv' <=> DefaultInv) /\ (HostsInv' <=> HostsInv)
  <2>1. DefaultInv' <=> DefaultInv
    BY <1>1, <1>2 DEF DefaultInv
  <2>2. (\A h : Pending(h)' <=> Pending(h)) /\ (\A p, h, k : PartOf(p, h, k)' <=> PartOf(p, h, k))
    BY <1>2 DEF Pending, PartOf
  <2>3. HostsInv' <=> HostsInv
    BY <1>1, <1>2, <2>2 DEF HostsInv
  <2> QED
    BY <2>1, <2>3
<1>4. /\ (Rebuilding' <=> Rebuilding) /\ (Untouched' <=> Untouched)
      /\ Backed(config, disk, stray)' <=> Backed(config, disk, stray)
      /\ Backed(config, running.mem, stray)' <=> Backed(config, running.mem, stray)
  BY <1>2 DEF Rebuilding, Untouched
<1> QED
  BY <1>2, <1>3, <1>4 DEF CertInv

\* A host that is up to date has the content of the secrets in its files.
LEMMA FreshContents ==
    ASSUME NEW h \in Host, NEW k \in Use, NEW d, Flags(d),
           NEW ss, DOMAIN ss = Secret,
           NEW default, Held(default) = Stored(default.file, ss),
           Part(h, k, d, ss, default).file # <<>>
    PROVE  LET p == Part(h, k, d, ss, default) IN Held(p) = Stored(p.file, ss)
<1> DEFINE r == HostOf(h, d, ss, default)
<1>1. \/ r.host[k] = default \/ r.host[k].file = <<>>
      \/ Sourced(r.host[k], r.writes, PartLinks(h, k, d), ss)
  BY HostContents
<1>2. Part(h, k, d, ss, default) = r.host[k]
  BY DEF Part
<1> HIDE DEF r
<1> QED
  BY <1>1, <1>2 DEF Sourced

\* A reference reads one secret at most.
LEMMA OneLink ==
    ASSUME NEW h, NEW k, NEW d, NEW x \in PartLinks(h, k, d), NEW y \in PartLinks(h, k, d)
    PROVE  x = y
BY SMTT(90) DEF PartLinks, LinkOf

\* A sync reads the default certificate, which may write its file, and takes the hosts of
\* the changed secrets as dirty: the files of the other ones are not touched.
LEMMA StartCert == SyncInv /\ CertInv /\ Start => CertInv'
<1> SUFFICES ASSUME SyncInv, CertInv, Start PROVE CertInv'
  OBVIOUS
<1> DEFINE default == readDefaultCertificate(secrets)
           full == default.crt # config.default \/ (changed.conf /\ conf # confCur)
           dirty == {l[2] : l \in {m \in tracker : m[1] \in changed.secrets}}
<1>1. /\ sync.phase = "idle" /\ changed' = [secrets |-> {}, conf |-> FALSE]
      /\ sync'.phase = "sync" /\ sync'.full = full /\ sync'.default = default.crt /\ sync'.dirty = dirty
      /\ disk' = Over(default.writes, disk) /\ confCur' = conf
      /\ config' = IF full THEN NewConfig ELSE config
      /\ tracker' = IF full THEN {} ELSE tracker
      /\ UNCHANGED <<secrets, dyn, running, seen, stray>>
  BY DEF Start, Clear
<1>2. Faithful(default.writes, secrets) /\ Sourced(default.crt, default.writes, DefaultLinks, secrets)
  BY DefaultContents DEF CertInv
<1>3. DOMAIN secrets = Secret /\ \A f \in Fixed : f \in DOMAIN disk /\ disk[f] = FixedContent(f)
  BY DEF CertInv
<1>4. changed'.secrets = {}
  BY <1>1
<1> DEFINE w == default.writes
<1> HIDE DEF default, dirty
<1>5. /\ DOMAIN disk' = DOMAIN w \cup DOMAIN disk
      /\ \A f \in DOMAIN w : disk'[f] = Stored(f, secrets)
      /\ \A f \in DOMAIN disk \ DOMAIN w : disk'[f] = disk[f]
  <2> HIDE DEF w
  <2>1. disk' = Over(w, disk) /\ Faithful(w, secrets)
    BY <1>1, <1>2 DEF w
  <2>2. /\ DOMAIN Over(w, disk) = DOMAIN w \cup DOMAIN disk
        /\ \A f \in DOMAIN w : Over(w, disk)[f] = w[f]
        /\ \A f \in DOMAIN disk \ DOMAIN w : Over(w, disk)[f] = disk[f]
    BY OverFacts
  <2> QED
    BY <2>1, <2>2 DEF Faithful
<1>6. \A f \in DOMAIN w : f \notin Fixed
  BY <1>2 DEF Faithful
<1> HIDE DEF w
<1>7. \A f \in Fixed : f \in DOMAIN disk' /\ disk'[f] = FixedContent(f)
  BY <1>3, <1>5, <1>6
<1>8. /\ default.crt.file # <<>> /\ Held(default.crt) = Stored(default.crt.file, secrets)
      /\ default.crt.file \in Fixed \/ default.crt.file \in DOMAIN w
  BY <1>2 DEF Sourced, w
<1>9. DefaultInv'
  <2>1. disk'[default.crt.file] = Held(default.crt) /\ default.crt.file \in DOMAIN disk'
    BY <1>5, <1>7, <1>8 DEF Stored
  <2>2. default = readDefaultCertificate(secrets')
    BY <1>1 DEF default
  <2> QED
    BY <1>1, <1>8, <2>1, <2>2 DEF DefaultInv
<1>10. CASE full
  BY <1>1, <1>3, <1>7, <1>9, <1>10 DEF CertInv, Rebuilding
<1>11. CASE ~full
  <2>1. /\ confCur' = confCur /\ config' = config /\ tracker' = tracker /\ config.default = default.crt
    BY <1>1, <1>11 DEF SyncInv
  <2>2. HostsInv /\ Backed(config, running.mem, stray) /\ Backed(config, disk, stray)
    BY <1>1 DEF CertInv, Rebuilding
  <2>3. Flags(dyn) /\ \A h \in DOMAIN config.hosts : h \in Host
    BY DEF SyncInv, Shapes, IsConfig, Flags
  <2>4. ASSUME NEW h \in DOMAIN config.hosts, NEW k \in Use, NEW id \in PartLinks(h, k, dyn), h \notin dirty
        PROVE  id \notin changed.secrets
    <3>1. <<id, h>> \in tracker
      BY <2>2 DEF HostsInv
    <3>2. <<id, h>>[1] = id /\ <<id, h>>[2] = h
      OBVIOUS
    <3> QED
      BY <2>4, <3>1, <3>2 DEF dirty
  <2>5. ASSUME NEW h \in DOMAIN config.hosts, NEW k \in Use,
               PartLinks(h, k, dyn) \cap changed.secrets = {}
        PROVE  /\ config.hosts[h][k] = Part(h, k, dyn, secrets, config.default)
               /\ config.hosts[h][k].file # <<>>
                     => Held(config.hosts[h][k]) = Stored(config.hosts[h][k].file, secrets)
    <3>1. config.hosts[h][k] = Part(h, k, dyn, secrets, config.default)
      BY <1>1, <2>2, <2>5 DEF HostsInv, Pending
    <3>2. h \in Host /\ DOMAIN secrets = Secret /\ Held(config.default) = Stored(config.default.file, secrets)
      BY <1>3, <1>8, <2>1, <2>3
    <3>3. ASSUME Part(h, k, dyn, secrets, config.default).file # <<>>
          PROVE  LET q == Part(h, k, dyn, secrets, config.default) IN Held(q) = Stored(q.file, secrets)
      BY <2>3, <3>2, <3>3, FreshContents
    <3> QED
      BY <3>1, <3>3
  <2>6. HostsInv'
    <3>1. \A h \in DOMAIN config.hosts, k \in Use :
             h \notin dirty => config.hosts[h][k] = Part(h, k, dyn, secrets, config.default)
      BY <2>4, <2>5
    <3>2. \A h : Pending(h)' <=> h \in dirty
      BY <1>1 DEF Pending
    <3>3. \A p, h, k : PartOf(p, h, k)' <=> PartOf(p, h, k)
      BY <1>1, <2>1 DEF PartOf
    <3> QED
      BY <1>1, <2>1, <2>2, <3>1, <3>2, <3>3 DEF HostsInv
  <2>7. Untouched'
    <3> SUFFICES ASSUME NEW h \in DOMAIN config.hosts, h \notin dirty, NEW k \in Use,
                        config.hosts[h][k].file # <<>>
                 PROVE  /\ config.hosts[h][k].file \in DOMAIN disk'
                        /\ \/ config.hosts[h][k].file \in stray
                           \/ disk'[config.hosts[h][k].file] = Held(config.hosts[h][k])
      BY <1>1, <2>1 DEF Untouched
    <3> DEFINE p == config.hosts[h][k]
               f == p.file
    <3>1. PartLinks(h, k, dyn) \cap changed.secrets = {}
      BY <2>4
    <3>2. Held(p) = Stored(f, secrets)
      BY <2>5, <3>1
    <3>3. p \in Users(config)
      BY UserCases
    <3>4. PartOf(p, h, k)
      BY <2>2 DEF HostsInv
    <3> HIDE DEF p
    <3>5. f \in DOMAIN disk /\ f \in DOMAIN disk'
      BY <1>5, <2>2, <3>3 DEF Backed
    <3>6. CASE f \in DOMAIN w
      BY <1>5, <3>2, <3>5, <3>6 DEF p
    <3>7. CASE f \in Fixed
      BY <1>7, <3>2, <3>5, <3>7 DEF Stored, p
    <3>8. CASE f \notin DOMAIN w /\ f \notin Fixed /\ f \notin stray
      <4>1. PICK v \in Users(config) : v.file = f /\ Held(v) = disk[f]
        BY <2>2, <3>3, <3>8 DEF Backed
      <4>2. SecretOf(f) \in PartLinks(h, k, dyn)
        <5>1. f # <<>>
          BY DEF p
        <5>2. p # config.default
          BY <1>8, <2>1, <3>8
        <5> QED
          BY <3>4, <3>8, <5>1, <5>2 DEF PartOf
      <4>3. Held(v) = Stored(f, secrets)
        <5>1. CASE v = config.default
          BY <1>8, <2>1, <4>1, <5>1
        <5>2. ASSUME NEW g \in DOMAIN config.hosts, NEW j \in Use, v = config.hosts[g][j],
                     v # config.default
              PROVE  Held(v) = Stored(f, secrets)
          <6>1. PartOf(v, g, j)
            BY <2>2, <5>2 DEF HostsInv
          <6>2. SecretOf(f) \in PartLinks(g, j, dyn)
            BY <3>8, <4>1, <5>2, <6>1, UserCases DEF PartOf
          <6>3. SecretOf(f) \notin changed.secrets
            BY <3>1, <4>2
          <6>4. PartLinks(g, j, dyn) \cap changed.secrets = {}
            BY SMTT(90), <6>2, <6>3, OneLink
          <6>5. v.file # <<>>
            BY UserCases
          <6> QED
            BY <2>5, <4>1, <5>2, <6>4, <6>5
        <5> QED
          BY SMTT(90), <5>1, <5>2, UserCases
      <4> QED
        BY <1>5, <3>2, <3>5, <3>8, <4>1, <4>3 DEF p
    <3>9. CASE f \in stray
      BY <3>5, <3>9 DEF p
    <3> QED
      BY <3>6, <3>7, <3>8, <3>9
  <2>8. Backed(config, running.mem, stray)'
    BY <1>1, <2>1, <2>2
  <2> QED
    BY <1>1, <1>3, <1>7, <1>9, <1>11, <2>6, <2>7, <2>8 DEF CertInv, Rebuilding
<1> QED
  BY <1>10, <1>11

\* A host that is rebuilt: its files are written, fixed, or the default certificate.
LEMMA Rebuilt ==
    ASSUME NEW h \in Host, NEW k \in Use, NEW d, Flags(d),
           DOMAIN secrets = Secret, NEW writes, Faithful(writes, secrets),
           DOMAIN HostOf(h, d, secrets, sync.default).writes \subseteq DOMAIN writes,
           \A f \in Fixed : f \in DOMAIN disk /\ disk[f] = FixedContent(f),
           sync.default.file \in DOMAIN disk, disk[sync.default.file] = Held(sync.default)
    PROVE  LET p == HostOf(h, d, secrets, sync.default).host[k]
           IN  /\ p.file # <<>> => \/ p.file \in DOMAIN writes
                                   \/ p.file \in DOMAIN disk /\ disk[p.file] = Held(p)
               /\ \/ p = sync.default \/ p.file = <<>>
                  \/ p.file \in Fixed /\ Held(p) = FixedContent(p.file)
                  \/ p.file \notin Fixed /\ SecretOf(p.file) \in PartLinks(h, k, d)
<1> DEFINE r == HostOf(h, d, secrets, sync.default)
           p == r.host[k]
<1>1. p = sync.default \/ p.file = <<>> \/ Sourced(p, r.writes, PartLinks(h, k, d), secrets)
  BY HostContents
<1> HIDE DEF r
<1>2. DOMAIN r.writes \subseteq DOMAIN writes /\ \A f \in DOMAIN writes : f \notin Fixed
  BY DEF r, Faithful
<1>3. CASE p = sync.default \/ p.file = <<>>
  BY <1>3 DEF r
<1>4. CASE Sourced(p, r.writes, PartLinks(h, k, d), secrets)
  <2>1. /\ p.file # <<>> /\ Held(p) = Stored(p.file, secrets)
        /\ p.file \in Fixed \/ (p.file \in DOMAIN r.writes /\ SecretOf(p.file) \in PartLinks(h, k, d))
    BY <1>4 DEF Sourced
  <2>2. p.file \in Fixed => Held(p) = FixedContent(p.file)
    BY <2>1 DEF Stored
  <2> HIDE DEF p
  <2>3. CASE p.file \in Fixed
    BY <2>2, <2>3 DEF p, r
  <2>4. CASE p.file \notin Fixed
    BY <1>2, <2>1, <2>4 DEF p, r
  <2> QED
    BY <2>3, <2>4
<1> QED
  BY <1>1, <1>3, <1>4

\* The hosts of new differ from those of old by the content of certificates.
CertsOnly(old, new) ==
    /\ IsConfig(old) /\ IsConfig(new)
    /\ DOMAIN new.hosts = DOMAIN old.hosts /\ new.default = old.default
    /\ \A h \in DOMAIN new.hosts : CertOnly(old.hosts[h], new.hosts[h])

\* The files of the certificates that differ.
CertFiles(old, new) ==
    {new.hosts[h].tls.file : h \in {g \in DOMAIN new.hosts \cap DOMAIN old.hosts :
                                      /\ old.hosts[g].tls.hash # new.hosts[g].tls.hash
                                      /\ old.hosts[g].tls.file = new.hosts[g].tls.file}}

\* What HAProxy has after an update without a reload.
LEMMA BackedUpdate ==
    ASSUME NEW old, NEW new, NEW mem, NEW onDisk, NEW before, NEW after, before \subseteq after,
           Backed(old, mem, before), Backed(new, onDisk, after), CertsOnly(old, new)
    PROVE  Backed(new, execUpdateCert(mem, CertFiles(old, new), onDisk), after)
<1> DEFINE files == CertFiles(old, new)
           loaded == execUpdateCert(mem, files, onDisk)
<1>0. /\ IsConfig(old) /\ IsConfig(new)
      /\ DOMAIN new.hosts = DOMAIN old.hosts /\ new.default = old.default
      /\ \A h \in DOMAIN new.hosts : CertOnly(old.hosts[h], new.hosts[h])
  BY DEF CertsOnly
<1>1. /\ DOMAIN loaded = DOMAIN mem
      /\ \A f \in DOMAIN mem : loaded[f] = IF f \in files THEN onDisk[f] ELSE mem[f]
  BY DEF execUpdateCert
<1>2. ASSUME NEW h \in DOMAIN old.hosts, NEW k \in Use
      PROVE  /\ new.hosts[h][k].file = old.hosts[h][k].file
             /\ new.hosts[h][k].file \notin files => new.hosts[h][k] = old.hosts[h][k]
  <2>1. IsHost(old.hosts[h]) /\ IsHost(new.hosts[h]) /\ CertOnly(old.hosts[h], new.hosts[h])
    BY <1>0 DEF IsConfig
  <2>2. /\ old.hosts[h].tls.file = new.hosts[h].tls.file
        /\ old.hosts[h].ca = new.hosts[h].ca /\ old.hosts[h].crl = new.hosts[h].crl
    BY <2>1, CertOnlyFiles
  <2>3. ASSUME new.hosts[h].tls.file \notin files PROVE new.hosts[h].tls = old.hosts[h].tls
    <3>1. old.hosts[h].tls.hash = new.hosts[h].tls.hash
      BY <1>0, <2>2, <2>3 DEF CertFiles
    <3>2. IsFile(old.hosts[h].tls) /\ IsFile(new.hosts[h].tls)
      BY <2>1 DEF IsHost
    <3> QED
      BY <2>2, <3>1, <3>2 DEF IsFile
  <2> HIDE DEF files
  <2> QED
    BY <2>2, <2>3 DEF Use
<1> HIDE DEF files, loaded
<1>3. ASSUME NEW u \in Users(new)
      PROVE  /\ u.file \in DOMAIN loaded
             /\ u.file \in after \/ \E v \in Users(new) : v.file = u.file /\ Held(v) = loaded[u.file]
  <2>1. \E v \in Users(old) : v.file = u.file
    <3>1. u.file # <<>> /\ (u = new.default \/ \E h \in DOMAIN new.hosts, k \in Use : u = new.hosts[h][k])
      BY SMTT(90), UserCases
    <3>2. CASE u = new.default
      BY <1>0, <3>1, <3>2, UserCases
    <3>3. ASSUME NEW h \in DOMAIN new.hosts, NEW k \in Use, u = new.hosts[h][k]
          PROVE  \E v \in Users(old) : v.file = u.file
      <4>1. old.hosts[h][k].file = u.file
        BY <1>0, <1>2, <3>3
      <4>2. old.hosts[h][k] \in Users(old)
        BY <1>0, <3>1, <4>1, UserCases
      <4> QED
        BY <4>1, <4>2
    <3> QED
      BY <3>1, <3>2, <3>3
  <2>2. u.file \in DOMAIN mem
    BY <2>1 DEF Backed
  <2>3. CASE u.file \in files
    BY <1>1, <2>2, <2>3 DEF Backed
  <2>4. CASE u.file \notin files /\ u.file \notin after
    <3>1. PICK v \in Users(old) : v.file = u.file /\ Held(v) = mem[u.file]
      BY <2>1, <2>4 DEF Backed
    <3>2. v.file # <<>> /\ (v = old.default \/ \E h \in DOMAIN old.hosts, k \in Use : v = old.hosts[h][k])
      BY SMTT(90), UserCases
    <3>3. v = new.default \/ \E h \in DOMAIN new.hosts, k \in Use : v = new.hosts[h][k]
      BY SMTT(90), <1>0, <1>2, <2>4, <3>1, <3>2
    <3>4. v \in Users(new)
      BY <3>2, <3>3, UserCases
    <3> QED
      BY <1>1, <2>2, <2>4, <3>1, <3>4
  <2>5. CASE u.file \in after /\ u.file \notin files
    BY <1>1, <2>2, <2>5
  <2> QED
    BY <2>3, <2>4, <2>5
<1> QED
  BY <1>3 DEF Backed, loaded, files

\* What the end of a sync makes of a host: rebuilt, or left as it was.
RebuiltHost(h, w) ==
    LET r == HostOf(h, dyn', secrets, sync.default)
    IN  /\ config'.hosts[h] = r.host /\ DOMAIN r.writes \subseteq DOMAIN w
        /\ \A id \in r.links : <<id, h>> \in tracker'
KeptHost(h) ==
    /\ ~sync.full /\ h \in DOMAIN config.hosts \ sync.dirty
    /\ config'.hosts[h] = config.hosts[h]
    /\ \A id : <<id, h>> \in tracker => <<id, h>> \in tracker'

\* What HAProxy has in memory: what a reload finds on disk, or the certificates that
\* the commands sent.
Reloads == running'.mem = [f \in FilesOf(config') |-> disk'[f]]
Updates ==
    LET certs == {h \in DOMAIN config'.hosts \cap DOMAIN config.hosts :
                     /\ config.hosts[h].tls.hash # config'.hosts[h].tls.hash
                     /\ config.hosts[h].tls.file = config'.hosts[h].tls.file}
    IN  /\ ~sync.full
        /\ \A h \in DOMAIN config'.hosts : CertOnly(config.hosts[h], config'.hosts[h])
        /\ running'.mem = execUpdateCert(running.mem, {config'.hosts[h].tls.file : h \in certs}, disk')

\* The end of a sync that writes w.
Finishes(w) ==
    /\ sync.phase = "sync" /\ sync'.phase = "idle" /\ UNCHANGED <<secrets, changed, confCur>>
    /\ Faithful(w, secrets) /\ disk' = Over(w, disk)
    /\ stray' = (IF sync.full THEN {} ELSE stray) \cup Strays(config', w)
    /\ config'.default = sync.default
    /\ ~sync.full => dyn' = dyn /\ DOMAIN config'.hosts = DOMAIN config.hosts
    /\ \A h \in DOMAIN config'.hosts : RebuiltHost(h, w) \/ KeptHost(h)
    /\ DOMAIN config'.hosts # {} => dyn' = buildGlobalDynamic(confCur, StaticCrossNamespaceSecrets)
    /\ seen'.ok => DOMAIN config'.hosts = Host
    /\ Reloads \/ Updates

\* Full or partial, the end of a sync rebuilds or keeps each host, and HAProxy is
\* reloaded or gets the certificates by commands.
LEMMA FinishFinishes ==
    ASSUME SyncInv, CertInv, Finish
    PROVE  \E w : Finishes(w)
<1> DEFINE start == [config EXCEPT !.default = sync.default]
<1>1. PICK listed \in BOOLEAN, works \in BOOLEAN :
         LET r == Synced(start, dyn, listed)
         IN  /\ sync.phase = "sync"
             /\ config' = r.config /\ dyn' = r.dyn /\ tracker' = r.links /\ disk' = Over(r.writes, disk)
             /\ running' = checkConfigChange(config, r.config, Over(r.writes, disk), works)
             /\ seen' = (IF sync.full THEN [secrets |-> secrets, ok |-> listed] ELSE seen)
             /\ stray' = (IF sync.full THEN {} ELSE stray) \cup Strays(r.config, r.writes)
             /\ sync' = Idle
             /\ UNCHANGED <<conf, secrets, confCur, changed>>
  BY DEF Finish
<1> DEFINE r == Synced(start, dyn, listed)
           w == r.writes
<1>2. start = [global |-> config.global, default |-> sync.default, hosts |-> config.hosts]
  BY SMTT(90) DEF SyncInv, Shapes, IsConfig
<1>3. /\ sync.phase = "sync" /\ sync'.phase = "idle" /\ UNCHANGED <<secrets, changed, confCur>>
      /\ disk' = Over(w, disk)
      /\ stray' = (IF sync.full THEN {} ELSE stray) \cup Strays(config', w)
  BY <1>1 DEF Idle
<1>4. sync.conf = confCur /\ sync.full \in BOOLEAN /\ DOMAIN secrets = Secret
  BY <1>1 DEF SyncInv, CertInv, Shapes
<1>5. Reloads \/ Updates
  <2> HIDE DEF r
  <2>1. running' = checkConfigChange(config, config', disk', works)
    BY <1>1, <1>3 DEF r
  <2> QED
    BY <2>1 DEF checkConfigChange, Reloads, Updates
<1>6. CASE sync.full /\ listed
  <2> DEFINE d == buildGlobalDynamic(confCur, StaticCrossNamespaceSecrets)
             reads == [h \in Host |-> HostOf(h, d, secrets, sync.default)]
             all == {reads[h].writes : h \in Host}
                    \cup {StatsRead(sync.conf, secrets).writes, DHRead(sync.conf, secrets).writes}
  <2>1. r = FullResult(start, d, reads)
    BY <1>4, <1>6 DEF Synced, syncFull
  <2>2. Flags(d)
    BY DynamicAllowed DEF Flags
  <2> HIDE DEF d
  <2>3. \A h \in Host : reads[h] = HostOf(h, d, secrets, sync.default)
    OBVIOUS
  <2>4. \A h \in Host : Faithful(reads[h].writes, secrets)
    BY <1>4, <2>2, <2>3, HostContents
  <2> HIDE DEF reads
  <2> DEFINE hosts == [h \in Host |-> reads[h].host]
  <2> HIDE DEF start, r
  <2>5. /\ r.dyn = d /\ w = AllWrites(all)
        /\ r.links = UNION {reads[h].links \X {h} : h \in Host}
        /\ r.config = [start EXCEPT !.global = GlobalFrom(start.global, sync.conf, secrets),
                                    !.hosts = hosts]
    BY <2>1 DEF FullResult
  <2> HIDE DEF w
  <2>6. /\ r.config.default = sync.default /\ DOMAIN r.config.hosts = Host
        /\ \A h \in Host : r.config.hosts[h] = reads[h].host
    <3>1. DOMAIN hosts = Host /\ \A h \in Host : hosts[h] = reads[h].host
      OBVIOUS
    <3> HIDE DEF hosts
    <3>2. r.config.default = sync.default /\ r.config.hosts = hosts
      BY <1>2, <2>5
    <3> QED
      BY <3>1, <3>2
  <2>7. \A x \in all : Faithful(x, secrets)
    BY <1>4, <2>4, DHContents
  <2>8. Faithful(w, secrets) /\ \A h \in Host : DOMAIN reads[h].writes \subseteq DOMAIN w
    <3>1. \A h \in Host : reads[h].writes \in all
      OBVIOUS
    <3> HIDE DEF all
    <3> QED
      BY <2>5, <2>7, <3>1, AllWritesFacts
  <2>9. config' = r.config /\ dyn' = d /\ tracker' = r.links /\ seen'.ok = TRUE
    BY <1>1, <1>6, <2>5 DEF r
  <2>10. ASSUME NEW h \in DOMAIN config'.hosts PROVE RebuiltHost(h, w)
    <3>1. h \in Host /\ config'.hosts[h] = reads[h].host
      BY <2>6, <2>9
    <3>2. reads[h] = HostOf(h, dyn', secrets, sync.default)
      BY <2>3, <2>9, <3>1
    <3>3. \A id \in reads[h].links : <<id, h>> \in tracker'
      BY SMTT(90), <2>5, <2>9, <3>1
    <3> QED
      BY <2>8, <3>1, <3>2, <3>3 DEF RebuiltHost
  <2>11. dyn' = buildGlobalDynamic(confCur, StaticCrossNamespaceSecrets) /\ DOMAIN config'.hosts = Host
    BY <2>6, <2>9 DEF d
  <2>12. Finishes(w)
    BY <1>3, <1>5, <1>6, <2>6, <2>8, <2>9, <2>10, <2>11 DEF Finishes
  <2> QED
    BY <2>12
<1>7. CASE sync.full /\ ~listed
  <2>1. r = syncFullFails(start, dyn)
    BY <1>7 DEF Synced
  <2>2. w = NoWrites /\ r.config = start
    BY SMTT(90), <2>1 DEF syncFullFails
  <2>3. DOMAIN config.hosts = {}
    BY SMTT(90), <1>1, <1>7 DEF SyncInv, Rebuilding, NewConfig, NoHosts
  <2>4. config'.default = sync.default /\ DOMAIN config'.hosts = {} /\ seen'.ok = FALSE
    BY <1>1, <1>2, <1>7, <2>2, <2>3
  <2>5. Faithful(w, secrets)
    BY <2>2 DEF Faithful, NoWrites
  <2> HIDE DEF r, w
  <2>6. Finishes(w)
    BY <1>3, <1>5, <1>7, <2>4, <2>5 DEF Finishes
  <2> QED
    BY <2>6
<1>8. CASE ~sync.full
  <2> DEFINE reads == [h \in sync.dirty |-> HostOf(h, dyn, secrets, sync.default)]
             all == {reads[h].writes : h \in sync.dirty}
             hosts == [h \in DOMAIN config.hosts |->
                         IF h \in sync.dirty THEN reads[h].host ELSE config.hosts[h]]
  <2>1. r = syncPartial(start, dyn)
    BY <1>8 DEF Synced
  <2>2. start.hosts = config.hosts /\ start.default = sync.default
    BY <1>2
  <2> HIDE DEF start, r
  <2>3. /\ r.dyn = dyn /\ w = AllWrites(all)
        /\ r.links = {l \in tracker : l[2] \notin sync.dirty}
                     \cup UNION {reads[h].links \X {h} : h \in sync.dirty}
        /\ r.config = [start EXCEPT !.hosts = hosts]
    BY <2>1, <2>2 DEF syncPartial
  <2>4. Flags(dyn) /\ HostsInv
    BY <1>8 DEF SyncInv, Shapes, CertInv, Rebuilding, Flags
  <2>5. \A h \in sync.dirty : reads[h] = HostOf(h, dyn, secrets, sync.default)
    OBVIOUS
  <2> HIDE DEF reads, w
  <2>6. ASSUME NEW h \in sync.dirty PROVE Faithful(reads[h].writes, secrets)
    <3>1. Faithful(HostOf(h, dyn, secrets, sync.default).writes, secrets)
      BY <1>4, <2>4, HostContents
    <3> QED
      BY <2>5, <3>1
  <2>7. /\ DOMAIN hosts = DOMAIN config.hosts
        /\ \A h \in DOMAIN config.hosts :
              hosts[h] = IF h \in sync.dirty THEN reads[h].host ELSE config.hosts[h]
    OBVIOUS
  <2> HIDE DEF hosts
  <2>8. r.config.default = sync.default /\ r.config.hosts = hosts
    BY <1>2, <2>3
  <2>9. Faithful(w, secrets) /\ \A h \in sync.dirty : DOMAIN reads[h].writes \subseteq DOMAIN w
    <3>1. (\A h \in sync.dirty : reads[h].writes \in all) /\ \A x \in all : Faithful(x, secrets)
      BY <2>6
    <3> HIDE DEF all
    <3> QED
      BY <2>3, <3>1, AllWritesFacts
  <2>10. config' = r.config /\ dyn' = dyn /\ tracker' = r.links /\ seen' = seen
    BY <1>1, <1>8, <2>3 DEF r
  <2>11. ASSUME NEW h \in DOMAIN config'.hosts PROVE RebuiltHost(h, w) \/ KeptHost(h)
    <3>1. h \in DOMAIN config.hosts /\ config'.hosts[h] = hosts[h]
      BY <2>7, <2>8, <2>10
    <3>2. CASE h \in sync.dirty
      <4>1. config'.hosts[h] = reads[h].host /\ reads[h] = HostOf(h, dyn', secrets, sync.default)
        BY <2>5, <2>7, <2>10, <3>1, <3>2
      <4>2. \A id \in reads[h].links : <<id, h>> \in tracker'
        BY SMTT(90), <2>3, <2>10, <3>2
      <4> QED
        BY <2>9, <3>2, <4>1, <4>2 DEF RebuiltHost
    <3>3. CASE h \notin sync.dirty
      <4>1. config'.hosts[h] = config.hosts[h]
        BY <2>7, <3>1, <3>3
      <4>2. ASSUME NEW id, <<id, h>> \in tracker PROVE <<id, h>> \in tracker'
        <5>1. <<id, h>>[2] = h
          OBVIOUS
        <5> QED
          BY <2>3, <2>10, <3>3, <4>2, <5>1
      <4> QED
        BY <1>8, <3>1, <3>3, <4>1, <4>2 DEF KeptHost
    <3> QED
      BY <3>2, <3>3
  <2>12. /\ DOMAIN config'.hosts = DOMAIN config.hosts /\ config'.default = sync.default
         /\ seen'.ok => DOMAIN config'.hosts = Host
         /\ DOMAIN config'.hosts # {} => dyn' = buildGlobalDynamic(confCur, StaticCrossNamespaceSecrets)
    BY <2>4, <2>7, <2>8, <2>10 DEF HostsInv
  <2>13. Finishes(w)
    BY <1>3, <1>5, <1>8, <2>9, <2>10, <2>11, <2>12 DEF Finishes
  <2> QED
    BY <2>13
<1> QED
  BY <1>4, <1>6, <1>7, <1>8

\* The hosts are fresh and backed by their files: written by the sync, or already there.
\* The files that a read wrote against its users are stray.
LEMMA FinishCert == SyncInv /\ CertInv /\ Finish => CertInv'
<1> SUFFICES ASSUME SyncInv, CertInv, Finish PROVE CertInv'
  OBVIOUS
<1>1. PICK w : Finishes(w)
  BY FinishFinishes
<1>2. IsConfig(config') /\ dyn'.crt \in BOOLEAN /\ dyn'.ca \in BOOLEAN
  BY FinishKeeps DEF SyncInv, Shapes
<1>3. /\ IsConfig(config) /\ DOMAIN secrets = Secret
      /\ \A f \in Fixed : f \in DOMAIN disk /\ disk[f] = FixedContent(f)
      /\ sync.default.file # <<>> /\ sync.default.file \in DOMAIN disk
      /\ disk[sync.default.file] = Held(sync.default)
      /\ DefaultLinks \cap changed.secrets = {} => sync.default = readDefaultCertificate(secrets).crt
  BY <1>1 DEF SyncInv, Shapes, CertInv, DefaultInv, Finishes
<1>4. /\ sync.phase = "sync" /\ sync'.phase = "idle" /\ UNCHANGED <<secrets, changed, confCur>>
      /\ Faithful(w, secrets) /\ disk' = Over(w, disk)
      /\ stray' = (IF sync.full THEN {} ELSE stray) \cup Strays(config', w)
      /\ config'.default = sync.default
      /\ ~sync.full => dyn' = dyn /\ DOMAIN config'.hosts = DOMAIN config.hosts
      /\ \A h \in DOMAIN config'.hosts : RebuiltHost(h, w) \/ KeptHost(h)
      /\ DOMAIN config'.hosts # {} => dyn' = buildGlobalDynamic(confCur, StaticCrossNamespaceSecrets)
      /\ seen'.ok => DOMAIN config'.hosts = Host
      /\ Reloads \/ Updates
  BY <1>1 DEF Finishes
<1>5. ~sync.full => /\ config.default = sync.default /\ HostsInv /\ Untouched
                    /\ Backed(config, running.mem, stray)
  BY <1>4 DEF SyncInv, CertInv, Rebuilding
<1>6. DOMAIN config'.hosts \subseteq Host
  BY <1>2 DEF IsConfig
<1>7. ASSUME NEW h \in DOMAIN config'.hosts, NEW k \in Use
      PROVE  LET p == config'.hosts[h][k]
             IN  /\ \A id \in PartLinks(h, k, dyn') : <<id, h>> \in tracker'
                 /\ \/ p = sync.default \/ p.file = <<>>
                    \/ p.file \in Fixed /\ Held(p) = FixedContent(p.file)
                    \/ p.file \notin Fixed /\ SecretOf(p.file) \in PartLinks(h, k, dyn')
                 /\ PartLinks(h, k, dyn') \cap changed.secrets = {}
                       => p = Part(h, k, dyn', secrets, sync.default)
                 /\ p.file # <<>> =>
                       \/ p.file \in DOMAIN w
                       \/ /\ p.file \in DOMAIN disk
                          /\ (~sync.full /\ p.file \in stray) \/ disk[p.file] = Held(p)
  <2> DEFINE p == config'.hosts[h][k]
  <2>1. h \in Host
    BY <1>6
  <2>2. CASE RebuiltHost(h, w)
    <3> DEFINE d == dyn'
               r == HostOf(h, d, secrets, sync.default)
    <3>1. p = r.host[k] /\ DOMAIN r.writes \subseteq DOMAIN w
          /\ \A id \in r.links : <<id, h>> \in tracker'
      BY <2>2 DEF RebuiltHost
    <3>2. Flags(d)
      BY <1>2 DEF Flags
    <3> HIDE DEF d
    <3>3. PartLinks(h, k, d) \subseteq r.links
      BY <1>3, <3>2, HostContents
    <3>4. /\ r.host[k].file # <<>> => \/ r.host[k].file \in DOMAIN w
                                      \/ r.host[k].file \in DOMAIN disk /\ disk[r.host[k].file] = Held(r.host[k])
          /\ \/ r.host[k] = sync.default \/ r.host[k].file = <<>>
             \/ r.host[k].file \in Fixed /\ Held(r.host[k]) = FixedContent(r.host[k].file)
             \/ r.host[k].file \notin Fixed /\ SecretOf(r.host[k].file) \in PartLinks(h, k, d)
      <4>1. Faithful(w, secrets)
        BY <1>4
      <4>2. DOMAIN HostOf(h, d, secrets, sync.default).writes \subseteq DOMAIN w
        BY <3>1
      <4> QED
        BY <1>3, <2>1, <3>2, <4>1, <4>2, Rebuilt
    <3>5. r.host[k] = Part(h, k, d, secrets, sync.default)
      BY DEF Part
    <3> HIDE DEF r, p
    <3>6. /\ \A id \in PartLinks(h, k, d) : <<id, h>> \in tracker'
          /\ \/ p = sync.default \/ p.file = <<>>
             \/ p.file \in Fixed /\ Held(p) = FixedContent(p.file)
             \/ p.file \notin Fixed /\ SecretOf(p.file) \in PartLinks(h, k, d)
          /\ p = Part(h, k, d, secrets, sync.default)
          /\ p.file # <<>> => p.file \in DOMAIN w \/ (p.file \in DOMAIN disk /\ disk[p.file] = Held(p))
      BY <3>1, <3>3, <3>4, <3>5
    <3> QED
      BY <3>6 DEF p, d
  <2>3. CASE KeptHost(h)
    <3>1. /\ ~sync.full /\ h \in DOMAIN config.hosts /\ h \notin sync.dirty /\ p = config.hosts[h][k]
          /\ \A id : <<id, h>> \in tracker => <<id, h>> \in tracker'
      BY <2>3 DEF KeptHost
    <3>2. dyn' = dyn /\ config.default = sync.default /\ HostsInv /\ Untouched
      BY <1>4, <1>5, <3>1
    <3> HIDE DEF p
    <3>3. /\ \A id \in PartLinks(h, k, dyn) : <<id, h>> \in tracker
          /\ PartOf(p, h, k)
          /\ PartLinks(h, k, dyn) \cap changed.secrets = {} => p = Part(h, k, dyn, secrets, config.default)
      BY <3>1, <3>2 DEF HostsInv, Pending
    <3>4. p.file # <<>> => p.file \in DOMAIN disk /\ (p.file \in stray \/ disk[p.file] = Held(p))
      BY <3>1, <3>2 DEF Untouched
    <3>5. /\ \A id \in PartLinks(h, k, dyn) : <<id, h>> \in tracker'
          /\ \/ p = sync.default \/ p.file = <<>>
             \/ p.file \in Fixed /\ Held(p) = FixedContent(p.file)
             \/ p.file \notin Fixed /\ SecretOf(p.file) \in PartLinks(h, k, dyn)
          /\ PartLinks(h, k, dyn) \cap changed.secrets = {} => p = Part(h, k, dyn, secrets, sync.default)
      BY <3>1, <3>2, <3>3 DEF PartOf
    <3> QED
      BY <3>1, <3>2, <3>4, <3>5 DEF p
  <2> QED
    BY <1>4, <2>2, <2>3
<1>8. HostsInv'
  <2>1. ASSUME NEW h \in DOMAIN config'.hosts, NEW k \in Use
        PROVE  /\ \A id \in PartLinks(h, k, dyn') : <<id, h>> \in tracker'
               /\ PartOf(config.hosts[h][k], h, k)'
               /\ PartLinks(h, k, dyn') \cap changed'.secrets = {}
                     => config'.hosts[h][k] = Part(h, k, dyn', secrets', config'.default)
    BY <1>4, <1>7 DEF PartOf
  <2> QED
    BY <1>4, <2>1 DEF HostsInv
<1> DEFINE base == IF sync.full THEN {} ELSE stray
<1>9. Backed(config', disk', stray')
  <2>1. ASSUME NEW u \in Users(config')
        PROVE  \/ u.file \in DOMAIN w
               \/ u.file \in DOMAIN disk /\ (u.file \in base \/ disk[u.file] = Held(u))
    <3>1. /\ u.file # <<>>
          /\ u = config'.default \/ \E h \in DOMAIN config'.hosts, k \in Use : u = config'.hosts[h][k]
      BY SMTT(90), UserCases
    <3>2. CASE u = config'.default
      BY <1>3, <1>4, <3>2
    <3>3. CASE \E h \in DOMAIN config'.hosts, k \in Use : u = config'.hosts[h][k]
      BY <1>7, <3>1, <3>3
    <3> QED
      BY <3>1, <3>2, <3>3
  <2> DEFINE c == config'
  <2> HIDE DEF c, base
  <2>2. Backed(c, Over(w, disk), base \cup Strays(c, w))
    BY <2>1, BackedDisk DEF c
  <2> QED
    BY <1>4, <2>2 DEF c, base
<1>10. Backed(config', running'.mem, stray')
  <2> DEFINE c == config'
             files == disk'
             after == stray'
  <2>1. Backed(c, files, after)
    BY <1>9
  <2>2. CASE Reloads
    <3>1. running'.mem = [f \in FilesOf(c) |-> files[f]]
      BY <2>2 DEF Reloads
    <3> HIDE DEF c, files, after
    <3>2. Backed(c, running'.mem, after)
      BY SMTT(90), <2>1, <3>1, BackedReload
    <3> QED
      BY <3>2 DEF c, after
  <2>3. CASE Updates
    <3>1. /\ ~sync.full
          /\ \A h \in DOMAIN c.hosts : CertOnly(config.hosts[h], c.hosts[h])
          /\ running'.mem = execUpdateCert(running.mem, CertFiles(config, c), files)
      BY <2>3 DEF Updates, CertFiles
    <3>2. /\ stray \subseteq after /\ IsConfig(c) /\ DOMAIN c.hosts = DOMAIN config.hosts
          /\ c.default = config.default /\ Backed(config, running.mem, stray)
      BY <1>2, <1>4, <1>5, <3>1
    <3> HIDE DEF c, files, after
    <3>3. CertsOnly(config, c)
      BY <1>3, <3>1, <3>2 DEF CertsOnly
    <3>4. Backed(c, execUpdateCert(running.mem, CertFiles(config, c), files), after)
      BY <2>1, <3>2, <3>3, BackedUpdate
    <3>5. Backed(c, running'.mem, after)
      BY <3>1, <3>4
    <3> QED
      BY <3>5 DEF c, after
  <2> QED
    BY <1>4, <2>2, <2>3
<1>11. (\A f \in Fixed : f \in DOMAIN disk /\ disk[f] = FixedContent(f))'
  BY <1>3, <1>4, FixedKept
<1>12. DefaultInv'
  BY <1>3, <1>4 DEF DefaultInv
<1> QED
  BY <1>3, <1>4, <1>8, <1>9, <1>10, <1>11, <1>12 DEF CertInv, Rebuilding


\* The certificates of the configuration are those of the secrets, except those
\* whose secret changed since, and HAProxy has loaded what the configuration says.
THEOREM CertInvariant == Spec => [](SyncInv /\ CertInv)
<1>1. Init => SyncInv /\ CertInv
  BY SyncInit, CertInit
<1>2. SyncInv /\ CertInv /\ [Next]_vars => (SyncInv /\ CertInv)'
  <2> SUFFICES ASSUME SyncInv, CertInv, [Next]_vars PROVE CertInv'
    BY SyncNext
  <2>1. CASE UNCHANGED vars
    <3>1. UNCHANGED <<secrets, changed, sync, disk, config, dyn, confCur, tracker, running, seen, stray>>
      BY <2>1 DEF vars
    <3>2. DefaultInv => DefaultInv'
      BY SMTT(90), <3>1 DEF DefaultInv
    <3>3. HostsInv => HostsInv'
      BY SMTT(90), <3>1 DEF HostsInv, PartOf, Pending
    <3>4. Untouched => Untouched'
      BY SMTT(90), <3>1 DEF Untouched
    <3>5. /\ Backed(config, running.mem, stray) => Backed(config, running.mem, stray)'
          /\ Backed(config, disk, stray) => Backed(config, disk, stray)'
      BY SMTT(90), <3>1 DEF Backed
    <3> QED
      BY SMTT(90), <3>1, <3>2, <3>3, <3>4, <3>5 DEF CertInv, Rebuilding
  <2> QED
    BY <2>1, ChangeSecretCert, ChangeConfCert, StartCert, FinishCert DEF Next
<1> QED
  BY <1>1, <1>2, PTL DEF Spec

\* Nothing is left to sync: a file of a host that HAProxy has not loaded for another
\* reason has, in the memory of HAProxy, the content that the secrets have.
LEMMA SettledParts ==
    ASSUME SyncInv, CertInv, Settled, NEW h \in Host, NEW k \in Use
    PROVE  LET d == buildGlobalDynamic(conf, StaticCrossNamespaceSecrets)
               default == readDefaultCertificate(secrets).crt
           IN  /\ RunningHost(h)[k].file = Part(h, k, d, secrets, default).file
               /\ Loaded(RunningHost(h)[k], ContentOf(Part(h, k, d, secrets, default)))
<1> DEFINE d == buildGlobalDynamic(conf, StaticCrossNamespaceSecrets)
           default == readDefaultCertificate(secrets).crt
           p == Part(h, k, d, secrets, default)
<1>1. /\ sync.phase = "idle" /\ changed.secrets = {} /\ conf = confCur /\ seen.ok
      /\ DOMAIN secrets = Secret /\ HostsInv /\ DefaultInv /\ Consistent
      /\ Backed(config, running.mem, stray)
  BY DEF Settled, SyncInv, CertInv, Rebuilding
<1>2. DOMAIN config.hosts = Host /\ dyn = d /\ config.default = default
  BY <1>1 DEF HostsInv, DefaultInv
<1>3. Flags(d)
  BY <1>1, DynamicAllowed DEF Flags
<1>4. default.file # <<>> /\ Held(default) = Stored(default.file, secrets)
  BY <1>1, DefaultContents DEF Sourced
<1> HIDE DEF d, default
<1>5. \A g \in Host, j \in Use : config.hosts[g][j] = Part(g, j, d, secrets, default)
  BY <1>1, <1>2 DEF HostsInv, Pending
<1>f. ASSUME NEW g \in Host, NEW j \in Use, Part(g, j, d, secrets, default).file # <<>>
      PROVE  LET q == Part(g, j, d, secrets, default) IN Held(q) = Stored(q.file, secrets)
  <2>1. DOMAIN secrets = Secret /\ Held(default) = Stored(default.file, secrets)
    BY <1>1, <1>4
  <2> QED
    BY SMTT(90), <1>f, <1>3, <2>1, FreshContents
<1>6. RunningHost(h)[k].file = p.file
  <2>1. RunningHost(h)[k].file = config.hosts[h][k].file
    BY <1>1, <1>2 DEF Consistent, Runs, RunningHost, Use
  <2> QED
    BY <1>5, <2>1
<1>7. Loaded(RunningHost(h)[k], ContentOf(p))
  <2> HIDE DEF p
  <2>1. CASE p.file = <<>>
    BY <1>6, <2>1 DEF Loaded, InMemory, ContentOf
  <2>2. CASE p.file # <<>> /\ p.file \notin stray
    <3>1. p \in Users(config)
      BY <1>2, <1>5, <2>2, UserCases DEF p
    <3>2. PICK v \in Users(config) : v.file = p.file /\ Held(v) = running.mem[p.file]
      BY <1>1, <2>2, <3>1 DEF Backed
    <3>3. ASSUME NEW u \in Users(config) PROVE Held(u) = Stored(u.file, secrets)
      <4>1. CASE u = config.default
        BY <1>2, <1>4, <4>1
      <4>2. ASSUME NEW g \in DOMAIN config.hosts, NEW j \in Use, u = config.hosts[g][j]
            PROVE  Held(u) = Stored(u.file, secrets)
        <5>1. g \in Host /\ u = Part(g, j, d, secrets, default) /\ u.file # <<>>
          BY <1>2, <1>5, <4>2, UserCases
        <5>2. g \in Host /\ Part(g, j, d, secrets, default).file # <<>>
          BY <5>1
        <5>3. LET q == Part(g, j, d, secrets, default) IN Held(q) = Stored(q.file, secrets)
          BY <1>f, <5>2
        <5> QED
          BY <5>1, <5>3
      <4> QED
        BY SMTT(90), <4>1, <4>2, UserCases
    <3>4. Held(p) = running.mem[p.file]
      BY <3>1, <3>2, <3>3
    <3> QED
      BY <1>6, <2>2, <3>4 DEF Loaded, InMemory, ContentOf
  <2>3. CASE p.file \in stray
    BY <1>6, <2>3 DEF Loaded
  <2> QED
    BY <2>1, <2>2, <2>3
<1> QED
  BY <1>6, <1>7 DEF d, default

\* HAProxy presents and verifies with what the secrets have now, whatever mix of
\* commands and reloads brought it there (ServersPresented and ClientsVerified, for any
\* hosts, secrets, contents and ConfigMaps).
THEOREM CertsLoadedCorrect == Spec => []CertsLoaded
<1>1. SyncInv /\ CertInv => CertsLoaded
  <2> SUFFICES ASSUME SyncInv, CertInv, Settled, NEW h \in Host
               PROVE  /\ Loaded(RunningHost(h).tls, PromisedCrt(h))
                      /\ Loaded(RunningHost(h).ca, PromisedCA(h))
                      /\ Loaded(RunningHost(h).crl, PromisedCRL(h))
    BY DEF CertsLoaded, ServersPresented, ClientsVerified
  <2> DEFINE d == buildGlobalDynamic(conf, StaticCrossNamespaceSecrets)
             default == readDefaultCertificate(secrets).crt
  <2>1. DOMAIN secrets = Secret
    BY DEF CertInv
  <2>2. default.file # <<>> /\ Held(default) = DefaultPem
    BY <2>1, DefaultContents, DefaultPromised DEF Sourced
  <2>3. /\ Loaded(RunningHost(h).tls, ContentOf(Part(h, "tls", d, secrets, default)))
        /\ Loaded(RunningHost(h).ca, ContentOf(Part(h, "ca", d, secrets, default)))
        /\ Loaded(RunningHost(h).crl, ContentOf(Part(h, "crl", d, secrets, default)))
    BY SettledParts DEF Use
  <2> HIDE DEF default
  <2>4. ContentOf(Part(h, "tls", d, secrets, default)) = PromisedCrt(h)
    BY <2>1, <2>2, TLSPromised
  <2>5. /\ ContentOf(Part(h, "ca", d, secrets, default)) = PromisedCA(h)
        /\ ContentOf(Part(h, "crl", d, secrets, default)) = PromisedCRL(h)
    BY <2>1, CAPromised
  <2> QED
    BY <2>3, <2>4, <2>5
<1> QED
  BY <1>1, CertInvariant, PTL

=============================================================================
