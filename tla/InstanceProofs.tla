--------------------------- MODULE InstanceProofs ---------------------------
(***************************************************************************)
(* Safety of the life of haproxy for any set of command-line options, any  *)
(* number of changes, failures and crashes: a configuration that is not    *)
(* loaded is reported as a failure, and the sessions of the running        *)
(* instance are not shut down.                                             *)
(***************************************************************************)
EXTENDS Instance, TLAPS, SequenceTheorems

\* A leaf is for Zenon unless it names another prover.
USE ZenonT(90)

Phases == {"track", "reload", "master", "send", "worker"}

\* A reload is running, or it is still to come.
Due == pending \/ reloader # "idle" \/ pc \in Phases

\* The files have every change, but for the one being written and for those
\* that could not be.
FilesInv ==
    IF pc \in {"commands", "write"}
    THEN n > 0 /\ (files.has = n - 1 \/ "lost" \in excused)
    ELSE files.has = n \/ "lost" \in excused

\* The embedded master was never started by a reload that then failed.
First == mode.kind = "master" /\ ~up /\ "unstarted" \notin excused

\* The master socket answers while there is a master, and there is none before
\* the first reload of an embedded one.
MasterInv ==
    /\ cli = "reloading" => pc = "worker"
    /\ mode.kind = "daemon" => cli = "down" /\ \A s \in Supervisors : sup[s] = "off"
    /\ mode.kind # "daemon" => (live <=> cli # "down")
    /\ pc \in {"master", "send", "worker"} => mode.kind # "daemon"
    /\ pc = "master" => ~up
    /\ pc = "send" => up \/ mode.kind = "external"
    /\ First /\ pc \notin {"master", "worker"}
          => ~live /\ \A s \in Supervisors : sup[s] = "off"

\* The current process read the files that are there, and was not tracked yet.
Fresh ==
    /\ procs[Current] = 1..files.has
    /\ \A i \in DOMAIN socks : socks[i].proc # Current

\* What waitWorker reads of the master is about the reload it waits for.
WorkerInv ==
    /\ First /\ pc = "master" /\ live => Fresh
    /\ "unstarted" \notin excused /\ pc = "worker" /\ cli = "up" /\ live /\ ~rejected => Fresh

\* If nothing is due, reported or excused, the current process has the changes
\* that the update in progress relies on.
Loaded ==
    ~failed /\ excused = {} /\ live /\ n > 0 /\ ~Due =>
        /\ pc = "idle" => procs[Current] = 1..n
        /\ pc = "commands" /\ n > 1 => procs[Current] = 1..(n - 1)
        /\ pc = "write" /\ updated => procs[Current] = 1..n

\* The only open connection to the current process is the one that the reload
\* in progress made, and it is the last of oldInstances.
TrackedInv ==
    "unstarted" \notin excused /\ live =>
        \A i \in DOMAIN socks :
            socks[i].conn /\ socks[i].proc = Current =>
                /\ pc \in Phases \ {"track"}
                /\ mode.track /\ i = Len(socks) /\ i \in old

\* One supervisor is one goroutine, which closes its channel once.
Closings == LET Closed(s) == IF sup[s] = "stopped" THEN 1 ELSE 0 IN Closed(1) + Closed(2)

IInv ==
    /\ TypeOK /\ closed = Closings
    /\ FilesInv /\ MasterInv /\ WorkerInv /\ Loaded /\ TrackedInv

-----------------------------------------------------------------------------
\* A sequence over a set is one over any larger set.
LEMMA SeqMono ==
    ASSUME NEW S, NEW T, S \subseteq T, NEW s \in Seq(S)
    PROVE  s \in Seq(T)
  BY SMTT(90)

\* So the sockets keep their type when there is one more process.
LEMMA SocketMono ==
    ASSUME NEW D, NEW E, D \subseteq E,
           NEW s \in Seq([proc : D, conn : BOOLEAN, fired : BOOLEAN])
    PROVE  s \in Seq([proc : E, conn : BOOLEAN, fired : BOOLEAN])
<1> DEFINE S == [proc : D, conn : BOOLEAN, fired : BOOLEAN]
           T == [proc : E, conn : BOOLEAN, fired : BOOLEAN]
<1>1. S \subseteq T
  OBVIOUS
<1>2. s \in Seq(S)
  OBVIOUS
<1> HIDE DEF S, T
<1>3. s \in Seq(T)
  BY <1>1, <1>2, SeqMono
<1> QED
  BY <1>3 DEF T

\* A socket of the list is to one of the processes.
LEMMA SocketElement ==
    ASSUME NEW D, NEW s \in Seq([proc : D, conn : BOOLEAN, fired : BOOLEAN]), NEW i \in DOMAIN s
    PROVE  s[i] \in [proc : D, conn : BOOLEAN, fired : BOOLEAN]
<1> DEFINE S == [proc : D, conn : BOOLEAN, fired : BOOLEAN]
<1>1. s \in Seq(S)
  OBVIOUS
<1> HIDE DEF S
<1>2. s[i] \in S
  BY SMTT(90), <1>1
<1> QED
  BY <1>2 DEF S

\* A process that starts is the current one, and has what is in the files.
LEMMA NewProcess ==
    ASSUME TypeOK, procs' = Append(procs, 1..files.has), n' = n
    PROVE  /\ procs' \in Seq(SUBSET (1..n')) /\ Current' = Current + 1
           /\ procs'[Current'] = 1..files.has
           /\ DOMAIN procs \subseteq DOMAIN procs'
           /\ Current' \notin DOMAIN procs
           /\ socks \in Seq([proc : DOMAIN procs', conn : BOOLEAN, fired : BOOLEAN])
           /\ \A i \in DOMAIN socks : socks[i].proc \in DOMAIN procs /\ socks[i].proc # Current'
<1>1. procs \in Seq(SUBSET (1..n)) /\ 1..files.has \in SUBSET (1..n)
  BY SMTT(90), InstanceAssumption DEF TypeOK, UpdateTypes, ProcessTypes
<1>2. /\ procs' \in Seq(SUBSET (1..n)) /\ Len(procs') = Len(procs) + 1
      /\ procs'[Len(procs) + 1] = 1..files.has
      /\ DOMAIN procs = 1..Len(procs) /\ DOMAIN procs' = 1..(Len(procs) + 1)
      /\ Len(procs) \in Nat
  BY SMTT(90), <1>1
<1>3. DOMAIN procs \subseteq DOMAIN procs'
  BY SMTT(90), <1>2
<1>4. socks \in Seq([proc : DOMAIN procs', conn : BOOLEAN, fired : BOOLEAN])
  BY <1>3, SocketMono DEF TypeOK, ProcessTypes
<1>5. ASSUME NEW i \in DOMAIN socks PROVE socks[i].proc \in DOMAIN procs
  <2>1. socks[i] \in [proc : DOMAIN procs, conn : BOOLEAN, fired : BOOLEAN]
    BY SocketElement DEF TypeOK, ProcessTypes
  <2> QED
    BY <2>1
<1> QED
  BY SMTT(90), <1>2, <1>3, <1>4, <1>5 DEF Current

\* Closing a socket, or marking it as fired, is all that changes of it.
LEMMA SocketUpdate ==
    ASSUME NEW D, NEW s \in Seq([proc : D, conn : BOOLEAN, fired : BOOLEAN]), NEW i,
           NEW t, t \in {[s EXCEPT ![i].conn = FALSE], [s EXCEPT ![i].fired = TRUE]}
    PROVE  /\ t \in Seq([proc : D, conn : BOOLEAN, fired : BOOLEAN])
           /\ Len(t) = Len(s) /\ DOMAIN t = DOMAIN s
           /\ \A j \in DOMAIN s : t[j].proc = s[j].proc /\ (t[j].conn => s[j].conn)
<1> DEFINE S == [proc : D, conn : BOOLEAN, fired : BOOLEAN]
<1>1. DOMAIN t = DOMAIN s /\ DOMAIN s = 1..Len(s) /\ Len(s) \in Nat
  BY SMTT(90)
<1>2. ASSUME NEW j \in DOMAIN s
      PROVE  t[j] \in S /\ t[j].proc = s[j].proc /\ (t[j].conn => s[j].conn)
  <2>1. s[j] \in S
    BY SocketElement
  <2>2. t[j] \in {s[j], [s[j] EXCEPT !.conn = FALSE], [s[j] EXCEPT !.fired = TRUE]}
    OBVIOUS
  <2> QED
    BY <2>1, <2>2
<1>3. t \in Seq(S)
  <2>1. t = [j \in 1..Len(s) |-> t[j]]
    BY <1>1
  <2> HIDE DEF S
  <2> QED
    BY SMTT(90), <1>1, <1>2, <2>1
<1>4. Len(t) = Len(s)
  BY SMTT(90), <1>1, <1>3
<1> QED
  BY <1>1, <1>2, <1>3, <1>4

\* A failed reload makes no socket, and opens none.
LEMMA Released ==
    ASSUME TypeOK, ReloadFailed, procs' = procs
    PROVE  /\ socks' \in Seq([proc : DOMAIN procs', conn : BOOLEAN, fired : BOOLEAN])
           /\ old' \subseteq DOMAIN socks'
           /\ Len(socks') = Len(socks) /\ DOMAIN socks' = DOMAIN socks
           /\ \A j \in DOMAIN socks :
                 socks'[j].proc = socks[j].proc /\ (socks'[j].conn => socks[j].conn)
<1>1. socks \in Seq([proc : DOMAIN procs, conn : BOOLEAN, fired : BOOLEAN])
      /\ old \subseteq DOMAIN socks
  BY DEF TypeOK, ProcessTypes
<1>2. CASE mode.track /\ old # {}
  <2>1. socks' = [socks EXCEPT ![LastInstance].conn = FALSE] /\ old' \subseteq old
    BY <1>2 DEF ReloadFailed
  <2> QED
    BY <1>1, <2>1, SocketUpdate
<1>3. CASE ~(mode.track /\ old # {})
  BY <1>1, <1>3 DEF ReloadFailed
<1> QED
  BY <1>2, <1>3

\* The connection that a failed reload made is closed: none is left to the
\* process that stays.
LEMMA ReleasedTracked ==
    ASSUME IInv, ReloadFailed, procs' = procs, live' = live
    PROVE  TrackedInv'
<1> SUFFICES ASSUME "unstarted" \notin excused', live',
                    NEW i \in DOMAIN socks', socks'[i].conn, socks'[i].proc = Current'
             PROVE  FALSE
  BY DEF TrackedInv
<1>1. "unstarted" \notin excused
  BY DEF ReloadFailed
<1>2. i \in DOMAIN socks /\ socks[i].conn /\ socks[i].proc = Current
  BY Released DEF IInv, Current
<1>3. mode.track /\ i = Len(socks) /\ i \in old
  BY <1>1, <1>2 DEF IInv, TrackedInv
<1>4. LastInstance = i
  <2>1. \A j \in old : j \in Nat /\ j <= i
    BY SMTT(90), <1>3 DEF IInv, TypeOK, ProcessTypes
  <2>2. LastInstance \in old /\ i <= LastInstance
    BY <1>3, <2>1 DEF LastInstance
  <2> QED
    BY SMTT(90), <1>3, <2>1, <2>2
<1>5. socks' = [socks EXCEPT ![i].conn = FALSE]
  BY <1>3, <1>4 DEF ReloadFailed
<1>6. socks[i] \in [proc : DOMAIN procs, conn : BOOLEAN, fired : BOOLEAN]
  BY <1>2, SocketElement DEF IInv, TypeOK, ProcessTypes
<1> QED
  BY <1>2, <1>5, <1>6

\* The steps that end a reload.
ReloadEnds ==
    \/ reloadEmbeddedDaemon \/ reloadEmbeddedDaemonFails \/ waitMasterStops
    \/ waitFails \/ (reloadWorker /\ cli # "up") \/ waitWorker

\* The end of a reload keeps the types of the update and of the reload.
LEMMA ReloadEndsTypes ==
    ASSUME TypeOK, ReloadEnds
    PROVE  UpdateTypes'
<1>1. Reloaded \/ ReloadFailed
  BY DEF ReloadEnds, reloadEmbeddedDaemon, reloadEmbeddedDaemonFails, waitMasterStops,
         waitFails, reloadWorker, waitWorker
<1>2. UNCHANGED <<mode, n, valid, files, change, updated, pending, stop, exited>>
  BY DEF ReloadEnds, reloadEmbeddedDaemon, reloadEmbeddedDaemonFails, waitMasterStops,
         waitFails, reloadWorker, waitWorker, model, ending
<1>3. pc' = "idle" /\ reloader' = "idle"
  BY <1>1 DEF Reloaded, ReloadFailed
<1>4. up' \in BOOLEAN /\ failed' \in BOOLEAN
  BY <1>1 DEF Reloaded, ReloadFailed, TypeOK, UpdateTypes
<1> QED
  BY <1>2, <1>3, <1>4 DEF TypeOK, UpdateTypes

\* The steps of a reload up to its end.
ReloadGoesOn ==
    \/ Track \/ TrackFails \/ reloadMaster \/ waitMaster \/ (reloadWorker /\ cli = "up")

\* A reload that goes on keeps the types of the update and of the reload.
LEMMA ReloadGoesOnTypes ==
    ASSUME TypeOK, ReloadGoesOn
    PROVE  UpdateTypes'
<1>1. UNCHANGED <<mode, n, valid, files, change, updated, pending, reloader, up, failed, stop, exited>>
  BY DEF ReloadGoesOn, Track, TrackFails, reloadMaster, waitMaster, reloadWorker,
         model, reloads, health, ending
<1>2. pc' \in {"reload", "send", "master", "worker"}
  BY DEF ReloadGoesOn, Track, TrackFails, reloadMaster, waitMaster, reloadWorker
<1>3. pc' \in {"idle", "commands", "write", "track", "reload", "master", "send", "worker"}
  BY <1>2
<1>4. /\ mode' \in Modes /\ n' \in 0..MaxChanges /\ valid' \in BOOLEAN
      /\ files' \in [has : 0..n', valid : BOOLEAN]
      /\ change' \in {"none", "endpoints", "other"} /\ updated' \in BOOLEAN
  BY <1>1 DEF TypeOK, UpdateTypes
<1>5. /\ pending' \in BOOLEAN /\ reloader' \in {"idle", "waiting", "reloading"}
      /\ up' \in BOOLEAN /\ failed' \in BOOLEAN
      /\ stop' \in BOOLEAN /\ exited' \in BOOLEAN
  BY <1>1 DEF TypeOK, UpdateTypes
<1> QED
  BY <1>3, <1>4, <1>5 DEF UpdateTypes

\* Every step keeps the types of the update and of the reload.
LEMMA UpdateTypesStep ==
    ASSUME TypeOK, [Next]_vars
    PROVE  UpdateTypes'
<1>1. CASE ReloadGoesOn
  BY <1>1, ReloadGoesOnTypes
<1>2. CASE ReloadEnds
  BY <1>2, ReloadEndsTypes
<1> USE InstanceAssumption DEF model, update, reloads, health, ending, TypeOK, UpdateTypes
<1>3. ASSUME NEW kind \in {"endpoints", "other"}, NEW accepted \in BOOLEAN, HAProxyUpdate(kind, accepted) PROVE UpdateTypes'
  BY SMTT(90), <1>3 DEF HAProxyUpdate
<1>4. CASE NeedReload
  BY <1>4 DEF NeedReload
<1>5. CASE SendPromptFails
  BY <1>5 DEF SendPromptFails, Failing, Connection
<1>6. CASE SendFails
  BY <1>6 DEF SendFails, Failing, Connection
<1>7. CASE Send
  BY <1>7 DEF Send, Connection
<1>8. CASE WriteFails
  BY <1>8 DEF WriteFails, Failing
<1>9. CASE Write
  <2>1. files' \in [has : 0..n', valid : BOOLEAN]
    BY SMTT(90), <1>9 DEF Write
  <2>2. failed' \in BOOLEAN
    BY <1>9 DEF Write
  <2>3. pending' \in BOOLEAN
    BY <1>9 DEF Write
  <2> QED
    BY <1>9, <2>1, <2>2, <2>3 DEF Write
<1>10. CASE TakeReload
  BY <1>10 DEF TakeReload
<1>11. CASE reloadHAProxy
  BY <1>11 DEF reloadHAProxy
<1>12. CASE MasterReloads
  BY SMTT(90), <1>12 DEF MasterReloads, NewWorker
<1>13. ASSUME NEW s \in Supervisors, startHAProxySync(s) PROVE UpdateTypes'
  BY SMTT(90), <1>13 DEF startHAProxySync, NewWorker, Raced
<1>14. ASSUME NEW s \in Supervisors, StopMaster(s) PROVE UpdateTypes'
  BY SMTT(90), <1>14 DEF StopMaster, Ends
<1>15. CASE ExternalStarts
  BY SMTT(90), <1>15 DEF ExternalStarts, NewWorker, Raced
<1>16. CASE MasterDies
  BY SMTT(90), <1>16 DEF MasterDies, Ends
<1>17. CASE Stop
  BY SMTT(90), <1>17 DEF Stop
<1>18. CASE Shutdown
  BY SMTT(90), <1>18 DEF Shutdown, Ends
<1>19. ASSUME NEW p \in 1..Current, OldEnds(p) PROVE UpdateTypes'
  BY SMTT(90), <1>19 DEF OldEnds
<1>20. ASSUME NEW i \in DOMAIN socks, shutdownSessionsSync(i) PROVE UpdateTypes'
  BY SMTT(90), <1>20 DEF shutdownSessionsSync
<1>21. ASSUME NEW i \in DOMAIN socks, CloseOld(i) PROVE UpdateTypes'
  BY SMTT(90), <1>21 DEF CloseOld
<1>22. CASE UNCHANGED vars
  BY SMTT(90), <1>22 DEF vars
<1> QED
  BY <1>1, <1>2, <1>3, <1>4, <1>5, <1>6, <1>7, <1>8, <1>9, <1>10, <1>11, <1>12, <1>13, <1>14, <1>15,
     <1>16, <1>17, <1>18, <1>19, <1>20, <1>21, <1>22
  DEF Next, Updating, Reloading, Processes, ReloadGoesOn, ReloadEnds

\* Every step keeps the types of the master, and the count of the closed channels.
LEMMA MasterTypesStep ==
    ASSUME TypeOK, closed = Closings, [Next]_vars
    PROVE  MasterTypes' /\ closed' = Closings'
<1> USE DEF master, TypeOK, MasterTypes, Closings, Supervisors
<1>1. ASSUME NEW kind \in {"endpoints", "other"}, NEW accepted \in BOOLEAN, HAProxyUpdate(kind, accepted) PROVE MasterTypes' /\ closed' = Closings'
  BY <1>1 DEF HAProxyUpdate
<1>2. CASE NeedReload
  BY <1>2 DEF NeedReload
<1>3. CASE SendPromptFails
  BY <1>3 DEF SendPromptFails
<1>4. CASE SendFails
  BY <1>4 DEF SendFails
<1>5. CASE Send
  BY <1>5 DEF Send
<1>6. CASE WriteFails
  BY <1>6 DEF WriteFails
<1>7. CASE Write
  BY <1>7 DEF Write
<1>8. CASE TakeReload
  BY <1>8 DEF TakeReload
<1>9. CASE reloadHAProxy
  BY <1>9 DEF reloadHAProxy
<1>10. CASE Track
  BY <1>10 DEF Track
<1>11. CASE TrackFails
  BY <1>11 DEF TrackFails
<1>12. CASE reloadEmbeddedDaemon
  BY <1>12 DEF reloadEmbeddedDaemon
<1>13. CASE reloadEmbeddedDaemonFails
  BY <1>13 DEF reloadEmbeddedDaemonFails
<1>14. CASE reloadMaster
  <2>1. sup' = sup \/ \E s \in Unused : sup' = [sup EXCEPT ![s] = "starting"]
    <3>1. Unused # {} => \E s \in Unused : \A t \in Unused : s <= t
      BY SMTT(90) DEF Unused
    <3> QED
      BY <1>14, <3>1 DEF reloadMaster
  <2> QED
    BY SMTT(90), <1>14, <2>1 DEF reloadMaster, Unused
<1>15. CASE waitMaster
  BY <1>15 DEF waitMaster
<1>16. CASE waitMasterStops
  BY <1>16 DEF waitMasterStops
<1>17. CASE waitFails
  BY <1>17 DEF waitFails
<1>18. CASE reloadWorker
  BY <1>18 DEF reloadWorker
<1>19. CASE waitWorker
  BY <1>19 DEF waitWorker
<1>20. CASE MasterReloads
  BY <1>20 DEF MasterReloads, NewWorker
<1>21. ASSUME NEW s \in Supervisors, startHAProxySync(s) PROVE MasterTypes' /\ closed' = Closings'
  <2>1. s \in {1, 2} /\ sup' = [sup EXCEPT ![s] = "running"] /\ sup[s] = "starting"
    BY SMTT(90), <1>21 DEF startHAProxySync
  <2>2. closed' = Closings'
    BY SMTT(90), <1>21, <2>1 DEF startHAProxySync
  <2> QED
    BY <1>21, <2>1, <2>2 DEF startHAProxySync, NewWorker
<1>22. ASSUME NEW s \in Supervisors, StopMaster(s) PROVE MasterTypes' /\ closed' = Closings'
  BY SMTT(90), <1>22 DEF StopMaster, Ends
<1>23. CASE ExternalStarts
  BY <1>23 DEF ExternalStarts, NewWorker
<1>24. CASE MasterDies
  BY SMTT(90), <1>24 DEF MasterDies, Ends
<1>25. CASE Stop
  BY <1>25 DEF Stop
<1>26. CASE Shutdown
  BY <1>26 DEF Shutdown, Ends
<1>27. ASSUME NEW p \in 1..Current, OldEnds(p) PROVE MasterTypes' /\ closed' = Closings'
  BY <1>27 DEF OldEnds
<1>28. ASSUME NEW i \in DOMAIN socks, shutdownSessionsSync(i) PROVE MasterTypes' /\ closed' = Closings'
  BY <1>28 DEF shutdownSessionsSync
<1>29. ASSUME NEW i \in DOMAIN socks, CloseOld(i) PROVE MasterTypes' /\ closed' = Closings'
  BY <1>29 DEF CloseOld
<1>30. CASE UNCHANGED vars
  BY <1>30 DEF vars
<1> QED
  BY <1>1, <1>2, <1>3, <1>4, <1>5, <1>6, <1>7, <1>8, <1>9, <1>10, <1>11, <1>12, <1>13, <1>14, <1>15,
     <1>16, <1>17, <1>18, <1>19, <1>20, <1>21, <1>22, <1>23, <1>24, <1>25, <1>26, <1>27, <1>28, <1>29, <1>30
  DEF Next, Updating, Reloading, Processes

\* Every step keeps the types of the processes and of the connections.
LEMMA ProcessTypesStep ==
    ASSUME TypeOK, [Next]_vars
    PROVE  ProcessTypes'
<1> USE DEF model, haproxy, conns, TypeOK, ProcessTypes, Current
<1>0. n \in Nat
  BY SMTT(90), InstanceAssumption DEF UpdateTypes
<1>r. live => Current \in DOMAIN procs
  BY SMTT(90)
<1>1. ASSUME NEW kind \in {"endpoints", "other"}, NEW accepted \in BOOLEAN, HAProxyUpdate(kind, accepted) PROVE ProcessTypes'
  <2>1. SUBSET (1..n) \subseteq SUBSET (1..n')
    BY SMTT(90), <1>0, <1>1 DEF HAProxyUpdate
  <2>2. procs' \in Seq(SUBSET (1..n'))
    BY <1>1, <2>1, SeqMono DEF HAProxyUpdate
  <2> QED
    BY <1>1, <2>2 DEF HAProxyUpdate
<1>2. CASE NeedReload
  BY <1>2 DEF NeedReload
<1>3. CASE SendPromptFails
  BY SMTT(90), <1>3 DEF SendPromptFails, Connection
<1>4. CASE SendFails
  BY SMTT(90), <1>4 DEF SendFails, Connection
<1>5. CASE Send
  <2>1. Connection \in DOMAIN procs
    BY SMTT(90), <1>5, <1>r DEF Send, Connection
  <2>2. procs[Connection] \cup {n} \in SUBSET (1..n)
    BY SMTT(90), <1>5, <1>0, <2>1 DEF Send
  <2>3. procs' \in Seq(SUBSET (1..n)) /\ Len(procs') = Len(procs) /\ DOMAIN procs' = DOMAIN procs
    BY SMTT(90), <1>5, <2>1, <2>2 DEF Send
  <2> QED
    BY SMTT(90), <1>5, <2>3 DEF Send
<1>6. CASE WriteFails
  BY <1>6 DEF WriteFails
<1>7. CASE Write
  BY <1>7 DEF Write
<1>8. CASE TakeReload
  BY <1>8 DEF TakeReload
<1>9. CASE reloadHAProxy
  BY <1>9 DEF reloadHAProxy
<1>10. CASE Track
  <2>1. CASE mode.track /\ live
    <3>1. [proc |-> Current, conn |-> TRUE, fired |-> FALSE]
            \in [proc : DOMAIN procs, conn : BOOLEAN, fired : BOOLEAN]
      BY SMTT(90), <2>1
    <3>2. /\ socks' \in Seq([proc : DOMAIN procs, conn : BOOLEAN, fired : BOOLEAN])
          /\ DOMAIN socks' = DOMAIN socks \cup {Len(socks')}
      <4> DEFINE S == [proc : DOMAIN procs, conn : BOOLEAN, fired : BOOLEAN]
                 e == [proc |-> Current, conn |-> TRUE, fired |-> FALSE]
      <4>1. socks \in Seq(S) /\ e \in S /\ socks' = Append(socks, e)
        BY <1>10, <2>1, <3>1 DEF Track
      <4> HIDE DEF S, e
      <4>2. socks' \in Seq(S) /\ DOMAIN socks' = DOMAIN socks \cup {Len(socks')}
        BY SMTT(90), <4>1
      <4> QED
        BY <4>2 DEF S
    <3> QED
      BY <1>10, <2>1, <3>2 DEF Track, shrinkConns
  <2>2. CASE ~(mode.track /\ live)
    BY <1>10, <2>2 DEF Track, shrinkConns
  <2> QED
    BY <2>1, <2>2
<1>11. CASE TrackFails
  BY <1>11 DEF TrackFails, shrinkConns
<1>12. CASE reloadEmbeddedDaemon
  <2>1. CASE files.valid
    BY SMTT(90), <1>12, <2>1, NewProcess DEF reloadEmbeddedDaemon, Reloaded
  <2>2. CASE ~files.valid
    BY <1>12, <2>2, Released DEF reloadEmbeddedDaemon
  <2> QED
    BY <2>1, <2>2
<1>13. CASE reloadEmbeddedDaemonFails
  BY <1>13, Released DEF reloadEmbeddedDaemonFails
<1>14. CASE reloadMaster
  BY <1>14 DEF reloadMaster
<1>15. CASE waitMaster
  BY <1>15 DEF waitMaster
<1>16. CASE waitMasterStops
  BY <1>16, Released DEF waitMasterStops
<1>17. CASE waitFails
  BY <1>17, Released DEF waitFails
<1>18. CASE reloadWorker
  BY <1>18, Released DEF reloadWorker
<1>19. CASE waitWorker
  BY <1>19, Released DEF waitWorker, Reloaded
<1>20. CASE MasterReloads
  <2>1. CASE files.valid
    BY SMTT(90), <1>20, <2>1, NewProcess DEF MasterReloads, NewWorker
  <2>2. CASE ~files.valid
    BY <1>20, <2>2 DEF MasterReloads
  <2> QED
    BY <2>1, <2>2
<1>21. ASSUME NEW s \in Supervisors, startHAProxySync(s) PROVE ProcessTypes'
  BY SMTT(90), <1>21, NewProcess DEF startHAProxySync, NewWorker
<1>22. ASSUME NEW s \in Supervisors, StopMaster(s) PROVE ProcessTypes'
  <2>1. CASE sup[s] = "running" /\ live
    BY <1>22, <1>r, <2>1 DEF StopMaster, Ends
  <2>2. CASE ~(sup[s] = "running" /\ live)
    BY <1>22, <2>2 DEF StopMaster
  <2> QED
    BY <2>1, <2>2
<1>23. CASE ExternalStarts
  BY SMTT(90), <1>23, NewProcess DEF ExternalStarts, NewWorker
<1>24. CASE MasterDies
  BY <1>24, <1>r DEF MasterDies, Ends
<1>25. CASE Stop
  BY <1>25 DEF Stop
<1>26. CASE Shutdown
  <2>1. CASE up /\ mode.kind = "daemon" /\ live
    BY <1>26, <1>r, <2>1 DEF Shutdown, Ends
  <2>2. CASE ~(up /\ mode.kind = "daemon" /\ live)
    BY <1>26, <2>2 DEF Shutdown
  <2> QED
    BY <2>1, <2>2
<1>27. ASSUME NEW p \in 1..Current, OldEnds(p) PROVE ProcessTypes'
  BY SMTT(90), <1>27 DEF OldEnds
<1>28. ASSUME NEW i \in DOMAIN socks, shutdownSessionsSync(i) PROVE ProcessTypes'
  <2>1. socks[i].proc \in DOMAIN procs
    <3>1. socks[i] \in [proc : DOMAIN procs, conn : BOOLEAN, fired : BOOLEAN]
      BY SocketElement
    <3> QED
      BY <3>1
  <2> QED
    BY <1>28, <2>1, SocketUpdate DEF shutdownSessionsSync
<1>29. ASSUME NEW i \in DOMAIN socks, CloseOld(i) PROVE ProcessTypes'
  BY <1>29, SocketUpdate DEF CloseOld
<1>30. CASE UNCHANGED vars
  BY <1>30 DEF vars
<1> QED
  BY <1>1, <1>2, <1>3, <1>4, <1>5, <1>6, <1>7, <1>8, <1>9, <1>10, <1>11, <1>12, <1>13, <1>14, <1>15,
     <1>16, <1>17, <1>18, <1>19, <1>20, <1>21, <1>22, <1>23, <1>24, <1>25, <1>26, <1>27, <1>28, <1>29, <1>30
  DEF Next, Updating, Reloading, Processes

\* Every step keeps the files as far as they were written.
LEMMA FilesStep ==
    ASSUME IInv, [Next]_vars
    PROVE  FilesInv'
<1> USE DEF model, update, IInv, TypeOK, UpdateTypes, FilesInv
<1>0. n \in Nat
  BY SMTT(90), InstanceAssumption
<1>1. ASSUME NEW kind \in {"endpoints", "other"}, NEW accepted \in BOOLEAN, HAProxyUpdate(kind, accepted) PROVE FilesInv'
  BY SMTT(90), <1>1, <1>0 DEF HAProxyUpdate
<1>2. CASE NeedReload
  BY <1>2 DEF NeedReload
<1>3. CASE SendPromptFails
  BY <1>3 DEF SendPromptFails
<1>4. CASE SendFails
  BY <1>4 DEF SendFails
<1>5. CASE Send
  BY <1>5 DEF Send
<1>6. CASE WriteFails
  BY <1>6 DEF WriteFails
<1>7. CASE Write
  BY <1>7 DEF Write
<1>8. CASE TakeReload
  BY <1>8 DEF TakeReload
<1>9. CASE reloadHAProxy
  BY <1>9 DEF reloadHAProxy
<1>10. CASE Track
  BY <1>10 DEF Track
<1>11. CASE TrackFails
  BY <1>11 DEF TrackFails
<1>12. CASE reloadEmbeddedDaemon
  BY <1>12 DEF reloadEmbeddedDaemon, Reloaded, ReloadFailed
<1>13. CASE reloadEmbeddedDaemonFails
  BY <1>13 DEF reloadEmbeddedDaemonFails, ReloadFailed
<1>14. CASE reloadMaster
  BY <1>14 DEF reloadMaster
<1>15. CASE waitMaster
  BY <1>15 DEF waitMaster
<1>16. CASE waitMasterStops
  BY <1>16 DEF waitMasterStops, ReloadFailed
<1>17. CASE waitFails
  BY <1>17 DEF waitFails, ReloadFailed
<1>18. CASE reloadWorker
  BY <1>18 DEF reloadWorker, ReloadFailed
<1>19. CASE waitWorker
  BY <1>19 DEF waitWorker, Reloaded, ReloadFailed
<1>20. CASE MasterReloads
  BY <1>20 DEF MasterReloads
<1>21. ASSUME NEW s \in Supervisors, startHAProxySync(s) PROVE FilesInv'
  BY <1>21 DEF startHAProxySync, Raced
<1>22. ASSUME NEW s \in Supervisors, StopMaster(s) PROVE FilesInv'
  BY <1>22 DEF StopMaster
<1>23. CASE ExternalStarts
  BY <1>23 DEF ExternalStarts, Raced
<1>24. CASE MasterDies
  BY <1>24 DEF MasterDies
<1>25. CASE Stop
  BY <1>25 DEF Stop
<1>26. CASE Shutdown
  BY <1>26 DEF Shutdown
<1>27. ASSUME NEW p \in 1..Current, OldEnds(p) PROVE FilesInv'
  BY <1>27 DEF OldEnds
<1>28. ASSUME NEW i \in DOMAIN socks, shutdownSessionsSync(i) PROVE FilesInv'
  BY <1>28 DEF shutdownSessionsSync
<1>29. ASSUME NEW i \in DOMAIN socks, CloseOld(i) PROVE FilesInv'
  BY <1>29 DEF CloseOld
<1>30. CASE UNCHANGED vars
  BY <1>30 DEF vars
<1> QED
  BY <1>1, <1>2, <1>3, <1>4, <1>5, <1>6, <1>7, <1>8, <1>9, <1>10, <1>11, <1>12, <1>13, <1>14, <1>15,
     <1>16, <1>17, <1>18, <1>19, <1>20, <1>21, <1>22, <1>23, <1>24, <1>25, <1>26, <1>27, <1>28, <1>29, <1>30
  DEF Next, Updating, Reloading, Processes

\* Every step keeps what the master socket says of the master.
LEMMA MasterStep ==
    ASSUME IInv, [Next]_vars
    PROVE  MasterInv'
<1> USE DEF model, update, health, master, haproxy, IInv, TypeOK, UpdateTypes, MasterTypes, MasterInv, First
<1>1. ASSUME NEW kind \in {"endpoints", "other"}, NEW accepted \in BOOLEAN, HAProxyUpdate(kind, accepted) PROVE MasterInv'
  BY <1>1 DEF HAProxyUpdate
<1>2. CASE NeedReload
  BY <1>2 DEF NeedReload
<1>3. CASE SendPromptFails
  BY <1>3 DEF SendPromptFails
<1>4. CASE SendFails
  BY <1>4 DEF SendFails
<1>5. CASE Send
  BY <1>5 DEF Send
<1>6. CASE WriteFails
  BY <1>6 DEF WriteFails
<1>7. CASE Write
  BY <1>7 DEF Write
<1>8. CASE TakeReload
  BY <1>8 DEF TakeReload
<1>9. CASE reloadHAProxy
  BY <1>9 DEF reloadHAProxy
<1>10. CASE Track
  BY <1>10 DEF Track
<1>11. CASE TrackFails
  BY <1>11 DEF TrackFails
<1>12. CASE reloadEmbeddedDaemon
  BY <1>12 DEF reloadEmbeddedDaemon, Reloaded, ReloadFailed
<1>13. CASE reloadEmbeddedDaemonFails
  BY <1>13 DEF reloadEmbeddedDaemonFails, ReloadFailed
<1>14. CASE reloadMaster
  BY <1>14 DEF reloadMaster
<1>15. CASE waitMaster
  BY <1>15 DEF waitMaster
<1>16. CASE waitMasterStops
  BY <1>16 DEF waitMasterStops, ReloadFailed
<1>17. CASE waitFails
  BY <1>17 DEF waitFails, ReloadFailed
<1>18. CASE reloadWorker
  BY <1>18 DEF reloadWorker, ReloadFailed
<1>19. CASE waitWorker
  BY <1>19 DEF waitWorker, Reloaded, ReloadFailed
<1>20. CASE MasterReloads
  BY <1>20 DEF MasterReloads, NewWorker
<1>21. ASSUME NEW s \in Supervisors, startHAProxySync(s) PROVE MasterInv'
  BY <1>21 DEF startHAProxySync, NewWorker, Raced
<1>22. ASSUME NEW s \in Supervisors, StopMaster(s) PROVE MasterInv'
  BY <1>22 DEF StopMaster, Ends
<1>23. CASE ExternalStarts
  BY <1>23 DEF ExternalStarts, NewWorker, Raced
<1>24. CASE MasterDies
  BY <1>24 DEF MasterDies, Ends
<1>25. CASE Stop
  BY <1>25 DEF Stop
<1>26. CASE Shutdown
  BY <1>26 DEF Shutdown, Ends
<1>27. ASSUME NEW p \in 1..Current, OldEnds(p) PROVE MasterInv'
  BY <1>27 DEF OldEnds
<1>28. ASSUME NEW i \in DOMAIN socks, shutdownSessionsSync(i) PROVE MasterInv'
  BY <1>28 DEF shutdownSessionsSync
<1>29. ASSUME NEW i \in DOMAIN socks, CloseOld(i) PROVE MasterInv'
  BY <1>29 DEF CloseOld
<1>30. CASE UNCHANGED vars
  BY <1>30 DEF vars
<1> QED
  BY <1>1, <1>2, <1>3, <1>4, <1>5, <1>6, <1>7, <1>8, <1>9, <1>10, <1>11, <1>12, <1>13, <1>14, <1>15,
     <1>16, <1>17, <1>18, <1>19, <1>20, <1>21, <1>22, <1>23, <1>24, <1>25, <1>26, <1>27, <1>28, <1>29, <1>30
  DEF Next, Updating, Reloading, Processes

\* Every step keeps what waitWorker relies on.
LEMMA WorkerStep ==
    ASSUME IInv, [Next]_vars
    PROVE  WorkerInv'
<1> USE DEF model, update, health, master, haproxy, conns, IInv, TypeOK, MasterInv, WorkerInv, First, Fresh, Current
<1>1. ASSUME NEW kind \in {"endpoints", "other"}, NEW accepted \in BOOLEAN, HAProxyUpdate(kind, accepted) PROVE WorkerInv'
  BY <1>1 DEF HAProxyUpdate
<1>2. CASE NeedReload
  BY <1>2 DEF NeedReload
<1>3. CASE SendPromptFails
  BY <1>3 DEF SendPromptFails
<1>4. CASE SendFails
  BY <1>4 DEF SendFails
<1>5. CASE Send
  BY <1>5 DEF Send
<1>6. CASE WriteFails
  BY <1>6 DEF WriteFails
<1>7. CASE Write
  BY <1>7 DEF Write
<1>8. CASE TakeReload
  BY <1>8 DEF TakeReload
<1>9. CASE reloadHAProxy
  BY <1>9 DEF reloadHAProxy
<1>10. CASE Track
  BY <1>10 DEF Track
<1>11. CASE TrackFails
  BY <1>11 DEF TrackFails
<1>12. CASE reloadEmbeddedDaemon
  BY <1>12, NewProcess, Released DEF reloadEmbeddedDaemon, Reloaded, ReloadFailed
<1>13. CASE reloadEmbeddedDaemonFails
  BY <1>13, Released DEF reloadEmbeddedDaemonFails, ReloadFailed
<1>14. CASE reloadMaster
  BY <1>14 DEF reloadMaster
<1>15. CASE waitMaster
  <2>1. mode.kind \in {"daemon", "master", "external"}
    BY InstanceAssumption DEF UpdateTypes
  <2> QED
    BY <1>15, <2>1 DEF waitMaster
<1>16. CASE waitMasterStops
  BY <1>16, Released DEF waitMasterStops, ReloadFailed
<1>17. CASE waitFails
  BY <1>17, Released DEF waitFails, ReloadFailed
<1>18. CASE reloadWorker
  BY <1>18, Released DEF reloadWorker, ReloadFailed
<1>19. CASE waitWorker
  BY <1>19, Released DEF waitWorker, Reloaded, ReloadFailed
<1>20. CASE MasterReloads
  <2>1. CASE files.valid
    BY <1>20, <2>1, NewProcess DEF MasterReloads, NewWorker
  <2>2. CASE ~files.valid
    BY <1>20, <2>2 DEF MasterReloads
  <2> QED
    BY <2>1, <2>2
<1>21. ASSUME NEW s \in Supervisors, startHAProxySync(s) PROVE WorkerInv'
  BY <1>21, NewProcess DEF startHAProxySync, NewWorker, Raced
<1>22. ASSUME NEW s \in Supervisors, StopMaster(s) PROVE WorkerInv'
  BY <1>22 DEF StopMaster, Ends
<1>23. CASE ExternalStarts
  BY <1>23, NewProcess DEF ExternalStarts, NewWorker, Raced
<1>24. CASE MasterDies
  BY <1>24 DEF MasterDies, Ends
<1>25. CASE Stop
  BY <1>25 DEF Stop
<1>26. CASE Shutdown
  BY <1>26 DEF Shutdown, Ends
<1>27. ASSUME NEW p \in 1..Current, OldEnds(p) PROVE WorkerInv'
  BY <1>27 DEF OldEnds
<1>28. ASSUME NEW i \in DOMAIN socks, shutdownSessionsSync(i) PROVE WorkerInv'
  BY SMTT(90), <1>28, SocketUpdate DEF shutdownSessionsSync
<1>29. ASSUME NEW i \in DOMAIN socks, CloseOld(i) PROVE WorkerInv'
  BY SMTT(90), <1>29, SocketUpdate DEF CloseOld
<1>30. CASE UNCHANGED vars
  BY <1>30 DEF vars
<1> QED
  BY <1>1, <1>2, <1>3, <1>4, <1>5, <1>6, <1>7, <1>8, <1>9, <1>10, <1>11, <1>12, <1>13, <1>14, <1>15,
     <1>16, <1>17, <1>18, <1>19, <1>20, <1>21, <1>22, <1>23, <1>24, <1>25, <1>26, <1>27, <1>28, <1>29, <1>30
  DEF Next, Updating, Reloading, Processes

\* Every step keeps what the current process has.
LEMMA LoadedStep ==
    ASSUME IInv, [Next]_vars
    PROVE  Loaded'
<1> USE DEF model, update, reloads, health, haproxy, IInv, TypeOK, UpdateTypes, FilesInv, Loaded, Due, Phases, Current
<1>1. ASSUME NEW kind \in {"endpoints", "other"}, NEW accepted \in BOOLEAN, HAProxyUpdate(kind, accepted) PROVE Loaded'
  BY SMTT(90), <1>1 DEF HAProxyUpdate
<1>2. CASE NeedReload
  BY <1>2 DEF NeedReload
<1>3. CASE SendPromptFails
  BY <1>3 DEF SendPromptFails, Connection
<1>4. CASE SendFails
  BY <1>4 DEF SendFails, Connection
<1>5. CASE Send
  <2> SUFFICES ASSUME ~failed', excused' = {}, live', n' > 0, ~Due'
               PROVE  procs'[Current'] = 1..n'
    BY <1>5 DEF Send
  <2>1. Connection = Current /\ procs[Current] = 1..(n - 1) /\ n \in Nat /\ n > 1
    BY SMTT(90), <1>5, InstanceAssumption DEF Send
  <2>2. Current \in DOMAIN procs /\ Current' = Current
    BY SMTT(90), <1>5 DEF Send, ProcessTypes
  <2>3. procs'[Current] = 1..(n - 1) \cup {n}
    BY <1>5, <2>1, <2>2 DEF Send
  <2> QED
    BY SMTT(90), <1>5, <2>1, <2>2, <2>3 DEF Send
<1>6. CASE WriteFails
  BY <1>6 DEF WriteFails
<1>7. CASE Write
  BY <1>7 DEF Write
<1>8. CASE TakeReload
  BY <1>8 DEF TakeReload
<1>9. CASE reloadHAProxy
  BY <1>9 DEF reloadHAProxy
<1>10. CASE Track
  BY <1>10 DEF Track
<1>11. CASE TrackFails
  BY <1>11 DEF TrackFails
<1>12. CASE reloadEmbeddedDaemon
  BY <1>12, NewProcess DEF reloadEmbeddedDaemon, Reloaded, ReloadFailed
<1>13. CASE reloadEmbeddedDaemonFails
  BY <1>13 DEF reloadEmbeddedDaemonFails, ReloadFailed
<1>14. CASE reloadMaster
  BY <1>14 DEF reloadMaster
<1>15. CASE waitMaster
  BY <1>15 DEF waitMaster
<1>16. CASE waitMasterStops
  BY <1>16 DEF waitMasterStops, ReloadFailed
<1>17. CASE waitFails
  BY <1>17 DEF waitFails, ReloadFailed
<1>18. CASE reloadWorker
  BY <1>18 DEF reloadWorker, ReloadFailed
<1>19. CASE waitWorker
  <2>1. CASE live /\ ~rejected
    BY <1>19, <2>1 DEF waitWorker, Reloaded, WorkerInv, Fresh
  <2>2. CASE ~(live /\ ~rejected)
    BY <1>19, <2>2 DEF waitWorker, ReloadFailed
  <2> QED
    BY <2>1, <2>2
<1>20. CASE MasterReloads
  BY <1>20 DEF MasterReloads, MasterInv
<1>21. ASSUME NEW s \in Supervisors, startHAProxySync(s) PROVE Loaded'
  BY <1>21, NewProcess DEF startHAProxySync, NewWorker, Raced
<1>22. ASSUME NEW s \in Supervisors, StopMaster(s) PROVE Loaded'
  BY <1>22 DEF StopMaster, Ends
<1>23. CASE ExternalStarts
  BY <1>23, NewProcess DEF ExternalStarts, NewWorker, Raced
<1>24. CASE MasterDies
  BY <1>24 DEF MasterDies, Ends
<1>25. CASE Stop
  BY <1>25 DEF Stop
<1>26. CASE Shutdown
  BY <1>26 DEF Shutdown, Ends
<1>27. ASSUME NEW p \in 1..Current, OldEnds(p) PROVE Loaded'
  BY <1>27 DEF OldEnds
<1>28. ASSUME NEW i \in DOMAIN socks, shutdownSessionsSync(i) PROVE Loaded'
  BY <1>28 DEF shutdownSessionsSync
<1>29. ASSUME NEW i \in DOMAIN socks, CloseOld(i) PROVE Loaded'
  BY <1>29 DEF CloseOld
<1>30. CASE UNCHANGED vars
  BY <1>30 DEF vars
<1> QED
  BY <1>1, <1>2, <1>3, <1>4, <1>5, <1>6, <1>7, <1>8, <1>9, <1>10, <1>11, <1>12, <1>13, <1>14, <1>15,
     <1>16, <1>17, <1>18, <1>19, <1>20, <1>21, <1>22, <1>23, <1>24, <1>25, <1>26, <1>27, <1>28, <1>29, <1>30
  DEF Next, Updating, Reloading, Processes

\* Every step keeps the connections to the current process.
LEMMA TrackedStep ==
    ASSUME IInv, [Next]_vars
    PROVE  TrackedInv'
<1> USE DEF model, update, haproxy, conns, IInv, TypeOK, TrackedInv, Phases, Current
<1>1. ASSUME NEW kind \in {"endpoints", "other"}, NEW accepted \in BOOLEAN, HAProxyUpdate(kind, accepted) PROVE TrackedInv'
  BY <1>1 DEF HAProxyUpdate
<1>2. CASE NeedReload
  BY <1>2 DEF NeedReload
<1>3. CASE SendPromptFails
  BY <1>3 DEF SendPromptFails
<1>4. CASE SendFails
  BY <1>4 DEF SendFails
<1>5. CASE Send
  BY SMTT(90), <1>5 DEF Send
<1>6. CASE WriteFails
  BY <1>6 DEF WriteFails
<1>7. CASE Write
  BY <1>7 DEF Write
<1>8. CASE TakeReload
  BY <1>8 DEF TakeReload
<1>9. CASE reloadHAProxy
  BY <1>9 DEF reloadHAProxy
<1>10. CASE Track
  BY SMTT(90), <1>10 DEF Track, shrinkConns
<1>11. CASE TrackFails
  BY <1>11 DEF TrackFails, shrinkConns
<1>12. CASE reloadEmbeddedDaemon
  <2>1. CASE files.valid
    BY <1>12, <2>1, NewProcess DEF reloadEmbeddedDaemon, Reloaded
  <2>2. CASE ~files.valid
    BY <1>12, <2>2, ReleasedTracked DEF reloadEmbeddedDaemon
  <2> QED
    BY <2>1, <2>2
<1>13. CASE reloadEmbeddedDaemonFails
  BY <1>13, ReleasedTracked DEF reloadEmbeddedDaemonFails
<1>14. CASE reloadMaster
  BY <1>14 DEF reloadMaster
<1>15. CASE waitMaster
  BY <1>15 DEF waitMaster
<1>16. CASE waitMasterStops
  BY <1>16, ReleasedTracked DEF waitMasterStops
<1>17. CASE waitFails
  BY <1>17, ReleasedTracked DEF waitFails
<1>18. CASE reloadWorker
  BY <1>18, ReleasedTracked DEF reloadWorker
<1>19. CASE waitWorker
  <2>1. CASE live /\ ~rejected
    BY <1>19, <2>1 DEF waitWorker, Reloaded, WorkerInv, Fresh
  <2>2. CASE ~(live /\ ~rejected)
    BY <1>19, <2>2, ReleasedTracked DEF waitWorker
  <2> QED
    BY <2>1, <2>2
<1>20. CASE MasterReloads
  <2>1. CASE files.valid
    BY <1>20, <2>1, NewProcess DEF MasterReloads, NewWorker
  <2>2. CASE ~files.valid
    BY <1>20, <2>2 DEF MasterReloads
  <2> QED
    BY <2>1, <2>2
<1>21. ASSUME NEW s \in Supervisors, startHAProxySync(s) PROVE TrackedInv'
  BY <1>21, NewProcess DEF startHAProxySync, NewWorker, Raced
<1>22. ASSUME NEW s \in Supervisors, StopMaster(s) PROVE TrackedInv'
  BY <1>22 DEF StopMaster, Ends
<1>23. CASE ExternalStarts
  BY <1>23, NewProcess DEF ExternalStarts, NewWorker, Raced
<1>24. CASE MasterDies
  BY <1>24 DEF MasterDies, Ends
<1>25. CASE Stop
  BY <1>25 DEF Stop
<1>26. CASE Shutdown
  BY <1>26 DEF Shutdown, Ends
<1>27. ASSUME NEW p \in 1..Current, OldEnds(p) PROVE TrackedInv'
  BY <1>27 DEF OldEnds
<1>28. ASSUME NEW i \in DOMAIN socks, shutdownSessionsSync(i) PROVE TrackedInv'
  BY SMTT(90), <1>28, SocketUpdate DEF shutdownSessionsSync
<1>29. ASSUME NEW i \in DOMAIN socks, CloseOld(i) PROVE TrackedInv'
  BY SMTT(90), <1>29, SocketUpdate DEF CloseOld
<1>30. CASE UNCHANGED vars
  BY <1>30 DEF vars
<1> QED
  BY <1>1, <1>2, <1>3, <1>4, <1>5, <1>6, <1>7, <1>8, <1>9, <1>10, <1>11, <1>12, <1>13, <1>14, <1>15,
     <1>16, <1>17, <1>18, <1>19, <1>20, <1>21, <1>22, <1>23, <1>24, <1>25, <1>26, <1>27, <1>28, <1>29, <1>30
  DEF Next, Updating, Reloading, Processes

-----------------------------------------------------------------------------
\* The invariant of every behaviour of the updates, the reloads and the
\* processes: it relates the files, the current process and the connections to
\* it to the place where HAProxyUpdate or Reload is.
THEOREM IInvHolds == Spec => []IInv
<1>1. Init => IInv
  <2> SUFFICES ASSUME Init PROVE IInv
    OBVIOUS
  <2>1. TypeOK
    <3>1. /\ valid \in BOOLEAN /\ updated \in BOOLEAN /\ pending \in BOOLEAN /\ up \in BOOLEAN
          /\ failed \in BOOLEAN /\ stop \in BOOLEAN /\ exited \in BOOLEAN
          /\ rejected \in BOOLEAN /\ live \in BOOLEAN /\ ~live
      BY DEF Init
    <3>2. files \in [has : 0..n, valid : BOOLEAN] /\ n \in 0..MaxChanges
      BY SMTT(90), InstanceAssumption DEF Init
    <3>3. UpdateTypes
      BY <3>1, <3>2 DEF Init, UpdateTypes
    <3>4. sup \in [Supervisors -> {"off", "starting", "running", "stopped"}]
      BY DEF Init
    <3>5. MasterTypes
      BY SMTT(90), <3>1, <3>4 DEF Init, MasterTypes
    <3>6. ProcessTypes
      BY SMTT(90), <3>1 DEF Init, ProcessTypes
    <3> QED
      BY <3>3, <3>5, <3>6 DEF TypeOK
  <2>2. closed = Closings /\ FilesInv /\ MasterInv
    BY SMTT(90) DEF Init, Closings, Supervisors, FilesInv, MasterInv
  <2>3. WorkerInv /\ Loaded /\ TrackedInv
    BY DEF Init, WorkerInv, Loaded, TrackedInv
  <2> QED
    BY <2>1, <2>2, <2>3 DEF IInv
<1>2. IInv /\ [Next]_vars => IInv'
  <2> SUFFICES ASSUME IInv, [Next]_vars PROVE IInv'
    OBVIOUS
  <2>1. TypeOK' /\ closed' = Closings'
    BY UpdateTypesStep, MasterTypesStep, ProcessTypesStep DEF IInv, TypeOK
  <2> QED
    BY <2>1, FilesStep, MasterStep, WorkerStep, LoadedStep, TrackedStep DEF IInv
<1> QED
  BY <1>1, <1>2, PTL DEF Spec

\* An old connection is always the one of a socket, that of a process that was
\* started, and no process has a change that was never made.
THEOREM TypeCorrect == Spec => []TypeOK
<1>1. IInv => TypeOK
  BY DEF IInv
<1> QED
  BY <1>1, IInvHolds, PTL

\* Whichever commands, writes, reloads and processes failed before: when no
\* reload is due and i.failedSince is nil, the running haproxy has every change
\* of the model, but for the cases FailureVisible excepts.
THEOREM FailureVisibleCorrect == Spec => []FailureVisible
<1>1. IInv => FailureVisible
  BY DEF IInv, Loaded, Due, Phases, FailureVisible, Quiet
<1> QED
  BY <1>1, IInvHolds, PTL

\* The timer of TrackCurrentInstance shuts sessions down only on a process that
\* was replaced, unless a reload is in progress: the connection of a reload that
\* failed is closed by ReleaseLastInstance.
THEOREM SessionsKeptCorrect == Spec => SessionsKept
<1> DEFINE Kept == pc = "idle" /\ live /\ "unstarted" \notin excused => Current \notin cut' \ cut
<1>1. IInv /\ [Next]_vars => [Kept]_vars
  <2> SUFFICES ASSUME IInv, Next PROVE Kept
    OBVIOUS
  <2>1. ASSUME cut' # cut
        PROVE  \E i \in DOMAIN socks : shutdownSessionsSync(i)
    BY <2>1 DEF Next, Updating, Reloading, Processes, conns, HAProxyUpdate, NeedReload,
       SendPromptFails, SendFails, Send, WriteFails, Write, TakeReload, reloadHAProxy, Track,
       TrackFails, reloadEmbeddedDaemon, reloadEmbeddedDaemonFails, reloadMaster, waitMaster,
       waitMasterStops, waitFails, reloadWorker, waitWorker, MasterReloads, startHAProxySync,
       StopMaster, ExternalStarts, MasterDies, Stop, Shutdown, OldEnds, CloseOld
  <2>2. ASSUME NEW i \in DOMAIN socks, shutdownSessionsSync(i) PROVE Kept
    BY <2>2 DEF shutdownSessionsSync, IInv, TrackedInv, Phases
  <2> QED
    BY <2>1, <2>2
<1> QED
  BY <1>1, IInvHolds, PTL DEF Spec, SessionsKept

=============================================================================
