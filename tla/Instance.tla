------------------------------ MODULE Instance ------------------------------
(***************************************************************************)
(* The life of haproxy under pkg/haproxy/instance.go: the update that      *)
(* sends commands and writes the files, the reload of the three kinds of   *)
(* process, the connections to the instances left behind by a reload       *)
(* (connections.go) and the sockets they use (socket/socket.go).           *)
(*                                                                         *)
(* A change of the configuration is a number.  The files have the changes  *)
(* 1..files.has, a haproxy process the set of changes it was started with  *)
(* or was given by commands.  What one update compares, and which commands *)
(* it sends, is in Backends and DynUpdate.                                 *)
(***************************************************************************)
EXTENDS Naturals, Sequences, FiniteSets

CONSTANTS Modes,      \* the command-line options of a controller
          MaxChanges, MaxFail, MaxCrash

ASSUME InstanceAssumption ==
    /\ Modes \subseteq [kind : {"daemon", "master", "external"}, delayed : BOOLEAN,
                        track : BOOLEAN, validate : BOOLEAN]
    /\ {MaxChanges, MaxFail, MaxCrash} \subseteq Nat

VARIABLES
    mode,
    n, valid,             \* the model: its changes, and whether haproxy accepts it
    files,                \* the configuration files
    pc, change, updated,  \* the update or the reload that has the model mutex
    pending, reloader,    \* the reload queue and its worker
    up, failed,           \* i.up, and i.failedSince is not nil
    sup, closed,          \* the goroutines of startHAProxySync; closings of waitProc
    cli, rejected,        \* the master socket; Failed of its process table
    procs, live, gone,    \* worker processes; whether the last one runs; those that ended
    socks, old,           \* sockets to old instances, as they were made; oldInstances
    dyn,                  \* the connection of the DynUpdate socket, 0 if closed
    cut,                  \* the processes whose sessions were shut down
    stop, exited,         \* the stop channel is closed; Shutdown returned
    excused,              \* history: see FailureVisible and OneSupervisor
    failures, crashes

model == <<mode, n, valid, files>>
update == <<pc, change, updated>>
reloads == <<pending, reloader>>
health == <<up, failed>>
master == <<sup, closed, cli, rejected>>
haproxy == <<procs, live, gone>>
conns == <<socks, old, dyn, cut>>
ending == <<stop, exited>>
counters == <<failures, crashes>>
vars == <<model, update, reloads, health, master, haproxy, conns, ending, excused, counters>>

Supervisors == 1..2
Current == Len(procs)

Init ==
    /\ mode \in Modes
    /\ n = 0 /\ valid = TRUE /\ files = [has |-> 0, valid |-> FALSE]
    /\ pc = "idle" /\ change = "none" /\ updated = FALSE
    /\ pending = FALSE /\ reloader = "idle"
    /\ up = FALSE /\ failed = FALSE
    /\ sup = [s \in Supervisors |-> "off"] /\ closed = 0
    /\ cli = "down" /\ rejected = FALSE
    /\ procs = <<>> /\ live = FALSE /\ gone = {}
    /\ socks = <<>> /\ old = {} /\ dyn = 0 /\ cut = {}
    /\ stop = FALSE /\ exited = FALSE
    /\ excused = {}
    /\ failures = 0 /\ crashes = 0

Failing == failures < MaxFail /\ failures' = failures + 1

-----------------------------------------------------------------------------
(* HAProxyUpdate.                                                          *)

\* The converters changed the model; the next configuration may be one that
\* haproxy rejects.  Endpoints can be changed by commands, the rest cannot.
HAProxyUpdate(kind, accepted) ==
    /\ pc = "idle" /\ ~stop /\ n < MaxChanges
    /\ kind = "endpoints" => accepted = valid
    /\ n' = n + 1 /\ valid' = accepted
    /\ change' = kind
    /\ pc' = "commands"
    /\ UNCHANGED <<mode, files, updated, reloads, health, master, haproxy, conns, ending, excused, counters>>

\* Nothing was committed before, or commands do not do (those that are sent to
\* keep haproxy as updated as possible are left out).
NeedReload ==
    /\ pc = "commands" /\ (n = 1 \/ change # "endpoints")
    /\ updated' = FALSE /\ pc' = "write"
    /\ UNCHANGED <<model, change, reloads, health, master, haproxy, conns, ending, excused, counters>>

\* The connection Send uses: the one that is open, or a new one.
Connection == IF dyn # 0 THEN dyn ELSE IF live THEN Current ELSE 0

\* Send of several commands starts with a prompt.  If that fails the connection
\* is left as it is, if haproxy does not listen there is none.
SendPromptFails ==
    /\ pc = "commands" /\ n > 1 /\ change = "endpoints"
    /\ IF Connection \in gone \cup {0} THEN UNCHANGED failures ELSE Failing
    /\ dyn' = Connection
    /\ updated' = FALSE /\ pc' = "write"
    /\ UNCHANGED <<model, change, reloads, health, master, haproxy, socks, old, cut, ending, excused, crashes>>

SendFails ==
    /\ pc = "commands" /\ n > 1 /\ change = "endpoints"
    /\ Connection \notin gone \cup {0} /\ Failing
    /\ dyn' = 0
    /\ updated' = FALSE /\ pc' = "write"
    /\ UNCHANGED <<model, change, reloads, health, master, haproxy, socks, old, cut, ending, excused, crashes>>

\* misled: the process at the other end was not the current one.
Send ==
    /\ pc = "commands" /\ n > 1 /\ change = "endpoints"
    /\ Connection \notin gone \cup {0}
    /\ procs' = [procs EXCEPT ![Connection] = @ \cup {n}]
    /\ dyn' = 0
    /\ updated' = TRUE /\ pc' = "write"
    /\ excused' = IF Connection = Current THEN excused ELSE excused \cup {"misled"}
    /\ UNCHANGED <<model, change, reloads, health, master, live, gone, socks, old, cut, ending, counters>>

\* A file cannot be written: what was there is lost, or still there.  The model
\* is committed nevertheless, and nothing is reloaded.
WriteFails ==
    /\ pc = "write" /\ Failing
    /\ files' \in {files, [files EXCEPT !.valid = FALSE]}
    /\ pc' = "idle" /\ change' = "none" /\ updated' = FALSE
    /\ excused' = excused \cup {"lost"}
    /\ UNCHANGED <<mode, n, valid, reloads, health, master, haproxy, conns, ending, crashes>>

\* writeConfig, and what is left of HAProxyUpdate: the validation of an update
\* without a reload, or the reload, now or by its queue.
Write ==
    /\ pc = "write"
    /\ files' = [has |-> n, valid |-> valid]
    /\ failed' = IF updated /\ mode.validate THEN ~(mode.kind = "external" \/ valid) ELSE failed
    /\ excused' = IF failed' # failed /\ ~failed' THEN excused \cup {"validated"} ELSE excused
    /\ pending' = (pending \/ (mode.delayed /\ ~updated))
    /\ pc' = IF updated \/ mode.delayed THEN "idle" ELSE "track"
    /\ change' = "none" /\ updated' = FALSE
    /\ UNCHANGED <<mode, n, valid, reloader, up, master, haproxy, conns, ending, counters>>

-----------------------------------------------------------------------------
(* Reload, called by HAProxyUpdate or by the worker of the queue.          *)

TakeReload ==
    /\ pending /\ reloader = "idle" /\ ~stop
    /\ pending' = FALSE /\ reloader' = "waiting"
    /\ UNCHANGED <<model, update, health, master, haproxy, conns, ending, excused, counters>>

\* Mutation: only the first request is served.
reloadHAProxyOnce ==
    /\ reloader = "waiting" /\ pc = "idle"
    /\ reloader' = IF up THEN "idle" ELSE "reloading"
    /\ pc' = IF up THEN "idle" ELSE "track"
    /\ UNCHANGED <<model, change, updated, pending, health, master, haproxy, conns, ending, excused, counters>>

reloadHAProxy ==
    /\ reloader = "waiting" /\ pc = "idle"
    /\ reloader' = "reloading" /\ pc' = "track"
    /\ UNCHANGED <<model, change, updated, pending, health, master, haproxy, conns, ending, excused, counters>>

\* shrinkConns: instances without a connection are forgotten.
HasConn(i) == socks[i].conn
shrinkConns == {i \in old : HasConn(i)}

\* TrackCurrentInstance: a connection to the process that the reload replaces.
Track ==
    /\ pc = "track" /\ pc' = "reload"
    /\ IF mode.track /\ live
       THEN /\ socks' = Append(socks, [proc |-> Current, conn |-> TRUE, fired |-> FALSE])
            /\ old' = shrinkConns \cup {Len(socks')}
       ELSE /\ old' = IF mode.track THEN shrinkConns ELSE old
            /\ UNCHANGED socks
    /\ UNCHANGED <<model, change, updated, reloads, health, master, haproxy, dyn, cut, ending, excused, counters>>

\* The socket does not answer; the reload goes on.
TrackFails ==
    /\ pc = "track" /\ pc' = "reload"
    /\ mode.track /\ live /\ Failing
    /\ old' = shrinkConns
    /\ UNCHANGED <<model, change, updated, reloads, health, master, haproxy, socks, dyn, cut, ending, excused, crashes>>

\* The end of Reload.
Reloaded ==
    /\ up' = TRUE /\ failed' = FALSE
    /\ excused' = excused \cap {"unstarted", IF files.has = n THEN "unstarted" ELSE "lost"}
    /\ pc' = "idle" /\ reloader' = "idle"
    /\ UNCHANGED <<socks, old>>

\* Mutation: the tracked instance is not released.
ReloadFailedKeeps ==
    /\ failed' = TRUE
    /\ excused' = IF up \/ mode.kind # "master" THEN excused ELSE excused \cup {"unstarted"}
    /\ pc' = "idle" /\ reloader' = "idle"
    /\ UNCHANGED <<up, socks, old>>

\* The last of oldInstances: they are appended, so it is the youngest.
LastInstance == CHOOSE i \in old : \A j \in old : j <= i

\* ReleaseLastInstance closes the last connection, if there is one.
ReloadFailed ==
    /\ failed' = TRUE
    /\ excused' = IF up \/ mode.kind # "master" THEN excused ELSE excused \cup {"unstarted"}
    /\ IF mode.track /\ old # {}
       THEN /\ socks' = [socks EXCEPT ![LastInstance].conn = FALSE]
            /\ old' = old \ {LastInstance}
       ELSE UNCHANGED <<socks, old>>
    /\ pc' = "idle" /\ reloader' = "idle"
    /\ UNCHANGED up

\* haproxy-reload.sh starts a process, which takes over if it can read the files.
reloadEmbeddedDaemon ==
    /\ pc = "reload" /\ mode.kind = "daemon"
    /\ IF files.valid
       THEN /\ procs' = Append(procs, 1..files.has) /\ live' = TRUE
            /\ Reloaded
       ELSE ReloadFailed /\ UNCHANGED <<procs, live>>
    /\ UNCHANGED <<model, change, updated, pending, master, gone, dyn, cut, ending, counters>>

reloadEmbeddedDaemonFails ==
    /\ pc = "reload" /\ mode.kind = "daemon" /\ Failing
    /\ ReloadFailed
    /\ UNCHANGED <<model, change, updated, pending, master, haproxy, dyn, cut, ending, crashes>>

Unused == {s \in Supervisors : sup[s] = "off"}

\* reloadEmbeddedMasterWorker and reloadExternal: up to the first reload that
\* succeeds, the master process is started, or waited for.
reloadMaster ==
    /\ pc = "reload" /\ mode.kind # "daemon"
    /\ IF ~up /\ mode.kind = "master" /\ Unused # {}
       THEN sup' = [sup EXCEPT ![CHOOSE s \in Unused : \A t \in Unused : s <= t] = "starting"]
       ELSE UNCHANGED sup
    /\ pc' = IF up THEN "send" ELSE "master"
    /\ UNCHANGED <<model, change, updated, reloads, health, closed, cli, rejected, haproxy, conns, ending, excused, counters>>

\* HAProxyProcs tries again while the connection is refused or there is no socket.
waitMaster ==
    /\ pc = "master" /\ cli = "up"
    /\ pc' = IF mode.kind = "external" THEN "send" ELSE "worker"
    /\ UNCHANGED <<model, change, updated, reloads, health, master, haproxy, conns, ending, excused, counters>>

waitMasterStops ==
    /\ pc = "master" /\ stop
    /\ ReloadFailed
    /\ UNCHANGED <<model, change, updated, pending, master, haproxy, dyn, cut, ending, counters>>

\* Any other error of the socket ends the wait, here and in waitWorker.
waitFails ==
    /\ pc \in {"master", "worker"} /\ cli = "up" /\ Failing
    /\ ReloadFailed
    /\ UNCHANGED <<model, change, updated, pending, master, haproxy, dyn, cut, ending, crashes>>

\* reloadWorker: the command is sent once.
reloadWorker ==
    /\ pc = "send"
    /\ IF cli = "up"
       THEN /\ cli' = "reloading" /\ pc' = "worker"
            /\ UNCHANGED <<reloader, health, socks, old, excused>>
       ELSE ReloadFailed /\ UNCHANGED cli
    /\ UNCHANGED <<model, change, updated, pending, sup, closed, rejected, haproxy, dyn, cut, ending, counters>>

\* Mutation: the counter of failed reloads is not read.
waitWorkerUnread ==
    /\ pc = "worker" /\ cli = "up"
    /\ IF live THEN Reloaded ELSE ReloadFailed
    /\ UNCHANGED <<model, change, updated, pending, master, haproxy, dyn, cut, ending, counters>>

\* waitWorker: the process table has a worker, and no failed reload.
waitWorker ==
    /\ pc = "worker" /\ cli = "up"
    /\ IF live /\ ~rejected THEN Reloaded ELSE ReloadFailed
    /\ UNCHANGED <<model, change, updated, pending, master, haproxy, dyn, cut, ending, counters>>

-----------------------------------------------------------------------------
(* haproxy itself, and the goroutines that keep the master running.        *)

NewWorker ==
    /\ procs' = Append(procs, 1..files.has) /\ live' = TRUE /\ rejected' = FALSE
    /\ cli' = "up"

\* raced: haproxy is started again between the commands of an update and the
\* files that have it.
Raced == excused' = IF pc = "write" /\ updated THEN excused \cup {"raced"} ELSE excused

\* The master reads the files again; if it cannot, the old worker stays.
MasterReloads ==
    /\ cli = "reloading"
    /\ IF files.valid THEN NewWorker
       ELSE cli' = "up" /\ rejected' = TRUE /\ UNCHANGED <<procs, live>>
    /\ UNCHANGED <<model, update, reloads, health, sup, closed, gone, conns, ending, excused, counters>>

\* startHAProxySync is called every four seconds until the master stays up.
startHAProxySync(s) ==
    /\ sup[s] = "starting" /\ ~stop /\ files.valid
    /\ sup' = [sup EXCEPT ![s] = "running"]
    /\ NewWorker
    /\ Raced
    /\ UNCHANGED <<model, update, reloads, health, closed, gone, conns, ending, counters>>

\* An external haproxy starts on its own, with an empty configuration at first.
ExternalStarts ==
    /\ mode.kind = "external" /\ cli = "down" /\ ~stop
    /\ n = 0 \/ files.valid
    /\ NewWorker /\ Raced
    /\ UNCHANGED <<model, update, reloads, health, sup, closed, gone, conns, ending, counters>>

Ends == live' = FALSE /\ gone' = gone \cup {Current} /\ cli' = "down" /\ UNCHANGED procs

MasterDies ==
    /\ live /\ crashes < MaxCrash
    /\ crashes' = crashes + 1
    /\ Ends
    /\ sup' = [s \in Supervisors |-> IF sup[s] = "running" THEN "starting" ELSE sup[s]]
    /\ UNCHANGED <<model, update, reloads, health, closed, rejected, conns, ending, excused, failures>>

\* A process that was replaced ends: only a connection to it can tell.
OldEnds(p) ==
    /\ p < Current /\ p \notin gone /\ dyn = p
    /\ gone' = gone \cup {p}
    /\ UNCHANGED <<model, update, reloads, health, master, procs, live, conns, ending, excused, counters>>

\* The stop channel is closed: the supervisor stops its master and returns.
Stop ==
    /\ ~stop /\ stop' = TRUE
    /\ UNCHANGED <<model, update, reloads, health, master, haproxy, conns, exited, excused, counters>>

StopMaster(s) ==
    /\ stop /\ sup[s] \in {"starting", "running"}
    /\ sup' = [sup EXCEPT ![s] = "stopped"]
    /\ closed' = closed + 1
    /\ IF sup[s] = "running" /\ live THEN Ends ELSE UNCHANGED <<haproxy, cli>>
    /\ UNCHANGED <<model, update, reloads, health, rejected, conns, ending, excused, counters>>

\* Shutdown of the instance waits for the supervisor or stops the daemon.
Shutdown ==
    /\ stop /\ ~exited
    /\ up /\ mode.kind = "master" => closed > 0
    /\ exited' = TRUE
    /\ IF up /\ mode.kind = "daemon" /\ live THEN Ends ELSE UNCHANGED <<haproxy, cli>>
    /\ UNCHANGED <<model, update, reloads, health, sup, closed, rejected, conns, stop, excused, counters>>

-----------------------------------------------------------------------------
(* The timers of the old instances.                                        *)

\* shutdownSessionsSync, close-sessions-duration before the process must end.
shutdownSessionsSync(i) ==
    /\ ~socks[i].fired /\ socks[i].conn
    /\ cut' = cut \cup {socks[i].proc}
    /\ socks' = [socks EXCEPT ![i].fired = TRUE]
    /\ UNCHANGED <<model, update, reloads, health, master, haproxy, old, dyn, ending, excused, counters>>

CloseOld(i) ==
    /\ socks[i].conn /\ socks[i].fired
    /\ socks' = [socks EXCEPT ![i].conn = FALSE]
    /\ UNCHANGED <<model, update, reloads, health, master, haproxy, old, dyn, cut, ending, excused, counters>>

-----------------------------------------------------------------------------
Updating == NeedReload \/ SendPromptFails \/ Send \/ Write
Reloading == \/ reloadHAProxy \/ Track \/ reloadEmbeddedDaemon \/ reloadMaster
             \/ waitMaster \/ waitMasterStops \/ reloadWorker \/ waitWorker
Processes == MasterReloads \/ (\E s \in Supervisors : startHAProxySync(s) \/ StopMaster(s))

Next ==
    \/ \E kind \in {"endpoints", "other"}, accepted \in BOOLEAN : HAProxyUpdate(kind, accepted)
    \/ Updating \/ SendFails \/ WriteFails
    \/ TakeReload \/ Reloading \/ TrackFails \/ reloadEmbeddedDaemonFails \/ waitFails
    \/ Processes \/ ExternalStarts \/ MasterDies \/ Stop \/ Shutdown
    \/ \E p \in 1..Current : OldEnds(p)
    \/ \E i \in DOMAIN socks : shutdownSessionsSync(i) \/ CloseOld(i)

Spec == Init /\ [][Next]_vars

(***************************************************************************)
(* The goroutines that can run do run, and the master process of haproxy   *)
(* reads its files.  Nothing makes an external haproxy start, or a change  *)
(* come.                                                                   *)
(***************************************************************************)
FairSpec ==
    /\ Spec
    /\ WF_vars(Updating) /\ WF_vars(TakeReload) /\ SF_vars(Reloading)
    /\ WF_vars(Processes) /\ WF_vars(Shutdown)

-----------------------------------------------------------------------------
UpdateTypes ==
    /\ mode \in Modes /\ n \in 0..MaxChanges /\ valid \in BOOLEAN
    /\ files \in [has : 0..n, valid : BOOLEAN]
    /\ pc \in {"idle", "commands", "write", "track", "reload", "master", "send", "worker"}
    /\ change \in {"none", "endpoints", "other"} /\ updated \in BOOLEAN
    /\ pending \in BOOLEAN /\ reloader \in {"idle", "waiting", "reloading"}
    /\ up \in BOOLEAN /\ failed \in BOOLEAN
    /\ stop \in BOOLEAN /\ exited \in BOOLEAN

MasterTypes ==
    /\ sup \in [Supervisors -> {"off", "starting", "running", "stopped"}]
    /\ closed \in 0..2
    /\ cli \in {"down", "up", "reloading"} /\ rejected \in BOOLEAN

ProcessTypes ==
    /\ procs \in Seq(SUBSET (1..n))
    /\ live \in BOOLEAN /\ (live => procs # <<>>)
    /\ gone \subseteq DOMAIN procs /\ cut \subseteq DOMAIN procs
    /\ dyn \in 0..Len(procs)
    /\ socks \in Seq([proc : DOMAIN procs, conn : BOOLEAN, fired : BOOLEAN])
    /\ old \subseteq DOMAIN socks

\* The variables have their types: an old connection is always the one of a
\* socket, and a process has no change that was never made.
TypeOK == UpdateTypes /\ MasterTypes /\ ProcessTypes

Quiet == pc = "idle" /\ ~pending /\ reloader = "idle"

\* If no failure is reported (i.failedSince, and with it the metric of successful
\* updates) and no reload is due, the running haproxy has every change of the
\* model, whichever commands, writes, reloads and processes failed before.
\* Excepted are files that could not be written, commands that went to another
\* process or one that ended before the files were written, failures that a later
\* validation of the files took back, and a master whose first reload failed: the
\* next one starts a second master instead of reloading it.
FailureVisible ==
    Quiet /\ live /\ n > 0 /\ ~failed /\ excused = {}
        => procs[Current] = 1..n

\* Sessions are only shut down on an instance that was replaced: if the reload
\* fails the connection is released before its timer can use it.  Excepted is the
\* reload that was answered by the master of an earlier one.
SessionsKept ==
    [][pc = "idle" /\ live /\ "unstarted" \notin excused => Current \notin cut' \ cut]_vars

\* A configuration that haproxy accepts, and that no later one replaces, is
\* loaded or a failure is reported.
EventuallyLoaded ==
    (n = MaxChanges /\ files = [has |-> n, valid |-> TRUE] /\ pc = "idle" /\ pending)
        ~> (stop \/ failed \/ (live /\ procs[Current] = 1..n)
            \/ (mode.kind = "external" /\ cli = "down"))
=============================================================================
