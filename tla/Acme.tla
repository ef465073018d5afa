-------------------------------- MODULE Acme --------------------------------
(***************************************************************************)
(* The embedded acme client of a controller replica: the storages of the   *)
(* haproxy model (pkg/haproxy/types/global.go), AcmeUpdate and AcmeCheck   *)
(* of the instance, the signer (pkg/acme/signer.go), the work queue and    *)
(* the lease (pkg/controller/services/svcacme.go and services.go).         *)
(*                                                                         *)
(* Syncs and periodic checks run under the model mutex, one at a time; the *)
(* worker of the queue calls the signer without it.  The queue is the one  *)
(* of Queue.tla, with what its users see of it: items that wait for their  *)
(* turn or for a retry, marks of removed items, and a ShutDown that keeps  *)
(* the queue's mutex until the loop is over.                               *)
(***************************************************************************)
EXTENDS Naturals, FiniteSets

CONSTANTS Secret,     \* the secrets certificates are stored in
          Domains,    \* the sets of domains a certificate may be asked for
          Account,    \* acme-endpoint, acme-emails and acme-terms-agreed
          None,
          MaxChanges, MaxExpire, MaxFail

ASSUME AcmeAssumption ==
    /\ {} \notin Domains
    /\ None \notin Domains /\ None \notin Account
    /\ None \notin [domains : Domains, fresh : BOOLEAN]
    /\ {MaxChanges, MaxExpire, MaxFail} \subseteq Nat

VARIABLES
    tracked, conf,    \* the cluster: domains per secret, global configuration
    certs,            \* the cluster: the certificate in each secret
    hasKey,           \* the cluster: the secret of the account key exists
    due,              \* the next sync of the reconcile loop: "none", "partial", "full"
    elected,          \* leaderChanged(true) was called and did not sync yet
    synced,           \* "no", "running" (watchers.run), or "up" (instance.up)
    check,            \* a periodic check that waits for the model mutex
    items, itemsAdd, itemsDel,   \* AcmeStorages
    accountConf,      \* the account of AcmeData
    mutex,            \* who holds the model mutex
    pc,               \* where the holder is
    signer,           \* account and client
    lease,            \* "waiting", "held" or "lost"
    leader,           \* svcleader.isLeader()
    queue,            \* "new", "running", or after its ShutDown
    queued, waiting, forget,     \* items of the queue
    worker,           \* the item at the signer, and where
    stray, missed,    \* history: see Get and AcmeUpdate
    changes, expired, failed     \* counters of what the environment did

pending == <<due, elected, synced, check>>
cluster == <<tracked, conf, certs, hasKey>>
storages == <<items, itemsAdd, itemsDel, accountConf>>
model == <<mutex, pc, signer>>
leading == <<lease, leader>>
work == <<queue, queued, waiting, forget, worker>>
history == <<stray, missed>>
counters == <<changes, expired, failed>>
vars == <<cluster, pending, storages, model, leading, work, history, counters>>

NoStorages == [s \in Secret |-> None]
Idle == [pc |-> "idle", item |-> None]
NoClient == [account |-> None, client |-> FALSE]

\* buildAcmeStorages: an item names the secret and its domains.
buildAcmeStorages(storage) == {<<s, storage[s]>> : s \in {x \in Secret : storage[x] # None}}

Covers(cert, domains) == cert # None /\ domains \subseteq cert.domains

Init ==
    /\ tracked \in [Secret -> Domains \cup {None}]
    /\ conf \in Account \cup {None}
    /\ certs = [s \in Secret |-> None]
    /\ hasKey \in BOOLEAN
    /\ due = "full" /\ elected = FALSE /\ synced = "no" /\ check = FALSE
    /\ items = NoStorages /\ itemsAdd = NoStorages /\ itemsDel = NoStorages
    /\ accountConf = None
    /\ mutex = "free" /\ pc = "idle"
    /\ signer = NoClient
    /\ lease = "waiting" /\ leader = FALSE
    /\ queue = "new" /\ queued = {} /\ waiting = {} /\ forget = {}
    /\ worker = Idle
    /\ stray = FALSE /\ missed = FALSE
    /\ changes = 0 /\ expired = 0 /\ failed = 0

\* The process is started again after a panic: nothing is synced.
Restart ==
    /\ due' = "full" /\ elected' = FALSE /\ synced' = "no" /\ check' = FALSE
    /\ items' = NoStorages /\ itemsAdd' = NoStorages /\ itemsDel' = NoStorages
    /\ accountConf' = None
    /\ mutex' = "free" /\ pc' = "idle"
    /\ signer' = NoClient
    /\ lease' = "waiting" /\ leader' = FALSE
    /\ queue' = "new" /\ queued' = {} /\ waiting' = {} /\ forget' = {}
    /\ worker' = Idle
    /\ stray' = FALSE /\ missed' = FALSE
    /\ UNCHANGED <<tracked, conf, certs, changes, expired, failed>>

-----------------------------------------------------------------------------
(* The environment.                                                        *)

\* An ingress changes, its domains or something else; a partial sync applies it.
Track(s, domains) ==
    /\ changes < MaxChanges
    /\ changes' = changes + 1
    /\ tracked' = [tracked EXCEPT ![s] = domains]
    /\ due' = IF due = "full" THEN "full" ELSE "partial"
    /\ UNCHANGED <<conf, certs, hasKey, elected, synced, check, storages, model, leading, work,
                   history, expired, failed>>

\* The global configmap changes, which needs a full sync.
Configure(account) ==
    /\ changes < MaxChanges /\ conf # account
    /\ changes' = changes + 1
    /\ conf' = account
    /\ due' = "full"
    /\ UNCHANGED <<tracked, certs, hasKey, elected, synced, check, storages, model, leading, work,
                   history, expired, failed>>

Expire(s) ==
    /\ expired < MaxExpire /\ certs[s] # None /\ certs[s].fresh
    /\ expired' = expired + 1
    /\ certs' = [certs EXCEPT ![s].fresh = FALSE]
    /\ UNCHANGED <<tracked, conf, hasKey, pending, storages, model, leading,
                   work, history, changes, failed>>

-----------------------------------------------------------------------------
(* svcleader.go.  The elector knows it leads before it calls the callback. *)

Acquire ==
    /\ lease = "waiting" /\ ~leader
    /\ leader' = TRUE
    /\ UNCHANGED <<cluster, pending, storages, model, lease, work, history, counters>>

\* onStartedLeading: the queue runs and the subscriber is called, which only
\* goes on if the reconcile loop ran before.
onStartedLeading ==
    /\ lease = "waiting" /\ leader
    /\ lease' = "held"
    /\ queue' = "running"
    /\ elected' = (synced # "no")
    /\ UNCHANGED <<cluster, due, synced, check, storages, model, leader, queued, waiting, forget,
                   worker, history, counters>>

\* The lease is lost and the queue is shut down, once the worker is back: the
\* items left are never delivered.  The elector keeps the record it observed,
\* of this replica if the API server did not answer, and is not run again.
onStoppedLeading ==
    /\ lease = "held"
    /\ lease' = "lost"
    /\ leader' \in BOOLEAN
    /\ queue' = "stopping" /\ waiting' = {}
    /\ UNCHANGED <<cluster, pending, storages, model, queued, forget, worker,
                   history, counters>>

\* ShutDown returns if nothing is left; otherwise the worker waits for the
\* mutex of the queue, which ShutDown holds while it waits for the worker.
ShutDown ==
    /\ queue = "stopping" /\ worker = Idle /\ queued = {}
    /\ queue' = "down"
    /\ UNCHANGED <<cluster, pending, storages, model, leading, queued, waiting,
                   forget, worker, history, counters>>

-----------------------------------------------------------------------------
(* ReconcileIngress and acmeCheck, under the model mutex.                  *)

\* Mutation: storages that were removed and added again are not compared.
shrinkNothing(add, del) == {}

\* The storages that were removed and are the same now.
shrink(add, del) == {s \in Secret : del[s] # None /\ add[s] = del[s]}

Without(storage, names) == [s \in Secret |-> IF s \in names THEN None ELSE storage[s]]

\* The converters rebuild the storages, all of them or the dirty ones: RemoveAll
\* and Acquire.  A full sync starts with new storages, without itemsDel, so that
\* what it drops is not removed from the queue.
Sync(full, dirty) ==
    LET add == [s \in Secret |->
                   IF s \in dirty /\ tracked[s] # None THEN tracked[s]
                   ELSE IF full THEN None ELSE itemsAdd[s]]
        del == [s \in Secret |->
                   IF full THEN None
                   ELSE IF s \in dirty /\ items[s] # None THEN items[s] ELSE itemsDel[s]]
        same == shrink(add, del)
    IN
    /\ mutex = "free"
    /\ pc' = IF leader THEN "ensure" ELSE "commit"
    /\ items' = [s \in Secret |-> IF s \in dirty THEN tracked[s] ELSE items[s]]
    /\ itemsAdd' = Without(add, same)
    /\ itemsDel' = Without(del, same)
    /\ accountConf' = IF full THEN conf ELSE accountConf
    /\ synced' = IF synced = "no" THEN "running" ELSE synced
    /\ due' = "none"
    /\ UNCHANGED <<cluster, check, signer, leading, work, history, counters>>

\* The reconcile loop.  Ingress resources that did not change may be dirty as well.
Reconcile(dirty) ==
    /\ due # "none"
    /\ dirty = Secret \/ (due = "partial" /\ \A s \in Secret \ dirty : items[s] = tracked[s])
    /\ mutex' = "loop"
    /\ Sync(due = "full", dirty)
    /\ UNCHANGED elected

leaderChanged ==
    /\ elected
    /\ elected' = FALSE
    /\ mutex' = "leader"
    /\ Sync(TRUE, Secret)

\* acmeCheck reads isLeader before it waits for the mutex.
acmeCheck ==
    /\ queue = "running" /\ leader /\ ~check
    /\ check' = TRUE
    /\ UNCHANGED <<cluster, due, elected, synced, storages, model, leading, work,
                   history, counters>>

AcmeCheck ==
    /\ check /\ mutex = "free"
    /\ check' = FALSE
    /\ IF synced = "up" THEN mutex' = "check" /\ pc' = "ensure" ELSE UNCHANGED <<mutex, pc>>
    /\ UNCHANGED <<cluster, due, elected, synced, storages, signer, leading, work,
                   history, counters>>

\* AcmeAccount.  The client is forgotten first, the account is only changed
\* once the new client exists.
AcmeAccount ==
    /\ pc = "ensure"
    /\ IF signer.account = accountConf
       THEN pc' = "enqueue" /\ UNCHANGED signer
       ELSE /\ signer' = [signer EXCEPT !.client = FALSE]
            /\ pc' = IF accountConf = None THEN "enqueue" ELSE "newclient"
    /\ UNCHANGED <<cluster, pending, storages, mutex, leading, work, history, counters>>

NewClient ==
    /\ pc = "newclient" /\ hasKey
    /\ signer' = [account |-> accountConf, client |-> TRUE]
    /\ pc' = "enqueue"
    /\ UNCHANGED <<cluster, pending, storages, mutex, leading, work, history, counters>>

\* The key cannot be created, or the server does not answer.
NewClientFails ==
    /\ pc = "newclient" /\ failed < MaxFail
    /\ failed' = failed + 1
    /\ hasKey' \in {hasKey, TRUE}
    /\ pc' = "enqueue"
    /\ UNCHANGED <<tracked, conf, certs, pending, storages, mutex, signer, leading,
                   work, history, changes, expired>>

\* GetKey creates the key and returns a nil one, which panics when it signs the
\* first request.  The controller recovers its own goroutine and tries again,
\* with storages that are not committed: a sync that parses them again finds
\* them unchanged.
NewClientPanics ==
    /\ pc = "newclient" /\ ~hasKey
    /\ hasKey' = TRUE
    /\ IF mutex = "loop"
       THEN /\ mutex' = "free" /\ pc' = "idle"
            /\ due' = IF due = "none" THEN "partial" ELSE due
            /\ missed' = TRUE
            /\ UNCHANGED <<tracked, conf, certs, elected, synced, check, storages,
                           signer, leading, work, stray, changes, expired, failed>>
       ELSE Restart

\* svcAcmeClient.Add, for the items in adds, and then Remove.  A queue that was
\* shut down ignores what is added; one that is being shut down blocks.
Enqueue(adds, dels) ==
    LET added == IF leader THEN adds ELSE {} IN
    /\ queue = "stopping" => added \cup dels = {}
    /\ queued' = IF queue = "down" THEN queued ELSE queued \cup added
    /\ forget' = (forget \ added) \cup dels
    /\ UNCHANGED <<queue, waiting, worker>>

\* AcmeUpdate, after acmeEnsureConfig.  Without an account it returns, although
\* what was added is committed afterwards: missed.
AcmeUpdate ==
    /\ pc = "enqueue" /\ mutex \in {"loop", "leader"}
    /\ pc' = "commit"
    /\ IF signer.client
       THEN /\ Enqueue(buildAcmeStorages(itemsAdd), buildAcmeStorages(itemsDel))
            /\ UNCHANGED missed
       ELSE /\ missed' = (missed \/ itemsAdd # NoStorages)
            /\ UNCHANGED work
    /\ UNCHANGED <<cluster, pending, storages, mutex, signer, leading, stray, counters>>

\* Mutation: the check adds what changed last.
AcmeCheckEnqueueAdded ==
    /\ pc = "enqueue" /\ mutex = "check"
    /\ pc' = "idle" /\ mutex' = "free"
    /\ IF signer.client
       THEN Enqueue(buildAcmeStorages(itemsAdd), {}) /\ missed' = FALSE
       ELSE UNCHANGED <<work, missed>>
    /\ UNCHANGED <<cluster, pending, storages, signer, leading, stray, counters>>

\* Mutation: without an account the mutex is not unlocked.
AcmeCheckKeepsMutex ==
    /\ pc = "enqueue" /\ mutex = "check"
    /\ pc' = "idle" /\ mutex' = IF signer.client THEN "free" ELSE mutex
    /\ IF signer.client
       THEN Enqueue(buildAcmeStorages(items), {}) /\ missed' = FALSE
       ELSE UNCHANGED <<work, missed>>
    /\ UNCHANGED <<cluster, pending, storages, signer, leading, stray, counters>>

AcmeCheckEnqueue ==
    /\ pc = "enqueue" /\ mutex = "check"
    /\ pc' = "idle" /\ mutex' = "free"
    /\ IF signer.client
       THEN /\ Enqueue(buildAcmeStorages(items), {})
            /\ missed' = (missed /\ <<itemsAdd, itemsDel>> # <<NoStorages, NoStorages>>)
       ELSE UNCHANGED <<work, missed>>
    /\ UNCHANGED <<cluster, pending, storages, signer, leading, stray, counters>>

\* HAProxyUpdate commits the storages.
Commit ==
    /\ pc = "commit"
    /\ pc' = "idle" /\ mutex' = "free"
    /\ itemsAdd' = NoStorages /\ itemsDel' = NoStorages
    /\ synced' = "up"
    /\ UNCHANGED <<cluster, due, elected, check, items, accountConf, signer, leading,
                   work, history, counters>>

-----------------------------------------------------------------------------
(* The worker of the queue, and the signer.                                *)

\* The domains of the secret changed, and AcmeUpdate will add them.
Adding(s) == pc \in {"ensure", "newclient", "enqueue"} /\ itemsAdd[s] # None

\* stray: the secret has other domains by now, which were added before.  The item
\* was replaced by a full sync, which marks none, or it was pending twice and the
\* mark of its removal was used up.
Get(i) ==
    /\ queue = "running" /\ worker = Idle /\ i \in queued
    /\ queued' = queued \ {i}
    /\ forget' = forget \ {i}
    /\ worker' = IF i \in forget THEN Idle ELSE [pc |-> "notify", item |-> i]
    /\ stray' = (stray \/ (/\ i \notin forget /\ ~Adding(i[1])
                           /\ items[i[1]] \notin {None, i[2]}))
    /\ UNCHANGED <<cluster, pending, storages, model, leading, queue, waiting, missed,
                   counters>>

\* The callback failed: the item is added again after a delay.
Fail ==
    /\ worker' = Idle
    /\ waiting' = IF queue = "running" THEN waiting \cup {worker.item} ELSE waiting
    /\ UNCHANGED <<queue, queued, forget>>

\* Notify: HasAccount is checked here and the client is used later.
Notify ==
    /\ worker.pc = "notify"
    /\ IF signer.client THEN worker' = [worker EXCEPT !.pc = "verify"]
                              /\ UNCHANGED <<queue, queued, waiting, forget>>
                        ELSE Fail
    /\ UNCHANGED <<cluster, pending, storages, model, leading, history, counters>>

Valid(item) ==
    LET cert == certs[item[1]] IN Covers(cert, item[2]) /\ cert.fresh

\* verify: without a client the call panics, and no one recovers this goroutine.
Verify ==
    /\ worker.pc = "verify"
    /\ IF Valid(worker.item) \/ signer.client
       THEN /\ worker' = IF Valid(worker.item) THEN Idle ELSE [worker EXCEPT !.pc = "sign"]
            /\ UNCHANGED <<cluster, pending, storages, model, leading, queue, queued,
                           waiting, forget, history, changes, expired, failed>>
       ELSE Restart /\ UNCHANGED hasKey

\* The certificate is signed and stored.
Sign ==
    /\ worker.pc = "sign"
    /\ worker' = Idle
    /\ certs' = [certs EXCEPT ![worker.item[1]] =
                    [domains |-> worker.item[2], fresh |-> TRUE]]
    /\ UNCHANGED <<tracked, conf, hasKey, pending, storages, model, leading, queue,
                   queued, waiting, forget, history, counters>>

SignFails ==
    /\ worker.pc = "sign" /\ failed < MaxFail
    /\ failed' = failed + 1
    /\ Fail
    /\ UNCHANGED <<cluster, pending, storages, model, leading, history, changes, expired>>

Retry(i) ==
    /\ queue = "running" /\ i \in waiting
    /\ waiting' = waiting \ {i}
    /\ queued' = queued \cup {i}
    /\ UNCHANGED <<cluster, pending, storages, model, leading, queue, forget, worker,
                   history, counters>>

Item == Secret \X Domains

Updating == \/ AcmeAccount \/ NewClient \/ NewClientPanics \/ AcmeUpdate
            \/ AcmeCheckEnqueue \/ Commit
Syncing == (\E dirty \in SUBSET Secret : Reconcile(dirty)) \/ leaderChanged
Checking == acmeCheck \/ AcmeCheck
Working == (\E i \in Item : Get(i)) \/ Notify \/ Verify \/ Sign

Next ==
    \/ \E s \in Secret, domains \in Domains \cup {None} : Track(s, domains)
    \/ \E account \in Account \cup {None} : Configure(account)
    \/ \E s \in Secret : Expire(s)
    \/ Acquire \/ onStartedLeading \/ onStoppedLeading \/ ShutDown
    \/ Syncing \/ Checking \/ Updating \/ NewClientFails
    \/ Working \/ SignFails
    \/ \E i \in Item : Retry(i)

Spec == Init /\ [][Next]_vars

(***************************************************************************)
(* Goroutines that can run do run, the check is periodic and retry delays  *)
(* expire.  Nothing makes the lease change or the cluster do anything.     *)
(***************************************************************************)
FairSpec ==
    /\ Spec
    /\ WF_vars(onStartedLeading) /\ WF_vars(ShutDown)
    /\ SF_vars(Syncing) /\ SF_vars(AcmeCheck) /\ WF_vars(acmeCheck)
    /\ WF_vars(Updating) /\ WF_vars(Notify \/ Verify \/ Sign)
    /\ \A i \in Item : SF_vars(Get(i)) /\ WF_vars(Retry(i))

-----------------------------------------------------------------------------
Storage == [Secret -> Domains \cup {None}]
Cert == [domains : Domains, fresh : BOOLEAN]

ClusterTypes ==
    /\ tracked \in Storage /\ conf \in Account \cup {None}
    /\ certs \in [Secret -> Cert \cup {None}] /\ hasKey \in BOOLEAN
    /\ due \in {"none", "partial", "full"} /\ elected \in BOOLEAN
    /\ synced \in {"no", "running", "up"} /\ check \in BOOLEAN

SyncTypes ==
    /\ items \in Storage /\ itemsAdd \in Storage /\ itemsDel \in Storage
    /\ accountConf \in Account \cup {None}
    /\ mutex \in {"free", "loop", "leader", "check"}
    /\ pc \in {"idle", "ensure", "newclient", "enqueue", "commit"}
    /\ signer \in [account : Account \cup {None}, client : BOOLEAN]
    /\ lease \in {"waiting", "held", "lost"} /\ leader \in BOOLEAN

WorkTypes ==
    /\ queue \in {"new", "running", "stopping", "down"}
    /\ queued \subseteq Item /\ waiting \subseteq Item /\ forget \subseteq Item
    /\ worker \in [pc : {"notify", "verify", "sign"}, item : Item] \cup {Idle}
    /\ stray \in BOOLEAN /\ missed \in BOOLEAN

\* The variables keep their types; a client has the account it was made for.
TypeOK ==
    /\ ClusterTypes /\ SyncTypes /\ WorkTypes
    /\ signer.client => signer.account # None

Quiescent ==
    /\ due = "none" /\ ~elected /\ mutex = "free"
    /\ queued = {} /\ waiting = {} /\ worker = Idle

\* The certificate is verified whenever the list of the domains or the secret
\* changes, and when the leader changes: if the leader has nothing left to do,
\* before any periodic check, each secret has a certificate for its domains.
\* Excepted are changes that met no account, and requests that a full sync left
\* in the queue, which may store a certificate for domains nobody asks for.
ChangesVerified ==
    lease = "held" /\ Quiescent /\ ~missed /\ ~stray =>
        \A s \in Secret : tracked[s] # None => Covers(certs[s], tracked[s])

\* As long as a replica leads and has a client, each certificate that is missing,
\* outdated or about to expire is replaced, whatever was missed: the periodic
\* check finds it.
EventuallyVerified ==
    \A s \in Secret :
        []<>(\/ lease # "held" \/ ~signer.client
             \/ tracked[s] = None \/ Valid(<<s, tracked[s]>>))

\* The queue was shut down with requests left: the worker waits for the mutex of
\* the queue, and ShutDown, which has it, waits for the worker.
Stuck == queue = "stopping" /\ worker = Idle /\ queued # {}

\* A change of the cluster is applied, whatever the signer, the queue and the
\* lease do meanwhile, unless a lost lease found requests in the queue.
UpdatesContinue == []<>((due = "none" /\ mutex = "free") \/ Stuck)

=============================================================================
