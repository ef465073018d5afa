----------------------------- MODULE AcmeProofs -----------------------------
(***************************************************************************)
(* Safety of the acme client for any set of secrets, domains and accounts  *)
(* and any number of changes, expirations and failures: what the leader    *)
(* has to ask for is asked for without waiting for the periodic check.     *)
(***************************************************************************)
EXTENDS Acme, TLAPS

\* A leaf is for Zenon unless it names another prover.
USE ZenonT(90)

\* The model mutex is held from a sync, or a check, up to its last step, and
\* the account does not change meanwhile.
MutexInv ==
    /\ (mutex = "free") <=> (pc = "idle")
    /\ mutex = "check" => pc # "commit"
    /\ pc = "newclient" => accountConf # None

\* A replica that has the lease leads, and its queue runs; one that did not sync
\* has no storages.
LeaseInv ==
    /\ lease = "held" => leader /\ queue = "running"
    /\ synced = "no" => items = NoStorages

\* Between two syncs the storages are committed, during one they say how items
\* changed.
DiffInv ==
    ~missed =>
        /\ mutex \in {"free", "check"} => itemsAdd = NoStorages /\ itemsDel = NoStorages
        /\ \A s \in Secret : /\ itemsAdd[s] \in {None, items[s]}
                             /\ itemsDel[s] # None => itemsDel[s] # items[s]

\* A request for the domains of the secret is at the signer, or will get there.
Requested(s) ==
    LET i == <<s, items[s]>> IN
    \/ i \in (queued \cup waiting) \ forget
    \/ worker # Idle /\ worker.item = i

\* The certificate has the domains, and no request can replace it now.
Settled(s) ==
    Covers(certs[s], items[s]) /\ (worker = Idle \/ worker.item[1] # s)

\* What the leader tracks is about to be requested, requested or settled, and no
\* mark of an earlier removal is left that would drop the request.
Asked(s) ==
    \/ items[s] = None
    \/ Adding(s)
    \/ <<s, items[s]>> \notin forget /\ (Requested(s) \/ Settled(s))

\* Once the sync of a new leader ran, and but for what ChangesVerified excepts.
Leading == lease = "held" /\ ~elected /\ ~missed /\ ~stray

TrackedInv == Leading => \A s \in Secret : Asked(s)

IInv ==
    /\ TypeOK /\ MutexInv /\ LeaseInv
    /\ due = "none" => items = tracked
    /\ DiffInv /\ TrackedInv

-----------------------------------------------------------------------------
\* The storages after a sync, secret by secret: what did not change is neither
\* added nor removed.
LEMMA SyncStorages ==
    ASSUME TypeOK, NEW full \in BOOLEAN, NEW dirty \in SUBSET Secret, Sync(full, dirty)
    PROVE  /\ items' \in Storage /\ itemsAdd' \in Storage /\ itemsDel' \in Storage
           /\ \A s \in Secret :
                 /\ items'[s] = IF s \in dirty THEN tracked[s] ELSE items[s]
                 /\ full /\ s \in dirty => itemsAdd'[s] = tracked[s] /\ itemsDel'[s] = None
                 /\ ~full /\ itemsAdd[s] = None /\ itemsDel[s] = None =>
                       /\ itemsAdd'[s] = IF items'[s] = items[s] THEN None ELSE items'[s]
                       /\ itemsDel'[s] = IF items'[s] = items[s] THEN None ELSE items[s]
<1> USE DEF TypeOK, ClusterTypes, SyncTypes, Storage
<1> DEFINE add == [s \in Secret |->
                     IF s \in dirty /\ tracked[s] # None THEN tracked[s]
                     ELSE IF full THEN None ELSE itemsAdd[s]]
           del == [s \in Secret |->
                     IF full THEN None
                     ELSE IF s \in dirty /\ items[s] # None THEN items[s] ELSE itemsDel[s]]
           same == shrink(add, del)
<1>1. /\ items' = [s \in Secret |-> IF s \in dirty THEN tracked[s] ELSE items[s]]
      /\ itemsAdd' = Without(add, same) /\ itemsDel' = Without(del, same)
  BY DEF Sync
<1>2. /\ itemsAdd' = [s \in Secret |-> IF s \in same THEN None ELSE add[s]]
      /\ itemsDel' = [s \in Secret |-> IF s \in same THEN None ELSE del[s]]
  BY <1>1 DEF Without
<1>3. \A s \in Secret : s \in same <=> (del[s] # None /\ add[s] = del[s])
  BY DEF shrink
<1>4. items' \in Storage
  BY <1>1
<1>5. add \in Storage /\ del \in Storage
  OBVIOUS
<1>6. itemsAdd' \in Storage /\ itemsDel' \in Storage
  BY <1>2, <1>5
<1>7. ASSUME NEW s \in Secret
      PROVE  /\ items'[s] = IF s \in dirty THEN tracked[s] ELSE items[s]
             /\ itemsAdd'[s] = IF s \in same THEN None ELSE add[s]
             /\ itemsDel'[s] = IF s \in same THEN None ELSE del[s]
  BY <1>1, <1>2
<1>8. CASE full
  BY <1>3, <1>4, <1>6, <1>7, <1>8
<1>9. CASE ~full
  <2>1. ASSUME NEW s \in Secret, itemsAdd[s] = None, itemsDel[s] = None
        PROVE  /\ itemsAdd'[s] = IF items'[s] = items[s] THEN None ELSE items'[s]
               /\ itemsDel'[s] = IF items'[s] = items[s] THEN None ELSE items[s]
    <3>1. /\ add[s] = IF s \in dirty THEN tracked[s] ELSE None
          /\ del[s] = IF s \in dirty THEN items[s] ELSE None
      BY <1>9, <2>1
    <3> HIDE DEF add, del, same
    <3> QED
      BY <1>3, <1>7, <3>1
  <2> QED
    BY <1>4, <1>6, <1>7, <1>9, <2>1
<1> QED
  BY <1>8, <1>9

\* What is built of storages are items, those of the secrets that have domains.
LEMMA ItemsOf ==
    ASSUME NEW storage \in Storage
    PROVE  /\ buildAcmeStorages(storage) \subseteq Item
           /\ \A s \in Secret : \A d : <<s, d>> \in buildAcmeStorages(storage)
                                          <=> (d # None /\ d = storage[s])
  BY SMTT(90), AcmeAssumption DEF buildAcmeStorages, Storage, Item

\* A worker that is not idle has an item.
LEMMA WorkerItem ==
    ASSUME WorkTypes, worker # Idle
    PROVE  /\ worker.item \in Item /\ worker.item[1] \in Secret /\ worker.item[2] \in Domains
           /\ worker.item = <<worker.item[1], worker.item[2]>>
           /\ [worker EXCEPT !.pc = "verify"] = [pc |-> "verify", item |-> worker.item]
           /\ [worker EXCEPT !.pc = "sign"] = [pc |-> "sign", item |-> worker.item]
           /\ worker.pc \in {"notify", "verify", "sign"}
<1>1. worker \in [pc : {"notify", "verify", "sign"}, item : Item]
  BY DEF WorkTypes
<1> QED
  BY SMTT(90), <1>1 DEF Item

\* A process that starts again has all its types.
LEMMA RestartTypes ==
    ASSUME TypeOK, Restart
    PROVE  SyncTypes' /\ WorkTypes' /\ ~signer'.client
<1>1. /\ leader' \in BOOLEAN /\ ~leader' /\ stray' \in BOOLEAN /\ missed' \in BOOLEAN
  BY DEF Restart
<1>2. signer' \in [account : Account \cup {None}, client : BOOLEAN] /\ ~signer'.client
  BY DEF Restart, NoClient
<1>3. NoStorages \in Storage
  BY DEF NoStorages, Storage
<1>4. SyncTypes'
  BY <1>1, <1>2, <1>3 DEF Restart, SyncTypes
<1>5. WorkTypes'
  BY <1>1 DEF Restart, WorkTypes, Idle
<1> QED
  BY <1>2, <1>4, <1>5

\* Every step keeps the types of the cluster and of what is pending.
LEMMA ClusterTypesStep ==
    ASSUME TypeOK, [Next]_vars
    PROVE  ClusterTypes'
<1> USE AcmeAssumption DEF cluster, pending, TypeOK, ClusterTypes, Storage
<1>1. ASSUME NEW s \in Secret, NEW domains \in Domains \cup {None}, Track(s, domains)
      PROVE  ClusterTypes'
  BY <1>1 DEF Track
<1>2. ASSUME NEW account \in Account \cup {None}, Configure(account)
      PROVE  ClusterTypes'
  BY <1>2 DEF Configure
<1>3. ASSUME NEW s \in Secret, Expire(s)
      PROVE  ClusterTypes'
  <2>1. [certs[s] EXCEPT !.fresh = FALSE] \in Cert
    <3>1. certs[s] \in Cert
      BY <1>3 DEF Expire
    <3> QED
      BY <3>1 DEF Cert
  <2>2. certs' \in [Secret -> Cert \cup {None}]
    BY <1>3, <2>1 DEF Expire
  <2> QED
    BY <1>3, <2>2 DEF Expire
<1>4. CASE Acquire
  BY <1>4 DEF Acquire
<1>5. CASE onStartedLeading
  BY <1>5 DEF onStartedLeading
<1>6. CASE onStoppedLeading
  BY <1>6 DEF onStoppedLeading
<1>7. CASE ShutDown
  BY <1>7 DEF ShutDown
<1>8. ASSUME NEW dirty \in SUBSET Secret, Reconcile(dirty)
      PROVE  ClusterTypes'
  BY <1>8 DEF Reconcile, Sync
<1>9. CASE leaderChanged
  BY <1>9 DEF leaderChanged, Sync
<1>10. CASE acmeCheck
  BY <1>10 DEF acmeCheck
<1>11. CASE AcmeCheck
  BY <1>11 DEF AcmeCheck
<1>12. CASE AcmeAccount
  BY <1>12 DEF AcmeAccount
<1>13. CASE NewClient
  BY <1>13 DEF NewClient
<1>14. CASE NewClientFails
  BY <1>14 DEF NewClientFails
<1>15. CASE NewClientPanics
  BY <1>15 DEF NewClientPanics, Restart
<1>16. CASE AcmeUpdate
  BY <1>16 DEF AcmeUpdate
<1>17. CASE AcmeCheckEnqueue
  BY <1>17 DEF AcmeCheckEnqueue
<1>18. CASE Commit
  BY <1>18 DEF Commit
<1>19. ASSUME NEW i \in Item, Get(i)
      PROVE  ClusterTypes'
  BY <1>19 DEF Get
<1>20. CASE Notify
  BY <1>20 DEF Notify
<1>21. CASE Verify
  BY <1>21 DEF Verify, Restart
<1>22. CASE Sign
  <2>1. worker.item[1] \in Secret /\ worker.item[2] \in Domains
    BY SMTT(90), <1>22, WorkerItem DEF Sign, Idle
  <2>2. [domains |-> worker.item[2], fresh |-> TRUE] \in Cert
    BY <2>1 DEF Cert
  <2>3. certs' \in [Secret -> Cert \cup {None}]
    BY <1>22, <2>1, <2>2 DEF Sign
  <2> QED
    BY <1>22, <2>3 DEF Sign
<1>23. CASE SignFails
  BY <1>23 DEF SignFails
<1>24. ASSUME NEW i \in Item, Retry(i)
      PROVE  ClusterTypes'
  BY <1>24 DEF Retry
<1>25. CASE UNCHANGED vars
  BY <1>25 DEF vars
<1> QED
  BY <1>1, <1>2, <1>3, <1>4, <1>5, <1>6, <1>7, <1>8, <1>9, <1>10, <1>11, <1>12, <1>13, <1>14, <1>15,
     <1>16, <1>17, <1>18, <1>19, <1>20, <1>21, <1>22, <1>23, <1>24, <1>25
  DEF Next, Syncing, Checking, Updating, Working

\* Every step keeps the types of what the model mutex protects.
LEMMA SyncTypesStep ==
    ASSUME IInv, [Next]_vars
    PROVE  SyncTypes' /\ (signer'.client => signer'.account # None)
<1> USE AcmeAssumption DEF storages, model, leading, IInv, TypeOK, SyncTypes, MutexInv
<1>1. ASSUME NEW s \in Secret, NEW domains \in Domains \cup {None}, Track(s, domains)
      PROVE  SyncTypes' /\ (signer'.client => signer'.account # None)
  BY <1>1 DEF Track
<1>2. ASSUME NEW account \in Account \cup {None}, Configure(account)
      PROVE  SyncTypes' /\ (signer'.client => signer'.account # None)
  BY <1>2 DEF Configure
<1>3. ASSUME NEW s \in Secret, Expire(s)
      PROVE  SyncTypes' /\ (signer'.client => signer'.account # None)
  BY <1>3 DEF Expire
<1>4. CASE Acquire
  BY <1>4 DEF Acquire
<1>5. CASE onStartedLeading
  BY <1>5 DEF onStartedLeading
<1>6. CASE onStoppedLeading
  BY <1>6 DEF onStoppedLeading
<1>7. CASE ShutDown
  BY <1>7 DEF ShutDown
<1>8. ASSUME NEW dirty \in SUBSET Secret, Reconcile(dirty)
      PROVE  SyncTypes' /\ (signer'.client => signer'.account # None)
  <2> DEFINE full == due = "full"
  <2>1. Sync(full, dirty) /\ full \in BOOLEAN /\ mutex' = "loop"
    BY <1>8 DEF Reconcile
  <2>2. pc' \in {"ensure", "commit"} /\ UNCHANGED <<signer, leading>>
        /\ accountConf' \in {conf, accountConf}
    BY <2>1 DEF Sync
  <2> HIDE DEF full
  <2>3. items' \in Storage /\ itemsAdd' \in Storage /\ itemsDel' \in Storage
    BY <2>1, SyncStorages
  <2> QED
    BY <2>1, <2>2, <2>3 DEF ClusterTypes
<1>9. CASE leaderChanged
  <2>1. Sync(TRUE, Secret) /\ Secret \in SUBSET Secret /\ mutex' = "leader"
    BY <1>9 DEF leaderChanged
  <2>2. pc' \in {"ensure", "commit"} /\ UNCHANGED <<signer, leading>>
        /\ accountConf' \in {conf, accountConf}
    BY <2>1 DEF Sync
  <2>3. items' \in Storage /\ itemsAdd' \in Storage /\ itemsDel' \in Storage
    BY <2>1, SyncStorages
  <2> QED
    BY <2>1, <2>2, <2>3 DEF ClusterTypes
<1>10. CASE acmeCheck
  BY <1>10 DEF acmeCheck
<1>11. CASE AcmeCheck
  BY <1>11 DEF AcmeCheck
<1>12. CASE AcmeAccount
  BY <1>12 DEF AcmeAccount
<1>13. CASE NewClient
  BY <1>13 DEF NewClient
<1>14. CASE NewClientFails
  BY <1>14 DEF NewClientFails
<1>15. CASE NewClientPanics
  BY <1>15, RestartTypes DEF NewClientPanics
<1>16. CASE AcmeUpdate
  BY <1>16 DEF AcmeUpdate
<1>17. CASE AcmeCheckEnqueue
  BY <1>17 DEF AcmeCheckEnqueue
<1>18. CASE Commit
  BY <1>18 DEF Commit, Storage, NoStorages
<1>19. ASSUME NEW i \in Item, Get(i)
      PROVE  SyncTypes' /\ (signer'.client => signer'.account # None)
  BY <1>19 DEF Get
<1>20. CASE Notify
  BY <1>20 DEF Notify
<1>21. CASE Verify
  BY <1>21, RestartTypes DEF Verify
<1>22. CASE Sign
  BY <1>22 DEF Sign
<1>23. CASE SignFails
  BY <1>23 DEF SignFails
<1>24. ASSUME NEW i \in Item, Retry(i)
      PROVE  SyncTypes' /\ (signer'.client => signer'.account # None)
  BY <1>24 DEF Retry
<1>25. CASE UNCHANGED vars
  BY <1>25 DEF vars
<1> QED
  BY <1>1, <1>2, <1>3, <1>4, <1>5, <1>6, <1>7, <1>8, <1>9, <1>10, <1>11, <1>12, <1>13, <1>14, <1>15,
     <1>16, <1>17, <1>18, <1>19, <1>20, <1>21, <1>22, <1>23, <1>24, <1>25
  DEF Next, Syncing, Checking, Updating, Working

\* What is enqueued and what is forgotten are items.
LEMMA EnqueueTypes ==
    ASSUME WorkTypes, NEW adds \in SUBSET Item, NEW dels \in SUBSET Item, Enqueue(adds, dels)
    PROVE  /\ queued' \subseteq Item /\ forget' \subseteq Item
           /\ UNCHANGED <<queue, waiting, worker>>
BY DEF Enqueue, WorkTypes

\* Every step keeps the types of the queue and of its worker.
LEMMA WorkTypesStep ==
    ASSUME TypeOK, [Next]_vars
    PROVE  WorkTypes'
<1> USE DEF work, history, TypeOK, WorkTypes
<1>1. ASSUME NEW s \in Secret, NEW domains \in Domains \cup {None}, Track(s, domains)
      PROVE  WorkTypes'
  BY <1>1 DEF Track
<1>2. ASSUME NEW account \in Account \cup {None}, Configure(account)
      PROVE  WorkTypes'
  BY <1>2 DEF Configure
<1>3. ASSUME NEW s \in Secret, Expire(s)
      PROVE  WorkTypes'
  BY <1>3 DEF Expire
<1>4. CASE Acquire
  BY <1>4 DEF Acquire
<1>5. CASE onStartedLeading
  BY <1>5 DEF onStartedLeading
<1>6. CASE onStoppedLeading
  BY <1>6 DEF onStoppedLeading
<1>7. CASE ShutDown
  BY <1>7 DEF ShutDown
<1>8. ASSUME NEW dirty \in SUBSET Secret, Reconcile(dirty)
      PROVE  WorkTypes'
  BY <1>8 DEF Reconcile, Sync
<1>9. CASE leaderChanged
  BY <1>9 DEF leaderChanged, Sync
<1>10. CASE acmeCheck
  BY <1>10 DEF acmeCheck
<1>11. CASE AcmeCheck
  BY <1>11 DEF AcmeCheck
<1>12. CASE AcmeAccount
  BY <1>12 DEF AcmeAccount
<1>13. CASE NewClient
  BY <1>13 DEF NewClient
<1>14. CASE NewClientFails
  BY <1>14 DEF NewClientFails
<1>15. CASE NewClientPanics
  BY <1>15, RestartTypes DEF NewClientPanics
<1>16. CASE AcmeUpdate
  <2>1. CASE signer.client
    <3>1. buildAcmeStorages(itemsAdd) \in SUBSET Item /\ buildAcmeStorages(itemsDel) \in SUBSET Item
      BY ItemsOf DEF SyncTypes
    <3>2. /\ queued' \subseteq Item /\ forget' \subseteq Item
          /\ UNCHANGED <<queue, waiting, worker>>
      BY <1>16, <2>1, <3>1, EnqueueTypes DEF AcmeUpdate
    <3> QED
      BY <1>16, <2>1, <3>2 DEF AcmeUpdate
  <2>2. CASE ~signer.client
    BY <1>16, <2>2 DEF AcmeUpdate
  <2> QED
    BY <2>1, <2>2
<1>17. CASE AcmeCheckEnqueue
  <2>1. CASE signer.client
    <3>1. buildAcmeStorages(items) \in SUBSET Item /\ {} \in SUBSET Item
      BY ItemsOf DEF SyncTypes
    <3>2. /\ queued' \subseteq Item /\ forget' \subseteq Item
          /\ UNCHANGED <<queue, waiting, worker>>
      BY <1>17, <2>1, <3>1, EnqueueTypes DEF AcmeCheckEnqueue
    <3> QED
      BY <1>17, <2>1, <3>2 DEF AcmeCheckEnqueue
  <2>2. CASE ~signer.client
    BY <1>17, <2>2 DEF AcmeCheckEnqueue
  <2> QED
    BY <2>1, <2>2
<1>18. CASE Commit
  BY <1>18 DEF Commit
<1>19. ASSUME NEW i \in Item, Get(i)
      PROVE  WorkTypes'
  BY <1>19 DEF Get
<1>20. CASE Notify
  BY SMTT(90), <1>20, WorkerItem DEF Notify, Fail, Idle
<1>21. CASE Verify
  BY SMTT(90), <1>21, RestartTypes, WorkerItem DEF Verify, Idle
<1>22. CASE Sign
  BY <1>22 DEF Sign
<1>23. CASE SignFails
  BY SMTT(90), <1>23, WorkerItem DEF SignFails, Fail, Idle
<1>24. ASSUME NEW i \in Item, Retry(i)
      PROVE  WorkTypes'
  BY <1>24 DEF Retry
<1>25. CASE UNCHANGED vars
  BY <1>25 DEF vars
<1> QED
  BY <1>1, <1>2, <1>3, <1>4, <1>5, <1>6, <1>7, <1>8, <1>9, <1>10, <1>11, <1>12, <1>13, <1>14, <1>15,
     <1>16, <1>17, <1>18, <1>19, <1>20, <1>21, <1>22, <1>23, <1>24, <1>25
  DEF Next, Syncing, Checking, Updating, Working

\* Every step keeps the mutex with its holder.
LEMMA MutexStep ==
    ASSUME IInv, [Next]_vars
    PROVE  MutexInv'
<1> USE DEF storages, model, IInv, TypeOK, SyncTypes, MutexInv
<1>1. ASSUME NEW s \in Secret, NEW domains \in Domains \cup {None}, Track(s, domains)
      PROVE  MutexInv'
  BY <1>1 DEF Track
<1>2. ASSUME NEW account \in Account \cup {None}, Configure(account)
      PROVE  MutexInv'
  BY <1>2 DEF Configure
<1>3. ASSUME NEW s \in Secret, Expire(s)
      PROVE  MutexInv'
  BY <1>3 DEF Expire
<1>4. CASE Acquire
  BY <1>4 DEF Acquire
<1>5. CASE onStartedLeading
  BY <1>5 DEF onStartedLeading
<1>6. CASE onStoppedLeading
  BY <1>6 DEF onStoppedLeading
<1>7. CASE ShutDown
  BY <1>7 DEF ShutDown
<1>8. ASSUME NEW dirty \in SUBSET Secret, Reconcile(dirty)
      PROVE  MutexInv'
  BY <1>8 DEF Reconcile, Sync
<1>9. CASE leaderChanged
  BY <1>9 DEF leaderChanged, Sync
<1>10. CASE acmeCheck
  BY <1>10 DEF acmeCheck
<1>11. CASE AcmeCheck
  BY <1>11 DEF AcmeCheck
<1>12. CASE AcmeAccount
  BY <1>12 DEF AcmeAccount
<1>13. CASE NewClient
  BY <1>13 DEF NewClient
<1>14. CASE NewClientFails
  BY <1>14 DEF NewClientFails
<1>15. CASE NewClientPanics
  BY <1>15 DEF NewClientPanics, Restart
<1>16. CASE AcmeUpdate
  BY <1>16 DEF AcmeUpdate, Enqueue
<1>17. CASE AcmeCheckEnqueue
  BY <1>17 DEF AcmeCheckEnqueue, Enqueue
<1>18. CASE Commit
  BY <1>18 DEF Commit
<1>19. ASSUME NEW i \in Item, Get(i)
      PROVE  MutexInv'
  BY <1>19 DEF Get
<1>20. CASE Notify
  BY <1>20 DEF Notify, Fail
<1>21. CASE Verify
  BY <1>21 DEF Verify, Restart
<1>22. CASE Sign
  BY <1>22 DEF Sign
<1>23. CASE SignFails
  BY <1>23 DEF SignFails, Fail
<1>24. ASSUME NEW i \in Item, Retry(i)
      PROVE  MutexInv'
  BY <1>24 DEF Retry
<1>25. CASE UNCHANGED vars
  BY <1>25 DEF vars
<1> QED
  BY <1>1, <1>2, <1>3, <1>4, <1>5, <1>6, <1>7, <1>8, <1>9, <1>10, <1>11, <1>12, <1>13, <1>14, <1>15,
     <1>16, <1>17, <1>18, <1>19, <1>20, <1>21, <1>22, <1>23, <1>24, <1>25
  DEF Next, Syncing, Checking, Updating, Working

\* Every step keeps the queue running while the lease is held.
LEMMA LeaseStep ==
    ASSUME IInv, [Next]_vars
    PROVE  LeaseInv'
<1> USE DEF pending, storages, leading, work, IInv, TypeOK, ClusterTypes, LeaseInv
<1>1. ASSUME NEW s \in Secret, NEW domains \in Domains \cup {None}, Track(s, domains)
      PROVE  LeaseInv'
  BY <1>1 DEF Track
<1>2. ASSUME NEW account \in Account \cup {None}, Configure(account)
      PROVE  LeaseInv'
  BY <1>2 DEF Configure
<1>3. ASSUME NEW s \in Secret, Expire(s)
      PROVE  LeaseInv'
  BY <1>3 DEF Expire
<1>4. CASE Acquire
  BY <1>4 DEF Acquire
<1>5. CASE onStartedLeading
  BY <1>5 DEF onStartedLeading
<1>6. CASE onStoppedLeading
  BY <1>6 DEF onStoppedLeading
<1>7. CASE ShutDown
  BY <1>7 DEF ShutDown
<1>8. ASSUME NEW dirty \in SUBSET Secret, Reconcile(dirty)
      PROVE  LeaseInv'
  BY <1>8 DEF Reconcile, Sync
<1>9. CASE leaderChanged
  BY <1>9 DEF leaderChanged, Sync
<1>10. CASE acmeCheck
  BY <1>10 DEF acmeCheck
<1>11. CASE AcmeCheck
  BY <1>11 DEF AcmeCheck
<1>12. CASE AcmeAccount
  BY <1>12 DEF AcmeAccount
<1>13. CASE NewClient
  BY <1>13 DEF NewClient
<1>14. CASE NewClientFails
  BY <1>14 DEF NewClientFails
<1>15. CASE NewClientPanics
  BY <1>15 DEF NewClientPanics, Restart
<1>16. CASE AcmeUpdate
  BY <1>16 DEF AcmeUpdate, Enqueue
<1>17. CASE AcmeCheckEnqueue
  BY <1>17 DEF AcmeCheckEnqueue, Enqueue
<1>18. CASE Commit
  BY <1>18 DEF Commit
<1>19. ASSUME NEW i \in Item, Get(i)
      PROVE  LeaseInv'
  BY <1>19 DEF Get
<1>20. CASE Notify
  BY <1>20 DEF Notify, Fail
<1>21. CASE Verify
  BY <1>21 DEF Verify, Restart
<1>22. CASE Sign
  BY <1>22 DEF Sign
<1>23. CASE SignFails
  BY <1>23 DEF SignFails, Fail
<1>24. ASSUME NEW i \in Item, Retry(i)
      PROVE  LeaseInv'
  BY <1>24 DEF Retry
<1>25. CASE UNCHANGED vars
  BY <1>25 DEF vars
<1> QED
  BY <1>1, <1>2, <1>3, <1>4, <1>5, <1>6, <1>7, <1>8, <1>9, <1>10, <1>11, <1>12, <1>13, <1>14, <1>15,
     <1>16, <1>17, <1>18, <1>19, <1>20, <1>21, <1>22, <1>23, <1>24, <1>25
  DEF Next, Syncing, Checking, Updating, Working

\* Every step keeps the record of what changed.
LEMMA DiffStep ==
    ASSUME IInv, [Next]_vars
    PROVE  DiffInv'
<1> USE DEF storages, model, history, IInv, TypeOK, SyncTypes, Storage, NoStorages, MutexInv, DiffInv
<1>1. ASSUME NEW s \in Secret, NEW domains \in Domains \cup {None}, Track(s, domains)
      PROVE  DiffInv'
  BY <1>1 DEF Track
<1>2. ASSUME NEW account \in Account \cup {None}, Configure(account)
      PROVE  DiffInv'
  BY <1>2 DEF Configure
<1>3. ASSUME NEW s \in Secret, Expire(s)
      PROVE  DiffInv'
  BY <1>3 DEF Expire
<1>4. CASE Acquire
  BY <1>4 DEF Acquire
<1>5. CASE onStartedLeading
  BY <1>5 DEF onStartedLeading
<1>6. CASE onStoppedLeading
  BY <1>6 DEF onStoppedLeading
<1>7. CASE ShutDown
  BY <1>7 DEF ShutDown
<1>8. ASSUME NEW dirty \in SUBSET Secret, Reconcile(dirty)
      PROVE  DiffInv'
  <2> SUFFICES ASSUME ~missed'
               PROVE  /\ mutex' \notin {"free", "check"}
                      /\ \A s \in Secret : /\ itemsAdd'[s] \in {None, items'[s]}
                                           /\ itemsDel'[s] # None => itemsDel'[s] # items'[s]
    OBVIOUS
  <2> DEFINE full == due = "full"
  <2>1. Sync(full, dirty) /\ full \in BOOLEAN /\ mutex' = "loop" /\ (full => dirty = Secret)
    BY <1>8 DEF Reconcile
  <2>2. itemsAdd = NoStorages /\ itemsDel = NoStorages
    BY <2>1 DEF Sync
  <2> HIDE DEF full
  <2> QED
    BY SMTT(90), <2>1, <2>2, SyncStorages
<1>9. CASE leaderChanged
  <2> SUFFICES ASSUME ~missed'
               PROVE  /\ mutex' \notin {"free", "check"}
                      /\ \A s \in Secret : /\ itemsAdd'[s] \in {None, items'[s]}
                                           /\ itemsDel'[s] # None => itemsDel'[s] # items'[s]
    OBVIOUS
  <2>1. Sync(TRUE, Secret) /\ Secret \in SUBSET Secret /\ mutex' = "leader"
    BY <1>9 DEF leaderChanged
  <2> QED
    BY <2>1, SyncStorages
<1>10. CASE acmeCheck
  BY <1>10 DEF acmeCheck
<1>11. CASE AcmeCheck
  BY <1>11 DEF AcmeCheck
<1>12. CASE AcmeAccount
  BY <1>12 DEF AcmeAccount
<1>13. CASE NewClient
  BY <1>13 DEF NewClient
<1>14. CASE NewClientFails
  BY <1>14 DEF NewClientFails
<1>15. CASE NewClientPanics
  BY <1>15 DEF NewClientPanics, Restart
<1>16. CASE AcmeUpdate
  BY <1>16 DEF AcmeUpdate, Enqueue
<1>17. CASE AcmeCheckEnqueue
  BY <1>17 DEF AcmeCheckEnqueue, Enqueue
<1>18. CASE Commit
  BY <1>18 DEF Commit
<1>19. ASSUME NEW i \in Item, Get(i)
      PROVE  DiffInv'
  BY <1>19 DEF Get
<1>20. CASE Notify
  BY <1>20 DEF Notify, Fail
<1>21. CASE Verify
  BY <1>21 DEF Verify, Restart
<1>22. CASE Sign
  BY <1>22 DEF Sign
<1>23. CASE SignFails
  BY <1>23 DEF SignFails, Fail
<1>24. ASSUME NEW i \in Item, Retry(i)
      PROVE  DiffInv'
  BY <1>24 DEF Retry
<1>25. CASE UNCHANGED vars
  BY <1>25 DEF vars
<1> QED
  BY <1>1, <1>2, <1>3, <1>4, <1>5, <1>6, <1>7, <1>8, <1>9, <1>10, <1>11, <1>12, <1>13, <1>14, <1>15,
     <1>16, <1>17, <1>18, <1>19, <1>20, <1>21, <1>22, <1>23, <1>24, <1>25
  DEF Next, Syncing, Checking, Updating, Working

\* Every step keeps the storages those of the cluster, or a sync to come.
LEMMA CurrentStep ==
    ASSUME IInv, [Next]_vars
    PROVE  (due = "none" => items = tracked)'
<1> USE DEF cluster, pending, storages, IInv, TypeOK, ClusterTypes, SyncTypes, Storage
<1>1. ASSUME NEW s \in Secret, NEW domains \in Domains \cup {None}, Track(s, domains)
      PROVE  (due = "none" => items = tracked)'
  BY <1>1 DEF Track
<1>2. ASSUME NEW account \in Account \cup {None}, Configure(account)
      PROVE  (due = "none" => items = tracked)'
  BY <1>2 DEF Configure
<1>3. ASSUME NEW s \in Secret, Expire(s)
      PROVE  (due = "none" => items = tracked)'
  BY <1>3 DEF Expire
<1>4. CASE Acquire
  BY <1>4 DEF Acquire
<1>5. CASE onStartedLeading
  BY <1>5 DEF onStartedLeading
<1>6. CASE onStoppedLeading
  BY <1>6 DEF onStoppedLeading
<1>7. CASE ShutDown
  BY <1>7 DEF ShutDown
<1>8. ASSUME NEW dirty \in SUBSET Secret, Reconcile(dirty)
      PROVE  (due = "none" => items = tracked)'
  BY <1>8 DEF Reconcile, Sync
<1>9. CASE leaderChanged
  BY <1>9 DEF leaderChanged, Sync
<1>10. CASE acmeCheck
  BY <1>10 DEF acmeCheck
<1>11. CASE AcmeCheck
  BY <1>11 DEF AcmeCheck
<1>12. CASE AcmeAccount
  BY <1>12 DEF AcmeAccount
<1>13. CASE NewClient
  BY <1>13 DEF NewClient
<1>14. CASE NewClientFails
  BY <1>14 DEF NewClientFails
<1>15. CASE NewClientPanics
  BY <1>15 DEF NewClientPanics, Restart
<1>16. CASE AcmeUpdate
  BY <1>16 DEF AcmeUpdate
<1>17. CASE AcmeCheckEnqueue
  BY <1>17 DEF AcmeCheckEnqueue
<1>18. CASE Commit
  BY <1>18 DEF Commit
<1>19. ASSUME NEW i \in Item, Get(i)
      PROVE  (due = "none" => items = tracked)'
  BY <1>19 DEF Get
<1>20. CASE Notify
  BY <1>20 DEF Notify
<1>21. CASE Verify
  BY <1>21 DEF Verify, Restart
<1>22. CASE Sign
  BY <1>22 DEF Sign
<1>23. CASE SignFails
  BY <1>23 DEF SignFails
<1>24. ASSUME NEW i \in Item, Retry(i)
      PROVE  (due = "none" => items = tracked)'
  BY <1>24 DEF Retry
<1>25. CASE UNCHANGED vars
  BY <1>25 DEF vars
<1> QED
  BY <1>1, <1>2, <1>3, <1>4, <1>5, <1>6, <1>7, <1>8, <1>9, <1>10, <1>11, <1>12, <1>13, <1>14, <1>15,
     <1>16, <1>17, <1>18, <1>19, <1>20, <1>21, <1>22, <1>23, <1>24, <1>25
  DEF Next, Syncing, Checking, Updating, Working

\* Every step keeps what the leader has to ask for asked for.
LEMMA TrackedStep ==
    ASSUME IInv, [Next]_vars
    PROVE  TrackedInv'
<1> USE DEF IInv, TypeOK
<1> SUFFICES ASSUME Leading', NEW x \in Secret PROVE Asked(x)'
  BY DEF TrackedInv
<1>l. lease = "held" /\ ~elected /\ ~missed /\ ~stray => Asked(x)
  BY DEF TrackedInv, Leading
<1> USE DEF cluster, pending, storages, model, leading, work, history, Leading,
        Asked, Adding, Requested, Settled, Covers, WorkTypes
<1>1. ASSUME NEW s \in Secret, NEW domains \in Domains \cup {None}, Track(s, domains)
      PROVE  Asked(x)'
  BY <1>1, <1>l DEF Track
<1>2. ASSUME NEW account \in Account \cup {None}, Configure(account)
      PROVE  Asked(x)'
  BY <1>2, <1>l DEF Configure
<1>3. ASSUME NEW s \in Secret, Expire(s)
      PROVE  Asked(x)'
  <2>1. certs'[x] # None <=> certs[x] # None
    <3>1. certs[s] \in Cert
      BY <1>3 DEF Expire, ClusterTypes
    <3>2. [certs[s] EXCEPT !.fresh = FALSE] \in Cert
      BY <3>1 DEF Cert
    <3> QED
      BY <1>3, <3>2, AcmeAssumption DEF Expire, ClusterTypes, Cert
  <2>2. certs[x] # None => certs'[x].domains = certs[x].domains
    BY <1>3 DEF Expire, ClusterTypes, Cert
  <2> QED
    BY <1>3, <1>l, <2>1, <2>2 DEF Expire
<1>4. CASE Acquire
  BY <1>4, <1>l DEF Acquire
<1>5. CASE onStartedLeading
  BY <1>5, <1>l DEF onStartedLeading, LeaseInv, NoStorages
<1>6. CASE onStoppedLeading
  BY <1>6, <1>l DEF onStoppedLeading
<1>7. CASE ShutDown
  BY <1>7, <1>l DEF ShutDown
<1>8. ASSUME NEW dirty \in SUBSET Secret, Reconcile(dirty)
      PROVE  Asked(x)'
  <2> DEFINE full == due = "full"
  <2>1. Sync(full, dirty) /\ full \in BOOLEAN /\ (full => dirty = Secret) /\ UNCHANGED elected
    BY <1>8 DEF Reconcile
  <2> HIDE DEF full
  <2>2. pc' = "ensure" /\ pc = "idle" /\ UNCHANGED <<cluster, leading, work, history>>
    BY <2>1 DEF Sync, LeaseInv, MutexInv
  <2>3. itemsAdd = NoStorages /\ itemsDel = NoStorages
    BY SMTT(90), <2>1, <2>2 DEF Sync, DiffInv
  <2>4. full => itemsAdd'[x] = items'[x]
    BY <2>1, SyncStorages
  <2>5. ~full => itemsAdd'[x] = IF items'[x] = items[x] THEN None ELSE items'[x]
    BY SMTT(90), <2>1, <2>3, SyncStorages DEF NoStorages
  <2> QED
    BY <1>l, <2>1, <2>2, <2>4, <2>5
<1>9. CASE leaderChanged
  <2>1. Sync(TRUE, Secret) /\ Secret \in SUBSET Secret
    BY <1>9 DEF leaderChanged
  <2>2. pc' = "ensure"
    BY <2>1 DEF Sync, LeaseInv
  <2>3. itemsAdd'[x] = items'[x]
    BY <2>1, SyncStorages
  <2> QED
    BY <2>2, <2>3
<1>10. CASE acmeCheck
  BY <1>10, <1>l DEF acmeCheck
<1>11. CASE AcmeCheck
  BY <1>11, <1>l DEF AcmeCheck
<1>12. CASE AcmeAccount
  BY <1>12, <1>l DEF AcmeAccount
<1>13. CASE NewClient
  BY <1>13, <1>l DEF NewClient
<1>14. CASE NewClientFails
  BY <1>14, <1>l DEF NewClientFails
<1>15. CASE NewClientPanics
  BY <1>15, <1>l DEF NewClientPanics, Restart
<1>16. CASE AcmeUpdate
  <2> DEFINE adds == buildAcmeStorages(itemsAdd)
             dels == buildAcmeStorages(itemsDel)
  <2>1. leader /\ queue = "running" /\ ~missed /\ Asked(x)
    BY <1>16, <1>l DEF AcmeUpdate, LeaseInv
  <2>2. itemsAdd[x] \in {None, items[x]} /\ itemsDel[x] \in {None} \cup Domains
        /\ (itemsDel[x] # None => itemsDel[x] # items[x])
    BY <2>1 DEF DiffInv, SyncTypes, Storage
  <2>3. CASE signer.client
    <3>1. queued' = queued \cup adds /\ forget' = (forget \ adds) \cup dels
          /\ UNCHANGED <<items, waiting, worker, certs>>
      BY <1>16, <2>1, <2>3 DEF AcmeUpdate, Enqueue
    <3>2. <<x, items[x]>> \notin dels
      BY <2>2, ItemsOf DEF SyncTypes
    <3>3. itemsAdd[x] # None => <<x, items[x]>> \in adds
      BY <2>2, ItemsOf DEF SyncTypes
    <3> HIDE DEF adds, dels
    <3> QED
      BY <2>1, <3>1, <3>2, <3>3
  <2>4. CASE ~signer.client
    <3>1. itemsAdd[x] = None
      BY <1>16, <2>4 DEF AcmeUpdate, NoStorages
    <3> QED
      BY <1>16, <2>1, <2>4, <3>1 DEF AcmeUpdate
  <2> QED
    BY <2>3, <2>4
<1>17. CASE AcmeCheckEnqueue
  <2>1. CASE signer.client
    <3>1. leader /\ queue = "running"
      BY <1>17 DEF AcmeCheckEnqueue, LeaseInv
    <3>2. queued' = queued \cup buildAcmeStorages(items) /\ forget' = forget \ buildAcmeStorages(items)
          /\ UNCHANGED items
      BY <1>17, <2>1, <3>1 DEF AcmeCheckEnqueue, Enqueue
    <3>3. items[x] # None => <<x, items[x]>> \in buildAcmeStorages(items)
      BY ItemsOf DEF SyncTypes
    <3> QED
      BY <3>2, <3>3
  <2>2. CASE ~signer.client
    <3>1. itemsAdd[x] = None
      BY <1>17, <2>2 DEF AcmeCheckEnqueue, DiffInv, NoStorages
    <3> QED
      BY <1>17, <1>l, <2>2, <3>1 DEF AcmeCheckEnqueue
  <2> QED
    BY <2>1, <2>2
<1>18. CASE Commit
  BY <1>18, <1>l DEF Commit
<1>19. ASSUME NEW i \in Item, Get(i)
      PROVE  Asked(x)'
  <2>1. Asked(x) /\ worker = Idle /\ UNCHANGED <<items, itemsAdd, pc, waiting, certs>>
    BY <1>19, <1>l DEF Get
  <2>2. i = <<i[1], i[2]>> /\ i[1] \in Secret /\ i[2] \in Domains
    BY SMTT(90) DEF Item
  <2>3. CASE i \in forget
    BY <1>19, <2>1, <2>3 DEF Get
  <2>4. CASE i \notin forget
    <3>1. worker' = [pc |-> "notify", item |-> i] /\ worker' # Idle /\ worker'.item = i
      BY <1>19, <2>4 DEF Get, Idle
    <3>2. Adding(i[1]) \/ items[i[1]] \in {None, i[2]}
      BY <1>19, <2>4 DEF Get
    <3>3. queued' = queued \ {i} /\ forget' = forget \ {i}
      BY <1>19 DEF Get
    <3>4. CASE i[1] = x
      BY <2>1, <2>2, <2>4, <3>1, <3>2, <3>3, <3>4
    <3>5. CASE i[1] # x
      BY <2>1, <2>2, <2>4, <3>1, <3>3, <3>5
    <3> QED
      BY <3>4, <3>5
  <2> QED
    BY <2>3, <2>4
<1>20. CASE Notify
  <2>1. Asked(x) /\ queue = "running" /\ worker # Idle
    BY SMTT(90), <1>20, <1>l DEF Notify, LeaseInv, Idle
  <2>2. CASE signer.client
    <3>1. worker' # Idle /\ worker'.item = worker.item
      BY SMTT(90), <1>20, <2>1, <2>2, WorkerItem DEF Notify, Idle
    <3> QED
      BY <1>20, <2>1, <2>2, <3>1 DEF Notify
  <2>3. CASE ~signer.client
    BY <1>20, <2>1, <2>3 DEF Notify, Fail
  <2> QED
    BY <2>2, <2>3
<1>21. CASE Verify
  <2>1. Asked(x) /\ worker # Idle /\ lease' = "held"
    BY SMTT(90), <1>21, <1>l DEF Verify, Restart, Idle
  <2>2. CASE Valid(worker.item)
    <3>1. worker' = Idle /\ UNCHANGED <<items, itemsAdd, pc, queued, waiting, forget, certs>>
      BY <1>21, <2>2 DEF Verify
    <3>2. worker.item = <<x, items[x]>> => Covers(certs[x], items[x])
      BY SMTT(90), <2>2 DEF Valid
    <3> QED
      BY <2>1, <3>1, <3>2
  <2>3. CASE ~Valid(worker.item)
    <3>1. /\ worker' # Idle /\ worker'.item = worker.item
          /\ UNCHANGED <<items, itemsAdd, pc, queued, waiting, forget, certs>>
      BY SMTT(90), <1>21, <2>1, <2>3, WorkerItem DEF Verify, Restart, Idle
    <3> QED
      BY <2>1, <3>1
  <2> QED
    BY <2>2, <2>3
<1>22. CASE Sign
  <2> DEFINE cert == [domains |-> worker.item[2], fresh |-> TRUE]
  <2>1. Asked(x) /\ worker # Idle /\ UNCHANGED <<items, itemsAdd, pc, queued, waiting, forget>>
    BY SMTT(90), <1>22, <1>l DEF Sign, Idle
  <2>2. certs' = [certs EXCEPT ![worker.item[1]] = cert] /\ worker' = Idle
    BY <1>22 DEF Sign
  <2>3. cert \in Cert /\ cert # None /\ cert.domains = worker.item[2]
    <3>1. worker.item[2] \in Domains
      BY <2>1, WorkerItem
    <3>2. cert \in [domains : Domains, fresh : BOOLEAN]
      BY <3>1
    <3> QED
      BY <3>2, AcmeAssumption DEF Cert
  <2> HIDE DEF cert
  <2>4. CASE worker.item = <<x, items[x]>>
    <3>1. certs'[x] = cert /\ cert.domains = items[x]
      BY SMTT(90), <2>2, <2>3, <2>4 DEF ClusterTypes
    <3>2. Covers(certs'[x], items[x])
      BY <2>3, <3>1
    <3> QED
      BY <2>1, <2>2, <3>2
  <2>5. CASE worker.item # <<x, items[x]>>
    <3>1. worker.item[1] # x => certs'[x] = certs[x]
      BY <2>2 DEF ClusterTypes
    <3> QED
      BY <2>1, <2>2, <2>5, <3>1
  <2> QED
    BY <2>4, <2>5
<1>23. CASE SignFails
  <2>1. Asked(x) /\ queue = "running" /\ worker # Idle
    BY SMTT(90), <1>23, <1>l DEF SignFails, LeaseInv, Idle
  <2> QED
    BY <1>23, <2>1 DEF SignFails, Fail
<1>24. ASSUME NEW i \in Item, Retry(i)
      PROVE  Asked(x)'
  BY <1>24, <1>l DEF Retry
<1>25. CASE UNCHANGED vars
  BY <1>25, <1>l DEF vars
<1> QED
  BY <1>1, <1>2, <1>3, <1>4, <1>5, <1>6, <1>7, <1>8, <1>9, <1>10, <1>11, <1>12, <1>13, <1>14, <1>15,
     <1>16, <1>17, <1>18, <1>19, <1>20, <1>21, <1>22, <1>23, <1>24, <1>25
  DEF Next, Syncing, Checking, Updating, Working

-----------------------------------------------------------------------------
\* The invariant of every behaviour of the syncs, the checks and the queue: what
\* a leader tracks is about to be requested, requested or has its certificate.
THEOREM IInvHolds == Spec => []IInv
<1>1. Init => IInv
  <2> SUFFICES ASSUME Init PROVE IInv
    OBVIOUS
  <2>1. /\ elected \in BOOLEAN /\ check \in BOOLEAN /\ leader \in BOOLEAN
        /\ stray \in BOOLEAN /\ missed \in BOOLEAN
    BY DEF Init
  <2>2. signer \in [account : Account \cup {None}, client : BOOLEAN] /\ ~signer.client
    BY DEF Init, NoClient
  <2>3. NoStorages \in Storage
    BY DEF NoStorages, Storage
  <2>4. ClusterTypes
    BY <2>1 DEF Init, ClusterTypes, Storage
  <2>5. SyncTypes
    BY <2>1, <2>2, <2>3 DEF Init, SyncTypes
  <2>6. WorkTypes
    BY <2>1 DEF Init, WorkTypes
  <2>7. MutexInv /\ LeaseInv /\ DiffInv /\ TrackedInv
    BY DEF Init, MutexInv, LeaseInv, DiffInv, NoStorages, TrackedInv, Leading
  <2> QED
    BY <2>2, <2>4, <2>5, <2>6, <2>7 DEF Init, IInv, TypeOK
<1>2. IInv /\ [Next]_vars => IInv'
  <2> SUFFICES ASSUME IInv, [Next]_vars PROVE IInv'
    OBVIOUS
  <2>1. TypeOK'
    BY ClusterTypesStep, SyncTypesStep, WorkTypesStep DEF IInv, TypeOK
  <2> QED
    BY <2>1, MutexStep, LeaseStep, DiffStep, CurrentStep, TrackedStep DEF IInv
<1> QED
  BY <1>1, <1>2, PTL DEF Spec

\* The storages, the queue and the signer keep their types; a client has the
\* account it was made for, although AcmeAccount clears one before the other.
THEOREM TypeCorrect == Spec => []TypeOK
<1>1. IInv => TypeOK
  BY DEF IInv
<1> QED
  BY <1>1, IInvHolds, PTL

\* Whatever syncs, elections, retries, failures and panics happened: when the
\* leader has nothing left to do, each secret has a certificate for the domains
\* it has now, but for what ChangesVerified excepts.
THEOREM ChangesVerifiedCorrect == Spec => []ChangesVerified
<1>1. IInv => ChangesVerified
  <2> SUFFICES ASSUME IInv, lease = "held", Quiescent, ~missed, ~stray,
                      NEW s \in Secret, tracked[s] # None
               PROVE  Covers(certs[s], tracked[s])
    BY DEF ChangesVerified
  <2>1. Leading /\ items = tracked /\ pc = "idle"
    BY DEF IInv, Quiescent, Leading, MutexInv
  <2>2. Asked(s) /\ ~Adding(s) /\ items[s] # None
    BY <2>1 DEF IInv, TrackedInv, Adding
  <2>3. ~Requested(s)
    BY DEF Requested, Quiescent
  <2> QED
    BY <2>1, <2>2, <2>3 DEF Asked, Settled
<1> QED
  BY <1>1, IInvHolds, PTL

=============================================================================
