--------------------------- MODULE BackendsProofs ---------------------------
(***************************************************************************)
(* Backends.tla for any set of backends, shards and endpoints: the maps of *)
(* added and deleted backends are exactly the difference to the last       *)
(* commit, whatever fails, and the shard files follow the model as long as *)
(* the syncs are partial and the files can be written.                     *)
(***************************************************************************)
EXTENDS Backends, FiniteSetTheorems, TLAPS

\* A leaf is for Zenon unless it names another prover.
USE ZenonT(90)

\* The pending changes are in the maps and flag their shards.
Pending == Dom(itemsAdd) \cup Dom(itemsDel)

\* The inductive invariant of all syncs.
IInv ==
    /\ TypeOK
    /\ ShardsMirrorItems
    /\ DiffExact
    /\ phase = "idle" => itemsAdd = Nothing /\ itemsDel = Nothing /\ committed = items
    /\ phase = "write" => \A id \in Id : itemsAdd[id] # Nil => items[id] # Nil

\* Backends have finitely many endpoints, and so slots.
LEMMA CardinalityNat == \A b \in Backend : Cardinality(b.eps) \in Nat /\ Slots(b) \in Nat
<1> SUFFICES ASSUME NEW b \in Backend
             PROVE  Cardinality(b.eps) \in Nat /\ Slots(b) \in Nat
  OBVIOUS
<1>1. b.eps \subseteq Ep /\ b.free \in Nat
  BY DEF Backend
<1>2. IsFiniteSet(b.eps)
  BY <1>1, FS_Subset, BackendsAssumption
<1>3. Cardinality(b.eps) \in Nat
  BY <1>2, FS_CardinalityType
<1> QED
  BY SMTT(90), <1>1, <1>3 DEF Slots

\* Refilling the slots of a backend gives a backend.
LEMMA RefillType ==
    ASSUME NEW b \in Backend, NEW n \in Nat, n >= Slots(b)
    PROVE  Refill(b, n) \in Backend
BY SMTT(90), CardinalityNat DEF Refill, Backend, Slots

\* What the last block of slots uses, less one, is below a block.
LEMMA LastBlock ==
    ASSUME NEW len \in Nat
    PROVE  ((len + BlockSize - 1) % BlockSize) \in 0..(BlockSize - 1)
BY SMTT(90), BackendsAssumption

\* alignSlots gives a backend.
LEMMA AlignedType == \A b \in Backend : Aligned(b) \in Backend
<1> SUFFICES ASSUME NEW b \in Backend PROVE Aligned(b) \in Backend
  OBVIOUS
<1> DEFINE free == IF b.free < MinFree THEN MinFree ELSE b.free
           len == Cardinality(b.eps) + free
           last == (len + BlockSize - 1) % BlockSize
<1>1. b.free \in Nat /\ free \in Nat /\ len \in Nat
  BY SMTT(90), CardinalityNat, BackendsAssumption DEF Backend
<1>2. last \in 0..(BlockSize - 1)
  BY <1>1, LastBlock
<1>3. free + BlockSize - (last + 1) \in Nat
  BY SMTT(90), <1>1, <1>2, BackendsAssumption
<1>4. BlockSize \in Nat
  BY BackendsAssumption
<1> HIDE DEF last
<1>5. /\ [b EXCEPT !.free = BlockSize] \in Backend
      /\ [b EXCEPT !.free = free + BlockSize - (last + 1)] \in Backend
  BY <1>3, <1>4 DEF Backend
<1> QED
  BY <1>5 DEF Aligned, last

\* An absent backend is neither a backend nor a name.
LEMMA NilNotBackend == Nil \notin Backend /\ Nil \notin Id
BY BackendsAssumption DEF Backend

\* A new model is empty, as is the last commit.
LEMMA InitIInv == Init => IInv
BY NilNotBackend DEF Init, IInv, TypeOK, ShardsMirrorItems, DiffExact, Nothing, Map

\* Every call on the backends keeps the difference and the shards exact.
LEMMA NextIInv == IInv /\ [Next]_vars => IInv'
<1> SUFFICES ASSUME IInv, [Next]_vars PROVE IInv'
  OBVIOUS
<1> USE DEF IInv, TypeOK, ShardsMirrorItems
<1> USE NilNotBackend
<1>0. NewBackend \subseteq Backend
  BY SMTT(90) DEF NewBackend, Backend
<1>1. ASSUME NEW ids \in SUBSET Id, RemoveAll(ids)
      PROVE  IInv'
  <2>1. TypeOK'
    BY SMTT(90), <1>1, BackendsAssumption DEF RemoveAll, Map, Dom, ShardsOf
  <2>2. DiffExact'
    BY <1>1 DEF RemoveAll, DiffExact, Dom, Nothing, Map
  <2> QED
    BY <1>1, <2>1, <2>2 DEF RemoveAll
<1>2. CASE Clear
  <2>1. TypeOK'
    BY <1>2 DEF Clear, Map, Nothing
  <2>2. DiffExact'
    BY <1>2 DEF Clear, DiffExact, Nothing, Map
  <2> QED
    BY <1>2, <2>1, <2>2 DEF Clear
<1>3. ASSUME NEW id \in Id, NEW back \in NewBackend, AcquireBackend(id, back)
      PROVE  IInv'
  <2>0. back \in Backend \cup {Nil} /\ ShardOf[id] \in Shard
    BY <1>0, BackendsAssumption
  <2>1. TypeOK'
    <3>1. items' \in Map /\ itemsAdd' \in Map /\ shards' \in Map
      BY <1>3, <2>0 DEF AcquireBackend, Map
    <3>2. changedShards' \in SUBSET Shard
      BY <1>3, <2>0 DEF AcquireBackend
    <3> QED
      BY <1>3, <3>1, <3>2 DEF AcquireBackend
  <2>2. DiffExact'
    BY <1>0, <1>3 DEF AcquireBackend, DiffExact, Map
  <2> QED
    BY <1>3, <2>1, <2>2 DEF AcquireBackend
<1>4. ASSUME NEW id \in Id, SetDefaultBackend(id)
      PROVE  IInv'
  BY <1>4 DEF SetDefaultBackend, DiffExact
<1>5. CASE Shrink
  <2>1. Shrinkable \subseteq Dom(itemsAdd) \cap Dom(itemsDel)
    BY DEF Shrinkable
  <2>2. TypeOK'
    <3>1. items' \in Map /\ itemsAdd' \in Map /\ itemsDel' \in Map /\ shards' \in Map
      BY <1>5 DEF Shrink, Map
    <3>2. changedShards' \in SUBSET Shard
      BY <1>5, BackendsAssumption DEF Shrink, ShardsOf, Dom
    <3>3. isItem' \in BOOLEAN
      BY <1>5 DEF Shrink
    <3> QED
      BY <1>5, <3>1, <3>2, <3>3 DEF Shrink
  <2>3. DiffExact'
    BY <1>5, <2>1 DEF Shrink, DiffExact, Map, Dom
  <2> QED
    BY <1>5, <2>2, <2>3 DEF Shrink
<1>6. CASE DynUpdate
  <2>1. \A id \in Id : itemsAdd[id] # Nil =>
           /\ items[id] = itemsAdd[id]
           /\ itemsAdd[id] \in Backend
           /\ Refill(itemsAdd[id], Slots(itemsDel[id])) \in Backend
    <3> SUFFICES ASSUME NEW id \in Id, itemsAdd[id] # Nil
                 PROVE  /\ items[id] = itemsAdd[id]
                        /\ itemsAdd[id] \in Backend
                        /\ Refill(itemsAdd[id], Slots(itemsDel[id])) \in Backend
      OBVIOUS
    <3>1. items[id] = itemsAdd[id] /\ itemsAdd[id] \in Backend
      BY <1>6 DEF DynUpdate, DiffExact, Map
    <3>2. /\ itemsDel[id] \in Backend
          /\ Slots(itemsDel[id]) >= Slots(itemsAdd[id])
      BY <1>6 DEF DynUpdate, frontendUpdated, backendUpdated, Dom, Map
    <3>3. Slots(itemsDel[id]) \in Nat
      BY <3>2, CardinalityNat
    <3> QED
      BY <3>1, <3>2, <3>3, RefillType
  <2>2. items' \in Map /\ itemsAdd' \in Map /\ shards' = items'
    BY <1>6, <2>1 DEF DynUpdate, Map
  <2>3. \A id \in Id : itemsAdd'[id] # Nil => items'[id] # Nil
    BY <1>6, <2>1 DEF DynUpdate, Map
  <2> QED
    BY <1>6, <2>2, <2>3 DEF DynUpdate, DiffExact
<1>7. CASE AlignSlots
  <2>1. items' \in Map /\ itemsAdd' \in Map /\ shards' = items'
    BY <1>7, AlignedType DEF AlignSlots, Map
  <2>2. changedShards' \in SUBSET Shard
    BY <1>7, BackendsAssumption DEF AlignSlots, ShardsOf, Grown, Dom
  <2>3. \A id \in Id : itemsAdd'[id] # Nil => items'[id] # Nil
    BY <1>7, AlignedType DEF AlignSlots, Map, DiffExact
  <2> QED
    BY <1>7, <2>1, <2>2, <2>3 DEF AlignSlots, DiffExact
<1>8. ASSUME NEW done \in SUBSET Shard, Commit(done), disk' = Written(done),
             UNCHANGED <<items, shards, default, isItem>>
      PROVE  IInv'
  <2>1. disk' \in Map
    BY <1>8 DEF Written, Map
  <2>2. stale' \in SUBSET Shard
    BY <1>8, BackendsAssumption DEF Commit, ShardsOf, Dom
  <2> QED
    BY <1>8, <2>1, <2>2 DEF Commit, Nothing, Map, DiffExact
<1>9. CASE WriteConfig
  BY <1>8, <1>9 DEF WriteConfig
<1>10. CASE WriteMapsFails
  <2>1. disk = Written({})
    BY DEF Written, Map
  <2> QED
    BY <1>8, <1>10, <2>1 DEF WriteMapsFails
<1>11. CASE WriteConfigFails
  <2>1. PICK done \in SUBSET changedShards : disk' = Written(done) /\ Commit(done)
    BY <1>11 DEF WriteConfigFails
  <2> QED
    BY <1>8, <1>11, <2>1 DEF WriteConfigFails
<1>12. CASE UNCHANGED vars
  <2>1. DiffExact'
    BY <1>12 DEF vars, DiffExact
  <2> QED
    BY <1>12, <2>1 DEF vars
<1> QED
  BY <1>1, <1>2, <1>3, <1>4, <1>5, <1>6, <1>7, <1>9, <1>10, <1>11, <1>12
     DEF Next, PartialNext

\* The invariant of all syncs holds, whatever can be written.
THEOREM IInvHolds == Spec => []IInv
BY InitIInv, NextIInv, PTL DEF Spec

\* The maps keep their types.
THEOREM TypeCorrect == Spec => []TypeOK
<1>1. IInv => TypeOK
  BY DEF IInv
<1> QED
  BY <1>1, IInvHolds, PTL

\* The maps the shard files are written from always hold the model's backends.
THEOREM ShardsCorrect == Spec => []ShardsMirrorItems
<1>1. IInv => ShardsMirrorItems
  BY DEF IInv
<1> QED
  BY <1>1, IInvHolds, PTL

\* Added and deleted backends are the difference to the last commit.
THEOREM DiffCorrect == Spec => []DiffExact
<1>1. IInv => DiffExact
  BY DEF IInv
<1> QED
  BY <1>1, IInvHolds, PTL

-----------------------------------------------------------------------------
(***************************************************************************)
(* The files.  Between the cycles they hold what is committed; within one, *)
(* every backend that differs from its file is in a shard to be written.   *)
(***************************************************************************)
FInv ==
    /\ IInv
    /\ phase # "write" => disk = committed
    /\ phase \in {"sync", "shrunk"} => \A id \in Pending : ShardOf[id] \in changedShards
    /\ phase = "write" =>
          /\ \A id \in Id : items[id] # disk[id] => ShardOf[id] \in changedShards
          /\ updated /\ Dom(itemsAdd) = {} => items = disk

\* There is nothing to write at first.
LEMMA InitFInv == Init => FInv
BY InitIInv DEF Init, FInv, Pending, Dom, Nothing

\* A backend that is not pending is the one in its file.
LEMMA NotPending ==
    ASSUME FInv, phase = "shrunk", NEW id \in Id, id \notin Pending
    PROVE  items[id] = disk[id]
BY DEF FInv, IInv, DiffExact, Pending, Dom

\* Without full syncs and failures, a shard that changed is flagged until it is written.
LEMMA NextFInv == FInv /\ [PartialNext]_vars => FInv'
<1> SUFFICES ASSUME FInv, [PartialNext]_vars PROVE FInv'
  OBVIOUS
<1>0. IInv /\ IInv'
  BY NextIInv DEF FInv, Next
<1> USE DEF FInv, Pending
<1> USE NilNotBackend
<1>1. ASSUME NEW ids \in SUBSET Id, RemoveAll(ids)
      PROVE  FInv'
  <2>1. \A id \in Pending' : ShardOf[id] \in changedShards'
    BY <1>0, <1>1 DEF RemoveAll, IInv, Dom, Nothing, ShardsOf
  <2> QED
    BY <1>0, <1>1, <2>1 DEF RemoveAll
<1>2. ASSUME NEW id \in Id, NEW back \in NewBackend, AcquireBackend(id, back)
      PROVE  FInv'
  <2>1. \A i \in Pending' : i \in Pending \/ i = id
    BY <1>0, <1>2 DEF AcquireBackend, IInv, TypeOK, Map, Dom
  <2>2. \A i \in Pending' : ShardOf[i] \in changedShards'
    BY <1>2, <2>1 DEF AcquireBackend
  <2> QED
    BY <1>0, <1>2, <2>2 DEF AcquireBackend
<1>3. ASSUME NEW id \in Id, SetDefaultBackend(id)
      PROVE  FInv'
  BY <1>0, <1>3 DEF SetDefaultBackend, Dom
<1>4. CASE Shrink
  <2>1. Pending' \subseteq Pending
    BY <1>4 DEF Shrink, Dom
  <2>2. \A id \in Pending' : ShardOf[id] \in changedShards'
    BY <1>4, <2>1 DEF Shrink, ShardsOf
  <2> QED
    BY <1>0, <1>4, <2>2 DEF Shrink
<1>5. CASE DynUpdate
  <2>1. \A id \in Id : items'[id] # disk'[id] => id \in Pending
    <3> SUFFICES ASSUME NEW id \in Id, id \notin Pending
                 PROVE  items'[id] = disk'[id]
      OBVIOUS
    <3>1. items[id] = disk[id]
      BY <1>5, NotPending DEF DynUpdate
    <3>2. itemsAdd[id] = Nil
      BY DEF Dom
    <3> QED
      BY <1>5, <3>1, <3>2 DEF DynUpdate
  <2>2. Dom(itemsAdd)' = {} => items' = disk'
    <3> SUFFICES ASSUME Dom(itemsAdd)' = {} PROVE items' = disk'
      OBVIOUS
    <3>1. \A id \in Id : itemsAdd[id] # Nil => items'[id] # Nil /\ itemsAdd'[id] = items'[id]
      <4> SUFFICES ASSUME NEW id \in Id, itemsAdd[id] # Nil
                   PROVE  items'[id] # Nil /\ itemsAdd'[id] = items'[id]
        OBVIOUS
      <4>1. items[id] = itemsAdd[id] /\ itemsAdd[id] \in Backend
        <5>1. phase = "shrunk" /\ DiffExact /\ itemsAdd \in Map
          BY <1>0, <1>5 DEF DynUpdate, IInv, TypeOK
        <5>2. items[id] = itemsAdd[id]
          BY <5>1 DEF DiffExact
        <5>3. itemsAdd[id] \in Backend \cup {Nil}
          BY <5>1 DEF Map
        <5> QED
          BY <5>2, <5>3
      <4>2. /\ itemsDel[id] \in Backend
            /\ Slots(itemsDel[id]) >= Slots(itemsAdd[id])
        BY SMTT(90), <1>0, <1>5 DEF DynUpdate, frontendUpdated, backendUpdated, Dom, IInv, TypeOK, Map
      <4>3. Refill(itemsAdd[id], Slots(itemsDel[id])) \in Backend
        BY <4>1, <4>2, CardinalityNat, RefillType
      <4> QED
        BY <1>5, <4>1, <4>3 DEF DynUpdate
    <3>2. \A id \in Id : itemsAdd[id] = Nil
      BY <3>1 DEF Dom
    <3>3. Pending = {}
      BY <1>5, <3>2 DEF DynUpdate, frontendUpdated, backendUpdated, Dom
    <3>4. \A id \in Id : items'[id] = disk'[id]
      BY <2>1, <3>3
    <3> QED
      BY SMTT(90), <1>0, <3>4 DEF IInv, TypeOK, Map
  <2> QED
    BY <1>0, <1>5, <2>1, <2>2 DEF DynUpdate
<1>6. CASE AlignSlots
  <2>1. \A id \in Id : items'[id] # disk'[id] => ShardOf[id] \in changedShards'
    <3> SUFFICES ASSUME NEW id \in Id, items'[id] # disk'[id]
                 PROVE  ShardOf[id] \in changedShards'
      OBVIOUS
    <3>1. CASE id \in Pending
      BY <1>6, <3>1 DEF AlignSlots
    <3>2. CASE id \notin Pending
      <4>1. items'[id] # items[id]
        BY <1>6, <3>2, NotPending DEF AlignSlots
      <4>2. id \in Grown
        BY <1>6, <4>1 DEF AlignSlots, Grown, Dom
      <4> QED
        BY <1>6, <4>2 DEF AlignSlots, ShardsOf
    <3> QED
      BY <3>1, <3>2
  <2> QED
    BY <1>0, <1>6, <2>1 DEF AlignSlots
<1>7. CASE WriteConfig
  <2> DEFINE written == IF updated /\ Dom(itemsAdd) = {} THEN {} ELSE changedShards
  <2>1. disk' = Written(written)
    BY <1>7 DEF WriteConfig
  <2>2. \A id \in Id : Written(written)[id] = items[id]
    BY <1>0, <1>7 DEF WriteConfig, Written, IInv, ShardsMirrorItems
  <2>3. disk' = items
    BY <1>0, <2>1, <2>2 DEF Written, IInv, TypeOK, Map
  <2> QED
    BY <1>0, <1>7, <2>3 DEF WriteConfig, Commit
<1>8. CASE UNCHANGED vars
  BY <1>0, <1>8 DEF vars, Dom
<1> QED
  BY <1>1, <1>2, <1>3, <1>4, <1>5, <1>6, <1>7, <1>8 DEF PartialNext

\* After every partial sync whose files could be written, the shard files hold
\* the backends of the model, the shards that were skipped included.
THEOREM PartialFilesCorrect == PartialSpec => []FilesComplete
<1>1. FInv => FilesComplete
  BY DEF FInv, IInv, FilesComplete
<1> QED
  BY <1>1, InitFInv, NextFInv, PTL DEF PartialSpec

-----------------------------------------------------------------------------
(***************************************************************************)
(* The files with full syncs and failed writes.  A shard is in doubt from  *)
(* its first change on, until it is written.                               *)
(***************************************************************************)
Doubt == stale \cup changedShards \cup ShardsOf(Dom(itemsDel))

SInv ==
    /\ IInv
    /\ phase # "write" =>
          \A id \in Id : ShardOf[id] \notin stale => disk[id] = committed[id]
    /\ phase \in {"sync", "shrunk"} =>
          \A id \in Dom(itemsAdd) : ShardOf[id] \in changedShards
    /\ phase = "write" =>
          \A id \in Id : ShardOf[id] \notin Doubt => disk[id] = items[id]

\* No shard is stale at first.
LEMMA InitSInv == Init => SInv
BY InitIInv DEF Init, SInv, Dom, Nothing

\* A backend whose shard is not in doubt did not change since the last commit.
LEMMA NotInDoubt ==
    ASSUME SInv, phase = "shrunk", NEW id \in Id, ShardOf[id] \notin Doubt
    PROVE  /\ itemsAdd[id] = Nil /\ itemsDel[id] = Nil
           /\ disk[id] = items[id]
BY DEF SInv, IInv, DiffExact, Doubt, Dom, ShardsOf

\* The commit after the shards done were written.
LEMMA CommitSInv ==
    ASSUME SInv, IInv', NEW done \in SUBSET changedShards, Commit(done),
           disk' = Written(done), UNCHANGED <<items, shards>>,
           \A id \in Id : ShardOf[id] \notin Doubt => disk[id] = items[id]
    PROVE  SInv'
<1>1. \A id \in Id : ShardOf[id] \notin stale' => disk'[id] = committed'[id]
  <2> SUFFICES ASSUME NEW id \in Id, ShardOf[id] \notin stale'
               PROVE  disk'[id] = committed'[id]
    OBVIOUS
  <2>1. committed' = items /\ shards = items
    BY DEF Commit, SInv, IInv, ShardsMirrorItems
  <2>2. CASE ShardOf[id] \in done
    BY <2>1, <2>2 DEF Written
  <2>3. CASE ShardOf[id] \notin done
    <3>1. ShardOf[id] \notin Doubt
      BY <2>3 DEF Commit, Doubt
    <3> QED
      BY <2>1, <2>3, <3>1 DEF Written
  <2> QED
    BY <2>2, <2>3
<1> QED
  BY <1>1 DEF SInv, Commit

\* A shard whose file differs from the committed state is flagged, has a deleted
\* backend, or is stale.
LEMMA NextSInv == SInv /\ [Next]_vars => SInv'
<1> SUFFICES ASSUME SInv, [Next]_vars PROVE SInv'
  OBVIOUS
<1>0. IInv /\ IInv'
  BY NextIInv DEF SInv
<1> USE DEF SInv
<1> USE NilNotBackend
<1>1. ASSUME NEW ids \in SUBSET Id, RemoveAll(ids)
      PROVE  SInv'
  BY <1>0, <1>1 DEF RemoveAll, IInv, Dom, Nothing
<1>2. CASE Clear
  BY <1>0, <1>2 DEF Clear, Dom, Nothing
<1>3. ASSUME NEW id \in Id, NEW back \in NewBackend, AcquireBackend(id, back)
      PROVE  SInv'
  <2>1. \A i \in Dom(itemsAdd)' : i \in Dom(itemsAdd) \/ i = id
    BY <1>0, <1>3 DEF AcquireBackend, IInv, TypeOK, Map, Dom
  <2>2. \A i \in Dom(itemsAdd)' : ShardOf[i] \in changedShards'
    BY <1>3, <2>1 DEF AcquireBackend
  <2> QED
    BY <1>0, <1>3, <2>2 DEF AcquireBackend
<1>4. ASSUME NEW id \in Id, SetDefaultBackend(id)
      PROVE  SInv'
  BY <1>0, <1>4 DEF SetDefaultBackend, Dom
<1>5. CASE Shrink
  <2>1. Dom(itemsAdd)' \subseteq Dom(itemsAdd)
    BY <1>5 DEF Shrink, Dom
  <2>2. \A id \in Dom(itemsAdd)' : ShardOf[id] \in changedShards'
    BY <1>5, <2>1 DEF Shrink, ShardsOf
  <2> QED
    BY <1>0, <1>5, <2>2 DEF Shrink
<1>6. CASE DynUpdate
  <2>1. Doubt' = Doubt
    BY <1>6 DEF DynUpdate, Doubt, ShardsOf, Dom
  <2>2. \A id \in Id : ShardOf[id] \notin Doubt' => disk'[id] = items'[id]
    BY <1>6, <2>1, NotInDoubt DEF DynUpdate
  <2> QED
    BY <1>0, <1>6, <2>2 DEF DynUpdate
<1>7. CASE AlignSlots
  <2>1. \A id \in Id : ShardOf[id] \notin Doubt' => disk'[id] = items'[id]
    <3> SUFFICES ASSUME NEW id \in Id, ShardOf[id] \notin Doubt'
                 PROVE  disk'[id] = items'[id]
      OBVIOUS
    <3>1. ShardOf[id] \notin Doubt /\ ShardOf[id] \notin ShardsOf(Grown)
      BY <1>7 DEF AlignSlots, Doubt, ShardsOf, Dom
    <3>2. id \notin Grown
      BY <3>1 DEF ShardsOf
    <3>3. items'[id] = items[id]
      BY <1>7, <3>2 DEF AlignSlots, Grown, Dom
    <3> QED
      BY <1>7, <3>1, <3>3, NotInDoubt DEF AlignSlots
  <2> QED
    BY <1>0, <1>7, <2>1 DEF AlignSlots
<1>8. CASE WriteConfig
  BY <1>0, <1>8, CommitSInv DEF WriteConfig
<1>9. CASE WriteMapsFails
  <2>1. disk = Written({})
    BY <1>0 DEF Written, IInv, TypeOK, Map
  <2>2. \A id \in Id : ShardOf[id] \notin Doubt => disk[id] = items[id]
    BY <1>9, NotInDoubt DEF WriteMapsFails
  <2> QED
    BY <1>0, <1>9, <2>1, <2>2, CommitSInv DEF WriteMapsFails
<1>10. CASE WriteConfigFails
  <2>1. PICK done \in SUBSET changedShards : disk' = Written(done) /\ Commit(done)
    BY <1>10 DEF WriteConfigFails
  <2> QED
    BY <1>0, <1>10, <2>1, CommitSInv DEF WriteConfigFails
<1>11. CASE UNCHANGED vars
  BY <1>0, <1>11 DEF vars, Dom, Doubt, ShardsOf
<1> QED
  BY <1>1, <1>2, <1>3, <1>4, <1>5, <1>6, <1>7, <1>8, <1>9, <1>10, <1>11
     DEF Next, PartialNext

\* The file of a shard holds the backends of the model, after any sequence of
\* full and partial syncs, unless its last change was not written.
THEOREM FilesCorrect == Spec => []FilesMatch
<1>1. SInv => FilesMatch
  BY DEF SInv, IInv, FilesMatch
<1> QED
  BY <1>1, InitSInv, NextSInv, PTL DEF Spec
=============================================================================
