------------------------------ MODULE Backends ------------------------------
(***************************************************************************)
(* pkg/haproxy/types/backends.go and the part of pkg/haproxy that uses it  *)
(* in an update: the backends of the model, what was added and deleted     *)
(* since the last commit, and the sharded configuration files.             *)
(*                                                                         *)
(* A cycle runs under the model mutex.  A converter starts it, with Clear  *)
(* on a full sync or RemoveAll of the dirty backends on a partial one, and *)
(* acquires backends; HAProxyUpdate ends it: Shrink, a dynamic update or   *)
(* alignSlots, writeConfig and Commit, in that order.                      *)
(***************************************************************************)
EXTENDS Integers, FiniteSets

CONSTANTS Id,          \* backend IDs
          Shard,       \* the shards, --backend-shards > 0
          ShardOf,     \* createBackend: the shard of an ID, its hash % shards
          Cfg,         \* everything of a backend but its endpoints
          Ep,          \* endpoints with an address
          BlockSize, MinFree,  \* Dynamic.BlockSize (>= 1) and MinFreeSlots
          Nil          \* no backend

ASSUME BackendsAssumption ==
    /\ ShardOf \in [Id -> Shard]
    /\ IsFiniteSet(Ep)
    /\ BlockSize \in Nat \ {0} /\ MinFree \in Nat
    /\ Nil \notin [cfg : Cfg, eps : SUBSET Ep, free : Nat]
    /\ Nil \notin Id

VARIABLES phase,      \* where the cycle is; "idle" between two cycles
          items, itemsAdd, itemsDel,   \* [Id -> Backend or Nil]
          shards,     \* b.shards: the backend of an ID in the map of its shard
          changedShards,
          default,    \* the ID of DefaultBackend, or Nil
          isItem,     \* DefaultBackend is the very object items holds
          updated,    \* the dynamic update was applied
          committed,  \* history: items at the last commit
          stale,      \* history: the shards that changed and were not written since
          disk        \* the backend of an ID in the file of its shard

vars == <<phase, items, itemsAdd, itemsDel, shards, changedShards, default,
          isItem, updated, committed, stale, disk>>

Backend == [cfg : Cfg, eps : SUBSET Ep, free : Nat]
Nothing == [id \in Id |-> Nil]
Dom(m) == {id \in Id : m[id] # Nil}
Slots(b) == Cardinality(b.eps) + b.free
ShardsOf(ids) == {ShardOf[id] : id \in ids}

Init ==
    /\ phase = "idle"
    /\ items = Nothing /\ itemsAdd = Nothing /\ itemsDel = Nothing
    /\ shards = Nothing /\ changedShards = {}
    /\ default = Nil /\ isItem = FALSE
    /\ updated = FALSE
    /\ committed = Nothing /\ stale = {} /\ disk = Nothing

(***************************************************************************)
(* The converter's calls.                                                  *)
(***************************************************************************)
\* Mutation: the backend is left in the map of its shard.
RemoveAllKeepsShard(ids) ==
    LET found == ids \cap Dom(items) IN
    /\ phase = "idle"
    /\ phase' = "sync"
    /\ changedShards' = changedShards \cup ShardsOf(found)
    /\ itemsDel' = [id \in Id |-> IF id \in found THEN items[id] ELSE itemsDel[id]]
    /\ items' = [id \in Id |-> IF id \in found THEN Nil ELSE items[id]]
    /\ default' = IF isItem /\ default \in found THEN Nil ELSE default
    /\ isItem' = (isItem /\ default \notin found)
    /\ UNCHANGED <<itemsAdd, shards, updated, committed, stale, disk>>

RemoveAll(ids) ==
    LET found == ids \cap Dom(items) IN
    /\ phase = "idle"
    /\ phase' = "sync"
    /\ shards' = [id \in Id |-> IF id \in found THEN Nil ELSE shards[id]]
    /\ changedShards' = changedShards \cup ShardsOf(found)
    /\ itemsDel' = [id \in Id |-> IF id \in found THEN items[id] ELSE itemsDel[id]]
    /\ items' = [id \in Id |-> IF id \in found THEN Nil ELSE items[id]]
    /\ default' = IF isItem /\ default \in found THEN Nil ELSE default
    /\ isItem' = (isItem /\ default \notin found)
    /\ UNCHANGED <<itemsAdd, updated, committed, stale, disk>>

\* The loop of Clear ranges over the shards of the new Backends, which are
\* empty, and what it would flag is overwritten by the assignment that follows.
Clear ==
    /\ phase = "idle"
    /\ phase' = "sync"
    /\ itemsDel' = items
    /\ items' = Nothing /\ itemsAdd' = Nothing
    /\ shards' = Nothing /\ changedShards' = {}
    /\ default' = Nil /\ isItem' = FALSE
    /\ UNCHANGED <<updated, committed, stale, disk>>

\* AcquireBackend of a new backend, with what the converter fills in.
AcquireBackend(id, back) ==
    /\ phase = "sync" /\ items[id] = Nil
    /\ items' = [items EXCEPT ![id] = back]
    /\ itemsAdd' = [itemsAdd EXCEPT ![id] = back]
    /\ shards' = [shards EXCEPT ![id] = back]
    /\ changedShards' = changedShards \cup {ShardOf[id]}
    /\ UNCHANGED <<phase, itemsDel, default, isItem, updated, committed, stale, disk>>

\* syncDefaultBackend: the backend it acquires becomes DefaultBackend.
SetDefaultBackend(id) ==
    /\ phase = "sync" /\ itemsAdd[id] # Nil
    /\ default' = id /\ isItem' = TRUE
    /\ UNCHANGED <<phase, items, itemsAdd, itemsDel, shards, changedShards,
                   updated, committed, stale, disk>>

(***************************************************************************)
(* HAProxyUpdate.                                                          *)
(***************************************************************************)
backendsMatch(back1, back2) == back1.cfg = back2.cfg /\ back1.eps = back2.eps

Shrinkable ==
    {id \in Dom(itemsAdd) \cap Dom(itemsDel) :
        /\ Slots(itemsAdd[id]) <= Slots(itemsDel[id])
        /\ backendsMatch(itemsAdd[id], itemsDel[id])}

\* Mutation: the old backend is not put back.
ShrinkForgetsItems ==
    LET Drop(m) == [id \in Id |-> IF id \in Shrinkable THEN Nil ELSE m[id]] IN
    /\ phase = "sync"
    /\ phase' = "shrunk"
    /\ shards' = [id \in Id |-> IF id \in Shrinkable THEN itemsDel[id] ELSE shards[id]]
    /\ itemsAdd' = Drop(itemsAdd) /\ itemsDel' = Drop(itemsDel)
    /\ changedShards' = IF Shrinkable = {} THEN changedShards
                        ELSE ShardsOf(Dom(itemsAdd') \cup Dom(itemsDel'))
    /\ UNCHANGED <<items, default, isItem, updated, committed, stale, disk>>

Shrink ==
    LET Keep(m) == [id \in Id |-> IF id \in Shrinkable THEN itemsDel[id] ELSE m[id]]
        Drop(m) == [id \in Id |-> IF id \in Shrinkable THEN Nil ELSE m[id]]
    IN
    /\ phase = "sync"
    /\ phase' = "shrunk"
    /\ shards' = Keep(shards) /\ items' = Keep(items)
    /\ itemsAdd' = Drop(itemsAdd) /\ itemsDel' = Drop(itemsDel)
    /\ changedShards' = IF Shrinkable = {} THEN changedShards
                        ELSE ShardsOf(Dom(itemsAdd') \cup Dom(itemsDel'))
    /\ isItem' = (isItem /\ default \notin Shrinkable)
    /\ UNCHANGED <<default, updated, committed, stale, disk>>

\* Backends that are gone: the paths of the hosts that referred to them changed.
frontendUpdated == Dom(itemsDel) \subseteq Dom(itemsAdd)

\* Every added backend replaces one with the same settings and enough slots;
\* the ones that are gone are ignored.
backendUpdated ==
    \A id \in Dom(itemsAdd) :
        /\ itemsDel[id] # Nil
        /\ itemsDel[id].cfg = itemsAdd[id].cfg
        /\ Slots(itemsDel[id]) >= Slots(itemsAdd[id])

\* checkBackendPair: the new endpoints take the slots of the old ones, and the
\* slots that are left are added to the new backend as empty ones.
Refill(back, slots) == [back EXCEPT !.free = slots - Cardinality(back.eps)]

DynUpdate ==
    LET Apply(m) == [id \in Id |->
            IF itemsAdd[id] # Nil THEN Refill(m[id], Slots(itemsDel[id])) ELSE m[id]]
    IN
    /\ phase = "shrunk" /\ frontendUpdated /\ backendUpdated
    /\ phase' = "write"
    /\ updated' = TRUE
    /\ items' = Apply(items) /\ itemsAdd' = Apply(itemsAdd) /\ shards' = Apply(shards)
    /\ UNCHANGED <<itemsDel, changedShards, default, isItem, committed, stale, disk>>

\* alignSlots: at least MinFree empty slots, and whole blocks of slots.
Aligned(back) ==
    LET free == IF back.free < MinFree THEN MinFree ELSE back.free
        len == Cardinality(back.eps) + free
    IN IF MinFree = 0 /\ Slots(back) = 0
       THEN [back EXCEPT !.free = BlockSize]
       ELSE [back EXCEPT !.free =
                free + BlockSize - (((len + BlockSize - 1) % BlockSize) + 1)]

Grown == {id \in Dom(items) : Aligned(items[id]) # items[id]}

\* Mutation: backends that grow are not reported.
AlignSlotsUnflagged ==
    LET Align(m) == [id \in Id |-> IF m[id] = Nil THEN Nil ELSE Aligned(m[id])] IN
    /\ phase = "shrunk"
    /\ phase' = "write"
    /\ updated' = FALSE
    /\ items' = Align(items) /\ itemsAdd' = Align(itemsAdd) /\ shards' = Align(shards)
    /\ UNCHANGED <<itemsDel, changedShards, default, isItem, committed, stale, disk>>

\* A reload is needed: for a backend, for something else of the model, for a
\* failed command, or because nothing is committed.
AlignSlots ==
    LET Align(m) == [id \in Id |-> IF m[id] = Nil THEN Nil ELSE Aligned(m[id])] IN
    /\ phase = "shrunk"
    /\ phase' = "write"
    /\ updated' = FALSE
    /\ items' = Align(items) /\ itemsAdd' = Align(itemsAdd) /\ shards' = Align(shards)
    /\ changedShards' = changedShards \cup ShardsOf(Grown)
    /\ UNCHANGED <<itemsDel, default, isItem, committed, stale, disk>>

\* config.Commit, deferred by HAProxyUpdate.
Commit(written) ==
    /\ phase' = "idle"
    /\ itemsAdd' = Nothing /\ itemsDel' = Nothing
    /\ changedShards' = {}
    /\ committed' = items
    /\ updated' = FALSE
    /\ stale' = (stale \cup changedShards \cup ShardsOf(Dom(itemsDel))) \ written

Written(done) == [id \in Id |-> IF ShardOf[id] \in done THEN shards[id] ELSE disk[id]]

\* writeConfig runs if a reload is needed or if commands were sent, which is
\* the case of every backend left in itemsAdd after Shrink.
WriteConfig ==
    /\ phase = "write"
    /\ LET written == IF updated /\ Dom(itemsAdd) = {} THEN {} ELSE changedShards
       IN disk' = Written(written) /\ Commit(written)
    /\ UNCHANGED <<items, shards, default, isItem>>

\* A map cannot be written: HAProxyUpdate returns before anything is applied,
\* and the deferred Commit runs.
WriteMapsFails ==
    /\ phase = "shrunk"
    /\ Commit({})
    /\ UNCHANGED <<items, shards, default, isItem, disk>>

\* A template or a shard cannot be written: the files before it are.
WriteConfigFails ==
    /\ phase = "write"
    /\ \E done \in SUBSET changedShards :
          done # changedShards /\ disk' = Written(done) /\ Commit(done)
    /\ UNCHANGED <<items, shards, default, isItem>>

NewBackend == [cfg : Cfg, eps : SUBSET Ep, free : {0}]

PartialNext ==
    \/ \E ids \in SUBSET Id : RemoveAll(ids)
    \/ \E id \in Id, back \in NewBackend : AcquireBackend(id, back)
    \/ \E id \in Id : SetDefaultBackend(id)
    \/ Shrink \/ DynUpdate \/ AlignSlots \/ WriteConfig

Next == PartialNext \/ Clear \/ WriteMapsFails \/ WriteConfigFails

Spec == Init /\ [][Next]_vars

\* Partial syncs only, and every file can be written.
PartialSpec == Init /\ [][PartialNext]_vars

-----------------------------------------------------------------------------
Map == [Id -> Backend \cup {Nil}]

\* Every map holds backends, under IDs and shards of the configuration.
TypeOK ==
    /\ phase \in {"idle", "sync", "shrunk", "write"}
    /\ items \in Map /\ itemsAdd \in Map /\ itemsDel \in Map /\ shards \in Map
    /\ committed \in Map /\ disk \in Map
    /\ changedShards \in SUBSET Shard /\ stale \in SUBSET Shard
    /\ default \in Id \cup {Nil} /\ isItem \in BOOLEAN /\ updated \in BOOLEAN

\* What dynUpdater compares is the difference to the last commit: a deleted
\* backend is the committed one, an added backend is the current one, and a
\* backend in neither map is the same in both states.
DiffExact ==
    phase \in {"sync", "shrunk"} =>
        \A id \in Id :
            /\ itemsAdd[id] # Nil => itemsAdd[id] = items[id]
            /\ committed[id] = IF itemsDel[id] # Nil THEN itemsDel[id]
                               ELSE IF itemsAdd[id] # Nil THEN Nil
                               ELSE items[id]

\* The maps per shard that the shard files are written from partition items.
ShardsMirrorItems == shards = items

\* Between two cycles the file of a shard holds the backends of the model,
\* although only changed shards are written, unless the last change of the
\* shard was not written: a file failed, or a full sync emptied the shard.
FilesMatch ==
    phase = "idle" => \A id \in Id : ShardOf[id] \notin stale => disk[id] = items[id]

\* Between two cycles the files hold the backends of the model.
FilesComplete == phase = "idle" => disk = items

=============================================================================
