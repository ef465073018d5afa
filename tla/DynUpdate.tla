----------------------------- MODULE DynUpdate -----------------------------
(***************************************************************************)
(* pkg/haproxy/dynupdate.go for one backend with dynamic scaling: the      *)
(* server slots of the model, and the servers of the running haproxy that  *)
(* are changed one by one over its admin socket.                           *)
(*                                                                         *)
(* A slot is a record of its server name, its endpoint (0: an empty slot), *)
(* weight and cookie.  Names are srv001, srv002, ... in the order slots    *)
(* are added, or with IP naming the endpoint.  The cookie of an endpoint   *)
(* is its pod's UID, of an empty slot its name.                            *)
(***************************************************************************)
EXTENDS Integers, Sequences, FiniteSets, Functions

CONSTANTS Ep,        \* endpoint targets, numbers ordered as their strings
          FirstSrv,  \* where the names of servers begin: they follow those of endpoints
          Mode       \* the settings of the backend, see below

\* weights:   the weights of endpoints; 0 drains
\* labeled:   the endpoints with a blue/green label
\* preserve:  Cookie.Preserve
\* podUID:    EpCookieStrategy is EpCookiePodUID, or EpCookieName
\* ipNaming:  EpNaming is EpIPPort, or EpSequence
\* sortBy:    SortEndpointsBy
\* delayed:   reloads wait for the reload queue
\* blockSize, minFree: Dynamic.BlockSize and Dynamic.MinFreeSlots
ASSUME DynUpdateAssumption ==
    /\ FirstSrv \in Nat /\ Ep \subseteq 1..FirstSrv
    /\ Mode \subseteq [weights : SUBSET Nat, labeled : SUBSET Ep,
                       preserve : BOOLEAN, podUID : BOOLEAN, ipNaming : BOOLEAN,
                       sortBy : {"endpoint", "name", "ip", "random"},
                       delayed : BOOLEAN, blockSize : Nat \ {0}, minFree : Nat]

VARIABLES mode,      \* the settings
          model,     \* Endpoints of the committed backend, a sequence of slots
          hasCommit, \* hasCommittedData
          running,   \* haproxy's servers: name -> endpoint, weight and cookie
          reload     \* a reload is due

vars == <<mode, model, hasCommit, running, reload>>

\* The n-th server of a sequence; an endpoint's name and its pod's UID are the
\* endpoint, a smaller number as it is a smaller string.
Srv(n) == FirstSrv + n

\* AddEmptyEndpoint, as the n-th slot.
EmptySlot(n) == [name |-> Srv(n), ep |-> 0, weight |-> 1, cookie |-> Srv(n)]
Enabled(s) == s.ep # 0
Names(slots) == {slots[i].name : i \in DOMAIN slots}
Eps(slots) == {slots[i].ep : i \in DOMAIN slots} \ {0}
Position(slots, e) == CHOOSE i \in DOMAIN slots : slots[i].ep = e

\* The endpoints a sync adds with AcquireEndpoint, in the order of the list.
NewSlots(eps, weight) ==
    LET name(i) == IF mode.ipNaming THEN eps[i] ELSE Srv(i)
    IN [i \in DOMAIN eps |->
           [name |-> name(i), ep |-> eps[i], weight |-> weight[eps[i]],
            cookie |-> IF mode.podUID THEN eps[i] ELSE name(i)]]

\* The servers haproxy has after it loads slots.
Table(slots) ==
    [n \in Names(slots) |->
        LET s == slots[CHOOSE i \in DOMAIN slots : slots[i].name = n]
        IN [ep |-> s.ep, weight |-> IF Enabled(s) THEN s.weight ELSE 0,
            cookie |-> s.cookie]]

Init ==
    /\ mode \in Mode
    /\ model = <<>> /\ hasCommit = FALSE
    /\ running = Table(<<>>)
    /\ reload = FALSE

(***************************************************************************)
(* checkBackendPair.  An endpoint found in old keeps its slot.  The others *)
(* take, in order, the slots of the endpoints that are gone, by target,    *)
(* and then the empty ones; slots not taken end up as empty ones.  A slot  *)
(* of old is told by its position.                                         *)
(***************************************************************************)
Ascending(S) ==
    [k \in 1..Cardinality(S) |-> CHOOSE x \in S : Cardinality({y \in S : y <= x}) = k]

EmptySlots(slots) == Ascending({i \in DOMAIN slots : ~Enabled(slots[i])})

Gone(old, new) ==
    LET gone == Ascending(Eps(old) \ Eps(new))
    IN [k \in DOMAIN gone |-> Position(old, gone[k])]

Added(old, new) == {i \in DOMAIN new : new[i].ep \notin Eps(old)}

Reusable(old, new) == Gone(old, new) \o EmptySlots(old)

\* The slot of old that each of new takes.
Place(old, new) ==
    LET added == Added(old, new)
        reusable == Reusable(old, new)
    IN [i \in DOMAIN new |->
           IF i \in added THEN reusable[Cardinality({j \in added : j <= i})]
           ELSE Position(old, new[i].ep)]

Placed(old, new) ==
    LET place == Place(old, new) IN [i \in DOMAIN new |-> old[place[i]]]

\* The slots nobody takes: of disabled endpoints, and the empty ones.
Disabled(old, new) ==
    LET gone == Gone(old, new)
    IN SubSeq(gone, Cardinality(Added(old, new)) + 1, Len(gone))

Left(old, new) ==
    LET used == Cardinality(Added(old, new)) - Len(Gone(old, new))
        empty == EmptySlots(old)
    IN SubSeq(empty, (IF used > 0 THEN used ELSE 0) + 1, Len(empty))
           \o Disabled(old, new)

\* Mutation: the slots nobody takes are numbered again.
AssignedAnew(old, new) ==
    LET placed == Placed(old, new)
    IN [i \in DOMAIN new |-> [new[i] EXCEPT !.name = placed[i].name]]
       \o [i \in DOMAIN Left(old, new) |-> EmptySlot(Len(new) + i)]

\* The new endpoints with their servers' names, and the slots that are left:
\* AddEmptyEndpoint takes its cookie before the slot is renamed.
Assigned(old, new) ==
    LET placed == Placed(old, new)
        left == Left(old, new)
    IN [i \in DOMAIN new |-> [new[i] EXCEPT !.name = placed[i].name]]
       \o [i \in DOMAIN left |-> [EmptySlot(Len(new) + i) EXCEPT !.name = old[left[i]].name]]

\* checkEndpointPair: the endpoints haproxy has to be told of.
Changed(old, new) ==
    LET placed == Placed(old, new)
    IN {i \in DOMAIN new : [new[i] EXCEPT !.name = placed[i].name] # placed[i]}

\* Mutation: the cookie is not compared.
RefusedNever(old, new) == {}

\* Those whose server has another cookie, and has to keep it.
Refused(old, new) ==
    LET placed == Placed(old, new)
    IN {i \in Changed(old, new) : mode.preserve /\ new[i].cookie # placed[i].cookie}

\* The commands: server name -> the endpoint and weight it is given.
Commands(old, new) ==
    LET placed == Placed(old, new)
        disabled == {old[p].name : p \in Range(Disabled(old, new))}
        enabled == Changed(old, new) \ Refused(old, new)
    IN [n \in disabled \cup {placed[i].name : i \in enabled} |->
           IF n \in disabled THEN [ep |-> 0, weight |-> 0]
           ELSE LET i == CHOOSE k \in enabled : placed[k].name = n
                IN [ep |-> new[i].ep, weight |-> new[i].weight]]

\* A use-server rule of blue/green names a server that changed.
Labels(old, new) ==
    \/ \E i \in Changed(old, new) : {new[i].ep, Placed(old, new)[i].ep} \cap mode.labeled # {}
    \/ \E p \in Range(Disabled(old, new)) : old[p].ep \in mode.labeled

\* execEnableEndpoint and execDisableEndpoint: the servers haproxy knows are
\* changed; a cookie stays until a reload.  A command that fails does nothing,
\* or its half: the address or the maintenance state, and not the weight.
Execute(cmds, failed, half) ==
    [n \in DOMAIN running |->
        IF n \notin DOMAIN cmds \/ n \in failed \ half THEN running[n]
        ELSE [ep |-> cmds[n].ep,
              weight |-> IF n \in half THEN running[n].weight ELSE cmds[n].weight,
              cookie |-> running[n].cookie]]

(***************************************************************************)
(* alignSlots.                                                             *)
(***************************************************************************)
Padded(slots, n) == slots \o [i \in 1..n |-> EmptySlot(Len(slots) + i)]

alignSlots(slots) ==
    LET free == Len(EmptySlots(slots))
        filled == Padded(slots, IF free < mode.minFree THEN mode.minFree - free ELSE 0)
    IN IF mode.minFree = 0 /\ slots = <<>> THEN Padded(slots, mode.blockSize)
       ELSE Padded(filled,
                mode.blockSize - (((Len(filled) + mode.blockSize - 1) % mode.blockSize) + 1))

(***************************************************************************)
(* HAProxyUpdate.  other: something else of the model, or of this backend, *)
(* needs a reload.  An update comes before a delayed reload, or after a    *)
(* failed one.                                                             *)
(***************************************************************************)
Orders(slots) ==
    {[i \in DOMAIN slots |-> slots[p[i]]] : p \in Bijection(DOMAIN slots, DOMAIN slots)}

ByName(slots) ==
    LET rank(i) == Cardinality({j \in DOMAIN slots :
                                   \/ slots[j].name < slots[i].name
                                   \/ slots[j].name = slots[i].name /\ j <= i})
    IN [k \in DOMAIN slots |-> slots[CHOOSE i \in DOMAIN slots : rank(i) = k]]

\* The orders SortChangedEndpoints or ShuffleAllEndpoints may leave.
Ordered(slots, updated) ==
    CASE mode.sortBy = "endpoint" -> {slots}
      [] mode.sortBy = "name" -> {ByName(slots)}
      [] mode.sortBy = "ip" ->
            {t \in Orders(slots) : \A i \in 1..(Len(t) - 1) : t[i].ep <= t[i + 1].ep}
      [] mode.sortBy = "random" -> IF updated THEN {slots} ELSE Orders(slots)

\* Shrink puts the old backend back if nothing but empty slots changed.
Same(old, new) ==
    /\ Len(new) <= Len(old)
    /\ Range(new) = {s \in Range(old) : Enabled(s)}

Unchanged(new, other) ==
    /\ hasCommit /\ (~reload \/ mode.delayed)
    /\ Same(model, new)
    /\ IF ~other THEN model' = model
       ELSE IF mode.sortBy = "random" THEN model' \in Ordered(alignSlots(model), FALSE)
       ELSE model' = alignSlots(model)
    /\ reload' = (reload \/ other)
    /\ UNCHANGED <<mode, hasCommit, running>>

\* Mutation: failed commands are ignored.
ApplyIgnoresFailure(new, cmds, failed, half, other) ==
    LET slots == Assigned(model, new)
        ok == ~Labels(model, new) /\ Refused(model, new) = {} /\ ~other
    IN
    /\ hasCommit /\ (~reload \/ mode.delayed)
    /\ (~Same(model, new) \/ other) /\ Len(new) <= Len(model)
    /\ running' = Execute(cmds, failed, half)
    /\ model' \in Ordered(IF ok THEN slots ELSE alignSlots(slots), ok)
    /\ reload' = (reload \/ ~ok)
    /\ UNCHANGED <<mode, hasCommit>>

\* checkBackendPair with enough slots, and what update and HAProxyUpdate do next.
Apply(new, cmds, failed, half, other) ==
    LET slots == Assigned(model, new)
        ok == /\ failed = {} /\ DOMAIN cmds \subseteq DOMAIN running
              /\ ~Labels(model, new) /\ Refused(model, new) = {} /\ ~other
    IN
    /\ hasCommit /\ (~reload \/ mode.delayed)
    /\ (~Same(model, new) \/ other) /\ Len(new) <= Len(model)
    /\ running' = Execute(cmds, failed, half)
    /\ model' \in Ordered(IF ok THEN slots ELSE alignSlots(slots), ok)
    /\ reload' = (reload \/ ~ok)
    /\ UNCHANGED <<mode, hasCommit>>

\* Nothing is committed yet, or there are not enough slots.
Replace(new) ==
    /\ ~reload \/ mode.delayed
    /\ ~hasCommit \/ (~Same(model, new) /\ Len(new) > Len(model))
    /\ model' \in Ordered(alignSlots(new), FALSE)
    /\ hasCommit' = TRUE
    /\ reload' = TRUE
    /\ UNCHANGED <<mode, running>>

\* haproxy loads the configuration, at once or after the reload interval.
Reload ==
    /\ reload
    /\ running' = Table(model)
    /\ reload' = FALSE
    /\ UNCHANGED <<mode, model, hasCommit>>

\* The lists of endpoints of a service, with their weights.
Lists == UNION {Injection(1..Cardinality(S), S) : S \in SUBSET Ep}
Synced == {NewSlots(eps, weight) : eps \in Lists, weight \in [Ep -> mode.weights]}

Next ==
    \/ \E new \in Synced, other \in BOOLEAN : Unchanged(new, other)
    \/ \E new \in {n \in Synced : Len(n) <= Len(model)}, other \in BOOLEAN :
          LET cmds == Commands(model, new) IN
          \E failed \in SUBSET (IF other THEN {} ELSE DOMAIN cmds) :
          \E half \in SUBSET failed :
             Apply(new, cmds, failed, half, other)
    \/ \E new \in Synced : Replace(new)
    \/ Reload

Spec == Init /\ [][Next]_vars

-----------------------------------------------------------------------------
Slot == [name : Nat, ep : Ep \cup {0}, weight : Nat, cookie : Nat \ {0}]

\* The slots and the servers keep their types.
TypeOK ==
    /\ mode \in Mode
    /\ model \in Seq(Slot)
    /\ hasCommit \in BOOLEAN /\ reload \in BOOLEAN
    /\ DOMAIN running \subseteq Nat
    /\ \A n \in DOMAIN running :
          running[n] \in [ep : Ep \cup {0}, weight : Nat, cookie : Nat]

\* Two slots never share a server name, over any sequence of updates in which
\* endpoints inherit the names of others and empty slots are added: haproxy
\* rejects a backend with duplicate servers.
UniqueNames == Cardinality(Names(model)) = Len(model)

\* Once no reload is due, haproxy balances over exactly the endpoints of the
\* model, each with its weight, on the servers the model thinks it has, even
\* if updates were applied while a reload was due or commands failed.
Converged ==
    ~reload => /\ DOMAIN running = Names(model)
               /\ \A n \in Names(model) :
                     /\ running[n].ep = Table(model)[n].ep
                     /\ running[n].weight = Table(model)[n].weight

\* With session-cookie-preserve, cookies of pods and immediate reloads, the
\* server of an endpoint has the cookie of the endpoint's pod in haproxy at
\* every moment, also before a reload that a refused command asked for.
CookiesPreserved ==
    (mode.preserve /\ mode.podUID /\ ~mode.delayed) =>
        \A n \in DOMAIN running :
            running[n].ep # 0 => running[n].cookie = running[n].ep
=============================================================================
