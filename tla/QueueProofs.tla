---------------------------- MODULE QueueProofs ----------------------------
(***************************************************************************)
(* Safety of the work queue for any set of items, any kind of queue and    *)
(* any number of adds and of clears.                                       *)
(***************************************************************************)
EXTENDS Queue, TLAPS, SequenceTheorems

\* A leaf is for Zenon unless it names another prover.
USE ZenonT(90)

\* The operations of the workqueue keep the type of their record.
LEMMA WqTypes ==
    ASSUME NEW q \in Workqueue, NEW i \in Item
    PROVE  /\ WqAdd(q, i) \in Workqueue
           /\ WqDone(q, i) \in Workqueue
           /\ WqAddRateLimited(q, i) \in Workqueue
           /\ WqShutDown(q) \in Workqueue
           /\ [q EXCEPT !.waiting = @ \ {i}] \in Workqueue
           /\ NewWorkqueue \in Workqueue
<1>1. Append(q.queue, i) \in Seq(Item)
  BY SMTT(90) DEF Workqueue
<1>2. WqAdd(q, i) \in Workqueue
  BY <1>1 DEF Workqueue, WqAdd
<1>3. WqDone(q, i) \in Workqueue
  BY <1>1 DEF Workqueue, WqDone
<1>4. WqAddRateLimited(q, i) \in Workqueue
  BY DEF Workqueue, WqAddRateLimited
<1>5. WqShutDown(q) \in Workqueue
  BY DEF Workqueue, WqShutDown
<1>6. [q EXCEPT !.waiting = @ \ {i}] \in Workqueue
  BY DEF Workqueue
<1>7. NewWorkqueue \in Workqueue
  BY SMTT(90) DEF Workqueue, NewWorkqueue
<1> QED
  BY <1>2, <1>3, <1>4, <1>5, <1>6, <1>7

\* Get hands out an item of the queue.
LEMMA WqGetTypes ==
    ASSUME NEW q \in Workqueue, q.queue # <<>>
    PROVE  WqGet(q) \in Workqueue /\ Head(q.queue) \in Item
<1>1. q.queue \in Seq(Item) /\ Head(q.queue) \in Item /\ Tail(q.queue) \in Seq(Item)
  BY SMTT(90) DEF Workqueue
<1> QED
  BY <1>1 DEF Workqueue, WqGet

\* A step on one of the workqueues keeps the type of all and their number.
LEMMA OntoTypes ==
    ASSUME TypeOK, NEW g \in 1..cur, NEW q \in Workqueue, Onto(g, q)
    PROVE  wqs' \in Seq(Workqueue) /\ wqs' # <<>> /\ cur' = cur
<1>1. wqs \in Seq(Workqueue) /\ wqs' = [wqs EXCEPT ![g] = q] /\ g \in 1..Len(wqs) /\ wqs # <<>>
  BY DEF TypeOK, Onto, cur
<1>2. wqs' \in Seq(Workqueue) /\ Len(wqs') = Len(wqs)
  BY SMTT(90), <1>1
<1> QED
  BY SMTT(90), <1>1, <1>2 DEF cur

\* A step that leaves all but the workqueues alone keeps the types when it
\* keeps the type of the workqueues and their number.
LEMMA OthersSame ==
    ASSUME TypeOK, wqs' \in Seq(Workqueue), wqs' # <<>>, cur' = cur,
           UNCHANGED <<mode, mutex, forget, shutdown, running, worker, sd, ctxDone, adds, want>>
    PROVE  TypeOK'
<1>1. /\ mode' \in Mode /\ mutex' \in {"free", "Clear", "ShutDown", "panic"}
      /\ forget' \in SUBSET Item /\ shutdown' \in {<<>>, <<TRUE>>, <<FALSE>>}
      /\ running' \in {"nil", "open", "closed"}
  BY DEF TypeOK
<1>2. worker' \in [pc : {"new", "loop", "get", "quit", "forgotten", "sync",
                        "done", "returned"},
                  item : Item, gen : 1..cur']
  BY DEF TypeOK
<1>3. /\ sd' \in {"idle", "sending", "waiting", "unwaited", "returned"}
      /\ ctxDone' \in BOOLEAN /\ adds' \in 0..MaxAdd /\ want' \in SUBSET Item
  BY DEF TypeOK
<1> QED
  BY <1>1, <1>2, <1>3 DEF TypeOK

-----------------------------------------------------------------------------
\* Whatever callers, workers and retries do, every field of the queue keeps
\* its type; in particular the worker reads a workqueue that exists, although
\* Clear replaces the queue's workqueue while the worker waits on the old one.
THEOREM TypeCorrect == Spec => []TypeOK
<1>1. Init => TypeOK
  <2> SUFFICES ASSUME Init PROVE TypeOK
    OBVIOUS
  <2>1. NewWorkqueue \in Workqueue
    BY SMTT(90) DEF Workqueue, NewWorkqueue
  <2>2. (CHOOSE i \in Item : TRUE) \in Item
    BY QueueAssumption
  <2>3. wqs \in Seq(Workqueue) /\ wqs # <<>> /\ Len(wqs) = 1
    BY SMTT(90), <2>1 DEF Init
  <2>4. worker \in [pc : {"new", "loop", "get", "quit", "forgotten", "sync",
                         "done", "returned"},
                   item : Item, gen : 1..cur]
    BY SMTT(90), <2>2, <2>3 DEF Init, cur
  <2>5. adds \in 0..MaxAdd
    BY SMTT(90), QueueAssumption DEF Init
  <2> QED
    BY <2>3, <2>4, <2>5 DEF Init, TypeOK
<1>2. TypeOK /\ [Next]_vars => TypeOK'
  <2> SUFFICES ASSUME TypeOK, [Next]_vars PROVE TypeOK'
    OBVIOUS
  <2> USE QueueAssumption
  <2>t. /\ cur \in Nat /\ cur \in 1..cur /\ wqs[cur] \in Workqueue
        /\ worker.gen \in 1..cur /\ wqs[worker.gen] \in Workqueue /\ worker.item \in Item
    BY SMTT(90) DEF TypeOK, cur
  <2>1. ASSUME NEW i \in Item, Add(i) PROVE TypeOK'
    <3>1. wqs' \in Seq(Workqueue) /\ wqs' # <<>> /\ cur' = cur
      BY <2>1, <2>t, WqTypes, OntoTypes DEF Add
    <3>2. adds' \in 0..MaxAdd
      BY SMTT(90), <2>1 DEF Add, TypeOK
    <3>3. forget' \in SUBSET Item /\ want' \in SUBSET Item
      BY <2>1 DEF Add, TypeOK
    <3> QED
      BY <2>1, <3>1, <3>2, <3>3 DEF Add, TypeOK
  <2>2. ASSUME NEW i \in Removable, Remove(i) PROVE TypeOK'
    BY <2>2 DEF Remove, TypeOK, cur
  <2>3. CASE ClearSwap
    <3> DEFINE w == [wqs EXCEPT ![cur] = WqShutDown(@)]
    <3>1. NewWorkqueue \in Workqueue /\ WqShutDown(wqs[cur]) \in Workqueue
      BY <2>t, WqTypes
    <3>2. w \in Seq(Workqueue) /\ Len(w) = Len(wqs)
      BY SMTT(90), <2>t, <3>1 DEF TypeOK, cur
    <3>3. wqs' = Append(w, NewWorkqueue)
      BY <2>3 DEF ClearSwap
    <3> HIDE DEF w
    <3>4. wqs' \in Seq(Workqueue) /\ wqs' # <<>> /\ cur' = cur + 1
      BY SMTT(90), <3>1, <3>2, <3>3 DEF cur
    <3>5. worker' \in [pc : {"new", "loop", "get", "quit", "forgotten", "sync",
                            "done", "returned"},
                      item : Item, gen : 1..cur']
      <4>1. 1..cur \subseteq 1..cur'
        BY SMTT(90), <2>t, <3>4
      <4> QED
        BY <2>3, <4>1 DEF ClearSwap, TypeOK
    <3> QED
      BY <2>3, <3>4, <3>5 DEF ClearSwap, TypeOK
  <2>4. CASE ClearSend
    BY <2>4 DEF ClearSend, TypeOK, cur
  <2>5. CASE ClearPanic
    BY <2>5 DEF ClearPanic, TypeOK, cur
  <2>6. CASE CancelContext
    BY <2>6 DEF CancelContext, TypeOK, cur
  <2>7. CASE ShutDown
    <3>1. wqs' \in Seq(Workqueue) /\ wqs' # <<>> /\ cur' = cur
      BY <2>7, <2>t, WqTypes, OntoTypes DEF ShutDown
    <3> QED
      BY <2>7, <3>1 DEF ShutDown, TypeOK
  <2>8. CASE ShutDownSend
    BY <2>8 DEF ShutDownSend, TypeOK, cur
  <2>9. CASE ShutDownReturn
    BY <2>9 DEF ShutDownReturn, TypeOK, cur
  <2>10. CASE Start
    BY <2>10 DEF Start, Go, TypeOK, cur
  <2>11. CASE Loop
    BY <2>11, <2>t DEF Loop, Go, TypeOK, cur
  <2>12. CASE GetItem
    <3>1. WqGet(wqs[worker.gen]) \in Workqueue /\ Head(wqs[worker.gen].queue) \in Item
      BY <2>12, <2>t, WqGetTypes DEF GetItem
    <3>2. wqs' \in Seq(Workqueue) /\ wqs' # <<>> /\ cur' = cur
      BY <2>12, <2>t, <3>1, OntoTypes DEF GetItem
    <3> QED
      BY <2>12, <2>t, <3>1, <3>2 DEF GetItem, TypeOK
  <2>13. CASE GetQuit
    BY <2>13 DEF GetQuit, Go, TypeOK, cur
  <2>14. CASE Quit
    BY <2>14 DEF Quit, Go, TypeOK, cur
  <2>15. CASE Forgotten
    BY <2>15 DEF Forgotten, Go, TypeOK, cur
  <2>16. ASSUME NEW failed \in BOOLEAN, SyncEnd(failed) PROVE TypeOK'
    <3>1. wqs' \in Seq(Workqueue) /\ wqs' # <<>> /\ cur' = cur
      <4>1. CASE failed
        BY <2>16, <2>t, <4>1, WqTypes, OntoTypes DEF SyncEnd
      <4>2. CASE ~failed
        BY <2>16, <4>2 DEF SyncEnd, TypeOK, cur
      <4> QED
        BY <4>1, <4>2
    <3> QED
      BY <2>16, <3>1 DEF SyncEnd, Go, TypeOK
  <2>17. CASE Done
    <3>1. wqs' \in Seq(Workqueue) /\ wqs' # <<>> /\ cur' = cur
      BY <2>17, <2>t, WqTypes, OntoTypes DEF Done
    <3> QED
      BY <2>17, <3>1 DEF Done, Go, TypeOK
  <2>18. ASSUME NEW i \in Item, Expire(i) PROVE TypeOK'
    <3>1. WqAdd([wqs[cur] EXCEPT !.waiting = @ \ {i}], i) \in Workqueue
      BY <2>t, WqTypes
    <3>2. wqs' \in Seq(Workqueue) /\ wqs' # <<>> /\ cur' = cur
      BY <2>18, <2>t, <3>1, OntoTypes DEF Expire
    <3>3. UNCHANGED <<mode, mutex, forget, shutdown, running, worker, sd, ctxDone, adds, want>>
      BY <2>18 DEF Expire
    <3> QED
      BY <3>2, <3>3, OthersSame
  <2>19. CASE UNCHANGED vars
    <3>1. wqs' = wqs
      BY <2>19 DEF vars
    <3>2. wqs' \in Seq(Workqueue) /\ wqs' # <<>> /\ cur' = cur
      BY <3>1 DEF TypeOK, cur
    <3>3. UNCHANGED <<mode, mutex, forget, shutdown, running, worker, sd, ctxDone, adds, want>>
      BY <2>19 DEF vars
    <3> QED
      BY <3>2, <3>3, OthersSame
  <2> QED
    BY <2>1, <2>2, <2>3, <2>4, <2>5, <2>6, <2>7, <2>8, <2>9, <2>10, <2>11, <2>12, <2>13,
       <2>14, <2>15, <2>16, <2>17, <2>18, <2>19 DEF Next, Worker, Caller, Blocked
<1> QED
  BY <1>1, <1>2, PTL DEF Spec

-----------------------------------------------------------------------------
\* ShutDownWaits is not inductive: it needs that q.running is closed by a loop
\* that is over, and that ShutDown found it closed.
WaitInv ==
    /\ running = "closed" => worker.pc = "returned"
    /\ sd = "returned" => running = "closed"

\* ShutDown of a running queue returns only after its loop is over, for any
\* kind of queue, whatever adds, removes, clears and retries happen meanwhile.
THEOREM ShutDownWaitsCorrect == Spec => []ShutDownWaits
<1>1. Init => WaitInv
  BY DEF Init, WaitInv
<1>2. TypeOK /\ WaitInv /\ [Next]_vars => WaitInv'
  <2> SUFFICES ASSUME TypeOK, WaitInv, [Next]_vars PROVE WaitInv'
    OBVIOUS
  <2>t. worker \in [pc : {"new", "loop", "get", "quit", "forgotten", "sync",
                         "done", "returned"},
                   item : Item, gen : 1..cur]
    BY DEF TypeOK
  <2>1. ASSUME NEW i \in Item, Add(i) PROVE WaitInv'
    BY <2>1 DEF Add, WaitInv
  <2>2. ASSUME NEW i \in Removable, Remove(i) PROVE WaitInv'
    BY <2>2 DEF Remove, WaitInv
  <2>3. CASE ClearSwap
    BY <2>3 DEF ClearSwap, WaitInv
  <2>4. CASE ClearSend
    BY <2>4 DEF ClearSend, WaitInv
  <2>5. CASE ClearPanic
    BY <2>5, <2>t DEF ClearPanic, WaitInv
  <2>6. CASE CancelContext
    BY <2>6 DEF CancelContext, WaitInv
  <2>7. CASE ShutDown
    BY <2>7 DEF ShutDown, WaitInv
  <2>8. CASE ShutDownSend
    BY <2>8 DEF ShutDownSend, WaitInv
  <2>9. CASE ShutDownReturn
    BY <2>9 DEF ShutDownReturn, WaitInv
  <2>10. CASE Start
    BY <2>10, <2>t DEF Start, Go, WaitInv
  <2>11. CASE Loop
    BY <2>11, <2>t DEF Loop, Go, WaitInv
  <2>12. CASE GetItem
    BY <2>12, <2>t DEF GetItem, WaitInv
  <2>13. CASE GetQuit
    BY <2>13, <2>t DEF GetQuit, Go, WaitInv
  <2>14. CASE Quit
    BY <2>14, <2>t DEF Quit, Go, WaitInv
  <2>15. CASE Forgotten
    BY <2>15, <2>t DEF Forgotten, Go, WaitInv
  <2>16. ASSUME NEW failed \in BOOLEAN, SyncEnd(failed) PROVE WaitInv'
    BY <2>16, <2>t DEF SyncEnd, Go, WaitInv
  <2>17. CASE Done
    BY <2>17, <2>t DEF Done, Go, WaitInv
  <2>18. ASSUME NEW i \in Item, Expire(i) PROVE WaitInv'
    BY <2>18 DEF Expire, WaitInv
  <2>19. CASE UNCHANGED vars
    BY <2>19 DEF vars, WaitInv
  <2> QED
    BY <2>1, <2>2, <2>3, <2>4, <2>5, <2>6, <2>7, <2>8, <2>9, <2>10, <2>11, <2>12, <2>13,
       <2>14, <2>15, <2>16, <2>17, <2>18, <2>19 DEF Next, Worker, Caller, Blocked
<1>3. WaitInv => ShutDownWaits
  BY DEF WaitInv, ShutDownWaits
<1> QED
  BY <1>1, <1>2, <1>3, TypeCorrect, PTL DEF Spec
=============================================================================
