------------------------------- MODULE Queue -------------------------------
(***************************************************************************)
(* pkg/utils/queue.go: the work queue behind the reload, acme, status and  *)
(* ingress workers.  One goroutine runs RunWithContext; the other methods  *)
(* are called from any goroutine and serialise on q.mutex.  Methods that   *)
(* cannot block while they hold the mutex are one step; Clear and ShutDown *)
(* can block on the shutdown and running channels, so they are several.    *)
(*                                                                         *)
(* The k8s workqueue below it is external: dirty and processing sets with  *)
(* a FIFO, a set of delayed items, and a ShutDown that lets Get drain.     *)
(* Clear replaces the workqueue, so wqs holds one record per generation.   *)
(***************************************************************************)
EXTENDS Naturals, Sequences, FiniteSets

CONSTANTS Item,         \* the items callers add; Notify adds one fixed item
          Removable,    \* the items callers also remove
          Mode,         \* the kinds of queues, see below
          MaxAdd        \* bound on the calls to Add and Notify

\* failure: NewFailureRateLimitingQueue, or NewRateLimitingQueue
\* limited: a token bucket is waited for before each Get
\* context: RunWithContext(ctx), or Run()
\* clears:  bound on the calls to Clear
ASSUME QueueAssumption ==
    /\ Mode \subseteq [failure : BOOLEAN, limited : BOOLEAN, context : BOOLEAN,
                       clears : Nat]
    /\ Removable \subseteq Item /\ Item # {}
    /\ MaxAdd \in Nat

VARIABLES mode,      \* the kind of this queue
          mutex,     \* the method blocked while it holds q.mutex, or "free"
          wqs,       \* the workqueues built so far, the last is q.workqueue
          forget,    \* q.forget
          shutdown,  \* contents of the q.shutdown channel, capacity 1
          running,   \* q.running: "nil", "open" or "closed"
          worker,    \* the RunWithContext goroutine
          sd,        \* progress of the call to ShutDown
          ctxDone,   \* the context was canceled
          adds,      \* number of calls to Add, at most MaxAdd
          want       \* history: added, and not started, removed or cleared since

vars == <<mode, mutex, wqs, forget, shutdown, running, worker, sd, ctxDone, adds,
        want>>

NewWorkqueue == [queue |-> <<>>, dirty |-> {}, processing |-> {},
                 waiting |-> {}, down |-> FALSE]
cur == Len(wqs)

(***************************************************************************)
(* External: the workqueue's operations on a workqueue record q.           *)
(***************************************************************************)
WqAdd(q, i) ==
    IF q.down \/ i \in q.dirty THEN q
    ELSE [q EXCEPT !.dirty = @ \cup {i},
                   !.queue = IF i \in q.processing THEN @ ELSE Append(@, i)]

WqDone(q, i) ==
    [q EXCEPT !.processing = @ \ {i},
              !.queue = IF i \in q.dirty THEN Append(@, i) ELSE @]

WqAddRateLimited(q, i) == IF q.down THEN q ELSE [q EXCEPT !.waiting = @ \cup {i}]

WqShutDown(q) == [q EXCEPT !.down = TRUE, !.waiting = {}]

WqGet(q) ==
    [q EXCEPT !.queue = Tail(@), !.dirty = @ \ {Head(q.queue)},
              !.processing = @ \cup {Head(q.queue)}]

Onto(g, q) == wqs' = [wqs EXCEPT ![g] = q]

-----------------------------------------------------------------------------
Init ==
    /\ mode \in Mode
    /\ mutex = "free"
    /\ wqs = <<NewWorkqueue>>
    /\ forget = {}
    /\ shutdown = <<>>
    /\ running = "nil"
    /\ worker = [pc |-> "new", item |-> CHOOSE i \in Item : TRUE, gen |-> 1]
    /\ sd = "idle"
    /\ ctxDone = FALSE
    /\ adds = 0
    /\ want = {}

(***************************************************************************)
(* The callers' methods.                                                   *)
(***************************************************************************)
\* Mutation: Add leaves a pending Remove in place.
AddKeepsForget(i) ==
    /\ mutex = "free" /\ adds < MaxAdd
    /\ adds' = adds + 1
    /\ Onto(cur, WqAdd(wqs[cur], i))
    /\ want' = IF wqs[cur].down THEN want ELSE want \cup {i}
    /\ UNCHANGED <<mode, mutex, forget, shutdown, running, worker, sd, ctxDone>>

Add(i) ==
    /\ mutex = "free" /\ adds < MaxAdd
    /\ adds' = adds + 1
    /\ forget' = forget \ {i}
    /\ Onto(cur, WqAdd(wqs[cur], i))
    /\ want' = IF wqs[cur].down THEN want ELSE want \cup {i}
    /\ UNCHANGED <<mode, mutex, shutdown, running, worker, sd, ctxDone>>

Remove(i) ==
    /\ mutex = "free"
    /\ forget' = forget \cup {i}
    /\ want' = want \ {i}
    /\ UNCHANGED <<mode, mutex, wqs, shutdown, running, worker, sd, ctxDone, adds>>

ClearSwap ==
    /\ mutex = "free" /\ cur <= mode.clears
    /\ mutex' = "Clear"
    /\ wqs' = Append([wqs EXCEPT ![cur] = WqShutDown(@)], NewWorkqueue)
    /\ forget' = {}
    /\ want' = {}
    /\ UNCHANGED <<mode, shutdown, running, worker, sd, ctxDone, adds>>

\* ShutDown closed q.shutdown.
Closed == sd \in {"unwaited", "returned"}

ClearSend ==
    /\ mutex = "Clear" /\ shutdown = <<>> /\ ~Closed
    /\ shutdown' = <<FALSE>>
    /\ mutex' = "free"
    /\ UNCHANGED <<mode, wqs, forget, running, worker, sd, ctxDone, adds, want>>

\* A send on the closed channel ends the process, the worker included.
ClearPanic ==
    /\ mutex = "Clear" /\ Closed
    /\ mutex' = "panic"
    /\ worker' = [worker EXCEPT !.pc = "returned"]
    /\ UNCHANGED <<mode, wqs, forget, shutdown, running, sd, ctxDone, adds, want>>

CancelContext ==
    /\ mode.context /\ ~ctxDone /\ running # "nil"
    /\ ctxDone' = TRUE
    /\ UNCHANGED <<mode, mutex, wqs, forget, shutdown, running, worker, sd, adds,
                 want>>

ShutDown ==
    /\ mutex = "free" /\ sd = "idle" /\ (mode.context => ctxDone)
    /\ mutex' = "ShutDown"
    /\ Onto(cur, WqShutDown(wqs[cur]))
    /\ want' = {}
    /\ sd' = "sending"
    /\ UNCHANGED <<mode, forget, shutdown, running, worker, ctxDone, adds>>

ShutDownSend ==
    /\ sd = "sending" /\ shutdown = <<>>
    /\ shutdown' = <<TRUE>>
    /\ sd' = IF running = "nil" THEN "unwaited" ELSE "waiting"
    /\ mutex' = IF running = "nil" THEN "free" ELSE mutex
    /\ UNCHANGED <<mode, wqs, forget, running, worker, ctxDone, adds, want>>

\* Mutation: ShutDown does not wait for the loop.
ShutDownReturnsEarly ==
    /\ sd = "waiting"
    /\ sd' = "returned"
    /\ mutex' = "free"
    /\ UNCHANGED <<mode, wqs, forget, shutdown, running, worker, ctxDone, adds, want>>

ShutDownReturn ==
    /\ sd = "waiting" /\ running = "closed"
    /\ sd' = "returned"
    /\ mutex' = "free"
    /\ UNCHANGED <<mode, wqs, forget, shutdown, running, worker, ctxDone, adds, want>>

(***************************************************************************)
(* RunWithContext.                                                         *)
(***************************************************************************)
Go(pc) == worker' = [worker EXCEPT !.pc = pc]

Start ==
    /\ worker.pc = "new" /\ running = "nil"
    /\ running' = "open"
    /\ Go("loop")
    /\ UNCHANGED <<mode, mutex, wqs, forget, shutdown, sd, ctxDone, adds, want>>

\* rateLimiter.Wait(ctx) fails once the context is canceled, and the loop
\* returns without closing q.running.
Loop ==
    /\ worker.pc = "loop"
    /\ IF mode.limited /\ ctxDone
       THEN Go("returned")
       ELSE worker' = [worker EXCEPT !.pc = "get", !.gen = cur]
    /\ UNCHANGED <<mode, mutex, wqs, forget, shutdown, running, sd, ctxDone, adds,
                 want>>

GetItem ==
    /\ worker.pc = "get" /\ wqs[worker.gen].queue # <<>>
    /\ worker' = [worker EXCEPT
                     !.pc = IF mode.failure THEN "forgotten" ELSE "sync",
                     !.item = Head(wqs[worker.gen].queue)]
    /\ Onto(worker.gen, WqGet(wqs[worker.gen]))
    /\ want' = IF mode.failure THEN want ELSE want \ {worker'.item}
    /\ UNCHANGED <<mode, mutex, forget, shutdown, running, sd, ctxDone, adds>>

GetQuit ==
    /\ worker.pc = "get"
    /\ wqs[worker.gen].queue = <<>> /\ wqs[worker.gen].down
    /\ Go("quit")
    /\ UNCHANGED <<mode, mutex, wqs, forget, shutdown, running, sd, ctxDone, adds,
                 want>>

\* Mutation: the loop returns without closing q.running.
QuitLeavesRunning ==
    /\ worker.pc = "quit" /\ shutdown # <<>>
    /\ shutdown' = <<>>
    /\ Go(IF Head(shutdown) THEN "returned" ELSE "loop")
    /\ UNCHANGED <<mode, mutex, wqs, forget, running, sd, ctxDone, adds, want>>

Quit ==
    /\ worker.pc = "quit" /\ shutdown # <<>>
    /\ shutdown' = <<>>
    /\ IF Head(shutdown)
       THEN Go("returned") /\ running' = "closed"
       ELSE Go("loop") /\ UNCHANGED running
    /\ UNCHANGED <<mode, mutex, wqs, forget, sd, ctxDone, adds, want>>

Forgotten ==
    /\ worker.pc = "forgotten" /\ mutex = "free"
    /\ \/ /\ worker.item \in forget
          /\ Go("done")
          /\ forget' = forget \ {worker.item}
          /\ UNCHANGED want
       \/ /\ worker.item \notin forget
          /\ Go("sync")
          /\ want' = want \ {worker.item}
          /\ UNCHANGED forget
    /\ UNCHANGED <<mode, mutex, wqs, shutdown, running, sd, ctxDone, adds>>

\* The callback returns: q.sync, or q.syncFailure with or without an error.
SyncEnd(failed) ==
    /\ worker.pc = "sync" /\ (failed => mode.failure)
    /\ Go("done")
    /\ IF failed THEN Onto(cur, WqAddRateLimited(wqs[cur], worker.item))
                 ELSE UNCHANGED wqs
    /\ UNCHANGED <<mode, mutex, forget, shutdown, running, sd, ctxDone, adds, want>>

Done ==
    /\ worker.pc = "done"
    /\ Go("loop")
    /\ Onto(cur, WqDone(wqs[cur], worker.item))
    /\ UNCHANGED <<mode, mutex, forget, shutdown, running, sd, ctxDone, adds, want>>

\* External: the retry delay of an item expires.
Expire(i) ==
    /\ i \in wqs[cur].waiting
    /\ Onto(cur, WqAdd([wqs[cur] EXCEPT !.waiting = @ \ {i}], i))
    /\ UNCHANGED <<mode, mutex, forget, shutdown, running, worker, sd, ctxDone, adds,
                 want>>

Worker == \/ Start \/ Loop \/ GetItem \/ GetQuit \/ Quit \/ Forgotten
          \/ Done \/ SyncEnd(FALSE)

Caller == \/ \E i \in Item : Add(i)
          \/ \E i \in Removable : Remove(i)
          \/ ClearSwap \/ CancelContext \/ ShutDown

Blocked == ClearSend \/ ClearPanic \/ ShutDownSend \/ ShutDownReturn

Next == \/ Worker \/ Caller \/ Blocked
        \/ SyncEnd(TRUE)
        \/ \E i \in Item : Expire(i)

Spec == Init /\ [][Next]_vars

(***************************************************************************)
(* Goroutines that can run do run, callbacks return and retry delays       *)
(* expire.  Nothing makes a caller call, or a callback succeed.            *)
(***************************************************************************)
FairSpec ==
    /\ Spec
    /\ WF_vars(Worker)
    /\ WF_vars(Blocked)
    /\ \A i \in Item : WF_vars(Expire(i))

-----------------------------------------------------------------------------
Workqueue == [queue : Seq(Item), dirty : SUBSET Item,
              processing : SUBSET Item, waiting : SUBSET Item, down : BOOLEAN]

\* Every field of the queue, its workqueues and its worker keeps its type.
TypeOK ==
    /\ mode \in Mode
    /\ mutex \in {"free", "Clear", "ShutDown", "panic"}
    /\ wqs \in Seq(Workqueue) /\ wqs # <<>>
    /\ forget \in SUBSET Item
    /\ shutdown \in {<<>>, <<TRUE>>, <<FALSE>>}
    /\ running \in {"nil", "open", "closed"}
    /\ worker \in [pc : {"new", "loop", "get", "quit", "forgotten", "sync",
                         "done", "returned"},
                   item : Item, gen : 1..cur]
    /\ sd \in {"idle", "sending", "waiting", "unwaited", "returned"}
    /\ ctxDone \in BOOLEAN
    /\ adds \in 0..MaxAdd
    /\ want \in SUBSET Item

\* ShutDown of a queue whose loop runs returns only after the loop is over:
\* no callback is running then and none starts later, so that what the
\* callback uses may be torn down.
ShutDownWaits == sd = "returned" => worker.pc = "returned"

\* An item added to a queue that is not shut down reaches the callback,
\* whatever else is added, fails or is retried meanwhile, unless it is removed
\* or the queue is cleared first: adding while the callback handles the same
\* item, or after a Remove that the worker did not see yet, loses nothing.
EventuallySynced == \A i \in Item : i \in want ~> i \notin want

\* ShutDown returns once the callback in progress returns.
ShutDownReturns == sd = "sending" ~> Closed

\* ShutDown of the queue of a worker without retries and without a context
\* returns once the callback in progress returns and the queue is drained.
LimitedShutDownReturns == (~mode.failure /\ ~mode.context) => ShutDownReturns
=============================================================================
