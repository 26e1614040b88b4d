--------------------------- MODULE RequestDispatch ---------------------------
(***************************************************************************)
(* mfs_request_do (src/src/request.c) run by concurrent request threads    *)
(* over the tracker pool of TrackerPool, together with the pool's          *)
(* maintenance threads and mfs_close_file_system's shutdown of them.       *)
(*                                                                         *)
(* A request thread snapshots the active trackers, walks the ring from a   *)
(* random start, and on each tracker keeps taking connections (pooled      *)
(* first, then a fresh one) until a request round-trips, the fresh         *)
(* connection fails, or no connection can be had.                          *)
(***************************************************************************)
EXTENDS TrackerPool

VARIABLES
    rv,       \* rv of mfs_request_do: the last status seen
    tried     \* trackers the current call has picked, in order (ghost)

dispatchVars == <<rv, tried>>
allVars == <<vars, dispatchVars>>

-----------------------------------------------------------------------------
(* mfs_request_do, lines 23-76 of request.c.                               *)

\* Lines 24-39: rv starts as APR_ECONNREFUSED; mfs_pool_list_active_trackers
\* reads active_tracker_count without the lock (pool.c:144) and returns
\* NULL when it is 0, which ends the call with nothing changed (that case
\* is a stuttering step and is left out).
mfs_request_do_start(w) ==
    /\ pc[w] = "idle"
    /\ mainPc = "run"
    /\ active # <<>>
    /\ pc' = [pc EXCEPT ![w] = "snapshot"]
    /\ UNCHANGED <<poolVars, lst, st, cur, ti, held, isNew, poolRunning, mainPc,
                   dispatchVars>>

\* pool.c:146-160: the copy under the read lock and the start position.
mfs_pool_list_active_trackers_snapshot(w) ==
    /\ pc[w] = "snapshot"
    /\ ListSnapshot(w, active, "next")
    /\ UNCHANGED <<poolVars, ti, held, isNew, poolRunning, mainPc,
                   dispatchVars>>

\* Lines 43-48: the outer loop takes the next tracker of the ring and
\* asks the pool for a connection to it; when the ring is done the call
\* returns rv.
mfs_request_do_next(w) ==
    /\ pc[w] = "next"
    /\ NextTracker(w, "idle")
    /\ tried' = [tried EXCEPT ![w] = CASE pc'[w] = "idle" -> <<>>
                                       [] pc'[w] = "oob"  -> @
                                       [] OTHER           -> Append(@, ti'[w])]
    /\ rv' = [rv EXCEPT ![w] = IF pc'[w] = "idle" THEN "ConnRefused" ELSE @]
    /\ UNCHANGED <<active, inactive, clock, poolRunning, mainPc>>

\* Lines 46-48: the inner loop asks again for a connection to the same
\* tracker (keep_trying_tracker: the last one came from the pool).
mfs_request_do_get(w) ==
    /\ pc[w] = "get"
    /\ mfs_pool_get_connection_ex(w, ti[w])
    /\ UNCHANGED <<active, inactive, clock, lst, st, cur, ti, poolRunning,
                   mainPc, dispatchVars>>

\* Lines 49-65: the request on the connection.  Success stamps the entry
\* (pool.c:315, mfs_pool_return_connection); any error destroys it, and
\* the thread stays on the tracker only if the connection was a pooled
\* one (keep_trying_tracker).
mfs_request_do_request(w) ==
    /\ pc[w] = "request"
    /\ \E r \in RequestOutcomes :
          /\ rv' = [rv EXCEPT ![w] = r]
          /\ \/ /\ r = "Success"
                /\ mfs_pool_return_connection_stamp(w)
                /\ pc' = [pc EXCEPT ![w] = "push"]
                /\ UNCHANGED <<live, held>>
             \/ /\ r # "Success"
                /\ DestroyHeld(w)
                /\ pc' = [pc EXCEPT ![w] = IF isNew[w] THEN "next" ELSE "get"]
    /\ isNew' = [isNew EXCEPT ![w] = FALSE]
    /\ UNCHANGED <<active, inactive, stack, clock, lst, st, cur, ti,
                   poolRunning, mainPc, tried>>

\* Line 63 (pool.c:318-326, the push under the tracker's mutex); then
\* connection_finished ends both loops and the call returns APR_SUCCESS.
mfs_request_do_return(w) ==
    /\ pc[w] = "push"
    /\ mfs_pool_return_connection_push(w)
    /\ pc' = [pc EXCEPT ![w] = "idle"]
    /\ ResetList(w)
    /\ rv' = [rv EXCEPT ![w] = "ConnRefused"]
    /\ tried' = [tried EXCEPT ![w] = <<>>]
    /\ UNCHANGED <<active, inactive, lastUsed, live, clock, isNew, poolRunning,
                   mainPc>>

WorkerStep(w) ==
    \/ mfs_request_do_start(w)
    \/ mfs_pool_list_active_trackers_snapshot(w)
    \/ mfs_request_do_next(w)
    \/ mfs_request_do_get(w)
    \/ mfs_request_do_request(w)
    \/ mfs_request_do_return(w)
    \/ PoolStep(w) /\ UNCHANGED dispatchVars

\* Once mfs_close_file_system has destroyed the pool nothing is left to do;
\* once a thread has read outside its tracker_list (undefined behaviour:
\* it dereferences a garbage tracker index) the process may be stuck.
Terminated ==
    /\ mainPc = "closed" \/ \E p \in Threads : pc[p] = "oob"
    /\ UNCHANGED allVars

Init ==
    /\ PoolInit
    /\ rv = [w \in Workers |-> "ConnRefused"]
    /\ tried = [w \in Workers |-> <<>>]

Next ==
    \/ \E w \in Workers : WorkerStep(w)
    \/ \E m \in MaintThreads : MaintStep(m) /\ UNCHANGED dispatchVars
    \/ StopStep /\ UNCHANGED dispatchVars
    \/ Tick /\ UNCHANGED dispatchVars
    \/ Terminated

\* Every thread is scheduled by the OS: none stops forever while it can
\* step.  The clock is not assumed to advance.
Spec ==
    /\ Init /\ [][Next]_allVars
    /\ \A w \in Workers : WF_allVars(WorkerStep(w))
    /\ \A m \in MaintThreads : WF_allVars(MaintStep(m) /\ UNCHANGED dispatchVars)
    /\ WF_allVars(StopStep /\ UNCHANGED dispatchVars)

-----------------------------------------------------------------------------
(* Properties.                                                             *)

TypeOK ==
    /\ active \in Seq(Trackers) /\ inactive \in Seq(Trackers)
    /\ stack \in [Trackers -> Seq(Conns)]
    /\ lastUsed \in [Conns -> 0 .. MaxClock]
    /\ live \subseteq Conns
    /\ clock \in 0 .. MaxClock
    /\ lst \in [Threads -> Seq(Trackers)]
    /\ st \in [Threads -> -1 .. NumTrackers - 1]
    /\ cur \in [Threads -> -1 .. NumTrackers - 1]
    /\ held \in [Threads -> Conns \cup {NoConn}]
    /\ ti \in [Threads -> Trackers \cup {NoTracker}]
    /\ isNew \in [Threads -> BOOLEAN]
    /\ poolRunning \in BOOLEAN
    /\ mainPc \in {"run", "signal", "join", "closed"}
    /\ rv \in [Workers -> {"ConnRefused"} \cup RequestOutcomes]
    /\ tried \in [Workers -> Seq(Trackers)]

\* Registry partition (spec section 3): however activations by the
\* maintenance threads and deactivations by failing request threads
\* interleave, every registered tracker is in exactly one of the active and
\* inactive arrays, exactly once.
TrackerPartition ==
    /\ IsInjective(active) /\ IsInjective(inactive)
    /\ ToSet(active) \cap ToSet(inactive) = {}
    /\ ToSet(active) \cup ToSet(inactive) = Trackers

\* Exclusive ownership of connections (spec section 3): every live
\* connection is either in exactly one slot of one tracker's stack or held
\* by exactly one thread, and no destroyed connection is anywhere; so a
\* popped connection is never visible to a second caller and a destroyed
\* one is never handed out.
Occurrences(c) ==
    Cardinality(UNION {{<<t, i>> : i \in {j \in DOMAIN stack[t] : stack[t][j] = c}}
                       : t \in Trackers})
    + Cardinality({p \in Threads : held[p] = c})

ConnectionOwnership ==
    \A c \in Conns : Occurrences(c) = IF c \in live THEN 1 ELSE 0

\* Ring iteration (spec 4.3, 4.4): one call of mfs_request_do picks each
\* tracker of its snapshot at most once, and when it gives up having
\* found no working tracker it has tried every tracker of the snapshot.
DispatchTriesEachOnce ==
    /\ [](\A w \in Workers : IsInjective(tried[w])
                             /\ ToSet(tried[w]) \subseteq ToSet(lst[w]))
    /\ [][\A w \in Workers : (pc[w] = "next" /\ pc'[w] = "idle")
                               => ToSet(tried[w]) = ToSet(lst[w])]_allVars

\* Shutdown (mfs_pool_stop_maintenance_thread): once pool_running is
\* cleared every maintenance thread eventually leaves its loop, even when
\* the signal is sent while it is not waiting.  (A thread lost in an
\* out-of-bounds read is excluded; NoOutOfBoundsRead is about it.)
MaintenanceStops ==
    ~poolRunning ~> \A m \in MaintThreads : pc[m] \in {"exit", "oob"}

\* Every mfs_request_do call returns (request.c:43-67): the ring walk ends
\* after each tracker of the snapshot, and the keep_trying_tracker loop on
\* one tracker ends because a failed pooled connection is destroyed and a
\* fresh one ends the loop.  (A thread lost in an out-of-bounds read is
\* excluded.)  TLC breaks it under per-thread weak fairness: another
\* request thread can push a connection back between every failed pooled
\* request, and mfs_pool_deactivate's drain (pool.c:250-256) runs while
\* the maintenance thread pushes probe connections onto the stack.
RequestReturns ==
    \A w \in Workers : pc[w] # "idle" ~> pc[w] \in {"idle", "oob"}

\* Spec 3 and 4.2: the stack is LIFO by release, so the most recently
\* released connection is on top and the reap walking from the tail meets
\* the oldest ones first: along every stack, last_used never increases.
\* mfs_pool_return_connection stamps last_used before it takes the mutex
\* (pool.c:315), so two returns can push in the other order.
StackOrderedByLastUsed ==
    \A t \in Trackers : \A i, j \in DOMAIN stack[t] :
        i < j => lastUsed[stack[t][i]] >= lastUsed[stack[t][j]]

\* Spec 8: "Deactivating a tracker ... destroys all pooled connections for
\* it": a tracker in the inactive array has an empty connection stack.
InactiveTrackerHasNoPooledConnections ==
    \A i \in 1 .. Len(inactive) : stack[inactive[i]] = <<>>

\* mfs_pool_current_tracker_index only reads positions of the copied
\* array: no thread ever reads outside its tracker_list.
NoOutOfBoundsRead ==
    \A p \in Threads : pc[p] # "oob"

\* Spec 7: a framing error (malformed tracker reply) is fatal for the call:
\* mfs_request_do sends no further request after one.
FramingErrorNotRetried ==
    \A w \in Workers : pc[w] = "request" => rv[w] # "FramingError"

\* mfs_destroy_pool frees the pool only after every maintenance thread
\* using it has exited.
PoolFreedAfterMaintenanceExit ==
    mainPc = "closed" => \A m \in MaintThreads : pc[m] = "exit"

-----------------------------------------------------------------------------
(* Refinement of ConnectionRegistry.                                       *)

\* The owner of a connection is the thread holding it; its home is the
\* tracker whose stack holds it, or the tracker the holding thread works on
\* (the tracker_index it will return the entry with).
HolderOf(c) == CHOOSE p \in Threads : held[p] = c
IsHeld(c) == \E p \in Threads : held[p] = c
PooledAt(c) == {t \in Trackers : c \in ToSet(stack[t])}

Registry == INSTANCE ConnectionRegistry WITH
    Nobody <- NoConn,
    up     <- ToSet(active),
    idle   <- [t \in Trackers |-> ToSet(stack[t])],
    owner  <- [c \in Conns |-> IF IsHeld(c) THEN HolderOf(c) ELSE NoConn],
    home   <- [c \in Conns |->
                 IF IsHeld(c) THEN ti[HolderOf(c)]
                 ELSE IF PooledAt(c) # {} THEN CHOOSE t \in PooledAt(c) : TRUE
                 ELSE NoTracker]

\* The pool implements the registry contract: trackers move between active
\* and inactive one at a time, a thread owns at most one connection, it
\* takes only idle ones of the tracker it asked for, and every return
\* (mfs_pool_return_connection with the caller's tracker_index) puts the
\* connection back in the pool of the tracker it was connected to; a
\* destroyed connection was held by the destroyer or idle.
RegistrySpec == Registry!Spec

====
