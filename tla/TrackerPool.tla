---------------------------- MODULE TrackerPool ----------------------------
(***************************************************************************)
(* The tracker registry and per-tracker connection pools of src/src/pool.c *)
(* together with its background maintenance thread and its shutdown.       *)
(*                                                                         *)
(* Shared state: the active/inactive index arrays (guarded by the rwlock), *)
(* one LIFO connection stack per tracker (guarded by the tracker's mutex)  *)
(* and the last_used stamp of each pooled connection.  Every critical      *)
(* section of pool.c is one atomic step; every call made outside a lock    *)
(* (connect, request, the unlocked count checks, the stamp before the      *)
(* push) is a step of its own, so other threads can run in between.        *)
(*                                                                         *)
(* Threads run pool.c's functions with their own locals: the snapshot list *)
(* (tracker_list), the tracker being used, and the connection held.  The   *)
(* functions called by both the request threads (request.c) and the        *)
(* maintenance thread (mfs_pool_get_connection_ex, mfs_pool_deactivate,    *)
(* mfs_pool_return_connection) return to a caller-specific label.          *)
(***************************************************************************)
EXTENDS Integers, Sequences, SequencesExt, FiniteSets

CONSTANTS
    NumTrackers,     \* trackers registered by mfs_pool_init_quick
    Workers,         \* request threads (callers of mfs_request_do)
    MaintThreads,    \* maintenance threads started on this pool
    MaintHandle,     \* the thread stored in trackers->maintenance_thread
    Conns,           \* identities of tracker connections (reused when freed)
    NoConn,          \* model value: no connection held (NULL entry)
    NoTracker,       \* model value: no tracker selected
    MaxClock,        \* bound on the clock (apr_time_now, in abstract ticks)
    ExpireTime,      \* MFS_CONNECTION_EXPIRE_TIME in ticks
    RequestOutcomes  \* what mfs_tracker_request may return

Trackers == 0 .. NumTrackers - 1
Threads  == Workers \cup MaintThreads

ASSUME /\ NumTrackers \in Nat \ {0}
       /\ MaintThreads # {} => MaintHandle \in MaintThreads
       /\ Workers \cap MaintThreads = {}
       /\ NoConn \notin Conns
       /\ NoTracker \notin Trackers
       /\ MaxClock \in Nat /\ ExpireTime \in Nat
       /\ RequestOutcomes \subseteq {"Success", "TransportError", "FramingError"}
       /\ "Success" \in RequestOutcomes

VARIABLES
    active,       \* active_trackers[0..active_tracker_count-1]
    inactive,     \* inactive_trackers[0..inactive_tracker_count-1]
    stack,        \* connection_stack of each tracker, head first
    lastUsed,     \* last_used of each connection entry
    live,         \* connections that exist (created, not yet destroyed)
    clock,        \* apr_time_now()
    pc,           \* program counter of each thread
    lst,          \* tracker_list->tracker_indexes (the thread's snapshot)
    st,           \* tracker_list->start_postion
    cur,          \* tracker_list->current_position
    ti,           \* tracker index the thread is working on
    held,         \* connection entry the thread owns
    isNew,        \* create_new out-parameter of mfs_pool_get_connection_ex
    poolRunning,  \* trackers->pool_running
    mainPc        \* the thread calling mfs_close_file_system

poolVars   == <<active, inactive, stack, lastUsed, live, clock>>
threadVars == <<pc, lst, st, cur, ti, held, isNew>>
vars       == <<poolVars, threadVars, poolRunning, mainPc>>


-----------------------------------------------------------------------------
(* Where a thread goes when a shared pool.c function is done.  Code that   *)
(* only touches a thread's own locals (the ring iterator of a copied       *)
(* tracker_list, the connect call, the last_used stamp of an entry it      *)
(* owns) is folded into the neighbouring locked step: other threads cannot *)
(* observe it, so this removes no interleaving of shared-state accesses.   *)

\* mfs_pool_get_connection_ex returned NULL: the caller moves on to the
\* next tracker of its list.
AfterNoConnection(p) == IF p \in Workers THEN "next" ELSE "ti_next"

\* mfs_pool_get_connection_ex returned an entry: the caller sends its request.
RequestLabel(p) == IF p \in Workers THEN "request" ELSE "ti_request"

\* Connection identities not in use (apr_pool_create + connect).
FreeConns == Conns \ live

\* A connection entry whose last_used is before the cutoff of
\* mfs_pool_get_expired_trackers.
Expired(c) == lastUsed[c] < clock - ExpireTime

\* Length of the suffix of s that the loop from APR_RING_LAST walks over:
\* it stops at the first entry that is not expired.
ExpiredSuffixLen(s) ==
    LET ok(k) == \A i \in (Len(s) - k + 1) .. Len(s) : Expired(s[i])
    IN  CHOOSE k \in 0 .. Len(s) : ok(k) /\ \A j \in (k + 1) .. Len(s) : ~ok(j)

\* remove_from_array on the prefix of an index array: shifts the entries
\* after the first occurrence down by one.  The read of values[length] by
\* the last iteration lands in the slot the caller then drops.
remove_from_array(s, t) == RemoveFirst(s, t)

\* The start position of mfs_pool_list_*_trackers:
\* rint(rand()/RAND_MAX * (count-1)).  With count = 0 the product is in
\* [-1, 0] and rint yields 0 or -1.
StartPositions(n) == IF n > 0 THEN 0 .. n - 1 ELSE {-1, 0}

\* Variants of mfs_pool_next_tracker with an iterator bug: the wrap to 0
\* forgotten, and the return-to-start test made before the wrap.
NextTrackerNoWrap(p) ==
    IF cur[p] = -1 THEN st[p]
    ELSE IF cur[p] + 1 = st[p] THEN -2 ELSE cur[p] + 1

NextTrackerStartTestBeforeWrap(p) ==
    IF cur[p] = -1 THEN st[p]
    ELSE LET c1 == cur[p] + 1
         IN  IF c1 = st[p] THEN -2 ELSE IF c1 >= Len(lst[p]) THEN 0 ELSE c1

\* mfs_pool_next_tracker: the position it moves to, or -2 for NULL.
mfs_pool_next_tracker(p) ==
    IF cur[p] = -1 THEN st[p]
    ELSE LET c1 == cur[p] + 1
             c2 == IF c1 >= Len(lst[p]) THEN 0 ELSE c1
         IN  IF c2 = st[p] THEN -2 ELSE c2

\* mfs_pool_current_tracker_index reads tracker_indexes[pos]; a position
\* outside 0..count-1 is a read outside the copied array.
InList(p, pos) == pos \in 0 .. Len(lst[p]) - 1

\* mfs_pool_destroy_connection: the entry's memory goes with its pool.
Destroy(cs) ==
    /\ live' = live \ cs
    /\ lastUsed' = [c \in Conns |-> IF c \in cs THEN 0 ELSE lastUsed[c]]

-----------------------------------------------------------------------------
(* mfs_pool_list_*_trackers and mfs_pool_next_tracker.                     *)

\* Lines 147-159: copy the array under the read lock, pick a start
\* position.  `from` is the live array (active or inactive).
ListSnapshot(p, from, to) ==
    /\ lst' = [lst EXCEPT ![p] = from]
    /\ \E s \in StartPositions(Len(from)) : st' = [st EXCEPT ![p] = s]
    /\ cur' = [cur EXCEPT ![p] = -1]
    /\ pc' = [pc EXCEPT ![p] = to]

\* When a thread is done with its tracker_list the list's memory is dead;
\* its locals go back to their initial values.
ResetList(p) ==
    /\ lst' = [lst EXCEPT ![p] = <<>>]
    /\ st' = [st EXCEPT ![p] = 0]
    /\ cur' = [cur EXCEPT ![p] = -1]
    /\ ti' = [ti EXCEPT ![p] = NoTracker]

-----------------------------------------------------------------------------
(* mfs_pool_get_connection_ex, lines 263-311, with create_new = true.      *)

\* Variant of the pop that reads APR_RING_FIRST without APR_RING_REMOVE.
GetConnectionPeek(p, t) ==
    \/ /\ stack[t] # <<>>
       /\ held' = [held EXCEPT ![p] = Head(stack[t])]
       /\ isNew' = [isNew EXCEPT ![p] = FALSE]
       /\ pc' = [pc EXCEPT ![p] = RequestLabel(p)]
       /\ UNCHANGED <<live, lastUsed, stack>>
    \/ /\ stack[t] = <<>>
       /\ FreeConns # {}
       /\ LET c == CHOOSE x \in FreeConns : TRUE IN
            /\ live' = live \cup {c}
            /\ held' = [held EXCEPT ![p] = c]
       /\ isNew' = [isNew EXCEPT ![p] = TRUE]
       /\ pc' = [pc EXCEPT ![p] = RequestLabel(p)]
       /\ UNCHANGED <<stack, lastUsed>>
    \/ /\ stack[t] = <<>>
       /\ isNew' = [isNew EXCEPT ![p] = TRUE]
       /\ pc' = [pc EXCEPT ![p] = "deactivate"]
       /\ UNCHANGED <<live, held, stack, lastUsed>>

\* tracker.c lines 50-76, mfs_tracker_connect: apr_socket_create or
\* apr_socket_connect may fail, and the status goes back to the caller
\* with nothing made; otherwise a new connection (a free identity) exists
\* and the caller holds it.
mfs_tracker_connect(p, connected) ==
    IF connected
    THEN /\ FreeConns # {}
         /\ LET c == CHOOSE x \in FreeConns : TRUE IN
              /\ live' = live \cup {c}
              /\ held' = [held EXCEPT ![p] = c]
    ELSE UNCHANGED <<live, held>>

\* Lines 265-310 on tracker t: pop the head of the stack under the
\* tracker's mutex; on an empty stack connect outside the lock, which
\* either wraps a fresh connection or fails and calls mfs_pool_deactivate.
\* isNew is the create_new out-parameter.
mfs_pool_get_connection_ex(p, t) ==
    \/ /\ stack[t] # <<>>
       /\ held' = [held EXCEPT ![p] = Head(stack[t])]
       /\ stack' = [stack EXCEPT ![t] = Tail(stack[t])]
       /\ isNew' = [isNew EXCEPT ![p] = FALSE]
       /\ pc' = [pc EXCEPT ![p] = RequestLabel(p)]
       /\ UNCHANGED <<live, lastUsed>>
    \/ /\ stack[t] = <<>>
       /\ \E connected \in BOOLEAN :
            /\ mfs_tracker_connect(p, connected)
            /\ pc' = [pc EXCEPT ![p] = IF connected THEN RequestLabel(p)
                                                    ELSE "deactivate"]
       /\ isNew' = [isNew EXCEPT ![p] = TRUE]
       /\ UNCHANGED <<stack, lastUsed>>

\* Lines 183-200 followed by the get on the tracker found: NULL goes to
\* `done`, a position inside the list picks its tracker, any other
\* position is a read outside the array (undefined behaviour: the thread
\* is lost).
NextTracker(p, done) ==
    LET pos == mfs_pool_next_tracker(p) IN
    \/ /\ pos = -2
       /\ pc' = [pc EXCEPT ![p] = done]
       /\ ResetList(p)
       /\ UNCHANGED <<stack, live, lastUsed, held, isNew>>
    \/ /\ pos # -2
       /\ InList(p, pos)
       /\ cur' = [cur EXCEPT ![p] = pos]
       /\ ti' = [ti EXCEPT ![p] = lst[p][pos + 1]]
       /\ mfs_pool_get_connection_ex(p, lst[p][pos + 1])
       /\ UNCHANGED <<lst, st>>
    \/ /\ pos # -2
       /\ ~InList(p, pos)
       /\ cur' = [cur EXCEPT ![p] = pos]
       /\ pc' = [pc EXCEPT ![p] = "oob"]
       /\ UNCHANGED <<lst, st, ti, stack, live, lastUsed, held, isNew>>

-----------------------------------------------------------------------------
(* mfs_pool_deactivate, lines 234-257.                                     *)

\* Variant of mfs_pool_deactivate that ignores remove_from_array's result.
DeactivateUnconditional(p) ==
    /\ pc[p] = "deactivate"
    /\ active' = remove_from_array(active, ti[p])
    /\ inactive' = Append(inactive, ti[p])
    /\ pc' = [pc EXCEPT ![p] = "drain"]
    /\ UNCHANGED <<stack, lastUsed, live, clock, lst, st, cur, ti, held,
                   isNew, poolRunning, mainPc>>

\* Lines 235-249: under the write lock, move the tracker from the active
\* to the inactive array if it is active.
mfs_pool_deactivate(p) ==
    /\ pc[p] = "deactivate"
    /\ LET t == ti[p] IN
       \/ /\ Contains(active, t)
          /\ active' = remove_from_array(active, t)
          /\ inactive' = Append(inactive, t)
          /\ pc' = [pc EXCEPT ![p] = "drain"]
       \/ /\ ~Contains(active, t)
          /\ pc' = [pc EXCEPT ![p] = AfterNoConnection(p)]
          /\ UNCHANGED <<active, inactive>>
    /\ UNCHANGED <<stack, lastUsed, live, clock, lst, st, cur, ti, held,
                   isNew, poolRunning, mainPc>>

\* Lines 250-256: outside the lock, pop (create_new = false) and destroy
\* pooled connections of the tracker until the stack is empty.
mfs_pool_deactivate_drain(p) ==
    /\ pc[p] = "drain"
    /\ LET t == ti[p] IN
       \/ /\ stack[t] # <<>>
          /\ Destroy({Head(stack[t])})
          /\ stack' = [stack EXCEPT ![t] = Tail(stack[t])]
          /\ UNCHANGED pc
       \/ /\ stack[t] = <<>>
          /\ pc' = [pc EXCEPT ![p] = AfterNoConnection(p)]
          /\ UNCHANGED <<live, stack, lastUsed>>
    /\ UNCHANGED <<active, inactive, clock, lst, st, cur, ti, held,
                   isNew, poolRunning, mainPc>>

\* Variant of mfs_pool_activate that ignores remove_from_array's result.
ActivateUnconditional(t) ==
    /\ inactive' = remove_from_array(inactive, t)
    /\ active' = Append(active, t)

\* mfs_pool_activate, lines 217-232: under the write lock, move the
\* tracker from the inactive to the active array if it is inactive.
mfs_pool_activate(t) ==
    \/ /\ Contains(inactive, t)
       /\ inactive' = remove_from_array(inactive, t)
       /\ active' = Append(active, t)
    \/ /\ ~Contains(inactive, t)
       /\ UNCHANGED <<active, inactive>>

-----------------------------------------------------------------------------
(* mfs_pool_return_connection, lines 313-332.                              *)

\* Line 315: last_used = apr_time_now(), before taking the mutex.  The
\* entry is owned by the thread, so the stamp is folded into the step
\* that precedes it.
mfs_pool_return_connection_stamp(p) ==
    lastUsed' = [lastUsed EXCEPT ![held[p]] = clock]

\* Variant of the push given another tracker's index than the one the
\* entry was taken from.
ReturnPushWrongTracker(p) ==
    /\ stack' = [stack EXCEPT ![(ti[p] + 1) % NumTrackers] =
                     <<held[p]>> \o stack[(ti[p] + 1) % NumTrackers]]
    /\ held' = [held EXCEPT ![p] = NoConn]

\* Lines 318-326: push the entry on the head of the stack.
mfs_pool_return_connection_push(p) ==
    /\ stack' = [stack EXCEPT ![ti[p]] = <<held[p]>> \o stack[ti[p]]]
    /\ held' = [held EXCEPT ![p] = NoConn]

\* mfs_pool_destroy_connection of the connection the thread holds.
DestroyHeld(p) ==
    /\ Destroy({held[p]})
    /\ held' = [held EXCEPT ![p] = NoConn]

-----------------------------------------------------------------------------
(* The maintenance thread, mfs_pool_maintenance (lines 369-393).           *)

\* Variant of the loop head testing a copy of pool_running taken when the
\* thread started.
MaintenanceCheckStaleFlag(m) ==
    /\ pc[m] = "check"
    /\ pc' = [pc EXCEPT ![m] = "ti_count"]
    /\ UNCHANGED <<poolVars, lst, st, cur, ti, held, isNew, poolRunning, mainPc>>

\* Line 372: the loop head reads pool_running.
mfs_pool_maintenance_check(m) ==
    /\ pc[m] = "check"
    /\ pc' = [pc EXCEPT ![m] = IF poolRunning THEN "ti_count" ELSE "exit"]
    /\ UNCHANGED <<poolVars, lst, st, cur, ti, held, isNew, poolRunning, mainPc>>

\* mfs_pool_test_inactive_trackers, lines 395-422.
\* Line 164: inactive_tracker_count == 0 is read without the lock.
mfs_pool_list_inactive_trackers_count(m) ==
    /\ pc[m] = "ti_count"
    /\ pc' = [pc EXCEPT ![m] = IF inactive = <<>> THEN "ex_count"
                                                   ELSE "ti_snapshot"]
    /\ UNCHANGED <<poolVars, lst, st, cur, ti, held, isNew, poolRunning, mainPc>>

\* Lines 166-180: the copy under the read lock.
mfs_pool_list_inactive_trackers_snapshot(m) ==
    /\ pc[m] = "ti_snapshot"
    /\ ListSnapshot(m, inactive, "ti_next")
    /\ UNCHANGED <<poolVars, ti, held, isNew, poolRunning, mainPc>>

\* Lines 404-406: the loop over the inactive snapshot and its
\* mfs_pool_get_connection(create_new = true); the loop ends in
\* mfs_pool_expire_active_trackers.
mfs_pool_test_inactive_trackers_next(m) ==
    /\ pc[m] = "ti_next"
    /\ NextTracker(m, "ex_count")
    /\ UNCHANGED <<active, inactive, clock, poolRunning, mainPc>>

\* Lines 407-418: the get_paths probe.  Success calls mfs_pool_activate
\* and stamps the entry for mfs_pool_return_connection; failure destroys
\* the connection.
mfs_pool_test_inactive_trackers_probe(m) ==
    /\ pc[m] = "ti_request"
    /\ \E r \in RequestOutcomes :
          \/ /\ r = "Success"
             /\ mfs_pool_activate(ti[m])
             /\ mfs_pool_return_connection_stamp(m)
             /\ pc' = [pc EXCEPT ![m] = "ti_push"]
             /\ UNCHANGED <<live, held>>
          \/ /\ r # "Success"
             /\ DestroyHeld(m)
             /\ pc' = [pc EXCEPT ![m] = "ti_next"]
             /\ UNCHANGED <<active, inactive>>
    /\ isNew' = [isNew EXCEPT ![m] = FALSE]
    /\ UNCHANGED <<stack, clock, lst, st, cur, ti, poolRunning, mainPc>>

\* Line 415: the push of mfs_pool_return_connection; the loop goes on.
mfs_pool_test_inactive_trackers_return(m) ==
    /\ pc[m] = "ti_push"
    /\ mfs_pool_return_connection_push(m)
    /\ pc' = [pc EXCEPT ![m] = "ti_next"]
    /\ UNCHANGED <<active, inactive, lastUsed, live, clock, lst, st, cur, ti,
                   isNew, poolRunning, mainPc>>

\* mfs_pool_expire_active_trackers, lines 424-441.
\* Line 144: active_tracker_count == 0 is read without the lock.
mfs_pool_list_active_trackers_count_maint(m) ==
    /\ pc[m] = "ex_count"
    /\ pc' = [pc EXCEPT ![m] = IF active = <<>> THEN "sleeping"
                                                 ELSE "ex_snapshot"]
    /\ UNCHANGED <<poolVars, lst, st, cur, ti, held, isNew, poolRunning, mainPc>>

\* Lines 146-160: the copy under the read lock.
mfs_pool_list_active_trackers_snapshot_maint(m) ==
    /\ pc[m] = "ex_snapshot"
    /\ ListSnapshot(m, active, "ex_next")
    /\ UNCHANGED <<poolVars, ti, held, isNew, poolRunning, mainPc>>

\* Variant of the reap that destroys the expired suffix but never
\* unsplices it from the stack.
GetExpiredNoUnsplice(t) ==
    LET s == stack[t] IN
    /\ Destroy(ToSet(SubSeq(s, Len(s) - ExpiredSuffixLen(s) + 1, Len(s))))
    /\ UNCHANGED stack

\* mfs_pool_get_expired_trackers (lines 443-470) under the tracker's mutex:
\* walk from the tail while entries are older than the cutoff and
\* unsplice that suffix; then lines 434-438 destroy its entries.
mfs_pool_get_expired_trackers(t) ==
    LET s == stack[t]
        k == ExpiredSuffixLen(s)
    IN  /\ stack' = [stack EXCEPT ![t] = SubSeq(s, 1, Len(s) - k)]
        /\ Destroy(ToSet(SubSeq(s, Len(s) - k + 1, Len(s))))

\* Lines 429-439: the loop over the active snapshot reaps each tracker.
\* When the list is done the thread goes on to lines 382-388: it takes
\* the maintenance mutex and waits on the condition variable.
mfs_pool_expire_active_trackers_next(m) ==
    /\ pc[m] = "ex_next"
    /\ LET pos == mfs_pool_next_tracker(m) IN
       \/ /\ pos = -2
          /\ pc' = [pc EXCEPT ![m] = "sleeping"]
          /\ ResetList(m)
          /\ UNCHANGED <<stack, live, lastUsed>>
       \/ /\ pos # -2
          /\ InList(m, pos)
          /\ mfs_pool_get_expired_trackers(lst[m][pos + 1])
          /\ cur' = [cur EXCEPT ![m] = pos]
          /\ UNCHANGED <<pc, lst, st, ti>>
       \/ /\ pos # -2
          /\ ~InList(m, pos)
          /\ cur' = [cur EXCEPT ![m] = pos]
          /\ pc' = [pc EXCEPT ![m] = "oob"]
          /\ UNCHANGED <<lst, st, ti, stack, live, lastUsed>>
    /\ UNCHANGED <<active, inactive, clock, held, isNew, poolRunning, mainPc>>

\* Line 388: apr_thread_cond_timedwait returns after
\* MFS_POOL_MAINTENANCE_POLL_TIME without a signal.
mfs_pool_maintenance_timeout(m) ==
    /\ pc[m] = "sleeping"
    /\ pc' = [pc EXCEPT ![m] = "check"]
    /\ UNCHANGED <<poolVars, lst, st, cur, ti, held, isNew, poolRunning, mainPc>>

-----------------------------------------------------------------------------
(* mfs_pool_stop_maintenance_thread (lines 358-367) and mfs_destroy_pool   *)
(* (lines 96-114), called by mfs_close_file_system once the request        *)
(* threads are done.                                                       *)

\* Line 359: with no maintenance thread (mfs_pool_disable_maintenance) the
\* stop does nothing and mfs_destroy_pool follows.
mfs_pool_stop_maintenance_thread_none ==
    /\ mainPc = "run"
    /\ MaintThreads = {}
    /\ \A w \in Workers : pc[w] \in {"idle", "oob"}
    /\ mainPc' = "join"
    /\ UNCHANGED <<poolVars, threadVars, poolRunning>>

\* Line 360: pool_running = false, without the mutex.
mfs_pool_stop_maintenance_thread_flag ==
    /\ mainPc = "run"
    /\ MaintThreads # {}
    /\ \A w \in Workers : pc[w] \in {"idle", "oob"}
    /\ poolRunning' = FALSE
    /\ mainPc' = "signal"
    /\ UNCHANGED <<poolVars, threadVars>>

\* Lines 361-363: signal the condition under the mutex; it wakes one
\* waiting thread, or nobody.
mfs_pool_stop_maintenance_thread_signal ==
    /\ mainPc = "signal"
    /\ \/ \E m \in MaintThreads :
             /\ pc[m] = "sleeping"
             /\ pc' = [pc EXCEPT ![m] = "check"]
       \/ /\ \A m \in MaintThreads : pc[m] # "sleeping"
          /\ UNCHANGED pc
    /\ mainPc' = "join"
    /\ UNCHANGED <<poolVars, lst, st, cur, ti, held, isNew, poolRunning>>

\* Lines 96-114: mfs_destroy_connection_pool on every tracker pops and
\* destroys each pooled connection; then the pool's memory is freed.
mfs_destroy_pool ==
    /\ Destroy(UNION {ToSet(stack[t]) : t \in Trackers})
    /\ stack' = [t \in Trackers |-> <<>>]

\* Line 365 joins trackers->maintenance_thread (when one was started);
\* mfs_destroy_pool follows in the caller.
mfs_pool_stop_maintenance_thread_join ==
    /\ mainPc = "join"
    /\ \A h \in MaintThreads \cap {MaintHandle} : pc[h] = "exit"
    /\ mfs_destroy_pool
    /\ mainPc' = "closed"
    /\ UNCHANGED <<active, inactive, clock, threadVars, poolRunning>>

\* Time passes (bounded by MaxClock).
Tick ==
    /\ clock < MaxClock
    /\ clock' = clock + 1
    /\ UNCHANGED <<active, inactive, stack, lastUsed, live, threadVars,
                   poolRunning, mainPc>>

-----------------------------------------------------------------------------
(* Steps any thread may take inside the shared functions.                  *)

PoolStep(p) ==
    \/ mfs_pool_deactivate(p)
    \/ mfs_pool_deactivate_drain(p)

MaintStep(m) ==
    \/ mfs_pool_maintenance_check(m)
    \/ mfs_pool_list_inactive_trackers_count(m)
    \/ mfs_pool_list_inactive_trackers_snapshot(m)
    \/ mfs_pool_test_inactive_trackers_next(m)
    \/ mfs_pool_test_inactive_trackers_probe(m)
    \/ mfs_pool_test_inactive_trackers_return(m)
    \/ mfs_pool_list_active_trackers_count_maint(m)
    \/ mfs_pool_list_active_trackers_snapshot_maint(m)
    \/ mfs_pool_expire_active_trackers_next(m)
    \/ mfs_pool_maintenance_timeout(m)
    \/ PoolStep(m)

StopStep ==
    \/ mfs_pool_stop_maintenance_thread_none
    \/ mfs_pool_stop_maintenance_thread_flag
    \/ mfs_pool_stop_maintenance_thread_signal
    \/ mfs_pool_stop_maintenance_thread_join

\* mfs_pool_init_quick: every tracker registered and active, empty stacks;
\* registering the last tracker (and mfs_init_file_system) started the
\* maintenance threads, which are at their loop head.
PoolInit ==
    /\ active = [i \in 1 .. NumTrackers |-> i - 1]
    /\ inactive = <<>>
    /\ stack = [t \in Trackers |-> <<>>]
    /\ lastUsed = [c \in Conns |-> 0]
    /\ live = {}
    /\ clock = 0
    /\ lst = [p \in Threads |-> <<>>]
    /\ st = [p \in Threads |-> 0]
    /\ cur = [p \in Threads |-> -1]
    /\ ti = [p \in Threads |-> NoTracker]
    /\ held = [p \in Threads |-> NoConn]
    /\ isNew = [p \in Threads |-> FALSE]
    /\ poolRunning = TRUE
    /\ mainPc = "run"
    /\ pc = [p \in Threads |-> IF p \in Workers THEN "idle" ELSE "check"]
=============================================================================
