------------------------- MODULE TrackerRegistration -------------------------
(***************************************************************************)
(* Building the tracker pool from the configured tracker list:             *)
(* mfs_pool_init_quick, mfs_pool_init, mfs_pool_register_tracker           *)
(* (src/src/pool.c) and mfs_tracker_init2 (src/src/tracker.c).            *)
(*                                                                         *)
(* The list "host:port,host:port,..." is the sequence of its segments      *)
(* between commas.  A segment is a record [addr, colon]: the text before  *)
(* the first ':' and whether there is a ':' at all; Empty is the segment   *)
(* between two commas in a row, or before or after a comma at either end.  *)
(* The port is not looked at by any step here.  Resolvable is the set of  *)
(* addresses apr_sockaddr_info_get resolves.  The result is the part of    *)
(* the tracker_pool registration writes, or NoPool for the NULL that       *)
(* mfs_pool_init_quick returns.                                            *)
(***************************************************************************)
EXTENDS Integers, Sequences

CONSTANTS
    Addresses,    \* host names a segment may carry
    Resolvable,   \* those apr_sockaddr_info_get resolves
    MaxSegments   \* the longest tracker list considered

\* The empty segment: no text, so no ':' either.
Empty  == [addr |-> "", colon |-> FALSE]
\* The NULL that mfs_pool_init_quick returns.
NoPool == [null |-> TRUE]

Segments == {Empty} \cup [addr : Addresses, colon : BOOLEAN]

TrackerLists == UNION {[1 .. n -> Segments] : n \in 1 .. MaxSegments}

\* Lines 59-93, mfs_pool_init(tracker_count): arrays of tracker_count
\* slots, none registered, no maintenance thread.
mfs_pool_init(n) ==
    [max |-> n, count |-> 0, trackers |-> <<>>, active |-> <<>>,
     inactive |-> <<>>, started |-> FALSE]

\* tracker.c lines 36-48, mfs_tracker_init2: resolve the address; on
\* failure nothing of the slot is written.
mfs_tracker_init2(seg) == seg.addr \in Resolvable

\* Lines 117-140, mfs_pool_register_tracker: refused when the arrays are
\* full; a failed mfs_tracker_init2 returns with the slot unused; else the
\* tracker gets index tracker_count and is marked active, and the call that
\* fills the last slot starts the maintenance thread.  (The connection
\* pool's mutex and stack are made here too; their creation is assumed to
\* succeed.)
mfs_pool_register_tracker(pool, seg) ==
    CASE pool.count = pool.max     -> pool
      [] ~mfs_tracker_init2(seg)   -> pool
      [] OTHER ->
           [pool EXCEPT !.trackers = Append(@, seg.addr),
                        !.active   = Append(@, pool.count),
                        !.count    = @ + 1,
                        !.started  = pool.count + 1 = pool.max]

\* Lines 30-35: the strchr loop counts every comma of the list.
CommaCount(l) == Len(l) - 1

\* apr_strtok(list, ",") skips separators before a token, so the empty
\* segments yield no token.
Tokens(l) == SelectSeq(l, LAMBDA s : s # Empty)

\* Lines 38-52: for each token, a token without ':' makes the call log and
\* return NULL (the pool made so far is not freed); otherwise the port is
\* cut off and the tracker registered.
RECURSIVE RegisterAll(_, _)
RegisterAll(pool, toks) ==
    CASE toks = <<>>          -> pool
      [] ~Head(toks).colon    -> NoPool
      [] OTHER -> RegisterAll(mfs_pool_register_tracker(pool, Head(toks)),
                              Tail(toks))

\* Lines 28-53, mfs_pool_init_quick.
mfs_pool_init_quick(l) == RegisterAll(mfs_pool_init(CommaCount(l) + 1), Tokens(l))

-----------------------------------------------------------------------------
(* Properties.                                                             *)

\* What registration should give: no pool when an entry is not
\* "address:port"; otherwise the resolvable addresses, in the order of
\* the list, at indexes 0, 1, ..., all active.
ReferencePool(l) ==
    LET good == SelectSeq(l, LAMBDA s : s # Empty /\ s.addr \in Resolvable)
    IN  IF \E i \in DOMAIN l : l[i] # Empty /\ ~l[i].colon THEN NoPool
        ELSE [max |-> Len(l), count |-> Len(good),
              trackers |-> [i \in DOMAIN good |-> good[i].addr],
              active |-> [i \in DOMAIN good |-> i - 1], inactive |-> <<>>,
              started |-> Len(good) = Len(l)]

\* Spec section 2 ("one Tracker per configured endpoint, identified by
\* index into a fixed-size array sized at pool creation"): for every
\* tracker list, the array sized by counting commas is never too small for
\* the tokens apr_strtok yields, so the full-array guard of
\* mfs_pool_register_tracker never drops an address; each resolvable
\* address gets the next index, in list order, and is active; an
\* unresolvable one leaves its slot unused.
InitQuickRegistersResolvableTokens ==
    \A l \in TrackerLists : mfs_pool_init_quick(l) = ReferencePool(l)

\* The pool mfs_pool_init_quick returns has every slot registered: an
\* unresolvable address or an empty segment leaves slots that
\* mfs_destroy_pool (lines 104-114) still walks, locking a connection-pool
\* mutex that was never created, and the maintenance thread is never
\* started by registration.
PoolFullyRegistered ==
    \A l \in TrackerLists :
        LET p == mfs_pool_init_quick(l) IN p # NoPool => p.count = p.max
====
