------------------------- MODULE MCRequestDispatch -------------------------
(* Model-checking instances of RequestDispatch: two trackers, up to two    *)
(* request threads and two maintenance threads, three connection           *)
(* identities.  Each .cfg picks the thread sets.                           *)
EXTENDS RequestDispatch, TLC

CONSTANTS w1, w2, m1, m2, c1, c2, c3

MCWorkers == {w1, w2}
MCConns == {c1, c2, c3}
\* No maintenance thread: mfs_pool_disable_maintenance was called before
\* the pool was made, so only request threads use it.  One maintenance
\* thread: the one mfs_pool_register_tracker starts.
MCNoWorker == {}
MCOneWorker == {w1}
MCNoMaint == {}
MCOneMaint == {m1}
\* Two maintenance threads: mfs_pool_init_quick starts one when the last
\* tracker registers and mfs_init_file_system starts a second; the handle
\* kept is the second one.
MCTwoMaint == {m1, m2}

WorkerSymmetry == Permutations(MCWorkers)

\* Registration of tracker lists of up to three segments over two
\* resolvable host names and one that does not resolve.
Reg == INSTANCE TrackerRegistration
           WITH Addresses <- {"h1", "h2", "bad"}, Resolvable <- {"h1", "h2"},
                MaxSegments <- 3

\* Checked by TLC before every run of this module: every tracker list of
\* up to three segments registers its resolvable addresses, in order, at
\* indexes 0, 1, ..., all active, with no address dropped by the
\* full-array guard of mfs_pool_register_tracker (see TrackerRegistration).
\* PoolInit is its result for a list of NumTrackers resolvable addresses.
ASSUME Reg!InitQuickRegistersResolvableTokens
=============================================================================
