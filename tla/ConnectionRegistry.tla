------------------------- MODULE ConnectionRegistry -------------------------
(***************************************************************************)
(* What the tracker registry and its connection pools promise (spec        *)
(* sections 3 and 4.2), with every operation one atomic move:              *)
(*   - a tracker is active or not, and changes by activate and deactivate; *)
(*   - a connection is connected to one tracker, its home, for its whole   *)
(*     life;                                                               *)
(*   - it is idle in its home's pool, or owned by one thread;              *)
(*   - a thread takes an idle connection or connects a new one, and gives  *)
(*     it back to its home's pool or closes it;                            *)
(*   - idle connections may be discarded (drain, reap, pool destruction). *)
(* Whether a tracker is active does not restrict connecting or giving      *)
(* back: the maintenance thread probes inactive trackers.                  *)
(***************************************************************************)
CONSTANTS
    Trackers,   \* registered trackers
    Threads,    \* threads using the pools
    Conns,      \* connection identities
    Nobody,     \* owner of a connection no thread owns
    NoTracker   \* home of a connection that does not exist

VARIABLES
    up,     \* the active trackers
    idle,   \* idle connections in each tracker's pool
    owner,  \* the thread owning each connection, or Nobody
    home    \* the tracker each connection is connected to, or NoTracker

avars == <<up, idle, owner, home>>

Live(c) == home[c] # NoTracker
Holds(p) == \E c \in Conns : owner[c] = p
Idle == UNION {idle[t] : t \in Trackers}

Init ==
    /\ up = Trackers
    /\ idle = [t \in Trackers |-> {}]
    /\ owner = [c \in Conns |-> Nobody]
    /\ home = [c \in Conns |-> NoTracker]

Activate(t) ==
    /\ t \notin up
    /\ up' = up \cup {t}
    /\ UNCHANGED <<idle, owner, home>>

Deactivate(t) ==
    /\ t \in up
    /\ up' = up \ {t}
    /\ UNCHANGED <<idle, owner, home>>

\* A thread holding no connection connects a new one to t.
Connect(p, t, c) ==
    /\ ~Holds(p)
    /\ ~Live(c)
    /\ owner' = [owner EXCEPT ![c] = p]
    /\ home' = [home EXCEPT ![c] = t]
    /\ UNCHANGED <<up, idle>>

\* A thread holding no connection takes an idle one of t.
Take(p, t, c) ==
    /\ ~Holds(p)
    /\ c \in idle[t]
    /\ idle' = [idle EXCEPT ![t] = @ \ {c}]
    /\ owner' = [owner EXCEPT ![c] = p]
    /\ UNCHANGED <<up, home>>

\* The owner gives a connection back to its home's pool.
GiveBack(p, c) ==
    /\ owner[c] = p
    /\ idle' = [idle EXCEPT ![home[c]] = @ \cup {c}]
    /\ owner' = [owner EXCEPT ![c] = Nobody]
    /\ UNCHANGED <<up, home>>

\* The owner closes a connection.
Close(p, c) ==
    /\ owner[c] = p
    /\ owner' = [owner EXCEPT ![c] = Nobody]
    /\ home' = [home EXCEPT ![c] = NoTracker]
    /\ UNCHANGED <<up, idle>>

\* A set of idle connections is closed.
Discard(S) ==
    /\ S # {}
    /\ S \subseteq Idle
    /\ idle' = [t \in Trackers |-> idle[t] \ S]
    /\ home' = [c \in Conns |-> IF c \in S THEN NoTracker ELSE home[c]]
    /\ UNCHANGED <<up, owner>>

Next ==
    \/ \E t \in Trackers : Activate(t) \/ Deactivate(t)
    \/ \E p \in Threads, t \in Trackers, c \in Conns :
          Connect(p, t, c) \/ Take(p, t, c)
    \/ \E p \in Threads, c \in Conns : GiveBack(p, c) \/ Close(p, c)
    \/ \E S \in SUBSET Conns : Discard(S)

Spec == Init /\ [][Next]_avars
====
