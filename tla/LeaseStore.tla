----------------------------- MODULE LeaseStore -----------------------------
(***************************************************************************)
(* The lease table of the daemon, daemon/lease_store.go.                   *)
(*                                                                         *)
(* A test process acquires at most one lease in its life, so a lease is    *)
(* named by the process that asked for it.  The Go map is the set held;    *)
(* expiry[c] is the time left until ExpireAt, in whole units, and stops at *)
(* 0: `ExpireAt.After(now)' is expiry > 0.  Every operation of the store   *)
(* runs under s.mu and is one step.                                        *)
(***************************************************************************)
EXTENDS Naturals

CONSTANTS
    Clients,    \* the test processes
    LeaseTTL    \* constant/lease.go: LeaseTTL

ASSUME LeaseTTLAssumption == LeaseTTL \in Nat \ {0}

VARIABLES
    held,       \* the processes with an entry in s.leases
    expiry      \* time left of each entry, 0 where there is none

leaseVars == <<held, expiry>>

StoreTypeOK ==
    /\ held \in SUBSET Clients
    /\ expiry \in [Clients -> 0 .. LeaseTTL]

StoreInit ==
    /\ held = {}
    /\ expiry = [c \in Clients |-> 0]

\* acquire: a new entry that expires a full TTL from now.
StoreAcquire(c) ==
    /\ held' = held \union {c}
    /\ expiry' = [expiry EXCEPT ![c] = LeaseTTL]

\* Faulty variants of heartbeat, which only the mutants use: it extends the old
\* deadline instead of setting a new one; it does not look for the entry first.
StoreHeartbeatExtends(c) ==
    /\ held' = held
    /\ expiry' = IF c \in held THEN [expiry EXCEPT ![c] = @ + LeaseTTL] ELSE expiry
StoreHeartbeatRevives(c) == StoreAcquire(c)

\* heartbeat: an entry that is still there, expired or not, is renewed; a
\* missing one is reported and nothing is stored.
StoreHeartbeat(c) ==
    /\ held' = held
    /\ expiry' = IF c \in held THEN [expiry EXCEPT ![c] = LeaseTTL] ELSE expiry

\* release: the entry is deleted if it is there.
StoreRelease(c) ==
    /\ held' = held \ {c}
    /\ expiry' = [expiry EXCEPT ![c] = 0]

\* Faulty variants of the test in gc, which only the mutants use: off by one, and
\* never true.
ExpiredEarly == {c \in held : expiry[c] <= 1}
ExpiredNever == {}

\* The entries gc deletes: those whose ExpireAt is not after now.
Expired == {c \in held : expiry[c] = 0}

StoreGC ==
    /\ held' = held \ Expired
    /\ expiry' = expiry

\* A faulty variant, which only a mutant uses: the deadline must be lag after now.
AnyActiveLater(lag) == \E c \in held : expiry[c] > lag

\* activeCount(now) > 0, for a `now' that was read lag units ago.
AnyActive(lag) == \E c \in held : expiry[c] + lag > 0

\* One unit of time goes by.
StoreElapse ==
    /\ held' = held
    /\ expiry' = [c \in Clients |-> IF expiry[c] = 0 THEN 0 ELSE expiry[c] - 1]
=============================================================================
