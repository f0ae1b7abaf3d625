------------------------------ MODULE TurnMutex ------------------------------
(***************************************************************************)
(* wa_mutex:<thread_id>, the Redis lock around one customer's turn: each   *)
(* inbound message is a task that polls for the lock, keeps its TTL        *)
(* alive while the turn runs, and releases it if it is still the owner.    *)
(*                                                                         *)
(* Time is counted in ticks.  The lock expires Lease ticks after it was    *)
(* taken or extended; a keepalive extends it every Period ticks.  Redis    *)
(* executes SET NX, EXPIRE and the release script atomically.              *)
(***************************************************************************)
EXTENDS Naturals

CONSTANTS
    Tasks,     \* inbound messages of one thread, one task each
    Lease,     \* the TTL of the lock (30 s in the code)
    Period,    \* the keepalive interval (10 s in the code)
    Attempts,  \* polls before a message is dropped (30 in the code)
    None       \* the lock is free

ASSUME LeaseOutlivesPeriod ==
    Lease \in Nat /\ Period \in Nat /\ 0 < Period /\ Period < Lease
ASSUME AttemptsPositive == Attempts \in Nat \ {0}
ASSUME NoneIsNoTask == None \notin Tasks

VARIABLES
    stage,   \* where each task is
    tries,   \* polls each task has made
    owner,   \* the task whose value the lock holds, or None
    ttl,     \* ticks until the lock expires
    alive,   \* is the task's keepalive running?
    waited,  \* ticks since the keepalive last woke
    onTime   \* history: no keepalive has died or woken late

vars == <<stage, tries, owner, ttl, alive, waited, onTime>>

Stages == {"waiting", "turn", "releasing", "done", "dropped", "lost"}

\* The variables' types: the lock has time left exactly while somebody has it.
TypeOK ==
    /\ stage \in [Tasks -> Stages]
    /\ tries \in [Tasks -> 0 .. Attempts]
    /\ owner \in Tasks \cup {None}
    /\ ttl \in 0 .. Lease
    /\ owner = None <=> ttl = 0
    /\ alive \in [Tasks -> BOOLEAN]
    /\ waited \in [Tasks -> 0 .. Period]
    /\ onTime \in BOOLEAN

Init ==
    /\ stage = [t \in Tasks |-> "waiting"]
    /\ tries = [t \in Tasks |-> 0]
    /\ owner = None /\ ttl = 0
    /\ alive = [t \in Tasks |-> FALSE]
    /\ waited = [t \in Tasks |-> 0]
    /\ onTime = TRUE

\* acquire_lock: SET NX EX succeeds on a free lock and starts the keepalive.
Acquire(t) ==
    /\ stage[t] = "waiting" /\ tries[t] < Attempts
    /\ owner = None
    /\ owner' = t /\ ttl' = Lease
    /\ stage' = [stage EXCEPT ![t] = "turn"]
    /\ alive' = [alive EXCEPT ![t] = TRUE]
    /\ waited' = [waited EXCEPT ![t] = 0]
    /\ UNCHANGED <<tries, onTime>>

\* A poll that finds the lock held.
Miss(t) ==
    /\ stage[t] = "waiting" /\ tries[t] < Attempts
    /\ owner # None
    /\ tries' = [tries EXCEPT ![t] = @ + 1]
    /\ UNCHANGED <<stage, owner, ttl, alive, waited, onTime>>

\* "Could not acquire lock after 30s. Dropping message to prevent pileup."
Drop(t) ==
    /\ stage[t] = "waiting" /\ tries[t] = Attempts
    /\ stage' = [stage EXCEPT ![t] = "dropped"]
    /\ UNCHANGED <<tries, owner, ttl, alive, waited, onTime>>

Due(t) == alive[t] /\ waited[t] = Period

\* Mutant: the keepalive extends nothing.
KeepaliveMutant(t) ==
    /\ Due(t)
    /\ waited' = [waited EXCEPT ![t] = 0]
    /\ UNCHANGED <<stage, tries, owner, ttl, alive, onTime>>

\* lock_keepalive: EXPIRE extends the lock whoever owns it by now, and does
\* nothing when it is gone.
Keepalive(t) ==
    /\ Due(t)
    /\ ttl' = IF owner = None THEN 0 ELSE Lease
    /\ waited' = [waited EXCEPT ![t] = 0]
    /\ UNCHANGED <<stage, tries, owner, alive, onTime>>

\* An exception from Redis ends the keepalive task; nothing notices.
KeepaliveDies(t) ==
    /\ Due(t)
    /\ alive' = [alive EXCEPT ![t] = FALSE]
    /\ onTime' = FALSE
    /\ UNCHANGED <<stage, tries, owner, ttl, waited>>

\* The finally block: the keepalive is cancelled before the release.
EndTurn(t) ==
    /\ stage[t] = "turn"
    /\ stage' = [stage EXCEPT ![t] = "releasing"]
    /\ alive' = [alive EXCEPT ![t] = FALSE]
    /\ UNCHANGED <<tries, owner, ttl, waited, onTime>>

\* Mutant: DEL without comparing the stored value.
ReleaseMutant(t) ==
    /\ stage[t] = "releasing"
    /\ stage' = [stage EXCEPT ![t] = "done"]
    /\ owner' = None /\ ttl' = 0
    /\ UNCHANGED <<tries, alive, waited, onTime>>

\* RELEASE_LOCK_SCRIPT: delete the lock only if it still holds our value.
Release(t) ==
    /\ stage[t] = "releasing"
    /\ stage' = [stage EXCEPT ![t] = "done"]
    /\ owner' = IF owner = t THEN None ELSE owner
    /\ ttl' = IF owner = t THEN 0 ELSE ttl
    /\ UNCHANGED <<tries, alive, waited, onTime>>

\* Redis fails during the release: the lock stays until it expires.
ReleaseRaises(t) ==
    /\ stage[t] = "releasing"
    /\ stage' = [stage EXCEPT ![t] = "done"]
    /\ UNCHANGED <<tries, owner, ttl, alive, waited, onTime>>

\* The worker dies with the task: nothing is released.
Crash(t) ==
    /\ stage[t] \in {"waiting", "turn", "releasing"}
    /\ stage' = [stage EXCEPT ![t] = "lost"]
    /\ alive' = [alive EXCEPT ![t] = FALSE]
    /\ UNCHANGED <<tries, owner, ttl, waited, onTime>>

\* Mutant: a lock set without an expiry.
TickMutant ==
    /\ onTime' = (onTime /\ \A t \in Tasks : ~Due(t))
    /\ waited' = [t \in Tasks |-> IF alive[t] /\ waited[t] < Period
                                  THEN waited[t] + 1 ELSE waited[t]]
    /\ UNCHANGED <<stage, tries, owner, ttl, alive>>

\* A tick: the TTL runs down and the lock expires at 0.
Tick ==
    /\ onTime' = (onTime /\ \A t \in Tasks : ~Due(t))
    /\ ttl' = IF ttl = 0 THEN 0 ELSE ttl - 1
    /\ owner' = IF ttl <= 1 THEN None ELSE owner
    /\ waited' = [t \in Tasks |-> IF alive[t] /\ waited[t] < Period
                                  THEN waited[t] + 1 ELSE waited[t]]
    /\ UNCHANGED <<stage, tries, alive>>

Worker(t) ==
    \/ Acquire(t) \/ Miss(t) \/ Drop(t) \/ Keepalive(t)
    \/ EndTurn(t) \/ Release(t)

Failure(t) == KeepaliveDies(t) \/ ReleaseRaises(t) \/ Crash(t)

Next == Tick \/ \E t \in Tasks : Worker(t) \/ Failure(t)

Spec == Init /\ [][Next]_vars

\* Time passes, Redis answers and every turn has timeouts that end it.
FairSpec ==
    /\ Spec
    /\ WF_vars(Tick)
    /\ \A t \in Tasks :
         /\ WF_vars(Acquire(t) \/ Miss(t)) /\ WF_vars(Drop(t))
         /\ WF_vars(EndTurn(t)) /\ WF_vars(Release(t) \/ ReleaseRaises(t))
         /\ WF_vars(Keepalive(t) \/ KeepaliveDies(t))

-----------------------------------------------------------------------------
(* Properties.                                                             *)

Active == {t \in Tasks : stage[t] = "turn"}

\* README: "a customer's turns never run concurrently".  That holds for as long
\* as every keepalive is on time: 30 s after one that was not, it may not.
MutualExclusion == onTime => \A t, u \in Active : t = u

\* A turn runs covered: it owns the lock, its keepalive is alive and the lock
\* outlives the keepalive's next wait.
Covered ==
    onTime => \A t \in Active : owner = t /\ alive[t] /\ ttl + waited[t] >= Lease

\* The inductive invariant behind MutualExclusion.
MInv == TypeOK /\ Covered

\* While the keepalives are on time the lock implements the serial processing of
\* turns; from the first late one on, nothing is promised.
Turns == INSTANCE SerialTurns WITH active <- IF onTime THEN Active ELSE {}
Serial == Turns!Spec

\* A turn that ends late never takes the lock from the turn that has it now.
ReleasesOnlyItsOwn ==
    [][\A t, u \in Tasks :
         t # u /\ owner = t /\ stage[u] = "releasing" /\ stage'[u] = "done"
           => owner' = t /\ ttl' = ttl]_vars

\* The lock of a turn that crashed, or whose release raised, frees itself, even
\* though a keepalive extends the lock without asking whose it is.
DeadOwnersLockExpires ==
    \A t \in Tasks : stage[t] \in {"lost", "done"} ~> owner # t
=============================================================================
