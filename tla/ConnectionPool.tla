---------------------------- MODULE ConnectionPool ----------------------------
(***************************************************************************)
(* internal/snowflake/pool: one *sql.DB per connection target, shared by   *)
(* every reconcile worker.  A call takes the lock of its target (keyLocks, *)
(* or orgAdminMu), looks the target up, dials on a miss, installs the new  *)
(* connection, closes the one it replaces, rotates the credential if due   *)
(* (CredentialRotation) and returns.  EvictTenant takes the same lock.     *)
(*                                                                         *)
(* locksMu and entriesMu are held over map accesses only, so each such     *)
(* section is one step; everything between two sections is a step too.     *)
(***************************************************************************)
EXTENDS Naturals

CONSTANTS
    Callers,   \* reconcile workers
    Tenants,   \* (namespace, accountName) keys
    OrgAdmin,  \* the org-admin target
    Locators,  \* (locator, region) pairs a target may be asked at
    Handles,   \* *sql.DB values
    Hung,      \* targets whose dial may never answer
    None

Targets == Tenants \cup {OrgAdmin}

ASSUME PoolAssumption ==
    /\ OrgAdmin \notin Tenants
    /\ Hung \subseteq Targets
    /\ Locators # {}
    /\ None \notin Handles \cup Targets

VARIABLES
    up,
    entries,  \* the cached connections: entries, and orgAdminDB
    dbs,      \* what each *sql.DB is connected to
    lockOf,   \* keyLocks: the mutex of each target, by number; orgAdminMu is 1
    made,     \* mutexes made so far
    pc, want, \* each caller's place in its call, and what the call is for
    lock,     \* the mutex the caller waits for or holds
    db, stale \* its locals: the connection it will return, the one it must close

vars == <<up, entries, dbs, lockOf, made, pc, want, lock, db, stale>>
locks == <<lockOf, made, lock>>

NoEntry == [db |-> None]
Closed == [key |-> None]
OrgLocator == CHOOSE l \in Locators : TRUE
Asks == {a \in [op : {"get", "evict"}, key : Targets, at : Locators] :
           a.key = OrgAdmin => a.op = "get" /\ a.at = OrgLocator}
Connected(a) == [key |-> a.key, at |-> a.at]
Entries == {NoEntry} \cup [db : Handles, at : Locators]
Inside == {"look", "dial", "install", "remove", "close", "rotate"}

TypeOK ==
    /\ up \in BOOLEAN
    /\ entries \in [Targets -> Entries]
    /\ dbs \in [Handles -> {Closed} \cup [key : Targets, at : Locators]]
    /\ lockOf \in [Targets -> 0 .. made] /\ made \in Nat
    /\ pc \in [Callers -> {"idle", "lock"} \cup Inside]
    /\ want \in [Callers -> Asks]
    /\ lock \in [Callers -> 0 .. made]
    /\ db \in [Callers -> Handles \cup {None}]
    /\ stale \in [Callers -> Handles \cup {None}]

NoEntries == [k \in Targets |-> NoEntry]
AllClosed == [h \in Handles |-> Closed]
NoKeyLocks == [k \in Targets |-> IF k = OrgAdmin THEN 1 ELSE 0]
FirstAsk == [op |-> "get", key |-> OrgAdmin, at |-> OrgLocator]

Init ==
    /\ up = TRUE
    /\ entries = NoEntries /\ dbs = AllClosed
    /\ lockOf = NoKeyLocks /\ made = 1
    /\ pc = [c \in Callers |-> "idle"]
    /\ want = [c \in Callers |-> FirstAsk]
    /\ lock = [c \in Callers |-> 0]
    /\ db = [c \in Callers |-> None]
    /\ stale = [c \in Callers |-> None]

Goto(c, s) == pc' = [pc EXCEPT ![c] = s]
Key(c) == want[c].key

\* The call ends: its locals are gone and its lock is free.
Return(c) ==
    /\ Goto(c, "idle")
    /\ want' = [want EXCEPT ![c] = FirstAsk]
    /\ lock' = [lock EXCEPT ![c] = 0]
    /\ db' = [db EXCEPT ![c] = None]
    /\ stale' = [stale EXCEPT ![c] = None]

-----------------------------------------------------------------------------
(* The locks.                                                              *)

NewMutex(c, k) ==
    /\ made' = made + 1
    /\ lockOf' = [lockOf EXCEPT ![k] = made']
    /\ lock' = [lock EXCEPT ![c] = made']

\* Mutated form: the map is not consulted before a mutex is made.
KeyLockFresh(c, k) == NewMutex(c, k)

\* Mutated form: every target shares one mutex.
KeyLockShared(c, k) == lock' = [lock EXCEPT ![c] = 1] /\ UNCHANGED <<lockOf, made>>

\* keyLock: get or create the mutex of a target.
KeyLock(c, k) ==
    \/ /\ lockOf[k] # 0
       /\ lock' = [lock EXCEPT ![c] = lockOf[k]]
       /\ UNCHANGED <<lockOf, made>>
    \/ lockOf[k] = 0 /\ NewMutex(c, k)

Call(c, a) ==
    /\ up
    /\ pc[c] = "idle"
    /\ want' = [want EXCEPT ![c] = a]
    /\ KeyLock(c, a.key)
    /\ Goto(c, "lock")
    /\ UNCHANGED <<up, entries, dbs, db, stale>>

Acquire(c) ==
    /\ pc[c] = "lock"
    /\ \A d \in Callers : pc[d] \in Inside => lock[d] # lock[c]
    /\ Goto(c, IF want[c].op = "get" THEN "look" ELSE "remove")
    /\ UNCHANGED <<up, entries, dbs, locks, want, db, stale>>

-----------------------------------------------------------------------------
(* OrgAdminDB and TenantDB.                                                *)

\* Mutated form: a cached connection is returned wherever it leads.
HitAnywhere(c) == entries[Key(c)] # NoEntry

\* cachedTenant: an entry counts only at the locator and region asked for.
Hit(c) == entries[Key(c)] # NoEntry /\ entries[Key(c)].at = want[c].at

Look(c) ==
    /\ pc[c] = "look"
    /\ IF Hit(c)
       THEN db' = [db EXCEPT ![c] = entries[Key(c)].db] /\ Goto(c, "rotate")
       ELSE Goto(c, "dial") /\ UNCHANGED db
    /\ UNCHANGED <<up, entries, dbs, locks, want, stale>>

\* A handle nobody uses; which one makes no difference.
NewHandle == CHOOSE h \in Handles : dbs[h] = Closed
Open(h, a) == h \in Handles /\ dbs[h] = Closed /\ dbs' = [dbs EXCEPT ![h] = Connected(a)]

\* Mutated form: the probe's failure leaves the handle open.
DialKeepsFailed(c) ==
    /\ Open(NewHandle, want[c])
    /\ \/ db' = [db EXCEPT ![c] = NewHandle] /\ Goto(c, "install") /\ UNCHANGED <<want, lock, stale>>
       \/ Return(c)
    /\ UNCHANGED entries

\* Reading and parsing the credential, opening the handle and probing it: any failure
\* ends the call with nothing open.
Dial(c) ==
    \/ /\ Open(NewHandle, want[c])
       /\ db' = [db EXCEPT ![c] = NewHandle]
       /\ Goto(c, "install")
       /\ UNCHANGED <<entries, want, lock, stale>>
    \/ Return(c) /\ UNCHANGED <<entries, dbs>>

Connect(c) ==
    /\ pc[c] = "dial"
    /\ Dial(c)
    /\ UNCHANGED <<up, lockOf, made>>

\* Mutated form: the replaced entry is forgotten without being closed.
InstallForgets(c) ==
    /\ pc[c] = "install"
    /\ entries' = [entries EXCEPT ![Key(c)] = [db |-> db[c], at |-> want[c].at]]
    /\ Goto(c, "rotate")
    /\ UNCHANGED <<up, dbs, locks, want, db, stale>>

\* Mutated form: the replaced connection is closed before the new one is installed.
InstallAfterClose(c) ==
    LET old == entries[Key(c)] IN
    /\ pc[c] = "install"
    /\ IF old # NoEntry /\ dbs[old.db] # Closed
       THEN dbs' = [dbs EXCEPT ![old.db] = Closed] /\ UNCHANGED <<entries, pc>>
       ELSE /\ entries' = [entries EXCEPT ![Key(c)] = [db |-> db[c], at |-> want[c].at]]
            /\ Goto(c, "rotate")
            /\ UNCHANGED dbs
    /\ UNCHANGED <<up, locks, want, db, stale>>

Install(c) ==
    LET old == entries[Key(c)] IN
    /\ pc[c] = "install"
    /\ entries' = [entries EXCEPT ![Key(c)] = [db |-> db[c], at |-> want[c].at]]
    /\ stale' = [stale EXCEPT ![c] = old.db]
    /\ Goto(c, IF old = NoEntry THEN "rotate" ELSE "close")
    /\ UNCHANGED <<up, dbs, locks, want, db>>

\* The deferred close of what the call took out of the cache.
CloseStale(c) ==
    /\ pc[c] = "close"
    /\ dbs' = [dbs EXCEPT ![stale[c]] = Closed]
    /\ IF want[c].op = "get" THEN Goto(c, "rotate") /\ UNCHANGED <<want, lock, db, stale>> ELSE Return(c)
    /\ UNCHANGED <<up, entries, lockOf, made>>

\* maybeRotateLocked, then the return: rotation never fails the call.
RotateAndReturn(c) ==
    /\ pc[c] = "rotate"
    /\ Return(c)
    /\ UNCHANGED <<up, entries, dbs, lockOf, made>>

-----------------------------------------------------------------------------
(* EvictTenant, Close and New.                                             *)

Remove(c) ==
    /\ pc[c] = "remove"
    /\ entries' = [entries EXCEPT ![Key(c)] = NoEntry]
    /\ IF entries[Key(c)] = NoEntry
       THEN Return(c)
       ELSE /\ stale' = [stale EXCEPT ![c] = entries[Key(c)].db]
            /\ Goto(c, "close")
            /\ UNCHANGED <<want, lock, db>>
    /\ UNCHANGED <<up, dbs, lockOf, made>>

\* Close: every cached connection, whatever became of the others.
CloseAll ==
    /\ dbs' = [h \in Handles |-> IF \E k \in Targets : entries[k].db = h THEN Closed ELSE dbs[h]]
    /\ entries' = [k \in Targets |-> NoEntry]

\* main's deferred Close runs once the manager has returned, with no worker left.
Close ==
    /\ up
    /\ \A c \in Callers : pc[c] = "idle"
    /\ CloseAll
    /\ up' = FALSE
    /\ UNCHANGED <<locks, pc, want, db, stale>>

\* The next process, with a new Pool.
New ==
    /\ ~up
    /\ up' = TRUE
    /\ entries' = NoEntries /\ dbs' = AllClosed
    /\ lockOf' = NoKeyLocks /\ made' = 1
    /\ UNCHANGED <<pc, want, lock, db, stale>>

Step(c) ==
    \/ Acquire(c) \/ Look(c) \/ Connect(c) \/ Install(c)
    \/ CloseStale(c) \/ RotateAndReturn(c) \/ Remove(c)

Next ==
    \/ \E c \in Callers : Step(c) \/ \E a \in Asks : Call(c, a)
    \/ Close \/ New

Spec == Init /\ [][Next]_vars

\* Every started call goes on, except where the dial hangs; a sync.Mutex hands itself to
\* a starving waiter.
FairSpec ==
    /\ Spec
    /\ \A c \in Callers :
          /\ SF_vars(Acquire(c))
          /\ WF_vars(Step(c) /\ (pc[c] = "dial" => Key(c) \notin Hung))

-----------------------------------------------------------------------------
\* One call at a time works on a target: its dial and its rotation never run twice at once
\* (spec 004: "Can two concurrent calls rotate the same credential at once? No").
OneCallInside ==
    \A c, d \in Callers :
        (c # d /\ {pc[c], pc[d]} \subseteq Inside) => Key(c) # Key(d)

\* A cached connection is open, and leads where its entry says.
CachedIsOpen ==
    \A k \in Targets : entries[k] # NoEntry =>
        dbs[entries[k].db] = [key |-> k, at |-> entries[k].at]

\* An open connection is cached, or in the hands of the call that will cache or close it.
NothingLeaks ==
    \A h \in Handles : dbs[h] # Closed =>
        \/ \E k \in Targets : entries[k].db = h
        \/ \E c \in Callers : pc[c] = "install" /\ db[c] = h
        \/ \E c \in Callers : pc[c] = "close" /\ stale[c] = h

\* No two open connections lead to the same account (SC-010: one dial, one cached *sql.DB).
NoTwin ==
    \A g, h \in Handles : (dbs[g] # Closed /\ dbs[g] = dbs[h]) => g = h

\* What a call returns is open and leads where the call asked (SC-011).
ReturnsWhatWasAsked ==
    \A c \in Callers : pc[c] = "rotate" => dbs[db[c]] = Connected(want[c])

(* The inductive strengthening: who owns what.                             *)

\* Targets have mutexes of their own, and a call works on its target only with that
\* target's mutex.
LockInv ==
    /\ lockOf[OrgAdmin] = 1
    /\ \A j, k \in Targets : (lockOf[j] = lockOf[k] /\ lockOf[j] # 0) => j = k
    /\ \A c \in Callers :
          IF pc[c] = "idle" THEN lock[c] = 0 ELSE up /\ lock[c] = lockOf[Key(c)] /\ lock[c] # 0
    /\ \A c, d \in Callers : (c # d /\ {pc[c], pc[d]} \subseteq Inside) => lock[c] # lock[d]

\* A call dials only what is not cached; what it has dialed is not cached yet; what it
\* is about to close is cached no more, and was replaced by something else.
CallInv(c) ==
    LET e == entries[Key(c)] IN
    /\ pc[c] = "remove" => want[c].op = "evict"
    /\ pc[c] \in {"dial", "install"} => ~Hit(c)
    /\ pc[c] = "install" => db[c] \in Handles /\ dbs[db[c]] = Connected(want[c]) /\ e.db # db[c]
    /\ pc[c] = "close" =>
          /\ stale[c] \in Handles
          /\ dbs[stale[c]] # Closed /\ dbs[stale[c]].key = Key(c)
          /\ e.db # stale[c]
          /\ e # NoEntry => e.at # dbs[stale[c]].at
    /\ (pc[c] = "rotate" \/ (pc[c] = "close" /\ want[c].op = "get")) =>
          e = [db |-> db[c], at |-> want[c].at]

\* The inductive invariant: every open connection and every lock has exactly one owner,
\* in the maps or in a call (pool.go:49-51).
PoolInv ==
    /\ TypeOK
    /\ LockInv
    /\ CachedIsOpen
    /\ NothingLeaks
    /\ \A c \in Callers : CallInv(c)
    /\ ~up => AllClosed = dbs

\* A call for a target whose dial answers returns, whatever hangs elsewhere (SC-010a).
CallsReturn ==
    \A c \in Callers : (pc[c] # "idle" /\ Key(c) \notin Hung) ~> pc[c] = "idle"
=============================================================================
