------------------------- MODULE ConnectionPool_proofs -------------------------
(***************************************************************************)
(* The pool's safety properties for any number of workers, tenants,        *)
(* locators and connections.  The argument has two layers: the mutexes of  *)
(* two targets differ, so at most one call works on a target (LockInv);    *)
(* and a call working on its target alone accounts for every connection    *)
(* that leads there (CallInv, CachedIsOpen, NothingLeaks).                 *)
(***************************************************************************)
EXTENDS ConnectionPool, TLAPS

\* An entry is empty exactly when it names no connection.
LEMMA EntryFields ==
    ASSUME NEW e \in Entries
    PROVE  /\ e = NoEntry <=> e.db = None
           /\ e # NoEntry => e.db \in Handles /\ e.at \in Locators
  BY PoolAssumption, SMT DEF Entries, NoEntry, Targets

\* A non-empty entry is made of its connection and its locator.
LEMMA NewEntryFields ==
    ASSUME NEW h \in Handles, NEW l \in Locators
    PROVE  /\ [db |-> h, at |-> l] \in Entries
           /\ [db |-> h, at |-> l] # NoEntry
           /\ [db |-> h, at |-> l].db = h
           /\ [db |-> h, at |-> l].at = l
  BY PoolAssumption, SMT DEF Entries, NoEntry, Targets

\* What a call asks for is a target at a locator.
LEMMA AskFields ==
    ASSUME NEW a \in Asks
    PROVE  a.op \in {"get", "evict"} /\ a.key \in Targets /\ a.at \in Locators
  BY DEF Asks

\* The ask of an idle caller is well formed.
LEMMA FirstAskFields == FirstAsk \in Asks /\ FirstAsk.key = OrgAdmin /\ OrgAdmin \in Targets
  <1>1. OrgLocator \in Locators  BY PoolAssumption DEF OrgLocator
  <1> QED  BY <1>1 DEF FirstAsk, Asks, Targets

\* A connection made for a call leads where the call asked.
LEMMA ConnectedFields ==
    ASSUME NEW a \in Asks
    PROVE  /\ Connected(a) \in [key : Targets, at : Locators]
           /\ Connected(a).key = a.key
           /\ Connected(a).at = a.at
           /\ Connected(a) # Closed
  BY PoolAssumption, AskFields, SMT DEF Connected, Closed

\* Nothing a connection can lead to is the closed state.
LEMMA ClosedFields ==
    /\ Closed.key = None
    /\ \A l \in Locators, k \in Targets : [key |-> k, at |-> l] # Closed
  BY PoolAssumption, SMT DEF Closed

-----------------------------------------------------------------------------
\* At most one call works on a target (spec 004, SC-009).
LEMMA LockAlone == TypeOK /\ LockInv => OneCallInside
  BY AskFields DEF LockInv, TypeOK, OneCallInside, Key, Inside

\* An open handle's owner knows which target it leads to; a target's owners agree on
\* their handle or differ in where it leads.
LEMMA InvNoTwin == PoolInv => NoTwin
  <1> SUFFICES ASSUME PoolInv, NEW g \in Handles, NEW h \in Handles,
                      dbs[g] # Closed, dbs[g] = dbs[h]
               PROVE  g = h
    BY DEF NoTwin
  <1>0. OneCallInside  BY LockAlone DEF PoolInv
  <1> DEFINE Cached(x) == \E k \in Targets : entries[k].db = x
             Fresh(x) == \E c \in Callers : pc[c] = "install" /\ db[c] = x
             Stale(x) == \E c \in Callers : pc[c] = "close" /\ stale[c] = x
  <1>1. (Cached(g) \/ Fresh(g) \/ Stale(g)) /\ (Cached(h) \/ Fresh(h) \/ Stale(h))
    BY DEF PoolInv, NothingLeaks
  <1>2. ASSUME NEW x \in Handles, NEW k \in Targets, entries[k].db = x
        PROVE  /\ entries[k] # NoEntry /\ entries[k].at \in Locators
               /\ dbs[x].key = k /\ dbs[x].at = entries[k].at
    <2>1. entries[k] \in Entries  BY DEF PoolInv, TypeOK
    <2>2. entries[k] # NoEntry  BY <1>2, <2>1, EntryFields, PoolAssumption
    <2>3. dbs[x] = [key |-> k, at |-> entries[k].at]
      BY <1>2, <2>2 DEF PoolInv, CachedIsOpen
    <2> QED  BY <2>1, <2>2, <2>3, EntryFields
  <1>3. ASSUME NEW x \in Handles, NEW c \in Callers, pc[c] = "install", db[c] = x
        PROVE  /\ Key(c) \in Targets /\ dbs[x].key = Key(c) /\ dbs[x].at = want[c].at
               /\ entries[Key(c)] # NoEntry => entries[Key(c)].at # want[c].at
    <2>1. want[c] \in Asks  BY DEF PoolInv, TypeOK
    <2>2. want[c].key \in Targets  BY <2>1, AskFields
    <2>3. CallInv(c)  BY DEF PoolInv
    <2>4. dbs[x] = Connected(want[c])  BY <1>3, <2>3 DEF CallInv
    <2>5. dbs[x].key = want[c].key /\ dbs[x].at = want[c].at
      BY <2>1, <2>4, ConnectedFields
    <2>6. ~Hit(c)  BY <1>3, <2>3 DEF CallInv
    <2> QED  BY <2>2, <2>5, <2>6 DEF Hit, Key
  <1>4. ASSUME NEW x \in Handles, NEW c \in Callers, pc[c] = "close", stale[c] = x
        PROVE  /\ Key(c) \in Targets /\ dbs[x].key = Key(c)
               /\ entries[Key(c)] # NoEntry => entries[Key(c)].at # dbs[x].at
    <2>1. want[c] \in Asks /\ CallInv(c)  BY DEF PoolInv, TypeOK
    <2>2. want[c].key \in Targets  BY <2>1, AskFields
    <2> QED  BY <1>4, <2>1, <2>2 DEF CallInv, Key
  <1>4a. ASSUME NEW x \in Handles, NEW y \in Handles, Cached(x), ~Cached(y), dbs[x] = dbs[y],
                 Fresh(y) \/ Stale(y)
         PROVE  FALSE
    <2>1. PICK k \in Targets : entries[k].db = x  BY <1>4a
    <2>2. /\ entries[k] # NoEntry /\ entries[k].at \in Locators
          /\ dbs[x].key = k /\ dbs[x].at = entries[k].at
      BY <2>1, <1>2
    <2>3. CASE Fresh(y)
      <3>1. PICK c \in Callers : pc[c] = "install" /\ db[c] = y  BY <2>3
      <3> QED  BY <1>3, <1>4a, <2>2, <3>1
    <2>4. CASE Stale(y)
      <3>1. PICK c \in Callers : pc[c] = "close" /\ stale[c] = y  BY <2>4
      <3> QED  BY <1>4, <1>4a, <2>2, <3>1
    <2> QED  BY <1>4a, <2>3, <2>4
  <1>5. CASE Cached(g) /\ Cached(h)
    <2>1. PICK j \in Targets : entries[j].db = g  BY <1>5
    <2>2. PICK k \in Targets : entries[k].db = h  BY <1>5
    <2> QED  BY <2>1, <2>2, <1>2
  <1>6. CASE Cached(g) /\ ~Cached(h)
    BY <1>6, <1>1, <1>4a
  <1>7. CASE ~Cached(g) /\ Cached(h)
    BY <1>7, <1>1, <1>4a
  <1>8. CASE ~Cached(g) /\ ~Cached(h)
    BY <1>8, <1>0, <1>1, <1>3, <1>4 DEF OneCallInside, Inside
  <1> QED  BY <1>5, <1>6, <1>7, <1>8

\* What a call is about to return is open and leads where it asked.
LEMMA InvReturns == PoolInv => ReturnsWhatWasAsked
  <1> SUFFICES ASSUME PoolInv, NEW c \in Callers, pc[c] = "rotate"
               PROVE  dbs[db[c]] = Connected(want[c])
    BY DEF ReturnsWhatWasAsked
  <1>1. Key(c) \in Targets /\ want[c].at \in Locators  BY AskFields DEF PoolInv, TypeOK, Key
  <1>2. entries[Key(c)] = [db |-> db[c], at |-> want[c].at]  BY DEF PoolInv, CallInv
  <1>3. entries[Key(c)] # NoEntry  BY <1>1, <1>2, SMT DEF NoEntry
  <1>4. dbs[entries[Key(c)].db] = [key |-> Key(c), at |-> entries[Key(c)].at]
    BY <1>1, <1>3 DEF PoolInv, CachedIsOpen
  <1> QED  BY <1>2, <1>4 DEF Connected, Key

-----------------------------------------------------------------------------
\* The invariant holds of a new pool.
LEMMA InitInv == Init => PoolInv
  <1> SUFFICES ASSUME Init PROVE PoolInv
    OBVIOUS
  <1> USE DEF Init, NoEntries, AllClosed, NoKeyLocks
  <1>1. TypeOK
    BY PoolAssumption, FirstAskFields DEF TypeOK, Entries, Targets
  <1>2. LockInv  BY PoolAssumption, FirstAskFields DEF LockInv, Inside
  <1>3. CachedIsOpen /\ NothingLeaks  BY DEF CachedIsOpen, NothingLeaks
  <1>4. \A c \in Callers : CallInv(c)  BY DEF CallInv
  <1> QED  BY <1>1, <1>2, <1>3, <1>4 DEF PoolInv

\* The types, action by action.
LEMMA TypeNext == PoolInv /\ Next => TypeOK'
  <1> SUFFICES ASSUME PoolInv, Next PROVE TypeOK'
    OBVIOUS
  <1> USE FirstAskFields, PoolAssumption
  <1> USE DEF PoolInv, TypeOK, Goto, Inside
  <1>1. ASSUME NEW c \in Callers, NEW a \in Asks, Call(c, a) PROVE TypeOK'
    <2>1. a.key \in Targets  BY AskFields
    <2> QED  BY <1>1, <2>1 DEF Call, KeyLock, NewMutex
  <1>2. ASSUME NEW c \in Callers, Acquire(c) PROVE TypeOK'
    BY <1>2 DEF Acquire, locks
  <1>3. ASSUME NEW c \in Callers, Look(c) PROVE TypeOK'
    <2>1. Key(c) \in Targets  BY AskFields DEF Key
    <2>2. Hit(c) => entries[Key(c)].db \in Handles  BY <2>1, EntryFields DEF Hit
    <2> QED  BY <1>3, <2>2 DEF Look, locks
  <1>4. ASSUME NEW c \in Callers, Connect(c) PROVE TypeOK'
    <2>1. Connected(want[c]) \in [key : Targets, at : Locators]  BY ConnectedFields
    <2> QED  BY <1>4, <2>1 DEF Connect, Dial, Open, Return
  <1>5. ASSUME NEW c \in Callers, Install(c) PROVE TypeOK'
    <2>1. Key(c) \in Targets /\ want[c].at \in Locators  BY AskFields DEF Key
    <2>2. db[c] \in Handles  BY <1>5 DEF Install, CallInv
    <2>3. [db |-> db[c], at |-> want[c].at] \in Entries  BY <2>1, <2>2, NewEntryFields
    <2>4. entries[Key(c)].db \in Handles \cup {None}  BY <2>1, EntryFields
    <2> QED  BY <1>5, <2>1, <2>3, <2>4 DEF Install, locks
  <1>6. ASSUME NEW c \in Callers, CloseStale(c) PROVE TypeOK'
    <2>1. dbs' \in [Handles -> {Closed} \cup [key : Targets, at : Locators]]
      BY <1>6 DEF CloseStale
    <2>2. CASE want[c].op = "get"  BY <1>6, <2>1, <2>2 DEF CloseStale
    <2>3. CASE want[c].op # "get"  BY <1>6, <2>1, <2>3 DEF CloseStale, Return
    <2> QED  BY <2>2, <2>3
  <1>7. ASSUME NEW c \in Callers, RotateAndReturn(c) PROVE TypeOK'
    BY <1>7 DEF RotateAndReturn, Return
  <1>8. ASSUME NEW c \in Callers, Remove(c) PROVE TypeOK'
    <2>1. Key(c) \in Targets  BY AskFields DEF Key
    <2>2. entries[Key(c)].db \in Handles \cup {None}  BY <2>1, EntryFields
    <2>3. NoEntry \in Entries  BY DEF Entries
    <2> QED  BY <1>8, <2>1, <2>2, <2>3 DEF Remove, Return
  <1>9. ASSUME Close PROVE TypeOK'
    <2>1. NoEntry \in Entries  BY DEF Entries
    <2> QED  BY <1>9, <2>1 DEF Close, CloseAll, locks
  <1>10. ASSUME New PROVE TypeOK'
    <2>1. NoEntry \in Entries  BY DEF Entries
    <2>2. \A c \in Callers : lock[c] \in 0 .. 1  BY <1>10 DEF New, LockInv
    <2> QED  BY <1>10, <2>1, <2>2 DEF New, NoEntries, AllClosed, NoKeyLocks
  <1> QED
    BY <1>1, <1>2, <1>3, <1>4, <1>5, <1>6, <1>7, <1>8, <1>9, <1>10 DEF Next, Step

\* A call that goes on keeps its lock; one that returns gives it back.
LEMMA LockGoOn ==
    ASSUME TypeOK, LockInv, NEW c \in Callers, pc[c] \in Inside, NEW s \in Inside, Goto(c, s),
           UNCHANGED <<up, lockOf, lock, want>>
    PROVE  LockInv'
  BY DEF TypeOK, LockInv, Goto, Key, Inside

\* A call that returns leaves the locks of the others in order.
LEMMA LockReturn ==
    ASSUME TypeOK, LockInv, NEW c \in Callers, Return(c), UNCHANGED <<up, lockOf>>
    PROVE  LockInv'
  BY DEF TypeOK, LockInv, Return, Goto, Key, Inside

\* Every step keeps the lock discipline.
LEMMA LockNext == PoolInv /\ Next => LockInv'
  <1> SUFFICES ASSUME TypeOK, LockInv, Next PROVE LockInv'
    BY DEF PoolInv
  <1> USE PoolAssumption, AskFields
  <1>1. ASSUME NEW c \in Callers, NEW a \in Asks, Call(c, a) PROVE LockInv'
    <2>1. a.key \in Targets /\ OrgAdmin \in Targets  BY DEF Targets
    <2>2. CASE lockOf[a.key] # 0
      BY <1>1, <2>1, <2>2 DEF Call, KeyLock, Goto, LockInv, TypeOK, Key, Inside, NewMutex
    <2>3. CASE lockOf[a.key] = 0
      <3>1. made \in Nat /\ made' = made + 1 /\ made' \notin {lockOf[k] : k \in Targets} /\ made' # 0
            /\ lockOf' = [lockOf EXCEPT ![a.key] = made'] /\ lock' = [lock EXCEPT ![c] = made']
        BY <1>1, <2>3 DEF Call, KeyLock, NewMutex, TypeOK
      <3>2. \A k \in Targets : lockOf'[k] = IF k = a.key THEN made' ELSE lockOf[k]
        BY <3>1 DEF TypeOK
      <3>3. \A d \in Callers : d # c => lock'[d] = lock[d] /\ pc'[d] = pc[d] /\ want'[d] = want[d]
        BY <1>1, <3>1 DEF Call, TypeOK, Goto
      <3>4. lock'[c] = made' /\ pc'[c] = "lock" /\ want'[c] = a /\ up'
        BY <1>1, <3>1 DEF Call, TypeOK, Goto
      <3>5. lockOf'[OrgAdmin] = 1
        BY <2>1, <2>3, <3>2 DEF LockInv
      <3>6. \A j, k \in Targets : (lockOf'[j] = lockOf'[k] /\ lockOf'[j] # 0) => j = k
        BY <3>1, <3>2 DEF LockInv
      <3>7. \A d \in Callers : IF pc'[d] = "idle" THEN lock'[d] = 0
                             ELSE up' /\ lock'[d] = lockOf'[want'[d].key] /\ lock'[d] # 0
        <4> TAKE d \in Callers
        <4>1. CASE d = c  BY <4>1, <2>1, <3>1, <3>2, <3>4
        <4>2. CASE d # c
          <5>1. want[d].key \in Targets  BY DEF TypeOK
          <5>2. pc[d] # "idle" => lockOf[want[d].key] # 0  BY DEF LockInv, Key
          <5> QED  BY <4>2, <5>1, <5>2, <2>3, <3>2, <3>3, <3>4 DEF LockInv, Key
        <4> QED  BY <4>1, <4>2
      <3>8. \A d, e \in Callers : (d # e /\ {pc'[d], pc'[e]} \subseteq Inside) => lock'[d] # lock'[e]
        BY <3>3, <3>4 DEF LockInv, Inside
      <3> QED  BY <3>5, <3>6, <3>7, <3>8 DEF LockInv, Key
    <2> QED  BY <2>2, <2>3
  <1>2. ASSUME NEW c \in Callers, Acquire(c) PROVE LockInv'
    BY <1>2 DEF Acquire, locks, Goto, LockInv, TypeOK, Key, Inside
  <1>3. ASSUME NEW c \in Callers, Look(c) PROVE LockInv'
    BY <1>3, LockGoOn DEF Look, locks, Inside
  <1>4. ASSUME NEW c \in Callers, Connect(c) PROVE LockInv'
    BY <1>4, LockGoOn, LockReturn DEF Connect, Dial, Inside
  <1>5. ASSUME NEW c \in Callers, Install(c) PROVE LockInv'
    BY <1>5, LockGoOn DEF Install, locks, Inside
  <1>6. ASSUME NEW c \in Callers, CloseStale(c) PROVE LockInv'
    BY <1>6, LockGoOn, LockReturn DEF CloseStale, Inside
  <1>7. ASSUME NEW c \in Callers, RotateAndReturn(c) PROVE LockInv'
    BY <1>7, LockReturn DEF RotateAndReturn
  <1>8. ASSUME NEW c \in Callers, Remove(c) PROVE LockInv'
    BY <1>8, LockGoOn, LockReturn DEF Remove, Inside
  <1>9. ASSUME Close PROVE LockInv'
    BY <1>9 DEF Close, locks, LockInv, Key
  <1>10. ASSUME New PROVE LockInv'
    BY <1>10 DEF New, NoKeyLocks, LockInv, Key, Targets, Inside
  <1> QED
    BY <1>1, <1>2, <1>3, <1>4, <1>5, <1>6, <1>7, <1>8, <1>9, <1>10 DEF Next, Step

-----------------------------------------------------------------------------
(* The connections.                                                        *)

Settled(d) == pc[d] \in {"idle", "lock", "look"}

\* A call whose own target nobody touches keeps its invariant.
LEMMA OtherCall ==
    ASSUME NEW d \in Callers, CallInv(d),
           pc'[d] = pc[d], want'[d] = want[d], db'[d] = db[d], stale'[d] = stale[d],
           ~Settled(d) => entries'[Key(d)] = entries[Key(d)],
           pc[d] = "install" => dbs'[db[d]] = dbs[db[d]],
           pc[d] = "close" => dbs'[stale[d]] = dbs[stale[d]]
    PROVE  CallInv(d)'
  BY DEF CallInv, Hit, Key, Settled

Owned(h) ==
    \/ \E k \in Targets : entries[k].db = h
    \/ \E c \in Callers : pc[c] = "install" /\ db[c] = h
    \/ \E c \in Callers : pc[c] = "close" /\ stale[c] = h

Handled ==
    /\ CachedIsOpen
    /\ NothingLeaks
    /\ \A c \in Callers : CallInv(c)
    /\ ~up => AllClosed = dbs

\* Facts about a caller at work that every step below starts from.
LEMMA AtWork ==
    ASSUME PoolInv, NEW c \in Callers, pc[c] \in Inside
    PROVE  /\ up
           /\ Key(c) \in Targets /\ want[c] \in Asks /\ want[c].at \in Locators
           /\ entries[Key(c)] \in Entries
           /\ \A d \in Callers : (d # c /\ ~Settled(d)) => Key(d) # Key(c)
  <1>1. OneCallInside  BY LockAlone DEF PoolInv
  <1>2. up  BY DEF PoolInv, LockInv, Inside
  <1>3. want[c] \in Asks /\ Key(c) \in Targets /\ want[c].at \in Locators
    BY AskFields DEF PoolInv, TypeOK, Key
  <1>4. entries[Key(c)] \in Entries  BY <1>3 DEF PoolInv, TypeOK
  <1>5. \A d \in Callers : ~Settled(d) => pc[d] \in Inside  BY DEF Settled, Inside, PoolInv, TypeOK
  <1> QED  BY <1>1, <1>2, <1>3, <1>4, <1>5 DEF OneCallInside

\* Steps that leave the connections and the cache alone.
LEMMA HandledQuiet ==
    ASSUME PoolInv, UNCHANGED <<up, entries, dbs>>, NEW c \in Callers,
           \A d \in Callers \ {c} : pc'[d] = pc[d] /\ want'[d] = want[d] /\ db'[d] = db[d] /\ stale'[d] = stale[d],
           CallInv(c)', pc[c] \notin {"install", "close"}
    PROVE  Handled'
  <1>1. CachedIsOpen'  BY DEF PoolInv, CachedIsOpen
  <1>2. NothingLeaks'
    <2> SUFFICES ASSUME NEW h \in Handles, dbs'[h] # Closed PROVE Owned(h)'
      BY DEF NothingLeaks, Owned
    <2>1. Owned(h)  BY DEF PoolInv, NothingLeaks, Owned
    <2> QED  BY <2>1 DEF Owned
  <1>3. \A d \in Callers : CallInv(d)'
    BY OtherCall DEF PoolInv
  <1> QED  BY <1>1, <1>2, <1>3 DEF Handled, PoolInv, AllClosed

\* Every step keeps the ownership of connections and the state of every call.
LEMMA HandledNext == PoolInv /\ Next => Handled'
  <1> SUFFICES ASSUME PoolInv, Next PROVE Handled'
    OBVIOUS
  <1>0. \A c \in Callers : CallInv(c)  BY DEF PoolInv
  <1>1. ASSUME NEW c \in Callers, NEW a \in Asks, Call(c, a) PROVE Handled'
    <2>1. pc'[c] = "lock"  BY <1>1 DEF Call, Goto, PoolInv, TypeOK
    <2>2. CallInv(c)'  BY <2>1 DEF CallInv
    <2> QED  BY <1>1, <2>2, HandledQuiet DEF Call, Goto, PoolInv, TypeOK
  <1>2. ASSUME NEW c \in Callers, Acquire(c) PROVE Handled'
    <2>1. CallInv(c)'  BY <1>2, AskFields DEF Acquire, Goto, CallInv, PoolInv, TypeOK
    <2> QED  BY <1>2, <2>1, HandledQuiet DEF Acquire, Goto, PoolInv, TypeOK
  <1>3. ASSUME NEW c \in Callers, Look(c) PROVE Handled'
    <2>0. pc[c] \in Inside  BY <1>3 DEF Look, Inside
    <2>1. Key(c)' = Key(c) /\ want'[c] = want[c] /\ entries' = entries  BY <1>3 DEF Look, Key
    <2>2. CASE Hit(c)
      <3>1. entries[Key(c)] # NoEntry /\ entries[Key(c)].at = want[c].at  BY <2>2 DEF Hit
      <3>2. entries[Key(c)] = [db |-> entries[Key(c)].db, at |-> entries[Key(c)].at]
        BY <2>0, <3>1, AtWork DEF Entries
      <3>3. db'[c] = entries[Key(c)].db /\ pc'[c] = "rotate"
        BY <1>3, <2>2 DEF Look, Goto, PoolInv, TypeOK
      <3>4. CallInv(c)'  BY <2>1, <3>1, <3>2, <3>3 DEF CallInv
      <3> QED  BY <1>3, <2>2, <3>4, HandledQuiet DEF Look, Goto, PoolInv, TypeOK
    <2>3. CASE ~Hit(c)
      <3>1. pc'[c] = "dial"  BY <1>3, <2>3 DEF Look, Goto, PoolInv, TypeOK
      <3>2. CallInv(c)'  BY <2>1, <2>3, <3>1 DEF CallInv, Hit
      <3> QED  BY <1>3, <2>3, <3>2, HandledQuiet DEF Look, Goto, PoolInv, TypeOK
    <2> QED  BY <2>2, <2>3
  <1>4. ASSUME NEW c \in Callers, Connect(c) PROVE Handled'
    <2>0. pc[c] = "dial" /\ UNCHANGED <<up, entries>>
      BY <1>4 DEF Connect, Dial
    <2>1. CASE Return(c) /\ UNCHANGED <<entries, dbs>>
      <3>1. CallInv(c)'  BY <2>1 DEF Return, Goto, CallInv, PoolInv, TypeOK
      <3> QED  BY <2>0, <2>1, <3>1, HandledQuiet DEF Return, Goto, PoolInv, TypeOK
    <2>2. CASE /\ Open(NewHandle, want[c])
               /\ db' = [db EXCEPT ![c] = NewHandle]
               /\ Goto(c, "install")
               /\ UNCHANGED <<entries, want, lock, stale>>
      <3> DEFINE h == NewHandle
      <3>1. /\ h \in Handles /\ dbs[h] = Closed
            /\ dbs' = [dbs EXCEPT ![h] = Connected(want[c])]
        BY <2>2 DEF Open
      <3> HIDE DEF h
      <3>2. db' = [db EXCEPT ![c] = h] /\ pc' = [pc EXCEPT ![c] = "install"] /\ UNCHANGED <<up, entries, want, stale>>
        BY <2>0, <2>2 DEF h, Goto
      <3>3. \A x \in Handles : x # h => dbs'[x] = dbs[x]
        BY <3>1 DEF PoolInv, TypeOK
      <3>4. dbs'[h] = Connected(want[c])  BY <3>1 DEF PoolInv, TypeOK
      <3>5. \A k \in Targets : entries[k] # NoEntry => entries[k].db \in Handles /\ entries[k].db # h
        <4> SUFFICES ASSUME NEW k \in Targets, entries[k] # NoEntry
                     PROVE  entries[k].db \in Handles /\ entries[k].db # h
          OBVIOUS
        <4>1. entries[k] \in Entries  BY DEF PoolInv, TypeOK
        <4>2. entries[k].db \in Handles /\ entries[k].at \in Locators  BY <4>1, EntryFields
        <4>3. dbs[entries[k].db] # Closed  BY <4>2, ClosedFields DEF PoolInv, CachedIsOpen
        <4> QED  BY <3>1, <4>2, <4>3
      <3>6. CachedIsOpen'  BY <3>2, <3>3, <3>5 DEF PoolInv, CachedIsOpen
      <3>7. NothingLeaks'
        <4> SUFFICES ASSUME NEW x \in Handles, dbs'[x] # Closed PROVE Owned(x)'
          BY DEF NothingLeaks, Owned
        <4>1. CASE x = h  BY <4>1, <3>2 DEF Owned, PoolInv, TypeOK
        <4>2. CASE x # h
          <5>1. Owned(x)  BY <4>2, <3>3 DEF PoolInv, NothingLeaks, Owned
          <5> QED  BY <5>1, <3>2, <2>0 DEF Owned, PoolInv, TypeOK
        <4> QED  BY <4>1, <4>2
      <3>8. CallInv(c)'
        <4>1. pc'[c] = "install" /\ db'[c] = h /\ want'[c] = want[c]  BY <3>2 DEF PoolInv, TypeOK
        <4>2. ~Hit(c)  BY <1>0, <2>0 DEF CallInv
        <4>3. Key(c) \in Targets /\ entries[Key(c)] \in Entries  BY <2>0, AtWork DEF Inside
        <4>4. entries[Key(c)].db # h  BY <4>3, <3>1, <3>5, EntryFields, PoolAssumption
        <4> QED  BY <3>1, <3>2, <3>4, <4>1, <4>2, <4>4 DEF CallInv, Hit, Key
      <3>9. \A d \in Callers \ {c} : CallInv(d)'
        <4> SUFFICES ASSUME NEW d \in Callers \ {c} PROVE CallInv(d)'
          OBVIOUS
        <4>1. CallInv(d) /\ want[d] \in Asks  BY DEF PoolInv, TypeOK
        <4>2. pc[d] = "install" => db[d] \in Handles /\ dbs[db[d]] # Closed
          BY <4>1, ConnectedFields DEF CallInv
        <4>3. pc[d] = "close" => stale[d] \in Handles /\ dbs[stale[d]] # Closed
          BY <4>1 DEF CallInv
        <4>4. pc[d] = "install" => dbs'[db[d]] = dbs[db[d]]  BY <4>2, <3>1, <3>3
        <4>5. pc[d] = "close" => dbs'[stale[d]] = dbs[stale[d]]  BY <4>3, <3>1, <3>3
        <4>6. pc'[d] = pc[d] /\ want'[d] = want[d] /\ db'[d] = db[d] /\ stale'[d] = stale[d]
          BY <3>2 DEF PoolInv, TypeOK
        <4> QED  BY <4>1, <4>4, <4>5, <4>6, <3>2, OtherCall
      <3>10. up'  BY <2>0, <3>2, AtWork DEF Inside
      <3> QED  BY <3>6, <3>7, <3>8, <3>9, <3>10 DEF Handled
    <2> QED  BY <1>4, <2>1, <2>2 DEF Connect, Dial
  <1>5. ASSUME NEW c \in Callers, Install(c) PROVE Handled'
    <2> DEFINE k == Key(c)
               old == entries[k]
               new == [db |-> db[c], at |-> want[c].at]
    <2>0. pc[c] = "install" /\ pc[c] \in Inside  BY <1>5 DEF Install, Inside
    <2>1. up /\ k \in Targets /\ want[c] \in Asks /\ want[c].at \in Locators /\ old \in Entries
      BY <2>0, AtWork
    <2>2. /\ ~Hit(c) /\ db[c] \in Handles /\ dbs[db[c]] = Connected(want[c]) /\ old.db # db[c]
      BY <1>0, <2>0 DEF CallInv
    <2>3. /\ entries' = [entries EXCEPT ![k] = new]
          /\ stale' = [stale EXCEPT ![c] = old.db]
          /\ pc' = [pc EXCEPT ![c] = IF old = NoEntry THEN "rotate" ELSE "close"]
          /\ UNCHANGED <<up, dbs, want, db>>
      BY <1>5 DEF Install, Goto
    <2>4. new # NoEntry /\ new.db = db[c] /\ new.at = want[c].at  BY <2>1, <2>2, NewEntryFields
    <2>5. old = NoEntry \/ old.at # want[c].at  BY <2>2 DEF Hit
    <2>6. old # NoEntry => /\ old.db \in Handles /\ dbs[old.db] = [key |-> k, at |-> old.at]
                           /\ dbs[old.db] # Closed
      BY <2>1, EntryFields, ClosedFields DEF PoolInv, CachedIsOpen
    <2>7. dbs[db[c]] = [key |-> k, at |-> new.at]  BY <2>2, <2>4 DEF Connected, Key
    <2> HIDE DEF k, old, new
    <2>8. entries \in [Targets -> Entries] /\ old = entries[k]  BY DEF PoolInv, TypeOK, old
    <2>9. entries'[k] = new /\ \A j \in Targets : j # k => entries'[j] = entries[j]
      BY <2>1, <2>3, <2>8
    <2>10. CachedIsOpen'
      BY <2>3, <2>4, <2>7, <2>9 DEF PoolInv, CachedIsOpen
    <2>11. pc'[c] = (IF old = NoEntry THEN "rotate" ELSE "close") /\ stale'[c] = old.db
           /\ \A d \in Callers : d # c => pc'[d] = pc[d] /\ stale'[d] = stale[d]
      BY <2>3 DEF PoolInv, TypeOK
    <2>12. NothingLeaks'
      <3> SUFFICES ASSUME NEW x \in Handles, dbs'[x] # Closed PROVE Owned(x)'
        BY DEF NothingLeaks, Owned
      <3>1. Owned(x)  BY <2>3 DEF PoolInv, NothingLeaks, Owned
      <3>2. CASE x = db[c]  BY <3>2, <2>1, <2>4, <2>9 DEF Owned
      <3>3. CASE \E j \in Targets : entries[j].db = x
        <4>1. PICK j \in Targets : entries[j].db = x  BY <3>3
        <4>2. CASE j # k  BY <4>1, <4>2, <2>9 DEF Owned
        <4>3. CASE j = k
          <5>1. old # NoEntry  BY <4>1, <4>3, <2>1, <2>8, EntryFields, PoolAssumption
          <5> QED  BY <4>1, <4>3, <5>1, <2>8, <2>11 DEF Owned
        <4> QED  BY <4>2, <4>3
      <3>4. CASE \E d \in Callers : pc[d] = "install" /\ db[d] = x
        BY <3>2, <3>4, <2>3, <2>11 DEF Owned
      <3>5. CASE \E d \in Callers : pc[d] = "close" /\ stale[d] = x
        BY <3>5, <2>0, <2>11 DEF Owned
      <3> QED  BY <3>1, <3>3, <3>4, <3>5 DEF Owned
    <2>13. CallInv(c)'
      <3>1. Key(c)' = k /\ want'[c] = want[c] /\ db'[c] = db[c]  BY <2>3 DEF Key, k
      <3>2. CASE old = NoEntry
        BY <3>1, <3>2, <2>9, <2>11 DEF CallInv, new
      <3>3. CASE old # NoEntry
        <4>1. dbs[old.db].key = k /\ dbs[old.db].at = old.at  BY <3>3, <2>6
        <4>2. new.at # dbs[old.db].at /\ new.db # old.db  BY <4>1, <3>3, <2>2, <2>4, <2>5 DEF old
        <4> QED  BY <3>1, <3>3, <4>1, <4>2, <2>3, <2>6, <2>9, <2>11 DEF CallInv, new
      <3> QED  BY <3>2, <3>3
    <2>14. \A d \in Callers \ {c} : CallInv(d)'
      <3> SUFFICES ASSUME NEW d \in Callers \ {c} PROVE CallInv(d)'
        OBVIOUS
      <3>1. ~Settled(d) => Key(d) # k  BY <2>0, AtWork DEF k
      <3>2. Key(d) \in Targets  BY AskFields DEF PoolInv, TypeOK, Key
      <3>3. ~Settled(d) => entries'[Key(d)] = entries[Key(d)]  BY <3>1, <3>2, <2>9
      <3> QED  BY <3>3, <1>0, <2>3, <2>11, OtherCall
    <2> QED  BY <2>1, <2>3, <2>10, <2>12, <2>13, <2>14 DEF Handled
  <1>6. ASSUME NEW c \in Callers, CloseStale(c) PROVE Handled'
    <2> DEFINE k == Key(c)
               x == stale[c]
    <2>0. pc[c] = "close" /\ pc[c] \in Inside  BY <1>6 DEF CloseStale, Inside
    <2>1. up /\ k \in Targets /\ entries[k] \in Entries  BY <2>0, AtWork
    <2>2. x \in Handles /\ dbs[x] # Closed /\ dbs[x].key = k /\ entries[k].db # x
      BY <1>0, <2>0 DEF CallInv
    <2>3. dbs' = [dbs EXCEPT ![x] = Closed] /\ UNCHANGED <<up, entries>>
      BY <1>6 DEF CloseStale
    <2>4. \A d \in Callers : d # c => pc'[d] = pc[d] /\ want'[d] = want[d] /\ db'[d] = db[d] /\ stale'[d] = stale[d]
      BY <1>6 DEF CloseStale, Return, Goto, PoolInv, TypeOK
    <2>5. /\ pc'[c] \in {"rotate", "idle"}
          /\ pc'[c] = "rotate" => want[c].op = "get" /\ want'[c] = want[c] /\ db'[c] = db[c]
      BY <1>6 DEF CloseStale, Return, Goto, PoolInv, TypeOK
    <2>6. CallInv(c)'
      <3>1. pc'[c] = "rotate" => Key(c)' = k /\ entries'[k] = [db |-> db'[c], at |-> want'[c].at]
        BY <1>0, <2>0, <2>3, <2>5 DEF CallInv, Key
      <3> QED  BY <3>1, <2>5 DEF CallInv
    <2> HIDE DEF k, x
    <2>7. dbs'[x] = Closed /\ \A h \in Handles : h # x => dbs'[h] = dbs[h]
      BY <2>2, <2>3 DEF PoolInv, TypeOK
    <2>8. \A j \in Targets : entries[j] # NoEntry => entries[j].db \in Handles /\ entries[j].db # x
      <3> SUFFICES ASSUME NEW j \in Targets, entries[j] # NoEntry
                   PROVE  entries[j].db \in Handles /\ entries[j].db # x
        OBVIOUS
      <3>1. entries[j] \in Entries  BY DEF PoolInv, TypeOK
      <3>2. entries[j].db \in Handles  BY <3>1, EntryFields
      <3>3. dbs[entries[j].db] = [key |-> j, at |-> entries[j].at]
        BY DEF PoolInv, CachedIsOpen
      <3>4. dbs[entries[j].db].key = j  BY <3>3
      <3> QED  BY <2>2, <3>2, <3>4
    <2>9. CachedIsOpen'  BY <2>3, <2>7, <2>8 DEF PoolInv, CachedIsOpen
    <2>10. NothingLeaks'
      <3> SUFFICES ASSUME NEW h \in Handles, dbs'[h] # Closed PROVE Owned(h)'
        BY DEF NothingLeaks, Owned
      <3>1. h # x /\ dbs[h] # Closed  BY <2>7
      <3>2. Owned(h)  BY <3>1 DEF PoolInv, NothingLeaks, Owned
      <3> QED  BY <3>1, <3>2, <2>0, <2>3, <2>4 DEF Owned, x
    <2>11. \A d \in Callers \ {c} : CallInv(d)'
      <3> SUFFICES ASSUME NEW d \in Callers \ {c} PROVE CallInv(d)'
        OBVIOUS
      <3>1. CallInv(d) /\ want[d] \in Asks /\ (~Settled(d) => Key(d) # k)
        BY <2>0, AtWork DEF PoolInv, TypeOK, k
      <3>2. pc[d] = "install" => db[d] \in Handles /\ dbs[db[d]].key = Key(d)
        BY <3>1, ConnectedFields DEF CallInv, Key
      <3>3. pc[d] = "close" => stale[d] \in Handles /\ dbs[stale[d]].key = Key(d)
        BY <3>1 DEF CallInv
      <3>4. pc[d] \in {"install", "close"} => ~Settled(d)  BY DEF Settled
      <3>5. pc[d] = "install" => dbs'[db[d]] = dbs[db[d]]  BY <3>1, <3>2, <3>4, <2>2, <2>7
      <3>6. pc[d] = "close" => dbs'[stale[d]] = dbs[stale[d]]  BY <3>1, <3>3, <3>4, <2>2, <2>7
      <3> QED  BY <3>1, <3>5, <3>6, <2>3, <2>4, OtherCall
    <2> QED  BY <2>1, <2>3, <2>6, <2>9, <2>10, <2>11 DEF Handled
  <1>7. ASSUME NEW c \in Callers, RotateAndReturn(c) PROVE Handled'
    <2>1. CallInv(c)'  BY <1>7 DEF RotateAndReturn, Return, Goto, CallInv, PoolInv, TypeOK
    <2> QED  BY <1>7, <2>1, HandledQuiet DEF RotateAndReturn, Return, Goto, PoolInv, TypeOK
  <1>8. ASSUME NEW c \in Callers, Remove(c) PROVE Handled'
    <2> DEFINE k == Key(c)
               old == entries[k]
    <2>0. pc[c] = "remove" /\ pc[c] \in Inside  BY <1>8 DEF Remove, Inside
    <2>1. up /\ k \in Targets /\ old \in Entries /\ entries \in [Targets -> Entries]
      BY <2>0, AtWork DEF PoolInv, TypeOK
    <2>2. entries' = [entries EXCEPT ![k] = NoEntry] /\ UNCHANGED <<up, dbs>>
      BY <1>8 DEF Remove
    <2>3. CASE old = NoEntry
      <3>1. entries' = entries  BY <2>1, <2>2, <2>3
      <3>2. Return(c)  BY <1>8, <2>3 DEF Remove
      <3>3. CallInv(c)'  BY <3>2 DEF Return, Goto, CallInv, PoolInv, TypeOK
      <3> QED  BY <2>0, <2>2, <3>1, <3>2, <3>3, HandledQuiet DEF Return, Goto, PoolInv, TypeOK
    <2>4. CASE old # NoEntry
      <3>1. /\ stale' = [stale EXCEPT ![c] = old.db]
            /\ pc' = [pc EXCEPT ![c] = "close"]
            /\ UNCHANGED <<want, db>>
        BY <1>8, <2>4 DEF Remove, Goto
      <3>2. old.db \in Handles /\ dbs[old.db] = [key |-> k, at |-> old.at] /\ dbs[old.db] # Closed
        BY <2>1, <2>4, EntryFields, ClosedFields DEF PoolInv, CachedIsOpen
      <3>3. want[c].op = "evict"  BY <1>0, <2>0 DEF CallInv
      <3> HIDE DEF k, old
      <3>4. old = entries[k]  BY DEF old
      <3>5. entries'[k] = NoEntry /\ \A j \in Targets : j # k => entries'[j] = entries[j]
        BY <2>1, <2>2
      <3>6. /\ pc'[c] = "close" /\ stale'[c] = old.db
            /\ \A d \in Callers : d # c => pc'[d] = pc[d] /\ stale'[d] = stale[d]
        BY <3>1 DEF PoolInv, TypeOK
      <3>7. CachedIsOpen'  BY <2>2, <3>5 DEF PoolInv, CachedIsOpen
      <3>8. NothingLeaks'
        <4> SUFFICES ASSUME NEW x \in Handles, dbs'[x] # Closed PROVE Owned(x)'
          BY DEF NothingLeaks, Owned
        <4>1. Owned(x)  BY <2>2 DEF PoolInv, NothingLeaks, Owned
        <4>2. CASE \E j \in Targets : entries[j].db = x
          <5>1. PICK j \in Targets : entries[j].db = x  BY <4>2
          <5>2. CASE j # k  BY <5>1, <5>2, <3>5 DEF Owned
          <5>3. CASE j = k  BY <5>1, <5>3, <3>4, <3>6 DEF Owned
          <5> QED  BY <5>2, <5>3
        <4>3. CASE \E d \in Callers : pc[d] = "install" /\ db[d] = x
          BY <4>3, <2>0, <3>1, <3>6 DEF Owned
        <4>4. CASE \E d \in Callers : pc[d] = "close" /\ stale[d] = x
          BY <4>4, <2>0, <3>6 DEF Owned
        <4> QED  BY <4>1, <4>2, <4>3, <4>4 DEF Owned
      <3>9. CallInv(c)'
        <4>1. Key(c)' = k /\ want'[c] = want[c]  BY <3>1 DEF Key, k
        <4>2. dbs[old.db].key = k  BY <3>2
        <4>3. NoEntry.db # old.db  BY <3>2, PoolAssumption DEF NoEntry
        <4> QED  BY <4>1, <4>2, <4>3, <2>2, <3>2, <3>3, <3>5, <3>6 DEF CallInv
      <3>10. \A d \in Callers \ {c} : CallInv(d)'
        <4> SUFFICES ASSUME NEW d \in Callers \ {c} PROVE CallInv(d)'
          OBVIOUS
        <4>1. ~Settled(d) => Key(d) # k  BY <2>0, AtWork DEF k
        <4>2. Key(d) \in Targets  BY AskFields DEF PoolInv, TypeOK, Key
        <4>3. ~Settled(d) => entries'[Key(d)] = entries[Key(d)]  BY <4>1, <4>2, <3>5
        <4> QED  BY <4>3, <1>0, <2>2, <3>1, <3>6, OtherCall
      <3> QED  BY <2>1, <2>2, <3>7, <3>8, <3>9, <3>10 DEF Handled
    <2> QED  BY <2>3, <2>4
  <1>9. ASSUME Close PROVE Handled'
    <2>1. \A c \in Callers : pc'[c] = "idle"  BY <1>9 DEF Close
    <2>2. \A c \in Callers : CallInv(c)'  BY <2>1 DEF CallInv
    <2>3. /\ dbs' = [h \in Handles |-> IF \E k \in Targets : entries[k].db = h THEN Closed ELSE dbs[h]]
          /\ entries' = [k \in Targets |-> NoEntry]
      BY <1>9 DEF Close, CloseAll
    <2>4. \A h \in Handles : dbs[h] # Closed => \E k \in Targets : entries[k].db = h
      BY <1>9 DEF Close, PoolInv, NothingLeaks
    <2>5. dbs' = AllClosed  BY <2>3, <2>4 DEF AllClosed
    <2>6. CachedIsOpen' /\ NothingLeaks'  BY <2>3, <2>5 DEF AllClosed, CachedIsOpen, NothingLeaks
    <2> QED  BY <2>2, <2>5, <2>6 DEF Handled, AllClosed
  <1>10. ASSUME New PROVE Handled'
    <2>1. \A c \in Callers : pc'[c] = "idle"  BY <1>10 DEF New, PoolInv, LockInv
    <2>2. \A c \in Callers : CallInv(c)'  BY <2>1 DEF CallInv
    <2>3. dbs' = AllClosed /\ entries' = NoEntries /\ up'  BY <1>10 DEF New
    <2>4. CachedIsOpen' /\ NothingLeaks'
      BY <2>3 DEF AllClosed, NoEntries, CachedIsOpen, NothingLeaks
    <2> QED  BY <2>2, <2>3, <2>4 DEF Handled
  <1> QED
    BY <1>1, <1>2, <1>3, <1>4, <1>5, <1>6, <1>7, <1>8, <1>9, <1>10 DEF Next, Step

-----------------------------------------------------------------------------
\* A stuttering step keeps the invariant.
LEMMA InvStutter == PoolInv /\ UNCHANGED vars => PoolInv'
  BY DEF vars, PoolInv, TypeOK, LockInv, CachedIsOpen, NothingLeaks, CallInv, Hit, Key

\* The invariant holds in every reachable state.
THEOREM PoolInvariant == Spec => []PoolInv
  <1>1. PoolInv /\ Next => PoolInv'
    BY TypeNext, LockNext, HandledNext DEF Handled, PoolInv
  <1> QED  BY <1>1, InitInv, InvStutter, PTL DEF Spec

\* No two calls ever dial or rotate the same target at once: what spec 004 promises
\* of concurrent rotations, for any number of workers.
THEOREM RotationIsExclusive == Spec => []OneCallInside
  <1>1. PoolInv => OneCallInside  BY LockAlone DEF PoolInv
  <1> QED  BY <1>1, PoolInvariant, PTL

\* A connection in the cache is open and leads where its entry says.
THEOREM CacheIsSound == Spec => []CachedIsOpen
  <1>1. PoolInv => CachedIsOpen  BY DEF PoolInv
  <1> QED  BY <1>1, PoolInvariant, PTL

\* Every open connection is in the cache or in the hands of the call that will put it
\* there or close it.
THEOREM EveryConnectionIsOwned == Spec => []NothingLeaks
  <1>1. PoolInv => NothingLeaks  BY DEF PoolInv
  <1> QED  BY <1>1, PoolInvariant, PTL

\* At no time do two open connections lead to the same account.
THEOREM OneConnectionPerAccount == Spec => []NoTwin
  BY InvNoTwin, PoolInvariant, PTL

\* OrgAdminDB and TenantDB return an open connection to what they were asked for.
THEOREM CallsGetWhatTheyAsk == Spec => []ReturnsWhatWasAsked
  BY InvReturns, PoolInvariant, PTL

\* Whoever holds the mutex a call waits for works on that call's own target.
WaitsForItsOwn ==
    \A c, d \in Callers :
        (pc[c] = "lock" /\ pc[d] \in Inside /\ lock[d] = lock[c]) => Key(d) = Key(c)

\* A dial that hangs holds up no call for another target (SC-010a): a waiting call is only
\* ever held up by one that works on its own target.
THEOREM WaitsOnlyForItsOwn == Spec => []WaitsForItsOwn
  <1>1. PoolInv => WaitsForItsOwn
    <2> SUFFICES ASSUME PoolInv, NEW c \in Callers, NEW d \in Callers,
                        pc[c] = "lock", pc[d] \in Inside, lock[d] = lock[c]
                 PROVE  Key(d) = Key(c)
      BY DEF WaitsForItsOwn
    <2>1. Key(c) \in Targets /\ Key(d) \in Targets  BY AskFields DEF PoolInv, TypeOK, Key
    <2>2. /\ lock[c] = lockOf[Key(c)] /\ lock[c] # 0
          /\ lock[d] = lockOf[Key(d)]
      BY DEF PoolInv, LockInv, Inside
    <2> QED  BY <2>1, <2>2 DEF PoolInv, LockInv
  <1> QED  BY <1>1, PoolInvariant, PTL
=============================================================================
