---------------------------- MODULE AccountCustody ----------------------------
(***************************************************************************)
(* What the provider promises of the accounts it creates for one resource, *)
(* whatever its steps: an account is opened with the key that is already   *)
(* in the store, the key stays there for as long as an account needs it,   *)
(* and a recorded account is forgotten only once it is gone.               *)
(***************************************************************************)
CONSTANTS Locators, Keys, None

VARIABLES
    deposited,  \* the key that can be read at the resource's identifier
    live,       \* the accounts that exist, each with the key that opens it
    recorded    \* the locator on the resource

Init == deposited = None /\ live = {} /\ recorded = None

Deposit(k) ==
    /\ live = {}
    /\ deposited' = k
    /\ UNCHANGED <<live, recorded>>

Withdraw ==
    /\ live = {}
    /\ deposited' = None
    /\ UNCHANGED <<live, recorded>>

Open(l) ==
    /\ live = {}
    /\ deposited # None
    /\ live' = {[at |-> l, key |-> deposited]}
    /\ UNCHANGED <<deposited, recorded>>

Close ==
    /\ live' = {}
    /\ UNCHANGED <<deposited, recorded>>

\* Someone clears away the account together with its key.
Clear ==
    /\ live' = {}
    /\ deposited' = None
    /\ UNCHANGED recorded

Record ==
    /\ \E a \in live : recorded' = a.at
    /\ UNCHANGED <<deposited, live>>

Lose ==
    /\ \A a \in live : a.at # recorded
    /\ recorded' = None
    /\ UNCHANGED <<deposited, live>>

Next ==
    \/ \E k \in Keys : Deposit(k)
    \/ \E l \in Locators : Open(l)
    \/ Withdraw \/ Close \/ Clear \/ Record \/ Lose

Spec == Init /\ [][Next]_<<deposited, live, recorded>>
=============================================================================
