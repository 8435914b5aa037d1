----------------------------- MODULE KeyHandover -----------------------------
(***************************************************************************)
(* What key rotation promises, whatever its steps: Snowflake accepts two   *)
(* public keys for a user, the secret store names one of them, and no step *)
(* ever leaves the store naming a key that Snowflake does not accept.      *)
(***************************************************************************)
CONSTANTS Keys, None

VARIABLES
    slots,   \* the two key slots of the user
    stored   \* the key in the secret store

Slots == {"RSA_PUBLIC_KEY", "RSA_PUBLIC_KEY_2"}

Accepted == {slots[s] : s \in Slots}

Init ==
    /\ stored \in Keys
    /\ slots = [s \in Slots |-> IF s = "RSA_PUBLIC_KEY" THEN stored ELSE None]

\* A new key replaces whatever the slot held that the store does not name.
Register(s, k) ==
    /\ slots[s] # stored
    /\ slots' = [slots EXCEPT ![s] = k]
    /\ UNCHANGED stored

\* The store moves on to a key that is accepted already.
Publish(k) ==
    /\ k \in Accepted
    /\ stored' = k
    /\ UNCHANGED slots

Next == \E k \in Keys : Publish(k) \/ \E s \in Slots : Register(s, k)

Spec == Init /\ [][Next]_<<slots, stored>>
=============================================================================
