---------------------------- MODULE KeyAgreement ----------------------------
(***************************************************************************)
(* What registration promises: the two ends of the NAS connection may each *)
(* hold a K_AMF; the network only ever adopts the key the UE holds at that *)
(* moment, the UE's key only moves to a challenge that is not older, and   *)
(* the UE is registered only on a key that both ends hold.  It promises so *)
(* until a disturbance: a message overtakes another, or the network gives  *)
(* the UE a wrong challenge or turns it away.                              *)
(***************************************************************************)
EXTENDS Naturals

CONSTANTS Key,      \* K_AMF values, records with a field sqn
          NoKey

VARIABLES ueKey, netKey, registered, disturbed

kaVars == <<ueKey, netKey, registered, disturbed>>

Init == ueKey = NoKey /\ netKey = NoKey /\ registered = FALSE /\ disturbed = FALSE

\* The UE accepts a challenge.
Install(k) ==
    /\ ueKey # NoKey => k.sqn >= ueKey.sqn
    /\ ueKey' = k
    /\ UNCHANGED <<netKey, registered>>

\* The network learns that the UE has taken the key into use.
Confirm ==
    /\ ueKey # NoKey
    /\ netKey' = ueKey
    /\ UNCHANGED <<ueKey, registered>>

Register ==
    /\ netKey # NoKey
    /\ netKey = ueKey
    /\ registered' = TRUE
    /\ UNCHANGED <<ueKey, netKey>>

Undisturbed == ~disturbed /\ UNCHANGED disturbed

\* Afterwards nothing is promised.
Disturb == disturbed'

Next == (Undisturbed /\ ((\E k \in Key : Install(k)) \/ Confirm \/ Register)) \/ Disturb

Spec == Init /\ [][Next]_kaVars /\ WF_kaVars(Register /\ ~registered /\ Undisturbed)
=============================================================================
