------------------------- MODULE HandoverProtocol -------------------------
(***************************************************************************)
(* What a DU's handover promises, told without its goroutines, locks and   *)
(* channels: a DU takes one side of one handover.  As the source it        *)
(* requires the handover once and executes it after the UE has its         *)
(* command; as the target it answers once it is open for the UE, and       *)
(* completes once it has answered.                                         *)
(***************************************************************************)
EXTENDS Naturals

VARIABLES
    role, state, \* the handover context
    required,    \* modifications the CU-CP has been asked for
    commanded,   \* handover commands given to the UE
    answered     \* whether the CU-CP has the target's answer

hpVars == <<role, state, required, commanded, answered>>

Preparing(side) == role = side /\ state = "PREPARATION"

Init ==
    /\ \/ role = "NONE" /\ state = "IDLE"
       \/ Preparing("TARGET")
    /\ required = 0 /\ commanded = 0 /\ answered = FALSE

Trigger ==
    /\ role = "NONE"
    /\ role' = "SOURCE" /\ state' = "PREPARATION"
    /\ UNCHANGED <<required, commanded, answered>>

Require ==
    /\ Preparing("SOURCE") /\ required = 0
    /\ required' = 1
    /\ UNCHANGED <<role, state, commanded, answered>>

\* A handover is given up only before the CU-CP knows of it.
GiveUp ==
    /\ Preparing("SOURCE") /\ required = 0
    /\ state' = "FAILED"
    /\ UNCHANGED <<role, required, commanded, answered>>

Command ==
    /\ Preparing("SOURCE") /\ required = 1 /\ commanded = 0
    /\ commanded' = 1
    /\ UNCHANGED <<role, state, required, answered>>

Execute ==
    /\ Preparing("SOURCE") /\ commanded = 1
    /\ state' = "EXECUTION"
    /\ UNCHANGED <<role, required, commanded, answered>>

Open ==
    /\ Preparing("TARGET")
    /\ state' = "EXECUTION"
    /\ UNCHANGED <<role, required, commanded, answered>>

Answer ==
    /\ role = "TARGET" /\ state # "PREPARATION"
    /\ answered' = TRUE
    /\ UNCHANGED <<role, state, required, commanded>>

Complete ==
    /\ role = "TARGET" /\ state = "EXECUTION" /\ answered
    /\ state' = "COMPLETED"
    /\ UNCHANGED <<role, required, commanded, answered>>

Next ==
    \/ Trigger \/ Require \/ GiveUp \/ Command \/ Execute
    \/ Open \/ Answer \/ Complete

Spec == Init /\ [][Next]_hpVars
==============================================================================
