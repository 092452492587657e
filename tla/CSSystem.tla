------------------------------ MODULE CSSystem -------------------------------
(***************************************************************************)
(* pkg/can_smbus/src/core/cs_system.c: the safety flag, the threads that   *)
(* change it (safetyOn, safetyOff) and the safety thread that repeats it   *)
(* on the bus every 200 ms.                                                *)
(*                                                                         *)
(* The flag is protected by a mutex, the broadcasts that follow are not:   *)
(* each CSTx_sendBrc is a step of its own, so the broadcasts of a caller   *)
(* and of the safety thread interleave.  A broadcast counts as made when   *)
(* it enters the gateway's High queue (CSTx takes it from there).          *)
(* CSSystem_allReboot keeps no state: it is four broadcasts of ChipInit.   *)
(***************************************************************************)
EXTENDS Naturals, Sequences, FiniteSets

CONSTANTS
    Callers,    \* threads that call safetyOn and safetyOff
    Thread      \* CSSystem_safetyThread

ASSUME SystemAssumption == Thread \notin Callers /\ IsFiniteSet(Callers)

VARIABLES
    is_enable_safety,   \* the flag
    todo,       \* process -> broadcasts <<gateway, register>> still to send
    last,       \* gateway -> last safety register broadcast to it, or "none"
    stale       \* history: gateway -> broadcasts contradicting the flag
                \* since it was last assigned

svars == <<is_enable_safety, todo, last, stale>>

Gateways       == 0 .. 3
SafetyGateways == {0, 1}    \* the calls for gateways 2 and 3 are disabled
Processes      == Callers \cup {Thread}

Mode(on) == IF on THEN "Unsafe" ELSE "Safety"

safeMode   == << <<0, "Safety">>, <<1, "Safety">> >>
unsafeMode == << <<0, "Unsafe">>, <<1, "Unsafe">> >>

-----------------------------------------------------------------------------
SInit ==
    /\ is_enable_safety = FALSE
    /\ todo = [p \in Processes |-> <<>>]
    /\ last = [g \in Gateways |-> "none"]
    /\ stale = [g \in Gateways |-> 0]

Assign(c, on, broadcasts) ==
    /\ todo[c] = <<>>
    /\ is_enable_safety' = on
    /\ todo' = [todo EXCEPT ![c] = broadcasts]
    /\ stale' = [g \in Gateways |-> 0]
    /\ UNCHANGED last

safetyOn(c)  == Assign(c, TRUE, unsafeMode)
safetyOff(c) == Assign(c, FALSE, safeMode)

(* The safety thread reads the flag under the mutex and acts on the copy.  *)
safetyThread ==
    /\ todo[Thread] = <<>>
    /\ todo' = [todo EXCEPT ![Thread] = IF is_enable_safety THEN unsafeMode ELSE safeMode]
    /\ UNCHANGED <<is_enable_safety, last, stale>>

(* The next CSTx_sendBrc of a process.                                     *)
sendBrc(p) ==
    /\ todo[p] # <<>>
    /\ todo' = [todo EXCEPT ![p] = Tail(@)]
    /\ LET gw == Head(todo[p])[1]  reg == Head(todo[p])[2] IN
       /\ last' = [last EXCEPT ![gw] = reg]
       /\ stale' = IF reg = Mode(is_enable_safety) THEN stale
                   ELSE [stale EXCEPT ![gw] = @ + 1]
    /\ UNCHANGED is_enable_safety

SNext ==
    \/ \E c \in Callers : safetyOn(c) \/ safetyOff(c)
    \/ safetyThread
    \/ \E p \in Processes : sendBrc(p)

SSpec == SInit /\ [][SNext]_svars

-----------------------------------------------------------------------------
STypeOK ==
    /\ is_enable_safety \in BOOLEAN
    /\ todo \in [Processes -> Seq(Gateways \X {"Safety", "Unsafe"})]
    /\ last \in [Gateways -> {"none", "Safety", "Unsafe"}]
    /\ stale \in [Gateways -> Nat]

(* A broadcast that contradicts the flag can follow an assignment of the   *)
(* flag (the sender read or wrote it earlier), but at most once per        *)
(* gateway and process other than the one that assigned it.                *)
StaleBounded == \A g \in Gateways : stale[g] <= Cardinality(Callers)
=============================================================================
