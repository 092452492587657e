------------------------------- MODULE RMM3508 -------------------------------
(***************************************************************************)
(* pkg/robomas/src/c/rm_m3508.c: the RoboMaster motors behind the gateways.*)
(*                                                                         *)
(*  - The sensor and the safety thread first compute the gateways'         *)
(*    addresses with RMM3508_createIp, which formats into one static       *)
(*    buffer; both hold g_obj.locker meanwhile.                            *)
(*  - The safety thread repeats the safety flag to every gateway, the      *)
(*    sensor thread files each packet under the gateway it came from.      *)
(*  - RMM3508_setCoef and setAdvancedCoef send a configuration and wait    *)
(*    for its echo on a socket of their own, with a timeout and retries.   *)
(*  - The setters clamp and scale a power and send one frame under         *)
(*    g_obj.locker, without an answer.                                     *)
(*                                                                         *)
(* Gateways and network are external: datagrams are lost, repeated and     *)
(* delayed.  An address is the number of the gateway that has it.          *)
(***************************************************************************)
EXTENDS Integers

CONSTANTS
    GwCount,    \* gateways in use
    Stranger,   \* an address that is no gateway's
    Callers,    \* threads that configure motors
    MaxCalls,   \* bound: calls per caller
    Powers,     \* powers they set, in rpm or tenths of an ampere
    Numbers,    \* motor numbers they pass
    Nobody

Threads == {"sens", "safety"}

ASSUME MotorAssumption ==
    /\ GwCount \in 1 .. 4 /\ MaxCalls \in Nat
    /\ Powers \subseteq Int /\ Numbers \subseteq Int
    /\ Stranger \notin Int /\ Nobody \notin Int \cup Threads

Gateways == 0 .. GwCount - 1

VARIABLES
    locker,     \* holder of g_obj.locker, or Nobody
    ip_str,     \* the gateway whose address the static buffer holds
    bpc, gw_i,  \* thread -> control state and loop index while it starts
    ips,        \* thread -> gateway number -> address stored for it
    is_safety,
    safety,     \* the safety thread's copy
    spc,        \* gateway it sends to next, or GwCount when the round is over
    heard,      \* gateway -> last safety byte that reached it, or Nobody
    sensors,    \* gateway number -> address its data came from, or Nobody
    cpc,        \* caller -> "idle", "send", "recv"
    kind,       \* caller -> "coef" or "advanced"
    calls,      \* caller -> calls begun
    error_count,
    sends,      \* history: caller -> datagrams of the current configuration
    report,     \* caller -> "none", "ok", "failed": how the last call ended
    air,        \* configurations on their way, <<caller, call>>
    applied,    \* configurations the gateway has applied, and echoes
    power       \* history: request and frame of the last call, if it was a
                \* setter that sent one, else NoPower

bootVars   == <<locker, ip_str, bpc, gw_i, ips>>
safetyVars == <<is_safety, safety, spc, heard>>
coefVars   == <<cpc, kind, calls, error_count, sends, report, air, applied, power>>
vars       == <<bootVars, safetyVars, sensors, coefVars>>

-----------------------------------------------------------------------------
(* Clamping and scaling.  A power is in rpm or in tenths of an ampere.     *)
Kinds == {"rpm3508", "rpm2006", "cur3508", "cur2006"}

Limit(k) == CASE k = "rpm3508" -> 10000 [] k = "rpm2006" -> 22000
              [] k = "cur3508" -> 200   [] k = "cur2006" -> 100

Full(k) == CASE k = "cur3508" -> 16384 [] OTHER -> IF k = "cur2006" THEN 10000 ELSE Limit(k)

(* Mutant: only the upper limit is applied.                                *)
ClampAbove(k, x) == IF Limit(k) < x THEN Limit(k) ELSE x

Clamp(k, x) == IF Limit(k) < x THEN Limit(k) ELSE IF x < -Limit(k) THEN -Limit(k) ELSE x

(* Conversion to an integer truncates towards zero.                        *)
Trunc(a, b) == IF a >= 0 THEN a \div b ELSE -((-a) \div b)

PowerFrame(k, number, x) ==
    [mot_id |-> number - 1, value |-> Trunc(Clamp(k, x) * Full(k), Limit(k))]

(* What the getters of a kind make of a value, times Full(k).              *)
Reading(k, value) == value * Limit(k)

NoPower == <<>>

-----------------------------------------------------------------------------
(* RMM3508_init.  It uses the buffer itself before the threads exist.      *)
Init ==
    /\ locker = Nobody /\ ip_str = GwCount - 1
    /\ bpc = [t \in Threads |-> "lock"] /\ gw_i = [t \in Threads |-> 0]
    /\ ips = [t \in Threads |-> [g \in Gateways |-> Nobody]]
    /\ is_safety = TRUE /\ safety = FALSE /\ spc = GwCount
    /\ heard = [g \in Gateways |-> Nobody]
    /\ sensors = [g \in Gateways |-> Nobody]
    /\ cpc = [c \in Callers |-> "idle"] /\ kind = [c \in Callers |-> "coef"]
    /\ calls = [c \in Callers |-> 0] /\ error_count = [c \in Callers |-> 0]
    /\ sends = [c \in Callers |-> 0] /\ report = [c \in Callers |-> "none"]
    /\ air = {} /\ applied = {} /\ power = NoPower

(* Mutant: the threads do not lock while they use the buffer.              *)
bootUnlocked(t) ==
    /\ bpc[t] = "lock"
    /\ bpc' = [bpc EXCEPT ![t] = "format"]
    /\ UNCHANGED <<locker, ip_str, gw_i, ips, safetyVars, sensors, coefVars>>

bootLock(t) ==
    /\ bpc[t] = "lock" /\ locker = Nobody
    /\ locker' = t
    /\ bpc' = [bpc EXCEPT ![t] = "format"]
    /\ UNCHANGED <<ip_str, gw_i, ips, safetyVars, sensors, coefVars>>

(* sprintf into the static buffer; after the last gateway, the unlock.     *)
createIp(t) ==
    /\ bpc[t] = "format"
    /\ IF gw_i[t] < GwCount
         THEN /\ ip_str' = gw_i[t]
              /\ bpc' = [bpc EXCEPT ![t] = "inet_addr"]
              /\ UNCHANGED locker
         ELSE /\ locker' = Nobody
              /\ bpc' = [bpc EXCEPT ![t] = "run"]
              /\ UNCHANGED ip_str
    /\ UNCHANGED <<gw_i, ips, safetyVars, sensors, coefVars>>

inetAddr(t) ==
    /\ bpc[t] = "inet_addr"
    /\ ips' = [ips EXCEPT ![t][gw_i[t]] = ip_str]
    /\ gw_i' = [gw_i EXCEPT ![t] = @ + 1]
    /\ bpc' = [bpc EXCEPT ![t] = "format"]
    /\ UNCHANGED <<locker, ip_str, safetyVars, sensors, coefVars>>

-----------------------------------------------------------------------------
safetyOn ==
    /\ is_safety' = TRUE
    /\ UNCHANGED <<bootVars, safety, spc, heard, sensors, coefVars>>

safetyOff ==
    /\ is_safety' = FALSE
    /\ UNCHANGED <<bootVars, safety, spc, heard, sensors, coefVars>>

(* Mutant: the copy is set when the flag is, and never reset.              *)
safetyCopyLatched ==
    /\ bpc["safety"] = "run" /\ spc = GwCount
    /\ safety' = (is_safety \/ safety) /\ spc' = 0
    /\ UNCHANGED <<bootVars, is_safety, heard, sensors, coefVars>>

(* One round of the safety thread: the flag is copied under its mutex, ... *)
safetyCopy ==
    /\ bpc["safety"] = "run" /\ spc = GwCount
    /\ safety' = is_safety /\ spc' = 0
    /\ UNCHANGED <<bootVars, is_safety, heard, sensors, coefVars>>

(* ... and the copy sent to each gateway, where it arrives or is lost.     *)
safetySend(arrives) ==
    /\ spc < GwCount
    /\ heard' = IF arrives THEN [heard EXCEPT ![ips["safety"][spc]] = safety] ELSE heard
    /\ spc' = spc + 1
    /\ UNCHANGED <<bootVars, is_safety, safety, sensors, coefVars>>

(* The sensor thread files a packet under the first gateway number whose   *)
(* address is the sender's; a packet of another size is only reported.     *)
sensThread(src) ==
    /\ bpc["sens"] = "run"
    /\ LET mine == {g \in Gateways : ips["sens"][g] = src} IN
       sensors' = [g \in Gateways |->
                     IF g \in mine /\ \A h \in mine : g <= h THEN src ELSE sensors[g]]
    /\ UNCHANGED <<bootVars, safetyVars, coefVars>>

-----------------------------------------------------------------------------
Call(c) == <<c, calls[c]>>

(* RMM3508_setCoef and setAdvancedCoef, up to the loop: each call has a    *)
(* socket of its own, so it never sees the echo of another call.           *)
setCoef(c, k) ==
    /\ cpc[c] = "idle" /\ calls[c] < MaxCalls
    /\ cpc' = [cpc EXCEPT ![c] = "send"]
    /\ kind' = [kind EXCEPT ![c] = k]
    /\ calls' = [calls EXCEPT ![c] = @ + 1]
    /\ error_count' = [error_count EXCEPT ![c] = 0]
    /\ sends' = [sends EXCEPT ![c] = 0]
    /\ report' = [report EXCEPT ![c] = "none"]
    /\ power' = NoPower
    /\ UNCHANGED <<bootVars, safetyVars, sensors, air, applied>>

coefSend(c) ==
    /\ cpc[c] = "send"
    /\ cpc' = [cpc EXCEPT ![c] = "recv"]
    /\ sends' = [sends EXCEPT ![c] = @ + 1]
    /\ air' = air \cup {Call(c)}
    /\ UNCHANGED <<bootVars, safetyVars, sensors, kind, calls, error_count, report,
                   applied, power>>

(* The echo arrives and equals the configuration.                          *)
coefEcho(c) ==
    /\ cpc[c] = "recv" /\ Call(c) \in applied
    /\ cpc' = [cpc EXCEPT ![c] = "idle"]
    /\ report' = [report EXCEPT ![c] = "ok"]
    /\ UNCHANGED <<bootVars, safetyVars, sensors, kind, calls, error_count, sends, air,
                   applied, power>>

(* Mutant: one retry too many.                                             *)
LastErrorLate(k) == IF k = "coef" THEN 2 ELSE 4

(* 1 < error_count in setCoef, 3 < error_count in setAdvancedCoef.         *)
LastError(k) == IF k = "coef" THEN 1 ELSE 3

(* Mutant: the call keeps waiting for the echo of its first datagram.      *)
coefKeepsWaiting(c) == cpc[c] = "recv" /\ UNCHANGED vars

(* The timeout passes, or what arrives is not the echo.                    *)
coefRetry(c) ==
    /\ cpc[c] = "recv"
    /\ IF LastError(kind[c]) < error_count[c]
         THEN /\ cpc' = [cpc EXCEPT ![c] = "idle"]
              /\ report' = [report EXCEPT ![c] = "failed"]
              /\ UNCHANGED error_count
         ELSE /\ cpc' = [cpc EXCEPT ![c] = "send"]
              /\ error_count' = [error_count EXCEPT ![c] = @ + 1]
              /\ UNCHANGED report
    /\ UNCHANGED <<bootVars, safetyVars, sensors, kind, calls, sends, air,
                   applied, power>>

(* The gateway applies a configuration, a late or repeated one too.        *)
gatewayApplies(f) ==
    /\ f \in air
    /\ applied' = applied \cup {f}
    /\ UNCHANGED <<bootVars, safetyVars, sensors, cpc, kind, calls, error_count,
                   sends, report, air, power>>

(* RMM3508_setRpmAsM3508, setRpmAsM2006, setCurrentAsM3508 and             *)
(* setCurrentAsM2006; setRpmSyncAsM3508 sends the first frame's value for  *)
(* two motors, setPitchAsM3508 the third's as its base power.  A number    *)
(* that is no motor's is only reported.                                    *)
setPower(c, k, number, x) ==
    /\ cpc[c] = "idle" /\ calls[c] < MaxCalls
    /\ calls' = [calls EXCEPT ![c] = @ + 1]
    /\ report' = [report EXCEPT ![c] = "none"]
    /\ IF 0 < number /\ number <= 8
         THEN /\ locker = Nobody
              /\ power' = <<k, number, x, PowerFrame(k, number, x)>>
         ELSE power' = NoPower
    /\ UNCHANGED <<bootVars, safetyVars, sensors, cpc, kind, error_count, sends,
                   air, applied>>

boot(t) == bootLock(t) \/ createIp(t) \/ inetAddr(t)

Next ==
    \/ \E t \in Threads : boot(t)
    \/ safetyOn \/ safetyOff \/ safetyCopy
    \/ \E b \in BOOLEAN : safetySend(b)
    \/ \E src \in Gateways \cup {Stranger} : sensThread(src)
    \/ \E c \in Callers : \/ \E k \in {"coef", "advanced"} : setCoef(c, k)
                          \/ coefSend(c) \/ coefEcho(c) \/ coefRetry(c)
                          \/ \E k \in Kinds, n \in Numbers, x \in Powers : setPower(c, k, n, x)
    \/ \E f \in air : gatewayApplies(f)

Spec == Init /\ [][Next]_vars

(* The threads run and a receive times out; of the safety datagrams sent   *)
(* again and again to a gateway some arrive.                               *)
Fairness ==
    /\ \A t \in Threads : WF_vars(boot(t))
    /\ WF_vars(safetyCopy) /\ WF_vars(\E b \in BOOLEAN : safetySend(b))
    /\ \A g \in Gateways : SF_vars(spc = g /\ safetySend(TRUE))
    /\ \A c \in Callers : WF_vars(coefSend(c)) /\ WF_vars(coefEcho(c) \/ coefRetry(c))

FairSpec == Spec /\ Fairness

-----------------------------------------------------------------------------
TypeOK ==
    /\ locker \in Threads \cup {Nobody} /\ ip_str \in Gateways
    /\ bpc \in [Threads -> {"lock", "format", "inet_addr", "run"}]
    /\ gw_i \in [Threads -> 0 .. GwCount]
    /\ ips \in [Threads -> [Gateways -> Gateways \cup {Nobody}]]
    /\ is_safety \in BOOLEAN /\ safety \in BOOLEAN /\ spc \in 0 .. GwCount
    /\ heard \in [Gateways -> BOOLEAN \cup {Nobody}]
    /\ sensors \in [Gateways -> Gateways \cup {Nobody}]
    /\ cpc \in [Callers -> {"idle", "send", "recv"}]
    /\ kind \in [Callers -> {"coef", "advanced"}]
    /\ calls \in [Callers -> 0 .. MaxCalls] /\ error_count \in [Callers -> 0 .. 4]
    /\ sends \in [Callers -> 0 .. 5]
    /\ report \in [Callers -> {"none", "ok", "failed"}]
    /\ air \subseteq Callers \X (1 .. MaxCalls) /\ applied \subseteq air
    /\ power = NoPower \/ power \in Kinds \X (1 .. 8) \X Int \X [mot_id : 0 .. 7, value : Int]

(* A thread holds the lock exactly while it uses the static buffer, and    *)
(* what it is about to convert is what it has just formatted.              *)
BufferOwned ==
    \A t \in Threads :
        /\ bpc[t] \in {"format", "inet_addr"} <=> locker = t
        /\ bpc[t] = "inet_addr" => ip_str = gw_i[t]
        /\ gw_i[t] = GwCount => bpc[t] \in {"format", "run"}
        /\ bpc[t] = "lock" => gw_i[t] = 0
        /\ bpc[t] = "run" => gw_i[t] = GwCount

(* Although both threads format addresses in one static buffer, each       *)
(* stores for every gateway that gateway's own address, so the sensor data *)
(* read for a gateway never comes from another one.                        *)
OwnAddresses ==
    /\ \A t \in Threads : \A g \in Gateways : ips[t][g] = IF g < gw_i[t] THEN g ELSE Nobody
    /\ \A g \in Gateways : sensors[g] \in {g, Nobody}

(* The three together: what every step of rm_m3508.c preserves.            *)
MotorInv == TypeOK /\ BufferOwned /\ OwnAddresses

(* A configuration is reported as failed after exactly three unanswered    *)
(* datagrams (five for the advanced one), never earlier or later, and as   *)
(* done only when the gateway has applied it.                              *)
CoefReport ==
    \A c \in Callers :
        /\ report[c] = "failed" => sends[c] = IF kind[c] = "coef" THEN 3 ELSE 5
        /\ report[c] = "ok" => Call(c) \in applied
        /\ cpc[c] = "recv" => sends[c] = error_count[c] + 1

(* A flag that no longer changes reaches every gateway for good, although  *)
(* single datagrams are lost and a round in progress still sends the old   *)
(* one.                                                                    *)
SafetyReachesGateways ==
    /\ <>[]is_safety  => <>[](\A g \in Gateways : heard[g] = TRUE)
    /\ <>[]~is_safety => <>[](\A g \in Gateways : heard[g] = FALSE)

(* A setter's frame is within the motor's range and int16_t, turns the     *)
(* same way as the request, and read back as the getters scale it differs  *)
(* from a permitted request by less than one unit of the frame.            *)
PowerFaithful ==
    power # NoPower =>
        LET k == power[1]  x == power[3]  f == power[4]
            err == Clamp(k, x) * Full(k) - Reading(k, f.value)
        IN  /\ f.value \in -Full(k) .. Full(k) /\ Full(k) < 32768
            /\ f.value * x >= 0
            /\ x \in -Limit(k) .. Limit(k) => /\ -Limit(k) < err /\ err < Limit(k)
                                             /\ Clamp(k, x) = x

(* Every setCoef and setAdvancedCoef returns, whatever the network does.   *)
CoefReturns == \A c \in Callers : (cpc[c] = "send") ~> (cpc[c] = "idle")
=============================================================================
