--------------------------- MODULE RMM3508Proofs -----------------------------
(***************************************************************************)
(* Proofs about RMM3508, for every number of gateways, callers and calls:  *)
(* the threads that share one static address buffer each store the right   *)
(* addresses, and a configuration is reported as it went.                  *)
(***************************************************************************)
EXTENDS RMM3508, TLAPS

(* What the counters of a configuration call tell at each of its points:   *)
(* the number of datagrams follows from the number of errors.              *)
CoefOk(c) ==
    /\ cpc[c] = "send" => sends[c] = error_count[c]
    /\ cpc[c] = "recv" => sends[c] = error_count[c] + 1
    /\ error_count[c] <= LastError(kind[c]) + 1
    /\ report[c] = "failed" => sends[c] = LastError(kind[c]) + 2
    /\ report[c] = "ok" => Call(c) \in applied
    /\ report[c] # "none" => cpc[c] = "idle"
    /\ cpc[c] # "idle" => calls[c] >= 1

CoefInv == \A c \in Callers : CoefOk(c)

(* The inductive invariant.                                                *)
IInv == MotorInv /\ CoefInv

(* RMM3508_init leaves no address stored and the lock free.                *)
LEMMA InitMotorInv == Init => MotorInv
<1> SUFFICES ASSUME Init PROVE MotorInv
  OBVIOUS
<1> USE MotorAssumption
<1>1. TypeOK
  <2>1. /\ locker \in Threads \cup {Nobody} /\ ip_str \in Gateways
        /\ bpc \in [Threads -> {"lock", "format", "inet_addr", "run"}]
        /\ gw_i \in [Threads -> 0 .. GwCount]
        /\ ips \in [Threads -> [Gateways -> Gateways \cup {Nobody}]]
    BY DEF Init, Gateways
  <2>2. /\ is_safety \in BOOLEAN /\ safety \in BOOLEAN /\ spc \in 0 .. GwCount
        /\ sensors \in [Gateways -> Gateways \cup {Nobody}]
    <3>1. is_safety \in BOOLEAN /\ safety \in BOOLEAN
      BY Zenon DEF Init
    <3>2. spc \in 0 .. GwCount /\ sensors \in [Gateways -> Gateways \cup {Nobody}]
      BY DEF Init
    <3> QED BY <3>1, <3>2
  <2>3. heard \in [Gateways -> BOOLEAN \cup {Nobody}]
    BY Zenon DEF Init
  <2>4. /\ cpc \in [Callers -> {"idle", "send", "recv"}]
        /\ kind \in [Callers -> {"coef", "advanced"}]
        /\ calls \in [Callers -> 0 .. MaxCalls] /\ error_count \in [Callers -> 0 .. 4]
        /\ sends \in [Callers -> 0 .. 5]
        /\ report \in [Callers -> {"none", "ok", "failed"}]
    BY DEF Init
  <2>5. air = {} /\ applied = {} /\ power = NoPower
    BY DEF Init
  <2> QED BY <2>1, <2>2, <2>3, <2>4, <2>5 DEF TypeOK
<1>2. BufferOwned
  BY DEF Init, BufferOwned, Threads, Gateways
<1>3. OwnAddresses
  BY DEF Init, OwnAddresses, Threads, Gateways
<1> QED BY <1>1, <1>2, <1>3 DEF MotorInv

(* A thread that takes the lock starts at gateway 0.                       *)
LEMMA BootLockStep ==
    ASSUME MotorInv, NEW t \in Threads, bootLock(t)
    PROVE  MotorInv'
<1> USE MotorAssumption DEF MotorInv, bootLock, safetyVars, coefVars
<1>1. TypeOK'
  BY DEF TypeOK
<1>2. BufferOwned'
  BY DEF TypeOK, BufferOwned, Threads
<1>3. OwnAddresses'
  BY DEF TypeOK, OwnAddresses
<1> QED BY <1>1, <1>2, <1>3

(* What a step of the address loop leaves alone keeps its type.            *)
LEMMA BootTypes ==
    ASSUME TypeOK, UNCHANGED <<safetyVars, sensors, coefVars>>,
           locker' \in Threads \cup {Nobody}, ip_str' \in Gateways,
           bpc' \in [Threads -> {"lock", "format", "inet_addr", "run"}],
           gw_i' \in [Threads -> 0 .. GwCount],
           ips' \in [Threads -> [Gateways -> Gateways \cup {Nobody}]]
    PROVE  TypeOK'
<1>1. is_safety' \in BOOLEAN /\ safety' \in BOOLEAN
  BY Zenon DEF TypeOK, safetyVars
<1>2. /\ spc' \in 0 .. GwCount /\ heard' \in [Gateways -> BOOLEAN \cup {Nobody}]
      /\ sensors' \in [Gateways -> Gateways \cup {Nobody}]
  BY Zenon DEF TypeOK, safetyVars
<1>3. /\ cpc' \in [Callers -> {"idle", "send", "recv"}]
      /\ kind' \in [Callers -> {"coef", "advanced"}]
      /\ calls' \in [Callers -> 0 .. MaxCalls] /\ error_count' \in [Callers -> 0 .. 4]
      /\ sends' \in [Callers -> 0 .. 5]
      /\ report' \in [Callers -> {"none", "ok", "failed"}]
      /\ air' \subseteq Callers \X (1 .. MaxCalls) /\ applied' \subseteq air'
  BY Zenon DEF TypeOK, coefVars
<1>4. power' = NoPower \/ power' \in Kinds \X (1 .. 8) \X Int \X [mot_id : 0 .. 7, value : Int]
  BY Zenon DEF TypeOK, coefVars
<1> QED BY <1>1, <1>2, <1>3, <1>4, Zenon DEF TypeOK

(* Likewise for a step of a configuration call.                            *)
LEMMA CallTypes ==
    ASSUME TypeOK, UNCHANGED <<bootVars, safetyVars, sensors, kind, calls, power>>,
           cpc' \in [Callers -> {"idle", "send", "recv"}],
           error_count' \in [Callers -> 0 .. 4], sends' \in [Callers -> 0 .. 5],
           report' \in [Callers -> {"none", "ok", "failed"}],
           air' \subseteq Callers \X (1 .. MaxCalls), applied' \subseteq air'
    PROVE  TypeOK'
<1>1. is_safety' \in BOOLEAN /\ safety' \in BOOLEAN
  BY Zenon DEF TypeOK, safetyVars
<1>2. /\ spc' \in 0 .. GwCount /\ heard' \in [Gateways -> BOOLEAN \cup {Nobody}]
      /\ sensors' \in [Gateways -> Gateways \cup {Nobody}]
  BY Zenon DEF TypeOK, safetyVars
<1>3. /\ locker' \in Threads \cup {Nobody} /\ ip_str' \in Gateways
      /\ bpc' \in [Threads -> {"lock", "format", "inet_addr", "run"}]
      /\ gw_i' \in [Threads -> 0 .. GwCount]
      /\ ips' \in [Threads -> [Gateways -> Gateways \cup {Nobody}]]
  BY Zenon DEF TypeOK, bootVars
<1>4. /\ kind' \in [Callers -> {"coef", "advanced"}]
      /\ calls' \in [Callers -> 0 .. MaxCalls]
      /\ power' = NoPower \/ power' \in Kinds \X (1 .. 8) \X Int \X [mot_id : 0 .. 7, value : Int]
  BY Zenon DEF TypeOK
<1> QED BY <1>1, <1>2, <1>3, <1>4, Zenon DEF TypeOK

(* RMM3508_createIp formats the address of the gateway the loop is at.     *)
LEMMA CreateIpStep ==
    ASSUME MotorInv, NEW t \in Threads, createIp(t)
    PROVE  MotorInv'
<1>1. TypeOK'
  <2>1. /\ TypeOK /\ UNCHANGED <<gw_i, ips>> /\ UNCHANGED <<safetyVars, sensors, coefVars>>
        /\ gw_i \in [Threads -> 0 .. GwCount]
        /\ ips \in [Threads -> [Gateways -> Gateways \cup {Nobody}]]
    BY DEF createIp, MotorInv, TypeOK
  <2>2. bpc' \in [Threads -> {"lock", "format", "inet_addr", "run"}]
    BY DEF createIp, MotorInv, TypeOK
  <2>3. ip_str' \in Gateways
    BY MotorAssumption DEF createIp, MotorInv, TypeOK, Gateways
  <2>4. locker' \in Threads \cup {Nobody}
    BY DEF createIp, MotorInv, TypeOK
  <2> QED BY <2>1, <2>2, <2>3, <2>4, BootTypes
<1> USE MotorAssumption DEF MotorInv, createIp, safetyVars, coefVars
<1>2. BufferOwned'
  <2>1. CASE gw_i[t] < GwCount
    BY <2>1 DEF TypeOK, BufferOwned, Threads, Gateways
  <2>2. CASE ~(gw_i[t] < GwCount)
    <3>1. gw_i[t] = GwCount
      BY <2>2 DEF TypeOK
    <3> QED BY <2>2, <3>1 DEF TypeOK, BufferOwned, Threads, Gateways
  <2> QED BY <2>1, <2>2
<1>3. OwnAddresses'
  BY DEF TypeOK, OwnAddresses
<1> QED BY <1>1, <1>2, <1>3

(* inet_addr reads what the same thread has formatted.                     *)
LEMMA InetAddrStep ==
    ASSUME MotorInv, NEW t \in Threads, inetAddr(t)
    PROVE  MotorInv'
<1> USE MotorAssumption DEF MotorInv, inetAddr, safetyVars, coefVars
<1>1. gw_i[t] \in Gateways /\ ip_str = gw_i[t]
  BY DEF TypeOK, BufferOwned, Gateways
<1>2. TypeOK'
  BY <1>1 DEF TypeOK, Gateways
<1>3. BufferOwned'
  BY <1>1 DEF TypeOK, BufferOwned, Threads, Gateways
<1>4. OwnAddresses'
  BY <1>1 DEF TypeOK, OwnAddresses, Gateways
<1> QED BY <1>2, <1>3, <1>4

(* The rounds of the safety thread use the stored addresses only.          *)
LEMMA SafetyStep ==
    ASSUME MotorInv,
           safetyOn \/ safetyOff \/ safetyCopy \/ (\E b \in BOOLEAN : safetySend(b))
    PROVE  MotorInv'
<1> USE MotorAssumption DEF MotorInv, bootVars, coefVars
<1>1. TypeOK'
  <2>1. CASE safetyOn
    BY <2>1 DEF TypeOK, safetyOn
  <2>2. CASE safetyOff
    BY <2>2 DEF TypeOK, safetyOff
  <2>3. CASE safetyCopy
    BY <2>3 DEF TypeOK, safetyCopy
  <2>4. CASE \E b \in BOOLEAN : safetySend(b)
    <3>1. PICK b \in BOOLEAN : safetySend(b)
      BY <2>4
    <3>2. heard' \in [Gateways -> BOOLEAN \cup {Nobody}]
      BY <3>1, Zenon DEF TypeOK, safetySend
    <3>3. spc' \in 0 .. GwCount
      BY <3>1 DEF TypeOK, safetySend
    <3> QED BY <3>1, <3>2, <3>3 DEF TypeOK, safetySend
  <2> QED BY <2>1, <2>2, <2>3, <2>4
<1>2. UNCHANGED <<bootVars, sensors>>
  BY DEF safetyOn, safetyOff, safetyCopy, safetySend
<1>3. BufferOwned' /\ OwnAddresses'
  BY <1>2 DEF BufferOwned, OwnAddresses
<1> QED BY <1>1, <1>3

(* A packet is filed under the gateway whose address is its sender's.      *)
LEMMA SensStep ==
    ASSUME MotorInv, NEW src \in Gateways \cup {Stranger}, sensThread(src)
    PROVE  MotorInv'
<1> USE MotorAssumption DEF MotorInv, bootVars, safetyVars, coefVars
<1>1. \A g \in Gateways : ips["sens"][g] = g
  BY DEF sensThread, OwnAddresses, BufferOwned, Threads, Gateways
<1>2. \A g \in Gateways : sensors'[g] \in {g, Nobody}
  BY <1>1 DEF sensThread, OwnAddresses
<1>3. TypeOK'
  <2>1. sensors' \in [Gateways -> Gateways \cup {Nobody}]
    BY <1>2 DEF sensThread
  <2> QED BY <2>1 DEF TypeOK, sensThread
<1>4. BufferOwned' /\ OwnAddresses'
  BY <1>2 DEF BufferOwned, OwnAddresses, sensThread
<1> QED BY <1>3, <1>4

(* The steps of the callers leave the threads alone.                       *)
LEMMA CallersKeep ==
    ASSUME BufferOwned, OwnAddresses, UNCHANGED <<bootVars, sensors>>
    PROVE  BufferOwned' /\ OwnAddresses'
BY DEF BufferOwned, OwnAddresses, bootVars

(* The value of a power frame is a number.                                 *)
LEMMA PowerFrameType ==
    ASSUME NEW k \in Kinds, NEW n \in 1 .. 8, NEW x \in Int
    PROVE  PowerFrame(k, n, x) \in [mot_id : 0 .. 7, value : Int]
<1>1. Limit(k) \in Nat \ {0} /\ Full(k) \in Nat
  BY DEF Kinds, Limit, Full
<1>2. Clamp(k, x) \in Int
  BY <1>1 DEF Clamp
<1>3. ASSUME NEW a \in Int, NEW b \in Nat \ {0}
      PROVE  Trunc(a, b) \in Int
  BY DEF Trunc
<1>4. Clamp(k, x) * Full(k) \in Int
  BY <1>1, <1>2
<1>5. Trunc(Clamp(k, x) * Full(k), Limit(k)) \in Int
  BY <1>1, <1>3, <1>4
<1> QED BY <1>5 DEF PowerFrame

(* A setter or a configuration that begins.                                *)
LEMMA BeginStep ==
    ASSUME IInv, NEW c \in Callers,
           \/ \E k \in {"coef", "advanced"} : setCoef(c, k)
           \/ \E k \in Kinds, n \in Numbers, x \in Powers : setPower(c, k, n, x)
    PROVE  IInv'
<1> USE MotorAssumption DEF IInv, MotorInv
<1>1. CASE \E k \in {"coef", "advanced"} : setCoef(c, k)
  <2>1. PICK k \in {"coef", "advanced"} : setCoef(c, k)
    BY <1>1
  <2>2. TypeOK'
    BY <2>1 DEF TypeOK, setCoef, bootVars, safetyVars
  <2>3. CoefInv'
    BY <2>1 DEF TypeOK, setCoef, CoefInv, CoefOk, LastError, Call
  <2>4. BufferOwned' /\ OwnAddresses'
    BY <2>1, CallersKeep DEF setCoef
  <2> QED BY <2>2, <2>3, <2>4
<1>2. CASE \E k \in Kinds, n \in Numbers, x \in Powers : setPower(c, k, n, x)
  <2>1. PICK k \in Kinds, n \in Numbers, x \in Powers : setPower(c, k, n, x)
    BY <1>2
  <2>2. power' = NoPower \/ power' \in Kinds \X (1 .. 8) \X Int \X [mot_id : 0 .. 7, value : Int]
    <3>1. CASE 0 < n /\ n <= 8
      <4>1. n \in 1 .. 8 /\ x \in Int
        BY <3>1
      <4>2. PowerFrame(k, n, x) \in [mot_id : 0 .. 7, value : Int]
        BY <4>1, PowerFrameType
      <4>3. power' = <<k, n, x, PowerFrame(k, n, x)>>
        BY <2>1, <3>1 DEF setPower
      <4> QED BY <4>1, <4>2, <4>3
    <3>2. CASE ~(0 < n /\ n <= 8)
      BY <2>1, <3>2 DEF setPower
    <3> QED BY <3>1, <3>2
  <2>3. TypeOK'
    BY <2>1, <2>2 DEF TypeOK, setPower, bootVars, safetyVars
  <2>4. CoefInv'
    BY <2>1 DEF TypeOK, setPower, CoefInv, CoefOk, LastError, Call
  <2>5. BufferOwned' /\ OwnAddresses'
    BY <2>1, CallersKeep DEF setPower
  <2> QED BY <2>3, <2>4, <2>5
<1> QED BY <1>1, <1>2

(* A call tells nothing about the counters of another caller.              *)
LEMMA OtherCallers ==
    ASSUME TypeOK, CoefInv, NEW c \in Callers, NEW d \in Callers, d # c,
           coefSend(c) \/ coefEcho(c) \/ coefRetry(c)
    PROVE  CoefOk(d)'
<1>1. /\ cpc'[d] = cpc[d] /\ sends'[d] = sends[d] /\ error_count'[d] = error_count[d]
      /\ report'[d] = report[d]
  BY DEF TypeOK, coefSend, coefEcho, coefRetry
<1>2. kind' = kind /\ calls' = calls /\ applied' = applied
  BY DEF coefSend, coefEcho, coefRetry
<1>3. CoefOk(d)
  BY DEF CoefInv
<1> QED BY <1>1, <1>2, <1>3 DEF CoefOk, Call, LastError

(* A turn of the loop in RMM3508_setCoef or setAdvancedCoef: the retry     *)
(* limit keeps the datagrams of a call to three or five.                   *)
LEMMA CoefStep ==
    ASSUME IInv, NEW c \in Callers, coefSend(c) \/ coefEcho(c) \/ coefRetry(c)
    PROVE  IInv'
<1> USE MotorAssumption DEF IInv, MotorInv
<1>0. UNCHANGED <<bootVars, safetyVars, sensors, kind, calls, power>>
  BY DEF coefSend, coefEcho, coefRetry
<1>a. ASSUME CoefOk(c)' PROVE CoefInv'
  BY <1>a, OtherCallers DEF CoefInv
<1>b. CoefOk(c) /\ kind[c] \in {"coef", "advanced"}
  BY DEF CoefInv, TypeOK
<1>1. CASE coefSend(c)
  <2>1. /\ sends[c] + 1 \in 0 .. 5
        /\ sends[c] = error_count[c]
        /\ calls[c] \in 1 .. MaxCalls
    BY <1>1 DEF coefSend, TypeOK, CoefInv, CoefOk
  <2>2. air' \subseteq Callers \X (1 .. MaxCalls) /\ applied' \subseteq air'
    BY <1>1, <2>1 DEF coefSend, TypeOK, Call
  <2>3. TypeOK'
    <3>1. /\ cpc' \in [Callers -> {"idle", "send", "recv"}] /\ sends' \in [Callers -> 0 .. 5]
          /\ error_count' \in [Callers -> 0 .. 4]
          /\ report' \in [Callers -> {"none", "ok", "failed"}]
      BY <1>1, <2>1 DEF coefSend, TypeOK
    <3> QED BY <1>0, <2>2, <3>1, CallTypes
  <2>4. CoefInv'
    BY <1>1, <1>a, <1>b, <2>1 DEF coefSend, TypeOK, CoefOk, LastError, Call
  <2> QED BY <1>0, <2>3, <2>4, CallersKeep
<1>2. CASE coefEcho(c)
  <2>1. TypeOK'
    <3>1. /\ cpc' \in [Callers -> {"idle", "send", "recv"}] /\ sends' \in [Callers -> 0 .. 5]
          /\ error_count' \in [Callers -> 0 .. 4]
          /\ report' \in [Callers -> {"none", "ok", "failed"}]
      BY <1>2 DEF coefEcho, TypeOK
    <3>2. air' \subseteq Callers \X (1 .. MaxCalls) /\ applied' \subseteq air'
      BY <1>2 DEF coefEcho, TypeOK
    <3> QED BY <1>0, <3>1, <3>2, CallTypes
  <2>2. CoefInv'
    BY <1>2, <1>a, <1>b DEF coefEcho, TypeOK, CoefOk, LastError, Call
  <2> QED BY <1>0, <2>1, <2>2, CallersKeep
<1>3. CASE coefRetry(c)
  <2>0. air' \subseteq Callers \X (1 .. MaxCalls) /\ applied' \subseteq air'
    BY <1>3 DEF coefRetry, TypeOK
  <2>1. CASE LastError(kind[c]) < error_count[c]
    <3>1. TypeOK'
      <4>1. /\ cpc' \in [Callers -> {"idle", "send", "recv"}] /\ sends' \in [Callers -> 0 .. 5]
            /\ error_count' \in [Callers -> 0 .. 4]
            /\ report' \in [Callers -> {"none", "ok", "failed"}]
        BY <1>3, <2>1 DEF coefRetry, TypeOK
      <4> QED BY <1>0, <2>0, <4>1, CallTypes
    <3>2. CoefInv'
      BY <1>3, <1>a, <1>b, <2>1 DEF coefRetry, TypeOK, CoefOk, LastError, Call
    <3> QED BY <1>0, <3>1, <3>2, CallersKeep
  <2>2. CASE ~(LastError(kind[c]) < error_count[c])
    <3>0. error_count[c] + 1 \in 0 .. 4
      BY <2>2 DEF TypeOK, LastError
    <3>1. TypeOK'
      <4>1. /\ cpc' \in [Callers -> {"idle", "send", "recv"}] /\ sends' \in [Callers -> 0 .. 5]
            /\ error_count' \in [Callers -> 0 .. 4]
            /\ report' \in [Callers -> {"none", "ok", "failed"}]
        BY <1>3, <2>2, <3>0 DEF coefRetry, TypeOK
      <4> QED BY <1>0, <2>0, <4>1, CallTypes
    <3>2. CoefInv'
      BY <1>3, <1>a, <1>b, <2>2 DEF coefRetry, TypeOK, CoefOk, LastError, Call
    <3> QED BY <1>0, <3>1, <3>2, CallersKeep
  <2> QED BY <2>1, <2>2
<1> QED BY <1>1, <1>2, <1>3

(* The gateway applies what was sent.                                      *)
LEMMA GatewayStep ==
    ASSUME IInv, NEW f \in air, gatewayApplies(f)
    PROVE  IInv'
<1> USE DEF IInv, MotorInv
<1>1. TypeOK'
  BY DEF gatewayApplies, TypeOK, bootVars, safetyVars
<1>2. CoefInv'
  BY DEF gatewayApplies, TypeOK, CoefInv, CoefOk, Call
<1> QED BY <1>1, <1>2, CallersKeep DEF gatewayApplies

(* The initial state satisfies the invariant.                              *)
LEMMA InitIInv == Init => IInv
<1> SUFFICES ASSUME Init PROVE CoefInv
  BY InitMotorInv DEF IInv
<1> QED BY DEF Init, CoefInv, CoefOk, LastError

(* One case per group of actions of the specification.                     *)
LEMMA NextIInv == IInv /\ [Next]_vars => IInv'
<1> SUFFICES ASSUME IInv, [Next]_vars PROVE IInv'
  OBVIOUS
<1>0. ASSUME UNCHANGED coefVars PROVE CoefInv'
  BY <1>0 DEF IInv, CoefInv, CoefOk, coefVars, Call
<1>1. ASSUME NEW t \in Threads, boot(t) PROVE IInv'
  <2>1. UNCHANGED coefVars
    BY <1>1 DEF boot, bootLock, createIp, inetAddr
  <2>2. MotorInv'
    BY <1>1, BootLockStep, CreateIpStep, InetAddrStep DEF boot, IInv
  <2> QED BY <1>0, <2>1, <2>2 DEF IInv
<1>2. CASE safetyOn \/ safetyOff \/ safetyCopy \/ (\E b \in BOOLEAN : safetySend(b))
  <2>1. UNCHANGED coefVars
    BY <1>2 DEF safetyOn, safetyOff, safetyCopy, safetySend
  <2>2. MotorInv'
    BY <1>2, SafetyStep DEF IInv
  <2> QED BY <1>0, <2>1, <2>2 DEF IInv
<1>3. ASSUME NEW src \in Gateways \cup {Stranger}, sensThread(src) PROVE IInv'
  <2>1. UNCHANGED coefVars
    BY <1>3 DEF sensThread
  <2>2. MotorInv'
    BY <1>3, SensStep DEF IInv
  <2> QED BY <1>0, <2>1, <2>2 DEF IInv
<1>4. CASE UNCHANGED vars
  <2>1. UNCHANGED <<bootVars, safetyVars, sensors, coefVars>>
    BY <1>4 DEF vars
  <2>2. TypeOK'
    BY <2>1 DEF IInv, MotorInv, TypeOK, bootVars, safetyVars, coefVars
  <2> QED BY <1>0, <2>1, <2>2, CallersKeep DEF IInv, MotorInv
<1> QED BY <1>1, <1>2, <1>3, <1>4, BeginStep, CoefStep, GatewayStep DEF Next

(* The invariant holds in every reachable state of rm_m3508.c.             *)
THEOREM MotorInvariant == Spec => []IInv
BY InitIInv, NextIInv, PTL DEF Spec

(* However the two threads interleave over the one static buffer, each     *)
(* stores every gateway's own address, so sensor data is filed correctly.  *)
THEOREM MotorCorrect == Spec => []MotorInv
<1>1. IInv => MotorInv
  BY DEF IInv
<1> QED BY MotorInvariant, <1>1, PTL

(* A configuration is reported as failed after exactly three (advanced:    *)
(* five) unanswered datagrams, and as done only when it was applied.       *)
THEOREM MotorCoefReport == Spec => []CoefReport
<1>1. IInv => CoefReport
  BY DEF IInv, MotorInv, TypeOK, CoefInv, CoefOk, CoefReport, LastError
<1> QED BY MotorInvariant, <1>1, PTL

-----------------------------------------------------------------------------
(* The arithmetic of the setters, for every power.                         *)
PowerOk(k, x, value) ==
    LET err == Clamp(k, x) * Full(k) - Reading(k, value)
    IN  /\ value \in -Full(k) .. Full(k) /\ Full(k) < 32768
        /\ value * x >= 0
        /\ x \in -Limit(k) .. Limit(k) => /\ -Limit(k) < err /\ err < Limit(k)
                                         /\ Clamp(k, x) = x

(* Truncation towards zero of a clamped and scaled power.                  *)
LEMMA TruncScaled ==
    ASSUME NEW lim \in Nat \ {0}, NEW full \in Nat, NEW y \in -lim .. lim
    PROVE  /\ Trunc(y * full, lim) \in -full .. full
           /\ y >= 0 => Trunc(y * full, lim) >= 0
           /\ y <= 0 => Trunc(y * full, lim) <= 0
           /\ -lim < y * full - Trunc(y * full, lim) * lim
           /\ y * full - Trunc(y * full, lim) * lim < lim
<1>1. ASSUME NEW a \in Nat
      PROVE  /\ a \div lim \in Nat
             /\ 0 <= a - (a \div lim) * lim
             /\ a - (a \div lim) * lim < lim
  OBVIOUS
<1>2. ASSUME NEW a \in Nat, a <= full * lim
      PROVE  a \div lim <= full
  <2> DEFINE q == a \div lim
  <2>1. q \in Nat /\ 0 <= a - q * lim
    BY <1>1
  <2> HIDE DEF q
  <2>2. CASE q >= full + 1
    <3>1. PICK d \in Nat : q = full + 1 + d
      <4>1. q - full - 1 \in Nat /\ q = full + 1 + (q - full - 1)
        BY <2>1, <2>2
      <4> QED BY <4>1
    <3>2. q * lim = full * lim + lim + d * lim
      BY <3>1
    <3>3. d * lim >= 0 /\ full * lim \in Nat
      BY <3>1
    <3> HIDE DEF q
    <3> QED BY <1>2, <2>1, <3>2, <3>3
  <2>3. CASE q <= full
    BY <2>3 DEF q
  <2> QED BY <2>1, <2>2, <2>3
<1>3. CASE y >= 0
  <2>1. y * full \in Nat /\ y * full <= full * lim
    BY <1>3
  <2>2. Trunc(y * full, lim) = (y * full) \div lim
    BY <2>1 DEF Trunc
  <2> QED BY <1>1, <1>2, <1>3, <2>1, <2>2
<1>4. CASE y < 0
  <2> DEFINE a == (-y) * full
  <2>1. a \in Nat /\ a <= full * lim /\ y * full = -a
    BY <1>4
  <2>2. Trunc(y * full, lim) = -(a \div lim)
    BY <2>1 DEF Trunc
  <2> QED BY <1>1, <1>2, <1>4, <2>1, <2>2
<1> QED BY <1>3, <1>4

(* The setters of all four kinds send a faithful frame.                    *)
LEMMA PowerFrameOk ==
    ASSUME NEW k \in Kinds, NEW n \in 1 .. 8, NEW x \in Int
    PROVE  PowerOk(k, x, PowerFrame(k, n, x).value)
<1> DEFINE y == Clamp(k, x)
<1> DEFINE v == Trunc(y * Full(k), Limit(k))
<1>1. Limit(k) \in Nat \ {0} /\ Full(k) \in Nat /\ Full(k) < 32768
  BY DEF Kinds, Limit, Full
<1>2. /\ y \in -Limit(k) .. Limit(k)
      /\ x \in -Limit(k) .. Limit(k) => y = x
      /\ x >= 0 => y >= 0
      /\ x <= 0 => y <= 0
  BY <1>1 DEF Clamp
<1> HIDE DEF y
<1>3. /\ v \in -Full(k) .. Full(k)
      /\ y >= 0 => v >= 0
      /\ y <= 0 => v <= 0
      /\ -Limit(k) < y * Full(k) - v * Limit(k)
      /\ y * Full(k) - v * Limit(k) < Limit(k)
  BY <1>1, <1>2, TruncScaled
<1>4. PowerFrame(k, n, x).value = v
  BY DEF PowerFrame, y
<1> HIDE DEF v
<1>5. v * x >= 0
  <2>1. v \in Int
    BY <1>1, <1>3
  <2>2. (v >= 0 /\ x >= 0) \/ (v <= 0 /\ x <= 0)
    BY <1>2, <1>3, <2>1
  <2> QED BY <2>1, <2>2
<1>6. Clamp(k, x) = y
  BY DEF y
<1> QED BY <1>1, <1>2, <1>3, <1>4, <1>5, <1>6 DEF PowerOk, Reading

(* The last call, if it was a setter, sent the frame of its arguments.     *)
PowerInv ==
    power # NoPower =>
        \E k \in Kinds, n \in 1 .. 8, x \in Int : power = <<k, n, x, PowerFrame(k, n, x)>>

(* No other step changes what a setter has sent.                           *)
LEMMA NextPowerInv == PowerInv /\ [Next]_vars => PowerInv'
<1> SUFFICES ASSUME PowerInv, [Next]_vars PROVE PowerInv'
  OBVIOUS
<1>1. ASSUME NEW c \in Callers, NEW k \in Kinds, NEW n \in Numbers, NEW x \in Powers,
             setPower(c, k, n, x)
      PROVE  PowerInv'
  <2>1. CASE 0 < n /\ n <= 8
    <3>1. n \in 1 .. 8 /\ x \in Int
      BY <2>1, MotorAssumption
    <3>2. power' = <<k, n, x, PowerFrame(k, n, x)>>
      BY <1>1, <2>1 DEF setPower
    <3> QED BY <3>1, <3>2 DEF PowerInv, PowerFrame
  <2>2. CASE ~(0 < n /\ n <= 8)
    BY <1>1, <2>2 DEF setPower, PowerInv
  <2> QED BY <2>1, <2>2
<1>2. ASSUME power' = power PROVE PowerInv'
  BY <1>2 DEF PowerInv
<1>3. ASSUME NEW c \in Callers, NEW k, setCoef(c, k) PROVE PowerInv'
  BY <1>3 DEF setCoef, PowerInv
<1>4. ASSUME NEW t \in Threads, boot(t) PROVE power' = power
  BY <1>4 DEF boot, bootLock, createIp, inetAddr, coefVars
<1>5. CASE safetyOn \/ safetyOff \/ safetyCopy \/ (\E b \in BOOLEAN : safetySend(b))
  BY <1>2, <1>5 DEF safetyOn, safetyOff, safetyCopy, safetySend, coefVars
<1>6. ASSUME NEW src \in Gateways \cup {Stranger}, sensThread(src) PROVE power' = power
  BY <1>6 DEF sensThread, coefVars
<1>7. ASSUME NEW c \in Callers, coefSend(c) \/ coefEcho(c) \/ coefRetry(c)
      PROVE  power' = power
  BY <1>7 DEF coefSend, coefEcho, coefRetry
<1>8. ASSUME NEW f \in air, gatewayApplies(f) PROVE power' = power
  BY <1>8 DEF gatewayApplies
<1>9. CASE UNCHANGED vars
  BY <1>2, <1>9 DEF vars, coefVars
<1> QED BY <1>1, <1>2, <1>3, <1>4, <1>5, <1>6, <1>7, <1>8, <1>9 DEF Next

(* For every power an application may pass, the frame a setter sends stays *)
(* in the motor's range and int16_t, keeps the sign, and loses less than   *)
(* one unit.                                                               *)
THEOREM MotorPowerFaithful == Spec => []PowerFaithful
<1>1. Init => PowerInv
  BY DEF Init, PowerInv
<1>2. PowerInv => PowerFaithful
  <2> SUFFICES ASSUME NEW k \in Kinds, NEW n \in 1 .. 8, NEW x \in Int,
                      power = <<k, n, x, PowerFrame(k, n, x)>>
               PROVE  PowerFaithful
    BY DEF PowerInv, PowerFaithful
  <2>1. PowerOk(k, x, PowerFrame(k, n, x).value)
    BY PowerFrameOk
  <2>2. power[1] = k /\ power[3] = x /\ power[4] = PowerFrame(k, n, x)
    OBVIOUS
  <2> QED BY <2>1, <2>2 DEF PowerFaithful, PowerOk
<1> QED BY <1>1, <1>2, NextPowerInv, PTL DEF Spec
=============================================================================
