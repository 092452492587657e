------------------------------ MODULE CSDevice ------------------------------
(***************************************************************************)
(* The device drivers of can_smbus (encoder.cpp, gyro.cpp, lp_motor.cpp,   *)
(* ...) as clients of CSRx: what each binds on its board.  A constructor   *)
(* gives a driver with its CAN id, the registers it writes without (send)  *)
(* and with acknowledgement (send_ack) and those it reads (share).  An     *)
(* argument the constructor refuses gives a driver without objects.        *)
(***************************************************************************)
EXTENDS CSType

NoDriver == [id |-> 0, send |-> {}, send_ack |-> {}, share |-> {}, interval |-> FALSE]

(* interval: init asks the board to send its registers by itself.          *)
Driver(id, send, send_ack, share, interval) ==
    [id |-> id, send |-> send, send_ack |-> send_ack, share |-> share,
     interval |-> interval]

(* Count, Th, Dth and Ddth are registers 0 to 3.                           *)
Encoder_cons(id, mode, interval) ==
    IF mode \in 0 .. 3 THEN Driver(createId(2, id), {}, {0, 1}, {mode}, interval # 0)
    ELSE NoDriver

AbsEncoder_cons(id, interval) == Driver(createId(3, id), {}, {}, {0}, interval # 0)

(* Thirteen modes, from AccX to Quaternion3.                               *)
Gyro_cons(id, mode) ==
    IF mode \in 0 .. 12 THEN Driver(createId(4, id), {}, {}, {mode}, TRUE) ELSE NoDriver

(* All ports of a board are bits of one register.                          *)
Switch_cons(id, port) ==
    IF port \in 1 .. 14 THEN Driver(createId(5, id), {}, {}, {0}, TRUE) ELSE NoDriver

(* power, acc                                                              *)
LPMotor_cons(id, port) ==
    IF port \in 1 .. 2
    THEN Driver(createId(17, id), {port - 1}, {port + 1}, {}, FALSE) ELSE NoDriver

(* power, acc, current, kp, ki, kd, currenterror; mode; measured current   *)
LPMotorCurrent_cons(id, port) ==
    IF port \in 1 .. 2
    THEN Driver(createId(17, id), {r + port - 1 : r \in {0, 2, 6, 8, 10, 12, 14}},
                {port + 3}, {port - 1}, TRUE)
    ELSE NoDriver

HPMotor_cons(id) == Driver(createId(18, id), {0}, {2}, {}, FALSE)

(* angle; enable                                                           *)
Servo_cons(id, port) ==
    IF port \in 1 .. 4
    THEN Driver(createId(19, id), {port - 1}, {port + 3}, {}, FALSE) ELSE NoDriver

(* CSManager_driverStart binds a CSSendAck on the system channel while it  *)
(* waits.                                                                  *)
driverStart(driver) == {<<"reg_acks", "SYSTEM">>}

(* The lists of its board a driver is bound to between construction and    *)
(* the end of init.                                                        *)
Bindings(driver) ==
    {<<"regs", "USER", r>> : r \in driver.share}
    \cup {<<"reg_acks", "USER">> : r \in driver.send_ack}
    \cup (IF driver.interval THEN {<<"req_acks", "USER">>} ELSE {})
    \cup driverStart(driver)

-----------------------------------------------------------------------------
Writes(driver) == driver.send \cup driver.send_ack

DriversOn(id) ==
    {Encoder_cons(id, m, 10) : m \in 0 .. 3} \cup {Gyro_cons(id, m) : m \in 0 .. 12}
    \cup {Switch_cons(id, p) : p \in 1 .. 14} \cup {Servo_cons(id, p) : p \in 1 .. 4}
    \cup {LPMotor_cons(id, p) : p \in 1 .. 2} \cup {LPMotorCurrent_cons(id, p) : p \in 1 .. 2}
    \cup {AbsEncoder_cons(id, 10), HPMotor_cons(id)}

(* CSRx accepts every id and register the drivers pass, and the ports of a *)
(* board write different registers.                                        *)
ASSUME LayoutAssumption ==
    \A id \in 0 .. 15 :
        /\ \A d \in DriversOn(id), r \in 0 .. 15 :
              r \in Writes(d) \cup d.share => ArgsLegal(0, d.id, r)
        /\ \A d \in DriversOn(id) : Writes(d) \cup d.share \subseteq 0 .. 15
        /\ \A p, q \in 1 .. 4 :
              p # q => Writes(Servo_cons(id, p)) \cap Writes(Servo_cons(id, q)) = {}
        /\ Writes(LPMotor_cons(id, 1)) \cap Writes(LPMotor_cons(id, 2)) = {}
        /\ Writes(LPMotorCurrent_cons(id, 1)) \cap Writes(LPMotorCurrent_cons(id, 2)) = {}
=============================================================================
