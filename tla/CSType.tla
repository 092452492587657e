-------------------------------- MODULE CSType -------------------------------
(***************************************************************************)
(* pkg/can_smbus/src/core/io/cs_type.h and cs_type.c: CAN ids and register *)
(* bytes, with the encoders of cs_tx.c and the decoder of cs_rx.c that     *)
(* must agree on them.  Bytes and ids are numbers; masking with the low n  *)
(* bits is % 2^n and setting bits that are clear is +.                     *)
(***************************************************************************)
EXTENDS Naturals

Channels == {"SYSTEM", "USER"}

createId(type, dial_id) == (16 * type + (dial_id % 16)) % 65536

NUMBER_ID(id) == id % 1024
HOST_ID(id)   == id % 1024
DRIV_ID(id)   == (id % 1024) + 1024
IsDrivId(id)  == (id \div 1024) % 2 = 1

(* Mutant: the mask 0x1F leaves the channel bit in the number.             *)
NUMBER_REG_WIDE(reg) == reg % 32

(* (reg & 0xE0), (reg & 0x10), (reg & 0x0F)                                *)
KindBits(reg)   == reg - (reg % 32)
IsSys(reg)      == (reg \div 16) % 2 = 0
NUMBER_REG(reg) == reg % 16
SYS_REG(reg)    == reg - 16 * ((reg \div 16) % 2)
USER_REG(reg)   == SYS_REG(reg) + 16

WRITE_REG(reg)      == reg % 32
REQUEST_REG(reg)    == (reg % 32) + 32
WRITEACK_REG(reg)   == (reg % 32) + 64
REQUESTACK_REG(reg) == (reg % 32) + 96
ACK_REG(reg)        == (reg % 16) + 224
BRC_REG(reg)        == (reg % 16) + 240

IsAckReg(reg) == reg \div 16 = 14
IsBrcReg(reg) == reg \div 16 = 15

-----------------------------------------------------------------------------
(* The register byte of CSTx_sendReg, sendRegAck, sendReq, sendReqAck.     *)
OnChannel(reg, channel) == IF channel = "SYSTEM" THEN SYS_REG(reg) ELSE USER_REG(reg)

sendRegByte(reg, channel)    == OnChannel(WRITE_REG(reg), channel)
sendRegAckByte(reg, channel) == OnChannel(WRITEACK_REG(reg), channel)
sendReqByte(reg, channel)    == OnChannel(REQUEST_REG(reg), channel)
sendReqAckByte(reg, channel) == OnChannel(REQUESTACK_REG(reg), channel)

-----------------------------------------------------------------------------
(* CSRX_GET_DRIVER_ID truncates to a byte.                                 *)
DriverId(id) == (id \div 16) % 256
DeviceId(id) == id % 16

(* CSRX_ARG_CHECKER lets the call through.                                 *)
ArgsLegal(gw_id, id, reg) ==
    /\ gw_id < 4
    /\ 1 <= DriverId(id) /\ DriverId(id) <= 31
    /\ reg < 16

(* Index into devs[gw][31][16].                                            *)
DevIndex(id) == <<DriverId(id) - 1, DeviceId(id)>>

(* The callback list CSRx_receiveThread, regCallback, ackCallback and      *)
(* brcCallback choose for a received frame, or "none" with the reason.     *)
Route(id, reg, len, data0) ==
    LET legal   == ArgsLegal(0, NUMBER_ID(id), NUMBER_REG(reg))
        chan(b) == IF IsSys(b) THEN "SYSTEM" ELSE "USER"
    IN  IF ~IsDrivId(id) THEN <<"none", "host id">>
        ELSE IF KindBits(reg) = 0
          THEN IF legal THEN <<"regs", chan(reg), NUMBER_REG(reg)>> ELSE <<"none", "illegal">>
        ELSE IF IsAckReg(reg)
          THEN IF ~legal \/ len <= 1 THEN <<"none", "illegal">>
               ELSE IF KindBits(data0) = 64 THEN <<"reg_acks", chan(data0)>>
               ELSE IF KindBits(data0) = 96 THEN <<"req_acks", chan(data0)>>
               ELSE <<"none", "not an ack">>
        ELSE IF IsBrcReg(reg)
          THEN IF legal THEN <<"brc_callbacks", NUMBER_REG(reg)>> ELSE <<"none", "illegal">>
        ELSE <<"none", "register">>
=============================================================================
