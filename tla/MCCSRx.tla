------------------------------- MODULE MCCSRx --------------------------------
(* CSRx for TLC with the drivers of two boards as clients: two encoder     *)
(* objects of one mode share a list, a third reads another register; the   *)
(* acknowledgements their init waits for use the ack lists of the board.   *)
(* One client is on the other channel of a board whose dial differs in its *)
(* highest bit, one passes an illegal id, one binds a broadcast register   *)
(* (CSArp).                                                                *)
EXTENDS CSRx, CSDevice

CONSTANTS k1, k2, k3, k4, k5, k6, k7, kb

AllClients == {k1, k2, k3, k4, k5, k6, k7, kb}

Th    == Encoder_cons(1, 1, 10)
Dth   == Encoder_cons(1, 2, 10)
Motor == LPMotorCurrent_cons(9, 2)

Binding(driver, kind) == CHOOSE l \in Bindings(driver) : l[1] = kind

ClientIds == [k \in AllClients |->
                CASE k \in {k1, k2, k3, k6, kb} -> Th.id
                  [] k = k7 -> Dth.id
                  [] k = k4 -> Motor.id
                  [] k = k5 -> 5]

ClientLists == [k \in AllClients |->
                CASE k \in {k1, k2, k5} -> Binding(Th, "regs")
                  [] k = k7 -> Binding(Dth, "regs")
                  [] k = k3 -> Binding(Th, "req_acks")
                  [] k = k6 -> CHOOSE l \in driverStart(Th) : TRUE
                  [] k = k4 -> <<"regs", "SYSTEM", 15>>
                  [] k = kb -> <<"brc_callbacks", 15>>]
=============================================================================
