CONSTANTS
    k1 = k1
    k2 = k2
    k3 = k3
    k4 = k4
    k5 = k5
    k6 = k6
    k7 = k7
    kb = kb
    Clients <- AllClients
    IdOf <- ClientIds
    ListOf <- ClientLists
    Regs = {1, 2, 15}
SPECIFICATION Spec
INVARIANT CallbackWillBeCalled
