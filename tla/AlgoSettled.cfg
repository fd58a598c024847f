SPECIFICATION Spec
CONSTANTS
    t1 = t1
    t2 = t2
    t3 = t3
    d1 = d1
    d2 = d2
    scrypt = scrypt
    x11 = x11
    fine = fine
    coarse = coarse
    A = A
    B = B
    C = C
    D = D
    Thread = {t1, t2, t3}
    Device = {d1, d2}
    DeviceOf <- Devices
    Pool = {A, B, C, D}
    Settings <- Profiles
    Scenes <- Settled
    None = None
INVARIANTS KernelMatchesWork OneRestart
PROPERTIES SwitchCompletes
