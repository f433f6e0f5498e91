SPECIFICATION Spec
CONSTANTS
    Txns = {t1, t2, t3}
    Seed = s0
    k1 = k1
    k2 = k2
    d1 = d1
    Procs = {r1, r2}
    Proc = r0
    NONE = NONE
SYMMETRY Symmetric
INVARIANT PlansStillHold
INVARIANT SerialButForBlindAppends
INVARIANT RetainedReadable
