SPECIFICATION CryptoSpec
CONSTANTS
    None = None
    Malformed = Malformed
    Zeros = Zeros
    Proofs = {p1, p2}
    Targets = {t1, t2}
    Envelopes = {e1, e2}
    Calls = {c1, c2}
    Skew = 2
    Grain = 2
    MaxWait = 2
    MaxTime = 6
    Offers = {o1, o2}
    Accepts = {b1}
    Users = {u1, u2}
    Labels = {l1, l2}
    MaxTexts = 2
SYMMETRY Symmetric
CHECK_DEADLOCK FALSE
INVARIANTS AcceptedOnce Authentic SecretsFaithful
