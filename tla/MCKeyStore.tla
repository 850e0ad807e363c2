----------------------------- MODULE MCKeyStore -----------------------------
(* Instances of KeyStore for TLC: the lifetimes, which a configuration cannot *)
(* write as they include -1, and the symmetry of the sets of model values.    *)
EXTENDS KeyStore, TLC

\* No expiry, one time unit, and one that chrono::Duration cannot represent.
MCLifetimes == {NoExpiry, 1, MaxLife + 1}

\* No expiry only: for the runs that are about revocation.
MCNoExpiry == {NoExpiry}

Symmetry == Permutations(Pods) \cup Permutations(Keys) \cup Permutations(Ops)
=============================================================================
