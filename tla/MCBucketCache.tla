----------------------------- MODULE MCBucketCache -----------------------------
(* Small instances of BucketCache for TLC. *)
EXTENDS BucketCache, TLC

\* Each behaviour's clients read one key, any key: entries do not affect each
\* other, and subscribe_bucket reads its own two besides.
EachKey == {{k} : k \in Key}

Symmetric == Permutations(User) \cup Permutations(Worker) \cup Permutations(Name)
=============================================================================
