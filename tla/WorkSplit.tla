----------------------------- MODULE WorkSplit -----------------------------
(***************************************************************************)
(* What the split of a hybrid workgroup should be.  batch[r] is the number *)
(* of samples of rank r; the controller, rank 0, infers all of its own on  *)
(* its device; of the workers' samples, wanted are inferred on the hosts.  *)
(***************************************************************************)
EXTENDS Naturals, FiniteSetsExt

\* The number of samples of all ranks in ranks.
SumOver(f, ranks) == MapThenSumSet(LAMBDA r : f[r], ranks)

\* The hosts get as many samples as wanted and as the workers have; no worker
\* that could take one more has two less than another; and when it does not come
\* out even the lower ranks take the extra sample.
IsSplit(host, batch, workers, wanted) ==
    /\ \A r \in workers : host[r] \in 0 .. batch[r]
    /\ SumOver(host, workers) =
         IF wanted <= SumOver(batch, workers) THEN wanted ELSE SumOver(batch, workers)
    /\ \A r \in workers, q \in workers :
          host[r] < batch[r] => /\ host[q] <= host[r] + 1
                                /\ r < q => host[q] <= host[r]
=============================================================================
