--------------------------- MODULE MCOneTimeCodes ---------------------------
(* OneTimeCodes with a few requests.                                       *)
EXTENDS OneTimeCodes, TLC

Symmetry == Permutations(Requests) \cup Permutations(Replicas)

Open == {r \in Requests : pc[r] \notin {"new", "done"}}

\* What a request that has not begun or has ended still remembers is dead.
View ==
    <<row, links, allowed, phone, now, pc, ended, wrong, sentTo, proven, times, peak,
      issued, granted,
      [r \in Requests |->
         IF r \in Open THEN <<guess[r], to[r], last[r], judged[r], dead[r]>> ELSE <<>>]>>
=============================================================================
