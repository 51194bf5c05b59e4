----------------------------- MODULE MCRunQueue -----------------------------
(* Values of the constants for model checking the run queue.               *)
EXTENDS RunQueue

(* The first group and every group's first slot, so that run_bits[0] and   *)
(* group_run_bits take all 256 values, the last slot, and a second task    *)
(* that competes for slot 0.                                               *)
MCAdds == {<<1, p>> : p \in 0 .. 7 \cup {8, 16, 24, 32, 40, 48, 56, 63}}
            \cup {<<2, 0>>}
=============================================================================
