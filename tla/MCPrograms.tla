----------------------------- MODULE MCPrograms -----------------------------
(* Values of the constants for running the test programs.                  *)
EXTENDS Programs

(* dev_freq of device.c: 100, 200, 300, 400 ticks, scaled down. *)
MCDevFreq == [d \in Device |-> d + 1]

(* Until stress has checked its scores, mutex_chaser has chased all, and   *)
(* the others have seen the clock wrap.                                    *)
MCMaxTicks == [p \in TestPrograms |-> CASE p = "stress"       -> 10
                                        [] p = "mutex_chaser" -> 9
                                        [] OTHER              -> 20]
=============================================================================
