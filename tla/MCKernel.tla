------------------------------ MODULE MCKernel ------------------------------
(* Values of the constants for model checking the kernel.                  *)
EXTENDS Kernel

(* Device d fires every d + 1 ticks, as dev_freq grows with the number:    *)
(* two devices are due together at some ticks and apart at others.         *)
MCDevFreq == [d \in Device |-> d + 1]
=============================================================================
