---------------------------- MODULE MCHwcReceiver ----------------------------
(* Instances of HwcReceiver for TLC.                                        *)
EXTENDS HwcReceiver, TLC

\* The events that allocate, use and free buffers.
BufferEvents == {"CREATE_BUFFER", "REMOVE_BUFFER", "DISPLAY_REQ"}

Symmetry == Permutations(Remote) \cup Permutations(Handle)
=============================================================================
