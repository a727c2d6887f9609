---------------------------- MODULE MCKernelRun ----------------------------
(* Small instances of KernelRun for TLC.                                    *)
EXTENDS KernelRun
=============================================================================
