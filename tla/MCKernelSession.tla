-------------------------- MODULE MCKernelSession --------------------------
(* A small instance of KernelSession on its own.                           *)
EXTENDS KernelSession

MCSteps == 1 .. MaxLen

=============================================================================
