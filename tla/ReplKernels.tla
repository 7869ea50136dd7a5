------------------------------ MODULE ReplKernels ------------------------------
(* The kernels of a project: what its record (Record.tla) and its evaluations  *)
(* (Repl.tla) are both about.                                                  *)
CONSTANTS
    Kernel,         \* the kernels
    None            \* no kernel; of Record.tla, no project either
================================================================================
