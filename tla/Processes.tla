----------------------------- MODULE Processes -----------------------------
(* The processes that share a kernel object, where the process table itself *)
(* does not matter.                                                         *)

CONSTANTS Procs,     \* the processes
          NoProc     \* no process

ASSUME ProcessConstants == NoProc \notin Procs
=============================================================================
