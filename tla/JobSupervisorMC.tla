-------------------------- MODULE JobSupervisorMC --------------------------
(* An instance of JobSupervisor in which a crash, or a shutdown, strikes an   *)
(* operation of the job's first attempt.  It is the last thing that comes from *)
(* outside but for a cancellation: no instruction follows it, the schedule     *)
(* stays as it is, and of the results the failed one does not meet it.         *)
EXTENDS JobSupervisor

AtWork == op # NoOp \/ ctl # NoCtl \/ rec # "none" \/ clean # "none"

\* Only steps that nothing makes happen are cut off.
Bounds ==
    /\ crashes' # crashes => job.attempts <= 1 /\ AtWork
    /\ crashes > 0 => UNCHANGED <<steers, pressed>>
    /\ crashes' > 0 => file' # "failed"
=============================================================================
