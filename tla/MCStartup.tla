------------------------------- MODULE MCStartup -------------------------------
(* An instance of Startup for TLC: the operator asks for one workload and     *)
(* gets what it depends on.                                                   *)
EXTENDS Startup

OneWorkload == {{w} : w \in Workload}

=============================================================================
