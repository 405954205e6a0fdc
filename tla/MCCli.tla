-------------------------------- MODULE MCCli --------------------------------
(* Model checking instance of Cli.                                         *)
EXTENDS Cli, TLC

\* No variable is set, or the id or the secret of one of the agents.
MCEnvironments ==
    {Nothing} \cup {[Nothing EXCEPT !.agent = a] : a \in Fleet}
              \cup {[Nothing EXCEPT !.secret = a] : a \in Fleet}

\* Processes and agents are told apart by nothing but their names.
CliSymmetry == Permutations(Procs) \cup Permutations(Fleet)
=============================================================================
