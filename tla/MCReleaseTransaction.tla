----------------------- MODULE MCReleaseTransaction -----------------------
(***************************************************************************)
(* A home with one managed directory per kind, a system binary that needs  *)
(* sudo and a controlled one (~/.local/bin/slv) that does not.             *)
(***************************************************************************)
EXTENDS ReleaseTransaction, TLC

CONSTANTS template, skill, system, controlled, v1, v2

InstallAt(target, v) ==
  [plan |-> <<template, skill, target>>, version |-> v, binary |-> target]
SyncSkill(v) == [plan |-> <<skill>>, version |-> v, binary |-> None]

MCJobs == {InstallAt(system, v1), InstallAt(controlled, v2), SyncSkill(v1)}
LiveJobs == {InstallAt(system, v2), SyncSkill(v1)}

Symmetric == Permutations(Proc)
=============================================================================
