------------------------ MODULE MCReleaseOrphanSwap ------------------------
(***************************************************************************)
(* One command at a time, replacing a skill directory and a system binary. *)
(***************************************************************************)
EXTENDS ReleaseOrphanSwap

CONSTANTS skill, system, v1, v2

MCJobs == {[plan |-> <<skill, system>>, version |-> v, binary |-> system] : v \in Version}
=============================================================================
