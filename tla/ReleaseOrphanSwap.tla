------------------------- MODULE ReleaseOrphanSwap -------------------------
(***************************************************************************)
(* The one mutation of engine.py that is not made by the command itself:   *)
(* `sudo python3 -c PRIVILEGED_SWAP source target` is a child process.     *)
(* The flock's descriptor is not inherited by it (PEP 446), so when the    *)
(* command is killed while it waits, its lock is free and the child goes   *)
(* on.  ReleaseTransaction lets the child die with its command; here it    *)
(* may outlive it.                                                         *)
(***************************************************************************)
EXTENDS ReleaseTransaction

VARIABLE orphans   \* swaps whose command is dead: [target : Dest, bytes : Content]

ovars == <<vars, orphans>>

OInit == Init /\ orphans = {}

\* The command waits for a swap: the last step of replace(), or restore_privileged().
Swapping(p) ==
  \/ pc[p] = "install" /\ Current(p) \in Privileged
  \/ Undoing(p) /\ Logged(p) \in Privileged /\ Usable(Logged(p))

SwapOf(p) ==
  IF pc[p] = "install" THEN [target |-> Current(p), bytes |-> job[p].version]
                       ELSE [target |-> Logged(p), bytes |-> bak[Logged(p)]]

\* SIGKILL of the command alone: the child has read its source and goes on.
CrashInSwap(p) ==
  /\ Swapping(p)
  /\ orphans' = orphans \cup {SwapOf(p)}
  /\ Crash(p)

\* os.replace(temporary, target) of an orphan.
Land(o) ==
  /\ dest' = [dest EXCEPT ![o.target] = o.bytes]
  /\ orphans' = orphans \ {o}
  /\ UNCHANGED <<bak, backups, journal, local>>

\* The orphan fails, or is killed later.
Fizzle(o) == orphans' = orphans \ {o} /\ UNCHANGED vars

ONext ==
  \/ Next /\ UNCHANGED orphans
  \/ \E p \in Proc : CrashInSwap(p)
  \/ \E o \in orphans : Land(o) \/ Fizzle(o)

OSpec == OInit /\ [][ONext]_ovars

\* Once recovery is done (no journal, no command at work) the destinations stay as
\* it left them: the lock serializes "recovery and every replacement boundary"
\* (acquire_lock), so "an interrupted transaction can be recovered" (README.md).
RecoveredStays == [][jstatus = "none" /\ holder = None => dest' = dest]_ovars
=============================================================================
