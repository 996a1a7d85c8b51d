------------------------- MODULE AtomicReplacement -------------------------
(***************************************************************************)
(* What the release engine promises of a replacement: the destinations a   *)
(* command names (template, skills, licences, binary) change together, in  *)
(* one step, to the version the command brings, or not at all.  Nothing of *)
(* journals, backups, crashes or recovery is visible at this level.        *)
(***************************************************************************)
EXTENDS Sequences, Functions

CONSTANTS
  Dest,      \* paths a release replaces
  Version,   \* contents a release can bring
  None,      \* "there is nothing at this path"
  Jobs       \* commands: [plan : Seq(Dest), version : Version, ...]

VARIABLE content   \* what is installed at each destination

AInit == content \in [Dest -> Version \cup {None}]

\* One command takes effect, as a whole.
Replace(j) ==
  content' = [d \in Dest |-> IF d \in Range(j.plan) THEN j.version ELSE content[d]]

ANext == \E j \in Jobs : Replace(j)

ASpec == AInit /\ [][ANext]_content
=============================================================================
