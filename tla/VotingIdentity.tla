--------------------------- MODULE VotingIdentity ---------------------------
(***************************************************************************)
(* What moving a staked identity promises, whatever command moves it: one  *)
(* host has it at a time, another one takes it only when nobody has it,    *)
(* and its votes are for later and later slots that the cluster has        *)
(* reached.                                                                *)
(***************************************************************************)
EXTENDS Naturals

CONSTANT Host

VARIABLES
  has,   \* the host that votes with the identity, may still be given it, or has a vote
         \* of it to cast
  last,  \* its last vote
  now    \* slot of the cluster

Init ==
  /\ has \in {{}} \cup {{h} : h \in Host}
  /\ last \in Nat /\ now \in Nat /\ last <= now

Take(h) ==
  /\ has = {}
  /\ has' = {h}
  /\ UNCHANGED <<last, now>>

LetGo ==
  /\ has # {}
  /\ has' = {}
  /\ UNCHANGED <<last, now>>

\* A host that has already let go is rid of it with the last vote it had decided on.
Vote(v) ==
  /\ has # {}
  /\ v > last /\ v <= now
  /\ last' = v
  /\ has' \in {has, {}}
  /\ UNCHANGED now

Pass ==
  /\ now' = now + 1
  /\ UNCHANGED <<has, last>>

Next ==
  \/ \E h \in Host : Take(h)
  \/ LetGo
  \/ \E v \in 1..now : Vote(v)
  \/ Pass

Spec == Init /\ [][Next]_<<has, last, now>>
=============================================================================
