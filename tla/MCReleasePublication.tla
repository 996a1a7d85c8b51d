------------------------ MODULE MCReleasePublication ------------------------
EXTENDS ReleasePublication, FiniteSets

CONSTANTS MaxAttempt, MaxFault   \* bounds: attempts of all runs; faults, one of
                                 \* which may be a write of others

VARIABLES faults, writes

Attempts == LET att[n \in Nat] == IF n = 0 THEN 0 ELSE att[n - 1] + LastAttempt(n)
            IN  att[Cardinality(Source)]

\* Commits and builds differ in nothing but their names: number them as they come.
InOrder ==
  /\ \A src \in Source : src > 1 /\ pkg[src] # None => pkg[src - 1] # None
  /\ \A src \in Source : pkg[src] # None => pkg[src].build <= Attempts

MCInit == Init /\ faults = 0 /\ writes = 0

MCNext ==
  \/ /\ Runs \/ JobStep
     /\ Attempts' <= MaxAttempt /\ InOrder'
     /\ UNCHANGED <<faults, writes>>
  \/ /\ faults + writes < MaxFault
     /\ \/ Fault /\ faults' = faults + 1 /\ UNCHANGED writes
        \/ Others /\ writes = 0 /\ writes' = 1 /\ UNCHANGED faults

MCFairSpec == MCInit /\ [][MCNext]_<<vars, faults, writes>> /\ Fairness
=============================================================================
