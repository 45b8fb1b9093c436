-------------------------------- MODULE Seed --------------------------------
(***************************************************************************)
(* The seed script run against a database that may be in use: it inserts   *)
(* the demo issues whose numbers are missing and then sets the counter of  *)
(* the project, while the API creates and removes issues of that project.  *)
(***************************************************************************)
EXTENDS Naturals

CONSTANTS SeedCount, \* length of seedIssues
          MaxNumber  \* bound: issue numbers

ASSUME SeedAssumption == SeedCount \in Nat \ {0} /\ MaxNumber \in Nat /\ SeedCount < MaxNumber

VARIABLES numbers,  \* numbers of the project's issues
          counter,  \* project.issueCounter
          position, \* the seed issue main() inserts next; 0: the script does not run
          creating, \* the number an open create transaction has drawn; 0: none
          begun,    \* history: a run of the script has inserted and not set the counter
          late      \* history: the script has set the counter back

seedVars == <<numbers, counter, position, creating, begun, late>>

Number == 1..MaxNumber

\* The type invariant: an open transaction has drawn the successor of the counter.
SeedTypeOK ==
  /\ numbers \subseteq Number
  /\ counter \in 0..MaxNumber
  /\ position \in 0..SeedCount + 1
  /\ creating \in {0, counter + 1}
  /\ begun \in BOOLEAN /\ late \in BOOLEAN

SeedInit ==
  /\ numbers = {} /\ counter = 0
  /\ position = 0 /\ creating = 0
  /\ begun = FALSE /\ late = FALSE

SeedStart ==
  /\ position = 0
  /\ position' = 1
  /\ UNCHANGED <<numbers, counter, creating, begun, late>>

\* One turn of the loop: an issue with this number is left as it is.
SeedUpsert ==
  /\ position \in 1..SeedCount
  /\ numbers' = numbers \cup {position}
  /\ position' = position + 1
  /\ begun' = TRUE
  /\ UNCHANGED <<counter, creating, late>>
\* Mutant: the counter of a project that exists is left alone.
SeedWithoutReset ==
  /\ position = SeedCount + 1 /\ creating = 0
  /\ position' = 0
  /\ begun' = FALSE
  /\ UNCHANGED <<numbers, counter, creating, late>>

\* Mutant: the update does not wait for the row.
SeedResetUnlocked ==
  /\ position = SeedCount + 1
  /\ counter' = SeedCount
  /\ late' = (late \/ counter > SeedCount)
  /\ position' = 0
  /\ begun' = FALSE
  /\ UNCHANGED <<numbers, creating>>

\* The last update, once it has the project row; an open create holds its lock.
SeedReset ==
  /\ position = SeedCount + 1 /\ creating = 0
  /\ counter' = SeedCount
  /\ late' = (late \/ counter > SeedCount)
  /\ position' = 0
  /\ begun' = FALSE
  /\ UNCHANGED <<numbers, creating>>

\* A call throws: the script exits, what it has inserted stays.
SeedFails ==
  /\ position # 0
  /\ position' = 0
  /\ UNCHANGED <<numbers, counter, creating, begun, late>>

\* The transaction of create increments the counter.
DrawNumber ==
  /\ creating = 0 /\ counter < MaxNumber
  /\ creating' = counter + 1
  /\ UNCHANGED <<numbers, counter, position, begun, late>>

\* It inserts and commits, or meets the unique constraint and rolls back.
EndCreate ==
  /\ creating # 0
  /\ \/ /\ creating \notin numbers
        /\ numbers' = numbers \cup {creating} /\ counter' = creating
     \/ UNCHANGED <<numbers, counter>>
  /\ creating' = 0
  /\ UNCHANGED <<position, begun, late>>

RemoveIssue ==
  /\ \E n \in numbers : numbers' = numbers \ {n}
  /\ UNCHANGED <<counter, position, creating, begun, late>>

SeedNext == SeedStart \/ SeedUpsert \/ SeedReset \/ SeedFails
              \/ DrawNumber \/ EndCreate \/ RemoveIssue

SeedSpec == SeedInit /\ [][SeedNext]_seedVars
----------------------------------------------------------------------------
(* Properties.                                                             *)

\* The number create draws next is free, so creates succeed, whatever seeding,
\* creating and removing interleave: but for a run of the script that has not
\* reached its end, and for one that has set the counter back.
NextNumberIsFree ==
  late \/ begun \/ \A n \in numbers : n <= counter
=============================================================================
