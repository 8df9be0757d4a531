-------------------------------- MODULE Reaping --------------------------------
(***************************************************************************)
(* Which directories one sweep of the blob store drops: the decision of    *)
(* blobs.reap in src/blobs.py, stated over a snapshot of the store.  The   *)
(* snapshot is what usage() returns: the directories, the ticks since each *)
(* was last written, and the weight of each.                               *)
(***************************************************************************)
EXTENDS Integers, FiniteSets, FiniteSetsExt

CONSTANTS
  BlobTtl,  \* settings.blob_ttl, in ticks
  MaxBytes, \* settings.blob_max_bytes, in units of weight
  MinAge    \* job_timeout * 2: no ceiling eviction of anything younger

ASSUME ReapAssumption == BlobTtl \in Nat /\ MaxBytes \in Nat /\ MinAge \in Nat

\* `moment - entry.modified > ttl`
Expired(dirs, age) == {d \in dirs : age[d] > BlobTtl}

TotalWeight(dirs, weight) == MapThenSumSet(LAMBDA d : weight[d], dirs)

\* Mutant of Evictable: it has no floor.
EvictableAnyAge(survivors, age, weight, E) ==
  LET rest == survivors \ E IN
    /\ \A d \in E, r \in rest : age[d] >= age[r]
    /\ TotalWeight(rest, weight) <= MaxBytes

\* E is dropped for the ceiling: the oldest directories first, none of them
\* younger than the floor, stopping as soon as the rest fits, and only then
\* or when the rest is all too young.  Equal ages make more than one E right.
Evictable(survivors, age, weight, E) ==
  LET rest == survivors \ E IN
    /\ \A d \in E, r \in rest : age[d] >= age[r]
    /\ \A d \in E : age[d] >= MinAge
    /\ E # {} => \E d \in E : /\ \A e \in E : age[d] <= age[e]
                              /\ TotalWeight(rest \cup {d}, weight) > MaxBytes
    /\ \/ TotalWeight(rest, weight) <= MaxBytes
       \/ \A r \in rest : age[r] < MinAge

\* Every set of directories a sweep of this snapshot may drop.
Doomed(dirs, age, weight) ==
  LET old == Expired(dirs, age)
  IN  {old \cup E : E \in {S \in SUBSET (dirs \ old) : Evictable(dirs \ old, age, weight, S)}}
=============================================================================
