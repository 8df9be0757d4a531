---------------------------- MODULE BlobStoreProofs ----------------------------
(***************************************************************************)
(* Proofs about BlobStore: any number of writers and sweepers on any store, *)
(* interleaving as they like.  Types; the writes no sweep can spoil; what a *)
(* total of weights is; and the ceiling a sweep restores.                  *)
(***************************************************************************)
EXTENDS BlobStore, TLAPS, FiniteSetTheorems, WellFoundedInduction

Writes == [at : {"idle", "temp", "replace", "link"}, dir : Dirs \cup {Nowhere},
           name : Names \cup {Nowhere}, from : Dirs \cup {Nowhere}, risk : BOOLEAN]
Places == {"idle", "due", "usage", "measure", "next", "unlink"}
Sweeps == [at : Places, todo : SUBSET Dirs, seen : SUBSET Dirs, ages : [Dirs -> 0..AgeCap],
           sizes : [Dirs -> Nat], dir : Dirs \cup {Nowhere}, left : SUBSET (Names \cup Writers),
           doomed : SUBSET Dirs, evicted : SUBSET Dirs, missed : SUBSET Dirs,
           young : SUBSET Dirs, quiet : BOOLEAN]

\* What TypeOK needs to be inductive: the fields of the two kinds of process,
\* and that whoever is at work has a directory to work on.
Shape ==
  /\ TypeOK
  /\ writing \in [Writers -> Writes] /\ sweep \in [Sweepers -> Sweeps]
  /\ \A w \in Writers : writing[w].at # "idle" => /\ writing[w].dir \in Dirs
                                                  /\ writing[w].name \in Names
  /\ \A s \in Sweepers : /\ sweep[s].at \in {"measure", "unlink"} => sweep[s].dir \in Dirs
                         /\ sweep[s].at = "unlink" => sweep[s].dir \in sweep[s].doomed

-----------------------------------------------------------------------------
(* Contents and decisions. *)

\* What a directory holds is finite, and so is its weight.
LEMMA ContentsFinite ==
  ASSUME files \in [Dirs -> SUBSET Names], temps \subseteq Writers, NEW d \in Dirs
  PROVE  /\ Contents(d) \subseteq Names \cup Writers /\ IsFiniteSet(Contents(d))
         /\ Weight[d] = Cardinality(Contents(d)) /\ Weight[d] \in Nat
<1>1. Contents(d) \subseteq Names \cup Writers
  BY DEF Contents
<1>2. IsFiniteSet(Names \cup Writers)
  BY StoreAssumption, FS_Union
<1>3. IsFiniteSet(Contents(d))
  BY <1>1, <1>2, FS_Subset
<1>4. QED
  BY <1>1, <1>3, FS_CardinalityType DEF Weight

\* A sweep dooms only what it measured, and of that only what is ripe.
LEMMA DoomedAreRipe ==
  ASSUME NEW ds, NEW ages, NEW weights, NEW D \in Doomed(ds, ages, weights)
  PROVE  D \subseteq ds /\ \A d \in D : Ripe(ages[d])
<1>1. PICK E \in SUBSET (ds \ Expired(ds, ages)) :
        /\ D = Expired(ds, ages) \cup E
        /\ Evictable(ds \ Expired(ds, ages), ages, weights, E)
  BY DEF Doomed
<1>2. \A d \in E : ages[d] >= MinAge
  BY <1>1 DEF Evictable
<1>3. QED
  BY <1>1, <1>2 DEF Expired, Ripe

\* The decision leaves what was measured under the ceiling, or young.
LEMMA DecisionClears ==
  ASSUME NEW ds, NEW ages, NEW weights, NEW D \in Doomed(ds, ages, weights)
  PROVE  \/ TotalWeight(ds \ D, weights) <= MaxBytes
         \/ \A d \in ds \ D : ages[d] < MinAge
<1>1. PICK E \in SUBSET (ds \ Expired(ds, ages)) :
        /\ D = Expired(ds, ages) \cup E
        /\ Evictable(ds \ Expired(ds, ages), ages, weights, E)
  BY DEF Doomed
<1>2. (ds \ Expired(ds, ages)) \ E = ds \ D
  BY <1>1
<1>3. \/ TotalWeight((ds \ Expired(ds, ages)) \ E, weights) <= MaxBytes
      \/ \A r \in (ds \ Expired(ds, ages)) \ E : ages[r] < MinAge
  BY <1>1 DEF Evictable
<1>4. QED
  BY <1>2, <1>3

-----------------------------------------------------------------------------
(* What each step makes of a sweep. *)

LEMMA NoSweepIsOne ==
  /\ NoSweep \in Sweeps /\ NoSweep.at = "idle" /\ NoSweep.todo = {} /\ NoSweep.seen = {}
  /\ NoSweep.doomed = {} /\ NoSweep.missed = {} /\ NoSweep.young = {} /\ NoSweep.quiet = TRUE
<1>1. [d \in Dirs |-> 0] \in [Dirs -> 0..AgeCap] /\ [d \in Dirs |-> 0] \in [Dirs -> Nat]
  BY ReapAssumption DEF AgeCap
<1>2. QED
  BY <1>1 DEF NoSweep, Sweeps, Places

\* Only the stepping sweeper's record changes.
OneSweep(s) == sweep' \in [Sweepers -> Sweeps] /\ \A q \in Sweepers \ {s} : sweep'[q] = sweep[q]

LEMMA OneChanges ==
  ASSUME Shape, NEW s \in Sweepers, NEW r \in Sweeps, sweep' = [sweep EXCEPT ![s] = r]
  PROVE  OneSweep(s) /\ sweep'[s] = r
BY DEF Shape, OneSweep

\* A write disturbs the sweeps under way, and changes nothing else in them.
Same(r, q) ==
  /\ r.at = q.at /\ r.todo = q.todo /\ r.seen = q.seen /\ r.ages = q.ages /\ r.dir = q.dir
  /\ r.doomed = q.doomed

LEMMA Disturbed ==
  ASSUME Shape, Disturb
  PROVE  /\ sweep' \in [Sweepers -> Sweeps]
         /\ \A s \in Sweepers : /\ Same(sweep'[s], sweep[s])
                                /\ sweep[s].at \notin Resting => sweep'[s].quiet = FALSE
<1>1. ASSUME NEW r \in Sweeps, NEW b \in BOOLEAN
      PROVE  /\ [r EXCEPT !.quiet = b] \in Sweeps /\ Same([r EXCEPT !.quiet = b], r)
             /\ [r EXCEPT !.quiet = b].quiet = b
  BY DEF Sweeps, Same
<1>2. ASSUME NEW s \in Sweepers
      PROVE  \E b \in BOOLEAN : /\ sweep'[s] = [sweep[s] EXCEPT !.quiet = b]
                                /\ sweep[s].at \notin Resting => b = FALSE
  <2> DEFINE b == sweep[s].quiet /\ sweep[s].at \in Resting
  <2>1. b \in BOOLEAN /\ (sweep[s].at \notin Resting => b = FALSE)
    OBVIOUS
  <2>2. sweep'[s] = [sweep[s] EXCEPT !.quiet = b]
    BY DEF Disturb
  <2> HIDE DEF b
  <2>3. QED
    BY <2>1, <2>2
<1>3. \A s \in Sweepers : sweep[s] \in Sweeps
  BY DEF Shape
<1>4. ASSUME NEW s \in Sweepers
      PROVE  /\ sweep'[s] \in Sweeps /\ Same(sweep'[s], sweep[s])
             /\ sweep[s].at \notin Resting => sweep'[s].quiet = FALSE
  <2>1. PICK b \in BOOLEAN : /\ sweep'[s] = [sweep[s] EXCEPT !.quiet = b]
                             /\ sweep[s].at \notin Resting => b = FALSE
    BY <1>2
  <2>2. /\ [sweep[s] EXCEPT !.quiet = b] \in Sweeps
        /\ Same([sweep[s] EXCEPT !.quiet = b], sweep[s])
        /\ [sweep[s] EXCEPT !.quiet = b].quiet = b
    BY <1>1, <1>3
  <2>3. QED
    BY <2>1, <2>2
<1>5. DOMAIN sweep' = Sweepers /\ sweep' = [s \in Sweepers |-> sweep'[s]]
  BY DEF Disturb
<1>6. QED
  BY <1>4, <1>5

LEMMA ListRootGives ==
  ASSUME Shape, NEW s \in Sweepers, ListRoot(s)
  PROVE  /\ OneSweep(s) /\ UNCHANGED <<dirs, files, temps, age, fresh, writing, writes>>
         /\ sweep[s].at = "due" /\ sweep'[s].at = "usage" /\ sweep'[s].todo = dirs
         /\ sweep'[s].seen = {} /\ sweep'[s].doomed = {}
<1>2. dirs \in SUBSET Dirs
  BY DEF Shape, TypeOK
<1> DEFINE r == [NoSweep EXCEPT !.at = "usage", !.todo = dirs]
<1>3. r \in Sweeps /\ r.at = "usage" /\ r.todo = dirs /\ r.seen = {} /\ r.doomed = {}
  BY <1>2, NoSweepIsOne DEF Sweeps, Places
<1>4. sweep' = [sweep EXCEPT ![s] = r] /\ sweep[s].at = "due"
      /\ UNCHANGED <<dirs, files, temps, age, fresh, writing, writes>>
  BY DEF ListRoot
<1> HIDE DEF r
<1>5. QED
  BY <1>3, <1>4, OneChanges

LEMMA OpenDirGives ==
  ASSUME Shape, NEW s \in Sweepers, NEW d \in Dirs, OpenDir(s, d)
  PROVE  /\ OneSweep(s) /\ UNCHANGED <<dirs, files, temps, age, fresh, writing, writes>>
         /\ sweep[s].at = "usage" /\ sweep'[s].todo = sweep[s].todo \ {d}
         /\ sweep'[s].seen = sweep[s].seen /\ sweep'[s].ages = sweep[s].ages
         /\ sweep'[s].sizes = sweep[s].sizes /\ sweep'[s].young = sweep[s].young
         /\ sweep'[s].doomed = sweep[s].doomed /\ sweep'[s].quiet = sweep[s].quiet
         /\ IF d \in dirs
              THEN /\ sweep'[s].at = "measure" /\ sweep'[s].dir = d
                   /\ sweep'[s].left = Contents(d) /\ sweep'[s].missed = sweep[s].missed
              ELSE /\ sweep'[s].at = "usage" /\ sweep'[s].missed = sweep[s].missed \cup {d}
<1> DEFINE T == sweep[s].todo \ {d}
           now == [sweep[s] EXCEPT !.todo = T]
           measuring == [now EXCEPT !.at = "measure", !.dir = d, !.left = Contents(d)]
           passing == [now EXCEPT !.missed = @ \cup {d}]
<1>1. sweep[s] \in Sweeps /\ Contents(d) \in SUBSET (Names \cup Writers)
  BY ContentsFinite DEF Shape, TypeOK
<1>2. sweep[s].at = "usage" /\ UNCHANGED <<dirs, files, temps, age, fresh, writing, writes>>
  BY DEF OpenDir
<1>3. /\ d \in dirs => sweep' = [sweep EXCEPT ![s] = measuring]
      /\ d \notin dirs => sweep' = [sweep EXCEPT ![s] = passing]
  BY DEF OpenDir
<1>4. T \in SUBSET Dirs
  BY <1>1 DEF Sweeps
<1> HIDE DEF T
<1>5. /\ now \in Sweeps /\ now.todo = T /\ now.at = sweep[s].at /\ now.missed = sweep[s].missed
      /\ now.seen = sweep[s].seen /\ now.ages = sweep[s].ages /\ now.sizes = sweep[s].sizes
      /\ now.young = sweep[s].young /\ now.doomed = sweep[s].doomed
      /\ now.quiet = sweep[s].quiet
  BY <1>1, <1>4 DEF Sweeps
<1> HIDE DEF now
<1>6. CASE d \in dirs
  <2>1. /\ measuring \in Sweeps /\ measuring.todo = T /\ measuring.at = "measure"
        /\ measuring.dir = d /\ measuring.left = Contents(d) /\ measuring.seen = now.seen
        /\ measuring.ages = now.ages /\ measuring.sizes = now.sizes
        /\ measuring.young = now.young /\ measuring.doomed = now.doomed
        /\ measuring.quiet = now.quiet /\ measuring.missed = now.missed
    BY <1>1, <1>5 DEF Sweeps, Places
  <2> HIDE DEF measuring
  <2>2. OneSweep(s) /\ sweep'[s] = measuring
    BY <1>3, <1>6, <2>1, OneChanges
  <2>3. QED
    BY <1>2, <1>5, <1>6, <2>1, <2>2 DEF T
<1>7. CASE d \notin dirs
  <2>1. /\ passing \in Sweeps /\ passing.todo = T /\ passing.at = now.at
        /\ passing.missed = now.missed \cup {d} /\ passing.seen = now.seen
        /\ passing.ages = now.ages /\ passing.sizes = now.sizes /\ passing.young = now.young
        /\ passing.doomed = now.doomed /\ passing.quiet = now.quiet
    BY <1>5 DEF Sweeps
  <2> HIDE DEF passing
  <2>2. OneSweep(s) /\ sweep'[s] = passing
    BY <1>3, <1>7, <2>1, OneChanges
  <2>3. QED
    BY <1>2, <1>5, <1>7, <2>1, <2>2 DEF T
<1>8. QED
  BY <1>6, <1>7

LEMMA MeasureDirGives ==
  ASSUME Shape, NEW s \in Sweepers, MeasureDir(s)
  PROVE  LET d == sweep[s].dir IN
         /\ OneSweep(s) /\ UNCHANGED <<dirs, files, temps, age, fresh, writing, writes>>
         /\ sweep[s].at = "measure" /\ d \in Dirs /\ sweep'[s].at = "usage"
         /\ sweep'[s].todo = sweep[s].todo
         /\ sweep'[s].doomed = sweep[s].doomed /\ sweep'[s].quiet = sweep[s].quiet
         /\ \/ /\ sweep'[s].seen = sweep[s].seen \cup {d} /\ sweep'[s].missed = sweep[s].missed
               /\ sweep'[s].ages = [sweep[s].ages EXCEPT ![d] = age[d]]
               /\ sweep'[s].sizes = [sweep[s].sizes EXCEPT ![d] = Cardinality(sweep[s].left)]
               /\ sweep[s].young \subseteq sweep'[s].young
               /\ age[d] < MinAge => d \in sweep'[s].young
            \/ /\ sweep'[s].seen = sweep[s].seen /\ sweep'[s].missed = sweep[s].missed \cup {d}
               /\ sweep'[s].ages = sweep[s].ages /\ sweep'[s].sizes = sweep[s].sizes
               /\ sweep'[s].young = sweep[s].young
<1> DEFINE was == sweep[s]
           d == was.dir
           done == [was EXCEPT !.at = "usage", !.dir = Nowhere, !.left = {}]
           seen == was.seen \cup {d}
           ages == [was.ages EXCEPT ![d] = age[d]]
           sizes == [was.sizes EXCEPT ![d] = Cardinality(was.left)]
           young == IF age[d] < MinAge THEN was.young \cup {d} ELSE was.young
           missed == was.missed \cup {d}
<1>1. /\ sweep[s].at = "measure" /\ UNCHANGED <<dirs, files, temps, age, fresh, writing, writes>>
      /\ \/ sweep' = [sweep EXCEPT ![s] = [done EXCEPT !.seen = @ \cup {d}, !.ages[d] = age[d],
                        !.sizes[d] = Cardinality(sweep[s].left),
                        !.young = IF age[d] < MinAge THEN @ \cup {d} ELSE @]]
         \/ sweep' = [sweep EXCEPT ![s] = [done EXCEPT !.missed = @ \cup {d}]]
  BY DEF MeasureDir
<1>2. was \in Sweeps /\ d \in Dirs
  BY <1>1 DEF Shape
<1>3. Cardinality(was.left) \in Nat
  <2>1. was.left \subseteq Names \cup Writers
    BY <1>2 DEF Sweeps
  <2>2. IsFiniteSet(Names \cup Writers)
    BY StoreAssumption, FS_Union
  <2>3. QED
    BY <2>1, <2>2, FS_Subset, FS_CardinalityType
<1>4. age[d] \in 0..AgeCap
  BY <1>2 DEF Shape, TypeOK
<1>5. /\ done \in Sweeps /\ done.at = "usage" /\ done.todo = was.todo /\ done.seen = was.seen
      /\ done.ages = was.ages /\ done.sizes = was.sizes /\ done.doomed = was.doomed
      /\ done.missed = was.missed /\ done.young = was.young /\ done.quiet = was.quiet
  <2>1. ASSUME NEW r \in Sweeps
        PROVE  LET q == [r EXCEPT !.at = "usage", !.dir = Nowhere, !.left = {}]
               IN  /\ q \in Sweeps /\ q.at = "usage" /\ q.todo = r.todo /\ q.seen = r.seen
                   /\ q.ages = r.ages /\ q.sizes = r.sizes /\ q.doomed = r.doomed
                   /\ q.missed = r.missed /\ q.young = r.young /\ q.quiet = r.quiet
    BY DEF Sweeps, Places
  <2>2. QED
    BY <1>2, <2>1
<1>6. /\ seen \in SUBSET Dirs /\ ages \in [Dirs -> 0..AgeCap] /\ sizes \in [Dirs -> Nat]
      /\ young \in SUBSET Dirs /\ missed \in SUBSET Dirs
  BY <1>2, <1>3, <1>4 DEF Sweeps
<1>7. CASE sweep' = [sweep EXCEPT ![s] = [done EXCEPT !.seen = @ \cup {d}, !.ages[d] = age[d],
                       !.sizes[d] = Cardinality(sweep[s].left),
                       !.young = IF age[d] < MinAge THEN @ \cup {d} ELSE @]]
  <2> DEFINE q == [done EXCEPT !.seen = seen, !.ages = ages, !.sizes = sizes, !.young = young]
  <2> HIDE DEF done
  <2>1. sweep' = [sweep EXCEPT ![s] = q]
    BY <1>5, <1>7
  <2>2. /\ q \in Sweeps /\ q.at = "usage" /\ q.todo = was.todo /\ q.seen = seen /\ q.ages = ages
        /\ q.sizes = sizes /\ q.young = young /\ q.doomed = was.doomed
        /\ q.missed = was.missed /\ q.quiet = was.quiet
    <3> HIDE DEF seen, ages, sizes, young
    <3>1. QED
      BY <1>5, <1>6 DEF Sweeps
  <2> HIDE DEF q
  <2>3. QED
    BY <1>1, <1>2, <2>1, <2>2, OneChanges
<1>8. CASE sweep' = [sweep EXCEPT ![s] = [done EXCEPT !.missed = @ \cup {d}]]
  <2> DEFINE q == [done EXCEPT !.missed = missed]
  <2> HIDE DEF done
  <2>1. sweep' = [sweep EXCEPT ![s] = q]
    BY <1>5, <1>8
  <2>2. /\ q \in Sweeps /\ q.at = "usage" /\ q.todo = was.todo /\ q.seen = was.seen
        /\ q.ages = was.ages /\ q.sizes = was.sizes /\ q.young = was.young
        /\ q.doomed = was.doomed /\ q.missed = missed /\ q.quiet = was.quiet
    <3>1. ASSUME NEW r \in Sweeps, NEW M \in SUBSET Dirs
          PROVE  LET p == [r EXCEPT !.missed = M]
                 IN  /\ p \in Sweeps /\ p.at = r.at /\ p.todo = r.todo /\ p.seen = r.seen
                     /\ p.ages = r.ages /\ p.sizes = r.sizes /\ p.young = r.young
                     /\ p.doomed = r.doomed /\ p.missed = M /\ p.quiet = r.quiet
      BY DEF Sweeps
    <3> HIDE DEF missed
    <3>2. QED
      BY <1>5, <1>6, <3>1
  <2> HIDE DEF q
  <2>3. QED
    BY <1>1, <1>2, <2>1, <2>2, OneChanges
<1>9. QED
  BY <1>1, <1>7, <1>8

LEMMA DecideGives ==
  ASSUME Shape, NEW s \in Sweepers, Decide(s)
  PROVE  LET was == sweep[s] IN
         /\ OneSweep(s) /\ UNCHANGED <<dirs, files, temps, age, fresh, writing, writes>>
         /\ was.at = "usage" /\ was.todo = {} /\ sweep'[s].seen = {}
         /\ \E D \in Doomed(was.seen, was.ages, was.sizes) :
              /\ sweep'[s].doomed = D
              /\ IF D = {} THEN sweep'[s].at = "idle"
                 ELSE /\ sweep'[s].at = "next" /\ sweep'[s].missed = was.missed
                      /\ sweep'[s].young = was.young /\ sweep'[s].quiet = was.quiet
<1> DEFINE was == sweep[s]
<1>1. was \in Sweeps
  BY DEF Shape
<1>2. /\ was.at = "usage" /\ was.todo = {}
      /\ UNCHANGED <<dirs, files, temps, age, fresh, writing, writes>>
  BY DEF Decide
<1>3. PICK D \in Doomed(was.seen, was.ages, was.sizes) :
        sweep' = [sweep EXCEPT ![s] =
          IF D = {} THEN NoSweep
          ELSE [NoSweep EXCEPT !.at = "next", !.doomed = D, !.missed = was.missed,
                  !.evicted = D \ Expired(was.seen, was.ages), !.young = was.young,
                  !.quiet = was.quiet]]
  BY DEF Decide
<1>4. D \subseteq Dirs
  BY <1>1, DoomedAreRipe DEF Sweeps
<1>5. CASE D = {}
  <2>1. sweep' = [sweep EXCEPT ![s] = NoSweep]
    BY <1>3, <1>5
  <2>2. OneSweep(s) /\ sweep'[s] = NoSweep
    BY <2>1, NoSweepIsOne, OneChanges
  <2>3. sweep'[s].at = "idle" /\ sweep'[s].seen = {} /\ sweep'[s].doomed = {}
    BY <2>2, NoSweepIsOne
  <2>4. QED
    BY <1>2, <1>3, <1>5, <2>2, <2>3
<1>6. CASE D # {}
  <2> DEFINE E == D \ Expired(was.seen, was.ages)
             q == [NoSweep EXCEPT !.at = "next", !.doomed = D, !.missed = was.missed,
                     !.evicted = E, !.young = was.young, !.quiet = was.quiet]
  <2>2. /\ was.missed \in SUBSET Dirs /\ was.young \in SUBSET Dirs /\ was.quiet \in BOOLEAN
        /\ E \in SUBSET Dirs
    BY <1>1, <1>4 DEF Sweeps
  <2> HIDE DEF E
  <2>3. /\ q \in Sweeps /\ q.at = "next" /\ q.seen = {} /\ q.doomed = D /\ q.missed = was.missed
        /\ q.young = was.young /\ q.quiet = was.quiet
    BY <1>4, <2>2, NoSweepIsOne DEF Sweeps, Places
  <2>4. sweep' = [sweep EXCEPT ![s] = q]
    BY <1>3, <1>6 DEF E
  <2> HIDE DEF q
  <2>5. OneSweep(s) /\ sweep'[s] = q
    BY <2>3, <2>4, OneChanges
  <2>6. QED
    BY <1>2, <1>3, <1>6, <2>3, <2>5
<1>7. QED
  BY <1>5, <1>6

\* The end of one directory: the next one, or none.
LEMMA FinishedGives ==
  ASSUME Shape, NEW s \in Sweepers, NEW d \in Dirs, Finished(s, d)
  PROVE  LET was == sweep[s] IN
         /\ OneSweep(s) /\ sweep'[s].doomed = was.doomed \ {d}
         /\ \/ sweep'[s].at = "idle" /\ sweep'[s].seen = {} /\ sweep'[s].doomed = {}
            \/ /\ sweep'[s].at = "next" /\ sweep'[s].missed = was.missed
               /\ sweep'[s].seen = was.seen /\ sweep'[s].ages = was.ages
               /\ sweep'[s].young = was.young /\ sweep'[s].quiet = was.quiet
<1> DEFINE was == sweep[s]
           remaining == was.doomed \ {d}
           q == [was EXCEPT !.doomed = remaining, !.dir = Nowhere, !.at = "next"]
<1>1. was \in Sweeps
  BY DEF Shape
<1>2. remaining \in SUBSET Dirs
  BY <1>1 DEF Sweeps
<1>3. sweep' = [sweep EXCEPT ![s] = IF remaining = {} THEN NoSweep ELSE q]
  BY DEF Finished, Shape
<1>4. CASE remaining = {}
  <2>1. OneSweep(s) /\ sweep'[s] = NoSweep
    BY <1>3, <1>4, NoSweepIsOne, OneChanges
  <2>2. QED
    BY <1>4, <2>1, NoSweepIsOne
<1>5. CASE remaining # {}
  <2>1. ASSUME NEW r \in Sweeps, NEW R \in SUBSET Dirs
        PROVE  LET p == [r EXCEPT !.doomed = R, !.dir = Nowhere, !.at = "next"]
               IN  /\ p \in Sweeps /\ p.doomed = R /\ p.at = "next" /\ p.seen = r.seen
                   /\ p.ages = r.ages /\ p.missed = r.missed /\ p.young = r.young
                   /\ p.quiet = r.quiet
    BY DEF Sweeps, Places
  <2> HIDE DEF remaining
  <2>2. /\ q \in Sweeps /\ q.doomed = remaining /\ q.at = "next" /\ q.seen = was.seen
        /\ q.ages = was.ages /\ q.missed = was.missed /\ q.young = was.young
        /\ q.quiet = was.quiet
    BY <1>1, <1>2, <2>1
  <2> HIDE DEF q
  <2>3. OneSweep(s) /\ sweep'[s] = q
    BY <1>3, <1>5, <2>2, OneChanges
  <2>4. QED
    BY <2>2, <2>3 DEF remaining
<1>6. QED
  BY <1>4, <1>5

LEMMA ListDirGives ==
  ASSUME Shape, NEW s \in Sweepers, NEW d \in Dirs, ListDir(s, d), d \in dirs
  PROVE  LET was == sweep[s] IN
         /\ OneSweep(s) /\ sweep'[s].at = "unlink" /\ sweep'[s].dir = d
         /\ sweep'[s].left = Contents(d) /\ sweep'[s].doomed = was.doomed
         /\ sweep'[s].seen = was.seen /\ sweep'[s].ages = was.ages
         /\ sweep'[s].missed = was.missed /\ sweep'[s].young = was.young
         /\ sweep'[s].quiet = was.quiet
<1> DEFINE was == sweep[s]
           q == [was EXCEPT !.at = "unlink", !.dir = d, !.left = Contents(d)]
<1>1. was \in Sweeps /\ Contents(d) \in SUBSET (Names \cup Writers)
  BY ContentsFinite DEF Shape, TypeOK
<1>2. sweep' = [sweep EXCEPT ![s] = q]
  BY DEF ListDir, Shape
<1>3. ASSUME NEW r \in Sweeps, NEW L \in SUBSET (Names \cup Writers)
      PROVE  LET p == [r EXCEPT !.at = "unlink", !.dir = d, !.left = L]
             IN  /\ p \in Sweeps /\ p.at = "unlink" /\ p.dir = d /\ p.left = L
                 /\ p.doomed = r.doomed /\ p.seen = r.seen /\ p.ages = r.ages
                 /\ p.missed = r.missed /\ p.young = r.young /\ p.quiet = r.quiet
  BY DEF Sweeps, Places
<1>4. /\ q \in Sweeps /\ q.at = "unlink" /\ q.dir = d /\ q.left = Contents(d)
      /\ q.doomed = was.doomed /\ q.seen = was.seen /\ q.ages = was.ages
      /\ q.missed = was.missed /\ q.young = was.young /\ q.quiet = was.quiet
  BY <1>1, <1>3
<1> HIDE DEF q
<1>5. QED
  BY <1>2, <1>4, OneChanges

LEMMA UnlinkGives ==
  ASSUME Shape, NEW s \in Sweepers, NEW x, Unlink(s, x)
  PROVE  LET was == sweep[s] IN
         /\ OneSweep(s) /\ was.at = "unlink" /\ was.dir \in Dirs /\ was.dir \in was.doomed
         /\ sweep'[s].at = "unlink" /\ sweep'[s].dir = was.dir
         /\ sweep'[s].left = was.left \ {x} /\ sweep'[s].doomed = was.doomed
         /\ sweep'[s].seen = was.seen /\ sweep'[s].ages = was.ages
         /\ sweep'[s].missed = was.missed /\ sweep'[s].young = was.young
         /\ sweep'[s].quiet = was.quiet
<1> DEFINE was == sweep[s]
           L == was.left \ {x}
           q == [was EXCEPT !.left = L]
<1>1. was \in Sweeps /\ was.at = "unlink" /\ was.dir \in Dirs /\ was.dir \in was.doomed
  BY DEF Shape, Unlink
<1>2. L \in SUBSET (Names \cup Writers)
  BY <1>1 DEF Sweeps
<1>3. sweep' = [sweep EXCEPT ![s] = q]
  BY DEF Unlink, Shape
<1>4. ASSUME NEW r \in Sweeps, NEW M \in SUBSET (Names \cup Writers)
      PROVE  LET p == [r EXCEPT !.left = M]
             IN  /\ p \in Sweeps /\ p.at = r.at /\ p.dir = r.dir /\ p.left = M
                 /\ p.doomed = r.doomed /\ p.seen = r.seen /\ p.ages = r.ages
                 /\ p.missed = r.missed /\ p.young = r.young /\ p.quiet = r.quiet
  BY DEF Sweeps
<1> HIDE DEF L
<1>5. /\ q \in Sweeps /\ q.at = was.at /\ q.dir = was.dir /\ q.left = L
      /\ q.doomed = was.doomed /\ q.seen = was.seen /\ q.ages = was.ages
      /\ q.missed = was.missed /\ q.young = was.young /\ q.quiet = was.quiet
  BY <1>1, <1>2, <1>4
<1> HIDE DEF q
<1>6. QED
  BY <1>1, <1>3, <1>5, OneChanges DEF L

-----------------------------------------------------------------------------
(* Types. *)

LEMMA InitShape == Init => Shape
<1> SUFFICES ASSUME Init PROVE Shape
  OBVIOUS
<1>1. \A s \in Sweepers : sweep[s] = NoSweep
  BY DEF Init
<1>2. NoSweep \in Sweeps /\ NoSweep.at = "idle" /\ NoSweep.doomed = {}
  BY NoSweepIsOne
<1>3. sweep \in [Sweepers -> Sweeps]
  BY <1>2 DEF Init
<1>4. NoWrite.at = "idle" /\ \A w \in Writers : writing[w] = NoWrite
  BY DEF Init, NoWrite
<1>5. TypeOK
  <2>1. /\ dirs \subseteq Dirs /\ files \in [Dirs -> SUBSET Names] /\ temps = {}
        /\ writes \in 0..MaxWrites
    BY StoreAssumption DEF Init
  <2>2. age \in [Dirs -> 0..AgeCap] /\ fresh \in [Dirs -> 0..MinAge]
    BY ReapAssumption DEF Init, AgeCap
  <2>3. /\ \A w \in Writers : writing[w].at \in {"idle", "temp", "replace", "link"}
        /\ \A s \in Sweepers : /\ sweep[s].at \in Places /\ sweep[s].doomed \subseteq Dirs
    BY <1>1, <1>2, <1>4 DEF Places
  <2>4. QED
    BY <2>1, <2>2, <2>3 DEF TypeOK, Places
<1>6. (\A s \in Sweepers : sweep[s].at = "idle") /\ \A w \in Writers : writing[w].at = "idle"
  BY <1>1, <1>2, <1>4
<1>7. /\ \A w \in Writers : writing[w].at # "idle" => /\ writing[w].dir \in Dirs
                                                      /\ writing[w].name \in Names
      /\ \A s \in Sweepers : /\ sweep[s].at \in {"measure", "unlink"} => sweep[s].dir \in Dirs
                             /\ sweep[s].at = "unlink" => sweep[s].dir \in sweep[s].doomed
  BY <1>6
<1>8. writing \in [Writers -> Writes]
  BY DEF Init, NoWrite, Writes
<1>9. QED
  BY <1>3, <1>5, <1>7, <1>8 DEF Shape

\* A writer's step: it disturbs the sweeps, and only its own state and temporary
\* file change.
LEMMA WriterShape ==
  ASSUME Shape, Disturb, NEW w \in Writers, NEW r \in Writes,
         writing' = [writing EXCEPT ![w] = r],
         r.at # "idle" => r.dir \in Dirs /\ r.name \in Names,
         dirs' \subseteq Dirs, files' \in [Dirs -> SUBSET Names],
         temps' \ {w} \subseteq temps, w \in temps' => r.at = "replace",
         age' \in [Dirs -> 0..AgeCap], fresh' \in [Dirs -> 0..MinAge], writes' \in 0..MaxWrites
  PROVE  Shape'
<1>1. writing' \in [Writers -> Writes] /\ writing'[w] = r
      /\ \A v \in Writers \ {w} : writing'[v] = writing[v]
  BY DEF Shape
<1>2. sweep' \in [Sweepers -> Sweeps] /\ \A s \in Sweepers : Same(sweep'[s], sweep[s])
  BY Disturbed
<1>3. \A s \in Sweepers : /\ sweep'[s].at = sweep[s].at /\ sweep'[s].dir = sweep[s].dir
                          /\ sweep'[s].doomed = sweep[s].doomed
  BY <1>2 DEF Same
<1>4. /\ \A v \in Writers : writing'[v].at \in {"idle", "temp", "replace", "link"}
      /\ \A v \in Writers : writing'[v].at # "idle" => /\ writing'[v].dir \in Dirs
                                                       /\ writing'[v].name \in Names
  BY <1>1 DEF Shape, Writes
<1>5. temps' \subseteq Writers /\ \A v \in temps' : writing'[v].at = "replace"
  BY <1>1 DEF Shape, TypeOK
<1>6. TypeOK'
  <2>1. \A s \in Sweepers :
          /\ sweep'[s].at \in {"idle", "due", "usage", "measure", "next", "unlink"}
          /\ sweep'[s].doomed \subseteq Dirs
    BY <1>3 DEF Shape, TypeOK
  <2>2. QED
    BY <1>4, <1>5, <2>1 DEF TypeOK
<1>7. \A s \in Sweepers : /\ sweep'[s].at \in {"measure", "unlink"} => sweep'[s].dir \in Dirs
                          /\ sweep'[s].at = "unlink" => sweep'[s].dir \in sweep'[s].doomed
  BY <1>3 DEF Shape
<1>8. QED
  BY <1>1, <1>2, <1>4, <1>6, <1>7 DEF Shape

\* A sweeper's step: only its own state changes, and what is on the disk.
LEMMA SweeperShape ==
  ASSUME Shape, NEW s \in Sweepers, OneSweep(s),
         sweep'[s].at \in {"measure", "unlink"} => sweep'[s].dir \in Dirs,
         sweep'[s].at = "unlink" => sweep'[s].dir \in sweep'[s].doomed,
         dirs' \subseteq dirs, files' \in [Dirs -> SUBSET Names], temps' \subseteq temps,
         age' \in [Dirs -> 0..AgeCap], fresh' \in [Dirs -> 0..MinAge],
         UNCHANGED <<writing, writes>>
  PROVE  Shape'
<1>1. sweep' \in [Sweepers -> Sweeps] /\ \A q \in Sweepers \ {s} : sweep'[q] = sweep[q]
  BY DEF OneSweep
<1>2. \A q \in Sweepers :
        /\ sweep'[q].at \in {"idle", "due", "usage", "measure", "next", "unlink"}
        /\ sweep'[q].doomed \subseteq Dirs
  BY <1>1 DEF Sweeps, Places
<1>3. \A q \in Sweepers :
        /\ sweep'[q].at \in {"measure", "unlink"} => sweep'[q].dir \in Dirs
        /\ sweep'[q].at = "unlink" => sweep'[q].dir \in sweep'[q].doomed
  BY <1>1 DEF Shape
<1>4. QED
  BY <1>1, <1>2, <1>3 DEF Shape, TypeOK

\* What a sweeper's step does to the store and to the other sweepers.
LEMMA SweeperTakesAway ==
  ASSUME Shape, NEW s \in Sweepers, Sweep(s)
  PROVE  /\ Shape' /\ OneSweep(s) /\ UNCHANGED <<writing, writes>>
         /\ dirs' \subseteq dirs /\ temps' \subseteq temps
         /\ \A d \in Dirs : Contents(d)' \subseteq Contents(d)
<1>a. /\ files \in [Dirs -> SUBSET Names] /\ age \in [Dirs -> 0..AgeCap]
      /\ fresh \in [Dirs -> 0..MinAge] /\ 0 \in 0..AgeCap /\ 0 \in 0..MinAge
  BY ReapAssumption DEF Shape, TypeOK, AgeCap
<1>b. ASSUME UNCHANGED <<dirs, files, temps, age, fresh, writing, writes>>
      PROVE  /\ dirs' \subseteq dirs /\ files' \in [Dirs -> SUBSET Names] /\ temps' \subseteq temps
             /\ age' \in [Dirs -> 0..AgeCap] /\ fresh' \in [Dirs -> 0..MinAge]
             /\ UNCHANGED <<writing, writes>>
             /\ \A d \in Dirs : Contents(d)' \subseteq Contents(d)
  BY <1>a, <1>b DEF Contents
<1>1. CASE ListRoot(s)
  BY <1>b, <1>1, ListRootGives, SweeperShape
<1>2. ASSUME NEW d \in Dirs, OpenDir(s, d)
      PROVE  /\ Shape' /\ OneSweep(s) /\ UNCHANGED <<writing, writes>>
             /\ dirs' \subseteq dirs /\ temps' \subseteq temps
             /\ \A e \in Dirs : Contents(e)' \subseteq Contents(e)
  BY <1>b, <1>2, OpenDirGives, SweeperShape
<1>3. CASE MeasureDir(s)
  BY <1>b, <1>3, MeasureDirGives, SweeperShape
<1>4. CASE Decide(s)
  <2>1. OneSweep(s) /\ sweep'[s].at \in {"idle", "next"}
        /\ UNCHANGED <<dirs, files, temps, age, fresh, writing, writes>>
    BY <1>4, DecideGives
  <2>2. QED
    BY <1>b, <2>1, SweeperShape
<1>5. ASSUME NEW d \in Dirs, ListDir(s, d)
      PROVE  /\ Shape' /\ OneSweep(s) /\ UNCHANGED <<writing, writes>>
             /\ dirs' \subseteq dirs /\ temps' \subseteq temps
             /\ \A e \in Dirs : Contents(e)' \subseteq Contents(e)
  <2>1. UNCHANGED <<dirs, files, temps, age, fresh, writing, writes>> /\ d \in sweep[s].doomed
    BY <1>5 DEF ListDir
  <2>2. CASE d \in dirs
    BY <1>b, <1>5, <2>1, <2>2, ListDirGives, SweeperShape
  <2>3. CASE d \notin dirs
    <3>1. Finished(s, d)
      BY <1>5, <2>3 DEF ListDir
    <3>2. OneSweep(s) /\ sweep'[s].at \in {"idle", "next"}
      BY <3>1, FinishedGives
    <3>3. QED
      BY <1>b, <2>1, <3>2, SweeperShape
  <2>4. QED
    BY <2>2, <2>3
<1>6. ASSUME NEW x \in Names \cup Writers, Unlink(s, x)
      PROVE  /\ Shape' /\ OneSweep(s) /\ UNCHANGED <<writing, writes>>
             /\ dirs' \subseteq dirs /\ temps' \subseteq temps
             /\ \A e \in Dirs : Contents(e)' \subseteq Contents(e)
  <2>1. /\ OneSweep(s) /\ sweep[s].dir \in Dirs /\ sweep'[s].dir \in Dirs
        /\ sweep'[s].dir \in sweep'[s].doomed
    BY <1>6, UnlinkGives
  <2>2. UNCHANGED <<dirs, fresh, writing, writes>> /\ temps' \subseteq temps
    BY <1>6 DEF Unlink
  <2>3. /\ files' \in [Dirs -> SUBSET Names] /\ age' \in [Dirs -> 0..AgeCap]
        /\ \A e \in Dirs : files'[e] \subseteq files[e]
    BY <1>a, <1>6, <2>1 DEF Unlink, Touch
  <2>4. \A e \in Dirs : Contents(e)' \subseteq Contents(e)
    BY <2>2, <2>3 DEF Contents
  <2>5. Shape'
    BY <1>a, <2>1, <2>2, <2>3, SweeperShape
  <2>6. QED
    BY <2>1, <2>2, <2>4, <2>5
<1>7. CASE RemoveDir(s)
  <2>1. sweep[s].dir \in Dirs /\ Finished(s, sweep[s].dir) /\ UNCHANGED <<files, temps, writing, writes>>
    BY <1>7 DEF RemoveDir, Shape
  <2>2. OneSweep(s) /\ sweep'[s].at \in {"idle", "next"}
    BY <2>1, FinishedGives
  <2>3. dirs' \subseteq dirs /\ age' \in [Dirs -> 0..AgeCap] /\ fresh' \in [Dirs -> 0..MinAge]
    BY <1>a, <1>7, <2>1 DEF RemoveDir, Touch
  <2>4. \A e \in Dirs : Contents(e)' \subseteq Contents(e)
    BY <2>1 DEF Contents
  <2>5. Shape'
    BY <1>a, <2>1, <2>2, <2>3, SweeperShape
  <2>6. QED
    BY <2>1, <2>2, <2>3, <2>4, <2>5
<1>8. QED
  BY <1>1, <1>2, <1>3, <1>4, <1>5, <1>6, <1>7 DEF Sweep

\* What a tick leaves alone.
LEMMA TickGives ==
  ASSUME Shape, Tick
  PROVE  /\ UNCHANGED <<dirs, files, temps, writes>>
         /\ writing' \in [Writers -> Writes] /\ sweep' \in [Sweepers -> Sweeps]
         /\ \A w \in Writers : /\ writing'[w].at = writing[w].at
                               /\ writing'[w].dir = writing[w].dir
                               /\ writing'[w].name = writing[w].name
                               /\ writing[w].risk => writing'[w].risk
                               /\ writing[w].at # "idle" /\ Ripe(age'[writing[w].dir])
                                    => writing'[w].risk
         /\ \A s \in Sweepers : \/ sweep'[s] = sweep[s]
                                \/ /\ sweep'[s].at = "due" /\ sweep'[s].doomed = {}
                                   /\ sweep'[s].seen = {}
<1>1. ASSUME NEW w \in Writers
      PROVE  /\ writing'[w] \in Writes /\ writing'[w].at = writing[w].at
             /\ writing'[w].dir = writing[w].dir /\ writing'[w].name = writing[w].name
             /\ writing[w].risk => writing'[w].risk
             /\ writing[w].at # "idle" /\ Ripe(age'[writing[w].dir]) => writing'[w].risk
  <2> DEFINE ripe == writing[w].at # "idle" /\ Ripe(age'[writing[w].dir])
             b == writing[w].risk \/ ripe
  <2>1. writing[w] \in Writes
    BY DEF Shape
  <2>2. writing'[w] = [writing[w] EXCEPT !.risk = b]
    BY DEF Tick
  <2>3. writing[w].risk \in BOOLEAN
    BY <2>1 DEF Writes
  <2>4. ripe \in BOOLEAN
    BY DEF Ripe
  <2>5. b \in BOOLEAN
    BY <2>3, <2>4
  <2>6. ASSUME NEW c \in BOOLEAN
        PROVE  /\ [writing[w] EXCEPT !.risk = c] \in Writes
               /\ [writing[w] EXCEPT !.risk = c].at = writing[w].at
               /\ [writing[w] EXCEPT !.risk = c].dir = writing[w].dir
               /\ [writing[w] EXCEPT !.risk = c].name = writing[w].name
               /\ [writing[w] EXCEPT !.risk = c].risk = c
    BY <2>1 DEF Writes
  <2>7. writing[w].risk => b
    OBVIOUS
  <2>8. ripe => b
    OBVIOUS
  <2> HIDE DEF b
  <2>9. /\ writing'[w] \in Writes /\ writing'[w].at = writing[w].at
        /\ writing'[w].dir = writing[w].dir /\ writing'[w].name = writing[w].name
        /\ writing'[w].risk = b
    BY <2>2, <2>5, <2>6
  <2>10. QED
    BY <2>7, <2>8, <2>9
<1>2. writing' \in [Writers -> Writes]
  <2>1. writing' = [w \in Writers |-> writing'[w]]
    BY DEF Tick
  <2>2. QED
    BY <1>1, <2>1
<1>3. ASSUME NEW r \in Sweeps
      PROVE  /\ [r EXCEPT !.at = "due"] \in Sweeps /\ [r EXCEPT !.at = "due"].at = "due"
             /\ [r EXCEPT !.at = "due"].doomed = r.doomed /\ [r EXCEPT !.at = "due"].seen = r.seen
  BY DEF Sweeps, Places
<1> DEFINE due == [NoSweep EXCEPT !.at = "due"]
<1>4. due \in Sweeps /\ due.at = "due" /\ due.doomed = {} /\ due.seen = {}
  BY <1>3, NoSweepIsOne
<1>5. sweep' = [s \in Sweepers |-> IF sweep[s].at = "idle" THEN due ELSE sweep[s]]
  BY DEF Tick
<1> HIDE DEF due
<1>6. /\ sweep' \in [Sweepers -> Sweeps]
      /\ \A s \in Sweepers : sweep'[s] = sweep[s] \/ sweep'[s] = due
  BY <1>4, <1>5 DEF Shape
<1>7. UNCHANGED <<dirs, files, temps, writes>>
  BY DEF Tick
<1>8. QED
  BY <1>1, <1>2, <1>4, <1>6, <1>7

LEMMA NextShape == Shape /\ [Next]_vars => Shape'
<1> SUFFICES ASSUME Shape, [Next]_vars PROVE Shape'
  OBVIOUS
<1>a. /\ dirs \subseteq Dirs /\ files \in [Dirs -> SUBSET Names] /\ temps \subseteq Writers
      /\ age \in [Dirs -> 0..AgeCap] /\ fresh \in [Dirs -> 0..MinAge] /\ writes \in 0..MaxWrites
      /\ writing \in [Writers -> Writes]
      /\ \A w \in Writers : writing[w].at # "idle" => /\ writing[w].dir \in Dirs
                                                      /\ writing[w].name \in Names
      /\ \A w \in temps : writing[w].at = "replace"
  BY DEF Shape, TypeOK
<1>b. AgeCap \in Nat /\ 0 \in 0..AgeCap /\ 0 \in 0..MinAge /\ MaxWrites \in Nat /\ MinAge \in Nat
  BY ReapAssumption, StoreAssumption DEF AgeCap
<1>c. NoWrite \in Writes /\ NoWrite.at = "idle"
  BY DEF NoWrite, Writes
<1>1. ASSUME NEW w \in Writers, NEW d \in Dirs, NEW n \in Names, NEW next \in {"temp", "link"},
             NEW from \in Dirs \cup {Nowhere}, MakeDir(w, d, n, next, from)
      PROVE  Shape'
  <2> DEFINE b == Marked(d) \/ Ripe(IF d \in dirs THEN age[d] ELSE 0)
             r == [at |-> next, dir |-> d, name |-> n, from |-> from, risk |-> b]
  <2>1. b \in BOOLEAN
    BY DEF Marked, Ripe
  <2>2. /\ writing' = [writing EXCEPT ![w] = r] /\ Disturb /\ dirs' = dirs \cup {d}
        /\ UNCHANGED <<files, temps, fresh>> /\ w \notin temps
    BY <1>a, <1>1 DEF MakeDir
  <2>3. age' \in [Dirs -> 0..AgeCap] /\ writes' \in 0..MaxWrites
    BY <1>a, <1>b, <1>1 DEF MakeDir, Touch
  <2> HIDE DEF b
  <2>4. r \in Writes /\ r.dir \in Dirs /\ r.name \in Names
    BY <2>1 DEF Writes
  <2>5. QED
    BY <1>a, <2>2, <2>3, <2>4, WriterShape
<1>2. ASSUME NEW w \in Writers, WriteTemp(w) PROVE Shape'
  <2>1. writing[w].dir \in Dirs /\ writing[w].name \in Names /\ Disturb
        /\ UNCHANGED <<dirs, files, fresh, writes>>
    BY <1>a, <1>2 DEF WriteTemp
  <2>2. CASE writing[w].dir \in dirs
    <3> DEFINE r == [writing[w] EXCEPT !.at = "replace"]
    <3>1. r \in Writes /\ r.dir = writing[w].dir /\ r.name = writing[w].name /\ r.at = "replace"
      BY <1>a DEF Writes
    <3>2. writing' = [writing EXCEPT ![w] = r] /\ temps' = temps \cup {w}
      BY <1>2, <2>2 DEF WriteTemp
    <3>3. age' \in [Dirs -> 0..AgeCap]
      BY <1>a, <1>b, <1>2, <2>2 DEF WriteTemp, Touch
    <3>4. QED
      BY <1>a, <2>1, <3>1, <3>2, <3>3, WriterShape
  <2>3. CASE writing[w].dir \notin dirs
    <3>1. writing' = [writing EXCEPT ![w] = NoWrite] /\ UNCHANGED <<temps, age>> /\ w \notin temps
      BY <1>a, <1>2, <2>3 DEF WriteTemp, Stop
    <3>2. QED
      BY <1>a, <1>c, <2>1, <3>1, WriterShape
  <2>4. QED
    BY <2>2, <2>3
<1>3. ASSUME NEW w \in Writers, Replace(w) \/ LinkFile(w) PROVE Shape'
  <2>1. /\ writing[w].dir \in Dirs /\ writing[w].name \in Names /\ Disturb
        /\ writing' = [writing EXCEPT ![w] = NoWrite] /\ UNCHANGED <<dirs, writes>>
        /\ temps' \subseteq temps /\ w \notin temps'
    BY <1>a, <1>3 DEF Replace, LinkFile, Stop
  <2>2. /\ files' \in [Dirs -> SUBSET Names] /\ age' \in [Dirs -> 0..AgeCap]
        /\ fresh' \in [Dirs -> 0..MinAge]
    BY <1>a, <1>b, <1>3, <2>1 DEF Replace, LinkFile, Touch
  <2>3. QED
    BY <1>a, <1>c, <2>1, <2>2, WriterShape
<1>4. ASSUME NEW s \in Sweepers, Sweep(s) PROVE Shape'
  BY <1>4, SweeperTakesAway
<1>5. CASE Tick
  <2>1. ASSUME NEW cap \in Nat, NEW a \in [Dirs -> 0..cap] PROVE Older(a, cap) \in [Dirs -> 0..cap]
    BY DEF Older
  <2>2. age' \in [Dirs -> 0..AgeCap] /\ fresh' \in [Dirs -> 0..MinAge]
    BY <1>a, <1>b, <1>5, <2>1 DEF Tick
  <2>3. /\ UNCHANGED <<dirs, files, temps, writes>>
        /\ writing' \in [Writers -> Writes] /\ sweep' \in [Sweepers -> Sweeps]
        /\ \A w \in Writers : /\ writing'[w].at = writing[w].at
                              /\ writing'[w].dir = writing[w].dir
                              /\ writing'[w].name = writing[w].name
        /\ \A s \in Sweepers : sweep'[s] = sweep[s] \/ sweep'[s].at = "due"
    BY <1>5, TickGives
  <2>4. \A s \in Sweepers :
          /\ sweep'[s].at \in {"idle", "due", "usage", "measure", "next", "unlink"}
          /\ sweep'[s].doomed \subseteq Dirs
          /\ sweep'[s].at \in {"measure", "unlink"} => sweep'[s].dir \in Dirs
          /\ sweep'[s].at = "unlink" => sweep'[s].dir \in sweep'[s].doomed
    BY <2>3 DEF Shape, Sweeps, Places
  <2>5. \A w \in Writers : writing'[w].at \in {"idle", "temp", "replace", "link"}
    BY <2>3 DEF Writes
  <2>6. TypeOK'
    BY <1>a, <2>2, <2>3, <2>4, <2>5 DEF TypeOK
  <2>7. QED
    BY <1>a, <2>3, <2>4, <2>6 DEF Shape
<1>6. CASE UNCHANGED vars
  BY <1>6 DEF vars, Shape, TypeOK
<1>7. QED
  BY <1>1, <1>2, <1>3, <1>4, <1>5, <1>6 DEF Next, BeginPut, BeginLink, Write

\* Type correctness, and with it that a temporary file belongs to a writer that
\* is about to rename it.
THEOREM TypeCorrect == Spec => []TypeOK
<1>1. Shape => TypeOK
  BY DEF Shape
<1>2. QED
  BY <1>1, InitShape, NextShape, PTL DEF Spec

-----------------------------------------------------------------------------
(* Writes no sweep can spoil. *)

\* The directory of a write that is not at risk is there, too young for any
\* sweep, and no sweep has it on its list.
Safe(w, d) ==
  writing[w].at # "idle" /\ writing[w].dir = d /\ ~writing[w].risk =>
    /\ d \in dirs /\ ~Ripe(age[d]) /\ ~Marked(d)
    /\ writing[w].at = "replace" => w \in temps
AllSafe == \A w \in Writers, d \in Dirs : Safe(w, d)

\* What is too young stays so when it is touched.
LEMMA YoungerStill ==
  ASSUME NEW a \in Nat, ~Ripe(a)
  PROVE  ~Ripe(0)
BY ReapAssumption DEF Ripe

\* A write goes on being safe as long as its directory and its temporary file
\* stay, the directory does not come of age, and no sweep marks it.
Spared(w, d) ==
  /\ writing'[w].at = writing[w].at /\ writing'[w].dir = writing[w].dir
  /\ writing[w].risk => writing'[w].risk
  /\ (/\ writing[w].at # "idle" /\ writing[w].dir = d /\ ~writing'[w].risk
      /\ d \in dirs /\ ~Ripe(age[d]) /\ ~Marked(d))
       => /\ age'[d] \in {age[d], 0} \/ ~Ripe(age'[d])
          /\ d \in dirs' /\ ~Marked(d)'
          /\ writing[w].at = "replace" /\ w \in temps => w \in temps'

LEMMA StaysSafe ==
  ASSUME Shape, NEW w \in Writers, NEW d \in Dirs, Safe(w, d), Spared(w, d)
  PROVE  Safe(w, d)'
<1> SUFFICES ASSUME writing'[w].at # "idle", writing'[w].dir = d, ~writing'[w].risk
             PROVE  /\ d \in dirs' /\ ~Ripe(age'[d]) /\ ~Marked(d)'
                    /\ writing'[w].at = "replace" => w \in temps'
  BY DEF Safe, Marked
<1>1. /\ d \in dirs /\ ~Ripe(age[d]) /\ ~Marked(d)
      /\ writing[w].at = "replace" => w \in temps
  BY DEF Safe, Spared
<1>2. /\ age'[d] \in {age[d], 0} \/ ~Ripe(age'[d])
      /\ d \in dirs' /\ ~Marked(d)'
      /\ writing'[w].at = "replace" => w \in temps'
  BY <1>1 DEF Spared
<1>3. age[d] \in Nat
  BY ReapAssumption DEF Shape, TypeOK, AgeCap
<1>4. ~Ripe(age'[d])
  BY <1>1, <1>2, <1>3, YoungerStill
<1>5. QED
  BY <1>2, <1>4

\* A sweep marks only what is ripe when it measures it.
LEMMA SweepsMarkTheRipe ==
  ASSUME Shape, NEW s \in Sweepers, Sweep(s), NEW d \in Dirs, d \in dirs,
         ~Ripe(age[d]), ~Marked(d)
  PROVE  ~Marked(d)'
<1>1. OneSweep(s)
  BY SweeperTakesAway
<1>2. SUFFICES ~(d \in sweep'[s].doomed \/ (d \in sweep'[s].seen /\ Ripe(sweep'[s].ages[d])))
  BY <1>1 DEF Marked, OneSweep
<1>3. d \notin sweep[s].doomed /\ ~(d \in sweep[s].seen /\ Ripe(sweep[s].ages[d]))
  BY DEF Marked
<1>4. CASE ListRoot(s)
  BY <1>4, ListRootGives
<1>5. ASSUME NEW e \in Dirs, OpenDir(s, e)
      PROVE  ~(d \in sweep'[s].doomed \/ (d \in sweep'[s].seen /\ Ripe(sweep'[s].ages[d])))
  BY <1>3, <1>5, OpenDirGives
<1>6. CASE MeasureDir(s)
  <2> DEFINE e == sweep[s].dir
  <2>1. /\ e \in Dirs /\ sweep'[s].doomed = sweep[s].doomed
        /\ \/ /\ sweep'[s].seen = sweep[s].seen \cup {e}
              /\ sweep'[s].ages = [sweep[s].ages EXCEPT ![e] = age[e]]
           \/ sweep'[s].seen = sweep[s].seen /\ sweep'[s].ages = sweep[s].ages
    BY <1>6, MeasureDirGives
  <2>2. sweep[s].ages \in [Dirs -> 0..AgeCap]
    BY DEF Shape, Sweeps
  <2>3. QED
    BY <1>3, <2>1, <2>2
<1>7. CASE Decide(s)
  <2>1. sweep'[s].seen = {}
        /\ sweep'[s].doomed \in Doomed(sweep[s].seen, sweep[s].ages, sweep[s].sizes)
    BY <1>7, DecideGives
  <2>2. /\ sweep'[s].doomed \subseteq sweep[s].seen
        /\ \A e \in sweep'[s].doomed : Ripe(sweep[s].ages[e])
    BY <2>1, DoomedAreRipe
  <2>3. QED
    BY <1>3, <2>1, <2>2
<1>8. ASSUME NEW e \in Dirs, Finished(s, e)
      PROVE  ~(d \in sweep'[s].doomed \/ (d \in sweep'[s].seen /\ Ripe(sweep'[s].ages[d])))
  <2>1. /\ sweep'[s].doomed = sweep[s].doomed \ {e}
        /\ \/ sweep'[s].seen = {}
           \/ sweep'[s].seen = sweep[s].seen /\ sweep'[s].ages = sweep[s].ages
    BY <1>8, FinishedGives
  <2>2. QED
    BY <1>3, <2>1
<1>9. ASSUME NEW e \in Dirs, ListDir(s, e)
      PROVE  ~(d \in sweep'[s].doomed \/ (d \in sweep'[s].seen /\ Ripe(sweep'[s].ages[d])))
  <2>1. CASE e \in dirs
    BY <1>3, <1>9, <2>1, ListDirGives
  <2>2. CASE e \notin dirs
    BY <1>8, <1>9, <2>2 DEF ListDir
  <2>3. QED
    BY <2>1, <2>2
<1>10. ASSUME NEW x \in Names \cup Writers, Unlink(s, x)
       PROVE  ~(d \in sweep'[s].doomed \/ (d \in sweep'[s].seen /\ Ripe(sweep'[s].ages[d])))
  BY <1>3, <1>10, UnlinkGives
<1>11. CASE RemoveDir(s)
  <2>1. sweep[s].dir \in Dirs /\ Finished(s, sweep[s].dir)
    BY <1>11 DEF RemoveDir, Shape
  <2>2. QED
    BY <1>8, <2>1
<1>12. QED
  BY <1>4, <1>5, <1>6, <1>7, <1>9, <1>10, <1>11 DEF Sweep

\* What no sweep has marked, no sweep takes anything from.
LEMMA UnmarkedUntouched ==
  ASSUME Shape, NEW s \in Sweepers, Sweep(s), NEW d \in Dirs, ~Marked(d)
  PROVE  /\ d \in dirs => d \in dirs'
         /\ age'[d] = age[d]
         /\ \A w \in temps : writing[w].dir = d => w \in temps'
<1>a. /\ age \in [Dirs -> 0..AgeCap] /\ files \in [Dirs -> SUBSET Names]
      /\ temps \subseteq Writers
  BY DEF Shape, TypeOK
<1>b. d \notin sweep[s].doomed
  BY DEF Marked
<1>c. CASE UNCHANGED <<dirs, temps, age>>
  BY <1>c
<1>1. ASSUME NEW x \in Names \cup Writers, Unlink(s, x)
      PROVE  /\ d \in dirs => d \in dirs'
             /\ age'[d] = age[d]
             /\ \A w \in temps : writing[w].dir = d => w \in temps'
  <2> DEFINE e == sweep[s].dir
  <2>1. e \in Dirs /\ e # d /\ UNCHANGED dirs
    BY <1>b, <1>1, UnlinkGives DEF Unlink
  <2>2. CASE x \in Contents(e)
    <3>1. temps' = temps \ {x} /\ age' = [age EXCEPT ![e] = 0]
      BY <1>1, <2>2 DEF Unlink, Touch
    <3>2. \A w \in temps : writing[w].dir = d => w # x
      <4>1. ASSUME NEW w \in temps, writing[w].dir = d, w = x PROVE FALSE
        <5>1. w \in files[e] \/ writing[w].dir = e
          BY <2>2, <4>1 DEF Contents
        <5>2. w \in Names
          BY <1>a, <2>1, <4>1, <5>1
        <5>3. QED
          BY <1>a, <5>2, StoreAssumption
      <4>2. QED
        BY <4>1
    <3>3. QED
      BY <1>a, <2>1, <3>1, <3>2
  <2>3. CASE x \notin Contents(e)
    BY <1>1, <2>1, <2>3 DEF Unlink
  <2>4. QED
    BY <2>2, <2>3
<1>2. CASE RemoveDir(s)
  <2>1. sweep[s].dir # d /\ sweep[s].dir \in Dirs
    BY <1>b, <1>2 DEF RemoveDir, Shape
  <2>2. QED
    BY <1>a, <1>2, <2>1 DEF RemoveDir, Touch
<1>3. QED
  BY <1>c, <1>1, <1>2 DEF Sweep, ListRoot, OpenDir, MeasureDir, Decide, ListDir

\* A writer marks nothing, and keeps its own and the others' writes safe.
LEMMA DisturbMarks ==
  ASSUME Shape, Disturb, NEW d
  PROVE  Marked(d)' <=> Marked(d)
<1>1. \A s \in Sweepers : /\ sweep'[s].doomed = sweep[s].doomed /\ sweep'[s].seen = sweep[s].seen
                          /\ sweep'[s].ages = sweep[s].ages
  BY Disturbed DEF Same
<1>2. QED
  BY <1>1 DEF Marked

LEMMA NextSafe == Shape /\ AllSafe /\ [Next]_vars => AllSafe'
<1> SUFFICES ASSUME Shape, AllSafe, [Next]_vars, NEW v \in Writers, NEW d \in Dirs
             PROVE  Safe(v, d)'
  BY DEF AllSafe, Safe, Marked
<1>a. /\ age \in [Dirs -> 0..AgeCap] /\ writing \in [Writers -> Writes]
      /\ \A w \in Writers : writing[w].at # "idle" => writing[w].dir \in Dirs
      /\ \A w \in temps : writing[w].at = "replace"
  BY DEF Shape, TypeOK
<1>b. Safe(v, d)
  BY DEF AllSafe
<1>1. ASSUME NEW w \in Writers, NEW e \in Dirs, NEW n, NEW next \in {"temp", "link"}, NEW from,
             MakeDir(w, e, n, next, from)
      PROVE  Safe(v, d)'
  <2>1. /\ dirs' = dirs \cup {e} /\ UNCHANGED temps /\ Disturb
        /\ age' = IF e \in dirs THEN age ELSE [age EXCEPT ![e] = 0]
    BY <1>1 DEF MakeDir, Touch
  <2>2. Marked(d)' <=> Marked(d)
    BY <2>1, DisturbMarks
  <2>3. CASE v = w
    <3> DEFINE b == Marked(e) \/ Ripe(IF e \in dirs THEN age[e] ELSE 0)
    <3>1. writing'[w] = [at |-> next, dir |-> e, name |-> n, from |-> from, risk |-> b]
      BY <1>a, <1>1 DEF MakeDir
    <3>2. writing'[w].at = next /\ writing'[w].dir = e /\ writing'[w].risk = b
      BY <3>1
    <3>3. SUFFICES ASSUME ~b, e = d
                   PROVE  d \in dirs' /\ ~Ripe(age'[d]) /\ ~Marked(d)'
      BY <2>3, <3>2 DEF Safe, Marked
    <3>4. age'[d] = IF e \in dirs THEN age[e] ELSE 0
      BY <1>a, <2>1, <3>3
    <3>5. QED
      BY <2>1, <2>2, <3>3, <3>4
  <2>4. CASE v # w
    <3>1. writing'[v] = writing[v]
      BY <1>a, <1>1, <2>4 DEF MakeDir
    <3>2. age'[d] \in {age[d], 0}
      BY <1>a, <2>1
    <3>3. Spared(v, d)
      BY <2>1, <2>2, <3>1, <3>2 DEF Spared
    <3>4. QED
      BY <1>b, <3>3, StaysSafe
  <2>5. QED
    BY <2>3, <2>4
<1>2. ASSUME NEW w \in Writers, WriteTemp(w) PROVE Safe(v, d)'
  <2>1. UNCHANGED dirs /\ Disturb /\ writing[w].at = "temp"
    BY <1>2 DEF WriteTemp
  <2>2. Marked(d)' <=> Marked(d)
    BY <2>1, DisturbMarks
  <2>3. age'[d] \in {age[d], 0} /\ temps \subseteq temps'
    BY <1>a, <1>2, <2>1 DEF WriteTemp, Touch
  <2>4. CASE v # w
    <3>1. writing'[v] = writing[v]
      BY <1>a, <1>2, <2>4 DEF WriteTemp, Stop
    <3>2. Spared(v, d)
      BY <2>1, <2>2, <2>3, <3>1 DEF Spared
    <3>3. QED
      BY <1>b, <3>2, StaysSafe
  <2>5. CASE v = w /\ writing[w].dir \notin dirs
    <3>1. writing'[w].at = "idle"
      BY <1>a, <1>2, <2>5 DEF WriteTemp, Stop, NoWrite
    <3>2. QED
      BY <2>5, <3>1 DEF Safe, Marked
  <2>6. CASE v = w /\ writing[w].dir \in dirs
    <3>1. writing'[w] = [writing[w] EXCEPT !.at = "replace"] /\ temps' = temps \cup {w}
      BY <1>a, <1>2, <2>6 DEF WriteTemp
    <3>2. /\ writing'[w].at = "replace" /\ writing'[w].dir = writing[w].dir
          /\ writing'[w].risk = writing[w].risk
      BY <1>a, <3>1 DEF Writes
    <3>3. SUFFICES ASSUME writing[w].dir = d, ~writing[w].risk
                   PROVE  d \in dirs' /\ ~Ripe(age'[d]) /\ ~Marked(d)' /\ w \in temps'
      BY <2>6, <3>2 DEF Safe, Marked
    <3>4. d \in dirs /\ ~Ripe(age[d]) /\ ~Marked(d)
      BY <1>b, <2>1, <2>6, <3>3 DEF Safe
    <3>5. age[d] \in Nat
      BY <1>a, ReapAssumption DEF AgeCap
    <3>6. ~Ripe(age'[d])
      BY <2>3, <3>4, <3>5, YoungerStill
    <3>7. QED
      BY <2>1, <2>2, <3>1, <3>4, <3>6
  <2>7. QED
    BY <2>4, <2>5, <2>6
<1>3. ASSUME NEW w \in Writers, Replace(w) \/ LinkFile(w) PROVE Safe(v, d)'
  <2>1. /\ UNCHANGED dirs /\ Disturb /\ writing' = [writing EXCEPT ![w] = NoWrite]
        /\ temps \subseteq temps' \cup {w} /\ writing[w].at # "idle"
    BY <1>3 DEF Replace, LinkFile, Stop
  <2>2. Marked(d)' <=> Marked(d)
    BY <2>1, DisturbMarks
  <2>3. age'[d] \in {age[d], 0}
    BY <1>a, <1>3, <2>1 DEF Replace, LinkFile, Touch
  <2>4. CASE v = w
    <3>1. writing'[v].at = "idle"
      BY <1>a, <2>1, <2>4 DEF NoWrite
    <3>2. QED
      BY <3>1 DEF Safe, Marked
  <2>5. CASE v # w
    <3>1. writing'[v] = writing[v]
      BY <1>a, <2>1, <2>5
    <3>2. Spared(v, d)
      BY <2>1, <2>2, <2>3, <2>5, <3>1 DEF Spared
    <3>3. QED
      BY <1>b, <3>2, StaysSafe
  <2>6. QED
    BY <2>4, <2>5
<1>4. ASSUME NEW s \in Sweepers, Sweep(s) PROVE Safe(v, d)'
  <2>1. UNCHANGED writing
    BY <1>4, SweeperTakesAway
  <2>2. ASSUME d \in dirs, ~Ripe(age[d]), ~Marked(d)
        PROVE  /\ d \in dirs' /\ age'[d] = age[d] /\ ~Marked(d)'
               /\ \A w \in temps : writing[w].dir = d => w \in temps'
    BY <1>4, <2>2, SweepsMarkTheRipe, UnmarkedUntouched
  <2>3. Spared(v, d)
    BY <2>1, <2>2 DEF Spared
  <2>4. QED
    BY <1>b, <2>3, StaysSafe
<1>5. CASE Tick
  <2>1. /\ UNCHANGED <<dirs, temps>>
        /\ writing'[v].at = writing[v].at /\ writing'[v].dir = writing[v].dir
        /\ writing[v].risk => writing'[v].risk
        /\ writing[v].at # "idle" /\ Ripe(age'[writing[v].dir]) => writing'[v].risk
    BY <1>5, TickGives
  <2>2. \A s \in Sweepers : \/ sweep'[s] = sweep[s]
                            \/ sweep'[s].doomed = {} /\ sweep'[s].seen = {}
    BY <1>5, TickGives
  <2>3. Marked(d)' => Marked(d)
    BY <2>2 DEF Marked
  <2>4. Spared(v, d)
    BY <2>1, <2>3 DEF Spared
  <2>5. QED
    BY <1>b, <2>4, StaysSafe
<1>6. CASE UNCHANGED vars
  <2>1. UNCHANGED <<dirs, temps, age, writing, sweep>>
    BY <1>6 DEF vars
  <2>2. QED
    BY <1>b, <2>1 DEF Safe, Marked
<1>7. QED
  BY <1>1, <1>2, <1>3, <1>4, <1>5, <1>6 DEF Next, BeginPut, BeginLink, Write

\* A put or a link into a directory no sweep can be after finds its directory
\* and its temporary file where it left them, whatever the sweeps do.
THEOREM WritesComplete == Spec => []YoungWritesComplete
<1>1. Init => Shape /\ AllSafe
  <2>1. Init => \A w \in Writers : writing[w].at = "idle"
    BY DEF Init, NoWrite
  <2>2. QED
    BY <2>1, InitShape DEF AllSafe, Safe
<1>2. Shape /\ AllSafe /\ [Next]_vars => (Shape /\ AllSafe)'
  BY NextShape, NextSafe
<1>3. Shape /\ AllSafe => YoungWritesComplete
  BY DEF Shape, AllSafe, Safe, YoungWritesComplete
<1>4. QED
  BY <1>1, <1>2, <1>3, PTL DEF Spec

-----------------------------------------------------------------------------
(* Weights.  The total is a fold over a set, of which every value is found by *)
(* induction on the set: it counts the units of weight.                       *)

\* Of some subsets of a finite set there is a minimal one.
LEMMA Smallest ==
  ASSUME NEW S, IsFiniteSet(S), NEW T, T \subseteq SUBSET S, T # {}
  PROVE  \E s \in T : \A x \in s : s \ {x} \notin T
<1> DEFINE R == StrictSubsetOrdering(S)
           F == FiniteSubsetsOf(S)
<1>1. IsWellFoundedOn(R, F)
  BY FS_StrictSubsetOrderingWellFounded
<1>2. \A s \in T : IsFiniteSet(s)
  BY FS_Subset
<1>3. T \subseteq F
  BY <1>2 DEF FiniteSubsetsOf
<1>4. ASSUME NEW s \in T, NEW x \in s PROVE <<s \ {x}, s>> \in R
  <2>1. s \ {x} \in SUBSET S /\ s \in SUBSET S /\ s \ {x} # s
    BY <1>4
  <2>2. QED
    BY <2>1 DEF StrictSubsetOrdering
<1> HIDE DEF R, F
<1>5. PICK s \in T : \A t \in T : ~(<<t, s>> \in R)
  BY <1>1, <1>3, WFMin
<1>6. QED
  BY <1>4, <1>5

\* The total weight counts the units of weight there are.
Units(S, w) == {u \in S \X (Nat \ {0}) : u[2] <= w[u[1]]}

LEMMA OneMore ==
  ASSUME NEW S, IsFiniteSet(S), NEW w, \A d \in S : w[d] \in Nat,
         NEW x \in S, IsFiniteSet(Units(S \ {x}, w))
  PROVE  /\ IsFiniteSet(Units(S, w))
         /\ Cardinality(Units(S, w)) = w[x] + Cardinality(Units(S \ {x}, w))
<1> DEFINE A == {x} \X (1..w[x])
           B == Units(S \ {x}, w)
<1>1. Units(S, w) = A \cup B
  BY DEF Units
<1>2. A \cap B = {}
  BY DEF Units
<1>3. IsFiniteSet(1..w[x]) /\ Cardinality(1..w[x]) = w[x]
  <2>1. w[x] \in Nat
    OBVIOUS
  <2>2. \A b \in Nat : /\ IsFiniteSet(1..b)
                       /\ Cardinality(1..b) = IF 1 > b THEN 0 ELSE b - 1 + 1
    BY FS_Interval
  <2>3. \A b \in Nat : (IF 1 > b THEN 0 ELSE b - 1 + 1) = b
    OBVIOUS
  <2>4. QED
    BY <2>1, <2>2, <2>3
<1>4. IsFiniteSet({x}) /\ Cardinality({x}) = 1
  BY FS_Singleton
<1>5. IsFiniteSet(A) /\ Cardinality(A) = Cardinality({x}) * Cardinality(1..w[x])
  BY <1>3, <1>4, FS_Product
<1>6. Cardinality(A) = w[x]
  BY <1>3, <1>4, <1>5
<1> HIDE DEF A, B
<1>7. IsFiniteSet(B)
  BY DEF B
<1>8. IsFiniteSet(A \cup B)
      /\ Cardinality(A \cup B) = Cardinality(A) + Cardinality(B) - Cardinality(A \cap B)
  BY <1>5, <1>7, FS_Union
<1>9. Cardinality(A \cap B) = 0
  BY <1>2, FS_EmptySet
<1>10. Cardinality(B) \in Nat
  BY <1>7, FS_CardinalityType
<1>11. QED
  BY <1>1, <1>6, <1>8, <1>9, <1>10 DEF B

LEMMA UnitsFinite ==
  ASSUME NEW S, IsFiniteSet(S), NEW w, \A d \in S : w[d] \in Nat
  PROVE  IsFiniteSet(Units(S, w))
<1> DEFINE T == {s \in SUBSET S : ~IsFiniteSet(Units(s, w))}
<1>1. SUFFICES ASSUME T # {} PROVE FALSE
  OBVIOUS
<1>2. PICK s \in T : \A x \in s : s \ {x} \notin T
  BY <1>1, Smallest
<1>3. s # {}
  <2>1. Units({}, w) = {}
    BY DEF Units
  <2>2. QED
    BY <2>1, FS_EmptySet
<1>4. PICK x \in s : TRUE
  BY <1>3
<1>5. IsFiniteSet(Units(s \ {x}, w))
  BY <1>2
<1>6. IsFiniteSet(s)
  BY FS_Subset
<1>7. IsFiniteSet(Units(s, w))
  BY <1>5, <1>6, OneMore
<1>8. QED
  BY <1>7

\* The fold, as the community modules define it.
Some(s) == CHOOSE x \in s : TRUE
Fold(S, w) == CHOOSE f : f = [s \in SUBSET S |-> IF s = {} THEN 0
                                                ELSE w[Some(s)] + f[s \ {Some(s)}]]

LEMMA TotalIsFold ==
  ASSUME NEW S, NEW w
  PROVE  TotalWeight(S, w) = Fold(S, w)[S]
BY DEF TotalWeight, MapThenSumSet, MapThenFoldSet, Fold, Some

\* The fold has a solution: the number of units.
LEMMA FoldUnfolds ==
  ASSUME NEW S, IsFiniteSet(S), NEW w, \A d \in S : w[d] \in Nat
  PROVE  \A s \in SUBSET S : Fold(S, w)[s] = IF s = {} THEN 0
                                            ELSE w[Some(s)] + Fold(S, w)[s \ {Some(s)}]
<1> DEFINE G == [s \in SUBSET S |-> Cardinality(Units(s, w))]
           Def(f, s) == IF s = {} THEN 0 ELSE w[Some(s)] + f[s \ {Some(s)}]
<1>1. ASSUME NEW s \in SUBSET S PROVE G[s] = Def(G, s)
  <2>1. CASE s = {}
    <3>1. Units({}, w) = {}
      BY DEF Units
    <3>2. QED
      BY <2>1, <3>1, FS_EmptySet
  <2>2. CASE s # {}
    <3>1. Some(s) \in s
      BY <2>2 DEF Some
    <3>2. s \ {Some(s)} \in SUBSET S
      OBVIOUS
    <3>3. IsFiniteSet(s) /\ IsFiniteSet(s \ {Some(s)})
      BY <3>2, FS_Subset
    <3>4. IsFiniteSet(Units(s \ {Some(s)}, w))
      BY <3>3, UnitsFinite
    <3>5. Cardinality(Units(s, w)) = w[Some(s)] + Cardinality(Units(s \ {Some(s)}, w))
      BY <3>1, <3>3, <3>4, OneMore
    <3>6. QED
      BY <2>2, <3>2, <3>5
  <2>3. QED
    BY <2>1, <2>2
<1>2. G = [s \in SUBSET S |-> Def(G, s)]
  BY <1>1
<1>3. Fold(S, w) = CHOOSE f : f = [s \in SUBSET S |-> Def(f, s)]
  BY DEF Fold
<1> HIDE DEF G
<1>4. Fold(S, w) = [s \in SUBSET S |-> Def(Fold(S, w), s)]
  BY <1>2, <1>3
<1>5. QED
  BY <1>4

\* What the fold adds up is the number of units.
LEMMA TotalCounts ==
  ASSUME NEW S, IsFiniteSet(S), NEW w, \A d \in S : w[d] \in Nat
  PROVE  TotalWeight(S, w) = Cardinality(Units(S, w))
<1> DEFINE f == Fold(S, w)
           T == {s \in SUBSET S : f[s] # Cardinality(Units(s, w))}
<1>1. \A s \in SUBSET S : f[s] = IF s = {} THEN 0 ELSE w[Some(s)] + f[s \ {Some(s)}]
  BY FoldUnfolds
<1> HIDE DEF f
<1>2. ASSUME T # {} PROVE FALSE
  <2>1. PICK s \in T : \A x \in s : s \ {x} \notin T
    BY <1>2, Smallest
  <2>2. s # {}
    <3>1. Units({}, w) = {}
      BY DEF Units
    <3>2. f[{}] = 0
      BY <1>1
    <3>3. QED
      BY <3>1, <3>2, FS_EmptySet
  <2>3. Some(s) \in s
    BY <2>2 DEF Some
  <2>4. f[s \ {Some(s)}] = Cardinality(Units(s \ {Some(s)}, w))
    BY <2>1, <2>3
  <2>5. IsFiniteSet(s) /\ IsFiniteSet(s \ {Some(s)})
    <3>1. s \ {Some(s)} \in SUBSET S
      OBVIOUS
    <3>2. QED
      BY <3>1, FS_Subset
  <2>6. IsFiniteSet(Units(s \ {Some(s)}, w))
    BY <2>5, UnitsFinite
  <2>7. Cardinality(Units(s, w)) = w[Some(s)] + Cardinality(Units(s \ {Some(s)}, w))
    BY <2>3, <2>5, <2>6, OneMore
  <2>8. f[s] = w[Some(s)] + f[s \ {Some(s)}]
    BY <1>1, <2>2
  <2>9. QED
    BY <2>4, <2>7, <2>8
<1>3. f[S] = Cardinality(Units(S, w))
  BY <1>2
<1>4. QED
  BY <1>3, TotalIsFold DEF f

\* A store that loses directories, or whose directories lose weight, weighs no more.
LEMMA WeighsNoMore ==
  ASSUME NEW X, IsFiniteSet(X), NEW Y, Y \subseteq X, NEW v, NEW w,
         \A d \in X : v[d] \in Nat, \A d \in Y : w[d] \in Nat /\ w[d] <= v[d]
  PROVE  /\ TotalWeight(X, v) \in Nat /\ TotalWeight(Y, w) \in Nat
         /\ TotalWeight(Y, w) <= TotalWeight(X, v)
<1>1. IsFiniteSet(Y)
  BY FS_Subset
<1>2. Units(Y, w) \subseteq Units(X, v)
  BY DEF Units
<1>3. IsFiniteSet(Units(X, v)) /\ IsFiniteSet(Units(Y, w))
  BY <1>1, UnitsFinite
<1>4. Cardinality(Units(Y, w)) <= Cardinality(Units(X, v))
  BY <1>2, <1>3, FS_Subset
<1>5. Cardinality(Units(X, v)) \in Nat /\ Cardinality(Units(Y, w)) \in Nat
  BY <1>3, FS_CardinalityType
<1>6. QED
  BY <1>1, <1>4, <1>5, TotalCounts
-----------------------------------------------------------------------------
(* The ceiling. *)

\* While nothing is written: what a sweep still measures is all there is but what
\* it passed over, and weighs no more than it found.
Counted(s) ==
  /\ dirs \subseteq sweep[s].todo \cup sweep[s].seen \cup sweep[s].missed
                      \cup (IF sweep[s].at = "measure" THEN {sweep[s].dir} ELSE {})
  /\ \A d \in sweep[s].seen : /\ Weight[d] <= sweep[s].sizes[d]
                              /\ sweep[s].ages[d] < MinAge => d \in sweep[s].young
  /\ sweep[s].at = "measure" => Contents(sweep[s].dir) \subseteq sweep[s].left

\* What it has decided to leave is under the ceiling or too young, and the
\* directory it is emptying holds nothing it has not listed.
Remaining(s) == (dirs \ sweep[s].doomed) \ sweep[s].missed
Cleared(s) ==
  TotalWeight(Remaining(s), Weight) <= MaxBytes \/ Remaining(s) \subseteq sweep[s].young
Emptying(s) == sweep[s].at = "unlink" => Contents(sweep[s].dir) \subseteq sweep[s].left

AtWork(s) ==
  /\ sweep[s].at \in {"usage", "measure"} => Counted(s)
  /\ sweep[s].at \in {"next", "unlink"} => Cleared(s) /\ Emptying(s)
Clearing == \A s \in Sweepers : sweep[s].quiet => AtWork(s)

\* A store that loses directories and files weighs no more.
LEMMA LighterStore ==
  ASSUME Shape, Shape', \A d \in Dirs : Contents(d)' \subseteq Contents(d)
  PROVE  \A d \in Dirs : Weight'[d] \in Nat /\ Weight[d] \in Nat /\ Weight'[d] <= Weight[d]
<1> SUFFICES ASSUME NEW d \in Dirs
             PROVE  Weight'[d] \in Nat /\ Weight[d] \in Nat /\ Weight'[d] <= Weight[d]
  OBVIOUS
<1>1. /\ IsFiniteSet(Contents(d)) /\ Weight[d] = Cardinality(Contents(d)) /\ Weight[d] \in Nat
  BY ContentsFinite DEF Shape, TypeOK
<1>2. Weight'[d] = Cardinality(Contents(d)')
  BY DEF Weight
<1>3. Contents(d)' \subseteq Contents(d)
  OBVIOUS
<1>4. IsFiniteSet(Contents(d)') /\ Cardinality(Contents(d)') <= Cardinality(Contents(d))
  BY <1>1, <1>3, FS_Subset
<1>5. Cardinality(Contents(d)') \in Nat
  BY <1>4, FS_CardinalityType
<1>6. QED
  BY <1>1, <1>2, <1>4, <1>5

\* Of a set of directories under the ceiling what is left stays under it.
LEMMA StaysUnder ==
  ASSUME Shape, Shape', \A d \in Dirs : Contents(d)' \subseteq Contents(d),
         NEW X \in SUBSET Dirs, NEW Y \in SUBSET X, TotalWeight(X, Weight) <= MaxBytes
  PROVE  TotalWeight(Y, Weight') <= MaxBytes
<1> DEFINE v == Weight
           w == Weight'
<1>1. \A d \in Dirs : w[d] \in Nat /\ v[d] \in Nat /\ w[d] <= v[d]
  BY LighterStore
<1>2. IsFiniteSet(X)
  BY StoreAssumption, FS_Subset
<1>3. TotalWeight(X, v) <= MaxBytes
  OBVIOUS
<1> HIDE DEF v, w
<1>4. /\ TotalWeight(X, v) \in Nat /\ TotalWeight(Y, w) \in Nat
      /\ TotalWeight(Y, w) <= TotalWeight(X, v)
  BY <1>1, <1>2, WeighsNoMore
<1>5. TotalWeight(Y, w) <= MaxBytes
  BY <1>3, <1>4, ReapAssumption
<1>6. QED
  BY <1>5 DEF w

\* Once under the ceiling a sweep stays there: its own unlinking and that of the
\* others only takes weight away.
LEMMA StaysCleared ==
  ASSUME Shape, Shape', NEW q \in Sweepers, Cleared(q),
         \A d \in Dirs : Contents(d)' \subseteq Contents(d),
         NEW Y, Y \subseteq Remaining(q)
  PROVE  TotalWeight(Y, Weight') <= MaxBytes \/ Y \subseteq sweep[q].young
<1>1. Remaining(q) \in SUBSET Dirs
  BY DEF Remaining, Shape, TypeOK
<1>2. CASE Remaining(q) \subseteq sweep[q].young
  BY <1>2
<1>3. CASE TotalWeight(Remaining(q), Weight) <= MaxBytes
  BY <1>1, <1>3, StaysUnder
<1>4. QED
  BY <1>2, <1>3 DEF Cleared

\* A sweep that does not step stays at work as it is while others only take away.
LEMMA OthersOnlyHelp ==
  ASSUME Shape, Shape', NEW q \in Sweepers, AtWork(q), sweep'[q] = sweep[q], dirs' \subseteq dirs,
         \A d \in Dirs : Contents(d)' \subseteq Contents(d)
  PROVE  AtWork(q)'
<1>1. sweep[q].at \in {"measure", "unlink"} => sweep[q].dir \in Dirs
  BY DEF Shape
<1>2. ASSUME NEW d \in Dirs, Contents(d) \subseteq sweep[q].left
      PROVE  Contents(d)' \subseteq sweep[q].left
  BY <1>2
<1>3. sweep[q].at \in {"measure", "unlink"} /\ Contents(sweep[q].dir) \subseteq sweep[q].left
        => (Contents(sweep[q].dir) \subseteq sweep[q].left)'
  <2>1. SUFFICES ASSUME sweep[q].at \in {"measure", "unlink"},
                        Contents(sweep[q].dir) \subseteq sweep[q].left
                 PROVE  (Contents(sweep[q].dir) \subseteq sweep[q].left)'
    OBVIOUS
  <2>2. PICK d \in Dirs : d = sweep[q].dir
    BY <1>1, <2>1
  <2>3. Contents(d)' \subseteq sweep[q].left
    BY <1>2, <2>1, <2>2
  <2>4. QED
    BY <2>2, <2>3 DEF Contents
<1>4. CASE sweep[q].at \in {"usage", "measure"}
  <2>1. Counted(q)
    BY <1>4 DEF AtWork
  <2>2. sweep[q].seen \subseteq Dirs /\ sweep[q].sizes \in [Dirs -> Nat]
    BY DEF Shape, Sweeps
  <2>3. \A d \in sweep'[q].seen : /\ Weight'[d] <= sweep'[q].sizes[d]
                                  /\ sweep'[q].ages[d] < MinAge => d \in sweep'[q].young
    <3>1. ASSUME NEW d \in sweep[q].seen
          PROVE  /\ Weight'[d] <= sweep[q].sizes[d]
                 /\ sweep[q].ages[d] < MinAge => d \in sweep[q].young
      <4>1. Weight'[d] \in Nat /\ Weight[d] \in Nat /\ Weight'[d] <= Weight[d]
        BY <2>2, LighterStore
      <4>2. Weight[d] <= sweep[q].sizes[d] /\ sweep[q].sizes[d] \in Nat
        BY <2>1, <2>2 DEF Counted
      <4>3. QED
        BY <2>1, <4>1, <4>2 DEF Counted
    <3>2. QED
      BY <3>1
  <2>4. Counted(q)'
    BY <1>3, <2>1, <2>3 DEF Counted
  <2>5. QED
    BY <1>4, <2>4 DEF AtWork
<1>5. CASE sweep[q].at \in {"next", "unlink"}
  <2>1. Cleared(q) /\ Emptying(q)
    BY <1>5 DEF AtWork
  <2>2. Remaining(q)' \subseteq Remaining(q)
    BY DEF Remaining
  <2>3. Cleared(q)'
    BY <2>1, <2>2, StaysCleared DEF Cleared
  <2>4. Emptying(q)'
    BY <1>3, <2>1 DEF Emptying
  <2>5. QED
    BY <1>5, <2>3, <2>4 DEF AtWork
<1>6. CASE sweep[q].at \notin {"usage", "measure", "next", "unlink"}
  BY <1>6 DEF AtWork
<1>7. QED
  BY <1>4, <1>5, <1>6

\* What a sweep leaves when it ends.
Left(s) ==
  LET rest == dirs' \ sweep[s].missed
  IN  TotalWeight(rest, Weight') <= MaxBytes \/ rest \subseteq sweep[s].young

\* Measuring a directory: it is counted, or passed over.
LEMMA MeasureCounts ==
  ASSUME Shape, Shape', NEW s \in Sweepers, MeasureDir(s), Counted(s)
  PROVE  Counted(s)'
<1> DEFINE d == sweep[s].dir
<1>1. /\ OneSweep(s) /\ UNCHANGED <<dirs, files, temps, age, fresh, writing, writes>>
      /\ sweep[s].at = "measure" /\ d \in Dirs /\ sweep'[s].at = "usage"
      /\ sweep'[s].todo = sweep[s].todo
      /\ \/ /\ sweep'[s].seen = sweep[s].seen \cup {d} /\ sweep'[s].missed = sweep[s].missed
            /\ sweep'[s].ages = [sweep[s].ages EXCEPT ![d] = age[d]]
            /\ sweep'[s].sizes = [sweep[s].sizes EXCEPT ![d] = Cardinality(sweep[s].left)]
            /\ sweep[s].young \subseteq sweep'[s].young
            /\ age[d] < MinAge => d \in sweep'[s].young
         \/ /\ sweep'[s].seen = sweep[s].seen /\ sweep'[s].missed = sweep[s].missed \cup {d}
            /\ sweep'[s].ages = sweep[s].ages /\ sweep'[s].sizes = sweep[s].sizes
            /\ sweep'[s].young = sweep[s].young
  BY MeasureDirGives
<1>2. /\ sweep[s].ages \in [Dirs -> 0..AgeCap] /\ sweep[s].sizes \in [Dirs -> Nat]
      /\ sweep[s].seen \subseteq Dirs /\ sweep[s].left \subseteq Names \cup Writers
  BY DEF Shape, Sweeps
<1>3. Weight[d] <= Cardinality(sweep[s].left)
  <2>1. /\ IsFiniteSet(Contents(d)) /\ Weight[d] = Cardinality(Contents(d)) /\ Weight[d] \in Nat
    BY <1>1, ContentsFinite DEF Shape, TypeOK
  <2>2. IsFiniteSet(Names \cup Writers)
    BY StoreAssumption, FS_Union
  <2>3. IsFiniteSet(sweep[s].left)
    BY <1>2, <2>2, FS_Subset
  <2>4. Contents(d) \subseteq sweep[s].left
    BY <1>1 DEF Counted
  <2>5. QED
    BY <2>1, <2>3, <2>4, FS_Subset
<1>4. Weight' = Weight
  BY <1>1 DEF Weight, Contents
<1>5. /\ dirs \subseteq sweep[s].todo \cup sweep[s].seen \cup sweep[s].missed \cup {d}
      /\ \A e \in sweep[s].seen : /\ Weight[e] <= sweep[s].sizes[e]
                                  /\ sweep[s].ages[e] < MinAge => e \in sweep[s].young
  BY <1>1 DEF Counted
<1>6. dirs' \subseteq sweep'[s].todo \cup sweep'[s].seen \cup sweep'[s].missed
  BY <1>1, <1>5
<1>7. ASSUME NEW e \in sweep'[s].seen
      PROVE  /\ Weight'[e] <= sweep'[s].sizes[e]
             /\ sweep'[s].ages[e] < MinAge => e \in sweep'[s].young
  <2>1. CASE e = d /\ sweep'[s].sizes = [sweep[s].sizes EXCEPT ![d] = Cardinality(sweep[s].left)]
    BY <1>1, <1>2, <1>3, <1>4, <1>5, <1>7, <2>1
  <2>2. CASE ~(e = d /\ sweep'[s].sizes = [sweep[s].sizes EXCEPT ![d] = Cardinality(sweep[s].left)])
    BY <1>1, <1>2, <1>4, <1>5, <1>7, <2>2
  <2>3. QED
    BY <2>1, <2>2
<1>8. QED
  BY <1>1, <1>6, <1>7 DEF Counted

\* The decision: what it leaves of what was measured.
LEMMA DecisionLeaves ==
  ASSUME Shape, Shape', NEW s \in Sweepers, Counted(s),
         sweep[s].at = "usage", sweep[s].todo = {},
         NEW D \in Doomed(sweep[s].seen, sweep[s].ages, sweep[s].sizes),
         UNCHANGED <<files, temps, writing>>
  PROVE  LET rest == (dirs \ D) \ sweep[s].missed
         IN  TotalWeight(rest, Weight') <= MaxBytes \/ rest \subseteq sweep[s].young
<1> DEFINE rest == (dirs \ D) \ sweep[s].missed
           X == sweep[s].seen \ D
           sizes == sweep[s].sizes
           w == Weight'
<1>1. sweep[s].seen \subseteq Dirs /\ sizes \in [Dirs -> Nat]
  BY DEF Shape, Sweeps
<1>2. rest \subseteq X
  BY DEF Counted
<1>3. \A d \in Dirs : w[d] \in Nat /\ w[d] = Weight[d]
  <2>1. Weight' = Weight
    BY DEF Weight, Contents
  <2>2. \A d \in Dirs : Weight[d] \in Nat
    BY ContentsFinite DEF Shape, TypeOK
  <2>3. QED
    BY <2>1, <2>2
<1>4. \A d \in X : w[d] <= sizes[d]
  BY <1>1, <1>3 DEF Counted
<1>5. CASE \A d \in X : sweep[s].ages[d] < MinAge
  <2>1. X \subseteq sweep[s].young
    BY <1>5 DEF Counted
  <2>2. QED
    BY <1>2, <2>1
<1>6. CASE TotalWeight(X, sizes) <= MaxBytes
  <2>1. IsFiniteSet(X)
    BY <1>1, StoreAssumption, FS_Subset
  <2>2. (\A d \in X : sizes[d] \in Nat) /\ \A d \in rest : w[d] \in Nat /\ w[d] <= sizes[d]
    BY <1>1, <1>2, <1>3, <1>4
  <2> HIDE DEF X, rest, sizes, w
  <2>3. /\ TotalWeight(X, sizes) \in Nat /\ TotalWeight(rest, w) \in Nat
        /\ TotalWeight(rest, w) <= TotalWeight(X, sizes)
    BY <1>2, <2>1, <2>2, WeighsNoMore
  <2>4. TotalWeight(rest, w) <= MaxBytes
    BY <1>6, <2>3, ReapAssumption
  <2>5. QED
    BY <2>4 DEF rest, w
<1>7. QED
  BY <1>5, <1>6, DecisionClears DEF X, sizes

\* The end of one directory leaves no more than there was to be left, once it is
\* empty or gone.
LEMMA FinishedLeaves ==
  ASSUME Shape, Shape', NEW s \in Sweepers, NEW d \in Dirs, Finished(s, d), Cleared(s),
         \A e \in Dirs : Contents(e)' \subseteq Contents(e), dirs' \subseteq dirs \ {d}
  PROVE  \/ sweep'[s].at = "idle" /\ Left(s)
         \/ sweep'[s].at = "next" /\ Cleared(s)'
<1>1. /\ sweep'[s].doomed = sweep[s].doomed \ {d}
      /\ \/ sweep'[s].at = "idle" /\ sweep'[s].doomed = {}
         \/ /\ sweep'[s].at = "next" /\ sweep'[s].missed = sweep[s].missed
            /\ sweep'[s].young = sweep[s].young
  BY FinishedGives
<1>2. CASE sweep'[s].at = "idle" /\ sweep'[s].doomed = {}
  <2>1. dirs' \ sweep[s].missed \subseteq Remaining(s)
    BY <1>1, <1>2 DEF Remaining
  <2>2. QED
    BY <1>2, <2>1, StaysCleared DEF Left
<1>3. CASE /\ sweep'[s].at = "next" /\ sweep'[s].missed = sweep[s].missed
           /\ sweep'[s].young = sweep[s].young
  <2>1. Remaining(s)' \subseteq Remaining(s)
    BY <1>1, <1>3 DEF Remaining
  <2>2. TotalWeight(Remaining(s)', Weight') <= MaxBytes \/ Remaining(s)' \subseteq sweep[s].young
    BY <2>1, StaysCleared
  <2>3. QED
    BY <1>3, <2>2 DEF Cleared
<1>4. QED
  BY <1>1, <1>2, <1>3

\* Each step of a sweeper leaves it at work as it should be, or done.
LEMMA StepClears ==
  ASSUME Shape, NEW s \in Sweepers, Sweep(s), sweep[s].quiet, AtWork(s)
  PROVE  /\ sweep'[s].at # "idle" /\ sweep'[s].quiet => AtWork(s)'
         /\ sweep'[s].at = "idle" => Left(s)
<1>a. /\ Shape' /\ OneSweep(s) /\ dirs' \subseteq dirs
      /\ \A d \in Dirs : Contents(d)' \subseteq Contents(d)
  BY SweeperTakesAway
<1>1. CASE ListRoot(s)
  <2>1. /\ sweep'[s].at = "usage" /\ sweep'[s].todo = dirs /\ sweep'[s].seen = {} /\ UNCHANGED dirs
    BY <1>1, ListRootGives
  <2>2. Counted(s)'
    BY <2>1 DEF Counted
  <2>3. QED
    BY <2>1, <2>2 DEF AtWork
<1>2. ASSUME NEW d \in Dirs, OpenDir(s, d)
      PROVE  sweep'[s].at # "idle" /\ AtWork(s)'
  <2>1. /\ sweep[s].at = "usage" /\ UNCHANGED <<dirs, files, temps, writing>>
        /\ sweep'[s].todo = sweep[s].todo \ {d}
        /\ sweep'[s].seen = sweep[s].seen /\ sweep'[s].ages = sweep[s].ages
        /\ sweep'[s].sizes = sweep[s].sizes /\ sweep'[s].young = sweep[s].young
        /\ \/ /\ sweep'[s].at = "measure" /\ sweep'[s].dir = d
              /\ sweep'[s].left = Contents(d) /\ sweep'[s].missed = sweep[s].missed
           \/ /\ sweep'[s].at = "usage" /\ sweep'[s].missed = sweep[s].missed \cup {d}
    BY <1>2, OpenDirGives
  <2>2. Weight' = Weight /\ Contents(d)' = Contents(d)
    BY <2>1 DEF Weight, Contents
  <2>3. Counted(s)
    BY <2>1 DEF AtWork
  <2>4. dirs' \subseteq sweep'[s].todo \cup sweep'[s].seen \cup sweep'[s].missed
                          \cup (IF sweep'[s].at = "measure" THEN {sweep'[s].dir} ELSE {})
    BY <2>1, <2>3 DEF Counted
  <2>5. \A e \in sweep'[s].seen : /\ Weight'[e] <= sweep'[s].sizes[e]
                                  /\ sweep'[s].ages[e] < MinAge => e \in sweep'[s].young
    BY <2>1, <2>2, <2>3 DEF Counted
  <2>6. sweep'[s].at = "measure" => (Contents(sweep[s].dir) \subseteq sweep[s].left)'
    BY <2>1, <2>2 DEF Contents
  <2>7. Counted(s)'
    BY <2>4, <2>5, <2>6 DEF Counted
  <2>8. QED
    BY <2>1, <2>7 DEF AtWork
<1>3. CASE MeasureDir(s)
  <2>1. sweep[s].at = "measure" /\ sweep'[s].at = "usage"
    BY <1>3, MeasureDirGives
  <2>2. Counted(s)'
    BY <1>a, <1>3, <2>1, MeasureCounts DEF AtWork
  <2>3. QED
    BY <2>1, <2>2 DEF AtWork
<1>4. CASE Decide(s)
  <2>1. /\ UNCHANGED <<dirs, files, temps, writing>>
        /\ sweep[s].at = "usage" /\ sweep[s].todo = {}
    BY <1>4, DecideGives
  <2>2. PICK D \in Doomed(sweep[s].seen, sweep[s].ages, sweep[s].sizes) :
          /\ sweep'[s].doomed = D
          /\ IF D = {} THEN sweep'[s].at = "idle"
             ELSE /\ sweep'[s].at = "next" /\ sweep'[s].missed = sweep[s].missed
                  /\ sweep'[s].young = sweep[s].young /\ sweep'[s].quiet = sweep[s].quiet
    BY <1>4, DecideGives
  <2>3. Counted(s)
    BY <2>1 DEF AtWork
  <2>4. \/ TotalWeight((dirs \ D) \ sweep[s].missed, Weight') <= MaxBytes
        \/ (dirs \ D) \ sweep[s].missed \subseteq sweep[s].young
    BY <1>a, <2>1, <2>3, DecisionLeaves
  <2>5. CASE D = {}
    <3>1. (dirs \ D) \ sweep[s].missed = dirs' \ sweep[s].missed
      BY <2>1, <2>5
    <3>2. Left(s)
      BY <2>4, <3>1 DEF Left
    <3>3. QED
      BY <2>2, <2>5, <3>2
  <2>6. CASE D # {}
    <3>1. Remaining(s)' = (dirs \ D) \ sweep[s].missed
      BY <2>1, <2>2, <2>6 DEF Remaining
    <3>2. Cleared(s)'
      BY <2>2, <2>4, <2>6, <3>1 DEF Cleared
    <3>3. Emptying(s)'
      BY <2>2, <2>6 DEF Emptying
    <3>4. QED
      BY <2>2, <2>6, <3>2, <3>3 DEF AtWork
  <2>7. QED
    BY <2>5, <2>6
<1>5. ASSUME NEW d \in Dirs, Finished(s, d), sweep[s].at \in {"next", "unlink"},
             dirs' \subseteq dirs \ {d}
      PROVE  /\ sweep'[s].at # "idle" => AtWork(s)'
             /\ sweep'[s].at = "idle" => Left(s)
  <2>1. Cleared(s)
    BY <1>5 DEF AtWork
  <2>2. \/ sweep'[s].at = "idle" /\ Left(s)
        \/ sweep'[s].at = "next" /\ Cleared(s)'
    BY <1>a, <1>5, <2>1, FinishedLeaves
  <2>3. QED
    BY <2>2 DEF AtWork, Emptying
<1>6. ASSUME NEW d \in Dirs, ListDir(s, d)
      PROVE  /\ sweep'[s].at # "idle" => AtWork(s)'
             /\ sweep'[s].at = "idle" => Left(s)
  <2>1. sweep[s].at = "next" /\ UNCHANGED <<dirs, files, temps, writing>>
    BY <1>6 DEF ListDir
  <2>2. CASE d \notin dirs
    <3>1. Finished(s, d) /\ dirs' \subseteq dirs \ {d}
      BY <1>6, <2>1, <2>2 DEF ListDir
    <3>2. QED
      BY <1>5, <2>1, <3>1
  <2>3. CASE d \in dirs
    <3>1. /\ sweep'[s].at = "unlink" /\ sweep'[s].dir = d /\ sweep'[s].left = Contents(d)
          /\ sweep'[s].doomed = sweep[s].doomed /\ sweep'[s].missed = sweep[s].missed
          /\ sweep'[s].young = sweep[s].young
      BY <1>6, <2>3, ListDirGives
    <3>2. Remaining(s)' \subseteq Remaining(s)
      BY <2>1, <3>1 DEF Remaining
    <3>3. Cleared(s)
      BY <2>1 DEF AtWork
    <3>4. Cleared(s)'
      BY <1>a, <3>1, <3>2, <3>3, StaysCleared DEF Cleared
    <3>5. Emptying(s)'
      BY <2>1, <3>1 DEF Emptying, Contents
    <3>6. QED
      BY <3>1, <3>4, <3>5 DEF AtWork
  <2>4. QED
    BY <2>2, <2>3
<1>7. ASSUME NEW x \in Names \cup Writers, Unlink(s, x)
      PROVE  sweep'[s].at # "idle" /\ AtWork(s)'
  <2> DEFINE d == sweep[s].dir
  <2>1. /\ sweep[s].at = "unlink" /\ d \in Dirs /\ sweep'[s].at = "unlink" /\ sweep'[s].dir = d
        /\ sweep'[s].left = sweep[s].left \ {x} /\ sweep'[s].doomed = sweep[s].doomed
        /\ sweep'[s].missed = sweep[s].missed /\ sweep'[s].young = sweep[s].young
    BY <1>7, UnlinkGives
  <2>2. UNCHANGED <<dirs, writing>>
    BY <1>7 DEF Unlink
  <2>3. Cleared(s) /\ Emptying(s)
    BY <2>1 DEF AtWork
  <2>4. Remaining(s)' \subseteq Remaining(s)
    BY <2>1, <2>2 DEF Remaining
  <2>5. Cleared(s)'
    BY <1>a, <2>1, <2>3, <2>4, StaysCleared DEF Cleared
  <2>6. files'[d] \cup {w \in temps' : writing'[w].dir = d}
          \subseteq (files[d] \cup {w \in temps : writing[w].dir = d}) \ {x}
    <3>1. CASE x \in Contents(d)
      <4>1. files' = [files EXCEPT ![d] = @ \ {x}] /\ temps' = temps \ {x}
        BY <1>7, <3>1 DEF Unlink
      <4>2. files'[d] = files[d] \ {x}
        BY <2>1, <4>1 DEF Shape, TypeOK
      <4>3. QED
        BY <2>2, <4>1, <4>2
    <3>2. CASE x \notin Contents(d)
      <4>1. UNCHANGED <<files, temps>>
        BY <1>7, <3>2 DEF Unlink
      <4>2. QED
        BY <2>2, <3>2, <4>1 DEF Contents
    <3>3. QED
      BY <3>1, <3>2
  <2>7. files[d] \cup {w \in temps : writing[w].dir = d} \subseteq sweep[s].left
    BY <2>1, <2>3 DEF Emptying, Contents
  <2>8. Emptying(s)'
    BY <2>1, <2>6, <2>7 DEF Emptying, Contents
  <2>9. QED
    BY <2>1, <2>5, <2>8 DEF AtWork
<1>8. CASE RemoveDir(s)
  <2> DEFINE d == sweep[s].dir
  <2>1. sweep[s].at = "unlink" /\ sweep[s].left = {} /\ d \in Dirs /\ Finished(s, d)
    BY <1>8 DEF RemoveDir, Shape
  <2>2. Contents(d) = {}
    BY <2>1 DEF AtWork, Emptying
  <2>3. dirs' \subseteq dirs \ {d}
    BY <1>8, <2>2 DEF RemoveDir
  <2>4. QED
    BY <1>5, <2>1, <2>3
<1>9. QED
  BY <1>1, <1>2, <1>3, <1>4, <1>6, <1>7, <1>8 DEF Sweep

\* Of a sweep that something disturbed, the only quiet step is to the next sweep.
LEMMA QuietFromTheStart ==
  ASSUME Shape, NEW s \in Sweepers, Sweep(s), ~sweep[s].quiet, sweep'[s].quiet,
         sweep'[s].at # "idle"
  PROVE  AtWork(s)'
<1>1. CASE ListRoot(s)
  <2>1. /\ sweep'[s].at = "usage" /\ sweep'[s].todo = dirs /\ sweep'[s].seen = {} /\ UNCHANGED dirs
    BY <1>1, ListRootGives
  <2>2. Counted(s)'
    BY <2>1 DEF Counted
  <2>3. QED
    BY <2>1, <2>2 DEF AtWork
<1>2. ASSUME NEW d \in Dirs, OpenDir(s, d) PROVE FALSE
  BY <1>2, OpenDirGives
<1>3. ~MeasureDir(s)
  BY MeasureDirGives
<1>4. ~Decide(s)
  BY DecideGives
<1>5. ASSUME NEW d \in Dirs, Finished(s, d) PROVE FALSE
  BY <1>5, FinishedGives
<1>6. ASSUME NEW d \in Dirs, ListDir(s, d) PROVE FALSE
  BY <1>5, <1>6, ListDirGives DEF ListDir
<1>7. ASSUME NEW x, Unlink(s, x) PROVE FALSE
  BY <1>7, UnlinkGives
<1>8. ~RemoveDir(s)
  BY <1>5 DEF RemoveDir, Shape
<1>9. QED
  BY <1>1, <1>2, <1>3, <1>4, <1>6, <1>7, <1>8 DEF Sweep

LEMMA NextClearing == Shape /\ Clearing /\ [Next]_vars => Clearing'
<1> SUFFICES ASSUME Shape, Clearing, [Next]_vars PROVE Clearing'
  OBVIOUS
<1>a. Shape'
  BY NextShape
<1>1. CASE Disturb
  <2>1. ASSUME NEW s \in Sweepers, sweep'[s].quiet PROVE AtWork(s)'
    <3>1. sweep'[s].at = sweep[s].at /\ sweep[s].at \in Resting
      BY <1>1, <2>1, Disturbed DEF Same
    <3>2. QED
      BY <3>1 DEF AtWork, Resting
  <2>2. QED
    BY <2>1 DEF Clearing
<1>2. ASSUME NEW s \in Sweepers, Sweep(s) PROVE Clearing'
  <2>1. /\ dirs' \subseteq dirs /\ \A d \in Dirs : Contents(d)' \subseteq Contents(d)
        /\ OneSweep(s)
    BY <1>2, SweeperTakesAway
  <2>2. ASSUME NEW q \in Sweepers \ {s}, sweep'[q].quiet PROVE AtWork(q)'
    <3>1. sweep'[q] = sweep[q]
      BY <2>1 DEF OneSweep
    <3>2. AtWork(q)
      BY <2>2, <3>1 DEF Clearing
    <3>3. QED
      BY <1>a, <2>1, <3>1, <3>2, OthersOnlyHelp
  <2>3. ASSUME sweep'[s].quiet PROVE AtWork(s)'
    <3>1. CASE sweep'[s].at = "idle"
      BY <3>1 DEF AtWork
    <3>2. CASE sweep[s].quiet /\ sweep'[s].at # "idle"
      BY <1>2, <2>3, <3>2, StepClears DEF Clearing
    <3>3. CASE ~sweep[s].quiet /\ sweep'[s].at # "idle"
      BY <1>2, <2>3, <3>3, QuietFromTheStart
    <3>4. QED
      BY <3>1, <3>2, <3>3
  <2>4. QED
    BY <2>2, <2>3 DEF Clearing
<1>3. CASE Tick
  <2>1. /\ UNCHANGED <<dirs, files, temps>>
        /\ \A w \in Writers : writing'[w].dir = writing[w].dir
        /\ \A s \in Sweepers : sweep'[s] = sweep[s] \/ sweep'[s].at = "due"
    BY <1>3, TickGives
  <2>2. \A d \in Dirs : Contents(d)' \subseteq Contents(d)
    BY <2>1 DEF Contents, Shape, TypeOK
  <2>3. ASSUME NEW s \in Sweepers, sweep'[s].quiet PROVE AtWork(s)'
    <3>1. CASE sweep'[s].at = "due"
      BY <3>1 DEF AtWork
    <3>2. CASE sweep'[s] = sweep[s]
      <4>1. AtWork(s)
        BY <2>3, <3>2 DEF Clearing
      <4>2. QED
        BY <1>a, <2>1, <2>2, <3>2, <4>1, OthersOnlyHelp
    <3>3. QED
      BY <2>1, <3>1, <3>2
  <2>4. QED
    BY <2>3 DEF Clearing
<1>4. CASE UNCHANGED vars
  <2>1. UNCHANGED <<dirs, files, temps, writing, sweep>>
    BY <1>4 DEF vars
  <2>2. \A d \in Dirs : Contents(d)' \subseteq Contents(d)
    BY <2>1 DEF Contents
  <2>3. ASSUME NEW s \in Sweepers, sweep'[s].quiet PROVE AtWork(s)'
    BY <1>a, <2>1, <2>2, <2>3, OthersOnlyHelp DEF Clearing
  <2>4. QED
    BY <2>3 DEF Clearing
<1>5. QED
  BY <1>1, <1>2, <1>3, <1>4
     DEF Next, BeginPut, BeginLink, MakeDir, Write, WriteTemp, Replace, LinkFile

\* A sweep nothing wrote during is at work as it should be when it ends.
LEMMA EndsCleared ==
  ASSUME Shape, Clearing, [Next]_vars, NEW s \in Sweepers,
         sweep[s].at # "idle", sweep'[s].at = "idle", sweep[s].quiet
  PROVE  Left(s)
<1>1. ~Disturb
  BY Disturbed DEF Same
<1>2. \A q \in Sweepers \ {s} : ~Sweep(q)
  BY SweeperTakesAway DEF OneSweep
<1>3. ~Tick
  BY TickGives
<1>4. Sweep(s)
  BY <1>1, <1>2, <1>3 DEF Next, BeginPut, BeginLink, MakeDir, Write, WriteTemp, Replace, LinkFile,
                          vars
<1>5. QED
  BY <1>4, StepClears DEF Clearing

\* A sweep during which nothing was written ends with what it measured under the
\* ceiling, or with nothing of it but directories it found too young, whatever
\* the other sweeps, the clock and their removals of the same directories do
\* meanwhile; only what it passed over, because it was being taken apart, is not
\* counted.
THEOREM CeilingRestored == Spec => SweepRestoresCeiling
<1> DEFINE A == \A s \in Sweepers :
                  LET rest == dirs' \ sweep[s].missed IN
                  sweep[s].at # "idle" /\ sweep'[s].at = "idle" /\ sweep[s].quiet
                    => TotalWeight(rest, Weight') <= MaxBytes \/ rest \subseteq sweep[s].young
<1>1. Init => Shape /\ Clearing
  <2>1. Init => \A s \in Sweepers : sweep[s].at = "idle"
    BY NoSweepIsOne DEF Init
  <2>2. QED
    BY <2>1, InitShape DEF Clearing, AtWork
<1>2. Shape /\ Clearing /\ [Next]_vars => (Shape /\ Clearing)'
  BY NextShape, NextClearing
<1>3. Shape /\ Clearing /\ [Next]_vars => A
  BY EndsCleared DEF Left
<1> HIDE DEF A
<1>4. Spec => [][A]_vars
  BY <1>1, <1>2, <1>3, PTL DEF Spec
<1>5. QED
  BY <1>4 DEF SweepRestoresCeiling, A
=============================================================================
