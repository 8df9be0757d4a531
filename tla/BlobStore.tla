------------------------------- MODULE BlobStore -------------------------------
(***************************************************************************)
(* The blob store on a shared disk: src/blobs.py called straight from web  *)
(* handlers and worker threads (no DWI_BLOB_STORE_URL).  A put is a mkdir, *)
(* a temporary file and a rename; a link is a mkdir and a hard link; a     *)
(* sweep lists the store, lists and stats its directories one by one, and  *)
(* takes those it dooms away with one rmtree after another.  Nothing holds *)
(* a lock, so all of these interleave.                                     *)
(***************************************************************************)
EXTENDS Reaping

CONSTANTS
  Dirs,     \* job ids, each a directory of the store
  Names,    \* file names inside a directory
  Writers,  \* threads that put and link
  Sweepers, \* threads that run sweep_blobs
  Nowhere,  \* no directory
  MaxWrites \* bound: writes started in one behaviour

ASSUME StoreAssumption ==
  /\ Nowhere \notin Dirs /\ Writers \cap Names = {} /\ MaxWrites \in Nat
  /\ IsFiniteSet(Dirs) /\ IsFiniteSet(Names) /\ IsFiniteSet(Writers)

AgeCap == BlobTtl + 1

VARIABLES
  dirs,    \* the directories that exist
  files,   \* the complete files in each
  temps,   \* writers whose temporary file exists
  age,     \* ticks since each directory's mtime moved
  fresh,   \* ticks since a write last completed in it (history)
  writing, \* what each writer is doing
  sweep,   \* what each sweeper is doing
  writes   \* writes started (history, bounded by MaxWrites)

vars == <<dirs, files, temps, age, fresh, writing, sweep, writes>>

\* `risk`, of a write, is history, and so are the last three fields of a sweep.
NoWrite == [at |-> "idle", dir |-> Nowhere, name |-> Nowhere, from |-> Nowhere, risk |-> FALSE]
NoSweep ==
  [at |-> "idle", todo |-> {}, seen |-> {}, ages |-> [d \in Dirs |-> 0],
   sizes |-> [d \in Dirs |-> 0], dir |-> Nowhere, left |-> {}, doomed |-> {}, evicted |-> {},
   missed |-> {}, young |-> {}, quiet |-> TRUE]

\* What a directory holds: files by name, temporary files by their writer.
Contents(d) == files[d] \cup {w \in temps : writing[w].dir = d}
Weight == [d \in Dirs |-> Cardinality(Contents(d))]

\* A directory this old may be dropped, one way or the other.
Ripe(a) == a >= MinAge \/ a > BlobTtl
\* A sweep that is under way has marked it, or has measured it and will.
Marked(d) ==
  \E s \in Sweepers : d \in sweep[s].doomed \/ (d \in sweep[s].seen /\ Ripe(sweep[s].ages[d]))

\* The store outlives the processes: it may hold any jobs' files to begin with.
Init ==
  /\ files \in [Dirs -> SUBSET Names]
  /\ dirs = {d \in Dirs : files[d] # {}} /\ temps = {} /\ writes = 0
  /\ age = [d \in Dirs |-> 0] /\ fresh = [d \in Dirs |-> 0]
  /\ writing = [w \in Writers |-> NoWrite]
  /\ sweep = [s \in Sweepers |-> NoSweep]

Touch(d) == age' = [age EXCEPT ![d] = 0]
Resting == {"idle", "due"}
Disturb ==
  sweep' = [s \in Sweepers |-> [sweep[s] EXCEPT !.quiet = @ /\ sweep[s].at \in Resting]]
Stop(w) == writing' = [writing EXCEPT ![w] = NoWrite]

-----------------------------------------------------------------------------
(* Writers. *)

\* Both put and link start with mkdir(parents=True, exist_ok=True).
MakeDir(w, d, n, next, from) ==
  /\ writing[w].at = "idle" /\ writes < MaxWrites
  /\ writes' = writes + 1
  /\ writing' = [writing EXCEPT ![w] =
                   [at |-> next, dir |-> d, name |-> n, from |-> from,
                    risk |-> Marked(d) \/ Ripe(IF d \in dirs THEN age[d] ELSE 0)]]
  /\ dirs' = dirs \cup {d}
  /\ IF d \in dirs THEN UNCHANGED age ELSE Touch(d)
  /\ Disturb
  /\ UNCHANGED <<files, temps, fresh>>

BeginPut(w, d, n) == MakeDir(w, d, n, "temp", Nowhere)
BeginLink(w, d, n, from) == from # d /\ MakeDir(w, d, n, "link", from)

\* Writing the temporary file fails when the directory is gone again.
WriteTemp(w) ==
  LET d == writing[w].dir IN
  /\ writing[w].at = "temp"
  /\ IF d \in dirs
       THEN /\ writing' = [writing EXCEPT ![w].at = "replace"]
            /\ temps' = temps \cup {w}
            /\ Touch(d)
       ELSE Stop(w) /\ UNCHANGED <<temps, age>>
  /\ Disturb
  /\ UNCHANGED <<dirs, files, fresh, writes>>

\* Mutant of Replace: a copy, which leaves the temporary file where it is.
ReplaceByCopy(w) ==
  LET d == writing[w].dir IN
  /\ writing[w].at = "replace"
  /\ writing' = [writing EXCEPT ![w].at = "idle"]
  /\ files' = IF w \in temps THEN [files EXCEPT ![d] = @ \cup {writing[w].name}] ELSE files
  /\ Disturb
  /\ UNCHANGED <<dirs, temps, age, fresh, writes>>

\* os.replace: the whole file at once, or FileNotFoundError if an rmtree has
\* taken the temporary file.
Replace(w) ==
  LET d == writing[w].dir IN
  /\ writing[w].at = "replace"
  /\ Stop(w)
  /\ temps' = temps \ {w}
  /\ IF w \in temps
       THEN /\ files' = [files EXCEPT ![d] = @ \cup {writing[w].name}]
            /\ Touch(d)
            /\ fresh' = [fresh EXCEPT ![d] = 0]
       ELSE UNCHANGED <<files, age, fresh>>
  /\ Disturb
  /\ UNCHANGED <<dirs, writes>>

\* os.link: a file that exists is left alone; a missing origin or directory
\* raises, from copyfile, and leaves behind what mkdir made.
LinkFile(w) ==
  LET d == writing[w].dir
      n == writing[w].name IN
  /\ writing[w].at = "link"
  /\ Stop(w)
  /\ IF d \in dirs /\ n \notin files[d] /\ n \in files[writing[w].from]
       THEN /\ files' = [files EXCEPT ![d] = @ \cup {n}]
            /\ Touch(d)
            /\ fresh' = [fresh EXCEPT ![d] = 0]
       ELSE UNCHANGED <<files, age, fresh>>
  /\ Disturb
  /\ UNCHANGED <<dirs, temps, writes>>

Write(w) == WriteTemp(w) \/ Replace(w) \/ LinkFile(w)

-----------------------------------------------------------------------------
(* Sweepers. *)

\* usage: the listing of the store.
ListRoot(s) ==
  /\ sweep[s].at = "due"
  /\ sweep' = [sweep EXCEPT ![s] = [NoSweep EXCEPT !.at = "usage", !.todo = dirs]]
  /\ UNCHANGED <<dirs, files, temps, age, fresh, writing, writes>>

\* A directory that is gone by now is passed over.
OpenDir(s, d) ==
  LET now == [sweep[s] EXCEPT !.todo = @ \ {d}] IN
  /\ sweep[s].at = "usage" /\ d \in sweep[s].todo
  /\ IF d \in dirs
       THEN sweep' = [sweep EXCEPT ![s] =
              [now EXCEPT !.at = "measure", !.dir = d, !.left = Contents(d)]]
       ELSE sweep' = [sweep EXCEPT ![s] = [now EXCEPT !.missed = @ \cup {d}]]
  /\ UNCHANGED <<dirs, files, temps, age, fresh, writing, writes>>

\* A stat of each file listed, then of the directory.  Of a file that has gone
\* it may still have been in time; if not, the whole directory is passed over.
MeasureDir(s) ==
  LET d == sweep[s].dir
      done == [sweep[s] EXCEPT !.at = "usage", !.dir = Nowhere, !.left = {}] IN
  /\ sweep[s].at = "measure"
  /\ \/ /\ d \in dirs
        /\ sweep' = [sweep EXCEPT ![s] =
             [done EXCEPT !.seen = @ \cup {d}, !.ages[d] = age[d],
                          !.sizes[d] = Cardinality(sweep[s].left),
                          !.young = IF age[d] < MinAge THEN @ \cup {d} ELSE @]]
     \/ /\ d \notin dirs \/ ~(sweep[s].left \subseteq Contents(d))
        /\ sweep' = [sweep EXCEPT ![s] = [done EXCEPT !.missed = @ \cup {d}]]
  /\ UNCHANGED <<dirs, files, temps, age, fresh, writing, writes>>

\* reap: what is dropped, of what was measured.
Decide(s) ==
  LET was == sweep[s] IN
  /\ was.at = "usage" /\ was.todo = {}
  /\ \E D \in Doomed(was.seen, was.ages, was.sizes) :
       sweep' = [sweep EXCEPT ![s] =
         IF D = {} THEN NoSweep
         ELSE [NoSweep EXCEPT !.at = "next", !.doomed = D, !.missed = was.missed,
                 !.evicted = D \ Expired(was.seen, was.ages), !.young = was.young,
                 !.quiet = was.quiet]]
  /\ UNCHANGED <<dirs, files, temps, age, fresh, writing, writes>>

\* On to the next directory, if there is one.
Finished(s, d) ==
  LET remaining == sweep[s].doomed \ {d} IN
  sweep' = [sweep EXCEPT ![s] =
    IF remaining = {} THEN NoSweep
    ELSE [@ EXCEPT !.doomed = remaining, !.dir = Nowhere, !.at = "next"]]

\* Mutant of ListDir: a removal of its own that passes over temporary files.
ListFiles(s, d) ==
  /\ sweep[s].at = "next" /\ d \in sweep[s].doomed
  /\ IF d \in dirs
       THEN sweep' = [sweep EXCEPT ![s].at = "unlink", ![s].dir = d, ![s].left = files[d]]
       ELSE Finished(s, d)
  /\ UNCHANGED <<dirs, files, temps, age, fresh, writing, writes>>

\* rmtree lists a doomed directory; one that is gone is an ignored error.
ListDir(s, d) ==
  /\ sweep[s].at = "next" /\ d \in sweep[s].doomed
  /\ IF d \in dirs
       THEN sweep' = [sweep EXCEPT ![s].at = "unlink", ![s].dir = d, ![s].left = Contents(d)]
       ELSE Finished(s, d)
  /\ UNCHANGED <<dirs, files, temps, age, fresh, writing, writes>>

Unlink(s, x) ==
  LET d == sweep[s].dir IN
  /\ sweep[s].at = "unlink" /\ x \in sweep[s].left
  /\ sweep' = [sweep EXCEPT ![s].left = @ \ {x}]
  /\ IF x \in Contents(d)
       THEN /\ files' = [files EXCEPT ![d] = @ \ {x}]
            /\ temps' = temps \ {x}
            /\ Touch(d)
       ELSE UNCHANGED <<files, temps, age>>
  /\ UNCHANGED <<dirs, fresh, writing, writes>>

\* Mutant of RemoveDir: files are unlinked and the directory is left standing.
RemoveDirNever(s) ==
  /\ sweep[s].at = "unlink" /\ sweep[s].left = {}
  /\ Finished(s, sweep[s].dir)
  /\ UNCHANGED <<dirs, files, temps, age, fresh, writing, writes>>

\* rmdir refuses a directory that has gained a file since it was listed.
RemoveDir(s) ==
  LET d == sweep[s].dir IN
  /\ sweep[s].at = "unlink" /\ sweep[s].left = {}
  /\ IF Contents(d) = {}
       THEN dirs' = dirs \ {d} /\ Touch(d) /\ fresh' = [fresh EXCEPT ![d] = 0]
       ELSE UNCHANGED <<dirs, age, fresh>>
  /\ Finished(s, d)
  /\ UNCHANGED <<files, temps, writing, writes>>

Sweep(s) ==
  \/ ListRoot(s) \/ MeasureDir(s) \/ Decide(s) \/ RemoveDir(s)
  \/ \E d \in Dirs : OpenDir(s, d) \/ ListDir(s, d)
  \/ \E x \in Names \cup Writers : Unlink(s, x)

Older(a, cap) == [d \in Dirs |-> IF d \in dirs /\ a[d] < cap THEN a[d] + 1 ELSE a[d]]

\* A tick is longer than usage() takes, and each brings a thread a sweep to run.
Tick ==
  /\ \A s \in Sweepers : sweep[s].at \notin {"usage", "measure"}
  /\ age' = Older(age, AgeCap) /\ fresh' = Older(fresh, MinAge)
  /\ writing' = [w \in Writers |->
       [writing[w] EXCEPT !.risk = @ \/ (writing[w].at # "idle" /\ Ripe(age'[writing[w].dir]))]]
  /\ sweep' = [s \in Sweepers |->
       IF sweep[s].at = "idle" THEN [NoSweep EXCEPT !.at = "due"] ELSE sweep[s]]
  /\ UNCHANGED <<dirs, files, temps, writes>>

Next ==
  \/ \E w \in Writers : \/ \E d \in Dirs, n \in Names : BeginPut(w, d, n)
                        \/ \E d, from \in Dirs, n \in Names : BeginLink(w, d, n, from)
                        \/ Write(w)
  \/ \E s \in Sweepers : Sweep(s)
  \/ Tick

Spec == Init /\ [][Next]_vars

\* The cron enqueues a sweep every interval and a thread runs it; a write that
\* has started goes on.  New writes are not owed to anyone.
FairSpec ==
  /\ Spec /\ WF_vars(Tick)
  /\ \A w \in Writers : WF_vars(Write(w))
  /\ \A s \in Sweepers : WF_vars(Sweep(s))

-----------------------------------------------------------------------------
(* Properties. *)

\* The type invariant; a temporary file belongs to a writer about to rename it.
TypeOK ==
  /\ dirs \subseteq Dirs /\ files \in [Dirs -> SUBSET Names] /\ temps \subseteq Writers
  /\ age \in [Dirs -> 0..AgeCap] /\ fresh \in [Dirs -> 0..MinAge]
  /\ \A w \in Writers : writing[w].at \in {"idle", "temp", "replace", "link"}
  /\ \A s \in Sweepers : /\ sweep[s].at \in {"idle", "due", "usage", "measure", "next", "unlink"}
                         /\ sweep[s].doomed \subseteq Dirs
  /\ writes \in 0..MaxWrites
  /\ \A w \in temps : writing[w].at = "replace"

\* A put or a link that starts in a directory too young to be dropped, or in a
\* new one, and that no sweep under way has marked, does not lose the directory
\* or its temporary file: unless it takes so long that the directory comes of
\* age, what every sweep measures and decides meanwhile leaves it alone.
YoungWritesComplete ==
  \A w \in Writers : writing[w].at # "idle" /\ ~writing[w].risk =>
    writing[w].dir \in dirs /\ (writing[w].at = "replace" => w \in temps)

\* A sweep nothing wrote during leaves what it measured under the ceiling, or
\* nothing of it but directories younger than the floor, whatever other sweeps
\* take away meanwhile.  Only what it passed over, because another sweep was
\* taking it apart, is not counted.
SweepRestoresCeiling ==
  [][\A s \in Sweepers :
       LET rest == dirs' \ sweep[s].missed IN
       sweep[s].at # "idle" /\ sweep'[s].at = "idle" /\ sweep[s].quiet
         => TotalWeight(rest, Weight') <= MaxBytes \/ rest \subseteq sweep[s].young]_vars

\* Once writes stop every directory goes, half-removed ones and the empty ones
\* a failed link leaves included: nothing piles up on the disk for good.
StoreDrains == \A d \in Dirs : (d \in dirs) ~> (d \notin dirs)

\* reap: "a floor no ceiling eviction may cross: a job that was written
\* seconds ago may still be queued".  What a ceiling eviction unlinks belongs
\* to a directory nothing was written into for at least MinAge.
FloorHolds ==
  [][\A s \in Sweepers : LET d == sweep[s].dir IN
       d \in sweep[s].evicted /\ files'[d] # files[d] /\ sweep'[s].left # sweep[s].left
         => fresh[d] >= MinAge]_vars
=============================================================================
