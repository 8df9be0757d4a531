---------------------------- MODULE ProcessingProofs ----------------------------
(***************************************************************************)
(* Proofs about Processing, for any hosts and addresses, any limits, and   *)
(* pictures of any size with any faces in them.  The fetch, the second     *)
(* thread, what is named, types; then the arithmetic: the frames of the    *)
(* GIF, the fraction a picture is shrunk by, a face found in the shrunk    *)
(* picture, and the glasses on the GIF.                                    *)
(***************************************************************************)
EXTENDS Processing, FiniteSetTheorems, SequenceTheorems, WellFoundedInduction, TLAPS

\* Where a task may be while its second thread is still writing.
Beside == {"look", "nofaces", "draw", "unwind", "join"}

\* A pin is an address that was checked, and a request has one.
Pinned ==
  /\ pins \in [Hosts -> Public \cup {Nowhere}] /\ dialled \subseteq Public
  /\ target \in Hosts \cup {NoHost}
  /\ at \in {"resolve", "dial", "read"} => target \in Hosts
  /\ at \in {"dial", "read"} => pins[target] # Nowhere

\* Only the resolution of a redirect can come on top of a request or a chunk
\* that ran over the deadline.
Timed ==
  /\ hops \in Nat /\ clock \in Nat /\ dripped \in Nat
  /\ clock <= Deadline + 2 * LongCall + dripped
  /\ at \in {"resolve", "read"} => clock <= Deadline + LongCall + dripped
  /\ at = "start" => hops = 0 /\ clock = 0 /\ dripped = 0
  /\ hops = 0 => clock = 0 /\ dripped = 0 /\ at # "read"

\* The second thread is at work only while its task waits for it or works on.
Flight == before = "pending" => at \in Beside

\* What a result names besides its GIF.
Offered == {"thumb", "before"} \cup {ResultFiles[i] : i \in DOMAIN ResultFiles}

\* What is in the store, and what is named, at every stage.
Written ==
  /\ before \in {"none", "pending", "done", "broken"}
  /\ before # "none" => "thumb" \in stored
  /\ before = "done" => "before" \in stored
  /\ at \in Beside \cup {"result"} => before # "none"
  /\ "meta" \in stored => at = "done"
  /\ at \in {"animate", "frames", "meta", "done"} => Offered \subseteq listed /\ listed \subseteq stored

\* The values of what the task computes.
Typed ==
  /\ at \in Stages /\ kept \in 0..(MaxChunks + 1)
  /\ size \in Sizes \cup {NoSize} /\ jpeg \in BOOLEAN
  /\ pass \in DOMAIN NextPass /\ faces \subseteq Candidates
  /\ DOMAIN sprites = 1..Len(sprites) /\ frame \in Nat
  /\ at \in Stages \ {"start", "resolve", "dial", "read", "decode", "refused", "raised"}
       => size # NoSize

-----------------------------------------------------------------------------
(* Fetching. *)

\* The task begins pinned to nothing, with the clock at rest.
LEMMA InitFetch == InitProcessing => Pinned /\ Timed
BY LoadingAssumption DEF InitProcessing, InitLoading, Pinned, Timed, NoPins

\* Whatever is not loading leaves what was fetched alone.
LEMMA WorkKeepsFetch ==
  ASSUME Pinned, Timed, UNCHANGED fetched,
         at' \notin {"start", "resolve", "dial", "read"}
  PROVE  Pinned' /\ Timed'
BY DEF Pinned, Timed, fetched

\* Every step of loading pins what it checked, and dials what it pinned.
LEMMA LoadPins == Pinned /\ Load => Pinned'
<1> SUFFICES ASSUME Pinned, Load PROVE Pinned'
  OBVIOUS
<1> USE LoadingAssumption DEF Pinned
<1>1. CASE LoadStored
  BY <1>1 DEF LoadStored, Refuse
<1>2. CASE BeginFetch
  BY <1>2 DEF BeginFetch
<1>3. CASE Resolve
  <2>1. CASE Raise /\ UNCHANGED pins
    BY <1>3, <2>1 DEF Resolve, Raise
  <2>2. CASE Refuse /\ UNCHANGED pins
    BY <1>3, <2>2 DEF Resolve, Refuse
  <2>3. ASSUME NEW answer \in SUBSET Addresses, Acceptable(answer), NEW a \in answer,
               at' = "dial", pins' = [pins EXCEPT ![target] = a]
        PROVE  Pinned'
    <3>1. a \in Public /\ a # Nowhere
      BY <2>3 DEF Acceptable
    <3>2. target \in Hosts /\ UNCHANGED <<target, dialled>>
      BY <1>3 DEF Resolve
    <3>3. QED
      BY <2>3, <3>1, <3>2
  <2>4. QED
    BY <1>3, <2>1, <2>2, <2>3 DEF Resolve
<1>4. CASE StopFetching
  BY <1>4 DEF StopFetching, Refuse
<1>5. CASE Dial
  <2>1. dialled' \subseteq Public
    BY <1>5 DEF Dial, Peer
  <2>2. /\ at = "dial" /\ UNCHANGED pins
        /\ \/ at' \in {"refused", "raised", "read"} /\ UNCHANGED target
           \/ at' = "resolve" /\ target' \in Hosts
    BY <1>5 DEF Dial, Refuse, Raise
  <2>3. QED
    BY <2>1, <2>2
<1>6. CASE ReadChunk
  BY <1>6 DEF ReadChunk, Refuse
<1>7. CASE ReadEnd
  BY <1>7 DEF ReadEnd, Raise
<1>8. CASE Decode
  BY <1>8 DEF Decode, Refuse, Raise, NoPins
<1>9. QED
  BY <1>1, <1>2, <1>3, <1>4, <1>5, <1>6, <1>7, <1>8 DEF Load

\* The resolver takes LongCall at most.
LEMMA ResolverMoves ==
  ASSUME clock \in Nat, Wait, hops # 0
  PROVE  clock' \in Nat /\ clock' <= clock + LongCall /\ dripped' = dripped
<1>1. clock' \in clock..(clock + LongCall) /\ dripped' = dripped
  BY DEF Wait
<1>2. QED
  BY <1>1, LoadingAssumption

\* What a server does not drip of a call it takes within LongCall.
LEMMA ClockMoves ==
  ASSUME clock \in Nat, dripped \in Nat, Hear
  PROVE  /\ clock' \in Nat /\ dripped' \in Nat
         /\ clock' + dripped <= clock + LongCall + dripped' /\ dripped <= dripped'
<1>1. PICK t \in 0..LongCall, d \in 0..MaxDrip : clock' = clock + t + d /\ dripped' = dripped + d
  BY DEF Hear
<1>2. QED
  BY <1>1, LoadingAssumption

\* Every step of loading is over in time.
LEMMA LoadInTime == Timed /\ Load => Timed'
<1> SUFFICES ASSUME Timed, Load PROVE Timed'
  OBVIOUS
<1> USE LoadingAssumption DEF Timed
<1>1. CASE LoadStored
  BY <1>1 DEF LoadStored, Refuse
<1>2. CASE BeginFetch
  BY <1>2 DEF BeginFetch
<1>3. CASE Resolve
  <2>1. at = "resolve" /\ UNCHANGED hops /\ at' \in {"raised", "refused", "dial"} /\ Wait
    BY <1>3 DEF Resolve, Raise, Refuse
  <2>2. CASE hops = 0
    BY <2>1, <2>2 DEF Wait
  <2>3. CASE hops # 0
    <3>1. /\ clock' \in Nat /\ clock' <= clock + LongCall /\ dripped' = dripped
      BY <2>1, <2>3, ResolverMoves
    <3>2. clock \in Nat /\ dripped \in Nat /\ clock <= Deadline + LongCall + dripped
      BY <2>1
    <3>3. clock' <= Deadline + LongCall + LongCall + dripped'
      BY <3>1, <3>2
    <3>4. QED
      BY <2>1, <2>3, <3>1, <3>2, <3>3
  <2>4. QED
    BY <2>2, <2>3
<1>4. CASE StopFetching
  BY <1>4 DEF StopFetching, Refuse
<1>5. CASE Dial
  BY <1>5 DEF Dial, Refuse, Raise, GivenUp, Late, Hear
<1>6. CASE ReadChunk
  <2>1. at = "read" /\ UNCHANGED hops /\ Hear
        /\ \/ clock' <= Deadline /\ at' = "read"
           \/ at' = "refused"
    BY <1>6, ClockMoves DEF ReadChunk, Refuse
  <2>2. QED
    BY <2>1, ClockMoves
<1>7. CASE ReadEnd
  <2>1. at = "read" /\ UNCHANGED hops /\ Hear /\ at' \in {"decode", "raised"}
    BY <1>7 DEF ReadEnd, Raise
  <2>2. QED
    BY <2>1, ClockMoves
<1>8. CASE Decode
  BY <1>8 DEF Decode, Refuse, Raise
<1>9. QED
  BY <1>1, <1>2, <1>3, <1>4, <1>5, <1>6, <1>7, <1>8 DEF Load

\* A step of the task that is not of loading, and does not stay where it is.
Working ==
  \/ WriteThumb \/ Look \/ NoFaces \/ CallRaises \/ Unwind \/ DrawGlasses \/ LeavePool
  \/ WriteResult \/ Name \/ NoAnimation \/ BeginAnimation \/ DrawFrame \/ WriteAnimation \/ WriteMeta

\* The rest of the task does not fetch.
LEMMA WorkingIsLater ==
  Working => UNCHANGED fetched /\ at' \notin {"start", "resolve", "dial", "read"}
BY DEF Working, WriteThumb, Look, NoFaces, CallRaises, Unwind, DrawGlasses, LeavePool, WriteResult,
       Name, NoAnimation, BeginAnimation, DrawFrame, WriteAnimation, WriteMeta, Put, Raise, Refuse,
       fetched

\* Every step is one of loading, of the second thread, of the rest, or none.
LEMMA NextCases ==
  [NextProcessing]_procVars =>
    \/ LoadImage \/ Working \/ WriteBefore \/ UNCHANGED procVars
BY DEF NextProcessing, Working, Ended

\* Both invariants of fetching hold of every step.
LEMMA NextFetch == Pinned /\ Timed /\ [NextProcessing]_procVars => Pinned' /\ Timed'
<1> SUFFICES ASSUME Pinned, Timed, [NextProcessing]_procVars PROVE Pinned' /\ Timed'
  OBVIOUS
<1>1. CASE LoadImage
  BY <1>1, LoadPins, LoadInTime DEF LoadImage
<1>2. CASE Working
  BY <1>2, WorkingIsLater, WorkKeepsFetch
<1>3. CASE WriteBefore
  BY <1>3 DEF WriteBefore, fetched, Pinned, Timed
<1>4. CASE UNCHANGED procVars
  BY <1>4 DEF procVars, Pinned, Timed
<1>5. QED
  BY <1>1, <1>2, <1>3, <1>4, NextCases

\* PinnedAdapter: over any redirects, and whatever names resolve to, only
\* addresses that were checked are connected to.
THEOREM OnlyCheckedAreDialled == SpecProcessing => []DialsOnlyChecked
<1>1. Pinned => DialsOnlyChecked
  BY DEF Pinned, DialsOnlyChecked
<1>2. QED
  BY InitFetch, NextFetch, <1>1, PTL DEF SpecProcessing

\* fetch_deadline: however many redirects and chunks there are, and but for what
\* the servers on the way drip away, a download is over within two blocking
\* calls of its deadline.
THEOREM FetchIsOverInTime == SpecProcessing => []OverInTime
<1>1. Timed => OverInTime
  BY LoadingAssumption DEF Timed, OverInTime
<1>2. QED
  BY InitFetch, NextFetch, <1>1, PTL DEF SpecProcessing

-----------------------------------------------------------------------------
(* The second thread. *)

\* Loading starts and ends before there is a second thread.
LEMMA LoadStages ==
  Load => /\ at \in {"start", "resolve", "dial", "read", "decode"}
          /\ at' \in {"resolve", "dial", "read", "decode", "thumb", "refused", "raised"}
<1>1. LoadStored \/ BeginFetch \/ Resolve => at \in {"start", "resolve"}
        /\ at' \in {"resolve", "dial", "decode", "refused", "raised"}
  BY DEF LoadStored, BeginFetch, Resolve, Refuse, Raise
<1>2. StopFetching \/ Dial => at = "dial" /\ at' \in {"refused", "raised", "read", "resolve"}
  BY DEF StopFetching, Dial, Refuse, Raise
<1>3. ReadChunk \/ ReadEnd => at = "read" /\ at' \in {"refused", "read", "decode", "raised"}
  BY DEF ReadChunk, ReadEnd, Refuse, Raise
<1>4. Decode => at = "decode" /\ at' \in {"refused", "raised", "thumb"}
  BY DEF Decode, Refuse, Raise
<1>5. QED
  BY <1>1, <1>2, <1>3, <1>4 DEF Load

\* Every step leaves the second thread with a task that waits for it.
LEMMA NextFlight == Flight /\ [NextProcessing]_procVars => Flight'
<1> SUFFICES ASSUME Flight, [NextProcessing]_procVars PROVE Flight'
  OBVIOUS
<1> USE DEF Flight, Beside
<1>1. CASE LoadImage
  BY <1>1, LoadStages DEF LoadImage
<1>2. CASE WriteThumb
  BY <1>2 DEF WriteThumb, Put, Raise
<1>3. CASE WriteBefore
  BY <1>3 DEF WriteBefore
<1>4. CASE Look \/ CallRaises \/ DrawGlasses
  BY <1>4 DEF Look, CallRaises, DrawGlasses
<1>5. CASE NoFaces \/ Unwind \/ LeavePool
  BY <1>5 DEF NoFaces, Unwind, LeavePool
<1>6. CASE WriteResult \/ Name \/ NoAnimation \/ BeginAnimation \/ DrawFrame
             \/ WriteAnimation \/ WriteMeta
  BY <1>6 DEF WriteResult, Name, NoAnimation, BeginAnimation, DrawFrame, WriteAnimation, WriteMeta
<1>7. CASE UNCHANGED procVars
  BY <1>7 DEF procVars
<1>8. QED
  BY <1>1, <1>2, <1>3, <1>4, <1>5, <1>6, <1>7, NextCases DEF Working

\* "Never leave the pool with work in flight": a task that is over, whatever
\* became of it, has nothing still to write.
THEOREM NothingIsInFlight == SpecProcessing => []NothingInFlight
<1>1. InitProcessing => Flight
  BY DEF InitProcessing, Flight
<1>2. Flight => NothingInFlight
  BY DEF Flight, Beside, NothingInFlight, Over
<1>3. QED
  BY <1>1, <1>2, NextFlight, PTL DEF SpecProcessing

-----------------------------------------------------------------------------
(* What is written, and what is named. *)

\* The names of a result's files.
LEMMA FileNames ==
  /\ \A i \in DOMAIN ResultFiles : ResultFiles[i] # "meta"
  /\ {"full", "view", "card"} \subseteq {ResultFiles[i] : i \in DOMAIN ResultFiles}
<1>1. CASE jpeg
  BY <1>1 DEF ResultFiles
<1>2. CASE ~jpeg
  BY <1>2 DEF ResultFiles
<1>3. QED
  BY <1>1, <1>2

\* Every step names only what has been written, and meta.json comes last.
LEMMA NextWritten == Flight /\ Written /\ [NextProcessing]_procVars => Written'
<1> SUFFICES ASSUME Flight, Written, [NextProcessing]_procVars PROVE Written'
  OBVIOUS
<1> USE DEF Beside
<1>1. CASE LoadImage
  BY <1>1, LoadStages DEF LoadImage, Flight, Written
<1>2. CASE WriteThumb
  BY <1>2 DEF WriteThumb, Put, Raise, Written, Flight
<1>3. CASE WriteBefore
  <2>1. at \in Beside /\ before = "pending"
    BY <1>3 DEF WriteBefore, Flight
  <2>2. QED
    BY <1>3, <2>1 DEF WriteBefore, Written
<1>4. CASE Look \/ NoFaces \/ CallRaises \/ Unwind \/ DrawGlasses \/ LeavePool
  BY <1>4 DEF Look, NoFaces, CallRaises, Unwind, DrawGlasses, LeavePool, Refuse, Raise, Written
<1>5. CASE WriteResult
  BY <1>5, FileNames DEF WriteResult, Missing, Put, Raise, Written
<1>6. CASE Name
  <2>1. CASE before = "broken"
    BY <1>6, <2>1 DEF Name, Raise, Written
  <2>2. CASE before # "broken"
    <3>1. before = "done" /\ {"thumb", "before"} \subseteq stored
      BY <1>6, <2>2 DEF Name, Flight, Written
    <3>2. {ResultFiles[i] : i \in DOMAIN ResultFiles} \subseteq stored
      BY <1>6 DEF Name, Missing
    <3>3. listed' = Offered /\ Offered' = Offered /\ at' = "animate" /\ UNCHANGED <<before, stored>>
      BY <1>6, <2>2 DEF Name, Offered, ResultFiles
    <3>4. QED
      BY <1>6, <3>1, <3>2, <3>3 DEF Written, Name, Offered
  <2>3. QED
    BY <2>1, <2>2
<1>7. CASE NoAnimation \/ BeginAnimation \/ DrawFrame
  <2>1. UNCHANGED <<before, stored, listed, jpeg>>
        /\ at \in {"animate", "frames"} /\ at' \in {"frames", "meta"}
    BY <1>7 DEF NoAnimation, BeginAnimation, DrawFrame
  <2>2. Offered' = Offered
    BY <2>1 DEF Offered, ResultFiles
  <2>3. QED
    BY <2>1, <2>2 DEF Written
<1>8. CASE WriteAnimation
  <2>1. Offered' = Offered
    BY <1>8 DEF WriteAnimation, Offered, ResultFiles
  <2>2. QED
    BY <1>8, <2>1 DEF WriteAnimation, Written
<1>9. CASE WriteMeta
  <2>1. Offered' = Offered
    BY <1>9 DEF WriteMeta, Offered, ResultFiles
  <2>2. QED
    BY <1>9, <2>1 DEF WriteMeta, Put, Raise, Written
<1>10. CASE UNCHANGED procVars
  BY <1>10 DEF procVars, Written, Offered, ResultFiles
<1>11. QED
  BY <1>1, <1>2, <1>3, <1>4, <1>5, <1>6, <1>7, <1>8, <1>9, <1>10, NextCases DEF Working

\* What a result or meta.json names is in the store, though any write on the
\* way there may have failed, the second thread's included.
THEOREM ResultsAreWhole == SpecProcessing => []ResultIsWhole
<1>1. InitProcessing => Flight /\ Written
  BY DEF InitProcessing, InitLoading, Flight, Written, Beside
<1>2. Written => ResultIsWhole
  BY FileNames DEF Written, ResultIsWhole, Offered
<1>3. QED
  BY <1>1, <1>2, NextFlight, NextWritten, PTL DEF SpecProcessing

-----------------------------------------------------------------------------
(* Types. *)

\* A picture that was decoded measures something.
LEMMA SizesAreSizes == NoSize \notin Sizes
BY ProcessingAssumption DEF NoSize

\* The glasses of a picture are in a list.
LEMMA ArrangedIsList ==
  ASSUME faces \subseteq Candidates, NEW s \in Arranged
  PROVE  DOMAIN s = 1..Len(s)
<1>1. Cardinality(faces) \in Nat
  BY ProcessingAssumption, FS_Subset, FS_CardinalityType
<1> DEFINE S == {OnGif(c, size) : c \in faces}
<1>2. s \in [1..Cardinality(faces) -> S]
  BY DEF Arranged
<1> HIDE DEF S
<1>3. s \in Seq(S)
  BY <1>1, <1>2, IsASeq
<1>4. QED
  BY <1>3, LenProperties

\* Loading keeps its counts.
LEMMA LoadKept == Load /\ kept \in 0..(MaxChunks + 1) => kept' \in 0..(MaxChunks + 1)
<1> SUFFICES ASSUME Load, kept \in 0..(MaxChunks + 1) PROVE kept' \in 0..(MaxChunks + 1)
  OBVIOUS
<1>1. MaxChunks \in Nat
  BY LoadingAssumption
<1>2. LoadStored \/ BeginFetch \/ Decode => kept' \in 0..(MaxChunks + 1)
  BY <1>1 DEF LoadStored, BeginFetch, Decode
<1>3. ReadChunk => kept' \in 0..(MaxChunks + 1)
  BY <1>1 DEF ReadChunk
<1>4. Resolve \/ StopFetching \/ Dial \/ ReadEnd => kept' = kept
  BY DEF Resolve, StopFetching, Dial, ReadEnd
<1>5. QED
  BY <1>2, <1>3, <1>4 DEF Load

\* Every step keeps the task well typed.
LEMMA NextTyped == Typed /\ [NextProcessing]_procVars => Typed'
<1> SUFFICES ASSUME Typed, [NextProcessing]_procVars PROVE Typed'
  OBVIOUS
<1> USE DEF Typed, Stages, Over
<1>1. CASE LoadImage
  BY <1>1, LoadStages, LoadKept, SizesAreSizes DEF LoadImage
<1>2. CASE WriteThumb \/ WriteBefore
  BY <1>2 DEF WriteThumb, WriteBefore, Put, Raise, fetched
<1>3. CASE Look
  BY <1>3 DEF Look, NextPass, fetched
<1>4. CASE NoFaces \/ CallRaises \/ Unwind \/ DrawGlasses \/ LeavePool
  BY <1>4 DEF NoFaces, CallRaises, Unwind, DrawGlasses, LeavePool, Refuse, Raise, fetched
<1>5. CASE WriteResult \/ Name \/ WriteAnimation \/ WriteMeta
  BY <1>5 DEF WriteResult, Name, WriteAnimation, WriteMeta, Put, Raise, fetched
<1>6. CASE NoAnimation \/ DrawFrame
  BY <1>6 DEF NoAnimation, DrawFrame, fetched
<1>7. CASE BeginAnimation
  <2>1. DOMAIN sprites' = 1..Len(sprites')
    BY <1>7, ArrangedIsList DEF BeginAnimation
  <2>2. QED
    BY <1>7, <2>1 DEF BeginAnimation, fetched
<1>8. CASE UNCHANGED procVars
  BY <1>8 DEF procVars
<1>9. QED
  BY <1>1, <1>2, <1>3, <1>4, <1>5, <1>6, <1>7, <1>8, NextCases DEF Working

\* The task begins with nothing computed.
LEMMA InitTyped == InitProcessing => Typed /\ Written /\ Flight
<1> SUFFICES ASSUME InitProcessing PROVE Typed /\ Written /\ Flight
  OBVIOUS
<1>1. Written /\ Flight
  BY DEF InitProcessing, InitLoading, Written, Flight, Beside
<1>2. DOMAIN sprites = 1..Len(sprites) /\ frame \in Nat
  BY DEF InitProcessing
<1>3. kept \in 0..(MaxChunks + 1)
  BY LoadingAssumption DEF InitProcessing, InitLoading
<1>4. pass \in DOMAIN NextPass /\ faces \subseteq Candidates
  BY DEF InitProcessing, NextPass
<1>5. at = "start" /\ size \in Sizes \cup {NoSize} /\ jpeg \in BOOLEAN
  BY DEF InitProcessing, InitLoading
<1>6. QED
  BY <1>1, <1>2, <1>3, <1>4, <1>5 DEF Typed, Stages, Over

\* Type correctness; a request goes only to a host that has been resolved, and
\* whatever has been decoded has a size.
THEOREM ProcessingTypeCorrect == SpecProcessing => []TypeOKProcessing
<1>1. InitProcessing => Typed /\ Written /\ Flight
  BY InitTyped
<1>2. Pinned /\ Timed /\ Typed /\ Written => TypeOKProcessing
  <2>1. Pinned => pins \in [Hosts -> Addresses \cup {Nowhere}] /\ dialled \subseteq Addresses
    BY LoadingAssumption DEF Pinned
  <2>2. at \in {"resolve", "dial", "read"} /\ Pinned => target \in Hosts
    BY DEF Pinned
  <2>3. Pinned /\ Timed /\ Typed => TypeOKLoading
    BY <2>1 DEF Pinned, Timed, Typed, TypeOKLoading
  <2>4. QED
    BY <2>3 DEF Typed, Written, TypeOKProcessing
<1>3. QED
  BY <1>1, <1>2, InitFetch, NextFetch, NextFlight, NextWritten, NextTyped, PTL DEF SpecProcessing

-----------------------------------------------------------------------------
(* Rounding, and the numbers of the fall. *)

\* Division by what is no constant, as the provers need it.
LEMMA Euclid ==
  ASSUME NEW a \in Int, NEW b \in Nat \ {0}
  PROVE  /\ a \div b \in Int /\ a % b \in 0..(b - 1)
         /\ a = b * (a \div b) + (a % b)
OBVIOUS

\* A larger dividend has no smaller quotient, nor, with the same quotient, a
\* smaller remainder.
LEMMA DivMonotone ==
  ASSUME NEW a1 \in Int, NEW a2 \in Int, NEW b \in Nat \ {0}, a1 <= a2
  PROVE  /\ a1 \div b <= a2 \div b
         /\ a1 \div b = a2 \div b => a1 % b <= a2 % b
<1> DEFINE q1 == a1 \div b
           q2 == a2 \div b
           r1 == a1 % b
           r2 == a2 % b
<1>1. /\ q1 \in Int /\ q2 \in Int /\ r1 \in 0..(b - 1) /\ r2 \in 0..(b - 1)
      /\ a1 = b * q1 + r1 /\ a2 = b * q2 + r2
  BY Euclid
<1> HIDE DEF q1, q2, r1, r2
<1>2. q1 <= q2
  <2> SUFFICES ASSUME q1 >= q2 + 1 PROVE FALSE
    BY <1>1
  <2>1. b * q1 >= b * (q2 + 1)
    BY <1>1
  <2>2. b * (q2 + 1) = b * q2 + b
    BY <1>1
  <2>3. QED
    BY <1>1, <2>1, <2>2
<1>3. q1 = q2 => r1 <= r2
  BY <1>1
<1>4. QED
  BY <1>2, <1>3 DEF q1, q2, r1, r2

\* Rounding keeps the order,
LEMMA RoundMonotone ==
  ASSUME NEW a1 \in Int, NEW a2 \in Int, NEW b \in Nat \ {0}, a1 <= a2
  PROVE  RoundDiv(a1, b) \in Int /\ RoundDiv(a1, b) <= RoundDiv(a2, b)
<1> DEFINE q1 == a1 \div b
           q2 == a2 \div b
           r1 == a1 % b
           r2 == a2 % b
<1>1. /\ q1 \in Int /\ q2 \in Int /\ r1 \in 0..(b - 1) /\ r2 \in 0..(b - 1)
      /\ q1 <= q2 /\ (q1 = q2 => r1 <= r2)
  BY Euclid, DivMonotone
<1>2. /\ RoundDiv(a1, b) = IF 2 * r1 < b \/ (2 * r1 = b /\ q1 % 2 = 0) THEN q1 ELSE q1 + 1
      /\ RoundDiv(a2, b) = IF 2 * r2 < b \/ (2 * r2 = b /\ q2 % 2 = 0) THEN q2 ELSE q2 + 1
  BY DEF RoundDiv
<1> HIDE DEF q1, q2, r1, r2
<1>3. QED
  BY <1>1, <1>2

\* leaves what needs no rounding alone,
LEMMA RoundExact ==
  ASSUME NEW k \in Int, NEW b \in Nat \ {0}
  PROVE  RoundDiv(k * b, b) = k
<1>1. (k * b) \div b = k /\ (k * b) % b = 0
  <2>1. k * b \in Int
    OBVIOUS
  <2>2. /\ (k * b) \div b \in Int /\ (k * b) % b \in 0..(b - 1)
        /\ k * b = b * ((k * b) \div b) + ((k * b) % b)
    BY <2>1, Euclid
  <2>3. QED
    BY <2>2
<1>2. QED
  BY <1>1 DEF RoundDiv

\* and is off by half at most.
LEMMA RoundHalf ==
  ASSUME NEW a \in Int, NEW b \in Nat \ {0}
  PROVE  /\ RoundDiv(a, b) \in Int /\ b * RoundDiv(a, b) \in Int
         /\ 2 * (b * RoundDiv(a, b)) >= 2 * a - b
         /\ 2 * (b * RoundDiv(a, b)) <= 2 * a + b
<1> DEFINE q == a \div b
           r == a % b
<1>1. q \in Int /\ r \in 0..(b - 1) /\ a = b * q + r
  BY Euclid
<1>2. RoundDiv(a, b) = IF 2 * r < b \/ (2 * r = b /\ q % 2 = 0) THEN q ELSE q + 1
  BY DEF RoundDiv
<1> HIDE DEF q, r
<1>3. b * (q + 1) = b * q + b /\ b * q \in Int
  BY <1>1
<1>4. CASE RoundDiv(a, b) = q /\ 2 * r <= b
  BY <1>1, <1>3, <1>4
<1>5. CASE RoundDiv(a, b) = q + 1 /\ 2 * r >= b
  BY <1>1, <1>3, <1>5
<1>6. QED
  BY <1>1, <1>2, <1>4, <1>5

\* The stagger: a pair starts no earlier than one before it, and within Spread.
LEMMA Staggered ==
  ASSUME NEW s, Len(s) \in Nat, NEW i \in 1..Len(s), NEW j \in 1..Len(s), i <= j
  PROVE  /\ StartStep(s, i) \in 0..Spread(s)
         /\ StartStep(s, i) <= StartStep(s, j)
<1> DEFINE S == Spread(s)
           L == Larger(Len(s) - 1, 1)
<1>1. S \in {0, SpreadSteps} /\ L \in Nat \ {0} /\ (S = 0 \/ L = Len(s) - 1)
  BY DEF Spread, Larger
<1>2. /\ StartStep(s, i) = RoundDiv(S * (i - 1), L) /\ StartStep(s, j) = RoundDiv(S * (j - 1), L)
  BY DEF StartStep
<1> HIDE DEF S, L
<1>3. /\ S * (i - 1) \in Int /\ S * (j - 1) \in Int /\ S * L \in Int
      /\ 0 * L <= S * (i - 1) /\ S * (i - 1) <= S * (j - 1) /\ S * (i - 1) <= S * L
      /\ S \in Int /\ 0 * L \in Int
  BY <1>1 DEF SpreadSteps
<1>4. /\ RoundDiv(S * (i - 1), L) \in Int
      /\ RoundDiv(0 * L, L) <= RoundDiv(S * (i - 1), L)
      /\ RoundDiv(S * (i - 1), L) <= RoundDiv(S * (j - 1), L)
      /\ RoundDiv(S * (i - 1), L) <= RoundDiv(S * L, L)
  BY <1>1, <1>3, RoundMonotone
<1>5. RoundDiv(0 * L, L) = 0 /\ RoundDiv(S * L, L) = S
  <2>1. \A k \in Int : RoundDiv(k * L, L) = k
    BY <1>1, RoundExact
  <2>2. 0 \in Int
    OBVIOUS
  <2>3. QED
    BY <1>3, <2>1, <2>2, Zenon
<1>6. QED
  BY <1>2, <1>3, <1>4, <1>5 DEF S

\* How far a pair has come: between nothing and twelve steps, further the
\* sooner it started and the later it is.
LEMMA FallenFacts ==
  ASSUME NEW s, NEW i, NEW j, StartStep(s, i) \in Nat, StartStep(s, j) \in Nat,
         NEW k \in Int, NEW l \in Int
  PROVE  /\ Fallen(s, i, k) \in 0..FallSteps
         /\ StartStep(s, i) <= StartStep(s, j) => Fallen(s, i, k) >= Fallen(s, j, k)
         /\ k <= l => Fallen(s, i, k) <= Fallen(s, i, l)
         /\ Fallen(s, i, 1) <= 1
         /\ k >= FallSteps + StartStep(s, i) => Fallen(s, i, k) = FallSteps
BY DEF Fallen, Larger, Smaller, FallSteps

\* How far above its place it is drawn.
LEMMA DropFacts ==
  ASSUME NEW s, NEW i, NEW k, NEW l, s[i].y \in Int, s[i].h \in Nat,
         s[i].y + s[i].h >= -FallMargin,
         Fallen(s, i, k) \in 0..FallSteps, Fallen(s, i, l) \in 0..FallSteps
  PROVE  /\ Fallen(s, i, k) <= Fallen(s, i, l) => Drop(s, i, l) <= Drop(s, i, k)
         /\ Fallen(s, i, k) = FallSteps => Drop(s, i, k) = 0
         /\ Fallen(s, i, k) <= 1 /\ s[i].y + s[i].h <= 1215
              => s[i].y - Drop(s, i, k) + s[i].h <= 0
<1> DEFINE A == s[i].y + s[i].h + FallMargin
           Above(f) == (FallSteps * FallSteps - f * f) * A
<1>1. A \in Nat
  BY DEF FallMargin
<1>2. /\ Drop(s, i, k) = RoundDiv(Above(Fallen(s, i, k)), 144)
      /\ Drop(s, i, l) = RoundDiv(Above(Fallen(s, i, l)), 144)
  BY DEF Drop, FallSteps
<1> HIDE DEF A
<1>3. ASSUME NEW f \in 0..12, NEW g \in 0..12, f <= g
      PROVE  Above(g) \in Int /\ Above(g) <= Above(f) /\ Above(f) \in Int
  <2>1. f * f \in Int /\ g * g \in Int /\ f * f <= g * g
    BY <1>3
  <2>2. /\ 144 - f * f \in Int /\ 144 - g * g \in Int /\ 144 - g * g <= 144 - f * f
    BY <2>1
  <2>3. ASSUME NEW x \in Int, NEW y \in Int, x <= y PROVE x * A <= y * A /\ x * A \in Int /\ y * A \in Int
    BY <1>1, <2>3
  <2>4. QED
    BY <2>2, <2>3 DEF FallSteps
<1> HIDE DEF Above
<1>4. ASSUME Fallen(s, i, k) <= Fallen(s, i, l) PROVE Drop(s, i, l) <= Drop(s, i, k)
  <2>1. /\ Above(Fallen(s, i, l)) \in Int /\ Above(Fallen(s, i, k)) \in Int
        /\ Above(Fallen(s, i, l)) <= Above(Fallen(s, i, k))
    BY <1>3, <1>4 DEF FallSteps
  <2>2. QED
    BY <1>2, <2>1, RoundMonotone
<1>5. ASSUME Fallen(s, i, k) = FallSteps PROVE Drop(s, i, k) = 0
  <2>1. Above(FallSteps) = 0
    BY <1>1 DEF FallSteps, Above
  <2>2. RoundDiv(0, 144) = 0
    BY DEF RoundDiv
  <2>3. QED
    BY <1>2, <1>5, <2>1, <2>2
<1>6. ASSUME Fallen(s, i, k) <= 1, s[i].y + s[i].h <= 1215
      PROVE  s[i].y - Drop(s, i, k) + s[i].h <= 0
  <2>1. Above(Fallen(s, i, k)) \in {144 * A, 143 * A}
    BY <1>1, <1>6 DEF FallSteps, Above
  <2>2. /\ 144 * Drop(s, i, k) >= 143 * A - 72 /\ Drop(s, i, k) \in Int
    <3> DEFINE a == Above(Fallen(s, i, k))
    <3>1. a \in Int /\ a >= 143 * A
      BY <1>1, <2>1
    <3> HIDE DEF a
    <3>2. RoundDiv(a, 144) \in Int /\ 2 * (144 * RoundDiv(a, 144)) >= 2 * a - 144
      <4>1. \A b \in Int : RoundDiv(b, 144) \in Int /\ 2 * (144 * RoundDiv(b, 144)) >= 2 * b - 144
        BY RoundHalf
      <4>2. QED
        BY <3>1, <4>1
    <3>3. Drop(s, i, k) = RoundDiv(a, 144)
      BY <1>2 DEF a
    <3>4. QED
      BY <1>1, <3>1, <3>2, <3>3
  <2>3. QED
    BY <1>1, <1>6, <2>2 DEF A, FallMargin
<1>7. QED
  BY <1>4, <1>5, <1>6

-----------------------------------------------------------------------------
(* The GIF. *)

\* What is on the frames that are drawn.
Falling ==
  at = "frames" =>
    /\ size \in Sizes /\ Arrange(sprites) /\ Len(sprites) \in Nat
    /\ \A i \in DOMAIN sprites : \E c \in Candidates : sprites[i] = OnGif(c, size)

\* Sprites come arranged, and no step rearranges them.
LEMMA NextFalling == Typed /\ Falling /\ [NextProcessing]_procVars => Falling'
<1> SUFFICES ASSUME Typed, Falling, [NextProcessing]_procVars, at' = "frames"
             PROVE  /\ size' \in Sizes /\ Arrange(sprites') /\ Len(sprites') \in Nat
                    /\ \A i \in DOMAIN sprites' : \E c \in Candidates : sprites'[i] = OnGif(c, size')
  BY DEF Falling, Arrange
<1>1. CASE BeginAnimation
  <2>1. at = "animate" /\ size \in Sizes /\ faces \subseteq Candidates /\ size' = size
    BY <1>1 DEF BeginAnimation, Typed, Stages, Over
  <2>2. PICK s \in Arranged : sprites' = s
    BY <1>1 DEF BeginAnimation
  <2>3. Arrange(s) /\ {s[i] : i \in DOMAIN s} = {OnGif(c, size) : c \in faces}
    BY DEF Arranged
  <2>4. Len(s) \in Nat
    <3>1. Cardinality(faces) \in Nat
      BY <2>1, ProcessingAssumption, FS_Subset, FS_CardinalityType
    <3> DEFINE S == {OnGif(c, size) : c \in faces}
    <3>2. s \in [1..Cardinality(faces) -> S]
      BY DEF Arranged
    <3> HIDE DEF S
    <3>3. s \in Seq(S)
      BY <3>1, <3>2, IsASeq
    <3>4. QED
      BY <3>3, LenProperties
  <2>5. \A i \in DOMAIN s : \E c \in Candidates : s[i] = OnGif(c, size)
    BY <2>1, <2>3
  <2>6. QED
    BY <2>1, <2>2, <2>3, <2>4, <2>5
<1>2. CASE at = "frames" /\ UNCHANGED <<size, sprites>>
  BY <1>2 DEF Falling
<1>3. BeginAnimation \/ (at = "frames" /\ UNCHANGED <<size, sprites>>)
  <2>1. CASE LoadImage
    BY <2>1, LoadStages DEF LoadImage
  <2>2. CASE WriteThumb \/ WriteBefore \/ WriteResult \/ WriteMeta
    BY <2>2 DEF WriteThumb, WriteBefore, WriteResult, WriteMeta, Put, Raise
  <2>3. CASE Look \/ NoFaces \/ CallRaises \/ Unwind \/ DrawGlasses \/ LeavePool
    BY <2>3 DEF Look, NoFaces, CallRaises, Unwind, DrawGlasses, LeavePool, Refuse, Raise
  <2>4. CASE Name \/ NoAnimation \/ DrawFrame \/ WriteAnimation
    BY <2>4 DEF Name, NoAnimation, DrawFrame, WriteAnimation, Raise
  <2>5. CASE UNCHANGED procVars
    BY <2>5 DEF procVars
  <2>6. QED
    BY <2>1, <2>2, <2>3, <2>4, <2>5, NextCases DEF Working
<1>4. QED
  BY <1>1, <1>2, <1>3

\* Arranged sprites fall in order, from out of sight to where they end.
LEMMA FallingIsTimeline ==
  ASSUME LandsNear, Typed, Falling
  PROVE  Timeline
<1> SUFFICES ASSUME at = "frames"
             PROVE  FallsInOrder /\ (frame = 1 => HiddenAtFirst) /\ NeverRises /\ CaptionComesLast
  BY DEF Timeline
<1>1. /\ Arrange(sprites) /\ Len(sprites) \in Nat /\ DOMAIN sprites = 1..Len(sprites)
      /\ frame \in Nat
  BY DEF Falling, Typed
<1>2. ASSUME NEW i \in DOMAIN sprites
      PROVE  /\ Sprite(sprites[i]) /\ sprites[i].y + sprites[i].h >= -FallMargin
             /\ sprites[i].y + sprites[i].h <= 1215
  <2>1. PICK c \in Candidates : sprites[i] = OnGif(c, size) /\ size \in Sizes
    BY <1>2 DEF Falling
  <2> DEFINE g == OnGif(c, size)
  <2>2. Sprite(g) /\ g.y + g.h \in (-FallMargin)..1215
    BY <2>1 DEF LandsNear
  <2> HIDE DEF g
  <2>3. QED
    BY <2>1, <2>2 DEF g, FallMargin, Sprite
<1>3. Spread(sprites) \in Nat
  BY DEF Spread, SpreadSteps
<1>4. \A i \in DOMAIN sprites : StartStep(sprites, i) \in 0..Spread(sprites)
  BY <1>1, Staggered
<1>5. \A k \in Nat : Shown(sprites, k) \in Int /\ Shown(sprites, k) <= Shown(sprites, k + 1)
  BY <1>3 DEF Shown, Smaller, LastFall, FallSteps
<1>6. \A i \in DOMAIN sprites, k \in Nat : Fallen(sprites, i, Shown(sprites, k)) \in 0..FallSteps
  BY <1>3, <1>4, <1>5, FallenFacts
<1>7. FallsInOrder
  <2> SUFFICES ASSUME NEW i \in DOMAIN sprites, NEW j \in DOMAIN sprites, sprites[i].x < sprites[j].x
               PROVE  Fallen(sprites, i, Shown(sprites, frame)) >= Fallen(sprites, j, Shown(sprites, frame))
    BY DEF FallsInOrder
  <2>1. i <= j
    <3>1. ~(j < i)
      BY <1>1, <1>2 DEF Arrange, Sprite
    <3>2. QED
      BY <1>1, <3>1
  <2>2. StartStep(sprites, i) <= StartStep(sprites, j)
    BY <1>1, <2>1, Staggered
  <2>3. QED
    BY <1>1, <1>3, <1>4, <1>5, <2>2, FallenFacts
<1>8. ASSUME frame = 1 PROVE HiddenAtFirst
  <2> SUFFICES ASSUME NEW i \in DOMAIN sprites
               PROVE  sprites[i].y - Drop(sprites, i, 1) + sprites[i].h <= 0
    BY DEF HiddenAtFirst
  <2>1. Fallen(sprites, i, 1) \in 0..FallSteps /\ Fallen(sprites, i, 1) <= 1
    BY <1>3, <1>4, FallenFacts
  <2>2. QED
    BY <1>2, <2>1, DropFacts DEF Sprite
<1>9. NeverRises
  <2> SUFFICES ASSUME NEW i \in DOMAIN sprites
               PROVE  Drop(sprites, i, Shown(sprites, frame + 1)) <= Drop(sprites, i, Shown(sprites, frame))
    BY DEF NeverRises
  <2>1. Fallen(sprites, i, Shown(sprites, frame)) <= Fallen(sprites, i, Shown(sprites, frame + 1))
    BY <1>1, <1>3, <1>4, <1>5, FallenFacts
  <2>2. /\ sprites[i].y \in Int /\ sprites[i].h \in Nat
        /\ sprites[i].y + sprites[i].h >= -FallMargin
    BY <1>2 DEF Sprite
  <2>3. frame \in Nat /\ frame + 1 \in Nat
    BY <1>1
  <2>4. /\ Fallen(sprites, i, Shown(sprites, frame)) \in 0..FallSteps
        /\ Fallen(sprites, i, Shown(sprites, frame + 1)) \in 0..FallSteps
    BY <1>6, <2>3
  <2>5. QED
    BY <2>1, <2>2, <2>4, DropFacts
<1>10. CaptionComesLast
  <2> SUFFICES ASSUME frame >= LastFall(sprites), NEW i \in DOMAIN sprites
               PROVE  Drop(sprites, i, Shown(sprites, frame)) = 0
    BY DEF CaptionComesLast
  <2>1. Shown(sprites, frame) = FallSteps + Spread(sprites)
    BY <1>1, <1>3 DEF Shown, Smaller, LastFall, FallSteps
  <2>2. /\ StartStep(sprites, i) \in Nat /\ StartStep(sprites, i) <= Spread(sprites)
        /\ Shown(sprites, frame) \in Int
        /\ Shown(sprites, frame) >= FallSteps + StartStep(sprites, i)
    BY <1>3, <1>4, <2>1 DEF FallSteps
  <2>3. /\ Fallen(sprites, i, Shown(sprites, frame)) = FallSteps
        /\ Fallen(sprites, i, Shown(sprites, frame)) \in 0..FallSteps
    BY <2>2, FallenFacts
  <2>4. /\ sprites[i].y \in Int /\ sprites[i].h \in Nat
        /\ sprites[i].y + sprites[i].h >= -FallMargin
    BY <1>2 DEF Sprite
  <2>5. QED
    BY <2>3, <2>4, DropFacts
<1>11. QED
  BY <1>7, <1>8, <1>9, <1>10

\* However many faces there are, the glasses fall left to right, from above the
\* picture and never upwards, and all have landed when the caption comes.
THEOREM FallIsStaggered == LandsNear => (SpecProcessing => []Timeline)
<1> SUFFICES ASSUME LandsNear PROVE SpecProcessing => []Timeline
  OBVIOUS
<1>1. InitProcessing => Falling
  BY DEF InitProcessing, InitLoading, Falling
<1>2. Typed /\ Falling => Timeline
  BY FallingIsTimeline
<1>3. SpecProcessing => []Typed
  BY InitTyped, NextFlight, NextWritten, NextTyped, PTL DEF SpecProcessing
<1>4. QED
  BY <1>1, <1>2, <1>3, NextFalling, PTL DEF SpecProcessing

-----------------------------------------------------------------------------
(* Euclid's algorithm, by induction: what is wrong would be wrong first for    *)
(* some least number.                                                          *)

\* The least-number principle, for a set of naturals.
LEMMA Least ==
  ASSUME NEW T, T \subseteq Nat, T # {}
  PROVE  \E x \in T : \A y \in T : x <= y
<1> DEFINE R == OpToRel(<, Nat)
<1>1. IsWellFoundedOn(R, Nat)
  BY NatLessThanWellFounded
<1>2. \A x, y \in Nat : x < y => <<x, y>> \in R
  BY DEF OpToRel
<1> HIDE DEF R
<1>3. PICK x \in T : \A y \in T : ~(<<y, x>> \in R)
  BY <1>1, WFMin
<1>4. \A y \in T : ~(y < x)
  BY <1>2, <1>3
<1>5. QED
  BY <1>4

Divides(d, a) == \E k \in Int : a = d * k
Common(a, b) == {d \in Nat \ {0} : Divides(d, a) /\ Divides(d, b)}
Best(S) == CHOOSE d \in S : \A e \in S : e <= d

\* One step of the algorithm keeps the common divisors.
LEMMA CommonStep ==
  ASSUME NEW a \in Nat, NEW b \in Nat \ {0}
  PROVE  Common(a, b) = Common(b, a % b)
<1> DEFINE q == a \div b
           r == a % b
<1>1. q \in Int /\ r \in Nat /\ a = b * q + r
  BY Euclid
<1> HIDE DEF q, r
<1>2. ASSUME NEW d \in Nat \ {0}, Divides(d, b)
      PROVE  Divides(d, a) <=> Divides(d, r)
  <2>1. PICK k \in Int : b = d * k
    BY <1>2 DEF Divides
  <2>2. b * q = d * (k * q) /\ k * q \in Int
    BY <1>1, <2>1
  <2>3. ASSUME NEW l \in Int, a = d * l PROVE r = d * (l - k * q)
    <3>1. d * (l - k * q) = d * l - d * (k * q)
      BY <1>1, <2>2
    <3>2. QED
      BY <1>1, <2>2, <2>3, <3>1
  <2>4. ASSUME NEW l \in Int, r = d * l PROVE a = d * (k * q + l)
    <3>1. d * (k * q + l) = d * (k * q) + d * l
      BY <1>1, <2>2
    <3>2. QED
      BY <1>1, <2>2, <2>4, <3>1
  <2>5. \A l \in Int : l - k * q \in Int /\ k * q + l \in Int
    BY <2>2
  <2>6. QED
    BY <2>3, <2>4, <2>5 DEF Divides
<1>3. QED
  BY <1>2 DEF Common, r

\* Of a number and nothing the best is the number.
LEMMA BestOfOne == 
  ASSUME NEW b \in Nat \ {0}
  PROVE  Best(Common(b, 0)) = b
<1>1. Divides(b, b) /\ Divides(b, 0)
  <2>1. b = b * 1 /\ 0 = b * 0
    OBVIOUS
  <2>2. QED
    BY <2>1 DEF Divides
<1>2. b \in Common(b, 0)
  BY <1>1 DEF Common
<1>3. ASSUME NEW e \in Common(b, 0) PROVE e <= b
  <2>1. PICK k \in Int : b = e * k /\ e \in Nat \ {0}
    BY DEF Common, Divides
  <2>2. k >= 1
    <3>1. CASE k <= 0
      <4>1. e * k <= 0
        BY <2>1, <3>1
      <4>2. QED
        BY <2>1, <4>1
    <3>2. QED
      BY <2>1, <3>1
  <2>3. e * k >= e
    BY <2>1, <2>2
  <2>4. QED
    BY <2>1, <2>3
<1>4. \A d \in Common(b, 0) : d \in Nat
  BY DEF Common
<1> DEFINE S == Common(b, 0)
<1>5. /\ Best(S) \in S /\ \A e \in S : e <= Best(S)
  BY <1>2, <1>3 DEF Best
<1> HIDE DEF S
<1>6. QED
  BY <1>2, <1>3, <1>4, <1>5 DEF S

\* The recursion of Gcd has a solution, so Gcd is one.
LEMMA GcdUnfolds ==
  ASSUME NEW a \in Nat, NEW b \in Nat
  PROVE  Gcd[<<a, b>>] = IF b = 0 THEN a ELSE Gcd[<<b, a % b>>]
<1> DEFINE Pairs == Nat \X Nat
           Def(g, p) == IF p[2] = 0 THEN p[1] ELSE g[<<p[2], p[1] % p[2]>>]
           G == [p \in Pairs |-> IF p[2] = 0 THEN p[1] ELSE Best(Common(p[1], p[2]))]
<1>1. ASSUME NEW p \in Pairs PROVE G[p] = Def(G, p)
  <2>1. CASE p[2] = 0
    BY <2>1
  <2>2. CASE p[2] # 0
    <3>1. /\ p[1] \in Nat /\ p[2] \in Nat \ {0} /\ p[1] % p[2] \in Nat
      <4>1. p[1] \in Nat /\ p[2] \in Nat \ {0}
        BY <2>2
      <4>2. \A a1 \in Nat, b1 \in Nat \ {0} : a1 % b1 \in Nat
        BY Euclid
      <4>3. QED
        BY <4>1, <4>2
    <3>2. <<p[2], p[1] % p[2]>> \in Pairs
      BY <3>1
    <3>3. G[<<p[2], p[1] % p[2]>>] = IF p[1] % p[2] = 0 THEN p[2] ELSE Best(Common(p[2], p[1] % p[2]))
      BY <3>2
    <3>4. G[p] = Best(Common(p[2], p[1] % p[2]))
      BY <2>2, <3>1, CommonStep
    <3>5. p[1] % p[2] = 0 => Best(Common(p[2], p[1] % p[2])) = p[2]
      BY <3>1, BestOfOne
    <3>6. QED
      BY <2>2, <3>3, <3>4, <3>5
  <2>3. QED
    BY <2>1, <2>2
<1>2. G = [p \in Pairs |-> Def(G, p)]
  BY <1>1
<1>3. Gcd = CHOOSE g : g = [p \in Pairs |-> Def(g, p)]
  BY DEF Gcd
<1> HIDE DEF G
<1>4. Gcd = [p \in Pairs |-> Def(Gcd, p)]
  BY <1>2, <1>3
<1>5. QED
  BY <1>4

\* What Euclid's algorithm answers divides both numbers.
LEMMA GcdDivides ==
  ASSUME NEW a \in Nat \ {0}, NEW b \in Nat
  PROVE  Gcd[<<a, b>>] \in Common(a, b)
<1> DEFINE Right(m, n) == m > 0 \/ n > 0 => Gcd[<<m, n>>] \in Common(m, n)
           Wrong == {n \in Nat : \E m \in Nat : ~Right(m, n)}
<1>1. Wrong = {}
  <2> SUFFICES ASSUME Wrong # {} PROVE FALSE
    OBVIOUS
  <2>1. PICK n \in Wrong : \A l \in Wrong : n <= l
    <3>1. Wrong \subseteq Nat
      OBVIOUS
    <3> HIDE DEF Wrong
    <3>2. QED
      BY <3>1, Least
  <2>2. PICK m \in Nat : ~Right(m, n)
    OBVIOUS
  <2>3. CASE n = 0
    <3>1. Gcd[<<m, n>>] = m /\ m > 0
      <4>1. Gcd[<<m, 0>>] = m
        BY GcdUnfolds
      <4>2. m > 0 \/ n > 0
        BY <2>2
      <4>3. QED
        BY <2>3, <4>1, <4>2
    <3>2. m = m * 1 /\ 0 = m * 0
      OBVIOUS
    <3>3. m \in Common(m, 0)
      BY <3>1, <3>2 DEF Common, Divides
    <3>4. QED
      BY <2>2, <2>3, <3>1, <3>3
  <2>4. CASE n # 0
    <3>1. n \in Nat \ {0}
      BY <2>4
    <3>2. m % n \in 0..(n - 1) /\ m % n \in Nat
      BY <3>1, Euclid
    <3>3. m % n \notin Wrong
      BY <2>1, <3>1, <3>2
    <3>4. Right(n, m % n)
      BY <3>1, <3>2, <3>3
    <3>5. Gcd[<<n, m % n>>] \in Common(n, m % n)
      BY <3>1, <3>4
    <3>6. Gcd[<<m, n>>] = Gcd[<<n, m % n>>] /\ Common(m, n) = Common(n, m % n)
      BY <3>1, GcdUnfolds, CommonStep
    <3>7. QED
      BY <2>2, <3>5, <3>6
  <2>5. QED
    BY <2>3, <2>4
<1>2. Right(a, b)
  BY <1>1
<1>3. QED
  BY <1>2

\* Dividing out what divides.
LEMMA DivExact ==
  ASSUME NEW k \in Int, NEW d \in Nat \ {0}
  PROVE  (d * k) \div d = k
<1>1. d * k \in Int
  OBVIOUS
<1>2. /\ (d * k) \div d \in Int /\ (d * k) % d \in 0..(d - 1)
      /\ d * k = d * ((d * k) \div d) + ((d * k) % d)
  BY <1>1, Euclid
<1>3. QED
  BY <1>2

\* A ratio in lowest terms is the same ratio.
LEMMA RatioFacts ==
  ASSUME NEW a \in Nat \ {0}, NEW b \in Nat \ {0}
  PROVE  /\ Ratio(a, b).num \in Nat \ {0} /\ Ratio(a, b).den \in Nat \ {0}
         /\ Ratio(a, b).num * b = Ratio(a, b).den * a
<1> DEFINE d == Gcd[<<a, b>>]
<1>1. d \in Nat \ {0} /\ Divides(d, a) /\ Divides(d, b)
  BY GcdDivides DEF Common
<1>2. Ratio(a, b).num = a \div d /\ Ratio(a, b).den = b \div d
  BY DEF Ratio
<1> HIDE DEF d
<1>3. PICK k \in Int, l \in Int : a = d * k /\ b = d * l
  BY <1>1 DEF Divides
<1>4. a \div d = k /\ b \div d = l
  BY <1>1, <1>3, DivExact
<1>5. k > 0 /\ l > 0
  <2>1. \A n \in Int : n <= 0 => d * n <= 0
    BY <1>1
  <2>2. QED
    BY <1>3, <2>1
<1>6. k * (d * l) = l * (d * k)
  BY <1>1
<1>7. QED
  BY <1>2, <1>3, <1>4, <1>5, <1>6

-----------------------------------------------------------------------------
(* Boxes and glasses on the picture. *)

\* Multiplying an inequality, and dividing it.
LEMMA Times ==
  ASSUME NEW n \in Nat, NEW x \in Int, NEW y \in Int, x <= y
  PROVE  n * x \in Int /\ n * y \in Int /\ n * x <= n * y
OBVIOUS

LEMMA Cancel ==
  ASSUME NEW n \in Nat \ {0}, NEW x \in Int, NEW y \in Int, n * x <= n * y
  PROVE  x <= y
<1> SUFFICES ASSUME y + 1 <= x PROVE FALSE
  OBVIOUS
<1>1. n * (y + 1) <= n * x
  BY Times
<1>2. n * (y + 1) = n * y + n
  OBVIOUS
<1>3. QED
  BY <1>1, <1>2

\* A picture with at least a pixel.
Picture == [w : Nat \ {0}, h : Nat \ {0}]

\* One side of a picture of which L pixels become M.
Side(w, L, M) == Larger(1, RoundDiv(w * M, L))

\* What the shrinking loses: a place, given in thousandths e of the width, that
\* is rounded on the shrunk picture and scaled back is off by the factor at most.
LEMMA Deviation ==
  ASSUME NEW w \in Nat \ {0}, NEW L \in Nat \ {0}, NEW M \in Nat \ {0}, NEW e \in Int, -1000 <= e, e <= 1000
  PROVE  /\ 2000 * (L * RoundDiv(e * Side(w, L, M), 1000)) >= 2 * (M * (e * w)) - 2000 * L
         /\ 2000 * (L * RoundDiv(e * Side(w, L, M), 1000)) <= 2 * (M * (e * w)) + 2000 * L
<1> DEFINE W == Side(w, L, M)
           m == RoundDiv(e * W, 1000)
<1>1. W \in Nat \ {0} /\ e * W \in Int
  <2>1. w * M \in Int
    OBVIOUS
  <2>2. RoundDiv(w * M, L) \in Int
    BY <2>1, RoundHalf
  <2>3. W \in Nat \ {0}
    BY <2>2 DEF Side, Larger
  <2> HIDE DEF W
  <2>4. QED
    BY <2>3
<1>2. m \in Int /\ 2000 * m >= 2 * (e * W) - 1000 /\ 2000 * m <= 2 * (e * W) + 1000
  <2> HIDE DEF W
  <2>1. /\ m \in Int /\ 2 * (1000 * m) >= 2 * (e * W) - 1000 /\ 2 * (1000 * m) <= 2 * (e * W) + 1000
    BY <1>1, RoundHalf
  <2> HIDE DEF m
  <2>2. QED
    BY <1>1, <2>1
<1>3. \/ 2 * (L * W) >= 2 * (w * M) - L /\ 2 * (L * W) <= 2 * (w * M) + L
      \/ W = 1 /\ 2 * (w * M) <= L
  <2>1. /\ w * M \in Int
    OBVIOUS
  <2>2. /\ RoundDiv(w * M, L) \in Int
        /\ 2 * (L * RoundDiv(w * M, L)) >= 2 * (w * M) - L
        /\ 2 * (L * RoundDiv(w * M, L)) <= 2 * (w * M) + L
    BY <2>1, RoundHalf
  <2> DEFINE R == RoundDiv(w * M, L)
             P == w * M
  <2>3. W = IF 1 >= R THEN 1 ELSE R
    BY DEF Side, Larger
  <2>4. /\ P \in Int /\ R \in Int /\ L * R \in Int /\ (R <= 0 => L * R <= 0)
        /\ 2 * (L * R) >= 2 * P - L /\ 2 * (L * R) <= 2 * P + L
    BY <2>1, <2>2
  <2> HIDE DEF R, P, W
  <2>5. W = R \/ (W = 1 /\ R <= 0)
    BY <2>3, <2>4
  <2>6. \/ 2 * (L * W) >= 2 * P - L /\ 2 * (L * W) <= 2 * P + L
        \/ W = 1 /\ 2 * P <= L
    BY <2>4, <2>5
  <2>7. QED
    BY <2>6 DEF R, P
<1> HIDE DEF W, m
<1> DEFINE X == M * (e * w)
<1>4. X \in Int /\ e * (w * M) = X /\ L * m \in Int
  BY <1>2
<1>5. CASE 2 * (L * W) >= 2 * (w * M) - L /\ 2 * (L * W) <= 2 * (w * M) + L
  <2> DEFINE D == 2 * (L * W) - 2 * (w * M)
  <2>1. D \in -L..L
    BY <1>1, <1>5
  <2>2. e * D \in Int /\ e * D >= -1000 * L /\ e * D <= 1000 * L
    <3> HIDE DEF D
    <3>1. QED
      BY <2>1
  <2>3. e * D = 2 * (L * (e * W)) - 2 * X
    BY <1>1, <1>4
  <2>4. /\ L * (2000 * m) >= L * (2 * (e * W) - 1000)
        /\ L * (2000 * m) <= L * (2 * (e * W) + 1000)
    BY <1>1, <1>2, Times
  <2>5. /\ L * (2 * (e * W) - 1000) = 2 * (L * (e * W)) - 1000 * L
        /\ L * (2 * (e * W) + 1000) = 2 * (L * (e * W)) + 1000 * L
        /\ L * (2000 * m) = 2000 * (L * m) /\ L * (e * W) \in Int
    BY <1>1, <1>2
  <2> HIDE DEF D, X
  <2>6. QED
    BY <1>4, <2>2, <2>3, <2>4, <2>5 DEF W, m
<1>6. CASE W = 1 /\ 2 * (w * M) <= L
  <2>1. e * W = e
    BY <1>6
  <2>2. m \in {-1, 0, 1} /\ (m = 1 => e >= 0) /\ (m = -1 => e <= 0)
    BY <1>2, <2>1
  <2> DEFINE V == 2 * (w * M)
  <2>3. V \in 0..L /\ 2 * X = e * V
    BY <1>4, <1>6
  <2> HIDE DEF V, X
  <2>4. /\ e * V \in Int /\ e * V >= -1000 * L /\ e * V <= 1000 * L
        /\ (e >= 0 => e * V >= 0) /\ (e <= 0 => e * V <= 0)
    BY <2>3
  <2>5. /\ m = 0 => L * m = 0
        /\ m = 1 => L * m = L
        /\ m = -1 => L * m = -L
    BY <2>2
  <2> DEFINE Y == L * m
             Z == e * V
  <2>6. Y \in {-L, 0, L} /\ (Y = L => Z >= 0 \/ L = 0) /\ (Y = -L => Z <= 0 \/ L = 0)
    BY <2>2, <2>4, <2>5
  <2>7. Z \in Int /\ Z >= -1000 * L /\ Z <= 1000 * L /\ 2 * X = Z /\ X \in Int
    BY <1>4, <2>3, <2>4
  <2> HIDE DEF Y, Z
  <2>8. 2000 * Y >= 2 * X - 2000 * L /\ 2000 * Y <= 2 * X + 2000 * L
    BY <2>6, <2>7
  <2>9. QED
    BY <2>8 DEF W, m, X, Y
<1>7. QED
  BY <1>3, <1>5, <1>6
\* The factor undoes the shrinking, within itself.
LEMMA Scaled ==
  ASSUME NEW s \in Picture, NEW e \in Int, -1000 <= e, e <= 1000
  PROVE  /\ Factor(s).num \in Nat \ {0} /\ Factor(s).den \in Nat \ {0}
         /\ DetectionSize(s).w \in Nat \ {0}
         /\ RoundDiv(e * DetectionSize(s).w, 1000) \in Int
         /\ 1000 * (RoundDiv(e * DetectionSize(s).w, 1000) * Factor(s).num)
              >= Factor(s).den * (e * s.w) - 1000 * Factor(s).num
         /\ 1000 * (RoundDiv(e * DetectionSize(s).w, 1000) * Factor(s).num)
              <= Factor(s).den * (e * s.w) + 1000 * Factor(s).num
<1> DEFINE num == Factor(s).num
           den == Factor(s).den
           W == DetectionSize(s).w
           m == RoundDiv(e * W, 1000)
           L == Longest(s)
           M == MaxDetectionSize
<1>1. s.w \in Nat \ {0} /\ s.h \in Nat \ {0} /\ L \in Nat \ {0} /\ e * s.w \in Int
  BY DEF Picture, Longest, Larger
<1>2. CASE Shrinks(s)
  <2>1. M \in Nat \ {0}
    BY <1>2, DetectionAssumption DEF Shrinks
  <2>2. num \in Nat \ {0} /\ den \in Nat \ {0} /\ num * M = den * L
    BY <1>1, <1>2, <2>1, RatioFacts DEF Factor
  <2>3. W = Larger(1, RoundDiv(s.w * M, L))
    BY <1>2 DEF DetectionSize, Shrunk
  <2>4. W \in Nat \ {0} /\ e * W \in Int
    <3>1. s.w * M \in Int
      BY <1>1, <2>1
    <3>2. RoundDiv(s.w * M, L) \in Int
      BY <1>1, <3>1, RoundHalf
    <3> HIDE DEF W
    <3>3. QED
      BY <2>3, <3>2 DEF Larger
  <2>5. m \in Int
    <3> HIDE DEF W
    <3>1. QED
      BY <2>4, RoundHalf
  <2>6. /\ 2000 * (L * m) >= 2 * (M * (e * s.w)) - 2000 * L
        /\ 2000 * (L * m) <= 2 * (M * (e * s.w)) + 2000 * L
    <3>1. W = Side(s.w, L, M)
      BY <2>3 DEF Side
    <3> DEFINE w == s.w
    <3>2. w \in Nat \ {0} /\ L \in Nat \ {0} /\ M \in Nat \ {0}
      BY <1>1, <2>1
    <3> HIDE DEF L, M, w
    <3>3. /\ 2000 * (L * RoundDiv(e * Side(w, L, M), 1000)) >= 2 * (M * (e * w)) - 2000 * L
          /\ 2000 * (L * RoundDiv(e * Side(w, L, M), 1000)) <= 2 * (M * (e * w)) + 2000 * L
      BY <3>2, Deviation
    <3>4. m = RoundDiv(e * Side(w, L, M), 1000)
      BY <3>1 DEF w
    <3> HIDE DEF m
    <3>5. QED
      BY <3>3, <3>4 DEF w
  <2> DEFINE P == e * s.w
  <2> HIDE DEF num, den, W, m, L, M
  <2>7. P \in Int
    BY <1>1
  <2> HIDE DEF P
  <2>8. /\ den * (2000 * (L * m)) = M * (2000 * (m * num))
        /\ den * (2 * (M * P) - 2000 * L) = M * (2 * (den * P) - 2000 * num)
        /\ den * (2 * (M * P) + 2000 * L) = M * (2 * (den * P) + 2000 * num)
    <3>1. den * (2000 * (L * m)) = 2000 * m * (den * L)
      BY <1>1, <2>2, <2>5
    <3>2. M * (2000 * (m * num)) = 2000 * m * (num * M)
      BY <2>1, <2>2, <2>5
    <3>3. /\ den * (2 * (M * P) - 2000 * L) = 2 * (M * (den * P)) - 2000 * (den * L)
          /\ den * (2 * (M * P) + 2000 * L) = 2 * (M * (den * P)) + 2000 * (den * L)
      BY <1>1, <2>1, <2>2, <2>7
    <3>4. /\ M * (2 * (den * P) - 2000 * num) = 2 * (M * (den * P)) - 2000 * (num * M)
          /\ M * (2 * (den * P) + 2000 * num) = 2 * (M * (den * P)) + 2000 * (num * M)
      BY <2>1, <2>2, <2>7
    <3>5. QED
      BY <2>2, <3>1, <3>2, <3>3, <3>4
  <2> DEFINE Y == 2000 * (m * num)
             Lo == 2 * (den * P) - 2000 * num
             Hi == 2 * (den * P) + 2000 * num
             A == 2000 * (L * m)
             ALo == 2 * (M * P) - 2000 * L
             AHi == 2 * (M * P) + 2000 * L
  <2>9. /\ Y \in Int /\ Lo \in Int /\ Hi \in Int
        /\ A \in Int /\ ALo \in Int /\ AHi \in Int /\ ALo <= A /\ A <= AHi
    BY <1>1, <2>1, <2>2, <2>5, <2>6, <2>7 DEF P
  <2>10. den * A = M * Y /\ den * ALo = M * Lo /\ den * AHi = M * Hi
    BY <2>8
  <2> HIDE DEF Y, Lo, Hi, A, ALo, AHi
  <2>11. den * ALo <= den * A /\ den * A <= den * AHi
    BY <2>2, <2>9, Times
  <2>12. Lo <= Y /\ Y <= Hi
    BY <2>1, <2>9, <2>10, <2>11, Cancel
  <2>13. m * num \in Int /\ den * P \in Int
    BY <2>2, <2>5, <2>7
  <2>14. 1000 * (m * num) >= den * P - 1000 * num /\ 1000 * (m * num) <= den * P + 1000 * num
    BY <2>2, <2>12, <2>13 DEF Y, Lo, Hi
  <2>15. QED
    BY <2>2, <2>4, <2>5, <2>14 DEF num, den, W, m, P
<1>3. CASE ~Shrinks(s)
  <2>1. num \in Nat \ {0} /\ den \in Nat \ {0} /\ num = den
    <3>1. Factor(s) = Ratio(1, 1)
      BY <1>3 DEF Factor
    <3>2. /\ Ratio(1, 1).num \in Nat \ {0} /\ Ratio(1, 1).den \in Nat \ {0}
          /\ Ratio(1, 1).num * 1 = Ratio(1, 1).den * 1
      BY RatioFacts
    <3>3. QED
      BY <3>1, <3>2
  <2>2. W = s.w
    BY <1>3 DEF DetectionSize
  <2>3. m \in Int /\ 2 * (1000 * m) >= 2 * (e * s.w) - 1000 /\ 2 * (1000 * m) <= 2 * (e * s.w) + 1000
    <3> DEFINE a == e * s.w
    <3>1. a \in Int /\ m = RoundDiv(a, 1000)
      BY <1>1, <2>2
    <3> HIDE DEF a, m
    <3>2. m \in Int /\ 2 * (1000 * m) >= 2 * a - 1000 /\ 2 * (1000 * m) <= 2 * a + 1000
      BY <3>1, RoundHalf
    <3>3. QED
      BY <3>2 DEF a
  <2> DEFINE P == e * s.w
  <2> HIDE DEF num, den, W, m
  <2>4. P \in Int /\ P - 1000 <= 1000 * m /\ 1000 * m <= P + 1000
    BY <1>1, <2>3
  <2> HIDE DEF P
  <2>5. den * (P - 1000) <= den * (1000 * m) /\ den * (1000 * m) <= den * (P + 1000)
    BY <2>1, <2>3, <2>4, Times
  <2>6. /\ den * (P - 1000) = den * P - 1000 * den /\ den * (P + 1000) = den * P + 1000 * den
        /\ den * (1000 * m) = 1000 * (m * num) /\ den * P \in Int /\ m * num \in Int
    BY <2>1, <2>3, <2>4
  <2>7. QED
    BY <1>1, <2>1, <2>2, <2>3, <2>5, <2>6 DEF num, den, W, m, P
<1>4. QED
  BY <1>2, <1>3
\* Where the glasses go for given landmarks: by a factor num/den.
LEMMA PlaceFacts ==
  ASSUME NEW m, NEW f, m.left \in Int, m.right \in Int,
         f.num \in Nat \ {0}, f.den \in Nat \ {0}
  PROVE  /\ Place(m, f).x \in Int /\ Place(m, f).w \in Int /\ (Place(m, f).w * 415) \div 1024 \in Int
         /\ m.left * f.num \in Int /\ m.right * f.num \in Int
         /\ Place(m, f).x + (Place(m, f).w * 415) \div 1024 = RoundDiv(m.left * f.num, f.den)
         /\ f.den * (Place(m, f).x + Place(m, f).w) >= m.right * f.num
         /\ Place(m, f).w > 16
              => 40 * (f.den * Place(m, f).w) <= 94 * (m.right * f.num - m.left * f.num) + 20 * f.den
<1> DEFINE num == f.num
           den == f.den
           A == m.left * num
           B == m.right * num
           D == (m.right - m.left) * num
           span == Larger(D, den)
           R1 == RoundDiv(A, den)
           R2 == RoundDiv(47 * span, 20 * den)
           W == Larger(16, R2)
           t == (W * 415) \div 1024
<1>1. Place(m, f).x = R1 - t /\ Place(m, f).w = W
  BY DEF Place
<1>2. A \in Int /\ B \in Int /\ D \in Int /\ D = B - A
  BY DEF A, B, D
<1>3. /\ span \in Int /\ span >= D /\ den \in Nat \ {0}
      /\ span = D \/ span = den
  <2> HIDE DEF D
  <2>1. QED
    BY <1>2 DEF Larger
<1>4. R1 \in Int /\ den * R1 \in Int /\ 2 * (den * R1) >= 2 * A - den /\ 2 * (den * R1) <= 2 * A + den
  <2> HIDE DEF A, den
  <2>1. QED
    BY <1>2, <1>3, RoundHalf
<1>5. /\ R2 \in Int /\ 40 * (den * R2) >= 94 * span - 20 * den
      /\ 40 * (den * R2) <= 94 * span + 20 * den
  <2> DEFINE n == 47 * span
             d == 20 * den
  <2> HIDE DEF span, den
  <2>1. n \in Int /\ d \in Nat \ {0}
    BY <1>3
  <2> HIDE DEF n, d
  <2>2. /\ RoundDiv(n, d) \in Int /\ 2 * (d * RoundDiv(n, d)) >= 2 * n - d
        /\ 2 * (d * RoundDiv(n, d)) <= 2 * n + d
    BY <2>1, RoundHalf
  <2>3. R2 = RoundDiv(n, d)
    BY DEF n, d
  <2> HIDE DEF R2
  <2>4. R2 \in Int /\ 2 * (d * R2) >= 2 * n - d /\ 2 * (d * R2) <= 2 * n + d
    BY <2>2, <2>3
  <2>5. d * R2 = 20 * (den * R2)
    BY <1>3, <2>4 DEF d
  <2>6. QED
    BY <1>3, <2>1, <2>4, <2>5 DEF n, d
<1> HIDE DEF num, den, A, B, D, span, R1, R2
<1>6. W \in Int /\ W >= 16 /\ W >= R2 /\ (W > 16 => W = R2)
  BY <1>5 DEF Larger
<1> HIDE DEF W
<1>7. t \in Int /\ t >= 6 /\ 1024 * t <= 415 * W
  BY <1>6
<1> HIDE DEF t
<1>8. /\ den * W \in Int /\ den * t \in Int /\ den * W >= 16 * den /\ den * t >= 6 * den
      /\ 1024 * (den * t) <= 415 * (den * W)
  <2>1. den * (1024 * t) <= den * (415 * W) /\ den * 16 <= den * W /\ den * 6 <= den * t
    BY <1>3, <1>6, <1>7, Times
  <2>2. /\ den * (1024 * t) = 1024 * (den * t) /\ den * (415 * W) = 415 * (den * W)
        /\ den * W \in Int /\ den * t \in Int
    BY <1>3, <1>6, <1>7
  <2>3. QED
    BY <1>3, <2>1, <2>2
<1>9. den * R2 <= den * W /\ den * R2 \in Int
  BY <1>3, <1>5, <1>6, Times
<1>10. /\ den * (R1 - t) = den * R1 - den * t
       /\ den * (R1 - t + W) = den * R1 - den * t + den * W
  BY <1>3, <1>4, <1>6, <1>7
<1>11. R1 - t + t = R1
  BY <1>4, <1>7
<1>12. den * (R1 - t + W) >= B
  BY <1>2, <1>3, <1>4, <1>5, <1>8, <1>9, <1>10
<1>13. W > 16 => 40 * (den * W) <= 94 * (B - A) + 20 * den
  <2> SUFFICES ASSUME W > 16 PROVE 40 * (den * W) <= 94 * (B - A) + 20 * den
    OBVIOUS
  <2>1. CASE span = D
    BY <1>2, <1>3, <1>5, <1>6, <2>1
  <2>2. CASE span = den
    <3>1. den * 17 <= den * W
      BY <1>3, <1>6, Times
    <3>2. QED
      BY <1>3, <1>5, <1>6, <1>8, <2>2, <3>1
  <2>3. QED
    BY <1>3, <2>1, <2>2
<1>14. QED
  BY <1>1, <1>2, <1>4, <1>6, <1>7, <1>11, <1>12, <1>13 DEF A, B, den, num, R1, t

\* More than the factor, in whole pixels.
LEMMA PixelCovers ==
  ASSUME NEW num \in Nat \ {0}, NEW den \in Nat \ {0}
  PROVE  \E p \in Nat : p = num \div den + 1 /\ den * p >= num + 1
<1> DEFINE q == num \div den
<1>1. q \in Int /\ num % den \in 0..(den - 1) /\ num = den * q + (num % den)
  BY Euclid
<1>2. q >= 0
  <2>1. CASE q <= -1
    <3>1. den * q <= den * (-1)
      BY <1>1, <2>1, Times
    <3>2. QED
      BY <1>1, <3>1
  <2>2. QED
    BY <1>1, <2>1
<1> DEFINE r == num % den
<1> HIDE DEF q, r
<1>3. den * (q + 1) = den * q + den
  BY <1>1
<1>4. QED
  BY <1>1, <1>2, <1>3 DEF q, r

\* The glasses are where the eyes are, within a pixel of the shrunk picture.
LEMMA OverTheEyes ==
  ASSUME NEW c, Reported(c), size \in Picture
  PROVE  GlassesOnEyes(c)
<1> DEFINE num == Factor(size).num
           den == Factor(size).den
           m == Landmarks(c, size)
           g == OnPicture(c, size)
           pixel == Pixel(size)
           e1 == c.eyes[1]
           e2 == c.eyes[2]
           A == m.left * num
           B == m.right * num
           P1 == e1 * size.w
           P2 == e2 * size.w
           lens == g.x + (g.w * 415) \div 1024
           off == 1000 * (pixel + 1)
<1>1. /\ e1 \in Int /\ e2 \in Int /\ P1 \in Int /\ P2 \in Int
      /\ (e2 - e1) * size.w = P2 - P1
  BY DEF Reported, Picture
<1>2. /\ num \in Nat \ {0} /\ den \in Nat \ {0} /\ m.left \in Int /\ m.right \in Int
      /\ 1000 * A <= den * P1 + 1000 * num /\ 1000 * A >= den * P1 - 1000 * num
      /\ 1000 * B <= den * P2 + 1000 * num /\ 1000 * B >= den * P2 - 1000 * num
  <2>1. /\ m.left = RoundDiv(e1 * DetectionSize(size).w, 1000)
        /\ m.right = RoundDiv(e2 * DetectionSize(size).w, 1000)
    BY DEF Landmarks
  <2>2. e1 \in Int /\ -1000 <= e1 /\ e1 <= 1000 /\ e2 \in Int /\ -1000 <= e2 /\ e2 <= 1000
    BY DEF Reported
  <2> HIDE DEF m, e1, e2
  <2>3. QED
    BY <2>1, <2>2, Scaled
<1>3. /\ g.x \in Int /\ g.w \in Int /\ A \in Int /\ B \in Int /\ lens = RoundDiv(A, den)
      /\ den * (g.x + g.w) >= B
      /\ g.w > 16 => 40 * (den * g.w) <= 94 * (B - A) + 20 * den
  <2>1. g = Place(m, Factor(size))
    BY DEF OnPicture, LandmarkFactor
  <2> HIDE DEF m, g
  <2>2. QED
    BY <1>2, <2>1, PlaceFacts
<1>4. pixel \in Nat /\ den * pixel >= num + 1
  <2> HIDE DEF num, den
  <2>0. num \in Nat \ {0} /\ den \in Nat \ {0}
    BY <1>2
  <2>1. \E p \in Nat : p = num \div den + 1 /\ den * p >= num + 1
    BY <2>0, PixelCovers
  <2>2. QED
    BY <2>1 DEF Pixel, num, den
<1> DEFINE y == g.x + g.w
           v == g.w
<1>5. /\ lens * 1000 - P1 \in (-off)..off
      /\ y * 1000 >= P2 - off
      /\ v > 16 => 20 * (v * 1000) <= 47 * ((e2 - e1) * size.w + 2 * off)
      => GlassesOnEyes(c)
  BY DEF GlassesOnEyes, P1, P2, e1, e2, y, v, off, lens, g, pixel
<1>6. /\ lens \in Int /\ 2 * (den * lens) >= 2 * A - den /\ 2 * (den * lens) <= 2 * A + den
  <2> HIDE DEF A, den, lens
  <2>1. A \in Int /\ den \in Nat \ {0} /\ lens = RoundDiv(A, den)
    BY <1>2, <1>3
  <2>2. /\ RoundDiv(A, den) \in Int /\ 2 * (den * RoundDiv(A, den)) >= 2 * A - den
        /\ 2 * (den * RoundDiv(A, den)) <= 2 * A + den
    BY <2>1, RoundHalf
  <2>3. QED
    BY <2>1, <2>2
<1>7. /\ y \in Int /\ v \in Int /\ den * y >= B
      /\ v > 16 => 40 * (den * v) <= 94 * (B - A) + 20 * den
  BY <1>3
<1> HIDE DEF num, den, m, g, pixel, e1, e2, A, B, P1, P2, lens, y, v
<1>8. /\ off \in Int /\ den * off = 1000 * (den * pixel) + 1000 * den
      /\ den * pixel \in Int /\ den * off >= 1000 * num + 1000 * den
  BY <1>2, <1>4
<1> HIDE DEF off
<1>9. /\ den * (lens * 1000 - P1) = 1000 * (den * lens) - den * P1
      /\ den * (0 - off) = 0 - den * off /\ 0 - off \in Int
      /\ den * (y * 1000) = 1000 * (den * y) /\ den * (P2 - off) = den * P2 - den * off
      /\ den * lens \in Int /\ den * y \in Int /\ den * P1 \in Int /\ den * P2 \in Int
      /\ den * off \in Int
  BY <1>1, <1>2, <1>6, <1>7, <1>8
<1>10. lens * 1000 - P1 \in (-off)..off
  <2>1. den * (lens * 1000 - P1) <= den * off /\ den * (0 - off) <= den * (lens * 1000 - P1)
    BY <1>2, <1>3, <1>6, <1>8, <1>9
  <2>2. lens * 1000 - P1 \in Int
    BY <1>1, <1>6
  <2>3. lens * 1000 - P1 <= off /\ 0 - off <= lens * 1000 - P1
    BY <1>2, <1>8, <1>9, <2>1, <2>2, Cancel
  <2>4. QED
    BY <1>8, <2>2, <2>3
<1>11. y * 1000 >= P2 - off
  <2>1. den * (P2 - off) <= den * (y * 1000)
    BY <1>2, <1>3, <1>7, <1>8, <1>9
  <2>2. y * 1000 \in Int /\ P2 - off \in Int
    BY <1>1, <1>7, <1>8
  <2>3. QED
    BY <1>2, <2>1, <2>2, Cancel
<1>12. v > 16 => 20 * (v * 1000) <= 47 * ((e2 - e1) * size.w + 2 * off)
  <2> SUFFICES ASSUME v > 16 PROVE 20 * (v * 1000) <= 47 * ((e2 - e1) * size.w + 2 * off)
    OBVIOUS
  <2>1. /\ den * (20 * (v * 1000)) = 20000 * (den * v) /\ den * v \in Int
        /\ den * (47 * (P2 - P1 + 2 * off)) = 47 * (den * P2) - 47 * (den * P1) + 94 * (den * off)
    BY <1>1, <1>2, <1>7, <1>8
  <2>2. den * (20 * (v * 1000)) <= den * (47 * (P2 - P1 + 2 * off))
    BY <1>2, <1>3, <1>7, <1>8, <1>9, <2>1
  <2>3. 20 * (v * 1000) \in Int /\ 47 * (P2 - P1 + 2 * off) \in Int
    BY <1>1, <1>7, <1>8
  <2>4. 20 * (v * 1000) <= 47 * (P2 - P1 + 2 * off)
    BY <1>2, <2>2, <2>3, Cancel
  <2>5. QED
    BY <1>1, <2>4
<1>13. QED
  BY <1>5, <1>10, <1>11, <1>12

\* The order of what is given in thousandths.
LEMMA Thousandths ==
  \A a, b \in Int : a <= b =>
    /\ RoundDiv(a, 1000) \in Int /\ RoundDiv(b, 1000) \in Int
    /\ RoundDiv(a, 1000) <= RoundDiv(b, 1000)
<1> SUFFICES ASSUME NEW a \in Int, NEW b \in Int, a <= b
             PROVE  /\ RoundDiv(a, 1000) \in Int /\ RoundDiv(b, 1000) \in Int
                    /\ RoundDiv(a, 1000) <= RoundDiv(b, 1000)
  OBVIOUS
<1>1. 1000 \in Nat \ {0} /\ b <= b
  OBVIOUS
<1>2. QED
  BY <1>1, RoundMonotone

\* Cutting a box at the edges of the picture is cutting what was reported.
LEMMA FoundAs ==
  ASSUME NEW c, Reported(c), NEW W \in Nat \ {0}
  PROVE  /\ FoundBox(c, W).left = RoundDiv(Larger(c.left, 0) * W, 1000)
         /\ FoundBox(c, W).right = RoundDiv(Smaller(c.right, 1000) * W, 1000)
<1> DEFINE l == c.left * W
           r == c.right * W
<1>1. c.left \in Int /\ c.right \in Int
  BY DEF Reported
<1>2. /\ FoundBox(c, W).left = Larger(RoundDiv(l, 1000), 0)
      /\ FoundBox(c, W).right = Smaller(RoundDiv(r, 1000), W)
  BY DEF FoundBox
<1>3. /\ l \in Int /\ r \in Int /\ W * 1000 \in Int /\ 0 * W = 0 /\ 1000 * W = W * 1000
      /\ (c.left >= 0 => l >= 0) /\ (c.left <= 0 => l <= 0)
      /\ (c.right <= 1000 => r <= W * 1000) /\ (c.right >= 1000 => r >= W * 1000)
  <2>1. /\ c.left >= 0 => W * 0 <= W * c.left
        /\ c.left <= 0 => W * c.left <= W * 0
        /\ c.right <= 1000 => W * c.right <= W * 1000
        /\ c.right >= 1000 => W * 1000 <= W * c.right
    BY <1>1, Times
  <2>2. l = W * c.left /\ r = W * c.right /\ W * 0 = 0
    BY <1>1
  <2>3. QED
    BY <1>1, <2>1, <2>2
<1>4. RoundDiv(W * 1000, 1000) = W /\ RoundDiv(0, 1000) = 0
  <2>1. RoundDiv(W * 1000, 1000) = W
    BY RoundExact
  <2>2. RoundDiv(0, 1000) = 0
    BY DEF RoundDiv
  <2>3. QED
    BY <2>1, <2>2
<1>5. FoundBox(c, W).left = RoundDiv(Larger(c.left, 0) * W, 1000)
  <2>1. CASE c.left >= 0
    <3>1. Larger(c.left, 0) * W = l
      BY <1>1, <2>1 DEF Larger
    <3> HIDE DEF l
    <3>2. RoundDiv(0, 1000) <= RoundDiv(l, 1000) /\ RoundDiv(l, 1000) \in Int
      BY <1>3, <2>1, Thousandths
    <3>3. QED
      BY <1>2, <1>4, <3>1, <3>2 DEF Larger
  <2>2. CASE c.left < 0
    <3>1. Larger(c.left, 0) * W = 0
      BY <1>1, <1>3, <2>2 DEF Larger
    <3> HIDE DEF l
    <3>2. RoundDiv(l, 1000) <= RoundDiv(0, 1000) /\ RoundDiv(l, 1000) \in Int
      BY <1>1, <1>3, <2>2, Thousandths
    <3>3. QED
      BY <1>2, <1>4, <3>1, <3>2 DEF Larger
  <2>3. QED
    BY <1>1, <2>1, <2>2
<1>6. FoundBox(c, W).right = RoundDiv(Smaller(c.right, 1000) * W, 1000)
  <2>1. CASE c.right <= 1000
    <3>1. Smaller(c.right, 1000) * W = r
      BY <1>1, <2>1 DEF Smaller
    <3> HIDE DEF r
    <3>2. RoundDiv(r, 1000) <= RoundDiv(W * 1000, 1000) /\ RoundDiv(r, 1000) \in Int
      BY <1>3, <2>1, Thousandths
    <3>3. QED
      BY <1>2, <1>4, <3>1, <3>2 DEF Smaller
  <2>2. CASE c.right > 1000
    <3>1. Smaller(c.right, 1000) * W = W * 1000
      BY <1>1, <1>3, <2>2 DEF Smaller
    <3> HIDE DEF r
    <3>2. RoundDiv(W * 1000, 1000) <= RoundDiv(r, 1000) /\ RoundDiv(r, 1000) \in Int
      <4>1. r \in Int /\ W * 1000 \in Int /\ W * 1000 <= r
        BY <1>1, <1>3, <2>2
      <4>2. QED
        BY <4>1, Thousandths
    <3>3. QED
      BY <1>2, <1>4, <3>1, <3>2 DEF Smaller
  <2>3. QED
    BY <1>1, <2>1, <2>2
<1>7. QED
  BY <1>5, <1>6

\* A place found in the doubled picture and halved again is the one found in the
\* picture itself, give or take one.
LEMMA HalvedAgain ==
  ASSUME NEW T \in Int
  PROVE  \E k \in {-1, 0, 1} :
           RoundDiv(RoundDiv(2 * T, 1000) * Half.num, Half.den) = RoundDiv(T, 1000) + k
<1> DEFINE num == Half.num
           den == Half.den
           a == RoundDiv(2 * T, 1000)
           m == RoundDiv(a * num, den)
           R == RoundDiv(T, 1000)
<1>1. num \in Nat \ {0} /\ den \in Nat \ {0} /\ den = 2 * num
  <2>1. /\ Ratio(1, 2).num \in Nat \ {0} /\ Ratio(1, 2).den \in Nat \ {0}
        /\ Ratio(1, 2).num * 2 = Ratio(1, 2).den * 1
    BY RatioFacts
  <2>2. QED
    BY <2>1 DEF Half
<1>2. a \in Int /\ 2000 * a >= 4 * T - 1000 /\ 2000 * a <= 4 * T + 1000
  <2>1. /\ RoundDiv(2 * T, 1000) \in Int
        /\ 2 * (1000 * RoundDiv(2 * T, 1000)) >= 2 * (2 * T) - 1000
        /\ 2 * (1000 * RoundDiv(2 * T, 1000)) <= 2 * (2 * T) + 1000
    <3>1. 2 * T \in Int /\ 1000 \in Nat \ {0}
      OBVIOUS
    <3>2. QED
      BY <3>1, RoundHalf
  <2> HIDE DEF a
  <2>2. a \in Int /\ 2 * (1000 * a) >= 2 * (2 * T) - 1000 /\ 2 * (1000 * a) <= 2 * (2 * T) + 1000
    BY <2>1 DEF a
  <2>3. QED
    BY <2>2
<1>3. R \in Int /\ 2000 * R >= 2 * T - 1000 /\ 2000 * R <= 2 * T + 1000
  <2>1. /\ RoundDiv(T, 1000) \in Int
        /\ 2 * (1000 * RoundDiv(T, 1000)) >= 2 * T - 1000
        /\ 2 * (1000 * RoundDiv(T, 1000)) <= 2 * T + 1000
    <3>1. 1000 \in Nat \ {0}
      OBVIOUS
    <3>2. QED
      BY <3>1, RoundHalf
  <2> HIDE DEF R
  <2>2. R \in Int /\ 2 * (1000 * R) >= 2 * T - 1000 /\ 2 * (1000 * R) <= 2 * T + 1000
    BY <2>1 DEF R
  <2>3. QED
    BY <2>2
<1> HIDE DEF num, den, a, R
<1>4. m \in Int /\ 2 * (den * m) >= 2 * (a * num) - den /\ 2 * (den * m) <= 2 * (a * num) + den
  <2> DEFINE n == a * num
  <2>1. n \in Int
    BY <1>1, <1>2
  <2> HIDE DEF n
  <2>2. RoundDiv(n, den) \in Int /\ 2 * (den * RoundDiv(n, den)) >= 2 * n - den
        /\ 2 * (den * RoundDiv(n, den)) <= 2 * n + den
    BY <1>1, <2>1, RoundHalf
  <2>3. QED
    BY <2>2 DEF n
<1> HIDE DEF m
<1>5. /\ num * (2 * m) = 2 * (num * m) /\ den * m = 2 * (num * m)
      /\ num * (a + 1) = a * num + num /\ num * (a - 1) = a * num - num
      /\ num * m \in Int /\ a * num \in Int
  BY <1>1, <1>2, <1>4
<1>6. num * (a - 1) <= num * (2 * m) /\ num * (2 * m) <= num * (a + 1)
  BY <1>1, <1>4, <1>5
<1>7. a - 1 <= 2 * m /\ 2 * m <= a + 1
  BY <1>1, <1>2, <1>4, <1>6, Cancel
<1>8. m - R \in {-1, 0, 1}
  BY <1>2, <1>3, <1>4, <1>7
<1>9. m = R + (m - R)
  BY <1>3, <1>4
<1>10. QED
  BY <1>8, <1>9 DEF m, R, a, num, den

\* An edge that was found at e thousandths, one off at most, and scaled back.
LEMMA EdgeNear ==
  ASSUME size \in Picture, NEW e \in Int, 0 <= e, e <= 1000, NEW k \in {-1, 0, 1},
         NEW m, m = RoundDiv(e * DetectionSize(size).w, 1000) + k
  PROVE  RoundDiv(m * Factor(size).num, Factor(size).den) * 1000 - e * size.w
           \in (-(1000 * (2 * Pixel(size) + 1)))..(1000 * (2 * Pixel(size) + 1))
<1> DEFINE num == Factor(size).num
           den == Factor(size).den
           R == RoundDiv(e * DetectionSize(size).w, 1000)
           Z == RoundDiv(m * num, den)
           T == e * size.w
           pixel == Pixel(size)
           off == 1000 * (2 * pixel + 1)
<1>1. /\ num \in Nat \ {0} /\ den \in Nat \ {0} /\ R \in Int /\ T \in Int
      /\ 1000 * (R * num) >= den * T - 1000 * num
      /\ 1000 * (R * num) <= den * T + 1000 * num
  <2>1. -1000 <= e
    OBVIOUS
  <2>2. QED
    BY <2>1, Scaled DEF Picture
<1>2. pixel \in Nat /\ den * pixel >= num + 1
  <2> HIDE DEF num, den
  <2>0. num \in Nat \ {0} /\ den \in Nat \ {0}
    BY <1>1
  <2>1. \E p \in Nat : p = num \div den + 1 /\ den * p >= num + 1
    BY <2>0, PixelCovers
  <2>2. QED
    BY <2>1 DEF Pixel, num, den
<1>3. m = R + k
  OBVIOUS
<1> HIDE DEF num, den, R, T, pixel
<1>4. /\ m \in Int /\ m * num \in Int /\ R * num \in Int
      /\ m * num <= R * num + num /\ m * num >= R * num - num
  <2>1. k = -1 \/ k = 0 \/ k = 1
    OBVIOUS
  <2>2. /\ (R - 1) * num = R * num - num /\ (R + 1) * num = R * num + num /\ R * num \in Int
        /\ R + 0 = R /\ R + (-1) = R - 1
    BY <1>1
  <2>3. QED
    BY <1>1, <1>3, <2>1, <2>2
<1>5. Z \in Int /\ 2 * (den * Z) >= 2 * (m * num) - den /\ 2 * (den * Z) <= 2 * (m * num) + den
  <2> DEFINE n == m * num
  <2>1. n \in Int /\ den \in Nat \ {0}
    BY <1>1, <1>4
  <2> HIDE DEF n
  <2>2. RoundDiv(n, den) \in Int /\ 2 * (den * RoundDiv(n, den)) >= 2 * n - den
        /\ 2 * (den * RoundDiv(n, den)) <= 2 * n + den
    BY <2>1, RoundHalf
  <2>3. QED
    BY <2>2 DEF n
<1> HIDE DEF Z
<1>6. /\ off \in Int /\ den * off = 2000 * (den * pixel) + 1000 * den
      /\ den * pixel \in Int /\ den * off >= 2000 * num + 1000 * den
  BY <1>1, <1>2
<1> HIDE DEF off
<1>7. /\ den * (Z * 1000 - T) = 1000 * (den * Z) - den * T
      /\ den * (0 - off) = 0 - den * off /\ 0 - off \in Int
      /\ den * Z \in Int /\ den * T \in Int /\ den * off \in Int /\ Z * 1000 - T \in Int
  BY <1>1, <1>5, <1>6
<1>8. den * (Z * 1000 - T) <= den * off /\ den * (0 - off) <= den * (Z * 1000 - T)
  BY <1>1, <1>4, <1>5, <1>6, <1>7
<1>9. Z * 1000 - T <= off /\ 0 - off <= Z * 1000 - T
  BY <1>1, <1>6, <1>7, <1>8, Cancel
<1>10. Z * 1000 - T \in (-off)..off
  BY <1>6, <1>7, <1>9
<1>11. QED
  BY <1>10 DEF Z, T, off, pixel, num, den

\* The box is where the face was seen, whichever pass found it.
LEMMA OnTheFace ==
  ASSUME NEW c, Reported(c), size \in Picture
  PROVE  BoxOnFace(c)
<1> DEFINE W == DetectionSize(size).w
           l == Larger(c.left, 0)
           r == Smaller(c.right, 1000)
           inner == PassBox(c, pass, W)
<1>1. l \in Int /\ 0 <= l /\ l <= 1000 /\ r \in Int /\ 0 <= r /\ r <= 1000
  BY DEF Reported, Larger, Smaller
<1>2. W \in Nat \ {0}
  <2>1. 0 \in Int /\ -1000 <= 0 /\ 0 <= 1000
    OBVIOUS
  <2>2. QED
    BY <2>1, Scaled
<1>3. /\ \E k \in {-1, 0, 1} : inner.left = RoundDiv(l * W, 1000) + k
      /\ \E k \in {-1, 0, 1} : inner.right = RoundDiv(r * W, 1000) + k
  <2> HIDE DEF W
  <2>1. l * W \in Int /\ r * W \in Int /\ l * (2 * W) = 2 * (l * W) /\ r * (2 * W) = 2 * (r * W)
    <3> HIDE DEF l, r
    <3>1. QED
      BY <1>1, <1>2
  <2>2. CASE pass # "upscaled"
    <3>1. inner.left = RoundDiv(l * W, 1000) /\ inner.right = RoundDiv(r * W, 1000)
      BY <1>2, <2>2, FoundAs DEF PassBox
    <3>2. RoundDiv(l * W, 1000) \in Int /\ RoundDiv(r * W, 1000) \in Int
      BY <2>1, RoundHalf
    <3>3. /\ RoundDiv(l * W, 1000) = RoundDiv(l * W, 1000) + 0
          /\ RoundDiv(r * W, 1000) = RoundDiv(r * W, 1000) + 0
      BY <3>2
    <3> HIDE DEF inner, l, r
    <3>4. QED
      BY <3>1, <3>3
  <2>3. CASE pass = "upscaled"
    <3>1. 2 * W \in Nat \ {0}
      BY <1>2
    <3>2. /\ FoundBox(c, 2 * W).left = RoundDiv(l * (2 * W), 1000)
          /\ FoundBox(c, 2 * W).right = RoundDiv(r * (2 * W), 1000)
      BY <3>1, FoundAs
    <3>3. /\ inner.left = RoundDiv(FoundBox(c, 2 * W).left * Half.num, Half.den)
          /\ inner.right = RoundDiv(FoundBox(c, 2 * W).right * Half.num, Half.den)
      BY <2>3 DEF PassBox, ScaledBox
    <3> HIDE DEF inner, l, r
    <3>4. /\ inner.left = RoundDiv(RoundDiv(2 * (l * W), 1000) * Half.num, Half.den)
          /\ inner.right = RoundDiv(RoundDiv(2 * (r * W), 1000) * Half.num, Half.den)
      BY <2>1, <3>2, <3>3
    <3>5. QED
      BY <2>1, <3>4, HalvedAgain
  <2>4. QED
    BY <2>2, <2>3
<1>4. /\ BoxOf(c, pass, size).left = RoundDiv(inner.left * Factor(size).num, Factor(size).den)
      /\ BoxOf(c, pass, size).right = RoundDiv(inner.right * Factor(size).num, Factor(size).den)
  BY DEF BoxOf, ScaledBox
<1>5. BoxOnFace(c) <=>
        /\ BoxOf(c, pass, size).left * 1000 - l * size.w
              \in (-(1000 * (2 * Pixel(size) + 1)))..(1000 * (2 * Pixel(size) + 1))
        /\ BoxOf(c, pass, size).right * 1000 - r * size.w
              \in (-(1000 * (2 * Pixel(size) + 1)))..(1000 * (2 * Pixel(size) + 1))
  BY DEF BoxOnFace
<1> HIDE DEF l, r, inner
<1>6. BoxOf(c, pass, size).left * 1000 - l * size.w
        \in (-(1000 * (2 * Pixel(size) + 1)))..(1000 * (2 * Pixel(size) + 1))
  <2>1. PICK k \in {-1, 0, 1} : inner.left = RoundDiv(l * W, 1000) + k
    BY <1>3
  <2>2. QED
    BY <1>1, <1>4, <2>1, EdgeNear
<1>7. BoxOf(c, pass, size).right * 1000 - r * size.w
        \in (-(1000 * (2 * Pixel(size) + 1)))..(1000 * (2 * Pixel(size) + 1))
  <2>1. PICK k \in {-1, 0, 1} : inner.right = RoundDiv(r * W, 1000) + k
    BY <1>3
  <2>2. QED
    BY <1>1, <1>4, <2>1, EdgeNear
<1>8. QED
  BY <1>5, <1>6, <1>7

\* Faces are of a picture that has been decoded.
Faced == faces # {} => size \in Sizes

LEMMA NextFaced == Typed /\ Faced /\ [NextProcessing]_procVars => Faced'
<1> SUFFICES ASSUME Typed, Faced, [NextProcessing]_procVars PROVE Faced'
  OBVIOUS
<1>1. CASE LoadImage
  BY <1>1 DEF LoadImage, Faced
<1>2. CASE Look
  <2>1. size \in Sizes
    BY <1>2 DEF Look, Typed, Stages, Over
  <2>2. QED
    BY <1>2, <2>1 DEF Look, Faced
<1>3. CASE UNCHANGED <<size, faces>>
  BY <1>3 DEF Faced
<1>4. LoadImage \/ Look \/ UNCHANGED <<size, faces>>
  <2>1. CASE WriteThumb \/ WriteBefore \/ WriteResult \/ WriteMeta
    BY <2>1 DEF WriteThumb, WriteBefore, WriteResult, WriteMeta
  <2>2. CASE NoFaces \/ CallRaises \/ Unwind \/ DrawGlasses \/ LeavePool
    BY <2>2 DEF NoFaces, CallRaises, Unwind, DrawGlasses, LeavePool
  <2>3. CASE Name \/ NoAnimation \/ BeginAnimation \/ DrawFrame \/ WriteAnimation
    BY <2>3 DEF Name, NoAnimation, BeginAnimation, DrawFrame, WriteAnimation
  <2>4. CASE UNCHANGED procVars
    BY <2>4 DEF procVars
  <2>5. QED
    BY <2>1, <2>2, <2>3, <2>4, NextCases DEF Working
<1>5. QED
  BY <1>1, <1>2, <1>3, <1>4

\* A decoded picture has a pixel, and its faces are what was reported.
LEMMA FacesOfPicture ==
  ASSUME Typed, Faced, NEW c \in faces
  PROVE  size \in Picture /\ size \in Sizes /\ c \in Candidates
BY ProcessingAssumption DEF Typed, Faced, Picture

\* For pictures of any size, any detection size and any face the detector may
\* report: the edges of its box are where the detector saw them and its glasses
\* on its eyes and no wider, in every pass and through every rounding.
THEOREM FoundInPlace == Reports => (SpecProcessing => []FoundWhereTheyAre)
<1> SUFFICES ASSUME Reports PROVE SpecProcessing => []FoundWhereTheyAre
  OBVIOUS
<1>1. InitProcessing => Faced
  BY DEF InitProcessing, Faced
<1>2. Typed /\ Faced => FoundWhereTheyAre
  BY FacesOfPicture, OnTheFace, OverTheEyes DEF Reports, FoundWhereTheyAre
<1>3. SpecProcessing => []Typed
  BY InitTyped, NextFlight, NextWritten, NextTyped, PTL DEF SpecProcessing
<1>4. QED
  BY <1>1, <1>2, <1>3, NextFaced, PTL DEF SpecProcessing


-----------------------------------------------------------------------------
(* The picture and its GIF. *)

\* Rounding by a ratio, whichever way it is written.
LEMMA RoundAs ==
  ASSUME NEW a \in Int, NEW p \in Nat \ {0}, NEW q \in Nat \ {0},
         NEW K \in Nat \ {0}, NEW E \in Nat \ {0}, p * E = q * K
  PROVE  /\ RoundDiv(a * p, q) \in Int /\ E * RoundDiv(a * p, q) \in Int /\ a * K \in Int
         /\ 2 * (E * RoundDiv(a * p, q)) >= 2 * (a * K) - E
         /\ 2 * (E * RoundDiv(a * p, q)) <= 2 * (a * K) + E
<1> DEFINE R == RoundDiv(a * p, q)
           b == a * p
           c == a * K
<1>1. b \in Int /\ c \in Int
  OBVIOUS
<1>2. R \in Int /\ 2 * (q * R) >= 2 * b - q /\ 2 * (q * R) <= 2 * b + q
  <2>1. R = RoundDiv(b, q)
    OBVIOUS
  <2> HIDE DEF b, R
  <2>2. QED
    BY <1>1, <2>1, RoundHalf
<1> HIDE DEF R
<1>3. E * b = q * c
  <2>1. E * (a * p) = a * (p * E) /\ q * (a * K) = a * (q * K)
    OBVIOUS
  <2>2. QED
    BY <2>1
<1> HIDE DEF b, c
<1>4. q * R \in Int /\ E * R \in Int
  BY <1>2
<1>5. /\ E * (2 * b - q) <= E * (2 * (q * R)) /\ E * (2 * (q * R)) <= E * (2 * b + q)
  BY <1>1, <1>2, <1>4, Times
<1>6. /\ E * (2 * b - q) = 2 * (E * b) - q * E /\ E * (2 * b + q) = 2 * (E * b) + q * E
      /\ E * (2 * (q * R)) = q * (2 * (E * R))
      /\ q * (2 * c - E) = 2 * (q * c) - q * E /\ q * (2 * c + E) = 2 * (q * c) + q * E
  BY <1>1, <1>2
<1>7. /\ q * (2 * c - E) <= q * (2 * (E * R)) /\ q * (2 * (E * R)) <= q * (2 * c + E)
  BY <1>3, <1>5, <1>6
<1>8. 2 * c - E \in Int /\ 2 * c + E \in Int /\ 2 * (E * R) \in Int
  BY <1>1, <1>4
<1>9. 2 * c - E <= 2 * (E * R) /\ 2 * (E * R) <= 2 * c + E
  BY <1>7, <1>8, Cancel
<1>10. QED
  BY <1>1, <1>2, <1>4, <1>8, <1>9 DEF R, b, c

\* What is rounded at one scale and at another n2/d2 of it.
LEMMA Alike ==
  ASSUME NEW a \in Int, NEW R \in Int, NEW Q \in Int, NEW k \in Nat,
         NEW n \in Nat \ {0}, NEW d \in Nat \ {0}, NEW n2 \in Nat \ {0}, NEW d2 \in Nat \ {0},
         n2 <= d2,
         2 * (d * R) >= 2 * (a * n) - k * d, 2 * (d * R) <= 2 * (a * n) + k * d,
         2 * ((d * d2) * Q) >= 2 * (a * (n * n2)) - k * (d * d2),
         2 * ((d * d2) * Q) <= 2 * (a * (n * n2)) + k * (d * d2)
  PROVE  /\ d2 * Q \in Int /\ n2 * R \in Int /\ k * d2 \in Int
         /\ d2 * Q - n2 * R >= -(k * d2) /\ d2 * Q - n2 * R <= k * d2
<1> DEFINE X == d2 * Q - n2 * R
           A == a * n
<1>1. A \in Int /\ X \in Int /\ d * R \in Int /\ k * d \in Int
  OBVIOUS
<1>2. /\ n2 * (2 * A - k * d) <= n2 * (2 * (d * R))
      /\ n2 * (2 * (d * R)) <= n2 * (2 * A + k * d)
  <2>1. 2 * (d * R) \in Int /\ 2 * A - k * d \in Int /\ 2 * A + k * d \in Int
    BY <1>1
  <2>2. 2 * A - k * d <= 2 * (d * R) /\ 2 * (d * R) <= 2 * A + k * d
    OBVIOUS
  <2> HIDE DEF A
  <2>3. QED
    BY <2>1, <2>2, Times
<1>3. /\ n2 * (2 * A - k * d) = 2 * (n2 * A) - d * (k * n2)
      /\ n2 * (2 * A + k * d) = 2 * (n2 * A) + d * (k * n2)
      /\ n2 * (2 * (d * R)) = 2 * (d * (n2 * R))
      /\ a * (n * n2) = n2 * A /\ (d * d2) * Q = d * (d2 * Q) /\ k * (d * d2) = d * (k * d2)
      /\ n2 * A \in Int /\ d * (k * n2) \in Int /\ d * (n2 * R) \in Int
      /\ d * (d2 * Q) \in Int /\ d * (k * d2) \in Int
  OBVIOUS
<1>4. d * (k * n2) <= d * (k * d2)
  <2>1. k * n2 <= k * d2 /\ k * n2 \in Int /\ k * d2 \in Int
    BY Times
  <2>2. QED
    BY <2>1, Times
<1>5. d * X = d * (d2 * Q) - d * (n2 * R) /\ d * (-(k * d2)) = -(d * (k * d2))
  OBVIOUS
<1> HIDE DEF A, X
<1>6. d * (-(k * d2)) <= d * X /\ d * X <= d * (k * d2)
  BY <1>2, <1>3, <1>4, <1>5
<1>7. k * d2 \in Int /\ -(k * d2) \in Int
  OBVIOUS
<1>8. -(k * d2) <= X /\ X <= k * d2
  BY <1>1, <1>6, <1>7, Cancel
<1>9. QED
  BY <1>7, <1>8 DEF X
\* A point of the picture on the finished picture, at n/d, and on the GIF, at
\* p/q, which is n2/d2 of it.
LEMMA PointAlike ==
  ASSUME NEW a \in Int, NEW n \in Nat \ {0}, NEW d \in Nat \ {0},
         NEW p \in Nat \ {0}, NEW q \in Nat \ {0}, NEW n2 \in Nat \ {0}, NEW d2 \in Nat \ {0},
         n2 <= d2, p * (d * d2) = q * (n * n2)
  PROVE  /\ RoundDiv(a * n, d) \in Int /\ RoundDiv(a * p, q) \in Int
         /\ d2 * RoundDiv(a * p, q) - n2 * RoundDiv(a * n, d) >= -d2
         /\ d2 * RoundDiv(a * p, q) - n2 * RoundDiv(a * n, d) <= d2
<1> DEFINE R == RoundDiv(a * n, d)
           Q == RoundDiv(a * p, q)
           E == d * d2
           K == n * n2
<1>1. n * d = d * n
  OBVIOUS
<1>2. /\ R \in Int /\ 2 * (d * R) >= 2 * (a * n) - d /\ 2 * (d * R) <= 2 * (a * n) + d
  BY <1>1, RoundAs
<1>3. E \in Nat \ {0} /\ K \in Nat \ {0} /\ p * E = q * K
  OBVIOUS
<1>4. /\ Q \in Int /\ 2 * (E * Q) >= 2 * (a * K) - E /\ 2 * (E * Q) <= 2 * (a * K) + E
  <2> HIDE DEF E, K
  <2>1. QED
    BY <1>3, RoundAs
<1> HIDE DEF R, Q
<1>5. /\ 2 * (d * R) >= 2 * (a * n) - 1 * d /\ 2 * (d * R) <= 2 * (a * n) + 1 * d
      /\ 2 * ((d * d2) * Q) >= 2 * (a * (n * n2)) - 1 * (d * d2)
      /\ 2 * ((d * d2) * Q) <= 2 * (a * (n * n2)) + 1 * (d * d2)
      /\ 1 \in Nat
  BY <1>2, <1>4
<1>6. d2 * Q - n2 * R >= -(1 * d2) /\ d2 * Q - n2 * R <= 1 * d2
  BY <1>2, <1>4, <1>5, Alike
<1>7. QED
  BY <1>2, <1>4, <1>6 DEF R, Q

\* The width of a pair of glasses.
Wide(D, n, d) == Larger(16, RoundDiv(47 * Larger(D * n, d), 20 * d))

LEMMA WidthType ==
  ASSUME NEW D \in Int, NEW n \in Nat \ {0}, NEW d \in Nat \ {0}
  PROVE  /\ Wide(D, n, d) \in Int /\ Wide(D, n, d) >= 16
         /\ Wide(D, n, d) > 16 =>
              /\ Wide(D, n, d) = RoundDiv((47 * D) * n, 20 * d)
              /\ D * n >= d
         /\ D * n >= 7 * d => Wide(D, n, d) = RoundDiv((47 * D) * n, 20 * d)
<1> DEFINE S == D * n
           span == Larger(S, d)
           v == 47 * span
           u == 20 * d
           r == RoundDiv(v, u)
<1>1. S \in Int /\ (47 * D) * n = 47 * S
  OBVIOUS
<1> HIDE DEF S
<1>2. span \in Int /\ span >= S /\ span >= d /\ (span = S \/ (span = d /\ S < d))
  BY <1>1 DEF Larger
<1> HIDE DEF span
<1>3. v \in Int /\ u \in Nat \ {0} /\ v = 47 * span /\ u = 20 * d
  BY <1>2
<1> HIDE DEF v, u
<1>4. r \in Int /\ 2 * (u * r) >= 2 * v - u /\ 2 * (u * r) <= 2 * v + u /\ u * r \in Int
  BY <1>3, RoundHalf
<1> HIDE DEF r
<1>5. Wide(D, n, d) = Larger(16, r)
  BY DEF Wide, r, v, u, span, S
<1>6. Wide(D, n, d) \in Int /\ Wide(D, n, d) >= 16
      /\ (Wide(D, n, d) > 16 => Wide(D, n, d) = r /\ r > 16)
      /\ (r >= 16 => Wide(D, n, d) = r)
  BY <1>4, <1>5 DEF Larger
<1>7. ASSUME r > 16 PROVE span = S /\ S >= d
  <2>1. u * 17 <= u * r
    BY <1>3, <1>4, <1>7, Times
  <2>2. 34 * u <= 2 * v + u
    BY <1>3, <1>4, <2>1
  <2>3. 33 * (20 * d) <= 94 * span
    BY <1>2, <1>3, <2>2
  <2>4. span # d
    BY <2>3
  <2>5. QED
    BY <1>2, <2>4
<1>8. ASSUME S >= 7 * d PROVE span = S /\ r >= 16
  <2>1. span = S
    BY <1>1, <1>2, <1>8
  <2>2. 2 * (u * r) >= 94 * (7 * d) - 20 * d
    BY <1>1, <1>3, <1>4, <1>8, <2>1
  <2>3. u * r = d * (20 * r)
    BY <1>3, <1>4
  <2>4. d * 319 <= d * (20 * r)
    BY <1>4, <2>2, <2>3
  <2>5. 319 <= 20 * r
    BY <1>4, <2>4, Cancel
  <2>6. QED
    BY <1>4, <2>1, <2>5
<1>9. span = S => RoundDiv((47 * D) * n, 20 * d) = r
  BY <1>1 DEF r, v, u
<1>10. QED
  BY <1>6, <1>7, <1>8, <1>9 DEF S
\* The glasses are as wide on the GIF as the scale says, unless they are as
\* narrow as they may be.
LEMMA WidthAlike ==
  ASSUME NEW D \in Int, NEW n \in Nat \ {0}, NEW d \in Nat \ {0},
         NEW p \in Nat \ {0}, NEW q \in Nat \ {0}, NEW n2 \in Nat \ {0}, NEW d2 \in Nat \ {0},
         n2 <= d2, p * (d * d2) = q * (n * n2), Wide(D, p, q) > 16
  PROVE  /\ d2 * Wide(D, p, q) - n2 * Wide(D, n, d) >= -d2
         /\ d2 * Wide(D, p, q) - n2 * Wide(D, n, d) <= d2
<1> DEFINE R == Wide(D, n, d)
           Q == Wide(D, p, q)
           E == d * d2
           K == n * n2
           a == 47 * D
<1>1. /\ E \in Nat \ {0} /\ K \in Nat \ {0} /\ p * E = q * K /\ a \in Int
  OBVIOUS
<1>2. R \in Int /\ Q \in Int /\ Q >= 17 /\ Q = RoundDiv(a * p, 20 * q)
  <2>1. /\ Wide(D, n, d) \in Int /\ Wide(D, p, q) \in Int
        /\ Wide(D, p, q) = RoundDiv((47 * D) * p, 20 * q)
    BY WidthType
  <2>2. QED
    BY <2>1
<1>3. /\ 2 * ((20 * E) * Q) >= 2 * (a * K) - 20 * E
      /\ 2 * ((20 * E) * Q) <= 2 * (a * K) + 20 * E
      /\ (20 * E) * Q \in Int /\ a * K \in Int
  <2> DEFINE u == 20 * q
             V == 20 * E
  <2> HIDE DEF E, K, a, Q
  <2>1. u \in Nat \ {0} /\ V \in Nat \ {0}
    BY <1>1
  <2>2. p * V = u * K
    BY <1>1
  <2>3. Q = RoundDiv(a * p, u)
    BY <1>2
  <2> HIDE DEF u, V
  <2>4. /\ 2 * (V * Q) >= 2 * (a * K) - V /\ 2 * (V * Q) <= 2 * (a * K) + V
        /\ V * Q \in Int /\ a * K \in Int
    BY <1>1, <2>1, <2>2, <2>3, RoundAs
  <2>5. QED
    BY <2>4 DEF V
<1>4. D * n >= 7 * d
  <2> DEFINE X == D * n
  <2>1. X \in Int /\ a * K = 47 * (n2 * X)
    OBVIOUS
  <2>2. E * 340 <= E * (20 * Q)
    <3> HIDE DEF E, Q
    <3>1. 20 * Q \in Int /\ 340 <= 20 * Q
      BY <1>2
    <3>2. QED
      BY <1>1, <3>1, Times
  <2>3. (20 * E) * Q = E * (20 * Q)
    BY <1>2
  <2>4. n2 * d <= E
    BY Times
  <2> HIDE DEF X, E, Q, a, K
  <2>5. 94 * (n2 * X) >= 660 * (n2 * d)
    BY <1>1, <1>3, <2>1, <2>2, <2>3, <2>4
  <2>6. n2 * (660 * d) <= n2 * (94 * X)
    BY <2>1, <2>5
  <2>7. 660 * d <= 94 * X
    <3>1. 660 * d \in Int /\ 94 * X \in Int
      BY <2>1
    <3>2. QED
      BY <2>6, <3>1, Cancel
  <2>8. 7 * d <= X
    BY <2>1, <2>7
  <2>9. QED
    BY <2>8 DEF X
<1>5. R = RoundDiv(a * n, 20 * d)
  <2>1. Wide(D, n, d) = RoundDiv((47 * D) * n, 20 * d)
    BY <1>4, WidthType
  <2>2. QED
    BY <2>1
<1>6. /\ 2 * ((20 * d) * R) >= 2 * (a * n) - 20 * d
      /\ 2 * ((20 * d) * R) <= 2 * (a * n) + 20 * d
  <2> DEFINE u == 20 * d
             b == a * n
  <2>1. u \in Nat \ {0} /\ b \in Int
    OBVIOUS
  <2>2. R = RoundDiv(b, u)
    BY <1>5
  <2> HIDE DEF u, b, R
  <2>3. 2 * (u * R) >= 2 * b - u /\ 2 * (u * R) <= 2 * b + u
    BY <2>1, <2>2, RoundHalf
  <2>4. QED
    BY <2>3 DEF u, b
<1>7. /\ 2 * (d * (20 * R)) >= 2 * (a * n) - 20 * d
      /\ 2 * (d * (20 * R)) <= 2 * (a * n) + 20 * d
      /\ 2 * ((d * d2) * (20 * Q)) >= 2 * (a * (n * n2)) - 20 * (d * d2)
      /\ 2 * ((d * d2) * (20 * Q)) <= 2 * (a * (n * n2)) + 20 * (d * d2)
  <2>1. d * (20 * R) = (20 * d) * R /\ E * (20 * Q) = (20 * E) * Q
    BY <1>1, <1>2
  <2> HIDE DEF R, Q, a
  <2>2. QED
    BY <1>3, <1>6, <2>1
<1>8. 20 * R \in Int /\ 20 * Q \in Int /\ 20 \in Nat
  BY <1>2
<1> HIDE DEF a, R, Q
<1>9. d2 * (20 * Q) - n2 * (20 * R) >= -(20 * d2) /\ d2 * (20 * Q) - n2 * (20 * R) <= 20 * d2
  BY <1>1, <1>7, <1>8, Alike
<1>10. d2 * (20 * Q) = 20 * (d2 * Q) /\ n2 * (20 * R) = 20 * (n2 * R)
       /\ d2 * Q \in Int /\ n2 * R \in Int
  BY <1>2
<1>11. QED
  BY <1>9, <1>10 DEF R, Q
\* What place takes off on the left and at the top for glasses of a width.
Left(W) == (W * 415) \div 1024
Top(W) == Larger(1, RoundDiv(487 * W, 3000)) \div 2

\* The two differ with the width.
LEMMA OffsetsAlike ==
  ASSUME NEW R \in Int, NEW Q \in Int, NEW n \in Nat \ {0}, NEW d \in Nat \ {0},
         n <= d, R >= 16, Q >= 16, d * Q - n * R >= -d, d * Q - n * R <= d
  PROVE  /\ Left(R) \in Int /\ Left(Q) \in Int /\ Top(R) \in Int /\ Top(Q) \in Int
         /\ d * Left(Q) - n * Left(R) >= -(2 * d) /\ d * Left(Q) - n * Left(R) <= 2 * d
         /\ d * (Q - Left(Q)) - n * (R - Left(R)) >= -(2 * d)
         /\ d * (Q - Left(Q)) - n * (R - Left(R)) <= 2 * d
         /\ d * Top(Q) - n * Top(R) >= -(2 * d) /\ d * Top(Q) - n * Top(R) <= 2 * d
<1>1. ASSUME NEW W \in Int, W >= 16
      PROVE  /\ Left(W) \in Int /\ 1024 * Left(W) <= 415 * W /\ 1024 * Left(W) >= 415 * W - 1023
             /\ Top(W) \in Int /\ 12000 * Top(W) <= 974 * W + 3000
             /\ 12000 * Top(W) >= 974 * W - 9000
  <2>1. /\ Left(W) \in Int /\ 1024 * Left(W) <= 415 * W /\ 1024 * Left(W) >= 415 * W - 1023
    BY <1>1 DEF Left
  <2> DEFINE r == RoundDiv(487 * W, 3000)
  <2>2. r \in Int /\ 6000 * r >= 974 * W - 3000 /\ 6000 * r <= 974 * W + 3000
    <3> DEFINE v == 487 * W
    <3>1. v \in Int /\ r = RoundDiv(v, 3000)
      BY <1>1
    <3> HIDE DEF v, r
    <3>2. 2 * (3000 * r) >= 2 * v - 3000 /\ 2 * (3000 * r) <= 2 * v + 3000 /\ r \in Int
      BY <3>1, RoundHalf
    <3>3. QED
      BY <1>1, <3>2 DEF v
  <2> HIDE DEF r
  <2>3. Larger(1, r) = r
    BY <1>1, <2>2 DEF Larger
  <2>4. Top(W) = r \div 2
    BY <2>3 DEF Top, r
  <2>5. r \div 2 \in Int /\ 2 * (r \div 2) <= r /\ 2 * (r \div 2) >= r - 1
    BY <2>2
  <2>6. QED
    BY <1>1, <2>1, <2>2, <2>4, <2>5
<1> DEFINE l1 == Left(R)
           l2 == Left(Q)
           k1 == Top(R)
           k2 == Top(Q)
<1>2. /\ l1 \in Int /\ 1024 * l1 <= 415 * R /\ 1024 * l1 >= 415 * R - 1023
      /\ l2 \in Int /\ 1024 * l2 <= 415 * Q /\ 1024 * l2 >= 415 * Q - 1023
      /\ k1 \in Int /\ 12000 * k1 <= 974 * R + 3000 /\ 12000 * k1 >= 974 * R - 9000
      /\ k2 \in Int /\ 12000 * k2 <= 974 * Q + 3000 /\ 12000 * k2 >= 974 * Q - 9000
  BY <1>1
<1> HIDE DEF l1, l2, k1, k2
<1>3. /\ n * (1024 * l1) <= n * (415 * R) /\ n * (415 * R - 1023) <= n * (1024 * l1)
      /\ n * (12000 * k1) <= n * (974 * R + 3000) /\ n * (974 * R - 9000) <= n * (12000 * k1)
  BY <1>2, Times
<1>4. /\ d * (1024 * l2) <= d * (415 * Q) /\ d * (415 * Q - 1023) <= d * (1024 * l2)
      /\ d * (12000 * k2) <= d * (974 * Q + 3000) /\ d * (974 * Q - 9000) <= d * (12000 * k2)
  BY <1>2, Times
<1> DEFINE nR == n * R
           dQ == d * Q
           nl == n * l1
           dl == d * l2
           nk == n * k1
           dk == d * k2
<1>5. /\ n * (1024 * l1) = 1024 * nl /\ n * (415 * R) = 415 * nR
      /\ n * (415 * R - 1023) = 415 * nR - 1023 * n
      /\ n * (12000 * k1) = 12000 * nk /\ n * (974 * R + 3000) = 974 * nR + 3000 * n
      /\ n * (974 * R - 9000) = 974 * nR - 9000 * n
      /\ nR \in Int /\ nl \in Int /\ nk \in Int
  BY <1>2
<1>6. /\ d * (1024 * l2) = 1024 * dl /\ d * (415 * Q) = 415 * dQ
      /\ d * (415 * Q - 1023) = 415 * dQ - 1023 * d
      /\ d * (12000 * k2) = 12000 * dk /\ d * (974 * Q + 3000) = 974 * dQ + 3000 * d
      /\ d * (974 * Q - 9000) = 974 * dQ - 9000 * d
      /\ dQ \in Int /\ dl \in Int /\ dk \in Int
  BY <1>2
<1>7. d * (Q - l2) - n * (R - l1) = (dQ - nR) - (dl - nl)
  BY <1>2
<1>8. dQ - nR >= -d /\ dQ - nR <= d
  OBVIOUS
<1> HIDE DEF nR, dQ, nl, dl, nk, dk
<1>9. dl - nl >= -(2 * d) /\ dl - nl <= 2 * d
  BY <1>3, <1>4, <1>5, <1>6, <1>8
<1>10. (dQ - nR) - (dl - nl) >= -(2 * d) /\ (dQ - nR) - (dl - nl) <= 2 * d
  BY <1>3, <1>4, <1>5, <1>6, <1>8
<1>11. dk - nk >= -(2 * d) /\ dk - nk <= 2 * d
  BY <1>3, <1>4, <1>5, <1>6, <1>8
<1>12. QED
  BY <1>2, <1>7, <1>9, <1>10, <1>11 DEF l1, l2, k1, k2, nl, dl, nk, dk
\* place, in these terms.
LEMMA PlaceParts ==
  ASSUME NEW m, NEW f
  PROVE  /\ Place(m, f).w = Wide(m.right - m.left, f.num, f.den)
         /\ Place(m, f).x = RoundDiv(m.left * f.num, f.den) - Left(Place(m, f).w)
         /\ Place(m, f).y = RoundDiv(m.line * f.num, f.den) - Top(Place(m, f).w)
BY DEF Place, Wide, Left, Top

\* Glasses placed on the GIF are where the scale puts those of the picture,
\* within three pixels.
LEMMA PlacedAlike ==
  ASSUME NEW m, NEW f, NEW g, m.left \in Int, m.right \in Int, m.line \in Int,
         f.num \in Nat \ {0}, f.den \in Nat \ {0}, g.num \in Nat \ {0}, g.den \in Nat \ {0},
         NEW n2 \in Nat \ {0}, NEW d2 \in Nat \ {0}, n2 <= d2,
         g.num * (f.den * d2) = g.den * (f.num * n2), Place(m, g).w > 16
  PROVE  /\ \A P \in {Place(m, f), Place(m, g)} : P.x \in Int /\ P.w \in Int /\ P.y \in Int
         /\ d2 * Place(m, g).x - n2 * Place(m, f).x >= -(3 * d2)
         /\ d2 * Place(m, g).x - n2 * Place(m, f).x <= 3 * d2
         /\ d2 * (Place(m, g).x + Place(m, g).w) - n2 * (Place(m, f).x + Place(m, f).w) >= -(3 * d2)
         /\ d2 * (Place(m, g).x + Place(m, g).w) - n2 * (Place(m, f).x + Place(m, f).w) <= 3 * d2
         /\ d2 * Place(m, g).y - n2 * Place(m, f).y >= -(3 * d2)
         /\ d2 * Place(m, g).y - n2 * Place(m, f).y <= 3 * d2
<1> DEFINE n == f.num
           d == f.den
           p == g.num
           q == g.den
           D == m.right - m.left
           R == Wide(D, n, d)
           Q == Wide(D, p, q)
           a == RoundDiv(m.left * n, d)
           b == RoundDiv(m.left * p, q)
           u == RoundDiv(m.line * n, d)
           v == RoundDiv(m.line * p, q)
<1>1. /\ n \in Nat \ {0} /\ d \in Nat \ {0} /\ p \in Nat \ {0} /\ q \in Nat \ {0} /\ D \in Int
      /\ p * (d * d2) = q * (n * n2)
  OBVIOUS
<1>2. /\ Place(m, f).w = R /\ Place(m, f).x = a - Left(R) /\ Place(m, f).y = u - Top(R)
      /\ Place(m, g).w = Q /\ Place(m, g).x = b - Left(Q) /\ Place(m, g).y = v - Top(Q)
      /\ Q > 16
  BY PlaceParts
<1>3. \A k \in Int : /\ RoundDiv(k * n, d) \in Int /\ RoundDiv(k * p, q) \in Int
                     /\ d2 * RoundDiv(k * p, q) - n2 * RoundDiv(k * n, d) >= -d2
                     /\ d2 * RoundDiv(k * p, q) - n2 * RoundDiv(k * n, d) <= d2
  <2> HIDE DEF n, d, p, q
  <2>1. QED
    BY <1>1, PointAlike
<1>4. /\ a \in Int /\ b \in Int /\ d2 * b - n2 * a >= -d2 /\ d2 * b - n2 * a <= d2
      /\ u \in Int /\ v \in Int /\ d2 * v - n2 * u >= -d2 /\ d2 * v - n2 * u <= d2
  <2>1. m.left \in Int /\ m.line \in Int
    OBVIOUS
  <2> HIDE DEF n, d, p, q
  <2>2. QED
    BY <1>3, <2>1
<1> HIDE DEF n, d, p, q, D, a, b, u, v
<1>5. R \in Int /\ R >= 16 /\ Q \in Int /\ Q >= 16
  BY <1>1, WidthType
<1>6. d2 * Q - n2 * R >= -d2 /\ d2 * Q - n2 * R <= d2
  BY <1>1, <1>2, WidthAlike
<1> HIDE DEF R, Q
<1> DEFINE l1 == Left(R)
           l2 == Left(Q)
           k1 == Top(R)
           k2 == Top(Q)
<1>7. /\ l1 \in Int /\ l2 \in Int /\ k1 \in Int /\ k2 \in Int
      /\ d2 * l2 - n2 * l1 >= -(2 * d2) /\ d2 * l2 - n2 * l1 <= 2 * d2
      /\ d2 * (Q - l2) - n2 * (R - l1) >= -(2 * d2) /\ d2 * (Q - l2) - n2 * (R - l1) <= 2 * d2
      /\ d2 * k2 - n2 * k1 >= -(2 * d2) /\ d2 * k2 - n2 * k1 <= 2 * d2
  BY <1>5, <1>6, OffsetsAlike
<1> HIDE DEF l1, l2, k1, k2
<1>8. /\ d2 * (b - l2) - n2 * (a - l1) = (d2 * b - n2 * a) - (d2 * l2 - n2 * l1)
      /\ d2 * (b - l2 + Q) - n2 * (a - l1 + R)
           = (d2 * b - n2 * a) + (d2 * (Q - l2) - n2 * (R - l1))
      /\ d2 * (v - k2) - n2 * (u - k1) = (d2 * v - n2 * u) - (d2 * k2 - n2 * k1)
  BY <1>4, <1>5, <1>7
<1> DEFINE A == d2 * b - n2 * a
           U == d2 * v - n2 * u
           B == d2 * l2 - n2 * l1
           C == d2 * (Q - l2) - n2 * (R - l1)
           K == d2 * k2 - n2 * k1
<1>9. A \in Int /\ U \in Int /\ B \in Int /\ C \in Int /\ K \in Int
  BY <1>4, <1>5, <1>7
<1>10. /\ A >= -d2 /\ A <= d2 /\ U >= -d2 /\ U <= d2
       /\ B >= -(2 * d2) /\ B <= 2 * d2 /\ C >= -(2 * d2) /\ C <= 2 * d2
       /\ K >= -(2 * d2) /\ K <= 2 * d2
  BY <1>4, <1>7
<1>11. /\ d2 * (b - l2) - n2 * (a - l1) = A - B
       /\ d2 * (b - l2 + Q) - n2 * (a - l1 + R) = A + C
       /\ d2 * (v - k2) - n2 * (u - k1) = U - K
  BY <1>8
<1> HIDE DEF A, U, B, C, K
<1>12. /\ A - B >= -(3 * d2) /\ A - B <= 3 * d2 /\ A + C >= -(3 * d2) /\ A + C <= 3 * d2
       /\ U - K >= -(3 * d2) /\ U - K <= 3 * d2
  BY <1>9, <1>10
<1>13. /\ Place(m, f).w = R /\ Place(m, f).x = a - l1 /\ Place(m, f).y = u - k1
       /\ Place(m, g).w = Q /\ Place(m, g).x = b - l2 /\ Place(m, g).y = v - k2
  BY <1>2 DEF l1, l2, k1, k2
<1>14. \A P \in {Place(m, f), Place(m, g)} : P.x \in Int /\ P.w \in Int /\ P.y \in Int
  BY <1>4, <1>5, <1>7, <1>13
<1>15. QED
  BY <1>11, <1>12, <1>13, <1>14
\* A side of a picture of which L pixels become M, fewer.
LEMMA SideFacts ==
  ASSUME NEW a \in Nat \ {0}, NEW L \in Nat \ {0}, NEW M \in Nat \ {0}, M <= L
  PROVE  /\ Side(a, L, M) \in Nat \ {0} /\ Side(a, L, M) <= a
         /\ L * Side(a, L, M) - M * a >= -L /\ L * Side(a, L, M) - M * a <= L
         /\ a = L => Side(a, L, M) = M
<1> DEFINE v == a * M
           r == RoundDiv(v, L)
           t == Side(a, L, M)
<1>1. v \in Int /\ v = M * a /\ v >= 1
  OBVIOUS
<1>2. t = Larger(1, r)
  BY DEF Side
<1>3. r <= a
  <2>1. v <= a * L /\ a * L \in Int
    BY Times
  <2> HIDE DEF v
  <2>2. RoundDiv(v, L) <= RoundDiv(a * L, L)
    <3> DEFINE k == a * L
    <3>1. k \in Int /\ v <= k
      BY <2>1
    <3> HIDE DEF k
    <3>2. RoundDiv(v, L) <= RoundDiv(k, L)
      BY <1>1, <3>1, RoundMonotone
    <3>3. QED
      BY <3>2 DEF k
  <2>3. RoundDiv(a * L, L) = a
    BY RoundExact
  <2>4. QED
    BY <2>2, <2>3
<1>4. a = L => r = M
  <2>1. RoundDiv(M * L, L) = M
    BY RoundExact
  <2>2. a = L => v = M * L
    BY <1>1
  <2> HIDE DEF v
  <2>3. QED
    BY <2>1, <2>2
<1> HIDE DEF v, t
<1>5. r \in Int /\ L * r \in Int /\ 2 * (L * r) >= 2 * v - L /\ 2 * (L * r) <= 2 * v + L
  BY <1>1, RoundHalf
<1> HIDE DEF r
<1>6. t \in Nat \ {0} /\ t <= a /\ (r >= 1 => t = r) /\ (r <= 0 => t = 1)
  BY <1>2, <1>3, <1>5 DEF Larger
<1>7. r <= 0 => L * r <= 0
  <2>1. r <= 0 => L * r <= L * 0
    BY <1>5, Times
  <2>2. QED
    BY <2>1
<1>8. L * t - v >= -L /\ L * t - v <= L
  <2>1. CASE r >= 1
    BY <1>1, <1>5, <1>6, <2>1
  <2>2. CASE r <= 0
    <3>1. 2 * v <= L /\ t = 1
      BY <1>1, <1>5, <1>6, <1>7, <2>2
    <3>2. QED
      BY <1>1, <3>1
  <2>3. QED
    BY <1>5, <2>1, <2>2
<1>9. a = L => t = M
  BY <1>4, <1>6
<1>10. QED
  BY <1>1, <1>6, <1>8, <1>9 DEF t

\* The picture the GIF is made of: no larger, and of the same shape but for
\* what rounding a side costs.
LEMMA FitFacts ==
  ASSUME NEW s \in Picture
  PROVE  LET b == Fit(s, AnimationSize) IN
         /\ b.w \in Nat \ {0} /\ b.h \in Nat \ {0} /\ b.w <= s.w
         /\ b.w * s.h - b.h * s.w >= -Longest(s) /\ b.w * s.h - b.h * s.w <= Longest(s)
<1> DEFINE b == Fit(s, AnimationSize)
           L == Longest(s)
           w == s.w
           h == s.h
<1>1. w \in Nat \ {0} /\ h \in Nat \ {0} /\ L \in Nat \ {0} /\ (L = w \/ L = h)
  BY DEF Picture, Longest, Larger
<1>2. CASE L <= 640
  <2>1. b = s
    BY <1>2 DEF Fit, AnimationSize
  <2> DEFINE X == w * h
  <2>2. X \in Int /\ w * h = h * w
    BY <1>1
  <2>3. b.w * s.h - b.h * s.w = 0
    BY <2>1, <2>2
  <2>4. QED
    BY <1>1, <2>1, <2>3
<1>3. CASE L > 640
  <2>1. b.w = Side(w, L, 640) /\ b.h = Side(h, L, 640)
    BY <1>1, <1>3 DEF Fit, Shrunk, Side, AnimationSize
  <2> HIDE DEF b, w, h, L
  <2>2. /\ b.w \in Nat \ {0} /\ b.w <= w /\ (w = L => b.w = 640)
        /\ L * b.w - 640 * w >= -L /\ L * b.w - 640 * w <= L
        /\ b.h \in Nat \ {0} /\ (h = L => b.h = 640)
        /\ L * b.h - 640 * h >= -L /\ L * b.h - 640 * h <= L
    <3>1. 640 \in Nat \ {0} /\ 640 <= L /\ L \in Nat \ {0}
      BY <1>1, <1>3
    <3>2. \A a \in Nat \ {0} :
            /\ Side(a, L, 640) \in Nat \ {0} /\ Side(a, L, 640) <= a
            /\ L * Side(a, L, 640) - 640 * a >= -L /\ L * Side(a, L, 640) - 640 * a <= L
            /\ a = L => Side(a, L, 640) = 640
      BY <3>1, SideFacts
    <3>3. QED
      BY <1>1, <2>1, <3>2
  <2>3. CASE w = L
    <3>1. b.w * h - b.h * w = -(L * b.h - 640 * h)
      BY <1>1, <2>2, <2>3
    <3>2. b.w * h - b.h * w >= -L /\ b.w * h - b.h * w <= L
      BY <1>1, <2>2, <3>1
    <3>3. QED
      BY <2>2, <3>2 DEF b, w, h, L
  <2>4. CASE h = L
    <3>1. b.w * h - b.h * w = L * b.w - 640 * w
      BY <1>1, <2>2, <2>4
    <3>2. b.w * h - b.h * w >= -L /\ b.w * h - b.h * w <= L
      BY <1>1, <2>2, <3>1
    <3>3. QED
      BY <2>2, <3>2 DEF b, w, h, L
  <2>5. QED
    BY <1>1, <2>3, <2>4
<1>4. QED
  BY <1>1, <1>2, <1>3
\* The same in pixels of the GIF times the width of the picture.
LEMMA Carried ==
  ASSUME NEW x1 \in Int, NEW x2 \in Int, NEW w \in Nat \ {0}, NEW b \in Nat \ {0},
         NEW n2 \in Nat \ {0}, NEW d2 \in Nat \ {0}, n2 * w = d2 * b,
         d2 * x2 - n2 * x1 >= -(3 * d2), d2 * x2 - n2 * x1 <= 3 * d2
  PROVE  /\ x2 * w - x1 * b \in Int
         /\ x2 * w - x1 * b >= -(3 * w) /\ x2 * w - x1 * b <= 3 * w
<1> DEFINE Z == d2 * x2 - n2 * x1
           Y == x2 * w - x1 * b
<1>1. Z \in Int /\ Y \in Int /\ -(3 * d2) <= Z /\ Z <= 3 * d2
  OBVIOUS
<1>2. d2 * Y = w * Z
  <2>1. /\ d2 * Y = d2 * x2 * w - x1 * (d2 * b)
        /\ w * Z = d2 * x2 * w - x1 * (n2 * w)
    OBVIOUS
  <2>2. QED
    BY <2>1
<1> HIDE DEF Z, Y
<1>3. -(3 * d2) \in Int /\ 3 * d2 \in Int /\ -(3 * w) \in Int /\ 3 * w \in Int
  OBVIOUS
<1>4. w * (-(3 * d2)) <= w * Z /\ w * Z <= w * (3 * d2)
  BY <1>1, <1>3, Times
<1>5. w * (-(3 * d2)) = d2 * (-(3 * w)) /\ w * (3 * d2) = d2 * (3 * w)
  OBVIOUS
<1>6. d2 * (-(3 * w)) <= d2 * Y /\ d2 * Y <= d2 * (3 * w)
  BY <1>2, <1>4, <1>5
<1>7. -(3 * w) <= Y /\ Y <= 3 * w
  BY <1>1, <1>3, <1>6, Cancel
<1>8. QED
  BY <1>1, <1>7 DEF Y

\* The drift of a tall picture.
LEMMA Drifts ==
  ASSUME NEW y1 \in Int, NEW y2 \in Int, NEW w \in Nat \ {0}, NEW h \in Nat \ {0},
         NEW L \in Nat, L = w \/ L = h, NEW b \in Nat, NEW B \in Nat,
         -h <= y1, y1 <= h,
         b * h - B * w >= -L, b * h - B * w <= L,
         y2 * w - y1 * b >= -(3 * w), y2 * w - y1 * b <= 3 * w
  PROVE  /\ y2 * h - y1 * B >= -((4 + h \div w) * h)
         /\ y2 * h - y1 * B <= (4 + h \div w) * h
<1> DEFINE q == h \div w
           r == h % w
           Y == y2 * w - y1 * b
           X == b * h - B * w
           T == y2 * h - y1 * B
           W == 4 + q
<1>1. q \in Int /\ r \in 0..(w - 1) /\ h = w * q + r
  BY Euclid
<1>2. X \in Int /\ Y \in Int /\ T \in Int /\ -L <= X /\ X <= L /\ -(3 * w) <= Y /\ Y <= 3 * w
  OBVIOUS
<1>3. w * T = h * Y + y1 * X
  OBVIOUS
<1> HIDE DEF q, r, Y, X, T
<1>4. y1 * X \in Int /\ y1 * X >= -(h * L) /\ y1 * X <= h * L /\ h * L \in Int
  <2>1. CASE X >= 0
    <3>1. X * y1 <= X * h /\ X * (-h) <= X * y1 /\ h * X <= h * L
      BY <1>2, <2>1, Times
    <3>2. X * (-h) = -(h * X) /\ X * h = h * X /\ X * y1 = y1 * X
      BY <1>2
    <3>3. y1 * X \in Int /\ h * X \in Int /\ h * L \in Int
      BY <1>2
    <3>4. QED
      BY <3>1, <3>2, <3>3
  <2>2. CASE X <= 0
    <3> DEFINE V == -X
    <3>1. V \in Nat /\ V <= L
      BY <1>2, <2>2
    <3>2. y1 * X = -(V * y1)
      BY <1>2
    <3> HIDE DEF V
    <3>3. V * y1 <= V * h /\ V * (-h) <= V * y1 /\ h * V <= h * L
      BY <3>1, Times
    <3>4. V * (-h) = -(h * V) /\ V * h = h * V
      BY <3>1
    <3>5. V * y1 \in Int /\ h * V \in Int /\ h * L \in Int
      BY <3>1
    <3>6. QED
      BY <3>2, <3>3, <3>4, <3>5
  <2>3. QED
    BY <1>2, <2>1, <2>2
<1>5. h * Y \in Int /\ h * Y >= -(h * (3 * w)) /\ h * Y <= h * (3 * w)
  <2>1. -(3 * w) \in Int /\ 3 * w \in Int
    OBVIOUS
  <2>2. h * (-(3 * w)) <= h * Y /\ h * Y <= h * (3 * w)
    BY <1>2, <2>1, Times
  <2>3. h * (-(3 * w)) = -(h * (3 * w)) /\ h * Y \in Int
    BY <1>2
  <2>4. QED
    BY <2>2, <2>3
<1>6. 3 * w + L <= w * W /\ w * W \in Int
  <2>1. w * W = 4 * w + w * q /\ w * q \in Int
    BY <1>1
  <2>2. w * q >= 0
    <3>1. q >= 0
      <4>1. CASE q <= -1
        <5>1. w * q <= w * (-1)
          BY <1>1, <4>1, Times
        <5>2. QED
          BY <1>1, <2>1, <5>1
      <4>2. QED
        BY <1>1, <4>1
    <3>2. QED
      BY <1>1, <3>1
  <2>3. QED
    BY <1>1, <2>1, <2>2
<1> HIDE DEF W
<1>7. h * (3 * w + L) <= h * (w * W) /\ h * (3 * w + L) = h * (3 * w) + h * L
  BY <1>6, Times
<1>8. h * (w * W) = w * (W * h) /\ W \in Int /\ W * h \in Int
  BY <1>1 DEF W
<1>9. w * T <= w * (W * h) /\ w * (-(W * h)) <= w * T
  <2>1. w * (-(W * h)) = -(w * (W * h)) /\ w * (W * h) \in Int
    BY <1>8
  <2>2. h * (3 * w) \in Int /\ h * (w * W) \in Int
    BY <1>6
  <2>3. QED
    BY <1>3, <1>4, <1>5, <1>7, <1>8, <2>1, <2>2
<1>10. -(W * h) \in Int
  BY <1>8
<1>11. T <= W * h /\ -(W * h) <= T
  BY <1>2, <1>8, <1>9, <1>10, Cancel
<1>12. QED
  BY <1>11 DEF T, W, q

\* What LandsWhereDrawn says of a face.
LEMMA LandsOnIt ==
  ASSUME NEW c, Reported(c), size \in Picture, Reaches(c, size), OnGif(c, size).w > 16
  PROVE  LET still == OnPicture(c, size)
             moved == OnGif(c, size)
             base  == Fit(size, AnimationSize)
             drift == 4 + size.h \div size.w
         IN  /\ moved.x * size.w - still.x * base.w \in (-4 * size.w)..(4 * size.w)
             /\ (moved.x + moved.w) * size.w - (still.x + still.w) * base.w
                  \in (-4 * size.w)..(4 * size.w)
             /\ moved.y * size.h - still.y * base.h \in (-drift * size.h)..(drift * size.h)
<1> DEFINE still == OnPicture(c, size)
           moved == OnGif(c, size)
           base == Fit(size, AnimationSize)
           f == Factor(size)
           G == GifScale(size)
           g == Ratio(f.num * G.num, f.den * G.den)
           m == Landmarks(c, size)
           w == size.w
           h == size.h
<1>1. still = Place(m, f) /\ moved = Place(m, g)
  BY DEF OnPicture, OnGif, LandmarkFactor
<1>2. w \in Nat \ {0} /\ h \in Nat \ {0}
  BY DEF Picture
<1>3. /\ base.w \in Nat \ {0} /\ base.h \in Nat \ {0} /\ base.w <= w
      /\ base.w * h - base.h * w >= -Longest(size) /\ base.w * h - base.h * w <= Longest(size)
  BY FitFacts
<1>4. f.num \in Nat \ {0} /\ f.den \in Nat \ {0}
  <2>1. 0 \in Int /\ -1000 <= 0 /\ 0 <= 1000
    OBVIOUS
  <2>2. QED
    BY <2>1, Scaled
<1>5. m.left \in Int /\ m.right \in Int /\ m.line \in Int
  <2>1. \A e \in Int : -1000 <= e /\ e <= 1000 => RoundDiv(e * DetectionSize(size).w, 1000) \in Int
    BY Scaled
  <2>2. \A a \in Int : RoundDiv(a, 1000) \in Int
    BY DEF RoundDiv
  <2>3. DetectionSize(size).h \in Int
    <3>1. \A a, b \in Nat \ {0} : RoundDiv(a * MaxDetectionSize, b) \in Int
      <4>1. \A a \in Int, b \in Nat \ {0} : RoundDiv(a, b) \in Int
        BY RoundHalf
      <4>2. \A a \in Nat \ {0} : a * MaxDetectionSize \in Int
        BY DetectionAssumption
      <4>3. QED
        BY <4>1, <4>2
    <3>2. Longest(size) \in Nat \ {0}
      BY <1>2 DEF Longest, Larger
    <3>3. RoundDiv(size.h * MaxDetectionSize, Longest(size)) \in Int
      BY <1>2, <3>1, <3>2
    <3>4. DetectionSize(size).h \in {size.h, Larger(1, RoundDiv(size.h * MaxDetectionSize, Longest(size)))}
      BY DEF DetectionSize, Shrunk
    <3>5. QED
      BY <1>2, <3>3, <3>4 DEF Larger
  <2>4. c.line * DetectionSize(size).h \in Int
    BY <2>3 DEF Reaches
  <2>5. QED
    BY <2>1, <2>2, <2>4 DEF Landmarks, Reported
<1> HIDE DEF still, moved, m
<1>6. /\ G.num \in Nat \ {0} /\ G.den \in Nat \ {0} /\ G.num * w = G.den * base.w
  <2>1. G = Ratio(base.w, w)
    BY DEF GifScale
  <2> HIDE DEF G, base, w
  <2>2. QED
    BY <1>2, <1>3, <2>1, RatioFacts
<1> HIDE DEF G, base, f, w, h
<1>7. G.num <= G.den
  <2>1. G.den * base.w <= G.den * w
    BY <1>2, <1>3, <1>6, Times
  <2>2. w * G.num <= w * G.den
    BY <1>2, <1>6, <2>1
  <2>3. QED
    BY <1>2, <1>6, <2>2, Cancel
<1>8. /\ g.num \in Nat \ {0} /\ g.den \in Nat \ {0}
      /\ g.num * (f.den * G.den) = g.den * (f.num * G.num)
  <2> DEFINE K == f.num * G.num
             E == f.den * G.den
  <2>1. K \in Nat \ {0} /\ E \in Nat \ {0}
    BY <1>4, <1>6
  <2>2. g = Ratio(K, E)
    OBVIOUS
  <2> HIDE DEF K, E, g
  <2>3. g.num \in Nat \ {0} /\ g.den \in Nat \ {0} /\ g.num * E = g.den * K
    BY <2>1, <2>2, RatioFacts
  <2>4. QED
    BY <2>3 DEF K, E
<1> HIDE DEF g
<1> DEFINE x1 == still.x
           x2 == moved.x
           r1 == still.x + still.w
           r2 == moved.x + moved.w
           y1 == still.y
           y2 == moved.y
           n2 == G.num
           d2 == G.den
           b == base.w
           B == base.h
<1>9. Place(m, g).w > 16
  BY <1>1 DEF moved
<1>10. /\ \A P \in {still, moved} : P.x \in Int /\ P.w \in Int /\ P.y \in Int
       /\ d2 * x2 - n2 * x1 >= -(3 * d2) /\ d2 * x2 - n2 * x1 <= 3 * d2
       /\ d2 * r2 - n2 * r1 >= -(3 * d2) /\ d2 * r2 - n2 * r1 <= 3 * d2
       /\ d2 * y2 - n2 * y1 >= -(3 * d2) /\ d2 * y2 - n2 * y1 <= 3 * d2
  BY <1>1, <1>4, <1>5, <1>6, <1>7, <1>8, <1>9, PlacedAlike
<1>11. /\ x1 \in Int /\ x2 \in Int /\ r1 \in Int /\ r2 \in Int /\ y1 \in Int /\ y2 \in Int
       /\ n2 \in Nat \ {0} /\ d2 \in Nat \ {0} /\ b \in Nat \ {0} /\ B \in Nat \ {0}
       /\ n2 * w = d2 * b
  BY <1>3, <1>6, <1>10
<1>12. -h <= y1 /\ y1 <= h
  BY DEF Reaches, still, h
<1>13. Longest(size) \in Nat /\ (Longest(size) = w \/ Longest(size) = h)
  BY <1>2 DEF Longest, Larger, w, h
<1> DEFINE L == Longest(size)
<1>14. b * h - B * w >= -L /\ b * h - B * w <= L
  BY <1>3
<1>15. /\ moved.x * size.w - still.x * base.w = x2 * w - x1 * b
       /\ (moved.x + moved.w) * size.w - (still.x + still.w) * base.w = r2 * w - r1 * b
       /\ moved.y * size.h - still.y * base.h = y2 * h - y1 * B
       /\ size.w = w /\ size.h = h
  BY DEF w, h
<1> HIDE DEF x1, x2, r1, r2, y1, y2, n2, d2, b, B, L
<1>16. /\ x2 * w - x1 * b \in Int /\ x2 * w - x1 * b >= -(3 * w) /\ x2 * w - x1 * b <= 3 * w
       /\ r2 * w - r1 * b \in Int /\ r2 * w - r1 * b >= -(3 * w) /\ r2 * w - r1 * b <= 3 * w
       /\ y2 * w - y1 * b >= -(3 * w) /\ y2 * w - y1 * b <= 3 * w
  BY <1>2, <1>10, <1>11, Carried
<1>17. L \in Nat /\ (L = w \/ L = h)
  BY <1>13 DEF L
<1>18. /\ y2 * h - y1 * B >= -((4 + h \div w) * h)
       /\ y2 * h - y1 * B <= (4 + h \div w) * h
  BY <1>2, <1>11, <1>12, <1>14, <1>16, <1>17, Drifts
<1>19. y2 * h - y1 * B \in Int
  BY <1>2, <1>11
<1> DEFINE dr == 4 + h \div w
<1>20. dr \in Int /\ -dr * h = -(dr * h) /\ dr * h \in Int
  BY <1>2
<1>21. y2 * h - y1 * B \in (-dr * h)..(dr * h)
  <2> HIDE DEF dr
  <2>1. QED
    BY <1>18, <1>19, <1>20 DEF dr
<1>22. /\ x2 * w - x1 * b \in (-4 * w)..(4 * w) /\ r2 * w - r1 * b \in (-4 * w)..(4 * w)
  BY <1>2, <1>16
<1>23. QED
  BY <1>15, <1>21, <1>22 DEF still, moved, base, dr

\* The last frame of the GIF has the glasses where the finished picture has
\* them, scaled, for pictures of any shape.
THEOREM LandsInPlace == Reports /\ ReachThePicture => (SpecProcessing => []LandsWhereDrawn)
<1> SUFFICES ASSUME Reports, ReachThePicture PROVE SpecProcessing => []LandsWhereDrawn
  OBVIOUS
<1>1. InitProcessing => Faced
  BY DEF InitProcessing, Faced
<1>2. ASSUME Typed, Faced PROVE LandsWhereDrawn
  <2> SUFFICES ASSUME NEW c \in faces, OnGif(c, size).w > 16
               PROVE  LET still == OnPicture(c, size)
                          moved == OnGif(c, size)
                          base  == Fit(size, AnimationSize)
                          drift == 4 + size.h \div size.w
                      IN  /\ moved.x * size.w - still.x * base.w \in (-4 * size.w)..(4 * size.w)
                          /\ (moved.x + moved.w) * size.w - (still.x + still.w) * base.w
                               \in (-4 * size.w)..(4 * size.w)
                          /\ moved.y * size.h - still.y * base.h
                               \in (-drift * size.h)..(drift * size.h)
    BY DEF LandsWhereDrawn
  <2>1. Reported(c) /\ Reaches(c, size) /\ size \in Picture
    BY <1>2, FacesOfPicture DEF Reports, ReachThePicture
  <2>2. QED
    BY <2>1, LandsOnIt
<1>3. SpecProcessing => []Typed
  BY InitTyped, NextFlight, NextWritten, NextTyped, PTL DEF SpecProcessing
<1>4. QED
  BY <1>1, <1>2, <1>3, NextFaced, PTL DEF SpecProcessing
=============================================================================
