-------------------------------- MODULE Loading --------------------------------
(***************************************************************************)
(* src/images.py: how a worker gets the bytes of a submission, from a URL  *)
(* over redirects or out of the blob store, and what it refuses to decode. *)
(* The clock starts where fetch_url takes its deadline, after the first    *)
(* name was resolved.  It is looked at before a request and after a chunk  *)
(* of 64 KB, never during either, nor while a name is resolved: each is    *)
(* one blocking call.  A call waits up to LongCall for the other side to   *)
(* say something; http_timeout starts again with every byte, so a server   *)
(* that drips its headers or its body draws the call out on top of that,   *)
(* for as long as it likes.                                                *)
(***************************************************************************)
EXTENDS Integers, FiniteSets

CONSTANTS
  Hosts,        \* names a URL or a redirect may lead to
  NoHost,       \* not one of them
  Addresses,    \* what the resolver may answer
  Public,       \* those of them that are public
  Nowhere,      \* the address of a host that was not resolved
  MaxRedirects, \* settings.max_redirects
  MaxChunks,    \* settings.max_image_bytes, in chunks
  Deadline,     \* settings.fetch_deadline, in ticks
  LongCall,     \* bound: ticks a call takes of an honest server, or of the resolver
  MaxDrip       \* bound: ticks a server adds to one call by dripping (job_timeout ends it)

ASSUME LoadingAssumption ==
  /\ Public \subseteq Addresses /\ Nowhere \notin Addresses /\ NoHost \notin Hosts
  /\ MaxRedirects \in Nat /\ MaxChunks \in Nat /\ Deadline \in Nat
  /\ LongCall \in Nat /\ MaxDrip \in Nat

VARIABLES
  at,      \* how far the task has come
  target,  \* the host the next request is for
  pins,    \* PinnedAdapter.pins: the address each host is connected to
  hops,    \* requests sent
  clock,   \* ticks since the deadline was taken
  kept,    \* chunks in hand
  dialled, \* addresses connected to (history)
  dripped  \* ticks of the clock that servers dripped away (history)

loadVars == <<at, target, pins, hops, clock, kept, dialled, dripped>>

NoPins == [h \in Hosts |-> Nowhere]

InitLoading ==
  /\ at = "start" /\ target = NoHost /\ pins = NoPins
  /\ hops = 0 /\ clock = 0 /\ kept = 0 /\ dialled = {} /\ dripped = 0

Late == clock > Deadline

\* Asking the resolver takes its time, once there is a deadline.
Wait ==
  /\ clock' \in IF hops = 0 THEN {0} ELSE clock..(clock + LongCall)
  /\ UNCHANGED dripped

\* Asking a server takes its time, and as much more as it drips.
Hear ==
  \E t \in 0..LongCall, d \in 0..MaxDrip :
    clock' = clock + t + d /\ dripped' = dripped + d

\* A DealWithItError is a message to the visitor; anything else fails the job.
Refuse == at' = "refused"
Raise == at' = "raised"

\* load: the bytes of a submission that is in the store (or rides along, for a
\* job of an older release), or a refusal because they are gone or no base64.
LoadStored ==
  /\ at = "start"
  /\ \/ Refuse /\ UNCHANGED kept
     \/ at' = "decode" /\ kept' \in 1..(MaxChunks + 1)
  /\ UNCHANGED <<target, pins, hops, clock, dialled, dripped>>

BeginFetch ==
  /\ at = "start"
  /\ at' = "resolve" /\ target' \in Hosts
  /\ UNCHANGED <<pins, hops, clock, kept, dialled, dripped>>

\* Mutant of Resolve: a redirect keeps the first connection's pin.
ResolveOnce ==
  /\ at = "resolve" /\ Wait
  /\ \E a \in Public :
       /\ at' = "dial"
       /\ pins' = IF hops = 0 THEN [pins EXCEPT ![target] = a] ELSE pins
  /\ UNCHANGED <<target, hops, kept, dialled>>

\* resolve_public_address: whether a name with these addresses may be asked.
Acceptable(answer) == answer # {} /\ answer \subseteq Public

\* _validated_target: every address of the name must be public, and the
\* connection is pinned to one of them.  The name may resolve differently the
\* next time; one that cannot even be parsed or encoded raises.
Resolve ==
  /\ at = "resolve" /\ Wait
  /\ \/ Raise /\ UNCHANGED pins
     \/ \E answer \in SUBSET Addresses :
          IF Acceptable(answer)
            THEN \E a \in answer : at' = "dial" /\ pins' = [pins EXCEPT ![target] = a]
            ELSE Refuse /\ UNCHANGED pins
  /\ UNCHANGED <<target, hops, kept, dialled>>

\* Mutant of GivenUp: the clock is not looked at before a request.
GivenUpUntimed == hops > MaxRedirects

\* Nothing more is asked after the last redirect, or past the deadline.
GivenUp == Late \/ hops > MaxRedirects

StopFetching ==
  /\ at = "dial" /\ GivenUp
  /\ Refuse
  /\ UNCHANGED <<target, pins, hops, clock, kept, dialled, dripped>>

\* Mutant of Peer: the name is resolved again by whoever connects.
PeerByName == Addresses

\* get_connection_with_tls_context: the addresses a request may be sent to.
Peer == {pins[target]}

\* One hop: it fails, or answers with anything but a picture; something else
\* than a RequestException ends it (the death penalty, for one); the headers of
\* a picture that is not declared too large; or a redirect to somewhere.
Dial ==
  /\ at = "dial" /\ ~GivenUp /\ Hear
  /\ hops' = hops + 1
  /\ \E a \in Peer : dialled' = dialled \cup {a}
  /\ \/ (Refuse \/ Raise) /\ UNCHANGED target
     \/ at' = "read" /\ UNCHANGED target
     \/ at' = "resolve" /\ target' \in Hosts
  /\ UNCHANGED <<pins, kept>>

\* _read_capped, one chunk.
ReadChunk ==
  /\ at = "read" /\ Hear
  /\ IF clock' > Deadline \/ kept + 1 > MaxChunks
       THEN Refuse /\ UNCHANGED kept
       ELSE UNCHANGED at /\ kept' = kept + 1
  /\ UNCHANGED <<target, pins, hops, dialled>>

\* The body ends, and nobody looks at the clock; or the connection breaks, and
\* what requests raises here, outside the `try`, fails the job.
ReadEnd ==
  /\ at = "read" /\ Hear
  /\ at' = "decode" \/ Raise
  /\ UNCHANGED <<target, pins, hops, kept, dialled>>

\* decode: too large, too many pixels, or not a picture; or an exception it does
\* not expect.  What fetch_url had in hand is gone with its frame.
Decode ==
  /\ at = "decode"
  /\ \/ (Refuse \/ Raise) /\ UNCHANGED <<target, pins, hops, clock, kept, dialled, dripped>>
     \/ /\ kept \in 1..MaxChunks /\ at' = "thumb"
        /\ target' = NoHost /\ pins' = NoPins
        /\ hops' = 0 /\ clock' = 0 /\ kept' = 0 /\ dialled' = {} /\ dripped' = 0

Load ==
  \/ LoadStored \/ BeginFetch \/ Resolve \/ StopFetching \/ Dial
  \/ ReadChunk \/ ReadEnd \/ Decode

-----------------------------------------------------------------------------
(* Properties. *)

\* The part of the type invariant that is about fetching; a request goes only
\* to a host that has been resolved.
TypeOKLoading ==
  /\ target \in Hosts \cup {NoHost} /\ pins \in [Hosts -> Addresses \cup {Nowhere}]
  /\ hops \in Nat /\ clock \in Nat /\ dripped \in Nat /\ kept \in 0..(MaxChunks + 1)
  /\ dialled \subseteq Addresses
  /\ at \in {"resolve", "dial", "read"} => target \in Hosts
  /\ at \in {"dial", "read"} => pins[target] # Nowhere

\* PinnedAdapter: "connects each host to the address that was validated for
\* it", over any chain of redirects and whatever the name resolves to by then.
DialsOnlyChecked == dialled \subseteq Public

\* But for what servers drip away, a download is over within two calls of its
\* deadline, whatever it is led through: the one the deadline falls into, and
\* the resolution of one more redirect.
OverInTime == clock - dripped <= Deadline + 2 * LongCall

\* docs/LOAD.md: "A server that drips bytes cannot hold a worker thread past
\* DWI_FETCH_DEADLINE (30 s), redirects included."  The two calls that every
\* download may take past the deadline are granted.
DripsAreCut == clock <= Deadline + 2 * LongCall
=============================================================================
