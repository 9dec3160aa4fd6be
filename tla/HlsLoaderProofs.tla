---------------------------- MODULE HlsLoaderProofs ----------------------------
(***************************************************************************)
(* Proofs about HlsLoader for every publisher, every budget and any number *)
(* of runs: its queue stays consistent, stream time advances, files and    *)
(* late reads are bounded, an end leaves nothing behind, and the loader is *)
(* a LiveSource.                                                           *)
(*                                                                         *)
(* The invariant has five parts, each shown on top of the ones it needs:   *)
(* TypeOK with ControlInv (what the place of the run says of what is in    *)
(* hand), QueueIsConsistent, TimeInv (every window start still to come is  *)
(* later than those delivered), and EffectsInv (files, keys, late reads).  *)
(***************************************************************************)
EXTENDS HlsLoader, SequenceTheorems, TLAPS

\* A fetch of a segment is one of the head of the queue, a slice is in hand
\* while it is offered and used, and a playlist is merged before anything else.
ControlInv ==
  /\ pc # "closed" => result = "open"
  /\ pc \in {"fetch", "read"} /\ fetch.target = "segment" => pending # <<>>
  /\ pc \in {"offer", "yielded"} => slice.segment \in Segment
  /\ pc \notin {"closed", "merge"} => todo = <<>>

\* A window start that lies before everything still to come.
Passed(start) ==
  /\ start < nextStart
  /\ \A i \in DOMAIN pending : start < offsets[pending[i]]

\* Window starts grow along the queue, behind those already delivered and the
\* one in hand.
TimeInv ==
  /\ \A i \in DOMAIN pending : offsets[pending[i]] < nextStart
  /\ \A i, j \in DOMAIN pending : i < j => offsets[pending[i]] < offsets[pending[j]]
  /\ \A i \in DOMAIN timeline : Passed(timeline[i])
  /\ pc = "offer" =>
       /\ Passed(slice.start)
       /\ \A i \in DOMAIN timeline : timeline[i] < slice.start
  /\ TimelineAdvances

\* What a run has done outside itself.
EffectsInv ==
  /\ NoFileForgotten
  /\ EndedMeansDrained
  /\ lateChunks <= SkipCount
  /\ ~cancelRequested => lateChunks = 0
  /\ pc = "read" => /\ fetch.skip <= SkipCount
                    /\ cancelRequested => lateChunks + fetch.skip <= SkipCount
  /\ delivered \subseteq persisted
  /\ pc # "closed" => delivered \subseteq seen

-----------------------------------------------------------------------------
(***************************************************************************)
(* Types.                                                                  *)
(***************************************************************************)
\* A group of variables that a step leaves alone keeps its types.
LEMMA StutterTypes ==
  ASSUME TypeOK
  PROVE  /\ UNCHANGED upVars => UpTypeOK'
         /\ UNCHANGED durableVars => DurableTypeOK'
         /\ UNCHANGED <<runVars, fetch>> => RunTypeOK'
         /\ UNCHANGED <<queueVars, mergeVars>> => QueueTypeOK'
         /\ UNCHANGED <<policyVars, history>> => PolicyTypeOK'
BY DEF TypeOK, UpTypeOK, DurableTypeOK, RunTypeOK, QueueTypeOK, PolicyTypeOK,
   upVars, durableVars, files, runVars, queueVars, mergeVars, policyVars, history

\* What a fetch can be turned into.
LEMMA FetchTypes ==
  /\ NoFetch \in Fetches
  /\ \A target \in {"refresh", "segment"} :
       [NoFetch EXCEPT !.target = target] \in Fetches
  /\ \A f \in Fetches, n \in Nat :
       /\ [f EXCEPT !.chunks = 0, !.skip = n] \in Fetches
       /\ [f EXCEPT !.chunks = @ + 1, !.skip = n] \in Fetches
       /\ [f EXCEPT !.attempts = @ + 1] \in Fetches
       /\ [f EXCEPT !.depth = @ + 1, !.attempts = 0] \in Fetches
       /\ [f EXCEPT !.target = "refresh"] \in Fetches
<1>1. NoFetch \in Fetches
  BY DEF NoFetch, Fetches
<1>2. ASSUME NEW target \in {"refresh", "segment"}
      PROVE  [NoFetch EXCEPT !.target = target] \in Fetches
  BY DEF NoFetch, Fetches
<1>3. ASSUME NEW f \in Fetches, NEW n \in Nat, NEW m \in Nat
      PROVE  /\ [f EXCEPT !.chunks = m, !.skip = n] \in Fetches
             /\ [f EXCEPT !.depth = m, !.attempts = n] \in Fetches
  BY <1>3 DEF Fetches
<1>4. ASSUME NEW f \in Fetches, NEW n \in Nat
      PROVE  [f EXCEPT !.chunks = @ + 1, !.skip = n] \in Fetches
  <2>1. f.chunks + 1 \in Nat
    BY <1>4 DEF Fetches
  <2> QED
    BY <1>3, <2>1, Zenon
<1>5. ASSUME NEW f \in Fetches
      PROVE  [f EXCEPT !.attempts = @ + 1] \in Fetches
  BY <1>5 DEF Fetches
<1>6. ASSUME NEW f \in Fetches
      PROVE  [f EXCEPT !.depth = @ + 1, !.attempts = 0] \in Fetches
  <2>1. f.depth + 1 \in Nat /\ 0 \in Nat
    BY <1>6 DEF Fetches
  <2> QED
    BY <1>3, <2>1, Zenon
<1>7. ASSUME NEW f \in Fetches
      PROVE  [f EXCEPT !.target = "refresh"] \in Fetches
  BY <1>7 DEF Fetches
<1> QED
  BY <1>1, <1>2, <1>3, <1>4, <1>5, <1>6, <1>7, Zenon

\* What a deletion, or the removal of the directory, leaves, whether it works or
\* not: no new file, and none that is neither gone nor known to be undeleted.
LEMMA FileSteps ==
  /\ RemoveTempDir => tempFiles' \subseteq tempFiles /\ undeleted' = tempFiles'
  /\ \A file : Unlink(file) =>
       /\ tempFiles' \subseteq tempFiles
       /\ undeleted \subseteq tempFiles => undeleted' \subseteq tempFiles'
       /\ tempFiles' \ undeleted' \subseteq (tempFiles \ undeleted) \ {file}
<1>1. RemoveTempDir => tempFiles' \subseteq tempFiles /\ undeleted' = tempFiles'
  BY DEF RemoveTempDir
<1>2. ASSUME NEW file, Unlink(file)
      PROVE  /\ tempFiles' \subseteq tempFiles
             /\ undeleted \subseteq tempFiles => undeleted' \subseteq tempFiles'
             /\ tempFiles' \ undeleted' \subseteq (tempFiles \ undeleted) \ {file}
  BY <1>2 DEF Unlink
<1> QED
  BY <1>1, <1>2

LEMMA PublisherTypes ==
  ASSUME TypeOK, Publish \/ PublishEnd \/ PublisherRestarts
  PROVE  UpTypeOK'
<1> USE DEF TypeOK, UpTypeOK
<1>1. CASE Publish
  <2> DEFINE seq == IF window = <<>> THEN 1 ELSE Last(window).seq + 1
             new == [seq |-> seq, name |-> name]
             all == Append(window, new)
  <2>1. seq \in 1..MaxSeq
    <3>1. CASE window = <<>>
      BY <3>1, <1>1, LoaderAssumption DEF Publish
    <3>2. CASE window # <<>>
      <4>1. Len(window) \in 1..Len(window) /\ window[Len(window)] \in Segment
        BY <3>2
      <4>2. Last(window).seq \in 1..MaxSeq
        BY <4>1 DEF Last, Segment
      <4>3. seq <= MaxSeq /\ seq = Last(window).seq + 1
        BY <3>2, <1>1 DEF Publish
      <4> QED
        BY <4>2, <4>3, LoaderAssumption
    <3> QED
      BY <3>1, <3>2
  <2>2. new \in Segment
    BY <2>1 DEF Segment
  <2>3. all \in Seq(Segment) /\ all # <<>>
    <3> HIDE DEF new
    <3> QED
      BY <2>2, AppendProperties
  <2>4. Tail(all) \in Seq(Segment)
    <3> HIDE DEF all
    <3> QED
      BY <2>3, HeadTailProperties
  <2>5. /\ window' = IF Len(all) > WindowSize THEN Tail(all) ELSE all
        /\ UNCHANGED <<endlist, name, restarts>>
    BY <1>1 DEF Publish
  <2> HIDE DEF all
  <2> QED
    BY <2>3, <2>4, <2>5
<1>2. CASE PublishEnd
  BY <1>2 DEF PublishEnd
<1>3. CASE PublisherRestarts
  <2>1. <<>> \in Seq(Segment)
    BY EmptySeq
  <2>2. /\ window' = <<>> /\ endlist' = FALSE /\ name' \in Names
        /\ restarts' = restarts + 1
    BY <1>3 DEF PublisherRestarts
  <2>3. window' \in Seq(Segment)
    BY <2>1, <2>2, Zenon
  <2>4. restarts' \in Nat
    BY <2>2
  <2> QED
    BY <2>2, <2>3, <2>4, Zenon
<1> QED
  BY <1>1, <1>2, <1>3

\* The head of the queue leaves it, attempted.
LEMMA FinalizeTypes ==
  ASSUME TypeOK, pending # <<>>, FinalizePending, UNCHANGED mergeVars
  PROVE  /\ QueueTypeOK'
         /\ Head(pending) \in Segment
         /\ \A i \in DOMAIN pending' : i + 1 \in DOMAIN pending /\ pending'[i] = pending[i + 1]
<1>1. pending \in Seq(Segment) /\ pending # <<>>
  BY DEF TypeOK, QueueTypeOK
<1>2. /\ Head(pending) \in Segment
      /\ Tail(pending) \in Seq(Segment)
      /\ Len(Tail(pending)) = Len(pending) - 1
      /\ \A i \in 1..Len(Tail(pending)) : Tail(pending)[i] = pending[i + 1]
  BY <1>1, HeadTailProperties
<1>3. /\ queued' \subseteq queued /\ emitted' \subseteq Segment
      /\ offsets' \in [queued' -> Nat]
  BY <1>2 DEF TypeOK, QueueTypeOK, FinalizePending
<1>4. QueueTypeOK'
  BY <1>2, <1>3 DEF TypeOK, QueueTypeOK, FinalizePending, mergeVars
<1> QED
  BY <1>1, <1>2, <1>4 DEF FinalizePending

\* A segment of the playlist is queued, unless it is known.
LEMMA MergeTypes ==
  ASSUME TypeOK, MergeSegment
  PROVE  QueueTypeOK'
<1>1. todo \in Seq(Segment) /\ todo # <<>> /\ pending \in Seq(Segment)
  BY DEF TypeOK, QueueTypeOK, MergeSegment
<1>2. Head(todo) \in Segment /\ Tail(todo) \in Seq(Segment)
  BY <1>1, HeadTailProperties
<1>3. Append(pending, Head(todo)) \in Seq(Segment)
  BY <1>1, <1>2, AppendProperties
<1>4. CASE Head(todo) \in queued \cup emitted
  BY <1>2, <1>4 DEF TypeOK, QueueTypeOK, MergeSegment
<1>5. CASE Head(todo) \notin queued \cup emitted
  <2>1. queued' \subseteq Segment /\ offsets' \in [queued' -> Nat]
    BY <1>2, <1>5 DEF TypeOK, QueueTypeOK, MergeSegment
  <2> QED
    <3>1. /\ todo' = Tail(todo) /\ pending' = Append(pending, Head(todo))
          /\ nextStart' = nextStart + 1 /\ fresh' = TRUE
          /\ UNCHANGED <<emitted, sawEndlist, idle, refreshes>>
      BY <1>5 DEF MergeSegment
    <3> QED
      BY <1>2, <1>3, <2>1, <3>1 DEF TypeOK, QueueTypeOK
<1> QED
  BY <1>4, <1>5

LEMMA ParseTypes ==
  ASSUME TypeOK, ParseMedia
  PROVE  QueueTypeOK'
<1>1. PICK n \in 0..Len(window) : todo' = Parsed(n).segments /\ sawEndlist' = Parsed(n).isEndlist
  BY DEF ParseMedia
<1>2. window \in Seq(Segment) /\ endlist \in BOOLEAN
  BY DEF TypeOK, UpTypeOK
<1>3. SubSeq(window, 1, n) \in Seq(Segment)
  BY <1>2
<1>4. todo' \in Seq(Segment) /\ sawEndlist' \in BOOLEAN
  BY <1>1, <1>2, <1>3 DEF Parsed
<1>5. emitted' \subseteq Segment
  BY DEF ParseMedia, Pruned, TypeOK, QueueTypeOK
<1> QED
  <2>1. /\ fresh' = FALSE /\ refreshes' = refreshes + 1
        /\ UNCHANGED <<pending, queued, offsets, nextStart, idle>>
    BY DEF ParseMedia
  <2>2. /\ pending' \in Seq(Segment) /\ queued' \subseteq Segment
        /\ offsets' \in [queued' -> Nat]
    BY <2>1, Zenon DEF TypeOK, QueueTypeOK
  <2>3. fresh' \in BOOLEAN /\ nextStart' \in Nat /\ idle' \in Nat /\ refreshes' \in Nat
    <3>1. nextStart' \in Nat /\ idle' \in Nat
      BY <2>1, Zenon DEF TypeOK, QueueTypeOK
    <3>2. refreshes \in Nat
      BY DEF TypeOK, QueueTypeOK
    <3>3. refreshes' \in Nat
      BY <2>1, <3>2
    <3> QED
      BY <2>1, <3>1, <3>3, Zenon
  <2> QED
    BY <1>4, <1>5, <2>2, <2>3 DEF QueueTypeOK

\* A run that begins starts from nothing.
LEMMA ResetTypes ==
  ASSUME TypeOK, BeginRun
  PROVE  QueueTypeOK' /\ PolicyTypeOK'
<1>1. /\ todo' = <<>> /\ pending' = <<>> /\ queued' = {} /\ emitted' = {} /\ offsets' = <<>>
      /\ fresh' = FALSE /\ sawEndlist' = FALSE /\ idle' = 0 /\ refreshes' = 0 /\ nextStart' = 0
      /\ reconnects' = 0 /\ previous' = 0 /\ timeline' = <<>> /\ lateChunks' = 0
      /\ seen' = persisted /\ slice' = NoSlice /\ delivered' = delivered
  BY DEF BeginRun, ResetRuntime
<1>2. <<>> \in Seq(Segment) /\ <<>> \in Seq(Nat)
  BY EmptySeq
<1>3. todo' \in Seq(Segment) /\ pending' \in Seq(Segment) /\ timeline' \in Seq(Nat)
  BY <1>1, <1>2, Zenon
<1>4. offsets' \in [queued' -> Nat]
  <2>1. offsets' = [x \in {} |-> 0]
    BY <1>1
  <2> QED
    BY <1>1, <2>1
<1>5. QueueTypeOK'
  BY <1>1, <1>3, <1>4 DEF QueueTypeOK
<1>6. seen' \subseteq Segment /\ delivered' \subseteq Segment
  BY <1>1 DEF TypeOK, DurableTypeOK, PolicyTypeOK
<1>7. slice' \in [segment : Segment, start : Nat] \cup {NoSlice}
  BY <1>1, Zenon
<1>8. PolicyTypeOK'
  BY <1>1, <1>3, <1>6, <1>7, LoaderAssumption DEF PolicyTypeOK
<1> QED
  BY <1>5, <1>8

\* What the budget of a read's checks becomes.
LEMMA SkipTypes ==
  ASSUME TypeOK
  PROVE  /\ SkipAfterCheck \in Nat /\ fetch.skip \in Nat
         /\ fetch.skip > 0 => SkipAfterCheck = fetch.skip - 1
         /\ fetch.skip = 0 => SkipAfterCheck = SkipCount
<1>1. fetch.skip \in Nat
  BY DEF TypeOK, RunTypeOK, Fetches
<1> QED
  BY <1>1, LoaderAssumption DEF SkipAfterCheck

\* The slice in hand while it is offered.
LEMMA SliceTypes ==
  ASSUME TypeOK, ControlInv, pc \in {"offer", "yielded"}
  PROVE  slice.segment \in Segment /\ slice.segment.seq \in 1..MaxSeq /\ slice.start \in Nat
<1>1. slice.segment \in Segment
  BY DEF ControlInv
<1>2. slice.segment.seq \in 1..MaxSeq
  BY <1>1 DEF Segment
<1>3. slice \in [segment : Segment, start : Nat] \cup {NoSlice}
  BY DEF TypeOK, PolicyTypeOK
<1>4. slice.start \in Nat
  BY <1>3 DEF NoSlice
<1> QED
  BY <1>1, <1>2, <1>4

\* The head of a queue is known to the set.
LEMMA HeadOfQueue ==
  ASSUME TypeOK, QueueIsConsistent, pending # <<>>
  PROVE  Head(pending) \in queued
<1>1. pending \in Seq(Segment) /\ Len(pending) >= 1
  BY DEF TypeOK, QueueTypeOK
<1>2. 1 \in DOMAIN pending /\ Head(pending) = pending[1]
  BY <1>1
<1> QED
  BY <1>2 DEF QueueIsConsistent

LEMMA TypeStep ==
  ASSUME TypeOK, ControlInv, QueueIsConsistent, [Next]_vars
  PROVE  TypeOK'
<1> USE StutterTypes, FileSteps
<1> USE DEF files, DurableTypeOK, RunTypeOK, Goto, Finish, StopIteration, FetchFor
<1>0. /\ UpTypeOK /\ DurableTypeOK /\ RunTypeOK /\ QueueTypeOK /\ PolicyTypeOK
      /\ fetch \in Fetches /\ tempFiles \subseteq Segment /\ undeleted \subseteq tempFiles
  BY DEF TypeOK
<1>1. CASE Publisher
  BY <1>0, <1>1, PublisherTypes DEF Publisher, TypeOK
<1>2. CASE RequestCancel
  BY <1>0, <1>2 DEF RequestCancel, TypeOK, runVars
<1>3. CASE BeginRun
  <2>1. /\ UNCHANGED <<upVars, cancelRequested, persisted>>
        /\ RemoveTempDir /\ run' = run + 1 /\ pc' = "fetch" /\ result' = "open"
        /\ fetch' = NoFetch
    BY <1>3 DEF BeginRun
  <2>2. UpTypeOK' /\ DurableTypeOK'
    BY <1>0, <2>1
  <2>3. RunTypeOK'
    <3>1. fetch' \in Fetches /\ run' \in Nat
      <4>1. fetch' \in Fetches
        BY <2>1, FetchTypes, Zenon
      <4>2. run' \in Nat
        BY <1>0, <2>1
      <4> QED
        BY <4>1, <4>2
    <3> QED
      BY <2>1, <3>1
  <2> QED
    BY <1>3, <2>2, <2>3, ResetTypes DEF TypeOK
<1>4. CASE StartFetch
  <2>1. fetch' \in Fetches
    BY <1>0, <1>4, FetchTypes, LoaderAssumption, ZenonT(20) DEF StartFetch
  <2> QED
    BY <1>0, <1>4, <2>1 DEF StartFetch, TypeOK
<1>5. CASE ReadStopped \/ ReadBreaks
  BY <1>0, <1>5 DEF ReadStopped, ReadBreaks, TypeOK
<1>6. CASE ReadChunk
  <2>1. fetch' \in Fetches
    BY <1>0, <1>6, FetchTypes, SkipTypes, ZenonT(20) DEF ReadChunk
  <2>2. lateChunks' \in Nat /\ UNCHANGED <<policyVars, delivered, timeline>>
    BY <1>0, <1>6 DEF ReadChunk, PolicyTypeOK
  <2>3. PolicyTypeOK'
    BY <1>0, <2>2 DEF PolicyTypeOK, policyVars
  <2>4. DurableTypeOK' /\ RunTypeOK'
    BY <1>0, <1>6, <2>1 DEF ReadChunk
  <2> QED
    BY <1>0, <1>6, <2>3, <2>4 DEF ReadChunk, TypeOK
<1>18. CASE PlaylistFails \/ FollowMaster
  <2>1. fetch' \in Fetches
    BY <1>0, <1>18, FetchTypes, Zenon DEF PlaylistFails, FollowMaster
  <2> QED
    BY <1>0, <1>18, <2>1 DEF PlaylistFails, FollowMaster, TypeOK
<1>7. CASE Malformed
  <2>1. PolicyTypeOK'
    <3>1. reconnects' \in Nat /\ UNCHANGED <<previous, seen, slice, history>>
      BY <1>0, <1>7 DEF Malformed, PolicyTypeOK
    <3> QED
      BY <1>0, <3>1 DEF PolicyTypeOK, history
  <2> QED
    BY <1>0, <1>7, <2>1 DEF Malformed, TypeOK
<1>8. CASE ParseMedia
  BY <1>0, <1>8, ParseTypes DEF ParseMedia, TypeOK, durableVars
<1>9. CASE MergeSegment
  BY <1>0, <1>9, MergeTypes DEF MergeSegment, TypeOK
<1>10. CASE MergeDone
  <2>1. QueueTypeOK'
    <3>1. idle' \in Nat /\ UNCHANGED <<queueVars, todo, fresh, sawEndlist, refreshes>>
      BY <1>0, <1>10 DEF MergeDone, QueueTypeOK
    <3> QED
      BY <1>0, <3>1 DEF QueueTypeOK, queueVars
  <2>2. fetch' \in Fetches
    BY <1>0, <1>10, FetchTypes, Zenon DEF MergeDone
  <2> QED
    BY <1>0, <1>10, <2>1, <2>2 DEF MergeDone, TypeOK, durableVars
<1>11. CASE NextSlice \/ RuntimeExceeded \/ Poll
  <2>1. fetch' \in Fetches
    BY <1>0, <1>11, FetchTypes, Zenon DEF NextSlice, RuntimeExceeded, Poll
  <2> QED
    BY <1>0, <1>11, <2>1 DEF NextSlice, RuntimeExceeded, Poll, TypeOK
<1>12. CASE Materialize
  <2>1. pending # <<>>
    BY <1>12 DEF Materialize, ControlInv
  <2>2. CASE UNCHANGED <<queueVars, slice>> /\ (Finish("ended") \/ Finish("failed"))
    <3>1. PolicyTypeOK' /\ QueueTypeOK'
      BY <1>0, <1>12, <2>2 DEF Materialize, policyVars
    <3> QED
      BY <1>0, <1>12, <2>2, <3>1 DEF Materialize, TypeOK
  <2>3. CASE /\ tempFiles' = tempFiles \cup {Head(pending)}
             /\ undeleted' = undeleted \ {Head(pending)}
             /\ slice' = [segment |-> Head(pending), start |-> offsets[Head(pending)]]
             /\ FinalizePending
             /\ Goto("offer")
    <3>1. QueueTypeOK' /\ Head(pending) \in Segment
      BY <1>12, <2>1, <2>3, FinalizeTypes DEF Materialize
    <3>2. offsets[Head(pending)] \in Nat
      <4>1. Head(pending) \in queued
        BY <2>1, HeadOfQueue
      <4> QED
        BY <1>0, <4>1 DEF QueueTypeOK
    <3>3. slice' \in [segment : Segment, start : Nat]
      BY <2>3, <3>1, <3>2
    <3>4. PolicyTypeOK'
      BY <1>0, <1>12, <3>3 DEF Materialize, PolicyTypeOK, history
    <3> QED
      BY <1>0, <1>12, <2>3, <3>1, <3>4 DEF Materialize, TypeOK
  <2> QED
    BY <1>12, <2>2, <2>3 DEF Materialize
<1>13. CASE SegmentFails
  <2>1. pending # <<>>
    BY <1>13 DEF SegmentFails, ControlInv
  <2>2. QueueTypeOK'
    BY <1>0, <1>13, <2>1, FinalizeTypes DEF SegmentFails
  <2> QED
    BY <1>0, <1>13, <2>2 DEF SegmentFails, TypeOK
<1>14. CASE Reject \/ AcceptFails \/ Consume
  BY <1>0, <1>14 DEF Reject, AcceptFails, Consume, TypeOK
<1>15. CASE Accept
  <2>1. slice.segment \in Segment /\ slice.segment.seq \in 1..MaxSeq /\ slice.start \in Nat
    BY <1>15, SliceTypes DEF Accept
  <2>2. Append(timeline, slice.start) \in Seq(Nat)
    BY <1>0, <2>1, AppendProperties DEF PolicyTypeOK
  <2>3. PolicyTypeOK'
    BY <1>0, <1>15, <2>1, <2>2 DEF Accept, PolicyTypeOK
  <2>4. DurableTypeOK'
    BY <1>0, <1>15, <2>1 DEF Accept
  <2> QED
    BY <1>0, <1>15, <2>3, <2>4 DEF Accept, TypeOK
<1>16. CASE Crash
  BY <1>0, <1>16 DEF Crash, TypeOK
<1>17. CASE UNCHANGED vars
  BY <1>17 DEF vars, TypeOK, history
<1> QED
  BY <1>1, <1>2, <1>3, <1>4, <1>5, <1>6, <1>7, <1>8, <1>9, <1>10, <1>11, <1>12,
     <1>13, <1>14, <1>15, <1>16, <1>17, <1>18 DEF Next, LoaderStep

-----------------------------------------------------------------------------
(***************************************************************************)
(* Control and queue.                                                      *)
(***************************************************************************)
LEMMA ControlStep ==
  ASSUME TypeOK, ControlInv, [Next]_vars
  PROVE  ControlInv'
<1> USE DEF ControlInv, Goto, Finish, StopIteration, FetchFor
<1>1. CASE Publisher \/ RequestCancel \/ UNCHANGED vars
  BY <1>1 DEF Publisher, RequestCancel, vars, runVars, queueVars, mergeVars, policyVars
<1>2. CASE BeginRun
  BY <1>2 DEF BeginRun, ResetRuntime, NoFetch
<1>3. CASE StartFetch
  BY <1>3 DEF StartFetch, queueVars, mergeVars, TypeOK, RunTypeOK, Fetches
<1>4. CASE ReadStopped \/ ReadBreaks
  BY <1>4 DEF ReadStopped, ReadBreaks, queueVars, mergeVars
<1>5. CASE ReadChunk
  BY <1>5 DEF ReadChunk, queueVars, mergeVars, TypeOK, RunTypeOK, Fetches
<1>6. CASE PlaylistFails
  BY <1>6 DEF PlaylistFails, queueVars, mergeVars, TypeOK, RunTypeOK, Fetches
<1>7. CASE FollowMaster
  BY <1>7 DEF FollowMaster, queueVars, mergeVars, TypeOK, RunTypeOK, Fetches
<1>8. CASE Malformed
  BY <1>8 DEF Malformed, queueVars, mergeVars
<1>9. CASE ParseMedia
  BY <1>9 DEF ParseMedia
<1>10. CASE MergeSegment
  BY <1>10 DEF MergeSegment, runVars
<1>11. CASE MergeDone
  BY <1>11 DEF MergeDone
<1>12. CASE NextSlice
  BY <1>12 DEF NextSlice, queueVars, mergeVars
<1>13. CASE RuntimeExceeded \/ Poll
  BY <1>13 DEF RuntimeExceeded, Poll, queueVars, mergeVars, NoFetch
<1>14. CASE Materialize
  <2>1. pending # <<>>
    BY <1>14 DEF Materialize
  <2>2. Head(pending) \in Segment
    BY <2>1, HeadTailProperties DEF TypeOK, QueueTypeOK
  <2> QED
    BY <1>14, <2>2 DEF Materialize, mergeVars
<1>15. CASE SegmentFails
  BY <1>15 DEF SegmentFails, mergeVars
<1>16. CASE Reject \/ AcceptFails \/ Consume \/ Accept
  BY <1>16 DEF Reject, AcceptFails, Consume, Accept, queueVars, mergeVars
<1>17. CASE Crash
  BY <1>17 DEF Crash
<1> QED
  BY <1>1, <1>2, <1>3, <1>4, <1>5, <1>6, <1>7, <1>8, <1>9, <1>10, <1>11, <1>12,
     <1>13, <1>14, <1>15, <1>16, <1>17 DEF Next, LoaderStep

\* The steps that change the queue, the slice in hand or the timeline.
LEMMA QueueSteps ==
  ASSUME ControlInv, [Next]_vars
  PROVE  \/ BeginRun \/ ParseMedia \/ MergeSegment \/ Accept
         \/ /\ FinalizePending /\ pending # <<>>
            /\ UNCHANGED <<mergeVars, timeline>>
            /\ pc' = "offer" => slice'.start = offsets[Head(pending)]
         \/ /\ UNCHANGED <<pending, queued, emitted, offsets, nextStart, timeline>>
            /\ pc' = "offer" => pc = "offer" /\ UNCHANGED slice
<1> USE DEF Goto, Finish, StopIteration, queueVars, policyVars, history
<1>1. CASE Publisher \/ RequestCancel \/ Crash \/ UNCHANGED vars
  BY <1>1 DEF Publisher, RequestCancel, Crash, vars, runVars
<1>2. CASE StartFetch \/ ReadStopped \/ ReadChunk \/ ReadBreaks
  BY <1>2 DEF StartFetch, ReadStopped, ReadChunk, ReadBreaks
<1>3. CASE PlaylistFails \/ FollowMaster \/ Malformed \/ MergeDone
  BY <1>3 DEF PlaylistFails, FollowMaster, Malformed, MergeDone
<1>4. CASE NextSlice \/ RuntimeExceeded \/ Poll
  BY <1>4 DEF NextSlice, RuntimeExceeded, Poll
<1>5. CASE Reject \/ AcceptFails \/ Consume
  BY <1>5 DEF Reject, AcceptFails, Consume
<1>6. CASE Materialize \/ SegmentFails
  BY <1>6 DEF Materialize, SegmentFails, ControlInv
<1> QED
  BY <1>1, <1>2, <1>3, <1>4, <1>5, <1>6 DEF Next, LoaderStep

\* What a queued segment does to the queue.
LEMMA AppendedSegment ==
  ASSUME TypeOK, QueueIsConsistent, MergeSegment, Head(todo) \notin queued \cup emitted
  PROVE  /\ DOMAIN pending' = DOMAIN pending \cup {Len(pending) + 1}
         /\ \A i \in DOMAIN pending :
              /\ pending'[i] = pending[i] /\ pending[i] # Head(todo)
              /\ offsets'[pending'[i]] = offsets[pending[i]]
              /\ i < Len(pending) + 1
         /\ pending'[Len(pending) + 1] = Head(todo)
         /\ offsets'[Head(todo)] = nextStart
         /\ queued' = queued \cup {Head(todo)}
         /\ nextStart' = nextStart + 1
         /\ UNCHANGED <<emitted, timeline, pc>>
<1>1. todo \in Seq(Segment) /\ todo # <<>> /\ pending \in Seq(Segment)
  BY DEF TypeOK, QueueTypeOK, MergeSegment
<1>2. Head(todo) \in Segment
  BY <1>1, HeadTailProperties
<1>3. /\ pending' = Append(pending, Head(todo))
      /\ queued' = queued \cup {Head(todo)}
      /\ offsets' = [s \in queued' |-> IF s = Head(todo) THEN nextStart ELSE offsets[s]]
      /\ nextStart' = nextStart + 1
      /\ UNCHANGED <<emitted, timeline, pc>>
  BY DEF MergeSegment, history, runVars
<1>4. /\ DOMAIN pending = 1..Len(pending) /\ Len(pending) \in Nat
      /\ DOMAIN pending' = 1..Len(pending) + 1
      /\ \A i \in 1..Len(pending) : pending'[i] = pending[i]
      /\ pending'[Len(pending) + 1] = Head(todo)
  BY <1>1, <1>2, <1>3, AppendProperties
<1>5. ASSUME NEW i \in DOMAIN pending
      PROVE  pending[i] \in queued /\ pending[i] # Head(todo)
  BY DEF QueueIsConsistent
<1>6. \A i \in DOMAIN pending : offsets'[pending'[i]] = offsets[pending[i]]
  BY <1>3, <1>4, <1>5
<1>7. offsets'[Head(todo)] = nextStart
  BY <1>3
<1> QED
  BY <1>3, <1>4, <1>5, <1>6, <1>7

\* What the attempt of the head does to the queue.
LEMMA FinalizedSegment ==
  ASSUME TypeOK, QueueIsConsistent, FinalizePending, pending # <<>>, UNCHANGED mergeVars
  PROVE  /\ 1 \in DOMAIN pending /\ pending[1] = Head(pending)
         /\ DOMAIN pending = {1} \cup {i + 1 : i \in DOMAIN pending'}
         /\ DOMAIN pending' \subseteq Nat \ {0}
         /\ \A i \in DOMAIN pending' :
              /\ i + 1 \in DOMAIN pending
              /\ pending'[i] = pending[i + 1] /\ pending'[i] # Head(pending)
              /\ offsets'[pending'[i]] = offsets[pending[i + 1]]
         /\ queued' = queued \ {Head(pending)}
         /\ emitted' = emitted \cup {Head(pending)}
         /\ UNCHANGED nextStart
<1>1. pending \in Seq(Segment) /\ pending # <<>>
  BY DEF TypeOK, QueueTypeOK
<1>2. /\ pending' = Tail(pending)
      /\ queued' = queued \ {Head(pending)}
      /\ emitted' = emitted \cup {Head(pending)}
      /\ offsets' = [s \in queued' |-> offsets[s]]
      /\ UNCHANGED nextStart
  BY DEF FinalizePending
<1>3. /\ Len(pending) \in Nat \ {0} /\ DOMAIN pending = 1..Len(pending)
      /\ pending[1] = Head(pending)
      /\ DOMAIN pending' = 1..Len(pending) - 1
      /\ \A i \in 1..Len(pending) - 1 : pending'[i] = pending[i + 1]
  BY <1>1, <1>2, HeadTailProperties
<1>4. ASSUME NEW i \in DOMAIN pending'
      PROVE  /\ i + 1 \in DOMAIN pending
             /\ pending[i + 1] # Head(pending)
             /\ pending[i + 1] \in queued'
  <2>1. i + 1 \in DOMAIN pending /\ 1 \in DOMAIN pending /\ i + 1 # 1
    BY <1>3
  <2>2. pending[i + 1] # Head(pending) /\ pending[i + 1] \in queued
    BY <1>3, <2>1 DEF QueueIsConsistent
  <2> QED
    BY <1>2, <2>1, <2>2
<1>5. DOMAIN pending = {1} \cup {i + 1 : i \in DOMAIN pending'}
  <2>1. ASSUME NEW j \in DOMAIN pending
        PROVE  j \in {1} \cup {i + 1 : i \in DOMAIN pending'}
    <3>1. CASE j = 1
      BY <3>1
    <3>2. CASE j # 1
      <4>1. j - 1 \in DOMAIN pending' /\ j = (j - 1) + 1
        BY <3>2, <1>3
      <4> QED
        BY <4>1
    <3> QED
      BY <3>1, <3>2
  <2> QED
    BY <1>3, <1>4, <2>1
<1>6. 1 \in DOMAIN pending /\ DOMAIN pending' \subseteq Nat \ {0}
  BY <1>3
<1>7. ASSUME NEW i \in DOMAIN pending'
      PROVE  /\ pending'[i] = pending[i + 1] /\ pending'[i] # Head(pending)
             /\ offsets'[pending'[i]] = offsets[pending[i + 1]]
  BY <1>2, <1>3, <1>4
<1> QED
  BY <1>2, <1>3, <1>4, <1>5, <1>6, <1>7

LEMMA QueueStep ==
  ASSUME TypeOK, ControlInv, QueueIsConsistent, [Next]_vars
  PROVE  QueueIsConsistent'
<1>1. CASE BeginRun
  BY <1>1 DEF BeginRun, ResetRuntime, QueueIsConsistent
<1>2. CASE ParseMedia
  BY <1>2 DEF ParseMedia, Pruned, QueueIsConsistent
<1>3. CASE MergeSegment
  <2>1. CASE Head(todo) \in queued \cup emitted
    BY <1>3, <2>1 DEF MergeSegment, QueueIsConsistent
  <2>2. CASE Head(todo) \notin queued \cup emitted
    <3>1. queued' = {pending'[i] : i \in DOMAIN pending'}
      BY <1>3, <2>2, AppendedSegment DEF QueueIsConsistent
    <3>2. ASSUME NEW i \in DOMAIN pending', NEW j \in DOMAIN pending',
                 pending'[i] = pending'[j]
          PROVE  i = j
      BY <1>3, <2>2, <3>2, AppendedSegment DEF QueueIsConsistent
    <3>3. queued' \cap emitted' = {}
      BY <1>3, <2>2, AppendedSegment DEF QueueIsConsistent
    <3> QED
      BY <3>1, <3>2, <3>3 DEF QueueIsConsistent
  <2> QED
    BY <2>1, <2>2
<1>4. CASE FinalizePending /\ pending # <<>> /\ UNCHANGED mergeVars
  <2>1. queued' = {pending'[i] : i \in DOMAIN pending'}
    BY <1>4, FinalizedSegment DEF QueueIsConsistent
  <2>2. ASSUME NEW i \in DOMAIN pending', NEW j \in DOMAIN pending',
               pending'[i] = pending'[j]
        PROVE  i = j
    BY <1>4, <2>2, FinalizedSegment DEF QueueIsConsistent
  <2>3. queued' \cap emitted' = {}
    BY <1>4, FinalizedSegment DEF QueueIsConsistent
  <2> QED
    BY <2>1, <2>2, <2>3 DEF QueueIsConsistent
<1>5. CASE Accept \/ UNCHANGED <<pending, queued, emitted, offsets, nextStart, timeline>>
  BY <1>5 DEF Accept, QueueIsConsistent, queueVars
<1> QED
  BY <1>1, <1>2, <1>3, <1>4, <1>5, QueueSteps

-----------------------------------------------------------------------------
(***************************************************************************)
(* Stream time.                                                            *)
(***************************************************************************)
\* The window starts in use are numbers.
LEMMA StartsAreNumbers ==
  ASSUME TypeOK, QueueIsConsistent
  PROVE  /\ nextStart \in Nat
         /\ \A i \in DOMAIN pending : i \in Nat /\ offsets[pending[i]] \in Nat
         /\ \A i \in DOMAIN timeline : i \in Nat /\ timeline[i] \in Nat
<1>1. /\ pending \in Seq(Segment) /\ timeline \in Seq(Nat)
      /\ offsets \in [queued -> Nat] /\ nextStart \in Nat
  BY DEF TypeOK, QueueTypeOK, PolicyTypeOK
<1>2. \A i \in DOMAIN pending : i \in Nat
  BY <1>1
<1>3. \A i \in DOMAIN timeline : i \in Nat /\ timeline[i] \in Nat
  BY <1>1
<1>4. \A i \in DOMAIN pending : offsets[pending[i]] \in Nat
  BY <1>1 DEF QueueIsConsistent
<1> QED
  BY <1>1, <1>2, <1>3, <1>4

LEMMA TimeStep ==
  ASSUME TypeOK, ControlInv, QueueIsConsistent, TimeInv, [Next]_vars
  PROVE  TimeInv'
<1> USE StartsAreNumbers
<1>1. CASE BeginRun
  BY <1>1 DEF BeginRun, ResetRuntime, TimeInv, Passed, TimelineAdvances
<1>2. CASE ParseMedia
  BY <1>2 DEF ParseMedia, Goto, history, TimeInv, Passed, TimelineAdvances
<1>3. CASE MergeSegment
  <2>1. pc' # "offer" /\ UNCHANGED timeline
    BY <1>3 DEF MergeSegment, runVars, history
  <2>2. CASE Head(todo) \in queued \cup emitted
    BY <1>3, <2>1, <2>2 DEF MergeSegment, TimeInv, Passed, TimelineAdvances
  <2>3. CASE Head(todo) \notin queued \cup emitted
    <3>1. \A i \in DOMAIN pending' : offsets'[pending'[i]] < nextStart'
      BY <1>3, <2>3, AppendedSegment DEF TimeInv
    <3>2. ASSUME NEW i \in DOMAIN pending', NEW j \in DOMAIN pending', i < j
          PROVE  offsets'[pending'[i]] < offsets'[pending'[j]]
      <4>1. i \in DOMAIN pending
        BY <1>3, <2>3, <3>2, AppendedSegment
      <4>2. CASE j \in DOMAIN pending
        BY <1>3, <2>3, <3>2, <4>1, <4>2, AppendedSegment DEF TimeInv
      <4>3. CASE j = Len(pending) + 1
        BY <1>3, <2>3, <4>1, <4>3, AppendedSegment DEF TimeInv
      <4> QED
        BY <1>3, <2>3, <4>2, <4>3, AppendedSegment
    <3>3. ASSUME NEW i \in DOMAIN timeline
          PROVE  Passed(timeline[i])'
      <4>1. timeline[i] < nextStart /\ \A j \in DOMAIN pending : timeline[i] < offsets[pending[j]]
        BY DEF TimeInv, Passed
      <4>2. timeline[i] < nextStart'
        BY <1>3, <2>3, <4>1, AppendedSegment
      <4>3. \A j \in DOMAIN pending' : timeline[i] < offsets'[pending'[j]]
        BY <1>3, <2>3, <4>1, AppendedSegment
      <4> QED
        BY <2>1, <4>2, <4>3 DEF Passed
    <3> QED
      BY <2>1, <3>1, <3>2, <3>3 DEF TimeInv, TimelineAdvances
  <2> QED
    BY <2>2, <2>3
<1>4. CASE Accept
  <2>1. /\ pc = "offer" /\ pc' = "yielded"
        /\ timeline' = Append(timeline, slice.start)
        /\ UNCHANGED <<pending, offsets, nextStart>>
    BY <1>4 DEF Accept, Goto, queueVars
  <2>2. slice.start \in Nat /\ timeline \in Seq(Nat)
    BY <2>1, SliceTypes DEF TypeOK, PolicyTypeOK
  <2>3. /\ DOMAIN timeline' = 1..Len(timeline) + 1 /\ DOMAIN timeline = 1..Len(timeline)
        /\ Len(timeline) \in Nat
        /\ \A i \in DOMAIN timeline : timeline'[i] = timeline[i]
        /\ timeline'[Len(timeline) + 1] = slice.start
    BY <2>1, <2>2, AppendProperties
  <2>4. ASSUME NEW i \in DOMAIN timeline'
        PROVE  Passed(timeline[i])' /\ (i \in DOMAIN timeline \/ i = Len(timeline) + 1)
    <3>1. i \in DOMAIN timeline \/ i = Len(timeline) + 1
      BY <2>3
    <3>2. Passed(timeline'[i])
      BY <2>1, <2>3, <3>1 DEF TimeInv
    <3> QED
      BY <2>1, <3>1, <3>2 DEF Passed
  <2>5. TimelineAdvances'
    <3> SUFFICES ASSUME NEW i \in DOMAIN timeline', NEW j \in DOMAIN timeline', i < j
                 PROVE  timeline'[i] < timeline'[j]
      BY DEF TimelineAdvances
    <3>1. i \in DOMAIN timeline
      BY <2>3
    <3>2. CASE j \in DOMAIN timeline
      BY <2>3, <3>1, <3>2 DEF TimeInv, TimelineAdvances
    <3>3. CASE j = Len(timeline) + 1
      BY <2>1, <2>3, <3>1, <3>3 DEF TimeInv
    <3> QED
      BY <2>3, <3>2, <3>3
  <2> QED
    BY <2>1, <2>4, <2>5 DEF TimeInv
<1>5. CASE /\ FinalizePending /\ pending # <<>>
           /\ UNCHANGED <<mergeVars, timeline>>
           /\ pc' = "offer" => slice'.start = offsets[Head(pending)]
  <2>1. \A i \in DOMAIN pending' : offsets'[pending'[i]] < nextStart'
    BY <1>5, FinalizedSegment DEF TimeInv
  <2>2. \A i, j \in DOMAIN pending' : i < j => offsets'[pending'[i]] < offsets'[pending'[j]]
    <3> SUFFICES ASSUME NEW i \in DOMAIN pending', NEW j \in DOMAIN pending', i < j
                 PROVE  offsets'[pending'[i]] < offsets'[pending'[j]]
      OBVIOUS
    <3>1. i + 1 < j + 1 /\ i + 1 \in DOMAIN pending /\ j + 1 \in DOMAIN pending
      BY <1>5, FinalizedSegment
    <3>2. offsets[pending[i + 1]] < offsets[pending[j + 1]]
      BY <3>1 DEF TimeInv
    <3> QED
      BY <1>5, <3>2, FinalizedSegment
  <2>3. ASSUME NEW start \in Nat, Passed(start)
        PROVE  start < nextStart' /\ \A i \in DOMAIN pending' : start < offsets'[pending'[i]]
    BY <1>5, <2>3, FinalizedSegment DEF Passed
  <2>4. \A i \in DOMAIN timeline' : Passed(timeline[i])'
    BY <1>5, <2>3 DEF TimeInv, Passed
  <2>5. ASSUME pc' = "offer"
        PROVE  /\ Passed(slice.start)'
               /\ \A i \in DOMAIN timeline' : timeline'[i] < slice'.start
    <3>1. /\ 1 \in DOMAIN pending /\ slice'.start = offsets[pending[1]]
      BY <1>5, <2>5, FinalizedSegment
    <3>2. slice'.start < nextStart'
      BY <1>5, <3>1, FinalizedSegment DEF TimeInv
    <3>3. ASSUME NEW i \in DOMAIN pending'
          PROVE  slice'.start < offsets'[pending'[i]]
      <4>1. 1 < i + 1 /\ i + 1 \in DOMAIN pending
        BY <1>5, FinalizedSegment
      <4>2. offsets[pending[1]] < offsets[pending[i + 1]]
        BY <3>1, <4>1 DEF TimeInv
      <4> QED
        BY <1>5, <3>1, <4>2, FinalizedSegment
    <3>4. \A i \in DOMAIN timeline' : timeline'[i] < slice'.start
      BY <1>5, <3>1 DEF TimeInv, Passed
    <3> QED
      BY <3>2, <3>3, <3>4 DEF Passed
  <2> QED
    BY <1>5, <2>1, <2>2, <2>4, <2>5 DEF TimeInv, TimelineAdvances
<1>6. CASE /\ UNCHANGED <<pending, queued, emitted, offsets, nextStart, timeline>>
           /\ pc' = "offer" => pc = "offer" /\ UNCHANGED slice
  BY <1>6 DEF TimeInv, Passed, TimelineAdvances
<1> QED
  BY <1>1, <1>2, <1>3, <1>4, <1>5, <1>6, QueueSteps

-----------------------------------------------------------------------------
(***************************************************************************)
(* Files, keys and late reads.                                             *)
(***************************************************************************)
LEMMA EffectsStep ==
  ASSUME TypeOK, ControlInv, EffectsInv, [Next]_vars
  PROVE  EffectsInv'
<1> USE FileSteps
<1> USE DEF EffectsInv, NoFileForgotten, EndedMeansDrained,
            Goto, Finish, StopIteration, files, queueVars, mergeVars, policyVars, history
<1> USE LoaderAssumption
<1>1. CASE Publisher \/ UNCHANGED vars
  BY <1>1 DEF Publisher, vars, durableVars, runVars
<1>2. CASE RequestCancel
  <2>1. fetch.skip \in Nat
    BY SkipTypes
  <2> QED
    BY <1>2, <2>1 DEF RequestCancel, runVars
<1>3. CASE BeginRun
  BY <1>3 DEF BeginRun, ResetRuntime
<1>4. CASE StartFetch
  <2>1. CASE cancelRequested
    BY <1>4, <2>1 DEF StartFetch, ControlInv
  <2>2. CASE ~cancelRequested
    <3>1. fetch'.skip = SkipCount
      BY <1>4, <2>2 DEF StartFetch, TypeOK, RunTypeOK, Fetches
    <3> QED
      BY <1>4, <2>2, <3>1 DEF StartFetch, ControlInv
  <2> QED
    BY <2>1, <2>2
<1>5. CASE ReadStopped \/ ReadBreaks
  BY <1>5 DEF ReadStopped, ReadBreaks, CancelVisible, ControlInv
<1>6. CASE ReadChunk
  <2>1. /\ fetch.skip \in Nat /\ lateChunks \in Nat /\ SkipAfterCheck \in Nat
        /\ fetch.skip > 0 => SkipAfterCheck = fetch.skip - 1
        /\ fetch.skip = 0 => SkipAfterCheck = SkipCount
    BY SkipTypes DEF TypeOK, PolicyTypeOK
  <2>2. cancelRequested => fetch.skip > 0 /\ lateChunks' = lateChunks + 1
    BY <1>6, <2>1 DEF ReadChunk, CancelVisible
  <2>3. ~cancelRequested => lateChunks' = 0
    BY <1>6 DEF ReadChunk
  <2>4. pc' = "read" => fetch'.skip = SkipAfterCheck
    BY <1>6 DEF ReadChunk, TypeOK, RunTypeOK, Fetches
  <2>5. /\ lateChunks' <= SkipCount
        /\ pc' = "read" => /\ fetch'.skip <= SkipCount
                           /\ cancelRequested => lateChunks' + fetch'.skip <= SkipCount
    <3>1. CASE cancelRequested
      <4>1. lateChunks + fetch.skip <= SkipCount
        BY <1>6, <3>1 DEF ReadChunk
      <4> QED
        BY <2>1, <2>2, <2>4, <3>1, <4>1
    <3>2. CASE ~cancelRequested
      <4>1. fetch.skip <= SkipCount /\ SkipCount \in Nat
        BY <1>6, LoaderAssumption DEF ReadChunk
      <4> QED
        BY <2>1, <2>3, <2>4, <3>2, <4>1
    <3> QED
      BY <3>1, <3>2
  <2>6. NoFileForgotten' /\ EndedMeansDrained'
    BY <1>6 DEF ReadChunk, ControlInv
  <2> QED
    BY <1>6, <2>3, <2>5, <2>6 DEF ReadChunk
<1>7. CASE PlaylistFails \/ FollowMaster \/ Malformed
  BY <1>7 DEF PlaylistFails, FollowMaster, Malformed, ControlInv
<1>8. CASE ParseMedia \/ MergeSegment \/ MergeDone
  BY <1>8 DEF ParseMedia, MergeSegment, MergeDone, ControlInv, durableVars, runVars
<1>9. CASE NextSlice \/ RuntimeExceeded \/ Poll
  BY <1>9 DEF NextSlice, RuntimeExceeded, Poll, ControlInv
<1>10. CASE Materialize
  <2>1. tempFiles \subseteq undeleted
    BY <1>10 DEF Materialize, ControlInv
  <2> QED
    BY <1>10, <2>1 DEF Materialize, ControlInv
<1>11. CASE SegmentFails
  BY <1>11 DEF SegmentFails, ControlInv
<1>12. CASE Reject \/ AcceptFails \/ Consume
  BY <1>12 DEF Reject, AcceptFails, Consume, ControlInv
<1>13. CASE Accept
  BY <1>13 DEF Accept, ControlInv
<1>14. CASE Crash
  BY <1>14 DEF Crash, durableVars
<1> QED
  BY <1>1, <1>2, <1>3, <1>4, <1>5, <1>6, <1>7, <1>8, <1>9, <1>10, <1>11, <1>12,
     <1>13, <1>14 DEF Next, LoaderStep

-----------------------------------------------------------------------------
(***************************************************************************)
(* The theorems.                                                           *)
(***************************************************************************)
\* The inductive invariant.
LoaderInv == TypeOK /\ ControlInv /\ QueueIsConsistent /\ TimeInv /\ EffectsInv

LEMMA LoaderInit ==
  ASSUME Init
  PROVE  LoaderInv
<1> USE DEF Init, EmptyRuntime
<1>1. UpTypeOK /\ DurableTypeOK
  BY EmptySeq, LoaderAssumption, Zenon DEF UpTypeOK, DurableTypeOK
<1>2. RunTypeOK
  BY FetchTypes, Zenon DEF RunTypeOK
<1>3. QueueTypeOK
  <2>1. offsets = [x \in {} |-> 0] /\ <<>> \in Seq(Segment)
    BY EmptySeq
  <2> QED
    BY <2>1 DEF QueueTypeOK
<1>4. PolicyTypeOK
  <2>1. slice \in [segment : Segment, start : Nat] \cup {NoSlice} /\ <<>> \in Seq(Nat)
    BY EmptySeq
  <2> QED
    BY <2>1, LoaderAssumption DEF PolicyTypeOK
<1>5. ControlInv /\ QueueIsConsistent
  BY DEF ControlInv, QueueIsConsistent
<1>6. TimeInv
  BY DEF TimeInv, TimelineAdvances
<1>7. EffectsInv
  BY LoaderAssumption DEF EffectsInv, NoFileForgotten, EndedMeansDrained
<1> QED
  BY <1>1, <1>2, <1>3, <1>4, <1>5, <1>6, <1>7 DEF LoaderInv, TypeOK

\* Every state of every run satisfies the invariant.
THEOREM LoaderInvariant == Spec => []LoaderInv
<1>1. Init => LoaderInv
  BY LoaderInit
<1>2. LoaderInv /\ [Next]_vars => LoaderInv'
  BY TypeStep, ControlStep, QueueStep, TimeStep, EffectsStep DEF LoaderInv
<1> QED
  BY <1>1, <1>2, PTL DEF Spec

\* Every variable of the loader and its publisher keeps its type.
THEOREM LoaderTypes == Spec => []TypeOK
<1>1. LoaderInv => TypeOK
  BY DEF LoaderInv
<1> QED
  BY <1>1, LoaderInvariant, PTL

\* The list, the two sets and the map of the loader describe one queue,
\* however playlists slide, repeat or restart and fetches fail.
THEOREM QueueConsistent == Spec => []QueueIsConsistent
<1>1. LoaderInv => QueueIsConsistent
  BY DEF LoaderInv
<1> QED
  BY <1>1, LoaderInvariant, PTL

\* The window starts of a run's slices strictly increase.
THEOREM StreamTimeAdvances == Spec => []TimelineAdvances
<1>1. LoaderInv => TimelineAdvances
  BY DEF LoaderInv, TimeInv
<1> QED
  BY <1>1, LoaderInvariant, PTL

\* Whatever deletions fail, every other file in the temp directory is that of the
\* slice in hand, or was left by a worker that was killed.
THEOREM NoFileIsForgotten == Spec => []NoFileForgotten
<1>1. LoaderInv => NoFileForgotten
  BY DEF LoaderInv, EffectsInv
<1> QED
  BY <1>1, LoaderInvariant, PTL

\* A cancel marker stops the read of a response within the skip budget.
THEOREM CancelIsNoticed == Spec => []CancelStopsReading
<1>1. LoaderInv => CancelStopsReading
  BY DEF LoaderInv, EffectsInv, CancelStopsReading
<1> QED
  BY <1>1, LoaderInvariant, PTL

\* A run that ends by itself has attempted everything it queued.
THEOREM EndsDrained == Spec => []EndedMeansDrained
<1>1. LoaderInv => EndedMeansDrained
  BY DEF LoaderInv, EffectsInv
<1> QED
  BY <1>1, LoaderInvariant, PTL

\* Each step of the loader is a step of the abstract source or none at all.
LEMMA SourceStep ==
  ASSUME LoaderInv, [Next]_vars
  PROVE  [Source!Next]_(Source!vars)
<1> DEFINE open == pc # "closed"
<1> USE DEF Goto, Finish, StopIteration, policyVars, history
<1>1. CASE BeginRun
  <2>1. Source!Begin
    BY <1>1 DEF BeginRun, ResetRuntime, Source!Begin
  <2> QED
    BY <2>1 DEF Source!Next
<1>2. CASE Accept
  <2>1. slice.segment \in Segment /\ slice.segment.seq \in 1..MaxSeq
    BY <1>2, SliceTypes DEF Accept, LoaderInv
  <2>2. slice.segment \notin delivered
    BY <1>2 DEF Accept, Acceptable, LoaderInv, EffectsInv
  <2>3. Source!Deliver(slice.segment)
    BY <1>2, <2>1, <2>2 DEF Accept, Acceptable, Source!Deliver
  <2>4. slice.segment \in delivered'
    BY <1>2 DEF Accept
  <2> QED
    BY <2>3, <2>4 DEF Source!Next
<1>3. CASE UNCHANGED <<delivered, previous>> /\ (open' => open)
  <2>1. CASE open' = open
    BY <1>3, <2>1 DEF Source!vars
  <2>2. CASE open /\ ~open'
    BY <1>3, <2>2 DEF Source!Next, Source!Finish
  <2> QED
    BY <1>3, <2>1, <2>2
<1>4. BeginRun \/ Accept \/ (UNCHANGED <<delivered, previous>> /\ (open' => open))
  <2>1. CASE Publisher \/ RequestCancel \/ Crash \/ UNCHANGED vars
    BY <2>1 DEF Publisher, RequestCancel, Crash, vars, runVars
  <2>2. CASE StartFetch \/ ReadStopped \/ ReadChunk \/ ReadBreaks
    BY <2>2 DEF StartFetch, ReadStopped, ReadChunk, ReadBreaks
  <2>3. CASE PlaylistFails \/ FollowMaster \/ Malformed \/ MergeDone
    BY <2>3 DEF PlaylistFails, FollowMaster, Malformed, MergeDone
  <2>4. CASE ParseMedia \/ MergeSegment
    BY <2>4 DEF ParseMedia, MergeSegment, runVars
  <2>5. CASE NextSlice \/ RuntimeExceeded \/ Poll
    BY <2>5 DEF NextSlice, RuntimeExceeded, Poll
  <2>6. CASE Materialize \/ SegmentFails
    BY <2>6 DEF Materialize, SegmentFails
  <2>7. CASE Reject \/ AcceptFails \/ Consume
    BY <2>7 DEF Reject, AcceptFails, Consume
  <2> QED
    BY <2>1, <2>2, <2>3, <2>4, <2>5, <2>6, <2>7 DEF Next, LoaderStep
<1> QED
  BY <1>1, <1>2, <1>3, <1>4

\* The loader keeps the promises of a live source: slices come in order, none
\* twice even over several runs, and none after the end.
THEOREM LoaderIsLiveSource == Spec => IsLiveSource
<1>1. Init => Source!Init
  BY DEF Init, EmptyRuntime, Source!Init
<1>2. LoaderInv /\ [Next]_vars => [Source!Next]_(Source!vars)
  BY SourceStep
<1>3. Spec => Source!Spec
  BY <1>1, <1>2, LoaderInvariant, PTL DEF Spec, Source!Spec
<1> QED
  BY <1>3 DEF IsLiveSource

=============================================================================
