------------------------------- MODULE HlsLoader -------------------------------
(***************************************************************************)
(* The HTTP/HLS source of a live session: HttpHlsApiStreamLoader, the      *)
(* loop of iter_api_stream_slices around it, and the publisher it polls.   *)
(* A run is one iteration by one worker; the same session may be run       *)
(* again, and then only the identity keys, the temp directory and the      *)
(* cancel marker are still there.                                          *)
(*                                                                         *)
(* A segment is its sequence number and its file name, which is all the    *)
(* loader ever compares.  Sequence numbers start at 1, so that 0 can stand *)
(* for "no slice yet".  Every segment lasts one unit of stream time.       *)
(* Sleeping is not modelled: a poll may happen at any time.  A fresh read  *)
(* of the cancel marker that finds it ends the run, so the loader's cache  *)
(* of a positive answer is never consulted again.                          *)
(*                                                                         *)
(* A deletion may fail, which the code logs and goes on: the file stays in *)
(* the temp directory and counts against its byte budget, and the budget   *)
(* running out is one of the ways in which Materialize fails.              *)
(*                                                                         *)
(* Bounds: MaxSeq and MaxRestarts bound the publisher, MaxChunks the bytes *)
(* of one response, MaxRuns the runs, MaxUndeleted the files that a failed *)
(* deletion has left behind.  The other Max constants are budgets of the   *)
(* code.                                                                   *)
(*                                                                         *)
(* Name_Fault is the definition Name with one plausible mistake in it.     *)
(***************************************************************************)
EXTENDS Naturals, Sequences, FiniteSets

CONSTANTS
  Names, FirstName, MaxSeq, WindowSize, MaxRestarts,
  MaxIdle, MaxReconnects, MaxRefreshes, MaxDepth, MaxChunks, SkipCount, MaxRuns,
  MaxUndeleted

ASSUME LoaderAssumption ==
  /\ FirstName \in Names
  /\ MaxSeq \in Nat /\ WindowSize \in Nat \ {0} /\ MaxRestarts \in Nat
  /\ MaxIdle \in Nat /\ MaxReconnects \in Nat /\ MaxRefreshes \in Nat
  /\ MaxDepth \in Nat /\ MaxChunks \in Nat /\ SkipCount \in Nat
  /\ MaxRuns \in Nat /\ MaxUndeleted \in Nat

VARIABLES
  \* The publisher.
  window,          \* the segments its media playlist lists now
  endlist,         \* whether the playlist carries ENDLIST
  name,            \* what its current segments are called
  restarts,        \* how often it began again at sequence 1
  \* Durable state of the session.
  cancelRequested,
  persisted,       \* identity keys in api_stream_seen_chunks.jsonl
  tempFiles,       \* segments with a file in the temp directory
  undeleted,       \* those of them whose deletion failed
  \* The run.
  pc,
  run,             \* how many runs have begun
  result,          \* how the latest run ended
  \* One fetch: what for, retries so far, master playlists followed, chunks
  \* read, and how many cancel checks may still be skipped.
  fetch,
  \* _HttpHlsRuntimeState.
  todo,            \* segments of the parsed playlist still to merge
  fresh,           \* whether this refresh has queued a segment
  pending,         \* segments queued, in order
  queued,          \* the same, as a set
  emitted,         \* segments attempted, the replay cache
  offsets,         \* window start of each queued segment
  nextStart,       \* window start of the next one
  sawEndlist,
  idle,            \* refreshes without a new segment, in a row
  refreshes,
  \* iter_api_stream_slices.
  reconnects,      \* retryable failures of this run
  previous,        \* seq of the last accepted slice of this run
  seen,            \* identity keys known to this run
  slice,           \* the slice in hand: its segment and window start
  \* History.
  delivered,       \* slices delivered, by all runs
  timeline,        \* window starts of the slices of this run, in order
  lateChunks       \* chunks read since the cancel marker was written

upVars      == <<window, endlist, name, restarts>>
files       == <<tempFiles, undeleted>>
durableVars == <<cancelRequested, persisted, files>>
runVars     == <<pc, run, result>>
queueVars   == <<pending, queued, emitted, offsets, nextStart>>
mergeVars   == <<todo, fresh, sawEndlist, idle, refreshes>>
policyVars  == <<reconnects, previous, seen, slice>>
history     == <<delivered, timeline, lateChunks>>
vars == <<upVars, durableVars, runVars, fetch, queueVars, mergeVars, policyVars,
          history>>

Segment == [seq : 1..MaxSeq, name : Names]

NoFetch ==
  [target |-> "first", attempts |-> 0, depth |-> 0, chunks |-> 0, skip |-> 0]

NoSlice == [segment |-> [seq |-> 0, name |-> "none"], start |-> 0]

EmptyRuntime ==
  /\ todo = <<>> /\ fresh = FALSE /\ sawEndlist = FALSE
  /\ idle = 0 /\ refreshes = 0
  /\ pending = <<>> /\ queued = {} /\ emitted = {} /\ offsets = <<>>
  /\ nextStart = 0
  /\ reconnects = 0 /\ previous = 0 /\ timeline = <<>>

Init ==
  /\ window = <<>>
  /\ endlist = FALSE
  /\ name = FirstName
  /\ restarts = 0
  /\ cancelRequested = FALSE
  /\ persisted = {}
  /\ tempFiles = {}
  /\ undeleted = {}
  /\ pc = "closed"
  /\ run = 0
  /\ result = "none"
  /\ fetch = NoFetch
  /\ EmptyRuntime
  /\ seen = {}
  /\ slice = NoSlice
  /\ delivered = {}
  /\ lateChunks = 0

Goto(next) == pc' = next /\ UNCHANGED <<run, result>>

\* unlink, whose OSError is logged and counted and changes nothing else.
Unlink(file) ==
  \/ tempFiles' = tempFiles \ {file} /\ undeleted' = undeleted \ {file}
  \/ /\ file \in tempFiles
     /\ undeleted' = undeleted \cup {file}
     /\ Cardinality(undeleted') <= MaxUndeleted
     /\ UNCHANGED tempFiles

\* rmtree with ignore_errors: whatever cannot be removed stays.
RemoveTempDir ==
  \E kept \in SUBSET tempFiles :
    /\ Cardinality(kept) <= MaxUndeleted
    /\ tempFiles' = kept
    /\ undeleted' = kept

\* The run is over; _cleanup_session_runtime removes the temp directory.
Finish(how) ==
  /\ pc' = "closed"
  /\ result' = how
  /\ RemoveTempDir
  /\ UNCHANGED run

\* StopIteration: the end of the iteration inside next_slice, but inside
\* connect, which the generator calls, an error nobody expects.
StopIteration ==
  Finish(IF fetch.target = "first" THEN "escaped" ELSE "ended")


-------------------------------------------------------------------------------
(***************************************************************************)
(* The publisher: a sliding window of segments, an optional end, and an    *)
(* encoder that may begin again at the first sequence number.              *)
(***************************************************************************)
Last(segments) == segments[Len(segments)]

Publish ==
  LET seq == IF window = <<>> THEN 1 ELSE Last(window).seq + 1
      all == Append(window, [seq |-> seq, name |-> name])
  IN /\ ~endlist
     /\ seq <= MaxSeq
     /\ window' = IF Len(all) > WindowSize THEN Tail(all) ELSE all
     /\ UNCHANGED <<endlist, name, restarts>>

PublishEnd ==
  /\ ~endlist
  /\ endlist' = TRUE
  /\ UNCHANGED <<window, name, restarts>>

PublisherRestarts ==
  /\ restarts < MaxRestarts
  /\ restarts' = restarts + 1
  /\ window' = <<>>
  /\ endlist' = FALSE
  /\ name' \in Names

Publisher ==
  /\ Publish \/ PublishEnd \/ PublisherRestarts
  /\ UNCHANGED <<durableVars, runVars, fetch, queueVars, mergeVars, policyVars>>
  /\ UNCHANGED history

RequestCancel ==
  /\ ~cancelRequested
  /\ cancelRequested' = TRUE
  /\ UNCHANGED <<persisted, files, upVars, runVars, fetch, queueVars>>
  /\ UNCHANGED <<mergeVars, policyVars, history>>

-------------------------------------------------------------------------------
(***************************************************************************)
(* A run begins: connect clears the temp directory, resets the runtime     *)
(* state and reads the identity keys of earlier runs.                      *)
(***************************************************************************)
\* _reset_runtime_state, and the loop variables of a new iteration.
ResetRuntime ==
  /\ todo' = <<>> /\ fresh' = FALSE /\ sawEndlist' = FALSE
  /\ idle' = 0 /\ refreshes' = 0
  /\ pending' = <<>> /\ queued' = {} /\ emitted' = {} /\ offsets' = <<>>
  /\ nextStart' = 0
  /\ reconnects' = 0 /\ previous' = 0 /\ timeline' = <<>>

BeginRun ==
  /\ pc = "closed"
  /\ run < MaxRuns
  /\ run' = run + 1
  /\ pc' = "fetch"
  /\ result' = "open"
  /\ RemoveTempDir
  /\ fetch' = NoFetch
  /\ ResetRuntime
  /\ seen' = persisted
  /\ slice' = NoSlice
  /\ lateChunks' = 0
  /\ UNCHANGED <<upVars, cancelRequested, persisted, delivered>>

\* _fetch_url_bytes, up to the response: every way into it has just forced a
\* fresh read of the cancel marker.
StartFetch ==
  /\ pc = "fetch"
  /\ IF cancelRequested
     THEN StopIteration /\ UNCHANGED fetch
     ELSE /\ fetch' = [fetch EXCEPT !.chunks = 0, !.skip = SkipCount]
          /\ Goto("read")
          /\ UNCHANGED files
  /\ UNCHANGED <<upVars, cancelRequested, persisted, queueVars, mergeVars>>
  /\ UNCHANGED <<policyVars, history>>

\* The check before each chunk reads the marker once in SkipCount + 1 times.
CancelVisible == fetch.skip = 0 /\ cancelRequested

SkipAfterCheck_Refills == SkipCount

SkipAfterCheck == IF fetch.skip > 0 THEN fetch.skip - 1 ELSE SkipCount

ReadStopped ==
  /\ pc = "read"
  /\ CancelVisible
  /\ StopIteration
  /\ UNCHANGED <<upVars, cancelRequested, persisted, fetch, queueVars, mergeVars>>
  /\ UNCHANGED <<policyVars, history>>

ReadChunk ==
  /\ pc = "read"
  /\ ~CancelVisible
  /\ lateChunks' = IF cancelRequested THEN lateChunks + 1 ELSE lateChunks
  /\ IF fetch.chunks = MaxChunks
     THEN Finish("failed") /\ UNCHANGED fetch
     ELSE /\ fetch' = [fetch EXCEPT !.chunks = @ + 1, !.skip = SkipAfterCheck]
          /\ Goto("read")
          /\ UNCHANGED files
  /\ UNCHANGED <<upVars, cancelRequested, persisted, queueVars, mergeVars>>
  /\ UNCHANGED <<policyVars, delivered, timeline>>

\* A transport failure that is not one of TimeoutError, HTTPError and URLError
\* is not classified: a reset connection is an OSError, which fails the run
\* without a retry, and a truncated chunked body is neither an OSError nor a
\* ValueError.
ReadBreaks ==
  /\ pc = "read"
  /\ Finish("failed") \/ Finish("escaped")
  /\ UNCHANGED <<upVars, cancelRequested, persisted, fetch, queueVars, mergeVars>>
  /\ UNCHANGED <<policyVars, history>>

-------------------------------------------------------------------------------
(***************************************************************************)
(* Playlists.                                                              *)
(***************************************************************************)

\* A retryable failure, or HTTP 404; any other one is terminal.
PlaylistFails ==
  /\ pc = "read"
  /\ fetch.target # "segment"
  /\ \/ /\ fetch.attempts < MaxReconnects
        /\ fetch' = [fetch EXCEPT !.attempts = @ + 1]
        /\ Goto("fetch")
        /\ UNCHANGED files
     \/ Finish("failed") /\ UNCHANGED fetch
  /\ UNCHANGED <<upVars, cancelRequested, persisted, queueVars, mergeVars>>
  /\ UNCHANGED <<policyVars, history>>

\* A master playlist: its first variant is fetched next, or there is none.
FollowMaster ==
  /\ pc = "read"
  /\ fetch.target # "segment"
  /\ ~CancelVisible
  /\ \/ /\ fetch.depth < MaxDepth
        /\ fetch' = [fetch EXCEPT !.depth = @ + 1, !.attempts = 0]
        /\ Goto("fetch")
        /\ UNCHANGED files
     \/ Finish("failed") /\ UNCHANGED fetch
  /\ UNCHANGED <<upVars, cancelRequested, persisted, queueVars, mergeVars>>
  /\ UNCHANGED <<policyVars, history>>

Malformed_NotCounted ==
  /\ pc = "read"
  /\ fetch.target # "segment"
  /\ ~CancelVisible
  /\ IF fetch.target = "refresh"
     THEN Goto("next") /\ UNCHANGED <<reconnects, files>>
     ELSE Finish("failed") /\ UNCHANGED reconnects
  /\ UNCHANGED <<upVars, cancelRequested, persisted, fetch, queueVars, mergeVars>>
  /\ UNCHANGED <<previous, seen, slice, history>>

\* A malformed playlist fails connect; later it costs one reconnect of the
\* run, a budget that is never refilled.
Malformed ==
  /\ pc = "read"
  /\ fetch.target # "segment"
  /\ ~CancelVisible
  /\ IF fetch.target = "refresh" /\ reconnects < MaxReconnects
     THEN reconnects' = reconnects + 1 /\ Goto("next") /\ UNCHANGED files
     ELSE Finish("failed") /\ UNCHANGED reconnects
  /\ UNCHANGED <<upVars, cancelRequested, persisted, fetch, queueVars, mergeVars>>
  /\ UNCHANGED <<previous, seen, slice, history>>

\* _prune_emitted_segment_keys, when the playlist lists a segment at all.
Pruned(keys, segments) ==
  IF segments = <<>> THEN keys ELSE {k \in keys : k.seq >= segments[1].seq}

\* What _parse_media_playlist makes of a body with n segments of the window:
\* the ENDLIST line is the last one.
Parsed(n) ==
  [segments |-> SubSeq(window, 1, n), isEndlist |-> endlist /\ n = Len(window)]

ParseMedia_RestartsTimeline ==
  /\ pc = "read"
  /\ fetch.target # "segment"
  /\ ~CancelVisible
  /\ \E n \in 0..Len(window) :
       /\ todo' = Parsed(n).segments
       /\ sawEndlist' = Parsed(n).isEndlist
  /\ emitted' = Pruned(emitted, todo')
  /\ fresh' = FALSE
  /\ nextStart' = 0
  /\ refreshes' = refreshes + 1
  /\ Goto("merge")
  /\ UNCHANGED <<upVars, durableVars, fetch, pending, queued, offsets>>
  /\ UNCHANGED <<idle, policyVars, history>>

\* A media playlist, perhaps cut short by the publisher: the first half of
\* _refresh_playlist_from_text.
ParseMedia ==
  /\ pc = "read"
  /\ fetch.target # "segment"
  /\ ~CancelVisible
  /\ \E n \in 0..Len(window) :
       /\ todo' = Parsed(n).segments
       /\ sawEndlist' = Parsed(n).isEndlist
  /\ emitted' = Pruned(emitted, todo')
  /\ fresh' = FALSE
  /\ refreshes' = refreshes + 1
  /\ Goto("merge")
  /\ UNCHANGED <<upVars, durableVars, fetch, pending, queued, offsets, nextStart>>
  /\ UNCHANGED <<idle, policyVars, history>>

MergeSegment_ForgetsEmitted ==
  /\ pc = "merge"
  /\ todo # <<>>
  /\ todo' = Tail(todo)
  /\ IF Head(todo) \in queued
     THEN UNCHANGED <<pending, queued, offsets, nextStart, fresh>>
     ELSE /\ pending' = Append(pending, Head(todo))
          /\ queued' = queued \cup {Head(todo)}
          /\ offsets' = [s \in queued' |->
                           IF s = Head(todo) THEN nextStart ELSE offsets[s]]
          /\ nextStart' = nextStart + 1
          /\ fresh' = TRUE
  /\ UNCHANGED <<upVars, durableVars, runVars, fetch, emitted, sawEndlist, idle>>
  /\ UNCHANGED <<refreshes, policyVars, history>>

\* One round of the loop of _queue_unseen_playlist_segments.
MergeSegment ==
  /\ pc = "merge"
  /\ todo # <<>>
  /\ todo' = Tail(todo)
  /\ IF Head(todo) \in queued \cup emitted
     THEN UNCHANGED <<pending, queued, offsets, nextStart, fresh>>
     ELSE /\ pending' = Append(pending, Head(todo))
          /\ queued' = queued \cup {Head(todo)}
          /\ offsets' = [s \in queued' |->
                           IF s = Head(todo) THEN nextStart ELSE offsets[s]]
          /\ nextStart' = nextStart + 1
          /\ fresh' = TRUE
  /\ UNCHANGED <<upVars, durableVars, runVars, fetch, emitted, sawEndlist, idle>>
  /\ UNCHANGED <<refreshes, policyVars, history>>

\* The rest of _refresh_playlist_from_text; the first time, connect returns.
MergeDone ==
  /\ pc = "merge"
  /\ todo = <<>>
  /\ idle' = IF fresh THEN 0 ELSE IF sawEndlist THEN idle ELSE idle + 1
  /\ fetch' = [fetch EXCEPT !.target = "refresh"]
  /\ Goto("next")
  /\ UNCHANGED <<upVars, durableVars, queueVars, todo, fresh, sawEndlist>>
  /\ UNCHANGED <<refreshes, policyVars, history>>

-------------------------------------------------------------------------------
(***************************************************************************)
(* next_slice: the head of the queue if there is one, else a stop or one   *)
(* more poll.                                                              *)
(***************************************************************************)
FetchFor(target) ==
  fetch' = [NoFetch EXCEPT !.target = target]

NextSlice_EndlistFirst ==
  /\ pc = "next"
  /\ IF cancelRequested \/ sawEndlist
     THEN Finish("ended") /\ UNCHANGED fetch
     ELSE IF pending # <<>>
     THEN FetchFor("segment") /\ Goto("fetch") /\ UNCHANGED files
     ELSE IF idle >= MaxIdle
     THEN Finish("ended") /\ UNCHANGED fetch
     ELSE Goto("poll") /\ UNCHANGED <<fetch, files>>
  /\ UNCHANGED <<upVars, cancelRequested, persisted, queueVars, mergeVars>>
  /\ UNCHANGED <<policyVars, history>>

NextSlice ==
  /\ pc = "next"
  /\ IF cancelRequested
     THEN Finish("ended") /\ UNCHANGED fetch
     ELSE IF pending # <<>>
     THEN FetchFor("segment") /\ Goto("fetch") /\ UNCHANGED files
     ELSE IF sawEndlist \/ idle >= MaxIdle
     THEN Finish("ended") /\ UNCHANGED fetch
     ELSE Goto("poll") /\ UNCHANGED <<fetch, files>>
  /\ UNCHANGED <<upVars, cancelRequested, persisted, queueVars, mergeVars>>
  /\ UNCHANGED <<policyVars, history>>

RuntimeExceeded ==
  /\ pc = "next"
  /\ Finish("failed")
  /\ UNCHANGED <<upVars, cancelRequested, persisted, fetch, queueVars, mergeVars>>
  /\ UNCHANGED <<policyVars, history>>

\* After the sleep.
Poll ==
  /\ pc = "poll"
  /\ IF cancelRequested
     THEN Finish("ended") /\ UNCHANGED fetch
     ELSE IF refreshes >= MaxRefreshes
     THEN Finish("failed") /\ UNCHANGED fetch
     ELSE FetchFor("refresh") /\ Goto("fetch") /\ UNCHANGED files
  /\ UNCHANGED <<upVars, cancelRequested, persisted, queueVars, mergeVars>>
  /\ UNCHANGED <<policyVars, history>>

-------------------------------------------------------------------------------
(***************************************************************************)
(* Segments.                                                               *)
(***************************************************************************)
\* _finalize_pending_segment_state
FinalizePending ==
  /\ pending' = Tail(pending)
  /\ queued' = queued \ {Head(pending)}
  /\ emitted' = emitted \cup {Head(pending)}
  /\ offsets' = [s \in queued' |-> offsets[s]]
  /\ UNCHANGED nextStart

\* The body is complete.  A last look at the cancel marker, the temp storage
\* budget and the file come before the slice.
Materialize ==
  /\ pc = "read"
  /\ fetch.target = "segment"
  /\ ~CancelVisible
  /\ IF cancelRequested
     THEN Finish("ended") /\ UNCHANGED <<queueVars, slice>>
     ELSE \/ /\ tempFiles' = tempFiles \cup {Head(pending)}
             /\ undeleted' = undeleted \ {Head(pending)}
             /\ slice' = [segment |-> Head(pending),
                          start   |-> offsets[Head(pending)]]
             /\ FinalizePending
             /\ Goto("offer")
          \/ Finish("failed") /\ UNCHANGED <<queueVars, slice>>
  /\ UNCHANGED <<upVars, cancelRequested, persisted, fetch, mergeVars>>
  /\ UNCHANGED <<reconnects, previous, seen, history>>

\* A retryable failure of a segment skips it; a terminal one, HTTP 404 among
\* them, fails the run.
SegmentFails ==
  /\ pc = "read"
  /\ fetch.target = "segment"
  /\ \/ FinalizePending /\ Goto("next") /\ UNCHANGED files
     \/ Finish("failed") /\ UNCHANGED queueVars
  /\ UNCHANGED <<upVars, cancelRequested, persisted, fetch, mergeVars>>
  /\ UNCHANGED <<policyVars, history>>

-------------------------------------------------------------------------------
(***************************************************************************)
(* iter_api_stream_slices: the order and identity checks, and the key that *)
(* is made durable before the slice is handed out.                         *)
(***************************************************************************)
Acceptable_SeenOnly == slice.segment \notin seen

Acceptable ==
  /\ slice.segment.seq > previous
  /\ slice.segment \notin seen

Reject_KeepsFile ==
  /\ pc = "offer"
  /\ ~Acceptable
  /\ Goto("next")
  /\ UNCHANGED <<upVars, durableVars, fetch, queueVars, mergeVars, policyVars>>
  /\ UNCHANGED history

Reject ==
  /\ pc = "offer"
  /\ ~Acceptable
  /\ Unlink(slice.segment)
  /\ Goto("next")
  /\ UNCHANGED <<upVars, cancelRequested, persisted, fetch, queueVars, mergeVars>>
  /\ UNCHANGED <<policyVars, history>>

Accept ==
  /\ pc = "offer"
  /\ Acceptable
  /\ persisted' = persisted \cup {slice.segment}
  /\ seen' = seen \cup {slice.segment}
  /\ previous' = slice.segment.seq
  /\ delivered' = delivered \cup {slice.segment}
  /\ timeline' = Append(timeline, slice.start)
  /\ Goto("yielded")
  /\ UNCHANGED <<upVars, cancelRequested, files, fetch, queueVars, mergeVars>>
  /\ UNCHANGED <<reconnects, slice, lateChunks>>

\* Appending the key raises OSError.
AcceptFails ==
  /\ pc = "offer"
  /\ Acceptable
  /\ Finish("failed")
  /\ UNCHANGED <<upVars, cancelRequested, persisted, fetch, queueVars, mergeVars>>
  /\ UNCHANGED <<policyVars, history>>

\* The session has processed the slice and deletes its file, or has stopped
\* iterating.
Consume ==
  /\ pc = "yielded"
  /\ \/ Unlink(slice.segment) /\ Goto("next")
     \/ Finish("abandoned")
  /\ UNCHANGED <<upVars, cancelRequested, persisted, fetch, queueVars, mergeVars>>
  /\ UNCHANGED <<policyVars, history>>

\* The worker is killed, with nobody to clean up.
Crash ==
  /\ pc # "closed"
  /\ pc' = "closed"
  /\ result' = "crashed"
  /\ UNCHANGED <<run, upVars, durableVars, fetch, queueVars, mergeVars>>
  /\ UNCHANGED <<policyVars, history>>

LoaderStep ==
  \/ StartFetch \/ ReadStopped \/ ReadChunk \/ ReadBreaks
  \/ PlaylistFails \/ FollowMaster \/ Malformed \/ ParseMedia
  \/ MergeSegment \/ MergeDone
  \/ NextSlice \/ RuntimeExceeded \/ Poll
  \/ Materialize \/ SegmentFails
  \/ Reject \/ Accept \/ AcceptFails \/ Consume

Next ==
  \/ Publisher
  \/ RequestCancel
  \/ BeginRun
  \/ LoaderStep
  \/ Crash

Spec == Init /\ [][Next]_vars

FairSpec == Spec /\ WF_vars(LoaderStep)

-------------------------------------------------------------------------------
(***************************************************************************)
(* Properties.                                                             *)
(***************************************************************************)
Fetches ==
  [target : {"first", "refresh", "segment"}, attempts : Nat, depth : Nat,
   chunks : Nat, skip : Nat]

UpTypeOK ==
  /\ window \in Seq(Segment)
  /\ endlist \in BOOLEAN
  /\ name \in Names
  /\ restarts \in Nat

DurableTypeOK ==
  /\ cancelRequested \in BOOLEAN
  /\ persisted \subseteq Segment
  /\ tempFiles \subseteq Segment
  /\ undeleted \subseteq tempFiles

RunTypeOK ==
  /\ pc \in {"closed", "fetch", "read", "merge", "next", "poll", "offer", "yielded"}
  /\ run \in Nat
  /\ result \in {"none", "open", "ended", "failed", "escaped", "abandoned", "crashed"}
  /\ fetch \in Fetches

QueueTypeOK ==
  /\ todo \in Seq(Segment)
  /\ fresh \in BOOLEAN
  /\ pending \in Seq(Segment)
  /\ queued \subseteq Segment
  /\ emitted \subseteq Segment
  /\ offsets \in [queued -> Nat]
  /\ nextStart \in Nat
  /\ sawEndlist \in BOOLEAN
  /\ idle \in Nat
  /\ refreshes \in Nat

PolicyTypeOK ==
  /\ reconnects \in Nat
  /\ previous \in 0..MaxSeq
  /\ seen \subseteq Segment
  /\ slice \in [segment : Segment, start : Nat] \cup {NoSlice}
  /\ delivered \subseteq Segment
  /\ timeline \in Seq(Nat)
  /\ lateChunks \in Nat

\* Every variable has the values its comment in VARIABLES promises; the window
\* starts are known for exactly the queued segments.
TypeOK ==
  /\ UpTypeOK
  /\ DurableTypeOK
  /\ RunTypeOK
  /\ QueueTypeOK
  /\ PolicyTypeOK

\* The four collections of the loader that describe one queue agree: the set
\* holds exactly the segments of the list, no segment is listed twice, and
\* none of them has been attempted already.  A segment left in the set after
\* its attempt would never be queued again once the replay cache forgets it;
\* one missing from it would be fetched twice.
QueueIsConsistent ==
  /\ queued = {pending[i] : i \in DOMAIN pending}
  /\ \A i, j \in DOMAIN pending : pending[i] = pending[j] => i = j
  /\ queued \cap emitted = {}

\* Within a run the window starts of the delivered slices strictly increase,
\* so the alert rules, which difference them, never see time stand still or go
\* back, however the playlist slides, repeats itself or starts again.
TimelineAdvances ==
  \A i, j \in DOMAIN timeline : i < j => timeline[i] < timeline[j]

\* No file is forgotten: every file in the temp directory is that of the slice
\* in hand, one whose deletion was tried and failed, or was left by a worker
\* that was killed.  A file that were left behind on any other path, a rejected
\* slice's or the one of an append that failed, would count against the storage
\* budget without a trace and end a long session.
NoFileForgotten ==
  tempFiles \ undeleted \subseteq
    IF pc \in {"offer", "yielded"} \/ result = "crashed" THEN {slice.segment} ELSE {}

\* A cancel marker written while a response is being read lets through no more
\* chunks than there are checks that do not look at it (_is_cancel_requested).
CancelStopsReading == lateChunks <= SkipCount

\* An iteration that ends by itself, at ENDLIST or out of patience, has first
\* attempted everything it queued.
EndedMeansDrained ==
  result = "ended" /\ ~cancelRequested => pending = <<>> /\ todo = <<>>

\* Every run ends, whatever the publisher serves: the budgets of idle polls,
\* refreshes, reconnects, retries and nested playlists leave no way to go on
\* for ever.
EveryRunEnds == pc # "closed" ~> pc = "closed"

\* The loader is a LiveSource: ordered, never twice, silent after the end.
Source == INSTANCE LiveSource
            WITH last <- previous, open <- pc # "closed"

IsLiveSource == Source!Spec
===============================================================================
