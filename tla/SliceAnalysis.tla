----------------------------- MODULE SliceAnalysis -----------------------------
(***************************************************************************)
(* Worker processes, each with the slices of one session, run the enabled  *)
(* detectors of every slice (run_enabled_analyzers_bundle), keep the rows  *)
(* in buffered metric stores and append the events of the slice to the     *)
(* session's logs (persist_bundle_events).                                 *)
(*                                                                         *)
(* Every process has stores of its own, and the stores of one name write   *)
(* to one CSV file.  A row is the session, the slice and the detector it   *)
(* is about; what a row is worth is the subject of AlertRules.             *)
(*                                                                         *)
(* MaxSlices bounds the slices of a session, MaxWriteFaults the writes     *)
(* that fail.  Name_Fault is the definition Name with one plausible        *)
(* mistake in it.                                                          *)
(***************************************************************************)
EXTENDS Naturals, SequencesExt

CONSTANTS
  Workers,
  BufferSize,     \* STORE_BUFFER_SIZE
  MaxSlices, MaxWriteFaults

ASSUME AnalysisAssumption ==
  BufferSize \in Nat \ {0} /\ MaxSlices \in Nat /\ MaxWriteFaults \in Nat

\* ENABLED_ANALYZERS: each has one store, both serve every mode and the
\* suffixes .ts and .mp4.
Registry ==
  <<[name |-> "video_metrics", store |-> "video_metrics"],
    [name |-> "video_blur", store |-> "blur_metrics"]>>
StoreNames == {"video_metrics", "blur_metrics"}
Detectors == {Registry[i].name : i \in DOMAIN Registry}

\* The stores in the order flush_metric_stores takes them.
MetricStores == <<"video_metrics", "blur_metrics">>

VARIABLES
  selection,   \* the detectors of each session: selected, and for its suffix
  stage,       \* where the worker is: next slice, detect, write, persist, or ended
  taken,       \* slices taken
  todo,        \* the registrations the slice still has to go through, by place
  bundle,      \* [results, alerts] of the slice: collected, then appended
  buffer,      \* the rows each store of each process holds
  writing,     \* the store being flushed: [store, header, after]
  csvFiles,    \* the metric files there are
  csv,         \* and their lines
  results,     \* the durable result log of each session
  alertLog,    \* and its alert log
  cancelled,   \* the cancel marker
  writeFaults  \* failed writes so far

analysisVars == <<selection, stage, taken, todo, bundle, buffer, writing,
                  csvFiles, csv, results, alertLog, cancelled, writeFaults>>

NoBundle == [results |-> <<>>, alerts |-> <<>>]
NoWriting == [store |-> "none", header |-> FALSE, after |-> "none"]
Header == [detector |-> "header"]
Ended == {"completed", "cancelled", "failed"}

AnalysisInit ==
  /\ selection \in [Workers -> SUBSET Detectors]
  /\ stage = [w \in Workers |-> "next"]
  /\ taken = [w \in Workers |-> 0]
  /\ todo = [w \in Workers |-> {}]
  /\ bundle = [w \in Workers |-> NoBundle]
  /\ buffer = [w \in Workers |-> [s \in StoreNames |-> <<>>]]
  /\ writing = [w \in Workers |-> NoWriting]
  /\ csvFiles = {} /\ csv = [s \in StoreNames |-> <<>>]
  /\ results = [w \in Workers |-> <<>>]
  /\ alertLog = [w \in Workers |-> <<>>]
  /\ cancelled = [w \in Workers |-> FALSE]
  /\ writeFaults = 0

-----------------------------------------------------------------------------
\* _iter_matching_registrations: a file of another suffix has none.
Matching(w) == {i \in DOMAIN Registry : Registry[i].name \in selection[w]}

Row(w, r) == [worker |-> w, slice |-> taken[w], detector |-> r.name]

\* The places of the stores that have rows to write.
ToFlush(w) == {i \in DOMAIN MetricStores : buffer[w][MetricStores[i]] # <<>>}

\* A failed write settles the session without another flush
\* (flush_stores=False); what the process still holds is lost with it.
Fails(w) ==
  /\ stage' = [stage EXCEPT ![w] = "failed"]
  /\ todo' = [todo EXCEPT ![w] = {}]
  /\ bundle' = [bundle EXCEPT ![w] = NoBundle]
  /\ buffer' = [buffer EXCEPT ![w] = [s \in StoreNames |-> <<>>]]

\* _flush looks for the file first and writes the header if there is none.
StartFlush(w, s, after) ==
  /\ stage' = [stage EXCEPT ![w] = "write"]
  /\ writing' = [writing EXCEPT ![w] =
                   [store |-> s, header |-> s \notin csvFiles, after |-> after]]

\* A session that is cancelled has nothing worth flushing.
Settling_Fault(w, outcome) ==
  IF outcome = "cancelled" \/ ToFlush(w) = {}
  THEN stage' = [stage EXCEPT ![w] = outcome] /\ UNCHANGED writing
  ELSE StartFlush(w, MetricStores[Min(ToFlush(w))], outcome)

\* finalize_session_outcome flushes before it writes the status.
Settling(w, outcome) ==
  IF ToFlush(w) = {}
  THEN stage' = [stage EXCEPT ![w] = outcome] /\ UNCHANGED writing
  ELSE StartFlush(w, MetricStores[Min(ToFlush(w))], outcome)

-----------------------------------------------------------------------------
\* The top of the loop: the cancel check, the end, or the next slice.
TakeSlice(w) ==
  /\ stage[w] = "next"
  /\ taken[w] < MaxSlices
  /\ IF cancelled[w]
     THEN Settling(w, "cancelled") /\ UNCHANGED <<taken, todo>>
     ELSE /\ stage' = [stage EXCEPT ![w] = "detect"]
          /\ taken' = [taken EXCEPT ![w] = @ + 1]
          /\ todo' = [todo EXCEPT ![w] = Matching(w)]
          /\ UNCHANGED writing
  /\ UNCHANGED <<selection, bundle, buffer, csvFiles, csv, results,
                 alertLog, cancelled, writeFaults>>

\* No slice is left.  A source may have fewer than MaxSlices.
NoMoreSlices(w) ==
  /\ stage[w] = "next"
  /\ Settling(w, "completed")
  /\ UNCHANGED <<selection, taken, todo, bundle, buffer, csvFiles,
                 csv, results, alertLog, cancelled, writeFaults>>

\* A detector that raises, or returns a row without the required fields, is
\* passed over; the ones after it run all the same.
DetectorFails(w) ==
  /\ stage[w] = "detect" /\ todo[w] # {}
  /\ todo' = [todo EXCEPT ![w] = @ \ {Min(@)}]
  /\ UNCHANGED <<selection, stage, taken, bundle, buffer, writing,
                 csvFiles, csv, results, alertLog, cancelled, writeFaults>>

\* A valid row goes to its store, which is flushed when it is full, and then
\* into the bundle with the alerts of the rule it is for.
Collected(w, r, alerts) ==
  [results |-> Append(bundle[w].results, Row(w, r)),
   alerts  |-> bundle[w].alerts \o (IF alerts THEN <<Row(w, r)>> ELSE <<>>)]

DetectorReports(w, alerts) ==
  /\ stage[w] = "detect" /\ todo[w] # {}
  /\ LET r == Registry[Min(todo[w])]
         s == r.store
     IN  /\ buffer' = [buffer EXCEPT ![w][s] = Append(@, Row(w, r))]
         /\ bundle' = [bundle EXCEPT ![w] = Collected(w, r, alerts)]
         /\ IF Len(buffer'[w][s]) >= BufferSize
            THEN StartFlush(w, s, "detect")
            ELSE UNCHANGED <<stage, writing>>
  /\ todo' = [todo EXCEPT ![w] = @ \ {Min(@)}]
  /\ UNCHANGED <<selection, taken, csvFiles, csv, results,
                 alertLog, cancelled, writeFaults>>

Lines(w) ==
  (IF writing[w].header THEN <<Header>> ELSE <<>>) \o buffer[w][writing[w].store]

\* to_csv appends the rows and empties the buffer, and the caller goes on: to
\* the detectors, to the next store, or to the status.
Write(w) ==
  /\ stage[w] = "write"
  /\ LET s    == writing[w].store
         next == {i \in ToFlush(w) : MetricStores[i] # s}
     IN  /\ csvFiles' = csvFiles \cup {s}
         /\ csv' = [csv EXCEPT ![s] = @ \o Lines(w)]
         /\ buffer' = [buffer EXCEPT ![w][s] = <<>>]
         /\ IF writing[w].after \in Ended /\ next # {}
            THEN StartFlush(w, MetricStores[Min(next)], writing[w].after)
            ELSE /\ stage' = [stage EXCEPT ![w] = writing[w].after]
                 /\ writing' = [writing EXCEPT ![w] = NoWriting]
  /\ UNCHANGED <<selection, taken, todo, bundle, results, alertLog,
                 cancelled, writeFaults>>

\* The write fails before there is a file, or after some of the lines, all of
\* them perhaps.  The rows stay
\* in the buffer, and the OSError, as it is or as a ProcessorPersistenceError,
\* ends the session and drops the bundle.
WriteFails(w) ==
  /\ stage[w] = "write"
  /\ writeFaults < MaxWriteFaults
  /\ writeFaults' = writeFaults + 1
  /\ Fails(w)
  /\ \E k \in 0 .. Len(Lines(w)) :
       /\ csv' = [csv EXCEPT ![writing[w].store] = @ \o SubSeq(Lines(w), 1, k)]
       /\ \/ csvFiles' = csvFiles \cup {writing[w].store}
          \/ k = 0 /\ UNCHANGED csvFiles
  /\ writing' = [writing EXCEPT ![w] = NoWriting]
  /\ UNCHANGED <<selection, taken, results, alertLog, cancelled>>

\* All detectors ran: the bundle is handed to the loop.
BundleReady(w) ==
  /\ stage[w] = "detect" /\ todo[w] = {}
  /\ stage' = [stage EXCEPT ![w] = "persist"]
  /\ UNCHANGED <<selection, taken, todo, bundle, buffer, writing, csvFiles, csv,
                 results, alertLog, cancelled, writeFaults>>

\* All results before all alerts.
PersistEvent(w) ==
  /\ stage[w] = "persist" /\ bundle[w] # NoBundle
  /\ IF bundle[w].results # <<>>
     THEN /\ results' = [results EXCEPT ![w] = Append(@, Head(bundle[w].results))]
          /\ bundle' = [bundle EXCEPT ![w].results = Tail(@)]
          /\ UNCHANGED alertLog
     ELSE /\ alertLog' = [alertLog EXCEPT ![w] = Append(@, Head(bundle[w].alerts))]
          /\ bundle' = [bundle EXCEPT ![w].alerts = Tail(@)]
          /\ UNCHANGED results
  /\ UNCHANGED <<selection, stage, taken, todo, buffer, writing, csvFiles, csv,
                 cancelled, writeFaults>>

PersistFails(w) ==
  /\ stage[w] = "persist" /\ bundle[w] # NoBundle
  /\ writeFaults < MaxWriteFaults
  /\ writeFaults' = writeFaults + 1
  /\ Fails(w)
  /\ UNCHANGED <<selection, taken, writing, csvFiles, csv, results, alertLog,
                 cancelled>>

BundlePersisted(w) ==
  /\ stage[w] = "persist" /\ bundle[w] = NoBundle
  /\ stage' = [stage EXCEPT ![w] = "next"]
  /\ UNCHANGED <<selection, taken, todo, bundle, buffer, writing, csvFiles, csv,
                 results, alertLog, cancelled, writeFaults>>

RequestStop(w) ==
  /\ ~cancelled[w] /\ stage[w] \notin Ended
  /\ cancelled' = [cancelled EXCEPT ![w] = TRUE]
  /\ UNCHANGED <<selection, stage, taken, todo, bundle, buffer,
                 writing, csvFiles, csv, results, alertLog, writeFaults>>

AnalysisNext ==
  \E w \in Workers :
    \/ TakeSlice(w) \/ NoMoreSlices(w)
    \/ DetectorFails(w) \/ \E alerts \in BOOLEAN : DetectorReports(w, alerts)
    \/ Write(w) \/ WriteFails(w)
    \/ BundleReady(w) \/ PersistEvent(w) \/ PersistFails(w) \/ BundlePersisted(w)
    \/ RequestStop(w)

AnalysisSpec == AnalysisInit /\ [][AnalysisNext]_analysisVars

-----------------------------------------------------------------------------
\* The rows of one session and detector in a sequence of lines.
OfSession(line, w, d) == line.detector = d /\ line.worker = w
RowsOfSession(lines, w, d) == {line \in ToSet(lines) : OfSession(line, w, d)}

\* Each once, and in the order of the slices.
InSliceOrder(lines, w, d) ==
  \A j, k \in DOMAIN lines :
    j < k /\ OfSession(lines[j], w, d) /\ OfSession(lines[k], w, d)
      => lines[j].slice < lines[k].slice

\* The metric files back the result log.  When a session ends completed or
\* cancelled, the CSV of each detector holds exactly the rows the session's
\* log has of it, each once and in their order, although they were buffered,
\* several processes append to one file, and detectors failed in between
\* (BufferedCsvStore, finalize_session_outcome).
MetricsBackResults ==
  \A w \in Workers :
    stage[w] \in {"completed", "cancelled"} =>
      \A i \in DOMAIN Registry :
        LET d == Registry[i].name
            lines == csv[Registry[i].store]
        IN  /\ RowsOfSession(lines, w, d) = RowsOfSession(results[w], w, d)
            /\ InSliceOrder(lines, w, d)
            /\ InSliceOrder(results[w], w, d)

=============================================================================
