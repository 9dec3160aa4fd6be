--------------------------- MODULE SessionLifecycle ---------------------------
(***************************************************************************)
(* One monitoring session: the detached worker that runs it, the clients   *)
(* that cancel it and the frontend poll that reads it.  They share nothing *)
(* but the durable store, and the store offers no transaction: every write *)
(* and every read below is a step of its own.                              *)
(*                                                                         *)
(* The worker's pc names the next store call (or the next decision) of     *)
(* run_local_session.  Live selects between its two loops: the finite list *)
(* of local slices and the incremental api_stream source.  A live source   *)
(* is abstract here: it yields a slice, ends, or raises.                   *)
(*                                                                         *)
(* Bounds: MaxSlices is the longest source, MaxResults and MaxAlerts the   *)
(* largest detector bundle of one slice, MaxFaults the number of store     *)
(* writes that may fail.                                                   *)
(*                                                                         *)
(* Name_Fault, before the definition Name, is that definition with one     *)
(* plausible mistake in it.  No action uses it: it shows, put in the place *)
(* of Name, that some property below notices the mistake.                  *)
(***************************************************************************)
EXTENDS SessionModel

CONSTANTS Live, Clients, MaxSlices, MaxResults, MaxAlerts, MaxFaults, MayCrash

ASSUME LifecycleAssumption ==
  /\ Live \in BOOLEAN
  /\ MayCrash \in BOOLEAN
  /\ MaxSlices \in Nat
  /\ MaxResults \in Nat
  /\ MaxAlerts \in Nat
  /\ MaxFaults \in Nat

VARIABLES
  \* The durable store.
  meta,             \* status in session.json
  prog,             \* progress.json
  results,          \* rows in results.jsonl
  alerts,           \* rows in alerts.jsonl
  cancelRequested,  \* whether cancel_requested.json exists
  \* The worker's memory.
  pc,
  wmeta,            \* status of its SessionMetadata object
  wprog,            \* its latest SessionProgress object
  total,            \* slices discovered (local) or accepted so far (live)
  taken,            \* slices handed to the detectors (processed_count)
  bundle,           \* rows of the current bundle left to append; alerts found
  outcome,          \* the terminal status being persisted
  inTry,            \* inside the try block of the processing loop
  \* The clients and the poll.
  cancel,           \* [Clients -> the state of one cancel_session call]
  poll,             \* the next read of the snapshot
  snap,             \* the snapshot read so far
  \* Bounds and history.
  faults,           \* store failures so far
  takenAtCancel     \* taken when cancel intent first became durable

storeVars  == <<meta, prog, results, alerts>>
workVars   == <<wmeta, wprog, total, taken, bundle>>
ctrlVars   == <<pc, outcome, inTry>>
clientVars == <<cancelRequested, cancel, takenAtCancel>>
pollVars   == <<poll, snap>>
envVars    == <<clientVars, pollVars, faults>>
vars == <<storeVars, workVars, ctrlVars, envVars>>

NoBundle == [results |-> 0, alerts |-> 0, found |-> 0]

EmptySnapshot ==
  [meta |-> Absent, prog |-> NoProgress, alerts |-> 0, results |-> 0]

Init ==
  /\ meta = Absent
  /\ prog = NoProgress
  /\ results = 0
  /\ alerts = 0
  /\ cancelRequested = FALSE
  /\ pc = "init_metadata"
  /\ wmeta = "pending"
  /\ wprog = NoProgress
  /\ total = 0
  /\ taken = 0
  /\ bundle = NoBundle
  /\ outcome = "failed"
  /\ inTry = FALSE
  /\ cancel = [c \in Clients |-> "idle"]
  /\ poll = "metadata"
  /\ snap = EmptySnapshot
  /\ faults = 0
  /\ takenAtCancel = 0

-------------------------------------------------------------------------------
(***************************************************************************)
(* Control.  An OSError or ValueError raised inside the processing loop's  *)
(* try block settles the session as failed; anywhere else it leaves        *)
(* run_local_session and ends the process with the store as it stands.     *)
(* The settling that a loop begins still belongs to its try block, except  *)
(* after a live loop, which has left it.                                   *)
(***************************************************************************)
LoopSteps == {"connect", "next_slice", "check_live", "analyze", "append"}

Goto(next) ==
  /\ pc' = next
  /\ inTry' = (next \in LoopSteps \/ (next = "settle_progress" /\ inTry))
  /\ UNCHANGED outcome

Settle(status) ==
  /\ pc' = "settle_metadata"
  /\ outcome' = status
  /\ UNCHANGED inTry

Raise_OnlyLogged ==
  /\ pc' = "dead"
  /\ inTry' = FALSE
  /\ UNCHANGED outcome

Raise ==
  /\ pc' = IF inTry THEN "settle_metadata" ELSE "dead"
  /\ outcome' = IF inTry THEN "failed" ELSE outcome
  /\ inTry' = FALSE

Die ==
  /\ pc' = "dead"
  /\ inTry' = FALSE
  /\ UNCHANGED outcome

\* SessionMetadata.transition_to on the worker's own copy, then
\* SessionStore.write_metadata, which does not look at what it overwrites.
PersistMetadata(status, next) ==
  IF CanTransition(wmeta, status)
  THEN meta' = status /\ Goto(next)
  ELSE UNCHANGED meta /\ Raise

\* SessionStore.write_progress, which validates the payload first.
PersistProgress(p, next) ==
  IF ValidProgress(p)
  THEN prog' = p /\ wprog' = p /\ Goto(next)
  ELSE UNCHANGED <<prog, wprog>> /\ Raise

-------------------------------------------------------------------------------
(***************************************************************************)
(* From the spawned process to the processing loop.                        *)
(***************************************************************************)
InitMetadata ==
  /\ pc = "init_metadata"
  /\ PersistMetadata("pending", "init_progress")
  /\ UNCHANGED <<prog, results, alerts, workVars, envVars>>

InitProgress ==
  /\ pc = "init_progress"
  /\ PersistProgress(InitialProgress(0), "validate")
  /\ UNCHANGED <<meta, results, alerts, wmeta, total, taken, bundle, envVars>>

\* _validate_source_or_finalize
ValidateSource ==
  /\ pc = "validate"
  /\ Goto("validated_metadata") \/ Settle("failed")
  /\ UNCHANGED <<storeVars, workVars, envVars>>

\* The pending metadata is written again, now with the validated path.
PersistValidated ==
  /\ pc = "validated_metadata"
  /\ PersistMetadata("pending", IF Live THEN "start_total" ELSE "discover")
  /\ UNCHANGED <<prog, results, alerts, workVars, envVars>>

\* _discover_local_slices_or_finalize; a malformed playlist yields no slice.
DiscoverSlices ==
  /\ pc = "discover"
  /\ \/ total' \in 0..MaxSlices /\ Goto("start_total")
     \/ UNCHANGED total /\ Settle("failed")
  /\ UNCHANGED <<storeVars, wmeta, wprog, taken, bundle, envVars>>

StartTotal ==
  /\ pc = "start_total"
  /\ PersistProgress(InitialProgress(total), "start_metadata")
  /\ UNCHANGED <<meta, results, alerts, wmeta, total, taken, bundle, envVars>>

StartMetadata ==
  /\ pc = "start_metadata"
  /\ PersistMetadata("running", "start_progress")
  /\ wmeta' = "running"
  /\ UNCHANGED <<prog, results, alerts, wprog, total, taken, bundle, envVars>>

StartProgress ==
  /\ pc = "start_progress"
  /\ PersistProgress([wprog EXCEPT !.status = wmeta],
                     IF Live THEN "connect" ELSE "next_slice")
  /\ UNCHANGED <<meta, results, alerts, wmeta, total, taken, bundle, envVars>>

-------------------------------------------------------------------------------
(***************************************************************************)
(* The two loops.                                                          *)
(***************************************************************************)

NextLocalSlice_StopsOneShort ==
  /\ ~Live
  /\ pc = "next_slice"
  /\ IF taken + 1 >= total THEN Settle("completed")
     ELSE IF cancelRequested THEN Settle("cancelled")
     ELSE Goto("analyze")
  /\ UNCHANGED <<storeVars, workVars, envVars>>

NextLocalSlice_NeverChecks ==
  /\ ~Live
  /\ pc = "next_slice"
  /\ IF taken = total THEN Settle("completed") ELSE Goto("analyze")
  /\ UNCHANGED <<storeVars, workVars, envVars>>

\* process_discovered_slices: a check precedes every slice; nothing checks
\* between the last slice and completion.
NextLocalSlice ==
  /\ ~Live
  /\ pc = "next_slice"
  /\ IF taken = total THEN Settle("completed")
     ELSE IF cancelRequested THEN Settle("cancelled")
     ELSE Goto("analyze")
  /\ UNCHANGED <<storeVars, workVars, envVars>>

\* loader.connect runs inside the generator.  A loader error becomes a
\* ValueError; a cancel seen while the playlist is being resolved raises
\* StopIteration there, which leaves the generator as a RuntimeError that no
\* handler of run_api_stream_session catches.
ConnectLive ==
  /\ pc = "connect"
  /\ \/ Goto("next_slice")
     \/ Raise
     \/ cancelRequested /\ Die
  /\ UNCHANGED <<storeVars, workVars, envVars>>

\* The generator yields an accepted slice, whose identity key is persisted,
\* or stops, or raises ValueError.
PullLiveSlice ==
  /\ Live
  /\ pc = "next_slice"
  /\ \/ total < MaxSlices /\ total' = total + 1 /\ Goto("check_live")
     \/ UNCHANGED total /\ Goto("live_ended")
     \/ UNCHANGED total /\ Raise
  /\ UNCHANGED <<storeVars, wmeta, wprog, taken, bundle, envVars>>

CheckLive ==
  /\ pc = "check_live"
  /\ IF cancelRequested THEN Settle("cancelled") ELSE Goto("analyze")
  /\ UNCHANGED <<storeVars, workVars, envVars>>

EndLive_NeverChecks ==
  /\ pc = "live_ended"
  /\ Settle("completed")
  /\ UNCHANGED <<storeVars, workVars, envVars>>

\* After the live loop, outside its try block.
EndLive ==
  /\ pc = "live_ended"
  /\ Settle(IF cancelRequested THEN "cancelled" ELSE "completed")
  /\ UNCHANGED <<storeVars, workVars, envVars>>

\* The detectors and rules run on one slice, or raise.
Analyze ==
  /\ pc = "analyze"
  /\ taken' = taken + 1
  /\ \/ \E r \in 0..MaxResults, a \in 0..MaxAlerts :
          /\ bundle' = [results |-> r, alerts |-> a, found |-> a]
          /\ Goto("append")
     \/ UNCHANGED bundle /\ Raise
  /\ UNCHANGED <<storeVars, wmeta, wprog, total, envVars>>

\* persist_bundle_events: every result row, then every alert row.
AppendResult ==
  /\ pc = "append"
  /\ bundle.results > 0
  /\ results' = results + 1
  /\ bundle' = [bundle EXCEPT !.results = @ - 1]
  /\ UNCHANGED <<meta, prog, alerts, wmeta, wprog, total, taken, ctrlVars>>
  /\ UNCHANGED envVars

AppendAlert ==
  /\ pc = "append"
  /\ bundle.results = 0
  /\ bundle.alerts > 0
  /\ alerts' = alerts + 1
  /\ bundle' = [bundle EXCEPT !.alerts = @ - 1]
  /\ UNCHANGED <<meta, prog, results, wmeta, wprog, total, taken, ctrlVars>>
  /\ UNCHANGED envVars

SliceProgress_CountsFromNext ==
  [status |-> wmeta, processed |-> taken + 1, total |-> total,
   alerts |-> wprog.alerts + bundle.found]

\* build_slice_progress and its write; the processed count always changes.
SliceProgress ==
  [status    |-> wmeta,
   processed |-> taken,
   total     |-> total,
   alerts    |-> wprog.alerts + bundle.found]

WriteSliceProgress ==
  /\ pc = "append"
  /\ bundle.results = 0
  /\ bundle.alerts = 0
  /\ PersistProgress(SliceProgress, "next_slice")
  /\ bundle' = NoBundle
  /\ UNCHANGED <<meta, results, alerts, wmeta, total, taken, envVars>>

-------------------------------------------------------------------------------
(***************************************************************************)
(* finalize_session_outcome: the metadata first, then the progress.        *)
(***************************************************************************)
SettleMetadata_ProgressFirst ==
  /\ pc = "settle_metadata"
  /\ PersistProgress([wprog EXCEPT !.status = outcome], "settle_progress")
  /\ UNCHANGED <<meta, results, alerts, wmeta, total, taken, bundle, envVars>>

SettleMetadata ==
  /\ pc = "settle_metadata"
  /\ PersistMetadata(outcome, "settle_progress")
  /\ UNCHANGED <<prog, results, alerts, workVars, envVars>>

SettleProgress ==
  /\ pc = "settle_progress"
  /\ PersistProgress([wprog EXCEPT !.status = outcome], "done")
  /\ UNCHANGED <<meta, results, alerts, wmeta, total, taken, bundle, envVars>>

\* A store write, or the flush of the metric stores that precedes the
\* metadata of a cancelled or completed session, raises OSError.
StoreSteps ==
  {"init_metadata", "init_progress", "validated_metadata", "start_total",
   "start_metadata", "start_progress", "append", "settle_metadata",
   "settle_progress"}

StoreFault ==
  /\ pc \in StoreSteps
  /\ faults < MaxFaults
  /\ faults' = faults + 1
  /\ Raise
  /\ UNCHANGED <<storeVars, workVars, clientVars, pollVars>>

\* The process is killed, or raises what no handler expects (a psycopg.Error
\* is neither an OSError nor a ValueError).  Nothing restarts it.
Crash ==
  /\ MayCrash
  /\ pc \notin {"done", "dead"}
  /\ Die
  /\ UNCHANGED <<storeVars, workVars, envVars>>

WorkerStep ==
  \/ InitMetadata \/ InitProgress \/ ValidateSource \/ PersistValidated
  \/ DiscoverSlices \/ StartTotal \/ StartMetadata \/ StartProgress
  \/ NextLocalSlice \/ ConnectLive \/ PullLiveSlice \/ CheckLive \/ EndLive
  \/ Analyze \/ AppendResult \/ AppendAlert \/ WriteSliceProgress
  \/ SettleMetadata \/ SettleProgress

-------------------------------------------------------------------------------
(***************************************************************************)
(* cancel_session, one call per client: a look at the snapshot, then the   *)
(* marker.  A session that is not known yet is reported as missing, which  *)
(* leaves the client free to try again.                                    *)
(***************************************************************************)
CancelCheck_UnknownSession(c) ==
  /\ cancel[c] = "idle"
  /\ cancel' = [cancel EXCEPT ![c] =
                  IF meta \in TerminalStatuses THEN "refused" ELSE "checked"]
  /\ UNCHANGED <<cancelRequested, takenAtCancel, storeVars, workVars, ctrlVars>>
  /\ UNCHANGED <<pollVars, faults>>

CancelCheck(c) ==
  /\ cancel[c] = "idle"
  /\ meta # Absent
  /\ cancel' = [cancel EXCEPT ![c] =
                  IF meta \in TerminalStatuses THEN "refused" ELSE "checked"]
  /\ UNCHANGED <<cancelRequested, takenAtCancel, storeVars, workVars, ctrlVars>>
  /\ UNCHANGED <<pollVars, faults>>

CancelRequest_SetsCancelling(c) ==
  /\ cancel[c] = "checked"
  /\ cancel' = [cancel EXCEPT ![c] = "accepted"]
  /\ cancelRequested' = TRUE
  /\ takenAtCancel' = IF cancelRequested THEN takenAtCancel ELSE taken
  /\ meta' = "cancelling"
  /\ UNCHANGED <<prog, results, alerts, workVars, ctrlVars, pollVars, faults>>

CancelRequest(c) ==
  /\ cancel[c] = "checked"
  /\ cancel' = [cancel EXCEPT ![c] = "accepted"]
  /\ cancelRequested' = TRUE
  /\ takenAtCancel' = IF cancelRequested THEN takenAtCancel ELSE taken
  /\ UNCHANGED <<storeVars, workVars, ctrlVars, pollVars, faults>>

-------------------------------------------------------------------------------
(***************************************************************************)
(* The frontend poll: read_session_snapshot reads the four artifacts one   *)
(* by one.  useMonitoringSession polls again until the metadata is         *)
(* terminal.                                                               *)
(***************************************************************************)
ReadMetadata ==
  /\ poll = "metadata"
  /\ meta # Absent
  /\ snap' = [EmptySnapshot EXCEPT !.meta = meta]
  /\ poll' = "progress"
  /\ UNCHANGED <<storeVars, workVars, ctrlVars, clientVars, faults>>

ReadProgress ==
  /\ poll = "progress"
  /\ snap' = [snap EXCEPT !.prog = prog]
  /\ poll' = "alerts"
  /\ UNCHANGED <<storeVars, workVars, ctrlVars, clientVars, faults>>

ReadAlerts ==
  /\ poll = "alerts"
  /\ snap' = [snap EXCEPT !.alerts = alerts]
  /\ poll' = "results"
  /\ UNCHANGED <<storeVars, workVars, ctrlVars, clientVars, faults>>

ReadResults_MetadataLast ==
  /\ poll = "results"
  /\ snap' = [snap EXCEPT !.results = results, !.meta = meta]
  /\ poll' = IF meta \in TerminalStatuses THEN "stopped" ELSE "metadata"
  /\ UNCHANGED <<storeVars, workVars, ctrlVars, clientVars, faults>>

ReadResults_ProgressLast ==
  /\ poll = "results"
  /\ snap' = [snap EXCEPT !.results = results, !.prog = prog]
  /\ poll' = IF snap.meta \in TerminalStatuses THEN "stopped" ELSE "metadata"
  /\ UNCHANGED <<storeVars, workVars, ctrlVars, clientVars, faults>>

ReadResults ==
  /\ poll = "results"
  /\ snap' = [snap EXCEPT !.results = results]
  /\ poll' = IF snap.meta \in TerminalStatuses THEN "stopped" ELSE "metadata"
  /\ UNCHANGED <<storeVars, workVars, ctrlVars, clientVars, faults>>

PollStep == ReadMetadata \/ ReadProgress \/ ReadAlerts \/ ReadResults

-------------------------------------------------------------------------------
Next ==
  \/ WorkerStep
  \/ StoreFault
  \/ Crash
  \/ \E c \in Clients : CancelCheck(c) \/ CancelRequest(c)
  \/ PollStep

Spec == Init /\ [][Next]_vars

\* The operating system schedules a live process, a request handler runs to
\* its end, and the poll timer keeps firing.  Nobody has to cancel, and no
\* failure has to happen.
Fairness ==
  /\ WF_vars(WorkerStep)
  /\ WF_vars(PollStep)
  /\ \A c \in Clients : WF_vars(CancelRequest(c))

FairSpec == Spec /\ Fairness

-------------------------------------------------------------------------------
(***************************************************************************)
(* Properties.                                                             *)
(***************************************************************************)
PCs ==
  StoreSteps \cup LoopSteps \cup
  {"validate", "discover", "live_ended", "done", "dead"}

StoreTypeOK ==
  /\ meta \in {Absent, "pending", "running"} \cup TerminalStatuses
  /\ prog \in Progress
  /\ results \in Nat
  /\ alerts \in Nat

WorkTypeOK ==
  /\ wmeta \in {"pending", "running"}
  /\ wprog \in Progress
  /\ total \in Nat
  /\ taken \in Nat
  /\ bundle \in [results : Nat, alerts : Nat, found : Nat]

CtrlTypeOK ==
  /\ pc \in PCs
  /\ outcome \in TerminalStatuses
  /\ inTry \in BOOLEAN

ClientTypeOK ==
  /\ cancelRequested \in BOOLEAN
  /\ cancel \in [Clients -> {"idle", "checked", "refused", "accepted"}]
  /\ takenAtCancel \in Nat

PollTypeOK ==
  /\ poll \in {"metadata", "progress", "alerts", "results", "stopped"}
  /\ snap \in [meta : {Absent, "pending", "running"} \cup TerminalStatuses,
               prog : Progress, alerts : Nat, results : Nat]

\* Every variable has the values its comment in VARIABLES promises.
TypeOK ==
  /\ StoreTypeOK
  /\ WorkTypeOK
  /\ CtrlTypeOK
  /\ ClientTypeOK
  /\ PollTypeOK
  /\ faults \in Nat

\* A poll that has seen a terminal status has not missed, and never will miss,
\* a row: what it read of alerts.jsonl and results.jsonl is all there will
\* ever be.  The frontend stops polling on that status, so a row left out of
\* this snapshot would never be shown.  It rests on the reader taking the
\* metadata first and the worker writing it last.
TerminalSnapshotIsComplete ==
  snap.meta \in TerminalStatuses =>
    /\ poll \in {"results", "metadata", "stopped"} => snap.alerts = alerts
    /\ poll \in {"metadata", "stopped"} => snap.results = results

\* The alert count that a snapshot's progress reports is backed by alert rows
\* of the same snapshot, although the two are read at different times while
\* the worker appends.
SnapshotBacksItsProgress ==
  poll \in {"results", "metadata", "stopped"} => snap.prog.alerts <= snap.alerts

\* The progress on disk never runs ahead of the metadata: a terminal progress
\* status is the status of session.json, through every failed write and every
\* second attempt at settling, and progress only says "running" once the
\* metadata has left "pending".
ProgressFollowsMetadata ==
  /\ prog.status \in TerminalStatuses => meta = prog.status
  /\ prog.status = "running" => meta \notin {Absent, "pending"}

\* A completed session has processed every slice it discovered or accepted,
\* and the alert count of its progress is exactly the number of alert rows.
CompletedIsComplete ==
  meta = "completed" => taken = total /\ wprog.processed = total
                                      /\ wprog.alerts = alerts

\* Cancel intent is cooperative but prompt: once it is durable, at most the
\* slice already past its check is still handed to the detectors.
CancelBoundsWork ==
  cancelRequested => taken <= takenAtCancel + 1

\* Neither validation of a payload nor the transition table ever rejects what
\* the worker builds: a rejection would raise ValueError in the middle of a
\* settlement and leave the two files disagreeing.
WorkerPayloadsAreValid ==
  /\ pc = "append" /\ bundle.results = 0 /\ bundle.alerts = 0 =>
       ValidProgress(SliceProgress)
  /\ pc = "settle_metadata" => CanTransition(wmeta, outcome)
  /\ pc \in {"settle_metadata", "settle_progress"} =>
       ValidProgress([wprog EXCEPT !.status = outcome])

\* The rows of a settled session never change, not even when the settlement
\* is repeated after a failed write.  It follows from KeepsContract.
SettledRowsAreFinal ==
  [][(meta \in TerminalStatuses) => UNCHANGED <<results, alerts>>]_vars

\* The durable status moves along the transition table.
DurableStatusFollowsTable ==
  [][(meta \in Statuses) => CanTransition(meta, meta')]_meta

\* Only a store that failed can take the durable status off the table: no
\* error of a source or a detector, no cancel and no rejected payload makes the
\* worker settle a settled session again.
OnlyFaultsLeaveTheTable ==
  [][(meta \in Statuses /\ ~CanTransition(meta, meta')) => faults > 0]_meta

\* A session whose worker is not killed and whose writes succeed reaches a
\* terminal status, whatever the detectors and the source raise.
EverySessionSettles ==
  <>(meta \in TerminalStatuses \/ faults > 0)

\* A cancel intent that is durable while a loop still has a check ahead of it
\* ends the session as the service announces.  A live loop always has one, the
\* check after the iteration; a local loop has one before each slice.
LoopCancelHonoured ==
  (cancelRequested /\ pc = "next_slice" /\ (Live \/ taken < total))
    ~> (meta \in {"cancelled", "failed"} \/ pc = "dead")

\* An accepted cancel request leads to a terminal status.
AcceptedCancelSettles ==
  \A c \in Clients : cancel[c] = "accepted" ~> meta \in TerminalStatuses

\* An accepted cancel request leads to one of the two statuses the service
\* announces for it.
AcceptedCancelIsHonoured ==
  \A c \in Clients : cancel[c] = "accepted" ~> meta \in {"cancelled", "failed"}

\* A poll that returns the status failed also returns the progress that says
\* why.
FailedSnapshotHasDetails ==
  poll = "stopped" /\ snap.meta = "failed" => snap.prog.status = "failed"

\* The session keeps the contract stated in SessionContract.
Contract == INSTANCE SessionContract WITH status <- meta

KeepsContract == Contract!Spec
===============================================================================
