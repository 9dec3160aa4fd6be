------------------------ MODULE SessionLifecycleProofs ------------------------
(***************************************************************************)
(* Machine-checked proofs about SessionLifecycle, for every value of its   *)
(* constants: both input modes, any number of clients, slices, rows and    *)
(* failing writes, with and without a crash.                               *)
(*                                                                         *)
(* The inductive invariant is a conjunction of five parts, each proved on  *)
(* top of the ones it needs: TypeOK, StatusInv (what the worker's place    *)
(* says of the durable status), WorkInv (what it says of the counts and    *)
(* rows), CancelInv (what cancel intent says of the work still to come)    *)
(* and SnapInv (what a half-read snapshot may assume).                     *)
(***************************************************************************)
EXTENDS SessionLifecycle, TLAPS

OpeningSteps ==
  {"init_progress", "validate", "validated_metadata", "discover",
   "start_total", "start_metadata"}

RunningSteps == {"start_progress", "live_ended"} \cup LoopSteps

SettlingSteps == {"settle_metadata", "settle_progress"}

\* The durable status, the worker's own copy of it and the status inside the
\* progress payload, place by place.  A settlement that is repeated after a
\* failed write (the metadata is already terminal) always settles as failed.
StatusInv ==
  /\ prog = wprog
  /\ pc = "init_metadata" =>
       meta = Absent /\ wmeta = "pending" /\ prog.status = Absent
  /\ pc \in OpeningSteps =>
       /\ meta = "pending" /\ wmeta = "pending"
       /\ prog.status = (IF pc = "init_progress" THEN Absent ELSE "pending")
  /\ pc \in RunningSteps =>
       meta = "running" /\ wmeta = "running" /\ prog.status \in {"pending", "running"}
  /\ pc = "settle_metadata" =>
       /\ wmeta = "pending" =>
            meta = "pending" /\ outcome = "failed" /\ prog.status # "running"
       /\ wmeta = "running" => meta \notin {Absent, "pending"}
       /\ meta \in TerminalStatuses => outcome = "failed"
  /\ pc = "settle_progress" => meta = outcome
  /\ inTry => wmeta = "running" /\ pc \in LoopSteps \cup SettlingSteps
  /\ meta \in TerminalStatuses => pc \in SettlingSteps \cup {"done", "dead"}
  /\ prog.status \in TerminalStatuses => meta = prog.status /\ pc = "done"
  /\ prog.status = "running" => meta \notin {Absent, "pending"}

NotStarted == {"init_metadata", "start_progress"} \cup OpeningSteps

AllDone ==
  /\ taken = total
  /\ prog.processed = total
  /\ prog.total = total
  /\ prog.alerts = alerts

\* The counts of the payload against the worker's own and against the alert
\* rows.  Between two slices they agree; inside a slice the payload is the
\* bundle behind the rows, and in a live loop one slice behind the total.
WorkInv ==
  /\ prog.processed <= prog.total
  /\ prog.total <= total
  /\ prog.alerts <= alerts
  /\ pc \in NotStarted =>
       taken = 0 /\ alerts = 0 /\ prog.alerts = 0 /\ prog.processed = 0
  /\ pc \in NotStarted /\ Live => total = 0
  /\ pc \in NotStarted => prog.total =
       (IF pc \in {"start_metadata", "start_progress"} THEN total ELSE 0)
  /\ pc = "discover" => ~Live
  /\ pc \in {"connect", "check_live", "live_ended"} => Live
  /\ pc \in {"connect", "next_slice", "check_live", "analyze", "live_ended"} =>
       prog.processed = taken /\ prog.alerts = alerts
  /\ pc \in {"connect", "next_slice", "live_ended"} => prog.total = total
  /\ pc \in {"connect", "live_ended"} => taken = total
  /\ pc = "next_slice" => taken <= total /\ (Live => taken = total)
  /\ pc = "check_live" => taken + 1 = total
  /\ pc = "analyze" => taken + 1 <= total /\ (Live => taken + 1 = total)
  /\ pc = "append" =>
       /\ taken <= total
       /\ Live => taken = total
       /\ bundle.alerts <= bundle.found
       /\ alerts + bundle.alerts = prog.alerts + bundle.found
  /\ pc \in SettlingSteps /\ outcome = "completed" => AllDone
  /\ meta = "completed" => AllDone

\* A slice is at its detectors only if its check preceded the cancel intent,
\* and cancel intent is only stored for a session that exists.
CancelInv ==
  /\ cancelRequested => taken <= takenAtCancel + 1
  /\ cancelRequested /\ pc = "analyze" => taken <= takenAtCancel
  /\ \A c \in Clients : cancel[c] # "idle" => meta # Absent

\* What has been read so far, against the store as it now is.
SnapInv ==
  /\ snap.meta \in TerminalStatuses => meta \in TerminalStatuses
  /\ TerminalSnapshotIsComplete
  /\ snap.prog.alerts <= alerts
  /\ SnapshotBacksItsProgress

-------------------------------------------------------------------------------
(***************************************************************************)
(* Type correctness.                                                       *)
(***************************************************************************)
\* The payloads the worker builds are progress records.
LEMMA ProgressTypes ==
  /\ NoProgress \in Progress
  /\ \A n \in Nat : InitialProgress(n) \in Progress
  /\ \A p \in Progress, s \in Statuses : [p EXCEPT !.status = s] \in Progress
BY DEF Progress, NoProgress, InitialProgress, Statuses, Absent

\* Where the worker goes next is always a place of the program.
LEMMA ControlTypes ==
  ASSUME CtrlTypeOK
  PROVE  /\ \A next \in PCs : Goto(next) => CtrlTypeOK'
         /\ \A status \in TerminalStatuses : Settle(status) => CtrlTypeOK'
         /\ Raise => CtrlTypeOK'
         /\ Die => CtrlTypeOK'
<1> "settle_metadata" \in PCs /\ "dead" \in PCs /\ "failed" \in TerminalStatuses
  BY DEF PCs, StoreSteps, TerminalStatuses
<1>1. ASSUME NEW next \in PCs, Goto(next)
      PROVE  CtrlTypeOK'
  BY <1>1, Zenon DEF CtrlTypeOK, Goto
<1>2. ASSUME NEW status \in TerminalStatuses, Settle(status)
      PROVE  CtrlTypeOK'
  BY <1>2, Zenon DEF CtrlTypeOK, Settle
<1>3. Raise => CtrlTypeOK'
  BY DEF CtrlTypeOK, Raise
<1>4. Die => CtrlTypeOK'
  BY DEF CtrlTypeOK, Die
<1> QED
  BY <1>1, <1>2, <1>3, <1>4

\* A persisting step keeps the store's types.
LEMMA PersistTypes ==
  ASSUME CtrlTypeOK, StoreTypeOK, NEW next \in PCs
  PROVE  /\ \A status \in {"pending", "running"} \cup TerminalStatuses :
              PersistMetadata(status, next)
                => /\ CtrlTypeOK'
                   /\ meta' \in {Absent, "pending", "running"} \cup TerminalStatuses
         /\ \A p \in Progress :
              PersistProgress(p, next) /\ wprog \in Progress
                => CtrlTypeOK' /\ prog' \in Progress /\ wprog' \in Progress
<1>1. ASSUME NEW status \in {"pending", "running"} \cup TerminalStatuses,
             PersistMetadata(status, next)
      PROVE  /\ CtrlTypeOK'
             /\ meta' \in {Absent, "pending", "running"} \cup TerminalStatuses
  BY <1>1, ControlTypes, Zenon DEF PersistMetadata, StoreTypeOK
<1>2. ASSUME NEW p \in Progress, PersistProgress(p, next), wprog \in Progress
      PROVE  CtrlTypeOK' /\ prog' \in Progress /\ wprog' \in Progress
  BY <1>2, ControlTypes, Zenon DEF PersistProgress, StoreTypeOK
<1> QED
  BY <1>1, <1>2

\* A step that leaves a group of variables alone keeps its types.
LEMMA StutterTypes ==
  ASSUME TypeOK
  PROVE  /\ UNCHANGED envVars => ClientTypeOK' /\ PollTypeOK' /\ faults' \in Nat
         /\ UNCHANGED storeVars => StoreTypeOK'
         /\ UNCHANGED workVars => WorkTypeOK'
         /\ UNCHANGED ctrlVars => CtrlTypeOK'
         /\ UNCHANGED clientVars => ClientTypeOK'
         /\ UNCHANGED pollVars => PollTypeOK'
BY DEF TypeOK, StoreTypeOK, WorkTypeOK, CtrlTypeOK, ClientTypeOK, PollTypeOK,
   envVars, storeVars, workVars, ctrlVars, clientVars, pollVars

\* Every step preserves TypeOK.
LEMMA TypeStep ==
  ASSUME TypeOK, [Next]_vars
  PROVE  TypeOK'
<1> USE DEF TypeOK, StoreTypeOK, WorkTypeOK, storeVars, workVars
<1> USE DEF PCs, StoreSteps, LoopSteps, TerminalStatuses, Statuses
<1>1. CASE InitMetadata
  BY <1>1, PersistTypes, StutterTypes, ProgressTypes DEF InitMetadata
<1>2. CASE InitProgress
  BY <1>2, PersistTypes, StutterTypes, ProgressTypes DEF InitProgress
<1>3. CASE ValidateSource
  BY <1>3, ControlTypes, StutterTypes DEF ValidateSource
<1>4. CASE PersistValidated
  BY <1>4, PersistTypes, StutterTypes, ProgressTypes DEF PersistValidated
<1>5. CASE DiscoverSlices
  BY <1>5, ControlTypes, StutterTypes DEF DiscoverSlices
<1>6. CASE StartTotal
  BY <1>6, PersistTypes, StutterTypes, ProgressTypes DEF StartTotal
<1>7. CASE StartMetadata
  BY <1>7, PersistTypes, StutterTypes, ProgressTypes DEF StartMetadata
<1>8. CASE StartProgress
  BY <1>8, PersistTypes, StutterTypes, ProgressTypes DEF StartProgress
<1>9. CASE NextLocalSlice
  BY <1>9, ControlTypes, StutterTypes DEF NextLocalSlice
<1>10. CASE ConnectLive
  BY <1>10, ControlTypes, StutterTypes DEF ConnectLive
<1>11. CASE PullLiveSlice
  BY <1>11, ControlTypes, StutterTypes DEF PullLiveSlice
<1>12. CASE CheckLive
  BY <1>12, ControlTypes, StutterTypes DEF CheckLive
<1>13. CASE EndLive
  BY <1>13, ControlTypes, StutterTypes DEF EndLive
<1>14. CASE Analyze
  BY <1>14, ControlTypes, StutterTypes DEF Analyze
<1>15. CASE AppendResult
  BY <1>15, ControlTypes, StutterTypes DEF AppendResult
<1>16. CASE AppendAlert
  BY <1>16, ControlTypes, StutterTypes DEF AppendAlert
<1>17. CASE WriteSliceProgress
  <2>1. SliceProgress \in Progress
    BY DEF SliceProgress, Progress, Statuses, StoreTypeOK, WorkTypeOK
  <2>2. StoreTypeOK' /\ WorkTypeOK' /\ CtrlTypeOK'
    BY <1>17, <2>1, PersistTypes DEF WriteSliceProgress, NoBundle, PCs,
       LoopSteps, StoreTypeOK, WorkTypeOK
  <2> QED
    BY <1>17, <2>2, StutterTypes DEF WriteSliceProgress
<1>18. CASE SettleMetadata
  <2>1. StoreTypeOK' /\ CtrlTypeOK'
    BY <1>18, PersistTypes DEF SettleMetadata, PCs, StoreSteps, StoreTypeOK, CtrlTypeOK
  <2> QED
    BY <1>18, <2>1, StutterTypes DEF SettleMetadata
<1>19. CASE SettleProgress
  <2>1. [wprog EXCEPT !.status = outcome] \in Progress
    BY ProgressTypes DEF WorkTypeOK, CtrlTypeOK, Statuses, TerminalStatuses
  <2>2. StoreTypeOK' /\ WorkTypeOK' /\ CtrlTypeOK'
    BY <1>19, <2>1, PersistTypes DEF SettleProgress, PCs, StoreTypeOK, WorkTypeOK
  <2> QED
    BY <1>19, <2>2, StutterTypes DEF SettleProgress
<1>20. CASE StoreFault
  BY <1>20, ControlTypes, StutterTypes DEF StoreFault
<1>21. CASE Crash
  BY <1>21, ControlTypes, StutterTypes DEF Crash
<1>22. ASSUME NEW c \in Clients, CancelCheck(c)
       PROVE  TypeOK'
  <2>1. cancel' \in [Clients -> {"idle", "checked", "refused", "accepted"}]
    BY <1>22 DEF CancelCheck, ClientTypeOK
  <2>2. UNCHANGED <<cancelRequested, takenAtCancel, storeVars, workVars, ctrlVars, pollVars, faults>>
    BY <1>22 DEF CancelCheck
  <2> QED
    BY <2>1, <2>2, StutterTypes, Zenon DEF ClientTypeOK
<1>23. ASSUME NEW c \in Clients, CancelRequest(c)
       PROVE  TypeOK'
  <2>1. /\ cancel' \in [Clients -> {"idle", "checked", "refused", "accepted"}]
        /\ takenAtCancel' \in Nat
    BY <1>23 DEF CancelRequest, ClientTypeOK, WorkTypeOK
  <2>2. /\ cancelRequested' \in BOOLEAN
        /\ UNCHANGED <<storeVars, workVars, ctrlVars, pollVars, faults>>
    BY <1>23 DEF CancelRequest
  <2> QED
    BY <2>1, <2>2, StutterTypes, Zenon DEF ClientTypeOK
<1>24. CASE PollStep
  <2>1. UNCHANGED <<storeVars, workVars, ctrlVars, clientVars, faults>>
    BY <1>24 DEF PollStep, ReadMetadata, ReadProgress, ReadAlerts, ReadResults
  <2>2. PollTypeOK'
    BY <1>24, ProgressTypes DEF PollStep, ReadMetadata, ReadProgress,
       ReadAlerts, ReadResults, EmptySnapshot, PollTypeOK, StoreTypeOK
  <2> QED
    BY <2>1, <2>2, StutterTypes, Zenon
<1>25. CASE UNCHANGED vars
  BY <1>25, StutterTypes DEF vars
<1> QED
  BY <1>1, <1>2, <1>3, <1>4, <1>5, <1>6, <1>7, <1>8, <1>9, <1>10, <1>11, <1>12,
     <1>13, <1>14, <1>15, <1>16, <1>17, <1>18, <1>19, <1>20, <1>21, <1>22,
     <1>23, <1>24, <1>25 DEF Next, WorkerStep

\* Every variable keeps the type its declaration promises.
THEOREM TypeCorrect == Spec => []TypeOK
<1>1. Init => TypeOK
  <2> SUFFICES ASSUME Init PROVE TypeOK
    OBVIOUS
  <2>1. StoreTypeOK /\ WorkTypeOK /\ faults \in Nat
    BY ProgressTypes DEF Init, StoreTypeOK, WorkTypeOK, NoBundle, Absent
  <2>2. CtrlTypeOK
    BY Zenon DEF Init, CtrlTypeOK, PCs, StoreSteps, TerminalStatuses
  <2>3. ClientTypeOK
    BY DEF Init, ClientTypeOK
  <2>4. PollTypeOK
    BY ProgressTypes DEF Init, PollTypeOK, EmptySnapshot
  <2> QED
    BY <2>1, <2>2, <2>3, <2>4 DEF TypeOK
<1> QED
  BY <1>1, TypeStep, PTL DEF Spec

-------------------------------------------------------------------------------
(***************************************************************************)
(* The durable status.                                                     *)
(***************************************************************************)
\* Every step preserves StatusInv.
LEMMA StatusStep ==
  ASSUME TypeOK, StatusInv, [Next]_vars
  PROVE  StatusInv'
<1> USE DEF TypeOK, StoreTypeOK, WorkTypeOK, CtrlTypeOK, StatusInv
<1> USE DEF Progress, Statuses, Absent, storeVars, workVars, ctrlVars
<1> USE DEF OpeningSteps, RunningSteps, SettlingSteps, LoopSteps, TerminalStatuses
<1>1. CASE InitMetadata
  BY <1>1 DEF InitMetadata, PersistMetadata, Goto, Raise
<1>2. CASE InitProgress
  BY <1>2 DEF InitProgress, PersistProgress, Goto, Raise, InitialProgress
<1>3. CASE ValidateSource
  BY <1>3 DEF ValidateSource, Goto, Settle
<1>4. CASE PersistValidated
  BY <1>4 DEF PersistValidated, PersistMetadata, Goto, Raise
<1>5. CASE DiscoverSlices
  BY <1>5 DEF DiscoverSlices, Goto, Settle
<1>6. CASE StartTotal
  BY <1>6 DEF StartTotal, PersistProgress, Goto, Raise, InitialProgress
<1>7. CASE StartMetadata
  BY <1>7 DEF StartMetadata, PersistMetadata, Goto, Raise
<1>8. CASE StartProgress
  BY <1>8 DEF StartProgress, PersistProgress, Goto, Raise
<1>9. CASE NextLocalSlice
  BY <1>9 DEF NextLocalSlice, Goto, Settle
<1>10. CASE ConnectLive
  BY <1>10 DEF ConnectLive, Goto, Raise, Die
<1>11. CASE PullLiveSlice
  BY <1>11 DEF PullLiveSlice, Goto, Raise
<1>12. CASE CheckLive
  BY <1>12 DEF CheckLive, Goto, Settle
<1>13. CASE EndLive
  BY <1>13 DEF EndLive, Settle
<1>14. CASE Analyze
  BY <1>14 DEF Analyze, Goto, Raise
<1>15. CASE AppendResult
  BY <1>15 DEF AppendResult
<1>16. CASE AppendAlert
  BY <1>16 DEF AppendAlert
<1>17. CASE WriteSliceProgress
  BY <1>17 DEF WriteSliceProgress, PersistProgress, Goto, Raise, SliceProgress
<1>18. CASE SettleMetadata
  BY <1>18 DEF SettleMetadata, PersistMetadata, Goto, Raise, CanTransition,
     AllowedTransitions
<1>19. CASE SettleProgress
  BY <1>19 DEF SettleProgress, PersistProgress, Goto, Raise
<1>20. CASE StoreFault
  BY <1>20 DEF StoreFault, Raise, StoreSteps
<1>21. CASE Crash
  BY <1>21 DEF Crash, Die
<1>22. CASE \E c \in Clients : CancelCheck(c) \/ CancelRequest(c)
  BY <1>22 DEF CancelCheck, CancelRequest
<1>23. CASE PollStep
  BY <1>23 DEF PollStep, ReadMetadata, ReadProgress, ReadAlerts, ReadResults
<1>24. CASE UNCHANGED vars
  BY <1>24 DEF vars
<1> QED
  BY <1>1, <1>2, <1>3, <1>4, <1>5, <1>6, <1>7, <1>8, <1>9, <1>10, <1>11, <1>12,
     <1>13, <1>14, <1>15, <1>16, <1>17, <1>18, <1>19, <1>20, <1>21, <1>22,
     <1>23, <1>24 DEF Next, WorkerStep

\* At each place of the worker the durable status, the worker's own copy and
\* the status in the progress payload stand in the relation StatusInv names.
THEOREM StatusInvariant == Spec => []StatusInv
<1>1. Init => StatusInv
  BY DEF Init, StatusInv, NoProgress, OpeningSteps, RunningSteps, SettlingSteps,
     LoopSteps, TerminalStatuses, Absent
<1> QED
  BY <1>1, TypeCorrect, StatusStep, PTL DEF Spec

\* The progress on disk never runs ahead of the metadata, through failed
\* writes, repeated settlements and a crash.
THEOREM ProgressNeverAhead == Spec => []ProgressFollowsMetadata
<1>1. StatusInv => ProgressFollowsMetadata
  BY DEF StatusInv, ProgressFollowsMetadata
<1> QED
  BY <1>1, StatusInvariant, PTL

-------------------------------------------------------------------------------
(***************************************************************************)
(* The counts.                                                             *)
(***************************************************************************)
\* Every step preserves WorkInv.
LEMMA WorkStep ==
  ASSUME TypeOK, StatusInv, WorkInv, [Next]_vars
  PROVE  WorkInv'
<1> USE DEF TypeOK, StoreTypeOK, WorkTypeOK, CtrlTypeOK, StatusInv, WorkInv, AllDone
<1> USE DEF Progress, storeVars, workVars, ctrlVars
<1> USE DEF OpeningSteps, RunningSteps, SettlingSteps, LoopSteps, NotStarted,
   TerminalStatuses
<1>1. CASE InitMetadata
  BY <1>1 DEF InitMetadata, PersistMetadata, Goto, Raise
<1>2. CASE InitProgress
  BY <1>2 DEF InitProgress, PersistProgress, Goto, Raise, InitialProgress
<1>3. CASE ValidateSource
  BY <1>3 DEF ValidateSource, Goto, Settle
<1>4. CASE PersistValidated
  BY <1>4 DEF PersistValidated, PersistMetadata, Goto, Raise
<1>5. CASE DiscoverSlices
  BY <1>5 DEF DiscoverSlices, Goto, Settle
<1>6. CASE StartTotal
  BY <1>6 DEF StartTotal, PersistProgress, Goto, Raise, InitialProgress
<1>7. CASE StartMetadata
  BY <1>7 DEF StartMetadata, PersistMetadata, Goto, Raise
<1>8. CASE StartProgress
  BY <1>8 DEF StartProgress, PersistProgress, Goto, Raise
<1>9. CASE NextLocalSlice
  BY <1>9 DEF NextLocalSlice, Goto, Settle
<1>10. CASE ConnectLive
  BY <1>10 DEF ConnectLive, Goto, Raise, Die
<1>11. CASE PullLiveSlice
  BY <1>11 DEF PullLiveSlice, Goto, Raise
<1>12. CASE CheckLive
  BY <1>12 DEF CheckLive, Goto, Settle
<1>13. CASE EndLive
  BY <1>13 DEF EndLive, Settle
<1>14. CASE Analyze
  BY <1>14 DEF Analyze, Goto, Raise
<1>15. CASE AppendResult
  BY <1>15 DEF AppendResult
<1>16. CASE AppendAlert
  BY <1>16 DEF AppendAlert
<1>17. CASE WriteSliceProgress
  BY <1>17 DEF WriteSliceProgress, PersistProgress, Goto, Raise, SliceProgress, NoBundle
<1>18. CASE SettleMetadata
  BY <1>18 DEF SettleMetadata, PersistMetadata, Goto, Raise
<1>19. CASE SettleProgress
  BY <1>19 DEF SettleProgress, PersistProgress, Goto, Raise
<1>20. CASE StoreFault
  BY <1>20 DEF StoreFault, Raise, StoreSteps
<1>21. CASE Crash
  BY <1>21 DEF Crash, Die
<1>22. CASE \E c \in Clients : CancelCheck(c) \/ CancelRequest(c)
  BY <1>22 DEF CancelCheck, CancelRequest
<1>23. CASE PollStep
  BY <1>23 DEF PollStep, ReadMetadata, ReadProgress, ReadAlerts, ReadResults
<1>24. CASE UNCHANGED vars
  BY <1>24 DEF vars
<1> QED
  BY <1>1, <1>2, <1>3, <1>4, <1>5, <1>6, <1>7, <1>8, <1>9, <1>10, <1>11, <1>12,
     <1>13, <1>14, <1>15, <1>16, <1>17, <1>18, <1>19, <1>20, <1>21, <1>22,
     <1>23, <1>24 DEF Next, WorkerStep

\* At each place of the worker the counts of the progress payload match the
\* slices taken and the alert rows appended, up to the bundle in hand.
THEOREM WorkInvariant == Spec => []WorkInv
<1>1. Init => WorkInv
  BY DEF Init, WorkInv, NoProgress, OpeningSteps, SettlingSteps, NotStarted,
     TerminalStatuses, Absent
<1> QED
  BY <1>1, TypeCorrect, StatusInvariant, WorkStep, PTL DEF Spec

\* A session that reports itself completed has processed every slice, and its
\* alert count is the number of alert rows.
THEOREM CompletedIsTrue == Spec => []CompletedIsComplete
<1>1. StatusInv /\ WorkInv => CompletedIsComplete
  BY DEF StatusInv, WorkInv, AllDone, CompletedIsComplete
<1> QED
  BY <1>1, StatusInvariant, WorkInvariant, PTL

\* What the worker builds at each place passes the validation.
LEMMA PayloadsAreValid ==
  ASSUME TypeOK, StatusInv, WorkInv
  PROVE  WorkerPayloadsAreValid
<1> USE DEF TypeOK, StoreTypeOK, WorkTypeOK, CtrlTypeOK, Progress
<1>1. pc = "append" => ValidProgress(SliceProgress)
  BY DEF StatusInv, WorkInv, RunningSteps, LoopSteps, ValidProgress, SliceProgress
<1>2. pc = "settle_metadata" => CanTransition(wmeta, outcome)
  BY DEF StatusInv, CanTransition, AllowedTransitions, TerminalStatuses
<1>3. pc \in SettlingSteps => ValidProgress([wprog EXCEPT !.status = outcome])
  BY DEF StatusInv, WorkInv, AllDone, ValidProgress, SettlingSteps, TerminalStatuses
<1> QED
  BY <1>1, <1>2, <1>3 DEF WorkerPayloadsAreValid, SettlingSteps

\* Validation and the transition table never reject what the worker builds,
\* not even while it settles a session for the second time.
THEOREM PayloadsAccepted == Spec => []WorkerPayloadsAreValid
BY TypeCorrect, StatusInvariant, WorkInvariant, PayloadsAreValid, PTL

-------------------------------------------------------------------------------
(***************************************************************************)
(* A second settlement.                                                    *)
(***************************************************************************)
\* Until a store fails, the worker that settles a session finds it unsettled.
SettlesOnce ==
  faults = 0 /\ pc = "settle_metadata" => meta \notin TerminalStatuses

\* No step but a failing write makes the worker settle what is settled.
LEMMA SettlesOnceStep ==
  ASSUME TypeOK, StatusInv, WorkInv, SettlesOnce, [Next]_vars
  PROVE  SettlesOnce'
<1> USE DEF TypeOK, StoreTypeOK, WorkTypeOK, CtrlTypeOK, StatusInv, SettlesOnce
<1> USE DEF OpeningSteps, RunningSteps, LoopSteps, TerminalStatuses, Absent
<1> USE DEF storeVars, workVars, ctrlVars, envVars
<1>1. CASE InitMetadata
  BY <1>1 DEF InitMetadata, PersistMetadata, Goto, Raise
<1>2. CASE InitProgress
  BY <1>2 DEF InitProgress, PersistProgress, Goto, Raise
<1>3. CASE ValidateSource
  BY <1>3 DEF ValidateSource, Goto, Settle
<1>4. CASE PersistValidated
  BY <1>4 DEF PersistValidated, PersistMetadata, Goto, Raise
<1>5. CASE DiscoverSlices
  BY <1>5 DEF DiscoverSlices, Goto, Settle
<1>6. CASE StartTotal
  BY <1>6 DEF StartTotal, PersistProgress, Goto, Raise
<1>7. CASE StartMetadata
  BY <1>7 DEF StartMetadata, PersistMetadata, Goto, Raise
<1>8. CASE StartProgress
  BY <1>8 DEF StartProgress, PersistProgress, Goto, Raise
<1>9. CASE NextLocalSlice
  BY <1>9 DEF NextLocalSlice, Goto, Settle
<1>10. CASE ConnectLive
  BY <1>10 DEF ConnectLive, Goto, Raise, Die
<1>11. CASE PullLiveSlice
  BY <1>11 DEF PullLiveSlice, Goto, Raise
<1>12. CASE CheckLive
  BY <1>12 DEF CheckLive, Goto, Settle
<1>13. CASE EndLive
  BY <1>13 DEF EndLive, Settle
<1>14. CASE Analyze
  BY <1>14 DEF Analyze, Goto, Raise
<1>15. CASE AppendResult
  BY <1>15 DEF AppendResult
<1>16. CASE AppendAlert
  BY <1>16 DEF AppendAlert
<1>17. CASE WriteSliceProgress
  BY <1>17 DEF WriteSliceProgress, PersistProgress, Goto, Raise
<1>18. CASE SettleMetadata
  BY <1>18, PayloadsAreValid
     DEF SettleMetadata, PersistMetadata, Goto, WorkerPayloadsAreValid
<1>19. CASE SettleProgress
  BY <1>19, PayloadsAreValid
     DEF SettleProgress, PersistProgress, Goto, WorkerPayloadsAreValid
<1>20. CASE StoreFault
  BY <1>20 DEF StoreFault
<1>21. CASE Crash
  BY <1>21 DEF Crash, Die
<1>22. CASE \E c \in Clients : CancelCheck(c) \/ CancelRequest(c)
  BY <1>22 DEF CancelCheck, CancelRequest
<1>23. CASE PollStep
  BY <1>23 DEF PollStep, ReadMetadata, ReadProgress, ReadAlerts, ReadResults
<1>24. CASE UNCHANGED vars
  BY <1>24 DEF vars
<1> QED
  BY <1>1, <1>2, <1>3, <1>4, <1>5, <1>6, <1>7, <1>8, <1>9, <1>10, <1>11, <1>12,
     <1>13, <1>14, <1>15, <1>16, <1>17, <1>18, <1>19, <1>20, <1>21, <1>22,
     <1>23, <1>24 DEF Next, WorkerStep

-------------------------------------------------------------------------------
(***************************************************************************)
(* Cancel intent.                                                          *)
(***************************************************************************)
\* Every step preserves CancelInv.
LEMMA CancelStep ==
  ASSUME TypeOK, StatusInv, CancelInv, [Next]_vars
  PROVE  CancelInv'
<1> USE DEF TypeOK, StoreTypeOK, WorkTypeOK, CtrlTypeOK, ClientTypeOK, CancelInv
<1> USE DEF storeVars, workVars, ctrlVars, clientVars, envVars
<1>1. CASE InitMetadata
  BY <1>1 DEF InitMetadata, PersistMetadata, Goto, Raise, Absent
<1>2. CASE InitProgress
  BY <1>2 DEF InitProgress, PersistProgress, Goto, Raise
<1>3. CASE ValidateSource
  BY <1>3 DEF ValidateSource, Goto, Settle
<1>4. CASE PersistValidated
  BY <1>4 DEF PersistValidated, PersistMetadata, Goto, Raise, Absent
<1>5. CASE DiscoverSlices
  BY <1>5 DEF DiscoverSlices, Goto, Settle
<1>6. CASE StartTotal
  BY <1>6 DEF StartTotal, PersistProgress, Goto, Raise
<1>7. CASE StartMetadata
  BY <1>7 DEF StartMetadata, PersistMetadata, Goto, Raise, Absent
<1>8. CASE StartProgress
  BY <1>8 DEF StartProgress, PersistProgress, Goto, Raise
<1>9. CASE NextLocalSlice
  BY <1>9 DEF NextLocalSlice, Goto, Settle
<1>10. CASE ConnectLive
  BY <1>10 DEF ConnectLive, Goto, Raise, Die
<1>11. CASE PullLiveSlice
  BY <1>11 DEF PullLiveSlice, Goto, Raise
<1>12. CASE CheckLive
  BY <1>12 DEF CheckLive, Goto, Settle
<1>13. CASE EndLive
  BY <1>13 DEF EndLive, Settle
<1>14. CASE Analyze
  BY <1>14 DEF Analyze, Goto, Raise
<1>15. CASE AppendResult
  BY <1>15 DEF AppendResult
<1>16. CASE AppendAlert
  BY <1>16 DEF AppendAlert
<1>17. CASE WriteSliceProgress
  BY <1>17 DEF WriteSliceProgress, PersistProgress, Goto, Raise, SliceProgress
<1>18. CASE SettleMetadata
  BY <1>18 DEF SettleMetadata, PersistMetadata, Goto, Raise, TerminalStatuses, Absent
<1>19. CASE SettleProgress
  BY <1>19 DEF SettleProgress, PersistProgress, Goto, Raise
<1>20. CASE StoreFault
  BY <1>20 DEF StoreFault, Raise
<1>21. CASE Crash
  BY <1>21 DEF Crash, Die
<1>22. CASE \E c \in Clients : CancelCheck(c) \/ CancelRequest(c)
  BY <1>22 DEF CancelCheck, CancelRequest
<1>23. CASE PollStep
  BY <1>23 DEF PollStep, ReadMetadata, ReadProgress, ReadAlerts, ReadResults
<1>24. CASE UNCHANGED vars
  BY <1>24 DEF vars
<1> QED
  BY <1>1, <1>2, <1>3, <1>4, <1>5, <1>6, <1>7, <1>8, <1>9, <1>10, <1>11, <1>12,
     <1>13, <1>14, <1>15, <1>16, <1>17, <1>18, <1>19, <1>20, <1>21, <1>22,
     <1>23, <1>24 DEF Next, WorkerStep

\* Cancel intent is only stored for a session that exists, and bounds the
\* slices the worker may still take.
THEOREM CancelInvariant == Spec => []CancelInv
<1>1. Init => CancelInv
  BY DEF Init, CancelInv
<1> QED
  BY <1>1, TypeCorrect, StatusInvariant, CancelStep, PTL DEF Spec

\* Once cancel intent is durable, at most the slice already past its check is
\* still handed to the detectors.
THEOREM CancelIsPrompt == Spec => []CancelBoundsWork
<1>1. CancelInv => CancelBoundsWork
  BY DEF CancelInv, CancelBoundsWork
<1> QED
  BY <1>1, CancelInvariant, PTL

-------------------------------------------------------------------------------
(***************************************************************************)
(* Terminal rows and snapshots.                                            *)
(***************************************************************************)

\* Who writes what readers and the contract see.
LEMMA Writers ==
  ASSUME [Next]_vars
  PROVE  \/ InitMetadata \/ PersistValidated \/ StartMetadata \/ SettleMetadata
         \/ AppendResult \/ AppendAlert
         \/ \E c \in Clients : CancelRequest(c)
         \/ UNCHANGED <<meta, results, alerts, cancelRequested>>
BY DEF Next, WorkerStep, InitProgress, ValidateSource, DiscoverSlices,
   StartTotal, StartProgress, NextLocalSlice, ConnectLive, PullLiveSlice,
   CheckLive, EndLive, Analyze, WriteSliceProgress, SettleProgress, StoreFault,
   Crash, CancelCheck, PollStep, ReadMetadata, ReadProgress, ReadAlerts,
   ReadResults, vars, storeVars, envVars, clientVars

\* Nothing but the poll touches what the poll has read.
LEMMA PollOnlyReads ==
  ASSUME [Next]_vars
  PROVE  PollStep \/ UNCHANGED pollVars
BY DEF Next, WorkerStep, InitMetadata, InitProgress, ValidateSource,
   PersistValidated, DiscoverSlices, StartTotal, StartMetadata, StartProgress,
   NextLocalSlice, ConnectLive, PullLiveSlice, CheckLive, EndLive, Analyze,
   AppendResult, AppendAlert, WriteSliceProgress, SettleMetadata,
   SettleProgress, StoreFault, Crash, CancelCheck, CancelRequest, vars, envVars

\* A step taken after settlement keeps the session settled and adds no rows, and
\* no step ever removes an alert (append_result and append_alert only append).
LEMMA RowsFrozen ==
  ASSUME TypeOK, StatusInv, [Next]_vars
  PROVE  /\ meta \in TerminalStatuses =>
              meta' \in TerminalStatuses /\ UNCHANGED <<results, alerts>>
         /\ alerts <= alerts'
<1> USE DEF TypeOK, StoreTypeOK, CtrlTypeOK
<1>1. CASE InitMetadata \/ PersistValidated \/ StartMetadata
  BY <1>1 DEF InitMetadata, PersistValidated, StartMetadata, StatusInv,
     OpeningSteps, SettlingSteps
<1>2. CASE SettleMetadata
  BY <1>2 DEF SettleMetadata, PersistMetadata
<1>3. CASE AppendResult \/ AppendAlert
  BY <1>3 DEF AppendResult, AppendAlert, StatusInv, SettlingSteps
<1>4. CASE \E c \in Clients : CancelRequest(c)
  BY <1>4 DEF CancelRequest, storeVars
<1>5. CASE UNCHANGED <<meta, results, alerts, cancelRequested>>
  BY <1>5
<1> QED
  BY <1>1, <1>2, <1>3, <1>4, <1>5, Writers

\* The rows of a settled session never change, not even while a settlement is
\* repeated after a failed write.
THEOREM RowsAreFinal == Spec => SettledRowsAreFinal
<1>1. ASSUME TypeOK, StatusInv, [Next]_vars
      PROVE  [(meta \in TerminalStatuses) => UNCHANGED <<results, alerts>>]_vars
  BY <1>1, RowsFrozen
<1> QED
  BY <1>1, TypeCorrect, StatusInvariant, PTL DEF Spec, SettledRowsAreFinal

\* The durable status leaves the transition table only after a store failure:
\* whatever the source, the detectors and the clients do, a second settlement
\* (finalize_session_outcome, called again by the handlers) needs a failed write.
THEOREM TableHoldsUntilAFault == Spec => OnlyFaultsLeaveTheTable
<1>1. Init => SettlesOnce
  BY DEF Init, SettlesOnce
<1>2. Spec => []SettlesOnce
  BY <1>1, TypeCorrect, StatusInvariant, WorkInvariant, SettlesOnceStep, PTL DEF Spec
<1>3. ASSUME TypeOK, StatusInv, SettlesOnce, [Next]_vars
      PROVE  [(meta \in Statuses /\ ~CanTransition(meta, meta')) => faults > 0]_meta
  <2> SUFFICES ASSUME meta \in Statuses, ~CanTransition(meta, meta'), meta' # meta
               PROVE  faults # 0
    BY <1>3 DEF TypeOK
  <2> USE <1>3 DEF TypeOK, StoreTypeOK, StatusInv, CanTransition, AllowedTransitions,
          OpeningSteps, TerminalStatuses, Statuses, Absent
  <2>1. CASE InitMetadata
    BY <2>1 DEF InitMetadata
  <2>2. CASE PersistValidated
    BY <2>2 DEF PersistValidated, PersistMetadata
  <2>3. CASE StartMetadata
    BY <2>3 DEF StartMetadata, PersistMetadata
  <2>4. CASE SettleMetadata
    BY <2>4 DEF SettleMetadata, PersistMetadata, SettlesOnce, CtrlTypeOK, WorkTypeOK
  <2>5. CASE AppendResult \/ AppendAlert
    BY <2>5 DEF AppendResult, AppendAlert
  <2>6. CASE \E c \in Clients : CancelRequest(c)
    BY <2>6 DEF CancelRequest, storeVars
  <2> QED
    BY <2>1, <2>2, <2>3, <2>4, <2>5, <2>6, Writers
<1> QED
  BY <1>2, <1>3, TypeCorrect, StatusInvariant, PTL DEF Spec, OnlyFaultsLeaveTheTable

\* No step of the worker, a client or the poll breaks SnapInv.
LEMMA SnapStep ==
  ASSUME TypeOK, StatusInv, WorkInv, SnapInv, [Next]_vars
  PROVE  SnapInv'
<1> USE DEF SnapInv, TerminalSnapshotIsComplete, SnapshotBacksItsProgress
<1> USE DEF TypeOK, StoreTypeOK, PollTypeOK, Progress
<1>1. CASE PollStep
  <2> USE DEF WorkInv, storeVars
  <2>1. CASE ReadMetadata
    BY <2>1 DEF ReadMetadata, EmptySnapshot, NoProgress
  <2>2. CASE ReadProgress
    BY <2>2 DEF ReadProgress
  <2>3. CASE ReadAlerts
    BY <2>3 DEF ReadAlerts
  <2>4. CASE ReadResults
    BY <2>4 DEF ReadResults
  <2> QED
    BY <1>1, <2>1, <2>2, <2>3, <2>4 DEF PollStep
<1>2. CASE UNCHANGED pollVars
  <2>1. snap' = snap /\ poll' = poll
    BY <1>2 DEF pollVars
  <2>2. snap.prog.alerts \in Nat /\ alerts \in Nat /\ alerts' \in Nat
    BY TypeStep
  <2>3. (snap.prog.alerts <= alerts)'
    BY <2>1, <2>2, RowsFrozen
  <2> QED
    BY <2>1, <2>3, RowsFrozen
<1> QED
  BY <1>1, <1>2, PollOnlyReads

\* What a poll has read so far is consistent with the store as it now is.
THEOREM SnapInvariant == Spec => []SnapInv
<1>1. Init => SnapInv
  BY DEF Init, SnapInv, TerminalSnapshotIsComplete, SnapshotBacksItsProgress,
     EmptySnapshot, NoProgress, TerminalStatuses, Absent
<1> QED
  BY <1>1, TypeCorrect, StatusInvariant, WorkInvariant, SnapStep, PTL DEF Spec

\* A poll that has seen a terminal status holds every row there will ever be,
\* although it read the artifacts one by one beside a running worker.
THEOREM TerminalSnapshotsAreFinal == Spec => []TerminalSnapshotIsComplete
<1>1. SnapInv => TerminalSnapshotIsComplete
  BY DEF SnapInv
<1> QED
  BY <1>1, SnapInvariant, PTL

\* The alert count of a snapshot's progress never exceeds the alert rows of
\* that snapshot.
THEOREM SnapshotsBackTheirProgress == Spec => []SnapshotBacksItsProgress
<1>1. SnapInv => SnapshotBacksItsProgress
  BY DEF SnapInv
<1> QED
  BY <1>1, SnapInvariant, PTL

-------------------------------------------------------------------------------
(***************************************************************************)
(* The session implements its contract.                                    *)
(***************************************************************************)
\* Every step is a contract step or a stutter of it.
LEMMA ContractStep ==
  ASSUME TypeOK, StatusInv, CancelInv, [Next]_vars
  PROVE  [Contract!Next]_(Contract!vars)
<1> USE DEF TypeOK, StoreTypeOK, WorkTypeOK, CtrlTypeOK, StatusInv, envVars, clientVars
<1> USE DEF OpeningSteps, RunningSteps, LoopSteps, TerminalStatuses, Absent
<1>1. CASE InitMetadata
  <2>1. UNCHANGED meta \/ Contract!Open
    BY <1>1 DEF InitMetadata, PersistMetadata, Contract!Open, Contract!Absent
  <2> QED
    BY <1>1, <2>1 DEF InitMetadata, Contract!Next, Contract!vars
<1>2. CASE PersistValidated
  BY <1>2 DEF PersistValidated, PersistMetadata, Contract!vars
<1>3. CASE StartMetadata
  <2>1. UNCHANGED meta \/ Contract!Move("running")
    BY <1>3 DEF StartMetadata, PersistMetadata, Contract!Move,
       Contract!CanTransition, Contract!AllowedTransitions, Contract!Statuses
  <2> QED
    BY <1>3, <2>1 DEF StartMetadata, Contract!Next, Contract!vars
<1>4. CASE SettleMetadata
  <2>1. UNCHANGED meta \/ Contract!Move(outcome) \/ Contract!Demote
    BY <1>4 DEF SettleMetadata, PersistMetadata, Contract!Move, Contract!Demote,
       Contract!CanTransition, Contract!AllowedTransitions, Contract!Statuses
  <2> QED
    BY <1>4, <2>1 DEF SettleMetadata, Contract!Next, Contract!vars,
       Contract!TerminalStatuses
<1>5. CASE AppendResult \/ AppendAlert
  <2>1. Contract!Publish
    BY <1>5 DEF AppendResult, AppendAlert, Contract!Publish
  <2> QED
    BY <2>1 DEF Contract!Next
<1>6. CASE \E c \in Clients : CancelRequest(c)
  <2>1. Contract!RequestCancel
    BY <1>6 DEF CancelRequest, CancelInv, storeVars, Contract!RequestCancel, Contract!Absent
  <2> QED
    BY <2>1 DEF Contract!Next
<1>7. CASE UNCHANGED <<meta, results, alerts, cancelRequested>>
  BY <1>7 DEF Contract!vars
<1> QED
  BY <1>1, <1>2, <1>3, <1>4, <1>5, <1>6, <1>7, Writers

\* Whatever the mode, the faults and the clients do, readers of the durable
\* state see a SessionContract.
THEOREM ImplementsContract == Spec => KeepsContract
<1>1. Init => Contract!Init
  BY DEF Init, Contract!Init, Absent, Contract!Absent
<1> QED
  BY <1>1, TypeCorrect, StatusInvariant, CancelInvariant, ContractStep,
     PTL DEF Spec, KeepsContract, Contract!Spec

===============================================================================
