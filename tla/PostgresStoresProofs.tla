-------------------------- MODULE PostgresStoresProofs --------------------------
(***************************************************************************)
(* For any number of rows, reads and failures: what a write acknowledged   *)
(* is in the tables, no snapshot reports results it does not carry, and    *)
(* the processes of one runtime agree on the backend.                      *)
(***************************************************************************)
EXTENDS PostgresStores, TLAPS

RowType ==
  [metadata : BOOLEAN, progress : Nat, results : Nat, alerts : Nat, cancel : BOOLEAN]
AllWrites == {"cancel", "metadata", "progress", "result", "alert"}
AllReads  == {"snapshot", "exists", "alerts", "poll"}

StoresTypeOK ==
  /\ store \in [Processes -> [Kinds -> {"none", "file", "postgres"}]]
  /\ pending \in [Processes -> {"none"} \cup AllWrites]
  /\ call \in [Processes -> [op : {"none"} \cup AllWrites \cup AllReads, at : Nat]]
  /\ rows \in RowType /\ acked \in RowType /\ doubtful \in RowType
  /\ snapshot \in RowType

\* A call is at one of its statements; only the API assembles snapshots.
CallsInv ==
  \A p \in Processes :
    /\ call[p].op = "snapshot" => p = "api" /\ call[p].at \in {1, 2, 3}
    /\ call[p].op = "alerts" => call[p].at \in {1, 2}
    /\ call[p].op \notin {"none", "snapshot", "alerts"} => call[p].at = 1

\* The progress row is written with what was acknowledged, so the results it
\* counts were committed before it.
LedgerInv == AcknowledgedIsDurable /\ rows.progress <= rows.results

\* A snapshot under way has no results yet, and what it read as progress is
\* covered by the results it will read last.
SnapInv ==
  /\ SnapshotCarriesItsProgress
  /\ call["api"].op = "snapshot" =>
       /\ snapshot.results = 0
       /\ snapshot.progress <= rows.results
       /\ call["api"].at < 3 => snapshot.progress = 0
       /\ call["api"].at > 1 => store["api"]["session"] = "postgres"

\* A statement that waits for its commit belongs to the call in progress.
PendingInv ==
  \A p \in Processes :
    pending[p] # "none" =>
      call[p].op = pending[p] /\ store[p][KindOf(pending[p])] = "postgres"

StoresInv ==
  /\ StoresTypeOK /\ CallsInv /\ PendingInv
  /\ LedgerInv /\ SnapInv /\ OneBackendPerRuntime

\* The statements of a call, one by one.
LEMMA StatementTable ==
  /\ \A op \in AllWrites : StatementsOf(op)[1] = op
  /\ StatementsOf("exists")[1] = "select exists"
  /\ StatementsOf("poll")[1] = "select cancel"
  /\ StatementsOf("alerts")[1] = "select exists"
  /\ StatementsOf("alerts")[2] = "select alerts"
  /\ StatementsOf("snapshot")[1] = "select metadata"
  /\ StatementsOf("snapshot")[2] = "select progress"
  /\ StatementsOf("snapshot")[3] = "select results"
  /\ Len(StatementsOf("snapshot")) = 3
  /\ Len(StatementsOf("alerts")) = 2
  /\ \A op \in {"exists", "poll"} : Len(StatementsOf(op)) = 1
<1>1. ASSUME NEW op \in AllWrites
      PROVE  StatementsOf(op)[1] = op
  <2>1. StatementsOf(op) = <<op>>
    BY <1>1 DEF StatementsOf, AllWrites
  <2> QED
    BY <2>1
<1>2. /\ StatementsOf("exists")[1] = "select exists"
      /\ StatementsOf("poll")[1] = "select cancel"
  BY DEF StatementsOf
<1>3. /\ StatementsOf("alerts")[1] = "select exists"
      /\ StatementsOf("alerts")[2] = "select alerts"
  BY DEF StatementsOf
<1>4. /\ StatementsOf("snapshot")[1] = "select metadata"
      /\ StatementsOf("snapshot")[2] = "select progress"
      /\ StatementsOf("snapshot")[3] = "select results"
      /\ Len(StatementsOf("snapshot")) = 3
  BY DEF StatementsOf
<1>5. Len(StatementsOf("alerts")) = 2
  BY DEF StatementsOf
<1>6. Len(StatementsOf("exists")) = 1 /\ Len(StatementsOf("poll")) = 1
  BY DEF StatementsOf
<1> QED
  BY <1>1, <1>2, <1>3, <1>4, <1>5, <1>6

\* The statement a call is at.
LEMMA StatementOfCall ==
  ASSUME StoresInv, NEW p \in Processes, Calling(p)
  PROVE  /\ KindOf(Statement(p)) \in Kinds
         /\ call[p].op \in AllWrites => Statement(p) = call[p].op
         /\ call[p].op # "snapshot" =>
              Statement(p) \notin {"select metadata", "select progress", "select results"}
         /\ call[p].op = "snapshot" =>
              /\ call[p].at = 1 => Statement(p) = "select metadata"
              /\ call[p].at = 2 => Statement(p) = "select progress"
              /\ call[p].at = 3 => Statement(p) = "select results"
              /\ KindOf(Statement(p)) = "session"
              /\ Len(StatementsOf(call[p].op)) = 3
         /\ call[p].op = "alerts" => Len(StatementsOf(call[p].op)) = 2
         /\ call[p].op \in {"exists", "poll"} => Len(StatementsOf(call[p].op)) = 1
<1> DEFINE op == call[p].op
           at == call[p].at
<1>1. /\ op \in AllWrites \cup AllReads
      /\ op = "snapshot" => at \in {1, 2, 3}
      /\ op = "alerts" => at \in {1, 2}
      /\ op \notin {"none", "snapshot", "alerts"} => at = 1
  BY DEF StoresInv, StoresTypeOK, CallsInv, Calling
<1>2. Statement(p) = StatementsOf(op)[at]
  BY DEF Statement
<1>3. /\ op \in AllWrites => Statement(p) = op
      /\ op = "exists" => Statement(p) = "select exists"
      /\ op = "poll" => Statement(p) = "select cancel"
      /\ op = "alerts" => Statement(p) \in {"select exists", "select alerts"}
      /\ op = "snapshot" =>
           /\ at = 1 => Statement(p) = "select metadata"
           /\ at = 2 => Statement(p) = "select progress"
           /\ at = 3 => Statement(p) = "select results"
           /\ Len(StatementsOf(op)) = 3
      /\ op = "alerts" => Len(StatementsOf(op)) = 2
      /\ op \in {"exists", "poll"} => Len(StatementsOf(op)) = 1
  <2> HIDE DEF op, at
  <2> QED
    BY <1>1, <1>2, StatementTable DEF AllWrites
<1>4. op = "snapshot" => Statement(p) \in {"select metadata", "select progress", "select results"}
  BY <1>1, <1>3
<1> QED
  BY <1>1, <1>3, <1>4 DEF KindOf, Kinds, AllWrites, AllReads

\* The store a call needs, which is that of its statement once it is selected.
LEMMA NeededStore ==
  ASSUME StoresInv, NEW p \in Processes, Calling(p)
  PROVE  /\ NeededKind(p) \in Kinds
         /\ call[p].op = "snapshot" => NeededKind(p) = "session"
         /\ call[p].op # "alerts" => NeededKind(p) = KindOf(Statement(p))
         /\ store[p][NeededKind(p)] # "none" => NeededKind(p) = KindOf(Statement(p))
BY StatementOfCall DEF NeededKind, Kinds

\* Which process makes which calls.
LEMMA CallsOfProcess ==
  ASSUME NEW p \in Processes
  PROVE  /\ Writes[p] \subseteq AllWrites
         /\ Reads[p] \subseteq AllReads
         /\ "snapshot" \in Writes[p] \cup Reads[p] => p = "api"
         /\ "snapshot" \notin Writes[p] /\ "alerts" \notin Writes[p]
BY DEF Processes, Writes, Reads, AllWrites, AllReads

-----------------------------------------------------------------------------
\* A process that ends its call, successfully or not.
LEMMA EndedCallIsTyped ==
  ASSUME StoresInv, NEW p \in Processes, EndCall(p)
  PROVE  /\ call' \in [Processes -> [op : {"none"} \cup AllWrites \cup AllReads, at : Nat]]
         /\ CallsInv'
         /\ call'[p].op = "none"
         /\ \A q \in Processes : q # p => call'[q] = call[q]
<1>1. NoCall \in [op : {"none"} \cup AllWrites \cup AllReads, at : Nat]
  BY DEF NoCall
<1>2. /\ call' = [call EXCEPT ![p] = NoCall]
      /\ call \in [Processes -> [op : {"none"} \cup AllWrites \cup AllReads, at : Nat]]
  BY DEF EndCall, StoresInv, StoresTypeOK
<1>3. /\ call'[p] = NoCall
      /\ \A q \in Processes : q # p => call'[q] = call[q]
  BY <1>2
<1>4. CallsInv'
  BY <1>3 DEF CallsInv, StoresInv, NoCall
<1> QED
  BY <1>1, <1>2, <1>3, <1>4 DEF NoCall

\* The snapshot survives every step that leaves it alone, and leaves the call
\* that assembles it alone as well.
LEMMA SnapKept ==
  ASSUME StoresInv, UNCHANGED snapshot,
         \/ call'["api"] = call["api"]
         \/ call["api"].op # "snapshot" /\ call'["api"].op # "snapshot",
         rows'.results \in Nat, rows.results <= rows'.results,
         store["api"]["session"] = "postgres" => store'["api"]["session"] = "postgres"
  PROVE  SnapInv'
<1>1. /\ snapshot.progress \in Nat /\ snapshot.results \in Nat /\ rows.results \in Nat
      /\ call["api"].op = "snapshot" => Calling("api")
  BY DEF StoresInv, StoresTypeOK, RowType, Calling
<1>2. CASE call'["api"].op # "snapshot" /\ call["api"].op # "snapshot"
  BY <1>1, <1>2 DEF StoresInv, SnapInv, SnapshotCarriesItsProgress
<1>3. CASE call'["api"] = call["api"] /\ call["api"].op = "snapshot"
  <2>1. Calling("api")'
    BY <1>3 DEF Calling
  <2> QED
    BY <1>1, <1>3, <2>1 DEF StoresInv, SnapInv, SnapshotCarriesItsProgress
<1> QED
  BY <1>2, <1>3

\* A call that raises takes its snapshot with it.
LEMMA SnapRaised ==
  ASSUME StoresInv, NEW p \in Processes, RaiseCall(p), UNCHANGED <<rows, store>>
  PROVE  /\ SnapInv'
         /\ snapshot' \in RowType
<1>1. /\ call'[p].op = "none"
      /\ \A q \in Processes : q # p => call'[q] = call[q]
  BY EndedCallIsTyped DEF RaiseCall
<1>2. CASE call[p].op = "snapshot"
  <2>1. p = "api" /\ snapshot' = NoRows
    BY <1>2 DEF RaiseCall, StoresInv, CallsInv
  <2> QED
    BY <1>1, <2>1 DEF SnapInv, SnapshotCarriesItsProgress, NoRows, RowType
<1>3. CASE call[p].op # "snapshot"
  <2>1. UNCHANGED snapshot /\ snapshot \in RowType /\ rows.results \in Nat
    BY <1>3 DEF RaiseCall, StoresInv, StoresTypeOK, RowType
  <2>2. \/ call'["api"] = call["api"]
        \/ call["api"].op # "snapshot" /\ call'["api"].op # "snapshot"
    BY <1>1, <1>3 DEF Processes
  <2> QED
    BY <2>1, <2>2, SnapKept
<1> QED
  BY <1>2, <1>3

\* Calls of a file store have no statements: no snapshot has begun.
LEMMA SnapUnstarted ==
  ASSUME StoresInv, NEW p \in Processes, Calling(p), EndCall(p),
         store[p][NeededKind(p)] # "postgres",
         UNCHANGED <<rows, snapshot>>,
         store["api"]["session"] = "postgres" => store'["api"]["session"] = "postgres"
  PROVE  SnapInv'
<1>1. /\ call'[p].op = "none"
      /\ \A q \in Processes : q # p => call'[q] = call[q]
  BY EndedCallIsTyped
<1>2. CASE call[p].op = "snapshot"
  <2>1. p = "api" /\ store["api"]["session"] # "postgres" /\ call["api"].at \in {1, 2, 3}
    BY <1>2, NeededStore DEF StoresInv, CallsInv
  <2>2. snapshot.progress = 0 /\ snapshot.results = 0
    BY <1>2, <2>1 DEF StoresInv, SnapInv
  <2> QED
    BY <1>1, <2>1, <2>2 DEF SnapInv, SnapshotCarriesItsProgress
<1>3. CASE call[p].op # "snapshot"
  <2>1. rows.results \in Nat
    BY DEF StoresInv, StoresTypeOK, RowType
  <2>2. \/ call'["api"] = call["api"]
        \/ call["api"].op # "snapshot" /\ call'["api"].op # "snapshot"
    BY <1>1, <1>3 DEF Processes
  <2> QED
    BY <2>1, <2>2, SnapKept
<1> QED
  BY <1>2, <1>3

\* What waits for its commit is kept where another process steps, and the
\* process that steps has nothing left to commit.
LEMMA PendingKept ==
  ASSUME StoresInv, NEW p \in Processes, pending'[p] = "none",
         \A q \in Processes : q # p =>
           pending'[q] = pending[q] /\ call'[q] = call[q] /\ store'[q] = store[q]
  PROVE  PendingInv'
BY DEF StoresInv, PendingInv

\* A process with a statement to commit has its store.
LEMMA NothingPending ==
  ASSUME StoresInv, NEW p \in Processes,
         ~Calling(p) \/ store[p][NeededKind(p)] # "postgres"
  PROVE  pending[p] = "none"
<1> SUFFICES ASSUME pending[p] # "none" PROVE FALSE
  OBVIOUS
<1>1. /\ pending[p] \in AllWrites
      /\ call[p].op = pending[p]
      /\ store[p][KindOf(pending[p])] = "postgres"
  BY DEF StoresInv, StoresTypeOK, PendingInv
<1>2. Calling(p) /\ Statement(p) = pending[p]
  BY <1>1, StatementOfCall DEF Calling, AllWrites
<1>3. NeededKind(p) = KindOf(Statement(p))
  BY <1>1, <1>2, NeededStore DEF AllWrites
<1> QED
  BY <1>1, <1>2, <1>3

\* The ledger where no row changes.
LEMMA LedgerKept ==
  ASSUME StoresInv, UNCHANGED <<rows, acked, doubtful>>
  PROVE  LedgerInv'
BY DEF StoresInv, LedgerInv, AcknowledgedIsDurable

\* The backends where no store and no environment changes.
LEMMA BackendsKept ==
  ASSUME StoresInv, UNCHANGED <<selected, store>>
  PROVE  OneBackendPerRuntime'
BY DEF StoresInv, OneBackendPerRuntime, Backend

LEMMA BeginInv ==
  ASSUME StoresInv, NEW p \in Processes, NEW op \in Writes[p] \cup Reads[p], Begin(p, op)
  PROVE  StoresInv'
<1>1. /\ op \in AllWrites \cup AllReads
      /\ op = "snapshot" => p = "api"
  BY CallsOfProcess
<1>2. /\ ~Calling(p)
      /\ call' = [call EXCEPT ![p] = [op |-> op, at |-> 1]]
      /\ snapshot' = IF op = "snapshot" THEN NoRows ELSE snapshot
      /\ UNCHANGED <<selected, store, pending, rows, acked, doubtful>>
  BY DEF Begin, envVars
<1>3. /\ call'[p] = [op |-> op, at |-> 1]
      /\ \A q \in Processes : q # p => call'[q] = call[q]
  BY <1>2 DEF StoresInv, StoresTypeOK
<1>4. StoresTypeOK'
  <2>1. [op |-> op, at |-> 1] \in [op : {"none"} \cup AllWrites \cup AllReads, at : Nat]
    BY <1>1
  <2>2. call' \in [Processes -> [op : {"none"} \cup AllWrites \cup AllReads, at : Nat]]
    BY <2>1, <1>2 DEF StoresInv, StoresTypeOK
  <2>3. snapshot' \in RowType
    BY <1>2 DEF StoresInv, StoresTypeOK, NoRows, RowType
  <2> QED
    BY <2>2, <2>3, <1>2 DEF StoresInv, StoresTypeOK
<1>5. CallsInv'
  BY <1>1, <1>3 DEF StoresInv, CallsInv
<1>6. PendingInv'
  BY <1>2, <1>3, NothingPending, PendingKept
<1>7. SnapInv'
  <2>1. CASE op = "snapshot"
    <3>1. snapshot' = NoRows /\ call'["api"] = [op |-> "snapshot", at |-> 1]
      BY <2>1, <1>1, <1>2, <1>3
    <3>2. Calling("api")' /\ rows'.results \in Nat
      BY <3>1, <1>2 DEF Calling, StoresInv, StoresTypeOK, RowType
    <3> QED
      BY <3>1, <3>2 DEF SnapInv, SnapshotCarriesItsProgress, NoRows
  <2>2. CASE op # "snapshot"
    <3>1. /\ UNCHANGED snapshot
          /\ rows'.results \in Nat /\ rows.results <= rows'.results
      BY <2>2, <1>2 DEF StoresInv, StoresTypeOK, RowType
    <3>2. \/ call'["api"] = call["api"]
          \/ call["api"].op # "snapshot" /\ call'["api"].op # "snapshot"
      BY <2>2, <1>2, <1>3 DEF Processes, Calling
    <3> QED
      BY <1>2, <3>1, <3>2, SnapKept
  <2> QED
    BY <2>1, <2>2
<1>8. LedgerInv' /\ OneBackendPerRuntime'
  BY <1>2, LedgerKept, BackendsKept
<1> QED
  BY <1>4, <1>5, <1>6, <1>7, <1>8 DEF StoresInv

\* A call that goes from one store to the next.
LEMMA NextStoreInv ==
  ASSUME StoresInv, NEW p \in Processes, CallFile(p), ~EndCall(p)
  PROVE  StoresInv'
<1>1. /\ call[p].op = "alerts" /\ call[p].at = 1
      /\ call' = [call EXCEPT ![p].at = 2]
      /\ store[p][NeededKind(p)] # "postgres"
      /\ UNCHANGED <<selected, store, pending, rows, snapshot, acked, doubtful>>
  BY DEF CallFile, envVars, historyVars
<1>2. /\ call' \in [Processes -> [op : {"none"} \cup AllWrites \cup AllReads, at : Nat]]
      /\ call'[p] = [op |-> "alerts", at |-> 2]
      /\ \A q \in Processes : q # p => call'[q] = call[q]
  <2>1. call \in [Processes -> [op : {"none"} \cup AllWrites \cup AllReads, at : Nat]]
    BY DEF StoresInv, StoresTypeOK
  <2> QED
    BY <1>1, <2>1
<1>3. CallsInv'
  BY <1>2 DEF StoresInv, CallsInv
<1>4. PendingInv'
  <2>1. pending[p] = "none"
    BY <1>1, NothingPending
  <2> QED
    BY <1>1, <1>2, <2>1, PendingKept
<1>5. SnapInv'
  <2>1. rows'.results \in Nat /\ rows.results <= rows'.results
    BY <1>1 DEF StoresInv, StoresTypeOK, RowType
  <2>2. \/ call'["api"] = call["api"]
        \/ call["api"].op # "snapshot" /\ call'["api"].op # "snapshot"
    BY <1>1, <1>2 DEF Processes
  <2> QED
    BY <1>1, <2>1, <2>2, SnapKept
<1>6. StoresTypeOK'
  BY <1>1, <1>2 DEF StoresInv, StoresTypeOK
<1> QED
  BY <1>1, <1>3, <1>4, <1>5, <1>6, LedgerKept, BackendsKept DEF StoresInv

\* A file store's answer, whether or not the call is over with it.
LEMMA CallFileInv ==
  ASSUME StoresInv, NEW p \in Processes, CallFile(p)
  PROVE  StoresInv'
<1>1. /\ Calling(p)
      /\ store[p][NeededKind(p)] # "postgres"
      /\ UNCHANGED <<selected, store, pending, rows, snapshot, acked, doubtful>>
  BY DEF CallFile, envVars, historyVars
<1>2. CASE EndCall(p)
  <2>1. SnapInv'
    BY <1>1, <1>2, SnapUnstarted
  <2>2. PendingInv'
    <3>1. pending[p] = "none"
      BY <1>1, NothingPending
    <3> QED
      BY <1>1, <1>2, <3>1, EndedCallIsTyped, PendingKept
  <2>3. StoresTypeOK' /\ CallsInv'
    BY <1>1, <1>2, EndedCallIsTyped DEF StoresInv, StoresTypeOK
  <2> QED
    BY <1>1, <2>1, <2>2, <2>3, LedgerKept, BackendsKept DEF StoresInv
<1>3. CASE ~EndCall(p)
  BY <1>3, NextStoreInv
<1> QED
  BY <1>2, <1>3

\* A store that is selected and cached, whichever it is.
LEMMA ResolveInv ==
  ASSUME StoresInv, NEW p \in Processes, ResolvePostgres(p) \/ ResolveFile(p)
  PROVE  StoresInv'
<1> DEFINE k == NeededKind(p)
<1>1. /\ Calling(p) /\ store[p][k] = "none"
      /\ Backend(k) \in {"file", "postgres"}
      /\ store' = [store EXCEPT ![p][k] = Backend(k)]
      /\ UNCHANGED <<selected, pending, call, rows, snapshot, acked, doubtful>>
  BY DEF ResolvePostgres, ResolveFile, Unresolved, envVars, historyVars
<1>2. k \in Kinds
  BY <1>1, NeededStore
<1>3. pending[p] = "none"
  BY <1>1, NothingPending
<1> HIDE DEF k
<1>4. /\ store' \in [Processes -> [Kinds -> {"none", "file", "postgres"}]]
      /\ \A q \in Processes : q # p => store'[q] = store[q]
      /\ \A q \in Processes, j \in Kinds :
           store'[q][j] = store[q][j] \/ store'[q][j] = Backend(j)
      /\ \A q \in Processes, j \in Kinds :
           store[q][j] = "postgres" => store'[q][j] = "postgres"
  BY <1>1, <1>2 DEF StoresInv, StoresTypeOK
<1>5. OneBackendPerRuntime'
  BY <1>1, <1>4 DEF StoresInv, OneBackendPerRuntime, Backend
<1>6. SnapInv'
  <2>1. rows'.results \in Nat /\ rows.results <= rows'.results
    BY <1>1 DEF StoresInv, StoresTypeOK, RowType
  <2>2. store["api"]["session"] = "postgres" => store'["api"]["session"] = "postgres"
    BY <1>4 DEF Processes, Kinds
  <2> QED
    BY <1>1, <2>1, <2>2, SnapKept
<1>7. PendingInv'
  BY <1>1, <1>3, <1>4, PendingKept
<1>8. StoresTypeOK' /\ CallsInv'
  BY <1>1, <1>4 DEF StoresInv, StoresTypeOK, CallsInv
<1> QED
  BY <1>1, <1>5, <1>6, <1>7, <1>8, LedgerKept DEF StoresInv

\* A call that raises, whatever made it raise.
LEMMA RaiseInv ==
  ASSUME StoresInv, NEW p \in Processes,
         ResolveFails(p) \/ StatementFails(p) \/ ConnectionRefuses(p)
  PROVE  StoresInv'
<1>1. /\ RaiseCall(p) /\ EndCall(p) /\ pending[p] = "none"
      /\ UNCHANGED <<selected, store, pending, rows, acked, doubtful>>
  <2>1. CASE ResolveFails(p)
    BY <2>1, NothingPending DEF ResolveFails, BootstrapFails, Unresolved, RaiseCall, envVars
  <2>2. CASE StatementFails(p)
    BY <2>2 DEF StatementFails, Usable, RaiseCall, envVars
  <2>3. CASE ConnectionRefuses(p)
    BY <2>3 DEF ConnectionRefuses, Usable, RaiseCall, envVars, historyVars
  <2> QED
    BY <2>1, <2>2, <2>3
<1>2. SnapInv' /\ snapshot' \in RowType
  BY <1>1, SnapRaised
<1>3. PendingInv'
  BY <1>1, EndedCallIsTyped, PendingKept
<1>4. StoresTypeOK' /\ CallsInv'
  BY <1>1, <1>2, EndedCallIsTyped DEF StoresInv, StoresTypeOK
<1> QED
  BY <1>1, <1>2, <1>3, <1>4, LedgerKept, BackendsKept DEF StoresInv

LEMMA ExecuteWriteInv ==
  ASSUME StoresInv, NEW p \in Processes, ExecuteWrite(p)
  PROVE  StoresInv'
<1>1. /\ Calling(p) /\ store[p][KindOf(Statement(p))] = "postgres"
      /\ call[p].op \in AllWrites
      /\ pending' = [pending EXCEPT ![p] = Statement(p)]
      /\ UNCHANGED <<selected, store, call, rows, snapshot, acked, doubtful>>
  <2>1. Calling(p) /\ store[p][NeededKind(p)] = "postgres"
    BY DEF ExecuteWrite, Usable
  <2>2. store[p][KindOf(Statement(p))] = "postgres"
    BY <2>1, NeededStore
  <2> QED
    BY <2>1, <2>2, CallsOfProcess DEF ExecuteWrite, Usable, envVars, historyVars
<1>2. Statement(p) = call[p].op
  BY <1>1, StatementOfCall
<1>3. /\ pending'[p] = call[p].op
      /\ \A q \in Processes : q # p => pending'[q] = pending[q]
      /\ pending' \in [Processes -> {"none"} \cup AllWrites]
  BY <1>1, <1>2 DEF StoresInv, StoresTypeOK
<1>4. PendingInv'
  BY <1>1, <1>2, <1>3 DEF StoresInv, PendingInv
<1>5. SnapInv'
  <2>1. rows'.results \in Nat /\ rows.results <= rows'.results
    BY <1>1 DEF StoresInv, StoresTypeOK, RowType
  <2> QED
    BY <1>1, <2>1, SnapKept
<1>6. StoresTypeOK' /\ CallsInv'
  BY <1>1, <1>3 DEF StoresInv, StoresTypeOK, CallsInv
<1> QED
  BY <1>1, <1>4, <1>5, <1>6, LedgerKept, BackendsKept DEF StoresInv

\* A write at its commit: the call it belongs to and what it does to rows.
LEMMA CommittedWrite ==
  ASSUME StoresInv, NEW p \in Processes, pending[p] # "none"
  PROVE  /\ Calling(p) /\ call[p].op = pending[p] /\ pending[p] \in AllWrites
         /\ Statement(p) = pending[p]
         /\ \A r \in RowType : Applied(r, pending[p]) \in RowType
         /\ rows.results <= Applied(rows, pending[p]).results
<1>1. /\ pending[p] \in AllWrites
      /\ call[p].op = pending[p]
      /\ Calling(p)
  BY DEF StoresInv, StoresTypeOK, PendingInv, Calling
<1>2. Statement(p) = pending[p]
  BY <1>1, StatementOfCall
<1>3. acked.results \in Nat /\ rows \in RowType
  BY DEF StoresInv, StoresTypeOK, RowType
<1>4. ASSUME NEW r \in RowType
      PROVE  Applied(r, pending[p]) \in RowType
  <2>1. Applied(r, "metadata") \in RowType
    <3>1. Applied(r, "metadata") = [r EXCEPT !.metadata = TRUE]
      BY DEF Applied
    <3> QED
      BY <3>1, <1>4 DEF RowType
  <2>2. Applied(r, "progress") \in RowType
    <3>1. Applied(r, "progress") = [r EXCEPT !.progress = acked.results]
      BY DEF Applied
    <3> QED
      BY <3>1, <1>3, <1>4 DEF RowType
  <2>3. Applied(r, "result") \in RowType
    <3>1. Applied(r, "result") = [r EXCEPT !.results = @ + 1]
      BY DEF Applied
    <3> QED
      BY <3>1, <1>4 DEF RowType
  <2>4. Applied(r, "alert") \in RowType
    <3>1. Applied(r, "alert") = [r EXCEPT !.alerts = @ + 1]
      BY DEF Applied
    <3> QED
      BY <3>1, <1>4 DEF RowType
  <2>5. Applied(r, "cancel") \in RowType
    <3>1. Applied(r, "cancel") = [r EXCEPT !.cancel = TRUE]
      BY DEF Applied
    <3> QED
      BY <3>1, <1>4 DEF RowType
  <2> QED
    BY <2>1, <2>2, <2>3, <2>4, <2>5, <1>1 DEF AllWrites
<1>5. rows.results <= Applied(rows, pending[p]).results
  <2>1. CASE pending[p] = "result"
    <3>1. Applied(rows, "result") = [rows EXCEPT !.results = @ + 1]
      BY DEF Applied
    <3> QED
      BY <2>1, <3>1, <1>3 DEF RowType
  <2>2. CASE pending[p] # "result"
    <3>1. Applied(rows, pending[p]).results = rows.results
      BY <2>2, <1>1, <1>3 DEF AllWrites, Applied, RowType
    <3> QED
      BY <3>1, <1>3 DEF RowType
  <2> QED
    BY <2>1, <2>2
<1> QED
  BY <1>1, <1>2, <1>4, <1>5

\* The end of a write, committed or lost with its connection.
LEMMA EndedWriteInv ==
  ASSUME StoresInv, NEW p \in Processes, pending[p] # "none", EndCall(p),
         pending' = [pending EXCEPT ![p] = "none"],
         rows' \in RowType, acked' \in RowType, doubtful' \in RowType,
         rows.results <= rows'.results, LedgerInv',
         UNCHANGED <<selected, store, snapshot>>
  PROVE  StoresInv'
<1>1. /\ pending'[p] = "none"
      /\ \A q \in Processes : q # p => pending'[q] = pending[q]
      /\ pending' \in [Processes -> {"none"} \cup AllWrites]
  BY DEF StoresInv, StoresTypeOK
<1>2. PendingInv'
  BY <1>1, EndedCallIsTyped, PendingKept
<1>3. SnapInv'
  <2>1. call[p].op # "snapshot" /\ call'[p].op = "none"
    BY CommittedWrite, EndedCallIsTyped DEF AllWrites
  <2>2. \/ call'["api"] = call["api"]
        \/ call["api"].op # "snapshot" /\ call'["api"].op # "snapshot"
    BY <2>1, EndedCallIsTyped DEF Processes
  <2>3. rows'.results \in Nat
    BY DEF RowType
  <2> QED
    BY <2>2, <2>3, SnapKept
<1>4. StoresTypeOK' /\ CallsInv'
  BY <1>1, EndedCallIsTyped DEF StoresInv, StoresTypeOK
<1> QED
  BY <1>2, <1>3, <1>4, BackendsKept DEF StoresInv

LEMMA CommitInv ==
  ASSUME StoresInv, NEW p \in Processes, Commit(p)
  PROVE  StoresInv'
<1>1. /\ pending[p] # "none" /\ EndCall(p)
      /\ pending' = [pending EXCEPT ![p] = "none"]
      /\ acked' = Applied(acked, pending[p])
      /\ rows' = Applied(rows, pending[p])
      /\ UNCHANGED <<selected, store, snapshot, doubtful>>
  BY DEF Commit, envVars
<1>2. /\ pending[p] \in AllWrites
      /\ rows \in RowType /\ acked \in RowType /\ doubtful \in RowType
  BY <1>1 DEF StoresInv, StoresTypeOK
<1>3. /\ rows' \in RowType /\ acked' \in RowType /\ doubtful' \in RowType
      /\ rows.results <= rows'.results
  BY <1>1, <1>2, CommittedWrite
<1>4. LedgerInv'
  BY <1>1, <1>2
     DEF StoresInv, LedgerInv, AcknowledgedIsDurable, Applied, AllWrites, RowType
<1> QED
  BY <1>1, <1>3, <1>4, EndedWriteInv

LEMMA CommitLostInv ==
  ASSUME StoresInv, NEW p \in Processes, CommitLost(p)
  PROVE  StoresInv'
<1>1. /\ pending[p] # "none" /\ EndCall(p)
      /\ pending' = [pending EXCEPT ![p] = "none"]
      /\ \/ /\ rows' = Applied(rows, pending[p])
            /\ doubtful' = Applied(doubtful, pending[p])
         \/ UNCHANGED <<rows, doubtful>>
      /\ UNCHANGED <<selected, store, snapshot, acked>>
  BY DEF CommitLost, envVars
<1>2. /\ pending[p] \in AllWrites
      /\ rows \in RowType /\ acked \in RowType /\ doubtful \in RowType
  BY <1>1 DEF StoresInv, StoresTypeOK
<1>3. CASE UNCHANGED <<rows, doubtful>>
  <2>1. rows.results <= rows'.results
    BY <1>2, <1>3 DEF RowType
  <2> QED
    BY <1>1, <1>2, <1>3, <2>1, LedgerKept, EndedWriteInv
<1>4. CASE /\ rows' = Applied(rows, pending[p])
           /\ doubtful' = Applied(doubtful, pending[p])
  <2>1. /\ rows' \in RowType /\ doubtful' \in RowType
        /\ rows.results <= rows'.results
    BY <1>1, <1>2, <1>4, CommittedWrite
  <2>2. LedgerInv'
    BY <1>1, <1>2, <1>4
       DEF StoresInv, LedgerInv, AcknowledgedIsDurable, Applied, AllWrites, RowType
  <2> QED
    BY <1>1, <1>2, <2>1, <2>2, EndedWriteInv
<1> QED
  BY <1>1, <1>3, <1>4

\* A statement of a snapshot, or of another read.
LEMMA ExecuteReadInv ==
  ASSUME StoresInv, NEW p \in Processes, ExecuteRead(p)
  PROVE  StoresInv'
<1> DEFINE op == call[p].op
           last == call[p].at = Len(StatementsOf(op)) \/ Missing(Statement(p))
<1>1. /\ Calling(p) /\ store[p][KindOf(Statement(p))] = "postgres"
      /\ op \in AllReads /\ pending[p] = "none"
      /\ snapshot' = Seen(Statement(p))
      /\ last => EndCall(p)
      /\ ~last => call' = [call EXCEPT ![p].at = @ + 1]
      /\ UNCHANGED <<selected, store, pending, rows, acked, doubtful>>
  <2>1. Calling(p) /\ store[p][NeededKind(p)] = "postgres"
    BY DEF ExecuteRead, Usable
  <2>2. store[p][KindOf(Statement(p))] = "postgres"
    BY <2>1, NeededStore
  <2> QED
    BY <2>1, <2>2, CallsOfProcess DEF ExecuteRead, Usable, envVars, historyVars
<1>2. /\ call \in [Processes -> [op : {"none"} \cup AllWrites \cup AllReads, at : Nat]]
      /\ rows \in RowType /\ snapshot \in RowType
  BY DEF StoresInv, StoresTypeOK
<1>3. ~last => /\ op \in {"snapshot", "alerts"}
               /\ op = "snapshot" => call[p].at \in {1, 2}
               /\ op = "alerts" => call[p].at = 1
  BY <1>1, StatementOfCall DEF StoresInv, CallsInv, AllReads
<1>4. /\ ~last => /\ call'[p] = [op |-> op, at |-> call[p].at + 1]
                  /\ call' \in [Processes -> [op : {"none"} \cup AllWrites \cup AllReads, at : Nat]]
      /\ last => call'[p].op = "none"
      /\ \A q \in Processes : q # p => call'[q] = call[q]
  <2>1. CASE last
    BY <1>1, <2>1, EndedCallIsTyped
  <2>2. CASE ~last
    <3>1. call' = [call EXCEPT ![p].at = @ + 1]
      BY <1>1, <2>2
    <3> QED
      BY <1>2, <2>2, <3>1
  <2> QED
    BY <2>1, <2>2
<1>5. CallsInv'
  <2>1. CASE last
    BY <1>1, <2>1, EndedCallIsTyped
  <2>2. CASE ~last
    <3>1. /\ call'[p].op \in {"snapshot", "alerts"}
          /\ call'[p].op = "snapshot" => p = "api" /\ call'[p].at \in {2, 3}
          /\ call'[p].op = "alerts" => call'[p].at = 2
      BY <2>2, <1>3, <1>4 DEF StoresInv, CallsInv
    <3> QED
      BY <3>1, <1>4 DEF StoresInv, CallsInv
  <2> QED
    BY <2>1, <2>2
<1>6. snapshot' \in RowType
  BY <1>1, <1>2 DEF Seen, RowType
<1>7. StoresTypeOK'
  BY <1>1, <1>2, <1>4, <1>6, EndedCallIsTyped DEF StoresInv, StoresTypeOK
<1>8. PendingInv'
  BY <1>1, <1>4, PendingKept
<1>9. SnapInv'
  <2>1. CASE op # "snapshot"
    <3>1. UNCHANGED snapshot
      BY <2>1, <1>1, StatementOfCall DEF Seen
    <3>2. \/ call'["api"] = call["api"]
          \/ call["api"].op # "snapshot" /\ call'["api"].op # "snapshot"
      BY <2>1, <1>4 DEF Processes
    <3>3. rows'.results \in Nat /\ rows.results <= rows'.results
      BY <1>1, <1>2 DEF RowType
    <3> QED
      BY <1>1, <3>1, <3>2, <3>3, SnapKept
  <2>2. CASE op = "snapshot"
    <3>1. /\ p = "api"
          /\ call["api"].at \in {1, 2, 3}
          /\ store["api"]["session"] = "postgres"
          /\ snapshot.results = 0 /\ snapshot.progress <= rows.results
          /\ call["api"].at < 3 => snapshot.progress = 0
          /\ rows.progress <= rows.results
      BY <2>2, <1>1, StatementOfCall
         DEF StoresInv, CallsInv, SnapInv, LedgerInv
    <3>2. CASE call["api"].at = 1
      <4>1. Statement(p) = "select metadata"
        BY <2>2, <3>1, <3>2, <1>1, StatementOfCall
      <4>2. snapshot'.progress = 0 /\ snapshot'.results = 0
        <5>1. snapshot' = [snapshot EXCEPT !.metadata = rows.metadata]
          BY <4>1, <1>1 DEF Seen
        <5>2. snapshot.progress = 0 /\ snapshot.results = 0
          BY <3>1, <3>2
        <5> QED
          BY <5>1, <5>2, <1>2 DEF RowType
      <4>3. rows'.results \in Nat /\ store'["api"]["session"] = "postgres"
        BY <1>1, <1>2, <3>1 DEF RowType
      <4> QED
        BY <4>2, <4>3 DEF SnapInv, SnapshotCarriesItsProgress
    <3>3. CASE call["api"].at = 2
      <4>1. Statement(p) = "select progress" /\ Len(StatementsOf(op)) = 3
        BY <2>2, <3>1, <3>3, <1>1, StatementOfCall
      <4>2. ~last
        <5>1. call[p].at = 2 /\ Len(StatementsOf(op)) = 3
          BY <4>1, <3>1, <3>3
        <5>2. ~Missing(Statement(p))
          BY <4>1 DEF Missing
        <5> QED
          BY <5>1, <5>2
      <4>3. call'["api"] = [op |-> "snapshot", at |-> 3]
        BY <4>2, <3>1, <3>3, <1>4, <2>2
      <4>4. /\ snapshot'.progress = rows.progress /\ snapshot'.results = 0
            /\ UNCHANGED <<rows, store>>
        BY <4>1, <3>1, <1>1, <1>2 DEF Seen, RowType
      <4>5. Calling("api")'
        BY <4>3 DEF Calling
      <4> QED
        BY <4>3, <4>4, <4>5, <3>1 DEF SnapInv, SnapshotCarriesItsProgress
    <3>4. CASE call["api"].at = 3
      <4>1. Statement(p) = "select results" /\ Len(StatementsOf(op)) = 3
        BY <2>2, <3>1, <3>4, <1>1, StatementOfCall
      <4>2. call'["api"].op = "none"
        BY <4>1, <3>1, <3>4, <1>4
      <4>3. snapshot'.progress = snapshot.progress /\ snapshot'.results = rows.results
        BY <4>1, <3>1, <1>1, <1>2 DEF Seen, RowType
      <4> QED
        BY <4>2, <4>3, <3>1 DEF SnapInv, SnapshotCarriesItsProgress
    <3> QED
      BY <3>1, <3>2, <3>3, <3>4
  <2> QED
    BY <2>1, <2>2
<1> QED
  BY <1>1, <1>5, <1>7, <1>8, <1>9, LedgerKept, BackendsKept DEF StoresInv

LEMMA ConnectionLostInv ==
  ASSUME StoresInv,
         UNCHANGED <<selected, store, pending, call, rows, snapshot, acked, doubtful>>
  PROVE  StoresInv'
<1>1. rows'.results \in Nat /\ rows.results <= rows'.results
  BY DEF StoresInv, StoresTypeOK, RowType
<1>2. SnapInv'
  BY <1>1, SnapKept
<1> QED
  BY <1>2, LedgerKept, BackendsKept
     DEF StoresInv, StoresTypeOK, CallsInv, PendingInv

LEMMA WorkerDiesInv ==
  ASSUME StoresInv, WorkerDies
  PROVE  StoresInv'
<1>1. /\ store' = [store EXCEPT !["worker"] = [k \in Kinds |-> "none"]]
      /\ pending' = [pending EXCEPT !["worker"] = "none"]
      /\ call' = [call EXCEPT !["worker"] = NoCall]
      /\ UNCHANGED <<selected, rows, snapshot, acked, doubtful>>
  BY DEF WorkerDies, envVars
<1>2. "worker" \in Processes /\ EndCall("worker")
  BY <1>1 DEF Processes, EndCall
<1>3. /\ store' \in [Processes -> [Kinds -> {"none", "file", "postgres"}]]
      /\ store'["worker"] = [k \in Kinds |-> "none"]
      /\ \A q \in Processes : q # "worker" => store'[q] = store[q]
  BY <1>1, <1>2 DEF StoresInv, StoresTypeOK
<1>4. /\ pending' \in [Processes -> {"none"} \cup AllWrites]
      /\ pending'["worker"] = "none"
      /\ \A q \in Processes : q # "worker" => pending'[q] = pending[q]
  BY <1>1, <1>2 DEF StoresInv, StoresTypeOK
<1>5. PendingInv'
  BY <1>2, <1>3, <1>4, EndedCallIsTyped, PendingKept
<1>6. OneBackendPerRuntime'
  BY <1>1, <1>3 DEF StoresInv, OneBackendPerRuntime, Backend
<1>7. SnapInv'
  <2>1. rows'.results \in Nat /\ rows.results <= rows'.results
    BY <1>1 DEF StoresInv, StoresTypeOK, RowType
  <2>2. call'["api"] = call["api"] /\ store'["api"] = store["api"]
    BY <1>2, <1>3, EndedCallIsTyped DEF Processes
  <2> QED
    BY <1>1, <2>1, <2>2, SnapKept
<1>8. StoresTypeOK' /\ CallsInv'
  BY <1>1, <1>2, <1>3, <1>4, EndedCallIsTyped DEF StoresInv, StoresTypeOK
<1> QED
  BY <1>1, <1>5, <1>6, <1>7, <1>8, LedgerKept DEF StoresInv

-----------------------------------------------------------------------------
\* The invariant holds initially and in every step.
THEOREM StoresInvariant == StoresSpec => []StoresInv
<1>1. StoresInit => StoresInv
  <2> SUFFICES ASSUME StoresInit PROVE StoresInv
    OBVIOUS
  <2> USE DEF StoresInit
  <2>1. StoresTypeOK
    BY DEF StoresTypeOK, NoCall, NoRows, RowType
  <2>2. CallsInv /\ PendingInv
    BY DEF CallsInv, PendingInv, NoCall
  <2>3. LedgerInv
    BY DEF LedgerInv, AcknowledgedIsDurable, NoRows
  <2>4. SnapInv
    BY DEF SnapInv, SnapshotCarriesItsProgress, NoRows, NoCall, Processes
  <2>5. OneBackendPerRuntime
    BY DEF OneBackendPerRuntime
  <2> QED
    BY <2>1, <2>2, <2>3, <2>4, <2>5 DEF StoresInv
<1>2. StoresInv /\ [StoresNext]_storeVars => StoresInv'
  <2> SUFFICES ASSUME StoresInv, [StoresNext]_storeVars PROVE StoresInv'
    OBVIOUS
  <2>1. ASSUME NEW p \in Processes, NEW op \in Writes[p] \cup Reads[p], Begin(p, op)
        PROVE  StoresInv'
    BY <2>1, BeginInv
  <2>2. ASSUME NEW p \in Processes, CallFile(p)
        PROVE  StoresInv'
    BY <2>2, CallFileInv
  <2>3. ASSUME NEW p \in Processes, ResolvePostgres(p) \/ ResolveFile(p)
        PROVE  StoresInv'
    BY <2>3, ResolveInv
  <2>4. ASSUME NEW p \in Processes,
               ResolveFails(p) \/ StatementFails(p) \/ ConnectionRefuses(p)
        PROVE  StoresInv'
    BY <2>4, RaiseInv
  <2>5. ASSUME NEW p \in Processes, ExecuteWrite(p)
        PROVE  StoresInv'
    BY <2>5, ExecuteWriteInv
  <2>6. ASSUME NEW p \in Processes, Commit(p)
        PROVE  StoresInv'
    BY <2>6, CommitInv
  <2>7. ASSUME NEW p \in Processes, CommitLost(p)
        PROVE  StoresInv'
    BY <2>7, CommitLostInv
  <2>8. ASSUME NEW p \in Processes, ExecuteRead(p)
        PROVE  StoresInv'
    BY <2>8, ExecuteReadInv
  <2>9. ASSUME NEW p \in Processes, NEW k \in Kinds, ConnectionLost(p, k)
        PROVE  StoresInv'
    BY <2>9, ConnectionLostInv DEF ConnectionLost, envVars
  <2>10. CASE WorkerDies
    BY <2>10, WorkerDiesInv
  <2>11. CASE UNCHANGED storeVars
    BY <2>11, ConnectionLostInv DEF storeVars, envVars, historyVars
  <2> QED
    BY <2>1, <2>2, <2>3, <2>4, <2>5, <2>6, <2>7, <2>8, <2>9, <2>10, <2>11
       DEF StoresNext
<1> QED
  BY <1>1, <1>2, PTL DEF StoresSpec

\* What a write acknowledged is in the tables, whatever fails afterwards, and
\* what raised is not there unless its commit was under way.
THEOREM AcknowledgedWritesStay == StoresSpec => []AcknowledgedIsDurable
<1>1. StoresInv => AcknowledgedIsDurable
  BY DEF StoresInv, LedgerInv
<1> QED
  BY <1>1, StoresInvariant, PTL

\* A snapshot put together from three statements of different moments never
\* reports more results than it carries.
THEOREM SnapshotsAddUp == StoresSpec => []SnapshotCarriesItsProgress
<1>1. StoresInv => SnapshotCarriesItsProgress
  BY DEF StoresInv, SnapInv
<1> QED
  BY <1>1, StoresInvariant, PTL

\* The API process and the worker never cache different backends for the
\* same kind of store, whatever fails while they are built.
THEOREM BackendsAgree == StoresSpec => []OneBackendPerRuntime
<1>1. StoresInv => OneBackendPerRuntime
  BY DEF StoresInv
<1> QED
  BY <1>1, StoresInvariant, PTL

=============================================================================
