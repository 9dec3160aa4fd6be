--------------------------- MODULE ApiBoundaryProofs ---------------------------
(***************************************************************************)
(* The budgets of the API, for every window and ceiling with room for      *)
(* twice the start guard: starts alone cannot exhaust the session-control  *)
(* budget.  A control window overlaps at most two windows of the start     *)
(* guard: one that opened before it and has spent a start outside it, and  *)
(* one that opened inside it.                                              *)
(*                                                                         *)
(* What the limiter promises then holds of the whole boundary: whatever    *)
(* the server was launched with and whoever calls, requests charge the     *)
(* budgets by steps of RateLimits and nothing else does.  And what the     *)
(* launch promises holds while it serves: the settings it validated are    *)
(* the ones the requests meet, because they are resolved once.             *)
(*                                                                         *)
(* Behind the boundary a source becomes slices (SourceIntake): whatever    *)
(* files there are, however long, and however the folder changes, the      *)
(* slices tile the videos.                                                 *)
(***************************************************************************)
EXTENDS ApiBoundary, SourceIntake, InductionLemmas

\* The starts admitted in the control window of s.
Starts(s) == counters["control"][s].count - cancels[s]

\* What the start guard leaves for a control window, by where its own window
\* lies: older than the control window, or inside it.
GuardBounds(s) ==
  LET a == counters["start"][s]
      c == counters["control"][s]
  IN  /\ c.count = 0 => cancels[s] = 0
      /\ cancels[s] <= c.count
      /\ a.count = 0 => Starts(s) = 0
      /\ a.count > 0 /\ c.count > 0 /\ a.start < c.start
           => Starts(s) <= a.count - 1
      /\ a.count > 0 /\ c.count > 0 /\ a.start >= c.start
           => /\ Starts(s) <= StartMax - 1 + a.count
              /\ a.start < c.start + Window

BudgetInv == BudgetTypeOK /\ \A s \in Subjects : GuardBounds(s)

LEMMA CeilingType ==
  /\ Ceiling \in [Budgets -> Nat]
  /\ \A b \in Budgets : Ceiling[b] >= 1
  /\ Ceiling["start"] = StartMax
  /\ Ceiling["control"] = ControlMax
BY BudgetAssumption, SMT DEF Ceiling, Budgets

\* What one charge does to one counter, in the terms the steps below need.
LEMMA IncrementBounds ==
  ASSUME BudgetTypeOK, NEW b \in Budgets, NEW s \in Subjects, ~Refuses(b, s),
         NEW d, d = Increment(counters[b][s])
  PROVE  /\ d \in [start : Nat, count : Nat]
         /\ d.start <= now
         /\ d.count >= 1 /\ d.count <= Ceiling[b]
         /\ NewWindow(counters[b][s]) => d.start = now /\ d.count = 1
         /\ ~NewWindow(counters[b][s]) =>
              /\ d.start = counters[b][s].start
              /\ d.count = counters[b][s].count + 1
<1> DEFINE c == counters[b][s]
<1>1. /\ c \in [start : Nat, count : Nat] /\ now \in Nat
      /\ c.start <= now /\ c.count <= Ceiling[b]
  BY DEF BudgetTypeOK
<1>2. Ceiling[b] \in Nat /\ Ceiling[b] >= 1
  BY CeilingType
<1>3. CASE NewWindow(c)
  <2>1. d = [start |-> now, count |-> 1]
    BY <1>3 DEF Increment
  <2> QED
    BY <1>1, <1>2, <1>3, <2>1
<1>4. CASE ~NewWindow(c)
  <2>1. d = [c EXCEPT !.count = c.count + 1]
    BY <1>4 DEF Increment
  <2>2. c.count < Ceiling[b]
    BY <1>1, <1>2, <1>4 DEF Refuses
  <2>3. d = [start |-> c.start, count |-> c.count + 1]
    BY <1>1, <2>1
  <2> QED
    BY <1>1, <1>2, <1>4, <2>2, <2>3
<1> QED
  BY <1>3, <1>4

\* The budgets a request leaves alone keep their counters.
LEMMA OthersUntouched ==
  ASSUME NEW s \in Subjects, NEW t \in Subjects, s # t, BudgetTypeOK,
         Charge(s)
  PROVE  /\ \A b \in Budgets : counters'[b][t] = counters[b][t]
         /\ cancels'[t] = cancels[t]
<1>1. /\ counters \in [Budgets -> [Subjects -> [start : Nat, count : Nat]]]
      /\ cancels \in [Subjects -> Nat]
  BY DEF BudgetTypeOK
<1>2. CASE ChargeStart(s)
  BY <1>1, <1>2 DEF ChargeStart, Budgets
<1>3. CASE ChargeGuardOnly(s)
  BY <1>1, <1>3 DEF ChargeGuardOnly, Budgets
<1>4. CASE RefuseStart(s)
  BY <1>4 DEF RefuseStart
<1>5. CASE ChargeCancel(s)
  BY <1>1, <1>5 DEF ChargeCancel, Budgets
<1>6. ASSUME NEW b \in {"playback", "alerts"}, ChargeRead(b, s)
      PROVE  /\ \A e \in Budgets : counters'[e][t] = counters[e][t]
             /\ cancels'[t] = cancels[t]
  BY <1>1, <1>6 DEF ChargeRead, Budgets
<1>7. ASSUME NEW b \in {"control", "playback", "alerts"},
             RefuseCancelOrRead(b, s)
      PROVE  /\ \A e \in Budgets : counters'[e][t] = counters[e][t]
             /\ cancels'[t] = cancels[t]
  BY <1>7 DEF RefuseCancelOrRead
<1> QED
  BY <1>2, <1>3, <1>4, <1>5, <1>6, <1>7 DEF Charge

\* A start counted by both budgets: one more start in the control window, in
\* a guard window that still had room for it.
LEMMA StartKeepsBounds ==
  ASSUME BudgetInv, NEW s \in Subjects, ChargeStart(s), UNCHANGED now
  PROVE  GuardBounds(s)'
<1> DEFINE a == counters["start"][s]
           c == counters["control"][s]
           aa == Increment(a)
           cc == Increment(c)
<1>1. /\ a \in [start : Nat, count : Nat] /\ c \in [start : Nat, count : Nat]
      /\ now \in Nat /\ cancels[s] \in Nat
      /\ a.start <= now /\ c.start <= now
      /\ a.count <= StartMax
      /\ StartMax \in Nat \ {0} /\ Window \in Nat \ {0}
  BY CeilingType, BudgetAssumption DEF BudgetInv, BudgetTypeOK, Budgets
<1>2. /\ ~Refuses("start", s) /\ ~Refuses("control", s)
      /\ cancels' = [cancels EXCEPT ![s] = CancelsAfter(s, 0)]
  BY DEF ChargeStart
<1>3. counters'["start"][s] = aa /\ counters'["control"][s] = cc
  BY DEF ChargeStart, BudgetInv, BudgetTypeOK, Budgets
<1>4. cancels'[s] = IF NewWindow(c) THEN 0 ELSE cancels[s]
  BY <1>1, <1>2 DEF CancelsAfter, BudgetInv, BudgetTypeOK
<1>5. /\ aa \in [start : Nat, count : Nat] /\ aa.count >= 1
      /\ NewWindow(a) => aa.start = now /\ aa.count = 1
      /\ ~NewWindow(a) => aa.start = a.start /\ aa.count = a.count + 1
  BY <1>2, IncrementBounds DEF BudgetInv, Budgets
<1>6. /\ cc \in [start : Nat, count : Nat] /\ cc.count >= 1
      /\ NewWindow(c) => cc.start = now /\ cc.count = 1
      /\ ~NewWindow(c) => cc.start = c.start /\ cc.count = c.count + 1
  BY <1>2, IncrementBounds DEF BudgetInv, Budgets
<1>7. /\ NewWindow(a) <=> a.count = 0 \/ now - a.start >= Window
      /\ NewWindow(c) <=> c.count = 0 \/ now - c.start >= Window
  BY DEF NewWindow
<1>8. /\ c.count = 0 => cancels[s] = 0
      /\ cancels[s] <= c.count
      /\ a.count = 0 => c.count - cancels[s] = 0
      /\ a.count > 0 /\ c.count > 0 /\ a.start < c.start
           => c.count - cancels[s] <= a.count - 1
      /\ a.count > 0 /\ c.count > 0 /\ a.start >= c.start
           => /\ c.count - cancels[s] <= StartMax - 1 + a.count
              /\ a.start < c.start + Window
  BY DEF BudgetInv, GuardBounds, Starts
<1> HIDE DEF a, c, aa, cc
<1>9. /\ cc.count = 0 => cancels'[s] = 0
      /\ cancels'[s] <= cc.count
      /\ aa.count = 0 => cc.count - cancels'[s] = 0
      /\ aa.count > 0 /\ cc.count > 0 /\ aa.start < cc.start
           => cc.count - cancels'[s] <= aa.count - 1
      /\ aa.count > 0 /\ cc.count > 0 /\ aa.start >= cc.start
           => /\ cc.count - cancels'[s] <= StartMax - 1 + aa.count
              /\ aa.start < cc.start + Window
  <2>1. CASE NewWindow(c)
    BY <1>1, <1>4, <1>5, <1>6, <1>7, <2>1
  <2>2. CASE ~NewWindow(c) /\ NewWindow(a)
    BY <1>1, <1>4, <1>5, <1>6, <1>7, <1>8, <2>2
  <2>3. CASE ~NewWindow(c) /\ ~NewWindow(a)
    BY <1>1, <1>4, <1>5, <1>6, <1>7, <1>8, <2>3
  <2> QED
    BY <2>1, <2>2, <2>3
<1> QED
  BY <1>3, <1>9 DEF GuardBounds, Starts

\* A start the control budget refuses is counted by the guard alone, in a
\* control window that is still open.
LEMMA RefusedStartKeepsBounds ==
  ASSUME BudgetInv, NEW s \in Subjects, ChargeGuardOnly(s), UNCHANGED now
  PROVE  GuardBounds(s)'
<1> DEFINE a == counters["start"][s]
           c == counters["control"][s]
           aa == Increment(a)
<1>1. /\ a \in [start : Nat, count : Nat] /\ c \in [start : Nat, count : Nat]
      /\ now \in Nat /\ cancels[s] \in Nat
      /\ a.start <= now /\ c.start <= now
      /\ a.count <= StartMax
      /\ StartMax \in Nat \ {0} /\ Window \in Nat \ {0}
  BY CeilingType, BudgetAssumption DEF BudgetInv, BudgetTypeOK, Budgets
<1>2. /\ ~Refuses("start", s) /\ ~NewWindow(c) /\ cancels' = cancels
  BY DEF ChargeGuardOnly, Refuses
<1>3. counters'["start"][s] = aa /\ counters'["control"][s] = c
  BY DEF ChargeGuardOnly, BudgetInv, BudgetTypeOK, Budgets
<1>4. /\ aa \in [start : Nat, count : Nat] /\ aa.count >= 1
      /\ NewWindow(a) => aa.start = now /\ aa.count = 1
      /\ ~NewWindow(a) => aa.start = a.start /\ aa.count = a.count + 1
  BY <1>2, IncrementBounds DEF BudgetInv, Budgets
<1>5. /\ NewWindow(a) <=> a.count = 0 \/ now - a.start >= Window
      /\ NewWindow(c) <=> c.count = 0 \/ now - c.start >= Window
  BY DEF NewWindow
<1>6. /\ c.count = 0 => cancels[s] = 0
      /\ cancels[s] <= c.count
      /\ a.count = 0 => c.count - cancels[s] = 0
      /\ a.count > 0 /\ c.count > 0 /\ a.start < c.start
           => c.count - cancels[s] <= a.count - 1
      /\ a.count > 0 /\ c.count > 0 /\ a.start >= c.start
           => /\ c.count - cancels[s] <= StartMax - 1 + a.count
              /\ a.start < c.start + Window
  BY DEF BudgetInv, GuardBounds, Starts
<1> HIDE DEF a, c, aa
<1>7. /\ aa.count > 0 /\ c.count > 0 /\ aa.start < c.start
           => c.count - cancels[s] <= aa.count - 1
      /\ aa.count > 0 /\ c.count > 0 /\ aa.start >= c.start
           => /\ c.count - cancels[s] <= StartMax - 1 + aa.count
              /\ aa.start < c.start + Window
  <2>1. CASE NewWindow(a)
    BY <1>1, <1>2, <1>4, <1>5, <1>6, <2>1
  <2>2. CASE ~NewWindow(a)
    BY <1>1, <1>2, <1>4, <1>5, <1>6, <2>2
  <2> QED
    BY <2>1, <2>2
<1>8. aa.count \in Nat /\ aa.count # 0
  BY <1>4
<1> QED
  BY <1>2, <1>3, <1>6, <1>7, <1>8 DEF GuardBounds, Starts

\* A cancel is no start: a control window it opens holds none.
LEMMA CancelKeepsBounds ==
  ASSUME BudgetInv, NEW s \in Subjects, ChargeCancel(s), UNCHANGED now
  PROVE  GuardBounds(s)'
<1> DEFINE a == counters["start"][s]
           c == counters["control"][s]
           cc == Increment(c)
<1>1. /\ a \in [start : Nat, count : Nat] /\ c \in [start : Nat, count : Nat]
      /\ now \in Nat /\ cancels[s] \in Nat
      /\ a.start <= now /\ c.start <= now
      /\ StartMax \in Nat \ {0} /\ Window \in Nat \ {0}
  BY BudgetAssumption DEF BudgetInv, BudgetTypeOK, Budgets
<1>2. /\ ~Refuses("control", s)
      /\ cancels' = [cancels EXCEPT ![s] = CancelsAfter(s, 1)]
  BY DEF ChargeCancel
<1>3. counters'["start"][s] = a /\ counters'["control"][s] = cc
  BY DEF ChargeCancel, BudgetInv, BudgetTypeOK, Budgets
<1>4. cancels'[s] = IF NewWindow(c) THEN 1 ELSE cancels[s] + 1
  BY <1>1, <1>2 DEF CancelsAfter, BudgetInv, BudgetTypeOK
<1>5. /\ cc \in [start : Nat, count : Nat] /\ cc.count >= 1
      /\ NewWindow(c) => cc.start = now /\ cc.count = 1
      /\ ~NewWindow(c) => cc.start = c.start /\ cc.count = c.count + 1
  BY <1>2, IncrementBounds DEF BudgetInv, Budgets
<1>6. NewWindow(c) <=> c.count = 0 \/ now - c.start >= Window
  BY DEF NewWindow
<1>7. /\ c.count = 0 => cancels[s] = 0
      /\ cancels[s] <= c.count
      /\ a.count = 0 => c.count - cancels[s] = 0
      /\ a.count > 0 /\ c.count > 0 /\ a.start < c.start
           => c.count - cancels[s] <= a.count - 1
      /\ a.count > 0 /\ c.count > 0 /\ a.start >= c.start
           => /\ c.count - cancels[s] <= StartMax - 1 + a.count
              /\ a.start < c.start + Window
  BY DEF BudgetInv, GuardBounds, Starts
<1> HIDE DEF a, c, cc
<1>8. /\ cc.count = 0 => cancels'[s] = 0
      /\ cancels'[s] <= cc.count
      /\ a.count = 0 => cc.count - cancels'[s] = 0
      /\ a.count > 0 /\ cc.count > 0 /\ a.start < cc.start
           => cc.count - cancels'[s] <= a.count - 1
      /\ a.count > 0 /\ cc.count > 0 /\ a.start >= cc.start
           => /\ cc.count - cancels'[s] <= StartMax - 1 + a.count
              /\ a.start < cc.start + Window
  <2>1. CASE NewWindow(c)
    BY <1>1, <1>4, <1>5, <2>1
  <2>2. CASE ~NewWindow(c)
    BY <1>1, <1>4, <1>5, <1>6, <1>7, <2>2
  <2> QED
    BY <2>1, <2>2
<1> QED
  BY <1>3, <1>8 DEF GuardBounds, Starts

\* Every charge keeps the shape of the counters and their ceilings.
LEMMA ChargeKeepsType ==
  ASSUME BudgetInv, NEW s \in Subjects, Charge(s), UNCHANGED now
  PROVE  BudgetTypeOK'
<1>1. /\ now \in Nat
      /\ counters \in [Budgets -> [Subjects -> [start : Nat, count : Nat]]]
      /\ cancels \in [Subjects -> Nat]
      /\ \A b \in Budgets, t \in Subjects :
           counters[b][t].start <= now /\ counters[b][t].count <= Ceiling[b]
  BY DEF BudgetInv, BudgetTypeOK
<1>2. \A n \in {0, 1} : CancelsAfter(s, n) \in Nat
  BY <1>1 DEF CancelsAfter
<1> DEFINE D(b) == Increment(counters[b][s])
<1>3. \A b \in Budgets : ~Refuses(b, s) =>
        /\ D(b) \in [start : Nat, count : Nat]
        /\ D(b).start <= now /\ D(b).count <= Ceiling[b]
  BY IncrementBounds DEF BudgetInv
<1> HIDE DEF D
<1>4. ASSUME NEW b \in Budgets, NEW old \in [Budgets -> [Subjects -> [start : Nat, count : Nat]]],
             NEW d \in [start : Nat, count : Nat],
             d.start <= now, d.count <= Ceiling[b],
             \A e \in Budgets, t \in Subjects :
               old[e][t].start <= now /\ old[e][t].count <= Ceiling[e]
      PROVE  LET new == [old EXCEPT ![b][s] = d]
             IN  /\ new \in [Budgets -> [Subjects -> [start : Nat, count : Nat]]]
                 /\ \A e \in Budgets, t \in Subjects :
                      new[e][t].start <= now /\ new[e][t].count <= Ceiling[e]
  BY <1>4
<1>5. CASE ChargeStart(s)
  <2> DEFINE mid == [counters EXCEPT !["start"][s] = D("start")]
  <2>1. counters' = [mid EXCEPT !["control"][s] = D("control")]
    BY <1>1, <1>5 DEF ChargeStart, Budgets, D
  <2>2. /\ mid \in [Budgets -> [Subjects -> [start : Nat, count : Nat]]]
        /\ \A e \in Budgets, t \in Subjects :
             mid[e][t].start <= now /\ mid[e][t].count <= Ceiling[e]
    <3>1. "start" \in Budgets /\ ~Refuses("start", s)
      BY <1>5 DEF ChargeStart, Budgets
    <3> QED
      BY <1>1, <1>3, <1>4, <3>1
  <2>3. "control" \in Budgets /\ ~Refuses("control", s)
    BY <1>5 DEF ChargeStart, Budgets
  <2> HIDE DEF mid
  <2>4. /\ counters' \in [Budgets -> [Subjects -> [start : Nat, count : Nat]]]
        /\ \A e \in Budgets, t \in Subjects :
             counters'[e][t].start <= now /\ counters'[e][t].count <= Ceiling[e]
    BY <1>3, <1>4, <2>1, <2>2, <2>3
  <2>5. cancels' \in [Subjects -> Nat]
    BY <1>1, <1>2, <1>5 DEF ChargeStart
  <2> QED
    BY <1>1, <2>4, <2>5 DEF BudgetTypeOK
<1>6. CASE ChargeGuardOnly(s)
  <2>1. /\ counters' = [counters EXCEPT !["start"][s] = D("start")]
        /\ cancels' = cancels
        /\ "start" \in Budgets /\ ~Refuses("start", s)
    BY <1>6 DEF ChargeGuardOnly, Budgets, D
  <2>2. /\ counters' \in [Budgets -> [Subjects -> [start : Nat, count : Nat]]]
        /\ \A e \in Budgets, t \in Subjects :
             counters'[e][t].start <= now /\ counters'[e][t].count <= Ceiling[e]
    BY <1>1, <1>3, <1>4, <2>1
  <2> QED
    BY <1>1, <2>1, <2>2 DEF BudgetTypeOK
<1>7. CASE ChargeCancel(s)
  <2>1. /\ counters' = [counters EXCEPT !["control"][s] = D("control")]
        /\ cancels' \in [Subjects -> Nat]
        /\ "control" \in Budgets /\ ~Refuses("control", s)
    BY <1>1, <1>2, <1>7 DEF ChargeCancel, Budgets, D
  <2>2. /\ counters' \in [Budgets -> [Subjects -> [start : Nat, count : Nat]]]
        /\ \A e \in Budgets, t \in Subjects :
             counters'[e][t].start <= now /\ counters'[e][t].count <= Ceiling[e]
    BY <1>1, <1>3, <1>4, <2>1
  <2> QED
    BY <1>1, <2>1, <2>2 DEF BudgetTypeOK
<1>8. ASSUME NEW b \in {"playback", "alerts"}, ChargeRead(b, s)
      PROVE  BudgetTypeOK'
  <2>1. /\ counters' = [counters EXCEPT ![b][s] = D(b)]
        /\ cancels' = cancels
        /\ b \in Budgets /\ ~Refuses(b, s)
    BY <1>8 DEF ChargeRead, Budgets, D
  <2>2. /\ counters' \in [Budgets -> [Subjects -> [start : Nat, count : Nat]]]
        /\ \A e \in Budgets, t \in Subjects :
             counters'[e][t].start <= now /\ counters'[e][t].count <= Ceiling[e]
    BY <1>1, <1>3, <1>4, <2>1
  <2> QED
    BY <1>1, <2>1, <2>2 DEF BudgetTypeOK
<1>9. CASE \/ RefuseStart(s)
           \/ \E b \in {"control", "playback", "alerts"} :
                RefuseCancelOrRead(b, s)
  <2>1. UNCHANGED <<counters, cancels>>
    BY <1>9 DEF RefuseStart, RefuseCancelOrRead
  <2> QED
    BY <1>1, <2>1 DEF BudgetTypeOK
<1> QED
  BY <1>5, <1>6, <1>7, <1>8, <1>9 DEF Charge

\* The guard's bounds of the caller that sent the request.
LEMMA ChargeKeepsBounds ==
  ASSUME BudgetInv, NEW s \in Subjects, Charge(s), UNCHANGED now
  PROVE  GuardBounds(s)'
<1>1. BudgetTypeOK /\ GuardBounds(s)
  BY DEF BudgetInv
<1>2. ASSUME UNCHANGED <<counters["start"][s], counters["control"][s], cancels[s]>>
      PROVE  GuardBounds(s)'
  BY <1>1, <1>2 DEF GuardBounds, Starts
<1>3. ASSUME NEW b \in {"playback", "alerts"}, ChargeRead(b, s)
      PROVE  GuardBounds(s)'
  <2>1. UNCHANGED <<counters["start"][s], counters["control"][s], cancels[s]>>
    BY <1>1, <1>3 DEF ChargeRead, BudgetTypeOK, Budgets
  <2> QED
    BY <1>2, <2>1
<1>4. CASE \/ RefuseStart(s)
           \/ \E b \in {"control", "playback", "alerts"} :
                RefuseCancelOrRead(b, s)
  BY <1>2, <1>4 DEF RefuseStart, RefuseCancelOrRead
<1> QED
  BY <1>3, <1>4, StartKeepsBounds, RefusedStartKeepsBounds, CancelKeepsBounds
     DEF Charge

\* Time passing only takes a request further from its window.
LEMMA TickKeepsInv ==
  ASSUME BudgetInv, Tick
  PROVE  BudgetInv'
<1>1. /\ now \in Nat /\ now' = now + 1 /\ counters' = counters
      /\ cancels' = cancels
  BY DEF BudgetInv, BudgetTypeOK, Tick
<1>2. BudgetTypeOK'
  BY <1>1 DEF BudgetInv, BudgetTypeOK
<1>3. \A s \in Subjects : GuardBounds(s)'
  BY <1>1 DEF BudgetInv, GuardBounds, Starts
<1> QED
  BY <1>2, <1>3 DEF BudgetInv

\* The initial limiter has no counter, and every step keeps the invariant.
THEOREM BudgetInvariant == BudgetSpec => []BudgetInv
<1>1. BudgetInit => BudgetInv
  <2> SUFFICES ASSUME BudgetInit PROVE BudgetInv
    OBVIOUS
  <2>1. BudgetTypeOK
    BY CeilingType DEF BudgetInit, BudgetTypeOK, NoCounter, Budgets
  <2>2. ASSUME NEW s \in Subjects
        PROVE  GuardBounds(s)
    <3>1. /\ counters["start"][s].count = 0 /\ counters["control"][s].count = 0
          /\ cancels[s] = 0
      BY DEF BudgetInit, NoCounter, Budgets
    <3> QED
      BY <3>1 DEF GuardBounds, Starts
  <2> QED
    BY <2>1, <2>2 DEF BudgetInv
<1>2. BudgetInv /\ [BudgetNext]_budgetVars => BudgetInv'
  <2> SUFFICES ASSUME BudgetInv, [BudgetNext]_budgetVars PROVE BudgetInv'
    OBVIOUS
  <2>1. CASE Tick
    BY <2>1, TickKeepsInv
  <2>2. ASSUME NEW s \in Subjects, Charge(s), UNCHANGED now
        PROVE  BudgetInv'
    <3>1. BudgetTypeOK'
      BY <2>2, ChargeKeepsType
    <3>2. ASSUME NEW t \in Subjects, t # s
          PROVE  GuardBounds(t)'
      <4>1. UNCHANGED <<counters["start"][t], counters["control"][t], cancels[t]>>
        BY <2>2, <3>2, OthersUntouched DEF BudgetInv, Budgets
      <4> QED
        BY <4>1 DEF BudgetInv, GuardBounds, Starts
    <3>3. GuardBounds(s)'
      BY <2>2, ChargeKeepsBounds
    <3> QED
      BY <3>1, <3>2, <3>3 DEF BudgetInv
  <2>3. CASE UNCHANGED budgetVars
    BY <2>3 DEF budgetVars, BudgetInv, BudgetTypeOK, GuardBounds, Starts
  <2> QED
    BY <2>1, <2>2, <2>3 DEF BudgetNext
<1> QED
  BY <1>1, <1>2, PTL DEF BudgetSpec

\* The limiter's counters stay within their windows and ceilings, for every
\* window length and every ceiling (check_and_increment).
THEOREM BudgetsAreTyped == BudgetSpec => []BudgetTypeOK
<1>1. BudgetInv => BudgetTypeOK
  BY DEF BudgetInv
<1> QED
  BY <1>1, BudgetInvariant, PTL

\* The route policy's promise: with a start guard of at most half the control
\* budget, starts never use up what a cancel needs.
THEOREM StartsLeaveRoomToCancel == BudgetSpec => []StartsSpareCancellation
<1>1. BudgetInv => StartsSpareCancellation
  <2> SUFFICES ASSUME BudgetInv, NEW s \in Subjects, Refuses("control", s)
               PROVE  cancels[s] > 0
    BY DEF StartsSpareCancellation
  <2>1. /\ counters["control"][s].count \in Nat
        /\ counters["start"][s].count \in Nat
        /\ counters["control"][s].start \in Nat
        /\ counters["start"][s].start \in Nat
        /\ counters["start"][s].count <= StartMax
        /\ cancels[s] \in Nat
    BY CeilingType DEF BudgetInv, BudgetTypeOK, Budgets
  <2>2. counters["control"][s].count >= 2 * StartMax
    BY <2>1, CeilingType, BudgetAssumption DEF Refuses
  <2>3. StartMax \in Nat \ {0}
    BY BudgetAssumption
  <2>4. Starts(s) <= 2 * StartMax - 1
    BY <2>1, <2>3 DEF BudgetInv, GuardBounds, Starts
  <2> QED
    BY <2>1, <2>2, <2>3, <2>4 DEF Starts
<1> QED
  BY <1>1, BudgetInvariant, PTL

-----------------------------------------------------------------------------
\* A request charges the budgets of one caller, or none.
LEMMA RequestCharges ==
  ASSUME NEW route \in Routes, NEW body, NEW key, NEW host \in Hosts,
         Request(route, body, key, host)
  PROVE  [BudgetNext]_budgetVars
<1> DEFINE s == SubjectOf(key, host)
<1>1. s \in Subjects
  BY SubjectAssumption DEF SubjectOf
<1>2. UNCHANGED now
  BY DEF Request
<1>3. CASE UNCHANGED <<counters, cancels>>
  BY <1>2, <1>3 DEF budgetVars
<1>4. CASE Budgeted(route, body, key, s)
  <2>1. Charge(s)
    BY <1>4 DEF Budgeted, Charge
  <2> QED
    BY <1>1, <1>2, <2>1 DEF BudgetNext
<1> QED
  BY <1>3, <1>4 DEF Request

\* The boundary implements the limiter: no launch, setting or refusal touches
\* a counter, and time passes for all of them alike (enforce_http_rate_limit
\* is the only caller of check_and_increment).
THEOREM BoundaryKeepsBudgets == BoundarySpec => BudgetSpec
<1>1. BoundaryInit => BudgetInit
  BY DEF BoundaryInit
<1>2. [BoundaryNext]_boundaryVars => [BudgetNext]_budgetVars
  <2> SUFFICES ASSUME [BoundaryNext]_boundaryVars
               PROVE  [BudgetNext]_budgetVars
    OBVIOUS
  <2>1. ASSUME NEW mode \in {"local", "share"}, NEW host \in HostClasses,
               NEW key \in ManualKeys, RunCli(mode, host, key)
        PROVE  UNCHANGED budgetVars
    BY <2>1 DEF RunCli
  <2>2. CASE AnnounceCli
    BY <2>2 DEF AnnounceCli
  <2>3. ASSUME NEW host \in HostClasses, RunUvicorn(host)
        PROVE  UNCHANGED budgetVars
    BY <2>3 DEF RunUvicorn
  <2>4. CASE Lifespan
    BY <2>4 DEF Lifespan
  <2>5. CASE BoundaryTick
    BY <2>5 DEF BoundaryTick, BudgetNext
  <2>6. CASE UNCHANGED boundaryVars
    BY <2>6 DEF boundaryVars
  <2> QED
    BY <2>1, <2>2, <2>3, <2>4, <2>5, <2>6, RequestCharges DEF BoundaryNext
<1> QED
  BY <1>1, <1>2, PTL DEF BoundarySpec, BudgetSpec

\* A cancel is refused only to a caller that has cancelled in that window,
\* through every launch and request of the API.
THEOREM BoundarySparesCancellation == BoundarySpec => []StartsSpareCancellation
BY BoundaryKeepsBudgets, StartsLeaveRoomToCancel, PTL

\* The budgets stay typed through every launch and request of the API.
THEOREM BoundaryBudgetsAreTyped == BoundarySpec => []BudgetTypeOK
BY BoundaryKeepsBudgets, BudgetsAreTyped, PTL

-----------------------------------------------------------------------------
\* What the cached settings promise, once there are any.
SettingsHold ==
  auth # NoSettings =>
    /\ auth.share => auth.enabled
    /\ printed # NoKey => auth.enabled /\ printed \in auth.keys
    /\ launcher = "cli" /\ bound # "loopback" => auth.share

\* The launch, from the environment to the settings: nothing is cached before
\* the summary, a server that binds beyond loopback is in share mode, only the
\* CLI prints a key, and where keys are asked for nobody is served without one.
LaunchInv ==
  /\ phase \in {"stopped", "prepared"} => auth = NoSettings
  /\ phase \in {"stopped", "prepared", "announced"} => env \in EnvironmentType
  /\ phase = "prepared" /\ bound # "loopback" => env.mode = "share"
  /\ phase = "announced" /\ launcher = "cli" => auth # NoSettings
  /\ phase = "serving" => auth # NoSettings
  /\ auth = NoSettings => printed = NoKey
  /\ SettingsHold
  /\ phase # "serving" => served = Nobody
  /\ phase = "serving" /\ auth.enabled => served \in auth.keys \cup {Nobody}

\* Settings that were resolved are no empty cache.
LEMMA ResolvedIsCached ==
  ResolvedAuth # NoSettings
<1>1. "keys" \in DOMAIN ResolvedAuth
  BY DEF ResolvedAuth
<1>2. "keys" \notin DOMAIN NoSettings
  BY DEF NoSettings
<1> QED
  BY <1>1, <1>2

\* The settings of an environment the validation passes: share mode asks for a
\* key, and a generated key is among those that open the server.
LEMMA ResolvedAuthHolds ==
  ASSUME env \in EnvironmentType, AuthResolves
  PROVE  /\ ResolvedAuth.share <=> RunMode = "share"
         /\ ResolvedAuth.share => ResolvedAuth.enabled
         /\ ResolvedAuth.generated # NoKey =>
              /\ ResolvedAuth.enabled
              /\ ResolvedAuth.generated \in ResolvedAuth.keys
<1>1. /\ ResolvedAuth.share = (RunMode = "share")
      /\ ResolvedAuth.enabled = AuthEnabled
      /\ ResolvedAuth.generated = IF NeedsKey THEN GeneratedKey(generated + 1) ELSE NoKey
      /\ NeedsKey => ResolvedAuth.keys = {GeneratedKey(generated + 1)}
  BY DEF ResolvedAuth
<1>2. NeedsKey => AuthEnabled
  BY DEF NeedsKey
<1> QED
  BY <1>1, <1>2 DEF AuthResolves

\* Where keys are asked for, a handler only runs for one of the server's keys.
LEMMA RequestServes ==
  ASSUME NEW route, NEW body, NEW key, NEW host, Request(route, body, key, host)
  PROVE  auth.enabled => served' \in auth.keys \cup {Nobody}
<1>1. CASE TurnAway
  BY <1>1 DEF TurnAway
<1>2. CASE Admitted(route, key) /\ Handle(route, body, key)
  BY <1>2 DEF Admitted, Authenticated, Handle
<1> QED
  BY <1>1, <1>2 DEF Request, Budgeted

\* A launch that announces itself with the settings its environment resolves to.
LEMMA AnnounceKeepsLaunch ==
  ASSUME LaunchInv, AnnounceCli
  PROVE  LaunchInv'
<1>1. phase = "prepared" /\ auth = NoSettings /\ env \in EnvironmentType
  BY DEF AnnounceCli, LaunchInv
<1>2. CASE Validates
  <2>1. /\ phase' = "announced" /\ env' = env /\ auth' = ResolvedAuth
        /\ printed' = auth'.generated
        /\ UNCHANGED <<launcher, bound, served>>
    BY <1>1, <1>2 DEF AnnounceCli, CacheSettings, ReadAuth
  <2>2. AuthResolves
    BY <1>1, <1>2 DEF Validates
  <2>3. bound # "loopback" => RunMode = "share"
    BY <1>1 DEF LaunchInv, RunMode
  <2>4. SettingsHold'
    BY <1>1, <2>1, <2>2, <2>3, ResolvedAuthHolds DEF SettingsHold
  <2> QED
    BY <1>1, <2>1, <2>4, ResolvedIsCached DEF LaunchInv
<1>3. CASE ~Validates
  BY <1>1, <1>3 DEF AnnounceCli, Refuse, LaunchInv, SettingsHold
<1> QED
  BY <1>2, <1>3

\* The lifespan finds the settings of the summary in the cache, or resolves
\* those of a server nobody announced.
LEMMA LifespanKeepsLaunch ==
  ASSUME LaunchInv, Lifespan
  PROVE  LaunchInv'
<1>1. phase = "announced" /\ env \in EnvironmentType
  BY DEF Lifespan, LaunchInv
<1>2. CASE Validates
  <2>1. /\ phase' = "serving"
        /\ auth' = IF auth = NoSettings THEN ResolvedAuth ELSE auth
        /\ UNCHANGED <<launcher, bound, printed, served>>
    BY <1>1, <1>2 DEF Lifespan, CacheSettings, ReadAuth
  <2>2. CASE auth = NoSettings
    <3>1. AuthResolves /\ launcher # "cli" /\ printed = NoKey
      BY <1>1, <1>2, <2>2 DEF Validates, LaunchInv
    <3>2. SettingsHold'
      BY <1>1, <2>1, <2>2, <3>1, ResolvedAuthHolds DEF SettingsHold
    <3> QED
      BY <1>1, <2>1, <2>2, <3>2, ResolvedIsCached DEF LaunchInv
  <2>3. CASE auth # NoSettings
    BY <1>1, <2>1, <2>3 DEF LaunchInv, SettingsHold
  <2> QED
    BY <2>2, <2>3
<1>3. CASE ~Validates
  BY <1>1, <1>3 DEF Lifespan, Refuse, LaunchInv, SettingsHold
<1> QED
  BY <1>2, <1>3

\* The invariant of the launch holds through every launch and request.
THEOREM LaunchInvariant == BoundarySpec => []LaunchInv
<1>1. BoundaryInit => LaunchInv
  BY EnvironmentAssumption DEF BoundaryInit, LaunchInv, SettingsHold
<1>2. LaunchInv /\ [BoundaryNext]_boundaryVars => LaunchInv'
  <2> SUFFICES ASSUME LaunchInv, [BoundaryNext]_boundaryVars
               PROVE  LaunchInv'
    OBVIOUS
  <2>1. ASSUME NEW mode \in {"local", "share"}, NEW host \in HostClasses,
               NEW key \in ManualKeys, RunCli(mode, host, key)
        PROVE  LaunchInv'
    <3>1. phase = "stopped" /\ auth = NoSettings /\ env \in EnvironmentType
      BY <2>1 DEF RunCli, LaunchInv
    <3>2. CASE BindAllowed(mode, host) /\ key \notin {"blank", "comma"}
      <4>1. /\ phase' = "prepared" /\ env' = CliEnvironment(mode, key)
            /\ auth' = NoSettings /\ bound' = host
            /\ UNCHANGED <<printed, served>>
        BY <2>1, <3>2 DEF RunCli
      <4>2. env' \in EnvironmentType /\ env'.mode = mode
        BY <3>1, <3>2, <4>1 DEF CliEnvironment, EnvironmentType, ManualKeys
      <4>3. bound' # "loopback" => mode = "share"
        BY <3>2, <4>1 DEF BindAllowed
      <4> QED
        BY <3>1, <4>1, <4>2, <4>3 DEF LaunchInv, SettingsHold
    <3>3. CASE ~(BindAllowed(mode, host) /\ key \notin {"blank", "comma"})
      BY <2>1, <3>1, <3>3 DEF RunCli, Refuse, LaunchInv, SettingsHold
    <3> QED
      BY <3>2, <3>3
  <2>2. ASSUME NEW host \in HostClasses, RunUvicorn(host)
        PROVE  LaunchInv'
    BY <2>2 DEF RunUvicorn, LaunchInv, SettingsHold
  <2>3. ASSUME phase = "serving",
               NEW route, NEW body, NEW key, NEW host, Request(route, body, key, host)
        PROVE  LaunchInv'
    BY <2>3, RequestServes DEF Request, launchVars, LaunchInv, SettingsHold
  <2>4. CASE BoundaryTick
    BY <2>4 DEF BoundaryTick, launchVars, LaunchInv, SettingsHold
  <2>5. CASE UNCHANGED boundaryVars
    BY <2>5 DEF boundaryVars, launchVars, LaunchInv, SettingsHold
  <2> QED
    BY <2>1, <2>2, <2>3, <2>4, <2>5, AnnounceKeepsLaunch, LifespanKeepsLaunch
       DEF BoundaryNext
<1> QED
  BY <1>1, <1>2, PTL DEF BoundarySpec

\* The key of the startup summary opens the server that runs: the summary's
\* reading of the settings is the one that is cached, for every environment
\* (prepare_cli_runtime, _app_lifespan).
THEOREM SummaryKeyOpensTheServer == BoundarySpec => []PrintedKeyAuthenticates
<1>1. LaunchInv => PrintedKeyAuthenticates
  BY DEF LaunchInv, SettingsHold, PrintedKeyAuthenticates, Authenticated
<1> QED
  BY <1>1, LaunchInvariant, PTL

\* A server in share mode, and one the CLI bound beyond loopback, runs no
\* protected handler for a caller that does not present one of its keys, whatever
\* its environment (_validate_cli_bind_policy, authenticate_api_request).
THEOREM ExposedServersAskForKeys == BoundarySpec => []ExposedServesKeyHolders
<1>1. LaunchInv => ExposedServesKeyHolders
  BY DEF LaunchInv, SettingsHold, ExposedServesKeyHolders
<1> QED
  BY <1>1, LaunchInvariant, PTL

-----------------------------------------------------------------------------
(* Sequences that are put one behind the other.                            *)

\* In s the first m of the sequences ss stand one behind the other, and nothing
\* else: each has a place where it begins.
Blocks(s, ss, m) ==
  \E at \in [1 .. m -> Nat] :
    /\ \A i \in 1 .. m : /\ at[i] + Len(ss[i]) <= Len(s)
                         /\ \A j \in 1 .. Len(ss[i]) : s[at[i] + j] = ss[i][j]
    /\ \A k \in 1 .. Len(s) : \E i \in 1 .. m : at[i] < k /\ k <= at[i] + Len(ss[i])

\* The recursive definition of FlattenSeq is one of a function.
LEMMA FlattenExists ==
  ASSUME NEW n \in Nat, NEW ss
  PROVE  \E f : f = [i \in 1 .. n |-> IF i = 1 THEN ss[i] ELSE f[i - 1] \o ss[i]]
<1> DEFINE P(m) == \E f : f = [i \in 1 .. m |-> IF i = 1 THEN ss[i] ELSE f[i - 1] \o ss[i]]
           T == {m \in Nat : P(m)}
<1>1. P(0)
  <2> DEFINE f == [i \in 1 .. 0 |-> ss[i]]
  <2>1. f = [i \in 1 .. 0 |-> IF i = 1 THEN ss[i] ELSE f[i - 1] \o ss[i]]
    OBVIOUS
  <2> QED
    BY <2>1
<1>2. ASSUME NEW m \in Nat, P(m)
      PROVE  P(m + 1)
  <2>1. PICK f : f = [i \in 1 .. m |-> IF i = 1 THEN ss[i] ELSE f[i - 1] \o ss[i]]
    BY <1>2
  <2> DEFINE last == IF m = 0 THEN ss[m + 1] ELSE f[m] \o ss[m + 1]
             g == [i \in 1 .. m + 1 |-> IF i = m + 1 THEN last ELSE f[i]]
  <2>2. ASSUME NEW i \in 1 .. m + 1
        PROVE  g[i] = IF i = 1 THEN ss[i] ELSE g[i - 1] \o ss[i]
    <3>1. CASE i = m + 1
      <4>1. m # 0 => m \in 1 .. m + 1 /\ m # m + 1 /\ i - 1 = m
        BY <3>1
      <4>2. m # 0 => g[m] = f[m]
        BY <4>1
      <4>3. i = 1 <=> m = 0
        BY <3>1
      <4> QED
        BY <3>1, <4>1, <4>2, <4>3
    <3>2. CASE i # m + 1
      <4>1. i \in 1 .. m /\ (i # 1 => i - 1 \in 1 .. m + 1 /\ i - 1 # m + 1)
        BY <3>2
      <4>2. g[i] = f[i] /\ (i # 1 => g[i - 1] = f[i - 1])
        BY <4>1
      <4> HIDE DEF g
      <4>3. f[i] = IF i = 1 THEN ss[i] ELSE f[i - 1] \o ss[i]
        BY <2>1, <4>1
      <4> QED
        BY <4>2, <4>3
    <3> QED
      BY <3>1, <3>2
  <2>3. g = [i \in 1 .. m + 1 |-> g[i]]
    OBVIOUS
  <2> HIDE DEF g
  <2>4. g = [i \in 1 .. m + 1 |-> IF i = 1 THEN ss[i] ELSE g[i - 1] \o ss[i]]
    BY <2>2, <2>3
  <2> QED
    BY <2>4
<1> HIDE DEF P
<1>3. 0 \in T /\ \A m \in Nat : m \in T => m + 1 \in T
  BY <1>1, <1>2
<1>4. Nat \subseteq T
  BY <1>3, SetInduction
<1>5. P(n)
  BY <1>4
<1> QED
  BY <1>5 DEF P

\* One sequence more.
LEMMA BlocksGrow ==
  ASSUME NEW S, NEW n \in Nat, NEW ss \in [1 .. n -> Seq(S)], NEW m \in Nat, m < n,
         NEW s \in Seq(S), Blocks(s, ss, m)
  PROVE  Blocks(s \o ss[m + 1], ss, m + 1)
<1> DEFINE b == ss[m + 1]
           t == s \o b
<1>1. m + 1 \in 1 .. n /\ b \in Seq(S)
  OBVIOUS
<1>2. Len(s) \in Nat /\ Len(b) \in Nat
  BY <1>1
<1>3. /\ Len(t) = Len(s) + Len(b)
      /\ \A i \in 1 .. Len(s) + Len(b) : t[i] = IF i <= Len(s) THEN s[i] ELSE b[i - Len(s)]
  BY <1>1, ConcatProperties
<1> HIDE DEF t, b
<1>4. PICK at \in [1 .. m -> Nat] :
        /\ \A i \in 1 .. m : /\ at[i] + Len(ss[i]) <= Len(s)
                             /\ \A j \in 1 .. Len(ss[i]) : s[at[i] + j] = ss[i][j]
        /\ \A k \in 1 .. Len(s) : \E i \in 1 .. m : at[i] < k /\ k <= at[i] + Len(ss[i])
  BY DEF Blocks
<1> DEFINE bt == [i \in 1 .. m + 1 |-> IF i = m + 1 THEN Len(s) ELSE at[i]]
<1>5. bt \in [1 .. m + 1 -> Nat]
  BY <1>2
<1>6. bt[m + 1] = Len(s) /\ \A i \in 1 .. m : bt[i] = at[i] /\ i \in 1 .. m + 1
  OBVIOUS
<1> HIDE DEF bt
<1>7. ASSUME NEW i \in 1 .. m + 1
      PROVE  /\ bt[i] + Len(ss[i]) <= Len(t)
             /\ \A j \in 1 .. Len(ss[i]) : t[bt[i] + j] = ss[i][j]
  <2>1. CASE i = m + 1
    <3>1. bt[i] = Len(s) /\ ss[i] = b
      BY <1>6, <2>1 DEF b
    <3>2. \A j \in 1 .. Len(b) : t[Len(s) + j] = b[j]
      <4> SUFFICES ASSUME NEW j \in 1 .. Len(b)
                   PROVE  t[Len(s) + j] = b[j]
        OBVIOUS
      <4>1. /\ Len(s) + j \in 1 .. Len(s) + Len(b)
            /\ ~(Len(s) + j <= Len(s)) /\ (Len(s) + j) - Len(s) = j
        BY <1>2
      <4> QED
        BY <1>3, <4>1
    <3>3. Len(s) + Len(b) <= Len(t)
      BY <1>2, <1>3
    <3> QED
      BY <3>1, <3>2, <3>3
  <2>2. CASE i \in 1 .. m
    <3>1. bt[i] = at[i] /\ at[i] \in Nat /\ i \in 1 .. n
      BY <1>6, <2>2
    <3>2. ss[i] \in Seq(S) /\ Len(ss[i]) \in Nat
      BY <3>1
    <3>3. at[i] + Len(ss[i]) <= Len(s)
      BY <1>4, <2>2
    <3>4. ASSUME NEW j \in 1 .. Len(ss[i])
          PROVE  t[at[i] + j] = ss[i][j]
      <4>1. at[i] + j \in 1 .. Len(s) + Len(b) /\ at[i] + j <= Len(s)
        BY <1>2, <3>1, <3>2, <3>3, SMTT(30)
      <4> QED
        BY <1>3, <1>4, <2>2, <4>1
    <3>5. at[i] + Len(ss[i]) <= Len(t)
      BY <1>2, <1>3, <3>1, <3>2, <3>3
    <3> QED
      BY <3>1, <3>4, <3>5
  <2> QED
    BY <2>1, <2>2
<1>8. ASSUME NEW k \in 1 .. Len(t)
      PROVE  \E i \in 1 .. m + 1 : bt[i] < k /\ k <= bt[i] + Len(ss[i])
  <2>1. CASE k \in 1 .. Len(s)
    <3>1. PICK i \in 1 .. m : at[i] < k /\ k <= at[i] + Len(ss[i])
      BY <1>4, <2>1
    <3> QED
      BY <1>6, <3>1
  <2>2. CASE k \notin 1 .. Len(s)
    <3>1. Len(s) < k /\ k <= Len(s) + Len(b)
      BY <1>2, <1>3, <2>2
    <3>2. m + 1 \in 1 .. m + 1
      OBVIOUS
    <3> QED
      BY <1>6, <3>1, <3>2 DEF b
  <2> QED
    BY <2>1, <2>2
<1>9. Blocks(t, ss, m + 1)
  BY <1>5, <1>7, <1>8 DEF Blocks
<1> QED
  BY <1>9 DEF t, b

LEMMA NothingBlocks ==
  ASSUME NEW ss
  PROVE  Blocks(<<>>, ss, 0)
<1> DEFINE at == [i \in 1 .. 0 |-> 0]
<1>1. at \in [1 .. 0 -> Nat]
  OBVIOUS
<1>2. Len(<<>>) = 0 /\ \A i \in 1 .. 0 : FALSE
  OBVIOUS
<1> HIDE DEF at
<1> QED
  BY <1>1, <1>2 DEF Blocks

\* Flattened, the sequences stand one behind the other.
LEMMA FlattenFacts ==
  ASSUME NEW S, NEW n \in Nat, NEW ss \in [1 .. n -> Seq(S)]
  PROVE  FlattenSeq(ss) \in Seq(S) /\ Blocks(FlattenSeq(ss), ss, n)
<1>1. ss \in Seq(Seq(S)) /\ Len(ss) = n
  OBVIOUS
<1>2. CASE n = 0
  <2>1. ss = <<>>
    BY <1>1, <1>2
  <2>2. FlattenSeq(ss) = <<>>
    BY <1>1, <1>2, <2>1 DEF FlattenSeq
  <2> QED
    BY <1>2, <2>2, NothingBlocks
<1>3. CASE n # 0
  <2> DEFINE f == CHOOSE f : f = [i \in 1 .. n |-> IF i = 1 THEN ss[i] ELSE f[i - 1] \o ss[i]]
  <2>1. f = [i \in 1 .. n |-> IF i = 1 THEN ss[i] ELSE f[i - 1] \o ss[i]]
    BY FlattenExists, Zenon
  <2>2. FlattenSeq(ss) = f[n]
    BY <1>1, <1>3 DEF FlattenSeq
  <2> HIDE DEF f
  <2> DEFINE P(m) == m \in 1 .. n => f[m] \in Seq(S) /\ Blocks(f[m], ss, m)
             T == {m \in Nat : P(m)}
  <2>3. P(0)
    OBVIOUS
  <2>4. ASSUME NEW m \in Nat, P(m)
        PROVE  P(m + 1)
    <3> SUFFICES ASSUME m + 1 \in 1 .. n
                 PROVE  f[m + 1] \in Seq(S) /\ Blocks(f[m + 1], ss, m + 1)
      OBVIOUS
    <3>1. m < n /\ ss[m + 1] \in Seq(S)
      OBVIOUS
    <3>2. CASE m = 0
      <4>1. f[m + 1] = ss[m + 1]
        BY <2>1, <3>2
      <4>2. <<>> \o ss[m + 1] = ss[m + 1]
        BY <3>1, ConcatEmptySeq
      <4>3. Blocks(<<>>, ss, m)
        BY <3>2, NothingBlocks
      <4>4. <<>> \in Seq(S)
        OBVIOUS
      <4>5. Blocks(<<>> \o ss[m + 1], ss, m + 1)
        BY <3>1, <4>3, <4>4, BlocksGrow
      <4> QED
        BY <3>1, <4>1, <4>2, <4>5
    <3>3. CASE m # 0
      <4>1. m \in 1 .. n /\ m + 1 # 1 /\ (m + 1) - 1 = m
        BY <3>1, <3>3
      <4>2. f[m] \in Seq(S) /\ Blocks(f[m], ss, m)
        BY <2>4, <4>1
      <4>3. f[m + 1] = f[m] \o ss[m + 1]
        BY <2>1, <4>1
      <4>4. Blocks(f[m] \o ss[m + 1], ss, m + 1)
        BY <3>1, <4>2, BlocksGrow
      <4>5. f[m] \o ss[m + 1] \in Seq(S)
        BY <3>1, <4>2, ConcatProperties
      <4> QED
        BY <4>3, <4>4, <4>5
    <3> QED
      BY <3>2, <3>3
  <2> HIDE DEF P
  <2>5. 0 \in T /\ \A m \in Nat : m \in T => m + 1 \in T
    BY <2>3, <2>4
  <2>6. Nat \subseteq T
    BY <2>5, SetInduction
  <2>7. P(n)
    BY <2>6
  <2> QED
    BY <1>3, <2>2, <2>7, SMTT(30) DEF P
<1> QED
  BY <1>2, <1>3

-----------------------------------------------------------------------------
(* The windows of one video.                                               *)

WindowType == [from : Nat, length : Nat]

LEMMA RoundedFacts ==
  ASSUME NEW x \in Nat
  PROVE  /\ Rounded(x) \in Nat
         /\ 2 * (x - Rounded(x)) <= RoundingUnit /\ 2 * (Rounded(x) - x) <= RoundingUnit
         /\ x % RoundingUnit = 0 => Rounded(x) = x
<1> DEFINE r == x % 1000000
           Near(m) == 2 * (x - m) <= 1000000 /\ 2 * (m - x) <= 1000000
<1>1. r \in Nat /\ r < 1000000 /\ r <= x
  OBVIOUS
<1>2. Rounded(x) = CHOOSE m \in {x - r, x - r + 1000000} : Near(m)
  BY DEF Rounded, RoundingUnit
<1> HIDE DEF r
<1>3. \E m \in {x - r, x - r + 1000000} : Near(m)
  <2>1. CASE 2 * r <= 1000000
    <3>1. Near(x - r)
      BY <1>1, <2>1
    <3> QED
      BY <3>1
  <2>2. CASE 2 * r > 1000000
    <3>1. Near(x - r + 1000000)
      BY <1>1, <2>2
    <3> QED
      BY <3>1
  <2> QED
    BY <1>1, <2>1, <2>2
<1>4. Rounded(x) \in {x - r, x - r + 1000000} /\ Near(Rounded(x))
  BY <1>2, <1>3
<1>5. r = 0 => Rounded(x) = x
  BY <1>1, <1>4
<1> QED
  BY <1>1, <1>4, <1>5 DEF r, RoundingUnit

LEMMA LengthFacts ==
  ASSUME NEW rest \in Nat, rest > 0
  PROVE  /\ LengthOf(rest) \in Nat /\ LengthOf(rest) > 0
         /\ rest >= WindowLength => LengthOf(rest) = WindowLength
         /\ rest <= WindowLength => /\ 2 * (rest - LengthOf(rest)) <= RoundingUnit
                                    /\ LengthOf(rest) < rest + ShortestWindow
<1> USE DEF WindowLength, ShortestWindow, RoundingUnit
<1>1. CASE rest < ShortestWindow
  <2>1. 100000000 \in Nat /\ 100000000 % 1000000 = 0
    OBVIOUS
  <2>2. LengthOf(rest) = 100000000
    BY <1>1, <2>1, RoundedFacts DEF LengthOf
  <2> QED
    BY <1>1, <2>2
<1>2. CASE rest >= WindowLength
  <2>1. 1000000000 \in Nat /\ 1000000000 % 1000000 = 0
    OBVIOUS
  <2>2. LengthOf(rest) = 1000000000
    <3>1. CASE rest > 1000000000
      BY <2>1, <3>1, RoundedFacts DEF LengthOf
    <3>2. CASE rest = 1000000000
      BY <2>1, <3>2, RoundedFacts DEF LengthOf
    <3> QED
      BY <1>2, <3>1, <3>2
  <2> QED
    BY <1>2, <2>2
<1>3. CASE rest >= ShortestWindow /\ rest < WindowLength
  <2> DEFINE m == Rounded(rest)
  <2>1. LengthOf(rest) = m
    BY <1>3 DEF LengthOf
  <2>2. m \in Nat /\ 2 * (rest - m) <= 1000000 /\ 2 * (m - rest) <= 1000000
    BY RoundedFacts
  <2> HIDE DEF m
  <2>3. m > 0 /\ m < rest + 100000000
    BY <1>3, <2>2
  <2> QED
    BY <1>3, <2>1, <2>2, <2>3
<1> QED
  BY <1>1, <1>2, <1>3

LEMMA WindowsTile ==
  ASSUME NEW d \in Nat
  PROVE  LET w == Windows(d) IN
         /\ w \in Seq(WindowType)
         /\ d \in 1 .. Tolerance => Len(w) = 0
         /\ d \notin 1 .. Tolerance => Len(w) >= 1 /\ w[1].from = 0
         /\ \A j \in 1 .. Len(w) : /\ w[j].length > 0
                                   /\ j < Len(w) => w[j + 1].from = w[j].from + w[j].length
         /\ d > Tolerance => /\ 2 * (d - (w[Len(w)].from + w[Len(w)].length)) <= RoundingUnit
                             /\ w[Len(w)].from + w[Len(w)].length < d + ShortestWindow
<1> DEFINE w == Windows(d)
           W == 1000000000
<1>1. CASE d = 0
  <2> DEFINE whole == [from |-> 0, length |-> W]
  <2>1. w = <<whole>>
    BY <1>1 DEF Windows, WindowLength
  <2>2. whole \in WindowType /\ whole.from = 0 /\ whole.length = W
    BY DEF WindowType
  <2> HIDE DEF w, whole
  <2>3. Len(w) = 1 /\ w[1] = whole /\ w \in Seq({whole})
    BY <2>1
  <2>4. w \in Seq(WindowType)
    BY <2>1, <2>2
  <2> QED
    BY <1>1, <2>2, <2>3, <2>4 DEF w, Tolerance
<1>2. CASE d # 0
  <2> DEFINE q == d \div W
             r == d % W
             n == q + (IF r > 1 THEN 1 ELSE 0)
             rest(i) == d - (i - 1) * W
             len(i) == LengthOf(rest(i))
  <2>1. w = [i \in 1 .. n |-> [from |-> (i - 1) * W, length |-> len(i)]]
    BY <1>2 DEF Windows, WindowLength, Tolerance
  <2>2. q \in Nat /\ r \in Nat /\ r < W /\ d = W * q + r
    OBVIOUS
  <2> HIDE DEF w, q, r
  <2>3. /\ n \in Nat /\ W * (n - 1) < d /\ (n >= 1 \/ d = 1)
        /\ d <= W * n + 1
        /\ d = 1 => n = 0
    BY <1>2, <2>2
  <2> HIDE DEF n
  <2>4. ASSUME NEW i \in 1 .. n
        PROVE  /\ (i - 1) * W \in Nat /\ len(i) \in Nat /\ len(i) > 0
               /\ i < n => len(i) = W
               /\ i = n => /\ 2 * (d - ((i - 1) * W + len(i))) <= 1000000
                           /\ (i - 1) * W + len(i) < d + 100000000
    <3>1. (i - 1) * W \in Nat /\ rest(i) \in Int /\ rest(i) = d - (i - 1) * W
      OBVIOUS
    <3>2. i < n => rest(i) > W
      <4> SUFFICES ASSUME i < n
                   PROVE  rest(i) > W
        OBVIOUS
      <4>1. i * W <= W * (n - 1)
        BY <2>3
      <4> QED
        BY <2>3, <4>1
    <3>3. i = n => rest(i) > 0 /\ rest(i) <= W + 1
      BY <2>3
    <3> HIDE DEF rest
    <3>4. rest(i) \in Nat /\ rest(i) > 0
      BY <3>1, <3>2, <3>3, <2>3
    <3> DEFINE l == LengthOf(rest(i))
    <3>5. /\ l \in Nat /\ l > 0
          /\ rest(i) >= W => l = W
          /\ rest(i) <= W => 2 * (rest(i) - l) <= 1000000 /\ l < rest(i) + 100000000
      BY <3>4, LengthFacts DEF WindowLength, RoundingUnit, ShortestWindow
    <3> HIDE DEF l
    <3>6. i = n => /\ 2 * (d - ((i - 1) * W + l)) <= 1000000
                   /\ (i - 1) * W + l < d + 100000000
      BY <3>1, <3>3, <3>4, <3>5
    <3> QED
      BY <3>1, <3>2, <3>4, <3>5, <3>6 DEF l
  <2> HIDE DEF len
  <2>5. ASSUME NEW i \in 1 .. n
        PROVE  /\ w[i] \in WindowType
               /\ w[i].from = (i - 1) * W /\ w[i].length = len(i)
    <3>1. w[i] = [from |-> (i - 1) * W, length |-> len(i)]
      BY <2>1
    <3>2. (i - 1) * W \in Nat /\ len(i) \in Nat
      BY <2>4
    <3> DEFINE x == (i - 1) * W
               y == len(i)
    <3> HIDE DEF x, y
    <3>3. w[i] = [from |-> x, length |-> y] /\ x \in Nat /\ y \in Nat
      BY <3>1, <3>2 DEF x, y
    <3>4. w[i] \in WindowType /\ w[i].from = x /\ w[i].length = y
      BY <3>3 DEF WindowType
    <3> QED
      BY <3>4 DEF x, y
  <2>6. w \in Seq(WindowType) /\ Len(w) = n
    <3>1. w = [i \in 1 .. n |-> w[i]]
      BY <2>1
    <3> QED
      BY <2>3, <2>5, <3>1
  <2>7. n >= 1 => w[1].from = 0
    <3>1. n >= 1 => 1 \in 1 .. n /\ (1 - 1) * W = 0
      BY <2>3
    <3> QED
      BY <2>5, <3>1
  <2>8. ASSUME NEW j \in 1 .. n
        PROVE  /\ w[j].length > 0
               /\ j < n => w[j + 1].from = w[j].from + w[j].length
    <3>1. w[j].length = len(j) /\ w[j].from = (j - 1) * W
      BY <2>5
    <3>2. ASSUME j < n
          PROVE  w[j + 1].from = j * W /\ len(j) = W
      <4>1. j + 1 \in 1 .. n /\ (j + 1) - 1 = j
        BY <2>3, <3>2
      <4>2. w[j + 1].from = ((j + 1) - 1) * W
        BY <2>5, <4>1
      <4> QED
        BY <2>4, <3>2, <4>1, <4>2
    <3>3. (j - 1) * W + W = j * W
      OBVIOUS
    <3> QED
      BY <2>4, <3>1, <3>2, <3>3
  <2>9. d > 1 => /\ 2 * (d - (w[n].from + w[n].length)) <= 1000000
                 /\ w[n].from + w[n].length < d + 100000000
    <3>1. d > 1 => n \in 1 .. n
      BY <2>3
    <3>2. d > 1 => w[n].from = (n - 1) * W /\ w[n].length = len(n)
      BY <2>5, <3>1
    <3> QED
      BY <2>4, <3>1, <3>2
  <2>10. d \in 1 .. Tolerance => n = 0
    BY <2>3 DEF Tolerance
  <2>11. d \notin 1 .. Tolerance => n >= 1 /\ d > 1
    BY <1>2, <2>3 DEF Tolerance
  <2> QED
    BY <2>6, <2>7, <2>8, <2>9, <2>10, <2>11 DEF w, Tolerance, RoundingUnit, ShortestWindow
<1> QED
  BY <1>1, <1>2

-----------------------------------------------------------------------------
(* SourceIntake.  The slices tile the videos because no file is found      *)
(* twice: neither by listing the folder, nor by sorting what was listed,   *)
(* where no two files have the same time.                                  *)

\* The folder: finitely many files, each written at another time.
FolderInv ==
  /\ changes \in Nat
  /\ IsFiniteSet(DOMAIN files)
  /\ \A n \in DOMAIN files : /\ files[n].at \in Nat /\ files[n].at < changes
                             /\ files[n].length \in Nat
  /\ \A m, n \in DOMAIN files : files[m].at = files[n].at => m = n

\* A sequence that repeats nothing.
Distinct(s) ==
  \E n \in Nat : /\ DOMAIN s = 1 .. n
                 /\ \A i, j \in 1 .. n : s[i] = s[j] => i = j

IntakeInv ==
  /\ FolderInv
  /\ sourceMode = "video_files" => input.form # "playlist"
  /\ sourceMode = "video_files" /\ step \in {"listed", "inspected"} => Distinct(found)
  /\ SlicesTileTheVideos

LEMMA SetToSeqDistinct ==
  ASSUME NEW S, IsFiniteSet(S)
  PROVE  Distinct(SetToSeq(S))
<1> DEFINE n == Cardinality(S)
           s == SetToSeq(S)
<1>1. n \in Nat /\ \E f : f \in Bijection(1 .. n, S)
  <2>1. n \in Nat
    BY FS_CardinalityType
  <2>2. ExistsBijection(1 .. n, S)
    BY FS_CardinalityType
  <2> QED
    BY <2>1, <2>2 DEF ExistsBijection
<1>2. \E f \in [1 .. n -> S] : IsInjective(f)
  BY <1>1 DEF Bijection, Injection
<1>3. s \in [1 .. n -> S] /\ IsInjective(s)
  BY <1>2 DEF SetToSeq
<1> HIDE DEF s, n
<1>4. DOMAIN s = 1 .. n /\ \A i, j \in 1 .. n : s[i] = s[j] => i = j
  BY <1>3 DEF IsInjective
<1> QED
  BY <1>1, <1>4 DEF Distinct, s

LEMMA ByTimeDistinct ==
  ASSUME FolderInv, NEW s, Distinct(s), \A i \in DOMAIN s : s[i] \in DOMAIN files
  PROVE  Distinct(ByTime(s))
<1>1. PICK n \in Nat : DOMAIN s = 1 .. n /\ \A i, j \in 1 .. n : s[i] = s[j] => i = j
  BY DEF Distinct
<1> DEFINE at == [i \in 1 .. n |-> files[s[i]].at]
           T == {at[i] : i \in 1 .. n}
           t == ByTime(s)
<1>2. \A i \in 1 .. n : at[i] \in Nat /\ files[s[i]].at = at[i]
  BY <1>1 DEF FolderInv
<1>3. ASSUME NEW i \in 1 .. n, NEW j \in 1 .. n, at[i] = at[j]
      PROVE  i = j
  <2>1. s[i] \in DOMAIN files /\ s[j] \in DOMAIN files
    BY <1>1
  <2>2. s[i] = s[j]
    BY <1>2, <1>3, <2>1 DEF FolderInv
  <2> QED
    BY <1>1, <2>2
<1>4. at \in [1 .. n -> T] /\ \A x \in T : \E i \in 1 .. n : at[i] = x
  OBVIOUS
<1> HIDE DEF at
<1>5. T \in SUBSET Nat
  BY <1>2
<1> HIDE DEF T
<1>6. at \in Injection(1 .. n, T) /\ at \in Surjection(1 .. n, T)
  BY <1>3, <1>4 DEF Injection, IsInjective, Surjection
<1>7. IsFiniteSet(T) /\ Cardinality(T) = n
  <2>1. 1 \in Int /\ n \in Int
    OBVIOUS
  <2>2. IsFiniteSet(1 .. n) /\ Cardinality(1 .. n) = n
    BY <2>1, FS_Interval
  <2> QED
    BY <1>6, <2>2, FS_Surjection
<1>8. PICK u : IsAscending(u, T)
  BY <1>5, <1>7, AscendingExists
<1>9. u \in [1 .. n -> T] /\ \A i, j \in 1 .. n : i < j => u[i] < u[j]
  BY <1>7, <1>8 DEF IsAscending
<1> DEFINE v == [i \in 1 .. n |-> s[CHOOSE k \in 1 .. n : at[k] = u[i]]]
<1>10. ASSUME NEW i \in 1 .. n
       PROVE  v[i] \in ToSet(s) /\ files[v[i]].at = u[i]
  <2>1. \E k \in 1 .. n : at[k] = u[i]
    BY <1>4, <1>9
  <2>2. PICK k \in 1 .. n : at[k] = u[i] /\ v[i] = s[k]
    BY <2>1
  <2> QED
    BY <1>1, <1>2, <2>2 DEF ToSet
<1>11. v = [i \in 1 .. n |-> v[i]]
  OBVIOUS
<1> HIDE DEF v
<1>12. \E x \in [DOMAIN s -> ToSet(s)] :
         \A i, j \in DOMAIN x : i < j => files[x[i]].at < files[x[j]].at
  <2>1. v \in [1 .. n -> ToSet(s)] /\ DOMAIN v = 1 .. n
    BY <1>10, <1>11
  <2>2. \A i, j \in 1 .. n : i < j => files[v[i]].at < files[v[j]].at
    BY <1>9, <1>10
  <2> QED
    BY <1>1, <2>1, <2>2
<1>13. /\ t \in [DOMAIN s -> ToSet(s)]
       /\ \A i, j \in DOMAIN t : i < j => files[t[i]].at < files[t[j]].at
  BY <1>12 DEF ByTime
<1> HIDE DEF t
<1>14. DOMAIN t = 1 .. n
  BY <1>1, <1>13
<1>15. ASSUME NEW i \in 1 .. n, NEW j \in 1 .. n, t[i] = t[j]
       PROVE  i = j
  <2>1. t[i] \in ToSet(s) /\ i \in Int /\ j \in Int
    BY <1>1, <1>13
  <2>2. t[i] \in DOMAIN files
    BY <2>1 DEF ToSet
  <2>3. files[t[i]].at \in Nat
    BY <2>2 DEF FolderInv
  <2>4. i < j \/ j < i => files[t[i]].at < files[t[i]].at
    BY <1>13, <1>14, <1>15
  <2> QED
    BY <2>1, <2>3, <2>4
<1> QED
  BY <1>14, <1>15 DEF Distinct, t

LEMMA IntakeInitInv == IntakeInit => IntakeInv
<1> SUFFICES ASSUME IntakeInit
             PROVE  IntakeInv
  OBVIOUS
<1>1. DOMAIN files = {} /\ changes = 0 /\ step = "requested"
  BY DEF IntakeInit, Nothing
<1>2. FolderInv
  BY <1>1, FS_EmptySet DEF FolderInv
<1>3. sourceMode = "video_files" => input.form # "playlist"
  BY DEF IntakeInit
<1> QED
  BY <1>1, <1>2, <1>3 DEF IntakeInv, SlicesTileTheVideos

\* The folder changes, and nothing that was found does.
LEMMA WrittenInv ==
  ASSUME FolderInv, NEW n, NEW k \in FileKinds, FileWritten(n, k)
  PROVE  FolderInv'
<1>1. changes \in Nat /\ IsFiniteSet(DOMAIN files) /\ changes' = changes + 1
  BY DEF FolderInv, FileWritten, Change
<1> DEFINE r == [suffix |-> k.suffix, big |-> k.big, length |-> k.length, at |-> changes]
<1>2. files' = [m \in DOMAIN files \cup {n} |-> IF m = n THEN r ELSE files[m]]
  BY DEF FileWritten
<1>3. r.at = changes /\ r.length \in Nat
  BY IntakeAssumption
<1> HIDE DEF r
<1>4. DOMAIN files' = DOMAIN files \cup {n}
  BY <1>2
<1>5. \A m \in DOMAIN files' : files'[m] = IF m = n THEN r ELSE files[m]
  BY <1>2
<1>6. IsFiniteSet(DOMAIN files')
  BY <1>1, <1>4, FS_AddElement
<1>7. ASSUME NEW m \in DOMAIN files'
      PROVE  /\ files'[m].at \in Nat /\ files'[m].at < changes'
             /\ files'[m].length \in Nat
             /\ m = n \/ files'[m].at < changes
  BY <1>1, <1>3, <1>4, <1>5 DEF FolderInv
<1>8. ASSUME NEW m \in DOMAIN files', NEW o \in DOMAIN files', files'[m].at = files'[o].at
      PROVE  m = o
  <2>1. CASE m = n /\ o # n
    BY <1>1, <1>3, <1>5, <1>7, <1>8, <2>1
  <2>2. CASE o = n /\ m # n
    BY <1>1, <1>3, <1>5, <1>7, <1>8, <2>2
  <2>3. CASE m # n /\ o # n
    BY <1>4, <1>5, <1>8, <2>3 DEF FolderInv
  <2> QED
    BY <2>1, <2>2, <2>3
<1> QED
  BY <1>1, <1>6, <1>7, <1>8 DEF FolderInv

LEMMA GoneInv ==
  ASSUME FolderInv, NEW n, FileGone(n)
  PROVE  FolderInv'
<1>1. changes \in Nat /\ IsFiniteSet(DOMAIN files) /\ changes' = changes + 1
  BY DEF FolderInv, FileGone, Change
<1>2. files' = [m \in DOMAIN files \ {n} |-> files[m]]
  BY DEF FileGone
<1>3. DOMAIN files' \in SUBSET DOMAIN files /\ \A m \in DOMAIN files' : files'[m] = files[m]
  BY <1>2
<1>4. IsFiniteSet(DOMAIN files')
  BY <1>1, <1>3, FS_Subset
<1>5. ASSUME NEW m \in DOMAIN files'
      PROVE  /\ files'[m].at \in Nat /\ files'[m].at < changes'
             /\ files'[m].length \in Nat
  BY <1>1, <1>3 DEF FolderInv
<1>6. \A m, o \in DOMAIN files' : files'[m].at = files'[o].at => m = o
  BY <1>3 DEF FolderInv
<1> QED
  BY <1>1, <1>4, <1>5, <1>6 DEF FolderInv

LEMMA ListFilesInv ==
  ASSUME IntakeInv, ListFiles, step' = "listed", sourceMode = "video_files"
  PROVE  Distinct(found')
<1>1. Valid /\ found' = CASE PlaylistOrder # <<>> -> PlaylistOrder
                           [] PlaylistOrder = <<>> /\ input.form = "file" -> <<input.name>>
                           [] PlaylistOrder = <<>> /\ input.form = "folder" -> SetToSeq(Globbed)
                           [] PlaylistOrder = <<>> /\ input.form = "playlist" -> <<>>
  BY DEF ListFiles
<1>2. PlaylistOrder = <<>>
  BY DEF PlaylistOrder
<1>3. input.form = "file" \/ input.form = "folder"
  BY <1>1 DEF Valid, Exists, IntakeInv
<1>4. CASE input.form = "file"
  <2>1. found' = <<input.name>>
    BY <1>1, <1>2, <1>4
  <2>2. DOMAIN <<input.name>> = 1 .. 1
    OBVIOUS
  <2> QED
    BY <2>1, <2>2 DEF Distinct
<1>5. CASE input.form = "folder"
  <2>1. found' = SetToSeq(Globbed)
    BY <1>1, <1>2, <1>5
  <2>2. IsFiniteSet(Globbed)
    <3>1. Globbed \in SUBSET DOMAIN files /\ IsFiniteSet(DOMAIN files)
      BY DEF Globbed, IntakeInv, FolderInv
    <3> QED
      BY <3>1, FS_Subset
  <2> QED
    BY <2>1, <2>2, SetToSeqDistinct
<1> QED
  BY <1>3, <1>4, <1>5

LEMMA InspectFilesInv ==
  ASSUME IntakeInv, InspectFiles, step' = "inspected", sourceMode = "video_files"
  PROVE  Distinct(found')
<1>1. Distinct(found) /\ FolderInv
  BY DEF IntakeInv, InspectFiles
<1>2. /\ \A i \in DOMAIN found : found[i] \in DOMAIN files
      /\ found' = found \/ found' = ByTime(found)
  BY DEF InspectFiles
<1> QED
  BY <1>1, <1>2, ByTimeDistinct

\* The slices tile a video f of length d.
Tiles(s, f, d) ==
  LET places == {k \in DOMAIN s : s[k].file = f}
      end(k) == s[k].from + s[k].length
  IN  IF d \in 1 .. Tolerance THEN places = {}
      ELSE \E first, last \in DOMAIN s :
             /\ first <= last /\ places = first .. last
             /\ s[first].from = 0
             /\ \A k \in places :
                  /\ s[k].index = k - first /\ s[k].length > 0
                  /\ k < last => s[k + 1].from = end(k)
             /\ d > 0 => /\ 2 * (d - end(last)) <= RoundingUnit
                         /\ end(last) < d + ShortestWindow

\* What is put together from the windows of each video.
Together(p) == FlattenSeq([i \in DOMAIN found |-> SlicesOf(found[i], p[i])])

LEMMA SlicesTile ==
  ASSUME NEW n \in Nat, DOMAIN found = 1 .. n,
         \A i, j \in 1 .. n : found[i] = found[j] => i = j,
         NEW p \in [1 .. n -> Nat], NEW i \in 1 .. n
  PROVE  Tiles(Together(p), found[i], p[i])
<1> DEFINE s == Together(p)
           ss == [h \in 1 .. n |-> SlicesOf(found[h], p[h])]
           T == [file : {found[h] : h \in 1 .. n}, index : Nat, from : Nat, length : Nat]
           w(h) == Windows(p[h])
<1>1. ASSUME NEW h \in 1 .. n
      PROVE  /\ w(h) \in Seq(WindowType)
             /\ p[h] \in 1 .. Tolerance => Len(w(h)) = 0
             /\ p[h] \notin 1 .. Tolerance => Len(w(h)) >= 1 /\ w(h)[1].from = 0
             /\ \A j \in 1 .. Len(w(h)) :
                  /\ w(h)[j].length > 0
                  /\ j < Len(w(h)) => w(h)[j + 1].from = w(h)[j].from + w(h)[j].length
             /\ p[h] > Tolerance =>
                  /\ 2 * (p[h] - (w(h)[Len(w(h))].from + w(h)[Len(w(h))].length))
                       <= RoundingUnit
                  /\ w(h)[Len(w(h))].from + w(h)[Len(w(h))].length
                       < p[h] + ShortestWindow
  <2>1. p[h] \in Nat
    OBVIOUS
  <2> QED
    BY <2>1, WindowsTile
<1> HIDE DEF w
<1>2. ASSUME NEW h \in 1 .. n
      PROVE  /\ DOMAIN ss[h] = 1 .. Len(w(h)) /\ Len(ss[h]) = Len(w(h))
             /\ \A j \in 1 .. Len(w(h)) :
                  ss[h][j] = [file |-> found[h], index |-> j - 1,
                              from |-> w(h)[j].from, length |-> w(h)[j].length]
             /\ ss[h] \in Seq(T)
  <2>1. ss[h] = [j \in DOMAIN w(h) |-> Slice(found[h], j - 1, w(h)[j])]
    BY DEF SlicesOf, w
  <2>2. DOMAIN w(h) = 1 .. Len(w(h)) /\ Len(w(h)) \in Nat
    BY <1>1
  <2> DEFINE b == ss[h]
  <2>3. \A j \in 1 .. Len(w(h)) : w(h)[j] \in WindowType
    BY <1>1
  <2> HIDE DEF ss
  <2>4. b = [j \in 1 .. Len(w(h)) |-> Slice(found[h], j - 1, w(h)[j])]
    BY <2>1, <2>2
  <2>5. DOMAIN b = 1 .. Len(w(h)) /\ Len(b) = Len(w(h)) /\ b = [j \in 1 .. Len(w(h)) |-> b[j]]
    BY <2>2, <2>4
  <2>6. \A j \in 1 .. Len(w(h)) :
          b[j] = [file |-> found[h], index |-> j - 1,
                  from |-> w(h)[j].from, length |-> w(h)[j].length]
    BY <2>4 DEF Slice
  <2> HIDE DEF b
  <2>7. ASSUME NEW j \in 1 .. Len(w(h))
        PROVE  b[j] \in T
    <3>1. w(h)[j].from \in Nat /\ w(h)[j].length \in Nat
      BY <2>3 DEF WindowType
    <3>2. j - 1 \in Nat /\ found[h] \in {found[g] : g \in 1 .. n}
      OBVIOUS
    <3> DEFINE F == {found[g] : g \in 1 .. n}
               file == found[h]
               index == j - 1
               from == w(h)[j].from
               length == w(h)[j].length
    <3>3. b[j] = [file |-> file, index |-> index, from |-> from, length |-> length]
      BY <2>6
    <3>4. file \in F /\ index \in Nat /\ from \in Nat /\ length \in Nat
      BY <3>1, <3>2
    <3>5. T = [file : F, index : Nat, from : Nat, length : Nat]
      OBVIOUS
    <3> HIDE DEF T, F, file, index, from, length
    <3> QED
      BY <3>3, <3>4, <3>5
  <2> HIDE DEF T
  <2>8. b \in Seq(T)
    BY <2>2, <2>5, <2>7
  <2> QED
    BY <2>5, <2>6, <2>8 DEF b
<1>3. s = FlattenSeq(ss)
  BY DEF Together
<1>4. ss \in [1 .. n -> Seq(T)]
  BY <1>2
<1> HIDE DEF s, ss, T
<1>5. s \in Seq(T) /\ Blocks(s, ss, n)
  BY <1>3, <1>4, FlattenFacts
<1>6. PICK at \in [1 .. n -> Nat] :
        /\ \A h \in 1 .. n : /\ at[h] + Len(ss[h]) <= Len(s)
                             /\ \A j \in 1 .. Len(ss[h]) : s[at[h] + j] = ss[h][j]
        /\ \A k \in 1 .. Len(s) : \E h \in 1 .. n : at[h] < k /\ k <= at[h] + Len(ss[h])
  BY <1>5 DEF Blocks
<1>7. DOMAIN s = 1 .. Len(s) /\ Len(s) \in Nat
  BY <1>5
<1>8. ASSUME NEW h \in 1 .. n, NEW k \in 1 .. Len(s), at[h] < k, k <= at[h] + Len(ss[h])
      PROVE  LET j == k - at[h] IN
             /\ j \in 1 .. Len(w(h))
             /\ s[k].file = found[h] /\ s[k].index = j - 1
             /\ s[k].from = w(h)[j].from /\ s[k].length = w(h)[j].length
  <2> DEFINE j == k - at[h]
  <2>1. at[h] \in Nat /\ Len(w(h)) \in Nat /\ Len(ss[h]) = Len(w(h))
    <3>1. w(h) \in Seq(WindowType)
      BY <1>1
    <3>2. Len(ss[h]) = Len(w(h))
      BY <1>2
    <3>3. at[h] \in Nat
      OBVIOUS
    <3>4. Len(w(h)) \in Nat
      BY <3>1
    <3> QED
      BY <3>2, <3>3, <3>4
  <2>2. j \in 1 .. Len(w(h)) /\ at[h] + j = k
    BY <1>8, <2>1
  <2> HIDE DEF j
  <2>3. s[k] = ss[h][j]
    BY <1>6, <2>1, <2>2
  <2>4. s[k] = [file |-> found[h], index |-> j - 1,
                from |-> w(h)[j].from, length |-> w(h)[j].length]
    BY <1>2, <2>2, <2>3
  <2> QED
    BY <2>2, <2>4 DEF j
<1> DEFINE first == at[i] + 1
           last == at[i] + Len(ss[i])
           places == {k \in DOMAIN s : s[k].file = found[i]}
<1>9. /\ at[i] \in Nat /\ Len(w(i)) \in Nat /\ Len(ss[i]) = Len(w(i))
      /\ at[i] + Len(ss[i]) <= Len(s)
  <2>1. w(i) \in Seq(WindowType)
    BY <1>1
  <2>2. Len(ss[i]) = Len(w(i)) /\ at[i] \in Nat
    BY <1>2
  <2> QED
    BY <1>6, <2>1, <2>2
<1>10. ASSUME NEW k
       PROVE  k \in places <=> k \in first .. last
  <2>1. ASSUME k \in first .. last
        PROVE  k \in places
    <3>1. k \in 1 .. Len(s) /\ at[i] < k /\ k <= at[i] + Len(ss[i])
      BY <1>9, <2>1
    <3>2. s[k].file = found[i]
      BY <1>8, <3>1
    <3> QED
      BY <1>7, <3>1, <3>2
  <2>2. ASSUME k \in places
        PROVE  k \in first .. last
    <3>1. k \in 1 .. Len(s) /\ s[k].file = found[i]
      BY <1>7, <2>2
    <3>2. PICK h \in 1 .. n : at[h] < k /\ k <= at[h] + Len(ss[h])
      BY <1>6, <3>1
    <3>3. s[k].file = found[h]
      BY <1>8, <3>1, <3>2
    <3>4. h = i
      BY <3>1, <3>3
    <3> QED
      BY <1>9, <3>1, <3>2, <3>4
  <2> QED
    BY <2>1, <2>2
<1>11. places = first .. last
  BY <1>10
<1>12. CASE p[i] \in 1 .. Tolerance
  <2>1. first .. last = {}
    BY <1>1, <1>9, <1>12
  <2> QED
    BY <1>11, <1>12, <2>1 DEF s, Tiles
<1>13. CASE p[i] \notin 1 .. Tolerance
  <2>1. Len(w(i)) >= 1
    BY <1>1, <1>13
  <2>2. first \in DOMAIN s /\ last \in DOMAIN s /\ first <= last
    BY <1>7, <1>9, <2>1
  <2>3. ASSUME NEW k \in first .. last
        PROVE  /\ k \in 1 .. Len(s) /\ k - at[i] \in 1 .. Len(w(i))
               /\ s[k].index = k - at[i] - 1
               /\ s[k].from = w(i)[k - at[i]].from
               /\ s[k].length = w(i)[k - at[i]].length
    <3>1. k \in 1 .. Len(s) /\ at[i] < k /\ k <= at[i] + Len(ss[i])
      BY <1>9
    <3> QED
      BY <1>8, <3>1
  <2>4. s[first].from = 0
    <3>1. first \in first .. last /\ first - at[i] = 1
      BY <1>9, <2>1
    <3>2. s[first].from = w(i)[1].from
      BY <2>3, <3>1
    <3> QED
      BY <1>1, <1>13, <3>2
  <2>5. ASSUME NEW k \in places
        PROVE  /\ s[k].index = k - first /\ s[k].length > 0
               /\ k < last => s[k + 1].from = s[k].from + s[k].length
    <3>1. k \in first .. last
      BY <1>11
    <3>2. k \in Int /\ k - at[i] - 1 = k - first
      BY <1>9, <3>1
    <3>3. s[k].index = k - first /\ s[k].length > 0
      BY <1>1, <2>3, <3>1, <3>2
    <3>4. ASSUME k < last
          PROVE  s[k + 1].from = s[k].from + s[k].length
      <4>1. k + 1 \in first .. last /\ (k + 1) - at[i] = (k - at[i]) + 1
        BY <1>9, <3>1, <3>4, SMTT(30)
      <4>2. k - at[i] \in 1 .. Len(w(i)) /\ k - at[i] < Len(w(i))
        BY <1>9, <2>3, <3>1, <3>4
      <4>3. s[k + 1].from = w(i)[(k - at[i]) + 1].from
        BY <2>3, <4>1
      <4>4. w(i)[(k - at[i]) + 1].from = w(i)[k - at[i]].from + w(i)[k - at[i]].length
        BY <1>1, <4>2
      <4> QED
        BY <2>3, <3>1, <4>3, <4>4
    <3> QED
      BY <3>3, <3>4
  <2>6. ASSUME p[i] > Tolerance
        PROVE  /\ 2 * (p[i] - (s[last].from + s[last].length)) <= RoundingUnit
               /\ s[last].from + s[last].length < p[i] + ShortestWindow
    <3>1. last \in first .. last /\ last - at[i] = Len(w(i))
      BY <1>9, <2>1, SMTT(30)
    <3>2. s[last].from = w(i)[Len(w(i))].from /\ s[last].length = w(i)[Len(w(i))].length
      BY <2>3, <3>1
    <3> QED
      BY <1>1, <2>6, <3>2
  <2>7. p[i] > 0 => p[i] > Tolerance
    BY <1>13 DEF Tolerance
  <2> HIDE DEF first, last, places
  <2> QED
    BY <1>11, <1>13, <2>2, <2>4, <2>5, <2>6, <2>7 DEF places, s, Tiles
<1> QED
  BY <1>12, <1>13

LEMMA BuildSlicesInv ==
  ASSUME IntakeInv, BuildSlices, step' = "discovered", sourceMode = "video_files"
  PROVE  SlicesTileTheVideos'
<1>1. PICK n \in Nat : DOMAIN found = 1 .. n /\ \A i, j \in 1 .. n : found[i] = found[j] => i = j
  BY DEF IntakeInv, BuildSlices, Distinct
<1>2. PICK p \in [DOMAIN found -> UNION {Durations(f) : f \in ToSet(found)}] :
        /\ \A i \in DOMAIN found : p[i] \in Durations(found[i])
        /\ probed' = p
        /\ slices' = Together(p)
  BY DEF BuildSlices, Together
<1>3. \A i \in 1 .. n : p[i] \in Nat
  <2> SUFFICES ASSUME NEW i \in 1 .. n
               PROVE  p[i] \in Nat
    OBVIOUS
  <2>1. p[i] \in Durations(found[i])
    BY <1>1, <1>2
  <2> QED
    BY <2>1 DEF Durations, IntakeInv, FolderInv
<1>4. p \in [1 .. n -> Nat]
  BY <1>1, <1>2, <1>3
<1>5. UNCHANGED <<found, sourceMode>>
  BY DEF BuildSlices
<1>6. \A i \in 1 .. n : Tiles(slices', found[i], p[i])
  BY <1>1, <1>2, <1>4, SlicesTile
<1> QED
  BY <1>1, <1>2, <1>5, <1>6 DEF SlicesTileTheVideos, Tiles

LEMMA IntakeNextInv ==
  ASSUME IntakeInv, [IntakeNext]_intakeVars
  PROVE  IntakeInv'
<1>1. ASSUME UNCHANGED <<sourceMode, input, files, changes>>
      PROVE  /\ FolderInv'
             /\ sourceMode' = "video_files" => input'.form # "playlist"
  BY <1>1 DEF IntakeInv, FolderInv
<1>2. ASSUME NEW from \in {"requested", "accepted"},
             NEW to \in {"accepted", "validated"}, NEW otherwise \in {"refused", "failed"},
             Validate(from, to, otherwise)
      PROVE  IntakeInv'
  <2>1. UNCHANGED <<sourceMode, input, files, changes>>
    BY <1>2 DEF Validate
  <2>2. step' \notin {"listed", "inspected", "discovered"}
    BY <1>2 DEF Validate
  <2> QED
    BY <1>1, <2>1, <2>2 DEF IntakeInv, SlicesTileTheVideos
<1>3. CASE ListFiles
  <2>1. UNCHANGED <<sourceMode, input, files, changes>>
    BY <1>3 DEF ListFiles
  <2>2. step' \in {"failed", "listed"}
    BY <1>3 DEF ListFiles
  <2>3. sourceMode = "video_files" /\ step' = "listed" => Distinct(found')
    BY <1>3, ListFilesInv
  <2> QED
    BY <1>1, <2>1, <2>2, <2>3 DEF IntakeInv, SlicesTileTheVideos
<1>4. CASE InspectFiles
  <2>1. UNCHANGED <<sourceMode, input, files, changes>>
    BY <1>4 DEF InspectFiles
  <2>2. step' \in {"failed", "inspected"}
    BY <1>4 DEF InspectFiles
  <2>3. sourceMode = "video_files" /\ step' = "inspected" => Distinct(found')
    BY <1>4, InspectFilesInv
  <2> QED
    BY <1>1, <2>1, <2>2, <2>3 DEF IntakeInv, SlicesTileTheVideos
<1>5. CASE BuildSlices
  <2>1. UNCHANGED <<sourceMode, input, files, changes>>
    BY <1>5 DEF BuildSlices
  <2>2. step' \in {"failed", "discovered"}
    BY <1>5 DEF BuildSlices
  <2>3. sourceMode = "video_files" /\ step' = "discovered" => SlicesTileTheVideos'
    BY <1>5, BuildSlicesInv
  <2>4. SlicesTileTheVideos'
    BY <2>1, <2>3 DEF SlicesTileTheVideos
  <2> QED
    BY <1>1, <2>1, <2>2, <2>4 DEF IntakeInv
<1>6. ASSUME UNCHANGED <<sourceMode, input, step, found, probed, slices>>, FolderInv'
      PROVE  IntakeInv'
  BY <1>6 DEF IntakeInv, SlicesTileTheVideos
<1>7. ASSUME NEW n \in FileNames, NEW k \in FileKinds, FileWritten(n, k)
      PROVE  IntakeInv'
  <2>1. FolderInv'
    BY <1>7, WrittenInv DEF IntakeInv
  <2> QED
    BY <1>6, <1>7, <2>1 DEF FileWritten, Change
<1>8. ASSUME NEW n \in FileNames, FileGone(n)
      PROVE  IntakeInv'
  <2>1. FolderInv'
    BY <1>8, GoneInv DEF IntakeInv
  <2> QED
    BY <1>6, <1>8, <2>1 DEF FileGone, Change
<1>9. ASSUME UNCHANGED files, Change
      PROVE  FolderInv'
  <2>1. changes \in Nat /\ changes' = changes + 1
    BY <1>9 DEF Change, IntakeInv, FolderInv
  <2> QED
    BY <1>9, <2>1 DEF IntakeInv, FolderInv
<1>10. ASSUME NEW q \in {"index", "other"}, NEW e \in PlaylistEntries, PlaylistWritten(q, e)
       PROVE  IntakeInv'
  BY <1>6, <1>9, <1>10 DEF PlaylistWritten, Change
<1>11. CASE NameMoves
  BY <1>6, <1>9, <1>11 DEF NameMoves, Change
<1>12. ASSUME NEW item, ResolvePlayback(item)
       PROVE  IntakeInv'
  <2>1. UNCHANGED <<sourceMode, input, step, found, probed, slices, files, changes>>
    BY <1>12 DEF ResolvePlayback
  <2> QED
    BY <1>1, <1>6, <2>1
<1>13. CASE UNCHANGED intakeVars
  BY <1>1, <1>6, <1>13 DEF intakeVars
<1> QED
  BY <1>2, <1>3, <1>4, <1>5, <1>7, <1>8, <1>10, <1>11, <1>12, <1>13 DEF IntakeNext

\* Whatever the files, their lengths and the changes of the folder, the slices
\* of a video stand together, begin at nought, follow each other without a gap
\* or an overlap, and stop no more than half a millisecond before its end and
\* less than a tenth of a second behind it; a video no longer than the tolerance
\* has no slice (_build_video_file_slices, discover_input_files).
THEOREM SlicesTileEveryVideo == IntakeSpec => []SlicesTileTheVideos
<1>1. IntakeInit => IntakeInv
  BY IntakeInitInv
<1>2. IntakeInv /\ [IntakeNext]_intakeVars => IntakeInv'
  BY IntakeNextInv
<1>3. IntakeInv => SlicesTileTheVideos
  BY DEF IntakeInv
<1> QED
  BY <1>1, <1>2, <1>3, PTL DEF IntakeSpec

=============================================================================
