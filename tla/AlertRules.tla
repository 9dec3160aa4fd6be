------------------------------ MODULE AlertRules ------------------------------
(***************************************************************************)
(* The built-in alert rules and their rolling state: per session, detector *)
(* and source group a window of samples and a flag that says whether the   *)
(* fault is already reported.  A row of the black-screen detector is its   *)
(* duration, black ratio and longest black interval; one of the blur       *)
(* detector its score, mean motion and peak motion.                        *)
(*                                                                         *)
(* Times are in half seconds, ratios and scores in hundredths, and the     *)
(* thresholds have the values of config.py.  history and alerted only      *)
(* record what went in and what came out: the rows of each key since the   *)
(* last reset and the positions of those that raised an alert.  MaxSamples *)
(* bounds the rows of all keys together, MaxAlone those of a key while the *)
(* others have none.                                                       *)
(*                                                                         *)
(* Name_Fault is the definition Name with one plausible mistake in it.     *)
(***************************************************************************)
EXTENDS Integers, Sequences, FiniteSets, Folds

CONSTANTS Sessions, Groups, BlackRows, BlurRows, MaxSamples, MaxAlone

\* The fields the rules read, after their coercion to numbers.
BlackRowType == [duration : Nat, ratio : Int, longest : Int]
BlurRowType  == [score : Int, motion : Int, peak : Int]

ASSUME RulesAssumption ==
  /\ MaxSamples \in Nat /\ MaxAlone \in Nat
  /\ BlackRows \subseteq BlackRowType /\ BlurRows \subseteq BlurRowType

VARIABLES windows, seen, active, history, alerted

ruleVars == <<windows, seen, active, history, alerted>>

BlackWindow        == 6
BlackAlertDuration == 2
BlackAlertRatio    == 80
BlackRecoveryRatio == 20

BlurWindow          == 3
BlurAlertScore      == 88
BlurRecoveryScore   == 68
BlurMinHigh         == 2
BlurMinTotalSamples == 5
MotionAmbiguousMedian == 10
MotionAmbiguousScore  == 93
MotionGuardMedian     == 18
MotionGuardPeak       == 24

\* _build_rule_key: <<session, detector, source group>>.
Keys == Sessions \X {"video_metrics", "video_blur"} \X Groups

RowsOf(k) == IF k[2] = "video_metrics" THEN BlackRows ELSE BlurRows

Least(a, b) == IF a <= b THEN a ELSE b
Greatest(a, b) == IF a >= b THEN a ELSE b
Clamp(x) == Greatest(0, Least(100, x))
SumOver(Op(_), S) == MapThenFoldSet(+, 0, Op, LAMBDA T : CHOOSE x \in T : TRUE, S)

\* The sum of the first n members of a sequence of numbers.
SumTo(s, n) ==
  LET sum[m \in Nat] == IF m = 0 THEN 0 ELSE sum[m - 1] + s[m]
  IN  sum[n]

RulesInit ==
  /\ windows = [k \in Keys |-> <<>>]
  /\ seen = [k \in Keys |-> 0]
  /\ active = {}
  /\ history = [k \in Keys |-> <<>>]
  /\ alerted = [k \in Keys |-> {}]

-----------------------------------------------------------------------------
(* The black-screen rule.                                                  *)

Elapsed(w, k) == SumTo([i \in DOMAIN w |-> w[i].duration], k)
Duration(w) == Elapsed(w, Len(w))

\* The sum behind the weighted ratio, which divides it by the duration.
BlackMass(w) == SumTo([i \in DOMAIN w |-> w[i].duration * w[i].ratio], Len(w))

\* Whole samples are dropped from the old end while they fit into the
\* overflow; the one that does not is shortened (_trim_black_window).  In half
\* seconds the floor of a millisecond under a sample and the tolerance of the
\* drop have nothing to do, and sums compare without rounding.
Trim(w) ==
  LET overflow == Duration(w) - BlackWindow
      first    == CHOOSE k \in DOMAIN w :
                    Elapsed(w, k) > overflow /\ Elapsed(w, k - 1) <= overflow
  IN  IF overflow <= 0
      THEN w
      ELSE <<[w[first] EXCEPT !.duration = Elapsed(w, first) - overflow]>>
             \o SubSeq(w, first + 1, Len(w))

\* A duration that is missing or zero counts as one second.
Lasting(row) == Least(IF row.duration = 0 THEN 2 ELSE row.duration, BlackWindow)
BlackRatio(row) == Clamp(row.ratio)
BlackSample(row) == [duration |-> Lasting(row), ratio |-> BlackRatio(row)]

UpdateBlackWindow(w, row) == Trim(Append(w, BlackSample(row)))

EnteredByContinuousBlack(row) == row.longest >= BlackAlertDuration

EnteredByRollingRatio(w) ==
  Duration(w) >= BlackWindow /\ BlackMass(w) >= BlackAlertRatio * Duration(w)

\* Recovery without the rolling ratio: the next clear slice is enough.
BlackRecovered_Fault(w, row) ==
  Duration(w) >= BlackWindow /\ row.longest < BlackAlertDuration

BlackRecovered(w, row) ==
  /\ Duration(w) >= BlackWindow
  /\ BlackMass(w) <= BlackRecoveryRatio * Duration(w)
  /\ row.longest < BlackAlertDuration

BlackState(isActive, w, row) ==
  CASE isActive /\ BlackRecovered(w, row)  -> "recovered"
    [] isActive /\ ~BlackRecovered(w, row) -> "black_active"
    [] ~isActive /\ (EnteredByContinuousBlack(row) \/ EnteredByRollingRatio(w)) -> "entered"
    [] OTHER -> "normal"

-----------------------------------------------------------------------------
(* The blur rule.                                                          *)

BlurSample(row) ==
  [score |-> Clamp(row.score), motion |-> Clamp(row.motion), peak |-> Clamp(row.peak)]

UpdateBlurWindow(w, row) ==
  LET longer == Append(w, BlurSample(row))
  IN  SubSeq(longer, Greatest(1, Len(longer) - BlurWindow + 1), Len(longer))

\* Used on full windows only, whose length is odd.
Median(w, Of(_)) ==
  CHOOSE v \in {Of(w[i]) : i \in DOMAIN w} :
    /\ 2 * Cardinality({i \in DOMAIN w : Of(w[i]) < v}) < Len(w)
    /\ 2 * Cardinality({i \in DOMAIN w : Of(w[i]) > v}) < Len(w)

MedianScore(w)  == Median(w, LAMBDA x : x.score)
MedianMotion(w) == Median(w, LAMBDA x : x.motion)
HighCount(w) == Cardinality({i \in DOMAIN w : w[i].score >= BlurAlertScore})

BlurReady(w, total) == Len(w) >= BlurWindow /\ total >= BlurMinTotalSamples

HighMotion(w) ==
  \/ MedianMotion(w) >= MotionGuardMedian
  \/ \E i \in DOMAIN w : w[i].peak >= MotionGuardPeak

BlurEntry(w) ==
  IF MedianMotion(w) >= MotionAmbiguousMedian
  THEN MedianScore(w) >= MotionAmbiguousScore /\ HighCount(w) >= BlurWindow
  ELSE MedianScore(w) >= BlurAlertScore /\ HighCount(w) >= BlurMinHigh

BlurRecovered(w) == Len(w) >= BlurWindow /\ MedianScore(w) <= BlurRecoveryScore

BlurState(isActive, w, total) ==
  CASE isActive /\ BlurRecovered(w)       -> "recovered"
    [] isActive /\ ~BlurRecovered(w)      -> "blur_active"
    [] ~isActive /\ ~BlurReady(w, total)  -> "not_ready"
    [] ~isActive /\ BlurReady(w, total) /\ HighMotion(w) -> "motion_suppressed"
    [] OTHER -> IF BlurEntry(w) THEN "entered" ELSE "normal"

-----------------------------------------------------------------------------
\* evaluate_alerts for one row of a known detector.
Evaluate(k, row) ==
  LET isBlack == k[2] = "video_metrics"
      w     == IF isBlack THEN UpdateBlackWindow(windows[k], row)
                          ELSE UpdateBlurWindow(windows[k], row)
      state == IF isBlack THEN BlackState(k \in active, w, row)
                          ELSE BlurState(k \in active, w, seen[k] + 1)
  IN  /\ windows' = [windows EXCEPT ![k] = w]
      /\ seen' = [seen EXCEPT ![k] = @ + 1]
      /\ active' = CASE state = "entered"   -> active \cup {k}
                     [] state = "recovered" -> active \ {k}
                     [] OTHER               -> active
      /\ history' = [history EXCEPT ![k] = Append(@, row)]
      /\ alerted' = IF state = "entered"
                    THEN [alerted EXCEPT ![k] = @ \cup {Len(history[k]) + 1}]
                    ELSE alerted

\* A reset that forgets the flags.
Reset_Fault(session) ==
  LET Kept(f, none) == [k \in Keys |-> IF k[1] = session THEN none ELSE f[k]]
  IN  /\ windows' = Kept(windows, <<>>)
      /\ seen' = Kept(seen, 0)
      /\ UNCHANGED active
      /\ history' = Kept(history, <<>>)
      /\ alerted' = Kept(alerted, {})

\* reset_session_rule_state, when a run of the session begins and ends.
Reset(session) ==
  LET Kept(f, none) == [k \in Keys |-> IF k[1] = session THEN none ELSE f[k]]
  IN  /\ windows' = Kept(windows, <<>>)
      /\ seen' = Kept(seen, 0)
      /\ active' = {k \in active : k[1] # session}
      /\ history' = Kept(history, <<>>)
      /\ alerted' = Kept(alerted, {})

\* The bounds.
RoomFor(k) ==
  LET rows == SumOver(LAMBDA other : Len(history[other]), Keys)
  IN  rows < IF rows = Len(history[k]) THEN MaxAlone ELSE MaxSamples

RulesNext ==
  \/ \E k \in Keys :
       /\ RoomFor(k)
       /\ \E row \in RowsOf(k) : Evaluate(k, row)
  \/ \E session \in Sessions : Reset(session)

RulesSpec == RulesInit /\ [][RulesNext]_ruleVars

-----------------------------------------------------------------------------
(* What the rows up to the i-th say, told from history alone.              *)

\* How long the rows up to the i-th last together, how much of row j lies in
\* the last BlackWindow half seconds before the end of row i, and the black
\* time, in hundredths, in there.
Played(h, i) == SumTo([m \in DOMAIN h |-> Lasting(h[m])], i)
Share(h, i, j) ==
  Greatest(0, Played(h, j) - Greatest(Played(h, j - 1), Played(h, i) - BlackWindow))
RecentBlack(h, i) ==
  SumTo([j \in 1 .. i |-> Share(h, i, j) * BlackRatio(h[j])], i)

LastRows(i) == IF i < BlurWindow THEN {} ELSE i - BlurWindow + 1 .. i

\* Among the rows h of the key k: the fault is there at row i, and no motion
\* explains it away.
Faulty(k, h, i) ==
  IF k[2] = "video_metrics"
  THEN \/ h[i].longest >= BlackAlertDuration
       \/ /\ Played(h, i) >= BlackWindow
          /\ RecentBlack(h, i) >= BlackAlertRatio * BlackWindow
  ELSE /\ i >= BlurMinTotalSamples
       /\ \A j \in LastRows(i) :
            h[j].score >= BlurAlertScore /\ h[j].motion < MotionAmbiguousMedian
            /\ h[j].peak < MotionGuardPeak

\* The fault is gone at row i.
Clear(k, h, i) ==
  IF k[2] = "video_metrics"
  THEN /\ Played(h, i) >= BlackWindow
       /\ RecentBlack(h, i) <= BlackRecoveryRatio * BlackWindow
       /\ h[i].longest < BlackAlertDuration
  ELSE /\ i >= BlurWindow
       /\ 2 * Cardinality({j \in LastRows(i) : h[j].score <= BlurRecoveryScore})
            > BlurWindow

\* Two alerts of the same session, detector and source have a moment between
\* them at which the fault was gone for a whole window: duplicates are
\* suppressed until the rolling state clearly recovers (should_alert_video_black).
AlertsAreSeparateEpisodes ==
  \A k \in Keys : \A i, j \in alerted[k] :
    i < j => \E m \in i + 1 .. j - 1 : Clear(k, history[k], m)

\* No fault is silent: whenever it is there an alert was raised since it was
\* last gone, also in a session that runs again and whatever the other
\* sessions and sources did (evaluate_alerts, reset_session_rule_state).
FaultsAreAlerted ==
  \A k \in Keys : LET n == Len(history[k]) IN
    n > 0 /\ Faulty(k, history[k], n)
      => \E i \in alerted[k] : \A m \in i + 1 .. n : ~Clear(k, history[k], m)

=============================================================================
