-------------------------------- MODULE MCAlerts --------------------------------
(***************************************************************************)
(* Four machines side by side, the way of an alert: the analysis of        *)
(* slices, the alert rules, the alert queries and the alerts the frontend  *)
(* shows.  They share no variable.  The initial state chooses the one that *)
(* runs; the others stay in their initial state.                           *)
(***************************************************************************)
EXTENDS SliceAnalysis, AlertRules, AlertQueries, AlertReveal, TLC

VARIABLE part

(* Two workers: one runs every detector, the other one of them.            *)
CONSTANT w2
Selections ==
  [w \in Workers |-> IF w = w2 THEN {"video_metrics"} ELSE Detectors]

(* Rows of the detectors: no duration and some black, all black and        *)
(* continuous, half black over a long slice; in focus, blurred at rest,    *)
(* blurred in motion.                                                      *)
BlackScreenRows ==
  {[duration |-> 0, ratio |-> 10, longest |-> 0],
   [duration |-> 2, ratio |-> 90, longest |-> 1],
   [duration |-> 8, ratio |-> 50, longest |-> 2]}
BlurryRows ==
  {[score |-> 30, motion |-> 2, peak |-> 5],
   [score |-> 90, motion |-> 2, peak |-> 5],
   [score |-> 95, motion |-> 20, peak |-> 22]}

(* Queries through both doors: everything, one topic in a time range, the  *)
(* timeline, and a range that is turned round.                             *)
TopicNames == {"black", "blur"}
Asking(route, door, topic, from, to) ==
  [route |-> route, door |-> door, topic |-> topic, from |-> from, to |-> to,
   limit |-> 1]
SomeQueries ==
  {Asking("alerts", "http", "any", 0, MaxClock),
   Asking("alerts", "mcp", "black", 1, 2),
   Asking("timeline", "http", "any", 0, MaxClock),
   Asking("timeline", "mcp", "any", 2, 1)}

(* The playlists: a segment each second, and one of two seconds first.     *)
Playlists == {(1 :> 0 @@ 2 :> 1), (1 :> 0 @@ 2 :> 2 @@ 3 :> 3)}

-----------------------------------------------------------------------------
Init ==
  /\ part \in {"analysis", "rules", "queries", "reveal"}
  /\ AnalysisInit /\ selection = Selections
  /\ RulesInit /\ QueriesInit /\ RevealInit

Next ==
  /\ UNCHANGED part
  /\ \/ /\ part = "analysis" /\ AnalysisNext
        /\ UNCHANGED <<ruleVars, queryVars, revealVars>>
     \/ /\ part = "rules" /\ RulesNext
        /\ UNCHANGED <<analysisVars, queryVars, revealVars>>
     \/ /\ part = "queries" /\ QueriesNext
        /\ UNCHANGED <<analysisVars, ruleVars, revealVars>>
     \/ /\ part = "reveal" /\ RevealNext
        /\ UNCHANGED <<analysisVars, ruleVars, queryVars>>

Spec == Init /\ [][Next]_<<part, analysisVars, ruleVars, queryVars, revealVars>>

=============================================================================
