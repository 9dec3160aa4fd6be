----------------------------- MODULE MCHlsLoader -----------------------------
(***************************************************************************)
(* The instances of HlsLoader that TLC checks: one run over a window that  *)
(* can hold two unread segments, with the constants of the .cfg file, and  *)
(* two runs of one session over a window of one.  The initial state        *)
(* chooses the shape; each is HlsLoader on the same variables.             *)
(***************************************************************************)
EXTENDS HlsLoader

VARIABLE shape

\* Two runs, the first of which may be killed.  The window slides, the replay
\* cache forgets what left it, and a third refresh lets a restarted publisher
\* list that again.  A deletion may fail.  A response is one chunk, and the first
\* playlist that cannot be fetched ends the run.
Reruns == INSTANCE HlsLoader
            WITH MaxSeq <- 2, WindowSize <- 1, MaxRefreshes <- 3, MaxRuns <- 2,
                 MaxUndeleted <- 1, MaxChunks <- 1, MaxDepth <- 0, MaxReconnects <- 0

ShapedVars == <<vars, shape>>

ShapedInit == Init /\ shape \in {"one run", "two runs"}

ShapedStep ==
  \/ shape = "one run" /\ LoaderStep
  \/ shape = "two runs" /\ Reruns!LoaderStep

ShapedNext ==
  /\ \/ shape = "one run" /\ Next
     \/ shape = "two runs" /\ Reruns!Next
  /\ UNCHANGED shape

ShapedSpec ==
  /\ ShapedInit /\ [][ShapedNext]_ShapedVars
  /\ WF_ShapedVars(ShapedStep /\ UNCHANGED shape)
===============================================================================
