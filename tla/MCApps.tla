------------------------------- MODULE MCApps -------------------------------
(***************************************************************************)
(* Three apps' own protocols, which share no state: a Text with what is     *)
(* typed into it (two places), a Docs window (two documents, one there at   *)
(* first), and Compiler windows (one window, one project, one scratch       *)
(* folder).  A behaviour is one of any of the three; the others stay as     *)
(* they began.                                                             *)
(***************************************************************************)
EXTENDS TextSync, Builds, Docs

CONSTANTS
  i1, i2, t0, t1, mixed,                    \* ids and texts of the Text
  d1, d2,                                   \* of Docs
  w1, proj, tmp                             \* of Builds

MCIds   == {i1, i2}
MCTexts == {t0, t1, mixed}
MCDocs  == {d1, d2}
MCFirst == {d1}
MCNs    == 0..1

VARIABLE part

apps == <<vars, dvars, bvars, part>>

MCInit ==
  /\ part \in {"text", "docs", "compiler"}
  /\ Init /\ DInit /\ BInit

TextStep     == part = "text" /\ Next /\ UNCHANGED <<dvars, bvars, part>>
DocsStep     == part = "docs" /\ DNext /\ UNCHANGED <<vars, bvars, part>>
CompilerStep == part = "compiler" /\ BNext /\ UNCHANGED <<vars, dvars, part>>

MCNext == TextStep \/ DocsStep \/ CompilerStep

\* DFairness and BFairness, each in its own part.
DocsFairness ==
  /\ WF_dvars(part = "docs" /\ Frame)
  /\ WF_dvars(part = "docs" /\ (HearWrite \/ FailWrite))

CompilerFairness ==
  /\ \A w \in Windows : /\ WF_bvars(part = "compiler" /\ FrameOf(w))
                       /\ WF_bvars(part = "compiler" /\ Network(w))
  /\ WF_bvars(part = "compiler" /\ \E k \in DOMAIN jobs : Thread(k))
  /\ WF_bvars(part = "compiler" /\ SweepScratch)
  /\ WF_bvars(part = "compiler" /\ Elapse)

MCSpec == MCInit /\ [][MCNext]_apps /\ DocsFairness /\ CompilerFairness

=============================================================================
