------------------------------ MODULE MCShell ------------------------------
(***************************************************************************)
(* The shell's windows, the frames of one app drawn in one of them, and     *)
(* what a project upload from one sends: three views that share no         *)
(* variable.  A behaviour is one of any; the others stay as they began.     *)
(***************************************************************************)
EXTENDS Frames, Windows, ProjectFiles

CONSTANTS viewer, song, film

\* One frame of four calls, and three frames of two, one and none.
MCApps   == {<<4>>, <<2, 1, 0>>}
MCRawIds == {<<1>>, <<2>>}

MCPlaces == {1, 2}
MCSizes  == {"small", "large"}
MCStart  == [pos |-> 1, size |-> "small"]
MCPlaced == {Restored(viewer, MCStart, min, max) : min, max \in BOOLEAN}
MCDraws  ==
    {Blank, [Blank EXCEPT !.asks = "large"]}
    \cup {[Blank EXCEPT !.plays = s] : s \in {song, film}}
    \cup {[Blank EXCEPT !.plays = song, !.scrolled = TRUE]}

\* A project of three levels, whose names are x, a, and the repository's.
MCStars    == {"**"}
MCPatterns == {<<{"x"}>>, <<{"x", "a"}>>, <<MCStars>>, <<MCStars, {"a"}>>,
               <<{"x"}, MCStars>>, <<{"x"}, MCStars, {"a"}>>}
MCNames    == {"x", "a", ".git"}
MCPaths    == UNION {[1..n -> {"x", "a"}] : n \in 1..3} \cup {<<"x", ".git", "a">>}
MCFolders  == {<< >>, <<"x">>}

VARIABLE part

shell == <<fvars, wvars, ignores, part>>

Init ==
    /\ part \in {"frames", "windows", "project"}
    /\ FInit /\ WInit /\ PInit
    /\ part # "windows" => started = << >>
    /\ part # "frames" => Len(rec.app) = 1

FramesStep  == part = "frames" /\ FNext /\ UNCHANGED <<wvars, ignores, part>>
WindowsStep == part = "windows" /\ WNext /\ UNCHANGED <<fvars, ignores, part>>
ProjectStep == part = "project" /\ PNext /\ UNCHANGED <<fvars, wvars, part>>

Next == FramesStep \/ WindowsStep \/ ProjectStep

Spec == Init /\ [][Next]_shell

=============================================================================
