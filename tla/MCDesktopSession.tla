-------------------------- MODULE MCDesktopSession --------------------------
(* One page after another, two windows, one of an app that is gone.        *)
EXTENDS DesktopSession

CONSTANTS shell, files, notes

MCWindows   == {shell}
MCApps      == {files, notes}
MCRequests  == {Load} \cup {Save(l) : l \in Layouts}
\* Nothing yet, and two windows, one of them minimised.
MCRemembered ==
  {{}, {Saved(files, FALSE), Saved(notes, TRUE)}}
MCMerged    == {Load}
MCPatience  == [r \in MCRequests |-> 2]
MCShortPatience == [r \in MCRequests |-> 1]
MCCallIds   == 1..MaxCalls
=============================================================================
