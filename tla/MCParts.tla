------------------------------ MODULE MCParts ------------------------------
(***************************************************************************)
(* Five parts that keep a state of their own and share none of it: of the  *)
(* server the Keycloak it starts, the app passwords and the throttle of    *)
(* the WebDAV sign-in, of the browser the uploads and a Viewer window.  A  *)
(* behaviour is one of any of the five; the others stay as they began, so  *)
(* that one run checks them all.                                           *)
(***************************************************************************)
EXTENDS Keycloak, AppPasswords, Throttle, Uploads, Viewer

CONSTANTS w1, w2, ann, files, compiler, mine, theirs

MCUserOf == [w \in Windows |-> ann]

MCButton == [w \in AppWindows |-> IF w = files THEN "folder" ELSE "project"]

-----------------------------------------------------------------------------
(* The files a Viewer is opened on: tables of up to two cells, of up to two *)
(* characters each, and one of every other kind that matters.               *)

Chars == {"x", "sep", "quote", "newline"}
Cells == {<< >>} \cup {<<c>> : c \in Chars} \cup {<<c, d>> : c \in Chars, d \in Chars}
         \cup {<<"return">>, <<"x", "return">>, <<"return", "newline">>}
Short == {<< >>, <<"x">>, <<"quote">>}
Tables ==
    {<<<<c>>>> : c \in Cells} \cup {<<<<c, d>>>> : c \in Cells, d \in Cells}
    \cup {<<<<c>>, <<d>>>> : c \in Cells, d \in Short}

Doc(name, entry, big, really, for, isText, rows, crlf) ==
    [name |-> name, entry |-> entry, big |-> big, really |-> really, work |-> for,
     isText |-> isText, rows |-> rows, crlf |-> crlf]

MCDocuments ==
    {Doc("table", "file", FALSE, "not media", 0, TRUE, t, crlf) : t \in Tables, crlf \in BOOLEAN}
    \cup {Doc(n, e, FALSE, "not media", 0, TRUE, << >>, FALSE) :
            n \in {"media", "pdf", "text"}, e \in {"file", "dir", "missing"}}
    \cup {Doc(n, e, big, "not media", 0, isText, <<<<<<"x">>>>>>, FALSE) :
            n \in {"unknown", "table"}, e \in {"file", "cut off"}, big \in BOOLEAN,
            isText \in BOOLEAN}
    \cup {Doc("media", "file", TRUE, r, for, FALSE, << >>, FALSE) :
            r \in {"picture", "animated", "video", "audio", "broken"}, for \in {0, 2}}

-----------------------------------------------------------------------------

VARIABLE part

Parts == {"keycloak", "app passwords", "throttle", "uploads", "viewer"}

parts == <<kvars, avars, tvars, uvars, vvars, part>>

\* No Viewer: nothing is drawn and nothing is due.
NoViewer ==
    /\ doc = CHOOSE d \in Documents : d.entry = "missing"
    /\ contents = << >>
    /\ view = [file |-> FALSE, query |-> "short", converting |-> FALSE, loaded |-> FALSE,
               rows |-> << >>, asText |-> FALSE, details |-> FALSE]
    /\ slot = [r \in Asks |-> "unasked"]
    /\ work = 0
    /\ screen = "blank"
    /\ due = FALSE
    /\ lost = 0

\* A part that is not the one keeps one of its initial states.  Nothing tells
\* the two old passwords apart, so that one of them stands for both in the volume.
Init ==
    /\ part \in Parts
    /\ KInit /\ AInit /\ TInit /\ UInit
    /\ volume.admin # theirs
    /\ part # "keycloak" =>
        /\ container = NoContainer /\ legacy = [s \in Servers |-> NoPassword]
        /\ volume = [admin |-> NoPassword, realm |-> FALSE, client |-> FALSE]
    /\ IF part = "viewer" THEN VInit ELSE NoViewer

KeycloakStep ==
    part = "keycloak" /\ KNext /\ UNCHANGED <<avars, tvars, uvars, vvars, part>>
AppPasswordsStep ==
    part = "app passwords" /\ ANext /\ UNCHANGED <<kvars, tvars, uvars, vvars, part>>
ThrottleStep ==
    part = "throttle" /\ TNext /\ UNCHANGED <<kvars, avars, uvars, vvars, part>>
UploadsStep ==
    part = "uploads" /\ UNext /\ UNCHANGED <<kvars, avars, tvars, vvars, part>>
ViewerStep ==
    part = "viewer" /\ VNext /\ UNCHANGED <<kvars, avars, tvars, uvars, part>>

Next == KeycloakStep \/ AppPasswordsStep \/ ThrottleStep \/ UploadsStep \/ ViewerStep

\* What the fairness speaks of is enabled in its own part only.
Spec == Init /\ [][Next]_parts /\ UFairness /\ VFairness

=============================================================================
