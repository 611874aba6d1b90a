---------------------------- MODULE UploadContract ----------------------------
(***************************************************************************)
(* What the list of uploads promises its user: each card goes its way from *)
(* waiting to done, failed or dismissed, whatever happens on the way, and  *)
(* says done only of a file the storage holds completely.                  *)
(***************************************************************************)
CONSTANTS Cards, Files, File

VARIABLES
    phase,    \* what the card of an upload shows
    stored    \* the files of which the storage holds every part

contractVars == <<phase, stored>>

Moves(c, from, to) ==
    phase[c] \in from /\ phase' = [phase EXCEPT ![c] = to]

Init == phase = [c \in Cards |-> "none"] /\ stored = {}

Submit(c)  == \E p \in {"waiting", "failed"} : Moves(c, {"none"}, p)
Begin(c)   == Moves(c, {"waiting"}, "busy")
Succeed(c) == Moves(c, {"busy"}, "done") /\ File[c] \in stored
Fail(c)    == Moves(c, {"waiting", "busy"}, "failed")
Retry(c)   == Moves(c, {"failed"}, "waiting")
Cancel(c)  == Moves(c, {"waiting", "failed"}, "busy")
Dismiss(c) == Moves(c, {"waiting", "busy", "done", "failed", "hint"}, "none")

\* A card is added in the place of the hint it resumes.
Resume(c, h) ==
    /\ phase[c] = "none" /\ phase[h] = "hint" /\ File[c] = File[h]
    /\ \E p \in {"waiting", "failed"} :
         phase' = [phase EXCEPT ![c] = p, ![h] = "none"]

\* All hints are dismissed together.
Forget == phase' = [c \in Cards |-> IF phase[c] = "hint" THEN "none" ELSE phase[c]]

\* Cards of ended uploads are dismissed together.
Tidy ==
    \E gone \in SUBSET {c \in Cards : phase[c] \in {"busy", "done", "failed"}} :
        phase' = [c \in Cards |-> IF c \in gone THEN "none" ELSE phase[c]]

\* The page is loaded anew: unfinished uploads may come back as hints.
Reload == phase' \in [Cards -> {"none", "hint"}]

Next ==
    /\ stored \subseteq stored'
    /\ \/ phase' = phase
       \/ \E c \in Cards : \/ Submit(c) \/ Begin(c) \/ Succeed(c) \/ Fail(c)
                            \/ Retry(c) \/ Cancel(c) \/ Dismiss(c)
       \/ \E c, h \in Cards : Resume(c, h)
       \/ Forget \/ Tidy \/ Reload

Spec == Init /\ [][Next]_contractVars
=============================================================================
