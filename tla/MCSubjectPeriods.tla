-------------------------- MODULE MCSubjectPeriods --------------------------
(***************************************************************************)
(* Small instances of SubjectPeriods for TLC.                              *)
(***************************************************************************)
EXTENDS SubjectPeriods

(***************************************************************************)
(* Two paused periods are more than a search of all interleavings gets     *)
(* through.  EagerSpec has some of the behaviours of Spec, every step of   *)
(* EagerNext being one of Next: Route handles at once all but a __paused__,*)
(* those who may reload go first, and they reload when they have just sent *)
(* a __paused__.                                                           *)
(***************************************************************************)
IsPrompt(n) == up[n] # <<>> /\ Head(up[n]).key # "__paused__"

HasPaused(s) == \E m \in ToSet(up[s]) : m.key = "__paused__"

EagerNext ==
    \/ \E n \in DOMAIN up : Handle(n)
    \/ /\ ~\E n \in DOMAIN up : IsPrompt(n)
       /\ \/ ClickResume
          \/ \E s \in Reloaders : Browser(s) \/ (HasPaused(s) /\ UserReload(s))
          \/ /\ ~\E s \in Reloaders : ENABLED Browser(s)
             /\ \E s \in Subjects \ Reloaders : Browser(s)

EagerSpec == Init /\ [][EagerNext]_vars
=============================================================================
