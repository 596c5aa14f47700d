----------------------------- MODULE BuildSwitch -----------------------------
(***************************************************************************)
(* What core/modules/FxBuilds promises of the choice of the build the game  *)
(* server starts on, whatever is downloaded, deleted, copied or saved       *)
(* meanwhile: the choice is an administrator's, is put on trial until the   *)
(* server booted from it, and goes back to the one before it at the second  *)
(* failed boot and for no other reason.                                     *)
(*                                                                         *)
(* Two things may bring an earlier choice back: the panel restarts from a   *)
(* state file that is older, and a deletion ends that began before the      *)
(* choice was made.  kept holds the choices that may come back so.          *)
(***************************************************************************)
EXTENDS Naturals

CONSTANTS
    Builds,         \* managed builds
    Panel           \* the panel's own build (null in the code)

VARIABLES
    choice,         \* [active, previous, trial]
    kept            \* set of choices

Trials == {"none", "new", "failed"}
Choices == [active : Builds \cup {Panel}, previous : Builds \cup {Panel},
            trial : Trials]

\* The choice of a panel without a state file.
Default == [active |-> Panel, previous |-> Panel, trial |-> "none"]

Init ==
    /\ choice = Default
    /\ kept \subseteq {Default}

\* An administrator chooses another build, or goes back to the previous one.
Switch ==
    \E b \in (Builds \cup {Panel}) \ {choice.active} :
        choice' = [active |-> b, previous |-> choice.active,
                   trial |-> IF b = Panel THEN "none" ELSE "new"]

\* A server started from the build on trial booted.
Verify ==
    /\ choice.trial # "none"
    /\ choice' = [choice EXCEPT !.trial = "none"]

\* The first boot of the build on trial failed.
Fail ==
    /\ choice.trial = "new"
    /\ choice' = [choice EXCEPT !.trial = "failed"]

\* The second one failed: the panel's build stands in for a previous one
\* that is no longer installed.
Revert ==
    /\ choice.trial = "failed"
    /\ \E b \in {choice.previous, Panel} :
           choice' = [active |-> b, previous |-> choice.active, trial |-> "none"]

\* The previous build is deleted.
Forget == choice' = [choice EXCEPT !.previous = Panel]

ComeBack == choice' \in kept \cup {Default}

\* Only a choice that is, or is being, made can be kept.
Next ==
    /\ Switch \/ Verify \/ Fail \/ Revert \/ Forget \/ ComeBack \/ UNCHANGED choice
    /\ \A k \in kept' : k \in kept \/ \E p \in {choice.previous, Panel} :
           k \in {choice', [choice EXCEPT !.previous = p]}

Spec == Init /\ [][Next]_<<choice, kept>>

=============================================================================
