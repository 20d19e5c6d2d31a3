---------------------------- MODULE RetryCounter ----------------------------
(***************************************************************************)
(* What a secret behind a retry counter promises: a right guess restores   *)
(* the tries, a wrong one costs one of them, no guess is taken when none   *)
(* is left, and the secret is replaced and its tries restored in one step. *)
(***************************************************************************)
EXTENDS Naturals

CONSTANTS
  Limit,       \* tries of a fresh counter
  Replaceable  \* may a secret that was set be replaced?

VARIABLES
  version,  \* how many secrets were installed so far; 0 means none is set
  tries     \* guesses left

vars == <<version, tries>>

Init == version \in {0, 1} /\ tries = Limit

Right ==
  /\ version > 0 /\ tries > 0
  /\ tries' = Limit /\ UNCHANGED version

Wrong ==
  /\ version > 0 /\ tries > 0
  /\ tries' = tries - 1 /\ UNCHANGED version

Install ==
  /\ version > 0 => Replaceable
  /\ version' = version + 1 /\ tries' = Limit

Next == Right \/ Wrong \/ Install

Spec == Init /\ [][Next]_vars

=============================================================================
