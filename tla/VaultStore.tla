----------------------------- MODULE VaultStore -----------------------------
(***************************************************************************)
(* What a vault promises: a small map from names to secrets of two         *)
(* classes, changed one whole entry at a time and only while its owner is  *)
(* logged in.  A bearer secret can be read back; an HMAC secret never can. *)
(***************************************************************************)
EXTENDS Naturals

CONSTANTS
  Names,     \* entry names
  Secrets,   \* secrets; each is imported at most once
  Capacity   \* how many entries fit

VARIABLES
  store,     \* the entries
  revealed,  \* secrets that were read back
  imported   \* secrets ever imported

vars == <<store, revealed, imported>>

Entries == [kind: {"hmac", "bearer"}, name: Names, secret: Secrets]

\* Every entry of S finds a place of its own.
Fits(S) ==
  \E place \in [S -> 1 .. Capacity] :
    \A e, f \in S : e # f => place[e] # place[f]

Init == store = {} /\ revealed = {} /\ imported = {}

Import ==
  \E e \in Entries :
    /\ \A f \in store : f.name # e.name
    /\ e.secret \notin imported
    /\ Fits(store \cup {e})
    /\ store' = store \cup {e}
    /\ imported' = imported \cup {e.secret}
    /\ UNCHANGED revealed

Remove ==
  /\ \E e \in store : store' = store \ {e}
  /\ UNCHANGED <<revealed, imported>>

ReadBack ==
  /\ \E e \in store : e.kind = "bearer" /\ revealed' = revealed \cup {e.secret}
  /\ UNCHANGED <<store, imported>>

Next == Import \/ Remove \/ ReadBack

Spec == Init /\ [][Next]_vars

=============================================================================
