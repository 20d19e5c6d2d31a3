------------------------------ MODULE CardLock ------------------------------
(***************************************************************************)
(* scripts/card_lock.py: replacing the default management keys of a card   *)
(* by keys that are escrowed first (lock), and restoring them (unlock).    *)
(*                                                                         *)
(* Several invocations run at once.  Each gp call is a process of its own  *)
(* that talks to whatever card is then in the reader: a card may be        *)
(* swapped between any two calls, a call may time out after the card did   *)
(* what it asked, an invocation may be killed, and the machine may lose    *)
(* power.  A file or directory survives a loss of power for certain only   *)
(* when its directory entry was fsynced.                                   *)
(***************************************************************************)
EXTENDS Naturals

CONSTANTS
  Cards,     \* cards that pass the version, template and registry checks
  Runs,      \* invocations of the tool
  Paths,     \* escrow file names in the escrow directory
  None,      \* no file, no card
  MaxKeys,   \* bound on the keys drawn
  MaxSwaps   \* bound on the card swaps

Default == 0
Key == 0..MaxKeys
Escrow == [card : Cards, key : Key, durable : BOOLEAN]

ASSUME LockAssumption ==
  None \notin Cards \cup Escrow /\ MaxKeys \in Nat /\ MaxSwaps \in Nat

VARIABLES
  keys,      \* the management key on each card; drawn keys are numbered from 1
  slot,      \* the card in the reader
  denied,    \* the owner's deny list
  dir,       \* the escrow directory
  files,     \* the escrow files
  run,       \* the invocations
  drawn,     \* keys drawn so far
  swaps,     \* swaps so far
  lost       \* history: a loss of power took the directory with its files

vars == <<keys, slot, denied, dir, files, run, drawn, swaps, lost>>
disk == <<dir, files, lost>>
desk == <<keys, slot, denied, swaps>>

Before == {"idle", "decrypt", "identify", "authenticate", "mkdir", "syncDir",
           "link", "syncFile", "readBack", "recheck", "rotate"}
After == {"verify", "confirm"}
Ends == {"refused", "unverified", "verified"}

\* hit, moved and barred are history: the card the rotation met, the swaps since
\* the recheck, and the deny list the recheck read.
Invocation == [pc : Before \cup After \cup Ends, act : {"lock", "unlock"},
               path : Paths \cup {None}, card : Cards \cup {None}, key : Key,
               hit : Cards \cup {None}, moved : 0..MaxSwaps, barred : SUBSET Cards]

Init ==
  /\ keys = [c \in Cards |-> Default]
  /\ slot \in Cards
  /\ denied = {}
  /\ dir = "absent"
  /\ files = [p \in Paths |-> None]
  /\ run = [r \in Runs |-> [pc |-> "idle", act |-> "lock", path |-> None, card |-> None,
                            key |-> Default, hit |-> None, moved |-> 0, barred |-> {}]]
  /\ drawn = 0 /\ swaps = 0 /\ lost = FALSE

At(r, place) == run[r].pc = place
Active(r) == run[r].pc \notin Ends \cup {"idle"}
Goto(r, place) == run' = [run EXCEPT ![r].pc = place]

\* Where a failing step ends, by the flag attempted: the except clause, or the
\* death of the process.
Stopped(r) == [run[r] EXCEPT !.pc = IF @ \in Before THEN "refused" ELSE "unverified"]

\* The keys that open the card before, and after, the rotation.
Current(r) == IF run[r].act = "lock" THEN Default ELSE run[r].key
Target(r) == IF run[r].act = "lock" THEN run[r].key ELSE Default
-----------------------------------------------------------------------------
(* Before the rotation.                                                    *)

Start(r) ==
  /\ At(r, "idle")
  /\ \E p \in Paths :
       \/ run' = [run EXCEPT ![r].pc = "identify", ![r].path = p]
       \/ run' = [run EXCEPT ![r].pc = "decrypt", ![r].path = p, ![r].act = "unlock"]
  /\ UNCHANGED <<disk, desk, drawn>>

\* unlock opens the escrow before it touches the card.
Decrypt(r) ==
  /\ At(r, "decrypt")
  /\ LET file == files[run[r].path] IN
       /\ file # None
       /\ run' = [run EXCEPT ![r].pc = "identify", ![r].card = file.card, ![r].key = file.key]
  /\ UNCHANGED <<disk, desk, drawn>>

\* gp -i, the deny list and, for unlock, the card the escrow is of.
Identify(r) ==
  /\ At(r, "identify")
  /\ slot \notin denied
  /\ run[r].act = "unlock" => run[r].card = slot
  /\ run' = [run EXCEPT ![r].pc = "authenticate", ![r].card = slot]
  /\ UNCHANGED <<disk, desk, drawn>>

\* gp -l with the keys that must be on the card, the typed serial, and for
\* lock the fresh key.
Authenticate(r) ==
  /\ At(r, "authenticate")
  /\ keys[slot] = Current(r)
  /\ \/ /\ run[r].act = "unlock"
        /\ Goto(r, "recheck")
        /\ UNCHANGED drawn
     \/ /\ run[r].act = "lock" /\ drawn < MaxKeys
        /\ drawn' = drawn + 1
        /\ run' = [run EXCEPT ![r].pc = "mkdir", ![r].key = drawn + 1]
  /\ UNCHANGED <<disk, desk>>

\* parent_fd: a directory that is there is taken as it is.
MakeDir(r) ==
  /\ At(r, "mkdir")
  /\ \/ dir = "absent" /\ dir' = "made" /\ Goto(r, "syncDir")
     \/ dir # "absent" /\ UNCHANGED dir /\ Goto(r, "link")
  /\ UNCHANGED <<files, lost, desk, drawn>>

SyncDir(r) ==
  /\ At(r, "syncDir")
  /\ dir' = "durable"
  /\ Goto(r, "link")
  /\ UNCHANGED <<files, lost, desk, drawn>>

\* atomic_escrow: the fsynced ciphertext gets its name, unless the name is taken.
Link(r) ==
  /\ At(r, "link")
  /\ files[run[r].path] = None
  /\ files' = [files EXCEPT ![run[r].path] =
                 [card |-> run[r].card, key |-> run[r].key, durable |-> FALSE]]
  /\ Goto(r, "syncFile")
  /\ UNCHANGED <<dir, lost, desk, drawn>>

\* Mutant: the directory is not fsynced after the link.
SyncFile_Skipped(r) ==
  /\ At(r, "syncFile")
  /\ Goto(r, "readBack")
  /\ UNCHANGED <<disk, desk, drawn>>

\* The fsync of the directory covers every name in it.
SyncFile(r) ==
  /\ At(r, "syncFile")
  /\ files' = [p \in Paths |-> IF files[p] = None THEN None
                               ELSE [files[p] EXCEPT !.durable = TRUE]]
  /\ Goto(r, "readBack")
  /\ UNCHANGED <<dir, lost, desk, drawn>>

ReadBack(r) ==
  /\ At(r, "readBack")
  /\ LET file == files[run[r].path] IN
       file # None /\ file.card = run[r].card /\ file.key = run[r].key
  /\ Goto(r, "recheck")
  /\ UNCHANGED <<disk, desk, drawn>>

\* Mutant: the deny list is read once, before the serial is typed.
Recheck_NoDenyList(r) ==
  /\ At(r, "recheck")
  /\ slot = run[r].card
  /\ run' = [run EXCEPT ![r].pc = "rotate", ![r].moved = 0, ![r].barred = denied]
  /\ UNCHANGED <<disk, desk, drawn>>

\* gp -i and the deny list again.
Recheck(r) ==
  /\ At(r, "recheck")
  /\ slot = run[r].card /\ slot \notin denied
  /\ run' = [run EXCEPT ![r].pc = "rotate", ![r].moved = 0, ![r].barred = denied]
  /\ UNCHANGED <<disk, desk, drawn>>
-----------------------------------------------------------------------------
(* The rotation and after.                                                 *)

\* PUT KEY under a secure channel of the current keys, to the card that is in
\* the reader now.  The answer may be lost.
Rotate(r) ==
  /\ At(r, "rotate")
  /\ keys[slot] = Current(r)
  /\ keys' = [keys EXCEPT ![slot] = Target(r)]
  /\ \E next \in {"verify", "unverified"} :
       run' = [run EXCEPT ![r].pc = next, ![r].hit = slot]
  /\ UNCHANGED <<disk, slot, denied, swaps, drawn>>

\* PUT KEY refused, or the process killed: attempted is set, nothing changed.
RotateFails(r) ==
  /\ At(r, "rotate")
  /\ Goto(r, "unverified")
  /\ UNCHANGED <<disk, desk, drawn>>

\* gp -l with the new keys.
Verify(r) ==
  /\ At(r, "verify")
  /\ keys[slot] = Target(r)
  /\ Goto(r, "confirm")
  /\ UNCHANGED <<disk, desk, drawn>>

\* Mutant: no identity check after the rotation.
Confirm_AnyCard(r) ==
  /\ At(r, "confirm")
  /\ Goto(r, "verified")
  /\ UNCHANGED <<disk, desk, drawn>>

\* gp -i for the last time.
Confirm(r) ==
  /\ At(r, "confirm")
  /\ slot = run[r].card
  /\ Goto(r, "verified")
  /\ UNCHANGED <<disk, desk, drawn>>

\* A refusal, a failing call, a user who does not confirm, or a kill.
GiveUp(r) ==
  /\ Active(r) /\ ~At(r, "rotate")
  /\ run' = [run EXCEPT ![r] = Stopped(r)]
  /\ UNCHANGED <<disk, desk, drawn>>
-----------------------------------------------------------------------------
(* The surroundings.                                                       *)

\* Every invocation dies; names not fsynced may be gone.
PowerLoss ==
  /\ run' = [r \in Runs |-> IF Active(r) THEN Stopped(r) ELSE run[r]]
  /\ \/ \E gone \in SUBSET Paths :
          /\ \A p \in gone : files[p] # None /\ ~files[p].durable
          /\ files' = [p \in Paths |-> IF p \in gone THEN None ELSE files[p]]
          /\ UNCHANGED <<dir, lost>>
     \/ /\ dir = "made"
        /\ dir' = "absent" /\ files' = [p \in Paths |-> None]
        /\ lost' = (lost \/ \E p \in Paths : files[p] # None)
  /\ UNCHANGED <<desk, drawn>>

\* From the recheck to the end swaps are counted.
Watched(r) == run[r].pc \in After \cup {"rotate"}

Swap ==
  /\ swaps < MaxSwaps
  /\ \E c \in Cards \ {slot} : slot' = c
  /\ swaps' = swaps + 1
  /\ run' = [r \in Runs |-> IF Watched(r) THEN [run[r] EXCEPT !.moved = @ + 1] ELSE run[r]]
  /\ UNCHANGED <<disk, keys, denied, drawn>>

Deny ==
  /\ \E c \in Cards \ denied : denied' = denied \cup {c}
  /\ UNCHANGED <<disk, keys, slot, run, drawn, swaps>>

Step(r) ==
  \/ Start(r) \/ Decrypt(r) \/ Identify(r) \/ Authenticate(r)
  \/ MakeDir(r) \/ SyncDir(r) \/ Link(r) \/ SyncFile(r) \/ ReadBack(r) \/ Recheck(r)
  \/ Rotate(r) \/ RotateFails(r) \/ Verify(r) \/ Confirm(r) \/ GiveUp(r)

Next == (\E r \in Runs : Step(r)) \/ PowerLoss \/ Swap \/ Deny

Spec == Init /\ [][Next]_vars
-----------------------------------------------------------------------------
(* Properties.                                                             *)

TypeOK ==
  /\ keys \in [Cards -> Key] /\ slot \in Cards /\ denied \subseteq Cards
  /\ dir \in {"absent", "made", "durable"}
  /\ files \in [Paths -> Escrow \cup {None}]
  /\ run \in [Runs -> Invocation]
  /\ drawn \in 0..MaxKeys /\ swaps \in 0..MaxSwaps /\ lost \in BOOLEAN

Kept(c) == \E p \in Paths : files[p] # None /\ files[p].key = keys[c]

\* The management keys of a card are never only on the card: whatever was
\* killed, swapped, raced for a file name or lost with the power, the key it
\* was locked with is in an escrow file that a loss of power leaves alone,
\* unless the whole directory went (lines 361-375).
Recoverable ==
  ~lost => \A c \in Cards : keys[c] # Default =>
             \E p \in Paths : files[p] # None /\ files[p].durable /\ files[p].key = keys[c]

\* What docs/card-lock.md says of the publication, without the exception.
DurablyPublished == \A c \in Cards : keys[c] # Default => Kept(c)

\* An escrow on a durable name is never overwritten or removed, not even by an
\* unlock that made it superfluous (atomic_escrow links, it never renames).
EscrowFinal ==
  [][\A p \in Paths : files[p] # None =>
       \/ files'[p] # None /\ files'[p].card = files[p].card /\ files'[p].key = files[p].key
       \/ files'[p] = None /\ (~files[p].durable \/ dir = "made")]_vars

\* The rotation met another card than the identified one only if cards were
\* swapped after the recheck, and to have such a rotation reported as verified
\* takes a second swap, back to the first card (lines 369-379).
VerifiedIsTrue ==
  \A r \in Runs : run[r].hit \notin {None, run[r].card} =>
    run[r].moved >= (IF At(r, "verified") THEN 2 ELSE 1)

\* A card on the deny list at the last check is rotated only when it was put
\* into the reader after that check (lines 267-281, 371).
DenyHonoured ==
  \A r \in Runs : run[r].hit \in run[r].barred => run[r].moved > 0
=============================================================================
