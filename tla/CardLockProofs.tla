--------------------------- MODULE CardLockProofs ---------------------------
(***************************************************************************)
(* Proofs about CardLock, for any cards, invocations, escrow names and     *)
(* bounds.                                                                 *)
(*                                                                         *)
(* Recoverable is not inductive: that the key of a rotation is on disk was *)
(* established several steps earlier, and survives because nothing ever    *)
(* replaces a file.  Filed carries it from the link to the rotation.       *)
(* Aimed relates the card in the reader to the identified one by the swaps *)
(* since the recheck: none, it is that card; one, it is not.               *)
(***************************************************************************)
EXTENDS CardLock, TLAPS

Safe(k) == \E p \in Paths : files[p] # None /\ files[p].durable /\ files[p].key = k

Writing == {"mkdir", "syncDir", "link", "syncFile", "readBack"}

\* What an invocation has on disk.
Filed(r) ==
  /\ run[r].pc # "idle" => run[r].path \in Paths
  /\ run[r].pc \in Writing \cup {"authenticate", "recheck", "rotate"} => run[r].card \in Cards
  /\ run[r].pc \in {"syncFile", "readBack"} =>
       /\ files[run[r].path] # None
       /\ files[run[r].path].key = run[r].key
  /\ run[r].pc = "readBack" => files[run[r].path].durable
  /\ run[r].pc \in {"recheck", "rotate"} /\ run[r].act = "lock" => Safe(run[r].key)

\* Where the card it identified is.
Aimed(r) ==
  /\ run[r].moved <= swaps
  /\ run[r].pc \in Before => run[r].hit = None
  /\ run[r].pc = "rotate" \/ run[r].pc \in After =>
       /\ run[r].moved = 0 => slot = run[r].card
       /\ run[r].moved = 1 => slot # run[r].card
  /\ run[r].pc = "rotate" \/ run[r].hit # None => run[r].card \notin run[r].barred
  /\ run[r].hit \notin {None, run[r].card} =>
       run[r].moved >= (IF run[r].pc = "verified" THEN 2 ELSE 1)

Inv ==
  /\ TypeOK
  /\ Recoverable
  /\ \A r \in Runs : Filed(r) /\ Aimed(r)

-----------------------------------------------------------------------------
(* The files.                                                              *)

\* An escrow is a file.
LEMMA EscrowIsFile == \A file \in Escrow : file # None
  BY LockAssumption DEF Escrow

\* Nothing that can be read from the directory changes or goes away.
Grow ==
  \A p \in Paths : files[p] # None =>
    /\ files'[p] # None /\ files'[p].key = files[p].key
    /\ files[p].durable => files'[p].durable

\* Growing files keep a key as safe as it is.
LEMMA SafeKept ==
  ASSUME Grow
  PROVE  \A k : Safe(k) => \E p \in Paths : /\ files'[p] # None /\ files'[p].durable
                                            /\ files'[p].key = k
  BY DEF Grow, Safe

\* Recoverable survives any step that leaves the keys and lets the files grow.
LEMMA RecoverableKept ==
  ASSUME Recoverable, Grow, UNCHANGED <<keys, lost>>
  PROVE  Recoverable'
  BY SafeKept DEF Recoverable, Safe

\* So does the disk part of an invocation that takes no step.
LEMMA FiledKept ==
  ASSUME Grow, NEW s \in Runs, Filed(s), run'[s] = run[s]
  PROVE  Filed(s)'
<1>1. Safe(run[s].key) => Safe(run[s].key)'
  BY SafeKept DEF Safe
<1> QED
  BY <1>1 DEF Filed, Grow

\* An invocation that stops has nothing left to lose on disk or in the reader.
LEMMA StoppedLocal ==
  ASSUME NEW r \in Runs, run[r] \in Invocation, run[r].pc # "rotate",
         Filed(r), Aimed(r), run'[r] = Stopped(r), UNCHANGED swaps,
         Active(r)
  PROVE  run'[r] \in Invocation /\ Filed(r)' /\ Aimed(r)'
<1>1. /\ run'[r] = [run[r] EXCEPT !.pc = run'[r].pc]
      /\ run'[r].pc \in {"refused", "unverified"}
      /\ run[r].pc \in Before \cup After
  BY DEF Stopped, Invocation, Active
<1>2. run'[r] \in Invocation
  BY <1>1 DEF Invocation, Ends
<1>3. Filed(r)'
  BY <1>1 DEF Filed, Writing, Invocation, Active
<1>4. Aimed(r)'
  BY <1>1 DEF Aimed, Invocation, Before, After
<1> QED
  BY <1>2, <1>3, <1>4

-----------------------------------------------------------------------------
(* The steps of one invocation.                                            *)

\* What is left to prove of a step of r that neither swaps nor spoils a file.
LEMMA Assemble ==
  ASSUME Inv, NEW r \in Runs, TypeOK', Grow, Recoverable', UNCHANGED <<slot, swaps>>,
         \A s \in Runs \ {r} : run'[s] = run[s],
         Filed(r)', Aimed(r)'
  PROVE  Inv'
<1>1. ASSUME NEW s \in Runs, s # r PROVE Filed(s)' /\ Aimed(s)'
  <2>1. Filed(s)'
    BY <1>1, FiledKept DEF Inv
  <2>2. Aimed(s)'
    BY <1>1 DEF Inv, Aimed
  <2> QED
    BY <2>1, <2>2
<1> QED
  BY <1>1 DEF Inv

\* A step that changes nothing but the invocation.
LEMMA Quiet ==
  ASSUME Inv, NEW r \in Runs, UNCHANGED <<disk, desk>>, drawn' \in 0..MaxKeys,
         run' = [run EXCEPT ![r] = run'[r]], run'[r] \in Invocation,
         Filed(r)', Aimed(r)'
  PROVE  Inv'
<1>1. run' \in [Runs -> Invocation] /\ \A s \in Runs \ {r} : run'[s] = run[s]
  BY DEF Inv, TypeOK
<1>2. TypeOK'
  BY <1>1 DEF Inv, TypeOK, disk, desk
<1>3. Grow
  BY DEF Grow, disk
<1>4. Recoverable'
  BY <1>3, RecoverableKept DEF Inv, disk, desk
<1> QED
  BY <1>1, <1>2, <1>3, <1>4, Assemble DEF desk

\* Up to the fresh key.
LEMMA OpeningInv ==
  ASSUME Inv, NEW r \in Runs,
         Start(r) \/ Decrypt(r) \/ Identify(r) \/ Authenticate(r)
  PROVE  Inv'
<1> USE DEF At, Goto
<1>0. run \in [Runs -> Invocation] /\ Filed(r) /\ Aimed(r) /\ slot \in Cards
  BY DEF Inv, TypeOK
<1>1. CASE Start(r)
  <2>1. PICK p \in Paths :
          \/ run' = [run EXCEPT ![r].pc = "identify", ![r].path = p]
          \/ run' = [run EXCEPT ![r].pc = "decrypt", ![r].path = p, ![r].act = "unlock"]
    BY <1>1 DEF Start
  <2> DEFINE Started ==
        /\ run' = [run EXCEPT ![r] = run'[r]] /\ run'[r] \in Invocation
        /\ run'[r].pc \in {"identify", "decrypt"} /\ run'[r].path = p
        /\ run'[r].hit = run[r].hit /\ run'[r].moved = run[r].moved
  <2>a. ASSUME run' = [run EXCEPT ![r].pc = "identify", ![r].path = p] PROVE Started
    <3>1. run'[r] = [run[r] EXCEPT !.pc = "identify", !.path = p]
      BY <1>0, <2>a DEF Invocation
    <3>2. run' = [run EXCEPT ![r] = run'[r]]
      BY <1>0, <2>a DEF Invocation
    <3>3. run'[r] \in Invocation
      BY <1>0, <3>1 DEF Invocation, Before
    <3> QED
      BY <1>0, <3>1, <3>2, <3>3 DEF Invocation
  <2>b. ASSUME run' = [run EXCEPT ![r].pc = "decrypt", ![r].path = p, ![r].act = "unlock"]
        PROVE  Started
    <3>1. run'[r] = [run[r] EXCEPT !.pc = "decrypt", !.path = p, !.act = "unlock"]
      BY <1>0, <2>b DEF Invocation
    <3>2. run' = [run EXCEPT ![r] = run'[r]]
      BY <1>0, <2>b DEF Invocation
    <3>3. run'[r] \in Invocation
      BY <1>0, <3>1 DEF Invocation, Before
    <3> QED
      BY <1>0, <3>1, <3>2, <3>3 DEF Invocation
  <2>2. Started
    BY <2>1, <2>a, <2>b
  <2>3. Filed(r)' /\ Aimed(r)'
    BY <1>0, <1>1, <2>2
    DEF At, Start, Filed, Aimed, Writing, Before, After, Invocation, desk
  <2> QED
    BY <1>1, <2>2, <2>3, Quiet DEF Start, Inv, TypeOK
<1>2. CASE Decrypt(r)
  <2> DEFINE file == files[run[r].path]
  <2>1. /\ run[r].pc = "decrypt" /\ file # None
        /\ run' = [run EXCEPT ![r].pc = "identify", ![r].card = file.card,
                              ![r].key = file.key]
    BY <1>2 DEF Decrypt
  <2>2. file \in Escrow
    BY <1>0, <2>1 DEF Inv, TypeOK, Filed
  <2>3. file.card \in Cards /\ file.key \in Key
    BY <2>2 DEF Escrow
  <2> HIDE DEF file
  <2>4. run'[r] = [run[r] EXCEPT !.pc = "identify", !.card = file.card, !.key = file.key]
    BY <1>0, <2>1 DEF Invocation
  <2>6. run' = [run EXCEPT ![r] = run'[r]]
    BY <1>0, <2>1 DEF Invocation
  <2>7. run'[r] \in Invocation
    BY <1>0, <2>3, <2>4 DEF Invocation, Before
  <2>5. Filed(r)' /\ Aimed(r)'
    BY <1>0, <1>2, <2>1, <2>4
       DEF Decrypt, Filed, Aimed, Writing, Before, After, Invocation, desk
  <2> QED
    BY <1>2, <2>5, <2>6, <2>7, Quiet DEF Decrypt, Inv, TypeOK
<1>3. CASE Identify(r)
  <2>1. run[r].pc = "identify" /\ run' = [run EXCEPT ![r].pc = "authenticate", ![r].card = slot]
    BY <1>3 DEF Identify
  <2>2. /\ run' = [run EXCEPT ![r] = run'[r]] /\ run'[r] \in Invocation
        /\ run'[r] = [run[r] EXCEPT !.pc = "authenticate", !.card = slot]
    BY <1>0, <2>1 DEF Invocation, Before
  <2>3. Filed(r)' /\ Aimed(r)'
    BY <1>0, <1>3, <2>1, <2>2
       DEF Identify, Filed, Aimed, Writing, Before, After, Invocation, desk
  <2> QED
    BY <1>3, <2>2, <2>3, Quiet DEF Identify, Inv, TypeOK
<1>4. CASE Authenticate(r)
  <2>1. /\ run[r].pc = "authenticate"
        /\ \/ /\ run[r].act = "unlock" /\ UNCHANGED drawn
              /\ run' = [run EXCEPT ![r].pc = "recheck"]
           \/ /\ drawn < MaxKeys /\ drawn' = drawn + 1
              /\ run' = [run EXCEPT ![r].pc = "mkdir", ![r].key = drawn + 1]
    BY <1>4 DEF Authenticate
  <2>2. drawn \in 0..MaxKeys /\ drawn' \in Key
    BY <2>1, LockAssumption DEF Inv, TypeOK, Key
  <2>3. CASE run' = [run EXCEPT ![r].pc = "recheck"] /\ run[r].act = "unlock"
    <3>1. /\ run' = [run EXCEPT ![r] = run'[r]] /\ run'[r] \in Invocation
          /\ run'[r] = [run[r] EXCEPT !.pc = "recheck"]
      BY <1>0, <2>3 DEF Invocation, Before
    <3>2. Filed(r)' /\ Aimed(r)'
      BY <1>0, <1>4, <2>1, <2>3, <3>1
         DEF Authenticate, Filed, Aimed, Writing, Before, After, Invocation, desk
    <3> QED
      BY <1>4, <2>2, <3>1, <3>2, Quiet DEF Authenticate, Key
  <2>4. CASE run' = [run EXCEPT ![r].pc = "mkdir", ![r].key = drawn + 1] /\ drawn' = drawn + 1
    <3>1. /\ run' = [run EXCEPT ![r] = run'[r]] /\ run'[r] \in Invocation
          /\ run'[r] = [run[r] EXCEPT !.pc = "mkdir", !.key = drawn']
      BY <1>0, <2>2, <2>4 DEF Invocation, Before
    <3>2. Filed(r)' /\ Aimed(r)'
      BY <1>0, <1>4, <2>1, <3>1
         DEF Authenticate, Filed, Aimed, Writing, Before, After, Invocation, desk
    <3> QED
      BY <1>4, <2>2, <3>1, <3>2, Quiet DEF Authenticate, Key
  <2> QED
    BY <2>1, <2>3, <2>4
<1> QED
  BY <1>1, <1>2, <1>3, <1>4

\* A step that moves an invocation to another place keeps its other fields.
LEMMA Moves ==
  ASSUME run \in [Runs -> Invocation], NEW r \in Runs,
         NEW place \in Before \cup After \cup Ends, Goto(r, place)
  PROVE  /\ run' \in [Runs -> Invocation] /\ run'[r] \in Invocation
         /\ run' = [run EXCEPT ![r] = run'[r]]
         /\ \A s \in Runs \ {r} : run'[s] = run[s]
         /\ run'[r] = [run[r] EXCEPT !.pc = place]
         /\ run'[r].pc = place
<1>1. run'[r] = [run[r] EXCEPT !.pc = place]
  BY DEF Goto, Invocation
<1>2. run'[r] \in Invocation
  BY <1>1 DEF Invocation
<1>3. run' = [run EXCEPT ![r] = run'[r]] /\ \A s \in Runs \ {r} : run'[s] = run[s]
  BY <1>1 DEF Goto, Invocation
<1>4. run' \in [Runs -> Invocation]
  BY <1>2, <1>3
<1> QED
  BY <1>1, <1>2, <1>3, <1>4 DEF Invocation

\* From the directory to the published file.
LEMMA WritingInv ==
  ASSUME Inv, NEW r \in Runs,
         MakeDir(r) \/ SyncDir(r) \/ Link(r) \/ SyncFile(r) \/ ReadBack(r)
  PROVE  Inv'
<1> USE DEF At
<1>0. /\ run \in [Runs -> Invocation] /\ Filed(r) /\ Aimed(r) /\ slot \in Cards
      /\ files \in [Paths -> Escrow \cup {None}]
  BY DEF Inv, TypeOK
<1>a. {"syncDir", "link", "syncFile", "readBack", "recheck"} \subseteq Before
  BY DEF Before
<1>1. CASE MakeDir(r) \/ SyncDir(r)
  <2>1. PICK place \in {"syncDir", "link"} : Goto(r, place)
    BY <1>1 DEF MakeDir, SyncDir
  <2>2. /\ run[r].pc \in {"mkdir", "syncDir"} /\ UNCHANGED <<files, lost, desk, drawn>>
        /\ dir' \in {"absent", "made", "durable"}
    BY <1>1 DEF MakeDir, SyncDir, Inv, TypeOK
  <2>3. /\ run' \in [Runs -> Invocation] /\ run'[r].pc = place
        /\ \A s \in Runs \ {r} : run'[s] = run[s]
        /\ run'[r] = [run[r] EXCEPT !.pc = place]
    BY <1>0, <1>a, <2>1, Moves
  <2>4. TypeOK'
    BY <2>2, <2>3 DEF Inv, TypeOK, desk
  <2>5. Grow /\ Recoverable'
    BY <2>2, RecoverableKept DEF Inv, Grow, desk
  <2>6. Filed(r)' /\ Aimed(r)'
    BY <1>0, <2>2, <2>3
    DEF Filed, Aimed, Writing, Before, After, Invocation, desk
  <2> QED
    BY <2>2, <2>3, <2>4, <2>5, <2>6, Assemble DEF desk
<1>2. CASE Link(r)
  <2> DEFINE path == run[r].path
             new == [card |-> run[r].card, key |-> run[r].key, durable |-> FALSE]
  <2>1. /\ run[r].pc = "link" /\ files[path] = None /\ Goto(r, "syncFile")
        /\ files' = [files EXCEPT ![path] = new]
        /\ UNCHANGED <<dir, lost, desk, drawn>>
    BY <1>2 DEF Link
  <2>2. path \in Paths /\ new \in Escrow
    BY <1>0, <2>1 DEF Filed, Writing, Escrow, Invocation
  <2>3. /\ run' \in [Runs -> Invocation] /\ run'[r].pc = "syncFile"
        /\ \A s \in Runs \ {r} : run'[s] = run[s]
        /\ run'[r] = [run[r] EXCEPT !.pc = "syncFile"]
    BY <1>0, <1>a, <2>1, Moves
  <2>4. new # None /\ new.key = run[r].key
    BY <2>2, EscrowIsFile DEF Escrow
  <2>5. files'[path] = new /\ \A p \in Paths \ {path} : files'[p] = files[p]
    BY <1>0, <2>1, <2>2
  <2>6. files' \in [Paths -> Escrow \cup {None}]
    BY <1>0, <2>1, <2>2
  <2> HIDE DEF new
  <2>7. TypeOK'
    BY <2>1, <2>3, <2>6 DEF Inv, TypeOK, desk
  <2>8. Grow
    BY <2>1, <2>2, <2>5 DEF Grow
  <2>9. Recoverable'
    BY <2>1, <2>8, RecoverableKept DEF Inv, desk
  <2>10. run'[r].path = path /\ run'[r].key = run[r].key /\ run'[r].card = run[r].card
    BY <1>0, <2>3 DEF Invocation
  <2>11. Filed(r)'
    BY <1>0, <2>1, <2>2, <2>3, <2>4, <2>5, <2>10 DEF Filed, Writing
  <2>12. Aimed(r)'
    BY <1>0, <2>1, <2>3 DEF Aimed, Before, After, Invocation, desk
  <2> QED
    BY <2>1, <2>3, <2>7, <2>8, <2>9, <2>11, <2>12, Assemble DEF desk
<1>3. CASE SyncFile(r)
  <2>1. /\ run[r].pc = "syncFile" /\ Goto(r, "readBack")
        /\ files' = [p \in Paths |-> IF files[p] = None THEN None
                                     ELSE [files[p] EXCEPT !.durable = TRUE]]
        /\ UNCHANGED <<dir, lost, desk, drawn>>
    BY <1>3 DEF SyncFile
  <2>2. \A p \in Paths : files[p] # None =>
          /\ files'[p] \in Escrow /\ files'[p].key = files[p].key
          /\ files'[p].durable
    BY <1>0, <2>1 DEF Escrow
  <2>3. \A p \in Paths : files[p] # None => files'[p] # None
    BY <2>2, EscrowIsFile
  <2>4. files' \in [Paths -> Escrow \cup {None}]
    BY <2>1, <2>2
  <2>5. /\ run' \in [Runs -> Invocation] /\ run'[r].pc = "readBack"
        /\ \A s \in Runs \ {r} : run'[s] = run[s]
        /\ run'[r] = [run[r] EXCEPT !.pc = "readBack"]
    BY <1>0, <1>a, <2>1, Moves
  <2>6. TypeOK'
    BY <2>1, <2>4, <2>5 DEF Inv, TypeOK, desk
  <2>7. Grow
    BY <2>2, <2>3 DEF Grow
  <2>8. Recoverable'
    BY <2>1, <2>7, RecoverableKept DEF Inv, desk
  <2>9. run'[r].path = run[r].path /\ run'[r].key = run[r].key /\ run'[r].card = run[r].card
    BY <1>0, <2>5 DEF Invocation
  <2>10. Filed(r)'
    BY <1>0, <2>1, <2>2, <2>3, <2>5, <2>9 DEF Filed, Writing
  <2>11. Aimed(r)'
    BY <1>0, <2>1, <2>5 DEF Aimed, Before, After, Invocation, desk
  <2> QED
    BY <2>1, <2>5, <2>6, <2>7, <2>8, <2>10, <2>11, Assemble DEF desk
<1>4. CASE ReadBack(r)
  <2>1. run[r].pc = "readBack" /\ Goto(r, "recheck") /\ UNCHANGED <<disk, desk, drawn>>
    BY <1>4 DEF ReadBack
  <2>2. /\ run'[r] \in Invocation /\ run' = [run EXCEPT ![r] = run'[r]]
        /\ run'[r] = [run[r] EXCEPT !.pc = "recheck"] /\ run'[r].pc = "recheck"
    BY <1>0, <1>a, <2>1, Moves
  <2>3. run'[r].path = run[r].path /\ run'[r].key = run[r].key /\ run'[r].card = run[r].card
    BY <1>0, <2>2 DEF Invocation
  <2>4. Safe(run[r].key)'
    BY <1>0, <2>1, <2>3 DEF Filed, Safe, disk
  <2>5. Filed(r)'
    BY <1>0, <2>1, <2>2, <2>3, <2>4 DEF Filed, Writing
  <2>6. Aimed(r)'
    BY <1>0, <2>1, <2>2 DEF Aimed, Before, After, Invocation, desk
  <2> QED
    BY <2>1, <2>2, <2>5, <2>6, Quiet DEF Inv, TypeOK
<1> QED
  BY <1>1, <1>2, <1>3, <1>4

\* The recheck, the rotation and what follows it.
LEMMA RotationInv ==
  ASSUME Inv, NEW r \in Runs,
         Recheck(r) \/ Rotate(r) \/ RotateFails(r) \/ Verify(r) \/ Confirm(r)
  PROVE  Inv'
<1> USE DEF At
<1>0. /\ run \in [Runs -> Invocation] /\ Filed(r) /\ Aimed(r) /\ slot \in Cards
      /\ denied \subseteq Cards /\ drawn \in 0..MaxKeys
  BY DEF Inv, TypeOK
<1>a. /\ {"rotate", "verify", "confirm", "verified", "unverified"}
           \subseteq Before \cup After \cup Ends
  BY DEF Before, After, Ends
<1>1. CASE Recheck(r)
  <2>1. /\ run[r].pc = "recheck" /\ slot = run[r].card /\ slot \notin denied
        /\ run' = [run EXCEPT ![r].pc = "rotate", ![r].moved = 0, ![r].barred = denied]
        /\ UNCHANGED <<disk, desk, drawn>>
    BY <1>1 DEF Recheck
  <2>2. run'[r] = [run[r] EXCEPT !.pc = "rotate", !.moved = 0, !.barred = denied]
    BY <1>0, <2>1 DEF Invocation
  <2>3. run' = [run EXCEPT ![r] = run'[r]]
    BY <1>0, <2>1 DEF Invocation
  <2>4. run'[r] \in Invocation
    <3>1. 0 \in 0..MaxSwaps /\ "rotate" \in Before /\ denied \in SUBSET Cards
      BY <1>0, LockAssumption DEF Before
    <3> QED
      BY <1>0, <2>2, <3>1 DEF Invocation
  <2>5. /\ run'[r].pc = "rotate" /\ run'[r].moved = 0 /\ run'[r].barred = denied
        /\ run'[r].path = run[r].path /\ run'[r].key = run[r].key
        /\ run'[r].card = run[r].card /\ run'[r].act = run[r].act
        /\ run'[r].hit = run[r].hit
    BY <1>0, <2>2 DEF Invocation
  <2>6. Safe(run[r].key) => Safe(run[r].key)'
    BY <2>1, <2>5 DEF Safe, disk
  <2>7. Filed(r)'
    BY <1>0, <2>1, <2>5, <2>6 DEF Filed, Writing
  <2>8. swaps \in Nat
    BY LockAssumption DEF Inv, TypeOK
  <2>9. Aimed(r)'
    BY <1>0, <2>1, <2>5, <2>8 DEF Aimed, Before, After, desk
  <2> QED
    BY <1>0, <2>1, <2>3, <2>4, <2>7, <2>9, Quiet
<1>2. CASE Rotate(r)
  <2>1. PICK next \in {"verify", "unverified"} :
          run' = [run EXCEPT ![r].pc = next, ![r].hit = slot]
    BY <1>2 DEF Rotate
  <2>2. /\ run[r].pc = "rotate" /\ keys' = [keys EXCEPT ![slot] = Target(r)]
        /\ UNCHANGED <<disk, slot, denied, swaps, drawn>>
    BY <1>2 DEF Rotate
  <2>3. run'[r] = [run[r] EXCEPT !.pc = next, !.hit = slot]
    BY <1>0, <2>1 DEF Invocation
  <2>4. run'[r] \in Invocation
    <3>1. next \in Before \cup After \cup Ends
      BY <1>a
    <3> QED
      BY <1>0, <2>3, <3>1 DEF Invocation
  <2>5. run' \in [Runs -> Invocation] /\ \A s \in Runs \ {r} : run'[s] = run[s]
    <3>1. run' = [run EXCEPT ![r] = run'[r]]
      BY <1>0, <2>1 DEF Invocation
    <3> QED
      BY <1>0, <2>4, <3>1
  <2>6. /\ run'[r].pc = next /\ run'[r].hit = slot
        /\ run'[r].path = run[r].path /\ run'[r].card = run[r].card
        /\ run'[r].moved = run[r].moved /\ run'[r].barred = run[r].barred
    BY <1>0, <2>3 DEF Invocation
  <2>7. Target(r) \in Key /\ (Target(r) # Default => Safe(Target(r)))
    BY <1>0, <2>2, LockAssumption DEF Target, Filed, Invocation, Key, Default
  <2>8. TypeOK'
    BY <2>2, <2>5, <2>7 DEF Inv, TypeOK, disk
  <2>9. Grow
    BY <2>2 DEF Grow, disk
  <2>10. \A c \in Cards : keys'[c] = keys[c] \/ keys'[c] = Target(r)
    BY <2>2 DEF Inv, TypeOK
  <2>11. Recoverable'
    BY <2>2, <2>7, <2>10 DEF Inv, Recoverable, Safe, disk
  <2>12. Filed(r)'
    BY <1>0, <2>2, <2>6 DEF Filed, Writing
  <2>13. /\ run[r].moved \in Nat /\ slot # None
         /\ run[r].moved = 0 => slot = run[r].card
    BY <1>0, <2>2, LockAssumption DEF Aimed, Invocation
  <2>14. Aimed(r)'
    BY <1>0, <2>2, <2>6, <2>13 DEF Aimed, Before, After
  <2> QED
    BY <2>2, <2>5, <2>8, <2>9, <2>11, <2>12, <2>14, Assemble
<1>3. ASSUME NEW place \in {"unverified", "confirm", "verified"},
             run[r].pc \in After \cup {"rotate"}, Goto(r, place),
             place = "confirm" => run[r].pc = "verify",
             place = "verified" => run[r].pc = "confirm" /\ slot = run[r].card,
             UNCHANGED <<disk, desk, drawn>>
      PROVE  Inv'
  <2>1. /\ run'[r] \in Invocation /\ run' = [run EXCEPT ![r] = run'[r]]
        /\ run'[r] = [run[r] EXCEPT !.pc = place] /\ run'[r].pc = place
    BY <1>0, <1>3, <1>a, Moves
  <2>2. /\ run'[r].path = run[r].path /\ run'[r].card = run[r].card
        /\ run'[r].moved = run[r].moved /\ run'[r].barred = run[r].barred
        /\ run'[r].hit = run[r].hit
    BY <1>0, <2>1 DEF Invocation
  <2>3. Filed(r)'
    BY <1>0, <1>3, <2>1, <2>2 DEF Filed, Writing, After
  <2>4. run[r].moved \in Nat
    BY <1>0, LockAssumption DEF Invocation
  <2>5. Aimed(r)'
    BY <1>0, <1>3, <2>1, <2>2, <2>4 DEF Aimed, Before, After, desk
  <2> QED
    BY <1>0, <1>3, <2>1, <2>3, <2>5, Quiet
<1>4. CASE RotateFails(r)
  BY <1>3, <1>4 DEF RotateFails
<1>5. CASE Verify(r)
  BY <1>3, <1>5 DEF Verify, After
<1>6. CASE Confirm(r)
  BY <1>3, <1>6 DEF Confirm, After
<1> QED
  BY <1>1, <1>2, <1>4, <1>5, <1>6

\* Stopping early.
LEMMA GiveUpInv ==
  ASSUME Inv, NEW r \in Runs, GiveUp(r)
  PROVE  Inv'
<1>1. /\ Active(r) /\ run[r].pc # "rotate" /\ UNCHANGED <<disk, desk, drawn>>
      /\ run' = [run EXCEPT ![r] = Stopped(r)]
      /\ run \in [Runs -> Invocation] /\ Filed(r) /\ Aimed(r) /\ drawn \in 0..MaxKeys
  BY DEF GiveUp, At, Inv, TypeOK
<1>2. run'[r] = Stopped(r) /\ run' = [run EXCEPT ![r] = run'[r]]
  BY <1>1
<1>3. run'[r] \in Invocation /\ Filed(r)' /\ Aimed(r)'
  BY <1>1, <1>2, StoppedLocal DEF desk
<1> QED
  BY <1>1, <1>2, <1>3, Quiet

-----------------------------------------------------------------------------
(* The surroundings.                                                       *)

\* A loss of power takes names off the disk that no rotation relied on, or the
\* directory, and then lost says so or there was no file.
LEMMA PowerLossInv ==
  ASSUME Inv, PowerLoss
  PROVE  Inv'
<1>1. /\ run' = [r \in Runs |-> IF Active(r) THEN Stopped(r) ELSE run[r]]
      /\ UNCHANGED <<desk, drawn>>
      /\ files' \in [Paths -> Escrow \cup {None}] /\ dir' \in {"absent", "made", "durable"}
      /\ lost' \in BOOLEAN
  BY DEF PowerLoss, Inv, TypeOK
<1>2. ASSUME NEW r \in Runs
      PROVE  run'[r] \in Invocation /\ Filed(r)' /\ Aimed(r)'
  <2>0. run[r] \in Invocation /\ Filed(r) /\ Aimed(r) /\ UNCHANGED swaps
    BY <1>1 DEF Inv, TypeOK, desk
  <2>1. CASE Active(r) /\ run[r].pc # "rotate"
    BY <1>1, <2>0, <2>1, StoppedLocal
  <2>2. CASE run[r].pc = "rotate"
    <3>1. run'[r] = [run[r] EXCEPT !.pc = "refused"]
      BY <1>1, <2>0, <2>2 DEF Active, Stopped, Before, Ends, Invocation
    <3>2. run'[r] \in Invocation
      BY <2>0, <3>1 DEF Invocation, Ends
    <3>3. Filed(r)'
      BY <2>0, <2>2, <3>1 DEF Filed, Writing, Invocation
    <3>4. Aimed(r)'
      BY <2>0, <2>2, <3>1 DEF Aimed, Invocation, Before, After
    <3> QED
      BY <3>2, <3>3, <3>4
  <2>3. CASE ~Active(r)
    <3>1. run'[r] = run[r] /\ run[r].pc \in Ends \cup {"idle"}
      BY <1>1, <2>3 DEF Active
    <3>2. Filed(r)'
      BY <2>0, <3>1 DEF Filed, Writing, Ends
    <3>3. Aimed(r)'
      BY <2>0, <3>1 DEF Aimed, Ends, After
    <3> QED
      BY <2>0, <3>1, <3>2, <3>3
  <2> QED
    BY <2>1, <2>2, <2>3
<1>3. TypeOK'
  BY <1>1, <1>2 DEF Inv, TypeOK, desk
<1>4. Recoverable'
  <2>1. CASE \E gone \in SUBSET Paths :
          /\ \A p \in gone : files[p] # None /\ ~files[p].durable
          /\ files' = [p \in Paths |-> IF p \in gone THEN None ELSE files[p]]
          /\ UNCHANGED <<dir, lost>>
    <3>1. UNCHANGED <<keys, lost>>
            /\ \A p \in Paths : files[p] # None /\ files[p].durable => files'[p] = files[p]
      BY <1>1, <2>1 DEF desk
    <3> QED
      BY <3>1 DEF Inv, Recoverable
  <2>2. CASE lost' = (lost \/ \E p \in Paths : files[p] # None)
    BY <1>1, <2>2 DEF Inv, Recoverable, desk
  <2> QED
    BY <2>1, <2>2 DEF PowerLoss
<1> QED
  BY <1>2, <1>3, <1>4 DEF Inv

\* A swap puts another card into the reader, and every run past its recheck
\* counts it.
LEMMA SwapInv ==
  ASSUME Inv, Swap
  PROVE  Inv'
<1>1. /\ swaps < MaxSwaps /\ swaps' = swaps + 1 /\ slot' \in Cards \ {slot}
      /\ run' = [r \in Runs |-> IF Watched(r) THEN [run[r] EXCEPT !.moved = @ + 1]
                                ELSE run[r]]
      /\ UNCHANGED <<disk, keys, denied, drawn>>
      /\ swaps \in Nat /\ MaxSwaps \in Nat
  BY LockAssumption DEF Swap, Inv, TypeOK
<1>2. ASSUME NEW r \in Runs
      PROVE  run'[r] \in Invocation /\ Filed(r)' /\ Aimed(r)'
  <2>0. run[r] \in Invocation /\ Filed(r) /\ Aimed(r) /\ run[r].moved \in Nat
    BY LockAssumption DEF Inv, TypeOK, Invocation
  <2>1. CASE Watched(r)
    <3>1. run'[r] = [run[r] EXCEPT !.moved = run[r].moved + 1]
      BY <1>1, <2>1
    <3>2. /\ run'[r].moved = run[r].moved + 1 /\ run'[r].pc = run[r].pc
          /\ run'[r].path = run[r].path /\ run'[r].card = run[r].card
          /\ run'[r].key = run[r].key /\ run'[r].act = run[r].act
          /\ run'[r].hit = run[r].hit /\ run'[r].barred = run[r].barred
      BY <2>0, <3>1 DEF Invocation
    <3>3. run'[r] \in Invocation
      <4>1. run[r].moved + 1 \in 0..MaxSwaps
        BY <1>1, <2>0 DEF Aimed
      <4> QED
        BY <2>0, <3>1, <4>1 DEF Invocation
    <3>4. Safe(run[r].key) => Safe(run[r].key)'
      BY <1>1, <3>2 DEF Safe, disk
    <3>5. Filed(r)'
      BY <1>1, <2>0, <3>2, <3>4 DEF Filed, disk
    <3>6. run[r].pc \in After \cup {"rotate"}
      BY <2>1 DEF Watched
    <3>7. Aimed(r)'
      BY <1>1, <2>0, <3>2, <3>6 DEF Aimed, Before, After
    <3> QED
      BY <3>3, <3>5, <3>7
  <2>2. CASE ~Watched(r)
    <3>1. run'[r] = run[r] /\ run[r].pc \notin After \cup {"rotate"}
      BY <1>1, <2>2 DEF Watched
    <3>2. Safe(run[r].key) => Safe(run[r].key)'
      BY <1>1, <3>1 DEF Safe, disk
    <3>3. Filed(r)'
      BY <1>1, <2>0, <3>1, <3>2 DEF Filed, disk
    <3>4. Aimed(r)'
      BY <1>1, <2>0, <3>1 DEF Aimed
    <3> QED
      BY <2>0, <3>1, <3>3, <3>4
  <2> QED
    BY <2>1, <2>2
<1>3. TypeOK'
  BY <1>1, <1>2 DEF Inv, TypeOK, disk
<1>4. Recoverable'
  BY <1>1 DEF Inv, Recoverable, disk
<1> QED
  BY <1>2, <1>3, <1>4 DEF Inv

\* The deny list may grow at any time.
LEMMA DenyInv ==
  ASSUME Inv, Deny
  PROVE  Inv'
<1>1. UNCHANGED <<disk, keys, slot, run, drawn, swaps>> /\ denied' \subseteq Cards
  BY DEF Deny, Inv, TypeOK
<1>2. TypeOK' /\ Recoverable'
  BY <1>1 DEF Inv, TypeOK, Recoverable, disk
<1>3. \A r \in Runs : Filed(r)' /\ Aimed(r)'
  BY <1>1 DEF Inv, Filed, Safe, Aimed, disk
<1> QED
  BY <1>2, <1>3 DEF Inv

-----------------------------------------------------------------------------
(* The theorems.                                                           *)

\* The invariant holds before the first invocation.
LEMMA InitInv == Init => Inv
<1> SUFFICES ASSUME Init PROVE Inv
  OBVIOUS
<1>1. TypeOK
  <2>1. 0 \in Key /\ 0 \in 0..MaxSwaps /\ 0 \in 0..MaxKeys /\ "idle" \in Before
    BY LockAssumption DEF Key, Before
  <2>2. [pc |-> "idle", act |-> "lock", path |-> None, card |-> None, key |-> Default,
         hit |-> None, moved |-> 0, barred |-> {}] \in Invocation
    BY <2>1 DEF Invocation, Default
  <2>3. run \in [Runs -> Invocation]
    BY <2>2 DEF Init
  <2>4. keys \in [Cards -> Key] /\ files \in [Paths -> Escrow \cup {None}]
    BY <2>1 DEF Init, Default
  <2> QED
    BY <2>1, <2>3, <2>4 DEF Init, TypeOK
<1>2. Recoverable
  BY DEF Init, Recoverable
<1>3. \A r \in Runs : Filed(r) /\ Aimed(r)
  BY DEF Init, Filed, Writing, Aimed, After
<1> QED
  BY <1>1, <1>2, <1>3 DEF Inv

\* The invariant is inductive.
LEMMA Inductive == Inv /\ [Next]_vars => Inv'
<1> SUFFICES ASSUME Inv, [Next]_vars PROVE Inv'
  OBVIOUS
<1>1. ASSUME NEW r \in Runs, Step(r) PROVE Inv'
  BY <1>1, OpeningInv, WritingInv, RotationInv, GiveUpInv DEF Step
<1>2. CASE UNCHANGED vars
  <2>1. TypeOK' /\ Recoverable'
    BY <1>2 DEF vars, Inv, TypeOK, Recoverable
  <2>2. \A r \in Runs : Filed(r)' /\ Aimed(r)'
    BY <1>2 DEF vars, Inv, Filed, Safe, Aimed
  <2> QED
    BY <2>1, <2>2 DEF Inv
<1> QED
  BY <1>1, <1>2, PowerLossInv, SwapInv, DenyInv DEF Next

\* The invariant holds always.
LEMMA Invariance == Spec => []Inv
  BY InitInv, Inductive, PTL DEF Spec

\* Every variable keeps its type, and no file name ever holds half an escrow.
THEOREM TypeCorrect == Spec => []TypeOK
<1>1. Inv => TypeOK
  BY DEF Inv
<1> QED
  BY <1>1, Invariance, PTL

\* No card is ever locked with a key that is not durably in an escrow file.
THEOREM Recovery == Spec => []Recoverable
<1>1. Inv => Recoverable
  BY DEF Inv
<1> QED
  BY <1>1, Invariance, PTL

\* A rotation of the wrong card takes one swap after the recheck, and a report
\* of it as verified takes two.
THEOREM VerifiedTruth == Spec => []VerifiedIsTrue
<1>1. Inv => VerifiedIsTrue
  BY DEF Inv, Aimed, VerifiedIsTrue, At
<1> QED
  BY <1>1, Invariance, PTL

\* A card on the deny list is rotated only if it came after the last look.
THEOREM DenyListHonoured == Spec => []DenyHonoured
<1>1. Inv => DenyHonoured
  <2> SUFFICES ASSUME Inv, NEW r \in Runs, run[r].hit \in run[r].barred
               PROVE  run[r].moved > 0
    BY DEF DenyHonoured
  <2>1. Aimed(r) /\ run[r] \in Invocation
    BY DEF Inv, TypeOK
  <2>2. run[r].hit \in Cards
    BY <2>1 DEF Invocation
  <2>3. run[r].hit # None /\ run[r].moved \in Nat
    BY <2>1, <2>2, LockAssumption DEF Invocation
  <2> QED
    BY <2>1, <2>3 DEF Aimed
<1> QED
  BY <1>1, Invariance, PTL

\* An escrow on a durable name stays as it is.
THEOREM EscrowPermanence == Spec => EscrowFinal
<1> DEFINE Final ==
      \A p \in Paths : files[p] # None =>
        \/ files'[p] # None /\ files'[p].card = files[p].card /\ files'[p].key = files[p].key
        \/ files'[p] = None /\ (~files[p].durable \/ dir = "made")
<1>1. Inv /\ [Next]_vars => [Final]_vars
  <2> SUFFICES ASSUME Inv, Next PROVE Final
    BY DEF Final
  <2>0. files \in [Paths -> Escrow \cup {None}]
    BY DEF Inv, TypeOK
  <2>1. CASE UNCHANGED files
    BY <2>1
  <2>2. ASSUME NEW r \in Runs, Link(r) PROVE Final
    BY <2>0, <2>2 DEF Link
  <2>3. ASSUME NEW r \in Runs, SyncFile(r) PROVE Final
    <3>1. \A p \in Paths : files[p] # None =>
            /\ files'[p] \in Escrow /\ files'[p].key = files[p].key
            /\ files'[p].card = files[p].card
      BY <2>0, <2>3 DEF SyncFile, Escrow
    <3> QED
      BY <3>1, EscrowIsFile
  <2>4. CASE PowerLoss
    BY <2>0, <2>4 DEF PowerLoss
  <2>5. ASSUME NEW r \in Runs, Step(r), ~Link(r), ~SyncFile(r) PROVE Final
    BY <2>1, <2>5
    DEF Step, Start, Decrypt, Identify, Authenticate, MakeDir, SyncDir,
       ReadBack, Recheck, Rotate, RotateFails, Verify, Confirm, GiveUp, disk
  <2>6. CASE Swap \/ Deny
    BY <2>1, <2>6 DEF Swap, Deny, disk
  <2> QED
    BY <2>2, <2>3, <2>4, <2>5, <2>6 DEF Next
<1> QED
  BY <1>1, Invariance, PTL DEF Spec, EscrowFinal

=============================================================================
