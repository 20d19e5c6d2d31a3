----------------------------- MODULE VaultProofs -----------------------------
(***************************************************************************)
(* What holds of the two places a secret is kept in, for every value of    *)
(* their constants.                                                        *)
(*                                                                         *)
(* 1. The vault applet, for every number of slots, names, secrets, tries   *)
(* and keys.  An entry is written whole, under a name and with a secret no *)
(* other entry has (Distinct), and it carries the class its secret was     *)
(* imported with (Classes); a login is never older than the last selection *)
(* (Logged).                                                               *)
(*                                                                         *)
(* 2. The disk vault, its FIDO2 profile and the sessions with the applet,  *)
(* for every number of processes, cards, entries and failures.  A process  *)
(* is somewhere in its script (Located); one that read the vault holds the *)
(* lock, and its copy is the file (Holders); one that is about to write a  *)
(* profile writes one whose credential exists (Writers).                   *)
(***************************************************************************)
EXTENDS NuriVault, CardSecrets, FiniteSetTheorems, SequenceTheorems, TLAPS

-----------------------------------------------------------------------------
(* 1. The vault applet.                                                    *)

\* The validated flag says what the owner really did.
Logged == validated => login /\ pinSet /\ tries > 0

\* No try is spent of a PIN that is not set.
Unspent == ~pinSet => tries = PinTries

Distinct ==
  \A i, j \in Occupied : i # j =>
    slots[i].name # slots[j].name /\ slots[i].secret # slots[j].secret

Classes ==
  \A i \in Occupied :
    /\ slots[i].secret \in 1 .. imported
    /\ slots[i].kind = "hmac" <=> slots[i].secret \in hmacSecrets

Inv ==
  /\ TypeOK /\ Logged /\ Unspent /\ Distinct /\ Classes
  /\ HmacNeverRevealed /\ KeyPublished

-----------------------------------------------------------------------------
(* Slots.                                                                  *)

\* A slot is occupied just when it holds an entry.
LEMMA OccupiedSlots ==
  ASSUME slots \in [Index -> Entries \cup {Empty}]
  PROVE  /\ \A i \in Occupied : i \in Index /\ slots[i] \in Entries
         /\ \A i \in Index \ Occupied : slots[i] = Empty
<1>1. Empty.kind = "free"
  BY DEF Empty
<1>2. \A e \in Entries : e.kind # "free"
  BY DEF Entries
<1> QED
  BY <1>1, <1>2 DEF Occupied

\* Storing an entry in a free slot occupies that slot and leaves the others.
LEMMA StoreEntry ==
  ASSUME slots \in [Index -> Entries \cup {Empty}],
         NEW e \in Entries, NEW i \in Index \ Occupied,
         slots' = [slots EXCEPT ![i] = e]
  PROVE  /\ slots' \in [Index -> Entries \cup {Empty}]
         /\ Occupied' = Occupied \cup {i}
         /\ slots'[i] = e
         /\ \A j \in Occupied : slots'[j] = slots[j]
<1>1. e.kind # "free"
  BY DEF Entries
<1> QED
  BY <1>1 DEF Occupied, Index

\* Wiping a slot frees it and leaves the others.
LEMMA WipeEntry ==
  ASSUME slots \in [Index -> Entries \cup {Empty}],
         NEW i \in Index, slots' = [slots EXCEPT ![i] = Empty]
  PROVE  /\ slots' \in [Index -> Entries \cup {Empty}]
         /\ Occupied' = Occupied \ {i}
         /\ \A j \in Occupied \ {i} : slots'[j] = slots[j]
<1>1. Empty.kind = "free"
  BY DEF Empty
<1> QED
  BY <1>1 DEF Occupied, Index

-----------------------------------------------------------------------------
(* The invariant.                                                          *)

\* An empty vault satisfies the invariant.
LEMMA InitInv == Init => Inv
<1> SUFFICES ASSUME Init PROVE Inv
  OBVIOUS
<1>1. Occupied = {}
  BY DEF Init, Occupied, Empty
<1>2. 0 \in 0 .. MaxKeys /\ 0 \in 0 .. MaxSecrets /\ PinTries \in 0 .. PinTries
  BY BoundsAssumption, PinTriesAssumption
<1>3. NoListing \in [state: {"none", "half", "done"}, steady: SUBSET (1 .. 0),
                     pages: [1 .. 2 -> SUBSET (1 .. 0)]]
  <2>1. <<{}, {}>> \in [1 .. 2 -> SUBSET (1 .. 0)]
    OBVIOUS
  <2> QED
    BY <2>1 DEF NoListing
<1>4. TypeOK
  BY <1>2, <1>3 DEF Init, TypeOK
<1> QED
  BY <1>1, <1>4
  DEF Init, Inv, Logged, Unspent, Distinct, Classes, HmacNeverRevealed,
                    KeyPublished

\* What is known of the secrets stays true when more of them are imported.
LEMMA ListingType ==
  ASSUME NEW n \in Nat, NEW m \in Nat, n <= m,
         NEW l \in [state: {"none", "half", "done"}, steady: SUBSET (1 .. n),
                    pages: [1 .. 2 -> SUBSET (1 .. n)]]
  PROVE  l \in [state: {"none", "half", "done"}, steady: SUBSET (1 .. m),
                pages: [1 .. 2 -> SUBSET (1 .. m)]]
<1>1. \A s \in SUBSET (1 .. n) : s \in SUBSET (1 .. m)
  OBVIOUS
<1>2. l.pages \in [1 .. 2 -> SUBSET (1 .. m)]
  BY <1>1
<1>3. l.steady \in SUBSET (1 .. m)
  BY <1>1
<1>4. l = [state |-> l.state, steady |-> l.steady, pages |-> l.pages]
  OBVIOUS
<1> QED
  BY <1>2, <1>3, <1>4

\* Every command preserves the types.
LEMMA TypeStep ==
  ASSUME TypeOK, Classes, [Next]_vars
  PROVE  TypeOK'
<1> USE DEF TypeOK
<1>1. CASE PowerOff
  BY <1>1 DEF PowerOff, PowerLoss, pinState, store, keyState
<1>2. CASE PowerOn
  BY <1>2 DEF PowerOn, pinState, store, keyState
<1>3. CASE Select
  BY <1>3 DEF Select, store, keyState
<1>4. CASE Deselect
  BY <1>4 DEF Deselect, store, keyState
<1>5. CASE SetPin
  <2>0. PinTries \in 0 .. PinTries
    BY PinTriesAssumption
  <2>1. pinSet' \in BOOLEAN /\ tries' \in 0 .. PinTries
    BY <1>5, <2>0 DEF SetPin
  <2> QED
    BY <1>5, <2>1 DEF SetPin, Ends, PowerLoss, store, keyState
<1>6. CASE Verify
  <2>1. tries' \in 0 .. PinTries
    BY <1>6, PinTriesAssumption DEF Verify
  <2>2. /\ mode' \in {"off", "idle", "selected"}
        /\ validated' \in BOOLEAN /\ login' \in BOOLEAN
    BY <1>6 DEF Verify, PowerLoss
  <2> QED
    BY <1>6, <2>1, <2>2 DEF Verify, store, keyState
<1>7. CASE Put
  <2>1. PICK name \in Names, kind \in {"hmac", "bearer"}, i \in Index :
          /\ PutAllowed(name, i) /\ imported' = imported + 1
          /\ hmacSecrets' = IF kind = "hmac" THEN hmacSecrets \cup {imported'}
                            ELSE hmacSecrets
          /\ slots' = [slots EXCEPT ![i] = [kind |-> kind, name |-> name,
                                            secret |-> imported']]
    BY <1>7 DEF Put
  <2>2. imported' \in 1 .. MaxSecrets /\ imported' \in 0 .. MaxSecrets
    BY <2>1, BoundsAssumption DEF PutAllowed
  <2>3. slots' \in [Index -> Entries \cup {Empty}]
    <3>1. [kind |-> kind, name |-> name, secret |-> imported'] \in Entries
      BY <2>2 DEF Entries, Secrets
    <3> QED
      BY <2>1, <3>1
  <2>4. hmacSecrets' \subseteq 1 .. imported' /\ revealed' \subseteq 1 .. imported'
    BY <1>7, <2>1 DEF Put
  <2>5. listing' \in [state: {"none", "half", "done"},
                      steady: SUBSET (1 .. imported'),
                      pages: [1 .. 2 -> SUBSET (1 .. imported')]]
    BY <1>7, <2>1, ListingType DEF Put
  <2> QED
    BY <1>7, <2>2, <2>3, <2>4, <2>5 DEF Put, Ends, PowerLoss, keyState
<1>8. CASE PutAborted
  BY <1>8
  DEF PutAborted, PutAllowed, Authorized, Ends, PowerLoss, store, keyState
<1>9. CASE Delete
  <2>1. slots' \in [Index -> Entries \cup {Empty}]
    BY <1>9 DEF Delete
  <2>2. UNCHANGED imported
    BY <1>9 DEF Delete
  <2>3. listing' \in [state: {"none", "half", "done"},
                      steady: SUBSET (1 .. imported),
                      pages: [1 .. 2 -> SUBSET (1 .. imported)]]
    <3>1. PICK i \in Occupied :
            \/ listing' = [listing EXCEPT !.steady = @ \ {slots[i].secret}]
            \/ listing' = listing
      BY <1>9 DEF Delete
    <3>2. listing.steady \ {slots[i].secret} \in SUBSET (1 .. imported)
      OBVIOUS
    <3> QED
      BY <3>1, <3>2
  <2> QED
    BY <1>9, <2>1, <2>2, <2>3 DEF Delete, Ends, PowerLoss, keyState
<1>10. CASE Reveal
  <2>1. revealed' \subseteq 1 .. imported
    BY <1>10 DEF Reveal, Classes
  <2> QED
    BY <1>10, <2>1 DEF Reveal, Ends, PowerLoss, store, keyState
<1>11. CASE List
  <2>1. \A S : SecretsAt(S) \in SUBSET (1 .. imported)
    BY DEF SecretsAt, Classes
  <2>2. <<SecretsAt(1 .. PageSize), {}>> \in [1 .. 2 -> SUBSET (1 .. imported)]
    BY <2>1
  <2>3. [listing.pages EXCEPT ![2] = SecretsAt(PageSize + 1 .. Slots)]
          \in [1 .. 2 -> SUBSET (1 .. imported)]
    BY <2>1
  <2>4. listing' \in [state: {"none", "half", "done"},
                      steady: SUBSET (1 .. imported),
                      pages: [1 .. 2 -> SUBSET (1 .. imported)]]
    <3>1. CASE listing' = [state |-> "half", steady |-> SecretsAt(Index),
                           pages |-> <<SecretsAt(1 .. PageSize), {}>>]
      BY <3>1, <2>1, <2>2
    <3>2. CASE listing' = [listing EXCEPT !.state = "done",
                             !.pages[2] = SecretsAt(PageSize + 1 .. Slots)]
      BY <3>2, <2>3
    <3> QED
      BY <1>11, <3>1, <3>2 DEF List
  <2> QED
    BY <1>11, <2>4 DEF List, Ends, PowerLoss, store, keyState
<1>12. CASE Keygen
  <2>1. keys' \in 0 .. MaxKeys
    BY <1>12, BoundsAssumption DEF Keygen, KeygenAllowed
  <2> QED
    BY <1>12, <2>1 DEF Keygen, Ends, PowerLoss, store
<1>13. CASE KeygenAborted
  <2>1. keys' \in 0 .. MaxKeys
    BY <1>13, BoundsAssumption DEF KeygenAborted, KeygenAllowed
  <2> QED
    BY <1>13, <2>1 DEF KeygenAborted, Ends, PowerLoss, store
<1>14. CASE Reject
  BY <1>14 DEF Reject, Ends, PowerLoss, store, keyState
<1>15. CASE UNCHANGED vars
  BY <1>15 DEF vars
<1> QED
  BY <1>1, <1>2, <1>3, <1>4, <1>5, <1>6, <1>7, <1>8, <1>9, <1>10, <1>11,
     <1>12, <1>13, <1>14, <1>15
  DEF Next

\* No command leaves a validated flag that the history does not account for.
LEMMA LoggedStep ==
  ASSUME TypeOK, Logged, [Next]_vars
  PROVE  Logged'
<1> USE PinTriesAssumption DEF TypeOK, Logged
<1>1. CASE PowerOff
  BY <1>1 DEF PowerOff, PowerLoss, pinState, store, keyState
<1>2. CASE PowerOn
  BY <1>2 DEF PowerOn, pinState, store, keyState
<1>3. CASE Select
  BY <1>3 DEF Select, store, keyState
<1>4. CASE Deselect
  BY <1>4 DEF Deselect, store, keyState
<1>5. CASE SetPin
  BY <1>5 DEF SetPin, Ends, PowerLoss, store, keyState
<1>6. CASE Verify
  BY <1>6 DEF Verify, PowerLoss, store, keyState
<1>7. CASE Put
  BY <1>7 DEF Put, PutAllowed, Authorized, Ends, PowerLoss, keyState
<1>8. CASE PutAborted
  BY <1>8
  DEF PutAborted, PutAllowed, Authorized, Ends, PowerLoss, store, keyState
<1>9. CASE Delete
  BY <1>9 DEF Delete, Authorized, Ends, PowerLoss, keyState
<1>10. CASE Reveal
  BY <1>10 DEF Reveal, Authorized, Ends, PowerLoss, store, keyState
<1>11. CASE List
  BY <1>11 DEF List, Authorized, Ends, PowerLoss, store, keyState
<1>12. CASE Keygen
  BY <1>12 DEF Keygen, KeygenAllowed, Authorized, Ends, PowerLoss, store
<1>13. CASE KeygenAborted
  BY <1>13 DEF KeygenAborted, KeygenAllowed, Authorized, Ends, PowerLoss, store
<1>14. CASE Reject
  BY <1>14 DEF Reject, Ends, PowerLoss, store, keyState
<1>15. CASE UNCHANGED vars
  BY <1>15 DEF vars
<1> QED
  BY <1>1, <1>2, <1>3, <1>4, <1>5, <1>6, <1>7, <1>8, <1>9, <1>10, <1>11,
     <1>12, <1>13, <1>14, <1>15
  DEF Next

\* Only a PIN that is set loses tries.
LEMMA UnspentStep ==
  ASSUME TypeOK, Unspent, [Next]_vars
  PROVE  Unspent'
<1> USE DEF Unspent
<1>1. CASE PowerOff
  BY <1>1 DEF PowerOff, PowerLoss, pinState, store, keyState
<1>2. CASE PowerOn
  BY <1>2 DEF PowerOn, pinState, store, keyState
<1>3. CASE Select
  BY <1>3 DEF Select, store, keyState
<1>4. CASE Deselect
  BY <1>4 DEF Deselect, store, keyState
<1>5. CASE SetPin
  BY <1>5 DEF SetPin, Ends, PowerLoss, store, keyState
<1>6. CASE Verify
  BY <1>6 DEF Verify, PowerLoss, store, keyState
<1>7. CASE Put
  BY <1>7 DEF Put, PutAllowed, Authorized, Ends, PowerLoss, keyState
<1>8. CASE PutAborted
  BY <1>8
  DEF PutAborted, PutAllowed, Authorized, Ends, PowerLoss, store, keyState
<1>9. CASE Delete
  BY <1>9 DEF Delete, Authorized, Ends, PowerLoss, keyState
<1>10. CASE Reveal
  BY <1>10 DEF Reveal, Authorized, Ends, PowerLoss, store, keyState
<1>11. CASE List
  BY <1>11 DEF List, Authorized, Ends, PowerLoss, store, keyState
<1>12. CASE Keygen
  BY <1>12 DEF Keygen, KeygenAllowed, Authorized, Ends, PowerLoss, store
<1>13. CASE KeygenAborted
  BY <1>13 DEF KeygenAborted, KeygenAllowed, Authorized, Ends, PowerLoss, store
<1>14. CASE Reject
  BY <1>14 DEF Reject, Ends, PowerLoss, store, keyState
<1>15. CASE UNCHANGED vars
  BY <1>15 DEF vars
<1> QED
  BY <1>1, <1>2, <1>3, <1>4, <1>5, <1>6, <1>7, <1>8, <1>9, <1>10, <1>11,
     <1>12, <1>13, <1>14, <1>15
  DEF Next

\* Flag, public key, attestation and key object move together.
LEMMA KeyStep ==
  ASSUME TypeOK, KeyPublished, [Next]_vars
  PROVE  KeyPublished'
<1> USE BoundsAssumption DEF TypeOK, KeyPublished
<1>1. CASE PowerOff
  BY <1>1 DEF PowerOff, PowerLoss, pinState, store, keyState
<1>2. CASE PowerOn
  BY <1>2 DEF PowerOn, pinState, store, keyState
<1>3. CASE Select
  BY <1>3 DEF Select, store, keyState
<1>4. CASE Deselect
  BY <1>4 DEF Deselect, store, keyState
<1>5. CASE SetPin
  BY <1>5 DEF SetPin, Ends, PowerLoss, store, keyState
<1>6. CASE Verify
  BY <1>6 DEF Verify, PowerLoss, store, keyState
<1>7. CASE Put
  BY <1>7 DEF Put, PutAllowed, Authorized, Ends, PowerLoss, keyState
<1>8. CASE PutAborted
  BY <1>8
  DEF PutAborted, PutAllowed, Authorized, Ends, PowerLoss, store, keyState
<1>9. CASE Delete
  BY <1>9 DEF Delete, Authorized, Ends, PowerLoss, keyState
<1>10. CASE Reveal
  BY <1>10 DEF Reveal, Authorized, Ends, PowerLoss, store, keyState
<1>11. CASE List
  BY <1>11 DEF List, Authorized, Ends, PowerLoss, store, keyState
<1>12. CASE Keygen
  BY <1>12 DEF Keygen, KeygenAllowed, Authorized, Ends, PowerLoss, store
<1>13. CASE KeygenAborted
  BY <1>13 DEF KeygenAborted, KeygenAllowed, Authorized, Ends, PowerLoss, store
<1>14. CASE Reject
  BY <1>14 DEF Reject, Ends, PowerLoss, store, keyState
<1>15. CASE UNCHANGED vars
  BY <1>15 DEF vars
<1> QED
  BY <1>1, <1>2, <1>3, <1>4, <1>5, <1>6, <1>7, <1>8, <1>9, <1>10, <1>11,
     <1>12, <1>13, <1>14, <1>15
  DEF Next

\* No two entries share a name or a secret.
LEMMA DistinctStep ==
  ASSUME TypeOK, Distinct, Classes, [Next]_vars
  PROVE  Distinct'
<1>1. CASE Put
  <2>1. PICK name \in Names, kind \in {"hmac", "bearer"}, i \in Index :
          /\ PutAllowed(name, i) /\ imported' = imported + 1
          /\ slots' = [slots EXCEPT ![i] = [kind |-> kind, name |-> name,
                                            secret |-> imported']]
    BY <1>1 DEF Put
  <2> DEFINE e == [kind |-> kind, name |-> name, secret |-> imported']
  <2>2. e \in Entries /\ i \in Index \ Occupied /\ slots' = [slots EXCEPT ![i] = e]
    BY <2>1, BoundsAssumption
    DEF PutAllowed, FreeSlot, TypeOK, Entries, Secrets
  <2>3. /\ Occupied' = Occupied \cup {i} /\ slots'[i] = e
        /\ \A j \in Occupied : slots'[j] = slots[j]
    BY <2>2, StoreEntry DEF TypeOK
  <2>4. \A j \in Occupied : slots[j].name # e.name
    BY <2>1 DEF PutAllowed, Found
  <2>5. \A j \in Occupied : slots[j].secret # e.secret
    BY <2>1 DEF Classes, TypeOK
  <2> QED
    BY <2>2, <2>3, <2>4, <2>5 DEF Distinct
<1>2. CASE Delete
  <2>1. PICK i \in Occupied :
          slots' = [slots EXCEPT ![i] = Empty] \/ slots' = slots
    BY <1>2 DEF Delete
  <2>2. CASE slots' = [slots EXCEPT ![i] = Empty]
    <3>1. i \in Index
      BY DEF Occupied
    <3>2. /\ Occupied' = Occupied \ {i}
          /\ \A j \in Occupied \ {i} : slots'[j] = slots[j]
      BY <2>2, <3>1, WipeEntry DEF TypeOK
    <3> QED
      BY <3>2 DEF Distinct
  <2> QED
    BY <2>1, <2>2 DEF Distinct, Occupied
<1>3. CASE UNCHANGED slots
  BY <1>3 DEF Distinct, Occupied
<1> QED
  BY <1>1, <1>2, <1>3
  DEF Next, PowerOff, PowerOn, Select, Deselect, SetPin, Verify, PutAborted,
      Reveal, List, Keygen, KeygenAborted, Reject, store, vars

\* An entry keeps the class its secret was imported with.
LEMMA ClassesStep ==
  ASSUME TypeOK, Classes, [Next]_vars
  PROVE  Classes'
<1>1. CASE Put
  <2>1. PICK name \in Names, kind \in {"hmac", "bearer"}, i \in Index :
          /\ PutAllowed(name, i) /\ imported' = imported + 1
          /\ hmacSecrets' = IF kind = "hmac" THEN hmacSecrets \cup {imported'}
                            ELSE hmacSecrets
          /\ slots' = [slots EXCEPT ![i] = [kind |-> kind, name |-> name,
                                            secret |-> imported']]
    BY <1>1 DEF Put
  <2> DEFINE e == [kind |-> kind, name |-> name, secret |-> imported']
  <2>2. e \in Entries /\ i \in Index \ Occupied /\ slots' = [slots EXCEPT ![i] = e]
    BY <2>1, BoundsAssumption
    DEF PutAllowed, FreeSlot, TypeOK, Entries, Secrets
  <2>3. /\ Occupied' = Occupied \cup {i} /\ slots'[i] = e
        /\ \A j \in Occupied : slots'[j] = slots[j]
    BY <2>2, StoreEntry DEF TypeOK
  <2>4. e.secret \in 1 .. imported' /\ (e.kind = "hmac" <=> e.secret \in hmacSecrets')
    BY <2>1 DEF TypeOK
  <2>5. \A j \in Occupied :
          /\ slots[j].secret \in 1 .. imported'
          /\ slots[j].kind = "hmac" <=> slots[j].secret \in hmacSecrets'
    BY <2>1 DEF TypeOK, Classes
  <2> QED
    BY <2>3, <2>4, <2>5 DEF Classes
<1>2. CASE Delete
  <2>1. PICK i \in Occupied :
          slots' = [slots EXCEPT ![i] = Empty] \/ slots' = slots
    BY <1>2 DEF Delete
  <2>2. UNCHANGED <<imported, hmacSecrets>>
    BY <1>2 DEF Delete
  <2>3. CASE slots' = [slots EXCEPT ![i] = Empty]
    BY <2>2, <2>3, WipeEntry DEF TypeOK, Classes, Occupied
  <2> QED
    BY <2>1, <2>2, <2>3 DEF Classes, Occupied
<1>3. CASE UNCHANGED store
  BY <1>3 DEF Classes, Occupied, store
<1> QED
  BY <1>1, <1>2, <1>3
  DEF Next, PowerOff, PowerOn, Select, Deselect, SetPin, Verify, PutAborted,
      Reveal, List, Keygen, KeygenAborted, Reject, store, vars

\* REVEAL reads a bearer secret, PUT imports one nobody has read.
LEMMA RevealStep ==
  ASSUME TypeOK, Classes, HmacNeverRevealed, [Next]_vars
  PROVE  HmacNeverRevealed'
<1>1. CASE Put
  <2>1. hmacSecrets' \subseteq hmacSecrets \cup {imported + 1}
    BY <1>1 DEF Put
  <2>2. imported + 1 \notin revealed /\ UNCHANGED revealed
    BY <1>1 DEF TypeOK, Put
  <2> QED
    BY <2>1, <2>2 DEF HmacNeverRevealed
<1>2. CASE Reveal
  <2>1. PICK i \in Occupied : /\ slots[i].kind = "bearer"
                              /\ revealed' = revealed \cup {slots[i].secret}
    BY <1>2 DEF Reveal
  <2>2. slots[i].secret \notin hmacSecrets
    BY <2>1 DEF Classes
  <2> QED
    BY <1>2, <2>1, <2>2 DEF HmacNeverRevealed, Reveal, store
<1>3. CASE UNCHANGED <<hmacSecrets, revealed>>
  BY <1>3 DEF HmacNeverRevealed
<1> QED
  BY <1>1, <1>2, <1>3
  DEF Next, PowerOff, PowerOn, Select, Deselect, SetPin, Verify, PutAborted,
      Delete, List, Keygen, KeygenAborted, Reject, store, vars

\* The invariant holds in every reachable state.
THEOREM Invariance == Spec => []Inv
<1>1. Inv /\ [Next]_vars => Inv'
  BY TypeStep, LoggedStep, UnspentStep, DistinctStep, ClassesStep,
     RevealStep, KeyStep
  DEF Inv
<1> QED
  BY <1>1, InitInv, PTL DEF Spec

\* Types are correct: a slot holds a whole entry or nothing.
THEOREM TypeCorrect == Spec => []TypeOK
  BY Invariance, PTL DEF Inv

\* HMAC secrets stay inside.
THEOREM HmacSecret == Spec => []HmacNeverRevealed
  BY Invariance, PTL DEF Inv

\* The published key is whole, wherever KEYGEN is torn.
THEOREM KeyWhole == Spec => []KeyPublished
  BY Invariance, PTL DEF Inv

\* The published key is never replaced.
THEOREM KeyForever == Spec => KeyIsForever
<1>1. ASSUME [Next]_vars, bindingKeyGenerated
      PROVE  UNCHANGED <<bindingKeyGenerated, candidateKey, bindingPublicKey,
                         binding>>
  <2>1. CASE PowerOff
    BY <1>1, <2>1 DEF PowerOff, PowerLoss, pinState, store, keyState
  <2>2. CASE PowerOn
    BY <1>1, <2>2 DEF PowerOn, pinState, store, keyState
  <2>3. CASE Select
    BY <1>1, <2>3 DEF Select, store, keyState
  <2>4. CASE Deselect
    BY <1>1, <2>4 DEF Deselect, store, keyState
  <2>5. CASE SetPin
    BY <1>1, <2>5 DEF SetPin, Ends, PowerLoss, store, keyState
  <2>6. CASE Verify
    BY <1>1, <2>6 DEF Verify, PowerLoss, store, keyState
  <2>7. CASE Put
    BY <1>1, <2>7 DEF Put, PutAllowed, Authorized, Ends, PowerLoss, keyState
  <2>8. CASE PutAborted
    BY <1>1, <2>8
    DEF PutAborted, PutAllowed, Authorized, Ends, PowerLoss, store, keyState
  <2>9. CASE Delete
    BY <1>1, <2>9 DEF Delete, Authorized, Ends, PowerLoss, keyState
  <2>10. CASE Reveal
    BY <1>1, <2>10 DEF Reveal, Authorized, Ends, PowerLoss, store, keyState
  <2>11. CASE List
    BY <1>1, <2>11 DEF List, Authorized, Ends, PowerLoss, store, keyState
  <2>12. CASE Keygen
    BY <1>1, <2>12
    DEF Keygen, KeygenAllowed, Authorized, Ends, PowerLoss, store
  <2>13. CASE KeygenAborted
    BY <1>1, <2>13
    DEF KeygenAborted, KeygenAllowed, Authorized, Ends, PowerLoss, store
  <2>14. CASE Reject
    BY <1>1, <2>14 DEF Reject, Ends, PowerLoss, store, keyState
  <2>15. CASE UNCHANGED vars
    BY <1>1, <2>15 DEF vars
  <2> QED
    BY <1>1, <2>1, <2>2, <2>3, <2>4, <2>5, <2>6, <2>7, <2>8, <2>9, <2>10,
       <2>11, <2>12, <2>13, <2>14, <2>15
    DEF Next
<1> QED
  BY <1>1, PTL DEF Spec, KeyIsForever

\* Nothing changes and nothing leaves the vault without a login.
THEOREM OwnerAuthorized == Spec => OwnerOnly
<1>1. ASSUME Inv, [Next]_vars,
             slots' # slots \/ revealed' # revealed \/ keys' # keys
      PROVE  login
  <2> USE DEF Inv, Logged
  <2>1. CASE PowerOff
    BY <1>1, <2>1 DEF PowerOff, PowerLoss, pinState, store, keyState
  <2>2. CASE PowerOn
    BY <1>1, <2>2 DEF PowerOn, pinState, store, keyState
  <2>3. CASE Select
    BY <1>1, <2>3 DEF Select, store, keyState
  <2>4. CASE Deselect
    BY <1>1, <2>4 DEF Deselect, store, keyState
  <2>5. CASE SetPin
    BY <1>1, <2>5 DEF SetPin, Ends, PowerLoss, store, keyState
  <2>6. CASE Verify
    BY <1>1, <2>6 DEF Verify, PowerLoss, store, keyState
  <2>7. CASE Put
    BY <1>1, <2>7 DEF Put, PutAllowed, Authorized, Ends, PowerLoss, keyState
  <2>8. CASE PutAborted
    BY <1>1, <2>8
    DEF PutAborted, PutAllowed, Authorized, Ends, PowerLoss, store, keyState
  <2>9. CASE Delete
    BY <1>1, <2>9 DEF Delete, Authorized, Ends, PowerLoss, keyState
  <2>10. CASE Reveal
    BY <1>1, <2>10 DEF Reveal, Authorized, Ends, PowerLoss, store, keyState
  <2>11. CASE List
    BY <1>1, <2>11 DEF List, Authorized, Ends, PowerLoss, store, keyState
  <2>12. CASE Keygen
    BY <1>1, <2>12
    DEF Keygen, KeygenAllowed, Authorized, Ends, PowerLoss, store
  <2>13. CASE KeygenAborted
    BY <1>1, <2>13
    DEF KeygenAborted, KeygenAllowed, Authorized, Ends, PowerLoss, store
  <2>14. CASE Reject
    BY <1>1, <2>14 DEF Reject, Ends, PowerLoss, store, keyState
  <2>15. CASE UNCHANGED vars
    BY <1>1, <2>15 DEF vars
  <2> QED
    BY <1>1, <2>1, <2>2, <2>3, <2>4, <2>5, <2>6, <2>7, <2>8, <2>9, <2>10,
       <2>11, <2>12, <2>13, <2>14, <2>15
    DEF Next
<1> QED
  BY <1>1, Invariance, PTL DEF Spec, OwnerOnly

\* A vault whose tries are used up is closed for ever.
THEOREM Lockout == Spec => LockedOut
<1>1. ASSUME Inv, [Next]_vars, tries = 0
      PROVE  UNCHANGED <<tries, slots, revealed, keys>>
  <2> USE PinTriesAssumption DEF Inv, Logged, Unspent
  <2>1. CASE PowerOff
    BY <1>1, <2>1 DEF PowerOff, PowerLoss, pinState, store, keyState
  <2>2. CASE PowerOn
    BY <1>1, <2>2 DEF PowerOn, pinState, store, keyState
  <2>3. CASE Select
    BY <1>1, <2>3 DEF Select, store, keyState
  <2>4. CASE Deselect
    BY <1>1, <2>4 DEF Deselect, store, keyState
  <2>5. CASE SetPin
    BY <1>1, <2>5 DEF SetPin, Ends, PowerLoss, store, keyState
  <2>6. CASE Verify
    BY <1>1, <2>6 DEF Verify, PowerLoss, store, keyState
  <2>7. CASE Put
    BY <1>1, <2>7 DEF Put, PutAllowed, Authorized, Ends, PowerLoss, keyState
  <2>8. CASE PutAborted
    BY <1>1, <2>8
    DEF PutAborted, PutAllowed, Authorized, Ends, PowerLoss, store, keyState
  <2>9. CASE Delete
    BY <1>1, <2>9 DEF Delete, Authorized, Ends, PowerLoss, keyState
  <2>10. CASE Reveal
    BY <1>1, <2>10 DEF Reveal, Authorized, Ends, PowerLoss, store, keyState
  <2>11. CASE List
    BY <1>1, <2>11 DEF List, Authorized, Ends, PowerLoss, store, keyState
  <2>12. CASE Keygen
    BY <1>1, <2>12
    DEF Keygen, KeygenAllowed, Authorized, Ends, PowerLoss, store
  <2>13. CASE KeygenAborted
    BY <1>1, <2>13
    DEF KeygenAborted, KeygenAllowed, Authorized, Ends, PowerLoss, store
  <2>14. CASE Reject
    BY <1>1, <2>14 DEF Reject, Ends, PowerLoss, store, keyState
  <2>15. CASE UNCHANGED vars
    BY <1>1, <2>15 DEF vars
  <2> QED
    BY <1>1, <2>1, <2>2, <2>3, <2>4, <2>5, <2>6, <2>7, <2>8, <2>9, <2>10,
       <2>11, <2>12, <2>13, <2>14, <2>15
    DEF Next
<1> QED
  BY <1>1, Invariance, PTL DEF Spec, LockedOut

-----------------------------------------------------------------------------
(* Listings.                                                               *)

\* Half-way through a listing every steady entry is still in its slot, and on
\* the first page just when that slot is.
InSlot(s, i) ==
  /\ slots[i].secret = s
  /\ i <= PageSize <=> s \in listing.pages[1]

HalfListed ==
  listing.state = "half" =>
    \A s \in listing.steady : \E i \in Occupied : InSlot(s, i)

\* Entries stay in their slots while a listing goes on.
LEMMA ListingStep ==
  ASSUME Inv, HalfListed, ListingComplete, [Next]_vars
  PROVE  HalfListed' /\ ListingComplete'
<1>0. TypeOK /\ Distinct
  BY DEF Inv
<1>1. CASE Put
  <2>1. PICK i \in Index, e \in Entries :
          i \notin Occupied /\ slots' = [slots EXCEPT ![i] = e]
    <3>1. PICK name \in Names, kind \in {"hmac", "bearer"}, i \in Index :
            /\ PutAllowed(name, i) /\ imported' = imported + 1
            /\ slots' = [slots EXCEPT ![i] = [kind |-> kind, name |-> name,
                                              secret |-> imported']]
      BY <1>1 DEF Put
    <3>2. [kind |-> kind, name |-> name, secret |-> imported'] \in Entries
      BY <1>0, <3>1, BoundsAssumption DEF PutAllowed, Entries, Secrets, TypeOK
    <3> QED
      BY <3>1, <3>2 DEF PutAllowed, FreeSlot
  <2>2. /\ Occupied' = Occupied \cup {i}
        /\ \A j \in Occupied : slots'[j] = slots[j]
    BY <1>0, <2>1, StoreEntry DEF TypeOK
  <2>3. UNCHANGED listing
    BY <1>1 DEF Put
  <2> QED
    BY <2>2, <2>3 DEF HalfListed, ListingComplete, InSlot
<1>2. CASE Delete
  <2>1. PICK i \in Occupied :
          \/ /\ slots' = [slots EXCEPT ![i] = Empty]
             /\ listing' = [listing EXCEPT !.steady = @ \ {slots[i].secret}]
          \/ UNCHANGED <<slots, listing>>
    BY <1>2 DEF Delete
  <2>2. CASE UNCHANGED <<slots, listing>>
    BY <2>2 DEF HalfListed, ListingComplete, InSlot, Occupied
  <2>3. CASE /\ slots' = [slots EXCEPT ![i] = Empty]
             /\ listing' = [listing EXCEPT !.steady = @ \ {slots[i].secret}]
    <3>1. i \in Index
      BY DEF Occupied
    <3>2. /\ Occupied' = Occupied \ {i}
          /\ \A j \in Occupied \ {i} : slots'[j] = slots[j]
      BY <1>0, <2>3, <3>1, WipeEntry DEF TypeOK
    <3>3. /\ listing'.state = listing.state /\ listing'.pages = listing.pages
          /\ listing'.steady = listing.steady \ {slots[i].secret}
      BY <1>0, <2>3 DEF TypeOK
    <3>4. ListingComplete'
      BY <3>3 DEF ListingComplete
    <3>5. ASSUME listing'.state = "half", NEW s \in listing'.steady
          PROVE  \E j \in Occupied' : InSlot(s, j)'
      <4>1. s \in listing.steady /\ s # slots[i].secret /\ listing.state = "half"
        BY <3>3, <3>5
      <4>2. PICK j \in Occupied : InSlot(s, j)
        BY <4>1 DEF HalfListed
      <4>3. j \in Occupied' /\ slots'[j] = slots[j]
        BY <3>2, <4>1, <4>2 DEF InSlot
      <4> QED
        BY <3>3, <4>2, <4>3 DEF InSlot
    <3>6. HalfListed'
      BY <3>5 DEF HalfListed
    <3> QED
      BY <3>4, <3>6
  <2> QED
    BY <2>1, <2>2, <2>3
<1>3. CASE List
  <2>1. UNCHANGED slots /\ Occupied' = Occupied
    BY <1>3 DEF List, store, Occupied
  <2>2. CASE listing' = [state |-> "half", steady |-> SecretsAt(Index),
                         pages |-> <<SecretsAt(1 .. PageSize), {}>>]
    <3>1. ASSUME NEW i \in Occupied
          PROVE  i <= PageSize <=> slots[i].secret \in SecretsAt(1 .. PageSize)
      BY <1>0, SlotsAssumption DEF SecretsAt, Distinct, Occupied, Index
    <3>2. \A s \in SecretsAt(Index) : \E i \in Occupied : slots[i].secret = s
      BY DEF SecretsAt
    <3> QED
      BY <2>1, <2>2, <3>1, <3>2 DEF HalfListed, ListingComplete, InSlot
  <2>3. CASE /\ listing.state = "half"
             /\ listing' = [listing EXCEPT !.state = "done",
                              !.pages[2] = SecretsAt(PageSize + 1 .. Slots)]
    <3>1. ASSUME NEW i \in Occupied
          PROVE  ~(i <= PageSize)
                   <=> slots[i].secret \in SecretsAt(PageSize + 1 .. Slots)
      BY <1>0, SlotsAssumption DEF SecretsAt, Distinct, Occupied, Index
    <3>2. /\ listing'.state = "done" /\ listing'.steady = listing.steady
          /\ listing'.pages[1] = listing.pages[1]
          /\ listing'.pages[2] = SecretsAt(PageSize + 1 .. Slots)
      BY <1>0, <2>3 DEF TypeOK
    <3>3. ASSUME NEW s \in listing.steady
          PROVE  s \in listing.pages[1] <=> s \notin SecretsAt(PageSize + 1 .. Slots)
      <4>1. PICK i \in Occupied : InSlot(s, i)
        BY <2>3 DEF HalfListed
      <4> QED
        BY <3>1, <4>1 DEF InSlot
    <3> QED
      BY <3>2, <3>3 DEF HalfListed, ListingComplete
  <2> QED
    BY <1>3, <2>2, <2>3 DEF List
<1>4. CASE UNCHANGED <<slots, listing>>
  BY <1>4 DEF HalfListed, ListingComplete, InSlot, Occupied
<1> QED
  BY <1>1, <1>2, <1>3, <1>4
  DEF Next, PowerOff, PowerOn, Select, Deselect, SetPin, Verify, PutAborted,
      Reveal, Keygen, KeygenAborted, Reject, store, vars

\* A complete listing shows every steady entry exactly once.
THEOREM Listing == Spec => []ListingComplete
<1>1. Init => HalfListed /\ ListingComplete
  BY DEF Init, NoListing, HalfListed, ListingComplete
<1>2. Inv /\ HalfListed /\ ListingComplete /\ [Next]_vars
        => (HalfListed /\ ListingComplete)'
  BY ListingStep
<1> QED
  BY <1>1, <1>2, Invariance, PTL DEF Spec

-----------------------------------------------------------------------------
(* Refinement.                                                             *)

StoreSet == {Entry(i) : i \in Occupied}

\* Entries that are kept in slots have their places.
LEMMA Room ==
  ASSUME NEW O \in SUBSET Index, NEW entry
  PROVE  Store!Fits({entry[i] : i \in O})
<1> DEFINE S == {entry[i] : i \in O}
           place == [e \in S |-> CHOOSE i \in O : entry[i] = e]
<1>1. \A e \in S : place[e] \in O /\ entry[place[e]] = e
  OBVIOUS
<1>2. place \in [S -> 1 .. Slots]
  BY <1>1 DEF Index
<1>3. \A e, g \in S : e # g => place[e] # place[g]
  BY <1>1
<1> QED
  BY <1>2, <1>3 DEF Store!Fits

\* PUT imports an entry.
LEMMA PutImports ==
  ASSUME Inv, Put
  PROVE  Store!Import
<1> USE DEF Inv, TypeOK
<1>1. PICK name \in Names, kind \in {"hmac", "bearer"}, i \in Index :
        /\ PutAllowed(name, i) /\ imported' = imported + 1
        /\ slots' = [slots EXCEPT ![i] = [kind |-> kind, name |-> name,
                                          secret |-> imported']]
  BY DEF Put
<1> DEFINE e == [kind |-> kind, name |-> name, secret |-> imported']
<1>2. e \in Entries /\ i \in Index \ Occupied /\ slots' = [slots EXCEPT ![i] = e]
  BY <1>1, BoundsAssumption DEF PutAllowed, FreeSlot, Entries, Secrets
<1>3. /\ Occupied' = Occupied \cup {i} /\ slots'[i] = e
      /\ \A j \in Occupied : slots'[j] = slots[j]
  BY <1>2, StoreEntry
<1>4. StoreSet' = StoreSet \cup {e}
  BY <1>3 DEF StoreSet, Entry
<1>5. \A g \in StoreSet : g.name # e.name
  BY <1>1 DEF StoreSet, Entry, PutAllowed, Found
<1>6. e.secret \notin 1 .. imported /\ 1 .. imported' = (1 .. imported) \cup {e.secret}
  BY <1>1
<1>7. Store!Fits(StoreSet \cup {e})
  <2> DEFINE O == Occupied \cup {i}
             entry == [j \in O |-> IF j = i THEN e ELSE Entry(j)]
  <2>1. O \in SUBSET Index /\ i \notin Occupied
    BY <1>2 DEF Occupied
  <2>2. {entry[j] : j \in O} = StoreSet \cup {e}
    BY <2>1 DEF StoreSet
  <2> HIDE DEF O, entry
  <2>3. Store!Fits({entry[j] : j \in O})
    BY <2>1, Room
  <2> QED
    BY <2>2, <2>3
<1>8. e \in Store!Entries
  BY <1>2 DEF Entries, Store!Entries
<1>9. UNCHANGED revealed
  BY DEF Put
<1>10. /\ e \in Store!Entries
       /\ \A g \in StoreSet : g.name # e.name
       /\ e.secret \notin 1 .. imported
       /\ StoreSet' = StoreSet \cup {e}
       /\ 1 .. imported' = (1 .. imported) \cup {e.secret}
  BY <1>4, <1>5, <1>6, <1>8
<1> HIDE DEF e
<1> QED
  BY <1>4, <1>7, <1>9, <1>10 DEF Store!Import, StoreSet

\* DELETE removes one entry, or none when it fails.
LEMMA DeleteRemoves ==
  ASSUME Inv, Delete
  PROVE  Store!Remove \/ UNCHANGED <<StoreSet, revealed, imported>>
<1> USE DEF Inv, TypeOK
<1>1. PICK i \in Occupied :
        slots' = [slots EXCEPT ![i] = Empty] \/ slots' = slots
  BY DEF Delete
<1>2. CASE slots' = slots
  BY <1>2 DEF StoreSet, Entry, Occupied, Delete
<1>3. CASE slots' = [slots EXCEPT ![i] = Empty]
  <2>1. i \in Index
    BY DEF Occupied
  <2>2. /\ Occupied' = Occupied \ {i}
        /\ \A j \in Occupied \ {i} : slots'[j] = slots[j]
    BY <1>3, <2>1, WipeEntry
  <2>3. \A j \in Occupied \ {i} : Entry(j) # Entry(i)
    BY DEF Distinct, Entry
  <2>4. StoreSet' = StoreSet \ {Entry(i)}
    BY <2>2, <2>3 DEF StoreSet, Entry
  <2> QED
    BY <2>4 DEF Store!Remove, StoreSet, Delete
<1> QED
  BY <1>1, <1>2, <1>3

\* REVEAL reads an entry back.
LEMMA RevealReadsBack ==
  ASSUME Inv, Reveal
  PROVE  Store!ReadBack
<1>1. PICK i \in Occupied : /\ slots[i].kind = "bearer"
                            /\ revealed' = revealed \cup {slots[i].secret}
  BY DEF Reveal
<1>2. Entry(i) \in StoreSet /\ Entry(i).kind = "bearer"
      /\ Entry(i).secret = slots[i].secret
  BY <1>1 DEF StoreSet, Entry
<1>3. UNCHANGED <<StoreSet, imported>>
  BY DEF Reveal, store, StoreSet, Entry, Occupied
<1> QED
  BY <1>1, <1>2, <1>3 DEF Store!ReadBack, StoreSet

\* The vault implements VaultStore.
THEOREM Implementation == Spec => ImplementsStore
<1>1. Init => Store!Init
  <2> SUFFICES ASSUME Init PROVE Store!Init
    OBVIOUS
  <2>1. Occupied = {}
    BY DEF Init, Occupied, Empty
  <2>2. 1 .. imported = {}
    BY DEF Init
  <2> QED
    BY <2>1, <2>2 DEF Init, Store!Init
<1>2. Inv /\ [Next]_vars => [Store!Next]_(Store!vars)
  <2> SUFFICES ASSUME Inv, [Next]_vars PROVE [Store!Next]_(Store!vars)
    OBVIOUS
  <2>1. CASE Put
    BY <2>1, PutImports DEF Store!Next
  <2>2. CASE Delete
    BY <2>2, DeleteRemoves DEF Store!Next, Store!vars, StoreSet
  <2>3. CASE Reveal
    BY <2>3, RevealReadsBack DEF Store!Next
  <2>4. CASE UNCHANGED <<slots, revealed, imported>>
    BY <2>4 DEF Store!vars, Entry, Occupied
  <2> QED
    BY <2>1, <2>2, <2>3, <2>4
    DEF Next, PowerOff, PowerOn, Select, Deselect, SetPin, Verify, PutAborted,
        List, Keygen, KeygenAborted, Reject, store, vars
<1> QED
  BY <1>1, <1>2, Invariance, PTL DEF Spec, ImplementsStore, Store!Spec

-----------------------------------------------------------------------------
(* 2. The disk vault.                                                      *)

-----------------------------------------------------------------------------
(* Scripts.                                                                *)

\* The steps a job has.
OfJob(job, step) ==
  /\ step \in {"load", "unlock"} => job \in DiskJobs
  /\ step = "seal" => job = "put"
  /\ step = "remove" => job = "rm"
  /\ step = "unseal" => job = "run"
  /\ step \in {"profile", "prf"} => job \in ProfileJobs \cup {"put", "run"}
  /\ step \in {"create", "truncate", "write", "refuse"} => job \in ProfileJobs
  /\ step \in VaultSteps \cup {"open", "logout"} => job \notin DiskJobs \cup ProfileJobs
  /\ step \in {"verify", "command", "logout"} => job # "init"

\* The steps a job may end with.
Final(job, step) ==
  /\ job \in DiskJobs => step = "unlock"
  /\ job \in ProfileJobs => step \in {"write", "refuse", "prf"}
  /\ job = "init" => step = "readBack"
  /\ job \notin DiskJobs \cup ProfileJobs \cup {"init"} => step = "logout"

\* One step comes after another.
Follows(job, fake, step, next) ==
  \/ step = "load" /\ job = "list" /\ next = "unlock"
  \/ step = "load" /\ job = "put" /\ next = (IF fake THEN "seal" ELSE "profile")
  \/ step = "load" /\ job = "rm" /\ next = "remove"
  \/ step = "load" /\ job = "run" /\ next = (IF fake THEN "unseal" ELSE "profile")
  \/ step = "profile" /\ next = "prf"
  \/ step = "prf" /\ job = "put" /\ next = "seal"
  \/ step = "prf" /\ job = "run" /\ next = "unseal"
  \/ step = "prf" /\ job \in ProfileJobs /\ next = "prf"
  \/ step \in {"seal", "remove", "unseal"} /\ next = "unlock"
  \/ step = "create" /\ next = "truncate"
  \/ step = "truncate" /\ next = "write"
  \/ step = "write" /\ next = "profile"
  \/ step = "open" /\ next = "status"
  \/ step = "status" /\ job = "init" /\ next = "setPin"
  \/ step = "status" /\ job # "init" /\ next = "verify"
  \/ step = "setPin" /\ next = "readBack"
  \/ step = "verify" /\ next = "command"
  \/ step = "command" /\ next \in {"readBack", "logout"}
  \/ step = "readBack" /\ job # "init" /\ next = "logout"

Scripted(job, fake, todo) ==
  /\ todo \in Seq(Steps)
  /\ \A i \in 1..Len(todo) : OfJob(job, todo[i])
  /\ \A i \in 1..Len(todo) : i + 1 <= Len(todo) => Follows(job, fake, todo[i], todo[i + 1])
  /\ todo # <<>> => Final(job, todo[Len(todo)])

\* What is left of a script after its first step.
LEMMA Chain ==
  ASSUME NEW job, NEW fake, NEW todo, Scripted(job, fake, todo), todo # <<>>,
         NEW t, t = Tail(todo)
  PROVE  /\ OfJob(job, Head(todo))
         /\ Scripted(job, fake, t)
         /\ t = <<>> <=> Len(todo) = 1
         /\ t = <<>> => Final(job, Head(todo))
         /\ t # <<>> => Follows(job, fake, Head(todo), Head(t))
<1>0. todo \in Seq(Steps)
  BY DEF Scripted
<1>1. /\ t \in Seq(Steps) /\ Len(t) = Len(todo) - 1 /\ Len(todo) \in Nat /\ Len(todo) # 0
      /\ \A i \in 1..Len(t) : t[i] = todo[i + 1]
  BY <1>0, HeadTailProperties, LenProperties, EmptySeq
<1>2. Head(todo) = todo[1]
  BY <1>0
<1>3. t = <<>> <=> Len(t) = 0
  BY <1>1, EmptySeq
<1>3a. t # <<>> => Head(t) = t[1]
  BY <1>1
<1>4. Scripted(job, fake, t)
  <2>1. \A i \in 1..Len(t) : OfJob(job, t[i])
    BY <1>1 DEF Scripted
  <2>2. \A i \in 1..Len(t) : i + 1 <= Len(t) => Follows(job, fake, t[i], t[i + 1])
    BY <1>1 DEF Scripted
  <2>3. t # <<>> => Final(job, t[Len(t)])
    BY <1>1, <1>3 DEF Scripted
  <2> QED
    BY <1>1, <2>1, <2>2, <2>3 DEF Scripted
<1>5. OfJob(job, Head(todo))
  BY <1>1, <1>2 DEF Scripted
<1>6. t = <<>> => Final(job, Head(todo))
  BY <1>1, <1>2, <1>3 DEF Scripted
<1>7. t # <<>> => Follows(job, fake, Head(todo), Head(t))
  BY <1>1, <1>2, <1>3, <1>3a DEF Scripted
<1>8. t = <<>> <=> Len(todo) = 1
  BY <1>1, <1>3
<1> QED
  BY <1>4, <1>5, <1>6, <1>7, <1>8

\* A part of a script, with its first and its last step.
Part(job, fake, first, last, todo) ==
  /\ todo \in Seq(Steps) /\ todo # <<>>
  /\ \A i \in 1..Len(todo) : OfJob(job, todo[i])
  /\ \A i \in 1..Len(todo) : i + 1 <= Len(todo) => Follows(job, fake, todo[i], todo[i + 1])
  /\ todo[1] = first /\ todo[Len(todo)] = last

\* Two parts, of which one follows the other, are a part.
LEMMA Join ==
  ASSUME NEW job, NEW fake, NEW a, NEW b, NEW c, NEW d, NEW s, NEW t,
         Part(job, fake, a, b, s), Part(job, fake, c, d, t), Follows(job, fake, b, c)
  PROVE  Part(job, fake, a, d, s \o t)
<1> SUFFICES ASSUME NEW u, u = s \o t PROVE Part(job, fake, a, d, u)
  OBVIOUS
<1>1. /\ s \in Seq(Steps) /\ Len(s) \in Nat /\ Len(s) # 0
      /\ t \in Seq(Steps) /\ Len(t) \in Nat /\ Len(t) # 0
  BY LenProperties, EmptySeq DEF Part
<1>2. /\ u \in Seq(Steps) /\ Len(u) = Len(s) + Len(t)
      /\ \A i \in 1..Len(s) + Len(t) : u[i] = IF i <= Len(s) THEN s[i] ELSE t[i - Len(s)]
  BY <1>1, ConcatProperties
<1>3. u # <<>> /\ u[1] = a /\ u[Len(u)] = d
  BY <1>1, <1>2 DEF Part
<1>4. \A i \in 1..Len(u) : OfJob(job, u[i])
  <2> SUFFICES ASSUME NEW i \in 1..Len(u) PROVE OfJob(job, u[i])
    OBVIOUS
  <2>1. CASE i <= Len(s)
    BY <2>1, <1>1, <1>2 DEF Part
  <2>2. CASE ~(i <= Len(s))
    <3>1. u[i] = t[i - Len(s)] /\ i - Len(s) \in 1..Len(t)
      BY <2>2, <1>1, <1>2
    <3> QED
      BY <3>1 DEF Part
  <2> QED
    BY <2>1, <2>2
<1>5. \A i \in 1..Len(u) : i + 1 <= Len(u) => Follows(job, fake, u[i], u[i + 1])
  <2> SUFFICES ASSUME NEW i \in 1..Len(u), i + 1 <= Len(u)
               PROVE  Follows(job, fake, u[i], u[i + 1])
    OBVIOUS
  <2>1. CASE i + 1 <= Len(s)
    BY <2>1, <1>1, <1>2 DEF Part
  <2>2. CASE i = Len(s)
    BY <2>2, <1>1, <1>2 DEF Part
  <2>3. CASE i > Len(s)
    <3>1. /\ i - Len(s) \in 1..Len(t) /\ (i - Len(s)) + 1 <= Len(t)
          /\ u[i] = t[i - Len(s)] /\ u[i + 1] = t[(i - Len(s)) + 1]
      BY <2>3, <1>1, <1>2
    <3> QED
      BY <3>1 DEF Part
  <2> QED
    BY <2>1, <2>2, <2>3, <1>1
<1> QED
  BY <1>2, <1>3, <1>4, <1>5 DEF Part

\* A part that ends as a script may is a script.
LEMMA WholeScript ==
  ASSUME NEW job, NEW fake, NEW first, NEW last, NEW todo,
         Part(job, fake, first, last, todo), Final(job, last)
  PROVE  Scripted(job, fake, todo) /\ todo # <<>> /\ Head(todo) = first
BY DEF Part, Scripted

\* A job has its script: it begins with a step that holds nothing and writes nothing.
LEMMA Scripts ==
  ASSUME NEW job \in Jobs, NEW fake \in BOOLEAN, fake => job \in DiskJobs,
         NEW todo, todo = Script(job, fake)
  PROVE  /\ Scripted(job, fake, todo) /\ todo # <<>>
         /\ Head(todo) \in {"load", "create", "refuse", "profile", "open"}
         /\ job \in DiskJobs => Head(todo) = "load"
<1> DEFINE Good == /\ Scripted(job, fake, todo) /\ todo # <<>>
                   /\ Head(todo) \in {"load", "create", "refuse", "profile", "open"}
                   /\ job \in DiskJobs => Head(todo) = "load"
           load == <<"load">>
           make == <<"create", "truncate", "write">>
           asks == <<"profile", "prf", "prf", "prf">>
<1>0. SUFFICES Good
  OBVIOUS
<1>l. job \in {"put", "run"} => Part(job, fake, "load", "load", load)
  BY DEF Part, Follows, OfJob, Steps, VaultSteps, DiskJobs, ProfileJobs
<1>m. job \in ProfileJobs => Part(job, fake, "create", "write", make)
  BY DEF Part, Follows, OfJob, Steps, VaultSteps, DiskJobs, ProfileJobs
<1>a. job \in ProfileJobs => Part(job, fake, "profile", "prf", asks)
  BY DEF Part, Follows, OfJob, Steps, VaultSteps, DiskJobs, ProfileJobs
<1> HIDE DEF load, make, asks
<1>1. CASE job = "list"
  <2>1. todo = <<"load", "unlock">>
    BY <1>1 DEF Script, ProfileJobs
  <2> QED
    BY <2>1, <1>1 DEF Scripted, Follows, OfJob, Final, Steps, VaultSteps, DiskJobs, ProfileJobs
<1>2. CASE job = "put"
  <2> DEFINE d == <<"profile", "prf">>  e == <<"seal", "unlock">>
  <2>1. todo = (load \o Derivation(fake)) \o e
    BY <1>2 DEF Script, ProfileJobs, load
  <2>2. Part(job, fake, "seal", "unlock", e)
    BY <1>2 DEF Part, Follows, OfJob, Steps, VaultSteps, DiskJobs, ProfileJobs
  <2>3. Part(job, fake, "profile", "prf", d)
    BY <1>2 DEF Part, Follows, OfJob, Steps, VaultSteps, DiskJobs, ProfileJobs
  <2>4. Part(job, fake, "load", "load", load)
    BY <1>2, <1>l
  <2> HIDE DEF d, e
  <2>5. Part(job, fake, "load", "unlock", todo)
    <3>1. CASE fake
      <4>1. Derivation(fake) = <<>>
        BY <3>1 DEF Derivation
      <4>2. load \o Derivation(fake) = load
        BY <2>4, <4>1, ConcatEmptySeq DEF Part
      <4>3. Follows(job, fake, "load", "seal")
        BY <1>2, <3>1 DEF Follows
      <4> QED
        BY <2>1, <2>2, <2>4, <4>2, <4>3, Join
    <3>2. CASE ~fake
      <4>1. todo = (load \o d) \o e
        BY <2>1, <3>2 DEF d, Derivation
      <4>2. Follows(job, fake, "load", "profile") /\ Follows(job, fake, "prf", "seal")
        BY <1>2, <3>2 DEF Follows
      <4>3. Part(job, fake, "load", "prf", load \o d)
        BY <2>3, <2>4, <4>2, Join
      <4> QED
        BY <2>2, <4>1, <4>2, <4>3, Join
    <3> QED
      BY <3>1, <3>2
  <2>6. Final(job, "unlock")
    BY <1>2 DEF Final, DiskJobs, ProfileJobs
  <2> QED
    BY <2>5, <2>6, WholeScript
<1>3. CASE job = "run"
  <2> DEFINE d == <<"profile", "prf">>  e == <<"unseal", "unlock">>
  <2>1. todo = (load \o Derivation(fake)) \o e
    BY <1>3 DEF Script, ProfileJobs, load
  <2>2. Part(job, fake, "unseal", "unlock", e)
    BY <1>3 DEF Part, Follows, OfJob, Steps, VaultSteps, DiskJobs, ProfileJobs
  <2>3. Part(job, fake, "profile", "prf", d)
    BY <1>3 DEF Part, Follows, OfJob, Steps, VaultSteps, DiskJobs, ProfileJobs
  <2>4. Part(job, fake, "load", "load", load)
    BY <1>3, <1>l
  <2> HIDE DEF d, e
  <2>5. Part(job, fake, "load", "unlock", todo)
    <3>1. CASE fake
      <4>1. Derivation(fake) = <<>>
        BY <3>1 DEF Derivation
      <4>2. load \o Derivation(fake) = load
        BY <2>4, <4>1, ConcatEmptySeq DEF Part
      <4>3. Follows(job, fake, "load", "unseal")
        BY <1>3, <3>1 DEF Follows
      <4> QED
        BY <2>1, <2>2, <2>4, <4>2, <4>3, Join
    <3>2. CASE ~fake
      <4>1. todo = (load \o d) \o e
        BY <2>1, <3>2 DEF d, Derivation
      <4>2. Follows(job, fake, "load", "profile") /\ Follows(job, fake, "prf", "unseal")
        BY <1>3, <3>2 DEF Follows
      <4>3. Part(job, fake, "load", "prf", load \o d)
        BY <2>3, <2>4, <4>2, Join
      <4> QED
        BY <2>2, <4>1, <4>2, <4>3, Join
    <3> QED
      BY <3>1, <3>2
  <2>6. Final(job, "unlock")
    BY <1>3 DEF Final, DiskJobs, ProfileJobs
  <2> QED
    BY <2>5, <2>6, WholeScript
<1>4. CASE job = "rm"
  <2>1. todo = <<"load", "remove", "unlock">>
    BY <1>4 DEF Script, ProfileJobs
  <2> QED
    BY <2>1, <1>4 DEF Scripted, Follows, OfJob, Final, Steps, VaultSteps, DiskJobs, ProfileJobs
<1>5. CASE job \in ProfileJobs
  <2>0. todo = ProfileScript(job)
    BY <1>5 DEF Script, ProfileJobs
  <2>1. CASE todo = <<"refuse">>
    BY <2>1, <1>5 DEF Scripted, Follows, OfJob, Final, Steps, VaultSteps, DiskJobs, ProfileJobs
  <2>2. CASE todo = make
    <3>1. Final(job, "write")
      BY <1>5 DEF Final, DiskJobs, ProfileJobs
    <3> QED
      BY <2>2, <3>1, <1>5, <1>m, WholeScript DEF DiskJobs, ProfileJobs
  <2>3. CASE todo = <<"profile", "prf">>
    BY <2>3, <1>5 DEF Scripted, Follows, OfJob, Final, Steps, VaultSteps, DiskJobs, ProfileJobs
  <2>a. Final(job, "prf") /\ Follows(job, fake, "write", "profile")
    BY <1>5 DEF Final, Follows, DiskJobs, ProfileJobs
  <2>4. CASE todo = <<>> \o asks
    <3>1. todo = asks
      BY <2>4, <1>5, <1>a, ConcatEmptySeq DEF Part
    <3> QED
      BY <3>1, <2>a, <1>5, <1>a, WholeScript DEF DiskJobs, ProfileJobs
  <2>5. CASE todo = make \o asks
    <3>1. Part(job, fake, "create", "prf", todo)
      BY <2>5, <1>5, <1>m, <1>a, <2>a, Join
    <3> QED
      BY <3>1, <2>a, <1>5, WholeScript DEF DiskJobs, ProfileJobs
  <2>6. CASE job \in {"enroll", "enrollForced", "derive", "assert"}
    BY <2>0, <2>1, <2>2, <2>3, <2>6 DEF ProfileScript, Enrolment, make
  <2>7. CASE job = "selftest"
    <3>1. todo = (IF profile = Absent THEN make ELSE <<>>) \o asks
      BY <2>0, <2>7 DEF ProfileScript, Enrolment, make, asks
    <3> QED
      BY <3>1, <2>4, <2>5
  <2>8. CASE job = "selftestForced"
    <3>1. todo = make \o asks
      BY <2>0, <2>8 DEF ProfileScript, Enrolment, make, asks
    <3> QED
      BY <3>1, <2>5
  <2> QED
    BY <1>5, <2>6, <2>7, <2>8 DEF ProfileJobs
<1>6. CASE job \notin DiskJobs \cup ProfileJobs
  <2>0. ~fake /\ todo = SessionOf(job)
    BY <1>6 DEF Script, DiskJobs
  <2>1. \/ job = "init" /\ todo = <<"open", "status", "setPin", "readBack">>
        \/ job # "init" /\ todo = <<"open", "status", "verify", "command", "readBack", "logout">>
        \/ job # "init" /\ todo = <<"open", "status", "verify", "command", "logout">>
    BY <2>0 DEF SessionOf
  <2>2. CASE job = "init" /\ todo = <<"open", "status", "setPin", "readBack">>
    <3>b. todo = <<"open", "status", "setPin", "readBack">>
      BY <2>2
    <3>0. \A step \in {"open", "status", "setPin", "readBack"} : OfJob(job, step)
      BY <1>6 DEF OfJob, VaultSteps
    <3>a. /\ Follows(job, fake, "open", "status") /\ Follows(job, fake, "status", "setPin")
          /\ Follows(job, fake, "setPin", "readBack")
      BY <2>2 DEF Follows
    <3>1. Part(job, fake, "open", "readBack", todo)
      <4>1. /\ todo \in Seq(Steps) /\ todo # <<>> /\ Len(todo) = 4
            /\ todo[1] = "open" /\ todo[2] = "status" /\ todo[3] = "setPin" /\ todo[4] = "readBack"
        BY <3>b DEF Steps, VaultSteps
      <4>2. \A i \in 1..4 : i = 1 \/ i = 2 \/ i = 3 \/ i = 4
        OBVIOUS
      <4>3. \A i \in 1..Len(todo) : todo[i] \in {"open", "status", "setPin", "readBack"}
        BY <4>1, <4>2
      <4>4. \A i \in 1..Len(todo) : i + 1 <= Len(todo) => Follows(job, fake, todo[i], todo[i + 1])
        BY <3>a, <4>1, <4>2
      <4> QED
        BY <3>0, <4>1, <4>3, <4>4 DEF Part
    <3>2. Final(job, "readBack")
      BY <2>2 DEF Final, DiskJobs, ProfileJobs
    <3> QED
      BY <3>1, <3>2, <1>6, WholeScript
  <2>3. CASE job # "init" /\ todo = <<"open", "status", "verify", "command", "readBack", "logout">>
    BY <2>3, <1>6 DEF Scripted, Follows, OfJob, Final, Steps, VaultSteps, DiskJobs, ProfileJobs
  <2>4. CASE job # "init" /\ todo = <<"open", "status", "verify", "command", "logout">>
    BY <2>4, <1>6 DEF Scripted, Follows, OfJob, Final, Steps, VaultSteps, DiskJobs, ProfileJobs
  <2> QED
    BY <2>1, <2>2, <2>3, <2>4
<1> QED
  BY <1>1, <1>2, <1>3, <1>4, <1>5, <1>6 DEF DiskJobs

-----------------------------------------------------------------------------
(* The invariant.                                                          *)

\* A process at work; one that read the vault under the lock; one between the
\* credential and the end of its profile.
Runs(q) == q.pc = "run"
Holds(q) == Runs(q) /\ q.job \in DiskJobs /\ Head(q.todo) # "load"
Writes(q) == Runs(q) /\ Head(q.todo) \in {"truncate", "write"}
DiskOutputs == [cred : 1..MaxCreds, uv : BOOLEAN, salt : {"first"}]

\* Where a process is in its script, and what it has by then.
Local(q) ==
  /\ Runs(q) => q.todo # <<>> /\ q.job \in Jobs /\ Scripted(q.job, q.fake, q.todo)
  /\ q.result = "torn" => q.pc \in {"ended", "killed"}
  /\ q.attempted => /\ Runs(q) /\ q.job \notin DiskJobs \cup ProfileJobs \cup {"init"}
                    /\ Head(q.todo) \in {"command", "readBack", "logout"}
  /\ Runs(q) /\ q.job \in DiskJobs => q.outputs \subseteq DiskOutputs
  /\ Runs(q) /\ q.job \in {"put", "run"} /\ ~q.fake /\ Head(q.todo) \in {"seal", "unseal", "unlock"} =>
       q.outputs # {}
  /\ Runs(q) /\ Head(q.todo) \in {"truncate", "write", "prf"} => q.prof \in Profile
  /\ Runs(q) /\ q.job \in {"put", "rm", "run", "cardPut", "cardRm"} => q.name \in EntryNames

\* The copy of a process that holds the lock is what the file still holds, and what
\* was checked of it is still true; an entry it put is in the file.
CopyOf(q, file) == IF file.mode = "absent" THEN [NoVault EXCEPT !.mode = Mode(q)] ELSE file
Copied(q, file) ==
  /\ Head(q.todo) # "unlock" => q.copy = CopyOf(q, file) /\ Passes(q, q.copy)
  /\ q.job = "put" /\ Head(q.todo) = "unlock" =>
       [name |-> q.name, value |-> q.value, key |-> KeyOf(q)] \in file.log

\* A card made the credential, with the extension the profile says it has.
Real(prof, made) == \E c \in made : c.cred = prof.cred /\ (prof.prf => c.prf)

\* The conjuncts of the inductive invariant.
Located == \A p \in Processes : Local(process[p])
AbsentEmpty == \A v \in {vault.file, vault.durable} : v.mode = "absent" => v = NoVault
Holders == \A p \in Processes : Holds(process[p]) => lock = p /\ Copied(process[p], vault.file)
Writers == \A p \in Processes : Writes(process[p]) =>
             /\ Real(process[p].prof, AllCreds)
             /\ Head(process[p].todo) = "write" => opened

\* What a loss of power may leave names a real credential too, and is broken only by
\* an enrolment.
Sound(f, made) == f \in Contents \ {Truncated} /\ (Whole(f) => Real(f, made))
Durable == (\A f \in saved : Sound(f, AllCreds)) /\ (Partial \in saved => opened)
SecretsInv ==
  /\ SecretsTypeOK /\ Located /\ AbsentEmpty /\ Holders /\ Writers /\ Durable
  /\ VaultKept /\ LoggedOut /\ ProfileTrue

\* What a step of process p, which becomes r, keeps of the file, of the profile and
\* of the cards.
DiskKept(p, r) ==
  /\ Holds(r) => lock' = p /\ Copied(r, vault'.file)
  /\ lock' = lock \/ (lock = p /\ lock' = None) \/ (lock = None /\ lock' = p)
  /\ lock = p \/ vault' = vault
  /\ vault' \in [file : Vaults, durable : Vaults] /\ values' \in 0..MaxValues
  /\ acked' \subseteq FileEntry /\ gone' \subseteq FileEntry
  /\ AbsentEmpty' /\ VaultKept'

InSessionAs(r) == Runs(r) /\ r.conn = epoch + 1 /\ r.attempted
Writing(r) == Runs(r) /\ r.todo # <<>> /\ Head(r.todo) = "write"

FidoKept(p, r) ==
  /\ Writes(r) => Real(r.prof, AllCreds') /\ (Head(r.todo) = "write" => opened')
  /\ creds' \in [Cards -> SUBSET Credential] /\ AllCreds \subseteq AllCreds'
  /\ profile' \in Contents
  /\ Whole(profile') => Real(profile', AllCreds')
  /\ opened' \in BOOLEAN /\ (profile' \in {Truncated, Partial} => opened')
  /\ (opened => opened') /\ (Partial \in saved' => opened')
  /\ \A f \in saved' : f \in saved \/ Sound(f, AllCreds')
  /\ profile' = Truncated => \/ Writing(r) \/ r.result = "torn"
                             \/ profile = Truncated /\ ~Writing(process[p]) /\ process[p].result # "torn"

CardKept(p, r) ==
  /\ inserted' \in Cards \cup {NoCard} /\ epoch' = epoch /\ faults' \in 0..MaxFaults
  /\ current' \in {"none", "fido", "vault"} /\ loggedIn' \in BOOLEAN
  /\ applet' \in [Cards -> Applets] /\ unclean' \in BOOLEAN
  /\ loggedIn' => \/ unclean' \/ InSessionAs(r)
                  \/ loggedIn /\ (unclean => unclean') /\ ~InSession(p)

\* A step of one process that keeps all of that keeps the invariant.
LEMMA Kept ==
  ASSUME SecretsInv, NEW p \in Processes, NEW r \in State,
         Becomes(p, r), Local(r), DiskKept(p, r), FidoKept(p, r), CardKept(p, r)
  PROVE  SecretsInv'
<1>1. /\ process \in [Processes -> State] /\ process' = [process EXCEPT ![p] = r]
      /\ process'[p] = r /\ \A x \in Processes \ {p} : process'[x] = process[x]
  BY DEF SecretsInv, SecretsTypeOK, Becomes
<1>2. process' \in [Processes -> State]
  BY <1>1
<1>3. None \notin Processes
  BY ProfileAssumption
<1>4. SecretsTypeOK'
  <2>1. lock' \in Processes \cup {None}
    BY DEF SecretsInv, SecretsTypeOK, DiskKept
  <2>2. epoch' \in 0..MaxSwaps
    BY DEF SecretsInv, SecretsTypeOK, ProfileTypeOK, CardKept
  <2> QED
    <3>1. saved' \subseteq Contents
      BY DEF FidoKept, Sound, SecretsInv, SecretsTypeOK, ProfileTypeOK
    <3> QED
      BY <1>2, <2>1, <2>2, <3>1 DEF SecretsTypeOK, ProfileTypeOK, DiskKept, FidoKept, CardKept, Contents
<1>5. Located'
  <2>1. \A x \in Processes : Local(process'[x])
    BY <1>1 DEF SecretsInv, Located
  <2> QED
    BY <2>1 DEF Located, Local, Runs
<1>6. Holders'
  <2>1. SUFFICES ASSUME NEW x \in Processes, Holds(process'[x])
                 PROVE  lock' = x /\ Copied(process'[x], vault'.file)
    BY DEF Holders, Holds, Runs, Copied, CopyOf, Passes, Has, Mode, KeyOf
  <2>2. CASE x = p
    BY <2>1, <2>2, <1>1 DEF DiskKept
  <2>3. CASE x # p
    <3>1. lock = x /\ Copied(process[x], vault.file)
      BY <2>1, <2>3, <1>1 DEF SecretsInv, Holders
    <3> QED
      BY <3>1, <2>3, <1>1, <1>3 DEF DiskKept
  <2> QED
    BY <2>2, <2>3
<1>7. Writers'
  <2>1. SUFFICES ASSUME NEW x \in Processes, Writes(process'[x])
                 PROVE  /\ Real(process'[x].prof, AllCreds')
                        /\ Head(process'[x].todo) = "write" => opened'
    BY DEF Writers, Writes, Runs, Real
  <2>2. CASE x = p
    BY <2>1, <2>2, <1>1 DEF FidoKept
  <2>3. CASE x # p
    <3>1. Real(process[x].prof, AllCreds) /\ (Head(process[x].todo) = "write" => opened)
      BY <2>1, <2>3, <1>1 DEF SecretsInv, Writers
    <3> QED
      BY <3>1, <2>3, <1>1 DEF FidoKept, Real
  <2> QED
    BY <2>2, <2>3
<1>8. LoggedOut'
  <2>1. SUFFICES ASSUME loggedIn', ~unclean' PROVE \E x \in Processes : InSession(x)'
    BY DEF LoggedOut
  <2>2. epoch' = epoch
    BY DEF CardKept
  <2>3. CASE InSessionAs(r)
    BY <2>2, <2>3, <1>1 DEF InSession, Session, InSessionAs, Runs
  <2>4. CASE loggedIn /\ (unclean => unclean') /\ ~InSession(p)
    <3>1. PICK x \in Processes : InSession(x)
      BY <2>1, <2>4 DEF SecretsInv, LoggedOut
    <3>2. x # p
      BY <3>1, <2>4
    <3> QED
      BY <3>1, <3>2, <2>2, <1>1 DEF InSession, Session
  <2> QED
    BY <2>1, <2>3, <2>4 DEF CardKept
<1>9. ProfileTrue'
  <2>1. Whole(profile') => \E c \in AllCreds' : c.cred = profile'.cred /\ (profile'.prf => c.prf)
    BY DEF FidoKept, Real
  <2>2. ASSUME profile' = Truncated
        PROVE  \E x \in Processes : Next1(x, "write")' \/ process'[x].result = "torn"
    <3>1. CASE Writing(r) \/ r.result = "torn"
      BY <3>1, <1>1 DEF Writing, Runs, Next1
    <3>2. CASE profile = Truncated /\ ~Writing(process[p]) /\ process[p].result # "torn"
      <4>1. PICK x \in Processes : Next1(x, "write") \/ process[x].result = "torn"
        BY <3>2 DEF SecretsInv, ProfileTrue
      <4>2. x # p
        BY <3>2, <4>1 DEF Next1, Writing, Runs
      <4> QED
        BY <4>1, <4>2, <1>1 DEF Next1
    <3> QED
      BY <2>2, <3>1, <3>2 DEF FidoKept
  <2> QED
    BY <2>1, <2>2 DEF FidoKept, ProfileTrue, Whole, Truncated, Absent, Partial, AllCreds
<1>10. Durable'
  <2>1. \A f \in saved' : Sound(f, AllCreds')
    <3>1. SUFFICES ASSUME NEW f \in saved' PROVE Sound(f, AllCreds')
      OBVIOUS
    <3>2. CASE f \in saved
      <4>1. Sound(f, AllCreds)
        BY <3>2 DEF SecretsInv, Durable
      <4> QED
        BY <4>1 DEF FidoKept, Sound, Real
    <3> QED
      BY <3>2, <3>1 DEF FidoKept
  <2>2. Partial \in saved' => opened'
    BY DEF FidoKept
  <2> QED
    BY <2>1, <2>2 DEF Durable, Sound, Contents, Whole, Real, Truncated, Absent, Partial, Profile, AllCreds
<1> QED
  BY <1>4, <1>5, <1>6, <1>7, <1>8, <1>9, <1>10 DEF SecretsInv, DiskKept

-----------------------------------------------------------------------------
(* Steps: of the process, of the file, of the profile, of the card.        *)

\* Finitely many credentials are made.
LEMMA FiniteCreds ==
  ASSUME creds \in [Cards -> SUBSET Credential]
  PROVE  AllCreds \subseteq Credential /\ IsFiniteSet(AllCreds) /\ Cardinality(AllCreds) \in Nat
<1> DEFINE number == [c \in Credential |-> IF c.prf THEN 2 * c.cred ELSE 2 * c.cred - 1]
<1>1. MaxCreds \in Nat \ {0}
  BY ProfileAssumption
<1>2. number \in [Credential -> 1..2 * MaxCreds]
  BY <1>1 DEF Credential
<1>3. \A c, d \in Credential : number[c] = number[d] => c = d
  <2> SUFFICES ASSUME NEW c \in Credential, NEW d \in Credential, number[c] = number[d] PROVE c = d
    OBVIOUS
  <2>1. c.cred = d.cred /\ c.prf = d.prf
    BY <1>1 DEF Credential
  <2> QED
    BY <2>1 DEF Credential
<1>4. number \in Injection(Credential, 1..2 * MaxCreds)
  <2> HIDE DEF number
  <2> QED
    BY <1>2, <1>3 DEF Injection, IsInjective
<1>5. 2 * MaxCreds \in Int /\ 1 \in Int
  BY <1>1
<1>6. IsFiniteSet(1..2 * MaxCreds)
  BY <1>5, FS_Interval
<1> HIDE DEF number
<1>7. IsFiniteSet(Credential)
  BY <1>4, <1>6, FS_Injection
<1>8. AllCreds \subseteq Credential
  BY DEF AllCreds
<1> QED
  BY <1>7, <1>8, FS_Subset, FS_CardinalityType

\* A process that ended holds nothing and writes nothing.
LEMMA Ended ==
  ASSUME NEW place \in {"ended", "killed"}, NEW result \in Results,
         NEW r, r = Gone(place, result)
  PROVE  /\ r \in State /\ Local(r) /\ ~Runs(r) /\ ~Holds(r) /\ ~Writes(r)
         /\ ~Writing(r) /\ ~InSessionAs(r) /\ r.result = result /\ r.pc = place
<1>1. 0 \in 0..MaxSwaps + 1
  BY ProfileAssumption
<1>2. r = [pc |-> place, job |-> "none", fake |-> FALSE, rightPin |-> TRUE, todo |-> <<>>, prof |-> Absent,
           outputs |-> {}, conn |-> 0, attempted |-> FALSE, name |-> None, copy |-> None, value |-> 0,
           result |-> result]
  BY DEF Gone, Fresh
<1>3. <<>> \in Seq(Steps) /\ {} \in SUBSET Outputs /\ 0 \in Nat
  OBVIOUS
<1>4. r \in State
  BY <1>1, <1>2, <1>3 DEF State, PC
<1> QED
  BY <1>2, <1>4 DEF Local, Runs, Holds, Writes, Writing, InSessionAs, PC

\* What a step leaves alone it keeps.
LEMMA DiskIdle ==
  ASSUME SecretsInv, NEW p \in Processes, NEW r, ~Holds(r), UNCHANGED <<vault, values>>,
         lock' = lock \/ (lock = p /\ lock' = None),
         UNCHANGED <<acked, gone>>
  PROVE  DiskKept(p, r)
BY DEF DiskKept, SecretsInv, SecretsTypeOK, AbsentEmpty, VaultKept

\* The profile and the credentials, when the writer of a profile still says so.
LEMMA FidoIdle ==
  ASSUME SecretsInv, NEW p \in Processes, NEW r, ~Writes(r), UNCHANGED <<creds, profileFile>>,
         Writing(process[p]) => Writing(r) \/ r.result = "torn",
         process[p].result = "torn" => r.result = "torn"
  PROVE  FidoKept(p, r)
<1>1. /\ creds' = creds /\ profile' = profile /\ saved' = saved /\ opened' = opened
  BY DEF profileFile
<1>2. AllCreds' = AllCreds
  BY <1>1 DEF AllCreds
<1>3. /\ creds \in [Cards -> SUBSET Credential] /\ profile \in Contents /\ opened \in BOOLEAN
      /\ Partial \in saved => opened
      /\ Whole(profile) => Real(profile, AllCreds)
      /\ profile \in {Truncated, Partial} => opened
  BY DEF SecretsInv, SecretsTypeOK, ProfileTypeOK, ProfileTrue, Real, Durable
<1>4. /\ opened' \in BOOLEAN /\ (profile' \in {Truncated, Partial} => opened')
      /\ (opened => opened') /\ (Partial \in saved' => opened')
      /\ \A f \in saved' : f \in saved \/ Sound(f, AllCreds')
  BY <1>1, <1>3
<1>5. /\ creds' \in [Cards -> SUBSET Credential] /\ AllCreds \subseteq AllCreds'
      /\ profile' \in Contents /\ (Whole(profile') => Real(profile', AllCreds'))
  BY <1>1, <1>2, <1>3
<1>6. profile' = Truncated => \/ Writing(r) \/ r.result = "torn"
                              \/ profile = Truncated /\ ~Writing(process[p]) /\ process[p].result # "torn"
  BY <1>1
<1> QED
  BY <1>4, <1>5, <1>6 DEF FidoKept

\* The card, when the process had no session.
LEMMA CardIdle ==
  ASSUME SecretsInv, NEW p \in Processes, NEW r, ~InSession(p),
         UNCHANGED <<inserted, epoch, current, loggedIn, faults, applet, unclean>>
  PROVE  CardKept(p, r)
BY DEF CardKept, SecretsInv, SecretsTypeOK, ProfileTypeOK

\* A process at work, and what is left of its script.
LEMMA AtWork ==
  ASSUME SecretsInv, NEW p \in Processes, process[p].pc = "run",
         NEW q, q = process[p], NEW t, t = Tail(q.todo)
  PROVE  /\ q \in State /\ Local(q) /\ Runs(q) /\ q.todo # <<>> /\ q.job \in Jobs
         /\ OfJob(q.job, Head(q.todo))
         /\ t \in Seq(Steps) /\ Scripted(q.job, q.fake, t)
         /\ t = <<>> <=> Len(q.todo) = 1
         /\ t = <<>> => Final(q.job, Head(q.todo))
         /\ t # <<>> => Follows(q.job, q.fake, Head(q.todo), Head(t))
         /\ q.result # "torn"
<1>1. q \in State /\ Local(q) /\ Runs(q)
  BY DEF SecretsInv, SecretsTypeOK, Located, Runs
<1>2. q.todo # <<>> /\ q.job \in Jobs /\ Scripted(q.job, q.fake, q.todo) /\ q.result # "torn"
  BY <1>1 DEF Local, Runs
<1>3. t \in Seq(Steps)
  BY <1>2, HeadTailProperties DEF Scripted
<1> QED
  BY <1>1, <1>2, <1>3, Chain

\* A process that is killed gives the lock back; a session it leaves open is unclean.
LEMMA KillStep ==
  ASSUME SecretsInv, NEW p \in Processes, Kill(p)
  PROVE  SecretsInv'
<1> DEFINE r == Gone("killed", IF Next1(p, "write") THEN "torn" ELSE "none")
<1>1. /\ r \in State /\ Local(r) /\ ~Runs(r) /\ ~Holds(r) /\ ~Writes(r)
      /\ ~Writing(r) /\ ~InSessionAs(r) /\ r.result = IF Next1(p, "write") THEN "torn" ELSE "none"
  BY Ended DEF PC, Results
<1>2. Becomes(p, r)
  BY DEF Kill
<1>3. process[p].pc = "run" /\ process[p].result # "torn"
  BY AtWork DEF Kill
<1> HIDE DEF r
<1>4. DiskKept(p, r)
  BY <1>1, DiskIdle DEF Kill
<1>5. FidoKept(p, r)
  <2>1. Writing(process[p]) => r.result = "torn"
    BY <1>1 DEF Writing, Runs, Next1
  <2> QED
    BY <1>1, <1>3, <2>1, FidoIdle DEF Kill, fido
<1>6. CardKept(p, r)
  BY <1>1, <1>3 DEF Kill, CardKept, cardState, SecretsInv, SecretsTypeOK, ProfileTypeOK
<1> QED
  BY <1>1, <1>2, <1>4, <1>5, <1>6, Kept

\* A process that starts holds nothing, writes nothing and has no session.
LEMMA StartStep ==
  ASSUME SecretsInv, NEW p \in Processes, Start(p)
  PROVE  SecretsInv'
<1>1. PICK job \in Jobs, fake \in BOOLEAN, rightPin \in BOOLEAN, name \in EntryNames \cup {None}, class \in {1, 2} :
        /\ fake => job \in DiskJobs
        /\ class = 2 => job = "cardPut"
        /\ name # None <=> job \in {"put", "rm", "run", "cardPut", "cardRm", "cardHmac", "cardRun"}
        /\ ~rightPin => "prf" \in Asks(job, fake) \/ "verify" \in Asks(job, fake)
        /\ Becomes(p, [Fresh EXCEPT !.pc = "run", !.job = job, !.fake = fake, !.rightPin = rightPin,
                                   !.name = name, !.value = IF job = "cardPut" THEN class ELSE 0,
                                   !.todo = Script(job, fake)])
  BY DEF Start
<1>2. PICK todo : todo = Script(job, fake)
  OBVIOUS
<1>3. /\ Scripted(job, fake, todo) /\ todo # <<>> /\ todo \in Seq(Steps)
      /\ Head(todo) \in {"load", "create", "refuse", "profile", "open"}
      /\ job \in DiskJobs => Head(todo) = "load"
  BY <1>1, <1>2, Scripts DEF Scripted
<1>4. PICK r, v : /\ v = (IF job = "cardPut" THEN class ELSE 0)
                  /\ r = [Fresh EXCEPT !.pc = "run", !.job = job, !.fake = fake, !.rightPin = rightPin,
                                       !.name = name, !.value = v, !.todo = todo]
  OBVIOUS
<1>5. Becomes(p, r)
  BY <1>1, <1>2, <1>4
<1>e. /\ r.pc = "run" /\ r.job = job /\ r.fake = fake /\ r.todo = todo /\ r.name = name
      /\ r.outputs = {} /\ r.attempted = FALSE /\ r.result = "none"
  BY <1>4 DEF Fresh
<1>6. r \in State
  <2>1. 0 \in 0..MaxSwaps + 1 /\ {} \in SUBSET Outputs /\ v \in Nat
    BY <1>4, ProfileAssumption
  <2> QED
    BY <1>3, <1>4, <2>1 DEF State, PC, Results, Fresh
<1>7. Local(r)
  <2>1. job \in {"put", "rm", "run", "cardPut", "cardRm"} => name \in EntryNames
    BY <1>1
  <2> QED
    BY <1>3, <2>1, <1>e DEF Local, Runs
<1>8. ~Holds(r) /\ ~Writes(r)
  BY <1>3, <1>e DEF Holds, Writes, Runs
<1>9. process[p].pc = "off" /\ process[p].result # "torn"
  BY DEF Start, SecretsInv, Located, Local
<1>10. DiskKept(p, r)
  BY <1>8, DiskIdle DEF Start, disk
<1>11. FidoKept(p, r)
  BY <1>8, <1>9, FidoIdle DEF Start, fido, Writing, Runs
<1>12. CardKept(p, r)
  BY <1>9, CardIdle DEF Start, cardState, InSession, Session
<1> QED
  BY <1>5, <1>6, <1>7, <1>10, <1>11, <1>12, Kept

-----------------------------------------------------------------------------
(* The file.                                                               *)

\* A command of the file holds no session of the card.
LEMMA NoSession ==
  ASSUME SecretsInv, NEW p \in Processes, process[p].job \in DiskJobs \cup ProfileJobs
                       \/ Head(process[p].todo) \notin {"command", "readBack", "logout"}
  PROVE  ~InSession(p)
BY DEF SecretsInv, Located, Local, InSession

\* A command that fails gives back what it holds.
LEMMA FailedStep ==
  ASSUME SecretsInv, NEW p \in Processes, Becomes(p, Failed), process[p].pc = "run",
         ~Next1(p, "write"), ~InSession(p),
         lock' = lock \/ (lock = p /\ lock' = None),
         UNCHANGED <<cardState, faults, fido, vault, values, acked, gone, applet, unclean>>
  PROVE  SecretsInv'
<1> DEFINE r == Failed
<1>1. /\ r \in State /\ Local(r) /\ ~Runs(r) /\ ~Holds(r) /\ ~Writes(r)
  BY Ended DEF PC, Results, Failed
<1>2. process[p].result # "torn" /\ ~Writing(process[p])
  BY AtWork DEF Writing, Runs, Next1
<1> HIDE DEF r
<1>3. DiskKept(p, r)
  BY <1>1, DiskIdle
<1>4. FidoKept(p, r)
  BY <1>1, <1>2, FidoIdle DEF fido
<1>5. CardKept(p, r)
  BY CardIdle DEF cardState
<1>6. Becomes(p, r)
  BY DEF r
<1> QED
  BY <1>1, <1>3, <1>4, <1>5, <1>6, Kept

\* The file is read under the lock, and the checks on it hold of the copy.
LEMMA LoadStep ==
  ASSUME SecretsInv, NEW p \in Processes, Load(p)
  PROVE  SecretsInv'
<1> DEFINE q == process[p]  t == Tail(q.todo)
<1>1. /\ q \in State /\ Local(q) /\ Runs(q) /\ q.todo # <<>> /\ q.job \in Jobs
      /\ OfJob(q.job, "load") /\ Head(q.todo) = "load"
      /\ t \in Seq(Steps) /\ Scripted(q.job, q.fake, t)
      /\ t = <<>> => Final(q.job, "load")
      /\ t # <<>> => Follows(q.job, q.fake, "load", Head(t))
      /\ q.result # "torn"
  BY AtWork DEF Load, Next1
<1>2. /\ q.job \in DiskJobs /\ t # <<>>
      /\ \/ q.job = "list" /\ Head(t) = "unlock"
         \/ q.job = "put" /\ Head(t) \in {"seal", "profile"} /\ (Head(t) = "seal" => q.fake)
         \/ q.job = "rm" /\ Head(t) = "remove"
         \/ q.job = "run" /\ Head(t) \in {"unseal", "profile"} /\ (Head(t) = "unseal" => q.fake)
  BY <1>1 DEF OfJob, Final, Follows, DiskJobs
<1>3. ~InSession(p)
  BY <1>2, NoSession
<1>4. CASE ~Passes(q, Loaded(q))
  BY <1>1, <1>3, <1>4, FailedStep DEF Load, Next1, fido, Runs
<1>5. CASE Passes(q, Loaded(q))
  <2>1. Loaded(q) = CopyOf(q, vault.file)
    BY DEF Loaded, CopyOf
  <2>2. PICK file : file = Loaded(q)
    OBVIOUS
  <2>3. file \in Vaults
    BY <2>2 DEF Loaded, NoVault, Mode, Vaults, SecretsInv, SecretsTypeOK
  <2>4. PICK r : r = [Advance(q) EXCEPT !.copy = file]
    OBVIOUS
  <2>5. /\ r \in State /\ r.pc = "run" /\ r.job = q.job /\ r.fake = q.fake /\ r.todo = t /\ r.copy = file
        /\ r.name = q.name /\ r.attempted = q.attempted /\ r.result = q.result /\ r.outputs = q.outputs
    BY <1>1, <2>3, <2>4 DEF Advance, State, Runs
  <2>6. Becomes(p, r) /\ lock' = p /\ lock = None
    BY <1>5, <2>2, <2>4 DEF Load
  <2>7. Local(r)
    BY <1>1, <1>2, <2>5 DEF Local, Runs, DiskJobs, ProfileJobs
  <2>8. Copied(r, vault.file)
    <3>1. CopyOf(r, vault.file) = file /\ Passes(r, file)
      BY <1>5, <2>1, <2>2, <2>5 DEF CopyOf, Mode, Passes, Has
    <3> QED
      BY <1>2, <2>5, <3>1 DEF Copied
  <2>9. DiskKept(p, r)
    BY <2>6, <2>8 DEF Load, DiskKept, SecretsInv, SecretsTypeOK, AbsentEmpty, VaultKept
  <2>10. ~Writes(r) /\ ~Writing(q)
    BY <1>1, <1>2, <2>5 DEF Writes, Writing, Runs
  <2>11. FidoKept(p, r)
    BY <1>1, <2>10, FidoIdle DEF Load, fido
  <2>12. CardKept(p, r)
    BY <1>3, CardIdle DEF Load, cardState
  <2> QED
    BY <2>5, <2>6, <2>7, <2>9, <2>11, <2>12, Kept
<1> QED
  BY <1>4, <1>5

\* Unsealing changes nothing of the file.
LEMMA UnsealStep ==
  ASSUME SecretsInv, NEW p \in Processes, Unseal(p)
  PROVE  SecretsInv'
<1> DEFINE q == process[p]  t == Tail(q.todo)
<1>1. /\ q \in State /\ Local(q) /\ Runs(q) /\ q.todo # <<>> /\ q.job \in Jobs
      /\ OfJob(q.job, "unseal") /\ Head(q.todo) = "unseal"
      /\ t \in Seq(Steps) /\ Scripted(q.job, q.fake, t)
      /\ t = <<>> => Final(q.job, "unseal")
      /\ t # <<>> => Follows(q.job, q.fake, "unseal", Head(t))
      /\ q.result # "torn"
  BY AtWork DEF Unseal, Next1
<1>2. q.job = "run" /\ t # <<>> /\ Head(t) = "unlock"
  BY <1>1 DEF OfJob, Final, Follows, DiskJobs
<1>3. ~InSession(p)
  BY <1>2, NoSession DEF DiskJobs
<1>4. lock = p /\ q.copy = CopyOf(q, vault.file) /\ Passes(q, q.copy)
  BY <1>1, <1>2 DEF SecretsInv, Holders, Holds, DiskJobs, Copied
<1>5. PICK e : e = CHOOSE x \in q.copy.entries : x.name = q.name
  OBVIOUS
<1>6. e.value \in Nat
  <2>1. q.copy \in Vaults
    BY <1>4 DEF CopyOf, NoVault, Mode, Vaults, SecretsInv, SecretsTypeOK
  <2>2. \E x \in q.copy.entries : x.name = q.name
    BY <1>2, <1>4 DEF Passes, Has
  <2>3. e \in q.copy.entries
    BY <1>5, <2>2
  <2> QED
    BY <2>1, <2>3 DEF Vaults, FileEntry
<1>7. CASE e.key # KeyOf(q)
  BY <1>1, <1>3, <1>5, <1>7, FailedStep DEF Unseal, Next1, fido, Runs, Unlocked
<1>8. CASE e.key = KeyOf(q)
  <2>1. PICK r : r = [Advance(q) EXCEPT !.value = e.value]
    OBVIOUS
  <2>2. /\ r \in State /\ r.pc = "run" /\ r.job = q.job /\ r.fake = q.fake /\ r.todo = t /\ r.copy = q.copy
        /\ r.name = q.name /\ r.attempted = q.attempted /\ r.result = q.result /\ r.outputs = q.outputs
    BY <1>1, <1>6, <2>1 DEF Advance, State, Runs
  <2>3. Becomes(p, r) /\ lock' = lock
    BY <1>5, <1>8, <2>1 DEF Unseal
  <2>4. Local(r)
    BY <1>1, <1>2, <2>2 DEF Local, Runs, DiskJobs, ProfileJobs
  <2>5. Copied(r, vault.file)
    BY <1>2, <2>2 DEF Copied
  <2>6. DiskKept(p, r)
    BY <1>4, <2>3, <2>5 DEF Unseal, DiskKept, SecretsInv, SecretsTypeOK, AbsentEmpty, VaultKept
  <2>7. ~Writes(r) /\ ~Writing(q)
    BY <1>1, <1>2, <2>2 DEF Writes, Writing, Runs
  <2>8. FidoKept(p, r)
    BY <1>1, <2>7, FidoIdle DEF Unseal, fido
  <2>9. CardKept(p, r)
    BY <1>3, CardIdle DEF Unseal, cardState
  <2> QED
    BY <2>2, <2>3, <2>4, <2>6, <2>8, <2>9, Kept
<1> QED
  BY <1>7, <1>8

\* A put is reported only when its entry is in the file.
LEMMA UnlockStep ==
  ASSUME SecretsInv, NEW p \in Processes, Unlock(p)
  PROVE  SecretsInv'
<1> DEFINE q == process[p]
<1>1. /\ q \in State /\ Local(q) /\ Runs(q) /\ q.todo # <<>> /\ q.job \in Jobs
      /\ OfJob(q.job, "unlock") /\ Head(q.todo) = "unlock"
      /\ q.result # "torn"
  BY AtWork DEF Unlock, Next1
<1>2. q.job \in DiskJobs
  BY <1>1 DEF OfJob
<1>3. ~InSession(p)
  BY <1>2, NoSession
<1>4. PICK r : r = Gone("ended", IF process[p].job # "run" THEN "ok"
       ELSE IF process[p].fake \/ KeyOf(process[p]).uv THEN "handedVerified" ELSE "handed")
  OBVIOUS
<1>5. /\ r \in State /\ Local(r) /\ ~Runs(r) /\ ~Holds(r) /\ ~Writes(r)
  BY <1>4, Ended DEF PC, Results
<1>6. Becomes(p, r)
  BY <1>4 DEF Unlock
<1>7. q.job = "put" => [name |-> q.name, value |-> q.value, key |-> KeyOf(q)] \in vault.file.log
  BY <1>1, <1>2 DEF SecretsInv, Holders, Holds, Copied
<1>8. DiskKept(p, r)
  <2>1. lock' = lock \/ (lock = p /\ lock' = None)
    BY DEF Unlock, Unlocked
  <2>2. vault' = vault /\ values' = values /\ gone' = gone
    BY DEF Unlock
  <2>3. vault.file.log \subseteq FileEntry
    BY DEF SecretsInv, SecretsTypeOK, Vaults
  <2>4. acked' = IF q.job # "put" THEN acked
                 ELSE acked \cup {[name |-> q.name, value |-> q.value, key |-> KeyOf(q)]}
    BY DEF Unlock
  <2>5. acked' \subseteq FileEntry /\ acked' \subseteq vault.file.log \cup gone
    BY <1>7, <2>3, <2>4 DEF SecretsInv, SecretsTypeOK, VaultKept
  <2> QED
    BY <1>5, <2>1, <2>2, <2>5 DEF DiskKept, SecretsInv, SecretsTypeOK, AbsentEmpty, VaultKept
<1>9. FidoKept(p, r)
  <2>1. ~Writing(q)
    BY <1>1 DEF Writing
  <2> QED
    BY <1>1, <1>5, <2>1, FidoIdle DEF Unlock, fido
<1>10. CardKept(p, r)
  BY <1>3, CardIdle DEF Unlock, cardState
<1> QED
  BY <1>5, <1>6, <1>8, <1>9, <1>10, Kept

\* The key of a put and the vault it was begun with are of the same mode.
LEMMA KeyTypes ==
  ASSUME NEW q \in State, q.outputs \subseteq DiskOutputs, ~q.fake => q.outputs # {}
  PROVE  KeyOf(q) \in Key /\ (KeyOf(q) = FakeKey <=> Mode(q) = "fake")
<1>1. CASE q.fake
  BY <1>1 DEF KeyOf, Key, Mode
<1>2. CASE ~q.fake
  <2>1. KeyOf(q) \in q.outputs
    BY <1>2 DEF KeyOf
  <2>2. KeyOf(q) \in DiskOutputs
    BY <2>1
  <2>3. KeyOf(q).cred # 0
    BY <2>2 DEF DiskOutputs
  <2> QED
    BY <1>2, <2>2, <2>3 DEF DiskOutputs, Key, Mode, FakeKey
<1> QED
  BY <1>1, <1>2 DEF State

\* The put adds one entry, of the mode and with a name of its own, to what the file holds.
LEMMA SealStep ==
  ASSUME SecretsInv, NEW p \in Processes, Seal(p)
  PROVE  SecretsInv'
<1> DEFINE q == process[p]  t == Tail(q.todo)
<1>1. /\ q \in State /\ Local(q) /\ Runs(q) /\ q.todo # <<>> /\ q.job \in Jobs
      /\ OfJob(q.job, "seal") /\ Head(q.todo) = "seal"
      /\ t \in Seq(Steps) /\ Scripted(q.job, q.fake, t)
      /\ t = <<>> => Final(q.job, "seal")
      /\ t # <<>> => Follows(q.job, q.fake, "seal", Head(t))
      /\ q.result # "torn"
  BY AtWork DEF Seal, Next1
<1>2. q.job = "put" /\ t # <<>> /\ Head(t) = "unlock"
  BY <1>1 DEF OfJob, Final, Follows, DiskJobs
<1>3. ~InSession(p)
  BY <1>2, NoSession DEF DiskJobs
<1>4. lock = p /\ q.copy = CopyOf(q, vault.file) /\ Passes(q, q.copy)
  BY <1>1, <1>2 DEF SecretsInv, Holders, Holds, DiskJobs, Copied
<1>5. q.copy.mode = Mode(q) /\ ~Has(q, q.copy)
  BY <1>2, <1>4 DEF Passes
<1>6. KeyOf(q) \in Key /\ (KeyOf(q) = FakeKey <=> Mode(q) = "fake")
  BY <1>1, <1>2, KeyTypes DEF Local, DiskJobs
<1>7. values \in 0..MaxValues /\ values < MaxValues /\ MaxValues \in Nat
  BY SecretsAssumption DEF Seal, SecretsInv, SecretsTypeOK
<1>8. PICK e : e = [name |-> q.name, value |-> values + 1, key |-> KeyOf(q)]
  OBVIOUS
<1>9. e \in FileEntry
  <2>1. q.name \in EntryNames
    BY <1>1, <1>2 DEF Local
  <2>2. values + 1 \in 1..MaxValues
    BY <1>7
  <2> QED
    BY <1>6, <1>8, <2>1, <2>2 DEF FileEntry
<1>a. PICK v : v = values + 1
  OBVIOUS
<1>b. v \in Nat
  BY <1>7, <1>a
<1>10. PICK r : r = [Advance(q) EXCEPT !.value = v]
  OBVIOUS
<1>11. /\ r \in State /\ r.pc = "run" /\ r.job = q.job /\ r.fake = q.fake /\ r.todo = t /\ r.copy = q.copy
       /\ r.name = q.name /\ r.attempted = q.attempted /\ r.result = q.result /\ r.outputs = q.outputs
       /\ r.value = v
  BY <1>1, <1>b, <1>10 DEF Advance, State, Runs
<1>12. Becomes(p, r)
  BY <1>a, <1>10 DEF Seal
<1>13. Local(r)
  BY <1>1, <1>2, <1>11 DEF Local, Runs, DiskJobs, ProfileJobs
<1>14. PICK new : new = [q.copy EXCEPT !.entries = @ \cup {e}, !.log = vault.file.log \cup {e}]
  OBVIOUS
<1>15. q.copy \in Vaults /\ vault.file \in Vaults /\ vault.durable \in Vaults
  BY <1>4 DEF CopyOf, NoVault, Mode, Vaults, SecretsInv, SecretsTypeOK
<1>16. /\ new \in Vaults /\ new.mode = q.copy.mode /\ new.entries = q.copy.entries \cup {e}
       /\ new.log = vault.file.log \cup {e}
  BY <1>9, <1>14, <1>15 DEF Vaults
<1>17. vault' \in {[file |-> new, durable |-> new], [file |-> new, durable |-> vault.durable]}
  BY <1>8, <1>14 DEF Seal, Replaced
<1>18. vault'.file = new /\ vault'.durable \in {new, vault.durable} /\ vault' \in [file : Vaults, durable : Vaults]
  BY <1>15, <1>16, <1>17
<1>19. /\ q.copy.entries = q.copy.log /\ q.copy.log = vault.file.log
       /\ \A x \in q.copy.entries : x.key = FakeKey <=> q.copy.mode = "fake"
       /\ \A x, y \in q.copy.entries : x.name = y.name => x = y
  <2>1. CASE vault.file.mode = "absent"
    <3>1. vault.file = NoVault
      BY <2>1 DEF SecretsInv, AbsentEmpty
    <3> QED
      BY <1>4, <2>1, <3>1 DEF CopyOf, NoVault
  <2>2. CASE vault.file.mode # "absent"
    BY <1>4, <2>2 DEF CopyOf, SecretsInv, VaultKept
  <2> QED
    BY <2>1, <2>2
<1>20. new.mode \notin {"absent", "torn"}
  BY <1>5, <1>16 DEF Mode
<1>21. /\ new.entries = new.log
       /\ \A x \in new.entries : x.key = FakeKey <=> new.mode = "fake"
       /\ \A x, y \in new.entries : x.name = y.name => x = y
  <2>1. e.key = KeyOf(q) /\ e.name = q.name
    BY <1>8
  <2>2. \A x \in q.copy.entries : x.name # e.name
    BY <1>5, <2>1 DEF Has
  <2> QED
    BY <1>5, <1>6, <1>16, <1>19, <2>1, <2>2
<1>22. VaultKept'
  <2>1. acked' \subseteq vault'.file.log \cup gone'
    BY <1>16, <1>18 DEF Seal, SecretsInv, VaultKept
  <2> QED
    BY <1>18, <1>20, <1>21, <2>1 DEF SecretsInv, VaultKept
<1>23. AbsentEmpty'
  BY <1>18, <1>20 DEF SecretsInv, AbsentEmpty
<1>24. Copied(r, vault'.file)
  <2>1. KeyOf(r) = KeyOf(q)
    BY <1>11 DEF KeyOf
  <2>2. [name |-> r.name, value |-> r.value, key |-> KeyOf(r)] = e
    BY <1>8, <1>a, <1>11, <2>1
  <2> QED
    BY <1>2, <1>11, <1>16, <1>18, <2>2 DEF Copied
<1>25. DiskKept(p, r)
  <2>1. values' \in 0..MaxValues
    BY <1>7 DEF Seal
  <2> QED
    BY <1>4, <1>18, <1>22, <1>23, <1>24, <2>1 DEF Seal, DiskKept, SecretsInv, SecretsTypeOK
<1>26. ~Writes(r) /\ ~Writing(q)
  BY <1>1, <1>2, <1>11 DEF Writes, Writing, Runs
<1>27. FidoKept(p, r)
  BY <1>1, <1>26, FidoIdle DEF Seal, fido
<1>28. CardKept(p, r)
  BY <1>3, CardIdle DEF Seal, cardState
<1> QED
  BY <1>11, <1>12, <1>13, <1>25, <1>27, <1>28, Kept

\* The removal takes from the file what it takes from its log.
LEMMA RemoveStep ==
  ASSUME SecretsInv, NEW p \in Processes, RemoveEntry(p)
  PROVE  SecretsInv'
<1> DEFINE q == process[p]  t == Tail(q.todo)
<1>1. /\ q \in State /\ Local(q) /\ Runs(q) /\ q.todo # <<>> /\ q.job \in Jobs
      /\ OfJob(q.job, "remove") /\ Head(q.todo) = "remove"
      /\ t \in Seq(Steps) /\ Scripted(q.job, q.fake, t)
      /\ t = <<>> => Final(q.job, "remove")
      /\ t # <<>> => Follows(q.job, q.fake, "remove", Head(t))
      /\ q.result # "torn"
  BY AtWork DEF RemoveEntry, Next1
<1>2. q.job = "rm" /\ t # <<>> /\ Head(t) = "unlock"
  BY <1>1 DEF OfJob, Final, Follows, DiskJobs
<1>3. ~InSession(p)
  BY <1>2, NoSession DEF DiskJobs
<1>4. lock = p /\ q.copy = CopyOf(q, vault.file) /\ Passes(q, q.copy)
  BY <1>1, <1>2 DEF SecretsInv, Holders, Holds, DiskJobs, Copied
<1>5. q.copy = vault.file /\ vault.file.mode # "absent"
  <2>1. Has(q, q.copy)
    BY <1>2, <1>4 DEF Passes
  <2>2. q.copy.entries # {}
    BY <2>1 DEF Has
  <2> QED
    BY <1>4, <2>2 DEF CopyOf, NoVault
<1>6. vault.file \in Vaults /\ vault.durable \in Vaults
  BY DEF SecretsInv, SecretsTypeOK
<1>7. PICK dead : dead = {e \in q.copy.entries : e.name = q.name}
  OBVIOUS
<1>8. dead \subseteq vault.file.entries /\ vault.file.entries \subseteq FileEntry
  BY <1>5, <1>6, <1>7 DEF Vaults
<1>9. PICK r : r = Advance(q)
  OBVIOUS
<1>10. /\ r \in State /\ r.pc = "run" /\ r.job = q.job /\ r.fake = q.fake /\ r.todo = t
       /\ r.name = q.name /\ r.attempted = q.attempted /\ r.result = q.result /\ r.outputs = q.outputs
  BY <1>1, <1>9 DEF Advance, State, Runs
<1>11. Becomes(p, r)
  BY <1>9 DEF RemoveEntry, Goes
<1>12. Local(r)
  BY <1>1, <1>2, <1>10 DEF Local, Runs, DiskJobs, ProfileJobs
<1>13. PICK new : new = [q.copy EXCEPT !.entries = @ \ dead, !.log = vault.file.log \ dead]
  OBVIOUS
<1>14. /\ new \in Vaults /\ new.mode = vault.file.mode /\ new.entries = vault.file.entries \ dead
       /\ new.log = vault.file.log \ dead
  BY <1>5, <1>6, <1>13 DEF Vaults
<1>15. vault' \in {[file |-> new, durable |-> new], [file |-> new, durable |-> vault.durable]}
  BY <1>7, <1>13 DEF RemoveEntry, Replaced
<1>16. vault'.file = new /\ vault'.durable \in {new, vault.durable} /\ vault' \in [file : Vaults, durable : Vaults]
  BY <1>6, <1>14, <1>15
<1>17. gone' = gone \cup dead
  BY <1>7 DEF RemoveEntry
<1>18. VaultKept'
  <2>1. acked' \subseteq vault'.file.log \cup gone'
    BY <1>14, <1>16, <1>17 DEF RemoveEntry, SecretsInv, VaultKept
  <2> QED
    BY ZenonT(40), <1>14, <1>16, <2>1 DEF SecretsInv, VaultKept
<1>19. AbsentEmpty'
  BY <1>5, <1>14, <1>16 DEF SecretsInv, AbsentEmpty
<1>20. Copied(r, vault'.file)
  BY <1>2, <1>10 DEF Copied
<1>21. DiskKept(p, r)
  BY <1>4, <1>8, <1>16, <1>17, <1>18, <1>19, <1>20 DEF RemoveEntry, DiskKept, SecretsInv, SecretsTypeOK
<1>22. ~Writes(r) /\ ~Writing(q)
  BY <1>1, <1>2, <1>10 DEF Writes, Writing, Runs
<1>23. FidoKept(p, r)
  BY <1>1, <1>22, FidoIdle DEF RemoveEntry, fido
<1>24. CardKept(p, r)
  BY <1>3, CardIdle DEF RemoveEntry, cardState
<1> QED
  BY <1>10, <1>11, <1>12, <1>21, <1>23, <1>24, Kept

-----------------------------------------------------------------------------
(* The profile.                                                            *)

\* A step of a profile command keeps the file, when what it leaves of a command of
\* the file is where that one was.
LEMMA ProfilesDisk ==
  ASSUME SecretsInv, NEW p \in Processes, NEW r \in State, Becomes(p, r), Profiles(p),
         NEW q, q = process[p],
         Holds(r) => /\ Holds(q) /\ Head(q.todo) # "unlock" /\ Head(r.todo) # "unlock"
                     /\ r.copy = q.copy /\ r.name = q.name /\ r.job = q.job /\ r.fake = q.fake
  PROVE  DiskKept(p, r)
<1>1. vault' = vault /\ values' = values /\ acked' = acked /\ gone' = gone
  BY DEF Profiles
<1>2. process'[p] = r
  BY DEF SecretsInv, SecretsTypeOK, Becomes
<1>3. lock' = IF Runs(r) THEN lock ELSE IF lock = p THEN None ELSE lock
  BY <1>2 DEF Profiles, Runs
<1>4. CASE ~Holds(r)
  <2>1. lock' = lock \/ (lock = p /\ lock' = None)
    BY <1>3
  <2> QED
    BY <1>1, <1>4, <2>1, DiskIdle
<1>5. CASE Holds(r)
  <2>1. lock = p /\ Copied(q, vault.file)
    BY <1>5 DEF SecretsInv, Holders
  <2>2. Copied(r, vault.file)
    <3>1. q.copy = CopyOf(q, vault.file) /\ Passes(q, q.copy)
      BY <1>5, <2>1 DEF Copied
    <3>2. r.copy = CopyOf(r, vault.file) /\ Passes(r, r.copy)
      BY <1>5, <3>1 DEF CopyOf, Mode, Passes, Has
    <3> QED
      BY <1>5, <3>2 DEF Copied
  <2>3. lock' = p
    BY <1>3, <1>5, <2>1 DEF Holds
  <2> QED
    BY <1>1, <2>1, <2>2, <2>3 DEF DiskKept, SecretsInv, SecretsTypeOK, AbsentEmpty, VaultKept
<1> QED
  BY <1>4, <1>5

\* It may select the FIDO2 applet.
LEMMA ProfilesCard ==
  ASSUME SecretsInv, NEW p \in Processes, NEW r, Profiles(p), ~InSession(p),
         UseFido \/ UNCHANGED cardState, UNCHANGED faults \/ Fault
  PROVE  CardKept(p, r)
<1>1. faults' \in 0..MaxFaults
  <2>1. faults \in 0..MaxFaults /\ MaxFaults \in Nat
    BY ProfileAssumption DEF SecretsInv, SecretsTypeOK, ProfileTypeOK
  <2> QED
    BY <2>1 DEF Fault
<1>2. inserted' = inserted /\ epoch' = epoch /\ (current' = current \/ current' = "fido")
  BY DEF UseFido, cardState
<1>3. loggedIn' \in BOOLEAN /\ (loggedIn' => loggedIn)
  <2>1. CASE UseFido
    BY <2>1 DEF UseFido
  <2>2. CASE UNCHANGED cardState
    <3>1. loggedIn' = loggedIn
      BY <2>2 DEF cardState
    <3> QED
      BY <3>1 DEF SecretsInv, SecretsTypeOK, ProfileTypeOK
  <2> QED
    BY <2>1, <2>2
<1>4. applet' = applet /\ unclean' = (unclean /\ loggedIn')
  BY DEF Profiles
<1>5. unclean' \in BOOLEAN
  BY <1>4 DEF SecretsInv, SecretsTypeOK
<1>6. loggedIn' => loggedIn /\ (unclean => unclean') /\ ~InSession(p)
  BY <1>3, <1>4
<1>7. /\ inserted' \in Cards \cup {NoCard} /\ current' \in {"none", "fido", "vault"}
      /\ applet' \in [Cards -> Applets]
  BY <1>2, <1>4 DEF SecretsInv, SecretsTypeOK, ProfileTypeOK
<1> QED
  BY <1>1, <1>2, <1>3, <1>5, <1>6, <1>7 DEF CardKept

\* It may add credentials.
LEMMA FidoGrows ==
  ASSUME SecretsInv, NEW p \in Processes, NEW r, UNCHANGED profileFile,
         creds' \in [Cards -> SUBSET Credential], AllCreds \subseteq AllCreds',
         Writes(r) => Real(r.prof, AllCreds') /\ Head(r.todo) # "write",
         ~Writing(process[p]), process[p].result # "torn"
  PROVE  FidoKept(p, r)
<1>1. profile \in Contents
  BY DEF SecretsInv, SecretsTypeOK, ProfileTypeOK
<1>2. Whole(profile) => Real(profile, AllCreds')
  BY DEF SecretsInv, ProfileTrue, Real
<1>3. (profile \in {Truncated, Partial} => opened) /\ (Partial \in saved => opened)
  BY DEF SecretsInv, ProfileTrue, Durable
<1> QED
  BY <1>1, <1>2, <1>3 DEF FidoKept, profileFile, SecretsInv, SecretsTypeOK, ProfileTypeOK

\* A credential is on the card before the profile names it.
LEMMA CreateStep ==
  ASSUME SecretsInv, NEW p \in Processes, Profiles(p), Create(p)
  PROVE  SecretsInv'
<1> DEFINE q == process[p]  t == Tail(q.todo)
<1>1. /\ q \in State /\ Local(q) /\ Runs(q) /\ q.todo # <<>> /\ q.job \in Jobs
      /\ OfJob(q.job, "create") /\ Head(q.todo) = "create"
      /\ t \in Seq(Steps) /\ Scripted(q.job, q.fake, t)
      /\ t = <<>> => Final(q.job, "create")
      /\ t # <<>> => Follows(q.job, q.fake, "create", Head(t))
      /\ q.result # "torn"
  BY AtWork DEF Create, Next1
<1>2. q.job \in ProfileJobs /\ t # <<>> /\ Head(t) = "truncate"
  BY <1>1 DEF OfJob, Final, Follows, DiskJobs, ProfileJobs
<1>3. ~InSession(p) /\ ~Writing(q)
  BY <1>1, <1>2, NoSession DEF Writing
<1>4. UseFido \/ UNCHANGED cardState
  BY DEF Create
<1>5. UNCHANGED profileFile
  BY DEF Create
<1>6. CASE Becomes(p, Gone("ended", "failed")) /\ UNCHANGED <<creds, faults>>
  <2>1. PICK r : r = Gone("ended", "failed")
    OBVIOUS
  <2>2. r \in State /\ Local(r) /\ ~Holds(r) /\ ~Writes(r)
    BY <2>1, Ended DEF PC, Results
  <2>3. Becomes(p, r)
    BY <1>6, <2>1
  <2>4. DiskKept(p, r)
    BY <2>2, <2>3, ProfilesDisk
  <2>5. FidoKept(p, r)
    BY <1>1, <1>3, <1>5, <1>6, <2>2, FidoIdle
  <2>6. CardKept(p, r)
    BY <1>3, <1>4, <1>6, ProfilesCard
  <2> QED
    BY <2>2, <2>3, <2>4, <2>5, <2>6, Kept
<1>7. CASE inserted # NoCard /\ Made(p)
  <2>0. PICK new : new = Cardinality(AllCreds) + 1
    OBVIOUS
  <2>1. PICK asked \in BOOLEAN, prf \in BOOLEAN, uv \in BOOLEAN, answered \in BOOLEAN :
           /\ uv => inserted \in PinCards
           /\ creds' = [creds EXCEPT ![inserted] = @ \cup {[cred |-> new, prf |-> prf]}]
           /\ IF answered THEN UNCHANGED faults ELSE Fault
           /\ Becomes(p, IF answered /\ (asked => prf)
                THEN [Advance(process[p]) EXCEPT !.prof = [cred |-> new, prf |-> asked, uv |-> uv]]
                ELSE Gone("ended", "failed"))
    BY <1>7, <2>0 DEF Made
  <2>2. new \in 1..MaxCreds
    <3>1. Cardinality(AllCreds) \in Nat
      BY FiniteCreds DEF SecretsInv, SecretsTypeOK, ProfileTypeOK
    <3>2. Cardinality(AllCreds) < MaxCreds
      BY <1>7 DEF Made
    <3> QED
      BY <3>1, <3>2, <2>0, ProfileAssumption
  <2>3. PICK c : c = [cred |-> new, prf |-> prf]
    OBVIOUS
  <2>4. c \in Credential /\ c.cred = new /\ c.prf = prf
    BY <2>2, <2>3 DEF Credential
  <2>5. inserted \in Cards /\ creds \in [Cards -> SUBSET Credential]
    BY <1>7 DEF SecretsInv, SecretsTypeOK, ProfileTypeOK
  <2>6. /\ creds' \in [Cards -> SUBSET Credential] /\ AllCreds \subseteq AllCreds'
        /\ c \in AllCreds'
    <3>1. creds' = [creds EXCEPT ![inserted] = @ \cup {c}]
      BY <2>1, <2>3
    <3>2. creds' \in [Cards -> SUBSET Credential]
      BY <2>4, <2>5, <3>1
    <3>3. \A k \in Cards : creds[k] \subseteq creds'[k]
      BY <2>5, <3>1
    <3>4. c \in creds'[inserted]
      BY <2>5, <3>1
    <3> QED
      BY <2>5, <3>2, <3>3, <3>4 DEF AllCreds
  <2>7. UNCHANGED faults \/ Fault
    BY <2>1
  <2>8. CASE ~(answered /\ (asked => prf))
    <3>1. PICK r : r = Gone("ended", "failed")
      OBVIOUS
    <3>2. r \in State /\ Local(r) /\ ~Holds(r) /\ ~Writes(r)
      BY <3>1, Ended DEF PC, Results
    <3>3. Becomes(p, r)
      BY <2>1, <2>8, <3>1
    <3>4. DiskKept(p, r)
      BY <3>2, <3>3, ProfilesDisk
    <3>5. FidoKept(p, r)
      BY <1>1, <1>3, <1>5, <2>6, <3>2, FidoGrows
    <3>6. CardKept(p, r)
      BY <1>3, <1>4, <2>7, ProfilesCard
    <3> QED
      BY <3>2, <3>3, <3>4, <3>5, <3>6, Kept
  <2>9. CASE answered /\ (asked => prf)
    <3>1. PICK prof : prof = [cred |-> new, prf |-> asked, uv |-> uv]
      OBVIOUS
    <3>2. prof \in Profile /\ prof.cred = new /\ prof.prf = asked
      BY <2>2, <3>1 DEF Profile
    <3>3. PICK r : r = [Advance(q) EXCEPT !.prof = prof]
      OBVIOUS
    <3>4. /\ r \in State /\ r.pc = "run" /\ r.job = q.job /\ r.fake = q.fake /\ r.todo = t /\ r.prof = prof
          /\ r.name = q.name /\ r.attempted = q.attempted /\ r.result = q.result /\ r.outputs = q.outputs
      BY <1>1, <3>2, <3>3 DEF Advance, State, Runs
    <3>5. Becomes(p, r)
      BY <2>1, <2>9, <3>1, <3>3
    <3>6. Local(r)
      BY <1>1, <1>2, <3>2, <3>4 DEF Local, Runs, DiskJobs, ProfileJobs
    <3>7. ~Holds(r)
      BY <1>2, <3>4 DEF Holds, DiskJobs, ProfileJobs
    <3>8. DiskKept(p, r)
      BY <3>4, <3>5, <3>7, ProfilesDisk
    <3>9. Real(r.prof, AllCreds') /\ Head(r.todo) # "write"
      BY <1>2, <2>4, <2>6, <2>9, <3>2, <3>4 DEF Real
    <3>10. FidoKept(p, r)
      BY <1>1, <1>3, <1>5, <2>6, <3>9, FidoGrows
    <3>11. CardKept(p, r)
      BY <1>3, <1>4, <2>7, ProfilesCard
    <3> QED
      BY <3>4, <3>5, <3>6, <3>8, <3>10, <3>11, Kept
  <2> QED
    BY <2>8, <2>9
<1> QED
  BY <1>6, <1>7 DEF Create

\* A profile is cut off by a process that writes next.
LEMMA TruncateStep ==
  ASSUME SecretsInv, NEW p \in Processes, Profiles(p), TruncateProfile(p)
  PROVE  SecretsInv'
<1> DEFINE q == process[p]  t == Tail(q.todo)
<1>1. /\ q \in State /\ Local(q) /\ Runs(q) /\ q.todo # <<>> /\ q.job \in Jobs
      /\ OfJob(q.job, "truncate") /\ Head(q.todo) = "truncate"
      /\ t \in Seq(Steps) /\ Scripted(q.job, q.fake, t)
      /\ t = <<>> => Final(q.job, "truncate")
      /\ t # <<>> => Follows(q.job, q.fake, "truncate", Head(t))
      /\ q.result # "torn"
  BY AtWork DEF TruncateProfile, Next1
<1>2. q.job \in ProfileJobs /\ t # <<>> /\ Head(t) = "write"
  BY <1>1 DEF OfJob, Final, Follows, DiskJobs, ProfileJobs
<1>3. ~InSession(p)
  BY <1>2, NoSession
<1>4. q.prof \in Profile /\ Real(q.prof, AllCreds)
  BY <1>1 DEF Local, SecretsInv, Writers, Writes
<1>5. CASE Becomes(p, Gone("ended", "failed")) /\ UNCHANGED profileFile
  <2>1. PICK r : r = Gone("ended", "failed")
    OBVIOUS
  <2>2. r \in State /\ Local(r) /\ ~Holds(r) /\ ~Writes(r)
    BY <2>1, Ended DEF PC, Results
  <2>3. DiskKept(p, r)
    BY <1>5, <2>1, <2>2, ProfilesDisk
  <2>4. FidoKept(p, r)
    <3>1. ~Writing(q)
      BY <1>1 DEF Writing
    <3> QED
      BY <1>1, <1>5, <2>2, <3>1, FidoIdle DEF TruncateProfile
  <2>5. CardKept(p, r)
    BY <1>3, ProfilesCard DEF TruncateProfile
  <2> QED
    BY <1>5, <2>1, <2>2, <2>3, <2>4, <2>5, Kept
<1>6. CASE /\ profile' = Truncated /\ saved' = saved \cup {Partial}
           /\ opened' = (opened \/ q.prof # Absent) /\ Goes(p)
  <2>1. PICK r : r = Advance(q)
    OBVIOUS
  <2>2. /\ r \in State /\ r.pc = "run" /\ r.job = q.job /\ r.fake = q.fake /\ r.todo = t /\ r.prof = q.prof
        /\ r.name = q.name /\ r.attempted = q.attempted /\ r.result = q.result /\ r.outputs = q.outputs
    BY <1>1, <2>1 DEF Advance, State, Runs
  <2>3. Becomes(p, r)
    BY <1>6, <2>1 DEF Goes
  <2>4. Local(r)
    BY <1>1, <1>2, <1>4, <2>2 DEF Local, Runs, DiskJobs, ProfileJobs
  <2>5. ~Holds(r)
    BY <1>2, <2>2 DEF Holds, DiskJobs, ProfileJobs
  <2>6. DiskKept(p, r)
    BY <2>2, <2>3, <2>5, ProfilesDisk
  <2>7. FidoKept(p, r)
    <3>1. Writing(r)
      BY <1>2, <2>2 DEF Writing, Runs
    <3>2. ~Whole(Truncated) /\ ~Whole(Partial) /\ Partial # Truncated /\ creds' = creds
      BY DEF TruncateProfile, Whole, Truncated, Partial
    <3>3. AllCreds' = AllCreds
      BY <3>2 DEF AllCreds
    <3>4. opened' = TRUE
      <4>1. q.prof # Absent
        BY <1>4 DEF Profile, Absent
      <4> QED
        BY <1>6, <4>1
    <3>5. Sound(Partial, AllCreds')
      BY <3>2, <3>4 DEF Sound, Contents
    <3>6. profile' \in Contents
      BY <1>6 DEF Contents
    <3> QED
      <4>1. creds' \in [Cards -> SUBSET Credential]
        BY <3>2 DEF SecretsInv, SecretsTypeOK, ProfileTypeOK
      <4>2. \A f \in saved' : f \in saved \/ Sound(f, AllCreds')
        BY <1>6, <3>5
      <4>3. /\ opened' \in BOOLEAN /\ (profile' \in {Truncated, Partial} => opened')
            /\ (opened => opened') /\ (Partial \in saved' => opened')
        BY <3>4
      <4>4. /\ Writes(r) => Real(r.prof, AllCreds') /\ (Head(r.todo) = "write" => opened')
            /\ AllCreds \subseteq AllCreds' /\ (Whole(profile') => Real(profile', AllCreds'))
        BY <1>4, <1>6, <2>2, <3>2, <3>3, <3>4
      <4> QED
        BY <3>1, <3>6, <4>1, <4>2, <4>3, <4>4 DEF FidoKept
  <2>8. CardKept(p, r)
    BY <1>3, ProfilesCard DEF TruncateProfile
  <2> QED
    BY <2>2, <2>3, <2>4, <2>6, <2>7, <2>8, Kept
<1> QED
  BY <1>5, <1>6 DEF TruncateProfile

\* The profile that is written names a credential of a card.
LEMMA WriteStep ==
  ASSUME SecretsInv, NEW p \in Processes, Profiles(p), WriteProfile(p)
  PROVE  SecretsInv'
<1> DEFINE q == process[p]  t == Tail(q.todo)
<1>1. /\ q \in State /\ Local(q) /\ Runs(q) /\ q.todo # <<>> /\ q.job \in Jobs
      /\ OfJob(q.job, "write") /\ Head(q.todo) = "write"
      /\ t \in Seq(Steps) /\ Scripted(q.job, q.fake, t)
      /\ t = <<>> <=> Len(q.todo) = 1
      /\ t # <<>> => Follows(q.job, q.fake, "write", Head(t))
      /\ q.result # "torn"
  BY AtWork DEF WriteProfile, Next1
<1>2. q.job \in ProfileJobs /\ (t # <<>> => Head(t) = "profile")
  BY <1>1 DEF OfJob, Follows, DiskJobs, ProfileJobs
<1>3. ~InSession(p)
  BY <1>2, NoSession
<1>4. q.prof \in Profile /\ Real(q.prof, AllCreds) /\ opened = TRUE
  BY <1>1 DEF Local, SecretsInv, SecretsTypeOK, ProfileTypeOK, Writers, Writes
<1> DEFINE Leaves(r) ==
             /\ Becomes(p, r) /\ Local(r) /\ ~Holds(r) /\ ~Writes(r)
             /\ r.result # "torn" => profile' \in {q.prof, Partial}
<1>5. \E r \in State : Leaves(r)
  <2> DEFINE done == profile' \in {q.prof} \cup (IF profile = Truncated THEN {} ELSE {Partial})
             went == Becomes(p, IF Len(q.todo) = 1 THEN Gone("ended", "ok") ELSE Advance(q))
  <2>0. CASE Becomes(p, Gone("ended", "torn"))
    <3>1. PICK r : r = Gone("ended", "torn")
      OBVIOUS
    <3>2. r \in State /\ Local(r) /\ ~Holds(r) /\ ~Writes(r) /\ r.result = "torn"
      BY <3>1, Ended DEF PC, Results
    <3> QED
      BY <2>0, <3>1, <3>2
  <2>1. CASE done /\ went /\ Len(q.todo) = 1
    <3>1. PICK r : r = Gone("ended", "ok")
      OBVIOUS
    <3>2. r \in State /\ Local(r) /\ ~Holds(r) /\ ~Writes(r)
      BY <3>1, Ended DEF PC, Results
    <3> QED
      BY <2>1, <3>1, <3>2
  <2>2. CASE done /\ went /\ Len(q.todo) # 1
    <3>1. PICK r : r = Advance(q)
      OBVIOUS
    <3>2. /\ r \in State /\ r.pc = "run" /\ r.job = q.job /\ r.fake = q.fake /\ r.todo = t /\ r.prof = q.prof
          /\ r.name = q.name /\ r.attempted = q.attempted /\ r.result = q.result /\ r.outputs = q.outputs
      BY <1>1, <3>1 DEF Advance, State, Runs
    <3>3. Becomes(p, r)
      BY <2>2, <3>1
    <3>4. Local(r)
      BY <1>1, <1>2, <2>2, <3>2 DEF Local, Runs, DiskJobs, ProfileJobs
    <3>5. ~Holds(r) /\ ~Writes(r)
      BY <1>1, <1>2, <2>2, <3>2 DEF Holds, Writes, DiskJobs, ProfileJobs
    <3> QED
      BY <2>2, <3>2, <3>3, <3>4, <3>5
  <2> QED
    BY <2>0, <2>1, <2>2 DEF WriteProfile
<1> HIDE DEF Leaves
<1>6. PICK r \in State : Leaves(r)
  BY <1>5
<1> USE DEF Leaves
<1>7. DiskKept(p, r)
  BY <1>6, ProfilesDisk
<1>8. FidoKept(p, r)
  <2>1. /\ creds' = creds /\ opened' = opened /\ profile' \in {profile, Partial, q.prof}
        /\ saved' = (saved \cup {Partial, profile'}) \ {Truncated}
    BY DEF WriteProfile
  <2>2. AllCreds' = AllCreds
    BY <2>1 DEF AllCreds
  <2>3. /\ ~Whole(Partial) /\ Partial # Truncated /\ q.prof # Truncated /\ q.prof # Partial
        /\ q.prof \in Contents /\ Partial \in Contents
    BY <1>4 DEF Whole, Partial, Truncated, Profile, Contents
  <2> QED
    <3>1. creds \in [Cards -> SUBSET Credential] /\ profile \in Contents
      BY DEF SecretsInv, SecretsTypeOK, ProfileTypeOK
    <3>2. Whole(profile) => Real(profile, AllCreds)
      BY DEF SecretsInv, ProfileTrue, Real
    <3>3. profile' \in Contents /\ (Whole(profile') => Real(profile', AllCreds'))
      BY <1>4, <2>1, <2>2, <2>3, <3>1, <3>2
    <3>4. profile' = Truncated => r.result = "torn"
      BY <1>6, <2>3
    <3>5. \A f \in saved' : f \in saved \/ Sound(f, AllCreds')
      <4>1. Sound(Partial, AllCreds')
        BY <1>4, <2>1, <2>3 DEF Sound
      <4>2. profile' # Truncated => Sound(profile', AllCreds')
        BY <1>4, <2>1, <3>3 DEF Sound
      <4> QED
        BY <2>1, <4>1, <4>2
    <3>6. /\ opened' \in BOOLEAN /\ (profile' \in {Truncated, Partial} => opened')
          /\ (opened => opened') /\ (Partial \in saved' => opened')
          /\ creds' \in [Cards -> SUBSET Credential] /\ AllCreds \subseteq AllCreds' /\ ~Writes(r)
      BY <1>4, <1>6, <2>1, <2>2, <3>1
    <3> QED
      BY <3>3, <3>4, <3>5, <3>6 DEF FidoKept
<1>9. CardKept(p, r)
  BY <1>3, ProfilesCard DEF WriteProfile
<1> QED
  BY <1>6, <1>7, <1>8, <1>9, Kept

\* An enrolment that is refused changes nothing.
LEMMA RefuseStep ==
  ASSUME SecretsInv, NEW p \in Processes, Profiles(p), Refuse(p)
  PROVE  SecretsInv'
<1> DEFINE q == process[p]
<1>1. OfJob(q.job, "refuse") /\ Head(q.todo) = "refuse" /\ q.result # "torn"
  BY AtWork DEF Refuse, Next1
<1>2. ~InSession(p) /\ ~Writing(q)
  BY <1>1, NoSession DEF OfJob, Writing
<1>3. PICK r : r = Gone("ended", "failed")
  OBVIOUS
<1>4. r \in State /\ Local(r) /\ ~Holds(r) /\ ~Writes(r)
  BY <1>3, Ended DEF PC, Results
<1>5. Becomes(p, r)
  BY <1>3 DEF Refuse
<1>6. DiskKept(p, r)
  BY <1>4, <1>5, ProfilesDisk
<1>7. FidoKept(p, r)
  BY <1>1, <1>2, <1>4, FidoIdle DEF Refuse
<1>8. CardKept(p, r)
  BY <1>2, ProfilesCard DEF Refuse
<1> QED
  BY <1>4, <1>5, <1>6, <1>7, <1>8, Kept

\* A profile that was read is the one in the file, or names a credential of a card.
LEMMA ReadStep ==
  ASSUME SecretsInv, NEW p \in Processes, Profiles(p), ReadProfile(p, Failed)
  PROVE  SecretsInv'
<1> DEFINE q == process[p]  t == Tail(q.todo)
<1>1. /\ q \in State /\ Local(q) /\ Runs(q) /\ q.todo # <<>> /\ q.job \in Jobs
      /\ OfJob(q.job, "profile") /\ Head(q.todo) = "profile"
      /\ t \in Seq(Steps) /\ Scripted(q.job, q.fake, t)
      /\ t = <<>> => Final(q.job, "profile")
      /\ t # <<>> => Follows(q.job, q.fake, "profile", Head(t))
      /\ q.result # "torn"
  BY AtWork DEF ReadProfile, Next1
<1>2. q.job \in ProfileJobs \cup {"put", "run"} /\ t # <<>> /\ Head(t) = "prf"
  BY <1>1 DEF OfJob, Final, Follows, DiskJobs, ProfileJobs
<1>3. ~InSession(p) /\ ~Writing(q)
  BY <1>1, NoSession DEF Writing
<1>4. ASSUME NEW r \in State, Becomes(p, r), Local(r), ~Writes(r),
             Holds(r) => /\ Holds(q) /\ Head(q.todo) # "unlock" /\ Head(r.todo) # "unlock"
                         /\ r.copy = q.copy /\ r.name = q.name /\ r.job = q.job /\ r.fake = q.fake
      PROVE  SecretsInv'
  <2>1. DiskKept(p, r)
    BY <1>4, ProfilesDisk
  <2>2. FidoKept(p, r)
    BY <1>1, <1>3, <1>4, FidoIdle DEF ReadProfile
  <2>3. CardKept(p, r)
    BY <1>3, ProfilesCard DEF ReadProfile
  <2> QED
    BY <1>4, <2>1, <2>2, <2>3, Kept
<1>5. ASSUME NEW result \in {"ok", "failed"}, Becomes(p, Gone("ended", result))
      PROVE  SecretsInv'
  <2>1. PICK r : r = Gone("ended", result)
    OBVIOUS
  <2>2. r \in State /\ Local(r) /\ ~Holds(r) /\ ~Writes(r)
    BY <2>1, <1>5, Ended DEF PC, Results
  <2> QED
    BY <1>4, <1>5, <2>1, <2>2
<1>6. ASSUME NEW prof \in Profile, Becomes(p, [Advance(q) EXCEPT !.prof = prof])
      PROVE  SecretsInv'
  <2>1. PICK r : r = [Advance(q) EXCEPT !.prof = prof]
    OBVIOUS
  <2>2. /\ r \in State /\ r.pc = "run" /\ r.job = q.job /\ r.fake = q.fake /\ r.todo = t /\ r.prof = prof
        /\ r.name = q.name /\ r.attempted = q.attempted /\ r.result = q.result /\ r.outputs = q.outputs
        /\ r.copy = q.copy
    BY <1>1, <2>1 DEF Advance, State, Runs
  <2>3. Local(r)
    BY <1>1, <1>2, <2>2 DEF Local, Runs, DiskJobs, ProfileJobs
  <2>4. ~Writes(r) /\ (Holds(r) => Holds(q)) /\ Head(r.todo) = "prf"
    BY <1>1, <1>2, <2>2 DEF Writes, Holds, Runs
  <2> QED
    BY <1>1, <1>4, <1>6, <2>1, <2>2, <2>3, <2>4
<1>7. CASE Becomes(p, IF ~Whole(profile) THEN Failed
              ELSE IF q.job \in {"selftest", "selftestForced"} /\ ~profile.prf THEN Gone("ended", "ok")
              ELSE [Advance(q) EXCEPT !.prof = profile])
  <2>1. Whole(profile) => profile \in Profile
    BY DEF Whole, Contents, SecretsInv, SecretsTypeOK, ProfileTypeOK
  <2>2. CASE ~Whole(profile)
    BY <1>5, <1>7, <2>2 DEF Failed
  <2>3. CASE Whole(profile) /\ q.job \in {"selftest", "selftestForced"} /\ ~profile.prf
    BY <1>5, <1>7, <2>3
  <2>4. CASE Whole(profile) /\ ~(q.job \in {"selftest", "selftestForced"} /\ ~profile.prf)
    BY <1>6, <1>7, <2>1, <2>4
  <2> QED
    BY <2>2, <2>3, <2>4
<1>8. ASSUME NEW c \in AllCreds,
             Becomes(p, [Advance(q) EXCEPT !.prof = [cred |-> c.cred, prf |-> FALSE, uv |-> TRUE]])
      PROVE  SecretsInv'
  <2>1. c \in Credential
    BY FiniteCreds DEF SecretsInv, SecretsTypeOK, ProfileTypeOK
  <2>2. [cred |-> c.cred, prf |-> FALSE, uv |-> TRUE] \in Profile
    BY <2>1 DEF Credential, Profile
  <2> QED
    BY <1>6, <1>8, <2>2
<1>9. PICK a : a = Advance(q)
  OBVIOUS
<1>10. a.job = q.job
  BY <1>1, <1>9 DEF Advance, State
<1>11. \/ Becomes(p, IF ~Whole(profile) THEN Failed
              ELSE IF a.job \in {"selftest", "selftestForced"} /\ ~profile.prf THEN Gone("ended", "ok")
              ELSE [a EXCEPT !.prof = profile])
       \/ \E c \in AllCreds :
            Becomes(p, [a EXCEPT !.prof = [cred |-> c.cred, prf |-> FALSE, uv |-> TRUE]])
  BY <1>9 DEF ReadProfile
<1> QED
  BY <1>7, <1>8, <1>9, <1>10, <1>11

\* A derivation adds one output, of the first salt for a command of the file.
LEMMA PrfStep ==
  ASSUME SecretsInv, NEW p \in Processes, Profiles(p), Prf(p, Failed)
  PROVE  SecretsInv'
<1> DEFINE q == process[p]  t == Tail(q.todo)
<1>1. /\ q \in State /\ Local(q) /\ Runs(q) /\ q.todo # <<>> /\ q.job \in Jobs
      /\ OfJob(q.job, "prf") /\ Head(q.todo) = "prf"
      /\ t \in Seq(Steps) /\ Scripted(q.job, q.fake, t)
      /\ t = <<>> => Final(q.job, "prf")
      /\ t # <<>> => Follows(q.job, q.fake, "prf", Head(t))
      /\ q.result # "torn"
  BY AtWork DEF Prf, Next1
<1>2. /\ q.job \in ProfileJobs \cup {"put", "run"}
      /\ q.job \in {"put", "run"} => t # <<>>
      /\ t # <<>> => /\ q.job = "put" => Head(t) = "seal"
                     /\ q.job = "run" => Head(t) = "unseal"
                     /\ q.job \in ProfileJobs => Head(t) = "prf"
  BY <1>1 DEF OfJob, Final, Follows, DiskJobs, ProfileJobs
<1>3. ~InSession(p) /\ ~Writing(q)
  BY <1>1, NoSession DEF Writing
<1>4. ASSUME NEW r \in State, Becomes(p, r), Local(r), ~Writes(r), UNCHANGED faults \/ Fault,
             Holds(r) => /\ Holds(q) /\ Head(q.todo) # "unlock" /\ Head(r.todo) # "unlock"
                         /\ r.copy = q.copy /\ r.name = q.name /\ r.job = q.job /\ r.fake = q.fake
      PROVE  SecretsInv'
  <2>1. DiskKept(p, r)
    BY <1>4, ProfilesDisk
  <2>2. FidoKept(p, r)
    BY <1>1, <1>3, <1>4, FidoIdle DEF Prf
  <2>3. UseFido \/ UNCHANGED cardState
    BY DEF Prf
  <2>4. CardKept(p, r)
    BY <1>3, <1>4, <2>3, ProfilesCard
  <2> QED
    BY <1>4, <2>1, <2>2, <2>4, Kept
<1>5. ASSUME NEW result \in {"ok", "failed"}, Becomes(p, Gone("ended", result)), UNCHANGED faults \/ Fault
      PROVE  SecretsInv'
  <2>1. PICK r : r = Gone("ended", result)
    OBVIOUS
  <2>2. r \in State /\ Local(r) /\ ~Holds(r) /\ ~Writes(r)
    BY <2>1, <1>5, Ended DEF PC, Results
  <2> QED
    BY <1>4, <1>5, <2>1, <2>2
<1>6. PICK uv \in Verifies(q) :
       \/ /\ Derivable(q, uv)
          /\ Becomes(p, LET x == Advance([q EXCEPT !.outputs = @ \cup {Output(q, uv)}])
                        IN  IF x.todo = <<>> THEN Gone("ended", "ok") ELSE x)
          /\ UNCHANGED faults
       \/ /\ IF Derivable(q, uv) THEN Fault ELSE UNCHANGED faults
          /\ Becomes(p, Failed)
  BY DEF Prf
<1>7. CASE /\ IF Derivable(q, uv) THEN Fault ELSE UNCHANGED faults
           /\ Becomes(p, Failed)
  BY <1>5, <1>7 DEF Failed
<1>8. CASE /\ Becomes(p, LET x == Advance([q EXCEPT !.outputs = @ \cup {Output(q, uv)}])
                         IN  IF x.todo = <<>> THEN Gone("ended", "ok") ELSE x)
           /\ UNCHANGED faults
  <2>1. q.prof \in Profile
    BY <1>1 DEF Local
  <2>2. uv \in BOOLEAN
    BY <2>1 DEF Verifies, Profile
  <2>3. PICK o : o = Output(q, uv)
    OBVIOUS
  <2>4. o \in Outputs /\ (q.job \in DiskJobs => o \in DiskOutputs)
    <3>1. Salt(q) \in {"first", "other"} /\ (q.job \in DiskJobs => Salt(q) = "first")
      BY DEF Salt, DiskJobs
    <3> QED
      BY <2>1, <2>2, <2>3, <3>1 DEF Output, Outputs, DiskOutputs, Profile
  <2>5. PICK x : x = Advance([q EXCEPT !.outputs = @ \cup {o}])
    OBVIOUS
  <2>6. PICK y : y = [q EXCEPT !.outputs = @ \cup {o}]
    OBVIOUS
  <2>7. /\ y \in State /\ y.pc = "run" /\ y.job = q.job /\ y.fake = q.fake /\ y.todo = q.todo /\ y.prof = q.prof
        /\ y.name = q.name /\ y.attempted = q.attempted /\ y.result = q.result /\ y.outputs = q.outputs \cup {o}
        /\ y.copy = q.copy
    BY <1>1, <2>4, <2>6 DEF State, Runs
  <2>8. /\ x \in State /\ x.pc = "run" /\ x.job = q.job /\ x.fake = q.fake /\ x.todo = t /\ x.prof = q.prof
        /\ x.name = q.name /\ x.attempted = q.attempted /\ x.result = q.result /\ x.outputs = q.outputs \cup {o}
        /\ x.copy = q.copy
    BY ZenonT(40), <1>1, <2>5, <2>6, <2>7 DEF Advance, State
  <2>9. Becomes(p, IF x.todo = <<>> THEN Gone("ended", "ok") ELSE x)
    BY <1>8, <2>3, <2>5
  <2>10. CASE t = <<>>
    BY <1>5, <1>8, <2>8, <2>9, <2>10
  <2>11. CASE t # <<>>
    <3>1. Becomes(p, x)
      BY <2>8, <2>9, <2>11
    <3>2. Local(x)
      BY <1>1, <1>2, <2>1, <2>4, <2>8, <2>11 DEF Local, Runs, DiskJobs, ProfileJobs
    <3>3. ~Writes(x) /\ (Holds(x) => Holds(q)) /\ Head(x.todo) # "unlock"
      BY <1>1, <1>2, <2>8, <2>11 DEF Writes, Holds, Runs, ProfileJobs
    <3> QED
      BY <1>1, <1>4, <1>8, <2>8, <3>1, <3>2, <3>3
  <2> QED
    BY <2>10, <2>11
<1> QED
  BY <1>6, <1>7, <1>8

\* Every step of a profile command preserves the invariant.
LEMMA ProfilesStep ==
  ASSUME SecretsInv, NEW p \in Processes, Profiles(p)
  PROVE  SecretsInv'
BY CreateStep, TruncateStep, WriteStep, RefuseStep, ReadStep, PrfStep DEF Profiles, ProfileNext

-----------------------------------------------------------------------------
(* The card.                                                               *)

\* What the card does keeps its types.
LEMMA CardTypes ==
  ASSUME SecretsInv, NEW p \in Processes, Runs(process[p]), NEW a \in Applets
  PROVE  /\ After(p, a) \in Applets
         /\ Step(p) = "verify" => Accepted(p, a) \in BOOLEAN
<1> DEFINE q == process[p]
<1>0. q.job \in {"cardPut", "cardRm"} => q.name \in EntryNames
  BY DEF SecretsInv, SecretsTypeOK, Located, Local
<1>1. /\ VaultTries \in Nat \ {0} /\ a.pin \in BOOLEAN /\ a.tries \in 0..VaultTries
      /\ a.entries \subseteq Stored /\ VaultTries \in 0..VaultTries
  BY SecretsAssumption DEF Applets
<1>2. CASE Step(p) = "verify"
  <2>1. Accepted(p, a) = (a.pin /\ a.tries > 0 /\ q.rightPin)
    BY <1>2 DEF Accepted
  <2>2. Accepted(p, a) \in BOOLEAN
    BY <2>1
  <2>3. CASE a.pin /\ a.tries > 0
    <3>1. PICK n : n = IF q.rightPin THEN VaultTries ELSE a.tries - 1
      OBVIOUS
    <3>2. n \in 0..VaultTries
      BY <1>1, <2>3, <3>1
    <3>3. After(p, a) = [a EXCEPT !.tries = n]
      BY <1>2, <2>3, <3>1 DEF After
    <3> QED
      BY <1>1, <2>2, <3>2, <3>3 DEF Applets
  <2>4. CASE ~(a.pin /\ a.tries > 0)
    BY <1>2, <2>2, <2>4 DEF After
  <2> QED
    BY <2>3, <2>4
<1>3. CASE Step(p) = "setPin"
  <2>1. After(p, a) = a \/ After(p, a) = [a EXCEPT !.pin = TRUE]
    BY <1>3 DEF After
  <2> QED
    BY <1>1, <1>3, <2>1 DEF Applets
<1>4. CASE Step(p) = "command"
  <2>1. \/ After(p, a) = a
        \/ q.job = "cardPut" /\ After(p, a) = [a EXCEPT !.entries = @ \cup {PutEntry(q, a)}]
        \/ After(p, a) = [a EXCEPT !.entries = @ \ Named(q, a)]
    <3>1. CASE Accepted(p, a) /\ q.job = "cardPut"
      BY <1>4, <3>1 DEF After
    <3>2. CASE Accepted(p, a) /\ q.job = "cardRm"
      BY <1>4, <3>2 DEF After
    <3>3. CASE ~(Accepted(p, a) /\ q.job \in {"cardPut", "cardRm"})
      BY <1>4, <3>3 DEF After
    <3> QED
      BY <3>1, <3>2, <3>3
  <2>2. q.job = "cardPut" => PutEntry(q, a) \in Stored
    BY <1>0 DEF PutEntry, Stored
  <2> QED
    BY <1>1, <1>4, <2>1, <2>2 DEF Applets
<1>5. CASE Step(p) \notin {"verify", "setPin", "command"}
  BY <1>5 DEF After
<1> QED
  BY <1>2, <1>3, <1>4, <1>5

\* Opening a session, logging out and failing before that.
LEMMA SessionCard ==
  ASSUME SecretsInv, NEW p \in Processes, NEW r,
         UNCHANGED <<inserted, epoch, applet>>, UNCHANGED faults \/ Fault,
         \/ SelectVault
         \/ UNCHANGED <<current, loggedIn>> /\ unclean' = (unclean \/ loggedIn)
         \/ UNCHANGED <<current, loggedIn, unclean>> /\ ~InSession(p)
  PROVE  CardKept(p, r)
<1>1. faults' \in 0..MaxFaults
  <2>1. faults \in 0..MaxFaults /\ MaxFaults \in Nat
    BY ProfileAssumption DEF SecretsInv, SecretsTypeOK, ProfileTypeOK
  <2> QED
    BY <2>1 DEF Fault
<1>2. /\ inserted' \in Cards \cup {NoCard} /\ epoch' = epoch /\ applet' \in [Cards -> Applets]
  BY DEF SecretsInv, SecretsTypeOK, ProfileTypeOK
<1>3. CASE SelectVault
  BY <1>1, <1>2, <1>3 DEF CardKept, SelectVault
<1>4. CASE UNCHANGED <<current, loggedIn>> /\ unclean' = (unclean \/ loggedIn)
  <2>1. unclean' \in BOOLEAN /\ (loggedIn' => unclean')
    BY <1>4
  <2>2. current' \in {"none", "fido", "vault"} /\ loggedIn' \in BOOLEAN
    BY <1>4 DEF SecretsInv, SecretsTypeOK, ProfileTypeOK
  <2> QED
    BY <1>1, <1>2, <2>1, <2>2 DEF CardKept
<1>5. CASE UNCHANGED <<current, loggedIn, unclean>> /\ ~InSession(p)
  BY <1>1, <1>2, <1>5 DEF CardKept, SecretsInv, SecretsTypeOK, ProfileTypeOK
<1> QED
  BY <1>3, <1>4, <1>5

\* Opening a session selects the applet anew, or fails.
LEMMA OpenStep ==
  ASSUME SecretsInv, NEW p \in Processes, Open(p)
  PROVE  SecretsInv'
<1> DEFINE q == process[p]  t == Tail(q.todo)
<1>1. /\ q \in State /\ Local(q) /\ Runs(q) /\ q.todo # <<>> /\ q.job \in Jobs
      /\ OfJob(q.job, "open") /\ Head(q.todo) = "open"
      /\ t \in Seq(Steps) /\ Scripted(q.job, q.fake, t)
      /\ t = <<>> => Final(q.job, "open")
      /\ t # <<>> => Follows(q.job, q.fake, "open", Head(t))
      /\ q.result # "torn"
  BY AtWork DEF Open, Next1
<1>2. q.job \notin DiskJobs \cup ProfileJobs /\ t # <<>> /\ Head(t) = "status"
  BY <1>1 DEF OfJob, Final, Follows, DiskJobs, ProfileJobs
<1>3. ~InSession(p) /\ ~Writing(q) /\ ~q.attempted
  BY <1>1, NoSession DEF Writing, Local
<1>5. \A r : CardKept(p, r)
  <2> TAKE r
  <2>1. UNCHANGED faults \/ Fault
    BY DEF Open
  <2>2. \/ SelectVault
        \/ UNCHANGED <<current, loggedIn, unclean>> /\ ~InSession(p)
    BY <1>3 DEF Open
  <2> QED
    BY <2>1, <2>2, SessionCard DEF Open
<1>6. ASSUME NEW r \in State, Becomes(p, r), Local(r), ~Holds(r), ~Writes(r)
      PROVE  SecretsInv'
  <2>1. DiskKept(p, r)
    BY <1>6, DiskIdle DEF Open, disk
  <2>2. FidoKept(p, r)
    BY <1>1, <1>3, <1>6, FidoIdle DEF Open, fido
  <2> QED
    BY <1>5, <1>6, <2>1, <2>2, Kept
<1>7. CASE Becomes(p, Failed)
  <2>1. PICK r : r = Failed
    OBVIOUS
  <2>2. r \in State /\ Local(r) /\ ~Holds(r) /\ ~Writes(r)
    BY <2>1, Ended DEF PC, Results, Failed
  <2> QED
    BY <1>6, <1>7, <2>1, <2>2
<1>8. CASE Becomes(p, [Advance(process[p]) EXCEPT !.conn = epoch + 1])
  <2>1. PICK conn : conn = epoch + 1
    OBVIOUS
  <2>2. conn \in 0..MaxSwaps + 1
    BY <2>1, ProfileAssumption DEF SecretsInv, SecretsTypeOK, ProfileTypeOK
  <2>3. PICK r : r = [Advance(q) EXCEPT !.conn = conn]
    OBVIOUS
  <2>4. /\ r \in State /\ r.pc = "run" /\ r.job = q.job /\ r.fake = q.fake /\ r.todo = t
        /\ r.name = q.name /\ r.attempted = q.attempted /\ r.result = q.result /\ r.outputs = q.outputs
    BY <1>1, <2>2, <2>3 DEF Advance, State, Runs
  <2>5. Local(r)
    BY <1>1, <1>2, <1>3, <2>4 DEF Local, Runs, DiskJobs, ProfileJobs
  <2>6. ~Holds(r) /\ ~Writes(r)
    BY <1>2, <2>4 DEF Holds, Writes
  <2> QED
    BY <1>6, <1>8, <2>1, <2>3, <2>4, <2>5, <2>6
<1> QED
  BY <1>7, <1>8 DEF Open

\* A session that ends is logged out, or unclean.
LEMMA LogoutStep ==
  ASSUME SecretsInv, NEW p \in Processes, Logout(p)
  PROVE  SecretsInv'
<1> DEFINE q == process[p]
<1>1. Head(q.todo) = "logout" /\ q.result # "torn" /\ q.pc = "run"
  BY AtWork DEF Logout, Next1
<1>2. PICK result \in {"ok", "failed"} : Becomes(p, Gone("ended", result))
  BY DEF Logout
<1>3. PICK r : r = Gone("ended", result)
  OBVIOUS
<1>4. r \in State /\ Local(r) /\ ~Holds(r) /\ ~Writes(r)
  BY <1>3, Ended DEF PC, Results
<1>5. Becomes(p, r)
  BY <1>2, <1>3
<1>6. DiskKept(p, r)
  BY <1>4, DiskIdle DEF Logout, disk
<1>7. FidoKept(p, r)
  <2>1. ~Writing(q)
    BY <1>1 DEF Writing
  <2> QED
    BY <1>1, <1>4, <2>1, FidoIdle DEF Logout, fido
<1>8. CardKept(p, r)
  <2>1. UNCHANGED faults \/ Fault
    BY DEF Logout
  <2>2. ~Session(p) => ~InSession(p)
    BY DEF InSession
  <2>3. \/ SelectVault
        \/ UNCHANGED <<current, loggedIn>> /\ unclean' = (unclean \/ loggedIn)
        \/ UNCHANGED <<current, loggedIn, unclean>> /\ ~InSession(p)
    BY <2>2 DEF Logout
  <2> QED
    BY <2>1, <2>3, SessionCard DEF Logout
<1> QED
  BY <1>4, <1>5, <1>6, <1>7, <1>8, Kept

\* What becomes of a process that exchanged something with the card: a session that
\* sent VERIFY is one until it logs out.
LEMMA Outcomes ==
  ASSUME SecretsInv, NEW p \in Processes, Exchanging(p), NEW r,
         \/ r = SessionFails(Sends(p))
         \/ r = LET x == Advance(Sends(p)) IN IF x.todo = <<>> THEN Gone("ended", "ok") ELSE x
  PROVE  /\ r \in State /\ Local(r) /\ ~Holds(r) /\ ~Writes(r)
         /\ Session(p) /\ (process[p].attempted \/ Step(p) = "verify") => InSessionAs(r)
<1> DEFINE q == process[p]  t == Tail(q.todo)
<1>1. /\ q \in State /\ Local(q) /\ Runs(q) /\ q.todo # <<>> /\ q.job \in Jobs
      /\ OfJob(q.job, Head(q.todo)) /\ Head(q.todo) = Step(p) /\ Step(p) \in VaultSteps
      /\ t \in Seq(Steps) /\ Scripted(q.job, q.fake, t)
      /\ t = <<>> => Final(q.job, Head(q.todo))
      /\ t # <<>> => Follows(q.job, q.fake, Head(q.todo), Head(t))
      /\ q.result # "torn"
  BY AtWork DEF Exchanging, Step
<1>2. q.job \notin DiskJobs \cup ProfileJobs /\ (Step(p) \in {"verify", "command"} => q.job # "init")
  BY <1>1 DEF OfJob
<1>3. q.attempted => q.job # "init"
  BY <1>1 DEF Local
<1>4. PICK s : s = Sends(p)
  OBVIOUS
<1>5. /\ s \in State /\ s.pc = "run" /\ s.job = q.job /\ s.fake = q.fake /\ s.todo = q.todo
      /\ s.name = q.name /\ s.result = q.result /\ s.outputs = q.outputs /\ s.conn = q.conn
      /\ s.attempted = (q.attempted \/ Step(p) = "verify")
  <2>1. CASE Step(p) = "verify"
    BY <1>1, <1>4, <2>1 DEF Sends, State, Runs
  <2>2. CASE Step(p) # "verify"
    BY <1>1, <1>4, <2>2 DEF Sends, State, Runs
  <2> QED
    BY <2>1, <2>2
<1>6. Session(p) => s.conn = epoch + 1
  BY <1>5 DEF Session
<1>7. CASE r = SessionFails(s)
  <2>1. CASE ~s.attempted
    <3>1. r = Gone("ended", "failed")
      BY <1>7, <2>1 DEF SessionFails, Failed
    <3>2. r \in State /\ Local(r) /\ ~Holds(r) /\ ~Writes(r)
      BY <3>1, Ended DEF PC, Results
    <3> QED
      BY <1>5, <2>1, <3>2
  <2>2. CASE s.attempted
    <3>1. r = [s EXCEPT !.todo = <<"logout">>, !.result = "failed"]
      BY <1>7, <2>2 DEF SessionFails
    <3>2. <<"logout">> \in Seq(Steps) /\ <<"logout">> # <<>> /\ Head(<<"logout">>) = "logout"
      BY DEF Steps
    <3>3. /\ r \in State /\ r.pc = "run" /\ r.job = q.job /\ r.fake = q.fake /\ r.todo = <<"logout">>
          /\ r.name = q.name /\ r.result = "failed" /\ r.outputs = q.outputs /\ r.conn = q.conn
          /\ r.attempted = s.attempted
      BY <1>5, <3>1, <3>2 DEF State, Results
    <3>4. q.job # "init"
      BY <1>2, <1>3, <1>5, <2>2
    <3>5. Scripted(q.job, q.fake, <<"logout">>)
      BY <1>2, <3>4 DEF Scripted, OfJob, Final, Steps, VaultSteps
    <3>6. Local(r)
      BY <1>1, <1>2, <3>2, <3>3, <3>4, <3>5 DEF Local, Runs, DiskJobs, ProfileJobs
    <3>7. ~Holds(r) /\ ~Writes(r)
      BY <1>2, <3>2, <3>3 DEF Holds, Writes
    <3> QED
      BY <1>5, <1>6, <2>2, <3>3, <3>6, <3>7 DEF InSessionAs, Runs
  <2> QED
    BY <2>1, <2>2
<1>8. CASE r = LET x == Advance(s) IN IF x.todo = <<>> THEN Gone("ended", "ok") ELSE x
  <2>1. PICK x : x = Advance(s)
    OBVIOUS
  <2>2. /\ x \in State /\ x.pc = "run" /\ x.job = q.job /\ x.fake = q.fake /\ x.todo = t
        /\ x.name = q.name /\ x.result = q.result /\ x.outputs = q.outputs /\ x.conn = q.conn
        /\ x.attempted = s.attempted
    BY <1>1, <1>5, <2>1 DEF Advance, State
  <2>3. r = IF x.todo = <<>> THEN Gone("ended", "ok") ELSE x
    BY <1>8, <2>1
  <2>4. CASE t = <<>>
    <3>1. r = Gone("ended", "ok")
      BY <2>2, <2>3, <2>4
    <3>2. r \in State /\ Local(r) /\ ~Holds(r) /\ ~Writes(r)
      BY <3>1, Ended DEF PC, Results
    <3>3. ~(q.attempted \/ Step(p) = "verify")
      BY <1>1, <1>2, <1>3, <2>4 DEF Final, VaultSteps
    <3> QED
      BY <3>2, <3>3
  <2>5. CASE t # <<>>
    <3>1. r = x
      BY <2>2, <2>3, <2>5
    <3>2. Step(p) = "verify" => Head(t) = "command" /\ q.job # "init"
      BY <1>1, <1>2, <2>5 DEF Follows
    <3>3. q.attempted => Head(t) \in {"command", "readBack", "logout"}
      BY <1>1, <1>3, <2>5 DEF Local, Follows
    <3>4. Head(t) \notin {"truncate", "write", "prf", "seal", "unseal", "unlock"}
      BY <1>1, <2>5 DEF Follows, VaultSteps
    <3>5. Local(r)
      <4>1. r.attempted => /\ Runs(r) /\ r.job \notin DiskJobs \cup ProfileJobs \cup {"init"}
                           /\ Head(r.todo) \in {"command", "readBack", "logout"}
        BY <1>2, <1>3, <1>5, <2>2, <3>1, <3>2, <3>3 DEF Runs
      <4> QED
        BY <1>1, <1>2, <2>2, <2>5, <3>1, <3>4, <4>1 DEF Local, Runs, DiskJobs, ProfileJobs
    <3>6. ~Holds(r) /\ ~Writes(r)
      BY <1>2, <2>2, <3>1, <3>4 DEF Holds, Writes
    <3> QED
      BY <1>5, <1>6, <2>2, <3>1, <3>5, <3>6 DEF InSessionAs, Runs
  <2> QED
    BY <2>4, <2>5
<1> QED
  BY <1>4, <1>7, <1>8

\* What such an exchange may do to the card.
LEMMA ExchangeCard ==
  ASSUME SecretsInv, NEW p \in Processes, NEW r, Exchanging(p),
         Session(p) /\ (process[p].attempted \/ Step(p) = "verify") => InSessionAs(r),
         UNCHANGED <<inserted, epoch, current, unclean>>, UNCHANGED faults \/ Fault,
         \/ Session(p) /\ inserted # NoCard /\ Execute(p)
         \/ UNCHANGED <<applet, loggedIn>>
  PROVE  CardKept(p, r)
<1>1. faults' \in 0..MaxFaults
  <2>1. faults \in 0..MaxFaults /\ MaxFaults \in Nat
    BY ProfileAssumption DEF SecretsInv, SecretsTypeOK, ProfileTypeOK
  <2> QED
    BY <2>1 DEF Fault
<1>2. /\ inserted' \in Cards \cup {NoCard} /\ epoch' = epoch /\ current' \in {"none", "fido", "vault"}
      /\ unclean' = unclean /\ unclean' \in BOOLEAN
  BY DEF SecretsInv, SecretsTypeOK, ProfileTypeOK
<1>3. InSession(p) => InSessionAs(r)
  BY DEF InSession
<1>4. CASE UNCHANGED <<applet, loggedIn>>
  BY <1>1, <1>2, <1>3, <1>4 DEF CardKept, SecretsInv, SecretsTypeOK, ProfileTypeOK
<1>5. CASE Session(p) /\ inserted # NoCard /\ Execute(p)
  <2>1. CASE current # "vault"
    BY <1>4, <1>5, <2>1 DEF Execute
  <2>2. CASE current = "vault"
    <3>1. /\ applet' = [applet EXCEPT ![inserted] = After(p, @)]
          /\ loggedIn' = IF Step(p) = "verify" /\ Card.pin THEN Accepted(p, Card) ELSE loggedIn
      BY <1>5, <2>2 DEF Execute
    <3>2. Card \in Applets /\ inserted \in Cards /\ applet \in [Cards -> Applets]
      BY <1>5 DEF Card, SecretsInv, SecretsTypeOK, ProfileTypeOK
    <3>3. After(p, Card) \in Applets /\ (Step(p) = "verify" => Accepted(p, Card) \in BOOLEAN)
      BY <3>2, CardTypes DEF Exchanging, Runs
    <3>4. applet' \in [Cards -> Applets]
      BY <3>1, <3>2, <3>3 DEF Card
    <3>5. CASE Step(p) = "verify"
      <4>1. InSessionAs(r)
        BY <1>5, <3>5
      <4>2. loggedIn' \in BOOLEAN
        BY <3>1, <3>3 DEF SecretsInv, SecretsTypeOK, ProfileTypeOK
      <4> QED
        BY <1>1, <1>2, <3>4, <4>1, <4>2 DEF CardKept
    <3>6. CASE Step(p) # "verify"
      <4>1. loggedIn' = loggedIn
        BY <3>1, <3>6
      <4> QED
        BY <1>1, <1>2, <1>3, <3>4, <4>1 DEF CardKept, SecretsInv, SecretsTypeOK, ProfileTypeOK
    <3> QED
      BY <3>5, <3>6
  <2> QED
    BY <2>1, <2>2
<1> QED
  BY <1>4, <1>5

\* An exchange that succeeds, fails or is lost leaves a session that logs out.
LEMMA ExchangeStep ==
  ASSUME SecretsInv, NEW p \in Processes, Exchange(p) \/ ExchangeLost(p)
  PROVE  SecretsInv'
<1>1. Exchanging(p)
  BY DEF Exchange, ExchangeLost
<1>2. PICK r : /\ \/ r = SessionFails(Sends(p))
                  \/ r = LET x == Advance(Sends(p)) IN IF x.todo = <<>> THEN Gone("ended", "ok") ELSE x
               /\ Becomes(p, r)
  <2>1. CASE Exchange(p)
    BY <2>1 DEF Exchange
  <2>2. CASE ExchangeLost(p)
    BY <2>2 DEF ExchangeLost
  <2> QED
    BY <2>1, <2>2
<1>3. /\ r \in State /\ Local(r) /\ ~Holds(r) /\ ~Writes(r)
      /\ Session(p) /\ (process[p].attempted \/ Step(p) = "verify") => InSessionAs(r)
  BY <1>1, <1>2, Outcomes
<1>4. DiskKept(p, r)
  BY <1>3, DiskIdle DEF Exchange, ExchangeLost, disk
<1>5. FidoKept(p, r)
  <2>1. ~Writing(process[p]) /\ process[p].result # "torn"
    BY <1>1, AtWork DEF Exchanging, Writing, Step, VaultSteps
  <2> QED
    BY <1>3, <2>1, FidoIdle DEF Exchange, ExchangeLost, fido
<1>6. CardKept(p, r)
  <2>1. UNCHANGED <<inserted, epoch, current, unclean>> /\ (UNCHANGED faults \/ Fault)
    BY DEF Exchange, ExchangeLost
  <2>2. \/ Session(p) /\ inserted # NoCard /\ Execute(p)
        \/ UNCHANGED <<applet, loggedIn>>
    BY DEF Exchange, ExchangeLost
  <2> QED
    BY <1>1, <1>3, <2>1, <2>2, ExchangeCard
<1> QED
  BY <1>2, <1>3, <1>4, <1>5, <1>6, Kept

-----------------------------------------------------------------------------
(* The system.                                                             *)

\* Another card is not logged in.
LEMMA SwapStep ==
  ASSUME SecretsInv, Swap, unclean' = FALSE, UNCHANGED <<vault, lock, values, acked, gone, applet>>
  PROVE  SecretsInv'
<1>1. /\ process' = process /\ creds' = creds /\ profile' = profile /\ faults' = faults
      /\ saved' = saved /\ opened' = opened /\ inserted' \in Cards \cup {NoCard} /\ current' = "none" /\ loggedIn' = FALSE
  BY DEF Swap, profileFile, SecretsInv, SecretsTypeOK, ProfileTypeOK
<1>2. epoch' \in 0..MaxSwaps
  BY ProfileAssumption DEF Swap, SecretsInv, SecretsTypeOK, ProfileTypeOK
<1>3. AllCreds' = AllCreds
  BY <1>1 DEF AllCreds
<1>4. SecretsTypeOK'
  BY <1>1, <1>2 DEF SecretsInv, SecretsTypeOK, ProfileTypeOK
<1>5. Located' /\ AbsentEmpty' /\ VaultKept' /\ LoggedOut'
  BY <1>1 DEF SecretsInv, Located, AbsentEmpty, VaultKept, LoggedOut
<1>6. Holders'
  BY <1>1 DEF SecretsInv, Holders
<1>7. Writers' /\ Durable' /\ ProfileTrue'
  BY <1>1, <1>3 DEF SecretsInv, Writers, Durable, ProfileTrue, Whole, Next1
<1> QED
  BY <1>4, <1>5, <1>6, <1>7 DEF SecretsInv

\* A power failure ends every process and may lose the last replacement of the file.
LEMMA PowerStep ==
  ASSUME SecretsInv, HostPowerLoss
  PROVE  SecretsInv'
<1> DEFINE dead == Gone("killed", "none")
<1>1. \A p \in Processes :
        /\ process[p].pc # "run" => process'[p] = process[p]
        /\ process[p].pc = "run" => process'[p] = dead
  BY DEF HostPowerLoss
<1>2. dead \in State /\ Local(dead) /\ ~Runs(dead)
  BY Ended DEF PC, Results
<1> HIDE DEF dead
<1>3. \A p \in Processes : process'[p] \in State /\ Local(process'[p]) /\ ~Runs(process'[p])
  BY <1>1, <1>2 DEF SecretsInv, SecretsTypeOK, Located, Runs
<1>4. process' \in [Processes -> State]
  <2>1. process' = [p \in Processes |-> process'[p]]
    BY DEF HostPowerLoss
  <2> QED
    BY <1>3, <2>1
<1>5. /\ vault'.file = vault.durable /\ vault'.durable = vault.durable
      /\ vault' \in [file : Vaults, durable : Vaults]
  BY DEF HostPowerLoss, SecretsInv, SecretsTypeOK
<1>6. /\ gone' = gone \cup (vault.file.log \ vault.durable.log) /\ acked' = acked /\ values' = values
      /\ creds' = creds /\ opened' = opened /\ lock' = None /\ loggedIn' = FALSE /\ unclean' = FALSE
      /\ current' = "none" /\ inserted' = inserted /\ epoch' = epoch /\ faults' = faults
      /\ applet' = applet /\ profile' \in saved /\ saved' = {profile'}
  BY DEF HostPowerLoss
<1>7. vault.file.log \subseteq FileEntry
  BY DEF SecretsInv, SecretsTypeOK, Vaults
<1>8. SecretsTypeOK'
  BY <1>4, <1>5, <1>6, <1>7 DEF SecretsInv, SecretsTypeOK, ProfileTypeOK
<1>9. Located'
  BY <1>3 DEF Located
<1>10. AbsentEmpty'
  BY <1>5 DEF SecretsInv, AbsentEmpty
<1>11. Holders' /\ Writers'
  <2>1. \A p \in Processes : ~Holds(process'[p]) /\ ~Writes(process'[p])
    BY <1>3 DEF Holds, Writes
  <2> QED
    BY <2>1 DEF Holders, Writers
<1>12. VaultKept'
  <2>1. acked' \subseteq vault'.file.log \cup gone'
    BY <1>5, <1>6 DEF SecretsInv, VaultKept
  <2> QED
    BY <1>5, <2>1 DEF SecretsInv, VaultKept
<1>13. LoggedOut'
  BY <1>6 DEF LoggedOut
<1>14. ProfileTrue' /\ Durable'
  <2>1. AllCreds' = AllCreds
    BY <1>6 DEF AllCreds
  <2>2. Sound(profile', AllCreds) /\ (profile' = Partial => opened)
    BY <1>6 DEF SecretsInv, Durable
  <2>3. ProfileTrue'
    BY <1>6, <2>1, <2>2 DEF ProfileTrue, Sound, Real, Whole
  <2>4. \A f \in saved' : Sound(f, AllCreds')
    BY <1>6, <2>1, <2>2
  <2>5. Partial \in saved' => opened'
    BY <1>6, <2>2
  <2> QED
    BY <2>3, <2>4, <2>5 DEF Durable, Sound, Contents, Whole, Real, Truncated, Absent, Partial, Profile, AllCreds
<1> QED
  BY <1>8, <1>9, <1>10, <1>11, <1>12, <1>13, <1>14 DEF SecretsInv

\* A fresh system, and one in use, satisfy the invariant.
LEMMA SecretsInitInv == SecretsInit => SecretsInv
<1> SUFFICES ASSUME SecretsInit PROVE SecretsInv
  OBVIOUS
<1>1. /\ MaxCreds \in Nat \ {0} /\ MaxValues \in Nat \ {0} /\ VaultTries \in Nat \ {0}
      /\ MaxSwaps \in Nat /\ MaxFaults \in Nat
  BY ProfileAssumption, SecretsAssumption
<1>2. /\ 0 \in 0..MaxSwaps /\ 0 \in 0..MaxFaults /\ 0 \in 0..MaxSwaps + 1 /\ 0 \in 0..MaxValues
      /\ 1 \in 1..MaxCreds /\ 1 \in 0..MaxValues /\ 1 \in 1..MaxValues /\ VaultTries \in 0..VaultTries
  BY <1>1
<1>3. /\ process = [p \in Processes |-> Fresh] /\ inserted \in Cards /\ epoch = 0 /\ current = "none"
      /\ loggedIn = FALSE /\ faults = 0 /\ lock = None /\ gone = {} /\ unclean = FALSE
      /\ saved = {profile} /\ opened = FALSE
  BY DEF SecretsInit, ProfileInit
<1>4. Fresh \in State /\ Local(Fresh) /\ ~Runs(Fresh)
  <2>1. <<>> \in Seq(Steps) /\ {} \in SUBSET Outputs
    OBVIOUS
  <2>2. Fresh \in State
    BY <1>2, <2>1 DEF Fresh, State, PC, Results
  <2> QED
    BY <2>2 DEF Fresh, Local, Runs
<1>5. process \in [Processes -> State] /\ \A p \in Processes : process[p] = Fresh
  BY <1>3, <1>4
<1>6. Located /\ Holders /\ Writers
  BY <1>4, <1>5 DEF Located, Holders, Writers, Holds, Writes
<1>7. LoggedOut
  BY <1>3 DEF LoggedOut
<1>8. NoVault \in Vaults /\ Blank \in Applets
  BY <1>2 DEF NoVault, Vaults, Blank, Applets
<1>9. CASE /\ ProfileInit(FALSE)
           /\ vault = [file |-> NoVault, durable |-> NoVault]
           /\ values = 0 /\ acked = {}
           /\ applet = [c \in Cards |-> Blank]
  <2>1. creds = [c \in Cards |-> {}] /\ profile = Absent
    BY <1>9 DEF ProfileInit
  <2>2. SecretsTypeOK
    BY <1>2, <1>3, <1>5, <1>8, <1>9, <2>1 DEF SecretsTypeOK, ProfileTypeOK, Contents
  <2>3. vault.file = NoVault /\ vault.durable = NoVault
    BY <1>9
  <2>4. VaultKept /\ AbsentEmpty
    BY <1>9, <2>3 DEF VaultKept, AbsentEmpty, NoVault
  <2>5. ProfileTrue /\ Durable
    BY <1>3, <2>1 DEF ProfileTrue, Durable, Sound, Contents, Whole, Absent, Truncated, Partial
  <2> QED
    BY <1>6, <1>7, <2>2, <2>4, <2>5 DEF SecretsInv
<1>10. ASSUME ProfileInit(TRUE), NEW name \in EntryNames, NEW kind \in {"hmac", "bearer"},
              acked = {[name |-> name, value |-> 1,
                        key |-> [cred |-> 1, uv |-> profile.uv, salt |-> "first"]]},
              applet = [c \in Cards |-> [Blank EXCEPT !.pin = TRUE,
                                             !.entries = {[name |-> name, kind |-> kind]}]],
              vault = [file |-> InUse(acked), durable |-> InUse(acked)], values = 1
       PROVE  SecretsInv
  <2>1. PICK uv \in BOOLEAN : profile = [cred |-> 1, prf |-> TRUE, uv |-> uv]
    BY <1>10 DEF ProfileInit
  <2>2. profile \in Profile /\ profile.uv = uv /\ profile.cred = 1
    BY <1>2, <2>1 DEF Profile
  <2>3. PICK made : made = [cred |-> 1, prf |-> TRUE]
    OBVIOUS
  <2>4. made \in Credential /\ made.cred = 1 /\ made.prf = TRUE
    BY <1>2, <2>3 DEF Credential
  <2>5. creds = [c \in Cards |-> IF c = inserted THEN {made} ELSE {}]
    BY <1>10, <2>3 DEF ProfileInit
  <2>6. creds \in [Cards -> SUBSET Credential] /\ made \in AllCreds
    BY <1>3, <2>4, <2>5 DEF AllCreds
  <2>7. PICK key : key = [cred |-> 1, uv |-> uv, salt |-> "first"]
    OBVIOUS
  <2>8. key \in Key /\ key # FakeKey
    BY <1>2, <2>7 DEF Key, FakeKey
  <2>9. PICK e : e = [name |-> name, value |-> 1, key |-> key]
    OBVIOUS
  <2>10. e \in FileEntry /\ e.key = key
    BY <1>2, <2>8, <2>9 DEF FileEntry
  <2>11. acked = {e}
    BY <1>10, <2>2, <2>7, <2>9
  <2>12. PICK v : v = InUse(acked)
    OBVIOUS
  <2>13. v \in Vaults /\ v.mode = "card" /\ v.entries = {e} /\ v.log = {e}
    BY <2>10, <2>11, <2>12 DEF InUse, Vaults
  <2>14. vault.file = v /\ vault.durable = v /\ vault \in [file : Vaults, durable : Vaults]
    BY <1>10, <2>12, <2>13
  <2>15. applet \in [Cards -> Applets]
    <3>1. PICK entry : entry = [name |-> name, kind |-> kind]
      OBVIOUS
    <3>2. entry \in Stored
      BY <3>1 DEF Stored
    <3>3. [Blank EXCEPT !.pin = TRUE, !.entries = {entry}] \in Applets
      BY <1>8, <3>2 DEF Applets
    <3> QED
      BY <1>10, <3>1, <3>3
  <2>16. SecretsTypeOK
    BY <1>2, <1>3, <1>5, <1>10, <2>2, <2>6, <2>10, <2>11, <2>14, <2>15 DEF SecretsTypeOK, ProfileTypeOK, Contents
  <2>17. VaultKept /\ AbsentEmpty
    BY SMTT(30), <1>3, <2>8, <2>10, <2>11, <2>13, <2>14 DEF VaultKept, AbsentEmpty
  <2>18. ProfileTrue /\ Durable
    <3>1. profile # Truncated /\ profile # Partial /\ profile \in Contents
      BY <2>2 DEF Truncated, Partial, Profile, Contents
    <3>2. Real(profile, AllCreds)
      BY <2>2, <2>4, <2>6 DEF Real
    <3> QED
      BY <1>3, <3>1, <3>2 DEF ProfileTrue, Durable, Sound, Real
  <2> QED
    BY <1>6, <1>7, <2>16, <2>17, <2>18 DEF SecretsInv
<1> QED
  BY <1>9, <1>10 DEF SecretsInit

\* Every step preserves the invariant.
LEMMA SecretsStep ==
  ASSUME SecretsInv, [SecretsNext]_secretsVars
  PROVE  SecretsInv'
<1>1. CASE \E p \in Processes : Process(p)
  BY <1>1, StartStep, KillStep, LoadStep, SealStep, RemoveStep, UnsealStep, UnlockStep, ProfilesStep,
     OpenStep, ExchangeStep, LogoutStep DEF Process
<1>2. CASE Swap /\ unclean' = FALSE /\ UNCHANGED <<disk, applet>>
  BY <1>2, SwapStep DEF disk
<1>3. CASE HostPowerLoss
  BY <1>3, PowerStep
<1>4. CASE UNCHANGED secretsVars
  <2>1. AllCreds' = AllCreds
    BY <1>4 DEF secretsVars, AllCreds
  <2>2. SecretsTypeOK' /\ Located' /\ AbsentEmpty' /\ VaultKept'
    BY <1>4 DEF secretsVars, SecretsInv, SecretsTypeOK, ProfileTypeOK, Located, AbsentEmpty, VaultKept
  <2>3. Holders' /\ Writers' /\ Durable'
    BY <1>4, <2>1 DEF secretsVars, SecretsInv, Holders, Writers, Durable, Sound
  <2>4. LoggedOut' /\ ProfileTrue'
    BY <1>4, <2>1 DEF secretsVars, SecretsInv, LoggedOut, InSession, Session, ProfileTrue, Whole, Next1
  <2> QED
    BY <2>2, <2>3, <2>4 DEF SecretsInv
<1> QED
  BY <1>1, <1>2, <1>3, <1>4 DEF SecretsNext

\* The invariant holds for every number of processes, cards, names, tries and faults.
THEOREM SecretsInvariance == SecretsSpec => []SecretsInv
BY SecretsInitInv, SecretsStep, PTL DEF SecretsSpec

\* card-secrets.py, card-prf-backup.py: every value stays of its type; no try counter
\* leaves its range and no script runs past its end.
THEOREM SecretsTypes == SecretsSpec => []SecretsTypeOK
<1>1. SecretsInv => SecretsTypeOK
  BY DEF SecretsInv
<1> QED
  BY <1>1, SecretsInvariance, PTL

\* card-secrets.py, locked_vault and save: the file is whole, of one mode, holds what
\* the puts and removals add up to, and keeps every secret that was reported.
THEOREM VaultFile == SecretsSpec => []VaultKept
<1>1. SecretsInv => VaultKept
  BY DEF SecretsInv
<1> QED
  BY <1>1, SecretsInvariance, PTL

\* card-secrets.py, card_session: the applet is logged out when no session is left,
\* unless one was killed or said that its logout is unconfirmed.
THEOREM SessionsEnd == SecretsSpec => []LoggedOut
<1>1. SecretsInv => LoggedOut
  BY DEF SecretsInv
<1> QED
  BY <1>1, SecretsInvariance, PTL

\* card-prf-backup.py: a profile names a credential that a card made; it is broken only
\* by an enrolment that had its credential, and empty only while that one is between
\* two calls, or was killed or failed there.
THEOREM ProfileReal == SecretsSpec => []ProfileTrue
<1>1. SecretsInv => ProfileTrue
  BY DEF SecretsInv
<1> QED
  BY <1>1, SecretsInvariance, PTL
=============================================================================
