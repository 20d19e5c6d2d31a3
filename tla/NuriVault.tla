------------------------------ MODULE NuriVault ------------------------------
(***************************************************************************)
(* The secrets vault, card/vault/NuriVault.java: owner PIN, sixteen slots  *)
(* of named secrets, and a binding key that is generated once.             *)
(*                                                                         *)
(* One action is one APDU handler, run to its end or to the power loss or  *)
(* platform exception that ends it.  Every secret imported is a fresh one, *)
(* named 1, 2, 3 ... in order of import; 0 is a wiped value.               *)
(***************************************************************************)
EXTENDS Naturals

CONSTANTS
  Names,       \* entry names
  NoName,      \* a wiped name
  Slots,       \* number of slots (16 in the code)
  PageSize,    \* slots per LIST page (8 in the code, which has two pages)
  PinTries,    \* OwnerPIN try limit (5 in the code)
  MaxSecrets,  \* bound of the model: secrets imported in one behaviour
  MaxKeys      \* bound of the model: binding keys generated in one behaviour

ASSUME NamesAssumption == NoName \notin Names
ASSUME SlotsAssumption == Slots \in Nat /\ PageSize \in Nat /\ Slots = 2 * PageSize
ASSUME PinTriesAssumption == PinTries \in Nat \ {0}
ASSUME BoundsAssumption == MaxSecrets \in Nat /\ MaxKeys \in Nat

VARIABLES
  \* Persistent memory.
  pinSet, tries, slots,
  bindingKeyGenerated, candidateKey, bindingPublicKey, binding,
  \* "off", "idle" (not the selected applet) or "selected"
  mode,
  \* The validated flag of the OwnerPIN, which is transient.
  validated,
  \* History, read by no guard: secrets imported and of which class, secrets
  \* read back, keys generated, whether the right PIN was given since the last
  \* selection, reset or wrong PIN, and a host's listing in progress.
  imported, hmacSecrets, revealed, keys, login, listing

pinState == <<pinSet, tries, validated, login>>
keyState == <<bindingKeyGenerated, candidateKey, bindingPublicKey, binding, keys>>
store == <<slots, imported, hmacSecrets>>
vars == <<pinSet, tries, slots, bindingKeyGenerated, candidateKey,
          bindingPublicKey, binding, mode, validated, imported, hmacSecrets,
          revealed, keys, login, listing>>

Index == 1 .. Slots
Empty == [kind |-> "free", name |-> NoName, secret |-> 0]
Occupied == {i \in Index : slots[i].kind # "free"}

\* A host reads page 0, then page 1; steady holds the secrets present all along.
NoListing == [state |-> "none", steady |-> {}, pages |-> <<{}, {}>>]

Init ==
  /\ pinSet = FALSE /\ tries = PinTries
  /\ slots = [i \in Index |-> Empty]
  /\ bindingKeyGenerated = FALSE /\ candidateKey = 0
  /\ bindingPublicKey = 0 /\ binding = 0
  /\ mode = "idle" /\ validated = FALSE
  /\ imported = 0 /\ hmacSecrets = {} /\ revealed = {} /\ keys = 0
  /\ login = FALSE /\ listing = NoListing

-----------------------------------------------------------------------------
(* Selection, power and PIN.                                               *)

PowerLoss == mode' = "off" /\ validated' = FALSE /\ login' = FALSE

\* How a command may end once its work is done or undone: normally, by an
\* exception (finishCommand wipes buffers and leaves the PIN state), or by a
\* power loss.
Ends == PowerLoss \/ UNCHANGED <<mode, validated, login>>

PowerOff ==
  /\ mode # "off" /\ PowerLoss
  /\ UNCHANGED <<pinSet, tries, store, revealed, keyState, listing>>

PowerOn ==
  /\ mode = "off" /\ mode' = "idle"
  /\ UNCHANGED <<pinState, store, revealed, keyState, listing>>

\* select and deselect both reset the PIN.
Select ==
  /\ mode # "off" /\ mode' = "selected"
  /\ validated' = FALSE /\ login' = FALSE
  /\ UNCHANGED <<pinSet, tries, store, revealed, keyState, listing>>

Deselect ==
  /\ mode = "selected" /\ mode' = "idle"
  /\ validated' = FALSE /\ login' = FALSE
  /\ UNCHANGED <<pinSet, tries, store, revealed, keyState, listing>>

\* Mutant: initial setup counts as authentication.
SetPin_LogsIn ==
  /\ mode = "selected" /\ ~pinSet
  /\ pinSet' = TRUE /\ tries' = PinTries
  /\ validated' = TRUE /\ UNCHANGED <<mode, login>>
  /\ UNCHANGED <<store, revealed, keyState, listing>>

\* SET_PIN, once.  One transaction covers the PIN and its flag; setting the PIN
\* does not log the owner in.
SetPin ==
  /\ mode = "selected" /\ ~pinSet
  /\ \/ pinSet' = TRUE /\ tries' = PinTries
     \/ UNCHANGED <<pinSet, tries>>
  /\ Ends
  /\ UNCHANGED <<store, revealed, keyState, listing>>

\* VERIFY.  OwnerPIN.check spends a try before it compares and gives the tries
\* back on a match; a mismatch ends a login.
Verify ==
  /\ mode = "selected" /\ pinSet /\ tries > 0
  /\ \/ /\ tries' = PinTries
        /\ \/ validated' = TRUE /\ login' = TRUE /\ UNCHANGED mode
           \/ PowerLoss
     \/ /\ tries' = tries - 1
        /\ \/ validated' = FALSE /\ login' = FALSE /\ UNCHANGED mode
           \/ PowerLoss
  /\ UNCHANGED <<pinSet, store, revealed, keyState, listing>>

\* authorized
Authorized == mode = "selected" /\ pinSet /\ tries > 0 /\ validated

-----------------------------------------------------------------------------
(* The entries.                                                            *)

\* find: the slot of a name.
Found(name) == {i \in Occupied : slots[i].name = name}

\* The first free slot, if there is one.
FreeSlot(i) == i \in Index \ Occupied /\ \A j \in Index : j < i => j \in Occupied

\* Mutant: no look-up of the name before it is stored.
PutAllowed_Duplicates(name, i) ==
  /\ Authorized /\ imported < MaxSecrets
  /\ FreeSlot(i)

PutAllowed(name, i) ==
  /\ Authorized /\ imported < MaxSecrets
  /\ Found(name) = {}
  /\ FreeSlot(i)

\* PUT.  One transaction publishes name, class and value, or nothing.
Put ==
  /\ \E name \in Names, kind \in {"hmac", "bearer"}, i \in Index :
       /\ PutAllowed(name, i)
       /\ imported' = imported + 1
       /\ hmacSecrets' = IF kind = "hmac" THEN hmacSecrets \cup {imported'}
                         ELSE hmacSecrets
       /\ slots' = [slots EXCEPT ![i] = [kind |-> kind, name |-> name,
                                         secret |-> imported']]
  /\ Ends
  /\ UNCHANGED <<pinSet, tries, revealed, keyState, listing>>

\* PUT that dies before its commit: the secret was sent and nothing is stored.
PutAborted ==
  /\ \E name \in Names, i \in Index : PutAllowed(name, i)
  /\ Ends
  /\ UNCHANGED <<pinSet, tries, store, revealed, keyState, listing>>

\* Mutant: deleting moves the last entry into the hole.
Delete_Compacts ==
  /\ Authorized
  /\ \E i \in Occupied :
       LET last == CHOOSE j \in Occupied : \A k \in Occupied : k <= j
       IN  /\ slots' = [slots EXCEPT ![i] = slots[last], ![last] = Empty]
           /\ listing' = [listing EXCEPT !.steady = @ \ {slots[i].secret}]
  /\ Ends
  /\ UNCHANGED <<pinSet, tries, imported, hmacSecrets, revealed, keyState>>

\* DELETE wipes value, name, lengths and class in one transaction; a failing
\* one changes nothing.
Delete ==
  /\ Authorized
  /\ \E i \in Occupied :
       \/ /\ slots' = [slots EXCEPT ![i] = Empty]
          /\ listing' = [listing EXCEPT !.steady = @ \ {slots[i].secret}]
       \/ UNCHANGED <<slots, listing>>
  /\ Ends
  /\ UNCHANGED <<pinSet, tries, imported, hmacSecrets, revealed, keyState>>

\* Mutant: REVEAL does not look at the class.
Reveal_AnyClass ==
  /\ Authorized
  /\ \E i \in Occupied : revealed' = revealed \cup {slots[i].secret}
  /\ Ends
  /\ UNCHANGED <<pinSet, tries, store, keyState, listing>>

\* REVEAL sends a bearer secret.  (HMAC computes with an HMAC secret and
\* changes nothing.)
Reveal ==
  /\ Authorized
  /\ \E i \in Occupied :
       /\ slots[i].kind = "bearer"
       /\ revealed' = revealed \cup {slots[i].secret}
  /\ Ends
  /\ UNCHANGED <<pinSet, tries, store, keyState, listing>>

SecretsAt(indices) == {slots[i].secret : i \in indices \cap Occupied}

\* LIST: page 0 starts a listing, page 1 completes it.  Other commands, of this
\* host or another, may come between.
List ==
  /\ Authorized
  /\ \/ listing' = [state |-> "half", steady |-> SecretsAt(Index),
                    pages |-> <<SecretsAt(1 .. PageSize), {}>>]
     \/ /\ listing.state = "half"
        /\ listing' = [listing EXCEPT !.state = "done",
                         !.pages[2] = SecretsAt(PageSize + 1 .. Slots)]
  /\ Ends
  /\ UNCHANGED <<pinSet, tries, store, revealed, keyState>>

-----------------------------------------------------------------------------
(* The binding key.                                                        *)

KeygenAllowed == Authorized /\ keys < MaxKeys /\ ~bindingKeyGenerated

\* KEYGEN: the candidate is generated in place, its attestation computed, and
\* one transaction publishes reference, public key, attestation and flag.
Keygen ==
  /\ KeygenAllowed
  /\ keys' = keys + 1
  /\ candidateKey' = keys' /\ bindingPublicKey' = keys' /\ binding' = keys'
  /\ bindingKeyGenerated' = TRUE
  /\ Ends
  /\ UNCHANGED <<pinSet, tries, store, revealed, listing>>

\* KEYGEN that dies before its commit leaves the candidate as the key provider
\* wrote it; the transaction takes the rest back.
KeygenAborted ==
  /\ KeygenAllowed
  /\ keys' = keys + 1
  /\ candidateKey' \in {candidateKey, keys'}
  /\ Ends
  /\ UNCHANGED <<pinSet, tries, bindingKeyGenerated, bindingPublicKey, binding,
                 store, revealed, listing>>

\* Refused or failed commands without effect: bad parameters, no login, unknown
\* names, a full vault.
Reject ==
  /\ mode = "selected" /\ Ends
  /\ UNCHANGED <<pinSet, tries, store, revealed, keyState, listing>>

Next ==
  \/ PowerOff \/ PowerOn \/ Select \/ Deselect \/ SetPin \/ Verify
  \/ Put \/ PutAborted \/ Delete \/ Reveal \/ List
  \/ Keygen \/ KeygenAborted \/ Reject

Spec == Init /\ [][Next]_vars

-----------------------------------------------------------------------------
(* Properties.                                                             *)

Secrets == 1 .. MaxSecrets
Entries == [kind: {"hmac", "bearer"}, name: Names, secret: Secrets]

\* Type correctness; an occupied slot holds a whole entry, a free one nothing.
TypeOK ==
  /\ pinSet \in BOOLEAN /\ tries \in 0 .. PinTries /\ validated \in BOOLEAN
  /\ slots \in [Index -> Entries \cup {Empty}]
  /\ bindingKeyGenerated \in BOOLEAN
  /\ candidateKey \in 0 .. MaxKeys /\ bindingPublicKey \in 0 .. MaxKeys
  /\ binding \in 0 .. MaxKeys /\ keys \in 0 .. MaxKeys
  /\ mode \in {"off", "idle", "selected"}
  /\ imported \in 0 .. MaxSecrets /\ hmacSecrets \subseteq 1 .. imported
  /\ revealed \subseteq 1 .. imported
  /\ login \in BOOLEAN
  /\ listing \in [state: {"none", "half", "done"}, steady: SUBSET (1 .. imported),
                  pages: [1 .. 2 -> SUBSET (1 .. imported)]]

\* A secret imported as an HMAC key is never read back, whatever was deleted,
\* imported again under its name, or torn in between.
HmacNeverRevealed == revealed \cap hmacSecrets = {}

\* A two-page listing shows every entry that was there all along, exactly once,
\* although entries come and go between the pages: entries never move.
ListingComplete ==
  listing.state = "done" =>
    \A s \in listing.steady :
      (s \in listing.pages[1]) # (s \in listing.pages[2])

\* Flag, cached public key, attestation and key object agree, and the flag
\* never appears without them, wherever KEYGEN is torn.
KeyPublished ==
  IF bindingKeyGenerated
  THEN bindingPublicKey # 0 /\ binding = bindingPublicKey
         /\ candidateKey = bindingPublicKey
  ELSE bindingPublicKey = 0 /\ binding = 0

\* The published key never changes (there is no re-key command).
KeyIsForever ==
  [][bindingKeyGenerated =>
       UNCHANGED <<bindingKeyGenerated, candidateKey, bindingPublicKey, binding>>]_vars

\* Entries and keys change, and secrets are read back, only after the owner's
\* PIN was verified in this very selection, with no reset or wrong PIN since.
OwnerOnly ==
  [][slots' # slots \/ revealed' # revealed \/ keys' # keys => login]_vars

\* Once the tries are used up nothing ever changes or leaves the vault again:
\* there is no unblocking command.
LockedOut ==
  [][tries = 0 => UNCHANGED <<tries, slots, revealed, keys>>]_vars

\* The vault implements VaultStore.
Entry(i) == [kind |-> slots[i].kind, name |-> slots[i].name,
             secret |-> slots[i].secret]

Store == INSTANCE VaultStore
           WITH Capacity <- Slots, store <- {Entry(i) : i \in Occupied},
                imported <- 1 .. imported

ImplementsStore == Store!Spec

=============================================================================
