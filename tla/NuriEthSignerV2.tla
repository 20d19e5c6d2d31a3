--------------------------- MODULE NuriEthSignerV2 ---------------------------
(***************************************************************************)
(* The Ethereum signer applet, card/eth2/NuriEthSignerV2.java: one key     *)
(* generated on the card, behind a PIN that a PUK can unblock.             *)
(*                                                                         *)
(* One action is one APDU handler, run to its end or to the power loss or  *)
(* platform exception that ends it; CHANGE_PIN, which checks the new PIN   *)
(* after it has committed it, is two.  A PIN is named by how many were     *)
(* installed before it; a guess is right when it names the PIN in force.   *)
(***************************************************************************)
EXTENDS Naturals

CONSTANTS
  PinTries,  \* OwnerPIN try limit of the PIN (5 in the code)
  PukTries,  \* and of the PUK (3 in the code)
  MaxPins,   \* bound of the model: PINs installed in one behaviour
  MaxKeys    \* bound of the model: keys generated in one behaviour

ASSUME TriesAssumption == PinTries \in Nat \ {0} /\ PukTries \in Nat \ {0}
ASSUME BoundsAssumption == MaxPins \in Nat \ {0} /\ MaxKeys \in Nat

VARIABLES
  \* Persistent memory.  pin = 0: none set; priv = 0: cleared or never written.
  pinRequired, pin, pinTries, pukSet, pukTries,
  keyed, priv, pubCache, binding,
  \* "off", "idle" (not the selected applet), "selected", or "confirming": in a
  \* CHANGE_PIN that has committed the new PIN and not yet checked it
  mode,
  \* The validated flag of the PIN, which is transient.
  validated,
  \* History, read by no guard: the PIN the host proved to know in this
  \* selection (0: none), keys generated, public keys and signatures it got.
  shown, keys, known, signatures

config == pinRequired
pinState == <<pin, pinTries>>
pukState == <<pukSet, pukTries>>
session == <<mode, validated, shown>>
keyState == <<keyed, priv, pubCache, binding, keys>>
answers == <<known, signatures>>
vars == <<pinRequired, pin, pinTries, pukSet, pukTries, keyed, priv, pubCache,
          binding, mode, validated, shown, keys, known, signatures>>

\* personalize: a public demo, or a mandatory PIN that is or is not set yet.
Init ==
  /\ \/ pinRequired = TRUE /\ pin \in {0, 1}
     \/ pinRequired = FALSE /\ pin = 0
  /\ pinTries = PinTries /\ pukSet = FALSE /\ pukTries = PukTries
  /\ keyed = FALSE /\ priv = 0 /\ pubCache = 0 /\ binding = 0 /\ keys = 0
  /\ mode = "idle" /\ validated = FALSE /\ shown = 0
  /\ known = {} /\ signatures = {}

-----------------------------------------------------------------------------
(* Selection and power.                                                    *)

LoggedOut == validated' = FALSE /\ shown' = 0
LoggedIn(p) == validated' = TRUE /\ shown' = p

PowerLoss == mode' = "off" /\ LoggedOut

\* How a command may end once its work is done or undone: normally, by an
\* exception (which leaves the PIN state), or by a power loss.
Ends == PowerLoss \/ UNCHANGED session

PowerOff ==
  /\ mode # "off" /\ PowerLoss
  /\ UNCHANGED <<config, pinState, pukState, keyState, answers>>

PowerOn ==
  /\ mode = "off" /\ mode' = "idle"
  /\ UNCHANGED <<config, pinState, pukState, keyState, answers, validated, shown>>

Select ==
  /\ mode \in {"idle", "selected"} /\ mode' = "selected" /\ LoggedOut
  /\ UNCHANGED <<config, pinState, pukState, keyState, answers>>

Deselect ==
  /\ mode = "selected" /\ mode' = "idle" /\ LoggedOut
  /\ UNCHANGED <<config, pinState, pukState, keyState, answers>>

-----------------------------------------------------------------------------
(* PIN and PUK.                                                            *)

\* A wrong PIN, or a power loss after OwnerPIN.check spent the try.
WrongPin ==
  /\ pin > 0 /\ pinTries > 0 /\ pinTries' = pinTries - 1
  /\ \/ LoggedOut /\ UNCHANGED mode
     \/ PowerLoss
  /\ UNCHANGED <<pin, pukState>>

\* SET_PIN, once, with or without a PUK.  One transaction covers PIN, PUK and
\* both flags; the PIN is then reset, so setting it is not a login.
SetPin ==
  /\ mode = "selected" /\ pin = 0
  /\ \/ /\ pin' = 1 /\ pinTries' = PinTries
        /\ pukTries' = PukTries /\ pukSet' \in BOOLEAN
     \/ UNCHANGED <<pinState, pukState>>
  /\ LoggedOut
  /\ mode' \in {mode, "off"}
  /\ UNCHANGED <<config, keyState, answers>>

VerifyPin ==
  /\ mode = "selected"
  /\ \/ WrongPin
     \/ /\ pin > 0 /\ pinTries > 0 /\ pinTries' = PinTries
        /\ \/ LoggedIn(pin) /\ UNCHANGED mode
           \/ PowerLoss
        /\ UNCHANGED <<pin, pukState>>
  /\ UNCHANGED <<config, keyState, answers>>

\* CHANGE_PIN up to its commit.  The check of the old PIN stands whatever
\* follows; the new value and fresh tries are installed in a transaction, which
\* also ends the login.  An aborted transaction leaves the login of the check or
\* of none.
ChangePin ==
  /\ mode = "selected"
  /\ \/ WrongPin
     \/ /\ pin > 0 /\ pinTries > 0 /\ pinTries' = PinTries
        /\ \/ /\ pin < MaxPins /\ pin' = pin + 1
              /\ LoggedOut /\ mode' = "confirming"
           \/ /\ pin' = pin
              /\ \/ LoggedIn(pin) /\ UNCHANGED mode
                 \/ LoggedOut /\ UNCHANGED mode
                 \/ PowerLoss
        /\ UNCHANGED pukState
  /\ UNCHANGED <<config, keyState, answers>>

\* The end of CHANGE_PIN: the new PIN is checked, so that the session is logged
\* in with it.  A power loss inside the check costs the new PIN a try.
ConfirmPin ==
  /\ mode = "confirming"
  /\ \/ LoggedIn(pin) /\ mode' = "selected" /\ pinTries' = PinTries
     \/ PowerLoss /\ pinTries' = pinTries - 1
  /\ UNCHANGED <<config, pin, pukState, keyState, answers>>

\* Mutant: the tries are restored before the new PIN is installed, outside its
\* transaction.
UnblockPin_Early ==
  /\ mode = "selected" /\ pukSet /\ pukTries > 0
  /\ pukTries' = PukTries /\ pinTries' = PinTries
  /\ \/ pin < MaxPins /\ pin' = pin + 1 /\ LoggedOut /\ UNCHANGED mode
     \/ PowerLoss /\ UNCHANGED pin
  /\ UNCHANGED <<config, pukSet, keyState, answers>>

\* Mutant: a login outlives the PIN it was made with.
UnblockPin_KeepsLogin ==
  /\ mode = "selected" /\ pukSet /\ pukTries > 0
  /\ pukTries' = PukTries /\ pinTries' = PinTries
  /\ pin < MaxPins /\ pin' = pin + 1
  /\ UNCHANGED <<config, pukSet, keyState, answers, session>>

\* UNBLOCK_PIN.  A wrong PUK costs a PUK try and leaves the PIN alone; the right
\* one lets a single transaction install the new PIN with fresh tries, which
\* also ends a login.  A tear leaves the old PIN as blocked as it was.
UnblockPin ==
  /\ mode = "selected" /\ pukSet /\ pukTries > 0
  /\ \/ /\ pukTries' = pukTries - 1 /\ Ends /\ UNCHANGED pinState
     \/ /\ pukTries' = PukTries
        /\ \/ /\ pin < MaxPins /\ pin' = pin + 1 /\ pinTries' = PinTries
              /\ LoggedOut /\ mode' \in {mode, "off"}
           \/ /\ UNCHANGED pinState
              /\ \/ LoggedOut /\ UNCHANGED mode
                 \/ Ends
  /\ UNCHANGED <<config, pukSet, keyState, answers>>

-----------------------------------------------------------------------------
(* The key.                                                                *)

\* Mutant: a PIN that is mandatory but not set yet does not count.
MayUseKey_FailsOpen == mode = "selected" /\ (pin = 0 \/ validated)

\* requirePin
MayUseKey ==
  /\ mode = "selected"
  /\ IF pinRequired \/ pin > 0 THEN pin > 0 /\ validated ELSE TRUE

\* Mutant: the transaction is left out, and the flag is written first.
Keygen_Torn ==
  /\ MayUseKey /\ ~keyed /\ keys < MaxKeys
  /\ keys' = keys + 1 /\ priv' = keys' /\ keyed' = TRUE
  /\ \/ pubCache' = keys' /\ binding' = keys' /\ UNCHANGED session
     \/ PowerLoss /\ UNCHANGED <<pubCache, binding>>
  /\ UNCHANGED <<config, pinState, pukState, answers>>

\* KEYGEN: generate the candidate in place, attest it, publish cached public
\* key, attestation and flag in one transaction, answer with the public key.
Keygen ==
  /\ MayUseKey /\ ~keyed /\ keys < MaxKeys
  /\ keys' = keys + 1 /\ priv' = keys' /\ pubCache' = keys' /\ binding' = keys'
  /\ keyed' = TRUE
  /\ known' \in {known, known \cup {keys'}}
  /\ Ends
  /\ UNCHANGED <<config, pinState, pukState, signatures>>

\* KEYGEN that dies before its commit: an exception clears the candidate, a
\* power loss leaves the key object as it was or with the candidate.
KeygenAborted ==
  /\ MayUseKey /\ ~keyed /\ keys < MaxKeys
  /\ keys' = keys + 1
  /\ \/ priv' = 0 /\ UNCHANGED session
     \/ priv' \in {priv, keys'} /\ PowerLoss
  /\ UNCHANGED <<config, pinState, pukState, keyed, pubCache, binding, answers>>

\* GET_PUBKEY, and the key inside GET_ATTESTATION, need no PIN.
GetPublicKey ==
  /\ mode = "selected" /\ keyed
  /\ known' = known \cup {pubCache}
  /\ UNCHANGED <<config, pinState, pukState, keyState, session, signatures>>

\* SIGN answers with the signature and the cached public key.
Sign ==
  /\ MayUseKey /\ keyed
  /\ signatures' = signatures \cup
       {[signer |-> priv, key |-> pubCache, pin |-> pin, shown |-> shown]}
  /\ Ends
  /\ UNCHANGED <<config, pinState, pukState, keyState, known>>

\* The catch clause of process after a refused command; a refused KEYGEN, here
\* one without login, clears the key object of an applet that has no key yet.
Reject ==
  /\ mode = "selected"
  /\ \/ UNCHANGED priv
     \/ ~keyed /\ priv' = 0
  /\ Ends
  /\ UNCHANGED <<config, pinState, pukState, keyed, pubCache, binding, keys,
                 answers>>

Next ==
  \/ PowerOff \/ PowerOn \/ Select \/ Deselect
  \/ SetPin \/ VerifyPin \/ ChangePin \/ ConfirmPin \/ UnblockPin
  \/ Keygen \/ KeygenAborted \/ GetPublicKey \/ Sign \/ Reject

Spec == Init /\ [][Next]_vars

-----------------------------------------------------------------------------
(* Properties.                                                             *)

Signature == [signer: 0 .. MaxKeys, key: 0 .. MaxKeys,
              pin: 0 .. MaxPins, shown: 0 .. MaxPins]

\* Type correctness; there is no PUK without a PIN, and no try of an absent
\* PIN or PUK is spent.
TypeOK ==
  /\ pinRequired \in BOOLEAN /\ pin \in 0 .. MaxPins /\ pinTries \in 0 .. PinTries
  /\ pukSet \in BOOLEAN /\ pukTries \in 0 .. PukTries
  /\ keyed \in BOOLEAN /\ priv \in 0 .. MaxKeys /\ pubCache \in 0 .. MaxKeys
  /\ binding \in 0 .. MaxKeys /\ keys \in 0 .. MaxKeys
  /\ mode \in {"off", "idle", "selected", "confirming"} /\ validated \in BOOLEAN
  /\ shown \in 0 .. MaxPins
  /\ known \subseteq 1 .. MaxKeys /\ signatures \subseteq Signature
  /\ pin = 0 => ~pukSet /\ pinTries = PinTries
  /\ ~pukSet => pukTries = PukTries

\* A session is logged in with the PIN in force, presented in this selection:
\* no reset, reselection, CHANGE_PIN or UNBLOCK_PIN leaves a login of an
\* earlier PIN behind.
LoginIsCurrent == validated => shown = pin /\ pin > 0

\* Every signature the host ever got was made either for who had presented the
\* PIN in force at that time, or by a public demo whose PIN was not set.
SignedByOwner ==
  \A s \in signatures : IF s.pin = 0 THEN ~pinRequired ELSE s.shown = s.pin

\* The host only ever sees one key: every public key and every signature it got
\* is of the key that is published now, with its attestation, whatever KEYGEN
\* was torn or failed before.
OneIdentity ==
  /\ keyed => pubCache = priv /\ binding = priv /\ priv > 0
  /\ ~keyed => known = {} /\ signatures = {} /\ pubCache = 0 /\ binding = 0
  /\ known \subseteq {priv}
  /\ \A s \in signatures : s.signer = priv /\ s.key = priv

\* A blocked PIN gets tries back only in the step that installs a new PIN, with
\* the right PUK (the comment on UNBLOCK: a tear leaves the "old PIN, still
\* blocked").
OnlyPukUnblocks ==
  [][pin > 0 /\ pinTries = 0 /\ pinTries' > 0 =>
       pin' = pin + 1 /\ pukSet /\ pukTries > 0 /\ pukTries' = PukTries]_vars

\* With the PIN's and the PUK's tries used up (or no PUK) the card never signs,
\* makes a key or accepts a PIN again.
DeadForever ==
  [][pin > 0 /\ pinTries = 0 /\ (~pukSet \/ pukTries = 0) =>
       UNCHANGED <<pinState, pukState, keys, signatures>>]_vars

\* PIN and PUK each are a secret behind a retry counter; the PUK is never
\* replaced.
Pin == INSTANCE RetryCounter
         WITH Limit <- PinTries, Replaceable <- TRUE,
              version <- pin, tries <- pinTries
Puk == INSTANCE RetryCounter
         WITH Limit <- PukTries, Replaceable <- FALSE,
              version <- IF pukSet THEN 1 ELSE 0, tries <- pukTries

ImplementsPin == Pin!Spec
ImplementsPuk == Puk!Spec
ImplementsCounters == ImplementsPin /\ ImplementsPuk

=============================================================================
