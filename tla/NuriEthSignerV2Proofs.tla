----------------------- MODULE NuriEthSignerV2Proofs -----------------------
(***************************************************************************)
(* What holds of the Ethereum signer for every number of tries, PINs and   *)
(* key candidates.                                                         *)
(*                                                                         *)
(* The four invariants hold up each other: a signature is made under a     *)
(* login, which is of the PIN in force (LoginIsCurrent), and by a key that *)
(* no aborted KEYGEN can replace once it is published (OneIdentity).       *)
(***************************************************************************)
EXTENDS NuriEthSignerV2, TLAPS

\* A session is logged in only while the PIN has tries left, and a new PIN that
\* waits for its check has them all.
LiveLogin ==
  /\ validated => pinTries > 0
  /\ mode = "confirming" => pin > 0 /\ pinTries = PinTries

Inv == TypeOK /\ LoginIsCurrent /\ LiveLogin /\ SignedByOwner /\ OneIdentity

\* A personalized card satisfies the invariant.
LEMMA InitInv == Init => Inv
<1> SUFFICES ASSUME Init PROVE Inv
  OBVIOUS
<1>0. 0 \in 0 .. MaxPins /\ 0 \in 0 .. MaxKeys
  BY BoundsAssumption
<1>1. pin \in 0 .. MaxPins /\ pinTries \in 0 .. PinTries /\ pukTries \in 0 .. PukTries
  BY TriesAssumption, BoundsAssumption DEF Init
<1>2. TypeOK
  BY <1>1, <1>0 DEF Init, TypeOK
<1> QED
  BY <1>2 DEF Init, Inv, LoginIsCurrent, LiveLogin, SignedByOwner, OneIdentity

\* Every command preserves the types.
LEMMA TypeStep ==
  ASSUME TypeOK, LiveLogin, OneIdentity, [Next]_vars
  PROVE  TypeOK'
<1> USE DEF TypeOK
<1>0. /\ {0, 1} \subseteq 0 .. MaxPins /\ 0 \in 0 .. MaxKeys
      /\ PinTries \in 0 .. PinTries /\ PukTries \in 0 .. PukTries
  BY TriesAssumption, BoundsAssumption
<1>1. CASE PowerOff
  BY <1>1, <1>0
  DEF PowerOff, PowerLoss, LoggedOut, pinState, pukState, config, keyState,
      answers
<1>2. CASE PowerOn
  BY <1>2, <1>0 DEF PowerOn, pinState, pukState, config, keyState, answers
<1>3. CASE Select
  BY <1>3, <1>0
  DEF Select, LoggedOut, pinState, pukState, config, keyState, answers
<1>4. CASE Deselect
  BY <1>4, <1>0
  DEF Deselect, LoggedOut, pinState, pukState, config, keyState, answers
<1>5. CASE SetPin
  <2>1. /\ pin' \in 0 .. MaxPins /\ pinTries' \in 0 .. PinTries
        /\ pukSet' \in BOOLEAN /\ pukTries' \in 0 .. PukTries
    BY <1>5, <1>0, TriesAssumption, BoundsAssumption
    DEF SetPin, LoggedOut, pinState, pukState, config, keyState, answers
  <2>2. mode' \in {"off", "idle", "selected", "confirming"} /\ validated' \in BOOLEAN
    BY <1>5
    DEF SetPin, LoggedOut, pinState, pukState, config, keyState, answers
  <2>3. shown' \in 0 .. MaxPins
    BY <1>5, <1>0, <2>1
    DEF SetPin, LoggedOut, pinState, pukState, config, keyState, answers
  <2>4. /\ pin' = 0 => ~pukSet' /\ pinTries' = PinTries
        /\ ~pukSet' => pukTries' = PukTries
    BY <1>5
    DEF SetPin, LoggedOut, pinState, pukState, config, keyState, answers
  <2> QED
    BY <1>5, <2>1, <2>2, <2>3, <2>4 DEF SetPin, config, keyState, answers
<1>6. CASE VerifyPin
  <2>1. /\ pin' \in 0 .. MaxPins /\ pinTries' \in 0 .. PinTries
        /\ pukSet' \in BOOLEAN /\ pukTries' \in 0 .. PukTries
    BY <1>6, <1>0, TriesAssumption, BoundsAssumption
    DEF VerifyPin, WrongPin, LoggedIn, LoggedOut, PowerLoss, pukState,
        config, keyState, answers
  <2>2. mode' \in {"off", "idle", "selected", "confirming"} /\ validated' \in BOOLEAN
    BY <1>6
    DEF VerifyPin, WrongPin, LoggedIn, LoggedOut, PowerLoss, pukState,
        config, keyState, answers
  <2>3. shown' \in 0 .. MaxPins
    BY <1>6, <1>0, <2>1
    DEF VerifyPin, WrongPin, LoggedIn, LoggedOut, PowerLoss, pukState,
        config, keyState, answers
  <2>4. /\ pin' = 0 => ~pukSet' /\ pinTries' = PinTries
        /\ ~pukSet' => pukTries' = PukTries
    BY <1>6
    DEF VerifyPin, WrongPin, LoggedIn, LoggedOut, PowerLoss, pukState,
        config, keyState, answers
  <2> QED
    BY <1>6, <2>1, <2>2, <2>3, <2>4 DEF VerifyPin, config, keyState, answers
<1>7. CASE ChangePin
  <2>1. /\ pin' \in 0 .. MaxPins /\ pinTries' \in 0 .. PinTries
        /\ pukSet' \in BOOLEAN /\ pukTries' \in 0 .. PukTries
    BY <1>7, <1>0, TriesAssumption, BoundsAssumption
    DEF ChangePin, WrongPin, LoggedIn, LoggedOut, PowerLoss, pukState,
        config, keyState, answers
  <2>2. mode' \in {"off", "idle", "selected", "confirming"} /\ validated' \in BOOLEAN
    BY <1>7
    DEF ChangePin, WrongPin, LoggedIn, LoggedOut, PowerLoss, pukState,
        config, keyState, answers
  <2>3. shown' \in 0 .. MaxPins
    BY <1>7, <1>0, <2>1
    DEF ChangePin, WrongPin, LoggedIn, LoggedOut, PowerLoss, pukState,
        config, keyState, answers
  <2>4. /\ pin' = 0 => ~pukSet' /\ pinTries' = PinTries
        /\ ~pukSet' => pukTries' = PukTries
    BY <1>7
    DEF ChangePin, WrongPin, LoggedIn, LoggedOut, PowerLoss, pukState,
        config, keyState, answers
  <2> QED
    BY <1>7, <2>1, <2>2, <2>3, <2>4 DEF ChangePin, config, keyState, answers
<1>8. CASE UnblockPin
  <2>1. /\ pin' \in 0 .. MaxPins /\ pinTries' \in 0 .. PinTries
        /\ pukSet' \in BOOLEAN /\ pukTries' \in 0 .. PukTries
    BY <1>8, <1>0, TriesAssumption, BoundsAssumption
    DEF UnblockPin, Ends, PowerLoss, LoggedOut, session, pinState, config,
        keyState, answers
  <2>2. mode' \in {"off", "idle", "selected", "confirming"} /\ validated' \in BOOLEAN
    BY <1>8
    DEF UnblockPin, Ends, PowerLoss, LoggedOut, session, pinState, config,
        keyState, answers
  <2>3. shown' \in 0 .. MaxPins
    BY <1>8, <1>0, <2>1
    DEF UnblockPin, Ends, PowerLoss, LoggedOut, session, pinState, config,
        keyState, answers
  <2>4. /\ pin' = 0 => ~pukSet' /\ pinTries' = PinTries
        /\ ~pukSet' => pukTries' = PukTries
    BY <1>8
    DEF UnblockPin, Ends, PowerLoss, LoggedOut, session, pinState, config,
        keyState, answers
  <2> QED
    BY <1>8, <2>1, <2>2, <2>3, <2>4 DEF UnblockPin, config, keyState, answers
<1>9. CASE Keygen
  <2>1. keys' \in 1 .. MaxKeys
    BY <1>9, BoundsAssumption DEF Keygen
  <2>2. 1 .. MaxKeys \subseteq 0 .. MaxKeys
    OBVIOUS
  <2> QED
    BY <1>9, <1>0, <2>1, <2>2
    DEF Keygen, MayUseKey, Ends, PowerLoss, LoggedOut, session, pinState,
        pukState, config
<1>10. CASE KeygenAborted
  <2>1. keys' \in 0 .. MaxKeys
    BY <1>10, BoundsAssumption DEF KeygenAborted
  <2> QED
    BY <1>10, <1>0, <2>1
    DEF KeygenAborted, MayUseKey, Ends, PowerLoss, LoggedOut, session,
        pinState, pukState, answers, config
<1>11. CASE GetPublicKey
  <2>1. pubCache \in 1 .. MaxKeys
    BY <1>11, BoundsAssumption DEF GetPublicKey, OneIdentity
  <2> QED
    BY <1>11, <2>1
    DEF GetPublicKey, session, pinState, pukState, keyState, config
<1>12. CASE Sign
  <2>1. [signer |-> priv, key |-> pubCache, pin |-> pin, shown |-> shown]
          \in Signature
    BY DEF Signature
  <2>2. signatures' \subseteq Signature
    BY <1>12, <2>1 DEF Sign
  <2> QED
    BY <1>12, <1>0, <2>2
    DEF Sign, MayUseKey, Ends, PowerLoss, LoggedOut, session, pinState,
        pukState, keyState, config
<1>13. CASE Reject
  BY <1>13, <1>0
  DEF Reject, Ends, PowerLoss, LoggedOut, session, pinState, pukState,
      answers, config
<1>15. CASE ConfirmPin
  <2>1. pin' = pin /\ pin > 0 /\ pinTries' \in {PinTries, PinTries - 1}
    BY <1>15 DEF ConfirmPin, LiveLogin
  <2>2. pinTries' \in 0 .. PinTries
    BY <2>1, TriesAssumption
  <2>3. mode' \in {"off", "selected"} /\ validated' \in BOOLEAN /\ shown' \in 0 .. MaxPins
    BY <1>15, <1>0 DEF ConfirmPin, LoggedIn, LoggedOut, PowerLoss
  <2> QED
    BY <1>15, <2>1, <2>2, <2>3 DEF ConfirmPin, pukState, config, keyState, answers
<1>14. CASE UNCHANGED vars
  BY <1>14 DEF vars
<1> QED
  BY <1>1, <1>2, <1>3, <1>4, <1>5, <1>6, <1>7, <1>8, <1>9, <1>10, <1>11,
     <1>12, <1>13, <1>14, <1>15
  DEF Next

\* No command leaves a login of a PIN that is no longer in force.
LEMMA LoginStep ==
  ASSUME TypeOK, LoginIsCurrent, LiveLogin, [Next]_vars
  PROVE  LoginIsCurrent'
<1> USE DEF TypeOK, LoginIsCurrent
<1>1. CASE PowerOff
  BY <1>1
  DEF PowerOff, PowerLoss, LoggedOut, pinState, pukState, config, keyState,
      answers
<1>2. CASE PowerOn
  BY <1>2 DEF PowerOn, pinState, pukState, config, keyState, answers
<1>3. CASE Select
  BY <1>3 DEF Select, LoggedOut, pinState, pukState, config, keyState, answers
<1>4. CASE Deselect
  BY <1>4
  DEF Deselect, LoggedOut, pinState, pukState, config, keyState, answers
<1>5. CASE SetPin
  BY <1>5 DEF SetPin, LoggedOut, pinState, pukState, config, keyState, answers
<1>6. CASE VerifyPin
  BY <1>6
  DEF VerifyPin, WrongPin, LoggedIn, LoggedOut, PowerLoss, pukState, config,
      keyState, answers
<1>7. CASE ChangePin
  BY <1>7
  DEF ChangePin, WrongPin, LoggedIn, LoggedOut, PowerLoss, pukState, config,
      keyState, answers
<1>8. CASE UnblockPin
  BY <1>8
  DEF UnblockPin, Ends, PowerLoss, LoggedOut, session, pinState, config,
      keyState, answers
<1>9. CASE Keygen
  BY <1>9
  DEF Keygen, MayUseKey, Ends, PowerLoss, LoggedOut, session, pinState,
      pukState, config
<1>10. CASE KeygenAborted
  BY <1>10
  DEF KeygenAborted, MayUseKey, Ends, PowerLoss, LoggedOut, session,
      pinState, pukState, answers, config
<1>11. CASE GetPublicKey
  BY <1>11 DEF GetPublicKey, session, pinState, pukState, keyState, config
<1>12. CASE Sign
  BY <1>12
  DEF Sign, MayUseKey, Ends, PowerLoss, LoggedOut, session, pinState,
      pukState, keyState, config
<1>13. CASE Reject
  BY <1>13
  DEF Reject, Ends, PowerLoss, LoggedOut, session, pinState, pukState,
      answers, config
<1>15. CASE ConfirmPin
  BY <1>15
  DEF ConfirmPin, LiveLogin, LoggedIn, LoggedOut, PowerLoss, pukState, config,
      keyState, answers
<1>14. CASE UNCHANGED vars
  BY <1>14 DEF vars
<1> QED
  BY <1>1, <1>2, <1>3, <1>4, <1>5, <1>6, <1>7, <1>8, <1>9, <1>10, <1>11,
     <1>12, <1>13, <1>14, <1>15
  DEF Next

\* The wrong PIN that spends the last try ends a login.
LEMMA LiveStep ==
  ASSUME TypeOK, LiveLogin, [Next]_vars
  PROVE  LiveLogin'
<1> USE TriesAssumption DEF TypeOK, LiveLogin
<1>1. CASE PowerOff
  BY <1>1
  DEF PowerOff, PowerLoss, LoggedOut, pinState, pukState, config, keyState,
      answers
<1>2. CASE PowerOn
  BY <1>2 DEF PowerOn, pinState, pukState, config, keyState, answers
<1>3. CASE Select
  BY <1>3 DEF Select, LoggedOut, pinState, pukState, config, keyState, answers
<1>4. CASE Deselect
  BY <1>4
  DEF Deselect, LoggedOut, pinState, pukState, config, keyState, answers
<1>5. CASE SetPin
  BY <1>5 DEF SetPin, LoggedOut, pinState, pukState, config, keyState, answers
<1>6. CASE VerifyPin
  BY <1>6
  DEF VerifyPin, WrongPin, LoggedIn, LoggedOut, PowerLoss, pukState, config,
      keyState, answers
<1>7. CASE ChangePin
  BY <1>7
  DEF ChangePin, WrongPin, LoggedIn, LoggedOut, PowerLoss, pukState, config,
      keyState, answers
<1>8. CASE UnblockPin
  BY <1>8
  DEF UnblockPin, Ends, PowerLoss, LoggedOut, session, pinState, config,
      keyState, answers
<1>9. CASE Keygen
  BY <1>9
  DEF Keygen, MayUseKey, Ends, PowerLoss, LoggedOut, session, pinState,
      pukState, config
<1>10. CASE KeygenAborted
  BY <1>10
  DEF KeygenAborted, MayUseKey, Ends, PowerLoss, LoggedOut, session,
      pinState, pukState, answers, config
<1>11. CASE GetPublicKey
  BY <1>11 DEF GetPublicKey, session, pinState, pukState, keyState, config
<1>12. CASE Sign
  BY <1>12
  DEF Sign, MayUseKey, Ends, PowerLoss, LoggedOut, session, pinState,
      pukState, keyState, config
<1>13. CASE Reject
  BY <1>13
  DEF Reject, Ends, PowerLoss, LoggedOut, session, pinState, pukState,
      answers, config
<1>15. CASE ConfirmPin
  BY <1>15
  DEF ConfirmPin, LoggedIn, LoggedOut, PowerLoss, pukState, config, keyState,
      answers
<1>14. CASE UNCHANGED vars
  BY <1>14 DEF vars
<1> QED
  BY <1>1, <1>2, <1>3, <1>4, <1>5, <1>6, <1>7, <1>8, <1>9, <1>10, <1>11,
     <1>12, <1>13, <1>14, <1>15
  DEF Next

\* SIGN is the only command that adds a signature, and it is gated.
LEMMA SignedStep ==
  ASSUME TypeOK, LoginIsCurrent, SignedByOwner, [Next]_vars
  PROVE  SignedByOwner'
<1> USE DEF SignedByOwner
<1>1. CASE PowerOff
  BY <1>1
  DEF PowerOff, PowerLoss, LoggedOut, pinState, pukState, config, keyState,
      answers
<1>2. CASE PowerOn
  BY <1>2 DEF PowerOn, pinState, pukState, config, keyState, answers
<1>3. CASE Select
  BY <1>3 DEF Select, LoggedOut, pinState, pukState, config, keyState, answers
<1>4. CASE Deselect
  BY <1>4
  DEF Deselect, LoggedOut, pinState, pukState, config, keyState, answers
<1>5. CASE SetPin
  BY <1>5 DEF SetPin, LoggedOut, pinState, pukState, config, keyState, answers
<1>6. CASE VerifyPin
  BY <1>6
  DEF VerifyPin, WrongPin, LoggedIn, LoggedOut, PowerLoss, pukState, config,
      keyState, answers
<1>7. CASE ChangePin
  BY <1>7
  DEF ChangePin, WrongPin, LoggedIn, LoggedOut, PowerLoss, pukState, config,
      keyState, answers
<1>8. CASE UnblockPin
  BY <1>8
  DEF UnblockPin, Ends, PowerLoss, LoggedOut, session, pinState, config,
      keyState, answers
<1>9. CASE Keygen
  BY <1>9
  DEF Keygen, MayUseKey, Ends, PowerLoss, LoggedOut, session, pinState,
      pukState, config
<1>10. CASE KeygenAborted
  BY <1>10
  DEF KeygenAborted, MayUseKey, Ends, PowerLoss, LoggedOut, session,
      pinState, pukState, answers, config
<1>11. CASE GetPublicKey
  BY <1>11 DEF GetPublicKey, session, pinState, pukState, keyState, config
<1>12. CASE Sign
  BY <1>12
  DEF Sign, TypeOK, LoginIsCurrent, MayUseKey, Ends, PowerLoss, LoggedOut,
      session, pinState, pukState, keyState, config
<1>13. CASE Reject
  BY <1>13
  DEF Reject, Ends, PowerLoss, LoggedOut, session, pinState, pukState,
      answers, config
<1>15. CASE ConfirmPin
  BY <1>15
  DEF ConfirmPin, LoggedIn, LoggedOut, PowerLoss, pukState, config, keyState,
      answers
<1>14. CASE UNCHANGED vars
  BY <1>14 DEF vars
<1> QED
  BY <1>1, <1>2, <1>3, <1>4, <1>5, <1>6, <1>7, <1>8, <1>9, <1>10, <1>11,
     <1>12, <1>13, <1>14, <1>15
  DEF Next

\* Only an applet without a key writes its key object, and nobody has seen a
\* key of it by then.
LEMMA IdentityStep ==
  ASSUME TypeOK, OneIdentity, [Next]_vars
  PROVE  OneIdentity'
<1> USE DEF OneIdentity
<1>1. CASE PowerOff
  BY <1>1
  DEF PowerOff, PowerLoss, LoggedOut, pinState, pukState, config, keyState,
      answers
<1>2. CASE PowerOn
  BY <1>2 DEF PowerOn, pinState, pukState, config, keyState, answers
<1>3. CASE Select
  BY <1>3 DEF Select, LoggedOut, pinState, pukState, config, keyState, answers
<1>4. CASE Deselect
  BY <1>4
  DEF Deselect, LoggedOut, pinState, pukState, config, keyState, answers
<1>5. CASE SetPin
  BY <1>5 DEF SetPin, LoggedOut, pinState, pukState, config, keyState, answers
<1>6. CASE VerifyPin
  BY <1>6
  DEF VerifyPin, WrongPin, LoggedIn, LoggedOut, PowerLoss, pukState, config,
      keyState, answers
<1>7. CASE ChangePin
  BY <1>7
  DEF ChangePin, WrongPin, LoggedIn, LoggedOut, PowerLoss, pukState, config,
      keyState, answers
<1>8. CASE UnblockPin
  BY <1>8
  DEF UnblockPin, Ends, PowerLoss, LoggedOut, session, pinState, config,
      keyState, answers
<1>9. CASE Keygen
  BY <1>9
  DEF Keygen, TypeOK, MayUseKey, Ends, PowerLoss, LoggedOut, session,
      pinState, pukState, config
<1>10. CASE KeygenAborted
  BY <1>10
  DEF KeygenAborted, MayUseKey, Ends, PowerLoss, LoggedOut, session,
      pinState, pukState, answers, config
<1>11. CASE GetPublicKey
  BY <1>11 DEF GetPublicKey, session, pinState, pukState, keyState, config
<1>12. CASE Sign
  BY <1>12
  DEF Sign, MayUseKey, Ends, PowerLoss, LoggedOut, session, pinState,
      pukState, keyState, config
<1>13. CASE Reject
  BY <1>13
  DEF Reject, Ends, PowerLoss, LoggedOut, session, pinState, pukState,
      answers, config
<1>15. CASE ConfirmPin
  BY <1>15
  DEF ConfirmPin, LoggedIn, LoggedOut, PowerLoss, pukState, config, keyState,
      answers
<1>14. CASE UNCHANGED vars
  BY <1>14 DEF vars
<1> QED
  BY <1>1, <1>2, <1>3, <1>4, <1>5, <1>6, <1>7, <1>8, <1>9, <1>10, <1>11,
     <1>12, <1>13, <1>14, <1>15
  DEF Next

\* The invariant holds in every reachable state.
THEOREM Invariance == Spec => []Inv
<1>1. Inv /\ [Next]_vars => Inv'
  BY TypeStep, LoginStep, LiveStep, SignedStep, IdentityStep DEF Inv
<1> QED
  BY <1>1, InitInv, PTL DEF Spec

\* Types are correct, there is no PUK without a PIN, and tries are spent only
\* of a PIN or PUK that is set.
THEOREM TypeCorrect == Spec => []TypeOK
  BY Invariance, PTL DEF Inv

\* A login is always of the PIN in force, presented in this selection.
THEOREM LoginCurrent == Spec => []LoginIsCurrent
  BY Invariance, PTL DEF Inv

\* Every signature was authorized by the PIN in force, or made by a public demo.
THEOREM OwnerSigned == Spec => []SignedByOwner
  BY Invariance, PTL DEF Inv

\* The host only ever sees one key.
THEOREM SingleIdentity == Spec => []OneIdentity
  BY Invariance, PTL DEF Inv

\* Tries of a blocked PIN come back only with a new PIN and the right PUK.
THEOREM UnblockedByPuk == Spec => OnlyPukUnblocks
<1>1. ASSUME Inv, [Next]_vars, pin > 0, pinTries = 0, pinTries' > 0
      PROVE  pin' = pin + 1 /\ pukSet /\ pukTries > 0 /\ pukTries' = PukTries
  <2> USE TriesAssumption DEF Inv, TypeOK
  <2>1. CASE PowerOff
    BY <1>1, <2>1
    DEF PowerOff, PowerLoss, LoggedOut, pinState, pukState, config, keyState,
        answers
  <2>2. CASE PowerOn
    BY <1>1, <2>2 DEF PowerOn, pinState, pukState, config, keyState, answers
  <2>3. CASE Select
    BY <1>1, <2>3
    DEF Select, LoggedOut, pinState, pukState, config, keyState, answers
  <2>4. CASE Deselect
    BY <1>1, <2>4
    DEF Deselect, LoggedOut, pinState, pukState, config, keyState, answers
  <2>5. CASE SetPin
    BY <1>1, <2>5
    DEF SetPin, LoggedOut, pinState, pukState, config, keyState, answers
  <2>6. CASE VerifyPin
    BY <1>1, <2>6
    DEF VerifyPin, WrongPin, LoggedIn, LoggedOut, PowerLoss, pukState,
        config, keyState, answers
  <2>7. CASE ChangePin
    BY <1>1, <2>7
    DEF ChangePin, WrongPin, LoggedIn, LoggedOut, PowerLoss, pukState,
        config, keyState, answers
  <2>8. CASE UnblockPin
    BY <1>1, <2>8
    DEF UnblockPin, Ends, PowerLoss, LoggedOut, session, pinState, config,
        keyState, answers
  <2>9. CASE Keygen
    BY <1>1, <2>9
    DEF Keygen, MayUseKey, Ends, PowerLoss, LoggedOut, session, pinState,
        pukState, config
  <2>10. CASE KeygenAborted
    BY <1>1, <2>10
    DEF KeygenAborted, MayUseKey, Ends, PowerLoss, LoggedOut, session,
        pinState, pukState, answers, config
  <2>11. CASE GetPublicKey
    BY <1>1, <2>11
    DEF GetPublicKey, session, pinState, pukState, keyState, config
  <2>12. CASE Sign
    BY <1>1, <2>12
    DEF Sign, MayUseKey, Ends, PowerLoss, LoggedOut, session, pinState,
        pukState, keyState, config
  <2>13. CASE Reject
    BY <1>1, <2>13
    DEF Reject, Ends, PowerLoss, LoggedOut, session, pinState, pukState,
        answers, config
  <2>15. CASE ConfirmPin
    BY <1>1, <2>15, TriesAssumption
    DEF ConfirmPin, LiveLogin, LoggedIn, LoggedOut, PowerLoss, pukState, config,
        keyState, answers
  <2>14. CASE UNCHANGED vars
    BY <1>1, <2>14 DEF vars
  <2> QED
    BY <1>1, <2>1, <2>2, <2>3, <2>4, <2>5, <2>6, <2>7, <2>8, <2>9, <2>10,
       <2>11, <2>12, <2>13, <2>14, <2>15
    DEF Next
<1> QED
  BY <1>1, Invariance, PTL DEF Spec, OnlyPukUnblocks

\* With every try used up the card is dead for ever.
THEOREM Dead == Spec => DeadForever
<1>1. ASSUME Inv, [Next]_vars,
             pin > 0, pinTries = 0, ~pukSet \/ pukTries = 0
      PROVE  UNCHANGED <<pinState, pukState, keys, signatures>>
  <2> USE DEF pinState, pukState, Inv, LiveLogin, TypeOK
  <2>1. CASE PowerOff
    BY <1>1, <2>1
    DEF PowerOff, PowerLoss, LoggedOut, pinState, pukState, config, keyState,
        answers
  <2>2. CASE PowerOn
    BY <1>1, <2>2 DEF PowerOn, pinState, pukState, config, keyState, answers
  <2>3. CASE Select
    BY <1>1, <2>3
    DEF Select, LoggedOut, pinState, pukState, config, keyState, answers
  <2>4. CASE Deselect
    BY <1>1, <2>4
    DEF Deselect, LoggedOut, pinState, pukState, config, keyState, answers
  <2>5. CASE SetPin
    BY <1>1, <2>5
    DEF SetPin, LoggedOut, pinState, pukState, config, keyState, answers
  <2>6. CASE VerifyPin
    BY <1>1, <2>6
    DEF VerifyPin, WrongPin, LoggedIn, LoggedOut, PowerLoss, pukState,
        config, keyState, answers
  <2>7. CASE ChangePin
    BY <1>1, <2>7
    DEF ChangePin, WrongPin, LoggedIn, LoggedOut, PowerLoss, pukState,
        config, keyState, answers
  <2>8. CASE UnblockPin
    BY <1>1, <2>8
    DEF UnblockPin, Ends, PowerLoss, LoggedOut, session, pinState, config,
        keyState, answers
  <2>9. CASE Keygen
    BY <1>1, <2>9
    DEF Keygen, MayUseKey, Ends, PowerLoss, LoggedOut, session, pinState,
        pukState, config
  <2>10. CASE KeygenAborted
    BY <1>1, <2>10
    DEF KeygenAborted, MayUseKey, Ends, PowerLoss, LoggedOut, session,
        pinState, pukState, answers, config
  <2>11. CASE GetPublicKey
    BY <1>1, <2>11
    DEF GetPublicKey, session, pinState, pukState, keyState, config
  <2>12. CASE Sign
    BY <1>1, <2>12
    DEF Sign, MayUseKey, Ends, PowerLoss, LoggedOut, session, pinState,
        pukState, keyState, config
  <2>13. CASE Reject
    BY <1>1, <2>13
    DEF Reject, Ends, PowerLoss, LoggedOut, session, pinState, pukState,
        answers, config
  <2>15. CASE ConfirmPin
    BY <1>1, <2>15, TriesAssumption
    DEF ConfirmPin, LiveLogin, LoggedIn, LoggedOut, PowerLoss, pukState, config,
        keyState, answers
  <2>14. CASE UNCHANGED vars
    BY <1>1, <2>14 DEF vars
  <2> QED
    BY <1>1, <2>1, <2>2, <2>3, <2>4, <2>5, <2>6, <2>7, <2>8, <2>9, <2>10,
       <2>11, <2>12, <2>13, <2>14, <2>15
    DEF Next
<1> QED
  BY <1>1, Invariance, PTL DEF Spec, DeadForever

\* The PIN is a secret behind a retry counter.
THEOREM PinIsRetryCounter == Spec => ImplementsPin
<1>1. ASSUME Inv, [Next]_vars
      PROVE  [Pin!Next]_(Pin!vars)
  <2> USE DEF Inv, TypeOK, Pin!Next, Pin!Right, Pin!Wrong, Pin!Install, Pin!vars
  <2>1. CASE PowerOff
    BY <1>1, <2>1
    DEF PowerOff, PowerLoss, LoggedOut, pinState, pukState, config, keyState,
        answers
  <2>2. CASE PowerOn
    BY <1>1, <2>2 DEF PowerOn, pinState, pukState, config, keyState, answers
  <2>3. CASE Select
    BY <1>1, <2>3
    DEF Select, LoggedOut, pinState, pukState, config, keyState, answers
  <2>4. CASE Deselect
    BY <1>1, <2>4
    DEF Deselect, LoggedOut, pinState, pukState, config, keyState, answers
  <2>5. CASE SetPin
    BY <1>1, <2>5
    DEF SetPin, LoggedOut, pinState, pukState, config, keyState, answers
  <2>6. CASE VerifyPin
    BY <1>1, <2>6
    DEF VerifyPin, WrongPin, LoggedIn, LoggedOut, PowerLoss, pukState,
        config, keyState, answers
  <2>7. CASE ChangePin
    BY <1>1, <2>7
    DEF ChangePin, WrongPin, LoggedIn, LoggedOut, PowerLoss, pukState,
        config, keyState, answers
  <2>8. CASE UnblockPin
    BY <1>1, <2>8
    DEF UnblockPin, Ends, PowerLoss, LoggedOut, session, pinState, config,
        keyState, answers
  <2>9. CASE Keygen
    BY <1>1, <2>9
    DEF Keygen, MayUseKey, Ends, PowerLoss, LoggedOut, session, pinState,
        pukState, config
  <2>10. CASE KeygenAborted
    BY <1>1, <2>10
    DEF KeygenAborted, MayUseKey, Ends, PowerLoss, LoggedOut, session,
        pinState, pukState, answers, config
  <2>11. CASE GetPublicKey
    BY <1>1, <2>11
    DEF GetPublicKey, session, pinState, pukState, keyState, config
  <2>12. CASE Sign
    BY <1>1, <2>12
    DEF Sign, MayUseKey, Ends, PowerLoss, LoggedOut, session, pinState,
        pukState, keyState, config
  <2>13. CASE Reject
    BY <1>1, <2>13
    DEF Reject, Ends, PowerLoss, LoggedOut, session, pinState, pukState,
        answers, config
  <2>15. CASE ConfirmPin
    BY <1>1, <2>15, TriesAssumption
    DEF ConfirmPin, LiveLogin, LoggedIn, LoggedOut, PowerLoss, pukState, config,
        keyState, answers
  <2>14. CASE UNCHANGED vars
    BY <1>1, <2>14 DEF vars
  <2> QED
    BY <1>1, <2>1, <2>2, <2>3, <2>4, <2>5, <2>6, <2>7, <2>8, <2>9, <2>10,
       <2>11, <2>12, <2>13, <2>14, <2>15
    DEF Next
<1>2. Init => Pin!Init
  BY DEF Init, Pin!Init
<1> QED
  BY <1>1, <1>2, Invariance, PTL DEF Spec, ImplementsPin, Pin!Spec

\* The PUK is one too, and never replaced.
THEOREM PukIsRetryCounter == Spec => ImplementsPuk
<1>1. ASSUME TypeOK, [Next]_vars
      PROVE  [Puk!Next]_(Puk!vars)
  <2> USE DEF TypeOK, Puk!Next, Puk!Right, Puk!Wrong, Puk!Install, Puk!vars
  <2>1. CASE PowerOff
    BY <1>1, <2>1
    DEF PowerOff, PowerLoss, LoggedOut, pinState, pukState, config, keyState,
        answers
  <2>2. CASE PowerOn
    BY <1>1, <2>2 DEF PowerOn, pinState, pukState, config, keyState, answers
  <2>3. CASE Select
    BY <1>1, <2>3
    DEF Select, LoggedOut, pinState, pukState, config, keyState, answers
  <2>4. CASE Deselect
    BY <1>1, <2>4
    DEF Deselect, LoggedOut, pinState, pukState, config, keyState, answers
  <2>5. CASE SetPin
    BY <1>1, <2>5
    DEF SetPin, LoggedOut, pinState, pukState, config, keyState, answers
  <2>6. CASE VerifyPin
    BY <1>1, <2>6
    DEF VerifyPin, WrongPin, LoggedIn, LoggedOut, PowerLoss, pukState,
        config, keyState, answers
  <2>7. CASE ChangePin
    BY <1>1, <2>7
    DEF ChangePin, WrongPin, LoggedIn, LoggedOut, PowerLoss, pukState,
        config, keyState, answers
  <2>8. CASE UnblockPin
    BY <1>1, <2>8
    DEF UnblockPin, Ends, PowerLoss, LoggedOut, session, pinState, config,
        keyState, answers
  <2>9. CASE Keygen
    BY <1>1, <2>9
    DEF Keygen, MayUseKey, Ends, PowerLoss, LoggedOut, session, pinState,
        pukState, config
  <2>10. CASE KeygenAborted
    BY <1>1, <2>10
    DEF KeygenAborted, MayUseKey, Ends, PowerLoss, LoggedOut, session,
        pinState, pukState, answers, config
  <2>11. CASE GetPublicKey
    BY <1>1, <2>11
    DEF GetPublicKey, session, pinState, pukState, keyState, config
  <2>12. CASE Sign
    BY <1>1, <2>12
    DEF Sign, MayUseKey, Ends, PowerLoss, LoggedOut, session, pinState,
        pukState, keyState, config
  <2>13. CASE Reject
    BY <1>1, <2>13
    DEF Reject, Ends, PowerLoss, LoggedOut, session, pinState, pukState,
        answers, config
  <2>15. CASE ConfirmPin
    BY <1>1, <2>15, TriesAssumption
    DEF ConfirmPin, LiveLogin, LoggedIn, LoggedOut, PowerLoss, pukState, config,
        keyState, answers
  <2>14. CASE UNCHANGED vars
    BY <1>1, <2>14 DEF vars
  <2> QED
    BY <1>1, <2>1, <2>2, <2>3, <2>4, <2>5, <2>6, <2>7, <2>8, <2>9, <2>10,
       <2>11, <2>12, <2>13, <2>14, <2>15
    DEF Next
<1>2. Init => Puk!Init
  BY DEF Init, Puk!Init
<1> QED
  BY <1>1, <1>2, TypeCorrect, PTL DEF Spec, ImplementsPuk, Puk!Spec

\* Both counters, as one property of the applet.
THEOREM CountersImplemented == Spec => ImplementsCounters
  BY PinIsRetryCounter, PukIsRetryCounter DEF ImplementsCounters

=============================================================================
