---------------------------- MODULE MuSig2Proofs ----------------------------
(***************************************************************************)
(* Machine-checked proofs about the MuSig2 applet (for every try limit,    *)
(* counter width and number of draws) and about its host side (for every   *)
(* set of processes and cards, every try limit, bound and odd order):      *)
(*   1. the applet          2. the algebra of a round                      *)
(*   3. the bridges and scripts                                            *)
(***************************************************************************)
EXTENDS MuSig2Applet, CardBridge, TLAPS

-----------------------------------------------------------------------------
(* 1. The applet.                                                          *)

\* What the history variables say of a pending session: its scalars were drawn
\* before now and its trust is unbroken.
PendingInv ==
  /\ session.ready => /\ trust.pair
                      /\ pinRequired \/ pinSet => trust.auth
  /\ session.nonce <= drawn
  /\ \A p \in partials : p.pair <= drawn

\* A logged-in owner logged in during this selection, with tries left.
LoginInv == validated => pinSet /\ trust.auth /\ tries > 0 /\ mode = "selected"

\* The inductive invariant.
IInv ==
  /\ TypeOK
  /\ NonceUsedOnce
  /\ PartialsWellFounded
  /\ NoIncidentBetween
  /\ SessionLifetime
  /\ KeyPublished
  /\ GuessBudget
  /\ PendingInv
  /\ LoginInv

-----------------------------------------------------------------------------
(* Facts about the ingredients of the actions.                             *)

\* The counter increment stays within the token space.
LEMMA NextTokenType == TypeOK => NextToken \in Tokens
  BY CounterAssumption DEF TypeOK, Tokens, NextToken

\* An interrupted command leaves no session and no login behind.
LEMMA InterruptedClears ==
  Interrupted => /\ session' = NoSession /\ validated' = FALSE
                 /\ trust' = NoTrust
                 /\ mode' \in {mode, "off"}
                 /\ sessionCounter' \in {sessionCounter, 0}
  BY DEF Interrupted, Fail, PowerLoss

-----------------------------------------------------------------------------
(* The typing invariant.                                                   *)

\* The bounds are not empty.
LEMMA Bounds == /\ PinTries \in 0 .. PinTries
                /\ 0 \in 0 .. MaxDraws
                /\ 0 \in Tokens
  BY PinTriesAssumption, CounterAssumption, DrawsAssumption DEF Tokens

\* Nothing pending, nobody trusted, and both well typed.
LEMMA ClearedTypes ==
  NoSession \in Sessions /\ NoTrust \in [pair: BOOLEAN, auth: BOOLEAN]
  BY Bounds DEF NoSession, NoTrust, Sessions

LEMMA TypeInit == Init => TypeOK
<1> SUFFICES ASSUME Init PROVE TypeOK
  OBVIOUS
<1>1. pinRequired \in BOOLEAN /\ pinSet \in BOOLEAN
  BY DEF Init
<1>2. QED
  BY <1>1, Bounds, ClearedTypes DEF Init, TypeOK

LEMMA TypeNext == TypeOK /\ [Next]_vars => TypeOK'
<1> SUFFICES ASSUME TypeOK, [Next]_vars PROVE TypeOK'
  OBVIOUS
<1>0. NextToken \in Tokens
  BY NextTokenType
<1>1. NoSession \in Sessions /\ NoTrust \in [pair: BOOLEAN, auth: BOOLEAN]
  BY ClearedTypes
<1>2. 0 \in Tokens /\ PinTries \in 0 .. PinTries
  BY Bounds
<1>3. CASE PowerOff
  BY <1>1, <1>2, <1>3 DEF TypeOK, PowerOff, PowerLoss, persistent
<1>4. CASE PowerOn
  BY <1>4 DEF TypeOK, PowerOn, persistent
<1>5. CASE Select
  BY <1>1, <1>2, <1>5 DEF TypeOK, Select, Fail, persistent
<1>6. CASE Deselect
  BY <1>1, <1>2, <1>6 DEF TypeOK, Deselect, Fail, persistent
<1>7. CASE Verify
  <2>1. tries' \in 0 .. PinTries /\ wrong' \in Nat
    BY <1>2, <1>7, PinTriesAssumption DEF TypeOK, Verify
  <2>2. /\ mode' \in {mode, "off"} /\ validated' \in BOOLEAN
        /\ sessionCounter' \in {sessionCounter, 0}
        /\ session' \in {session, NoSession}
        /\ trust' \in {NoTrust, [trust EXCEPT !.auth = TRUE]}
    BY <1>7, InterruptedClears DEF Verify, PowerLoss
  <2>3. [trust EXCEPT !.auth = TRUE] \in [pair: BOOLEAN, auth: BOOLEAN]
    BY DEF TypeOK
  <2>4. QED
    BY <1>1, <1>2, <1>7, <2>1, <2>2, <2>3 DEF TypeOK, Verify
<1>8. CASE SetPin
  <2>1. tries' \in 0 .. PinTries /\ wrong' \in Nat
    BY <1>2, <1>8 DEF SetPin
  <2>2. QED
    BY <1>1, <1>2, <1>8, <2>1, InterruptedClears DEF TypeOK, SetPin
<1>9. CASE Keygen
  <2>1. drawn' \in 0 .. MaxDraws
    BY <1>9, DrawsAssumption DEF TypeOK, Keygen, KeygenAllowed
  <2>2. /\ mode' \in {mode, "off"} /\ validated' \in {validated, FALSE}
        /\ sessionCounter' \in {sessionCounter, 0}
        /\ session' = NoSession
        /\ trust' \in {NoTrust, [trust EXCEPT !.pair = FALSE]}
    BY <1>9, InterruptedClears DEF Keygen
  <2>3. [trust EXCEPT !.pair = FALSE] \in [pair: BOOLEAN, auth: BOOLEAN]
    BY DEF TypeOK
  <2>4. QED
    BY <1>1, <1>2, <1>9, <2>1, <2>2, <2>3 DEF TypeOK, Keygen
<1>10. CASE KeygenAborted
  <2>1. drawn' \in 0 .. MaxDraws
    BY <1>10, DrawsAssumption DEF TypeOK, KeygenAborted, KeygenAllowed
  <2>2. QED
    BY <1>1, <1>2, <1>10, <2>1, InterruptedClears DEF TypeOK, KeygenAborted
<1>11. CASE GetNonces
  <2>1. drawn' \in 0 .. MaxDraws /\ drawn \in 0 .. MaxDraws
    BY <1>11, DrawsAssumption DEF GetNonces, TypeOK
  <2>2. [nonce |-> drawn', token |-> NextToken, ready |-> TRUE,
         finalized |-> FALSE] \in Sessions
    BY <1>0, <2>1 DEF Sessions
  <2>3. QED
    BY <1>0, <1>1, <1>2, <1>11, <2>1, <2>2
    DEF TypeOK, GetNonces, Fail, PowerLoss, persistent
<1>12. CASE GetNoncesExhausted
  BY <1>1, <1>2, <1>12 DEF TypeOK, GetNoncesExhausted, Fail, persistent
<1>13. ASSUME NEW asked \in Tokens, NEW faulty \in Faults,
              DoFinalize(asked, faulty)
       PROVE  TypeOK'
  <2>1. PartialNow(asked, faulty) \in Partials
    <3>1. session.nonce \in 0 .. MaxDraws /\ session.token \in Tokens
      BY DEF TypeOK, Sessions
    <3>2. trust.pair \in BOOLEAN /\ trust.auth \in BOOLEAN
      BY DEF TypeOK
    <3>3. (pinRequired \/ pinSet => trust.auth) \in BOOLEAN
      BY <3>2 DEF TypeOK
    <3>4. (\E p \in partials : p.pair = session.nonce) \in BOOLEAN
      OBVIOUS
    <3>5. QED
      BY <3>1, <3>2, <3>3, <3>4 DEF PartialNow, Partials, TypeOK
  <2>2. QED
    BY <1>1, <1>2, <1>13, <2>1, InterruptedClears
    DEF TypeOK, DoFinalize, persistent
<1>14. CASE Reject
  BY <1>1, <1>2, <1>14 DEF TypeOK, Reject, Fail, persistent
<1>15. CASE UNCHANGED vars
  BY <1>15 DEF TypeOK, vars
<1>16. QED
  BY <1>3, <1>4, <1>5, <1>6, <1>7, <1>8, <1>9, <1>10, <1>11, <1>12, <1>13,
     <1>14, <1>15 DEF Next

\* Every variable keeps its type.
THEOREM TypeCorrect == Spec => []TypeOK
  BY TypeInit, TypeNext, PTL DEF Spec

-----------------------------------------------------------------------------
(* The safety invariant.                                                   *)

\* What an error, a selection change or a reset leaves pending: nothing.
LEMMA ClearedStep ==
  ASSUME TypeOK, TypeOK', PendingInv,
         session' = NoSession, validated' = FALSE,
         UNCHANGED partials, drawn <= drawn'
  PROVE  SessionLifetime' /\ PendingInv' /\ LoginInv'
<1>1. drawn \in Nat /\ drawn' \in Nat
  BY DrawsAssumption DEF TypeOK
<1>2. \A p \in partials : p.pair \in Nat
  BY DrawsAssumption DEF TypeOK, Partials
<1>3. session'.ready = FALSE /\ session'.nonce = 0
  BY DEF NoSession
<1>4. \A p \in partials' : p.pair <= drawn'
  BY <1>1, <1>2 DEF PendingInv
<1>5. QED
  BY <1>1, <1>3, <1>4 DEF SessionLifetime, PendingInv, LoginInv

\* The partials already sent keep their properties as long as the published
\* key does.
LEMMA PartialsKept ==
  ASSUME NonceUsedOnce, PartialsWellFounded, NoIncidentBetween,
         UNCHANGED <<partials, masterPublicKey>>
  PROVE  NonceUsedOnce' /\ PartialsWellFounded' /\ NoIncidentBetween'
  BY DEF NonceUsedOnce, PartialsWellFounded, NoIncidentBetween

\* No partial can have been sent before the card had a key.
LEMMA NoKeyNoPartials ==
  ASSUME PartialsWellFounded, KeyPublished, ~keyGenerated
  PROVE  partials = {}
  BY DEF PartialsWellFounded, KeyPublished

LEMMA InvInit == Init => IInv
<1> SUFFICES ASSUME Init PROVE IInv
  OBVIOUS
<1>1. TypeOK
  BY TypeInit
<1>2. session.ready = FALSE /\ session.nonce = 0
  BY DEF Init, NoSession
<1>3. PendingInv /\ LoginInv /\ SessionLifetime
  BY <1>2 DEF Init, PendingInv, LoginInv, SessionLifetime
<1>4. NonceUsedOnce /\ PartialsWellFounded /\ NoIncidentBetween
  BY DEF Init, NonceUsedOnce, PartialsWellFounded, NoIncidentBetween
<1>5. KeyPublished /\ GuessBudget
  BY PinTriesAssumption DEF Init, KeyPublished, GuessBudget
<1>6. QED
  BY <1>1, <1>3, <1>4, <1>5 DEF IInv

LEMMA InvNext == IInv /\ [Next]_vars => IInv'
<1> SUFFICES ASSUME IInv, [Next]_vars PROVE IInv'
  OBVIOUS
<1>1. TypeOK /\ TypeOK' /\ PendingInv
  BY TypeNext DEF IInv
<1>2. /\ drawn \in Nat /\ tries \in Nat /\ wrong \in Nat /\ tries <= PinTries
      /\ PinTries \in Nat /\ PinTries > 0 /\ session.nonce \in Nat
  BY <1>1, DrawsAssumption, PinTriesAssumption DEF TypeOK, Sessions
<1>3. ASSUME session' = NoSession, validated' = FALSE,
             UNCHANGED <<persistent, drawn, partials, wrong>>
      PROVE  IInv'
  <2>1. SessionLifetime' /\ PendingInv' /\ LoginInv'
    <3>1. UNCHANGED partials /\ drawn <= drawn'
      BY <1>2, <1>3
    <3>2. QED
      BY <1>1, <1>3, <3>1, ClearedStep
  <2>2. NonceUsedOnce' /\ PartialsWellFounded' /\ NoIncidentBetween'
    BY <1>3, PartialsKept DEF IInv, persistent
  <2>3. KeyPublished' /\ GuessBudget'
    BY <1>3 DEF IInv, KeyPublished, GuessBudget, persistent
  <2>4. QED
    BY <1>1, <2>1, <2>2, <2>3 DEF IInv
<1>4. CASE PowerOff
  BY <1>3, <1>4 DEF PowerOff, PowerLoss
<1>5. CASE Select
  BY <1>3, <1>5 DEF Select, Fail
<1>6. CASE Deselect
  BY <1>3, <1>6 DEF Deselect, Fail
<1>7. CASE GetNoncesExhausted
  BY <1>3, <1>7 DEF GetNoncesExhausted, Fail
<1>8. CASE Reject
  BY <1>3, <1>8 DEF Reject, Fail
<1>9. CASE PowerOn
  <2>1. validated = FALSE /\ session.ready = FALSE
    BY <1>1, <1>9 DEF IInv, PowerOn, LoginInv, SessionLifetime, TypeOK, Sessions
  <2>2. QED
    BY <1>1, <1>9, <2>1
    DEF IInv, PowerOn, persistent, NonceUsedOnce, PartialsWellFounded,
        NoIncidentBetween, SessionLifetime, KeyPublished, GuessBudget,
        PendingInv, LoginInv
<1>10. CASE UNCHANGED vars
  BY <1>1, <1>10
  DEF IInv, vars, NonceUsedOnce, PartialsWellFounded, NoIncidentBetween,
      SessionLifetime, KeyPublished, GuessBudget, PendingInv, LoginInv,
      PinSatisfied
<1>11. CASE Verify
  <2>1. KeyPublished'
    BY <1>11 DEF IInv, Verify, KeyPublished
  <2>2. GuessBudget'
    BY <1>2, <1>11 DEF IInv, Verify, GuessBudget
  <2>3. NonceUsedOnce' /\ PartialsWellFounded' /\ NoIncidentBetween'
    BY <1>11, PartialsKept DEF IInv, Verify
  <2>4. SessionLifetime' /\ PendingInv' /\ LoginInv'
    <3>1. CASE session' = NoSession /\ validated' = FALSE
      <4>1. UNCHANGED partials /\ drawn <= drawn'
        BY <1>2, <1>11 DEF Verify
      <4>2. QED
        BY <1>1, <3>1, <4>1, ClearedStep
    <3>2. CASE /\ validated' = TRUE /\ tries' = PinTries
               /\ trust' = [trust EXCEPT !.auth = TRUE]
               /\ UNCHANGED <<mode, session, sessionCounter>>
      <4>1. trust'.auth = TRUE /\ trust'.pair = trust.pair
        BY <1>1, <3>2 DEF TypeOK
      <4>2. QED
        BY <1>2, <1>11, <3>2, <4>1
        DEF IInv, Verify, SessionLifetime, PendingInv, LoginInv, PinSatisfied
    <3>3. QED
      BY <1>11, <3>1, <3>2, InterruptedClears DEF Verify, PowerLoss
  <2>5. QED
    BY <1>1, <2>1, <2>2, <2>3, <2>4 DEF IInv
<1>12. CASE SetPin
  <2>1. session' = NoSession /\ validated' = FALSE
    BY <1>12, InterruptedClears DEF SetPin
  <2>2. SessionLifetime' /\ PendingInv' /\ LoginInv'
    <3>1. UNCHANGED partials /\ drawn <= drawn'
      BY <1>2, <1>12 DEF SetPin
    <3>2. QED
      BY <1>1, <2>1, <3>1, ClearedStep
  <2>3. KeyPublished' /\ GuessBudget'
    BY <1>2, <1>12 DEF IInv, SetPin, KeyPublished, GuessBudget
  <2>4. NonceUsedOnce' /\ PartialsWellFounded' /\ NoIncidentBetween'
    BY <1>12, PartialsKept DEF IInv, SetPin
  <2>5. QED
    BY <1>1, <2>2, <2>3, <2>4 DEF IInv
<1>13. CASE Keygen
  <2>1. partials = {} /\ partials' = {}
    BY <1>13, NoKeyNoPartials DEF IInv, Keygen, KeygenAllowed
  <2>2. NonceUsedOnce' /\ PartialsWellFounded' /\ NoIncidentBetween'
    BY <2>1 DEF NonceUsedOnce, PartialsWellFounded, NoIncidentBetween
  <2>3. GuessBudget'
    BY <1>13 DEF IInv, Keygen, GuessBudget
  <2>4. KeyPublished'
    BY <1>2, <1>13
    DEF IInv, Keygen, KeygenAllowed, PinSatisfied, KeyPublished
  <2>5. session' = NoSession
    BY <1>13, InterruptedClears DEF Keygen
  <2>6. session'.ready = FALSE /\ session'.nonce = 0
    BY <2>5 DEF NoSession
  <2>7. PendingInv' /\ SessionLifetime'
    BY <1>2, <1>13, <2>1, <2>6 DEF Keygen, PendingInv, SessionLifetime
  <2>8. LoginInv'
    <3>1. CASE validated' = FALSE
      BY <3>1 DEF LoginInv
    <3>2. CASE /\ UNCHANGED <<mode, validated>>
               /\ trust' = [trust EXCEPT !.pair = FALSE]
      <4>1. trust'.auth = trust.auth
        BY <1>1, <3>2 DEF TypeOK
      <4>2. QED
        BY <1>13, <3>2, <4>1 DEF IInv, LoginInv, Keygen
    <3>3. QED
      BY <1>13, <3>1, <3>2, InterruptedClears DEF Keygen
  <2>9. QED
    BY <1>1, <2>2, <2>3, <2>4, <2>7, <2>8 DEF IInv
<1>14. CASE KeygenAborted
  <2>1. session' = NoSession /\ validated' = FALSE
    BY <1>14, InterruptedClears DEF KeygenAborted
  <2>2. SessionLifetime' /\ PendingInv' /\ LoginInv'
    <3>1. UNCHANGED partials /\ drawn <= drawn'
      BY <1>2, <1>14 DEF KeygenAborted
    <3>2. QED
      BY <1>1, <2>1, <3>1, ClearedStep
  <2>3. KeyPublished' /\ GuessBudget'
    BY <1>14
    DEF IInv, KeygenAborted, KeygenAllowed, KeyPublished, GuessBudget
  <2>4. NonceUsedOnce' /\ PartialsWellFounded' /\ NoIncidentBetween'
    BY <1>14, PartialsKept DEF IInv, KeygenAborted
  <2>5. QED
    BY <1>1, <2>2, <2>3, <2>4 DEF IInv
<1>15. CASE GetNonces
  <2>1. KeyPublished' /\ GuessBudget'
    BY <1>15 DEF IInv, GetNonces, KeyPublished, GuessBudget, persistent
  <2>2. NonceUsedOnce' /\ PartialsWellFounded' /\ NoIncidentBetween'
    BY <1>15, PartialsKept DEF IInv, GetNonces, persistent
  <2>3. SessionLifetime' /\ PendingInv' /\ LoginInv'
    <3>1. CASE session' = NoSession /\ validated' = FALSE
      <4>1. UNCHANGED partials /\ drawn <= drawn'
        BY <1>2, <1>15 DEF GetNonces
      <4>2. QED
        BY <1>1, <3>1, <4>1, ClearedStep
    <3>2. CASE /\ session' = [nonce |-> drawn', token |-> NextToken,
                              ready |-> TRUE, finalized |-> FALSE]
               /\ trust' = [trust EXCEPT !.pair = TRUE]
               /\ sessionCounter' = NextToken
               /\ UNCHANGED <<mode, validated>>
      <4>1. trust'.auth = trust.auth /\ trust'.pair = TRUE
        BY <1>1, <3>2 DEF TypeOK
      <4>2. session'.nonce = drawn + 1 /\ session'.token = sessionCounter'
        BY <1>15, <3>2 DEF GetNonces
      <4>3. \A p \in partials : p.pair \in Nat /\ p.pair <= drawn
        BY <1>1, DrawsAssumption DEF IInv, PendingInv, TypeOK, Partials
      <4>4. LoginInv'
        BY <1>15, <3>2, <4>1 DEF IInv, LoginInv, GetNonces, persistent
      <4>5. PendingInv'
        BY <1>2, <1>15, <3>2, <4>1, <4>2, <4>3
        DEF IInv, LoginInv, PendingInv, GetNonces, PinSatisfied, persistent
      <4>6. SessionLifetime'
        BY <1>2, <1>15, <3>2, <4>2, <4>3
        DEF SessionLifetime, GetNonces, PinSatisfied, persistent
      <4>7. QED
        BY <4>4, <4>5, <4>6
    <3>3. QED
      BY <1>15, <3>1, <3>2 DEF GetNonces, Fail, PowerLoss
  <2>4. QED
    BY <1>1, <2>1, <2>2, <2>3 DEF IInv
<1>16. ASSUME NEW asked \in Tokens, NEW faulty \in Faults,
              DoFinalize(asked, faulty)
       PROVE  IInv'
  <2> DEFINE p0 == PartialNow(asked, faulty)
  <2>1. /\ mode = "selected" /\ keyGenerated /\ session.ready
        /\ session.nonce # 0 /\ asked = session.token
        /\ partials' = partials \cup {p0}
        /\ \A p \in partials : p.pair # session.nonce
    BY <1>16 DEF IInv, SessionLifetime, DoFinalize, FinalizeAllowed
  <2>2. p0.again = FALSE /\ p0.pair = session.nonce /\ p0.key = masterKey
    BY <2>1 DEF PartialNow
  <2>3. p0.clean /\ p0.owner
    BY <2>1 DEF PartialNow, IInv, PendingInv
  <2>4. p0.sound /\ p0.asked = p0.token
    BY <1>16, <2>1 DEF PartialNow, DoFinalize, ResultsEqual
  <2>5. NonceUsedOnce' /\ NoIncidentBetween'
    BY <2>1, <2>2, <2>3 DEF IInv, NonceUsedOnce, NoIncidentBetween
  <2>6. PartialsWellFounded'
    BY <1>16, <2>1, <2>2, <2>4
    DEF IInv, PartialsWellFounded, KeyPublished, DoFinalize, persistent
  <2>7. KeyPublished' /\ GuessBudget'
    BY <1>16 DEF IInv, DoFinalize, KeyPublished, GuessBudget, persistent
  <2>8. session' = NoSession /\ session'.ready = FALSE /\ session'.nonce = 0
    BY <1>16, InterruptedClears DEF DoFinalize, NoSession
  <2>9. SessionLifetime' /\ PendingInv'
    BY <1>2, <1>16, <2>1, <2>2, <2>8
    DEF IInv, DoFinalize, SessionLifetime, PendingInv
  <2>10. LoginInv'
    <3>1. CASE validated' = FALSE
      BY <3>1 DEF LoginInv
    <3>2. CASE /\ UNCHANGED <<mode, validated>>
               /\ trust' = [trust EXCEPT !.pair = FALSE]
      <4>1. trust'.auth = trust.auth
        BY <1>1, <3>2 DEF TypeOK
      <4>2. QED
        BY <1>16, <3>2, <4>1 DEF IInv, LoginInv, DoFinalize, persistent
    <3>3. QED
      BY <1>16, <3>1, <3>2, InterruptedClears DEF DoFinalize
  <2>11. QED
    BY <1>1, <2>5, <2>6, <2>7, <2>9, <2>10 DEF IInv
<1>17. QED
  BY <1>4, <1>5, <1>6, <1>7, <1>8, <1>9, <1>10, <1>11, <1>12, <1>13, <1>14,
     <1>15, <1>16 DEF Next

LEMMA InvCorrect == Spec => []IInv
  BY InvInit, InvNext, PTL DEF Spec

\* No nonce pair ever produces two partial signatures.
THEOREM NonceSafety == Spec => []NonceUsedOnce
  BY InvCorrect, PTL DEF IInv

\* Every partial was made with a drawn pair, for the published key and the
\* token issued with the pair, and computed correctly.
THEOREM PartialSafety == Spec => []PartialsWellFounded
  BY InvCorrect, PTL DEF IInv

\* No partial outlives an error, a selection change or a reset since its pair
\* was issued or, under a PIN policy, since the owner logged in.
THEOREM IncidentSafety == Spec => []NoIncidentBetween
  BY InvCorrect, PTL DEF IInv

\* The readiness flag lives exactly as long as nonces and authorisation.
THEOREM LifetimeSafety == Spec => []SessionLifetime
  BY InvCorrect, PTL DEF IInv

\* Key, public cache, binding and flag appear together despite tears.
THEOREM KeySafety == Spec => []KeyPublished
  BY InvCorrect, PTL DEF IInv

\* Guessing is bounded by the try limit.
THEOREM GuessSafety == Spec => []GuessBudget
  BY InvCorrect, PTL DEF IInv

-----------------------------------------------------------------------------
(* Action properties.                                                      *)

\* The three copies of the key are written by KEYGEN alone, and KEYGEN is
\* refused once there is a key.
THEOREM KeyPermanence == Spec => KeyIsForever
<1>1. ASSUME [Next]_vars, keyGenerated
      PROVE  keyGenerated' /\ UNCHANGED <<masterKey, masterPublicKey, binding>>
  <2>1. ~Keygen /\ ~KeygenAborted
    BY <1>1 DEF Keygen, KeygenAborted, KeygenAllowed
  <2>2. QED
    BY <1>1, <2>1
    DEF Next, vars, persistent, PowerOff, PowerOn, Select, Deselect, Verify,
        SetPin, GetNonces, GetNoncesExhausted, DoFinalize, Reject
<1>2. QED
  BY <1>1, PTL DEF Spec, KeyIsForever

\* With no tries left nobody logs in again, so nothing that needs a login
\* happens.
THEOREM BlockPermanence == Spec => BlockedForever
<1> DEFINE Step == pinSet /\ tries = 0 =>
                     /\ tries' = 0 /\ ~validated'
                     /\ keyGenerated' = keyGenerated /\ ~session'.ready
<1>1. ASSUME IInv, [Next]_vars, pinSet, tries = 0
      PROVE  /\ tries' = 0 /\ ~validated'
             /\ keyGenerated' = keyGenerated /\ ~session'.ready
  <2>1. ~validated /\ ~PinSatisfied /\ ~session.ready
    BY <1>1 DEF IInv, LoginInv, PinSatisfied, SessionLifetime
  <2>2. /\ ~Verify /\ ~SetPin /\ ~Keygen /\ ~KeygenAborted /\ ~GetNonces
        /\ ~GetNoncesExhausted
        /\ \A asked \in Tokens, faulty \in Faults : ~DoFinalize(asked, faulty)
    <3>1. ~Verify /\ ~SetPin
      BY <1>1 DEF Verify, SetPin
    <3>2. ~Keygen /\ ~KeygenAborted
      BY <2>1 DEF Keygen, KeygenAborted, KeygenAllowed
    <3>3. ~GetNonces /\ ~GetNoncesExhausted
      BY <2>1 DEF GetNonces, GetNoncesExhausted
    <3>4. \A asked \in Tokens, faulty \in Faults : ~DoFinalize(asked, faulty)
      BY <2>1 DEF DoFinalize, FinalizeAllowed
    <3>5. QED
      BY <3>1, <3>2, <3>3, <3>4
  <2>3. UNCHANGED <<tries, keyGenerated>>
    BY <1>1, <2>2
    DEF Next, vars, persistent, PowerOff, PowerOn, Select, Deselect, Reject
  <2>4. ~validated' /\ ~session'.ready
    <3>1. NoSession.ready = FALSE
      BY DEF NoSession
    <3>2. CASE PowerOff \/ Select \/ Deselect \/ Reject
      BY <3>1, <3>2 DEF PowerOff, PowerLoss, Select, Deselect, Fail, Reject
    <3>3. CASE PowerOn \/ UNCHANGED vars
      BY <2>1, <3>3 DEF PowerOn, vars
    <3>4. QED
      BY <1>1, <2>2, <3>2, <3>3 DEF Next
  <2>5. QED
    BY <1>1, <2>3, <2>4
<1>2. IInv /\ [Next]_vars => [Step]_vars
  BY <1>1
<1>3. QED
  BY <1>2, InvCorrect, PTL DEF Spec, BlockedForever

-----------------------------------------------------------------------------
(* The applet implements OneTimeSigner.                                    *)

THEOREM Implementation == Spec => ImplementsSigner
<1>1. Init => Signer!Init
  <2>1. ASSUME Init PROVE Signer!Init
    <3>1. session.ready = FALSE
      BY <2>1 DEF Init, NoSession
    <3>2. {p.pair : p \in partials} = {}
      BY <2>1 DEF Init
    <3>3. QED
      BY <2>1, <3>1, <3>2 DEF Init, Signer!Init
  <2>2. QED
    BY <2>1
<1>2. IInv /\ IInv' /\ [Next]_vars => [Signer!Next]_(Signer!vars)
  <2> SUFFICES ASSUME IInv, IInv', [Next]_vars
               PROVE  Signer!Next \/ UNCHANGED Signer!vars
    OBVIOUS
  <2>1. drawn \in Nat /\ drawn' \in Nat
    BY DrawsAssumption DEF IInv, TypeOK
  <2>2. ASSUME session'.ready = FALSE, drawn <= drawn',
               UNCHANGED <<partials, keyGenerated, masterPublicKey>>
        PROVE  Signer!Waste
    BY <2>1, <2>2 DEF Signer!Waste
  <2>3. NoSession.ready = FALSE
    BY DEF NoSession
  <2>4. CASE PowerOff \/ Select \/ Deselect \/ GetNoncesExhausted \/ Reject
    <3>1. /\ session'.ready = FALSE /\ drawn' = drawn
          /\ UNCHANGED <<partials, keyGenerated, masterPublicKey>>
      BY <2>3, <2>4
      DEF PowerOff, PowerLoss, Select, Deselect, Fail, GetNoncesExhausted,
          Reject, persistent
    <3>2. drawn <= drawn'
      BY <2>1, <3>1
    <3>3. QED
      BY <2>2, <3>1, <3>2 DEF Signer!Next
  <2>5. CASE PowerOn \/ UNCHANGED vars
    BY <2>5 DEF PowerOn, persistent, vars, Signer!vars
  <2>6. CASE Verify
    <3>1. CASE session' = NoSession
      <4>1. /\ session'.ready = FALSE
            /\ UNCHANGED <<partials, keyGenerated, masterPublicKey>>
        BY <2>3, <2>6, <3>1 DEF Verify
      <4>2. drawn <= drawn'
        BY <2>1, <2>6 DEF Verify
      <4>3. QED
        BY <2>2, <4>1, <4>2 DEF Signer!Next
    <3>2. CASE UNCHANGED session
      BY <2>6, <3>2 DEF Verify, Signer!vars
    <3>3. QED
      BY <2>6, <3>1, <3>2, InterruptedClears DEF Verify, PowerLoss
  <2>7. CASE SetPin
    <3>1. /\ session'.ready = FALSE
          /\ UNCHANGED <<partials, keyGenerated, masterPublicKey>>
      BY <2>3, <2>7, InterruptedClears DEF SetPin
    <3>2. drawn <= drawn'
      BY <2>1, <2>7 DEF SetPin
    <3>3. QED
      BY <2>2, <3>1, <3>2 DEF Signer!Next
  <2>8. CASE KeygenAborted
    <3>1. /\ session'.ready = FALSE
          /\ UNCHANGED <<partials, keyGenerated, masterPublicKey>>
      BY <2>3, <2>8, InterruptedClears DEF KeygenAborted
    <3>2. drawn <= drawn'
      BY <2>1, <2>8 DEF KeygenAborted
    <3>3. QED
      BY <2>2, <3>1, <3>2 DEF Signer!Next
  <2>9. CASE Keygen
    <3>1. session' = NoSession /\ ~keyGenerated /\ keyGenerated'
          /\ masterPublicKey' = drawn' /\ drawn' = drawn + 1
          /\ UNCHANGED partials
      BY <2>9, InterruptedClears DEF Keygen, KeygenAllowed
    <3>2. Signer!Publish
      BY <2>1, <2>3, <3>1 DEF Signer!Publish
    <3>3. QED
      BY <3>2 DEF Signer!Next
  <2>10. CASE GetNonces
    <3>1. /\ keyGenerated /\ keyGenerated' /\ drawn' = drawn + 1
          /\ masterPublicKey # 0
          /\ UNCHANGED <<partials, keyGenerated, masterPublicKey>>
      BY <2>10 DEF GetNonces, persistent, IInv, KeyPublished
    <3>2. CASE session' = NoSession
      <4>1. session'.ready = FALSE /\ drawn <= drawn'
        BY <2>1, <2>3, <3>1, <3>2
      <4>2. QED
        BY <2>2, <3>1, <4>1 DEF Signer!Next
    <3>3. CASE session' = [nonce |-> drawn', token |-> NextToken,
                           ready |-> TRUE, finalized |-> FALSE]
      <4>1. session'.ready = TRUE /\ session'.nonce = drawn'
        BY <3>3
      <4>2. Signer!Offer
        BY <2>1, <3>1, <4>1 DEF Signer!Offer
      <4>3. QED
        BY <4>2 DEF Signer!Next
    <3>4. QED
      BY <2>10, <3>2, <3>3 DEF GetNonces, Fail, PowerLoss
  <2>11. ASSUME NEW asked \in Tokens, NEW faulty \in Faults,
                DoFinalize(asked, faulty)
         PROVE  Signer!Next
    <3>1. /\ session.ready /\ session.nonce # 0
          /\ \A p \in partials : p.pair # session.nonce
          /\ partials' = partials \cup {PartialNow(asked, faulty)}
          /\ UNCHANGED <<keyGenerated, masterPublicKey, drawn>>
      BY <2>11
      DEF DoFinalize, FinalizeAllowed, IInv, SessionLifetime, persistent
    <3>2. PartialNow(asked, faulty).pair = session.nonce
      BY DEF PartialNow
    <3>3. {p.pair : p \in partials'}
            = {p.pair : p \in partials} \cup {session.nonce}
      BY <3>1, <3>2
    <3>4. session' = NoSession
      BY <2>11, InterruptedClears DEF DoFinalize
    <3>5. Signer!Sign
      BY <2>3, <3>1, <3>3, <3>4 DEF Signer!Sign
    <3>6. QED
      BY <3>5 DEF Signer!Next
  <2>12. QED
    BY <2>4, <2>5, <2>6, <2>7, <2>8, <2>9, <2>10, <2>11 DEF Next
<1>3. QED
  BY <1>1, <1>2, InvCorrect, PTL DEF Spec, ImplementsSigner, Signer!Spec

-----------------------------------------------------------------------------
(* The applet is a card its users can count on.                            *)

\* What its users see of the applet.
Seen == [key |-> keyGenerated, pin |-> pinSet, required |-> pinRequired, tries |-> tries,
         verified |-> validated, nonce |-> IF session.ready THEN session.nonce ELSE 0]

\* A card as its users see it.
CardView == [key : BOOLEAN, pin : BOOLEAN, required : BOOLEAN, tries : Int, verified : BOOLEAN, nonce : Nat]

\* After the step it is x, or x with its session burned.
EndsAs(x) == Seen' \in {x, Single!Burn(x)}

\* It is typed, before a step and after it.
LEMMA SeenType ==
  ASSUME TypeOK, TypeOK'
  PROVE  /\ Seen \in CardView
         /\ Seen.key = keyGenerated /\ Seen.pin = pinSet /\ Seen.required = pinRequired
         /\ Seen.tries = tries /\ Seen.verified = validated
         /\ session.ready => Seen.nonce = session.nonce
         /\ ~session.ready => Seen.nonce = 0
         /\ Seen' \in CardView
         /\ Seen'.key = keyGenerated' /\ Seen'.pin = pinSet' /\ Seen'.required = pinRequired'
         /\ Seen'.tries = tries' /\ Seen'.verified = validated'
         /\ session'.ready => Seen'.nonce = session'.nonce
         /\ ~session'.ready => Seen'.nonce = 0
<1>1. session.ready \in BOOLEAN /\ session.nonce \in Nat /\ tries \in Int
  BY PinTriesAssumption, DrawsAssumption DEF TypeOK, Sessions
<1>2. session'.ready \in BOOLEAN /\ session'.nonce \in Nat /\ tries' \in Int
  BY PinTriesAssumption, DrawsAssumption DEF TypeOK, Sessions
<1> QED BY <1>1, <1>2 DEF Seen, CardView, TypeOK

\* A change of the one card is a step of the contract.
LEMMA SingleSteps ==
  ASSUME drawn \in Nat, drawn' \in Nat, Seen \in CardView, Seen' \in CardView,
         Seen.key = keyGenerated, Seen.pin = pinSet, Seen.tries = tries
  PROVE  /\ (EndsAs(Seen) /\ drawn <= drawn') => Single!Next
         /\ (/\ pinSet /\ tries > 0 /\ UNCHANGED drawn
             /\ EndsAs([Seen EXCEPT !.tries = PinTries, !.verified = TRUE])) => Single!Next
         /\ (/\ pinSet /\ tries > 0 /\ UNCHANGED drawn
             /\ Seen' = Single!Burn([Seen EXCEPT !.tries = tries - 1])) => Single!Next
         /\ (/\ ~pinSet /\ ~keyGenerated /\ UNCHANGED drawn
             /\ Seen' = Single!Burn([Seen EXCEPT !.pin = TRUE, !.tries = PinTries])) => Single!Next
         /\ (/\ Single!Authorised(Seen) /\ ~keyGenerated /\ drawn <= drawn'
             /\ EndsAs([Seen EXCEPT !.key = TRUE, !.nonce = 0])) => Single!Next
         /\ (/\ Single!Authorised(Seen) /\ keyGenerated /\ drawn < drawn'
             /\ Seen' = [Seen EXCEPT !.nonce = drawn']) => Single!Next
         /\ (/\ Single!Authorised(Seen) /\ Seen.nonce # 0 /\ UNCHANGED drawn
             /\ EndsAs([Seen EXCEPT !.nonce = 0])) => Single!Next
<1> DEFINE now == [c \in {"card"} |-> Seen]
<1>1. now["card"] = Seen /\ now' = [c \in {"card"} |-> Seen']
  OBVIOUS
<1>2. \A x : [now EXCEPT !["card"] = x] = [c \in {"card"} |-> x]
  OBVIOUS
<1>3. ASSUME EndsAs(Seen), drawn <= drawn'
      PROVE  Single!Next
  <2>1. PICK S \in SUBSET {"card"} : Seen' = IF "card" \in S THEN Single!Burn(Seen) ELSE Seen
    <3>1. CASE Seen' = Seen
      BY <3>1, {} \in SUBSET {"card"}
    <3>2. CASE Seen' = Single!Burn(Seen)
      BY <3>2, {"card"} \in SUBSET {"card"}
    <3> QED BY <1>3, <3>1, <3>2 DEF EndsAs
  <2>2. now' = [c \in {"card"} |-> IF c \in S THEN Single!Burn(now[c]) ELSE now[c]]
    BY <1>1, <2>1
  <2>3. Single!Lose
    BY <1>3, <2>2 DEF Single!Lose, Seen
  <2> QED BY <2>3 DEF Single!Next
<1>4. ASSUME pinSet, tries > 0, UNCHANGED drawn,
             EndsAs([Seen EXCEPT !.tries = PinTries, !.verified = TRUE])
      PROVE  Single!Next
  <2> DEFINE x == [Seen EXCEPT !.tries = PinTries, !.verified = TRUE]
  <2>1. now' = [now EXCEPT !["card"] = x] \/ now' = [now EXCEPT !["card"] = Single!Burn(x)]
    BY <1>1, <1>2, <1>4 DEF EndsAs
  <2>2. now["card"].pin /\ now["card"].tries > 0 /\ x = [now["card"] EXCEPT !.tries = PinTries, !.verified = TRUE]
    BY <1>1, <1>4 DEF Seen
  <2>3. Single!GuessRight("card")
    BY <1>4, <2>1, <2>2 DEF Single!GuessRight, Single!Becomes, Seen
  <2> QED BY <2>3 DEF Single!Next
<1>5. ASSUME pinSet, tries > 0, UNCHANGED drawn, Seen' = Single!Burn([Seen EXCEPT !.tries = tries - 1])
      PROVE  Single!Next
  <2>1. now' = [now EXCEPT !["card"] = Single!Burn([now["card"] EXCEPT !.tries = @ - 1])]
    <3>1. [Seen EXCEPT !.tries = tries - 1] = [Seen EXCEPT !.tries = @ - 1]
      BY DEF CardView
    <3> QED BY <1>1, <1>2, <1>5, <3>1
  <2>2. now["card"].pin /\ now["card"].tries > 0
    BY <1>1, <1>5 DEF Seen
  <2>3. Single!GuessWrong("card")
    BY <1>5, <2>1, <2>2 DEF Single!GuessWrong, Seen
  <2> QED BY <2>3 DEF Single!Next
<1>6. ASSUME ~pinSet, ~keyGenerated, UNCHANGED drawn,
             Seen' = Single!Burn([Seen EXCEPT !.pin = TRUE, !.tries = PinTries])
      PROVE  Single!Next
  <2>1. now' = [now EXCEPT !["card"] = Single!Burn([now["card"] EXCEPT !.pin = TRUE, !.tries = PinTries])]
    BY <1>1, <1>2, <1>6
  <2>2. ~now["card"].pin /\ ~now["card"].key
    BY <1>1, <1>6 DEF Seen
  <2>3. Single!SetPin("card")
    BY <1>6, <2>1, <2>2 DEF Single!SetPin, Seen
  <2> QED BY <2>3 DEF Single!Next
<1>7. ASSUME Single!Authorised(Seen), ~keyGenerated, drawn <= drawn',
             EndsAs([Seen EXCEPT !.key = TRUE, !.nonce = 0])
      PROVE  Single!Next
  <2> DEFINE x == [Seen EXCEPT !.key = TRUE, !.nonce = 0]
  <2>1. now' = [now EXCEPT !["card"] = x] \/ now' = [now EXCEPT !["card"] = Single!Burn(x)]
    BY <1>1, <1>2, <1>7 DEF EndsAs
  <2>2. Single!Authorised(now["card"]) /\ ~now["card"].key /\ x = [now["card"] EXCEPT !.key = TRUE, !.nonce = 0]
    BY <1>1, <1>7 DEF Seen
  <2>3. Single!Keygen("card")
    BY <1>7, <2>1, <2>2 DEF Single!Keygen, Single!Becomes, Seen
  <2> QED BY <2>3 DEF Single!Next
<1>8. ASSUME Single!Authorised(Seen), keyGenerated, drawn < drawn', Seen' = [Seen EXCEPT !.nonce = drawn']
      PROVE  Single!Next
  <2>1. now' = [now EXCEPT !["card"] = [now["card"] EXCEPT !.nonce = drawn']]
    BY <1>1, <1>2, <1>8
  <2>2. Single!Authorised(now["card"]) /\ now["card"].key
    BY <1>1, <1>8 DEF Seen
  <2>3. Single!Draw("card")
    BY <1>8, <2>1, <2>2 DEF Single!Draw, Seen
  <2> QED BY <2>3 DEF Single!Next
<1>9. ASSUME Single!Authorised(Seen), Seen.nonce # 0, UNCHANGED drawn,
             EndsAs([Seen EXCEPT !.nonce = 0])
      PROVE  Single!Next
  <2> DEFINE x == [Seen EXCEPT !.nonce = 0]
  <2>1. now' = [now EXCEPT !["card"] = x] \/ now' = [now EXCEPT !["card"] = Single!Burn(x)]
    BY <1>1, <1>2, <1>9 DEF EndsAs
  <2>2. Single!Authorised(now["card"]) /\ now["card"].nonce # 0 /\ x = [now["card"] EXCEPT !.nonce = 0]
    BY <1>1, <1>9
  <2>3. Single!Finalize("card")
    BY <1>9, <2>1, <2>2 DEF Single!Finalize, Single!Becomes, Seen
  <2> QED BY <2>3 DEF Single!Next
<1> QED BY ZenonT(30), <1>3, <1>4, <1>5, <1>6, <1>7, <1>8, <1>9

\* Every handler, however it ends, is a step of the contract.
LEMMA SingleNext ==
  ASSUME IInv, IInv', Next
  PROVE  Single!Next
<1>1. drawn \in Nat /\ drawn' \in Nat /\ drawn <= drawn
  BY DrawsAssumption DEF IInv, TypeOK
<1>2. NoSession.ready = FALSE
  BY DEF NoSession
<1>3. /\ Seen \in CardView
      /\ Seen.key = keyGenerated /\ Seen.pin = pinSet /\ Seen.required = pinRequired
      /\ Seen.tries = tries /\ Seen.verified = validated
      /\ session.ready => Seen.nonce = session.nonce
      /\ ~session.ready => Seen.nonce = 0
      /\ Seen' \in CardView
      /\ Seen'.key = keyGenerated' /\ Seen'.pin = pinSet' /\ Seen'.required = pinRequired'
      /\ Seen'.tries = tries' /\ Seen'.verified = validated'
      /\ session'.ready => Seen'.nonce = session'.nonce
      /\ ~session'.ready => Seen'.nonce = 0
  BY SeenType DEF IInv
<1>4. CASE PowerOff \/ Select \/ Deselect \/ GetNoncesExhausted \/ Reject
  <2>1. /\ session' = NoSession /\ validated' = FALSE /\ drawn' = drawn
        /\ UNCHANGED <<keyGenerated, pinSet, pinRequired, tries>>
    BY <1>4 DEF PowerOff, PowerLoss, Select, Deselect, Fail, GetNoncesExhausted, Reject, persistent
  <2>2. Seen' = Single!Burn(Seen)
    BY <1>2, <1>3, <2>1 DEF CardView, Single!Burn
  <2> QED BY <1>1, <1>3, <2>1, <2>2, SingleSteps DEF EndsAs
<1>5. CASE PowerOn
  <2>1. Seen' = Seen /\ drawn' = drawn
    BY <1>5 DEF PowerOn, persistent, Seen
  <2> QED BY <1>1, <1>3, <2>1, SingleSteps DEF EndsAs
<1>6. CASE Verify
  <2>1. pinSet /\ tries > 0 /\ drawn' = drawn /\ UNCHANGED <<pinRequired, pinSet, keyGenerated>>
    BY <1>6 DEF Verify
  <2>2. CASE tries' = PinTries /\ validated' = TRUE /\ UNCHANGED session
    <3>1. Seen' = [Seen EXCEPT !.tries = PinTries, !.verified = TRUE]
      BY <1>1, <1>3, <2>1, <2>2 DEF CardView
    <3> QED BY <1>1, <1>3, <2>1, <3>1, SingleSteps DEF EndsAs
  <2>3. CASE tries' = PinTries /\ Interrupted
    <3>1. Seen' = Single!Burn([Seen EXCEPT !.tries = PinTries, !.verified = TRUE])
      BY <1>2, <1>3, <2>1, <2>3, InterruptedClears DEF CardView, Single!Burn
    <3> QED BY <1>1, <1>3, <2>1, <3>1, SingleSteps DEF EndsAs
  <2>4. CASE tries' = tries - 1 /\ (Interrupted \/ PowerLoss)
    <3>1. Seen' = Single!Burn([Seen EXCEPT !.tries = tries - 1])
      BY <1>2, <1>3, <2>1, <2>4, InterruptedClears DEF CardView, Single!Burn, PowerLoss
    <3> QED BY <1>1, <1>3, <2>1, <3>1, SingleSteps DEF EndsAs
  <2> QED BY <1>6, <2>2, <2>3, <2>4 DEF Verify
<1>7. CASE SetPin
  <2>1. Seen' = Single!Burn([Seen EXCEPT !.pin = TRUE, !.tries = PinTries])
    BY <1>2, <1>3, <1>7, InterruptedClears DEF SetPin, CardView, Single!Burn
  <2> QED BY <1>1, <1>3, <1>7, <2>1, SingleSteps DEF SetPin
<1>8. KeygenAllowed \/ (PinSatisfied /\ session.ready) \/ PinSatisfied => Single!Authorised(Seen)
  BY <1>3 DEF KeygenAllowed, PinSatisfied, Single!Authorised
<1>9. CASE Keygen
  <2>1. /\ Single!Authorised(Seen) /\ ~keyGenerated /\ drawn <= drawn'
        /\ keyGenerated' /\ UNCHANGED <<pinRequired, pinSet, tries>>
    BY <1>1, <1>8, <1>9 DEF Keygen, KeygenAllowed
  <2>2. CASE session' = NoSession /\ UNCHANGED validated
    <3>1. Seen' = [Seen EXCEPT !.key = TRUE, !.nonce = 0]
      BY <1>2, <1>3, <1>9, <2>1, <2>2 DEF Keygen, CardView
    <3> QED BY <1>1, <1>3, <2>1, <3>1, SingleSteps DEF EndsAs
  <2>3. CASE Interrupted
    <3>1. Seen' = Single!Burn([Seen EXCEPT !.key = TRUE, !.nonce = 0])
      BY <1>2, <1>3, <1>9, <2>1, <2>3, InterruptedClears DEF Keygen, CardView, Single!Burn
    <3> QED BY <1>1, <1>3, <2>1, <3>1, SingleSteps DEF EndsAs
  <2> QED BY <1>9, <2>2, <2>3 DEF Keygen
<1>10. CASE KeygenAborted
  <2>1. drawn <= drawn'
    BY <1>1, <1>10 DEF KeygenAborted
  <2>2. Seen' = Single!Burn(Seen)
    BY <1>2, <1>3, <1>10, InterruptedClears DEF KeygenAborted, CardView, Single!Burn
  <2> QED BY <1>1, <1>3, <2>1, <2>2, SingleSteps DEF EndsAs
<1>11. CASE GetNonces
  <2>1. /\ Single!Authorised(Seen) /\ keyGenerated /\ drawn' = drawn + 1 /\ drawn < drawn' /\ drawn <= drawn'
        /\ UNCHANGED <<keyGenerated, pinRequired, pinSet, tries>>
    BY <1>1, <1>8, <1>11 DEF GetNonces, persistent
  <2>2. CASE /\ session' = [nonce |-> drawn', token |-> NextToken, ready |-> TRUE, finalized |-> FALSE]
             /\ UNCHANGED validated
    <3>1. Seen' = [Seen EXCEPT !.nonce = drawn']
      BY <1>1, <1>3, <2>1, <2>2 DEF CardView
    <3> QED BY <1>1, <1>3, <2>1, <3>1, SingleSteps DEF EndsAs
  <2>3. CASE Fail \/ PowerLoss
    <3>1. Seen' = Single!Burn(Seen)
      BY <1>2, <1>3, <2>1, <2>3 DEF Fail, PowerLoss, CardView, Single!Burn
    <3> QED BY <1>1, <1>3, <2>1, <3>1, SingleSteps DEF EndsAs
  <2> QED BY <1>11, <2>2, <2>3 DEF GetNonces
<1>12. ASSUME NEW asked \in Tokens, NEW faulty \in Faults, DoFinalize(asked, faulty)
       PROVE  Single!Next
  <2>1. /\ Single!Authorised(Seen) /\ session.ready /\ session.nonce # 0 /\ drawn' = drawn
        /\ UNCHANGED <<keyGenerated, pinRequired, pinSet, tries>>
    BY <1>8, <1>12 DEF DoFinalize, FinalizeAllowed, persistent
  <2>2. Seen.nonce # 0
    BY <1>3, <2>1
  <2>3. CASE session' = NoSession /\ UNCHANGED validated
    <3>1. Seen' = [Seen EXCEPT !.nonce = 0]
      BY <1>2, <1>3, <2>1, <2>3 DEF CardView
    <3> QED BY <1>1, <1>3, <2>1, <2>2, <3>1, SingleSteps DEF EndsAs
  <2>4. CASE Interrupted
    <3>1. Seen' = Single!Burn([Seen EXCEPT !.nonce = 0])
      BY <1>2, <1>3, <2>1, <2>4, InterruptedClears DEF CardView, Single!Burn
    <3> QED BY <1>1, <1>3, <2>1, <2>2, <3>1, SingleSteps DEF EndsAs
  <2> QED BY <1>12, <2>3, <2>4 DEF DoFinalize
<1> QED BY <1>4, <1>5, <1>6, <1>7, <1>9, <1>10, <1>11, <1>12 DEF Next

\* The applet keeps what its users count on (module SigningCards): keys and nonce
\* pairs are made and spent for a login only, every loss of the session ends both,
\* a guess costs a try, and no pair comes twice.
THEOREM Contract == Spec => ImplementsCard
<1>1. Init => Single!Init
  <2> SUFFICES ASSUME Init PROVE Single!Init
    OBVIOUS
  <2>1. session.ready = FALSE /\ tries \in {PinTries} /\ validated \in {FALSE} /\ drawn = 0
        /\ keyGenerated = FALSE /\ pinSet \in BOOLEAN /\ pinRequired \in BOOLEAN
    BY DEF Init, NoSession
  <2>2. Seen \in Single!Fresh /\ ~Seen.key
    BY <2>1 DEF Seen, Single!Fresh
  <2> QED BY <2>1, <2>2 DEF Single!Init, Seen
<1>2. IInv /\ IInv' /\ [Next]_vars => [Single!Next]_(Single!vars)
  <2> SUFFICES ASSUME IInv, IInv', [Next]_vars
               PROVE  Single!Next \/ UNCHANGED Single!vars
    OBVIOUS
  <2>1. CASE UNCHANGED vars
    BY <2>1 DEF vars, Single!vars
  <2> QED BY <2>1, SingleNext
<1>3. QED
  BY <1>1, <1>2, InvCorrect, PTL DEF Spec, ImplementsCard, Single!Spec

-----------------------------------------------------------------------------
(* 2. The algebra of a round: numbers modulo the order.                     *)

\* Quotient and remainder, and that there is only one of each.
LEMMA DivMod ==
  ASSUME NEW n \in Nat, n > 0, NEW a \in Int
  PROVE  /\ a % n \in 0..n - 1 /\ a \div n \in Int
         /\ a = n * (a \div n) + (a % n)
  OBVIOUS

\* The remainder is determined by the quotients.
LEMMA OneRemainder ==
  ASSUME NEW n \in Nat, n > 0, NEW i \in Int, NEW j \in Int, NEW r \in 0..n - 1, NEW s \in 0..n - 1,
         n * i + r = n * j + s
  PROVE  r = s
<1>1. ASSUME NEW k \in Int, NEW l \in Int, NEW u \in 0..n - 1, NEW v \in 0..n - 1,
             n * k + u = n * l + v, k < l
      PROVE  FALSE
  <2>1. /\ l - k \in Nat /\ l - k > 0
        /\ n * l = n * k + n * (l - k)
    BY <1>1
  <2>2. n * (l - k) >= n
    BY <2>1
  <2> QED BY <1>1, <2>1, <2>2
<1>2. i = j
  BY <1>1
<1> QED BY <1>2

-----------------------------------------------------------------------------
\* Congruence modulo the order of the group.
Same(a, b) == a % Order = b % Order

\* Numbers a multiple of the order apart are congruent.
LEMMA SameBy ==
  ASSUME NEW a \in Int, NEW b \in Int, NEW k \in Int, a = b + Order * k
  PROVE  Same(a, b)
<1> DEFINE i == a \div Order
           j == (b \div Order) + k
           r == a % Order
           s == b % Order
<1>1. r \in 0..Order - 1 /\ i \in Int /\ a = Order * i + r
  BY DivMod, CosignAssumption
<1>2. s \in 0..Order - 1 /\ j \in Int /\ b + Order * k = Order * j + s
  BY DivMod, CosignAssumption
<1> HIDE DEF i, j, r, s
<1>3. Order \in Nat /\ Order > 0 /\ Order * i + r = Order * j + s /\ j \in Int
  BY <1>1, <1>2, CosignAssumption
<1>4. r = s
  BY <1>1, <1>2, <1>3, OneRemainder
<1> QED BY <1>4 DEF Same, r, s

\* Congruent numbers are a multiple of the order apart.
LEMMA SameApart ==
  ASSUME NEW a \in Int, NEW b \in Int, Same(a, b)
  PROVE  \E k \in Int : a = b + Order * k
<1> DEFINE k == (a \div Order) - (b \div Order)
<1>1. /\ a % Order \in Int /\ a \div Order \in Int
      /\ a = Order * (a \div Order) + (a % Order)
  BY DivMod, CosignAssumption
<1>2. /\ b % Order \in Int /\ b \div Order \in Int
      /\ b = Order * (b \div Order) + (b % Order)
  BY DivMod, CosignAssumption
<1>3. k \in Int /\ a = b + Order * k
  BY <1>1, <1>2, CosignAssumption DEF Same
<1> QED BY <1>3

\* Congruence is kept by sums,
LEMMA SameSum ==
  ASSUME NEW a \in Int, NEW b \in Int, NEW c \in Int, NEW d \in Int, Same(a, b), Same(c, d)
  PROVE  Same(a + c, b + d)
<1>1. PICK k \in Int : a = b + Order * k
  BY SameApart
<1>2. PICK l \in Int : c = d + Order * l
  BY SameApart
<1>3. k + l \in Int /\ a + c = (b + d) + Order * (k + l)
  BY <1>1, <1>2, CosignAssumption
<1> QED BY <1>3, SameBy

\* by products,
LEMMA SameProduct ==
  ASSUME NEW a \in Int, NEW b \in Int, NEW c \in Int, NEW d \in Int, Same(a, b), Same(c, d)
  PROVE  Same(a * c, b * d)
<1>1. PICK k \in Int : a = b + Order * k
  BY SameApart
<1>2. PICK l \in Int : c = d + Order * l
  BY SameApart
<1> DEFINE m == b * l + k * d + Order * (k * l)
<1>3. m \in Int /\ a * c = b * d + Order * m
  BY <1>1, <1>2, CosignAssumption
<1> HIDE DEF m
<1>4. a * c \in Int /\ b * d \in Int
  OBVIOUS
<1> QED BY <1>3, <1>4, SameBy

\* and by a factor on either side.
LEMMA SameTimes ==
  ASSUME NEW a \in Int, NEW b \in Int, NEW x \in Int, Same(a, b)
  PROVE  /\ Same(a * x, b * x) /\ Same(x * a, x * b)
         /\ a * x \in Int /\ b * x \in Int /\ x * a \in Int /\ x * b \in Int
<1>1. Same(x, x)
  BY DEF Same
<1>2. Same(a * x, b * x) /\ Same(x * a, x * b)
  BY <1>1, SameProduct
<1> QED BY <1>2

\* A number is congruent to its remainder, a scalar.
LEMMA SameRemainder ==
  ASSUME NEW a \in Int
  PROVE  a % Order \in Scalars /\ Same(a % Order, a) /\ Same(a, a % Order)
<1>1. a % Order \in 0..Order - 1
  BY DivMod, CosignAssumption
<1>2. (a % Order) % Order = a % Order
  BY <1>1, CosignAssumption
<1> QED BY <1>1, <1>2 DEF Same, Scalars

\* Congruent scalars are the same.
LEMMA SameScalar ==
  ASSUME NEW p \in Scalars, NEW q \in Scalars, Same(p, q)
  PROVE  p = q
<1>1. p \in 0..Order - 1 /\ q \in 0..Order - 1
  BY DEF Scalars
<1>2. p % Order = p /\ q % Order = q
  BY <1>1, CosignAssumption
<1> QED BY <1>2 DEF Same

\* Congruence is transitive.
LEMMA SameThrough ==
  ASSUME NEW a, NEW b, NEW c, Same(a, b), Same(b, c)
  PROVE  Same(a, c)
BY DEF Same

\* Scalars are integers.
LEMMA ScalarInt == Scalars \subseteq Int
BY CosignAssumption DEF Scalars

-----------------------------------------------------------------------------
(* The operations of the group are those of the integers, up to congruence. *)

\* The sum of two points.
LEMMA Add ==
  ASSUME NEW p \in Int, NEW q \in Int
  PROVE  /\ padd(p, q) \in Scalars /\ padd(p, q) \in Int /\ p + q \in Int
         /\ Same(padd(p, q), p + q)
<1>1. p + q \in Int
  OBVIOUS
<1>2. padd(p, q) \in Scalars /\ Same(padd(p, q), p + q)
  BY <1>1, SameRemainder DEF padd
<1> QED BY <1>1, <1>2, ScalarInt

\* The multiple of a point.
LEMMA Multiply ==
  ASSUME NEW k \in Int, NEW p \in Int
  PROVE  /\ pmul(k, p) \in Scalars /\ pmul(k, p) \in Int /\ k * p \in Int
         /\ Same(pmul(k, p), k * p)
<1>1. k * p \in Int
  OBVIOUS
<1>2. pmul(k, p) \in Scalars /\ Same(pmul(k, p), k * p)
  BY <1>1, SameRemainder DEF pmul
<1> QED BY <1>1, <1>2, ScalarInt

\* The negative of a point.
LEMMA Negate ==
  ASSUME NEW p \in Int
  PROVE  pneg(p) \in Scalars /\ pneg(p) \in Int /\ -p \in Int /\ Same(pneg(p), -p)
<1>1. -p \in Int
  OBVIOUS
<1>2. pneg(p) \in Scalars /\ Same(pneg(p), -p)
  BY <1>1, SameRemainder DEF pneg
<1> QED BY <1>1, <1>2, ScalarInt

\* The negative of a point other than infinity.
LEMMA NegateScalar ==
  ASSUME NEW p \in Scalars, p # 0
  PROVE  pneg(p) = Order - p
<1>1. Order - p \in Scalars /\ p \in Int /\ Order \in Int
  BY CosignAssumption DEF Scalars
<1>2. Same(Order - p, -p)
  <2>1. Order - p \in Int /\ -p \in Int /\ Order - p = (-p) + Order * 1
    BY <1>1
  <2> QED BY <2>1, SameBy
<1>3. Same(Order - p, pneg(p))
  BY <1>1, <1>2, Negate DEF Same
<1> QED BY <1>1, <1>3, Negate, SameScalar

\* Of a point and its negative exactly one is even: multiplied with its sign, a
\* point becomes the one lift_x takes.
LEMMA Lift ==
  ASSUME NEW p \in Scalars
  PROVE  /\ lift_x(p) \in Scalars /\ ParitySign(p) \in Int
         /\ Same(ParitySign(p) * p, lift_x(p))
         /\ p # 0 => lift_x(p) # 0 /\ even_y(lift_x(p))
         /\ even_y(p) => lift_x(p) = p
<1>1. p \in Int /\ Order \in Int
  BY CosignAssumption DEF Scalars
<1>2. CASE even_y(p)
  <2>1. lift_x(p) = p /\ ParitySign(p) = 1 /\ ParitySign(p) * p = p
    BY <1>1, <1>2 DEF lift_x, ParitySign
  <2> QED BY <1>2, <2>1 DEF Same, even_y
<1>3. CASE ~even_y(p)
  <2>1. lift_x(p) = pneg(p) /\ ParitySign(p) = Order - 1
    BY <1>3 DEF lift_x, ParitySign
  <2>2. Same((Order - 1) * p, -p)
    <3>1. /\ (Order - 1) * p \in Int /\ -p \in Int
          /\ (Order - 1) * p = (-p) + Order * p
      BY <1>1
    <3> QED BY <1>1, <3>1, SameBy
  <2>3. lift_x(p) \in Scalars /\ Same((Order - 1) * p, lift_x(p))
    BY <1>1, <2>1, <2>2, Negate DEF Same
  <2>4. ASSUME p # 0
        PROVE  lift_x(p) # 0 /\ even_y(lift_x(p))
    <3>1. lift_x(p) = Order - p
      BY <2>1, <2>4, NegateScalar
    <3>2. PICK h \in Nat : Order = 2 * h + 1 /\ (Order - 1) \div 2 = h
      <4>1. /\ Order \div 2 \in Nat /\ Order = 2 * (Order \div 2) + 1
            /\ (Order - 1) \div 2 = Order \div 2
        BY CosignAssumption
      <4> QED BY <4>1
    <3>3. p > h /\ p < Order
      BY <1>1, <1>3, <2>4, <3>2, CosignAssumption DEF even_y, Scalars
    <3>4. Order - p \in 1..h
      BY <1>1, <3>2, <3>3
    <3> QED BY <3>1, <3>2, <3>4 DEF even_y
  <2> QED BY <1>1, <1>3, <2>1, <2>3, <2>4
<1> QED BY <1>2, <1>3

-----------------------------------------------------------------------------
(* One round.                                                              *)

\* The combined nonce of a signer is a scalar.
LEMMA Nonce ==
  ASSUME NEW k \in Int \X Int, NEW b \in Int
  PROVE  NonceAt(k, b) \in Scalars /\ NonceAt(k, b) \in Int
<1>1. k[1] \in Int /\ k[2] \in Int
  OBVIOUS
<1>2. pmul(b, k[2]) \in Int
  BY <1>1, Multiply
<1> QED BY <1>1, <1>2, Add DEF NonceAt

\* A partial is the nonce, with the sign of the aggregate, and the challenge times
\* the coefficient times the secret.
LEMMA PartialSame ==
  ASSUME NEW k \in Int \X Int, NEW b \in Int, NEW r \in Scalars, NEW e \in Int,
         NEW c \in Int, NEW x \in Int
  PROVE  /\ Partial(k, b, r, e, c, x) \in Scalars /\ Partial(k, b, r, e, c, x) \in Int
         /\ Same(Partial(k, b, r, e, c, x), ParitySign(r) * NonceAt(k, b) + e * (c * x))
<1>1. ParitySign(r) \in Int /\ NonceAt(k, b) \in Int
  BY Lift, Nonce, ScalarInt
<1>2. /\ pmul(ParitySign(r), NonceAt(k, b)) \in Int
      /\ Same(pmul(ParitySign(r), NonceAt(k, b)), ParitySign(r) * NonceAt(k, b))
  BY <1>1, Multiply
<1>3. pmul(c, x) \in Int /\ Same(pmul(c, x), c * x) /\ c * x \in Int
  BY Multiply
<1>4. /\ pmul(e, pmul(c, x)) \in Int /\ e * pmul(c, x) \in Int
      /\ Same(pmul(e, pmul(c, x)), e * pmul(c, x))
  BY <1>3, Multiply
<1>5. Same(e * pmul(c, x), e * (c * x)) /\ e * (c * x) \in Int
  BY <1>3, SameProduct DEF Same
<1>6. Same(pmul(e, pmul(c, x)), e * (c * x))
  BY <1>4, <1>5 DEF Same
<1>7. ParitySign(r) * NonceAt(k, b) \in Int
  BY <1>1
<1>8. Same(pmul(ParitySign(r), NonceAt(k, b)) + pmul(e, pmul(c, x)), ParitySign(r) * NonceAt(k, b) + e * (c * x))
  BY <1>2, <1>4, <1>5, <1>6, <1>7, SameSum
<1> QED BY <1>2, <1>4, <1>8, Add DEF Partial, Same

\* A partial verifies against the point of the secret it was made with.
LEMMA PartialVerifies ==
  ASSUME NEW k \in Int \X Int, NEW b \in Int, NEW r \in Scalars, NEW e \in Int,
         NEW c \in Int, NEW x \in Int
  PROVE  partial_verify(Partial(k, b, r, e, c, x), k, b, r, e, c, x)
<1>1. ParitySign(r) \in Int /\ NonceAt(k, b) \in Int
  BY Lift, Nonce, ScalarInt
<1> DEFINE s == Partial(k, b, r, e, c, x)
           n == pmul(ParitySign(r), NonceAt(k, b))
           l == pmul(pmul(e, c), x)
<1>2. s \in Int /\ Same(s, ParitySign(r) * NonceAt(k, b) + e * (c * x))
  BY PartialSame, ScalarInt
<1>3. n \in Int /\ Same(n, ParitySign(r) * NonceAt(k, b)) /\ ParitySign(r) * NonceAt(k, b) \in Int
  BY <1>1, Multiply
<1>4. pmul(e, c) \in Int /\ Same(pmul(e, c), e * c) /\ e * c \in Int
  BY Multiply
<1>5. l \in Int /\ Same(l, pmul(e, c) * x) /\ Same(pmul(e, c) * x, (e * c) * x)
  <2>1. l \in Int /\ Same(l, pmul(e, c) * x)
    BY <1>4, Multiply
  <2>2. Same(pmul(e, c) * x, (e * c) * x)
    BY <1>4, SameTimes
  <2> QED BY <2>1, <2>2
<1>6. (e * c) * x = e * (c * x) /\ e * (c * x) \in Int
  OBVIOUS
<1>7. Same(n + l, ParitySign(r) * NonceAt(k, b) + e * (c * x))
  BY <1>3, <1>5, <1>6, SameSum DEF Same
<1>8. padd(n, l) \in Scalars /\ Same(padd(n, l), n + l)
  BY <1>3, <1>5, Add
<1>9. pmul(s, G) \in Scalars /\ Same(pmul(s, G), s)
  <2>1. ASSUME NEW z \in Int
        PROVE  pmul(z, G) \in Scalars /\ Same(pmul(z, G), z)
    <3>1. z * G = z /\ G \in Int
      BY DEF G
    <3> QED BY <3>1, Multiply
  <2> QED BY <1>2, <2>1
<1>10. Same(pmul(s, G), padd(n, l))
  BY <1>2, <1>7, <1>8, <1>9 DEF Same
<1>11. pmul(s, G) = padd(n, l)
  BY <1>8, <1>9, <1>10, SameScalar
<1> QED BY <1>11 DEF partial_verify

\* The aggregate key of a session is what its keys were made for.
Fits(internal, keys) ==
  /\ keys.q \in Scalars /\ keys.fold \in Int /\ keys.term \in Int
  /\ Same(keys.fold * internal + keys.term, lift_x(keys.q))

\* session_keys makes keys that fit, tweaked or not: the fold of both signs and the
\* term of the tweak turn the internal key into the one that verifies.
LEMMA SessionKeysFit ==
  ASSUME NEW internal \in Scalars, NEW tweaked \in BOOLEAN, NEW t \in Int
  PROVE  Fits(internal, session_keys(internal, tweaked, t))
<1> DEFINE h == IF tweaked THEN ParitySign(internal) ELSE 1
           q == IF tweaked THEN padd(pmul(h, internal), pmul(t, G)) ELSE internal
           g == ParitySign(q)
<1>1. internal \in Int /\ h \in Int
  <2>1. ParitySign(internal) \in Int
    BY Lift
  <2> QED BY <2>1, ScalarInt
<1>2. q \in Scalars /\ Same(q, h * internal + (IF tweaked THEN t ELSE 0))
  <2>1. CASE ~tweaked
    BY <1>1, <2>1 DEF Same
  <2>2. CASE tweaked
    <3>1. pmul(h, internal) \in Int /\ Same(pmul(h, internal), h * internal) /\ h * internal \in Int
      BY <1>1, Multiply
    <3>2. pmul(t, G) \in Int /\ Same(pmul(t, G), t)
      <4>1. t * G = t /\ G \in Int
        BY DEF G
      <4> QED BY <4>1, Multiply
    <3>3. Same(pmul(h, internal) + pmul(t, G), h * internal + t)
      BY <3>1, <3>2, SameSum
    <3>4. q \in Scalars /\ Same(q, pmul(h, internal) + pmul(t, G))
      BY <2>2, <3>1, <3>2, Add
    <3> QED BY <2>2, <3>3, <3>4 DEF Same
  <2> QED BY <2>1, <2>2
<1> HIDE DEF q, h
<1>3. g \in Int /\ Same(g * q, lift_x(q)) /\ q \in Int
  BY <1>2, Lift, ScalarInt
<1> HIDE DEF g
<1> DEFINE u == IF tweaked THEN t ELSE 0
           fold == pmul(g, h)
           term == IF tweaked THEN pmul(g, t) ELSE 0
<1>4. u \in Int /\ g * u \in Int /\ term \in Int /\ Same(term, g * u)
  <2>1. CASE tweaked
    BY <1>3, <2>1, Multiply
  <2>2. CASE ~tweaked
    BY <1>3, <2>2 DEF Same
  <2> QED BY <2>1, <2>2
<1>5. fold \in Int /\ Same(fold, g * h) /\ g * h \in Int
  BY <1>1, <1>3, Multiply
<1> HIDE DEF fold
<1>6. Same(fold * internal, (g * h) * internal) /\ fold * internal \in Int /\ (g * h) * internal \in Int
  BY <1>1, <1>5, SameTimes
<1>7. Same(fold * internal + term, (g * h) * internal + g * u)
  BY <1>4, <1>6, SameSum
<1>8. (g * h) * internal + g * u = g * (h * internal + u) /\ h * internal + u \in Int
  BY <1>1, <1>3, <1>4
<1>9. Same(g * (h * internal + u), g * q)
  <2>1. Same(h * internal + u, q)
    BY <1>2 DEF Same
  <2> QED BY <1>3, <1>8, <2>1, SameProduct DEF Same
<1>10. Same(fold * internal + term, lift_x(q))
  BY <1>3, <1>7, <1>8, <1>9 DEF Same
<1>11. session_keys(internal, tweaked, t) = [q |-> q, fold |-> fold, term |-> term]
  BY DEF session_keys, q, h, g, fold
<1> HIDE DEF fold, term
<1> QED BY <1>2, <1>4, <1>5, <1>10, <1>11 DEF Fits

\* Without a fold they fit where the aggregate is even.
LEMMA ProofKeysFit ==
  ASSUME NEW internal \in Scalars, even_y(internal)
  PROVE  Fits(internal, proof_keys(internal))
<1>1. internal \in Int /\ lift_x(internal) = internal
  BY Lift, ScalarInt
<1>2. 1 * internal + 0 = internal
  BY <1>1
<1> QED BY <1>1, <1>2 DEF Fits, proof_keys, Same

\* Twice the same sum: the coefficients with the fold in them, or the fold times
\* the aggregate key.
LEMMA KeySum ==
  ASSUME NEW x \in Int, NEW y \in Int, NEW a \in Int \X Int, NEW f \in Int
  PROVE  /\ keyagg(x, y, a) \in Scalars
         /\ pmul(a[1], f) * x + pmul(a[2], f) * y \in Int
         /\ Same(pmul(a[1], f) * x + pmul(a[2], f) * y, f * keyagg(x, y, a))
<1> DEFINE a1 == a[1]
           a2 == a[2]
           k == keyagg(x, y, a)
<1>1. a1 \in Int /\ a2 \in Int
  OBVIOUS
<1>2. k = padd(pmul(a1, x), pmul(a2, y))
  BY DEF keyagg
<1> HIDE DEF a1, a2, k
<1>3. /\ pmul(a1, x) \in Int /\ a1 * x \in Int /\ Same(pmul(a1, x), a1 * x)
      /\ pmul(a2, y) \in Int /\ a2 * y \in Int /\ Same(pmul(a2, y), a2 * y)
  BY <1>1, Multiply
<1>4. k \in Scalars /\ k \in Int /\ Same(k, a1 * x + a2 * y) /\ a1 * x + a2 * y \in Int
  <2>1. k \in Scalars /\ k \in Int /\ Same(k, pmul(a1, x) + pmul(a2, y))
    BY <1>2, <1>3, Add
  <2>2. Same(pmul(a1, x) + pmul(a2, y), a1 * x + a2 * y)
    BY <1>3, SameSum
  <2> QED BY <1>3, <2>1, <2>2, SameThrough
<1>5. ASSUME NEW c \in Int, NEW z \in Int
      PROVE  /\ pmul(c, f) * z \in Int /\ f * (c * z) \in Int
             /\ Same(pmul(c, f) * z, f * (c * z))
  <2>1. pmul(c, f) \in Int /\ c * f \in Int /\ Same(pmul(c, f), c * f)
    BY Multiply
  <2>2. Same(pmul(c, f) * z, (c * f) * z) /\ pmul(c, f) * z \in Int
    BY <2>1, SameTimes
  <2>3. (c * f) * z = f * (c * z) /\ f * (c * z) \in Int
    OBVIOUS
  <2> QED BY <2>2, <2>3
<1>6. /\ pmul(a1, f) * x + pmul(a2, f) * y \in Int
      /\ Same(pmul(a1, f) * x + pmul(a2, f) * y, f * (a1 * x) + f * (a2 * y))
  <2>1. /\ pmul(a1, f) * x \in Int /\ f * (a1 * x) \in Int
        /\ pmul(a2, f) * y \in Int /\ f * (a2 * y) \in Int
        /\ Same(pmul(a1, f) * x, f * (a1 * x)) /\ Same(pmul(a2, f) * y, f * (a2 * y))
    BY <1>1, <1>5
  <2>2. Same(pmul(a1, f) * x + pmul(a2, f) * y, f * (a1 * x) + f * (a2 * y))
    BY <2>1, SameSum
  <2> QED BY <2>1, <2>2
<1>7. f * (a1 * x) + f * (a2 * y) = f * (a1 * x + a2 * y)
  BY <1>3
<1>8. Same(f * (a1 * x + a2 * y), f * k)
  <2>1. Same(a1 * x + a2 * y, k)
    BY <1>4 DEF Same
  <2> QED BY <1>4, <2>1, SameTimes
<1>9. Same(pmul(a1, f) * x + pmul(a2, f) * y, f * k)
  BY <1>6, <1>7, <1>8, SameThrough
<1> QED BY <1>4, <1>6, <1>9 DEF k, a1, a2

\* The two partials and the term of the tweak add up to a signature of the nonce
\* and the key that lift_x takes.
LEMMA SignatureSum ==
  ASSUME NEW n1 \in Int, NEW n2 \in Int, NEW sr \in Int, NEW r \in Int, Same(r, n1 + n2),
         NEW e \in Int, NEW d1 \in Int, NEW d2 \in Int, NEW fk \in Int, Same(d1 + d2, fk),
         NEW term \in Int, NEW rx \in Int, NEW qx \in Int,
         Same(sr * r, rx), Same(fk + term, qx),
         NEW s1 \in Int, NEW s2 \in Int,
         Same(s1, sr * n1 + e * d1), Same(s2, sr * n2 + e * d2)
  PROVE  Same((s1 + s2) + e * term, rx + e * qx)
<1>1. /\ sr * n1 + e * d1 \in Int /\ sr * n2 + e * d2 \in Int
      /\ e * term \in Int /\ e * qx \in Int /\ s1 + s2 \in Int /\ n1 + n2 \in Int
      /\ sr * r \in Int /\ sr * (n1 + n2) \in Int /\ d1 + d2 \in Int /\ fk + term \in Int
      /\ e * (fk + term) \in Int /\ (d1 + d2) + term \in Int /\ e * ((d1 + d2) + term) \in Int
  OBVIOUS
<1>2. Same(s1 + s2, (sr * n1 + e * d1) + (sr * n2 + e * d2))
  BY <1>1, SameSum
<1>3. Same((s1 + s2) + e * term, ((sr * n1 + e * d1) + (sr * n2 + e * d2)) + e * term)
  <2>1. Same(e * term, e * term)
    BY DEF Same
  <2>2. (sr * n1 + e * d1) + (sr * n2 + e * d2) \in Int
    BY <1>1
  <2> QED BY <1>1, <1>2, <2>1, <2>2, SameSum
<1>4. ((sr * n1 + e * d1) + (sr * n2 + e * d2)) + e * term
        = sr * (n1 + n2) + e * ((d1 + d2) + term)
  OBVIOUS
<1>5. Same(sr * (n1 + n2), rx)
  <2>1. Same(n1 + n2, r)
    BY DEF Same
  <2>2. Same(sr * (n1 + n2), sr * r)
    BY <1>1, <2>1, SameTimes
  <2> QED BY <2>2, SameThrough
<1>6. Same(e * ((d1 + d2) + term), e * qx)
  <2>1. Same(term, term)
    BY DEF Same
  <2>2. Same((d1 + d2) + term, fk + term)
    BY <1>1, <2>1, SameSum
  <2>3. Same((d1 + d2) + term, qx)
    BY <2>2, SameThrough
  <2> QED BY <1>1, <2>3, SameTimes
<1>7. Same(sr * (n1 + n2) + e * ((d1 + d2) + term), rx + e * qx)
  BY <1>1, <1>5, <1>6, SameSum
<1> QED BY <1>3, <1>4, <1>7, SameThrough

\* bip340_verify recovers the nonce from a signature that is congruent to it plus
\* the challenge times the key.
LEMMA Recovers ==
  ASSUME NEW r \in Scalars, r # 0, NEW q \in Scalars, NEW e \in Int, NEW s \in Int,
         Same(s, lift_x(r) + e * lift_x(q))
  PROVE  bip340_verify(lift_x(r), s, e, q)
<1> DEFINE rx == lift_x(r)
           qx == lift_x(q)
           n == pneg(pmul(e, qx))
<1>1. rx \in Scalars /\ rx # 0 /\ even_y(rx) /\ qx \in Scalars /\ rx \in Int /\ qx \in Int
  BY Lift, ScalarInt
<1>2. Same(s, rx + e * qx)
  OBVIOUS
<1>3. bip340_verify(rx, s, e, q) <=> LET R == padd(pmul(s, G), n)
                                     IN  R # infinity /\ even_y(R) /\ R = rx
  BY DEF bip340_verify
<1> HIDE DEF rx, qx
<1>4. pmul(s, G) \in Int /\ Same(pmul(s, G), s)
  <2>1. s * G = s /\ G \in Int
    BY DEF G
  <2> QED BY <2>1, Multiply
<1>5. n \in Int /\ Same(n, -(e * qx)) /\ e * qx \in Int
  <2>1. pmul(e, qx) \in Int /\ e * qx \in Int /\ Same(pmul(e, qx), e * qx)
    BY <1>1, Multiply
  <2>2. n \in Int /\ -pmul(e, qx) \in Int /\ Same(n, -pmul(e, qx))
    BY <2>1, Negate
  <2>3. Same(-pmul(e, qx), -(e * qx))
    <3>1. -1 \in Int /\ Same((-1) * pmul(e, qx), (-1) * (e * qx))
      BY <2>1, SameTimes
    <3>2. (-1) * pmul(e, qx) = -pmul(e, qx) /\ (-1) * (e * qx) = -(e * qx)
      BY <2>1
    <3> QED BY <3>1, <3>2
  <2> QED BY <2>1, <2>2, <2>3, SameThrough
<1> HIDE DEF n
<1>6. Same(pmul(s, G) + n, (rx + e * qx) + (-(e * qx)))
  <2>1. Same(pmul(s, G), rx + e * qx) /\ rx + e * qx \in Int /\ -(e * qx) \in Int
    BY <1>1, <1>2, <1>4, <1>5, SameThrough
  <2> QED BY <1>4, <1>5, <2>1, SameSum
<1>7. (rx + e * qx) + (-(e * qx)) = rx
  BY <1>1, <1>5
<1>8. padd(pmul(s, G), n) \in Scalars /\ Same(padd(pmul(s, G), n), pmul(s, G) + n)
  BY <1>4, <1>5, Add
<1>9. padd(pmul(s, G), n) = rx
  BY <1>1, <1>6, <1>7, <1>8, SameScalar, SameThrough
<1>10. bip340_verify(rx, s, e, q)
  BY <1>1, <1>3, <1>9 DEF infinity
<1> QED BY <1>10 DEF rx

\* What a round starts from, whatever the hashes are.
Inputs(m) ==
  /\ m.card \in Int /\ m.client \in Int /\ m.a \in Int \X Int
  /\ m.kCard \in Int \X Int /\ m.kClient \in Int \X Int
  /\ m.b \in Int /\ m.e \in Int /\ m.t \in Int

\* An honest round whose nonces do not cancel verifies, its two partials and its
\* signature, for all secrets, coefficients, hashes and keys that fit.
LEMMA RoundVerifies ==
  ASSUME NEW m, Inputs(m), NEW keys, Fits(keyagg(m.card, m.client, m.a), keys),
         ~InfiniteNonce(m.kCard, m.kClient, m.b)
  PROVE  FinalOk(m, Session(m, keys)) /\ PartialsOk(m, Session(m, keys))
<1> DEFINE s == Session(m, keys)
           n1 == NonceAt(m.kCard, m.b)
           n2 == NonceAt(m.kClient, m.b)
           r == AggregateNonce(m.kCard, m.kClient, m.b)
           c1 == pmul(m.a[1], keys.fold)
           c2 == pmul(m.a[2], keys.fold)
           p1 == Partial(m.kCard, m.b, r, m.e, c1, m.card)
           p2 == Partial(m.kClient, m.b, r, m.e, c2, m.client)
<1>1. s = [r |-> r, keys |-> keys, coeffs |-> <<c1, c2>>, card |-> p1, client |-> p2]
  BY DEF Session
<1>2. n1 \in Int /\ n2 \in Int
  BY Nonce DEF Inputs
<1>3. r = padd(n1, n2) /\ r # 0
  BY DEF AggregateNonce, InfiniteNonce, infinity
<1>4. r \in Scalars /\ r \in Int /\ Same(r, n1 + n2)
  BY <1>2, <1>3, Add
<1>5. m.a[1] \in Int /\ m.a[2] \in Int /\ keys.fold \in Int /\ keys.term \in Int /\ keys.q \in Scalars
  BY DEF Inputs, Fits
<1>6. c1 \in Int /\ c2 \in Int
  BY <1>5, Multiply
<1> HIDE DEF s, r, c1, c2
<1>7. /\ p1 \in Int /\ Same(p1, ParitySign(r) * n1 + m.e * (c1 * m.card))
      /\ p2 \in Int /\ Same(p2, ParitySign(r) * n2 + m.e * (c2 * m.client))
  BY <1>4, <1>6, PartialSame DEF Inputs
<1>8. /\ partial_verify(p1, m.kCard, m.b, r, m.e, c1, m.card)
      /\ partial_verify(p2, m.kClient, m.b, r, m.e, c2, m.client)
  BY <1>4, <1>6, PartialVerifies DEF Inputs
<1>9. /\ ParitySign(r) \in Int /\ lift_x(r) \in Int /\ Same(ParitySign(r) * r, lift_x(r))
      /\ lift_x(keys.q) \in Int
  BY <1>4, <1>5, Lift, ScalarInt
<1> DEFINE k == keyagg(m.card, m.client, m.a)
<1>10. k \in Int /\ keys.fold * k \in Int /\ Same(c1 * m.card + c2 * m.client, keys.fold * k)
  <2>1. k \in Int
    BY <1>5, KeySum, ScalarInt DEF Inputs
  <2>2. keys.fold * k \in Int
    BY <1>5, <2>1
  <2>3. Same(c1 * m.card + c2 * m.client, keys.fold * k)
    BY <1>5, KeySum DEF Inputs, c1, c2
  <2> QED BY <2>1, <2>2, <2>3
<1>11. Same(keys.fold * k + keys.term, lift_x(keys.q))
  BY DEF Fits
<1> HIDE DEF n1, n2, p1, p2, k
<1>12. m.card \in Int /\ m.client \in Int /\ m.e \in Int /\ c1 * m.card \in Int /\ c2 * m.client \in Int
  BY <1>6 DEF Inputs
<1>13. Same((p1 + p2) + m.e * keys.term, lift_x(r) + m.e * lift_x(keys.q))
  <2> DEFINE sr == ParitySign(r)
             e == m.e
             d1 == c1 * m.card
             d2 == c2 * m.client
             fk == keys.fold * k
             term == keys.term
             rx == lift_x(r)
             qx == lift_x(keys.q)
  <2>1. /\ n1 \in Int /\ n2 \in Int /\ sr \in Int /\ r \in Int /\ e \in Int /\ d1 \in Int /\ d2 \in Int
        /\ fk \in Int /\ term \in Int /\ rx \in Int /\ qx \in Int /\ p1 \in Int /\ p2 \in Int
    BY <1>2, <1>4, <1>5, <1>7, <1>9, <1>10, <1>12
  <2>2. /\ Same(r, n1 + n2) /\ Same(d1 + d2, fk) /\ Same(sr * r, rx) /\ Same(fk + term, qx)
        /\ Same(p1, sr * n1 + e * d1) /\ Same(p2, sr * n2 + e * d2)
    BY <1>4, <1>7, <1>9, <1>10, <1>11
  <2> HIDE DEF sr, e, d1, d2, fk, term, rx, qx
  <2>3. Same((p1 + p2) + e * term, rx + e * qx)
    BY <2>1, <2>2, SignatureSum, ZenonT(120)
  <2> QED BY <2>3 DEF e, term, rx, qx
<1> DEFINE t == pmul(m.e, keys.term)
           sig == padd(padd(p1, p2), t)
<1>14. sig \in Int /\ Same(sig, (p1 + p2) + m.e * keys.term)
  <2>1. padd(p1, p2) \in Int /\ p1 + p2 \in Int /\ Same(padd(p1, p2), p1 + p2)
    BY <1>7, Add
  <2>2. t \in Int /\ m.e * keys.term \in Int /\ Same(t, m.e * keys.term)
    BY <1>5, <1>12, Multiply
  <2>3. sig \in Int /\ Same(sig, padd(p1, p2) + t)
    BY <2>1, <2>2, Add
  <2>4. Same(padd(p1, p2) + t, (p1 + p2) + m.e * keys.term)
    BY <2>1, <2>2, SameSum
  <2> QED BY <2>3, <2>4, SameThrough
<1>15. Signature(m, s) = sig
  BY <1>1 DEF Signature
<1> HIDE DEF sig
<1>16. bip340_verify(lift_x(r), sig, m.e, keys.q)
  <2>1. Same(sig, lift_x(r) + m.e * lift_x(keys.q))
    BY <1>13, <1>14, SameThrough
  <2> QED BY <1>3, <1>4, <1>5, <1>12, <1>14, <2>1, Recovers
<1>17. FinalOk(m, s)
  BY <1>1, <1>15, <1>16 DEF FinalOk
<1>18. PartialsOk(m, s)
  <2>1. /\ s.card = p1 /\ s.client = p2 /\ s.r = r /\ s.coeffs[1] = c1 /\ s.coeffs[2] = c2
    BY <1>1
  <2> QED BY <1>8, <2>1 DEF PartialsOk, n1, n2, p1, p2
<1> QED BY <1>17, <1>18 DEF s

\* Each script, whatever its keys, nonces, coefficients, tweak and challenge are,
\* fails only where the sum of the nonces is infinite.
LEMMA ScriptsVerify ==
  ASSUME NEW m, Inputs(m), ~InfiniteNonce(m.kCard, m.kClient, m.b)
  PROVE  /\ cosign_tweaked(m) # "failed" /\ musig2_round(m) # "failed"
         /\ \A tweaked \in BOOLEAN : run_case(m, tweaked) # "failed"
         /\ cosign_proof(m) # "failed"
<1> DEFINE k == keyagg(m.card, m.client, m.a)
<1>1. k \in Scalars
  BY KeySum DEF Inputs
<1>2. ASSUME NEW tweaked \in BOOLEAN, NEW t \in Int
      PROVE  /\ FinalOk(m, Session(m, session_keys(k, tweaked, t)))
             /\ PartialsOk(m, Session(m, session_keys(k, tweaked, t)))
  BY <1>1, SessionKeysFit, RoundVerifies
<1>3. ASSUME ProofKeysOk(m.card, k)
      PROVE  /\ FinalOk(m, Session(m, proof_keys(k)))
             /\ PartialsOk(m, Session(m, proof_keys(k)))
  <2>1. Fits(k, proof_keys(k))
    BY <1>1, <1>3, ProofKeysFit DEF ProofKeysOk
  <2> QED BY <2>1, RoundVerifies
<1> HIDE DEF k
<1>4. m.t \in Int /\ 0 \in Int
  BY DEF Inputs
<1>5. cosign_tweaked(m) # "failed"
  BY <1>2, <1>4 DEF cosign_tweaked, Status, k
<1>6. musig2_round(m) # "failed"
  BY <1>2, <1>4 DEF musig2_round, Status, k
<1>7. ASSUME NEW tweaked \in BOOLEAN
      PROVE  run_case(m, tweaked) # "failed"
  BY <1>2, <1>4 DEF run_case, Status, k
<1>8. cosign_proof(m) # "failed"
  BY <1>3 DEF cosign_proof, Status, k
<1> QED BY <1>5, <1>6, <1>7, <1>8

-----------------------------------------------------------------------------
(* 3. The bridges and scripts.                                             *)

\* What is left of a script: it reads or makes a key first, a FINALIZE follows
\* the nonces it is for, and the PIN is set alone.
Shape(q) ==
  /\ \A i \in 2..Len(q.todo) : /\ q.todo[i] \in {"nonces", "finalize"}
                               /\ q.todo[i] = "finalize" => q.todo[i - 1] = "nonces"
  /\ q.todo # <<>> =>
       /\ Head(q.todo) = "setpin" => Len(q.todo) = 1
       /\ Head(q.todo) = "keygen" => q.driver.token = 0
       /\ Head(q.todo) = "finalize" => q.driver.token # 0 /\ q.pc = "run"

\* A bridge does what its request says, and nothing else.
Requested(q) ==
  /\ q.op = "finalize" => q.pc = "run" /\ q.payload = q.driver.token
  /\ q.todo # <<>> => q.todo = <<q.op>>
  /\ q.op = "fido" <=> q.pc = "fido"
  /\ q.pc = "idle" => q.op = "none"
  /\ q.pc # "combine"

\* Every other process is a script that connects once.
Scripted(q) ==
  /\ q.pc = "open" => q.todo # <<>> /\ Head(q.todo) \in {"pubkey", "keygen", "setpin"}
  /\ q.pc \notin {"idle", "fido"}
  /\ q.kind \notin {"sign", "arkade", "proof"} =>
       /\ q.pc # "combine"
       /\ q.todo # <<>> => Len(q.todo) = 1 /\ Head(q.todo) \in {"pubkey", "setpin"}

\* The tries a wrong PIN has cost in this request.
Spending(q) ==
  /\ q.attempt = 1 => q.kind = "bridge"
  /\ q.spent <= IF q.kind = "bridge" THEN 2 ELSE 1
  /\ q.pc \notin {"idle", "ended"} => q.spent <= q.attempt
  /\ q.pc = "idle" => q.spent <= IF q.kind = "bridge" THEN 1 ELSE 0
  /\ q.pc \in {"idle", "fido"} => q.attempt = 0
  /\ q.pc = "open" /\ q.attempt = 1 => q.op # "none"

\* Nothing has gone wrong yet, and the client was given the token the driver has.
Clean(q) ==
  /\ ~q.twice /\ ~q.mixed
  /\ q.result = "failed" => q.excused
  /\ q.driver.token # 0 => q.given = q.driver.token

\* What holds of every process by itself.
Local(q) ==
  /\ q.pc = "run" => q.todo # <<>>
  /\ q.todo # <<>> => q.pc \in {"open", "run"}
  /\ Shape(q)
  /\ q.kind \in {"bridge", "e2e"} => Requested(q)
  /\ q.kind \notin {"bridge", "e2e"} => Scripted(q)
  /\ Spending(q) /\ Clean(q)

\* A connection is of this epoch or an earlier one.
Epochs == \A p \in Processes : process[p].driver.conn <= drops + 1

\* Nonce pairs are numbered as they are drawn, and a token is in one place.
TokensApart ==
  /\ \A c \in Cards : applet[c].nonce <= pairs
  /\ \A p \in Processes :
       /\ process[p].driver.token <= pairs
       /\ process[p].tokens \subseteq 1..pairs
       /\ \A r \in Processes : process[p].driver.token \notin process[r].tokens
       /\ \A r \in Processes \ {p} :
            /\ process[p].driver.token # 0 => process[p].driver.token # process[r].driver.token
            /\ process[p].tokens \cap process[r].tokens = {}

\* A script that is past its key has read it from the card in the reader.
KeyRead ==
  \A p \in Processes :
    Alive(p) /\ ~Serves(p) /\ Running(p) /\ Cmd(p) \in {"nonces", "finalize"} =>
      process[p].read = inserted

\* The inductive invariant.
BridgeInv ==
  /\ BridgeTypeOK
  /\ \A p \in Processes : Local(process[p])
  /\ Epochs /\ TokensApart /\ KeyRead /\ DriverView

\* The card in the reader is a card.
LEMMA CardType ==
  ASSUME BridgeTypeOK, inserted # NoCard
  PROVE  inserted \in Cards /\ card \in Applet
  BY DEF BridgeTypeOK, card

\* A process as it starts.
LEMMA StartFields ==
  ASSUME NEW kind \in Kinds \cup {"none"}, NEW rightPin \in BOOLEAN
  PROVE  Start(kind, rightPin) \in State
  <1>1. NoDriver \in Driver
    BY BridgeAssumption DEF NoDriver, Driver
  <1>2. <<>> \in Seq(Commands)
    OBVIOUS
  <1> QED BY <1>1, <1>2, BridgeAssumption DEF Start, State, PC, Ops

\* A process at its end.
LEMMA EndedFields ==
  ASSUME NEW q \in State
  PROVE  /\ Ended(q) \in State
         /\ Ended(q).pc = "ended" /\ Ended(q).kind = q.kind /\ Ended(q).driver = NoDriver
         /\ Ended(q).todo = <<>> /\ Ended(q).op = "none" /\ Ended(q).attempt = 0
         /\ Ended(q).spent = q.spent /\ Ended(q).tokens = q.tokens /\ Ended(q).twice = q.twice
         /\ Ended(q).mixed = q.mixed /\ Ended(q).result = "none"
  <1> DEFINE s == Start(q.kind, TRUE)
  <1>1. s \in State
    BY StartFields DEF State
  <1>2. /\ "ended" \in PC /\ q.spent \in Nat /\ q.tokens \in SUBSET (1..MaxNonces)
        /\ q.twice \in BOOLEAN /\ q.mixed \in BOOLEAN
    BY DEF State, PC
  <1>3. Ended(q) = [s EXCEPT !.pc = "ended", !.spent = q.spent, !.tokens = q.tokens,
                            !.twice = q.twice, !.mixed = q.mixed]
    BY DEF Ended
  <1> HIDE DEF s
  <1>4. Ended(q) \in State
    BY ZenonT(40), <1>1, <1>2, <1>3 DEF State
  <1> USE DEF s
  <1> QED BY <1>4 DEF Ended, Start

\* A process after an exception: at its end, or opening the card once more.
LEMMA RaisedFields ==
  ASSUME NEW q \in State
  PROVE  /\ Raised(q) \in State
         /\ Raised(q).kind = q.kind /\ Raised(q).driver = NoDriver
         /\ Raised(q).todo = <<>> 
         /\ Raised(q).spent = q.spent /\ Raised(q).tokens = q.tokens /\ Raised(q).twice = q.twice
         /\ Raised(q).mixed = q.mixed /\ Raised(q).result \in {q.result, "none"}
         /\ Raised(q).result = q.result => Raised(q).excused = q.excused \/ q.result = "none"
         /\ \/ Raised(q).pc = "ended" /\ Raised(q).op = "none" /\ Raised(q).attempt = 0
            \/ /\ Raised(q).pc = "open" /\ Raised(q).op = q.op /\ Raised(q).attempt = 1
               /\ q.attempt = 0 /\ q.kind = "bridge" /\ q.op \in {"pubkey", "nonces"}
  <1>1. NoDriver \in Driver
    BY BridgeAssumption DEF NoDriver, Driver
  <1>2. <<>> \in Seq(Commands)
    OBVIOUS
  <1>3. CASE q.kind = "bridge" /\ q.op \in {"pubkey", "nonces"} /\ q.attempt = 0
    <2> DEFINE r == [q EXCEPT !.pc = "open", !.attempt = 1, !.driver = NoDriver, !.todo = <<>>]
    <2>1. Raised(q) = r
      BY <1>3 DEF Raised
    <2>2. r \in State
      BY <1>1, <1>2 DEF State, PC
    <2> QED BY <1>3, <2>1, <2>2 DEF State
  <1>4. CASE ~(q.kind = "bridge" /\ q.op \in {"pubkey", "nonces"} /\ q.attempt = 0)
    <2>1. Raised(q) = Ended(q)
      BY <1>4 DEF Raised
    <2> QED BY <2>1, EndedFields
  <1> QED BY <1>3, <1>4

\* Either keeps what holds of every process.
LEMMA EndedLocal ==
  ASSUME NEW q \in State, Clean(q), q.spent <= IF q.kind = "bridge" THEN 2 ELSE 1
  PROVE  Ended(q) \in State /\ Local(Ended(q))
  <1>1. Len(Ended(q).todo) = 0
    BY EndedFields
  <1>2. Ended(q).driver.token = 0
    BY EndedFields DEF NoDriver
  <1>3. Ended(q) \in State /\ q.spent \in Nat
    BY EndedFields DEF State
  <1>4. Clean(Ended(q))
    BY <1>2, EndedFields DEF Clean
  <1> QED BY <1>1, <1>2, <1>3, <1>4, EndedFields DEF Local, Shape, Requested, Scripted, Spending

\* The same after an exception, when the request has spent no more tries than it made
\* attempts.
LEMMA RaisedLocal ==
  ASSUME NEW q \in State, Clean(q), q.attempt = 1 => q.kind = "bridge", q.spent <= q.attempt + 1
  PROVE  Raised(q) \in State /\ Local(Raised(q))
  <1>1. Len(Raised(q).todo) = 0
    BY RaisedFields
  <1>2. Raised(q).driver.token = 0
    BY RaisedFields DEF NoDriver
  <1>3. Raised(q) \in State /\ q.spent \in Nat /\ q.attempt \in {0, 1}
    BY RaisedFields DEF State
  <1>4. Clean(Raised(q))
    BY <1>2, RaisedFields DEF Clean
  <1> QED BY <1>1, <1>2, <1>3, <1>4, RaisedFields DEF Local, Shape, Requested, Scripted, Spending

\* What a process does with its token: it keeps or forgets it, sends it, or gets
\* the one that was drawn.
TokenMoves(q, r) ==
  \/ r.driver.token = q.driver.token /\ r.tokens = q.tokens
  \/ r.driver.token = 0 /\ r.tokens \subseteq q.tokens \cup ({q.driver.token} \ {0})
  \/ r.driver.token = pairs + 1 /\ pairs' = pairs + 1 /\ r.tokens = q.tokens

\* What a process with a connection believes of a card that nobody else used.
ViewMoves(p, r) ==
  r.driver.conn = drops + 1 /\ inserted # NoCard /\ applet'[inserted].users = {p} =>
    /\ r.driver.verified => applet'[inserted].verified
    /\ r.driver.token # 0 => applet'[inserted].nonce = r.driver.token

\* Past the key of a script, the key is that of the card in the reader.
KeyMoves(r) ==
  r.driver.conn = drops + 1 /\ inserted # NoCard /\ r.kind \notin {"bridge", "e2e"} =>
    (r.pc = "run" /\ Head(r.todo) \in {"nonces", "finalize"} => r.read = inserted)

\* A step of one process to the state r.
Moves(p, r) ==
  /\ r \in State /\ Local(r) /\ TokenMoves(process[p], r)
  /\ r.driver.conn \in {0, process[p].driver.conn, drops + 1}
  /\ ViewMoves(p, r) /\ KeyMoves(r)

\* Without a connection there is nothing to believe.
LEMMA Disconnected ==
  ASSUME BridgeInv, NEW p, NEW r, r.driver.conn = 0
  PROVE  ViewMoves(p, r) /\ KeyMoves(r)
  <1>1. drops \in Nat
    BY DEF BridgeInv, BridgeTypeOK
  <1>2. r.driver.conn # drops + 1
    BY <1>1
  <1> QED BY <1>2 DEF ViewMoves, KeyMoves

\* To end is such a step.
LEMMA EndedMoves ==
  ASSUME BridgeInv, NEW p \in Processes, NEW q \in State, Clean(q), q.spent <= IF q.kind = "bridge" THEN 2 ELSE 1,
         q.tokens \subseteq process[p].tokens \cup ({process[p].driver.token} \ {0})
  PROVE  Moves(p, Ended(q))
  <1>1. NoDriver.token = 0 /\ NoDriver.conn = 0
    BY DEF NoDriver
  <1>2. Ended(q) \in State /\ Local(Ended(q))
    BY EndedLocal
  <1>3. Ended(q).driver = NoDriver /\ Ended(q).tokens = q.tokens
    BY EndedFields
  <1>4. Ended(q).driver.conn = 0 /\ TokenMoves(process[p], Ended(q))
    BY <1>1, <1>3 DEF TokenMoves
  <1> QED BY <1>2, <1>4, Disconnected DEF Moves

\* So is an exception.
LEMMA RaisedMoves ==
  ASSUME BridgeInv, NEW p \in Processes, NEW q \in State, Clean(q), q.attempt = 1 => q.kind = "bridge", q.spent <= q.attempt + 1,
         q.tokens \subseteq process[p].tokens \cup ({process[p].driver.token} \ {0})
  PROVE  Moves(p, Raised(q))
  <1>1. NoDriver.token = 0 /\ NoDriver.conn = 0
    BY DEF NoDriver
  <1>2. Raised(q) \in State /\ Local(Raised(q))
    BY RaisedLocal
  <1>3. Raised(q).driver = NoDriver /\ Raised(q).tokens = q.tokens
    BY RaisedFields
  <1>4. Raised(q).driver.conn = 0 /\ TokenMoves(process[p], Raised(q))
    BY <1>1, <1>3 DEF TokenMoves
  <1> QED BY <1>2, <1>4, Disconnected DEF Moves

\* Every script is a sequence of commands of the expected shape.
Shaped(todo) ==
  /\ todo \in Seq(Commands) /\ todo # <<>>
  /\ Head(todo) \in {"pubkey", "keygen", "setpin"}
  /\ Head(todo) = "setpin" => Len(todo) = 1
  /\ \A i \in 2..Len(todo) : /\ todo[i] \in {"nonces", "finalize"}
                             /\ todo[i] = "finalize" => todo[i - 1] = "nonces"

\* All the scripts of the one-shot processes.
LEMMA ScriptShape ==
  ASSUME NEW kind \in Kinds, kind \notin {"bridge", "e2e"}
  PROVE  /\ Shaped(Script(kind))
         /\ kind \notin {"sign", "arkade", "proof"} =>
              Len(Script(kind)) = 1 /\ Head(Script(kind)) \in {"pubkey", "setpin"}
  <1>1. CASE kind = "sign"
    <2>1. Script(kind) = <<"pubkey", "nonces", "finalize">>
      BY <1>1 DEF Script, sign_script
    <2>2. Shaped(<<"pubkey", "nonces", "finalize">>)
      BY DEF Shaped, Commands
    <2> QED BY <1>1, <2>1, <2>2
  <1>2. CASE kind = "arkade"
    <2>1. Script(kind) = <<"pubkey", "nonces", "finalize", "nonces", "finalize">>
      BY <1>2 DEF Script, arkade_script
    <2>2. Shaped(<<"pubkey", "nonces", "finalize", "nonces", "finalize">>)
      BY DEF Shaped, Commands
    <2> QED BY <1>2, <2>1, <2>2
  <1>3. CASE kind = "proof"
    <2>1. Script(kind) = <<"keygen", "nonces", "nonces", "nonces", "finalize">>
      BY <1>3 DEF Script, proof_script
    <2>2. Shaped(<<"keygen", "nonces", "nonces", "nonces", "finalize">>)
      BY DEF Shaped, Commands
    <2> QED BY <1>3, <2>1, <2>2
  <1>4. CASE kind \notin {"sign", "arkade", "proof"}
    <2>1. Script(kind) \in {<<"setpin">>, <<"pubkey">>}
      BY <1>4 DEF Script
    <2>2. Shaped(<<"setpin">>) /\ Shaped(<<"pubkey">>)
      BY DEF Shaped, Commands
    <2>3. Len(Script(kind)) = 1 /\ Head(Script(kind)) \in {"pubkey", "setpin"}
      BY <2>1
    <2> QED BY <1>4, <2>1, <2>2, <2>3
  <1> QED BY <1>1, <1>2, <1>3, <1>4

\* One lemma for every action of a process: it is a step of that kind.
LEMMA MoveStartProcess ==
  ASSUME BridgeInv, NEW p \in Processes, StartProcess(p)
  PROVE  \E r : Becomes(p, r) /\ Moves(p, r)
  <1>1. PICK kind \in Kinds, rightPin \in BOOLEAN :
          Becomes(p, [Start(kind, rightPin) EXCEPT
                     !.pc = IF kind = "bridge" THEN "idle" ELSE "open",
                     !.todo = IF kind \in {"bridge", "e2e"} THEN <<>> ELSE Script(kind)])
    BY DEF StartProcess
  <1> DEFINE pc == IF kind = "bridge" THEN "idle" ELSE "open"
             todo == IF kind \in {"bridge", "e2e"} THEN <<>> ELSE Script(kind)
             s == Start(kind, rightPin)
             r == [s EXCEPT !.pc = pc, !.todo = todo]
  <1>2. /\ s \in State /\ s.driver = NoDriver /\ s.kind = kind /\ s.attempt = 0 /\ s.spent = 0 /\ s.op = "none"
        /\ s.tokens = {} /\ s.twice = FALSE /\ s.mixed = FALSE /\ s.result = "none"
    BY StartFields DEF Start
  <1>3. todo \in Seq(Commands) /\ pc \in PC
    BY ScriptShape DEF PC, Shaped
  <1> HIDE DEF s
  <1>4. r \in State /\ r = [s EXCEPT !.pc = pc, !.todo = todo]
    <2> HIDE DEF pc, todo
    <2> QED BY <1>2, <1>3 DEF State
  <1>5. /\ r.pc = pc /\ r.todo = todo /\ r.driver = NoDriver /\ r.kind = kind /\ r.attempt = 0 /\ r.spent = 0
        /\ r.op = "none" /\ r.tokens = {} /\ r.twice = FALSE /\ r.mixed = FALSE /\ r.result = "none"
    BY <1>2 DEF State
  <1>6. r.driver.token = 0 /\ r.driver.conn = 0
    BY <1>5 DEF NoDriver
  <1> HIDE DEF r
  <1>10. r.driver.conn = 0 /\ TokenMoves(process[p], r)
    <2>1. {} \subseteq process[p].tokens \cup ({process[p].driver.token} \ {0})
      OBVIOUS
    <2> QED BY <1>5, <1>6, <2>1 DEF TokenMoves
  <1>7. Local(r)
    <2>1. CASE kind \in {"bridge", "e2e"}
      <3>1. Len(r.todo) = 0 /\ r.todo = <<>>
        BY <1>5, <2>1
      <3> QED BY <1>5, <1>6, <2>1, <3>1 DEF Local, Shape, Requested, Spending, Clean
    <2>2. CASE kind \notin {"bridge", "e2e"}
      <3>1. todo = Script(kind) /\ pc = "open"
        BY <2>2
      <3> HIDE DEF todo
      <3>2. Shape(r) /\ Scripted(r)
        BY <1>5, <1>6, <2>2, <3>1, ScriptShape DEF Shape, Scripted, Shaped
      <3> QED BY <1>5, <1>6, <2>2, <3>1, <3>2, ScriptShape DEF Local, Spending, Clean, Shaped
    <2> QED BY <2>1, <2>2
  <1>8. Becomes(p, r)
    BY <1>1 DEF r, s
  <1>9. Moves(p, r)
    BY <1>4, <1>7, <1>10, Disconnected DEF Moves
  <1> QED BY <1>8, <1>9

\* What the invariant says of one process.
LEMMA Known ==
  ASSUME BridgeInv, NEW p \in Processes
  PROVE  /\ process[p] \in State /\ Local(process[p])
         /\ process[p].driver.conn \in 0..MaxDrops + 1 /\ process[p].driver.token \in 0..MaxNonces
         /\ process[p].driver.conn <= drops + 1 /\ process[p].driver.token <= pairs
         /\ process[p].driver \in Driver /\ drops \in Nat /\ pairs \in Nat
  <1>1. process[p] \in State /\ drops \in Nat /\ pairs \in Nat
    BY DEF BridgeInv, BridgeTypeOK
  <1>2. process[p].driver \in Driver
    BY <1>1 DEF State
  <1> QED BY <1>1, <1>2 DEF BridgeInv, Epochs, TokensApart, Driver

\* A request replaces the last one, and is refused out of context.
LEMMA MoveRequest ==
  ASSUME BridgeInv, NEW p \in Processes, Request(p)
  PROVE  \E r : Becomes(p, r) /\ Moves(p, r)
  <1> DEFINE q == process[p]
  <1>1. PICK op \in Ops, payload \in 0..pairs :
          /\ op # "finalize" => payload = 0
          /\ Becomes(p, IF ~Allowed(p, op, payload) THEN Ended(process[p])
            ELSE [process[p] EXCEPT !.requests = @ + 1, !.spent = 0, !.op = op, !.payload = payload,
                   !.pc = IF op = "fido" THEN "fido" ELSE IF process[p].driver.conn = 0 THEN "open" ELSE "run",
                   !.todo = IF op = "fido" THEN <<>> ELSE <<op>>])
    BY DEF Request
  <1>2. q.pc = "idle" /\ q.kind \in {"bridge", "e2e"} /\ q.requests < MaxRequests
    BY DEF Request, At, Serves
  <1>3. q \in State /\ Local(q)
    BY Known
  <1>4. CASE ~Allowed(p, op, payload)
    <2>1. Moves(p, Ended(q))
      <3>1. Clean(q) /\ q.spent <= IF q.kind = "bridge" THEN 2 ELSE 1
        BY <1>3 DEF Local, Spending
      <3>2. q.tokens \subseteq q.tokens \cup ({q.driver.token} \ {0})
        OBVIOUS
      <3> QED BY <1>3, <3>1, <3>2, EndedMoves
    <2> QED BY <1>1, <1>4, <2>1
  <1>5. CASE Allowed(p, op, payload)
    <2> DEFINE pc == IF op = "fido" THEN "fido" ELSE IF process[p].driver.conn = 0 THEN "open" ELSE "run"
               todo == IF op = "fido" THEN <<>> ELSE <<op>>
               r == [q EXCEPT !.requests = @ + 1, !.spent = 0, !.op = op, !.payload = payload, !.pc = pc, !.todo = todo]
    <2>1. pc \in PC /\ todo \in Seq(Commands) /\ payload \in 0..MaxNonces /\ q.requests + 1 \in 0..MaxRequests
      <3>1. pairs \in 0..MaxNonces /\ MaxNonces \in Nat /\ MaxRequests \in Nat
        BY BridgeAssumption DEF BridgeInv, BridgeTypeOK
      <3>2. q.requests + 1 \in 0..MaxRequests
        BY <1>2, <1>3, <3>1 DEF State
      <3>3. todo \in Seq(Commands)
        <4>1. op # "fido" => op \in Commands
          BY DEF Ops, Commands
        <4>2. op \in Commands => <<op>> \in Seq(Commands)
          OBVIOUS
        <4> QED BY <4>1, <4>2
      <3> QED BY <3>1, <3>2, <3>3 DEF PC
    <2>2. r \in State
      <3> HIDE DEF pc, todo
      <3> QED BY <1>3, <2>1 DEF State
    <2>3. /\ r.pc = pc /\ r.todo = todo /\ r.driver = q.driver /\ r.kind = q.kind /\ r.attempt = q.attempt
          /\ r.spent = 0 /\ r.op = op /\ r.payload = payload /\ r.tokens = q.tokens /\ r.twice = q.twice
          /\ r.mixed = q.mixed /\ r.result = q.result /\ r.excused = q.excused /\ r.given = q.given
      BY <1>3 DEF State
    <2>4. op = "finalize" => pc = "run" /\ payload = q.driver.token /\ q.driver.token # 0
      BY <1>5 DEF Allowed
    <2>5. Shape(r)
      <3>1. CASE op = "fido"
        BY <2>3, <3>1 DEF Shape
      <3>2. CASE op # "fido"
        <4>1. r.todo = <<op>> /\ Len(r.todo) = 1 /\ Head(r.todo) = op
          BY <2>3, <3>2
        <4> QED BY <2>3, <2>4, <4>1 DEF Shape, Ops
      <3> QED BY <3>1, <3>2
    <2>6. Requested(r)
      BY <2>3, <2>4 DEF Requested
    <2>7. Spending(r) /\ Clean(r)
      BY <1>2, <1>3, <2>3 DEF Spending, Clean, Local
    <2>8. Local(r)
      BY <1>2, <2>3, <2>5, <2>6, <2>7 DEF Local
    <2>9. ViewMoves(p, r) /\ KeyMoves(r)
      <3>1. applet' = applet /\ inserted' = inserted /\ drops' = drops
        BY DEF Request, world
      <3>2. r.driver.conn = drops + 1 /\ inserted # NoCard => Alive(p)
        BY <2>3 DEF Alive
      <3>3. ViewMoves(p, r)
        BY <2>3, <3>1, <3>2 DEF ViewMoves, BridgeInv, DriverView, card
      <3> QED BY <1>2, <2>3, <3>3 DEF KeyMoves
    <2>11. Moves(p, r)
      BY <2>2, <2>3, <2>8, <2>9 DEF Moves, TokenMoves
    <2> HIDE DEF pc, todo, r, q
    <2>10. Becomes(p, r)
      BY <1>1, <1>5 DEF pc, todo, r, q
    <2> QED BY <2>10, <2>11
  <1> QED BY <1>4, <1>5

\* A process may end at any time.
LEMMA MoveStop ==
  ASSUME BridgeInv, NEW p \in Processes, Stop(p)
  PROVE  \E r : Becomes(p, r) /\ Moves(p, r)
  <1> DEFINE q == process[p]
  <1>1. Clean(q) /\ q.spent <= IF q.kind = "bridge" THEN 2 ELSE 1
    BY Known DEF Local, Spending
  <1>2. q.tokens \subseteq q.tokens \cup ({q.driver.token} \ {0})
    OBVIOUS
  <1>3. Moves(p, Ended(q))
    BY <1>1, <1>2, Known, EndedMoves
  <1> QED BY <1>3 DEF Stop

\* What SELECT leaves of the applet that is selected.
LEMMA SelectedCard ==
  ASSUME BridgeInv, inserted # NoCard, NEW users, SelectedBy(users)
  PROVE  /\ applet'[inserted] = [card EXCEPT !.verified = FALSE, !.nonce = 0, !.users = users]
         /\ applet'[inserted].users = users
  <1>1. inserted \in Cards /\ card \in Applet /\ applet \in [Cards -> Applet]
    BY CardType DEF BridgeInv, BridgeTypeOK
  <1>2. applet' = [applet EXCEPT ![inserted] = [card EXCEPT !.verified = FALSE, !.nonce = 0, !.users = users]]
    BY <1>1 DEF SelectedBy, card, Applet
  <1>3. applet'[inserted] = [card EXCEPT !.verified = FALSE, !.nonce = 0, !.users = users]
    BY <1>1, <1>2
  <1> QED BY <1>1, <1>3 DEF Applet

\* A FIDO assertion happens only without a connection of the bridge itself.
LEMMA MoveFido ==
  ASSUME BridgeInv, NEW p \in Processes, Fido(p)
  PROVE  \E r : Becomes(p, r) /\ Moves(p, r)
  <1> DEFINE q == process[p]
             r == [q EXCEPT !.pc = "idle", !.op = "none"]
  <1>1. q \in State /\ Local(q) /\ q.pc = "fido"
    BY Known DEF Fido, At
  <1>2. Clean(q) /\ q.spent <= IF q.kind = "bridge" THEN 2 ELSE 1
    BY <1>1 DEF Local, Spending
  <1>3. q.tokens \subseteq q.tokens \cup ({q.driver.token} \ {0})
    OBVIOUS
  <1>4. Moves(p, Ended(q))
    BY <1>1, <1>2, <1>3, EndedMoves
  <1>5. Moves(p, r)
    <2>1. r \in State
      BY <1>1 DEF State, PC
    <2>2. /\ r.pc = "idle" /\ r.op = "none" /\ r.todo = q.todo /\ r.driver = q.driver /\ r.kind = q.kind
          /\ r.attempt = q.attempt /\ r.spent = q.spent /\ r.tokens = q.tokens /\ r.twice = q.twice
          /\ r.mixed = q.mixed /\ r.result = q.result /\ r.excused = q.excused /\ r.given = q.given
      BY <1>1 DEF State
    <2>3. q.kind \in {"bridge", "e2e"} /\ q.todo = <<>>
      BY <1>1 DEF Local, Scripted
    <2>4. Len(r.todo) = 0 /\ r.todo = <<>>
      BY <2>2, <2>3
    <2>5. Spending(r) /\ Clean(r) 
      <3>1. q.spent \in Nat /\ q.attempt \in {0, 1} /\ q.spent <= q.attempt /\ q.attempt = 0
        BY <1>1 DEF Local, Spending, State
      <3> QED BY <1>1, <2>2, <3>1 DEF Local, Spending, Clean
    <2>6. Local(r)
      BY <2>2, <2>3, <2>4, <2>5 DEF Local, Shape, Requested
    <2>7. ASSUME inserted # NoCard
          PROVE  applet'[inserted].users = {}
      <3>1. SelectedBy({})
        BY <2>7 DEF Fido
      <3> QED BY <2>7, <3>1, SelectedCard
    <2>8. ViewMoves(p, r) /\ KeyMoves(r)
      BY <2>2, <2>3, <2>7 DEF ViewMoves, KeyMoves
    <2> QED BY <2>1, <2>2, <2>6, <2>8 DEF Moves, TokenMoves
  <1>6. Becomes(p, Ended(q)) \/ Becomes(p, r)
    BY DEF Fido
  <1> HIDE DEF r
  <1> QED BY <1>4, <1>5, <1>6

\* A connection starts with nothing believed.
LEMMA MoveConnect ==
  ASSUME BridgeInv, NEW p \in Processes, Connect(p)
  PROVE  \E r : Becomes(p, r) /\ Moves(p, r)
  <1> DEFINE q == process[p]
             d == [NoDriver EXCEPT !.conn = drops + 1, !.pin = card.pin, !.required = card.required, !.tries = card.tries]
             pc == IF q.todo = <<>> /\ q.op = "none" THEN "idle" ELSE "run"
             todo == IF q.todo = <<>> /\ q.op # "none" THEN <<q.op>> ELSE q.todo
             r == [q EXCEPT !.driver = d, !.pc = pc, !.todo = todo]
  <1>1. q \in State /\ Local(q) /\ q.pc = "open" /\ drops \in 0..MaxDrops
    BY Known DEF Connect, At, BridgeInv, BridgeTypeOK
  <1>2. Becomes(p, r)
    BY DEF Connect
  <1>3. d \in Driver /\ d.token = 0 /\ d.conn = drops + 1
    <2>1. card \in Applet
      BY CardType DEF Connect, BridgeInv
    <2>2. card.pin \in BOOLEAN /\ card.required \in BOOLEAN /\ card.tries \in 0..CardTries
      BY <2>1 DEF Applet
    <2>3. drops + 1 \in 0..MaxDrops + 1
      BY <1>1, BridgeAssumption
    <2>4. NoDriver \in Driver
      BY BridgeAssumption DEF NoDriver, Driver
    <2> QED BY <2>2, <2>3, <2>4 DEF NoDriver, Driver
  <1>4. q.kind \in {"bridge", "e2e"} /\ q.op # "none" => q.op \in {"pubkey", "nonces"}
    BY <1>1 DEF Local, Requested, State, Ops
  <1>5. q.kind \notin {"bridge", "e2e"} => q.todo # <<>>
    BY <1>1 DEF Local, Scripted
  <1>6. pc \in PC /\ todo \in Seq(Commands)
    <2>1. q.todo \in Seq(Commands)
      BY <1>1 DEF State
    <2>2. q.op \in Commands => <<q.op>> \in Seq(Commands)
      OBVIOUS
    <2> QED BY <1>4, <1>5, <2>1, <2>2 DEF PC, Commands
  <1>7. r \in State
    <2> HIDE DEF d, pc, todo
    <2> QED BY ZenonT(40), <1>1, <1>3, <1>6 DEF State
  <1>8. /\ r.pc = pc /\ r.op = q.op /\ r.todo = todo /\ r.driver = d /\ r.kind = q.kind
        /\ r.attempt = q.attempt /\ r.spent = q.spent /\ r.tokens = q.tokens /\ r.twice = q.twice
        /\ r.mixed = q.mixed /\ r.result = q.result /\ r.excused = q.excused /\ r.given = q.given
    BY <1>1 DEF State
  <1> HIDE DEF d, r
  <1>9. Spending(r)
    <2>1. pc \in {"idle", "run"} /\ q.spent \in Nat /\ q.attempt \in {0, 1} /\ q.spent <= q.attempt
      BY <1>1 DEF Local, Spending, State
    <2>2. pc = "idle" => q.op = "none" /\ q.attempt = 0
      BY <1>1, <2>1 DEF Local, Spending
    <2> QED BY <1>1, <1>8, <2>1, <2>2 DEF Spending, Local
  <1>10. Clean(r)
    BY <1>1, <1>3, <1>8 DEF Clean, Local
  <1>11. Shape(r)
    <2>1. CASE q.todo = <<>>
      <3>1. CASE q.op = "none"
        <4>1. Len(r.todo) = 0 /\ r.todo = <<>>
          BY <1>8, <2>1, <3>1
        <4> QED BY <4>1 DEF Shape
      <3>2. CASE q.op # "none"
        <4>1. Len(r.todo) = 1 /\ r.todo # <<>> /\ Head(r.todo) \in {"pubkey", "nonces"}
          BY <1>4, <1>5, <1>8, <2>1, <3>2
        <4> QED BY <4>1 DEF Shape
      <3> QED BY <3>1, <3>2
    <2>2. CASE q.todo # <<>>
      BY <1>1, <1>3, <1>8, <2>2 DEF Shape, Local
    <2> QED BY <2>1, <2>2
  <1>12. q.kind \in {"bridge", "e2e"} => Requested(r)
    BY <1>1, <1>4, <1>8 DEF Local, Requested
  <1>13. q.kind \notin {"bridge", "e2e"} => Scripted(r)
    BY <1>1, <1>5, <1>8 DEF Local, Scripted
  <1>14. Local(r)
    BY <1>1, <1>8, <1>9, <1>10, <1>11, <1>12, <1>13 DEF Local
  <1>15. ViewMoves(p, r) /\ KeyMoves(r)
    <2>1. d.verified = FALSE
      BY DEF d, NoDriver
    <2>2. q.kind \notin {"bridge", "e2e"} => todo = q.todo /\ Head(q.todo) \in {"pubkey", "keygen", "setpin"}
      BY <1>1, <1>5 DEF Local, Scripted
    <2> QED BY <1>3, <1>8, <2>1, <2>2 DEF ViewMoves, KeyMoves
  <1>16. Moves(p, r)
    BY <1>3, <1>7, <1>8, <1>14, <1>15 DEF Moves, TokenMoves
  <1> QED BY <1>2, <1>16

\* Where the card cannot be opened, the process ends.
LEMMA MoveConnectFails ==
  ASSUME BridgeInv, NEW p \in Processes, ConnectFails(p)
  PROVE  \E r : Becomes(p, r) /\ Moves(p, r)
  <1> DEFINE q == process[p]
  <1>1. Clean(q) /\ q.spent <= IF q.kind = "bridge" THEN 2 ELSE 1
    BY Known DEF Local, Spending
  <1>2. q.tokens \subseteq q.tokens \cup ({q.driver.token} \ {0})
    OBVIOUS
  <1>3. Moves(p, Ended(q))
    BY <1>1, <1>2, Known, EndedMoves
  <1> QED BY <1>3 DEF ConnectFails

\* An exception while the process runs, when it has spent at most one try more.
LEMMA RaiseFrom ==
  ASSUME BridgeInv, NEW p \in Processes, process[p].pc = "run", NEW q \in State,
         q.kind = process[p].kind, q.attempt = process[p].attempt, Clean(q),
         q.spent \in {process[p].spent, process[p].spent + 1},
         q.tokens \subseteq process[p].tokens \cup ({process[p].driver.token} \ {0})
  PROVE  Moves(p, Raised(q))
  <1>1. /\ process[p].attempt \in {0, 1} /\ process[p].spent \in Nat
        /\ process[p].attempt = 1 => process[p].kind = "bridge"
        /\ process[p].spent <= process[p].attempt
    BY Known DEF State, Local, Spending
  <1> QED BY <1>1, RaisedMoves

\* No PIN is sent where the card would not take it.
LEMMA MovePinRefused ==
  ASSUME BridgeInv, NEW p \in Processes, PinRefused(p)
  PROVE  \E r : Becomes(p, r) /\ Moves(p, r)
  <1>1. Clean(process[p]) /\ process[p] \in State /\ process[p].pc = "run"
    BY Known DEF Local, PinRefused, Running, At
  <1>2. process[p].tokens \subseteq process[p].tokens \cup ({process[p].driver.token} \ {0})
    OBVIOUS
  <1>3. Moves(p, Raised(process[p]))
    BY <1>1, <1>2, RaiseFrom
  <1> QED BY <1>3 DEF PinRefused

\* After a PIN that was right, card and driver agree.
LEMMA MoveVerifyOk ==
  ASSUME BridgeInv, NEW p \in Processes, VerifyOk(p)
  PROVE  \E r : Becomes(p, r) /\ Moves(p, r)
  <1> DEFINE q == process[p]
             r == [q EXCEPT !.driver.verified = TRUE]
  <1>1. q \in State /\ Local(q) /\ q.driver \in Driver
    BY Known
  <1>2. Becomes(p, r)
    BY DEF VerifyOk
  <1>3. r = [q EXCEPT !.driver = [q.driver EXCEPT !.verified = TRUE]]
    BY <1>1 DEF State
  <1>4. [q.driver EXCEPT !.verified = TRUE] \in Driver
    BY <1>1 DEF Driver
  <1>5. r \in State
    BY <1>1, <1>3, <1>4 DEF State
  <1>6. /\ r.pc = q.pc /\ r.op = q.op /\ r.todo = q.todo /\ r.kind = q.kind /\ r.payload = q.payload
        /\ r.attempt = q.attempt /\ r.spent = q.spent /\ r.tokens = q.tokens /\ r.twice = q.twice
        /\ r.mixed = q.mixed /\ r.result = q.result /\ r.excused = q.excused /\ r.given = q.given
        /\ r.driver.token = q.driver.token /\ r.driver.conn = q.driver.conn
    BY <1>1, <1>3 DEF State, Driver
  <1> HIDE DEF r
  <1>7. Local(r)
    BY <1>1, <1>6 DEF Local, Shape, Requested, Scripted, Spending, Clean
  <1>8. ViewMoves(p, r) /\ KeyMoves(r)
    <2>1. Alive(p) /\ PinMatches(p, card) /\ inserted \in Cards /\ card \in Applet
      BY CardType DEF VerifyOk, Alive, BridgeInv
    <2>2. applet'[inserted] = AfterVerify(p, card)
      BY <2>1 DEF VerifyOk, BridgeInv, BridgeTypeOK, card
    <2>3. AfterVerify(p, card) = [Use(p, card) EXCEPT !.verified = TRUE, !.tries = CardTries]
      BY <2>1 DEF AfterVerify, PinMatches
    <2>4. /\ applet'[inserted].verified = TRUE /\ applet'[inserted].nonce = card.nonce
          /\ applet'[inserted].users = card.users \cup {p}
      BY <2>1, <2>2, <2>3 DEF Use, Applet
    <2>5. applet'[inserted].users = {p} => card.users = {p}
      BY <2>1, <2>4 DEF PinMatches, Selected
    <2>6. ViewMoves(p, r)
      BY <1>6, <2>1, <2>4, <2>5 DEF ViewMoves, BridgeInv, DriverView
    <2>7. r.read = q.read
      BY <1>1, <1>3 DEF State, r
    <2>8. q.kind \notin {"bridge", "e2e"} /\ q.pc = "run" /\ Head(q.todo) \in {"nonces", "finalize"} => q.read = inserted
      BY <2>1 DEF BridgeInv, KeyRead, Running, At, Cmd, Serves
    <2>9. KeyMoves(r)
      BY <1>6, <2>7, <2>8 DEF KeyMoves
    <2> QED BY <2>6, <2>9
  <1>9. Moves(p, r)
    BY <1>5, <1>6, <1>7, <1>8 DEF Moves, TokenMoves
  <1> QED BY <1>2, <1>9

\* A VERIFY spends one try at most.
LEMMA SpendsOne == \A p, a : Spends(p, a) \in {0, 1}
  BY DEF Spends

\* The record of a process that has spent k tries more.
LEMMA Spent ==
  ASSUME NEW q \in State, Clean(q), NEW k \in {0, 1}
  PROVE  LET r == [q EXCEPT !.spent = @ + k]
         IN  /\ r \in State /\ Clean(r) /\ r.kind = q.kind /\ r.attempt = q.attempt
             /\ r.spent \in {q.spent, q.spent + 1} /\ r.tokens = q.tokens /\ r.driver = q.driver
  BY DEF State, Clean

\* A PIN that was wrong spends at most one try of this attempt.
LEMMA MoveVerifyWrong ==
  ASSUME BridgeInv, NEW p \in Processes, VerifyWrong(p)
  PROVE  \E r : Becomes(p, r) /\ Moves(p, r)
  <1> DEFINE q == process[p]
             k == Spends(p, card)
             r == [q EXCEPT !.spent = @ + k]
  <1>1. q \in State /\ Clean(q) /\ q.pc = "run"
    BY Known DEF Local, VerifyWrong, Verifies, Running, At
  <1>2. r \in State /\ Clean(r) /\ r.kind = q.kind /\ r.attempt = q.attempt
             /\ r.spent \in {q.spent, q.spent + 1} /\ r.tokens = q.tokens
    <2>1. k \in {0, 1}
      BY SpendsOne
    <2> HIDE DEF k, q
    <2> QED BY <1>1, <2>1, Spent
  <1>3. q.tokens \subseteq q.tokens \cup ({q.driver.token} \ {0})
    OBVIOUS
  <1> HIDE DEF r
  <1>4. Moves(p, Raised(r))
    BY <1>1, <1>2, <1>3, RaiseFrom
  <1> QED BY <1>4 DEF VerifyWrong, r

\* The command of a running process.
LEMMA Command ==
  ASSUME BridgeInv, NEW p \in Processes, process[p].pc = "run"
  PROVE  /\ process[p].todo \in Seq(Commands) /\ process[p].todo # <<>>
         /\ Cmd(p) = Head(process[p].todo) /\ Cmd(p) \in Commands
         /\ Cmd(p) = "finalize" => process[p].driver.token # 0
  <1>1. process[p].todo \in Seq(Commands) /\ process[p].todo # <<>>
    BY Known DEF Local, State
  <1>2. Head(process[p].todo) \in Commands
    BY <1>1
  <1>3. Head(process[p].todo) = "finalize" => process[p].driver.token # 0
    BY <1>1, Known DEF Local, Shape
  <1> QED BY <1>1, <1>2, <1>3 DEF Cmd

\* A FINALIZE moves the token to those that were sent, where it was not before.
LEMMA SentFields ==
  ASSUME BridgeInv, NEW p \in Processes, process[p].pc = "run", NEW r, r = Sent(process[p])
  PROVE  LET q == process[p]
         IN  /\ r \in State /\ Clean(r)
             /\ Cmd(p) # "finalize" => r = q
             /\ Cmd(p) = "finalize" => /\ r.driver.token = 0
                                       /\ r.tokens = q.tokens \cup ({q.driver.token} \ {0})
             /\ r.driver.conn = q.driver.conn /\ r.driver.verified = q.driver.verified
             /\ r.tokens \subseteq q.tokens \cup ({q.driver.token} \ {0})
             /\ r.pc = q.pc /\ r.kind = q.kind /\ r.op = q.op /\ r.todo = q.todo /\ r.payload = q.payload
             /\ r.attempt = q.attempt /\ r.spent = q.spent /\ r.given = q.given /\ r.read = q.read
  <1> DEFINE q == process[p]
  <1>1. q \in State /\ Clean(q) /\ q.driver \in Driver /\ q.driver.token \in 0..MaxNonces /\ q.driver.token \notin q.tokens
    BY Known DEF Local, BridgeInv, TokensApart
  <1>2. CASE Cmd(p) # "finalize"
    <2>1. r = q
      BY <1>2 DEF Sent, Cmd
    <2> QED BY <1>1, <1>2, <2>1
  <1>3. CASE Cmd(p) = "finalize"
    <2> DEFINE d == [q.driver EXCEPT !.token = 0]
               t == q.tokens \cup {q.driver.token}
               w == q.twice \/ q.driver.token \in q.tokens
    <2>1. r = [q EXCEPT !.driver = d, !.tokens = t, !.twice = w]
      BY <1>1, <1>3 DEF Sent, Cmd, State
    <2>2. q.driver.token # 0
      BY <1>3, Command
    <2>3. d \in Driver /\ d.token = 0 /\ d.conn = q.driver.conn /\ d.verified = q.driver.verified
      BY <1>1, BridgeAssumption DEF Driver
    <2>4. t \in SUBSET (1..MaxNonces) /\ t = q.tokens \cup ({q.driver.token} \ {0})
      <3>1. q.tokens \in SUBSET (1..MaxNonces) /\ q.driver.token \in 1..MaxNonces
        BY <1>1, <2>2, BridgeAssumption DEF State
      <3> QED BY <2>2, <3>1
    <2>5. w = FALSE
      BY <1>1 DEF Clean, State
    <2> HIDE DEF d, t, w
    <2>6. r \in State
      BY ZenonT(40), <1>1, <2>1, <2>3, <2>4, <2>5 DEF State
    <2>7. /\ r.pc = q.pc /\ r.kind = q.kind /\ r.op = q.op /\ r.todo = q.todo /\ r.payload = q.payload
          /\ r.attempt = q.attempt /\ r.spent = q.spent /\ r.given = q.given /\ r.read = q.read
          /\ r.driver = d /\ r.tokens = t /\ r.twice = FALSE /\ r.mixed = q.mixed /\ r.result = q.result
          /\ r.excused = q.excused
      BY <1>1, <2>1, <2>5 DEF State
    <2>8. Clean(r)
      BY <1>1, <2>3, <2>7 DEF Clean
    <2> QED BY <1>3, <2>3, <2>4, <2>6, <2>7, <2>8
  <1> QED BY <1>2, <1>3

\* What is left of a driver whose command failed.
LEMMA ForgetsFields ==
  ASSUME NEW q \in State, Clean(q), NEW r, r = Forgets(q)
  PROVE  /\ r \in State /\ Clean(r) /\ r.driver.token = 0 /\ r.driver.conn = q.driver.conn
         /\ r.pc = q.pc /\ r.kind = q.kind /\ r.op = q.op /\ r.todo = q.todo /\ r.payload = q.payload
         /\ r.attempt = q.attempt /\ r.spent = q.spent /\ r.tokens = q.tokens /\ r.read = q.read
         /\ r.driver.verified = FALSE
  <1> DEFINE d == [q.driver EXCEPT !.verified = FALSE, !.token = 0]
  <1>1. q.driver \in Driver
    BY DEF State
  <1>2. r = [q EXCEPT !.driver = d]
    <2> DEFINE e == [q.driver EXCEPT !.verified = FALSE]
               m == [q EXCEPT !.driver.verified = FALSE]
    <2>1. m = [q EXCEPT !.driver = e]
      BY <1>1 DEF State
    <2>2. m.driver = e
      BY <2>1 DEF State
    <2>3. r = [m EXCEPT !.driver = [m.driver EXCEPT !.token = 0]]
      BY DEF Forgets
    <2>4. [e EXCEPT !.token = 0] = d
      BY <1>1 DEF Driver
    <2> HIDE DEF d, e, m
    <2>5. r = [m EXCEPT !.driver = d]
      BY <2>2, <2>3, <2>4
    <2> QED BY <2>1, <2>5 DEF State
  <1>3. d \in Driver /\ d.token = 0 /\ d.conn = q.driver.conn /\ d.verified = FALSE
    <2>1. q.driver.conn \in 0..MaxDrops + 1 /\ 0 \in 0..MaxNonces
      BY <1>1, BridgeAssumption DEF Driver
    <2> QED BY <1>1, <2>1 DEF Driver
  <1> HIDE DEF d
  <1>4. r \in State
    BY <1>2, <1>3 DEF State
  <1>5. /\ r.pc = q.pc /\ r.kind = q.kind /\ r.op = q.op /\ r.todo = q.todo /\ r.payload = q.payload
        /\ r.attempt = q.attempt /\ r.spent = q.spent /\ r.tokens = q.tokens /\ r.read = q.read
        /\ r.driver = d /\ r.twice = q.twice /\ r.mixed = q.mixed /\ r.result = q.result
        /\ r.excused = q.excused
    BY <1>2 DEF State
  <1> QED BY <1>3, <1>4, <1>5 DEF Clean

\* A command that is refused; KEYGEN on a card with a key becomes a reading of the key.
LEMMA MoveRefused ==
  ASSUME BridgeInv, NEW p \in Processes, Refused(p)
  PROVE  \E r : Becomes(p, r) /\ Moves(p, r)
  <1> DEFINE q == process[p]
  <1>1. q \in State /\ Local(q) /\ Clean(q) /\ q.pc = "run"
    BY Known DEF Local, Refused, Sending, Running, At
  <1>2. CASE Cmd(p) = "keygen" /\ Selected(card) /\ Authorised(card)
    <2> DEFINE f == Forgets(q)
               todo == <<"pubkey">> \o Tail(q.todo)
               r == [f EXCEPT !.todo = todo]
    <2>1. Becomes(p, r)
      <3>1. Becomes(p, [Forgets(process[p]) EXCEPT !.todo = <<"pubkey">> \o Tail(@)])
        BY <1>2 DEF Refused
      <3>2. f \in State /\ f.todo = q.todo
        BY <1>1, ForgetsFields
      <3> HIDE DEF f
      <3>3. [f EXCEPT !.todo = <<"pubkey">> \o Tail(@)] = r
        BY <3>2 DEF State
      <3> QED BY <3>1, <3>3 DEF f
    <2>2. /\ f \in State /\ Clean(f) /\ f.driver.token = 0 /\ f.driver.conn = q.driver.conn
          /\ f.pc = q.pc /\ f.kind = q.kind /\ f.op = q.op
          /\ f.attempt = q.attempt /\ f.spent = q.spent /\ f.tokens = q.tokens
      BY <1>1, ForgetsFields
    <2>3. /\ q.todo \in Seq(Commands) /\ q.todo # <<>> /\ Head(q.todo) = "keygen"
      BY <1>1, <1>2, Command
    <2>4. /\ todo \in Seq(Commands) /\ Len(todo) = Len(q.todo) /\ Head(todo) = "pubkey" /\ todo # <<>>
          /\ \A i \in 2..Len(todo) : todo[i] = q.todo[i]
      BY <2>3 DEF Commands
    <2>5. q.todo[1] = "keygen"
      BY <2>3
    <2> HIDE DEF f, todo
    <2>6. r \in State
      BY SMTT(30), <2>2, <2>4 DEF State
    <2>7. /\ r.pc = q.pc /\ r.kind = q.kind /\ r.op = q.op /\ r.todo = todo /\ r.attempt = q.attempt
          /\ r.spent = q.spent /\ r.tokens = q.tokens /\ r.driver = f.driver /\ r.twice = f.twice
          /\ r.mixed = f.mixed /\ r.result = f.result /\ r.excused = f.excused /\ r.given = f.given
      BY <2>2 DEF State
    <2>8. q.kind \notin {"bridge", "e2e"}
      <3>1. SUFFICES ASSUME q.kind \in {"bridge", "e2e"} PROVE FALSE
        OBVIOUS
      <3>2. q.todo = <<q.op>> /\ q.op \in Ops \cup {"none"}
        BY <1>1, <2>3, <3>1 DEF Local, Requested, State
      <3> QED BY <2>5, <3>2 DEF Ops
    <2>9. Clean(r)
      BY <2>2, <2>7 DEF Clean
    <2>10. Shape(r)
      <3>1. ASSUME NEW i \in 2..Len(todo)
            PROVE  todo[i] \in {"nonces", "finalize"} /\ (todo[i] = "finalize" => todo[i - 1] = "nonces")
        <4>1. q.todo[i] \in {"nonces", "finalize"} /\ (q.todo[i] = "finalize" => q.todo[i - 1] = "nonces")
          BY <1>1, <2>4, <3>1 DEF Local, Shape
        <4>2. i - 1 = 1 \/ i - 1 \in 2..Len(todo)
          BY <2>3, <2>4
        <4> QED BY <2>4, <2>5, <4>1, <4>2
      <3> QED BY <2>4, <2>7, <3>1 DEF Shape
    <2>11. Scripted(r) /\ Spending(r)
      BY <1>1, <2>3, <2>4, <2>7, <2>8 DEF Local, Scripted, Spending
    <2>12. Local(r)
      BY <1>1, <2>4, <2>7, <2>8, <2>9, <2>10, <2>11 DEF Local
    <2>13. ViewMoves(p, r) /\ KeyMoves(r)
      <3>1. f.driver.verified = FALSE
        BY <1>1, ForgetsFields DEF f
      <3> QED BY <2>2, <2>4, <2>7, <3>1 DEF ViewMoves, KeyMoves
    <2>14. Moves(p, r)
      BY <2>2, <2>6, <2>7, <2>12, <2>13 DEF Moves, TokenMoves
    <2> QED BY <2>1, <2>14
  <1>3. CASE ~(Cmd(p) = "keygen" /\ Selected(card) /\ Authorised(card))
    <2> DEFINE s == Sent(q)
               f == Forgets(s)
    <2>1. Becomes(p, Raised(f))
      BY <1>3 DEF Refused
    <2>2. /\ s \in State /\ Clean(s) /\ s.tokens \subseteq q.tokens \cup ({q.driver.token} \ {0})
          /\ s.kind = q.kind /\ s.attempt = q.attempt /\ s.spent = q.spent
      BY <1>1, SentFields
    <2> HIDE DEF s
    <2>3. f \in State /\ Clean(f) /\ f.kind = q.kind /\ f.attempt = q.attempt /\ f.spent = q.spent /\ f.tokens = s.tokens
      BY <2>2, ForgetsFields
    <2> HIDE DEF f
    <2>4. Moves(p, Raised(f))
      BY <1>1, <2>2, <2>3, RaiseFrom
    <2> QED BY <2>1, <2>4
  <1> QED BY <1>2, <1>3

\* A command or VERIFY that is lost, before or after the card acted on it.
LEMMA MoveLost ==
  ASSUME BridgeInv, NEW p \in Processes, Lost(p)
  PROVE  \E r : Becomes(p, r) /\ Moves(p, r)
  <1> DEFINE q == process[p]
  <1>1. q \in State /\ Local(q) /\ Clean(q) /\ q.pc = "run"
    BY Known DEF Local, Lost, Verifies, Sending, Running, At
  <1>2. PICK acted \in BOOLEAN :
          Becomes(p, Raised(Forgets(
            IF Verifies(p) THEN [process[p] EXCEPT !.spent = @ + (IF acted THEN Spends(p, card) ELSE 0)]
            ELSE Sent(process[p]))))
    BY DEF Lost
  <1> DEFINE k == IF acted THEN Spends(p, card) ELSE 0
             s == IF Verifies(p) THEN [q EXCEPT !.spent = @ + k] ELSE Sent(q)
             f == Forgets(s)
  <1>3. /\ s \in State /\ Clean(s) /\ s.tokens \subseteq q.tokens \cup ({q.driver.token} \ {0})
        /\ s.kind = q.kind /\ s.attempt = q.attempt /\ s.spent \in {q.spent, q.spent + 1}
    <2>1. CASE Verifies(p)
      <3>1. k \in {0, 1}
        BY SpendsOne
      <3>2. s = [q EXCEPT !.spent = @ + k]
        BY <2>1
      <3> HIDE DEF k, s
      <3> QED BY <1>1, <3>1, <3>2, Spent
    <2>2. CASE ~Verifies(p)
      <3>1. s = Sent(q)
        BY <2>2
      <3> HIDE DEF s
      <3> QED BY <1>1, <3>1, SentFields
    <2> QED BY <2>1, <2>2
  <1>4. Becomes(p, Raised(f))
    BY <1>2
  <1> HIDE DEF s
  <1>5. f \in State /\ Clean(f) /\ f.kind = q.kind /\ f.attempt = q.attempt /\ f.spent = s.spent /\ f.tokens = s.tokens
    BY <1>3, ForgetsFields
  <1> HIDE DEF f
  <1>6. Moves(p, Raised(f))
    BY <1>1, <1>3, <1>5, RaiseFrom
  <1> QED BY <1>4, <1>6

\* What a process has after the answer to its command, before it goes on.
LEMMA GotFields ==
  ASSUME BridgeInv, NEW p \in Processes, Transmit(p), NEW g, g = Got(p, Sent(process[p]))
  PROVE  LET q == process[p]
         IN  /\ g \in State /\ Clean(g) /\ TokenMoves(q, g) /\ g.driver.conn = q.driver.conn
             /\ Cmd(p) = "nonces" => g.driver.token # 0 /\ g.driver.token = pairs + 1
             /\ Cmd(p) = "finalize" => g.driver.token = 0
             /\ Cmd(p) \notin {"nonces", "finalize"} => g.driver.token = q.driver.token
             /\ g.driver.verified = q.driver.verified
             /\ g.read = IF Cmd(p) \in {"pubkey", "keygen"} /\ ~Serves(p) THEN inserted ELSE q.read
             /\ g.pc = q.pc /\ g.kind = q.kind /\ g.op = q.op /\ g.todo = q.todo
             /\ g.attempt = q.attempt /\ g.spent = q.spent
  <1> DEFINE q == process[p]
             s == Sent(q)
  <1>1. /\ q \in State /\ Local(q) /\ q.pc = "run" /\ Clean(q)
        /\ q.driver \in Driver /\ q.driver.token \in Nat /\ q.driver.token <= pairs
    BY Known DEF Transmit, Sending, Running, At, Local
  <1>2. /\ s \in State /\ Clean(s) /\ s.driver.conn = q.driver.conn /\ s.driver.verified = q.driver.verified
        /\ Cmd(p) # "finalize" => s = q
        /\ Cmd(p) = "finalize" => /\ s.driver.token = 0
                                  /\ s.tokens = q.tokens \cup ({q.driver.token} \ {0})
        /\ s.pc = q.pc /\ s.kind = q.kind /\ s.op = q.op /\ s.todo = q.todo /\ s.payload = q.payload
        /\ s.attempt = q.attempt /\ s.spent = q.spent /\ s.given = q.given /\ s.read = q.read
    BY <1>1, SentFields
  <1>3. s.driver \in Driver
    BY <1>2 DEF State
  <1>4. pairs \in Nat /\ inserted \in Cards
    BY CardType DEF Transmit, Alive, BridgeInv, BridgeTypeOK
  <1>5. g = Got(p, s)
    OBVIOUS
  <1>6. TokenMoves(q, s)
    BY <1>2 DEF TokenMoves
  <1> HIDE DEF s
  <1>7. CASE Cmd(p) = "nonces"
    <2> DEFINE n == pairs + 1
               d == [s.driver EXCEPT !.token = n]
    <2>1. Accepts(p, card) /\ pairs < MaxNonces /\ pairs' = n
      BY <1>7 DEF Transmit, Execute, Draws
    <2>2. n \in 0..MaxNonces /\ n # 0
      BY <1>4, <2>1, BridgeAssumption
    <2>3. g = [s EXCEPT !.driver.token = n, !.given = n]
      BY <1>5, <1>7 DEF Got
    <2> HIDE DEF n
    <2>4. [s EXCEPT !.driver.token = n] = [s EXCEPT !.driver = d]
      BY <1>2, <1>3 DEF State
    <2>5. d \in Driver /\ d.token = n /\ d.conn = s.driver.conn /\ d.verified = s.driver.verified
      BY <1>3, <2>2 DEF Driver
    <2> HIDE DEF d
    <2>6. g = [s EXCEPT !.driver = d, !.given = n]
      BY <2>3, <2>4
    <2>7. g \in State
      BY ZenonT(40), <1>2, <2>2, <2>5, <2>6 DEF State
    <2>8. /\ g.pc = s.pc /\ g.kind = s.kind /\ g.op = s.op /\ g.todo = s.todo /\ g.driver = d
          /\ g.attempt = s.attempt /\ g.spent = s.spent /\ g.tokens = s.tokens /\ g.given = n /\ g.read = s.read
          /\ g.twice = s.twice /\ g.mixed = s.mixed /\ g.result = s.result /\ g.excused = s.excused
      BY <1>2, <2>6 DEF State
    <2>9. Clean(g)
      BY <1>2, <2>5, <2>8 DEF Clean
    <2>10. TokenMoves(q, g)
      BY <1>2, <1>7, <2>1, <2>5, <2>8 DEF TokenMoves, n
    <2>11. g.driver.token = pairs + 1
      BY <2>5, <2>8 DEF n
    <2> QED BY <1>2, <1>7, <2>2, <2>5, <2>7, <2>8, <2>9, <2>10, <2>11
  <1>8. CASE Cmd(p) = "finalize"
    <2> DEFINE m == s.mixed \/ card.nonce # s.given
                            \/ (IF Serves(p) THEN card.nonce # s.payload ELSE s.read # inserted)
    <2>1. g = [s EXCEPT !.mixed = m]
      BY <1>2, <1>5, <1>8 DEF Got, State
    <2>2. card.nonce = q.driver.token
      BY <1>8 DEF Transmit, Accepts
    <2>3. q.driver.token # 0 /\ q.todo # <<>> /\ Head(q.todo) = "finalize"
      BY <1>1, <1>8, Command
    <2>4. q.given = q.driver.token
      BY <1>1, <2>3 DEF Clean
    <2>5. Serves(p) => q.payload = q.driver.token
      <3>1. SUFFICES ASSUME Serves(p) PROVE q.payload = q.driver.token
        OBVIOUS
      <3>2. q.todo = <<q.op>> /\ (q.op = "finalize" => q.payload = q.driver.token)
        BY <1>1, <2>3, <3>1 DEF Local, Requested, Serves
      <3> QED BY <2>3, <3>2
    <2>6. ~Serves(p) => q.read = inserted
      BY <1>1, <1>8 DEF BridgeInv, KeyRead, Transmit, Running, At
    <2>7. m = FALSE
      BY <1>2, <2>2, <2>4, <2>5, <2>6 DEF Clean, State
    <2> HIDE DEF m
    <2>8. g \in State
      BY <1>2, <2>1, <2>7 DEF State
    <2>9. /\ g.pc = s.pc /\ g.kind = s.kind /\ g.op = s.op /\ g.todo = s.todo /\ g.driver = s.driver
          /\ g.attempt = s.attempt /\ g.spent = s.spent /\ g.tokens = s.tokens /\ g.given = s.given
          /\ g.read = s.read /\ g.twice = s.twice /\ g.mixed = FALSE /\ g.result = s.result /\ g.excused = s.excused
      BY <1>2, <2>1, <2>7 DEF State
    <2>10. Clean(g) /\ TokenMoves(q, g)
      BY <1>2, <1>6, <2>9 DEF Clean, TokenMoves
    <2> QED BY <1>2, <1>8, <2>8, <2>9, <2>10
  <1>9. CASE Cmd(p) \notin {"nonces", "finalize"}
    <2> DEFINE c == IF Cmd(p) \in {"pubkey", "keygen"} /\ ~Serves(p) THEN inserted ELSE s.read
    <2>1. g = [s EXCEPT !.read = c]
      BY <1>2, <1>5, <1>9 DEF Got, State
    <2>2. c \in Cards \cup {NoCard}
      BY <1>2, <1>4 DEF State
    <2> HIDE DEF c
    <2>3. g \in State
      BY <1>2, <2>1, <2>2 DEF State
    <2>4. /\ g.pc = s.pc /\ g.kind = s.kind /\ g.op = s.op /\ g.todo = s.todo /\ g.driver = s.driver
          /\ g.read = c /\ g.attempt = s.attempt /\ g.spent = s.spent /\ g.tokens = s.tokens /\ g.given = s.given
          /\ g.twice = s.twice /\ g.mixed = s.mixed /\ g.result = s.result /\ g.excused = s.excused
      BY <1>2, <2>1 DEF State
    <2>5. Clean(g) /\ TokenMoves(q, g)
      BY <1>2, <1>6, <2>4 DEF Clean, TokenMoves
    <2> QED BY <1>2, <1>9, <2>3, <2>4, <2>5 DEF c
  <1> QED BY <1>7, <1>8, <1>9

\* What an accepted command leaves of the applet.
LEMMA TransmitCard ==
  ASSUME BridgeInv, NEW p \in Processes, Transmit(p)
  PROVE  /\ Alive(p) /\ inserted # NoCard
         /\ applet'[inserted].users = {p} => card.users = {p}
         /\ Cmd(p) # "setpin" => applet'[inserted].verified = card.verified
         /\ Cmd(p) = "nonces" => applet'[inserted].nonce = pairs + 1
         /\ Cmd(p) = "pubkey" => applet'[inserted].nonce = card.nonce
  <1>1. /\ Alive(p) /\ inserted \in Cards /\ inserted # NoCard /\ card \in Applet /\ card = applet[inserted]
        /\ applet \in [Cards -> Applet]
    BY CardType DEF Transmit, Alive, BridgeInv, BridgeTypeOK, card
  <1>2. Accepts(p, card) /\ Selected(card) /\ card.users # {}
    BY DEF Transmit, Accepts, Selected
  <1>3. applet'[inserted] = AfterCmd(p, card)
    BY <1>1 DEF Transmit, Execute
  <1> DEFINE a == card
  <1> HIDE DEF a
  <1>4. Use(p, a) \in Applet /\ Use(p, a).users = a.users \cup {p} /\ Use(p, a).verified = a.verified /\ Use(p, a).nonce = a.nonce
    BY <1>1 DEF Use, Applet, a
  <1>5. Burn(Use(p, a)).users = a.users \cup {p}
    BY <1>4 DEF Burn, Applet
  <1> DEFINE u == Use(p, a)
             b == Burn(u)
             after == AfterCmd(p, a)
  <1>6. after = CASE Cmd(p) = "keygen"   -> [u EXCEPT !.key = TRUE, !.nonce = 0]
         [] Cmd(p) = "nonces"   -> [u EXCEPT !.nonce = pairs + 1]
         [] Cmd(p) = "finalize" -> [u EXCEPT !.nonce = 0]
         [] Cmd(p) = "setpin"   -> [b EXCEPT !.pin = TRUE]
         [] OTHER               -> u
    BY <1>2 DEF AfterCmd, a
  <1>8. b \in [key : BOOLEAN, pin : BOOLEAN, required : BOOLEAN, tries : 0..CardTries,
           verified : BOOLEAN, nonce : {0}, users : SUBSET Processes]
    BY <1>4 DEF Burn, Applet
  <1> HIDE DEF u, b, after
  <1>9. /\ after.users = a.users \cup {p}
        /\ Cmd(p) # "setpin" => after.verified = a.verified
        /\ Cmd(p) = "nonces" => after.nonce = pairs + 1
        /\ Cmd(p) = "pubkey" => after.nonce = a.nonce
    <2>1. u \in Applet /\ u.users = a.users \cup {p} /\ u.verified = a.verified /\ u.nonce = a.nonce
      BY <1>4 DEF u
    <2>2. b.users = a.users \cup {p}
      BY <1>5 DEF b, u
    <2> QED BY <1>6, <1>8, <2>1, <2>2 DEF Applet
  <1>10. applet'[inserted] = after
    BY <1>3 DEF after, a
  <1> QED BY <1>1, <1>2, <1>9, <1>10 DEF a

\* Where the PIN is not what was set, a process that got an answer knows the card.
LEMMA GotView ==
  ASSUME BridgeInv, NEW p \in Processes, Transmit(p), NEW r, Cmd(p) # "setpin",
         LET g == Got(p, Sent(process[p])) IN r.driver = g.driver
  PROVE  ViewMoves(p, r)
  <1> DEFINE q == process[p]
             g == Got(p, Sent(q))
  <1>1. /\ Cmd(p) = "nonces" => g.driver.token = pairs + 1
        /\ Cmd(p) = "finalize" => g.driver.token = 0
        /\ Cmd(p) \notin {"nonces", "finalize"} => g.driver.token = q.driver.token
        /\ g.driver.verified = q.driver.verified
    BY GotFields
  <1>2. r.driver = g.driver
    OBVIOUS
  <1> HIDE DEF g
  <1>3. q.todo # <<>> /\ Cmd(p) = Head(q.todo) /\ Cmd(p) \in Commands
    BY Command DEF Transmit, Sending, Running, At
  <1>4. Cmd(p) = "keygen" => q.driver.token = 0
    BY <1>3, Known DEF Local, Shape
  <1>5. ASSUME applet'[inserted].users = {p}
        PROVE  /\ q.driver.verified => card.verified
               /\ q.driver.token # 0 => card.nonce = q.driver.token
    BY <1>5, TransmitCard DEF BridgeInv, DriverView
  <1>6. /\ applet'[inserted].verified = card.verified
        /\ Cmd(p) = "nonces" => applet'[inserted].nonce = pairs + 1
        /\ Cmd(p) = "pubkey" => applet'[inserted].nonce = card.nonce
    BY TransmitCard
  <1> QED BY <1>1, <1>2, <1>3, <1>4, <1>5, <1>6 DEF ViewMoves, Commands

\* A command that is answered: a bridge reads its next request, a script goes on or ends.
LEMMA MoveTransmit ==
  ASSUME BridgeInv, NEW p \in Processes, Transmit(p)
  PROVE  \E r : Becomes(p, r) /\ Moves(p, r)
  <1> DEFINE q == process[p]
             g == Got(p, Sent(q))
             r == Continues(p, g)
  <1>1. q \in State /\ Local(q) /\ q.pc = "run"
    BY Known DEF Transmit, Sending, Running, At
  <1>2. Becomes(p, r)
    BY DEF Transmit
  <1>3. /\ g \in State /\ Clean(g) /\ TokenMoves(q, g) /\ g.driver.conn = q.driver.conn
        /\ Cmd(p) = "nonces" => g.driver.token # 0
        /\ g.read = IF Cmd(p) \in {"pubkey", "keygen"} /\ ~Serves(p) THEN inserted ELSE q.read
        /\ g.pc = q.pc /\ g.kind = q.kind /\ g.op = q.op /\ g.todo = q.todo
        /\ g.attempt = q.attempt /\ g.spent = q.spent
    BY GotFields
  <1>9. \A x : Cmd(p) # "setpin" /\ x.driver = g.driver => ViewMoves(p, x)
    BY GotView
  <1> HIDE DEF g
  <1>4. /\ q.todo \in Seq(Commands) /\ q.todo # <<>> /\ Cmd(p) = Head(q.todo) /\ Len(q.todo) \in Nat
    BY <1>1, Command
  <1>5. /\ g.spent \in Nat /\ g.attempt \in {0, 1} /\ g.spent <= g.attempt
        /\ g.attempt = 1 => g.kind = "bridge"
    BY <1>1, <1>3 DEF Local, Spending, State
  <1>6. CASE Serves(p)
    <2> DEFINE s == [g EXCEPT !.pc = "idle", !.todo = <<>>, !.op = "none", !.payload = 0, !.attempt = 0]
    <2>1. r = s
      BY <1>6 DEF Continues
    <2>2. <<>> \in Seq(Commands) /\ 0 \in 0..MaxNonces
      BY BridgeAssumption
    <2>3. s \in State
      BY <1>3, <2>2 DEF State, PC
    <2>4. /\ s.pc = "idle" /\ s.todo = <<>> /\ s.op = "none" /\ s.attempt = 0 /\ s.kind = g.kind
          /\ s.driver = g.driver /\ s.spent = g.spent /\ s.tokens = g.tokens /\ s.given = g.given
          /\ s.twice = g.twice /\ s.mixed = g.mixed /\ s.result = g.result /\ s.excused = g.excused
      BY <1>3 DEF State
    <2>5. Len(s.todo) = 0 /\ s.kind \in {"bridge", "e2e"}
      BY <1>3, <1>6, <2>4 DEF Serves
    <2> HIDE DEF s
    <2>6. Clean(s) /\ TokenMoves(q, s)
      BY <1>3, <2>4 DEF Clean, TokenMoves
    <2>7. Spending(s)
      BY <1>5, <2>4 DEF Spending
    <2>8. Local(s)
      BY <2>4, <2>5, <2>6, <2>7 DEF Local, Shape, Requested
    <2>9. Cmd(p) # "setpin"
      <3>1. q.todo = <<q.op>> /\ q.op \in Ops \cup {"none"}
        BY <1>1, <1>4, <1>6 DEF Local, Requested, Serves, State
      <3> QED BY <1>4, <3>1 DEF Ops
    <2>10. ViewMoves(p, s) /\ KeyMoves(s)
      BY <1>9, <2>4, <2>5, <2>9 DEF KeyMoves
    <2> QED BY <1>2, <1>3, <2>1, <2>3, <2>4, <2>6, <2>8, <2>10 DEF Moves
  <1>7. CASE ~Serves(p) /\ Len(g.todo) > 1
    <2> DEFINE todo == Tail(g.todo)
               s == [g EXCEPT !.todo = todo]
    <2>1. r = s
      BY <1>3, <1>7 DEF Continues, State
    <2>2. /\ todo \in Seq(Commands) /\ todo # <<>> /\ Len(todo) = Len(q.todo) - 1
          /\ \A i \in 1..Len(todo) : todo[i] = q.todo[i + 1]
          /\ Head(todo) = q.todo[2] /\ Head(q.todo) = q.todo[1]
      <3>1. g.todo = q.todo /\ q.todo \in Seq(Commands) /\ Len(q.todo) > 1
        BY <1>3, <1>4, <1>7
      <3>2. ASSUME NEW t \in Seq(Commands), Len(t) > 1
            PROVE  /\ Tail(t) \in Seq(Commands) /\ Len(Tail(t)) = Len(t) - 1
                   /\ \A i \in 1..Len(Tail(t)) : Tail(t)[i] = t[i + 1]
                   /\ Head(t) = t[1]
        BY <3>2
      <3>3. ASSUME NEW t \in Seq(Commands), Len(t) > 1
            PROVE  Tail(t) # <<>> /\ Head(Tail(t)) = t[2]
        <4>1. Tail(t) \in Seq(Commands) /\ Len(Tail(t)) > 0 /\ Tail(t)[1] = t[1 + 1]
          BY <3>2, <3>3
        <4>2. Tail(t) # <<>>
          <5>1. ASSUME NEW u \in Seq(Commands), Len(u) > 0
                PROVE  u # <<>>
            BY <5>1
          <5> QED BY <4>1, <5>1
        <4>3. Head(Tail(t)) = Tail(t)[1]
          BY <4>1, <4>2
        <4> QED BY <4>1, <4>2, <4>3
      <3> QED BY <3>1, <3>2, <3>3
    <2> HIDE DEF todo
    <2>3. s \in State
      BY <1>3, <2>2 DEF State
    <2>4. /\ s.pc = g.pc /\ s.todo = todo /\ s.op = g.op /\ s.attempt = g.attempt /\ s.kind = g.kind
          /\ s.driver = g.driver /\ s.spent = g.spent /\ s.tokens = g.tokens /\ s.given = g.given
          /\ s.twice = g.twice /\ s.mixed = g.mixed /\ s.result = g.result /\ s.excused = g.excused
      BY <1>3 DEF State
    <2> HIDE DEF s
    <2>5. Clean(s) /\ TokenMoves(q, s)
      BY <1>3, <2>4 DEF Clean, TokenMoves
    <2>6. s.kind \notin {"bridge", "e2e"} /\ s.pc = "run"
      BY <1>1, <1>3, <1>7, <2>4 DEF Serves
    <2>7. Shape(q)
      BY <1>1 DEF Local
    <2>8. \A i \in 2..Len(todo) : /\ todo[i] \in {"nonces", "finalize"}
                                  /\ todo[i] = "finalize" => todo[i - 1] = "nonces"
      <3>1. SUFFICES ASSUME NEW i \in 2..Len(todo)
                     PROVE  todo[i] \in {"nonces", "finalize"} /\ (todo[i] = "finalize" => todo[i - 1] = "nonces")
        OBVIOUS
      <3>2. /\ i \in 1..Len(todo) /\ i - 1 \in 1..Len(todo) /\ i + 1 \in 2..Len(q.todo) /\ (i + 1) - 1 = (i - 1) + 1
        <4>1. Len(todo) \in Nat /\ Len(q.todo) \in Nat /\ Len(todo) = Len(q.todo) - 1
          BY <1>4, <2>2
        <4>2. \A m, n \in Nat : m = n - 1 /\ i \in 2..m =>
                i \in 1..m /\ i - 1 \in 1..m /\ i + 1 \in 2..n /\ (i + 1) - 1 = (i - 1) + 1
          OBVIOUS
        <4> QED BY <4>1, <4>2
      <3>3. q.todo[i + 1] \in {"nonces", "finalize"} /\ (q.todo[i + 1] = "finalize" => q.todo[(i + 1) - 1] = "nonces")
        BY <2>7, <3>2 DEF Shape
      <3> QED BY <2>2, <3>2, <3>3
    <2>9. Head(todo) \in {"nonces", "finalize"} /\ (Head(todo) = "finalize" => Head(q.todo) = "nonces")
      <3>1. 2 \in 2..Len(q.todo) /\ 2 - 1 = 1
        BY <1>3, <1>4, <1>7
      <3> QED BY <2>2, <2>7, <3>1 DEF Shape
    <2>10. Shape(s)
      BY <1>3, <1>4, <2>4, <2>6, <2>8, <2>9 DEF Shape
    <2>11. Scripted(s)
      <3>1. q.kind \in {"sign", "arkade", "proof"}
        <4>1. Scripted(q)
          BY <1>1, <1>3, <2>4, <2>6 DEF Local
        <4>2. Len(q.todo) # 1 /\ q.todo # <<>>
          <5>1. Len(q.todo) \in Nat /\ Len(q.todo) > 1 /\ q.todo # <<>>
            BY <1>3, <1>4, <1>7
          <5>2. \A n \in Nat : n > 1 => n # 1
            OBVIOUS
          <5> QED BY <5>1, <5>2
        <4> QED BY <4>1, <4>2 DEF Scripted
      <3> QED BY <1>3, <2>4, <2>6, <3>1 DEF Scripted
    <2>12. Spending(s)
      BY <1>5, <2>4, <2>6 DEF Spending
    <2>13. Local(s)
      BY <2>2, <2>4, <2>5, <2>6, <2>10, <2>11, <2>12 DEF Local
    <2>14. Cmd(p) # "setpin"
      <3>1. Head(q.todo) = "setpin" => Len(q.todo) = 1
        BY <1>4, <2>7 DEF Shape
      <3>2. \A n \in Nat : n > 1 => n # 1
        OBVIOUS
      <3> QED BY <1>3, <1>4, <1>7, <3>1, <3>2
    <2>15. s.read = g.read
      BY <1>3 DEF State, s
    <2>16. g.read = inserted
      <3>1. Cmd(p) \in {"nonces", "finalize"} => q.read = inserted
        BY <1>1, <1>7, TransmitCard DEF BridgeInv, KeyRead, Running, At
      <3>2. Cmd(p) \in Commands
        BY <1>1, Command
      <3> QED BY <1>3, <1>7, <2>14, <3>1, <3>2 DEF Commands
    <2>17. ViewMoves(p, s) /\ KeyMoves(s)
      BY <1>9, <2>4, <2>14, <2>15, <2>16 DEF KeyMoves
    <2> QED BY <1>2, <1>3, <2>1, <2>3, <2>4, <2>5, <2>13, <2>17 DEF Moves
  <1>8. CASE ~Serves(p) /\ ~(Len(g.todo) > 1)
    <2> DEFINE e == Ended(g)
    <2>1. /\ e \in State /\ Local(e) /\ e.driver = NoDriver /\ e.tokens = g.tokens /\ e.kind = g.kind
          /\ e.pc = "ended" /\ e.todo = <<>> /\ e.attempt = 0 /\ e.spent = g.spent
      BY <1>3, <1>5, EndedFields, EndedLocal
    <2>2. TokenMoves(q, e) /\ e.driver.conn = 0 /\ e.driver.token = 0
      <3>1. NoDriver.token = 0 /\ NoDriver.conn = 0
        BY DEF NoDriver
      <3>2. g.tokens \subseteq q.tokens \cup ({q.driver.token} \ {0})
        BY <1>3 DEF TokenMoves
      <3> QED BY <2>1, <3>1, <3>2 DEF TokenMoves
    <2> HIDE DEF e
    <2>3. CASE Cmd(p) # "finalize"
      <3>1. r = e
        BY <1>8, <2>3 DEF Continues, e
      <3> QED BY <1>2, <2>1, <2>2, <3>1, Disconnected DEF Moves
    <2>4. CASE Cmd(p) = "finalize"
      <3> DEFINE s == [e EXCEPT !.pc = "combine"]
      <3>1. r = s
        BY <1>8, <2>4 DEF Continues, e
      <3>2. s \in State
        BY <2>1 DEF State, PC
      <3>3. /\ s.pc = "combine" /\ s.todo = e.todo /\ s.op = e.op /\ s.attempt = e.attempt /\ s.kind = e.kind
            /\ s.driver = e.driver /\ s.spent = e.spent /\ s.tokens = e.tokens /\ s.given = e.given
            /\ s.twice = e.twice /\ s.mixed = e.mixed /\ s.result = e.result /\ s.excused = e.excused
        BY <2>1 DEF State
      <3> HIDE DEF s
      <3>4. q.kind \in {"sign", "arkade", "proof"}
        BY <1>1, <1>3, <1>4, <1>8, <2>4 DEF Local, Scripted, Serves
      <3>5. Len(s.todo) = 0
        BY <2>1, <3>3
      <3>6. Clean(s) /\ TokenMoves(q, s)
        BY <2>1, <2>2, <3>3 DEF Clean, TokenMoves, Local
      <3>7. Spending(s)
        <4>1. g.spent = 0
          BY <1>3, <1>5, <3>4
        <4> QED BY <2>1, <3>3, <4>1 DEF Spending
      <3>8. Local(s)
        BY <1>3, <2>1, <3>3, <3>4, <3>5, <3>6, <3>7 DEF Local, Shape, Scripted
      <3>9. s.driver.conn = 0
        BY <2>2, <3>3
      <3> QED BY <1>2, <2>2, <3>1, <3>2, <3>3, <3>6, <3>8, <3>9, Disconnected DEF Moves
    <2> QED BY <2>3, <2>4
  <1> QED BY <1>6, <1>7, <1>8

\* The secrets, nonces, coefficients and hashes of a round are integers.
LEMMA MathInputs ==
  ASSUME NEW t, t \subseteq Int, NEW coefficients, coefficients \subseteq Int \X Int,
         NEW m \in Math(t, coefficients)
  PROVE  Inputs(m)
  <1>1. Hashes \subseteq Int /\ Secrets \subseteq Int
    BY CosignAssumption, ScalarInt DEF Secrets
  <1>2. EvenSecrets \subseteq Int
    <2>1. ASSUME NEW x \in Secrets
          PROVE  norm_even(x) \in Int
      <3>1. x \in Scalars
        BY DEF Secrets
      <3>2. lift_x(x) \in Scalars
        BY <3>1, Lift
      <3> QED BY <3>2, ScalarInt DEF norm_even
    <2> QED BY <2>1 DEF EvenSecrets
  <1>3. /\ m.card \in Secrets /\ m.client \in EvenSecrets /\ m.kCard \in Secrets \X Secrets
        /\ m.kClient \in EvenSecrets \X EvenSecrets /\ m.a \in coefficients /\ m.b \in Hashes
        /\ m.e \in Hashes /\ m.t \in t
    BY DEF Math
  <1>4. m.kCard \in Int \X Int /\ m.kClient \in Int \X Int
    BY <1>1, <1>2, <1>3
  <1> QED BY <1>1, <1>2, <1>3, <1>4 DEF Inputs

\* The sets the coefficients of a round are drawn from are pairs of integers.
LEMMA CoefficientPairs ==
  /\ Coefficients \subseteq Int \X Int
  /\ (Hashes \ {0}) \X (Hashes \ {0}) \subseteq Int \X Int
  /\ Scalars \subseteq Int /\ Hashes \subseteq Int /\ {0} \subseteq Int
  <1>1. Scalars \subseteq Int /\ Hashes \subseteq Int /\ {0} \subseteq Int
    BY CosignAssumption, ScalarInt
  <1>2. ASSUME NEW h \in Hashes
        PROVE  <<h, 1>> \in Int \X Int /\ <<1, h>> \in Int \X Int
    BY <1>1
  <1> QED BY <1>1, <1>2 DEF Coefficients

\* Every result of a round that is failed is excused.
LEMMA Results ==
  ASSUME BridgeInv, NEW p \in Processes, Combine(p)
  PROVE  \E m, result : /\ Outcome(p, m, result)
                        /\ result \in {"raised", "ok", "failed"}
                        /\ result = "failed" => InfiniteNonce(m.kCard, m.kClient, m.b)
  <1> USE CoefficientPairs
  <1>1. process[p].pc = "combine" /\ Local(process[p])
    BY Known DEF Combine, At
  <1>2. process[p].kind \in {"sign", "arkade", "proof"}
    BY <1>1 DEF Local, Requested, Scripted
  <1>3. CASE process[p].kind = "sign"
    <2>1. CASE \E m \in Math(Scalars, Coefficients) : Outcome(p, m, cosign_tweaked(m))
      <3>1. PICK m \in Math(Scalars, Coefficients) : Outcome(p, m, cosign_tweaked(m))
        BY <2>1
      <3>2. cosign_tweaked(m) \in {"raised", "ok", "failed"}
        BY DEF cosign_tweaked, Status
      <3>3. cosign_tweaked(m) = "failed" => InfiniteNonce(m.kCard, m.kClient, m.b)
        BY MathInputs, ScriptsVerify
      <3> QED BY <3>1, <3>2, <3>3
    <2>2. CASE \E m \in Math({0}, Coefficients) : Outcome(p, m, musig2_round(m))
      <3>1. PICK m \in Math({0}, Coefficients) : Outcome(p, m, musig2_round(m))
        BY <2>2
      <3>2. musig2_round(m) \in {"raised", "ok", "failed"}
        BY DEF musig2_round, Status
      <3>3. musig2_round(m) = "failed" => InfiniteNonce(m.kCard, m.kClient, m.b)
        BY MathInputs, ScriptsVerify
      <3> QED BY <3>1, <3>2, <3>3
    <2> QED BY <1>3, <2>1, <2>2 DEF Combine
  <1>4. CASE process[p].kind = "arkade"
    <2>1. PICK m \in Math(Hashes, Coefficients), tweaked \in BOOLEAN : Outcome(p, m, run_case(m, tweaked))
      BY <1>4 DEF Combine
    <2>2. run_case(m, tweaked) \in {"raised", "ok", "failed"}
      BY DEF run_case, Status
    <2>3. run_case(m, tweaked) = "failed" => InfiniteNonce(m.kCard, m.kClient, m.b)
      BY MathInputs, ScriptsVerify
    <2> QED BY <2>1, <2>2, <2>3
  <1>5. CASE process[p].kind = "proof"
    <2>1. PICK m \in Math({0}, (Hashes \ {0}) \X (Hashes \ {0})) : Outcome(p, m, cosign_proof(m))
      BY <1>5 DEF Combine
    <2>2. cosign_proof(m) \in {"raised", "ok", "failed"}
      BY DEF cosign_proof, Status
    <2>3. cosign_proof(m) = "failed" => InfiniteNonce(m.kCard, m.kClient, m.b)
      BY MathInputs, ScriptsVerify
    <2> QED BY <2>1, <2>2, <2>3
  <1> QED BY <1>2, <1>3, <1>4, <1>5

\* The end of a round, whatever it comes to.
LEMMA MoveCombine ==
  ASSUME BridgeInv, NEW p \in Processes, Combine(p)
  PROVE  \E r : Becomes(p, r) /\ Moves(p, r)
  <1> DEFINE q == process[p]
  <1>1. q \in State /\ Local(q) /\ q.pc = "combine"
    BY Known DEF Combine, At
  <1>2. PICK m, result : /\ Outcome(p, m, result)
                         /\ result \in {"raised", "ok", "failed"}
                         /\ result = "failed" => InfiniteNonce(m.kCard, m.kClient, m.b)
    BY Results
  <1> DEFINE x == InfiniteNonce(m.kCard, m.kClient, m.b)
             r == [q EXCEPT !.pc = "ended", !.result = result, !.excused = x]
  <1>3. Becomes(p, r)
    BY <1>2 DEF Outcome
  <1>4. x \in BOOLEAN /\ (result = "failed" => x)
    BY <1>2 DEF InfiniteNonce
  <1> HIDE DEF x
  <1>5. r \in State
    BY <1>1, <1>2, <1>4 DEF State, PC
  <1>6. /\ r.pc = "ended" /\ r.todo = q.todo /\ r.op = q.op /\ r.attempt = q.attempt /\ r.kind = q.kind
        /\ r.driver = q.driver /\ r.spent = q.spent /\ r.tokens = q.tokens /\ r.given = q.given
        /\ r.twice = q.twice /\ r.mixed = q.mixed /\ r.result = result /\ r.excused = x
    BY <1>1 DEF State
  <1> HIDE DEF r
  <1>7. q.todo = <<>> /\ Len(r.todo) = 0 /\ q.kind \notin {"bridge", "e2e"}
    <2>1. q.todo = <<>> /\ q.kind \notin {"bridge", "e2e"}
      BY <1>1 DEF Local, Requested
    <2> QED BY <1>6, <2>1
  <1>8. Clean(r) /\ TokenMoves(q, r)
    BY <1>1, <1>4, <1>6 DEF Clean, TokenMoves, Local
  <1>9. Spending(r)
    BY <1>1, <1>6, <1>7 DEF Spending, Local
  <1>10. Local(r)
    BY <1>6, <1>7, <1>8, <1>9 DEF Local, Shape, Scripted
  <1>11. ViewMoves(p, r) /\ KeyMoves(r)
    <2>1. applet' = applet
      BY DEF Combine, world
    <2>2. r.driver.conn = drops + 1 /\ inserted # NoCard => Alive(p)
      BY <1>6 DEF Alive
    <2>3. ViewMoves(p, r)
      BY <1>6, <2>1, <2>2 DEF ViewMoves, BridgeInv, DriverView, card
    <2> QED BY <1>6, <2>3 DEF KeyMoves
  <1>12. Moves(p, r)
    BY <1>5, <1>6, <1>8, <1>10, <1>11 DEF Moves
  <1> QED BY <1>3, <1>12

\* Every step of a process is such a move.
LEMMA ProcessMoves ==
  ASSUME BridgeInv, NEW p \in Processes, Process(p)
  PROVE  \E r : Becomes(p, r) /\ Moves(p, r)
  BY MoveStartProcess, MoveRequest, MoveStop, MoveFido, MoveConnect, MoveConnectFails, MovePinRefused,
     MoveVerifyOk, MoveVerifyWrong, MoveTransmit, MoveRefused, MoveLost, MoveCombine DEF Process

\* What a step of a process does to the world: the card in the reader is left
\* alone, or nobody's, or the process is among its users.
Touched(p, a) == a = card \/ a.users = {} \/ p \in a.users
\* Everything a step of a process may do outside of the process.
WorldMoves(p) ==
  /\ applet' \in [Cards -> Applet] /\ inserted' = inserted /\ drops' = drops
  /\ faults' \in 0..MaxFaults /\ pairs' \in {pairs, pairs + 1} /\ pairs' \in 0..MaxNonces
  /\ \A c \in Cards : applet'[c].nonce <= pairs'
  /\ inserted # NoCard => Touched(p, applet'[inserted])

\* It leaves the applets alone,
LEMMA AppletKept ==
  ASSUME BridgeInv, NEW p, applet' = applet, pairs' = pairs
  PROVE  /\ applet' \in [Cards -> Applet] /\ \A c \in Cards : applet'[c].nonce <= pairs'
         /\ pairs' \in {pairs, pairs + 1} /\ pairs' \in 0..MaxNonces
         /\ inserted # NoCard => Touched(p, applet'[inserted])
  BY DEF BridgeInv, BridgeTypeOK, TokensApart, Touched, card

\* or changes the one in the reader to one that is of no higher nonce pair,
LEMMA AppletChanged ==
  ASSUME BridgeInv, NEW p, NEW a \in Applet, inserted # NoCard, applet' = [applet EXCEPT ![inserted] = a],
         pairs' \in {pairs, pairs + 1}, pairs' \in 0..MaxNonces, a.nonce <= pairs', Touched(p, a)
  PROVE  /\ applet' \in [Cards -> Applet] /\ \A c \in Cards : applet'[c].nonce <= pairs'
         /\ pairs' \in {pairs, pairs + 1} /\ pairs' \in 0..MaxNonces
         /\ inserted # NoCard => Touched(p, applet'[inserted])
  <1>1. applet \in [Cards -> Applet] /\ inserted \in Cards /\ pairs \in Nat /\ MaxNonces \in Nat
    BY CardType, BridgeAssumption DEF BridgeInv, BridgeTypeOK
  <1>2. applet' \in [Cards -> Applet] /\ applet'[inserted] = a
    BY <1>1
  <1>3. ASSUME NEW c \in Cards
        PROVE  applet'[c].nonce <= pairs'
    <2>1. CASE c = inserted
      BY <1>2, <2>1
    <2>2. CASE c # inserted
      <3>1. applet'[c] = applet[c] /\ applet[c].nonce <= pairs /\ applet[c] \in Applet
        BY <1>1, <2>2 DEF BridgeInv, TokensApart
      <3>2. applet[c].nonce \in 0..MaxNonces
        BY <3>1 DEF Applet
      <3> QED BY <1>1, <3>1, <3>2
    <2> QED BY <2>1, <2>2
  <1> QED BY <1>2, <1>3

\* as SELECT does,
LEMMA AppletSelected ==
  ASSUME BridgeInv, NEW p \in Processes, inserted # NoCard, NEW users, users \in {{}, {p}},
         SelectedBy(users), pairs' = pairs
  PROVE  /\ applet' \in [Cards -> Applet] /\ \A c \in Cards : applet'[c].nonce <= pairs'
         /\ pairs' \in {pairs, pairs + 1} /\ pairs' \in 0..MaxNonces
         /\ inserted # NoCard => Touched(p, applet'[inserted])
  <1> DEFINE a == [card EXCEPT !.verified = FALSE, !.nonce = 0, !.users = users]
  <1>1. inserted \in Cards /\ card \in Applet /\ applet \in [Cards -> Applet] /\ pairs \in 0..MaxNonces /\ 0 \in 0..MaxNonces
    BY CardType, BridgeAssumption DEF BridgeInv, BridgeTypeOK
  <1>2. applet' = [applet EXCEPT ![inserted] = a]
    BY <1>1 DEF SelectedBy, card, Applet
  <1>3. a \in Applet /\ a.nonce = 0 /\ a.users = users
    BY <1>1 DEF Applet
  <1> HIDE DEF a
  <1>4. Touched(p, a)
    BY <1>3 DEF Touched
  <1>5. pairs' \in {pairs, pairs + 1} /\ pairs' \in 0..MaxNonces /\ a.nonce <= pairs'
    BY <1>1, <1>3
  <1> QED BY <1>2, <1>3, <1>4, <1>5, AppletChanged

\* An applet after it was used, and with its session burned.
LEMMA UsedType ==
  ASSUME NEW p \in Processes, NEW a \in Applet
  PROVE  /\ Use(p, a) \in Applet /\ p \in Use(p, a).users /\ Use(p, a).nonce = a.nonce /\ Use(p, a).tries = a.tries
         /\ Burn(Use(p, a)) \in Applet /\ p \in Burn(Use(p, a)).users /\ Burn(Use(p, a)).nonce = 0
         /\ Burn(Use(p, a)).tries = a.tries
  <1>1. Use(p, a) \in Applet /\ p \in Use(p, a).users /\ Use(p, a).nonce = a.nonce /\ Use(p, a).tries = a.tries
    BY DEF Use, Applet
  <1>2. ASSUME NEW u \in Applet
        PROVE  Burn(u) \in Applet /\ Burn(u).users = u.users /\ Burn(u).nonce = 0 /\ Burn(u).tries = u.tries
    <2>1. 0 \in 0..MaxNonces
      BY BridgeAssumption
    <2> QED BY <2>1 DEF Burn, Applet
  <1> QED BY <1>1, <1>2

\* as VERIFY does,
LEMMA AppletVerified ==
  ASSUME BridgeInv, NEW p \in Processes, inserted # NoCard,
         applet' = [applet EXCEPT ![inserted] = AfterVerify(p, @)], pairs' = pairs
  PROVE  /\ applet' \in [Cards -> Applet] /\ \A c \in Cards : applet'[c].nonce <= pairs'
         /\ pairs' \in {pairs, pairs + 1} /\ pairs' \in 0..MaxNonces
         /\ inserted # NoCard => Touched(p, applet'[inserted])
  <1> DEFINE u == Use(p, card)
             b == Burn(u)
             n == card.tries - Spends(p, card)
             a == AfterVerify(p, card)
  <1>1. inserted \in Cards /\ card \in Applet /\ applet \in [Cards -> Applet] /\ pairs \in 0..MaxNonces
        /\ card = applet[inserted] /\ card.nonce <= pairs /\ card.nonce \in Nat /\ card.tries \in 0..CardTries
        /\ CardTries \in Nat
    BY CardType, BridgeAssumption DEF BridgeInv, BridgeTypeOK, card, TokensApart, Applet
  <1>2. applet' = [applet EXCEPT ![inserted] = a]
    BY <1>1
  <1>3. /\ u \in Applet /\ p \in u.users /\ u.nonce = card.nonce
        /\ b \in Applet /\ p \in b.users /\ b.nonce = 0 /\ b.tries = card.tries
    BY <1>1, UsedType
  <1>4. n \in 0..CardTries
    <2>1. Spends(p, card) = 0 \/ (Spends(p, card) = 1 /\ card.tries > 0)
      BY DEF Spends
    <2> QED BY <1>1, <2>1
  <1>5. /\ ~Selected(card) => a = card
        /\ Selected(card) /\ PinMatches(p, card) => a = [u EXCEPT !.verified = TRUE, !.tries = CardTries]
        /\ Selected(card) /\ ~PinMatches(p, card) => a = [b EXCEPT !.tries = n]
    <2>1. [b EXCEPT !.tries = @ - Spends(p, card)] = [b EXCEPT !.tries = n]
      <3> HIDE DEF b
      <3> QED BY <1>3 DEF Applet
    <2>2. PinMatches(p, card) => Selected(card)
      BY DEF PinMatches
    <2>3. a = IF ~Selected(card) THEN card
              ELSE IF PinMatches(p, card) THEN [u EXCEPT !.verified = TRUE, !.tries = CardTries]
              ELSE [b EXCEPT !.tries = @ - Spends(p, card)]
      BY <2>2, Zenon DEF AfterVerify
    <2> HIDE DEF u, b, n, a
    <2> QED BY <2>1, <2>3
  <1> HIDE DEF u, b, n, a
  <1>0. CardTries \in 0..CardTries /\ 0 <= pairs
    BY <1>1
  <1>6. [u EXCEPT !.verified = TRUE, !.tries = CardTries] \in Applet
        /\ p \in [u EXCEPT !.verified = TRUE, !.tries = CardTries].users
        /\ [u EXCEPT !.verified = TRUE, !.tries = CardTries].nonce = card.nonce
    BY <1>0, <1>3 DEF Applet
  <1>7. [b EXCEPT !.tries = n] \in Applet /\ p \in [b EXCEPT !.tries = n].users /\ [b EXCEPT !.tries = n].nonce = 0
    BY <1>3, <1>4 DEF Applet
  <1>8. a \in Applet /\ Touched(p, a) /\ a.nonce <= pairs
    <2>1. ~Selected(card) => card.users = {}
      BY DEF Selected
    <2>2. CASE ~Selected(card)
      BY <1>1, <1>5, <2>2 DEF Touched
    <2>3. CASE Selected(card) /\ PinMatches(p, card)
      BY <1>1, <1>5, <1>6, <2>3 DEF Touched
    <2>4. CASE Selected(card) /\ ~PinMatches(p, card)
      BY <1>0, <1>5, <1>7, <2>4 DEF Touched
    <2> QED BY <2>2, <2>3, <2>4
  <1>9. pairs' \in {pairs, pairs + 1} /\ pairs' \in 0..MaxNonces /\ a.nonce <= pairs'
    BY <1>1, <1>8
  <1> QED BY <1>2, <1>8, <1>9, AppletChanged

\* and as every other command does.
LEMMA AppletExecuted ==
  ASSUME BridgeInv, NEW p \in Processes, inserted # NoCard, Execute(p)
  PROVE  /\ applet' \in [Cards -> Applet] /\ \A c \in Cards : applet'[c].nonce <= pairs'
         /\ pairs' \in {pairs, pairs + 1} /\ pairs' \in 0..MaxNonces
         /\ inserted # NoCard => Touched(p, applet'[inserted])
  <1> DEFINE u == Use(p, card)
             b == Burn(u)
             n == pairs + 1
             a == AfterCmd(p, card)
  <1>1. inserted \in Cards /\ card \in Applet /\ applet \in [Cards -> Applet] /\ pairs \in 0..MaxNonces
        /\ card = applet[inserted] /\ card.nonce <= pairs /\ card.nonce \in Nat /\ MaxNonces \in Nat
    BY CardType, BridgeAssumption DEF BridgeInv, BridgeTypeOK, card, TokensApart, Applet
  <1>2. applet' = [applet EXCEPT ![inserted] = a]
    BY <1>1 DEF Execute
  <1>3. /\ u \in Applet /\ p \in u.users /\ u.nonce = card.nonce
        /\ b \in Applet /\ p \in b.users /\ b.nonce = 0
    BY <1>1, UsedType
  <1>4. a = IF ~Selected(card) THEN card ELSE IF ~Accepts(p, card) THEN b ELSE
         CASE Cmd(p) = "keygen"   -> [u EXCEPT !.key = TRUE, !.nonce = 0]
         [] Cmd(p) = "nonces"   -> [u EXCEPT !.nonce = n]
         [] Cmd(p) = "finalize" -> [u EXCEPT !.nonce = 0]
         [] Cmd(p) = "setpin"   -> [b EXCEPT !.pin = TRUE]
         [] OTHER               -> u
    BY DEF AfterCmd
  <1>5. /\ pairs' = IF Draws(p) THEN n ELSE pairs
        /\ Draws(p) => pairs < MaxNonces
        /\ Draws(p) <=> Accepts(p, card) /\ Cmd(p) = "nonces"
    BY DEF Execute, Draws
  <1>6. n \in Nat /\ pairs <= n /\ (pairs < MaxNonces => n \in 0..MaxNonces) /\ n <= n /\ 0 <= pairs /\ 0 <= n
        /\ card.nonce <= n
    BY <1>1
  <1>7. pairs' \in {pairs, n} /\ pairs' \in 0..MaxNonces
    BY <1>1, <1>5, <1>6
  <1> HIDE DEF u, b, n, a
  <1>8. [u EXCEPT !.key = TRUE, !.nonce = 0] \in Applet /\ p \in [u EXCEPT !.key = TRUE, !.nonce = 0].users
        /\ [u EXCEPT !.key = TRUE, !.nonce = 0].nonce = 0
    BY <1>1, <1>3 DEF Applet
  <1>9. n \in 0..MaxNonces => [u EXCEPT !.nonce = n] \in Applet /\ p \in [u EXCEPT !.nonce = n].users
        /\ [u EXCEPT !.nonce = n].nonce = n
    BY <1>3 DEF Applet
  <1>10. [u EXCEPT !.nonce = 0] \in Applet /\ p \in [u EXCEPT !.nonce = 0].users /\ [u EXCEPT !.nonce = 0].nonce = 0
    BY <1>1, <1>3 DEF Applet
  <1>11. [b EXCEPT !.pin = TRUE] \in Applet /\ p \in [b EXCEPT !.pin = TRUE].users /\ [b EXCEPT !.pin = TRUE].nonce = 0
    BY <1>3 DEF Applet
  <1>12. a \in Applet /\ Touched(p, a) /\ a.nonce <= pairs'
    <2>1. card.nonce <= pairs' /\ 0 <= pairs'
      BY <1>1, <1>6, <1>7
    <2>2. CASE ~Selected(card)
      BY <1>1, <1>4, <2>1, <2>2 DEF Touched
    <2>3. CASE Selected(card) /\ ~Accepts(p, card)
      BY <1>3, <1>4, <2>1, <2>3 DEF Touched
    <2>4. CASE Selected(card) /\ Accepts(p, card)
      <3>1. CASE Cmd(p) = "keygen"
        BY <1>4, <1>8, <2>1, <2>4, <3>1 DEF Touched
      <3>2. CASE Cmd(p) = "nonces"
        BY <1>4, <1>5, <1>6, <1>9, <2>4, <3>2 DEF Touched
      <3>3. CASE Cmd(p) = "finalize"
        BY <1>4, <1>10, <2>1, <2>4, <3>3 DEF Touched
      <3>4. CASE Cmd(p) = "setpin"
        BY <1>4, <1>11, <2>1, <2>4, <3>4 DEF Touched
      <3>5. CASE Cmd(p) \notin {"keygen", "nonces", "finalize", "setpin"}
        BY <1>3, <1>4, <2>1, <2>4, <3>5 DEF Touched
      <3> QED BY <3>1, <3>2, <3>3, <3>4, <3>5
    <2> QED BY <2>2, <2>3, <2>4
  <1>13. pairs' \in {pairs, pairs + 1}
    BY <1>7 DEF n
  <1> QED BY <1>2, <1>7, <1>12, <1>13, AppletChanged

\* Every action of a process does one of these.
LEMMA ProcessWorld ==
  ASSUME BridgeInv, NEW p \in Processes, Process(p)
  PROVE  WorldMoves(p)
  <1>1. faults \in 0..MaxFaults /\ MaxFaults \in Nat
    BY BridgeAssumption DEF BridgeInv, BridgeTypeOK
  <1>2. Fault => faults' \in 0..MaxFaults
    BY <1>1 DEF Fault
  <1>3. Alive(p) => inserted # NoCard
    BY DEF Alive
  <1>4. CASE UNCHANGED world
    BY <1>1, <1>4, AppletKept DEF world, WorldMoves
  <1>5. CASE Fido(p)
    <2>1. CASE inserted = NoCard
      BY <1>1, <1>5, <2>1, AppletKept DEF Fido, WorldMoves
    <2>2. CASE inserted # NoCard
      BY <1>1, <1>5, <2>2, AppletSelected DEF Fido, WorldMoves
    <2> QED BY <2>1, <2>2
  <1>6. CASE Connect(p)
    BY <1>1, <1>6, AppletSelected DEF Connect, WorldMoves
  <1>7. CASE ConnectFails(p)
    <2>1. faults' \in 0..MaxFaults
      BY <1>1, <1>2, <1>7 DEF ConnectFails
    <2>2. CASE applet' = applet
      BY <1>7, <2>1, <2>2, AppletKept DEF ConnectFails, WorldMoves
    <2>3. CASE inserted # NoCard /\ SelectedBy({p})
      BY <1>7, <2>1, <2>3, AppletSelected DEF ConnectFails, WorldMoves
    <2> QED BY <1>7, <2>2, <2>3 DEF ConnectFails
  <1>8. CASE VerifyOk(p) \/ VerifyWrong(p)
    BY <1>1, <1>3, <1>8, AppletVerified DEF VerifyOk, VerifyWrong, WorldMoves
  <1>9. CASE Transmit(p) \/ Refused(p)
    BY <1>1, <1>3, <1>9, AppletExecuted DEF Transmit, Refused, WorldMoves
  <1>10. CASE Lost(p)
    <2>1. PICK acted \in BOOLEAN :
            /\ IF Alive(p) THEN Fault ELSE ~acted /\ UNCHANGED faults
            /\ CASE ~acted -> UNCHANGED <<applet, pairs>>
                 [] acted /\ Verifies(p) ->
                      applet' = [applet EXCEPT ![inserted] = AfterVerify(p, @)] /\ UNCHANGED pairs
                 [] OTHER -> Execute(p)
      BY <1>10 DEF Lost
    <2>2. faults' \in 0..MaxFaults /\ inserted' = inserted /\ drops' = drops /\ (acted => inserted # NoCard)
      BY <1>1, <1>2, <1>3, <1>10, <2>1 DEF Lost
    <2>3. CASE ~acted
      BY <2>1, <2>2, <2>3, AppletKept DEF WorldMoves
    <2>4. CASE acted /\ Verifies(p)
      BY <2>1, <2>2, <2>4, AppletVerified DEF WorldMoves
    <2>5. CASE acted /\ ~Verifies(p)
      BY <2>1, <2>2, <2>5, AppletExecuted DEF WorldMoves
    <2> QED BY <2>3, <2>4, <2>5
  <1>11. StartProcess(p) \/ Request(p) \/ Stop(p) \/ PinRefused(p) \/ Combine(p) => UNCHANGED world
    BY DEF StartProcess, Request, Stop, PinRefused, Combine
  <1> QED BY <1>4, <1>5, <1>6, <1>7, <1>8, <1>9, <1>10, <1>11 DEF Process

\* The tokens of one process after its step, next to those of the others.
LEMMA TokensKept ==
  ASSUME BridgeInv, NEW p \in Processes, NEW r, Becomes(p, r), Moves(p, r), WorldMoves(p)
  PROVE  TokensApart'
  <1> DEFINE q == process[p]
  <1>1. /\ process \in [Processes -> State] /\ pairs \in Nat /\ pairs' \in {pairs, pairs + 1}
        /\ process' = [process EXCEPT ![p] = r]
    BY DEF BridgeInv, BridgeTypeOK, Becomes, WorldMoves
  <1>2. process'[p] = r /\ \A x \in Processes \ {p} : process'[x] = process[x]
    BY <1>1
  <1>3. /\ \A x \in Processes : /\ process[x].driver.token \in Nat /\ process[x].driver.token <= pairs
                                /\ process[x].tokens \subseteq 1..pairs
                                /\ \A y \in Processes : process[x].driver.token \notin process[y].tokens
        /\ \A x \in Processes : \A y \in Processes \ {x} :
             /\ process[x].driver.token # 0 => process[x].driver.token # process[y].driver.token
             /\ process[x].tokens \cap process[y].tokens = {}
    <2>1. \A x \in Processes : process[x].driver.token \in Nat
      BY Known, BridgeAssumption
    <2> QED BY <2>1 DEF BridgeInv, TokensApart
  <1> DEFINE token(x) == process'[x].driver.token
             sent(x) == process'[x].tokens
  <1>4. /\ r.driver.token \in {0, q.driver.token, pairs + 1}
        /\ r.driver.token = pairs + 1 /\ r.driver.token # q.driver.token => pairs' = pairs + 1
        /\ r.tokens \subseteq q.tokens \cup ({q.driver.token} \ {0})
        /\ r.tokens = q.tokens \/ r.driver.token = 0
    <2>1. pairs + 1 # 0
      BY <1>1
    <2>2. TokenMoves(q, r)
      BY DEF Moves
    <2> HIDE DEF q
    <2> QED BY <2>1, <2>2 DEF TokenMoves
  <1>5. ASSUME NEW x \in Processes
        PROVE  token(x) <= pairs' /\ sent(x) \subseteq 1..pairs'
    <2>1. CASE x = p
      <3>1. q.driver.token \in Nat /\ q.driver.token <= pairs /\ q.tokens \subseteq 1..pairs
        BY <1>3
      <3>2. r.driver.token <= pairs'
        BY <1>1, <1>4, <3>1
      <3>3. r.tokens \subseteq 1..pairs
        BY <1>1, <1>4, <3>1
      <3>4. 1..pairs \subseteq 1..pairs'
        BY <1>1
      <3> QED BY <1>2, <2>1, <3>2, <3>3, <3>4
    <2>2. CASE x # p
      <3>1. token(x) = process[x].driver.token /\ sent(x) = process[x].tokens
        BY <1>2, <2>2
      <3>2. process[x].driver.token \in Nat /\ process[x].driver.token <= pairs /\ process[x].tokens \subseteq 1..pairs
        BY <1>3
      <3>3. 1..pairs \subseteq 1..pairs' /\ pairs <= pairs' /\ pairs' \in Nat
        BY <1>1
      <3> QED BY <1>1, <3>1, <3>2, <3>3
    <2> QED BY <2>1, <2>2
  <1>6. \A x \in Processes : process[x].driver.token # pairs + 1 /\ pairs + 1 \notin process[x].tokens /\ 0 \notin process[x].tokens
    <2>1. \A n \in Nat : n <= pairs => n # pairs + 1
      BY <1>1
    <2>2. pairs + 1 \notin 1..pairs /\ 0 \notin 1..pairs
      BY <1>1
    <2> QED BY <1>3, <2>1, <2>2
  <1>7. ASSUME NEW x \in Processes, NEW y \in Processes
        PROVE  token(x) \notin sent(y)
    <2>1. CASE x = p /\ y = p
      BY <1>2, <1>3, <1>4, <1>6, <2>1
    <2>2. CASE x = p /\ y # p
      BY <1>2, <1>3, <1>4, <1>6, <2>2
    <2>3. CASE x # p /\ y = p
      <3>1. process[x].driver.token # 0 => process[x].driver.token # q.driver.token
        BY <1>3, <2>3
      <3> QED BY <1>2, <1>3, <1>4, <1>6, <2>3, <3>1
    <2>4. CASE x # p /\ y # p
      BY <1>2, <1>3, <2>4
    <2> QED BY <2>1, <2>2, <2>3, <2>4
  <1>8. ASSUME NEW x \in Processes, NEW y \in Processes \ {x}
        PROVE  /\ token(x) # 0 => token(x) # token(y)
               /\ sent(x) \cap sent(y) = {}
    <2>1. CASE x = p
      <3>1. token(x) = r.driver.token /\ sent(x) = r.tokens /\ token(y) = process[y].driver.token /\ sent(y) = process[y].tokens
        BY <1>2, <2>1
      <3>2. q.driver.token # 0 => q.driver.token # process[y].driver.token
        BY <1>3, <2>1
      <3>3. q.tokens \cap process[y].tokens = {} /\ q.driver.token \notin process[y].tokens
        BY <1>3, <2>1
      <3> QED BY <1>4, <1>6, <3>1, <3>2, <3>3
    <2>2. CASE y = p
      <3>1. token(y) = r.driver.token /\ sent(y) = r.tokens /\ token(x) = process[x].driver.token /\ sent(x) = process[x].tokens
        BY <1>2, <2>2
      <3>2. process[x].driver.token # 0 => q.driver.token # process[x].driver.token
        BY <1>3, <2>2
      <3>3. q.tokens \cap process[x].tokens = {} /\ q.driver.token \notin process[x].tokens
        BY <1>3, <2>2
      <3> QED BY <1>4, <1>6, <3>1, <3>2, <3>3
    <2>3. CASE x # p /\ y # p
      <3>1. token(x) = process[x].driver.token /\ sent(x) = process[x].tokens /\ token(y) = process[y].driver.token /\ sent(y) = process[y].tokens
        BY <1>2, <2>3
      <3> QED BY <1>3, <3>1
    <2> QED BY <2>1, <2>2, <2>3
  <1>9. \A c \in Cards : applet'[c].nonce <= pairs'
    BY DEF WorldMoves
  <1> QED BY <1>5, <1>7, <1>8, <1>9 DEF TokensApart

\* A step of a process keeps the invariant.
LEMMA ProcessKeeps ==
  ASSUME BridgeInv, NEW p \in Processes, Process(p)
  PROVE  BridgeInv'
  <1>1. PICK r : Becomes(p, r) /\ Moves(p, r)
    BY ProcessMoves
  <1>2. WorldMoves(p)
    BY ProcessWorld
  <1>3. /\ process \in [Processes -> State] /\ process' = [process EXCEPT ![p] = r] /\ r \in State
        /\ inserted' = inserted /\ drops' = drops /\ drops \in Nat
    BY <1>1, <1>2 DEF BridgeInv, BridgeTypeOK, Becomes, WorldMoves, Moves
  <1>4. process'[p] = r /\ (\A x \in Processes \ {p} : process'[x] = process[x]) /\ process' \in [Processes -> State]
    BY <1>3
  <1>5. ASSUME NEW x \in Processes
        PROVE  Local(process'[x])
    BY <1>1, <1>4 DEF Moves, BridgeInv
  <1>6. BridgeTypeOK'
    <2>1. \A x \in Processes : /\ process'[x].pc = "run" => process'[x].todo # <<>>
                               /\ process'[x].todo # <<>> => process'[x].pc \in {"open", "run"}
      BY <1>5 DEF Local
    <2> QED BY <1>2, <1>3, <1>4, <2>1 DEF BridgeInv, BridgeTypeOK, WorldMoves
  <1>7. Epochs'
    <2>1. \A x \in Processes : process[x].driver.conn <= drops + 1
      BY DEF BridgeInv, Epochs
    <2>2. r.driver.conn <= drops + 1
      BY <1>1, <1>3, <2>1 DEF Moves
    <2> QED BY <1>3, <1>4, <2>1, <2>2 DEF Epochs
  <1>8. TokensApart'
    BY <1>1, <1>2, TokensKept
  <1>9. KeyRead'
    <2>1. SUFFICES ASSUME NEW x \in Processes,
                          process'[x].driver.conn = drops + 1, inserted # NoCard,
                          process'[x].kind \notin {"bridge", "e2e"}, process'[x].pc = "run",
                          Head(process'[x].todo) \in {"nonces", "finalize"}
                   PROVE  process'[x].read = inserted
      BY <1>3 DEF KeyRead, Alive, Serves, Running, At, Cmd
    <2>2. CASE x = p
      BY <1>1, <1>4, <2>1, <2>2 DEF Moves, KeyMoves
    <2>3. CASE x # p
      BY <1>4, <2>1, <2>3 DEF BridgeInv, KeyRead, Alive, Serves, Running, At, Cmd
    <2> QED BY <2>2, <2>3
  <1>10. DriverView'
    <2>1. SUFFICES ASSUME NEW x \in Processes,
                          process'[x].driver.conn = drops + 1, inserted # NoCard, applet'[inserted].users = {x}
                   PROVE  /\ process'[x].driver.verified => applet'[inserted].verified
                          /\ process'[x].driver.token # 0 => applet'[inserted].nonce = process'[x].driver.token
      BY <1>3 DEF DriverView, Alive, card
    <2>2. CASE x = p
      BY <1>1, <1>4, <2>1, <2>2 DEF Moves, ViewMoves
    <2>3. CASE x # p
      <3>1. applet'[inserted] = card
        BY <1>2, <2>1, <2>3 DEF WorldMoves, Touched
      <3> QED BY <1>4, <2>1, <2>3, <3>1 DEF BridgeInv, DriverView, Alive, card
    <2> QED BY <2>2, <2>3
  <1> QED BY <1>5, <1>6, <1>7, <1>8, <1>9, <1>10 DEF BridgeInv

\* A dropped connection is dead, whatever is in the reader now.
LEMMA DropKeeps ==
  ASSUME BridgeInv, Drop
  PROVE  BridgeInv'
  <1>1. /\ applet \in [Cards -> Applet] /\ process' = process /\ pairs' = pairs /\ drops' = drops + 1
        /\ drops \in 0..MaxDrops /\ drops < MaxDrops /\ MaxDrops \in Nat /\ pairs \in 0..MaxNonces
    BY BridgeAssumption DEF Drop, BridgeInv, BridgeTypeOK
  <1>2. ASSUME NEW c \in Cards
        PROVE  applet'[c] \in Applet /\ applet'[c].nonce = 0
    <2>1. applet'[c] = [applet[c] EXCEPT !.verified = FALSE, !.nonce = 0, !.users = {}]
      BY <1>2 DEF Drop
    <2>2. applet[c] \in Applet /\ 0 \in 0..MaxNonces
      BY <1>1, BridgeAssumption
    <2> QED BY <2>1, <2>2 DEF Applet
  <1>3. applet' \in [Cards -> Applet]
    <2>1. applet' = [c \in Cards |-> applet'[c]]
      BY DEF Drop
    <2> QED BY <1>2, <2>1
  <1>4. drops' \in 0..MaxDrops
    BY <1>1
  <1>5. BridgeTypeOK'
    BY <1>1, <1>3, <1>4 DEF Drop, BridgeInv, BridgeTypeOK
  <1>6. \A x \in Processes : /\ Local(process'[x]) /\ process'[x].driver.conn \in Nat
                             /\ process'[x].driver.conn <= drops + 1
    BY <1>1, Known, BridgeAssumption
  <1>7. \A x \in Processes : process'[x].driver.conn <= drops' + 1 /\ process'[x].driver.conn # drops' + 1
    BY <1>1, <1>6
  <1>8. TokensApart'
    <2>1. \A c \in Cards : applet'[c].nonce <= pairs'
      BY <1>1, <1>2
    <2> QED BY <1>1, <2>1 DEF BridgeInv, TokensApart
  <1>9. Epochs' /\ KeyRead' /\ DriverView'
    BY <1>7 DEF Epochs, KeyRead, DriverView, Alive
  <1> QED BY <1>5, <1>6, <1>8, <1>9 DEF BridgeInv

\* The invariant holds initially.
LEMMA BridgeStarts ==
  BridgeInit => BridgeInv
  <1> SUFFICES ASSUME BridgeInit PROVE BridgeInv
    OBVIOUS
  <1> DEFINE s == Start("none", TRUE)
  <1>1. /\ s \in State /\ s.driver = NoDriver /\ s.kind = "none" /\ s.pc = "off" /\ s.attempt = 0 /\ s.spent = 0
        /\ s.todo = <<>> /\ s.op = "none" /\ s.tokens = {} /\ s.twice = FALSE /\ s.mixed = FALSE /\ s.result = "none"
    BY StartFields DEF Start
  <1>3. \A p \in Processes : process[p] = s
    BY DEF BridgeInit
  <1> HIDE DEF s
  <1>2. s.driver.token = 0 /\ s.driver.conn = 0 /\ Len(s.todo) = 0
    BY <1>1 DEF NoDriver
  <1>4. Local(s)
    BY <1>1, <1>2 DEF Local, Shape, Scripted, Spending, Clean
  <1>5. \A f \in {TRUE, FALSE}, g \in {TRUE, FALSE}, h \in {TRUE, FALSE} :
          FreshApplet(f, g, h) \in Applet /\ FreshApplet(f, g, h).nonce = 0
    <2>1. 0 \in 0..MaxNonces /\ CardTries \in 0..CardTries
      BY BridgeAssumption
    <2> QED BY <2>1 DEF FreshApplet, Applet
  <1>6. applet \in [Cards -> Applet] /\ \A c \in Cards : applet[c].nonce = 0
    BY <1>5 DEF BridgeInit
  <1>7. drops = 0 /\ faults = 0 /\ pairs = 0 /\ inserted \in Cards
        /\ 0 \in 0..MaxDrops /\ 0 \in 0..MaxFaults /\ 0 \in 0..MaxNonces
    BY BridgeAssumption DEF BridgeInit
  <1>8. process \in [Processes -> State]
    BY <1>1 DEF BridgeInit, s
  <1>9. BridgeTypeOK
    BY <1>1, <1>3, <1>6, <1>7, <1>8 DEF BridgeTypeOK
  <1>10. Epochs /\ KeyRead /\ DriverView
    BY <1>1, <1>2, <1>3, <1>7 DEF Epochs, KeyRead, DriverView, Alive
  <1>11. TokensApart
    BY <1>1, <1>2, <1>3, <1>6, <1>7 DEF TokensApart
  <1> QED BY <1>3, <1>4, <1>9, <1>10, <1>11 DEF BridgeInv

\* Every step keeps it.
LEMMA BridgeMoves ==
  BridgeInv /\ [BridgeNext]_bridgeVars => BridgeInv'
  <1> SUFFICES ASSUME BridgeInv, [BridgeNext]_bridgeVars PROVE BridgeInv'
    OBVIOUS
  <1>1. CASE Drop
    BY <1>1, DropKeeps
  <1>2. CASE \E p \in Processes : Process(p)
    BY <1>2, ProcessKeeps
  <1>3. CASE UNCHANGED bridgeVars
    BY <1>3 DEF bridgeVars, BridgeInv, BridgeTypeOK, Epochs, TokensApart, KeyRead, DriverView, Alive, Serves, Running,
                At, Cmd, card
  <1> QED BY <1>1, <1>2, <1>3 DEF BridgeNext

\* The invariant holds throughout, for any processes, cards, try limits and bounds.
THEOREM BridgeInvariance ==
  BridgeSpec => []BridgeInv
  BY BridgeStarts, BridgeMoves, PTL DEF BridgeSpec

\* Every variable of the bridges keeps its type.
THEOREM BridgeTypes ==
  BridgeSpec => []BridgeTypeOK
  <1>1. BridgeInv => BridgeTypeOK
    BY DEF BridgeInv
  <1> QED BY <1>1, BridgeInvariance, PTL

\* MuSig2Card never believes in a PIN or nonce session that the card has lost, unless
\* the connection is dead or another process used the applet.
THEOREM DriverKnows ==
  BridgeSpec => []DriverView
  <1>1. BridgeInv => DriverView
    BY DEF BridgeInv
  <1> QED BY <1>1, BridgeInvariance, PTL

\* No token is sent in two FINALIZE commands by anyone, and no client gets a partial
\* for nonces other than those it got last and asked for.
THEOREM NonceSession ==
  BridgeSpec => []OnePartialPerNonce
  <1>1. BridgeInv => OnePartialPerNonce
    BY DEF BridgeInv, OnePartialPerNonce, TokensApart, Local, Clean
  <1> QED BY <1>1, BridgeInvariance, PTL

\* A wrong PIN costs one try, and two in a request of the bridge that is retried.
THEOREM PinSpent ==
  BridgeSpec => []WrongPinBounded
  <1>1. BridgeInv => WrongPinBounded
    BY DEF BridgeInv, WrongPinBounded, Local, Spending, Retries
  <1> QED BY <1>1, BridgeInvariance, PTL

\* No script reports a round of honest signers as failed, but where the sum of their
\* nonces is infinite: for every odd order, secret, nonce, hash and tweak.
THEOREM HonestRounds ==
  BridgeSpec => []CosignVerifies
  <1>1. BridgeInv => CosignVerifies
    BY DEF BridgeInv, CosignVerifies, Local, Clean
  <1> QED BY <1>1, BridgeInvariance, PTL

-----------------------------------------------------------------------------
(* The cards are cards their users can count on.                           *)

\* No guess is counted before there is a PIN.
PinlessFull == \A c \in Cards : ~applet[c].pin => applet[c].tries = CardTries

\* A view is typed.
LEMMA ViewType ==
  ASSUME NEW a \in Applet
  PROVE  /\ View(a) \in CardView
         /\ View(a).key = a.key /\ View(a).pin = a.pin /\ View(a).required = a.required
         /\ View(a).tries = a.tries /\ View(a).verified = a.verified /\ View(a).nonce = a.nonce
  BY BridgeAssumption DEF View, CardView, Applet

\* The contract of the cards, of a change of the one in the reader.
LEMMA SharedSteps ==
  ASSUME BridgeInv, PinlessFull, inserted # NoCard, NEW a \in Applet, pairs' \in Nat,
         applet' = [applet EXCEPT ![inserted] = a]
  PROVE  /\ (View(a) \in {View(card), Shared!Burn(View(card))} /\ pairs' >= pairs) => Shared!Next
         /\ (/\ card.pin /\ card.tries > 0 /\ UNCHANGED pairs
             /\ View(a) = [View(card) EXCEPT !.tries = CardTries, !.verified = TRUE]) => Shared!Next
         /\ (/\ card.pin /\ card.tries > 0 /\ UNCHANGED pairs
             /\ View(a) = Shared!Burn([View(card) EXCEPT !.tries = card.tries - 1])) => Shared!Next
         /\ (/\ ~card.pin /\ ~card.key /\ UNCHANGED pairs
             /\ View(a) = Shared!Burn([View(card) EXCEPT !.pin = TRUE])) => Shared!Next
         /\ (/\ Authorised(card) /\ ~card.key /\ UNCHANGED pairs
             /\ View(a) = [View(card) EXCEPT !.key = TRUE, !.nonce = 0]) => Shared!Next
         /\ (/\ Authorised(card) /\ card.key /\ pairs' > pairs
             /\ View(a) = [View(card) EXCEPT !.nonce = pairs']) => Shared!Next
         /\ (/\ Authorised(card) /\ card.nonce # 0 /\ UNCHANGED pairs
             /\ View(a) = [View(card) EXCEPT !.nonce = 0]) => Shared!Next
  <1> DEFINE x == View(card)
             y == View(a)
  <1>1. inserted \in Cards /\ card \in Applet /\ applet \in [Cards -> Applet] /\ pairs \in Nat
    BY CardType, BridgeAssumption DEF BridgeInv, BridgeTypeOK
  <1>0. PICK held \in Cards : held = inserted
    BY <1>1
  <1>2. Views[inserted] = x /\ Views' = [Views EXCEPT ![inserted] = y]
    BY <1>1 DEF Views, card
  <1>3. /\ x \in CardView /\ y \in CardView
        /\ x.key = card.key /\ x.pin = card.pin /\ x.required = card.required
        /\ x.tries = card.tries /\ x.verified = card.verified /\ x.nonce = card.nonce
    BY <1>1, ViewType
  <1>4. Authorised(card) => Shared!Authorised(x)
    BY <1>3 DEF Authorised, Shared!Authorised
  <1> HIDE DEF x, y
  <1>5. ASSUME y \in {x, Shared!Burn(x)}, pairs' >= pairs
        PROVE  Shared!Next
    <2>1. PICK S \in SUBSET Cards : Views' = [c \in Cards |-> IF c \in S THEN Shared!Burn(Views[c]) ELSE Views[c]]
      <3>1. Views' = [c \in Cards |-> IF c = inserted THEN y ELSE Views[c]]
        BY <1>2 DEF Views
      <3>2. CASE y = x
        <4>1. Views' = [c \in Cards |-> IF c \in {} THEN Shared!Burn(Views[c]) ELSE Views[c]]
          BY <1>2, <3>1, <3>2
        <4> QED BY <4>1, {} \in SUBSET Cards
      <3>3. CASE y = Shared!Burn(x)
        <4>1. Views' = [c \in Cards |-> IF c \in {inserted} THEN Shared!Burn(Views[c]) ELSE Views[c]]
          BY <1>2, <3>1, <3>3
        <4> QED BY <1>1, <4>1, {inserted} \in SUBSET Cards
      <3> QED BY <1>5, <3>2, <3>3
    <2>2. Shared!Lose
      BY <1>5, <2>1 DEF Shared!Lose
    <2> QED BY <2>2 DEF Shared!Next
  <1>6. ASSUME card.pin, card.tries > 0, UNCHANGED pairs, y = [x EXCEPT !.tries = CardTries, !.verified = TRUE]
        PROVE  Shared!Next
    <2>1. /\ Views[inserted].pin /\ Views[inserted].tries > 0
          /\ Views' = [Views EXCEPT ![inserted] = [Views[inserted] EXCEPT !.tries = CardTries, !.verified = TRUE]]
      BY <1>2, <1>3, <1>6
    <2>2. Shared!GuessRight(held)
      BY <1>0, <1>6, <2>1 DEF Shared!GuessRight, Shared!Becomes
    <2> QED BY <2>2 DEF Shared!Next
  <1>7. ASSUME card.pin, card.tries > 0, UNCHANGED pairs, y = Shared!Burn([x EXCEPT !.tries = card.tries - 1])
        PROVE  Shared!Next
    <2>1. [x EXCEPT !.tries = card.tries - 1] = [x EXCEPT !.tries = @ - 1]
      BY <1>3 DEF CardView
    <2>2. /\ Views[inserted].pin /\ Views[inserted].tries > 0
          /\ Views' = [Views EXCEPT ![inserted] = Shared!Burn([Views[inserted] EXCEPT !.tries = @ - 1])]
      BY <1>2, <1>3, <1>7, <2>1
    <2>3. Shared!GuessWrong(held)
      BY <1>0, <1>7, <2>2 DEF Shared!GuessWrong
    <2> QED BY <2>3 DEF Shared!Next
  <1>8. ASSUME ~card.pin, ~card.key, UNCHANGED pairs, y = Shared!Burn([x EXCEPT !.pin = TRUE])
        PROVE  Shared!Next
    <2>1. x.tries = CardTries
      BY <1>1, <1>3, <1>8 DEF PinlessFull, card
    <2>2. [x EXCEPT !.pin = TRUE] = [x EXCEPT !.pin = TRUE, !.tries = CardTries]
      BY <1>3, <2>1 DEF CardView
    <2>3. /\ ~Views[inserted].pin /\ ~Views[inserted].key
          /\ Views' = [Views EXCEPT ![inserted] = Shared!Burn([Views[inserted] EXCEPT !.pin = TRUE, !.tries = CardTries])]
      BY <1>2, <1>3, <1>8, <2>2
    <2>4. Shared!SetPin(held)
      BY <1>0, <1>8, <2>3 DEF Shared!SetPin
    <2> QED BY <2>4 DEF Shared!Next
  <1>9. ASSUME Authorised(card), ~card.key, UNCHANGED pairs, y = [x EXCEPT !.key = TRUE, !.nonce = 0]
        PROVE  Shared!Next
    <2>1. /\ Shared!Authorised(Views[inserted]) /\ ~Views[inserted].key /\ pairs' >= pairs
          /\ Views' = [Views EXCEPT ![inserted] = [Views[inserted] EXCEPT !.key = TRUE, !.nonce = 0]]
      BY <1>1, <1>2, <1>3, <1>4, <1>9
    <2>2. Shared!Keygen(held)
      BY <1>0, <2>1 DEF Shared!Keygen, Shared!Becomes
    <2> QED BY <2>2 DEF Shared!Next
  <1>10. ASSUME Authorised(card), card.key, pairs' > pairs, y = [x EXCEPT !.nonce = pairs']
         PROVE  Shared!Next
    <2>1. /\ Shared!Authorised(Views[inserted]) /\ Views[inserted].key
          /\ Views' = [Views EXCEPT ![inserted] = [Views[inserted] EXCEPT !.nonce = pairs']]
      BY <1>2, <1>3, <1>4, <1>10
    <2>2. Shared!Draw(held)
      BY <1>0, <1>10, <2>1 DEF Shared!Draw
    <2> QED BY <2>2 DEF Shared!Next
  <1>11. ASSUME Authorised(card), card.nonce # 0, UNCHANGED pairs, y = [x EXCEPT !.nonce = 0]
         PROVE  Shared!Next
    <2>1. /\ Shared!Authorised(Views[inserted]) /\ Views[inserted].nonce # 0
          /\ Views' = [Views EXCEPT ![inserted] = [Views[inserted] EXCEPT !.nonce = 0]]
      BY <1>2, <1>3, <1>4, <1>11
    <2>2. Shared!Finalize(held)
      BY <1>0, <1>11, <2>1 DEF Shared!Finalize, Shared!Becomes
    <2> QED BY <2>2 DEF Shared!Next
  <1> QED BY <1>5, <1>6, <1>7, <1>8, <1>9, <1>10, <1>11 DEF x, y

\* Equal fields make equal views.
LEMMA SameView ==
  ASSUME NEW x \in CardView, NEW y \in CardView,
         x.key = y.key, x.pin = y.pin, x.required = y.required, x.tries = y.tries,
         x.verified = y.verified, x.nonce = y.nonce
  PROVE  x = y
  BY DEF CardView

\* A view, by its fields.
LEMMA ViewIs ==
  ASSUME NEW a \in Applet, NEW x \in CardView,
         a.key = x.key, a.pin = x.pin, a.required = x.required, a.tries = x.tries,
         a.verified = x.verified, a.nonce = x.nonce
  PROVE  View(a) = x
  <1>1. View(a) \in CardView
    BY ViewType
  <1>2. /\ View(a).key = x.key /\ View(a).pin = x.pin /\ View(a).required = x.required
        /\ View(a).tries = x.tries /\ View(a).verified = x.verified /\ View(a).nonce = x.nonce
    BY ViewType
  <1> HIDE DEF View
  <1> QED BY <1>1, <1>2, SameView

\* A view with its session burned.
LEMMA BurnedView ==
  ASSUME NEW x \in CardView
  PROVE  /\ Shared!Burn(x) \in CardView
         /\ Shared!Burn(x).key = x.key /\ Shared!Burn(x).pin = x.pin /\ Shared!Burn(x).required = x.required
         /\ Shared!Burn(x).tries = x.tries /\ Shared!Burn(x).verified = FALSE /\ Shared!Burn(x).nonce = 0
  BY DEF Shared!Burn, CardView

\* The view of what the applet makes of its session.
LEMMA ViewOf ==
  ASSUME NEW a \in Applet, NEW p \in Processes
  PROVE  /\ View(Use(p, a)) = View(a) /\ View(Burn(Use(p, a))) = Shared!Burn(View(a))
         /\ Use(p, a).pin = a.pin /\ Burn(Use(p, a)).pin = a.pin
         /\ Burn(Use(p, a)).verified = FALSE /\ Burn(Use(p, a)).nonce = 0
  <1> DEFINE u == Use(p, a)
             b == Burn(u)
  <1>1. u \in Applet /\ b \in Applet
    BY UsedType
  <1>2. /\ u.key = a.key /\ u.pin = a.pin /\ u.required = a.required
        /\ u.tries = a.tries /\ u.verified = a.verified /\ u.nonce = a.nonce
    BY DEF Use, Applet
  <1>3. /\ b.key = a.key /\ b.pin = a.pin /\ b.required = a.required
        /\ b.tries = a.tries /\ b.verified = FALSE /\ b.nonce = 0
    BY <1>1, <1>2 DEF Burn, Applet
  <1> HIDE DEF u, b
  <1> DEFINE x == View(a)
             y == Shared!Burn(x)
  <1>4. /\ x \in CardView /\ x.key = a.key /\ x.pin = a.pin /\ x.required = a.required
        /\ x.tries = a.tries /\ x.verified = a.verified /\ x.nonce = a.nonce
    BY ViewType
  <1> HIDE DEF x
  <1>5. /\ y \in CardView /\ y.key = x.key /\ y.pin = x.pin /\ y.required = x.required
        /\ y.tries = x.tries /\ y.verified = FALSE /\ y.nonce = 0
    BY <1>4, BurnedView
  <1> HIDE DEF y
  <1>6. View(u) = x
    BY <1>1, <1>2, <1>4, ViewIs
  <1>7. View(b) = y
    BY <1>1, <1>3, <1>4, <1>5, ViewIs
  <1> QED BY <1>2, <1>3, <1>6, <1>7 DEF u, b, x, y

\* Whoever guesses: a VERIFY is a guess, or an error.
LEMMA SharedVerify ==
  ASSUME BridgeInv, PinlessFull, NEW p \in Processes, inserted # NoCard,
         applet' = [applet EXCEPT ![inserted] = AfterVerify(p, @)], UNCHANGED pairs
  PROVE  Shared!Next /\ PinlessFull'
  <1> DEFINE u == Use(p, card)
             b == Burn(u)
             a == AfterVerify(p, card)
             x == View(card)
  <1>1. inserted \in Cards /\ card \in Applet /\ applet \in [Cards -> Applet] /\ pairs \in Nat
        /\ card = applet[inserted]
    BY CardType, BridgeAssumption DEF BridgeInv, BridgeTypeOK, card
  <1>2. applet' = [applet EXCEPT ![inserted] = a] /\ pairs' \in Nat /\ pairs' >= pairs
    BY <1>1
  <1>3. /\ u \in Applet /\ b \in Applet /\ View(u) = x /\ View(b) = Shared!Burn(x) /\ x \in CardView
        /\ u.pin = card.pin /\ b.pin = card.pin /\ u.tries = card.tries /\ b.tries = card.tries
        /\ b.verified = FALSE /\ b.nonce = 0
    <2>1. u \in Applet /\ b \in Applet /\ u.tries = card.tries /\ b.tries = card.tries
      BY <1>1, UsedType
    <2>2. x \in CardView
      BY <1>1, ViewType
    <2> HIDE DEF x
    <2>3. View(card) = x
      BY DEF x
    <2> QED BY <1>1, <2>1, <2>2, <2>3, ViewOf
  <1>0. a = IF ~Selected(card) THEN card
            ELSE IF PinMatches(p, card) THEN [u EXCEPT !.verified = TRUE, !.tries = CardTries]
            ELSE [b EXCEPT !.tries = @ - Spends(p, card)]
    <2>1. PinMatches(p, card) => Selected(card)
      BY DEF PinMatches
    <2> QED BY <2>1, Zenon DEF AfterVerify
  <1> HIDE DEF u, b, a
  <1>4. CASE ~Selected(card)
    <2>1. a = card
      BY <1>0, <1>4
    <2>2. PinlessFull'
      BY <1>1, <1>2, <2>1 DEF PinlessFull
    <2> QED BY <1>1, <1>2, <2>1, <2>2, SharedSteps
  <1>5. CASE Selected(card) /\ PinMatches(p, card)
    <2>1. a = [u EXCEPT !.verified = TRUE, !.tries = CardTries]
      BY <1>0, <1>5
    <2>2. a \in Applet
      <3>1. CardTries \in 0..CardTries
        BY BridgeAssumption
      <3> QED BY <1>3, <2>1, <3>1 DEF Applet
    <2>3. /\ a.key = u.key /\ a.pin = u.pin /\ a.required = u.required
          /\ a.tries = CardTries /\ a.verified = TRUE /\ a.nonce = u.nonce
      BY <1>3, <2>1 DEF Applet
    <2>4. View(a) = [x EXCEPT !.tries = CardTries, !.verified = TRUE]
      <3> DEFINE y == [x EXCEPT !.tries = CardTries, !.verified = TRUE]
      <3>1. /\ View(u) = x /\ x \in CardView /\ CardTries \in Int
            /\ View(a) \in CardView /\ View(a).key = x.key /\ View(a).pin = x.pin
            /\ View(a).required = x.required /\ View(a).tries = CardTries
            /\ View(a).verified = TRUE /\ View(a).nonce = x.nonce
        BY <1>3, <2>2, <2>3, ViewType, BridgeAssumption
      <3> HIDE DEF x
      <3>2. /\ y \in CardView /\ y.key = x.key /\ y.pin = x.pin /\ y.required = x.required
            /\ y.tries = CardTries /\ y.verified = TRUE /\ y.nonce = x.nonce
        BY <3>1 DEF CardView
      <3> HIDE DEF y
      <3>3. View(a) = y
        BY <3>1, <3>2, SameView
      <3> QED BY <3>3 DEF y
    <2>5. card.pin /\ card.tries > 0
      BY <1>5 DEF PinMatches
    <2>6. PinlessFull'
      BY <1>1, <1>2, <2>3 DEF PinlessFull
    <2> HIDE DEF a, x
    <2> QED BY <1>2, <2>2, <2>4, <2>5, <2>6, SharedSteps DEF x
  <1>6. CASE Selected(card) /\ ~PinMatches(p, card)
    <2>1. a = [b EXCEPT !.tries = @ - Spends(p, card)]
      BY <1>0, <1>6
    <2>2. CASE card.pin /\ card.tries > 0
      <3>1. Spends(p, card) = 1
        BY <1>6, <2>2 DEF Spends
      <3>2. a = [b EXCEPT !.tries = card.tries - 1]
        BY <1>3, <2>1, <3>1
      <3>3. card.tries - 1 \in 0..CardTries
        BY <1>1, <2>2, BridgeAssumption DEF Applet
      <3>4. a \in Applet
        BY <1>3, <3>2, <3>3 DEF Applet
      <3>5. /\ a.key = b.key /\ a.pin = b.pin /\ a.required = b.required
            /\ a.tries = card.tries - 1 /\ a.verified = FALSE /\ a.nonce = 0
        BY <1>3, <3>2 DEF Applet
      <3> DEFINE y == [x EXCEPT !.tries = card.tries - 1]
                 z == Shared!Burn(y)
      <3>6. /\ x \in CardView /\ card.tries - 1 \in Int
            /\ x.key = a.key /\ x.pin = a.pin /\ x.required = a.required
        BY <1>1, <1>3, <3>3, <3>5, ViewType DEF Use, Burn, Applet, u, b
      <3> HIDE DEF x
      <3>7. /\ y \in CardView /\ y.key = x.key /\ y.pin = x.pin /\ y.required = x.required
            /\ y.tries = card.tries - 1
        BY <3>6 DEF CardView
      <3> HIDE DEF y
      <3>10. /\ z \in CardView /\ z.key = y.key /\ z.pin = y.pin /\ z.required = y.required
             /\ z.tries = y.tries /\ z.verified = FALSE /\ z.nonce = 0
        BY <3>7, BurnedView
      <3> HIDE DEF z
      <3>8. View(a) = z
        BY <3>4, <3>5, <3>6, <3>7, <3>10, ViewIs
      <3>9. PinlessFull'
        BY <1>1, <1>2, <1>3, <2>2, <3>5 DEF PinlessFull
      <3> HIDE DEF a, x
      <3> QED BY <1>2, <2>2, <3>4, <3>8, <3>9, SharedSteps DEF x, y, z
    <2>3. CASE ~(card.pin /\ card.tries > 0)
      <3>1. Spends(p, card) = 0
        BY <2>3 DEF Spends
      <3>2. b.tries \in Int
        BY <1>3, BridgeAssumption DEF Applet
      <3>3. a = b
        BY <1>3, <2>1, <3>1, <3>2 DEF Applet
      <3>4. PinlessFull'
        BY <1>1, <1>2, <1>3, <3>3 DEF PinlessFull
      <3> HIDE DEF a, x
      <3> QED BY <1>2, <1>3, <3>3, <3>4, SharedSteps DEF x
    <2> QED BY <2>2, <2>3
  <1> QED BY <1>4, <1>5, <1>6

\* Any other command makes a key, draws a pair, spends it, sets the PIN, changes
\* nothing, or is an error.
LEMMA SharedExecute ==
  ASSUME BridgeInv, PinlessFull, NEW p \in Processes, inserted # NoCard, Execute(p)
  PROVE  Shared!Next /\ PinlessFull'
  <1> DEFINE u == Use(p, card)
             b == Burn(u)
             n == pairs + 1
             a == AfterCmd(p, card)
             x == View(card)
  <1>1. inserted \in Cards /\ card \in Applet /\ applet \in [Cards -> Applet] /\ pairs \in 0..MaxNonces
        /\ card = applet[inserted] /\ MaxNonces \in Nat
    BY CardType, BridgeAssumption DEF BridgeInv, BridgeTypeOK, card
  <1>2. applet' = [applet EXCEPT ![inserted] = a]
    BY <1>1 DEF Execute
  <1>3. /\ u \in Applet /\ b \in Applet /\ View(u) = x /\ View(b) = Shared!Burn(x) /\ x \in CardView
        /\ u.pin = card.pin /\ b.pin = card.pin /\ u.tries = card.tries /\ b.tries = card.tries
        /\ b.verified = FALSE /\ b.nonce = 0
    <2>1. u \in Applet /\ b \in Applet /\ u.tries = card.tries /\ b.tries = card.tries
      BY <1>1, UsedType
    <2>2. x \in CardView
      BY <1>1, ViewType
    <2> HIDE DEF x
    <2>3. View(card) = x
      BY DEF x
    <2> QED BY <1>1, <2>1, <2>2, <2>3, ViewOf
  <1>4. a = IF ~Selected(card) THEN card ELSE IF ~Accepts(p, card) THEN b ELSE
         CASE Cmd(p) = "keygen"   -> [u EXCEPT !.key = TRUE, !.nonce = 0]
         [] Cmd(p) = "nonces"   -> [u EXCEPT !.nonce = n]
         [] Cmd(p) = "finalize" -> [u EXCEPT !.nonce = 0]
         [] Cmd(p) = "setpin"   -> [b EXCEPT !.pin = TRUE]
         [] OTHER               -> u
    BY DEF AfterCmd
  <1>5. /\ pairs' = IF Draws(p) THEN n ELSE pairs
        /\ Draws(p) => pairs < MaxNonces
        /\ Draws(p) <=> Accepts(p, card) /\ Cmd(p) = "nonces"
    BY DEF Execute, Draws
  <1>6. pairs' \in Nat /\ pairs' >= pairs /\ n \in Nat /\ n > pairs /\ (Draws(p) => n \in 0..MaxNonces)
    BY <1>1, <1>5
  <1> HIDE DEF u, b, n, a, x
  <1>7. /\ [u EXCEPT !.key = TRUE, !.nonce = 0] \in Applet /\ [u EXCEPT !.nonce = 0] \in Applet
        /\ n \in 0..MaxNonces => [u EXCEPT !.nonce = n] \in Applet
        /\ [b EXCEPT !.pin = TRUE] \in Applet
    BY <1>1, <1>3 DEF Applet
  <1>8. /\ View([u EXCEPT !.key = TRUE, !.nonce = 0]) = [x EXCEPT !.key = TRUE, !.nonce = 0]
        /\ View([u EXCEPT !.nonce = 0]) = [x EXCEPT !.nonce = 0]
        /\ n \in 0..MaxNonces => View([u EXCEPT !.nonce = n]) = [x EXCEPT !.nonce = n]
    <2>0. /\ x.key = u.key /\ x.pin = u.pin /\ x.required = u.required /\ x.tries = u.tries
          /\ x.verified = u.verified /\ x.nonce = u.nonce
      BY <1>3, ViewType
    <2>1. \A m \in Nat : /\ [x EXCEPT !.nonce = m] \in CardView
                         /\ [x EXCEPT !.key = TRUE, !.nonce = m] \in CardView
      BY <1>3 DEF CardView
    <2>2. \A m \in 0..MaxNonces : [u EXCEPT !.nonce = m] \in Applet
      BY <1>3 DEF Applet
    <2>3. ASSUME NEW m \in 0..MaxNonces PROVE View([u EXCEPT !.nonce = m]) = [x EXCEPT !.nonce = m]
      <3> DEFINE v == [u EXCEPT !.nonce = m]
                 y == [x EXCEPT !.nonce = m]
      <3>1. /\ v \in Applet /\ v.key = u.key /\ v.pin = u.pin /\ v.required = u.required /\ v.tries = u.tries
            /\ v.verified = u.verified /\ v.nonce = m
        BY <1>3, <2>2 DEF Applet
      <3>2. /\ y \in CardView /\ y.key = x.key /\ y.pin = x.pin /\ y.required = x.required /\ y.tries = x.tries
            /\ y.verified = x.verified /\ y.nonce = m
        <4>1. m \in Nat
          BY <1>1
        <4> QED BY <1>3, <2>1, <4>1 DEF CardView
      <3> HIDE DEF v, y
      <3>3. View(v) = y
        BY <2>0, <3>1, <3>2, ViewIs
      <3> QED BY <3>3 DEF v, y
    <2>4. View([u EXCEPT !.key = TRUE, !.nonce = 0]) = [x EXCEPT !.key = TRUE, !.nonce = 0]
      <3> DEFINE v == [u EXCEPT !.key = TRUE, !.nonce = 0]
                 y == [x EXCEPT !.key = TRUE, !.nonce = 0]
      <3>1. /\ v \in Applet /\ v.key = TRUE /\ v.pin = u.pin /\ v.required = u.required /\ v.tries = u.tries
            /\ v.verified = u.verified /\ v.nonce = 0
        BY <1>3, <1>7 DEF Applet
      <3>2. /\ y \in CardView /\ y.key = TRUE /\ y.pin = x.pin /\ y.required = x.required /\ y.tries = x.tries
            /\ y.verified = x.verified /\ y.nonce = 0
        BY <1>1, <1>3, <2>1 DEF CardView
      <3> HIDE DEF v, y
      <3>3. View(v) = y
        BY <2>0, <3>1, <3>2, ViewIs
      <3> QED BY <3>3 DEF v, y
    <2>5. 0 \in 0..MaxNonces
      BY <1>1
    <2> QED BY <2>3, <2>4, <2>5
  <1>9. View([b EXCEPT !.pin = TRUE]) = Shared!Burn([x EXCEPT !.pin = TRUE])
    <2> DEFINE v == [b EXCEPT !.pin = TRUE]
               y == [x EXCEPT !.pin = TRUE]
    <2>1. /\ v \in Applet /\ v.key = b.key /\ v.pin = TRUE /\ v.required = b.required /\ v.tries = b.tries
          /\ v.verified = FALSE /\ v.nonce = 0
      BY <1>3, <1>7 DEF Applet
    <2>2. /\ y \in CardView /\ y.key = x.key /\ y.pin = TRUE /\ y.required = x.required /\ y.tries = x.tries
      BY <1>3 DEF CardView
    <2> HIDE DEF v, y
    <2> DEFINE z == Shared!Burn(y)
    <2>3. /\ x.key = b.key /\ x.required = b.required /\ x.tries = b.tries
      <3>1. View(b).key = b.key /\ View(b).required = b.required /\ View(b).tries = b.tries
        BY <1>3, ViewType
      <3>2. Shared!Burn(x).key = x.key /\ Shared!Burn(x).required = x.required /\ Shared!Burn(x).tries = x.tries
        BY <1>3, BurnedView
      <3> HIDE DEF z
      <3> QED BY <1>3, <3>1, <3>2
    <2>4. /\ z \in CardView /\ z.key = y.key /\ z.pin = y.pin /\ z.required = y.required
          /\ z.tries = y.tries /\ z.verified = FALSE /\ z.nonce = 0
      BY <2>2, BurnedView
    <2> HIDE DEF z
    <2>5. /\ v.key = z.key /\ v.pin = z.pin /\ v.required = z.required /\ v.tries = z.tries
          /\ v.verified = z.verified /\ v.nonce = z.nonce
      BY <2>1, <2>2, <2>3, <2>4
    <2>6. View(v) = z
      BY <2>1, <2>4, <2>5, ViewIs
    <2> QED BY <2>6 DEF v, y, z
  <1>10. (a \in Applet /\ a.tries = card.tries /\ (card.pin => a.pin)) => PinlessFull'
    BY <1>1, <1>2 DEF PinlessFull
  <1>11. (a \in {card, u, b}) => Shared!Next /\ PinlessFull'
    <2> SUFFICES ASSUME a \in {card, u, b} PROVE Shared!Next /\ PinlessFull'
      OBVIOUS
    <2>1. a \in Applet /\ View(a) \in {x, Shared!Burn(x)} /\ PinlessFull'
      BY <1>1, <1>3, <1>10 DEF x
    <2> QED BY <1>2, <1>6, <2>1, SharedSteps DEF x
  <1>12. CASE ~Selected(card)
    BY <1>4, <1>11, <1>12
  <1>13. CASE Selected(card) /\ ~Accepts(p, card)
    BY <1>4, <1>11, <1>13
  <1>14. CASE Selected(card) /\ Accepts(p, card)
    <2>1. CASE Cmd(p) = "keygen"
      <3>1. a = [u EXCEPT !.key = TRUE, !.nonce = 0] /\ Authorised(card) /\ ~card.key /\ pairs' = pairs
        BY <1>4, <1>5, <1>14, <2>1 DEF Accepts
      <3>2. a \in Applet /\ View(a) = [x EXCEPT !.key = TRUE, !.nonce = 0]
        BY <1>7, <1>8, <3>1
      <3>3. PinlessFull'
        BY <1>3, <1>10, <3>1, <3>2 DEF Applet
      <3> QED BY <1>2, <1>6, <3>1, <3>2, <3>3, SharedSteps DEF x
    <2>2. CASE Cmd(p) = "nonces"
      <3>1. a = [u EXCEPT !.nonce = n] /\ Authorised(card) /\ card.key /\ pairs' = n /\ Draws(p)
        BY <1>4, <1>5, <1>14, <2>2 DEF Accepts
      <3>2. a \in Applet /\ View(a) = [x EXCEPT !.nonce = pairs']
        BY <1>6, <1>7, <1>8, <3>1
      <3>3. PinlessFull'
        BY <1>3, <1>10, <3>1, <3>2 DEF Applet
      <3> QED BY <1>2, <1>6, <3>1, <3>2, <3>3, SharedSteps DEF x
    <2>3. CASE Cmd(p) = "finalize"
      <3>1. a = [u EXCEPT !.nonce = 0] /\ Authorised(card) /\ card.nonce # 0 /\ pairs' = pairs
        BY <1>4, <1>5, <1>14, <2>3 DEF Accepts
      <3>2. a \in Applet /\ View(a) = [x EXCEPT !.nonce = 0]
        BY <1>7, <1>8, <3>1
      <3>3. PinlessFull'
        BY <1>3, <1>10, <3>1, <3>2 DEF Applet
      <3> QED BY <1>2, <1>6, <3>1, <3>2, <3>3, SharedSteps DEF x
    <2>4. CASE Cmd(p) = "setpin"
      <3>1. a = [b EXCEPT !.pin = TRUE] /\ ~card.pin /\ ~card.key /\ pairs' = pairs
        BY <1>4, <1>5, <1>14, <2>4 DEF Accepts
      <3>2. a \in Applet /\ View(a) = Shared!Burn([x EXCEPT !.pin = TRUE])
        BY <1>7, <1>9, <3>1
      <3>3. PinlessFull'
        BY <1>3, <1>10, <3>1, <3>2 DEF Applet
      <3> QED BY <1>2, <1>6, <3>1, <3>2, <3>3, SharedSteps DEF x
    <2>5. CASE Cmd(p) \notin {"keygen", "nonces", "finalize", "setpin"}
      BY <1>4, <1>11, <1>14, <2>5
    <2> QED BY <2>1, <2>2, <2>3, <2>4, <2>5
  <1> QED BY <1>12, <1>13, <1>14

\* The variables of the contract keep their types.
LEMMA SharedTypes ==
  BridgeInv => applet \in [Cards -> Applet] /\ pairs \in Nat
  BY BridgeAssumption DEF BridgeInv, BridgeTypeOK

\* An applet that is selected anew, or not any more.
Unselected(a, users) == [a EXCEPT !.verified = FALSE, !.nonce = 0, !.users = users]

LEMMA ViewUnselected ==
  ASSUME NEW a \in Applet, NEW users \in SUBSET Processes
  PROVE  LET b == Unselected(a, users)
         IN  /\ View(b) = Shared!Burn(View(a)) /\ b.pin = a.pin /\ b.tries = a.tries
  <1> DEFINE b == Unselected(a, users)
             x == View(a)
             y == Shared!Burn(x)
  <1>1. 0 \in 0..MaxNonces
    BY BridgeAssumption
  <1>2. /\ b \in Applet /\ b.key = a.key /\ b.pin = a.pin /\ b.required = a.required
        /\ b.tries = a.tries /\ b.verified = FALSE /\ b.nonce = 0
    BY <1>1 DEF Unselected, Applet
  <1>3. /\ x \in CardView /\ x.key = a.key /\ x.pin = a.pin /\ x.required = a.required
        /\ x.tries = a.tries
    BY ViewType
  <1> HIDE DEF b, x
  <1>4. /\ y \in CardView /\ y.key = x.key /\ y.pin = x.pin /\ y.required = x.required
        /\ y.tries = x.tries /\ y.verified = FALSE /\ y.nonce = 0
    BY <1>3, BurnedView
  <1> HIDE DEF y
  <1>5. View(b) = y
    BY <1>2, <1>3, <1>4, ViewIs
  <1> QED BY <1>2, <1>5 DEF b, x, y

\* A SELECT by anyone, and a card that loses its power, end the session.
LEMMA SharedLost ==
  ASSUME BridgeInv, PinlessFull, UNCHANGED pairs, NEW S \in SUBSET Cards, NEW users \in SUBSET Processes,
         applet' = [c \in Cards |-> IF c \in S THEN Unselected(applet[c], users) ELSE applet[c]]
  PROVE  Shared!Next /\ PinlessFull'
  <1>1. pairs \in Nat /\ applet \in [Cards -> Applet]
    BY SharedTypes
  <1>2. ASSUME NEW c \in S
        PROVE  /\ View(applet'[c]) = Shared!Burn(View(applet[c]))
               /\ applet'[c].pin = applet[c].pin /\ applet'[c].tries = applet[c].tries
    <2>1. applet[c] \in Applet /\ applet'[c] = Unselected(applet[c], users)
      BY <1>1, <1>2
    <2> QED BY <2>1, ViewUnselected
  <1>3. \A c \in Cards \ S : applet'[c] = applet[c]
    OBVIOUS
  <1>4. Views' = [c \in Cards |-> IF c \in S THEN Shared!Burn(Views[c]) ELSE Views[c]]
    BY <1>2, <1>3 DEF Views
  <1>5. pairs' \in Nat /\ pairs' >= pairs
    BY <1>1
  <1>6. Shared!Lose
    BY <1>4, <1>5 DEF Shared!Lose
  <1>7. PinlessFull'
    BY <1>2, <1>3 DEF PinlessFull
  <1> QED BY <1>6, <1>7 DEF Shared!Next

LEMMA SharedSelected ==
  ASSUME BridgeInv, PinlessFull, inserted # NoCard, NEW users \in SUBSET Processes, SelectedBy(users), UNCHANGED pairs
  PROVE  Shared!Next /\ PinlessFull'
  <1>1. inserted \in Cards /\ applet \in [Cards -> Applet]
    BY CardType DEF BridgeInv, BridgeTypeOK
  <1>2. {inserted} \in SUBSET Cards
    BY <1>1
  <1>3. applet' = [c \in Cards |-> IF c \in {inserted} THEN Unselected(applet[c], users) ELSE applet[c]]
    <2>1. applet' = [applet EXCEPT ![inserted] = Unselected(applet[inserted], users)]
      BY <1>1 DEF SelectedBy, Unselected, Applet
    <2> QED BY <1>1, <2>1
  <1> QED BY <1>2, <1>3, SharedLost

\* Nothing is lost where nothing happens.
LEMMA SharedKept ==
  ASSUME PinlessFull, UNCHANGED <<applet, pairs>>
  PROVE  UNCHANGED Shared!vars /\ PinlessFull'
  BY DEF Shared!vars, Views, View, PinlessFull

\* Every action of a process is a step of the cards, or none.
LEMMA SharedMoves ==
  ASSUME BridgeInv, PinlessFull, [BridgeNext]_bridgeVars
  PROVE  [Shared!Next]_(Shared!vars) /\ PinlessFull'
  <1>1. CASE UNCHANGED <<applet, pairs>>
    BY <1>1, SharedKept
  <1>2. CASE Drop
    <2>1. applet' = [c \in Cards |-> IF c \in Cards THEN Unselected(applet[c], {}) ELSE applet[c]]
          /\ UNCHANGED pairs /\ Cards \in SUBSET Cards
      BY <1>2 DEF Drop, Unselected
    <2> QED BY <2>1, SharedLost
  <1>3. ASSUME NEW p \in Processes, Process(p)
        PROVE  [Shared!Next]_(Shared!vars) /\ PinlessFull'
    <2>1. Alive(p) => inserted # NoCard
      BY DEF Alive
    <2>2. CASE Fido(p)
      BY <1>1, <2>2, SharedSelected DEF Fido
    <2>3. CASE Connect(p)
      BY <2>3, SharedSelected DEF Connect
    <2>4. CASE ConnectFails(p)
      BY <1>1, <2>4, SharedSelected DEF ConnectFails
    <2>5. CASE VerifyOk(p) \/ VerifyWrong(p)
      BY <2>1, <2>5, SharedVerify DEF VerifyOk, VerifyWrong
    <2>6. CASE Transmit(p) \/ Refused(p)
      BY <2>1, <2>6, SharedExecute DEF Transmit, Refused
    <2>7. CASE Lost(p)
      <3>1. PICK acted \in BOOLEAN :
              /\ acted => Alive(p)
              /\ CASE ~acted -> UNCHANGED <<applet, pairs>>
                   [] acted /\ Verifies(p) ->
                        applet' = [applet EXCEPT ![inserted] = AfterVerify(p, @)] /\ UNCHANGED pairs
                   [] OTHER -> Execute(p)
        BY <2>7 DEF Lost
      <3>2. CASE ~acted
        BY <1>1, <3>1, <3>2
      <3>3. CASE acted /\ Verifies(p)
        BY <2>1, <3>1, <3>3, SharedVerify
      <3>4. CASE acted /\ ~Verifies(p)
        BY <2>1, <3>1, <3>4, SharedExecute
      <3> QED BY <3>2, <3>3, <3>4
    <2>8. StartProcess(p) \/ Request(p) \/ Stop(p) \/ PinRefused(p) \/ Combine(p) => UNCHANGED <<applet, pairs>>
      BY DEF StartProcess, Request, Stop, PinRefused, Combine, world
    <2> QED BY <1>1, <1>3, <2>2, <2>3, <2>4, <2>5, <2>6, <2>7, <2>8 DEF Process
  <1> QED BY <1>1, <1>2, <1>3 DEF BridgeNext, bridgeVars

\* The cards start as the contract says.
LEMMA SharedStarts ==
  BridgeInit => Shared!Init /\ PinlessFull
  <1> SUFFICES ASSUME BridgeInit PROVE Shared!Init /\ PinlessFull
    OBVIOUS
  <1>1. \A c \in Cards : \E k, n, r \in BOOLEAN : applet[c] = FreshApplet(k, n, r) /\ (k /\ r => n)
    BY DEF BridgeInit
  <1>2. ASSUME NEW c \in Cards
        PROVE  /\ View(applet[c]) \in Shared!Fresh /\ applet[c].tries = CardTries
               /\ View(applet[c]).key /\ View(applet[c]).required => View(applet[c]).pin
    <2>1. PICK k, n, r \in BOOLEAN : applet[c] = FreshApplet(k, n, r) /\ (k /\ r => n)
      BY <1>1
    <2>2. View(applet[c]) = [key |-> k, pin |-> n, required |-> r, tries |-> CardTries, verified |-> FALSE,
                             nonce |-> 0]
      BY <2>1 DEF View, FreshApplet
    <2>3. View(applet[c]) \in Shared!Fresh
      BY <2>2 DEF Shared!Fresh
    <2>4. View(applet[c]).key = k /\ View(applet[c]).required = r /\ View(applet[c]).pin = n
      BY <2>2
    <2>5. applet[c].tries = CardTries
      BY <2>1 DEF FreshApplet
    <2> QED BY <2>1, <2>3, <2>4, <2>5
  <1>3. Views \in [Cards -> Shared!Fresh] /\ \A c \in Cards : Views[c].key /\ Views[c].required => Views[c].pin
    BY <1>2 DEF Views
  <1>4. PinlessFull
    BY <1>2 DEF PinlessFull
  <1>5. pairs = 0
    BY DEF BridgeInit
  <1> QED BY <1>3, <1>4, <1>5 DEF Shared!Init

\* However the processes interleave, retry and lose answers, and whatever cards they
\* share, each card keeps the contract that the applet keeps with one user.
THEOREM SharedContract ==
  BridgeSpec => ImplementsCards
  <1>1. BridgeInit => Shared!Init /\ PinlessFull
    BY SharedStarts
  <1>2. BridgeInv /\ PinlessFull /\ [BridgeNext]_bridgeVars => [Shared!Next]_(Shared!vars) /\ PinlessFull'
    BY SharedMoves
  <1>3. BridgeSpec => []BridgeInv
    BY BridgeInvariance
  <1> QED BY <1>1, <1>2, <1>3, PTL DEF BridgeSpec, ImplementsCards, Shared!Spec
=============================================================================
