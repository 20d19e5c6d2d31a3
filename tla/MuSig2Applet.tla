---------------------------- MODULE MuSig2Applet ----------------------------
(***************************************************************************)
(* The MuSig2 Java Card applet, card/musig2/NuriMuSig2v019.java: owner PIN, *)
(* one-shot key generation, and the two-command signing session            *)
(* GET_NONCES / FINALIZE, under every interleaving of commands, selections, *)
(* failing engines and power loss.                                         *)
(*                                                                         *)
(* One action is one APDU handler run to its end, or to the point where    *)
(* power is lost in it.  The card executes one APDU at a time, so between  *)
(* commands nothing else runs; what can differ is how a command ends:      *)
(* normally, by an exception (caught by process, which burns the session), *)
(* or by a tear (which clears the reset-transient arrays).                 *)
(*                                                                         *)
(* Scalars drawn from the card's random generator are named 1, 2, 3 ... in *)
(* drawing order; 0 is the all-zero array.  A nonce pair is one draw.      *)
(***************************************************************************)
EXTENDS Naturals

CONSTANTS
  PinTries,     \* the OwnerPIN try limit (5 in the code)
  CounterMod,   \* the session counter counts modulo this (2^32 in the code)
  MaxDraws      \* bound of the model: random draws in one behaviour

ASSUME PinTriesAssumption == PinTries \in Nat \ {0}
ASSUME CounterAssumption == CounterMod \in Nat \ {0}
ASSUME DrawsAssumption == MaxDraws \in Nat

VARIABLES
  \* Persistent memory.
  pinRequired, pinSet, tries,
  keyGenerated, masterKey, masterPublicKey, binding,
  \* The runtime environment: "off", "idle" (another applet is selected, or
  \* none) or "selected".
  mode,
  \* Reset-transient memory.
  validated, sessionCounter, session,
  \* History, read by no guard.
  drawn,      \* scalars drawn so far
  partials,   \* one record for every partial signature sent
  trust,      \* no reset, selection change or error since GET_NONCES / VERIFY
  wrong       \* PIN guesses compared and found wrong since the last right one

persistent == <<pinRequired, pinSet, tries, keyGenerated, masterKey,
                masterPublicKey, binding>>
vars == <<pinRequired, pinSet, tries, keyGenerated, masterKey, masterPublicKey,
          binding, mode, validated, sessionCounter, session, drawn, partials,
          trust, wrong>>

Tokens == 0 .. CounterMod - 1

Sessions == [nonce: 0 .. MaxDraws, token: Tokens, ready: BOOLEAN,
             finalized: BOOLEAN]

NoSession == [nonce |-> 0, token |-> 0, ready |-> FALSE, finalized |-> FALSE]
NoTrust == [pair |-> FALSE, auth |-> FALSE]

Partials == [pair: 0 .. MaxDraws, key: 0 .. MaxDraws, asked: Tokens,
             token: Tokens, again: BOOLEAN, clean: BOOLEAN, owner: BOOLEAN,
             sound: BOOLEAN]

\* Installation chooses the policy: mandatory PIN not yet set, mandatory PIN
\* set by the installer, or the explicit public demo.
Init ==
  /\ \/ pinRequired = TRUE /\ pinSet \in BOOLEAN
     \/ pinRequired = FALSE /\ pinSet = FALSE
  /\ tries = PinTries
  /\ keyGenerated = FALSE
  /\ masterKey = 0 /\ masterPublicKey = 0 /\ binding = 0
  /\ mode = "idle"
  /\ validated = FALSE /\ sessionCounter = 0 /\ session = NoSession
  /\ drawn = 0 /\ partials = {} /\ trust = NoTrust /\ wrong = 0

-----------------------------------------------------------------------------
(* How a command ends.                                                     *)

\* Mutant: an error burns the nonces and leaves the owner logged in.
Fail_KeepsLogin ==
  /\ session' = NoSession
  /\ trust' = NoTrust
  /\ UNCHANGED validated

\* The catch block of process: no error leaves a usable session or PIN state.
Fail ==
  /\ session' = NoSession
  /\ validated' = FALSE
  /\ trust' = NoTrust

\* Mutant: the session flags are persistent (the state before audit finding A1).
PowerLoss_KeepsFlags ==
  /\ mode' = "off"
  /\ sessionCounter' = 0
  /\ session' = [session EXCEPT !.nonce = 0, !.token = 0]
  /\ validated' = FALSE
  /\ trust' = NoTrust

\* CLEAR_ON_RESET memory loses its contents; the OwnerPIN flag is transient.
PowerLoss ==
  /\ mode' = "off"
  /\ sessionCounter' = 0
  /\ session' = NoSession
  /\ validated' = FALSE
  /\ trust' = NoTrust

\* The command dies before it could commit: by an exception or by a tear.
Interrupted ==
  \/ Fail /\ UNCHANGED <<mode, sessionCounter>>
  \/ PowerLoss

\* requirePin
PinSatisfied == pinRequired \/ pinSet => pinSet /\ validated

-----------------------------------------------------------------------------
(* The runtime environment.                                                *)

PowerOff ==
  /\ mode # "off"
  /\ PowerLoss
  /\ UNCHANGED <<persistent, drawn, partials, wrong>>

PowerOn ==
  /\ mode = "off"
  /\ mode' = "idle"
  /\ UNCHANGED <<persistent, validated, sessionCounter, session, drawn,
                 partials, trust, wrong>>

\* SELECT of this applet.  If it was selected already deselect runs first, and
\* either way the counter is seeded at random; a failing generator leaves the
\* applet unselected.
Select ==
  /\ mode # "off"
  /\ Fail
  /\ \/ mode' = "selected" /\ sessionCounter' \in Tokens
     \/ mode' = "idle" /\ sessionCounter' = 0
  /\ UNCHANGED <<persistent, drawn, partials, wrong>>

\* SELECT of another applet.
Deselect ==
  /\ mode = "selected"
  /\ mode' = "idle"
  /\ Fail
  /\ sessionCounter' = 0
  /\ UNCHANGED <<persistent, drawn, partials, wrong>>

-----------------------------------------------------------------------------
(* PIN commands.                                                           *)

\* VERIFY.  OwnerPIN.check spends a try before it compares, even if power fails
\* in between, and only a match restores the counter.  A wrong PIN is an error
\* like any other.
Verify ==
  /\ mode = "selected" /\ pinSet /\ tries > 0
  /\ \/ /\ tries' = PinTries
        /\ wrong' = 0
        /\ \/ /\ validated' = TRUE
              /\ trust' = [trust EXCEPT !.auth = TRUE]
              /\ UNCHANGED <<mode, session, sessionCounter>>
           \/ Interrupted
     \/ /\ tries' = tries - 1
        /\ \/ wrong' = wrong + 1 /\ Interrupted
           \/ wrong' = wrong /\ PowerLoss
  /\ UNCHANGED <<pinRequired, pinSet, keyGenerated, masterKey, masterPublicKey,
                 binding, drawn, partials>>

\* SET_PIN, once and only before there is a key.  One transaction covers the
\* PIN and its flag; setting the PIN does not log the owner in.
SetPin ==
  /\ mode = "selected" /\ ~pinSet /\ ~keyGenerated
  /\ pinSet' = TRUE
  /\ tries' = PinTries
  /\ wrong' = 0
  /\ Interrupted
  /\ UNCHANGED <<pinRequired, keyGenerated, masterKey, masterPublicKey, binding,
                 drawn, partials>>

-----------------------------------------------------------------------------
(* KEYGEN.                                                                 *)

\* KEYGEN needs the owner and a card without a key.
KeygenAllowed ==
  /\ mode = "selected" /\ PinSatisfied /\ ~keyGenerated
  /\ drawn < MaxDraws

\* The transaction publishes cache, binding and flag together; the reply may
\* still be lost.
Keygen ==
  /\ KeygenAllowed
  /\ drawn' = drawn + 1
  /\ masterKey' = drawn'
  /\ masterPublicKey' = drawn'
  /\ binding' = drawn'
  /\ keyGenerated' = TRUE
  /\ \/ /\ session' = NoSession
        /\ trust' = [trust EXCEPT !.pair = FALSE]
        /\ UNCHANGED <<mode, validated, sessionCounter>>
     \/ Interrupted
  /\ UNCHANGED <<pinRequired, pinSet, tries, partials, wrong>>

\* KEYGEN dies before the commit.  Everything rolls back, except that a key
\* provider may keep the scalar setS had already written.
KeygenAborted ==
  /\ KeygenAllowed
  /\ drawn' = drawn + 1
  /\ masterKey' \in {masterKey, drawn'}
  /\ Interrupted
  /\ UNCHANGED <<pinRequired, pinSet, tries, keyGenerated, masterPublicKey,
                 binding, partials, wrong>>

-----------------------------------------------------------------------------
(* The signing session.                                                    *)

\* nextSession: a four-byte increment whose carry out is an error.
NextToken == (sessionCounter + 1) % CounterMod

\* Mutant: a pending pair is handed out again.
GetNonces_Reissues ==
  /\ mode = "selected" /\ PinSatisfied /\ keyGenerated
  /\ NextToken # 0
  /\ drawn < MaxDraws
  /\ drawn' = drawn + 1
  /\ sessionCounter' = NextToken
  /\ session' = [nonce |-> IF session.ready THEN session.nonce ELSE drawn',
                 token |-> NextToken, ready |-> TRUE, finalized |-> FALSE]
  /\ trust' = [trust EXCEPT !.pair = TRUE]
  /\ UNCHANGED <<persistent, mode, validated, partials, wrong>>

\* GET_NONCES.  The old pair is burned first; the new one is published only
\* when both points and the token exist.
GetNonces ==
  /\ mode = "selected" /\ PinSatisfied /\ keyGenerated
  /\ NextToken # 0
  /\ drawn < MaxDraws
  /\ drawn' = drawn + 1
  /\ \/ /\ sessionCounter' = NextToken
        /\ \/ /\ session' = [nonce |-> drawn', token |-> NextToken,
                             ready |-> TRUE, finalized |-> FALSE]
              /\ trust' = [trust EXCEPT !.pair = TRUE]
              /\ UNCHANGED <<mode, validated>>
           \/ Fail /\ UNCHANGED mode
     \/ PowerLoss
  /\ UNCHANGED <<persistent, partials, wrong>>

\* The counter wraps to zero before the error is raised.
GetNoncesExhausted ==
  /\ mode = "selected" /\ PinSatisfied /\ keyGenerated
  /\ NextToken = 0
  /\ sessionCounter' = 0
  /\ Fail
  /\ UNCHANGED <<persistent, mode, drawn, partials, wrong>>

\* computePartial runs twice; at most one run is hit by a fault.
Faults == {{}, {1}, {2}}
\* Mutant: the two results are not compared.
ResultsEqual_Skipped(faulty) == TRUE

ResultsEqual(faulty) == faulty = {}

FinalizeAllowed(asked) ==
  /\ mode = "selected" /\ PinSatisfied
  /\ session.ready /\ ~session.finalized
  /\ session.nonce # 0
  /\ asked = session.token /\ session.token = sessionCounter

\* What the card would answer now, seen against the history.
PartialNow(asked, faulty) ==
  [pair |-> session.nonce, key |-> masterKey, asked |-> asked,
   token |-> session.token,
   again |-> \E p \in partials : p.pair = session.nonce,
   clean |-> trust.pair,
   owner |-> pinRequired \/ pinSet => trust.auth,
   sound |-> 1 \notin faulty]

\* Mutant: neither readiness nor the pair is consumed by a successful FINALIZE.
DoFinalize_KeepsPair(asked, faulty) ==
  /\ FinalizeAllowed(asked) /\ ResultsEqual(faulty)
  /\ partials' = partials \cup {PartialNow(asked, faulty)}
  /\ UNCHANGED <<persistent, mode, validated, sessionCounter, session, drawn,
                 trust, wrong>>

\* FINALIZE of a well-formed frame: the pair is erased before the partial is
\* sent, whatever becomes of the reply.
DoFinalize(asked, faulty) ==
  /\ FinalizeAllowed(asked) /\ ResultsEqual(faulty)
  /\ partials' = partials \cup {PartialNow(asked, faulty)}
  /\ \/ /\ session' = NoSession
        /\ trust' = [trust EXCEPT !.pair = FALSE]
        /\ UNCHANGED <<mode, validated, sessionCounter>>
     \/ Interrupted
  /\ UNCHANGED <<persistent, drawn, wrong>>

\* Every refused or failing command that changed nothing of its own: unknown
\* or malformed frames, a missing PIN or key, a spent or foreign token, an
\* invalid point, a double computation that disagrees, attestation errors.
Reject ==
  /\ mode = "selected"
  /\ Fail
  /\ UNCHANGED <<persistent, mode, sessionCounter, drawn, partials, wrong>>

Next ==
  \/ PowerOff \/ PowerOn \/ Select \/ Deselect
  \/ Verify \/ SetPin
  \/ Keygen \/ KeygenAborted
  \/ GetNonces \/ GetNoncesExhausted
  \/ \E asked \in Tokens, faulty \in Faults : DoFinalize(asked, faulty)
  \/ Reject

Spec == Init /\ [][Next]_vars

-----------------------------------------------------------------------------
(* Properties.                                                             *)

TypeOK ==
  /\ pinRequired \in BOOLEAN /\ pinSet \in BOOLEAN
  /\ tries \in 0 .. PinTries
  /\ keyGenerated \in BOOLEAN
  /\ masterKey \in 0 .. MaxDraws
  /\ masterPublicKey \in 0 .. MaxDraws
  /\ binding \in 0 .. MaxDraws
  /\ mode \in {"off", "idle", "selected"}
  /\ validated \in BOOLEAN
  /\ sessionCounter \in Tokens
  /\ session \in Sessions
  /\ drawn \in 0 .. MaxDraws
  /\ partials \subseteq Partials
  /\ trust \in [pair: BOOLEAN, auth: BOOLEAN]
  /\ wrong \in Nat

\* No nonce pair ever produces two partial signatures: two would give the host
\* the signing key (doFinalize erases the pair before it sends).
NonceUsedOnce == \A p \in partials : ~p.again

\* Every partial was made with a drawn, non-zero pair, for the key the card
\* publishes, for the very token issued with that pair, and survives a fault
\* in one of the two computations (the zero check, token check and double
\* computation of doFinalize).
PartialsWellFounded ==
  \A p \in partials :
    /\ p.pair # 0
    /\ p.key # 0 /\ p.key = masterPublicKey
    /\ p.asked = p.token
    /\ p.sound

\* Between the GET_NONCES that issued a pair and the FINALIZE that spent it the
\* card saw no error, no selection change and no reset; where the card has a
\* PIN policy the same holds back to a successful VERIFY (catch block of
\* process, select, deselect, CLEAR_ON_RESET).
NoIncidentBetween == \A p \in partials : p.clean /\ p.owner

\* A pending session lives exactly as long as its nonces and its authorisation:
\* the readiness flag never outlives either (audit finding A1 in the applet's
\* header comment).
SessionLifetime ==
  session.ready =>
    /\ mode = "selected" /\ keyGenerated /\ PinSatisfied
    /\ session.nonce # 0
    /\ session.token = sessionCounter /\ session.token # 0
    /\ \A p \in partials : p.pair # session.nonce

\* Public key, key binding and keyed flag appear together and name the scalar
\* the card signs with, whatever tear or exception struck KEYGEN; a card whose
\* policy is a PIN has one before it has a key.
KeyPublished ==
  /\ keyGenerated => /\ masterKey # 0
                     /\ masterPublicKey = masterKey /\ binding = masterKey
                     /\ pinRequired => pinSet
  /\ ~keyGenerated => masterPublicKey = 0 /\ binding = 0

\* The try limit bounds guessing: every wrong comparison since the last right
\* one has been paid for with a try, across resets, tears and re-selections.
GuessBudget == wrong + tries <= PinTries

\* Once generated, the key, its public copy and its binding never change: KEYGEN
\* is one-shot and no later error or tear touches the three.
KeyIsForever ==
  [][keyGenerated => /\ keyGenerated'
                     /\ UNCHANGED <<masterKey, masterPublicKey, binding>>]_vars

\* A blocked PIN stays blocked, and while it is blocked no new key and no new
\* nonce pair can be obtained from a card that has one.
BlockedForever ==
  [][pinSet /\ tries = 0 =>
       /\ tries' = 0 /\ ~validated'
       /\ keyGenerated' = keyGenerated /\ ~session'.ready]_vars

\* The promise this applet implements.
Signer == INSTANCE OneTimeSigner WITH
  key <- IF keyGenerated THEN masterPublicKey ELSE 0,
  offer <- IF session.ready THEN session.nonce ELSE 0,
  used <- {p.pair : p \in partials},
  last <- drawn

ImplementsSigner == Signer!Spec

\* What its users count on, as the host side assumes it of every card (module
\* CardBridge): this applet is one such card.
Single == INSTANCE SigningCards WITH
  Cards <- {"card"},
  Tries <- PinTries,
  cards <- [c \in {"card"} |->
              [key |-> keyGenerated, pin |-> pinSet, required |-> pinRequired, tries |-> tries,
               verified |-> validated, nonce |-> IF session.ready THEN session.nonce ELSE 0]],
  drawn <- drawn

ImplementsCard == Single!Spec
=============================================================================
