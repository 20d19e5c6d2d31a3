----------------------------- MODULE CardBridge -----------------------------
(***************************************************************************)
(* The host side of the MuSig2 applet: the driver MuSig2Card of            *)
(* scripts/nuri_musig2_card.py, and the processes that use it on cards     *)
(* that are dropped by the reader, exchanged, and shared with other        *)
(* processes:                                                              *)
(*   "bridge"  scripts/send/bridge.py, which reconnects and retries once   *)
(*   "e2e"     scripts/arkade-card-e2e-bridge.py, which never does         *)
(*   "sign"    card-cosign-tweaked.py and card-arkade-claim-signer.py: one *)
(*             signing round                                               *)
(*   "arkade"  real-card-arkade-signer-proof.py: two signing rounds        *)
(*   "proof"   real-card-cosign-proof.py: KEYGEN, nonces for the RNG check *)
(*             and one signing round                                       *)
(*   "setpin"  nuri_musig2_card.py set-pin                                 *)
(*   "status"  musig2-card-status.py and read-musig2-card-key.py           *)
(* A nonce pair and its token are one number: tokens of different pairs    *)
(* differ.  Cards speak the PIN protocol (applet 1.14 or later).           *)
(***************************************************************************)
EXTENDS CosignMath, Sequences, FiniteSets

CONSTANTS
  Processes,   \* processes that use the driver
  Kinds,       \* what they are
  Cards,       \* MuSig2 cards
  NoCard,      \* an empty reader
  CardTries,   \* tries of a card's PIN
  MaxNonces,   \* bound on the nonce pairs drawn
  MaxDrops,    \* bound on the connections the reader drops
  MaxFaults,   \* bound on the failing or lost exchanges
  MaxRequests  \* bound on the requests to one bridge, and one less than to any two

ASSUME BridgeAssumption ==
  /\ Kinds \subseteq {"bridge", "e2e", "sign", "arkade", "proof", "setpin", "status"}
  /\ NoCard \notin Cards /\ CardTries \in Nat \ {0}
  /\ {MaxNonces, MaxDrops, MaxFaults, MaxRequests} \subseteq Nat

VARIABLES
  applet,    \* the MuSig2 applet of each card
  inserted,  \* the card in the reader
  drops,     \* connections dropped so far: the epoch of a live connection
  faults,    \* exchanges that failed or whose answer was lost
  pairs,     \* nonce pairs drawn so far
  process    \* the processes with their driver object

bridgeVars == <<applet, inserted, drops, faults, pairs, process>>

Ops == {"pubkey", "nonces", "finalize", "fido"}
PC == {"off", "idle", "open", "run", "fido", "combine", "ended"}

\* users are the processes that used the applet since it was selected last, the
\* one that selected it included; nobody's while it is not selected.
FreshApplet(keyed, pin, required) ==
  [key |-> keyed, pin |-> pin, required |-> required, tries |-> CardTries, verified |-> FALSE,
   nonce |-> 0, users |-> {}]

\* MuSig2Card: conn is the epoch of the connection plus one, 0 without one; the
\* PIN status is the one read when it connected.
NoDriver == [conn |-> 0, verified |-> FALSE, token |-> 0, pin |-> FALSE, required |-> FALSE, tries |-> 0]

\* given and read: the nonce pair and the card whose key the client got last;
\* spent: tries lost to a wrong PIN since the last request; tokens, twice: the
\* tokens sent in a FINALIZE, and whether one was sent again; mixed: a partial was
\* for other nonces than the client got last or asked for, or not by the card a
\* script read the key of; excused: see InfiniteNonce (all of them history).
Start(kind, rightPin) ==
  [pc |-> "off", kind |-> kind, rightPin |-> rightPin, driver |-> NoDriver, todo |-> <<>>,
   op |-> "none", payload |-> 0, attempt |-> 0, requests |-> 0,
   given |-> 0, read |-> NoCard, spent |-> 0, tokens |-> {}, twice |-> FALSE, mixed |-> FALSE,
   result |-> "none", excused |-> FALSE]

BridgeInit ==
  /\ applet \in [Cards -> {FreshApplet(TRUE, TRUE, TRUE), FreshApplet(FALSE, TRUE, TRUE),
                           FreshApplet(FALSE, FALSE, TRUE), FreshApplet(TRUE, FALSE, FALSE)}]
  /\ inserted \in Cards
  /\ \A c \in Cards \ {inserted} : applet[c] = FreshApplet(TRUE, TRUE, TRUE)
  /\ drops = 0 /\ faults = 0 /\ pairs = 0
  /\ process = [p \in Processes |-> Start("none", TRUE)]

-----------------------------------------------------------------------------
At(p, place) == process[p].pc = place
Becomes(p, q) == process' = [process EXCEPT ![p] = q]
Retries(p) == process[p].kind = "bridge"
Serves(p) == process[p].kind \in {"bridge", "e2e"}
Alive(p) == process[p].driver.conn = drops + 1 /\ inserted # NoCard
card == applet[inserted]
world == <<applet, inserted, drops, faults, pairs>>

\* What a one-shot script does on its card, after it connected.
sign_script == <<"pubkey", "nonces", "finalize">>
arkade_script == <<"pubkey", "nonces", "finalize", "nonces", "finalize">>
proof_script == <<"keygen", "nonces", "nonces", "nonces", "finalize">>
Script(kind) ==
  CASE kind = "sign"   -> sign_script
    [] kind = "arkade" -> arkade_script
    [] kind = "proof"  -> proof_script
    [] kind = "setpin" -> <<"setpin">>
    [] OTHER           -> <<"pubkey">>

\* finally: card.close() and the end of the process; only its history remains.
Ended(q) ==
  [Start(q.kind, TRUE) EXCEPT !.pc = "ended", !.spent = q.spent, !.tokens = q.tokens,
                              !.twice = q.twice, !.mixed = q.mixed]

\* Mutant: the attempts are not counted.
Raised_Endless(q) ==
  IF q.kind = "bridge" /\ q.op \in {"pubkey", "nonces"}
  THEN [q EXCEPT !.pc = "open", !.attempt = @ + 1, !.driver = NoDriver, !.todo = <<>>]
  ELSE Ended(q)

\* An exception: the bridge closes the card and opens it anew, once, for a
\* public key and for nonces; everything else ends the process.
Raised(q) ==
  IF q.kind = "bridge" /\ q.op \in {"pubkey", "nonces"} /\ q.attempt = 0
  THEN [q EXCEPT !.pc = "open", !.attempt = 1, !.driver = NoDriver, !.todo = <<>>]
  ELSE Ended(q)
Fault == faults < MaxFaults /\ faults' = faults + 1

-----------------------------------------------------------------------------
(* Cards and readers.                                                      *)

\* The reader drops an idle connection, or the card is taken out, exchanged or
\* put back: what was selected, verified and drawn is gone.
Drop ==
  /\ drops < MaxDrops
  /\ drops' = drops + 1
  /\ inserted' \in Cards \cup {NoCard}
  /\ applet' = [c \in Cards |-> [applet[c] EXCEPT !.verified = FALSE, !.nonce = 0, !.users = {}]]
  /\ UNCHANGED <<faults, pairs, process>>

\* SELECT ends the session of whoever used the applet before.
SelectedBy(users) ==
  applet' = [applet EXCEPT ![inserted].verified = FALSE, ![inserted].nonce = 0,
                           ![inserted].users = users]

-----------------------------------------------------------------------------
(* Requests.                                                               *)

\* Mutant: the token of the payload is not compared with the driver's.
Allowed_AnyToken(p, op, payload) ==
  CASE op = "fido"     -> Retries(p) /\ process[p].driver.conn = 0
    [] op = "finalize" -> process[p].driver.conn # 0 /\ process[p].driver.token # 0
    [] OTHER           -> TRUE

\* Next request of the client of a bridge; the context of FIDO operations and of
\* FINALIZE is checked before anything is done.
Allowed(p, op, payload) ==
  CASE op = "fido"     -> Retries(p) /\ process[p].driver.conn = 0
    [] op = "finalize" -> process[p].driver.conn # 0 /\ process[p].driver.token # 0
                          /\ payload = process[p].driver.token
    [] op = "nonces"   -> Retries(p) => process[p].driver.token = 0
    [] OTHER           -> TRUE

Request(p) ==
  /\ At(p, "idle") /\ Serves(p)
  /\ process[p].requests < MaxRequests
  /\ \A r \in Processes \ {p} : process[p].requests + process[r].requests <= MaxRequests
  /\ \E op \in Ops, payload \in 0..pairs :
       /\ op # "finalize" => payload = 0
       /\ Becomes(p, IF ~Allowed(p, op, payload) THEN Ended(process[p])
            ELSE [process[p] EXCEPT !.requests = @ + 1, !.spent = 0, !.op = op, !.payload = payload,
                   !.pc = IF op = "fido" THEN "fido" ELSE IF process[p].driver.conn = 0 THEN "open" ELSE "run",
                   !.todo = IF op = "fido" THEN <<>> ELSE <<op>>])
  /\ UNCHANGED world

StartProcess(p) ==
  /\ At(p, "off")
  /\ \E kind \in Kinds, rightPin \in BOOLEAN :
       Becomes(p, [Start(kind, rightPin) EXCEPT
                     !.pc = IF kind = "bridge" THEN "idle" ELSE "open",
                     !.todo = IF kind \in {"bridge", "e2e"} THEN <<>> ELSE Script(kind)])
  /\ UNCHANGED world

\* Standard input ends, or the client kills the process.
Stop(p) ==
  /\ Serves(p) /\ process[p].pc \notin {"off", "ended"}
  /\ Becomes(p, Ended(process[p]))
  /\ UNCHANGED world

\* An assertion selects the FIDO2 applet of the card over a connection of its own.
Fido(p) ==
  /\ At(p, "fido")
  /\ IF inserted = NoCard THEN Becomes(p, Ended(process[p])) /\ UNCHANGED applet
     ELSE /\ SelectedBy({})
          /\ Becomes(p, Ended(process[p])) \/ Becomes(p, [process[p] EXCEPT !.pc = "idle", !.op = "none"])
  /\ UNCHANGED <<inserted, drops, faults, pairs>>

-----------------------------------------------------------------------------
(* The driver.                                                             *)

\* connect(): SELECT, GET_VERSION and PIN_STATUS; nothing of an earlier session
\* is believed.
Connect(p) ==
  /\ At(p, "open") /\ inserted # NoCard
  /\ SelectedBy({p})
  /\ Becomes(p, LET q == process[p] IN
       [q EXCEPT !.driver = [NoDriver EXCEPT !.conn = drops + 1, !.pin = card.pin,
                                             !.required = card.required, !.tries = card.tries],
                 !.pc = IF q.todo = <<>> /\ q.op = "none" THEN "idle" ELSE "run",
                 !.todo = IF @ = <<>> /\ q.op # "none" THEN <<q.op>> ELSE @])
  /\ UNCHANGED <<inserted, drops, faults, pairs>>

\* A card that cannot be opened ends the process, also when it was a retry.
ConnectFails(p) ==
  /\ At(p, "open")
  /\ IF inserted = NoCard THEN UNCHANGED <<faults, applet>>
     ELSE Fault /\ (SelectedBy({p}) \/ UNCHANGED applet)
  /\ Becomes(p, Ended(process[p]))
  /\ UNCHANGED <<inserted, drops, pairs>>

Running(p) == At(p, "run")
Cmd(p) == Head(process[p].todo)
Selected(a) == a.users # {}
Use(p, a) == [a EXCEPT !.users = @ \cup {p}]
Burn(a) == [a EXCEPT !.verified = FALSE, !.nonce = 0]

\* ensure_pin before KEYGEN, GET_NONCES and FINALIZE.  A PIN that is required but
\* not set is an error except before KEYGEN.
NeedsPin(p) == Cmd(p) \in {"keygen", "nonces", "finalize"} /\ ~process[p].driver.verified
Verifies(p) == Running(p) /\ NeedsPin(p) /\ process[p].driver.pin /\ process[p].driver.tries > 0
Blocked(p) ==
  LET d == process[p].driver
  IN  NeedsPin(p) /\ IF d.pin THEN d.tries = 0 ELSE d.required /\ Cmd(p) # "keygen"
Sending(p) == Running(p) /\ ~Blocked(p) /\ (NeedsPin(p) => ~process[p].driver.pin)

PinRefused(p) ==
  /\ Running(p) /\ Blocked(p)
  /\ Becomes(p, Raised(process[p]))
  /\ UNCHANGED world

PinMatches(p, a) == Selected(a) /\ process[p].rightPin /\ a.pin /\ a.tries > 0
Spends(p, a) == IF Selected(a) /\ ~PinMatches(p, a) /\ a.pin /\ a.tries > 0 THEN 1 ELSE 0
AfterVerify(p, a) ==
  CASE ~Selected(a)     -> a
    [] PinMatches(p, a) -> [Use(p, a) EXCEPT !.verified = TRUE, !.tries = CardTries]
    [] OTHER            -> [Burn(Use(p, a)) EXCEPT !.tries = @ - Spends(p, a)]

VerifyOk(p) ==
  /\ Verifies(p) /\ Alive(p) /\ PinMatches(p, card)
  /\ applet' = [applet EXCEPT ![inserted] = AfterVerify(p, @)]
  /\ Becomes(p, [process[p] EXCEPT !.driver.verified = TRUE])
  /\ UNCHANGED <<inserted, drops, faults, pairs>>

\* A wrong PIN spends a try and is an error like any other.
VerifyWrong(p) ==
  /\ Verifies(p) /\ Alive(p) /\ ~PinMatches(p, card)
  /\ applet' = [applet EXCEPT ![inserted] = AfterVerify(p, @)]
  /\ Becomes(p, Raised([process[p] EXCEPT !.spent = @ + Spends(p, card)]))
  /\ UNCHANGED <<inserted, drops, faults, pairs>>

\* Mutant: a PIN that is set is enough, entered or not.
Authorised_PinSet(a) == a.required \/ a.pin => a.pin

\* The applet's answer to the command of a process; another applet refuses it.
Authorised(a) == a.required \/ a.pin => a.pin /\ a.verified
Accepts(p, a) ==
  /\ Selected(a)
  /\ CASE Cmd(p) = "pubkey"   -> a.key
       [] Cmd(p) = "keygen"   -> Authorised(a) /\ ~a.key
       [] Cmd(p) = "nonces"   -> Authorised(a) /\ a.key
       [] Cmd(p) = "finalize" -> Authorised(a) /\ a.nonce # 0 /\ a.nonce = process[p].driver.token
       [] Cmd(p) = "setpin"   -> ~a.pin /\ ~a.key
AfterCmd(p, a) ==
  IF ~Selected(a) THEN a
  ELSE IF ~Accepts(p, a) THEN Burn(Use(p, a))
  ELSE CASE Cmd(p) = "keygen"   -> [Use(p, a) EXCEPT !.key = TRUE, !.nonce = 0]
         [] Cmd(p) = "nonces"   -> [Use(p, a) EXCEPT !.nonce = pairs + 1]
         [] Cmd(p) = "finalize" -> [Use(p, a) EXCEPT !.nonce = 0]
         [] Cmd(p) = "setpin"   -> [Burn(Use(p, a)) EXCEPT !.pin = TRUE]
         [] OTHER               -> Use(p, a)
Draws(p) == Accepts(p, card) /\ Cmd(p) = "nonces"
Execute(p) ==
  /\ Draws(p) => pairs < MaxNonces
  /\ pairs' = IF Draws(p) THEN pairs + 1 ELSE pairs
  /\ applet' = [applet EXCEPT ![inserted] = AfterCmd(p, @)]

\* finalize() forgets the token before the command is sent, whatever becomes of
\* it.
Sent(q) ==
  IF Head(q.todo) # "finalize" THEN q
  ELSE [q EXCEPT !.driver.token = 0, !.tokens = @ \cup {q.driver.token},
                 !.twice = @ \/ q.driver.token \in q.tokens]

\* What the client gets; a bridge then reads its next request, a script goes on.
Got(p, q) ==
  CASE Cmd(p) = "nonces" ->
         [q EXCEPT !.driver.token = pairs + 1, !.given = pairs + 1]
    [] Cmd(p) = "finalize" ->
         [q EXCEPT !.mixed = @ \/ card.nonce # q.given
                               \/ (IF Serves(p) THEN card.nonce # q.payload ELSE q.read # inserted)]
    [] Cmd(p) \in {"pubkey", "keygen"} -> [q EXCEPT !.read = IF Serves(p) THEN @ ELSE inserted]
    [] OTHER -> q
Continues(p, q) ==
  IF Serves(p) THEN [q EXCEPT !.pc = "idle", !.todo = <<>>, !.op = "none", !.payload = 0, !.attempt = 0]
  ELSE IF Len(q.todo) > 1 THEN [q EXCEPT !.todo = Tail(@)]
  ELSE IF Cmd(p) = "finalize" THEN [Ended(q) EXCEPT !.pc = "combine"] ELSE Ended(q)

Transmit(p) ==
  /\ Sending(p) /\ Alive(p) /\ Accepts(p, card)
  /\ Execute(p)
  /\ Becomes(p, Continues(p, Got(p, Sent(process[p]))))
  /\ UNCHANGED <<inserted, drops, faults>>

\* Mutant: the driver still believes that the PIN is verified.
Forgets_TokenOnly(q) == [q EXCEPT !.driver.token = 0]

\* _tx: after a status word other than 9000 the applet has burned its session,
\* and the driver forgets it.  6989 to KEYGEN makes the proof read the key.
Forgets(q) == [q EXCEPT !.driver.verified = FALSE, !.driver.token = 0]

Refused(p) ==
  /\ Sending(p) /\ Alive(p) /\ ~Accepts(p, card)
  /\ Execute(p)
  /\ Becomes(p, IF Cmd(p) = "keygen" /\ Selected(card) /\ Authorised(card)
                THEN [Forgets(process[p]) EXCEPT !.todo = <<"pubkey">> \o Tail(@)]
                ELSE Raised(Forgets(Sent(process[p]))))
  /\ UNCHANGED <<inserted, drops, faults>>

\* The connection is gone, or the exchange fails before or after the card has
\* acted on it.
Lost(p) ==
  /\ Verifies(p) \/ Sending(p)
  /\ \E acted \in BOOLEAN :
       /\ IF Alive(p) THEN Fault ELSE ~acted /\ UNCHANGED faults
       /\ CASE ~acted -> UNCHANGED <<applet, pairs>>
            [] acted /\ Verifies(p) ->
                 applet' = [applet EXCEPT ![inserted] = AfterVerify(p, @)] /\ UNCHANGED pairs
            [] OTHER -> Execute(p)
       /\ Becomes(p, Raised(Forgets(
            IF Verifies(p) THEN [process[p] EXCEPT !.spent = @ + (IF acted THEN Spends(p, card) ELSE 0)]
            ELSE Sent(process[p]))))
  /\ UNCHANGED <<inserted, drops>>

\* The script adds the client's partial.  Bound: the algebra, which depends on
\* nothing else, is explored in the runs that nothing disturbs.
Undisturbed(p) == drops = 0 /\ faults = 0 /\ \A q \in Processes \ {p} : At(q, "off")
Secrets == Scalars \ {0}
EvenSecrets == {norm_even(s) : s \in Secrets}
Math(t, coefficients) ==
  [card : Secrets, client : EvenSecrets, kCard : Secrets \X Secrets,
   kClient : EvenSecrets \X EvenSecrets, a : coefficients, b : Hashes, e : Hashes, t : t]
Outcome(p, m, result) ==
  Becomes(p, [process[p] EXCEPT !.pc = "ended", !.result = result,
                                !.excused = InfiniteNonce(m.kCard, m.kClient, m.b)])

Combine(p) ==
  /\ At(p, "combine") /\ Undisturbed(p)
  /\ CASE process[p].kind = "sign" ->
            \/ \E m \in Math(Scalars, Coefficients) : Outcome(p, m, cosign_tweaked(m))
            \/ \E m \in Math({0}, Coefficients) : Outcome(p, m, musig2_round(m))
       [] process[p].kind = "arkade" ->
            \E m \in Math(Hashes, Coefficients), tweaked \in BOOLEAN : Outcome(p, m, run_case(m, tweaked))
       [] process[p].kind = "proof" ->
            \E m \in Math({0}, (Hashes \ {0}) \X (Hashes \ {0})) : Outcome(p, m, cosign_proof(m))
  /\ UNCHANGED world

-----------------------------------------------------------------------------
Process(p) ==
  \/ StartProcess(p) \/ Request(p) \/ Stop(p) \/ Fido(p)
  \/ Connect(p) \/ ConnectFails(p) \/ PinRefused(p) \/ VerifyOk(p) \/ VerifyWrong(p)
  \/ Transmit(p) \/ Refused(p) \/ Lost(p) \/ Combine(p)

BridgeNext == Drop \/ \E p \in Processes : Process(p)

BridgeSpec == BridgeInit /\ [][BridgeNext]_bridgeVars

-----------------------------------------------------------------------------
Applet == [key : BOOLEAN, pin : BOOLEAN, required : BOOLEAN, tries : 0..CardTries,
           verified : BOOLEAN, nonce : 0..MaxNonces, users : SUBSET Processes]
Driver == [conn : 0..MaxDrops + 1, verified : BOOLEAN, token : 0..MaxNonces, pin : BOOLEAN,
           required : BOOLEAN, tries : 0..CardTries]
Commands == {"pubkey", "keygen", "nonces", "finalize", "setpin"}
State ==
  [pc : PC, kind : Kinds \cup {"none"}, rightPin : BOOLEAN, driver : Driver, todo : Seq(Commands),
   op : Ops \cup {"none"}, payload : 0..MaxNonces, attempt : {0, 1}, requests : 0..MaxRequests,
   given : 0..MaxNonces, read : Cards \cup {NoCard}, spent : Nat, tokens : SUBSET (1..MaxNonces),
   twice : BOOLEAN, mixed : BOOLEAN, result : {"none", "raised", "ok", "failed"}, excused : BOOLEAN]
BridgeTypeOK ==
  /\ applet \in [Cards -> Applet]
  /\ inserted \in Cards \cup {NoCard}
  /\ drops \in 0..MaxDrops /\ faults \in 0..MaxFaults /\ pairs \in 0..MaxNonces
  /\ process \in [Processes -> State]
  /\ \A p \in Processes : /\ process[p].pc = "run" => process[p].todo # <<>>
                          /\ process[p].todo # <<>> => process[p].pc \in {"open", "run"}

\* nuri_musig2_card.py: "Applet 1.14 burns both validation and nonce state on
\* every error."  What the driver remembers of a session is never more than what
\* the card still holds, unless the connection is dead or another process used
\* the applet.
DriverView ==
  \A p \in Processes :
    Alive(p) /\ card.users = {p} =>
      /\ process[p].driver.verified => card.verified
      /\ process[p].driver.token # 0 => card.nonce = process[p].driver.token

\* "One FINALIZE per nonce session, success or not": no token is ever sent twice,
\* whatever is retried, and a client gets a partial only for the nonces it got
\* last and asked for, a script only from the card whose key it read.
OnePartialPerNonce ==
  \A p \in Processes :
    LET q == process[p]
    IN  ~q.twice /\ ~q.mixed /\ \A r \in Processes \ {p} : q.tokens \cap process[r].tokens = {}

\* A wrong PIN costs the owner one try per process, and two per request in the
\* bridge, whose reconnection also repeats a refused VERIFY.  (It costs the bridge
\* more in all where the card was exchanged for one without a PIN in between.)
WrongPinBounded ==
  \A p \in Processes : process[p].spent <= IF Retries(p) THEN 2 ELSE 1

\* An honest round verifies for every key, nonce, coefficient and tweak.
CosignVerifies == \A p \in Processes : process[p].result = "failed" => process[p].excused

\* What the users of a card see of its applet, and of all of them.
View(a) == [key |-> a.key, pin |-> a.pin, required |-> a.required, tries |-> a.tries,
            verified |-> a.verified, nonce |-> a.nonce]
Views == [c \in Cards |-> View(applet[c])]

\* What the users of the cards count on (module SigningCards), which the applet by
\* itself keeps too (module MuSig2Applet): retries, lost answers and processes that
\* take the card from one another get nothing from it that one user would not.
Shared == INSTANCE SigningCards WITH Tries <- CardTries, cards <- Views, drawn <- pairs

ImplementsCards == Shared!Spec
=============================================================================
