--------------------------- MODULE CardDashboard ---------------------------
(***************************************************************************)
(* scripts/card-dashboard-server.py: a threaded HTTP server in front of    *)
(* one cached card connection.  A request is read within a deadline, is    *)
(* let in by the service token or a browser session, waits for the card    *)
(* lock, and then sends its commands one by one; cards are exchanged and   *)
(* transmissions fail between any two of them.                             *)
(***************************************************************************)
EXTENDS EthPolicy, HelperAuth

CONSTANTS
  Requests,         \* connections that clients open
  Server,           \* the dashboard among the starters
  Kinds,            \* what the clients ask for
  KeygenAllowed,    \* NURI_ALLOW_KEYGEN is 1
  MaxConnections,   \* MAX_CONNECTIONS
  RequestDeadline,  \* REQUEST_DEADLINE_S
  MaxServed         \* bound on the connections that are not refused

ASSUME DashboardAssumption ==
  /\ IsFiniteSet(Requests) /\ None \notin Requests
  /\ Server \in Starters /\ KeygenAllowed \in BOOLEAN
  /\ Kinds \subseteq {"page", "pair", "select", "status", "eth", "sign", "keygen"}
  /\ {MaxConnections, RequestDeadline, MaxServed} \subseteq Nat \ {0}

VARIABLES
  request,    \* the threads that serve them
  slots,      \* connections in use
  cardLock,   \* the thread that holds CARD_LOCK
  applet,     \* the cached connection
  sent        \* history: the ETH1 signatures and keys made

serving == <<request, slots, cardLock, applet, sent>>
vars == <<reader, selected, swaps, faults, tool, starter, tokenFile, temps, now, code,
          failures, sessions, paired, request, slots, cardLock, applet, sent>>

\* The commands a request sends; an AID stands for its SELECT.  The two SELECTs
\* before an ETH command are select_eth.
Script(kind) ==
  CASE kind = "select" -> <<"musig2", "read">>
    [] kind = "eth"    -> <<"eth2", "eth1", "read">>
    [] kind = "sign"   -> <<"eth2", "eth1", "pubkey", "sign">>
    [] kind = "keygen" -> <<"eth2", "eth1", "version", "eth2", "eth1", "keygen">>
    [] kind = "status" -> IF DemoAllowed THEN <<"atr", "fido2", "musig2", "totp", "eth2", "eth1">>
                          ELSE <<"atr", "fido2", "musig2", "totp", "eth2">>
    [] OTHER           -> <<>>

\* pub is the card whose key the request read.
RequestPC == {"off", "head", "body", "wait", "card", "reply", "done"}
Idle == [pc |-> "off", kind |-> "page", todo |-> <<>>, deadline |-> 0, pub |-> NoCard]

Init ==
  /\ PolicyInit /\ AuthInit
  /\ request = [r \in Requests |-> Idle]
  /\ slots = 0 /\ cardLock = None /\ applet = NoConn /\ sent = {}

At(r, place) == request[r].pc = place
Becomes(r, place) == request' = [request EXCEPT ![r].pc = place]
\* The request's own data ends with its handler.
Answer(r) == request' = [request EXCEPT ![r] = [Idle EXCEPT !.pc = "reply"]]
card == <<pcsc, tool, cardLock, applet, sent>>

-----------------------------------------------------------------------------
(* Connections and requests.                                               *)

\* Bounds.  Requests are explored when every starter found the token of an
\* earlier run: they share nothing with the race for it but the token that was
\* loaded, whosever it is.  And either the server or the tool uses the readers.
Serving == (\A s \in Starters : starter[s].token = "old") /\ tool.pc = "idle"
OneClient == \A r \in Requests : At(r, "off")

\* process_request: a connection beyond the cap is closed at once.
Accept(r) ==
  /\ Serving /\ At(r, "off") /\ now + RequestDeadline <= MaxTime
  /\ IF slots < MaxConnections
     THEN /\ Cardinality({q \in Requests : ~At(q, "off")}) < MaxServed
          /\ slots' = slots + 1
          /\ request' = [request EXCEPT ![r].pc = "head", ![r].deadline = now + RequestDeadline]
     ELSE Becomes(r, "done") /\ UNCHANGED slots
  /\ UNCHANGED <<card, token, now, pairing>>

\* begin(): framing, host, origin and media type first (any of them may refuse),
\* then who asks.  A client shows the token it loaded, a cookie, or nothing.
LetIn(kind, client, cookie) ==
  \/ kind \in {"page", "pair"}
  \/ client # None /\ StarterAt(client, "loaded") /\ starter[client].token = starter[Server].token
  \/ Valid(cookie)

Begin(r) ==
  /\ At(r, "head") /\ now < request[r].deadline
  /\ \E kind \in Kinds, client \in Starters \cup {None}, cookie \in {0} \cup {p.id : p \in paired} :
       /\ IF LetIn(kind, client, cookie)
          THEN IF kind = "page" THEN Answer(r)
               ELSE request' = [request EXCEPT ![r].kind = kind, ![r].todo = Script(kind),
                                  ![r].pc = IF kind \in {"pair", "sign", "keygen"} THEN "body" ELSE "wait"]
          ELSE Answer(r)
       /\ IF client = None /\ cookie # 0 THEN LookUp ELSE UNCHANGED pairing
  /\ UNCHANGED <<card, token, now, slots>>

BeginRefuses(r) ==
  /\ At(r, "head") /\ now < request[r].deadline /\ Answer(r)
  /\ UNCHANGED <<card, token, now, pairing, slots>>

\* read_body, before the card lock: a short or malformed body is refused, and
\* keygen is refused unless the server was started for it.
Body(r) ==
  /\ At(r, "body") /\ now < request[r].deadline /\ request[r].kind # "pair"
  /\ \/ request' = [request EXCEPT ![r].pc = "wait", ![r].deadline = 0]
     \/ Answer(r)
  /\ UNCHANGED <<card, token, now, pairing, slots>>

Pair(r) ==
  /\ At(r, "body") /\ now < request[r].deadline /\ request[r].kind = "pair"
  /\ \E given \in 0..code.number : PairOk(given) \/ PairDenied(given)
  /\ Answer(r)
  /\ UNCHANGED <<card, token, now, slots>>

\* Mutant: a request that runs out of time ends without giving its slot back.
Deadline_KeepSlot(r) ==
  /\ request[r].pc \in {"head", "body"} /\ now >= request[r].deadline
  /\ request' = [request EXCEPT ![r] = [Idle EXCEPT !.pc = "done"]]
  /\ UNCHANGED <<card, token, now, pairing, slots>>

\* The absolute read deadline, whatever has trickled in.
Deadline(r) ==
  /\ request[r].pc \in {"head", "body"} /\ now >= request[r].deadline
  /\ Answer(r)
  /\ UNCHANGED <<card, token, now, pairing, slots>>

TakeLock(r) ==
  /\ At(r, "wait") /\ cardLock = None
  /\ cardLock' = r
  /\ IF request[r].kind = "keygen" /\ ~KeygenAllowed THEN Answer(r) ELSE Becomes(r, "card")
  /\ UNCHANGED <<pcsc, tool, applet, sent, token, now, pairing, slots>>

\* The answer is written (or the client is gone) under the card lock, if it was
\* taken; then the lock and the slot are given back.
Reply(r) ==
  /\ At(r, "reply") \/ (At(r, "card") /\ request[r].todo = <<>>)
  /\ request' = [request EXCEPT ![r] = [Idle EXCEPT !.pc = "done"]]
  /\ cardLock' = IF cardLock = r THEN None ELSE cardLock
  /\ slots' = slots - 1
  /\ UNCHANGED <<pcsc, tool, applet, sent, token, now, pairing>>

-----------------------------------------------------------------------------
(* The card, under the lock.                                               *)

Next1(r) == Head(request[r].todo)
Sending(r) == At(r, "card") /\ request[r].todo # <<>>
Continue(r) == request' = [request EXCEPT ![r].todo = Tail(@)]
cardFrame == <<reader, swaps, tool, cardLock, token, now, pairing, slots>>

\* An exception ends the request; only the status report goes on.
Raise(r) == IF request[r].kind = "status" THEN Continue(r) ELSE Answer(r)

\* get_connection: the first applet of the list some reader answers for; any
\* other error than NO_APPLET ends the search.
ConnectionAids ==
  IF DemoAllowed THEN <<"eth2", "musig2", "totp", "fido2", "eth1">>
  ELSE <<"eth2", "musig2", "totp", "fido2">>
Connect(r) ==
  /\ Sending(r) /\ applet = NoConn
  /\ \E f \in Faults :
       LET tried == {k \in DOMAIN ConnectionAids : OpenApplet(ConnectionAids[k], f) # "NO_APPLET"}
           aid == ConnectionAids[First(tried)]
           i == First(Answering(aid, f))
       IN  /\ Fail(f)
           /\ IF tried # {} /\ OpenApplet(aid, f) = "ok"
              THEN applet' = Conn(i) /\ Select(i, aid) /\ UNCHANGED request
              ELSE Raise(r) /\ UNCHANGED <<applet, selected>>
  /\ UNCHANGED <<cardFrame, sent>>

\* transmit: after any failure the connection is dropped, and nothing is resent.
TransmitFails(r) ==
  /\ Sending(r) /\ applet # NoConn
  /\ Alive(applet) => faults < MaxFaults
  /\ faults' = IF Alive(applet) THEN faults + 1 ELSE faults
  /\ applet' = NoConn
  /\ Raise(r)
  /\ UNCHANGED <<cardFrame, selected, sent>>

\* Mutant: any refusal of the SELECT of ETH2 counts as its absence.
AfterSelect_AnyRefusal(r, aid, strange) ==
  CASE request[r].kind \in {"status", "select"} -> Continue(r)
    [] aid = "eth2" ->
         IF (strange \/ ~Holds(applet.at, "eth2")) /\ DemoAllowed THEN Continue(r) ELSE Answer(r)
    [] OTHER -> IF ~strange /\ Holds(applet.at, aid) THEN Continue(r) ELSE Answer(r)

\* What select_eth makes of the answer; strange is a status word other than
\* success and 6A82.
AfterSelect(r, aid, strange) ==
  CASE request[r].kind \in {"status", "select"} -> Continue(r)
    [] aid = "eth2" ->
         IF ~strange /\ ~Holds(applet.at, "eth2") /\ DemoAllowed THEN Continue(r) ELSE Answer(r)
    [] OTHER -> IF ~strange /\ Holds(applet.at, aid) THEN Continue(r) ELSE Answer(r)

SelectAid(r) ==
  /\ Sending(r) /\ Alive(applet) /\ Next1(r) \in AIDs
  /\ \E strange \in BOOLEAN :
       /\ strange => faults < MaxFaults
       /\ faults' = faults + (IF strange THEN 1 ELSE 0)
       /\ IF strange THEN UNCHANGED selected ELSE Select(applet.at, Next1(r))
       /\ AfterSelect(r, Next1(r), strange)
  /\ UNCHANGED <<cardFrame, applet, sent>>

\* Commands to the selected applet.  Another applet than ETH1 refuses them, and
\* the handler fails on the short answer.
TransmitToEth(r) ==
  /\ Sending(r) /\ Alive(applet) /\ Next1(r) \in {"version", "pubkey", "sign", "keygen"}
  /\ LET c == CardAt(applet.at)
         cmd == Next1(r)
     IN  IF selected[applet.at] # "eth1" THEN Answer(r) /\ UNCHANGED sent
         ELSE /\ IF cmd = "version" /\ c \notin Guarded THEN Answer(r)
                 ELSE request' = [request EXCEPT ![r].todo = Tail(@),
                                    ![r].pub = IF cmd = "pubkey" THEN c ELSE @]
              /\ sent' = IF cmd \in {"sign", "keygen"}
                         THEN sent \cup {[cmd |-> cmd, card |-> c, pub |-> request[r].pub]} ELSE sent
  /\ UNCHANGED <<cardFrame, selected, faults, applet>>

Transmit(r) ==
  /\ Sending(r) /\ Alive(applet) /\ Next1(r) \in {"atr", "read"}
  /\ Continue(r)
  /\ UNCHANGED <<cardFrame, selected, faults, applet, sent>>

-----------------------------------------------------------------------------
Tick == now < MaxTime /\ now' = now + 1 /\ UNCHANGED <<card, token, pairing, request, slots>>

Thread(r) ==
  \/ Accept(r) \/ Begin(r) \/ BeginRefuses(r) \/ Body(r) \/ Pair(r) \/ Deadline(r)
  \/ TakeLock(r) \/ Reply(r)
  \/ Connect(r) \/ TransmitFails(r) \/ SelectAid(r) \/ TransmitToEth(r) \/ Transmit(r)

Next ==
  \/ AuthNext /\ UNCHANGED <<pcsc, tool, now, pairing, serving>>
  \/ \E r \in Requests : Thread(r)
  \/ OneClient /\ ToolNext /\ UNCHANGED <<token, now, pairing, serving>>
  \/ Swap /\ UNCHANGED <<token, now, pairing, serving>>
  \/ Tick

Spec == Init /\ [][Next]_vars

-----------------------------------------------------------------------------
TypeOK ==
  /\ PolicyTypeOK /\ AuthTypeOK
  /\ \A r \in Requests : request[r].pc \in RequestPC /\ request[r].deadline \in 0..MaxTime
                         /\ request[r].pub \in Cards \cup {NoCard}
  /\ cardLock \in Requests \cup {None} /\ applet \in Connection
  /\ slots \in 0..MaxConnections

\* docs/helper-servers-security.md and the comment on keygen: whatever cards are
\* exchanged and whichever requests fail around it, a key is made only on a card
\* whose ETH1 applet refuses to replace one, a signature or key only on a card
\* without the signer that has a PIN and only in the demo, and a signature is
\* shown with the key of the card that made it.
Eth1Contained ==
  \A e \in sent :
    /\ DemoAllowed /\ "eth2" \notin Applets[e.card]
    /\ e.cmd = "keygen" => KeygenAllowed /\ e.card \in Guarded
    /\ e.cmd = "sign" => e.pub = e.card

\* DashboardServer: a request that is refused, that times out, or whose card is
\* gone leaves no connection slot taken and no card lock held: a slot belongs to a
\* request that is still served, the lock to one that still talks to the card.
NothingLeaks ==
  /\ slots = Cardinality({r \in Requests : request[r].pc \notin {"off", "done"}})
  /\ cardLock # None => request[cardLock].pc \in {"card", "reply"}
  /\ \A r \in Requests : At(r, "card") => cardLock = r
=============================================================================
