------------------------------ MODULE WalletHost ------------------------------
(***************************************************************************)
(* The browser wallet: the service worker extension/background.js, the     *)
(* native host processes it talks to (host/nuri_card_host.py with          *)
(* host/bitcoin_commands.py), the Bitcoin child such a host spawns for one *)
(* spend (scripts/ext-card-wallet.mjs), and the card in the reader.        *)
(*                                                                         *)
(* A request is an Ethereum signature (Signs) or a Bitcoin spend (Spends)  *)
(* a page asks for once.  Both are released by an approval popup; a card   *)
(* has a PIN, so every accepted approval carries one.  A host is one       *)
(* process of one native connection: it serves its frames one at a time,   *)
(* and one that lost its connection still reads the frames already sent,   *)
(* until its first answer finds the pipe closed.  The job of a spend is    *)
(* named by the request it was previewed for.                              *)
(***************************************************************************)
EXTENDS Integers, Sequences

CONSTANTS Signs,    \* Ethereum signature requests
          Spends,   \* Bitcoin spend requests
          Cards,
          None,
          MaxHosts, \* bound: native hosts launched
          MaxReads  \* bound: info calls of the toolbar and of requests

ASSUME RequestsAssumption == Signs \cap Spends = {} /\ None \notin Cards
ASSUME BoundAssumption == MaxHosts \in Nat \ {0} /\ MaxReads \in Nat

Requests == Signs \cup Spends
Hosts == 1..MaxHosts

VARIABLES nativePort,  \* the host of the live connection, 0 for none
          started,     \* hosts launched so far
          cachedInfo,  \* the card of the last info, None when forgotten
          fetched,     \* the card of an info answer not yet cached
          st,          \* how far each request is
          shown,       \* the card (or its wallet) each approval displays
          reads,
          toHost,      \* frames on the way to each host
          toExt,       \* frames on the way back over the live connection
          dead,        \* hosts that have exited
          INFO,        \* _INFO of each host
          JOBS,        \* _JOBS of each host
          busy,        \* the jobs whose busy flag is set
          serving,     \* the request a host is in the middle of
          child,       \* the child process of each spend
          inserted,    \* the card in the reader
          \* history, read by no guard
          accepted,    \* requests the owner accepted in their popup
          presented,   \* <<r, c>>: the PIN typed for r reached card c
          signed,      \* how often the hash of a request was signed
          paid         \* spends that were signed and broadcast

worker == <<nativePort, started, cachedInfo, fetched, st, shown, reads>>
pipes == <<toHost, toExt>>
host == <<dead, INFO, JOBS, busy, serving>>
history == <<accepted, presented, signed, paid>>
vars == <<worker, pipes, host, child, inserted, history>>

Idle == [m |-> "idle"]
Info == [m |-> "info"]
Preview(r) == [m |-> "preview", r |-> r]
Sign(r, c) == [m |-> "sign", r |-> r, card |-> c]
Partial(r) == [m |-> "partial", r |-> r]
Cancelled(S) == [m |-> "cancel", of |-> S]
Identity(c) == [m |-> "info", card |-> c]
Built(r, c) == [m |-> "preview", r |-> r, card |-> c]
Result(r, x) == [m |-> "result", r |-> r, res |-> x]
\* What a host is in the middle of: an open session with a card, which a
\* change of the card in the reader breaks; or the wait for a child.
Session(r, c, live) == [m |-> "session", r |-> r, card |-> c, live |-> live]
Waiting(r) == [m |-> "waiting", r |-> r]

Frames == {Info} \cup {Preview(r) : r \in Spends} \cup {Partial(r) : r \in Spends}
            \cup {Sign(r, c) : r \in Signs, c \in Cards} \cup {Cancelled(S) : S \in SUBSET Spends}
Answers == {Identity(c) : c \in Cards}
             \cup {Built(r, c) : r \in Spends, c \in Cards \cup {None}}
             \cup {Result(r, x) : r \in Requests, x \in {"ok", "wrong", "error"}}
Tasks == {Idle} \cup {Session(r, c, l) : r \in Signs, c \in Cards, l \in BOOLEAN}
           \cup {Waiting(r) : r \in Spends}

Init == /\ nativePort = 0 /\ started = 0 /\ cachedInfo = None /\ fetched = None
        /\ st = [r \in Requests |-> "new"] /\ shown = [r \in Requests |-> None]
        /\ reads = 0
        /\ toHost = [h \in Hosts |-> <<>>] /\ toExt = <<>> /\ dead = {}
        /\ INFO = [h \in Hosts |-> None] /\ JOBS = [h \in Hosts |-> {}]
        /\ busy = [h \in Hosts |-> {}] /\ serving = [h \in Hosts |-> Idle]
        /\ child = [r \in Spends |-> "none"]
        /\ inserted \in Cards \cup {None}
        /\ accepted = {} /\ presented = {} /\ signed = [r \in Signs |-> 0] /\ paid = {}

-----------------------------------------------------------------------------
(* The service worker. *)

\* hostPort and nativeCall: frame f goes to the live host, else to a new one.
nativeCall(f) ==
  \E p \in Hosts :
    /\ \/ nativePort # 0 /\ p = nativePort /\ UNCHANGED started
       \/ nativePort = 0 /\ p = started + 1 /\ started' = p
    /\ nativePort' = p
    /\ toHost' = [toHost EXCEPT ![p] = Append(@, f)]

\* nativeCall when the browser cannot launch a host.
unreachable == nativePort = 0 /\ UNCHANGED <<nativePort, started, toHost>>

\* cardInfo: the toolbar, or a request of a page, reads the card again.
cardInfo ==
  /\ reads < MaxReads /\ reads' = reads + 1
  /\ nativeCall(Info)
  /\ UNCHANGED <<cachedInfo, fetched, st, shown, toExt, host, child, inserted, history>>

\* cardInfo after its awaits: the badge is set before the answer is cached,
\* and the connection may be gone by then.
cacheInfo ==
  /\ fetched # None
  /\ cachedInfo' = fetched /\ fetched' = None
  /\ UNCHANGED <<nativePort, started, st, shown, reads, pipes, host, child, inserted, history>>

\* approvedSignature: the popup shows the hash and the card it read.
requestSignature(r) ==
  /\ st[r] = "new" /\ cachedInfo # None
  /\ st' = [st EXCEPT ![r] = "open"]
  /\ shown' = [shown EXCEPT ![r] = cachedInfo]
  /\ UNCHANGED <<nativePort, started, cachedInfo, fetched, reads, pipes, host, child, inserted, history>>

\* bitcoinSpend and bitcoinPreview: a host builds the spend before a popup.
bitcoinSpend(r) ==
  /\ st[r] = "new" /\ cachedInfo # None
  /\ \/ nativeCall(Preview(r)) /\ st' = [st EXCEPT ![r] = "asked"]
     \/ unreachable /\ st' = [st EXCEPT ![r] = "refused"]
  /\ UNCHANGED <<cachedInfo, fetched, shown, reads, toExt, host, child, inserted, history>>

\* approvalMessage, approval:displayed.
displayed(r) ==
  /\ st[r] = "open"
  /\ st' = [st EXCEPT ![r] = "shown"]
  /\ UNCHANGED <<nativePort, started, cachedInfo, fetched, shown, reads, pipes, host, child, inserted, history>>

\* signHashOnCard with the PIN of the popup; it throws when the connection
\* the card was read over is gone.
signHashOnCard(r) ==
  \/ /\ nativePort # 0 /\ cachedInfo # None
     /\ nativeCall(Sign(r, shown[r]))
     /\ st' = [st EXCEPT ![r] = "busy"]
  \/ /\ nativePort = 0 \/ cachedInfo = None
     /\ st' = [st EXCEPT ![r] = "refused"]
     /\ UNCHANGED <<nativePort, started, toHost>>

\* The connection a spend was previewed over is live as long as its approval,
\* so neither this call nor the cleanup of cancelApproval launches a host.
bitcoinSign(r) == nativeCall(Partial(r)) /\ st' = [st EXCEPT ![r] = "busy"]

\* approvalMessage, approval: displayed, not busy, and accepted by the owner.
approveUsed(r) ==
  /\ st[r] \in {"shown", "busy"}
  /\ accepted' = accepted \cup {r}
  /\ \/ r \in Signs /\ signHashOnCard(r)
     \/ r \in Spends /\ bitcoinSign(r)
  /\ UNCHANGED <<cachedInfo, fetched, shown, reads, toExt, host, child, inserted, presented, signed, paid>>
approve(r) ==
  /\ st[r] = "shown"
  /\ accepted' = accepted \cup {r}
  /\ \/ r \in Signs /\ signHashOnCard(r)
     \/ r \in Spends /\ bitcoinSign(r)
  /\ UNCHANGED <<cachedInfo, fetched, shown, reads, toExt, host, child, inserted, presented, signed, paid>>

\* The approvals map.
approvals == {r \in Requests : st[r] \in {"open", "shown", "busy"}}

\* cancelApproval: the request is refused, a spend's cleanup cancels its job.
RefuseNoCleanup(r) ==
  /\ st' = [st EXCEPT ![r] = "refused"]
  /\ UNCHANGED <<nativePort, started, toHost>>
Refuse(r) ==
  /\ st' = [st EXCEPT ![r] = "refused"]
  /\ \/ r \in Spends /\ nativeCall(Cancelled({r}))
     \/ r \in Signs /\ UNCHANGED <<nativePort, started, toHost>>

\* The owner rejects or closes the popup, or the 120 second timer fires.
cancelApproval(r) ==
  /\ r \in approvals
  /\ Refuse(r)
  /\ UNCHANGED <<cachedInfo, fetched, shown, reads, toExt, host, child, inserted, history>>

\* onMessage: the next answer settles the call it belongs to.
Incoming(kind) == toExt # <<>> /\ Head(toExt).m = kind /\ toExt' = Tail(toExt)

onInfo ==
  /\ Incoming("info")
  /\ fetched' = Head(toExt).card
  /\ UNCHANGED <<nativePort, started, cachedInfo, st, shown, reads, toHost, host, child, inserted, history>>

\* bitcoinPreview returned: the popup opens, or the request fails.
onPreview ==
  /\ Incoming("preview")
  /\ LET r == Head(toExt).r
         c == Head(toExt).card
     IN  /\ st' = [st EXCEPT ![r] = IF c = None THEN "refused" ELSE "open"]
         /\ shown' = [shown EXCEPT ![r] = c]
  /\ UNCHANGED <<nativePort, started, cachedInfo, fetched, reads, toHost, host, child, inserted, history>>

\* The rest of approvalMessage: a signature settles the request, a wrong PIN
\* keeps the approval for another try, any other error cancels it, and an
\* answer for an approval that is gone is dropped.
onResult ==
  /\ Incoming("result")
  /\ LET r == Head(toExt).r
         x == Head(toExt).res
     IN  \/ st[r] # "busy" /\ UNCHANGED <<st, nativePort, started, toHost>>
         \/ /\ st[r] = "busy" /\ x # "error"
            /\ st' = [st EXCEPT ![r] = IF x = "ok" THEN "answered" ELSE "shown"]
            /\ UNCHANGED <<nativePort, started, toHost>>
         \/ st[r] = "busy" /\ x = "error" /\ Refuse(r)
  /\ UNCHANGED <<cachedInfo, fetched, shown, reads, host, child, inserted, history>>

\* onDisconnect: the host died, or the browser dropped the connection.  Every
\* call fails, every approval is cancelled; the cleanups of the spends among
\* them reach a host launched for the purpose, which knows no job.
onDisconnect ==
  /\ nativePort # 0
  /\ \/ dead' = dead \cup {nativePort}
     \/ nativePort \notin dead /\ UNCHANGED dead
  /\ cachedInfo' = None /\ toExt' = <<>>
  /\ st' = [r \in Requests |-> IF r \in approvals \/ st[r] = "asked" THEN "refused" ELSE st[r]]
  /\ \/ /\ approvals \cap Spends # {} /\ started < MaxHosts
        /\ started' = started + 1 /\ nativePort' = started'
        /\ toHost' = [toHost EXCEPT ![started'] = <<Cancelled(approvals \cap Spends)>>]
     \/ nativePort' = 0 /\ UNCHANGED <<started, toHost>>
  /\ UNCHANGED <<fetched, shown, reads, INFO, JOBS, busy, serving, child, inserted, history>>

-----------------------------------------------------------------------------
(* The native host. *)

\* read_message: the next frame, when the host is between two requests.
Takes(h, kind) ==
  /\ h \in Hosts \ dead /\ h <= started /\ serving[h] = Idle
  /\ toHost[h] # <<>> /\ Head(toHost[h]).m = kind
  /\ toHost' = [toHost EXCEPT ![h] = Tail(@)]

\* write_message: a closed pipe ends the host.
Answer(h, a) ==
  \/ nativePort = h /\ toExt' = Append(toExt, a) /\ UNCHANGED dead
  \/ nativePort # h /\ dead' = dead \cup {h} /\ UNCHANGED toExt

\* An answer no call of the extension does anything with.
Acknowledge(h) ==
  /\ UNCHANGED toExt
  /\ \/ nativePort = h /\ UNCHANGED dead
     \/ nativePort # h /\ dead' = dead \cup {h}

\* _do_info: the identity of the last info is forgotten first.
do_info(h) ==
  /\ Takes(h, "info")
  /\ \/ /\ inserted # None
        /\ INFO' = [INFO EXCEPT ![h] = inserted]
        /\ Answer(h, Identity(inserted))
     \/ INFO' = [INFO EXCEPT ![h] = None] /\ Acknowledge(h)
  /\ UNCHANGED <<worker, JOBS, busy, serving, child, inserted, history>>

Kill(S) == [r \in Spends |-> IF r \in S THEN "dead" ELSE child[r]]

\* _reap: what handle_preview may find older than JOB_TTL.  A popup lives 120
\* of its 180 seconds, so the request of such a job is settled.
Expired(h) == {r \in JOBS[h] \ busy[h] : st[r] \in {"answered", "refused"}}

\* handle_preview: reap, then spawn a child that builds the spend of the card
\* in the reader, and keep it waiting for a decision.
handle_preview(h) ==
  /\ Takes(h, "preview")
  /\ LET r == Head(toHost[h]).r
         failed == Answer(h, Built(r, None))
     IN  \/ INFO[h] = None /\ failed /\ UNCHANGED <<JOBS, child>>
         \/ INFO[h] # None /\ \E old \in SUBSET Expired(h) :
              \/ /\ inserted # None
                 /\ JOBS' = [JOBS EXCEPT ![h] = (@ \ old) \cup {r}]
                 /\ child' = [Kill(old) EXCEPT ![r] = "waiting"]
                 /\ Answer(h, Built(r, inserted))
              \/ /\ JOBS' = [JOBS EXCEPT ![h] = @ \ old]
                 /\ child' = Kill(old)
                 /\ failed
  /\ UNCHANGED <<worker, INFO, busy, serving, inserted, history>>

\* handle_cancel: pop the job and kill its child.
handle_cancel(h) ==
  /\ Takes(h, "cancel")
  /\ LET gone == Head(toHost[h]).of \cap JOBS[h]
     IN  /\ JOBS' = [JOBS EXCEPT ![h] = @ \ gone]
         /\ busy' = [busy EXCEPT ![h] = @ \ gone]
         /\ child' = Kill(gone)
  /\ Acknowledge(h)
  /\ UNCHANGED <<worker, INFO, serving, inserted, history>>

\* handle, verify_pin, up to _check_identity: the address of the approval is
\* that of the last info, and so is the card in the reader.
open_sessionUnchecked(h) ==
  /\ Takes(h, "sign")
  /\ LET r == Head(toHost[h]).r
         c == Head(toHost[h]).card
     IN  \/ /\ INFO[h] = c
            /\ serving' = [serving EXCEPT ![h] = Session(r, inserted, TRUE)]
            /\ UNCHANGED <<INFO, toExt, dead>>
         \/ /\ INFO[h] = c /\ inserted \notin {c, None}  \* CARD_CHANGED
            /\ INFO' = [INFO EXCEPT ![h] = None]
            /\ Answer(h, Result(r, "error"))
            /\ UNCHANGED serving
         \/ Answer(h, Result(r, "error")) /\ UNCHANGED <<INFO, serving>>
  /\ UNCHANGED <<worker, JOBS, busy, child, inserted, history>>
open_sessionAddress(h) ==
  /\ Takes(h, "sign")
  /\ LET r == Head(toHost[h]).r
         c == Head(toHost[h]).card
     IN  \/ /\ INFO[h] # None /\ inserted = INFO[h]
            /\ serving' = [serving EXCEPT ![h] = Session(r, inserted, TRUE)]
            /\ UNCHANGED <<INFO, toExt, dead>>
         \/ /\ INFO[h] = c /\ inserted \notin {c, None}  \* CARD_CHANGED
            /\ INFO' = [INFO EXCEPT ![h] = None]
            /\ Answer(h, Result(r, "error"))
            /\ UNCHANGED serving
         \/ Answer(h, Result(r, "error")) /\ UNCHANGED <<INFO, serving>>
  /\ UNCHANGED <<worker, JOBS, busy, child, inserted, history>>
open_session(h) ==
  /\ Takes(h, "sign")
  /\ LET r == Head(toHost[h]).r
         c == Head(toHost[h]).card
     IN  \/ /\ INFO[h] = c /\ inserted = c
            /\ serving' = [serving EXCEPT ![h] = Session(r, inserted, TRUE)]
            /\ UNCHANGED <<INFO, toExt, dead>>
         \/ /\ INFO[h] = c /\ inserted \notin {c, None}  \* CARD_CHANGED
            /\ INFO' = [INFO EXCEPT ![h] = None]
            /\ Answer(h, Result(r, "error"))
            /\ UNCHANGED serving
         \/ Answer(h, Result(r, "error")) /\ UNCHANGED <<INFO, serving>>
  /\ UNCHANGED <<worker, JOBS, busy, child, inserted, history>>

\* verify_pin_and_sign: VERIFY PIN and SIGN in the open session.
verify_pin_and_sign(h) ==
  /\ h \notin dead /\ serving[h].m = "session"
  /\ LET r == serving[h].r
         live == serving[h].live
     IN  /\ presented' = IF live THEN presented \cup {<<r, inserted>>} ELSE presented
         /\ \/ live /\ signed' = [signed EXCEPT ![r] = @ + 1]
               /\ (Answer(h, Result(r, "ok")) \/ Answer(h, Result(r, "error")))
            \/ live /\ Answer(h, Result(r, "wrong")) /\ UNCHANGED signed
            \/ Answer(h, Result(r, "error")) /\ UNCHANGED signed
  /\ serving' = [serving EXCEPT ![h] = Idle]
  /\ UNCHANGED <<worker, toHost, INFO, JOBS, busy, child, inserted, accepted, paid>>

\* handle_sign_partial: the decision goes to the child of the job.  When the
\* child has died the job keeps its busy flag.
handle_sign_partial(h) ==
  /\ Takes(h, "partial")
  /\ LET r == Head(toHost[h]).r
     IN  \/ /\ INFO[h] = None \/ r \notin JOBS[h] \/ r \in busy[h]
            /\ Answer(h, Result(r, "error"))
            /\ UNCHANGED <<busy, serving, child>>
         \/ /\ INFO[h] # None /\ r \in JOBS[h] \ busy[h]
            /\ busy' = [busy EXCEPT ![h] = @ \cup {r}]
            /\ \/ /\ child[r] = "dead"
                  /\ Answer(h, Result(r, "error"))
                  /\ UNCHANGED <<serving, child>>
               \/ /\ child[r] = "waiting"
                  /\ child' = [child EXCEPT ![r] = "signing"]
                  /\ serving' = [serving EXCEPT ![h] = Waiting(r)]
                  /\ UNCHANGED <<toExt, dead>>
  /\ UNCHANGED <<worker, INFO, JOBS, inserted, history>>

\* handle_sign_partial, the rest: the line of the child, its death, or the
\* timeout, which kills it; the job ends in every case.
sign_partial_returnsAlive(h) ==
  /\ h \notin dead /\ serving[h].m = "waiting"
  /\ LET r == serving[h].r
     IN  /\ \/ child[r] = "done" /\ Answer(h, Result(r, "ok")) /\ child' = Kill({r})
            \/ child[r] = "badpin" /\ Answer(h, Result(r, "wrong")) /\ child' = Kill({r})
            \/ child[r] \notin {"done", "badpin"} /\ Answer(h, Result(r, "error")) /\ UNCHANGED child
         /\ JOBS' = [JOBS EXCEPT ![h] = @ \ {r}]
         /\ busy' = [busy EXCEPT ![h] = @ \ {r}]
  /\ serving' = [serving EXCEPT ![h] = Idle]
  /\ UNCHANGED <<worker, toHost, INFO, inserted, history>>
sign_partial_returns(h) ==
  /\ h \notin dead /\ serving[h].m = "waiting"
  /\ LET r == serving[h].r
     IN  /\ \/ child[r] = "done" /\ Answer(h, Result(r, "ok"))
            \/ child[r] = "badpin" /\ Answer(h, Result(r, "wrong"))
            \/ child[r] \notin {"done", "badpin"} /\ Answer(h, Result(r, "error"))
         /\ JOBS' = [JOBS EXCEPT ![h] = @ \ {r}]
         /\ busy' = [busy EXCEPT ![h] = @ \ {r}]
         /\ child' = Kill({r})
  /\ serving' = [serving EXCEPT ![h] = Idle]
  /\ UNCHANGED <<worker, toHost, INFO, inserted, history>>

\* serve: end of file ends a host that has read every frame.
serve_ends(h) ==
  /\ h \notin dead /\ h <= started /\ nativePort # h
  /\ serving[h] = Idle /\ toHost[h] = <<>>
  /\ dead' = dead \cup {h}
  /\ UNCHANGED <<worker, pipes, INFO, JOBS, busy, serving, child, inserted, history>>

-----------------------------------------------------------------------------
(* The child of a spend, and the owner at the reader. *)

\* modeSend after an approved decision: the card it previewed and the server
\* sign, and the transaction is broadcast.
send(r) ==
  /\ child[r] = "signing" /\ inserted = shown[r]
  /\ child' = [child EXCEPT ![r] = "sent"]
  /\ paid' = paid \cup {r}
  /\ UNCHANGED <<worker, pipes, host, inserted, accepted, presented, signed>>

\* The last line of the child; a step after the broadcast may still fail.
emit(r) ==
  /\ child[r] \in {"signing", "sent"}
  /\ \E end \in {"failed", IF child[r] = "sent" THEN "done" ELSE "badpin"} :
       child' = [child EXCEPT ![r] = end]
  /\ UNCHANGED <<worker, pipes, host, inserted, history>>

dies(r) ==
  /\ child[r] \in {"waiting", "signing", "sent"}
  /\ child' = [child EXCEPT ![r] = "dead"]
  /\ UNCHANGED <<worker, pipes, host, inserted, history>>

\* The owner removes or inserts a card; an open session breaks.
MoveCard ==
  /\ inserted' \in (Cards \cup {None}) \ {inserted}
  /\ serving' = [h \in Hosts |-> IF serving[h].m = "session"
                                 THEN Session(serving[h].r, serving[h].card, FALSE)
                                 ELSE serving[h]]
  /\ UNCHANGED <<worker, pipes, dead, INFO, JOBS, busy, child, history>>

HostStep(h) ==
  \/ do_info(h) \/ handle_preview(h) \/ handle_cancel(h)
  \/ open_session(h) \/ verify_pin_and_sign(h)
  \/ handle_sign_partial(h) \/ sign_partial_returns(h) \/ serve_ends(h)

Next ==
  \/ cardInfo \/ cacheInfo \/ onInfo \/ onPreview \/ onResult \/ onDisconnect \/ MoveCard
  \/ \E r \in Signs : requestSignature(r)
  \/ \E r \in Spends : bitcoinSpend(r) \/ send(r) \/ emit(r) \/ dies(r)
  \/ \E r \in Requests : displayed(r) \/ approve(r) \/ cancelApproval(r)
  \/ \E h \in Hosts : HostStep(h)

Spec == Init /\ [][Next]_vars

\* The worker and a host handle what reaches them, and the approval timer
\* fires; the owner, the card and the child owe nothing.
FairSpec ==
  /\ Spec
  /\ WF_vars(onInfo \/ onPreview \/ onResult)
  /\ \A r \in Requests : WF_vars(cancelApproval(r))
  /\ \A h \in Hosts : WF_vars(HostStep(h))

-----------------------------------------------------------------------------
TypeOK ==
  /\ nativePort \in 0..MaxHosts /\ started \in 0..MaxHosts /\ nativePort <= started
  /\ cachedInfo \in Cards \cup {None} /\ fetched \in Cards \cup {None}
  /\ st \in [Requests -> {"new", "asked", "open", "shown", "busy", "answered", "refused"}]
  /\ shown \in [Requests -> Cards \cup {None}]
  /\ reads \in 0..MaxReads
  /\ toHost \in [Hosts -> Seq(Frames)] /\ toExt \in Seq(Answers)
  /\ dead \subseteq Hosts /\ INFO \in [Hosts -> Cards \cup {None}]
  /\ JOBS \in [Hosts -> SUBSET Spends] /\ busy \in [Hosts -> SUBSET Spends]
  /\ serving \in [Hosts -> Tasks]
  /\ child \in [Spends -> {"none", "waiting", "signing", "sent", "done", "badpin", "failed", "dead"}]
  /\ inserted \in Cards \cup {None}
  /\ accepted \subseteq Requests /\ presented \subseteq Signs \X Cards
  /\ signed \in [Signs -> Nat] /\ paid \subseteq Spends

\* A PIN typed into a popup reaches only the card that popup displays,
\* whatever was read, reset or exchanged since.
PinToShownCard == \A p \in presented : p[2] = shown[p[1]]

\* What a card signs was accepted in a popup first, and one acceptance signs
\* once; a page is told of a signature only when there is one.
SignedAsShown ==
  /\ \A r \in Signs : /\ signed[r] <= 1
                      /\ signed[r] = 1 => r \in accepted
                      /\ st[r] = "answered" => signed[r] = 1
  /\ paid \subseteq accepted
  /\ \A r \in Spends : st[r] = "answered" => r \in paid

\* A child signs only while a host waits for it, to kill it in time, unless
\* that host itself died.
SigningAttended ==
  \A r \in Spends : child[r] \in {"signing", "sent"} =>
    \E h \in Hosts : r \in JOBS[h] /\ (h \in dead \/ serving[h] = Waiting(r))

\* No job is left over: as long as its host is connected, the approval it
\* was built for can still end it, is about to open, or has sent its cancel.
JobOwned ==
  \A h \in Hosts \ dead, r \in Spends : (r \in JOBS[h] /\ nativePort = h) =>
    \/ r \in approvals
    \/ \E i \in 1..Len(toExt) : toExt[i].m = "preview" /\ toExt[i].r = r
    \/ \E i \in 1..Len(toHost[h]) : toHost[h][i].m = "cancel" /\ r \in toHost[h][i].of

\* docs/chrome-extension.md:229, "closing, rejecting, 120-second expiry or
\* native disconnect cancels; a late card result after cancellation is
\* discarded and cannot trigger broadcast".
CancelStops == [][\A r \in Spends : st[r] = "refused" => (r \in paid' => r \in paid)]_vars

\* extension/test/bitcoin.test.js:115, "every retry rides the same previewed
\* digest": while the popup of a spend takes a PIN there is a job to sign.
RetryHasJob == \A r \in Spends : st[r] = "shown" => \E h \in Hosts : h = nativePort /\ r \in JOBS[h]

=============================================================================
