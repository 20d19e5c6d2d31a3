-------------------------- MODULE WalletHostProofs --------------------------
(***************************************************************************)
(* What holds of the browser wallet for any requests, cards, hosts and     *)
(* reads.                                                                  *)
(***************************************************************************)
EXTENDS WalletHost, TLAPS

\* An open session is with the card in the reader.
Open == \A h \in Hosts : serving[h].m = "session" /\ serving[h].live =>
                           inserted = serving[h].card

\* The popup of a signature shows a card.
ShownCard == \A r \in Signs : st[r] # "new" => shown[r] \in Cards

\* The elements of a queue.
El(s) == {s[i] : i \in 1..Len(s)}

\* A hash to sign is on its way to the card its popup shows, a session for it
\* is with that card, and its PIN reached a card only when there is a popup.
Addressed ==
  /\ \A h \in Hosts : \A f \in El(toHost[h]) :
       f.m = "sign" => f.card = shown[f.r] /\ st[f.r] # "new"
  /\ \A h \in Hosts : serving[h].m = "session" =>
       serving[h].card = shown[serving[h].r] /\ st[serving[h].r] # "new"
  /\ \A p \in presented : st[p[1]] # "new"

PinInv == TypeOK /\ Open /\ ShownCard /\ Addressed /\ PinToShownCard

-----------------------------------------------------------------------------
(* Frames, answers and queues.                                             *)

\* What may be sent, and what it carries.
LEMMA FrameFacts ==
  /\ Info \in Frames
  /\ \A r \in Spends : Preview(r) \in Frames /\ Partial(r) \in Frames
  /\ \A r \in Signs, c \in Cards : Sign(r, c) \in Frames
  /\ \A S \in SUBSET Spends : Cancelled(S) \in Frames
  BY DEF Frames

LEMMA FrameParts ==
  ASSUME NEW f \in Frames
  PROVE  /\ f.m \in {"preview", "partial"} => f.r \in Spends
         /\ f.m = "sign" => f.r \in Signs /\ f.card \in Cards
         /\ f.m = "cancel" => f.of \in SUBSET Spends
<1>1. CASE f = Info
  BY <1>1 DEF Info
<1>2. CASE \E r \in Spends : f = Preview(r) \/ f = Partial(r)
  BY <1>2 DEF Preview, Partial
<1>3. CASE \E r \in Signs, c \in Cards : f = Sign(r, c)
  BY <1>3 DEF Sign
<1>4. CASE \E S \in SUBSET Spends : f = Cancelled(S)
  BY <1>4 DEF Cancelled
<1> QED
  BY <1>1, <1>2, <1>3, <1>4 DEF Frames

\* What may come back.
LEMMA AnswerFacts ==
  /\ \A c \in Cards : Identity(c) \in Answers
  /\ \A r \in Spends, c \in Cards \cup {None} : Built(r, c) \in Answers
  /\ \A r \in Requests, x \in {"ok", "wrong", "error"} : Result(r, x) \in Answers
  BY DEF Answers

LEMMA AnswerParts ==
  ASSUME NEW a \in Answers
  PROVE  /\ a.m = "info" => a.card \in Cards
         /\ a.m = "preview" => a.r \in Spends /\ a.card \in Cards \cup {None}
         /\ a.m = "result" => a.r \in Requests /\ a.res \in {"ok", "wrong", "error"}
<1>1. CASE \E c \in Cards : a = Identity(c)
  BY <1>1 DEF Identity
<1>2. CASE \E r \in Spends, c \in Cards \cup {None} : a = Built(r, c)
  BY <1>2 DEF Built
<1>3. CASE \E r \in Requests, x \in {"ok", "wrong", "error"} : a = Result(r, x)
  BY <1>3 DEF Result
<1> QED
  BY <1>1, <1>2, <1>3 DEF Answers

\* What a host may be in the middle of.
LEMMA TaskFacts ==
  /\ Idle \in Tasks /\ Idle.m = "idle"
  /\ \A r \in Signs, c \in Cards, l \in BOOLEAN : Session(r, c, l) \in Tasks
  /\ \A r \in Spends : Waiting(r) \in Tasks
<1>1. Idle \in Tasks
  BY DEF Tasks
<1>2. Idle.m = "idle"
  BY DEF Idle
<1>3. \A r \in Signs, c \in Cards, l \in BOOLEAN : Session(r, c, l) \in Tasks
  BY DEF Tasks
<1>4. \A r \in Spends : Waiting(r) \in Tasks
  BY DEF Tasks
<1> QED
  BY <1>1, <1>2, <1>3, <1>4

LEMMA TaskParts ==
  ASSUME NEW t \in Tasks
  PROVE  /\ t.m = "session" =>
              t.r \in Signs /\ t.card \in Cards /\ t.live \in BOOLEAN
         /\ t.m = "waiting" => t.r \in Spends /\ t = Waiting(t.r)
<1>1. CASE t = Idle
  BY <1>1 DEF Idle
<1>2. CASE \E r \in Signs, c \in Cards, l \in BOOLEAN : t = Session(r, c, l)
  BY <1>2 DEF Session
<1>3. CASE \E r \in Spends : t = Waiting(r)
  BY <1>3 DEF Waiting
<1> QED
  BY <1>1, <1>2, <1>3 DEF Tasks

LEMMA QueueFacts ==
  ASSUME NEW S, NEW s \in Seq(S)
  PROVE  /\ \A e \in S : Append(s, e) \in Seq(S)
         /\ s # <<>> => Head(s) \in S /\ Tail(s) \in Seq(S)
         /\ <<>> \in Seq(S)
         /\ \A e \in S : <<e>> \in Seq(S)
  OBVIOUS

\* nativeCall puts a frame into the queue of a host that exists.
LEMMA CallType ==
  ASSUME TypeOK, NEW f \in Frames, nativeCall(f)
  PROVE  /\ nativePort' \in 0..MaxHosts /\ started' \in 0..MaxHosts
         /\ nativePort' <= started'
         /\ toHost' \in [Hosts -> Seq(Frames)]
<1>1. PICK p \in Hosts :
        /\ \/ nativePort # 0 /\ p = nativePort /\ UNCHANGED started
           \/ nativePort = 0 /\ p = started + 1 /\ started' = p
        /\ nativePort' = p
        /\ toHost' = [toHost EXCEPT ![p] = Append(@, f)]
  BY DEF nativeCall
<1>2. Append(toHost[p], f) \in Seq(Frames)
  BY QueueFacts DEF TypeOK
<1>3. toHost' \in [Hosts -> Seq(Frames)]
  BY <1>1, <1>2 DEF TypeOK
<1>4. /\ nativePort' \in 0..MaxHosts /\ started' \in 0..MaxHosts
      /\ nativePort' <= started'
  BY <1>1, BoundAssumption DEF TypeOK, Hosts
<1> QED
  BY <1>3, <1>4

\* So does the cleanup of a refused approval.
LEMMA RefuseType ==
  ASSUME TypeOK, NEW r \in Requests, Refuse(r)
  PROVE  /\ nativePort' \in 0..MaxHosts /\ started' \in 0..MaxHosts
         /\ nativePort' <= started'
         /\ toHost' \in [Hosts -> Seq(Frames)]
         /\ st' = [st EXCEPT ![r] = "refused"]
<1>1. CASE r \in Spends /\ nativeCall(Cancelled({r}))
  BY <1>1, CallType, FrameFacts DEF Refuse
<1>2. CASE UNCHANGED <<nativePort, started, toHost>>
  BY <1>2 DEF TypeOK, Refuse
<1> QED
  BY <1>1, <1>2 DEF Refuse

\* Taking a frame leaves a queue.
LEMMA TakeType ==
  ASSUME TypeOK, NEW h \in Hosts, NEW k, Takes(h, k)
  PROVE  /\ toHost' \in [Hosts -> Seq(Frames)]
         /\ Head(toHost[h]) \in Frames /\ Head(toHost[h]).m = k
<1>1. Head(toHost[h]) \in Frames /\ Tail(toHost[h]) \in Seq(Frames)
  BY QueueFacts DEF TypeOK, Takes
<1> QED
  BY <1>1 DEF TypeOK, Takes

\* Answering leaves a queue, or ends the host.
LEMMA AnswerType ==
  ASSUME TypeOK, NEW h \in Hosts, NEW a \in Answers, Answer(h, a) \/ Acknowledge(h)
  PROVE  toExt' \in Seq(Answers) /\ dead' \subseteq Hosts
<1>1. Append(toExt, a) \in Seq(Answers)
  BY QueueFacts DEF TypeOK
<1> QED
  BY <1>1 DEF TypeOK, Answer, Acknowledge

\* An answer taken leaves a queue.
LEMMA IncomingType ==
  ASSUME TypeOK, NEW k, Incoming(k)
  PROVE  /\ toExt' \in Seq(Answers)
         /\ Head(toExt) \in Answers /\ Head(toExt).m = k
  BY QueueFacts DEF TypeOK, Incoming

-----------------------------------------------------------------------------
(* Types.                                                                  *)

LEMMA TypeInit == Init => TypeOK
<1> SUFFICES ASSUME Init PROVE TypeOK
  OBVIOUS
<1>1. <<>> \in Seq(Frames) /\ <<>> \in Seq(Answers)
  OBVIOUS
<1> QED
  BY <1>1, TaskFacts, BoundAssumption DEF Init, TypeOK, Requests

\* The service worker.
LEMMA TypeWorker ==
  ASSUME TypeOK, ShownCard,
         cardInfo \/ cacheInfo \/ onInfo \/ onPreview
           \/ (\E r \in Signs : requestSignature(r))
           \/ (\E r \in Spends : bitcoinSpend(r))
           \/ (\E r \in Requests : displayed(r) \/ approve(r) \/ cancelApproval(r))
           \/ onResult \/ onDisconnect
  PROVE  TypeOK'
<1> USE DEF pipes, host, history, worker
<1>1. CASE cardInfo
  <2>1. nativeCall(Info)
    BY <1>1 DEF cardInfo
  <2> QED
    BY <1>1, <2>1, CallType, FrameFacts, BoundAssumption DEF cardInfo, TypeOK
<1>2. CASE cacheInfo
  BY <1>2 DEF cacheInfo, TypeOK
<1>3. CASE onInfo
  BY <1>3, IncomingType, AnswerParts DEF onInfo, TypeOK
<1>4. CASE onPreview
  <2>1. /\ toExt' \in Seq(Answers)
        /\ Head(toExt).r \in Spends /\ Head(toExt).card \in Cards \cup {None}
    BY <1>4, IncomingType, AnswerParts DEF onPreview
  <2> QED
    BY <1>4, <2>1 DEF onPreview, TypeOK, Requests
<1>5. ASSUME NEW r \in Signs, requestSignature(r) PROVE TypeOK'
  BY <1>5 DEF requestSignature, TypeOK, Requests
<1>6. ASSUME NEW r \in Spends, bitcoinSpend(r) PROVE TypeOK'
  <2>1. /\ nativePort' \in 0..MaxHosts /\ started' \in 0..MaxHosts
        /\ nativePort' <= started'
        /\ toHost' \in [Hosts -> Seq(Frames)]
    BY <1>6, CallType, FrameFacts DEF bitcoinSpend, unreachable, TypeOK
  <2>2. st' \in [Requests -> {"new", "asked", "open", "shown", "busy", "answered", "refused"}]
    BY <1>6 DEF bitcoinSpend, TypeOK
  <2> QED
    BY <1>6, <2>1, <2>2 DEF bitcoinSpend, TypeOK
<1>7. ASSUME NEW r \in Requests, displayed(r) PROVE TypeOK'
  BY <1>7 DEF displayed, TypeOK
<1>8. ASSUME NEW r \in Requests, approve(r) PROVE TypeOK'
  <2>0. UNCHANGED <<cachedInfo, fetched, shown, reads, toExt, dead, INFO, JOBS, busy,
                    serving, child, inserted, presented, signed, paid>>
          /\ accepted' = accepted \cup {r}
    BY <1>8 DEF approve
  <2>1. CASE r \in Spends /\ bitcoinSign(r)
    BY <2>0, <2>1, CallType, FrameFacts DEF bitcoinSign, TypeOK
  <2>2. CASE r \in Signs /\ signHashOnCard(r)
    <3>1. CASE nativeCall(Sign(r, shown[r])) /\ st' = [st EXCEPT ![r] = "busy"]
               /\ shown[r] \in Cards
      BY <2>0, <2>2, <3>1, CallType, FrameFacts DEF TypeOK
    <3>2. CASE st' = [st EXCEPT ![r] = "refused"] /\ UNCHANGED <<nativePort, started, toHost>>
      BY <2>0, <3>2 DEF TypeOK
    <3>3. shown[r] \in Cards
      BY <1>8, <2>2 DEF approve, ShownCard
    <3> QED
      BY <2>2, <3>1, <3>2, <3>3 DEF signHashOnCard
  <2> QED
    BY <1>8, <2>1, <2>2 DEF approve
<1>9. ASSUME NEW r \in Requests, cancelApproval(r) PROVE TypeOK'
  BY <1>9, RefuseType DEF cancelApproval, TypeOK
<1>10. CASE onResult
  <2>1. toExt' \in Seq(Answers) /\ Head(toExt).r \in Requests
    BY <1>10, IncomingType, AnswerParts DEF onResult
  <2>2. UNCHANGED <<cachedInfo, fetched, shown, reads, dead, INFO, JOBS, busy, serving,
                    child, inserted, accepted, presented, signed, paid>>
    BY <1>10 DEF onResult
  <2>3. CASE UNCHANGED <<nativePort, started, toHost>>
    <3>1. st' \in [Requests -> {"new", "asked", "open", "shown", "busy", "answered", "refused"}]
      BY <1>10, <2>1 DEF onResult, Refuse, TypeOK
    <3> QED
      BY <2>1, <2>2, <2>3, <3>1 DEF TypeOK
  <2>4. CASE Refuse(Head(toExt).r)
    BY <2>1, <2>2, <2>4, RefuseType DEF TypeOK
  <2> QED
    BY <1>10, <2>3, <2>4 DEF onResult
<1>11. CASE onDisconnect
  <2>1. UNCHANGED <<fetched, shown, reads, INFO, JOBS, busy, serving, child, inserted,
                    accepted, presented, signed, paid>>
          /\ cachedInfo' = None /\ toExt' = <<>>
    BY <1>11 DEF onDisconnect
  <2>2. dead' \subseteq Hosts
    <3>1. nativePort \in Hosts
      BY <1>11, BoundAssumption DEF onDisconnect, TypeOK, Hosts
    <3>2. dead' = dead \cup {nativePort} \/ dead' = dead
      BY <1>11 DEF onDisconnect
    <3> QED
      BY <3>1, <3>2 DEF TypeOK
  <2>3. st' \in [Requests -> {"new", "asked", "open", "shown", "busy", "answered", "refused"}]
    BY <1>11 DEF onDisconnect, TypeOK
  <2>4. <<>> \in Seq(Answers)
    OBVIOUS
  <2>5. CASE nativePort' = 0 /\ UNCHANGED <<started, toHost>>
    BY <2>1, <2>2, <2>3, <2>4, <2>5, BoundAssumption DEF TypeOK
  <2>6. CASE /\ started < MaxHosts
             /\ started' = started + 1 /\ nativePort' = started'
             /\ toHost' = [toHost EXCEPT ![started'] = <<Cancelled(approvals \cap Spends)>>]
    <3>1. <<Cancelled(approvals \cap Spends)>> \in Seq(Frames)
      BY FrameFacts, QueueFacts
    <3>2. toHost' \in [Hosts -> Seq(Frames)]
      BY <2>6, <3>1 DEF TypeOK
    <3>3. started' \in 0..MaxHosts /\ nativePort' \in 0..MaxHosts /\ nativePort' <= started'
      BY <2>6, BoundAssumption DEF TypeOK
    <3> QED
      BY <2>1, <2>2, <2>3, <2>4, <3>2, <3>3 DEF TypeOK
  <2> QED
    BY <1>11, <2>5, <2>6 DEF onDisconnect
<1> QED
  BY <1>1, <1>2, <1>3, <1>4, <1>5, <1>6, <1>7, <1>8, <1>9, <1>10, <1>11

\* The host, the child and the reader.
LEMMA TypeHost ==
  ASSUME TypeOK, Open, NEW h \in Hosts, HostStep(h)
  PROVE  TypeOK'
<1> USE DEF pipes, host, history, worker
<1>1. CASE do_info(h)
  <2>1. toHost' \in [Hosts -> Seq(Frames)]
    BY <1>1, TakeType DEF do_info
  <2>2. CASE inserted # None /\ INFO' = [INFO EXCEPT ![h] = inserted] /\ Answer(h, Identity(inserted))
    <3>1. toExt' \in Seq(Answers) /\ dead' \subseteq Hosts
      BY <2>2, AnswerType, AnswerFacts DEF TypeOK
    <3> QED
      BY <1>1, <2>1, <2>2, <3>1 DEF do_info, TypeOK
  <2>3. CASE INFO' = [INFO EXCEPT ![h] = None] /\ Acknowledge(h)
    BY <1>1, <2>1, <2>3 DEF do_info, Acknowledge, TypeOK
  <2> QED
    BY <1>1, <2>2, <2>3 DEF do_info
<1>2. CASE handle_preview(h)
  <2> DEFINE r == Head(toHost[h]).r
  <2>1. toHost' \in [Hosts -> Seq(Frames)] /\ r \in Spends
    BY <1>2, TakeType, FrameParts DEF handle_preview
  <2>2. UNCHANGED <<nativePort, started, cachedInfo, fetched, st, shown, reads, INFO, busy,
                    serving, inserted, accepted, presented, signed, paid>>
    BY <1>2 DEF handle_preview
  <2>3. /\ JOBS' \in [Hosts -> SUBSET Spends]
        /\ child' \in [Spends -> {"none", "waiting", "signing", "sent", "done", "badpin",
                                  "failed", "dead"}]
    <3>1. CASE UNCHANGED <<JOBS, child>>
      BY <3>1 DEF TypeOK
    <3>2. CASE \E old \in SUBSET Spends :
                 \/ /\ JOBS' = [JOBS EXCEPT ![h] = (@ \ old) \cup {r}]
                    /\ child' = [Kill(old) EXCEPT ![r] = "waiting"]
                 \/ /\ JOBS' = [JOBS EXCEPT ![h] = @ \ old]
                    /\ child' = Kill(old)
      <4> HIDE DEF r
      <4>0. \A old \in SUBSET Spends : (JOBS[h] \ old) \cup {r} \in SUBSET Spends
        BY <2>1 DEF TypeOK
      <4>1. JOBS' \in [Hosts -> SUBSET Spends]
        <5>1. \E jobs \in SUBSET Spends : JOBS' = [JOBS EXCEPT ![h] = jobs]
          <6>1. PICK old \in SUBSET Spends :
                  \/ JOBS' = [JOBS EXCEPT ![h] = (@ \ old) \cup {r}]
                  \/ JOBS' = [JOBS EXCEPT ![h] = @ \ old]
            BY <3>2
          <6>2. JOBS[h] \ old \in SUBSET Spends
            BY DEF TypeOK
          <6> QED
            BY <4>0, <6>1, <6>2
        <5> QED
          BY <5>1 DEF TypeOK
      <4>2. child' \in [Spends -> {"none", "waiting", "signing", "sent", "done", "badpin",
                                  "failed", "dead"}]
        BY <2>1, <3>2 DEF Kill, TypeOK
      <4> QED
        BY <4>1, <4>2
    <3>3. Expired(h) \subseteq Spends
      BY DEF Expired, TypeOK
    <3> QED
      BY <1>2, <3>1, <3>2, <3>3 DEF handle_preview
  <2>4. \E c \in Cards \cup {None} : Answer(h, Built(r, c))
    BY <1>2 DEF handle_preview, TypeOK
  <2>5. toExt' \in Seq(Answers) /\ dead' \subseteq Hosts
    BY <2>1, <2>4, AnswerType, AnswerFacts
  <2> QED
    BY <2>1, <2>2, <2>3, <2>5 DEF TypeOK
<1>3. CASE handle_cancel(h)
  <2>1. toHost' \in [Hosts -> Seq(Frames)]
    BY <1>3, TakeType DEF handle_cancel
  <2>2. /\ JOBS' \in [Hosts -> SUBSET Spends] /\ busy' \in [Hosts -> SUBSET Spends]
        /\ child' \in [Spends -> {"none", "waiting", "signing", "sent", "done", "badpin",
                                  "failed", "dead"}]
    BY <1>3 DEF handle_cancel, Kill, TypeOK
  <2>3. toExt' \in Seq(Answers) /\ dead' \subseteq Hosts
    BY <1>3 DEF handle_cancel, Acknowledge, TypeOK
  <2> QED
    BY <1>3, <2>1, <2>2, <2>3 DEF handle_cancel, TypeOK
<1>4. CASE open_session(h)
  <2> DEFINE r == Head(toHost[h]).r
  <2>1. toHost' \in [Hosts -> Seq(Frames)] /\ r \in Signs /\ Head(toHost[h]).card \in Cards
    BY <1>4, TakeType, FrameParts DEF open_session
  <2>2. UNCHANGED <<nativePort, started, cachedInfo, fetched, st, shown, reads, JOBS, busy,
                    child, inserted, accepted, presented, signed, paid>>
    BY <1>4 DEF open_session
  <2>3. INFO' \in [Hosts -> Cards \cup {None}]
    BY <1>4 DEF open_session, TypeOK
  <2>4. CASE serving' = [serving EXCEPT ![h] = Session(r, inserted, TRUE)]
             /\ inserted \in Cards /\ UNCHANGED <<toExt, dead>>
    <3>1. Session(r, inserted, TRUE) \in Tasks
      BY <2>1, <2>4, TaskFacts
    <3> QED
      BY <2>1, <2>2, <2>3, <2>4, <3>1 DEF TypeOK
  <2>5. CASE Answer(h, Result(r, "error")) /\ UNCHANGED serving
    <3>1. toExt' \in Seq(Answers) /\ dead' \subseteq Hosts
      BY <2>1, <2>5, AnswerType, AnswerFacts DEF Requests
    <3> QED
      BY <2>1, <2>2, <2>3, <2>5, <3>1 DEF TypeOK
  <2> QED
    BY <1>4, <2>1, <2>4, <2>5 DEF open_session
<1>5. CASE verify_pin_and_sign(h)
  <2> DEFINE r == serving[h].r
  <2>1. r \in Signs
    BY <1>5, TaskParts DEF verify_pin_and_sign, TypeOK
  <2>2. serving' \in [Hosts -> Tasks] /\ signed' \in [Signs -> Nat]
    BY <1>5, <2>1, TaskFacts DEF verify_pin_and_sign, TypeOK
  <2>3. \E x \in {"ok", "wrong", "error"} : Answer(h, Result(r, x))
    BY <1>5 DEF verify_pin_and_sign
  <2>4. toExt' \in Seq(Answers) /\ dead' \subseteq Hosts
    BY <2>1, <2>3, AnswerType, AnswerFacts DEF Requests
  <2>5. presented' \subseteq Signs \X Cards
    <3>1. serving[h].live => inserted \in Cards
      BY <1>5, TaskParts DEF verify_pin_and_sign, TypeOK, Open
    <3>2. presented' = presented \/ (serving[h].live /\ presented' = presented \cup {<<r, inserted>>})
      BY <1>5 DEF verify_pin_and_sign
    <3> QED
      BY <2>1, <3>1, <3>2 DEF TypeOK
  <2> QED
    BY <1>5, <2>2, <2>4, <2>5 DEF verify_pin_and_sign, TypeOK
<1>6. CASE handle_sign_partial(h)
  <2> DEFINE r == Head(toHost[h]).r
  <2>1. toHost' \in [Hosts -> Seq(Frames)] /\ r \in Spends
    BY <1>6, TakeType, FrameParts DEF handle_sign_partial
  <2>2. UNCHANGED <<nativePort, started, cachedInfo, fetched, st, shown, reads, INFO, JOBS,
                    inserted, accepted, presented, signed, paid>>
    BY <1>6 DEF handle_sign_partial
  <2>3. /\ busy' \in [Hosts -> SUBSET Spends]
        /\ child' \in [Spends -> {"none", "waiting", "signing", "sent", "done", "badpin",
                                  "failed", "dead"}]
    <3>1. busy' = busy \/ busy' = [busy EXCEPT ![h] = @ \cup {r}]
      BY <1>6 DEF handle_sign_partial
    <3>2. child' = child \/ child' = [child EXCEPT ![r] = "signing"]
      BY <1>6 DEF handle_sign_partial
    <3> HIDE DEF r
    <3>0. busy[h] \cup {r} \in SUBSET Spends
      BY <2>1 DEF TypeOK
    <3>3. busy' \in [Hosts -> SUBSET Spends]
      BY <3>0, <3>1 DEF TypeOK
    <3>4. child' \in [Spends -> {"none", "waiting", "signing", "sent", "done", "badpin",
                                "failed", "dead"}]
      BY <2>1, <3>2 DEF TypeOK
    <3> QED
      BY <3>3, <3>4
  <2>4. CASE Answer(h, Result(r, "error")) /\ UNCHANGED serving
    <3>1. toExt' \in Seq(Answers) /\ dead' \subseteq Hosts
      BY <2>1, <2>4, AnswerType, AnswerFacts DEF Requests
    <3> QED
      BY <2>1, <2>2, <2>3, <2>4, <3>1 DEF TypeOK
  <2>5. CASE serving' = [serving EXCEPT ![h] = Waiting(r)] /\ UNCHANGED <<toExt, dead>>
    <3>1. Waiting(r) \in Tasks
      BY <2>1, TaskFacts
    <3> QED
      BY <2>1, <2>2, <2>3, <2>5, <3>1 DEF TypeOK
  <2> QED
    BY <1>6, <2>4, <2>5 DEF handle_sign_partial
<1>7. CASE sign_partial_returns(h)
  <2> DEFINE r == serving[h].r
  <2>1. r \in Spends
    BY <1>7, TaskParts DEF sign_partial_returns, TypeOK
  <2>2. /\ JOBS' \in [Hosts -> SUBSET Spends] /\ busy' \in [Hosts -> SUBSET Spends]
        /\ child' \in [Spends -> {"none", "waiting", "signing", "sent", "done", "badpin",
                                  "failed", "dead"}]
    BY <1>7 DEF sign_partial_returns, Kill, TypeOK
  <2>3. serving' \in [Hosts -> Tasks]
    BY <1>7, TaskFacts DEF sign_partial_returns, TypeOK
  <2>4. \E x \in {"ok", "wrong", "error"} : Answer(h, Result(r, x))
    BY <1>7 DEF sign_partial_returns
  <2>5. toExt' \in Seq(Answers) /\ dead' \subseteq Hosts
    BY <2>1, <2>4, AnswerType, AnswerFacts DEF Requests
  <2> QED
    BY <1>7, <2>2, <2>3, <2>5 DEF sign_partial_returns, TypeOK
<1>8. CASE serve_ends(h)
  BY <1>8 DEF serve_ends, TypeOK
<1> QED
  BY <1>1, <1>2, <1>3, <1>4, <1>5, <1>6, <1>7, <1>8 DEF HostStep

LEMMA TypeAround ==
  ASSUME TypeOK, (\E r \in Spends : send(r) \/ emit(r) \/ dies(r)) \/ MoveCard
  PROVE  TypeOK'
<1> USE DEF pipes, host, history, worker
<1>1. ASSUME NEW r \in Spends, send(r) PROVE TypeOK'
  BY <1>1 DEF send, TypeOK
<1>2. ASSUME NEW r \in Spends, emit(r) PROVE TypeOK'
  BY <1>2 DEF emit, TypeOK
<1>3. ASSUME NEW r \in Spends, dies(r) PROVE TypeOK'
  BY <1>3 DEF dies, TypeOK
<1>4. CASE MoveCard
  <2>1. \A h \in Hosts : serving[h].m = "session" =>
          Session(serving[h].r, serving[h].card, FALSE) \in Tasks
    BY TaskFacts, TaskParts DEF TypeOK
  <2>2. serving' \in [Hosts -> Tasks]
    BY <1>4, <2>1 DEF MoveCard, TypeOK
  <2> QED
    BY <1>4, <2>2 DEF MoveCard, TypeOK
<1> QED
  BY <1>1, <1>2, <1>3, <1>4

-----------------------------------------------------------------------------
(* The PIN of a popup and the card it displays.                            *)

LEMMA ElFacts ==
  ASSUME NEW S, NEW s \in Seq(S)
  PROVE  /\ El(s) \subseteq S
         /\ \A e \in S : El(Append(s, e)) = El(s) \cup {e}
         /\ s # <<>> => El(Tail(s)) \subseteq El(s) /\ Head(s) \in El(s)
<1>1. El(s) \subseteq S
  BY DEF El
<1>2. ASSUME NEW e \in S PROVE El(Append(s, e)) = El(s) \cup {e}
  <2>1. /\ Len(Append(s, e)) = Len(s) + 1 /\ Len(s) \in Nat
        /\ \A i \in 1..Len(s) : Append(s, e)[i] = s[i]
        /\ Append(s, e)[Len(s) + 1] = e
    OBVIOUS
  <2>2. 1..(Len(s) + 1) = 1..Len(s) \cup {Len(s) + 1}
    BY <2>1
  <2> QED
    BY <2>1, <2>2 DEF El
<1>3. s # <<>> => El(Tail(s)) \subseteq El(s) /\ Head(s) \in El(s)
  BY DEF El
<1> QED
  BY <1>1, <1>2, <1>3

\* A call adds one frame to what the hosts have to read.
LEMMA CallAdds ==
  ASSUME TypeOK, NEW f \in Frames, nativeCall(f)
  PROVE  \A h \in Hosts : El(toHost'[h]) \subseteq El(toHost[h]) \cup {f}
<1>1. PICK p \in Hosts : toHost' = [toHost EXCEPT ![p] = Append(@, f)]
  BY DEF nativeCall
<1>2. El(Append(toHost[p], f)) = El(toHost[p]) \cup {f}
  BY ElFacts DEF TypeOK
<1> QED
  BY <1>1, <1>2 DEF TypeOK

\* Taking a frame adds none.
LEMMA TakeAdds ==
  ASSUME TypeOK, NEW h \in Hosts, NEW k, Takes(h, k)
  PROVE  /\ \A g \in Hosts : El(toHost'[g]) \subseteq El(toHost[g])
         /\ Head(toHost[h]) \in El(toHost[h])
<1>1. El(Tail(toHost[h])) \subseteq El(toHost[h]) /\ Head(toHost[h]) \in El(toHost[h])
  BY ElFacts DEF TypeOK, Takes
<1> QED
  BY <1>1 DEF TypeOK, Takes

\* A request that left "new" never returns, and the card of its popup stays.
Steady == \A r \in Signs : st[r] # "new" => st'[r] # "new" /\ shown'[r] = shown[r]

\* Every frame a step adds that asks for a signature names the card shown.
Posts == \A h \in Hosts : \A f \in El(toHost'[h]) :
           f \in El(toHost[h]) \/ (f.m = "sign" => f.card = shown'[f.r] /\ st'[f.r] # "new")

\* A step of these two kinds that touches neither a session nor a PIN keeps
\* the addresses right.
LEMMA SteadyKeeps ==
  ASSUME PinInv, Steady, Posts, UNCHANGED <<serving, presented>>
  PROVE  Addressed' /\ PinToShownCard'
<1>1. \A h \in Hosts : \A f \in El(toHost'[h]) :
        f.m = "sign" => f.card = shown'[f.r] /\ st'[f.r] # "new"
  <2> SUFFICES ASSUME NEW h \in Hosts, NEW f \in El(toHost'[h]), f.m = "sign",
                      f \in El(toHost[h])
               PROVE  f.card = shown'[f.r] /\ st'[f.r] # "new"
    BY DEF Posts
  <2>1. f \in Frames
    BY ElFacts DEF PinInv, TypeOK
  <2>2. f.r \in Signs
    BY <2>1, FrameParts
  <2> QED
    BY <2>2 DEF PinInv, Addressed, Steady
<1>2. \A h \in Hosts : serving[h].m = "session" => serving[h].r \in Signs
  BY TaskParts DEF PinInv, TypeOK
<1>3. \A p \in presented : p[1] \in Signs
  BY DEF PinInv, TypeOK
<1>4. \A h \in Hosts : serving'[h].m = "session" =>
        serving'[h].card = shown'[serving'[h].r] /\ st'[serving'[h].r] # "new"
  BY <1>2 DEF PinInv, Addressed, Steady
<1>5. \A p \in presented' : st'[p[1]] # "new"
  BY <1>3 DEF PinInv, Addressed, Steady
<1>6. \A p \in presented' : p[2] = shown'[p[1]]
  BY <1>3 DEF PinInv, Addressed, Steady, PinToShownCard
<1>7. Addressed'
  BY <1>1, <1>4, <1>5 DEF Addressed
<1> QED
  BY <1>6, <1>7 DEF PinToShownCard

LEMMA PinWorker ==
  ASSUME PinInv,
         cardInfo \/ cacheInfo \/ onInfo \/ onPreview
           \/ (\E r \in Signs : requestSignature(r))
           \/ (\E r \in Spends : bitcoinSpend(r))
           \/ (\E r \in Requests : displayed(r) \/ approve(r) \/ cancelApproval(r))
           \/ onResult \/ onDisconnect
  PROVE  PinInv'
<1> USE DEF pipes, host, history, worker
<1>0. TypeOK'
  BY TypeWorker DEF PinInv
<1>1. UNCHANGED <<serving, presented, inserted>>
  BY DEF cardInfo, cacheInfo, onInfo, onPreview, requestSignature, bitcoinSpend, displayed,
         approve, cancelApproval, onResult, onDisconnect
<1> DEFINE Good == Steady /\ Posts /\ ShownCard'
\* What the cleanup of an approval sends.
<1>2. ASSUME NEW S \in SUBSET Spends, nativeCall(Cancelled(S)) PROVE Posts
  <2>1. \A h \in Hosts : El(toHost'[h]) \subseteq El(toHost[h]) \cup {Cancelled(S)}
    BY <1>2, CallAdds, FrameFacts DEF PinInv
  <2> QED
    BY <2>1 DEF Posts, Cancelled
<1>3. UNCHANGED toHost => Posts
  BY DEF Posts
<1>4. ASSUME cardInfo PROVE Good
  <2>1. \A h \in Hosts : El(toHost'[h]) \subseteq El(toHost[h]) \cup {Info}
    BY <1>4, CallAdds, FrameFacts DEF PinInv, cardInfo
  <2>2. Posts
    BY <2>1 DEF Posts, Info
  <2> QED
    BY <1>4, <2>2 DEF cardInfo, Steady, PinInv, ShownCard
<1>5. ASSUME cacheInfo \/ onInfo PROVE Good
  BY <1>5, <1>3 DEF cacheInfo, onInfo, Steady, PinInv, ShownCard
<1>6. ASSUME onPreview PROVE Good
  <2>1. Head(toExt).r \in Spends
    BY <1>6, IncomingType, AnswerParts DEF onPreview, PinInv
  <2>2. \A r \in Signs : st'[r] = st[r] /\ shown'[r] = shown[r]
    BY <1>6, <2>1, RequestsAssumption DEF onPreview, PinInv, TypeOK, Requests
  <2> QED
    BY <1>6, <1>3, <2>2 DEF onPreview, Steady, PinInv, ShownCard
<1>7. ASSUME NEW r \in Signs, requestSignature(r) PROVE Good
  <2>1. \A q \in Signs : st[q] # "new" => st'[q] = st[q] /\ shown'[q] = shown[q]
    BY <1>7 DEF requestSignature, PinInv, TypeOK, Requests
  <2>2. shown'[r] \in Cards
    BY <1>7 DEF requestSignature, PinInv, TypeOK, Requests
  <2>3. \A q \in Signs \ {r} : st'[q] = st[q]
    BY <1>7 DEF requestSignature, PinInv, TypeOK, Requests
  <2> QED
    BY <1>7, <1>3, <2>1, <2>2, <2>3 DEF requestSignature, Steady, PinInv, ShownCard
<1>8. ASSUME NEW r \in Spends, bitcoinSpend(r) PROVE Good
  <2>1. \A q \in Signs : st'[q] = st[q]
    BY <1>8, RequestsAssumption DEF bitcoinSpend, PinInv, TypeOK, Requests
  <2>2. nativeCall(Preview(r)) \/ UNCHANGED toHost
    BY <1>8 DEF bitcoinSpend, unreachable
  <2>3. ASSUME nativeCall(Preview(r)) PROVE Posts
    <3>1. \A h \in Hosts : El(toHost'[h]) \subseteq El(toHost[h]) \cup {Preview(r)}
      BY <2>3, CallAdds, FrameFacts DEF PinInv
    <3> QED
      BY <3>1 DEF Posts, Preview
  <2> QED
    BY <1>8, <1>3, <2>1, <2>2, <2>3 DEF bitcoinSpend, Steady, PinInv, ShownCard
<1>9. ASSUME NEW r \in Requests, displayed(r) PROVE Good
  <2>1. \A q \in Requests : (st[q] = "new" <=> st'[q] = "new") /\ shown'[q] = shown[q]
    BY <1>9 DEF displayed, PinInv, TypeOK
  <2> QED
    BY <1>9, <1>3, <2>1 DEF displayed, Steady, PinInv, ShownCard, Requests
<1>10. ASSUME NEW r \in Requests, approve(r) PROVE Good
  <2>1. \A q \in Requests : (st[q] = "new" <=> st'[q] = "new") /\ shown'[q] = shown[q]
    BY <1>10 DEF approve, bitcoinSign, signHashOnCard, PinInv, TypeOK
  <2>2. CASE r \in Spends /\ bitcoinSign(r)
    <3>1. \A h \in Hosts : El(toHost'[h]) \subseteq El(toHost[h]) \cup {Partial(r)}
      BY <2>2, CallAdds, FrameFacts DEF PinInv, bitcoinSign
    <3>2. Posts
      BY <3>1 DEF Posts, Partial
    <3> QED
      BY <2>1, <3>2 DEF Steady, PinInv, ShownCard, Requests
  <2>3. CASE r \in Signs /\ nativeCall(Sign(r, shown[r]))
    <3>1. shown[r] \in Cards /\ st[r] # "new"
      BY <1>10, <2>3 DEF approve, PinInv, ShownCard
    <3>2. \A h \in Hosts : El(toHost'[h]) \subseteq El(toHost[h]) \cup {Sign(r, shown[r])}
      BY <2>3, <3>1, CallAdds, FrameFacts DEF PinInv
    <3>3. /\ Sign(r, shown[r]).card = shown'[Sign(r, shown[r]).r]
          /\ st'[Sign(r, shown[r]).r] # "new"
      BY <2>1, <2>3, <3>1 DEF Sign, Requests
    <3>4. Posts
      BY <3>2, <3>3 DEF Posts
    <3> QED
      BY <2>1, <3>4 DEF Steady, PinInv, ShownCard, Requests
  <2>4. CASE UNCHANGED toHost
    BY <1>3, <2>1, <2>4 DEF Steady, PinInv, ShownCard, Requests
  <2> QED
    BY <1>10, <2>2, <2>3, <2>4 DEF approve, signHashOnCard
<1>11. ASSUME NEW r \in Requests, Refuse(r), st[r] # "new", UNCHANGED shown PROVE Good
  <2>1. \A q \in Requests : (st[q] = "new" <=> st'[q] = "new") /\ shown'[q] = shown[q]
    BY <1>11 DEF Refuse, PinInv, TypeOK
  <2>2. Posts
    BY <1>2, <1>3, <1>11 DEF Refuse
  <2> QED
    BY <2>1, <2>2 DEF Steady, PinInv, ShownCard, Requests
<1>12. ASSUME NEW r \in Requests, cancelApproval(r) PROVE Good
  BY <1>11, <1>12 DEF cancelApproval, approvals
<1>13. ASSUME onResult PROVE Good
  <2> DEFINE r == Head(toExt).r
  <2>1. r \in Requests
    BY <1>13, IncomingType, AnswerParts DEF onResult, PinInv
  <2>2. CASE st[r] = "busy" /\ Refuse(r)
    BY <1>11, <1>13, <2>1, <2>2 DEF onResult
  <2>3. CASE \/ UNCHANGED <<st, toHost>>
             \/ /\ st[r] = "busy" /\ UNCHANGED toHost
                /\ st' = [st EXCEPT ![r] = IF Head(toExt).res = "ok" THEN "answered" ELSE "shown"]
    <3> HIDE DEF r
    <3>1. \A q \in Requests : st[q] = "new" <=> st'[q] = "new"
      BY <2>1, <2>3 DEF PinInv, TypeOK
    <3>2. UNCHANGED shown
      BY <1>13 DEF onResult
    <3> QED
      BY <1>3, <2>3, <3>1, <3>2 DEF Steady, PinInv, ShownCard, Requests
  <2>4. \/ UNCHANGED <<st, toHost>>
        \/ /\ st[r] = "busy" /\ UNCHANGED toHost
           /\ st' = [st EXCEPT ![r] = IF Head(toExt).res = "ok" THEN "answered" ELSE "shown"]
        \/ st[r] = "busy" /\ Refuse(r)
    BY <1>13 DEF onResult
  <2> QED
    BY <2>2, <2>3, <2>4
<1>14. ASSUME onDisconnect PROVE Good
  <2>1. \A q \in Requests : (st[q] = "new" <=> st'[q] = "new") /\ shown'[q] = shown[q]
    BY <1>14 DEF onDisconnect, approvals, PinInv, TypeOK
  <2>2. CASE UNCHANGED toHost
    BY <1>3, <2>1, <2>2 DEF Steady, PinInv, ShownCard, Requests
  <2>3. CASE toHost' = [toHost EXCEPT ![started'] = <<Cancelled(approvals \cap Spends)>>]
    <3>1. \A h \in Hosts : \A f \in El(toHost'[h]) :
            f \in El(toHost[h]) \/ f = Cancelled(approvals \cap Spends)
      <4>1. \A f \in El(<<Cancelled(approvals \cap Spends)>>) : f = Cancelled(approvals \cap Spends)
        BY DEF El
      <4>2. \A h \in Hosts : toHost'[h] = toHost[h]
                               \/ toHost'[h] = <<Cancelled(approvals \cap Spends)>>
        BY <2>3 DEF PinInv, TypeOK
      <4> QED
        BY <4>1, <4>2
    <3>2. Posts
      BY <3>1 DEF Posts, Cancelled
    <3> QED
      BY <2>1, <3>2 DEF Steady, PinInv, ShownCard, Requests
  <2> QED
    BY <1>14, <2>2, <2>3 DEF onDisconnect
<1>15. Good
  BY <1>4, <1>5, <1>6, <1>7, <1>8, <1>9, <1>10, <1>12, <1>13, <1>14
<1>16. Addressed' /\ PinToShownCard'
  BY <1>1, <1>15, SteadyKeeps
<1>17. Open'
  BY <1>1 DEF Open, PinInv
<1> QED
  BY <1>0, <1>15, <1>16, <1>17 DEF PinInv

\* A host step reads the worker's state and adds no frame.
LEMMA HostPosts ==
  ASSUME TypeOK, NEW h \in Hosts, HostStep(h)
  PROVE  UNCHANGED worker /\ UNCHANGED inserted /\ Posts
<1>1. UNCHANGED worker /\ UNCHANGED inserted
  BY DEF HostStep, do_info, handle_preview, handle_cancel, open_session, verify_pin_and_sign,
         handle_sign_partial, sign_partial_returns, serve_ends
<1>2. (\E k \in {"info", "preview", "cancel", "sign", "partial"} : Takes(h, k))
        \/ UNCHANGED toHost
  BY DEF HostStep, do_info, handle_preview, handle_cancel, open_session, verify_pin_and_sign,
         handle_sign_partial, sign_partial_returns, serve_ends, pipes
<1>3. \A g \in Hosts : El(toHost'[g]) \subseteq El(toHost[g])
  BY <1>2, TakeAdds
<1> QED
  BY <1>1, <1>3 DEF Posts

LEMMA PinHost ==
  ASSUME PinInv, NEW h \in Hosts, HostStep(h)
  PROVE  PinInv'
<1>0. TypeOK' /\ UNCHANGED worker /\ UNCHANGED inserted /\ Posts
  BY TypeHost, HostPosts DEF PinInv
<1>1. ShownCard' /\ Steady
  BY <1>0 DEF worker, ShownCard, Steady, PinInv
<1>2. CASE UNCHANGED <<serving, presented>>
  <2>1. Open'
    BY <1>0, <1>2 DEF Open, PinInv
  <2> QED
    BY <1>0, <1>1, <1>2, <2>1, SteadyKeeps DEF PinInv
\* The session of h changes, or a PIN is presented in it.
<1>3. ASSUME \A g \in Hosts \ {h} : serving'[g] = serving[g],
             serving'[h].m = "session" =>
               /\ serving'[h].card = shown[serving'[h].r] /\ st[serving'[h].r] # "new"
               /\ serving'[h].live => inserted = serving'[h].card,
             \A p \in presented' : p \in presented
                                     \/ (st[p[1]] # "new" /\ p[2] = shown[p[1]])
      PROVE  PinInv'
  <2>1. Open'
    BY <1>0, <1>3 DEF Open, PinInv
  <2>2. \A g \in Hosts : \A f \in El(toHost'[g]) :
          f.m = "sign" => f.card = shown'[f.r] /\ st'[f.r] # "new"
    BY <1>0 DEF Posts, worker, PinInv, Addressed
  <2>3. \A g \in Hosts : serving'[g].m = "session" =>
          serving'[g].card = shown'[serving'[g].r] /\ st'[serving'[g].r] # "new"
    BY <1>0, <1>3 DEF worker, PinInv, Addressed
  <2>4. \A p \in presented' : st'[p[1]] # "new" /\ p[2] = shown'[p[1]]
    BY <1>0, <1>3 DEF worker, PinInv, Addressed, PinToShownCard
  <2>5. Addressed'
    BY <2>2, <2>3, <2>4 DEF Addressed
  <2> QED
    BY <1>0, <1>1, <2>1, <2>4, <2>5 DEF PinInv, PinToShownCard
<1>4. CASE open_session(h)
  <2> DEFINE r == Head(toHost[h]).r
             c == Head(toHost[h]).card
  <2>1. UNCHANGED presented
    BY <1>4 DEF open_session, history
  <2>2. c = shown[r] /\ st[r] # "new"
    BY <1>4, TakeAdds DEF open_session, Takes, PinInv, Addressed
  <2>3. UNCHANGED serving \/ (serving' = [serving EXCEPT ![h] = Session(r, inserted, TRUE)]
                                /\ inserted = c)
    BY <1>4 DEF open_session
  <2>4. CASE UNCHANGED serving
    BY <1>2, <2>1, <2>4
  <2>5. CASE serving' = [serving EXCEPT ![h] = Session(r, inserted, TRUE)] /\ inserted = c
    <3>1. serving'[h] = Session(r, c, TRUE) /\ \A g \in Hosts \ {h} : serving'[g] = serving[g]
      BY <2>5 DEF PinInv, TypeOK
    <3>2. /\ serving'[h].r = r /\ serving'[h].card = c
      BY <3>1 DEF Session
    <3> QED
      BY <1>3, <2>1, <2>2, <2>5, <3>1, <3>2
  <2> QED
    BY <2>3, <2>4, <2>5
<1>5. CASE verify_pin_and_sign(h)
  <2> DEFINE r == serving[h].r
  <2>1. /\ serving'[h] = Idle /\ \A g \in Hosts \ {h} : serving'[g] = serving[g]
    BY <1>5 DEF verify_pin_and_sign, PinInv, TypeOK
  <2>2. presented' = presented \/ (serving[h].live /\ presented' = presented \cup {<<r, inserted>>})
    BY <1>5 DEF verify_pin_and_sign
  <2>3. /\ serving[h].live => inserted = shown[r]
        /\ st[r] # "new"
    BY <1>5 DEF verify_pin_and_sign, PinInv, Open, Addressed
  <2>4. serving'[h].m # "session"
    BY <2>1, TaskFacts
  <2>5. \A p \in presented' : p \in presented \/ (st[p[1]] # "new" /\ p[2] = shown[p[1]])
    BY <2>2, <2>3
  <2> QED
    BY <1>3, <2>1, <2>4, <2>5
<1>6. CASE handle_sign_partial(h) \/ sign_partial_returns(h)
  <2>1. UNCHANGED presented /\ \A g \in Hosts \ {h} : serving'[g] = serving[g]
    BY <1>6 DEF handle_sign_partial, sign_partial_returns, history, PinInv, TypeOK
  <2>2. serving'[h] \in {serving[h], Idle, Waiting(Head(toHost[h]).r)}
    BY <1>6 DEF handle_sign_partial, sign_partial_returns, PinInv, TypeOK
  <2>3. Idle.m # "session" /\ Waiting(Head(toHost[h]).r).m # "session"
    BY TaskFacts DEF Waiting
  <2>4. CASE serving'[h] = serving[h]
    <3>1. serving' = serving
      BY <1>0, <2>1, <2>4 DEF PinInv, TypeOK
    <3> QED
      BY <1>2, <2>1, <3>1
  <2>5. CASE serving'[h].m # "session"
    BY <1>3, <2>1, <2>5
  <2> QED
    BY <2>2, <2>3, <2>4, <2>5
<1>7. CASE do_info(h) \/ handle_preview(h) \/ handle_cancel(h) \/ serve_ends(h)
  <2>1. UNCHANGED <<serving, presented>>
    BY <1>7 DEF do_info, handle_preview, handle_cancel, serve_ends, history
  <2> QED
    BY <1>2, <2>1
<1> QED
  BY <1>4, <1>5, <1>6, <1>7 DEF HostStep

LEMMA PinAround ==
  ASSUME PinInv, (\E r \in Spends : send(r) \/ emit(r) \/ dies(r)) \/ MoveCard
  PROVE  PinInv'
<1>0. TypeOK' /\ UNCHANGED worker /\ UNCHANGED toHost /\ UNCHANGED presented
  BY TypeAround DEF PinInv, send, emit, dies, MoveCard, pipes, history
<1>1. ShownCard' /\ Steady /\ Posts
  BY <1>0 DEF worker, ShownCard, Steady, Posts, PinInv
<1>2. CASE \E r \in Spends : send(r) \/ emit(r) \/ dies(r)
  <2>1. UNCHANGED serving /\ UNCHANGED inserted
    BY <1>2 DEF send, emit, dies, host
  <2>2. Open'
    BY <2>1 DEF Open, PinInv
  <2> QED
    BY <1>0, <1>1, <2>1, <2>2, SteadyKeeps DEF PinInv
<1>3. CASE MoveCard
  <2>1. \A g \in Hosts :
          \/ serving'[g] = serving[g] /\ serving[g].m # "session"
          \/ serving[g].m = "session" /\ serving'[g] = Session(serving[g].r, serving[g].card, FALSE)
    BY <1>3 DEF MoveCard
  <2>2. \A g \in Hosts : serving'[g].m = "session" =>
          /\ serving[g].m = "session" /\ serving'[g].r = serving[g].r
          /\ serving'[g].card = serving[g].card /\ serving'[g].live = FALSE
    <3> SUFFICES ASSUME NEW g \in Hosts, serving'[g].m = "session"
                 PROVE  /\ serving[g].m = "session" /\ serving'[g].r = serving[g].r
                        /\ serving'[g].card = serving[g].card /\ serving'[g].live = FALSE
      OBVIOUS
    <3>1. /\ serving[g].m = "session"
          /\ serving'[g] = Session(serving[g].r, serving[g].card, FALSE)
      BY <2>1
    <3> QED
      BY <3>1 DEF Session
  <2>3. Open'
    BY <2>2 DEF Open
  <2>4. Addressed' /\ PinToShownCard'
    BY <1>0, <2>2 DEF worker, Addressed, PinToShownCard, PinInv
  <2> QED
    BY <1>0, <1>1, <2>3, <2>4 DEF PinInv
<1> QED
  BY <1>2, <1>3

LEMMA PinInit == Init => PinInv
<1> SUFFICES ASSUME Init PROVE PinInv
  OBVIOUS
<1>1. TypeOK
  BY TypeInit
<1>2. El(<<>>) = {}
  BY DEF El
<1>3. Open /\ ShownCard
  BY TaskFacts DEF Init, Open, ShownCard, Requests
<1>4. Addressed /\ PinToShownCard
  BY <1>2, TaskFacts DEF Init, Addressed, PinToShownCard
<1> QED
  BY <1>1, <1>3, <1>4 DEF PinInv

LEMMA PinNext == PinInv /\ [Next]_vars => PinInv'
<1> SUFFICES ASSUME PinInv, [Next]_vars PROVE PinInv'
  OBVIOUS
<1>1. CASE cardInfo \/ cacheInfo \/ onInfo \/ onPreview
             \/ (\E r \in Signs : requestSignature(r))
             \/ (\E r \in Spends : bitcoinSpend(r))
             \/ (\E r \in Requests : displayed(r) \/ approve(r) \/ cancelApproval(r))
             \/ onResult \/ onDisconnect
  BY <1>1, PinWorker
<1>2. ASSUME NEW h \in Hosts, HostStep(h) PROVE PinInv'
  BY <1>2, PinHost
<1>3. CASE (\E r \in Spends : send(r) \/ emit(r) \/ dies(r)) \/ MoveCard
  BY <1>3, PinAround
<1>4. CASE UNCHANGED vars
  BY <1>4 DEF vars, worker, pipes, host, history, PinInv, TypeOK, Open, ShownCard, Addressed,
              PinToShownCard
<1> QED
  BY <1>1, <1>2, <1>3, <1>4 DEF Next

LEMMA PinInvariant == Spec => []PinInv
  BY PinInit, PinNext, PTL DEF Spec

\* Whatever the number of hosts, cards and requests, the state of background.js
\* and nuri_card_host.py keeps its shape, and a PIN goes to a card that exists.
THEOREM TypeCorrect == Spec => []TypeOK
<1>1. PinInv => TypeOK
  BY DEF PinInv
<1> QED
  BY <1>1, PinInvariant, PTL

\* A PIN typed into a popup reaches only the card the popup displays: between
\* the info the popup was opened on and VERIFY PIN, _check_identity of the host
\* compares the card in the reader with the one of the request.
THEOREM PinSafe == Spec => []PinToShownCard
<1>1. PinInv => PinToShownCard
  BY DEF PinInv
<1> QED
  BY <1>1, PinInvariant, PTL

-----------------------------------------------------------------------------
(* A child that signs and the host that waits for it.                      *)

LEMMA AttendedInit == Init => SigningAttended
  BY DEF Init, SigningAttended

\* Only a host step, or the child itself, changes what the property is about.
LEMMA AttendedAround ==
  ASSUME TypeOK, SigningAttended,
         \/ UNCHANGED <<JOBS, serving, child>> /\ dead \subseteq dead'
         \/ MoveCard
         \/ \E r \in Spends : send(r) \/ emit(r) \/ dies(r)
  PROVE  SigningAttended'
<1>1. CASE UNCHANGED <<JOBS, serving, child>> /\ dead \subseteq dead'
  BY <1>1 DEF SigningAttended
<1>2. CASE MoveCard
  <2>1. UNCHANGED <<JOBS, dead, child>>
    BY <1>2 DEF MoveCard
  <2>2. \A h \in Hosts, r \in Spends : serving[h] = Waiting(r) => serving'[h] = Waiting(r)
    <3>1. \A r \in Spends : Waiting(r).m # "session"
      BY DEF Waiting
    <3> QED
      BY <1>2, <3>1 DEF MoveCard
  <2> QED
    BY <2>1, <2>2 DEF SigningAttended
<1>3. ASSUME NEW r \in Spends, send(r) \/ emit(r) \/ dies(r) PROVE SigningAttended'
  <2>1. UNCHANGED <<JOBS, serving, dead>>
    BY <1>3 DEF send, emit, dies, host
  <2>2. \A q \in Spends : child'[q] \in {"signing", "sent"} => child[q] \in {"signing", "sent"}
    BY <1>3 DEF send, emit, dies, TypeOK
  <2> QED
    BY <2>1, <2>2 DEF SigningAttended
<1> QED
  BY <1>1, <1>2, <1>3

\* Each child that signs after a step of h did so before, with its job and the
\* wait of its host kept, or h started it in this step.
LEMMA AttendedHost ==
  ASSUME TypeOK, SigningAttended, NEW h \in Hosts, HostStep(h)
  PROVE  SigningAttended'
<1>1. dead \subseteq dead'
  BY DEF HostStep, do_info, handle_preview, handle_cancel, open_session, verify_pin_and_sign,
         handle_sign_partial, sign_partial_returns, serve_ends, Answer, Acknowledge, pipes
<1>2. h \notin dead
  BY DEF HostStep, do_info, handle_preview, handle_cancel, open_session, verify_pin_and_sign,
         handle_sign_partial, sign_partial_returns, serve_ends, Takes
<1>3. ASSUME \A q \in Spends : child'[q] \in {"signing", "sent"} =>
               \/ /\ child[q] = child'[q]
                  /\ \A g \in Hosts : q \in JOBS[g] => q \in JOBS'[g]
                  /\ \A g \in Hosts : serving[g] = Waiting(q) => serving'[g] = Waiting(q)
               \/ q \in JOBS'[h] /\ serving'[h] = Waiting(q)
      PROVE  SigningAttended'
  <2> SUFFICES ASSUME NEW q \in Spends, child'[q] \in {"signing", "sent"}
               PROVE  \E g \in Hosts : q \in JOBS'[g] /\ (g \in dead' \/ serving'[g] = Waiting(q))
    BY DEF SigningAttended
  <2>1. CASE q \in JOBS'[h] /\ serving'[h] = Waiting(q)
    BY <2>1
  <2>2. CASE /\ child[q] = child'[q]
             /\ \A g \in Hosts : q \in JOBS[g] => q \in JOBS'[g]
             /\ \A g \in Hosts : serving[g] = Waiting(q) => serving'[g] = Waiting(q)
    <3>1. PICK g \in Hosts : q \in JOBS[g] /\ (g \in dead \/ serving[g] = Waiting(q))
      BY <2>2 DEF SigningAttended
    <3> QED
      BY <1>1, <2>2, <3>1
  <2> QED
    BY <1>3, <2>1, <2>2
<1>4. CASE do_info(h) \/ serve_ends(h)
  BY <1>1, <1>4 DEF do_info, serve_ends, SigningAttended
<1>5. CASE handle_preview(h)
  <2> DEFINE r == Head(toHost[h]).r
  <2>1. UNCHANGED serving /\ r \in Spends
    BY <1>5, TakeType, FrameParts DEF handle_preview
  <2>2. UNCHANGED <<JOBS, child>> \/ \E old \in SUBSET Spends :
          \/ /\ JOBS' = [JOBS EXCEPT ![h] = (@ \ old) \cup {r}]
             /\ child' = [Kill(old) EXCEPT ![r] = "waiting"]
          \/ JOBS' = [JOBS EXCEPT ![h] = @ \ old] /\ child' = Kill(old)
    <3>1. Expired(h) \subseteq Spends
      BY DEF Expired, TypeOK
    <3> QED
      BY <1>5, <3>1 DEF handle_preview
  <2> HIDE DEF r
  <2>3. CASE UNCHANGED <<JOBS, child>>
    BY <1>3, <2>1, <2>3
  <2>4. ASSUME NEW old \in SUBSET Spends,
               JOBS' = [JOBS EXCEPT ![h] = (@ \ old) \cup {r}],
               child' = [Kill(old) EXCEPT ![r] = "waiting"]
        PROVE  SigningAttended'
    <3>1. \A q \in Spends : child'[q] \in {"signing", "sent"} =>
            q # r /\ q \notin old /\ child'[q] = child[q]
      BY <2>1, <2>4 DEF Kill
    <3>2. \A q \in Spends \ old : \A g \in Hosts : q \in JOBS[g] => q \in JOBS'[g]
      BY <2>4 DEF TypeOK
    <3> QED
      BY <1>3, <2>1, <3>1, <3>2
  <2>5. ASSUME NEW old \in SUBSET Spends,
               JOBS' = [JOBS EXCEPT ![h] = @ \ old], child' = Kill(old)
        PROVE  SigningAttended'
    <3>1. \A q \in Spends : child'[q] \in {"signing", "sent"} =>
            q \notin old /\ child'[q] = child[q]
      BY <2>5 DEF Kill
    <3>2. \A q \in Spends \ old : \A g \in Hosts : q \in JOBS[g] => q \in JOBS'[g]
      BY <2>5 DEF TypeOK
    <3> QED
      BY <1>3, <2>1, <3>1, <3>2
  <2> QED
    BY <2>2, <2>3, <2>4, <2>5
<1>6. CASE handle_cancel(h)
  <2> DEFINE gone == Head(toHost[h]).of \cap JOBS[h]
  <2>1. /\ UNCHANGED serving /\ JOBS' = [JOBS EXCEPT ![h] = @ \ gone] /\ child' = Kill(gone)
    BY <1>6 DEF handle_cancel
  <2> HIDE DEF gone
  <2>2. \A q \in Spends : child'[q] \in {"signing", "sent"} => q \notin gone /\ child'[q] = child[q]
    BY <2>1 DEF Kill
  <2>3. \A q \in Spends \ gone : \A g \in Hosts : q \in JOBS[g] => q \in JOBS'[g]
    BY <2>1 DEF TypeOK
  <2> QED
    BY <1>3, <2>1, <2>2, <2>3
<1>7. CASE open_session(h) \/ verify_pin_and_sign(h)
  <2>1. UNCHANGED <<JOBS, child>> /\ \A g \in Hosts \ {h} : serving'[g] = serving[g]
    BY <1>7 DEF open_session, verify_pin_and_sign, TypeOK
  <2>2. serving[h].m \in {"idle", "session"}
    BY <1>7, TaskFacts DEF open_session, verify_pin_and_sign, Takes
  <2>3. \A q \in Spends : serving[h] # Waiting(q)
    BY <2>2 DEF Waiting
  <2> QED
    BY <1>3, <2>1, <2>3
<1>8. CASE handle_sign_partial(h)
  <2> DEFINE r == Head(toHost[h]).r
  <2>1. UNCHANGED JOBS /\ \A g \in Hosts \ {h} : serving'[g] = serving[g]
    BY <1>8 DEF handle_sign_partial, TypeOK
  <2>2. \A q \in Spends : serving[h] # Waiting(q)
    BY <1>8, TaskFacts DEF handle_sign_partial, Takes, Waiting
  <2>3. UNCHANGED child \/ /\ child' = [child EXCEPT ![r] = "signing"]
                           /\ serving' = [serving EXCEPT ![h] = Waiting(r)]
                           /\ r \in JOBS[h]
    BY <1>8 DEF handle_sign_partial
  <2> HIDE DEF r
  <2>4. CASE UNCHANGED child
    BY <1>3, <2>1, <2>2, <2>4
  <2>5. CASE /\ child' = [child EXCEPT ![r] = "signing"]
             /\ serving' = [serving EXCEPT ![h] = Waiting(r)] /\ r \in JOBS[h]
    <3>1. \A q \in Spends \ {r} : child'[q] = child[q]
      BY <2>5 DEF TypeOK
    <3>2. r \in JOBS'[h] /\ serving'[h] = Waiting(r)
      BY <2>1, <2>5 DEF TypeOK
    <3> QED
      BY <1>3, <2>1, <2>2, <3>1, <3>2
  <2> QED
    BY <2>3, <2>4, <2>5
<1>9. CASE sign_partial_returns(h)
  <2> DEFINE r == serving[h].r
  <2>1. /\ JOBS' = [JOBS EXCEPT ![h] = @ \ {r}] /\ child' = Kill({r})
        /\ serving' = [serving EXCEPT ![h] = Idle]
    BY <1>9 DEF sign_partial_returns
  <2>2. \A q \in Spends : serving[h] = Waiting(q) => q = r
    BY DEF Waiting
  <2> HIDE DEF r
  <2>3. \A q \in Spends : child'[q] \in {"signing", "sent"} => q # r /\ child'[q] = child[q]
    BY <2>1 DEF Kill
  <2>4. \A q \in Spends \ {r} : \A g \in Hosts : q \in JOBS[g] => q \in JOBS'[g]
    BY <2>1 DEF TypeOK
  <2>5. \A g \in Hosts \ {h} : serving'[g] = serving[g]
    BY <2>1 DEF TypeOK
  <2> QED
    BY <1>3, <2>2, <2>3, <2>4, <2>5
<1> QED
  BY <1>4, <1>5, <1>6, <1>7, <1>8, <1>9 DEF HostStep

\* A Bitcoin child signs only while handle_sign_partial waits for it, so its
\* timeout can still kill it, unless the host process itself died.
THEOREM Attended == Spec => []SigningAttended
<1>1. TypeOK /\ SigningAttended /\ [Next]_vars => SigningAttended'
  <2> SUFFICES ASSUME TypeOK, SigningAttended, [Next]_vars PROVE SigningAttended'
    OBVIOUS
  <2>1. CASE cardInfo \/ cacheInfo \/ onInfo \/ onPreview
               \/ (\E r \in Signs : requestSignature(r))
               \/ (\E r \in Spends : bitcoinSpend(r))
               \/ (\E r \in Requests : displayed(r) \/ approve(r) \/ cancelApproval(r))
               \/ onResult \/ onDisconnect \/ UNCHANGED vars
    <3>1. UNCHANGED <<JOBS, serving, child>> /\ dead \subseteq dead'
      BY <2>1 DEF cardInfo, cacheInfo, onInfo, onPreview, requestSignature, bitcoinSpend,
                  displayed, approve, cancelApproval, onResult, onDisconnect, vars, host
    <3> QED
      BY <3>1, AttendedAround
  <2>2. ASSUME NEW h \in Hosts, HostStep(h) PROVE SigningAttended'
    BY <2>2, AttendedHost
  <2>3. CASE MoveCard \/ \E r \in Spends : send(r) \/ emit(r) \/ dies(r)
    BY <2>3, AttendedAround
  <2> QED
    BY <2>1, <2>2, <2>3 DEF Next
<1> QED
  BY <1>1, AttendedInit, TypeCorrect, PTL DEF Spec

-----------------------------------------------------------------------------
(* One request in queues.                                                  *)

Of(e, k, r) == e.m = k /\ e.r = r
Has(s, k, r) == \E e \in El(s) : Of(e, k, r)
One(s, k, r) == \A i, j \in 1..Len(s) : Of(s[i], k, r) /\ Of(s[j], k, r) => i = j

LEMMA OneFacts ==
  ASSUME NEW S, NEW s \in Seq(S), NEW k, NEW r, One(s, k, r)
  PROVE  /\ \A e \in S : (Of(e, k, r) => ~Has(s, k, r)) => One(Append(s, e), k, r)
         /\ s # <<>> => One(Tail(s), k, r) /\ (Of(Head(s), k, r) => ~Has(Tail(s), k, r))
<1>1. ASSUME NEW e \in S, Of(e, k, r) => ~Has(s, k, r) PROVE One(Append(s, e), k, r)
  <2>1. /\ Len(Append(s, e)) = Len(s) + 1 /\ Len(s) \in Nat
        /\ \A i \in 1..Len(s) : Append(s, e)[i] = s[i]
        /\ Append(s, e)[Len(s) + 1] = e
    OBVIOUS
  <2>2. Of(e, k, r) => \A i \in 1..Len(s) : ~Of(s[i], k, r)
    BY <1>1 DEF Has, El
  <2> SUFFICES ASSUME NEW i \in 1..Len(s) + 1, NEW j \in 1..Len(s) + 1,
                      Of(Append(s, e)[i], k, r), Of(Append(s, e)[j], k, r)
               PROVE  i = j
    BY <2>1 DEF One
  <2>3. CASE i \in 1..Len(s) /\ j \in 1..Len(s)
    BY <2>1, <2>3 DEF One
  <2>4. CASE i = Len(s) + 1 \/ j = Len(s) + 1
    <3>1. Of(e, k, r)
      BY <2>1, <2>4
    <3> QED BY <2>1, <2>2, <2>4, <3>1
  <2> QED BY <2>1, <2>3, <2>4
<1>2. ASSUME s # <<>> PROVE One(Tail(s), k, r) /\ (Of(Head(s), k, r) => ~Has(Tail(s), k, r))
  <2>1. /\ Len(s) \in Nat \ {0} /\ Len(Tail(s)) = Len(s) - 1 /\ Head(s) = s[1]
        /\ \A i \in 1..Len(s) - 1 : Tail(s)[i] = s[i + 1] /\ i + 1 \in 1..Len(s) /\ i + 1 # 1
    BY <1>2
  <2>2. One(Tail(s), k, r)
    BY <2>1 DEF One
  <2>3. ASSUME Of(Head(s), k, r), NEW i \in 1..Len(s) - 1 PROVE ~Of(Tail(s)[i], k, r)
    <3>1. 1 \in 1..Len(s)
      BY <2>1
    <3> QED BY <2>1, <2>3, <3>1 DEF One
  <2> QED BY <2>1, <2>2, <2>3 DEF Has, El
<1> QED BY <1>1, <1>2

\* What is not the first element stays when that is taken.
LEMMA ElTail ==
  ASSUME NEW S, NEW s \in Seq(S), s # <<>>
  PROVE  El(s) = El(Tail(s)) \cup {Head(s)}
<1>1. /\ Len(s) \in Nat \ {0} /\ Len(Tail(s)) = Len(s) - 1 /\ Head(s) = s[1]
      /\ \A i \in 1..Len(s) - 1 : Tail(s)[i] = s[i + 1]
  OBVIOUS
<1>2. ASSUME NEW e \in El(s) PROVE e \in El(Tail(s)) \cup {Head(s)}
  <2>1. PICK i \in 1..Len(s) : e = s[i]
    BY DEF El
  <2>2. CASE i = 1
    BY <1>1, <2>1, <2>2
  <2>3. CASE i # 1
    <3>1. i - 1 \in 1..Len(s) - 1 /\ Tail(s)[i - 1] = s[(i - 1) + 1] /\ (i - 1) + 1 = i
      BY <1>1, <2>3
    <3> QED BY <1>1, <2>1, <3>1 DEF El
  <2> QED BY <2>2, <2>3
<1>3. El(Tail(s)) \cup {Head(s)} \subseteq El(s)
  BY ElFacts
<1> QED BY <1>2, <1>3

-----------------------------------------------------------------------------
(* Spends: what was accepted, what was paid.                                *)

SpendInv ==
  /\ \A r \in Spends : /\ child[r] = "signing" => r \in accepted
                       /\ child[r] \in {"sent", "done"} => r \in paid
                       /\ st[r] = "answered" => r \in paid
  /\ paid \subseteq accepted
  /\ \A h \in Hosts : \A f \in El(toHost[h]) : f.m = "partial" => f.r \in accepted
  /\ \A a \in El(toExt) : a.m = "result" /\ a.res = "ok" /\ a.r \in Spends => a.r \in paid

\* What a step may add to the queues.
LEMMA SpendKeeps ==
  ASSUME SpendInv, accepted \subseteq accepted', paid \subseteq paid', paid' \subseteq accepted',
         \A r \in Spends : /\ child'[r] = "signing" => r \in accepted'
                           /\ child'[r] \in {"sent", "done"} => r \in paid'
                           /\ st'[r] = "answered" => r \in paid',
         \A h \in Hosts : \A f \in El(toHost'[h]) :
           f \in El(toHost[h]) \/ (f.m = "partial" => f.r \in accepted'),
         \A a \in El(toExt') :
           a \in El(toExt) \/ (a.m = "result" /\ a.res = "ok" /\ a.r \in Spends => a.r \in paid')
  PROVE  SpendInv'
BY DEF SpendInv

\* An answer of a host.
LEMMA AnswerAdds ==
  ASSUME TypeOK, NEW h, NEW a \in Answers, Answer(h, a)
  PROVE  El(toExt') \subseteq El(toExt) \cup {a}
<1>1. El(Append(toExt, a)) = El(toExt) \cup {a}
  BY ElFacts DEF TypeOK
<1> QED BY <1>1 DEF Answer

\* An incoming message is taken off the queue.
LEMMA IncomingTakes ==
  ASSUME TypeOK, NEW k, Incoming(k)
  PROVE  El(toExt') \subseteq El(toExt) /\ Head(toExt) \in El(toExt) /\ Head(toExt).m = k
BY ElFacts DEF TypeOK, Incoming

LEMMA SpendWorker ==
  ASSUME TypeOK, SpendInv,
         cardInfo \/ cacheInfo \/ onInfo \/ onPreview
           \/ (\E r \in Signs : requestSignature(r))
           \/ (\E r \in Spends : bitcoinSpend(r))
           \/ (\E r \in Requests : displayed(r) \/ approve(r) \/ cancelApproval(r))
           \/ onResult \/ onDisconnect
  PROVE  SpendInv'
<1> USE DEF pipes, host, history, worker
<1>0. UNCHANGED <<paid, child>> /\ accepted \subseteq accepted'
  BY DEF cardInfo, cacheInfo, onInfo, onPreview, requestSignature, bitcoinSpend, displayed,
         approve, cancelApproval, onResult, onDisconnect
\* Frames a worker sends: only an acceptance sends a decision.
<1>1. \A h \in Hosts : \A f \in El(toHost'[h]) :
        f \in El(toHost[h]) \/ (f.m = "partial" => f.r \in accepted')
  <2>1. ASSUME NEW f \in Frames, nativeCall(f), f.m = "partial" => f.r \in accepted'
        PROVE  \A h \in Hosts : \A e \in El(toHost'[h]) :
                 e \in El(toHost[h]) \/ (e.m = "partial" => e.r \in accepted')
    BY <2>1, CallAdds
  <2>2. CASE UNCHANGED toHost
    BY <2>2
  <2>3. CASE cardInfo
    BY <2>1, <2>3, FrameFacts DEF cardInfo, Info
  <2>4. ASSUME NEW r \in Spends, bitcoinSpend(r), ~UNCHANGED toHost
        PROVE  \A h \in Hosts : \A e \in El(toHost'[h]) :
                 e \in El(toHost[h]) \/ (e.m = "partial" => e.r \in accepted')
    BY <2>1, <2>4, FrameFacts DEF bitcoinSpend, unreachable, Preview
  <2>5. ASSUME NEW r \in Requests, Refuse(r)
        PROVE  \A h \in Hosts : \A e \in El(toHost'[h]) :
                 e \in El(toHost[h]) \/ (e.m = "partial" => e.r \in accepted')
    <3>1. CASE r \in Spends /\ nativeCall(Cancelled({r}))
      BY <2>1, <3>1, FrameFacts DEF Cancelled
    <3> QED BY <2>2, <2>5, <3>1 DEF Refuse
  <2>6. ASSUME NEW r \in Requests, approve(r)
        PROVE  \A h \in Hosts : \A e \in El(toHost'[h]) :
                 e \in El(toHost[h]) \/ (e.m = "partial" => e.r \in accepted')
    <3>1. CASE r \in Spends /\ nativeCall(Partial(r))
      <4>1. Partial(r).m = "partial" /\ Partial(r).r = r /\ r \in accepted'
        BY <2>6 DEF Partial, approve
      <4> QED BY <2>1, <3>1, <4>1, FrameFacts
    <3>2. CASE r \in Signs /\ nativeCall(Sign(r, shown[r]))
      <4>1. Sign(r, shown[r]).m = "sign"
        BY DEF Sign
      <4>2. \A h \in Hosts : El(toHost'[h]) \subseteq El(toHost[h]) \cup {Sign(r, shown[r])}
        <5>1. PICK p \in Hosts : toHost' = [toHost EXCEPT ![p] = Append(@, Sign(r, shown[r]))]
          BY <3>2 DEF nativeCall
        <5>3. El(Append(toHost[p], Sign(r, shown[r]))) = El(toHost[p]) \cup {Sign(r, shown[r])}
          <6>1. toHost[p] \in Seq(Frames \cup {Sign(r, shown[r])})
            BY DEF TypeOK
          <6> QED BY <6>1, ElFacts
        <5> QED BY <5>1, <5>3 DEF TypeOK
      <4> QED BY <4>1, <4>2
    <3> QED BY <2>2, <2>6, <3>1, <3>2 DEF approve, bitcoinSign, signHashOnCard
  <2>7. CASE onDisconnect
    <3>1. CASE toHost' = [toHost EXCEPT ![started'] = <<Cancelled(approvals \cap Spends)>>]
      <4>1. \A f \in El(<<Cancelled(approvals \cap Spends)>>) : f.m # "partial"
        BY DEF El, Cancelled
      <4>2. \A h \in Hosts : toHost'[h] = toHost[h]
                               \/ toHost'[h] = <<Cancelled(approvals \cap Spends)>>
        BY <3>1 DEF TypeOK
      <4> QED BY <4>1, <4>2
    <3> QED BY <2>2, <2>7, <3>1 DEF onDisconnect
  <2>8. CASE onResult
    <3>1. Head(toExt).r \in Requests
      BY <2>8, IncomingType, AnswerParts DEF onResult
    <3> QED BY <2>2, <2>5, <2>8, <3>1 DEF onResult
  <2>9. CASE \E r \in Requests : cancelApproval(r)
    BY <2>5, <2>9 DEF cancelApproval
  <2>10. CASE \E r \in Spends : bitcoinSpend(r)
    BY <2>2, <2>4, <2>10
  <2>11. CASE \E r \in Requests : approve(r)
    BY <2>6, <2>11
  <2>12. CASE \/ cacheInfo \/ onInfo \/ onPreview \/ (\E r \in Signs : requestSignature(r))
              \/ (\E r \in Requests : displayed(r))
    BY <2>2, <2>12 DEF cacheInfo, onInfo, onPreview, requestSignature, displayed
  <2> QED BY <2>3, <2>7, <2>8, <2>9, <2>10, <2>11, <2>12
\* No answer is added.
<1>2. El(toExt') \subseteq El(toExt)
  <2>1. CASE UNCHANGED toExt
    BY <2>1
  <2>2. CASE onDisconnect
    BY <2>2 DEF onDisconnect, El
  <2>3. CASE onInfo \/ onPreview \/ onResult
    BY <2>3, IncomingTakes DEF onInfo, onPreview, onResult
  <2> QED BY <2>1, <2>2, <2>3 DEF cardInfo, cacheInfo, requestSignature, bitcoinSpend, displayed,
                                  approve, cancelApproval
\* Only an "ok" answers a request.
<1>3. ASSUME NEW r \in Spends, st'[r] = "answered" PROVE r \in paid
  <2>1. CASE st[r] = "answered"
    BY <2>1 DEF SpendInv
  <2>2. CASE onResult /\ st[r] # "answered"
    <3> DEFINE q == Head(toExt).r
    <3>1. q \in Requests /\ Head(toExt) \in El(toExt) /\ Head(toExt).m = "result"
      BY <2>2, IncomingTakes, IncomingType, AnswerParts DEF onResult
    <3>2. \/ st' = st \/ st' = [st EXCEPT ![q] = "refused"]
          \/ st' = [st EXCEPT ![q] = IF Head(toExt).res = "ok" THEN "answered" ELSE "shown"]
      BY <2>2 DEF onResult, Refuse
    <3> HIDE DEF q
    <3>3. q = r /\ Head(toExt).res = "ok"
      BY <1>3, <2>2, <3>1, <3>2 DEF TypeOK, Requests
    <3> QED BY <3>1, <3>3 DEF SpendInv, q
  <2>3. CASE ~onResult /\ st[r] # "answered"
    <3>1. CASE cardInfo \/ cacheInfo \/ onInfo
      BY <1>3, <2>3, <3>1 DEF cardInfo, cacheInfo, onInfo
    <3>2. CASE onPreview
      BY <1>3, <2>3, <3>2 DEF onPreview, TypeOK, Requests
    <3>3. CASE onDisconnect
      BY <1>3, <2>3, <3>3 DEF onDisconnect, Requests
    <3>4. ASSUME NEW q \in Requests, NEW x, x # "answered", st' = [st EXCEPT ![q] = x] PROVE FALSE
      BY <1>3, <2>3, <3>4 DEF TypeOK, Requests
    <3>5. CASE \E q \in Signs : requestSignature(q)
      BY <3>4, <3>5 DEF requestSignature, Requests
    <3>6. CASE \E q \in Spends : bitcoinSpend(q)
      BY <3>4, <3>6 DEF bitcoinSpend, Requests
    <3>7. CASE \E q \in Requests : displayed(q) \/ cancelApproval(q)
      BY <3>4, <3>7 DEF displayed, cancelApproval, Refuse
    <3>8. CASE \E q \in Requests : approve(q)
      BY <3>4, <3>8 DEF approve, signHashOnCard, bitcoinSign
    <3> QED BY <2>3, <3>1, <3>2, <3>3, <3>5, <3>6, <3>7, <3>8
  <2> QED BY <2>1, <2>2, <2>3
<1> QED BY <1>0, <1>1, <1>2, <1>3, SpendKeeps DEF SpendInv

LEMMA SpendHost ==
  ASSUME TypeOK, SpendInv, NEW h \in Hosts, HostStep(h)
  PROVE  SpendInv'
<1> USE DEF pipes, host, history, worker
<1>0. UNCHANGED <<st, accepted, paid>>
  BY DEF HostStep, do_info, handle_preview, handle_cancel, open_session, verify_pin_and_sign,
         handle_sign_partial, sign_partial_returns, serve_ends
<1>1. (\E k \in {"info", "preview", "cancel", "sign", "partial"} : Takes(h, k)) \/ UNCHANGED toHost
  BY DEF HostStep, do_info, handle_preview, handle_cancel, open_session, verify_pin_and_sign,
         handle_sign_partial, sign_partial_returns, serve_ends
<1>2. \A g \in Hosts : El(toHost'[g]) \subseteq El(toHost[g])
  BY <1>1, TakeAdds
\* What is left to show of each handler.
<1>3. ASSUME \A r \in Spends : /\ child'[r] = "signing" => child[r] = "signing" \/ r \in accepted
                               /\ child'[r] \in {"sent", "done"} => child[r] \in {"sent", "done"},
             \A a \in El(toExt') : a \in El(toExt)
               \/ (a.m = "result" /\ a.res = "ok" /\ a.r \in Spends => a.r \in paid)
      PROVE  SpendInv'
  BY <1>0, <1>2, <1>3, SpendKeeps DEF SpendInv
<1>4. \A S : \A r \in Spends : Kill(S)[r] \in {child[r], "dead"}
  BY DEF Kill
<1>5. CASE UNCHANGED <<child, toExt>>
  BY <1>3, <1>5
<1>6. ASSUME NEW a \in Answers, Answer(h, a) \/ UNCHANGED toExt,
             a.m = "result" /\ a.res = "ok" /\ a.r \in Spends => a.r \in paid
      PROVE  \A b \in El(toExt') : b \in El(toExt)
               \/ (b.m = "result" /\ b.res = "ok" /\ b.r \in Spends => b.r \in paid)
  BY <1>6, AnswerAdds
<1>7. CASE do_info(h)
  <2>1. CASE inserted # None /\ Answer(h, Identity(inserted))
    <3>1. Identity(inserted) \in Answers /\ Identity(inserted).m # "result"
      BY <2>1, AnswerFacts DEF Identity, TypeOK
    <3> QED BY <1>3, <1>6, <1>7, <2>1, <3>1 DEF do_info
  <2> QED BY <1>5, <1>7, <2>1 DEF do_info, Acknowledge
<1>8. CASE handle_preview(h)
  <2>1. Head(toHost[h]).r \in Spends
    BY <1>8, FrameParts, TakeType DEF handle_preview, Takes
  <2>2. \A c \in Cards \cup {None} : Built(Head(toHost[h]).r, c) \in Answers
                                     /\ Built(Head(toHost[h]).r, c).m # "result"
    BY <2>1, AnswerFacts DEF Built
  <2>3. \E c \in Cards \cup {None} : Answer(h, Built(Head(toHost[h]).r, c))
    BY <1>8 DEF handle_preview, TypeOK
  <2>4. \A r \in Spends : child'[r] \in {child[r], "dead", "waiting"}
    <3>1. \/ UNCHANGED child
          \/ \E old : child' = Kill(old) \/ child' = [Kill(old) EXCEPT ![Head(toHost[h]).r] = "waiting"]
      BY <1>8 DEF handle_preview
    <3> QED BY <1>4, <3>1 DEF Kill
  <2> QED BY <1>3, <1>6, <2>2, <2>3, <2>4
<1>9. CASE handle_cancel(h)
  BY <1>3, <1>4, <1>9 DEF handle_cancel, Acknowledge
<1>10. CASE open_session(h)
  <2>1. Head(toHost[h]).r \in Signs
    BY <1>10, FrameParts, TakeType DEF open_session, Takes
  <2>2. Result(Head(toHost[h]).r, "error") \in Answers /\ Result(Head(toHost[h]).r, "error").res # "ok"
    BY <2>1, AnswerFacts DEF Result, Requests
  <2> QED BY <1>3, <1>6, <1>10, <2>2 DEF open_session
<1>11. CASE verify_pin_and_sign(h)
  <2>1. serving[h].r \in Signs /\ serving[h].r \notin Spends
    BY <1>11, TaskParts, RequestsAssumption DEF verify_pin_and_sign, TypeOK
  <2>2. \A x \in {"ok", "wrong", "error"} :
          Result(serving[h].r, x) \in Answers /\ Result(serving[h].r, x).r = serving[h].r
    BY <2>1, AnswerFacts DEF Result, Requests
  <2>3. \E x \in {"ok", "wrong", "error"} : Answer(h, Result(serving[h].r, x))
    BY <1>11 DEF verify_pin_and_sign
  <2> QED BY <1>3, <1>6, <1>11, <2>1, <2>2, <2>3 DEF verify_pin_and_sign
<1>12. CASE handle_sign_partial(h)
  <2> DEFINE r == Head(toHost[h]).r
  <2>1. r \in Spends /\ r \in accepted
    BY <1>12, FrameParts, TakeType, TakeAdds DEF handle_sign_partial, Takes, SpendInv
  <2>2. Result(r, "error") \in Answers /\ Result(r, "error").res # "ok"
    BY <2>1, AnswerFacts DEF Result, Requests
  <2>3. Answer(h, Result(r, "error")) \/ UNCHANGED toExt
    BY <1>12 DEF handle_sign_partial
  <2>4. child' = child \/ child' = [child EXCEPT ![r] = "signing"]
    BY <1>12 DEF handle_sign_partial
  <2> HIDE DEF r
  <2>5. \A q \in Spends : child'[q] = child[q] \/ (q = r /\ child'[q] = "signing")
    BY <2>1, <2>4 DEF TypeOK
  <2> QED BY <1>3, <1>6, <2>1, <2>2, <2>3, <2>5
<1>13. CASE sign_partial_returns(h)
  <2> DEFINE r == serving[h].r
  <2>1. r \in Spends
    BY <1>13, TaskParts DEF sign_partial_returns, TypeOK
  <2>2. \A x \in {"ok", "wrong", "error"} :
          Result(r, x) \in Answers /\ Result(r, x).r = r /\ Result(r, x).res = x
    BY <2>1, AnswerFacts DEF Result, Requests
  <2>3. PICK x \in {"ok", "wrong", "error"} : Answer(h, Result(r, x)) /\ (x = "ok" => child[r] = "done")
    BY <1>13 DEF sign_partial_returns
  <2>4. x = "ok" => r \in paid
    BY <2>1, <2>3 DEF SpendInv
  <2>5. child' = Kill({r})
    BY <1>13 DEF sign_partial_returns
  <2> HIDE DEF r
  <2> QED BY <1>3, <1>4, <1>6, <2>2, <2>3, <2>4, <2>5
<1>14. CASE serve_ends(h)
  BY <1>5, <1>14 DEF serve_ends
<1> QED BY <1>7, <1>8, <1>9, <1>10, <1>11, <1>12, <1>13, <1>14 DEF HostStep

LEMMA SpendAround ==
  ASSUME TypeOK, SpendInv, (\E r \in Spends : send(r) \/ emit(r) \/ dies(r)) \/ MoveCard
  PROVE  SpendInv'
<1> USE DEF pipes, host, history, worker
<1>1. UNCHANGED <<st, accepted, toHost, toExt>>
  BY DEF send, emit, dies, MoveCard
<1>2. ASSUME NEW r \in Spends, send(r) PROVE SpendInv'
  <2>1. child[r] = "signing" /\ child' = [child EXCEPT ![r] = "sent"] /\ paid' = paid \cup {r}
    BY <1>2 DEF send
  <2>2. \A q \in Spends : child'[q] = child[q] \/ (q = r /\ child'[q] = "sent")
    BY <2>1 DEF TypeOK
  <2> QED BY <1>1, <2>1, <2>2, SpendKeeps DEF SpendInv
<1>3. ASSUME NEW r \in Spends, emit(r) \/ dies(r) PROVE SpendInv'
  <2>1. PICK x \in {"failed", "done", "badpin", "dead"} :
          child' = [child EXCEPT ![r] = x] /\ (x = "done" => child[r] = "sent") /\ UNCHANGED paid
    BY <1>3 DEF emit, dies
  <2>2. \A q \in Spends : child'[q] = child[q] \/ (q = r /\ child'[q] = x)
    BY <2>1 DEF TypeOK
  <2> QED BY <1>1, <2>1, <2>2, SpendKeeps DEF SpendInv
<1>4. CASE MoveCard
  BY <1>1, <1>4 DEF MoveCard, SpendInv
<1> QED BY <1>2, <1>3, <1>4

LEMMA SpendNext == TypeOK /\ SpendInv /\ [Next]_vars => SpendInv'
<1> SUFFICES ASSUME TypeOK, SpendInv, [Next]_vars PROVE SpendInv'
  OBVIOUS
<1>1. CASE UNCHANGED vars
  BY <1>1 DEF vars, worker, pipes, host, history, SpendInv
<1> QED BY <1>1, SpendWorker, SpendHost, SpendAround DEF Next

-----------------------------------------------------------------------------
(* Signatures: at any time a request is in at most one place, as a frame on *)
(* the way to a host, as the session of one, or as a result on its way back. *)

InSession(h, r) == serving[h].m = "session" /\ serving[h].r = r
Holds(h, r) == Has(toHost[h], "sign", r) \/ InSession(h, r)

Flow(r) ==
  /\ \A h \in Hosts : One(toHost[h], "sign", r) /\ ~(Has(toHost[h], "sign", r) /\ InSession(h, r))
  /\ \A g, h \in Hosts : Holds(g, r) /\ Holds(h, r) => g = h
  /\ \A h \in Hosts : Holds(h, r) => /\ signed[r] = 0 /\ r \in accepted
                                     /\ st[r] \in {"busy", "refused"} /\ ~Has(toExt, "result", r)
  /\ One(toExt, "result", r)
  /\ \A a \in El(toExt) : Of(a, "result", r) =>
       /\ st[r] \in {"busy", "refused"}
       /\ a.res = "ok" => signed[r] = 1
       /\ a.res = "wrong" => signed[r] = 0
  /\ st[r] \in {"new", "open", "shown"} => signed[r] = 0
  /\ st[r] = "answered" => signed[r] = 1
  /\ signed[r] \in {0, 1} /\ (signed[r] = 1 => r \in accepted)

SignInv == \A r \in Signs : Flow(r)

\* A step that adds neither a frame nor a result of r.
LEMMA FlowKeeps ==
  ASSUME NEW r \in Signs, Flow(r),
         \A h \in Hosts : /\ One(toHost'[h], "sign", r)
                          /\ Has(toHost'[h], "sign", r) => Has(toHost[h], "sign", r)
                          /\ InSession(h, r)' => InSession(h, r),
         One(toExt', "result", r), \A a \in El(toExt') : Of(a, "result", r) => a \in El(toExt),
         signed'[r] = signed[r], accepted \subseteq accepted',
         \/ st'[r] = st[r] \/ st'[r] = "refused"
         \/ st[r] \in {"new", "open"} /\ st'[r] \in {"open", "shown"}
  PROVE  Flow(r)'
<1>1. \A h \in Hosts : Holds(h, r)' => Holds(h, r)
  BY DEF Holds
<1>2. Has(toExt', "result", r) => Has(toExt, "result", r)
  BY DEF Has
<1>3. \A h \in Hosts : One(toHost'[h], "sign", r)
                       /\ ~(Has(toHost'[h], "sign", r) /\ InSession(h, r)')
  BY DEF Flow
<1>4. \A h \in Hosts : Holds(h, r)' => /\ signed'[r] = 0 /\ r \in accepted'
                                       /\ st'[r] \in {"busy", "refused"} /\ ~Has(toExt', "result", r)
  BY <1>1, <1>2 DEF Flow
<1>5. \A a \in El(toExt') : Of(a, "result", r) =>
        /\ st'[r] \in {"busy", "refused"}
        /\ a.res = "ok" => signed'[r] = 1
        /\ a.res = "wrong" => signed'[r] = 0
  BY DEF Flow
<1>6. \A g, h \in Hosts : Holds(g, r)' /\ Holds(h, r)' => g = h
  BY <1>1 DEF Flow
<1>7. /\ st'[r] \in {"new", "open", "shown"} => signed'[r] = 0
      /\ st'[r] = "answered" => signed'[r] = 1
      /\ signed'[r] \in {0, 1} /\ (signed'[r] = 1 => r \in accepted')
  BY DEF Flow
<1> QED BY <1>3, <1>4, <1>5, <1>6, <1>7 DEF Flow

\* A step after which no host holds r: what it leaves behind is a result at most.
LEMMA FlowEnds ==
  ASSUME NEW r \in Signs, \A h \in Hosts : ~Holds(h, r)',
         One(toExt', "result", r),
         \A a \in El(toExt') : Of(a, "result", r) =>
           /\ st'[r] \in {"busy", "refused"}
           /\ a.res = "ok" => signed'[r] = 1
           /\ a.res = "wrong" => signed'[r] = 0,
         st'[r] \in {"new", "open", "shown"} => signed'[r] = 0,
         st'[r] = "answered" => signed'[r] = 1,
         signed'[r] \in {0, 1}, signed'[r] = 1 => r \in accepted'
  PROVE  Flow(r)'
<1>1. \A h \in Hosts : ~Has(toHost'[h], "sign", r)
  BY DEF Holds
<1>2. \A h \in Hosts : One(toHost'[h], "sign", r)
  BY <1>1 DEF Has, El, One
<1> QED BY <1>1, <1>2 DEF Flow

LEMMA CallOne ==
  ASSUME TypeOK, NEW f \in Frames, nativeCall(f), NEW r, SignInv, r \in Signs, ~Of(f, "sign", r)
  PROVE  \A h \in Hosts : /\ One(toHost'[h], "sign", r)
                          /\ Has(toHost'[h], "sign", r) => Has(toHost[h], "sign", r)
<1>1. PICK p \in Hosts : toHost' = [toHost EXCEPT ![p] = Append(@, f)]
  BY DEF nativeCall
<1>2. One(Append(toHost[p], f), "sign", r)
  BY OneFacts DEF TypeOK, SignInv, Flow
<1>3. El(Append(toHost[p], f)) = El(toHost[p]) \cup {f}
  BY ElFacts DEF TypeOK
<1>4. Has(Append(toHost[p], f), "sign", r) => Has(toHost[p], "sign", r)
  BY <1>3 DEF Has
<1> QED BY <1>1, <1>2, <1>4 DEF TypeOK, SignInv, Flow

LEMMA TakeOne ==
  ASSUME TypeOK, SignInv, NEW h \in Hosts, NEW k, Takes(h, k), NEW r \in Signs
  PROVE  /\ \A g \in Hosts : /\ One(toHost'[g], "sign", r)
                             /\ Has(toHost'[g], "sign", r) => Has(toHost[g], "sign", r)
         /\ Of(Head(toHost[h]), "sign", r) => Has(toHost[h], "sign", r) /\ ~Has(toHost'[h], "sign", r)
         /\ serving[h] = Idle /\ Head(toHost[h]).m = k
<1>1. toHost[h] \in Seq(Frames) /\ toHost[h] # <<>> /\ One(toHost[h], "sign", r)
  BY DEF TypeOK, Takes, SignInv, Flow
<1>2. /\ One(Tail(toHost[h]), "sign", r)
      /\ Of(Head(toHost[h]), "sign", r) => ~Has(Tail(toHost[h]), "sign", r)
  BY <1>1, OneFacts
<1>3. El(Tail(toHost[h])) \subseteq El(toHost[h]) /\ Head(toHost[h]) \in El(toHost[h])
  BY <1>1, ElFacts
<1>4. toHost'[h] = Tail(toHost[h]) /\ \A g \in Hosts \ {h} : toHost'[g] = toHost[g]
  BY DEF Takes, TypeOK
<1>5. \A g \in Hosts : One(toHost'[g], "sign", r)
  BY <1>2, <1>4 DEF SignInv, Flow
<1>6. \A g \in Hosts : Has(toHost'[g], "sign", r) => Has(toHost[g], "sign", r)
  BY <1>3, <1>4 DEF Has
<1>7. Of(Head(toHost[h]), "sign", r) => Has(toHost[h], "sign", r) /\ ~Has(toHost'[h], "sign", r)
  BY <1>2, <1>3, <1>4 DEF Has
<1> QED BY <1>5, <1>6, <1>7 DEF Takes

LEMMA AnswerOne ==
  ASSUME TypeOK, SignInv, NEW h, NEW a \in Answers, Answer(h, a) \/ UNCHANGED toExt, NEW r \in Signs,
         Of(a, "result", r) => ~Has(toExt, "result", r)
  PROVE  /\ One(toExt', "result", r)
         /\ \A b \in El(toExt') : Of(b, "result", r) => b \in El(toExt) \/ b = a
         /\ ~Of(a, "result", r) => \A b \in El(toExt') : Of(b, "result", r) => b \in El(toExt)
<1>1. One(toExt, "result", r) /\ toExt \in Seq(Answers)
  BY DEF TypeOK, SignInv, Flow
<1>2. One(Append(toExt, a), "result", r)
  BY <1>1, OneFacts
<1>3. El(Append(toExt, a)) = El(toExt) \cup {a}
  BY <1>1, ElFacts
<1>4. toExt' = toExt \/ toExt' = Append(toExt, a)
  BY DEF Answer
<1> QED BY <1>1, <1>2, <1>3, <1>4

LEMMA IncomingOne ==
  ASSUME TypeOK, SignInv, NEW k, Incoming(k), NEW r \in Signs
  PROVE  /\ One(toExt', "result", r) /\ El(toExt') \subseteq El(toExt)
         /\ Of(Head(toExt), "result", r) => Has(toExt, "result", r) /\ ~Has(toExt', "result", r)
<1>1. One(toExt, "result", r) /\ toExt \in Seq(Answers) /\ toExt # <<>> /\ toExt' = Tail(toExt)
  BY DEF TypeOK, SignInv, Flow, Incoming
<1>2. /\ One(Tail(toExt), "result", r)
      /\ Of(Head(toExt), "result", r) => ~Has(Tail(toExt), "result", r)
  BY <1>1, OneFacts
<1>3. El(Tail(toExt)) \subseteq El(toExt) /\ Head(toExt) \in El(toExt)
  BY <1>1, ElFacts
<1> QED BY <1>1, <1>2, <1>3 DEF Has

\* Accepting a popup that displays: no host holds its request, and now one does.
LEMMA FlowAsks ==
  ASSUME TypeOK, NEW r \in Signs, Flow(r), NEW c \in Cards, nativeCall(Sign(r, c)),
         st[r] = "shown", st'[r] = "busy", r \in accepted', UNCHANGED <<toExt, serving, signed>>
  PROVE  Flow(r)'
<1>1. PICK p \in Hosts : toHost' = [toHost EXCEPT ![p] = Append(@, Sign(r, c))]
  BY DEF nativeCall
<1>2. (\A h \in Hosts : ~Holds(h, r)) /\ ~Has(toExt, "result", r)
  BY DEF Flow, Has
<1>3. \A h \in Hosts : ~Has(toHost[h], "sign", r) /\ ~InSession(h, r)
  BY <1>2 DEF Holds
<1>4. Sign(r, c) \in Frames
  BY FrameFacts
<1>5. /\ One(Append(toHost[p], Sign(r, c)), "sign", r)
      /\ toHost'[p] = Append(toHost[p], Sign(r, c))
      /\ \A h \in Hosts \ {p} : toHost'[h] = toHost[h]
  BY <1>1, <1>3, <1>4, OneFacts DEF TypeOK, Flow
<1>6. \A h \in Hosts : One(toHost'[h], "sign", r)
  BY <1>5 DEF Flow
<1>7. \A h \in Hosts : ~InSession(h, r)'
  BY <1>3 DEF InSession
<1>8. \A h \in Hosts : Holds(h, r)' => h = p
  BY <1>3, <1>5, <1>7 DEF Holds
<1>9. signed[r] = 0
  BY DEF Flow
<1>10. \A h \in Hosts : Holds(h, r)' => /\ signed'[r] = 0 /\ r \in accepted'
                                        /\ st'[r] \in {"busy", "refused"} /\ ~Has(toExt', "result", r)
  BY <1>2, <1>9
<1>11. \A a \in El(toExt') : ~Of(a, "result", r)
  BY <1>2 DEF Has
<1>12. One(toExt', "result", r)
  BY DEF Flow
<1>13. /\ \A h \in Hosts : One(toHost'[h], "sign", r) /\ ~(Has(toHost'[h], "sign", r) /\ InSession(h, r)')
       /\ \A g, h \in Hosts : Holds(g, r)' /\ Holds(h, r)' => g = h
  BY <1>6, <1>7, <1>8
<1> QED BY <1>9, <1>10, <1>11, <1>12, <1>13 DEF Flow

LEMMA SignWorker ==
  ASSUME PinInv, SignInv, NEW r \in Signs,
         cardInfo \/ cacheInfo \/ onInfo \/ onPreview
           \/ (\E q \in Signs : requestSignature(q))
           \/ (\E q \in Spends : bitcoinSpend(q))
           \/ (\E q \in Requests : displayed(q) \/ approve(q) \/ cancelApproval(q))
           \/ onResult \/ onDisconnect
  PROVE  Flow(r)'
<1> USE DEF pipes, host, history, worker
<1>a. TypeOK /\ ShownCard /\ Flow(r) /\ r \in Requests /\ r \notin Spends
  BY RequestsAssumption DEF PinInv, SignInv, Requests
<1>b. UNCHANGED <<serving, signed>> /\ accepted \subseteq accepted'
  BY DEF cardInfo, cacheInfo, onInfo, onPreview, requestSignature, bitcoinSpend, displayed,
         approve, cancelApproval, onResult, onDisconnect
<1>c. \A h \in Hosts : InSession(h, r)' => InSession(h, r)
  BY <1>b DEF InSession
\* What the queues to the hosts may become.
<1> DEFINE Queues == \A h \in Hosts : /\ One(toHost'[h], "sign", r)
                                      /\ Has(toHost'[h], "sign", r) => Has(toHost[h], "sign", r)
<1>q1. ASSUME UNCHANGED toHost PROVE Queues
  BY <1>a, <1>q1 DEF Flow
<1>q2. ASSUME NEW f \in Frames, nativeCall(f), ~Of(f, "sign", r) PROVE Queues
  BY <1>a, <1>q2, CallOne
<1>q3. ASSUME NEW q \in Requests, Refuse(q) PROVE Queues
  <2>1. CASE q \in Spends /\ nativeCall(Cancelled({q}))
    <3>1. Cancelled({q}) \in Frames /\ ~Of(Cancelled({q}), "sign", r)
      BY <2>1, FrameFacts DEF Cancelled, Of
    <3> HIDE DEF Queues
    <3> QED BY <2>1, <3>1, <1>q2
  <2> QED BY <1>q1, <1>q3, <2>1 DEF Refuse
<1> HIDE DEF Queues
\* A step that leaves the answers and moves the request along.
<1>k. ASSUME Queues, One(toExt', "result", r), \A a \in El(toExt') : Of(a, "result", r) => a \in El(toExt),
             \/ st'[r] = st[r] \/ st'[r] = "refused"
             \/ st[r] \in {"new", "open"} /\ st'[r] \in {"open", "shown"}
      PROVE  Flow(r)'
  BY <1>a, <1>b, <1>c, <1>k, FlowKeeps DEF Queues
<1>s. ASSUME Queues, UNCHANGED toExt,
             \/ st'[r] = st[r] \/ st'[r] = "refused"
             \/ st[r] \in {"new", "open"} /\ st'[r] \in {"open", "shown"}
      PROVE  Flow(r)'
  <2>1. One(toExt', "result", r)
    BY <1>a, <1>s DEF Flow
  <2> QED BY <1>k, <1>s, <2>1
<1>1. CASE cardInfo
  <2>1. nativeCall(Info) /\ Info \in Frames /\ ~Of(Info, "sign", r) /\ UNCHANGED <<st, toExt>>
    BY <1>1, FrameFacts DEF cardInfo, Info, Of
  <2> QED BY <2>1, <1>q2, <1>s
<1>2. CASE cacheInfo
  BY <1>2, <1>q1, <1>s DEF cacheInfo
<1>3. CASE onInfo \/ onPreview
  <2>1. UNCHANGED toHost /\ One(toExt', "result", r) /\ El(toExt') \subseteq El(toExt)
    BY <1>3, <1>a, IncomingOne DEF onInfo, onPreview
  <2>2. st'[r] = st[r]
    <3>1. CASE onInfo
      BY <3>1 DEF onInfo
    <3>2. CASE onPreview
      <4>1. Head(toExt).r \in Spends
        BY <1>a, <3>2, IncomingType, AnswerParts DEF onPreview
      <4> QED BY <1>a, <3>2, <4>1 DEF onPreview, TypeOK
    <3> QED BY <1>3, <3>1, <3>2
  <2> QED BY <1>k, <1>q1, <2>1, <2>2
<1>4. ASSUME NEW q \in Signs, requestSignature(q) PROVE Flow(r)'
  <2>1. UNCHANGED <<toHost, toExt>> /\ st[q] = "new" /\ st' = [st EXCEPT ![q] = "open"]
    BY <1>4 DEF requestSignature
  <2>2. st'[r] = st[r] \/ (st[r] = "new" /\ st'[r] = "open")
    BY <1>a, <2>1 DEF TypeOK
  <2> QED BY <1>q1, <1>s, <2>1, <2>2
<1>5. ASSUME NEW q \in Spends, bitcoinSpend(q) PROVE Flow(r)'
  <2>1. UNCHANGED toExt /\ \E x : st' = [st EXCEPT ![q] = x]
    BY <1>5 DEF bitcoinSpend
  <2>2. st'[r] = st[r]
    BY <1>a, <2>1 DEF TypeOK
  <2>3. Queues
    <3>1. Preview(q) \in Frames /\ ~Of(Preview(q), "sign", r)
      BY FrameFacts DEF Preview, Of
    <3> QED BY <1>5, <1>q1, <1>q2, <3>1 DEF bitcoinSpend, unreachable
  <2> QED BY <1>s, <2>1, <2>2, <2>3
<1>6. ASSUME NEW q \in Requests, displayed(q) PROVE Flow(r)'
  <2>1. UNCHANGED <<toHost, toExt>> /\ st[q] = "open" /\ st' = [st EXCEPT ![q] = "shown"]
    BY <1>6 DEF displayed
  <2>2. st'[r] = st[r] \/ (st[r] = "open" /\ st'[r] = "shown")
    BY <1>a, <2>1 DEF TypeOK
  <2> QED BY <1>q1, <1>s, <2>1, <2>2
<1>7. ASSUME NEW q \in Requests, approve(q) PROVE Flow(r)'
  <2>1. st[q] = "shown" /\ q \in accepted' /\ UNCHANGED toExt
    BY <1>7 DEF approve
  <2>2. CASE q \in Spends /\ bitcoinSign(q)
    <3>1. nativeCall(Partial(q)) /\ Partial(q) \in Frames /\ ~Of(Partial(q), "sign", r)
      BY <2>2, FrameFacts DEF bitcoinSign, Partial, Of
    <3>2. st'[r] = st[r]
      BY <1>a, <2>2 DEF bitcoinSign, TypeOK
    <3> QED BY <1>q2, <1>s, <2>1, <3>1, <3>2
  <2>3. CASE q \in Signs /\ st' = [st EXCEPT ![q] = "refused"] /\ UNCHANGED toHost
    <3>1. st'[r] = st[r] \/ st'[r] = "refused"
      BY <1>a, <2>3 DEF TypeOK
    <3> QED BY <1>q1, <1>s, <2>1, <2>3, <3>1
  <2>4. CASE q \in Signs /\ nativeCall(Sign(q, shown[q])) /\ st' = [st EXCEPT ![q] = "busy"]
    <3>1. shown[q] \in Cards
      BY <1>a, <2>1, <2>4 DEF ShownCard
    <3>2. CASE q = r
      <4>1. st'[r] = "busy"
        BY <1>a, <2>4, <3>2 DEF TypeOK
      <4> QED BY <1>a, <1>b, <2>1, <2>4, <3>1, <3>2, <4>1, FlowAsks
    <3>3. CASE q # r
      <4>1. Sign(q, shown[q]) \in Frames
        BY <2>4, <3>1, FrameFacts
      <4>2. ~Of(Sign(q, shown[q]), "sign", r)
        BY <3>3 DEF Sign, Of
      <4>3. st'[r] = st[r]
        BY <1>a, <2>4, <3>3 DEF TypeOK
      <4> QED BY <1>q2, <1>s, <2>1, <2>4, <4>1, <4>2, <4>3
    <3> QED BY <3>2, <3>3
  <2> QED BY <1>7, <2>2, <2>3, <2>4 DEF approve, signHashOnCard
<1>8. ASSUME NEW q \in Requests, cancelApproval(q) PROVE Flow(r)'
  <2>1. Refuse(q) /\ st' = [st EXCEPT ![q] = "refused"] /\ UNCHANGED toExt
    BY <1>8 DEF cancelApproval, Refuse
  <2>2. st'[r] = st[r] \/ st'[r] = "refused"
    BY <1>a, <2>1 DEF TypeOK
  <2> QED BY <1>q3, <1>s, <2>1, <2>2
<1>9. CASE onResult
  <2> DEFINE q == Head(toExt).r
             x == Head(toExt).res
  <2>1. /\ q \in Requests /\ Head(toExt) \in El(toExt) /\ Head(toExt).m = "result"
        /\ x \in {"ok", "wrong", "error"}
    BY <1>9, <1>a, IncomingTakes, IncomingType, AnswerParts DEF onResult
  <2>2. /\ One(toExt', "result", r) /\ El(toExt') \subseteq El(toExt)
        /\ Of(Head(toExt), "result", r) => Has(toExt, "result", r) /\ ~Has(toExt', "result", r)
    BY <1>9, <1>a, IncomingOne DEF onResult
  <2>3. \/ st[q] # "busy" /\ UNCHANGED <<st, toHost>>
        \/ /\ st[q] = "busy" /\ x # "error" /\ UNCHANGED toHost
           /\ st' = [st EXCEPT ![q] = IF x = "ok" THEN "answered" ELSE "shown"]
        \/ Refuse(q) /\ st' = [st EXCEPT ![q] = "refused"]
    BY <1>9 DEF onResult, Refuse
  <2>4. q = r => Of(Head(toExt), "result", r)
    BY <2>1 DEF Of
  <2>5. CASE st[q] # "busy" /\ UNCHANGED <<st, toHost>>
    BY <1>k, <1>q1, <2>2, <2>5
  <2>6. CASE Refuse(q) /\ st' = [st EXCEPT ![q] = "refused"]
    <3>1. st'[r] = st[r] \/ st'[r] = "refused"
      BY <1>a, <2>6 DEF TypeOK
    <3>2. Queues
      BY <1>q3, <2>1, <2>6
    <3> QED BY <1>k, <2>2, <3>1, <3>2
  <2>7. CASE /\ st[q] = "busy" /\ x # "error" /\ UNCHANGED toHost
             /\ st' = [st EXCEPT ![q] = IF x = "ok" THEN "answered" ELSE "shown"]
    <3>1. CASE q # r
      <4>1. st'[r] = st[r]
        <5> HIDE DEF q, x
        <5> QED BY <1>a, <2>1, <2>7, <3>1 DEF TypeOK
      <4> QED BY <1>k, <1>q1, <2>2, <2>7, <4>1
    <3>2. CASE q = r
      <4>1. Has(toExt, "result", r) /\ ~Has(toExt', "result", r)
        BY <2>2, <2>4, <3>2
      <4>2. \A h \in Hosts : ~Holds(h, r)
        BY <1>a, <4>1 DEF Flow
      <4>3. \A h \in Hosts : ~Holds(h, r)'
        BY <1>c, <2>7, <4>2 DEF Holds
      <4>4. (x = "ok" => signed[r] = 1) /\ (x = "wrong" => signed[r] = 0)
        BY <1>a, <2>1, <2>4, <3>2 DEF Flow
      <4>5. st'[r] = IF x = "ok" THEN "answered" ELSE "shown"
        <5> HIDE DEF q, x
        <5> QED BY <1>a, <2>7, <3>2 DEF TypeOK
      <4>6. (x = "ok" /\ st'[r] = "answered" /\ signed'[r] = 1) \/ (st'[r] = "shown" /\ signed'[r] = 0)
        <5> HIDE DEF q, x
        <5> QED BY <1>b, <2>1, <2>7, <4>4, <4>5
      <4>7. \A a \in El(toExt') : ~Of(a, "result", r)
        BY <4>1 DEF Has
      <4>8. signed'[r] \in {0, 1} /\ (signed'[r] = 1 => r \in accepted')
        BY <1>a, <1>b DEF Flow
      <4> HIDE DEF q, x
      <4>9. /\ st'[r] \in {"new", "open", "shown"} => signed'[r] = 0
            /\ st'[r] = "answered" => signed'[r] = 1
        BY <4>6
      <4> QED BY <2>2, <4>3, <4>7, <4>8, <4>9, FlowEnds
    <3> QED BY <3>1, <3>2
  <2> HIDE DEF q, x
  <2> QED BY <2>3, <2>5, <2>6, <2>7
<1>10. CASE onDisconnect
  <2>1. toExt' = <<>> /\ El(<<>>) = {} /\ One(<<>>, "result", r)
    BY <1>10 DEF onDisconnect, El, One
  <2>2. st'[r] = st[r] \/ st'[r] = "refused"
    BY <1>a, <1>10 DEF onDisconnect
  <2>3. Queues
    <3>1. CASE toHost' = [toHost EXCEPT ![started'] = <<Cancelled(approvals \cap Spends)>>]
      <4> DEFINE one == <<Cancelled(approvals \cap Spends)>>
      <4>1. \A f \in El(one) : ~Of(f, "sign", r)
        BY DEF El, Cancelled, Of
      <4>2. ~Has(one, "sign", r) /\ One(one, "sign", r)
        BY <4>1 DEF Has, One, El
      <4>3. \A h \in Hosts : toHost'[h] = toHost[h] \/ toHost'[h] = one
        BY <1>a, <3>1 DEF TypeOK
      <4> HIDE DEF one
      <4> QED BY <1>a, <4>2, <4>3 DEF Queues, Flow
    <3> QED BY <1>10, <1>q1, <3>1 DEF onDisconnect
  <2>4. One(toExt', "result", r) /\ \A a \in El(toExt') : Of(a, "result", r) => a \in El(toExt)
    BY <2>1
  <2> QED BY <1>k, <2>2, <2>3, <2>4
<1> QED BY <1>1, <1>2, <1>3, <1>4, <1>5, <1>6, <1>7, <1>8, <1>9, <1>10

LEMMA SignHost ==
  ASSUME TypeOK, SignInv, NEW h \in Hosts, HostStep(h), NEW r \in Signs
  PROVE  Flow(r)'
<1> USE DEF pipes, host, history, worker
<1>a. Flow(r) /\ r \in Requests /\ r \notin Spends
  BY RequestsAssumption DEF SignInv, Requests
<1>b. UNCHANGED <<st, accepted>>
  BY DEF HostStep, do_info, handle_preview, handle_cancel, open_session, verify_pin_and_sign,
         handle_sign_partial, sign_partial_returns, serve_ends
\* The queues: a handler takes a frame or none.
<1> DEFINE Queues == \A g \in Hosts : /\ One(toHost'[g], "sign", r)
                                      /\ Has(toHost'[g], "sign", r) => Has(toHost[g], "sign", r)
<1>c. Queues
  <2>1. (\E k \in {"info", "preview", "cancel", "sign", "partial"} : Takes(h, k)) \/ UNCHANGED toHost
    BY DEF HostStep, do_info, handle_preview, handle_cancel, open_session, verify_pin_and_sign,
           handle_sign_partial, sign_partial_returns, serve_ends
  <2>2. CASE UNCHANGED toHost
    BY <1>a, <2>2 DEF Flow
  <2> QED BY <2>1, <2>2, TakeOne
<1> HIDE DEF Queues
\* A handler that leaves r alone.
<1>k. ASSUME NEW a \in Answers, Answer(h, a) \/ UNCHANGED toExt, ~Of(a, "result", r),
             signed'[r] = signed[r], ~InSession(h, r)' \/ UNCHANGED serving,
             \A g \in Hosts \ {h} : serving'[g] = serving[g]
      PROVE  Flow(r)'
  <2>1. /\ One(toExt', "result", r)
        /\ \A b \in El(toExt') : Of(b, "result", r) => b \in El(toExt)
    BY <1>k, AnswerOne
  <2>2. \A g \in Hosts : InSession(g, r)' => InSession(g, r)
    BY <1>k DEF InSession
  <2> QED BY <1>a, <1>b, <1>c, <1>k, <2>1, <2>2, FlowKeeps DEF Queues
<1>l. ASSUME UNCHANGED <<toExt, signed, serving>> PROVE Flow(r)'
  <2>1. /\ One(toExt', "result", r)
        /\ \A b \in El(toExt') : Of(b, "result", r) => b \in El(toExt)
    BY <1>a, <1>l DEF Flow
  <2>2. \A g \in Hosts : InSession(g, r)' => InSession(g, r)
    BY <1>l DEF InSession
  <2> QED BY <1>a, <1>b, <1>c, <1>l, <2>1, <2>2, FlowKeeps DEF Queues
\* The one host that holds r, once it has let go of it, is followed by a result at most.
<1>e. ASSUME Holds(h, r), ~Has(toHost'[h], "sign", r), ~InSession(h, r)',
             \A g \in Hosts \ {h} : serving'[g] = serving[g],
             NEW x \in {"ok", "wrong", "error"}, Answer(h, Result(r, x)),
             signed'[r] \in {0, 1}, (x = "ok" => signed'[r] = 1) /\ (x = "wrong" => signed'[r] = 0)
      PROVE  Flow(r)'
  <2>1. /\ st[r] \in {"busy", "refused"} /\ r \in accepted /\ ~Has(toExt, "result", r)
        /\ \A g \in Hosts \ {h} : ~Holds(g, r)
    BY <1>a, <1>e DEF Flow
  <2>2. \A g \in Hosts : ~Holds(g, r)'
    BY <1>c, <1>e, <2>1 DEF Holds, InSession, Queues
  <2>3. Result(r, x) \in Answers /\ Result(r, x).res = x
    BY <1>a, AnswerFacts DEF Result
  <2>4. /\ One(toExt', "result", r)
        /\ \A b \in El(toExt') : Of(b, "result", r) => b \in El(toExt) \/ b = Result(r, x)
    BY <1>e, <2>1, <2>3, AnswerOne
  <2>5. \A b \in El(toExt') : Of(b, "result", r) => b = Result(r, x)
    BY <2>1, <2>4 DEF Has
  <2> QED BY <1>b, <1>e, <2>1, <2>2, <2>3, <2>4, <2>5, FlowEnds
<1>1. CASE do_info(h)
  <2>1. UNCHANGED <<signed, serving>>
    BY <1>1 DEF do_info
  <2>2. CASE UNCHANGED toExt
    BY <1>l, <2>1, <2>2
  <2>3. CASE inserted # None /\ Answer(h, Identity(inserted))
    <3>1. Identity(inserted) \in Answers /\ ~Of(Identity(inserted), "result", r)
      BY <2>3, AnswerFacts DEF Identity, TypeOK, Of
    <3> QED BY <1>k, <2>1, <2>3, <3>1
  <2> QED BY <1>1, <2>2, <2>3 DEF do_info, Acknowledge
<1>2. CASE handle_preview(h)
  <2>1. Head(toHost[h]).r \in Spends /\ UNCHANGED <<signed, serving>>
    BY <1>2, FrameParts, TakeType DEF handle_preview, Takes
  <2>2. \A c \in Cards \cup {None} : Built(Head(toHost[h]).r, c) \in Answers
                                     /\ ~Of(Built(Head(toHost[h]).r, c), "result", r)
    BY <2>1, AnswerFacts DEF Built, Of
  <2>3. \E c \in Cards \cup {None} : Answer(h, Built(Head(toHost[h]).r, c))
    BY <1>2 DEF handle_preview, TypeOK
  <2> QED BY <1>k, <2>1, <2>2, <2>3
<1>3. CASE handle_cancel(h)
  BY <1>3, <1>l DEF handle_cancel, Acknowledge
<1>4. CASE serve_ends(h)
  BY <1>4, <1>l DEF serve_ends
<1>5. CASE handle_sign_partial(h)
  <2> DEFINE q == Head(toHost[h]).r
  <2>1. q \in Spends /\ UNCHANGED signed
    BY <1>5, FrameParts, TakeType DEF handle_sign_partial, Takes
  <2>2. Result(q, "error") \in Answers /\ ~Of(Result(q, "error"), "result", r)
    BY <1>a, <2>1, AnswerFacts DEF Result, Requests, Of
  <2>3. Answer(h, Result(q, "error")) \/ UNCHANGED toExt
    BY <1>5 DEF handle_sign_partial
  <2>4. UNCHANGED serving \/ serving' = [serving EXCEPT ![h] = Waiting(q)]
    BY <1>5 DEF handle_sign_partial
  <2> HIDE DEF q
  <2>5. \/ UNCHANGED serving
        \/ serving'[h] = Waiting(q) /\ \A g \in Hosts \ {h} : serving'[g] = serving[g]
    BY <2>4 DEF TypeOK
  <2>6. ~InSession(h, r)' \/ UNCHANGED serving
    BY <2>5 DEF InSession, Waiting
  <2> QED BY <1>k, <2>1, <2>2, <2>3, <2>5, <2>6
<1>6. CASE sign_partial_returns(h)
  <2> DEFINE q == serving[h].r
  <2>1. q \in Spends /\ UNCHANGED signed
    BY <1>6, TaskParts DEF sign_partial_returns, TypeOK
  <2>2. \A x \in {"ok", "wrong", "error"} :
          Result(q, x) \in Answers /\ ~Of(Result(q, x), "result", r)
    BY <1>a, <2>1, AnswerFacts DEF Result, Requests, Of
  <2>3. \E x \in {"ok", "wrong", "error"} : Answer(h, Result(q, x))
    BY <1>6 DEF sign_partial_returns
  <2>4. serving'[h] = Idle /\ \A g \in Hosts \ {h} : serving'[g] = serving[g]
    BY <1>6 DEF sign_partial_returns, TypeOK
  <2>5. ~InSession(h, r)'
    BY <2>4, TaskFacts DEF InSession
  <2> HIDE DEF q
  <2> QED BY <1>k, <2>1, <2>2, <2>3, <2>4, <2>5
<1>7. CASE open_session(h)
  <2> DEFINE q == Head(toHost[h]).r
  <2>1. Takes(h, "sign") /\ UNCHANGED signed
    BY <1>7 DEF open_session
  <2>2. q \in Signs /\ Head(toHost[h]).m = "sign" /\ serving[h] = Idle
    BY <2>1, FrameParts, TakeType, TakeOne
  <2>3. \/ UNCHANGED toExt /\ \E c : serving' = [serving EXCEPT ![h] = Session(q, c, TRUE)]
        \/ Answer(h, Result(q, "error")) /\ UNCHANGED serving
    BY <1>7 DEF open_session
  <2>4. q = r => Has(toHost[h], "sign", r) /\ ~Has(toHost'[h], "sign", r)
    <3>1. q = r => Of(Head(toHost[h]), "sign", r)
      BY <2>2 DEF Of
    <3> QED BY <2>1, <3>1, TakeOne
  <2>5. ~InSession(h, r)
    BY <2>2, TaskFacts DEF InSession
  <2>6. Result(q, "error") \in Answers /\ (q # r => ~Of(Result(q, "error"), "result", r))
    BY <2>2, AnswerFacts DEF Result, Requests, Of
  <2> HIDE DEF q
  <2>7. CASE Answer(h, Result(q, "error")) /\ UNCHANGED serving
    <3>1. CASE q # r
      BY <1>k, <2>1, <2>6, <2>7, <3>1
    <3>2. CASE q = r
      <4>1. Holds(h, r) /\ signed[r] = 0
        BY <1>a, <2>4, <3>2 DEF Holds, Flow
      <4>2. ~InSession(h, r)'
        BY <2>5, <2>7 DEF InSession
      <4> QED BY <1>e, <2>1, <2>4, <2>7, <3>2, <4>1, <4>2
    <3> QED BY <3>1, <3>2
  <2>8. ASSUME UNCHANGED toExt, NEW c, serving' = [serving EXCEPT ![h] = Session(q, c, TRUE)]
        PROVE  Flow(r)'
    <3>1. serving'[h] = Session(q, c, TRUE) /\ \A g \in Hosts \ {h} : serving'[g] = serving[g]
      BY <2>8 DEF TypeOK
    <3>2. CASE q # r
      <4>1. ~InSession(h, r)'
        BY <3>1, <3>2 DEF InSession, Session
      <4> QED BY <1>k, <2>1, <2>6, <2>8, <3>1, <3>2, <4>1
    <3>3. CASE q = r
      <4>1. /\ signed[r] = 0 /\ r \in accepted /\ st[r] \in {"busy", "refused"}
            /\ ~Has(toExt, "result", r)
            /\ \A g \in Hosts \ {h} : ~Holds(g, r)
        BY <1>a, <2>4, <3>3 DEF Holds, Flow
      <4>2. \A g \in Hosts \ {h} : ~Holds(g, r)'
        BY <1>c, <3>1, <4>1 DEF Holds, InSession, Queues
      <4>3. ~Has(toHost'[h], "sign", r)
        BY <2>4, <3>3
      <4>4. \A g \in Hosts : One(toHost'[g], "sign", r)
                             /\ ~(Has(toHost'[g], "sign", r) /\ InSession(g, r)')
        BY <1>c, <4>2, <4>3 DEF Queues, Holds
      <4>5. \A g \in Hosts : Holds(g, r)' => g = h
        BY <4>2
      <4>6. /\ One(toExt', "result", r) /\ \A a \in El(toExt') : ~Of(a, "result", r)
            /\ ~Has(toExt', "result", r)
        BY <1>a, <2>8, <4>1 DEF Flow, Has
      <4>7. signed'[r] = 0 /\ r \in accepted' /\ st'[r] \in {"busy", "refused"}
        BY <1>b, <2>1, <4>1
      <4> QED BY <4>4, <4>5, <4>6, <4>7 DEF Flow
    <3> QED BY <3>2, <3>3
  <2> QED BY <2>3, <2>7, <2>8
<1>8. CASE verify_pin_and_sign(h)
  <2> DEFINE q == serving[h].r
  <2>1. q \in Signs /\ serving[h].m = "session" /\ UNCHANGED toHost
    BY <1>8, TaskParts DEF verify_pin_and_sign, TypeOK
  <2>2. serving'[h] = Idle /\ \A g \in Hosts \ {h} : serving'[g] = serving[g]
    BY <1>8 DEF verify_pin_and_sign, TypeOK
  <2>3. ~InSession(h, r)'
    BY <2>2, TaskFacts DEF InSession
  <2>4. \E x \in {"ok", "wrong", "error"} :
           /\ Answer(h, Result(q, x))
           /\ \/ x # "wrong" /\ signed' = [signed EXCEPT ![q] = @ + 1]
              \/ x # "ok" /\ UNCHANGED signed
    BY <1>8 DEF verify_pin_and_sign
  <2>5. q = r => InSession(h, r)
    BY <2>1 DEF InSession
  <2> HIDE DEF q
  <2>6. PICK x \in {"ok", "wrong", "error"} :
           /\ Answer(h, Result(q, x))
           /\ \/ x # "wrong" /\ signed' = [signed EXCEPT ![q] = @ + 1]
              \/ x # "ok" /\ UNCHANGED signed
    BY <2>4
  <2>7. CASE q # r
    <3>1. signed'[r] = signed[r]
      BY <2>1, <2>6, <2>7 DEF TypeOK
    <3>2. Result(q, x) \in Answers /\ ~Of(Result(q, x), "result", r)
      BY <2>1, <2>7, AnswerFacts DEF Result, Requests, Of
    <3> QED BY <1>k, <2>2, <2>3, <2>6, <3>1, <3>2
  <2>8. CASE q = r
    <3>1. Holds(h, r) /\ signed[r] = 0 /\ ~Has(toHost[h], "sign", r)
      BY <1>a, <2>5, <2>8 DEF Holds, Flow
    <3>2. signed'[r] \in {0, 1} /\ (x = "ok" => signed'[r] = 1) /\ (x = "wrong" => signed'[r] = 0)
      BY <2>6, <2>8, <3>1 DEF TypeOK
    <3>3. ~Has(toHost'[h], "sign", r)
      BY <2>1, <3>1
    <3> QED BY <1>e, <2>2, <2>3, <2>6, <2>8, <3>1, <3>2, <3>3
  <2> QED BY <2>7, <2>8
<1> QED BY <1>1, <1>2, <1>3, <1>4, <1>5, <1>6, <1>7, <1>8 DEF HostStep

LEMMA SignAround ==
  ASSUME TypeOK, SignInv, (\E q \in Spends : send(q) \/ emit(q) \/ dies(q)) \/ MoveCard,
         NEW r \in Signs
  PROVE  Flow(r)'
<1> USE DEF pipes, host, history, worker
<1>1. UNCHANGED <<st, accepted, toHost, toExt, signed>>
  BY DEF send, emit, dies, MoveCard
<1>2. \A h \in Hosts : InSession(h, r)' <=> InSession(h, r)
  <2>1. CASE MoveCard
    BY <2>1 DEF MoveCard, InSession, Session
  <2>2. CASE UNCHANGED serving
    BY <2>2 DEF InSession
  <2> QED BY <2>1, <2>2 DEF send, emit, dies
<1>3. \A h \in Hosts : Holds(h, r)' <=> Holds(h, r)
  BY <1>1, <1>2 DEF Holds
<1> QED BY <1>1, <1>2, <1>3 DEF SignInv, Flow

LEMMA SignNext == PinInv /\ SignInv /\ [Next]_vars => SignInv'
<1> SUFFICES ASSUME PinInv, SignInv, [Next]_vars, NEW r \in Signs PROVE Flow(r)'
  BY DEF SignInv
<1>0. TypeOK
  BY DEF PinInv
<1>1. CASE cardInfo \/ cacheInfo \/ onInfo \/ onPreview
             \/ (\E q \in Signs : requestSignature(q))
             \/ (\E q \in Spends : bitcoinSpend(q))
             \/ (\E q \in Requests : displayed(q) \/ approve(q) \/ cancelApproval(q))
             \/ onResult \/ onDisconnect
  BY <1>1, SignWorker
<1>2. CASE UNCHANGED vars
  <2>1. UNCHANGED <<st, accepted, toHost, toExt, signed, serving>>
    BY <1>2 DEF vars, worker, pipes, host, history
  <2>2. \A h \in Hosts : Holds(h, r)' = Holds(h, r) /\ InSession(h, r)' = InSession(h, r)
    BY <2>1 DEF Holds, InSession
  <2> QED BY <2>1, <2>2 DEF SignInv, Flow
<1> QED BY <1>0, <1>1, <1>2, SignHost, SignAround DEF Next

\* What a card signs was accepted in a popup first, one acceptance signs once, and
\* a page hears of a signature or a payment only when there is one: background.js
\* and nuri_card_host.py may lose connections, time out and retry in between.
THEOREM SignedTruth == Spec => []SignedAsShown
<1>1. Init => SpendInv /\ SignInv
  <2> SUFFICES ASSUME Init PROVE SpendInv /\ SignInv
    OBVIOUS
  <2>1. El(<<>>) = {}
    BY DEF El
  <2>2. SpendInv
    BY <2>1 DEF Init, SpendInv, Requests
  <2>3. SignInv
    <3> SUFFICES ASSUME NEW r \in Signs PROVE Flow(r)
      BY DEF SignInv
    <3>1. \A h \in Hosts : toHost[h] = <<>> /\ ~Holds(h, r)
      BY <2>1, TaskFacts DEF Init, Holds, Has, InSession
    <3>2. One(<<>>, "result", r) /\ One(<<>>, "sign", r) /\ ~Has(<<>>, "sign", r)
      BY <2>1 DEF One, Has
    <3> QED BY <2>1, <3>1, <3>2 DEF Init, Flow, Requests
  <2> QED BY <2>2, <2>3
<1>2. PinInv /\ SpendInv /\ SignInv /\ [Next]_vars => SpendInv' /\ SignInv'
  BY SpendNext, SignNext DEF PinInv
<1>3. SpendInv /\ SignInv => SignedAsShown
  <2> SUFFICES ASSUME SpendInv, SignInv PROVE SignedAsShown
    OBVIOUS
  <2>1. ASSUME NEW r \in Signs
        PROVE  signed[r] <= 1 /\ (signed[r] = 1 => r \in accepted) /\ (st[r] = "answered" => signed[r] = 1)
    <3>1. Flow(r)
      BY DEF SignInv
    <3>2. signed[r] = 0 \/ signed[r] = 1
      BY <3>1 DEF Flow
    <3>3. (signed[r] = 1 => r \in accepted) /\ (st[r] = "answered" => signed[r] = 1)
      BY <3>1 DEF Flow
    <3> QED BY <3>2, <3>3
  <2> QED BY <2>1 DEF SpendInv, SignedAsShown
<1> QED BY <1>1, <1>2, <1>3, PinInvariant, PTL DEF Spec

-----------------------------------------------------------------------------
(* Jobs: what a host keeps for a spend, against the frames q on the way to   *)
(* it, the answers x on their way back, what it is in the middle of, and how *)
(* far the spend is.                                                         *)

Pending == {"open", "shown", "busy"}
Cancels(s, r) == \E f \in El(s) : f.m = "cancel" /\ r \in f.of

Job(q, x, jobs, task, s, r) ==
  /\ One(q, "preview", r) /\ One(x, "preview", r)
  /\ Has(q, "preview", r) => s = "asked" /\ r \notin jobs /\ ~Has(x, "preview", r)
  /\ Has(x, "preview", r) => s = "asked"
  /\ \A a \in El(x) : Of(a, "preview", r) /\ a.card = None => r \notin jobs
  /\ s = "new" => r \notin jobs
  /\ Has(q, "partial", r) \/ task = Waiting(r) \/ Has(x, "result", r) => s \notin {"new", "asked"}
  /\ \A a \in El(x) : Of(a, "result", r) /\ a.res = "ok" => r \notin jobs
  /\ r \in jobs => s \in Pending \/ Has(x, "preview", r) \/ Cancels(q, r)

JobInv ==
  /\ nativePort = 0 => toExt = <<>>
  /\ \A h \in Hosts : h > started => toHost[h] = <<>> /\ JOBS[h] = {} /\ serving[h] = Idle
  /\ nativePort # 0 => \A r \in Spends :
       Job(toHost[nativePort], toExt, JOBS[nativePort], serving[nativePort], st[r], r)

\* A connection that was just made.
LEMMA JobFresh == \A s, r : Job(<<>>, <<>>, {}, Idle, s, r)
<1>1. El(<<>>) = {}
  BY DEF El
<1>2. \A k, r : ~Has(<<>>, k, r) /\ One(<<>>, k, r)
  BY <1>1 DEF Has, One
<1>3. \A r : Idle # Waiting(r)
  BY DEF Idle, Waiting
<1> QED BY <1>1, <1>2, <1>3 DEF Job

\* The worker sends f and moves the spend from s to s2.
LEMMA JobSends ==
  ASSUME NEW q \in Seq(Frames), NEW x, NEW jobs, NEW task, NEW s, NEW r, NEW f \in Frames, NEW s2,
         Job(q, x, jobs, task, s, r),
         Of(f, "preview", r) => s = "new" /\ s2 = "asked",
         Of(f, "partial", r) => s2 = "busy",
         \/ s2 = s
         \/ s = "new" /\ s2 = "asked"
         \/ s \in Pending /\ s2 \in Pending
         \/ s \in Pending /\ s2 = "refused" /\ f.m = "cancel" /\ r \in f.of
  PROVE  Job(Append(q, f), x, jobs, task, s2, r)
<1>1. El(Append(q, f)) = El(q) \cup {f}
  BY ElFacts
<1>2. Of(f, "preview", r) => ~Has(q, "preview", r) /\ ~Has(x, "preview", r) /\ r \notin jobs
  BY DEF Job
<1>3. One(Append(q, f), "preview", r)
  BY <1>2, OneFacts DEF Job
<1>4. /\ Has(Append(q, f), "preview", r) => Has(q, "preview", r) \/ Of(f, "preview", r)
      /\ Has(Append(q, f), "partial", r) => Has(q, "partial", r) \/ Of(f, "partial", r)
      /\ Cancels(q, r) => Cancels(Append(q, f), r)
      /\ f.m = "cancel" /\ r \in f.of => Cancels(Append(q, f), r)
  BY <1>1 DEF Has, Cancels
<1>5. Has(q, "preview", r) => s2 = "asked"
  BY DEF Job, Pending
<1>6. Has(x, "preview", r) => s2 = "asked"
  BY DEF Job, Pending
<1>7. s2 = "new" => s = "new"
  BY DEF Pending
<1>8. Has(q, "partial", r) \/ task = Waiting(r) \/ Has(x, "result", r) => s2 \notin {"new", "asked"}
  BY DEF Job, Pending
<1>9. r \in jobs => s2 \in Pending \/ Has(x, "preview", r) \/ Cancels(Append(q, f), r)
  BY <1>4 DEF Job, Pending
<1>10. Has(Append(q, f), "preview", r) => s2 = "asked" /\ r \notin jobs /\ ~Has(x, "preview", r)
  BY <1>2, <1>4, <1>5 DEF Job
<1>11. Has(Append(q, f), "partial", r) \/ task = Waiting(r) \/ Has(x, "result", r) => s2 \notin {"new", "asked"}
  BY <1>4, <1>8
<1> QED BY <1>3, <1>6, <1>7, <1>9, <1>10, <1>11 DEF Job

\* The worker sends nothing.
LEMMA JobMoves ==
  ASSUME NEW q, NEW x, NEW jobs, NEW task, NEW s, NEW r, NEW s2,
         Job(q, x, jobs, task, s, r), s2 = s \/ (s \in Pending /\ s2 \in Pending)
  PROVE  Job(q, x, jobs, task, s2, r)
BY DEF Job, Pending

\* The worker hears the next answer.
LEMMA JobHears ==
  ASSUME NEW q, NEW x \in Seq(Answers), x # <<>>, NEW jobs, NEW task, NEW s, NEW r, NEW s2,
         Job(q, x, jobs, task, s, r),
         IF Of(Head(x), "preview", r)
         THEN s2 = IF Head(x).card = None THEN "refused" ELSE "open"
         ELSE \/ s2 = s
              \/ s = "busy" /\ s2 = "shown"
              \/ s = "busy" /\ s2 = "answered" /\ Of(Head(x), "result", r) /\ Head(x).res = "ok"
  PROVE  Job(q, Tail(x), jobs, task, s2, r)
<1>1. El(x) = El(Tail(x)) \cup {Head(x)}
  BY ElTail
<1>2. /\ One(Tail(x), "preview", r)
      /\ Of(Head(x), "preview", r) => ~Has(Tail(x), "preview", r)
  BY OneFacts DEF Job
<1>3. \A k : Has(Tail(x), k, r) => Has(x, k, r)
  BY <1>1 DEF Has
<1>4. CASE Of(Head(x), "preview", r)
  <2>1. Has(x, "preview", r)
    BY <1>1, <1>4 DEF Has
  <2>2. s = "asked" /\ ~Has(q, "preview", r)
    BY <2>1 DEF Job
  <2>3. s2 \in {"refused", "open"} /\ (s2 = "refused" => r \notin jobs)
    BY <1>1, <1>4 DEF Job
  <2>4. ~Has(q, "partial", r) /\ task # Waiting(r) /\ ~Has(Tail(x), "result", r)
    BY <1>3, <2>2 DEF Job
  <2>5. r \in jobs => s2 \in Pending
    BY <2>3 DEF Pending
  <2> QED BY <1>1, <1>2, <1>4, <2>2, <2>3, <2>4, <2>5 DEF Job
<1>5. CASE ~Of(Head(x), "preview", r)
  <2>1. Has(x, "preview", r) <=> Has(Tail(x), "preview", r)
    BY <1>1, <1>5 DEF Has
  <2>2. CASE s2 = s \/ (s = "busy" /\ s2 = "shown")
    BY <1>1, <1>2, <1>3, <2>1, <2>2 DEF Job, Pending
  <2>3. CASE s = "busy" /\ s2 = "answered" /\ Of(Head(x), "result", r) /\ Head(x).res = "ok"
    <3>1. r \notin jobs
      BY <1>1, <2>3 DEF Job
    <3> QED BY <1>1, <1>2, <1>3, <2>1, <2>3, <3>1 DEF Job
  <2> QED BY <1>5, <2>2, <2>3
<1> QED BY <1>4, <1>5

\* The host takes the next frame, and may drop jobs.
LEMMA JobTakes ==
  ASSUME NEW q \in Seq(Frames), q # <<>>, NEW x, NEW jobs, NEW task, NEW s, NEW r, NEW jobs2,
         Job(q, x, jobs, task, s, r), jobs2 \subseteq jobs,
         Head(q).m = "cancel" /\ r \in Head(q).of => r \notin jobs2
  PROVE  /\ Job(Tail(q), x, jobs2, task, s, r)
         /\ Of(Head(q), "preview", r) => /\ s = "asked" /\ r \notin jobs
                                         /\ ~Has(x, "preview", r) /\ ~Has(Tail(q), "preview", r)
         /\ Of(Head(q), "partial", r) => s \notin {"new", "asked"}
<1>1. El(q) = El(Tail(q)) \cup {Head(q)}
  BY ElTail
<1>2. /\ One(Tail(q), "preview", r)
      /\ Of(Head(q), "preview", r) => ~Has(Tail(q), "preview", r)
  BY OneFacts DEF Job
<1>3. /\ \A k : Has(Tail(q), k, r) => Has(q, k, r)
      /\ \A k : Of(Head(q), k, r) => Has(q, k, r)
  BY <1>1 DEF Has
<1>4. r \in jobs2 => (Cancels(q, r) => Cancels(Tail(q), r))
  BY <1>1 DEF Cancels
<1>5. /\ Of(Head(q), "preview", r) => /\ s = "asked" /\ r \notin jobs /\ ~Has(x, "preview", r)
      /\ Of(Head(q), "partial", r) => s \notin {"new", "asked"}
  BY <1>3 DEF Job
<1>6. Job(Tail(q), x, jobs2, task, s, r)
  BY <1>2, <1>3, <1>4 DEF Job
<1> QED BY <1>2, <1>5, <1>6

\* The host answers a, and may drop jobs or take one it previews.
LEMMA JobAnswers ==
  ASSUME NEW q, NEW x \in Seq(Answers), NEW jobs, NEW task, NEW s, NEW r, NEW jobs2, NEW task2,
         NEW a \in Answers, Job(q, x, jobs, task, s, r),
         Of(a, "preview", r) => /\ s = "asked" /\ ~Has(q, "preview", r) /\ ~Has(x, "preview", r)
                                /\ a.card = None => r \notin jobs2,
         Of(a, "result", r) => s \notin {"new", "asked"} /\ (a.res = "ok" => r \notin jobs2),
         r \in jobs2 => r \in jobs \/ Of(a, "preview", r),
         task2 = Waiting(r) => s \notin {"new", "asked"}
  PROVE  Job(q, Append(x, a), jobs2, task2, s, r)
<1>1. El(Append(x, a)) = El(x) \cup {a}
  BY ElFacts
<1>2. One(Append(x, a), "preview", r)
  BY OneFacts DEF Job
<1>3. \A k : Has(Append(x, a), k, r) <=> Has(x, k, r) \/ Of(a, k, r)
  BY <1>1 DEF Has
<1>4. Has(q, "preview", r) => s = "asked" /\ r \notin jobs2 /\ ~Has(Append(x, a), "preview", r)
  BY <1>3 DEF Job
<1>5. Has(Append(x, a), "preview", r) => s = "asked"
  BY <1>3 DEF Job
<1>6. \A b \in El(Append(x, a)) : Of(b, "preview", r) /\ b.card = None => r \notin jobs2
  BY <1>1 DEF Job, Has
<1>7. s = "new" => r \notin jobs2
  BY DEF Job
<1>8. Has(q, "partial", r) \/ task2 = Waiting(r) \/ Has(Append(x, a), "result", r) => s \notin {"new", "asked"}
  BY <1>3 DEF Job
<1>9. \A b \in El(Append(x, a)) : Of(b, "result", r) /\ b.res = "ok" => r \notin jobs2
  <2> SUFFICES ASSUME NEW b \in El(x), Of(b, "result", r), b.res = "ok" PROVE r \notin jobs2
    BY <1>1
  <2>1. r \notin jobs /\ s # "asked"
    BY DEF Job, Has
  <2> QED BY <2>1
<1>10. r \in jobs2 => s \in Pending \/ Has(Append(x, a), "preview", r) \/ Cancels(q, r)
  BY <1>3 DEF Job
<1> QED BY <1>2, <1>4, <1>5, <1>6, <1>7, <1>8, <1>9, <1>10 DEF Job

\* The host says nothing.
LEMMA JobWorks ==
  ASSUME NEW q, NEW x, NEW jobs, NEW task, NEW s, NEW r, NEW task2,
         Job(q, x, jobs, task, s, r), task2 = Waiting(r) => s \notin {"new", "asked"}
  PROVE  Job(q, x, jobs, task2, s, r)
BY DEF Job

\* A call over the live connection or a new one.  toExt' may already be one answer short.
LEMMA JobCalls ==
  ASSUME TypeOK, JobInv, NEW f \in Frames, nativeCall(f), UNCHANGED <<JOBS, serving>>,
         nativePort = 0 => toExt' = <<>>,
         nativePort # 0 => \A r \in Spends :
           Job(toHost[nativePort], toExt', JOBS[nativePort], serving[nativePort], st[r], r),
         \A r \in Spends :
           /\ Of(f, "preview", r) => st[r] = "new" /\ st'[r] = "asked"
           /\ Of(f, "partial", r) => st'[r] = "busy"
           /\ \/ st'[r] = st[r]
              \/ st[r] = "new" /\ st'[r] = "asked"
              \/ st[r] \in Pending /\ st'[r] \in Pending
              \/ st[r] \in Pending /\ st'[r] = "refused" /\ f.m = "cancel" /\ r \in f.of
  PROVE  JobInv'
<1>1. PICK p \in Hosts :
        /\ \/ nativePort # 0 /\ p = nativePort /\ UNCHANGED started
           \/ nativePort = 0 /\ p = started + 1 /\ started' = p
        /\ nativePort' = p
        /\ toHost' = [toHost EXCEPT ![p] = Append(@, f)]
  BY DEF nativeCall
<1>2. /\ toHost'[p] = Append(toHost[p], f) /\ \A h \in Hosts \ {p} : toHost'[h] = toHost[h]
      /\ toHost[p] \in Seq(Frames)
  BY <1>1 DEF TypeOK
<1>3. p # 0 /\ p \in Nat /\ started \in Nat /\ \A h \in Hosts : h \in Nat
  BY BoundAssumption DEF Hosts, TypeOK
<1>4. ASSUME NEW r \in Spends PROVE Job(toHost[p], toExt', JOBS[p], serving[p], st[r], r)
  <2>1. CASE nativePort = 0
    <3>1. toHost[p] = <<>> /\ JOBS[p] = {} /\ serving[p] = Idle /\ toExt' = <<>>
      BY <1>1, <1>3, <2>1 DEF JobInv
    <3> QED BY <3>1, JobFresh
  <2> QED BY <1>1, <2>1
<1>5. ASSUME NEW r \in Spends PROVE Job(toHost'[p], toExt', JOBS[p], serving[p], st'[r], r)
  BY <1>2, <1>4, JobSends
<1>6. ASSUME NEW h \in Hosts, h > started'
      PROVE  toHost'[h] = <<>> /\ JOBS'[h] = {} /\ serving'[h] = Idle
  <2>1. h > started /\ h # p
    BY <1>1, <1>3, <1>6 DEF TypeOK
  <2> QED BY <1>2, <2>1 DEF JobInv
<1> QED BY <1>1, <1>3, <1>5, <1>6 DEF JobInv

\* A step of the worker that sends nothing.
LEMMA JobStays ==
  ASSUME TypeOK, JobInv, UNCHANGED <<nativePort, started, toHost, JOBS, serving>>,
         nativePort = 0 => toExt' = <<>>,
         nativePort # 0 => \A r \in Spends :
           Job(toHost[nativePort], toExt', JOBS[nativePort], serving[nativePort], st'[r], r)
  PROVE  JobInv'
BY DEF JobInv

LEMMA JobWorker ==
  ASSUME PinInv, JobInv,
         cardInfo \/ cacheInfo \/ onInfo \/ onPreview
           \/ (\E q \in Signs : requestSignature(q))
           \/ (\E q \in Spends : bitcoinSpend(q))
           \/ (\E q \in Requests : displayed(q) \/ approve(q) \/ cancelApproval(q))
           \/ onResult \/ onDisconnect
  PROVE  JobInv'
<1> USE DEF pipes, host, history, worker
<1>a. TypeOK /\ ShownCard /\ (\A r \in Spends : r \in Requests /\ r \notin Signs)
  BY RequestsAssumption DEF PinInv, Requests
<1>b. UNCHANGED <<JOBS, serving>>
  BY DEF cardInfo, cacheInfo, onInfo, onPreview, requestSignature, bitcoinSpend, displayed,
         approve, cancelApproval, onResult, onDisconnect
<1>c. /\ nativePort = 0 => toExt = <<>>
      /\ nativePort # 0 => \A r \in Spends :
           Job(toHost[nativePort], toExt, JOBS[nativePort], serving[nativePort], st[r], r)
  BY DEF JobInv
\* Steps that leave the answers alone.
<1>s. ASSUME UNCHANGED <<nativePort, started, toHost, toExt>>,
             \A r \in Spends : st'[r] = st[r] \/ (st[r] \in Pending /\ st'[r] \in Pending)
      PROVE  JobInv'
  <2>1. nativePort # 0 => \A r \in Spends :
          Job(toHost[nativePort], toExt', JOBS[nativePort], serving[nativePort], st'[r], r)
    BY <1>c, <1>s, JobMoves
  <2> QED BY <1>a, <1>b, <1>c, <1>s, <2>1, JobStays
<1>f. ASSUME NEW f \in Frames, nativeCall(f), UNCHANGED toExt,
             \A r \in Spends :
               /\ Of(f, "preview", r) => st[r] = "new" /\ st'[r] = "asked"
               /\ Of(f, "partial", r) => st'[r] = "busy"
               /\ \/ st'[r] = st[r]
                  \/ st[r] = "new" /\ st'[r] = "asked"
                  \/ st[r] \in Pending /\ st'[r] \in Pending
                  \/ st[r] \in Pending /\ st'[r] = "refused" /\ f.m = "cancel" /\ r \in f.of
      PROVE  JobInv'
  BY <1>a, <1>b, <1>c, <1>f, JobCalls
<1>1. CASE cardInfo
  <2>1. /\ nativeCall(Info) /\ Info \in Frames /\ UNCHANGED <<st, toExt>>
        /\ \A r : ~Of(Info, "preview", r) /\ ~Of(Info, "partial", r)
    BY <1>1, FrameFacts DEF cardInfo, Info, Of
  <2> QED BY <2>1, <1>f
<1>2. CASE cacheInfo
  BY <1>2, <1>s DEF cacheInfo
<1>3. ASSUME NEW q \in Signs, requestSignature(q) PROVE JobInv'
  <2>1. /\ UNCHANGED <<nativePort, started, toHost, toExt>>
        /\ st' = [st EXCEPT ![q] = "open"]
    BY <1>3 DEF requestSignature
  <2>2. \A r \in Spends : st'[r] = st[r]
    BY <1>a, <2>1 DEF TypeOK
  <2> QED BY <1>s, <2>1, <2>2
<1>4. ASSUME NEW q \in Requests, displayed(q) PROVE JobInv'
  <2>1. /\ UNCHANGED <<nativePort, started, toHost, toExt>>
        /\ st[q] = "open" /\ st' = [st EXCEPT ![q] = "shown"]
    BY <1>4 DEF displayed
  <2>2. \A r \in Spends : st'[r] = st[r] \/ (st[r] \in Pending /\ st'[r] \in Pending)
    BY <1>a, <2>1 DEF TypeOK, Pending
  <2> QED BY <1>s, <2>1, <2>2
<1>5. ASSUME NEW q \in Spends, bitcoinSpend(q) PROVE JobInv'
  <2>1. UNCHANGED toExt /\ st[q] = "new"
    BY <1>5 DEF bitcoinSpend
  <2>2. CASE nativeCall(Preview(q)) /\ st' = [st EXCEPT ![q] = "asked"]
    <3>1. /\ Preview(q) \in Frames
          /\ \A r : (Of(Preview(q), "preview", r) => r = q) /\ ~Of(Preview(q), "partial", r)
      BY FrameFacts DEF Preview, Of
    <3>2. \A r \in Spends : IF r = q THEN st'[r] = "asked" ELSE st'[r] = st[r]
      BY <1>a, <2>2 DEF TypeOK
    <3> QED BY <1>f, <2>1, <2>2, <3>1, <3>2
  <2>3. CASE unreachable
    <3>1. nativePort = 0 /\ UNCHANGED <<nativePort, started, toHost>>
      BY <2>3 DEF unreachable
    <3> QED BY <1>a, <1>b, <1>c, <2>1, <3>1, JobStays
  <2> QED BY <1>5, <2>2, <2>3 DEF bitcoinSpend
<1>6. ASSUME NEW q \in Requests, approve(q) PROVE JobInv'
  <2>1. st[q] = "shown" /\ UNCHANGED toExt
    BY <1>6 DEF approve
  <2>2. CASE q \in Spends /\ bitcoinSign(q)
    <3>1. nativeCall(Partial(q)) /\ st' = [st EXCEPT ![q] = "busy"]
      BY <2>2 DEF bitcoinSign
    <3>2. /\ Partial(q) \in Frames
          /\ \A r : ~Of(Partial(q), "preview", r) /\ (Of(Partial(q), "partial", r) => r = q)
      BY <2>2, FrameFacts DEF Partial, Of
    <3>3. \A r \in Spends : IF r = q THEN st'[r] = "busy" ELSE st'[r] = st[r]
      BY <1>a, <3>1 DEF TypeOK
    <3>4. \A r \in Spends : st'[r] = st[r] \/ (st[r] \in Pending /\ st'[r] \in Pending)
      BY <2>1, <3>3 DEF Pending
    <3> QED BY <1>f, <2>1, <3>1, <3>2, <3>3, <3>4
  <2>3. CASE q \in Signs /\ signHashOnCard(q)
    <3>1. \A r \in Spends : st'[r] = st[r]
      <4>1. \E x : st' = [st EXCEPT ![q] = x]
        BY <2>3 DEF signHashOnCard
      <4> QED BY <1>a, <2>3, <4>1 DEF TypeOK
    <3>2. CASE nativeCall(Sign(q, shown[q]))
      <4>1. shown[q] \in Cards
        BY <1>a, <2>1, <2>3 DEF ShownCard
      <4>2. /\ Sign(q, shown[q]) \in Frames
            /\ \A r : ~Of(Sign(q, shown[q]), "preview", r) /\ ~Of(Sign(q, shown[q]), "partial", r)
        BY <2>3, <4>1, FrameFacts DEF Sign, Of
      <4> QED BY <1>f, <2>1, <3>1, <3>2, <4>2
    <3>3. CASE UNCHANGED <<nativePort, started, toHost>>
      BY <1>s, <2>1, <3>1, <3>3
    <3> QED BY <2>3, <3>2, <3>3 DEF signHashOnCard
  <2> QED BY <1>6, <2>2, <2>3 DEF approve
\* A refused approval, with an answer already heard or not.
<1>r. ASSUME NEW q \in Requests, Refuse(q), st[q] \in Pending,
             nativePort = 0 => toExt' = <<>>,
             nativePort # 0 => \A r \in Spends :
               Job(toHost[nativePort], toExt', JOBS[nativePort], serving[nativePort], st[r], r)
      PROVE  JobInv'
  <2>1. st' = [st EXCEPT ![q] = "refused"]
    BY <1>r DEF Refuse
  <2>2. CASE q \in Spends /\ nativeCall(Cancelled({q}))
    <3>1. /\ Cancelled({q}) \in Frames /\ Cancelled({q}).m = "cancel" /\ q \in Cancelled({q}).of
          /\ \A r : ~Of(Cancelled({q}), "preview", r) /\ ~Of(Cancelled({q}), "partial", r)
      BY <2>2, FrameFacts DEF Cancelled, Of
    <3>2. \A r \in Spends : IF r = q THEN st'[r] = "refused" ELSE st'[r] = st[r]
      BY <1>a, <2>1 DEF TypeOK
    <3> QED BY <1>a, <1>b, <1>r, <2>2, <3>1, <3>2, JobCalls
  <2>3. CASE q \in Signs /\ UNCHANGED <<nativePort, started, toHost>>
    <3>1. \A r \in Spends : st'[r] = st[r]
      BY <1>a, <2>1, <2>3 DEF TypeOK
    <3> QED BY <1>a, <1>b, <1>r, <2>3, <3>1, JobStays
  <2> QED BY <1>r, <2>2, <2>3 DEF Refuse
<1>7. ASSUME NEW q \in Requests, cancelApproval(q) PROVE JobInv'
  <2>1. Refuse(q) /\ st[q] \in Pending /\ UNCHANGED toExt
    BY <1>7 DEF cancelApproval, approvals, Pending
  <2> QED BY <1>c, <1>r, <2>1
\* An answer heard.
<1>h. ASSUME NEW k, Incoming(k)
      PROVE  /\ nativePort # 0 /\ toExt' = Tail(toExt) /\ toExt \in Seq(Answers) /\ toExt # <<>>
             /\ Head(toExt).m = k /\ Head(toExt) \in Answers
  BY <1>a, <1>c, <1>h, IncomingType DEF Incoming, TypeOK
<1>8. CASE onInfo
  <2>1. UNCHANGED <<nativePort, started, toHost, st>> /\ Incoming("info")
    BY <1>8 DEF onInfo
  <2>2. \A r : ~Of(Head(toExt), "preview", r)
    BY <1>h, <2>1 DEF Of
  <2>3. \A r \in Spends :
          Job(toHost[nativePort], toExt', JOBS[nativePort], serving[nativePort], st'[r], r)
    BY <1>c, <1>h, <2>1, <2>2, JobHears
  <2> QED BY <1>a, <1>b, <1>h, <2>1, <2>3, JobStays
<1>9. CASE onPreview
  <2> DEFINE q == Head(toExt).r
             y == IF Head(toExt).card = None THEN "refused" ELSE "open"
  <2>1. UNCHANGED <<nativePort, started, toHost>> /\ Incoming("preview") /\ st' = [st EXCEPT ![q] = y]
    BY <1>9 DEF onPreview
  <2>2. q \in Spends /\ \A r : Of(Head(toExt), "preview", r) <=> r = q
    BY <1>h, <2>1, AnswerParts DEF Of
  <2> HIDE DEF q
  <2>3. \A r \in Spends : IF r = q THEN st'[r] = y ELSE st'[r] = st[r]
    BY <1>a, <2>1 DEF TypeOK
  <2>4. ASSUME NEW r \in Spends
        PROVE  Job(toHost[nativePort], toExt', JOBS[nativePort], serving[nativePort], st'[r], r)
    BY <1>c, <1>h, <2>1, <2>2, <2>3, JobHears
  <2> QED BY <1>a, <1>b, <1>h, <2>1, <2>4, JobStays
<1>10. CASE onResult
  <2> DEFINE q == Head(toExt).r
             x == Head(toExt).res
  <2>1. Incoming("result")
    BY <1>10 DEF onResult
  <2>2. /\ q \in Requests /\ \A r : Of(Head(toExt), "result", r) <=> r = q
        /\ \A r : ~Of(Head(toExt), "preview", r)
    BY <1>h, <2>1, AnswerParts DEF Of
  <2>3. \/ UNCHANGED <<st, nativePort, started, toHost>>
        \/ /\ st[q] = "busy" /\ UNCHANGED <<nativePort, started, toHost>>
           /\ st' = [st EXCEPT ![q] = IF x = "ok" THEN "answered" ELSE "shown"]
        \/ st[q] = "busy" /\ Refuse(q)
    BY <1>10 DEF onResult
  <2>4. \A r \in Spends :
          Job(toHost[nativePort], toExt', JOBS[nativePort], serving[nativePort], st[r], r)
    BY <1>c, <1>h, <2>1, <2>2, JobHears
  <2>5. CASE UNCHANGED <<st, nativePort, started, toHost>>
    BY <1>a, <1>b, <1>h, <2>1, <2>4, <2>5, JobStays
  <2>6. CASE st[q] = "busy" /\ Refuse(q)
    <3> HIDE DEF q
    <3> QED BY <1>h, <1>r, <2>1, <2>2, <2>4, <2>6 DEF Pending
  <2>7. CASE /\ st[q] = "busy" /\ UNCHANGED <<nativePort, started, toHost>>
             /\ st' = [st EXCEPT ![q] = IF x = "ok" THEN "answered" ELSE "shown"]
    <3>1. \A r \in Spends : IF r = q THEN st'[r] = IF x = "ok" THEN "answered" ELSE "shown"
                                     ELSE st'[r] = st[r]
      <4> HIDE DEF q, x
      <4> QED BY <1>a, <2>2, <2>7 DEF TypeOK
    <3>2. ASSUME NEW r \in Spends
          PROVE  Job(toHost[nativePort], toExt', JOBS[nativePort], serving[nativePort], st'[r], r)
      <4>1. ~Of(Head(toExt), "preview", r)
        BY <2>2
      <4>2. \/ st'[r] = st[r]
            \/ st[r] = "busy" /\ st'[r] = "shown"
            \/ /\ st[r] = "busy" /\ st'[r] = "answered"
               /\ Of(Head(toExt), "result", r) /\ Head(toExt).res = "ok"
        BY <2>2, <2>7, <3>1
      <4> HIDE DEF q, x
      <4> QED BY <1>c, <1>h, <2>1, <4>1, <4>2, JobHears
    <3> QED BY <1>a, <1>b, <1>h, <2>1, <2>7, <3>2, JobStays
  <2> HIDE DEF q, x
  <2> QED BY <2>3, <2>5, <2>6, <2>7
<1>11. CASE onDisconnect
  <2>1. toExt' = <<>> /\ nativePort # 0
    BY <1>11 DEF onDisconnect
  <2>2. CASE nativePort' = 0 /\ UNCHANGED <<started, toHost>>
    BY <1>b, <2>1, <2>2 DEF JobInv
  <2>3. CASE /\ started < MaxHosts /\ started' = started + 1 /\ nativePort' = started'
             /\ toHost' = [toHost EXCEPT ![started'] = <<Cancelled(approvals \cap Spends)>>]
    <3> DEFINE n == started + 1
               f == Cancelled(approvals \cap Spends)
    <3>1. n \in Hosts /\ n # 0 /\ n > started /\ started \in Nat
      BY <1>a, <2>3, BoundAssumption DEF TypeOK, Hosts
    <3>2. toHost'[n] = <<f>> /\ \A h \in Hosts \ {n} : toHost'[h] = toHost[h]
      BY <1>a, <2>3, <3>1 DEF TypeOK
    <3>3. f \in Frames /\ \A r : ~Of(f, "preview", r) /\ ~Of(f, "partial", r)
      BY FrameFacts DEF Cancelled, Of
    <3>4. toHost[n] = <<>> /\ JOBS[n] = {} /\ serving[n] = Idle
      BY <3>1 DEF JobInv
    <3>5. <<f>> = Append(<<>>, f) /\ <<>> \in Seq(Frames)
      OBVIOUS
    <3>6. ASSUME NEW r \in Spends PROVE Job(toHost'[n], toExt', JOBS'[n], serving'[n], st'[r], r)
      <4>1. Job(<<>>, <<>>, {}, Idle, st'[r], r)
        BY JobFresh
      <4> HIDE DEF f
      <4>2. Job(Append(<<>>, f), <<>>, {}, Idle, st'[r], r)
        BY <3>3, <3>5, <4>1, JobSends
      <4> QED BY <1>b, <2>1, <3>2, <3>4, <3>5, <4>2
    <3>7. ASSUME NEW h \in Hosts, h > started'
          PROVE  toHost'[h] = <<>> /\ JOBS'[h] = {} /\ serving'[h] = Idle
      <4>1. h > started /\ h # n
        BY <2>3, <3>1, <3>7, BoundAssumption DEF Hosts
      <4> QED BY <1>b, <3>2, <4>1 DEF JobInv
    <3>8. nativePort' = n /\ started' = n
      BY <2>3
    <3> HIDE DEF n, f
    <3> QED BY <3>1, <3>6, <3>7, <3>8 DEF JobInv
  <2> QED BY <1>11, <2>2, <2>3 DEF onDisconnect
<1> QED BY <1>1, <1>2, <1>3, <1>4, <1>5, <1>6, <1>7, <1>8, <1>9, <1>10, <1>11

LEMMA JobHost ==
  ASSUME TypeOK, JobInv, NEW h \in Hosts, HostStep(h)
  PROVE  JobInv'
<1> USE DEF pipes, host, history, worker
<1>a. (\A r \in Spends : r \in Requests /\ r \notin Signs) /\ (\A r \in Signs : r \notin Spends)
  BY RequestsAssumption DEF Requests
<1>b. UNCHANGED <<nativePort, started, st>>
  BY DEF HostStep, do_info, handle_preview, handle_cancel, open_session, verify_pin_and_sign,
         handle_sign_partial, sign_partial_returns, serve_ends
<1>c. nativePort = h => /\ h # 0
                        /\ \A r \in Spends : Job(toHost[h], toExt, JOBS[h], serving[h], st[r], r)
  BY BoundAssumption DEF JobInv, Hosts
\* What remains to be shown of each handler.
<1>k. ASSUME h <= started, nativePort # h => UNCHANGED toExt,
             \A g \in Hosts \ {h} : /\ toHost'[g] = toHost[g] /\ JOBS'[g] = JOBS[g]
                                    /\ serving'[g] = serving[g],
             nativePort = h => \A r \in Spends :
               Job(toHost'[h], toExt', JOBS'[h], serving'[h], st[r], r)
      PROVE  JobInv'
  <2>1. nativePort = 0 => toExt' = <<>>
    BY <1>c, <1>k DEF JobInv
  <2>2. ASSUME NEW g \in Hosts, g > started PROVE toHost'[g] = <<>> /\ JOBS'[g] = {} /\ serving'[g] = Idle
    <3>1. g # h
      BY <1>k, <2>2, BoundAssumption DEF Hosts, TypeOK
    <3> QED BY <1>k, <2>2, <3>1 DEF JobInv
  <2>3. nativePort # 0 => nativePort \in Hosts
    BY BoundAssumption DEF TypeOK, Hosts
  <2>4. ASSUME nativePort # 0, NEW r \in Spends
        PROVE  Job(toHost'[nativePort], toExt', JOBS'[nativePort], serving'[nativePort], st[r], r)
    <3>1. CASE nativePort = h
      BY <1>k, <3>1
    <3>2. CASE nativePort # h
      BY <1>k, <2>3, <2>4, <3>2 DEF JobInv
    <3> QED BY <3>1, <3>2
  <2> QED BY <1>b, <2>1, <2>2, <2>4 DEF JobInv
\* A handler that takes a frame.
<1>t. ASSUME NEW m, Takes(h, m)
      PROVE  /\ h <= started /\ toHost'[h] = Tail(toHost[h]) /\ serving[h] = Idle
             /\ toHost[h] \in Seq(Frames) /\ toHost[h] # <<>>
             /\ Head(toHost[h]) \in Frames /\ Head(toHost[h]).m = m
             /\ \A g \in Hosts \ {h} : toHost'[g] = toHost[g]
  BY <1>t, TakeType DEF Takes, TypeOK
<1>u. toExt \in Seq(Answers) /\ Idle \in Tasks /\ \A r : Idle # Waiting(r)
  BY TaskFacts DEF TypeOK, Idle, Waiting
<1>v. serving[h].m \in {"session", "waiting"} => h <= started
  <2>1. h > started => serving[h] = Idle
    BY DEF JobInv
  <2>2. h \in Int /\ started \in Int
    BY BoundAssumption DEF Hosts, TypeOK
  <2> QED BY <2>1, <2>2, TaskFacts
<1>w. ASSUME NEW m, Takes(h, m), m # "cancel", nativePort = h, NEW r \in Spends
      PROVE  /\ Job(Tail(toHost[h]), toExt, JOBS[h], Idle, st[r], r)
             /\ Of(Head(toHost[h]), "preview", r) => /\ st[r] = "asked" /\ r \notin JOBS[h]
                                                     /\ ~Has(toExt, "preview", r)
                                                     /\ ~Has(Tail(toHost[h]), "preview", r)
             /\ Of(Head(toHost[h]), "partial", r) => st[r] \notin {"new", "asked"}
  <2>1. /\ Job(toHost[h], toExt, JOBS[h], Idle, st[r], r)
        /\ toHost[h] \in Seq(Frames) /\ toHost[h] # <<>> /\ Head(toHost[h]).m # "cancel"
    BY <1>c, <1>t, <1>w
  <2> QED BY <2>1, JobTakes
<1>1. CASE do_info(h)
  <2>1. Takes(h, "info") /\ UNCHANGED <<JOBS, serving>>
    BY <1>1 DEF do_info
  <2>2. \/ UNCHANGED toExt
        \/ Answer(h, Identity(inserted)) /\ inserted \in Cards
    BY <1>1 DEF do_info, Acknowledge, TypeOK
  <2>3. nativePort # h => UNCHANGED toExt
    BY <2>2 DEF Answer
  <2>4. ASSUME nativePort = h, NEW r \in Spends
        PROVE  Job(toHost'[h], toExt', JOBS'[h], serving'[h], st[r], r)
    <3>1. Job(Tail(toHost[h]), toExt, JOBS[h], Idle, st[r], r)
      BY <1>c, <1>t, <2>1, <2>4, JobTakes
    <3>2. CASE UNCHANGED toExt
      BY <1>t, <2>1, <3>1, <3>2
    <3>3. CASE Answer(h, Identity(inserted)) /\ inserted \in Cards
      <4>1. /\ Identity(inserted) \in Answers
            /\ ~Of(Identity(inserted), "preview", r) /\ ~Of(Identity(inserted), "result", r)
        BY <3>3, AnswerFacts DEF Identity, Of
      <4>2. toExt' = Append(toExt, Identity(inserted))
        BY <2>4, <3>3 DEF Answer
      <4>3. Job(Tail(toHost[h]), Append(toExt, Identity(inserted)), JOBS[h], Idle, st[r], r)
        BY <1>u, <3>1, <4>1, JobAnswers
      <4> QED BY <1>t, <2>1, <4>2, <4>3
    <3> QED BY <2>2, <3>2, <3>3
  <2> QED BY <1>k, <1>t, <2>1, <2>3, <2>4
<1>2. CASE handle_preview(h)
  <2> DEFINE q == Head(toHost[h]).r
  <2>1. Takes(h, "preview") /\ UNCHANGED serving
    BY <1>2 DEF handle_preview
  <2>2. q \in Spends /\ \A r : Of(Head(toHost[h]), "preview", r) <=> r = q
    BY <1>t, <2>1, FrameParts DEF Of
  <2> DEFINE Some ==
        \E c \in Cards \cup {None} : \E jobs2 :
            /\ Answer(h, Built(q, c)) /\ JOBS' = [JOBS EXCEPT ![h] = jobs2]
            /\ jobs2 \subseteq JOBS[h] \cup {q} /\ (c = None => jobs2 \subseteq JOBS[h])
  <2>3. Some
    <3>1. CASE Answer(h, Built(q, None)) /\ UNCHANGED JOBS
      <4>1. JOBS' = [JOBS EXCEPT ![h] = JOBS[h]]
        BY <3>1 DEF TypeOK
      <4> QED BY <3>1, <4>1
    <3>2. ASSUME NEW old, inserted # None, Answer(h, Built(q, inserted)),
                 JOBS' = [JOBS EXCEPT ![h] = (@ \ old) \cup {q}]
          PROVE  Some
      <4>1. inserted \in Cards /\ inserted # None
        BY <3>2 DEF TypeOK
      <4>2. JOBS' = [JOBS EXCEPT ![h] = (JOBS[h] \ old) \cup {q}]
        BY <3>2
      <4> HIDE DEF q
      <4> QED BY <3>2, <4>1, <4>2
    <3>3. ASSUME NEW old, Answer(h, Built(q, None)), JOBS' = [JOBS EXCEPT ![h] = @ \ old]
          PROVE  Some
      <4>1. JOBS' = [JOBS EXCEPT ![h] = JOBS[h] \ old]
        BY <3>3
      <4> HIDE DEF q
      <4> QED BY <3>3, <4>1
    <3> QED BY <1>2, <3>1, <3>2, <3>3 DEF handle_preview
  <2> HIDE DEF q
  <2>a. PICK c \in Cards \cup {None} : \E jobs2 :
          /\ Answer(h, Built(q, c)) /\ JOBS' = [JOBS EXCEPT ![h] = jobs2]
          /\ jobs2 \subseteq JOBS[h] \cup {q} /\ (c = None => jobs2 \subseteq JOBS[h])
    BY <2>3
  <2>4. PICK jobs2 :
          /\ Answer(h, Built(q, c)) /\ JOBS' = [JOBS EXCEPT ![h] = jobs2]
          /\ jobs2 \subseteq JOBS[h] \cup {q} /\ (c = None => jobs2 \subseteq JOBS[h])
    BY <2>a
  <2>5. JOBS'[h] = jobs2 /\ \A g \in Hosts \ {h} : JOBS'[g] = JOBS[g]
    BY <2>4 DEF TypeOK
  <2>6. /\ Built(q, c) \in Answers
        /\ Built(q, c).card = c /\ Built(q, c).m = "preview" /\ Built(q, c).r = q
    BY <2>2, AnswerFacts DEF Built
  <2>7. ASSUME nativePort = h, NEW r \in Spends
        PROVE  Job(toHost'[h], toExt', JOBS'[h], serving'[h], st[r], r)
    <3>2. /\ Job(Tail(toHost[h]), toExt, JOBS[h], Idle, st[r], r)
          /\ Of(Head(toHost[h]), "preview", r) => /\ st[r] = "asked" /\ r \notin JOBS[h]
                                                  /\ ~Has(toExt, "preview", r)
                                                  /\ ~Has(Tail(toHost[h]), "preview", r)
      BY <1>w, <2>1, <2>7
    <3>3. toExt' = Append(toExt, Built(q, c))
      BY <2>4, <2>7 DEF Answer
    <3>4. /\ Of(Built(q, c), "preview", r) <=> r = q
          /\ ~Of(Built(q, c), "result", r)
      BY <2>6 DEF Of
    <3>5. r = q => /\ st[r] = "asked" /\ ~Has(Tail(toHost[h]), "preview", r) /\ ~Has(toExt, "preview", r)
                   /\ c = None => r \notin jobs2
      BY <2>2, <2>4, <3>2
    <3>6. r \in jobs2 => r \in JOBS[h] \/ r = q
      BY <2>4
    <3>7. Job(Tail(toHost[h]), Append(toExt, Built(q, c)), jobs2, Idle, st[r], r)
      BY <1>u, <2>6, <3>2, <3>4, <3>5, <3>6, JobAnswers
    <3> QED BY <1>t, <2>1, <2>5, <3>3, <3>7
  <2> QED BY <1>k, <1>t, <2>1, <2>4, <2>5, <2>7 DEF Answer
<1>3. CASE handle_cancel(h)
  <2> DEFINE gone == Head(toHost[h]).of \cap JOBS[h]
  <2>1. Takes(h, "cancel") /\ UNCHANGED <<serving, toExt>> /\ JOBS' = [JOBS EXCEPT ![h] = @ \ gone]
    BY <1>3 DEF handle_cancel, Acknowledge
  <2>2. JOBS'[h] = JOBS[h] \ gone /\ \A g \in Hosts \ {h} : JOBS'[g] = JOBS[g]
    BY <2>1 DEF TypeOK
  <2>3. ASSUME nativePort = h, NEW r \in Spends
        PROVE  Job(toHost'[h], toExt', JOBS'[h], serving'[h], st[r], r)
    <3>1. Job(Tail(toHost[h]), toExt, JOBS[h] \ gone, Idle, st[r], r)
      BY <1>c, <1>t, <2>1, <2>3, JobTakes
    <3> QED BY <1>t, <2>1, <2>2, <3>1
  <2> QED BY <1>k, <1>t, <2>1, <2>2, <2>3
<1>4. CASE open_session(h)
  <2> DEFINE q == Head(toHost[h]).r
  <2>1. Takes(h, "sign") /\ UNCHANGED JOBS
    BY <1>4 DEF open_session
  <2>2. q \in Signs
    BY <1>t, <2>1, FrameParts
  <2>3. \/ UNCHANGED toExt /\ \E c : serving' = [serving EXCEPT ![h] = Session(q, c, TRUE)]
        \/ Answer(h, Result(q, "error")) /\ UNCHANGED serving
    BY <1>4 DEF open_session
  <2> HIDE DEF q
  <2>4. /\ Result(q, "error") \in Answers
        /\ \A r \in Spends : ~Of(Result(q, "error"), "preview", r) /\ ~Of(Result(q, "error"), "result", r)
    BY <1>a, <2>2, AnswerFacts DEF Result, Of, Requests
  <2>5. /\ \A g \in Hosts \ {h} : serving'[g] = serving[g]
        /\ \A r : serving'[h] # Waiting(r)
    <3>1. CASE UNCHANGED serving
      BY <1>t, <1>u, <2>1, <3>1
    <3>2. ASSUME NEW c, serving' = [serving EXCEPT ![h] = Session(q, c, TRUE)] PROVE <2>5
      <4>1. serving'[h] = Session(q, c, TRUE) /\ \A g \in Hosts \ {h} : serving'[g] = serving[g]
        BY <3>2 DEF TypeOK
      <4> QED BY <4>1 DEF Session, Waiting
    <3> QED BY <2>3, <3>1, <3>2
  <2>6. ASSUME nativePort = h, NEW r \in Spends
        PROVE  Job(toHost'[h], toExt', JOBS'[h], serving'[h], st[r], r)
    <3>1. Job(Tail(toHost[h]), toExt, JOBS[h], Idle, st[r], r)
      BY <1>c, <1>t, <2>1, <2>6, JobTakes
    <3>2. CASE UNCHANGED toExt
      <4>1. Job(Tail(toHost[h]), toExt, JOBS[h], serving'[h], st[r], r)
        BY <2>5, <3>1, JobWorks
      <4> QED BY <1>t, <2>1, <3>2, <4>1
    <3>3. CASE Answer(h, Result(q, "error"))
      <4>1. Job(Tail(toHost[h]), Append(toExt, Result(q, "error")), JOBS[h], serving'[h], st[r], r)
        BY <1>u, <2>4, <2>5, <3>1, JobAnswers
      <4>2. toExt' = Append(toExt, Result(q, "error"))
        BY <2>6, <3>3 DEF Answer
      <4> QED BY <1>t, <2>1, <4>1, <4>2
    <3> QED BY <2>3, <3>2, <3>3
  <2> QED BY <1>k, <1>t, <2>1, <2>3, <2>5, <2>6 DEF Answer
<1>5. CASE verify_pin_and_sign(h)
  <2> DEFINE q == serving[h].r
  <2>1. serving[h].m = "session" /\ UNCHANGED <<toHost, JOBS>>
    BY <1>5 DEF verify_pin_and_sign
  <2>2. q \in Signs
    BY <2>1, TaskParts DEF TypeOK
  <2>3. \E x \in {"ok", "wrong", "error"} : Answer(h, Result(q, x))
    BY <1>5 DEF verify_pin_and_sign
  <2>4. serving'[h] = Idle /\ \A g \in Hosts \ {h} : serving'[g] = serving[g]
    BY <1>5 DEF verify_pin_and_sign, TypeOK
  <2>5. h <= started
    BY <1>v, <2>1
  <2> HIDE DEF q
  <2>6. PICK x \in {"ok", "wrong", "error"} : Answer(h, Result(q, x))
    BY <2>3
  <2>7. /\ Result(q, x) \in Answers
        /\ \A r \in Spends : ~Of(Result(q, x), "preview", r) /\ ~Of(Result(q, x), "result", r)
    BY <1>a, <2>2, AnswerFacts DEF Result, Of, Requests
  <2>8. ASSUME nativePort = h, NEW r \in Spends
        PROVE  Job(toHost'[h], toExt', JOBS'[h], serving'[h], st[r], r)
    <3>1. Job(toHost[h], Append(toExt, Result(q, x)), JOBS[h], Idle, st[r], r)
      BY <1>c, <1>u, <2>7, <2>8, JobAnswers
    <3>2. toExt' = Append(toExt, Result(q, x))
      BY <2>6, <2>8 DEF Answer
    <3> QED BY <2>1, <2>4, <3>1, <3>2
  <2> QED BY <1>k, <2>1, <2>4, <2>5, <2>6, <2>8 DEF Answer
<1>6. CASE handle_sign_partial(h)
  <2> DEFINE q == Head(toHost[h]).r
  <2>1. Takes(h, "partial") /\ UNCHANGED JOBS
    BY <1>6 DEF handle_sign_partial
  <2>2. q \in Spends /\ \A r : Of(Head(toHost[h]), "partial", r) <=> r = q
    BY <1>t, <2>1, FrameParts DEF Of
  <2>3. \/ UNCHANGED toExt /\ serving' = [serving EXCEPT ![h] = Waiting(q)]
        \/ Answer(h, Result(q, "error")) /\ UNCHANGED serving
    BY <1>6 DEF handle_sign_partial
  <2> HIDE DEF q
  <2>4. /\ Result(q, "error") \in Answers /\ Result(q, "error").res # "ok"
        /\ \A r : ~Of(Result(q, "error"), "preview", r) /\ (Of(Result(q, "error"), "result", r) => r = q)
    BY <2>2, AnswerFacts DEF Result, Of, Requests
  <2>5. \/ UNCHANGED serving
        \/ serving'[h] = Waiting(q) /\ \A g \in Hosts \ {h} : serving'[g] = serving[g]
    BY <2>3 DEF TypeOK
  <2>6. \A r : serving'[h] = Waiting(r) => r = q
    <3>1. CASE UNCHANGED serving
      BY <1>t, <1>u, <2>1, <3>1
    <3>2. CASE serving'[h] = Waiting(q)
      BY <3>2 DEF Waiting
    <3> QED BY <2>5, <3>1, <3>2
  <2>7. ASSUME nativePort = h, NEW r \in Spends
        PROVE  Job(toHost'[h], toExt', JOBS'[h], serving'[h], st[r], r)
    <3>1. /\ Job(Tail(toHost[h]), toExt, JOBS[h], Idle, st[r], r)
          /\ Of(Head(toHost[h]), "partial", r) => st[r] \notin {"new", "asked"}
      BY <1>w, <2>1, <2>7
    <3>2. r = q => st[r] \notin {"new", "asked"}
      BY <2>2, <3>1
    <3>3. CASE UNCHANGED toExt
      <4>1. Job(Tail(toHost[h]), toExt, JOBS[h], serving'[h], st[r], r)
        BY <2>6, <3>1, <3>2, JobWorks
      <4> QED BY <1>t, <2>1, <3>3, <4>1
    <3>4. CASE Answer(h, Result(q, "error"))
      <4>1. Job(Tail(toHost[h]), Append(toExt, Result(q, "error")), JOBS[h], serving'[h], st[r], r)
        BY <1>u, <2>4, <2>6, <3>1, <3>2, JobAnswers
      <4>2. toExt' = Append(toExt, Result(q, "error"))
        BY <2>7, <3>4 DEF Answer
      <4> QED BY <1>t, <2>1, <4>1, <4>2
    <3> QED BY <2>3, <3>3, <3>4
  <2> QED BY <1>k, <1>t, <2>1, <2>3, <2>5, <2>7 DEF Answer
<1>7. CASE sign_partial_returns(h)
  <2> DEFINE q == serving[h].r
  <2>1. serving[h].m = "waiting" /\ UNCHANGED toHost /\ JOBS' = [JOBS EXCEPT ![h] = @ \ {q}]
    BY <1>7 DEF sign_partial_returns
  <2>2. q \in Spends /\ serving[h] = Waiting(q)
    BY <2>1, TaskParts DEF TypeOK
  <2>3. \E x \in {"ok", "wrong", "error"} : Answer(h, Result(q, x))
    BY <1>7 DEF sign_partial_returns
  <2>4. serving'[h] = Idle /\ \A g \in Hosts \ {h} : serving'[g] = serving[g]
    BY <1>7 DEF sign_partial_returns, TypeOK
  <2>5. h <= started
    BY <1>v, <2>1
  <2> HIDE DEF q
  <2>6. PICK x \in {"ok", "wrong", "error"} : Answer(h, Result(q, x))
    BY <2>3
  <2>7. /\ Result(q, x) \in Answers
        /\ \A r : ~Of(Result(q, x), "preview", r) /\ (Of(Result(q, x), "result", r) => r = q)
    BY <2>2, AnswerFacts DEF Result, Of, Requests
  <2>8. JOBS'[h] = JOBS[h] \ {q} /\ \A g \in Hosts \ {h} : JOBS'[g] = JOBS[g]
    BY <2>1 DEF TypeOK
  <2>9. ASSUME nativePort = h, NEW r \in Spends
        PROVE  Job(toHost'[h], toExt', JOBS'[h], serving'[h], st[r], r)
    <3>1. Job(toHost[h], toExt, JOBS[h], serving[h], st[r], r)
      BY <1>c, <2>9
    <3>2. r = q => st[r] \notin {"new", "asked"}
      BY <2>2, <3>1 DEF Job
    <3>3. r \in JOBS[h] \ {q} => r \in JOBS[h] /\ r # q
      OBVIOUS
    <3>4. Job(toHost[h], Append(toExt, Result(q, x)), JOBS[h] \ {q}, Idle, st[r], r)
      BY <1>u, <2>7, <3>1, <3>2, <3>3, JobAnswers
    <3>5. toExt' = Append(toExt, Result(q, x))
      BY <2>6, <2>9 DEF Answer
    <3> QED BY <2>1, <2>4, <2>8, <3>4, <3>5
  <2> QED BY <1>k, <2>1, <2>4, <2>5, <2>6, <2>8, <2>9 DEF Answer
<1>8. CASE serve_ends(h)
  BY <1>b, <1>8 DEF serve_ends, JobInv
<1> QED BY <1>1, <1>2, <1>3, <1>4, <1>5, <1>6, <1>7, <1>8 DEF HostStep

LEMMA JobAround ==
  ASSUME TypeOK, JobInv, (\E q \in Spends : send(q) \/ emit(q) \/ dies(q)) \/ MoveCard
  PROVE  JobInv'
<1> USE DEF pipes, host, history, worker
<1>1. UNCHANGED <<nativePort, started, st, toHost, toExt, JOBS>>
  BY DEF send, emit, dies, MoveCard
<1>2. CASE UNCHANGED serving
  BY <1>1, <1>2 DEF JobInv
<1>3. CASE MoveCard
  <2>1. \A h \in Hosts : /\ \A r : serving'[h] = Waiting(r) => serving[h] = Waiting(r)
                         /\ serving[h] = Idle => serving'[h] = Idle
    <3> TAKE h \in Hosts
    <3>1. CASE serving[h].m = "session"
      <4>1. serving'[h] = Session(serving[h].r, serving[h].card, FALSE)
        BY <1>3, <3>1 DEF MoveCard
      <4> QED BY <3>1, <4>1, TaskFacts DEF Session, Waiting
    <3>2. CASE serving[h].m # "session"
      BY <1>3, <3>2 DEF MoveCard
    <3> QED BY <3>1, <3>2
  <2>2. nativePort # 0 => nativePort \in Hosts
    BY BoundAssumption DEF TypeOK, Hosts
  <2>3. ASSUME nativePort # 0, NEW r \in Spends
        PROVE  Job(toHost[nativePort], toExt, JOBS[nativePort], serving'[nativePort], st[r], r)
    <3>1. Job(toHost[nativePort], toExt, JOBS[nativePort], serving[nativePort], st[r], r)
      BY <2>3 DEF JobInv
    <3>2. serving'[nativePort] = Waiting(r) => st[r] \notin {"new", "asked"}
      BY <2>1, <2>2, <2>3, <3>1 DEF Job
    <3> QED BY <3>1, <3>2, JobWorks
  <2> QED BY <1>1, <2>1, <2>3 DEF JobInv
<1> QED BY <1>2, <1>3 DEF send, emit, dies

LEMMA JobNext == PinInv /\ JobInv /\ [Next]_vars => JobInv'
<1> SUFFICES ASSUME PinInv, JobInv, [Next]_vars PROVE JobInv'
  OBVIOUS
<1>0. TypeOK
  BY DEF PinInv
<1>1. CASE cardInfo \/ cacheInfo \/ onInfo \/ onPreview
             \/ (\E q \in Signs : requestSignature(q))
             \/ (\E q \in Spends : bitcoinSpend(q))
             \/ (\E q \in Requests : displayed(q) \/ approve(q) \/ cancelApproval(q))
             \/ onResult \/ onDisconnect
  BY <1>1, JobWorker
<1>2. CASE UNCHANGED vars
  BY <1>2 DEF vars, worker, pipes, host, history, JobInv
<1> QED BY <1>0, <1>1, <1>2, JobHost, JobAround DEF Next

\* No job of a connected host is left over: the approval it was built for can
\* still end it, is about to open, or has its cancel on the way (cancelApproval
\* and its cleanup in background.js; handle_preview and _JOBS of the host).
THEOREM JobsOwned == Spec => []JobOwned
<1>1. Init => JobInv
  BY DEF Init, JobInv
<1>2. PinInv /\ JobInv => JobOwned
  <2> SUFFICES ASSUME TypeOK, JobInv, NEW h \in Hosts \ dead, NEW r \in Spends,
                      r \in JOBS[h], nativePort = h
               PROVE  \/ r \in approvals
                      \/ \E i \in 1..Len(toExt) : toExt[i].m = "preview" /\ toExt[i].r = r
                      \/ \E i \in 1..Len(toHost[h]) : toHost[h][i].m = "cancel" /\ r \in toHost[h][i].of
    BY DEF JobOwned, PinInv
  <2>1. nativePort # 0
    BY BoundAssumption DEF Hosts
  <2>2. st[r] \in Pending \/ Has(toExt, "preview", r) \/ Cancels(toHost[h], r)
    BY <2>1 DEF JobInv, Job
  <2>3. CASE st[r] \in Pending
    BY <2>3 DEF approvals, Pending, Requests
  <2>4. CASE Has(toExt, "preview", r)
    BY <2>4 DEF Has, Of, El
  <2>5. CASE Cancels(toHost[h], r)
    BY <2>5 DEF Cancels, El
  <2> QED BY <2>2, <2>3, <2>4, <2>5
<1> QED BY <1>1, <1>2, JobNext, PinInvariant, PTL DEF Spec
=============================================================================
