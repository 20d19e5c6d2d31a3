------------------------ MODULE CardDashboardProofs ------------------------
(***************************************************************************)
(* What holds of the dashboard server, the tokens and pairing of the       *)
(* helpers and the policy of the Ethereum signers for any cards, readers,  *)
(* requests, processes and bounds.                                         *)
(***************************************************************************)
EXTENDS CardDashboard, FiniteSetTheorems, TLAPS

-----------------------------------------------------------------------------
(* Ranks in a finite set that a relation R (a set of pairs) orders.        *)

Below(S, R, x) == {y \in S : <<y, x>> \in R}
Orders(R, S) ==
  /\ \A x \in S : <<x, x>> \notin R
  /\ \A x, y \in S : x # y => <<x, y>> \in R \/ <<y, x>> \in R
  /\ \A x, y, z \in S : <<x, y>> \in R /\ <<y, z>> \in R => <<x, z>> \in R

\* Elements of a finite ordered set have different numbers of predecessors, each
\* smaller than the size of the set.
LEMMA Ranks ==
  ASSUME NEW S, IsFiniteSet(S), NEW R, Orders(R, S)
  PROVE  /\ \A x \in S : Cardinality(Below(S, R, x)) \in 0..Cardinality(S) - 1
         /\ \A x, y \in S : Cardinality(Below(S, R, x)) = Cardinality(Below(S, R, y)) => x = y
<1>1. ASSUME NEW x \in S
      PROVE  /\ IsFiniteSet(Below(S, R, x))
             /\ Cardinality(Below(S, R, x)) \in Nat
             /\ Cardinality(Below(S, R, x)) < Cardinality(S)
  <2>1. Below(S, R, x) \in SUBSET S /\ x \notin Below(S, R, x)
    BY DEF Below, Orders
  <2>2. Below(S, R, x) # S
    BY <2>1
  <2>3. IsFiniteSet(Below(S, R, x)) /\ Cardinality(Below(S, R, x)) <= Cardinality(S)
        /\ Cardinality(Below(S, R, x)) # Cardinality(S)
    BY <2>1, <2>2, FS_Subset
  <2>4. Cardinality(Below(S, R, x)) \in Nat /\ Cardinality(S) \in Nat
    BY <2>3, FS_CardinalityType
  <2> QED BY <2>3, <2>4
<1>2. Cardinality(S) \in Nat
  BY FS_CardinalityType
<1>3. ASSUME NEW x \in S, NEW y \in S, <<x, y>> \in R
      PROVE  Cardinality(Below(S, R, x)) < Cardinality(Below(S, R, y))
  <2>1. Below(S, R, x) \in SUBSET Below(S, R, y)
    BY <1>3 DEF Below, Orders
  <2>2. x \in Below(S, R, y) /\ x \notin Below(S, R, x)
    BY <1>3 DEF Below, Orders
  <2>3. Below(S, R, x) # Below(S, R, y)
    BY <2>2
  <2>4. Cardinality(Below(S, R, x)) <= Cardinality(Below(S, R, y))
        /\ Cardinality(Below(S, R, x)) # Cardinality(Below(S, R, y))
    BY <1>1, <2>1, <2>3, FS_Subset
  <2> QED BY <1>1, <2>4
<1>4. ASSUME NEW x \in S, NEW y \in S, x # y
      PROVE  Cardinality(Below(S, R, x)) # Cardinality(Below(S, R, y))
  <2>1. <<x, y>> \in R \/ <<y, x>> \in R
    BY <1>4 DEF Orders
  <2>2. Cardinality(Below(S, R, x)) < Cardinality(Below(S, R, y))
        \/ Cardinality(Below(S, R, y)) < Cardinality(Below(S, R, x))
    BY <1>3, <2>1
  <2> QED BY <1>1, <2>2
<1> QED BY <1>1, <1>2, <1>4

\* A finite ordered set that is not empty has an element without predecessors.
LEMMA Least ==
  ASSUME NEW S, IsFiniteSet(S), S # {}, NEW R, Orders(R, S)
  PROVE  \E x \in S : Below(S, R, x) = {}
<1> DEFINE n == Cardinality(S)
           rank == [x \in S |-> Cardinality(Below(S, R, x))]
<1>1. n \in Nat /\ n # 0
  BY FS_CardinalityType, FS_EmptySet
<1>2. rank \in Injection(S, 0..n - 1)
  BY Ranks DEF Injection, IsInjective
<1>3. IsFiniteSet(0..n - 1) /\ Cardinality(0..n - 1) = n
  BY <1>1, FS_Interval
<1>4. rank \in Surjection(S, 0..n - 1)
  BY <1>2, <1>3, FS_Injection
<1>5. PICK x \in S : rank[x] = 0
  <2>1. 0 \in 0..n - 1
    BY <1>1
  <2> HIDE DEF rank, n
  <2> QED BY <1>4, <2>1 DEF Surjection
<1>6. Below(S, R, x) \in SUBSET S /\ Cardinality(Below(S, R, x)) = 0
  BY <1>5 DEF Below
<1>7. Below(S, R, x) = {}
  BY <1>6, FS_Subset, FS_EmptySet
<1> QED BY <1>7

\* At most k elements of a finite ordered set have fewer than k predecessors.
LEMMA Fewest ==
  ASSUME NEW S, IsFiniteSet(S), NEW R, Orders(R, S), NEW k \in Nat
  PROVE  LET T == {x \in S : Cardinality(Below(S, R, x)) < k}
         IN  IsFiniteSet(T) /\ Cardinality(T) <= k
<1> DEFINE T == {x \in S : Cardinality(Below(S, R, x)) < k}
           rank == [x \in T |-> Cardinality(Below(S, R, x))]
<1>1. rank \in Injection(T, 0..k - 1)
  BY Ranks DEF Injection, IsInjective
<1>2. IsFiniteSet(0..k - 1) /\ Cardinality(0..k - 1) = k
  BY FS_Interval
<1>3. IsFiniteSet(T) /\ Cardinality(T) <= k
  BY <1>1, <1>2, FS_Injection
<1> QED BY <1>3

-----------------------------------------------------------------------------
\* First finds a member.
LEMMA FirstIn ==
  ASSUME NEW n \in Nat, NEW S \in SUBSET (1..n), S # {}
  PROVE  First(S) \in S
<1> DEFINE R == {p \in S \X S : p[1] < p[2]}
<1>1. IsFiniteSet(S)
  <2>1. IsFiniteSet(1..n)
    BY FS_Interval
  <2> QED BY <2>1, FS_Subset
<1>2. Orders(R, S)
  BY DEF Orders
<1>3. PICK x \in S : Below(S, R, x) = {}
  BY <1>1, <1>2, Least
<1>4. ASSUME NEW y \in S PROVE x <= y
  <2>1. <<y, x>> \notin R
    BY <1>3 DEF Below
  <2>2. ~(y < x)
    BY <2>1
  <2>3. x \in Nat /\ y \in Nat
    OBVIOUS
  <2> QED BY <2>2, <2>3
<1> QED BY <1>4 DEF First

-----------------------------------------------------------------------------
(* Types: readers, cards and the tool.                                      *)

PolicyTypes == PolicyTypeOK /\ applet \in Connection

LEMMA AnsweringFirst ==
  ASSUME NEW aid, NEW f, Answering(aid, f) # {}
  PROVE  /\ First(Answering(aid, f)) \in Readers
         /\ Ladder(First(Answering(aid, f)), aid, f[First(Answering(aid, f))]) = "ok"
<1>1. Answering(aid, f) \in SUBSET (1..NumReaders)
  BY DEF Answering, Readers
<1>2. First(Answering(aid, f)) \in Answering(aid, f)
  BY <1>1, FirstIn, EthPolicyAssumption
<1> QED BY <1>2 DEF Answering

\* open_applet succeeds only with a card that answers.
LEMMA OpenOk ==
  ASSUME NEW aid, NEW f, OpenApplet(aid, f) = "ok"
  PROVE  Answering(aid, f) # {}
<1> SUFFICES ASSUME Answering(aid, f) = {} PROVE FALSE
  OBVIOUS
<1> DEFINE codes == {Ladder(i, aid, f[i]) : i \in Readers}
           rank == <<"NO_APPLET", "TRANSPORT", "NO_CARD">>
           found == {k \in 1..3 : rank[k] \in codes}
<1>1. 1 \in Readers
  BY EthPolicyAssumption DEF Readers
<1>2. Ladder(1, aid, f[1]) \in {"NO_APPLET", "TRANSPORT", "NO_CARD"}
  BY <1>1 DEF Answering, Ladder
<1>3. found # {}
  <2>1. Ladder(1, aid, f[1]) \in codes
    BY <1>1
  <2>2. rank[1] \in codes \/ rank[2] \in codes \/ rank[3] \in codes
    BY <1>2, <2>1
  <2> QED BY <2>2
<1>4. First(found) \in found
  BY <1>3, FirstIn
<1>5. OpenApplet(aid, f) = rank[First(found)]
  BY DEF OpenApplet
<1> QED BY <1>4, <1>5

LEMMA FailBound ==
  ASSUME PolicyTypeOK, NEW f \in Faults, Fail(f)
  PROVE  faults' \in 0..MaxFaults
<1>1. Faulty(f) => faults < MaxFaults
  BY DEF Faults, Faulty
<1> QED BY <1>1, EthPolicyAssumption DEF Fail, PolicyTypeOK

LEMMA SelectType ==
  ASSUME PolicyTypeOK, NEW i, NEW aid \in AIDs, Select(i, aid)
  PROVE  selected' \in [Readers -> AIDs \cup {"none"}]
BY DEF PolicyTypeOK, Select

LEMMA ConnType ==
  ASSUME PolicyTypeOK, NEW i \in Readers
  PROVE  Conn(i) \in Connection
BY DEF PolicyTypeOK, Conn, Connection

LEMMA ToolKeepsTypes ==
  ASSUME PolicyTypeOK, ToolNext
  PROVE  PolicyTypeOK'
<1> USE EthPolicyAssumption
<1>1. CASE StartTool
  BY <1>1 DEF StartTool, PolicyTypeOK, Tool, ToolPC, pcsc
<1>2. CASE OpenEth2
  <2>1. PICK f \in Faults :
          /\ Fail(f)
          /\ tool' = [tool EXCEPT !.pc = IF OpenApplet("eth2", f) = "NO_APPLET" THEN "confirm"
                                         ELSE "refused"]
          /\ IF Answering("eth2", f) # {} THEN Select(First(Answering("eth2", f)), "eth2")
             ELSE UNCHANGED selected
    BY <1>2 DEF OpenEth2
  <2>2. tool' \in Tool
    BY <2>1 DEF PolicyTypeOK, Tool, ToolPC
  <2>3. selected' \in [Readers -> AIDs \cup {"none"}]
    BY <2>1, SelectType DEF AIDs, PolicyTypeOK
  <2> QED BY <1>2, <2>1, <2>2, <2>3, FailBound DEF OpenEth2, PolicyTypeOK
<1>3. CASE ConfirmEth2Absent
  <2>1. PICK f \in Faults :
          /\ Fail(f)
          /\ Select(tool.next, "eth2") \/ UNCHANGED selected
          /\ \E confirmed, faulty, undisturbed \in BOOLEAN :
               tool' = [tool EXCEPT !.next = @ + 1, !.confirmed = confirmed, !.faulty = faulty,
                                    !.undisturbed = undisturbed]
    BY <1>3 DEF ConfirmEth2Absent, PolicyTypeOK, Tool
  <2>2. tool' \in Tool
    <3>1. tool \in Tool /\ tool.next + 1 \in 1..NumReaders + 1
      BY <1>3 DEF ConfirmEth2Absent, PolicyTypeOK, Tool
    <3> QED BY <2>1, <3>1 DEF Tool
  <2>3. selected' \in [Readers -> AIDs \cup {"none"}]
    BY <2>1, SelectType DEF AIDs, PolicyTypeOK
  <2> QED BY <1>3, <2>1, <2>2, <2>3, FailBound DEF ConfirmEth2Absent, PolicyTypeOK
<1>4. CASE Confirmed
  BY <1>4 DEF Confirmed, Go, PolicyTypeOK, Tool, ToolPC, pcsc
<1>5. CASE OpenEth1
  <2>1. PICK f \in Faults :
          /\ Fail(f)
          /\ IF Answering("eth1", f) = {} THEN Go("refused") /\ UNCHANGED selected
             ELSE LET i == First(Answering("eth1", f))
                  IN  /\ tool' = [tool EXCEPT !.pc = "version", !.conn = Conn(i)]
                      /\ Select(i, "eth1")
    BY <1>5 DEF OpenEth1
  <2>2. tool' \in Tool
    <3>1. CASE Answering("eth1", f) = {}
      BY <2>1, <3>1 DEF Go, PolicyTypeOK, Tool, ToolPC
    <3>2. CASE Answering("eth1", f) # {}
      <4>1. Conn(First(Answering("eth1", f))) \in Connection
        BY <3>2, AnsweringFirst, ConnType
      <4> QED BY <2>1, <3>2, <4>1 DEF PolicyTypeOK, Tool, ToolPC
    <3> QED BY <3>1, <3>2
  <2>3. selected' \in [Readers -> AIDs \cup {"none"}]
    BY <2>1, SelectType DEF AIDs, PolicyTypeOK
  <2> QED BY <1>5, <2>1, <2>2, <2>3, FailBound DEF OpenEth1, PolicyTypeOK
<1>6. CASE GetVersion
  BY <1>6 DEF GetVersion, Command, Go, PolicyTypeOK, Tool, ToolPC
<1>7. CASE Keygen
  <2>1. \E wiped \in BOOLEAN : tool' = [tool EXCEPT !.pc = "sign", !.wiped = wiped]
    BY <1>7 DEF Keygen, PolicyTypeOK, Tool
  <2>2. tool' \in Tool
    <3>1. PICK wiped \in BOOLEAN : tool' = [tool EXCEPT !.pc = "sign", !.wiped = wiped]
      BY <2>1
    <3>2. tool \in Tool /\ "sign" \in ToolPC
      BY DEF PolicyTypeOK, ToolPC
    <3> QED BY <3>1, <3>2, Zenon DEF Tool
  <2> QED BY <1>7, <2>2 DEF Keygen, Command, PolicyTypeOK
<1>8. CASE SignTest
  <2>1. selected' \in [Readers -> AIDs \cup {"none"}]
    BY <1>8, SelectType DEF SignTest, AIDs
  <2> QED BY <1>8, <2>1 DEF SignTest, Go, PolicyTypeOK, Tool, ToolPC
<1>9. CASE ToolFails
  BY <1>9 DEF ToolFails, Lost, Command, Go, PolicyTypeOK, Tool, ToolPC
<1> QED BY <1>1, <1>2, <1>3, <1>4, <1>5, <1>6, <1>7, <1>8, <1>9 DEF ToolNext

-----------------------------------------------------------------------------
(* Types: the whole state.                                                  *)

Commands == AIDs \cup {"atr", "read", "version", "pubkey", "sign", "keygen"}
Request == [pc : RequestPC, kind : Kinds \cup {"page"}, todo : Seq(Commands),
            deadline : 0..MaxTime, pub : Cards \cup {NoCard}]

TypeInv ==
  /\ PolicyTypes /\ AuthTypeOK
  /\ request \in [Requests -> Request] /\ cardLock \in Requests \cup {None}

\* The actions of a request that leave readers, applets and tool alone.
AtDesk(r) ==
  Accept(r) \/ Begin(r) \/ BeginRefuses(r) \/ Body(r) \/ Pair(r) \/ Deadline(r) \/ TakeLock(r) \/ Reply(r)

LEMMA DeskLeavesCards ==
  ASSUME NEW r \in Requests, AtDesk(r) \/ TransmitToEth(r) \/ Transmit(r)
  PROVE  UNCHANGED <<pcsc, tool, applet>>
BY DEF AtDesk, Accept, Begin, BeginRefuses, Body, Pair, Deadline, TakeLock, Reply, TransmitToEth,
       Transmit, card, cardFrame, pcsc

LEMMA ConnectionAidsType ==
  ASSUME NEW k \in DOMAIN ConnectionAids
  PROVE  k \in 1..5 /\ ConnectionAids[k] \in AIDs
<1>1. CASE DemoAllowed
  BY <1>1 DEF ConnectionAids, AIDs
<1>2. CASE ~DemoAllowed
  BY <1>2 DEF ConnectionAids, AIDs
<1> QED BY <1>1, <1>2

LEMMA PolicyKept ==
  ASSUME TypeInv, Next
  PROVE  PolicyTypes'
<1> USE EthPolicyAssumption DEF TypeInv, PolicyTypes
<1>1. ASSUME UNCHANGED <<pcsc, tool, applet>> PROVE PolicyTypes'
  BY <1>1 DEF PolicyTypeOK, pcsc
<1>2. CASE AuthNext /\ UNCHANGED <<pcsc, tool, now, pairing, serving>>
  BY <1>1, <1>2 DEF serving
<1>3. CASE Tick
  BY <1>1, <1>3 DEF Tick, card
<1>4. CASE OneClient /\ ToolNext /\ UNCHANGED <<token, now, pairing, serving>>
  BY <1>4, ToolKeepsTypes DEF serving
<1>5. CASE Swap /\ UNCHANGED <<token, now, pairing, serving>>
  <2>1. reader' \in [Readers -> [card : Cards \cup {NoCard}, gen : 0..MaxSwaps]]
    BY <1>5 DEF Swap, PolicyTypeOK
  <2>2. selected' \in [Readers -> AIDs \cup {"none"}]
    BY <1>5 DEF Swap, PolicyTypeOK
  <2>3. tool' \in Tool
    BY <1>5 DEF Swap, PolicyTypeOK, Tool
  <2>4. swaps' \in 0..MaxSwaps /\ faults' \in 0..MaxFaults
    BY <1>5 DEF Swap, PolicyTypeOK
  <2> QED BY <1>5, <2>1, <2>2, <2>3, <2>4 DEF PolicyTypeOK, serving
<1>6. ASSUME NEW r \in Requests, Thread(r) PROVE PolicyTypes'
  <2>1. CASE AtDesk(r) \/ TransmitToEth(r) \/ Transmit(r)
    BY <1>1, <2>1, DeskLeavesCards
  <2>2. CASE Connect(r)
    <3>1. PICK f \in Faults :
            LET tried == {k \in DOMAIN ConnectionAids : OpenApplet(ConnectionAids[k], f) # "NO_APPLET"}
                aid == ConnectionAids[First(tried)]
                i == First(Answering(aid, f))
            IN  /\ Fail(f)
                /\ IF tried # {} /\ OpenApplet(aid, f) = "ok"
                   THEN applet' = Conn(i) /\ Select(i, aid) /\ UNCHANGED request
                   ELSE Raise(r) /\ UNCHANGED <<applet, selected>>
      BY <2>2 DEF Connect
    <3> DEFINE tried == {k \in DOMAIN ConnectionAids : OpenApplet(ConnectionAids[k], f) # "NO_APPLET"}
               aid == ConnectionAids[First(tried)]
    <3>2. faults' \in 0..MaxFaults
      BY <3>1, FailBound
    <3>3. CASE tried # {} /\ OpenApplet(aid, f) = "ok"
      <4>1. tried \in SUBSET (1..5)
        BY ConnectionAidsType
      <4>2. First(tried) \in tried
        BY <3>3, <4>1, FirstIn
      <4>3. aid \in AIDs
        BY <4>2, ConnectionAidsType
      <4>4. applet' = Conn(First(Answering(aid, f))) /\ Select(First(Answering(aid, f)), aid)
        BY <3>1, <3>3
      <4> HIDE DEF aid
      <4>5. applet' \in Connection
        BY <3>3, <4>4, OpenOk, AnsweringFirst, ConnType
      <4>6. selected' \in [Readers -> AIDs \cup {"none"}]
        BY <4>3, <4>4, SelectType
      <4> QED BY <2>2, <3>2, <4>5, <4>6 DEF Connect, cardFrame, PolicyTypeOK
    <3>4. CASE ~(tried # {} /\ OpenApplet(aid, f) = "ok")
      BY <2>2, <3>1, <3>2, <3>4 DEF Connect, cardFrame, PolicyTypeOK
    <3> QED BY <3>3, <3>4
  <2>3. CASE TransmitFails(r)
    BY <2>3 DEF TransmitFails, cardFrame, PolicyTypeOK, NoConn, Connection
  <2>4. CASE SelectAid(r)
    <3>1. PICK strange \in BOOLEAN :
            /\ strange => faults < MaxFaults
            /\ faults' = faults + (IF strange THEN 1 ELSE 0)
            /\ IF strange THEN UNCHANGED selected ELSE Select(applet.at, Next1(r))
      BY <2>4 DEF SelectAid
    <3>2. selected' \in [Readers -> AIDs \cup {"none"}]
      BY <2>4, <3>1, SelectType DEF SelectAid, PolicyTypeOK
    <3>3. faults' \in 0..MaxFaults
      BY <3>1 DEF PolicyTypeOK
    <3> QED BY <2>4, <3>2, <3>3 DEF SelectAid, cardFrame, PolicyTypeOK
  <2> QED BY <1>6, <2>1, <2>2, <2>3, <2>4 DEF Thread, AtDesk
<1> QED BY <1>2, <1>3, <1>4, <1>5, <1>6 DEF Next

\* Counted: fewer sessions were handed out than codes were drawn.
Counted == IsFiniteSet(paired) /\ Cardinality(paired) < code.number

LEMMA StartersKept ==
  ASSUME AuthTypeOK, AuthNext
  PROVE  /\ starter' \in [Starters -> [pc : StarterPC, token : TokenValue \cup {None}]]
         /\ tokenFile' \in TokenValue \cup {None, "bad"} /\ temps' \subseteq Starters
<1> PICK s \in Starters : ReadToken(s) \/ WriteTemp(s) \/ LinkToken(s) \/ UnlinkTemp(s) \/ StarterKilled(s)
  BY DEF AuthNext
<1>1. CASE ReadToken(s)
  <2>1. starter[s] \in [pc : StarterPC, token : TokenValue \cup {None}]
    BY DEF AuthTypeOK
  <2>2. starter'[s] \in [pc : StarterPC, token : TokenValue \cup {None}]
        /\ starter' = [starter EXCEPT ![s] = starter'[s]]
    BY <1>1, <2>1 DEF ReadToken, AuthTypeOK, StarterPC
  <2> QED BY <1>1, <2>2 DEF ReadToken, AuthTypeOK
<1>2. CASE WriteTemp(s)
  BY <1>2 DEF WriteTemp, Move, AuthTypeOK, StarterPC
<1>3. CASE LinkToken(s)
  BY <1>3 DEF LinkToken, Move, AuthTypeOK, StarterPC, TokenValue
<1>4. CASE UnlinkTemp(s)
  BY <1>4 DEF UnlinkTemp, Move, AuthTypeOK, StarterPC
<1>5. CASE StarterKilled(s)
  BY <1>5 DEF StarterKilled, Move, AuthTypeOK, StarterPC
<1> QED BY <1>1, <1>2, <1>3, <1>4, <1>5

LEMMA RotateTypes ==
  ASSUME AuthTypeOK, code.number < MaxCodes, Rotate
  PROVE  /\ code' \in [number : 1..MaxCodes, expires : 0..MaxTime + CodeTTL]
         /\ failures' \in 0..MaxFailures - 1
         /\ code'.number = code.number + 1
BY AuthAssumption DEF AuthTypeOK, Rotate

LEMMA PairKeepsTypes ==
  ASSUME AuthTypeOK, Counted, NEW given, PairOk(given) \/ PairDenied(given),
         UNCHANGED <<token, now>>
  PROVE  AuthTypeOK' /\ Counted'
<1> USE AuthAssumption
<1>1. starter' = starter /\ tokenFile' = tokenFile /\ temps' = temps
  BY DEF token
<1>2. CASE PairOk(given)
  <2> DEFINE id == Cardinality(paired) + 1
  <2>1. Cardinality(paired) \in Nat
    BY FS_CardinalityType DEF Counted
  <2>2. code.number < MaxCodes /\ Rotate /\ given = code.number
    BY <1>2 DEF PairOk, Guess
  <2>3. id \in 1..MaxCodes /\ given \in 1..MaxCodes
    BY <2>1, <2>2 DEF Counted, AuthTypeOK
  <2>4. now + SessionTTL \in 0..MaxTime + SessionTTL
    BY DEF AuthTypeOK
  <2>5. sessions' = Evict(Prune(sessions)) \cup {[id |-> id, expires |-> now + SessionTTL]}
        /\ paired' = paired \cup {[id |-> id, code |-> given, at |-> now]}
    BY <1>2 DEF PairOk
  <2>6. sessions' \subseteq Session
    BY <2>3, <2>4, <2>5 DEF Evict, Prune, Session, AuthTypeOK
  <2>7. paired' \subseteq [id : 1..MaxCodes, code : 1..MaxCodes, at : 0..MaxTime]
    BY <2>3, <2>5 DEF AuthTypeOK
  <2> HIDE DEF id
  <2>8. IsFiniteSet(paired') /\ Cardinality(paired') <= Cardinality(paired) + 1
    <3>1. PICK x : paired' = paired \cup {x}
      BY <2>5
    <3>2. IsFiniteSet(paired)
      BY DEF Counted
    <3>3. /\ IsFiniteSet(paired \cup {x})
          /\ Cardinality(paired \cup {x}) \in {Cardinality(paired), Cardinality(paired) + 1}
      BY <3>2, FS_AddElement
    <3> QED BY <2>1, <3>1, <3>3
  <2>9. Cardinality(paired') \in Nat
    BY <2>8, FS_CardinalityType
  <2>10. code' \in [number : 1..MaxCodes, expires : 0..MaxTime + CodeTTL]
         /\ failures' \in 0..MaxFailures - 1 /\ code'.number = code.number + 1
    BY <2>2, RotateTypes
  <2>11. Counted'
    BY <2>1, <2>8, <2>9, <2>10 DEF Counted, AuthTypeOK
  <2> QED BY <1>1, <2>6, <2>7, <2>10, <2>11 DEF AuthTypeOK
<1>3. CASE PairDenied(given)
  <2>1. code' \in [number : 1..MaxCodes, expires : 0..MaxTime + CodeTTL]
        /\ failures' \in 0..MaxFailures - 1 /\ code'.number \in {code.number, code.number + 1}
    <3>1. CASE Rotate
      BY <1>3, <3>1, RotateTypes DEF PairDenied
    <3>2. CASE ~Rotate
      <4>1. failures' = failures + 1 /\ code' = code /\ failures + 1 < MaxFailures
        BY <1>3, <3>2 DEF PairDenied, AuthTypeOK
      <4> QED BY <4>1 DEF AuthTypeOK
    <3> QED BY <3>1, <3>2
  <2>2. sessions' = sessions /\ paired' = paired
    BY <1>3 DEF PairDenied
  <2>3. Cardinality(paired) \in Nat
    BY FS_CardinalityType DEF Counted
  <2>4. Counted'
    BY <2>1, <2>2, <2>3 DEF Counted, AuthTypeOK
  <2> QED BY <1>1, <2>1, <2>2, <2>4 DEF AuthTypeOK
<1> QED BY <1>2, <1>3

\* What a request does to tokens and pairing.
LEMMA ThreadAuth ==
  ASSUME NEW r \in Requests, Thread(r)
  PROVE  /\ UNCHANGED <<token, now>>
         /\ UNCHANGED pairing \/ LookUp \/ \E given \in 0..code.number : PairOk(given) \/ PairDenied(given)
<1>1. CASE Begin(r)
  BY <1>1 DEF Begin
<1>2. CASE Pair(r)
  BY <1>2 DEF Pair
<1>3. CASE Accept(r) \/ BeginRefuses(r) \/ Body(r) \/ Deadline(r) \/ TakeLock(r) \/ Reply(r)
  BY <1>3 DEF Accept, BeginRefuses, Body, Deadline, TakeLock, Reply
<1>4. CASE Connect(r) \/ TransmitFails(r) \/ SelectAid(r) \/ TransmitToEth(r) \/ Transmit(r)
  BY <1>4 DEF Connect, TransmitFails, SelectAid, TransmitToEth, Transmit, cardFrame
<1> QED BY <1>1, <1>2, <1>3, <1>4 DEF Thread

LEMMA AuthKept ==
  ASSUME AuthTypeOK, Counted, Next
  PROVE  AuthTypeOK' /\ Counted'
<1> USE AuthAssumption
<1>1. ASSUME UNCHANGED <<token, now, pairing>> PROVE AuthTypeOK' /\ Counted'
  BY <1>1 DEF AuthTypeOK, Counted, token, pairing
<1>2. CASE AuthNext /\ UNCHANGED <<pcsc, tool, now, pairing, serving>>
  BY <1>2, StartersKept DEF AuthTypeOK, Counted, pairing
<1>3. CASE Tick
  BY <1>3 DEF Tick, token, pairing, AuthTypeOK, Counted
<1>4. CASE \/ OneClient /\ ToolNext /\ UNCHANGED <<token, now, pairing, serving>>
           \/ Swap /\ UNCHANGED <<token, now, pairing, serving>>
  BY <1>1, <1>4
<1>5. ASSUME NEW r \in Requests, Thread(r) PROVE AuthTypeOK' /\ Counted'
  <2>1. UNCHANGED <<token, now>>
    BY <1>5, ThreadAuth
  <2>2. CASE UNCHANGED pairing
    BY <1>1, <2>1, <2>2
  <2>3. CASE LookUp
    BY <2>1, <2>3 DEF LookUp, Prune, AuthTypeOK, Counted, token
  <2>4. CASE \E given \in 0..code.number : PairOk(given) \/ PairDenied(given)
    BY <2>1, <2>4, PairKeepsTypes
  <2> QED BY <1>5, <2>2, <2>3, <2>4, ThreadAuth
<1> QED BY <1>2, <1>3, <1>4, <1>5 DEF Next

RequestTypes == request \in [Requests -> Request] /\ cardLock \in Requests \cup {None}

LEMMA IdleType ==
  ASSUME NEW place \in RequestPC
  PROVE  [Idle EXCEPT !.pc = place] \in Request
<1>1. 0 \in 0..MaxTime
  BY AuthAssumption
<1>2. Idle = [pc |-> "off", kind |-> "page", todo |-> <<>>, deadline |-> 0, pub |-> NoCard]
  BY DEF Idle
<1>3. <<>> \in Seq(Commands)
  OBVIOUS
<1>4. "off" \in RequestPC
  BY DEF RequestPC
<1>5. Idle \in Request
  BY <1>1, <1>2, <1>3, <1>4 DEF Request
<1> QED BY <1>5 DEF Request

LEMMA ScriptType == \A kind : Script(kind) \in Seq(Commands)
<1> SUFFICES ASSUME NEW kind PROVE Script(kind) \in Seq(Commands)
  OBVIOUS
<1> USE DEF Commands, AIDs
<1>1. <<"musig2", "read">> \in Seq(Commands)
  OBVIOUS
<1>2. <<"eth2", "eth1", "read">> \in Seq(Commands)
  OBVIOUS
<1>3. <<"eth2", "eth1", "pubkey", "sign">> \in Seq(Commands)
  OBVIOUS
<1>4. <<"eth2", "eth1", "version", "eth2", "eth1", "keygen">> \in Seq(Commands)
  OBVIOUS
<1>5. <<"atr", "fido2", "musig2", "totp", "eth2", "eth1">> \in Seq(Commands)
  OBVIOUS
<1>6. <<"atr", "fido2", "musig2", "totp", "eth2">> \in Seq(Commands)
  OBVIOUS
<1>7. <<>> \in Seq(Commands)
  OBVIOUS
<1> QED BY <1>1, <1>2, <1>3, <1>4, <1>5, <1>6, <1>7 DEF Script

\* The next state of one request.
LEMMA OneRequest ==
  ASSUME request \in [Requests -> Request], NEW r \in Requests, NEW q \in Request,
         request' = [request EXCEPT ![r] = q]
  PROVE  request' \in [Requests -> Request]
OBVIOUS

LEMMA AnswerType ==
  ASSUME request \in [Requests -> Request], NEW r \in Requests, Answer(r)
  PROVE  request' \in [Requests -> Request]
<1>1. [Idle EXCEPT !.pc = "reply"] \in Request
  BY IdleType DEF RequestPC
<1> QED BY <1>1, OneRequest DEF Answer

LEMMA ContinueType ==
  ASSUME request \in [Requests -> Request], NEW r \in Requests, Sending(r), Continue(r)
  PROVE  request' \in [Requests -> Request]
<1>1. request[r] \in Request /\ request[r].todo # <<>>
  BY DEF Sending
<1>2. Tail(request[r].todo) \in Seq(Commands)
  BY <1>1 DEF Request
<1>3. [request[r] EXCEPT !.todo = Tail(@)] \in Request
  BY <1>1, <1>2 DEF Request
<1>4. request' = [request EXCEPT ![r] = [request[r] EXCEPT !.todo = Tail(@)]]
  BY DEF Continue
<1> QED BY <1>3, <1>4, OneRequest

LEMMA CardStepTypes ==
  ASSUME request \in [Requests -> Request], NEW r \in Requests, Sending(r),
         Continue(r) \/ Answer(r) \/ UNCHANGED request
  PROVE  request' \in [Requests -> Request]
BY AnswerType, ContinueType

\* A command to the card: the request goes on, ends, or waits for a connection;
\* only the public key changes it otherwise.
LEMMA CardStep ==
  ASSUME NEW r \in Requests, Connect(r) \/ TransmitFails(r) \/ SelectAid(r) \/ Transmit(r)
  PROVE  /\ Sending(r) /\ UNCHANGED <<cardLock, slots>>
         /\ Continue(r) \/ Answer(r) \/ UNCHANGED request
<1>1. CASE Connect(r)
  BY <1>1 DEF Connect, Raise, cardFrame
<1>2. CASE TransmitFails(r)
  BY <1>2 DEF TransmitFails, Raise, cardFrame
<1>3. CASE SelectAid(r)
  BY <1>3 DEF SelectAid, AfterSelect, cardFrame
<1>4. CASE Transmit(r)
  BY <1>4 DEF Transmit, cardFrame
<1> QED BY <1>1, <1>2, <1>3, <1>4

LEMMA EthStep ==
  ASSUME NEW r \in Requests, TransmitToEth(r)
  PROVE  /\ Sending(r) /\ UNCHANGED <<cardLock, slots>>
         /\ \/ Answer(r)
            \/ request' = [request EXCEPT ![r].todo = Tail(@),
                             ![r].pub = IF Next1(r) = "pubkey" THEN CardAt(applet.at) ELSE @]
BY DEF TransmitToEth, cardFrame

LEMMA AliveCard ==
  ASSUME PolicyTypes, Alive(applet)
  PROVE  applet.at \in Readers /\ CardAt(applet.at) \in Cards
BY DEF PolicyTypes, PolicyTypeOK, Alive, CardAt, Connection

LEMMA ThreadTypes ==
  ASSUME PolicyTypes, AuthTypeOK, RequestTypes, NEW r \in Requests, Thread(r)
  PROVE  RequestTypes'
<1> USE AuthAssumption DEF RequestTypes
<1>0. request[r] \in Request
  OBVIOUS
<1>1. CASE Accept(r)
  <2>1. CASE slots < MaxConnections
    <3>1. now + RequestDeadline \in 0..MaxTime
      BY <1>1, DashboardAssumption DEF Accept, AuthTypeOK
    <3>2. [request[r] EXCEPT !.pc = "head", !.deadline = now + RequestDeadline] \in Request
      BY <1>0, <3>1 DEF Request, RequestPC
    <3>3. request' = [request EXCEPT ![r] = [request[r] EXCEPT !.pc = "head", !.deadline = now + RequestDeadline]]
      BY <1>1, <2>1 DEF Accept
    <3> QED BY <1>1, <3>2, <3>3, OneRequest DEF Accept, card
  <2>2. CASE ~(slots < MaxConnections)
    <3>1. [request[r] EXCEPT !.pc = "done"] \in Request
      BY <1>0 DEF Request, RequestPC
    <3>2. request' = [request EXCEPT ![r] = [request[r] EXCEPT !.pc = "done"]]
      BY <1>1, <2>2 DEF Accept, Becomes
    <3> QED BY <1>1, <3>1, <3>2, OneRequest DEF Accept, card
  <2> QED BY <2>1, <2>2
<1>2. CASE Begin(r)
  <2>1. PICK kind \in Kinds :
          \/ Answer(r)
          \/ request' = [request EXCEPT ![r].kind = kind, ![r].todo = Script(kind),
                ![r].pc = IF kind \in {"pair", "sign", "keygen"} THEN "body" ELSE "wait"]
    BY <1>2 DEF Begin
  <2>2. CASE Answer(r)
    BY <1>2, <2>2, AnswerType DEF Begin, card
  <2>3. CASE ~Answer(r)
    <3> DEFINE q == [request[r] EXCEPT !.kind = kind, !.todo = Script(kind),
                       !.pc = IF kind \in {"pair", "sign", "keygen"} THEN "body" ELSE "wait"]
    <3>1. q \in Request
      BY <1>0, ScriptType DEF Request, RequestPC
    <3>2. request' = [request EXCEPT ![r] = q]
      BY <2>1, <2>3
    <3> HIDE DEF q
    <3> QED BY <1>2, <3>1, <3>2, OneRequest DEF Begin, card
  <2> QED BY <2>2, <2>3
<1>3. CASE BeginRefuses(r)
  BY <1>3, AnswerType DEF BeginRefuses, card
<1>4. CASE Body(r)
  <2>1. CASE Answer(r)
    BY <1>4, <2>1, AnswerType DEF Body, card
  <2>2. CASE ~Answer(r)
    <3>1. [request[r] EXCEPT !.pc = "wait", !.deadline = 0] \in Request
      <4>1. 0 \in 0..MaxTime /\ "wait" \in RequestPC
        BY DEF RequestPC
      <4> QED BY <1>0, <4>1 DEF Request
    <3>2. request' = [request EXCEPT ![r] = [request[r] EXCEPT !.pc = "wait", !.deadline = 0]]
      BY <1>4, <2>2 DEF Body
    <3> QED BY <1>4, <3>1, <3>2, OneRequest DEF Body, card
  <2> QED BY <2>1, <2>2
<1>5. CASE Pair(r)
  BY <1>5, AnswerType DEF Pair, card
<1>6. CASE Deadline(r)
  BY <1>6, AnswerType DEF Deadline, card
<1>7. CASE TakeLock(r)
  <2>1. CASE Answer(r)
    BY <1>7, <2>1, AnswerType DEF TakeLock
  <2>2. CASE Becomes(r, "card")
    <3>1. [request[r] EXCEPT !.pc = "card"] \in Request
      BY <1>0 DEF Request, RequestPC
    <3>2. request' = [request EXCEPT ![r] = [request[r] EXCEPT !.pc = "card"]]
      BY <2>2 DEF Becomes
    <3> QED BY <1>7, <3>1, <3>2, OneRequest DEF TakeLock
  <2> QED BY <1>7, <2>1, <2>2 DEF TakeLock
<1>8. CASE Reply(r)
  <2>1. [Idle EXCEPT !.pc = "done"] \in Request
    BY IdleType DEF RequestPC
  <2>2. request' \in [Requests -> Request]
    BY <1>8, <2>1, OneRequest DEF Reply
  <2> QED BY <1>8, <2>2 DEF Reply
<1>9. CASE Connect(r) \/ TransmitFails(r) \/ SelectAid(r) \/ Transmit(r)
  BY <1>9, CardStep, CardStepTypes
<1>10. CASE TransmitToEth(r)
  <2>1. CASE Answer(r)
    BY <1>10, <2>1, EthStep, AnswerType
  <2>2. CASE ~Answer(r)
    <3> DEFINE q == [request[r] EXCEPT !.todo = Tail(@),
                       !.pub = IF Next1(r) = "pubkey" THEN CardAt(applet.at) ELSE @]
    <3>1. CardAt(applet.at) \in Cards
      BY <1>10, AliveCard DEF TransmitToEth
    <3>2. Tail(request[r].todo) \in Seq(Commands)
      BY <1>0, <1>10, EthStep DEF Sending, Request
    <3>3. q \in Request
      BY <1>0, <3>1, <3>2 DEF Request
    <3>4. request' = [request EXCEPT ![r] = q]
      BY <1>10, <2>2, EthStep
    <3> HIDE DEF q
    <3> QED BY <1>10, <3>3, <3>4, EthStep, OneRequest
  <2> QED BY <2>1, <2>2
<1> QED BY <1>1, <1>2, <1>3, <1>4, <1>5, <1>6, <1>7, <1>8, <1>9, <1>10 DEF Thread

-----------------------------------------------------------------------------
LEMMA TypeInit == Init => TypeInv /\ Counted
<1> SUFFICES ASSUME Init PROVE TypeInv /\ Counted
  OBVIOUS
<1> USE EthPolicyAssumption, AuthAssumption DEF Init
<1>1. PolicyTypeOK
  <2>1. reader \in [Readers -> [card : Cards \cup {NoCard}, gen : 0..MaxSwaps]]
    BY DEF PolicyInit
  <2>2. tool \in Tool
    BY DEF PolicyInit, Tool, ToolPC, NoConn, Connection
  <2> QED BY <2>1, <2>2 DEF PolicyInit, PolicyTypeOK
<1>2. AuthTypeOK
  BY DEF AuthInit, AuthTypeOK, StarterPC, TokenValue
<1>3. Counted
  BY FS_EmptySet DEF AuthInit, Counted
<1>4. Idle = [Idle EXCEPT !.pc = "off"]
  BY DEF Idle
<1>5. Idle \in Request
  BY <1>4, IdleType DEF RequestPC
<1> QED BY <1>1, <1>2, <1>3, <1>5 DEF TypeInv, PolicyTypes, NoConn, Connection

LEMMA TypeStep ==
  ASSUME TypeInv, Counted, [Next]_vars
  PROVE  TypeInv' /\ Counted'
<1>1. CASE UNCHANGED vars
  BY <1>1 DEF vars, TypeInv, Counted, PolicyTypes, PolicyTypeOK, AuthTypeOK
<1>2. CASE Next
  <2>1. RequestTypes'
    <3>1. ASSUME NEW r \in Requests, Thread(r) PROVE RequestTypes'
      BY <3>1, ThreadTypes DEF TypeInv, RequestTypes
    <3>2. CASE UNCHANGED <<request, cardLock>>
      BY <3>2 DEF TypeInv, RequestTypes
    <3> QED BY <1>2, <3>1, <3>2 DEF Next, serving, Tick, card
  <2> QED BY <1>2, <2>1, PolicyKept, AuthKept DEF TypeInv, RequestTypes
<1> QED BY <1>1, <1>2

LEMMA Types == Spec => [](TypeInv /\ Counted)
<1>1. TypeInv /\ Counted /\ [Next]_vars => (TypeInv /\ Counted)'
  BY TypeStep
<1> QED BY <1>1, TypeInit, PTL DEF Spec

-----------------------------------------------------------------------------
(* The token.                                                               *)

Loaded == \A s \in Starters : StarterAt(s, "loaded") => starter[s].token = tokenFile /\ tokenFile \in TokenValue

\* load_or_create_token: whoever loaded a token holds the one in the file, for
\* any number of processes that start together or die on the way.
THEOREM TokenSafety == Spec => []OneToken
<1>1. Init => Loaded
  BY DEF Init, AuthInit, Loaded, StarterAt
<1>2. TypeInv /\ Loaded /\ [Next]_vars => Loaded'
  <2> SUFFICES ASSUME TypeInv, Loaded, [Next]_vars, NEW t \in Starters, StarterAt(t, "loaded")'
               PROVE  starter'[t].token = tokenFile' /\ tokenFile' \in TokenValue
    BY DEF Loaded
  <2> USE AuthAssumption DEF TypeInv, AuthTypeOK, StarterAt, Loaded
  <2>1. CASE UNCHANGED token
    BY <2>1 DEF token
  <2>2. ASSUME NEW s \in Starters,
               ReadToken(s) \/ WriteTemp(s) \/ LinkToken(s) \/ UnlinkTemp(s) \/ StarterKilled(s)
        PROVE  starter'[t].token = tokenFile' /\ tokenFile' \in TokenValue
    <3>1. CASE ReadToken(s)
      BY <3>1 DEF ReadToken
    <3>2. CASE LinkToken(s)
      BY <3>2 DEF LinkToken, Move, TokenValue
    <3>3. CASE WriteTemp(s) \/ UnlinkTemp(s) \/ StarterKilled(s)
      BY <3>3 DEF WriteTemp, UnlinkTemp, StarterKilled, Move
    <3> QED BY <2>2, <3>1, <3>2, <3>3
  <2>3. UNCHANGED token \/ AuthNext
    BY ThreadAuth DEF Next, Tick, vars, token
  <2> QED BY <2>1, <2>2, <2>3 DEF AuthNext
<1>3. Loaded => OneToken
  BY DEF Loaded, OneToken
<1> QED BY <1>1, <1>2, <1>3, Types, PTL DEF Spec

-----------------------------------------------------------------------------
(* Slots and the card lock.                                                 *)

Served == {r \in Requests : request[r].pc \notin {"off", "done"}}

\* A step that leaves slots and lock alone, and moves a request between places
\* of its service without taking it to the card.
LEMMA MoveLeaksNothing ==
  ASSUME NothingLeaks, RequestTypes, NEW r \in Requests, NEW q,
         request' = [request EXCEPT ![r] = q], UNCHANGED <<slots, cardLock>>,
         request[r].pc \notin {"off", "done"}, q.pc \notin {"off", "done"},
         q.pc = "card" => request[r].pc = "card",
         request[r].pc = "card" => q.pc \in {"card", "reply"},
         request[r].pc # "reply" \/ q.pc = "reply"
  PROVE  NothingLeaks'
<1>1. request'[r] = q /\ \A p \in Requests \ {r} : request'[p] = request[p]
  BY DEF RequestTypes
<1>2. {p \in Requests : request'[p].pc \notin {"off", "done"}}
      = {p \in Requests : request[p].pc \notin {"off", "done"}}
  BY <1>1
<1>3. slots' = Cardinality({p \in Requests : request'[p].pc \notin {"off", "done"}})
  BY <1>2 DEF NothingLeaks
<1>4. cardLock' # None => request'[cardLock'].pc \in {"card", "reply"}
  BY <1>1 DEF NothingLeaks, RequestTypes
<1>5. \A p \in Requests : request'[p].pc = "card" => cardLock' = p
  BY <1>1 DEF NothingLeaks, At
<1> QED BY <1>3, <1>4, <1>5 DEF NothingLeaks, At

LEMMA AnswerLeaksNothing ==
  ASSUME NothingLeaks, RequestTypes, NEW r \in Requests, Answer(r), UNCHANGED <<slots, cardLock>>,
         request[r].pc \notin {"off", "done"}
  PROVE  NothingLeaks'
<1>1. [Idle EXCEPT !.pc = "reply"].pc = "reply"
  BY DEF Idle
<1> QED BY <1>1, MoveLeaksNothing DEF Answer

LEMMA CardStepLeaksNothing ==
  ASSUME NothingLeaks, RequestTypes, NEW r \in Requests, Sending(r), UNCHANGED <<slots, cardLock>>,
         Continue(r) \/ Answer(r) \/ UNCHANGED request
  PROVE  NothingLeaks'
<1>1. request[r].pc = "card" /\ request[r] \in Request
  BY DEF Sending, At, RequestTypes
<1>2. CASE Continue(r)
  <2> DEFINE q == [request[r] EXCEPT !.todo = Tail(@)]
  <2>1. q.pc = "card" /\ request' = [request EXCEPT ![r] = q]
    BY <1>1, <1>2 DEF Continue, Request
  <2> HIDE DEF q
  <2> QED BY <1>1, <2>1, MoveLeaksNothing
<1>3. CASE Answer(r)
  BY <1>1, <1>3, AnswerLeaksNothing
<1>4. CASE UNCHANGED request
  BY <1>4 DEF NothingLeaks, At
<1> QED BY <1>2, <1>3, <1>4

LEMMA ThreadLeaksNothing ==
  ASSUME NothingLeaks, RequestTypes, NEW r \in Requests, Thread(r)
  PROVE  NothingLeaks'
<1> USE DashboardAssumption
<1>0. request[r] \in Request /\ IsFiniteSet(Served)
  BY FS_Subset DEF RequestTypes, Served
<1>1. CASE Accept(r)
  <2>1. CASE slots < MaxConnections
    <3>1. slots' = slots + 1 /\ cardLock' = cardLock /\ request[r].pc = "off"
          /\ request'[r].pc = "head" /\ \A p \in Requests \ {r} : request'[p] = request[p]
      BY <1>0, <1>1, <2>1 DEF Accept, At, card, RequestTypes, Request
    <3>2. Served' = Served \cup {r} /\ r \notin Served
      BY <3>1 DEF Served
    <3>3. slots' = Cardinality(Served')
      BY <1>0, <3>1, <3>2, FS_AddElement DEF NothingLeaks, Served
    <3>4. cardLock' # None => request'[cardLock'].pc \in {"card", "reply"}
      BY <3>1 DEF NothingLeaks, RequestTypes
    <3>5. \A p \in Requests : request'[p].pc = "card" => cardLock' = p
      BY <3>1 DEF NothingLeaks, At
    <3> QED BY <3>3, <3>4, <3>5 DEF NothingLeaks, Served, At
  <2>2. CASE ~(slots < MaxConnections)
    <3>1. slots' = slots /\ cardLock' = cardLock /\ request[r].pc = "off"
          /\ request'[r].pc = "done" /\ \A p \in Requests \ {r} : request'[p] = request[p]
      BY <1>0, <1>1, <2>2 DEF Accept, At, Becomes, card, RequestTypes, Request
    <3>2. Served' = Served
      BY <3>1 DEF Served
    <3>3. cardLock' # None => request'[cardLock'].pc \in {"card", "reply"}
      BY <3>1 DEF NothingLeaks, RequestTypes
    <3>4. \A p \in Requests : request'[p].pc = "card" => cardLock' = p
      BY <3>1 DEF NothingLeaks, At
    <3> QED BY <3>1, <3>2, <3>3, <3>4 DEF NothingLeaks, Served, At
  <2> QED BY <2>1, <2>2
<1>2. CASE Begin(r)
  <2>1. CASE Answer(r)
    BY <1>2, <2>1, AnswerLeaksNothing DEF Begin, At, card
  <2>2. CASE ~Answer(r)
    <3>1. PICK kind \in Kinds : request' = [request EXCEPT ![r].kind = kind, ![r].todo = Script(kind),
            ![r].pc = IF kind \in {"pair", "sign", "keygen"} THEN "body" ELSE "wait"]
      BY <1>2, <2>2 DEF Begin
    <3> DEFINE q == [request[r] EXCEPT !.kind = kind, !.todo = Script(kind),
                       !.pc = IF kind \in {"pair", "sign", "keygen"} THEN "body" ELSE "wait"]
    <3>2. q.pc \in {"body", "wait"}
      BY <1>0 DEF Request
    <3>3. request' = [request EXCEPT ![r] = q]
      BY <3>1
    <3> HIDE DEF q
    <3> QED BY <1>2, <3>2, <3>3, MoveLeaksNothing DEF Begin, At, card
  <2> QED BY <2>1, <2>2
<1>3. CASE BeginRefuses(r)
  BY <1>3, AnswerLeaksNothing DEF BeginRefuses, At, card
<1>4. CASE Body(r)
  <2>1. CASE Answer(r)
    BY <1>4, <2>1, AnswerLeaksNothing DEF Body, At, card
  <2>2. CASE ~Answer(r)
    <3> DEFINE q == [request[r] EXCEPT !.pc = "wait", !.deadline = 0]
    <3>1. q.pc = "wait" /\ request' = [request EXCEPT ![r] = q]
      BY <1>0, <1>4, <2>2 DEF Body, Request
    <3> HIDE DEF q
    <3> QED BY <1>4, <3>1, MoveLeaksNothing DEF Body, At, card
  <2> QED BY <2>1, <2>2
<1>5. CASE Pair(r)
  BY <1>5, AnswerLeaksNothing DEF Pair, At, card
<1>6. CASE Deadline(r)
  BY <1>6, AnswerLeaksNothing DEF Deadline, card
<1>7. CASE TakeLock(r)
  <2>1. cardLock = None /\ cardLock' = r /\ slots' = slots /\ request[r].pc = "wait"
        /\ request'[r].pc \in {"card", "reply"} /\ \A p \in Requests \ {r} : request'[p] = request[p]
    BY <1>0, <1>7 DEF TakeLock, At, Answer, Becomes, Idle, RequestTypes, Request
  <2>2. Served' = Served
    BY <2>1 DEF Served
  <2>3. \A p \in Requests : request'[p].pc = "card" => cardLock' = p
    BY <2>1 DEF NothingLeaks, At
  <2> QED BY <2>1, <2>2, <2>3 DEF NothingLeaks, Served, At
<1>8. CASE Reply(r)
  <2>1. /\ slots' = slots - 1 /\ request[r].pc \in {"reply", "card"} /\ request'[r].pc = "done"
        /\ \A p \in Requests \ {r} : request'[p] = request[p]
        /\ cardLock' = IF cardLock = r THEN None ELSE cardLock
    BY <1>0, <1>8 DEF Reply, At, Idle, RequestTypes, Request
  <2>2. Served' = Served \ {r} /\ r \in Served
    BY <2>1 DEF Served
  <2>3. slots' = Cardinality(Served')
    BY <1>0, <2>1, <2>2, FS_RemoveElement DEF NothingLeaks, Served
  <2>4. cardLock' # None => request'[cardLock'].pc \in {"card", "reply"}
    BY <2>1 DEF NothingLeaks, RequestTypes
  <2>5. \A p \in Requests : request'[p].pc = "card" => cardLock' = p
    BY <2>1 DEF NothingLeaks, At
  <2> QED BY <2>3, <2>4, <2>5 DEF NothingLeaks, Served, At
<1>9. CASE Connect(r) \/ TransmitFails(r) \/ SelectAid(r) \/ Transmit(r)
  BY <1>9, CardStep, CardStepLeaksNothing
<1>10. CASE TransmitToEth(r)
  <2>1. request[r].pc = "card" /\ UNCHANGED <<cardLock, slots>>
    BY <1>10, EthStep DEF Sending, At
  <2>2. CASE Answer(r)
    BY <2>1, <2>2, AnswerLeaksNothing
  <2>3. CASE ~Answer(r)
    <3> DEFINE q == [request[r] EXCEPT !.todo = Tail(@),
                       !.pub = IF Next1(r) = "pubkey" THEN CardAt(applet.at) ELSE @]
    <3>1. q.pc = "card" /\ request' = [request EXCEPT ![r] = q]
      BY <1>0, <1>10, <2>1, <2>3, EthStep DEF Request
    <3> HIDE DEF q
    <3> QED BY <2>1, <3>1, MoveLeaksNothing
  <2> QED BY <2>2, <2>3
<1> QED BY <1>1, <1>2, <1>3, <1>4, <1>5, <1>6, <1>7, <1>8, <1>9, <1>10 DEF Thread

\* DashboardServer: a slot belongs to a request that is still served and the
\* lock to one that talks to the card, for any number of clients.
THEOREM LeakSafety == Spec => []NothingLeaks
<1>1. Init => NothingLeaks
  <2> SUFFICES ASSUME Init PROVE NothingLeaks
    OBVIOUS
  <2>1. \A r \in Requests : request[r].pc = "off"
    BY DEF Init, Idle
  <2>2. {r \in Requests : request[r].pc \notin {"off", "done"}} = {}
    BY <2>1
  <2> QED BY <2>1, <2>2, FS_EmptySet DEF Init, NothingLeaks, At
<1>2. TypeInv /\ NothingLeaks /\ [Next]_vars => NothingLeaks'
  <2> SUFFICES ASSUME TypeInv, NothingLeaks, [Next]_vars PROVE NothingLeaks'
    OBVIOUS
  <2>1. ASSUME NEW r \in Requests, Thread(r) PROVE NothingLeaks'
    BY <2>1, ThreadLeaksNothing DEF TypeInv, RequestTypes
  <2>2. CASE UNCHANGED <<request, slots, cardLock>>
    BY <2>2 DEF NothingLeaks, At
  <2> QED BY <2>1, <2>2 DEF Next, serving, Tick, card, vars
<1> QED BY <1>1, <1>2, Types, PTL DEF Spec

-----------------------------------------------------------------------------
(* Pairing.                                                                 *)

\* Sessions are ordered by expiry and number, and the eviction leaves room for
\* one more.
LEMMA EvictLeavesRoom ==
  ASSUME NEW set \in SUBSET Session, IsFiniteSet(set)
  PROVE  /\ Evict(set) \subseteq set /\ IsFiniteSet(Evict(set))
         /\ Cardinality(Evict(set)) \in Nat /\ Cardinality(Evict(set)) <= MaxSessions - 1
<1> DEFINE R == {p \in set \X set : p[1] # p[2] /\ Older(p[2], p[1])}
<1>1. \A s \in set : s.id \in Nat /\ s.expires \in Nat
  BY AuthAssumption DEF Session
<1>2. \A s, t \in set : s.id = t.id /\ s.expires = t.expires => s = t
  BY DEF Session
<1>3. Orders(R, set)
  <2>1. \A x \in set : <<x, x>> \notin R
    OBVIOUS
  <2>2. ASSUME NEW x \in set, NEW y \in set, x # y
        PROVE  <<x, y>> \in R \/ <<y, x>> \in R
    BY <1>1, <2>2 DEF Older
  <2>3. ASSUME NEW x \in set, NEW y \in set, NEW z \in set, <<x, y>> \in R, <<y, z>> \in R
        PROVE  <<x, z>> \in R
    <3>1. x # y /\ Older(y, x) /\ y # z /\ Older(z, y)
      BY <2>3
    <3>2. Older(z, x)
      BY <1>1, <3>1 DEF Older
    <3>3. x # z
      BY <1>1, <1>2, <3>1 DEF Older
    <3> QED BY <3>2, <3>3
  <2> QED BY <2>1, <2>2, <2>3 DEF Orders
<1>4. \A s \in set : {t \in set : t # s /\ Older(s, t)} = Below(set, R, s)
  BY DEF Below
<1> HIDE DEF R
<1>5. Evict(set) = {s \in set : Cardinality(Below(set, R, s)) < MaxSessions - 1}
  BY <1>4 DEF Evict
<1>6. MaxSessions - 1 \in Nat
  BY AuthAssumption
<1>7. IsFiniteSet(Evict(set)) /\ Cardinality(Evict(set)) <= MaxSessions - 1
  BY <1>3, <1>5, <1>6, Fewest
<1> QED BY <1>5, <1>7, FS_CardinalityType

\* What makes PairedOnce inductive: every code that bought a session was
\* rotated away, and the sessions stay finite in number.
PairInv ==
  /\ \A p, q \in paired : p.code = q.code => p = q
  /\ \A p \in paired : p.code < code.number
  /\ \A s \in sessions : \E p \in paired : p.id = s.id /\ s.expires = p.at + SessionTTL
  /\ IsFiniteSet(sessions) /\ Cardinality(sessions) <= MaxSessions

LEMMA PruneKeeps ==
  ASSUME AuthTypeOK, PairInv
  PROVE  /\ Prune(sessions) \subseteq sessions /\ Prune(sessions) \in SUBSET Session
         /\ IsFiniteSet(Prune(sessions)) /\ Cardinality(Prune(sessions)) <= MaxSessions
<1>1. Prune(sessions) \subseteq sessions
  BY DEF Prune
<1>2. IsFiniteSet(Prune(sessions)) /\ Cardinality(Prune(sessions)) <= Cardinality(sessions)
  BY <1>1, FS_Subset DEF PairInv
<1>3. Cardinality(sessions) \in Nat /\ Cardinality(Prune(sessions)) \in Nat /\ MaxSessions \in Nat
  BY <1>2, FS_CardinalityType, AuthAssumption DEF PairInv
<1> QED BY <1>1, <1>2, <1>3 DEF PairInv, AuthTypeOK

LEMMA PairOkKeeps ==
  ASSUME AuthTypeOK, PairInv, NEW given, PairOk(given)
  PROVE  PairInv'
<1> DEFINE id == Cardinality(paired) + 1
           s == [id |-> id, expires |-> now + SessionTTL]
           p == [id |-> id, code |-> given, at |-> now]
           kept == Evict(Prune(sessions))
<1>1. given = code.number /\ code'.number = code.number + 1
      /\ sessions' = kept \cup {s} /\ paired' = paired \cup {p}
  BY DEF PairOk, Guess, Rotate
<1>2. /\ kept \subseteq sessions /\ IsFiniteSet(kept)
      /\ Cardinality(kept) \in Nat /\ Cardinality(kept) <= MaxSessions - 1
  BY PruneKeeps, EvictLeavesRoom
<1>3. p.code = code.number /\ p.id = s.id /\ s.expires = p.at + SessionTTL
  BY <1>1
<1> HIDE DEF s, p, kept
<1>4. code.number \in Nat /\ \A q \in paired : q.code \in Nat
  BY DEF AuthTypeOK
<1>5. \A q \in paired' : q.code < code'.number
  BY <1>1, <1>3, <1>4 DEF PairInv
<1>6. \A q, r \in paired' : q.code = r.code => q = r
  <2>1. \A q \in paired : q.code # p.code
    BY <1>3, <1>4 DEF PairInv
  <2> QED BY <1>1, <2>1 DEF PairInv
<1>7. \A t \in sessions' : \E q \in paired' : q.id = t.id /\ t.expires = q.at + SessionTTL
  BY <1>1, <1>2, <1>3 DEF PairInv
<1>8. IsFiniteSet(sessions') /\ Cardinality(sessions') <= MaxSessions
  <2>1. /\ IsFiniteSet(kept \cup {s})
        /\ Cardinality(kept \cup {s}) \in {Cardinality(kept), Cardinality(kept) + 1}
    BY <1>2, FS_AddElement
  <2>2. MaxSessions \in Nat
    BY AuthAssumption
  <2> QED BY <1>1, <1>2, <2>1, <2>2
<1> QED BY <1>5, <1>6, <1>7, <1>8 DEF PairInv

\* Pairing: a code buys one session and takes a bounded number of guesses, a
\* session keeps the expiry it got, and there are never more than the cap, for
\* any number of clients and any lifetimes.
THEOREM PairSafety == Spec => []PairedOnce
<1>1. Init => PairInv
  <2> SUFFICES ASSUME Init PROVE PairInv
    OBVIOUS
  <2>1. sessions = {} /\ paired = {}
    BY DEF Init, AuthInit
  <2>2. IsFiniteSet(sessions) /\ Cardinality(sessions) = 0 /\ MaxSessions \in Nat
    BY <2>1, FS_EmptySet, AuthAssumption
  <2> QED BY <2>1, <2>2 DEF PairInv
<1>2. TypeInv /\ PairInv /\ [Next]_vars => PairInv'
  <2> SUFFICES ASSUME TypeInv, PairInv, [Next]_vars PROVE PairInv'
    OBVIOUS
  <2>1. CASE UNCHANGED pairing
    BY <2>1 DEF PairInv, pairing
  <2>2. ASSUME NEW r \in Requests, Thread(r) PROVE PairInv'
    <3>1. CASE LookUp
      BY <3>1, PruneKeeps DEF LookUp, PairInv, TypeInv
    <3>2. ASSUME NEW given, PairOk(given) PROVE PairInv'
      BY <3>2, PairOkKeeps DEF TypeInv
    <3>3. ASSUME NEW given, PairDenied(given) PROVE PairInv'
      <4>1. code'.number \in {code.number, code.number + 1} /\ UNCHANGED <<sessions, paired>>
        BY <3>3 DEF PairDenied, Rotate
      <4>2. code.number \in Nat /\ \A q \in paired : q.code \in Nat
        BY DEF TypeInv, AuthTypeOK
      <4>3. \A q \in paired : q.code < code'.number
        BY <4>1, <4>2 DEF PairInv
      <4> QED BY <4>1, <4>3 DEF PairInv
    <3> QED BY <2>1, <2>2, <3>1, <3>2, <3>3, ThreadAuth
  <2> QED BY <2>1, <2>2 DEF Next, Tick, vars, pairing
<1>3. TypeInv /\ PairInv => PairedOnce
  BY AuthAssumption DEF TypeInv, AuthTypeOK, PairInv, PairedOnce
<1> QED BY <1>1, <1>2, <1>3, Types, PTL DEF Spec

-----------------------------------------------------------------------------
\* The type invariant, with as many slots as MAX_CONNECTIONS allows.
THEOREM TypeCorrect == Spec => []TypeOK
<1> DEFINE Slots == slots \in 0..MaxConnections
<1>1. Init => Slots
  BY DashboardAssumption DEF Init
<1>2. TypeInv /\ NothingLeaks' /\ Slots /\ [Next]_vars => Slots'
  <2> SUFFICES ASSUME TypeInv, NothingLeaks', Slots, [Next]_vars PROVE Slots'
    OBVIOUS
  <2> USE DashboardAssumption
  <2>1. slots' \in Nat
    <3>1. IsFiniteSet({r \in Requests : request'[r].pc \notin {"off", "done"}})
      BY FS_Subset
    <3> QED BY <3>1, FS_CardinalityType DEF NothingLeaks
  <2>2. slots' \in {slots, slots - 1} \/ (slots < MaxConnections /\ slots' = slots + 1)
    <3>1. ASSUME NEW r \in Requests, Thread(r), slots' # slots
          PROVE  slots' = slots - 1 \/ (slots < MaxConnections /\ slots' = slots + 1)
      <4>1. CASE Accept(r)
        BY <3>1, <4>1 DEF Accept
      <4>2. CASE Reply(r)
        BY <4>2 DEF Reply
      <4>3. CASE Connect(r) \/ TransmitFails(r) \/ SelectAid(r) \/ Transmit(r) \/ TransmitToEth(r)
        BY <3>1, <4>3, CardStep, EthStep
      <4>4. CASE Begin(r) \/ BeginRefuses(r) \/ Body(r) \/ Pair(r) \/ Deadline(r) \/ TakeLock(r)
        BY <3>1, <4>4 DEF Begin, BeginRefuses, Body, Pair, Deadline, TakeLock
      <4> QED BY <3>1, <4>1, <4>2, <4>3, <4>4 DEF Thread
    <3> QED BY <3>1 DEF Next, Tick, serving, vars
  <2> QED BY <2>1, <2>2
<1>3. TypeInv /\ Slots => TypeOK
  BY DEF TypeInv, PolicyTypes, Request, TypeOK
<1> QED BY <1>1, <1>2, <1>3, Types, LeakSafety, PTL DEF Spec

-----------------------------------------------------------------------------
(* The policy of the Ethereum signers.                                      *)

\* Generations tell a connection of an exchanged card from a live one.
GenInv == (\A i \in Readers : reader[i].gen <= swaps) /\ tool.conn.gen <= swaps

\* The readers probed so far hold no ETH2, until a card is exchanged; only then
\* does the tool get to ETH1; and it probes the guard only of a card that has it.
Opening == {"openEth1", "version", "keygen", "probe", "sign"}
ToolInv ==
  /\ GenInv
  /\ tool.undisturbed /\ ~tool.faulty => \A j \in Readers : j < tool.next => ~Holds(j, "eth2")
  /\ tool.pc \in Opening => tool.next > NumReaders /\ ~tool.faulty
  /\ tool.pc \notin {"idle", "refused", "done"} => DemoAllowed
  /\ tool.pc = "probe" /\ Alive(tool.conn) => ToolCard \in Guarded
  /\ ~tool.wiped

\* Whatever happens elsewhere leaves readers and tool alone.
LEMMA RequestsLeaveTool ==
  ASSUME NEW r \in Requests, Thread(r)
  PROVE  UNCHANGED <<reader, swaps, tool>>
<1>1. CASE AtDesk(r) \/ TransmitToEth(r) \/ Transmit(r)
  BY <1>1, DeskLeavesCards DEF pcsc
<1>2. CASE Connect(r) \/ TransmitFails(r) \/ SelectAid(r)
  BY <1>2 DEF Connect, TransmitFails, SelectAid, cardFrame
<1> QED BY <1>1, <1>2 DEF Thread, AtDesk

\* Moves of the tool that neither open nor probe anything.
LEMMA GoKeeps ==
  ASSUME PolicyTypeOK, ToolInv, UNCHANGED <<reader, swaps>>, NEW place,
         tool' = [tool EXCEPT !.pc = place],
         place \in Opening => tool.next > NumReaders /\ ~tool.faulty,
         place \notin {"idle", "refused", "done"} => DemoAllowed,
         place = "probe" /\ Alive(tool.conn) => ToolCard \in Guarded
  PROVE  ToolInv'
BY DEF PolicyTypeOK, Tool, ToolInv, GenInv, Holds, CardAt, Alive, ToolCard

LEMMA ToolKeepsPolicy ==
  ASSUME PolicyTypeOK, ToolInv, ToolNext
  PROVE  ToolInv'
<1>0. tool \in Tool
  BY DEF PolicyTypeOK
<1>1. CASE StartTool
  <2>1. PICK regenerate \in BOOLEAN :
          tool' = [tool EXCEPT !.pc = IF DemoAllowed THEN "openEth2" ELSE "refused",
                               !.regenerate = regenerate]
    BY <1>1 DEF StartTool
  <2>2. UNCHANGED <<reader, swaps>>
    BY <1>1 DEF StartTool, pcsc
  <2> QED BY <1>0, <2>1, <2>2 DEF Tool, ToolInv, GenInv, Opening, Holds, CardAt, Alive, ToolCard
<1>2. CASE OpenEth2
  <2>1. PICK place \in {"confirm", "refused"} : tool' = [tool EXCEPT !.pc = place]
    BY <1>2 DEF OpenEth2
  <2>2. DemoAllowed
    BY <1>2 DEF OpenEth2, ToolInv
  <2> QED BY <1>2, <2>1, <2>2, GoKeeps DEF OpenEth2, Opening
<1>3. CASE ConfirmEth2Absent
  <2>1. PICK f \in Faults :
          LET i == tool.next
              absent == f[i] = "none" /\ CardAt(i) # NoCard /\ ~Holds(i, "eth2")
              empty == f[i] = "none" /\ CardAt(i) = NoCard
          IN  tool' = [tool EXCEPT !.next = @ + 1, !.confirmed = @ \/ absent,
                                   !.faulty = @ \/ ~(absent \/ empty),
                                   !.undisturbed = @ \/ i = 1]
    BY <1>3 DEF ConfirmEth2Absent
  <2>2. /\ tool.pc = "confirm" /\ tool'.pc = "confirm" /\ tool'.next = tool.next + 1
        /\ tool'.conn = tool.conn /\ tool'.wiped = tool.wiped
        /\ tool'.undisturbed => tool.undisturbed \/ tool.next = 1
        /\ ~tool'.faulty => ~tool.faulty /\ ~Holds(tool.next, "eth2")
    BY <1>0, <1>3, <2>1 DEF ConfirmEth2Absent, Tool, Holds
  <2>3. UNCHANGED <<reader, swaps>> /\ tool.next \in Nat
    BY <1>0, <1>3, EthPolicyAssumption DEF ConfirmEth2Absent, Tool
  <2>4. ASSUME tool'.undisturbed, ~tool'.faulty, NEW j \in Readers, j < tool'.next
        PROVE  ~Holds(j, "eth2")
    <3>1. j = tool.next \/ j < tool.next
      BY <2>2, <2>3, <2>4 DEF Readers
    <3>2. tool.next = 1 => j = tool.next
      BY <3>1 DEF Readers
    <3> QED BY <2>2, <2>4, <3>1, <3>2 DEF ToolInv
  <2> QED BY <2>2, <2>3, <2>4 DEF ToolInv, GenInv, Opening, Holds, CardAt
<1>4. CASE Confirmed
  <2>1. PICK place \in {"openEth1", "refused"} :
          /\ tool' = [tool EXCEPT !.pc = place]
          /\ place = "openEth1" => ~tool.faulty
    BY <1>4 DEF Confirmed, Go
  <2>2. DemoAllowed /\ tool.next > NumReaders /\ UNCHANGED <<reader, swaps>>
    BY <1>4 DEF Confirmed, ToolInv, pcsc
  <2> QED BY <2>1, <2>2, GoKeeps DEF Opening
<1>5. CASE OpenEth1
  <2>1. PICK f \in Faults :
          IF Answering("eth1", f) = {} THEN Go("refused")
          ELSE tool' = [tool EXCEPT !.pc = "version", !.conn = Conn(First(Answering("eth1", f)))]
    BY <1>5 DEF OpenEth1
  <2>2. UNCHANGED <<reader, swaps>> /\ tool.pc = "openEth1"
    BY <1>5 DEF OpenEth1
  <2>3. CASE Answering("eth1", f) = {}
    BY <2>1, <2>2, <2>3, GoKeeps DEF Go, Opening
  <2>4. CASE Answering("eth1", f) # {}
    <3> DEFINE c == Conn(First(Answering("eth1", f)))
    <3>1. c.gen <= swaps
      BY <2>4, AnsweringFirst DEF Conn, ToolInv, GenInv
    <3>2. tool' = [tool EXCEPT !.pc = "version", !.conn = c]
      BY <2>1, <2>4
    <3> HIDE DEF c
    <3> QED BY <1>0, <2>2, <3>1, <3>2 DEF Tool, ToolInv, GenInv, Opening, Holds, CardAt
  <2> QED BY <2>3, <2>4
<1>6. CASE GetVersion
  <2>1. PICK place \in {"keygen", "probe", "sign"} :
          tool' = [tool EXCEPT !.pc = place] /\ (place = "probe" => ToolCard \in Guarded)
    BY <1>6 DEF GetVersion, Go
  <2>2. UNCHANGED <<reader, swaps>> /\ tool.pc = "version"
    BY <1>6 DEF GetVersion, Command
  <2>3. DemoAllowed /\ tool.next > NumReaders /\ ~tool.faulty
    BY <2>2 DEF ToolInv, Opening
  <2> QED BY <2>1, <2>2, <2>3, GoKeeps
<1>7. CASE Keygen
  <2>1. PICK place \in {"keygen", "probe"} :
          /\ Command(place) /\ AnswersTool
          /\ tool' = [tool EXCEPT !.pc = "sign",
                                  !.wiped = @ \/ (place = "probe" /\ ToolCard \notin Guarded)]
    BY <1>7 DEF Keygen
  <2>2. ~(place = "probe" /\ ToolCard \notin Guarded)
    BY <2>1 DEF Command, AnswersTool, ToolInv
  <2>3. tool' = [tool EXCEPT !.pc = "sign"]
    BY <1>0, <2>1, <2>2 DEF ToolInv, Tool
  <2>4. DemoAllowed /\ tool.next > NumReaders /\ ~tool.faulty /\ UNCHANGED <<reader, swaps>>
    BY <2>1 DEF Command, ToolInv, Opening
  <2> QED BY <2>3, <2>4, GoKeeps
<1>8. CASE SignTest
  BY <1>8, GoKeeps DEF SignTest, Go, Opening
<1>9. CASE ToolFails
  BY <1>9, GoKeeps DEF ToolFails, Lost, Command, Go, Opening
<1> QED BY <1>1, <1>2, <1>3, <1>4, <1>5, <1>6, <1>7, <1>8, <1>9 DEF ToolNext

LEMMA SwapKeepsPolicy ==
  ASSUME PolicyTypeOK, ToolInv, Swap
  PROVE  ToolInv'
<1>1. PICK i \in Readers, c \in Cards \cup {NoCard} :
        reader' = [reader EXCEPT ![i] = [card |-> c, gen |-> swaps + 1]]
  BY DEF Swap
<1>2. swaps' = swaps + 1 /\ tool' = [tool EXCEPT !.undisturbed = FALSE] /\ swaps \in Nat /\ tool \in Tool
  BY EthPolicyAssumption DEF Swap, PolicyTypeOK
<1>3. reader'[i].gen = swaps + 1 /\ \A j \in Readers \ {i} : reader'[j] = reader[j]
  BY <1>1 DEF PolicyTypeOK
<1>4. /\ tool'.pc = tool.pc /\ tool'.next = tool.next /\ tool'.faulty = tool.faulty
      /\ tool'.conn = tool.conn /\ tool'.wiped = tool.wiped /\ ~tool'.undisturbed
  BY <1>2 DEF Tool
<1>5. \A j \in Readers : reader[j].gen \in Nat
  BY EthPolicyAssumption DEF PolicyTypeOK
<1>6. tool.conn.gen \in Nat /\ tool.conn.at \in Readers \cup {0}
  BY <1>2, EthPolicyAssumption DEF Tool, Connection
<1>7. GenInv'
  BY <1>2, <1>3, <1>4, <1>5, <1>6 DEF ToolInv, GenInv
<1>8. tool.pc = "probe" /\ Alive(tool.conn)' => ToolCard' \in Guarded
  <2>1. CASE tool.conn.at = i
    BY <1>2, <1>3, <1>4, <1>6, <2>1 DEF Alive, ToolInv, GenInv
  <2>2. CASE tool.conn.at # i
    BY <1>3, <1>4, <1>6, <2>2 DEF Alive, ToolInv, ToolCard, CardAt
  <2> QED BY <2>1, <2>2
<1> QED BY <1>4, <1>7, <1>8 DEF ToolInv

LEMMA ToolInvariant == Spec => []ToolInv
<1>1. Init => ToolInv
  <2> SUFFICES ASSUME Init PROVE ToolInv
    OBVIOUS
  <2>1. \A i \in Readers : reader[i].gen = 0
    BY DEF Init, PolicyInit
  <2> QED BY <2>1 DEF Init, PolicyInit, ToolInv, GenInv, NoConn, Opening
<1>2. TypeInv /\ ToolInv /\ [Next]_vars => ToolInv'
  <2> SUFFICES ASSUME TypeInv, ToolInv, [Next]_vars PROVE ToolInv'
    OBVIOUS
  <2>1. CASE UNCHANGED <<reader, swaps, tool>>
    BY <2>1 DEF ToolInv, GenInv, Holds, CardAt, Alive, ToolCard
  <2>2. CASE ToolNext \/ Swap
    BY <2>2, ToolKeepsPolicy, SwapKeepsPolicy DEF TypeInv, PolicyTypes
  <2> QED BY <2>1, <2>2, RequestsLeaveTool DEF Next, Tick, card, pcsc, vars
<1> QED BY <1>1, <1>2, Types, PTL DEF Spec

\* nuri_eth_policy.py: the signer without a PIN is opened only with no ETH2 in
\* any reader, and no key is replaced unasked, for any number of readers and
\* cards, and whichever readers fail.
THEOREM PolicySafety == Spec => []ToolHonoursPolicy
<1>1. TypeInv /\ ToolInv => ToolHonoursPolicy
  BY EthPolicyAssumption DEF TypeInv, PolicyTypes, PolicyTypeOK, Tool, ToolInv, Opening, Readers, Eth1Opened, ToolHonoursPolicy
<1> QED BY <1>1, Types, ToolInvariant, PTL

-----------------------------------------------------------------------------
(* Signatures and keys of ETH1.  The predicates say how far a request has   *)
(* come with its script over connection c to the readers rd, and what it    *)
(* has made sure of by then.                                                *)

Harmless == AIDs \cup {"atr", "read"}
Live(c, rd) == c.at # 0 /\ rd[c.at].gen = c.gen /\ rd[c.at].card # NoCard
WithoutEth2(c, rd) ==
  c # NoConn /\ DemoAllowed /\ (Live(c, rd) => "eth2" \notin Applets[rd[c.at].card])

Signing(q, c, rd) ==
  \/ q.todo \in {<<>>, Script("sign")}
  \/ q.todo \in {<<"eth1", "pubkey", "sign">>, <<"pubkey", "sign">>} /\ WithoutEth2(c, rd)
  \/ q.todo = <<"sign">> /\ WithoutEth2(c, rd) /\ (Live(c, rd) => q.pub = rd[c.at].card)
Keying(q, c, rd) ==
  \/ q.todo \in {<<>>, Script("keygen")}
  \/ /\ q.todo \in {<<"eth1", "version", "eth2", "eth1", "keygen">>,
                    <<"version", "eth2", "eth1", "keygen">>}
     /\ WithoutEth2(c, rd)
  \/ /\ q.todo \in {<<"eth2", "eth1", "keygen">>, <<"eth1", "keygen">>, <<"keygen">>}
     /\ WithoutEth2(c, rd) /\ (Live(c, rd) => rd[c.at].card \in Guarded)

InScript(q, c, rd) ==
  /\ q.kind \notin {"sign", "keygen"} => q.todo \in Seq(Harmless)
  /\ q.pc # "card" => q.todo \in {<<>>, Script(q.kind)}
  /\ q.pc = "card" /\ q.kind = "sign" => Signing(q, c, rd)
  /\ q.pc = "card" /\ q.kind = "keygen" => KeygenAllowed /\ Keying(q, c, rd)

ScriptInv ==
  /\ \A r \in Requests : InScript(request[r], applet, reader)
  /\ applet.gen <= swaps
  /\ Eth1Contained

LEMMA HarmlessScript ==
  ASSUME NEW kind, kind \notin {"sign", "keygen"}
  PROVE  Script(kind) \in Seq(Harmless)
<1> USE DEF Harmless, AIDs
<1>1. <<"musig2", "read">> \in Seq(Harmless)
  OBVIOUS
<1>2. <<"eth2", "eth1", "read">> \in Seq(Harmless)
  OBVIOUS
<1>3. <<"atr", "fido2", "musig2", "totp", "eth2", "eth1">> \in Seq(Harmless)
  OBVIOUS
<1>4. <<"atr", "fido2", "musig2", "totp", "eth2">> \in Seq(Harmless)
  OBVIOUS
<1>5. <<>> \in Seq(Harmless)
  OBVIOUS
<1> QED BY <1>1, <1>2, <1>3, <1>4, <1>5 DEF Script

LEMMA IdleInScript ==
  ASSUME NEW place, place # "card", NEW c, NEW rd
  PROVE  InScript([Idle EXCEPT !.pc = place], c, rd)
<1> DEFINE q == [Idle EXCEPT !.pc = place]
<1>1. q.pc = place /\ q.kind = "page" /\ q.todo = <<>>
  BY DEF Idle
<1>2. <<>> \in Seq(Harmless)
  OBVIOUS
<1>3. InScript(q, c, rd)
  <2> HIDE DEF q
  <2> QED BY <1>1, <1>2 DEF InScript
<1> QED BY <1>3

\* A request that is not at the card does not depend on the card.
LEMMA AwayFromCard ==
  ASSUME NEW q, q.pc # "card", NEW c, NEW rd, NEW d, NEW sd, InScript(q, c, rd)
  PROVE  InScript(q, d, sd)
BY DEF InScript

\* One request moves, and the others are not at the card or the card stays.
LEMMA OneMoves ==
  ASSUME RequestTypes, ScriptInv, NEW r \in Requests, NEW q, request' = [request EXCEPT ![r] = q],
         InScript(q, applet', reader'),
         UNCHANGED <<applet, reader>> \/ \A p \in Requests \ {r} : request[p].pc # "card"
  PROVE  \A p \in Requests : InScript(request'[p], applet', reader')
<1> TAKE p \in Requests
<1>1. CASE p = r
  BY <1>1 DEF RequestTypes
<1>2. CASE p # r
  <2>1. request'[p] = request[p] /\ InScript(request[p], applet, reader)
    BY <1>2 DEF RequestTypes, ScriptInv
  <2>2. CASE UNCHANGED <<applet, reader>>
    BY <2>1, <2>2
  <2>3. CASE request[p].pc # "card"
    BY <2>1, <2>3, AwayFromCard
  <2> QED BY <1>2, <2>2, <2>3
<1> QED BY <1>1, <1>2

LEMMA AnswerInScript ==
  ASSUME RequestTypes, ScriptInv, NEW r \in Requests, Answer(r),
         UNCHANGED <<applet, reader>> \/ \A p \in Requests \ {r} : request[p].pc # "card"
  PROVE  \A p \in Requests : InScript(request'[p], applet', reader')
BY IdleInScript, OneMoves DEF Answer

\* The script before the card.
LEMMA DeskInScript ==
  ASSUME RequestTypes, ScriptInv, NEW r \in Requests, AtDesk(r)
  PROVE  \A p \in Requests : InScript(request'[p], applet', reader')
<1>0. request[r] \in Request /\ InScript(request[r], applet, reader)
  BY DEF RequestTypes, ScriptInv
<1>1. UNCHANGED <<applet, reader>>
  BY DeskLeavesCards DEF pcsc
<1>2. CASE Answer(r)
  BY <1>1, <1>2, AnswerInScript
<1>3. ASSUME NEW place, place # "card", request[r].pc # "card", NEW deadline,
             request' = [request EXCEPT ![r] = [request[r] EXCEPT !.pc = place, !.deadline = deadline]]
      PROVE  \A p \in Requests : InScript(request'[p], applet', reader')
  <2> DEFINE q == [request[r] EXCEPT !.pc = place, !.deadline = deadline]
  <2>1. q.pc = place /\ q.kind = request[r].kind /\ q.todo = request[r].todo
    BY <1>0 DEF Request
  <2>2. request' = [request EXCEPT ![r] = q]
    BY <1>3
  <2> HIDE DEF q
  <2>3. InScript(q, applet', reader')
    BY <1>0, <1>1, <1>3, <2>1 DEF InScript
  <2> QED BY <1>1, <2>2, <2>3, OneMoves
<1>4. CASE Accept(r)
  <2>1. CASE slots < MaxConnections
    <3>1. request' = [request EXCEPT ![r] = [request[r] EXCEPT !.pc = "head", !.deadline = now + RequestDeadline]]
      BY <1>4, <2>1 DEF Accept
    <3> QED BY <1>3, <1>4, <3>1 DEF Accept, At
  <2>2. CASE ~(slots < MaxConnections)
    <3>1. request' = [request EXCEPT ![r] = [request[r] EXCEPT !.pc = "done", !.deadline = request[r].deadline]]
      BY <1>0, <1>4, <2>2 DEF Accept, Becomes, Request
    <3> QED BY <1>3, <1>4, <3>1 DEF Accept, At
  <2> QED BY <2>1, <2>2
<1>5. CASE Begin(r) /\ ~Answer(r)
  <2>1. PICK kind \in Kinds : request' = [request EXCEPT ![r].kind = kind, ![r].todo = Script(kind),
          ![r].pc = IF kind \in {"pair", "sign", "keygen"} THEN "body" ELSE "wait"]
    BY <1>5 DEF Begin
  <2> DEFINE q == [request[r] EXCEPT !.kind = kind, !.todo = Script(kind),
                     !.pc = IF kind \in {"pair", "sign", "keygen"} THEN "body" ELSE "wait"]
  <2>2. q.kind = kind /\ q.todo = Script(kind) /\ q.pc # "card"
    BY <1>0 DEF Request
  <2>3. request' = [request EXCEPT ![r] = q]
    BY <2>1
  <2> HIDE DEF q
  <2>4. InScript(q, applet', reader')
    BY <2>2, HarmlessScript DEF InScript
  <2> QED BY <1>1, <2>3, <2>4, OneMoves
<1>6. CASE Body(r) /\ ~Answer(r)
  <2>1. request' = [request EXCEPT ![r] = [request[r] EXCEPT !.pc = "wait", !.deadline = 0]]
    BY <1>6 DEF Body
  <2> QED BY <1>3, <1>6, <2>1 DEF Body, At
<1>7. CASE TakeLock(r) /\ ~Answer(r)
  <2> DEFINE q == [request[r] EXCEPT !.pc = "card"]
  <2>1. q.pc = "card" /\ q.kind = request[r].kind /\ q.todo = request[r].todo
    BY <1>0 DEF Request
  <2>2. request' = [request EXCEPT ![r] = q] /\ request[r].pc = "wait"
        /\ (request[r].kind = "keygen" => KeygenAllowed)
    BY <1>7 DEF TakeLock, Becomes, At
  <2> HIDE DEF q
  <2>3. InScript(q, applet', reader')
    BY <1>0, <2>1, <2>2 DEF InScript, Signing, Keying
  <2> QED BY <1>1, <2>2, <2>3, OneMoves
<1>8. CASE Reply(r)
  BY <1>1, <1>8, IdleInScript, OneMoves DEF Reply
<1> QED BY <1>2, <1>4, <1>5, <1>6, <1>7, <1>8 DEF AtDesk, Begin, BeginRefuses, Body, Pair, Deadline, TakeLock

LEMMA AliveLive ==
  ASSUME PolicyTypes
  PROVE  /\ Alive(applet) <=> Live(applet, reader)
         /\ Alive(applet) => applet.at \in Readers /\ CardAt(applet.at) = reader[applet.at].card
                             /\ applet # NoConn
BY DEF PolicyTypes, PolicyTypeOK, Alive, Live, CardAt, Connection, NoConn

\* SELECT: the script goes on only when the answer is the one it needs.
LEMMA SelectInScript ==
  ASSUME PolicyTypes, RequestTypes, ScriptInv, NEW r \in Requests, SelectAid(r)
  PROVE  \A p \in Requests : InScript(request'[p], applet', reader')
<1>0. request[r] \in Request /\ InScript(request[r], applet, reader)
  BY DEF RequestTypes, ScriptInv
<1>1. UNCHANGED <<applet, reader>> /\ Alive(applet) /\ request[r].pc = "card" /\ request[r].todo # <<>>
  BY DEF SelectAid, cardFrame, Sending, At
<1>2. CASE Answer(r)
  BY <1>1, <1>2, AnswerInScript
<1>3. CASE Continue(r) /\ ~Answer(r)
  <2> DEFINE q == [request[r] EXCEPT !.todo = Tail(@)]
  <2>1. /\ q.pc = "card" /\ q.kind = request[r].kind /\ q.pub = request[r].pub
        /\ q.todo = Tail(request[r].todo) /\ request' = [request EXCEPT ![r] = q]
    BY <1>0, <1>1, <1>3 DEF Continue, Request
  <2> HIDE DEF q
  <2>2. PICK strange \in BOOLEAN : AfterSelect(r, Head(request[r].todo), strange)
    BY DEF SelectAid, Next1
  <2>3. request[r].kind \in {"sign", "keygen"} /\ Head(request[r].todo) = "eth2" => WithoutEth2(applet, reader)
    <3> SUFFICES ASSUME request[r].kind \in {"sign", "keygen"}, Head(request[r].todo) = "eth2"
                 PROVE  WithoutEth2(applet, reader)
      OBVIOUS
    <3>1. ~Holds(applet.at, "eth2") /\ DemoAllowed
      BY <1>3, <2>2 DEF AfterSelect
    <3>2. CardAt(applet.at) # NoCard
      BY <1>1 DEF Alive
    <3> QED BY <1>1, <3>1, <3>2, AliveLive DEF Holds, WithoutEth2
  <2>4. CASE request[r].kind = "sign"
    <3>1. Signing(request[r], applet, reader)
      BY <1>0, <1>1, <2>4 DEF InScript
    <3>2. Head(request[r].todo) \in AIDs
      BY DEF SelectAid, Next1
    <3>3. Signing(q, applet, reader)
      <4>1. CASE request[r].todo = Script("sign")
        BY <2>1, <2>3, <2>4, <4>1 DEF Script, Signing
      <4>2. CASE request[r].todo = <<"eth1", "pubkey", "sign">>
        BY <2>1, <3>1, <4>2 DEF Script, Signing
      <4>3. CASE request[r].todo \in {<<"pubkey", "sign">>, <<"sign">>}
        BY <3>2, <4>3 DEF AIDs
      <4> QED BY <1>1, <3>1, <4>1, <4>2, <4>3 DEF Signing
    <3>4. InScript(q, applet, reader)
      BY <2>1, <2>4, <3>3 DEF InScript
    <3> QED BY <1>1, <2>1, <3>4, OneMoves
  <2>5. CASE request[r].kind = "keygen"
    <3>1. Keying(request[r], applet, reader) /\ KeygenAllowed
      BY <1>0, <1>1, <2>5 DEF InScript
    <3>2. Head(request[r].todo) \in AIDs
      BY DEF SelectAid, Next1
    <3>3. Keying(q, applet, reader)
      <4>1. CASE request[r].todo = Script("keygen")
        BY <2>1, <2>3, <2>5, <4>1 DEF Script, Keying
      <4>2. CASE request[r].todo = <<"eth1", "version", "eth2", "eth1", "keygen">>
        BY <2>1, <3>1, <4>2 DEF Script, Keying
      <4>3. CASE request[r].todo \in {<<"version", "eth2", "eth1", "keygen">>, <<"keygen">>}
        BY <3>2, <4>3 DEF AIDs
      <4>4. CASE request[r].todo = <<"eth2", "eth1", "keygen">>
        BY <2>1, <3>1, <4>4 DEF Script, Keying
      <4>5. CASE request[r].todo = <<"eth1", "keygen">>
        BY <2>1, <3>1, <4>5 DEF Script, Keying
      <4> QED BY <1>1, <3>1, <4>1, <4>2, <4>3, <4>4, <4>5 DEF Keying
    <3>4. InScript(q, applet, reader)
      BY <2>1, <2>5, <3>1, <3>3 DEF InScript
    <3> QED BY <1>1, <2>1, <3>4, OneMoves
  <2>6. CASE request[r].kind \notin {"sign", "keygen"}
    <3>1. q.todo \in Seq(Harmless)
      <4>1. request[r].todo \in Seq(Harmless) /\ request[r].todo # <<>>
        BY <1>0, <1>1, <2>6 DEF InScript
      <4> QED BY <2>1, <4>1
    <3>2. InScript(q, applet, reader)
      BY <2>1, <2>6, <3>1 DEF InScript
    <3> QED BY <1>1, <2>1, <3>2, OneMoves
  <2> QED BY <2>4, <2>5, <2>6
<1> QED BY <1>2, <1>3 DEF SelectAid, AfterSelect

\* A request that neither signs nor makes keys goes on.
LEMMA OthersInScript ==
  ASSUME RequestTypes, ScriptInv, NEW r \in Requests, Sending(r), Continue(r),
         request[r].kind \notin {"sign", "keygen"},
         UNCHANGED <<applet, reader>> \/ \A p \in Requests \ {r} : request[p].pc # "card"
  PROVE  \A p \in Requests : InScript(request'[p], applet', reader')
<1> DEFINE q == [request[r] EXCEPT !.todo = Tail(@)]
<1>1. request[r] \in Request /\ request[r].pc = "card" /\ request[r].todo # <<>>
      /\ InScript(request[r], applet, reader)
  BY DEF RequestTypes, ScriptInv, Sending, At
<1>2. /\ q.pc = "card" /\ q.kind = request[r].kind
      /\ q.todo = Tail(request[r].todo) /\ request' = [request EXCEPT ![r] = q]
  BY <1>1 DEF Continue, Request
<1> HIDE DEF q
<1>3. request[r].todo \in Seq(Harmless)
  BY <1>1 DEF InScript
<1>4. q.todo \in Seq(Harmless)
  BY <1>1, <1>2, <1>3
<1>5. InScript(q, applet', reader')
  BY <1>2, <1>4 DEF InScript
<1> QED BY <1>2, <1>5, OneMoves

\* Only the request under the lock is at the card.
LEMMA Alone ==
  ASSUME NothingLeaks, NEW r \in Requests, Sending(r)
  PROVE  \A p \in Requests \ {r} : request[p].pc # "card"
BY DEF NothingLeaks, Sending, At

LEMMA RaiseInScript ==
  ASSUME RequestTypes, ScriptInv, NothingLeaks, NEW r \in Requests, Sending(r), Raise(r)
  PROVE  \A p \in Requests : InScript(request'[p], applet', reader')
<1>1. CASE request[r].kind = "status"
  BY <1>1, Alone, OthersInScript DEF Raise
<1>2. CASE request[r].kind # "status"
  BY <1>2, Alone, AnswerInScript DEF Raise
<1> QED BY <1>1, <1>2

\* A new connection: a request that was in the middle of its script had one.
LEMMA ConnectInScript ==
  ASSUME RequestTypes, ScriptInv, NothingLeaks, NEW r \in Requests, Connect(r)
  PROVE  \A p \in Requests : InScript(request'[p], applet', reader')
<1>1. Sending(r) /\ applet = NoConn /\ (Raise(r) \/ UNCHANGED request)
  BY DEF Connect
<1>2. CASE UNCHANGED request
  <2>1. InScript(request[r], applet, reader) /\ request[r].pc = "card"
    BY <1>1 DEF ScriptInv, Sending, At
  <2>2. InScript(request[r], applet', reader')
    BY <1>1, <2>1 DEF InScript, Signing, Keying, WithoutEth2
  <2>3. request' = [request EXCEPT ![r] = request[r]]
    BY <1>2 DEF RequestTypes
  <2> QED BY <1>1, <2>2, <2>3, Alone, OneMoves
<1> QED BY <1>1, <1>2, RaiseInScript

\* A signature is made with everything checked on the same card.
LEMMA EthInScript ==
  ASSUME PolicyTypes, RequestTypes, ScriptInv, NEW r \in Requests, TransmitToEth(r)
  PROVE  (\A p \in Requests : InScript(request'[p], applet', reader')) /\ Eth1Contained'
<1> DEFINE c == CardAt(applet.at)
           cmd == Next1(r)
           q == [request[r] EXCEPT !.todo = Tail(@), !.pub = IF cmd = "pubkey" THEN c ELSE @]
           e == [cmd |-> cmd, card |-> c, pub |-> request[r].pub]
<1>1. /\ UNCHANGED <<applet, reader>> /\ Alive(applet) /\ request[r].pc = "card" /\ request[r].todo # <<>>
      /\ cmd \in {"version", "pubkey", "sign", "keygen"} /\ cmd = Head(request[r].todo)
  BY DeskLeavesCards DEF TransmitToEth, Sending, At, Next1, pcsc
<1>2. request[r] \in Request /\ InScript(request[r], applet, reader)
  BY DEF RequestTypes, ScriptInv
<1>3. Live(applet, reader) /\ c = reader[applet.at].card
  BY <1>1, AliveLive
<1>4. q.pc = "card" /\ q.kind = request[r].kind /\ q.todo = Tail(request[r].todo)
      /\ q.pub = IF cmd = "pubkey" THEN c ELSE request[r].pub
  BY <1>1, <1>2 DEF Request
<1>5. \/ Answer(r) /\ sent' = sent
      \/ /\ cmd = "version" => c \in Guarded
         /\ request' = [request EXCEPT ![r] = q]
         /\ sent' = IF cmd \in {"sign", "keygen"} THEN sent \cup {e} ELSE sent
  BY DEF TransmitToEth
<1>6. e.cmd = cmd /\ e.card = c /\ e.pub = request[r].pub
  OBVIOUS
<1> HIDE DEF c, cmd, q, e
<1>7. request[r].kind \in {"sign", "keygen"}
  <2> SUFFICES ASSUME request[r].kind \notin {"sign", "keygen"} PROVE FALSE
    OBVIOUS
  <2>1. request[r].todo \in Seq(Harmless)
    BY <1>2 DEF InScript
  <2>2. Head(request[r].todo) \in Harmless
    BY <1>1, <2>1
  <2> QED BY <1>1, <2>2 DEF Harmless, AIDs
<1>8. CASE Answer(r) /\ sent' = sent
  BY <1>1, <1>8, AnswerInScript DEF ScriptInv, Eth1Contained
<1>9. CASE request[r].kind = "sign" /\ request' = [request EXCEPT ![r] = q]
           /\ sent' = IF cmd \in {"sign", "keygen"} THEN sent \cup {e} ELSE sent
  <2>1. Signing(request[r], applet, reader)
    BY <1>1, <1>2, <1>9 DEF InScript
  <2>2. CASE request[r].todo = <<"pubkey", "sign">>
    <3>1. cmd = "pubkey" /\ q.todo = <<"sign">> /\ q.pub = c
      BY <1>1, <1>4, <2>2
    <3>2. WithoutEth2(applet, reader)
      BY <2>1, <2>2 DEF Signing, Script
    <3>3. InScript(q, applet, reader)
      BY <1>3, <1>4, <1>9, <3>1, <3>2 DEF InScript, Signing
    <3>4. sent' = sent
      BY <1>9, <3>1
    <3> QED BY <1>1, <1>9, <3>3, <3>4, OneMoves DEF ScriptInv, Eth1Contained
  <2>3. CASE request[r].todo = <<"sign">>
    <3>1. cmd = "sign" /\ q.todo = <<>>
      BY <1>1, <1>4, <2>3
    <3>2. WithoutEth2(applet, reader) /\ request[r].pub = reader[applet.at].card
      BY <1>3, <2>1, <2>3 DEF Signing, Script
    <3>3. InScript(q, applet, reader)
      BY <1>4, <1>9, <3>1 DEF InScript, Signing
    <3>4. sent' = sent \cup {e}
      BY <1>9, <3>1
    <3>5. Eth1Contained'
      BY <1>3, <1>6, <3>1, <3>2, <3>4 DEF ScriptInv, Eth1Contained, WithoutEth2
    <3> QED BY <1>1, <1>9, <3>3, <3>5, OneMoves
  <2>4. request[r].todo \in {<<"pubkey", "sign">>, <<"sign">>}
    <3>1. request[r].todo # Script("sign")
      BY <1>1 DEF Script
    <3>2. request[r].todo # <<"eth1", "pubkey", "sign">>
      BY <1>1
    <3> QED BY <1>1, <2>1, <3>1, <3>2 DEF Signing
  <2> QED BY <2>2, <2>3, <2>4
<1>10. CASE request[r].kind = "keygen" /\ request' = [request EXCEPT ![r] = q]
            /\ (cmd = "version" => c \in Guarded)
            /\ sent' = IF cmd \in {"sign", "keygen"} THEN sent \cup {e} ELSE sent
  <2>1. Keying(request[r], applet, reader) /\ KeygenAllowed
    BY <1>1, <1>2, <1>10 DEF InScript
  <2>2. CASE request[r].todo = <<"version", "eth2", "eth1", "keygen">>
    <3>1. cmd = "version" /\ q.todo = <<"eth2", "eth1", "keygen">>
      BY <1>1, <1>4, <2>2
    <3>2. WithoutEth2(applet, reader)
      BY <2>1, <2>2 DEF Keying, Script
    <3>3. InScript(q, applet, reader)
      BY <1>3, <1>4, <1>10, <2>1, <3>1, <3>2 DEF InScript, Keying
    <3>4. sent' = sent
      BY <1>10, <3>1
    <3> QED BY <1>1, <1>10, <3>3, <3>4, OneMoves DEF ScriptInv, Eth1Contained
  <2>3. CASE request[r].todo = <<"keygen">>
    <3>1. cmd = "keygen" /\ q.todo = <<>>
      BY <1>1, <1>4, <2>3
    <3>2. WithoutEth2(applet, reader) /\ c \in Guarded
      BY <1>3, <2>1, <2>3 DEF Keying, Script
    <3>3. InScript(q, applet, reader)
      BY <1>4, <1>10, <2>1, <3>1 DEF InScript, Keying
    <3>4. sent' = sent \cup {e}
      BY <1>10, <3>1
    <3>5. Eth1Contained'
      BY <1>3, <1>6, <2>1, <3>1, <3>2, <3>4 DEF ScriptInv, Eth1Contained, WithoutEth2
    <3> QED BY <1>1, <1>10, <3>3, <3>5, OneMoves
  <2>4. request[r].todo \in {<<"version", "eth2", "eth1", "keygen">>, <<"keygen">>}
    <3>1. request[r].todo # Script("keygen")
      BY <1>1 DEF Script
    <3>2. /\ request[r].todo # <<"eth1", "version", "eth2", "eth1", "keygen">>
          /\ request[r].todo # <<"eth2", "eth1", "keygen">> /\ request[r].todo # <<"eth1", "keygen">>
      BY <1>1
    <3> QED BY <1>1, <2>1, <3>1, <3>2 DEF Keying
  <2> QED BY <2>2, <2>3, <2>4
<1> QED BY <1>5, <1>7, <1>8, <1>9, <1>10

LEMMA TransmitInScript ==
  ASSUME RequestTypes, ScriptInv, NEW r \in Requests, Transmit(r)
  PROVE  \A p \in Requests : InScript(request'[p], applet', reader')
<1>1. /\ Sending(r) /\ Continue(r) /\ UNCHANGED <<applet, reader>>
      /\ Head(request[r].todo) \in {"atr", "read"} /\ request[r].todo # <<>> /\ request[r].pc = "card"
  BY DEF Transmit, cardFrame, Sending, Next1, At
<1>2. InScript(request[r], applet, reader)
  BY DEF ScriptInv
<1>3. request[r].kind # "sign"
  BY <1>1, <1>2 DEF InScript, Signing, Script
<1>4. request[r].kind # "keygen"
  BY <1>1, <1>2 DEF InScript, Keying, Script
<1> QED BY <1>1, <1>3, <1>4, OthersInScript

\* An exchanged card ends the connection, and with it what was made sure of.
LEMMA SwapInScript ==
  ASSUME PolicyTypes, RequestTypes, ScriptInv, Swap, UNCHANGED <<request, applet>>
  PROVE  \A p \in Requests : InScript(request'[p], applet', reader')
<1>1. PICK i \in Readers, c \in Cards \cup {NoCard} :
        reader' = [reader EXCEPT ![i] = [card |-> c, gen |-> swaps + 1]]
  BY DEF Swap
<1>2. reader'[i].gen = swaps + 1 /\ \A j \in Readers \ {i} : reader'[j] = reader[j]
  BY <1>1 DEF PolicyTypes, PolicyTypeOK
<1>3. applet.gen \in Nat /\ applet.at \in Readers \cup {0} /\ swaps \in Nat /\ applet.gen <= swaps
  BY EthPolicyAssumption DEF PolicyTypes, PolicyTypeOK, Connection, ScriptInv
<1>4. Live(applet, reader') => Live(applet, reader) /\ reader'[applet.at] = reader[applet.at]
  BY <1>2, <1>3 DEF Live
<1>5. ASSUME NEW q, InScript(q, applet, reader) PROVE InScript(q, applet, reader')
  <2>1. WithoutEth2(applet, reader) => WithoutEth2(applet, reader')
    BY <1>4 DEF WithoutEth2
  <2>2. Signing(q, applet, reader) => Signing(q, applet, reader')
    BY <1>4, <2>1 DEF Signing
  <2>3. Keying(q, applet, reader) => Keying(q, applet, reader')
    BY <1>4, <2>1 DEF Keying
  <2> QED BY <1>5, <2>2, <2>3 DEF InScript
<1> QED BY <1>5 DEF ScriptInv

\* The generation of the cached connection.
LEMMA GenKept ==
  ASSUME PolicyTypes, GenInv, ScriptInv, NEW r \in Requests, Thread(r)
  PROVE  applet'.gen <= swaps'
<1>1. swaps' = swaps /\ swaps \in Nat
  BY RequestsLeaveTool, EthPolicyAssumption DEF PolicyTypes, PolicyTypeOK
<1>2. CASE UNCHANGED applet
  BY <1>1, <1>2 DEF ScriptInv
<1>3. CASE applet' = NoConn
  BY <1>1, <1>3 DEF NoConn
<1>4. CASE Connect(r) /\ ~UNCHANGED applet
  <2>1. PICK aid, f : OpenApplet(aid, f) = "ok" /\ applet' = Conn(First(Answering(aid, f)))
    BY <1>4 DEF Connect
  <2>2. First(Answering(aid, f)) \in Readers
    BY <2>1, OpenOk, AnsweringFirst
  <2> QED BY <1>1, <2>1, <2>2 DEF Conn, GenInv
<1>5. UNCHANGED applet \/ applet' = NoConn \/ Connect(r)
  BY DeskLeavesCards DEF Thread, AtDesk, TransmitFails, SelectAid
<1> QED BY <1>2, <1>3, <1>4, <1>5

\* Which requests make a signature or a key.
LEMMA ThreadInScript ==
  ASSUME TypeInv, ScriptInv, NothingLeaks, GenInv, NEW r \in Requests, Thread(r)
  PROVE  ScriptInv'
<1> USE DEF TypeInv, RequestTypes
<1>1. applet'.gen <= swaps'
  BY GenKept
<1>2. CASE TransmitToEth(r)
  BY <1>1, <1>2, EthInScript DEF ScriptInv
<1>3. CASE ~TransmitToEth(r)
  <2>1. sent' = sent
    BY <1>3 DEF Thread, Accept, Begin, BeginRefuses, Body, Pair, Deadline, TakeLock, Reply, Connect,
                TransmitFails, SelectAid, Transmit, card
  <2>2. Eth1Contained'
    BY <2>1 DEF ScriptInv, Eth1Contained
  <2>3. CASE AtDesk(r)
    BY <1>1, <2>2, <2>3, DeskInScript DEF ScriptInv
  <2>4. CASE Connect(r)
    BY <1>1, <2>2, <2>4, ConnectInScript DEF ScriptInv
  <2>5. CASE TransmitFails(r)
    BY <1>1, <2>2, <2>5, RaiseInScript DEF ScriptInv, TransmitFails
  <2>6. CASE SelectAid(r)
    BY <1>1, <2>2, <2>6, SelectInScript DEF ScriptInv
  <2>7. CASE Transmit(r)
    BY <1>1, <2>2, <2>7, TransmitInScript DEF ScriptInv
  <2> QED BY <1>3, <2>3, <2>4, <2>5, <2>6, <2>7 DEF Thread, AtDesk
<1> QED BY <1>2, <1>3

\* The dashboard signs and makes keys with ETH1 only on a card without ETH2 and
\* in the demo, a key only behind the one-shot guard, and shows a signature with
\* the key of the same card, for any number of cards, readers and requests.
THEOREM ContainedSafety == Spec => []Eth1Contained
<1>1. Init => ScriptInv
  <2> SUFFICES ASSUME Init PROVE ScriptInv
    OBVIOUS
  <2>1. \A r \in Requests : request[r] = [Idle EXCEPT !.pc = "off"]
    BY DEF Init, Idle
  <2>2. \A r \in Requests : InScript(request[r], applet, reader)
    BY <2>1, IdleInScript
  <2>3. applet.gen <= swaps /\ sent = {}
    BY DEF Init, PolicyInit, NoConn
  <2> QED BY <2>2, <2>3 DEF ScriptInv, Eth1Contained
<1>2. TypeInv /\ NothingLeaks /\ ToolInv /\ ScriptInv /\ [Next]_vars => ScriptInv'
  <2> SUFFICES ASSUME TypeInv, NothingLeaks, ToolInv, ScriptInv, [Next]_vars PROVE ScriptInv'
    OBVIOUS
  <2>1. ASSUME NEW r \in Requests, Thread(r) PROVE ScriptInv'
    BY <2>1, ThreadInScript DEF ToolInv
  <2>2. CASE Swap /\ UNCHANGED <<token, now, pairing, serving>>
    <3>1. \A p \in Requests : InScript(request'[p], applet', reader')
      BY <2>2, SwapInScript DEF serving, TypeInv, RequestTypes
    <3>2. applet'.gen <= swaps'
      BY <2>2, EthPolicyAssumption DEF Swap, serving, ScriptInv, TypeInv, PolicyTypes, PolicyTypeOK, Connection
    <3> QED BY <2>2, <3>1, <3>2 DEF ScriptInv, Eth1Contained, serving
  <2>3. CASE UNCHANGED <<request, applet, reader, sent, swaps>>
    BY <2>3 DEF ScriptInv, Eth1Contained
  <2>4. ToolNext => UNCHANGED <<reader, swaps>>
    BY DEF ToolNext, StartTool, OpenEth2, ConfirmEth2Absent, Confirmed, OpenEth1, GetVersion, Keygen,
           SignTest, ToolFails, Lost, Command, pcsc
  <2> QED BY <2>1, <2>2, <2>3, <2>4 DEF Next, Tick, card, pcsc, serving, vars
<1>3. ScriptInv => Eth1Contained
  BY DEF ScriptInv
<1> QED BY <1>1, <1>2, <1>3, Types, LeakSafety, ToolInvariant, PTL DEF Spec

=============================================================================
