----------------------------- MODULE EthPolicy -----------------------------
(***************************************************************************)
(* scripts/nuri_pcsc.py and scripts/nuri_eth_policy.py, with the tool      *)
(* scripts/card-eth-test.py that uses them: how an applet is found among   *)
(* readers and protocols that fail, and when the signer without a PIN      *)
(* (ETH1) may be opened instead of the one with a PIN (ETH2).              *)
(*                                                                         *)
(* Cards are taken out of and put into the readers at any time; a          *)
(* connection works only until the card of its reader is changed.          *)
(***************************************************************************)
EXTENDS Naturals, Sequences

CONSTANTS
  Cards,        \* the owner's cards
  Applets,      \* [Cards -> SUBSET AIDs]: the applets installed on each
  Guarded,      \* cards whose ETH1 applet has the one-shot KEYGEN (version >= 1.4)
  NumReaders,   \* readers, in the order PC/SC lists them
  NoCard,       \* an empty reader
  DemoAllowed,  \* NURI_ALLOW_ETH1_DEMO is 1
  MaxSwaps,     \* bound on the card exchanges
  MaxFaults     \* bound on the transport faults

AIDs == {"eth2", "musig2", "totp", "fido2", "eth1"}
Readers == 1..NumReaders

ASSUME EthPolicyAssumption ==
  /\ Applets \in [Cards -> SUBSET AIDs] /\ Guarded \subseteq Cards /\ NoCard \notin Cards
  /\ NumReaders \in Nat \ {0} /\ DemoAllowed \in BOOLEAN
  /\ MaxSwaps \in Nat /\ MaxFaults \in Nat

VARIABLES
  reader,   \* the card in each reader, and how often it was exchanged
  selected, \* the applet selected on the card of each reader
  swaps,    \* exchanges so far
  faults,   \* transport faults so far
  tool      \* card-eth-test.py

pcsc == <<reader, selected, swaps, faults>>

NoConn == [at |-> 0, gen |-> 0]
Connection == [at : Readers \cup {0}, gen : 0..MaxSwaps]

ToolPC == {"idle", "openEth2", "confirm", "openEth1", "version", "keygen", "probe", "sign",
           "refused", "done"}
\* undisturbed and wiped are history: no exchange since the readers were probed,
\* and a key was replaced although that was not asked for.
Tool == [pc : ToolPC, regenerate : BOOLEAN, next : 1..NumReaders + 1, confirmed : BOOLEAN,
         faulty : BOOLEAN, conn : Connection, undisturbed : BOOLEAN, wiped : BOOLEAN]

PolicyInit ==
  /\ reader \in [Readers -> [card : Cards \cup {NoCard}, gen : {0}]]
  /\ \A i, j \in Readers : i # j /\ reader[i].card = reader[j].card => reader[i].card = NoCard
  /\ selected = [i \in Readers |-> "none"]
  /\ swaps = 0 /\ faults = 0
  /\ tool = [pc |-> "idle", regenerate |-> FALSE, next |-> 1, confirmed |-> FALSE,
             faulty |-> FALSE, conn |-> NoConn, undisturbed |-> FALSE, wiped |-> FALSE]

-----------------------------------------------------------------------------
(* Connections.                                                            *)

CardAt(i) == reader[i].card
Holds(i, aid) == CardAt(i) # NoCard /\ aid \in Applets[CardAt(i)]
Alive(c) == c.at # 0 /\ reader[c.at].gen = c.gen /\ CardAt(c.at) # NoCard
Conn(i) == [at |-> i, gen |-> reader[i].gen]

\* The ladder of protocols at one reader: with a fault, connecting fails under
\* every protocol, or the probe raises under every protocol that connects.
Ladder(i, aid, fault) ==
  CASE fault = "connect" -> "TRANSPORT"
    [] fault = "probe"   -> "NO_APPLET"
    [] CardAt(i) = NoCard -> "NO_CARD"
    [] OTHER -> IF Holds(i, aid) THEN "ok" ELSE "NO_APPLET"

Faults == {f \in [Readers -> {"none", "connect", "probe"}] :
             \A i \in Readers : f[i] = "none" \/ (CardAt(i) # NoCard /\ faults < MaxFaults)}
Faulty(f) == \E i \in Readers : f[i] # "none"

\* open_applet: the first reader whose card answers, or the worst error.
Answering(aid, f) == {i \in Readers : Ladder(i, aid, f[i]) = "ok"}
First(s) == CHOOSE i \in s : \A j \in s : i <= j
OpenApplet(aid, f) ==
  LET codes == {Ladder(i, aid, f[i]) : i \in Readers}
      rank == <<"NO_APPLET", "TRANSPORT", "NO_CARD">>
  IN  IF Answering(aid, f) # {} THEN "ok" ELSE rank[First({k \in 1..3 : rank[k] \in codes})]

Fail(f) == faults' = faults + (IF Faulty(f) THEN 1 ELSE 0)
Select(i, aid) == selected' = [selected EXCEPT ![i] = IF Holds(i, aid) THEN aid ELSE @]

\* The owner exchanges the card of a reader, or takes it out or puts it back.
Swap ==
  /\ swaps < MaxSwaps
  /\ \E i \in Readers, c \in Cards \cup {NoCard} :
       /\ c = NoCard \/ \A j \in Readers \ {i} : CardAt(j) # c
       /\ CardAt(i) # NoCard \/ c # NoCard
       /\ reader' = [reader EXCEPT ![i] = [card |-> c, gen |-> swaps + 1]]
       /\ selected' = [selected EXCEPT ![i] = "none"]
  /\ swaps' = swaps + 1
  /\ tool' = [tool EXCEPT !.undisturbed = FALSE]
  /\ UNCHANGED faults

-----------------------------------------------------------------------------
(* card-eth-test.py: open_eth1_demo, then the test of the applet.          *)

Go(place) == tool' = [tool EXCEPT !.pc = place]

StartTool ==
  /\ tool.pc = "idle"
  /\ \E regenerate \in BOOLEAN :
       tool' = [tool EXCEPT !.pc = IF DemoAllowed THEN "openEth2" ELSE "refused",
                            !.regenerate = regenerate]
  /\ UNCHANGED pcsc

OpenEth2 ==
  /\ tool.pc = "openEth2"
  /\ \E f \in Faults :
       /\ Fail(f)
       /\ tool' = [tool EXCEPT !.pc = IF OpenApplet("eth2", f) = "NO_APPLET" THEN "confirm"
                                      ELSE "refused"]
       /\ IF Answering("eth2", f) # {} THEN Select(First(Answering("eth2", f)), "eth2")
          ELSE UNCHANGED selected
  /\ UNCHANGED <<reader, swaps>>

\* Mutant: a reader that failed is passed over like an empty one.
ConfirmEth2Absent_PassFaults ==
  /\ tool.pc = "confirm" /\ tool.next <= NumReaders
  /\ \E f \in Faults :
       LET i == tool.next
       IN  /\ \A j \in Readers \ {i} : f[j] = "none"
           /\ Fail(f)
           /\ IF f[i] = "none" THEN Select(i, "eth2") ELSE UNCHANGED selected
           /\ tool' = [tool EXCEPT !.next = @ + 1, !.undisturbed = @ \/ i = 1,
                !.confirmed = @ \/ (f[i] = "none" /\ CardAt(i) # NoCard /\ ~Holds(i, "eth2"))]
  /\ UNCHANGED <<reader, swaps>>

\* confirm_eth2_absent at one reader: 6A82 confirms, an empty reader is passed
\* over, any other answer and any fault is retained.
ConfirmEth2Absent ==
  /\ tool.pc = "confirm" /\ tool.next <= NumReaders
  /\ \E f \in Faults :
       LET i == tool.next
           absent == f[i] = "none" /\ CardAt(i) # NoCard /\ ~Holds(i, "eth2")
           empty == f[i] = "none" /\ CardAt(i) = NoCard
       IN  /\ \A j \in Readers \ {i} : f[j] = "none"
           /\ Fail(f)
           /\ IF f[i] = "none" THEN Select(i, "eth2") ELSE UNCHANGED selected
           /\ tool' = [tool EXCEPT !.next = @ + 1, !.confirmed = @ \/ absent,
                                   !.faulty = @ \/ ~(absent \/ empty),
                                   !.undisturbed = @ \/ i = 1]
  /\ UNCHANGED <<reader, swaps>>

Confirmed ==
  /\ tool.pc = "confirm" /\ tool.next > NumReaders
  /\ Go(IF tool.confirmed /\ ~tool.faulty THEN "openEth1" ELSE "refused")
  /\ UNCHANGED pcsc

OpenEth1 ==
  /\ tool.pc = "openEth1"
  /\ \E f \in Faults :
       /\ Fail(f)
       /\ IF Answering("eth1", f) = {} THEN Go("refused") /\ UNCHANGED selected
          ELSE LET i == First(Answering("eth1", f))
               IN  /\ tool' = [tool EXCEPT !.pc = "version", !.conn = Conn(i)]
                   /\ Select(i, "eth1")
  /\ UNCHANGED <<reader, swaps>>

\* One command over the tool's connection; any exception ends the tool.
Command(place) ==
  /\ tool.pc = place
  /\ UNCHANGED <<reader, selected, swaps>>
ToolCard == CardAt(tool.conn.at)
AnswersTool == Alive(tool.conn) /\ selected[tool.conn.at] = "eth1"
Lost(place) ==
  /\ Command(place)
  /\ AnswersTool => faults < MaxFaults
  /\ faults' = IF AnswersTool THEN faults + 1 ELSE faults
  /\ Go("refused")

GetVersion ==
  /\ Command("version") /\ AnswersTool /\ UNCHANGED faults
  /\ Go(IF tool.regenerate THEN "keygen" ELSE IF ToolCard \in Guarded THEN "probe" ELSE "sign")

\* KEYGEN, asked for (--regenerate) or as a probe of the one-shot guard.
Keygen ==
  /\ \E place \in {"keygen", "probe"} :
       /\ Command(place) /\ AnswersTool /\ UNCHANGED faults
       /\ tool' = [tool EXCEPT !.pc = "sign",
                               !.wiped = @ \/ (place = "probe" /\ ToolCard \notin Guarded)]

\* SIGN and the verification, then the health check of the MuSig2 applet's nonces.
SignTest ==
  /\ tool.pc = "sign" /\ AnswersTool
  /\ Select(tool.conn.at, "musig2")
  /\ Go("done")
  /\ UNCHANGED <<reader, swaps, faults>>

ToolFails == \E place \in {"version", "keygen", "probe", "sign"} : Lost(place)

ToolNext ==
  \/ StartTool \/ OpenEth2 \/ ConfirmEth2Absent \/ Confirmed \/ OpenEth1
  \/ GetVersion \/ Keygen \/ SignTest \/ ToolFails

-----------------------------------------------------------------------------
PolicyTypeOK ==
  /\ reader \in [Readers -> [card : Cards \cup {NoCard}, gen : 0..MaxSwaps]]
  /\ selected \in [Readers -> AIDs \cup {"none"}]
  /\ swaps \in 0..MaxSwaps /\ faults \in 0..MaxFaults
  /\ tool \in Tool

\* nuri_eth_policy.py: the signer without a PIN is opened only when no card in
\* any reader holds the one with a PIN, whatever readers and protocols failed;
\* and without --regenerate the tool replaces no key.  An exchange of cards
\* between the probe and the opening is the one way around the first.
Eth1Opened == tool.pc \in {"version", "keygen", "probe", "sign"}
ToolHonoursPolicy ==
  /\ Eth1Opened /\ tool.undisturbed => \A i \in Readers : ~Holds(i, "eth2")
  /\ Eth1Opened => DemoAllowed
  /\ ~tool.wiped
=============================================================================
