----------------------------- MODULE CardSecrets -----------------------------
(***************************************************************************)
(* scripts/card-secrets.py: secrets in an encrypted file, unlocked by the  *)
(* PRF of a FIDO2 credential (disk backend), or in the vault applet behind *)
(* its PIN (card backend), used by processes that run at the same time,    *)
(* are killed, lose the card or the answers of the card, or lose power.    *)
(* Commands of card-prf-backup.py run beside them.                         *)
(***************************************************************************)
EXTENDS PrfProfile

CONSTANTS
  EntryNames,  \* entry names
  VaultTries,  \* tries of the vault PIN
  MaxValues  \* bound on the secrets put into the file

ASSUME SecretsAssumption ==
  /\ Jobs \subseteq ProfileJobs \cup {"list", "put", "rm", "run"}
                    \cup {"init", "cardList", "cardPut", "cardRm", "cardHmac", "cardRun"}
  /\ {VaultTries, MaxValues} \subseteq Nat \ {0}

VARIABLES
  vault,    \* the vault file, and what of it is on the disk
  lock,     \* the process that holds the flock
  values,   \* secrets put so far; each is named by its number
  acked,    \* history: entries whose put was reported as done
  gone,     \* history: entries removed, or lost with the power
  applet,   \* the vault applet of each card
  unclean   \* a session of the inserted card ended without a logout

disk == <<vault, lock, values, acked, gone>>
fido == <<creds, profileFile>>
secretsVars == <<inserted, epoch, current, loggedIn, faults, creds, profile, saved, opened, process,
                 vault, lock, values, acked, gone, applet, unclean>>

\* An entry is sealed under the PRF output of a credential, or the fake one.
FakeKey == [cred |-> 0, uv |-> FALSE, salt |-> "first"]
Key == {FakeKey} \cup [cred : 1..MaxCreds, uv : BOOLEAN, salt : {"first"}]
FileEntry == [name : EntryNames, value : 1..MaxValues, key : Key]

\* log is history: what the puts and removals so far add up to.
NoVault == [mode |-> "absent", entries |-> {}, log |-> {}]
TornVault == [mode |-> "torn", entries |-> {}, log |-> {}]

Stored == [name : EntryNames, kind : {"hmac", "bearer"}]
Blank == [pin |-> FALSE, tries |-> VaultTries, entries |-> {}]

InUse(entries) == [mode |-> "card", entries |-> entries, log |-> entries]

\* A fresh system, or one with a secret in the file and one in each applet.
SecretsInit ==
  /\ \/ /\ ProfileInit(FALSE)
        /\ vault = [file |-> NoVault, durable |-> NoVault]
        /\ values = 0 /\ acked = {}
        /\ applet = [c \in Cards |-> Blank]
     \/ /\ ProfileInit(TRUE)
        /\ \E name \in EntryNames, kind \in {"hmac", "bearer"} :
             /\ acked = {[name |-> name, value |-> 1,
                          key |-> [cred |-> 1, uv |-> profile.uv, salt |-> "first"]]}
             /\ applet = [c \in Cards |-> [Blank EXCEPT !.pin = TRUE,
                                             !.entries = {[name |-> name, kind |-> kind]}]]
        /\ vault = [file |-> InUse(acked), durable |-> InUse(acked)]
        /\ values = 1
  /\ lock = None /\ gone = {} /\ unclean = FALSE

-----------------------------------------------------------------------------
(* Processes.                                                              *)

DiskJobs == {"list", "put", "rm", "run"}
Derivation(fake) == IF fake THEN <<>> ELSE <<"profile", "prf">>
SessionOf(job) ==
  CASE job = "init" -> <<"open", "status", "setPin", "readBack">>
    [] job \in {"cardPut", "cardRm"} -> <<"open", "status", "verify", "command", "readBack", "logout">>
    [] OTHER -> <<"open", "status", "verify", "command", "logout">>
Script(job, fake) ==
  CASE job = "list" -> <<"load", "unlock">>
    [] job = "put"  -> <<"load">> \o Derivation(fake) \o <<"seal", "unlock">>
    [] job = "rm"   -> <<"load", "remove", "unlock">>
    [] job = "run"  -> <<"load">> \o Derivation(fake) \o <<"unseal", "unlock">>
    [] job \in ProfileJobs -> ProfileScript(job)
    [] OTHER        -> SessionOf(job)

Asks(job, fake) == {Script(job, fake)[i] : i \in DOMAIN Script(job, fake)}

Start(p) ==
  /\ process[p].pc = "off"
  /\ \E job \in Jobs, fake, rightPin \in BOOLEAN, name \in EntryNames \cup {None}, class \in {1, 2} :
       /\ fake => job \in DiskJobs
       /\ class = 2 => job = "cardPut"
       /\ name # None <=> job \in {"put", "rm", "run", "cardPut", "cardRm", "cardHmac", "cardRun"}
       /\ ~rightPin => "prf" \in Asks(job, fake) \/ "verify" \in Asks(job, fake)
       /\ Becomes(p, [Fresh EXCEPT !.pc = "run", !.job = job, !.fake = fake, !.rightPin = rightPin,
                                   !.name = name, !.value = IF job = "cardPut" THEN class ELSE 0,
                                   !.todo = Script(job, fake)])
  /\ UNCHANGED <<cardState, faults, fido, disk, applet, unclean>>

\* A session that sent VERIFY, on a card that is still there.
Session(p) == process[p].pc = "run" /\ process[p].conn = epoch + 1
InSession(p) == Session(p) /\ process[p].attempted

\* The lock ends with the process; so does its card connection, which does not
\* log the applet out.
Kill(p) ==
  /\ process[p].pc = "run"
  /\ Becomes(p, Gone("killed", IF Next1(p, "write") THEN "torn" ELSE "none"))
  /\ lock' = IF lock = p THEN None ELSE lock
  /\ unclean' = (unclean \/ (loggedIn /\ InSession(p)))
  /\ UNCHANGED <<cardState, faults, fido, vault, values, acked, gone, applet>>

\* A power failure kills every process and leaves both files as they are on the disk.
HostPowerLoss ==
  /\ \E p \in Processes : process[p].pc = "run"
  /\ process' = [p \in Processes |->
       IF process[p].pc = "run" THEN Gone("killed", "none") ELSE process[p]]
  /\ vault' = [vault EXCEPT !.file = vault.durable]
  /\ gone' = gone \cup (vault.file.log \ vault.durable.log)
  /\ profile' \in saved /\ saved' = {profile'}
  /\ lock' = None /\ current' = "none" /\ loggedIn' = FALSE /\ unclean' = FALSE
  /\ UNCHANGED <<inserted, epoch, faults, creds, opened, values, acked, applet>>

-----------------------------------------------------------------------------
(* The file.                                                               *)

Failed == Gone("ended", "failed")
Unlocked(p) == lock' = IF lock = p THEN None ELSE lock

\* locked_vault: waits for the lock, reads the file under it, or begins an empty
\* vault in the mode of this process; then what is checked before the PRF is
\* asked for: the name, and the mode of the vault.
Mode(q) == IF q.fake THEN "fake" ELSE "card"
Loaded(q) == IF vault.file.mode = "absent" THEN [NoVault EXCEPT !.mode = Mode(q)] ELSE vault.file
Has(q, v) == \E e \in v.entries : e.name = q.name
Passes(q, v) ==
  /\ v.mode # "torn"
  /\ CASE q.job = "put" -> ~Has(q, v) /\ v.mode = Mode(q)
       [] q.job = "rm"  -> Has(q, v)
       [] q.job = "run" -> Has(q, v) /\ v.mode = Mode(q)
       [] OTHER         -> TRUE

\* Mutant: the lock is let go after the vault was read.
Load_LetsGo(p) ==
  /\ Next1(p, "load") /\ lock = None
  /\ LET q == process[p]
     IN  Becomes(p, IF Passes(q, Loaded(q)) THEN [Advance(q) EXCEPT !.copy = Loaded(q)] ELSE Failed)
  /\ UNCHANGED <<cardState, faults, fido, disk, applet, unclean>>

Load(p) ==
  /\ Next1(p, "load") /\ lock = None
  /\ LET q == process[p]
     IN  IF Passes(q, Loaded(q))
         THEN lock' = p /\ Becomes(p, [Advance(q) EXCEPT !.copy = Loaded(q)])
         ELSE UNCHANGED lock /\ Becomes(p, Failed)
  /\ UNCHANGED <<cardState, faults, fido, vault, values, acked, gone, applet, unclean>>

KeyOf(q) == IF q.fake THEN FakeKey ELSE CHOOSE k \in q.outputs : TRUE

\* Mutant: the temporary file replaces the vault before it is synced.
Replaced_NoSync(new) == \E durable \in {vault.durable, new, TornVault} :
  vault' = [file |-> new, durable |-> durable]

\* save(): a synced temporary file replaces the vault; the new name may reach the
\* disk later, the content not.
Replaced(new) == \E later \in BOOLEAN :
  vault' = [file |-> new, durable |-> IF later THEN vault.durable ELSE new]

Seal(p) ==
  /\ Next1(p, "seal") /\ values < MaxValues
  /\ LET q == process[p]
         e == [name |-> q.name, value |-> values + 1, key |-> KeyOf(q)]
     IN  /\ Replaced([q.copy EXCEPT !.entries = @ \cup {e}, !.log = vault.file.log \cup {e}])
         /\ Becomes(p, [Advance(q) EXCEPT !.value = values + 1])
  /\ values' = values + 1
  /\ UNCHANGED <<cardState, faults, fido, lock, acked, gone, applet, unclean>>

RemoveEntry(p) ==
  /\ Next1(p, "remove")
  /\ LET q == process[p]
         dead == {e \in q.copy.entries : e.name = q.name}
     IN  /\ Replaced([q.copy EXCEPT !.entries = @ \ dead, !.log = vault.file.log \ dead])
         /\ gone' = gone \cup dead
  /\ Goes(p)
  /\ UNCHANGED <<cardState, faults, fido, lock, values, acked, applet, unclean>>

\* unwrap(): only the key that sealed the entry opens it.
Unseal(p) ==
  /\ Next1(p, "unseal")
  /\ LET q == process[p]
         e == CHOOSE x \in q.copy.entries : x.name = q.name
     IN  IF e.key = KeyOf(q) THEN Becomes(p, [Advance(q) EXCEPT !.value = e.value]) /\ UNCHANGED lock
         ELSE Becomes(p, Failed) /\ Unlocked(p)
  /\ UNCHANGED <<cardState, faults, fido, vault, values, acked, gone, applet, unclean>>

\* The with block ends, and the command reports; run and proxy start the child.
Unlock(p) ==
  /\ Next1(p, "unlock")
  /\ Unlocked(p)
  /\ acked' = LET q == process[p]
              IN  IF q.job # "put" THEN acked
                  ELSE acked \cup {[name |-> q.name, value |-> q.value, key |-> KeyOf(q)]}
  /\ Becomes(p, Gone("ended", IF process[p].job # "run" THEN "ok"
       ELSE IF process[p].fake \/ KeyOf(process[p]).uv THEN "handedVerified" ELSE "handed"))
  /\ UNCHANGED <<cardState, faults, fido, vault, values, gone, applet, unclean>>

\* An exception in the PRF derivation ends the command and gives the lock back.
Profiles(p) ==
  /\ ProfileNext(p, Failed)
  /\ lock' = IF process'[p].pc = "run" THEN lock ELSE IF lock = p THEN None ELSE lock
  /\ unclean' = (unclean /\ loggedIn')
  /\ UNCHANGED <<vault, values, acked, gone, applet>>

-----------------------------------------------------------------------------
(* The vault applet.                                                       *)

\* What the applet does with the command a process sends next; another applet
\* refuses it.
Card == applet[inserted]
Step(p) == Head(process[p].todo)
Named(q, a) == {e \in a.entries : e.name = q.name}
PutEntry(q, a) == [name |-> q.name, kind |-> IF q.value = 1 THEN "hmac" ELSE "bearer"]

Accepted(p, a) ==
  LET q == process[p]
  IN  CASE Step(p) = "status"   -> IF q.job = "init" THEN ~a.pin ELSE a.pin /\ a.tries > 0
        [] Step(p) = "setPin"   -> ~a.pin
        [] Step(p) = "verify"   -> a.pin /\ a.tries > 0 /\ q.rightPin
        [] Step(p) = "readBack" ->
             IF q.job = "init" THEN a.pin
             ELSE loggedIn /\ Named(q, a) = IF q.job = "cardPut" THEN {PutEntry(q, a)} ELSE {}
        [] Step(p) = "command"  ->
             /\ loggedIn
             /\ q.job = "cardPut" => Named(q, a) = {}
             /\ q.job = "cardRm" => Named(q, a) # {}
             /\ q.job = "cardHmac" => \E e \in Named(q, a) : e.kind = "hmac"
             /\ q.job = "cardRun" => \E e \in Named(q, a) : e.kind = "bearer"

After(p, a) ==
  LET q == process[p]
  IN  CASE Step(p) = "verify" /\ a.pin /\ a.tries > 0 ->
             [a EXCEPT !.tries = IF q.rightPin THEN VaultTries ELSE @ - 1]
        [] Step(p) = "setPin" /\ ~a.pin -> [a EXCEPT !.pin = TRUE]
        [] Step(p) = "command" /\ Accepted(p, a) /\ q.job = "cardPut" ->
             [a EXCEPT !.entries = @ \cup {PutEntry(q, a)}]
        [] Step(p) = "command" /\ Accepted(p, a) /\ q.job = "cardRm" ->
             [a EXCEPT !.entries = @ \ Named(q, a)]
        [] OTHER -> a
Execute(p) ==
  IF current # "vault" THEN UNCHANGED <<applet, loggedIn>>
  ELSE /\ applet' = [applet EXCEPT ![inserted] = After(p, @)]
       /\ loggedIn' = IF Step(p) = "verify" /\ Card.pin THEN Accepted(p, Card) ELSE loggedIn

\* Mutant: only a VERIFY that was answered is remembered, so a session that fails
\* before its command is just closed.
SessionFails_Close(q) ==
  IF Head(q.todo) # "verify" /\ q.attempted THEN [q EXCEPT !.todo = <<"logout">>, !.result = "failed"]
  ELSE Failed

\* card_session's finally: a session that sent VERIFY, whatever became of it,
\* logs out; any other is just closed.
SessionFails(q) ==
  IF q.attempted THEN [q EXCEPT !.todo = <<"logout">>, !.result = "failed"] ELSE Failed

SelectVault == current' = "vault" /\ loggedIn' = FALSE /\ unclean' = FALSE

Open(p) ==
  /\ Next1(p, "open")
  /\ \/ /\ inserted # NoCard /\ SelectVault /\ UNCHANGED faults
        /\ Becomes(p, [Advance(process[p]) EXCEPT !.conn = epoch + 1])
     \/ /\ IF inserted = NoCard THEN UNCHANGED <<faults, current, loggedIn, unclean>>
           ELSE Fault /\ (SelectVault \/ UNCHANGED <<current, loggedIn, unclean>>)
        /\ Becomes(p, Failed)
  /\ UNCHANGED <<inserted, epoch, fido, disk, applet>>

VaultSteps == {"status", "setPin", "verify", "command", "readBack"}
Exchanging(p) == process[p].pc = "run" /\ process[p].todo # <<>> /\ Step(p) \in VaultSteps
Sends(p) == IF Step(p) = "verify" THEN [process[p] EXCEPT !.attempted = TRUE] ELSE process[p]

Exchange(p) ==
  /\ Exchanging(p) /\ Session(p) /\ inserted # NoCard
  /\ Execute(p)
  /\ Becomes(p, IF current = "vault" /\ Accepted(p, Card)
                THEN LET q == Advance(Sends(p))
                     IN  IF q.todo = <<>> THEN Gone("ended", "ok") ELSE q
                ELSE SessionFails(Sends(p)))
  /\ UNCHANGED <<inserted, epoch, current, faults, fido, disk, unclean>>

\* The connection is gone, or the exchange fails before or after the card acted.
ExchangeLost(p) ==
  /\ Exchanging(p)
  /\ \/ ~Session(p) /\ UNCHANGED <<faults, applet, loggedIn>>
     \/ Session(p) /\ inserted # NoCard /\ Fault
        /\ (Execute(p) \/ UNCHANGED <<applet, loggedIn>>)
  /\ Becomes(p, SessionFails(Sends(p)))
  /\ UNCHANGED <<inserted, epoch, current, fido, disk, unclean>>

\* The re-SELECT; a logout that cannot be confirmed is reported.
Logout(p) ==
  /\ Next1(p, "logout")
  /\ \/ /\ Session(p) /\ inserted # NoCard /\ SelectVault /\ UNCHANGED faults
        /\ Becomes(p, Gone("ended", IF process[p].result = "failed" THEN "failed" ELSE "ok"))
     \/ /\ IF ~Session(p) THEN UNCHANGED <<faults, current, loggedIn, unclean>>
           ELSE /\ inserted # NoCard /\ Fault
                /\ \/ SelectVault
                   \/ UNCHANGED <<current, loggedIn>> /\ unclean' = (unclean \/ loggedIn)
        /\ Becomes(p, Gone("ended", "failed"))
  /\ UNCHANGED <<inserted, epoch, fido, disk, applet>>

-----------------------------------------------------------------------------
Process(p) ==
  \/ Start(p) \/ Kill(p)
  \/ Load(p) \/ Seal(p) \/ RemoveEntry(p) \/ Unseal(p) \/ Unlock(p) \/ Profiles(p)
  \/ Open(p) \/ Exchange(p) \/ ExchangeLost(p) \/ Logout(p)

SecretsNext ==
  \/ \E p \in Processes : Process(p)
  \/ Swap /\ unclean' = FALSE /\ UNCHANGED <<disk, applet>>
  \/ HostPowerLoss

SecretsSpec == SecretsInit /\ [][SecretsNext]_secretsVars

-----------------------------------------------------------------------------
Vaults == [mode : {"absent", "card", "fake", "torn"}, entries : SUBSET FileEntry, log : SUBSET FileEntry]
Applets == [pin : BOOLEAN, tries : 0..VaultTries, entries : SUBSET Stored]
Steps == VaultSteps \cup {"load", "profile", "prf", "seal", "remove", "unseal", "unlock",
                         "create", "truncate", "write", "refuse", "open", "logout"}
Outputs == [cred : 1..MaxCreds, uv : BOOLEAN, salt : {"first", "other"}]
Results == {"none", "ok", "failed", "torn", "handed", "handedVerified"}
State ==
  [pc : PC, job : Jobs \cup {"none"}, fake : BOOLEAN, rightPin : BOOLEAN, todo : Seq(Steps),
   prof : Profile \cup {Absent}, outputs : SUBSET Outputs, conn : 0..MaxSwaps + 1, attempted : BOOLEAN,
   name : EntryNames \cup {None}, copy : Vaults \cup {None}, value : Nat, result : Results]
SecretsTypeOK ==
  /\ ProfileTypeOK /\ process \in [Processes -> State]
  /\ vault \in [file : Vaults, durable : Vaults]
  /\ lock \in Processes \cup {None} /\ values \in 0..MaxValues
  /\ acked \subseteq FileEntry /\ gone \subseteq FileEntry
  /\ applet \in [Cards -> Applets] /\ unclean \in BOOLEAN

\* docs/card-secrets.md: "Writes use an advisory lock and atomic replacement", and
\* "real and fake modes cannot mix".  However commands overlap, are killed or lose
\* power, the file is whole, holds exactly what all completed puts and removals
\* add up to, keeps every secret whose put was reported until it is removed or
\* the power fails, and no entry is sealed by the other mode.
VaultKept ==
  /\ \A v \in {vault.file, vault.durable} :
       /\ v.mode # "torn"
       /\ v.entries = v.log
       /\ \A e \in v.entries : e.key = FakeKey <=> v.mode = "fake"
       /\ \A e, f \in v.entries : e.name = f.name => e = f
  /\ acked \subseteq vault.file.log \cup gone

\* card_session: the applet is logged out when no session is left, also when the
\* answer to VERIFY was lost, when sessions of several processes overlap or when
\* one fails in the middle; except after a kill or a logout that was reported as
\* unconfirmed.
LoggedOut == loggedIn => unclean \/ \E p \in Processes : InSession(p)

\* docs/card-secrets.md: the broker derives "with user verification required".
UnlockNeedsPin == \A p \in Processes : process[p].result # "handed"
=============================================================================
