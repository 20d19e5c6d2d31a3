----------------------------- MODULE PrfProfile -----------------------------
(***************************************************************************)
(* scripts/card-prf-backup.py: credentials of the FIDO2 applet enrolled    *)
(* and saved in a profile file, and the PRF outputs derived from them.     *)
(* Several processes share the card in the reader, whose applets are       *)
(* selected one at a time, and the profile file, which is written in       *)
(* place and never synced.                                                 *)
(*                                                                         *)
(* A credential is named by its number; its PRF output for a salt differs  *)
(* with and without verification of the owner.                             *)
(***************************************************************************)
EXTENDS Naturals, FiniteSets, Sequences

CONSTANTS
  Processes,  \* command-line processes
  Jobs,       \* what they are started for
  Cards, NoCard,
  PinCards,   \* cards whose FIDO2 PIN is set
  None,
  MaxCreds,   \* bound on the credentials made
  MaxSwaps,   \* bound on the card exchanges
  MaxFaults   \* bound on the exchanges with a card that fail or lose their answer

ASSUME ProfileAssumption ==
  /\ NoCard \notin Cards /\ PinCards \subseteq Cards /\ None \notin Processes
  /\ MaxCreds \in Nat \ {0} /\ {MaxSwaps, MaxFaults} \subseteq Nat

VARIABLES
  inserted,  \* the card in the reader
  epoch,     \* exchanges so far, which tell connections apart
  current,   \* the applet selected on it
  loggedIn,  \* the vault applet's PIN is verified
  faults,    \* failed exchanges so far
  creds,     \* the credentials of each card
  profile,   \* the profile file
  saved,     \* what a loss of power may leave of it
  opened,    \* history: an enrolment that has its credential opened it for writing
  process    \* the processes

\* Whether the credential has the PRF extension, and whether the profile asks
\* for verification of the owner.
Profile == [cred : 1..MaxCreds, prf : BOOLEAN, uv : BOOLEAN]
Absent == [file |-> "absent"]
Truncated == [file |-> "truncated"]
Partial == [file |-> "partial"]  \* a part of a profile or parts of two; with its writers gone, perhaps nothing

Contents == Profile \cup {Absent, Truncated, Partial}

Credential == [cred : 1..MaxCreds, prf : BOOLEAN]
AllCreds == UNION {creds[c] : c \in Cards}

PC == {"off", "run", "ended", "killed"}

\* prof: the profile that was read, or is written; outputs: the PRF outputs;
\* conn: the epoch of its card connection plus one; attempted: VERIFY was sent;
\* name, copy, value: the entry and the vault CardSecrets works on; result: what
\* it reports.
Fresh ==
  [pc |-> "off", job |-> "none", fake |-> FALSE, rightPin |-> TRUE, todo |-> <<>>, prof |-> Absent,
   outputs |-> {}, conn |-> 0, attempted |-> FALSE, name |-> None, copy |-> None, value |-> 0,
   result |-> "none"]

\* Only the result of a process that ended remains.
Gone(place, result) == [Fresh EXCEPT !.pc = place, !.result = result]

Becomes(p, q) == process' = [process EXCEPT ![p] = q]
Next1(p, step) == process[p].pc = "run" /\ process[p].todo # <<>> /\ Head(process[p].todo) = step
Advance(q) == [q EXCEPT !.todo = Tail(@)]
Goes(p) == Becomes(p, Advance(process[p]))

cardState == <<inserted, epoch, current, loggedIn>>
profileFile == <<profile, saved, opened>>

\* A system in use has one enrolled credential, a fresh one nothing.
ProfileInit(inUse) ==
  /\ inserted \in Cards /\ epoch = 0 /\ current = "none" /\ loggedIn = FALSE /\ faults = 0
  /\ IF inUse
     THEN /\ inserted \in PinCards
          /\ creds = [c \in Cards |-> IF c = inserted THEN {[cred |-> 1, prf |-> TRUE]} ELSE {}]
          /\ \E uv \in BOOLEAN : profile = [cred |-> 1, prf |-> TRUE, uv |-> uv]
     ELSE creds = [c \in Cards |-> {}] /\ profile = Absent
  /\ saved = {profile} /\ opened = FALSE
  /\ process = [p \in Processes |-> Fresh]

\* The owner exchanges the card or takes it out.
Swap ==
  /\ epoch < MaxSwaps
  /\ epoch' = epoch + 1
  /\ inserted' \in (Cards \cup {NoCard}) \ {inserted}
  /\ current' = "none" /\ loggedIn' = FALSE
  /\ UNCHANGED <<faults, creds, profileFile, process>>

-----------------------------------------------------------------------------
(* Commands.                                                               *)

\* Mutant: the profile is opened for writing before the card is asked.
Enrolment_OpenFirst == <<"truncate", "create", "write">>

Enrolment == <<"create", "truncate", "write">>
ProfileJobs == {"enroll", "enrollForced", "derive", "selftest", "selftestForced", "assert"}

\* command_enroll looks for the profile first and refuses without --force;
\* command_selftest enrolls first unless there is one.
ProfileScript(job) ==
  CASE job = "enroll"         -> IF profile = Absent THEN Enrolment ELSE <<"refuse">>
    [] job = "enrollForced"   -> Enrolment
    [] job = "derive"         -> <<"profile", "prf">>
    [] job = "assert"         -> <<"profile", "prf">>
    [] job = "selftest"       -> (IF profile = Absent THEN Enrolment ELSE <<>>) \o <<"profile", "prf", "prf", "prf">>
    [] job = "selftestForced" -> Enrolment \o <<"profile", "prf", "prf", "prf">>

\* An exchange with the FIDO2 applet selects it and ends the vault's login.
UseFido == current' = "fido" /\ loggedIn' = FALSE /\ UNCHANGED <<inserted, epoch>>
Fault == faults < MaxFaults /\ faults' = faults + 1

\* make_credential, and the check that it reports the extension that was asked
\* for (that check is left out for a credential enrolled without PRF).  The
\* credential stays on the card whatever becomes of its profile.
Made(p) ==
  LET new == Cardinality(AllCreds) + 1
  IN  /\ Cardinality(AllCreds) < MaxCreds
      /\ \E asked, prf, uv, answered \in BOOLEAN :
           /\ uv => inserted \in PinCards
           /\ creds' = [creds EXCEPT ![inserted] = @ \cup {[cred |-> new, prf |-> prf]}]
           /\ IF answered THEN UNCHANGED faults ELSE Fault
           /\ Becomes(p, IF answered /\ (asked => prf)
                THEN [Advance(process[p]) EXCEPT !.prof = [cred |-> new, prf |-> asked, uv |-> uv]]
                ELSE Gone("ended", "failed"))

\* Without a card, an extension or a right PIN nothing is made.
Create(p) ==
  /\ Next1(p, "create")
  /\ IF inserted = NoCard THEN UNCHANGED cardState ELSE UseFido
  /\ \/ inserted # NoCard /\ Made(p)
     \/ Becomes(p, Gone("ended", "failed")) /\ UNCHANGED <<creds, faults>>
  /\ UNCHANGED profileFile

\* write_profile opens the file with O_TRUNC and then writes it.  Nothing syncs it,
\* so a loss of power may leave any of what it held since the last one.
TruncateProfile(p) ==
  /\ Next1(p, "truncate")
  /\ \/ /\ profile' = Truncated /\ saved' = saved \cup {Partial}
        /\ opened' = (opened \/ process[p].prof # Absent)
        /\ Goes(p)
     \/ Becomes(p, Gone("ended", "failed")) /\ UNCHANGED profileFile
  /\ UNCHANGED <<cardState, faults, creds>>

\* A second writer that truncated before the first wrote may leave the end of the
\* first one's longer profile behind its own.  A write or close that fails leaves
\* nothing, a part or all of the profile in the file it cut off.
WriteProfile(p) ==
  /\ Next1(p, "write")
  /\ \/ /\ profile' \in {process[p].prof} \cup (IF profile = Truncated THEN {} ELSE {Partial})
        /\ Becomes(p, IF Len(process[p].todo) = 1 THEN Gone("ended", "ok") ELSE Advance(process[p]))
     \/ /\ profile' \in {profile, Partial, process[p].prof}
        /\ Becomes(p, Gone("ended", "torn"))
  /\ saved' = (saved \cup {Partial, profile'}) \ {Truncated}
  /\ UNCHANGED <<cardState, faults, creds, opened>>

Refuse(p) ==
  /\ Next1(p, "refuse")
  /\ Becomes(p, Gone("ended", "failed"))
  /\ UNCHANGED <<cardState, faults, creds, profileFile>>

-----------------------------------------------------------------------------
(* Derivation: read_profile, then one assertion with the PRF extension.     *)

Whole(file) == file \notin {Absent, Truncated, Partial}

\* command_selftest ends here for a profile without PRF; webauthn-assert and
\* webauthn-probe may be told another credential.
ReadProfile(p, failed) ==
  /\ Next1(p, "profile")
  /\ LET q == Advance(process[p])
     IN  \/ Becomes(p, IF ~Whole(profile) THEN failed
              ELSE IF q.job \in {"selftest", "selftestForced"} /\ ~profile.prf THEN Gone("ended", "ok")
              ELSE [q EXCEPT !.prof = profile])
        \/ /\ q.job = "assert"
           /\ \E c \in AllCreds :
                Becomes(p, [q EXCEPT !.prof = [cred |-> c.cred, prf |-> FALSE, uv |-> TRUE]])
  /\ UNCHANGED <<cardState, faults, creds, profileFile>>

\* Whether the owner is verified: card-secrets.py and the selftest do what the
\* profile says, the other commands what their arguments say.
Verifies(q) == IF q.job \in {"derive", "assert"} THEN BOOLEAN ELSE {q.prof.uv}

\* The PRF of this card for the credential, with or without verification.
Derivable(q, uv) ==
  /\ inserted # NoCard
  /\ \E c \in creds[inserted] : c.cred = q.prof.cred /\ (q.job = "assert" \/ c.prf)
  /\ uv => inserted \in PinCards /\ q.rightPin
Salt(q) == IF q.job \in {"selftest", "selftestForced"} /\ Len(q.todo) = 1 THEN "other" ELSE "first"
Output(q, uv) == [cred |-> q.prof.cred, uv |-> uv, salt |-> Salt(q)]

Prf(p, failed) ==
  /\ Next1(p, "prf")
  /\ IF inserted = NoCard THEN UNCHANGED cardState ELSE UseFido
  /\ \E uv \in Verifies(process[p]) :
       \/ /\ Derivable(process[p], uv)
          /\ Becomes(p, LET q == Advance([process[p] EXCEPT !.outputs = @ \cup {Output(process[p], uv)}])
                        IN  IF q.todo = <<>> THEN Gone("ended", "ok") ELSE q)
          /\ UNCHANGED faults
       \/ /\ IF Derivable(process[p], uv) THEN Fault ELSE UNCHANGED faults
          /\ Becomes(p, failed)
  /\ UNCHANGED <<creds, profileFile>>

ProfileNext(p, failed) ==
  \/ Create(p) \/ TruncateProfile(p) \/ WriteProfile(p) \/ Refuse(p)
  \/ ReadProfile(p, failed) \/ Prf(p, failed)

-----------------------------------------------------------------------------
ProfileTypeOK ==
  /\ inserted \in Cards \cup {NoCard} /\ epoch \in 0..MaxSwaps /\ faults \in 0..MaxFaults
  /\ current \in {"none", "fido", "vault"} /\ loggedIn \in BOOLEAN
  /\ creds \in [Cards -> SUBSET Credential]
  /\ profile \in Contents /\ saved \subseteq Contents /\ opened \in BOOLEAN

\* card-prf-backup.py: a profile names a credential that a card made, with the
\* extension the profile says it has.  An enrolment that fails before it has its
\* credential leaves the old profile as it was, however many run: the file is broken
\* only by one that came as far as opening it (by a write that fails, a second
\* writer or a loss of power), and it stays empty only while that one is between
\* two calls, or was killed or failed there.
ProfileTrue ==
  /\ Whole(profile) =>
       \E c \in AllCreds : c.cred = profile.cred /\ (profile.prf => c.prf)
  /\ profile \in {Truncated, Partial} => opened
  /\ profile = Truncated =>
       \E q \in Processes : Next1(q, "write") \/ process[q].result = "torn"
=============================================================================
