----------------------------- MODULE HelperAuth -----------------------------
(***************************************************************************)
(* scripts/nuri_helper_auth.py: the service token shared through a file    *)
(* that several starting helpers may create at once, the one-time pairing  *)
(* code printed in the terminal, and the browser sessions it buys.         *)
(***************************************************************************)
EXTENDS Naturals, FiniteSets

CONSTANTS
  Starters,     \* processes that load the token (helpers, CLI clients)
  None,         \* no token, no session
  CodeTTL,      \* PAIR_CODE_TTL_S
  SessionTTL,   \* SESSION_TTL_S
  MaxFailures,  \* PAIR_MAX_FAILURES
  MaxSessions,  \* MAX_SESSIONS
  MaxTime,      \* bound on the clock
  MaxCodes      \* bound on the codes drawn

ASSUME AuthAssumption ==
  /\ None \notin Starters \cup {"old", "bad"}
  /\ {CodeTTL, SessionTTL, MaxFailures, MaxSessions, MaxCodes} \subseteq Nat \ {0}
  /\ MaxTime \in Nat

VARIABLES
  starter,      \* the processes in load_or_create_token
  tokenFile,    \* the token in the file; a token is named by who drew it
  temps,        \* the starters whose temporary file is in the directory
  now,          \* the monotonic clock
  code,         \* the current pairing code: its number and when it expires
  failures,     \* wrong guesses at it
  sessions,     \* the live sessions: number and absolute expiry
  paired        \* history: the sessions handed out, each with its code and time

token == <<starter, tokenFile, temps>>
pairing == <<code, failures, sessions, paired>>

\* "old" is a token from an earlier run, "bad" a file that is a link, is not
\* private or does not hold a token.
TokenValue == Starters \cup {"old"}
StarterPC == {"read", "create", "link", "unlink", "reread", "loaded", "refused", "killed"}
Session == [id : 1..MaxCodes, expires : 0..MaxTime + SessionTTL]

AuthInit ==
  /\ starter = [s \in Starters |-> [pc |-> "read", token |-> None]]
  /\ tokenFile \in {None, "old", "bad"}
  /\ temps = {}
  /\ now = 0
  /\ code = [number |-> 1, expires |-> CodeTTL] /\ failures = 0
  /\ sessions = {} /\ paired = {}

-----------------------------------------------------------------------------
(* The service token.                                                      *)

StarterAt(s, place) == starter[s].pc = place
Move(s, place) == starter' = [starter EXCEPT ![s].pc = place]

\* _read_token_at, before and after this process tried to create the file.
ReadToken(s) ==
  /\ starter[s].pc \in {"read", "reread"}
  /\ starter' = [starter EXCEPT ![s] =
       IF tokenFile \in TokenValue THEN [pc |-> "loaded", token |-> tokenFile]
       ELSE [@ EXCEPT !.pc = IF tokenFile = None /\ @ = "read" THEN "create" ELSE "refused"]]
  /\ UNCHANGED <<tokenFile, temps>>

\* _create_token_at: an exclusive temporary file, written and fsynced, is linked
\* to the name of the token.  A link never replaces a file.
WriteTemp(s) ==
  /\ StarterAt(s, "create")
  /\ temps' = temps \cup {s} /\ Move(s, "link")
  /\ UNCHANGED tokenFile

\* Mutant: the temporary file is renamed over the name of the token.
LinkToken_Replace(s) ==
  /\ StarterAt(s, "link")
  /\ tokenFile' = s
  /\ Move(s, "unlink")
  /\ UNCHANGED temps

LinkToken(s) ==
  /\ StarterAt(s, "link")
  /\ tokenFile' = IF tokenFile = None THEN s ELSE tokenFile
  /\ Move(s, "unlink")
  /\ UNCHANGED temps

UnlinkTemp(s) ==
  /\ StarterAt(s, "unlink")
  /\ temps' = temps \ {s} /\ Move(s, "reread")
  /\ UNCHANGED tokenFile

StarterKilled(s) ==
  /\ starter[s].pc \notin {"loaded", "refused", "killed"}
  /\ Move(s, "killed")
  /\ UNCHANGED <<tokenFile, temps>>

Settled == \A s \in Starters : starter[s].pc \in {"loaded", "refused", "killed"}

AuthNext ==
  \E s \in Starters :
    ReadToken(s) \/ WriteTemp(s) \/ LinkToken(s) \/ UnlinkTemp(s) \/ StarterKilled(s)

-----------------------------------------------------------------------------
(* Pairing, each operation under the lock of the Pairing object.           *)

\* _rotate: a new code, its failures and its expiry.
Rotate == code' = [number |-> code.number + 1, expires |-> now + CodeTTL] /\ failures' = 0

Prune(set) == {s \in set : s.expires > now}

\* The oldest sessions go while there are as many as allowed: min takes the
\* earliest expiry, and of equal ones the first inserted.
Older(s, t) == s.expires < t.expires \/ (s.expires = t.expires /\ s.id <= t.id)
Evict(set) ==
  {s \in set : Cardinality({t \in set : t # s /\ Older(s, t)}) < MaxSessions - 1}

Expired == now >= code.expires
Guess(given) == given = code.number

\* Mutant: the code that was used stays good.
PairOk_KeepCode(given) ==
  /\ code.number < MaxCodes
  /\ ~Expired /\ Guess(given)
  /\ Cardinality(paired) < MaxCodes
  /\ LET id == Cardinality(paired) + 1
     IN  /\ sessions' = Evict(Prune(sessions)) \cup {[id |-> id, expires |-> now + SessionTTL]}
         /\ paired' = paired \cup {[id |-> id, code |-> given, at |-> now]}
  /\ UNCHANGED <<code, failures>>

\* pair() with a right code within its time.
PairOk(given) ==
  /\ code.number < MaxCodes
  /\ ~Expired /\ Guess(given)
  /\ LET id == Cardinality(paired) + 1
     IN  /\ sessions' = Evict(Prune(sessions)) \cup {[id |-> id, expires |-> now + SessionTTL]}
         /\ paired' = paired \cup {[id |-> id, code |-> given, at |-> now]}
  /\ Rotate

\* Mutant: the last wrong guess is counted and burns nothing.
PairDenied_KeepCode(given) ==
  /\ code.number < MaxCodes
  /\ \/ Expired /\ Rotate
     \/ ~Expired /\ ~Guess(given) /\ failures' = failures + 1 /\ UNCHANGED code
  /\ UNCHANGED <<sessions, paired>>

\* pair() with an expired code, or a wrong guess; the last one burns the code.
PairDenied(given) ==
  /\ code.number < MaxCodes
  /\ \/ Expired /\ Rotate
     \/ /\ ~Expired /\ ~Guess(given)
        /\ IF failures + 1 >= MaxFailures THEN Rotate
           ELSE failures' = failures + 1 /\ UNCHANGED code
  /\ UNCHANGED <<sessions, paired>>

\* valid(): prunes, and finds the cookie among what is left.
Valid(id) == id \in {s.id : s \in Prune(sessions)}

\* guard_request of a request without a bearer token looks the cookie up.
LookUp == sessions' = Prune(sessions) /\ UNCHANGED <<code, failures, paired>>

-----------------------------------------------------------------------------
AuthTypeOK ==
  /\ starter \in [Starters -> [pc : StarterPC, token : TokenValue \cup {None}]]
  /\ tokenFile \in TokenValue \cup {None, "bad"} /\ temps \subseteq Starters
  /\ now \in 0..MaxTime
  /\ code \in [number : 1..MaxCodes, expires : 0..MaxTime + CodeTTL]
  /\ failures \in 0..MaxFailures - 1
  /\ sessions \subseteq Session
  /\ paired \subseteq [id : 1..MaxCodes, code : 1..MaxCodes, at : 0..MaxTime]

\* nuri_helper_auth.py: "the first link wins and every starter reads the
\* winner": whoever loaded a token loaded the one in the file, also when several
\* create it at once and some are killed on the way.
OneToken == \A s \in Starters : StarterAt(s, "loaded") => starter[s].token = tokenFile

\* A code buys one session, also for two requests at once, and takes fewer wrong
\* guesses than PAIR_MAX_FAILURES; a session lives no longer than the lifetime it
\* got when it was paired, which no request extends; and there are never more
\* than the cap.
PairedOnce ==
  /\ failures < MaxFailures
  /\ \A p, q \in paired : p.code = q.code => p = q
  /\ \A s \in sessions : \E p \in paired : p.id = s.id /\ s.expires = p.at + SessionTTL
  /\ Cardinality(sessions) <= MaxSessions
=============================================================================
