# Formal models of the Nuri card, its wallets and its tools

TLA+ modules for the parts of this repository whose state is worth a model:
the Java Card applets, the receipt machines of the Bitcoin send and boarding
tools, the management-key escrow, the browser wallet with its native host, the
dashboard server with the helper authorization and the Ethereum policy it uses,
the MuSig2 host driver with the bridges and cosigning scripts behind it, and the
disk vault with the FIDO2 profile that unlocks it. TLC checks every module on a
small instance; TLAPS proves the safety properties of all of them for every value of the
constants. `PROJECT.json` maps each definition to the lines it models and lists components,
runs, findings, hazards and theorems.

    cd tla
    tlc -config MCMuSig2Applet.cfg MCMuSig2Applet     # a run
    tlapm MuSig2Proofs.tla                            # the proofs about it

Contents: 1 inventory, 2 the modules and how they correspond to the code, 3 runs
and bounds, 4 fairness, 5 what is proved, 6 what the code does otherwise than a
document says, 7 what is only model-checked or not modelled, 8 plan.

## 1 Inventory

### Parts, and how they interact

A Nuri card carries several applets. Each is a single-threaded server of APDUs
with persistent memory (EEPROM), memory cleared by reset or deselection, and the
Java Card transaction mechanism. On the host, short-lived command-line tools and
a few servers open the card through PC/SC, usually one process per operation.
The tools share files: receipts, escrows, tokens. The browser wallet puts two
more processes between a web page and the card: the extension's service worker
and the native host it launches.

    web page --> service worker --native messaging--> nuri_card_host.py --PC/SC--> applet
                    (approvals)                         | stdin/stdout
                                                        v
                                                 ext-card-wallet.mjs (one spend)
    send/cli.mjs, send/board.mjs --JSON lines--> bridge.py --PC/SC--> MuSig2 applet
          | receipt file (exclusive create, write-ahead status)
          v
    Arkade operator, indexer, co-signing server
    card_lock.py --gp processes--> card manager;  escrow file on disk
    browser, CLI clients --HTTP, token or cookie--> card-dashboard-server.py --PC/SC--> applets
    card-secrets.py --flock--> vault file;  --PRF of a credential--> FIDO2 applet
                    --PIN session--> vault applet;  card-prf-backup.py --> profile file

### Components

For each: state; operations; what is hard; what makes it correct.

**MuSig2 applet** (`card/musig2/NuriMuSig2v019.java`). State: owner PIN with its
tries, policy flag, key object, keyed flag, cached public key, attestation
binding (persistent); session counter, one nonce pair, its token and flags
(transient). Operations: SET_PIN, VERIFY, KEYGEN (once), GET_NONCES, FINALIZE,
selection, deselection, reset. Hard: a tear anywhere; `Signature`/key objects that
do not roll back with a transaction; errors raised half-way; counter wrap.
Correct when: a nonce pair signs at most once, a partial belongs to the published
key and the token asked for, nothing outlives an error or a reset.

**Ethereum signer v2** (`card/eth2/NuriEthSignerV2.java`). PIN (5 tries), PUK (3),
one key, cached public key, binding. SET_PIN/PUK, VERIFY, CHANGE, UNBLOCK, KEYGEN,
GET_PUBLIC_KEY, SIGN. Hard: UNBLOCK and KEYGEN are several writes; a login may
refer to a replaced PIN. Correct when: a signature is the owner's, one identity
is ever visible, only the PUK gives tries back.

**Secrets vault** (`card/vault/NuriVault.java`). PIN, 16 slots in five parallel
arrays, binding key. SET_PIN, VERIFY, PUT, DELETE, REVEAL, HMAC, LIST (two
pages), KEYGEN. Hard: reuse of slots and names, tears, a listing in two commands.
Correct when: an HMAC secret never comes back out, listings lose nothing.

**Attestation of the applets** (`NuriAttestation.java`), **attestation issuer and
verifier** (`nuri_attest.py`). A binding over the key, committed with it; scratch
arrays; challenge and certificate checks. The binding is in the three applet
modules; the commands and the verifier are planned.

**OATH TOTP applet** (`card/totp`), **Ethereum signer v1** (`card/eth`, demo without
PIN), **scalar arithmetic** (`Scalar256.java`, `RsaMultiply.java`): one secret and a
PIN; one key; none. Hard in the latter two: byte-wise carries, the low-S
threshold.

**Send receipt** (`scripts/send/cli.mjs` `runSend`, `saveReceipt`). A receipt file
with a write-ahead status; local flags `submitted`, `verified`. Reserve, plan,
check, prompt, sign, re-check, submit, finalize, reconcile, complete, classify a
failure. Hard: invocations racing for one path, kills, lost answers, a live
state that changes while the owner is prompted. Correct when: one receipt stands
for at most one submission and never says less than the truth.

**Boarding receipt** (`scripts/send/board.mjs`). The same kind of receipt around
an operator-driven batch: register proof, intent, tree nonces, tree signatures,
forfeits, settlement. Hard: the operator picks the order of events; the card
has one nonce slot. Correct when: coins are signed away only for a signed tree.

**MuSig2 host driver** (`nuri_musig2_card.py`). State: an object with a connection,
the PIN status read when it connected, "PIN verified", one session token.
Operations: connect, ensure PIN, KEYGEN, public key, nonces, finalize, set PIN. Hard:
the card burns its session on every error and when the reader drops it, and another
process may select the applet; the object must not believe more than the card holds.
Correct when: what it remembers is what the card has, and no token is sent twice.

**Card bridges and cosigning scripts** (`send/bridge.py`, `arkade-card-e2e-bridge.py`,
`card-cosign-tweaked.py`, `card-arkade-claim-signer.py`,
`real-card-arkade-signer-proof.py`, `real-card-cosign-proof.py`). State: a driver and, in
the bridges, the request at hand and its attempt. Operations: one line protocol with one
reconnection, one or two signing rounds, the sum and the check of the partials. Hard: a
retry after a lost answer; the signs of points with odd y. Correct when: a retry never
repeats a FINALIZE, a wrong PIN costs a bounded number of tries, every honest round verifies.

**Applet discovery and the Ethereum policy** (`nuri_pcsc.py`, `nuri_eth_policy.py`,
`card-eth-test.py`). State: readers with their cards, the applet selected in each, the tool's
place. Operations: the ladder of protocols, `open_applet`, `confirm_eth2_absent`, the test of
the signer without a PIN. Hard: a reader that fails looks like one without the applet; cards
are exchanged between probe and use. Correct when: ETH1 is opened only where no ETH2 is.

**Helper authorization and pairing** (`nuri_helper_auth.py`). State: the token file, temporary
files, the pairing code with its failures and expiry, the sessions. Operations: load or
create the token, pair, validate, prune, evict. Hard: several helpers start at once
or are killed half-way; guesses, expiry and use race for one code. Correct when: one token
wins, one code buys one session, a session has its time and no more.

**Dashboard server** (`card-dashboard-server.py`). State: connections in use, a deadline per
connection, the card lock, one cached card connection. Operations: accept, read within the
deadline, authorize, dispatch (page, pair, select, status, Ethereum reads, sign, keygen). Hard:
threads that trickle, hang up or raise; a cached connection to a card that is gone; the
policy check and the command it protects are separate exchanges. Correct when: nothing leaks,
and no signature or key of ETH1 comes from a card with ETH2.

**Disk vault of card secrets** (`card-secrets.py`). State: the encrypted file, its lock, and
for the card backend a PIN session with the vault applet. Operations: init, list, put, remove,
run, HMAC, of either backend. Hard: overlapping commands, kills and loss of power
around the replacement; a lost answer to VERIFY. Correct when: no reported secret is
lost, and no session leaves the applet logged in.

**FIDO2 profile and PRF backup** (`card-prf-backup.py`). State: credentials on the cards, one
profile file. Operations: enroll, derive, selftest, assertion. Hard: the credential stays on the
card whatever becomes of its profile; the profile is written in place. Correct when: a whole
profile names a real credential, and an enrolment that fails before it has its credential
leaves the old one.

**Send prompts and serial signing** (`send/core.mjs`): a queue of signatures in front of the
bridge process. **Cosign server** (`local-card-cosign-server.mjs`, `web/`): HTTP handlers over one
card and files. **Arkade identity and claim** (`card-arkade-identity.mjs` and others): a session of
several cosignatures. **JavaScript MuSig2** (`src/musig2`): reference mathematics.

**Management-key escrow** (`scripts/card_lock.py`). State: escrow directory and
files, deny list, the card's management key. lock, unlock: identify, authenticate,
draw a key, publish the escrow durably, recheck, PUT KEY, verify. Hard: each `gp`
call is a process that meets whatever card is inserted; concurrent
invocations; power loss between `mkdir`, `link` and their `fsync`s. Correct when:
no card is ever locked with a key that is only on the card.

**Browser wallet** (`extension/background.js`, `host/nuri_card_host.py`,
`host/bitcoin_commands.py`, `scripts/ext-card-wallet.mjs`). State: native
connection, cached identity, approvals; per host its identity, jobs and their
busy flags; one child per spend. Hard: messages in flight across disconnects, a
host that blocks in one frame while others queue, timers, card swaps. Correct
when: a PIN reaches the card the popup showed, one acceptance signs once, no
child signs unattended, no job is left over.

**Extension pages and libraries**, **WebAuthn through the host**: display and relays; one CTAP
exchange per request. **Helper authorization in JavaScript** (`helper-auth.mjs`): the twin of
the Python one on the same token file. **Card setup, FIDO2 PIN tools, SSH and PKCS#11 providers,
agent tool server, mobile NFC wallet, home cosigner, command line, build, release and proof
scripts**: see the notes in `PROJECT.json`. **FIDO2 applet**, **ant-javacard**: vendored, outside.

## 2 The modules

| module | models | state |
|---|---|---|
| `OneTimeSigner` | abstract: a key for life, fresh one-time nonce pairs | |
| `SigningCards` | abstract: what the users of cards with a PIN count on | |
| `MuSig2Applet` | the MuSig2 applet; implements `OneTimeSigner` and, as the only card, `SigningCards` | 15 variables |
| `WriteAheadOnce` | abstract: what a receipt promises | |
| `SendReceipt` | `runSend` by several invocations; implements `WriteAheadOnce` | 7 |
| `BoardReceipt` | `runBoard` against an operator | 12 |
| `VaultStore` | abstract: a map of named secrets of two classes | |
| `NuriVault` | the vault applet; implements `VaultStore` | 16 |
| `RetryCounter` | abstract: a secret behind tries | |
| `NuriEthSignerV2` | the Ethereum applet; implements two `RetryCounter`s | 15 |
| `CardLock` | `card_lock.py`, several invocations, cards and escrow names | 9 |
| `WalletHost` | service worker, native hosts, spend children, reader | 20 |
| `EthPolicy` | readers, `open_applet`, the absence check, the ETH1 test tool | 5 |
| `HelperAuth` | the token file and its starters, pairing and sessions | 8 |
| `CardDashboard` | the dashboard server; extends `EthPolicy` and `HelperAuth` | 5 more |
| `CosignMath` | the algebra of a two-signer round, over a small group | operators |
| `CardBridge` | driver, bridges and scripts on shared cards; extends `CosignMath`; implements `SigningCards` | 6 |
| `PrfProfile` | credentials, profile file, PRF derivations | 10 |
| `CardSecrets` | disk vault and card backend; extends `PrfProfile` | 7 more |
| `MuSig2Proofs` | theorems about `MuSig2Applet`, `CosignMath` and `CardBridge` | |
| `VaultProofs` | theorems about `NuriVault`, `PrfProfile` and `CardSecrets` | |
| `...Proofs` | theorems about the module of that name: `SendReceipt`, `BoardReceipt`, `NuriEthSignerV2`, `CardLock`, `WalletHost`, `CardDashboard` with what it extends | |
| `MC...` | instances for TLC | |

### Conventions

Variables and actions have the names of the code. An action is one handler, or,
where something else can happen in between (an `await`, a child process, another
tool, a card swap), the part of it up to that point. *History* variables are read
by no guard. Random scalars, keys, PINs and secrets are numbered in the
order they come into being, 0 being the wiped value: "the same key twice" is
then a difference a property can see. Cryptography is perfect: what is computed
from a key names that key. Definitions with a mutated name (`LinkToken_Replace`
before `LinkToken`) are plausible bugs of the definition they precede, used to show
that a property would notice; no `Next` refers to one.

### Java Card applets

One action per APDU handler. The card runs one command at a time, so what varies
is *how a handler ends*: normally; with an exception, raised by a check or by the
platform; or torn by power loss. A handler with writes outside a transaction has
a disjunct for each state it may leave, and what `beginTransaction` covers is kept
or lost as a whole. `Select`, `Deselect`, `PowerOff` and `PowerOn` clear what
CLEAR_ON_RESET, CLEAR_ON_DESELECT and `OwnerPIN` clear. `Reject` stands for every
command that fails before it changes anything but what the catch block clears.

*MuSig2Applet.* Every exception burns nonces, session and login (catch block of
`process`). KEYGEN's key object is written before the transaction that publishes
it, so `KeygenAborted` leaves a key nobody saw. The session counter is kept modulo
`CounterMod` and `GetNoncesExhausted` is its wrap; after the error the counter
is zero and counts again, which takes 2^32 commands in one selection and harms
nothing since the pair is drawn afresh. The check of FLAG_FINALIZED after
GET_NONCES is unreachable: finalizing clears the readiness flag too.
`partials` records every signature with the pair, key and tokens it was made with.

*NuriVault.* HMAC changes no state and is not an action; what matters of it, that
its key is not revealed, is a property of REVEAL. A listing is two LIST commands
of a host, with anything in between.

*NuriEthSignerV2.* PINs are named by how many were installed before. The PUK's own
validated flag is not a variable: UNBLOCK checks and consumes it in one command.
`OwnerPIN.update` resets `validated`; an aborted transaction may keep the login or
lose it, and the model allows both. CHANGE is two actions: it commits the new PIN, and then
checks it so that the session is logged in (`confirming`); a power loss inside that check
costs the new PIN a try, and one before it costs nothing. A card personalized with a PIN at the factory
never gets a PUK, which the initial states include.

### Receipts

*SendReceipt.* `pc[r]` is the next `await` of invocation r. The steps are those of
`runSend`: the first snapshot and the reservation by exclusive create, the plan,
the bridge, presence and PIN, a second snapshot, intent and signatures, the third
snapshot inside `submitTx`, the status `submission_pending`, the call, finalization,
reconciliation, completion, and the catch block with its classification and its
own write, which may fail. A snapshot is four awaits (`cli.mjs:170`, `171`, `174`, `180`):
recipient, operator, server, coins. The environment may change any of the four between
any two, so what a snapshot shows need never have been true at one moment. All that is
kept of a value is whether it equals the one of the invocation's first snapshot
(`stale[r]` is the set of parts that do not). Hence `FreshAtSubmit` is about each part by
itself: at some moment after the signatures it was what the owner confirmed. `Kill` is the end
of a process. Loss of power is not modelled: `saveReceipt` syncs the file and
its directory, but not the parent of a directory it just created. A submission whose answer is lost leaves
`operator[r]` changed and the caller in its catch block. `Settle` lets the
operator finish what it was asked at any time, also when the caller is dead.

*BoardReceipt.* The step of the batch (`step`) is the library's (`sdk.Batch.join`,
external): a handler runs only in its step. The operator offers trees of any
subset of `TreeTxs`, refuses, fails the batch, loses answers. A FINALIZE that fails may have
burned the nonce at the card (`TreeNonces`), and the card may lose it at any other time:
removed, reset, or used by another program (`CardForgets`).

### CardLock

`run[r]` is an invocation with the file name, card and key it works on. Each `gp`
call is one step and meets `slot`, the card inserted then. Publication is the
sequence of the code: `mkdir`, `fsync` of the parent by the invocation whose `mkdir`
succeeded, `link` (fails on an existing name), `fsync` of the directory, read back.
`durable` is what POSIX guarantees: a name survives a loss of power for certain
only after the `fsync` of its directory. `PowerLoss` ends every invocation and
takes any set of names that are not durable. It may also take a directory nobody has synced the
parent of, with all its files; `lost` records that, and `Recoverable` excepts it (section 6).
Checks of gp's version, the card's
template and the registry are assumed to pass (they only refuse).

### WalletHost

The service worker is one process with two queues to the current host; its
handlers are cut at their awaits (`cardInfo`/`onInfo`/`cacheInfo`, `bitcoinSpend`/
`onPreview`, `approve`/`onResult`). An approval is `open`, `shown` (the popup has said
so), `busy` (its PIN is on the way) or settled. A host is a process that takes its
frames one at a time: a signature is two steps, since a card may be pulled out of
an open session; a spend holds the host until its child answers. A host that
lost its connection reads what was sent and exits at its first answer or at end
of file; another may be launched meanwhile. `child` is the process of a spend
between preview and last line. Digest and plan of a spend are fixed at its
preview, so a request names both. PIN-protected cards: every acceptance carries a
PIN. Jobs the host reaps are those of settled requests (180 s against the 120 s of
a popup).

### CardDashboard, with EthPolicy and HelperAuth

*EthPolicy.* `reader[i]` is the card in reader i and a generation, so a connection is alive only
while the card it was made to stays. `Ladder` is the outcome of the protocols at one reader: a
fault makes every protocol fail to connect, or the probe raise under each. `OpenApplet` takes
the first reader that answers, or the worst error. `ConfirmEth2Absent` is one reader per step,
since cards may be exchanged between two. The tool is `card-eth-test.py`: policy, version,
KEYGEN (asked for, or as a probe of the one-shot guard), signature.

*HelperAuth.* A starter's steps are the system calls of `load_or_create_token`: read, temporary
file, `link`, `unlink`, read again; a kill may fall between any two. Pairing operations are
one step each: that they run under the lock of the `Pairing` object is an assumption of the
model, which does not show that the lock is taken. What the run explores of them is the
order of requests, the failure limit, expiry and the cap on sessions. Time is a clock that
ticks; codes, deadlines and sessions expire against it.

*CardDashboard.* `request[r]` is a thread: head, body, waiting for the card lock, at the card, reply.
What it sends to the card is its `Script`, and each command is a step of its own, so that an
exchange of cards or a fault can fall between the SELECT that establishes the policy and the
command it protects. `Connect` is `get_connection`; after a failed `transmit` the cached
connection is dropped and nothing is resent; only the status report survives an exception.
`sent` records the signatures and keys ETH1 made, with the card, and with the card whose
public key the request had read.

### CardBridge, with CosignMath

`process[p]` is one process with its driver object. `driver.conn` is the epoch of its connection:
`Drop` (a reader that drops the card, an exchange, a removal) ends all connections and what the
cards held of a session. The `card` side is the MuSig2 applet in outline: PIN, key, verified,
one nonce; `users` are the processes since the last SELECT. `Lost` is a failed exchange, before
or after the card has acted. `Raised` is what each kind of process makes of an exception; only
`send/bridge.py` reconnects. `Combine` adds the client's partial and checks the signature as
each script does. `CosignMath` has the scripts' formulas over integers modulo a small odd prime:
a point is its discrete logarithm, parity is one half of the group, a hash is any of `Hashes`.
That takes the elliptic curve away and keeps every sign, fold, coefficient and tweak.

*SigningCards* joins the two views of the applet. `MuSig2Applet` has one card in every detail and
no host; `CardBridge` has many cards in outline and the processes that use them. Both implement
the same contract: what `CardBridge` lets a card do is what the applet promises, and drops, retries,
lost answers and processes that take the card from one another add nothing to it.

### CardSecrets, with PrfProfile

*PrfProfile.* The profile file is `absent`, whole, `truncated` (opened with O_TRUNC, nothing written) or
`partial` (a part of a profile, or parts of two; once its writers are gone, perhaps nothing). Opening
it may fail and leave the old one; a write or close that fails leaves nothing, a part or all of the new one. Nothing
is synced: `saved` collects what a loss of power may leave of the file, which is anything written since
the last one. `opened` records that an enrolment which has its credential opened the file.
`ProfileScript` decides at its start, as the code does, whether a profile
exists. A credential is made before its profile is opened, and stays.

*CardSecrets.* A command is a list of steps; the disk backend's are the locked read, profile and PRF,
the replacement and the release; the card backend's are `card_session`: SELECT, status, VERIFY,
the command, read-back, and the logout of its `finally`. `vault` has the file and what of it is
on the disk: the content is synced before `os.replace`, the new name may come later. An entry
names the key that sealed it, so opening it with another derivation fails. A kill gives the
lock back and closes the connection without a logout.

## 3 Runs, and why their bounds are enough

| run | instance | states | what it shows |
|---|---|---|---|
| `musig2_applet` | 2 PIN tries, counter modulo 4, 4 draws | 11,171 | no nonce pair signs twice; partials are well founded; a session lives exactly as long as its nonces and authorisation; refinement of `OneTimeSigner` and of `SigningCards` |
| `send_receipt` | 2 invocations, 4 parts of the live state | 228,439 | durable status before submission; no part of the plan stale throughout since signing; refinement of `WriteAheadOnce`; every invocation not killed ends |
| `board_receipt` | 2 proof inputs, trees of up to 2 transactions | 230 | intents journaled; a tree nonce neither overwritten nor replaced; tree signed before forfeits |
| `board_honesty` | the same | violated | section 6 |
| `nuri_vault` | 2 slots on 2 pages, 2 names, 3 secrets, 2 keys, 2 tries | 515,043 | HMAC secrets stay in; complete listings; owner only; refinement of `VaultStore` |
| `nuri_eth_signer_v2` | 5 PIN and 3 PUK tries as on the card, 3 PINs, 2 keys | 19,905 | logins are current; signatures are the owner's; one identity; refinement of `RetryCounter`, twice |
| `card_lock` | 2 cards, 3 invocations, 2 names, 2 keys, 2 swaps, symmetry | 1,030,654 | recoverable keys; honest reports; deny list |
| `wallet_host` | 1 signature, 1 spend, 2 hosts, 2 reads, 2 cards, symmetry of cards | 651,453 | PIN to the shown card; one signature per acceptance; attended signing; jobs owned |
| `card_dashboard` | 2 readers, 3 cards, 1 exchange, 1 fault, 2 starters, 3 requests (2 served), symmetry of requests | 1,891,177 | one token; one session per code; ETH1 contained in server and tool; no slot or lock leaks |
| `card_bridge` | 2 processes of 7 kinds, 2 cards, 3 tries, 3 nonces, 1 drop, 1 fault, 3 requests to a bridge and 4 to two, group of 5, symmetry | 1,304,241 | the driver believes no more than the card holds; a token is sent once; wrong PINs are bounded; honest rounds verify; refinement of `SigningCards` |
| `card_secrets` | 2 processes of 13 jobs, 2 cards (1 with a FIDO2 PIN), 1 exchange, 1 fault, 2 names, 2 values, symmetry | 1,228,547 | no reported secret lost; the applet logged out; profiles true |
| `secrets_without_pin` | the same | violated | section 6 |

The type invariants and `KeyPublished`, `NoIncidentBetween`, `GuessBudget`, `ReceiptIsFinal`,
`ConfirmedStays`, `OnlyPukUnblocks` and `EscrowFinal` are definitions of the modules that theorems
establish; no run repeats them.

Bounds. *Draws, secrets, keys, PINs* (`MaxDraws`, `MaxSecrets`, `MaxKeys`, `MaxPins`):
enough for a key that failed, the one published, and at least two nonce pairs;
for a name or slot to be used again after a deletion; for a candidate key
that was torn before the one published; for a PIN replaced twice. *Tries* of 2
reach wrong-then-right, blocked and the last try. *Counter modulo 4* wraps within a
run. *Two pages of one slot* let an entry appear on either page while the listing is
between them. *Two invocations* suffice for every race for a receipt, since the
first to create it excludes all others; `CardLock` has three because the third may
meet what two interrupted ones left. *Two swaps* are the fewest that bring a card
back. *Two hosts* are a lost connection and its successor; *two reads* let the
toolbar read another card while an approval is open. Symmetry is over model values
no definition tells apart (and never in a run with a liveness property).

*CardDashboard.* The three cards carry ETH1 alone, MuSig2 and a guarded ETH1, and both Ethereum
signers: every pair of an allowed and a forbidden card can be exchanged for one another. One
exchange or fault at any step reaches each window; a third connection meets a full server;
`MaxSessions` 1 makes the second pairing evict. Two bounds are guards: requests run once every
starter has loaded the token of an earlier run (`Serving`; they share with the creation of the
token only which one was loaded), and either the server or the tool uses the readers
(`OneClient`).

*CardBridge.* Three nonces are what two rounds, or the RNG check and a round, need at least; three
tries make the bound of two visible. Order 5 has points of either parity besides infinity, and two
of each; `Hashes` of two values make coefficients, binding and challenge differ. The algebra is
explored in runs nothing disturbs (`Undisturbed`), since it depends on nothing else. Three requests
to one bridge are nonces, a FINALIZE and another with its token; two bridges get four together, so
that each can draw nonces and ask for a partial. The card that
is not inserted at first is an ordinary one; the inserted one takes all four forms.

*CardSecrets.* Two processes suffice for one lock, one file and one applet. `Init` has a fresh
system and one in use (`InUse`), with an enrolled credential and a secret in both backends, so
that short runs reach removal, unsealing and re-enrolment. Three of the sixteen jobs are left out, as
each differs from one that is in by less than the properties tell apart: `cardList` is `cardHmac` without
the check of its entry, `derive` is `assert` with the credential of the profile, `cardRun` is `cardHmac`
with the two classes exchanged. The theorems are about all sixteen.

`SendReceipt` allows the environment to change each part of the live state at will;
`BoardReceipt` restricts the operator only to the protocol of the batch.

`CHECK_DEADLOCK FALSE` is set where the tools end (`BoardReceipt`, `CardLock`,
`CardBridge`, `CardSecrets`) or the bounds end the requests and the clock (`CardDashboard`);
the card and the wallet never stop.

## 4 Fairness

*Send* (`FairSpec`): weak fairness of the steps of each invocation, not of kills, of
the operator or of the environment. The runtime continues a process after every
awaited call, and every call ends: the bridge, the HTTP client and the prompts carry
timeouts. `Settles` follows for an invocation that passed its reservation.

*WalletHost* (`FairSpec`; stated for `CancelStops` and `RetryHasJob` of section 6, used by no run): weak
fairness of the worker's message handler, of the approval timer and of each host's loop. The
owner, the card and the child owe nothing.

*BoardReceipt* has none: its progress depends on an event stream without a timeout,
so no liveness is claimed. The cards and `CardLock` wait for their user. Liveness of the new
modules is not claimed either: a thread of the dashboard waits for the card lock as long as
another one's exchange with the reader takes, and the bridges have no timeout of their own.

## 5 What is proved

For every value of the constants satisfying the named assumptions (sizes are
naturals, try limits positive, sentinel values outside the sets they stand
beside, two pages of slots, an odd group order greater than two, at least one credential
and one value):

*MuSig2Proofs, the applet.* `IInv`: the properties of the run together with two facts they
need. `PendingInv`: a pair that waits has been drawn, has not signed, belongs to the
current token, and its trust flags are intact. `LoginInv`: a login implies a set, unblocked
PIN in the selected applet. Without the first, `NonceUsedOnce` is not inductive: one
must know that the pair about to sign is in no partial. From it follow the invariants
of the run; that a wrong guess is always paid for (`GuessBudget`), that the key is for life
and a blocked PIN blocks for good; and that the applet implements `OneTimeSigner`. `Contract`: it
implements `SigningCards` too, where its users see key, PIN, policy, tries, login and the pair that
waits (`Seen`); each command ends in the view the contract gives it or in that view with its session
burned (`EndsAs`), and power loss or an error after the last write is the second.

*MuSig2Proofs, the algebra.* A congruence modulo the order (`SameBy`) with its sums, products and
negatives; `Lift`: a point and its even representative differ by the sign; `PartialVerifies`,
`SessionKeysFit`, `KeySum` and `SignatureSum` carry the signs of the parities, the folded tweak and
the coefficients through a round; `RoundVerifies` and `ScriptsVerify` conclude that the scripts'
signature is the one of the key they publish. This is for every odd order: the run has a group of
five. An odd order is needed so that no point but infinity is its own negative.

*MuSig2Proofs, the bridges.* `BridgeInv`. Of each process by itself (`Local`): what can be left of its
script (`Shape`: a FINALIZE only follows its GET_NONCES), that a bridge does what its request says
(`Requested`), that a script connects once (`Scripted`), what a wrong PIN has cost by each attempt
(`Spending`), and that the client holds the token the driver has (`Clean`). Between processes:
connections are of this epoch or an earlier one (`Epochs`); a token is in one place, held by one driver
or already sent (`TokensApart`), which is what makes `OnePartialPerNonce` inductive; a script past
its key read it from the inserted card (`KeyRead`); and `DriverView` itself. A step of one process is
shown to keep its own part (`Moves`, one lemma per action), the world's part (`WorldMoves`) and from
both the rest (`ProcessKeeps`). `HonestRounds` combines it with the algebra. `SharedContract`: any
number of processes, cards, drops, exchanges and faults implement `SigningCards`; it needs besides
`PinlessFull`, that no guess is counted before there is a PIN.

Looking for the invariant of `WrongPinBounded` showed that its first form, two tries per process, holds
only within the bounds of the run. A bridge that answered a request from a card without a PIN in
between may send its wrong PIN to another card in the next, so it is two tries per *request*.

*SendReceiptProofs.* Exclusive creation makes one invocation the owner of the file for
ever (`Owner`); only the owner passes the reservation; the owner's place, its flags and
the file move together (`Local`, `Status`); a part of the state found equal after the
signatures was so at some moment (`Fresh`), each of the four at one of its own. Hence one submission,
the write-ahead order, truthful confirmation, freshness of each part, permanence of final receipts and the
implementation of `WriteAheadOnce`.

*BoardReceiptProofs.* Place, last status and step of the batch bound one another: `Journal` (an
intent can be out only from a place after its announcement), `Rounds` (what each step of
the batch says of tree, signatures and the card's one nonce; that a tree of cardinality
one has no second transaction is a lemma), `Seen` (a confirmed status comes after the
confirmation, at the end). The three properties of the run, and that confirmed statuses stay, follow
for any tree. Of the nonce
(`NonceHeld`) two facts are proved: the slot never holds a later nonce than the one promised for a
transaction still to be signed (`SlotKept`), and once that one is lost nothing is signed any more.

*VaultProofs, the applet.* `Distinct` (no two entries share a name or a secret), `Classes` (an entry
has the class its secret was imported with), `Logged`, `Unspent`. `Classes` is what carries
"HMAC secrets stay in" through reuse of slots. `HalfListed` relates the first page to
the slots for the listing. With them the vault implements `VaultStore`.

*VaultProofs, the disk vault.* `SecretsInv`. `Located`: a process is at a step of its job's script with what
it has by then, where a script is any rest of a list whose neighbours are allowed (`Scripted`, one lemma
for a step off its front). `Holders`: who is past the locked read holds the lock, and its copy is
what the file still holds, so what was checked of the copy still holds when the file is replaced.
This is the heart of `VaultKept`, with `AbsentEmpty` (no file, no entries). `Writers`: who is about
to write a profile has opened the file, and writes one whose credential a card has made. `Durable`: the
same is true of everything a loss of power may leave of the file, and a part of a profile is
among it only once an enrolment with its credential opened it. Hence `ProfileTrue`. `LoggedOut` is
inductive with the types: every step of a session that logged in leaves it alive, unclean or out.
A step is shown to keep the file (`DiskKept`), the profile (`FidoKept`) and the cards (`CardKept`);
`Kept` concludes for all processes, the loss of power and the exchange of a card having lemmas of
their own.

*NuriEthSignerV2Proofs.* The invariants of the run and `LiveLogin` (a login means tries are
left, and a CHANGE whose new PIN is still to be checked has full tries); the two action
properties; PIN and PUK each implement `RetryCounter`.

*CardLockProofs.* `Filed`: what an invocation has on disk at each of its steps, in
particular that before the rotation its key is in a durable file. It survives the steps of
others because nobody replaces a file (`Grow`, `SafeKept`). `Aimed`: after the recheck,
no swap means the identified card is inserted, one swap means it is not. `Recoverable`,
the honesty of reports, the deny list and the permanence of escrows follow; `Recoverable` up to
`lost` (section 6).

*WalletHostProofs.* `Addressed`: a signing frame in any queue, and an open session, name the
card their popup shows, and a popup's card never changes once it is open (`Steady`);
`Open`: a live session is with the card in the reader. Together they make
`PinToShownCard` inductive, over queues of any length. `SigningAttended` is inductive
with the types alone: a host takes no frame while it waits for a child.
For `SignedAsShown` two invariants more. `SpendInv`: frames that ask for a spend's signature,
and children that sign, exist only for an accepted spend, and a child that broadcast or
answered "ok" was paid for by it. `SignInv` (`Flow(r)` for each request): a signature request
is in at most one place, which is one frame of one queue, the session of one host, or one
result on its way back; lemmas say how a flow is kept (`FlowKeeps`), begins (`FlowAsks`) and
ends (`FlowEnds`). For `JobOwned`, `JobInv`: `Job` relates a spend's status to the queue to the
host, the answers on their way, the host's jobs and what it is doing, stated over its arguments
so that one lemma per kind of step (`JobFresh`, `JobSends`, `JobMoves`, `JobHears`, `JobTakes`,
`JobAnswers`, `JobWorks`) serves every action; a host not yet started is fresh, and without a
connection no answers are under way.

*CardDashboardProofs.* Types first, with `Counted`: fewer sessions were handed out than codes
drawn, so their numbers fit. `Loaded`: whoever has a token has the one in the file, and that
file is a token, which nobody replaces. Eviction needs that a finite ordered set has least
elements and that ranks below the cap leave room (`Ranks`, `Least`, `Fewest`, then
`EvictLeavesRoom`); `PairInv` says with it that codes already used are below the current one.
The slot count is the cardinality of the requests served, and each step of a thread changes both
alike. The tool: `GenInv` bounds generations by the exchanges so far, `ToolInv` says that the
readers already probed hold no ETH2 as long as nothing was exchanged. The server: `ScriptInv` says
how far a request is in its script and what it has made sure of by then (`InScript`); only the
request under the lock is at the card (`Alone`), and an exchange ends the connection together with
what was made sure of over it (`SwapInScript`). From that, `Eth1Contained`, for any cards,
readers, number of requests and faults.

Out of the prover's reach: liveness under fairness and ENABLED; induction over data. No module
with theorems, and none it uses, declares a RECURSIVE operator.

## 6 Where code and documents differ

- `board_honesty` (`scripts/send/board.mjs:406-408`). The signed commitment is sent before
  `submitted` is set and `submission_pending` written, so when its answer is lost the
  receipt says `failed_before_submission` of a sweep the operator holds. `cli.mjs:220-221` has
  the write-ahead order, and the README of the tool promises it for both.
- `secrets_without_pin` (`scripts/card-secrets.py:298`). `docs/card-secrets.md:47` says the broker
  derives "with user verification required and PIN prompting available". `prf()` passes
  `user_verification=None` and `pin_prompt=False`: the derivation does what the profile says, which
  is discouraged unless enrolled otherwise. The table at `docs/card-secrets.md:215` repeats the promise.

Three more have a definition in their module, and no run of their own:

- `DurablyPublished` of `CardLock` (`scripts/card_lock.py:54`). Only the invocation whose `mkdir`
  succeeded fsyncs the parent directory. Another that finds the directory publishes into it and
  rotates; if the first has not come to its fsync, a loss of power may take the directory with the
  only copy of a key. `docs/card-lock.md` promises durable publication. `Recoverable` is stated up
  to this one event (`lost`).
- `CancelStops` of `WalletHost` (`host/bitcoin_commands.py:274`). While the host waits for a child (up
  to 240 s) it reads no other frame, so a cancellation takes effect after the child has signed and
  broadcast. Latent today: the child refuses each spend before its preview
  (`scripts/ext-card-wallet.mjs:384-389`).
- `RetryHasJob` of `WalletHost` (`host/bitcoin_commands.py:262`). A wrong PIN ends the host's job while
  the popup stays open for another PIN, which then meets an unknown job. The extension's test of
  retries runs against a fake host that keeps the job.

What the models show of the code besides, and no document denies:

- `send/bridge.py` repeats whatever raised, also a refused VERIFY, so a wrong PIN costs two tries of a
  request where every other process costs one; if the card is exchanged for one without a PIN, the
  next request may cost two more (`WrongPinBounded` says so).
- `enroll` without `--force` looks for the profile long before it writes: of two enrolments at once
  the later replaces the earlier silently, or leaves parts of both (`scripts/card-prf-backup.py:293`).
  `write_profile` opens with O_TRUNC, writes in place and syncs nothing: an enrolment whose write
  fails or that is killed there has destroyed the old profile, and so may a loss of power
  later (`scripts/card-prf-backup.py:249-251`). `enroll --force` replaces the credential,
  and entries of the disk vault sealed under the old one no longer open.
- The vault's directory is not fsynced after `os.replace`, so a put that was reported may be lost
  with the power; the old vault is then whole (`VaultKept` counts it as `gone`).
- A kill closes a card session without its logout: the vault applet stays logged in until something is
  selected or the card is reset (`unclean` in `LoggedOut`).

Two windows the documents name themselves are in the models, not findings: in `CardLock` two
swaps between recheck and confirmation defeat the verified report (`VerifiedIsTrue` says
exactly how many it takes); in `WalletHost` a Bitcoin child presents its PIN to the card it
finds, so `PinToShownCard` is about Ethereum requests.

## 7 Only model-checked, and not modelled

Only model-checked: `Settles`, which is liveness under fairness. Every other property of a passing run
is a theorem.

Left out inside the modelled parts: message formats, texts and wire encodings; curve and
scalar arithmetic; HTTP details. Send: loss of power. MuSig2, vault, ETH2: the commands of the attestation
object. Board: races for the receipt path (they are `SendReceipt`'s) and retention of the
event stream, whose `Batch.join` (`board.mjs:415`) has no timeout. CardLock: the owner deleting
escrows, retry limits of the card manager, encryption of the envelope. WalletHost: read-only RPC,
balances, chain switching, connected origins (`background.js:407` writes back what it read before
an approval; a hazard no property covers yet), WebAuthn frames, the simulator and demo modes,
Python grandchildren that outlive a killed child, waiting children orphaned by a dead host.
Dashboard: header and framing rules are a choice between accepted and refused, the recovery of an
address and the contents of the reports are left out. CardBridge: applets before 1.14, PRF
derivation in the bridge. CardSecrets: the proxy, sealing and file permissions. PrfProfile: CBOR
and the client library.

Not modelled at all: the components with that status in `PROJECT.json`, each with its
reason. Arithmetic on the card is the one with hazards of its own: carries and the conditional
subtraction of `Scalar256.java:81`, and the low-S threshold of `NuriEcdsaSigner.java:384`.

## 8 Plan

Written, in order of weight: the MuSig2 applet with its abstract signer and proofs; the
send receipt and its promise; boarding; vault; Ethereum v2; escrow; browser wallet with all its
safety proofs; dashboard, helper authorization and Ethereum policy with theirs; driver and
bridges, disk vault and profile, now with theirs; the contract between applet and bridges.

Next, in this order:

1. `CosignServer`: HTTP requests in flight together over one card, the serial signing queue of
   `send/core.mjs`, receive and claim records; composed with `CardBridge`.
2. `WalletHost` with connected origins and WebAuthn frames.
3. A contract for the vault PIN between `NuriVault` and `CardSecrets`, as `SigningCards` is for the
   MuSig2 applet (`RetryCounter` for each card), and its proof.
4. `Attestation` with the verifier's challenge, `OathTotp`.
5. Arithmetic as pure functions over a small word and modulus, checked against Integers:
   `Scalar256` add, negate, multiply and reduce; low-S of both Ethereum applets. The
   half-order of v1 (`NuriEcdsaSigner.java:384-389`) differs from that of v2
   (`NuriEthSignerV2.java:120-125`) in one byte.
6. The JavaScript twin of `HelperAuth` beside the Python one; the mobile send flow as an instance
   of the abstract send; PKCS#11 sessions.
