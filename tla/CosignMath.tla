----------------------------- MODULE CosignMath -----------------------------
(***************************************************************************)
(* The two-signer MuSig2 session as the host scripts compute it            *)
(* (card-cosign-tweaked.py, real-card-arkade-signer-proof.py,              *)
(* card-arkade-claim-signer.py, real-card-cosign-proof.py), over the group *)
(* of integers modulo a small odd prime: a point is its discrete           *)
(* logarithm, 0 is infinity, 1 is G, and of a point and its negative       *)
(* exactly one has an even y.  Hashes are arbitrary scalars.               *)
(***************************************************************************)
EXTENDS Integers

CONSTANTS
  Order,   \* order of the group, an odd prime
  Hashes   \* the scalars that hashes come out as

Scalars == 0..Order - 1
ASSUME CosignAssumption ==
  Order \in Nat /\ Order > 2 /\ Order % 2 = 1 /\ Hashes \subseteq Scalars

G == 1
infinity == 0
padd(p, q) == (p + q) % Order
pmul(k, p) == (k * p) % Order
pneg(p) == (-p) % Order
even_y(p) == p \in 1..(Order - 1) \div 2
lift_x(p) == IF even_y(p) THEN p ELSE pneg(p)
norm_even(sk) == lift_x(sk)
ParitySign(p) == IF even_y(p) THEN 1 ELSE Order - 1

-----------------------------------------------------------------------------
(* Keys.                                                                   *)

\* keyagg: of two sorted keys the second has coefficient 1.
Coefficients == {<<h, 1>> : h \in Hashes} \cup {<<1, h>> : h \in Hashes}
keyagg(card, client, a) == padd(pmul(a[1], card), pmul(a[2], client))

\* Mutant: the parity of the untweaked key is folded into nothing.
session_keys_NoAcc(internal, tweaked, t) ==
  LET gAcc == IF tweaked THEN ParitySign(internal) ELSE 1
      q == IF tweaked THEN padd(pmul(gAcc, internal), pmul(t, G)) ELSE internal
  IN  [q |-> q, fold |-> ParitySign(q), term |-> IF tweaked THEN pmul(ParitySign(q), t) ELSE 0]

\* session_keys: q is the key that signs, fold what both secrets are multiplied
\* with, term what the tweak adds to the sum of the partials per challenge.
session_keys(internal, tweaked, t) ==
  LET gAcc == IF tweaked THEN ParitySign(internal) ELSE 1
      q == IF tweaked THEN padd(pmul(gAcc, internal), pmul(t, G)) ELSE internal
      g == ParitySign(q)
  IN  [q |-> q, fold |-> pmul(g, gAcc), term |-> IF tweaked THEN pmul(g, t) ELSE 0]

\* real-card-cosign-proof.py knows no fold: its card key and its aggregate are
\* even, the latter because it draws client secrets until they are.
proof_keys(internal) == [q |-> internal, fold |-> 1, term |-> 0]
ProofKeysOk(card, internal) == even_y(card) /\ even_y(internal)

-----------------------------------------------------------------------------
(* Nonces, partials and the signature.                                     *)

NonceAt(k, b) == padd(k[1], pmul(b, k[2]))
AggregateNonce(card, client, b) ==
  LET r == padd(NonceAt(card, b), NonceAt(client, b))
  IN  IF r = infinity THEN G ELSE r

Partial(k, b, r, e, coeff, secret) ==
  padd(pmul(ParitySign(r), NonceAt(k, b)), pmul(e, pmul(coeff, secret)))

partial_verify(s, k, b, r, e, coeff, point) ==
  pmul(s, G) = padd(pmul(ParitySign(r), NonceAt(k, b)), pmul(pmul(e, coeff), point))

bip340_verify(rx, s, e, q) ==
  LET r == padd(pmul(s, G), pneg(pmul(e, lift_x(q))))
  IN  r # infinity /\ even_y(r) /\ r = rx

\* One round of a script.  m has the secrets card and client and their nonces,
\* drawn even except for the card's, the coefficients a, the hashes b, e and t; a
\* script raises where a sum is infinite.
Session(m, keys) ==
  LET r == AggregateNonce(m.kCard, m.kClient, m.b)
      coeff(i) == pmul(m.a[i], keys.fold)
  IN  [r |-> r, keys |-> keys, coeffs |-> <<coeff(1), coeff(2)>>,
       card |-> Partial(m.kCard, m.b, r, m.e, coeff(1), m.card),
       client |-> Partial(m.kClient, m.b, r, m.e, coeff(2), m.client)]
Raises(m, keys) ==
  infinity \in {keyagg(m.card, m.client, m.a), keys.q, padd(m.kCard[1], m.kClient[1]),
                padd(m.kCard[2], m.kClient[2])}
Signature(m, s) == padd(padd(s.card, s.client), pmul(m.e, s.keys.term))
FinalOk(m, s) == bip340_verify(lift_x(s.r), Signature(m, s), m.e, s.keys.q)
PartialsOk(m, s) ==
  /\ partial_verify(s.card, m.kCard, m.b, s.r, m.e, s.coeffs[1], m.card)
  /\ partial_verify(s.client, m.kClient, m.b, s.r, m.e, s.coeffs[2], m.client)
Status(ok) == IF ok THEN "ok" ELSE "failed"

\* card-cosign-tweaked.py: always tweaked; only the signature is verified.
cosign_tweaked(m) ==
  LET keys == session_keys(keyagg(m.card, m.client, m.a), TRUE, m.t)
  IN  IF Raises(m, keys) THEN "raised" ELSE Status(FinalOk(m, Session(m, keys)))

\* card-arkade-claim-signer.py: untweaked, with a server that signs the same way.
musig2_round(m) ==
  LET keys == session_keys(keyagg(m.card, m.client, m.a), FALSE, 0)
      s == Session(m, keys)
  IN  IF Raises(m, keys) THEN "raised" ELSE Status(FinalOk(m, s) /\ PartialsOk(m, s))

\* real-card-arkade-signer-proof.py: the untweaked and the tweaked case.
run_case(m, tweaked) ==
  LET keys == session_keys(keyagg(m.card, m.client, m.a), tweaked, m.t)
      s == Session(m, keys)
  IN  IF Raises(m, keys) THEN "raised" ELSE Status(FinalOk(m, s) /\ PartialsOk(m, s))

\* real-card-cosign-proof.py: no fold, only even keys.
cosign_proof(m) ==
  LET internal == keyagg(m.card, m.client, m.a)
      s == Session(m, proof_keys(internal))
  IN  IF Raises(m, proof_keys(internal)) \/ ~ProofKeysOk(m.card, internal) THEN "raised"
      ELSE Status(FinalOk(m, s) /\ PartialsOk(m, s))

\* The one case in which an honest round fails: the sum of the nonces is
\* infinite, and G stands for it.
InfiniteNonce(kCard, kClient, b) ==
  padd(NonceAt(kCard, b), NonceAt(kClient, b)) = infinity
=============================================================================
