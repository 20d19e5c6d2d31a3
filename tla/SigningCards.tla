---------------------------- MODULE SigningCards ----------------------------
(***************************************************************************)
(* What the users of MuSig2 cards count on, whoever sends the commands: a  *)
(* card that has a PIN makes keys and draws and spends nonce pairs only    *)
(* for a login, which a right guess alone gives and every loss ends with   *)
(* the pair; a wrong guess costs a try; no pair is ever drawn twice.       *)
(*                                                                         *)
(* Nonce pairs are named in the order they are drawn, on whichever card.   *)
(***************************************************************************)
EXTENDS Naturals

CONSTANTS
  Cards,   \* the cards
  Tries    \* the try limit of their PINs

VARIABLES
  cards,   \* what each card has
  drawn    \* the latest nonce pair, or other scalar, drawn

vars == <<cards, drawn>>

\* nonce is the pair that waits for its FINALIZE, 0 without one.
Fresh == [key : BOOLEAN, pin : BOOLEAN, required : BOOLEAN, tries : {Tries},
          verified : {FALSE}, nonce : {0}]

Init ==
  /\ cards \in [Cards -> Fresh]
  /\ \A c \in Cards : cards[c].key /\ cards[c].required => cards[c].pin
  /\ drawn = 0

\* Every loss of the session ends the login and the pair together.
Burn(a) == [a EXCEPT !.verified = FALSE, !.nonce = 0]
Becomes(c, a) ==
  \/ cards' = [cards EXCEPT ![c] = a]
  \/ cards' = [cards EXCEPT ![c] = Burn(a)]

Authorised(a) == a.required \/ a.pin => a.pin /\ a.verified

\* Resets, selections and errors, on any of the cards; what a command had drawn
\* before it failed is not used again.
Lose ==
  /\ \E S \in SUBSET Cards :
       cards' = [c \in Cards |-> IF c \in S THEN Burn(cards[c]) ELSE cards[c]]
  /\ drawn' \in Nat /\ drawn' >= drawn

GuessRight(c) ==
  /\ cards[c].pin /\ cards[c].tries > 0
  /\ Becomes(c, [cards[c] EXCEPT !.tries = Tries, !.verified = TRUE])
  /\ UNCHANGED drawn

GuessWrong(c) ==
  /\ cards[c].pin /\ cards[c].tries > 0
  /\ cards' = [cards EXCEPT ![c] = Burn([cards[c] EXCEPT !.tries = @ - 1])]
  /\ UNCHANGED drawn

\* A PIN is set once, before there is a key, and is no login.
SetPin(c) ==
  /\ ~cards[c].pin /\ ~cards[c].key
  /\ cards' = [cards EXCEPT ![c] = Burn([cards[c] EXCEPT !.pin = TRUE, !.tries = Tries])]
  /\ UNCHANGED drawn

\* A key is made once.
Keygen(c) ==
  /\ Authorised(cards[c]) /\ ~cards[c].key
  /\ Becomes(c, [cards[c] EXCEPT !.key = TRUE, !.nonce = 0])
  /\ drawn' \in Nat /\ drawn' >= drawn

Draw(c) ==
  /\ Authorised(cards[c]) /\ cards[c].key
  /\ drawn' \in Nat /\ drawn' > drawn
  /\ cards' = [cards EXCEPT ![c] = [cards[c] EXCEPT !.nonce = drawn']]

\* The pair signs, and is gone.
Finalize(c) ==
  /\ Authorised(cards[c]) /\ cards[c].nonce # 0
  /\ Becomes(c, [cards[c] EXCEPT !.nonce = 0])
  /\ UNCHANGED drawn

Next ==
  \/ Lose
  \/ \E c \in Cards : \/ GuessRight(c) \/ GuessWrong(c) \/ SetPin(c)
                      \/ Keygen(c) \/ Draw(c) \/ Finalize(c)

Spec == Init /\ [][Next]_vars
=============================================================================
