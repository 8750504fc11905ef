--------------------------- MODULE StateLifecycle ---------------------------
(***************************************************************************)
(* What the state parameter promises to a login with Google.  A state is   *)
(* issued once, and open until it lapses or is spent; neither is undone.   *)
(* A callback is vetted only while its state is open, and gets no further  *)
(* without spending it.  Several callbacks that were vetted while it was   *)
(* open may each spend it: verification and update are not one step.  But  *)
(* every code is redeemed once, so each consent leads to one login.        *)
(*                                                                         *)
(* OAuthLogin, with its rows, expiries, transaction, locks and connections *)
(* implements this specification (States there).                           *)
(***************************************************************************)

CONSTANTS
  Urls,       \* states that may be issued, one per authorization URL
  Callbacks,  \* callback requests
  Codes,      \* authorization codes
  None

VARIABLES
  standing,   \* of each state: unissued, open, lapsed or spent
  codeOf,     \* the state that each code answers
  redeemed,   \* codes that were exchanged
  code,       \* the code of each callback
  phase       \* of each callback: none, waiting, vetted, granted, in, refused

vars == <<standing, codeOf, redeemed, code, phase>>

Init ==
  /\ standing = [u \in Urls |-> "unissued"]
  /\ codeOf = [c \in Codes |-> None]
  /\ redeemed = {}
  /\ code = [r \in Callbacks |-> None]
  /\ phase = [r \in Callbacks |-> "none"]

StateOf(r) == codeOf[code[r]]

Move(r, from, to) ==
  /\ phase[r] \in from
  /\ phase' = [phase EXCEPT ![r] = to]

-----------------------------------------------------------------------------

Issue(u) ==
  /\ standing[u] = "unissued"
  /\ standing' = [standing EXCEPT ![u] = "open"]
  /\ UNCHANGED <<codeOf, redeemed, code, phase>>

\* Any number of open states lapse at once.
Lapse(S) ==
  /\ \A u \in S : standing[u] = "open"
  /\ standing' = [u \in Urls |-> IF u \in S THEN "lapsed" ELSE standing[u]]
  /\ UNCHANGED <<codeOf, redeemed, code, phase>>

\* Google only answers URLs whose state was issued.
Consent(u, c) ==
  /\ standing[u] # "unissued" /\ codeOf[c] = None
  /\ codeOf' = [codeOf EXCEPT ![c] = u]
  /\ UNCHANGED <<standing, redeemed, code, phase>>

Arrive(r, c) ==
  /\ codeOf[c] # None
  /\ Move(r, {"none"}, "waiting")
  /\ code' = [code EXCEPT ![r] = c]
  /\ UNCHANGED <<standing, codeOf, redeemed>>

Vet(r) ==
  /\ Move(r, {"waiting"}, "vetted")
  /\ standing[StateOf(r)] = "open"
  /\ UNCHANGED <<standing, codeOf, redeemed, code>>

\* The state is spent, and the callback granted or, unawares, refused.
Spend(r) ==
  /\ \E to \in {"granted", "refused"} : Move(r, {"vetted"}, to)
  /\ standing' = [standing EXCEPT ![StateOf(r)] = "spent"]
  /\ UNCHANGED <<codeOf, redeemed, code>>

Redeem(r) ==
  /\ code[r] \notin redeemed
  /\ Move(r, {"granted"}, "in")
  /\ redeemed' = redeemed \cup {code[r]}
  /\ UNCHANGED <<standing, codeOf, code>>

Refuse(r) ==
  /\ Move(r, {"waiting", "vetted", "granted"}, "refused")
  /\ UNCHANGED <<standing, codeOf, redeemed, code>>

Next ==
  \/ \E u \in Urls : Issue(u)
  \/ \E S \in SUBSET Urls : Lapse(S)
  \/ \E u \in Urls, c \in Codes : Consent(u, c)
  \/ \E r \in Callbacks, c \in Codes : Arrive(r, c)
  \/ \E r \in Callbacks : Vet(r) \/ Spend(r) \/ Redeem(r) \/ Refuse(r)

Spec == Init /\ [][Next]_vars

=============================================================================
