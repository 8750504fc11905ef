----------------------- MODULE RefreshTokenLifecycle -----------------------
(***************************************************************************)
(* What the refresh tokens of the service promise, with the database, the  *)
(* requests and their interleavings left out.  A token is issued once,     *)
(* either by a login or as the successor of another token; it is live      *)
(* until it is spent or reaches its expiry; neither is ever undone; and a  *)
(* successor appears only once its parent is no longer live.               *)
(*                                                                         *)
(* TokenService implements this specification (Lifecycle there).           *)
(***************************************************************************)
EXTENDS Integers

CONSTANTS
  Grants,      \* refresh tokens, issued or not
  NoGrant,     \* the parent of a token issued by a login
  Lifetime     \* how long a token lives unless it is spent first

VARIABLES
  clock,       \* the time
  status,      \* status[g]: where g is in its life
  parent,      \* parent[g]: the token whose redemption issued g
  expiry       \* expiry[g]: when g stops living

vars == <<clock, status, parent, expiry>>

Statuses == {"unissued", "live", "spent", "lapsed"}

Init ==
  /\ clock = 0
  /\ status = [g \in Grants |-> "unissued"]
  /\ parent = [g \in Grants |-> NoGrant]
  /\ expiry = [g \in Grants |-> -1]

-----------------------------------------------------------------------------

Issue(g, p) ==
  /\ status[g] = "unissued"
  /\ status' = [status EXCEPT ![g] = "live"]
  /\ parent' = [parent EXCEPT ![g] = p]
  /\ expiry' = [expiry EXCEPT ![g] = clock + Lifetime]
  /\ UNCHANGED clock

IssueAtLogin(g) == Issue(g, NoGrant)

\* A successor needs a parent that can no longer be redeemed.
IssueSuccessor(g, p) ==
  /\ status[p] \in {"spent", "lapsed"}
  /\ Issue(g, p)

Spend(g) ==
  /\ status[g] = "live"
  /\ status' = [status EXCEPT ![g] = "spent"]
  /\ UNCHANGED <<clock, parent, expiry>>

\* Spent tokens may be forgotten; live ones may not.
Purge(S) ==
  /\ \A g \in S : status[g] = "spent"
  /\ status' = [g \in Grants |-> IF g \in S THEN "lapsed" ELSE status[g]]
  /\ UNCHANGED <<clock, parent, expiry>>

\* Time passes, and exactly the tokens that reach their expiry lapse.
Tick ==
  /\ clock' = clock + 1
  /\ status' = [g \in Grants |->
                  IF status[g] # "unissued" /\ expiry[g] <= clock'
                    THEN "lapsed" ELSE status[g]]
  /\ UNCHANGED <<parent, expiry>>

Next ==
  \/ \E g \in Grants : IssueAtLogin(g) \/ Spend(g)
  \/ \E g, p \in Grants : IssueSuccessor(g, p)
  \/ \E S \in SUBSET Grants : Purge(S)
  \/ Tick

Spec == Init /\ [][Next]_vars

=============================================================================
