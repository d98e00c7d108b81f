------------------------------- MODULE Grants -------------------------------
(***************************************************************************)
(* Connecting an assistant: the consent page, the grant its answer opens,   *)
(* and the code and refresh tokens that are spent under it                  *)
(* (infrastructure/auth/oauth-store.ts, server/mcp/provider.ts,             *)
(* server/mcp/mount.ts).                                                    *)
(*                                                                          *)
(* No request holds a transaction: each statement is a step, and a request  *)
(* may end after any of them.  The credentials of a grant are numbered, 0   *)
(* the code and n the refresh token of the nth pair; a grant is named by    *)
(* the page whose answer opened it.                                         *)
(***************************************************************************)
EXTENDS Naturals

CONSTANTS Pages,
          Requests,     \* each presents one credential
          MaxIssued     \* bound on the pairs issued under a grant

ASSUME GrantsAssumption == MaxIssued \in Nat

VARIABLES page,         \* of each page: not drawn, shown, answered and being opened, gone
          opened,       \* the grants there are
          spent,        \* code_used_at, revoked_at of a refresh token
          expired,
          issued,       \* how many pairs
          revoked,
          request

grantVars == <<page, opened, spent, expired, issued, revoked, request>>

Stages == {"idle", "exchanging", "noticing", "replay", "issuing", "answered", "refused"}
Idle == [stage |-> "idle"]
InFlight == {"exchanging", "noticing", "replay", "issuing"}
Credentials(g) == IF g \in opened THEN 0 .. issued[g] ELSE {}
\* A request presents credential `n` of `grant`, of its own client or another;
\* it has tried to spend it, and been honoured.
Presenting(g, n, own, stage) ==
  [stage |-> stage, grant |-> g, n |-> n, own |-> own, tried |-> FALSE, honoured |-> FALSE]

MutLive(g, n, own) == own /\ n \notin expired[g] /\ g \notin revoked
\* What every statement that spends a credential asks of its row.
Live(g, n, own) == own /\ n \notin spent[g] \cup expired[g] /\ g \notin revoked

-----------------------------------------------------------------------------
GrantsInit ==
  /\ page = [g \in Pages |-> "none"]
  /\ opened = {}
  /\ spent = [g \in Pages |-> {}]
  /\ expired = [g \in Pages |-> {}]
  /\ issued = [g \in Pages |-> 0]
  /\ revoked = {}
  /\ request = [r \in Requests |-> Idle]

\* authorize, takeConsent (by the session it was shown to and allowed, or by
\* another, too late, or refused: the page is gone either way) and approve
Draw(g) ==
  /\ page[g] = "none"
  /\ page' = [page EXCEPT ![g] = "shown"]
  /\ UNCHANGED <<opened, spent, expired, issued, revoked, request>>
TakeConsent(g) ==
  /\ page[g] = "shown"
  /\ \E outcome \in {"opening", "gone"} : page' = [page EXCEPT ![g] = outcome]
  /\ UNCHANGED <<opened, spent, expired, issued, revoked, request>>
OpenGrant(g) ==
  /\ page[g] = "opening"
  /\ page' = [page EXCEPT ![g] = "gone"]
  /\ \/ opened' = opened \cup {g}
     \/ UNCHANGED opened              \* the answer ended between the two statements
  /\ UNCHANGED <<spent, expired, issued, revoked, request>>

\* challengeFor: a code that cannot be exchanged is spent all the same.
PresentCode(r, g, own) ==
  /\ request[r] = Idle
  /\ g \in opened
  /\ request' = [request EXCEPT ![r] =
       Presenting(g, 0, own, IF Live(g, 0, own) THEN "exchanging" ELSE "noticing")]
  /\ UNCHANGED <<page, opened, spent, expired, issued, revoked>>
PresentRefresh(r, g, n, own) ==
  /\ request[r] = Idle
  /\ n \in Credentials(g) \ {0}
  /\ request' = [request EXCEPT ![r] = Presenting(g, n, own, "exchanging")]
  /\ UNCHANGED <<page, opened, spent, expired, issued, revoked>>
\* The library checks the verifier against the challenge.
WrongVerifier(r) ==
  /\ request[r].stage = "exchanging"
  /\ request[r].n = 0
  /\ request' = [request EXCEPT ![r].stage = "refused"]
  /\ UNCHANGED <<page, opened, spent, expired, issued, revoked>>

MutHonour(r, g, n) ==
  /\ request' = [request EXCEPT ![r].stage = "issuing", ![r].tried = TRUE, ![r].honoured = TRUE]
  /\ spent' = [spent EXCEPT ![g] = IF n = 0 THEN @ ELSE @ \cup {n}]
\* spendCode and spendRefresh, their first statement: the tokens follow unless
\* the redirect or the resource is not the grant's.
Honour(r, g, n) ==
  /\ \E next \in IF request[r].stage = "exchanging" THEN {"issuing", "refused"} ELSE {"refused"} :
       request' = [request EXCEPT ![r].stage = next, ![r].tried = TRUE, ![r].honoured = TRUE]
  /\ spent' = [spent EXCEPT ![g] = @ \cup {n}]
Spend(r) ==
  /\ request[r].stage \in {"exchanging", "noticing"}
  /\ LET g == request[r].grant
         n == request[r].n
     IN \/ Live(g, n, request[r].own) /\ Honour(r, g, n)
        \/ /\ ~Live(g, n, request[r].own)
           /\ request' = [request EXCEPT ![r].stage = "replay", ![r].tried = TRUE]
           /\ UNCHANGED spent
  /\ UNCHANGED <<page, opened, expired, issued, revoked>>

MutReplay(r) ==
  LET g == request[r].grant IN
  /\ request[r].stage = "replay"
  /\ revoked' = IF request[r].n \in spent[g] \ expired[g] THEN revoked \cup {g} ELSE revoked
  /\ request' = [request EXCEPT ![r].stage = "refused"]
  /\ UNCHANGED <<page, opened, spent, expired, issued>>
\* Their second statement: a credential spent before ends its grant, whoever
\* presents it.
Replay(r) ==
  LET g == request[r].grant IN
  /\ request[r].stage = "replay"
  /\ revoked' = IF request[r].n \in spent[g] THEN revoked \cup {g} ELSE revoked
  /\ request' = [request EXCEPT ![r].stage = "refused"]
  /\ UNCHANGED <<page, opened, spent, expired, issued>>

\* issueTokens
Issue(r) ==
  LET g == request[r].grant IN
  /\ request[r].stage = "issuing"
  /\ issued[g] < MaxIssued
  /\ issued' = [issued EXCEPT ![g] = @ + 1]
  /\ request' = [request EXCEPT ![r].stage = "answered"]
  /\ UNCHANGED <<page, opened, spent, expired, revoked>>

\* The request ends between two statements: one of them throws, or the process
\* stops.  What it has tried is not remembered.
Ends(r) ==
  /\ request[r].stage \in InFlight
  /\ request' = [request EXCEPT ![r].stage = "refused", ![r].tried = FALSE]
  /\ UNCHANGED <<page, opened, spent, expired, issued, revoked>>

Expire(g, n) ==
  /\ n \in Credentials(g) \ expired[g]
  /\ expired' = [expired EXCEPT ![g] = @ \cup {n}]
  /\ UNCHANGED <<page, opened, spent, issued, revoked, request>>

\* revokeByToken, revokeGrantsOf: the client gives a token back, or the person
\* disconnects it or is signed out.
Revoke(g) ==
  /\ g \in opened \ revoked
  /\ revoked' = revoked \cup {g}
  /\ UNCHANGED <<page, opened, spent, expired, issued, request>>

GrantsNext ==
  \/ \E g \in Pages : Draw(g) \/ TakeConsent(g) \/ OpenGrant(g) \/ Revoke(g)
  \/ \E g \in Pages, n \in 0 .. MaxIssued : Expire(g, n)
  \/ \E r \in Requests, g \in Pages, own \in BOOLEAN : PresentCode(r, g, own)
  \/ \E r \in Requests, g \in Pages, n \in 1 .. MaxIssued, own \in BOOLEAN :
       PresentRefresh(r, g, n, own)
  \/ \E r \in Requests : WrongVerifier(r) \/ Spend(r) \/ Replay(r) \/ Issue(r) \/ Ends(r)

GrantsSpec == GrantsInit /\ [][GrantsNext]_grantVars

-----------------------------------------------------------------------------
(* Properties *)

\* What is spent or has run out was handed out, and only a grant that was opened
\* is ended.
GrantsTypeOK ==
  /\ page \in [Pages -> {"none", "shown", "opening", "gone"}]
  /\ opened \in SUBSET Pages
  /\ revoked \in SUBSET opened
  /\ issued \in [Pages -> 0 .. MaxIssued]
  /\ spent \in [Pages -> SUBSET (0 .. MaxIssued)]
  /\ expired \in [Pages -> SUBSET (0 .. MaxIssued)]
  /\ \A g \in Pages : spent[g] \cup expired[g] \subseteq Credentials(g)
  /\ request \in [Requests -> {Idle} \cup
       [stage : Stages \ {"idle"}, grant : Pages, n : 0 .. MaxIssued, own : BOOLEAN,
        tried : BOOLEAN, honoured : BOOLEAN]]
  /\ \A r \in Requests : request[r] # Idle => request[r].n \in Credentials(request[r].grant)

Presented(r, g, n) == request[r] # Idle /\ request[r].grant = g /\ request[r].n = n
Honoured(r, g, n) == Presented(r, g, n) /\ request[r].honoured

\* A code or a refresh token presented any number of times, at once or not, is
\* honoured once ("Spend a code, once").
SpentOnce ==
  \A r, q \in Requests : \A g \in Pages : \A n \in 0 .. MaxIssued :
    Honoured(r, g, n) /\ Honoured(q, g, n) => r = q

\* A connection is one chain: under a grant only the newest credential can still
\* be spent, and none while the pair after it is being issued, which one request
\* does at most.
OneChain ==
  \A g \in opened :
    /\ 0 .. issued[g] - 1 \subseteq spent[g]
    /\ \A r \in Requests : request[r].stage = "issuing" /\ request[r].grant = g =>
         /\ request[r].n = issued[g]
         /\ issued[g] \in spent[g]

\* When two requests of the client have presented the same credential and got to
\* the end, and one was honoured, the grant has been ended, and with it every
\* token issued under it: whichever of them came first, and however the
\* statements of the two fell between each other.
PresentedTwiceEnds ==
  \A r, q \in Requests : \A g \in Pages : \A n \in 0 .. MaxIssued :
    (/\ r # q
     /\ Honoured(r, g, n)
     /\ Presented(q, g, n)
     /\ request[q].own
     /\ request[q].tried
     /\ request[q].stage = "refused") => g \in revoked
=============================================================================
