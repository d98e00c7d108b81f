---------------------------- MODULE PartsProofs -----------------------------
(***************************************************************************)
(* Proofs about the parts that stand alone, each for any value of its own  *)
(* constants: Grants, Uploads, DiscardWindow, Sweeps, SourcePace and       *)
(* ReadingChain.                                                           *)
(***************************************************************************)
EXTENDS Grants, Uploads, DiscardWindow, Sweeps, SourcePace, ReadingChain,
        SequenceTheorems, FiniteSetTheorems, TLAPS

-----------------------------------------------------------------------------
(***************************************************************************)
(* Grants, for any set of pages and of requests and any number of pairs    *)
(* issued under a grant.  GrantsInv ties every request to the rows it has  *)
(* found: what was honoured is spent, whoever issues does so for the       *)
(* newest credential, and who has come too late has seen why.              *)
(***************************************************************************)

-----------------------------------------------------------------------------
(* The inductive invariant *)

RequestRecord ==
  [stage : Stages \ {"idle"}, grant : Pages, n : 0 .. MaxIssued, own : BOOLEAN,
   tried : BOOLEAN, honoured : BOOLEAN]

\* Under a grant that was opened all credentials but the newest are spent; under
\* one that was not, none was issued.
Chained(g) ==
  /\ g \notin opened => issued[g] = 0
  /\ \A n \in 0 .. MaxIssued : n < issued[g] => n \in spent[g]

TriedInVain(q) == q.own /\ q.tried /\ ~q.honoured
\* What a request has found of the credential it presents.
Found(q) ==
  /\ q.stage \in {"exchanging", "noticing"} => ~q.tried
  /\ q.honoured => q.n \in spent[q.grant]
  /\ q.stage = "issuing" => q.honoured /\ q.n = issued[q.grant]
  /\ TriedInVain(q) /\ q.stage = "replay" =>
       q.n \in spent[q.grant] \cup expired[q.grant] \/ q.grant \in revoked
  /\ TriedInVain(q) /\ q.stage = "refused" =>
       q.n \in expired[q.grant] \ spent[q.grant] \/ q.grant \in revoked

GrantsInv ==
  /\ GrantsTypeOK
  /\ \A g \in Pages : Chained(g)
  /\ \A r \in Requests : request[r] # Idle => Found(request[r])
  /\ SpentOnce

LEMMA InitGrantsInv == GrantsInit => GrantsInv
  BY GrantsAssumption
  DEF GrantsInit, GrantsInv, GrantsTypeOK, Chained, SpentOnce, Honoured, Presented, Credentials

\* A request that is not idle is a record, and its grant was opened.
LEMMA RequestIsRecord ==
  ASSUME GrantsTypeOK, NEW r \in Requests, request[r].stage # "idle"
  PROVE  /\ request[r] \in RequestRecord
         /\ request[r] # Idle
         /\ request[r].grant \in opened
         /\ request[r].n \in 0 .. issued[request[r].grant]
<1>1. request[r] # Idle
  BY DEF Idle
<1>2. request[r] \in RequestRecord
  BY <1>1 DEF GrantsTypeOK, RequestRecord
<1> QED BY <1>1, <1>2 DEF GrantsTypeOK, Credentials, RequestRecord

-----------------------------------------------------------------------------
(* Steps that change the rows of a grant and no request *)

LEMMA RowsKeepInv ==
  ASSUME GrantsInv, UNCHANGED <<request, spent, issued>>,
         page' \in [Pages -> {"none", "shown", "opening", "gone"}],
         opened \subseteq opened', opened' \subseteq Pages,
         revoked \subseteq revoked', revoked' \subseteq opened',
         expired' \in [Pages -> SUBSET (0 .. MaxIssued)],
         \A g \in Pages : expired[g] \subseteq expired'[g] /\ expired'[g] \subseteq Credentials(g)'
  PROVE  GrantsInv'
<1>1. GrantsTypeOK'
  BY DEF GrantsInv, GrantsTypeOK, Credentials
<1>2. \A g \in Pages : Chained(g)'
  BY DEF GrantsInv, Chained
<1>3. ASSUME NEW r \in Requests, request'[r] # Idle PROVE Found(request[r])'
  <2>1. Found(request[r]) /\ request[r].grant \in Pages
    BY <1>3, RequestIsRecord DEF GrantsInv, GrantsTypeOK
  <2> QED BY <2>1, <1>3 DEF Found, TriedInVain
<1>4. SpentOnce'
  BY DEF GrantsInv, SpentOnce, Honoured, Presented
<1> QED BY <1>1, <1>2, <1>3, <1>4 DEF GrantsInv

LEMMA PageKeepsInv ==
  ASSUME GrantsInv, NEW g \in Pages, Draw(g) \/ TakeConsent(g) \/ OpenGrant(g) \/ Revoke(g)
  PROVE  GrantsInv'
<1> USE DEF GrantsInv, GrantsTypeOK, Credentials
<1>1. CASE Draw(g) BY <1>1, RowsKeepInv DEF Draw
<1>2. CASE TakeConsent(g) BY <1>2, RowsKeepInv DEF TakeConsent
<1>3. CASE OpenGrant(g) BY <1>3, RowsKeepInv DEF OpenGrant
<1>4. CASE Revoke(g) BY <1>4, RowsKeepInv DEF Revoke
<1> QED BY <1>1, <1>2, <1>3, <1>4

LEMMA ExpireKeepsInv ==
  ASSUME GrantsInv, NEW g \in Pages, NEW n \in 0 .. MaxIssued, Expire(g, n)
  PROVE  GrantsInv'
  BY RowsKeepInv DEF Expire, GrantsInv, GrantsTypeOK, Credentials

-----------------------------------------------------------------------------
(* Steps of one request *)

\* A step of one request that is honoured for nothing more keeps the invariant.
LEMMA StepKeepsInv ==
  ASSUME GrantsInv, NEW r \in Requests, NEW q \in RequestRecord,
         request' = [request EXCEPT ![r] = q],
         UNCHANGED <<page, opened, spent, expired, issued>>,
         revoked \subseteq revoked', revoked' \subseteq opened,
         q.n \in Credentials(q.grant),
         Found(q)',
         q.honoured => /\ Honoured(r, q.grant, q.n)
  PROVE  GrantsInv'
<1>1. GrantsTypeOK'
  BY DEF GrantsInv, GrantsTypeOK, Credentials, RequestRecord
<1>2. \A g \in Pages : Chained(g)'
  BY DEF GrantsInv, Chained
<1>3. ASSUME NEW s \in Requests, request'[s] # Idle PROVE Found(request[s])'
  <2>1. CASE s = r
    BY <2>1 DEF GrantsInv, GrantsTypeOK
  <2>2. CASE s # r
    <3>1. request'[s] = request[s] BY <2>2 DEF GrantsInv, GrantsTypeOK
    <3>2. Found(request[s]) BY <1>3, <3>1 DEF GrantsInv
    <3> QED BY <3>1, <3>2 DEF Found, TriedInVain
  <2> QED BY <2>1, <2>2
<1>4. SpentOnce'
  <2> SUFFICES ASSUME NEW s \in Requests, NEW t \in Requests, NEW g \in Pages,
                      NEW n \in 0 .. MaxIssued, Honoured(s, g, n)', Honoured(t, g, n)'
               PROVE  s = t
    BY DEF SpentOnce
  <2>1. Honoured(s, g, n) /\ Honoured(t, g, n)
    BY DEF GrantsInv, GrantsTypeOK, Honoured, Presented
  <2> QED BY <2>1 DEF GrantsInv, SpentOnce
<1> QED BY <1>1, <1>2, <1>3, <1>4 DEF GrantsInv

LEMMA PresentKeepsInv ==
  ASSUME GrantsInv, NEW r \in Requests, NEW g \in Pages, NEW n \in 0 .. MaxIssued,
         NEW own \in BOOLEAN, PresentCode(r, g, own) \/ PresentRefresh(r, g, n, own)
  PROVE  GrantsInv'
<1>1. PICK m \in 0 .. MaxIssued, stage \in {"exchanging", "noticing"} :
        /\ m \in Credentials(g)
        /\ request' = [request EXCEPT ![r] = Presenting(g, m, own, stage)]
        /\ UNCHANGED <<page, opened, spent, expired, issued, revoked>>
  BY GrantsAssumption DEF PresentCode, PresentRefresh, Credentials, GrantsInv, GrantsTypeOK
<1> DEFINE q == Presenting(g, m, own, stage)
<1>2. q \in RequestRecord /\ q.n \in Credentials(q.grant) /\ ~q.honoured
  BY <1>1 DEF Presenting, RequestRecord, Stages
<1>3. Found(q)'
  BY DEF Presenting, Found, TriedInVain
<1> QED BY <1>1, <1>2, <1>3, StepKeepsInv DEF GrantsInv, GrantsTypeOK

LEMMA GiveUpKeepsInv ==
  ASSUME GrantsInv, NEW r \in Requests, WrongVerifier(r) \/ Ends(r)
  PROVE  GrantsInv'
<1>1. /\ request[r] \in RequestRecord
      /\ request[r].n \in Credentials(request[r].grant)
      /\ Found(request[r])
  BY RequestIsRecord DEF WrongVerifier, Ends, InFlight, GrantsInv, Credentials
<1>2. PICK q \in RequestRecord : q = [request[r] EXCEPT !.stage = "refused", !.tried = FALSE]
  BY <1>1 DEF RequestRecord, Stages
<1>3. /\ request' = [request EXCEPT ![r] = q]
      /\ UNCHANGED <<page, opened, spent, expired, issued, revoked>>
  <2>1. CASE WrongVerifier(r)
    <3>1. ~request[r].tried BY <2>1, <1>1 DEF WrongVerifier, Found
    <3>2. q = [request[r] EXCEPT !.stage = "refused"] BY <1>1, <1>2, <3>1 DEF RequestRecord
    <3> QED BY <2>1, <1>1, <3>2 DEF WrongVerifier, RequestRecord
  <2>2. CASE Ends(r)
    BY <2>2, <1>1, <1>2 DEF Ends, RequestRecord
  <2> QED BY <2>1, <2>2
<1>4. /\ q.n \in Credentials(q.grant)
      /\ q.honoured => Honoured(r, q.grant, q.n)
  BY <1>1, <1>2 DEF Honoured, Presented, RequestRecord, Idle
<1>5. Found(q)'
  BY <1>1, <1>2, <1>3 DEF Found, TriedInVain, RequestRecord
<1> QED BY <1>3, <1>4, <1>5, StepKeepsInv DEF GrantsInv, GrantsTypeOK

LEMMA ReplayKeepsInv ==
  ASSUME GrantsInv, NEW r \in Requests, Replay(r)
  PROVE  GrantsInv'
<1>1. /\ request[r] \in RequestRecord
      /\ request[r].grant \in opened
      /\ request[r].n \in Credentials(request[r].grant)
      /\ Found(request[r])
  BY RequestIsRecord DEF Replay, GrantsInv, Credentials
<1>2. PICK q \in RequestRecord : q = [request[r] EXCEPT !.stage = "refused"]
  BY <1>1 DEF RequestRecord, Stages
<1>3. /\ request' = [request EXCEPT ![r] = q]
      /\ UNCHANGED <<page, opened, spent, expired, issued>>
      /\ revoked \subseteq revoked' /\ revoked' \subseteq opened
  BY <1>1, <1>2 DEF Replay, RequestRecord, GrantsInv, GrantsTypeOK
<1>4. /\ q.n \in Credentials(q.grant)
      /\ q.honoured => Honoured(r, q.grant, q.n)
  BY <1>1, <1>2 DEF Honoured, Presented, RequestRecord, Idle
<1>5. TriedInVain(q) => q.n \in expired[q.grant] \ spent[q.grant] \/ q.grant \in revoked'
  BY <1>1, <1>2 DEF Replay, Found, TriedInVain, RequestRecord
<1>6. Found(q)'
  BY <1>1, <1>2, <1>3, <1>5 DEF Found, TriedInVain, RequestRecord
<1> QED BY <1>3, <1>4, <1>6, StepKeepsInv

LEMMA TooLateKeepsInv ==
  ASSUME GrantsInv, NEW r \in Requests, request[r].stage \in {"exchanging", "noticing"},
         ~Live(request[r].grant, request[r].n, request[r].own),
         request' = [request EXCEPT ![r].stage = "replay", ![r].tried = TRUE],
         UNCHANGED <<page, opened, spent, expired, issued, revoked>>
  PROVE  GrantsInv'
<1>1. /\ request[r] \in RequestRecord
      /\ request[r].n \in Credentials(request[r].grant)
      /\ Found(request[r])
  BY RequestIsRecord DEF GrantsInv, Credentials
<1>2. PICK q \in RequestRecord : q = [request[r] EXCEPT !.stage = "replay", !.tried = TRUE]
  BY <1>1 DEF RequestRecord, Stages
<1>3. request' = [request EXCEPT ![r] = q]
  BY <1>1, <1>2 DEF RequestRecord
<1>4. /\ q.n \in Credentials(q.grant)
      /\ q.honoured => Honoured(r, q.grant, q.n)
  BY <1>1, <1>2 DEF Honoured, Presented, RequestRecord, Idle
<1>5. TriedInVain(q) => q.n \in spent[q.grant] \cup expired[q.grant] \/ q.grant \in revoked
  BY <1>1, <1>2 DEF Live, TriedInVain, RequestRecord
<1>6. Found(q)'
  BY <1>1, <1>2, <1>5 DEF Found, TriedInVain, RequestRecord
<1> QED BY <1>3, <1>4, <1>6, StepKeepsInv DEF GrantsInv, GrantsTypeOK

-----------------------------------------------------------------------------
(* The two steps that move the chain on *)

LEMMA HonourKeepsInv ==
  ASSUME GrantsInv, NEW r \in Requests, request[r].stage \in {"exchanging", "noticing"},
         Live(request[r].grant, request[r].n, request[r].own),
         Honour(r, request[r].grant, request[r].n),
         UNCHANGED <<page, opened, expired, issued, revoked>>
  PROVE  GrantsInv'
<1> DEFINE g == request[r].grant
           n == request[r].n
<1>1. PICK next \in {"issuing", "refused"} :
        request' = [request EXCEPT ![r].stage = next, ![r].tried = TRUE, ![r].honoured = TRUE]
  BY DEF Honour
<1> DEFINE q == [request[r] EXCEPT !.stage = next, !.tried = TRUE, !.honoured = TRUE]
<1>2. /\ request[r] \in RequestRecord /\ g \in opened /\ g \in Pages
      /\ n \in 0 .. issued[g] /\ issued[g] \in 0 .. MaxIssued
      /\ n \notin spent[g] /\ n \notin expired[g] /\ g \notin revoked
  BY RequestIsRecord DEF GrantsInv, GrantsTypeOK, Live, RequestRecord
<1>3. request' = [request EXCEPT ![r] = q]
  BY <1>1, <1>2 DEF RequestRecord
<1>4. q \in RequestRecord /\ q.grant = g /\ q.n = n /\ q.stage = next /\ q.honoured
  BY <1>2 DEF RequestRecord, Stages
<1>5. n = issued[g]
  <2>1. n \in 0 .. MaxIssued /\ ~(n < issued[g])
    BY <1>2, GrantsAssumption DEF GrantsInv, Chained
  <2> QED BY <1>2, <2>1, GrantsAssumption
<1>6. spent' = [spent EXCEPT ![g] = @ \cup {n}]
  BY DEF Honour
<1>7. GrantsTypeOK'
  BY <1>2, <1>3, <1>4, <1>6 DEF GrantsInv, GrantsTypeOK, Credentials, RequestRecord
<1>8. \A p \in Pages : Chained(p)'
  BY <1>6 DEF GrantsInv, GrantsTypeOK, Chained
<1>9. ASSUME NEW s \in Requests, request'[s] # Idle PROVE Found(request[s])'
  <2>1. CASE s = r
    <3>1. request'[s] = q BY <2>1, <1>3 DEF GrantsInv, GrantsTypeOK
    <3>2. q.n \in spent'[q.grant] BY <1>2, <1>4, <1>6 DEF GrantsInv, GrantsTypeOK
    <3> QED BY <3>1, <3>2, <1>4, <1>5 DEF Found, TriedInVain
  <2>2. CASE s # r
    <3>1. request'[s] = request[s] BY <2>2, <1>3 DEF GrantsInv, GrantsTypeOK
    <3>2. Found(request[s]) /\ request[s].grant \in Pages
      BY <1>9, <3>1 DEF GrantsInv, GrantsTypeOK
    <3>3. \A m \in expired[request[s].grant] \ spent[request[s].grant] :
            m \notin spent'[request[s].grant]
      BY <1>2, <1>6, <3>2 DEF GrantsInv, GrantsTypeOK
    <3>4. spent[request[s].grant] \subseteq spent'[request[s].grant]
      BY <1>2, <1>6, <3>2 DEF GrantsInv, GrantsTypeOK
    <3> QED BY <3>1, <3>2, <3>3, <3>4 DEF Found, TriedInVain
  <2> QED BY <2>1, <2>2
<1>10. SpentOnce'
  <2> SUFFICES ASSUME NEW s \in Requests, NEW t \in Requests, NEW p \in Pages,
                      NEW m \in 0 .. MaxIssued, Honoured(s, p, m)', Honoured(t, p, m)'
               PROVE  s = t
    BY DEF SpentOnce
  <2>1. \A u \in Requests \ {r} : Honoured(u, p, m)' => Honoured(u, p, m) /\ m \in spent[p]
    BY <1>3 DEF GrantsInv, GrantsTypeOK, Honoured, Presented, Found
  <2>2. Honoured(r, p, m)' => p = g /\ m = n
    BY <1>3, <1>4 DEF GrantsInv, GrantsTypeOK, Honoured, Presented
  <2> QED BY <2>1, <2>2, <1>2 DEF GrantsInv, SpentOnce
<1> QED BY <1>7, <1>8, <1>9, <1>10 DEF GrantsInv

LEMMA SpendKeepsInv ==
  ASSUME GrantsInv, NEW r \in Requests, Spend(r)
  PROVE  GrantsInv'
  BY HonourKeepsInv, TooLateKeepsInv DEF Spend

\* Nobody else is issuing under the grant, as its newest credential was honoured
\* once.
LEMMA IssueKeepsInv ==
  ASSUME GrantsInv, NEW r \in Requests, Issue(r)
  PROVE  GrantsInv'
<1> DEFINE g == request[r].grant
           q == [request[r] EXCEPT !.stage = "answered"]
<1>1. /\ request[r] \in RequestRecord /\ request[r] # Idle /\ g \in opened /\ g \in Pages
      /\ request[r].n = issued[g] /\ request[r].honoured /\ issued[g] \in spent[g]
      /\ issued[g] \in Nat /\ issued[g] < MaxIssued
  BY RequestIsRecord, GrantsAssumption DEF Issue, GrantsInv, GrantsTypeOK, Found, RequestRecord
<1>2. request' = [request EXCEPT ![r] = q] /\ issued' = [issued EXCEPT ![g] = @ + 1]
  BY <1>1 DEF Issue, RequestRecord
<1>3. q \in RequestRecord /\ q.grant = g /\ q.n = issued[g] /\ q.stage = "answered" /\ q.honoured
  BY <1>1 DEF RequestRecord, Stages
<1>4. /\ issued' \in [Pages -> 0 .. MaxIssued]
      /\ \A p \in Pages : Credentials(p) \subseteq Credentials(p)'
  BY <1>1, <1>2, GrantsAssumption DEF Issue, GrantsInv, GrantsTypeOK, Credentials
<1>5. GrantsTypeOK'
  <2>1. request' \in [Requests -> {Idle} \cup RequestRecord]
    BY <1>2, <1>3 DEF GrantsInv, GrantsTypeOK, RequestRecord
  <2>2. \A s \in Requests : request'[s] # Idle =>
           request'[s].n \in Credentials(request'[s].grant) /\ request'[s].grant \in Pages
    BY <1>1, <1>2, <1>3 DEF GrantsInv, GrantsTypeOK, Credentials
  <2> QED BY <1>4, <2>1, <2>2 DEF Issue, GrantsInv, GrantsTypeOK, RequestRecord
<1>6. \A p \in Pages : Chained(p)'
  <2> SUFFICES ASSUME NEW p \in Pages PROVE Chained(p)'
    OBVIOUS
  <2>1. CASE p = g
    BY <1>1, <1>2, <2>1, GrantsAssumption DEF Issue, GrantsInv, GrantsTypeOK, Chained
  <2>2. CASE p # g
    BY <1>1, <1>2, <2>2 DEF Issue, GrantsInv, GrantsTypeOK, Chained
  <2> QED BY <2>1, <2>2
<1>7. ASSUME NEW s \in Requests, request'[s] # Idle PROVE Found(request[s])'
  <2>1. CASE s = r
    <3>1. request'[s] = q BY <2>1, <1>2 DEF GrantsInv, GrantsTypeOK
    <3> QED BY <3>1, <1>1, <1>3 DEF Found, TriedInVain, Issue
  <2>2. CASE s # r
    <3>1. request'[s] = request[s] BY <2>2, <1>2 DEF GrantsInv, GrantsTypeOK
    <3>2. Found(request[s]) /\ request[s].grant \in Pages
      BY <1>7, <3>1 DEF GrantsInv, GrantsTypeOK
    <3>3. request[s].stage = "issuing" => request[s].grant # g
      BY <1>1, <1>7, <2>2, <3>1, <3>2
      DEF GrantsInv, GrantsTypeOK, SpentOnce, Honoured, Presented, Found
    <3>4. request[s].stage = "issuing" => issued'[request[s].grant] = issued[request[s].grant]
      BY <1>2, <3>2, <3>3 DEF GrantsInv, GrantsTypeOK
    <3> QED BY <3>1, <3>2, <3>4 DEF Found, TriedInVain, Issue
  <2> QED BY <2>1, <2>2
<1>8. SpentOnce'
  BY <1>1, <1>2, <1>3 DEF GrantsInv, GrantsTypeOK, SpentOnce, Honoured, Presented
<1> QED BY <1>5, <1>6, <1>7, <1>8 DEF GrantsInv

LEMMA NextKeepsGrantsInv == GrantsInv /\ [GrantsNext]_grantVars => GrantsInv'
<1> SUFFICES ASSUME GrantsInv, [GrantsNext]_grantVars PROVE GrantsInv'
  OBVIOUS
<1>1. CASE \E g \in Pages : Draw(g) \/ TakeConsent(g) \/ OpenGrant(g) \/ Revoke(g)
  BY <1>1, PageKeepsInv
<1>2. CASE \E g \in Pages, n \in 0 .. MaxIssued : Expire(g, n)
  BY <1>2, ExpireKeepsInv
<1>3. CASE \E r \in Requests, g \in Pages, own \in BOOLEAN : PresentCode(r, g, own)
  BY <1>3, PresentKeepsInv, GrantsAssumption
<1>4. CASE \E r \in Requests, g \in Pages, n \in 1 .. MaxIssued, own \in BOOLEAN :
             PresentRefresh(r, g, n, own)
  BY <1>4, PresentKeepsInv, GrantsAssumption
<1>5. CASE \E r \in Requests : WrongVerifier(r) \/ Spend(r) \/ Replay(r) \/ Issue(r) \/ Ends(r)
  BY <1>5, GiveUpKeepsInv, SpendKeepsInv, ReplayKeepsInv, IssueKeepsInv
<1>6. CASE UNCHANGED grantVars
  BY <1>6, RowsKeepInv DEF grantVars, GrantsInv, GrantsTypeOK, Credentials
<1> QED BY <1>1, <1>2, <1>3, <1>4, <1>5, <1>6 DEF GrantsNext

LEMMA GrantsInvHolds == GrantsSpec => []GrantsInv
  BY InitGrantsInv, NextKeepsGrantsInv, PTL DEF GrantsSpec

-----------------------------------------------------------------------------
(* Theorems *)

\* What is spent or has run out was handed out, and only a grant that was opened
\* is ended.
THEOREM GrantsTypeCorrect == GrantsSpec => []GrantsTypeOK
  BY GrantsInvHolds, PTL DEF GrantsInv

\* However many requests present a credential, and however their statements
\* fall, it is honoured once (spendCode, spendRefresh).
THEOREM HonouredOnce == GrantsSpec => []SpentOnce
  BY GrantsInvHolds, PTL DEF GrantsInv

\* Under a grant only the newest credential can still be spent, and one request
\* at most is issuing the pair after it (issueTokens).
THEOREM GrantIsOneChain == GrantsSpec => []OneChain
<1>1. GrantsInv => OneChain
  <2> SUFFICES ASSUME GrantsInv, NEW g \in opened
               PROVE  /\ 0 .. issued[g] - 1 \subseteq spent[g]
                      /\ \A r \in Requests : request[r].stage = "issuing" /\ request[r].grant = g =>
                           request[r].n = issued[g] /\ issued[g] \in spent[g]
    BY DEF OneChain
  <2>1. 0 .. issued[g] - 1 \subseteq spent[g]
    BY GrantsAssumption DEF GrantsInv, GrantsTypeOK, Chained
  <2>2. ASSUME NEW r \in Requests, request[r].stage = "issuing", request[r].grant = g
        PROVE  request[r].n = issued[g] /\ issued[g] \in spent[g]
    BY <2>2, RequestIsRecord DEF GrantsInv, Found
  <2> QED BY <2>1, <2>2
<1> QED BY <1>1, GrantsInvHolds, PTL

\* A credential honoured and presented again by its client has ended the grant,
\* in whatever order the statements of the two fell (the replay branches of
\* spendCode and spendRefresh).
THEOREM ReplayEndsTheGrant == GrantsSpec => []PresentedTwiceEnds
<1>1. GrantsInv => PresentedTwiceEnds
  <2> SUFFICES ASSUME GrantsInv, NEW r \in Requests, NEW q \in Requests, NEW g \in Pages,
                      NEW n \in 0 .. MaxIssued, r # q, Honoured(r, g, n), Presented(q, g, n),
                      request[q].own, request[q].tried, request[q].stage = "refused"
               PROVE  g \in revoked
    BY DEF PresentedTwiceEnds
  <2>1. n \in spent[g]
    BY DEF GrantsInv, Honoured, Presented, Found
  <2>2. ~request[q].honoured
    BY DEF GrantsInv, SpentOnce, Honoured, Presented
  <2> QED BY <2>1, <2>2 DEF GrantsInv, Presented, Found, TriedInVain
<1> QED BY <1>1, GrantsInvHolds, PTL

-----------------------------------------------------------------------------
(***************************************************************************)
(* Uploads, for any books in hand and any number of retries.  UploadsInv   *)
(* says which captures the requests and the screen may name: a chain none  *)
(* but its own, and a chain that has lost no answer only the newest and    *)
(* older ones that were deleted.                                           *)
(***************************************************************************)

-----------------------------------------------------------------------------
(* The inductive invariant *)

Post == [stage : {"sent", "found", "done", "failed"}, chain : Chains, to : Nat]
Chain == [known : Nat, at : Nat, tries : Nat, lost : BOOLEAN]

UploadsTypeOK ==
  /\ chain \in [Chains -> Chain]
  /\ post \in Seq(Post)
  /\ capture \in Seq({"there", "deleted"})

\* Only captures there have been are named, and a chain awaits a request of its
\* own.
Named ==
  /\ \A i \in DOMAIN post : /\ post[i].to <= Len(capture)
                            /\ post[i].stage = "done" => post[i].to # NoCapture
  /\ \A k \in Chains : /\ chain[k].known <= Len(capture)
                       /\ chain[k].at <= Len(post)
                       /\ chain[k].at # 0 => post[chain[k].at].chain = k

\* No two books name one capture.
Differ(m, n) == m # NoCapture => m # n
Apart ==
  /\ \A i, j \in DOMAIN post : post[i].chain # post[j].chain => Differ(post[i].to, post[j].to)
  /\ \A i \in DOMAIN post, k \in Chains : post[i].chain # k => Differ(post[i].to, chain[k].known)
  /\ \A k, l \in Chains : k # l => Differ(chain[k].known, chain[l].known)

\* The newest capture of a chain: the one known, or the one in an answer on its way.
Newest(k) ==
  IF chain[k].at # 0 /\ post[chain[k].at].stage = "done" THEN post[chain[k].at].to
  ELSE chain[k].known
Gone(c) == c # NoCapture => capture[c] = "deleted"
\* A request of a chain that has lost no answer is the one awaited or is over; it
\* went where the newest is, or to one since deleted.
InStep(k, i) ==
  /\ i # chain[k].at => post[i].stage \in {"done", "failed"}
  /\ post[i].stage = "done" =>
       post[i].to = Newest(k) \/ (post[i].to < Newest(k) /\ Gone(post[i].to))
  /\ post[i].stage \in {"sent", "found"} =>
       \/ post[i].to = chain[k].known
       \/ post[i].stage = "found" /\ post[i].to = NoCapture /\ Gone(chain[k].known)
Straight ==
  \A k \in Chains : ~chain[k].lost =>
    \A i \in DOMAIN post : post[i].chain = k => InStep(k, i)

UploadsInv == UploadsTypeOK /\ Named /\ Apart /\ Straight

LEMMA InitUploadsInv == UploadsInit => UploadsInv
  BY DEF UploadsInit, UploadsInv, UploadsTypeOK, Named, Apart, Straight, Differ, Chain, NoCapture

\* What the tables hold.
LEMMA PostIsPost ==
  ASSUME UploadsInv, NEW i \in DOMAIN post
  PROVE  /\ i \in 1 .. Len(post) /\ Len(post) \in Nat
         /\ post[i] \in Post /\ post[i].chain \in Chains
         /\ post[i].to \in 0 .. Len(capture)
<1>1. /\ post \in [1 .. Len(post) -> Post] /\ DOMAIN post = 1 .. Len(post)
      /\ Len(post) \in Nat /\ Len(capture) \in Nat
  BY DEF UploadsInv, UploadsTypeOK
<1>2. post[i] \in Post
  BY <1>1
<1>3. post[i].to \in Nat /\ post[i].chain \in Chains
  BY <1>2 DEF Post
<1> QED BY <1>1, <1>2, <1>3 DEF UploadsInv, Named

LEMMA ChainIsChain ==
  ASSUME UploadsInv, NEW k \in Chains
  PROVE  /\ chain[k] \in Chain
         /\ chain[k].known \in 0 .. Len(capture)
         /\ chain[k].at \in 0 .. Len(post)
         /\ chain[k].at # 0 => chain[k].at \in DOMAIN post
  BY DEF UploadsInv, UploadsTypeOK, Named, Chain

-----------------------------------------------------------------------------
(* Steps of the screen *)

\* Sending a request names what the chain knows, and awaits the request.
LEMMA AskKeepsInv ==
  ASSUME UploadsInv, NEW k \in Chains, Asked(k), UNCHANGED capture,
         NEW c \in Chain, chain' = [chain EXCEPT ![k] = c],
         c.known = chain[k].known, c.at = Len(post) + 1,
         (chain[k].at = 0 /\ c.lost = chain[k].lost) \/ c.lost
  PROVE  UploadsInv'
<1> DEFINE n == Len(post) + 1
           new == [stage |-> "sent", chain |-> k, to |-> chain[k].known]
<1>1. /\ Len(post) \in Nat /\ DOMAIN post = 1 .. Len(post)
      /\ post' \in Seq(Post) /\ Len(post') = n /\ DOMAIN post' = 1 .. n
      /\ post'[n] = new
      /\ \A i \in 1 .. Len(post) : post'[i] = post[i]
  BY DEF Asked, UploadsInv, UploadsTypeOK, Post, Chain
<1>2. /\ chain'[k] = c
      /\ \A l \in Chains \ {k} : chain'[l] = chain[l]
      /\ \A l \in Chains : chain'[l].known = chain[l].known
  BY DEF UploadsInv, UploadsTypeOK
<1>3. UploadsTypeOK'
  BY <1>1 DEF UploadsInv, UploadsTypeOK
<1>4. Named'
  <2>1. \A i \in 1 .. n : post'[i].to <= Len(capture) /\ (post'[i].stage = "done" => post'[i].to # NoCapture)
    BY <1>1 DEF UploadsInv, Named
  <2>2. ASSUME NEW l \in Chains
        PROVE  /\ chain'[l].known <= Len(capture)
               /\ chain'[l].at <= n
               /\ chain'[l].at # 0 => post'[chain'[l].at].chain = l
    <3>1. CASE l = k BY <1>1, <1>2, <3>1 DEF UploadsInv, Named
    <3>2. CASE l # k
      <4>1. chain'[l] = chain[l] /\ chain[l].at \in Nat
        BY <1>2, <3>2 DEF UploadsInv, UploadsTypeOK, Chain
      <4> QED BY <1>1, <4>1 DEF UploadsInv, Named
    <3> QED BY <3>1, <3>2
  <2> QED BY <1>1, <2>1, <2>2 DEF Named
<1>5. Apart'
  <2>1. \A i \in 1 .. n, l \in Chains : post'[i].chain # l => Differ(post'[i].to, chain[l].known)
    BY <1>1 DEF UploadsInv, Apart
  <2>2. \A i \in 1 .. Len(post), l \in Chains : post[i].chain # l => Differ(chain[l].known, post[i].to)
    BY <1>1 DEF UploadsInv, Apart, Differ
  <2>3. \A i, j \in 1 .. n : post'[i].chain # post'[j].chain => Differ(post'[i].to, post'[j].to)
    <3> SUFFICES ASSUME NEW i \in 1 .. n, NEW j \in 1 .. n, post'[i].chain # post'[j].chain
                 PROVE  Differ(post'[i].to, post'[j].to)
      OBVIOUS
    <3>1. CASE i = n /\ j = n BY <3>1
    <3>2. CASE i = n /\ j # n BY <3>2, <1>1, <2>2
    <3>3. CASE i # n /\ j = n BY <3>3, <1>1, <2>1
    <3>4. CASE i # n /\ j # n
      <4>1. i \in 1 .. Len(post) /\ j \in 1 .. Len(post) BY <3>4, <1>1
      <4> QED BY <4>1, <1>1 DEF UploadsInv, Apart
    <3> QED BY <3>1, <3>2, <3>3, <3>4
  <2> QED BY <1>1, <1>2, <2>1, <2>3 DEF UploadsInv, Apart
<1>6. Straight'
  <2> SUFFICES ASSUME NEW l \in Chains, ~chain'[l].lost, NEW i \in 1 .. n, post'[i].chain = l
               PROVE  InStep(l, i)'
    BY <1>1 DEF Straight
  <2>1. CASE l # k
    <3>1. i \in 1 .. Len(post) /\ post'[i] = post[i] /\ chain'[l] = chain[l]
      BY <1>1, <1>2, <2>1
    <3>2. InStep(l, i)
      BY <1>1, <3>1 DEF UploadsInv, Straight
    <3>3. chain[l].at \in Nat /\ chain[l].at <= Len(post)
      BY DEF UploadsInv, UploadsTypeOK, Named, Chain
    <3>4. Newest(l)' = Newest(l)
      BY <1>1, <3>1, <3>3 DEF Newest
    <3> QED BY <3>1, <3>2, <3>4 DEF InStep, Gone
  <2>2. CASE l = k
    <3>1. chain[k].at = 0 /\ ~chain[k].lost
      BY <1>2, <2>2
    <3>2. Newest(k)' = Newest(k)
      BY <1>1, <1>2, <3>1 DEF Newest
    <3>3. CASE i = n
      BY <1>1, <1>2, <2>2, <3>3 DEF InStep
    <3>4. CASE i # n
      <4>1. i \in 1 .. Len(post) /\ post'[i] = post[i]
        BY <1>1, <3>4
      <4>2. InStep(k, i)
        BY <1>1, <2>2, <3>1, <4>1 DEF UploadsInv, Straight
      <4>3. post[i].stage \in {"done", "failed"}
        BY <1>1, <3>1, <4>1, <4>2 DEF InStep
      <4> QED BY <2>2, <3>2, <4>1, <4>2, <4>3 DEF InStep, Gone
    <3> QED BY <3>3, <3>4
  <2> QED BY <2>1, <2>2
<1> QED BY <1>3, <1>4, <1>5, <1>6 DEF UploadsInv

\* No longer awaiting a request leaves the newest what it was, unless an answer
\* is lost.
LEMMA SettledKeepsInv ==
  ASSUME UploadsInv, NEW k \in Chains, UNCHANGED <<post, capture>>, chain[k].at # 0,
         NEW c \in Chain, chain' = [chain EXCEPT ![k] = c], c.at = 0,
         \/ c.known = chain[k].known /\ c.lost
         \/ /\ c.lost = chain[k].lost
            /\ c.known = Newest(k)
            /\ post[chain[k].at].stage \in {"done", "failed"}
  PROVE  UploadsInv'
<1>1. /\ chain'[k] = c /\ chain[k] \in Chain
      /\ \A l \in Chains \ {k} : chain'[l] = chain[l]
  BY DEF UploadsInv, UploadsTypeOK
<1>2. chain[k].at \in DOMAIN post /\ post[chain[k].at].chain = k
  BY <1>1 DEF UploadsInv, UploadsTypeOK, Named, Chain
<1>3. \/ c.known = chain[k].known
      \/ c.known = post[chain[k].at].to
  BY DEF Newest
<1>4. UploadsTypeOK'
  BY DEF UploadsInv, UploadsTypeOK
<1>5. Named'
  BY <1>1, <1>2, <1>3 DEF UploadsInv, Named
<1>6. Apart'
  <2>1. \A i \in DOMAIN post, l \in Chains :
          post[i].chain # l => Differ(post[i].to, chain'[l].known)
    BY <1>1, <1>2, <1>3 DEF UploadsInv, Apart
  <2>2. \A l, m \in Chains : l # m => Differ(chain'[l].known, chain'[m].known)
    BY <1>1, <1>2, <1>3 DEF UploadsInv, Apart, Differ
  <2> QED BY <2>1, <2>2 DEF UploadsInv, Apart
<1>7. Straight'
  <2> SUFFICES ASSUME NEW l \in Chains, ~chain'[l].lost, NEW i \in DOMAIN post, post[i].chain = l
               PROVE  InStep(l, i)'
    BY DEF Straight
  <2>1. CASE l # k
    BY <1>1, <2>1 DEF UploadsInv, Straight, InStep, Newest, Gone
  <2>2. CASE l = k
    <3>1. c.known = Newest(k) /\ post[chain[k].at].stage \in {"done", "failed"} /\ ~chain[k].lost
      BY <1>1, <2>2
    <3>2. Newest(k)' = Newest(k)
      BY <1>1, <3>1 DEF Newest
    <3>3. InStep(k, i)
      BY <2>2, <3>1 DEF UploadsInv, Straight
    <3>4. post[i].stage \in {"done", "failed"}
      BY <3>1, <3>3 DEF InStep
    <3> QED BY <2>2, <3>2, <3>3, <3>4 DEF InStep, Gone
  <2> QED BY <2>1, <2>2
<1> QED BY <1>4, <1>5, <1>6, <1>7 DEF UploadsInv

LEMMA ScreenKeepsInv ==
  ASSUME UploadsInv, NEW k \in Chains, Add(k) \/ AskAgain(k) \/ GiveUp(k) \/ Answered(k)
  PROVE  UploadsInv'
<1>1. chain[k] \in Chain /\ Len(post) \in Nat /\ post \in Seq(Post)
  BY DEF UploadsInv, UploadsTypeOK
<1>2. chain[k].at # 0 => chain[k].at \in DOMAIN post /\ post[chain[k].at] \in Post
  BY <1>1 DEF UploadsInv, Named, Chain
<1>3. CASE Add(k)
  <2>1. PICK c \in Chain : c = [chain[k] EXCEPT !.at = Len(post) + 1, !.tries = 0]
    <3>1. [chain[k] EXCEPT !.at = Len(post) + 1, !.tries = 0] \in Chain
      <4>1. Len(post) + 1 \in Nat BY <1>1
      <4> QED BY <1>1, <4>1 DEF Chain
    <3> QED BY <3>1
  <2>2. chain' = [chain EXCEPT ![k] = c] BY <1>1, <1>3, <2>1 DEF Add, Chain
  <2> QED BY <1>1, <1>3, <2>1, <2>2, AskKeepsInv DEF Add, Chain
<1>4. CASE AskAgain(k)
  <2>1. PICK c \in Chain :
          c = [chain[k] EXCEPT !.at = Len(post) + 1, !.tries = @ + 1, !.lost = TRUE]
    <3>1. [chain[k] EXCEPT !.at = Len(post) + 1, !.tries = @ + 1, !.lost = TRUE] \in Chain
      <4>1. Len(post) + 1 \in Nat /\ chain[k].tries + 1 \in Nat BY <1>1 DEF Chain
      <4> QED BY <1>1, <4>1 DEF Chain
    <3> QED BY <3>1
  <2>2. chain' = [chain EXCEPT ![k] = c] BY <1>1, <1>4, <2>1 DEF AskAgain, Chain
  <2> QED BY <1>1, <1>4, <2>1, <2>2, AskKeepsInv DEF AskAgain, Chain
<1>5. CASE GiveUp(k)
  <2>1. CASE chain' = [chain EXCEPT ![k].at = 0, ![k].lost = TRUE]
    <3>1. PICK c \in Chain : c = [chain[k] EXCEPT !.at = 0, !.lost = TRUE]
      BY <1>1 DEF Chain
    <3>2. chain' = [chain EXCEPT ![k] = c] BY <1>1, <2>1, <3>1 DEF Chain
    <3> QED BY <1>1, <1>5, <3>1, <3>2, SettledKeepsInv DEF GiveUp, Chain
  <2>2. CASE post[chain[k].at].stage = "failed" /\ chain' = [chain EXCEPT ![k].at = 0]
    <3>1. PICK c \in Chain : c = [chain[k] EXCEPT !.at = 0]
      BY <1>1 DEF Chain
    <3>2. chain' = [chain EXCEPT ![k] = c] BY <1>1, <2>2, <3>1 DEF Chain
    <3>3. c.known = Newest(k) /\ c.lost = chain[k].lost /\ c.at = 0
      BY <1>1, <2>2, <3>1 DEF Newest, Chain
    <3> QED BY <1>5, <2>2, <3>2, <3>3, SettledKeepsInv DEF GiveUp
  <2> QED BY <1>5, <2>1, <2>2 DEF GiveUp
<1>6. CASE Answered(k)
  <2>1. PICK c \in Chain : c = [chain[k] EXCEPT !.at = 0, !.known = post[chain[k].at].to]
    BY <1>1, <1>2, <1>6 DEF Answered, Chain, Post
  <2>2. chain' = [chain EXCEPT ![k] = c] BY <1>1, <1>6, <2>1 DEF Answered, Chain
  <2>3. c.known = Newest(k) /\ c.lost = chain[k].lost /\ c.at = 0
    BY <1>1, <1>6, <2>1 DEF Answered, Newest, Chain
  <2> QED BY <1>6, <2>2, <2>3, SettledKeepsInv DEF Answered
<1> QED BY <1>3, <1>4, <1>5, <1>6

-----------------------------------------------------------------------------
(* Steps of the server *)

\* A request that gets no further than it names a capture already keeps all that
\* is said of captures.
LEMMA ServedKeepsInv ==
  ASSUME UploadsInv, NEW i \in DOMAIN post, UNCHANGED <<chain, capture>>,
         NEW k \in Chains, post[i].chain = k,
         NEW p \in Post, post' = [post EXCEPT ![i] = p], p.chain = k,
         p.to \in {post[i].to, NoCapture}, p.stage = "done" => p.to # NoCapture,
         ~chain[k].lost => InStep(k, i)',
         chain[k].at = i /\ ~chain[k].lost => Newest(k)' = Newest(k)
  PROVE  UploadsInv'
<1>1. /\ post' \in Seq(Post) /\ DOMAIN post' = DOMAIN post /\ Len(post') = Len(post)
      /\ post'[i] = p
      /\ \A j \in DOMAIN post \ {i} : post'[j] = post[j]
      /\ \A j \in DOMAIN post : post'[j].chain = post[j].chain
  BY DEF UploadsInv, UploadsTypeOK
<1>2. \A j \in DOMAIN post : post'[j].to \in {post[j].to, NoCapture}
  BY <1>1
<1>3. UploadsTypeOK'
  BY <1>1 DEF UploadsInv, UploadsTypeOK
<1>4. Named'
  <2>1. Len(capture) \in Nat /\ \A c \in Chains : chain[c].at # 0 => chain[c].at \in DOMAIN post
    BY DEF UploadsInv, UploadsTypeOK, Named, Chain
  <2> QED BY <1>1, <2>1 DEF UploadsInv, Named, NoCapture
<1>5. Apart'
  BY <1>1, <1>2 DEF UploadsInv, Apart, Differ
<1>6. Straight'
  <2> SUFFICES ASSUME NEW l \in Chains, ~chain[l].lost, NEW j \in DOMAIN post, post[j].chain = l
               PROVE  InStep(l, j)'
    BY <1>1 DEF Straight
  <2>1. CASE j = i
    BY <2>1, <1>1
  <2>2. CASE j # i
    <3>1. InStep(l, j) /\ post'[j] = post[j]
      BY <1>1, <2>2 DEF UploadsInv, Straight
    <3>2. Newest(l)' = Newest(l)
      <4>1. CASE l = k /\ chain[l].at = i BY <4>1
      <4>2. CASE chain[l].at # i
        <5>1. chain[l].at # 0 => chain[l].at \in DOMAIN post
          BY DEF UploadsInv, UploadsTypeOK, Named, Chain
        <5> QED BY <1>1, <4>2, <5>1 DEF Newest
      <4>3. CASE l # k /\ chain[l].at = i
        <5>1. 0 \notin DOMAIN post BY DEF UploadsInv, UploadsTypeOK
        <5> QED BY <4>3, <5>1 DEF UploadsInv, Named
      <4> QED BY <4>1, <4>2, <4>3
    <3> QED BY <3>1, <3>2 DEF InStep, Gone
  <2> QED BY <2>1, <2>2
<1> QED BY <1>3, <1>4, <1>5, <1>6 DEF UploadsInv

LEMMA LookupKeepsInv ==
  ASSUME UploadsInv, NEW i \in DOMAIN post, Lookup(i)
  PROVE  UploadsInv'
<1>0. PICK k \in Chains : k = post[i].chain
  BY PostIsPost
<1>1. post[i] \in Post /\ post \in Seq(Post) /\ chain[k] \in Chain
  BY PostIsPost, ChainIsChain DEF UploadsInv, UploadsTypeOK
<1>2. PICK p \in Post :
        p = [post[i] EXCEPT !.stage = "found", !.to = IF IsThere(@) THEN @ ELSE NoCapture]
  BY <1>0, <1>1 DEF Post, NoCapture
<1>3. post' = [post EXCEPT ![i] = p] /\ UNCHANGED <<chain, capture>>
  BY <1>0, <1>1, <1>2 DEF Lookup, Post
<1>4. /\ post'[i] = p /\ p.chain = k /\ p.stage = "found"
      /\ p.to \in {post[i].to, NoCapture}
      /\ ~IsThere(post[i].to) => p.to = NoCapture
      /\ IsThere(post[i].to) => p.to = post[i].to
  BY <1>0, <1>1, <1>2, <1>3 DEF Post
<1>5. ~chain[k].lost => InStep(k, i)'
  <2> SUFFICES ASSUME ~chain[k].lost PROVE InStep(k, i)'
    OBVIOUS
  <2>1. InStep(k, i)
    BY <1>0, <1>1 DEF UploadsInv, Straight
  <2>2. post[i].to = chain[k].known /\ i = chain[k].at
    BY <2>1 DEF Lookup, InStep
  <2>3. ~IsThere(post[i].to) => Gone(chain[k].known)
    <3>1. post[i].to # NoCapture => post[i].to \in DOMAIN capture
      BY <1>0, <1>1 DEF UploadsInv, UploadsTypeOK, Named, NoCapture, Post
    <3> QED BY <2>2, <3>1 DEF IsThere, Captures, Gone, UploadsInv, UploadsTypeOK
  <2> QED BY <1>0, <1>3, <1>4, <2>2, <2>3 DEF InStep, Gone
<1>6. chain[k].at = i => Newest(k)' = Newest(k)
  BY <1>0, <1>3, <1>4 DEF Newest, Lookup
<1> QED BY <1>0, <1>3, <1>4, <1>5, <1>6, ServedKeepsInv DEF Lookup

LEMMA AttachKeepsInv ==
  ASSUME UploadsInv, NEW i \in DOMAIN post, Attach(i)
  PROVE  UploadsInv'
<1>0. PICK k \in Chains : k = post[i].chain
  BY PostIsPost
<1>1. post[i] \in Post /\ post \in Seq(Post) /\ chain[k] \in Chain
  BY PostIsPost, ChainIsChain DEF UploadsInv, UploadsTypeOK
<1>2. PICK p \in Post :
        p = [post[i] EXCEPT !.stage = IF IsThere(post[i].to) THEN "done" ELSE "failed"]
  BY <1>0, <1>1 DEF Post
<1>3. post' = [post EXCEPT ![i] = p] /\ UNCHANGED <<chain, capture>>
  BY <1>0, <1>1, <1>2 DEF Attach, Post
<1>4. /\ post'[i] = p /\ p.chain = k /\ p.to = post[i].to /\ p.to # NoCapture
      /\ p.stage \in {"done", "failed"}
  BY <1>0, <1>1, <1>2, <1>3 DEF Attach, Post
<1>5. ~chain[k].lost => i = chain[k].at /\ post[i].to = chain[k].known
  BY <1>0, <1>1 DEF Attach, UploadsInv, Straight, InStep
<1>6. chain[k].at = i /\ ~chain[k].lost => Newest(k)' = Newest(k)
  BY <1>0, <1>3, <1>4, <1>5 DEF Newest, Attach
<1>7. ~chain[k].lost => InStep(k, i)'
  BY <1>0, <1>3, <1>4, <1>5, <1>6 DEF InStep, Newest, Attach
<1> QED BY <1>0, <1>3, <1>4, <1>6, <1>7, ServedKeepsInv DEF Attach

\* A capture made new has a number nobody names yet, and is the newest of its
\* chain; whatever the chain had before was deleted.
LEMMA CreateKeepsInv ==
  ASSUME UploadsInv, NEW i \in DOMAIN post, Create(i)
  PROVE  UploadsInv'
<1>0. PICK k \in Chains, n \in Nat : k = post[i].chain /\ n = Len(capture) + 1
  BY PostIsPost DEF UploadsInv, UploadsTypeOK
<1>1. post[i] \in Post /\ post \in Seq(Post) /\ chain[k] \in Chain
  BY PostIsPost, ChainIsChain DEF UploadsInv, UploadsTypeOK
<1>2. PICK p \in Post : p = [post[i] EXCEPT !.stage = "done", !.to = n]
  BY <1>0, <1>1 DEF Post, UploadsInv, UploadsTypeOK
<1>3. post' = [post EXCEPT ![i] = p] /\ chain' = chain /\ p.chain = k /\ p.to = n /\ p.stage = "done"
  BY <1>0, <1>1, <1>2 DEF Create, Post
<1>4. /\ post' \in Seq(Post) /\ DOMAIN post' = DOMAIN post /\ Len(post') = Len(post)
      /\ post'[i] = p
      /\ \A j \in DOMAIN post \ {i} : post'[j] = post[j]
      /\ \A j \in DOMAIN post : post'[j].chain = post[j].chain
  BY <1>0, <1>1, <1>3
<1>5. /\ capture' \in Seq({"there", "deleted"}) /\ Len(capture) \in Nat /\ Len(capture') = n
      /\ \A c \in 1 .. Len(capture) : capture'[c] = capture[c]
  BY <1>0 DEF Create, UploadsInv, UploadsTypeOK
<1>6. /\ \A j \in DOMAIN post : post[j].to \in 0 .. Len(capture)
      /\ \A l \in Chains : chain[l].known \in 0 .. Len(capture)
      /\ \A l \in Chains : chain[l].at # 0 => chain[l].at \in DOMAIN post
      /\ 0 \notin DOMAIN post
  BY <1>5, PostIsPost, ChainIsChain
<1>7. UploadsTypeOK'
  BY <1>0, <1>3, <1>4, <1>5 DEF UploadsInv, UploadsTypeOK
<1>8. Named'
  <2>1. \A j \in DOMAIN post : post'[j].to <= n /\ (post'[j].stage = "done" => post'[j].to # NoCapture)
    BY <1>0, <1>3, <1>4, <1>5, <1>6 DEF UploadsInv, Named, NoCapture
  <2>2. \A l \in Chains : chain[l].known <= n
    BY <1>0, <1>5, <1>6
  <2> QED BY <1>0, <1>3, <1>4, <1>5, <1>6, <2>1, <2>2 DEF UploadsInv, Named
<1>9. Apart'
  <2>1. \A j \in DOMAIN post : post'[j].to = IF j = i THEN n ELSE post[j].to
    BY <1>0, <1>3, <1>4
  <2>2. \A j \in DOMAIN post : post[j].to # n
    BY <1>0, <1>5, <1>6
  <2>3. \A l \in Chains : chain[l].known # n
    BY <1>0, <1>5, <1>6
  <2> QED BY <1>0, <1>3, <1>4, <2>1, <2>2, <2>3 DEF UploadsInv, Apart, Differ
<1>10. Straight'
  <2> SUFFICES ASSUME NEW l \in Chains, ~chain[l].lost, NEW j \in DOMAIN post, post[j].chain = l
               PROVE  InStep(l, j)'
    BY <1>0, <1>3, <1>4 DEF Straight
  <2>1. InStep(l, j)
    BY DEF UploadsInv, Straight
  <2>2. \A c \in 0 .. Len(capture) : Gone(c) => Gone(c)'
    BY <1>0, <1>5 DEF Gone, NoCapture
  <2>3. CASE l # k
    <3>1. j # i /\ post'[j] = post[j]
      BY <1>0, <1>4, <2>3
    <3>2. chain[l].at # i
      BY <1>0, <1>6, <2>3 DEF UploadsInv, Named
    <3>3. Newest(l)' = Newest(l)
      BY <1>0, <1>3, <1>4, <1>6, <3>2 DEF Newest
    <3>4. post[j].to \in 0 .. Len(capture) /\ chain[l].known \in 0 .. Len(capture)
      BY <1>0, <1>6
    <3> QED BY <1>0, <1>3, <2>1, <2>2, <3>1, <3>3, <3>4 DEF InStep
  <2>4. CASE l = k
    <3>1. /\ InStep(k, i) /\ i = chain[k].at
          /\ Gone(chain[k].known) /\ Newest(k) = chain[k].known
      <4>1. InStep(k, i)
        BY <1>0, <2>4 DEF UploadsInv, Straight
      <4> QED BY <4>1 DEF Create, InStep, Gone, Newest
    <3>2. Newest(k)' = n
      BY <1>0, <1>3, <1>4, <1>6, <3>1 DEF Newest
    <3>3. CASE j = i
      BY <1>0, <1>3, <1>4, <2>4, <3>1, <3>2, <3>3 DEF InStep
    <3>4. CASE j # i
      <4>1. post'[j] = post[j] /\ post[j].stage \in {"done", "failed"}
        BY <1>0, <1>4, <2>1, <2>4, <3>1, <3>4 DEF InStep
      <4>2. post[j].to \in 0 .. Len(capture) /\ post[j].to < n
        BY <1>0, <1>5, <1>6
      <4>3. post[j].stage = "done" => Gone(post[j].to)
        BY <2>1, <2>4, <3>1 DEF InStep
      <4> QED BY <1>0, <2>2, <2>4, <3>2, <3>4, <3>1, <1>3, <4>1, <4>2, <4>3 DEF InStep
    <3> QED BY <3>3, <3>4
  <2> QED BY <2>3, <2>4
<1> QED BY <1>7, <1>8, <1>9, <1>10 DEF UploadsInv

LEMMA DeleteKeepsInv ==
  ASSUME UploadsInv, NEW c \in Captures, DeleteCapture(c)
  PROVE  UploadsInv'
<1>1. /\ capture' \in Seq({"there", "deleted"}) /\ Len(capture') = Len(capture)
      /\ \A d \in DOMAIN capture : capture[d] = "deleted" => capture'[d] = "deleted"
  BY DEF DeleteCapture, UploadsInv, UploadsTypeOK, Captures
<1>2. \A d \in 0 .. Len(capture) : Gone(d) => Gone(d)'
  BY <1>1 DEF Gone, NoCapture, UploadsInv, UploadsTypeOK
<1>3. UploadsTypeOK' /\ Named' /\ Apart'
  BY <1>1 DEF DeleteCapture, UploadsInv, UploadsTypeOK, Named, Apart
<1>4. Straight'
  <2> SUFFICES ASSUME NEW l \in Chains, ~chain[l].lost, NEW j \in DOMAIN post, post[j].chain = l
               PROVE  InStep(l, j)'
    BY DEF Straight, DeleteCapture
  <2>1. InStep(l, j)
    BY DEF UploadsInv, Straight
  <2>2. post[j].to \in 0 .. Len(capture) /\ chain[l].known \in 0 .. Len(capture)
    BY PostIsPost, ChainIsChain
  <2>3. Newest(l)' = Newest(l)
    BY DEF DeleteCapture, Newest
  <2> QED BY <1>2, <2>1, <2>2, <2>3 DEF DeleteCapture, InStep
<1> QED BY <1>3, <1>4 DEF UploadsInv

LEMMA NextKeepsUploadsInv == UploadsInv /\ [UploadsNext]_uploadVars => UploadsInv'
<1> SUFFICES ASSUME UploadsInv, [UploadsNext]_uploadVars PROVE UploadsInv'
  OBVIOUS
<1>1. CASE UNCHANGED uploadVars
  BY <1>1 DEF uploadVars, UploadsInv, UploadsTypeOK, Named, Apart, Straight, InStep, Newest, Gone
<1> QED BY <1>1, ScreenKeepsInv, LookupKeepsInv, AttachKeepsInv, CreateKeepsInv, DeleteKeepsInv
        DEF UploadsNext

-----------------------------------------------------------------------------
(* Theorems *)

LEMMA MinOfTwo ==
  ASSUME NEW m \in Nat, NEW n \in Nat
  PROVE  Min({m, n}) = IF m <= n THEN m ELSE n
  BY DEF Min

\* The photographs of one book go to one capture unless an answer was lost or the
\* capture deleted, and those of two books never to the same (BookUploads, attach).
THEOREM BooksKeepTheirCaptures == UploadsSpec => []OneBookOneCapture
<1>1. UploadsInv => OneBookOneCapture
  <2> SUFFICES ASSUME UploadsInv, NEW i \in Done, NEW j \in Done
               PROVE  IF post[i].chain = post[j].chain
                      THEN \/ post[i].to = post[j].to
                           \/ chain[post[i].chain].lost
                           \/ capture[Min({post[i].to, post[j].to})] = "deleted"
                      ELSE post[i].to # post[j].to
    BY DEF OneBookOneCapture
  <2>1. /\ i \in DOMAIN post /\ post[i].to \in Nat /\ post[i].to # NoCapture
        /\ j \in DOMAIN post /\ post[j].to \in Nat /\ post[j].to # NoCapture
        /\ post[i].chain \in Chains /\ post[i].stage = "done" /\ post[j].stage = "done"
    BY PostIsPost DEF Done, UploadsInv, Named
  <2>2. CASE post[i].chain # post[j].chain
    BY <2>1, <2>2 DEF UploadsInv, Apart, Differ
  <2>3. CASE post[i].chain = post[j].chain
    <3> DEFINE k == post[i].chain
    <3> SUFFICES ASSUME ~chain[k].lost, post[i].to # post[j].to
                 PROVE  capture[Min({post[i].to, post[j].to})] = "deleted"
      BY <2>3
    <3>1. InStep(k, i) /\ InStep(k, j)
      BY <2>1, <2>3 DEF UploadsInv, Straight
    <3>2. Newest(k) \in Nat
      BY <2>1, PostIsPost, ChainIsChain DEF Newest
    <3>3. /\ \/ post[i].to = Newest(k)
             \/ post[i].to < Newest(k) /\ capture[post[i].to] = "deleted"
          /\ \/ post[j].to = Newest(k)
             \/ post[j].to < Newest(k) /\ capture[post[j].to] = "deleted"
      BY <2>1, <3>1 DEF InStep, Gone
    <3> QED BY <2>1, <3>2, <3>3, MinOfTwo
  <2> QED BY <2>2, <2>3
<1> QED BY <1>1, InitUploadsInv, NextKeepsUploadsInv, PTL DEF UploadsSpec

-----------------------------------------------------------------------------
(***************************************************************************)
(* DiscardWindow, for any set of scans and any number of swipes.           *)
(* WindowInv says that the entries of `timers` and the timeouts the        *)
(* browser has armed are the same swipes at every step, one for a scan at  *)
(* most.                                                                   *)
(***************************************************************************)

WindowTypeOK ==
  /\ swipes \in Seq(Scans)
  /\ requests \in Seq(Nat)
  /\ Len(requests) = Len(swipes)
  /\ timers \in [Scans -> 0 .. Len(swipes)]
  /\ armed \in SUBSET (1 .. Len(swipes))
  /\ undone \in SUBSET (1 .. Len(swipes))

\* A timer is held for the scan of its own swipe.
HeldForItsScan == \A s \in Scans : timers[s] # None => swipes[timers[s]] = s

WindowInv == WindowTypeOK /\ HeldForItsScan /\ armed = Held /\ SwipedOnce

LEMMA InitWindowInv == WindowInit => WindowInv
  BY WindowAssumption
  DEF WindowInit, WindowInv, WindowTypeOK, HeldForItsScan, SwipedOnce, Held, None

\* Counting a request for some swipes leaves one count for each swipe.
LEMMA SentCounts ==
  ASSUME requests \in Seq(Nat), NEW ns
  PROVE  /\ Sent(ns) \in Seq(Nat)
         /\ Len(Sent(ns)) = Len(requests)
         /\ \A n \in 1 .. Len(requests) :
              Sent(ns)[n] = IF n \in ns THEN requests[n] + 1 ELSE requests[n]
<1>1. Sent(ns) \in [1 .. Len(requests) -> Nat]
  BY DEF Sent
<1>2. Len(requests) \in Nat
  OBVIOUS
<1>3. Sent(ns) \in Seq(Nat) /\ Len(Sent(ns)) = Len(requests)
  BY <1>1, <1>2
<1> QED BY <1>3 DEF Sent

LEMMA HoldKeepsInv ==
  ASSUME WindowInv, NEW s \in Scans, Hold(s)
  PROVE  WindowInv'
<1> DEFINE n == Len(swipes) + 1
<1>1. /\ swipes' \in Seq(Scans) /\ Len(swipes') = n
      /\ requests' \in Seq(Nat) /\ Len(requests') = n
      /\ swipes'[n] = s /\ requests'[n] = 0
      /\ \A m \in 1 .. Len(swipes) : swipes'[m] = swipes[m] /\ requests'[m] = requests[m]
  BY DEF Hold, WindowInv, WindowTypeOK
<1>2. timers' = [timers EXCEPT ![s] = n] /\ armed' = armed \cup {n} /\ undone' = undone
  BY DEF Hold
<1>3. Held' = Held \cup {n}
  BY <1>2 DEF Hold, Held, None, WindowInv, WindowTypeOK
<1>4. WindowTypeOK'
  <2>1. Len(swipes) \in Nat /\ n \in 1 .. n /\ 1 .. Len(swipes) \subseteq 1 .. n
    BY DEF WindowInv, WindowTypeOK
  <2>2. timers' \in [Scans -> 0 .. Len(swipes')]
    BY <1>1, <1>2, <2>1 DEF WindowInv, WindowTypeOK
  <2>3. armed' \subseteq 1 .. n /\ undone' \subseteq 1 .. n
    BY <1>2, <2>1 DEF WindowInv, WindowTypeOK
  <2> QED BY <1>1, <2>2, <2>3 DEF WindowTypeOK
<1>5. HeldForItsScan'
  BY <1>1, <1>2 DEF WindowInv, WindowTypeOK, HeldForItsScan, None
<1>6. SwipedOnce'
  <2> SUFFICES ASSUME NEW m \in 1 .. n
               PROVE  IF m \in Held' THEN m \in armed' /\ m \notin undone' /\ requests'[m] = 0
                      ELSE requests'[m] = IF m \in undone' THEN 0 ELSE 1
    BY <1>1 DEF SwipedOnce
  <2>1. Len(swipes) \in Nat /\ DOMAIN swipes = 1 .. Len(swipes)
    BY DEF WindowInv, WindowTypeOK
  <2>2. CASE m = n
    <3>1. n \notin undone BY <2>1 DEF WindowInv, WindowTypeOK
    <3> QED BY <2>2, <3>1, <1>1, <1>2, <1>3
  <2>3. CASE m \in 1 .. Len(swipes)
    <3>1. m # n BY <2>1, <2>3
    <3> QED BY <2>1, <2>3, <3>1, <1>1, <1>2, <1>3 DEF WindowInv, SwipedOnce
  <2> QED BY <2>1, <2>2, <2>3
<1> QED BY <1>2, <1>3, <1>4, <1>5, <1>6 DEF WindowInv

\* When the timers of some scans are struck out, their swipes are not held any
\* more, and all others are.
LEMMA StruckOut ==
  ASSUME WindowInv, NEW S \in SUBSET Scans,
         timers' = [s \in Scans |-> IF s \in S THEN None ELSE timers[s]]
  PROVE  Held' = Held \ {timers[s] : s \in S}
  BY DEF WindowInv, WindowTypeOK, HeldForItsScan, Held, None

LEMMA EndKeepsInv ==
  ASSUME WindowInv, NEW S \in SUBSET Scans, NEW ns, UNCHANGED swipes,
         ns = {timers[s] : s \in S}, ns \subseteq Held,
         timers' = [s \in Scans |-> IF s \in S THEN None ELSE timers[s]],
         armed' = armed \ ns,
         \/ undone' = undone /\ requests' = Sent(ns)
         \/ undone' = undone \cup ns /\ requests' = requests
  PROVE  WindowInv'
<1>1. Held' = Held \ ns
  BY StruckOut
<1>2. ns \subseteq 1 .. Len(swipes)
  BY DEF WindowInv, WindowTypeOK, Held, None
<1>3. WindowTypeOK'
  <2>1. requests' \in Seq(Nat) /\ Len(requests') = Len(swipes)
    BY SentCounts DEF WindowInv, WindowTypeOK
  <2>2. timers' \in [Scans -> 0 .. Len(swipes)]
    BY DEF WindowInv, WindowTypeOK, None
  <2>3. armed' \subseteq 1 .. Len(swipes) /\ undone' \subseteq 1 .. Len(swipes)
    BY <1>2 DEF WindowInv, WindowTypeOK
  <2> QED BY <2>1, <2>2, <2>3 DEF WindowInv, WindowTypeOK
<1>4. HeldForItsScan'
  BY DEF WindowInv, WindowTypeOK, HeldForItsScan, None
<1>5. SwipedOnce'
  <2>1. CASE undone' = undone /\ requests' = Sent(ns)
    <3>1. ASSUME NEW n \in DOMAIN swipes
          PROVE  requests'[n] = IF n \in ns THEN requests[n] + 1 ELSE requests[n]
      <4>1. requests \in Seq(Nat) /\ n \in 1 .. Len(requests)
        BY DEF WindowInv, WindowTypeOK
      <4>2. Sent(ns)[n] = IF n \in ns THEN requests[n] + 1 ELSE requests[n]
        BY <4>1, SentCounts
      <4> QED BY <2>1, <4>2
    <3> QED BY <1>1, <2>1, <3>1 DEF WindowInv, SwipedOnce
  <2>2. CASE undone' = undone \cup ns /\ requests' = requests
    BY <1>1, <1>2, <2>2 DEF WindowInv, WindowTypeOK, SwipedOnce
  <2> QED BY <2>1, <2>2
<1> QED BY <1>1, <1>3, <1>4, <1>5 DEF WindowInv

LEMMA NextKeepsWindowInv == WindowInv /\ [WindowNext]_windowVars => WindowInv'
<1> SUFFICES ASSUME WindowInv, [WindowNext]_windowVars PROVE WindowInv'
  OBVIOUS
<1>1. ASSUME NEW s \in Scans, Hold(s) PROVE WindowInv'
  BY <1>1, HoldKeepsInv
<1>2. ASSUME NEW s \in Scans, Release(s) PROVE WindowInv'
  <2>1. {timers[s]} = {timers[t] : t \in {s}} /\ {timers[s]} \subseteq Held
    BY <1>2 DEF Release, Held
  <2>2. timers' = [t \in Scans |-> IF t \in {s} THEN None ELSE timers[t]]
    BY <1>2 DEF Release, WindowInv, WindowTypeOK
  <2> QED BY <1>2, <2>1, <2>2, EndKeepsInv DEF Release
<1>3. ASSUME NEW n \in DOMAIN swipes, Fire(n) PROVE WindowInv'
  <2>1. PICK s \in Scans : timers[s] = n /\ swipes[n] = s
    BY <1>3 DEF Fire, WindowInv, HeldForItsScan, Held
  <2>2. {n} = {timers[t] : t \in {s}} /\ {n} \subseteq Held
    BY <1>3, <2>1 DEF Fire, WindowInv
  <2>3. timers' = [t \in Scans |-> IF t \in {s} THEN None ELSE timers[t]]
    BY <1>3, <2>1 DEF Fire, WindowInv, WindowTypeOK
  <2>4. armed' = armed \ {n} /\ requests' = Sent({n}) /\ UNCHANGED <<swipes, undone>>
    BY <1>3 DEF Fire
  <2> QED BY <2>2, <2>3, <2>4, EndKeepsInv
<1>4. ASSUME Abandon \/ Flush PROVE WindowInv'
  <2> DEFINE S == {s \in Scans : timers[s] # None}
  <2>1. Held = {timers[t] : t \in S}
    BY DEF Held
  <2>2. timers' = [t \in Scans |-> IF t \in S THEN None ELSE timers[t]]
    BY <1>4 DEF Abandon, Flush, WindowInv, WindowTypeOK
  <2> QED BY <1>4, <2>1, <2>2, EndKeepsInv DEF Abandon, Flush
<1>5. CASE UNCHANGED windowVars
  BY <1>5 DEF windowVars, WindowInv, WindowTypeOK, HeldForItsScan, SwipedOnce, Held
<1> QED BY <1>1, <1>2, <1>3, <1>4, <1>5 DEF WindowNext

\* A swipe is sent once, or was taken back and is never sent, or is still held
\* with a timer that will send it (discardWindow.ts).
THEOREM SwipeIsSentOnce == WindowSpec => []SwipedOnce
<1>1. WindowInv => SwipedOnce
  BY DEF WindowInv
<1> QED BY <1>1, InitWindowInv, NextKeepsWindowInv, PTL DEF WindowSpec

-----------------------------------------------------------------------------
(***************************************************************************)
(* Sweeps, for any number of captures and of passes at once: that the      *)
(* queue is not left standing.                                             *)
(***************************************************************************)

\* A set of captures that is not empty has a count above zero.
LEMMA Counts ==
  ASSUME NEW S \in SUBSET Shots
  PROVE  Cardinality(S) \in Nat /\ (S # {} => Cardinality(S) > 0)
<1>1. IsFiniteSet(S)
  BY FS_Subset, SweepAssumption
<1> QED
  BY <1>1, FS_CardinalityType, FS_EmptySet

LEMMA DrainTyped ==
  ASSUME SweepTypeOK, Drain
  PROVE  /\ worker' \in [at : {"idle", "ask", "answer", "read"}, saw : SUBSET Shots]
         /\ worker'.at = "idle" => worker' = Resting
         /\ drainAgain' \in BOOLEAN
<1>1. At("ask", {}) \in [at : {"idle", "ask", "answer", "read"}, saw : SUBSET Shots]
  BY DEF At
<1>2. At("ask", {}).at # "idle"
  BY DEF At
<1> QED
  BY <1>1, <1>2 DEF SweepTypeOK, Drain

\* Every variable keeps its type, and nobody waits for a look at a capture that is
\* no longer in the queue.
THEOREM SweepTypeCorrect == SweepSpec => []SweepTypeOK
<1>1. SweepInit => SweepTypeOK
  <2> SUFFICES ASSUME SweepInit PROVE SweepTypeOK
    OBVIOUS
  <2>1. Resting \in [at : {"idle", "ask", "answer", "read"}, saw : SUBSET Shots]
    BY DEF Resting, At
  <2>2. NoPass \in [stage : {"none", "count", "counted", "waits", "recount", "rearm"}, found : Nat]
    BY DEF NoPass
  <2> QED
    BY <2>1, <2>2 DEF SweepInit, SweepTypeOK
<1>2. SweepTypeOK /\ [SweepNext]_sweepVars => SweepTypeOK'
  <2> SUFFICES ASSUME SweepTypeOK, [SweepNext]_sweepVars PROVE SweepTypeOK'
    OBVIOUS
  <2> USE DEF SweepTypeOK, Resting, At, NoPass, Wake
  <2>1. ASSUME NEW c \in Shots, Take(c) PROVE SweepTypeOK'
    BY <2>1 DEF Take
  <2>2. ASSUME NEW c \in Shots, Shutter(c) PROVE SweepTypeOK'
    BY <2>2, DrainTyped DEF Shutter
  <2>3. ASSUME NEW c \in Shots, WriteElsewhere(c) PROVE SweepTypeOK'
    BY <2>3 DEF WriteElsewhere
  <2>4. CASE Look
    BY <2>4 DEF Look
  <2>5. CASE LookAgain
    BY <2>5 DEF LookAgain
  <2>6. CASE Empty
    BY <2>6 DEF Empty
  <2>7. CASE DrainThrows
    BY <2>7 DEF DrainThrows
  <2>8. ASSUME NEW left \in BOOLEAN, Settle(left) PROVE SweepTypeOK'
    BY <2>8 DEF Settle
  <2>9. CASE ListQueue
    BY <2>9 DEF ListQueue
  <2>10. CASE Hashed
    BY <2>10, DrainTyped DEF Hashed
  <2>11. CASE HashThrows
    BY <2>11 DEF HashThrows
  <2>12. CASE ProcessEnds
    BY <2>12 DEF ProcessEnds
  <2>13. ASSUME NEW p \in Passes, TimerFires(p) PROVE SweepTypeOK'
    BY <2>13 DEF TimerFires
  <2>14. ASSUME NEW p \in Passes, Count(p) PROVE SweepTypeOK'
    BY <2>14, Counts DEF Count
  <2>15. ASSUME NEW p \in Passes, Counted(p) PROVE SweepTypeOK'
    <3>1. CASE pass[p].found = 0
      BY <2>15, <3>1 DEF Counted
    <3>2. CASE pass[p].found # 0
      <4>1. Drain /\ UNCHANGED <<pending, timer, boot>> /\ seen' = seen \cup pending
        BY <2>15, <3>2 DEF Counted
      <4>2. pass' \in [Passes -> [stage : {"none", "count", "counted", "waits", "recount", "rearm"},
                                  found : Nat]]
        BY <2>15, <3>2 DEF Counted
      <4> QED
        BY <4>1, <4>2, DrainTyped
    <3> QED
      BY <3>1, <3>2
  <2>16. ASSUME NEW p \in Passes, Recount(p) PROVE SweepTypeOK'
    BY <2>16 DEF Recount
  <2>17. ASSUME NEW p \in Passes, Rearm(p) PROVE SweepTypeOK'
    BY <2>17 DEF Rearm
  <2>18. CASE UNCHANGED sweepVars
    BY <2>18 DEF sweepVars
  <2> QED
    BY <2>1, <2>2, <2>3, <2>4, <2>5, <2>6, <2>7, <2>8, <2>9, <2>10, <2>11, <2>12,
       <2>13, <2>14, <2>15, <2>16, <2>17, <2>18 DEF SweepNext
<1> QED
  BY <1>1, <1>2, PTL DEF SweepSpec

\* A drain that is asked for leaves a worker that looks before it stops.
LEMMA DrainLooks ==
  ASSUME SweepTypeOK, Drain
  PROVE  \/ worker'.at \in {"ask", "read"}
         \/ worker'.at = "answer" /\ (worker'.saw # {} \/ drainAgain')
BY DEF SweepTypeOK, Drain, Resting, At

\* A capture somebody asked about, and that still waits, is before a worker that
\* will look or a pass that will: the call that found a drain running is noted down
\* for it, and a wake that comes while a pass is under way arms the next one.
THEOREM QueueIsNotLeftStanding == SweepSpec => []SweepWillLook
<1>1. SweepInit => SweepWillLook
  BY DEF SweepInit, SweepWillLook
<1>2. SweepTypeOK /\ SweepWillLook /\ [SweepNext]_sweepVars => SweepWillLook'
  <2> SUFFICES ASSUME SweepTypeOK, SweepWillLook, [SweepNext]_sweepVars, seen' # {}
               PROVE  SweepWillLook'
    BY DEF SweepWillLook
  <2> USE DEF SweepTypeOK, SweepWillLook
  <2>1. ASSUME NEW c \in Shots, Take(c) PROVE SweepWillLook'
    BY <2>1 DEF Take, At
  <2>2. ASSUME NEW c \in Shots, Shutter(c) PROVE SweepWillLook'
    BY <2>2, DrainLooks DEF Shutter
  <2>3. ASSUME NEW c \in Shots, WriteElsewhere(c) PROVE SweepWillLook'
    <3>1. seen # {}
      BY <2>3 DEF WriteElsewhere
    <3> QED
      BY <2>3, <3>1 DEF WriteElsewhere
  <2>4. CASE Look
    BY <2>4 DEF Look, At
  <2>5. CASE LookAgain
    BY <2>5 DEF LookAgain, At
  <2>6. CASE Empty
    BY <2>6 DEF Empty, At
  <2>7. CASE DrainThrows
    BY <2>7 DEF DrainThrows
  <2>8. ASSUME NEW left \in BOOLEAN, Settle(left) PROVE SweepWillLook'
    BY <2>8 DEF Settle, At
  <2>9. CASE ListQueue
    BY <2>9 DEF ListQueue, Wake
  <2>10. CASE Hashed
    BY <2>10, DrainLooks DEF Hashed
  <2>11. CASE HashThrows
    BY <2>11 DEF HashThrows
  <2>12. CASE ProcessEnds
    BY <2>12 DEF ProcessEnds
  <2>13. ASSUME NEW p \in Passes, TimerFires(p) PROVE SweepWillLook'
    <3>1. pass'[p].stage = "count"
      BY <2>13 DEF TimerFires
    <3> QED
      BY <3>1
  <2>14. ASSUME NEW p \in Passes, Count(p) PROVE SweepWillLook'
    <3>1. pending # {} /\ Cardinality(pending) > 0
      BY <2>14, Counts DEF Count
    <3>2. pass'[p].stage = "counted" /\ pass'[p].found > 0
      BY <2>14, <3>1 DEF Count
    <3> QED
      BY <3>2
  <2>15. ASSUME NEW p \in Passes, Counted(p) PROVE SweepWillLook'
    <3>1. CASE pass[p].found = 0
      BY <2>15, <3>1 DEF Counted
    <3>2. CASE pass[p].found # 0
      BY <2>15, <3>2, DrainLooks DEF Counted
    <3> QED
      BY <3>1, <3>2
  <2>16. ASSUME NEW p \in Passes, Recount(p) PROVE SweepWillLook'
    BY <2>16 DEF Recount, NoPass
  <2>17. ASSUME NEW p \in Passes, Rearm(p) PROVE SweepWillLook'
    BY <2>17 DEF Rearm, Wake
  <2>18. CASE UNCHANGED sweepVars
    BY <2>18 DEF sweepVars
  <2> QED
    BY <2>1, <2>2, <2>3, <2>4, <2>5, <2>6, <2>7, <2>8, <2>9, <2>10, <2>11, <2>12,
       <2>13, <2>14, <2>15, <2>16, <2>17, <2>18 DEF SweepNext
<1> QED
  BY <1>1, <1>2, SweepTypeCorrect, PTL DEF SweepSpec

-----------------------------------------------------------------------------
(***************************************************************************)
(* SourcePace, for any lookups, budgets, interval and lag.  PaceInv gives  *)
(* each lookup that has taken a slot an interval of its own, before the    *)
(* next free one.                                                          *)
(***************************************************************************)

\* A lookup that has taken a slot: the slot is in time for it, and the next free one
\* is a whole interval later.
HasSlot(c) == lookup[c].stage \in {"waiting", "asked"}

SlotOf(c) ==
  /\ lookup[c].at \in Nat /\ lookup[c].by \in Nat
  /\ lookup[c].at < lookup[c].by
  /\ lookup[c].at + Interval <= nextFreeAt
  /\ lookup[c].stage = "waiting" => now <= lookup[c].at + Lag
  /\ lookup[c].stage = "asked" =>
       /\ lookup[c].sent \in Nat
       /\ lookup[c].at <= lookup[c].sent /\ lookup[c].sent <= lookup[c].at + Lag
       /\ lookup[c].sent < lookup[c].by

FarApart(c, d) ==
  \/ lookup[c].at + Interval <= lookup[d].at
  \/ lookup[d].at + Interval <= lookup[c].at

PaceInv ==
  /\ now \in Nat /\ nextFreeAt \in Nat
  /\ lookup = [c \in Lookups |-> lookup[c]]
  /\ \A c \in Lookups : HasSlot(c) => SlotOf(c)
  /\ \A c, d \in Lookups : HasSlot(c) /\ HasSlot(d) /\ c # d => FarApart(c, d)

LEMMA PaceReserves ==
  ASSUME PaceInv, NEW c \in Lookups, NEW budget \in Budgets, ReserveSlot(c, budget)
  PROVE  PaceInv'
<1> DEFINE at == Later(now, nextFreeAt)
<1>1. now \in Nat /\ nextFreeAt \in Nat /\ budget \in Nat /\ Interval \in Nat \ {0} /\ Lag \in Nat
  BY PaceAssumption DEF PaceInv
<1>2. at \in Nat /\ now <= at /\ nextFreeAt <= at
  BY <1>1 DEF Later
<1>3. CASE at - now >= budget
  <2>1. UNCHANGED <<now, nextFreeAt>> /\ lookup' = [lookup EXCEPT ![c] = [stage |-> "skipped"]]
    BY <1>3 DEF ReserveSlot
  <2>2. lookup'[c] = [stage |-> "skipped"] /\ \A d \in Lookups \ {c} : lookup'[d] = lookup[d]
    BY <2>1 DEF PaceInv
  <2>3. lookup' = [d \in Lookups |-> lookup'[d]]
    BY <2>1 DEF PaceInv
  <2>4. \A d \in Lookups : HasSlot(d)' => HasSlot(d) /\ lookup'[d] = lookup[d]
    BY <2>2 DEF HasSlot
  <2> QED BY <2>1, <2>3, <2>4 DEF PaceInv, SlotOf, FarApart
<1>4. CASE ~(at - now >= budget)
  <2> DEFINE took == IF at = now THEN [stage |-> "asked", at |-> at, by |-> now + budget, sent |-> now]
                     ELSE [stage |-> "waiting", at |-> at, by |-> now + budget]
  <2>1. /\ nextFreeAt' = at + Interval /\ now' = now
        /\ lookup' = [lookup EXCEPT ![c] = took]
    BY <1>4 DEF ReserveSlot, Reserved
  <2>2. lookup'[c] = took /\ \A d \in Lookups \ {c} : lookup'[d] = lookup[d]
    BY <2>1 DEF PaceInv
  <2>3. lookup' = [d \in Lookups |-> lookup'[d]]
    BY <2>1 DEF PaceInv
  <2>4. /\ lookup'[c].stage \in {"waiting", "asked"}
        /\ lookup'[c].at = at /\ lookup'[c].by = now + budget
        /\ lookup'[c].stage = "asked" => at = now /\ lookup'[c].sent = now
    BY <2>2
  <2> HIDE DEF at
  <2>5. at < now + budget
    BY <1>1, <1>2, <1>4
  <2>6. \A d \in Lookups \ {c} : HasSlot(d)' => HasSlot(d)
    BY <2>2 DEF HasSlot
  <2>7. ASSUME NEW d \in Lookups, HasSlot(d)' PROVE SlotOf(d)'
    <3>1. CASE d = c
      BY <1>1, <1>2, <2>1, <2>4, <2>5, <3>1 DEF SlotOf
    <3>2. CASE d # c
      <4>1. SlotOf(d) /\ lookup'[d] = lookup[d]
        BY <2>2, <2>6, <2>7, <3>2 DEF PaceInv
      <4> QED BY <1>1, <1>2, <2>1, <4>1 DEF SlotOf
    <3> QED BY <3>1, <3>2
  <2>8. ASSUME NEW d \in Lookups \ {c}, HasSlot(d)' PROVE lookup'[d].at + Interval <= lookup'[c].at
    <3>1. SlotOf(d) /\ lookup'[d] = lookup[d]
      BY <2>2, <2>6, <2>8 DEF PaceInv
    <3> QED BY <1>1, <1>2, <2>4, <3>1 DEF SlotOf
  <2>9. ASSUME NEW d \in Lookups, NEW e \in Lookups, HasSlot(d)', HasSlot(e)', d # e
        PROVE  FarApart(d, e)'
    <3>1. CASE d # c /\ e # c
      BY <2>2, <2>6, <2>9, <3>1 DEF PaceInv, FarApart
    <3>2. CASE d = c \/ e = c
      BY <2>8, <2>9, <3>2 DEF FarApart
    <3> QED BY <3>1, <3>2
  <2>10. now' \in Nat /\ nextFreeAt' \in Nat
    BY <1>1, <1>2, <2>1
  <2> QED BY <2>3, <2>7, <2>9, <2>10 DEF PaceInv
<1> QED BY <1>3, <1>4

LEMMA PaceAwakes ==
  ASSUME PaceInv, NEW c \in Lookups, Awake(c)
  PROVE  PaceInv'
<1>1. /\ UNCHANGED <<now, nextFreeAt>> /\ lookup[c].stage = "waiting" /\ now >= lookup[c].at
      /\ lookup' = [d \in Lookups |-> lookup'[d]]
      /\ \A d \in Lookups \ {c} : lookup'[d] = lookup[d]
      /\ lookup'[c] = IF now >= lookup[c].by THEN [stage |-> "skipped"]
           ELSE [stage |-> "asked", at |-> lookup[c].at, by |-> lookup[c].by, sent |-> now]
  BY DEF Awake, PaceInv
<1>2. HasSlot(c) /\ SlotOf(c) /\ now \in Nat
  BY <1>1 DEF HasSlot, PaceInv
<1>3. \/ ~HasSlot(c)'
      \/ /\ lookup'[c].stage = "asked" /\ lookup'[c].at = lookup[c].at /\ lookup'[c].by = lookup[c].by
         /\ lookup'[c].sent = now /\ now < lookup[c].by
  <2>1. lookup[c].by \in Nat
    BY <1>2 DEF SlotOf
  <2> QED BY <1>1, <1>2, <2>1 DEF HasSlot
<1>4. \A d \in Lookups : HasSlot(d)' => HasSlot(d) /\ lookup'[d].at = lookup[d].at
  BY <1>1, <1>2, <1>3 DEF HasSlot
<1>5. HasSlot(c)' => SlotOf(c)'
  BY <1>1, <1>2, <1>3 DEF SlotOf
<1>6. \A d \in Lookups \ {c} : HasSlot(d)' => SlotOf(d)'
  BY <1>1, <1>4 DEF PaceInv, SlotOf
<1>7. \A d, e \in Lookups : HasSlot(d)' /\ HasSlot(e)' /\ d # e => FarApart(d, e)'
  BY <1>4 DEF PaceInv, FarApart
<1> QED BY <1>1, <1>2, <1>5, <1>6, <1>7 DEF PaceInv

LEMMA PaceTicks ==
  ASSUME PaceInv, Tick
  PROVE  PaceInv'
<1>1. /\ UNCHANGED <<nextFreeAt, lookup>> /\ now' = now + 1
      /\ \A c \in Lookups : lookup[c].stage = "waiting" => now < lookup[c].at + Lag
  BY DEF Tick
<1>2. ASSUME NEW c \in Lookups, HasSlot(c)' PROVE SlotOf(c)'
  <2>1. SlotOf(c)
    BY <1>1, <1>2 DEF HasSlot, PaceInv
  <2> QED BY <1>1, <2>1, PaceAssumption DEF SlotOf, PaceInv
<1> QED BY <1>1, <1>2 DEF PaceInv, HasSlot, FarApart

LEMMA PaceAlways == PaceSpec => []PaceInv
<1>1. PaceInit => PaceInv
  BY DEF PaceInit, PaceInv, Unasked, HasSlot
<1>2. PaceInv /\ [PaceNext]_paceVars => PaceInv'
  <2> SUFFICES ASSUME PaceInv, [PaceNext]_paceVars PROVE PaceInv'
    OBVIOUS
  <2>1. CASE PaceRestart
    <3>1. nextFreeAt' = 0 /\ lookup' = [c \in Lookups |-> Unasked] /\ now' = now
      BY <2>1 DEF PaceRestart
    <3>2. \A c \in Lookups : ~HasSlot(c)'
      BY <3>1 DEF HasSlot, Unasked
    <3> QED BY <3>1, <3>2 DEF PaceInv
  <2>2. CASE UNCHANGED paceVars
    BY <2>2 DEF paceVars, PaceInv, HasSlot, SlotOf, FarApart
  <2> QED BY <2>1, <2>2, PaceReserves, PaceAwakes, PaceTicks DEF PaceNext
<1> QED BY <1>1, <1>2, PTL DEF PaceSpec

\* Whoever lined up behind whom, whatever each was prepared to wait, and however late
\* a timer fires within its bound: one process leaves the source its interval, less
\* that lateness, and sends nothing when no time is left.
THEOREM PaceIsKept == PaceSpec => []PaceKept
<1>1. ASSUME PaceInv PROVE PaceKept
  <2>1. ASSUME NEW c \in WentOut
        PROVE  c \in Lookups /\ HasSlot(c) /\ SlotOf(c) /\ lookup[c].stage = "asked"
    BY <1>1 DEF WentOut, HasSlot, PaceInv
  <2>2. \A c \in WentOut : lookup[c].sent < lookup[c].by
    BY <2>1 DEF SlotOf
  <2>3. ASSUME NEW c \in WentOut, NEW d \in WentOut, c # d
        PROVE  \/ lookup[c].sent - lookup[d].sent >= Interval - Lag
               \/ lookup[d].sent - lookup[c].sent >= Interval - Lag
    <3>1. FarApart(c, d)
      BY <1>1, <2>1, <2>3 DEF PaceInv
    <3>2. /\ lookup[c].at \in Nat /\ lookup[c].sent \in Nat
          /\ lookup[c].at <= lookup[c].sent /\ lookup[c].sent <= lookup[c].at + Lag
          /\ lookup[d].at \in Nat /\ lookup[d].sent \in Nat
          /\ lookup[d].at <= lookup[d].sent /\ lookup[d].sent <= lookup[d].at + Lag
      BY <2>1 DEF SlotOf
    <3> QED BY <3>1, <3>2, PaceAssumption DEF FarApart
  <2> QED BY <2>2, <2>3 DEF PaceKept
<1> QED BY <1>1, PaceAlways, PTL

-----------------------------------------------------------------------------
(***************************************************************************)
(* ReadingChain, for any calls and any bound.  ChainInv stands the calls   *)
(* nobody has answered in one line, each behind the call it waits for, and *)
(* counts the time each of them has left: the first its own, and a whole   *)
(* one for each that stands behind it.  A place is not a variable of the   *)
(* model, so the invariant says that there is a way to place them, and     *)
(* each step finds the next.                                               *)
(***************************************************************************)

\* The time k readings have, one after the other, and the last moment a call may be
\* answered at.
Span(k) == k * Bound
Limit(c) == call[c].at + Span(call[c].ahead + 1)

Reading == {c \in Calls : call[c].stage = "reading"}
Waiting == {c \in Calls : call[c].stage = "waiting"}

\* The calls nobody has answered stand in one line, each behind the call it waits for.
Lined(place) ==
  /\ \A c \in Unanswered : place[c] \in 1 .. Cardinality(Unanswered)
  /\ \A c, d \in Unanswered : place[c] = place[d] => c = d
  /\ \A i \in 1 .. Cardinality(Unanswered) : \E c \in Unanswered : place[c] = i
  /\ IF Unanswered = {} THEN tail \in Settled
     ELSE tail \in Unanswered /\ place[tail] = Cardinality(Unanswered)
  /\ \A c \in Waiting :
       IF place[c] = 1 THEN call[c].after \in Settled
       ELSE call[c].after \in Unanswered /\ place[call[c].after] = place[c] - 1
  /\ \A c \in Reading : place[c] = 1

\* The time left: the first of the line has until its deadline, or a whole one if it
\* is about to start, and each one behind it a whole one.
InTime(place) ==
  /\ \A c \in Reading :
       /\ call[c].by \in Nat /\ clock <= call[c].by /\ call[c].by <= clock + Bound
       /\ call[c].by <= Limit(c)
  /\ \A c \in Waiting :
       /\ \A d \in Reading : call[d].by + Span(place[c] - 1) <= Limit(c)
       /\ Reading = {} => clock + Span(place[c]) <= Limit(c)

ChainTyped ==
  /\ clock \in Nat
  /\ call = [c \in Calls |-> call[c]]
  /\ \A c \in Unanswered : call[c].at \in Nat /\ call[c].ahead \in Nat
  /\ IsFiniteSet(Unanswered)

ChainInv == ChainTyped /\ \E place \in [Calls -> Int] : Lined(place) /\ InTime(place)

LEMMA Spans ==
  /\ \A k \in Nat : Span(k) \in Nat /\ Span(k + 1) = Span(k) + Bound
  /\ \A k \in Nat \ {0} : Span(k) = Span(k - 1) + Bound
<1>1. Bound \in Nat
  BY ChainAssumption
<1>2. ASSUME NEW k \in Nat PROVE Span(k) \in Nat /\ Span(k + 1) = Span(k) + Bound
  BY <1>1 DEF Span
<1>3. ASSUME NEW k \in Nat \ {0} PROVE Span(k) = Span(k - 1) + Bound
  <2>1. k - 1 \in Nat /\ (k - 1) + 1 = k
    OBVIOUS
  <2> QED BY <2>1, <1>2
<1> QED BY <1>2, <1>3

\* Who is answered is neither waiting nor being read, and the stages are disjoint.
LEMMA StagesOfCalls ==
  /\ Unanswered = Waiting \cup Reading
  /\ Waiting \cap Reading = {}
  /\ Unanswered \cap Settled = {}
BY ChainAssumption DEF Unanswered, Waiting, Reading, Settled

LEMMA ChainStarts == ChainInit => ChainInv
<1> SUFFICES ASSUME ChainInit PROVE ChainInv
  OBVIOUS
<1>1. \A c \in Calls : call[c].stage = "none"
  BY DEF ChainInit, NotMade
<1>2. Unanswered = {} /\ Waiting = {} /\ Reading = {}
  BY <1>1 DEF Unanswered, Waiting, Reading
<1>3. Cardinality({}) = 0 /\ IsFiniteSet({})
  BY FS_EmptySet
<1>4. ChainTyped
  BY <1>2, <1>3 DEF ChainTyped, ChainInit
<1> DEFINE place == [c \in Calls |-> 0]
<1>5. place \in [Calls -> Int]
  OBVIOUS
<1>6. tail \in Settled
  BY DEF ChainInit, Settled
<1>7. Lined(place)
  BY <1>2, <1>3, <1>6 DEF Lined
<1>8. InTime(place)
  BY <1>2 DEF InTime
<1> QED BY <1>4, <1>5, <1>7, <1>8 DEF ChainInv

\* A call joins the line behind the last one.
LEMMA ChainGrows ==
  ASSUME ChainInv, NEW c \in Calls, Identify(c)
  PROVE  ChainInv'
<1>1. PICK place \in [Calls -> Int] : Lined(place) /\ InTime(place)
  BY DEF ChainInv
<1>0. PICK n : n = Cardinality(Unanswered)
  OBVIOUS
<1>2. /\ call'[c] = [stage |-> "waiting", after |-> tail, at |-> clock, ahead |-> n]
      /\ \A d \in Calls \ {c} : call'[d] = call[d]
      /\ call' = [d \in Calls |-> call'[d]]
      /\ tail' = c /\ clock' = clock
  BY <1>0 DEF Identify, ChainInv, ChainTyped
<1>3. call[c].stage = "none"
  BY DEF Identify, NotMade
<1>4. /\ c \notin Unanswered /\ Unanswered' = Unanswered \cup {c}
      /\ Waiting' = Waiting \cup {c} /\ Reading' = Reading /\ c \notin Reading /\ c \notin Waiting
  <2>1. c \notin Unanswered /\ c \notin Waiting /\ c \notin Reading
    BY <1>3 DEF Unanswered, Waiting, Reading
  <2>2. call'[c].stage = "waiting"
    BY <1>2
  <2>3. Unanswered' = Unanswered \cup {c}
    BY <1>2, <2>1, <2>2 DEF Unanswered
  <2>4. Waiting' = Waiting \cup {c}
    BY <1>2, <2>1, <2>2 DEF Waiting
  <2>5. Reading' = Reading
    BY <1>2, <2>1, <2>2 DEF Reading
  <2> QED BY <2>1, <2>3, <2>4, <2>5
<1>5. Settled' = Settled
  BY <1>2, <1>3 DEF Settled
<1>6. n \in Nat /\ IsFiniteSet(Unanswered') /\ Cardinality(Unanswered') = n + 1
  BY <1>0, <1>4, FS_CardinalityType, FS_AddElement DEF ChainInv, ChainTyped
<1>7. clock \in Nat /\ Bound \in Nat
  BY ChainAssumption DEF ChainInv, ChainTyped
<1>8. ChainTyped'
  <2>1. ASSUME NEW d \in Unanswered' PROVE call'[d].at \in Nat /\ call'[d].ahead \in Nat
    <3>1. CASE d = c
      BY <3>1, <1>2, <1>6, <1>7
    <3>2. CASE d # c
      <4>1. d \in Unanswered /\ call'[d] = call[d]
        BY <3>2, <1>2, <1>4 DEF Unanswered
      <4> QED BY <4>1 DEF ChainInv, ChainTyped
    <3> QED BY <3>1, <3>2
  <2> QED BY <2>1, <1>2, <1>6, <1>7 DEF ChainTyped
<1>9. PICK next \in [Calls -> Int] :
        next[c] = n + 1 /\ \A d \in Calls \ {c} : next[d] = place[d]
  <2> DEFINE moved == [place EXCEPT ![c] = n + 1]
  <2>1. moved \in [Calls -> Int] /\ moved[c] = n + 1 /\ \A d \in Calls \ {c} : moved[d] = place[d]
    BY <1>6
  <2> QED BY <2>1
<1>10. Unanswered \subseteq Calls /\ Waiting \subseteq Calls /\ Reading \subseteq Calls
  BY DEF Unanswered, Waiting, Reading
<1>11. Unanswered = {} => n = 0
  BY <1>0, FS_EmptySet
<1>12. Lined(next)'
  <2>1. \A d \in Unanswered : place[d] \in 1 .. n /\ next[d] = place[d]
    BY <1>0, <1>1, <1>4, <1>9, <1>10 DEF Lined
  <2>2. \A d \in Unanswered' : next[d] \in 1 .. n + 1
    BY <2>1, <1>4, <1>6, <1>9
  <2>3. \A d, e \in Unanswered' : next[d] = next[e] => d = e
    <3> SUFFICES ASSUME NEW d \in Unanswered', NEW e \in Unanswered', next[d] = next[e] PROVE d = e
      OBVIOUS
    <3>1. CASE d \in Unanswered /\ e \in Unanswered
      BY <3>1, <2>1, <1>1 DEF Lined
    <3>2. CASE d = c \/ e = c
      BY <3>2, <2>1, <1>4, <1>6, <1>9
    <3> QED BY <3>1, <3>2, <1>4
  <2>4. \A i \in 1 .. n + 1 : \E d \in Unanswered' : next[d] = i
    <3> SUFFICES ASSUME NEW i \in 1 .. n + 1 PROVE \E d \in Unanswered' : next[d] = i
      OBVIOUS
    <3>1. CASE i = n + 1
      BY <3>1, <1>4, <1>9
    <3>2. CASE i \in 1 .. n
      <4>1. PICK d \in Unanswered : place[d] = i
        BY <3>2, <1>0, <1>1 DEF Lined
      <4> QED BY <4>1, <2>1, <1>4
    <3> QED BY <3>1, <3>2, <1>6
  <2>5. tail' \in Unanswered' /\ next[tail'] = n + 1 /\ Unanswered' # {}
    BY <1>2, <1>4, <1>9
  <2>6. \A d \in Reading' : next[d] = 1
    BY <1>0, <1>1, <1>4, <1>9, <1>10 DEF Lined
  <2>7. ASSUME NEW d \in Waiting'
        PROVE  IF next[d] = 1 THEN call'[d].after \in Settled'
               ELSE call'[d].after \in Unanswered' /\ next[call'[d].after] = next[d] - 1
    <3>1. CASE d = c
      <4>1. call'[d].after = tail /\ next[d] = n + 1
        BY <3>1, <1>2, <1>9
      <4>2. CASE Unanswered = {}
        BY <4>1, <4>2, <1>1, <1>5, <1>11 DEF Lined
      <4>3. CASE Unanswered # {}
        <5>1. tail \in Unanswered /\ place[tail] = n
          BY <4>3, <1>0, <1>1 DEF Lined
        <5>2. next[tail] = n /\ n \in 1 .. n
          BY <5>1, <2>1
        <5> QED BY <5>1, <5>2, <4>1, <1>4, <1>6
      <4> QED BY <4>2, <4>3
    <3>2. CASE d # c
      <4>1. d \in Waiting /\ call'[d] = call[d] /\ next[d] = place[d]
        BY <3>2, <1>2, <1>4, <1>9, <1>10
      <4>2. IF place[d] = 1 THEN call[d].after \in Settled
            ELSE call[d].after \in Unanswered /\ place[call[d].after] = place[d] - 1
        BY <4>1, <1>1 DEF Lined
      <4> QED BY <4>1, <4>2, <2>1, <1>4, <1>5
    <3> QED BY <3>1, <3>2
  <2> QED BY <2>2, <2>3, <2>4, <2>5, <2>6, <2>7, <1>6 DEF Lined
<1>13. InTime(next)'
  <2>1. \A d \in Reading' : d \in Reading /\ call'[d] = call[d]
    BY <1>2, <1>4, <1>10
  <2>2. \A d \in Calls \ {c} : Limit(d)' = Limit(d)
    BY <1>2 DEF Limit
  <2>3. Limit(c)' = clock + Span(n + 1)
    BY <1>2 DEF Limit
  <2>4. Span(n) \in Nat /\ Span(n + 1) = Span(n) + Bound
    BY <1>6, Spans
  <2>5. \A d \in Reading' : /\ call'[d].by \in Nat /\ clock' <= call'[d].by
                            /\ call'[d].by <= clock' + Bound /\ call'[d].by <= Limit(d)'
    BY <2>1, <2>2, <1>1, <1>2, <1>4, <1>10 DEF InTime
  <2>6. ASSUME NEW d \in Waiting'
        PROVE  /\ \A e \in Reading' : call'[e].by + Span(next[d] - 1) <= Limit(d)'
               /\ Reading' = {} => clock' + Span(next[d]) <= Limit(d)'
    <3>1. CASE d = c
      <4>1. next[d] = n + 1 /\ (n + 1) - 1 = n
        BY <3>1, <1>6, <1>9
      <4>2. clock + Span(next[d]) <= Limit(d)'
        BY <3>1, <4>1, <2>3, <2>4, <1>7
      <4>3. ASSUME NEW e \in Reading' PROVE call'[e].by + Span(next[d] - 1) <= Limit(d)'
        <5>1. call'[e].by \in Nat /\ call'[e].by <= clock + Bound
          BY <2>5, <1>2
        <5> QED BY <5>1, <3>1, <4>1, <2>3, <2>4, <1>7
      <4> QED BY <4>2, <4>3, <1>2
    <3>2. CASE d # c
      <4>1. d \in Waiting /\ next[d] = place[d] /\ Limit(d)' = Limit(d)
        BY <3>2, <2>2, <1>4, <1>9, <1>10
      <4>2. /\ \A e \in Reading : call[e].by + Span(place[d] - 1) <= Limit(d)
            /\ Reading = {} => clock + Span(place[d]) <= Limit(d)
        BY <4>1, <1>1 DEF InTime
      <4> QED BY <4>1, <4>2, <2>1, <1>2, <1>4
    <3> QED BY <3>1, <3>2
  <2> QED BY <2>5, <2>6 DEF InTime
<1> QED BY <1>8, <1>9, <1>12, <1>13 DEF ChainInv

\* The first of the line starts, and has its whole time.
LEMMA ChainReads ==
  ASSUME ChainInv, NEW c \in Calls, Read(c)
  PROVE  ChainInv'
<1>1. PICK place \in [Calls -> Int] : Lined(place) /\ InTime(place)
  BY DEF ChainInv
<1>2. call[c].stage = "waiting" /\ call[c].after \in Settled
  BY DEF Read, Startable
<1>3. /\ call'[c] = [stage |-> "reading", at |-> call[c].at, ahead |-> call[c].ahead,
                     by |-> clock + Bound]
      /\ \A d \in Calls \ {c} : call'[d] = call[d]
      /\ call' = [d \in Calls |-> call'[d]]
      /\ tail' = tail /\ clock' = clock
  BY DEF Read, ChainInv, ChainTyped
<1>4. c \in Waiting /\ c \in Unanswered /\ c \notin Reading
  BY <1>2 DEF Waiting, Reading, Unanswered
<1>5. call'[c].stage = "reading" /\ call'[c].at = call[c].at /\ call'[c].ahead = call[c].ahead
      /\ call'[c].by = clock + Bound
  BY <1>3
<1>6. /\ Unanswered' = Unanswered
      /\ Waiting' = Waiting \ {c} /\ Reading' = Reading \cup {c}
      /\ Settled' = Settled
  <2>1. Unanswered' = Unanswered
    BY <1>2, <1>3, <1>5 DEF Unanswered
  <2>2. Waiting' = Waiting \ {c}
    BY <1>2, <1>3, <1>5 DEF Waiting
  <2>3. Reading' = Reading \cup {c}
    BY <1>2, <1>3, <1>5 DEF Reading
  <2>4. Settled' = Settled
    BY <1>2, <1>3, <1>5 DEF Settled
  <2> QED BY <2>1, <2>2, <2>3, <2>4
<1>7. clock \in Nat /\ Bound \in Nat
  BY ChainAssumption DEF ChainInv, ChainTyped
<1>8. place[c] = 1
  BY <1>1, <1>2, <1>4, StagesOfCalls DEF Lined
<1>9. Reading = {}
  BY <1>1, <1>4, <1>8, StagesOfCalls DEF Lined
<1>10. \A d \in Calls : Limit(d)' = Limit(d)
  BY <1>3, <1>5 DEF Limit
<1>11. Span(1) = Bound + Span(0) /\ Span(0) = 0
  BY <1>7 DEF Span
<1>12. ChainTyped'
  <2>1. \A d \in Unanswered : call[d].at \in Nat /\ call[d].ahead \in Nat
    BY DEF ChainInv, ChainTyped
  <2>2. ASSUME NEW d \in Unanswered' PROVE call'[d].at \in Nat /\ call'[d].ahead \in Nat
    <3>1. d \in Unanswered /\ d \in Calls
      BY <1>6 DEF Unanswered
    <3>2. call'[d].at = call[d].at /\ call'[d].ahead = call[d].ahead
      BY <3>1, <1>3, <1>5
    <3> QED BY <3>1, <3>2, <2>1
  <2>3. IsFiniteSet(Unanswered')
    BY <1>6 DEF ChainInv, ChainTyped
  <2> QED BY <2>2, <2>3, <1>3, <1>7 DEF ChainTyped
<1>13. Waiting \subseteq Calls
  BY DEF Waiting
<1>14. Lined(place)'
  <2>1. \A d \in Waiting' : d \in Waiting /\ call'[d] = call[d]
    BY <1>3, <1>6, <1>13
  <2>2. \A d \in Reading' : place[d] = 1
    BY <1>6, <1>8, <1>9
  <2> QED BY <2>1, <2>2, <1>1, <1>3, <1>6 DEF Lined
<1>15. InTime(place)'
  <2>1. /\ call'[c].by \in Nat /\ clock' <= call'[c].by /\ call'[c].by <= clock' + Bound
    BY <1>3, <1>5, <1>7
  <2>2. call'[c].by <= Limit(c)'
    <3>1. clock + Span(1) <= Limit(c)
      BY <1>1, <1>4, <1>8, <1>9 DEF InTime
    <3> QED BY <3>1, <1>5, <1>7, <1>10, <1>11
  <2>3. ASSUME NEW d \in Waiting' PROVE call'[c].by + Span(place[d] - 1) <= Limit(d)'
    <3>1. d \in Waiting /\ d \in Unanswered /\ d \in Calls
      BY <1>6, <1>13, StagesOfCalls
    <3>2. clock + Span(place[d]) <= Limit(d)
      BY <3>1, <1>1, <1>9 DEF InTime
    <3>3. place[d] \in Nat \ {0}
      BY <3>1, <1>1 DEF Lined
    <3>4. Span(place[d]) = Span(place[d] - 1) + Bound /\ place[d] - 1 \in Nat
      BY <3>3, Spans
    <3>5. Span(place[d] - 1) \in Nat
      BY <3>4, Spans
    <3> QED BY <3>1, <3>2, <3>4, <3>5, <1>5, <1>7, <1>10
  <2> QED BY <2>1, <2>2, <2>3, <1>6, <1>9 DEF InTime
<1> QED BY <1>12, <1>14, <1>15 DEF ChainInv

\* The first of the line is answered, and the others move up.
LEMMA ChainMovesUp ==
  ASSUME ChainInv, NEW c \in Calls, Answer(c) \/ TimeOut(c)
  PROVE  ChainInv'
<1> DEFINE n == Cardinality(Unanswered)
<1>1. PICK place \in [Calls -> Int] : Lined(place) /\ InTime(place)
  BY DEF ChainInv
<1> DEFINE next == [d \in Calls |-> place[d] - 1]
<1>2. call[c].stage = "reading"
  BY DEF Answer, TimeOut
<1>3. /\ call'[c].stage \in {"read", "abandoned"}
      /\ \A d \in Calls \ {c} : call'[d] = call[d]
      /\ call' = [d \in Calls |-> call'[d]]
      /\ tail' = tail /\ clock' = clock
  <2>1. CASE Answer(c)
    BY <2>1 DEF Answer, ChainInv, ChainTyped
  <2>2. CASE TimeOut(c)
    BY <2>2 DEF TimeOut, ChainInv, ChainTyped
  <2> QED BY <2>1, <2>2
<1>4. c \in Reading /\ c \in Unanswered /\ c \notin Waiting /\ c \notin Settled
  BY <1>2, StagesOfCalls DEF Waiting, Reading, Unanswered
<1>5. place[c] = 1
  BY <1>1, <1>4 DEF Lined
<1>6. Reading = {c}
  BY <1>1, <1>4, <1>5, StagesOfCalls DEF Lined
<1>7. /\ Unanswered' = Unanswered \ {c}
      /\ Waiting' = Waiting /\ Reading' = {}
      /\ Settled' = Settled \cup {c}
  <2>1. Unanswered' = Unanswered \ {c}
    BY <1>3, <1>2 DEF Unanswered
  <2>2. Waiting' = Waiting
    BY <1>2, <1>3 DEF Waiting
  <2>3. Reading' = {}
    BY <1>3, <1>6 DEF Reading
  <2>4. Settled' = Settled \cup {c}
    BY <1>2, <1>3 DEF Settled
  <2> QED BY <2>1, <2>2, <2>3, <2>4
<1>8. clock \in Nat /\ Bound \in Nat
  BY ChainAssumption DEF ChainInv, ChainTyped
<1>9. n \in Nat \ {0} /\ IsFiniteSet(Unanswered') /\ Cardinality(Unanswered') = n - 1
  <2>1. IsFiniteSet(Unanswered)
    BY DEF ChainInv, ChainTyped
  <2>2. n \in Nat
    BY <2>1, FS_CardinalityType
  <2>3. n # 0
    BY <2>1, <1>4, FS_EmptySet
  <2>4. IsFiniteSet(Unanswered \ {c}) /\ Cardinality(Unanswered \ {c}) = n - 1
    BY <2>1, <1>4, FS_RemoveElement
  <2> QED BY <2>2, <2>3, <2>4, <1>7
<1>10. Unanswered \subseteq Calls /\ Waiting \subseteq Unanswered /\ c \notin Waiting
  BY <1>4, StagesOfCalls DEF Unanswered
<1>11. ChainTyped'
  BY <1>3, <1>7, <1>8, <1>9, <1>10 DEF ChainInv, ChainTyped
<1>12. next \in [Calls -> Int] /\ \A d \in Calls : next[d] = place[d] - 1
  OBVIOUS
<1>13. \A d \in Unanswered : place[d] \in 1 .. n
  BY <1>1 DEF Lined
<1>14. \A d \in Unanswered \ {c} : place[d] # 1
  BY <1>1, <1>4, <1>5 DEF Lined
<1> HIDE DEF n, next
<1>15. \A d \in Unanswered' : next[d] \in 1 .. n - 1
  BY <1>7, <1>9, <1>10, <1>12, <1>13, <1>14
<1>16. Lined(next)'
  <2>1. \A d, e \in Unanswered' : next[d] = next[e] => d = e
    <3> SUFFICES ASSUME NEW d \in Unanswered', NEW e \in Unanswered', next[d] = next[e] PROVE d = e
      OBVIOUS
    <3>1. d \in Unanswered /\ e \in Unanswered /\ place[d] \in Int /\ place[e] \in Int
      BY <1>7, <1>10
    <3>2. place[d] = place[e]
      BY <3>1, <1>10, <1>12
    <3> QED BY <3>1, <3>2, <1>1 DEF Lined
  <2>2. \A i \in 1 .. n - 1 : \E d \in Unanswered' : next[d] = i
    <3> SUFFICES ASSUME NEW i \in 1 .. n - 1 PROVE \E d \in Unanswered' : next[d] = i
      OBVIOUS
    <3>1. i + 1 \in 1 .. n /\ i + 1 # 1 /\ (i + 1) - 1 = i
      BY <1>9
    <3>2. PICK d \in Unanswered : place[d] = i + 1
      BY <3>1, <1>1 DEF Lined, n
    <3>3. d # c
      BY <3>1, <3>2, <1>5
    <3> QED BY <3>1, <3>2, <3>3, <1>7, <1>10, <1>12
  <2>3. IF Unanswered' = {} THEN tail' \in Settled'
        ELSE tail' \in Unanswered' /\ next[tail'] = n - 1
    <3>1. tail \in Unanswered /\ place[tail] = n
      BY <1>1, <1>4 DEF Lined, n
    <3>2. CASE tail = c
      <4>1. n = 1
        BY <3>1, <3>2, <1>5
      <4>2. Unanswered' = {}
        BY <4>1, <1>15
      <4> QED BY <4>2, <3>2, <1>3, <1>7
    <3>3. CASE tail # c
      BY <3>1, <3>3, <1>3, <1>7, <1>10, <1>12
    <3> QED BY <3>2, <3>3
  <2>4. ASSUME NEW d \in Waiting'
        PROVE  IF next[d] = 1 THEN call'[d].after \in Settled'
               ELSE call'[d].after \in Unanswered' /\ next[call'[d].after] = next[d] - 1
    <3>1. d \in Waiting /\ d \in Unanswered \ {c} /\ d \in Calls /\ call'[d] = call[d]
      BY <1>3, <1>7, <1>10
    <3>2. place[d] \in 1 .. n /\ place[d] # 1 /\ next[d] = place[d] - 1
      BY <3>1, <1>12, <1>13, <1>14
    <3>3. call[d].after \in Unanswered /\ place[call[d].after] = place[d] - 1
      BY <3>1, <3>2, <1>1 DEF Lined
    <3>4. CASE next[d] = 1
      <4>1. call[d].after = c
        BY <3>2, <3>3, <3>4, <1>14
      <4> QED BY <4>1, <3>1, <3>4, <1>7
    <3>5. CASE next[d] # 1
      <4>1. call[d].after # c
        BY <3>2, <3>3, <3>5, <1>5
      <4>2. next[call[d].after] = place[call[d].after] - 1
        BY <3>3, <1>10, <1>12
      <4> QED BY <4>1, <4>2, <3>1, <3>2, <3>3, <3>5, <1>7
    <3> QED BY <3>4, <3>5
  <2>5. \A d \in Reading' : next[d] = 1
    BY <1>7
  <2> QED BY <1>9, <1>15, <2>1, <2>2, <2>3, <2>4, <2>5 DEF Lined
<1>17. InTime(next)'
  <2>1. ASSUME NEW d \in Waiting' PROVE clock' + Span(next[d]) <= Limit(d)'
    <3>1. d \in Waiting /\ d \in Unanswered \ {c} /\ d \in Calls /\ call'[d] = call[d]
      BY <1>3, <1>7, <1>10
    <3>2. Limit(d)' = Limit(d)
      BY <3>1 DEF Limit
    <3>3. place[d] - 1 \in Nat /\ next[d] = place[d] - 1
      BY <3>1, <1>12, <1>13
    <3>4. call[c].by + Span(place[d] - 1) <= Limit(d)
      BY <3>1, <1>1, <1>4 DEF InTime
    <3>5. clock <= call[c].by /\ call[c].by \in Nat
      BY <1>1, <1>4 DEF InTime
    <3>6. Span(place[d] - 1) \in Nat
      BY <3>3, Spans
    <3>7. Limit(d) \in Nat
      <4>1. call[d].at \in Nat /\ call[d].ahead + 1 \in Nat
        BY <3>1 DEF ChainInv, ChainTyped
      <4> QED BY <4>1, Spans DEF Limit
    <3> QED BY <3>2, <3>3, <3>4, <3>5, <3>6, <3>7, <1>3, <1>8
  <2> QED BY <2>1, <1>7 DEF InTime
<1> QED BY <1>11, <1>12, <1>16, <1>17 DEF ChainInv

\* An abandoned reading that ends changes nothing for the line.
LEMMA ChainForgets ==
  ASSUME ChainInv, NEW c \in Calls, EndUnheard(c)
  PROVE  ChainInv'
<1>1. PICK place \in [Calls -> Int] : Lined(place) /\ InTime(place)
  BY DEF ChainInv
<1>2. /\ call[c].stage = "abandoned" /\ call'[c].stage = "ended"
      /\ \A d \in Calls \ {c} : call'[d] = call[d]
      /\ call' = [d \in Calls |-> call'[d]]
      /\ tail' = tail /\ clock' = clock
  BY DEF EndUnheard, ChainInv, ChainTyped
<1>3. Unanswered' = Unanswered /\ c \notin Unanswered
  BY <1>2 DEF Unanswered
<1>4. Waiting' = Waiting /\ Reading' = Reading
  <2>1. Waiting' = Waiting
    BY <1>2 DEF Waiting
  <2>2. Reading' = Reading
    BY <1>2 DEF Reading
  <2> QED BY <2>1, <2>2
<1>5. Settled' = Settled
  BY <1>2 DEF Settled
<1>6. \A d \in Unanswered : call'[d] = call[d] /\ Limit(d)' = Limit(d)
  <2>1. \A d \in Unanswered : d \in Calls \ {c}
    BY <1>3 DEF Unanswered
  <2> QED BY <2>1, <1>2 DEF Limit
<1>7. Waiting \subseteq Unanswered /\ Reading \subseteq Unanswered
  BY StagesOfCalls
<1>8. ChainTyped'
  BY <1>2, <1>3, <1>6 DEF ChainInv, ChainTyped
<1>9. Lined(place)'
  BY <1>1, <1>2, <1>3, <1>4, <1>5, <1>6, <1>7 DEF Lined
<1>10. InTime(place)'
  BY <1>1, <1>2, <1>4, <1>6, <1>7 DEF InTime
<1> QED BY <1>1, <1>8, <1>9, <1>10 DEF ChainInv

\* The clock stands while the first of the line may start, and at its deadline.
LEMMA ChainAges ==
  ASSUME ChainInv, TimePasses
  PROVE  ChainInv'
<1>1. PICK place \in [Calls -> Int] : Lined(place) /\ InTime(place)
  BY DEF ChainInv
<1>2. /\ clock' = clock + 1 /\ tail' = tail /\ call' = call
      /\ \A c \in Calls : ~Startable(c) /\ (call[c].stage = "reading" => clock < call[c].by)
  BY DEF TimePasses
<1>3. clock \in Nat /\ Bound \in Nat
  BY ChainAssumption DEF ChainInv, ChainTyped
<1>4. Unanswered' = Unanswered /\ Waiting' = Waiting /\ Reading' = Reading /\ Settled' = Settled
  BY <1>2 DEF Unanswered, Waiting, Reading, Settled
<1>5. \A c \in Calls : Limit(c)' = Limit(c)
  BY <1>2 DEF Limit
<1>6. ChainTyped'
  BY <1>2, <1>3, <1>4 DEF ChainInv, ChainTyped
<1>7. Lined(place)'
  BY <1>1, <1>2, <1>4 DEF Lined
<1>8. Waiting # {} => Reading # {}
  <2> SUFFICES ASSUME Waiting # {}, Reading = {} PROVE FALSE
    OBVIOUS
  <2>1. Unanswered # {} /\ Unanswered = Waiting
    BY StagesOfCalls
  <2>2. Cardinality(Unanswered) \in Nat /\ Cardinality(Unanswered) # 0
    BY <2>1, FS_CardinalityType, FS_EmptySet DEF ChainInv, ChainTyped
  <2>3. 1 \in 1 .. Cardinality(Unanswered)
    BY <2>2
  <2>4. PICK c \in Unanswered : place[c] = 1
    BY <2>3, <1>1 DEF Lined
  <2>5. c \in Waiting /\ call[c].after \in Settled
    BY <2>1, <2>4, <1>1 DEF Lined
  <2>6. c \in Calls /\ Startable(c)
    BY <2>5 DEF Waiting, Startable
  <2> QED BY <2>6, <1>2
<1>9. InTime(place)'
  <2>1. ASSUME NEW c \in Reading'
        PROVE  /\ call'[c].by \in Nat /\ clock' <= call'[c].by /\ call'[c].by <= clock' + Bound
               /\ call'[c].by <= Limit(c)'
    <3>1. c \in Reading /\ c \in Calls /\ call[c].stage = "reading"
      BY <1>4 DEF Reading
    <3>2. /\ call[c].by \in Nat /\ clock < call[c].by /\ call[c].by <= clock + Bound
          /\ call[c].by <= Limit(c)
      BY <3>1, <1>1, <1>2 DEF InTime
    <3> QED BY <3>1, <3>2, <1>2, <1>3, <1>5
  <2>2. ASSUME NEW c \in Waiting'
        PROVE  \A d \in Reading' : call'[d].by + Span(place[c] - 1) <= Limit(c)'
    <3>1. c \in Waiting /\ c \in Calls
      BY <1>4 DEF Waiting
    <3> QED BY <3>1, <1>1, <1>2, <1>4, <1>5 DEF InTime
  <2> QED BY <2>1, <2>2, <1>4, <1>8 DEF InTime
<1> QED BY <1>1, <1>6, <1>7, <1>9 DEF ChainInv

LEMMA ChainStays == ChainInv /\ UNCHANGED chainVars => ChainInv'
<1> SUFFICES ASSUME ChainInv, UNCHANGED chainVars PROVE ChainInv'
  OBVIOUS
<1>1. clock' = clock /\ tail' = tail /\ call' = call
  BY DEF chainVars
<1>2. /\ Unanswered' = Unanswered /\ Waiting' = Waiting /\ Reading' = Reading
      /\ Settled' = Settled
  BY <1>1 DEF Unanswered, Waiting, Reading, Settled
<1>3. PICK place \in [Calls -> Int] : Lined(place) /\ InTime(place)
  BY DEF ChainInv
<1>4. Lined(place)'
  BY <1>1, <1>2, <1>3 DEF Lined
<1>5. \A c : Limit(c)' = Limit(c)
  BY <1>1 DEF Limit
<1>6. InTime(place)'
  BY <1>1, <1>2, <1>3, <1>5 DEF InTime
<1>7. ChainTyped'
  BY <1>1, <1>2 DEF ChainInv, ChainTyped
<1> QED BY <1>3, <1>4, <1>6, <1>7 DEF ChainInv

LEMMA ChainAlways == ChainSpec => []ChainInv
<1>1. ChainInv /\ [ChainNext]_chainVars => ChainInv'
  <2> SUFFICES ASSUME ChainInv, [ChainNext]_chainVars PROVE ChainInv'
    OBVIOUS
  <2>1. ASSUME NEW c \in Calls, Identify(c) PROVE ChainInv'
    BY <2>1, ChainGrows
  <2>2. ASSUME NEW c \in Calls, Read(c) PROVE ChainInv'
    BY <2>2, ChainReads
  <2>3. ASSUME NEW c \in Calls, Answer(c) \/ TimeOut(c) PROVE ChainInv'
    BY <2>3, ChainMovesUp
  <2>4. ASSUME NEW c \in Calls, EndUnheard(c) PROVE ChainInv'
    BY <2>4, ChainForgets
  <2>5. CASE TimePasses
    BY <2>5, ChainAges
  <2>6. CASE UNCHANGED chainVars
    BY <2>6, ChainStays
  <2> QED BY <2>1, <2>2, <2>3, <2>4, <2>5, <2>6 DEF ChainNext
<1> QED BY <1>1, ChainStarts, PTL DEF ChainSpec

LEMMA ChainMeans == ChainInv => InTurn
<1> SUFFICES ASSUME ChainInv PROVE InTurn
  OBVIOUS
<1>1. PICK place \in [Calls -> Int] : Lined(place) /\ InTime(place)
  BY DEF ChainInv
<1>2. ASSUME NEW c \in Calls, NEW d \in Calls, call[c].stage = "reading", call[d].stage = "reading"
      PROVE  c = d
  <2>1. c \in Reading /\ d \in Reading
    BY <1>2 DEF Reading
  <2> QED BY <2>1, <1>1, StagesOfCalls DEF Lined
<1>3. ASSUME NEW c \in Calls, call[c].stage \in {"waiting", "reading"}
      PROVE  clock - call[c].at <= (call[c].ahead + 1) * Bound
  <2>1. c \in Unanswered /\ (c \in Waiting \/ c \in Reading)
    BY <1>3 DEF Unanswered, Waiting, Reading
  <2>2. clock \in Nat /\ call[c].at \in Nat /\ call[c].ahead + 1 \in Nat
    <3>1. call[c].at \in Nat /\ call[c].ahead \in Nat
      BY <2>1 DEF ChainInv, ChainTyped
    <3>2. clock \in Nat
      BY DEF ChainInv, ChainTyped
    <3> QED BY <3>1, <3>2
  <2>3. Span(call[c].ahead + 1) \in Nat
    BY <2>2, Spans
  <2>4. clock <= Limit(c)
    <3>1. CASE c \in Reading
      <4>1. call[c].by \in Nat /\ clock <= call[c].by /\ call[c].by <= Limit(c)
        BY <3>1, <1>1 DEF InTime
      <4> QED BY <4>1, <2>2, <2>3 DEF Limit
    <3>2. CASE c \in Waiting
      <4>1. place[c] \in Nat \ {0}
        BY <2>1, <1>1 DEF Lined
      <4>2. Span(place[c]) \in Nat /\ Span(place[c] - 1) \in Nat
        <5>1. place[c] - 1 \in Nat
          BY <4>1
        <5> QED BY <4>1, <5>1, Spans
      <4>3. CASE Reading = {}
        <5>1. clock + Span(place[c]) <= Limit(c)
          BY <4>3, <3>2, <1>1 DEF InTime
        <5> QED BY <5>1, <4>2, <2>2, <2>3 DEF Limit
      <4>4. CASE Reading # {}
        <5>1. PICK d \in Reading : TRUE
          BY <4>4
        <5>2. call[d].by + Span(place[c] - 1) <= Limit(c)
          BY <3>2, <1>1 DEF InTime
        <5>3. call[d].by \in Nat /\ clock <= call[d].by
          BY <1>1 DEF InTime
        <5> QED BY <5>2, <5>3, <4>2, <2>2, <2>3 DEF Limit
      <4> QED BY <4>3, <4>4
    <3> QED BY <3>1, <3>2, <2>1
  <2>5. clock - call[c].at <= Span(call[c].ahead + 1)
    BY <2>2, <2>3, <2>4 DEF Limit
  <2> QED BY <2>5 DEF Span
<1> QED BY <1>2, <1>3 DEF InTurn

\* One reading at a time, abandoned ones apart, and each call is answered once every
\* call ahead of it has had its deadline and it its own: identify's chain and
\* withDeadline, for any number of calls and any deadline.
THEOREM AnsweredInTurn == ChainSpec => []InTurn
<1> QED BY ChainAlways, ChainMeans, PTL
=============================================================================
