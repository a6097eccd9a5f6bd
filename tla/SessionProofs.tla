---------------------------- MODULE SessionProofs ----------------------------
(***************************************************************************)
(* A refresh token is exchanged once, and a reset ends all sessions, for   *)
(* any browsers, tabs and number of visits.  The invariant says what a     *)
(* request between its claim and its insert stands on: the token it        *)
(* claimed is revoked and nobody else's, and unless it was crossed it is   *)
(* of the current epoch.  A browser's own tabs do not end its session: the *)
(* second invariant says in whose hands a token can be.                    *)
(***************************************************************************)
EXTENDS Sessions, TLAPS

(* Whose tokens were issued for what. *)
Descent ==
  \A k \in DOMAIN tokens :
     tokens[k].parent # 0 =>
       /\ tokens[k].parent \in DOMAIN tokens
       /\ tokens[tokens[k].parent].revoked
       /\ \A m \in DOMAIN tokens : tokens[m].parent = tokens[k].parent => m = k

(* The token of a request that is about to insert its successor. *)
Claimed(t) ==
  /\ tab[t].token \in DOMAIN tokens
  /\ tokens[tab[t].token].revoked
  /\ \A m \in DOMAIN tokens : tokens[m].parent # tab[t].token
  /\ \A u \in Tabs :
       tab[u].at = "issue" /\ tab[u].token = tab[t].token => u = t

RequestSound(t) ==
  /\ tab[t].at \in {"claim", "answer"} => tab[t].token \in DOMAIN tokens
  /\ tab[t].at = "issue" /\ tab[t].token # 0 => Claimed(t)
  /\ tab[t].at = "issue" => tab[t].crossed \/ tab[t].epoch = epoch

RequestsSound == \A t \in Tabs : RequestSound(t)

SessionIInv == SessionsTypeOK /\ Descent /\ RequestsSound /\ RevokedTogether

-----------------------------------------------------------------------------

LEMMA SessionParts ==
  ASSUME SessionsTypeOK
  PROVE  /\ DOMAIN tokens = 1..Len(tokens) /\ Len(tokens) \in Nat
         /\ \A k \in DOMAIN tokens :
              tokens[k] \in TokenRow /\ tokens[k].parent \in Nat
         /\ \A t \in Tabs : tab[t] \in RequestRow /\ tab[t].token \in Nat
         /\ \A t \in Tabs : Cookie(t) \in 0..Len(tokens)
         /\ tab \in [Tabs -> RequestRow] /\ epoch \in Nat
<1>1. tokens \in Seq(TokenRow) /\ tab \in [Tabs -> RequestRow] /\ epoch \in Nat
      /\ cookie \in [Browsers -> 0..Len(tokens)]
  BY DEF SessionsTypeOK
<1>2. DOMAIN tokens = 1..Len(tokens) /\ Len(tokens) \in Nat
      /\ \A k \in DOMAIN tokens : tokens[k] \in TokenRow
  BY <1>1
<1>3. \A k \in TokenRow : k.parent \in Nat
  BY DEF TokenRow
<1>4. \A r \in RequestRow : r.token \in Nat
  BY DEF RequestRow
<1>5. \A t \in Tabs : Cookie(t) \in 0..Len(tokens)
  BY <1>1, BrowserOfAssumption DEF Cookie
<1> QED
  BY <1>1, <1>2, <1>3, <1>4, <1>5

(* Init *)
LEMMA SessionsInitIInv == SessionsInit => SessionIInv
<1> SUFFICES ASSUME SessionsInit PROVE SessionIInv
  OBVIOUS
<1>1. NoRequest \in RequestRow /\ NoRequest.at = "idle"
  BY DEF NoRequest, RequestRow, RequestStates
<1>2. SessionsTypeOK
  <2>1. tokens \in Seq(TokenRow) /\ links \in Seq(LinkRow) /\ Len(tokens) = 0
    BY DEF SessionsInit
  <2>2. tab \in [Tabs -> RequestRow]
    BY <1>1 DEF SessionsInit
  <2>3. cookie \in [Browsers -> 0..Len(tokens)]
    BY <2>1 DEF SessionsInit
  <2>4. visits \in Nat
    BY VisitsAssumption DEF SessionsInit
  <2> QED
    BY <2>1, <2>2, <2>3, <2>4 DEF SessionsInit, SessionsTypeOK
<1>3. Descent /\ RevokedTogether
  BY DEF SessionsInit, Descent, RevokedTogether
<1>4. RequestsSound
  BY <1>1 DEF SessionsInit, RequestsSound, RequestSound
<1> QED
  BY <1>2, <1>3, <1>4 DEF SessionIInv

-----------------------------------------------------------------------------
(* How the actions change tokens and requests: five ways.                  *)

(* Nothing changes but one tab's request, which is not about to insert. *)
LEMMA TurnKeeps ==
  ASSUME SessionIInv, NEW t \in Tabs, NEW r,
         tokens' = tokens, epoch' = epoch,
         tab' = [tab EXCEPT ![t] = r], r.at # "issue",
         r.at \in {"claim", "answer"} => r.token \in DOMAIN tokens
  PROVE  (Descent /\ RequestsSound /\ RevokedTogether)'
<1>1. \A u \in Tabs : tab'[u] = IF u = t THEN r ELSE tab[u]
  BY SessionParts DEF SessionIInv
<1>2. (Descent /\ RevokedTogether)'
  BY DEF SessionIInv, Descent, RevokedTogether
<1>3. RequestsSound'
  BY <1>1 DEF SessionIInv, RequestsSound, RequestSound, Claimed
<1> QED
  BY <1>2, <1>3

(* Tokens are revoked, age or expire. *)
LEMMA AgeKeeps ==
  ASSUME SessionIInv, epoch' = epoch,
         DOMAIN tokens' = DOMAIN tokens,
         \A k \in DOMAIN tokens :
            /\ tokens'[k].parent = tokens[k].parent
            /\ tokens'[k].epoch = tokens[k].epoch
            /\ tokens'[k].crossed = tokens[k].crossed
            /\ tokens[k].revoked => tokens'[k].revoked,
         \A u \in Tabs : tab'[u] = tab[u] \/ tab'[u].at \in {"idle", "clear"}
  PROVE  (Descent /\ RequestsSound /\ RevokedTogether)'
<1>1. Descent'
  BY DEF SessionIInv, Descent
<1>2. RevokedTogether'
  BY DEF SessionIInv, RevokedTogether
<1>3. RequestsSound'
  BY DEF SessionIInv, RequestsSound, RequestSound, Claimed
<1> QED
  BY <1>1, <1>2, <1>3

(* Every token is revoked. *)
LEMMA RevokeAllKeeps ==
  ASSUME SessionIInv, NEW t \in Tabs, NEW W, RevokeAll(t, W)
  PROVE  (Descent /\ RequestsSound /\ RevokedTogether)'
<1>1. /\ DOMAIN tokens' = DOMAIN tokens
      /\ \A k \in DOMAIN tokens : tokens'[k] = [tokens[k] EXCEPT !.revoked = TRUE]
  BY DEF RevokeAll, Revoked
<1>2. \A k \in DOMAIN tokens :
         tokens'[k].revoked /\ tokens'[k].parent = tokens[k].parent
  BY <1>1, SessionParts DEF SessionIInv, TokenRow
<1>3. \A u \in Tabs :
         \/ u = t /\ tab'[u] = NoRequest
         \/ u # t /\ tab[u].at # "issue" /\ tab'[u] = tab[u]
         \/ /\ u # t /\ tab[u].at = "issue" /\ tab'[u].at = "issue"
            /\ tab'[u].token = tab[u].token /\ tab'[u].crossed
  BY SessionParts DEF SessionIInv, RevokeAll, RequestRow
<1>4. Descent'
  BY <1>1, <1>2 DEF SessionIInv, Descent
<1>5. RevokedTogether'
  BY <1>1, <1>2 DEF RevokedTogether
<1>6. RequestsSound'
  <2> SUFFICES ASSUME NEW u \in Tabs PROVE RequestSound(u)'
    BY DEF RequestsSound
  <2>1. RequestSound(u)
    BY DEF SessionIInv, RequestsSound
  <2>2. CASE u = t
    BY <1>3, <2>2 DEF NoRequest, RequestSound
  <2>3. CASE u # t /\ tab[u].at # "issue"
    BY <1>1, <1>3, <2>1, <2>3 DEF RequestSound
  <2>4. CASE u # t /\ tab[u].at = "issue"
    <3>1. tab'[u].at = "issue" /\ tab'[u].token = tab[u].token /\ tab'[u].crossed
      BY <1>3, <2>4
    <3>2. \A v \in Tabs : tab'[v].at = "issue" =>
             tab[v].at = "issue" /\ tab'[v].token = tab[v].token
      BY <1>3 DEF NoRequest
    <3> QED
      BY <1>1, <1>2, <2>1, <2>4, <3>1, <3>2 DEF RequestSound, Claimed
  <2> QED
    BY <2>2, <2>3, <2>4
<1> QED
  BY <1>4, <1>5, <1>6

-----------------------------------------------------------------------------
(* The three steps of a login or a refresh.                                *)

LEMMA LoginKeeps ==
  ASSUME SessionIInv, NEW t \in Tabs, Login(t)
  PROVE  (Descent /\ RequestsSound /\ RevokedTogether)'
<1>1. tokens' = tokens /\ epoch' = epoch
  BY DEF Login, account
<1>2. \A u \in Tabs : IF u = t
         THEN tab'[u].at = "issue" /\ tab'[u].token = 0 /\ tab'[u].epoch = epoch
         ELSE tab'[u] = tab[u]
  BY SessionParts DEF SessionIInv, Login, Goes, NoRequest
<1>3. (Descent /\ RevokedTogether)'
  BY <1>1 DEF SessionIInv, Descent, RevokedTogether
<1>4. RequestsSound'
  <2>1. \A k \in DOMAIN tokens : k # 0
    BY SessionParts DEF SessionIInv
  <2> QED
    BY <1>1, <1>2, <2>1 DEF SessionIInv, RequestsSound, RequestSound, Claimed
<1> QED
  BY <1>3, <1>4

LEMMA ClaimKeeps ==
  ASSUME SessionIInv, NEW t \in Tabs, Claim(t)
  PROVE  (Descent /\ RequestsSound /\ RevokedTogether)'
<1> DEFINE k == tab[t].token
<1>1. k \in DOMAIN tokens /\ ~tokens[k].revoked
  BY DEF SessionIInv, RequestsSound, RequestSound, Claim
<1>2. /\ epoch' = epoch /\ DOMAIN tokens' = DOMAIN tokens
      /\ \A m \in DOMAIN tokens :
           /\ tokens'[m].parent = tokens[m].parent
           /\ tokens'[m].epoch = tokens[m].epoch
           /\ tokens'[m].crossed = tokens[m].crossed
           /\ tokens'[m].revoked = (m = k \/ tokens[m].revoked)
  BY SessionParts DEF SessionIInv, Claim, TokenRow
<1>3. \A u \in Tabs : IF u = t
         THEN /\ tab'[u].at = "issue" /\ tab'[u].token = k
              /\ tab'[u].epoch = tokens[k].epoch
              /\ tab'[u].crossed = tokens[k].crossed
         ELSE tab'[u] = tab[u]
  BY SessionParts DEF SessionIInv, Claim, Goes, RequestRow
<1>4. \A m \in DOMAIN tokens : tokens[m].parent # k
  <2>1. k # 0
    BY <1>1, SessionParts DEF SessionIInv
  <2> QED
    BY <1>1, <2>1 DEF SessionIInv, Descent
<1>5. \A u \in Tabs : tab[u].at = "issue" => tab[u].token # k
  <2>1. k # 0
    BY <1>1, SessionParts DEF SessionIInv
  <2> QED
    BY <1>1, <2>1 DEF SessionIInv, RequestsSound, RequestSound, Claimed
<1>6. tokens[k].crossed \/ tokens[k].epoch = epoch
  BY <1>1 DEF SessionIInv, RevokedTogether
<1>7. Descent'
  <2> SUFFICES ASSUME NEW j \in DOMAIN tokens, tokens'[j].parent # 0
               PROVE  /\ tokens'[j].parent \in DOMAIN tokens
                      /\ tokens'[tokens'[j].parent].revoked
                      /\ \A m \in DOMAIN tokens :
                           tokens'[m].parent = tokens'[j].parent => m = j
    BY <1>2 DEF Descent
  <2>1. /\ tokens[j].parent \in DOMAIN tokens
        /\ tokens[tokens[j].parent].revoked
        /\ \A m \in DOMAIN tokens :
             tokens[m].parent = tokens[j].parent => m = j
    BY <1>2 DEF SessionIInv, Descent
  <2> QED
    BY <1>2, <2>1
<1>8. RevokedTogether'
  BY <1>2 DEF SessionIInv, RevokedTogether
<1>9. RequestsSound'
  <2> SUFFICES ASSUME NEW u \in Tabs PROVE RequestSound(u)'
    BY DEF RequestsSound
  <2> HIDE DEF k
  <2>1. CASE u = t
    <3>1. /\ tab'[t].at = "issue" /\ tab'[t].token = k
          /\ tab'[t].crossed \/ tab'[t].epoch = epoch'
      BY <1>2, <1>3, <1>6
    <3>2. \A v \in Tabs :
             tab'[v].at = "issue" /\ tab'[v].token = k => v = t
      BY <1>3, <1>5
    <3>3. Claimed(t)'
      BY <1>1, <1>2, <1>4, <3>1, <3>2 DEF Claimed
    <3> QED
      BY <2>1, <3>1, <3>3 DEF RequestSound
  <2>2. CASE u # t
    <3>1. RequestSound(u) /\ tab'[u] = tab[u]
      BY <1>3, <2>2 DEF SessionIInv, RequestsSound
    <3>2. ASSUME tab[u].at = "issue", tab[u].token # 0 PROVE Claimed(u)'
      <4>1. Claimed(u) /\ tab[u].token # k
        BY <1>5, <3>1, <3>2 DEF RequestSound
      <4>2. \A v \in Tabs :
               tab'[v].token = tab[u].token /\ tab'[v].at = "issue" =>
                  tab[v].token = tab[u].token /\ tab[v].at = "issue"
        BY <1>3, <4>1
      <4>3. tokens'[tab[u].token].revoked
        BY <1>2, <4>1 DEF Claimed
      <4> QED
        BY <1>2, <3>1, <4>1, <4>2, <4>3 DEF Claimed
    <3> QED
      BY <1>2, <3>1, <3>2 DEF RequestSound
  <2> QED
    BY <2>1, <2>2
<1> QED
  BY <1>7, <1>8, <1>9

LEMMA IssueKeeps ==
  ASSUME SessionIInv, NEW t \in Tabs, Issue(t)
  PROVE  (Descent /\ RequestsSound /\ RevokedTogether)'
<1> DEFINE n == Len(tokens) + 1
           k == tab[t].token
<1>1. /\ DOMAIN tokens = 1..Len(tokens) /\ Len(tokens) \in Nat
      /\ DOMAIN tokens' = 1..n /\ epoch' = epoch
      /\ \A m \in 1..Len(tokens) : tokens'[m] = tokens[m]
      /\ tokens'[n].parent = k /\ ~tokens'[n].revoked
      /\ tokens'[n].epoch = tab[t].epoch /\ tokens'[n].crossed = tab[t].crossed
  BY SessionParts DEF SessionIInv, SessionsTypeOK, Issue
<1>2. \A u \in Tabs : IF u = t
         THEN tab'[u].at = "answer" /\ tab'[u].token = n
         ELSE tab'[u] = tab[u]
  BY SessionParts DEF SessionIInv, Issue, Goes, RequestRow
<1>3. k # 0 => Claimed(t)
  BY DEF SessionIInv, RequestsSound, RequestSound, Issue
<1>4. tab[t].crossed \/ tab[t].epoch = epoch
  BY DEF SessionIInv, RequestsSound, RequestSound, Issue
<1>5. k \in Nat
  BY SessionParts DEF SessionIInv
<1>6. Descent'
  <2> SUFFICES ASSUME NEW j \in 1..n, tokens'[j].parent # 0
               PROVE  /\ tokens'[j].parent \in 1..n
                      /\ tokens'[tokens'[j].parent].revoked
                      /\ \A m \in 1..n :
                           tokens'[m].parent = tokens'[j].parent => m = j
    BY <1>1 DEF Descent
  <2>1. CASE j = n
    BY <1>1, <1>3, <2>1 DEF Claimed
  <2>2. CASE j # n
    <3>1. j \in 1..Len(tokens) /\ tokens'[j] = tokens[j]
      BY <1>1, <2>2
    <3>2. /\ tokens[j].parent \in 1..Len(tokens)
          /\ tokens[tokens[j].parent].revoked
          /\ \A m \in 1..Len(tokens) :
               tokens[m].parent = tokens[j].parent => m = j
      BY <1>1, <3>1 DEF SessionIInv, Descent
    <3>3. tokens'[n].parent # tokens[j].parent
      BY <1>1, <1>3, <3>1 DEF Claimed
    <3>4. tokens'[tokens[j].parent] = tokens[tokens[j].parent]
      BY <1>1, <3>2
    <3> QED
      BY <1>1, <3>1, <3>2, <3>3, <3>4
  <2> QED
    BY <2>1, <2>2
<1>7. RevokedTogether'
  BY <1>1, <1>4 DEF SessionIInv, RevokedTogether
<1>8. RequestsSound'
  <2> SUFFICES ASSUME NEW u \in Tabs PROVE RequestSound(u)'
    BY DEF RequestsSound
  <2>1. CASE u = t
    BY <1>1, <1>2, <2>1 DEF RequestSound
  <2>2. CASE u # t
    <3>1. RequestSound(u) /\ tab'[u] = tab[u] /\ tab[u].token \in Nat
      BY <1>2, <2>2, SessionParts DEF SessionIInv, RequestsSound
    <3>2. ASSUME tab[u].at = "issue", tab[u].token # 0 PROVE Claimed(u)'
      <4>1. Claimed(u)
        BY <3>1, <3>2 DEF RequestSound
      <4>2. tab[u].token # k
        BY <2>2, <4>1 DEF Claimed, Issue
      <4> QED
        BY <1>1, <1>2, <3>1, <4>1, <4>2 DEF Claimed
    <3> QED
      BY <1>1, <3>1, <3>2 DEF RequestSound
  <2> QED
    BY <2>1, <2>2
<1> QED
  BY <1>6, <1>7, <1>8
-----------------------------------------------------------------------------
(* The shape of the state.                                                 *)

(* Tokens that are revoked, age or expire keep their shape. *)
LEMMA TokensKeepShape ==
  ASSUME SessionsTypeOK,
         tokens' \in [DOMAIN tokens -> TokenRow]
  PROVE  tokens' \in Seq(TokenRow) /\ Len(tokens') = Len(tokens)
<1>1. DOMAIN tokens = 1..Len(tokens) /\ Len(tokens) \in Nat
  BY SessionParts
<1> QED
  BY <1>1

LEMMA RevokeAllShape ==
  ASSUME SessionsTypeOK, NEW t \in Tabs, NEW W \in SUBSET Browsers,
         RevokeAll(t, W)
  PROVE  /\ tokens' \in Seq(TokenRow) /\ Len(tokens') = Len(tokens)
         /\ tab' \in [Tabs -> RequestRow]
         /\ epoch' \in Nat /\ disturbed' \subseteq Browsers
<1>1. \A k \in TokenRow : Revoked(k) \in TokenRow
  BY DEF TokenRow, Revoked
<1>2. tokens' \in [DOMAIN tokens -> TokenRow]
  BY <1>1, SessionParts DEF RevokeAll
<1>3. NoRequest \in RequestRow
  BY DEF NoRequest, RequestRow, RequestStates
<1>4. \A r \in RequestRow : [r EXCEPT !.crossed = TRUE] \in RequestRow
  BY DEF RequestRow
<1>5. tab' \in [Tabs -> RequestRow]
  BY <1>3, <1>4, SessionParts DEF RevokeAll
<1> QED
  BY <1>2, <1>5, TokensKeepShape DEF RevokeAll, SessionsTypeOK

(* One tab's request is replaced. *)
LEMMA GoesShape ==
  ASSUME SessionsTypeOK, NEW t \in Tabs, NEW w \in RequestStates,
         NEW r \in RequestRow, Goes(t, w, r)
  PROVE  tab' \in [Tabs -> RequestRow]
<1>1. [r EXCEPT !.at = w] \in RequestRow
  BY DEF RequestRow, RequestStates
<1> QED
  BY <1>1 DEF Goes, SessionsTypeOK

-----------------------------------------------------------------------------
(* Every step of one tab.                                                  *)

LEMMA LoginShape ==
  ASSUME SessionsTypeOK, NEW t \in Tabs,
         Login(t) \/ Refresh(t) \/ ChangePassword(t)
                  \/ \E l \in DOMAIN links : UseLink(t, l)
  PROVE  SessionsTypeOK'
<1>1. tab' \in [Tabs -> RequestRow]
  <2>0. \A n \in Nat : /\ [NoRequest EXCEPT !.epoch = n] \in RequestRow
                        /\ [NoRequest EXCEPT !.token = n] \in RequestRow
                        /\ [NoRequest EXCEPT !.link = n] \in RequestRow
    BY DEF NoRequest, RequestRow, RequestStates
  <2>1. /\ NoRequest \in RequestRow
        /\ [NoRequest EXCEPT !.epoch = epoch] \in RequestRow
        /\ [NoRequest EXCEPT !.token = Cookie(t)] \in RequestRow
    <3>1. NoRequest \in RequestRow
      BY DEF NoRequest, RequestRow, RequestStates
    <3>2. epoch \in Nat /\ Cookie(t) \in Nat
      BY SessionParts
    <3> QED
      BY <2>0, <3>1, <3>2
  <2>2. \A l \in DOMAIN links : [NoRequest EXCEPT !.link = l] \in RequestRow
    <3>1. DOMAIN links \subseteq Nat
      BY DEF SessionsTypeOK
    <3> QED
      BY <2>0, <3>1
  <2>3. {"issue", "claim", "password"} \subseteq RequestStates
    BY DEF RequestStates
  <2>4. CASE Login(t)
    BY <2>1, <2>3, <2>4, GoesShape DEF Login
  <2>5. CASE Refresh(t)
    BY <2>1, <2>3, <2>5, GoesShape DEF Refresh
  <2>6. CASE ChangePassword(t)
    BY <2>1, <2>3, <2>6, GoesShape DEF ChangePassword
  <2>7. CASE \E l \in DOMAIN links : UseLink(t, l)
    BY <2>2, <2>3, <2>7, GoesShape DEF UseLink
  <2> QED
    BY <2>4, <2>5, <2>6, <2>7
<1>2. visits' \in Nat
  <2>1. Visit
    BY DEF Login, Refresh, ChangePassword, UseLink
  <2> QED
    BY <2>1 DEF Visit, SessionsTypeOK
<1>3. UNCHANGED <<tokens, links, suspended, password, epoch, cookie, disturbed>>
  BY DEF Login, Refresh, ChangePassword, UseLink, account
<1> QED
  BY <1>1, <1>2, <1>3 DEF SessionsTypeOK

LEMMA ClaimShape ==
  ASSUME SessionIInv, NEW t \in Tabs, Claim(t)
  PROVE  SessionsTypeOK'
<1>1. SessionsTypeOK /\ tab[t].token \in DOMAIN tokens
  BY DEF SessionIInv, RequestsSound, RequestSound, Claim
<1>2. tokens' \in [DOMAIN tokens -> TokenRow]
  BY <1>1, SessionParts DEF Claim, TokenRow
<1>3. [tab[t] EXCEPT !.epoch = tokens[tab[t].token].epoch,
                     !.crossed = tokens[tab[t].token].crossed] \in RequestRow
  BY <1>1, SessionParts DEF RequestRow, TokenRow
<1>4. tab' \in [Tabs -> RequestRow]
  BY <1>1, <1>3, GoesShape DEF Claim, RequestStates
<1> QED
  BY <1>1, <1>2, <1>4, TokensKeepShape DEF Claim, SessionsTypeOK

LEMMA IssueShape ==
  ASSUME SessionsTypeOK, NEW t \in Tabs, Issue(t)
  PROVE  SessionsTypeOK'
<1>1. [revoked |-> FALSE, stale |-> FALSE, expired |-> FALSE,
       parent |-> tab[t].token, epoch |-> tab[t].epoch,
       crossed |-> tab[t].crossed] \in TokenRow
  BY SessionParts DEF RequestRow, TokenRow
<1>2. tokens' \in Seq(TokenRow) /\ Len(tokens') = Len(tokens) + 1
  BY <1>1 DEF Issue, SessionsTypeOK
<1>3. [tab[t] EXCEPT !.token = Len(tokens) + 1] \in RequestRow
  BY SessionParts DEF RequestRow
<1>4. tab' \in [Tabs -> RequestRow]
  BY <1>3, GoesShape DEF Issue, RequestStates
<1>5. cookie' \in [Browsers -> 0..Len(tokens')]
  <2>1. 0..Len(tokens) \subseteq 0..Len(tokens')
    BY <1>2, SessionParts
  <2> QED
    BY <2>1 DEF Issue, SessionsTypeOK
<1> QED
  BY <1>2, <1>4, <1>5 DEF Issue, SessionsTypeOK

(* A request ends, and the cookie is what its answer says or as it was. *)
LEMMA AnswerShape ==
  ASSUME SessionIInv, NEW t \in Tabs,
         Answer(t) \/ LoggedOut(t) \/ ClaimLost(t) \/ AnswerLost(t)
  PROVE  SessionsTypeOK'
<1>1. SessionsTypeOK /\ NoRequest \in RequestRow /\ "idle" \in RequestStates
  BY DEF SessionIInv, NoRequest, RequestRow, RequestStates
<1>2. tab' \in [Tabs -> RequestRow]
  BY <1>1, GoesShape DEF Answer, LoggedOut, ClaimLost, AnswerLost
<1>3. UNCHANGED account
  BY DEF Answer, LoggedOut, ClaimLost, AnswerLost
<1>4. BrowserOf[t] \in Browsers
  BY BrowserOfAssumption
<1>5. cookie' \in [Browsers -> 0..Len(tokens)]
  <2>1. CASE Answer(t)
    <3>1. tab[t].token \in 0..Len(tokens)
      BY <2>1, <1>1, SessionParts
         DEF Answer, SessionIInv, RequestsSound, RequestSound
    <3> QED
      BY <2>1, <3>1, <1>1 DEF Answer, SessionsTypeOK
  <2>2. CASE LoggedOut(t)
    <3>1. 0 \in 0..Len(tokens)
      BY <1>1, SessionParts
    <3> QED
      BY <2>2, <3>1, <1>1 DEF LoggedOut, SessionsTypeOK
  <2>3. CASE ClaimLost(t) \/ AnswerLost(t)
    BY <2>3, <1>1 DEF ClaimLost, AnswerLost, SessionsTypeOK
  <2> QED
    BY <2>1, <2>2, <2>3
<1>6. disturbed' \subseteq Browsers /\ visits' \in Nat
  BY <1>1, <1>4 DEF SessionsTypeOK, Answer, LoggedOut, ClaimLost, AnswerLost, Visit
<1> QED
  BY <1>1, <1>2, <1>3, <1>5, <1>6 DEF SessionsTypeOK, account

LEMMA LogoutShape ==
  ASSUME SessionsTypeOK, NEW t \in Tabs, Logout(t)
  PROVE  /\ SessionsTypeOK'
         /\ tokens' = [tokens EXCEPT ![Cookie(t)] = Revoked(tokens[Cookie(t)])]
<1>1. Cookie(t) \in DOMAIN tokens
  BY SessionParts DEF Logout
<1>2. Revoked(tokens[Cookie(t)]) \in TokenRow
  BY <1>1, SessionParts DEF Revoked, TokenRow
<1>3. tokens' \in [DOMAIN tokens -> TokenRow]
  BY <1>1, <1>2, SessionParts DEF Logout
<1>4. NoRequest \in RequestRow /\ "clear" \in RequestStates
  BY DEF NoRequest, RequestRow, RequestStates
<1>5. tab' \in [Tabs -> RequestRow]
  BY <1>4, GoesShape DEF Logout
<1>6. disturbed' \subseteq Browsers /\ visits' \in Nat
  BY BrowserOfAssumption DEF Logout, Visit, SessionsTypeOK
<1> QED
  BY <1>3, <1>5, <1>6, TokensKeepShape DEF Logout, SessionsTypeOK

LEMMA ReuseShape ==
  ASSUME SessionsTypeOK, NEW t \in Tabs, ReuseDetected(t)
  PROVE  SessionsTypeOK'
<1>1. PICK W \in SUBSET Browsers : RevokeAll(t, W)
  BY DEF ReuseDetected
<1> QED
  BY <1>1, RevokeAllShape DEF ReuseDetected, SessionsTypeOK

LEMMA SetPasswordShape ==
  ASSUME SessionsTypeOK, NEW t \in Tabs, SetPassword(t)
  PROVE  SessionsTypeOK'
<1>1. RevokeAll(t, Browsers)
  BY DEF SetPassword
<1>2. links' \in Seq(LinkRow)
  <2>1. \A l \in DOMAIN links :
           [links[l] EXCEPT !.used = links[l].used \/ l = tab[t].link] \in LinkRow
    <3>1. \A r \in LinkRow : \A b \in BOOLEAN :
             r.used \in BOOLEAN /\ [r EXCEPT !.used = b] \in LinkRow
      BY DEF LinkRow
    <3>2. \A l \in DOMAIN links : links[l] \in LinkRow
      BY DEF SessionsTypeOK
    <3>3. \A l \in DOMAIN links : (links[l].used \/ l = tab[t].link) \in BOOLEAN
      OBVIOUS
    <3> QED
      BY <3>1, <3>2, <3>3
  <2>2. DOMAIN links = 1..Len(links) /\ Len(links) \in Nat
    BY DEF SessionsTypeOK
  <2> QED
    BY <2>1, <2>2 DEF SetPassword
<1> QED
  BY <1>1, <1>2, RevokeAllShape DEF SetPassword, SessionsTypeOK

-----------------------------------------------------------------------------
(* The clock, the admins and the mail.                                     *)

LEMMA TokenAges ==
  ASSUME SessionIInv, NEW k \in DOMAIN tokens, GraceEnds(k) \/ TokenExpires(k)
  PROVE  SessionIInv'
<1>1. SessionsTypeOK
  BY DEF SessionIInv
<1>2. /\ [tokens[k] EXCEPT !.stale = TRUE] \in TokenRow
      /\ [tokens[k] EXCEPT !.expired = TRUE] \in TokenRow
  BY <1>1, SessionParts DEF TokenRow
<1>3. \/ tokens' = [tokens EXCEPT ![k] = [tokens[k] EXCEPT !.stale = TRUE]]
      \/ tokens' = [tokens EXCEPT ![k] = [tokens[k] EXCEPT !.expired = TRUE]]
  BY DEF GraceEnds, TokenExpires
<1>4. tokens' \in [DOMAIN tokens -> TokenRow]
  BY <1>1, <1>2, <1>3, SessionParts
<1>5. \A m \in DOMAIN tokens :
         /\ tokens'[m].parent = tokens[m].parent
         /\ tokens'[m].epoch = tokens[m].epoch
         /\ tokens'[m].crossed = tokens[m].crossed
         /\ tokens'[m].revoked = tokens[m].revoked
  <2> SUFFICES ASSUME NEW m \in DOMAIN tokens
               PROVE  /\ tokens'[m].parent = tokens[m].parent
                      /\ tokens'[m].epoch = tokens[m].epoch
                      /\ tokens'[m].crossed = tokens[m].crossed
                      /\ tokens'[m].revoked = tokens[m].revoked
    OBVIOUS
  <2>1. tokens[m] \in TokenRow
    BY <1>1, SessionParts
  <2>2. \/ tokens'[m] = tokens[m]
        \/ tokens'[m] = [tokens[m] EXCEPT !.stale = TRUE]
        \/ tokens'[m] = [tokens[m] EXCEPT !.expired = TRUE]
    BY <1>3
  <2> QED
    BY <2>1, <2>2 DEF TokenRow
<1>6. UNCHANGED <<links, suspended, password, epoch, cookie, tab>>
  BY DEF GraceEnds, TokenExpires
<1>7. disturbed' \subseteq Browsers
  BY <1>1, BrowserOfAssumption DEF GraceEnds, TokenExpires, SessionsTypeOK
<1>8. visits' \in Nat
  BY <1>1 DEF GraceEnds, TokenExpires, Visit, SessionsTypeOK
<1>9. SessionsTypeOK'
  BY <1>1, <1>4, <1>6, <1>7, <1>8, TokensKeepShape DEF SessionsTypeOK
<1>10. (Descent /\ RequestsSound /\ RevokedTogether)'
  BY <1>4, <1>5, <1>6, AgeKeeps
<1> QED
  BY <1>9, <1>10 DEF SessionIInv

LEMMA OthersAct ==
  ASSUME SessionIInv,
         RequestReset \/ SetSuspended \/ \E l \in DOMAIN links : LinkExpires(l)
  PROVE  SessionIInv'
<1>1. SessionsTypeOK
  BY DEF SessionIInv
<1>2. UNCHANGED <<tokens, password, epoch, cookie, tab, disturbed>> /\ Visit
  BY DEF RequestReset, SetSuspended, LinkExpires
<1>3. links' \in Seq(LinkRow) /\ suspended' \in BOOLEAN
  <2>1. CASE RequestReset
    <3>1. [used |-> FALSE, expired |-> FALSE] \in LinkRow
      BY DEF LinkRow
    <3> QED
      BY <1>1, <2>1, <3>1 DEF RequestReset, SessionsTypeOK
  <2>2. CASE SetSuspended
    BY <1>1, <2>2 DEF SetSuspended, SessionsTypeOK
  <2>3. ASSUME NEW l \in DOMAIN links, LinkExpires(l)
        PROVE  links' \in Seq(LinkRow) /\ suspended' \in BOOLEAN
    <3>1. links[l] \in LinkRow
      BY <1>1 DEF SessionsTypeOK
    <3>2. [links[l] EXCEPT !.expired = TRUE] \in LinkRow
      BY <3>1 DEF LinkRow
    <3> QED
      BY <1>1, <2>3, <3>2 DEF LinkExpires, SessionsTypeOK
  <2> QED
    BY <2>1, <2>2, <2>3
<1>4. visits' \in Nat
  BY <1>1, <1>2 DEF Visit, SessionsTypeOK
<1>5. SessionsTypeOK'
  BY <1>1, <1>2, <1>3, <1>4 DEF SessionsTypeOK
<1>6. (Descent /\ RequestsSound /\ RevokedTogether)'
  BY <1>2, AgeKeeps
<1> QED
  BY <1>5, <1>6 DEF SessionIInv

-----------------------------------------------------------------------------

LEMMA TabKeeps ==
  ASSUME SessionIInv, NEW t \in Tabs,
         \/ Login(t) \/ Refresh(t) \/ Claim(t) \/ ClaimLost(t)
         \/ ReuseDetected(t) \/ Issue(t) \/ Answer(t) \/ AnswerLost(t)
         \/ Logout(t) \/ LoggedOut(t) \/ ChangePassword(t) \/ SetPassword(t)
         \/ \E l \in DOMAIN links : UseLink(t, l)
  PROVE  SessionIInv'
<1> DEFINE Kept == (Descent /\ RequestsSound /\ RevokedTogether)'
<1>0. SessionsTypeOK
  BY DEF SessionIInv
<1>1. CASE Login(t)
  BY <1>0, <1>1, LoginKeeps, LoginShape DEF SessionIInv
<1>2. CASE Refresh(t)
  <2>1. Cookie(t) \in DOMAIN tokens
    BY <1>0, <1>2, SessionParts DEF Refresh
  <2>2. Kept
    <3> DEFINE r == [[NoRequest EXCEPT !.token = Cookie(t)] EXCEPT !.at = "claim"]
    <3>1. tab' = [tab EXCEPT ![t] = r] /\ tokens' = tokens /\ epoch' = epoch
      BY <1>2 DEF Refresh, Goes, account
    <3>2. r.at = "claim" /\ r.token = Cookie(t)
      BY DEF NoRequest
    <3> QED
      BY <2>1, <3>1, <3>2, TurnKeeps
  <2> QED
    BY <1>0, <1>2, <2>2, LoginShape DEF SessionIInv
<1>3. CASE Claim(t)
  BY <1>3, ClaimKeeps, ClaimShape DEF SessionIInv
<1>4. CASE ClaimLost(t) \/ Answer(t) \/ AnswerLost(t) \/ LoggedOut(t)
  <2>1. Kept
    <3> DEFINE r == [NoRequest EXCEPT !.at = "idle"]
    <3>1. tab' = [tab EXCEPT ![t] = r] /\ tokens' = tokens /\ epoch' = epoch
      BY <1>4 DEF ClaimLost, Answer, AnswerLost, LoggedOut, Goes, account
    <3>2. r.at = "idle"
      BY DEF NoRequest
    <3> QED
      BY <3>1, <3>2, TurnKeeps
  <2> QED
    BY <1>4, <2>1, AnswerShape DEF SessionIInv
<1>5. CASE ReuseDetected(t)
  <2>1. PICK W \in SUBSET Browsers : RevokeAll(t, W)
    BY <1>5 DEF ReuseDetected
  <2> QED
    BY <1>0, <1>5, <2>1, ReuseShape, RevokeAllKeeps DEF SessionIInv
<1>6. CASE Issue(t)
  BY <1>0, <1>6, IssueKeeps, IssueShape DEF SessionIInv
<1>7. CASE Logout(t)
  <2>1. Cookie(t) \in DOMAIN tokens
    BY <1>0, <1>7, SessionParts DEF Logout
  <2>2. /\ epoch' = epoch /\ DOMAIN tokens' = DOMAIN tokens
        /\ \A k \in DOMAIN tokens :
             /\ tokens'[k].parent = tokens[k].parent
             /\ tokens'[k].epoch = tokens[k].epoch
             /\ tokens'[k].crossed = tokens[k].crossed
             /\ tokens[k].revoked => tokens'[k].revoked
    BY <1>0, <1>7, <2>1, LogoutShape, SessionParts DEF Logout, Revoked, TokenRow
  <2>3. \A u \in Tabs : tab'[u] = tab[u] \/ tab'[u].at \in {"idle", "clear"}
    BY <1>0, <1>7, SessionParts DEF Logout, Goes, NoRequest
  <2>4. Kept
    BY <2>2, <2>3, AgeKeeps
  <2> QED
    BY <1>0, <1>7, <2>4, LogoutShape DEF SessionIInv
<1>8. CASE ChangePassword(t) \/ \E l \in DOMAIN links : UseLink(t, l)
  <2>1. Kept
    <3>1. PICK l : Goes(t, "password", [NoRequest EXCEPT !.link = l])
      <4>1. NoRequest = [NoRequest EXCEPT !.link = 0]
        BY DEF NoRequest
      <4> QED
        BY <1>8, <4>1 DEF ChangePassword, UseLink
    <3> DEFINE r == [[NoRequest EXCEPT !.link = l] EXCEPT !.at = "password"]
    <3>2. tab' = [tab EXCEPT ![t] = r]
      BY <3>1 DEF Goes
    <3>3. tokens' = tokens /\ epoch' = epoch
      BY <1>8 DEF ChangePassword, UseLink, account
    <3>4. r.at = "password"
      BY DEF NoRequest
    <3> QED
      BY <3>2, <3>3, <3>4, TurnKeeps
  <2> QED
    BY <1>0, <1>8, <2>1, LoginShape DEF SessionIInv
<1>9. CASE SetPassword(t)
  <2>1. RevokeAll(t, Browsers)
    BY <1>9 DEF SetPassword
  <2> QED
    BY <1>0, <1>9, <2>1, SetPasswordShape, RevokeAllKeeps DEF SessionIInv
<1> QED
  BY <1>1, <1>2, <1>3, <1>4, <1>5, <1>6, <1>7, <1>8, <1>9

(* Every state of the sessions is sound: a token that was exchanged is     *)
(* revoked and has one successor, a request about to insert one holds a    *)
(* claimed token that has none (refreshSession of auth.service.ts).        *)
THEOREM SessionInvariance == SessionsSpec => []SessionIInv
<1>1. SessionsInit => SessionIInv
  BY SessionsInitIInv
<1>2. SessionIInv /\ [SessionsNext]_sessionVars => SessionIInv'
  <2> SUFFICES ASSUME SessionIInv, [SessionsNext]_sessionVars PROVE SessionIInv'
    OBVIOUS
  <2>1. CASE UNCHANGED sessionVars
    <3>1. UNCHANGED <<tokens, links, suspended, password, epoch, cookie, tab,
                      disturbed, visits>>
      BY <2>1 DEF sessionVars, account
    <3> QED
      BY <3>1 DEF SessionIInv, SessionsTypeOK, Descent, RequestsSound,
                  RequestSound, Claimed, RevokedTogether
  <2>2. CASE SessionsNext
    BY <2>2, TabKeeps, OthersAct, TokenAges DEF SessionsNext
  <2> QED
    BY <2>1, <2>2
<1> QED
  BY <1>1, <1>2, PTL DEF SessionsSpec

(* No refresh token is worth two others, whichever tabs sent it at once.   *)
THEOREM RefreshTokensExchangedOnce == SessionsSpec => []ExchangedOnce
<1>1. SessionIInv => ExchangedOnce
  BY DEF SessionIInv, Descent, ExchangedOnce
<1> QED
  BY <1>1, SessionInvariance, PTL

(* A reset, a change of the password or a replay ends every session begun  *)
(* before it, but for a request that had been checked and not answered.    *)
THEOREM ResetsEndSessions == SessionsSpec => []RevokedTogether
<1>1. SessionIInv => RevokedTogether
  BY DEF SessionIInv
<1> QED
  BY <1>1, SessionInvariance, PTL

-----------------------------------------------------------------------------
(* Nobody is signed out by their own tabs.  The invariant follows a token  *)
(* from its insert to the cookie: until the answer arrives nobody can      *)
(* claim it, and only its own browser ever can.                            *)

(* Browser b has token k: in its cookie, or in a request of one of its tabs. *)
Held(b, k) ==
  cookie[b] = k \/ \E t \in Tabs : BrowserOf[t] = b /\ tab[t].token = k

(* A token is one browser's. *)
Owned ==
  \A k \in DOMAIN tokens : \A b, c \in Browsers : Held(b, k) /\ Held(c, k) => b = c

(* A token on its way to a browser is in nobody's hands yet, and good.     *)
OnItsWay(t) ==
  /\ \A b \in Browsers : cookie[b] # tab[t].token
  /\ \A u \in Tabs : u # t => tab[u].token # tab[t].token
  /\ BrowserOf[t] \notin disturbed => ~tokens[tab[t].token].revoked

HandsSound ==
  /\ Owned /\ TabsStaySignedIn
  /\ \A t \in Tabs : tab[t].at = "answer" => OnItsWay(t)
  /\ \A t \in Tabs :
       tab[t].at \in {"idle", "clear", "password"} => tab[t].token = 0

LEMMA TabMoves ==
  ASSUME SessionsTypeOK, NEW t \in Tabs, NEW r, tab' = [tab EXCEPT ![t] = r]
  PROVE  tab'[t] = r /\ \A u \in Tabs : u # t => tab'[u] = tab[u]
BY DEF SessionsTypeOK

(* t's request changes, and no answer is sent or arrives: what is revoked  *)
(* was in its hands, and then it is about to replace it, or the browser's  *)
(* session was ended.                                                      *)
LEMMA TurnStays ==
  ASSUME SessionIInv, HandsSound, NEW t \in Tabs, NEW r,
         tab' = [tab EXCEPT ![t] = r], r.at # "answer",
         \/ r.token = 0
         \/ r.at \in {"claim", "issue"} /\ r.token \in {tab[t].token, Cookie(t)},
         DOMAIN tokens' = DOMAIN tokens,
         \A k \in DOMAIN tokens :
            \/ tokens'[k].revoked = tokens[k].revoked
            \/ /\ k \in {tab[t].token, Cookie(t)}
               /\ r.at = "issue" \/ BrowserOf[t] \in disturbed',
         tab[t].at \in {"issue", "answer"} =>
            r.at = "issue" \/ BrowserOf[t] \in disturbed',
         disturbed \subseteq disturbed',
         \A b \in Browsers : cookie'[b] = cookie[b] \/ cookie'[b] = 0
  PROVE  HandsSound'
<1>1. tab'[t] = r /\ \A u \in Tabs : u # t => tab'[u] = tab[u]
  BY TabMoves DEF SessionIInv
<1>2. /\ BrowserOf[t] \in Browsers /\ DOMAIN tokens = 1..Len(tokens)
      /\ Len(tokens) \in Nat
  BY SessionParts, BrowserOfAssumption DEF SessionIInv
<1>3. \A k \in DOMAIN tokens : \A b \in Browsers : Held(b, k)' => Held(b, k)
  BY <1>1, <1>2 DEF Held, Cookie
<1>4. Owned'
  BY <1>3 DEF HandsSound, Owned
<1>5. ASSUME NEW u \in Tabs, tab'[u].at = "answer"
      PROVE  OnItsWay(u)'
  <2>1. u # t /\ tab'[u] = tab[u] /\ OnItsWay(u)
    BY <1>1, <1>5 DEF HandsSound
  <2>2. tab[u].token # 0 /\ tab[u].token \in DOMAIN tokens
    BY <1>2, <1>5, <2>1 DEF SessionIInv, RequestsSound, RequestSound
  <2>3. tab[u].token \notin {tab[t].token, Cookie(t)}
    BY <1>2, <2>1 DEF OnItsWay, Cookie
  <2>4. \A b \in Browsers : cookie'[b] # tab[u].token
    BY <2>1, <2>2 DEF OnItsWay
  <2>5. \A x \in Tabs : x # u => tab'[x].token # tab[u].token
    BY <1>1, <2>1, <2>2, <2>3 DEF OnItsWay
  <2>6. BrowserOf[u] \notin disturbed' => ~tokens'[tab[u].token].revoked
    BY <2>1, <2>2, <2>3 DEF OnItsWay
  <2> QED
    BY <2>1, <2>4, <2>5, <2>6 DEF OnItsWay
<1>6. ASSUME NEW b \in Browsers \ disturbed', cookie'[b] # 0
      PROVE  \/ ~tokens'[cookie'[b]].revoked
             \/ \E u \in Tabs : /\ BrowserOf[u] = b
                                /\ tab'[u].at \in {"issue", "answer"}
  <2>1. b \in Browsers \ disturbed /\ cookie'[b] = cookie[b] /\ cookie[b] # 0
    BY <1>6
  <2>2. cookie[b] \in DOMAIN tokens
    BY <1>2, <2>1 DEF SessionIInv, SessionsTypeOK
  <2>3. CASE \E u \in Tabs : BrowserOf[u] = b /\ tab[u].at \in {"issue", "answer"}
    <3>1. PICK u \in Tabs : BrowserOf[u] = b /\ tab[u].at \in {"issue", "answer"}
      BY <2>3
    <3>2. tab'[u].at \in {"issue", "answer"}
      BY <1>1, <1>6, <3>1
    <3> QED
      BY <3>1, <3>2
  <2>4. CASE ~tokens[cookie[b]].revoked /\ tokens'[cookie[b]].revoked
    <3>1. /\ cookie[b] \in {tab[t].token, Cookie(t)}
          /\ r.at = "issue" \/ BrowserOf[t] \in disturbed'
      BY <2>2, <2>4
    <3>2. Held(BrowserOf[t], cookie[b]) /\ Held(b, cookie[b])
      BY <3>1 DEF Held, Cookie
    <3>3. BrowserOf[t] = b
      BY <1>2, <2>2, <3>2 DEF HandsSound, Owned
    <3> QED
      BY <1>1, <1>6, <3>1, <3>3
  <2>5. ~tokens[cookie[b]].revoked \/ \E u \in Tabs : BrowserOf[u] = b /\ tab[u].at \in {"issue", "answer"}
    BY <2>1 DEF HandsSound, TabsStaySignedIn
  <2> QED
    BY <2>1, <2>3, <2>4, <2>5
<1>7. \A u \in Tabs :
        tab'[u].at \in {"idle", "clear", "password"} => tab'[u].token = 0
  BY <1>1 DEF HandsSound
<1> QED
  BY <1>4, <1>5, <1>6, <1>7 DEF HandsSound, TabsStaySignedIn

(* The requests whose tab moves on without an answer. *)
LEMMA RequestStays ==
  ASSUME SessionIInv, HandsSound, NEW t \in Tabs,
         \/ Login(t) \/ Refresh(t) \/ ClaimLost(t) \/ AnswerLost(t)
         \/ LoggedOut(t) \/ ChangePassword(t) \/ \E l \in DOMAIN links : UseLink(t, l)
  PROVE  HandsSound'
<1>0. tokens' = tokens /\ disturbed \subseteq disturbed'
  BY DEF Login, Refresh, ClaimLost, AnswerLost, LoggedOut, ChangePassword,
         UseLink, account
<1>1. CASE Login(t)
  <2> DEFINE r == [[NoRequest EXCEPT !.epoch = epoch] EXCEPT !.at = "issue"]
  <2>1. /\ tab' = [tab EXCEPT ![t] = r] /\ cookie' = cookie
        /\ tab[t].at = "idle"
    BY <1>1 DEF Login, Goes, Idle
  <2>2. r.at = "issue" /\ r.token = 0
    BY DEF NoRequest
  <2> HIDE DEF r
  <2> QED
    BY <1>0, <2>1, <2>2, TurnStays
<1>2. CASE Refresh(t)
  <2> DEFINE r == [[NoRequest EXCEPT !.token = Cookie(t)] EXCEPT !.at = "claim"]
  <2>1. /\ tab' = [tab EXCEPT ![t] = r] /\ cookie' = cookie
        /\ tab[t].at = "idle"
    BY <1>2 DEF Refresh, Goes, Idle
  <2>2. r.at = "claim" /\ r.token = Cookie(t)
    BY DEF NoRequest
  <2> HIDE DEF r
  <2> QED
    BY <1>0, <2>1, <2>2, TurnStays
<1>3. CASE ClaimLost(t) \/ AnswerLost(t) \/ LoggedOut(t)
  <2> DEFINE r == [NoRequest EXCEPT !.at = "idle"]
  <2>1. /\ tab' = [tab EXCEPT ![t] = r]
        /\ tab[t].at \in {"issue", "answer"} => BrowserOf[t] \in disturbed'
        /\ \A b \in Browsers : cookie'[b] = cookie[b] \/ cookie'[b] = 0
    BY <1>3 DEF ClaimLost, AnswerLost, LoggedOut, Goes, SessionIInv, SessionsTypeOK
  <2>2. r.at = "idle" /\ r.token = 0
    BY DEF NoRequest
  <2> HIDE DEF r
  <2> QED
    BY <1>0, <2>1, <2>2, TurnStays
<1>4. CASE ChangePassword(t) \/ \E l \in DOMAIN links : UseLink(t, l)
  <2>1. PICK l : Goes(t, "password", [NoRequest EXCEPT !.link = l])
    <3>1. NoRequest = [NoRequest EXCEPT !.link = 0]
      BY DEF NoRequest
    <3> QED
      BY <1>4, <3>1 DEF ChangePassword, UseLink
  <2> DEFINE r == [[NoRequest EXCEPT !.link = l] EXCEPT !.at = "password"]
  <2>2. /\ tab' = [tab EXCEPT ![t] = r] /\ cookie' = cookie
        /\ tab[t].at = "idle"
    BY <1>4, <2>1 DEF ChangePassword, UseLink, Goes, Idle
  <2>3. r.at = "password" /\ r.token = 0
    BY DEF NoRequest
  <2> HIDE DEF r
  <2> QED
    BY <1>0, <2>2, <2>3, TurnStays
<1> QED
  BY <1>1, <1>2, <1>3, <1>4

LEMMA ClaimStays ==
  ASSUME SessionIInv, HandsSound, NEW t \in Tabs, Claim(t)
  PROVE  HandsSound'
<1> DEFINE k == tab[t].token
           r == [[tab[t] EXCEPT !.epoch = tokens[k].epoch,
                                !.crossed = tokens[k].crossed] EXCEPT !.at = "issue"]
<1>1. /\ tokens' = [tokens EXCEPT ![k].revoked = TRUE]
      /\ tab' = [tab EXCEPT ![t] = r]
      /\ tab[t].at = "claim" /\ cookie' = cookie /\ disturbed' = disturbed
  BY DEF Claim, Goes
<1>2. tab[t] \in RequestRow
  BY SessionParts DEF SessionIInv
<1>3. r.at = "issue" /\ r.token = k
  BY <1>2 DEF RequestRow
<1>4. \A m \in DOMAIN tokens :
        tokens'[m].revoked = tokens[m].revoked \/ m = k
  BY <1>1
<1> HIDE DEF r
<1> QED
  BY <1>1, <1>3, <1>4, TurnStays

LEMMA LogoutStays ==
  ASSUME SessionIInv, HandsSound, NEW t \in Tabs, Logout(t)
  PROVE  HandsSound'
<1> DEFINE r == [NoRequest EXCEPT !.at = "clear"]
<1>1. /\ tokens' = [tokens EXCEPT ![Cookie(t)] = Revoked(@)]
      /\ tab' = [tab EXCEPT ![t] = r] /\ cookie' = cookie
      /\ disturbed' = disturbed \cup {BrowserOf[t]} /\ tab[t].at = "idle"
  BY DEF Logout, Goes, Idle
<1>2. r.at = "clear" /\ r.token = 0
  BY DEF NoRequest
<1>3. DOMAIN tokens' = DOMAIN tokens /\ BrowserOf[t] \in disturbed'
  BY <1>1
<1>4. \A m \in DOMAIN tokens :
        tokens'[m].revoked = tokens[m].revoked \/ m = Cookie(t)
  BY <1>1
<1> HIDE DEF r
<1> QED
  BY <1>1, <1>2, <1>3, <1>4, TurnStays

(* Whoever revokes all tokens has disturbed all browsers. *)
LEMMA RevokeAllStays ==
  ASSUME SessionIInv, HandsSound, NEW t \in Tabs, RevokeAll(t, Browsers),
         cookie' = cookie
  PROVE  HandsSound'
<1>1. /\ NoRequest.token = 0 /\ NoRequest.at = "idle"
      /\ tab \in [Tabs -> RequestRow] /\ \A u \in Tabs : tab[u] \in RequestRow
      /\ DOMAIN tokens' = DOMAIN tokens /\ Browsers \subseteq disturbed'
  BY SessionParts DEF NoRequest, RevokeAll, SessionIInv
<1>2. \A u \in Tabs : \/ tab'[u].token = 0 /\ tab'[u].at = "idle"
                      \/ tab'[u].token = tab[u].token /\ tab'[u].at = tab[u].at
  BY <1>1 DEF RevokeAll, RequestRow
<1>3. DOMAIN tokens = 1..Len(tokens) /\ Len(tokens) \in Nat
  BY SessionParts DEF SessionIInv
<1>4. \A k \in DOMAIN tokens : \A b \in Browsers : Held(b, k)' => Held(b, k)
  BY <1>2, <1>3 DEF Held
<1>5. Owned'
  BY <1>1, <1>4 DEF HandsSound, Owned
<1>6. ASSUME NEW u \in Tabs, tab'[u].at = "answer"
      PROVE  OnItsWay(u)'
  <2>1. tab'[u].token = tab[u].token /\ tab[u].at = "answer" /\ OnItsWay(u)
    BY <1>2, <1>6 DEF HandsSound
  <2>2. tab[u].token # 0
    BY <1>3, <2>1 DEF SessionIInv, RequestsSound, RequestSound
  <2>3. BrowserOf[u] \in disturbed'
    BY <1>1, BrowserOfAssumption
  <2> QED
    BY <1>2, <2>1, <2>2, <2>3 DEF OnItsWay
<1>7. TabsStaySignedIn'
  BY <1>1 DEF TabsStaySignedIn
<1>8. \A u \in Tabs :
        tab'[u].at \in {"idle", "clear", "password"} => tab'[u].token = 0
  BY <1>2 DEF HandsSound
<1> QED
  BY <1>5, <1>6, <1>7, <1>8 DEF HandsSound

(* A token is inserted: nobody has it but the request that did. *)
LEMMA IssueStays ==
  ASSUME SessionIInv, HandsSound, NEW t \in Tabs, Issue(t)
  PROVE  HandsSound'
<1> DEFINE n == Len(tokens) + 1
           row == [revoked |-> FALSE, stale |-> FALSE, expired |-> FALSE,
                   parent |-> tab[t].token, epoch |-> tab[t].epoch,
                   crossed |-> tab[t].crossed]
           r == [[tab[t] EXCEPT !.token = n] EXCEPT !.at = "answer"]
<1>1. /\ tokens \in Seq(TokenRow) /\ DOMAIN tokens = 1..Len(tokens)
      /\ Len(tokens) \in Nat /\ tab[t] \in RequestRow
      /\ cookie \in [Browsers -> 0..Len(tokens)]
  BY SessionParts DEF SessionIInv, SessionsTypeOK
<1>2. /\ tokens' = Append(tokens, row) /\ tab' = [tab EXCEPT ![t] = r]
      /\ cookie' = cookie /\ disturbed' = disturbed
  BY DEF Issue, Goes
<1>3. r.at = "answer" /\ r.token = n
  BY <1>1 DEF RequestRow
<1>4. row.revoked = FALSE
  OBVIOUS
<1> HIDE DEF r, row
<1>5. /\ DOMAIN tokens' = 1..n /\ tokens'[n] = row
      /\ \A k \in DOMAIN tokens : tokens'[k] = tokens[k]
  BY <1>1, <1>2
<1>6. tab'[t] = r /\ \A u \in Tabs : u # t => tab'[u] = tab[u]
  BY <1>2, TabMoves DEF SessionIInv
<1>7. ASSUME NEW u \in Tabs
      PROVE  tab[u].token \in 0..Len(tokens)
  <2>1. tab[u].at \in RequestStates
    BY SessionParts DEF SessionIInv, RequestRow
  <2>2. RequestSound(u)
    BY DEF SessionIInv, RequestsSound
  <2>3. CASE tab[u].at \in {"idle", "clear", "password"}
    BY <1>1, <2>3 DEF HandsSound
  <2>4. CASE tab[u].at \in {"claim", "issue", "answer"}
    BY <1>1, <2>2, <2>4 DEF RequestSound, Claimed
  <2> QED
    BY <2>1, <2>3, <2>4 DEF RequestStates
<1>8. Owned'
  <2>1. ASSUME NEW k \in DOMAIN tokens, NEW b \in Browsers, Held(b, k)'
        PROVE  Held(b, k)
    BY <1>1, <1>2, <1>3, <1>6, <2>1 DEF Held
  <2>2. ASSUME NEW k, k = n, NEW b \in Browsers, Held(b, k)'
        PROVE  b = BrowserOf[t]
    BY <1>1, <1>2, <1>6, <1>7, <2>2 DEF Held
  <2> SUFFICES ASSUME NEW k \in DOMAIN tokens', NEW b \in Browsers,
                      NEW c \in Browsers, Held(b, k)', Held(c, k)'
               PROVE  b = c
    BY DEF Owned
  <2>3. CASE k = n
    BY <2>2, <2>3
  <2>4. CASE k # n
    <3>1. k \in DOMAIN tokens
      BY <1>1, <1>5, <2>4
    <3> QED
      BY <2>1, <3>1 DEF HandsSound, Owned
  <2> QED
    BY <2>3, <2>4
<1>9. ASSUME NEW u \in Tabs, tab'[u].at = "answer"
      PROVE  OnItsWay(u)'
  <2>1. CASE u = t
    <3>1. \A b \in Browsers : cookie'[b] # n
      BY <1>1, <1>2
    <3>2. \A x \in Tabs : x # t => tab'[x].token # n
      BY <1>1, <1>6, <1>7
    <3> QED
      BY <1>3, <1>4, <1>5, <1>6, <2>1, <3>1, <3>2 DEF OnItsWay
  <2>2. CASE u # t
    <3>1. tab'[u] = tab[u] /\ OnItsWay(u) /\ tab[u].token \in 0..Len(tokens)
      BY <1>6, <1>7, <1>9, <2>2 DEF HandsSound
    <3>2. tab[u].token \in DOMAIN tokens
      BY <1>9, <3>1 DEF SessionIInv, RequestsSound, RequestSound
    <3>3. \A x \in Tabs : x # u => tab'[x].token # tab[u].token
      BY <1>1, <1>3, <1>6, <3>1 DEF OnItsWay
    <3> QED
      BY <1>2, <1>5, <3>1, <3>2, <3>3 DEF OnItsWay
  <2> QED
    BY <2>1, <2>2
<1>10. TabsStaySignedIn'
  <2> SUFFICES ASSUME NEW b \in Browsers \ disturbed', cookie'[b] # 0
               PROVE  \/ ~tokens'[cookie'[b]].revoked
                      \/ \E u \in Tabs : /\ BrowserOf[u] = b
                                         /\ tab'[u].at \in {"issue", "answer"}
    BY DEF TabsStaySignedIn
  <2>1. cookie'[b] = cookie[b] /\ cookie[b] \in DOMAIN tokens
    BY <1>1, <1>2
  <2>2. CASE ~tokens[cookie[b]].revoked
    BY <1>5, <2>1, <2>2
  <2>3. ASSUME NEW u \in Tabs, BrowserOf[u] = b, tab[u].at \in {"issue", "answer"}
        PROVE  tab'[u].at \in {"issue", "answer"}
    BY <1>3, <1>6, <2>3
  <2>4. \/ ~tokens[cookie[b]].revoked
        \/ \E u \in Tabs : /\ BrowserOf[u] = b
                           /\ tab[u].at \in {"issue", "answer"}
    BY <1>2, <2>1 DEF HandsSound, TabsStaySignedIn
  <2> QED
    BY <2>2, <2>3, <2>4
<1>11. \A u \in Tabs :
        tab'[u].at \in {"idle", "clear", "password"} => tab'[u].token = 0
  BY <1>3, <1>6 DEF HandsSound
<1> QED
  BY <1>8, <1>9, <1>10, <1>11 DEF HandsSound

(* An answer arrives: its token, good until now, is the browser's. *)
LEMMA AnswerStays ==
  ASSUME SessionIInv, HandsSound, NEW t \in Tabs, Answer(t)
  PROVE  HandsSound'
<1> DEFINE r == [NoRequest EXCEPT !.at = "idle"]
           k == tab[t].token
           b == BrowserOf[t]
<1>1. /\ tab[t].at = "answer" /\ tab' = [tab EXCEPT ![t] = r]
      /\ cookie' = [cookie EXCEPT ![b] = k]
      /\ tokens' = tokens /\ disturbed' = disturbed
  BY DEF Answer, Goes, account
<1>2. r.at = "idle" /\ r.token = 0
  BY DEF NoRequest
<1> HIDE DEF r
<1>3. tab'[t] = r /\ \A u \in Tabs : u # t => tab'[u] = tab[u]
  BY <1>1, TabMoves DEF SessionIInv
<1>4. /\ b \in Browsers /\ cookie'[b] = k
      /\ \A c \in Browsers : c # b => cookie'[c] = cookie[c]
  BY <1>1, BrowserOfAssumption DEF SessionIInv, SessionsTypeOK
<1>5. OnItsWay(t) /\ 0 \notin DOMAIN tokens
  BY <1>1, SessionParts DEF HandsSound, SessionIInv
<1>6. \A m \in DOMAIN tokens : \A c \in Browsers : Held(c, m)' => Held(c, m)
  BY <1>2, <1>3, <1>4, <1>5 DEF Held
<1>7. Owned'
  BY <1>1, <1>6 DEF HandsSound, Owned
<1>8. ASSUME NEW u \in Tabs, tab'[u].at = "answer"
      PROVE  OnItsWay(u)'
  <2>1. u # t /\ tab'[u] = tab[u] /\ OnItsWay(u) /\ tab[u].token # k
    BY <1>2, <1>3, <1>5, <1>8 DEF HandsSound, OnItsWay
  <2>2. tab[u].token # 0
    BY <1>5, <1>8, <2>1 DEF SessionIInv, RequestsSound, RequestSound
  <2> QED
    BY <1>1, <1>2, <1>3, <1>4, <2>1, <2>2 DEF OnItsWay
<1>9. TabsStaySignedIn'
  <2> SUFFICES ASSUME NEW c \in Browsers \ disturbed', cookie'[c] # 0
               PROVE  \/ ~tokens'[cookie'[c]].revoked
                      \/ \E u \in Tabs : /\ BrowserOf[u] = c
                                         /\ tab'[u].at \in {"issue", "answer"}
    BY DEF TabsStaySignedIn
  <2>1. CASE c = b
    BY <1>1, <1>4, <1>5, <2>1 DEF OnItsWay
  <2>2. CASE c # b
    <3>1. \/ ~tokens[cookie[c]].revoked
          \/ \E u \in Tabs : /\ BrowserOf[u] = c
                             /\ tab[u].at \in {"issue", "answer"}
      BY <1>1, <1>4, <2>2 DEF HandsSound, TabsStaySignedIn
    <3> QED
      BY <1>1, <1>3, <1>4, <2>2, <3>1
  <2> QED
    BY <2>1, <2>2
<1>10. \A u \in Tabs :
         tab'[u].at \in {"idle", "clear", "password"} => tab'[u].token = 0
  BY <1>2, <1>3 DEF HandsSound
<1> QED
  BY <1>7, <1>8, <1>9, <1>10 DEF HandsSound

(* What revokes nothing and touches no cookie and no request. *)
LEMMA NothingInHand ==
  ASSUME SessionIInv, HandsSound,
         DOMAIN tokens' = DOMAIN tokens,
         \A k \in DOMAIN tokens : tokens'[k].revoked = tokens[k].revoked,
         cookie' = cookie, tab' = tab, disturbed \subseteq disturbed'
  PROVE  HandsSound'
<1>1. \A b \in Browsers : cookie[b] \in {0} \cup DOMAIN tokens
  BY SessionParts DEF SessionIInv, SessionsTypeOK
<1>2. \A t \in Tabs : tab[t].at = "answer" => tab[t].token \in DOMAIN tokens
  BY DEF SessionIInv, RequestsSound, RequestSound
<1>3. Owned'
  BY DEF HandsSound, Owned, Held
<1>4. TabsStaySignedIn'
  BY <1>1 DEF HandsSound, TabsStaySignedIn
<1>5. \A t \in Tabs : tab'[t].at = "answer" => OnItsWay(t)'
  BY <1>2 DEF HandsSound, OnItsWay
<1> QED
  BY <1>3, <1>4, <1>5 DEF HandsSound

LEMMA HandsStep ==
  ASSUME SessionIInv, HandsSound, [SessionsNext]_sessionVars
  PROVE  HandsSound'
<1>1. CASE UNCHANGED sessionVars
  BY <1>1, NothingInHand DEF sessionVars, account
<1>2. CASE RequestReset \/ SetSuspended \/ \E l \in DOMAIN links : LinkExpires(l)
  BY <1>2, NothingInHand DEF RequestReset, SetSuspended, LinkExpires
<1>3. ASSUME NEW k \in DOMAIN tokens, GraceEnds(k) \/ TokenExpires(k)
      PROVE  HandsSound'
  <2>1. /\ \/ tokens' = [tokens EXCEPT ![k].stale = TRUE]
           \/ tokens' = [tokens EXCEPT ![k].expired = TRUE]
        /\ cookie' = cookie /\ tab' = tab /\ disturbed \subseteq disturbed'
    BY <1>3 DEF GraceEnds, TokenExpires
  <2>2. \A m \in DOMAIN tokens : tokens[m] \in TokenRow
    BY SessionParts DEF SessionIInv
  <2>3. /\ DOMAIN tokens' = DOMAIN tokens
        /\ \A m \in DOMAIN tokens : tokens'[m].revoked = tokens[m].revoked
    BY <2>1, <2>2 DEF TokenRow
  <2> QED
    BY <2>1, <2>3, NothingInHand
<1>4. ASSUME NEW t \in Tabs, ReuseDetected(t) \/ SetPassword(t)
      PROVE  HandsSound'
  BY <1>4, RevokeAllStays DEF ReuseDetected, SetPassword, Reused
<1> QED
  BY <1>1, <1>2, <1>3, <1>4, RequestStays, ClaimStays, IssueStays, AnswerStays,
     LogoutStays DEF SessionsNext

(* Nobody is signed out by their own tabs: the browser's token stays good  *)
(* or is being replaced, however its tabs' refreshes meet, while no answer *)
(* is lost or takes longer than the grace and nobody ends the session.     *)
THEOREM TabsShareOneSession == SessionsSpec => []TabsStaySignedIn
<1>1. SessionsInit => HandsSound
  BY DEF SessionsInit, HandsSound, Owned, TabsStaySignedIn, NoRequest
<1>2. SessionIInv /\ HandsSound /\ [SessionsNext]_sessionVars => HandsSound'
  BY HandsStep
<1>3. HandsSound => TabsStaySignedIn
  BY DEF HandsSound
<1> QED
  BY <1>1, <1>2, <1>3, SessionInvariance, PTL DEF SessionsSpec
=============================================================================
