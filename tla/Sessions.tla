------------------------------ MODULE Sessions ------------------------------
(***************************************************************************)
(* The sessions of one account: login, refresh and logout of               *)
(* apps/api/src/services/auth.service.ts, the reset and the change of its  *)
(* password (passwordReset.service.ts, profile.service.ts), and the        *)
(* browser's half, the refresh cookie and refreshAuthSession of            *)
(* apps/web/src/api/client.ts.                                             *)
(*                                                                         *)
(* A refresh token is exchanged for a new one by several statements, each  *)
(* its own transaction, so everything else can happen between them: the    *)
(* claim of the old token, the insert of the new one, the answer.  A tab   *)
(* has one request under way (refreshAuthSession is single-flight), the    *)
(* tabs of a browser share its cookie.  Other accounts share no row with   *)
(* this one.                                                               *)
(***************************************************************************)
EXTENDS Naturals, Sequences

CONSTANTS Browsers, Tabs,
          BrowserOf,   \* the browser of each tab
          MaxVisits    \* bound on what people and the network do

ASSUME BrowserOfAssumption == BrowserOf \in [Tabs -> Browsers]
ASSUME VisitsAssumption == MaxVisits \in Nat

VARIABLES
  tokens,      \* the RefreshToken rows
  links,       \* the PasswordResetToken rows
  suspended,   \* User.status = SUSPENDED
  password,    \* which password the account has, counting changes
  cookie,      \* the token in each browser's cookie, 0 for none
  tab,         \* the request each tab has under way
  epoch,       \* history: how often all sessions were revoked
  disturbed,   \* history: browsers whose session was ended, or an answer lost
  visits       \* what people and the network will still do

account == <<tokens, links, suspended, password, epoch>>
sessionVars == <<account, cookie, tab, disturbed, visits>>

NoRequest == [at |-> "idle", token |-> 0, link |-> 0, epoch |-> 0,
              crossed |-> FALSE]

SessionsInit ==
  /\ tokens = <<>> /\ links = <<>>
  /\ suspended = FALSE
  /\ password = 0
  /\ cookie = [b \in Browsers |-> 0]
  /\ tab = [t \in Tabs |-> NoRequest]
  /\ epoch = 0
  /\ disturbed = {}
  /\ visits \in {0, MaxVisits}

-----------------------------------------------------------------------------

Idle(t) == tab[t].at = "idle"
Cookie(t) == cookie[BrowserOf[t]]

Visit == visits > 0 /\ visits' = visits - 1

(* t's request goes on to `where`. *)
Goes(t, where, change) ==
  tab' = [tab EXCEPT ![t] = [change EXCEPT !.at = where]]

Revoked(k) == [k EXCEPT !.revoked = TRUE]

(* Mutant: only the token of the browser that asked is revoked. *)
RevokeOwn(here, whose) ==
  /\ tokens' = [k \in DOMAIN tokens |->
        IF k = Cookie(here) THEN Revoked(tokens[k]) ELSE tokens[k]]
  /\ epoch' = epoch + 1
  /\ disturbed' = disturbed \cup whose
  /\ tab' = [t \in Tabs |->
        IF t = here THEN NoRequest
        ELSE IF tab[t].at = "issue" THEN [tab[t] EXCEPT !.crossed = TRUE]
        ELSE tab[t]]
(* Every token that is not revoked is, and the request `here` is done.  A  *)
(* request that has checked the account and not inserted its token yet is  *)
(* crossed.                                                                *)
RevokeAll(here, whose) ==
  /\ tokens' = [k \in DOMAIN tokens |-> Revoked(tokens[k])]
  /\ epoch' = epoch + 1
  /\ disturbed' = disturbed \cup whose
  /\ tab' = [t \in Tabs |->
        IF t = here THEN NoRequest
        ELSE IF tab[t].at = "issue" THEN [tab[t] EXCEPT !.crossed = TRUE]
        ELSE tab[t]]

-----------------------------------------------------------------------------
(* Login and refresh.                                                      *)

(* loginUser, or googleAuth: the account and the password are right. *)
Login(t) ==
  /\ Idle(t) /\ Cookie(t) = 0 /\ ~suspended /\ Visit
  /\ Goes(t, "issue", [NoRequest EXCEPT !.epoch = epoch])
  /\ UNCHANGED <<account, cookie, disturbed>>

(* refreshSession reads the token and its user; one that is expired, or    *)
(* whose account is suspended, is refused and nothing changes.             *)
Refresh(t) ==
  /\ Idle(t) /\ Cookie(t) # 0 /\ Visit
  /\ ~tokens[Cookie(t)].expired /\ ~suspended
  /\ Goes(t, "claim", [NoRequest EXCEPT !.token = Cookie(t)])
  /\ UNCHANGED <<account, cookie, disturbed>>

(* Mutant: the token is revoked if it was found, whoever revoked it since. *)
ClaimFound(t) ==
  /\ tab[t].at = "claim"
  /\ tokens' = [tokens EXCEPT ![tab[t].token].revoked = TRUE]
  /\ Goes(t, "issue", [tab[t] EXCEPT !.epoch = tokens[tab[t].token].epoch,
                                     !.crossed = tokens[tab[t].token].crossed])
  /\ UNCHANGED <<links, suspended, password, epoch, cookie, disturbed, visits>>

(* updateMany with revokedAt null: one request claims the token. *)
Claim(t) ==
  /\ tab[t].at = "claim" /\ ~tokens[tab[t].token].revoked
  /\ tokens' = [tokens EXCEPT ![tab[t].token].revoked = TRUE]
  /\ Goes(t, "issue", [tab[t] EXCEPT !.epoch = tokens[tab[t].token].epoch,
                                     !.crossed = tokens[tab[t].token].crossed])
  /\ UNCHANGED <<links, suspended, password, epoch, cookie, disturbed, visits>>

(* Mutant: no grace for a token another request has just rotated. *)
ReusedAtAll(k) == tokens[k].revoked
Reused(k) == tokens[k].revoked /\ tokens[k].stale

(* The loser re-reads the token: inside REUSE_GRACE_MS it is told off ...  *)
ClaimLost(t) ==
  /\ tab[t].at = "claim" /\ tokens[tab[t].token].revoked
  /\ ~Reused(tab[t].token)
  /\ Goes(t, "idle", NoRequest)
  /\ UNCHANGED <<account, cookie, disturbed, visits>>

(* ... and later it is a replay, which ends every session of the account.  *)
(* Past the grace that is nobody's own doing.                              *)
ReuseDetected(t) ==
  /\ tab[t].at = "claim" /\ Reused(tab[t].token)
  /\ RevokeAll(t, IF tokens[tab[t].token].stale THEN Browsers ELSE {})
  /\ UNCHANGED <<links, suspended, password, cookie, visits>>

(* issueTokenPair, and replacedById of the token that was claimed. *)
Issue(t) ==
  /\ tab[t].at = "issue"
  /\ tokens' = Append(tokens,
        [revoked |-> FALSE, stale |-> FALSE, expired |-> FALSE,
         parent |-> tab[t].token, epoch |-> tab[t].epoch,
         crossed |-> tab[t].crossed])
  /\ Goes(t, "answer", [tab[t] EXCEPT !.token = Len(tokens) + 1])
  /\ UNCHANGED <<links, suspended, password, epoch, cookie, disturbed, visits>>

(* The answer sets the browser's cookie ... *)
Answer(t) ==
  /\ tab[t].at = "answer"
  /\ cookie' = [cookie EXCEPT ![BrowserOf[t]] = tab[t].token]
  /\ Goes(t, "idle", NoRequest)
  /\ UNCHANGED <<account, disturbed, visits>>

(* ... or does not arrive, or the process dies on the way to it. *)
AnswerLost(t) ==
  /\ tab[t].at \in {"issue", "answer", "clear"} /\ Visit
  /\ disturbed' = disturbed \cup {BrowserOf[t]}
  /\ Goes(t, "idle", NoRequest)
  /\ UNCHANGED <<account, cookie>>

-----------------------------------------------------------------------------
(* Logout and passwords.                                                   *)

(* logoutSession revokes the cookie's token; the answer clears the cookie. *)
Logout(t) ==
  /\ Idle(t) /\ Cookie(t) # 0 /\ Visit
  /\ tokens' = [tokens EXCEPT ![Cookie(t)] = Revoked(@)]
  /\ disturbed' = disturbed \cup {BrowserOf[t]}
  /\ Goes(t, "clear", NoRequest)
  /\ UNCHANGED <<links, suspended, password, epoch, cookie>>

LoggedOut(t) ==
  /\ tab[t].at = "clear"
  /\ cookie' = [cookie EXCEPT ![BrowserOf[t]] = 0]
  /\ Goes(t, "idle", NoRequest)
  /\ UNCHANGED <<account, disturbed, visits>>

(* requestPasswordReset; earlier links keep working. *)
RequestReset ==
  /\ Visit
  /\ links' = Append(links, [used |-> FALSE, expired |-> FALSE])
  /\ UNCHANGED <<tokens, suspended, password, epoch, cookie, tab, disturbed>>

(* resetPassword finds its link good ... *)
UseLink(t, l) ==
  /\ Idle(t) /\ ~links[l].used /\ ~links[l].expired /\ Visit
  /\ Goes(t, "password", [NoRequest EXCEPT !.link = l])
  /\ UNCHANGED <<account, cookie, disturbed>>

(* ... and changePassword its current password; both hash the new one.  It *)
(* takes an access token, which outlives the cookie it came with.          *)
ChangePassword(t) ==
  /\ Idle(t) /\ tokens # <<>> /\ ~suspended /\ Visit
  /\ Goes(t, "password", NoRequest)
  /\ UNCHANGED <<account, cookie, disturbed>>

(* The transaction of either: password, link, and all sessions. *)
SetPassword(t) ==
  /\ tab[t].at = "password"
  /\ password' = password + 1
  /\ links' = [l \in DOMAIN links |->
        [links[l] EXCEPT !.used = @ \/ l = tab[t].link]]
  /\ RevokeAll(t, Browsers)
  /\ UNCHANGED <<suspended, cookie, visits>>

-----------------------------------------------------------------------------
(* The clock and the admins.                                               *)

(* REUSE_GRACE_MS pass after a token is revoked.  That disturbs a browser  *)
(* whose request holds the token, or whose answer is still on its way.     *)
GraceEnds(k) ==
  /\ tokens[k].revoked /\ ~tokens[k].stale
  /\ tokens' = [tokens EXCEPT ![k].stale = TRUE]
  /\ disturbed' = disturbed \cup {b \in Browsers : cookie[b] = k}
                    \cup {BrowserOf[t] : t \in {u \in Tabs : tab[u].token = k}}
  /\ UNCHANGED <<links, suspended, password, epoch, cookie, tab, visits>>

TokenExpires(k) ==
  /\ ~tokens[k].expired /\ Visit
  /\ tokens' = [tokens EXCEPT ![k].expired = TRUE]
  /\ UNCHANGED <<links, suspended, password, epoch, cookie, tab, disturbed>>

LinkExpires(l) ==
  /\ ~links[l].expired /\ Visit
  /\ links' = [links EXCEPT ![l].expired = TRUE]
  /\ UNCHANGED <<tokens, suspended, password, epoch, cookie, tab, disturbed>>

(* updateUser: an admin suspends the account or lets it back in. *)
SetSuspended ==
  /\ Visit
  /\ suspended' = ~suspended
  /\ UNCHANGED <<tokens, links, password, epoch, cookie, tab, disturbed>>

-----------------------------------------------------------------------------

SessionsNext ==
  \/ \E t \in Tabs :
       \/ Login(t) \/ Refresh(t) \/ Claim(t) \/ ClaimLost(t)
       \/ ReuseDetected(t) \/ Issue(t) \/ Answer(t) \/ AnswerLost(t)
       \/ Logout(t) \/ LoggedOut(t) \/ ChangePassword(t) \/ SetPassword(t)
       \/ \E l \in DOMAIN links : UseLink(t, l)
  \/ RequestReset \/ SetSuspended
  \/ \E l \in DOMAIN links : LinkExpires(l)
  \/ \E k \in DOMAIN tokens : GraceEnds(k) \/ TokenExpires(k)

SessionsSpec == SessionsInit /\ [][SessionsNext]_sessionVars

-----------------------------------------------------------------------------
(* Correctness.                                                            *)

TokenRow == [revoked : BOOLEAN, stale : BOOLEAN, expired : BOOLEAN,
             parent : Nat, epoch : Nat, crossed : BOOLEAN]
LinkRow == [used : BOOLEAN, expired : BOOLEAN]
RequestStates == {"idle", "claim", "issue", "answer", "clear", "password"}
RequestRow == [at : RequestStates, token : Nat, link : Nat, epoch : Nat,
               crossed : BOOLEAN]

(* The shape of the state. *)
SessionsTypeOK ==
  /\ tokens \in Seq(TokenRow) /\ links \in Seq(LinkRow)
  /\ suspended \in BOOLEAN /\ password \in Nat
  /\ cookie \in [Browsers -> 0..Len(tokens)]
  /\ tab \in [Tabs -> RequestRow]
  /\ epoch \in Nat /\ disturbed \subseteq Browsers /\ visits \in Nat

(* A refresh token is worth one other: no two tokens were issued for it,   *)
(* whichever tabs sent it at once, and none while it is still good itself. *)
ExchangedOnce ==
  \A k, m \in DOMAIN tokens :
     tokens[k].parent # 0 =>
       /\ tokens[tokens[k].parent].revoked
       /\ tokens[m].parent = tokens[k].parent => m = k

(* After a reset, a change of the password or a detected replay no session *)
(* begun before lives on, in any generation of its tokens, but for one     *)
(* whose request had been checked and had not inserted its token yet.      *)
RevokedTogether ==
  \A k \in DOMAIN tokens :
     tokens[k].revoked \/ tokens[k].crossed \/ tokens[k].epoch = epoch

(* Nobody is signed out by their own tabs: while no answer is lost or takes *)
(* longer than the grace, and nobody ends the session, the cookie's token  *)
(* is good, or a request of the browser is about to replace it.            *)
TabsStaySignedIn ==
  \A b \in Browsers \ disturbed :
     cookie[b] # 0 =>
       \/ ~tokens[cookie[b]].revoked
       \/ \E t \in Tabs : /\ BrowserOf[t] = b
                          /\ tab[t].at \in {"issue", "answer"}
=============================================================================
