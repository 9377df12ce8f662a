------------------------------- MODULE OAuth -------------------------------
(***************************************************************************)
(* The OAuth authorization server that MCP clients sign in through: open   *)
(* registration, consent, the authorization code and its redemption, the   *)
(* rotation of refresh tokens, revocation and the hourly cleanup.          *)
(*                                                                         *)
(* The state is the database, and a step is one statement or transaction.  *)
(* Codes and tokens are presented by anyone, at any time and any number of *)
(* times: a lost answer retried, a double submission and a stolen copy are *)
(* all presentations.  A transaction that fails changes nothing and is a   *)
(* stuttering step.  The token endpoint looks the client up before its     *)
(* transaction, so a client that presents something need not still exist.  *)
(*                                                                         *)
(* Times are ages in ticks, capped where nothing distinguishes them.  A    *)
(* sweep is short against a tick.                                          *)
(***************************************************************************)
EXTENDS Integers, FiniteSets

CONSTANTS Clients,        \* client ids
          Refreshers,     \* clients registered with the refresh_token grant type
          Users,          \* operators
          Codes, Grants,  \* ids still to be drawn
          Pairs,          \* an access token and the refresh token minted with it
          None,           \* no client, user, code or grant
          MaxPending,     \* MaxPendingOAuthClients
          CodeTTL, SpentRetention, AccessTTL, RefreshTTL, ClientTTL

ASSUME ConstantsAssumption ==
  /\ Refreshers \subseteq Clients
  /\ None \notin Clients \cup Users \cup Codes \cup Grants
  /\ MaxPending \in Nat \ {0}
  /\ CodeTTL \in Nat \ {0} /\ SpentRetention \in Nat
  /\ AccessTTL \in Nat \ {0} /\ RefreshTTL \in Nat \ {0} /\ ClientTTL \in Nat

VARIABLES
  users,                            \* the users that exist
  client, clientAge,                \* oauth_clients, and requests that made room
  code, codeClient, codeUser,       \* oauth_auth_codes: fresh until used_at is set
  codeGrant, codeAge,
  grant, grantClient, grantUser,    \* oauth_grants
  access, refresh,                  \* api_tokens with a grant_id, oauth_refresh_tokens
  pairGrant, pairAge,
  sweep                             \* the cleanup's next statement

\* History, read by no action.
VARIABLES
  origin,   \* the code each grant was issued for
  holder,   \* the client each pair was answered to
  burned    \* grants revoked because something of theirs was presented twice

clientVars == <<client, clientAge>>
codeVars   == <<code, codeClient, codeUser, codeGrant, codeAge>>
grantVars  == <<grant, grantClient, grantUser>>
pairVars   == <<access, refresh, pairGrant, pairAge>>
histVars   == <<origin, holder, burned>>
vars == <<users, clientVars, codeVars, grantVars, pairVars, sweep, histVars>>

Live(g)      == grant[g] = "live"
Granted(cl)  == \E g \in Grants : Live(g) /\ grantClient[g] = cl
Pending      == {cl \in Clients : client[cl] = "registered" /\ ~Granted(cl)}
Of(g)        == {p \in Pairs : pairGrant[p] = g}
HasRefresh(p) == refresh[p] \in {"fresh", "spent"}
-----------------------------------------------------------------------------
Init ==
  /\ users = Users
  /\ client = [cl \in Clients |-> "none"] /\ clientAge = [cl \in Clients |-> 0]
  /\ code = [c \in Codes |-> "none"] /\ codeAge = [c \in Codes |-> 0]
  /\ codeClient = [c \in Codes |-> None] /\ codeUser = [c \in Codes |-> None]
  /\ codeGrant = [c \in Codes |-> None]
  /\ grant = [g \in Grants |-> "none"]
  /\ grantClient = [g \in Grants |-> None] /\ grantUser = [g \in Grants |-> None]
  /\ access = [p \in Pairs |-> "none"] /\ refresh = [p \in Pairs |-> "none"]
  /\ pairGrant = [p \in Pairs |-> None] /\ pairAge = [p \in Pairs |-> 0]
  /\ sweep = "idle"
  /\ origin = [g \in Grants |-> None]
  /\ holder = [p \in Pairs |-> None]
  /\ burned = {}
-----------------------------------------------------------------------------
(* Registration *)

\* The MaxPending - 1 pending clients that MakeRoomForOAuthClient keeps are
\* the newest; created_at has whole seconds, and ties are broken by id.
Newest(K) ==
  /\ K \subseteq Pending
  /\ Cardinality(K) = MaxPending - 1 \/ K = Pending
  /\ Cardinality(K) < MaxPending
  /\ \A cl \in K, old \in Pending \ K : clientAge[cl] <= clientAge[old]

\* What goes with the clients C by cascade.
CodesOf(C)  == {c \in Codes : codeClient[c] \in C /\ code[c] # "none"}
DropCodes(S) == [c \in Codes |-> IF c \in S THEN "gone" ELSE code[c]]

\* Register begins: the oldest pending clients are evicted.
MakeRoomForOAuthClient(cl) ==
  /\ client[cl] = "none"
  /\ \E K \in SUBSET Pending :
       LET evicted == Pending \ K IN
       /\ Newest(K)
       /\ client' = [d \in Clients |-> IF d = cl THEN "registering"
                                       ELSE IF d \in evicted THEN "gone" ELSE client[d]]
       /\ code' = DropCodes(CodesOf(evicted))
  /\ UNCHANGED <<users, clientAge, codeClient, codeUser, codeGrant, codeAge,
                 grantVars, pairVars, sweep, histVars>>

CreateOAuthClient(cl) ==
  /\ client[cl] = "registering"
  /\ client' = [client EXCEPT ![cl] = "registered"]
  /\ UNCHANGED <<users, clientAge, codeVars, grantVars, pairVars, sweep, histVars>>

\* The metadata is refused, the insert fails or the process dies.
RegistrationEnds(cl) ==
  /\ client[cl] = "registering"
  /\ client' = [client EXCEPT ![cl] = "none"]
  /\ UNCHANGED <<users, clientAge, codeVars, grantVars, pairVars, sweep, histVars>>
-----------------------------------------------------------------------------
(* Consent *)

\* AuthorizeSubmit, approved: the foreign keys hold the client and the
\* operator to be there still, whatever the page was rendered from.
CreateAuthCode(c, cl, u) ==
  /\ code[c] = "none" /\ client[cl] = "registered" /\ u \in users
  /\ code' = [code EXCEPT ![c] = "fresh"]
  /\ codeClient' = [codeClient EXCEPT ![c] = cl]
  /\ codeUser' = [codeUser EXCEPT ![c] = u]
  /\ UNCHANGED <<users, clientVars, codeGrant, codeAge, grantVars, pairVars, sweep, histVars>>
-----------------------------------------------------------------------------
(* Revoking *)

\* Mutant: the access tokens are left to a cascade that api_tokens has not got.
AccessWithout_Kept(G) == access

\* revokeGrant: the access tokens by hand, the refresh tokens by cascade.
AccessWithout(G) ==
  [p \in Pairs |-> IF pairGrant[p] \in G /\ access[p] = "live" THEN "gone" ELSE access[p]]

RefreshWithout(G) ==
  [p \in Pairs |-> IF pairGrant[p] \in G /\ HasRefresh(p) THEN "gone" ELSE refresh[p]]

GrantsWithout(G) == [g \in Grants |-> IF g \in G /\ Live(g) THEN "gone" ELSE grant[g]]

Revoke(G) ==
  /\ access' = AccessWithout(G)
  /\ refresh' = RefreshWithout(G)
  /\ grant' = GrantsWithout(G)

\* RevokeOAuthGrant: the operator's own.
RevokeOAuthGrant(u, g) ==
  /\ Live(g) /\ grantUser[g] = u
  /\ Revoke({g})
  /\ UNCHANGED <<users, clientVars, codeVars, grantClient, grantUser, pairGrant, pairAge,
                 sweep, histVars>>

\* DeleteAPIToken, by an id of one's own.
DeleteAPIToken(u, p) ==
  /\ access[p] = "live" /\ grantUser[pairGrant[p]] = u
  /\ access' = [access EXCEPT ![p] = "gone"]
  /\ UNCHANGED <<users, clientVars, codeVars, grantVars, refresh, pairGrant, pairAge,
                 sweep, histVars>>

\* DeleteUser: never the last; codes, grants and tokens go by cascade.
DeleteUser(u) ==
  LET G == {g \in Grants : Live(g) /\ grantUser[g] = u} IN
  /\ u \in users /\ users # {u}
  /\ users' = users \ {u}
  /\ code' = DropCodes({c \in Codes : codeUser[c] = u /\ code[c] # "none"})
  /\ access' = [p \in Pairs |-> IF access[p] = "live" /\ grantUser[pairGrant[p]] = u
                                  THEN "gone" ELSE access[p]]
  /\ refresh' = RefreshWithout(G)
  /\ grant' = GrantsWithout(G)
  /\ UNCHANGED <<clientVars, codeClient, codeUser, codeGrant, codeAge, grantClient, grantUser,
                 pairGrant, pairAge, sweep, histVars>>
-----------------------------------------------------------------------------
(* The token endpoint: authorization codes *)

\* mintTokens: an access and a refresh token that carry the grant.
Mint(p, g, cl) ==
  /\ pairGrant' = [pairGrant EXCEPT ![p] = g]
  /\ pairAge' = [pairAge EXCEPT ![p] = 0]
  /\ holder' = [holder EXCEPT ![p] = cl]

Known(cl) == client[cl] \in {"registered", "gone"}

\* The client check of accept.  Its other checks (redirect URI, PKCE
\* verifier, resource) are a free choice.
Accepts(c, cl) == codeClient[c] = cl

Redeemable(c) == code[c] = "fresh" /\ codeAge[c] < CodeTTL

\* Refused by accept, and spent.
ExchangeRejected(c, cl) ==
  /\ Known(cl) /\ Redeemable(c)
  /\ code' = [code EXCEPT ![c] = "spent"]
  /\ UNCHANGED <<users, clientVars, codeClient, codeUser, codeGrant, codeAge,
                 grantVars, pairVars, sweep, histVars>>

\* replaceGrants: every grant this user gave this client.
Replaced(c) ==
  {g \in Grants : Live(g) /\ grantClient[g] = codeClient[c] /\ grantUser[g] = codeUser[c]}

\* Redeemed: spent, the earlier grants revoked, a grant and its first pair
\* issued, in one transaction.
ExchangeIssues(c, cl, g, p) ==
  /\ Known(cl) /\ Redeemable(c) /\ Accepts(c, cl)
  /\ grant[g] = "none" /\ access[p] = "none" /\ refresh[p] = "none"
  /\ code' = [code EXCEPT ![c] = "spent"]
  /\ codeGrant' = [codeGrant EXCEPT ![c] = g]
  /\ grant' = [GrantsWithout(Replaced(c)) EXCEPT ![g] = "live"]
  /\ grantClient' = [grantClient EXCEPT ![g] = codeClient[c]]
  /\ grantUser' = [grantUser EXCEPT ![g] = codeUser[c]]
  /\ access' = [AccessWithout(Replaced(c)) EXCEPT ![p] = "live"]
  /\ refresh' = [RefreshWithout(Replaced(c)) EXCEPT ![p] = "fresh"]
  /\ Mint(p, g, cl)
  /\ origin' = [origin EXCEPT ![g] = c]
  /\ UNCHANGED <<users, clientVars, codeClient, codeUser, codeAge, sweep, burned>>

\* Mutant: replayed returns without committing what it revoked.
ReplayedGrants_RolledBack(g) == {}

\* What replayed revokes: the grant, if one was issued and is still there.
ReplayedGrants(g) == {h \in Grants : h = g /\ Live(h)}

\* Presented again.
ExchangeReplayed(c, cl) ==
  /\ Known(cl) /\ code[c] = "spent"
  /\ Revoke(ReplayedGrants(codeGrant[c]))
  /\ burned' = burned \cup ({codeGrant[c]} \ {None})
  /\ UNCHANGED <<users, clientVars, codeVars, grantClient, grantUser, pairGrant, pairAge,
                 sweep, origin, holder>>
-----------------------------------------------------------------------------
(* The token endpoint: refresh tokens *)

\* The client that may present p: the one its grant is for.
PresentedBy(p, cl) == grantClient[pairGrant[p]] = cl

Presentable(p, cl) ==
  /\ Known(cl) /\ cl \in Refreshers
  /\ HasRefresh(p) /\ pairAge[p] < RefreshTTL
  /\ PresentedBy(p, cl)

\* Mutant: the token presented stays good.
Spend_Kept(p) == refresh

Spend(p) == [refresh EXCEPT ![p] = "spent"]

RefreshRotates(p, cl, q) ==
  /\ Presentable(p, cl) /\ refresh[p] = "fresh"
  /\ access[q] = "none" /\ refresh[q] = "none"
  /\ access' = [access EXCEPT ![q] = "live"]
  /\ refresh' = [Spend(p) EXCEPT ![q] = "fresh"]
  /\ Mint(q, pairGrant[p], cl)
  /\ UNCHANGED <<users, clientVars, codeVars, grantVars, sweep, origin, burned>>

RefreshReplayed(p, cl) ==
  /\ Presentable(p, cl) /\ refresh[p] = "spent"
  /\ Revoke(ReplayedGrants(pairGrant[p]))
  /\ burned' = burned \cup {pairGrant[p]}
  /\ UNCHANGED <<users, clientVars, codeVars, grantClient, grantUser, pairGrant, pairAge,
                 sweep, origin, holder>>
-----------------------------------------------------------------------------
(* CleanExpiredOAuth: four statements, each run even if one before it failed *)

SweepStarts ==
  /\ sweep = "idle" /\ sweep' = "codes"
  /\ UNCHANGED <<users, clientVars, codeVars, grantVars, pairVars, histVars>>

\* Mutant: a spent code goes when it expires, like any other.
CodeKept_ToExpiry(c) == codeAge[c] < CodeTTL

\* A code is kept for SpentRetention past its expiry.
CodeKept(c) == codeAge[c] < CodeTTL + SpentRetention

CleanCodes ==
  /\ sweep = "codes" /\ sweep' = "refresh"
  /\ code' = DropCodes({c \in Codes : code[c] # "none" /\ ~CodeKept(c)})
  /\ UNCHANGED <<users, clientVars, codeClient, codeUser, codeGrant, codeAge,
                 grantVars, pairVars, histVars>>

RefreshKept(p) == pairAge[p] < RefreshTTL

CleanRefresh ==
  /\ sweep = "refresh" /\ sweep' = "access"
  /\ refresh' = [p \in Pairs |-> IF HasRefresh(p) /\ ~RefreshKept(p) THEN "gone" ELSE refresh[p]]
  /\ UNCHANGED <<users, clientVars, codeVars, grantVars, access, pairGrant, pairAge, histVars>>

CleanAccess ==
  /\ sweep = "access" /\ sweep' = "clients"
  /\ access' = [p \in Pairs |-> IF access[p] = "live" /\ pairAge[p] >= AccessTTL
                                  THEN "gone" ELSE access[p]]
  /\ UNCHANGED <<users, clientVars, codeVars, grantVars, refresh, pairGrant, pairAge, histVars>>

\* Mutant: only a client that never had a grant is pruned.
Prunable_NeverApproved(cl) ==
  /\ cl \in Pending /\ clientAge[cl] > ClientTTL
  /\ \A g \in Grants : grantClient[g] # cl

Prunable(cl) == cl \in Pending /\ clientAge[cl] > ClientTTL

\* The clients with no grant, and their codes and grants by cascade.
CleanClients ==
  LET C == {cl \in Clients : Prunable(cl)}
      G == {g \in Grants : Live(g) /\ grantClient[g] \in C} IN
  /\ sweep = "clients" /\ sweep' = "idle"
  /\ client' = [cl \in Clients |-> IF cl \in C THEN "gone" ELSE client[cl]]
  /\ code' = DropCodes(CodesOf(C))
  /\ grant' = GrantsWithout(G)
  /\ refresh' = RefreshWithout(G)
  /\ UNCHANGED <<users, clientAge, codeClient, codeUser, codeGrant, codeAge, grantClient,
                 grantUser, access, pairGrant, pairAge, histVars>>

\* A statement fails and the next one runs; or the process dies.
SweepFails ==
  /\ sweep # "idle"
  /\ sweep' \in {"idle", CASE sweep = "codes" -> "refresh" [] sweep = "refresh" -> "access"
                           [] sweep = "access" -> "clients" [] sweep = "clients" -> "idle"}
  /\ UNCHANGED <<users, clientVars, codeVars, grantVars, pairVars, histVars>>
-----------------------------------------------------------------------------
Older(a, cap) == IF a < cap THEN a + 1 ELSE a

PairCap == IF AccessTTL < RefreshTTL THEN RefreshTTL ELSE AccessTTL

\* A tick passes for the rows that are there.
Tick ==
  /\ sweep = "idle"
  /\ clientAge' = [cl \in Clients |-> IF client[cl] = "registered"
                                        THEN Older(clientAge[cl], ClientTTL + 1) ELSE clientAge[cl]]
  /\ codeAge' = [c \in Codes |-> IF code[c] \in {"fresh", "spent"}
                                   THEN Older(codeAge[c], CodeTTL + SpentRetention) ELSE codeAge[c]]
  /\ pairAge' = [p \in Pairs |-> IF access[p] = "live" \/ HasRefresh(p)
                                   THEN Older(pairAge[p], PairCap) ELSE pairAge[p]]
  /\ UNCHANGED <<users, client, code, codeClient, codeUser, codeGrant, grantVars,
                 access, refresh, pairGrant, sweep, histVars>>

Register(cl) == MakeRoomForOAuthClient(cl) \/ CreateOAuthClient(cl) \/ RegistrationEnds(cl)

Token(cl) ==
  \/ \E c \in Codes :
       \/ ExchangeRejected(c, cl) \/ ExchangeReplayed(c, cl)
       \/ \E g \in Grants, p \in Pairs : ExchangeIssues(c, cl, g, p)
  \/ \E p \in Pairs :
       \/ RefreshReplayed(p, cl)
       \/ \E q \in Pairs : RefreshRotates(p, cl, q)

Operator(u) ==
  \/ \E c \in Codes, cl \in Clients : CreateAuthCode(c, cl, u)
  \/ \E g \in Grants : RevokeOAuthGrant(u, g)
  \/ \E p \in Pairs : DeleteAPIToken(u, p)
  \/ DeleteUser(u)

Sweep == SweepStarts \/ CleanCodes \/ CleanRefresh \/ CleanAccess \/ CleanClients

Next ==
  \/ \E cl \in Clients : Register(cl) \/ Token(cl)
  \/ \E u \in Users : Operator(u)
  \/ Sweep \/ SweepFails
  \/ Tick

Spec == Init /\ [][Next]_vars

\* Time passes, the hourly cleanup wakes and gets on, and neither a failing
\* statement nor a crash comes every single time.
FairSpec ==
  /\ Spec /\ SF_vars(Tick) /\ WF_vars(Sweep)
  /\ SF_vars(CleanCodes) /\ SF_vars(CleanRefresh) /\ SF_vars(CleanAccess) /\ SF_vars(CleanClients)
-----------------------------------------------------------------------------
(* Properties *)

CodeType ==
  /\ code \in [Codes -> {"none", "fresh", "spent", "gone"}]
  /\ codeClient \in [Codes -> Clients \cup {None}]
  /\ codeUser \in [Codes -> Users \cup {None}]
  /\ codeGrant \in [Codes -> Grants \cup {None}]
  /\ codeAge \in [Codes -> 0..(CodeTTL + SpentRetention)]
  /\ \A c \in Codes : code[c] # "none" => codeClient[c] \in Clients /\ codeUser[c] \in Users

GrantType ==
  /\ grant \in [Grants -> {"none", "live", "gone"}]
  /\ grantClient \in [Grants -> Clients \cup {None}]
  /\ grantUser \in [Grants -> Users \cup {None}]
  /\ \A g \in Grants : grant[g] # "none" => grantClient[g] \in Clients /\ grantUser[g] \in Users

PairType ==
  /\ access \in [Pairs -> {"none", "live", "gone"}]
  /\ refresh \in [Pairs -> {"none", "fresh", "spent", "gone"}]
  /\ pairGrant \in [Pairs -> Grants \cup {None}]
  /\ pairAge \in [Pairs -> 0..PairCap]
  /\ \A p \in Pairs : access[p] = "live" \/ HasRefresh(p) => pairGrant[p] \in Grants

\* The values the columns and counters may have, and the references that no
\* row is without.
TypeOK ==
  /\ users \subseteq Users
  /\ client \in [Clients -> {"none", "registering", "registered", "gone"}]
  /\ clientAge \in [Clients -> 0..(ClientTTL + 1)]
  /\ CodeType /\ GrantType /\ PairType
  /\ sweep \in {"idle", "codes", "refresh", "access", "clients"}
  /\ origin \in [Grants -> Codes \cup {None}]
  /\ holder \in [Pairs -> Clients \cup {None}]
  /\ burned \subseteq Grants

\* An operator's connection to a client is one grant: reconnecting replaces it,
\* however many codes were approved and redeemed.  (ExchangeAuthCode: "Issuing
\* replaces any grant the same user already gave the same client".)
OneGrantPerConnection ==
  \A g, h \in Grants :
    /\ Live(g) /\ Live(h)
    /\ grantClient[g] = grantClient[h] /\ grantUser[g] = grantUser[h]
    => g = h

\* No token works, or waits to be exchanged, once its grant is gone, and no
\* grant outlives its client or its operator, whichever way they went.
NothingOutlivesItsGrant ==
  /\ \A p \in Pairs :
       access[p] = "live" \/ HasRefresh(p) => pairGrant[p] \in Grants /\ Live(pairGrant[p])
  /\ \A g \in Grants :
       Live(g) => grantUser[g] \in users /\ client[grantClient[g]] = "registered"

\* A code is worth one grant, ever.
OneGrantPerCode ==
  \A g, h \in Grants : origin[g] # None /\ origin[g] = origin[h] => g = h

\* However its tokens are presented, a grant has one refresh token to rotate.
OneFreshRefresh ==
  \A p, q \in Pairs :
    refresh[p] = "fresh" /\ refresh[q] = "fresh" /\ pairGrant[p] = pairGrant[q] => p = q

\* Tokens are answered only to the client the operator approved.
TokensReachTheirClient ==
  \A p \in Pairs :
    access[p] = "live" \/ HasRefresh(p) => holder[p] = grantClient[pairGrant[p]]

\* When a second presentation is answered as a replay, what the first one
\* issued is dead and stays so.  (ErrCodeReused: "What the code issued has
\* already been revoked when this is returned".)
ReplayEndsTheGrant ==
  \A g \in burned : ~Live(g) /\ \A p \in Of(g) : access[p] # "live" /\ ~HasRefresh(p)

\* A spent secret is recognised as spent for as long as the code promises:
\* SpentRetention past a code's expiry, a refresh token's own lifetime,
\* unless the row it hangs on goes first.
SpentIsRemembered ==
  [][/\ \A c \in Codes :
          code[c] = "spent" /\ code'[c] = "gone" =>
            \/ codeAge[c] >= CodeTTL + SpentRetention
            \/ client'[codeClient[c]] = "gone" \/ codeUser[c] \notin users'
     /\ \A p \in Pairs :
          refresh[p] = "spent" /\ refresh'[p] = "gone" =>
            pairAge[p] >= RefreshTTL \/ grant'[pairGrant[p]] = "gone"]_vars

\* A connection ends only on purpose: revoked by its operator, replaced by a
\* newer one, burned by a replay, or with its operator's account.  No cleanup
\* and no eviction ends one.
ConnectionsEndOnPurpose ==
  [][\A g \in Grants :
       Live(g) /\ grant'[g] = "gone" =>
         \/ RevokeOAuthGrant(grantUser[g], g)
         \/ \E h \in Grants : grant[h] = "none" /\ grant'[h] = "live"
              /\ grantClient'[h] = grantClient[g] /\ grantUser'[h] = grantUser[g]
         \/ g \in burned'
         \/ grantUser[g] \notin users']_vars

\* Whoever registered without being approved, or lost the approval, is pruned
\* in the end, and so is every spent code.
NothingLingers ==
  /\ \A cl \in Clients : cl \in Pending ~> cl \notin Pending
  /\ \A c \in Codes : code[c] = "spent" ~> code[c] # "spent"

\* Whatever is presented, however often and by whom, evicted, swept or revoked,
\* the tables are what Connection says of an operator's connections.
Approved == {<<c, codeUser[c], codeClient[c]>> : c \in {d \in Codes : code[d] = "fresh"}}
Links    == {<<g, grantUser[g], grantClient[g]>> : g \in {h \in Grants : Live(h)}}
Latest   == {<<pairGrant[p], p>> : p \in {q \in Pairs : refresh[q] = "fresh"}}
Works    == {<<pairGrant[p], p>> : p \in {q \in Pairs : access[q] = "live"}}
Drawn    == {c \in Codes : code[c] # "none"}
Issued   == {g \in Grants : grant[g] # "none"}
Minted   == {p \in Pairs : access[p] # "none" \/ refresh[p] # "none"}

Promise == INSTANCE Connection WITH
  approved <- Approved, linked <- Links, latest <- Latest, works <- Works,
  drawn <- Drawn, issued <- Issued, minted <- Minted

KeepsConnections == Promise!Spec
=============================================================================
