----------------------------- MODULE OAuthProofs -----------------------------
(* Proofs about OAuth, for any sets of clients, operators, codes, grants    *)
(* and tokens and for any lifetimes.                                        *)
EXTENDS OAuth, TLAPS

\* A code that can still be presented has its client and its operator.
CodesHangOn ==
  \A c \in Codes : code[c] \in {"fresh", "spent"} =>
    codeUser[c] \in users /\ client[codeClient[c]] = "registered"

\* A grant was issued for a code that is spent.
IssuedForSpent ==
  \A g \in Grants : origin[g] # None => code[origin[g]] \in {"spent", "gone"}

\* A code names only a grant that was issued.
CodesNameIssued ==
  \A c \in Codes : codeGrant[c] # None => grant[codeGrant[c]] # "none"

\* A burned grant is gone, and not merely still to be issued.
BurnedIsGone == \A g \in burned : grant[g] = "gone"

Unique ==
  OneGrantPerConnection /\ OneGrantPerCode /\ OneFreshRefresh /\ TokensReachTheirClient

Linked ==
  NothingOutlivesItsGrant /\ CodesHangOn /\ IssuedForSpent /\ CodesNameIssued /\ BurnedIsGone

\* The inductive invariant.
IInv == TypeOK /\ Unique /\ Linked
-----------------------------------------------------------------------------
(* Lemmas *)

\* What only takes things away keeps every uniqueness.
LEMMA Shrinking ==
  ASSUME TypeOK, Unique,
         UNCHANGED <<grantClient, grantUser, pairGrant, origin, holder>>,
         \A g \in Grants : grant'[g] = "live" => Live(g),
         \A p \in Pairs : access'[p] = "live" => access[p] = "live",
         \A p \in Pairs : refresh'[p] \in {"fresh", "spent"} => HasRefresh(p),
         \A p \in Pairs : refresh'[p] = "fresh" => refresh[p] = "fresh"
  PROVE  Unique'
<1>1. OneGrantPerConnection'
  BY DEF Unique, OneGrantPerConnection, Live
<1>2. OneGrantPerCode'
  BY DEF Unique, OneGrantPerCode
<1>3. OneFreshRefresh'
  BY DEF Unique, OneFreshRefresh
<1>4. TokensReachTheirClient'
  BY DEF Unique, TokensReachTheirClient, HasRefresh
<1> QED  BY <1>1, <1>2, <1>3, <1>4 DEF Unique

\* A burned grant has no token left that works.
LEMMA Burned == IInv => ReplayEndsTheGrant
BY DEF IInv, TypeOK, Linked, NothingOutlivesItsGrant, BurnedIsGone, ReplayEndsTheGrant, Of, Live

\* A pending client has no live grant.
LEMMA PendingHasNone ==
  ASSUME NEW cl \in Pending, NEW g \in Grants, Live(g)
  PROVE  grantClient[g] # cl /\ client[cl] = "registered"
BY DEF Pending, Granted

\* The initial database.
LEMMA InitIInv == Init => IInv
<1> SUFFICES ASSUME Init PROVE IInv
  OBVIOUS
<1>1. TypeOK
  BY ConstantsAssumption DEF Init, TypeOK, CodeType, GrantType, PairType, PairCap, HasRefresh
<1>2. Unique
  BY DEF Init, Unique, OneGrantPerConnection, OneGrantPerCode, OneFreshRefresh,
         TokensReachTheirClient, Live, HasRefresh
<1>3. Linked
  BY DEF Init, Linked, NothingOutlivesItsGrant, CodesHangOn, IssuedForSpent, CodesNameIssued,
         BurnedIsGone, Live, HasRefresh
<1> QED  BY <1>1, <1>2, <1>3 DEF IInv
-----------------------------------------------------------------------------
(* Registration and consent *)

\* Eviction takes only clients with no grant, and their codes.
LEMMA MakeRoomKeeps ==
  ASSUME IInv, NEW cl \in Clients, MakeRoomForOAuthClient(cl)
  PROVE  IInv'
<1> USE DEF grantVars, pairVars, histVars
<1>0. PICK K \in SUBSET Pending :
        /\ client' = [d \in Clients |-> IF d = cl THEN "registering"
                                        ELSE IF d \in Pending \ K THEN "gone" ELSE client[d]]
        /\ code' = DropCodes(CodesOf(Pending \ K))
  BY DEF MakeRoomForOAuthClient
<1>a. TypeOK /\ Unique /\ Linked
  BY DEF IInv
<1>b. client[cl] = "none"
  BY DEF MakeRoomForOAuthClient
<1>1. TypeOK'
  <2>1. CodeType'
    BY <1>0, <1>a DEF MakeRoomForOAuthClient, TypeOK, CodeType, DropCodes, CodesOf
  <2>2. GrantType' /\ PairType'
    BY <1>a DEF MakeRoomForOAuthClient, TypeOK, GrantType, PairType, HasRefresh
  <2>3. client' \in [Clients -> {"none", "registering", "registered", "gone"}]
    BY <1>0, <1>a DEF TypeOK
  <2> QED  BY <2>1, <2>2, <2>3, <1>a DEF MakeRoomForOAuthClient, TypeOK
<1>2. Unique'
  BY <1>a, Shrinking DEF MakeRoomForOAuthClient, Live, HasRefresh
<1>3. NothingOutlivesItsGrant'
  BY <1>0, <1>a, <1>b, PendingHasNone
     DEF MakeRoomForOAuthClient, Linked, NothingOutlivesItsGrant, TypeOK, GrantType, Live, HasRefresh
<1>4. CodesHangOn'
  BY <1>0, <1>a, <1>b DEF MakeRoomForOAuthClient, Linked, CodesHangOn, TypeOK, CodeType, DropCodes, CodesOf
<1>5. IssuedForSpent' /\ CodesNameIssued' /\ BurnedIsGone'
  BY <1>0, <1>a DEF MakeRoomForOAuthClient, Linked, IssuedForSpent, CodesNameIssued, BurnedIsGone,
         TypeOK, DropCodes, CodesOf
<1> QED  BY <1>1, <1>2, <1>3, <1>4, <1>5 DEF IInv, Linked

\* The rest of a registration touches a client nothing hangs on.
LEMMA RegistrationKeeps ==
  ASSUME IInv, NEW cl \in Clients, CreateOAuthClient(cl) \/ RegistrationEnds(cl)
  PROVE  IInv'
<1> USE DEF codeVars, grantVars, pairVars, histVars, CreateOAuthClient, RegistrationEnds
<1>a. TypeOK /\ Unique /\ Linked
  BY DEF IInv
<1>1. TypeOK'
  BY <1>a DEF TypeOK, CodeType, GrantType, PairType, HasRefresh
<1>2. Unique'
  BY <1>a, Shrinking DEF Live, HasRefresh
<1>3. NothingOutlivesItsGrant'
  BY <1>a DEF Linked, NothingOutlivesItsGrant, TypeOK, GrantType, Live, HasRefresh
<1>4. CodesHangOn'
  BY <1>a DEF Linked, CodesHangOn, TypeOK, CodeType
<1>5. IssuedForSpent' /\ CodesNameIssued' /\ BurnedIsGone'
  BY <1>a DEF Linked, IssuedForSpent, CodesNameIssued, BurnedIsGone
<1> QED  BY <1>1, <1>2, <1>3, <1>4, <1>5 DEF IInv, Linked

\* A new code hangs on a client and an operator that are there.
LEMMA CreateAuthCodeKeeps ==
  ASSUME IInv, NEW c \in Codes, NEW cl \in Clients, NEW u \in Users, CreateAuthCode(c, cl, u)
  PROVE  IInv'
<1> USE DEF clientVars, grantVars, pairVars, histVars, CreateAuthCode
<1>a. TypeOK /\ Unique /\ Linked
  BY DEF IInv
<1>1. TypeOK'
  BY <1>a DEF TypeOK, CodeType, GrantType, PairType, HasRefresh
<1>2. Unique'
  BY <1>a, Shrinking DEF Live, HasRefresh
<1>3. NothingOutlivesItsGrant'
  BY <1>a DEF Linked, NothingOutlivesItsGrant, Live, HasRefresh
<1>4. CodesHangOn'
  BY <1>a DEF Linked, CodesHangOn, TypeOK, CodeType
<1>5. IssuedForSpent' /\ CodesNameIssued' /\ BurnedIsGone'
  BY <1>a DEF Linked, IssuedForSpent, CodesNameIssued, BurnedIsGone, TypeOK, CodeType
<1> QED  BY <1>1, <1>2, <1>3, <1>4, <1>5 DEF IInv, Linked
-----------------------------------------------------------------------------
(* Revoking *)

\* Revoking any grants leaves no token of theirs.
LEMMA RevokeKeeps ==
  ASSUME IInv, NEW G \in SUBSET Grants, Revoke(G),
         UNCHANGED <<users, clientVars, codeVars, grantClient, grantUser, pairGrant, pairAge,
                     sweep, origin, holder>>,
         burned' \subseteq burned \cup {g \in Grants : grant'[g] = "gone"}
  PROVE  IInv'
<1> USE DEF clientVars, codeVars, Revoke
<1>a. TypeOK /\ Unique /\ Linked
  BY DEF IInv
<1>1. TypeOK'
  <2>1. CodeType' /\ GrantType'
    BY <1>a DEF TypeOK, CodeType, GrantType, GrantsWithout, Live
  <2>2. PairType'
    BY <1>a DEF TypeOK, PairType, HasRefresh, AccessWithout, RefreshWithout
  <2> QED  BY <2>1, <2>2, <1>a DEF TypeOK
<1>2. Unique'
  BY <1>a, Shrinking DEF Live, HasRefresh, AccessWithout, RefreshWithout, GrantsWithout
<1>3. NothingOutlivesItsGrant'
  BY <1>a DEF Linked, NothingOutlivesItsGrant, Live, HasRefresh, AccessWithout, RefreshWithout,
              GrantsWithout
<1>4. CodesHangOn' /\ IssuedForSpent'
  BY <1>a DEF Linked, CodesHangOn, IssuedForSpent
<1>5. CodesNameIssued' /\ BurnedIsGone'
  BY <1>a DEF Linked, CodesNameIssued, BurnedIsGone, TypeOK, CodeType, GrantsWithout, Live
<1> QED  BY <1>1, <1>2, <1>3, <1>4, <1>5 DEF IInv, Linked

\* An operator revokes a grant.
LEMMA RevokeOAuthGrantKeeps ==
  ASSUME IInv, NEW u \in Users, NEW g \in Grants, RevokeOAuthGrant(u, g)
  PROVE  IInv'
BY RevokeKeeps DEF RevokeOAuthGrant, histVars

\* An operator deletes an access token.
LEMMA DeleteAPITokenKeeps ==
  ASSUME IInv, NEW u \in Users, NEW p \in Pairs, DeleteAPIToken(u, p)
  PROVE  IInv'
<1> USE DEF clientVars, codeVars, grantVars, histVars, DeleteAPIToken
<1>a. TypeOK /\ Unique /\ Linked
  BY DEF IInv
<1>1. TypeOK'
  BY <1>a DEF TypeOK, CodeType, GrantType, PairType, HasRefresh
<1>2. Unique'
  BY <1>a, Shrinking DEF Live, HasRefresh, TypeOK, PairType
<1>3. NothingOutlivesItsGrant'
  BY <1>a DEF Linked, NothingOutlivesItsGrant, Live, HasRefresh, TypeOK, PairType
<1>4. CodesHangOn' /\ IssuedForSpent' /\ CodesNameIssued' /\ BurnedIsGone'
  BY <1>a DEF Linked, CodesHangOn, IssuedForSpent, CodesNameIssued, BurnedIsGone
<1> QED  BY <1>1, <1>2, <1>3, <1>4 DEF IInv, Linked

\* With a user go the codes, the grants and the tokens that are theirs.
LEMMA DeleteUserKeeps ==
  ASSUME IInv, NEW u \in Users, DeleteUser(u)
  PROVE  IInv'
<1> USE DEF clientVars, histVars, DeleteUser
<1>a. TypeOK /\ Unique /\ Linked
  BY DEF IInv
<1>1. TypeOK'
  <2>1. CodeType'
    BY <1>a DEF TypeOK, CodeType, DropCodes
  <2>2. GrantType'
    BY <1>a DEF TypeOK, GrantType, GrantsWithout, Live
  <2>3. PairType'
    BY <1>a DEF TypeOK, PairType, HasRefresh, RefreshWithout
  <2> QED  BY <2>1, <2>2, <2>3, <1>a DEF TypeOK
<1>2. Unique'
  BY <1>a, Shrinking DEF Live, HasRefresh, RefreshWithout, GrantsWithout
<1>3. NothingOutlivesItsGrant'
  <2>1. ASSUME NEW p \in Pairs, access'[p] = "live" \/ refresh'[p] \in {"fresh", "spent"}
        PROVE  pairGrant'[p] \in Grants /\ grant'[pairGrant'[p]] = "live"
    BY <2>1, <1>a DEF Linked, NothingOutlivesItsGrant, Live, HasRefresh, RefreshWithout, GrantsWithout
  <2>2. ASSUME NEW g \in Grants, grant'[g] = "live"
        PROVE  grantUser'[g] \in users' /\ client'[grantClient'[g]] = "registered"
    BY <2>2, <1>a DEF Linked, NothingOutlivesItsGrant, Live, GrantsWithout
  <2> QED  BY <2>1, <2>2 DEF NothingOutlivesItsGrant, Live, HasRefresh
<1>4. CodesHangOn' /\ IssuedForSpent'
  BY <1>a DEF Linked, CodesHangOn, IssuedForSpent, DropCodes, TypeOK, CodeType
<1>5. CodesNameIssued' /\ BurnedIsGone'
  BY <1>a DEF Linked, CodesNameIssued, BurnedIsGone, TypeOK, CodeType, GrantsWithout, Live
<1> QED  BY <1>1, <1>2, <1>3, <1>4, <1>5 DEF IInv, Linked
-----------------------------------------------------------------------------
(* The token endpoint *)

\* A refused code is spent, and nothing was issued for it.
LEMMA ExchangeRejectedKeeps ==
  ASSUME IInv, NEW c \in Codes, NEW cl \in Clients, ExchangeRejected(c, cl)
  PROVE  IInv'
<1> USE DEF clientVars, grantVars, pairVars, histVars, ExchangeRejected, Redeemable
<1>a. TypeOK /\ Unique /\ Linked
  BY DEF IInv
<1>1. TypeOK'
  BY <1>a DEF TypeOK, CodeType, GrantType, PairType, HasRefresh
<1>2. Unique'
  BY <1>a, Shrinking DEF Live, HasRefresh
<1>3. NothingOutlivesItsGrant'
  BY <1>a DEF Linked, NothingOutlivesItsGrant, Live, HasRefresh
<1>4. CodesHangOn' /\ IssuedForSpent'
  BY <1>a DEF Linked, CodesHangOn, IssuedForSpent, TypeOK, CodeType
<1>5. CodesNameIssued' /\ BurnedIsGone'
  BY <1>a DEF Linked, CodesNameIssued, BurnedIsGone
<1> QED  BY <1>1, <1>2, <1>3, <1>4, <1>5 DEF IInv, Linked

\* A redeemed code leaves one grant of its operator to its client, with one pair.
LEMMA ExchangeIssuesKeeps ==
  ASSUME IInv, NEW c \in Codes, NEW cl \in Clients, NEW g \in Grants, NEW p \in Pairs,
         ExchangeIssues(c, cl, g, p)
  PROVE  IInv'
<1> USE DEF clientVars, ExchangeIssues, Redeemable, Accepts, Mint
<1>a. TypeOK /\ Unique /\ Linked
  BY DEF IInv
<1>b. codeClient[c] = cl /\ codeUser[c] \in users /\ client[cl] = "registered"
  BY <1>a DEF Linked, CodesHangOn
<1>c. \A q \in Pairs : access[q] = "live" \/ HasRefresh(q) =>
        q # p /\ pairGrant[q] # g /\ pairGrant[q] \in Grants /\ Live(pairGrant[q])
  BY <1>a DEF Linked, NothingOutlivesItsGrant, Live, HasRefresh
<1>d. \A h \in Grants : grant'[h] = "live" =>
        h = g \/ (h # g /\ Live(h) /\ ~(grantClient[h] = cl /\ grantUser[h] = codeUser[c]))
  BY <1>a, <1>b DEF GrantsWithout, Replaced, Live, TypeOK, GrantType
<1>e. \A q \in Pairs : q # p =>
        /\ access'[q] = "live" => access[q] = "live" /\ pairGrant[q] \notin Replaced(c)
        /\ refresh'[q] \in {"fresh", "spent"} =>
             refresh'[q] = refresh[q] /\ HasRefresh(q) /\ pairGrant[q] \notin Replaced(c)
        /\ pairGrant'[q] = pairGrant[q] /\ holder'[q] = holder[q]
  BY <1>a DEF AccessWithout, RefreshWithout, HasRefresh, TypeOK, PairType
<1>f. pairGrant'[p] = g /\ holder'[p] = cl /\ grantClient'[g] = cl /\ grantUser'[g] = codeUser[c]
  BY <1>a, <1>b DEF TypeOK, PairType, GrantType
<1>g. \A h \in Grants : h # g => grantClient'[h] = grantClient[h] /\ grantUser'[h] = grantUser[h]
  BY <1>a DEF TypeOK, GrantType
<1>1. TypeOK'
  <2>1. CodeType'
    BY <1>a DEF TypeOK, CodeType
  <2>2. GrantType'
    BY <1>a, <1>b DEF TypeOK, GrantType, CodeType, GrantsWithout, Live
  <2>3. PairType'
    <3>1. access' \in [Pairs -> {"none", "live", "gone"}]
      BY <1>a DEF TypeOK, PairType, AccessWithout
    <3>2. refresh' \in [Pairs -> {"none", "fresh", "spent", "gone"}]
      BY <1>a DEF TypeOK, PairType, RefreshWithout
    <3>3. pairGrant' \in [Pairs -> Grants \cup {None}] /\ pairAge' \in [Pairs -> 0..PairCap]
      BY <1>a, ConstantsAssumption DEF TypeOK, PairType, PairCap
    <3>4. \A q \in Pairs : access'[q] = "live" \/ refresh'[q] \in {"fresh", "spent"}
                             => pairGrant'[q] \in Grants
      BY <1>c, <1>e, <1>f
    <3> QED  BY <3>1, <3>2, <3>3, <3>4 DEF PairType, HasRefresh, PairCap
  <2> QED  BY <2>1, <2>2, <2>3, <1>a DEF TypeOK
<1>2. OneGrantPerConnection'
  BY <1>a, <1>d, <1>f, <1>g DEF Unique, OneGrantPerConnection, Live
<1>3. OneGrantPerCode'
  BY <1>a DEF Unique, OneGrantPerCode, Linked, IssuedForSpent, TypeOK
<1>4. OneFreshRefresh'
  BY <1>a, <1>c, <1>e, <1>f DEF Unique, OneFreshRefresh, HasRefresh
<1>5. TokensReachTheirClient'
  BY <1>a, <1>c, <1>e, <1>f, <1>g DEF Unique, TokensReachTheirClient, HasRefresh
<1>6. NothingOutlivesItsGrant'
  <2>1. grant'[g] = "live"
    BY <1>a DEF TypeOK, GrantType, GrantsWithout
  <2>2. \A h \in Grants : h # g /\ Live(h) /\ h \notin Replaced(c) => grant'[h] = "live"
    BY <1>a DEF TypeOK, GrantType, GrantsWithout, Live
  <2>3. ASSUME NEW q \in Pairs, access'[q] = "live" \/ refresh'[q] \in {"fresh", "spent"}
        PROVE  pairGrant'[q] \in Grants /\ grant'[pairGrant'[q]] = "live"
    BY <2>1, <2>2, <2>3, <1>c, <1>e, <1>f
  <2>4. ASSUME NEW h \in Grants, grant'[h] = "live"
        PROVE  grantUser'[h] \in users' /\ client'[grantClient'[h]] = "registered"
    BY <2>4, <1>a, <1>b, <1>d, <1>f, <1>g DEF Linked, NothingOutlivesItsGrant
  <2> QED  BY <2>3, <2>4 DEF NothingOutlivesItsGrant, Live, HasRefresh
<1>7. CodesHangOn'
  BY <1>a DEF Linked, CodesHangOn, TypeOK, CodeType
<1>8. IssuedForSpent'
  BY <1>a DEF Linked, IssuedForSpent, TypeOK, CodeType
<1>9. CodesNameIssued' /\ BurnedIsGone'
  <2>1. \A h \in Grants : grant[h] # "none" => h # g /\ grant'[h] # "none"
    BY <1>a DEF TypeOK, GrantType, GrantsWithout
  <2>2. \A h \in Grants : grant[h] = "gone" => h # g /\ grant'[h] = "gone"
    BY <1>a DEF TypeOK, GrantType, GrantsWithout, Live
  <2>3. grant'[g] = "live"
    BY <1>a DEF TypeOK, GrantType, GrantsWithout
  <2>4. CodesNameIssued'
    BY <1>a, <2>1, <2>3 DEF Linked, CodesNameIssued, TypeOK, CodeType
  <2>5. BurnedIsGone'
    BY <1>a, <2>2 DEF Linked, BurnedIsGone, TypeOK
  <2> QED  BY <2>4, <2>5
<1> QED  BY <1>1, <1>2, <1>3, <1>4, <1>5, <1>6, <1>7, <1>8, <1>9 DEF IInv, Unique, Linked

\* A replayed code revokes what it issued.
LEMMA ExchangeReplayedKeeps ==
  ASSUME IInv, NEW c \in Codes, NEW cl \in Clients, ExchangeReplayed(c, cl)
  PROVE  IInv'
<1>1. burned' \subseteq burned \cup {g \in Grants : grant'[g] = "gone"}
  BY DEF ExchangeReplayed, Revoke, ReplayedGrants, GrantsWithout, Live, IInv, Linked, CodesNameIssued,
         TypeOK, CodeType, GrantType
<1>2. ReplayedGrants(codeGrant[c]) \in SUBSET Grants
  BY DEF ReplayedGrants
<1> QED  BY <1>1, <1>2, RevokeKeeps DEF ExchangeReplayed

\* A rotation moves the grant's one fresh refresh token to the new pair.
LEMMA RefreshRotatesKeeps ==
  ASSUME IInv, NEW p \in Pairs, NEW cl \in Clients, NEW q \in Pairs, RefreshRotates(p, cl, q)
  PROVE  IInv'
<1> USE DEF clientVars, codeVars, grantVars, RefreshRotates, Presentable, PresentedBy, Mint, Spend
<1>a. TypeOK /\ Unique /\ Linked
  BY DEF IInv
<1>b. pairGrant[p] \in Grants /\ Live(pairGrant[p]) /\ grantClient[pairGrant[p]] = cl /\ q # p
  BY <1>a DEF Linked, NothingOutlivesItsGrant, HasRefresh
<1>1. TypeOK'
  <2>1. CodeType' /\ GrantType'
    BY <1>a DEF TypeOK, CodeType, GrantType
  <2>2. PairType'
    BY <1>a, <1>b, ConstantsAssumption DEF TypeOK, PairType, HasRefresh, PairCap
  <2> QED  BY <2>1, <2>2, <1>a DEF TypeOK
<1>2. OneGrantPerConnection' /\ OneGrantPerCode'
  BY <1>a DEF Unique, OneGrantPerConnection, OneGrantPerCode, Live
<1>3. OneFreshRefresh'
  BY <1>a, <1>b DEF Unique, OneFreshRefresh, TypeOK, PairType
<1>4. TokensReachTheirClient'
  BY <1>a, <1>b DEF Unique, TokensReachTheirClient, TypeOK, PairType, HasRefresh
<1>5. NothingOutlivesItsGrant'
  BY <1>a, <1>b DEF Linked, NothingOutlivesItsGrant, TypeOK, PairType, HasRefresh, Live
<1>6. CodesHangOn' /\ IssuedForSpent' /\ CodesNameIssued' /\ BurnedIsGone'
  BY <1>a DEF Linked, CodesHangOn, IssuedForSpent, CodesNameIssued, BurnedIsGone
<1> QED  BY <1>1, <1>2, <1>3, <1>4, <1>5, <1>6 DEF IInv, Unique, Linked

\* A replayed refresh token revokes its grant.
LEMMA RefreshReplayedKeeps ==
  ASSUME IInv, NEW p \in Pairs, NEW cl \in Clients, RefreshReplayed(p, cl)
  PROVE  IInv'
<1>1. pairGrant[p] \in Grants /\ Live(pairGrant[p])
  BY DEF RefreshReplayed, Presentable, IInv, Linked, NothingOutlivesItsGrant
<1>2. burned' \subseteq burned \cup {g \in Grants : grant'[g] = "gone"}
  BY <1>1 DEF RefreshReplayed, Revoke, ReplayedGrants, GrantsWithout
<1>3. ReplayedGrants(pairGrant[p]) \in SUBSET Grants
  BY DEF ReplayedGrants
<1> QED  BY <1>2, <1>3, RevokeKeeps DEF RefreshReplayed
-----------------------------------------------------------------------------
(* The cleanup and the clock *)

\* The cleanup's statements take rows away, and grants only with their tokens.
LEMMA SweepKeeps ==
  ASSUME IInv, Sweep \/ SweepFails
  PROVE  IInv'
<1> USE DEF clientVars, codeVars, grantVars, pairVars, histVars
<1>a. TypeOK /\ Unique /\ Linked
  BY DEF IInv
<1>1. CASE SweepStarts \/ SweepFails
  <2>1. TypeOK'
    BY <1>1, <1>a DEF SweepStarts, SweepFails, TypeOK, CodeType, GrantType, PairType, HasRefresh
  <2>2. Unique'
    BY <1>1, <1>a, Shrinking DEF SweepStarts, SweepFails, Live, HasRefresh
  <2>3. Linked'
    BY <1>1, <1>a DEF SweepStarts, SweepFails, Linked, NothingOutlivesItsGrant, CodesHangOn,
       IssuedForSpent, CodesNameIssued, BurnedIsGone, Live, HasRefresh
  <2> QED  BY <2>1, <2>2, <2>3 DEF IInv
<1>2. CASE CleanCodes
  <2>1. TypeOK'
    BY <1>2, <1>a DEF CleanCodes, TypeOK, CodeType, GrantType, PairType, HasRefresh, DropCodes
  <2>2. Unique'
    BY <1>2, <1>a, Shrinking DEF CleanCodes, Live, HasRefresh
  <2>3. Linked'
    BY <1>2, <1>a DEF CleanCodes, Linked, NothingOutlivesItsGrant, CodesHangOn, IssuedForSpent,
       CodesNameIssued, BurnedIsGone, Live, HasRefresh, DropCodes, TypeOK, CodeType
  <2> QED  BY <2>1, <2>2, <2>3 DEF IInv
<1>3. CASE CleanRefresh \/ CleanAccess
  <2>1. TypeOK'
    BY <1>3, <1>a DEF CleanRefresh, CleanAccess, TypeOK, CodeType, GrantType, PairType, HasRefresh
  <2>2. Unique'
    BY <1>3, <1>a, Shrinking DEF CleanRefresh, CleanAccess, Live, HasRefresh
  <2>3. NothingOutlivesItsGrant'
    BY <1>3, <1>a DEF CleanRefresh, CleanAccess, Linked, NothingOutlivesItsGrant, Live, HasRefresh
  <2>4. CodesHangOn' /\ IssuedForSpent' /\ CodesNameIssued' /\ BurnedIsGone'
    BY <1>3, <1>a DEF CleanRefresh, CleanAccess, Linked, CodesHangOn, IssuedForSpent,
       CodesNameIssued, BurnedIsGone
  <2> QED  BY <2>1, <2>2, <2>3, <2>4 DEF IInv, Linked
<1>4. CASE CleanClients
  <2> DEFINE C == {cl \in Clients : Prunable(cl)}
             G == {g \in Grants : Live(g) /\ grantClient[g] \in C}
  <2>1. G = {}
    BY PendingHasNone DEF Prunable
  <2>2. /\ client' = [cl \in Clients |-> IF cl \in C THEN "gone" ELSE client[cl]]
        /\ code' = DropCodes(CodesOf(C))
        /\ grant' = GrantsWithout({}) /\ refresh' = RefreshWithout({}) /\ sweep' = "idle"
        /\ UNCHANGED <<users, clientAge, codeClient, codeUser, codeGrant, codeAge, grantClient,
                       grantUser, access, pairGrant, pairAge, histVars>>
    BY <1>4, <2>1 DEF CleanClients
  <2>3. grant' = grant /\ refresh' = refresh
    BY <2>2, <1>a DEF GrantsWithout, RefreshWithout, TypeOK, GrantType, PairType
  <2>4. TypeOK'
    <3>1. client' \in [Clients -> {"none", "registering", "registered", "gone"}]
      BY <2>2, <1>a DEF TypeOK
    <3>2. CodeType'
      BY <2>2, <1>a DEF TypeOK, CodeType, DropCodes, CodesOf
    <3>3. GrantType' /\ PairType'
      BY <2>2, <2>3, <1>a DEF TypeOK, GrantType, PairType, HasRefresh
    <3> QED  BY <2>2, <3>1, <3>2, <3>3, <1>a DEF TypeOK
  <2>5. Unique'
    BY <2>2, <2>3, <1>a, Shrinking DEF Live, HasRefresh
  <2>6. NothingOutlivesItsGrant'
    <3>1. \A g \in Grants : Live(g) => grantClient[g] \notin C
      BY <2>1
    <3>2. \A g \in Grants : Live(g) => grantClient[g] \in Clients
      BY <1>a DEF TypeOK, GrantType, Live
    <3>3. \A g \in Grants : Live(g) => client'[grantClient[g]] = client[grantClient[g]]
      BY <3>1, <3>2, <2>2
    <3> QED  BY <3>3, <2>2, <2>3, <1>a DEF Linked, NothingOutlivesItsGrant, Live, HasRefresh
  <2>7. CodesHangOn'
    BY <2>2, <1>a DEF Linked, CodesHangOn, TypeOK, CodeType, DropCodes, CodesOf
  <2>8. IssuedForSpent' /\ CodesNameIssued' /\ BurnedIsGone'
    BY <2>2, <2>3, <1>a DEF Linked, IssuedForSpent, CodesNameIssued, BurnedIsGone, TypeOK, CodeType,
       DropCodes, CodesOf
  <2> QED  BY <2>4, <2>5, <2>6, <2>7, <2>8 DEF IInv, Linked
<1> QED  BY <1>1, <1>2, <1>3, <1>4 DEF Sweep

\* Time changes ages only.
LEMMA TickKeeps == IInv /\ Tick => IInv'
<1> SUFFICES ASSUME IInv, Tick PROVE IInv'
  OBVIOUS
<1> USE DEF grantVars, histVars, Tick
<1>a. TypeOK /\ Unique /\ Linked
  BY DEF IInv
<1>1. TypeOK'
  <2>1. clientAge' \in [Clients -> 0..(ClientTTL + 1)]
    BY <1>a, ConstantsAssumption DEF TypeOK, Older
  <2>2. CodeType'
    BY <1>a, ConstantsAssumption DEF TypeOK, CodeType, Older
  <2>3. pairAge' \in [Pairs -> 0..PairCap]
    BY <1>a, ConstantsAssumption DEF TypeOK, PairType, Older, PairCap
  <2> QED  BY <2>1, <2>2, <2>3, <1>a DEF TypeOK, GrantType, PairType, HasRefresh, PairCap
<1>2. Unique'
  BY <1>a, Shrinking DEF Live, HasRefresh
<1>3. Linked'
  BY <1>a DEF Linked, NothingOutlivesItsGrant, CodesHangOn, IssuedForSpent, CodesNameIssued,
     BurnedIsGone, Live, HasRefresh
<1> QED  BY <1>1, <1>2, <1>3 DEF IInv
-----------------------------------------------------------------------------
(* The theorems *)

\* The strengthened invariant is inductive: codes hang on clients and operators
\* that exist, and what was issued is known, so a new grant finds no old token.
THEOREM Inductive == Spec => []IInv
<1>1. Init => IInv
  BY InitIInv
<1>2. IInv /\ [Next]_vars => IInv'
  <2> SUFFICES ASSUME IInv, [Next]_vars PROVE IInv'
    OBVIOUS
  <2>1. ASSUME NEW cl \in Clients, Register(cl) PROVE IInv'
    BY <2>1, MakeRoomKeeps, RegistrationKeeps DEF Register
  <2>2. ASSUME NEW cl \in Clients, Token(cl) PROVE IInv'
    BY <2>2, ExchangeRejectedKeeps, ExchangeReplayedKeeps, ExchangeIssuesKeeps,
       RefreshReplayedKeeps, RefreshRotatesKeeps DEF Token
  <2>3. ASSUME NEW u \in Users, Operator(u) PROVE IInv'
    BY <2>3, CreateAuthCodeKeeps, RevokeOAuthGrantKeeps, DeleteAPITokenKeeps, DeleteUserKeeps
       DEF Operator
  <2>4. CASE Sweep \/ SweepFails
    BY <2>4, SweepKeeps
  <2>5. CASE Tick
    BY <2>5, TickKeeps
  <2>6. CASE UNCHANGED vars
    BY <2>6 DEF vars, clientVars, codeVars, grantVars, pairVars, histVars, IInv, TypeOK, CodeType,
       GrantType, PairType, HasRefresh, Unique, OneGrantPerConnection, OneGrantPerCode,
       OneFreshRefresh, TokensReachTheirClient, Linked, NothingOutlivesItsGrant, CodesHangOn,
       IssuedForSpent, CodesNameIssued, BurnedIsGone, Live
  <2> QED  BY <2>1, <2>2, <2>3, <2>4, <2>5, <2>6 DEF Next
<1> QED  BY <1>1, <1>2, PTL DEF Spec

\* The database stays well typed, and no row loses the rows it refers to.
THEOREM TypeCorrect == Spec => []TypeOK
<1>1. IInv => TypeOK
  BY DEF IInv
<1> QED  BY <1>1, Inductive, PTL

\* Reconnecting replaces: an operator and a client share one grant.
THEOREM OneConnection == Spec => []OneGrantPerConnection
<1>1. IInv => OneGrantPerConnection
  BY DEF IInv, Unique
<1> QED  BY <1>1, Inductive, PTL

\* Tokens die with their grant, grants with their client and operator.
THEOREM NothingOutlives == Spec => []NothingOutlivesItsGrant
<1>1. IInv => NothingOutlivesItsGrant
  BY DEF IInv, Linked
<1> QED  BY <1>1, Inductive, PTL

\* A code is redeemed for at most one grant.
THEOREM CodeOnce == Spec => []OneGrantPerCode
<1>1. IInv => OneGrantPerCode
  BY DEF IInv, Unique
<1> QED  BY <1>1, Inductive, PTL

\* A grant has at most one refresh token to rotate.
THEOREM OneToRotate == Spec => []OneFreshRefresh
<1>1. IInv => OneFreshRefresh
  BY DEF IInv, Unique
<1> QED  BY <1>1, Inductive, PTL

\* Tokens were answered to the client that the operator approved.
THEOREM RightClient == Spec => []TokensReachTheirClient
<1>1. IInv => TokensReachTheirClient
  BY DEF IInv, Unique
<1> QED  BY <1>1, Inductive, PTL

\* What a replay revoked stays dead.
THEOREM ReplayIsFatal == Spec => []ReplayEndsTheGrant
BY Burned, Inductive, PTL
-----------------------------------------------------------------------------
(* How spent secrets and connections end *)

\* A spent code goes only when its retention is over or with what it hangs on.
CodeRemembered ==
  \A c \in Codes :
    code[c] = "spent" /\ code'[c] = "gone" =>
      \/ codeAge[c] >= CodeTTL + SpentRetention
      \/ client'[codeClient[c]] = "gone" \/ codeUser[c] \notin users'

\* A spent refresh token goes only when it expires or with its grant.
RefreshRemembered ==
  \A p \in Pairs :
    refresh[p] = "spent" /\ refresh'[p] = "gone" =>
      pairAge[p] >= RefreshTTL \/ grant'[pairGrant[p]] = "gone"

\* The steps that take codes away.
LEMMA CodeSteps == IInv /\ [Next]_vars => CodeRemembered
<1> SUFFICES ASSUME IInv, [Next]_vars, NEW c \in Codes, code[c] = "spent", code'[c] = "gone"
             PROVE  \/ codeAge[c] >= CodeTTL + SpentRetention
                    \/ client'[codeClient[c]] = "gone" \/ codeUser[c] \notin users'
  BY DEF CodeRemembered
<1>a. code \in [Codes -> {"none", "fresh", "spent", "gone"}] /\ codeAge[c] \in Nat
      /\ codeClient[c] \in Clients /\ codeUser[c] \in Users /\ client[codeClient[c]] = "registered"
  BY ConstantsAssumption DEF IInv, TypeOK, CodeType, Linked, CodesHangOn
<1>1. ASSUME NEW cl \in Clients, Register(cl) PROVE client'[codeClient[c]] = "gone"
  BY <1>1, <1>a DEF Register, MakeRoomForOAuthClient, CreateOAuthClient, RegistrationEnds, codeVars,
     DropCodes, CodesOf, IInv, TypeOK
<1>2. ASSUME NEW cl \in Clients, Token(cl) PROVE FALSE
  BY <1>2, <1>a DEF Token, ExchangeRejected, ExchangeReplayed, ExchangeIssues, RefreshReplayed,
     RefreshRotates, codeVars
<1>3. ASSUME NEW u \in Users, Operator(u) PROVE codeUser[c] \notin users'
  BY <1>3, <1>a DEF Operator, CreateAuthCode, RevokeOAuthGrant, DeleteAPIToken, DeleteUser, codeVars,
     DropCodes
<1>4. CASE Sweep \/ SweepFails
  <2>1. CASE CleanCodes
    BY <2>1, <1>a, ConstantsAssumption DEF CleanCodes, DropCodes, CodeKept
  <2>2. CASE CleanClients
    BY <2>2, <1>a DEF CleanClients, DropCodes, CodesOf
  <2>3. CASE SweepStarts \/ CleanRefresh \/ CleanAccess \/ SweepFails
    BY <2>3 DEF SweepStarts, CleanRefresh, CleanAccess, SweepFails, codeVars
  <2> QED  BY <1>4, <2>1, <2>2, <2>3 DEF Sweep
<1>5. CASE Tick \/ UNCHANGED vars
  BY <1>5 DEF Tick, vars, codeVars
<1> QED  BY <1>1, <1>2, <1>3, <1>4, <1>5 DEF Next

\* A pair's refresh token that revoking G took away, its grant live before.
LEMMA RevokedRefresh ==
  ASSUME IInv, NEW p \in Pairs, HasRefresh(p), NEW G \in SUBSET Grants, pairGrant[p] \in G,
         grant' = GrantsWithout(G)
  PROVE  grant'[pairGrant[p]] = "gone"
BY DEF IInv, Linked, NothingOutlivesItsGrant, GrantsWithout

\* The steps that take refresh tokens away.
LEMMA RefreshSteps == IInv /\ [Next]_vars => RefreshRemembered
<1> SUFFICES ASSUME IInv, [Next]_vars, NEW p \in Pairs, refresh[p] = "spent", refresh'[p] = "gone"
             PROVE  pairAge[p] >= RefreshTTL \/ grant'[pairGrant[p]] = "gone"
  BY DEF RefreshRemembered
<1>a. /\ refresh \in [Pairs -> {"none", "fresh", "spent", "gone"}] /\ pairAge[p] \in Int
      /\ RefreshTTL \in Int /\ HasRefresh(p) /\ pairGrant[p] \in Grants /\ Live(pairGrant[p])
  BY ConstantsAssumption DEF IInv, TypeOK, PairType, PairCap, Linked, NothingOutlivesItsGrant, HasRefresh
<1>1. ASSUME NEW cl \in Clients, Register(cl) PROVE FALSE
  BY <1>1 DEF Register, MakeRoomForOAuthClient, CreateOAuthClient, RegistrationEnds, pairVars
<1>2. ASSUME NEW cl \in Clients, Token(cl) PROVE grant'[pairGrant[p]] = "gone"
  <2>1. ASSUME NEW c \in Codes, ExchangeRejected(c, cl) PROVE FALSE
    BY <2>1 DEF ExchangeRejected, pairVars
  <2>2. ASSUME NEW c \in Codes, ExchangeReplayed(c, cl) PROVE grant'[pairGrant[p]] = "gone"
    BY <2>2, <1>a, RevokedRefresh DEF ExchangeReplayed, Revoke, RefreshWithout, ReplayedGrants
  <2>3. ASSUME NEW c \in Codes, NEW g \in Grants, NEW q \in Pairs, ExchangeIssues(c, cl, g, q)
        PROVE  grant'[pairGrant[p]] = "gone"
    <3>1. pairGrant[p] \in Replaced(c)
      BY <2>3, <1>a DEF ExchangeIssues, RefreshWithout
    <3>2. pairGrant[p] # g
      BY <2>3, <1>a DEF ExchangeIssues, Live
    <3> QED  BY <3>1, <3>2, <2>3, <1>a DEF ExchangeIssues, GrantsWithout
  <2>4. ASSUME NEW q \in Pairs, RefreshReplayed(q, cl) PROVE grant'[pairGrant[p]] = "gone"
    BY <2>4, <1>a, RevokedRefresh DEF RefreshReplayed, Revoke, RefreshWithout, ReplayedGrants
  <2>5. ASSUME NEW q \in Pairs, NEW r \in Pairs, RefreshRotates(q, cl, r) PROVE FALSE
    BY <2>5, <1>a DEF RefreshRotates, Spend
  <2> QED  BY <1>2, <2>1, <2>2, <2>3, <2>4, <2>5 DEF Token
<1>3. ASSUME NEW u \in Users, Operator(u) PROVE grant'[pairGrant[p]] = "gone"
  <2>1. ASSUME NEW c \in Codes, NEW cl \in Clients, CreateAuthCode(c, cl, u) PROVE FALSE
    BY <2>1 DEF CreateAuthCode, pairVars
  <2>2. ASSUME NEW g \in Grants, RevokeOAuthGrant(u, g) PROVE grant'[pairGrant[p]] = "gone"
    BY <2>2, <1>a, RevokedRefresh DEF RevokeOAuthGrant, Revoke, RefreshWithout
  <2>3. ASSUME NEW q \in Pairs, DeleteAPIToken(u, q) PROVE FALSE
    BY <2>3 DEF DeleteAPIToken
  <2>4. CASE DeleteUser(u)
    BY <2>4, <1>a, RevokedRefresh DEF DeleteUser, RefreshWithout
  <2> QED  BY <1>3, <2>1, <2>2, <2>3, <2>4 DEF Operator
<1>4. CASE Sweep \/ SweepFails
  <2>1. CASE CleanRefresh
    BY <2>1, <1>a DEF CleanRefresh, RefreshKept
  <2>2. CASE CleanClients
    BY <2>2, <1>a, RevokedRefresh DEF CleanClients, RefreshWithout
  <2>3. CASE SweepStarts \/ CleanCodes \/ CleanAccess \/ SweepFails
    BY <2>3 DEF SweepStarts, CleanCodes, CleanAccess, SweepFails, pairVars
  <2> QED  BY <1>4, <2>1, <2>2, <2>3 DEF Sweep
<1>5. CASE Tick \/ UNCHANGED vars
  BY <1>5 DEF Tick, vars, pairVars
<1> QED  BY <1>1, <1>2, <1>3, <1>4, <1>5 DEF Next

\* A spent secret is remembered for as long as the code promises.
THEOREM SpentRemembered == Spec => SpentIsRemembered
<1>1. IInv /\ [Next]_vars =>
        [/\ \A c \in Codes :
              code[c] = "spent" /\ code'[c] = "gone" =>
                \/ codeAge[c] >= CodeTTL + SpentRetention
                \/ client'[codeClient[c]] = "gone" \/ codeUser[c] \notin users'
         /\ \A p \in Pairs :
              refresh[p] = "spent" /\ refresh'[p] = "gone" =>
                pairAge[p] >= RefreshTTL \/ grant'[pairGrant[p]] = "gone"]_vars
  BY CodeSteps, RefreshSteps DEF CodeRemembered, RefreshRemembered
<1> QED  BY <1>1, Inductive, PTL DEF Spec, SpentIsRemembered

\* Why a grant may go.
EndedOnPurpose(g) ==
  \/ RevokeOAuthGrant(grantUser[g], g)
  \/ \E h \in Grants : grant[h] = "none" /\ grant'[h] = "live"
       /\ grantClient'[h] = grantClient[g] /\ grantUser'[h] = grantUser[g]
  \/ g \in burned'
  \/ grantUser[g] \notin users'

\* The steps that take grants away.
LEMMA GrantSteps ==
  ASSUME IInv, [Next]_vars, NEW g \in Grants, Live(g), grant'[g] = "gone"
  PROVE  EndedOnPurpose(g)
<1>a. grant \in [Grants -> {"none", "live", "gone"}] /\ grantClient \in [Grants -> Clients \cup {None}]
      /\ grantUser \in [Grants -> Users \cup {None}] /\ grant[g] = "live"
  BY DEF IInv, TypeOK, GrantType, Live
<1>1. ASSUME NEW cl \in Clients, Register(cl) PROVE FALSE
  BY <1>1, <1>a DEF Register, MakeRoomForOAuthClient, CreateOAuthClient, RegistrationEnds, grantVars
<1>2. ASSUME NEW cl \in Clients, Token(cl) PROVE EndedOnPurpose(g)
  <2>1. ASSUME NEW c \in Codes, ExchangeRejected(c, cl) PROVE FALSE
    BY <2>1, <1>a DEF ExchangeRejected, grantVars
  <2>2. ASSUME NEW c \in Codes, ExchangeReplayed(c, cl) PROVE g \in burned'
    <3>1. g = codeGrant[c]
      BY <2>2, <1>a DEF ExchangeReplayed, Revoke, GrantsWithout, ReplayedGrants
    <3> QED  BY <3>1, <2>2, ConstantsAssumption DEF ExchangeReplayed
  <2>3. ASSUME NEW c \in Codes, NEW h \in Grants, NEW q \in Pairs, ExchangeIssues(c, cl, h, q)
        PROVE  grant[h] = "none" /\ grant'[h] = "live"
               /\ grantClient'[h] = grantClient[g] /\ grantUser'[h] = grantUser[g]
    <3>1. g # h /\ grant[h] = "none"
      BY <2>3, <1>a DEF ExchangeIssues
    <3>2. g \in Replaced(c)
      BY <3>1, <2>3, <1>a DEF ExchangeIssues, GrantsWithout
    <3>3. grant'[h] = "live"
      BY <2>3, <1>a DEF ExchangeIssues, GrantsWithout
    <3>4. grantClient'[h] = codeClient[c] /\ grantUser'[h] = codeUser[c]
      BY <2>3, <1>a DEF ExchangeIssues
    <3> QED  BY <3>1, <3>2, <3>3, <3>4 DEF Replaced
  <2>4. ASSUME NEW q \in Pairs, RefreshReplayed(q, cl) PROVE g \in burned'
    BY <2>4, <1>a DEF RefreshReplayed, Revoke, GrantsWithout, ReplayedGrants
  <2>5. ASSUME NEW q \in Pairs, NEW r \in Pairs, RefreshRotates(q, cl, r) PROVE FALSE
    BY <2>5, <1>a DEF RefreshRotates, grantVars
  <2> QED  BY <1>2, <2>1, <2>2, <2>3, <2>4, <2>5 DEF Token, EndedOnPurpose
<1>3. ASSUME NEW u \in Users, Operator(u) PROVE EndedOnPurpose(g)
  <2>1. ASSUME NEW c \in Codes, NEW cl \in Clients, CreateAuthCode(c, cl, u) PROVE FALSE
    BY <2>1, <1>a DEF CreateAuthCode, grantVars
  <2>2. ASSUME NEW h \in Grants, RevokeOAuthGrant(u, h) PROVE RevokeOAuthGrant(grantUser[g], g)
    <3>1. g = h
      BY <2>2, <1>a DEF RevokeOAuthGrant, Revoke, GrantsWithout
    <3> QED  BY <3>1, <2>2 DEF RevokeOAuthGrant
  <2>3. ASSUME NEW q \in Pairs, DeleteAPIToken(u, q) PROVE FALSE
    BY <2>3, <1>a DEF DeleteAPIToken, grantVars
  <2>4. CASE DeleteUser(u)
    BY <2>4, <1>a DEF DeleteUser, GrantsWithout, EndedOnPurpose
  <2> QED  BY <1>3, <2>1, <2>2, <2>3, <2>4 DEF Operator, EndedOnPurpose
<1>4. CASE Sweep \/ SweepFails
  <2>1. CASE CleanClients
    BY <2>1, <1>a, PendingHasNone DEF CleanClients, GrantsWithout, Prunable
  <2>2. CASE SweepStarts \/ CleanCodes \/ CleanRefresh \/ CleanAccess \/ SweepFails
    BY <2>2, <1>a DEF SweepStarts, CleanCodes, CleanRefresh, CleanAccess, SweepFails, grantVars
  <2> QED  BY <1>4, <2>1, <2>2 DEF Sweep
<1>5. CASE Tick \/ UNCHANGED vars
  BY <1>5, <1>a DEF Tick, vars, grantVars
<1> QED  BY <1>1, <1>2, <1>3, <1>4, <1>5 DEF Next

\* No cleanup and no eviction ends a connection.
THEOREM EndsOnPurpose == Spec => ConnectionsEndOnPurpose
<1> DEFINE A == \A g \in Grants : Live(g) /\ grant'[g] = "gone" => EndedOnPurpose(g)
<1>1. IInv /\ [Next]_vars => [A]_vars
  BY GrantSteps
<1>2. Spec => [][A]_vars
  BY <1>1, Inductive, PTL DEF Spec
<1> QED  BY <1>2 DEF ConnectionsEndOnPurpose, EndedOnPurpose
-----------------------------------------------------------------------------
(* The tables implement Connection *)

\* What the mapped sets hold.
LEMMA InApproved ==
  ASSUME NEW c, NEW u, NEW cl
  PROVE  <<c, u, cl>> \in Approved
           <=> c \in Codes /\ code[c] = "fresh" /\ u = codeUser[c] /\ cl = codeClient[c]
BY DEF Approved

LEMMA InLinks ==
  ASSUME NEW g, NEW u, NEW cl
  PROVE  <<g, u, cl>> \in Links
           <=> g \in Grants /\ Live(g) /\ u = grantUser[g] /\ cl = grantClient[g]
BY DEF Links

LEMMA InLatest ==
  ASSUME NEW g, NEW p
  PROVE  <<g, p>> \in Latest <=> p \in Pairs /\ refresh[p] = "fresh" /\ g = pairGrant[p]
BY DEF Latest

LEMMA InWorks ==
  ASSUME NEW g, NEW p
  PROVE  <<g, p>> \in Works <=> p \in Pairs /\ access[p] = "live" /\ g = pairGrant[p]
BY DEF Works

\* The empty tables promise nothing yet.
LEMMA ConnectionInit == Init => Promise!Init
BY DEF Init, Promise!Init, Approved, Links, Latest, Works, Drawn, Issued, Minted, Live

\* A step that only takes rows away loses what they stood for.  What hung on
\* the grants it took went with them.
LEMMA Losing ==
  ASSUME NothingOutlivesItsGrant',
         UNCHANGED <<codeClient, codeUser, grantClient, grantUser, pairGrant>>,
         \A c \in Codes : /\ code'[c] = "fresh" => code[c] = "fresh"
                          /\ code'[c] = "none" <=> code[c] = "none",
         \A g \in Grants : /\ grant'[g] = "live" => Live(g)
                           /\ grant'[g] = "none" <=> grant[g] = "none",
         \A p \in Pairs : /\ refresh'[p] = "fresh" => refresh[p] = "fresh"
                          /\ refresh'[p] = "none" <=> refresh[p] = "none"
                          /\ access'[p] = "live" => access[p] = "live"
                          /\ access'[p] = "none" <=> access[p] = "none"
  PROVE  Promise!Next
<1> DEFINE G == {g \in Grants : Live(g) /\ grant'[g] # "live"}
<1>1. Approved' \subseteq Approved
  BY DEF Approved
<1>2. Links' = Promise!Without(G, Links)
  BY DEF Links, Promise!Without, Live
<1>3. Latest' \subseteq Promise!Without(G, Latest)
  BY DEF Latest, Promise!Without, NothingOutlivesItsGrant, HasRefresh, Live
<1>4. Works' \subseteq Promise!Without(G, Works)
  BY DEF Works, Promise!Without, NothingOutlivesItsGrant, Live
<1>5. UNCHANGED <<Drawn, Issued, Minted>>
  BY DEF Drawn, Issued, Minted
<1> QED  BY <1>1, <1>2, <1>3, <1>4, <1>5 DEF Promise!Lose, Promise!Next

\* Consent draws a code.
LEMMA Approves ==
  ASSUME IInv, NEW c \in Codes, NEW cl \in Clients, NEW u \in Users, CreateAuthCode(c, cl, u)
  PROVE  Promise!Next
<1> USE DEF grantVars, pairVars, CreateAuthCode
<1>a. CodeType
  BY DEF IInv, TypeOK
<1>1. Approved' = Approved \cup {<<c, u, cl>>}
  BY <1>a DEF Approved, CodeType
<1>2. c \notin Drawn /\ Drawn' = Drawn \cup {c}
  BY <1>a DEF Drawn, CodeType
<1>3. UNCHANGED <<Links, Latest, Works, Issued, Minted>>
  BY DEF Links, Latest, Works, Issued, Minted, Live
<1> QED  BY <1>1, <1>2, <1>3 DEF Promise!Approve, Promise!Next

\* A redeemed code connects, in the place of what it replaces.
LEMMA Connects ==
  ASSUME IInv, NEW c \in Codes, NEW cl \in Clients, NEW g \in Grants, NEW p \in Pairs,
         ExchangeIssues(c, cl, g, p)
  PROVE  Promise!Next
<1> USE DEF ExchangeIssues, Redeemable, Mint
<1> DEFINE u == codeUser[c]
           k == codeClient[c]
<1>a. CodeType /\ GrantType /\ PairType /\ NothingOutlivesItsGrant
  BY DEF IInv, TypeOK, Linked
<1>b. u \in Users /\ k \in Clients
  BY <1>a DEF CodeType
<1>1. Promise!Between(u, k) = Replaced(c)
  BY InLinks DEF Promise!Between, Replaced
<1>2. \A q \in Pairs : access[q] = "live" \/ HasRefresh(q) => q # p /\ pairGrant[q] # g
  BY <1>a DEF NothingOutlivesItsGrant, Live, HasRefresh
<1>3. /\ access'[p] = "live" /\ refresh'[p] = "fresh" /\ pairGrant'[p] = g
      /\ \A q \in Pairs : q # p =>
           /\ access'[q] = "live" <=> access[q] = "live" /\ pairGrant[q] \notin Replaced(c)
           /\ refresh'[q] = "fresh" <=> refresh[q] = "fresh" /\ pairGrant[q] \notin Replaced(c)
           /\ access'[q] = "none" <=> access[q] = "none"
           /\ refresh'[q] = "none" <=> refresh[q] = "none"
           /\ pairGrant'[q] = pairGrant[q]
  BY <1>a DEF AccessWithout, RefreshWithout, HasRefresh, PairType
<1>4. /\ grant'[g] = "live" /\ grantClient'[g] = k /\ grantUser'[g] = u
      /\ \A h \in Grants : h # g =>
           /\ grant'[h] = "live" <=> Live(h) /\ h \notin Replaced(c)
           /\ grant'[h] = "none" <=> grant[h] = "none"
           /\ grantClient'[h] = grantClient[h] /\ grantUser'[h] = grantUser[h]
  BY <1>a DEF GrantsWithout, GrantType, Live
<1>5. <<c, u, k>> \in Approved /\ Approved' = Approved \ {<<c, u, k>>}
  BY <1>a DEF Approved, CodeType
<1>6. g \notin Issued /\ Issued' = Issued \cup {g}
  BY <1>4 DEF Issued
<1>7. p \notin Minted /\ Minted' = Minted \cup {p}
  BY <1>3 DEF Minted
<1>8. Links' = Promise!Without(Replaced(c), Links) \cup {<<g, u, k>>}
  BY <1>4 DEF Links, Promise!Without, Live
<1>9. Latest' = Promise!Without(Replaced(c), Latest) \cup {<<g, p>>}
  BY <1>2, <1>3 DEF Latest, Promise!Without, HasRefresh
<1>10. Works' = Promise!Without(Replaced(c), Works) \cup {<<g, p>>}
  BY <1>2, <1>3 DEF Works, Promise!Without
<1>11. Drawn' = Drawn
  BY <1>a DEF Drawn, CodeType
<1>12. Promise!Connect(c, u, k, g, p)
  BY <1>1, <1>5, <1>6, <1>7, <1>8, <1>9, <1>10, <1>11 DEF Promise!Connect
<1> QED  BY <1>b, <1>12 DEF Promise!Next

\* A rotation goes on from the latest refresh token, and only from it.
LEMMA GoesOn ==
  ASSUME IInv, NEW p \in Pairs, NEW cl \in Clients, NEW q \in Pairs, RefreshRotates(p, cl, q)
  PROVE  Promise!Next
<1> USE DEF codeVars, grantVars, RefreshRotates, Mint, Spend
<1> DEFINE g == pairGrant[p]
<1>a. PairType /\ g \in Grants
  BY DEF IInv, TypeOK, Linked, NothingOutlivesItsGrant, HasRefresh
<1>1. <<g, p>> \in Latest
  BY InLatest
<1>2. q \notin Minted /\ Minted' = Minted \cup {q}
  BY <1>a DEF Minted, PairType
<1>3. Latest' = (Latest \ {<<g, p>>}) \cup {<<g, q>>}
  BY <1>a DEF Latest, PairType
<1>4. Works' = Works \cup {<<g, q>>}
  BY <1>a DEF Works, PairType
<1>5. UNCHANGED <<Approved, Links, Drawn, Issued>>
  BY DEF Approved, Links, Drawn, Issued, Live
<1> QED  BY <1>a, <1>1, <1>2, <1>3, <1>4, <1>5 DEF Promise!GoOn, Promise!Next

\* Revoking any grants is a loss.
LEMMA RevokeLoses ==
  ASSUME IInv, NothingOutlivesItsGrant', NEW G, Revoke(G),
         UNCHANGED <<codeVars, grantClient, grantUser, pairGrant>>
  PROVE  Promise!Next
BY Losing DEF IInv, TypeOK, GrantType, PairType, codeVars, Revoke, AccessWithout, RefreshWithout,
   GrantsWithout, Live, HasRefresh

\* Every step maps to a step: what does not approve, connect or go on is a loss,
\* if of nothing.
LEMMA ConnectionStep ==
  ASSUME IInv, NothingOutlivesItsGrant', [Next]_vars
  PROVE  [Promise!Next]_(Promise!vars)
<1>a. CodeType /\ GrantType /\ PairType
  BY DEF IInv, TypeOK
<1>1. ASSUME NEW cl \in Clients, Register(cl) PROVE Promise!Next
  BY <1>1, <1>a, Losing DEF Register, MakeRoomForOAuthClient, CreateOAuthClient, RegistrationEnds,
     codeVars, grantVars, pairVars, CodeType, DropCodes, CodesOf, Live
<1>2. ASSUME NEW cl \in Clients, Token(cl) PROVE Promise!Next
  <2>1. ASSUME NEW c \in Codes, ExchangeRejected(c, cl) PROVE Promise!Next
    BY <2>1, <1>a, Losing DEF ExchangeRejected, Redeemable, grantVars, pairVars, CodeType, Live
  <2>2. ASSUME NEW c \in Codes, ExchangeReplayed(c, cl) PROVE Promise!Next
    BY <2>2, RevokeLoses DEF ExchangeReplayed
  <2>3. ASSUME NEW p \in Pairs, RefreshReplayed(p, cl) PROVE Promise!Next
    BY <2>3, RevokeLoses DEF RefreshReplayed
  <2> QED  BY <1>2, <2>1, <2>2, <2>3, Connects, GoesOn DEF Token
<1>3. ASSUME NEW u \in Users, Operator(u) PROVE Promise!Next
  <2>1. ASSUME NEW g \in Grants, RevokeOAuthGrant(u, g) PROVE Promise!Next
    BY <2>1, RevokeLoses DEF RevokeOAuthGrant
  <2>2. ASSUME NEW p \in Pairs, DeleteAPIToken(u, p) PROVE Promise!Next
    BY <2>2, <1>a, Losing DEF DeleteAPIToken, codeVars, grantVars, PairType, Live
  <2>3. CASE DeleteUser(u)
    BY <2>3, <1>a, Losing DEF DeleteUser, CodeType, GrantType, PairType, DropCodes, RefreshWithout,
       GrantsWithout, Live, HasRefresh
  <2> QED  BY <1>3, <2>1, <2>2, <2>3, Approves DEF Operator
<1>4. CASE Sweep \/ SweepFails
  <2>1. CASE CleanCodes
    BY <2>1, <1>a, Losing DEF CleanCodes, grantVars, pairVars, CodeType, DropCodes, Live
  <2>2. CASE CleanRefresh \/ CleanAccess
    BY <2>2, <1>a, Losing DEF CleanRefresh, CleanAccess, codeVars, grantVars, PairType, HasRefresh,
       Live
  <2>3. CASE CleanClients
    BY <2>3, <1>a, Losing DEF CleanClients, CodeType, GrantType, PairType, DropCodes, CodesOf,
       RefreshWithout, GrantsWithout, Live, HasRefresh
  <2>4. CASE SweepStarts \/ SweepFails
    BY <2>4, Losing DEF SweepStarts, SweepFails, codeVars, grantVars, pairVars, Live
  <2> QED  BY <1>4, <2>1, <2>2, <2>3, <2>4 DEF Sweep
<1>5. CASE Tick \/ UNCHANGED vars
  BY <1>5, Losing DEF Tick, vars, codeVars, grantVars, pairVars, Live
<1> QED  BY <1>1, <1>2, <1>3, <1>4, <1>5 DEF Next

\* Whatever is presented, however often and by whom, evicted, swept or revoked,
\* the tables do to connections what Connection says, step by step: an approval
\* is worth one, a new one replaces the old with all that worked for it, it goes
\* on only from its latest refresh token, and what is lost never comes back.
THEOREM TablesKeepConnections == Spec => KeepsConnections
<1>1. IInv => NothingOutlivesItsGrant
  BY DEF IInv, Linked
<1>2. IInv /\ IInv' /\ [Next]_vars => [Promise!Next]_(Promise!vars)
  BY <1>1, ConnectionStep DEF IInv, Linked
<1> QED  BY <1>2, ConnectionInit, Inductive, PTL DEF Spec, KeepsConnections, Promise!Spec
=============================================================================
